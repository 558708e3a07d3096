------------------------- MODULE ItemUpdates_proofs -------------------------
(***************************************************************************)
(* Theorems about ItemUpdates, for every set of texts, orders and requests *)
(* in flight, every width of the column and every bound of the clock.      *)
(*                                                                         *)
(* The invariant says of a request that is about to commit an update what  *)
(* it need not write: a column whose value it found is one that has been   *)
(* seen with that value.  From the COMMIT on, all that it asked for has.   *)
(***************************************************************************)
EXTENDS ItemUpdates, TLAPS

RequestIsSound(s) ==
    LET q == req[s] IN
    /\ q.pc = "commit" /\ q.op = "create" => q.loaded = Blank /\ q.body \in Row
    /\ q.pc = "load" => q.op # "create"
    /\ q.pc \in {"load", "commit"} /\ q.op # "create" => state # "unborn"
    /\ q.pc \in {"load", "commit"} => ~q.wrote
    /\ q.pc = "commit" /\ q.op = "update" =>
          \A c \in Named(q.body) : q.loaded[c] = q.body[c] => c \in seen[s]
    /\ q.pc = "refresh" \/ (q.pc = "done" /\ q.status \in {200, 201}) => Named(q.body) \subseteq seen[s]
    /\ q.pc = "done" /\ q.status = 500 /\ q.wrote => state = "deleted"

Creating(s) == req[s].pc = "commit" /\ req[s].op = "create"

CreationsComeFirst ==
    \A s \in Slots : Creating(s) =>
        state = "unborn" /\ \A t \in Slots : Creating(t) => t = s

IInv ==
    /\ TypeOK
    /\ OrdersFit
    /\ state = "live" => column \in Row
    /\ CreationsComeFirst
    /\ \A s \in Slots : RequestIsSound(s)

----------------------------------------------------------------------------
(* Types of rows and requests. *)

LEMMA BlankIsBody == Blank \in Body /\ \A c \in Columns : Blank[c] = Unset
BY DEF Blank, Body, Columns

LEMMA RowIsBody == Row \subseteq Body
<1> SUFFICES ASSUME NEW row \in Row PROVE row \in Body
  OBVIOUS
<1>1. row \in [Columns -> Values \cup {Unset}]
  BY DEF Row
<1> QED
  BY <1>1 DEF Row, Body

LEMMA BodiesAreBodies ==
    ASSUME NEW o \in AllOps, NEW body \in Bodies(o)
    PROVE  body \in Body /\ (o = "create" => body \in Row)
<1>1. CASE o = "create"
  BY <1>1, RowIsBody DEF Bodies
<1>2. CASE o = "update"
  BY <1>2 DEF Bodies
<1>3. CASE o = "delete"
  BY <1>3, BlankIsBody DEF Bodies
<1> QED
  BY <1>1, <1>2, <1>3 DEF AllOps

LEMMA IdleIsRequest == Idle \in Request /\ Idle.pc = "idle"
BY BlankIsBody, NumbersAssumption DEF Idle, Request, AllOps

LEMMA BegunIsRequest ==
    ASSUME clock \in 0..MaxClock, NEW o \in AllOps, NEW body \in Body
    PROVE  Begun(o, body) \in Request
BY DEF Begun, Request, Awaits

LEMMA LoadedIsRequest ==
    ASSUME NEW r \in Request, NEW row \in Row \cup {Blank}
    PROVE  Loaded(r, row) \in Request
BY DEF Loaded, Request, Awaits

LEMMA CommittedIsRequest ==
    ASSUME NEW r \in Request, NEW wrote \in BOOLEAN
    PROVE  Committed(r, wrote) \in Request
BY DEF Committed, Request, Awaits

LEMMA DoneIsRequest ==
    ASSUME NEW r \in Request, NEW status \in {0, 200, 201, 204, 404, 500}
    PROVE  Done(r, status) \in Request
BY DEF Done, Request

\* The UPDATE of dirty columns leaves a row: each value is one of the body or of
\* the row that is there.
LEMMA WrittenIsRow ==
    ASSUME NEW q \in Request, column \in Row
    PROVE  Written(q) \in Row
<1>1. q.body \in Body
  BY DEF Request
<1>2. \A c \in Dirty(q) : q.body[c] # Unset
  BY DEF Dirty, Named
<1>3. \A c \in Columns : Written(q)[c] \in {column[c], q.body[c]} /\ (Written(q)[c] # Unset \/ Written(q)[c] = column[c])
  BY <1>2 DEF Written
<1>4. Written(q) \in [Columns -> Values]
  BY <1>1, <1>2 DEF Written, Body, Row
<1> QED
  BY <1>1, <1>3, <1>4 DEF Body, Row, Columns
----------------------------------------------------------------------------
(* What a step leaves alone. *)

\* A request that stays as it was stays sound: what has been seen remains so, and
\* an item that is deleted stays deleted.
LEMMA OthersStaySound ==
    ASSUME NEW s, RequestIsSound(s), UNCHANGED <<req[s]>>, seen[s] \subseteq seen'[s],
           state = "deleted" => state' = "deleted", state' = "unborn" => state = "unborn"
    PROVE  RequestIsSound(s)'
BY DEF RequestIsSound

\* The step of one request, that does not begin a creation.
LEMMA OneRequestMoves ==
    ASSUME IInv, NEW s \in Slots, NEW q \in Request,
           req' = [req EXCEPT ![s] = q], ~(q.pc = "commit" /\ q.op = "create"),
           state' \in {"unborn", "live", "deleted"}, column' \in Row \cup {Blank},
           updated' \in 0..MaxClock, stored' \in 0..MaxClock, UNCHANGED clock,
           seen' \in [Slots -> SUBSET Columns],
           OrdersFit', state' = "live" => column' \in Row,
           state' = state \/ \A t \in Slots \ {s} : ~Creating(t),
           state = "deleted" => state' = "deleted", state' = "unborn" => state = "unborn",
           \A t \in Slots \ {s} : seen[t] \subseteq seen'[t],
           RequestIsSound(s)'
    PROVE  IInv'
<1>1. req' \in [Slots -> Request] /\ req'[s] = q
  BY DEF IInv, TypeOK
<1>2. \A t \in Slots \ {s} : req'[t] = req[t]
  BY DEF IInv, TypeOK
<1>3. TypeOK'
  BY <1>1 DEF IInv, TypeOK
<1>4. CreationsComeFirst'
  <2>1. \A t \in Slots : Creating(t)' => t # s /\ Creating(t)
    BY <1>1, <1>2 DEF Creating
  <2> QED
    BY <2>1 DEF IInv, CreationsComeFirst
<1>5. ASSUME NEW t \in Slots, t # s PROVE RequestIsSound(t)'
  BY <1>2, <1>5, OthersStaySound DEF IInv
<1> QED
  BY <1>3, <1>4, <1>5 DEF IInv

\* The same for a step that leaves the item alone.
LEMMA OneRequestReads ==
    ASSUME IInv, NEW s \in Slots, NEW q \in Request,
           req' = [req EXCEPT ![s] = q], ~(q.pc = "commit" /\ q.op = "create"),
           UNCHANGED <<state, column, updated, stored, clock>>, seen' \in [Slots -> SUBSET Columns],
           \A t \in Slots \ {s} : seen[t] \subseteq seen'[t],
           RequestIsSound(s)'
    PROVE  IInv'
<1>1. OrdersFit'
  BY DEF IInv, OrdersFit
<1>2. /\ state' \in {"unborn", "live", "deleted"} /\ column' \in Row \cup {Blank}
      /\ updated' \in 0..MaxClock /\ stored' \in 0..MaxClock
      /\ (state' = "live" => column' \in Row)
  BY DEF IInv, TypeOK
<1> QED
  BY <1>1, <1>2, OneRequestMoves
----------------------------------------------------------------------------
(* The steps. *)

LEMMA InitHolds == Init => IInv
<1> SUFFICES ASSUME Init PROVE IInv
  OBVIOUS
<1> HIDE DEF Idle, Blank
<1>1. \A s \in Slots : req[s] = Idle
  BY DEF Init
<1>2. TypeOK
  BY <1>1, IdleIsRequest, NumbersAssumption DEF Init, TypeOK
<1>3. \A s \in Slots : RequestIsSound(s) /\ ~Creating(s)
  BY <1>1, IdleIsRequest DEF RequestIsSound, Creating
<1> QED
  BY <1>2, <1>3 DEF IInv, Init, OrdersFit, CreationsComeFirst

LEMMA TickHolds == IInv /\ Tick => IInv'
<1> SUFFICES ASSUME IInv, Tick PROVE IInv'
  OBVIOUS
<1>1. clock' \in 0..MaxClock
  BY NumbersAssumption DEF Tick, IInv, TypeOK
<1>2. TypeOK' /\ OrdersFit' /\ CreationsComeFirst'
  BY <1>1 DEF Tick, IInv, TypeOK, OrdersFit, CreationsComeFirst, Creating
<1>3. \A s \in Slots : RequestIsSound(s)'
  BY OthersStaySound DEF Tick, IInv
<1> QED
  BY <1>2, <1>3 DEF IInv, Tick

\* A creation begins when there is no item and no other creation.
LEMMA BeginHolds ==
    ASSUME IInv, NEW s \in Slots, Begin(s)
    PROVE  IInv'
<1>1. PICK o \in Ops : \E body \in Bodies(o) :
          /\ o = "create" => state = "unborn" /\ \A t \in Slots : req[t].op = "create" => req[t].pc = "idle"
          /\ o # "create" => state # "unborn"
          /\ req' = [req EXCEPT ![s] = Begun(o, body)]
  BY DEF Begin
<1>2. PICK body \in Bodies(o) :
          /\ o = "create" => state = "unborn" /\ \A t \in Slots : req[t].op = "create" => req[t].pc = "idle"
          /\ o # "create" => state # "unborn"
          /\ req' = [req EXCEPT ![s] = Begun(o, body)]
  BY <1>1
<1>3. Begun(o, body) \in Request
  BY <1>2, OpsAssumption, BodiesAreBodies, BegunIsRequest DEF IInv, TypeOK
<1> PICK q \in Request : q = Begun(o, body)
  BY <1>3
<1>4. /\ q.pc = (IF o = "create" THEN "commit" ELSE "load") /\ q.op = o /\ q.body = body
      /\ q.loaded = Blank /\ q.wrote = FALSE
  BY DEF Begun
<1>5. req' = [req EXCEPT ![s] = q] /\ UNCHANGED <<state, column, updated, stored, clock, seen>>
  BY <1>2 DEF Begin, OnlyControl
<1>6. req'[s] = q /\ \A t \in Slots \ {s} : req'[t] = req[t]
  BY <1>5 DEF IInv, TypeOK
<1>7. q.op = "create" => q.body \in Row
  BY <1>2, <1>4, BodiesAreBodies, OpsAssumption
<1>8. RequestIsSound(s)'
  <2> HIDE DEF Blank, Row
  <2>1. CASE o = "create"
    BY <2>1, <1>4, <1>6, <1>7 DEF RequestIsSound
  <2>2. CASE o # "create"
    BY <2>2, <1>2, <1>4, <1>5, <1>6 DEF RequestIsSound
  <2> QED
    BY <2>1, <2>2
<1>9. CASE o # "create"
  BY <1>4, <1>5, <1>8, <1>9, OneRequestReads DEF IInv, TypeOK
<1>10. CASE o = "create"
  <2>1. TypeOK' /\ OrdersFit' /\ (state' = "live" => column' \in Row)
    BY <1>5 DEF IInv, TypeOK, OrdersFit
  <2>2. state' = "unborn" /\ \A t \in Slots \ {s} : ~Creating(t)'
    BY <1>2, <1>5, <1>6, <1>10 DEF Creating
  <2>3. CreationsComeFirst'
    BY <2>2 DEF CreationsComeFirst
  <2>4. ASSUME NEW t \in Slots, t # s PROVE RequestIsSound(t)'
    BY <1>5, <1>6, <2>4, OthersStaySound DEF IInv
  <2> QED
    BY <1>8, <2>1, <2>3, <2>4 DEF IInv
<1> QED
  BY <1>9, <1>10

\* An answer of the handler: a success has been stored, a failure wrote nothing.
LEMMA AnswerHolds ==
    ASSUME IInv, NEW s \in Slots, NEW status \in {0, 200, 201, 204, 404, 500},
           Answer(s, status), UNCHANGED <<state, column, updated, stored, clock, seen>>,
           status = 500 /\ req[s].wrote => state = "deleted",
           status \in {200, 201} => Named(req[s].body) \subseteq seen[s]
    PROVE  IInv'
<1>1. Done(req[s], status) \in Request
  BY DoneIsRequest DEF IInv, TypeOK
<1> PICK q \in Request : q = Done(req[s], status)
  BY <1>1
<1>2. /\ q.pc = "done" /\ q.body = req[s].body /\ q.wrote = req[s].wrote
      /\ q.status = status
  BY DEF Done
<1>3. req' = [req EXCEPT ![s] = q]
  BY DEF Answer
<1>4. req'[s] = q
  BY <1>3 DEF IInv, TypeOK
<1>5. RequestIsSound(s)'
  BY <1>2, <1>4 DEF RequestIsSound
<1>6. seen' \in [Slots -> SUBSET Columns]
  BY DEF IInv, TypeOK
<1> QED
  BY <1>2, <1>3, <1>5, <1>6, OneRequestReads

LEMMA LoadHolds ==
    ASSUME IInv, NEW s \in Slots, Load(s)
    PROVE  IInv'
<1>1. CASE state = "deleted" /\ Answer(s, 404) /\ OnlyControl
  BY <1>1, AnswerHolds DEF OnlyControl
<1>2. CASE /\ state = "live"
           /\ req' = [req EXCEPT ![s] = Loaded(req[s], column)]
           /\ seen' = [seen EXCEPT ![s] = Held(req[s])]
           /\ UNCHANGED <<state, column, updated, stored, clock>>
  <2>1. Loaded(req[s], column) \in Request
    BY LoadedIsRequest DEF IInv, TypeOK
  <2> PICK q \in Request : q = Loaded(req[s], column)
    BY <2>1
  <2>2. /\ q.pc = "commit" /\ q.op = req[s].op /\ q.body = req[s].body
        /\ q.loaded = column /\ q.wrote = FALSE
    BY DEF Loaded
  <2>3. req' = [req EXCEPT ![s] = q] /\ req'[s] = q
    BY <1>2 DEF IInv, TypeOK
  <2>4. /\ seen' \in [Slots -> SUBSET Columns] /\ seen'[s] = Held(req[s])
        /\ \A t \in Slots \ {s} : seen'[t] = seen[t]
    BY <1>2 DEF IInv, TypeOK, Held
  <2>5. q.op # "create"
    BY <2>2 DEF Load, IInv, RequestIsSound
  <2>6. \A c \in Named(q.body) : q.loaded[c] = q.body[c] => c \in seen'[s]
    BY <2>2, <2>4 DEF Named, Held
  <2>7. RequestIsSound(s)'
    BY <1>2, <2>2, <2>3, <2>5, <2>6 DEF RequestIsSound
  <2> QED
    BY <1>2, <2>3, <2>4, <2>5, <2>7, OneRequestReads
<1> QED
  BY <1>1, <1>2 DEF Load
\* After the row has been written every request with the item loaded has seen it.
LEMMA WriteHolds ==
    ASSUME IInv, NEW s \in Slots, req[s].pc = "commit",
           req' = [req EXCEPT ![s] = Committed(req[s], TRUE)], UNCHANGED clock,
           state' = "live", column' \in Row, updated' = req[s].began, stored' = clock,
           Witness, OrdersFit',
           state # "deleted", state = "live" \/ \A t \in Slots \ {s} : ~Creating(t),
           \A c \in Named(req[s].body) : column'[c] = req[s].body[c] \/ c \in seen[s]
    PROVE  IInv'
<1>1. Committed(req[s], TRUE) \in Request /\ req[s] \in Request
  BY CommittedIsRequest DEF IInv, TypeOK
<1> PICK q \in Request : q = Committed(req[s], TRUE)
  BY <1>1
<1>2. q.pc = "refresh" /\ q.op = req[s].op /\ q.body = req[s].body
  BY DEF Committed
<1>3. req' = [req EXCEPT ![s] = q] /\ req'[s] = q
  BY DEF IInv, TypeOK
<1>4. seen' = [t \in Slots |-> IF req'[t].pc \in {"commit", "refresh"}
                                THEN seen[t] \cup {c \in Columns : req'[t].body[c] = column'[c]}
                                ELSE seen[t]]
  BY DEF Witness, Held
<1>5. seen' \in [Slots -> SUBSET Columns] /\ \A t \in Slots : seen[t] \subseteq seen'[t]
  BY <1>4 DEF IInv, TypeOK
<1>6. Named(q.body) \subseteq seen'[s]
  BY <1>2, <1>3, <1>4 DEF Named
<1>7. RequestIsSound(s)'
  BY <1>2, <1>3, <1>6 DEF RequestIsSound
<1>8. updated' \in 0..MaxClock /\ stored' \in 0..MaxClock
  BY <1>1 DEF Request, IInv, TypeOK
<1> QED
  BY <1>2, <1>3, <1>5, <1>7, <1>8, OneRequestMoves

LEMMA CommitCreateHolds ==
    ASSUME IInv, NEW s \in Slots, CommitCreate(s)
    PROVE  IInv'
<1>1. CASE ~Storable(req[s]) /\ Answer(s, 500) /\ OnlyControl
  <2>1. ~req[s].wrote
    BY DEF CommitCreate, IInv, RequestIsSound
  <2>2. UNCHANGED <<state, column, updated, stored, clock, seen>>
    BY <1>1 DEF OnlyControl
  <2> QED
    BY <1>1, <2>1, <2>2, AnswerHolds
<1>2. CASE /\ Storable(req[s]) /\ state' = "live" /\ column' = req[s].body
           /\ updated' = req[s].began /\ stored' = clock
           /\ req' = [req EXCEPT ![s] = Committed(req[s], TRUE)]
           /\ Witness /\ UNCHANGED clock
  <2>1. Creating(s) /\ req[s].loaded = Blank /\ req[s].body \in Row
    BY DEF CommitCreate, IInv, RequestIsSound, Creating
  <2>2. state = "unborn" /\ \A t \in Slots \ {s} : ~Creating(t)
    BY <2>1 DEF IInv, CreationsComeFirst
  \* The order that is inserted is one that is written.
  <2>3. "order" \in Dirty(req[s])
    <3>1. req[s].body["order"] # Unset
      BY <2>1, UnsetAssumption DEF Row
    <3> QED
      BY <2>1, <3>1, BlankIsBody DEF Dirty, Named, Columns
  <2>4. OrdersFit'
    BY <1>2, <2>3 DEF Storable, OrdersFit
  <2>5. req[s].pc = "commit"
    BY DEF CommitCreate
  <2> QED
    BY <1>2, <2>1, <2>2, <2>4, <2>5, WriteHolds
<1> QED
  BY <1>1, <1>2 DEF CommitCreate, Stamp

\* Nothing is dirty: every column was found as the body asks for it.
LEMMA SkipUpdateHolds ==
    ASSUME IInv, NEW s \in Slots, SkipUpdate(s)
    PROVE  IInv'
<1>1. Committed(req[s], FALSE) \in Request
  BY CommittedIsRequest DEF IInv, TypeOK
<1> PICK q \in Request : q = Committed(req[s], FALSE)
  BY <1>1
<1>2. q.pc = "refresh" /\ q.body = req[s].body
  BY DEF Committed
<1>3. req' = [req EXCEPT ![s] = q] /\ req'[s] = q /\ UNCHANGED <<state, column, updated, stored, clock, seen>>
  BY DEF IInv, TypeOK, SkipUpdate, OnlyControl
<1>4. Named(q.body) \subseteq seen[s]
  BY <1>2 DEF SkipUpdate, Updating, Dirty, Named, IInv, RequestIsSound
<1>5. RequestIsSound(s)'
  BY <1>2, <1>3, <1>4 DEF RequestIsSound
<1>6. seen' \in [Slots -> SUBSET Columns]
  BY <1>3 DEF IInv, TypeOK
<1> QED
  BY <1>2, <1>3, <1>5, <1>6, OneRequestReads

LEMMA FailUpdateHolds ==
    ASSUME IInv, NEW s \in Slots, FailUpdate(s)
    PROVE  IInv'
<1>1. ~req[s].wrote
  BY DEF FailUpdate, Updating, IInv, RequestIsSound
<1> QED
  BY <1>1, AnswerHolds DEF FailUpdate, OnlyControl

\* What is dirty is written, and what is not has been seen.
LEMMA WriteUpdateHolds ==
    ASSUME IInv, NEW s \in Slots, WriteUpdate(s)
    PROVE  IInv'
<1>1. /\ req[s].pc = "commit" /\ req[s].op = "update" /\ state = "live" /\ state' = "live"
      /\ column' = Written(req[s]) /\ updated' = req[s].began /\ stored' = clock
      /\ Witness /\ UNCHANGED clock /\ req' = [req EXCEPT ![s] = Committed(req[s], TRUE)] /\ Storable(req[s])
  BY DEF WriteUpdate, Updating, Stamp
<1>2. column' \in Row
  BY <1>1, WrittenIsRow DEF IInv, TypeOK
<1>3. ASSUME NEW c \in Named(req[s].body)
      PROVE  column'[c] = req[s].body[c] \/ c \in seen[s]
  BY <1>1 DEF Written, Dirty, Named, IInv, RequestIsSound
<1>4. OrdersFit'
  BY <1>1 DEF Written, Storable, Columns, OrdersFit, IInv
<1> QED
  BY <1>1, <1>2, <1>3, <1>4, WriteHolds

LEMMA CommitDeleteHolds ==
    ASSUME IInv, NEW s \in Slots, CommitDelete(s)
    PROVE  IInv'
<1>1. Done(req[s], 204) \in Request
  BY DoneIsRequest DEF IInv, TypeOK
<1> PICK q \in Request : q = Done(req[s], 204)
  BY <1>1
<1>2. q.pc = "done" /\ q.status = 204
  BY DEF Done
<1>3. /\ req' = [req EXCEPT ![s] = q] /\ req'[s] = q
      /\ state' = "deleted" /\ UNCHANGED <<column, updated, stored, clock, seen>>
  BY DEF CommitDelete, Answer, IInv, TypeOK
<1>4. \A t \in Slots : ~Creating(t)
  BY DEF CommitDelete, IInv, RequestIsSound, CreationsComeFirst
<1>5. RequestIsSound(s)' /\ OrdersFit'
  BY <1>2, <1>3 DEF RequestIsSound, OrdersFit
<1>6. /\ column' \in Row \cup {Blank} /\ updated' \in 0..MaxClock /\ stored' \in 0..MaxClock
      /\ seen' \in [Slots -> SUBSET Columns] /\ UNCHANGED clock
      /\ \A t \in Slots \ {s} : seen[t] \subseteq seen'[t]
  BY <1>3 DEF IInv, TypeOK
<1>7. /\ state' \in {"unborn", "live", "deleted"} /\ state' # "live" /\ state' # "unborn"
      /\ ~(q.pc = "commit" /\ q.op = "create")
  BY <1>2, <1>3
<1> QED
  BY <1>3, <1>4, <1>5, <1>6, <1>7, OneRequestMoves

LEMMA RefreshHolds ==
    ASSUME IInv, NEW s \in Slots, Refresh(s)
    PROVE  IInv'
<1>1. PICK status \in {200, 201, 500} : Answer(s, status) /\ (status = 500 => state = "deleted")
  BY DEF Refresh
<1>2. Named(req[s].body) \subseteq seen[s]
  BY DEF Refresh, IInv, RequestIsSound
<1> QED
  BY <1>1, <1>2, AnswerHolds DEF Refresh, OnlyControl

LEMMA ReceiveHolds ==
    ASSUME IInv, NEW s \in Slots, Receive(s)
    PROVE  IInv'
<1> HIDE DEF Idle
<1>1. req' = [req EXCEPT ![s] = Idle] /\ req'[s] = Idle
  BY DEF Receive, IInv, TypeOK
<1>2. /\ seen' \in [Slots -> SUBSET Columns] /\ UNCHANGED <<state, column, updated, stored, clock>>
      /\ \A t \in Slots \ {s} : seen'[t] = seen[t]
  BY DEF Receive, IInv, TypeOK
<1>3. RequestIsSound(s)'
  BY <1>1, IdleIsRequest DEF RequestIsSound
<1> QED
  BY <1>1, <1>2, <1>3, IdleIsRequest, OneRequestReads

LEMMA StutterHolds == IInv /\ UNCHANGED vars => IInv'
BY DEF vars, IInv, TypeOK, OrdersFit, CreationsComeFirst, Creating, RequestIsSound

LEMMA StepHolds == IInv /\ [Next]_vars => IInv'
<1> SUFFICES ASSUME IInv, [Next]_vars PROVE IInv'
  OBVIOUS
<1>1. ASSUME NEW s \in Slots, Begin(s) \/ Receive(s) \/ Load(s) \/ Refresh(s) PROVE IInv'
  BY <1>1, BeginHolds, ReceiveHolds, LoadHolds, RefreshHolds
<1>2. ASSUME NEW s \in Slots, CommitCreate(s) \/ CommitDelete(s) PROVE IInv'
  BY <1>2, CommitCreateHolds, CommitDeleteHolds
<1>3. ASSUME NEW s \in Slots, SkipUpdate(s) \/ FailUpdate(s) \/ WriteUpdate(s) PROVE IInv'
  BY <1>3, SkipUpdateHolds, FailUpdateHolds, WriteUpdateHolds
<1> QED
  BY <1>1, <1>2, <1>3, TickHolds, StutterHolds DEF Next, Continue
----------------------------------------------------------------------------
(* What the invariant says of answers and steps. *)

LEMMA AnswersWereStored == IInv => AnsweredUpdatesWereStored
BY DEF IInv, RequestIsSound, Named, AnsweredUpdatesWereStored

LEMMA FailuresWroteNothing == IInv => FailuresWriteNothing
BY DEF IInv, RequestIsSound, FailuresWriteNothing

OthersAreKept ==
    \A c \in Columns : state = "live" /\ column'[c] # column[c] =>
        \E s \in Slots : req[s].pc = "commit" /\ req'[s].pc = "refresh" /\ column'[c] = req[s].body[c]

LEMMA StepsKeepOthers == IInv /\ [Next]_vars => [OthersAreKept]_vars
<1> SUFFICES ASSUME IInv, Next, NEW c \in Columns, state = "live", column'[c] # column[c]
             PROVE  \E s \in Slots : /\ req[s].pc = "commit" /\ req'[s].pc = "refresh"
                                      /\ column'[c] = req[s].body[c]
  BY DEF OthersAreKept
<1>1. ASSUME NEW s \in Slots, WriteUpdate(s)
      PROVE  req[s].pc = "commit" /\ req'[s].pc = "refresh" /\ column'[c] = req[s].body[c]
  <2>1. column' = Written(req[s]) /\ req[s].pc = "commit"
    BY <1>1 DEF WriteUpdate, Updating
  <2>2. req'[s] = Committed(req[s], TRUE)
    BY <1>1 DEF WriteUpdate, IInv, TypeOK
  <2> QED
    BY <2>1, <2>2 DEF Written, Committed
\* A creation does not meet an item.
<1>2. ASSUME NEW s \in Slots, CommitCreate(s) PROVE column' = column
  BY <1>2 DEF CommitCreate, OnlyControl, IInv, CreationsComeFirst, Creating
<1>3. ASSUME NEW s \in Slots, Begin(s) \/ Receive(s) \/ Load(s) \/ Refresh(s) \/ SkipUpdate(s)
                              \/ FailUpdate(s) \/ CommitDelete(s)
      PROVE  column' = column
  BY <1>3 DEF Begin, Receive, Load, Refresh, SkipUpdate, FailUpdate, CommitDelete, OnlyControl
<1> QED
  BY <1>1, <1>2, <1>3 DEF Next, Continue, Tick

----------------------------------------------------------------------------
(* Timestamps. *)

\* A transaction that is open began no later than now, and a write is committed
\* no earlier than its transaction began.
TimesAreOrdered == updated <= stored /\ \A s \in Slots : req[s].began <= clock

LEMMA TimesBegin == Init => TimesAreOrdered
BY DEF Init, TimesAreOrdered, Idle

\* A step of one request leaves its beginning alone, or sets it to now.
LEMMA OneRequestTimes ==
    ASSUME TypeOK, TimesAreOrdered, NEW s \in Slots, NEW q, req' = [req EXCEPT ![s] = q],
           q.began \in {0, req[s].began, clock}, UNCHANGED clock,
           UNCHANGED <<updated, stored>> \/ (updated' = req[s].began /\ stored' = clock)
    PROVE  TimesAreOrdered'
<1>1. req'[s] = q /\ \A t \in Slots \ {s} : req'[t] = req[t]
  BY DEF TypeOK
<1>2. clock \in Nat /\ q.began <= clock
  BY NumbersAssumption DEF TypeOK, TimesAreOrdered
<1>3. updated' <= stored'
  BY DEF TimesAreOrdered
<1> QED
  BY <1>1, <1>2, <1>3 DEF TimesAreOrdered

LEMMA TimesStay == TypeOK /\ TimesAreOrdered /\ [Next]_vars => TimesAreOrdered'
<1> SUFFICES ASSUME TypeOK, TimesAreOrdered, [Next]_vars PROVE TimesAreOrdered'
  OBVIOUS
<1>1. CASE Tick
  <2>1. UNCHANGED <<updated, stored, req>> /\ clock' = clock + 1
    BY <1>1 DEF Tick
  <2>2. clock \in Int /\ \A s \in Slots : req[s].began \in Int
    BY DEF TypeOK, Request
  <2> QED
    BY <2>1, <2>2 DEF TimesAreOrdered
<1>2. ASSUME NEW s \in Slots, Begin(s) PROVE TimesAreOrdered'
  <2>1. PICK o, body : req' = [req EXCEPT ![s] = Begun(o, body)]
    BY <1>2 DEF Begin
  <2>2. Begun(o, body).began = clock
    BY DEF Begun
  <2> QED
    BY <1>2, <2>1, <2>2, OneRequestTimes DEF Begin, OnlyControl
<1>3. ASSUME NEW s \in Slots, NEW status, Answer(s, status), UNCHANGED <<updated, stored, clock>>
      PROVE  TimesAreOrdered'
  <2>1. req' = [req EXCEPT ![s] = Done(req[s], status)] /\ Done(req[s], status).began = req[s].began
    BY <1>3 DEF Answer, Done
  <2> QED
    BY <1>3, <2>1, OneRequestTimes
<1>4. ASSUME NEW s \in Slots, Load(s) PROVE TimesAreOrdered'
  <2>1. Loaded(req[s], column).began = req[s].began
    BY DEF Loaded
  <2> QED
    BY <1>3, <1>4, <2>1, OneRequestTimes DEF Load, OnlyControl
<1>5. ASSUME NEW s \in Slots, NEW wrote, req' = [req EXCEPT ![s] = Committed(req[s], wrote)],
             UNCHANGED clock,
             UNCHANGED <<updated, stored>> \/ (updated' = req[s].began /\ stored' = clock)
      PROVE  TimesAreOrdered'
  <2>1. Committed(req[s], wrote).began = req[s].began
    BY DEF Committed
  <2> QED
    BY <1>5, <2>1, OneRequestTimes
<1>6. ASSUME NEW s \in Slots, CommitCreate(s) PROVE TimesAreOrdered'
  BY <1>3, <1>5, <1>6 DEF CommitCreate, Stamp, OnlyControl
<1>7. ASSUME NEW s \in Slots, SkipUpdate(s) \/ WriteUpdate(s) PROVE TimesAreOrdered'
  BY <1>5, <1>7 DEF SkipUpdate, WriteUpdate, Stamp, OnlyControl
<1>8. ASSUME NEW s \in Slots, FailUpdate(s) \/ CommitDelete(s) \/ Refresh(s) PROVE TimesAreOrdered'
  BY <1>3, <1>8 DEF FailUpdate, CommitDelete, Refresh, OnlyControl
<1>9. ASSUME NEW s \in Slots, Receive(s) PROVE TimesAreOrdered'
  <2>1. Idle.began = 0
    BY DEF Idle
  <2> QED
    BY <1>9, <2>1, OneRequestTimes DEF Receive
<1>10. CASE UNCHANGED vars
  BY <1>10 DEF vars, TimesAreOrdered
<1> QED
  BY <1>1, <1>2, <1>4, <1>6, <1>7, <1>8, <1>9, <1>10 DEF Next, Continue

TimesFollow ==
    \A s \in Slots : Stores(s) /\ req[s].began >= stored => updated' >= updated

\* A step that stores writes its own request's time.
LEMMA StepsKeepTimes == TypeOK /\ TimesAreOrdered /\ [Next]_vars => [TimesFollow]_vars
<1> SUFFICES ASSUME TypeOK, TimesAreOrdered, Next, NEW s \in Slots, Stores(s),
                    req[s].began >= stored
             PROVE  updated' >= updated
  BY DEF TimesFollow
<1>1. updated \in Int /\ stored \in Int /\ req[s].began \in Int /\ updated <= stored
  BY DEF TypeOK, Request, TimesAreOrdered
<1>2. CASE UNCHANGED updated
  BY <1>1, <1>2
<1>3. ASSUME NEW t \in Slots, NEW wrote, req' = [req EXCEPT ![t] = Committed(req[t], wrote)],
             updated' = req[t].began
      PROVE  updated' >= updated
  <2>1. t = s
    BY <1>3 DEF Stores, TypeOK
  <2> QED
    BY <1>1, <1>3, <2>1
<1>4. ASSUME NEW t \in Slots, CommitCreate(t) \/ WriteUpdate(t) PROVE updated' >= updated
  BY <1>2, <1>3, <1>4 DEF CommitCreate, WriteUpdate, Stamp, OnlyControl
<1>5. ASSUME NEW t \in Slots, Begin(t) \/ Receive(t) \/ Load(t) \/ Refresh(t) \/ SkipUpdate(t)
                              \/ FailUpdate(t) \/ CommitDelete(t)
      PROVE  UNCHANGED updated
  BY <1>5 DEF Begin, Receive, Load, Refresh, SkipUpdate, FailUpdate, CommitDelete, OnlyControl
<1> QED
  BY <1>2, <1>4, <1>5 DEF Next, Continue, Tick

----------------------------------------------------------------------------
LEMMA Invariance == Spec => []IInv
BY InitHolds, StepHolds, PTL DEF Spec

\* The row, the requests and the history keep their types.
THEOREM ItemTypes == Spec => []TypeOK
<1>1. IInv => TypeOK
  BY DEF IInv
<1> QED
  BY <1>1, Invariance, PTL

\* What an update that is answered 200 asked for was stored, column by column
\* (update_item with the unit of work that skips what has not changed).
THEOREM AnsweredWereStored == Spec => []AnsweredUpdatesWereStored
BY AnswersWereStored, Invariance, PTL

\* A request that fails wrote nothing, unless the item was deleted meanwhile.
THEOREM FailedWroteNothing == Spec => []FailuresWriteNothing
BY FailuresWroteNothing, Invariance, PTL

\* No order that the column cannot hold is stored, whatever clients send.
THEOREM StoredOrdersFit == Spec => []OrdersFit
<1>1. IInv => OrdersFit
  BY DEF IInv
<1> QED
  BY <1>1, Invariance, PTL

\* An update changes a column only to what its own body asks for.
THEOREM ColumnsAreKept == Spec => OthersColumnsAreKept
<1>1. IInv /\ [Next]_vars => [OthersAreKept]_vars
  BY StepsKeepOthers
<1>2. Spec => [][OthersAreKept]_vars
  BY <1>1, Invariance, PTL DEF Spec
<1> QED
  BY <1>2 DEF OthersColumnsAreKept, OthersAreKept

\* A write whose transaction began after the last write was committed is given
\* no earlier updated_at than that one.
THEOREM TimesAreKept == Spec => TimesGoBackInOverlapsOnly
<1>1. Spec => []TimesAreOrdered
  BY ItemTypes, TimesBegin, TimesStay, PTL DEF Spec
<1>2. Spec => [][TimesFollow]_vars
  BY <1>1, ItemTypes, StepsKeepTimes, PTL DEF Spec
<1> QED
  BY <1>2 DEF TimesGoBackInOverlapsOnly, TimesFollow
=============================================================================
