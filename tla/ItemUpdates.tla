---------------------------- MODULE ItemUpdates ----------------------------
(***************************************************************************)
(* The columns of one item under concurrent requests (items/router.py).    *)
(* Sharing says who may touch an item and when it exists; here an update   *)
(* is the columns that its body names, those of them that the unit of work *)
(* finds changed since the load, and the UPDATE that writes only these.    *)
(*                                                                         *)
(* A request is cut at its awaits: "load" is db.get, "commit" the flush    *)
(* with the COMMIT, "refresh" the SELECT after it.  Its transaction began  *)
(* with the SELECT of its session, and now() is that moment's time for all *)
(* of it.                                                                  *)
(***************************************************************************)
EXTENDS Integers

CONSTANTS
    Contents,  \* texts
    Orders,    \* what clients send as an order
    MaxOrder,  \* the largest value of the column items.order
    MaxClock,  \* bound: the clock stops here
    Slots,     \* requests that may be in flight at once
    Ops,       \* the endpoints that clients call
    Unset      \* a field that the body leaves out

Bits == 0..1    \* of the column completed
AllOps == {"create", "update", "delete"}
ASSUME OpsAssumption == Ops \subseteq AllOps
ASSUME NumbersAssumption == Orders \subseteq Int /\ MaxOrder \in Nat /\ MaxClock \in Nat
ASSUME UnsetAssumption == Unset \notin Contents \cup Orders \cup Bits

VARIABLES
    state,    \* the item's row: not inserted yet, there, or deleted
    column,   \* its columns, while it is there
    updated,  \* its updated_at
    stored,   \* history: when the last write of it was committed
    clock,    \* the database's clock
    req,      \* the request in each slot
    seen      \* history: the columns that have held what the body of each request
              \* asks for, in some committed row since it loaded or inserted it
vars == <<state, column, updated, stored, clock, req, seen>>

Columns == {"content", "completed", "order"}
Values == Contents \cup Bits \cup Orders
Row == {row \in [Columns -> Values] :
          row["content"] \in Contents /\ row["completed"] \in Bits /\ row["order"] \in Orders}
Body == {body \in [Columns -> Values \cup {Unset}] :
           /\ body["content"] \in Contents \cup {Unset} /\ body["completed"] \in Bits \cup {Unset}
           /\ body["order"] \in Orders \cup {Unset}}
Blank == [c \in Columns |-> Unset]

Awaits == {"load", "commit", "refresh"}
Request == [pc : Awaits \cup {"idle", "done"}, op : AllOps, began : 0..MaxClock,
            body : Body, loaded : Row \cup {Blank}, wrote : BOOLEAN,
            status : {0, 200, 201, 204, 404, 500}]
Idle == [pc |-> "idle", op |-> "update", began |-> 0, body |-> Blank, loaded |-> Blank,
         wrote |-> FALSE, status |-> 0]

\* What a request becomes as it goes on.
Begun(o, body) ==
    [pc |-> IF o = "create" THEN "commit" ELSE "load", op |-> o, began |-> clock, body |-> body,
     loaded |-> Blank, wrote |-> FALSE, status |-> 0]
Loaded(q, row) ==
    [pc |-> "commit", op |-> q.op, began |-> q.began, body |-> q.body, loaded |-> row,
     wrote |-> FALSE, status |-> 0]
Committed(q, wrote) ==
    [pc |-> "refresh", op |-> q.op, began |-> q.began, body |-> q.body, loaded |-> q.loaded,
     wrote |-> wrote, status |-> 0]
Done(q, status) ==
    [pc |-> "done", op |-> q.op, began |-> q.began, body |-> q.body, loaded |-> q.loaded,
     wrote |-> q.wrote, status |-> status]

Init ==
    /\ state = "unborn" /\ column = Blank /\ updated = 0 /\ stored = 0 /\ clock = 0
    /\ req = [s \in Slots |-> Idle]
    /\ seen = [s \in Slots |-> {}]

Held(q) == {c \in Columns : q.body[c] = column[c]}
Answer(s, status) == req' = [req EXCEPT ![s] = Done(@, status)]
OnlyControl == UNCHANGED <<state, column, updated, stored, clock, seen>>

\* Every request that has the item loaded witnesses its new values.
Witness == seen' = [s \in Slots |->
    IF req'[s].pc \in {"commit", "refresh"} THEN seen[s] \cup Held(req[s])' ELSE seen[s]]

----------------------------------------------------------------------------
Tick == clock < MaxClock /\ clock' = clock + 1 /\ UNCHANGED <<state, column, updated, stored, req, seen>>

\* Any update passes validation, an empty one and one with a huge order too; a
\* creation has a content and an order and is never completed.
Bodies(op) ==
    CASE op = "create" -> {row \in Row : row["completed"] = 0}
      [] op = "update" -> Body
      [] op = "delete" -> {Blank}

Begin(s) ==
    /\ req[s].pc = "idle"
    /\ \E op \in Ops : \E body \in Bodies(op) :
        /\ op = "create" => state = "unborn" /\ \A t \in Slots : req[t].op = "create" => req[t].pc = "idle"
        /\ op # "create" => state # "unborn"
        /\ req' = [req EXCEPT ![s] = Begun(op, body)]
    /\ OnlyControl

Load(s) ==
    /\ req[s].pc = "load"
    /\ \/ state = "deleted" /\ Answer(s, 404) /\ OnlyControl
       \/ /\ state = "live"
          /\ req' = [req EXCEPT ![s] = Loaded(@, column)]
          /\ seen' = [seen EXCEPT ![s] = Held(req[s])]
          /\ UNCHANGED <<state, column, updated, stored, clock>>

----------------------------------------------------------------------------
\* Mutant of Named: "if body.order:", which skips a 0 and a False.
NamedIfTrue(body) == {c \in Columns : body[c] \notin {Unset, 0}}

\* The fields that the handler assigns.
Named(body) == {c \in Columns : body[c] # Unset}

\* The columns whose value is not the one that was loaded.
Dirty(q) == {c \in Named(q.body) : q.body[c] # q.loaded[c]}

\* The INTEGER column takes 32 bits.
Storable(q) == "order" \in Dirty(q) => q.body["order"] \in -(MaxOrder + 1)..MaxOrder

\* Mutant of Written: the row is written back as it was loaded.
WrittenBack(q) == [c \in Columns |-> IF c \in Dirty(q) THEN q.body[c] ELSE q.loaded[c]]

\* The row after the UPDATE of the dirty columns.
Written(q) == [c \in Columns |-> IF c \in Dirty(q) THEN q.body[c] ELSE column[c]]

\* Mutant of Stamp: "onupdate" is given a time, taken when the module is imported.
StampAtImport(q) == IF q.op = "create" THEN q.began ELSE 0

\* updated_at is now(), the time at which the transaction began.
Stamp(q) == q.began

CommitCreate(s) ==
    LET q == req[s] IN
    /\ q.pc = "commit" /\ q.op = "create"
    /\ \/ ~Storable(q) /\ Answer(s, 500) /\ OnlyControl
       \/ /\ Storable(q)
          /\ state' = "live" /\ column' = q.body
          /\ updated' = Stamp(q) /\ stored' = clock
          /\ req' = [req EXCEPT ![s] = Committed(@, TRUE)]
          /\ Witness
          /\ UNCHANGED clock

Updating(s) == req[s].pc = "commit" /\ req[s].op = "update"

\* Nothing is dirty, and no UPDATE is sent.
SkipUpdate(s) ==
    /\ Updating(s) /\ Dirty(req[s]) = {}
    /\ req' = [req EXCEPT ![s] = Committed(@, FALSE)]
    /\ OnlyControl

\* Mutant of FailUpdate: a statement, and a transaction, for each column.
FailUpdateHalfway(s) ==
    /\ Updating(s) /\ state = "live" /\ ~Storable(req[s])
    /\ column' = [column EXCEPT !["content"] = Written(req[s])["content"]]
    /\ req' = [req EXCEPT ![s].pc = "done", ![s].status = 500, ![s].wrote = column' # column]
    /\ UNCHANGED <<state, updated, stored, clock, seen>>

\* The UPDATE fails as a whole when a value cannot be stored or the row is gone.
FailUpdate(s) ==
    /\ Updating(s) /\ Dirty(req[s]) # {}
    /\ ~Storable(req[s]) \/ state = "deleted"
    /\ Answer(s, 500)
    /\ OnlyControl

WriteUpdate(s) ==
    /\ Updating(s) /\ Dirty(req[s]) # {}
    /\ Storable(req[s]) /\ state = "live"
    /\ column' = Written(req[s])
    /\ updated' = Stamp(req[s]) /\ stored' = clock
    /\ req' = [req EXCEPT ![s] = Committed(@, TRUE)]
    /\ Witness
    /\ UNCHANGED <<state, clock>>

\* A DELETE that matches no row is no error.
CommitDelete(s) ==
    /\ req[s].pc = "commit" /\ req[s].op = "delete"
    /\ state' = "deleted"
    /\ Answer(s, 204)
    /\ UNCHANGED <<column, updated, stored, clock, seen>>

\* A row that is gone by now raises.
Refresh(s) ==
    /\ req[s].pc = "refresh"
    /\ Answer(s, IF state = "deleted" THEN 500 ELSE IF req[s].op = "create" THEN 201 ELSE 200)
    /\ OnlyControl

Receive(s) ==
    /\ req[s].pc = "done"
    /\ req' = [req EXCEPT ![s] = Idle]
    /\ seen' = [seen EXCEPT ![s] = {}]
    /\ UNCHANGED <<state, column, updated, stored, clock>>

Continue(s) == Load(s) \/ CommitCreate(s) \/ SkipUpdate(s) \/ FailUpdate(s) \/ WriteUpdate(s)
               \/ CommitDelete(s) \/ Refresh(s)

Next == Tick \/ \E s \in Slots : Begin(s) \/ Continue(s) \/ Receive(s)

Spec == Init /\ [][Next]_vars

----------------------------------------------------------------------------
TypeOK ==
    /\ state \in {"unborn", "live", "deleted"}
    /\ column \in Row \cup {Blank}
    /\ updated \in 0..MaxClock /\ stored \in 0..MaxClock /\ clock \in 0..MaxClock
    /\ req \in [Slots -> Request]
    /\ seen \in [Slots -> SUBSET Columns]

\* An update that is answered 200 has had its way: every column that its body
\* names held the value it asked for at some moment since the load, whether this
\* request wrote it or found it there (items/router.py:53-59).
AnsweredUpdatesWereStored ==
    \A s \in Slots : req[s].pc = "done" /\ req[s].status \in {200, 201} =>
        \A c \in Columns : req[s].body[c] # Unset => c \in seen[s]

\* Two people who edit different columns of an item do not undo each other's
\* work, however old the row that each has loaded: whatever a step changes, a
\* request in that step has asked for that very value.
OthersColumnsAreKept ==
    [][\A c \in Columns : state = "live" /\ column'[c] # column[c] =>
        \E s \in Slots : req[s].pc = "commit" /\ req'[s].pc = "refresh" /\ column'[c] = req[s].body[c]]_vars

\* A request that is answered 500 wrote nothing, unless the item has been deleted
\* by somebody else since: an order that cannot be stored takes the other
\* columns of its body down with it (items/schemas.py:9).
FailuresWriteNothing ==
    \A s \in Slots : req[s].pc = "done" /\ req[s].status = 500 =>
        ~req[s].wrote \/ state = "deleted"

\* What is stored fits the column.
OrdersFit == state = "live" => column["order"] \in -(MaxOrder + 1)..MaxOrder

Stores(s) == ~req[s].wrote /\ req'[s].wrote

\* "last-write-wins per item (by updated_at)" (docs/planning/prd-5-realtime-
\* websocket-sync.md:43) is what the timestamps are for.  They are the times at
\* which transactions began, so that of two writes that overlap the later may
\* have the earlier one; but a write whose transaction began after the last
\* write was committed is never older than that.
TimesGoBackInOverlapsOnly ==
    [][\A s \in Slots : Stores(s) /\ req[s].began >= stored => updated' >= updated]_vars
=============================================================================
