----------------------- MODULE ConnectionPool_proofs -----------------------
(***************************************************************************)
(* Theorems about ConnectionPool, for every set of requests and every size *)
(* of the pool.                                                            *)
(***************************************************************************)
EXTENDS ConnectionPool, FiniteSetTheorems, TLAPS

IInv ==
    /\ stage \in [Requests -> Stages]
    /\ op \in [Requests -> Endpoints]
    /\ at \in [Requests -> Nat \ {0}]
    /\ \A r \in Requests : at[r] <= Len(Plan[op[r]]) + 1
    /\ held \in [Requests -> SUBSET {SessionOf("select")}]
    /\ \A r \in Requests : stage[r] \in {"idle", "closed"} => held[r] = {}
    /\ \A r \in Requests : held[r] # {} => ~AtStep(r, Elsewhere \cup Blocking)
    /\ \A r \in Requests : AtStep(r, Blocking) => LoopIsFree(r)

\* In no plan does a call of another server follow a statement that opened a
\* transaction (there is a COMMIT in between).
OrderIsSound(plan) ==
    /\ Len(plan) \in Nat
    /\ \A k \in Nat \ {0} : k <= Len(plan) => plan[k] \in Statements \cup Elsewhere \cup Blocking \cup {"commit"}
    /\ \A k \in Nat \ {0} : k + 1 <= Len(plan) /\ plan[k] \in Statements =>
           plan[k + 1] \notin Elsewhere \cup Blocking

LEMMA PlansAreSound == ASSUME NEW e \in Endpoints PROVE OrderIsSound(Plan[e])
<1> USE DEF OrderIsSound, Statements, Elsewhere, Blocking
<1>1. /\ OrderIsSound(RegisterPlan)
      /\ OrderIsSound(LoginPlan)
      /\ OrderIsSound(LogoutPlan)
      /\ OrderIsSound(SessionInfoPlan)
  BY DEF RegisterPlan, LoginPlan, LogoutPlan, SessionInfoPlan
<1>2. /\ OrderIsSound(ResetRequestPlan)
      /\ OrderIsSound(ValidatePlan)
      /\ OrderIsSound(CompletePlan)
      /\ OrderIsSound(InitiatePlan)
  BY DEF ResetRequestPlan, ValidatePlan, CompletePlan, InitiatePlan
<1>3. /\ OrderIsSound(SignUpPlan)
      /\ OrderIsSound(LinkPlan)
      /\ OrderIsSound(SignInPlan)
      /\ OrderIsSound(CreateListPlan)
  BY DEF SignUpPlan, LinkPlan, SignInPlan, CreateListPlan
<1>4. /\ OrderIsSound(ListListsPlan)
      /\ OrderIsSound(GetListPlan)
      /\ OrderIsSound(RenameListPlan)
      /\ OrderIsSound(DeleteListPlan)
  BY DEF ListListsPlan, GetListPlan, RenameListPlan, DeleteListPlan
<1>5. /\ OrderIsSound(CreateItemPlan)
      /\ OrderIsSound(ListItemsPlan)
      /\ OrderIsSound(UpdateItemPlan)
      /\ OrderIsSound(DeleteItemPlan)
  BY DEF CreateItemPlan, ListItemsPlan, UpdateItemPlan, DeleteItemPlan
<1>6. /\ OrderIsSound(CreateSharePlan)
      /\ OrderIsSound(ListSharesPlan)
      /\ OrderIsSound(ChangeRolePlan)
      /\ OrderIsSound(RevokeSharePlan)
  BY DEF CreateSharePlan, ListSharesPlan, ChangeRolePlan, RevokeSharePlan
<1> HIDE DEF OrderIsSound
<1> QED
  BY EndpointsAssumption, <1>1, <1>2, <1>3, <1>4, <1>5, <1>6 DEF Plan

LEMMA LaterSteps ==
    ASSUME NEW f \in [Requests -> Nat \ {0}], NEW r \in Requests
    PROVE  [f EXCEPT ![r] = @ + 1] \in [Requests -> Nat \ {0}]
<1>1. f[r] + 1 \in Nat \ {0}
  <2>1. f[r] \in Nat
    OBVIOUS
  <2> QED
    BY <2>1
<1> QED
  BY <1>1

LEMMA InitHolds == Init => IInv
<1> SUFFICES ASSUME Init PROVE IInv
  OBVIOUS
<1>1. \A r \in Requests : Len(Plan[op[r]]) \in Nat
  BY PlansAreSound DEF Init, OrderIsSound
<1>2. \A r \in Requests : at[r] <= Len(Plan[op[r]]) + 1
  BY <1>1 DEF Init
<1> QED
  BY <1>2 DEF Init, IInv, Stages, AtStep

OthersKeep(r) ==
    \A q \in Requests \ {r} :
        stage'[q] = stage[q] /\ op'[q] = op[q] /\ at'[q] = at[q] /\ held'[q] = held[q]

\* A step is taken while no other request keeps the event loop, and none gets it.
LEMMA StepsAreTheLoops ==
    ASSUME IInv, NEW r \in Requests, LoopIsFree(r), OthersKeep(r)
    PROVE  /\ \A q \in Requests : AtStep(q, Blocking)' => LoopIsFree(q)'
           /\ \A q \in Requests \ {r} : AtStep(q, Elsewhere \cup Blocking)' <=> AtStep(q, Elsewhere \cup Blocking)
<1>1. \A q \in Requests \ {r} : AtStep(q, Blocking)' <=> AtStep(q, Blocking)
  BY DEF OthersKeep, AtStep
<1>2. \A q \in Requests \ {r} : ~AtStep(q, Blocking)'
  BY <1>1 DEF LoopIsFree
<1>3. \A q \in Requests : AtStep(q, Blocking)' => LoopIsFree(q)'
  BY <1>2 DEF LoopIsFree
<1>4. \A q \in Requests \ {r} : AtStep(q, Elsewhere \cup Blocking)' <=> AtStep(q, Elsewhere \cup Blocking)
  BY DEF OthersKeep, AtStep
<1> QED
  BY <1>3, <1>4

\* Going on within a plan keeps the counters in it.
LEMMA StepsStayInPlans ==
    ASSUME IInv, NEW r \in Requests, at[r] <= Len(Plan[op[r]]), Advance(r), UNCHANGED op
    PROVE  /\ at' \in [Requests -> Nat \ {0}]
           /\ \A q \in Requests : at'[q] <= Len(Plan[op'[q]]) + 1
<1>1. op[r] \in Endpoints /\ at[r] \in Nat
  BY DEF IInv
<1>2. Len(Plan[op[r]]) \in Nat
  BY <1>1, PlansAreSound DEF OrderIsSound
<1>3. at[r] + 1 <= Len(Plan[op[r]]) + 1
  BY <1>1, <1>2
<1>4. at' = [at EXCEPT ![r] = @ + 1] /\ at \in [Requests -> Nat \ {0}]
  BY DEF Advance, IInv
<1>5. at' \in [Requests -> Nat \ {0}]
  BY <1>4, LaterSteps
<1>6. \A q \in Requests : at'[q] <= Len(Plan[op[q]]) + 1
  BY <1>3, <1>4 DEF IInv
<1> QED
  BY <1>5, <1>6

\* A request that goes on to its next step, and has no connection if that calls
\* another server.
LEMMA AdvanceHolds ==
    ASSUME IInv, NEW r \in Requests, stage[r] = "running", LoopIsFree(r),
           at[r] <= Len(Plan[op[r]]), Advance(r), UNCHANGED <<stage, op>>,
           held'[r] \in SUBSET {SessionOf("select")}, held' = [held EXCEPT ![r] = held'[r]],
           held'[r] # {} => ~AtStep(r, Elsewhere \cup Blocking)'
    PROVE  IInv'
<1>1. OthersKeep(r)
  BY DEF OthersKeep, Advance, IInv
<1>2. held' \in [Requests -> SUBSET {SessionOf("select")}]
  BY DEF IInv
<1>3. \A q \in Requests : held'[q] # {} => ~AtStep(q, Elsewhere \cup Blocking)'
  BY <1>1, StepsAreTheLoops DEF IInv, OthersKeep
<1>4. \A q \in Requests : stage'[q] \in {"idle", "closed"} => held'[q] = {}
  BY <1>1 DEF IInv, OthersKeep
<1>5. stage' \in [Requests -> Stages] /\ op' \in [Requests -> Endpoints]
  BY DEF IInv
<1>6. \A q \in Requests : AtStep(q, Blocking)' => LoopIsFree(q)'
  BY <1>1, StepsAreTheLoops
<1> QED
  BY <1>2, <1>3, <1>4, <1>5, <1>6, StepsStayInPlans DEF IInv

\* A request whose stage changes: it does not call another server then.
LEMMA StageHolds ==
    ASSUME IInv, NEW r \in Requests, LoopIsFree(r), UNCHANGED <<op, at>>,
           NEW s \in Stages, stage' = [stage EXCEPT ![r] = s],
           held'[r] \in SUBSET {SessionOf("select")}, held' = [held EXCEPT ![r] = held'[r]],
           s \in {"idle", "closed"} => held'[r] = {},
           held'[r] # {} => s # "running"
    PROVE  IInv'
<1>1. OthersKeep(r)
  BY DEF OthersKeep, IInv
<1>2. held' \in [Requests -> SUBSET {SessionOf("select")}]
  BY DEF IInv
<1>3. stage'[r] = s
  BY DEF IInv
<1>4. \A q \in Requests : held'[q] # {} => ~AtStep(q, Elsewhere \cup Blocking)'
  <2>1. held'[r] # {} => ~AtStep(r, Elsewhere \cup Blocking)'
    BY <1>3 DEF AtStep
  <2> QED
    BY <1>1, <2>1, StepsAreTheLoops DEF IInv, OthersKeep
<1>5. \A q \in Requests : stage'[q] \in {"idle", "closed"} => held'[q] = {}
  BY <1>1, <1>3 DEF IInv, OthersKeep
<1>6. stage' \in [Requests -> Stages]
  BY DEF IInv
<1>7. \A q \in Requests : AtStep(q, Blocking)' => LoopIsFree(q)'
  BY <1>1, StepsAreTheLoops
<1> QED
  BY <1>2, <1>4, <1>5, <1>6, <1>7 DEF IInv

LEMMA StepHolds == IInv /\ [Next]_vars => IInv'
<1> SUFFICES ASSUME IInv, [Next]_vars PROVE IInv'
  OBVIOUS
<1>1. CASE UNCHANGED vars
  BY <1>1 DEF vars, IInv, AtStep, LoopIsFree
<1>2. ASSUME NEW r \in Requests, Begin(r) PROVE IInv'
  <2>1. held[r] = {} /\ held' = held /\ held' = [held EXCEPT ![r] = held'[r]]
    BY <1>2 DEF Begin, IInv
  <2> QED
    BY <1>2, <2>1, StageHolds DEF Begin, Stages, IInv
<1>3. ASSUME NEW r \in Requests, Acquire(r) PROVE IInv'
  <2>1. held' = [held EXCEPT ![r] = @ \cup {SessionOf("select")}] /\ UNCHANGED <<stage, op, at>>
    BY <1>3 DEF Acquire, Session, SessionOf
  <2>2. ~AtStep(r, Elsewhere \cup Blocking)'
    BY <1>3, <2>1 DEF Acquire, NeedsConnection, AtStep, Statements, Elsewhere, Blocking
  <2>3. \A q \in Requests : AtStep(q, Blocking)' => LoopIsFree(q)'
    BY <2>1 DEF AtStep, LoopIsFree, IInv
  <2>4. \A q \in Requests : held'[q] # {} => ~AtStep(q, Elsewhere \cup Blocking)'
    BY <2>1, <2>2 DEF AtStep, IInv
  <2>5. stage[r] = "running"
    BY <1>3 DEF Acquire, NeedsConnection, AtStep
  <2> QED
    BY <2>1, <2>3, <2>4, <2>5 DEF IInv
\* The step after a statement calls nobody else.
<1>4. ASSUME NEW r \in Requests, Select(r) PROVE IInv'
  <2>1. /\ stage[r] = "running" /\ at[r] <= Len(Plan[op[r]]) /\ Plan[op[r]][at[r]] \in Statements
        /\ LoopIsFree(r) /\ Advance(r) /\ UNCHANGED <<stage, op, held>>
    BY <1>4 DEF Select, AtStep
  <2>2. op[r] \in Endpoints /\ at[r] \in Nat \ {0} /\ at'[r] = at[r] + 1
    BY <2>1 DEF IInv, Advance
  <2>3. at[r] + 1 <= Len(Plan[op[r]]) => Plan[op[r]][at[r] + 1] \notin Elsewhere \cup Blocking
    BY <2>1, <2>2, PlansAreSound DEF OrderIsSound
  <2>4. ~AtStep(r, Elsewhere \cup Blocking)'
    BY <2>1, <2>2, <2>3 DEF AtStep
  <2>5. held' = [held EXCEPT ![r] = held'[r]] /\ held'[r] \in SUBSET {SessionOf("select")}
    BY <2>1 DEF IInv
  <2> QED
    BY <2>1, <2>4, <2>5, AdvanceHolds
\* After the COMMIT the request has no connection.
<1>5. ASSUME NEW r \in Requests, Commit(r) PROVE IInv'
  <2>1. /\ stage[r] = "running" /\ at[r] <= Len(Plan[op[r]])
        /\ LoopIsFree(r) /\ Advance(r) /\ UNCHANGED <<stage, op>>
    BY <1>5 DEF Commit, AtStep
  <2>2. held'[r] = {} /\ held' = [held EXCEPT ![r] = held'[r]]
    BY <1>5 DEF Commit, AfterCommit, Session, SessionOf, IInv
  <2> QED
    BY <2>1, <2>2, AdvanceHolds
\* Whoever calls another server has none, and does not get one by its answer.
<1>6. ASSUME NEW r \in Requests, CallElsewhere(r) \/ Verify(r) PROVE IInv'
  <2>1. /\ stage[r] = "running" /\ at[r] <= Len(Plan[op[r]])
        /\ LoopIsFree(r) /\ Advance(r) /\ UNCHANGED <<stage, op, held>>
    BY <1>6 DEF CallElsewhere, Verify, AtStep
  <2>2. AtStep(r, Elsewhere \cup Blocking)
    BY <1>6 DEF CallElsewhere, Verify, AtStep
  <2>3. held'[r] = {} /\ held' = [held EXCEPT ![r] = held'[r]]
    BY <2>1, <2>2 DEF IInv
  <2> QED
    BY <2>1, <2>3, AdvanceHolds
<1>7. ASSUME NEW r \in Requests, Finish(r) \/ EndEarly(r) PROVE IInv'
  <2>1. held' = held /\ held' = [held EXCEPT ![r] = held'[r]] /\ held'[r] \in SUBSET {SessionOf("select")}
    BY <1>7 DEF Finish, EndEarly, IInv
  <2>2. LoopIsFree(r) /\ stage' = [stage EXCEPT ![r] = "sending"] /\ UNCHANGED <<op, at>>
    BY <1>7 DEF Finish, EndEarly
  <2>3. "sending" \in Stages
    BY DEF Stages
  <2> QED
    BY <2>1, <2>2, <2>3, StageHolds
<1>8. ASSUME NEW r \in Requests, Close(r) PROVE IInv'
  <2>1. held'[r] = {} /\ held' = [held EXCEPT ![r] = held'[r]]
    BY <1>8 DEF Close, AfterClose, IInv
  <2> QED
    BY <1>8, <2>1, StageHolds DEF Close, Stages
<1> QED
  BY <1>1, <1>2, <1>3, <1>4, <1>5, <1>6, <1>7, <1>8 DEF Next, Continue

LEMMA InvariantImplies == IInv => HoldersCanGoOn
<1> SUFFICES ASSUME IInv, NEW r \in Requests, held[r] # {}
             PROVE  ~NeedsConnection(r) /\ ~AtStep(r, Elsewhere \cup Blocking)
  BY DEF HoldersCanGoOn
<1> QED
  BY DEF IInv, NeedsConnection, Session, SessionOf

\* Whoever holds a connection needs no second one and calls no other server
\* (db/base.py:35-43), for any number of requests and connections.
THEOREM HoldersGoOn == Spec => []HoldersCanGoOn
BY InitHolds, StepHolds, InvariantImplies, PTL DEF Spec
----------------------------------------------------------------------------
\* The connections in use are finitely many, within the limit, however many
\* requests there are.
PoolInv ==
    /\ IsFiniteSet(Connections)
    /\ Cardinality(Connections) <= Limit

\* A step after which nobody has more connections keeps within the limit.
LEMMA FewerConnections ==
    ASSUME PoolInv, \A r \in Requests : held'[r] \subseteq held[r]
    PROVE  IsFiniteSet(Connections') /\ Cardinality(Connections') <= Limit
<1>1. Connections' \subseteq Connections
  BY DEF Connections
<1>2. Cardinality(Connections') <= Cardinality(Connections)
  BY <1>1, FS_Subset DEF PoolInv
<1>3. IsFiniteSet(Connections')
  BY <1>1, FS_Subset DEF PoolInv
<1>4. Cardinality(Connections) \in Nat /\ Cardinality(Connections') \in Nat
  BY <1>3, FS_CardinalityType DEF PoolInv
<1> QED
  BY <1>2, <1>3, <1>4, LimitAssumption DEF PoolInv

LEMMA PoolInit == Init => PoolInv
<1> SUFFICES ASSUME Init PROVE PoolInv
  OBVIOUS
<1>1. Connections = {}
  BY DEF Init, Connections
<1> QED
  BY <1>1, FS_EmptySet, LimitAssumption DEF Init, PoolInv

LEMMA PoolStep == IInv /\ PoolInv /\ [Next]_vars => PoolInv'
<1> SUFFICES ASSUME IInv, PoolInv, [Next]_vars PROVE PoolInv'
  OBVIOUS
<1>1. CASE UNCHANGED vars
  BY <1>1 DEF vars, PoolInv, Connections
<1>2. ASSUME NEW r \in Requests, Begin(r) \/ Finish(r) \/ EndEarly(r) PROVE PoolInv'
  <2>1. at' = at /\ held' = held
    BY <1>2 DEF Begin, Finish, EndEarly
  <2> QED
    BY <2>1, FewerConnections DEF PoolInv
\* The limit is tested with the connection taken, in one step.
<1>3. ASSUME NEW r \in Requests, Acquire(r) PROVE PoolInv'
  <2>1. held' = [held EXCEPT ![r] = @ \cup {Session(r)}] /\ at' = at
    BY <1>3 DEF Acquire
  <2>2. Connections' = Connections \cup {<<r, Session(r)>>}
    BY <2>1 DEF Connections, IInv
  <2>3. Cardinality(Connections) \in Nat
    BY FS_CardinalityType DEF PoolInv
  <2>4. Cardinality(Connections) < Limit
    BY <1>3, <2>3, LimitAssumption DEF Acquire, Exhausted
  <2>5. IsFiniteSet(Connections')
    BY <2>2, FS_AddElement DEF PoolInv
  <2>6. \/ Cardinality(Connections') = Cardinality(Connections)
        \/ Cardinality(Connections') = Cardinality(Connections) + 1
    BY <2>2, FS_AddElement DEF PoolInv
  <2>7. Cardinality(Connections') <= Limit
    BY <2>3, <2>4, <2>6, LimitAssumption
  <2> QED
    BY <2>1, <2>5, <2>7 DEF PoolInv
<1>4. ASSUME NEW r \in Requests, Select(r) \/ CallElsewhere(r) \/ Verify(r) PROVE PoolInv'
  <2>1. held' = held
    BY <1>4 DEF Select, CallElsewhere, Verify
  <2> QED
    BY <2>1, FewerConnections DEF PoolInv
<1>5. ASSUME NEW r \in Requests, Commit(r) PROVE PoolInv'
  <2>1. \A q \in Requests : held'[q] \subseteq held[q]
    BY <1>5 DEF Commit, AfterCommit, IInv
  <2> QED
    BY <2>1, FewerConnections DEF PoolInv
<1>6. ASSUME NEW r \in Requests, Close(r) PROVE PoolInv'
  <2>1. at' = at /\ \A q \in Requests : held'[q] \subseteq held[q]
    BY <1>6 DEF Close, AfterClose, IInv
  <2> QED
    BY <2>1, FewerConnections DEF PoolInv
<1> QED
  BY <1>1, <1>2, <1>3, <1>4, <1>5, <1>6 DEF Next, Continue

LEMMA TypesFollow == IInv /\ PoolInv => TypeOK
<1> SUFFICES ASSUME IInv, PoolInv PROVE TypeOK
  OBVIOUS
<1>1. held \in [Requests -> SUBSET {SessionOf(s) : s \in Statements \cup {"commit"}}]
  BY DEF IInv, SessionOf
<1> QED
  BY <1>1 DEF IInv, PoolInv, TypeOK

\* No interleaving of requests has more connections than the pool allows
\* (db/base.py:20-24), were there infinitely many requests.
THEOREM PoolIsBounded == Spec => []TypeOK
BY InitHolds, StepHolds, PoolInit, PoolStep, TypesFollow, PTL DEF Spec
----------------------------------------------------------------------------
(* What AllAreServed rests on, besides fairness. *)

\* The guards of Select and Commit, of Verify, of Finish and of Close.
CanGoOn(r) ==
    /\ LoopIsFree(r)
    /\ \/ AtStep(r, Statements \cup {"commit"}) /\ Session(r) \in held[r]
       \/ AtStep(r, Blocking)
       \/ stage[r] = "running" /\ at[r] > Len(Plan[op[r]])
       \/ stage[r] = "sending"

\* Whoever waits for the pool waits for another request, and one that waits for
\* nothing: it has a connection, or it keeps the event loop, and its next step is
\* enabled.
WaitersAwaitHolders ==
    \A r \in Requests : NeedsConnection(r) /\ Exhausted =>
        \E q \in Requests \ {r} : (held[q] # {} \/ AtStep(q, Blocking)) /\ CanGoOn(q)

LEMMA HoldersStep ==
    ASSUME IInv, NEW r \in Requests, held[r] # {}, LoopIsFree(r)
    PROVE  CanGoOn(r)
<1>1. stage[r] \in {"running", "sending"}
  BY DEF IInv, Stages
<1>2. op[r] \in Endpoints /\ at[r] \in Nat \ {0} /\ held[r] = {SessionOf("select")}
  BY DEF IInv
<1>3. Len(Plan[op[r]]) \in Nat
  BY <1>2, PlansAreSound DEF OrderIsSound
<1>4. CASE stage[r] = "running" /\ at[r] <= Len(Plan[op[r]])
  <2>1. Plan[op[r]][at[r]] \in Statements \cup Elsewhere \cup Blocking \cup {"commit"}
    BY <1>2, <1>4, PlansAreSound DEF OrderIsSound
  <2>2. Plan[op[r]][at[r]] \in Statements \cup {"commit"}
    BY <1>4, <2>1 DEF IInv, AtStep
  <2> QED
    BY <1>2, <1>4, <2>2 DEF CanGoOn, AtStep, Session, SessionOf
<1> QED
  BY <1>1, <1>2, <1>3, <1>4 DEF CanGoOn

\* A full pool is no deadlock, whatever its size: some other request can go on to its
\* COMMIT or its end, where it gives a connection back (db/base.py:35-43), at once or
\* when the callback that keeps the event loop has its certificates (auth/oauth.py:184).
THEOREM WaitersAreNotStuck == Spec => []WaitersAwaitHolders
<1>1. IInv /\ PoolInv => WaitersAwaitHolders
  <2> SUFFICES ASSUME IInv, PoolInv, NEW r \in Requests, NeedsConnection(r), Exhausted
               PROVE  \E q \in Requests \ {r} : (held[q] # {} \/ AtStep(q, Blocking)) /\ CanGoOn(q)
    BY DEF WaitersAwaitHolders
  <2>1. Connections # {}
    BY FS_EmptySet, LimitAssumption DEF Exhausted
  <2>2. PICK q \in Requests : held[q] # {}
    BY <2>1 DEF Connections
  <2>3. q # r
    BY <2>2, InvariantImplies DEF HoldersCanGoOn
  <2>4. CASE LoopIsFree(q)
    BY <2>2, <2>3, <2>4, HoldersStep
  <2>5. CASE ~LoopIsFree(q)
    <3>1. PICK v \in Requests : AtStep(v, Blocking)
      BY <2>5 DEF LoopIsFree
    <3>2. LoopIsFree(v)
      BY <3>1 DEF IInv
    <3>3. v # r
      BY <3>1 DEF NeedsConnection, AtStep, Statements, Blocking
    <3> QED
      BY <3>1, <3>2, <3>3 DEF CanGoOn
  <2> QED
    BY <2>4, <2>5
<1> QED
  BY <1>1, InitHolds, StepHolds, PoolInit, PoolStep, PTL DEF Spec

Position == [idle |-> 0, running |-> 1, sending |-> 2, closed |-> 3]

\* The steps of a request only lead to its end: it takes the connection for its next
\* step, does that step, or begins, ends or is closed.  Plans are short, so that
\* these are finitely many.
RequestsAdvance ==
    [][\A r \in Requests :
          \/ stage'[r] = stage[r] /\ at'[r] = at[r] /\ held'[r] = held[r]
          \/ Position[stage'[r]] > Position[stage[r]]
          \/ stage'[r] = stage[r] /\ at'[r] = at[r] + 1
          \/ stage'[r] = stage[r] /\ at'[r] = at[r] /\ held[r] = {} /\ held'[r] # {}]_vars

\* With WaitersAreNotStuck, what is left of AllAreServed is that the event loop, the
\* database, the synchronous call and clients go on.
THEOREM NobodyGoesBack == Spec => RequestsAdvance
<1> DEFINE Ahead(r) ==
      \/ stage'[r] = stage[r] /\ at'[r] = at[r] /\ held'[r] = held[r]
      \/ Position[stage'[r]] > Position[stage[r]]
      \/ stage'[r] = stage[r] /\ at'[r] = at[r] + 1
      \/ stage'[r] = stage[r] /\ at'[r] = at[r] /\ held[r] = {} /\ held'[r] # {}
<1>1. ASSUME IInv, Next PROVE \A r \in Requests : Ahead(r)
  <2> TAKE r \in Requests
  <2> USE DEF IInv
  <2>1. ASSUME NEW q \in Requests, Begin(q) \/ Finish(q) \/ EndEarly(q) PROVE Ahead(r)
    BY <1>1, <2>1 DEF Begin, Finish, EndEarly, Position
  <2>2. ASSUME NEW q \in Requests, Close(q) PROVE Ahead(r)
    BY <1>1, <2>2 DEF Close, Position
  <2>3. ASSUME NEW q \in Requests, Acquire(q) PROVE Ahead(r)
    BY <1>1, <2>3 DEF Acquire, NeedsConnection, Session, SessionOf
  <2>4. ASSUME NEW q \in Requests, Select(q) \/ CallElsewhere(q) \/ Verify(q) PROVE Ahead(r)
    BY <1>1, <2>4 DEF Select, CallElsewhere, Verify, Advance
  <2>5. ASSUME NEW q \in Requests, Commit(q) PROVE Ahead(r)
    BY <1>1, <2>5 DEF Commit, Advance
  <2> QED
    BY <1>1, <2>1, <2>2, <2>3, <2>4, <2>5 DEF Next, Continue
<1>2. IInv /\ [Next]_vars => [\A r \in Requests : Ahead(r)]_vars
  BY <1>1
<1> QED
  BY <1>2, InitHolds, StepHolds, PTL DEF Spec, RequestsAdvance
=============================================================================
