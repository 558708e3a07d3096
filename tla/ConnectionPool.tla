--------------------------- MODULE ConnectionPool ---------------------------
(***************************************************************************)
(* The pool of database connections that all requests share (db/base.py).  *)
(* The other modules let every statement run when its coroutine wants it;  *)
(* here a statement needs a connection, and there are Limit of them (five, *)
(* and ten of overflow, for create_async_engine's defaults).               *)
(*                                                                         *)
(* They also share one event loop (no worker processes are configured), on *)
(* which one call is not awaited: the callback's verify_token fetches      *)
(* Google's certificates synchronously, and nobody else runs meanwhile.    *)
(*                                                                         *)
(* A session takes a connection with its first statement and gives it back *)
(* with its COMMIT, or when the request closes it, which FastAPI does once *)
(* the answer has been sent.  What a handler does is here only the order   *)
(* of its statements, its COMMITs and its calls of other servers.          *)
(***************************************************************************)
EXTENDS FiniteSets, Naturals, Sequences

CONSTANTS
    Requests,  \* each arrives once: what waits must be served once arrivals stop
    Limit,     \* connections
    Endpoints  \* that are called

Statements == {"auth", "perm", "select"}  \* of require_auth, of require_list_permission, of the handler
Elsewhere == {"google", "mail"}           \* answers are awaited, perhaps for ever
Blocking == {"verify"}                    \* nothing is awaited: the event loop is kept

\* What each handler does, in the order of its code, when nothing ends it early.

\* Mutant of ResetRequestPlan: the mail is sent, and then the token is committed.
MailsFirst == <<"select", "mail", "commit">>

RegisterPlan == <<"select", "commit", "select", "commit">>
LoginPlan == <<"select", "commit">>
LogoutPlan == <<"select", "commit">>
SessionInfoPlan == <<"auth">>
ResetRequestPlan == <<"select", "commit", "mail">>
ValidatePlan == <<"select">>
CompletePlan == <<"select", "select", "select", "commit">>
InitiatePlan == <<>>
SignUpPlan == <<"google", "verify", "select", "commit", "select", "commit">>
LinkPlan == <<"google", "verify", "select", "commit", "commit">>
SignInPlan == <<"google", "verify", "select", "commit">>
CreateListPlan == <<"auth", "commit", "select">>
ListListsPlan == <<"auth", "select", "select">>
GetListPlan == <<"auth", "perm", "perm", "select">>
RenameListPlan == <<"auth", "perm", "perm", "select", "commit", "select">>
DeleteListPlan == <<"auth", "perm", "perm", "select", "commit">>
CreateItemPlan == <<"auth", "perm", "perm", "commit", "select">>
ListItemsPlan == <<"auth", "perm", "perm", "select">>
UpdateItemPlan == <<"auth", "perm", "perm", "select", "commit", "select">>
DeleteItemPlan == <<"auth", "perm", "perm", "select", "commit">>
CreateSharePlan == <<"auth", "perm", "perm", "select", "select", "commit", "select">>
ListSharesPlan == <<"auth", "perm", "perm", "select">>
ChangeRolePlan == <<"auth", "perm", "perm", "select", "commit", "select">>
RevokeSharePlan == <<"auth", "perm", "perm", "select", "commit">>

\* The callback has three: for an unknown address, one without Google, and one with.
Plan == [
    register |-> RegisterPlan, login |-> LoginPlan, logout |-> LogoutPlan,
    session_info |-> SessionInfoPlan, reset_request |-> ResetRequestPlan,
    reset_validate |-> ValidatePlan, reset_complete |-> CompletePlan,
    google_initiate |-> InitiatePlan, google_sign_up |-> SignUpPlan,
    google_link |-> LinkPlan, google_sign_in |-> SignInPlan,
    create_list |-> CreateListPlan, list_lists |-> ListListsPlan, get_list |-> GetListPlan,
    rename_list |-> RenameListPlan, delete_list |-> DeleteListPlan,
    create_item |-> CreateItemPlan, list_items |-> ListItemsPlan,
    update_item |-> UpdateItemPlan, delete_item |-> DeleteItemPlan,
    create_share |-> CreateSharePlan, list_shares |-> ListSharesPlan,
    change_role |-> ChangeRolePlan, revoke_share |-> RevokeSharePlan]

ASSUME EndpointsAssumption == Endpoints \subseteq DOMAIN Plan
ASSUME LimitAssumption == Limit \in Nat \ {0}

VARIABLES
    stage,  \* of each request
    op,     \* its endpoint
    at,     \* its next step in the plan
    held    \* the sessions of it that have a connection
vars == <<stage, op, at, held>>

Stages == {"idle", "running", "sending", "closed"}

\* Mutant of SessionOf: each dependency gets a session of its own.
SessionOfEach(step) == IF step \in {"auth", "perm"} THEN step ELSE "own"

\* FastAPI calls get_session once for a request, whoever depends on it.
SessionOf(step) == "shared"

Init ==
    /\ stage = [r \in Requests |-> "idle"]
    /\ op \in [Requests -> Endpoints]
    /\ at = [r \in Requests |-> 1]
    /\ held = [r \in Requests |-> {}]

Connections == UNION {{r} \X held[r] : r \in Requests}
\* Mutant of Exhausted: one connection more than there are.
ExhaustedLater == Cardinality(Connections) > Limit

Exhausted == Cardinality(Connections) >= Limit

AtStep(r, steps) ==
    stage[r] = "running" /\ at[r] <= Len(Plan[op[r]]) /\ Plan[op[r]][at[r]] \in steps
Session(r) == SessionOf(Plan[op[r]][at[r]])

\* No other request keeps the event loop.
LoopIsFree(r) == \A q \in Requests \ {r} : ~AtStep(q, Blocking)

Begin(r) ==
    /\ stage[r] = "idle" /\ LoopIsFree(r)
    /\ stage' = [stage EXCEPT ![r] = "running"]
    /\ UNCHANGED <<op, at, held>>

\* A COMMIT flushes, and needs a connection where nothing was read before it.
NeedsConnection(r) == AtStep(r, Statements \cup {"commit"}) /\ Session(r) \notin held[r]

Acquire(r) ==
    /\ NeedsConnection(r) /\ ~Exhausted /\ LoopIsFree(r)
    /\ held' = [held EXCEPT ![r] = @ \cup {Session(r)}]
    /\ UNCHANGED <<stage, op, at>>

Advance(r) == at' = [at EXCEPT ![r] = @ + 1]

Select(r) ==
    /\ AtStep(r, Statements) /\ Session(r) \in held[r] /\ LoopIsFree(r)
    /\ Advance(r)
    /\ UNCHANGED <<stage, op, held>>

\* Mutant of AfterCommit: the session keeps its connection.
KeptAfterCommit(r) == held[r]

AfterCommit(r) == held[r] \ {Session(r)}

Commit(r) ==
    /\ AtStep(r, {"commit"}) /\ Session(r) \in held[r] /\ LoopIsFree(r)
    /\ held' = [held EXCEPT ![r] = AfterCommit(r)]
    /\ Advance(r)
    /\ UNCHANGED <<stage, op>>

\* Another server answers what was awaited.
CallElsewhere(r) ==
    /\ AtStep(r, Elsewhere) /\ LoopIsFree(r)
    /\ Advance(r)
    /\ UNCHANGED <<stage, op, held>>

\* verify_token returns the claims; when it raises, the request ends early.
Verify(r) ==
    /\ AtStep(r, Blocking) /\ LoopIsFree(r)
    /\ Advance(r)
    /\ UNCHANGED <<stage, op, held>>

Finish(r) ==
    /\ stage[r] = "running" /\ at[r] > Len(Plan[op[r]]) /\ LoopIsFree(r)
    /\ stage' = [stage EXCEPT ![r] = "sending"]
    /\ UNCHANGED <<op, at, held>>

\* An early return, an HTTPException, a statement or a call that fails, or the pool's
\* timeout for one that waits.
EndEarly(r) ==
    /\ stage[r] = "running" /\ LoopIsFree(r)
    /\ stage' = [stage EXCEPT ![r] = "sending"]
    /\ UNCHANGED <<op, at, held>>

\* Mutant of AfterClose: the session is not closed.
NeverClosed(r) == held[r]

AfterClose(r) == {}

\* The client has its answer, or is gone; get_session's "async with" ends.
Close(r) ==
    /\ stage[r] = "sending" /\ LoopIsFree(r)
    /\ stage' = [stage EXCEPT ![r] = "closed"]
    /\ held' = [held EXCEPT ![r] = AfterClose(r)]
    /\ UNCHANGED <<op, at>>

Continue(r) == Acquire(r) \/ Select(r) \/ Commit(r) \/ Verify(r) \/ Finish(r) \/ Close(r)

Next == \E r \in Requests : Begin(r) \/ Continue(r) \/ CallElsewhere(r) \/ EndEarly(r)

Spec == Init /\ [][Next]_vars

\* The event loop runs whatever can run, PostgreSQL answers, clients take their answers
\* or disconnect, and verify_token ends: Google sends its certificates, or the transport's
\* timeout raises (google-auth's default, as none is passed).  An answer that is awaited,
\* of Google's token endpoint or of the mail server, need never come.
Fairness == \A r \in Requests : WF_vars(Continue(r))
FairSpec == Spec /\ Fairness

----------------------------------------------------------------------------
TypeOK ==
    /\ stage \in [Requests -> Stages]
    /\ op \in [Requests -> Endpoints]
    /\ at \in [Requests -> Nat \ {0}]
    /\ \A r \in Requests : at[r] <= Len(Plan[op[r]]) + 1
    /\ held \in [Requests -> SUBSET {SessionOf(s) : s \in Statements \cup {"commit"}}]
    /\ Cardinality(Connections) <= Limit

\* Whoever holds a connection neither waits for a further one nor calls Google or the
\* mail server, in either way (db/base.py:35-43, auth/router.py:160-163,
\* auth/oauth.py:161-220).  It may wait for the event loop, the database or its client.
HoldersCanGoOn ==
    \A r \in Requests : held[r] # {} => ~NeedsConnection(r) /\ ~AtStep(r, Elsewhere \cup Blocking)

\* However many requests there are for few connections, even while awaited servers
\* never answer, and although verify_token stops everybody for as long as it takes
\* (auth/oauth.py:184): a request that has no such answer to await is served.
AwaitsOthers(r) == stage[r] = "running" /\ \E k \in at[r]..Len(Plan[op[r]]) : Plan[op[r]][k] \in Elsewhere
AllAreServed ==
    \A r \in Requests : stage[r] = "running" /\ ~AwaitsOthers(r) ~> stage[r] = "closed"
=============================================================================
