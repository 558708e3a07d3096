---------------------------- MODULE AccountsInv ----------------------------
(***************************************************************************)
(* The inductive invariant behind the properties of Accounts: what a       *)
(* request may rely on at each await.  The ids it has drawn are still its  *)
(* own, its token's account is the one it resets, and its history holds    *)
(* what it has read.  TLC checks it (MCAccounts), Accounts_proofs proves   *)
(* that every step keeps it.                                               *)
(***************************************************************************)
EXTENDS Accounts, Naturals

Making(q) == q.op \in {"register", "login"} /\ q.pc \in {"account", "insert_user", "insert_session"}
Drawing(q) == q.op = "reset_request" /\ q.pc \in {"account", "insert_token"}
Deleting(q) == q.pc \in {"rows", "commit"}
Resetting(q) == q.pc \in {"flush", "flush_user", "delete"} \/ Deleting(q)
Finished(q, ops) == q.pc = "done" /\ q.op \in ops

\* Which endpoints reach an await, and with which arguments.
WellFormed(q) ==
    /\ q.pc = "account" => q.op \in {"register", "login", "reset_request"}
    /\ q.pc = "insert_user" => q.op = "register"
    /\ q.pc = "insert_session" => q.op \in {"register", "login"}
    /\ Making(q) => q.user \in Users /\ q.pw \in Passwords /\ q.session \in SessionIds
    /\ q.pc = "find_session" => q.op \in {"logout", "session"} /\ q.session \in SessionIds
    /\ q.pc = "end_session" => q.op = "logout"
    /\ q.pc \in {"insert_token", "mail"} => q.op = "reset_request"
    /\ Drawing(q) \/ q.pc = "mail" => q.user \in Users /\ q.token \in TokenIds
    /\ q.pc = "token" => q.op \in {"reset_validate", "reset_complete"}
    /\ Resetting(q) => q.op = "reset_complete"
    /\ q.pc = "token" \/ Resetting(q) => q.user \in Users /\ q.token \in TokenIds
    /\ q.op = "reset_complete" => q.user \in Users /\ q.pw \in Passwords

\* What an await finds in the tables.
TablesFit(q) ==
    /\ Making(q) => session[q.session] = Unborn
    /\ q.pc = "find_session" => session[q.session] # Unborn
    /\ Drawing(q) => token[q.token].state = "unborn"
    /\ q.pc = "insert_token" => password[q.user] \in Passwords
    /\ q.pc = "mail" => token[q.token].state # "unborn"
    /\ q.pc = "token" \/ Resetting(q) =>
          token[q.token].state # "unborn" /\ token[q.token].user = q.user
    /\ Deleting(q) => \A i \in q.found \cup q.doomed : session[i] \in {q.user, Ended}
    /\ q.pc = "end_session" => \A i \in q.doomed : session[i] # Unborn

\* What the history of a request holds.
HistoryFits(q, h) ==
    /\ h.used \subseteq UsedTokens
    /\ InFlight(q) /\ q.user \in Users => password[q.user] \in h.passwords
    /\ (q.pc = "insert_session" \/ q.status = 200) /\ q.op = "login" => q.pw \in h.passwords
    /\ Resetting(q) => q.token \notin h.used
    /\ Finished(q, {"reset_validate", "reset_complete"}) /\ q.token \in h.used => q.status = 400

\* Sessions that a reset has yet to end.
SessionsFit(q, h) ==
    q.op = "reset_complete" =>
        /\ \A i \in h.sessions : session[i] # Unborn
        /\ Deleting(q) => h.sessions \cap SessionsOf(q.user) \subseteq q.found \cup q.doomed
        /\ q.pc = "done" /\ q.status = 200 => h.sessions \cap SessionsOf(q.user) = {}

RequestIsSound(s) ==
    /\ WellFormed(req[s]) /\ TablesFit(req[s])
    /\ HistoryFits(req[s], hist[s]) /\ SessionsFit(req[s], hist[s])

\* Ids are drawn by one request only.
DrawnOnce ==
    \A s, t \in Slots : s # t =>
        /\ Making(req[s]) /\ Making(req[t]) => req[s].session # req[t].session
        /\ Drawing(req[s]) /\ Drawing(req[t]) => req[s].token # req[t].token

TokensHaveOwners ==
    \A t \in TokenIds : token[t].state # "unborn" =>
        token[t].user \in Users /\ password[token[t].user] \in Passwords

RequestInv == TypeOK /\ DrawnOnce /\ TokensHaveOwners /\ \A s \in Slots : RequestIsSound(s)

\* Rows are locked by one request at a time: a token's and a user's by completions,
\* a session's, which is still in the table, by a completion or a logout.
LockInv ==
    /\ \A s \in Slots : /\ req[s].found # {} => req[s].pc = "rows"
                        /\ req[s].doomed # {} => req[s].pc \in {"rows", "commit", "end_session"}
                        /\ \A i \in req[s].doomed : session[i] # Ended
    /\ \A s, t \in Slots : s # t =>
          /\ \A x \in TokenIds : ~(HoldsToken(s, x) /\ HoldsToken(t, x))
          /\ \A u \in Users : ~(HoldsRow(s, u) /\ HoldsRow(t, u))
          /\ req[s].doomed \cap req[t].doomed = {}

IInv == RequestInv /\ LockInv

----------------------------------------------------------------------------
(* What RequestsAreAnswered rests on, besides fairness. *)

\* s is at a statement that PostgreSQL may hold back until t commits or is lost.
WaitsFor(s, t) ==
    /\ s # t
    /\ \/ req[s].pc = "flush" /\ HoldsToken(t, req[s].token)
       \/ req[s].pc = "flush_user" /\ HoldsRow(t, req[s].user)
       \/ req[s].pc = "find_session" /\ req[s].op = "logout" /\ HoldsSession(t, req[s].session)
       \/ req[s].pc = "rows" /\ \E i \in req[s].found : HoldsSession(t, i)

\* Whoever is waited for is in flight, and no requests wait for each other in a
\* cycle, however long: of any set of requests there is one that waits for none of
\* them.
WaitsAreAcyclic ==
    /\ \A s, t \in Slots : WaitsFor(s, t) => InFlight(req[t])
    /\ \A S \in SUBSET Slots : S # {} => \E s \in S : \A t \in S : ~WaitsFor(s, t)

\* How many awaits, at most, lie before the answer; "rows" is one for each row.
StepsLeft(q) ==
    CASE q.pc = "token"                                     -> 6
      [] q.pc = "flush"                                     -> 5
      [] q.pc = "flush_user"                                -> 4
      [] q.pc \in {"account", "delete"}                     -> 3
      [] q.pc \in {"insert_user", "insert_token", "find_session", "rows"} -> 2
      [] q.pc \in {"insert_session", "end_session", "mail", "commit"}     -> 1
      [] OTHER                                              -> 0

\* r is nearer to its end than q: fewer awaits are left, or fewer rows.
Nearer(r, q) ==
    \/ StepsLeft(r) < StepsLeft(q)
    \/ r.pc = q.pc /\ r.found \subseteq q.found /\ r.found # q.found

\* A request in flight is moved only nearer to its end, never back to an await or a
\* row that it has passed and by nobody but itself or a crash.
RequestsAdvance ==
    [][\A s \in Slots : InFlight(req[s]) /\ req'[s] # req[s] => Nearer(req'[s], req[s])]_vars
=============================================================================
