------------------------------ MODULE Accounts ------------------------------
(***************************************************************************)
(* Password accounts, their sessions and their reset tokens: the endpoints *)
(* of auth/router.py over the tables users, sessions and                   *)
(* password_reset_tokens, cut at the awaits on the database and on the     *)
(* mail server.  A handler that writes a row that nobody else writes does  *)
(* so and COMMITs in one step.  Two handlers write rows of others, and are *)
(* cut at every statement, since they hold the locks of those rows until   *)
(* the COMMIT: logout DELETEs its session and then COMMITs, the completion *)
(* of a reset UPDATEs the token and the user, DELETEs the user's sessions  *)
(* row by row, and then COMMITs.                                           *)
(* The whole process may crash, which loses what is not committed.         *)
(***************************************************************************)
CONSTANTS
    Users,       \* the e-mail addresses, each with the account it may have
    Passwords,
    SessionIds,  \* the session tokens the program may draw
    TokenIds,    \* the reset tokens the program may draw
    Slots,       \* requests that may be in flight at once
    Ops,         \* the endpoints that clients call
    NoAccount,   \* state of an address without an account
    NoPassword,  \* password of an account made through Google
    Unborn,      \* state of a session token not yet drawn
    Ended,       \* state of a session whose row has been deleted
    Nil          \* an argument a request lacks, a token that is no row's

AllOps == {"register", "login", "logout", "session",
           "reset_request", "reset_validate", "reset_complete"}

ASSUME OpsAssumption == Ops \subseteq AllOps
ASSUME SentinelAssumption ==
    /\ Unborn # Ended /\ NoAccount # NoPassword
    /\ {Unborn, Ended} \cap Users = {}
    /\ {NoAccount, NoPassword, Nil} \cap Passwords = {}
    /\ Nil \notin Users \cup SessionIds \cup TokenIds

VARIABLES
    password,  \* users.password_hash, or NoAccount
    session,   \* sessions.user_id of a session that has a row, or Unborn, or Ended
    token,     \* password_reset_tokens: the user and the state of each token
    req,       \* the request in each slot
    hist       \* history of each request: the passwords its account had since
               \* it began; the account's sessions and the used tokens then

vars == <<password, session, token, req, hist>>

\* A token is "issued" when its row is committed, "mailed" when its user has it.
TokenStates == {"unborn", "issued", "mailed", "expired", "used"}
Awaits == {"account", "insert_user", "insert_session", "find_session", "end_session",
           "insert_token", "mail", "token", "flush", "flush_user", "delete", "rows", "commit"}
Statuses == {0, 200, 201, 204, 400, 401, 429, 500}

Request == [
    pc      : Awaits \cup {"idle", "done"},
    op      : AllOps,
    user    : Users \cup {Nil},
    pw      : Passwords \cup {Nil},
    session : SessionIds \cup {Nil},    \* the cookie presented, or the session made
    token   : TokenIds \cup {Nil},      \* body.token, or the token made
    found   : SUBSET SessionIds,        \* rows that its DELETE has yet to come to
    doomed  : SUBSET SessionIds,        \* DELETEd, locked and not yet committed
    status  : Statuses]

Idle == [pc |-> "idle", op |-> "session", user |-> Nil, pw |-> Nil, session |-> Nil,
         token |-> Nil, found |-> {}, doomed |-> {}, status |-> 0]

InFlight(q) == q.pc \in Awaits

SessionsOf(u) == {i \in SessionIds : session[i] = u}
UsedTokens == {t \in TokenIds : token[t].state = "used"}

NoHistory == [passwords |-> {}, sessions |-> {}, used |-> {}]
HistoryOf(u) == [passwords |-> {password[x] : x \in {u} \cap Users},
                 sessions |-> SessionsOf(u), used |-> UsedTokens]

\* Every request in flight for user u witnesses the password pw.
Witness(u, pw) ==
    hist' = [s \in Slots |-> IF InFlight(req[s]) /\ req[s].user = u
                             THEN [hist[s] EXCEPT !.passwords = @ \cup {pw}]
                             ELSE hist[s]]

----------------------------------------------------------------------------
Init ==
    /\ password \in [Users -> {NoAccount, NoPassword}]
    /\ session = [i \in SessionIds |-> Unborn]
    /\ token = [t \in TokenIds |-> [user |-> Nil, state |-> "unborn"]]
    /\ req = [s \in Slots |-> Idle]
    /\ hist = [s \in Slots |-> NoHistory]

Goto(s, pc) == req' = [req EXCEPT ![s].pc = pc]
Answer(s, status) == req' = [req EXCEPT ![s].pc = "done", ![s].status = status]
OnlyControl == UNCHANGED <<password, session, token, hist>>

\* Random tokens: no row and no other request in flight has drawn them.
FreshSession(i) ==
    /\ session[i] = Unborn
    /\ \A t \in Slots : InFlight(req[t]) => req[t].session # i
FreshToken(i) ==
    /\ token[i].state = "unborn"
    /\ \A t \in Slots : InFlight(req[t]) => req[t].token # i

\* A request of kind op: for user u with password pw, session i and token t.
Start(s, pc, op, u, pw, i, t) ==
    /\ req' = [req EXCEPT ![s] = [Idle EXCEPT !.pc = pc, !.op = op, !.user = u,
                                    !.pw = pw, !.session = i, !.token = t]]
    /\ hist' = [hist EXCEPT ![s] = HistoryOf(u)]

\* The cookie jar and the mailbox: clients present sessions that were made and
\* tokens that were mailed, or a value that is neither.
Begin(s) ==
    /\ req[s].pc = "idle"
    /\ \E op \in Ops :
       \/ /\ op \in {"register", "login"}
          /\ \E u \in Users, pw \in Passwords, i \in {j \in SessionIds : FreshSession(j)} :
                Start(s, "account", op, u, pw, i, Nil)
       \/ /\ op \in {"logout", "session"}
          /\ \E i \in {j \in SessionIds : session[j] # Unborn} :
                Start(s, "find_session", op, Nil, Nil, i, Nil)
       \/ /\ op = "reset_request"
          /\ \E u \in Users, t \in {x \in TokenIds : FreshToken(x)} :
                Start(s, "account", op, u, Nil, Nil, t)
       \/ /\ op \in {"reset_validate", "reset_complete"}
          /\ \E t \in {x \in TokenIds : token[x].state \in {"mailed", "expired", "used"}} :
             \E pw \in IF op = "reset_complete" THEN Passwords ELSE {Nil} :
                Start(s, "token", op, token[t].user, pw, Nil, t)
    /\ UNCHANGED <<password, session, token>>

\* The client has its answer, and the slot is free for another request.
Receive(s) ==
    /\ req[s].pc = "done"
    /\ req' = [req EXCEPT ![s] = Idle]
    /\ hist' = [hist EXCEPT ![s] = NoHistory]
    /\ UNCHANGED <<password, session, token>>

----------------------------------------------------------------------------
(* register and login. *)

\* check_login_rate_limit refuses on a count kept elsewhere, of which nothing
\* is known here: it may refuse any login.
RateLimited(s) ==
    /\ req[s].pc = "account" /\ req[s].op = "login"
    /\ Answer(s, 429)
    /\ OnlyControl

\* An address that is taken gets the 201 of a new account, with a cookie that
\* is no session's.
SelectForRegister(s) ==
    /\ req[s].pc = "account" /\ req[s].op = "register"
    /\ IF password[req[s].user] = NoAccount THEN Goto(s, "insert_user")
       ELSE req' = [req EXCEPT ![s].pc = "done", ![s].status = 201, ![s].session = Nil]
    /\ OnlyControl

\* Mutant of EmailIsFree: no unique index, the later row wins.
AnyEmail(u) == TRUE

\* The unique index on users.email.
EmailIsFree(u) == password[u] = NoAccount

\* Mutant of StoredHash: the hash is left out of the row.
NoHash(q) == Nil

StoredHash(q) == q.pw

\* The index makes the loser of a race a 500.
InsertUser(s) ==
    LET q == req[s] IN
    /\ q.pc = "insert_user"
    /\ \/ ~EmailIsFree(q.user) /\ Answer(s, 500) /\ OnlyControl
       \/ /\ EmailIsFree(q.user)
          /\ password' = [password EXCEPT ![q.user] = StoredHash(q)]
          /\ Goto(s, "insert_session")
          /\ Witness(q.user, q.pw)
          /\ UNCHANGED <<session, token>>

\* Mutant of Verifies: an account without a password lets anyone in.
VerifiesOrHasNone(q) == password[q.user] \in {q.pw, NoPassword}

Verifies(q) == password[q.user] = q.pw

SelectForLogin(s) ==
    /\ req[s].pc = "account" /\ req[s].op = "login"
    /\ IF Verifies(req[s]) THEN Goto(s, "insert_session") ELSE Answer(s, 401)
    /\ OnlyControl

\* create_session, in a transaction of its own.
InsertSession(s) ==
    LET q == req[s] IN
    /\ q.pc = "insert_session"
    /\ session' = [session EXCEPT ![q.session] = q.user]
    /\ Answer(s, IF q.op = "register" THEN 201 ELSE 200)
    /\ UNCHANGED <<password, token, hist>>

----------------------------------------------------------------------------
(* logout and session. *)

\* The lock of a session's row, from its DELETE to the COMMIT.
HoldsSession(s, i) == i \in req[s].doomed

\* The DELETE of logout waits for whoever has DELETEd the row and not yet
\* committed, and finds no row where that one has.
DeleteSession(s) ==
    LET q == req[s] IN
    /\ q.pc = "find_session" /\ q.op = "logout"
    /\ \A t \in Slots : ~HoldsSession(t, q.session)
    /\ req' = [req EXCEPT ![s].pc = "end_session",
                          ![s].doomed = IF session[q.session] = Ended THEN {} ELSE {q.session}]
    /\ OnlyControl

\* The rows that s has DELETEd are gone.
EndDoomed(s) ==
    session' = [i \in SessionIds |-> IF i \in req[s].doomed THEN Ended ELSE session[i]]

CommitLogout(s) ==
    /\ req[s].pc = "end_session"
    /\ EndDoomed(s)
    /\ req' = [req EXCEPT ![s].pc = "done", ![s].status = 204, ![s].doomed = {}]
    /\ UNCHANGED <<password, token, hist>>

\* require_auth, and the body of get_session_info.  The clock is not modelled: a
\* session may turn out to have expired.  Nothing else looks at expires_at, and
\* the row of an expired session is locked and deleted like any other.
FindSession(s) ==
    LET q == req[s] IN
    /\ q.pc = "find_session" /\ q.op = "session"
    /\ \/ Answer(s, 401)
       \/ /\ session[q.session] # Ended
          /\ req' = [req EXCEPT ![s].pc = "done", ![s].status = 200,
                                ![s].user = session[q.session]]
    /\ OnlyControl

----------------------------------------------------------------------------
(* password_reset_request and password_reset_validate. *)

\* Mutant of HasPassword: an account made through Google is sent a token, too.
HasAccount(u) == password[u] # NoAccount

HasPassword(u) == password[u] \in Passwords

\* Always 200; only an account with a password is sent a token.
SelectForReset(s) ==
    /\ req[s].pc = "account" /\ req[s].op = "reset_request"
    /\ IF HasPassword(req[s].user) THEN Goto(s, "insert_token") ELSE Answer(s, 200)
    /\ OnlyControl

InsertToken(s) ==
    LET q == req[s] IN
    /\ q.pc = "insert_token"
    /\ token' = [token EXCEPT ![q.token] = [user |-> q.user, state |-> "issued"]]
    /\ Goto(s, "mail")
    /\ UNCHANGED <<password, session, hist>>

\* The mail server takes the message or fails; the answer is the same.
SendMail(s) ==
    LET q == req[s] IN
    /\ q.pc = "mail"
    /\ \/ /\ token[q.token].state = "issued"
          /\ token' = [token EXCEPT ![q.token].state = "mailed"]
       \/ UNCHANGED token
    /\ Answer(s, 200)
    /\ UNCHANGED <<password, session, hist>>

\* Mutant of TokenIsValid: used_at is not looked at.
TokenIsKnown(t) == token[t].state \in {"mailed", "used"}

TokenIsValid(t) == token[t].state = "mailed"

ValidateToken(s) ==
    /\ req[s].pc = "token" /\ req[s].op = "reset_validate"
    /\ Answer(s, IF TokenIsValid(req[s].token) THEN 200 ELSE 400)
    /\ OnlyControl

----------------------------------------------------------------------------
(* password_reset_complete. *)

SelectToken(s) ==
    /\ req[s].pc = "token" /\ req[s].op = "reset_complete"
    /\ IF TokenIsValid(req[s].token) THEN Goto(s, "flush") ELSE Answer(s, 400)
    /\ OnlyControl

\* The locks of a completion, each from its statement to the COMMIT: the token's
\* row and the user's.
HoldsToken(s, t) ==
    req[s].pc \in {"flush_user", "delete", "rows", "commit"} /\ req[s].token = t

\* Mutant of HoldsRow: the transaction stays open until the client has read.
HoldsRowUntilRead(s, u) ==
    /\ req[s].pc \in {"delete", "rows", "commit", "done"}
    /\ req[s].op = "reset_complete" /\ req[s].user = u

HoldsRow(s, u) == req[s].pc \in {"delete", "rows", "commit"} /\ req[s].user = u

\* The autoflush before the DELETE: UPDATE password_reset_tokens, then UPDATE
\* users, since SQLAlchemy takes classes that no relationship orders by the names
\* of their modules.  Both go by primary key: used_at is not looked at again.
FlushToken(s) ==
    /\ req[s].pc = "flush"
    /\ \A t \in Slots : ~HoldsToken(t, req[s].token)
    /\ Goto(s, "flush_user")
    /\ OnlyControl

FlushUser(s) ==
    /\ req[s].pc = "flush_user"
    /\ \A t \in Slots : ~HoldsRow(t, req[s].user)
    /\ Goto(s, "delete")
    /\ OnlyControl

\* Mutant of DoomedBy: the DELETE is forgotten.
NoneDoomed(q) == {}

\* The rows that are committed when the DELETE starts.
DoomedBy(q) == SessionsOf(q.user)

DeleteSessions(s) ==
    /\ req[s].pc = "delete"
    /\ req' = [req EXCEPT ![s].pc = "rows", ![s].found = DoomedBy(req[s])]
    /\ OnlyControl

\* The DELETE comes to a row that it found, waits for a logout that is deleting it,
\* and passes over it if that one has committed.
DeleteRow(s) ==
    LET q == req[s] IN
    /\ q.pc = "rows"
    /\ \E i \in q.found :
          /\ \A t \in Slots \ {s} : ~HoldsSession(t, i)
          /\ req' = [req EXCEPT ![s].found = @ \ {i},
                                ![s].doomed = IF session[i] = Ended THEN @ ELSE @ \cup {i}]
    /\ OnlyControl

EndDelete(s) ==
    /\ req[s].pc = "rows" /\ req[s].found = {}
    /\ Goto(s, "commit")
    /\ OnlyControl

CommitReset(s) ==
    LET q == req[s] IN
    /\ q.pc = "commit"
    /\ password' = [password EXCEPT ![q.user] = StoredHash(q)]
    /\ token' = [token EXCEPT ![q.token].state = "used"]
    /\ EndDoomed(s)
    /\ req' = [req EXCEPT ![s].pc = "done", ![s].status = 200, ![s].doomed = {}]
    /\ Witness(q.user, q.pw)

----------------------------------------------------------------------------
(* Time and failure. *)

ExpireToken ==
    /\ \E t \in TokenIds :
          /\ token[t].state \in {"issued", "mailed"}
          /\ token' = [token EXCEPT ![t].state = "expired"]
    /\ UNCHANGED <<password, session, req, hist>>

\* The process dies and is restarted; PostgreSQL rolls back what was open.
Crash ==
    /\ \E s \in Slots : InFlight(req[s])
    /\ req' = [s \in Slots |-> IF InFlight(req[s]) THEN Idle ELSE req[s]]
    /\ hist' = [s \in Slots |-> IF InFlight(req[s]) THEN NoHistory ELSE hist[s]]
    /\ UNCHANGED <<password, session, token>>

----------------------------------------------------------------------------
Continue(s) ==
    \/ RateLimited(s) \/ SelectForRegister(s) \/ InsertUser(s)
    \/ SelectForLogin(s) \/ InsertSession(s) \/ DeleteSession(s) \/ CommitLogout(s) \/ FindSession(s)
    \/ SelectForReset(s) \/ InsertToken(s) \/ SendMail(s) \/ ValidateToken(s)
    \/ SelectToken(s) \/ FlushToken(s) \/ FlushUser(s) \/ DeleteSessions(s) \/ DeleteRow(s)
    \/ EndDelete(s) \/ CommitReset(s)

Next == (\E s \in Slots : Begin(s) \/ Continue(s) \/ Receive(s))
        \/ ExpireToken \/ Crash

Spec == Init /\ [][Next]_vars

\* The event loop resumes every coroutine whose await has been answered.
FairSpec == Spec /\ \A s \in Slots : WF_vars(Continue(s))

----------------------------------------------------------------------------
History == [passwords : SUBSET (Passwords \cup {NoAccount, NoPassword}),
            sessions : SUBSET SessionIds, used : SUBSET TokenIds]

TypeOK ==
    /\ password \in [Users -> Passwords \cup {NoAccount, NoPassword}]
    /\ session \in [SessionIds -> Users \cup {Unborn, Ended}]
    /\ token \in [TokenIds -> [user : Users \cup {Nil}, state : TokenStates]]
    /\ req \in [Slots -> Request]
    /\ hist \in [Slots -> History]

Done(s, op, status) == req[s].pc = "done" /\ req[s].op = op /\ req[s].status = status

\* A login that is let in presented the account's password of some moment while
\* it ran, although the session is inserted in a transaction after the check
\* (auth/router.py:87-109), and never an account's that has no password.
LoginsNeedThePassword ==
    \A s \in Slots : Done(s, "login", 200) => req[s].pw \in hist[s].passwords

\* Once a reset is answered, every session the account had when it began is
\* over, whatever logouts it waited for and crash or no crash before
\* (auth/router.py:216-224).
ResetEndsOldSessions ==
    \A s \in Slots : Done(s, "reset_complete", 200) =>
        hist[s].sessions \cap SessionsOf(req[s].user) = {}

\* A token once used is refused to every request that begins later, and so is
\* it by the endpoint that only validates it (docs/planning/prd-1-auth.md:137).
UsedTokensAreRefused ==
    \A s \in Slots :
        req[s].pc = "done" /\ req[s].op \in {"reset_validate", "reset_complete"}
            /\ req[s].token \in hist[s].used
            => req[s].status = 400

\* A password is set by registering a free address, and changed by a reset with
\* a token of that very account: of two concurrent registrations the loser does
\* not replace the winner's password, and an account made through Google never
\* gets one.
PasswordsChangeByReset ==
    [][\A u \in Users : password'[u] # password[u] =>
          \E s \in Slots :
             /\ req[s].user = u
             /\ \/ req[s].pc = "insert_user" /\ password[u] = NoAccount
                \/ /\ req[s].pc = "commit" /\ password[u] \in Passwords
                   /\ token[req[s].token].user = u]_vars

\* The rows as UserTable has them.  An account without a password is one that was
\* made through Google; of the Google account this module knows only the address.
Rows == [u \in Users |->
            [sub |-> IF password[u] = NoPassword THEN u ELSE Nil,
             password |-> IF password[u] \in Passwords THEN password[u] ELSE Nil]]

\* No account goes away or loses its password, and one that was made through
\* Google never gets one, whatever requests interleave, fail or are lost.
Table == INSTANCE UserTable WITH Mails <- Users, Subs <- Users, None <- Nil, user <- Rows
ImplementsUserTable == Table!Spec

\* Every request is answered or lost in a crash: the locks of tokens, users and
\* sessions that completions and logouts hold and wait for (auth/router.py:223,
\* auth/session.py:33-34) close no cycle.
RequestsAreAnswered == \A s \in Slots : InFlight(req[s]) ~> ~InFlight(req[s])

ResetCommits(s) == req[s].pc = "commit" /\ req'[s].pc = "done"

\* What the product requirements say (docs/planning/prd-1-auth.md:137): reset
\* tokens are single-use.
TokensAreSingleUse ==
    [][\A s \in Slots : ResetCommits(s) => token[req[s].token].state # "used"]_vars

\* What the answer of password_reset_complete says (auth/router.py:229): all
\* sessions have been invalidated.
ResetEndsAllSessions ==
    [][\A s \in Slots : ResetCommits(s) =>
          \A i \in SessionIds : session'[i] # req[s].user]_vars
=============================================================================
