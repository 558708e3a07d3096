--------------------------- MODULE Accounts_proofs ---------------------------
(***************************************************************************)
(* Theorems about Accounts, for every set of addresses, passwords,         *)
(* sessions, tokens and requests in flight, with any crashes and expiries. *)
(* The invariant is that of AccountsInv.                                   *)
(***************************************************************************)
EXTENDS AccountsInv, TLAPS

----------------------------------------------------------------------------
(* What a step leaves to the requests that it does not move. *)

TablesGrow ==
    /\ password' \in [Users -> Passwords \cup {NoAccount, NoPassword}]
    /\ session' \in [SessionIds -> Users \cup {Unborn, Ended}]
    /\ token' \in [TokenIds -> [user : Users \cup {Nil}, state : TokenStates]]
    /\ hist' \in [Slots -> History]
    /\ \A u \in Users : password[u] \in Passwords => password'[u] \in Passwords
    /\ \A i \in SessionIds : session[i] = Unborn \/ session'[i] \in {session[i], Ended}
    /\ \A t \in TokenIds : token[t].state # "unborn" =>
          /\ token'[t].user = token[t].user /\ token'[t].state # "unborn"
          /\ token[t].state = "used" => token'[t].state = "used"
    /\ TokensHaveOwners'

HistoryGrows(t) ==
    /\ hist'[t].sessions = hist[t].sessions /\ hist'[t].used = hist[t].used
    /\ hist[t].passwords \subseteq hist'[t].passwords
    /\ InFlight(req[t]) /\ req[t].user \in Users => password'[req[t].user] \in hist'[t].passwords

DrawnAreKept(t) ==
    /\ Making(req[t]) => session'[req[t].session] = session[req[t].session]
    /\ Drawing(req[t]) => token'[req[t].token] = token[req[t].token]

LEMMA HistoryFields ==
    ASSUME TypeOK, NEW s \in Slots
    PROVE  hist[s].sessions \subseteq SessionIds /\ hist[s].used \subseteq TokenIds
BY DEF TypeOK, History

LEMMA UsedStayUsed ==
    ASSUME TypeOK, TablesGrow
    PROVE  UsedTokens \subseteq UsedTokens'
BY DEF TablesGrow, UsedTokens, TypeOK

\* A session that has been made belongs to whom it belonged, or has ended.
LEMMA SessionsOnlyEnd ==
    ASSUME TypeOK, TablesGrow, NEW i \in SessionIds, session[i] # Unborn
    PROVE  /\ session'[i] # Unborn
           /\ \A u \in Users : session'[i] = u => session[i] = u
BY SentinelAssumption DEF TablesGrow, TypeOK

LEMMA OthersStaySound ==
    ASSUME RequestInv, TablesGrow, NEW t \in Slots, req'[t] = req[t], HistoryGrows(t), DrawnAreKept(t)
    PROVE  RequestIsSound(t)'
<1> DEFINE q == req[t]
<1>1. WellFormed(q) /\ TablesFit(q) /\ HistoryFits(q, hist[t]) /\ SessionsFit(q, hist[t]) /\ TypeOK
  BY DEF RequestInv, RequestIsSound
<1>2. WellFormed(req[t])'
  BY <1>1 DEF WellFormed, Making, Drawing, Resetting
<1>3. TablesFit(req[t])'
  <2>1. q.pc = "find_session" => session'[q.session] # Unborn
    BY <1>1, SessionsOnlyEnd DEF TablesFit, WellFormed
  <2>2. q.doomed \subseteq SessionIds /\ q.found \subseteq SessionIds
    BY <1>1 DEF TypeOK, Request
  <2>3. q.pc = "end_session" => \A i \in q.doomed : session'[i] # Unborn
    BY <1>1, <2>2, SessionsOnlyEnd DEF TablesFit
  <2>4. Deleting(q) => \A i \in q.found \cup q.doomed : session'[i] \in {q.user, Ended}
    BY <1>1, <2>2, SentinelAssumption DEF TablesFit, TablesGrow, WellFormed, Resetting
  <2> QED
    BY <1>1, <2>1, <2>3, <2>4 DEF Deleting, TablesFit, WellFormed, Making, Drawing, Resetting, DrawnAreKept, TablesGrow
<1>4. HistoryFits(req[t], hist[t])'
  <2>1. hist'[t].used \subseteq UsedTokens'
    BY <1>1, UsedStayUsed DEF HistoryFits, HistoryGrows
  <2>2. InFlight(q) /\ q.user \in Users => password'[q.user] \in hist'[t].passwords
    BY DEF HistoryGrows
  <2>3. /\ hist'[t].used = hist[t].used /\ hist[t].passwords \subseteq hist'[t].passwords
    BY DEF HistoryGrows
  <2> QED
    BY <1>1, <2>1, <2>2, <2>3 DEF HistoryFits
<1>5. SessionsFit(req[t], hist[t])'
  <2> SUFFICES ASSUME q.op = "reset_complete"
               PROVE  /\ \A i \in hist[t].sessions : session'[i] # Unborn
                      /\ \A i \in hist[t].sessions : session'[i] = q.user => session[i] = q.user
    BY <1>1 DEF SessionsFit, HistoryGrows, SessionsOf
  <2>1. q.user \in Users /\ \A i \in hist[t].sessions : i \in SessionIds /\ session[i] # Unborn
    BY <1>1, HistoryFields DEF WellFormed, SessionsFit
  <2> QED
    BY <1>1, <2>1, SessionsOnlyEnd
<1> QED
  BY <1>2, <1>3, <1>4, <1>5 DEF RequestIsSound

----------------------------------------------------------------------------
(* The one request that a step moves. *)

Moves(s) ==
    /\ req' \in [Slots -> Request]
    /\ \A t \in Slots : t # s => req'[t] = req[t]
Keeps(s) ==
    /\ req'[s].op = req[s].op /\ req'[s].user = req[s].user /\ req'[s].pw = req[s].pw
    /\ req'[s].token = req[s].token

\* An id that is still drawn was drawn before, by the same request.
DrawsNothing(s) ==
    /\ Making(req'[s]) => Making(req[s]) /\ req'[s].session = req[s].session
    /\ Drawing(req'[s]) => Drawing(req[s]) /\ req'[s].token = req[s].token

LEMMA OneRequestMoves ==
    ASSUME RequestInv, NEW s \in Slots, Moves(s), DrawsNothing(s), TablesGrow,
           \A t \in Slots : t # s => HistoryGrows(t) /\ DrawnAreKept(t),
           RequestIsSound(s)'
    PROVE  RequestInv'
<1>1. TypeOK'
  BY DEF TypeOK, Moves, TablesGrow
<1>2. DrawnOnce'
  BY DEF RequestInv, DrawnOnce, Moves, DrawsNothing
<1>3. ASSUME NEW t \in Slots, t # s PROVE RequestIsSound(t)'
  BY <1>3, OthersStaySound DEF Moves
<1> QED
  BY <1>1, <1>2, <1>3 DEF RequestInv, TablesGrow

LEMMA ControlGrows ==
    ASSUME RequestInv, OnlyControl
    PROVE  /\ TablesGrow
           /\ \A t \in Slots : HistoryGrows(t) /\ DrawnAreKept(t)
<1>1. TablesGrow
  BY DEF RequestInv, OnlyControl, TablesGrow, TypeOK, TokensHaveOwners
<1>2. ASSUME NEW t \in Slots PROVE HistoryGrows(t) /\ DrawnAreKept(t)
  BY DEF RequestInv, OnlyControl, HistoryGrows, DrawnAreKept, RequestIsSound, HistoryFits
<1> QED
  BY <1>1, <1>2

LEMMA GotoMoves ==
    ASSUME TypeOK, NEW s \in Slots, NEW pc \in Awaits, Goto(s, pc)
    PROVE  /\ Moves(s) /\ Keeps(s)
           /\ req'[s].pc = pc /\ req'[s].session = req[s].session
           /\ req'[s].found = req[s].found
           /\ req'[s].doomed = req[s].doomed /\ req'[s].status = req[s].status
BY DEF TypeOK, Goto, Moves, Keeps, Request

LEMMA AnswerMoves ==
    ASSUME TypeOK, NEW s \in Slots, NEW status \in Statuses, Answer(s, status)
    PROVE  /\ Moves(s) /\ Keeps(s)
           /\ req'[s].pc = "done" /\ req'[s].session = req[s].session
           /\ req'[s].found = req[s].found
           /\ req'[s].doomed = req[s].doomed /\ req'[s].status = status
BY DEF TypeOK, Answer, Moves, Keeps, Request

\* The fields that a step may set besides those of Goto and Answer.
LEMMA SessionUpdates ==
    ASSUME NEW q \in Request, NEW pc \in Awaits \cup {"idle", "done"}, NEW status \in Statuses,
           NEW i \in SessionIds \cup {Nil}
    PROVE  [q EXCEPT !.pc = pc, !.status = status, !.session = i] \in Request
BY DEF Request

LEMMA UserUpdates ==
    ASSUME NEW q \in Request, NEW pc \in Awaits \cup {"idle", "done"}, NEW status \in Statuses,
           NEW u \in Users \cup {Nil}
    PROVE  [q EXCEPT !.pc = pc, !.status = status, !.user = u] \in Request
BY DEF Request

LEMMA DoomedUpdates ==
    ASSUME NEW q \in Request, NEW pc \in Awaits \cup {"idle", "done"}, NEW status \in Statuses,
           NEW D \in SUBSET SessionIds
    PROVE  [q EXCEPT !.pc = pc, !.status = status, !.doomed = D] \in Request
BY DEF Request

LEMMA RequestMoves ==
    ASSUME TypeOK, NEW s \in Slots, NEW r \in Request, req' = [req EXCEPT ![s] = r]
    PROVE  Moves(s) /\ req'[s] = r
BY DEF TypeOK, Moves

\* A request that is answered: what is left to show is what its status promises.
LEMMA AnsweredIsSound ==
    ASSUME RequestInv, NEW s \in Slots, Keeps(s), req'[s].pc = "done", TablesGrow, HistoryGrows(s),
           req[s].op = "login" /\ req'[s].status = 200 => req[s].pw \in hist[s].passwords,
           req[s].op \in {"reset_validate", "reset_complete"} /\ req[s].token \in hist[s].used
               => req'[s].status = 400,
           req[s].op = "reset_complete" /\ req'[s].status = 200
               => \A i \in hist[s].sessions : session'[i] # req[s].user
    PROVE  RequestIsSound(s)'
<1>1. TypeOK /\ WellFormed(req[s]) /\ HistoryFits(req[s], hist[s]) /\ SessionsFit(req[s], hist[s])
  BY DEF RequestInv, RequestIsSound
<1>2. /\ req'[s].op = req[s].op /\ req'[s].user = req[s].user
      /\ req'[s].pw = req[s].pw /\ req'[s].token = req[s].token
  BY DEF Keeps
<1>3. ~Making(req'[s]) /\ ~Drawing(req'[s]) /\ ~Resetting(req'[s]) /\ ~Deleting(req'[s])
  BY DEF Making, Drawing, Resetting, Deleting
<1>4. WellFormed(req[s])'
  BY <1>1, <1>2, <1>3 DEF WellFormed
<1>5. TablesFit(req[s])'
  BY <1>3 DEF TablesFit
<1>6. /\ hist'[s].sessions = hist[s].sessions /\ hist'[s].used = hist[s].used
      /\ hist[s].passwords \subseteq hist'[s].passwords
  BY DEF HistoryGrows
<1>7. HistoryFits(req[s], hist[s])'
  <2>1. hist'[s].used \subseteq UsedTokens'
    BY <1>1, <1>6, UsedStayUsed DEF HistoryFits
  <2>2. ~InFlight(req'[s])
    BY DEF InFlight, Awaits
  <2> QED
    BY <1>2, <1>3, <1>6, <2>1, <2>2 DEF HistoryFits, Finished
<1>8. SessionsFit(req[s], hist[s])'
  <2> SUFFICES ASSUME req[s].op = "reset_complete"
               PROVE  /\ \A i \in hist[s].sessions : session'[i] # Unborn
                      /\ req'[s].status = 200 => \A i \in hist[s].sessions : session'[i] # req'[s].user
    BY <1>2, <1>3, <1>6 DEF SessionsFit, SessionsOf
  <2>1. \A i \in hist[s].sessions : i \in SessionIds /\ session[i] # Unborn
    BY <1>1, HistoryFields DEF SessionsFit
  <2>2. \A i \in hist[s].sessions : session'[i] # Unborn
    BY <1>1, <2>1, SessionsOnlyEnd
  <2> QED
    BY <1>2, <2>2
<1> QED
  BY <1>4, <1>5, <1>7, <1>8 DEF RequestIsSound

LEMMA AnsweredHolds ==
    ASSUME RequestInv, NEW s \in Slots, Moves(s), Keeps(s), req'[s].pc = "done", TablesGrow,
           \A t \in Slots : HistoryGrows(t),
           \A t \in Slots : t # s => DrawnAreKept(t),
           req[s].op = "login" /\ req'[s].status = 200 => req[s].pw \in hist[s].passwords,
           req[s].op \in {"reset_validate", "reset_complete"} /\ req[s].token \in hist[s].used
               => req'[s].status = 400,
           req[s].op = "reset_complete" /\ req'[s].status = 200
               => \A i \in hist[s].sessions : session'[i] # req[s].user
    PROVE  RequestInv'
<1>1. RequestIsSound(s)'
  BY AnsweredIsSound
<1>2. DrawsNothing(s)
  BY DEF DrawsNothing, Making, Drawing
<1> QED
  BY <1>1, <1>2, OneRequestMoves

\* A request that goes on to another await, but not to delete sessions.
LEMMA AwaitsHold ==
    ASSUME RequestInv, NEW s \in Slots, Moves(s), Keeps(s), DrawsNothing(s), TablesGrow,
           \A t \in Slots : HistoryGrows(t),
           \A t \in Slots : t # s => DrawnAreKept(t),
           InFlight(req'[s]), ~Deleting(req'[s]), req'[s].status = req[s].status,
           req[s].op = "login" /\ req'[s].pc = "insert_session" => req[s].pw \in hist[s].passwords,
           Resetting(req'[s]) => req[s].token \notin hist[s].used,
           InFlight(req[s]), WellFormed(req[s])', TablesFit(req[s])'
    PROVE  RequestInv'
<1>1. TypeOK /\ HistoryFits(req[s], hist[s]) /\ SessionsFit(req[s], hist[s])
  BY DEF RequestInv, RequestIsSound
<1>2. /\ req'[s].op = req[s].op /\ req'[s].user = req[s].user
      /\ req'[s].pw = req[s].pw /\ req'[s].token = req[s].token
  BY DEF Keeps
<1>3. /\ hist'[s].sessions = hist[s].sessions /\ hist'[s].used = hist[s].used
      /\ hist[s].passwords \subseteq hist'[s].passwords
      /\ req[s].user \in Users => password'[req[s].user] \in hist'[s].passwords
  BY DEF HistoryGrows
<1>4. req'[s].pc # "done"
  BY DEF InFlight, Awaits
<1>5. HistoryFits(req[s], hist[s])'
  <2>1. hist'[s].used \subseteq UsedTokens'
    BY <1>1, <1>3, UsedStayUsed DEF HistoryFits
  <2>2. req'[s].status = 200 /\ req'[s].op = "login" => req'[s].pw \in hist'[s].passwords
    BY <1>1, <1>2, <1>3 DEF HistoryFits
  <2> QED
    BY <1>2, <1>3, <1>4, <2>1, <2>2 DEF HistoryFits, Finished
<1>6. SessionsFit(req[s], hist[s])'
  <2>1. req[s].op = "reset_complete" =>
          \A i \in hist[s].sessions : i \in SessionIds /\ session[i] # Unborn
    BY <1>1, HistoryFields DEF SessionsFit
  <2>2. req[s].op = "reset_complete" => \A i \in hist[s].sessions : session'[i] # Unborn
    BY <1>1, <2>1, SessionsOnlyEnd
  <2> QED
    BY <1>2, <1>3, <1>4, <2>2 DEF SessionsFit
<1>7. RequestIsSound(s)'
  BY <1>5, <1>6 DEF RequestIsSound
<1> QED
  BY <1>7, OneRequestMoves

----------------------------------------------------------------------------
(* register and login. *)

\* A request that only moves on: what has to be shown is that it is sound there.
LEMMA ControlStep ==
    ASSUME RequestInv, NEW s \in Slots, OnlyControl, Moves(s), DrawsNothing(s), RequestIsSound(s)'
    PROVE  RequestInv'
BY ControlGrows, OneRequestMoves

LEMMA RateLimitedHolds == ASSUME RequestInv, NEW s \in Slots, RateLimited(s) PROVE RequestInv'
<1>1. Answer(s, 429) /\ OnlyControl /\ req[s].op = "login" /\ 429 \in Statuses /\ TypeOK
  BY DEF RateLimited, Statuses, RequestInv
<1>2. Moves(s) /\ Keeps(s) /\ req'[s].pc = "done" /\ req'[s].status = 429
  BY <1>1, AnswerMoves
<1> QED
  BY <1>1, <1>2, ControlGrows, AnsweredHolds

LEMMA SelectForRegisterHolds == ASSUME RequestInv, NEW s \in Slots, SelectForRegister(s) PROVE RequestInv'
<1>1. /\ req[s].op = "register" /\ req[s].pc = "account" /\ OnlyControl /\ TypeOK
      /\ WellFormed(req[s]) /\ TablesFit(req[s])
  BY DEF SelectForRegister, RequestInv, RequestIsSound
<1>2. TablesGrow /\ \A t \in Slots : HistoryGrows(t) /\ DrawnAreKept(t)
  BY <1>1, ControlGrows
<1>3. CASE Goto(s, "insert_user")
  <2>1. /\ Moves(s) /\ Keeps(s) /\ req'[s].pc = "insert_user"
        /\ req'[s].session = req[s].session /\ req'[s].status = req[s].status
    BY <1>1, <1>3, GotoMoves DEF Awaits
  <2>2. /\ Making(req[s]) /\ Making(req'[s]) /\ ~Drawing(req'[s]) /\ ~Resetting(req'[s])
        /\ ~Deleting(req'[s])
    BY <1>1, <2>1 DEF Making, Drawing, Resetting, Deleting, Keeps
  <2>3. InFlight(req[s]) /\ InFlight(req'[s])
    BY <1>1, <2>1 DEF InFlight, Awaits
  <2>4. WellFormed(req[s])'
    BY <1>1, <2>1, <2>2 DEF WellFormed, Keeps
  <2>5. TablesFit(req[s])'
    BY <1>1, <2>1, <2>2 DEF TablesFit, OnlyControl
  <2>6. DrawsNothing(s)
    BY <2>1, <2>2 DEF DrawsNothing
  <2> QED
    BY <1>1, <1>2, <2>1, <2>2, <2>3, <2>4, <2>5, <2>6, AwaitsHold
<1>4. CASE req' = [req EXCEPT ![s].pc = "done", ![s].status = 201, ![s].session = Nil]
  <2>1. Moves(s) /\ Keeps(s) /\ req'[s].pc = "done" /\ req'[s].status = 201
    <3> DEFINE r == [req[s] EXCEPT !.pc = "done", !.status = 201, !.session = Nil]
    <3>1. req[s] \in Request /\ req \in [Slots -> Request] /\ 201 \in Statuses
      BY <1>1 DEF TypeOK, Statuses
    <3>2. r.pc = "done" /\ r.op = req[s].op /\ r.user = req[s].user
          /\ r.pw = req[s].pw /\ r.token = req[s].token /\ r.status = 201
      BY <3>1 DEF Request
    <3>3. r \in Request
      <4>1. "done" \in Awaits \cup {"idle", "done"} /\ Nil \in SessionIds \cup {Nil}
        OBVIOUS
      <4> QED
        BY <3>1, <4>1, SessionUpdates, ZenonT(40)
    <3>4. req' = [req EXCEPT ![s] = r]
      BY <1>4, <3>1
    <3> HIDE DEF r
    <3> QED
      BY <3>1, <3>2, <3>3, <3>4 DEF Moves, Keeps
  <2> QED
    BY <1>1, <1>2, <2>1, AnsweredHolds
<1> QED
  BY <1>3, <1>4 DEF SelectForRegister

LEMMA SelectForLoginHolds == ASSUME RequestInv, NEW s \in Slots, SelectForLogin(s) PROVE RequestInv'
<1>1. /\ req[s].op = "login" /\ req[s].pc = "account" /\ OnlyControl /\ TypeOK
      /\ WellFormed(req[s]) /\ TablesFit(req[s]) /\ HistoryFits(req[s], hist[s])
  BY DEF SelectForLogin, RequestInv, RequestIsSound
<1>2. TablesGrow /\ \A t \in Slots : HistoryGrows(t) /\ DrawnAreKept(t)
  BY <1>1, ControlGrows
<1>3. CASE Verifies(req[s]) /\ Goto(s, "insert_session")
  <2>1. /\ Moves(s) /\ Keeps(s) /\ req'[s].pc = "insert_session"
        /\ req'[s].session = req[s].session /\ req'[s].status = req[s].status
    BY <1>1, <1>3, GotoMoves DEF Awaits
  <2>2. /\ Making(req[s]) /\ Making(req'[s]) /\ ~Drawing(req'[s]) /\ ~Resetting(req'[s])
        /\ ~Deleting(req'[s])
    BY <1>1, <2>1 DEF Making, Drawing, Resetting, Deleting, Keeps
  <2>3. InFlight(req[s]) /\ InFlight(req'[s])
    BY <1>1, <2>1 DEF InFlight, Awaits
  <2>4. req[s].pw \in hist[s].passwords
    BY <1>1, <1>3, <2>2, <2>3 DEF Verifies, HistoryFits, WellFormed
  <2>5. WellFormed(req[s])'
    BY <1>1, <2>1, <2>2 DEF WellFormed, Keeps
  <2>6. TablesFit(req[s])'
    BY <1>1, <2>1, <2>2 DEF TablesFit, OnlyControl
  <2>7. DrawsNothing(s)
    BY <2>1, <2>2 DEF DrawsNothing
  <2> QED
    BY <1>1, <1>2, <2>1, <2>2, <2>3, <2>4, <2>5, <2>6, <2>7, AwaitsHold
<1>4. CASE Answer(s, 401)
  <2>1. 401 \in Statuses
    BY DEF Statuses
  <2>2. Moves(s) /\ Keeps(s) /\ req'[s].pc = "done" /\ req'[s].status = 401
    BY <1>1, <1>4, <2>1, AnswerMoves
  <2> QED
    BY <1>1, <1>2, <2>2, AnsweredHolds
<1> QED
  BY <1>3, <1>4 DEF SelectForLogin

\* A password that is set is witnessed by every request of its account.
LEMMA WitnessGrows ==
    ASSUME RequestInv, NEW u \in Users, NEW pw \in Passwords, Witness(u, pw),
           password' = [password EXCEPT ![u] = pw]
    PROVE  /\ hist' \in [Slots -> History]
           /\ \A t \in Slots : HistoryGrows(t)
<1>1. hist' \in [Slots -> History]
  <2>1. ASSUME NEW h \in History PROVE [h EXCEPT !.passwords = @ \cup {pw}] \in History
    BY DEF History
  <2>2. hist \in [Slots -> History]
    BY DEF RequestInv, TypeOK
  <2> QED
    BY <2>1, <2>2 DEF Witness
<1>2. ASSUME NEW t \in Slots PROVE HistoryGrows(t)
  <2>1. HistoryFits(req[t], hist[t]) /\ hist[t] \in History
    BY DEF RequestInv, RequestIsSound, TypeOK
  <2>2. CASE InFlight(req[t]) /\ req[t].user = u
    <3>1. hist'[t] = [hist[t] EXCEPT !.passwords = @ \cup {pw}]
      BY <2>2 DEF Witness
    <3>2. /\ hist'[t].passwords = hist[t].passwords \cup {pw}
          /\ hist'[t].sessions = hist[t].sessions /\ hist'[t].used = hist[t].used
      BY <2>1, <3>1 DEF History
    <3>3. password'[u] = pw
      BY DEF RequestInv, TypeOK
    <3> QED
      BY <2>2, <3>2, <3>3 DEF HistoryGrows
  <2>3. CASE ~(InFlight(req[t]) /\ req[t].user = u)
    <3>1. hist'[t] = hist[t]
      BY <2>3 DEF Witness
    <3>2. req[t].user # u => password'[req[t].user] = password[req[t].user]
      BY DEF RequestInv, TypeOK
    <3> QED
      BY <2>1, <2>3, <3>1, <3>2 DEF HistoryGrows, HistoryFits
  <2> QED
    BY <2>2, <2>3
<1> QED
  BY <1>1, <1>2

LEMMA InsertUserHolds == ASSUME RequestInv, NEW s \in Slots, InsertUser(s) PROVE RequestInv'
<1>1. /\ req[s].pc = "insert_user" /\ req[s].op = "register" /\ TypeOK
      /\ req[s].user \in Users /\ req[s].pw \in Passwords
      /\ WellFormed(req[s]) /\ TablesFit(req[s])
  BY DEF InsertUser, RequestInv, RequestIsSound, WellFormed, Making
<1>2. CASE Answer(s, 500) /\ OnlyControl
  <2>1. 500 \in Statuses
    BY DEF Statuses
  <2>2. Moves(s) /\ Keeps(s) /\ req'[s].pc = "done" /\ req'[s].status = 500
    <3>1. TypeOK /\ Answer(s, 500)
      BY <1>1, <1>2
    <3> QED
      BY <2>1, <3>1, AnswerMoves
  <2>3. TablesGrow /\ \A t \in Slots : HistoryGrows(t) /\ DrawnAreKept(t)
    BY <1>2, ControlGrows
  <2> QED
    BY <1>1, <2>2, <2>3, AnsweredHolds
<1>3. CASE /\ EmailIsFree(req[s].user)
           /\ password' = [password EXCEPT ![req[s].user] = StoredHash(req[s])]
           /\ Goto(s, "insert_session") /\ Witness(req[s].user, req[s].pw)
           /\ UNCHANGED <<session, token>>
  <2>1. /\ Moves(s) /\ Keeps(s) /\ req'[s].pc = "insert_session"
        /\ req'[s].session = req[s].session /\ req'[s].status = req[s].status
    BY <1>1, <1>3, GotoMoves DEF Awaits
  <2>2. password' = [password EXCEPT ![req[s].user] = req[s].pw]
    BY <1>3 DEF StoredHash
  <2>3. hist' \in [Slots -> History] /\ \A t \in Slots : HistoryGrows(t)
    BY <1>1, <1>3, <2>2, WitnessGrows
  <2>4. TablesGrow
    BY <1>1, <1>3, <2>2, <2>3 DEF RequestInv, TypeOK, TablesGrow, TokensHaveOwners
  <2>5. \A t \in Slots : DrawnAreKept(t)
    BY <1>3 DEF DrawnAreKept
  <2>6. /\ Making(req[s]) /\ Making(req'[s]) /\ ~Drawing(req'[s]) /\ ~Resetting(req'[s])
        /\ ~Deleting(req'[s])
    BY <1>1, <2>1 DEF Making, Drawing, Resetting, Deleting, Keeps
  <2>7. InFlight(req[s]) /\ InFlight(req'[s])
    BY <1>1, <2>1 DEF InFlight, Awaits
  <2>8. WellFormed(req[s])'
    BY <1>1, <2>1, <2>6 DEF WellFormed, Keeps
  <2>9. TablesFit(req[s])'
    BY <1>1, <1>3, <2>1, <2>6 DEF TablesFit
  <2>10. DrawsNothing(s)
    BY <2>1, <2>6 DEF DrawsNothing
  <2> QED
    BY <1>1, <2>1, <2>3, <2>4, <2>5, <2>6, <2>7, <2>8, <2>9, <2>10, AwaitsHold
<1> QED
  BY <1>2, <1>3 DEF InsertUser

\* Steps that move sessions and no password.
LEMMA SessionsGrow ==
    ASSUME RequestInv, UNCHANGED <<password, token, hist>>,
           session' \in [SessionIds -> Users \cup {Unborn, Ended}],
           \A i \in SessionIds : session[i] = Unborn \/ session'[i] \in {session[i], Ended}
    PROVE  TablesGrow /\ \A t \in Slots : HistoryGrows(t)
<1>1. TablesGrow
  BY DEF RequestInv, TypeOK, TablesGrow, TokensHaveOwners
<1>2. ASSUME NEW t \in Slots PROVE HistoryGrows(t)
  BY DEF RequestInv, HistoryGrows, RequestIsSound, HistoryFits
<1> QED
  BY <1>1, <1>2

LEMMA InsertSessionHolds == ASSUME RequestInv, NEW s \in Slots, InsertSession(s) PROVE RequestInv'
<1> DEFINE q == req[s]
<1>1. /\ RequestIsSound(s) /\ q.pc = "insert_session" /\ TypeOK /\ Making(q)
      /\ q.op \in {"register", "login"}
      /\ q.user \in Users /\ q.session \in SessionIds /\ session[q.session] = Unborn
  BY DEF InsertSession, RequestInv, RequestIsSound, WellFormed, TablesFit, Making
<1>2. Moves(s) /\ Keeps(s) /\ req'[s].pc = "done"
  <2> DEFINE status == IF q.op = "register" THEN 201 ELSE 200
  <2>1. Answer(s, status)
    BY DEF InsertSession
  <2>2. status \in Statuses
    BY DEF Statuses
  <2> HIDE DEF status
  <2> QED
    BY <1>1, <2>1, <2>2, AnswerMoves
<1>3. session' = [session EXCEPT ![q.session] = q.user] /\ UNCHANGED <<password, token, hist>>
  BY DEF InsertSession
<1>4. TablesGrow /\ \A t \in Slots : HistoryGrows(t)
  BY <1>1, <1>3, SessionsGrow DEF TypeOK
<1>5. ASSUME NEW t \in Slots, t # s PROVE DrawnAreKept(t)
  <2>1. Making(req[t]) => req[t].session \in SessionIds \ {q.session}
    BY <1>1, <1>5 DEF RequestInv, DrawnOnce, RequestIsSound, WellFormed
  <2> QED
    BY <1>1, <1>3, <2>1 DEF DrawnAreKept, TypeOK
<1>6. q.op = "login" => q.pw \in hist[s].passwords
  BY <1>1 DEF RequestIsSound, HistoryFits
<1> QED
  BY <1>1, <1>2, <1>4, <1>5, <1>6, AnsweredHolds

----------------------------------------------------------------------------
(* logout and session. *)

LEMMA DeleteSessionHolds == ASSUME RequestInv, NEW s \in Slots, DeleteSession(s) PROVE RequestInv'
<1> DEFINE q == req[s]
<1> DEFINE D == IF session[q.session] = Ended THEN {} ELSE {q.session}
<1>1. /\ RequestIsSound(s) /\ q.pc = "find_session" /\ q.op = "logout" /\ OnlyControl /\ TypeOK
      /\ q.session \in SessionIds /\ session[q.session] # Unborn
  BY DEF DeleteSession, RequestInv, RequestIsSound, WellFormed, TablesFit
<1>2. D \in SUBSET SessionIds /\ \A i \in D : session[i] # Unborn
  BY <1>1
<1>3. req' = [req EXCEPT ![s].pc = "end_session", ![s].doomed = D]
  BY DEF DeleteSession
<1> HIDE DEF D
<1> DEFINE r == [q EXCEPT !.pc = "end_session", !.doomed = D]
<1>4. /\ r.pc = "end_session" /\ r.op = q.op /\ r.user = q.user /\ r.pw = q.pw
      /\ r.token = q.token /\ r.doomed = D /\ r.status = q.status
  BY <1>1 DEF TypeOK, Request
<1>5. r \in Request
  <2>1. q \in Request /\ "end_session" \in Awaits \cup {"idle", "done"}
    BY <1>1 DEF TypeOK, Awaits
  <2> QED
    BY <1>2, <2>1 DEF Request
<1>6. req' = [req EXCEPT ![s] = r]
  BY <1>1, <1>3 DEF TypeOK
<1> HIDE DEF r
<1>7. Moves(s) /\ req'[s] = r
  BY <1>1, <1>5, <1>6, RequestMoves
<1>8. RequestIsSound(s)'
  BY <1>1, <1>2, <1>4, <1>7 DEF RequestIsSound, WellFormed, TablesFit, HistoryFits, SessionsFit,
     OnlyControl, Making, Drawing, Resetting, Deleting, Finished, InFlight, Awaits, UsedTokens
<1> QED
  BY <1>1, <1>4, <1>7, <1>8, ControlStep DEF DrawsNothing, Making, Drawing

\* Rows that a request has DELETEd end; no other request has drawn their ids.
LEMMA EndDoomedGrows ==
    ASSUME RequestInv, NEW s \in Slots, EndDoomed(s), \A i \in req[s].doomed : session[i] # Unborn
    PROVE  /\ session' \in [SessionIds -> Users \cup {Unborn, Ended}]
           /\ \A i \in SessionIds : session'[i] \in {session[i], Ended}
           /\ \A i \in SessionIds : session[i] = Unborn => session'[i] = Unborn
           /\ \A t \in Slots : Making(req[t]) => session'[req[t].session] = session[req[t].session]
<1>1. session' \in [SessionIds -> Users \cup {Unborn, Ended}]
  BY DEF EndDoomed, RequestInv, TypeOK
<1>2. \A i \in SessionIds : session'[i] \in {session[i], Ended}
  BY DEF EndDoomed
<1>3. \A i \in SessionIds : session[i] = Unborn => session'[i] = Unborn
  BY DEF EndDoomed
<1>4. \A t \in Slots : Making(req[t]) =>
          session[req[t].session] = Unborn /\ req[t].session \in SessionIds
  BY DEF RequestInv, RequestIsSound, TablesFit, WellFormed
<1> QED
  BY <1>1, <1>2, <1>3, <1>4

LEMMA CommitLogoutHolds == ASSUME RequestInv, NEW s \in Slots, CommitLogout(s) PROVE RequestInv'
<1> DEFINE q == req[s]
<1>1. /\ RequestIsSound(s) /\ q.pc = "end_session" /\ q.op = "logout" /\ TypeOK
      /\ \A i \in q.doomed : session[i] # Unborn
  BY DEF CommitLogout, RequestInv, RequestIsSound, WellFormed, TablesFit
<1>2. EndDoomed(s) /\ UNCHANGED <<password, token, hist>>
  BY DEF CommitLogout
<1> DEFINE r == [q EXCEPT !.pc = "done", !.status = 204, !.doomed = {}]
<1>3. Moves(s) /\ Keeps(s) /\ req'[s].pc = "done"
  <2>1. q \in Request /\ req \in [Slots -> Request]
    BY <1>1 DEF TypeOK
  <2>2. /\ r.pc = "done" /\ r.op = q.op /\ r.user = q.user /\ r.pw = q.pw /\ r.token = q.token
    BY <2>1 DEF Request
  <2>3. r \in Request
    <3>1. 204 \in Statuses /\ {} \in SUBSET SessionIds /\ "done" \in Awaits \cup {"idle", "done"}
      BY DEF Statuses
    <3> QED
      BY <2>1, <3>1, DoomedUpdates, ZenonT(40)
  <2>4. req' = [req EXCEPT ![s] = r]
    BY <2>1 DEF CommitLogout
  <2> HIDE DEF r
  <2> QED
    BY <1>1, <2>2, <2>3, <2>4, RequestMoves DEF Keeps
<1>4. TablesGrow /\ \A t \in Slots : HistoryGrows(t)
  BY <1>1, <1>2, EndDoomedGrows, SessionsGrow
<1>5. \A t \in Slots : DrawnAreKept(t)
  BY <1>1, <1>2, EndDoomedGrows DEF DrawnAreKept
<1> QED
  BY <1>1, <1>3, <1>4, <1>5, AnsweredHolds

LEMMA FindSessionHolds == ASSUME RequestInv, NEW s \in Slots, FindSession(s) PROVE RequestInv'
<1> DEFINE q == req[s]
<1>1. /\ RequestIsSound(s) /\ q.pc = "find_session" /\ q.op = "session" /\ TypeOK
      /\ q.session \in SessionIds /\ session[q.session] # Unborn /\ OnlyControl
  BY DEF FindSession, RequestInv, RequestIsSound, WellFormed, TablesFit
<1>2. Moves(s) /\ req'[s].op = q.op /\ req'[s].pc = "done"
  <2>1. CASE Answer(s, 401)
    <3>1. 401 \in Statuses
      BY DEF Statuses
    <3> QED
      BY <1>1, <2>1, <3>1, AnswerMoves DEF Keeps
  <2>2. CASE /\ session[q.session] # Ended
             /\ req' = [req EXCEPT ![s].pc = "done", ![s].status = 200, ![s].user = session[q.session]]
    <3>0. PICK u \in Users : u = session[q.session]
      BY <1>1, <2>2 DEF TypeOK
    <3> DEFINE r == [q EXCEPT !.pc = "done", !.status = 200, !.user = u]
    <3>1. q \in Request /\ req \in [Slots -> Request]
      BY <1>1 DEF TypeOK
    <3>2. r.pc = "done" /\ r.op = q.op
      BY <3>1 DEF Request
    <3>3. r \in Request
      <4>1. "done" \in Awaits \cup {"idle", "done"} /\ u \in Users \cup {Nil} /\ 200 \in Statuses
        BY DEF Statuses
      <4> QED
        BY <3>1, <4>1, UserUpdates, ZenonT(40)
    <3>4. req' = [req EXCEPT ![s] = r]
      <4>1. req' = [req EXCEPT ![s].pc = "done", ![s].status = 200, ![s].user = u]
        BY <2>2, <3>0
      <4> QED
        BY <3>1, <4>1
    <3> HIDE DEF r
    <3> QED
      BY <3>1, <3>2, <3>3, <3>4 DEF Moves
  <2> QED
    BY <2>1, <2>2 DEF FindSession
<1>3. RequestIsSound(s)'
  BY <1>1, <1>2 DEF RequestIsSound, WellFormed, TablesFit, HistoryFits, SessionsFit, OnlyControl,
     Making, Drawing, Resetting, Deleting, Finished, InFlight, Awaits, UsedTokens
<1> QED
  BY <1>1, <1>2, <1>3, ControlStep DEF DrawsNothing, Making, Drawing

----------------------------------------------------------------------------
(* password_reset_request and password_reset_validate. *)

\* An answer from an await that draws nothing and whose request is no login's
\* and no completion's.
LEMMA PlainAnswerHolds ==
    ASSUME RequestInv, NEW s \in Slots, NEW status \in Statuses, Answer(s, status), OnlyControl,
           req[s].op \in {"reset_request", "reset_validate"},
           req[s].op = "reset_validate" /\ req[s].token \in hist[s].used => status = 400
    PROVE  RequestInv'
<1>1. Moves(s) /\ Keeps(s) /\ req'[s].pc = "done" /\ req'[s].status = status
  BY AnswerMoves DEF RequestInv
<1> QED
  BY <1>1, ControlGrows, AnsweredHolds

LEMMA SelectForResetHolds == ASSUME RequestInv, NEW s \in Slots, SelectForReset(s) PROVE RequestInv'
<1>1. /\ req[s].op = "reset_request" /\ req[s].pc = "account" /\ OnlyControl /\ TypeOK
      /\ WellFormed(req[s]) /\ TablesFit(req[s])
  BY DEF SelectForReset, RequestInv, RequestIsSound
<1>2. CASE password[req[s].user] \in Passwords /\ Goto(s, "insert_token")
  <2>1. /\ Moves(s) /\ Keeps(s) /\ req'[s].pc = "insert_token"
        /\ req'[s].session = req[s].session /\ req'[s].status = req[s].status
    BY <1>1, <1>2, GotoMoves DEF Awaits
  <2>2. /\ Drawing(req[s]) /\ Drawing(req'[s]) /\ ~Making(req'[s]) /\ ~Resetting(req'[s])
        /\ ~Deleting(req'[s])
    BY <1>1, <2>1 DEF Making, Drawing, Resetting, Deleting, Keeps
  <2>3. InFlight(req[s]) /\ InFlight(req'[s])
    BY <1>1, <2>1 DEF InFlight, Awaits
  <2>4. WellFormed(req[s])'
    BY <1>1, <2>1, <2>2 DEF WellFormed, Keeps
  <2>5. TablesFit(req[s])'
    BY <1>1, <1>2, <2>1, <2>2 DEF TablesFit, OnlyControl, Keeps
  <2>6. DrawsNothing(s)
    BY <2>1, <2>2 DEF DrawsNothing, Keeps
  <2>7. TablesGrow /\ \A t \in Slots : HistoryGrows(t) /\ DrawnAreKept(t)
    BY <1>1, ControlGrows
  <2> QED
    BY <1>1, <2>1, <2>2, <2>3, <2>4, <2>5, <2>6, <2>7, AwaitsHold
<1>3. CASE Answer(s, 200)
  <2>1. 200 \in Statuses
    BY DEF Statuses
  <2> QED
    BY <1>1, <1>3, <2>1, PlainAnswerHolds
<1> QED
  BY <1>2, <1>3 DEF SelectForReset, HasPassword

LEMMA ValidateTokenHolds == ASSUME RequestInv, NEW s \in Slots, ValidateToken(s) PROVE RequestInv'
<1> DEFINE status == IF TokenIsValid(req[s].token) THEN 200 ELSE 400
<1>1. Answer(s, status) /\ OnlyControl /\ req[s].op = "reset_validate"
  BY DEF ValidateToken
<1>2. status \in Statuses
  BY DEF Statuses
<1>3. req[s].token \in hist[s].used => status = 400
  <2>1. hist[s].used \subseteq UsedTokens
    BY DEF RequestInv, RequestIsSound, HistoryFits
  <2>2. req[s].token \in hist[s].used => token[req[s].token].state = "used"
    BY <2>1 DEF UsedTokens
  <2> QED
    BY <2>2 DEF TokenIsValid
<1> HIDE DEF status
<1> QED
  BY <1>1, <1>2, <1>3, PlainAnswerHolds

\* Steps that move tokens only.
LEMMA TokensGrow ==
    ASSUME RequestInv, UNCHANGED <<password, session, hist>>,
           token' \in [TokenIds -> [user : Users \cup {Nil}, state : TokenStates]],
           \A t \in TokenIds : token[t].state # "unborn" =>
               /\ token'[t].user = token[t].user /\ token'[t].state # "unborn"
               /\ token[t].state = "used" => token'[t].state = "used",
           TokensHaveOwners'
    PROVE  TablesGrow /\ \A t \in Slots : HistoryGrows(t)
<1>1. TablesGrow
  BY DEF RequestInv, TypeOK, TablesGrow
<1>2. ASSUME NEW t \in Slots PROVE HistoryGrows(t)
  BY DEF RequestInv, HistoryGrows, RequestIsSound, HistoryFits
<1> QED
  BY <1>1, <1>2

LEMMA InsertTokenHolds == ASSUME RequestInv, NEW s \in Slots, InsertToken(s) PROVE RequestInv'
<1> DEFINE q == req[s]
<1> DEFINE row == [user |-> q.user, state |-> "issued"]
<1>1. /\ RequestIsSound(s) /\ q.pc = "insert_token" /\ TypeOK /\ q.op = "reset_request" /\ Drawing(q)
      /\ q.user \in Users /\ q.token \in TokenIds /\ token[q.token].state = "unborn"
      /\ password[q.user] \in Passwords
  BY DEF InsertToken, RequestInv, RequestIsSound, WellFormed, TablesFit, Drawing
<1>2. Moves(s) /\ Keeps(s) /\ req'[s].pc = "mail" /\ req'[s].status = q.status
  BY <1>1, GotoMoves DEF InsertToken, Awaits
<1>3. token' = [token EXCEPT ![q.token] = row] /\ UNCHANGED <<password, session, hist>>
  BY DEF InsertToken
<1>4. /\ token' \in [TokenIds -> [user : Users \cup {Nil}, state : TokenStates]]
      /\ token'[q.token] = row /\ \A t \in TokenIds \ {q.token} : token'[t] = token[t]
  <2>1. row \in [user : Users \cup {Nil}, state : TokenStates]
    BY <1>1 DEF TokenStates
  <2> QED
    BY <1>1, <1>3, <2>1 DEF TypeOK
<1> HIDE DEF row
<1>5. row.user = q.user /\ row.state = "issued"
  BY DEF row
<1>6. TokensHaveOwners'
  BY <1>1, <1>3, <1>4, <1>5 DEF RequestInv, TokensHaveOwners
<1>7. TablesGrow /\ \A t \in Slots : HistoryGrows(t)
  BY <1>1, <1>3, <1>4, <1>6, TokensGrow
<1>8. ASSUME NEW t \in Slots, t # s PROVE DrawnAreKept(t)
  <2>1. Drawing(req[t]) => req[t].token \in TokenIds \ {q.token}
    BY <1>1, <1>8 DEF RequestInv, DrawnOnce, RequestIsSound, WellFormed
  <2> QED
    BY <1>3, <1>4, <2>1 DEF DrawnAreKept
<1>9. ~Making(req'[s]) /\ ~Drawing(req'[s]) /\ ~Resetting(req'[s]) /\ ~Deleting(req'[s])
  BY <1>1, <1>2 DEF Making, Drawing, Resetting, Deleting, Keeps
<1>10. WellFormed(req[s])'
  BY <1>1, <1>2, <1>9 DEF WellFormed, Keeps
<1>11. TablesFit(req[s])'
  BY <1>2, <1>4, <1>5, <1>9 DEF TablesFit, Keeps
<1>12. DrawsNothing(s) /\ InFlight(q) /\ InFlight(req'[s])
  BY <1>1, <1>2, <1>9 DEF DrawsNothing, InFlight, Awaits
<1> QED
  BY <1>1, <1>2, <1>7, <1>8, <1>9, <1>10, <1>11, <1>12, AwaitsHold

\* A token changes its state from issued to another one; nobody else has drawn it.
LEMMA TokenGoesOn ==
    ASSUME RequestInv, NEW x \in TokenIds, token[x].state \in {"issued", "mailed"},
           NEW state \in TokenStates \ {"unborn"}, token' = [token EXCEPT ![x].state = state],
           UNCHANGED <<password, session, hist>>
    PROVE  /\ TablesGrow
           /\ \A t \in Slots : HistoryGrows(t) /\ DrawnAreKept(t)
<1>1. /\ token \in [TokenIds -> [user : Users \cup {Nil}, state : TokenStates]] /\ TokensHaveOwners
      /\ \A t \in Slots : Drawing(req[t]) => req[t].token \in TokenIds \ {x}
  BY DEF RequestInv, TypeOK, RequestIsSound, TablesFit, WellFormed
<1>2. /\ token' \in [TokenIds -> [user : Users \cup {Nil}, state : TokenStates]]
      /\ token'[x].user = token[x].user /\ token'[x].state = state
      /\ \A t \in TokenIds \ {x} : token'[t] = token[t]
  BY <1>1
<1>3. TokensHaveOwners'
  BY <1>1, <1>2 DEF TokensHaveOwners
<1>4. TablesGrow /\ \A t \in Slots : HistoryGrows(t)
  BY <1>2, <1>3, TokensGrow
<1>5. \A t \in Slots : DrawnAreKept(t)
  BY <1>1, <1>2 DEF DrawnAreKept
<1> QED
  BY <1>4, <1>5

LEMMA SendMailHolds == ASSUME RequestInv, NEW s \in Slots, SendMail(s) PROVE RequestInv'
<1> DEFINE q == req[s]
<1>1. /\ RequestIsSound(s) /\ q.pc = "mail" /\ TypeOK /\ q.op = "reset_request" /\ q.token \in TokenIds
      /\ Answer(s, 200) /\ UNCHANGED <<password, session, hist>>
  BY DEF SendMail, RequestInv, RequestIsSound, WellFormed
<1>2. 200 \in Statuses
  BY DEF Statuses
<1>3. CASE UNCHANGED token
  BY <1>1, <1>2, <1>3, PlainAnswerHolds DEF OnlyControl
<1>4. CASE token[q.token].state = "issued" /\ token' = [token EXCEPT ![q.token].state = "mailed"]
  <2>1. TablesGrow /\ \A t \in Slots : HistoryGrows(t) /\ DrawnAreKept(t)
    <3>1. "mailed" \in TokenStates \ {"unborn"} /\ token[q.token].state \in {"issued", "mailed"}
      BY <1>4 DEF TokenStates
    <3> QED
      BY <1>1, <1>4, <3>1, TokenGoesOn
  <2>2. Moves(s) /\ Keeps(s) /\ req'[s].pc = "done"
    BY <1>1, <1>2, AnswerMoves
  <2> QED
    BY <1>1, <2>1, <2>2, AnsweredHolds
<1> QED
  BY <1>3, <1>4 DEF SendMail

----------------------------------------------------------------------------
(* password_reset_complete. *)

LEMMA SelectTokenHolds == ASSUME RequestInv, NEW s \in Slots, SelectToken(s) PROVE RequestInv'
<1> DEFINE q == req[s]
<1>1. /\ q.pc = "token" /\ q.op = "reset_complete" /\ OnlyControl /\ TypeOK
      /\ WellFormed(q) /\ TablesFit(q) /\ HistoryFits(q, hist[s])
  BY DEF SelectToken, RequestInv, RequestIsSound
<1>2. TablesGrow /\ \A t \in Slots : HistoryGrows(t) /\ DrawnAreKept(t)
  BY <1>1, ControlGrows
<1>3. CASE TokenIsValid(q.token) /\ Goto(s, "flush")
  <2>1. Moves(s) /\ Keeps(s) /\ req'[s].pc = "flush" /\ req'[s].status = q.status
    BY <1>1, <1>3, GotoMoves DEF Awaits
  <2>2. q.token \notin hist[s].used
    BY <1>1, <1>3 DEF TokenIsValid, HistoryFits, UsedTokens
  <2>3. ~Making(req'[s]) /\ ~Drawing(req'[s]) /\ ~Deleting(req'[s])
    BY <2>1 DEF Making, Drawing, Deleting
  <2>4. InFlight(q) /\ InFlight(req'[s]) /\ DrawsNothing(s)
    BY <1>1, <2>1, <2>3 DEF InFlight, Awaits, DrawsNothing
  <2>5. WellFormed(req[s])'
    BY <1>1, <2>1, <2>3 DEF WellFormed, Keeps
  <2>6. TablesFit(req[s])'
    BY <1>1, <2>1, <2>3 DEF TablesFit, OnlyControl, Keeps
  <2> QED
    BY <1>1, <1>2, <2>1, <2>2, <2>3, <2>4, <2>5, <2>6, AwaitsHold
<1>4. CASE Answer(s, 400)
  <2>1. 400 \in Statuses
    BY DEF Statuses
  <2>2. Moves(s) /\ Keeps(s) /\ req'[s].pc = "done" /\ req'[s].status = 400
    BY <1>1, <1>4, <2>1, AnswerMoves
  <2> QED
    BY <1>1, <1>2, <2>2, AnsweredHolds
<1> QED
  BY <1>3, <1>4 DEF SelectToken

\* A completion goes on to its next UPDATE, or to the DELETE.
LEMMA FlushHolds ==
    ASSUME RequestInv, NEW s \in Slots, NEW pc \in {"flush_user", "delete"},
           req[s].pc \in {"flush", "flush_user"}, Goto(s, pc), OnlyControl
    PROVE  RequestInv'
<1>1. TypeOK /\ WellFormed(req[s]) /\ TablesFit(req[s]) /\ HistoryFits(req[s], hist[s])
  BY DEF RequestInv, RequestIsSound
<1>2. Moves(s) /\ Keeps(s) /\ req'[s].pc = pc /\ req'[s].status = req[s].status
  BY <1>1, GotoMoves DEF Awaits
<1>3. /\ Resetting(req[s]) /\ Resetting(req'[s])
      /\ ~Making(req'[s]) /\ ~Drawing(req'[s]) /\ ~Deleting(req'[s])
  BY <1>2 DEF Resetting, Making, Drawing, Deleting
<1>4. InFlight(req[s]) /\ InFlight(req'[s]) /\ DrawsNothing(s)
  BY <1>2, <1>3 DEF InFlight, Awaits, DrawsNothing
<1>5. req[s].op = "reset_complete" /\ req[s].token \notin hist[s].used
  BY <1>1, <1>3 DEF WellFormed, HistoryFits
<1>6. WellFormed(req[s])'
  BY <1>1, <1>2, <1>3, <1>5 DEF WellFormed, Keeps
<1>7. TablesFit(req[s])'
  BY <1>1, <1>2, <1>3 DEF TablesFit, OnlyControl, Keeps
<1>8. TablesGrow /\ \A t \in Slots : HistoryGrows(t) /\ DrawnAreKept(t)
  BY ControlGrows
<1> QED
  BY <1>2, <1>3, <1>4, <1>5, <1>6, <1>7, <1>8, AwaitsHold

LEMMA FlushTokenHolds == ASSUME RequestInv, NEW s \in Slots, FlushToken(s) PROVE RequestInv'
BY FlushHolds DEF FlushToken

LEMMA FlushUserHolds == ASSUME RequestInv, NEW s \in Slots, FlushUser(s) PROVE RequestInv'
BY FlushHolds DEF FlushUser

\* What changes of a completion while its DELETE runs are the rows it has found and
\* those it has deleted: together, they are still those of its account.
LEMMA DeleteHolds ==
    ASSUME RequestInv, NEW s \in Slots, OnlyControl, Moves(s), Keeps(s),
           Resetting(req[s]), Deleting(req'[s]), req'[s].status = req[s].status,
           \A i \in req'[s].found \cup req'[s].doomed : session[i] \in {req[s].user, Ended},
           hist[s].sessions \cap SessionsOf(req[s].user) \subseteq req'[s].found \cup req'[s].doomed
    PROVE  RequestInv'
<1> DEFINE q == req[s]
<1>1. RequestIsSound(s) /\ TypeOK
  BY DEF RequestInv
<1>2. /\ req'[s].op = q.op /\ req'[s].user = q.user /\ req'[s].pw = q.pw /\ req'[s].token = q.token
  BY DEF Keeps
<1>3. q.op = "reset_complete" /\ InFlight(q) /\ req'[s].pc \in {"rows", "commit"}
  BY <1>1 DEF RequestIsSound, WellFormed, Resetting, Deleting, InFlight, Awaits
<1>4. ~Making(req'[s]) /\ ~Drawing(req'[s]) /\ Resetting(req'[s])
  BY <1>3 DEF Making, Drawing, Resetting
<1>5. WellFormed(req[s])'
  BY <1>1, <1>2, <1>3, <1>4 DEF RequestIsSound, WellFormed
<1>6. TablesFit(req[s])'
  BY <1>1, <1>2, <1>3, <1>4 DEF RequestIsSound, TablesFit, OnlyControl
<1>7. HistoryFits(req[s], hist[s])'
  BY <1>1, <1>2, <1>3, <1>4 DEF RequestIsSound, HistoryFits, OnlyControl, Finished, UsedTokens
<1>8. SessionsFit(req[s], hist[s])'
  BY <1>1, <1>2, <1>3 DEF RequestIsSound, SessionsFit, OnlyControl, SessionsOf
<1> QED
  BY <1>4, <1>5, <1>6, <1>7, <1>8, ControlStep DEF RequestIsSound, DrawsNothing

LEMMA DeleteSessionsHolds == ASSUME RequestInv, LockInv, NEW s \in Slots, DeleteSessions(s) PROVE RequestInv'
<1> DEFINE q == req[s]
<1>1. q.pc = "delete" /\ Resetting(q) /\ OnlyControl /\ TypeOK /\ q \in Request
  BY DEF DeleteSessions, RequestInv, TypeOK, Resetting
<1>2. PICK F \in SUBSET SessionIds : F = SessionsOf(q.user)
  BY DEF SessionsOf
<1> DEFINE r == [q EXCEPT !.pc = "rows", !.found = F]
<1>3. /\ r.pc = "rows" /\ r.op = q.op /\ r.user = q.user /\ r.pw = q.pw /\ r.token = q.token
      /\ r.found = F /\ r.doomed = q.doomed /\ r.status = q.status
  BY <1>1 DEF Request
<1>4. r \in Request
  <2>1. "rows" \in Awaits \cup {"idle", "done"}
    BY DEF Awaits
  <2> QED
    BY <1>1, <2>1 DEF Request
<1>5. req' = [req EXCEPT ![s] = r]
  BY <1>1, <1>2 DEF DeleteSessions, DoomedBy, TypeOK
<1> HIDE DEF r
<1>6. Moves(s) /\ req'[s] = r
  BY <1>1, <1>4, <1>5, RequestMoves
<1>7. q.doomed = {}
  BY <1>1 DEF LockInv
<1>8. \A i \in F : session[i] = q.user
  BY <1>2 DEF SessionsOf
<1> QED
  BY <1>1, <1>2, <1>3, <1>6, <1>7, <1>8, DeleteHolds DEF Keeps, Resetting, Deleting

LEMMA DeleteRowHolds == ASSUME RequestInv, NEW s \in Slots, DeleteRow(s) PROVE RequestInv'
<1> DEFINE q == req[s]
<1>1. /\ q.pc = "rows" /\ OnlyControl /\ TypeOK /\ q \in Request /\ RequestIsSound(s)
      /\ q.found \subseteq SessionIds /\ q.doomed \subseteq SessionIds
  BY DEF DeleteRow, RequestInv, TypeOK, Request
<1>2. PICK i \in q.found :
        req' = [req EXCEPT ![s].found = @ \ {i},
                           ![s].doomed = IF session[i] = Ended THEN @ ELSE @ \cup {i}]
  BY DEF DeleteRow
<1>3. PICK F, D : /\ F = q.found \ {i}
                  /\ D = IF session[i] = Ended THEN q.doomed ELSE q.doomed \cup {i}
  OBVIOUS
<1> DEFINE r == [q EXCEPT !.found = F, !.doomed = D]
<1>4. /\ r.pc = "rows" /\ r.op = q.op /\ r.user = q.user /\ r.pw = q.pw /\ r.token = q.token
      /\ r.found = F /\ r.doomed = D /\ r.status = q.status
  BY <1>1 DEF Request
<1>5. F \in SUBSET SessionIds /\ D \in SUBSET SessionIds /\ F \cup D \subseteq q.found \cup q.doomed
  BY <1>1, <1>3
<1>6. r \in Request
  BY <1>1, <1>5 DEF Request
<1>7. req' = [req EXCEPT ![s] = r]
  BY <1>1, <1>2, <1>3 DEF TypeOK
<1> HIDE DEF r
<1>8. Moves(s) /\ req'[s] = r
  BY <1>1, <1>6, <1>7, RequestMoves
<1>9. \A x \in q.found \cup q.doomed : session[x] \in {q.user, Ended}
  BY <1>1 DEF RequestIsSound, TablesFit, Deleting
<1>10. hist[s].sessions \cap SessionsOf(q.user) \subseteq F \cup D
  <2>1. /\ q.op = "reset_complete" /\ q.user \in Users
        /\ hist[s].sessions \cap SessionsOf(q.user) \subseteq q.found \cup q.doomed
    BY <1>1 DEF RequestIsSound, WellFormed, SessionsFit, Resetting, Deleting
  <2>2. session[i] = Ended => i \notin SessionsOf(q.user)
    BY <2>1, SentinelAssumption DEF SessionsOf
  <2> QED
    BY <1>3, <2>1, <2>2
<1> QED
  BY <1>1, <1>4, <1>5, <1>8, <1>9, <1>10, DeleteHolds DEF Keeps, Resetting, Deleting

LEMMA EndDeleteHolds == ASSUME RequestInv, NEW s \in Slots, EndDelete(s) PROVE RequestInv'
<1> DEFINE q == req[s]
<1>1. q.pc = "rows" /\ OnlyControl /\ TypeOK /\ RequestIsSound(s) /\ Goto(s, "commit")
  BY DEF EndDelete, RequestInv
<1>2. /\ Moves(s) /\ Keeps(s) /\ req'[s].pc = "commit" /\ req'[s].status = q.status
      /\ req'[s].found = q.found /\ req'[s].doomed = q.doomed
  BY <1>1, GotoMoves DEF Awaits
<1>3. /\ \A i \in q.found \cup q.doomed : session[i] \in {q.user, Ended}
      /\ hist[s].sessions \cap SessionsOf(q.user) \subseteq q.found \cup q.doomed
  BY <1>1 DEF RequestIsSound, WellFormed, TablesFit, SessionsFit, Resetting, Deleting
<1> QED
  BY <1>1, <1>2, <1>3, DeleteHolds DEF Resetting, Deleting

LEMMA CommitResetHolds == ASSUME RequestInv, LockInv, NEW s \in Slots, CommitReset(s) PROVE RequestInv'
<1> DEFINE q == req[s]
<1>1. /\ RequestIsSound(s) /\ q.pc = "commit" /\ TypeOK /\ q.op = "reset_complete"
      /\ q.user \in Users /\ q.pw \in Passwords /\ q.token \in TokenIds
      /\ token[q.token].state # "unborn" /\ token[q.token].user = q.user
      /\ \A i \in q.doomed : session[i] # Unborn
      /\ q.found = {} /\ EndDoomed(s)
  BY SentinelAssumption
  DEF CommitReset, RequestInv, LockInv, RequestIsSound, WellFormed, TablesFit, Resetting, Deleting
<1>2. /\ password' = [password EXCEPT ![q.user] = q.pw]
      /\ token' = [token EXCEPT ![q.token].state = "used"]
      /\ session' = [i \in SessionIds |-> IF i \in q.doomed THEN Ended ELSE session[i]]
      /\ req' = [req EXCEPT ![s].pc = "done", ![s].status = 200, ![s].doomed = {}]
      /\ Witness(q.user, q.pw)
  BY DEF CommitReset, EndDoomed, StoredHash
<1>3. Moves(s) /\ Keeps(s) /\ req'[s].pc = "done" /\ req'[s].status = 200
  <2> DEFINE r == [q EXCEPT !.pc = "done", !.status = 200, !.doomed = {}]
  <2>1. q \in Request /\ req \in [Slots -> Request]
    BY <1>1 DEF TypeOK
  <2>2. /\ r.pc = "done" /\ r.op = q.op /\ r.user = q.user /\ r.pw = q.pw
        /\ r.token = q.token /\ r.status = 200
    BY <2>1 DEF Request
  <2>3. r \in Request
    <3>1. 200 \in Statuses /\ {} \in SUBSET SessionIds
      BY DEF Statuses
    <3>2. "done" \in Awaits \cup {"idle", "done"}
      OBVIOUS
    <3> QED
      BY <2>1, <3>1, <3>2, DoomedUpdates, ZenonT(40)
  <2>4. req' = [req EXCEPT ![s] = r]
    BY <1>2, <2>1
  <2> HIDE DEF r
  <2> QED
    BY <2>1, <2>2, <2>3, <2>4 DEF Moves, Keeps
<1>4. hist' \in [Slots -> History] /\ \A t \in Slots : HistoryGrows(t)
  BY <1>1, <1>2, WitnessGrows
<1>5. /\ token' \in [TokenIds -> [user : Users \cup {Nil}, state : TokenStates]]
      /\ token'[q.token].user = q.user /\ token'[q.token].state = "used"
      /\ \A t \in TokenIds \ {q.token} : token'[t] = token[t]
  BY <1>1, <1>2 DEF TypeOK, TokenStates
<1>6. /\ password' \in [Users -> Passwords \cup {NoAccount, NoPassword}]
      /\ password'[q.user] \in Passwords
      /\ \A u \in Users : password[u] \in Passwords => password'[u] \in Passwords
  BY <1>1, <1>2 DEF TypeOK
<1>7. TokensHaveOwners'
  BY <1>1, <1>5, <1>6 DEF RequestInv, TokensHaveOwners
<1>8. TablesGrow
  <2>1. \A t \in TokenIds : token[t].state # "unborn" =>
          /\ token'[t].user = token[t].user /\ token'[t].state # "unborn"
          /\ token[t].state = "used" => token'[t].state = "used"
    BY <1>1, <1>5
  <2>2. /\ session' \in [SessionIds -> Users \cup {Unborn, Ended}]
        /\ \A i \in SessionIds : session[i] = Unborn \/ session'[i] \in {session[i], Ended}
    BY <1>1, EndDoomedGrows
  <2> QED
    BY <1>4, <1>5, <1>6, <1>7, <2>1, <2>2 DEF TablesGrow
<1>9. ASSUME NEW t \in Slots PROVE DrawnAreKept(t)
  <2>1. Drawing(req[t]) => token[req[t].token].state = "unborn" /\ req[t].token \in TokenIds
    BY DEF RequestInv, RequestIsSound, TablesFit, WellFormed
  <2> QED
    BY <1>1, <1>5, <2>1, EndDoomedGrows DEF DrawnAreKept
<1>10. q.token \notin hist[s].used
  BY <1>1 DEF RequestIsSound, HistoryFits, Resetting, Deleting
<1>11. \A i \in hist[s].sessions : session'[i] # q.user
  <2>1. \A i \in hist[s].sessions : i \in SessionIds /\ session[i] # Unborn
    BY <1>1, HistoryFields DEF RequestIsSound, SessionsFit
  <2>2. hist[s].sessions \cap SessionsOf(q.user) \subseteq q.doomed
    BY <1>1 DEF RequestIsSound, SessionsFit, Deleting
  <2> QED
    BY <1>1, <1>2, <2>1, <2>2, SentinelAssumption DEF SessionsOf
<1> QED
  BY <1>1, <1>3, <1>4, <1>8, <1>9, <1>10, <1>11, AnsweredHolds

----------------------------------------------------------------------------
(* Time and failure. *)

LEMMA NobodyMoves ==
    ASSUME RequestInv, UNCHANGED req, TablesGrow, \A t \in Slots : HistoryGrows(t) /\ DrawnAreKept(t)
    PROVE  RequestInv'
<1>1. TypeOK' /\ TokensHaveOwners'
  BY DEF RequestInv, TypeOK, TablesGrow
<1>2. DrawnOnce'
  BY DEF RequestInv, DrawnOnce
<1>3. ASSUME NEW t \in Slots PROVE RequestIsSound(t)'
  BY <1>3, OthersStaySound
<1> QED
  BY <1>1, <1>2, <1>3 DEF RequestInv

LEMMA ExpireTokenHolds == ASSUME RequestInv, ExpireToken PROVE RequestInv'
<1>1. PICK x \in TokenIds :
        /\ token[x].state \in {"issued", "mailed"}
        /\ token' = [token EXCEPT ![x].state = "expired"]
  BY DEF ExpireToken
<1>2. UNCHANGED <<password, session, hist>> /\ UNCHANGED req
  BY DEF ExpireToken
<1>3. "expired" \in TokenStates \ {"unborn"}
  BY DEF TokenStates
<1>4. TablesGrow /\ \A t \in Slots : HistoryGrows(t) /\ DrawnAreKept(t)
  BY <1>1, <1>2, <1>3, TokenGoesOn
<1> QED
  BY <1>2, <1>4, NobodyMoves

\* An idle slot claims nothing, whatever the tables hold.
LEMMA IdleIsSound ==
    ASSUME NEW s \in Slots, req'[s] = Idle, hist'[s] = NoHistory
    PROVE  RequestIsSound(s)' /\ ~Making(req'[s]) /\ ~Drawing(req'[s])
<1>1. req'[s].pc = "idle" /\ req'[s].op = "session" /\ req'[s].status = 0
  BY DEF Idle
<1>2. hist'[s].used = {}
  BY DEF NoHistory
<1> QED
  BY <1>1, <1>2 DEF RequestIsSound, WellFormed, TablesFit, HistoryFits, SessionsFit, Making, Drawing,
     Resetting, Deleting, Finished, InFlight, Awaits

LEMMA IdleType == Idle \in Request /\ NoHistory \in History
BY DEF Idle, Request, NoHistory, History, AllOps, Statuses

\* Steps that leave the tables alone.
LEMMA TablesStay ==
    ASSUME RequestInv, UNCHANGED <<password, session, token>>, hist' \in [Slots -> History]
    PROVE  /\ TablesGrow
           /\ \A t \in Slots : hist'[t] = hist[t] => HistoryGrows(t)
           /\ \A t \in Slots : DrawnAreKept(t)
<1>1. TablesGrow
  BY DEF RequestInv, TypeOK, TablesGrow, TokensHaveOwners
<1>2. ASSUME NEW t \in Slots, hist'[t] = hist[t] PROVE HistoryGrows(t)
  BY <1>2 DEF RequestInv, HistoryGrows, RequestIsSound, HistoryFits
<1> QED
  BY <1>1, <1>2 DEF DrawnAreKept

LEMMA CrashHolds == ASSUME RequestInv, Crash PROVE RequestInv'
<1>1. /\ req' = [s \in Slots |-> IF InFlight(req[s]) THEN Idle ELSE req[s]]
      /\ hist' = [s \in Slots |-> IF InFlight(req[s]) THEN NoHistory ELSE hist[s]]
      /\ UNCHANGED <<password, session, token>> /\ TypeOK
  BY DEF Crash, RequestInv
<1>2. req' \in [Slots -> Request] /\ hist' \in [Slots -> History]
  BY <1>1, IdleType DEF TypeOK
<1>3. /\ TablesGrow
      /\ \A t \in Slots : hist'[t] = hist[t] => HistoryGrows(t)
      /\ \A t \in Slots : DrawnAreKept(t)
  BY <1>1, <1>2, TablesStay
<1>4. ASSUME NEW t \in Slots
      PROVE  RequestIsSound(t)' /\ (req'[t] = req[t] \/ (~Making(req'[t]) /\ ~Drawing(req'[t])))
  <2>1. CASE InFlight(req[t])
    BY <1>1, <2>1, IdleIsSound
  <2>2. CASE ~InFlight(req[t])
    BY <1>1, <1>3, <2>2, OthersStaySound
  <2> QED
    BY <2>1, <2>2
<1>5. DrawnOnce'
  BY <1>4 DEF RequestInv, DrawnOnce
<1> QED
  BY <1>2, <1>3, <1>4, <1>5 DEF RequestInv, TypeOK, TablesGrow

----------------------------------------------------------------------------
(* Requests that come and go. *)

LEMMA ReceiveHolds == ASSUME RequestInv, NEW s \in Slots, Receive(s) PROVE RequestInv'
<1>1. /\ req' = [req EXCEPT ![s] = Idle] /\ hist' = [hist EXCEPT ![s] = NoHistory]
      /\ UNCHANGED <<password, session, token>> /\ TypeOK
  BY DEF Receive, RequestInv
<1>2. hist' \in [Slots -> History] /\ Moves(s) /\ req'[s] = Idle /\ hist'[s] = NoHistory
  BY <1>1, IdleType DEF TypeOK, Moves
<1>3. TablesGrow /\ \A t \in Slots : t # s => HistoryGrows(t) /\ DrawnAreKept(t)
  BY <1>1, <1>2, TablesStay DEF TypeOK
<1>4. RequestIsSound(s)' /\ DrawsNothing(s)
  BY <1>2, IdleIsSound DEF DrawsNothing
<1> QED
  BY <1>2, <1>3, <1>4, OneRequestMoves

\* What a request of kind op is when it begins.
Begun(s, pc, op, u, pw, i, t) ==
    /\ Moves(s) /\ hist' \in [Slots -> History] /\ hist'[s] = HistoryOf(u)
    /\ \A x \in Slots : x # s => hist'[x] = hist[x]
    /\ req'[s].pc = pc /\ req'[s].op = op /\ req'[s].user = u /\ req'[s].pw = pw
    /\ req'[s].session = i /\ req'[s].token = t /\ req'[s].status # 200

LEMMA StartMoves ==
    ASSUME TypeOK, NEW s \in Slots, NEW pc \in Awaits, NEW op \in AllOps,
           NEW u \in Users \cup {Nil}, NEW pw \in Passwords \cup {Nil},
           NEW i \in SessionIds \cup {Nil}, NEW t \in TokenIds \cup {Nil},
           Start(s, pc, op, u, pw, i, t)
    PROVE  Begun(s, pc, op, u, pw, i, t)
<1> DEFINE r == [Idle EXCEPT !.pc = pc, !.op = op, !.user = u,
                             !.pw = pw, !.session = i, !.token = t]
<1>1. /\ r.pc = pc /\ r.op = op /\ r.user = u /\ r.pw = pw
      /\ r.session = i /\ r.token = t /\ r.status # 200
  BY DEF Idle
<1>2. r \in Request
  <2>1. pc \in Awaits \cup {"idle", "done"}
    OBVIOUS
  <2> QED
    BY <2>1, IdleType DEF Request
<1>3. HistoryOf(u) \in History
  <2>1. {password[x] : x \in {u} \cap Users} \subseteq Passwords \cup {NoAccount, NoPassword}
    BY DEF TypeOK
  <2> QED
    BY <2>1 DEF HistoryOf, History, SessionsOf, UsedTokens
<1>4. req' = [req EXCEPT ![s] = r] /\ hist' = [hist EXCEPT ![s] = HistoryOf(u)]
  BY DEF Start
<1> HIDE DEF r
<1> QED
  BY <1>1, <1>2, <1>3, <1>4 DEF TypeOK, Moves, Begun

LEMMA HistoryOfFields ==
    ASSUME NEW u
    PROVE  /\ HistoryOf(u).used = UsedTokens /\ HistoryOf(u).sessions = SessionsOf(u)
           /\ u \in Users => password[u] \in HistoryOf(u).passwords
BY DEF HistoryOf

\* No two requests have drawn the same.
Apart(q, r) ==
    /\ Making(q) /\ Making(r) => q.session # r.session
    /\ Drawing(q) /\ Drawing(r) => q.token # r.token

\* A new request has drawn what nobody else has, and its history is up to date.
LEMMA StartHolds ==
    ASSUME RequestInv, NEW s \in Slots, NEW u, Moves(s), UNCHANGED <<password, session, token>>,
           hist' \in [Slots -> History], hist'[s] = HistoryOf(u), req'[s].user = u,
           \A x \in Slots : x # s => hist'[x] = hist[x],
           WellFormed(req'[s]), TablesFit(req'[s]),
           req'[s].pc \in {"account", "find_session", "token"}, req'[s].status # 200,
           Making(req'[s]) => FreshSession(req'[s].session),
           Drawing(req'[s]) => FreshToken(req'[s].token)
    PROVE  RequestInv'
<1>1. TablesGrow /\ \A t \in Slots : t # s => HistoryGrows(t) /\ DrawnAreKept(t)
  BY TablesStay
<1>2. HistoryFits(req[s], hist[s])'
  <2>1. hist'[s].used = UsedTokens /\ (u \in Users => password[u] \in hist'[s].passwords)
    <3>1. /\ HistoryOf(u).used = UsedTokens
          /\ u \in Users => password[u] \in HistoryOf(u).passwords
      BY HistoryOfFields
    <3> HIDE DEF HistoryOf
    <3> QED
      BY <3>1
  <2>2. UsedTokens' = UsedTokens
    BY DEF UsedTokens
  <2>3. ~Resetting(req'[s]) /\ req'[s].pc \notin {"insert_session", "done"}
    BY DEF Resetting, Deleting
  <2> QED
    BY <2>1, <2>2, <2>3 DEF HistoryFits, Finished
<1>3. SessionsFit(req[s], hist[s])'
  <2>1. hist'[s].sessions = SessionsOf(u)
    <3>1. HistoryOf(u).sessions = SessionsOf(u)
      BY HistoryOfFields
    <3> QED
      BY <3>1
  <2>2. req'[s].op = "reset_complete" => \A i \in SessionsOf(u) : session[i] # Unborn
    BY SentinelAssumption DEF WellFormed, SessionsOf
  <2>3. req'[s].pc # "done" /\ ~Deleting(req'[s])
    BY DEF Deleting
  <2> QED
    BY <2>1, <2>2, <2>3 DEF SessionsFit
<1>4. RequestIsSound(s)'
  BY <1>2, <1>3 DEF RequestIsSound, WellFormed, TablesFit, Making, Drawing, Resetting, Deleting
<1>5. DrawnOnce'
  <2>1. ASSUME NEW t \in Slots, t # s PROVE Apart(req'[s], req[t]) /\ Apart(req[t], req'[s])
    <3>1. Making(req[t]) \/ Drawing(req[t]) => InFlight(req[t])
      BY DEF Making, Drawing, InFlight, Awaits
    <3>2. Making(req'[s]) /\ Making(req[t]) => req'[s].session # req[t].session
      BY <3>1 DEF FreshSession
    <3>3. Drawing(req'[s]) /\ Drawing(req[t]) => req'[s].token # req[t].token
      BY <3>1 DEF FreshToken
    <3> QED
      BY <3>2, <3>3 DEF Apart
  <2>2. \A a, b \in Slots : a # b => Apart(req[a], req[b])
    BY DEF RequestInv, DrawnOnce, Apart
  <2>3. \A x \in Slots : x # s => req'[x] = req[x]
    BY DEF Moves
  <2>4. ASSUME NEW a \in Slots, NEW b \in Slots, a # b PROVE Apart(req'[a], req'[b])
    <3>1. CASE a = s
      BY <2>1, <2>3, <2>4, <3>1
    <3>2. CASE b = s
      BY <2>1, <2>3, <2>4, <3>2
    <3>3. CASE a # s /\ b # s
      <4>1. req'[a] = req[a] /\ req'[b] = req[b]
        BY <2>3, <3>3
      <4> QED
        BY <2>2, <2>4, <4>1
    <3> QED
      BY <3>1, <3>2, <3>3
  <2> QED
    BY <2>4 DEF DrawnOnce, Apart
<1>6. ASSUME NEW t \in Slots, t # s PROVE RequestIsSound(t)'
  BY <1>1, <1>6, OthersStaySound DEF Moves
<1> QED
  BY <1>1, <1>4, <1>5, <1>6 DEF RequestInv, TypeOK, TablesGrow, Moves

LEMMA BeginHolds == ASSUME RequestInv, NEW s \in Slots, Begin(s) PROVE RequestInv'
<1>1. PICK op \in Ops :
       \/ /\ op \in {"register", "login"}
          /\ \E u \in Users, pw \in Passwords, i \in {j \in SessionIds : FreshSession(j)} :
                Start(s, "account", op, u, pw, i, Nil)
       \/ /\ op \in {"logout", "session"}
          /\ \E i \in {j \in SessionIds : session[j] # Unborn} :
                Start(s, "find_session", op, Nil, Nil, i, Nil)
       \/ /\ op = "reset_request"
          /\ \E u \in Users, t \in {x \in TokenIds : FreshToken(x)} :
                Start(s, "account", op, u, Nil, Nil, t)
       \/ /\ op \in {"reset_validate", "reset_complete"}
          /\ \E t \in {x \in TokenIds : token[x].state \in {"mailed", "expired", "used"}} :
             \E pw \in IF op = "reset_complete" THEN Passwords ELSE {Nil} :
                Start(s, "token", op, token[t].user, pw, Nil, t)
  BY DEF Begin
<1>2. op \in AllOps /\ TypeOK /\ {"account", "find_session", "token"} \subseteq Awaits
  BY OpsAssumption DEF RequestInv, Awaits
<1>3. UNCHANGED <<password, session, token>>
  BY DEF Begin
<1>4. CASE /\ op \in {"register", "login"}
           /\ \E u \in Users, pw \in Passwords, i \in {j \in SessionIds : FreshSession(j)} :
                 Start(s, "account", op, u, pw, i, Nil)
  <2>1. PICK u \in Users, pw \in Passwords, i \in {j \in SessionIds : FreshSession(j)} :
          Start(s, "account", op, u, pw, i, Nil)
    BY <1>4
  <2>2. Begun(s, "account", op, u, pw, i, Nil)
    BY <1>2, <2>1, StartMoves
  <2>3. WellFormed(req'[s]) /\ TablesFit(req'[s]) /\ ~Drawing(req'[s])
    BY <1>4, <2>2 DEF Begun, WellFormed, TablesFit, FreshSession, Making, Drawing, Resetting,
       Deleting
  <2> QED
    BY <1>3, <2>1, <2>2, <2>3, StartHolds DEF Begun
<1>5. CASE /\ op \in {"logout", "session"}
           /\ \E i \in {j \in SessionIds : session[j] # Unborn} :
                 Start(s, "find_session", op, Nil, Nil, i, Nil)
  <2>1. PICK i \in {j \in SessionIds : session[j] # Unborn} :
          Start(s, "find_session", op, Nil, Nil, i, Nil)
    BY <1>5
  <2>2. Begun(s, "find_session", op, Nil, Nil, i, Nil)
    BY <1>2, <2>1, StartMoves
  <2>3. WellFormed(req'[s]) /\ TablesFit(req'[s]) /\ ~Drawing(req'[s]) /\ ~Making(req'[s])
    BY <1>5, <2>2 DEF Begun, WellFormed, TablesFit, Making, Drawing, Resetting, Deleting
  <2> QED
    BY <1>3, <2>1, <2>2, <2>3, StartHolds DEF Begun
<1>6. CASE /\ op = "reset_request"
           /\ \E u \in Users, t \in {x \in TokenIds : FreshToken(x)} :
                 Start(s, "account", op, u, Nil, Nil, t)
  <2>1. PICK u \in Users, t \in {x \in TokenIds : FreshToken(x)} :
          Start(s, "account", op, u, Nil, Nil, t)
    BY <1>6
  <2>2. Begun(s, "account", op, u, Nil, Nil, t)
    BY <1>2, <2>1, StartMoves
  <2>3. WellFormed(req'[s]) /\ TablesFit(req'[s]) /\ ~Making(req'[s])
    BY <1>6, <2>2 DEF Begun, WellFormed, TablesFit, FreshToken, Making, Drawing, Resetting,
       Deleting
  <2> QED
    BY <1>3, <2>1, <2>2, <2>3, StartHolds DEF Begun
<1>7. CASE /\ op \in {"reset_validate", "reset_complete"}
           /\ \E t \in {x \in TokenIds : token[x].state \in {"mailed", "expired", "used"}} :
              \E pw \in IF op = "reset_complete" THEN Passwords ELSE {Nil} :
                 Start(s, "token", op, token[t].user, pw, Nil, t)
  <2>1. PICK t \in {x \in TokenIds : token[x].state \in {"mailed", "expired", "used"}} :
          \E pw \in IF op = "reset_complete" THEN Passwords ELSE {Nil} :
             Start(s, "token", op, token[t].user, pw, Nil, t)
    BY <1>7
  <2>2. PICK pw \in Passwords \cup {Nil} :
          /\ Start(s, "token", op, token[t].user, pw, Nil, t)
          /\ op = "reset_complete" => pw \in Passwords
    BY <2>1
  <2>3. PICK u \in Users : u = token[t].user
    BY <2>1 DEF RequestInv, TokensHaveOwners
  <2>4. Begun(s, "token", op, u, pw, Nil, t)
    <3>1. Start(s, "token", op, u, pw, Nil, t)
      BY <2>2, <2>3
    <3> HIDE <2>3
    <3> QED
      BY <1>2, <3>1, StartMoves
  <2>5. WellFormed(req'[s]) /\ TablesFit(req'[s]) /\ ~Making(req'[s]) /\ ~Drawing(req'[s])
    <3>1. token'[t].state # "unborn" /\ token[t].state # "unborn" /\ token[t].user = u
      BY <1>3, <2>1, <2>3
    <3>2. WellFormed(req'[s])
      <4>0. op \in {"reset_validate", "reset_complete"} /\ t \in TokenIds
        BY <1>7
      <4>1. /\ req'[s].pc = "token" /\ req'[s].op \in {"reset_validate", "reset_complete"}
            /\ req'[s].user \in Users /\ req'[s].token \in TokenIds
            /\ req'[s].op = "reset_complete" => req'[s].pw \in Passwords
        BY <4>0, <2>2, <2>4 DEF Begun
      <4> QED
        BY <4>1 DEF WellFormed, Making, Drawing, Resetting, Deleting
    <3> QED
      BY <1>7, <2>4, <3>1, <3>2 DEF Begun, TablesFit, Making, Drawing, Resetting, Deleting
  <2> QED
    BY <1>3, <2>4, <2>5, StartHolds DEF Begun
<1> QED
  BY <1>1, <1>4, <1>5, <1>6, <1>7

----------------------------------------------------------------------------
(* Any step. *)

LEMMA InitHolds == Init => RequestInv
<1> SUFFICES ASSUME Init PROVE RequestInv
  OBVIOUS
<1>1. TypeOK
  BY IdleType DEF Init, TypeOK, TokenStates
<1>2. ASSUME NEW s \in Slots
      PROVE  RequestIsSound(s) /\ ~Making(req[s]) /\ ~Drawing(req[s])
  <2>1. req[s].pc = "idle" /\ req[s].op = "session" /\ req[s].status = 0 /\ hist[s].used = {}
    BY DEF Init, Idle, NoHistory
  <2> QED
    BY <2>1 DEF RequestIsSound, WellFormed, TablesFit, HistoryFits, SessionsFit, Making, Drawing,
       Resetting, Deleting, Finished, InFlight, Awaits
<1>3. TokensHaveOwners
  BY DEF Init, TokensHaveOwners
<1> QED
  BY <1>1, <1>2, <1>3 DEF RequestInv, DrawnOnce

LEMMA ContinueHolds == ASSUME RequestInv, LockInv, NEW s \in Slots, Continue(s) PROVE RequestInv'
BY RateLimitedHolds, SelectForRegisterHolds, InsertUserHolds, SelectForLoginHolds, InsertSessionHolds,
   DeleteSessionHolds, CommitLogoutHolds, FindSessionHolds, SelectForResetHolds, InsertTokenHolds,
   SendMailHolds, ValidateTokenHolds, SelectTokenHolds, FlushTokenHolds, FlushUserHolds,
   DeleteSessionsHolds, DeleteRowHolds, EndDeleteHolds, CommitResetHolds
   DEF Continue

LEMMA StepHolds == RequestInv /\ LockInv /\ [Next]_vars => RequestInv'
<1> SUFFICES ASSUME RequestInv, LockInv, [Next]_vars PROVE RequestInv'
  OBVIOUS
<1>1. ASSUME NEW s \in Slots, Begin(s) \/ Continue(s) \/ Receive(s) PROVE RequestInv'
  BY <1>1, BeginHolds, ContinueHolds, ReceiveHolds
<1>2. ASSUME UNCHANGED vars PROVE RequestInv'
  <2>1. OnlyControl /\ UNCHANGED req
    BY <1>2 DEF vars, OnlyControl
  <2> QED
    BY <2>1, ControlGrows, NobodyMoves
<1> QED
  BY <1>1, <1>2, ExpireTokenHolds, CrashHolds DEF Next

----------------------------------------------------------------------------
(* Locks and progress: how a request in flight moves. *)

\* Only one request moves, and nearer to its answer.
Advances(s) ==
    /\ InFlight(req[s]) /\ Nearer(req'[s], req[s])
    /\ \A t \in Slots : t # s => req'[t] = req[t]

\* A request without locks.
NoLocks(q) ==
    q.pc \notin {"flush_user", "delete", "rows", "commit"} /\ q.found = {} /\ q.doomed = {}

\* What s locks, it had locked or was free, and of sessions it locks only those that
\* are still in the table.
TakesFreeLocks(s) ==
    /\ req'[s].found # {} => req'[s].pc = "rows"
    /\ req'[s].doomed # {} => req'[s].pc \in {"rows", "commit", "end_session"}
    /\ \A x \in TokenIds : HoldsToken(s, x)' =>
          HoldsToken(s, x) \/ \A t \in Slots : ~HoldsToken(t, x)
    /\ \A u \in Users : HoldsRow(s, u)' => HoldsRow(s, u) \/ \A t \in Slots : ~HoldsRow(t, u)
    /\ \A i \in req'[s].doomed :
          \/ i \in req[s].doomed
          \/ session[i] # Ended /\ \A t \in Slots \ {s} : ~HoldsSession(t, i)

LEMMA NoLocksTakeNone ==
    ASSUME NEW s \in Slots, NoLocks(req'[s])
    PROVE  TakesFreeLocks(s)
BY DEF NoLocks, TakesFreeLocks, HoldsToken, HoldsRow

LEMMA InFlightHasSteps ==
    ASSUME NEW q, InFlight(q)
    PROVE  StepsLeft(q) > 0
<1>1. q.pc \in Awaits
  BY DEF InFlight
<1>2. /\ q.pc = "token" => StepsLeft(q) = 6
      /\ q.pc = "flush" => StepsLeft(q) = 5
      /\ q.pc = "flush_user" => StepsLeft(q) = 4
  BY DEF StepsLeft
<1>3. q.pc \in {"account", "delete"} => StepsLeft(q) = 3
  BY DEF StepsLeft
<1>4. q.pc \in {"insert_user", "insert_token", "find_session", "rows"} => StepsLeft(q) = 2
  BY DEF StepsLeft
<1>5. q.pc \in {"insert_session", "end_session", "mail", "commit"} => StepsLeft(q) = 1
  BY DEF StepsLeft
<1>6. StepsLeft(q) \in {1, 2, 3, 4, 5, 6}
  BY <1>1, <1>2, <1>3, <1>4, <1>5 DEF Awaits
<1> QED
  BY <1>6

LEMMA EndIsNear ==
    ASSUME NEW q, NEW r, InFlight(q), r.pc \in {"idle", "done"}
    PROVE  Nearer(r, q)
<1>1. StepsLeft(r) = 0
  BY DEF StepsLeft
<1> QED
  BY <1>1, InFlightHasSteps DEF Nearer

LEMMA NextIsNearer ==
    ASSUME NEW q, NEW r,
           \/ q.pc = "account" /\ r.pc \in {"insert_user", "insert_session", "insert_token"}
           \/ q.pc = "insert_user" /\ r.pc = "insert_session"
           \/ q.pc = "insert_token" /\ r.pc = "mail"
           \/ q.pc = "find_session" /\ r.pc = "end_session"
           \/ q.pc = "token" /\ r.pc = "flush"
           \/ q.pc = "flush" /\ r.pc = "flush_user"
           \/ q.pc = "flush_user" /\ r.pc = "delete"
           \/ q.pc = "delete" /\ r.pc = "rows"
           \/ q.pc = "rows" /\ r.pc = "commit"
    PROVE  Nearer(r, q)
<1>1. 1 < 2 /\ 1 < 3 /\ 2 < 3 /\ 3 < 4 /\ 4 < 5 /\ 5 < 6
  OBVIOUS
<1>2. \A x : /\ x.pc = "token" => StepsLeft(x) = 6
             /\ x.pc = "flush" => StepsLeft(x) = 5
             /\ x.pc = "flush_user" => StepsLeft(x) = 4
  BY DEF StepsLeft
<1>3. \A x : x.pc \in {"account", "delete"} => StepsLeft(x) = 3
  BY DEF StepsLeft
<1>4. \A x : x.pc \in {"insert_user", "insert_token", "find_session", "rows"} => StepsLeft(x) = 2
  BY DEF StepsLeft
<1>5. \A x : x.pc \in {"insert_session", "end_session", "mail", "commit"} => StepsLeft(x) = 1
  BY DEF StepsLeft
<1>6. StepsLeft(r) < StepsLeft(q)
  <2>1. CASE q.pc = "account"
    BY <1>1, <1>3, <1>4, <1>5, <2>1
  <2>2. CASE q.pc \in {"insert_user", "insert_token", "find_session", "rows"}
    BY <1>1, <1>4, <1>5, <2>2
  <2>3. CASE q.pc \in {"token", "flush"}
    BY <1>1, <1>2, <2>3
  <2>4. CASE q.pc \in {"flush_user", "delete"}
    BY <1>1, <1>2, <1>3, <1>4, <2>4
  <2> QED
    BY <2>1, <2>2, <2>3, <2>4
<1> QED
  BY <1>6 DEF Nearer

\* Awaits at which a request has no locks and from which it goes to such a one.
Unlocked == Awaits \ {"end_session", "flush_user", "delete", "rows", "commit"}

LEMMA AnswerAdvances ==
    ASSUME TypeOK, LockInv, NEW s \in Slots, NEW status \in Statuses, Answer(s, status),
           req[s].pc \in Unlocked
    PROVE  Advances(s) /\ NoLocks(req'[s])
<1>1. Moves(s) /\ req'[s].pc = "done" /\ req'[s].found = req[s].found /\ req'[s].doomed = req[s].doomed
  BY AnswerMoves
<1>2. InFlight(req[s])
  BY DEF Unlocked, InFlight
<1>3. req[s].found = {} /\ req[s].doomed = {}
  BY DEF LockInv, Unlocked
<1> QED
  BY <1>1, <1>2, <1>3, EndIsNear DEF Advances, NoLocks, Moves

LEMMA GotoAdvances ==
    ASSUME TypeOK, LockInv, NEW s \in Slots, NEW pc \in Unlocked, Goto(s, pc),
           \/ req[s].pc = "account" /\ pc \in {"insert_user", "insert_session", "insert_token"}
           \/ req[s].pc = "insert_user" /\ pc = "insert_session"
           \/ req[s].pc = "insert_token" /\ pc = "mail"
           \/ req[s].pc = "token" /\ pc = "flush"
    PROVE  Advances(s) /\ NoLocks(req'[s])
<1>1. Moves(s) /\ req'[s].pc = pc /\ req'[s].found = req[s].found /\ req'[s].doomed = req[s].doomed
  BY GotoMoves DEF Unlocked
<1>2. Nearer(req'[s], req[s])
  BY <1>1, NextIsNearer
<1>3. req[s].found = {} /\ req[s].doomed = {} /\ InFlight(req[s])
  BY DEF LockInv, InFlight, Awaits
<1> QED
  BY <1>1, <1>2, <1>3 DEF Advances, NoLocks, Moves, Unlocked

LEMMA RegistrationsAdvance ==
    ASSUME TypeOK, LockInv, NEW s \in Slots,
           RateLimited(s) \/ SelectForRegister(s) \/ SelectForLogin(s) \/ InsertUser(s)
             \/ InsertSession(s)
    PROVE  Advances(s) /\ NoLocks(req'[s])
<1>1. CASE RateLimited(s)
  BY <1>1, AnswerAdvances DEF RateLimited, Statuses, Unlocked, Awaits
<1>2. CASE SelectForRegister(s)
  <2>1. CASE Goto(s, "insert_user")
    BY <1>2, <2>1, GotoAdvances DEF SelectForRegister, Unlocked, Awaits
  <2>2. CASE req' = [req EXCEPT ![s].pc = "done", ![s].status = 201, ![s].session = Nil]
    <3>1. /\ req'[s].pc = "done" /\ req'[s].found = req[s].found /\ req'[s].doomed = req[s].doomed
          /\ \A t \in Slots : t # s => req'[t] = req[t]
      BY <2>2 DEF TypeOK, Request
    <3>2. req[s].pc = "account" /\ InFlight(req[s])
      BY <1>2 DEF SelectForRegister, InFlight, Awaits
    <3> QED
      BY <3>1, <3>2, EndIsNear DEF Advances, NoLocks, LockInv
  <2> QED
    BY <1>2, <2>1, <2>2 DEF SelectForRegister
<1>3. CASE SelectForLogin(s)
  BY <1>3, GotoAdvances, AnswerAdvances DEF SelectForLogin, Statuses, Unlocked, Awaits
<1>4. CASE InsertUser(s)
  BY <1>4, GotoAdvances, AnswerAdvances DEF InsertUser, Statuses, Unlocked, Awaits
<1>5. CASE InsertSession(s)
  <2>1. (IF req[s].op = "register" THEN 201 ELSE 200) \in Statuses
    BY DEF Statuses
  <2> QED
    BY <1>5, <2>1, AnswerAdvances DEF InsertSession, Unlocked, Awaits
<1> QED
  BY <1>1, <1>2, <1>3, <1>4, <1>5

LEMMA FindAdvances ==
    ASSUME TypeOK, LockInv, NEW s \in Slots, FindSession(s)
    PROVE  Advances(s) /\ NoLocks(req'[s])
<1>1. CASE Answer(s, 401)
  BY <1>1, AnswerAdvances DEF FindSession, Statuses, Unlocked, Awaits
<1>2. CASE req' = [req EXCEPT ![s].pc = "done", ![s].status = 200,
                              ![s].user = session[req[s].session]]
  <2>1. /\ req'[s].pc = "done" /\ req'[s].found = req[s].found /\ req'[s].doomed = req[s].doomed
        /\ \A t \in Slots : t # s => req'[t] = req[t]
    BY <1>2 DEF TypeOK, Request
  <2>2. req[s].pc = "find_session" /\ InFlight(req[s])
    BY DEF FindSession, InFlight, Awaits
  <2> QED
    BY <2>1, <2>2, EndIsNear DEF Advances, NoLocks, LockInv
<1> QED
  BY <1>1, <1>2 DEF FindSession

LEMMA TokensAdvance ==
    ASSUME TypeOK, LockInv, NEW s \in Slots,
           SelectForReset(s) \/ InsertToken(s) \/ SendMail(s) \/ ValidateToken(s) \/ SelectToken(s)
    PROVE  Advances(s) /\ NoLocks(req'[s])
<1>1. CASE SelectForReset(s)
  BY <1>1, GotoAdvances, AnswerAdvances DEF SelectForReset, Statuses, Unlocked, Awaits
<1>2. CASE InsertToken(s)
  BY <1>2, GotoAdvances DEF InsertToken, Unlocked, Awaits
<1>3. CASE SendMail(s)
  BY <1>3, AnswerAdvances DEF SendMail, Statuses, Unlocked, Awaits
<1>4. CASE ValidateToken(s)
  <2>1. (IF TokenIsValid(req[s].token) THEN 200 ELSE 400) \in Statuses
    BY DEF Statuses
  <2> QED
    BY <1>4, <2>1, AnswerAdvances DEF ValidateToken, Unlocked, Awaits
<1>5. CASE SelectToken(s)
  BY <1>5, GotoAdvances, AnswerAdvances DEF SelectToken, Statuses, Unlocked, Awaits
<1> QED
  BY <1>1, <1>2, <1>3, <1>4, <1>5

LEMMA FlushesAdvance ==
    ASSUME TypeOK, LockInv, NEW s \in Slots, FlushToken(s) \/ FlushUser(s)
    PROVE  Advances(s) /\ TakesFreeLocks(s)
<1>1. req[s].found = {} /\ req[s].doomed = {} /\ InFlight(req[s])
  BY DEF LockInv, FlushToken, FlushUser, InFlight, Awaits
<1>2. CASE FlushToken(s)
  <2>1. /\ Moves(s) /\ Keeps(s) /\ req[s].pc = "flush" /\ req'[s].pc = "flush_user"
        /\ req'[s].found = {} /\ req'[s].doomed = {}
    BY <1>1, <1>2, GotoMoves DEF FlushToken, Awaits
  <2>2. TakesFreeLocks(s)
    BY <1>2, <2>1 DEF TakesFreeLocks, FlushToken, Keeps, HoldsToken, HoldsRow
  <2> QED
    BY <1>1, <2>1, <2>2, NextIsNearer DEF Advances, Moves
<1>3. CASE FlushUser(s)
  <2>1. /\ Moves(s) /\ Keeps(s) /\ req[s].pc = "flush_user" /\ req'[s].pc = "delete"
        /\ req'[s].found = {} /\ req'[s].doomed = {}
    BY <1>1, <1>3, GotoMoves DEF FlushUser, Awaits
  <2>2. TakesFreeLocks(s)
    BY <1>3, <2>1 DEF TakesFreeLocks, FlushUser, Keeps, HoldsToken, HoldsRow
  <2> QED
    BY <1>1, <2>1, <2>2, NextIsNearer DEF Advances, Moves
<1> QED
  BY <1>2, <1>3

\* A DELETE locks rows of sessions, besides what its request has locked before.
LEMMA DeletesAdvance ==
    ASSUME TypeOK, LockInv, NEW s \in Slots, DeleteSessions(s) \/ DeleteRow(s) \/ EndDelete(s)
    PROVE  Advances(s) /\ TakesFreeLocks(s)
<1> DEFINE q == req[s]
<1> DEFINE r == req'[s]
<1>1. /\ q.pc \in {"delete", "rows"} /\ InFlight(q) /\ q \in Request
      /\ q.pc = "delete" => q.doomed = {}
  BY DEF DeleteSessions, DeleteRow, EndDelete, InFlight, Awaits, TypeOK, LockInv
<1>2. /\ \A t \in Slots : t # s => req'[t] = req[t]
      /\ r.token = q.token /\ r.user = q.user
  <2>1. CASE DeleteSessions(s)
    BY <1>1, <2>1 DEF DeleteSessions, TypeOK, Request
  <2>2. CASE DeleteRow(s)
    <3>1. PICK i : req' = [req EXCEPT ![s].found = @ \ {i},
                                      ![s].doomed = IF session[i] = Ended THEN @ ELSE @ \cup {i}]
      BY <2>2 DEF DeleteRow
    <3>2. PICK F, D : req' = [req EXCEPT ![s] = [q EXCEPT !.found = F, !.doomed = D]]
      BY <1>1, <3>1 DEF TypeOK
    <3> QED
      BY <1>1, <3>2 DEF TypeOK, Request
  <2>3. CASE EndDelete(s)
    BY <1>1, <2>3 DEF EndDelete, Goto, TypeOK, Request
  <2> QED
    BY <2>1, <2>2, <2>3
<1>3. CASE DeleteSessions(s)
  <2>1. q.pc = "delete" /\ r.pc = "rows" /\ r.doomed = q.doomed
    BY <1>1, <1>3 DEF DeleteSessions, TypeOK, Request
  <2>2. TakesFreeLocks(s)
    BY <1>2, <2>1 DEF TakesFreeLocks, HoldsToken, HoldsRow
  <2> QED
    BY <1>1, <1>2, <2>1, <2>2, NextIsNearer DEF Advances
<1>4. CASE DeleteRow(s)
  <2>1. PICK i \in q.found :
          /\ \A t \in Slots \ {s} : ~HoldsSession(t, i)
          /\ req' = [req EXCEPT ![s].found = @ \ {i},
                                ![s].doomed = IF session[i] = Ended THEN @ ELSE @ \cup {i}]
    BY <1>4 DEF DeleteRow
  <2>2. /\ q.pc = "rows" /\ r.pc = "rows" /\ r.found = q.found \ {i}
        /\ r.doomed = IF session[i] = Ended THEN q.doomed ELSE q.doomed \cup {i}
    BY <1>1, <1>4, <2>1 DEF DeleteRow, TypeOK, Request
  <2>3. Nearer(r, q)
    BY <2>2 DEF Nearer
  <2>4. TakesFreeLocks(s)
    <3>1. \A x \in r.doomed :
             x \in q.doomed \/ (session[x] # Ended /\ \A t \in Slots \ {s} : ~HoldsSession(t, x))
      BY <2>1, <2>2
    <3>2. HoldsToken(s, q.token) /\ HoldsRow(s, q.user)
      BY <2>2 DEF HoldsToken, HoldsRow
    <3>3. /\ \A x \in TokenIds : HoldsToken(s, x)' => x = q.token
          /\ \A u \in Users : HoldsRow(s, u)' => u = q.user
      BY <1>2 DEF HoldsToken, HoldsRow
    <3> QED
      BY <2>2, <3>1, <3>2, <3>3 DEF TakesFreeLocks
  <2> QED
    BY <1>1, <1>2, <2>3, <2>4 DEF Advances
<1>5. CASE EndDelete(s)
  <2>1. q.pc = "rows" /\ r.pc = "commit" /\ r.doomed = q.doomed /\ r.found = {}
    BY <1>1, <1>5 DEF EndDelete, Goto, TypeOK, Request
  <2>2. TakesFreeLocks(s)
    BY <1>2, <2>1 DEF TakesFreeLocks, HoldsToken, HoldsRow
  <2> QED
    BY <1>1, <1>2, <2>1, <2>2, NextIsNearer DEF Advances
<1> QED
  BY <1>3, <1>4, <1>5

LEMMA LogoutAdvances ==
    ASSUME TypeOK, LockInv, NEW s \in Slots, DeleteSession(s)
    PROVE  Advances(s) /\ TakesFreeLocks(s)
<1> DEFINE D == IF session[req[s].session] = Ended THEN {} ELSE {req[s].session}
<1>1. /\ req[s].pc = "find_session" /\ InFlight(req[s]) /\ req[s].found = {}
      /\ \A t \in Slots : ~HoldsSession(t, req[s].session)
  BY DEF DeleteSession, InFlight, Awaits, LockInv
<1>2. \A i \in D : session[i] # Ended /\ \A t \in Slots : ~HoldsSession(t, i)
  BY <1>1
<1>3. req' = [req EXCEPT ![s].pc = "end_session", ![s].doomed = D]
  BY DEF DeleteSession
<1> HIDE DEF D
<1>4. /\ req'[s].pc = "end_session" /\ req'[s].found = {} /\ req'[s].doomed = D
      /\ \A t \in Slots : t # s => req'[t] = req[t]
  BY <1>1, <1>3 DEF TypeOK, Request
<1>5. TakesFreeLocks(s)
  BY <1>2, <1>4 DEF TakesFreeLocks, HoldsToken, HoldsRow
<1> QED
  BY <1>1, <1>4, <1>5, NextIsNearer DEF Advances

LEMMA CommitsAdvance ==
    ASSUME TypeOK, LockInv, NEW s \in Slots, CommitLogout(s) \/ CommitReset(s)
    PROVE  Advances(s) /\ NoLocks(req'[s])
<1>1. /\ req[s].pc \in {"end_session", "commit"} /\ req'[s].pc = "done" /\ req'[s].doomed = {}
      /\ req'[s].found = req[s].found /\ \A t \in Slots : t # s => req'[t] = req[t]
  BY DEF CommitLogout, CommitReset, TypeOK, Request
<1>2. InFlight(req[s]) /\ req[s].found = {}
  BY <1>1 DEF InFlight, Awaits, LockInv
<1> QED
  BY <1>1, <1>2, EndIsNear DEF Advances, NoLocks

LEMMA ContinueAdvances ==
    ASSUME TypeOK, LockInv, NEW s \in Slots, Continue(s)
    PROVE  Advances(s) /\ TakesFreeLocks(s)
BY RegistrationsAdvance, FindAdvances, TokensAdvance, FlushesAdvance, DeletesAdvance, LogoutAdvances,
   CommitsAdvance, NoLocksTakeNone DEF Continue

\* Only who has locked a session's row ends it, and unlocks it in the same step.
LEMMA HoldersEndSessions ==
    ASSUME RequestInv, NEW s \in Slots, Continue(s), NEW i \in SessionIds, session[i] # Ended,
           session'[i] = Ended
    PROVE  i \in req[s].doomed /\ req'[s].doomed = {}
<1>1. TypeOK
  BY DEF RequestInv
<1>2. CASE CommitLogout(s) \/ CommitReset(s)
  BY <1>1, <1>2 DEF CommitLogout, CommitReset, EndDoomed, TypeOK, Request
<1>3. CASE InsertSession(s)
  <2>1. req[s].user \in Users
    BY <1>3 DEF InsertSession, RequestInv, RequestIsSound, WellFormed, Making
  <2>2. session'[i] \in {session[i], req[s].user}
    BY <1>1, <1>3 DEF InsertSession, TypeOK
  <2> QED
    BY <2>1, <2>2, SentinelAssumption
<1>4. CASE UNCHANGED session
  BY <1>4
<1> QED
  BY <1>2, <1>3, <1>4
  DEF Continue, RateLimited, SelectForRegister, InsertUser, SelectForLogin, DeleteSession,
      FindSession, SelectForReset, InsertToken, SendMail, ValidateToken, SelectToken, FlushToken,
      FlushUser, DeleteSessions, DeleteRow, EndDelete, OnlyControl

\* Whatever else happens, a request in flight stays as it is or is lost.
LEMMA RestIsStill ==
    ASSUME TypeOK, NEW s \in Slots,
           \/ \E t \in Slots : Begin(t) \/ Receive(t)
           \/ ExpireToken \/ Crash \/ UNCHANGED vars
    PROVE  /\ \/ req'[s] = req[s]
              \/ ~InFlight(req[s]) /\ NoLocks(req'[s])
              \/ req'[s] = Idle
           /\ UNCHANGED session
<1>0. UNCHANGED session
  BY DEF Begin, Receive, ExpireToken, Crash, vars
<1>1. ASSUME NEW t \in Slots, Begin(t)
      PROVE  req'[s] = req[s] \/ (~InFlight(req[s]) /\ NoLocks(req'[s]))
  <2>1. PICK pc, op, u, pw, i, k :
              pc \in {"account", "find_session", "token"} /\ Start(t, pc, op, u, pw, i, k)
    BY <1>1 DEF Begin
  <2>2. req' = [req EXCEPT ![t] = [Idle EXCEPT !.pc = pc, !.op = op, !.user = u,
                                    !.pw = pw, !.session = i, !.token = k]]
    BY <2>1 DEF Start
  <2>3. NoLocks([Idle EXCEPT !.pc = pc, !.op = op, !.user = u, !.pw = pw, !.session = i,
                             !.token = k])
    BY <2>1 DEF NoLocks, Idle
  <2> QED
    BY <1>1, <2>2, <2>3 DEF Begin, InFlight, Awaits, TypeOK
<1>2. ASSUME NEW t \in Slots, Receive(t) PROVE req'[s] = req[s] \/ req'[s] = Idle
  BY <1>2 DEF Receive, TypeOK
<1>3. CASE Crash
  BY <1>3 DEF Crash
<1> QED
  BY <1>0, <1>1, <1>2, <1>3 DEF ExpireToken, vars

LEMMA LocksHold == RequestInv /\ LockInv /\ [Next]_vars => LockInv'
<1> SUFFICES ASSUME RequestInv, TypeOK, LockInv, [Next]_vars PROVE LockInv'
  BY DEF RequestInv
<1>1. NoLocks(Idle)
  BY DEF NoLocks, Idle
<1>2. CASE \E s \in Slots : Continue(s)
  <2> PICK s \in Slots : Continue(s)
    BY <1>2
  <2>1. (\A t \in Slots : t # s => req'[t] = req[t]) /\ TakesFreeLocks(s)
    BY ContinueAdvances DEF Advances
  <2>2. ASSUME NEW t \in Slots
        PROVE  /\ req'[t].found # {} => req'[t].pc = "rows"
               /\ req'[t].doomed # {} => req'[t].pc \in {"rows", "commit", "end_session"}
    BY <2>1 DEF LockInv, TakesFreeLocks
  <2>3. ASSUME NEW t \in Slots, NEW i \in req'[t].doomed PROVE session'[i] # Ended
    <3>1. session[i] # Ended
      BY <2>1, <2>3 DEF LockInv, TakesFreeLocks
    <3>2. i \in SessionIds
      <4>1. RequestInv'
        BY ContinueHolds
      <4> QED
        BY <2>3, <4>1 DEF RequestInv, TypeOK, Request
    <3>3. i \in req[s].doomed /\ req'[s].doomed = {} => t # s /\ i \in req[t].doomed
      BY <2>1, <2>3
    <3>4. ~(i \in req[s].doomed /\ req'[s].doomed = {})
      BY <3>3 DEF LockInv
    <3> QED
      BY <3>1, <3>2, <3>4, HoldersEndSessions
  <2>4. ASSUME NEW t \in Slots, NEW v \in Slots, t # v
        PROVE  /\ \A x \in TokenIds : ~(HoldsToken(t, x) /\ HoldsToken(v, x))'
               /\ \A u \in Users : ~(HoldsRow(t, u) /\ HoldsRow(v, u))'
               /\ req'[t].doomed \cap req'[v].doomed = {}
    <3>1. ASSUME NEW w \in Slots, w # s
          PROVE  /\ \A x \in TokenIds : ~(HoldsToken(s, x) /\ HoldsToken(w, x))'
                 /\ \A u \in Users : ~(HoldsRow(s, u) /\ HoldsRow(w, u))'
                 /\ req'[s].doomed \cap req'[w].doomed = {}
      <4>1. req'[w] = req[w]
        BY <2>1, <3>1
      <4>2. /\ \A x \in TokenIds : HoldsToken(w, x)' = HoldsToken(w, x)
            /\ \A u \in Users : HoldsRow(w, u)' = HoldsRow(w, u)
        BY <4>1 DEF HoldsToken, HoldsRow
      <4>3. \A x \in TokenIds : ~(HoldsToken(s, x) /\ HoldsToken(w, x))'
        BY <2>1, <3>1, <4>2 DEF LockInv, TakesFreeLocks
      <4>4. \A u \in Users : ~(HoldsRow(s, u) /\ HoldsRow(w, u))'
        BY <2>1, <3>1, <4>2 DEF LockInv, TakesFreeLocks
      <4>5. req'[s].doomed \cap req'[w].doomed = {}
        BY <2>1, <3>1, <4>1 DEF LockInv, TakesFreeLocks, HoldsSession
      <4> QED
        BY <4>3, <4>4, <4>5
    <3>2. CASE t # s /\ v # s
      <4>1. req'[t] = req[t] /\ req'[v] = req[v]
        BY <2>1, <3>2
      <4> QED
        BY <2>4, <4>1 DEF LockInv, HoldsToken, HoldsRow
    <3> QED
      BY <2>4, <3>1, <3>2
  <2> QED
    BY <2>2, <2>3, <2>4 DEF LockInv
<1>3. CASE ~\E s \in Slots : Continue(s)
  <2>1. \A s \in Slots : req'[s] = req[s] \/ NoLocks(req'[s])
    BY <1>1, <1>3, RestIsStill DEF Next
  <2>2. (\E s \in Slots : TRUE) => UNCHANGED session
    BY <1>3, RestIsStill DEF Next
  <2>3. \A s \in Slots : /\ req'[s].found # {} => req'[s].pc = "rows"
                         /\ req'[s].doomed # {} => req'[s].pc \in {"rows", "commit", "end_session"}
                         /\ \A i \in req'[s].doomed : session'[i] # Ended
    BY <2>1, <2>2 DEF LockInv, NoLocks
  <2>4. \A s \in Slots : /\ \A x \in TokenIds : HoldsToken(s, x)' => HoldsToken(s, x)
                         /\ \A u \in Users : HoldsRow(s, u)' => HoldsRow(s, u)
                         /\ req'[s].doomed \subseteq req[s].doomed
    BY <2>1 DEF HoldsToken, HoldsRow, NoLocks
  <2> QED
    BY <2>3, <2>4 DEF LockInv
<1> QED
  BY <1>2, <1>3

LEMMA InitLocks == Init => LockInv
BY DEF Init, LockInv, HoldsToken, HoldsRow, Idle

\* Every reachable state satisfies the invariant that the runs check.
THEOREM Invariance == Spec => []IInv
<1>1. Init => IInv
  BY InitHolds, InitLocks DEF IInv
<1>2. IInv /\ [Next]_vars => IInv'
  BY StepHolds, LocksHold DEF IInv
<1> QED
  BY <1>1, <1>2, PTL DEF Spec

LEMMA RequestInvariance == Spec => []RequestInv
<1>1. IInv => RequestInv
  BY DEF IInv
<1> QED
  BY <1>1, Invariance, PTL
----------------------------------------------------------------------------
(* The theorems. *)

\* The tables and the requests of auth/router.py keep their types.
THEOREM TypeCorrect == Spec => []TypeOK
<1>1. RequestInv => TypeOK
  BY DEF RequestInv
<1> QED
  BY <1>1, RequestInvariance, PTL

\* auth/router.py:87-109: whoever is let in presented a password the account had
\* while the login ran.
THEOREM LoginsAreSound == Spec => []LoginsNeedThePassword
<1>1. RequestInv => LoginsNeedThePassword
  BY DEF RequestInv, RequestIsSound, HistoryFits, LoginsNeedThePassword, Done
<1> QED
  BY <1>1, RequestInvariance, PTL

\* auth/router.py:216-224: after the answer of a reset, none of the sessions that
\* the account had when it began is valid.
THEOREM ResetsAreSound == Spec => []ResetEndsOldSessions
<1>1. RequestInv => ResetEndsOldSessions
  BY DEF RequestInv, RequestIsSound, SessionsFit, ResetEndsOldSessions, Done
<1> QED
  BY <1>1, RequestInvariance, PTL

\* auth/router.py:180-209: a token that had been used before a request began is
\* refused to it.
THEOREM TokensAreSound == Spec => []UsedTokensAreRefused
<1>1. RequestInv => UsedTokensAreRefused
  BY DEF RequestInv, RequestIsSound, HistoryFits, UsedTokensAreRefused, Finished
<1> QED
  BY <1>1, RequestInvariance, PTL

PasswordStep ==
    \A u \in Users : password'[u] # password[u] =>
        \E s \in Slots :
           /\ req[s].user = u
           /\ \/ req[s].pc = "insert_user" /\ password[u] = NoAccount
              \/ /\ req[s].pc = "commit" /\ password[u] \in Passwords
                 /\ token[req[s].token].user = u

LEMMA PasswordStepHolds == RequestInv /\ [Next]_vars => [PasswordStep]_vars
<1> SUFFICES ASSUME RequestInv, Next PROVE PasswordStep
  OBVIOUS
<1>1. ASSUME UNCHANGED password PROVE PasswordStep
  BY <1>1 DEF PasswordStep
<1>2. ASSUME NEW s \in Slots, InsertUser(s) PROVE PasswordStep
  <2>1. CASE OnlyControl
    BY <2>1, <1>1 DEF OnlyControl
  <2>2. CASE EmailIsFree(req[s].user)
             /\ password' = [password EXCEPT ![req[s].user] = StoredHash(req[s])]
    <3>1. password \in [Users -> Passwords \cup {NoAccount, NoPassword}]
      BY DEF RequestInv, TypeOK
    <3> QED
      BY <1>2, <2>2, <3>1 DEF PasswordStep, InsertUser, EmailIsFree
  <2> QED
    BY <1>2, <2>1, <2>2 DEF InsertUser
<1>3. ASSUME NEW s \in Slots, CommitReset(s) PROVE PasswordStep
  <2>1. /\ req[s].pc = "commit" /\ password' = [password EXCEPT ![req[s].user] = StoredHash(req[s])]
        /\ password \in [Users -> Passwords \cup {NoAccount, NoPassword}]
    BY <1>3 DEF CommitReset, RequestInv, TypeOK
  <2>2. req[s].user \in Users /\ req[s].token \in TokenIds
        /\ token[req[s].token].state # "unborn" /\ token[req[s].token].user = req[s].user
    BY <2>1 DEF RequestInv, RequestIsSound, WellFormed, TablesFit, Resetting, Deleting
  <2>3. password[req[s].user] \in Passwords
    BY <2>2 DEF RequestInv, TokensHaveOwners
  <2> QED
    BY <2>1, <2>2, <2>3 DEF PasswordStep
<1>4. ASSUME NEW s \in Slots, Continue(s) PROVE PasswordStep
  BY <1>1, <1>2, <1>3, <1>4 DEF Continue, RateLimited, SelectForRegister, SelectForLogin, InsertSession,
     DeleteSession, CommitLogout, FindSession, SelectForReset, InsertToken, SendMail, ValidateToken, SelectToken,
     FlushToken, FlushUser, DeleteSessions, DeleteRow, EndDelete, OnlyControl
<1> QED
  BY <1>1, <1>4 DEF Next, Begin, Receive, ExpireToken, Crash

\* auth/router.py:60-67 and 218-224: only a registration of a free address sets a
\* password, and only a reset with that account's token changes one.
THEOREM PasswordsAreSound == Spec => PasswordsChangeByReset
<1>1. RequestInv /\ [Next]_vars => [PasswordStep]_vars
  BY PasswordStepHolds
<1> QED
  BY <1>1, RequestInvariance, PTL DEF Spec, PasswordsChangeByReset, PasswordStep

----------------------------------------------------------------------------
(* Waiting. *)

\* Locks are taken in one order: the token's, the user's, the sessions', and at a
\* COMMIT nothing is waited for.
Rank(q) ==
    CASE q.pc = "flush"                         -> 1
      [] q.pc \in {"flush_user", "find_session"} -> 2
      [] q.pc \in {"delete", "rows"}             -> 3
      [] OTHER                                  -> 4

LEMMA WaitersRank ==
    ASSUME IInv, NEW s \in Slots, NEW t \in Slots, WaitsFor(s, t)
    PROVE  /\ InFlight(req[t]) /\ Rank(req[s]) < Rank(req[t])
           /\ Rank(req[s]) \in {1, 2, 3}
<1> DEFINE q == req[s]
<1> DEFINE r == req[t]
<1>1. \A x : /\ x.pc = "flush" => Rank(x) = 1
             /\ x.pc \in {"flush_user", "find_session"} => Rank(x) = 2
             /\ x.pc \in {"delete", "rows"} => Rank(x) = 3
             /\ x.pc \in {"commit", "end_session"} => Rank(x) = 4
  BY DEF Rank
<1>2. 1 < 2 /\ 1 < 3 /\ 1 < 4 /\ 2 < 3 /\ 2 < 4 /\ 3 < 4
  OBVIOUS
<1>3. CASE q.pc = "flush" /\ HoldsToken(t, q.token)
  <2>1. r.pc \in {"flush_user", "delete", "rows", "commit"}
    BY <1>3 DEF HoldsToken
  <2> QED
    BY <1>1, <1>2, <1>3, <2>1 DEF InFlight, Awaits
<1>4. CASE q.pc = "flush_user" /\ HoldsRow(t, q.user)
  <2>1. r.pc \in {"delete", "rows", "commit"}
    BY <1>4 DEF HoldsRow
  <2> QED
    BY <1>1, <1>2, <1>4, <2>1 DEF InFlight, Awaits
<1>5. CASE q.pc = "find_session" /\ HoldsSession(t, q.session)
  <2>1. r.pc \in {"rows", "commit", "end_session"}
    BY <1>5 DEF HoldsSession, IInv, LockInv
  <2> QED
    BY <1>1, <1>2, <1>5, <2>1 DEF InFlight, Awaits
<1>6. CASE q.pc = "rows" /\ \E i \in q.found : HoldsSession(t, i)
  <2>1. PICK i \in q.found : i \in r.doomed
    BY <1>6 DEF HoldsSession
  <2>2. /\ r.pc \in {"rows", "commit", "end_session"} /\ session[i] # Ended
    BY <2>1 DEF IInv, LockInv
  <2>3. q.user \in Users /\ session[i] = q.user
    BY <1>6, <2>2 DEF IInv, RequestInv, RequestIsSound, WellFormed, TablesFit, Resetting, Deleting
  <2>4. r.pc \in {"rows", "commit"} => r.user = q.user
    BY <2>1, <2>2, <2>3 DEF IInv, RequestInv, RequestIsSound, TablesFit, Deleting
  <2>5. r.pc \in {"rows", "commit"} => s = t
    BY <1>6, <2>3, <2>4 DEF IInv, LockInv, HoldsRow
  <2>6. r.pc = "end_session"
    BY <2>2, <2>5 DEF WaitsFor
  <2> QED
    BY <1>1, <1>2, <1>6, <2>6 DEF InFlight, Awaits
<1> QED
  BY <1>3, <1>4, <1>5, <1>6 DEF WaitsFor

\* auth/router.py:221-224 and auth/session.py:33-34: completions wait for each other
\* at both of their UPDATEs and for logouts at their DELETE, logouts wait for both at
\* theirs, and of any number of requests none waits, however indirectly, for itself.
THEOREM NoDeadlock == Spec => []WaitsAreAcyclic
<1>1. IInv => WaitsAreAcyclic
  <2> SUFFICES ASSUME IInv, NEW S \in SUBSET Slots, S # {},
                      \A s \in S : \E t \in S : WaitsFor(s, t)
               PROVE  FALSE
    BY WaitersRank DEF WaitsAreAcyclic
  <2>1. \A s \in S : Rank(req[s]) \in {1, 2, 3}
    BY WaitersRank
  <2>2. \A s \in S : \E t \in S : Rank(req[s]) < Rank(req[t])
    BY WaitersRank
  <2>3. \A s \in S : Rank(req[s]) # 3
    BY <2>1, <2>2
  <2>4. \A s \in S : Rank(req[s]) # 2
    BY <2>1, <2>2, <2>3
  <2> QED
    BY <2>1, <2>2, <2>3, <2>4
<1> QED
  BY <1>1, Invariance, PTL

\* Nobody is sent back to an await or a row that it has passed: with NoDeadlock, what
\* is left of RequestsAreAnswered is that the event loop and the database go on.
THEOREM NobodyGoesBack == Spec => RequestsAdvance
<1> DEFINE Step == \A s \in Slots : InFlight(req[s]) /\ req'[s] # req[s]
                                     => Nearer(req'[s], req[s])
<1>1. ASSUME IInv, [Next]_vars PROVE Step
  <2> SUFFICES ASSUME NEW s \in Slots, InFlight(req[s]), req'[s] # req[s]
               PROVE  Nearer(req'[s], req[s])
    OBVIOUS
  <2>0. TypeOK /\ LockInv
    BY <1>1 DEF IInv, RequestInv
  <2>1. CASE \E t \in Slots : Continue(t)
    BY <2>0, <2>1, ContinueAdvances DEF Advances
  <2>2. CASE ~\E t \in Slots : Continue(t)
    <3>1. req'[s] = Idle
      BY <1>1, <2>0, <2>2, RestIsStill DEF Next
    <3> QED
      BY <3>1, EndIsNear DEF Idle
  <2> QED
    BY <2>1, <2>2
<1> QED
  BY <1>1, Invariance, PTL DEF Spec, RequestsAdvance

----------------------------------------------------------------------------
(* Every step is one of UserTable, or changes no row. *)

RowOf(u) == [sub |-> IF password[u] = NoPassword THEN u ELSE Nil,
             password |-> IF password[u] \in Passwords THEN password[u] ELSE Nil]

LEMMA RowsFields ==
    /\ Rows = [u \in Users |-> RowOf(u)]
    /\ \A u \in Users : Rows[u] = RowOf(u)
BY DEF Rows, RowOf

LEMMA TableInit == Init => Table!Init
<1> SUFFICES ASSUME Init PROVE Table!Init
  OBVIOUS
<1>1. \A u \in Users : Rows[u].sub \in {u, Nil}
  BY RowsFields DEF RowOf
<1>2. Table!SubsDiffer
  BY <1>1 DEF Table!SubsDiffer
<1>3. Rows \in [Users -> Table!Row]
  BY RowsFields DEF RowOf, Table!Row
<1> QED
  BY <1>2, <1>3 DEF Table!Init

\* A password that is set changes the row of its address, and no other row.
LEMMA OneRowChanges ==
    ASSUME TypeOK, NEW u \in Users, NEW p \in Passwords, password' = [password EXCEPT ![u] = p]
    PROVE  Rows' = [Rows EXCEPT ![u] = [sub |-> Nil, password |-> p]]
<1>1. /\ password'[u] = p /\ p # NoPassword
      /\ \A x \in Users : x # u => password'[x] = password[x]
  BY SentinelAssumption DEF TypeOK
<1>2. RowOf(u)' = [sub |-> Nil, password |-> p]
  BY <1>1 DEF RowOf
<1>3. \A x \in Users : x # u => RowOf(x)' = RowOf(x)
  BY <1>1 DEF RowOf
<1>4. Rows' = [x \in Users |-> RowOf(x)']
  BY DEF Rows, RowOf
<1> QED
  BY <1>2, <1>3, <1>4, RowsFields

LEMMA RegisterIsTable ==
    ASSUME TypeOK, NEW u \in Users, NEW p \in Passwords, password[u] = NoAccount,
           password' = [password EXCEPT ![u] = p]
    PROVE  Table!Register(u, p)
<1>1. RowOf(u) = [sub |-> Nil, password |-> Nil]
  BY SentinelAssumption DEF RowOf
<1> QED
  BY <1>1, OneRowChanges, RowsFields DEF Table!Register, Table!Exists, Table!NoRow

LEMMA ResetIsTable ==
    ASSUME TypeOK, NEW u \in Users, NEW p \in Passwords, password[u] \in Passwords,
           password' = [password EXCEPT ![u] = p]
    PROVE  Table!ResetPassword(u, p)
<1>1. RowOf(u) = [sub |-> Nil, password |-> password[u]] /\ password[u] # Nil
  BY SentinelAssumption DEF RowOf
<1>2. Rows[u].password # Nil
  BY <1>1, RowsFields
<1>3. [Rows[u] EXCEPT !.password = p] = [sub |-> Nil, password |-> p]
  BY <1>1, RowsFields
<1>4. Rows' = [Rows EXCEPT ![u] = [Rows[u] EXCEPT !.password = p]]
  <2>1. Rows' = [Rows EXCEPT ![u] = [sub |-> Nil, password |-> p]]
    BY OneRowChanges
  <2> QED
    BY <1>3, <2>1
<1> QED
  BY <1>2, <1>4 DEF Table!ResetPassword

LEMMA TableStep == RequestInv /\ [Next]_vars => [Table!Next]_Rows
<1> SUFFICES ASSUME RequestInv, [Next]_vars PROVE Table!Next \/ UNCHANGED Rows
  OBVIOUS
<1>1. ASSUME UNCHANGED password PROVE UNCHANGED Rows
  BY <1>1 DEF Rows
<1>2. ASSUME NEW s \in Slots, InsertUser(s) PROVE Table!Next \/ UNCHANGED Rows
  <2>1. TypeOK /\ req[s].user \in Users /\ req[s].pw \in Passwords
    BY <1>2 DEF RequestInv, RequestIsSound, WellFormed, Making, InsertUser
  <2>2. CASE /\ password[req[s].user] = NoAccount
             /\ password' = [password EXCEPT ![req[s].user] = req[s].pw]
    BY <2>1, <2>2, RegisterIsTable DEF Table!Next
  <2> QED
    BY <1>1, <1>2, <2>2 DEF InsertUser, EmailIsFree, StoredHash, OnlyControl
<1>3. ASSUME NEW s \in Slots, CommitReset(s) PROVE Table!Next
  <2>1. /\ TypeOK /\ req[s].user \in Users /\ req[s].pw \in Passwords /\ req[s].token \in TokenIds
        /\ token[req[s].token].state # "unborn" /\ token[req[s].token].user = req[s].user
    BY <1>3 DEF RequestInv, RequestIsSound, WellFormed, TablesFit, Resetting, Deleting, CommitReset
  <2>2. password[req[s].user] \in Passwords
    BY <2>1 DEF RequestInv, TokensHaveOwners
  <2>3. password' = [password EXCEPT ![req[s].user] = req[s].pw]
    BY <1>3 DEF CommitReset, StoredHash
  <2> QED
    BY <2>1, <2>2, <2>3, ResetIsTable DEF Table!Next
<1>4. ASSUME NEW s \in Slots, Continue(s) PROVE Table!Next \/ UNCHANGED Rows
  BY <1>1, <1>2, <1>3, <1>4
  DEF Continue, RateLimited, SelectForRegister, SelectForLogin, InsertSession, DeleteSession,
      CommitLogout, FindSession, SelectForReset, InsertToken, SendMail, ValidateToken, SelectToken, FlushToken,
      FlushUser, DeleteSessions, DeleteRow, EndDelete, OnlyControl
<1> QED
  BY <1>1, <1>4 DEF Next, Begin, Receive, ExpireToken, Crash, vars

\* Requests, whatever they read before the COMMIT of another, do to a row only what
\* UserTable allows: the unique index has the last word on who registers, and a
\* reset rests on a token whose account has had a password ever since.
THEOREM RowsAreKept == Spec => ImplementsUserTable
<1> QED
  BY RequestInvariance, TableInit, TableStep, PTL DEF Spec, ImplementsUserTable, Table!Spec
=============================================================================
