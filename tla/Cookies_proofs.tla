--------------------------- MODULE Cookies_proofs ---------------------------
(***************************************************************************)
(* Theorems about Cookies, for every set of tokens and any number of       *)
(* requests in flight.                                                     *)
(*                                                                         *)
(* The invariant follows the two cookies from the jar into each request    *)
(* and says of each request what the middleware made of it.                *)
(***************************************************************************)
EXTENDS Cookies, TLAPS

Paired(cookies) == cookies.session = None \/ cookies.csrf = cookies.session
Known(t) == t \in drawn \cup {None}

\* Refused exactly if the middleware refuses.
JudgedRightly(q) ==
    q.pc = "answered" => (q.status # 403 <=> Passes(q))

\* The header is as old as the tab's look at the jar.
HeaderIsFresh(q, late) ==
    q.header # None /\ ~late =>
        /\ q.pc = "composed" => q.header = jar.csrf
        /\ q.pc \in {"sent", "answered"} => q.header = q.cookies.csrf

RequestIsSound(s) ==
    /\ Paired(req[s].cookies) /\ Known(req[s].cookies.session) /\ Known(req[s].new)
    /\ JudgedRightly(req[s])
    /\ HeaderIsFresh(req[s], raced[s])

SessionsAreSound ==
    live \subseteq made /\ ended \subseteq drawn /\ ended \cap live = {}

IInv ==
    /\ TypeOK
    /\ JarIsPaired /\ Known(jar.session)
    /\ SessionsAreSound
    /\ \A s \in Slots : RequestIsSound(s)

----------------------------------------------------------------------------
(* Fields and types of the records. *)

LEMMA IdleFields ==
    /\ Idle.pc = "idle" /\ Idle.header = None /\ Idle.cookies = Empty /\ Idle.new = None
    /\ Empty.session = None /\ Empty.csrf = None
    /\ Idle \in Request
BY NoneAssumption DEF Idle, Empty, Request, Jar, AllOps, SetCookies

LEMMA ComposedFields ==
    ASSUME NEW o \in AllOps, NEW header \in Tokens \cup {None}
    PROVE  LET q == Composed(o, header) IN
           /\ q.pc = "composed" /\ q.header = header /\ q.cookies = Empty /\ q.new = None
           /\ q \in Request
BY DEF Composed, Empty, Request, Jar, SetCookies

LEMMA SentFields ==
    ASSUME NEW r \in Request, NEW cookies \in Jar
    PROVE  LET q == Sent(r, cookies) IN
           /\ q.pc = "sent" /\ q.header = r.header /\ q.cookies = cookies /\ q.new = None
           /\ q.op = r.op /\ q \in Request
BY DEF Sent, Request, SetCookies

LEMMA AnsweredIsRequest ==
    \A r \in Request, status \in {200, 201, 204, 302, 401, 403},
       set \in SetCookies, new \in Tokens \cup {None} :
           Answered(r, status, set, new) \in Request
BY DEF Answered, Request

\* Whatever answer arrives, the jar stays a pair, and a jar.
LEMMA AnswersKeepPairs ==
    ASSUME jar \in Jar, JarIsPaired, Known(jar.session), NEW q \in Request, Known(q.new)
    PROVE  LET after == AfterAnswer(q) IN
           after \in Jar /\ Paired(after) /\ Known(after.session)
<1>1. jar.csrf \in Tokens \cup {None} /\ q.new \in Tokens \cup {None}
  BY DEF Jar, Request
<1>2. CASE q.set = "pair"
  BY <1>1, <1>2 DEF AfterAnswer, Jar, Paired, Known
<1>3. CASE q.set = "delete"
  BY <1>1, <1>3 DEF AfterAnswer, Jar, Paired, Known
<1>4. CASE q.set \notin {"pair", "delete"}
  BY <1>4 DEF AfterAnswer, Paired, JarIsPaired
<1> QED
  BY <1>2, <1>3, <1>4

----------------------------------------------------------------------------
(* What a step leaves alone. *)

\* A request that is as it was stays sound when the jar is as it was, or the tab
\* has seen another one and the step knows it.
LEMMA OthersStaySound ==
    ASSUME NEW s, RequestIsSound(s), UNCHANGED <<req[s]>>,
           drawn \subseteq drawn', made \subseteq made',
           \/ raced'[s] = raced[s] /\ jar'.csrf = jar.csrf
           \/ raced'[s] /\ req[s].pc = "composed"
           \/ raced'[s] = raced[s] /\ req[s].pc # "composed"
    PROVE  RequestIsSound(s)'
BY DEF RequestIsSound, Known, JudgedRightly, Passes, HeaderIsFresh, Paired

\* The step of one request that changes neither the jar nor the races.
LEMMA OneRequestMovesSoundly ==
    ASSUME IInv, NEW s \in Slots, NEW q \in Request,
           req' = [req EXCEPT ![s] = q], UNCHANGED <<jar, raced>>,
           drawn \subseteq drawn', made \subseteq made', made' \subseteq drawn',
           drawn' \subseteq Tokens, SessionsAreSound', RequestIsSound(s)'
    PROVE  IInv'
<1> USE DEF IInv
<1>1. req' \in [Slots -> Request]
  BY DEF TypeOK
<1>2. TypeOK'
  BY <1>1 DEF TypeOK, SessionsAreSound
<1>3. JarIsPaired' /\ Known(jar.session)'
  BY DEF JarIsPaired, Known
<1>4. ASSUME NEW t \in Slots, t # s PROVE RequestIsSound(t)'
  <2>1. UNCHANGED <<req[t]>>
    BY <1>4 DEF TypeOK
  <2> QED
    BY <2>1, OthersStaySound
<1> QED
  BY <1>2, <1>3, <1>4

LEMMA OneRequestMoves ==
    ASSUME IInv, NEW s \in Slots, NEW q \in Request,
           req' = [req EXCEPT ![s] = q], UNCHANGED <<jar, raced>>,
           drawn \subseteq drawn', made \subseteq made', made' \subseteq drawn',
           drawn' \subseteq Tokens, SessionsAreSound',
           Paired(q.cookies), Known(q.cookies.session), Known(q.new)',
           JudgedRightly(q)', HeaderIsFresh(q, raced[s])
    PROVE  IInv'
<1>1. req'[s] = q
  BY DEF IInv, TypeOK
<1>2. RequestIsSound(s)'
  BY <1>1 DEF RequestIsSound, Known, HeaderIsFresh, Paired
<1> QED
  BY <1>2, OneRequestMovesSoundly
----------------------------------------------------------------------------
(* The browser's steps. *)

LEMMA InitHolds == Init => IInv
<1> SUFFICES ASSUME Init PROVE IInv
  OBVIOUS
<1> HIDE DEF Idle, Empty
<1>1. jar = Empty /\ Empty \in Jar
  BY NoneAssumption DEF Init, Empty, Jar
<1>2. TypeOK
  BY <1>1, IdleFields DEF Init, TypeOK
<1>3. \A s \in Slots : req[s] = Idle /\ raced[s] = FALSE
  BY DEF Init
<1>4. \A s \in Slots : RequestIsSound(s)
  BY <1>3, IdleFields DEF RequestIsSound, Paired, Known, JudgedRightly, HeaderIsFresh
<1> QED
  BY <1>1, <1>2, <1>4, IdleFields DEF IInv, Init, SessionsAreSound, JarIsPaired, Known

LEMMA ComposeHolds ==
    ASSUME IInv, NEW s \in Slots, Compose(s)
    PROVE  IInv'
<1>1. PICK o \in Ops, header \in {jar.csrf, None} :
           req' = [req EXCEPT ![s] = Composed(o, header)]
  BY DEF Compose
<1> DEFINE q == Composed(o, header)
<1>2. /\ q.pc = "composed" /\ q.header = header /\ q.cookies = Empty /\ q.new = None
      /\ q \in Request
  BY ComposedFields, OpsAssumption DEF IInv, TypeOK, Jar
<1> HIDE DEF q
<1>3. /\ req' = [req EXCEPT ![s] = q] /\ raced' = [raced EXCEPT ![s] = FALSE]
      /\ UNCHANGED <<jar, live, drawn, made, ended>>
  BY <1>1 DEF Compose, q
<1>4. req' \in [Slots -> Request] /\ req'[s] = q /\ raced' \in [Slots -> BOOLEAN]
  BY <1>2, <1>3 DEF IInv, TypeOK
<1>5. TypeOK' /\ JarIsPaired' /\ Known(jar.session)' /\ SessionsAreSound'
  BY <1>3, <1>4 DEF IInv, TypeOK, JarIsPaired, Known, SessionsAreSound
<1>6. RequestIsSound(s)'
  BY <1>2, <1>3, <1>4, IdleFields DEF RequestIsSound, Paired, Known, JudgedRightly, HeaderIsFresh
<1>7. ASSUME NEW t \in Slots, t # s PROVE RequestIsSound(t)'
  <2>1. UNCHANGED <<req[t]>> /\ raced'[t] = raced[t] /\ jar'.csrf = jar.csrf
    BY <1>3, <1>7 DEF IInv, TypeOK
  <2> QED
    BY <1>3, <2>1, OthersStaySound DEF IInv
<1> QED
  BY <1>5, <1>6, <1>7 DEF IInv

LEMMA SendHolds ==
    ASSUME IInv, NEW s \in Slots, Send(s)
    PROVE  IInv'
<1>1. Sent(req[s], jar) \in Request
  BY SentFields DEF IInv, TypeOK
<1> PICK q \in Request : q = Sent(req[s], jar)
  BY <1>1
<1>2. /\ q.pc = "sent" /\ q.header = req[s].header /\ q.cookies = jar /\ q.new = None
      /\ req' = [req EXCEPT ![s] = q]
  BY SentFields DEF IInv, TypeOK, Send
<1>3. req[s].pc = "composed" /\ UNCHANGED <<jar, live, drawn, made, ended, raced>>
  BY DEF Send
<1>4. HeaderIsFresh(q, raced[s])
  BY <1>2, <1>3 DEF IInv, RequestIsSound, HeaderIsFresh
<1>5. Paired(q.cookies) /\ Known(q.cookies.session) /\ Known(q.new)' /\ JudgedRightly(q)'
  BY <1>2 DEF IInv, JarIsPaired, Paired, Known, JudgedRightly
<1>6. SessionsAreSound' /\ made' \subseteq drawn' /\ drawn' \subseteq Tokens
  BY <1>3 DEF IInv, SessionsAreSound, TypeOK
<1> QED
  BY <1>2, <1>3, <1>4, <1>5, <1>6, OneRequestMoves

LEMMA LoseHolds ==
    ASSUME IInv, NEW s \in Slots, Lose(s)
    PROVE  IInv'
<1> HIDE DEF Idle
<1>1. req' = [req EXCEPT ![s] = Idle] /\ UNCHANGED <<jar, live, drawn, made, ended, raced>>
  BY DEF Lose
<1>2. /\ Paired(Idle.cookies) /\ Known(Idle.cookies.session) /\ Known(Idle.new)'
      /\ JudgedRightly(Idle)' /\ HeaderIsFresh(Idle, raced[s])
  BY IdleFields DEF Paired, Known, JudgedRightly, HeaderIsFresh
<1>3. SessionsAreSound' /\ made' \subseteq drawn' /\ drawn' \subseteq Tokens
  BY <1>1 DEF IInv, SessionsAreSound, TypeOK
<1> QED
  BY <1>1, <1>2, <1>3, IdleFields, OneRequestMoves

\* The other requests either had not been sent, and then know of the new csrf_token,
\* or carry the cookies of their own moment.
LEMMA DeliverHolds ==
    ASSUME IInv, NEW s \in Slots, Deliver(s)
    PROVE  IInv'
<1> HIDE DEF Idle
<1>1. /\ jar' = AfterAnswer(req[s]) /\ req' = [req EXCEPT ![s] = Idle]
      /\ raced' = [t \in Slots |-> raced[t] \/ (req[t].pc = "composed" /\ jar'.csrf # jar.csrf)]
      /\ UNCHANGED <<live, drawn, made, ended>>
  BY DEF Deliver
<1>2. jar' \in Jar /\ JarIsPaired' /\ Known(jar.session)'
  BY <1>1, AnswersKeepPairs DEF IInv, TypeOK, RequestIsSound, JarIsPaired, Paired, Known
<1>3. req' \in [Slots -> Request] /\ req'[s] = Idle /\ raced' \in [Slots -> BOOLEAN]
  BY <1>1, IdleFields DEF IInv, TypeOK
<1>4. TypeOK' /\ SessionsAreSound'
  BY <1>1, <1>2, <1>3 DEF IInv, TypeOK, SessionsAreSound
<1>5. RequestIsSound(s)'
  BY <1>3, IdleFields DEF RequestIsSound, Paired, Known, JudgedRightly, HeaderIsFresh
<1>6. ASSUME NEW t \in Slots, t # s PROVE RequestIsSound(t)'
  <2>1. UNCHANGED <<req[t]>> /\ raced[t] \in BOOLEAN
    BY <1>1, <1>6 DEF IInv, TypeOK
  <2>2. raced'[t] = (raced[t] \/ (req[t].pc = "composed" /\ jar'.csrf # jar.csrf))
    BY <1>1
  <2>3. \/ raced'[t] = raced[t] /\ jar'.csrf = jar.csrf
        \/ raced'[t] /\ req[t].pc = "composed"
        \/ raced'[t] = raced[t] /\ req[t].pc # "composed"
    BY <2>1, <2>2
  <2> QED
    BY <1>1, <2>1, <2>3, OthersStaySound DEF IInv
<1> QED
  BY <1>2, <1>4, <1>5, <1>6 DEF IInv

LEMMA ExpireCookiesHolds == IInv /\ ExpireCookies => IInv'
<1> SUFFICES ASSUME IInv, ExpireCookies PROVE IInv'
  OBVIOUS
<1> HIDE DEF Empty
<1>1. /\ jar' = Empty /\ raced' = [t \in Slots |-> raced[t] \/ req[t].pc = "composed"]
      /\ UNCHANGED <<live, drawn, req, made, ended>>
  BY DEF ExpireCookies
<1>2. Empty \in Jar /\ JarIsPaired' /\ Known(jar.session)'
  BY <1>1, IdleFields DEF JarIsPaired, Known, Empty, Jar
<1>3. TypeOK' /\ SessionsAreSound'
  BY <1>1, <1>2 DEF IInv, TypeOK, SessionsAreSound
<1>4. ASSUME NEW t \in Slots PROVE RequestIsSound(t)'
  <2>1. UNCHANGED <<req[t]>> /\ raced[t] \in BOOLEAN
    BY <1>1 DEF IInv, TypeOK
  <2>2. raced'[t] = (raced[t] \/ req[t].pc = "composed")
    BY <1>1
  <2>3. \/ raced'[t] /\ req[t].pc = "composed"
        \/ raced'[t] = raced[t] /\ req[t].pc # "composed"
    BY <2>1, <2>2
  <2> QED
    BY <1>1, <2>1, <2>3, OthersStaySound DEF IInv
<1> QED
  BY <1>2, <1>3, <1>4 DEF IInv
----------------------------------------------------------------------------
(* The server's steps. *)

\* An answer keeps the cookies and the header of its request; it is sound if the
\* middleware has judged as it says and whoever is let in has signed in.
LEMMA AnswerHolds ==
    ASSUME IInv, NEW s \in Slots, NEW status \in {200, 201, 204, 302, 401, 403},
           NEW set \in SetCookies, NEW new \in Tokens \cup {None}
    PROVE  /\ req[s].pc = "sent" /\ Answer(s, status, set, new) /\ UNCHANGED <<jar, raced>>
           /\ drawn \subseteq drawn' /\ made \subseteq made' /\ made' \subseteq drawn'
           /\ drawn' \subseteq Tokens /\ SessionsAreSound' /\ Known(new)'
           /\ status # 403 <=> Passes(req[s])
           => IInv'
<1> DEFINE a == Answered(req[s], status, set, new)
<1>1. /\ a.pc = "answered" /\ a.header = req[s].header /\ a.cookies = req[s].cookies
      /\ a.new = new /\ a.op = req[s].op /\ a.status = status
  BY DEF Answered
<1>2. req[s] \in Request
  BY DEF IInv, TypeOK
<1>3. a \in Request
  BY <1>2, AnsweredIsRequest
<1> HIDE DEF a
<1> PICK q \in Request : q = a
  BY <1>3
<1> SUFFICES ASSUME req[s].pc = "sent", Answer(s, status, set, new), UNCHANGED <<jar, raced>>,
                    drawn \subseteq drawn', made \subseteq made', made' \subseteq drawn',
                    drawn' \subseteq Tokens, SessionsAreSound', Known(new)',
                    status # 403 <=> Passes(req[s])
             PROVE  IInv'
  OBVIOUS
<1>4. /\ q.pc = "answered" /\ q.header = req[s].header /\ q.cookies = req[s].cookies
      /\ q.new = new /\ q.op = req[s].op /\ q.status = status
  BY <1>1
<1>5. req' = [req EXCEPT ![s] = q]
  BY DEF Answer, a
<1>6. Paired(q.cookies) /\ Known(q.cookies.session) /\ HeaderIsFresh(q, raced[s])
  BY <1>4 DEF IInv, RequestIsSound, HeaderIsFresh
<1>7. JudgedRightly(q)'
  BY <1>4 DEF JudgedRightly, Passes
<1>8. Known(q.new)'
  BY <1>4
<1>9. req'[s] = q
  BY <1>5 DEF IInv, TypeOK
<1>10. RequestIsSound(s)'
  BY <1>6, <1>7, <1>8, <1>9 DEF RequestIsSound, Known, HeaderIsFresh, Paired
<1> QED
  BY <1>5, <1>10, OneRequestMovesSoundly

LEMMA SilentAnswerHolds ==
    ASSUME IInv, NEW s \in Slots, req[s].pc = "sent",
           NEW status \in {200, 201, 204, 302, 401, 403}, Answer(s, status, "nothing", None),
           UNCHANGED <<jar, live, drawn, made, ended, raced>>,
           status # 403 <=> Passes(req[s])
    PROVE  IInv'
<1>1. SessionsAreSound' /\ made' \subseteq drawn' /\ drawn' \subseteq Tokens
  BY DEF IInv, SessionsAreSound, TypeOK
<1>2. "nothing" \in SetCookies /\ Known(None)'
  BY DEF SetCookies, Known
<1> QED
  BY <1>1, <1>2, AnswerHolds

LEMMA ServerHolds ==
    ASSUME IInv, NEW s \in Slots,
           Refuse(s) \/ SignIn(s) \/ RegisterDuplicate(s) \/ FailSignIn(s) \/ LogOut(s) \/ Serve(s)
    PROVE  IInv'
<1>1. CASE Refuse(s)
  BY <1>1, SilentAnswerHolds DEF Refuse
<1>2. CASE SignIn(s)
  <2>1. PICK t \in Tokens \ drawn :
            /\ live' = live \cup {t} /\ drawn' = drawn \cup {t} /\ made' = made \cup {t}
            /\ Answer(s, SignedIn(req[s].op), "pair", t)
    BY <1>2 DEF SignIn
  <2>2. SignedIn(req[s].op) \in {200, 201, 302}
    BY <1>2 DEF SignIn, SignedIn
  <2>3. SessionsAreSound' /\ made' \subseteq drawn' /\ drawn' \subseteq Tokens
    BY <1>2, <2>1 DEF SignIn, IInv, SessionsAreSound, TypeOK
  <2>4. "pair" \in SetCookies /\ Known(t)'
    BY <2>1 DEF SetCookies, Known
  <2> QED
    BY <1>2, <2>1, <2>2, <2>3, <2>4, AnswerHolds DEF SignIn
\* The token of a registration that is none is drawn, and no session.
<1>3. CASE RegisterDuplicate(s)
  <2>1. PICK t \in Tokens \ drawn :
            /\ live' = live /\ drawn' = drawn \cup {t} /\ Answer(s, 201, "pair", t)
    BY <1>3 DEF RegisterDuplicate
  <2>2. SessionsAreSound' /\ made' \subseteq drawn' /\ drawn' \subseteq Tokens
    BY <1>3, <2>1 DEF RegisterDuplicate, IInv, SessionsAreSound, TypeOK
  <2>3. "pair" \in SetCookies /\ Known(t)'
    BY <2>1 DEF SetCookies, Known
  <2> QED
    BY <1>3, <2>1, <2>2, <2>3, AnswerHolds DEF RegisterDuplicate
<1>4. CASE FailSignIn(s)
  <2>1. PICK status \in {302, 401} : Answer(s, status, "nothing", None)
    BY <1>4 DEF FailSignIn
  <2> QED
    BY <1>4, <2>1, SilentAnswerHolds DEF FailSignIn
\* The session that ends is one that was drawn.
<1>5. CASE LogOut(s)
  <2>1. /\ live' = live \ {req[s].cookies.session}
        /\ ended' = ended \cup ({req[s].cookies.session} \ {None})
        /\ Answer(s, 204, "delete", None) /\ UNCHANGED <<jar, drawn, made, raced>>
    BY <1>5 DEF LogOut, Invalidated
  <2>2. req[s].cookies.session \in drawn \cup {None}
    BY DEF IInv, RequestIsSound, Known
  <2>3. SessionsAreSound' /\ made' \subseteq drawn' /\ drawn' \subseteq Tokens
    BY <2>1, <2>2 DEF IInv, SessionsAreSound, TypeOK
  <2>4. "delete" \in SetCookies /\ Known(None)'
    BY DEF SetCookies, Known
  <2> QED
    BY <1>5, <2>1, <2>3, <2>4, AnswerHolds DEF LogOut
<1>6. CASE Serve(s)
  <2>1. PICK status \in {200, 401} : Answer(s, status, "nothing", None)
    BY <1>6 DEF Serve
  <2> QED
    BY <1>6, <2>1, SilentAnswerHolds DEF Serve
<1> QED
  BY <1>1, <1>2, <1>3, <1>4, <1>5, <1>6

LEMMA EndSessionHolds == IInv /\ EndSession => IInv'
<1> SUFFICES ASSUME IInv, EndSession PROVE IInv'
  OBVIOUS
<1>1. live' \subseteq live /\ UNCHANGED <<jar, drawn, req, made, ended, raced>>
  BY DEF EndSession
<1>2. TypeOK' /\ JarIsPaired' /\ Known(jar.session)' /\ SessionsAreSound'
  BY <1>1 DEF IInv, TypeOK, JarIsPaired, Known, SessionsAreSound
<1>3. ASSUME NEW t \in Slots PROVE RequestIsSound(t)'
  BY <1>1, OthersStaySound DEF IInv
<1> QED
  BY <1>2, <1>3 DEF IInv

LEMMA StutterHolds == IInv /\ UNCHANGED vars => IInv'
BY DEF vars, IInv, TypeOK, JarIsPaired, Known, SessionsAreSound, RequestIsSound,
       JudgedRightly, HeaderIsFresh, Passes, Paired

LEMMA StepHolds == IInv /\ [Next]_vars => IInv'
<1> SUFFICES ASSUME IInv, [Next]_vars PROVE IInv'
  OBVIOUS
<1>1. ASSUME NEW s \in Slots, Compose(s) \/ Send(s) \/ Deliver(s) \/ Lose(s) PROVE IInv'
  BY <1>1, ComposeHolds, SendHolds, DeliverHolds, LoseHolds
<1>2. CASE ExpireCookies \/ EndSession
  BY <1>2, ExpireCookiesHolds, EndSessionHolds
<1>3. CASE UNCHANGED vars
  BY <1>3, StutterHolds
<1> QED
  BY <1>1, <1>2, <1>3, ServerHolds DEF Next

----------------------------------------------------------------------------
(* What the invariant says of requests and steps. *)

LEMMA HeadersWereThere == IInv => SessionsNeedTheHeader
<1> SUFFICES ASSUME IInv, NEW s \in Slots, Handled(req[s]),
                    req[s].op \in {"logout", "change", "reset"}, req[s].cookies.session # None
             PROVE  req[s].header # None /\ req[s].header = req[s].cookies.csrf
  BY DEF SessionsNeedTheHeader
<1>1. Passes(req[s]) /\ Paired(req[s].cookies)
  BY DEF IInv, RequestIsSound, JudgedRightly, Handled
<1> QED
  BY <1>1 DEF Passes, Paired, Mutating, Exempt

LEMMA RefusedWereRaced == IInv => TabsAreRefusedInRacesOnly
<1> SUFFICES ASSUME IInv, NEW s \in Slots, req[s].pc = "answered", req[s].status = 403,
                    req[s].header # None, ~raced[s]
             PROVE  FALSE
  BY DEF TabsAreRefusedInRacesOnly, IInv, TypeOK
<1>1. ~Passes(req[s]) /\ req[s].header = req[s].cookies.csrf
  BY DEF IInv, RequestIsSound, JudgedRightly, HeaderIsFresh
<1> QED
  BY <1>1 DEF Passes

OthersAreRefused ==
    \A s \in Slots :
        req[s].pc = "sent" /\ req'[s].pc = "answered" /\ req[s].op \in {"change", "read"}
        => \/ req'[s].status \in {401, 403}
           \/ req[s].cookies.session \in made \ ended

\* The slot that is answered is the one whose handler runs.
LEMMA OnlyOneIsAnswered ==
    ASSUME IInv, NEW s \in Slots, NEW t \in Slots, NEW status, NEW set, NEW new,
           req[s].pc = "sent", req'[s].pc = "answered", Answer(t, status, set, new)
    PROVE  t = s
<1>1. t # s => req'[s] = req[s]
  BY DEF Answer, IInv, TypeOK
<1> QED
  BY <1>1

LEMMA StepsRefuseOthers == IInv /\ [Next]_vars => [OthersAreRefused]_vars
<1> SUFFICES ASSUME IInv, Next, NEW s \in Slots,
                    req[s].pc = "sent", req'[s].pc = "answered",
                    req[s].op \in {"change", "read"},
                    req[s].cookies.session \notin made \ ended
             PROVE  req'[s].status \in {401, 403}
  BY DEF OthersAreRefused
<1>1. req[s].cookies.session \notin live
  BY DEF IInv, SessionsAreSound
<1>2. ASSUME NEW t \in Slots, Serve(t) \/ Refuse(t) PROVE req'[s].status \in {401, 403}
  <2>1. PICK status \in {200, 401, 403} :
            /\ Answer(t, status, "nothing", None)
            /\ status = 200 => req[t].op = "reset" \/ req[t].cookies.session \in live
    BY <1>2 DEF Serve, Refuse
  <2>2. t = s
    BY <2>1, OnlyOneIsAnswered
  <2>3. req'[s] = Answered(req[s], status, "nothing", None)
    BY <2>1, <2>2 DEF Answer, IInv, TypeOK
  <2> QED
    BY <1>1, <2>1, <2>2, <2>3 DEF Answered
<1>3. ASSUME NEW t \in Slots, SignIn(t) \/ RegisterDuplicate(t) \/ FailSignIn(t) \/ LogOut(t)
      PROVE  FALSE
  <2>1. PICK status, set, new : Answer(t, status, set, new)
    BY <1>3 DEF SignIn, RegisterDuplicate, FailSignIn, LogOut
  <2>2. t = s
    BY <2>1, OnlyOneIsAnswered
  <2> QED
    BY <1>3, <2>2 DEF SignIn, RegisterDuplicate, FailSignIn, LogOut
<1>4. ASSUME NEW t \in Slots, Compose(t) \/ Send(t) \/ Deliver(t) \/ Lose(t) PROVE FALSE
  <2> HIDE DEF Idle
  <2>1. PICK q : req' = [req EXCEPT ![t] = q] /\ q.pc # "answered"
    BY <1>4, IdleFields DEF Compose, Send, Deliver, Lose, Composed, Sent
  <2>2. req'[s] = q \/ req'[s] = req[s]
    BY <2>1 DEF IInv, TypeOK
  <2> QED
    BY <2>1, <2>2
<1>5. CASE ExpireCookies \/ EndSession
  BY <1>5 DEF ExpireCookies, EndSession
<1> QED
  BY <1>2, <1>3, <1>4, <1>5 DEF Next

----------------------------------------------------------------------------
LEMMA Invariance == Spec => []IInv
BY InitHolds, StepHolds, PTL DEF Spec

\* The jar, the requests and the sessions keep their types.
THEOREM CookieTypes == Spec => []TypeOK
<1>1. IInv => TypeOK
  BY DEF IInv
<1> QED
  BY <1>1, Invariance, PTL

\* set_auth_cookies and delete_cookie, in whatever order their answers arrive,
\* never leave a session in the jar beside another's csrf_token.
THEOREM JarStaysPaired == Spec => []JarIsPaired
<1>1. IInv => JarIsPaired
  BY DEF IInv
<1> QED
  BY <1>1, Invariance, PTL

\* No request with a session cookie changes anything without the header
\* (CSRFMiddleware.dispatch with its cookie-presence exemption).
THEOREM HeaderIsNeeded == Spec => []SessionsNeedTheHeader
BY HeadersWereThere, Invariance, PTL

\* A tab that copies the cookie is refused in a race only.
THEOREM HonestTabsPass == Spec => []TabsAreRefusedInRacesOnly
BY RefusedWereRaced, Invariance, PTL

\* Cookies of a duplicate registration, of no session or of one that was logged
\* out let nobody in, whatever the jar holds (require_auth).
THEOREM StrangersStayOut == Spec => OnlySignInsLetIn
<1>1. IInv /\ [Next]_vars => [OthersAreRefused]_vars
  BY StepsRefuseOthers
<1>2. Spec => [][OthersAreRefused]_vars
  BY <1>1, Invariance, PTL DEF Spec
<1> QED
  BY <1>2 DEF OnlySignInsLetIn, OthersAreRefused
=============================================================================
