------------------------------ MODULE Cookies ------------------------------
(***************************************************************************)
(* One browser's cookie jar, shared by its tabs, and the middleware that   *)
(* compares a header with one of the cookies (auth/csrf.py,                *)
(* auth/cookies.py, and what auth/router.py and auth/oauth.py set and      *)
(* delete).  Accounts has the endpoints themselves; here each runs in one  *)
(* step, and what matters is which cookies a request carries and in which  *)
(* order answers reach the jar.                                            *)
(*                                                                         *)
(* A tab first reads the csrf_token cookie for its header, then the        *)
(* browser sends the request with the cookies of that moment; answers come *)
(* in any order, or are lost.                                              *)
(***************************************************************************)
CONSTANTS
    Tokens,  \* names what one set_auth_cookies sets: a session and a csrf_token
    Slots,   \* requests that may be in flight at once
    Ops,     \* what tabs do
    None

\* "oauth" is the callback, a GET; "change" stands for every POST, PATCH and DELETE
\* of lists, items and shares, "read" for the GETs that need a session, "reset" for
\* the two POSTs of the password reset.
AllOps == {"login", "register", "oauth", "logout", "change", "reset", "read"}
ASSUME OpsAssumption == Ops \subseteq AllOps
ASSUME NoneAssumption == None \notin Tokens

VARIABLES
    jar,     \* the browser's two cookies
    live,    \* sessions: the valid ones
    drawn,   \* the tokens that were drawn
    req,     \* the request in each slot
    made,    \* history: the sessions that a sign-in made
    ended,   \* history: the sessions whose logout was answered
    raced    \* history: did an answer change the csrf_token cookie after the tab
             \* of this request had read it and before it was sent
vars == <<jar, live, drawn, req, made, ended, raced>>

Jar == [session : Tokens \cup {None}, csrf : Tokens \cup {None}]
Empty == [session |-> None, csrf |-> None]
SetCookies == {"nothing", "pair", "delete"}
Request == [pc : {"idle", "composed", "sent", "answered"}, op : AllOps,
            header : Tokens \cup {None},   \* X-CSRF-Token
            cookies : Jar,                 \* as they were sent
            new : Tokens \cup {None},      \* drawn by the handler
            set : SetCookies,              \* the Set-Cookie headers of the answer
            status : {0, 200, 201, 204, 302, 401, 403}]
Idle == [pc |-> "idle", op |-> "read", header |-> None, cookies |-> Empty, new |-> None,
         set |-> "nothing", status |-> 0]

\* What a request becomes at its three stations.
Composed(o, header) ==
    [pc |-> "composed", op |-> o, header |-> header, cookies |-> Empty, new |-> None,
     set |-> "nothing", status |-> 0]
Sent(q, cookies) ==
    [pc |-> "sent", op |-> q.op, header |-> q.header, cookies |-> cookies, new |-> None,
     set |-> "nothing", status |-> 0]
Answered(q, status, set, new) ==
    [pc |-> "answered", op |-> q.op, header |-> q.header, cookies |-> q.cookies, new |-> new,
     set |-> set, status |-> status]

Init ==
    /\ jar = Empty /\ live = {} /\ drawn = {} /\ made = {} /\ ended = {}
    /\ req = [s \in Slots |-> Idle]
    /\ raced = [s \in Slots |-> FALSE]

----------------------------------------------------------------------------
(* The browser. *)

\* Tabs send the header if there is a cookie to copy; other pages' forms, and
\* pages that never look at cookies, do not.
Compose(s) ==
    /\ req[s].pc = "idle"
    /\ \E op \in Ops, header \in {jar.csrf, None} :
          req' = [req EXCEPT ![s] = Composed(op, header)]
    /\ raced' = [raced EXCEPT ![s] = FALSE]
    /\ UNCHANGED <<jar, live, drawn, made, ended>>

Send(s) ==
    /\ req[s].pc = "composed"
    /\ req' = [req EXCEPT ![s] = Sent(@, jar)]
    /\ UNCHANGED <<jar, live, drawn, made, ended, raced>>

\* Mutant of AfterAnswer: the deletion takes the other cookie.
DeletesWrongCookie(q) ==
    CASE q.set = "pair" -> [session |-> q.new, csrf |-> q.new]
      [] q.set = "delete" -> [jar EXCEPT !.csrf = None]
      [] OTHER -> jar

\* Mutant of AfterAnswer: the session cookie is set, the csrf_token cookie is kept.
KeepsOldCsrf(q) ==
    CASE q.set = "pair" -> [session |-> q.new, csrf |-> IF jar.csrf = None THEN q.new ELSE jar.csrf]
      [] q.set = "delete" -> [session |-> None, csrf |-> jar.csrf]
      [] OTHER -> jar

\* The jar after the Set-Cookie headers of an answer.  set_auth_cookies sets both
\* cookies for the same time; logout deletes the session cookie only.
AfterAnswer(q) ==
    CASE q.set = "pair" -> [session |-> q.new, csrf |-> q.new]
      [] q.set = "delete" -> [session |-> None, csrf |-> jar.csrf]
      [] OTHER -> jar

Deliver(s) ==
    /\ req[s].pc = "answered"
    /\ jar' = AfterAnswer(req[s])
    /\ req' = [req EXCEPT ![s] = Idle]
    /\ raced' = [t \in Slots |-> raced[t] \/ (req[t].pc = "composed" /\ jar'.csrf # jar.csrf)]
    /\ UNCHANGED <<live, drawn, made, ended>>

\* The connection breaks: before the server has the request, or after.
Lose(s) ==
    /\ req[s].pc \in {"sent", "answered"}
    /\ req' = [req EXCEPT ![s] = Idle]
    /\ UNCHANGED <<jar, live, drawn, made, ended, raced>>

\* Both cookies of a pair have one max_age.
ExpireCookies ==
    /\ jar.csrf # None
    /\ jar' = Empty
    /\ raced' = [t \in Slots |-> raced[t] \/ req[t].pc = "composed"]
    /\ UNCHANGED <<live, drawn, req, made, ended>>

----------------------------------------------------------------------------
(* The server. *)

Mutating == {"login", "register", "logout", "change", "reset"}

\* Mutant of Exempt: every path under auth/ is exempt.
ExemptAuth == {"login", "register", "logout", "reset"}

Exempt == {"login", "register"}

\* Mutant of Passes: the header is compared with the other cookie.
ComparesSession(q) ==
    \/ q.op \notin Mutating \/ q.op \in Exempt
    \/ q.cookies.csrf = None
    \/ q.header = q.cookies.session

\* CSRFMiddleware.dispatch
Passes(q) ==
    \/ q.op \notin Mutating \/ q.op \in Exempt
    \/ q.cookies.csrf = None
    \/ q.header = q.cookies.csrf

Answer(s, status, set, new) == req' = [req EXCEPT ![s] = Answered(@, status, set, new)]

Refuse(s) ==
    /\ req[s].pc = "sent" /\ ~Passes(req[s])
    /\ Answer(s, 403, "nothing", None)
    /\ UNCHANGED <<jar, live, drawn, made, ended, raced>>

SignedIn(op) == CASE op = "login" -> 200 [] op = "register" -> 201 [] op = "oauth" -> 302

\* login, register of a free address and the OAuth callback: set_auth_cookies
\* with the token of create_session.
SignIn(s) ==
    /\ req[s].pc = "sent" /\ req[s].op \in {"login", "register", "oauth"} /\ Passes(req[s])
    /\ \E t \in Tokens \ drawn :
          /\ live' = live \cup {t} /\ drawn' = drawn \cup {t}
          /\ made' = made \cup {t}
          /\ Answer(s, SignedIn(req[s].op), "pair", t)
    /\ UNCHANGED <<jar, ended, raced>>

\* The cookies of a registration that is none hold a session nobody stored.
RegisterDuplicate(s) ==
    /\ req[s].pc = "sent" /\ req[s].op = "register" /\ Passes(req[s])
    /\ \E t \in Tokens \ drawn :
          /\ drawn' = drawn \cup {t}
          /\ Answer(s, 201, "pair", t)
    /\ UNCHANGED <<jar, live, made, ended, raced>>

FailSignIn(s) ==
    /\ req[s].pc = "sent" /\ req[s].op \in {"login", "oauth"} /\ Passes(req[s])
    /\ Answer(s, IF req[s].op = "oauth" THEN 302 ELSE 401, "nothing", None)
    /\ UNCHANGED <<jar, live, drawn, made, ended, raced>>

\* Mutant of Invalidated: the cookie's deletion is enough.
NotInvalidated(q) == {}

Invalidated(q) == {q.cookies.session}

LogOut(s) ==
    LET q == req[s] IN
    /\ q.pc = "sent" /\ q.op = "logout" /\ Passes(q)
    /\ live' = live \ Invalidated(q)
    /\ ended' = ended \cup ({q.cookies.session} \ {None})
    /\ Answer(s, 204, "delete", None)
    /\ UNCHANGED <<jar, drawn, made, raced>>

\* require_auth; the endpoints of a reset do without it.
Serve(s) ==
    LET q == req[s] IN
    /\ q.pc = "sent" /\ q.op \in {"change", "read", "reset"} /\ Passes(q)
    /\ Answer(s, IF q.op = "reset" \/ q.cookies.session \in live THEN 200 ELSE 401, "nothing", None)
    /\ UNCHANGED <<jar, live, drawn, made, ended, raced>>

\* A session's time is over, or a password reset deletes it.
EndSession ==
    /\ \E t \in live : live' = live \ {t}
    /\ UNCHANGED <<jar, drawn, req, made, ended, raced>>

Next ==
    \/ \E s \in Slots :
          \/ Compose(s) \/ Send(s) \/ Deliver(s) \/ Lose(s)
          \/ Refuse(s) \/ SignIn(s) \/ RegisterDuplicate(s) \/ FailSignIn(s) \/ LogOut(s) \/ Serve(s)
    \/ ExpireCookies \/ EndSession

Spec == Init /\ [][Next]_vars

----------------------------------------------------------------------------
TypeOK ==
    /\ jar \in Jar
    /\ live \subseteq drawn /\ drawn \subseteq Tokens /\ made \subseteq drawn /\ ended \subseteq Tokens
    /\ req \in [Slots -> Request]
    /\ raced \in [Slots -> BOOLEAN]

\* Whatever answers arrive, in whatever order, a session cookie in the jar has the
\* csrf_token cookie that was set with it: a late logout answer, a lost login answer
\* and a duplicate registration never leave one tab's session beside another's token.
JarIsPaired == jar.session = None \/ jar.csrf = jar.session

Handled(q) == q.pc = "answered" /\ q.status # 403

\* The cookie-presence exemption leaves no signed-in change unprotected: whatever
\* answers have reached the jar, and in whatever order, a handler of a mutating
\* endpoint that is not exempt runs with a session cookie only if the request
\* carried the header (auth/csrf.py:47-54).
SessionsNeedTheHeader ==
    \A s \in Slots :
        LET q == req[s] IN
        Handled(q) /\ q.op \in {"logout", "change", "reset"} /\ q.cookies.session # None =>
            q.header # None /\ q.header = q.cookies.csrf

\* A tab that copies the cookie is refused only if an answer, or the cookies' end,
\* came between its reading and its sending.
TabsAreRefusedInRacesOnly ==
    \A s \in Slots :
        req[s].pc = "answered" /\ req[s].status = 403 /\ req[s].header # None
            => raced[s]

\* Whoever is let in holds the session of a sign-in that has not been logged out:
\* the cookies of a duplicate registration, which look the same, open nothing
\* (auth/router.py:52-55), and "any subsequent request using the old session
\* cookie receives a 401" (docs/planning/prd-1-auth.md:123), even when a late
\* answer has put that cookie back into the jar.
OnlySignInsLetIn ==
    [][\A s \in Slots :
         req[s].pc = "sent" /\ req'[s].pc = "answered" /\ req[s].op \in {"change", "read"}
         => \/ req'[s].status \in {401, 403}
            \/ req[s].cookies.session \in made \ ended]_vars
=============================================================================
