------------------------------- MODULE OAuth -------------------------------
(***************************************************************************)
(* Signing in with Google (auth/oauth.py): the state nonce that ties a     *)
(* callback to the browser that asked for it, and the row of users that is *)
(* found, linked or inserted for a Google account.                         *)
(*                                                                         *)
(* A callback is a coroutine cut at its awaits: "exchange" is the POST of  *)
(* the code to Google, "select" the SELECT of the user, "insert" and       *)
(* "link" the COMMIT of a new row and of a new google_sub, "session" the   *)
(* COMMIT of create_session.  Google itself, register and the completion   *)
(* of a password reset are each one action: what they commit meanwhile is  *)
(* all that a callback sees of them (Accounts has them in full).           *)
(***************************************************************************)
EXTENDS Naturals, FiniteSets

CONSTANTS
    Browsers,   \* cookie jars
    Nonces,     \* what secrets.token_urlsafe may draw; names the flow, too
    Subs,       \* Google accounts
    Mails,      \* e-mail addresses
    Passwords,  \* of local accounts
    Slots,      \* callbacks that may be in flight at once
    None, Spent

ASSUME NoneAssumption ==
    /\ None \notin Nonces \cup Subs \cup Mails \cup Passwords \cup Browsers
    /\ Spent \notin Subs \cup {None}

VARIABLES
    user,     \* users: the row of each address, which is unique, or NoRow
    mail,     \* Google: the verified address of each account
    cookie,   \* the oauth_state_nonce cookie of each browser
    starter,  \* the browser that a nonce was drawn for, or None
    code,     \* Google: the account that consented in the flow of a nonce,
              \* None before, Spent once its code has been exchanged
    flow,     \* the callback in each slot
    known,    \* history: was the callback's Google account linked already when
              \* its code was exchanged
    relocated \* history: has a Google account ever got another address
vars == <<user, mail, cookie, starter, code, flow, known, relocated>>

NoRow == [sub |-> None, password |-> None]
Row == [sub : Subs \cup {None}, password : Passwords \cup {None}]

Awaits == {"exchange", "select", "insert", "link", "session"}
Answers == {"none", "cancelled", "failed", "invalid", "dashboard", "error", "down"}
Flow == [pc : Awaits \cup {"idle", "done"},
         browser : Browsers \cup {None},
         state   : Nonces \cup {None},   \* the nonce of the signed state
         code    : Nonces \cup {None},   \* the flow the code was issued in
         sub     : Subs \cup {None},     \* claims of the verified id_token
         mail    : Mails \cup {None},
         account : Mails \cup {None},    \* the row found or inserted
         status  : Answers]
Opened(pc, b, n, c, status) ==
    [pc |-> pc, browser |-> b, state |-> n, code |-> c,
     sub |-> None, mail |-> None, account |-> None, status |-> status]
Idle == Opened("idle", None, None, None, "none")

\* No two Google accounts share an address.
Addresses == {f \in [Subs -> Mails] : \A g, h \in Subs : f[g] = f[h] => g = h}

\* The process starts with the rows that earlier registrations and sign-ins have
\* left.
Init ==
    /\ mail \in Addresses
    /\ user \in {rows \in [Mails -> Row] :
                  \A m \in Mails : rows[m].sub # None => mail[rows[m].sub] = m}
    /\ cookie = [b \in Browsers |-> None]
    /\ starter = [n \in Nonces |-> None]
    /\ code = [n \in Nonces |-> None]
    /\ flow = [s \in Slots |-> Idle]
    /\ known = [s \in Slots |-> FALSE]
    /\ relocated = FALSE

----------------------------------------------------------------------------
(* The browser and Google, before the callback. *)

\* oauth_google_initiate: a second one overwrites the cookie of the first.
Initiate(b, n) ==
    /\ starter[n] = None
    /\ starter' = [starter EXCEPT ![n] = b]
    /\ cookie' = [cookie EXCEPT ![b] = n]
    /\ UNCHANGED <<user, mail, code, flow, known, relocated>>

\* The cookie lives for _NONCE_TTL seconds; the signed state has no expiry.
ExpireCookie(b) ==
    /\ cookie[b] # None
    /\ cookie' = [cookie EXCEPT ![b] = None]
    /\ UNCHANGED <<user, mail, starter, code, flow, known, relocated>>

Consent(n, g) ==
    /\ starter[n] # None /\ code[n] = None
    /\ code' = [code EXCEPT ![n] = g]
    /\ UNCHANGED <<user, mail, cookie, starter, flow, known, relocated>>

\* Google accounts get other addresses, but none during the seconds of a callback.
MoveMails ==
    /\ \A s \in Slots : flow[s].pc \notin Awaits
    /\ mail' \in Addresses \ {mail}
    /\ relocated' = TRUE
    /\ UNCHANGED <<user, cookie, starter, code, flow, known>>

----------------------------------------------------------------------------
(* What else changes users: register and password_reset_complete. *)

Exists(m) == user[m] # NoRow

Register(m, p) ==
    /\ ~Exists(m)
    /\ user' = [user EXCEPT ![m].password = p]
    /\ UNCHANGED <<mail, cookie, starter, code, flow, known, relocated>>

ResetPassword(m, p) ==
    /\ user[m].password \notin {None, p}
    /\ user' = [user EXCEPT ![m].password = p]
    /\ UNCHANGED <<mail, cookie, starter, code, flow, known, relocated>>

----------------------------------------------------------------------------
(* oauth_google_callback *)

Goto(s, pc) == flow' = [flow EXCEPT ![s].pc = pc]
Answer(s, status) == flow' = [flow EXCEPT ![s].pc = "done", ![s].status = status]
NoWrite == UNCHANGED <<user, mail, cookie, starter, code, known, relocated>>

\* Mutant of StateIsBound: any state with a good signature will do.
StateIsSigned(b, n) == n # None

\* The nonce of the signed state must be the one in the browser's cookie; a
\* state that is absent or not signed here is None.
StateIsBound(b, n) == n # None /\ n = cookie[b]

\* A callback URL may come with any state and any code, in any browser.
Callback(s, b, n, c) ==
    LET Becomes(pc, status) == flow' = [flow EXCEPT ![s] = Opened(pc, b, n, c, status)] IN
    /\ flow[s].pc = "idle"
    /\ n # None => starter[n] # None
    /\ \/ c = None /\ Becomes("done", "cancelled")
       \/ c # None /\ ~StateIsBound(b, n) /\ Becomes("done", "invalid")
       \/ c # None /\ StateIsBound(b, n) /\ Becomes("exchange", "none")
    /\ NoWrite

\* Google answers the exchange and the id_token is verified: its signature,
\* email_verified, and the presence of sub and email.
ExchangeSucceeds(s) ==
    LET g == code[flow[s].code] IN
    /\ flow[s].pc = "exchange" /\ g \in Subs
    /\ code' = [code EXCEPT ![flow[s].code] = Spent]
    /\ flow' = [flow EXCEPT ![s].pc = "select", ![s].sub = g, ![s].mail = mail[g]]
    /\ known' = [known EXCEPT ![s] = \E m \in Mails : user[m].sub = g]
    /\ UNCHANGED <<user, mail, cookie, starter, relocated>>

\* The code is not good, or the id_token is not; or Google is out of reach,
\* which the handler does not catch.
ExchangeFails(s) ==
    /\ flow[s].pc = "exchange"
    /\ Answer(s, "failed") \/ Answer(s, "down")
    /\ NoWrite

\* Mutant of Matches: only the address is looked at.
MatchesByMail(g, m) == {a \in Mails : Exists(a) /\ a = m}

\* Mutant of Matches: only accounts that are still to be linked are looked at.
MatchesUnlinked(g, m) == {a \in Mails : Exists(a) /\ a = m /\ user[a].sub = None}

Matches(g, m) == {a \in Mails : Exists(a) /\ (user[a].sub = g \/ a = m)}

\* scalar_one_or_none raises when there are two rows; nobody catches it.
SelectUser(s) ==
    LET q == flow[s]
        found == Matches(q.sub, q.mail)
    IN  /\ q.pc = "select"
        /\ \/ /\ found = {}
              /\ Goto(s, "insert")
           \/ \E a \in found :
                /\ found = {a}
                /\ flow' = [flow EXCEPT ![s].pc = IF user[a].sub = None THEN "link" ELSE "session",
                                        ![s].account = a]
           \/ Cardinality(found) > 1 /\ Answer(s, "error")
        /\ NoWrite

\* The unique index on google_sub.
SubIsFree(g) == \A a \in Mails : user[a].sub # g

\* A new row, unless its address or its google_sub is taken by now; the
\* IntegrityError is not caught.
InsertUser(s) ==
    LET q == flow[s] IN
    /\ q.pc = "insert"
    /\ \/ /\ ~Exists(q.mail) /\ SubIsFree(q.sub)
          /\ user' = [user EXCEPT ![q.mail].sub = q.sub]
          /\ flow' = [flow EXCEPT ![s].pc = "session", ![s].account = q.mail]
          /\ UNCHANGED <<mail, cookie, starter, code, known, relocated>>
       \/ (Exists(q.mail) \/ ~SubIsFree(q.sub)) /\ Answer(s, "error") /\ NoWrite

\* Mutant of Linked: the assignment is forgotten.
NotLinked(q) == user[q.account]

\* Mutant of Linked: the row is replaced by one made from the claims.
LinkedAnew(q) == [sub |-> q.sub, password |-> None]

\* The UPDATE sets google_sub and nothing else.
Linked(q) == [user[q.account] EXCEPT !.sub = q.sub]

\* The unique index again; only an address that moves during the callback could
\* put the account on another row after the SELECT.
LinkUser(s) ==
    LET q == flow[s] IN
    /\ q.pc = "link"
    /\ IF \E a \in Mails \ {q.account} : user[a].sub = q.sub
       THEN Answer(s, "error") /\ NoWrite
       ELSE /\ user' = [user EXCEPT ![q.account] = Linked(q)]
            /\ Goto(s, "session")
            /\ UNCHANGED <<mail, cookie, starter, code, known, relocated>>

\* create_session, and the redirect that carries the session cookie.
CreateSession(s) ==
    /\ flow[s].pc = "session"
    /\ Answer(s, "dashboard")
    /\ NoWrite

\* The browser follows the redirect.
Receive(s) ==
    /\ flow[s].pc = "done"
    /\ flow' = [flow EXCEPT ![s] = Idle]
    /\ known' = [known EXCEPT ![s] = FALSE]
    /\ UNCHANGED <<user, mail, cookie, starter, code, relocated>>

\* The process dies: callbacks in flight are lost, what they committed is not.
Crash ==
    /\ \E s \in Slots : flow[s].pc \in Awaits
    /\ flow' = [s \in Slots |-> IF flow[s].pc \in Awaits THEN Idle ELSE flow[s]]
    /\ known' = [s \in Slots |-> known[s] /\ flow[s].pc \notin Awaits]
    /\ UNCHANGED <<user, mail, cookie, starter, code, relocated>>

Continue(s) == ExchangeSucceeds(s) \/ ExchangeFails(s) \/ SelectUser(s) \/ InsertUser(s)
               \/ LinkUser(s) \/ CreateSession(s)

Next ==
    \/ \E b \in Browsers, n \in Nonces : Initiate(b, n)
    \/ \E b \in Browsers : ExpireCookie(b)
    \/ \E n \in Nonces, g \in Subs : Consent(n, g)
    \/ MoveMails
    \/ \E m \in Mails, p \in Passwords : Register(m, p) \/ ResetPassword(m, p)
    \/ \E s \in Slots, b \in Browsers, n, c \in Nonces \cup {None} : Callback(s, b, n, c)
    \/ \E s \in Slots : Continue(s) \/ Receive(s)
    \/ Crash

Spec == Init /\ [][Next]_vars

----------------------------------------------------------------------------
TypeOK ==
    /\ user \in [Mails -> Row]
    /\ mail \in [Subs -> Mails]
    /\ cookie \in [Browsers -> Nonces \cup {None}]
    /\ starter \in [Nonces -> Browsers \cup {None}]
    /\ code \in [Nonces -> Subs \cup {None, Spent}]
    /\ flow \in [Slots -> Flow]
    /\ known \in [Slots -> BOOLEAN]
    /\ relocated \in BOOLEAN

SignedIn(s) == flow[s].pc = "done" /\ flow[s].status = "dashboard"

\* The session of a callback goes to the browser that asked for the sign-in,
\* whichever browser the callback URL is opened in and however many sign-ins
\* and expiries have changed its cookie (auth/oauth.py:3, "the nonce is bound to
\* the browser session"; docs/planning/prd-1-auth.md:95).
SessionsGoToTheStarter ==
    \A s \in Slots : SignedIn(s) => starter[flow[s].state] = flow[s].browser

\* A Google account is signed in to the account of the program that is linked to
\* it, be it found, linked or made by this callback or meanwhile by another.
\* (Only until a Google account gets another address: the address it had, or
\* takes, may be that of a row linked to another.)
SignInsAreLinked ==
    \A s \in Slots : SignedIn(s) /\ ~relocated => user[flow[s].account].sub = flow[s].sub

\* "On subsequent Google sign-ins with the same Google account, the existing
\* account is found and the user is logged in" (docs/planning/prd-1-auth.md:91):
\* the callback of an account that is linked never ends in a database error, as
\* long as no Google account has got the address of another row.
ReturningUsersGetIn ==
    \A s \in Slots : known[s] /\ ~relocated => flow[s].status # "error"

\* Whatever addresses Google accounts have had in between, an account that is
\* linked is never signed in to any other account of the program
\* (auth/oauth.py:217-220).
ReturningUsersKeepTheirAccount ==
    \A s \in Slots : known[s] /\ SignedIn(s) => user[flow[s].account].sub = flow[s].sub

\* What becomes of the rows of users, whatever callbacks, registrations and
\* resets interleave: no row or link goes away or changes hands, no Google account
\* gets two rows, and neither linking nor signing in changes a password, not even
\* one that a reset has set between the SELECT and the UPDATE.
Table == INSTANCE UserTable
ImplementsUserTable == Table!Spec

----------------------------------------------------------------------------
(* What the properties rest on: an inductive invariant. *)

Identified(q) == q.pc \in {"select", "insert", "link", "session"}
Served(s) == flow[s].pc = "session" \/ SignedIn(s)

NoncesAreBound ==
    /\ \A b \in Browsers : cookie[b] # None => starter[cookie[b]] = b
    /\ \A s \in Slots : flow[s].pc \in Awaits \/ SignedIn(s) =>
          /\ flow[s].state \in Nonces /\ flow[s].browser \in Browsers
          /\ starter[flow[s].state] = flow[s].browser

AddressesDiffer == \A g, h \in Subs : mail[g] = mail[h] => g = h

ClaimsAreTrue ==
    \A s \in Slots :
        /\ flow[s].pc \in Awaits => flow[s].status = "none"
        /\ Identified(flow[s]) => flow[s].sub \in Subs /\ flow[s].mail = mail[flow[s].sub]

AccountsAreFound ==
    \A s \in Slots :
        /\ flow[s].pc = "link" => /\ flow[s].account = flow[s].mail
                                  /\ user[flow[s].account].sub \in {None, flow[s].sub}
        /\ Served(s) => /\ flow[s].account \in Mails /\ flow[s].sub \in Subs
                        /\ known[s] => user[flow[s].account].sub = flow[s].sub

KnownStaysLinked ==
    \A s \in Slots : known[s] =>
        /\ flow[s].pc \in {"select", "session", "done"}
        /\ flow[s].pc = "select" => \E m \in Mails : user[m].sub = flow[s].sub

\* What holds besides while addresses do not move.
LinksAreAddresses ==
    /\ \A m \in Mails : user[m].sub # None => mail[user[m].sub] = m
    /\ SignInsAreLinked /\ ReturningUsersGetIn
    /\ \A s \in Slots : flow[s].pc = "session" => user[flow[s].account].sub = flow[s].sub

IInv ==
    /\ TypeOK /\ NoncesAreBound /\ AddressesDiffer
    /\ ClaimsAreTrue /\ AccountsAreFound /\ KnownStaysLinked
    /\ ~relocated => LinksAreAddresses
=============================================================================
