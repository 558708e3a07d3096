----------------------------- MODULE UserTable -----------------------------
(***************************************************************************)
(* What the rows of users promise to everyone who reads them, with no      *)
(* SELECT, request or crash in sight: an address has at most one row, a    *)
(* Google account at most one link; no row goes away and no link or        *)
(* password is taken from one; and an account made through Google never    *)
(* gets a password.  Accounts has the writers of passwords in detail and   *)
(* OAuth those of links, with the others in one step.  That both implement *)
(* this specification (see ImplementsUserTable in each) is what entitles   *)
(* each of them to its one-step view of the other.                         *)
(***************************************************************************)
CONSTANTS Mails, Subs, Passwords, None

VARIABLE user  \* the row of each address, or NoRow

\* ck_users_has_auth_method: a row has a google_sub or a password_hash.
NoRow == [sub |-> None, password |-> None]
Row == [sub : Subs \cup {None}, password : Passwords \cup {None}]

Exists(m) == user[m] # NoRow

\* The unique index on google_sub.
SubIsFree(g) == \A m \in Mails : user[m].sub # g
SubsDiffer == \A m, n \in Mails : user[m].sub = user[n].sub => m = n \/ user[m].sub = None

Init == user \in [Mails -> Row] /\ SubsDiffer

\* register
Register(m, p) ==
    /\ ~Exists(m)
    /\ user' = [user EXCEPT ![m] = [sub |-> None, password |-> p]]

\* password_reset_complete
ResetPassword(m, p) ==
    /\ user[m].password # None
    /\ user' = [user EXCEPT ![m].password = p]

\* oauth_google_callback, for an address without a row ...
SignUp(m, g) ==
    /\ ~Exists(m) /\ SubIsFree(g)
    /\ user' = [user EXCEPT ![m] = [sub |-> g, password |-> None]]

\* ... and for one whose row is not linked yet.
Link(m, g) ==
    /\ Exists(m) /\ user[m].sub = None /\ SubIsFree(g)
    /\ user' = [user EXCEPT ![m].sub = g]

Next == \E m \in Mails :
    \/ \E p \in Passwords : Register(m, p) \/ ResetPassword(m, p)
    \/ \E g \in Subs : SignUp(m, g) \/ Link(m, g)

Spec == Init /\ [][Next]_user
=============================================================================
