---------------------------- MODULE OAuth_proofs ----------------------------
(***************************************************************************)
(* Proofs about OAuth, for every set of browsers, nonces, Google accounts, *)
(* addresses, passwords and callbacks.                                     *)
(***************************************************************************)
EXTENDS OAuth, FiniteSetTheorems, TLAPS

LEMMA Sentinels ==
    /\ None \notin Nonces /\ None \notin Subs /\ None \notin Mails
    /\ None \notin Passwords /\ None \notin Browsers
    /\ Spent \notin Subs
BY NoneAssumption

-----------------------------------------------------------------------------
(* The one flow that a step of a callback moves. *)

Moved(s, q) == q \in Flow /\ flow' = [flow EXCEPT ![s] = q]

\* A step sets these five fields of a flow and leaves its browser, its state and
\* its code alone.
Stepped(q, pc, sub, m, a, status) ==
    [pc |-> pc, browser |-> q.browser, state |-> q.state, code |-> q.code,
     sub |-> sub, mail |-> m, account |-> a, status |-> status]

LEMMA SteppedFields ==
    ASSUME NEW q \in Flow, NEW pc \in Awaits \cup {"idle", "done"},
           NEW sub \in Subs \cup {None}, NEW m \in Mails \cup {None},
           NEW a \in Mails \cup {None}, NEW status \in Answers
    PROVE  LET r == Stepped(q, pc, sub, m, a, status) IN
           /\ r \in Flow
           /\ r.pc = pc /\ r.sub = sub /\ r.mail = m /\ r.account = a /\ r.status = status
           /\ r.browser = q.browser /\ r.state = q.state /\ r.code = q.code
BY DEF Stepped, Flow

LEMMA SameFields ==
    ASSUME NEW q \in Flow, NEW r \in Flow, q.pc = r.pc, q.browser = r.browser,
           q.state = r.state, q.code = r.code, q.sub = r.sub, q.mail = r.mail,
           q.account = r.account, q.status = r.status
    PROVE  q = r
BY DEF Flow

LEMMA GotoMoves ==
    ASSUME TypeOK, NEW s \in Slots, NEW pc \in Awaits, Goto(s, pc)
    PROVE  Moved(s, Stepped(flow[s], pc, flow[s].sub, flow[s].mail, flow[s].account, flow[s].status))
<1> DEFINE q == flow[s]
<1>1. q \in Flow /\ flow \in [Slots -> Flow]
  BY DEF TypeOK
<1>2. Stepped(q, pc, q.sub, q.mail, q.account, q.status) = [q EXCEPT !.pc = pc]
  BY <1>1 DEF Stepped, Flow
<1>3. flow' = [flow EXCEPT ![s] = [q EXCEPT !.pc = pc]]
  BY <1>1 DEF Goto
<1>4. [q EXCEPT !.pc = pc] \in Flow
  BY <1>1 DEF Flow
<1> QED
  BY <1>2, <1>3, <1>4 DEF Moved

LEMMA AnswerMoves ==
    ASSUME TypeOK, NEW s \in Slots, NEW status \in Answers, Answer(s, status)
    PROVE  Moved(s, Stepped(flow[s], "done", flow[s].sub, flow[s].mail, flow[s].account, status))
<1> DEFINE q == flow[s]
           p == Stepped(q, "done", q.sub, q.mail, q.account, status)
           r == [q EXCEPT !.pc = "done", !.status = status]
<1>1. q \in Flow /\ flow \in [Slots -> Flow]
  BY DEF TypeOK
<1>2. r \in Flow
  BY <1>1 DEF Flow, Awaits
<1>3. /\ r.pc = "done" /\ r.browser = q.browser /\ r.state = q.state /\ r.code = q.code
      /\ r.sub = q.sub /\ r.mail = q.mail /\ r.account = q.account /\ r.status = status
  BY <1>1 DEF Flow
<1>4. /\ q.sub \in Subs \cup {None} /\ q.mail \in Mails \cup {None}
      /\ q.account \in Mails \cup {None} /\ q.status \in Answers
  BY <1>1 DEF Flow
<1>5. /\ p \in Flow
      /\ p.pc = "done" /\ p.browser = q.browser /\ p.state = q.state /\ p.code = q.code
      /\ p.sub = q.sub /\ p.mail = q.mail /\ p.account = q.account /\ p.status = status
  BY <1>1, <1>4 DEF Stepped, Flow, Awaits
<1>6. r = p
  <2> HIDE DEF r, p
  <2> QED
    BY <1>2, <1>3, <1>5, SameFields
<1>7. flow' = [flow EXCEPT ![s] = r]
  BY <1>1 DEF Answer
<1> QED
  BY <1>2, <1>6, <1>7 DEF Moved

LEMMA FoundMoves ==
    ASSUME TypeOK, NEW s \in Slots, NEW pc \in Awaits, NEW a \in Mails,
           flow' = [flow EXCEPT ![s].pc = pc, ![s].account = a]
    PROVE  Moved(s, Stepped(flow[s], pc, flow[s].sub, flow[s].mail, a, flow[s].status))
<1> DEFINE q == flow[s]
           p == Stepped(q, pc, q.sub, q.mail, a, q.status)
           r == [q EXCEPT !.pc = pc, !.account = a]
<1>1. q \in Flow /\ flow \in [Slots -> Flow]
  BY DEF TypeOK
<1>2. r \in Flow
  BY <1>1 DEF Flow, Awaits
<1>3. /\ r.pc = pc /\ r.browser = q.browser /\ r.state = q.state /\ r.code = q.code
      /\ r.sub = q.sub /\ r.mail = q.mail /\ r.account = a /\ r.status = q.status
  BY <1>1 DEF Flow
<1>4. /\ q.sub \in Subs \cup {None} /\ q.mail \in Mails \cup {None}
      /\ q.account \in Mails \cup {None} /\ q.status \in Answers
  BY <1>1 DEF Flow
<1>5. /\ p \in Flow
      /\ p.pc = pc /\ p.browser = q.browser /\ p.state = q.state /\ p.code = q.code
      /\ p.sub = q.sub /\ p.mail = q.mail /\ p.account = a /\ p.status = q.status
  BY <1>1, <1>4 DEF Stepped, Flow, Awaits
<1>6. r = p
  <2> HIDE DEF r, p
  <2> QED
    BY <1>2, <1>3, <1>5, SameFields
<1>7. flow' = [flow EXCEPT ![s] = r]
  BY <1>1
<1> QED
  BY <1>2, <1>6, <1>7 DEF Moved

LEMMA ClaimsMove ==
    ASSUME TypeOK, NEW s \in Slots, NEW g \in Subs, NEW m \in Mails,
           flow' = [flow EXCEPT ![s].pc = "select", ![s].sub = g, ![s].mail = m]
    PROVE  Moved(s, Stepped(flow[s], "select", g, m, flow[s].account, flow[s].status))
<1> DEFINE q == flow[s]
           p == Stepped(q, "select", g, m, q.account, q.status)
           r == [q EXCEPT !.pc = "select", !.sub = g, !.mail = m]
<1>1. q \in Flow /\ flow \in [Slots -> Flow]
  BY DEF TypeOK
<1>2. r \in Flow
  BY <1>1 DEF Flow, Awaits
<1>3. /\ r.pc = "select" /\ r.browser = q.browser /\ r.state = q.state /\ r.code = q.code
      /\ r.sub = g /\ r.mail = m /\ r.account = q.account /\ r.status = q.status
  BY <1>1 DEF Flow
<1>4. /\ q.sub \in Subs \cup {None} /\ q.mail \in Mails \cup {None}
      /\ q.account \in Mails \cup {None} /\ q.status \in Answers
  BY <1>1 DEF Flow
<1>5. /\ p \in Flow
      /\ p.pc = "select" /\ p.browser = q.browser /\ p.state = q.state /\ p.code = q.code
      /\ p.sub = g /\ p.mail = m /\ p.account = q.account /\ p.status = q.status
  BY <1>1, <1>4 DEF Stepped, Flow, Awaits
<1>6. r = p
  <2> HIDE DEF r, p
  <2> QED
    BY <1>2, <1>3, <1>5, SameFields
<1>7. flow' = [flow EXCEPT ![s] = r]
  BY <1>1
<1> QED
  BY <1>2, <1>6, <1>7 DEF Moved

LEMMA AfterMove ==
    ASSUME TypeOK, NEW s \in Slots, NEW q, Moved(s, q)
    PROVE  /\ flow' \in [Slots -> Flow] /\ flow'[s] = q
           /\ \A t \in Slots \ {s} : flow'[t] = flow[t]
BY DEF TypeOK, Moved

\* A step of a callback sets some of its fields and no cookie.
MovesOn(s) ==
    \E pc \in Awaits \cup {"done"}, sub \in Subs \cup {None}, m, a \in Mails \cup {None},
       status \in Answers :
        Moved(s, Stepped(flow[s], pc, sub, m, a, status))

LEMMA FlowTypes ==
    ASSUME TypeOK, NEW s \in Slots
    PROVE  /\ flow[s] \in Flow /\ flow[s].pc \in Awaits \cup {"idle", "done"}
           /\ flow[s].browser \in Browsers \cup {None} /\ flow[s].state \in Nonces \cup {None}
           /\ flow[s].code \in Nonces \cup {None} /\ flow[s].sub \in Subs \cup {None}
           /\ flow[s].mail \in Mails \cup {None} /\ flow[s].account \in Mails \cup {None}
           /\ flow[s].status \in Answers
BY DEF TypeOK, Flow

LEMMA AnswerMovesOn ==
    ASSUME TypeOK, NEW s \in Slots, NEW status \in Answers, Answer(s, status)
    PROVE  MovesOn(s)
BY AnswerMoves, FlowTypes DEF MovesOn

LEMMA GotoMovesOn ==
    ASSUME TypeOK, NEW s \in Slots, NEW pc \in Awaits, Goto(s, pc)
    PROVE  MovesOn(s)
BY GotoMoves, FlowTypes DEF MovesOn

LEMMA InsertMoves ==
    ASSUME TypeOK, NEW s \in Slots, flow[s].pc = "insert", flow[s].mail \in Mails,
           flow' = [flow EXCEPT ![s].pc = "session", ![s].account = flow[s].mail]
    PROVE  Moved(s, Stepped(flow[s], "session", flow[s].sub, flow[s].mail, flow[s].mail,
                            flow[s].status))
BY FoundMoves DEF Awaits

-----------------------------------------------------------------------------
(* What each slot owes the invariant, and what others may do to it. *)

FlowOK(s) ==
    /\ flow[s].pc \in Awaits => flow[s].status = "none"
    /\ Identified(flow[s]) => flow[s].sub \in Subs /\ flow[s].mail = mail[flow[s].sub]
    /\ flow[s].pc = "link" => /\ flow[s].account = flow[s].mail
                              /\ user[flow[s].account].sub \in {None, flow[s].sub}
    /\ Served(s) => /\ flow[s].account \in Mails /\ flow[s].sub \in Subs
                    /\ known[s] => user[flow[s].account].sub = flow[s].sub
    /\ known[s] => /\ flow[s].pc \in {"select", "session", "done"}
                   /\ flow[s].pc = "select" => \E m \in Mails : user[m].sub = flow[s].sub
    /\ ~relocated => /\ Served(s) => user[flow[s].account].sub = flow[s].sub
                     /\ known[s] => flow[s].status # "error"

LinksOK == ~relocated => \A m \in Mails : user[m].sub # None => mail[user[m].sub] = m

LEMMA IInvParts ==
    IInv <=> /\ TypeOK /\ NoncesAreBound /\ AddressesDiffer
             /\ \A s \in Slots : FlowOK(s)
             /\ LinksOK
BY DEF IInv, FlowOK, LinksOK, ClaimsAreTrue, AccountsAreFound, KnownStaysLinked,
       LinksAreAddresses, SignInsAreLinked, ReturningUsersGetIn, Served

LEMMA IInvPartsNext ==
    IInv' <=> /\ TypeOK' /\ NoncesAreBound' /\ AddressesDiffer'
              /\ \A s \in Slots : FlowOK(s)'
              /\ LinksOK'
BY DEF IInv, FlowOK, LinksOK, ClaimsAreTrue, AccountsAreFound, KnownStaysLinked,
       LinksAreAddresses, SignInsAreLinked, ReturningUsersGetIn, Served

\* Links are only added, each to the row of its account's address.
LinksGrow ==
    \A m \in Mails :
        \/ user'[m].sub = user[m].sub
        \/ user[m].sub = None /\ \E g \in Subs : mail[g] = m /\ user'[m].sub = g

LEMMA OthersKeep ==
    ASSUME IInv, LinksGrow, mail' = mail, relocated' = relocated, NEW t \in Slots,
           flow'[t] = flow[t], known'[t] = known[t]
    PROVE  FlowOK(t)'
<1>1. FlowOK(t) /\ TypeOK /\ AddressesDiffer
  BY IInvParts
<1>2. /\ flow[t].sub \in Subs \cup {None} /\ flow[t].account \in Mails \cup {None}
      /\ mail \in [Subs -> Mails]
  BY <1>1, FlowTypes DEF TypeOK
<1>3. ASSUME NEW m \in Mails, user[m].sub # None PROVE user'[m].sub = user[m].sub
  BY <1>3 DEF LinksGrow
<1>4. (Identified(flow[t]) => flow[t].sub \in Subs /\ flow[t].mail = mail[flow[t].sub])'
  BY <1>1 DEF FlowOK, Identified
<1>5. ASSUME flow[t].pc = "link"
      PROVE  flow[t].account = flow[t].mail /\ user'[flow[t].account].sub \in {None, flow[t].sub}
  <2>1. /\ flow[t].sub \in Subs /\ flow[t].account = mail[flow[t].sub]
        /\ flow[t].account = flow[t].mail
        /\ user[flow[t].account].sub \in {None, flow[t].sub}
    BY <1>1, <1>5 DEF FlowOK, Identified
  <2>2. flow[t].account \in Mails
    BY <1>2, <2>1
  <2>3. CASE user'[flow[t].account].sub = user[flow[t].account].sub
    BY <2>1, <2>3
  <2>4. ASSUME NEW g \in Subs, mail[g] = flow[t].account, user'[flow[t].account].sub = g
        PROVE  user'[flow[t].account].sub = flow[t].sub
    <3>1. g = flow[t].sub
      BY <1>1, <2>1, <2>4 DEF AddressesDiffer
    <3> QED
      BY <2>4, <3>1
  <2> QED
    BY <2>1, <2>2, <2>3, <2>4 DEF LinksGrow
<1>6. Served(t)' <=> Served(t)
  BY DEF Served, SignedIn
<1>7. ASSUME Served(t), user[flow[t].account].sub = flow[t].sub
      PROVE  user'[flow[t].account].sub = flow[t].sub
  <2>1. flow[t].account \in Mails /\ flow[t].sub \in Subs
    BY <1>1, <1>7 DEF FlowOK
  <2> QED
    BY <1>3, <1>7, <2>1, Sentinels
<1>8. ASSUME flow[t].pc = "select", NEW m \in Mails, user[m].sub = flow[t].sub
      PROVE  user'[m].sub = flow[t].sub
  <2>1. flow[t].sub \in Subs
    BY <1>1, <1>8 DEF FlowOK, Identified
  <2> QED
    BY <1>3, <1>8, <2>1, Sentinels
<1> QED
  BY <1>1, <1>4, <1>5, <1>6, <1>7, <1>8 DEF FlowOK

LEMMA LinksKeep ==
    ASSUME IInv, LinksGrow, mail' = mail, relocated' = relocated
    PROVE  LinksOK'
BY IInvParts DEF LinksGrow, LinksOK

-----------------------------------------------------------------------------
(* Type correctness and the invariant, action by action. *)

LEMMA MovesOnBound ==
    ASSUME TypeOK, NoncesAreBound, NEW s \in Slots, flow[s].pc \in Awaits, MovesOn(s),
           UNCHANGED <<cookie, starter>>
    PROVE  flow' \in [Slots -> Flow] /\ NoncesAreBound'
<1>1. PICK q : /\ Moved(s, q) /\ q \in Flow
               /\ q.browser = flow[s].browser /\ q.state = flow[s].state
  <2>1. PICK pc \in Awaits \cup {"done"}, sub \in Subs \cup {None}, m \in Mails \cup {None},
             a \in Mails \cup {None}, status \in Answers :
                Moved(s, Stepped(flow[s], pc, sub, m, a, status))
    BY DEF MovesOn
  <2> DEFINE q == Stepped(flow[s], pc, sub, m, a, status)
  <2>2. q \in Flow /\ q.browser = flow[s].browser /\ q.state = flow[s].state
    BY <2>1 DEF Moved, Stepped
  <2> QED
    BY <2>1, <2>2
<1>2. /\ flow' \in [Slots -> Flow] /\ flow'[s] = q
      /\ \A t \in Slots \ {s} : flow'[t] = flow[t]
  BY <1>1, AfterMove
<1>3. ASSUME NEW t \in Slots, flow'[t].pc \in Awaits \/ SignedIn(t)'
      PROVE  /\ flow'[t].state \in Nonces /\ flow'[t].browser \in Browsers
             /\ starter'[flow'[t].state] = flow'[t].browser
  <2>1. CASE t = s
    BY <1>1, <1>2, <2>1 DEF NoncesAreBound
  <2>2. CASE t # s
    BY <1>2, <1>3, <2>2 DEF NoncesAreBound, SignedIn
  <2> QED
    BY <2>1, <2>2
<1> QED
  BY <1>2, <1>3 DEF NoncesAreBound

LEMMA Assemble ==
    ASSUME IInv, NEW s \in Slots, flow[s].pc \in Awaits, MovesOn(s),
           user' \in [Mails -> Row], code' \in [Nonces -> Subs \cup {None, Spent}],
           known' \in [Slots -> BOOLEAN], \A t \in Slots \ {s} : known'[t] = known[t],
           UNCHANGED <<mail, cookie, starter, relocated>>, LinksGrow, FlowOK(s)'
    PROVE  IInv'
<1>1. TypeOK /\ NoncesAreBound /\ AddressesDiffer
  BY IInvParts
<1>2. flow' \in [Slots -> Flow] /\ NoncesAreBound'
  BY <1>1, MovesOnBound
<1>3. TypeOK'
  BY <1>1, <1>2 DEF TypeOK
<1>4. \A t \in Slots \ {s} : flow'[t] = flow[t]
  BY <1>1, AfterMove DEF MovesOn
<1>5. \A t \in Slots : FlowOK(t)'
  BY <1>4, OthersKeep
<1>6. AddressesDiffer' /\ LinksOK'
  BY <1>1, LinksKeep DEF AddressesDiffer
<1> QED
  BY <1>2, <1>3, <1>5, <1>6, IInvParts, IInvPartsNext

LEMMA ExchangeSucceedsStep == ASSUME IInv, NEW s \in Slots, ExchangeSucceeds(s) PROVE IInv'
<1>0. TypeOK /\ FlowOK(s)
  BY IInvParts
<1>1. PICK g \in Subs : /\ g = code[flow[s].code]
                        /\ flow' = [flow EXCEPT ![s].pc = "select", ![s].sub = g, ![s].mail = mail[g]]
                        /\ known' = [known EXCEPT ![s] = \E m \in Mails : user[m].sub = g]
  BY DEF ExchangeSucceeds
<1>2. mail[g] \in Mails /\ flow[s].pc \in Awaits
  BY <1>0, <1>1 DEF TypeOK, ExchangeSucceeds, Awaits
<1> DEFINE q == Stepped(flow[s], "select", g, mail[g], flow[s].account, flow[s].status)
<1>3. Moved(s, q)
  BY <1>0, <1>1, <1>2, ClaimsMove
<1>4. MovesOn(s)
  BY <1>0, <1>2, <1>3, FlowTypes DEF MovesOn, Awaits
<1>5. q.pc = "select" /\ q.sub = g /\ q.mail = mail[g]
  BY DEF Stepped
<1>6. flow'[s] = q
  BY <1>0, <1>3, AfterMove
<1>7. /\ user' = user /\ mail' = mail /\ cookie' = cookie /\ starter' = starter
      /\ relocated' = relocated
      /\ code' \in [Nonces -> Subs \cup {None, Spent}]
  BY <1>0 DEF ExchangeSucceeds, TypeOK
<1>8. /\ known' \in [Slots -> BOOLEAN] /\ \A t \in Slots \ {s} : known'[t] = known[t]
      /\ known'[s] <=> \E m \in Mails : user[m].sub = g
  BY <1>0, <1>1 DEF TypeOK
<1>9. q.status = "none"
  BY <1>0, <1>2 DEF Stepped, FlowOK
<1> HIDE DEF q
<1>10. FlowOK(s)'
  BY <1>1, <1>5, <1>6, <1>7, <1>8, <1>9 DEF FlowOK, Identified, Served, SignedIn
<1> QED
  BY <1>0, <1>2, <1>4, <1>7, <1>8, <1>10, Assemble DEF LinksGrow, TypeOK

\* A step that only answers or goes on leaves the tables alone.
LEMMA QuietStep ==
    ASSUME IInv, NEW s \in Slots, flow[s].pc \in Awaits, MovesOn(s), NoWrite, FlowOK(s)'
    PROVE  IInv'
<1>1. TypeOK
  BY IInvParts
<1> QED
  BY <1>1, Assemble DEF NoWrite, TypeOK, LinksGrow

\* A flow that fails has nothing to answer for, unless it was known and raised.
LEMMA AnswerStep ==
    ASSUME IInv, NEW s \in Slots, NEW status \in Answers \ {"dashboard"},
           flow[s].pc \in Awaits, Answer(s, status), NoWrite,
           status = "error" => relocated \/ ~known[s]
    PROVE  IInv'
<1>1. TypeOK /\ FlowOK(s)
  BY IInvParts
<1> DEFINE q == Stepped(flow[s], "done", flow[s].sub, flow[s].mail, flow[s].account, status)
<1>2. Moved(s, q) /\ MovesOn(s)
  BY <1>1, AnswerMoves, AnswerMovesOn
<1>3. flow'[s] = q
  BY <1>1, <1>2, AfterMove
<1>4. q.pc = "done" /\ q.status = status
  BY DEF Stepped
<1> HIDE DEF q
<1>5. FlowOK(s)'
  BY <1>3, <1>4 DEF FlowOK, Identified, Served, SignedIn, NoWrite, Awaits
<1> QED
  BY <1>2, <1>5, QuietStep

LEMMA ExchangeFailsStep == ASSUME IInv, NEW s \in Slots, ExchangeFails(s) PROVE IInv'
BY AnswerStep DEF ExchangeFails, Awaits, Answers

LEMMA CreateSessionStep == ASSUME IInv, NEW s \in Slots, CreateSession(s) PROVE IInv'
<1>1. TypeOK /\ FlowOK(s) /\ flow[s].pc = "session"
  BY IInvParts DEF CreateSession
<1> DEFINE q == Stepped(flow[s], "done", flow[s].sub, flow[s].mail, flow[s].account, "dashboard")
<1>2. "dashboard" \in Answers /\ Answer(s, "dashboard") /\ NoWrite
  BY DEF CreateSession, Answers
<1>3. Moved(s, q) /\ MovesOn(s)
  BY <1>1, <1>2, AnswerMoves, AnswerMovesOn
<1>4. flow'[s] = q
  BY <1>1, <1>3, AfterMove
<1>5. /\ q.pc = "done" /\ q.status = "dashboard" /\ q.sub = flow[s].sub
      /\ q.account = flow[s].account
  BY DEF Stepped
<1> HIDE DEF q
<1>6. FlowOK(s)'
  BY <1>1, <1>2, <1>4, <1>5 DEF FlowOK, Identified, Served, SignedIn, NoWrite, Awaits
<1> QED
  BY <1>1, <1>2, <1>3, <1>6, QuietStep DEF Awaits

LEMMA MatchesSet ==
    ASSUME NEW g, NEW m, NEW a
    PROVE  a \in Matches(g, m) <=> a \in Mails /\ Exists(a) /\ (user[a].sub = g \/ a = m)
BY DEF Matches, Exists

\* While addresses do not move, an account that is linked matches its row only.
LEMMA KnownMatchesOne ==
    ASSUME IInv, NEW s \in Slots, flow[s].pc = "select", known[s], ~relocated
    PROVE  Cardinality(Matches(flow[s].sub, flow[s].mail)) = 1
<1>1. /\ FlowOK(s) /\ LinksOK /\ TypeOK
  BY IInvParts
<1>2. flow[s].sub \in Subs /\ flow[s].mail = mail[flow[s].sub] /\ flow[s].mail \in Mails
  BY <1>1 DEF FlowOK, Identified, TypeOK
<1>3. PICK m \in Mails : user[m].sub = flow[s].sub
  BY <1>1 DEF FlowOK
<1>4. m = flow[s].mail
  BY <1>1, <1>2, <1>3, Sentinels DEF LinksOK
<1>5. Exists(m)
  BY <1>2, <1>3, Sentinels DEF Exists, NoRow
<1>6. ASSUME NEW a \in Mails, user[a].sub = flow[s].sub PROVE a = m
  BY <1>1, <1>2, <1>4, <1>6, Sentinels DEF LinksOK
<1>7. Matches(flow[s].sub, flow[s].mail) = {m}
  BY <1>1, <1>2, <1>3, <1>4, <1>5, <1>6, MatchesSet
<1> QED
  BY <1>7, FS_Singleton

LEMMA SelectUserStep == ASSUME IInv, NEW s \in Slots, SelectUser(s) PROVE IInv'
<1> DEFINE found == Matches(flow[s].sub, flow[s].mail)
<1>1. /\ TypeOK /\ FlowOK(s) /\ LinksOK /\ AddressesDiffer /\ NoWrite
      /\ flow[s].pc = "select" /\ flow[s].status = "none"
  BY IInvParts DEF SelectUser, FlowOK, Awaits
<1>2. flow[s].sub \in Subs /\ flow[s].mail = mail[flow[s].sub] /\ flow[s].mail \in Mails
  BY <1>1 DEF FlowOK, Identified, TypeOK
<1>3. CASE found = {} /\ Goto(s, "insert")
  <2> DEFINE q == Stepped(flow[s], "insert", flow[s].sub, flow[s].mail, flow[s].account, flow[s].status)
  <2>1. "insert" \in Awaits
    BY DEF Awaits
  <2>2. Moved(s, q) /\ MovesOn(s)
    BY <1>1, <1>3, <2>1, GotoMoves, GotoMovesOn
  <2>3. flow'[s] = q
    BY <1>1, <2>2, AfterMove
  <2>4. q.pc = "insert" /\ q.sub = flow[s].sub /\ q.mail = flow[s].mail /\ q.status = "none"
    BY <1>1 DEF Stepped
  <2>5. ~known[s]
    <3>1. SUFFICES ASSUME NEW m \in Mails, user[m].sub = flow[s].sub PROVE FALSE
      BY <1>1 DEF FlowOK
    <3>2. Exists(m)
      BY <1>2, <3>1, Sentinels DEF Exists, NoRow
    <3> QED
      BY <1>1, <1>2, <1>3, <3>1, <3>2, MatchesSet
  <2> HIDE DEF q
  <2>6. FlowOK(s)'
    BY <1>1, <1>2, <2>3, <2>4, <2>5 DEF FlowOK, Identified, Served, SignedIn, NoWrite
  <2> QED
    BY <1>1, <2>2, <2>6, QuietStep DEF Awaits
<1>4. ASSUME NEW a \in found, found = {a},
             flow' = [flow EXCEPT ![s].pc = IF user[a].sub = None THEN "link" ELSE "session",
                                  ![s].account = a]
      PROVE  IInv'
  <2> DEFINE pc == IF user[a].sub = None THEN "link" ELSE "session"
             q == Stepped(flow[s], pc, flow[s].sub, flow[s].mail, a, flow[s].status)
  <2>1. a \in Mails /\ Exists(a) /\ (user[a].sub = flow[s].sub \/ a = flow[s].mail)
    BY <1>1, <1>2, <1>4, MatchesSet
  <2>2. pc \in Awaits
    BY DEF Awaits
  <2>3. Moved(s, q)
    BY <1>1, <1>4, <2>1, <2>2, FoundMoves
  <2>4. MovesOn(s)
    BY <1>1, <2>1, <2>2, <2>3, FlowTypes DEF MovesOn
  <2>5. flow'[s] = q
    BY <1>1, <2>3, AfterMove
  <2>6. /\ q.pc = pc /\ q.sub = flow[s].sub /\ q.mail = flow[s].mail /\ q.account = a
        /\ q.status = "none"
    BY <1>1 DEF Stepped
  <2>7. known[s] => user[a].sub = flow[s].sub
    <3>1. SUFFICES ASSUME NEW m \in Mails, user[m].sub = flow[s].sub
                   PROVE  user[a].sub = flow[s].sub
      BY <1>1 DEF FlowOK
    <3>2. Exists(m)
      BY <1>2, <3>1, Sentinels DEF Exists, NoRow
    <3>3. m \in found
      BY <1>1, <1>2, <3>1, <3>2, MatchesSet
    <3> QED
      BY <1>4, <3>1, <3>3
  <2>8. ASSUME user[a].sub = None PROVE a = flow[s].mail /\ ~known[s]
    BY <1>2, <2>1, <2>7, <2>8, Sentinels
  <2>9. ASSUME user[a].sub # None, ~relocated PROVE user[a].sub = flow[s].sub
    <3>1. CASE a = flow[s].mail
      <4>1. user[a].sub \in Subs
        BY <1>1, <2>1, <2>9 DEF TypeOK, Row
      <4>2. mail[user[a].sub] = a
        BY <1>1, <2>1, <2>9 DEF LinksOK
      <4> QED
        BY <1>1, <1>2, <3>1, <4>1, <4>2 DEF AddressesDiffer
    <3> QED
      BY <2>1, <3>1
  <2> HIDE DEF q
  <2>10. CASE user[a].sub = None
    <3>1. flow'[s].pc = "link"
      BY <2>5, <2>6, <2>10
    <3>2. FlowOK(s)'
      BY <1>1, <1>2, <2>5, <2>6, <2>8, <2>10, <3>1
      DEF FlowOK, Identified, Served, SignedIn, NoWrite
    <3> QED
      BY <1>1, <2>4, <3>2, QuietStep DEF Awaits
  <2>11. CASE user[a].sub # None
    <3>1. flow'[s].pc = "session"
      BY <2>5, <2>6, <2>11
    <3>2. FlowOK(s)'
      BY <1>1, <1>2, <2>1, <2>5, <2>6, <2>7, <2>9, <2>11, <3>1
      DEF FlowOK, Identified, Served, SignedIn, NoWrite
    <3> QED
      BY <1>1, <2>4, <3>2, QuietStep DEF Awaits
  <2> QED
    BY <2>10, <2>11
<1>5. CASE Cardinality(found) > 1 /\ Answer(s, "error")
  <2>1. relocated \/ ~known[s]
    BY <1>1, <1>5, KnownMatchesOne
  <2> QED
    BY <1>1, <1>5, <2>1, AnswerStep DEF Awaits, Answers
<1> QED
  BY <1>3, <1>4, <1>5 DEF SelectUser

LEMMA InsertUserStep == ASSUME IInv, NEW s \in Slots, InsertUser(s) PROVE IInv'
<1> DEFINE g == flow[s].sub
           m == flow[s].mail
<1>1. /\ TypeOK /\ FlowOK(s) /\ flow[s].pc = "insert" /\ flow[s].status = "none" /\ ~known[s]
  BY IInvParts DEF InsertUser, FlowOK, Awaits
<1>2. g \in Subs /\ m = mail[g] /\ m \in Mails
  BY <1>1 DEF FlowOK, Identified, TypeOK
<1>3. CASE Answer(s, "error") /\ NoWrite
  BY <1>1, <1>3, AnswerStep DEF Awaits, Answers
<1>4. ASSUME ~Exists(m), user' = [user EXCEPT ![m].sub = g],
             flow' = [flow EXCEPT ![s].pc = "session", ![s].account = m],
             UNCHANGED <<mail, cookie, starter, code, known, relocated>>
      PROVE  IInv'
  <2> DEFINE q == Stepped(flow[s], "session", g, m, m, flow[s].status)
  <2>1. Moved(s, q)
    BY <1>1, <1>2, <1>4, InsertMoves
  <2>2. MovesOn(s)
    BY <1>1, <1>2, <2>1, FlowTypes DEF MovesOn, Awaits
  <2>3. flow'[s] = q
    BY <1>1, <2>1, AfterMove
  <2>4. q.pc = "session" /\ q.sub = g /\ q.mail = m /\ q.account = m /\ q.status = "none"
    BY <1>1 DEF Stepped
  <2>5. /\ user' \in [Mails -> Row] /\ user'[m].sub = g /\ user[m].sub = None
        /\ \A a \in Mails \ {m} : user'[a] = user[a]
    BY <1>1, <1>2, <1>4 DEF TypeOK, Row, Exists, NoRow
  <2>6. LinksGrow
    BY <1>2, <2>5 DEF LinksGrow
  <2> HIDE DEF q
  <2>7. FlowOK(s)'
    BY <1>1, <1>2, <1>4, <2>3, <2>4, <2>5 DEF FlowOK, Identified, Served, SignedIn
  <2> QED
    BY <1>1, <1>4, <2>2, <2>5, <2>6, <2>7, Assemble DEF TypeOK, Awaits
<1> QED
  BY <1>3, <1>4 DEF InsertUser

LEMMA LinkUserStep == ASSUME IInv, NEW s \in Slots, LinkUser(s) PROVE IInv'
<1> DEFINE g == flow[s].sub
           m == flow[s].account
<1>1. /\ TypeOK /\ FlowOK(s) /\ flow[s].pc = "link" /\ flow[s].status = "none" /\ ~known[s]
  BY IInvParts DEF LinkUser, FlowOK, Awaits
<1>2. g \in Subs /\ m = mail[g] /\ m \in Mails /\ user[m].sub \in {None, g}
  BY <1>1 DEF FlowOK, Identified, TypeOK
<1>3. CASE Answer(s, "error") /\ NoWrite
  BY <1>1, <1>3, AnswerStep DEF Awaits, Answers
<1>4. ASSUME user' = [user EXCEPT ![m] = Linked(flow[s])], Goto(s, "session"),
             UNCHANGED <<mail, cookie, starter, code, known, relocated>>
      PROVE  IInv'
  <2> DEFINE q == Stepped(flow[s], "session", g, flow[s].mail, m, flow[s].status)
  <2>1. Moved(s, q) /\ MovesOn(s)
    BY <1>1, <1>4, GotoMoves, GotoMovesOn DEF Awaits
  <2>2. flow'[s] = q
    BY <1>1, <2>1, AfterMove
  <2>3. q.pc = "session" /\ q.sub = g /\ q.mail = flow[s].mail /\ q.account = m /\ q.status = "none"
    BY <1>1 DEF Stepped
  <2>4. /\ user' \in [Mails -> Row] /\ user'[m].sub = g
        /\ \A a \in Mails \ {m} : user'[a] = user[a]
    BY <1>1, <1>2, <1>4 DEF TypeOK, Row, Linked
  <2>5. LinksGrow
    BY <1>2, <2>4 DEF LinksGrow
  <2>6. flow[s].mail = mail[g]
    BY <1>1 DEF FlowOK, Identified
  <2> HIDE DEF q
  <2>7. FlowOK(s)'
    BY <1>1, <1>2, <1>4, <2>2, <2>3, <2>4, <2>6 DEF FlowOK, Identified, Served, SignedIn
  <2> QED
    BY <1>1, <1>4, <2>1, <2>4, <2>5, <2>7, Assemble DEF TypeOK, Awaits
<1> QED
  BY <1>3, <1>4 DEF LinkUser

LEMMA ContinueStep == ASSUME IInv, NEW s \in Slots, Continue(s) PROVE IInv'
BY ExchangeSucceedsStep, ExchangeFailsStep, SelectUserStep, InsertUserStep, LinkUserStep,
   CreateSessionStep DEF Continue

-----------------------------------------------------------------------------
(* The steps that are no callback's. *)

\* A slot that is idle, new, or answered without a sign-in owes nothing.
LEMMA FreshFlow ==
    ASSUME NEW s \in Slots, ~known[s], flow[s].pc \in {"idle", "exchange", "done"},
           flow[s].status # "dashboard", flow[s].pc = "exchange" => flow[s].status = "none"
    PROVE  FlowOK(s)
BY DEF FlowOK, Identified, Served, SignedIn, Awaits

LEMMA FreshFlowNext ==
    ASSUME NEW s \in Slots, ~known'[s], flow'[s].pc \in {"idle", "exchange", "done"},
           flow'[s].status # "dashboard", flow'[s].pc = "exchange" => flow'[s].status = "none"
    PROVE  FlowOK(s)'
BY DEF FlowOK, Identified, Served, SignedIn, Awaits

LEMMA IdleFlow == /\ Idle \in Flow /\ Idle.pc = "idle" /\ Idle.status = "none"
BY DEF Idle, Opened, Flow, Answers

LEMMA InitIInv == Init => IInv
<1> SUFFICES ASSUME Init PROVE IInv
  OBVIOUS
<1>1. TypeOK
  BY IdleFlow DEF Init, TypeOK, Addresses
<1>2. NoncesAreBound /\ AddressesDiffer /\ LinksOK
  BY IdleFlow DEF Init, Addresses, NoncesAreBound, AddressesDiffer, LinksOK, SignedIn, Awaits
<1>3. \A s \in Slots : FlowOK(s)
  BY IdleFlow, FreshFlow DEF Init
<1> QED
  BY <1>1, <1>2, <1>3, IInvParts

LEMMA CallbackStep ==
    ASSUME IInv, NEW s \in Slots, NEW b \in Browsers, NEW n \in Nonces \cup {None},
           NEW c \in Nonces \cup {None}, Callback(s, b, n, c)
    PROVE  IInv'
<1> DEFINE new(pc, status) ==
        [pc |-> pc, browser |-> b, state |-> n, code |-> c, sub |-> None, mail |-> None,
         account |-> None, status |-> status]
<1>1. /\ TypeOK /\ NoncesAreBound /\ AddressesDiffer /\ LinksOK /\ NoWrite /\ FlowOK(s)
      /\ flow[s].pc = "idle"
  BY IInvParts DEF Callback
<1>2. PICK pc \in {"exchange", "done"}, status \in {"none", "cancelled", "invalid"} :
        /\ flow' = [flow EXCEPT ![s] = new(pc, status)]
        /\ pc = "exchange" => status = "none" /\ StateIsBound(b, n)
  BY DEF Callback, Opened
<1>3. new(pc, status) \in Flow
  BY DEF Flow, Awaits, Answers
<1>4. /\ flow' \in [Slots -> Flow] /\ flow'[s] = new(pc, status)
      /\ \A t \in Slots \ {s} : flow'[t] = flow[t]
  BY <1>1, <1>2, <1>3 DEF TypeOK
<1>5. TypeOK'
  BY <1>1, <1>4 DEF TypeOK, NoWrite
<1>6. NoncesAreBound'
  <2>1. ASSUME NEW t \in Slots, flow'[t].pc \in Awaits \/ SignedIn(t)'
        PROVE  /\ flow'[t].state \in Nonces /\ flow'[t].browser \in Browsers
               /\ starter'[flow'[t].state] = flow'[t].browser
    <3>1. CASE t = s
      <4>1. pc = "exchange" /\ n \in Nonces /\ n = cookie[b]
        BY <1>2, <1>4, <2>1, <3>1 DEF SignedIn, StateIsBound, Awaits
      <4>2. starter[n] = b
        BY <1>1, <4>1, Sentinels DEF NoncesAreBound
      <4> QED
        BY <1>1, <1>4, <3>1, <4>1, <4>2 DEF NoWrite
    <3>2. CASE t # s
      BY <1>1, <1>4, <2>1, <3>2 DEF NoncesAreBound, NoWrite, SignedIn
    <3> QED
      BY <3>1, <3>2
  <2> QED
    BY <1>1, <2>1 DEF NoncesAreBound, NoWrite
<1>7. FlowOK(s)'
  <2>1. ~known'[s]
    BY <1>1 DEF FlowOK, NoWrite
  <2> QED
    BY <1>2, <1>4, <2>1, FreshFlowNext
<1>8. \A t \in Slots : FlowOK(t)'
  BY <1>1, <1>4, <1>7, OthersKeep DEF LinksGrow, NoWrite
<1> QED
  BY <1>1, <1>5, <1>6, <1>8, IInvPartsNext DEF AddressesDiffer, LinksOK, NoWrite

\* Flows that end: Receive and Crash.
LEMMA EndStep ==
    ASSUME IInv, NEW E \in SUBSET Slots, UNCHANGED <<user, mail, cookie, starter, code, relocated>>,
           flow' = [s \in Slots |-> IF s \in E THEN Idle ELSE flow[s]],
           known' = [s \in Slots |-> known[s] /\ s \notin E]
    PROVE  IInv'
<1>1. /\ TypeOK /\ NoncesAreBound /\ AddressesDiffer /\ LinksOK
  BY IInvParts
<1>2. TypeOK'
  <2>1. flow' \in [Slots -> Flow]
    BY <1>1, IdleFlow DEF TypeOK
  <2> QED
    BY <1>1, <2>1 DEF TypeOK
<1>3. \A s \in E : flow'[s].pc = "idle" /\ flow'[s].status = "none" /\ ~known'[s]
  BY IdleFlow
<1>4. ASSUME NEW s \in Slots, s \notin E PROVE flow'[s] = flow[s] /\ known'[s] = known[s]
  <2>1. known[s] \in BOOLEAN
    BY <1>1 DEF TypeOK
  <2> QED
    BY <1>4, <2>1
<1>5. NoncesAreBound'
  BY <1>1, <1>3, <1>4 DEF NoncesAreBound, SignedIn, Awaits
<1>6. \A s \in Slots : FlowOK(s)'
  BY <1>3, <1>4, FreshFlowNext, OthersKeep DEF LinksGrow
<1> QED
  BY <1>1, <1>2, <1>5, <1>6, IInvPartsNext DEF AddressesDiffer, LinksOK

LEMMA ReceiveStep == ASSUME IInv, NEW s \in Slots, Receive(s) PROVE IInv'
<1>1. TypeOK
  BY IInvParts
<1>2. PICK E \in SUBSET Slots : E = {s}
  OBVIOUS
<1>3. flow' = [t \in Slots |-> IF t \in E THEN Idle ELSE flow[t]]
  BY <1>1, <1>2 DEF Receive, TypeOK
<1>4. known' = [t \in Slots |-> known[t] /\ t \notin E]
  <2>1. \A t \in Slots : known[t] \in BOOLEAN
    BY <1>1 DEF TypeOK
  <2>2. known' = [t \in Slots |-> IF t = s THEN FALSE ELSE known[t]]
    BY <1>1 DEF Receive, TypeOK
  <2> QED
    BY <1>2, <2>1, <2>2
<1>5. UNCHANGED <<user, mail, cookie, starter, code, relocated>>
  BY DEF Receive
<1> QED
  BY <1>3, <1>4, <1>5, EndStep

LEMMA CrashStep == ASSUME IInv, Crash PROVE IInv'
<1> DEFINE E == {s \in Slots : flow[s].pc \in Awaits}
<1>1. flow' = [s \in Slots |-> IF s \in E THEN Idle ELSE flow[s]]
  BY DEF Crash
<1>2. known' = [s \in Slots |-> known[s] /\ s \notin E]
  BY DEF Crash
<1> QED
  BY <1>1, <1>2, EndStep DEF Crash

LEMMA InitiateStep ==
    ASSUME IInv, NEW b \in Browsers, NEW n \in Nonces, Initiate(b, n) PROVE IInv'
<1>1. /\ TypeOK /\ NoncesAreBound /\ AddressesDiffer /\ LinksOK
      /\ UNCHANGED <<user, mail, code, flow, known, relocated>>
  BY IInvParts DEF Initiate
<1>2. /\ starter[n] = None /\ starter'[n] = b /\ cookie'[b] = n
      /\ \A x \in Nonces \ {n} : starter'[x] = starter[x]
      /\ \A x \in Browsers \ {b} : cookie'[x] = cookie[x]
      /\ starter' \in [Nonces -> Browsers \cup {None}]
      /\ cookie' \in [Browsers -> Nonces \cup {None}]
  BY <1>1 DEF Initiate, TypeOK
<1>3. TypeOK'
  BY <1>1, <1>2 DEF TypeOK
<1>4. NoncesAreBound'
  <2>1. ASSUME NEW x \in Browsers, cookie'[x] # None PROVE starter'[cookie'[x]] = x
    BY <1>1, <1>2, <2>1, Sentinels DEF NoncesAreBound, TypeOK
  <2>2. ASSUME NEW t \in Slots, flow'[t].pc \in Awaits \/ SignedIn(t)'
        PROVE  /\ flow'[t].state \in Nonces /\ flow'[t].browser \in Browsers
               /\ starter'[flow'[t].state] = flow'[t].browser
    BY <1>1, <1>2, <2>2, Sentinels DEF NoncesAreBound, SignedIn
  <2> QED
    BY <2>1, <2>2 DEF NoncesAreBound
<1>5. \A t \in Slots : FlowOK(t)'
  BY <1>1, OthersKeep DEF LinksGrow
<1> QED
  BY <1>1, <1>3, <1>4, <1>5, IInvPartsNext DEF AddressesDiffer, LinksOK

\* Steps that touch neither a flow nor what a nonce is bound to.
LEMMA AsideStep ==
    ASSUME IInv, UNCHANGED <<mail, starter, flow, known, relocated>>, LinksGrow,
           user' \in [Mails -> Row], code' \in [Nonces -> Subs \cup {None, Spent}],
           cookie' \in [Browsers -> Nonces \cup {None}],
           \A b \in Browsers : cookie'[b] \in {cookie[b], None}
    PROVE  IInv'
<1>1. /\ TypeOK /\ NoncesAreBound /\ AddressesDiffer
  BY IInvParts
<1>2. TypeOK'
  BY <1>1 DEF TypeOK
<1>3. NoncesAreBound'
  BY <1>1 DEF NoncesAreBound, SignedIn
<1>4. \A t \in Slots : FlowOK(t)'
  BY OthersKeep
<1>5. LinksOK'
  BY LinksKeep
<1> QED
  BY <1>1, <1>2, <1>3, <1>4, <1>5, IInvPartsNext DEF AddressesDiffer

LEMMA ExpireCookieStep == ASSUME IInv, NEW b \in Browsers, ExpireCookie(b) PROVE IInv'
<1>1. TypeOK
  BY IInvParts
<1>2. /\ cookie' \in [Browsers -> Nonces \cup {None}]
      /\ \A x \in Browsers : cookie'[x] \in {cookie[x], None}
  BY <1>1 DEF ExpireCookie, TypeOK
<1> QED
  BY <1>1, <1>2, AsideStep DEF ExpireCookie, TypeOK, LinksGrow

LEMMA ConsentStep == ASSUME IInv, NEW n \in Nonces, NEW g \in Subs, Consent(n, g) PROVE IInv'
<1>1. TypeOK
  BY IInvParts
<1>2. code' \in [Nonces -> Subs \cup {None, Spent}]
  BY <1>1 DEF Consent, TypeOK
<1> QED
  BY <1>1, <1>2, AsideStep DEF Consent, TypeOK, LinksGrow

LEMMA PasswordStep ==
    ASSUME IInv, NEW m \in Mails, NEW p \in Passwords, Register(m, p) \/ ResetPassword(m, p)
    PROVE  IInv'
<1>1. TypeOK
  BY IInvParts
<1>2. user' = [user EXCEPT ![m].password = p]
  BY DEF Register, ResetPassword
<1>3. user' \in [Mails -> Row] /\ \A a \in Mails : user'[a].sub = user[a].sub
  BY <1>1, <1>2 DEF TypeOK, Row
<1> QED
  BY <1>1, <1>3, AsideStep DEF Register, ResetPassword, TypeOK, LinksGrow

LEMMA MoveMailsStep == ASSUME IInv, MoveMails PROVE IInv'
<1>1. /\ TypeOK /\ NoncesAreBound /\ AddressesDiffer /\ relocated' = TRUE
      /\ UNCHANGED <<user, cookie, starter, code, flow, known>>
      /\ \A s \in Slots : flow[s].pc \notin Awaits
  BY IInvParts DEF MoveMails
<1>2. mail' \in Addresses
  BY DEF MoveMails
<1>3. TypeOK' /\ AddressesDiffer'
  BY <1>1, <1>2 DEF TypeOK, Addresses, AddressesDiffer
<1>4. NoncesAreBound'
  BY <1>1 DEF NoncesAreBound, SignedIn
<1>5. ASSUME NEW t \in Slots PROVE FlowOK(t)'
  <2>1. FlowOK(t) /\ flow[t].pc \notin {"select", "insert", "link", "session"}
    BY <1>1, IInvParts DEF Awaits
  <2> QED
    BY <1>1, <2>1 DEF FlowOK, Identified, Served, SignedIn
<1> QED
  BY <1>1, <1>3, <1>4, <1>5, IInvPartsNext DEF LinksOK

LEMMA StepIInv == IInv /\ [Next]_vars => IInv'
<1> SUFFICES ASSUME IInv, [Next]_vars PROVE IInv'
  OBVIOUS
<1>1. ASSUME NEW b \in Browsers, NEW n \in Nonces, Initiate(b, n) PROVE IInv'
  BY <1>1, InitiateStep
<1>2. ASSUME NEW b \in Browsers, ExpireCookie(b) PROVE IInv'
  BY <1>2, ExpireCookieStep
<1>3. ASSUME NEW n \in Nonces, NEW g \in Subs, Consent(n, g) PROVE IInv'
  BY <1>3, ConsentStep
<1>4. CASE MoveMails
  BY <1>4, MoveMailsStep
<1>5. ASSUME NEW m \in Mails, NEW p \in Passwords, Register(m, p) \/ ResetPassword(m, p)
      PROVE  IInv'
  BY <1>5, PasswordStep
<1>6. ASSUME NEW s \in Slots, NEW b \in Browsers, NEW n \in Nonces \cup {None},
             NEW c \in Nonces \cup {None}, Callback(s, b, n, c)
      PROVE  IInv'
  BY <1>6, CallbackStep
<1>7. ASSUME NEW s \in Slots, Continue(s) PROVE IInv'
  BY <1>7, ContinueStep
<1>8. ASSUME NEW s \in Slots, Receive(s) PROVE IInv'
  BY <1>8, ReceiveStep
<1>9. CASE Crash
  BY <1>9, CrashStep
<1>10. CASE UNCHANGED vars
  BY <1>10, IInvParts, AsideStep DEF vars, TypeOK, LinksGrow
<1> QED
  BY <1>1, <1>2, <1>3, <1>4, <1>5, <1>6, <1>7, <1>8, <1>9, <1>10 DEF Next

\* The invariant itself: what each await of a callback finds as it left it.
THEOREM Invariant == Spec => []IInv
BY InitIInv, StepIInv, PTL DEF Spec

-----------------------------------------------------------------------------
\* Every variable keeps the type that OAuth gives it.
THEOREM OAuthTypes == Spec => []TypeOK
<1>1. IInv => TypeOK
  BY DEF IInv
<1> QED
  BY <1>1, Invariant, PTL

\* A session made by a callback goes to the browser that began the sign-in: the
\* nonce of a cookie is always one that was drawn for that browser, and a
\* callback takes its nonce from the cookie before its first await.
THEOREM StartersGetTheirSession == Spec => []SessionsGoToTheStarter
<1>1. IInv => SessionsGoToTheStarter
  BY DEF IInv, NoncesAreBound, SessionsGoToTheStarter
<1> QED
  BY <1>1, Invariant, PTL

\* Google accounts that are linked are signed in to their account or not at all.
THEOREM KnownKeepTheirAccount == Spec => []ReturningUsersKeepTheirAccount
<1>1. IInv => ReturningUsersKeepTheirAccount
  BY DEF IInv, AccountsAreFound, Served, ReturningUsersKeepTheirAccount
<1> QED
  BY <1>1, Invariant, PTL

\* As long as addresses do not move between Google accounts, whoever is signed
\* in is linked to the account ...
THEOREM SignedInIsLinked == Spec => []SignInsAreLinked
<1>1. IInv => SignInsAreLinked
  BY DEF IInv, LinksAreAddresses, SignInsAreLinked
<1> QED
  BY <1>1, Invariant, PTL

\* ... and, again until one moves, a Google account that is linked never meets a database error.
THEOREM ReturningAreServed == Spec => []ReturningUsersGetIn
<1>1. IInv => ReturningUsersGetIn
  BY DEF IInv, LinksAreAddresses, ReturningUsersGetIn
<1> QED
  BY <1>1, Invariant, PTL

-----------------------------------------------------------------------------
(* Every step is one of UserTable, or changes no row. *)

LEMMA TableInit == Init => Table!Init
<1> SUFFICES ASSUME Init PROVE Table!Init
  OBVIOUS
<1>1. user \in [Mails -> Row] /\ \A m \in Mails : user[m].sub # None => mail[user[m].sub] = m
  BY DEF Init
<1>2. Table!SubsDiffer
  BY <1>1 DEF Table!SubsDiffer
<1> QED
  BY <1>1, <1>2 DEF Table!Init, Table!Row, Row

LEMMA RegisterIsTable ==
    ASSUME TypeOK, NEW m \in Mails, NEW p \in Passwords, Register(m, p)
    PROVE  Table!Register(m, p)
<1>1. user[m] = NoRow /\ user' = [user EXCEPT ![m].password = p]
  BY DEF Register, Exists
<1>2. [user[m] EXCEPT !.password = p] = [sub |-> None, password |-> p]
  BY <1>1 DEF NoRow
<1> QED
  BY <1>1, <1>2 DEF NoRow, Table!Register, Table!Exists, Table!NoRow

LEMMA ResetIsTable ==
    ASSUME NEW m \in Mails, NEW p \in Passwords, ResetPassword(m, p)
    PROVE  Table!ResetPassword(m, p)
BY DEF ResetPassword, Table!ResetPassword

\* A google_sub that no row has may go to a row without one, new or not.
LEMMA NewSubIsTable ==
    ASSUME TypeOK, NEW m \in Mails, NEW g \in Subs, user[m].sub = None, SubIsFree(g),
           user' = [user EXCEPT ![m].sub = g]
    PROVE  Table!SignUp(m, g) \/ Table!Link(m, g)
<1>1. Table!SubIsFree(g)
  BY DEF SubIsFree, Table!SubIsFree
<1>2. CASE user[m] = NoRow
  <2>1. [user[m] EXCEPT !.sub = g] = [sub |-> g, password |-> None]
    BY <1>2 DEF NoRow
  <2> QED
    BY <1>1, <1>2, <2>1 DEF NoRow, Table!SignUp, Table!Exists, Table!NoRow
<1>3. CASE user[m] # NoRow
  BY <1>1, <1>3 DEF NoRow, Table!Link, Table!Exists, Table!NoRow
<1> QED
  BY <1>2, <1>3

LEMMA InsertIsTable ==
    ASSUME IInv, NEW s \in Slots, InsertUser(s)
    PROVE  Table!Next \/ UNCHANGED user
<1> DEFINE q == flow[s]
<1>1. TypeOK /\ q.sub \in Subs /\ q.mail \in Mails
  BY IInvParts DEF InsertUser, FlowOK, Identified, TypeOK
<1>2. CASE /\ ~Exists(q.mail) /\ SubIsFree(q.sub)
           /\ user' = [user EXCEPT ![q.mail].sub = q.sub]
  <2>1. user[q.mail].sub = None
    BY <1>2 DEF Exists, NoRow
  <2> QED
    BY <1>1, <1>2, <2>1, NewSubIsTable DEF Table!Next
<1> QED
  BY <1>2 DEF InsertUser, NoWrite

LEMMA LinkIsTable ==
    ASSUME IInv, NEW s \in Slots, LinkUser(s)
    PROVE  Table!Next \/ UNCHANGED user
<1> DEFINE q == flow[s]
<1>1. /\ TypeOK /\ q.sub \in Subs /\ q.sub # None /\ q.account \in Mails
      /\ user[q.account].sub \in {None, q.sub}
  BY IInvParts, NoneAssumption DEF LinkUser, FlowOK, Identified, TypeOK
<1>2. CASE /\ ~\E a \in Mails \ {q.account} : user[a].sub = q.sub
           /\ user' = [user EXCEPT ![q.account].sub = q.sub]
  <2>1. CASE user[q.account].sub = None
    <3>1. SubIsFree(q.sub)
      BY <1>1, <1>2, <2>1 DEF SubIsFree
    <3> QED
      BY <1>1, <1>2, <2>1, <3>1, NewSubIsTable DEF Table!Next
  <2>2. CASE user[q.account].sub = q.sub
    BY <1>1, <1>2, <2>2 DEF TypeOK, Row
  <2> QED
    BY <1>1, <2>1, <2>2
<1> QED
  BY <1>1, <1>2 DEF LinkUser, Linked, NoWrite, TypeOK

LEMMA TableStep == IInv /\ [Next]_vars => [Table!Next]_user
<1> SUFFICES ASSUME IInv, [Next]_vars PROVE Table!Next \/ UNCHANGED user
  OBVIOUS
<1>1. ASSUME NEW m \in Mails, NEW p \in Passwords, Register(m, p) \/ ResetPassword(m, p)
      PROVE  Table!Next
  BY <1>1, IInvParts, RegisterIsTable, ResetIsTable DEF Table!Next
<1>2. ASSUME NEW s \in Slots, Continue(s) PROVE Table!Next \/ UNCHANGED user
  <2>1. CASE ExchangeSucceeds(s) \/ ExchangeFails(s) \/ SelectUser(s) \/ CreateSession(s)
    BY <2>1 DEF ExchangeSucceeds, ExchangeFails, SelectUser, CreateSession, NoWrite
  <2> QED
    BY <1>2, <2>1, InsertIsTable, LinkIsTable DEF Continue
<1> QED
  BY <1>1, <1>2
  DEF Next, Initiate, ExpireCookie, Consent, MoveMails, Callback, Receive, Crash, NoWrite, vars

\* Callbacks, registrations and resets together do to a row only what UserTable
\* allows: the unique index decides who gets a google_sub, and the UPDATE of a link
\* leaves the rest of the row as it is at the COMMIT, not as it was loaded.
THEOREM RowsAreKept == Spec => ImplementsUserTable
<1> QED
  BY Invariant, TableInit, TableStep, PTL DEF Spec, ImplementsUserTable, Table!Spec
=============================================================================
