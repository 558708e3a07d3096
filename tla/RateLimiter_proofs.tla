------------------------- MODULE RateLimiter_proofs -------------------------
(***************************************************************************)
(* For every set of addresses, every number of logins in flight and every  *)
(* limit and window, the limiter bounds the failures of an address and the *)
(* length of its list, and counts exactly the failures it should.          *)
(***************************************************************************)
EXTENDS RateLimiter, FiniteSetTheorems, TLAPS

IInv == TypeOK /\ FailuresAreBounded /\ ListsAreBounded /\ CountsAreExact

\* The sets that the bounds count are finite.
LEMMA Finiteness ==
    ASSUME TypeOK, NEW ip \in Addresses
    PROVE  /\ IsFiniteSet(store[ip]) /\ Cardinality(store[ip]) \in Nat
           /\ IsFiniteSet(Recent(ip)) /\ Cardinality(Recent(ip)) \in Nat
           /\ Cardinality(Recent(ip)) <= Cardinality(store[ip])
           /\ IsFiniteSet(Pending(ip)) /\ Cardinality(Pending(ip)) \in Nat
           /\ Cardinality(Pending(ip)) <= Cardinality(Slots)
           /\ Cardinality(Slots) \in Nat
<1>1. IsFiniteSet(store[ip])
  <2>1. store[ip] \in SUBSET Entries  BY DEF TypeOK
  <2> QED  BY <2>1, FS_Subset, FiniteAssumption
<1>2. Recent(ip) \in SUBSET store[ip]  BY DEF Recent
<1>3. IsFiniteSet(Recent(ip)) /\ Cardinality(Recent(ip)) <= Cardinality(store[ip])
  BY <1>1, <1>2, FS_Subset
<1>4. Pending(ip) \in SUBSET Slots  BY DEF Pending
<1>5. IsFiniteSet(Pending(ip)) /\ Cardinality(Pending(ip)) <= Cardinality(Slots)
  BY <1>4, FS_Subset, FiniteAssumption
<1> QED  BY <1>1, <1>3, <1>5, FS_CardinalityType, FiniteAssumption

\* A subset of a finite set has no more elements than it.
LEMMA SmallerSet ==
    ASSUME NEW S, IsFiniteSet(S), NEW T, T \subseteq S
    PROVE  Cardinality(T) \in Nat /\ Cardinality(T) <= Cardinality(S)
BY FS_Subset, FS_CardinalityType

LEMMA InitIInv == Init => IInv
<1> SUFFICES ASSUME Init PROVE IInv  OBVIOUS
<1> USE DEF Init, NoFailures
<1>1. TypeOK  BY SettingsAssumption DEF TypeOK
<1>2. CountsAreExact  BY DEF CountsAreExact, Recent
<1>3. ASSUME NEW ip \in Addresses
      PROVE  /\ Cardinality(store[ip]) = 0
             /\ Cardinality(Recent(ip)) = 0
             /\ Cardinality(Pending(ip)) = 0
  <2>1. store[ip] = {} /\ Recent(ip) = {}  BY DEF Recent
  <2>2. Pending(ip) = {}  BY AddressAssumption DEF Pending
  <2> QED  BY <2>1, <2>2, FS_EmptySet
<1>4. Cardinality(Slots) \in Nat  BY FS_CardinalityType, FiniteAssumption
<1>5. FailuresAreBounded /\ ListsAreBounded
  BY <1>3, <1>4, SettingsAssumption DEF FailuresAreBounded, ListsAreBounded, MaxRecent
<1> QED  BY <1>1, <1>2, <1>5 DEF IInv

\* A request's address is one of the keys, whatever its headers.
LEMMA ClientIpType ==
    ASSUME NEW forwarded \in Addresses \cup {Nil}, NEW host \in Addresses \cup {Nil}
    PROVE  ClientIp(forwarded, host) \in Addresses
<1>1. CASE TrustProxy /\ forwarded # Nil  BY <1>1 DEF ClientIp
<1>2. CASE host # Nil /\ ~(TrustProxy /\ forwarded # Nil)  BY <1>2 DEF ClientIp
<1>3. CASE host = Nil /\ ~(TrustProxy /\ forwarded # Nil)
  BY <1>3, AddressAssumption DEF ClientIp
<1> QED  BY <1>1, <1>2, <1>3

\* A login that leaves without a record: the lists are what they were.
LEMMA LeavingIsHarmless ==
    ASSUME IInv, NEW s \in Slots, login' = [login EXCEPT ![s] = Nil],
           store' = store, age' = age, failed' = failed
    PROVE  IInv'
<1> USE DEF IInv
<1>1. TypeOK'  BY DEF TypeOK
<1>2. CountsAreExact'  BY DEF CountsAreExact, Recent, IsRecent
<1>3. ListsAreBounded'  BY DEF ListsAreBounded, MaxRecent
<1>4. ASSUME NEW ip \in Addresses
      PROVE  Cardinality(Recent(ip)') + Cardinality(Pending(ip)') <= MaxRecent
  <2>1. Recent(ip)' = Recent(ip)  BY DEF Recent, IsRecent
  <2>2. Pending(ip)' \subseteq Pending(ip)
    BY <1>1, AddressAssumption DEF Pending, TypeOK
  <2>3. Cardinality(Pending(ip)') \in Nat /\ Cardinality(Pending(ip)') <= Cardinality(Pending(ip))
    BY <2>2, Finiteness, SmallerSet
  <2>4. Cardinality(Recent(ip)) + Cardinality(Pending(ip)) <= MaxRecent
    BY DEF FailuresAreBounded
  <2> QED  BY <2>1, <2>3, <2>4, Finiteness, SettingsAssumption DEF MaxRecent
<1>5. FailuresAreBounded'  BY <1>4 DEF FailuresAreBounded, MaxRecent
<1> QED  BY <1>1, <1>2, <1>3, <1>5

LEMMA CheckKeepsIInv ==
    ASSUME IInv, NEW s \in Slots, CheckLoginRateLimit(s)
    PROVE  IInv'
<1> USE DEF IInv
<1>1. PICK ip \in Addresses : Admits(ip) /\ login' = [login EXCEPT ![s] = ip]
  BY ClientIpType DEF CheckLoginRateLimit
<1>2. UNCHANGED <<store, age, failed>>  BY DEF CheckLoginRateLimit
<1>3. TypeOK'  BY <1>1, <1>2 DEF TypeOK
<1>4. CountsAreExact'  BY <1>2 DEF CountsAreExact, Recent, IsRecent
<1>5. ListsAreBounded'  BY <1>2 DEF ListsAreBounded, MaxRecent
<1>6. ASSUME NEW a \in Addresses
      PROVE  Cardinality(Recent(a)') + Cardinality(Pending(a)') <= MaxRecent
  <2>1. Recent(a)' = Recent(a)  BY <1>2 DEF Recent, IsRecent
  <2>2. CASE a = ip
    <3>1. Cardinality(Recent(a)) < Limit  BY <1>1, <2>2 DEF Admits
    <3>2. Pending(a)' \subseteq Slots  BY DEF Pending
    <3>3. Cardinality(Pending(a)') \in Nat /\ Cardinality(Pending(a)') <= Cardinality(Slots)
      BY <3>2, SmallerSet, FiniteAssumption
    <3> QED  BY <2>1, <3>1, <3>3, Finiteness, SettingsAssumption DEF MaxRecent
  <2>3. CASE a # ip
    <3>1. Pending(a)' \subseteq Pending(a)  BY <1>1, <2>3 DEF Pending, TypeOK
    <3>2. Cardinality(Pending(a)') \in Nat /\ Cardinality(Pending(a)') <= Cardinality(Pending(a))
      BY <3>1, Finiteness, SmallerSet
    <3>3. Cardinality(Recent(a)) + Cardinality(Pending(a)) <= MaxRecent
      BY DEF FailuresAreBounded
    <3> QED  BY <2>1, <3>2, <3>3, Finiteness, SettingsAssumption DEF MaxRecent
  <2> QED  BY <2>2, <2>3
<1>7. FailuresAreBounded'  BY <1>6 DEF FailuresAreBounded, MaxRecent
<1> QED  BY <1>3, <1>4, <1>5, <1>7

\* A recorded failure moves from the logins in flight to the list, and the new
\* list holds recent entries only.
LEMMA RecordKeepsIInv ==
    ASSUME IInv, NEW s \in Slots, RecordFailedLogin(s)
    PROVE  IInv'
<1> USE DEF IInv
<1>1. PICK ip \in Addresses : ip = login[s]  BY DEF RecordFailedLogin, TypeOK
<1>2. PICK e \in Entries :
          /\ IsFresh(e, ip)
          /\ store' = [store EXCEPT ![ip] = Kept(ip) \cup {e}]
          /\ age' = [age EXCEPT ![e] = 0]
          /\ failed' = [failed EXCEPT ![ip] = @ \cup {e}]
  BY <1>1 DEF RecordFailedLogin
<1>3. login' = [login EXCEPT ![s] = Nil]  BY DEF RecordFailedLogin
<1>4. Kept(ip) = Recent(ip) /\ Recent(ip) \subseteq Entries
  BY <1>1 DEF Kept, Recent, TypeOK
<1>5. TypeOK'  BY <1>1, <1>2, <1>3, <1>4, SettingsAssumption DEF TypeOK
<1>6. e \notin Recent(ip) /\ \A a \in Addresses : a # ip => e \notin store[a]
  BY <1>1, <1>2, <1>4 DEF IsFresh
<1>7. Recent(ip)' = Recent(ip) \cup {e} /\ store'[ip] = Recent(ip) \cup {e}
  <2>1. store'[ip] = Recent(ip) \cup {e}  BY <1>1, <1>2, <1>4 DEF TypeOK
  <2>2. age'[e] = 0  BY <1>2 DEF TypeOK
  <2>3. \A x \in Recent(ip) : x \in Entries /\ age'[x] = age[x] /\ age[x] < Window
    BY <1>2, <1>4, <1>6 DEF Recent, IsRecent, TypeOK
  <2> QED  BY <2>1, <2>2, <2>3, SettingsAssumption DEF Recent, IsRecent
<1>8. ASSUME NEW a \in Addresses, a # ip
      PROVE  Recent(a)' = Recent(a) /\ store'[a] = store[a]
  <2>1. store'[a] = store[a]  BY <1>2, <1>8 DEF TypeOK
  <2>2. \A x \in store[a] : age'[x] = age[x]
    BY <1>2, <1>6, <1>8 DEF TypeOK
  <2> QED  BY <2>1, <2>2 DEF Recent, IsRecent
<1>9. CountsAreExact'
  BY <1>1, <1>2, <1>7, <1>8 DEF CountsAreExact, TypeOK
<1>10. Cardinality(Recent(ip)') = Cardinality(Recent(ip)) + 1
  BY <1>1, <1>6, <1>7, Finiteness, FS_AddElement
<1>11. Pending(ip)' = Pending(ip) \ {s} /\ s \in Pending(ip)
  BY <1>1, <1>3, AddressAssumption DEF Pending, TypeOK
<1>12. Cardinality(Pending(ip)') = Cardinality(Pending(ip)) - 1
  <2>1. IsFiniteSet(Pending(ip))  BY Finiteness
  <2>2. Cardinality(Pending(ip) \ {s}) = Cardinality(Pending(ip)) - 1
    BY <1>11, <2>1, FS_RemoveElement
  <2> QED  BY <1>11, <2>2
<1>13. \A a \in Addresses : a # ip => Pending(a)' = Pending(a)
  BY <1>1, <1>3, AddressAssumption DEF Pending, TypeOK
<1>14. FailuresAreBounded'
  <2>1. MaxRecent' = MaxRecent  BY DEF MaxRecent
  <2>2. Cardinality(Recent(ip)') + Cardinality(Pending(ip)') <= MaxRecent
    BY <1>1, <1>10, <1>12, Finiteness, SettingsAssumption DEF FailuresAreBounded, MaxRecent
  <2>3. ASSUME NEW a \in Addresses, a # ip
        PROVE  Cardinality(Recent(a)') + Cardinality(Pending(a)') <= MaxRecent
    BY <1>8, <1>13, <2>3 DEF FailuresAreBounded
  <2> QED  BY <2>1, <2>2, <2>3 DEF FailuresAreBounded
<1>15. ListsAreBounded'
  <2>1. Cardinality(store'[ip]) <= MaxRecent
    <3>1. Cardinality(Pending(ip)) >= 1
      BY <1>1, <1>11, Finiteness, FS_EmptySet
    <3> QED  BY <1>1, <1>7, <1>10, <3>1, Finiteness, SettingsAssumption
             DEF FailuresAreBounded, MaxRecent
  <2> QED  BY <1>8, <2>1 DEF ListsAreBounded, MaxRecent
<1> QED  BY <1>5, <1>9, <1>14, <1>15

\* The list of one address, or of all of them, is emptied and the logins leave.
LEMMA ForgettingIsHarmless ==
    ASSUME IInv, TypeOK', age' = age,
           \A a \in Addresses :
              \/ store'[a] = {} /\ failed'[a] = {}
              \/ store'[a] = store[a] /\ failed'[a] = failed[a],
           \A s \in Slots : login'[s] \in {login[s], Nil}
    PROVE  IInv'
<1> USE DEF IInv
<1>1. CountsAreExact'  BY DEF CountsAreExact, Recent, IsRecent
<1>2. ASSUME NEW a \in Addresses
      PROVE  /\ Cardinality(store'[a]) <= MaxRecent
             /\ Cardinality(Recent(a)') + Cardinality(Pending(a)') <= MaxRecent
  <2>1. Recent(a)' \subseteq Recent(a) /\ store'[a] \subseteq store[a]
    BY DEF Recent, IsRecent
  <2>2. Pending(a)' \subseteq Pending(a)  BY AddressAssumption DEF Pending
  <2>3. /\ Cardinality(Recent(a)') \in Nat /\ Cardinality(Recent(a)') <= Cardinality(Recent(a))
        /\ Cardinality(store'[a]) \in Nat /\ Cardinality(store'[a]) <= Cardinality(store[a])
        /\ Cardinality(Pending(a)') \in Nat /\ Cardinality(Pending(a)') <= Cardinality(Pending(a))
    BY <2>1, <2>2, Finiteness, SmallerSet
  <2>4. /\ Cardinality(store[a]) <= MaxRecent
        /\ Cardinality(Recent(a)) + Cardinality(Pending(a)) <= MaxRecent
    BY DEF ListsAreBounded, FailuresAreBounded
  <2> QED  BY <2>3, <2>4, Finiteness, SettingsAssumption DEF MaxRecent
<1>3. FailuresAreBounded' /\ ListsAreBounded'
  BY <1>2 DEF FailuresAreBounded, ListsAreBounded, MaxRecent
<1> QED  BY <1>1, <1>3

LEMMA ResetKeepsIInv ==
    ASSUME IInv, NEW s \in Slots, ResetFailedLogins(s)
    PROVE  IInv'
<1> USE DEF IInv
<1>1. PICK ip \in Addresses : ip = login[s]  BY DEF ResetFailedLogins, TypeOK
<1>2. /\ store' = [store EXCEPT ![ip] = {}]
      /\ failed' = [failed EXCEPT ![ip] = {}]
      /\ login' = [login EXCEPT ![s] = Nil]
      /\ age' = age
  BY <1>1 DEF ResetFailedLogins, NoFailures
<1>3. TypeOK'  BY <1>1, <1>2 DEF TypeOK
<1>4. \A a \in Addresses :
         \/ store'[a] = {} /\ failed'[a] = {}
         \/ store'[a] = store[a] /\ failed'[a] = failed[a]
  BY <1>2 DEF TypeOK
<1>5. \A t \in Slots : login'[t] \in {login[t], Nil}  BY <1>2 DEF TypeOK
<1> QED  BY <1>2, <1>3, <1>4, <1>5, ForgettingIsHarmless

LEMMA RestartKeepsIInv ==
    ASSUME IInv, Restart
    PROVE  IInv'
<1> USE DEF IInv
<1>1. TypeOK'  BY DEF TypeOK, Restart, NoFailures
<1>2. \A a \in Addresses : store'[a] = {} /\ failed'[a] = {}  BY DEF Restart, NoFailures
<1>3. \A t \in Slots : login'[t] \in {login[t], Nil}  BY DEF Restart
<1>4. age' = age  BY DEF Restart
<1> QED  BY <1>1, <1>2, <1>3, <1>4, ForgettingIsHarmless

LEMMA TickKeepsIInv ==
    ASSUME IInv, Tick
    PROVE  IInv'
<1> USE DEF IInv
<1>1. \A e \in Entries : age'[e] = IF age[e] < Window THEN age[e] + 1 ELSE age[e]
  BY DEF Tick, IsRecent
<1>2. TypeOK'
  <2>1. \A e \in Entries : age'[e] \in 0..Window
    BY <1>1, SettingsAssumption DEF TypeOK
  <2>2. age' \in [Entries -> 0..Window]  BY <2>1 DEF Tick
  <2> QED  BY <2>2 DEF Tick, TypeOK
<1>3. ASSUME NEW a \in Addresses
      PROVE  /\ Recent(a)' = {e \in Recent(a) : age[e] + 1 < Window}
             /\ Recent(a)' = failed'[a]
  <2>1. store'[a] = store[a] /\ store[a] \subseteq Entries  BY DEF Tick, TypeOK
  <2>2. \A e \in Entries : age'[e] < Window <=> age[e] < Window /\ age[e] + 1 < Window
    BY <1>1, SettingsAssumption DEF TypeOK
  <2>3. Recent(a)' = {e \in Recent(a) : age[e] + 1 < Window}
    BY <2>1, <2>2 DEF Recent, IsRecent
  <2>4. failed'[a] = {e \in failed[a] : age[e] + 1 < Window}  BY DEF Tick
  <2> QED  BY <2>3, <2>4 DEF CountsAreExact
<1>4. ASSUME NEW a \in Addresses
      PROVE  Cardinality(Recent(a)') + Cardinality(Pending(a)') <= MaxRecent
  <2>1. Recent(a)' \subseteq Recent(a)  BY <1>3
  <2>2. Pending(a)' = Pending(a)  BY DEF Pending, Tick
  <2>3. Cardinality(Recent(a)') \in Nat /\ Cardinality(Recent(a)') <= Cardinality(Recent(a))
    BY <2>1, Finiteness, SmallerSet
  <2>4. Cardinality(Recent(a)) + Cardinality(Pending(a)) <= MaxRecent
    BY DEF FailuresAreBounded
  <2> QED  BY <2>2, <2>3, <2>4, Finiteness, SettingsAssumption DEF MaxRecent
<1>5. ListsAreBounded'  BY DEF ListsAreBounded, Tick, MaxRecent
<1>6. FailuresAreBounded' /\ CountsAreExact'
  BY <1>3, <1>4 DEF FailuresAreBounded, CountsAreExact, MaxRecent
<1> QED  BY <1>2, <1>5, <1>6

----------------------------------------------------------------------------
\* The conjunction is inductive.
LEMMA NextKeepsIInv == IInv /\ [Next]_vars => IInv'
<1> SUFFICES ASSUME IInv, [Next]_vars PROVE IInv'  OBVIOUS
<1>1. CASE UNCHANGED vars
  BY <1>1 DEF IInv, vars, TypeOK, FailuresAreBounded, ListsAreBounded, CountsAreExact,
              Recent, IsRecent, Pending, MaxRecent
<1>2. CASE Tick  BY <1>2, TickKeepsIInv
<1>3. CASE Restart  BY <1>3, RestartKeepsIInv
<1>4. ASSUME NEW s \in Slots, Login(s) PROVE IInv'
  <2>1. CASE CheckLoginRateLimit(s)  BY <2>1, CheckKeepsIInv
  <2>2. CASE RecordFailedLogin(s)  BY <2>2, RecordKeepsIInv
  <2>3. CASE ResetFailedLogins(s)  BY <2>3, ResetKeepsIInv
  <2>4. CASE FailToSelect(s)  BY <2>4, LeavingIsHarmless DEF FailToSelect
  <2> QED  BY <1>4, <2>1, <2>2, <2>3, <2>4 DEF Login
<1> QED  BY <1>1, <1>2, <1>3, <1>4 DEF Next

LEMMA Invariance == Spec => []IInv
BY InitIInv, NextKeepsIInv, PTL DEF Spec

\* Lists, ages and logins keep their types (auth/rate_limiter.py:22).
THEOREM LimiterTypes == Spec => []TypeOK
<1>1. IInv => TypeOK  BY DEF IInv
<1> QED  BY <1>1, Invariance, PTL

\* An address has at most Limit - 1 failures in a window plus one for each
\* login that can be in flight (auth/rate_limiter.py:53-67).
THEOREM FailuresBounded == Spec => []FailuresAreBounded
<1>1. IInv => FailuresAreBounded  BY DEF IInv
<1> QED  BY <1>1, Invariance, PTL

\* No list outgrows that bound, stale entries included (auth/rate_limiter.py:49).
THEOREM ListsBounded == Spec => []ListsAreBounded
<1>1. IInv => ListsAreBounded  BY DEF IInv
<1> QED  BY <1>1, Invariance, PTL

\* The check counts every failure of the window and no other
\* (auth/rate_limiter.py:49, 60, 74).
THEOREM CountsExact == Spec => []CountsAreExact
<1>1. IInv => CountsAreExact  BY DEF IInv
<1> QED  BY <1>1, Invariance, PTL

----------------------------------------------------------------------------
(* What LockoutsEnd rests on, besides the clock. *)

\* An entry that is counted against ip after the step was counted before it and
\* is no younger, or is the failure of a login let in before, now one fewer.
Wanes(ip) ==
    /\ Pending(ip)' \subseteq Pending(ip)
    /\ \A e \in Recent(ip)' :
          \/ e \in Recent(ip) /\ age'[e] >= age[e]
          \/ age'[e] = 0 /\ Pending(ip)' # Pending(ip)

\* While an address is refused, no attempt of its own prolongs the refusal and no
\* other address' logins do: a step only ages what is counted against it, or takes
\* in the failure of a login that was admitted earlier.
LockoutsWane == [][\A ip \in Addresses : ~Admits(ip) => Wanes(ip)]_vars

LEMMA RecordWanes ==
    ASSUME IInv, NEW s \in Slots, RecordFailedLogin(s), NEW ip \in Addresses
    PROVE  Wanes(ip)
<1>1. PICK e \in Entries :
         /\ IsFresh(e, login[s])
         /\ store' = [store EXCEPT ![login[s]] = Kept(login[s]) \cup {e}]
         /\ age' = [age EXCEPT ![e] = 0]
         /\ login' = [login EXCEPT ![s] = Nil]
  BY DEF RecordFailedLogin
<1>2. TypeOK /\ login[s] \in Addresses
  BY DEF IInv, TypeOK, RecordFailedLogin
<1>3. Pending(ip)' \subseteq Pending(ip)
  BY <1>1, <1>2, AddressAssumption DEF Pending, TypeOK
<1>4. ASSUME NEW x \in Entries, x # e PROVE age'[x] = age[x] /\ age[x] \in Nat
  BY <1>1, <1>2, <1>4, SettingsAssumption DEF TypeOK
<1>5. CASE ip = login[s]
  <2>1. s \in Pending(ip) /\ s \notin Pending(ip)'
    BY <1>1, <1>2, <1>5, AddressAssumption DEF Pending, TypeOK
  <2>2. age'[e] = 0
    BY <1>1, <1>2 DEF TypeOK
  <2>3. ASSUME NEW x \in Recent(ip)', x # e PROVE x \in Recent(ip) /\ age'[x] >= age[x]
    <3>1. x \in Kept(ip)
      BY <1>1, <1>2, <1>5, <2>3 DEF Recent, TypeOK
    <3>2. x \in Entries
      BY <1>2, <3>1 DEF Kept, Recent, TypeOK
    <3> QED
      BY <1>4, <2>3, <3>1, <3>2 DEF Kept
  <2> QED
    BY <1>3, <2>1, <2>2, <2>3 DEF Wanes
<1>6. CASE ip # login[s]
  <2>1. store'[ip] = store[ip] /\ e \notin store[ip]
    BY <1>1, <1>2, <1>6 DEF IsFresh, TypeOK
  <2>2. ASSUME NEW x \in Recent(ip)' PROVE x \in Recent(ip) /\ age'[x] >= age[x]
    <3>1. x \in store[ip] /\ x # e /\ age'[x] < Window
      BY <2>1, <2>2 DEF Recent, IsRecent
    <3>2. x \in Entries
      BY <1>2, <3>1 DEF TypeOK
    <3> QED
      BY <1>4, <3>1, <3>2 DEF Recent, IsRecent
  <2> QED
    BY <1>3, <2>2 DEF Wanes
<1> QED
  BY <1>5, <1>6

LEMMA StepWanes ==
    ASSUME IInv, [Next]_vars, NEW ip \in Addresses, ~Admits(ip)
    PROVE  Wanes(ip)
<1>0. TypeOK /\ \A e \in Entries : age[e] \in Nat
  BY SettingsAssumption DEF IInv, TypeOK
<1>1. ASSUME store' = store, age' = age, Pending(ip)' \subseteq Pending(ip) PROVE Wanes(ip)
  BY <1>0, <1>1 DEF Wanes, Recent, IsRecent, TypeOK
<1>2. CASE UNCHANGED vars
  BY <1>1, <1>2 DEF vars, Pending
<1>3. ASSUME NEW s \in Slots, CheckLoginRateLimit(s) PROVE Wanes(ip)
  <2>1. PICK x : Admits(x) /\ login' = [login EXCEPT ![s] = x]
    BY <1>3 DEF CheckLoginRateLimit
  <2>2. Pending(ip)' \subseteq Pending(ip)
    BY <1>0, <2>1 DEF Pending, TypeOK
  <2> QED
    BY <1>1, <1>3, <2>2 DEF CheckLoginRateLimit
<1>4. ASSUME NEW s \in Slots, ResetFailedLogins(s) PROVE Wanes(ip)
  <2>1. Pending(ip)' \subseteq Pending(ip)
    BY <1>0, <1>4, AddressAssumption DEF ResetFailedLogins, Pending, TypeOK
  <2>2. Recent(ip)' \subseteq Recent(ip) /\ age' = age
    BY <1>0, <1>4 DEF ResetFailedLogins, NoFailures, Recent, IsRecent, TypeOK
  <2> QED
    BY <1>0, <2>1, <2>2 DEF Wanes, Recent, TypeOK
<1>5. ASSUME NEW s \in Slots, FailToSelect(s) PROVE Wanes(ip)
  BY <1>0, <1>1, <1>5, AddressAssumption DEF FailToSelect, Pending, TypeOK
<1>6. CASE Tick
  <2>1. \A e \in Entries : age'[e] >= age[e]
    BY <1>0, <1>6 DEF Tick
  <2>2. Recent(ip)' \subseteq Recent(ip)
    BY <1>0, <1>6 DEF Tick, Recent, IsRecent, TypeOK
  <2> QED
    BY <1>0, <1>6, <2>1, <2>2 DEF Wanes, Tick, Pending, Recent, TypeOK
<1>7. CASE Restart
  BY <1>0, <1>7, AddressAssumption DEF Restart, NoFailures, Wanes, Pending, Recent, TypeOK
<1> QED
  BY <1>2, <1>3, <1>4, <1>5, <1>6, <1>7, RecordWanes DEF Next, Login

\* A refusal is never prolonged from outside: what is left of LockoutsEnd is that
\* the clock advances and that the logins let in are finitely many.
THEOREM RefusalsWane == Spec => LockoutsWane
<1>1. IInv /\ [Next]_vars => [\A ip \in Addresses : ~Admits(ip) => Wanes(ip)]_vars
  BY StepWanes
<1> QED
  BY <1>1, Invariance, PTL DEF Spec, LockoutsWane
=============================================================================
