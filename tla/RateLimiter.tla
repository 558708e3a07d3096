---------------------------- MODULE RateLimiter ----------------------------
(***************************************************************************)
(* The limiter of failed logins (auth/rate_limiter.py) and the login that  *)
(* uses it (auth/router.py:76-112).  The program keeps, in memory, a list  *)
(* of failure times for each client address; a login is checked against it *)
(* on arrival, then awaits the database, and only then records its failure *)
(* or, on success, drops the list.  Entries carry their age, which stops   *)
(* at Window, instead of a date.                                           *)
(***************************************************************************)
EXTENDS Naturals, FiniteSets

CONSTANTS
    Addresses,   \* keys of _store
    Unknown,     \* the key of a client without an address
    Slots,       \* logins that may be in flight at once
    Entries,     \* identities of the entries of the lists
    Limit,       \* settings.rate_limit_login_attempts
    Window,      \* settings.rate_limit_login_window_seconds, in ticks
    TrustProxy,  \* settings.trust_proxy
    Nil          \* an absent header, an absent peer, an address not yet known

ASSUME SettingsAssumption == Limit \in Nat \ {0} /\ Window \in Nat \ {0} /\ TrustProxy \in BOOLEAN
ASSUME FiniteAssumption == IsFiniteSet(Slots) /\ IsFiniteSet(Entries)
ASSUME AddressAssumption == Unknown \in Addresses /\ Nil \notin Addresses

VARIABLES
    store,   \* _store: the entries listed for each address
    age,     \* the age of each entry, at most Window
    login,   \* the address of the login in each slot, or Nil
    failed   \* history: entries younger than the window of the failures of each
             \* address since its last success and since the process started

vars == <<store, age, login, failed>>

\* What no list can exceed, and what Entries must provide.
MaxRecent == Limit - 1 + Cardinality(Slots)
ASSUME EntriesSuffice == Cardinality(Entries) >= Cardinality(Addresses) * MaxRecent

IsRecent(e) == age[e] < Window
Recent(ip) == {e \in store[ip] : IsRecent(e)}

\* Logins that passed the check and have neither failed nor succeeded.
Pending(ip) == {s \in Slots : login[s] = ip}

----------------------------------------------------------------------------
\* What an address without a list reads as.
NoFailures == {}

Init ==
    /\ store = [ip \in Addresses |-> NoFailures]
    /\ age = [e \in Entries |-> Window]
    /\ login = [s \in Slots |-> Nil]
    /\ failed = [ip \in Addresses |-> {}]

ClientIp(forwarded, host) ==
    CASE TrustProxy /\ forwarded # Nil -> forwarded
      [] host # Nil /\ ~(TrustProxy /\ forwarded # Nil) -> host
      [] OTHER -> Unknown

\* Mutant of Admits: one attempt too many.
AdmitsOneMore(ip) == Cardinality(Recent(ip)) <= Limit

\* Mutant of Admits: the list is counted with its stale entries.
AdmitsByLength(ip) == Cardinality(store[ip]) < Limit

Admits(ip) == Cardinality(Recent(ip)) < Limit

\* check_login_rate_limit: a refused login is answered 429 and leaves no trace.
CheckLoginRateLimit(s) ==
    /\ login[s] = Nil
    /\ \E forwarded, host \in Addresses \cup {Nil} :
          LET ip == ClientIp(forwarded, host) IN
          /\ Admits(ip)
          /\ login' = [login EXCEPT ![s] = ip]
    /\ UNCHANGED <<store, age, failed>>

\* Mutant of Kept: nothing is evicted.
KeptForever(ip) == store[ip]

\* Mutant of Kept: the comparison is the wrong way round.
KeptStale(ip) == {e \in store[ip] : ~IsRecent(e)}

\* The entries that survive the eviction.
Kept(ip) == Recent(ip)

\* e is in no list, once that of ip is evicted.
IsFresh(e, ip) ==
    \A other \in Addresses : e \notin (IF other = ip THEN Kept(ip) ELSE store[other])

\* record_failed_login, before the 401.
RecordFailedLogin(s) ==
    LET ip == login[s] IN
    /\ ip # Nil
    /\ \E e \in Entries :
          /\ IsFresh(e, ip)
          /\ store' = [store EXCEPT ![ip] = Kept(ip) \cup {e}]
          /\ age' = [age EXCEPT ![e] = 0]
          /\ failed' = [failed EXCEPT ![ip] = @ \cup {e}]
    /\ login' = [login EXCEPT ![s] = Nil]

\* reset_failed_logins, when the password is right.
ResetFailedLogins(s) ==
    LET ip == login[s] IN
    /\ ip # Nil
    /\ store' = [store EXCEPT ![ip] = NoFailures]
    /\ failed' = [failed EXCEPT ![ip] = {}]
    /\ login' = [login EXCEPT ![s] = Nil]
    /\ UNCHANGED age

\* The SELECT fails: a 500, which is not counted.
FailToSelect(s) ==
    /\ login[s] # Nil
    /\ login' = [login EXCEPT ![s] = Nil]
    /\ UNCHANGED <<store, age, failed>>

\* The clock advances by a tick; nothing else happens to the lists.
Tick ==
    /\ age' = [e \in Entries |-> IF IsRecent(e) THEN age[e] + 1 ELSE age[e]]
    /\ failed' = [ip \in Addresses |-> {e \in failed[ip] : age[e] + 1 < Window}]
    /\ UNCHANGED <<store, login>>

\* The lists are in memory only, and the history ends with them: the module
\* promises nothing across a restart (auth/rate_limiter.py:6-8).
Restart ==
    /\ store' = [ip \in Addresses |-> NoFailures]
    /\ login' = [s \in Slots |-> Nil]
    /\ failed' = [ip \in Addresses |-> {}]
    /\ UNCHANGED age

Login(s) ==
    CheckLoginRateLimit(s) \/ RecordFailedLogin(s) \/ ResetFailedLogins(s) \/ FailToSelect(s)

Next == (\E s \in Slots : Login(s)) \/ Tick \/ Restart

Spec == Init /\ [][Next]_vars

\* Time passes; of the logins nothing is assumed.
FairSpec == Spec /\ WF_vars(Tick)

----------------------------------------------------------------------------
TypeOK ==
    /\ store \in [Addresses -> SUBSET Entries]
    /\ age \in [Entries -> 0..Window]
    /\ login \in [Slots -> Addresses \cup {Nil}]
    /\ failed \in [Addresses -> SUBSET Entries]

\* Logins checked at the same time all pass, before any of them is counted
\* (auth/router.py:83-103): an address can fail more than Limit times in a
\* window, but never more than once more for every other login in flight, as
\* long as the process lives.
FailuresAreBounded ==
    \A ip \in Addresses : Cardinality(Recent(ip)) + Cardinality(Pending(ip)) <= MaxRecent

\* Lists are evicted only when something is appended to them
\* (auth/rate_limiter.py:49), and yet no list ever grows beyond that bound.
ListsAreBounded == \A ip \in Addresses : Cardinality(store[ip]) <= MaxRecent

\* The eviction drops exactly what no later check would count: the failures
\* counted for an address are those of the last Window ticks since its last
\* success in the life of the process, none lost and none of another address.
CountsAreExact == \A ip \in Addresses : Recent(ip) = failed[ip]

\* An address that is refused is admitted again if nobody touches its list:
\* refused logins do not prolong the refusal.
LockoutsEnd == \A ip \in Addresses : ~Admits(ip) ~> Admits(ip)

\* What the requirements say (docs/planning/prd-1-auth.md:77): after Limit
\* failures within the window, further attempts are rejected with a 429, not
\* verified and recorded.
FurtherAttemptsAreRejected ==
    [][\A s \in Slots : RecordFailedLogin(s) => Admits(login[s])]_vars
=============================================================================
