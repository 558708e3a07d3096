# A verification project for shared-todos

TLA+ models of the backend of shared-todos (`backend/app/`): lists of to-do
items shared between users, with password accounts, sessions and password
resets, sign-in with Google, the browser's cookies and the pool of database
connections. TLC checks the models on small instances; TLAPS proves the most
important properties for every value of the constants.

## 1. The system

The program is a FastAPI application: one process, one event loop, one
PostgreSQL database. A handler is a coroutine that runs without interruption up
to an `await` and then yields to any other; almost all awaits are database
statements. One handler does input and output without an await: the Google callback
calls `verify_token`, which fetches Google's certificates synchronously
(`auth/oauth.py:184`), and while it does nobody else runs. Each request has one `AsyncSession`, hence one transaction at a time,
opened by its first statement and ended by its `commit()` or, if it raises, by a
rollback. PostgreSQL runs at its default level, READ COMMITTED: each statement
sees what is committed when that statement runs. Nothing in the code takes
explicit locks in the database, and the only state in memory is the limiter's.

| Component | State | Operations | Talks to |
|---|---|---|---|
| Authorization (`authz/`) | none | `require_list_permission`: two SELECTs, then a table look-up | every list-scoped endpoint depends on it |
| Lists (`lists/router.py`) | `lists` | create, list, get, rename, delete | delete cascades to items and shares |
| Items (`items/router.py`) | `items` | create, list, update, delete | authorized through their list |
| Shares (`shares/router.py`) | `shares` | create, list, change role, revoke | decides what authorization answers |
| Accounts (`auth/router.py`, `models/user.py`) | `users` | register, login | sessions, limiter |
| Sessions (`auth/session.py`, `auth/dependencies.py`) | `sessions` | create, look up, logout, invalidate all | every authenticated endpoint |
| Password reset (`auth/router.py`, `auth/email.py`) | `password_reset_tokens` | request, validate, complete | accounts, sessions, the mail server |
| Rate limiter (`auth/rate_limiter.py`) | a dict in memory | check, record, reset | login |
| Google sign-in (`auth/oauth.py`) | `users.google_sub`, a nonce cookie | initiate, callback | accounts, sessions, Google |
| CSRF and cookies (`auth/csrf.py`, `auth/cookies.py`) | two cookies of a browser | middleware, `set_auth_cookies`, logout's deletion | every mutating endpoint |
| Database (`db/base.py`, `models/`, `alembic/`) | pool, tables, constraints | a session for each request, which takes and returns a connection | everything |

### What is hard

- **Checks are awaits away from what they permit.** The permission of a request
  is read in two statements with two snapshots; the handler then loads its row in
  a third, writes in a fourth and reads back in a fifth. Between any two, other
  requests commit.
- **Constraints decide races.** Two creations of a share, two registrations of
  an address, an item created in a list that is being deleted: the database
  refuses the loser, and the code maps some of these refusals to an answer
  (`create_share`) and leaves others to become a 500.
- **Transactions with several statements** (the completion of a reset, a logout)
  hold locks and uncommitted rows in between, and others wait for them or miss them.
- **Operations with several transactions** (registration, login, a reset's
  request and its mail) can be cut by a crash.
- **The limiter counts late.** A login is checked on arrival, counted after it
  failed.
- **A callback trusts what it looked up.** A Google account is found by its id or
  by its address, in one statement, and linked in another; two sign-ins, a
  registration or a reset may commit in between, and addresses move.
- **Updates of an item write only what changed since they loaded it**, and stamp it
  with the time at which their transaction began.
- **Answers reach the browser's jar in any order**, or not at all, while a tab has
  already copied a cookie into a header.
- **Every request holds one connection of a few** over its awaits of the database,
  and some requests await other servers, or stop the event loop to call one.

### What makes it correct

- *Lists, items, shares*: nobody changes a list without having had the right to,
  at some moment of the request; strangers learn nothing; no row outlives its
  list; no list is shared with its owner; shares are changed by the endpoint
  meant to, on behalf of the owner; callers entitled throughout are served.
- *Accounts*: no login without the password; a reset ends the sessions that
  existed; a used token is refused afterwards; a password is never changed
  otherwise; every request is answered.
- *Google sign-in*: the session goes to the browser that asked for it, and to the
  account linked to that Google account; linking changes nothing else.
- *Columns of an item*: concurrent updates of different columns do not undo each
  other; a failed update writes nothing; times go back in overlaps only.
- *Cookies*: the two stay a pair, so that no signed-in change gets past the header;
  ended sessions open nothing.
- *Pool*: who holds a connection can go on, so that everybody is served.
- *Limiter*: it counts exactly the failures it should, bounds them and its own
  memory, and lets an address in again.

The hazards of the code, each with its line and the properties aimed at it, are
listed in `PROJECT.json`.

## 2. The modules

```
Permissions -- Endpoints -- Sharing -- SharingInv -+- Sharing_proofs ------.
                   |                               |                       |
                   |                               +- SharingRefinement -- SharingRefinement_proofs
                   |                                    |       |
                   +--------- AccessControl --INSTANCE--'       +- MCSharing
Accounts -- AccountsInv -- MCAccounts, Accounts_proofs
    |
    '--INSTANCE-- UserTable --INSTANCE--.
                                        |
                                      OAuth -- MCOAuth, OAuth_proofs
RateLimiter ----- MCRateLimiter,  RateLimiter_proofs
ItemUpdates ----- MCItemUpdates,  ItemUpdates_proofs
Cookies --------- MCCookies,      Cookies_proofs
ConnectionPool (checked as it is), ConnectionPool_proofs
```

`MC` modules define symmetry sets, and `MCSharing` a constraint. Modules named
`_proofs` hold theorems. An operator whose comment says "Mutant of D" is a
plausible bug in D, kept to show that a property would notice it.

**`Permissions`** is `authz/permissions.py`: the matrix `_ALLOWED` as a function
from roles to sets of actions, `effective_role` and `can_perform` as operators.
**`Endpoints`** says which of the thirteen endpoints of lists, items and shares
need which permission.

**`Sharing`** models `lists/`, `items/`, `shares/` and `authz/dependencies.py`.
`owner`, `shares` and `item` are the committed tables; an id is *Unborn*, then has
a row, then is *Deleted*, so that stale ids of both kinds are requested.
`req[s]` is the coroutine in slot `s`: its endpoint, arguments, local variables
that survive an await (`isOwner`, what the unit of work found dirty) and the await
at which it stands. One action is the code from one database answer to the next:

| Await | Code | Actions |
|---|---|---|
| `owner`, `share` | `require_list_permission` | `CheckOwner`, `CheckShare` |
| `load`, `duplicate`, `owned`, `shared` | the handler's own SELECTs | `LoadList`, `LoadItem`, `LoadRows`, `LoadTarget`, `CheckDuplicate`, `LoadShare`, `LoadOwned`, `LoadShared` |
| `commit` | flush and COMMIT | `CommitCreateList`, ... one for each writing endpoint |
| `refresh` | `db.refresh` after the COMMIT | `Refresh` |

Flush and COMMIT are one action because these handlers write in a single flush
and the rows stay locked in between. The ORM's behaviour is part of the actions:
an UPDATE is sent only when a column changed since the load (`dirty`) and raises
when it matches no row; a DELETE that matches none does not; a refresh of a
vanished row raises. Constraints are guards: `ForeignKeyHolds`,
`PrimaryKeyHolds`, the cascade in `CommitDeleteList`. `held` is a history
variable: the roles that the caller had in the committed states since its request
began. The properties are stated against it, and no action reads it. `wrote` is
history too: it remembers that the request's COMMIT changed a row.

**`AccessControl`** is what these endpoints promise, without SELECTs or COMMITs: a
job is judged at one instant by the role its user then has (`Grant`, `Refuse`), and
takes effect at one later instant on the tables as they then are (`Apply`,
`Delete`, `Read`) or fails without effect for a reason that is true at that instant
(`Fail`). `doubt` remembers who has been without the right at some moment, for a
refusal must be justified, too. **`SharingRefinement`** maps `Sharing` to it: an
owner is judged by the first SELECT of the authorization, everybody else by the
second; what a COMMIT wrote is applied; the refresh confirms it. An update that finds
nothing to write counts as applied when the row is loaded. There is one wrinkle: a
caller who was not the owner at the first SELECT may be by the second, having
created the list meanwhile, and is refused although entitled; `LateOwners` says
that this needs a list id that nobody knows yet.

**`Accounts`** models the password endpoints of `auth/router.py`, with
`auth/session.py`, `auth/dependencies.py` and the mail. It is cut the same way, except
for the two handlers that write rows of others, which are cut at every statement,
since they hold row locks until their COMMIT:

| Handler | Statement | Action | Waits for | Locks |
|---|---|---|---|---|
| completion of a reset | flush: UPDATE of the token | `FlushToken` | `HoldsToken` | the token |
| | flush: UPDATE of the user | `FlushUser` | `HoldsRow` | the user |
| | DELETE of the sessions: which rows it sees | `DeleteSessions` | | |
| | the same, row by row | `DeleteRow`, `EndDelete` | `HoldsSession` | each row |
| | COMMIT | `CommitReset` | | none any more |
| logout | DELETE of its session | `DeleteSession` | `HoldsSession` | the row |
| | COMMIT | `CommitLogout` | | none any more |

`found` are the rows that a DELETE has yet to come to, `doomed` those it has deleted and
not yet committed. A row that another has deleted meanwhile is passed over, as
READ COMMITTED does. That the flush writes the token first is external: SQLAlchemy
takes classes that no relationship orders by the names of their modules, and then
both UPDATEs go out before the DELETE. A session's state is the user it belongs
to, *Unborn* or *Ended* (its row is deleted). A token is issued when its row is
committed and *mailed* when its user has it. Time enters as tokens that may expire at
any moment, and as `FindSession`, which may refuse any session, since its `expires_at`
may have passed; the row of an expired session stays in the table and is locked and
deleted like any other. `Crash` loses all requests in flight and what they have not
committed. A password that is hashed is modelled as the password, for a hash verifies
that password only; addresses that signed up through Google have an account with
`NoPassword`. The limiter may refuse any login here; `RateLimiter` says when it does.

**`RateLimiter`** models `auth/rate_limiter.py` and the part of a login between
its check and its record. An entry of a list is an identity with an age that stops
at the window instead of a date: the code only ever compares `now - t` with the
window. The list's order is never used, so it is a set. `failed` is a history
variable that is cut off by the clock, not by the eviction. It is cleared by
`Restart`, as the lists are: the properties of this module are about the life of one
process, and a restart forgets all failures, which `auth/rate_limiter.py:6-8` accepts
for a single replica.

**`OAuth`** models `auth/oauth.py`. The signed state is the nonce in it (an
unsigned or foreign one is `None`), the callback is cut at the exchange with
Google, the SELECT by id or address, the INSERT or the UPDATE that links, and the
COMMIT of the session. A callback may bring any nonce and any code, in any
browser. Google is external: it issues one code for a consent, exchanges it once,
and gives each account one verified address, which may change (`MoveMails`), but
not within the seconds of a callback. `register` and the completion of a reset
appear as what they commit to `users`. `known` and `relocated` are history.

**`UserTable`** is what the rows of `users` promise to everyone who reads them: each
address gets at most one row and each Google account at most one link, no row goes
away, no link or password is taken from one, and an account made through Google never
gets a password. It has four steps, one for each kind of write. `Accounts` has the
writers of passwords in detail and no links; `OAuth` has the writer of links in
detail and the others in one step. Both implement it (`ImplementsUserTable` in each):
`OAuth` with its `user` as it is, `Accounts` under the mapping `Rows`, which takes an
account with `NoPassword` for a row that is linked, and to a Google account that
stands for its address, since `Accounts` knows nothing else of Google. So the one-step
`Register` and `ResetPassword` of `OAuth` are steps that the detailed endpoints are
shown to take, and the links that `OAuth` makes leave alone what `Accounts` relies on.

**`ItemUpdates`** models the columns of one item: the body of a PATCH names some
of them (`Named`), the unit of work writes those that differ from what it loaded
(`Dirty`, `Written`), all or none (`Storable`: the 32-bit column `order`), and
`updated_at` is the time at which the transaction began (`Stamp`). `seen` and
`stored` are history.

**`Cookies`** models one browser with several tabs, `CSRFMiddleware` and every
endpoint that sets or deletes cookies. A tab composes a request with a header copied
from the jar, or without one; it is sent with the cookies of a later moment; its
answer is delivered in any order, or lost. One name stands for the session token and
the csrf token that `set_auth_cookies` sets together; a duplicate registration sets
such a pair without storing a session.

**`ConnectionPool`** models `db/base.py`, the event loop and, of every endpoint but
`/health`, the order of its statements, COMMITs and calls of other servers: one plan
for each handler (`RegisterPlan`, `CreateSharePlan`, ...), three for the callback, put
together in `Plan`. A session takes a connection at its first statement and returns it
at its COMMIT or when the request closes it, which FastAPI does after the answer has
been sent. Answers of Google's token endpoint and of the mail server are awaited
(`Elsewhere`); `verify_token` is not (`Blocking`): from the answer of the token endpoint
until `Verify`, or until the call raises, `LoopIsFree` is false for every other request,
and each action requires it. The module depends on the plans that the other modules have
in detail, and on the fact that FastAPI calls `get_session` once for a request
(`SessionOf`).

**`SharingInv`** states the inductive invariant of `Sharing` and what its proofs say
of requests that are answered (`LateOwners`, `ListingsAreTrue`), **`AccountsInv`** that
of `Accounts` and what its locks and its progress come to (`WaitsAreAcyclic`,
`RequestsAdvance`); that of `OAuth` is at the end of its module, those of the others are
in their `_proofs` modules.

The modules are kept apart where components share rows but no property needs
both: `OAuth` and `Accounts` share the rows of `users` and meet in `UserTable`,
`Cookies` has each endpoint in one step, `ConnectionPool` has only plans.

## 3. What TLC checks

| Run | Instance | Shows |
|---|---|---|
| `sharing` | 2 users, 2 lists, 1 item, 2 requests, all 13 endpoints | all safety properties of `Sharing` and the inductive invariant, with the types |
| `sharing_live` | 1 list; creating, sharing, revoking, deleting; `FairSpec` | the refinement `ImplementsAccessControl`, also under fairness, and `RevocationTakesHold` |
| `sharing_revocation` | 1 list; sharing, revoking, creating items | **violated** `RevocationIsImmediate` (finding) |
| `accounts` | 1 address, 2 passwords, 2 sessions, 1 token, 2 requests, all 7 endpoints, `FairSpec` | the safety properties of `Accounts` and its inductive invariant, with the types; the refinement `ImplementsUserTable`; `RequestsAreAnswered`: the waits for tokens, users and sessions do not form a cycle |
| `accounts_tokens` | two completions of one token | **violated** `TokensAreSingleUse` (finding) |
| `accounts_sessions` | a login and a reset | **violated** `ResetEndsAllSessions` (finding) |
| `limiter` | 2 addresses, 2 logins, limit 2, window 2 ticks, `FairSpec` | bounds and exactness of the limiter; `LockoutsEnd` |
| `limiter_limit` | 1 address, 2 logins, limit 2 | **violated** `FurtherAttemptsAreRejected` (finding) |
| `oauth` | 2 browsers, 2 sign-ins, 2 Google accounts, 2 addresses, 2 passwords, 2 callbacks | the properties of `OAuth`, its inductive invariant, with the types, and the refinement `ImplementsUserTable` |
| `item_updates` | 1 item, 2 requests, 2 texts, orders 0..2 with `MaxOrder` 1, 2 times | merging, failures, answers and times |
| `cookies` | 3 tokens, 2 tabs' requests | the pair, the header, honest tabs, ended sessions |
| `pool` | 3 requests, 2 connections, 4 plans, `FairSpec` | holders go on, everybody is served, the limit is kept |

**Bounds.** Every race in the code is between two requests on one row, so two
slots suffice for the safety properties, and users, lists, items and tokens are
only compared for equality. Ids are drawn once and never reused, as UUIDs and random
tokens are, so the number of ids bounds how many rows an execution creates; slots
are reused without bound, so executions are infinite.

- In `sharing` the constraint `FewCalls` cuts the state space: as long as only one
  list has been made, all endpoints are called; once both have, only those that
  make or delete a list or an item or change an item, which are the ones that can
  take a row of one list for a row of the other. Everything else is about one list.
- `accounts` has one address: every property is about one account, and requests for
  different addresses share no row. Two requests on it are one that waits for a
  lock and one that holds it: a completion waits for a logout, and a logout for a
  completion. A chain of waits needs three requests, and that there is no cycle of any
  length is proved (`NoDeadlock`).
- `oauth` starts from any rows that earlier sign-ins and registrations can have
  left, so that two new sign-ins suffice; two Google accounts can swap their two
  addresses between callbacks, which is what makes the SELECT by id or address find
  another's row, or two.
- `item_updates`: `MaxOrder` stands for 2^31 - 1; the orders are two that fit and
  one that does not. `MaxClock` stops the clock; two times tell "before" from
  "after".
- `limiter`: `Entries` must be numerous enough that a record always finds a fresh
  one; the assumption `EntriesSuffice` says so and `ListsAreBounded` is why it
  suffices. No bound cuts off a behaviour: ages stop at the window and lists are
  bounded by the code.
- `pool`: three requests for two connections make one wait for two others. Each
  request arrives once: whoever waits is served when arrivals stop, and nothing
  is promised while they do not, for the pool's own queue is not modelled. The four
  plans are the shortest with a COMMIT, the one that sends mail, one that calls Google in
  both ways, and the longest.

**Symmetry** is used in safety runs only, on sets whose members are only compared.

**Fairness.** `FairSpec` of `Sharing` and `Accounts` assumes weak fairness of
`Continue(s)` for each slot: the event loop resumes every coroutine whose await is
answered, and the database answers every statement. Nothing is assumed of clients,
of expiries or of crashes. A coroutine that waits for a lock is not continuable
until the lock is free. PostgreSQL queues its waiters first come, first served; the
model has no queue, and weak fairness suffices in the run only because a lock can be
taken finitely often: by the completions that read the one token before it was used, and
by those who delete a session, which ends it. The run is about cycles of waiting, not
about starvation. `FairSpec` of
`AccessControl` is what callers get out of it: every job is judged and answered.
`FairSpec` of `RateLimiter` assumes only that the clock advances. That of
`ConnectionPool` has the event loop, the database, clients, who take their answer or
disconnect, and the end of `verify_token`. An answer that is awaited of Google or the
mail server may never come, no timeout helps, and nobody else waits for it. The
synchronous call is different: it must end, because Google sends its certificates or
google-auth's transport gives up (the code passes no timeout, so it is the library's
default), and until then everybody waits. So `AllAreServed` promises that this call
only delays, not for how short a time; without that fairness it would be false, of
every endpoint. No document of the repository promises anything about it.

**Deadlock** is checked in all runs but `pool`: no request is ever stuck and a
client can always begin one or receive its answer. `pool` ends when its one-shot
requests are served, and `AllAreServed` says that it does not end before.

### Findings

1. *Revocation is not immediate* (`authz/dependencies.py:67`). The requirements say
   there is no grace period; a write that passed its authorization is committed
   after the revocation. What the code does keep is `WritesWereAllowed` (the right
   existed at some moment of that same request) and `RevocationTakesHold`.
2. *Reset tokens are not single-use* (`auth/router.py:202`). Two concurrent
   completions of one link both succeed. What holds is `UsedTokensAreRefused`.
3. *A reset does not end all sessions* (`auth/router.py:223`). A login in flight
   with the old password makes a session after the DELETE. What holds is
   `ResetEndsOldSessions`.
4. *The limit on failed logins is exceeded by concurrent logins*
   (`auth/rate_limiter.py:61`). What holds is `FailuresAreBounded`: at most one more
   for each other login in flight.

Four more came up while modelling. They have no run of their own; the properties
are stated so as to leave exactly these cases out.

- *A returning Google user can meet a 500* (`auth/oauth.py:218`): when their address
  has moved to one that has another row, the SELECT by id or address finds two and
  `scalar_one_or_none` raises, while `docs/planning/prd-1-auth.md:91` says that the
  existing account is found. `ReturningUsersGetIn` holds until an address moves.
- *`updated_at` can go back* (`models/item.py:20`): it is the time at which a
  transaction began, so that of two overlapping updates the later to commit may
  have the earlier time, although `docs/planning/prd-5-realtime-websocket-sync.md:43`
  wants to decide by it which write was last. `TimesGoBackInOverlapsOnly` holds.
- *A password reset can be refused with 403* (`auth/csrf.py:66`): logout leaves the
  `csrf_token` cookie, and a page that does not send the header with it is refused,
  although the comment at `auth/csrf.py:12` has such requests in mind as exempt.
- *An update that names several columns may never hold as a whole*
  (`items/router.py:53`): each of its columns did at some moment
  (`AnsweredUpdatesWereStored`), but another update may change one of them between
  the load that found it equal and the COMMIT.

## 4. What is proved

All theorems are for arbitrary sets of users, lists, items, requests, endpoints,
addresses, entries, browsers, nonces, Google accounts, texts, tokens and
connections, under the assumptions named in the modules: sentinel values are
distinct and no id's, `Ops` are endpoints that exist, the limit and the window are
positive (`config.py:20-21`), slots and entries of the limiter are finite, numbers are
numbers.

| Module | Theorem | States |
|---|---|---|
| `SharingRefinement_proofs` | `Implementation` | `Spec => ImplementsAccessControl` |
| `Sharing_proofs` | `Invariance` | `Spec => []IInv` |
| | `TypeCorrect` | `Spec => []TypeOK` |
| | `NobodyGoesBack` | `Spec => RequestsAdvance`, an action property |
| | `NoOrphansEver` | `Spec => []NoOrphans` |
| | `OwnersHoldNoShare` | `Spec => []NoOwnerShare` |
| | `StrangersLearnNothing` | `Spec => []DeniedLooksMissing` |
| | `NoUnauthorizedWrite` | `Spec => []WritesWereAllowed` |
| | `EntitledAreServed` | `Spec => []NoSpuriousFailure` |
| | `ListingsAreFresh` | `Spec => []ListingIsFresh` |
| | `ItemsAreTheirLists` | `Spec => ItemsStayInTheirList`, an action property |
| | `SharesChangeAsMeant` | `Spec => SharesChangeByTheirEndpoint`, an action property |
| | `OnlyOwnersShare` | `Spec => OnlyTheOwnerShares`, an action property |
| `Accounts_proofs` | `RowsAreKept` | `Spec => ImplementsUserTable`, a refinement |
| | `Invariance` | `Spec => []IInv` |
| | `TypeCorrect` | `Spec => []TypeOK` |
| | `NoDeadlock` | `Spec => []WaitsAreAcyclic` |
| | `NobodyGoesBack` | `Spec => RequestsAdvance`, an action property |
| | `LoginsAreSound` | `Spec => []LoginsNeedThePassword` |
| | `ResetsAreSound` | `Spec => []ResetEndsOldSessions` |
| | `TokensAreSound` | `Spec => []UsedTokensAreRefused` |
| | `PasswordsAreSound` | `Spec => PasswordsChangeByReset`, an action property |
| `RateLimiter_proofs` | `LimiterTypes` | `Spec => []TypeOK` |
| | `FailuresBounded` | `Spec => []FailuresAreBounded` |
| | `ListsBounded` | `Spec => []ListsAreBounded` |
| | `CountsExact` | `Spec => []CountsAreExact` |
| | `RefusalsWane` | `Spec => LockoutsWane`, an action property |
| `OAuth_proofs` | `RowsAreKept` | `Spec => ImplementsUserTable`, a refinement |
| | `Invariant` | `Spec => []IInv` |
| | `OAuthTypes` | `Spec => []TypeOK` |
| | `StartersGetTheirSession` | `Spec => []SessionsGoToTheStarter` |
| | `SignedInIsLinked` | `Spec => []SignInsAreLinked` |
| | `ReturningAreServed` | `Spec => []ReturningUsersGetIn` |
| | `KnownKeepTheirAccount` | `Spec => []ReturningUsersKeepTheirAccount` |
| `ItemUpdates_proofs` | `ItemTypes` | `Spec => []TypeOK` |
| | `AnsweredWereStored` | `Spec => []AnsweredUpdatesWereStored` |
| | `FailedWroteNothing` | `Spec => []FailuresWriteNothing` |
| | `StoredOrdersFit` | `Spec => []OrdersFit` |
| | `ColumnsAreKept` | `Spec => OthersColumnsAreKept`, an action property |
| | `TimesAreKept` | `Spec => TimesGoBackInOverlapsOnly`, an action property |
| `Cookies_proofs` | `CookieTypes` | `Spec => []TypeOK` |
| | `JarStaysPaired` | `Spec => []JarIsPaired` |
| | `HeaderIsNeeded` | `Spec => []SessionsNeedTheHeader` |
| | `HonestTabsPass` | `Spec => []TabsAreRefusedInRacesOnly` |
| | `StrangersStayOut` | `Spec => OnlySignInsLetIn`, an action property |
| `ConnectionPool_proofs` | `HoldersGoOn` | `Spec => []HoldersCanGoOn` |
| | `PoolIsBounded` | `Spec => []TypeOK`, with the bound of the pool |
| | `WaitersAreNotStuck` | `Spec => []WaitersAwaitHolders` |
| | `NobodyGoesBack` | `Spec => RequestsAdvance`, an action property |

**`Sharing`.** None of the properties is inductive. `IInv` (in `SharingInv`) adds
what a request at a given await may rely on: which awaits an endpoint reaches and
with which arguments (`WellFormed`), that an id drawn by a creating request is
still unborn and nobody else's (`FreshIds`), that whoever was found to be the owner
is the owner until the list is deleted (`OwnersStay`, the reason why
`NoOwnerShare` holds although ownership is read long before the INSERT), and that the
history contains the present (`HistoryIsCurrent`) and every fact on which a grant
was based (`GrantsWereTrue`). It is proved in three layers, each using the ones
before: types (`StepTypeInv`), tables (`StepDataInv`), history
(`StepHistoryInv`). The key of the last is `GrantIsTrue`: the two snapshots of the
authorization can mix a former and a present state, but each of the two facts it
uses puts a sufficient role in the history. TLC checks `IInv` in run `sharing`, and
with it its conjunct `NoOwnerShare`.
The action properties follow from the first two layers: only a COMMIT moves the
shares and the items, it does so for a writing request on that list (`CommitWrites`,
`ItemsMove`), that request's user is still the owner by `OwnersStay`, and its item is
still in the list by `ItemsStay`.

What callers are owed needs more about owners who are late. A caller who was not the
owner at the first SELECT of the authorization may be by the second, having created
the list meanwhile (`LateOwners`): then there was a moment without any role, and
nothing is owed. All others find in the two snapshots a role they have now
(`EntitledPass`), the list is there (`EntitledNow`), and stays until they are answered.
`ListingsAreTrue` is the same argument for the two SELECTs of `list_lists`.

`RequestsAdvance` numbers the awaits of each endpoint by how many may lie before the
answer (`StepsLeft`). No request in flight is moved by another's step, and its own
only lower its number (`ContinueGoesOn`).

**The refinement.** Every step of `Sharing` is a step of `AccessControl` or a
stutter, under `IInv` and `LateOwners`: a lemma for each kind of await
(`AuthorizeJob`, `LoadJob`, `CommitJob`, `RefreshJob`) says how its answer moves the
job of its request, and `DoubtStep` that the doubts about all jobs move as the tables
do. The history `held` of `Sharing` is what `doubt` is computed
from; that the two SELECTs of an authorization can be one instant rests on
`HistoryIsCurrent`, and for refusals on `LateOwners`.

**`Accounts`.** `IInv` (in `AccountsInv`) is two invariants. `RequestInv` says of each
await what its request may rely on. Ids that it has drawn are still nobody's (`TablesFit`, `DrawnOnce`): a login
inserts its session two awaits after drawing it. Its token belongs to the account it
resets, and that account has a password (`TokensHaveOwners`), which is why no account
made through Google ever gets one. Its history holds the present password of its
account (`HistoryFits`), so that a login that verified it needs no second look. The
sessions that a reset has found when it began are, from its DELETE on, over, deleted by
it, or yet to be come to (`SessionsFit`): an ended session never comes back, and one
that exists cannot change hands. `OthersStaySound` is what lets each action be proved
by itself: tables only grow in a certain sense (`TablesGrow`), and what a request
relies on survives that. What is then left of an action is its own request, which it
either answers (`AnsweredHolds`) or leaves at another await (`AwaitsHold`).

`LockInv` is about the row locks of completions and logouts: the row of a token, of a
user and of a session is locked by one request at a time, and a session that is
DELETEd and not yet committed is still in the table. The two invariants are proved
together: that a logout cannot end a session which a completion has deleted is why
what a completion relies on stays true, and whose the session is comes from
`RequestInv`. `WaitsFor` says who may be held back by whom, with all kinds of
locks: completions wait for the token and for the user, logouts for a session, and the
DELETE of a completion for sessions that logouts are deleting, while other completions
wait for that completion. It has no cycle (`NoDeadlock`) because locks are taken in
one order: the token, the user, the sessions, and then nothing. A completion at its
first UPDATE holds nothing, at the second the token only, and whoever is there waits for
one that is further; a logout at its DELETE holds nothing; one past it waits for nobody.
Among the DELETEs of completions nobody waits, for two that delete sessions hold the
rows of two users, and no session belongs to both. By `RequestsAdvance` a request that
is waited for has ahead of it at most an await for each row that it deletes and four more.

For the refinement of `UserTable` each action that writes `password` is one of
its steps (`RegisterIsTable`, `ResetIsTable`) and every other one a stutter. That a
reset never gives a password to an account made through Google is
`TokensHaveOwners` again.

**`RateLimiter`.** Here the invariants together are inductive, because
`FailuresAreBounded` counts the logins that have passed the check along with the
recorded failures: the sum grows only at a check, where the failures are below the
limit and the logins at most the slots. A record moves one from one side to the
other, and its new list holds only recent entries, whence `ListsAreBounded`.
`LockoutsWane` (in `RateLimiter_proofs`) looks at an address that is refused: no step
lets another login of it in, an entry that still counts afterwards counted before and
is no younger, and a new one is the failure of a login admitted earlier, of which
there are then fewer (`RecordWanes`).

**`OAuth`.** `IInv` has two parts. One holds always: a nonce in a cookie was drawn
for that browser (`NoncesAreBound`), a callback's claims are those Google now makes
(`ClaimsAreTrue`, because addresses do not move during a callback), and an account
that was linked when its code was exchanged still is, and is the one that was found
(`AccountsAreFound`, `KnownStaysLinked`). The other, `LinksAreAddresses`, holds until
`relocated`: links and addresses agree, so that the SELECT finds at most one row.
The refinement of `UserTable` needs that a row which was found is unlinked or the
Google account's own when the UPDATE comes (`AccountsAreFound`), and that the unique
index lets the UPDATE pass only when no other row is linked to it (`LinkIsTable`).

**`ItemUpdates`.** A column that an update is about to leave unwritten, because the
load found it equal, has been *seen* with that value; a COMMIT adds the others. For
failures, nothing that has been written is undone except by a deletion. Times need
only that what is stored was never stamped later than it was stored
(`TimesAreOrdered`).

**`Cookies`.** The invariant follows the pair of cookies from the jar into each
request (its cookies are a pair, too, for they are a copy of the jar) and says of
each answered request that it was refused exactly if the middleware refuses. A
header is as old as the tab's look at the jar unless `raced`.

**`ConnectionPool`.** In every plan a COMMIT stands between a statement and a call of
another server (`PlansAreSound`, one case for each handler), and there is only one
session to a request. That nobody else keeps the event loop while a request is in its
synchronous call is part of `IInv`. That the pool is never exceeded (`PoolInv`) needs no
bound on the number of requests: the set of connections in use starts empty and grows
by one, below the limit. `WaitersAwaitHolders` puts both together: when a request finds
the pool exhausted, some connection is in use, not by itself since holders need no
second one, and its holder's next step is enabled, unless somebody keeps the event loop,
whose own next step is enabled then (`CanGoOn` spells out the guards). By
`RequestsAdvance` each request has few steps ahead of it, so that the holder comes to
its COMMIT or its end.

### What is only model-checked

Liveness, for the proof system does not handle ENABLED and fairness. What each such
property owes to the code rather than to the scheduler is proved as far as it is an
invariant or a property of steps:

| Property (TLC) | Proved of it |
|---|---|
| `RequestsAreAnswered` | requests only move nearer to their answer, and their waits for row locks close no cycle of any length (`NobodyGoesBack`, `NoDeadlock`) |
| `RevocationTakesHold`, the fair part of the refinement | requests only move nearer to their answer (`NobodyGoesBack`); the refinement without fairness (`Implementation`) |
| `LockoutsEnd` | nothing prolongs a lockout but logins admitted before it (`RefusalsWane`) |
| `AllAreServed` | whoever waits for the pool waits for a request whose next step is enabled, and requests only move nearer to their end (`WaitersAreNotStuck`, `NobodyGoesBack`) |

The formulas of these theorems that no run names (`RequestsAdvance` of three modules,
`WaitsAreAcyclic`, `LockoutsWane`, `WaitersAwaitHolders`) were checked by TLC on the
instances of the runs before they were proved. Nothing in these modules is recursive, so that no fact about
data needs an induction, which the installed provers could not do, and theorems
may be stated about every module.

The types of `RateLimiter`, `ItemUpdates` and `Cookies` are proved, and so not
checked by a run again.

## 5. What is not modelled

- Names and the order in which lists and items are listed. Texts are members of a
  small set, and only in `ItemUpdates`.
- The frontend, realtime sync and refresh-token rotation exist as planning documents.
- The mail's way to the user. Google's and the browser's side of a sign-in is modelled
  from what the code relies on (external).
- Configuration (validated once, at import; its numbers are constants here),
  application wiring, `/health`, logging, CI, scripts and lint rules: no state of
  their own. Migrations run offline; what they leave behind, keys and constraints,
  is in the guards of the COMMITs.
- The second thread of the limiter's lock: all its callers are coroutines of one
  event loop, so its critical sections are never contended. A wall clock that is
  set back is not modelled either.
- How long the synchronous call of Google takes, and the time that hashing a password
  keeps the event loop.
- The pool's queue and its timeout as a clock: any wait may end early (`EndEarly`).
- A crash in `Sharing` and `ItemUpdates`: their requests have one writing transaction
  each, so a crash before the COMMIT is a request that never came, and after it one
  whose answer was lost.

## 6. Plan

1. The order of lists and of items, which `updated_at` and `order` decide.
2. When there is code for realtime sync: its messages, composed with `ItemUpdates`.
