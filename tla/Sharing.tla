------------------------------ MODULE Sharing ------------------------------
(***************************************************************************)
(* Lists, their items and their shares, served by concurrent requests.     *)
(*                                                                         *)
(* Every endpoint of lists/router.py, items/router.py and shares/router.py *)
(* is a coroutine that gives up the event loop at each await on the        *)
(* database.  A request is cut at those awaits: one action is the code     *)
(* from one database answer to the next.  PostgreSQL runs READ COMMITTED,  *)
(* so each SELECT sees what is committed when it runs; the flush and the   *)
(* COMMIT of a handler are one action, for the rows it writes stay locked  *)
(* between the two.  The awaits are, in order,                             *)
(*   "owner", "share"  the two SELECTs of require_list_permission,         *)
(*   "load"            the handler's own SELECT (create_share has a second *)
(*                     one, "duplicate"; list_lists has "owned", "shared"),*)
(*   "commit"          the flush and COMMIT, "refresh" the SELECT after it.*)
(***************************************************************************)
EXTENDS Endpoints

CONSTANTS
    Users,     \* rows of the table users; no endpoint ever deletes one
    ListIds,   \* the UUIDs the program may draw for lists
    ItemIds,   \* the UUIDs the program may draw for items
    Slots,     \* requests that may be in flight at once
    Ops,       \* the endpoints that clients call
    Unborn,    \* state of an id no row has had yet
    Deleted,   \* state of an id whose row was deleted
    Nil        \* a UUID that is no row's, and an argument a request lacks

ASSUME OpsAssumption == Ops \subseteq AllOps
ASSUME RowStateAssumption ==
    /\ Unborn # Deleted /\ Unborn # Nil /\ Deleted # Nil
    /\ {Unborn, Deleted, Nil} \cap (Users \cup ListIds \cup ItemIds) = {}

VARIABLES
    owner,   \* lists: the owner of each list id, or Unborn, or Deleted
    shares,  \* shares: the role of each (list, user), or NoShare
    item,    \* items: the list of each item id, or Unborn, or Deleted
    req,     \* the request in each slot
    held     \* history: the <<list, role>> pairs that were true of a request's
             \* user in some committed state since the request began

vars == <<owner, shares, item, req, held>>

----------------------------------------------------------------------------
Awaits == {"owner", "share", "load", "duplicate", "owned", "shared",
           "commit", "refresh"}
Statuses == {0, 200, 201, 204, 400, 404, 409, 500}

Request == [
    pc      : Awaits \cup {"idle", "done"},
    op      : AllOps,
    user    : Users \cup {Nil},        \* whom require_auth found
    list    : ListIds \cup {Nil},
    item    : ItemIds \cup {Nil},
    target  : Users \cup {Nil},        \* body.user_id or target_user_id
    role    : ShareRoles,              \* body.role
    isOwner : BOOLEAN,                 \* the dependency's is_owner
    dirty   : BOOLEAN,                 \* the flush has a column to UPDATE
    wrote   : BOOLEAN,                 \* the COMMIT changed a row
    found   : SUBSET ListIds,          \* list_lists: the lists selected
    status  : Statuses]

Idle == [pc |-> "idle", op |-> "get_list", user |-> Nil, list |-> Nil,
         item |-> Nil, target |-> Nil, role |-> "viewer", isOwner |-> FALSE,
         dirty |-> FALSE, wrote |-> FALSE, found |-> {}, status |-> 0]

InFlight(q) == q.pc \in Awaits

\* What is committed about a request's row.
ListExists(l) == owner[l] \in Users
ItemExists(i) == item[i] \in ListIds
ShareExists(l, u) == shares[l][u] # NoShare

----------------------------------------------------------------------------
\* The role of user u on list l in the tables own and shr, and the pairs a
\* request's history gains from a committed state.
RoleIn(own, shr, u, l) == EffectiveRole(own[l] = u, shr[l][u])
Role(u, l) == RoleIn(owner, shares, u, l)
Scope(q) == IF q.op = "list_lists" THEN ListIds ELSE {q.list}
Pairs(q, own, shr) == {<<l, RoleIn(own, shr, q.user, l)>> : l \in Scope(q)}

Observe(own, shr) ==
    held' = [s \in Slots |-> IF InFlight(req[s])
                             THEN held[s] \cup Pairs(req[s], own, shr)
                             ELSE held[s]]

----------------------------------------------------------------------------
Init ==
    /\ owner = [l \in ListIds |-> Unborn]
    /\ shares = [l \in ListIds |-> [u \in Users |-> NoShare]]
    /\ item = [i \in ItemIds |-> Unborn]
    /\ req = [s \in Slots |-> Idle]
    /\ held = [s \in Slots |-> {}]

\* Control moves on to await pc, or the request is answered.
Goto(s, pc) == req' = [req EXCEPT ![s].pc = pc]
Answer(s, status) ==
    req' = [req EXCEPT ![s].pc = "done", ![s].status = status]
OnlyControl == UNCHANGED <<owner, shares, item, held>>

\* uuid4 ids: no row and no other request in flight has drawn them.
FreshList(l) ==
    /\ owner[l] = Unborn
    /\ \A t \in Slots : ~(InFlight(req[t]) /\ req[t].op = "create_list" /\ req[t].list = l)
FreshItem(i) ==
    /\ item[i] = Unborn
    /\ \A t \in Slots : ~(InFlight(req[t]) /\ req[t].op = "create_item" /\ req[t].item = i)

\* The arguments of each endpoint; an id no row has is an Unborn or Deleted one.
ListArgs(op) == CASE op = "create_list" -> {l \in ListIds : FreshList(l)}
                  [] op = "list_lists"  -> {Nil}
                  [] OTHER              -> ListIds
ItemArgs(op) == CASE op = "create_item" -> {i \in ItemIds : FreshItem(i)}
                  [] op \in {"update_item", "delete_item"} -> ItemIds
                  [] OTHER              -> {Nil}
TargetArgs(op) == CASE op = "create_share" -> Users \cup {Nil}
                    [] op \in {"change_role", "revoke_share"} -> Users
                    [] OTHER               -> {Nil}

\* The pattern of ShareCreate.role and ShareUpdate.role.
RoleArgs(op) == IF op \in {"create_share", "change_role"} THEN ShareRoles
                ELSE {Idle.role}

FirstAwait(op) == CASE op = "create_list" -> "commit"
                    [] op = "list_lists"  -> "owned"
                    [] OTHER              -> "owner"

\* A request whose session require_auth has just accepted.
Started(op, u, l, i, t, r) ==
    [Idle EXCEPT !.pc = FirstAwait(op), !.op = op, !.user = u,
                 !.list = l, !.item = i, !.target = t, !.role = r]

Begin(s) ==
    /\ req[s].pc = "idle"
    /\ \E op \in Ops, u \in Users :
       \E l \in ListArgs(op), i \in ItemArgs(op), t \in TargetArgs(op), r \in RoleArgs(op) :
          /\ req' = [req EXCEPT ![s] = Started(op, u, l, i, t, r)]
          /\ held' = [held EXCEPT ![s] = Pairs(Started(op, u, l, i, t, r), owner, shares)]
    /\ UNCHANGED <<owner, shares, item>>

\* The client has its answer, and the slot is free for another request.
Receive(s) ==
    /\ req[s].pc = "done"
    /\ req' = [req EXCEPT ![s] = Idle]
    /\ held' = [held EXCEPT ![s] = {}]
    /\ UNCHANGED <<owner, shares, item>>

----------------------------------------------------------------------------
(* require_list_permission: two statements, each with a snapshot of its own. *)

CheckOwner(s) ==
    /\ req[s].pc = "owner"
    /\ req' = [req EXCEPT ![s].isOwner = (owner[req[s].list] = req[s].user),
                          ![s].pc = "share"]
    /\ OnlyControl

\* Mutant of ResolvedRole: the owner's row is looked up but not used.
RoleFromShare(q) == EffectiveRole(FALSE, shares[q.list][q.user])

ResolvedRole(q) == EffectiveRole(q.isOwner, shares[q.list][q.user])

\* Mutant of Granted: any role at all will do.
GrantedToAnyRole(role, op) == role # NoRole

\* Mutant of Granted: the dependency is left out.
GrantedToEveryone(role, op) == TRUE

Granted(role, op) == CanPerform(role, PermissionOf[op])

\* Mutant of Denial: 403 for a list that exists.
RevealingDenial(q) == IF ListExists(q.list) THEN 403 ELSE 404

Denial(q) == 404

\* Mutant of SharesWithSelf: the test is forgotten.
NeverWithSelf(q) == FALSE

SharesWithSelf(q) == q.op = "create_share" /\ q.target = q.user

\* create_item has nothing to load, and create_share turns away its caller
\* before it awaits anything.
CheckShare(s) ==
    LET q == req[s]
        granted == Granted(ResolvedRole(q), q.op)
    IN  /\ q.pc = "share"
        /\ \/ ~granted /\ Answer(s, Denial(q))
           \/ granted /\ SharesWithSelf(q) /\ Answer(s, 400)
           \/ /\ granted /\ ~SharesWithSelf(q)
              /\ Goto(s, IF q.op = "create_item" THEN "commit" ELSE "load")
        /\ OnlyControl

----------------------------------------------------------------------------
(* The handlers' own SELECTs. *)

\* list_items and list_shares: the rows there are, be it none.
LoadRows(s) ==
    /\ req[s].pc = "load" /\ req[s].op \in {"list_items", "list_shares"}
    /\ Answer(s, 200)
    /\ OnlyControl

LoadList(s) ==
    LET q == req[s] IN
    /\ q.pc = "load" /\ q.op \in {"get_list", "rename_list", "delete_list"}
    /\ \/ ~ListExists(q.list) /\ Answer(s, 404)
       \/ ListExists(q.list) /\ q.op = "get_list" /\ Answer(s, 200)
       \/ ListExists(q.list) /\ q.op = "delete_list" /\ Goto(s, "commit")
       \/ /\ ListExists(q.list) /\ q.op = "rename_list"
          /\ \E dirty \in BOOLEAN :    \* is body.name another name
                req' = [req EXCEPT ![s].pc = "commit", ![s].dirty = dirty]
    /\ OnlyControl

\* Mutant of ItemOfList: only the item's id is looked at.
AnyItem(q) == ItemExists(q.item)

\* The item must be one of the list the caller was authorized on.
ItemOfList(q) == item[q.item] = q.list

LoadItem(s) ==
    LET q == req[s] IN
    /\ q.pc = "load" /\ q.op \in {"update_item", "delete_item"}
    /\ \/ ~ItemOfList(q) /\ Answer(s, 404)
       \/ ItemOfList(q) /\ q.op = "delete_item" /\ Goto(s, "commit")
       \/ /\ ItemOfList(q) /\ q.op = "update_item"
          /\ \E dirty \in BOOLEAN :    \* does the body change a column
                req' = [req EXCEPT ![s].pc = "commit", ![s].dirty = dirty]
    /\ OnlyControl

LoadTarget(s) ==
    /\ req[s].pc = "load" /\ req[s].op = "create_share"
    /\ IF req[s].target \in Users THEN Goto(s, "duplicate") ELSE Answer(s, 404)
    /\ OnlyControl

CheckDuplicate(s) ==
    /\ req[s].pc = "duplicate"
    /\ IF ShareExists(req[s].list, req[s].target) THEN Answer(s, 409) ELSE Goto(s, "commit")
    /\ OnlyControl

LoadShare(s) ==
    LET q == req[s] IN
    /\ q.pc = "load" /\ q.op \in {"change_role", "revoke_share"}
    /\ IF ShareExists(q.list, q.target)
       THEN req' = [req EXCEPT ![s].pc = "commit",
                       ![s].dirty = (shares[q.list][q.target] # q.role)]
       ELSE Answer(s, 404)
    /\ OnlyControl

\* Mutant of SharedWith: lists shared for reading only are missed.
SharedForWriting(u) == {l \in ListIds : shares[l][u] = "editor"}

SharedWith(u) == {l \in ListIds : ListExists(l) /\ ShareExists(l, u)}

\* list_lists: the owned lists, then the shared ones, each list once.
LoadOwned(s) ==
    /\ req[s].pc = "owned"
    /\ req' = [req EXCEPT ![s].pc = "shared",
                  ![s].found = {l \in ListIds : owner[l] = req[s].user}]
    /\ OnlyControl

LoadShared(s) ==
    LET q == req[s] IN
    /\ q.pc = "shared"
    /\ req' = [req EXCEPT ![s].pc = "done", ![s].status = 200,
                  ![s].found = @ \cup SharedWith(q.user)]
    /\ OnlyControl

----------------------------------------------------------------------------
(* Flush and COMMIT.  The unit of work UPDATEs only columns whose value     *)
(* changed, raises StaleDataError (500) when an UPDATE matches no row, and  *)
(* only warns when a DELETE matches none.                                   *)

Written(s, pc, status) ==
    req' = [req EXCEPT ![s].pc = pc, ![s].wrote = TRUE, ![s].status = status]

\* The flush of a loaded row that has since become exists or not.
Update(s, exists) ==
    \/ req[s].dirty /\ exists  /\ Written(s, "refresh", 0)
    \/ req[s].dirty /\ ~exists /\ Answer(s, 500)
    \/ ~req[s].dirty /\ Goto(s, "refresh")

CommitCreateList(s) ==
    LET q == req[s]
        owner2 == [owner EXCEPT ![q.list] = q.user]
    IN  /\ q.pc = "commit" /\ q.op = "create_list"
        /\ owner' = owner2
        /\ Written(s, "refresh", 0)
        /\ Observe(owner2, shares)
        /\ UNCHANGED <<shares, item>>

CommitRenameList(s) ==
    /\ req[s].pc = "commit" /\ req[s].op = "rename_list"
    /\ Update(s, ListExists(req[s].list))
    /\ OnlyControl

\* ON DELETE CASCADE takes the items and the shares along.
CommitDeleteList(s) ==
    LET q == req[s]
        owner2 == [owner EXCEPT ![q.list] = Deleted]
        shares2 == [shares EXCEPT ![q.list] = [u \in Users |-> NoShare]]
    IN  /\ q.pc = "commit" /\ q.op = "delete_list"
        /\ \/ /\ ListExists(q.list)
              /\ owner' = owner2 /\ shares' = shares2
              /\ item' = [i \in ItemIds |-> IF item[i] = q.list THEN Deleted ELSE item[i]]
              /\ Written(s, "done", 204)
              /\ Observe(owner2, shares2)
           \/ ~ListExists(q.list) /\ Answer(s, 204) /\ OnlyControl

\* Mutant of ForeignKeyHolds: no constraint.
NoForeignKey(l) == TRUE

\* The foreign keys of items and shares on lists.
ForeignKeyHolds(l) == ListExists(l)

\* Mutant of CommitCreateItem: a violated foreign key leaves the request unanswered.
UnansweredCreateItem(s) ==
    LET q == req[s] IN
    /\ q.pc = "commit" /\ q.op = "create_item" /\ ForeignKeyHolds(q.list)
    /\ item' = [item EXCEPT ![q.item] = q.list]
    /\ Written(s, "refresh", 0)
    /\ UNCHANGED <<owner, shares, held>>

\* A foreign key violation is not caught here: 500.
CommitCreateItem(s) ==
    LET q == req[s] IN
    /\ q.pc = "commit" /\ q.op = "create_item"
    /\ \/ /\ ForeignKeyHolds(q.list)
          /\ item' = [item EXCEPT ![q.item] = q.list]
          /\ Written(s, "refresh", 0)
          /\ UNCHANGED <<owner, shares, held>>
       \/ ~ForeignKeyHolds(q.list) /\ Answer(s, 500) /\ OnlyControl

CommitUpdateItem(s) ==
    /\ req[s].pc = "commit" /\ req[s].op = "update_item"
    /\ Update(s, ItemExists(req[s].item))
    /\ OnlyControl

CommitDeleteItem(s) ==
    LET q == req[s] IN
    /\ q.pc = "commit" /\ q.op = "delete_item"
    /\ \/ /\ ItemExists(q.item)
          /\ item' = [item EXCEPT ![q.item] = Deleted]
          /\ Written(s, "done", 204)
          /\ UNCHANGED <<owner, shares, held>>
       \/ ~ItemExists(q.item) /\ Answer(s, 204) /\ OnlyControl

\* The share row of request s becomes role.
SetShare(s, role) ==
    LET shares2 == [shares EXCEPT ![req[s].list][req[s].target] = role]
    IN  /\ shares' = shares2
        /\ Observe(owner, shares2)
        /\ UNCHANGED <<owner, item>>

\* Mutant of PrimaryKeyHolds: no constraint, the later INSERT wins.
NoPrimaryKey(l, u) == TRUE

PrimaryKeyHolds(l, u) == ~ShareExists(l, u)

\* The primary key makes the loser of a race a 409, the foreign key on the
\* list a 404.
CommitCreateShare(s) ==
    LET q == req[s] IN
    /\ q.pc = "commit" /\ q.op = "create_share"
    /\ \/ ~ForeignKeyHolds(q.list) /\ Answer(s, 404) /\ OnlyControl
       \/ /\ ForeignKeyHolds(q.list) /\ ~PrimaryKeyHolds(q.list, q.target)
          /\ Answer(s, 409) /\ OnlyControl
       \/ /\ ForeignKeyHolds(q.list) /\ PrimaryKeyHolds(q.list, q.target)
          /\ Written(s, "refresh", 0)
          /\ SetShare(s, q.role)

CommitChangeRole(s) ==
    LET q == req[s] IN
    /\ q.pc = "commit" /\ q.op = "change_role"
    /\ Update(s, ShareExists(q.list, q.target))
    /\ IF q.dirty /\ ShareExists(q.list, q.target) THEN SetShare(s, q.role)
       ELSE OnlyControl

CommitRevokeShare(s) ==
    LET q == req[s] IN
    /\ q.pc = "commit" /\ q.op = "revoke_share"
    /\ \/ /\ ShareExists(q.list, q.target)
          /\ Written(s, "done", 204)
          /\ SetShare(s, NoShare)
       \/ ~ShareExists(q.list, q.target) /\ Answer(s, 204) /\ OnlyControl

----------------------------------------------------------------------------
\* db.refresh reads the row back in a new transaction; a row that is gone is
\* an InvalidRequestError (500), though the COMMIT stands.
RowToRefresh(q) ==
    \/ q.op \in {"create_list", "rename_list"}  /\ ListExists(q.list)
    \/ q.op \in {"create_item", "update_item"}  /\ ItemExists(q.item)
    \/ q.op \in {"create_share", "change_role"} /\ ShareExists(q.list, q.target)

Created == {"create_list", "create_item", "create_share"}

Refresh(s) ==
    LET q == req[s] IN
    /\ q.pc = "refresh"
    /\ Answer(s, IF ~RowToRefresh(q) THEN 500
                 ELSE IF q.op \in Created THEN 201 ELSE 200)
    /\ OnlyControl

----------------------------------------------------------------------------
Authorize(s) == CheckOwner(s) \/ CheckShare(s)

Load(s) == \/ LoadRows(s) \/ LoadList(s) \/ LoadItem(s)
           \/ LoadTarget(s) \/ CheckDuplicate(s) \/ LoadShare(s)
           \/ LoadOwned(s) \/ LoadShared(s)

Commit(s) == \/ CommitCreateList(s) \/ CommitRenameList(s) \/ CommitDeleteList(s)
             \/ CommitCreateItem(s) \/ CommitUpdateItem(s) \/ CommitDeleteItem(s)
             \/ CommitCreateShare(s) \/ CommitChangeRole(s) \/ CommitRevokeShare(s)

\* The rest of a request, once begun.
Continue(s) == Authorize(s) \/ Load(s) \/ Commit(s) \/ Refresh(s)

Next == \E s \in Slots : Begin(s) \/ Continue(s) \/ Receive(s)

Spec == Init /\ [][Next]_vars

\* The event loop resumes every coroutine whose await has been answered.
FairSpec == Spec /\ \A s \in Slots : WF_vars(Continue(s))

----------------------------------------------------------------------------
TypeOK ==
    /\ owner \in [ListIds -> Users \cup {Unborn, Deleted}]
    /\ shares \in [ListIds -> [Users -> ShareRoles \cup {NoShare}]]
    /\ item \in [ItemIds -> ListIds \cup {Unborn, Deleted}]
    /\ req \in [Slots -> Request]
    /\ held \in [Slots -> SUBSET ((ListIds \cup {Nil}) \X (Roles \cup {NoRole}))]

\* No share and no item outlives its list: the cascade of delete_list and the
\* foreign keys that creating requests in flight run into leave no orphan
\* (the cascade must not fail part-way, docs/planning/prd-2-lists-items.md:197).
NoOrphans ==
    /\ \A l \in ListIds, u \in Users : ShareExists(l, u) => ListExists(l)
    /\ \A i \in ItemIds : ItemExists(i) => ListExists(item[i])

\* No list is ever shared with its owner: create_share tests only the caller's
\* own id (shares/router.py:27), and must be right although the owner was
\* looked up several awaits before the INSERT.
NoOwnerShare == \A l \in ListIds, u \in Users : ShareExists(l, u) => owner[l] # u

\* What a request's user was allowed at some, or at every, moment of it.
EverAllowed(s) ==
    \E p \in held[s] : CanPerform(p[2], PermissionOf[req[s].op])
AlwaysAllowed(s) ==
    \A p \in held[s] : CanPerform(p[2], PermissionOf[req[s].op])

Answered(s) == req[s].pc = "done" /\ req[s].op \in ListScoped

\* OQ-1 (authz/dependencies.py:3): whoever was at no moment allowed the action
\* is answered 404 and nothing else, whether or not the list exists, and
\* whatever its owner does to it meanwhile.
DeniedLooksMissing ==
    \A s \in Slots : Answered(s) /\ ~EverAllowed(s) => req[s].status = 404

\* Every change that is committed for a request is one its user had the right
\* to make at some moment since the request began: a stale permission is
\* stale by less than the request.
WritesWereAllowed ==
    \A s \in Slots : req[s].wrote /\ req[s].op \in ListScoped => EverAllowed(s)

\* The two SELECTs of require_list_permission see two snapshots, yet they never
\* turn away a caller who was allowed the action throughout, and a request on
\* the list itself then succeeds: 404 and 500 are for rows that went away.
NoSpuriousFailure ==
    \A s \in Slots :
        Answered(s) /\ AlwaysAllowed(s) /\ req[s].op \in ListReads \cup ListWrites
            => req[s].status \in {200, 204}

\* list_lists, also two snapshots, returns every list its user had a role on
\* throughout, and none its user had no role on at any moment.
ListingIsFresh ==
    \A s \in Slots : req[s].pc = "done" /\ req[s].op = "list_lists" =>
        \A l \in ListIds :
            /\ <<l, NoRole>> \notin held[s] => l \in req[s].found
            /\ l \in req[s].found => \E role \in Roles : <<l, role>> \in held[s]

Writing(s) == ~req[s].wrote /\ req'[s].wrote

ItemChangesAreTheirLists ==
    /\ \A s \in Slots :
          Writing(s) /\ req[s].op \in {"update_item", "delete_item"}
              => item[req[s].item] = req[s].list
    /\ \A i \in ItemIds : ItemExists(i) /\ item'[i] # item[i] =>
          /\ item'[i] = Deleted
          /\ \E s \in Slots : Writing(s) /\ req[s].list = item[i]

\* An item that is updated or deleted is of the list named in the path, the one
\* the caller was authorized on (items/router.py:50, 72), still when the COMMIT
\* comes; and nothing is done on one list that takes an item from another.
ItemsStayInTheirList == [][ItemChangesAreTheirLists]_vars

ShareChangesAreMeant ==
    \A l \in ListIds, u \in Users : shares'[l][u] # shares[l][u] =>
       \E s \in Slots :
          /\ Writing(s) /\ req[s].list = l
          /\ req[s].op \in
                CASE shares[l][u] = NoShare  -> {"create_share"}
                  [] shares'[l][u] = NoShare -> {"revoke_share", "delete_list"}
                  [] OTHER                   -> {"change_role"}

\* A share row appears only by create_share, changes role only by change_role
\* and goes only by revoke_share or with its list: a change of role that races
\* a revocation does not bring the share back, and the second of two
\* create_shares does not overwrite the first.
SharesChangeByTheirEndpoint == [][ShareChangesAreMeant]_vars

ShareChangesAreTheOwners ==
    \A l \in ListIds, u \in Users : shares'[l][u] # shares[l][u] =>
       \E s \in Slots : Writing(s) /\ req[s].list = l /\ req[s].user = owner[l]

\* Only the owner of a list changes who may do what on it, and is still its
\* owner at the COMMIT: an owner's permission, unlike an editor's, cannot have
\* gone stale.
OnlyTheOwnerShares == [][ShareChangesAreTheOwners]_vars

\* What the product requirements say (docs/planning/prd-3-sharing-permissions.md:34,
\* 249): revocation is immediate, there is no grace period, so that nothing is
\* written for a user who may not write it at that moment.
RevocationIsImmediate ==
    [][\A s \in Slots : Writing(s) /\ req[s].op \in ListScoped =>
          CanPerform(Role(req[s].user, req[s].list), PermissionOf[req[s].op])]_vars

\* What the code keeps of that: once a user has lost a list for good, there comes
\* a time from which no request of theirs gets past the authorization of it.
RevocationTakesHold ==
    \A u \in Users, l \in ListIds :
        <>[](Role(u, l) = NoRole) =>
            <>[](\A s \in Slots : ~ /\ req[s].user = u /\ req[s].list = l
                                    /\ req[s].op \in ListScoped
                                    /\ req[s].pc \in {"load", "duplicate", "commit"})
=============================================================================
