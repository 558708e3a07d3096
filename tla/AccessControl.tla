--------------------------- MODULE AccessControl ---------------------------
(***************************************************************************)
(* What the lists, items and shares endpoints promise their callers, with  *)
(* no SELECT, flush or COMMIT in sight: a job is judged at one instant, by  *)
(* the role its user then has, and takes effect at one later instant, on   *)
(* the tables as they then are.  A job that fails has no effect, and its   *)
(* status tells why.  Sharing implements this specification (see           *)
(* SharingRefinement), although it judges in two SELECTs and answers in    *)
(* up to three more transactions.                                          *)
(***************************************************************************)
EXTENDS Endpoints

CONSTANTS Users, ListIds, ItemIds, Slots, Unborn, Deleted, Nil

VARIABLES
    owner, shares, item,   \* the tables, as in Sharing
    job,                   \* the job in each slot
    doubt                  \* the jobs not yet judged whose user has been
                           \* without the right to them at some moment
vars == <<owner, shares, item, job, doubt>>

Phases == {"none", "asked", "granted", "applied", "answered"}
Calls == [op : AllOps, user : Users, list : ListIds \cup {Nil}, item : ItemIds \cup {Nil},
          target : Users \cup {Nil}, role : ShareRoles]
NoCall == [op |-> "get_list", user |-> Nil, list |-> Nil, item |-> Nil,
           target |-> Nil, role |-> "viewer"]
NoJob == [phase |-> "none", call |-> NoCall, status |-> 0]

ListExists(l) == owner[l] \in Users
ShareExists(l, u) == u \in Users /\ shares[l][u] # NoShare
Role(u, l) == EffectiveRole(owner[l] = u, shares[l][u])
MayDo(c) == CanPerform(Role(c.user, c.list), PermissionOf[c.op])

Init ==
    /\ owner = [l \in ListIds |-> Unborn]
    /\ shares = [l \in ListIds |-> [u \in Users |-> NoShare]]
    /\ item = [i \in ItemIds |-> Unborn]
    /\ job = [s \in Slots |-> NoJob]
    /\ doubt = {}

\* Whoever is without the right now has been so at some moment.
Doubting == doubt' = {s \in Slots : /\ job'[s].phase = "asked"
                                    /\ s \in doubt \/ ~MayDo(job[s].call)'}

Answer(s, status) ==
    job' = [job EXCEPT ![s] =
               [phase |-> "answered", call |-> @.call, status |-> status]]
NoEffect == UNCHANGED <<owner, shares, item>>

----------------------------------------------------------------------------
\* Only the endpoints on one list are judged; the others act on what is the
\* caller's own.
Ask(s) ==
    LET c == job'[s].call IN
    /\ job[s].phase = "none"
    /\ c \in Calls /\ (c.op \in ListScoped => c.list \in ListIds)
    /\ job' = [job EXCEPT ![s] =
           [phase |-> IF c.op \in ListScoped THEN "asked" ELSE "granted",
            call |-> c, status |-> 0]]
    /\ NoEffect

Grant(s) ==
    /\ job[s].phase = "asked" /\ MayDo(job[s].call)
    /\ job' = [job EXCEPT ![s].phase = "granted"]
    /\ NoEffect

\* An action that is not allowed is refused as if the list were not there.
Refuse(s) ==
    /\ job[s].phase = "asked" /\ s \in doubt
    /\ Answer(s, 404)
    /\ NoEffect

\* Why a granted job may fail, and with what status.
Missing(c) ==
    \/ c.op \in ListScoped \ {"list_items", "list_shares"} /\ ~ListExists(c.list)
    \/ c.op \in {"update_item", "delete_item"} /\ item[c.item] # c.list
    \/ c.op = "create_share" /\ c.target \notin Users
    \/ c.op \in {"change_role", "revoke_share"} /\ ~ShareExists(c.list, c.target)

Reason(c, status) ==
    \/ status \in {404, 500} /\ Missing(c)
    \/ status = 400 /\ c.op = "create_share" /\ c.target = c.user
    \/ status = 409 /\ c.op = "create_share" /\ ShareExists(c.list, c.target)

Fail(s) ==
    /\ job[s].phase = "granted"
    /\ \E status \in {400, 404, 409, 500} : Reason(job[s].call, status) /\ Answer(s, status)
    /\ NoEffect

Read(s) ==
    /\ job[s].phase = "granted" /\ job[s].call.op \in ListReads \cup {"list_lists"}
    /\ job[s].call.op = "get_list" => ListExists(job[s].call.list)
    /\ Answer(s, 200)
    /\ NoEffect

----------------------------------------------------------------------------
(* The effects of the writing endpoints on the tables. *)

SetShare(l, u, role) ==
    /\ shares' = [shares EXCEPT ![l][u] = role]
    /\ UNCHANGED <<owner, item>>

CreateList(c) ==
    /\ owner[c.list] = Unborn
    /\ owner' = [owner EXCEPT ![c.list] = c.user]
    /\ UNCHANGED <<shares, item>>

CreateItem(c) ==
    /\ ListExists(c.list) /\ item[c.item] = Unborn
    /\ item' = [item EXCEPT ![c.item] = c.list]
    /\ UNCHANGED <<owner, shares>>

CreateShare(c) ==
    /\ ListExists(c.list) /\ c.target \in Users \ {owner[c.list]}
    /\ ~ShareExists(c.list, c.target)
    /\ SetShare(c.list, c.target, c.role)

ChangeRole(c) == ShareExists(c.list, c.target) /\ SetShare(c.list, c.target, c.role)

\* A list's and an item's other columns are not part of this specification.
Edit(c) == IF c.op = "rename_list" THEN ListExists(c.list) ELSE item[c.item] = c.list

Apply(s) ==
    LET c == job[s].call IN
    /\ job[s].phase = "granted"
    /\ \/ c.op = "create_list"  /\ CreateList(c)
       \/ c.op = "create_item"  /\ CreateItem(c)
       \/ c.op = "create_share" /\ CreateShare(c)
       \/ c.op = "change_role"  /\ ChangeRole(c)
       \/ c.op \in {"rename_list", "update_item"} /\ Edit(c) /\ NoEffect
    /\ job' = [job EXCEPT ![s].phase = "applied"]

\* A deletion of what is gone already succeeds too.
DeleteList(c) ==
    \/ /\ ListExists(c.list)
       /\ owner' = [owner EXCEPT ![c.list] = Deleted]
       /\ shares' = [shares EXCEPT ![c.list] = [u \in Users |-> NoShare]]
       /\ item' = [i \in ItemIds |-> IF item[i] = c.list THEN Deleted ELSE item[i]]
    \/ ~ListExists(c.list) /\ NoEffect

DeleteItem(c) ==
    \/ /\ item[c.item] = c.list
       /\ item' = [item EXCEPT ![c.item] = Deleted]
       /\ UNCHANGED <<owner, shares>>
    \/ item[c.item] = Deleted /\ NoEffect

Delete(s) ==
    LET c == job[s].call IN
    /\ job[s].phase = "granted"
    /\ \/ c.op = "delete_list"  /\ DeleteList(c)
       \/ c.op = "delete_item"  /\ DeleteItem(c)
       \/ c.op = "revoke_share" /\ SetShare(c.list, c.target, NoShare)
    /\ Answer(s, 204)

\* What was applied is confirmed, unless another job has undone it already.
Undone(c) == \/ c.op \in {"create_list", "rename_list"} /\ ~ListExists(c.list)
             \/ c.op \in {"create_item", "update_item"} /\ item[c.item] \notin ListIds
             \/ c.op \in {"create_share", "change_role"} /\ ~ShareExists(c.list, c.target)

Confirm(s) ==
    LET c == job[s].call IN
    /\ job[s].phase = "applied"
    /\ \/ ~Undone(c) /\ c.op \in {"create_list", "create_item", "create_share"} /\ Answer(s, 201)
       \/ ~Undone(c) /\ c.op \in {"rename_list", "update_item", "change_role"} /\ Answer(s, 200)
       \/ Undone(c) /\ Answer(s, 500)
    /\ NoEffect

Leave(s) ==
    /\ job[s].phase = "answered"
    /\ job' = [job EXCEPT ![s] = NoJob]
    /\ NoEffect

Judge(s) == Grant(s) \/ Refuse(s)
Perform(s) == Fail(s) \/ Read(s) \/ Apply(s) \/ Delete(s) \/ Confirm(s)

Next == \E s \in Slots : (Ask(s) \/ Judge(s) \/ Perform(s) \/ Leave(s)) /\ Doubting

Spec == Init /\ [][Next]_vars

\* Every job that was asked for is answered in the end.
FairSpec == Spec /\ \A s \in Slots : WF_vars((Judge(s) \/ Perform(s)) /\ Doubting)
=============================================================================
