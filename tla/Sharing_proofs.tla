--------------------------- MODULE Sharing_proofs ---------------------------
(***************************************************************************)
(* Proofs about Sharing, for every set of users, lists, items, requests    *)
(* and endpoints.                                                          *)
(***************************************************************************)
EXTENDS SharingInv, TLAPS

LEMMA Sentinels ==
    /\ Unborn # Deleted /\ Unborn # Nil /\ Deleted # Nil
    /\ Unborn \notin Users /\ Deleted \notin Users /\ Nil \notin Users
    /\ Unborn \notin ListIds /\ Deleted \notin ListIds /\ Nil \notin ListIds
    /\ Unborn \notin ItemIds /\ Deleted \notin ItemIds /\ Nil \notin ItemIds
BY RowStateAssumption

-----------------------------------------------------------------------------
LEMMA IdleRequest == Idle \in Request /\ WellFormed(Idle)
BY DEF WellFormed, Request, Idle, Awaits, Statuses, AllOps, ListScoped, ListReads, ShareRoles

LEMMA InitTypeInv == Init => TypeInv
<1> SUFFICES ASSUME Init PROVE TypeInv
  OBVIOUS
<1>1. req \in [Slots -> Request] /\ RequestsWellFormed
  BY IdleRequest DEF Init, RequestsWellFormed
<1>2. owner \in [ListIds -> Users \cup {Unborn, Deleted}]
  BY DEF Init
<1>3. item \in [ItemIds -> ListIds \cup {Unborn, Deleted}]
  BY DEF Init
<1>4. shares \in [ListIds -> [Users -> ShareRoles \cup {NoShare}]]
  BY DEF Init
<1>5. held \in [Slots -> SUBSET ((ListIds \cup {Nil}) \X (Roles \cup {NoRole}))]
  BY DEF Init
<1> QED
  BY <1>1, <1>2, <1>3, <1>4, <1>5 DEF TypeInv, TypeOK

\* Every step but a Begin or a Receive gives one request new values of a few
\* fields; this is what it owes the type invariant.
LEMMA RequestStep ==
    ASSUME TypeInv, NEW s \in Slots, NEW q \in Request, WellFormed(q),
           req' = [req EXCEPT ![s] = q]
    PROVE  req' \in [Slots -> Request] /\ RequestsWellFormed'
BY DEF TypeInv, TypeOK, RequestsWellFormed

LEMMA GotoStep ==
    ASSUME TypeInv, NEW s \in Slots, NEW pc \in Awaits, Goto(s, pc),
           WellFormed([req[s] EXCEPT !.pc = pc])
    PROVE  req' \in [Slots -> Request] /\ RequestsWellFormed'
<1>1. [req[s] EXCEPT !.pc = pc] \in Request
  BY DEF TypeInv, TypeOK, Request
<1>2. req' = [req EXCEPT ![s] = [req[s] EXCEPT !.pc = pc]]
  BY DEF Goto, TypeInv, TypeOK
<1> QED
  BY <1>1, <1>2, RequestStep

LEMMA AnswerStep ==
    ASSUME TypeInv, NEW s \in Slots, NEW status \in Statuses, Answer(s, status),
           InFlight(req[s])
    PROVE  req' \in [Slots -> Request] /\ RequestsWellFormed'
<1> DEFINE q == [req[s] EXCEPT !.pc = "done", !.status = status]
<1>1. q \in Request
  <2>1. req[s] \in Request
    BY DEF TypeInv, TypeOK
  <2> QED
    BY <2>1 DEF Request
<1>2. WellFormed(q)
  BY DEF TypeInv, TypeOK, Request, RequestsWellFormed, WellFormed, InFlight, Awaits
<1>3. req' = [req EXCEPT ![s] = q]
  BY DEF Answer, TypeInv, TypeOK
<1> QED
  BY <1>1, <1>2, <1>3, RequestStep

LEMMA WrittenStep ==
    ASSUME TypeInv, NEW s \in Slots, NEW status \in Statuses,
           NEW pc \in {"refresh", "done"}, Written(s, pc, status),
           req[s].pc = "commit",
           pc = "refresh" => req[s].op \notin {"delete_list", "delete_item", "revoke_share"}
    PROVE  req' \in [Slots -> Request] /\ RequestsWellFormed'
<1> DEFINE q == [req[s] EXCEPT !.pc = pc, !.wrote = TRUE, !.status = status]
<1>1. q \in Request
  <2>1. req[s] \in Request /\ pc \in Awaits \cup {"idle", "done"}
    BY DEF TypeInv, TypeOK, Awaits
  <2> QED
    BY <2>1 DEF Request
<1>2. WellFormed(q)
  BY DEF TypeInv, TypeOK, Request, RequestsWellFormed, WellFormed
<1>3. req' = [req EXCEPT ![s] = q]
  BY DEF Written, TypeInv, TypeOK
<1> QED
  BY <1>1, <1>2, <1>3, RequestStep

LEMMA PairsType ==
    ASSUME NEW q \in Request, NEW own, NEW shr \in [ListIds -> [Users -> ShareRoles \cup {NoShare}]],
           q.user \in Users, q.op # "list_lists" => q.list \in ListIds
    PROVE  Pairs(q, own, shr) \subseteq ListIds \X (Roles \cup {NoRole})
<1>1. ASSUME NEW l \in ListIds PROVE RoleIn(own, shr, q.user, l) \in Roles \cup {NoRole}
  BY DEF RoleIn, EffectiveRole, Roles
<1>2. Scope(q) \subseteq ListIds
  BY DEF Scope
<1> QED
  BY <1>1, <1>2 DEF Pairs

HeldOK == held \in [Slots -> SUBSET ((ListIds \cup {Nil}) \X (Roles \cup {NoRole}))]

LEMMA ObserveStep ==
    ASSUME TypeInv, NEW own, NEW shr \in [ListIds -> [Users -> ShareRoles \cup {NoShare}]],
           Observe(own, shr)
    PROVE  HeldOK'
<1>1. ASSUME NEW s \in Slots, InFlight(req[s])
      PROVE  Pairs(req[s], own, shr) \subseteq (ListIds \cup {Nil}) \X (Roles \cup {NoRole})
  <2>1. req[s] \in Request /\ WellFormed(req[s]) /\ req[s].pc # "idle"
    BY <1>1 DEF TypeInv, TypeOK, RequestsWellFormed, InFlight, Awaits
  <2>2. req[s].user \in Users /\ (req[s].op # "list_lists" => req[s].list \in ListIds)
    BY <2>1 DEF WellFormed
  <2> QED
    BY <2>1, <2>2, PairsType
<1>2. \A s \in Slots : held[s] \subseteq (ListIds \cup {Nil}) \X (Roles \cup {NoRole})
  BY DEF TypeInv, TypeOK
<1> QED
  BY <1>1, <1>2 DEF Observe, HeldOK

ReqOK == req \in [Slots -> Request] /\ RequestsWellFormed

LEMMA DirtyFields ==
    ASSUME NEW q \in Request, NEW pc \in Awaits \cup {"done"}, NEW d \in BOOLEAN
    PROVE  [q EXCEPT !.pc = pc, !.dirty = d] \in Request
BY DEF Request

LEMMA FoundFields ==
    ASSUME NEW q \in Request, NEW pc \in Awaits \cup {"done"}, NEW ls \in SUBSET ListIds
    PROVE  [q EXCEPT !.pc = pc, !.found = ls] \in Request
BY DEF Request

LEMMA AnsweredFields ==
    ASSUME NEW q \in Request, NEW pc \in Awaits \cup {"done"}, NEW status \in Statuses,
           NEW ls \in SUBSET ListIds
    PROVE  [q EXCEPT !.pc = pc, !.status = status, !.found = ls] \in Request
BY DEF Request

LEMMA LoadStep == ASSUME TypeInv, NEW s \in Slots, Load(s) PROVE ReqOK'
<1> USE DEF ReqOK
<1>0. /\ req[s] \in Request /\ WellFormed(req[s]) /\ req \in [Slots -> Request]
      /\ {200, 404, 409} \subseteq Statuses
  BY DEF TypeInv, TypeOK, RequestsWellFormed, Statuses
<1>1. InFlight(req[s])
  BY DEF Load, LoadRows, LoadList, LoadItem, LoadTarget, CheckDuplicate, LoadShare,
         LoadOwned, LoadShared, InFlight, Awaits
<1>2. ASSUME NEW d \in BOOLEAN, req[s].pc = "load", req[s].op \in Writes \ {"create_share"},
             req' = [req EXCEPT ![s].pc = "commit", ![s].dirty = d]
      PROVE  ReqOK'
  <2> DEFINE q == [req[s] EXCEPT !.pc = "commit", !.dirty = d]
  <2>1. q \in Request
    <3>1. "commit" \in Awaits \cup {"done"}
      BY DEF Awaits
    <3> QED
      BY <1>0, <3>1, DirtyFields
  <2>2. WellFormed(q)
    BY <1>0, <1>2 DEF WellFormed, Request
  <2>3. req' = [req EXCEPT ![s] = q]
    BY <1>0, <1>2
  <2> QED
    BY <2>1, <2>2, <2>3, RequestStep
<1>3. CASE LoadRows(s)
  BY <1>3, <1>0, <1>1, AnswerStep DEF LoadRows
<1>4. CASE LoadList(s)
  <2>1. CASE Answer(s, 404) \/ Answer(s, 200)
    BY <2>1, <1>0, <1>1, AnswerStep
  <2>2. CASE req[s].op = "delete_list" /\ Goto(s, "commit")
    <3>1. WellFormed([req[s] EXCEPT !.pc = "commit"])
      BY <1>0, <1>4, <2>2 DEF LoadList, WellFormed, Request, Writes, ListWrites
    <3> QED
      BY <2>2, <3>1, GotoStep DEF Awaits
  <2>3. CASE req[s].op = "rename_list" /\ ~Answer(s, 404)
    BY <2>3, <1>2, <1>4 DEF LoadList, Writes, ListWrites
  <2> QED
    BY <1>4, <2>1, <2>2, <2>3 DEF LoadList
<1>5. CASE LoadItem(s)
  <2>1. CASE Answer(s, 404)
    BY <2>1, <1>0, <1>1, AnswerStep
  <2>2. CASE req[s].op = "delete_item" /\ Goto(s, "commit")
    <3>1. WellFormed([req[s] EXCEPT !.pc = "commit"])
      BY <1>0, <1>5, <2>2 DEF LoadItem, WellFormed, Request, Writes, ItemWrites
    <3> QED
      BY <2>2, <3>1, GotoStep DEF Awaits
  <2>3. CASE req[s].op = "update_item" /\ ~Answer(s, 404)
    BY <2>3, <1>2, <1>5 DEF LoadItem, Writes, ItemWrites
  <2> QED
    BY <1>5, <2>1, <2>2, <2>3 DEF LoadItem
<1>6. CASE LoadTarget(s)
  <2>1. CASE Answer(s, 404)
    BY <2>1, <1>0, <1>1, AnswerStep
  <2>2. CASE req[s].target \in Users /\ Goto(s, "duplicate")
    <3>1. WellFormed([req[s] EXCEPT !.pc = "duplicate"])
      BY <1>0, <1>6, <2>2 DEF LoadTarget, WellFormed, Request, Writes, ItemWrites
    <3> QED
      BY <2>2, <3>1, GotoStep DEF Awaits
  <2> QED
    BY <1>6, <2>1, <2>2 DEF LoadTarget
<1>7. CASE CheckDuplicate(s)
  <2>1. CASE Answer(s, 409)
    BY <2>1, <1>0, <1>1, AnswerStep
  <2>2. CASE Goto(s, "commit")
    <3>1. WellFormed([req[s] EXCEPT !.pc = "commit"])
      BY <1>0, <1>7, <2>2 DEF CheckDuplicate, WellFormed, Request, Writes, ShareWrites
    <3> QED
      BY <2>2, <3>1, GotoStep DEF Awaits
  <2> QED
    BY <1>7, <2>1, <2>2 DEF CheckDuplicate
<1>8. CASE LoadShare(s)
  <2>1. CASE Answer(s, 404)
    BY <2>1, <1>0, <1>1, AnswerStep
  <2>2. CASE ~Answer(s, 404)
    BY <2>2, <1>2, <1>8 DEF LoadShare, Writes, ShareWrites
  <2> QED
    BY <2>1, <2>2
<1>9. CASE LoadOwned(s)
  <2> DEFINE owned == {l \in ListIds : owner[l] = req[s].user}
             q == [req[s] EXCEPT !.pc = "shared", !.found = owned]
  <2>1. q \in Request
    <3>1. owned \in SUBSET ListIds
      OBVIOUS
    <3>2. "shared" \in Awaits \cup {"done"}
      BY DEF Awaits
    <3> HIDE DEF owned
    <3> QED
      BY <1>0, <3>1, <3>2, FoundFields
  <2>2. WellFormed(q)
    BY <1>0, <1>9 DEF LoadOwned, WellFormed, Request
  <2>3. req' = [req EXCEPT ![s] = q]
    BY <1>0, <1>9 DEF LoadOwned
  <2> QED
    BY <2>1, <2>2, <2>3, RequestStep
<1>10. CASE LoadShared(s)
  <2> DEFINE all == req[s].found \cup SharedWith(req[s].user)
             q == [req[s] EXCEPT !.pc = "done", !.status = 200, !.found = all]
  <2>1. q \in Request
    <3>1. req[s].found \in SUBSET ListIds
      BY <1>0 DEF Request
    <3>2. all \in SUBSET ListIds
      BY <3>1 DEF SharedWith
    <3>3. req[s] \in Request /\ 200 \in Statuses /\ "done" \in Awaits \cup {"done"}
      BY <1>0
    <3> HIDE DEF all
    <3> QED
      BY <3>2, <3>3, AnsweredFields
  <2>2. WellFormed(q)
    BY <1>0, <1>10 DEF LoadShared, WellFormed, Request
  <2>3. req' = [req EXCEPT ![s] = q]
    <3>1. req' = [req EXCEPT ![s].pc = "done", ![s].status = 200, ![s].found = all]
      BY <1>10 DEF LoadShared
    <3>2. req \in [Slots -> Request]
      BY <1>0
    <3> HIDE DEF all
    <3> QED
      BY <3>1, <3>2
  <2> QED
    BY <2>1, <2>2, <2>3, RequestStep
<1> QED
  BY <1>3, <1>4, <1>5, <1>6, <1>7, <1>8, <1>9, <1>10 DEF Load

LEMMA CommitStep ==
    ASSUME TypeInv, NEW s \in Slots, Commit(s)
    PROVE  TypeInv'
<1> USE DEF ReqOK
<1> DEFINE q == req[s]
           TablesOK == /\ owner \in [ListIds -> Users \cup {Unborn, Deleted}]
                       /\ shares \in [ListIds -> [Users -> ShareRoles \cup {NoShare}]]
                       /\ item \in [ItemIds -> ListIds \cup {Unborn, Deleted}]
<1>0. q \in Request /\ WellFormed(q) /\ TablesOK /\ HeldOK /\ {0, 204, 404, 409, 500} \subseteq Statuses
  BY DEF TypeInv, TypeOK, RequestsWellFormed, HeldOK, Statuses
<1>1. q.pc = "commit" /\ InFlight(q) /\ q.user \in Users /\ q.list \in ListIds
  <2>1. q.pc = "commit"
    BY DEF Commit, CommitCreateList, CommitRenameList, CommitDeleteList, CommitCreateItem,
           CommitUpdateItem, CommitDeleteItem, CommitCreateShare, CommitChangeRole, CommitRevokeShare
  <2> QED
    BY <2>1, <1>0 DEF InFlight, Awaits, WellFormed, Writes, ListWrites, ItemWrites, ShareWrites
<1>2. ASSUME NEW status \in {204, 404, 409, 500}, Answer(s, status) PROVE ReqOK'
  BY <1>0, <1>1, <1>2, AnswerStep
<1>3. ASSUME Written(s, "refresh", 0), q.op \notin {"delete_list", "delete_item", "revoke_share"}
      PROVE  ReqOK'
  BY <1>0, <1>1, <1>3, WrittenStep
<1>4. ASSUME Written(s, "done", 204) PROVE ReqOK'
  BY <1>0, <1>1, <1>4, WrittenStep
<1>5. ASSUME NEW exists, Update(s, exists), q.op \notin {"delete_list", "delete_item", "revoke_share"}
      PROVE  ReqOK'
  <2>1. CASE Goto(s, "refresh")
    <3>1. WellFormed([req[s] EXCEPT !.pc = "refresh"])
      BY <1>0, <1>1, <1>5 DEF WellFormed, Request
    <3> QED
      BY <2>1, <3>1, GotoStep DEF Awaits
  <2> QED
    BY <2>1, <1>2, <1>3, <1>5 DEF Update
<1>6. ReqOK' /\ OnlyControl => TypeInv'
  BY <1>0 DEF OnlyControl, TypeInv, TypeOK, HeldOK
<1>7. ReqOK' /\ TablesOK' /\ HeldOK' => TypeInv'
  BY DEF TypeInv, TypeOK, HeldOK
<1>8. ASSUME NEW role \in ShareRoles \cup {NoShare}, q.target \in Users, SetShare(s, role)
      PROVE  TablesOK' /\ HeldOK'
  <2> DEFINE shares2 == [shares EXCEPT ![q.list][q.target] = role]
  <2>1. shares2 \in [ListIds -> [Users -> ShareRoles \cup {NoShare}]]
    BY <1>0, <1>1, <1>8
  <2>2. shares' = shares2 /\ Observe(owner, shares2) /\ UNCHANGED <<owner, item>>
    BY <1>8 DEF SetShare
  <2> HIDE DEF shares2
  <2>3. HeldOK'
    BY <2>1, <2>2, ObserveStep
  <2> QED
    BY <1>0, <2>1, <2>2, <2>3
<1>9. CASE CommitCreateList(s)
  <2> DEFINE owner2 == [owner EXCEPT ![q.list] = q.user]
  <2>1. owner' = owner2 /\ Observe(owner2, shares) /\ UNCHANGED <<shares, item>>
    BY <1>9 DEF CommitCreateList
  <2>2. owner2 \in [ListIds -> Users \cup {Unborn, Deleted}]
    BY <1>0, <1>1
  <2>3. ReqOK'
    BY <1>3, <1>9 DEF CommitCreateList
  <2> HIDE DEF owner2
  <2>4. HeldOK'
    BY <1>0, <2>1, ObserveStep
  <2> QED
    BY <1>0, <1>7, <2>1, <2>2, <2>3, <2>4
<1>10. CASE CommitRenameList(s)
  BY <1>5, <1>6, <1>10 DEF CommitRenameList
<1>11. CASE CommitDeleteList(s)
  <2> DEFINE owner2 == [owner EXCEPT ![q.list] = Deleted]
             shares2 == [shares EXCEPT ![q.list] = [u \in Users |-> NoShare]]
  <2>1. CASE ListExists(q.list)
    <3>1. /\ owner' = owner2 /\ shares' = shares2 /\ Observe(owner2, shares2)
          /\ item' = [i \in ItemIds |-> IF item[i] = q.list THEN Deleted ELSE item[i]]
          /\ Written(s, "done", 204)
      BY <1>11, <2>1 DEF CommitDeleteList
    <3>2. owner2 \in [ListIds -> Users \cup {Unborn, Deleted}]
      <4>1. owner \in [ListIds -> Users \cup {Unborn, Deleted}]
        BY <1>0
      <4> QED
        BY <4>1
    <3>3. shares2 \in [ListIds -> [Users -> ShareRoles \cup {NoShare}]]
      BY <1>0
    <3>4. item' \in [ItemIds -> ListIds \cup {Unborn, Deleted}]
      BY <1>0, <3>1
    <3> HIDE DEF owner2, shares2
    <3>5. HeldOK'
      BY <3>1, <3>3, ObserveStep
    <3> QED
      BY <1>4, <1>7, <3>1, <3>2, <3>3, <3>4, <3>5
  <2>2. CASE ~ListExists(q.list)
    BY <1>2, <1>6, <1>11, <2>2 DEF CommitDeleteList
  <2> QED
    BY <2>1, <2>2
<1>12. CASE CommitCreateItem(s)
  <2>1. CASE ForeignKeyHolds(q.list)
    <3>1. /\ item' = [item EXCEPT ![q.item] = q.list] /\ UNCHANGED <<owner, shares, held>>
          /\ Written(s, "refresh", 0)
      BY <1>12, <2>1 DEF CommitCreateItem
    <3>2. ReqOK'
      BY <1>3, <1>12, <3>1 DEF CommitCreateItem
    <3>3. TablesOK' /\ HeldOK'
      BY <1>0, <1>1, <3>1 DEF HeldOK
    <3> QED
      BY <1>7, <3>2, <3>3
  <2>2. CASE ~ForeignKeyHolds(q.list)
    BY <1>2, <1>6, <1>12, <2>2 DEF CommitCreateItem
  <2> QED
    BY <2>1, <2>2
<1>13. CASE CommitUpdateItem(s)
  BY <1>5, <1>6, <1>13 DEF CommitUpdateItem
<1>14. CASE CommitDeleteItem(s)
  <2>1. CASE ItemExists(q.item)
    <3>1. /\ item' = [item EXCEPT ![q.item] = Deleted] /\ UNCHANGED <<owner, shares, held>>
          /\ Written(s, "done", 204)
      BY <1>14, <2>1 DEF CommitDeleteItem
    <3>2. item' \in [ItemIds -> ListIds \cup {Unborn, Deleted}]
      <4>1. item \in [ItemIds -> ListIds \cup {Unborn, Deleted}]
        BY <1>0
      <4> QED
        BY <3>1, <4>1
    <3>3. TablesOK' /\ HeldOK'
      BY <1>0, <3>1, <3>2 DEF HeldOK
    <3> QED
      BY <1>4, <1>7, <3>1, <3>3
  <2>2. CASE ~ItemExists(q.item)
    BY <1>2, <1>6, <1>14, <2>2 DEF CommitDeleteItem
  <2> QED
    BY <2>1, <2>2
<1>15. CASE CommitCreateShare(s)
  <2>1. CASE (Answer(s, 404) \/ Answer(s, 409)) /\ OnlyControl
    BY <2>1, <1>2, <1>6
  <2>2. CASE Written(s, "refresh", 0) /\ SetShare(s, q.role)
    <3>1. q.target \in Users /\ q.role \in ShareRoles \cup {NoShare}
      BY <1>0, <1>1, <1>15 DEF CommitCreateShare, WellFormed, Request
    <3>2. ReqOK'
      BY <1>3, <1>15, <2>2 DEF CommitCreateShare
    <3> QED
      BY <1>7, <1>8, <2>2, <3>1, <3>2
  <2> QED
    BY <1>15, <2>1, <2>2 DEF CommitCreateShare
<1>16. CASE CommitChangeRole(s)
  <2>1. ReqOK'
    BY <1>5, <1>16 DEF CommitChangeRole
  <2>2. CASE SetShare(s, q.role)
    <3>1. q.target \in Users /\ q.role \in ShareRoles \cup {NoShare}
      BY <1>0, <1>1, <1>16 DEF CommitChangeRole, WellFormed, Request
    <3> QED
      BY <1>7, <1>8, <2>1, <2>2, <3>1
  <2> QED
    BY <1>6, <1>16, <2>1, <2>2 DEF CommitChangeRole
<1>17. CASE CommitRevokeShare(s)
  <2>1. CASE OnlyControl /\ Answer(s, 204)
    BY <2>1, <1>2, <1>6
  <2>2. CASE Written(s, "done", 204) /\ SetShare(s, NoShare)
    <3>1. q.target \in Users
      BY <1>0, <1>1, <1>17 DEF CommitRevokeShare, WellFormed
    <3> QED
      BY <1>4, <1>7, <1>8, <2>2, <3>1
  <2> QED
    BY <1>17, <2>1, <2>2 DEF CommitRevokeShare
<1> QED
  BY <1>9, <1>10, <1>11, <1>12, <1>13, <1>14, <1>15, <1>16, <1>17 DEF Commit

\* Begin fills in a whole new request.
LEMMA BeginStarts ==
    ASSUME TypeInv, NEW s \in Slots, Begin(s)
    PROVE  \E op \in AllOps, u \in Users :
           \E l \in ListArgs(op), i \in ItemArgs(op), t \in TargetArgs(op), r \in RoleArgs(op) :
              /\ req' = [req EXCEPT ![s] = Started(op, u, l, i, t, r)]
              /\ held' = [held EXCEPT ![s] = Pairs(Started(op, u, l, i, t, r), owner, shares)]
BY OpsAssumption DEF Begin

LEMMA StartedRequest ==
    ASSUME NEW op \in AllOps, NEW u \in Users, NEW l \in ListArgs(op), NEW i \in ItemArgs(op),
           NEW t \in TargetArgs(op), NEW r \in RoleArgs(op)
    PROVE  /\ Started(op, u, l, i, t, r) \in Request
           /\ WellFormed(Started(op, u, l, i, t, r))
<1> DEFINE q == Started(op, u, l, i, t, r)
<1>1. /\ l \in ListIds \cup {Nil} /\ (op # "list_lists" => l \in ListIds)
      /\ i \in ItemIds \cup {Nil} /\ (op \in ItemWrites => i \in ItemIds)
      /\ t \in Users \cup {Nil} /\ (op \in {"change_role", "revoke_share"} => t \in Users)
      /\ r \in ShareRoles
  <2>1. l \in ListIds \cup {Nil} /\ (op # "list_lists" => l \in ListIds)
    BY DEF ListArgs
  <2>2. i \in ItemIds \cup {Nil} /\ (op \in ItemWrites => i \in ItemIds)
    BY DEF ItemArgs, ItemWrites
  <2>3. t \in Users \cup {Nil} /\ (op \in {"change_role", "revoke_share"} => t \in Users)
    BY DEF TargetArgs
  <2>4. r \in ShareRoles
    BY DEF RoleArgs, Idle, ShareRoles
  <2> QED
    BY <2>1, <2>2, <2>3, <2>4
<1>2. /\ FirstAwait(op) \in {"commit", "owned", "owner"}
      /\ FirstAwait(op) = "commit" => op = "create_list"
      /\ FirstAwait(op) = "owned" => op = "list_lists"
      /\ FirstAwait(op) = "owner" => op \in ListScoped
  BY DEF FirstAwait, AllOps
<1>3. /\ q.pc = FirstAwait(op) /\ q.op = op /\ q.user = u /\ q.list = l
      /\ q.item = i /\ q.target = t /\ q.wrote = FALSE
  BY DEF Started, Idle
<1>4. q \in Request
  <2>1. FirstAwait(op) \in Awaits \cup {"idle", "done"} /\ u \in Users \cup {Nil}
    BY <1>2 DEF Awaits
  <2> QED
    BY <1>1, <2>1, IdleRequest DEF Request, Started
<1>5. WellFormed(q)
  <2> HIDE DEF q
  <2> QED
    BY <1>1, <1>2, <1>3 DEF WellFormed, Writes
<1> QED
  BY <1>4, <1>5

LEMMA BeginStep == ASSUME TypeInv, NEW s \in Slots, Begin(s) PROVE TypeInv'
<1>1. PICK op \in AllOps, u \in Users :
           \E l \in ListArgs(op), i \in ItemArgs(op), t \in TargetArgs(op), r \in RoleArgs(op) :
              /\ req' = [req EXCEPT ![s] = Started(op, u, l, i, t, r)]
              /\ held' = [held EXCEPT ![s] = Pairs(Started(op, u, l, i, t, r), owner, shares)]
  BY BeginStarts
<1>2. PICK l \in ListArgs(op), i \in ItemArgs(op), t \in TargetArgs(op), r \in RoleArgs(op) :
              /\ req' = [req EXCEPT ![s] = Started(op, u, l, i, t, r)]
              /\ held' = [held EXCEPT ![s] = Pairs(Started(op, u, l, i, t, r), owner, shares)]
  BY <1>1
<1> DEFINE q == Started(op, u, l, i, t, r)
<1>3. q \in Request /\ WellFormed(q)
  BY StartedRequest
<1>4. q.pc # "idle"
  BY DEF Started, Idle, FirstAwait
<1> HIDE DEF q
<1>5. q.user \in Users /\ (q.op # "list_lists" => q.list \in ListIds)
  BY <1>3, <1>4 DEF WellFormed
<1>6. ReqOK'
  BY <1>2, <1>3, RequestStep DEF ReqOK, q
<1>7. Pairs(q, owner, shares) \subseteq ListIds \X (Roles \cup {NoRole})
  BY <1>3, <1>5, PairsType DEF TypeInv, TypeOK
<1>8. HeldOK'
  BY <1>2, <1>7 DEF TypeInv, TypeOK, HeldOK, q
<1> QED
  BY <1>6, <1>8 DEF TypeInv, TypeOK, ReqOK, HeldOK, Begin

LEMMA StepTypeInv == TypeInv /\ [Next]_vars => TypeInv'
<1> SUFFICES ASSUME TypeInv, [Next]_vars PROVE TypeInv'
  OBVIOUS
<1>0. ASSUME ReqOK', OnlyControl PROVE TypeInv'
  BY <1>0 DEF ReqOK, OnlyControl, TypeInv, TypeOK
<1>1. ASSUME NEW s \in Slots, Begin(s) PROVE TypeInv'
  BY <1>1, BeginStep
<1>2. ASSUME NEW s \in Slots, Receive(s) PROVE TypeInv'
  <2>1. ReqOK'
    BY <1>2, IdleRequest, RequestStep DEF Receive, ReqOK
  <2> QED
    BY <1>2, <2>1 DEF Receive, ReqOK, TypeInv, TypeOK
<1>3. ASSUME NEW s \in Slots, CheckOwner(s) PROVE TypeInv'
  <2> DEFINE d == owner[req[s].list] = req[s].user
             q == [req[s] EXCEPT !.pc = "share", !.isOwner = d]
  <2>1. req[s] \in Request /\ WellFormed(req[s]) /\ req \in [Slots -> Request]
    BY DEF TypeInv, TypeOK, RequestsWellFormed
  <2>2. q \in Request
    <3>1. /\ [req[s] EXCEPT !.pc = "share", !.isOwner = TRUE] \in Request
          /\ [req[s] EXCEPT !.pc = "share", !.isOwner = FALSE] \in Request
      BY <2>1 DEF Request, Awaits
    <3>2. d = TRUE \/ d = FALSE
      OBVIOUS
    <3> HIDE DEF d
    <3> QED
      BY <3>1, <3>2
  <2>3. WellFormed(q)
    BY <1>3, <2>1 DEF CheckOwner, WellFormed, Request
  <2>4. req' = [req EXCEPT ![s] = q]
    BY <1>3, <2>1 DEF CheckOwner
  <2> HIDE DEF q
  <2> QED
    BY <1>0, <1>3, <2>2, <2>3, <2>4, RequestStep DEF CheckOwner, ReqOK
<1>4. ASSUME NEW s \in Slots, CheckShare(s) PROVE TypeInv'
  <2>1. InFlight(req[s]) /\ 400 \in Statuses /\ 404 \in Statuses
    BY <1>4 DEF CheckShare, InFlight, Awaits, Statuses
  <2>2. CASE Answer(s, 404) \/ Answer(s, 400)
    BY <1>0, <1>4, <2>1, <2>2, AnswerStep DEF CheckShare, ReqOK
  <2>3. CASE Goto(s, IF req[s].op = "create_item" THEN "commit" ELSE "load")
    <3>1. WellFormed([req[s] EXCEPT !.pc = IF req[s].op = "create_item" THEN "commit" ELSE "load"])
      BY <1>4 DEF CheckShare, TypeInv, TypeOK, Request, RequestsWellFormed, WellFormed, Writes, ItemWrites
    <3>2. ReqOK'
      BY <2>3, <3>1, GotoStep DEF Awaits, ReqOK
    <3> QED
      BY <1>0, <1>4, <3>2 DEF CheckShare
  <2> QED
    BY <1>4, <2>2, <2>3 DEF CheckShare, Denial
<1>5. ASSUME NEW s \in Slots, Load(s) PROVE TypeInv'
  <2>1. OnlyControl
    BY <1>5 DEF Load, LoadRows, LoadList, LoadItem, LoadTarget, CheckDuplicate, LoadShare,
                LoadOwned, LoadShared
  <2> QED
    BY <1>0, <1>5, <2>1, LoadStep
<1>6. ASSUME NEW s \in Slots, Commit(s) PROVE TypeInv'
  BY <1>6, CommitStep
<1>7. ASSUME NEW s \in Slots, Refresh(s) PROVE TypeInv'
  <2>1. InFlight(req[s]) /\ {200, 201, 500} \subseteq Statuses
    BY <1>7 DEF Refresh, InFlight, Awaits, Statuses
  <2>2. \E status \in {200, 201, 500} : Answer(s, status)
    BY <1>7 DEF Refresh
  <2> QED
    BY <1>0, <1>7, <2>1, <2>2, AnswerStep DEF Refresh, ReqOK
<1>8. CASE UNCHANGED vars
  BY <1>8 DEF vars, TypeInv, TypeOK, RequestsWellFormed
<1> QED
  BY <1>1, <1>2, <1>3, <1>4, <1>5, <1>6, <1>7, <1>8 DEF Next, Continue, Authorize

\* Every table, request and history keeps its type, whatever requests run and
\* however they interleave: no handler ever indexes a table with an argument it
\* did not get, and the status of every answer is one of those the code has.
THEOREM TypeCorrect == Spec => []TypeOK
<1>1. TypeInv => TypeOK
  BY DEF TypeInv
<1> QED
  BY <1>1, InitTypeInv, StepTypeInv, PTL DEF Spec

-----------------------------------------------------------------------------
(* How a request and the tables move in one step. *)

\* What a step of request s keeps and where it leads.
Moves(s) ==
    /\ \A t \in Slots \ {s} : req'[t] = req[t]
    /\ req'[s].op = req[s].op /\ req'[s].user = req[s].user /\ req'[s].list = req[s].list
    /\ req'[s].item = req[s].item /\ req'[s].target = req[s].target
    /\ req'[s].pc = "share" =>
          /\ req[s].pc = "owner"
          /\ req'[s].isOwner = (owner[req[s].list] = req[s].user)
    /\ req'[s].pc \in {"load", "duplicate", "commit"} =>
          \/ req[s].pc \in {"load", "duplicate"}
          \/ /\ req[s].pc = "share"
             /\ Granted(ResolvedRole(req[s]), req[s].op) /\ ~SharesWithSelf(req[s])
    /\ req'[s].pc = "commit" /\ req[s].op \in {"update_item", "delete_item"}
          => item[req[s].item] = req[s].list
    /\ req'[s].pc \in {"share", "load", "duplicate", "commit"} => OnlyControl
    /\ req'[s].pc # "owner" /\ req'[s].pc # "idle"
    /\ req[s].pc = "refresh" => req'[s].pc = "done"

LEMMA LoadMoves == ASSUME TypeInv, NEW s \in Slots, Load(s) PROVE Moves(s) /\ OnlyControl
<1>0. req \in [Slots -> Request] /\ req[s] \in Request /\ WellFormed(req[s])
  BY DEF TypeInv, TypeOK, RequestsWellFormed
<1> USE DEF Moves, Request, OnlyControl
<1>1. CASE LoadRows(s)
  BY <1>0, <1>1 DEF LoadRows, Answer
<1>2. CASE LoadList(s)
  BY <1>0, <1>2 DEF LoadList, Answer, Goto
<1>3. CASE LoadItem(s)
  BY <1>0, <1>3 DEF LoadItem, Answer, Goto, ItemOfList
<1>4. CASE LoadTarget(s)
  BY <1>0, <1>4 DEF LoadTarget, Answer, Goto
<1>5. CASE CheckDuplicate(s)
  BY <1>0, <1>5 DEF CheckDuplicate, Answer, Goto, WellFormed
<1>6. CASE LoadShare(s)
  BY <1>0, <1>6 DEF LoadShare, Answer
<1>7. CASE LoadOwned(s)
  BY <1>0, <1>7 DEF LoadOwned
<1>8. CASE LoadShared(s)
  BY <1>0, <1>8 DEF LoadShared
<1> QED
  BY <1>1, <1>2, <1>3, <1>4, <1>5, <1>6, <1>7, <1>8 DEF Load

LEMMA CommitMoves ==
    ASSUME TypeInv, NEW s \in Slots, Commit(s)
    PROVE  Moves(s) /\ req[s].pc = "commit" /\ req'[s].pc \in {"refresh", "done"}
<1>0. req \in [Slots -> Request] /\ req[s] \in Request
  BY DEF TypeInv, TypeOK
<1> USE DEF Moves, Request, Written, Answer
<1>1. ASSUME NEW exists, Update(s, exists), req[s].pc = "commit"
      PROVE  Moves(s) /\ req'[s].pc \in {"refresh", "done"}
  BY <1>0, <1>1 DEF Update, Goto
<1>2. CASE CommitCreateList(s)
  BY <1>0, <1>2 DEF CommitCreateList
<1>3. CASE CommitRenameList(s)
  BY <1>1, <1>3 DEF CommitRenameList
<1>4. CASE CommitDeleteList(s)
  BY <1>0, <1>4 DEF CommitDeleteList
<1>5. CASE CommitCreateItem(s)
  BY <1>0, <1>5 DEF CommitCreateItem
<1>6. CASE CommitUpdateItem(s)
  BY <1>1, <1>6 DEF CommitUpdateItem
<1>7. CASE CommitDeleteItem(s)
  BY <1>0, <1>7 DEF CommitDeleteItem
<1>8. CASE CommitCreateShare(s)
  BY <1>0, <1>8 DEF CommitCreateShare
<1>9. CASE CommitChangeRole(s)
  BY <1>1, <1>9 DEF CommitChangeRole
<1>10. CASE CommitRevokeShare(s)
  BY <1>0, <1>10 DEF CommitRevokeShare
<1> QED
  BY <1>2, <1>3, <1>4, <1>5, <1>6, <1>7, <1>8, <1>9, <1>10 DEF Commit

LEMMA ContinueMoves ==
    ASSUME TypeInv, NEW s \in Slots, Continue(s)
    PROVE  Moves(s) /\ (OnlyControl \/ Commit(s))
<1>0. req \in [Slots -> Request] /\ req[s] \in Request
  BY DEF TypeInv, TypeOK
<1>1. CASE CheckOwner(s)
  BY <1>0, <1>1 DEF CheckOwner, Moves, Request
<1>2. CASE CheckShare(s)
  BY <1>0, <1>2 DEF CheckShare, Moves, Request, Answer, Goto
<1>3. CASE Refresh(s)
  BY <1>0, <1>3 DEF Refresh, Moves, Request, Answer
<1> QED
  BY <1>1, <1>2, <1>3, LoadMoves, CommitMoves DEF Continue, Authorize

\* An id is born once, to the request that drew it, and is deleted for good.
LEMMA TableMoves ==
    ASSUME TypeInv, FreshIds, NEW s \in Slots, Commit(s)
    PROVE  /\ \A l \in ListIds :
                 \/ owner'[l] = owner[l]
                 \/ /\ req[s].op = "create_list" /\ l = req[s].list
                    /\ owner[l] = Unborn /\ owner'[l] = req[s].user
                 \/ owner[l] \in Users /\ owner'[l] = Deleted
           /\ \A i \in ItemIds :
                 \/ item'[i] = item[i]
                 \/ /\ req[s].op = "create_item" /\ i = req[s].item
                    /\ item[i] = Unborn /\ item'[i] = req[s].list
                 \/ item[i] \in ListIds /\ item'[i] = Deleted
<1>0. /\ owner \in [ListIds -> Users \cup {Unborn, Deleted}]
      /\ item \in [ItemIds -> ListIds \cup {Unborn, Deleted}]
      /\ req[s].pc = "commit" /\ InFlight(req[s])
      /\ req[s].op # "list_lists" => req[s].list \in ListIds
  BY CommitMoves DEF TypeInv, TypeOK, RequestsWellFormed, WellFormed, InFlight, Awaits
<1> USE DEF OnlyControl
<1>1. CASE CommitCreateList(s)
  BY <1>0, <1>1 DEF CommitCreateList, FreshIds
<1>2. CASE CommitRenameList(s)
  BY <1>2 DEF CommitRenameList
<1>3. CASE CommitDeleteList(s)
  BY <1>0, <1>3 DEF CommitDeleteList, ListExists
<1>4. CASE CommitCreateItem(s)
  BY <1>0, <1>4 DEF CommitCreateItem, FreshIds
<1>5. CASE CommitUpdateItem(s)
  BY <1>5 DEF CommitUpdateItem
<1>6. CASE CommitDeleteItem(s)
  BY <1>0, <1>6 DEF CommitDeleteItem, ItemExists
<1>7. CASE CommitCreateShare(s)
  BY <1>7 DEF CommitCreateShare, SetShare
<1>8. CASE CommitChangeRole(s)
  BY <1>8 DEF CommitChangeRole, SetShare
<1>9. CASE CommitRevokeShare(s)
  BY <1>9 DEF CommitRevokeShare, SetShare
<1> QED
  BY <1>1, <1>2, <1>3, <1>4, <1>5, <1>6, <1>7, <1>8, <1>9 DEF Commit

-----------------------------------------------------------------------------
(* The invariant of the tables and of what requests in flight know of them. *)

LEMMA InitDataInv == Init => DataInv
BY RowStateAssumption DEF Init, DataInv, FreshIds, OwnersStay, NotWithSelf, ItemsStay,
    NoOrphans, NoOwnerShare, Idle, InFlight, Awaits, ShareExists, ItemExists, ListExists

\* A step that leaves the tables alone, and every request but s, where s comes
\* from Moves.
LEMMA QuietStep ==
    ASSUME TypeInv, DataInv, NEW s \in Slots, Continue(s), OnlyControl
    PROVE  DataInv'
<1>0. /\ req[s] \in Request /\ WellFormed(req[s])
      /\ Moves(s)
      /\ shares \in [ListIds -> [Users -> ShareRoles \cup {NoShare}]]
  BY ContinueMoves DEF TypeInv, TypeOK, RequestsWellFormed
<1>1. UNCHANGED <<owner, shares, item>>
  BY DEF OnlyControl
<1>2. InFlight(req[s])
  BY DEF Continue, Authorize, CheckOwner, CheckShare, Load, LoadRows, LoadList, LoadItem,
         LoadTarget, CheckDuplicate, LoadShare, LoadOwned, LoadShared, Refresh, InFlight, Awaits,
         Commit, CommitCreateList, CommitRenameList, CommitDeleteList, CommitCreateItem,
         CommitUpdateItem, CommitDeleteItem, CommitCreateShare, CommitChangeRole, CommitRevokeShare
<1>3. FreshIds'
  <2>1. req'[s].op = "create_list" => req'[s].pc # "commit"
    BY <1>0 DEF Moves, WellFormed, ListScoped, ListReads, ListWrites, ItemWrites, ShareWrites
  <2>2. req'[s].op = "create_item" /\ InFlight(req'[s]) /\ req'[s].pc # "refresh"
           => req[s].pc # "refresh"
    BY <1>0 DEF Moves, InFlight, Awaits, WellFormed
  <2> QED
    BY <1>0, <1>1, <1>2, <2>1, <2>2 DEF DataInv, FreshIds, Moves, InFlight
<1>4. OwnersStay'
  <2>1. req'[s].pc = "share" /\ req'[s].isOwner
           => owner[req[s].list] \in {req[s].user, Deleted}
    BY <1>0 DEF Moves
  <2>2. ASSUME req'[s].pc \in {"load", "duplicate", "commit"}, req[s].op \in OwnerOps
        PROVE  owner[req[s].list] \in {req[s].user, Deleted}
    <3>1. CASE req[s].pc \in {"load", "duplicate"}
      BY <2>2, <3>1 DEF DataInv, OwnersStay
    <3>2. CASE req[s].pc = "share" /\ Granted(ResolvedRole(req[s]), req[s].op)
      <4>1. req[s].user \in Users /\ req[s].list \in ListIds /\ req[s].op \in ListScoped
        BY <1>0, <3>2 DEF WellFormed, ListScoped, ListReads, ListWrites, ItemWrites, ShareWrites
      <4>2. PermissionOf[req[s].op] \in OwnerOnlyActions
        BY <2>2, <4>1 DEF PermissionOf, OwnerOps, OwnerOnlyActions, ListWrites, ShareWrites
      <4>3. ResolvedRole(req[s]) = "owner"
        <5>1. ResolvedRole(req[s]) \in ShareRoles \cup {NoRole, "owner"}
          BY <1>0, <4>1 DEF ResolvedRole, EffectiveRole
        <5> QED
          BY <3>2, <4>2, <5>1 DEF Granted, CanPerform, Allowed, Roles, ShareRoles, NoRole,
             OwnerOnlyActions, ReadActions, ItemWriteActions
      <4>4. req[s].isOwner
        BY <1>0, <4>1, <4>3 DEF ResolvedRole, EffectiveRole, ShareRoles, NoRole, NoShare
      <4> QED
        BY <3>2, <4>4 DEF DataInv, OwnersStay
    <3> QED
      BY <1>0, <2>2, <3>1, <3>2 DEF Moves
  <2> QED
    BY <1>0, <1>1, <2>1, <2>2 DEF DataInv, OwnersStay, Moves
<1>5. NotWithSelf'
  BY <1>0, <1>1 DEF DataInv, NotWithSelf, Moves, SharesWithSelf
<1>6. ItemsStay'
  BY <1>0, <1>1 DEF DataInv, ItemsStay, Moves
<1>7. NoOrphans' /\ NoOwnerShare'
  BY <1>1 DEF DataInv, NoOrphans, NoOwnerShare, ShareExists, ListExists, ItemExists
<1> QED
  BY <1>3, <1>4, <1>5, <1>6, <1>7 DEF DataInv
\* Every request but the one that COMMITs is where it was, and the rows it
\* relies on moved only as TableMoves allows.
LEMMA CommitKeepsRequests ==
    ASSUME TypeInv, DataInv, NEW s \in Slots, Commit(s)
    PROVE  FreshIds' /\ OwnersStay' /\ NotWithSelf' /\ ItemsStay'
<1>0. /\ Moves(s) /\ req[s].pc = "commit" /\ req'[s].pc \in {"refresh", "done"}
      /\ \A t \in Slots : req[t] \in Request /\ WellFormed(req[t])
  BY CommitMoves DEF TypeInv, TypeOK, RequestsWellFormed
<1>1. /\ \A l \in ListIds :
            \/ owner'[l] = owner[l]
            \/ /\ req[s].op = "create_list" /\ l = req[s].list
               /\ owner[l] = Unborn /\ owner'[l] = req[s].user
            \/ owner[l] \in Users /\ owner'[l] = Deleted
      /\ \A i \in ItemIds :
            \/ item'[i] = item[i]
            \/ /\ req[s].op = "create_item" /\ i = req[s].item
               /\ item[i] = Unborn /\ item'[i] = req[s].list
            \/ item[i] \in ListIds /\ item'[i] = Deleted
  BY TableMoves DEF DataInv
<1>2. FreshIds'
  <2>1. ASSUME NEW t \in Slots, req'[t].op = "create_list", req'[t].pc = "commit"
        PROVE  /\ owner'[req'[t].list] = Unborn
               /\ \A r \in Slots \ {t} :
                     ~(req'[r].op = "create_list" /\ req'[r].pc = "commit" /\ req'[r].list = req'[t].list)
    <3>1. t # s /\ req'[t] = req[t] /\ req[t].list \in ListIds
      BY <1>0, <2>1 DEF Moves, WellFormed
    <3>2. owner[req[t].list] = Unborn
      BY <2>1, <3>1 DEF DataInv, FreshIds
    <3>3. req[s].op = "create_list" => req[s].list # req[t].list
      BY <1>0, <2>1, <3>1 DEF DataInv, FreshIds
    <3>4. owner'[req[t].list] = Unborn
      BY <1>1, <3>1, <3>2, <3>3, RowStateAssumption
    <3> QED
      BY <1>0, <2>1, <3>1, <3>4 DEF DataInv, FreshIds, Moves
  <2>2. ASSUME NEW t \in Slots, req'[t].op = "create_item", InFlight(req'[t]), req'[t].pc # "refresh"
        PROVE  /\ item'[req'[t].item] = Unborn
               /\ \A r \in Slots \ {t} :
                     ~ /\ req'[r].op = "create_item" /\ req'[r].item = req'[t].item
                       /\ InFlight(req'[r]) /\ req'[r].pc # "refresh"
    <3>1. t # s /\ req'[t] = req[t] /\ req[t].item \in ItemIds
      BY <1>0, <2>2 DEF Moves, WellFormed, InFlight, Awaits, ItemWrites
    <3>2. item[req[t].item] = Unborn
      BY <2>2, <3>1 DEF DataInv, FreshIds
    <3>3. req[s].op = "create_item" => req[s].item # req[t].item
      BY <1>0, <2>2, <3>1 DEF DataInv, FreshIds, InFlight, Awaits
    <3>4. item'[req[t].item] = Unborn
      BY <1>1, <3>1, <3>2, <3>3, RowStateAssumption
    <3>5. ~(InFlight(req'[s]) /\ req'[s].pc # "refresh")
      BY <1>0 DEF InFlight, Awaits
    <3> QED
      BY <1>0, <2>2, <3>1, <3>4, <3>5 DEF DataInv, FreshIds, Moves
  <2> QED
    BY <2>1, <2>2 DEF FreshIds
<1>3. OwnersStay'
  <2>1. ASSUME NEW t \in Slots,
               \/ req'[t].pc = "share" /\ req'[t].isOwner
               \/ req'[t].pc \in {"load", "duplicate", "commit"} /\ req'[t].op \in OwnerOps
        PROVE  owner'[req'[t].list] \in {req'[t].user, Deleted}
    <3>1. t # s /\ req'[t] = req[t]
      BY <1>0, <2>1 DEF Moves
    <3>2. req[t].list \in ListIds /\ req[t].user \in Users
      BY <1>0, <2>1, <3>1 DEF WellFormed, OwnerOps, ListScoped, ListReads, ListWrites, ItemWrites, ShareWrites
    <3>3. owner[req[t].list] \in {req[t].user, Deleted}
      BY <2>1, <3>1 DEF DataInv, OwnersStay
    <3> QED
      BY <1>1, <3>1, <3>2, <3>3, RowStateAssumption
  <2> QED
    BY <2>1 DEF OwnersStay
<1>4. NotWithSelf'
  BY <1>0 DEF DataInv, NotWithSelf, Moves
<1>5. ItemsStay'
  <2>1. ASSUME NEW t \in Slots, req'[t].op \in {"update_item", "delete_item"}, req'[t].pc = "commit"
        PROVE  item'[req'[t].item] \in {req'[t].list, Deleted}
    <3>1. t # s /\ req'[t] = req[t] /\ req[t].item \in ItemIds /\ req[t].list \in ListIds
      BY <1>0, <2>1 DEF Moves, WellFormed, ItemWrites
    <3>2. item[req[t].item] \in {req[t].list, Deleted}
      BY <2>1, <3>1 DEF DataInv, ItemsStay
    <3> QED
      BY <1>1, <3>1, <3>2, RowStateAssumption
  <2> QED
    BY <2>1 DEF ItemsStay
<1> QED
  BY <1>2, <1>3, <1>4, <1>5
LEMMA CommitKeepsTables ==
    ASSUME TypeInv, DataInv, NEW s \in Slots, Commit(s)
    PROVE  NoOrphans' /\ NoOwnerShare'
<1> DEFINE q == req[s]
<1>0. /\ q \in Request /\ q.pc = "commit" /\ q.user \in Users /\ q.list \in ListIds
      /\ q.op \in {"create_share", "change_role", "revoke_share"} => q.target \in Users
      /\ q.op \in {"create_item", "delete_item"} => q.item \in ItemIds
      /\ owner \in [ListIds -> Users \cup {Unborn, Deleted}]
      /\ shares \in [ListIds -> [Users -> ShareRoles \cup {NoShare}]]
      /\ item \in [ItemIds -> ListIds \cup {Unborn, Deleted}]
  BY CommitMoves DEF TypeInv, TypeOK, RequestsWellFormed, WellFormed, Writes, ListWrites,
     ItemWrites, ShareWrites
<1>1. /\ \A l \in ListIds, u \in Users : shares[l][u] # NoShare => owner[l] \in Users /\ owner[l] # u
      /\ \A i \in ItemIds : item[i] \in ListIds => owner[item[i]] \in Users
  BY DEF DataInv, NoOrphans, NoOwnerShare, ShareExists, ItemExists, ListExists
<1> USE RowStateAssumption
<1> USE DEF NoOrphans, NoOwnerShare, ShareExists, ItemExists, ListExists, OnlyControl
<1>2. ASSUME NEW role, SetShare(s, role), q.target \in Users,
             role # NoShare => owner[q.list] \in Users /\ owner[q.list] # q.target
      PROVE  NoOrphans' /\ NoOwnerShare'
  BY <1>0, <1>1, <1>2 DEF SetShare
<1>3. CASE OnlyControl
  BY <1>1, <1>3
<1>4. CASE CommitCreateList(s)
  <2>1. owner' = [owner EXCEPT ![q.list] = q.user] /\ UNCHANGED <<shares, item>>
    BY <1>4 DEF CommitCreateList
  <2>2. owner[q.list] = Unborn
    BY <1>4 DEF CommitCreateList, DataInv, FreshIds
  <2> QED
    BY <1>0, <1>1, <2>1, <2>2
<1>5. CASE CommitDeleteList(s) /\ ~OnlyControl
  <2>1. /\ owner' = [owner EXCEPT ![q.list] = Deleted]
        /\ shares' = [shares EXCEPT ![q.list] = [u \in Users |-> NoShare]]
        /\ item' = [i \in ItemIds |-> IF item[i] = q.list THEN Deleted ELSE item[i]]
    BY <1>5 DEF CommitDeleteList
  <2> QED
    BY <1>0, <1>1, <2>1
<1>6. CASE CommitCreateItem(s)
  BY <1>0, <1>1, <1>6 DEF CommitCreateItem, ForeignKeyHolds
<1>7. CASE CommitDeleteItem(s)
  BY <1>0, <1>1, <1>7 DEF CommitDeleteItem
<1>8. CASE CommitCreateShare(s) /\ ~OnlyControl
  <2>1. SetShare(s, q.role) /\ owner[q.list] \in Users /\ q.op = "create_share"
    BY <1>8 DEF CommitCreateShare, ForeignKeyHolds
  <2>2. owner[q.list] = q.user
    BY <1>0, <2>1 DEF DataInv, OwnersStay, OwnerOps, ShareWrites
  <2>3. q.target # q.user
    BY <1>0, <2>1 DEF DataInv, NotWithSelf
  <2> QED
    BY <1>0, <1>2, <2>1, <2>2, <2>3
<1>9. CASE CommitChangeRole(s) /\ ~OnlyControl
  BY <1>0, <1>1, <1>2, <1>9 DEF CommitChangeRole
<1>10. CASE CommitRevokeShare(s) /\ ~OnlyControl
  BY <1>0, <1>2, <1>10 DEF CommitRevokeShare
<1>11. CASE CommitRenameList(s) \/ CommitUpdateItem(s)
  BY <1>3, <1>11 DEF CommitRenameList, CommitUpdateItem
<1> QED
  BY <1>3, <1>4, <1>5, <1>6, <1>7, <1>8, <1>9, <1>10, <1>11 DEF Commit

LEMMA BeginData == ASSUME TypeInv, DataInv, NEW s \in Slots, Begin(s) PROVE DataInv'
<1>1. PICK op \in AllOps, u \in Users :
        \E l \in ListArgs(op), i \in ItemArgs(op), t \in TargetArgs(op), r \in RoleArgs(op) :
           req' = [req EXCEPT ![s] = Started(op, u, l, i, t, r)]
  BY BeginStarts
<1>2. PICK l \in ListArgs(op), i \in ItemArgs(op), t \in TargetArgs(op), r \in RoleArgs(op) :
           req' = [req EXCEPT ![s] = Started(op, u, l, i, t, r)]
  BY <1>1
<1>3. UNCHANGED <<owner, shares, item>> /\ req \in [Slots -> Request]
  BY DEF Begin, TypeInv, TypeOK
<1>4. /\ req'[s].op = op /\ req'[s].list = l /\ req'[s].item = i /\ req'[s].pc = FirstAwait(op)
      /\ \A t2 \in Slots \ {s} : req'[t2] = req[t2]
  BY <1>2, <1>3 DEF Started, Idle
<1>5. /\ FirstAwait(op) \in {"commit", "owned", "owner"}
      /\ FirstAwait(op) = "commit" => op = "create_list"
  BY DEF FirstAwait
<1>6. op = "create_list" => FreshList(l)
  BY DEF ListArgs
<1>7. op = "create_item" => FreshItem(i)
  BY DEF ItemArgs
<1>8. FreshIds'
  BY <1>3, <1>4, <1>5, <1>6, <1>7 DEF DataInv, FreshIds, FreshList, FreshItem, InFlight, Awaits
<1>9. OwnersStay'
  BY <1>3, <1>4, <1>5 DEF DataInv, OwnersStay, OwnerOps, ListWrites, ShareWrites
<1>10. NotWithSelf' /\ ItemsStay'
  BY <1>3, <1>4, <1>5 DEF DataInv, NotWithSelf, ItemsStay
<1>11. NoOrphans' /\ NoOwnerShare'
  BY <1>3 DEF DataInv, NoOrphans, NoOwnerShare, ShareExists, ListExists, ItemExists
<1> QED
  BY <1>8, <1>9, <1>10, <1>11 DEF DataInv

LEMMA StepDataInv == TypeInv /\ TypeInv' /\ DataInv /\ [Next]_vars => DataInv'
<1> SUFFICES ASSUME TypeInv, TypeInv', DataInv, [Next]_vars PROVE DataInv'
  OBVIOUS
<1>1. ASSUME NEW s \in Slots, Begin(s) PROVE DataInv'
  BY <1>1, BeginData
<1>2. ASSUME NEW s \in Slots, Receive(s) PROVE DataInv'
  <2>1. /\ UNCHANGED <<owner, shares, item>> /\ req'[s] = Idle
        /\ \A t \in Slots \ {s} : req'[t] = req[t]
    BY <1>2 DEF Receive, TypeInv, TypeOK
  <2>2. Idle.pc = "idle"
    BY DEF Idle
  <2> QED
    BY <2>1, <2>2 DEF DataInv, FreshIds, OwnersStay, NotWithSelf, ItemsStay, NoOrphans,
       NoOwnerShare, ShareExists, ListExists, ItemExists, InFlight, Awaits
<1>3. ASSUME NEW s \in Slots, Continue(s) PROVE DataInv'
  <2>1. CASE OnlyControl
    BY <1>3, <2>1, QuietStep
  <2>2. CASE Commit(s)
    BY <2>2, CommitKeepsRequests, CommitKeepsTables DEF DataInv
  <2> QED
    BY <1>3, <2>1, <2>2, ContinueMoves
<1>4. CASE UNCHANGED vars
  BY <1>4 DEF vars, DataInv, FreshIds, OwnersStay, NotWithSelf, ItemsStay, NoOrphans,
     NoOwnerShare, ShareExists, ListExists, ItemExists, InFlight
<1> QED
  BY <1>1, <1>2, <1>3, <1>4 DEF Next

LEMMA DataInvariant == Spec => [](TypeInv /\ DataInv)
BY InitTypeInv, InitDataInv, StepTypeInv, StepDataInv, PTL DEF Spec

\* No share and no item outlives its list, whichever creations, deletions and
\* cascades race (app/models/share.py:13, app/models/item.py:15).
THEOREM NoOrphansEver == Spec => []NoOrphans
<1>1. DataInv => NoOrphans
  BY DEF DataInv
<1> QED
  BY <1>1, DataInvariant, PTL

\* A list is never shared with its owner, although create_share compares only
\* ids and the owner was looked up several awaits before the INSERT
\* (app/shares/router.py:27).
THEOREM OwnersHoldNoShare == Spec => []NoOwnerShare
<1>1. DataInv => NoOwnerShare
  BY DEF DataInv
<1> QED
  BY <1>1, DataInvariant, PTL

-----------------------------------------------------------------------------
(* The invariant of the history. *)

LEMMA InitHistoryInv == Init => HistoryInv
BY DEF Init, HistoryInv, HistoryIsCurrent, GrantsWereTrue, Idle, InFlight, Awaits

\* A COMMIT that moves a role records it in every history in flight.
LEMMA CommitObserves ==
    ASSUME NEW s \in Slots, Commit(s)
    PROVE  Observe(owner', shares') \/ UNCHANGED <<owner, shares, held>>
<1>1. CASE CommitCreateList(s) \/ CommitRenameList(s) \/ CommitDeleteList(s)
  BY <1>1 DEF CommitCreateList, CommitRenameList, CommitDeleteList, OnlyControl
<1>2. CASE CommitCreateItem(s) \/ CommitUpdateItem(s) \/ CommitDeleteItem(s)
  BY <1>2 DEF CommitCreateItem, CommitUpdateItem, CommitDeleteItem, OnlyControl
<1>3. CASE CommitCreateShare(s) \/ CommitChangeRole(s) \/ CommitRevokeShare(s)
  BY <1>3 DEF CommitCreateShare, CommitChangeRole, CommitRevokeShare, SetShare, OnlyControl
<1> QED
  BY <1>1, <1>2, <1>3 DEF Commit

LEMMA HeldGrows ==
    ASSUME TypeInv, NEW s \in Slots, Continue(s)
    PROVE  \A t \in Slots : held[t] \subseteq held'[t]
<1>1. CASE OnlyControl
  BY <1>1 DEF OnlyControl
<1>2. CASE Commit(s)
  BY <1>2, CommitObserves DEF Observe
<1> QED
  BY <1>1, <1>2, ContinueMoves

LEMMA ContinueInFlight == ASSUME NEW s \in Slots, Continue(s) PROVE InFlight(req[s])
<1>1. req[s].pc \in {"owner", "share", "load", "duplicate", "owned", "shared", "commit", "refresh"}
  <2>1. CASE Authorize(s) \/ Refresh(s)
    BY <2>1 DEF Authorize, CheckOwner, CheckShare, Refresh
  <2>2. CASE Load(s)
    BY <2>2 DEF Load, LoadRows, LoadList, LoadItem, LoadTarget, CheckDuplicate, LoadShare,
                LoadOwned, LoadShared
  <2>3. CASE Commit(s)
    BY <2>3 DEF Commit, CommitCreateList, CommitRenameList, CommitDeleteList, CommitCreateItem,
       CommitUpdateItem, CommitDeleteItem, CommitCreateShare, CommitChangeRole, CommitRevokeShare
  <2> QED
    BY <2>1, <2>2, <2>3 DEF Continue
<1> QED
  BY <1>1 DEF InFlight, Awaits

\* The role that grants a request, put together from two snapshots, is one its
\* user really had: an owner has no share that could be mistaken for it.
LEMMA GrantIsTrue ==
    ASSUME TypeInv, DataInv, HistoryInv, NEW s \in Slots, req[s].pc = "share",
           Granted(ResolvedRole(req[s]), req[s].op)
    PROVE  EverAllowed(s)
<1> DEFINE q == req[s]
<1>1. q.op \in ListScoped /\ q.user \in Users /\ q.list \in ListIds /\ InFlight(q) /\ q.op # "list_lists"
  BY DEF TypeInv, RequestsWellFormed, WellFormed, ListScoped, ListReads, ListWrites, ItemWrites,
         ShareWrites, InFlight, Awaits
<1>2. CanPerform(ResolvedRole(q), PermissionOf[q.op])
  BY DEF Granted
<1>3. CASE q.isOwner
  <2>1. <<q.list, "owner">> \in held[s] /\ ResolvedRole(q) = "owner"
    BY <1>1, <1>3 DEF HistoryInv, GrantsWereTrue, ResolvedRole, EffectiveRole
  <2> QED
    BY <1>2, <2>1 DEF EverAllowed
<1>4. CASE ~q.isOwner
  <2>1. shares[q.list][q.user] # NoShare
    <3>1. SUFFICES ASSUME shares[q.list][q.user] = NoShare PROVE FALSE
      OBVIOUS
    <3>2. ResolvedRole(q) = NoRole
      BY <1>4, <3>1 DEF ResolvedRole, EffectiveRole
    <3>3. Allowed[NoRole] = {}
      BY DEF Allowed, NoRole
    <3> QED
      BY <1>2, <3>2, <3>3 DEF CanPerform
  <2>2. owner[q.list] # q.user
    BY <1>1, <2>1 DEF DataInv, NoOwnerShare, ShareExists
  <2>3. RoleIn(owner, shares, q.user, q.list) = ResolvedRole(q)
    BY <1>4, <2>2 DEF RoleIn, ResolvedRole, EffectiveRole
  <2>4. <<q.list, RoleIn(owner, shares, q.user, q.list)>> \in Pairs(q, owner, shares)
    BY <1>1 DEF Pairs, Scope
  <2>5. <<q.list, ResolvedRole(q)>> \in held[s]
    BY <1>1, <2>3, <2>4 DEF HistoryInv, HistoryIsCurrent
  <2> QED
    BY <1>2, <2>5 DEF EverAllowed
<1> QED
  BY <1>3, <1>4

\* What the step of s itself may claim: nothing new before its authorization,
\* and then what GrantIsTrue gives.
LEMMA ContinueClaims ==
    ASSUME TypeInv, NEW s \in Slots, Continue(s), req[s].op \in ListScoped
    PROVE  \/ req[s].pc = "owner" /\ req'[s].pc = "share" /\ ~req'[s].wrote
           \/ req[s].pc = "share" /\ req'[s].pc = "done" /\ req'[s].status = 404 /\ ~req'[s].wrote
           \/ /\ req[s].pc = "share" /\ Granted(ResolvedRole(req[s]), req[s].op)
              /\ req'[s].pc # "share"
           \/ req[s].pc \in {"load", "duplicate", "commit", "refresh"} /\ req'[s].pc # "share"
<1>0. req \in [Slots -> Request] /\ req[s] \in Request /\ WellFormed(req[s])
  BY DEF TypeInv, TypeOK, RequestsWellFormed
<1>1. CASE CheckOwner(s)
  BY <1>0, <1>1 DEF CheckOwner, Request, WellFormed
<1>2. CASE CheckShare(s)
  BY <1>0, <1>2 DEF CheckShare, Request, WellFormed, Answer, Goto, Denial
<1>3. CASE req[s].pc \notin {"owner", "share"}
  <2>1. req[s].pc \in {"load", "duplicate", "commit", "refresh"}
    BY <1>0, <1>3, ContinueInFlight DEF WellFormed, InFlight, Awaits, ListScoped, ListReads,
       ListWrites, ItemWrites, ShareWrites
  <2> QED
    BY <2>1, ContinueMoves DEF Moves
<1>4. req[s].pc = "owner" => CheckOwner(s)
  BY DEF Continue, Authorize, CheckShare, Refresh, Load, LoadRows, LoadList, LoadItem,
         LoadTarget, CheckDuplicate, LoadShare, LoadOwned, LoadShared,
         Commit, CommitCreateList, CommitRenameList, CommitDeleteList, CommitCreateItem,
         CommitUpdateItem, CommitDeleteItem, CommitCreateShare, CommitChangeRole, CommitRevokeShare
<1>5. req[s].pc = "share" => CheckShare(s)
  BY DEF Continue, Authorize, CheckOwner, Refresh, Load, LoadRows, LoadList, LoadItem,
         LoadTarget, CheckDuplicate, LoadShare, LoadOwned, LoadShared,
         Commit, CommitCreateList, CommitRenameList, CommitDeleteList, CommitCreateItem,
         CommitUpdateItem, CommitDeleteItem, CommitCreateShare, CommitChangeRole, CommitRevokeShare
<1> QED
  BY <1>1, <1>2, <1>3, <1>4, <1>5

LEMMA StepHistoryInv == TypeInv /\ DataInv /\ HistoryInv /\ [Next]_vars => HistoryInv'
<1> SUFFICES ASSUME TypeInv, DataInv, HistoryInv, [Next]_vars PROVE HistoryInv'
  OBVIOUS
<1>1. ASSUME NEW s \in Slots, Begin(s) PROVE HistoryInv'
  <2>1. PICK op \in AllOps, u \in Users :
           \E l \in ListArgs(op), i \in ItemArgs(op), t \in TargetArgs(op), r \in RoleArgs(op) :
              /\ req' = [req EXCEPT ![s] = Started(op, u, l, i, t, r)]
              /\ held' = [held EXCEPT ![s] = Pairs(Started(op, u, l, i, t, r), owner, shares)]
    BY <1>1, BeginStarts
  <2>2. PICK l \in ListArgs(op), i \in ItemArgs(op), t \in TargetArgs(op), r \in RoleArgs(op) :
              /\ req' = [req EXCEPT ![s] = Started(op, u, l, i, t, r)]
              /\ held' = [held EXCEPT ![s] = Pairs(Started(op, u, l, i, t, r), owner, shares)]
    BY <2>1
  <2> DEFINE q == Started(op, u, l, i, t, r)
  <2>3. q.pc \in {"commit", "owned", "owner"} /\ q.op = op /\ ~q.wrote
        /\ (q.pc = "commit" => q.op = "create_list")
    BY DEF Started, Idle, FirstAwait
  <2> HIDE DEF q
  <2>4. UNCHANGED <<owner, shares>> /\ req'[s] = q /\ held'[s] = Pairs(q, owner, shares)
        /\ \A s2 \in Slots \ {s} : req'[s2] = req[s2] /\ held'[s2] = held[s2]
    BY <1>1, <2>2 DEF Begin, TypeInv, TypeOK, q
  <2>5. HistoryIsCurrent'
    BY <2>4 DEF HistoryInv, HistoryIsCurrent, InFlight, Pairs, Scope, RoleIn, EffectiveRole
  <2>6. GrantsWereTrue'
    BY <2>3, <2>4 DEF HistoryInv, GrantsWereTrue, EverAllowed, ListScoped, ListReads, ListWrites,
       ItemWrites, ShareWrites
  <2> QED
    BY <2>5, <2>6 DEF HistoryInv
<1>2. ASSUME NEW s \in Slots, Receive(s) PROVE HistoryInv'
  <2>1. UNCHANGED <<owner, shares>> /\ req'[s] = Idle
        /\ \A t \in Slots \ {s} : req'[t] = req[t] /\ held'[t] = held[t]
    BY <1>2 DEF Receive, TypeInv, TypeOK
  <2>2. Idle.pc = "idle" /\ ~Idle.wrote
    BY DEF Idle
  <2> QED
    BY <2>1, <2>2 DEF HistoryInv, HistoryIsCurrent, GrantsWereTrue, EverAllowed, InFlight,
       Awaits, Pairs, Scope, RoleIn, EffectiveRole
<1>3. ASSUME NEW s \in Slots, Continue(s) PROVE HistoryInv'
  <2>0. Moves(s) /\ InFlight(req[s]) /\ \A t \in Slots : held[t] \subseteq held'[t]
    BY <1>3, ContinueMoves, ContinueInFlight, HeldGrows
  <2>1. HistoryIsCurrent'
    <3>1. ASSUME NEW t \in Slots, InFlight(req'[t])
          PROVE  Pairs(req'[t], owner', shares') \subseteq held'[t]
      <4>1. InFlight(req[t]) /\ Pairs(req'[t], owner', shares') = Pairs(req[t], owner', shares')
        BY <2>0, <3>1 DEF Moves, Pairs, Scope
      <4>2. CASE UNCHANGED <<owner, shares, held>>
        BY <4>1, <4>2 DEF HistoryInv, HistoryIsCurrent
      <4>3. CASE Observe(owner', shares')
        BY <4>1, <4>3 DEF Observe
      <4>4. OnlyControl => UNCHANGED <<owner, shares, held>>
        BY DEF OnlyControl
      <4> QED
        BY <1>3, <4>2, <4>3, <4>4, ContinueMoves, CommitObserves
    <3> QED
      BY <3>1 DEF HistoryIsCurrent
  <2>2. ASSUME NEW t \in Slots, EverAllowed(t) PROVE EverAllowed(t)'
    BY <2>0, <2>2 DEF EverAllowed, Moves
  <2>3. ASSUME NEW t \in Slots, req'[t].op \in ListScoped
        PROVE  /\ req'[t].pc = "share" /\ req'[t].isOwner => <<req'[t].list, "owner">> \in held'[t]
               /\ req'[t].pc \in {"load", "duplicate", "commit", "refresh"} => EverAllowed(t)'
               /\ req'[t].wrote => EverAllowed(t)'
               /\ req'[t].pc = "done" /\ req'[t].status # 404 => EverAllowed(t)'
    <3>1. CASE t # s
      BY <2>0, <2>2, <2>3, <3>1 DEF Moves, HistoryInv, GrantsWereTrue
    <3>2. CASE t = s /\ req[s].pc = "owner" /\ req'[s].pc = "share" /\ ~req'[s].wrote
      <4>1. req'[s].isOwner => <<req[s].list, "owner">> \in Pairs(req[s], owner, shares)
        BY <2>0, <2>3, <3>2 DEF Moves, Pairs, Scope, RoleIn, EffectiveRole, ListScoped,
           ListReads, ListWrites, ItemWrites, ShareWrites
      <4>2. Pairs(req[s], owner, shares) \subseteq held'[s]
        BY <2>0 DEF HistoryInv, HistoryIsCurrent
      <4> QED
        BY <2>0, <3>2, <4>1, <4>2 DEF Moves
    <3>3. CASE t = s /\ req[s].pc = "share" /\ req'[s].pc = "done" /\ req'[s].status = 404
               /\ ~req'[s].wrote
      BY <3>3
    <3>4. CASE t = s /\ req'[s].pc # "share" /\ EverAllowed(s)
      BY <2>2, <3>4
    <3>5. req[s].op \in ListScoped \/ t # s
      BY <2>0, <2>3 DEF Moves
    <3>6. req[s].op \in ListScoped /\ req[s].pc \in {"load", "duplicate", "commit", "refresh"}
             => EverAllowed(s)
      BY DEF HistoryInv, GrantsWereTrue
    <3> QED
      BY <1>3, <3>1, <3>2, <3>3, <3>4, <3>5, <3>6, ContinueClaims, GrantIsTrue
  <2>4. GrantsWereTrue'
    BY <2>3 DEF GrantsWereTrue
  <2> QED
    BY <2>1, <2>4 DEF HistoryInv
<1>4. CASE UNCHANGED vars
  BY <1>4 DEF vars, HistoryInv, HistoryIsCurrent, GrantsWereTrue, EverAllowed, InFlight, Pairs,
     Scope, RoleIn, EffectiveRole
<1> QED
  BY <1>1, <1>2, <1>3, <1>4 DEF Next

LEMMA HistoryInvariant == Spec => []HistoryInv
BY InitTypeInv, InitDataInv, InitHistoryInv, StepTypeInv, StepDataInv, StepHistoryInv, PTL DEF Spec

\* OQ-1 for every number of users, lists and concurrent requests: a caller who
\* at no moment of the request was allowed the action learns nothing but 404
\* (app/authz/dependencies.py:3).
THEOREM StrangersLearnNothing == Spec => []DeniedLooksMissing
<1>1. HistoryInv => DeniedLooksMissing
  BY DEF HistoryInv, GrantsWereTrue, DeniedLooksMissing, Answered
<1> QED
  BY <1>1, HistoryInvariant, PTL

\* Whatever is committed for a request is something its user had the right to
\* do at some moment since it began (app/authz/dependencies.py:61-74).
THEOREM NoUnauthorizedWrite == Spec => []WritesWereAllowed
<1>1. HistoryInv => WritesWereAllowed
  BY DEF HistoryInv, GrantsWereTrue, WritesWereAllowed
<1> QED
  BY <1>1, HistoryInvariant, PTL

-----------------------------------------------------------------------------
(* What callers are owed: they are not turned away by the two snapshots. *)

LEMMA LateOwnersHold == Spec => []LateOwners
<1>1. Init => LateOwners
  BY DEF Init, LateOwners, Idle
<1>2. ASSUME TypeInv, DataInv, HistoryInv, LateOwners, [Next]_vars,
             NEW s \in Slots, req'[s].pc = "share", ~req'[s].isOwner,
             owner'[req'[s].list] = req'[s].user
      PROVE  <<req'[s].list, NoRole>> \in held'[s]
  <2> DEFINE q == req[s]
  <2>1. CASE UNCHANGED vars
    BY <1>2, <2>1 DEF vars, LateOwners
  <2>2. ASSUME NEW x \in Slots, Begin(x) \/ Receive(x) PROVE <<req'[s].list, NoRole>> \in held'[s]
    <3>1. CASE x = s
      <4>1. \E r \in Request : req' = [req EXCEPT ![s] = r] /\ r.pc # "share"
        <5>1. CASE Receive(s)
          BY <5>1, IdleRequest DEF Receive, Idle
        <5>2. CASE Begin(s)
          <6>1. PICK op \in AllOps, u \in Users :
                   \E l \in ListArgs(op), i \in ItemArgs(op), t \in TargetArgs(op), r \in RoleArgs(op) :
                      req' = [req EXCEPT ![s] = Started(op, u, l, i, t, r)]
            BY <1>2, <5>2, BeginStarts
          <6>2. PICK l \in ListArgs(op), i \in ItemArgs(op), t \in TargetArgs(op), r \in RoleArgs(op) :
                   req' = [req EXCEPT ![s] = Started(op, u, l, i, t, r)]
            BY <6>1
          <6>3. Started(op, u, l, i, t, r) \in Request /\ Started(op, u, l, i, t, r).pc # "share"
            <7>1. Started(op, u, l, i, t, r) \in Request
              BY StartedRequest
            <7>2. Started(op, u, l, i, t, r).pc = FirstAwait(op)
              BY DEF Started, Idle
            <7> QED
              BY <7>1, <7>2 DEF FirstAwait
          <6> QED
            BY <6>2, <6>3
        <5> QED
          BY <2>2, <3>1, <5>1, <5>2
      <4> QED
        BY <1>2, <4>1 DEF TypeInv, TypeOK
    <3>2. CASE x # s
      <4>1. req'[s] = q /\ held'[s] = held[s] /\ owner' = owner
        BY <1>2, <2>2, <3>2 DEF Begin, Receive, TypeInv, TypeOK
      <4> QED
        BY <1>2, <4>1 DEF LateOwners
    <3> QED
      BY <3>1, <3>2
  <2>3. ASSUME NEW x \in Slots, Continue(x) PROVE <<req'[s].list, NoRole>> \in held'[s]
    <3>1. Moves(x) /\ (OnlyControl \/ Commit(x)) /\ held[s] \subseteq held'[s]
      BY <1>2, <2>3, ContinueMoves, HeldGrows
    <3>2. x # s
      BY <1>2, <3>1 DEF Moves, OnlyControl
    <3>3. req'[s] = q
      BY <3>1, <3>2 DEF Moves
    <3>4. q \in Request /\ WellFormed(q) /\ q.pc = "share"
      BY <1>2, <3>3 DEF TypeInv, TypeOK, RequestsWellFormed
    <3>5. /\ InFlight(q) /\ q.user \in Users /\ q.list \in ListIds /\ q.op # "list_lists"
      BY <3>4 DEF WellFormed, InFlight, Awaits, ListScoped, ListReads, ListWrites, ItemWrites, ShareWrites
    <3>6. CASE owner'[q.list] = owner[q.list]
      BY <1>2, <3>1, <3>3, <3>6 DEF LateOwners
    <3>7. CASE owner'[q.list] # owner[q.list]
      <4>1. Commit(x)
        BY <3>1, <3>7 DEF OnlyControl
      <4>2. owner[q.list] = Unborn
        BY <1>2, <3>3, <3>5, <3>7, <4>1, TableMoves, RowStateAssumption DEF DataInv
      <4>3. shares[q.list][q.user] = NoShare /\ owner[q.list] # q.user
        BY <1>2, <3>5, <4>2, RowStateAssumption DEF DataInv, NoOrphans, ShareExists, ListExists
      <4>4. RoleIn(owner, shares, q.user, q.list) = NoRole
        BY <4>3 DEF RoleIn, EffectiveRole
      <4>5. <<q.list, NoRole>> \in Pairs(q, owner, shares)
        BY <3>5, <4>4 DEF Pairs, Scope
      <4> QED
        BY <1>2, <3>1, <3>3, <3>5, <4>5 DEF HistoryInv, HistoryIsCurrent
    <3> QED
      BY <3>6, <3>7
  <2> QED
    BY <1>2, <2>1, <2>2, <2>3 DEF Next
<1>3. TypeInv /\ DataInv /\ HistoryInv /\ LateOwners /\ [Next]_vars => LateOwners'
  BY <1>2 DEF LateOwners
<1> QED
  BY <1>1, <1>3, DataInvariant, HistoryInvariant, PTL DEF Spec

\* A caller who has been entitled throughout is entitled now, and the list is there.
LEMMA EntitledNow ==
    ASSUME TypeInv, DataInv, HistoryInv, NEW s \in Slots, InFlight(req[s]),
           req[s].op \in ListScoped, AlwaysAllowed(s)
    PROVE  /\ CanPerform(RoleIn(owner, shares, req[s].user, req[s].list), PermissionOf[req[s].op])
           /\ ListExists(req[s].list)
           /\ <<req[s].list, NoRole>> \notin held[s]
<1> DEFINE q == req[s]
<1> DEFINE role == RoleIn(owner, shares, q.user, q.list)
<1>1. q.user \in Users /\ q.list \in ListIds /\ q.op # "list_lists"
  BY DEF TypeInv, RequestsWellFormed, WellFormed, InFlight, Awaits, ListScoped, ListReads,
         ListWrites, ItemWrites, ShareWrites
<1>2. <<q.list, role>> \in held[s]
  <2>1. <<q.list, role>> \in Pairs(q, owner, shares)
    BY <1>1 DEF Pairs, Scope
  <2> QED
    BY <2>1 DEF HistoryInv, HistoryIsCurrent
<1>3. ~CanPerform(NoRole, PermissionOf[q.op])
  BY DEF CanPerform, Allowed, NoRole
<1>4. CanPerform(role, PermissionOf[q.op]) /\ <<q.list, NoRole>> \notin held[s]
  BY <1>2, <1>3 DEF AlwaysAllowed
<1>5. owner[q.list] = q.user \/ shares[q.list][q.user] # NoShare
  BY <1>3, <1>4 DEF RoleIn, EffectiveRole
<1>6. ListExists(q.list)
  BY <1>1, <1>5 DEF DataInv, NoOrphans, ShareExists, ListExists
<1> QED
  BY <1>4, <1>6

\* A caller entitled throughout passes the authorization.
LEMMA EntitledPass ==
    ASSUME TypeInv, DataInv, HistoryInv, LateOwners, NEW s \in Slots, req[s].pc = "share",
           AlwaysAllowed(s)
    PROVE  Granted(ResolvedRole(req[s]), req[s].op)
<1> DEFINE q == req[s]
<1>1. q.op \in ListScoped /\ InFlight(q)
  BY DEF TypeInv, RequestsWellFormed, WellFormed, InFlight, Awaits
<1>2. CASE q.isOwner
  <2>1. <<q.list, "owner">> \in held[s]
    BY <1>1, <1>2 DEF HistoryInv, GrantsWereTrue
  <2>2. CanPerform("owner", PermissionOf[q.op])
    BY <2>1 DEF AlwaysAllowed
  <2> QED
    BY <1>2, <2>2 DEF ResolvedRole, EffectiveRole, Granted
<1>3. CASE ~q.isOwner
  <2>1. owner[q.list] # q.user
    BY <1>1, <1>3, EntitledNow DEF LateOwners
  <2>2. ResolvedRole(q) = RoleIn(owner, shares, q.user, q.list)
    BY <1>3, <2>1 DEF ResolvedRole, RoleIn, EffectiveRole
  <2> QED
    BY <1>1, <2>2, EntitledNow DEF Granted
<1> QED
  BY <1>2, <1>3

LEMMA EntitledAnswer ==
    ASSUME TypeInv, DataInv, HistoryInv, LateOwners, NEW s \in Slots, Continue(s),
           AlwaysAllowed(s), req[s].op \in ListReads \cup ListWrites, req'[s].pc = "done"
    PROVE  req'[s].status \in {200, 204}
<1> DEFINE q == req[s]
<1>0. /\ req \in [Slots -> Request] /\ q \in Request /\ WellFormed(q)
      /\ q.op \in {"get_list", "list_items", "list_shares", "rename_list", "delete_list"}
  BY DEF TypeInv, TypeOK, RequestsWellFormed, ListReads, ListWrites
<1>1. ListExists(q.list)
  BY ContinueInFlight, EntitledNow DEF ListScoped
<1> USE DEF Answer, Goto, Request
<1>2. CASE Authorize(s)
  <2>1. CASE CheckOwner(s)
    BY <1>0, <2>1 DEF CheckOwner
  <2>2. CASE CheckShare(s)
    <3>1. Granted(ResolvedRole(q), q.op)
      BY <2>2, EntitledPass DEF CheckShare
    <3> QED
      BY <1>0, <2>2, <3>1 DEF CheckShare, SharesWithSelf
  <2> QED
    BY <1>2, <2>1, <2>2 DEF Authorize
<1>3. CASE Load(s)
  <2>1. CASE LoadRows(s)
    BY <1>0, <2>1 DEF LoadRows
  <2>2. CASE LoadList(s)
    BY <1>0, <1>1, <2>2 DEF LoadList
  <2>3. CASE CheckDuplicate(s) \/ LoadOwned(s) \/ LoadShared(s)
    BY <1>0, <2>3 DEF CheckDuplicate, LoadOwned, LoadShared, WellFormed
  <2>4. ~(LoadItem(s) \/ LoadTarget(s) \/ LoadShare(s))
    BY <1>0 DEF LoadItem, LoadTarget, LoadShare
  <2> QED
    BY <1>3, <2>1, <2>2, <2>3, <2>4 DEF Load
<1>4. CASE Commit(s)
  <2>1. CASE CommitRenameList(s)
    BY <1>0, <1>1, <2>1 DEF CommitRenameList, Update, Written
  <2>2. CASE CommitDeleteList(s)
    BY <1>0, <1>1, <2>2 DEF CommitDeleteList, Written
  <2> QED
    BY <1>0, <1>4, <2>1, <2>2 DEF Commit, CommitCreateList, CommitCreateItem, CommitUpdateItem,
       CommitDeleteItem, CommitCreateShare, CommitChangeRole, CommitRevokeShare
<1>5. CASE Refresh(s)
  <2>1. q.op = "rename_list"
    BY <1>0, <1>5 DEF Refresh, WellFormed, Writes, ListWrites, ItemWrites, ShareWrites
  <2> QED
    BY <1>0, <1>1, <1>5, <2>1 DEF Refresh, RowToRefresh, Created
<1> QED
  BY <1>2, <1>3, <1>4, <1>5 DEF Continue

\* A new request, and an empty slot, are at neither end of anything.
LEMMA Beginnings ==
    ASSUME TypeInv, NEW s \in Slots, Begin(s) \/ Receive(s)
    PROVE  /\ \A t \in Slots \ {s} : req'[t] = req[t] /\ held'[t] = held[t]
           /\ req'[s].pc \in {"idle", "owner", "owned", "commit"} /\ ~req'[s].wrote
           /\ UNCHANGED <<owner, shares, item>>
<1>1. CASE Receive(s)
  <2>1. Idle.pc = "idle" /\ ~Idle.wrote
    BY DEF Idle
  <2> QED
    BY <1>1, <2>1 DEF Receive, TypeInv, TypeOK
<1>2. CASE Begin(s)
  <2>1. PICK op \in AllOps, u \in Users :
           \E l \in ListArgs(op), i \in ItemArgs(op), t \in TargetArgs(op), r \in RoleArgs(op) :
              req' = [req EXCEPT ![s] = Started(op, u, l, i, t, r)]
    BY <1>2, BeginStarts
  <2>2. PICK l \in ListArgs(op), i \in ItemArgs(op), t \in TargetArgs(op), r \in RoleArgs(op) :
           req' = [req EXCEPT ![s] = Started(op, u, l, i, t, r)]
    BY <2>1
  <2>3. /\ Started(op, u, l, i, t, r).pc \in {"commit", "owned", "owner"}
        /\ ~Started(op, u, l, i, t, r).wrote
    BY DEF Started, Idle, FirstAwait
  <2>4. \A x \in Slots \ {s} : held'[x] = held[x]
    BY <1>2 DEF Begin, TypeInv, TypeOK
  <2> QED
    BY <1>2, <2>2, <2>3, <2>4 DEF Begin, TypeInv, TypeOK
<1> QED
  BY <1>1, <1>2

\* Whoever was entitled to read, rename or delete a list from the beginning to the
\* end of the request is served, whatever commits between the two SELECTs of the
\* authorization and after them (app/authz/dependencies.py:57-91).
THEOREM EntitledAreServed == Spec => []NoSpuriousFailure
<1>1. Init => NoSpuriousFailure
  BY DEF Init, NoSpuriousFailure, Answered, Idle
<1>2. ASSUME TypeInv, DataInv, HistoryInv, LateOwners, NoSpuriousFailure, [Next]_vars, NEW s \in Slots,
             Answered(s)', AlwaysAllowed(s)', req'[s].op \in ListReads \cup ListWrites
      PROVE  req'[s].status \in {200, 204}
  <2>1. CASE UNCHANGED <<req, held>>
    BY <1>2, <2>1 DEF NoSpuriousFailure, Answered, AlwaysAllowed
  <2>2. ASSUME NEW x \in Slots, Begin(x) \/ Receive(x) PROVE req'[s].status \in {200, 204}
    BY <1>2, <2>2, Beginnings DEF NoSpuriousFailure, Answered, AlwaysAllowed
  <2>3. ASSUME NEW x \in Slots, Continue(x) PROVE req'[s].status \in {200, 204}
    <3>1. Moves(x) /\ held[s] \subseteq held'[s]
      BY <1>2, <2>3, ContinueMoves, HeldGrows
    <3>2. AlwaysAllowed(s) /\ req'[s].op = req[s].op /\ (x # s => req'[s] = req[s])
      BY <1>2, <3>1 DEF AlwaysAllowed, Moves
    <3>3. CASE x # s
      BY <1>2, <3>2, <3>3 DEF NoSpuriousFailure, Answered
    <3>4. CASE x = s
      BY <1>2, <2>3, <3>2, <3>4, EntitledAnswer DEF Answered
    <3> QED
      BY <3>3, <3>4
  <2> QED
    BY <1>2, <2>1, <2>2, <2>3 DEF Next, vars
<1>3. TypeInv /\ DataInv /\ HistoryInv /\ LateOwners /\ NoSpuriousFailure /\ [Next]_vars
         => NoSpuriousFailure'
  BY <1>2 DEF NoSpuriousFailure
<1> QED
  BY <1>1, <1>3, DataInvariant, HistoryInvariant, LateOwnersHold, PTL DEF Spec

-----------------------------------------------------------------------------
(* What list_lists finds. *)

\* Every list is in the history of a list_lists in flight, with the role its user
\* now has on it.
LEMMA RolesAreObserved ==
    ASSUME TypeInv, HistoryInv, NEW s \in Slots, InFlight(req[s]), req[s].op = "list_lists",
           NEW l \in ListIds
    PROVE  <<l, RoleIn(owner, shares, req[s].user, l)>> \in held[s]
<1>1. <<l, RoleIn(owner, shares, req[s].user, l)>> \in Pairs(req[s], owner, shares)
  BY DEF Pairs, Scope
<1> QED
  BY <1>1 DEF HistoryInv, HistoryIsCurrent

LEMMA LoadOwnedFinds ==
    ASSUME TypeInv, HistoryInv, NEW s \in Slots, LoadOwned(s)
    PROVE  /\ \A l \in req'[s].found : <<l, "owner">> \in held'[s]
           /\ \A l \in ListIds : owner'[l] = req'[s].user => l \in req'[s].found
<1>1. /\ req \in [Slots -> Request] /\ req[s] \in Request /\ req[s].op = "list_lists"
      /\ InFlight(req[s]) /\ UNCHANGED <<owner, held>>
  BY DEF TypeInv, TypeOK, RequestsWellFormed, WellFormed, LoadOwned, OnlyControl, InFlight, Awaits
<1>2. req'[s].found = {l \in ListIds : owner[l] = req[s].user} /\ req'[s].user = req[s].user
  BY <1>1 DEF LoadOwned, Request
<1>3. ASSUME NEW l \in ListIds, owner[l] = req[s].user PROVE <<l, "owner">> \in held[s]
  BY <1>1, <1>3, RolesAreObserved DEF RoleIn, EffectiveRole
<1> QED
  BY <1>1, <1>2, <1>3

LEMMA LoadSharedFinds ==
    ASSUME TypeInv, DataInv, HistoryInv, ListingsAreTrue, NEW s \in Slots, LoadShared(s),
           NEW l \in ListIds
    PROVE  /\ <<l, NoRole>> \notin held'[s] => l \in req'[s].found
           /\ l \in req'[s].found => \E role \in Roles : <<l, role>> \in held'[s]
<1> DEFINE q == req[s]
<1> DEFINE role == RoleIn(owner, shares, q.user, l)
<1>1. /\ req \in [Slots -> Request] /\ q \in Request /\ q.op = "list_lists" /\ q.user \in Users
      /\ InFlight(q) /\ UNCHANGED <<owner, held>> /\ q.pc = "shared"
  BY DEF TypeInv, TypeOK, RequestsWellFormed, WellFormed, LoadShared, OnlyControl, InFlight, Awaits
<1>2. req'[s].found = q.found \cup SharedWith(q.user)
  BY <1>1 DEF LoadShared, Request
<1>3. <<l, role>> \in held[s]
  BY <1>1, RolesAreObserved
<1>4. role = NoRole => owner[l] # q.user /\ shares[l][q.user] = NoShare
  <2>1. shares[l][q.user] \in ShareRoles \cup {NoShare}
    BY <1>1 DEF TypeInv, TypeOK
  <2> QED
    BY <2>1 DEF RoleIn, EffectiveRole, NoRole, ShareRoles
<1>5. ASSUME <<l, NoRole>> \notin held[s] PROVE l \in q.found \/ l \in SharedWith(q.user)
  <2>1. CASE owner[l] = q.user
    BY <1>1, <1>5, <2>1 DEF ListingsAreTrue
  <2>2. CASE owner[l] # q.user
    <3>1. ShareExists(l, q.user)
      BY <1>3, <1>5, <2>2 DEF RoleIn, EffectiveRole, ShareExists
    <3> QED
      BY <1>1, <3>1 DEF SharedWith, DataInv, NoOrphans
  <2> QED
    BY <2>1, <2>2
<1>6. ASSUME l \in SharedWith(q.user) PROVE role \in Roles
  <2>1. shares[l][q.user] \in ShareRoles
    BY <1>1, <1>6 DEF TypeInv, TypeOK, SharedWith, ShareExists
  <2> QED
    BY <1>6, <2>1 DEF RoleIn, EffectiveRole, Roles, SharedWith, ShareExists
<1>7. l \in q.found => <<l, "owner">> \in held[s] /\ "owner" \in Roles
  BY <1>1 DEF ListingsAreTrue, Roles
<1> QED
  BY <1>1, <1>2, <1>3, <1>5, <1>6, <1>7

\* A list becomes somebody's when it is made, and nobody had a role on it before.
LEMMA NewOwners ==
    ASSUME TypeInv, DataInv, HistoryInv, NEW x \in Slots, Continue(x), NEW s \in Slots,
           InFlight(req[s]), req[s].op = "list_lists", NEW l \in ListIds,
           owner'[l] = req[s].user, owner[l] # req[s].user
    PROVE  <<l, NoRole>> \in held[s]
<1>1. Commit(x)
  BY ContinueMoves DEF OnlyControl
<1>2. req[s].user \in Users
  BY DEF TypeInv, RequestsWellFormed, WellFormed, InFlight, Awaits
<1>3. owner[l] = Unborn
  BY <1>1, <1>2, TableMoves, RowStateAssumption DEF DataInv
<1>4. shares[l][req[s].user] = NoShare
  BY <1>2, <1>3, RowStateAssumption DEF DataInv, NoOrphans, ShareExists, ListExists
<1>5. RoleIn(owner, shares, req[s].user, l) = NoRole
  BY <1>4 DEF RoleIn, EffectiveRole
<1> QED
  BY <1>5, RolesAreObserved

LEMMA LoadOwnedNext ==
    ASSUME TypeInv, NEW s \in Slots, Continue(s), req[s].op = "list_lists"
    PROVE  /\ req'[s].pc = "shared" => LoadOwned(s)
           /\ req'[s].pc = "done" => LoadShared(s)
<1>0. /\ req \in [Slots -> Request] /\ req[s] \in Request
      /\ req[s].pc \in {"owned", "shared", "done", "idle"}
  BY DEF TypeInv, TypeOK, RequestsWellFormed, WellFormed, Request, Awaits, ListScoped, ListReads,
         ListWrites, ItemWrites, ShareWrites, Writes
<1>1. LoadOwned(s) \/ LoadShared(s)
  BY <1>0 DEF Continue, Authorize, CheckOwner, CheckShare, Refresh, Load, LoadRows, LoadList,
     LoadItem, LoadTarget, CheckDuplicate, LoadShare, Commit, CommitCreateList, CommitRenameList,
     CommitDeleteList, CommitCreateItem, CommitUpdateItem, CommitDeleteItem, CommitCreateShare,
     CommitChangeRole, CommitRevokeShare
<1> QED
  BY <1>0, <1>1 DEF LoadOwned, LoadShared, Request

LEMMA StepListings ==
    TypeInv /\ DataInv /\ HistoryInv /\ ListingsAreTrue /\ [Next]_vars => ListingsAreTrue'
<1> SUFFICES ASSUME TypeInv, DataInv, HistoryInv, ListingsAreTrue, [Next]_vars,
                    NEW s \in Slots, req'[s].op = "list_lists", req'[s].pc = "shared"
             PROVE  /\ \A l \in req'[s].found : <<l, "owner">> \in held'[s]
                    /\ \A l \in ListIds : owner'[l] = req'[s].user =>
                          l \in req'[s].found \/ <<l, NoRole>> \in held'[s]
  BY DEF ListingsAreTrue
<1>1. CASE UNCHANGED vars
  BY <1>1 DEF vars, ListingsAreTrue
<1>2. CASE \E x \in Slots : Begin(x) \/ Receive(x)
  BY <1>2, Beginnings DEF ListingsAreTrue
<1>3. ASSUME NEW x \in Slots, Continue(x)
      PROVE  /\ \A l \in req'[s].found : <<l, "owner">> \in held'[s]
             /\ \A l \in ListIds : owner'[l] = req'[s].user =>
                   l \in req'[s].found \/ <<l, NoRole>> \in held'[s]
  <2>1. Moves(x) /\ held[s] \subseteq held'[s]
    BY <1>3, ContinueMoves, HeldGrows
  <2>2. CASE x = s
    BY <1>3, <2>1, <2>2, LoadOwnedNext, LoadOwnedFinds DEF Moves
  <2>3. CASE x # s
    <3>1. req'[s] = req[s] /\ InFlight(req[s])
      BY <2>1, <2>3 DEF Moves, InFlight, Awaits
    <3>2. ASSUME NEW l \in ListIds, owner'[l] = req[s].user
          PROVE  l \in req[s].found \/ <<l, NoRole>> \in held[s]
      BY <1>3, <3>1, <3>2, NewOwners DEF ListingsAreTrue
    <3> QED
      BY <2>1, <3>1, <3>2 DEF ListingsAreTrue
  <2> QED
    BY <2>2, <2>3
<1> QED
  BY <1>1, <1>2, <1>3 DEF Next

LEMMA StepListing ==
    TypeInv /\ DataInv /\ HistoryInv /\ ListingsAreTrue /\ ListingIsFresh /\ [Next]_vars
        => ListingIsFresh'
<1> SUFFICES ASSUME TypeInv, DataInv, HistoryInv, ListingsAreTrue, ListingIsFresh, [Next]_vars,
                    NEW s \in Slots, req'[s].op = "list_lists", req'[s].pc = "done",
                    NEW l \in ListIds
             PROVE  /\ <<l, NoRole>> \notin held'[s] => l \in req'[s].found
                    /\ l \in req'[s].found => \E role \in Roles : <<l, role>> \in held'[s]
  BY DEF ListingIsFresh
<1>1. CASE UNCHANGED vars
  BY <1>1 DEF vars, ListingIsFresh
<1>2. CASE \E x \in Slots : Begin(x) \/ Receive(x)
  BY <1>2, Beginnings DEF ListingIsFresh
<1>3. ASSUME NEW x \in Slots, Continue(x)
      PROVE  /\ <<l, NoRole>> \notin held'[s] => l \in req'[s].found
             /\ l \in req'[s].found => \E role \in Roles : <<l, role>> \in held'[s]
  <2>1. Moves(x) /\ held[s] \subseteq held'[s]
    BY <1>3, ContinueMoves, HeldGrows
  <2>2. CASE x = s
    BY <1>3, <2>1, <2>2, LoadOwnedNext, LoadSharedFinds DEF Moves
  <2>3. CASE x # s
    BY <2>1, <2>3 DEF Moves, ListingIsFresh
  <2> QED
    BY <2>2, <2>3
<1> QED
  BY <1>1, <1>2, <1>3 DEF Next

\* list_lists takes two SELECTs, between which lists are made, deleted, shared and
\* revoked; a list its user had a role on throughout is in the answer, and one the
\* user never had a role on is not (app/lists/router.py:35-53).
THEOREM ListingsAreFresh == Spec => []ListingIsFresh
<1>1. Init => ListingsAreTrue /\ ListingIsFresh
  BY DEF Init, ListingsAreTrue, ListingIsFresh, Idle
<1> QED
  BY <1>1, StepListings, StepListing, DataInvariant, HistoryInvariant, PTL DEF Spec

-----------------------------------------------------------------------------
(* Who changes the items. *)

\* Only the COMMIT of a request makes it a writer.
LEMMA WritersCommit ==
    ASSUME TypeInv, [Next]_vars, NEW s \in Slots, Writing(s)
    PROVE  Commit(s)
<1>0. req \in [Slots -> Request] /\ req[s] \in Request
  BY DEF TypeInv, TypeOK
<1>1. ~UNCHANGED vars
  BY DEF vars, Writing
<1>2. ASSUME NEW x \in Slots, Begin(x) \/ Receive(x) PROVE FALSE
  BY <1>2, Beginnings DEF Writing
<1>3. ASSUME NEW x \in Slots, Continue(x) PROVE Commit(s)
  <2>1. x = s
    BY <1>3, ContinueMoves DEF Moves, Writing
  <2>2. ~(Authorize(s) \/ Refresh(s))
    BY <1>0 DEF Writing, Authorize, CheckOwner, CheckShare, Refresh, Answer, Goto, Request
  <2>3. ~Load(s)
    BY <1>0 DEF Writing, Load, LoadRows, LoadList, LoadItem, LoadTarget, CheckDuplicate, LoadShare,
       LoadOwned, LoadShared, Answer, Goto, Request
  <2> QED
    BY <1>3, <2>1, <2>2, <2>3 DEF Continue
<1> QED
  BY <1>1, <1>2, <1>3 DEF Next

LEMMA ItemWriters ==
    ASSUME TypeInv, DataInv, NEW s \in Slots, Commit(s), Writing(s),
           req[s].op \in {"update_item", "delete_item"}
    PROVE  item[req[s].item] = req[s].list
<1>0. /\ req \in [Slots -> Request] /\ req[s] \in Request /\ req[s].pc = "commit"
      /\ item[req[s].item] \in {req[s].list, Deleted}
  BY CommitMoves DEF TypeInv, TypeOK, DataInv, ItemsStay
<1>1. CommitUpdateItem(s) \/ CommitDeleteItem(s)
  BY DEF Commit, CommitCreateList, CommitRenameList, CommitDeleteList, CommitCreateItem,
     CommitCreateShare, CommitChangeRole, CommitRevokeShare
<1>2. ItemExists(req[s].item)
  BY <1>0, <1>1 DEF CommitUpdateItem, CommitDeleteItem, Update, Answer, Goto, Writing, Request
<1> QED
  BY <1>0, <1>2, RowStateAssumption DEF ItemExists

LEMMA ItemsMove ==
    ASSUME TypeInv, DataInv, NEW s \in Slots, Commit(s), NEW i \in ItemIds,
           ItemExists(i), item'[i] # item[i]
    PROVE  item'[i] = Deleted /\ Writing(s) /\ req[s].list = item[i]
<1>0. /\ req \in [Slots -> Request] /\ req[s] \in Request /\ req[s].pc = "commit" /\ ~req[s].wrote
      /\ item \in [ItemIds -> ListIds \cup {Unborn, Deleted}]
  BY CommitMoves DEF TypeInv, TypeOK, RequestsWellFormed, WellFormed
<1>1. item[i] # Unborn
  BY RowStateAssumption DEF ItemExists
<1>2. item'[i] = Deleted
  BY <1>1, TableMoves DEF DataInv
<1>3. ~CommitCreateItem(s)
  BY <1>0, <1>1, <1>2, TableMoves DEF CommitCreateItem, FreshIds, DataInv, OnlyControl, InFlight, Awaits
<1>4. CommitDeleteList(s) \/ CommitDeleteItem(s)
  BY <1>3 DEF Commit, CommitCreateList, CommitRenameList, CommitUpdateItem, CommitCreateShare,
     CommitChangeRole, CommitRevokeShare, SetShare, OnlyControl
<1>5. Writing(s)
  BY <1>0, <1>4 DEF CommitDeleteList, CommitDeleteItem, OnlyControl, Written, Writing, Request
<1>6. CASE CommitDeleteList(s)
  BY <1>0, <1>2, <1>5, <1>6 DEF CommitDeleteList, OnlyControl
<1>7. CASE CommitDeleteItem(s)
  <2>1. i = req[s].item /\ req[s].op = "delete_item"
    BY <1>0, <1>7 DEF CommitDeleteItem, OnlyControl
  <2> QED
    BY <1>2, <1>5, <2>1, ItemWriters
<1> QED
  BY <1>2, <1>4, <1>5, <1>6, <1>7

\* An item is changed or deleted on behalf of a caller who was authorized on its
\* own list, or with that list (app/items/router.py:51, 72).
THEOREM ItemsAreTheirLists == Spec => ItemsStayInTheirList
<1>1. ASSUME TypeInv, DataInv, [Next]_vars,
             NEW s \in Slots, Writing(s), req[s].op \in {"update_item", "delete_item"}
      PROVE  item[req[s].item] = req[s].list
  BY <1>1, WritersCommit, ItemWriters
<1>2. ASSUME TypeInv, DataInv, [Next]_vars,
             NEW i \in ItemIds, ItemExists(i), item'[i] # item[i]
      PROVE  item'[i] = Deleted /\ \E s \in Slots : Writing(s) /\ req[s].list = item[i]
  <2>1. PICK s \in Slots : Commit(s)
    <3>1. ~UNCHANGED vars
      BY <1>2 DEF vars
    <3>2. ASSUME NEW x \in Slots, Begin(x) \/ Receive(x) PROVE FALSE
      BY <1>2, <3>2, Beginnings
    <3>3. ASSUME NEW x \in Slots, Continue(x) PROVE Commit(x)
      BY <1>2, <3>3, ContinueMoves DEF OnlyControl
    <3> QED
      BY <1>2, <3>1, <3>2, <3>3 DEF Next
  <2> QED
    BY <1>2, <2>1, ItemsMove
<1>3. TypeInv /\ DataInv /\ [Next]_vars => ItemChangesAreTheirLists \/ UNCHANGED vars
  BY <1>1, <1>2 DEF ItemChangesAreTheirLists
<1> QED
  BY <1>3, DataInvariant, PTL DEF Spec, ItemsStayInTheirList

-----------------------------------------------------------------------------
(* Who changes the shares. *)

\* A COMMIT that changes a share does so for a writing request on that list.
LEMMA CommitWrites ==
    ASSUME TypeInv, DataInv, NEW s \in Slots, Commit(s),
           NEW l \in ListIds, NEW u \in Users, shares'[l][u] # shares[l][u]
    PROVE  /\ Writing(s) /\ req[s].list = l /\ ListExists(l)
           /\ req[s].op \in {"create_share", "change_role", "revoke_share", "delete_list"}
           /\ shares[l][u] = NoShare => req[s].op = "create_share"
           /\ shares'[l][u] = NoShare => req[s].op \in {"revoke_share", "delete_list"}
           /\ req[s].op \in {"revoke_share", "delete_list"} => shares'[l][u] = NoShare
           /\ req[s].op = "create_share" => shares[l][u] = NoShare
<1>0. /\ req \in [Slots -> Request] /\ req[s] \in Request
      /\ req[s].pc = "commit" /\ ~req[s].wrote
      /\ shares \in [ListIds -> [Users -> ShareRoles \cup {NoShare}]]
      /\ NoShare \notin ShareRoles
  BY CommitMoves DEF TypeInv, TypeOK, RequestsWellFormed, WellFormed, ShareRoles, NoShare
<1>1. /\ req[s].op # "list_lists" => req[s].list \in ListIds
      /\ req[s].op \in {"change_role", "revoke_share", "create_share"} => req[s].target \in Users
      /\ req[s].role \in ShareRoles
  BY <1>0 DEF TypeInv, RequestsWellFormed, WellFormed, Request
<1>2. ShareExists(l, u) => ListExists(l)
  BY DEF DataInv, NoOrphans
<1>3. ASSUME Written(s, "refresh", 0) \/ Written(s, "done", 204)
      PROVE  Writing(s)
  BY <1>0, <1>3 DEF Written, Writing, Request
<1>4. CASE CommitDeleteList(s)
  <2>1. /\ Written(s, "done", 204) /\ req[s].op = "delete_list"
        /\ shares' = [shares EXCEPT ![req[s].list] = [x \in Users |-> NoShare]]
    BY <1>4 DEF CommitDeleteList, OnlyControl
  <2>2. req[s].list = l /\ shares'[l][u] = NoShare
    BY <1>0, <1>1, <2>1
  <2> QED
    BY <1>2, <1>3, <2>1, <2>2 DEF ShareExists
<1>5. CASE CommitCreateShare(s)
  <2>1. /\ ForeignKeyHolds(req[s].list) /\ PrimaryKeyHolds(req[s].list, req[s].target)
        /\ Written(s, "refresh", 0) /\ SetShare(s, req[s].role) /\ req[s].op = "create_share"
    BY <1>5 DEF CommitCreateShare, OnlyControl
  <2>2. req[s].list = l /\ req[s].target = u /\ shares'[l][u] = req[s].role
    BY <1>0, <1>1, <2>1 DEF SetShare
  <2> QED
    BY <1>0, <1>1, <1>3, <2>1, <2>2 DEF ForeignKeyHolds, PrimaryKeyHolds, ShareExists
<1>6. CASE CommitChangeRole(s)
  <2>1. /\ req[s].dirty /\ ShareExists(req[s].list, req[s].target)
        /\ SetShare(s, req[s].role) /\ req[s].op = "change_role"
    BY <1>6 DEF CommitChangeRole, OnlyControl
  <2>2. Written(s, "refresh", 0)
    BY <1>6, <2>1 DEF CommitChangeRole, Update
  <2>3. req[s].list = l /\ req[s].target = u /\ shares'[l][u] = req[s].role
    BY <1>0, <1>1, <2>1 DEF SetShare
  <2> QED
    BY <1>0, <1>1, <1>2, <1>3, <2>1, <2>2, <2>3 DEF ShareExists
<1>7. CASE CommitRevokeShare(s)
  <2>1. /\ ShareExists(req[s].list, req[s].target) /\ Written(s, "done", 204)
        /\ SetShare(s, NoShare) /\ req[s].op = "revoke_share"
    BY <1>7 DEF CommitRevokeShare, OnlyControl
  <2>2. req[s].list = l /\ req[s].target = u /\ shares'[l][u] = NoShare
    BY <1>0, <1>1, <2>1 DEF SetShare
  <2> QED
    BY <1>2, <1>3, <2>1, <2>2 DEF ShareExists
<1>8. CASE CommitCreateList(s) \/ CommitRenameList(s) \/ CommitCreateItem(s)
           \/ CommitUpdateItem(s) \/ CommitDeleteItem(s)
  BY <1>8 DEF CommitCreateList, CommitRenameList, CommitCreateItem, CommitUpdateItem,
     CommitDeleteItem, OnlyControl
<1> QED
  BY <1>4, <1>5, <1>6, <1>7, <1>8 DEF Commit

\* Only a COMMIT moves the shares.
LEMMA SharesMoveByCommit ==
    ASSUME TypeInv, [Next]_vars,
           NEW l \in ListIds, NEW u \in Users, shares'[l][u] # shares[l][u]
    PROVE  \E s \in Slots : Commit(s)
<1>1. CASE UNCHANGED vars
  BY <1>1 DEF vars
<1>2. ASSUME NEW s \in Slots, Begin(s) \/ Receive(s) PROVE FALSE
  BY <1>2 DEF Begin, Receive
<1>3. ASSUME NEW s \in Slots, Continue(s) PROVE Commit(s)
  BY <1>3, ContinueMoves DEF OnlyControl
<1> QED
  BY <1>1, <1>2, <1>3 DEF Next

\* Shares appear, change and go by the endpoints meant for it, whatever races:
\* of two create_shares the second does not overwrite the first, and no change of
\* role revives a revoked share (app/shares/router.py:44-60, 88, 113).
THEOREM SharesChangeAsMeant == Spec => SharesChangeByTheirEndpoint
<1>1. ASSUME TypeInv, DataInv, [Next]_vars,
             NEW l \in ListIds, NEW u \in Users, shares'[l][u] # shares[l][u]
      PROVE  \E s \in Slots :
                /\ Writing(s) /\ req[s].list = l
                /\ req[s].op \in
                      CASE shares[l][u] = NoShare  -> {"create_share"}
                        [] shares'[l][u] = NoShare -> {"revoke_share", "delete_list"}
                        [] OTHER                   -> {"change_role"}
  <2>1. PICK s \in Slots : Commit(s)
    BY <1>1, SharesMoveByCommit
  <2>2. CASE shares[l][u] = NoShare
    BY <1>1, <2>1, <2>2, CommitWrites
  <2>3. CASE shares[l][u] # NoShare /\ shares'[l][u] = NoShare
    BY <1>1, <2>1, <2>3, CommitWrites
  <2>4. CASE shares[l][u] # NoShare /\ shares'[l][u] # NoShare
    BY <1>1, <2>1, <2>4, CommitWrites
  <2> QED
    BY <2>2, <2>3, <2>4
<1>2. TypeInv /\ DataInv /\ [Next]_vars => [ShareChangesAreMeant]_vars
  BY <1>1 DEF ShareChangesAreMeant
<1> QED
  BY <1>2, DataInvariant, PTL DEF Spec, SharesChangeByTheirEndpoint

\* Only the owner of a list changes who may do what on it, and is its owner when
\* it is done (app/authz/dependencies.py:61).
THEOREM OnlyOwnersShare == Spec => OnlyTheOwnerShares
<1>1. ASSUME TypeInv, DataInv, [Next]_vars,
             NEW l \in ListIds, NEW u \in Users, shares'[l][u] # shares[l][u]
      PROVE  \E s \in Slots : Writing(s) /\ req[s].list = l /\ req[s].user = owner[l]
  <2>1. PICK s \in Slots : Commit(s)
    BY <1>1, SharesMoveByCommit
  <2>2. Writing(s) /\ req[s].list = l /\ ListExists(l) /\ req[s].op \in OwnerOps
    BY <1>1, <2>1, CommitWrites DEF OwnerOps, ListWrites, ShareWrites
  <2>3. owner[l] \in {req[s].user, Deleted}
    BY <1>1, <2>1, <2>2, CommitMoves DEF DataInv, OwnersStay
  <2> QED
    BY <2>2, <2>3, RowStateAssumption DEF ListExists
<1>2. TypeInv /\ DataInv /\ [Next]_vars => [ShareChangesAreTheOwners]_vars
  BY <1>1 DEF ShareChangesAreTheOwners
<1> QED
  BY <1>2, DataInvariant, PTL DEF Spec, OnlyTheOwnerShares

-----------------------------------------------------------------------------
(* Progress. *)

\* Every reachable state satisfies the invariant that the runs check.
THEOREM Invariance == Spec => []IInv
BY DataInvariant, HistoryInvariant, PTL DEF IInv

\* The await after that of q, of any endpoint.
GoesOn(q, r) ==
    \/ r.pc = "done"
    \/ q.pc = "owner" /\ r.pc = "share"
    \/ q.pc = "share" /\ r.pc \in {"load", "commit"}
    \/ q.pc = "load" /\ r.pc \in {"duplicate", "commit"}
    \/ q.pc = "duplicate" /\ r.pc = "commit"
    \/ q.pc = "commit" /\ r.pc = "refresh"
    \/ q.pc = "owned" /\ r.pc = "shared"

LEMMA GoingOnIsNearer ==
    ASSUME NEW q, NEW r, InFlight(q), GoesOn(q, r)
    PROVE  StepsLeft(r) < StepsLeft(q)
<1>1. /\ r.pc = "share" => StepsLeft(r) = 5
      /\ r.pc = "duplicate" => StepsLeft(r) = 3
      /\ r.pc = "commit" => StepsLeft(r) = 2
      /\ r.pc \in {"refresh", "shared"} => StepsLeft(r) = 1
      /\ r.pc = "done" => StepsLeft(r) = 0
  BY DEF StepsLeft
<1>2. r.pc = "load" => StepsLeft(r) = 4
  BY DEF StepsLeft
<1>3. /\ q.pc = "owner" => StepsLeft(q) = 6
      /\ q.pc = "share" => StepsLeft(q) = 5
      /\ q.pc = "load" => StepsLeft(q) = 4
      /\ q.pc = "duplicate" => StepsLeft(q) = 3
  BY DEF StepsLeft
<1>4. /\ q.pc \in {"owned", "commit"} => StepsLeft(q) = 2
      /\ q.pc \in {"shared", "refresh"} => StepsLeft(q) = 1
  BY DEF StepsLeft
<1>5. CASE r.pc = "done"
  <2>1. StepsLeft(q) \in {1, 2, 3, 4, 5, 6}
    BY <1>3, <1>4 DEF InFlight, Awaits
  <2> QED
    BY <1>1, <1>5, <2>1
<1>6. CASE \/ q.pc = "owner" /\ r.pc = "share"
           \/ q.pc = "share" /\ r.pc \in {"load", "commit"}
  BY <1>1, <1>2, <1>3, <1>6
<1>7. CASE \/ q.pc = "load" /\ r.pc \in {"duplicate", "commit"}
           \/ q.pc = "duplicate" /\ r.pc = "commit"
  BY <1>1, <1>3, <1>7
<1>8. CASE \/ q.pc = "commit" /\ r.pc = "refresh"
           \/ q.pc = "owned" /\ r.pc = "shared"
  BY <1>1, <1>4, <1>8
<1> QED
  BY <1>5, <1>6, <1>7, <1>8 DEF GoesOn

LEMMA LoadGoesOn == ASSUME TypeInv, NEW s \in Slots, Load(s) PROVE GoesOn(req[s], req'[s])
<1>0. req \in [Slots -> Request] /\ req[s] \in Request
  BY DEF TypeInv, TypeOK
<1> USE DEF GoesOn, Request
<1>1. ASSUME NEW status, Answer(s, status) PROVE req'[s].pc = "done"
  BY <1>0, <1>1 DEF Answer
<1>2. ASSUME NEW pc, Goto(s, pc) PROVE req'[s].pc = pc
  BY <1>0, <1>2 DEF Goto
<1>3. CASE LoadRows(s)
  BY <1>1, <1>3 DEF LoadRows
<1>4. CASE LoadList(s)
  BY <1>0, <1>1, <1>2, <1>4 DEF LoadList
<1>5. CASE LoadItem(s)
  BY <1>0, <1>1, <1>2, <1>5 DEF LoadItem
<1>6. CASE LoadTarget(s)
  BY <1>1, <1>2, <1>6 DEF LoadTarget
<1>7. CASE CheckDuplicate(s)
  BY <1>1, <1>2, <1>7 DEF CheckDuplicate
<1>8. CASE LoadShare(s)
  BY <1>0, <1>1, <1>8 DEF LoadShare
<1>9. CASE LoadOwned(s)
  BY <1>0, <1>9 DEF LoadOwned
<1>10. CASE LoadShared(s)
  BY <1>0, <1>10 DEF LoadShared
<1> QED
  BY <1>3, <1>4, <1>5, <1>6, <1>7, <1>8, <1>9, <1>10 DEF Load

LEMMA ContinueGoesOn ==
    ASSUME TypeInv, NEW s \in Slots, Continue(s)
    PROVE  /\ GoesOn(req[s], req'[s])
           /\ \A t \in Slots : t # s => req'[t] = req[t]
<1>0. req \in [Slots -> Request] /\ req[s] \in Request
  BY DEF TypeInv, TypeOK
<1>1. ASSUME CheckOwner(s) PROVE GoesOn(req[s], req'[s])
  BY <1>0, <1>1 DEF CheckOwner, GoesOn, Request
<1>2. ASSUME CheckShare(s) PROVE GoesOn(req[s], req'[s])
  BY <1>0, <1>2 DEF CheckShare, Answer, Goto, GoesOn, Request
<1>3. ASSUME Refresh(s) PROVE GoesOn(req[s], req'[s])
  BY <1>0, <1>3 DEF Refresh, Answer, GoesOn, Request
<1>4. ASSUME Commit(s) PROVE GoesOn(req[s], req'[s])
  <2>1. req[s].pc = "commit" /\ req'[s].pc \in {"refresh", "done"}
    BY <1>4, CommitMoves
  <2> QED
    BY <2>1 DEF GoesOn
<1> QED
  BY <1>1, <1>2, <1>3, <1>4, LoadGoesOn, ContinueMoves DEF Continue, Authorize, Moves

\* No request is authorized, loads or commits twice, and none is moved by another:
\* what is left of its being answered is that the event loop and the database go on.
THEOREM NobodyGoesBack == Spec => RequestsAdvance
<1> DEFINE Step == \A s \in Slots : InFlight(req[s]) /\ req'[s] # req[s]
                                     => StepsLeft(req'[s]) < StepsLeft(req[s])
<1>1. ASSUME TypeInv, [Next]_vars PROVE Step
  <2> SUFFICES ASSUME NEW s \in Slots, InFlight(req[s]), req'[s] # req[s]
               PROVE  StepsLeft(req'[s]) < StepsLeft(req[s])
    OBVIOUS
  <2>1. ASSUME NEW t \in Slots, Begin(t) \/ Receive(t) PROVE FALSE
    <3>1. t # s
      BY <2>1 DEF Begin, Receive, InFlight, Awaits
    <3> QED
      BY <1>1, <2>1, <3>1 DEF Begin, Receive, TypeInv, TypeOK
  <2>2. PICK t \in Slots : Continue(t)
    BY <1>1, <2>1 DEF Next, vars
  <2> QED
    BY <1>1, <2>2, ContinueGoesOn, GoingOnIsNearer
<1> QED
  BY <1>1, DataInvariant, PTL DEF Spec, RequestsAdvance
=============================================================================
