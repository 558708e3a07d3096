----------------------- MODULE SharingRefinement_proofs -----------------------
(***************************************************************************)
(* Sharing implements AccessControl, for every set of users, lists, items, *)
(* requests and endpoints.                                                 *)
(***************************************************************************)
EXTENDS SharingRefinement, Sharing_proofs

\* The instance has its own copy of Permissions and Endpoints.
LEMMA SameEndpoints ==
    /\ AC!ListReads = ListReads /\ AC!ListScoped = ListScoped /\ AC!AllOps = AllOps
    /\ AC!ShareRoles = ShareRoles /\ AC!NoShare = NoShare
    /\ AC!PermissionOf = PermissionOf
BY DEF AC!ListReads, AC!ListWrites, AC!ItemWrites, AC!ShareWrites, AC!ListScoped, AC!AllOps,
       ListReads, ListWrites, ItemWrites, ShareWrites, ListScoped, AllOps, AC!ShareRoles,
       ShareRoles, AC!NoShare, NoShare, AC!PermissionOf, PermissionOf

LEMMA SamePermissions ==
    \A role, action : AC!CanPerform(role, action) <=> CanPerform(role, action)
<1>1. AC!Allowed = Allowed
  BY DEF AC!Allowed, Allowed, AC!Roles, Roles, AC!ShareRoles, ShareRoles, AC!NoRole, NoRole,
         AC!ReadActions, ReadActions, AC!ItemWriteActions, ItemWriteActions,
         AC!OwnerOnlyActions, OwnerOnlyActions
<1> QED
  BY <1>1 DEF AC!CanPerform, CanPerform

LEMMA SameRole ==
    ASSUME NEW u, NEW l
    PROVE  AC!Role(u, l) = Role(u, l)
BY DEF AC!Role, Role, RoleIn, AC!EffectiveRole, EffectiveRole, AC!NoShare, NoShare,
       AC!NoRole, NoRole

\* The job of a listed request may be done when its user may now do it.
LEMMA JobMayDo ==
    ASSUME NEW s \in Slots
    PROVE  AC!MayDo(jobs[s].call) <=>
              CanPerform(Role(req[s].user, req[s].list), PermissionOf[req[s].op])
<1>1. LET c == jobs[s].call IN
      c.user = req[s].user /\ c.list = req[s].list /\ c.op = req[s].op
  BY DEF jobs, Job, Call
<1> QED
  BY <1>1, SameEndpoints, SamePermissions, SameRole DEF AC!MayDo

LEMMA JobMayDoNext ==
    ASSUME NEW s \in Slots
    PROVE  AC!MayDo(jobs[s].call)' <=>
              CanPerform(RoleIn(owner', shares', req'[s].user, req'[s].list),
                         PermissionOf[req'[s].op])
<1>1. LET c == jobs'[s].call IN
      c.user = req'[s].user /\ c.list = req'[s].list /\ c.op = req'[s].op
  BY DEF jobs, Job, Call
<1>2. \A u, l : AC!Role(u, l)' = RoleIn(owner', shares', u, l)
  BY DEF AC!Role, RoleIn, AC!EffectiveRole, EffectiveRole, AC!NoShare, NoShare, AC!NoRole, NoRole
<1> QED
  BY <1>1, <1>2, SameEndpoints, SamePermissions DEF AC!MayDo

-----------------------------------------------------------------------------
(* How a step of a request moves its job. *)

LEMMA JobFields ==
    ASSUME NEW s \in Slots
    PROVE  /\ jobs[s].phase = Phase(req[s])
           /\ LET c == jobs[s].call IN
              /\ c.op = req[s].op /\ c.user = req[s].user /\ c.list = req[s].list
              /\ c.item = req[s].item /\ c.target = req[s].target /\ c.role = req[s].role
BY DEF jobs, Job, Call

LEMMA JobStep ==
    ASSUME NEW s \in Slots, \A t \in Slots \ {s} : req'[t] = req[t]
    PROVE  jobs' = [jobs EXCEPT ![s] = Job(req'[s])]
<1>1. \A t \in Slots : Job(req[t])' = Job(req'[t])
  BY DEF Job, Call, Phase, Satisfied
<1>2. jobs' = [t \in Slots |-> Job(req'[t])]
  BY <1>1 DEF jobs
<1> QED
  BY <1>2 DEF jobs

LEMMA JobAnswers ==
    ASSUME TypeInv, NEW s \in Slots, NEW status, Answer(s, status)
    PROVE  AC!Answer(s, status)
<1>1. req \in [Slots -> Request] /\ req[s] \in Request
  BY DEF TypeInv, TypeOK
<1>2. /\ \A t \in Slots \ {s} : req'[t] = req[t]
      /\ req'[s] = [req[s] EXCEPT !.pc = "done", !.status = status]
  BY <1>1 DEF Answer
<1>3. jobs' = [jobs EXCEPT ![s] = Job(req'[s])]
  BY <1>2, JobStep
<1>4. /\ req'[s].pc = "done" /\ req'[s].status = status
      /\ req'[s].op = req[s].op /\ req'[s].user = req[s].user /\ req'[s].list = req[s].list
      /\ req'[s].item = req[s].item /\ req'[s].target = req[s].target
      /\ req'[s].role = req[s].role
  BY <1>1, <1>2 DEF Request
<1>5. Phase(req'[s]) = "answered"
  BY <1>4 DEF Phase
<1>6. Call(req'[s]) = Call(req[s])
  BY <1>4 DEF Call
<1>7. Job(req'[s]) = [phase |-> "answered", call |-> Call(req[s]), status |-> status]
  BY <1>4, <1>5, <1>6 DEF Job
<1>8. jobs[s].call = Call(req[s])
  BY DEF jobs, Job
<1> QED
  BY <1>3, <1>7, <1>8 DEF AC!Answer, jobs

LEMMA JobAnswersWritten ==
    ASSUME TypeInv, NEW s \in Slots, NEW status, Written(s, "done", status)
    PROVE  AC!Answer(s, status)
<1>1. req \in [Slots -> Request] /\ req[s] \in Request
  BY DEF TypeInv, TypeOK
<1>2. /\ \A t \in Slots \ {s} : req'[t] = req[t]
      /\ req'[s] = [req[s] EXCEPT !.pc = "done", !.wrote = TRUE, !.status = status]
  BY <1>1 DEF Written
<1>3. jobs' = [jobs EXCEPT ![s] = Job(req'[s])]
  BY <1>2, JobStep
<1>4. /\ req'[s].pc = "done" /\ req'[s].status = status
      /\ req'[s].op = req[s].op /\ req'[s].user = req[s].user /\ req'[s].list = req[s].list
      /\ req'[s].item = req[s].item /\ req'[s].target = req[s].target
      /\ req'[s].role = req[s].role
  BY <1>1, <1>2 DEF Request
<1>5. Phase(req'[s]) = "answered"
  BY <1>4 DEF Phase
<1>6. Call(req'[s]) = Call(req[s])
  BY <1>4 DEF Call
<1>7. Job(req'[s]) = [phase |-> "answered", call |-> Call(req[s]), status |-> status]
  BY <1>4, <1>5, <1>6 DEF Job
<1>8. jobs[s].call = Call(req[s])
  BY DEF jobs, Job
<1> QED
  BY <1>3, <1>7, <1>8 DEF AC!Answer, jobs

\* A step that changes no field of the job but its phase.
LEMMA JobPhase ==
    ASSUME NEW s \in Slots, \A t \in Slots \ {s} : req'[t] = req[t],
           /\ req'[s].op = req[s].op /\ req'[s].user = req[s].user /\ req'[s].list = req[s].list
           /\ req'[s].item = req[s].item /\ req'[s].target = req[s].target
           /\ req'[s].role = req[s].role /\ req[s].pc # "done" /\ req'[s].pc # "done"
    PROVE  /\ jobs' = [jobs EXCEPT ![s].phase = Phase(req'[s])]
           /\ Phase(req'[s]) = Phase(req[s]) => jobs' = jobs
<1>1. jobs' = [jobs EXCEPT ![s] = Job(req'[s])]
  BY JobStep
<1>2. Job(req'[s]) = [Job(req[s]) EXCEPT !.phase = Phase(req'[s])]
  BY DEF Job, Call
<1>3. jobs[s] = Job(req[s])
  BY DEF jobs
<1>4. jobs' = [jobs EXCEPT ![s].phase = Phase(req'[s])]
  BY <1>1, <1>2, <1>3 DEF jobs
<1>5. Phase(req'[s]) = Phase(req[s]) => [Job(req[s]) EXCEPT !.phase = Phase(req'[s])] = Job(req[s])
  BY DEF Job
<1> QED
  BY <1>1, <1>2, <1>3, <1>4, <1>5 DEF jobs

\* What a step of request s is to be shown to be: a step of job s, or none.
JobMoves(s) == \/ AC!Grant(s) \/ AC!Refuse(s) \/ AC!Perform(s)
               \/ UNCHANGED <<owner, shares, item, jobs>>

LEMMA GotoJob ==
    ASSUME TypeInv, NEW s \in Slots, NEW pc, Goto(s, pc), req[s].pc # "done", pc # "done"
    PROVE  /\ req'[s] = [req[s] EXCEPT !.pc = pc]
           /\ jobs' = [jobs EXCEPT ![s].phase = Phase([req[s] EXCEPT !.pc = pc])]
           /\ Phase([req[s] EXCEPT !.pc = pc]) = Phase(req[s]) => jobs' = jobs
<1>1. req \in [Slots -> Request] /\ req[s] \in Request
  BY DEF TypeInv, TypeOK
<1>2. /\ \A t \in Slots \ {s} : req'[t] = req[t]
      /\ req'[s] = [req[s] EXCEPT !.pc = pc]
  BY <1>1 DEF Goto
<1>3. /\ req'[s].op = req[s].op /\ req'[s].user = req[s].user /\ req'[s].list = req[s].list
      /\ req'[s].item = req[s].item /\ req'[s].target = req[s].target
      /\ req'[s].role = req[s].role /\ req'[s].pc = pc
  BY <1>1, <1>2 DEF Request
<1> QED
  BY <1>2, <1>3, JobPhase

LEMMA OwnerMay == \A op \in ListScoped : CanPerform("owner", PermissionOf[op])
<1>1. ASSUME NEW op \in ListScoped
      PROVE  PermissionOf[op] \in ReadActions \cup ItemWriteActions \cup OwnerOnlyActions
  BY DEF PermissionOf, ListScoped, ListReads, ListWrites, ItemWrites, ShareWrites,
         ReadActions, ItemWriteActions, OwnerOnlyActions
<1>2. Allowed["owner"] = ReadActions \cup ItemWriteActions \cup OwnerOnlyActions
  BY DEF Allowed, Roles, NoRole
<1> QED
  BY <1>1, <1>2 DEF CanPerform

LEMMA OnlyOwnersGrant ==
    ASSUME NEW role \in ShareRoles PROVE ~Granted(role, "create_share")
<1>1. PermissionOf["create_share"] = "share_list"
  BY DEF PermissionOf, ListScoped, ShareWrites
<1>2. role = "editor" \/ role = "viewer"
  BY DEF ShareRoles
<1>3. /\ Allowed["editor"] = ReadActions \cup ItemWriteActions
      /\ Allowed["viewer"] = ReadActions
  BY DEF Allowed, Roles, ShareRoles, NoRole
<1> QED
  BY <1>1, <1>2, <1>3 DEF Granted, CanPerform, ReadActions, ItemWriteActions

\* Only those who may do nothing are turned away, and only those who may not do
\* this now or did not at some moment.
LEMMA AuthorizeJob ==
    ASSUME IInv, LateOwners, NEW s \in Slots, Authorize(s)
    PROVE  JobMoves(s)
<1> DEFINE q == req[s]
<1>0. /\ TypeInv /\ DataInv /\ HistoryInv
      /\ req \in [Slots -> Request] /\ q \in Request /\ WellFormed(q)
  BY DEF IInv, TypeInv, TypeOK, RequestsWellFormed
<1>1. CASE CheckOwner(s)
  <2>1. /\ q.pc = "owner" /\ OnlyControl /\ AC!NoEffect
        /\ \A t \in Slots \ {s} : req'[t] = req[t]
        /\ req'[s] = [q EXCEPT !.isOwner = (owner[q.list] = q.user), !.pc = "share"]
    BY <1>0, <1>1 DEF CheckOwner, OnlyControl, AC!NoEffect
  <2>2. /\ req'[s].op = q.op /\ req'[s].user = q.user /\ req'[s].list = q.list
        /\ req'[s].item = q.item /\ req'[s].target = q.target
        /\ req'[s].role = q.role /\ req'[s].status = q.status
        /\ req'[s].pc = "share" /\ req'[s].isOwner = (owner[q.list] = q.user)
    BY <1>0, <2>1 DEF Request
  <2>3. CASE owner[q.list] = q.user
    <3>1. Phase(q) = "asked" /\ Phase(req'[s]) = "granted"
      BY <2>1, <2>2, <2>3 DEF Phase
    <3>2. jobs' = [jobs EXCEPT ![s].phase = "granted"]
      BY <2>1, <2>2, <3>1, JobPhase
    <3>3. CanPerform(Role(q.user, q.list), PermissionOf[q.op])
      <4>1. Role(q.user, q.list) = "owner"
        BY <2>3 DEF Role, RoleIn, EffectiveRole
      <4>2. q.op \in ListScoped
        BY <1>0, <2>1 DEF WellFormed
      <4> QED
        BY <4>1, <4>2, OwnerMay
    <3> QED
      BY <2>1, <3>1, <3>2, <3>3, JobMayDo, JobFields DEF AC!Grant, JobMoves
  <2>4. CASE owner[q.list] # q.user
    <3>1. Phase(q) = "asked" /\ Phase(req'[s]) = "asked"
      BY <2>1, <2>2, <2>4 DEF Phase
    <3> QED
      BY <2>1, <2>2, <3>1, JobPhase DEF OnlyControl, JobMoves
  <2> QED
    BY <2>3, <2>4
<1>2. CASE CheckShare(s)
  <2>1. q.pc = "share" /\ OnlyControl /\ AC!NoEffect
    BY <1>2 DEF CheckShare, OnlyControl, AC!NoEffect
  <2>2. q.op \in ListScoped /\ q.op # "list_lists" /\ q.user \in Users /\ q.list \in ListIds
    BY <1>0, <2>1 DEF WellFormed, ListScoped, ListReads, ListWrites, ItemWrites, ShareWrites
  <2>3. q.isOwner => Granted(ResolvedRole(q), q.op)
    BY <2>2, OwnerMay DEF Granted, ResolvedRole, EffectiveRole
  <2>4. CASE ~Granted(ResolvedRole(q), q.op)
    <3>1. Answer(s, 404) /\ ~q.isOwner
      BY <1>2, <2>3, <2>4 DEF CheckShare, Denial
    <3>2. jobs[s].phase = "asked"
      BY <2>1, <3>1, JobFields DEF Phase
    <3>3. ~CanPerform(Role(q.user, q.list), PermissionOf[q.op]) \/ Role(q.user, q.list) = "owner"
      BY <2>4, <3>1 DEF Granted, ResolvedRole, Role, RoleIn, EffectiveRole
    <3>4. \E p \in held[s] : ~CanPerform(p[2], PermissionOf[q.op])
      <4>1. CASE Role(q.user, q.list) = "owner"
        <5>1. owner[q.list] = q.user
          <6>1. shares[q.list][q.user] \in ShareRoles \cup {NoShare}
            BY <1>0, <2>2 DEF TypeInv, TypeOK
          <6> QED
            BY <4>1, <6>1 DEF Role, RoleIn, EffectiveRole, ShareRoles, NoRole
        <5>2. <<q.list, NoRole>> \in held[s]
          BY <2>1, <3>1, <5>1 DEF LateOwners
        <5>3. ~CanPerform(NoRole, PermissionOf[q.op])
          <6>1. Allowed[NoRole] = {}
            BY DEF Allowed, NoRole
          <6> QED
            BY <6>1 DEF CanPerform
        <5> QED
          BY <5>2, <5>3
      <4>2. CASE Role(q.user, q.list) # "owner"
        <5>1. <<q.list, Role(q.user, q.list)>> \in Pairs(q, owner, shares)
          BY <2>2 DEF Pairs, Scope, Role
        <5>2. InFlight(q)
          BY <2>1 DEF InFlight, Awaits
        <5>3. <<q.list, Role(q.user, q.list)>> \in held[s]
          BY <1>0, <5>1, <5>2 DEF HistoryInv, HistoryIsCurrent
        <5> QED
          BY <3>3, <4>2, <5>3
      <4> QED
        BY <4>1, <4>2
    <3>5. s \in doubted
      BY <3>2, <3>4 DEF doubted, AlwaysAllowed
    <3> QED
      BY <1>0, <2>1, <3>1, <3>2, <3>5, JobAnswers DEF AC!Refuse, JobMoves
  <2>6. ASSUME Granted(ResolvedRole(q), q.op), ~q.isOwner
        PROVE  /\ CanPerform(Role(q.user, q.list), PermissionOf[q.op])
               /\ ResolvedRole(q) \in ShareRoles
    <3>1. shares[q.list][q.user] \in ShareRoles \cup {NoShare}
      BY <1>0, <2>2 DEF TypeInv, TypeOK
    <3>2. Allowed[NoRole] = {}
      BY DEF Allowed, NoRole
    <3>3. ResolvedRole(q) # NoRole
      BY <2>6, <3>2 DEF Granted, CanPerform
    <3>4. shares[q.list][q.user] # NoShare /\ ResolvedRole(q) = shares[q.list][q.user]
      BY <2>6, <3>3 DEF ResolvedRole, EffectiveRole
    <3>5. owner[q.list] # q.user
      BY <1>0, <2>2, <3>4 DEF DataInv, NoOwnerShare, ShareExists
    <3>6. Role(q.user, q.list) = ResolvedRole(q)
      BY <3>4, <3>5 DEF Role, RoleIn, EffectiveRole
    <3> QED
      BY <2>6, <3>1, <3>4, <3>6 DEF Granted
  <2>5. CASE Granted(ResolvedRole(q), q.op)
    <3>1. CASE q.isOwner /\ SharesWithSelf(q)
      <4>1. Answer(s, 400)
        BY <1>2, <2>5, <3>1 DEF CheckShare
      <4>2. jobs[s].phase = "granted"
        BY <2>1, <3>1, JobFields DEF Phase
      <4>3. AC!Reason(jobs[s].call, 400)
        BY <3>1, JobFields DEF AC!Reason, SharesWithSelf
      <4> QED
        BY <1>0, <2>1, <4>1, <4>2, <4>3, JobAnswers DEF AC!Fail, AC!Perform, JobMoves
    <3>2. q.isOwner \/ ~SharesWithSelf(q)
      BY <2>2, <2>5, <2>6, OnlyOwnersGrant DEF SharesWithSelf
    <3>3. CASE ~SharesWithSelf(q)
      <4>1. PICK pc \in {"load", "commit"} : Goto(s, pc) /\ (pc = "commit" => q.op = "create_item")
        BY <1>2, <2>5, <3>3 DEF CheckShare
      <4>2. /\ [q EXCEPT !.pc = pc].pc = pc /\ [q EXCEPT !.pc = pc].op = q.op
        BY <1>0 DEF Request
      <4>3. Phase([q EXCEPT !.pc = pc]) = "granted"
        BY <4>1, <4>2 DEF Phase, Satisfied
      <4>4. CASE q.isOwner
        <5>1. Phase(q) = "granted"
          BY <2>1, <4>4 DEF Phase
        <5> QED
          BY <1>0, <2>1, <4>1, <4>3, <5>1, GotoJob DEF OnlyControl, JobMoves
      <4>5. CASE ~q.isOwner
        <5>1. Phase(q) = "asked"
          BY <2>1, <4>5 DEF Phase
        <5>2. jobs' = [jobs EXCEPT ![s].phase = "granted"]
          BY <1>0, <2>1, <4>1, <4>3, GotoJob
        <5> QED
          BY <2>1, <2>5, <2>6, <4>5, <5>1, <5>2, JobMayDo, JobFields DEF AC!Grant, JobMoves
      <4> QED
        BY <4>4, <4>5
    <3> QED
      BY <3>1, <3>2, <3>3
  <2> QED
    BY <2>4, <2>5
<1> QED
  BY <1>1, <1>2 DEF Authorize
-----------------------------------------------------------------------------
LEMMA LoadJob ==
    ASSUME IInv, NEW s \in Slots, Load(s)
    PROVE  JobMoves(s)
<1> DEFINE q == req[s]
           c == jobs[s].call
<1>0. /\ TypeInv /\ req \in [Slots -> Request] /\ q \in Request /\ WellFormed(q)
      /\ q.op # "list_lists" /\ q.op # "create_list" => q.op \in ListScoped
  BY DEF IInv, TypeInv, TypeOK, RequestsWellFormed, Request, AllOps
<1>1. /\ OnlyControl /\ AC!NoEffect
      /\ q.pc \in {"load", "duplicate", "owned", "shared"}
  BY <1>0, LoadMoves DEF AC!NoEffect, OnlyControl, Load, LoadRows, LoadList, LoadItem,
     LoadTarget, CheckDuplicate, LoadShare, LoadOwned, LoadShared
<1>2. Phase(q) = "granted" /\ jobs[s].phase = "granted"
  BY <1>1, JobFields DEF Phase
<1>3. /\ c.op = q.op /\ c.user = q.user /\ c.list = q.list
      /\ c.item = q.item /\ c.target = q.target /\ c.role = q.role
  BY JobFields
<1>4. ASSUME Answer(s, 404), AC!Missing(c) PROVE JobMoves(s)
  <2>1. AC!Reason(c, 404) /\ AC!Answer(s, 404)
    BY <1>0, <1>4, JobAnswers DEF AC!Reason
  <2> QED
    BY <1>1, <1>2, <2>1 DEF AC!Fail, AC!Perform, JobMoves
<1>5. ASSUME NEW pc, Goto(s, pc), pc \in {"load", "duplicate", "commit", "shared"}, ~Satisfied(q)
      PROVE  JobMoves(s)
  <2>1. [q EXCEPT !.pc = pc].pc = pc /\ Satisfied([q EXCEPT !.pc = pc]) = Satisfied(q)
    BY <1>0 DEF Request, Satisfied
  <2>2. Phase([q EXCEPT !.pc = pc]) = "granted"
    BY <1>5, <2>1 DEF Phase
  <2> QED
    BY <1>0, <1>1, <1>2, <1>5, <2>2, GotoJob DEF OnlyControl, JobMoves
<1>6. ASSUME Answer(s, 200), q.op \in ListReads \cup {"list_lists"},
             q.op = "get_list" => ListExists(q.list)
      PROVE  JobMoves(s)
  <2>1. AC!Answer(s, 200) /\ AC!ListExists(c.list) = ListExists(q.list)
    BY <1>0, <1>3, <1>6, JobAnswers DEF AC!ListExists, ListExists
  <2> QED
    BY <1>1, <1>2, <1>3, <1>6, <2>1, SameEndpoints DEF AC!Read, AC!Perform, JobMoves
\* The SELECT before an UPDATE tells whether there is anything to change.
<1>7. ASSUME NEW dirty \in BOOLEAN,
             req' = [req EXCEPT ![s].pc = "commit", ![s].dirty = dirty],
             q.op \in {"rename_list", "update_item"} => AC!Edit(c),
             q.op \in {"rename_list", "update_item", "change_role"},
             q.op = "change_role" =>
                /\ ShareExists(q.list, q.target) /\ q.target \in Users
                /\ ~dirty => shares[q.list][q.target] = q.role
      PROVE  JobMoves(s)
  <2>1. /\ \A t \in Slots \ {s} : req'[t] = req[t]
        /\ req'[s] = [q EXCEPT !.pc = "commit", !.dirty = dirty]
    BY <1>0, <1>7
  <2>2. /\ req'[s].op = q.op /\ req'[s].user = q.user /\ req'[s].list = q.list
        /\ req'[s].item = q.item /\ req'[s].target = q.target
        /\ req'[s].role = q.role /\ req'[s].status = q.status
        /\ req'[s].pc = "commit" /\ req'[s].dirty = dirty
    BY <1>0, <2>1 DEF Request
  <2>3. CASE dirty
    <3>1. Phase(req'[s]) = "granted"
      BY <2>2, <2>3 DEF Phase, Satisfied
    <3> QED
      BY <1>1, <1>2, <2>1, <2>2, <3>1, JobPhase DEF OnlyControl, JobMoves
  <2>4. CASE ~dirty
    <3>1. Phase(req'[s]) = "applied"
      BY <1>7, <2>2, <2>4 DEF Phase, Satisfied
    <3>2. jobs' = [jobs EXCEPT ![s].phase = "applied"]
      BY <1>1, <2>1, <2>2, <3>1, JobPhase
    <3>3. CASE q.op \in {"rename_list", "update_item"}
      BY <1>1, <1>2, <1>3, <1>7, <3>2, <3>3 DEF AC!Apply, AC!Perform, JobMoves
    <3>4. CASE q.op = "change_role"
      <4>1. q.list \in ListIds /\ shares \in [ListIds -> [Users -> ShareRoles \cup {NoShare}]]
        BY <1>0, <1>1, <3>4 DEF TypeInv, TypeOK, WellFormed
      <4>2. AC!ShareExists(c.list, c.target)
        BY <1>3, <1>7, <3>4 DEF AC!ShareExists, ShareExists, AC!NoShare, NoShare
      <4>3. shares' = [shares EXCEPT ![c.list][c.target] = c.role]
        BY <1>1, <1>3, <1>7, <2>4, <3>4, <4>1 DEF OnlyControl
      <4>4. AC!ChangeRole(c)
        BY <1>1, <4>2, <4>3 DEF AC!ChangeRole, AC!SetShare, OnlyControl
      <4> QED
        BY <1>2, <1>3, <3>2, <3>4, <4>4 DEF AC!Apply, AC!Perform, JobMoves
    <3> QED
      BY <1>7, <3>3, <3>4
  <2> QED
    BY <2>3, <2>4
<1>8. /\ AC!ListExists(c.list) = ListExists(q.list)
      /\ q.target \in Users => AC!ShareExists(c.list, c.target) = ShareExists(q.list, q.target)
  BY <1>3 DEF AC!ListExists, ListExists, AC!ShareExists, ShareExists, AC!NoShare, NoShare
<1>11. CASE LoadRows(s)
  BY <1>6, <1>11 DEF LoadRows, ListReads
<1>12. CASE LoadList(s)
  <2>1. ~ListExists(q.list) => AC!Missing(c)
    BY <1>3, <1>8, <1>12, SameEndpoints DEF LoadList, AC!Missing, ListScoped, ListReads, ListWrites
  <2>2. q.op = "rename_list" /\ ListExists(q.list) => AC!Edit(c)
    BY <1>3, <1>8 DEF AC!Edit
  <2>3. q.op = "delete_list" => ~Satisfied(q)
    BY DEF Satisfied
  <2> QED
    BY <1>4, <1>5, <1>6, <1>7, <1>12, <2>1, <2>2, <2>3 DEF LoadList, ListReads
<1>13. CASE LoadItem(s)
  <2>1. ~ItemOfList(q) => AC!Missing(c)
    BY <1>3, <1>13 DEF LoadItem, ItemOfList, AC!Missing
  <2>2. q.op = "update_item" /\ ItemOfList(q) => AC!Edit(c)
    BY <1>3 DEF AC!Edit, ItemOfList
  <2>3. q.op = "delete_item" => ~Satisfied(q)
    BY DEF Satisfied
  <2> QED
    BY <1>4, <1>5, <1>7, <1>13, <2>1, <2>2, <2>3 DEF LoadItem
<1>14. CASE LoadTarget(s)
  <2>1. q.op = "create_share" /\ ~Satisfied(q)
    BY <1>14 DEF LoadTarget, Satisfied
  <2>2. q.target \notin Users => AC!Missing(c)
    BY <1>3, <2>1 DEF AC!Missing
  <2> QED
    BY <1>4, <1>5, <1>14, <2>1, <2>2 DEF LoadTarget
<1>15. CASE CheckDuplicate(s)
  <2>1. q.op = "create_share" /\ ~Satisfied(q) /\ q.target \in Users
    BY <1>0, <1>15 DEF CheckDuplicate, Satisfied, WellFormed
  <2>2. CASE ShareExists(q.list, q.target)
    <3>1. AC!Reason(c, 409) /\ AC!Answer(s, 409)
      BY <1>0, <1>3, <1>8, <1>15, <2>1, <2>2, JobAnswers DEF CheckDuplicate, AC!Reason
    <3> QED
      BY <1>1, <1>2, <3>1 DEF AC!Fail, AC!Perform, JobMoves
  <2> QED
    BY <1>5, <1>15, <2>1, <2>2 DEF CheckDuplicate
<1>16. CASE LoadShare(s)
  <2>1. q.op \in {"change_role", "revoke_share"} /\ q.target \in Users
    BY <1>0, <1>16 DEF LoadShare, WellFormed
  <2>2. ~ShareExists(q.list, q.target) => AC!Missing(c)
    BY <1>3, <1>8, <2>1 DEF AC!Missing
  <2>3. CASE ShareExists(q.list, q.target) /\ q.op = "change_role"
    BY <1>7, <1>16, <2>1, <2>3 DEF LoadShare
  <2>4. CASE ShareExists(q.list, q.target) /\ q.op = "revoke_share"
    <3>1. /\ \A t \in Slots \ {s} : req'[t] = req[t]
          /\ req'[s] = [q EXCEPT !.pc = "commit", !.dirty = (shares[q.list][q.target] # q.role)]
      BY <1>0, <1>16, <2>4 DEF LoadShare
    <3>2. /\ req'[s].op = q.op /\ req'[s].user = q.user /\ req'[s].list = q.list
          /\ req'[s].item = q.item /\ req'[s].target = q.target
          /\ req'[s].role = q.role /\ req'[s].status = q.status
          /\ req'[s].pc = "commit"
      BY <1>0, <3>1 DEF Request
    <3>3. Phase(req'[s]) = "granted"
      BY <2>4, <3>2 DEF Phase, Satisfied
    <3> QED
      BY <1>1, <1>2, <3>1, <3>2, <3>3, JobPhase DEF OnlyControl, JobMoves
  <2> QED
    BY <1>4, <1>16, <2>1, <2>2, <2>3, <2>4 DEF LoadShare
<1>17. CASE LoadOwned(s)
  <2>1. /\ \A t \in Slots \ {s} : req'[t] = req[t]
        /\ req'[s] = [q EXCEPT !.pc = "shared", !.found = {l \in ListIds : owner[l] = q.user}]
    BY <1>0, <1>17 DEF LoadOwned
  <2>2. /\ req'[s].op = q.op /\ req'[s].user = q.user /\ req'[s].list = q.list
        /\ req'[s].item = q.item /\ req'[s].target = q.target
        /\ req'[s].role = q.role /\ req'[s].status = q.status
        /\ req'[s].pc = "shared"
    BY <1>0, <2>1 DEF Request
  <2>3. Phase(req'[s]) = "granted"
    BY <2>2 DEF Phase
  <2> QED
    BY <1>1, <1>2, <2>1, <2>2, <2>3, JobPhase DEF OnlyControl, JobMoves
<1>18. CASE LoadShared(s)
  <2>1. /\ \A t \in Slots \ {s} : req'[t] = req[t]
        /\ req'[s] = [q EXCEPT !.pc = "done", !.status = 200, !.found = @ \cup SharedWith(q.user)]
        /\ q.op = "list_lists"
    BY <1>0, <1>1, <1>18 DEF LoadShared, WellFormed
  <2>2. /\ req'[s].op = q.op /\ req'[s].user = q.user /\ req'[s].list = q.list
        /\ req'[s].item = q.item /\ req'[s].target = q.target
        /\ req'[s].role = q.role /\ req'[s].status = 200 /\ req'[s].pc = "done"
    BY <1>0, <2>1 DEF Request
  <2>3. Job(req'[s]) = [phase |-> "answered", call |-> Call(q), status |-> 200]
    BY <2>2 DEF Job, Call, Phase
  <2>4. jobs[s].call = Call(q)
    BY DEF jobs, Job
  <2>5. AC!Answer(s, 200)
    BY <2>1, <2>3, <2>4, JobStep DEF AC!Answer, jobs
  <2> QED
    BY <1>1, <1>2, <1>3, <2>1, <2>5, SameEndpoints DEF AC!Read, AC!Perform, JobMoves
<1> QED
  BY <1>11, <1>12, <1>13, <1>14, <1>15, <1>16, <1>17, <1>18 DEF Load
-----------------------------------------------------------------------------
\* A COMMIT is where a job takes effect, or fails.
LEMMA CommitJob ==
    ASSUME IInv, NEW s \in Slots, Commit(s)
    PROVE  JobMoves(s)
<1> DEFINE q == req[s]
           c == jobs[s].call
<1>0. /\ TypeInv /\ DataInv /\ req \in [Slots -> Request] /\ q \in Request /\ WellFormed(q)
      /\ q.pc = "commit"
  BY CommitMoves DEF IInv, TypeInv, TypeOK, RequestsWellFormed, Request
<1>1. /\ c.op = q.op /\ c.user = q.user /\ c.list = q.list
      /\ c.item = q.item /\ c.target = q.target /\ c.role = q.role
      /\ jobs[s].phase = Phase(q)
  BY JobFields
<1>2. ~Satisfied(q) => jobs[s].phase = "granted"
  BY <1>0, <1>1 DEF Phase
<1>3. /\ AC!ListExists(c.list) = ListExists(q.list)
      /\ q.target \in Users => AC!ShareExists(c.list, c.target) = ShareExists(q.list, q.target)
  BY <1>1 DEF AC!ListExists, ListExists, AC!ShareExists, ShareExists, AC!NoShare, NoShare
<1>4. OnlyControl => AC!NoEffect
  BY DEF OnlyControl, AC!NoEffect
<1>5. /\ owner \in [ListIds -> Users \cup {Unborn, Deleted}]
      /\ shares \in [ListIds -> [Users -> ShareRoles \cup {NoShare}]]
      /\ item \in [ItemIds -> ListIds \cup {Unborn, Deleted}]
  BY <1>0 DEF TypeInv, TypeOK
<1>6. ASSUME Written(s, "refresh", 0), ~Satisfied(q)
      PROVE  jobs' = [jobs EXCEPT ![s].phase = "applied"]
  <2>1. /\ \A t \in Slots \ {s} : req'[t] = req[t]
        /\ req'[s] = [q EXCEPT !.pc = "refresh", !.wrote = TRUE, !.status = 0]
    BY <1>0, <1>6 DEF Written
  <2>2. /\ req'[s].op = q.op /\ req'[s].user = q.user /\ req'[s].list = q.list
        /\ req'[s].item = q.item /\ req'[s].target = q.target
        /\ req'[s].role = q.role /\ req'[s].status = 0 /\ req'[s].pc = "refresh"
    BY <1>0, <2>1 DEF Request
  <2>3. Job(req'[s]) = [phase |-> "applied", call |-> Call(q), status |-> 0]
    BY <2>2 DEF Job, Call, Phase
  <2>4. jobs[s] = [phase |-> "granted", call |-> Call(q), status |-> 0]
    BY <1>0, <1>2, <1>6 DEF jobs, Job
  <2>5. [jobs[s] EXCEPT !.phase = "applied"] = Job(req'[s])
    BY <2>3, <2>4
  <2> QED
    BY <2>1, <2>5, JobStep DEF jobs
<1>7. ASSUME NEW status \in {404, 500}, Answer(s, status), AC!Missing(c), AC!NoEffect, ~Satisfied(q)
      PROVE  JobMoves(s)
  <2>1. AC!Reason(c, status) /\ AC!Answer(s, status)
    BY <1>0, <1>7, JobAnswers DEF AC!Reason
  <2> QED
    BY <1>2, <1>7, <2>1 DEF AC!Fail, AC!Perform, JobMoves
\* A request that found nothing to change has been applied already.
<1>9. ASSUME Goto(s, "refresh"), Satisfied(q) PROVE jobs' = jobs
  <2>1. [q EXCEPT !.pc = "refresh"].pc = "refresh"
    BY <1>0 DEF Request
  <2>2. Phase([q EXCEPT !.pc = "refresh"]) = "applied" /\ Phase(q) = "applied"
    BY <1>0, <1>9, <2>1 DEF Phase
  <2> QED
    BY <1>0, <1>9, <2>2, GotoJob
\* The flush of a row that was loaded.
<1>8. ASSUME NEW exists, Update(s, exists), OnlyControl,
             q.op \in {"rename_list", "update_item"},
             exists => AC!Edit(c), ~exists => AC!Missing(c)
      PROVE  JobMoves(s)
  <2>1. CASE q.dirty /\ exists
    <3>1. Written(s, "refresh", 0) /\ ~Satisfied(q)
      BY <1>8, <2>1 DEF Update, Satisfied
    <3> QED
      BY <1>1, <1>2, <1>4, <1>6, <1>8, <2>1, <3>1 DEF AC!Apply, AC!Perform, JobMoves
  <2>2. CASE q.dirty /\ ~exists
    BY <1>4, <1>7, <1>8, <2>2 DEF Update, Satisfied
  <2>3. CASE ~q.dirty
    BY <1>8, <1>9, <2>3 DEF Update, Satisfied, OnlyControl, JobMoves
  <2> QED
    BY <1>0, <2>1, <2>2, <2>3 DEF Request
<1>10. ASSUME Answer(s, 204), ~Satisfied(q),
              \/ q.op = "delete_list"  /\ AC!DeleteList(c)
              \/ q.op = "delete_item"  /\ AC!DeleteItem(c)
              \/ q.op = "revoke_share" /\ AC!SetShare(c.list, c.target, NoShare)
       PROVE  JobMoves(s)
  BY <1>0, <1>1, <1>2, <1>10, JobAnswers, SameEndpoints DEF AC!Delete, AC!Perform, JobMoves
<1>11. ASSUME Written(s, "done", 204), ~Satisfied(q),
              \/ q.op = "delete_list"  /\ AC!DeleteList(c)
              \/ q.op = "delete_item"  /\ AC!DeleteItem(c)
              \/ q.op = "revoke_share" /\ AC!SetShare(c.list, c.target, NoShare)
       PROVE  JobMoves(s)
  BY <1>0, <1>1, <1>2, <1>11, JobAnswersWritten, SameEndpoints DEF AC!Delete, AC!Perform, JobMoves
<1>12. q.op \notin {"rename_list", "update_item", "change_role"} => ~Satisfied(q)
  BY DEF Satisfied
<1>13. CASE CommitCreateList(s)
  <2>1. /\ q.op = "create_list" /\ owner[q.list] = Unborn
        /\ owner' = [owner EXCEPT ![q.list] = q.user] /\ UNCHANGED <<shares, item>>
        /\ Written(s, "refresh", 0)
    BY <1>0, <1>13 DEF CommitCreateList, DataInv, FreshIds
  <2> QED
    BY <1>1, <1>2, <1>6, <1>12, <2>1 DEF AC!CreateList, AC!Apply, AC!Perform, JobMoves
<1>14. CASE CommitRenameList(s)
  <2>1. q.op = "rename_list" /\ OnlyControl /\ Update(s, ListExists(q.list))
    BY <1>14 DEF CommitRenameList
  <2>2. /\ ListExists(q.list) => AC!Edit(c)
        /\ ~ListExists(q.list) => AC!Missing(c)
    BY <1>1, <1>3, <2>1, SameEndpoints DEF AC!Edit, AC!Missing, ListScoped, ListWrites
  <2> QED
    BY <1>8, <2>1, <2>2
<1>15. CASE CommitDeleteList(s)
  <2>1. q.op = "delete_list"
    BY <1>15 DEF CommitDeleteList
  <2>2. CASE ListExists(q.list)
    <3>1. /\ Written(s, "done", 204)
          /\ owner' = [owner EXCEPT ![q.list] = Deleted]
          /\ shares' = [shares EXCEPT ![q.list] = [u \in Users |-> NoShare]]
          /\ item' = [i \in ItemIds |-> IF item[i] = q.list THEN Deleted ELSE item[i]]
      BY <1>15, <2>2 DEF CommitDeleteList
    <3>2. AC!DeleteList(c)
      BY <1>1, <1>3, <2>2, <3>1, SameEndpoints DEF AC!DeleteList
    <3> QED
      BY <1>11, <1>12, <2>1, <3>1, <3>2
  <2>3. CASE ~ListExists(q.list)
    <3>1. Answer(s, 204) /\ OnlyControl
      BY <1>15, <2>3 DEF CommitDeleteList
    <3>2. AC!DeleteList(c)
      BY <1>3, <1>4, <2>3, <3>1 DEF AC!DeleteList
    <3> QED
      BY <1>10, <1>12, <2>1, <3>1, <3>2
  <2> QED
    BY <2>2, <2>3
<1>16. CASE CommitCreateItem(s)
  <2>1. q.op = "create_item"
    BY <1>16 DEF CommitCreateItem
  <2>2. CASE ListExists(q.list)
    <3>1. /\ Written(s, "refresh", 0) /\ UNCHANGED <<owner, shares>>
          /\ item' = [item EXCEPT ![q.item] = q.list]
      BY <1>16, <2>2 DEF CommitCreateItem, ForeignKeyHolds
    <3>2. item[q.item] = Unborn
      BY <1>0, <2>1 DEF DataInv, FreshIds, InFlight, Awaits
    <3>3. AC!CreateItem(c)
      BY <1>1, <1>3, <2>2, <3>1, <3>2 DEF AC!CreateItem
    <3> QED
      BY <1>1, <1>2, <1>6, <1>12, <2>1, <3>1, <3>3 DEF AC!Apply, AC!Perform, JobMoves
  <2>3. CASE ~ListExists(q.list)
    <3>1. Answer(s, 500) /\ OnlyControl
      BY <1>16, <2>3 DEF CommitCreateItem, ForeignKeyHolds
    <3>2. AC!Missing(c)
      BY <1>1, <1>3, <2>1, <2>3, SameEndpoints DEF AC!Missing, ListScoped, ItemWrites
    <3> QED
      BY <1>4, <1>7, <1>12, <2>1, <3>1, <3>2
  <2> QED
    BY <2>2, <2>3
<1>17. q.op \in {"update_item", "delete_item"} => item[q.item] \in {q.list, Deleted} /\ q.list \in ListIds
  BY <1>0 DEF DataInv, ItemsStay, WellFormed
<1>18. CASE CommitUpdateItem(s)
  <2>1. q.op = "update_item" /\ OnlyControl /\ Update(s, ItemExists(q.item))
    BY <1>18 DEF CommitUpdateItem
  <2>2. /\ ItemExists(q.item) => AC!Edit(c)
        /\ ~ItemExists(q.item) => AC!Missing(c)
    BY <1>1, <1>17, <2>1, RowStateAssumption DEF AC!Edit, AC!Missing, ItemExists
  <2> QED
    BY <1>8, <2>1, <2>2
<1>19. CASE CommitDeleteItem(s)
  <2>1. q.op = "delete_item"
    BY <1>19 DEF CommitDeleteItem
  <2>2. CASE ItemExists(q.item)
    <3>1. /\ Written(s, "done", 204) /\ UNCHANGED <<owner, shares>>
          /\ item' = [item EXCEPT ![q.item] = Deleted]
      BY <1>19, <2>2 DEF CommitDeleteItem
    <3>2. item[q.item] = q.list
      BY <1>17, <2>1, <2>2, RowStateAssumption DEF ItemExists
    <3> QED
      BY <1>1, <1>11, <1>12, <2>1, <3>1, <3>2 DEF AC!DeleteItem
  <2>3. CASE ~ItemExists(q.item)
    <3>1. Answer(s, 204) /\ OnlyControl
      BY <1>19, <2>3 DEF CommitDeleteItem
    <3>2. item[q.item] = Deleted
      BY <1>17, <2>1, <2>3 DEF ItemExists
    <3> QED
      BY <1>1, <1>4, <1>10, <1>12, <2>1, <3>1, <3>2 DEF AC!DeleteItem
  <2> QED
    BY <2>2, <2>3
<1>20. q.op \in {"create_share", "change_role", "revoke_share"} => q.target \in Users /\ q.list \in ListIds
  BY <1>0 DEF WellFormed
<1>21. CASE CommitCreateShare(s)
  <2>1. q.op = "create_share" /\ q.target \in Users
    BY <1>20, <1>21 DEF CommitCreateShare
  <2>2. CASE ~ListExists(q.list)
    <3>1. Answer(s, 404) /\ OnlyControl
      BY <1>21, <2>2 DEF CommitCreateShare, ForeignKeyHolds
    <3>2. AC!Missing(c)
      BY <1>1, <1>3, <2>1, <2>2, SameEndpoints DEF AC!Missing, ListScoped, ShareWrites
    <3> QED
      BY <1>4, <1>7, <1>12, <2>1, <3>1, <3>2
  <2>3. CASE ListExists(q.list) /\ ShareExists(q.list, q.target)
    <3>1. Answer(s, 409) /\ OnlyControl
      BY <1>21, <2>3 DEF CommitCreateShare, ForeignKeyHolds, PrimaryKeyHolds
    <3>2. AC!Reason(c, 409) /\ AC!Answer(s, 409)
      BY <1>0, <1>1, <1>3, <2>1, <2>3, <3>1, JobAnswers DEF AC!Reason
    <3> QED
      BY <1>2, <1>4, <1>12, <2>1, <3>1, <3>2 DEF AC!Fail, AC!Perform, JobMoves
  <2>4. CASE ListExists(q.list) /\ ~ShareExists(q.list, q.target)
    <3>1. /\ Written(s, "refresh", 0) /\ UNCHANGED <<owner, item>>
          /\ shares' = [shares EXCEPT ![q.list][q.target] = q.role]
      BY <1>21, <2>4 DEF CommitCreateShare, ForeignKeyHolds, PrimaryKeyHolds, SetShare
    <3>2. q.target # owner[q.list]
      <4>1. owner[q.list] = q.user
        BY <1>0, <2>1, <2>4, RowStateAssumption
           DEF DataInv, OwnersStay, OwnerOps, ShareWrites, ListExists
      <4> QED
        BY <1>0, <2>1, <4>1 DEF DataInv, NotWithSelf
    <3>3. AC!CreateShare(c)
      BY <1>1, <1>3, <2>1, <2>4, <3>1, <3>2 DEF AC!CreateShare, AC!SetShare
    <3> QED
      BY <1>1, <1>2, <1>6, <1>12, <2>1, <3>1, <3>3 DEF AC!Apply, AC!Perform, JobMoves
  <2> QED
    BY <2>2, <2>3, <2>4
<1>22. CASE CommitChangeRole(s)
  <2>1. /\ q.op = "change_role" /\ q.target \in Users
        /\ Update(s, ShareExists(q.list, q.target))
    BY <1>20, <1>22 DEF CommitChangeRole
  <2>2. CASE q.dirty /\ ShareExists(q.list, q.target)
    <3>1. /\ Written(s, "refresh", 0) /\ ~Satisfied(q) /\ UNCHANGED <<owner, item>>
          /\ shares' = [shares EXCEPT ![q.list][q.target] = q.role]
      BY <1>22, <2>1, <2>2 DEF CommitChangeRole, Update, SetShare, Satisfied
    <3>2. AC!ChangeRole(c)
      BY <1>1, <1>3, <2>1, <2>2, <3>1 DEF AC!ChangeRole, AC!SetShare
    <3> QED
      BY <1>1, <1>2, <1>6, <2>1, <3>1, <3>2 DEF AC!Apply, AC!Perform, JobMoves
  <2>3. CASE q.dirty /\ ~ShareExists(q.list, q.target)
    <3>1. Answer(s, 500) /\ OnlyControl /\ ~Satisfied(q)
      BY <1>22, <2>1, <2>3 DEF CommitChangeRole, Update, Satisfied
    <3>2. AC!Missing(c)
      BY <1>1, <1>3, <2>1, <2>3 DEF AC!Missing
    <3> QED
      BY <1>4, <1>7, <3>1, <3>2
  <2>4. CASE ~q.dirty
    <3>1. Goto(s, "refresh") /\ Satisfied(q) /\ OnlyControl
      BY <1>22, <2>1, <2>4 DEF CommitChangeRole, Update, Satisfied
    <3> QED
      BY <1>9, <3>1 DEF OnlyControl, JobMoves
  <2> QED
    BY <1>0, <2>2, <2>3, <2>4 DEF Request
<1>23. CASE CommitRevokeShare(s)
  <2>1. q.op = "revoke_share" /\ q.target \in Users /\ q.list \in ListIds
    BY <1>20, <1>23 DEF CommitRevokeShare
  <2>2. CASE ShareExists(q.list, q.target)
    <3>1. /\ Written(s, "done", 204) /\ UNCHANGED <<owner, item>>
          /\ shares' = [shares EXCEPT ![q.list][q.target] = NoShare]
      BY <1>23, <2>2 DEF CommitRevokeShare, SetShare
    <3> QED
      BY <1>1, <1>11, <1>12, <2>1, <3>1 DEF AC!SetShare
  <2>3. CASE ~ShareExists(q.list, q.target)
    <3>1. Answer(s, 204) /\ OnlyControl
      BY <1>23, <2>3 DEF CommitRevokeShare
    <3>2. shares' = [shares EXCEPT ![q.list][q.target] = NoShare]
      BY <1>5, <2>1, <2>3, <3>1 DEF OnlyControl, ShareExists
    <3> QED
      BY <1>1, <1>10, <1>12, <2>1, <3>1, <3>2 DEF AC!SetShare, OnlyControl
  <2> QED
    BY <2>2, <2>3
<1> QED
  BY <1>13, <1>14, <1>15, <1>16, <1>18, <1>19, <1>21, <1>22, <1>23 DEF Commit
\* The SELECT after a COMMIT finds the row, or finds that it was undone.
LEMMA RefreshJob ==
    ASSUME IInv, NEW s \in Slots, Refresh(s)
    PROVE  JobMoves(s)
<1> DEFINE q == req[s]
           c == jobs[s].call
<1>0. /\ TypeInv /\ req \in [Slots -> Request] /\ q \in Request /\ WellFormed(q)
      /\ q.pc = "refresh" /\ OnlyControl /\ AC!NoEffect
      /\ item \in [ItemIds -> ListIds \cup {Unborn, Deleted}]
  BY DEF IInv, TypeInv, TypeOK, RequestsWellFormed, Refresh, OnlyControl, AC!NoEffect
<1>1. /\ c.op = q.op /\ c.user = q.user /\ c.list = q.list
      /\ c.item = q.item /\ c.target = q.target /\ c.role = q.role
      /\ jobs[s].phase = "applied"
  BY <1>0, JobFields DEF Phase
<1>2. /\ q.op \in {"create_list", "rename_list", "create_item", "update_item",
                   "create_share", "change_role"}
      /\ q.op \in {"create_share", "change_role"} => q.target \in Users
  BY <1>0 DEF WellFormed, Writes, ListWrites, ItemWrites, ShareWrites
<1>3. /\ AC!ListExists(c.list) = ListExists(q.list)
      /\ q.target \in Users => AC!ShareExists(c.list, c.target) = ShareExists(q.list, q.target)
  BY <1>1 DEF AC!ListExists, ListExists, AC!ShareExists, ShareExists, AC!NoShare, NoShare
<1>4. AC!Undone(c) <=> ~RowToRefresh(q)
  BY <1>1, <1>2, <1>3 DEF AC!Undone, RowToRefresh, ItemExists
<1>5. CASE ~RowToRefresh(q)
  <2>1. Answer(s, 500)
    BY <1>5 DEF Refresh
  <2> QED
    BY <1>0, <1>1, <1>4, <1>5, <2>1, JobAnswers DEF AC!Confirm, AC!Perform, JobMoves
<1>6. CASE RowToRefresh(q) /\ q.op \in Created
  <2>1. Answer(s, 201)
    BY <1>6 DEF Refresh
  <2> QED
    BY <1>0, <1>1, <1>4, <1>6, <2>1, JobAnswers DEF AC!Confirm, AC!Perform, JobMoves, Created
<1>7. CASE RowToRefresh(q) /\ q.op \notin Created
  <2>1. Answer(s, 200)
    BY <1>7 DEF Refresh
  <2> QED
    BY <1>0, <1>1, <1>2, <1>4, <1>7, <2>1, JobAnswers
       DEF AC!Confirm, AC!Perform, JobMoves, Created
<1> QED
  BY <1>5, <1>6, <1>7

LEMMA ContinueJob ==
    ASSUME IInv, LateOwners, NEW s \in Slots, Continue(s)
    PROVE  JobMoves(s)
BY AuthorizeJob, LoadJob, CommitJob, RefreshJob DEF Continue

LEMMA BeginJob == ASSUME TypeInv, NEW s \in Slots, Begin(s) PROVE AC!Ask(s)
<1>1. PICK op \in AllOps, u \in Users :
           \E l \in ListArgs(op), i \in ItemArgs(op), t \in TargetArgs(op), r \in RoleArgs(op) :
              /\ req' = [req EXCEPT ![s] = Started(op, u, l, i, t, r)]
              /\ held' = [held EXCEPT ![s] = Pairs(Started(op, u, l, i, t, r), owner, shares)]
  BY BeginStarts
<1>2. PICK l \in ListArgs(op), i \in ItemArgs(op), t \in TargetArgs(op), r \in RoleArgs(op) :
              req' = [req EXCEPT ![s] = Started(op, u, l, i, t, r)]
  BY <1>1
<1> DEFINE q == Started(op, u, l, i, t, r)
<1>3. /\ q.op = op /\ q.user = u /\ q.list = l /\ q.item = i /\ q.target = t /\ q.role = r
      /\ q.pc = FirstAwait(op) /\ q.isOwner = FALSE /\ q.status = 0
  BY DEF Started, Idle
<1>4. q \in Request
  BY StartedRequest
<1>5. /\ l \in ListIds \cup {Nil} /\ i \in ItemIds \cup {Nil} /\ t \in Users \cup {Nil}
      /\ r \in ShareRoles
  BY <1>3, <1>4 DEF Request
<1>6. op \in ListScoped => l \in ListIds
  BY DEF ListArgs, ListScoped, ListReads, ListWrites, ItemWrites, ShareWrites
<1>7. Phase(q) = IF op \in ListScoped THEN "asked" ELSE "granted"
  <2>1. CASE op \in ListScoped
    <3>1. q.pc = "owner"
      BY <1>3, <2>1 DEF FirstAwait, ListScoped, ListReads, ListWrites, ItemWrites, ShareWrites
    <3> QED
      BY <2>1, <3>1 DEF Phase
  <2>2. CASE op \notin ListScoped
    <3>1. \/ q.pc = "commit" /\ op = "create_list"
          \/ q.pc = "owned"
      BY <1>3, <2>2 DEF FirstAwait, AllOps
    <3>2. op = "create_list" => ~Satisfied(q)
      BY <1>3 DEF Satisfied
    <3> QED
      BY <2>2, <3>1, <3>2 DEF Phase
  <2> QED
    BY <2>1, <2>2
<1>8. req[s].pc = "idle" /\ AC!NoEffect /\ req \in [Slots -> Request]
  BY DEF Begin, AC!NoEffect, TypeInv, TypeOK
<1>9. (\A x \in Slots \ {s} : req'[x] = req[x]) /\ req'[s] = q
  BY <1>2, <1>8
<1>10. jobs' = [jobs EXCEPT ![s] = Job(q)]
  BY <1>9, JobStep
<1>11. q.pc # "done"
  BY <1>3 DEF FirstAwait
<1>12. Call(q) = [op |-> op, user |-> u, list |-> l, item |-> i, target |-> t, role |-> r]
  BY <1>3 DEF Call
<1>13. Job(q) = [phase |-> IF op \in ListScoped THEN "asked" ELSE "granted",
                 call |-> [op |-> op, user |-> u, list |-> l, item |-> i, target |-> t, role |-> r],
                 status |-> 0]
  BY <1>7, <1>11, <1>12 DEF Job
<1>14. jobs[s].phase = "none"
  BY <1>8, JobFields DEF Phase
<1> DEFINE c == [op |-> op, user |-> u, list |-> l, item |-> i, target |-> t, role |-> r]
<1>15. /\ c \in AC!Calls /\ c.op = op /\ c.list = l
  BY <1>5, SameEndpoints DEF AC!Calls
<1>16. /\ jobs'[s].call = c
       /\ jobs' = [jobs EXCEPT ![s] =
              [phase |-> IF op \in ListScoped THEN "asked" ELSE "granted",
               call |-> c, status |-> 0]]
  BY <1>10, <1>13 DEF jobs
<1> HIDE DEF c
<1> QED
  BY <1>6, <1>8, <1>14, <1>15, <1>16, SameEndpoints DEF AC!Ask

LEMMA IdleJob == Job(Idle) = AC!NoJob
BY DEF Job, Call, Phase, Idle, AC!NoJob, AC!NoCall

LEMMA ReceiveJob == ASSUME TypeInv, NEW s \in Slots, Receive(s) PROVE AC!Leave(s)
<1>1. /\ req \in [Slots -> Request] /\ req[s].pc = "done" /\ AC!NoEffect
      /\ req' = [req EXCEPT ![s] = Idle]
  BY DEF Receive, AC!NoEffect, TypeInv, TypeOK
<1>2. jobs[s].phase = "answered"
  BY <1>1, JobFields DEF Phase
<1>3. jobs' = [jobs EXCEPT ![s] = Job(req'[s])] /\ req'[s] = Idle
  BY <1>1, JobStep
<1> QED
  BY <1>1, <1>2, <1>3, IdleJob DEF AC!Leave

-----------------------------------------------------------------------------
(* The judging ahead of a request, and the history it may rest on. *)

\* What a step adds to the history of a request is what is then true of it.
LEMMA HistoryStep ==
    ASSUME TypeInv, HistoryInv, HistoryInv', NEW s \in Slots, Continue(s),
           NEW t \in Slots, InFlight(req[t]), InFlight(req'[t])
    PROVE  held'[t] = held[t] \cup Pairs(req'[t], owner', shares')
<1>1. Moves(s) /\ (OnlyControl \/ Commit(s)) /\ held[t] \subseteq held'[t]
  BY ContinueMoves, HeldGrows
<1>2. Pairs(req'[t], owner', shares') \subseteq held'[t]
  BY DEF HistoryInv, HistoryIsCurrent
<1>3. req'[t].op = req[t].op /\ req'[t].user = req[t].user /\ req'[t].list = req[t].list
  BY <1>1 DEF Moves
<1>4. Pairs(req'[t], owner', shares') = Pairs(req[t], owner', shares')
  BY <1>3 DEF Pairs, Scope
<1>5. held'[t] \subseteq held[t] \cup Pairs(req[t], owner', shares')
  <2>1. CASE OnlyControl \/ UNCHANGED <<owner, shares, held>>
    BY <2>1 DEF OnlyControl
  <2>2. CASE Commit(s) /\ Observe(owner', shares')
    BY <2>2 DEF Observe
  <2> QED
    BY <1>1, <2>1, <2>2, CommitObserves
<1> QED
  BY <1>1, <1>2, <1>4, <1>5

\* A request is in doubt when its history holds a role that does not suffice.
LEMMA InDoubt ==
    ASSUME NEW s \in Slots
    PROVE  s \in doubted <=> /\ jobs[s].phase = "asked"
                             /\ \E p \in held[s] : ~CanPerform(p[2], PermissionOf[req[s].op])
BY DEF doubted, AlwaysAllowed

LEMMA AskedIsScoped ==
    ASSUME TypeInv, NEW s \in Slots, jobs[s].phase = "asked"
    PROVE  /\ InFlight(req[s]) /\ req[s].op \in ListScoped /\ req[s].op # "list_lists"
           /\ \A own, shr : Pairs(req[s], own, shr) =
                 {<<req[s].list, RoleIn(own, shr, req[s].user, req[s].list)>>}
<1>1. req[s].pc \in {"owner", "share"}
  <2>1. Phase(req[s]) = "asked"
    BY JobFields
  <2> QED
    BY <2>1 DEF Phase
<1>2. req[s].op \in ListScoped /\ req[s].op # "list_lists"
  BY <1>1 DEF TypeInv, RequestsWellFormed, WellFormed, ListScoped, ListReads, ListWrites,
     ItemWrites, ShareWrites
<1> QED
  BY <1>1, <1>2 DEF InFlight, Awaits, Pairs, Scope

LEMMA DoubtStep ==
    ASSUME TypeInv, HistoryInv, TypeInv', HistoryInv', NEW s \in Slots, Continue(s)
    PROVE  AC!Doubting
<1>1. ASSUME NEW t \in Slots, jobs'[t].phase = "asked"
      PROVE  t \in doubted' <=> t \in doubted \/ ~AC!MayDo(jobs[t].call)'
  <2> DEFINE q == req[t]
             q2 == req'[t]
             role == RoleIn(owner', shares', q2.user, q2.list)
  <2>1. Moves(s)
    BY ContinueMoves
  <2>2. q2.op = q.op /\ q2.user = q.user /\ q2.list = q.list
    BY <2>1 DEF Moves
  <2>3. q2.pc \in {"owner", "share"} /\ (q2.pc = "share" => ~q2.isOwner)
    <3>1. Phase(q2) = "asked"
      BY <1>1 DEF jobs, Job, Phase, Satisfied
    <3> QED
      BY <3>1 DEF Phase
  <2>4. jobs[t].phase = "asked"
    <3>1. CASE t = s
      <4>1. q.pc = "owner"
        BY <2>1, <2>3, <3>1 DEF Moves
      <4> QED
        BY <4>1, JobFields DEF Phase
    <3>2. CASE t # s
      <4>1. q2 = q
        BY <2>1, <3>2 DEF Moves
      <4> QED
        BY <2>3, <4>1, JobFields DEF Phase
    <3> QED
      BY <3>1, <3>2
  <2>5. InFlight(q) /\ InFlight(q2) /\ q.op # "list_lists"
    BY <2>3, <2>4, AskedIsScoped DEF InFlight, Awaits
  <2>6. held'[t] = held[t] \cup {<<q.list, role>>}
    <3>1. Pairs(q2, owner', shares') = {<<q.list, role>>}
      BY <2>2, <2>5 DEF Pairs, Scope
    <3> QED
      BY <2>5, <3>1, HistoryStep
  <2>7. AC!MayDo(jobs[t].call)' <=> CanPerform(role, PermissionOf[q.op])
    BY <2>2, JobMayDoNext
  <2>8. t \in doubted' <=> \E p \in held'[t] : ~CanPerform(p[2], PermissionOf[q.op])
    BY <1>1, <2>2 DEF doubted, AlwaysAllowed
  <2> HIDE DEF role
  <2>9. <<q.list, role>>[2] = role
    OBVIOUS
  <2> QED
    BY <2>4, <2>6, <2>7, <2>8, <2>9, InDoubt
<1>2. \A t \in doubted' : t \in Slots /\ jobs'[t].phase = "asked"
  BY DEF doubted
<1>3. \A t \in Slots : jobs'[t].phase = "asked" => (t \in doubted' <=> t \in doubted \/ ~AC!MayDo(jobs[t].call)')
  BY <1>1
<1> QED
  BY <1>2, <1>3 DEF AC!Doubting
\* Whoever may not do it now is in doubt already.
LEMMA DoubtIsCurrent ==
    ASSUME TypeInv, HistoryInv, NEW s \in Slots, jobs[s].phase = "asked",
           ~CanPerform(RoleIn(owner, shares, req[s].user, req[s].list), PermissionOf[req[s].op])
    PROVE  s \in doubted
<1> DEFINE role == RoleIn(owner, shares, req[s].user, req[s].list)
<1>1. <<req[s].list, role>> \in held[s]
  BY AskedIsScoped DEF HistoryInv, HistoryIsCurrent
<1> HIDE DEF role
<1>2. <<req[s].list, role>>[2] = role /\ ~CanPerform(role, PermissionOf[req[s].op])
  BY DEF role
<1> QED
  BY <1>1, <1>2, InDoubt

LEMMA QuietDoubt ==
    ASSUME TypeInv, HistoryInv, UNCHANGED <<owner, shares>>,
           NEW t \in Slots, req'[t] = req[t], held'[t] = held[t], jobs'[t].phase = "asked"
    PROVE  t \in doubted' <=> t \in doubted \/ ~AC!MayDo(jobs[t].call)'
<1>1. jobs[t].phase = "asked"
  BY DEF jobs, Job, Phase, Satisfied
<1>2. t \in doubted' <=> t \in doubted
  BY <1>1 DEF doubted, AlwaysAllowed
<1>3. AC!MayDo(jobs[t].call)' <=>
         CanPerform(RoleIn(owner, shares, req[t].user, req[t].list), PermissionOf[req[t].op])
  BY JobMayDoNext
<1> QED
  BY <1>1, <1>2, <1>3, DoubtIsCurrent

LEMMA ReceiveDoubt ==
    ASSUME TypeInv, HistoryInv, NEW s \in Slots, Receive(s) PROVE AC!Doubting
<1>1. /\ UNCHANGED <<owner, shares>> /\ req'[s] = Idle
      /\ \A t \in Slots \ {s} : req'[t] = req[t] /\ held'[t] = held[t]
  BY DEF Receive, TypeInv, TypeOK
<1>2. jobs'[s].phase = "none"
  BY <1>1 DEF jobs, Job, Phase, Idle
<1>3. \A t \in Slots : jobs'[t].phase = "asked" =>
         (t \in doubted' <=> t \in doubted \/ ~AC!MayDo(jobs[t].call)')
  BY <1>1, <1>2, QuietDoubt
<1>4. \A t \in doubted' : t \in Slots /\ jobs'[t].phase = "asked"
  BY DEF doubted
<1> QED
  BY <1>3, <1>4 DEF AC!Doubting

LEMMA BeginDoubt ==
    ASSUME TypeInv, HistoryInv, NEW s \in Slots, Begin(s) PROVE AC!Doubting
<1>1. PICK op \in AllOps, u \in Users :
           \E l \in ListArgs(op), i \in ItemArgs(op), t \in TargetArgs(op), r \in RoleArgs(op) :
              /\ req' = [req EXCEPT ![s] = Started(op, u, l, i, t, r)]
              /\ held' = [held EXCEPT ![s] = Pairs(Started(op, u, l, i, t, r), owner, shares)]
  BY BeginStarts
<1>2. PICK l \in ListArgs(op), i \in ItemArgs(op), t \in TargetArgs(op), r \in RoleArgs(op) :
              /\ req' = [req EXCEPT ![s] = Started(op, u, l, i, t, r)]
              /\ held' = [held EXCEPT ![s] = Pairs(Started(op, u, l, i, t, r), owner, shares)]
  BY <1>1
<1> DEFINE q == Started(op, u, l, i, t, r)
<1>3. /\ UNCHANGED <<owner, shares>> /\ req[s].pc = "idle"
      /\ req'[s] = q /\ held'[s] = Pairs(q, owner, shares)
      /\ \A x \in Slots \ {s} : req'[x] = req[x] /\ held'[x] = held[x]
  BY <1>2 DEF Begin, TypeInv, TypeOK
<1>4. q.op = op /\ q.user = u /\ q.list = l /\ q.pc = FirstAwait(op)
  BY DEF Started, Idle
<1>5. s \notin doubted
  BY <1>3, JobFields DEF Phase, doubted
<1>6. ASSUME jobs'[s].phase = "asked"
      PROVE  s \in doubted' <=> ~AC!MayDo(jobs[s].call)'
  <2> DEFINE role == RoleIn(owner, shares, u, l)
  <2>1. Phase(q) = "asked"
    BY <1>3, <1>6 DEF jobs, Job, Phase, Satisfied
  <2>2. op # "list_lists"
    BY <1>4, <2>1 DEF Phase, FirstAwait
  <2>3. held'[s] = {<<l, role>>}
    BY <1>3, <1>4, <2>2 DEF Pairs, Scope
  <2>4. AC!MayDo(jobs[s].call)' <=> CanPerform(role, PermissionOf[op])
    BY <1>3, <1>4, JobMayDoNext
  <2>5. s \in doubted' <=> \E p \in held'[s] : ~CanPerform(p[2], PermissionOf[op])
    BY <1>3, <1>4, <1>6 DEF doubted, AlwaysAllowed
  <2> HIDE DEF role
  <2>6. <<l, role>>[2] = role
    OBVIOUS
  <2> QED
    BY <2>3, <2>4, <2>5, <2>6
<1>7. \A x \in Slots : jobs'[x].phase = "asked" =>
         (x \in doubted' <=> x \in doubted \/ ~AC!MayDo(jobs[x].call)')
  BY <1>3, <1>5, <1>6, QuietDoubt
<1>8. \A x \in doubted' : x \in Slots /\ jobs'[x].phase = "asked"
  BY DEF doubted
<1> QED
  BY <1>7, <1>8 DEF AC!Doubting

\* A step that moves no job and no table leaves the doubts as they are.
LEMMA StutterDoubt ==
    ASSUME TypeInv, HistoryInv, TypeInv', HistoryInv', NEW s \in Slots, Continue(s),
           UNCHANGED <<owner, shares, item, jobs>>
    PROVE  doubted' = doubted
<1>1. AC!Doubting
  BY DoubtStep
<1>2. ASSUME NEW t \in Slots, jobs[t].phase = "asked", ~AC!MayDo(jobs[t].call)'
      PROVE  t \in doubted
  <2>1. req'[t].user = req[t].user /\ req'[t].list = req[t].list /\ req'[t].op = req[t].op
    BY ContinueMoves DEF Moves
  <2> QED
    BY <1>2, <2>1, JobMayDoNext, DoubtIsCurrent
<1> QED
  BY <1>1, <1>2 DEF AC!Doubting, doubted

LEMMA StepRefines ==
    IInv /\ IInv' /\ LateOwners /\ [Next]_vars => [AC!Next]_(AC!vars)
<1> SUFFICES ASSUME IInv, IInv', LateOwners, [Next]_vars PROVE [AC!Next]_(AC!vars)
  OBVIOUS
<1>0. TypeInv /\ DataInv /\ HistoryInv /\ TypeInv' /\ HistoryInv'
  BY DEF IInv
<1>1. CASE UNCHANGED vars
  BY <1>1 DEF vars, AC!vars, jobs, Job, Call, Phase, Satisfied, doubted, AlwaysAllowed
<1>2. ASSUME NEW s \in Slots, Begin(s) PROVE [AC!Next]_(AC!vars)
  BY <1>0, <1>2, BeginJob, BeginDoubt DEF AC!Next
<1>3. ASSUME NEW s \in Slots, Receive(s) PROVE [AC!Next]_(AC!vars)
  BY <1>0, <1>3, ReceiveJob, ReceiveDoubt DEF AC!Next
<1>4. ASSUME NEW s \in Slots, Continue(s) PROVE [AC!Next]_(AC!vars)
  <2>1. AC!Doubting /\ JobMoves(s)
    BY <1>0, <1>4, DoubtStep, ContinueJob
  <2>2. CASE UNCHANGED <<owner, shares, item, jobs>>
    BY <1>0, <1>4, <2>2, StutterDoubt DEF AC!vars
  <2> QED
    BY <2>1, <2>2 DEF JobMoves, AC!Next, AC!Judge
<1> QED
  BY <1>1, <1>2, <1>3, <1>4 DEF Next

LEMMA InitRefines == Init => AC!Init
<1> SUFFICES ASSUME Init PROVE AC!Init
  OBVIOUS
<1>1. jobs = [s \in Slots |-> AC!NoJob]
  BY IdleJob DEF Init, jobs
<1>2. doubted = {}
  BY <1>1 DEF doubted, AC!NoJob
<1> QED
  BY <1>1, <1>2, SameEndpoints DEF Init, AC!Init

\* However many requests are in flight and however their awaits interleave, the
\* endpoints judge each of them at one instant, by the role its user then has,
\* let it take effect at one instant, and answer what became of it
\* (app/authz/dependencies.py:57-91 and the handlers of the three routers).
THEOREM Implementation == Spec => ImplementsAccessControl
<1>1. TypeInv /\ DataInv /\ HistoryInv => IInv
  BY DEF IInv
<1> QED
  BY <1>1, InitRefines, StepRefines, LateOwnersHold, DataInvariant, HistoryInvariant, PTL
     DEF Spec, ImplementsAccessControl, AC!Spec
=============================================================================
