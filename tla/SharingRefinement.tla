-------------------------- MODULE SharingRefinement --------------------------
(***************************************************************************)
(* Sharing implements AccessControl: where in the course of a request its  *)
(* job is judged, applied and answered.                                    *)
(***************************************************************************)
EXTENDS SharingInv

\* The unit of work found nothing to UPDATE: what was asked for is so already.
Satisfied(q) == q.op \in {"rename_list", "update_item", "change_role"} /\ ~q.dirty

\* An owner is judged by the first SELECT, everybody else by the second.
Phase(q) ==
    CASE q.pc = "idle"                                  -> "none"
      [] q.pc = "done"                                  -> "answered"
      [] q.pc = "owner" \/ (q.pc = "share" /\ ~q.isOwner) -> "asked"
      [] q.pc = "refresh" \/ (q.pc = "commit" /\ Satisfied(q)) -> "applied"
      [] OTHER                                          -> "granted"

Call(q) == [op |-> q.op, user |-> q.user, list |-> q.list, item |-> q.item,
            target |-> q.target, role |-> q.role]
Job(q) == [phase |-> Phase(q), call |-> Call(q),
           status |-> IF q.pc = "done" THEN q.status ELSE 0]

jobs == [s \in Slots |-> Job(req[s])]

\* The judging still ahead may find what was so at some earlier moment only.
doubted == {s \in Slots : jobs[s].phase = "asked" /\ ~AlwaysAllowed(s)}

AC == INSTANCE AccessControl WITH job <- jobs, doubt <- doubted

\* Every behaviour of the requests, however their awaits interleave, is one in
\* which each of them is judged at one instant and takes effect at one instant,
\* with an answer that tells what became of it.
ImplementsAccessControl == AC!Spec

\* And each of them is answered.
ImplementsFairAccessControl == AC!FairSpec
=============================================================================
