----------------------------- MODULE SharingInv -----------------------------
(***************************************************************************)
(* The inductive invariant behind the properties of Sharing: what is true  *)
(* of a request at each await, and what ties it to the tables.  TLC checks *)
(* its parts (MCSharing), Sharing_proofs proves them.                      *)
(***************************************************************************)
EXTENDS Sharing, Naturals

OwnerOps == ListWrites \cup ShareWrites \cup {"list_shares"}

\* An endpoint reaches only its own awaits, with the arguments it takes.
WellFormed(q) ==
    /\ q.pc \in {"owner", "share", "load"} => q.op \in ListScoped
    /\ q.pc = "duplicate" => q.op = "create_share"
    /\ q.pc \in {"owned", "shared"} => q.op = "list_lists"
    /\ q.pc \in {"commit", "refresh"} => q.op \in Writes
    /\ q.pc = "refresh" => q.op \notin {"delete_list", "delete_item", "revoke_share"}
    /\ q.pc # "idle" => q.user \in Users
    /\ q.pc # "idle" /\ q.op # "list_lists" => q.list \in ListIds
    /\ q.pc # "idle" /\ q.op \in ItemWrites => q.item \in ItemIds
    /\ q.pc # "idle" /\ q.op \in {"change_role", "revoke_share"} => q.target \in Users
    /\ q.pc \in {"duplicate", "commit", "refresh"} /\ q.op = "create_share"
          => q.target \in Users
    /\ q.pc \in {"owner", "share", "load", "duplicate", "commit", "owned", "shared"}
          => ~q.wrote

RequestsWellFormed == \A s \in Slots : WellFormed(req[s])

\* An id that a creating request has drawn is its own until the COMMIT.
FreshIds ==
    /\ \A s \in Slots : req[s].op = "create_list" /\ req[s].pc = "commit" =>
          /\ owner[req[s].list] = Unborn
          /\ \A t \in Slots \ {s} :
                ~(req[t].op = "create_list" /\ req[t].pc = "commit" /\ req[t].list = req[s].list)
    /\ \A s \in Slots : req[s].op = "create_item" /\ InFlight(req[s]) /\ req[s].pc # "refresh" =>
          /\ item[req[s].item] = Unborn
          /\ \A t \in Slots \ {s} :
                ~ /\ req[t].op = "create_item" /\ req[t].item = req[s].item
                  /\ InFlight(req[t]) /\ req[t].pc # "refresh"

\* A caller found to be the owner stays it until the list is deleted, and so
\* does everyone who passed the authorization of an owner's endpoint.
OwnersStay ==
    \A s \in Slots :
       \/ req[s].pc = "share" /\ req[s].isOwner
       \/ req[s].pc \in {"load", "duplicate", "commit"} /\ req[s].op \in OwnerOps
       => owner[req[s].list] \in {req[s].user, Deleted}

\* A create_share past its first test is not for its caller.
NotWithSelf ==
    \A s \in Slots : req[s].op = "create_share" /\ req[s].pc \in {"load", "duplicate", "commit"}
        => req[s].target # req[s].user

\* A loaded item is where it was found, or deleted.
ItemsStay ==
    \A s \in Slots : req[s].op \in {"update_item", "delete_item"} /\ req[s].pc = "commit"
        => item[req[s].item] \in {req[s].list, Deleted}

\* The history of a request in flight holds the present.
HistoryIsCurrent ==
    \A s \in Slots : InFlight(req[s]) => Pairs(req[s], owner, shares) \subseteq held[s]

\* What a request found of its user was so at some moment since it began; and
\* only those who were allowed get past the authorization, or any answer but 404.
GrantsWereTrue ==
    \A s \in Slots : req[s].op \in ListScoped =>
       /\ req[s].pc = "share" /\ req[s].isOwner => <<req[s].list, "owner">> \in held[s]
       /\ req[s].pc \in {"load", "duplicate", "commit", "refresh"} => EverAllowed(s)
       /\ req[s].wrote => EverAllowed(s)
       /\ req[s].pc = "done" /\ req[s].status # 404 => EverAllowed(s)

\* One who was not the owner when the owner was looked up, and is by now, has
\* created the list meanwhile: until then it was nobody's, and shared with nobody.
LateOwners ==
    \A s \in Slots :
        req[s].pc = "share" /\ ~req[s].isOwner /\ owner[req[s].list] = req[s].user
            => <<req[s].list, NoRole>> \in held[s]

\* Between its two SELECTs list_lists has found the lists its user owned, and only
\* those; one that is the user's by now was made meanwhile.
ListingsAreTrue ==
    \A s \in Slots : req[s].op = "list_lists" /\ req[s].pc = "shared" =>
       /\ \A l \in req[s].found : <<l, "owner">> \in held[s]
       /\ \A l \in ListIds : owner[l] = req[s].user =>
             l \in req[s].found \/ <<l, NoRole>> \in held[s]

DataInv == FreshIds /\ OwnersStay /\ NotWithSelf /\ ItemsStay /\ NoOrphans /\ NoOwnerShare
HistoryInv == HistoryIsCurrent /\ GrantsWereTrue

TypeInv == TypeOK /\ RequestsWellFormed

\* What Sharing_proofs shows to be inductive: the awaits each endpoint reaches,
\* the ids and owners that requests in flight rely on although other requests
\* commit meanwhile, the foreign keys, and the truth of every grant.
IInv == TypeInv /\ DataInv /\ HistoryInv

----------------------------------------------------------------------------
(* What the liveness of requests rests on, besides fairness. *)

\* How many awaits, at most, lie before the answer.
StepsLeft(q) ==
    CASE q.pc = "owner"                -> 6
      [] q.pc = "share"                -> 5
      [] q.pc = "load"                 -> 4
      [] q.pc = "duplicate"            -> 3
      [] q.pc \in {"owned", "commit"}   -> 2
      [] q.pc \in {"shared", "refresh"} -> 1
      [] OTHER                         -> 0

\* A request in flight is moved only nearer to its answer: what was authorized is
\* not authorized again, and what was committed is not tried again.
RequestsAdvance ==
    [][\A s \in Slots : InFlight(req[s]) /\ req'[s] # req[s]
          => StepsLeft(req'[s]) < StepsLeft(req[s])]_vars
=============================================================================
