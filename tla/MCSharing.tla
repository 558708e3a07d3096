----------------------------- MODULE MCSharing -----------------------------
(* Sharing for TLC.  Users, slots and lists are only compared for equality,  *)
(* and the ids of the instances are model values of their configurations.    *)
EXTENDS SharingRefinement, TLC

Symmetry == Permutations(Users) \cup Permutations(Slots) \cup Permutations(ListIds)

\* Once every list has been made, only the endpoints that can confuse two lists
\* are called, and those that make and delete them.
FewCalls ==
    (\A l \in ListIds : owner[l] # Unborn) =>
        \A s \in Slots : InFlight(req[s]) =>
            req[s].op \in {"create_list", "delete_list",
                          "create_item", "update_item", "delete_item"}
=============================================================================
