------------------------------ MODULE MCOAuth ------------------------------
(* OAuth for TLC.  Everything that it has sets of is only compared. *)
EXTENDS OAuth, TLC

Symmetry == Permutations(Browsers) \cup Permutations(Nonces) \cup Permutations(Subs)
            \cup Permutations(Passwords) \cup Permutations(Mails) \cup Permutations(Slots)
=============================================================================
