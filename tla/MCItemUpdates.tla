--------------------------- MODULE MCItemUpdates ---------------------------
(* ItemUpdates for TLC.  Texts and slots are only compared.                *)
EXTENDS ItemUpdates, TLC

Symmetry == Permutations(Contents) \cup Permutations(Slots)
=============================================================================
