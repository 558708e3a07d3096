--------------------------- MODULE MCRateLimiter ---------------------------
(* RateLimiter for TLC.  Entries and slots are only compared for equality.  *)
EXTENDS RateLimiter, TLC

Symmetry == Permutations(Slots) \cup Permutations(Entries)
=============================================================================
