----------------------------- MODULE MCCookies -----------------------------
(* Cookies for TLC.  Tokens and slots are only compared.                   *)
EXTENDS Cookies, TLC

Symmetry == Permutations(Tokens) \cup Permutations(Slots)
=============================================================================
