---------------------------- MODULE MCAccounts ----------------------------
(* Accounts for TLC.  Slots, passwords and the tokens are only compared for *)
(* equality.                                                                *)
EXTENDS AccountsInv, TLC

Symmetry == Permutations(Slots) \cup Permutations(Passwords)
            \cup Permutations(SessionIds) \cup Permutations(TokenIds) \cup Permutations(Users)
=============================================================================
