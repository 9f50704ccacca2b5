------------------------------- MODULE MCAccounts -------------------------------
EXTENDS Accounts, TLC

(* Sessions, and the users other than root, are interchangeable.            *)
Symmetry == Permutations(Sessions) \cup Permutations(Users \ {Root})
=============================================================================
