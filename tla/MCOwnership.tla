------------------------------ MODULE MCOwnership ------------------------------
EXTENDS Ownership

(* Teams, applications, users and names are interchangeable.                *)
Symmetry == Permutations(Teams) \cup Permutations(Apps) \cup Permutations(Names)
=============================================================================
