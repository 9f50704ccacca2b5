----------------------------- MODULE MCToggleTree -----------------------------
(* Instances of ToggleTree for TLC.                                          *)
EXTENDS ToggleTree, TLC

(* One branch of two or three levels.                                        *)
Branch2 == {<<"a">>, <<"a", "b">>}
Branch3 == {<<"a">>, <<"a", "b">>, <<"a", "b", "c">>}

(* Identifiers and handlers are interchangeable: every property quantifies   *)
(* over all of them, and nothing orders them.                                *)
TreeSymmetry == Permutations(Nodes) \cup Permutations(Handlers)
=============================================================================
