------------------------------ MODULE MCApprovals ------------------------------
(* Instances of Approvals for TLC.                                           *)
EXTENDS Approvals, TLC

(* Handlers, keys and requests are interchangeable: every property           *)
(* quantifies over all of them and none is liveness.                         *)
HandlerSymmetry == Permutations(Handlers)
RecordSymmetry == Permutations(Keys) \cup Permutations(Reqs)
=============================================================================
