----------------------------- MODULE MCApprovalGate -----------------------------
EXTENDS ApprovalGate, TLC

(* Requests are interchangeable.                                            *)
Symmetry == Permutations(Requests)

(* getActionType agrees with the API documentation on every route and body, *)
(* not only on those of this instance's action types.                       *)
ASSUME RoutesClassified ==
    \A route \in Routes, body \in Bodies :
        getActionType(route, body) = Documented(route, body)
=============================================================================
