------------------------ MODULE MCPolicyEnforcement ------------------------
(* Instances of PolicyEnforcement for TLC. *)
EXTENDS PolicyEnforcement, TLC

CONSTANTS cleared, open, unknown, a1, a2, p1, p2, p3, e1, e2

\* Version 1 allows a cleared settlement, version 2 nothing, version 3 again.
MCPermits == [v \in 1..MaxVersion |-> IF v = 2 THEN {} ELSE {cleared}]

Symmetry == Permutations(Passes) \cup Permutations(Edits) \cup Permutations(Actions)
=============================================================================
