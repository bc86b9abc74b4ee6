-------------------------- MODULE MCResponseAction --------------------------
(* Instances of ResponseAction for TLC. *)
EXTENDS ResponseAction, TLC

CONSTANTS p, a, b, treasury, compliance, q1, q2, q3, q4

\* a evidences both governance roles, b one, the proposer the other: no single
\* member but a could sign for the whole policy, and a may sign only once.
MCHoldsRole == [u \in Users |->
    CASE u = a -> PolicyRoles
      [] u = b -> PolicyRoles \cap {compliance}
      [] OTHER -> PolicyRoles \cap {treasury}]

RequestSymmetry == Permutations(Requests)
=============================================================================
