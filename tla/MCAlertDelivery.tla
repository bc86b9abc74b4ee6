-------------------------- MODULE MCAlertDelivery --------------------------
(* Instances of AlertDelivery for TLC. *)
EXTENDS AlertDelivery, TLC

CONSTANTS e1, e2, w1, w2

Symmetry == Permutations(Events) \cup Permutations(Workers)
=============================================================================
