------------------------------ MODULE MCRefund ------------------------------
(* Instances of Refund for TLC. *)
EXTENDS Refund, TLC

Symmetry == Permutations(Calls) \cup Permutations(Purchases)
=============================================================================
