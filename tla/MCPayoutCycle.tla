---------------------------- MODULE MCPayoutCycle ----------------------------
(* Instances of PayoutCycle for TLC. *)
EXTENDS PayoutCycle, TLC

CONSTANTS seller, small, large

\* One sale below the minimum of two, one that reaches it.
MCOwner  == [s \in Sales |-> seller]
MCAmount == small :> 1 @@ large :> 2
MCTotal  == [S \in SUBSET Sales |-> SumFunctionOnSet(MCAmount, S)]

Symmetry == Permutations(Instances) \cup Permutations(Hooks) \cup Permutations(Groups)
=============================================================================
