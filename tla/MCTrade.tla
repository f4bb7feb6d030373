------------------------------- MODULE MCTrade -------------------------------
(* Three players, a bag and two stacks of one kind on three tiles.         *)
EXTENDS Trade, TLC

PlayerSymmetry == Permutations(Players)
StackSymmetry == Permutations(Stackable)
Symmetry == PlayerSymmetry \cup StackSymmetry
=============================================================================
