------------------------------ MODULE MCMerkle ------------------------------
(***************************************************************************)
(* Every batch of up to MaxLen leaves over a few leaf values, with repeats: *)
(* one to three levels, every pattern of odd tails, every position.         *)
(***************************************************************************)
EXTENDS MerkleFold, TLC

CONSTANT MaxLen

Symmetry == Permutations(Leaf)

MCLeafLists == UNION {[1..n -> Leaf] : n \in 1..MaxLen}
=============================================================================
