---------------------------- MODULE MCBinaryHeap ----------------------------
(***************************************************************************)
(* The binary heap for TLC.                                                *)
(***************************************************************************)
EXTENDS BinaryHeap, TLC

IdSymmetry == Permutations(Ids)
=============================================================================
