---------------------------- MODULE MCKeyspace ----------------------------
(***************************************************************************)
(* The keyspace for TLC.                                                   *)
(***************************************************************************)
EXTENDS Keyspace, TLC

KeySymmetry == Permutations(Keys)
===========================================================================
