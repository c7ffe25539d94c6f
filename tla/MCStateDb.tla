------------------------------ MODULE MCStateDb ------------------------------
(* Instances of StateDb for TLC. *)
EXTENDS StateDb, TLC

FileSymmetry == Permutations(Files)
=============================================================================
