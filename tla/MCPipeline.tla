----------------------------- MODULE MCPipeline -----------------------------
(* Instances of Pipeline for TLC. *)
EXTENDS Pipeline, TLC

(* Files of one kind are interchangeable. *)
KindSymmetry == Permutations(ZipFiles) \cup Permutations(Files \ ZipFiles)
=============================================================================
