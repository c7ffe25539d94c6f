---------------------------- MODULE MCDispatcher ----------------------------
(* Instances of Dispatcher for TLC. *)
EXTENDS Dispatcher, TLC

DispatcherSymmetry ==
    Permutations(Apps) \cup Permutations(Pipes) \cup Permutations(Runs) \cup Permutations(Dests)
    \cup Permutations(Locks) \cup Permutations(Files)
=============================================================================
