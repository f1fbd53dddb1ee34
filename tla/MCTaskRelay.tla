---------------------------- MODULE MCTaskRelay ----------------------------
(* Instances of TaskRelay for TLC. *)
EXTENDS TaskRelay, TLC

\* Requests are interchangeable; no liveness property is checked with it.
RequestSymmetry == Permutations(Requests)
=============================================================================
