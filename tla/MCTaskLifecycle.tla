-------------------------- MODULE MCTaskLifecycle --------------------------
(* Instances of TaskLifecycle for TLC. *)
EXTENDS TaskLifecycle, TLC

\* Cancel requests are interchangeable (safety runs only).
CancelerSymmetry == Permutations(Cancelers)
=============================================================================
