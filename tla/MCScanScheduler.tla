-------------------------- MODULE MCScanScheduler ---------------------------
(* Small instances of ScanScheduler. *)
EXTENDS ScanScheduler, TLC

\* Instances and sources that have done nothing yet are interchangeable.
Symmetry == Permutations(Instances) \cup Permutations(Sources)

=============================================================================
