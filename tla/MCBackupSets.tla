---------------------------- MODULE MCBackupSets ----------------------------
(* Small instances of BackupSets. *)
EXTENDS BackupSets, TLC

\* Runs of a kind are interchangeable.
Symmetry == Permutations(Logical) \cup Permutations(Physical)

=============================================================================
