-------------------------- MODULE MCScanLifecycle ---------------------------
(* Small instances of ScanLifecycle. *)
EXTENDS ScanLifecycle, TLC

\* The instance keeps the two settings in the relation the properties need.
ASSUME SettingsAreSafe == TimingAssumption

\* Scans that have not started are interchangeable.
ScanSymmetry == Permutations(Scans)

=============================================================================
