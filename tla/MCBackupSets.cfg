\* Two runs that make logical sets and one that makes a physical one.
SPECIFICATION Spec
CONSTANTS
  Runs = {log1, log2, phys1}
  Physical = {phys1}
  Nobody = nobody
SYMMETRY Symmetry
INVARIANTS
  OneBackupAtATime
  ManifestIsLast
  BackupRemains
PROPERTIES
  BookSpec
CHECK_DEADLOCK FALSE
