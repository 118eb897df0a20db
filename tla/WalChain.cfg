\* The first segment was archived long ago, the second is copied slowly; both may
\* be closed before they are full.
SPECIFICATION Spec
CONSTANTS
  LastSegment = 2
  Before = 1
  Torn = {2}
  Short = {1, 2}
  Base = 1
  Targets = {2, 3, 5}
  MaxDoubt = 2
INVARIANTS
  RecycledOnlyIfStored
  OffHostSealed
PROPERTIES
  RecoveryReaches
  NeverOverwritten
