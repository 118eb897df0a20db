\* Two instances and one source; a tick lasts up to a third of an interval.
SPECIFICATION Spec
CONSTANTS
  Instances = {inst1, inst2}
  Sources = {src1}
  Intervals = {3}
  Batch = 1
  Period = 1
  MaxLag = 1
  MaxLate = 2
  MaxSince = 4
  MaxFaults = 1
  MaxCrashes = 1
SYMMETRY Symmetry
INVARIANTS
  TypeOK
  StatusTruthful
PROPERTIES
  Spaced
  RunsSpec
