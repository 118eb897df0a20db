\* One source, two scans: the second may start while the first runner lives on.
SPECIFICATION Spec
CONSTANTS
  Sources = {src1}
  Scans = {scan1, scan2}
  TTL = 5
  HbInterval = 1
  MaxStep = 1
  StartLag = 1
  MaxPages = 2
  MaxFaults = 1
  MaxCrashes = 1
SYMMETRY ScanSymmetry
INVARIANTS
  TypeOK
  OutcomeConsistent
  LiveRunnerNotReaped
  OneRunnerPerSource
  GaugeExact
  CompletedEventExplained
PROPERTIES
  CancelHeard
  RowsSpec
