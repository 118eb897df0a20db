\* Liveness: every running row ends, whatever fails.
SPECIFICATION FairSpec
CONSTANTS
  Sources = {src1}
  Scans = {scan1}
  TTL = 2
  HbInterval = 1
  MaxStep = 1
  StartLag = 0
  MaxPages = 2
  MaxFaults = 2
  MaxCrashes = 2
PROPERTIES
  EveryScanEnds
