\* One instance that can dispatch one schedule per tick and has two.
SPECIFICATION FairSpec
CONSTANTS
  Instances = {inst1}
  Sources = {src1, src2}
  Intervals = {2}
  Batch = 1
  Period = 2
  MaxLag = 1
  MaxLate = 4
  MaxSince = 3
  MaxFaults = 1
  MaxCrashes = 0
PROPERTIES
  EveryDueRunIsTaken
