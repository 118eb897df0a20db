\* Three processes at the lock, one of which is refused it.
SPECIFICATION Spec
CONSTANTS
  Runs = {log1, log2, phys1}
  Physical = {phys1}
  Nobody = nobody
INVARIANTS
  NeverTwoBackups
CHECK_DEADLOCK FALSE
