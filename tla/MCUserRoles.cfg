\* Role changes, logins and a registration against each other, two requests at once.
SPECIFICATION Spec
CONSTANTS
  Users = {1, 2}
  Newcomers = {2}
  Sessions = {s1, s2}
  Requests = {r1, r2}
  Nobody = nobody
SYMMETRY Symmetry
INVARIANTS
  AdminRemains
  SessionRolesHeld
  NoDeadlock
PROPERTIES
  BookSpec
CHECK_DEADLOCK FALSE
