\* Two requests that accept, revoke or change in an organization with one invitation.
SPECIFICATION Spec
CONSTANTS
  Users = {1, 2}
  Sessions = {s1}
  Invitations = {i1}
  Requests = {r1, r2}
  Nobody = nobody
SYMMETRY Symmetry
INVARIANTS
  GovernorRemains
  DeadlockByTarget
PROPERTIES
  BookSpec
  StraysFromLogin
CHECK_DEADLOCK FALSE
