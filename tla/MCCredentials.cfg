\* Two requests of one user; links and codes other than t1 and c1 come and go.
SPECIFICATION Spec
CONSTANTS
  Requests = {r1, r2}
  Sessions = {s1, s2}
  Tokens = {t1}
  Codes = {c1}
  MaxSecrets = 2
  Steps = {1, 2}
  Nobody = nobody
SYMMETRY Symmetry
INVARIANTS
  TypeOK
  OldPasswordEnds
  SecondFactorHeld
PROPERTIES
  StepsNotReplayed
  SecretsSpec
