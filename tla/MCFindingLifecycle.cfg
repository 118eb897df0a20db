\* Three tables with a cap of two tables and of two findings: full and partial
\* coverage, cut and uncut matches, and two columns with one fingerprint.
SPECIFICATION Spec
CONSTANTS
  Spots <- MCSpots
  NTables = 3
  TableOf <- MCTableOf
  LargeTables = {}
  ShiftingTables = {3}
  LongSpots = {"t1.tel"}
  RuleOf <- MCRuleOf
  FingerprintOf <- MCFingerprintOf
  MaxTables = 2
  MaxFindings = 2
  MaxScans = 3
INVARIANTS
  TypeOK
  StatusFollowsScans
  ScanTraceExact
PROPERTIES
  TriageRespected
  AbsenceIsEvidence

