\* A column that only shows past the page cap of its table.
SPECIFICATION Spec
CONSTANTS
  Spots <- MCSpots
  NTables = 3
  TableOf <- MCTableOf
  LargeTables = {3}
  ShiftingTables = {}
  LongSpots = {}
  RuleOf <- MCRuleOf
  FingerprintOf <- MCFingerprintOf
  MaxTables = 3
  MaxFindings = 3
  MaxScans = 3
PROPERTIES
  ResolvedOnlyIfAbsent
