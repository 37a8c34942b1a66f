CONSTANTS
  k1 = k1
  v1 = v1
  v2 = v2
  InKeys = {k1}
  PcKeys = {}
  Types = {"FUNDS_AND_PAYLOAD"}
  MaxOuts = 2
  CeaReverts = FALSE
  Validators = {v1, v2}
  EligibleSets = {{v1, v2}, {v1}}
  ExpiryAfter = 1
  MaxHeight = 1
SPECIFICATION OutSpec
INVARIANTS SettledAsObserved VariantsNameVoters
PROPERTY ImplementsUExecutor
CHECK_DEADLOCK FALSE
