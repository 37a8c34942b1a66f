CONSTANTS
  v1 = v1
  v2 = v2
  v3 = v3
  k1 = k1
  good = good
  other = other
  Validators = {v1, v2, v3}
  Keys = {k1}
  Variants = {good, other}
  Unsupported = {}
  ExpiryAfter = 1
  MaxHeight = 2
  o1 = o1
  o2 = o2
  o3 = o3
  Oracles = {o1, o2, o3}
  Reliable = {o1, o2}
  SeenPrices = {2}
  OtherPrices = {1, 3}
  StalenessTicks = 1
  MaxHead = 2
  MaxTicks = 2
SPECIFICATION VotesSpec
INVARIANTS ExpiredIsTerminal OneOutcome PendingMirrorsBallots MetaTypeOK OracleAgrees
PROPERTIES MajorityBounds FirstWriteRobust
SYMMETRY Symmetry
CHECK_DEADLOCK FALSE
