CONSTANTS
  v1 = v1
  v2 = v2
  v3 = v3
  v4 = v4
  Validators = {v1, v2, v3, v4}
  b1 = b1
  BallotIds = {b1}
  TssBallotIds = {}
  ExpiryAfter = 1
  MaxHeight = 0
SYMMETRY Symmetry
SPECIFICATION Spec
INVARIANT RecomputedCanFinalize
CHECK_DEADLOCK FALSE
