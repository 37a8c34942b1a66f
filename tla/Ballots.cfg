CONSTANTS
  v1 = v1
  v2 = v2
  v3 = v3
  Validators = {v1, v2, v3}
  BallotIds = {b1, t1}
  b1 = b1
  t1 = t1
  TssBallotIds = {t1}
  ExpiryAfter = 2
  MaxHeight = 2
  s1 = s1
  s2 = s2
  s3 = s3
  Stakers = {s1, s2, s3}
  Power <- Powers
  Precision = 1000
  Fees = {0, 1, 7, 20}
  MaxBlocks = 4
SYMMETRY Symmetry
SPECIFICATION UValidatorSpec
INVARIANTS IndexAgreement  DecidedByQuorum OwedIsBacked
PROPERTY TerminalIsFinal
CHECK_DEADLOCK FALSE
