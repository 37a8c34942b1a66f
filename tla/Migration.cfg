CONSTANTS
  v1 = v1
  v2 = v2
  c1 = c1
  t1 = t1
  Validators = {v1, v2}
  Chains = {c1}
  TxHashes = {t1}
  ExpiryAfter = 1
  MaxKeys = 3
  MaxMigrations = 2
  MaxHeight = 1
SPECIFICATION Spec
INVARIANTS OutcomeAgreed PendingIndexExact OneOpenPerChain
SYMMETRY Symmetry
CHECK_DEADLOCK FALSE
