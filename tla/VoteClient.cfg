CONSTANTS
  v1 = v1
  v2 = v2
  v3 = v3
  v4 = v4
  k1 = k1
  good = good
  odd = odd
  Validators = {v1, v2, v3, v4}
  Keys = {k1}
  Variants = {good, odd}
  Unsupported = {odd}
  Honest = {v1, v2, v3}
  Truth = good
  ExpiryAfter = 3
  MaxHeight = 0
  Self = v1
  Event = k1
  EventBlock = 2
  Required = 2
  WordSize = 16
  Environments <- AllEnvironments
  MaxBlock = 3
  MaxMetaVotes = 1
SPECIFICATION ClientFairSpec
INVARIANTS NothingSkipped VotesAfterConfirmation 
PROPERTIES EventCompleted InboundLands
CHECK_DEADLOCK FALSE
