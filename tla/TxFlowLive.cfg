CONSTANTS
  Nodes = {n1, n2}
  MaxAttempts = 2
  MaxNonce = 2
  Environments <- OneAttempt
  OutboundEvents = {e1, e2, e3}
  Coordinators = {c1}
  PerChainCap = 2
  ConsecutiveWaitThreshold = 1
  NoEvent = NoEvent
  Traffic = {TRUE}
  MaxFaults = 2
SPECIFICATION SendingSpec
PROPERTIES
  SignaturesUsed
  InProgressEnds
  
