CONSTANTS
  v1 = v1
  v2 = v2
  v3 = v3
  k1 = k1
  NoKey = NoKey
  Validators = {v1, v2, v3}
  KeyIds = {k1}
  ProcessExpiry = 1
  MaxProcesses = 2
  MaxHeight = 2
  Environments <- BothEnvironments
SYMMETRY Symmetry
SPECIFICATION Spec
INVARIANTS OneLiveProcess EventsAgree KeyHolders UnanimousUnlessRecomputed RemovalReason LifecycleInStep
CHECK_DEADLOCK FALSE
