CONSTANTS
  Nodes = {n1, n2}
  MaxAttempts = 2
  MaxNonce = 2
  Environments <- ManyAttempts
SPECIFICATION Spec
SYMMETRY Symmetry
INVARIANTS
  
  OneSignature
  HiddenSignaturesRecover
PROPERTIES
  RowsImplemented
