CONSTANTS
  Nodes = {n1, n2}
  MaxAttempts = 2
  MaxNonce = 2
  Environments <- FlakyLookups
SPECIFICATION Spec
INVARIANT VotesMatchChain
