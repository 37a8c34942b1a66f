CONSTANTS
  k1 = k1
  k2 = k2
  p1 = p1
  InKeys = {k1, k2}
  PcKeys = {p1}
  Types = {"FUNDS", "GAS", "FUNDS_AND_PAYLOAD", "GAS_AND_PAYLOAD"}
  MaxOuts = 3
  CeaReverts = FALSE
SPECIFICATION Spec
INVARIANTS PendingOutboundsExact ReturnedOnce Solvent
PROPERTY HistoryKept
SYMMETRY Symmetry
CHECK_DEADLOCK FALSE
