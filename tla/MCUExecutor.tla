----------------------------- MODULE MCUExecutor ----------------------------
(* Instances of UExecutor for TLC.                                          *)
EXTENDS UExecutor, TLC

Symmetry == Permutations(InKeys) \cup Permutations(PcKeys)
=============================================================================
