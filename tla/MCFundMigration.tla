--------------------------- MODULE MCFundMigration ---------------------------
(* Instances of FundMigration for TLC.                                       *)
EXTENDS FundMigration, TLC

Symmetry == Permutations(Validators) \cup Permutations(Chains) \cup Permutations(TxHashes)
=============================================================================
