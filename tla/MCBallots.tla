------------------------------ MODULE MCBallots ------------------------------
(***************************************************************************)
(* Instances of Ballots for TLC.                                           *)
(***************************************************************************)
EXTENDS Ballots, TLC

Symmetry == Permutations(Validators)
=============================================================================
