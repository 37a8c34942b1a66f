----------------------------- MODULE MCOutbounds ----------------------------
(* Instances of Outbounds for TLC.                                          *)
EXTENDS Outbounds, TLC

Symmetry == Permutations(Validators)
=============================================================================
