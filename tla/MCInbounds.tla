----------------------------- MODULE MCInbounds -----------------------------
(***************************************************************************)
(* The inbound votes and the chain meta votes of x/uexecutor for TLC.      *)
(* They share no state, so a behaviour exercises one of the two.           *)
(***************************************************************************)
EXTENDS Inbounds, ChainMeta, TLC

VARIABLE part

VotesInit ==
    /\ Init /\ MetaInit /\ part \in {"inbounds", "meta"}
    /\ part = "inbounds" => entry = NoEntry

VotesNext ==
    \/ part = "inbounds" /\ Next /\ UNCHANGED <<metaVars, part>>
    \/ part = "meta" /\ MetaNext /\ UNCHANGED <<vars, part>>

VotesSpec == VotesInit /\ [][VotesNext]_<<vars, metaVars, part>>

Symmetry == Permutations(Validators)
=============================================================================
