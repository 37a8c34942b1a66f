---------------------------- MODULE MCUValidator ----------------------------
(***************************************************************************)
(* The ballots and the reward boost of x/uvalidator for TLC.  They share   *)
(* no state, so a behaviour exercises one of the two.                      *)
(***************************************************************************)
EXTENDS Ballots, Rewards, TLC

CONSTANTS s1, s2, s3

VARIABLE part

Powers == s1 :> 5 @@ s2 :> 3 @@ s3 :> 0

UValidatorInit ==
    /\ Init /\ RewardsInit /\ part \in {"ballots", "rewards"}
    /\ part = "rewards" => eligible = {}

UValidatorNext ==
    \/ part = "ballots" /\ Next /\ UNCHANGED <<rewardVars, part>>
    \/ part = "rewards" /\ RewardsNext /\ UNCHANGED <<vars, part>>

UValidatorSpec == UValidatorInit /\ [][UValidatorNext]_<<vars, rewardVars, part>>

Symmetry == Permutations(Validators)
=============================================================================
