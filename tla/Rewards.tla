------------------------------- MODULE Rewards -------------------------------
(***************************************************************************)
(* The reward boost of universal validators (the BeginBlocker of           *)
(* x/uvalidator).  The fees of the last block pass through the module's    *)
(* account: a boost goes to the distribution module, which owes it to the  *)
(* active universal validators, and the rest returns to the fee collector, *)
(* which x/distribution empties right after.                               *)
(*                                                                         *)
(* Amounts are whole coins of one denomination; sdk.Dec values are whole   *)
(* numbers of 1/Precision.                                                 *)
(***************************************************************************)
EXTENDS Integers, FiniteSets, Folds

CONSTANTS Stakers,    \* validators
          Power,      \* their voting power
          Precision,  \* 10^18 in the SDK
          Fees,       \* what the transactions of a block may pay
          MaxBlocks   \* bound on the blocks

ASSUME StakersAssumption == IsFiniteSet(Stakers) /\ Power \in [Stakers -> Nat]
ASSUME PrecisionAssumption == Precision \in Nat \ {0} /\ Precision % 1000 = 0
ASSUME FeesAssumption == Fees \subseteq Nat /\ MaxBlocks \in Nat

VARIABLES collector,     \* balance of the fee collector
          module,        \* balance of the x/uvalidator account
          distribution,  \* balance of x/distribution
          owed,          \* rewards x/distribution has credited, in 1/Precision
          block,         \* blocks begun
          stage          \* where the block is: its transactions or a BeginBlocker

rewardVars == <<collector, module, distribution, owed, block, stage>>

SumOver(f, S) == MapThenFoldSet(LAMBDA x, y : x + y, 0, LAMBDA v : f[v], LAMBDA T : CHOOSE v \in T : TRUE, S)

BoostMultiplier == 1148 * (Precision \div 1000)
ExtraBoostPortion == 148 * (Precision \div 1000)

(***************************************************************************)
(* The voting power of the last block, with the boost of those that are    *)
(* active universal validators.                                            *)
(***************************************************************************)
EffectiveTotalPower(voters, active) ==
    SumOver([v \in voters |-> Power[v] * (IF v \in active THEN BoostMultiplier ELSE Precision)], voters)

\* QuoTruncate of two decimals; the product with whole coins loses nothing more.
Reward(v, fees, total) == fees * ((Power[v] * ExtraBoostPortion * Precision) \div total)

Allocated(fees, voters, active) ==
    LET total == EffectiveTotalPower(voters, active)
    IN  SumOver([v \in voters \cap active |-> Reward(v, fees, total)], voters \cap active)

RewardsInit ==
    /\ collector = 0 /\ module = 0 /\ distribution = 0 /\ owed = 0
    /\ block = 1 /\ stage = "transactions"

CollectFees(fees) ==
    /\ stage = "transactions" /\ block < MaxBlocks
    /\ collector' = collector + fees
    /\ block' = block + 1
    /\ stage' = "uvalidator"
    /\ UNCHANGED <<module, distribution, owed>>

(***************************************************************************)
(* What the module sends on: the whole coins of the boost, and the fees    *)
(* less those coins plus the fraction, truncated.                          *)
(***************************************************************************)
ExtraTruncatedEach(fees, voters, active) ==
    LET total == EffectiveTotalPower(voters, active)
    IN  SumOver([v \in voters \cap active |-> Reward(v, fees, total) \div Precision], voters \cap active)

ExtraCoins(fees, voters, active) == Allocated(fees, voters, active) \div Precision

RemainingFinal(fees, extra, change) ==
    LET remaining == IF extra > fees THEN 0 ELSE fees - extra
    IN  (remaining * Precision + change) \div Precision

AllocateTokens(voters, active) ==
    LET fees      == collector
        allocated == Allocated(fees, voters, active)
        extra     == ExtraCoins(fees, voters, active)
        rest      == RemainingFinal(fees, extra, allocated % Precision)
    IN  /\ stage = "uvalidator"
        /\ stage' = "distribution"
        /\ \/ /\ SumOver(Power, voters) = 0 \/ fees = 0
              /\ UNCHANGED <<collector, module, distribution, owed>>
           \/ /\ SumOver(Power, voters) # 0 /\ fees # 0
              /\ owed' = owed + allocated
              /\ distribution' = distribution + extra
              /\ collector' = rest
              /\ module' = module + fees - extra - rest
        /\ UNCHANGED block

(***************************************************************************)
(* x/distribution credits all that is left to validators and community.    *)
(***************************************************************************)
Distribute ==
    /\ stage = "distribution"
    /\ collector' = 0
    /\ distribution' = distribution + collector
    /\ owed' = owed + collector * Precision
    /\ stage' = "transactions"
    /\ UNCHANGED <<module, block>>

RewardsNext ==
    \/ \E fees \in Fees : CollectFees(fees)
    \/ \E voters \in SUBSET Stakers : \E active \in SUBSET voters : AllocateTokens(voters, active)
    \/ Distribute

RewardsSpec == RewardsInit /\ [][RewardsNext]_rewardVars
-----------------------------------------------------------------------------
\* Whatever the powers and the rounding, the module keeps nothing of the fees and spends no
\* more than came in.  What x/distribution owes is what it holds, up to the fraction of a
\* coin that each block's boost is rounded down by and that the remainder returns to the
\* fees, where it is credited again: the debt is never below the balance, and above it by
\* less than a coin for every block.
OwedIsBacked ==
    /\ module = 0 /\ collector >= 0
    /\ owed >= distribution * Precision
    /\ owed - distribution * Precision <= (block - 1) * (Precision - 1)
=============================================================================
