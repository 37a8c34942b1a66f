------------------------------ MODULE ChainMeta ------------------------------
(***************************************************************************)
(* The chain meta oracle of x/uexecutor for one observed chain.  Universal *)
(* validators vote the gas price and the height they see; every vote that  *)
(* the module accepts may write the medians of the recent votes to the     *)
(* UniversalCore contract.  Votes age, and the hook of x/uvalidator prunes *)
(* those of a validator that leaves the set.  A pruned validator that is   *)
(* still registered and bonded may vote again.                             *)
(*                                                                         *)
(* An entry that does not exist reads as the empty one.                    *)
(***************************************************************************)
EXTENDS Integers, Sequences, FiniteSets

CONSTANTS Oracles,         \* universal validators that vote
          Reliable,        \* those that report what the chain shows
          SeenPrices,      \* prices the chain shows
          OtherPrices,     \* further prices the others may report
          StalenessTicks,  \* chainMetaVoteStalenessSeconds, in ticks of the clock
          MaxHead,         \* bound on the observed chain's height
          MaxTicks         \* bound on the ticks of the clock

ASSUME OraclesAssumption == IsFiniteSet(Oracles) /\ Reliable \subseteq Oracles
ASSUME PricesAssumption ==
    SeenPrices \subseteq Nat \ {0} /\ SeenPrices # {} /\ OtherPrices \subseteq Nat \ {0}
ASSUME TicksAssumption == StalenessTicks \in Nat /\ MaxHead \in Nat \ {0} /\ MaxTicks \in Nat

VARIABLES entry,   \* ChainMetas: the votes, MedianIndex and LastAppliedChainHeight
          oracle,  \* what the contract was last told
          head,    \* height of the observed chain
          now      \* block time

metaVars == <<entry, oracle, head, now>>

chainMetaMinVotesForFirstWrite == 3

NoEntry == [votes |-> <<>>, medianIndex |-> 0, last |-> 0]

Unset == [price |-> 0, height |-> 0]

(***************************************************************************)
(* The element at index len/2 of the stably sorted values: as a position   *)
(* for computeMedianIndex, as a value for upperMedianUint64.               *)
(***************************************************************************)
Rank(vals, i) ==
    Cardinality({j \in DOMAIN vals : vals[j] < vals[i] \/ (vals[j] = vals[i] /\ j < i)})

MaximumPosition(vals) == CHOOSE i \in DOMAIN vals : Rank(vals, i) = Len(vals) - 1

MedianPosition(vals) == CHOOSE i \in DOMAIN vals : Rank(vals, i) = Len(vals) \div 2

UpperMedian(vals) == vals[MedianPosition(vals)]

PricesOf(votes) == [i \in DOMAIN votes |-> votes[i].price]
HeightsOf(votes) == [i \in DOMAIN votes |-> votes[i].height]

computeMedianIndex(votes) == MedianPosition(PricesOf(votes)) - 1

(***************************************************************************)
(* A vote replaces the validator's earlier one in place or is appended.    *)
(***************************************************************************)
Recorded(votes, vote) ==
    IF \E i \in DOMAIN votes : votes[i].signer = vote.signer
    THEN [i \in DOMAIN votes |-> IF votes[i].signer = vote.signer THEN vote ELSE votes[i]]
    ELSE Append(votes, vote)

\* The votes at the given positions, in their order.
Nth(positions, m) == CHOOSE j \in positions : Cardinality({i \in positions : i < j}) = m - 1

Kept(votes, positions) == [m \in 1 .. Cardinality(positions) |-> votes[Nth(positions, m)]]

Fresh(votes) ==
    Kept(votes, {i \in DOMAIN votes : votes[i].at <= now /\ now - votes[i].at <= StalenessTicks})

(***************************************************************************)
(* VoteChainMeta.  Before the first write a vote only waits for others;    *)
(* afterwards it must be above the last applied height.  A failing call of *)
(* the contract fails the transaction and is no step.                      *)
(***************************************************************************)
AwaitsNobody(bootstrapped, fresh) == Len(fresh) = 0

AwaitsQuorum(bootstrapped, fresh) ==
    ~bootstrapped /\ Len(fresh) < chainMetaMinVotesForFirstWrite

VoteBeforeApplying(v, price, height) ==
    LET bootstrapped == entry.last > 0
        votes == Recorded(entry.votes, [signer |-> v, price |-> price, height |-> height, at |-> now])
        fresh == Fresh(votes)
    IN  /\ bootstrapped => height > entry.last
        /\ \/ /\ AwaitsQuorum(bootstrapped, fresh)
              /\ entry' = [entry EXCEPT !.votes = votes]
              /\ UNCHANGED oracle
           \/ /\ ~AwaitsQuorum(bootstrapped, fresh)
              /\ entry' = [votes |-> votes, medianIndex |-> computeMedianIndex(votes), last |-> height]
              /\ oracle' = [price |-> UpperMedian(PricesOf(fresh)), height |-> UpperMedian(HeightsOf(fresh))]
        /\ UNCHANGED <<head, now>>

VoteChainMeta(v, price, height) ==
    LET bootstrapped == entry.last > 0
        votes  == Recorded(entry.votes, [signer |-> v, price |-> price, height |-> height, at |-> now])
        fresh  == Fresh(votes)
        median == UpperMedian(HeightsOf(fresh))
    IN  /\ bootstrapped => height > entry.last
        /\ \/ /\ AwaitsQuorum(bootstrapped, fresh)
              /\ entry' = [entry EXCEPT !.votes = votes]
              /\ UNCHANGED oracle
           \/ /\ ~AwaitsQuorum(bootstrapped, fresh)
              /\ entry' = [votes |-> votes, medianIndex |-> computeMedianIndex(votes), last |-> median]
              /\ oracle' = [price |-> UpperMedian(PricesOf(fresh)), height |-> median]
        /\ UNCHANGED <<head, now>>

(***************************************************************************)
(* AfterValidatorRemoved.  The last signer takes the entry with it.        *)
(***************************************************************************)
PruneKeepingIndex(v) ==
    LET mine  == {i \in DOMAIN entry.votes : entry.votes[i].signer = v}
        votes == Kept(entry.votes, DOMAIN entry.votes \ mine)
    IN  /\ mine # {}
        /\ entry' = IF votes = <<>> THEN NoEntry ELSE [entry EXCEPT !.votes = votes]
        /\ UNCHANGED <<oracle, head, now>>

PruneValidatorVotes(v) ==
    LET mine  == {i \in DOMAIN entry.votes : entry.votes[i].signer = v}
        votes == Kept(entry.votes, DOMAIN entry.votes \ mine)
    IN  /\ mine # {}
        /\ entry' = IF votes = <<>> THEN NoEntry
                    ELSE [entry EXCEPT !.votes = votes, !.medianIndex = computeMedianIndex(votes)]
        /\ UNCHANGED <<oracle, head, now>>

(***************************************************************************)
(* The upgrade turns a legacy gas price entry into one whose votes were    *)
(* stored at time zero, long stale, and that never applied a height.       *)
(***************************************************************************)
MigrateGasPricesToChainMeta(signers) ==
    LET votes == [i \in DOMAIN signers |->
                     [signer |-> signers[i], price |-> CHOOSE p \in SeenPrices : TRUE, height |-> 1, at |-> 0]]
    IN  [votes |-> votes, medianIndex |-> computeMedianIndex(votes), last |-> 0]

MetaInit ==
    /\ entry \in {NoEntry} \cup {MigrateGasPricesToChainMeta(<<v>>) : v \in Oracles}
    /\ oracle = Unset
    /\ head = 1
    /\ now = StalenessTicks + 1

MetaTick ==
    /\ now < StalenessTicks + 1 + MaxTicks
    /\ now' = now + 1
    /\ UNCHANGED <<entry, oracle, head>>

MetaGrow ==
    /\ head < MaxHead
    /\ head' = head + 1
    /\ UNCHANGED <<entry, oracle, now>>

MetaNext ==
    \/ \E v \in Reliable, price \in SeenPrices : VoteChainMeta(v, price, head)
    \/ \E v \in Oracles \ Reliable, price \in SeenPrices \cup OtherPrices, height \in 1 .. MaxHead + 1 :
          VoteChainMeta(v, price, height)
    \/ \E v \in Oracles : PruneValidatorVotes(v)
    \/ MetaTick
    \/ MetaGrow

MetaSpec == MetaInit /\ [][MetaNext]_metaVars
-----------------------------------------------------------------------------
MetaVotes == [signer : Oracles, price : SeenPrices \cup OtherPrices, height : Nat, at : Nat]

\* The types of the entry: one vote per signer, and a MedianIndex that is a position of
\* the prices, which the clients' GetGasPrice reads the price at, also after pruning.
MetaTypeOK ==
    /\ \A i \in DOMAIN entry.votes : entry.votes[i] \in MetaVotes
    /\ \A i, j \in DOMAIN entry.votes : entry.votes[i].signer = entry.votes[j].signer => i = j
    /\ entry = NoEntry \/ entry.medianIndex \in 0 .. Len(entry.votes) - 1
    /\ entry.last \in Nat /\ head \in Nat /\ now \in Nat
    /\ oracle.price \in Nat /\ oracle.height \in Nat

\* The height that votes are held against is the one the contract was told: the stored
\* LastAppliedChainHeight and the contract never part, although votes are refused,
\* wait for a quorum, age, and leave with their validators.
OracleAgrees == entry.last # 0 => entry.last = oracle.height

ReliableVotes(votes) == {votes[i] : i \in {j \in DOMAIN votes : votes[j].signer \in Reliable}}

Within(x, S) == (\E y \in S : y <= x) /\ (\E y \in S : x <= y)

\* x lies between what reliable validators recently voted, in price and in height.
Reported(x, votes) ==
    /\ Within(x.price, {vote.price : vote \in ReliableVotes(votes)})
    /\ Within(x.height, {vote.height : vote \in ReliableVotes(votes)})

\* The votes whose age is at most the staleness bound, whatever Fresh keeps.
RecentVotes(votes) == Kept(votes, {i \in DOMAIN votes : votes[i].at + StalenessTicks >= now})

\* Whenever more than half of the recent votes are by reliable validators, what is
\* written to the contract lies between votes of theirs, in price and in height: old
\* votes never decide, and a minority moves neither median outside of what the others
\* saw, whatever it votes and whichever validators leave.
MajorityBounds ==
    [][LET votes == RecentVotes(entry'.votes)
       IN  oracle' # oracle /\ 2 * Cardinality(ReliableVotes(votes)) > Len(votes)
             => Reported(oracle', votes)]_metaVars

\* "robust against a single outlier on either side": with one unreliable validator, a
\* write that finds no applied height, the first or the first after everyone left, lies
\* between reliable votes.  Legacy votes carried over by the upgrade do not count.
FirstWriteRobust ==
    [][Cardinality(Oracles \ Reliable) <= 1 /\ entry.last = 0 /\ oracle' # oracle
          => Reported(oracle', RecentVotes(entry'.votes))]_metaVars
=============================================================================
