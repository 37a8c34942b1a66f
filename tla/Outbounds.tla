------------------------------ MODULE Outbounds -----------------------------
(***************************************************************************)
(* Voting on outbounds: UExecutor with the step that decides an outbound   *)
(* replaced by the validators' votes on what they saw on the destination   *)
(* chain.  Every distinct observation of an outbound has a ballot of its   *)
(* own; success and failure are told apart, the rest of an observation     *)
(* (hash, gas used, message) is not.  Expired ballots stay in the way of   *)
(* their observation until the purge-expired-outbounds upgrade.            *)
(***************************************************************************)
EXTENDS UExecutor, BallotOps

CONSTANTS Validators,     \* core validators that may be universal validators
          EligibleSets,   \* what GetEligibleVoters may answer
          ExpiryAfter,    \* DefaultExpiryAfterBlocks
          MaxHeight       \* bound on the block height

ASSUME OutValidatorsAssumption == IsFiniteSet(Validators) /\ EligibleSets \subseteq SUBSET Validators
ASSUME OutBoundsAssumption == MaxHeight \in Nat /\ ExpiryAfter \in Nat \ {0}

VARIABLES ballots,   \* outbound ballots: <<UTX key, position, success>> -> ballot
          voted,     \* Variants of a PendingOutbounds entry: success -> voters
          height     \* block height

vars == <<utxs, pendingOut, supply, ballots, voted, height>>

BallotKeys == (InKeys \cup PcKeys) \X (1 .. MaxOuts) \X BOOLEAN

OutInit ==
    /\ Init
    /\ ballots = [id \in {} |-> NotYet]
    /\ voted = [p \in {} |-> NotYet]
    /\ height = 0

\* A new PendingOutbounds entry has no variants.
Entries(pending) ==
    [p \in pending |-> IF p \in DOMAIN voted THEN voted[p] ELSE [s \in BOOLEAN |-> {}]]

OutboundBallot(eligible) == NewBallot(eligible, Quorum(Cardinality(eligible)), height, ExpiryAfter)

FinalizeFundsOnly(out, success, minted) ==
    IF success \/ out.type # "FUNDS" THEN out
    ELSE IF ~minted THEN [out EXCEPT !.status = "ABORTED"]
    ELSE [out EXCEPT !.status = "REVERTED"]

\* FinalizeOutbound of an outbound just marked OBSERVED, by what was observed.
FinalizeOutbound(out, success, minted) ==
    IF success THEN out
    ELSE IF out.type = "FUNDS" /\ ~minted THEN [out EXCEPT !.status = "ABORTED"]
    ELSE [out EXCEPT !.status = "REVERTED"]

\* Units CallPRC20Deposit mints back.
ReMintsOnSuccess(out, success, minted) == IF out.type = "FUNDS" /\ minted THEN 1 ELSE 0

ReMinted(out, success, minted) == IF ~success /\ out.type = "FUNDS" /\ minted THEN 1 ELSE 0

RecordFirstVote(p, success, v) == [Entries(pendingOut) EXCEPT ![p][success] = IF @ = {} THEN {v} ELSE @]

RecordOutboundVote(p, success, v) == [Entries(pendingOut) EXCEPT ![p][success] = @ \cup {v}]

(***************************************************************************)
(* VoteOutbound.  The vote is recorded and counted; the vote that passes   *)
(* the ballot marks the outbound OBSERVED, removes its pending entry and   *)
(* finalizes it.                                                           *)
(***************************************************************************)
VoteOutbound(v, k, i, success, minted, eligible) ==
    LET id    == <<k, i, success>>
        new   == OutboundBallot(eligible)
        store == VoteOnBallot(ballots, id, new, v, "SUCCESS", height)
        out   == utxs[k].outs[i]
        final == FinalizeOutbound([out EXCEPT !.status = "OBSERVED"], success, minted)
    IN  /\ k \in DOMAIN utxs /\ i \in DOMAIN utxs[k].outs
        /\ out.status = "PENDING"
        /\ <<k, i>> \in pendingOut
        /\ VoteAccepted(ballots, id, new, v, height)
        /\ ballots' = store
        /\ \/ /\ store[id].status = "PENDING"
              /\ voted' = RecordOutboundVote(<<k, i>>, success, v)
              /\ UNCHANGED uexVars
           \/ /\ store[id].status # "PENDING"
              /\ utxs' = [utxs EXCEPT ![k].outs[i] = final]
              /\ pendingOut' = pendingOut \ {<<k, i>>}
              /\ voted' = Entries(pendingOut')
              /\ supply' = supply + ReMinted(out, success, minted)
        /\ UNCHANGED height

RecomputeOutboundBallot(id, eligible) ==
    /\ id \in DOMAIN ballots
    /\ ballots[id].status = "PENDING"
    /\ ballots' = [ballots EXCEPT ![id] = RecomputeBallotQuorum(@, eligible)]
    /\ UNCHANGED <<utxs, pendingOut, supply, voted, height>>

\* Opening a ballot of another type sweeps; no hook reacts to outbound ballots.
OpenOtherBallot ==
    /\ Stale(ballots, height) # {}
    /\ ballots' = ExpireBallotsBeforeHeight(ballots, height)
    /\ UNCHANGED <<utxs, pendingOut, supply, voted, height>>

(***************************************************************************)
(* The upgrade: for each pending outbound the first expired ballot among   *)
(* the observations it guesses, failures first, is deleted.  A guess may   *)
(* miss the ballot, whose other fields it does not know.                   *)
(***************************************************************************)
FindExpiredBallot(p, guessed) ==
    LET found == {s \in guessed : /\ <<p[1], p[2], s>> \in DOMAIN ballots
                                  /\ ballots[<<p[1], p[2], s>>].status = "EXPIRED"}
    IN  IF FALSE \in found THEN {<<p[1], p[2], FALSE>>}
        ELSE {<<p[1], p[2], s>> : s \in found}

PurgeExpiredOutbounds(guessed) ==
    LET gone == UNION {FindExpiredBallot(p, guessed) : p \in pendingOut}
    IN  /\ gone # {}
        /\ ballots' = [id \in DOMAIN ballots \ gone |-> ballots[id]]
        /\ UNCHANGED <<utxs, pendingOut, supply, voted, height>>

NextBlock ==
    /\ height < MaxHeight
    /\ height' = height + 1
    /\ UNCHANGED <<utxs, pendingOut, supply, ballots, voted>>

OutNext ==
    \/ Requests /\ voted' = Entries(pendingOut') /\ UNCHANGED <<ballots, height>>
    \/ \E eligible \in EligibleSets :
          \/ \E v \in Validators, id \in BallotKeys, minted \in BOOLEAN :
                VoteOutbound(v, id[1], id[2], id[3], minted, eligible)
          \/ \E id \in BallotKeys : RecomputeOutboundBallot(id, eligible)
    \/ OpenOtherBallot
    \/ \E guessed \in SUBSET BOOLEAN : PurgeExpiredOutbounds(guessed)
    \/ NextBlock

OutSpec == OutInit /\ [][OutNext]_vars
-----------------------------------------------------------------------------
\* The votes implement UExecutor: whatever is voted, recomputed, swept and purged, an
\* outbound is decided in one step, once, and with the effects UExecutor gives it.
ImplementsUExecutor == Spec

Decision(k, i) ==
    {s \in BOOLEAN : <<k, i, s>> \in DOMAIN ballots /\ ballots[<<k, i, s>>].status = "PASSED"}

\* An outbound is settled as the one observation that passed says, and only one of its
\* observations ever passes although their ballots know nothing of each other: success
\* leaves it OBSERVED, failure REVERTED or ABORTED, and no decision PENDING.
SettledAsObserved ==
    \A k \in DOMAIN utxs : \A i \in DOMAIN utxs[k].outs :
        Decision(k, i) = CASE utxs[k].outs[i].status = "PENDING"  -> {}
                           [] utxs[k].outs[i].status = "OBSERVED" -> {TRUE}
                           [] OTHER -> {FALSE}

\* The audit trail of a pending outbound names every validator whose vote a ballot of
\* its counts, also after ballots expired, were recomputed or were purged.
VariantsNameVoters ==
    /\ DOMAIN voted = pendingOut
    /\ \A p \in pendingOut, s \in BOOLEAN :
          <<p[1], p[2], s>> \in DOMAIN ballots
             => YesVoters(ballots[<<p[1], p[2], s>>]) \subseteq voted[p][s]
=============================================================================
