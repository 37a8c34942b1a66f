------------------------------- MODULE Ballots -------------------------------
(***************************************************************************)
(* The ballot keeper of x/uvalidator: the Ballots map, the three id sets   *)
(* that index it, and the universal validators who vote in any order while *)
(* the eligible set and the block height change under them.                *)
(*                                                                         *)
(* Callers open two kinds of ballot.  Inbound, outbound and migration      *)
(* ballots list the voters eligible at that moment and need Quorum of      *)
(* them; TSS key ballots (TssBallotIds) list the participants of a process *)
(* and need all of them.                                                   *)
(***************************************************************************)
EXTENDS BallotOps

CONSTANTS Validators,     \* core validators that may be universal validators
          BallotIds,      \* ballot keys
          TssBallotIds,   \* the ones opened by x/utss key votes
          ExpiryAfter,    \* expiryAfterBlocks
          MaxHeight       \* bound on the block height

ASSUME ValidatorsAssumption == IsFiniteSet(Validators)
ASSUME TssBallotsAssumption == TssBallotIds \subseteq BallotIds
ASSUME ExpiryAssumption == ExpiryAfter \in Nat \ {0}
ASSUME MaxHeightAssumption == MaxHeight \in Nat

VARIABLES ballots,    \* Ballots: the canonical records
          active,     \* ActiveBallotIDs
          expired,    \* ExpiredBallotIDs
          finalized,  \* FinalizedBallotIDs
          height,     \* block height
          eligible    \* what GetEligibleVoters returns now

vars == <<ballots, active, expired, finalized, height, eligible>>

Init ==
    /\ ballots = [i \in {} |-> NotYet]
    /\ active = {} /\ expired = {} /\ finalized = {}
    /\ height = 0
    /\ eligible \in SUBSET Validators

(***************************************************************************)
(* The voter lists a caller may open a ballot with, and the ballot it asks *)
(* for: x/utss passes the participants of some process, the others pass    *)
(* the voters eligible now.                                                *)
(***************************************************************************)
CallerVoters(id) == IF id \in TssBallotIds THEN SUBSET Validators ELSE {eligible}

VotesNeeded(id, voters) ==
    IF id \in TssBallotIds THEN Cardinality(voters) ELSE Quorum(Cardinality(voters))

CallerBallot(id, voters) == NewBallot(voters, VotesNeeded(id, voters), height, ExpiryAfter)

(***************************************************************************)
(* A vote that is accepted.  Opening the ballot sweeps the stale ones to   *)
(* the expired index and puts the id in the active one; the vote that      *)
(* reaches the threshold moves it to the finalized one.  A vote that is    *)
(* not accepted returns an error and changes nothing.                      *)
(***************************************************************************)
Vote(id, v, r, voters) ==
    LET new   == CallerBallot(id, voters)
        store == VoteOnBallot(ballots, id, new, v, r, height)
        swept == IF id \in DOMAIN ballots THEN {} ELSE {i \in active : IsExpired(ballots[i], height)}
        done  == IF store[id].status = "PENDING" THEN {} ELSE {id}
    IN  /\ VoteAccepted(ballots, id, new, v, height)
        /\ ballots' = store
        /\ active' = ((active \ swept) \cup {id}) \ done
        /\ expired' = expired \cup swept
        /\ finalized' = finalized \cup done
        /\ UNCHANGED <<height, eligible>>

(***************************************************************************)
(* The admin's MsgRecomputeBallotQuorum, on a pending ballot of any type.  *)
(***************************************************************************)
RecomputeUnindexed(id) ==
    /\ id \in DOMAIN ballots
    /\ ballots[id].status = "PENDING"
    /\ ballots' = [ballots EXCEPT ![id] = RecomputeBallotQuorum(@, eligible)]
    /\ UNCHANGED <<active, expired, finalized, height, eligible>>

Recompute(id) ==
    /\ id \in DOMAIN ballots
    /\ ballots[id].status = "PENDING"
    /\ ballots' = [ballots EXCEPT ![id] = RecomputeBallotQuorum(@, eligible)]
    /\ IF eligible = {}
       THEN active' = active \ {id} /\ expired' = expired \cup {id}
       ELSE UNCHANGED <<active, expired>>
    /\ UNCHANGED <<finalized, height, eligible>>

(***************************************************************************)
(* DeleteBallot, called only by the purge-expired-outbounds upgrade and    *)
(* only on expired ballots, so that the outbound can be voted on afresh.   *)
(***************************************************************************)
DeleteAnyBallot(id) ==
    /\ id \in DOMAIN ballots
    /\ ballots' = [i \in DOMAIN ballots \ {id} |-> ballots[i]]
    /\ active' = active \ {id}
    /\ expired' = expired \ {id}
    /\ finalized' = finalized \ {id}
    /\ UNCHANGED <<height, eligible>>

DeleteBallot(id) ==
    /\ id \in DOMAIN ballots
    /\ ballots[id].status = "EXPIRED"
    /\ ballots' = [i \in DOMAIN ballots \ {id} |-> ballots[i]]
    /\ active' = active \ {id}
    /\ expired' = expired \ {id}
    /\ finalized' = finalized \ {id}
    /\ UNCHANGED <<height, eligible>>

NextBlock ==
    /\ height < MaxHeight
    /\ height' = height + 1
    /\ UNCHANGED <<ballots, active, expired, finalized, eligible>>

ChangeEligible ==
    /\ eligible' \in SUBSET Validators
    /\ UNCHANGED <<ballots, active, expired, finalized, height>>

Next ==
    \/ \E id \in BallotIds, v \in Validators, r \in VoteResults : \E p \in CallerVoters(id) :
          Vote(id, v, r, p)
    \/ \E id \in BallotIds : Recompute(id) \/ DeleteBallot(id)
    \/ NextBlock
    \/ ChangeEligible

Spec == Init /\ [][Next]_vars
-----------------------------------------------------------------------------
BallotOK(b) ==
    /\ b = [voters |-> b.voters, votes |-> b.votes, threshold |-> b.threshold,
            status |-> b.status, expiry |-> b.expiry]
    /\ b.voters \in SUBSET Validators
    /\ b.votes \in [b.voters -> VoteResults \cup {NotYet}]
    /\ b.threshold \in Nat
    /\ b.status \in BallotStatuses
    /\ b.expiry \in Nat

\* The types of the keeper's collections; every ballot has one vote slot per
\* listed voter (InitEmptyVotes and RecomputeBallotQuorum keep the slices of
\* one length).
TypeOK ==
    /\ DOMAIN ballots \subseteq BallotIds
    /\ ballots = [i \in DOMAIN ballots |-> ballots[i]]
    /\ \A i \in DOMAIN ballots : BallotOK(ballots[i])
    /\ active \subseteq BallotIds /\ expired \subseteq BallotIds /\ finalized \subseteq BallotIds
    /\ height \in Nat
    /\ eligible \in SUBSET Validators

WithStatus(statuses) == {i \in DOMAIN ballots : ballots[i].status \in statuses}

\* The three index sets partition the stored ballots by status, whatever the
\* order of votes, sweeps, recomputations and deletions.  ExpireBallotsBeforeHeight
\* walks only the active set and fails on an id without a record, so an index that
\* drifts would either hide a ballot from expiry or block every new ballot.
IndexAgreement ==
    /\ active = WithStatus({"PENDING"})
    /\ expired = WithStatus({"EXPIRED"})
    /\ finalized = WithStatus({"PASSED", "REJECTED"})

\* A decided ballot carries the votes that decide it, and more than two thirds
\* of its listed voters stand behind the decision.  The threshold and the list
\* are snapshots that RecomputeBallotQuorum may rewrite between the votes.
DecidedByQuorum ==
    \A i \in finalized :
        LET b == ballots[i]
            side == IF b.status = "PASSED" THEN YesVoters(b) ELSE NoVoters(b)
        IN  /\ Cardinality(side) >= b.threshold
            /\ 3 * Cardinality(side) > 2 * Cardinality(b.voters)

\* Ballots on conflicting observations of one event are separate ballots that the
\* same validators may sign.  Two of them that passed over one voter list share more
\* than a third of it: a single honest third cannot pass both.
PassedOverlap ==
    \A i, j \in finalized :
        ballots[i].status = "PASSED" /\ ballots[j].status = "PASSED"
        /\ ballots[i].voters = ballots[j].voters
        => 3 * Cardinality(YesVoters(ballots[i]) \cap YesVoters(ballots[j]))
              > Cardinality(ballots[i].voters)

\* A decision is never revisited: PASSED and REJECTED ballots keep every field, and an
\* EXPIRED ballot can only be deleted.  Nothing a late vote, a sweep or the admin does
\* can reopen one.
TerminalIsFinal ==
    [][\A i \in DOMAIN ballots :
          \/ ballots[i].status = "PENDING"
          \/ i \in DOMAIN ballots' /\ ballots'[i] = ballots[i]
          \/ ballots[i].status = "EXPIRED" /\ i \notin DOMAIN ballots']_vars

\* A recorded vote is never altered; it can only disappear together with its voter
\* when the admin recomputes the list, or with the whole expired ballot.
VotesAreKept ==
    [][\A i \in DOMAIN ballots \cap DOMAIN ballots' : \A v \in ballots[i].voters :
          HasVoted(ballots[i], v) /\ v \in ballots'[i].voters
             => ballots'[i].votes[v] = ballots[i].votes[v]]_vars

\* Claimed of RecomputeBallotQuorum: a ballot it leaves PENDING can be brought to
\* finalization by a vote of its voters.  So a pending ballot whose votes already reach
\* the threshold has a voter left who can cast the vote that counts them.
RecomputedCanFinalize ==
    \A i \in active :
        IsFinalizingVote(ballots[i]) # "PENDING"
           => \E v \in ballots[i].voters : CanAddVote(ballots[i], v)
=============================================================================
