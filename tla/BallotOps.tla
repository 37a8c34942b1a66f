------------------------------ MODULE BallotOps ------------------------------
(***************************************************************************)
(* The ballot of x/uvalidator as data: what types/ballot.go and the        *)
(* read-modify-write helpers of keeper/ballot.go compute, with no state of *)
(* their own.  Ballots, UTss, FundMigration, Inbounds and Outbounds vote   *)
(* through these operators, as the three Go modules through one keeper.    *)
(*                                                                         *)
(* A ballot is a record                                                    *)
(*   voters     the EligibleVoters snapshot (a set; order is immaterial)   *)
(*   votes      the Votes slice, as a function of the voter                *)
(*   threshold  VotingThreshold                                            *)
(*   status     BallotStatus                                               *)
(*   expiry     BlockHeightExpiry                                          *)
(* and a ballot store is a function from the ids in use to ballots.        *)
(***************************************************************************)
EXTENDS Integers, FiniteSets

NotYet == "NOT_YET_VOTED"
VoteResults == {"SUCCESS", "FAILURE"}
BallotStatuses == {"PENDING", "PASSED", "REJECTED", "EXPIRED"}

NewBallot(voters, threshold, height, expiryAfter) ==
    [voters    |-> voters,
     votes     |-> [v \in voters |-> NotYet],
     threshold |-> threshold,
     status    |-> "PENDING",
     expiry    |-> height + expiryAfter]

IsExpired(b, height) == height >= b.expiry

HasVoted(b, v) == v \in b.voters /\ b.votes[v] # NotYet

CanAddVote(b, v) == b.status = "PENDING" /\ v \in b.voters /\ ~HasVoted(b, v)

AddVote(b, v, r) == [b EXCEPT !.votes[v] = r]

YesVoters(b) == {v \in b.voters : b.votes[v] = "SUCCESS"}
NoVoters(b)  == {v \in b.voters : b.votes[v] = "FAILURE"}

(***************************************************************************)
(* The status a pending ballot takes once its votes are counted.           *)
(***************************************************************************)
FinalizesOneShort(b) ==
    IF Cardinality(YesVoters(b)) + 1 >= b.threshold THEN "PASSED"
    ELSE IF Cardinality(NoVoters(b)) >= b.threshold THEN "REJECTED"
    ELSE b.status

IsFinalizingVote(b) ==
    IF Cardinality(YesVoters(b)) >= b.threshold THEN "PASSED"
    ELSE IF Cardinality(NoVoters(b)) >= b.threshold THEN "REJECTED"
    ELSE b.status

(***************************************************************************)
(* The two-thirds-plus-one threshold that uexecutor, fund migration and    *)
(* RecomputeBallotQuorum compute with integer division.                    *)
(***************************************************************************)
MajorityQuorum(n) == n \div 2 + 1

UnanimousQuorum(n) == n

Quorum(n) == (2 * n) \div 3 + 1

Expired(b) == [b EXCEPT !.status = "EXPIRED"]

(***************************************************************************)
(* CreateBallot first expires every active ballot whose height has come,   *)
(* of any type: the only place expiry is applied in the ordinary flow.     *)
(***************************************************************************)
Stale(bs, height) == {i \in DOMAIN bs : bs[i].status = "PENDING" /\ IsExpired(bs[i], height)}

ExpireBallotsBeforeHeight(bs, height) ==
    [i \in DOMAIN bs |-> IF i \in Stale(bs, height) THEN Expired(bs[i]) ELSE bs[i]]

GetOrCreateBallot(bs, id, new, height) ==
    IF id \in DOMAIN bs
    THEN bs
    ELSE LET old == ExpireBallotsBeforeHeight(bs, height)
         IN  [i \in DOMAIN bs \cup {id} |-> IF i = id THEN new ELSE old[i]]

(***************************************************************************)
(* VoteOnBallot succeeds only on a pending ballot that is not past its     *)
(* expiry, for a listed voter who has not voted.  In every other case it   *)
(* returns an error and the transaction leaves the store as it was.        *)
(***************************************************************************)
VoteAccepted(bs, id, new, v, height) ==
    LET b == GetOrCreateBallot(bs, id, new, height)[id]
    IN  ~IsExpired(b, height) /\ CanAddVote(b, v)

VoteOnBallot(bs, id, new, v, r, height) ==
    LET store == GetOrCreateBallot(bs, id, new, height)
        voted == AddVote(store[id], v, r)
    IN  [store EXCEPT ![id] = [voted EXCEPT !.status = IsFinalizingVote(voted)]]

(***************************************************************************)
(* RecomputeBallotQuorum: the voters become the current eligible set,      *)
(* votes of those still listed survive, nobody left means EXPIRED.         *)
(***************************************************************************)
RecomputeBallotQuorum(b, eligible) ==
    IF eligible = {}
    THEN Expired(b)
    ELSE [b EXCEPT !.voters    = eligible,
                   !.votes     = [v \in eligible |-> IF v \in b.voters THEN b.votes[v] ELSE NotYet],
                   !.threshold = Quorum(Cardinality(eligible))]
=============================================================================
