---------------------------- MODULE BallotsProofs ----------------------------
(***************************************************************************)
(* Proofs about Ballots for any finite validator set, any ballot ids, any  *)
(* expiry and any height.  The inductive invariant adds to the checked     *)
(* properties what makes them inductive: every stored ballot, open or not, *)
(* has a threshold above two thirds of its list.                           *)
(*                                                                         *)
(* The second part is about Rewards: what the module account owes, summed  *)
(* over the validators, is backed.  Sums are reasoned about through the    *)
(* smallest set that would be a counterexample.                            *)
(***************************************************************************)
EXTENDS Ballots, Rewards, FiniteSetTheorems, WellFoundedInduction, TLAPS

Sound(b) ==
    /\ BallotOK(b)
    /\ 3 * b.threshold > 2 * Cardinality(b.voters)
    /\ b.status = "PASSED" => Cardinality(YesVoters(b)) >= b.threshold
    /\ b.status = "REJECTED" => Cardinality(NoVoters(b)) >= b.threshold

IInv ==
    /\ TypeOK
    /\ IndexAgreement
    /\ \A i \in DOMAIN ballots : Sound(ballots[i])

-----------------------------------------------------------------------------
\* Quorum, with its integer division, is always more than two thirds.
LEMMA QuorumIsTwoThirds ==
    ASSUME NEW n \in Nat
    PROVE  Quorum(n) \in Nat /\ 3 * Quorum(n) > 2 * n
  BY DEF Quorum

\* Every list of voters is finite, so its cardinality is a number.
LEMMA VotersFinite ==
    ASSUME NEW S \in SUBSET Validators
    PROVE  IsFiniteSet(S) /\ Cardinality(S) \in Nat
  BY ValidatorsAssumption, FS_Subset, FS_CardinalityType

\* A ballot opened with a nonempty list is sound: InitEmptyVotes leaves no vote.
LEMMA NewBallotSound ==
    ASSUME NEW S \in SUBSET Validators, NEW t \in Nat, NEW h \in Nat,
           3 * t > 2 * Cardinality(S)
    PROVE  Sound(NewBallot(S, t, h, ExpiryAfter))
  BY ExpiryAssumption DEF Sound, BallotOK, NewBallot, BallotStatuses, VoteResults, NotYet

\* AddVote followed by IsFinalizingVote keeps a ballot sound: it is decided only with
\* the votes counted.
LEMMA VoteKeepsSound ==
    ASSUME NEW b, Sound(b), NEW v, CanAddVote(b, v), NEW r \in VoteResults
    PROVE  LET voted == AddVote(b, v, r)
           IN  Sound([voted EXCEPT !.status = IsFinalizingVote(voted)])
<1> DEFINE voted == AddVote(b, v, r)
           c == [voted EXCEPT !.status = IsFinalizingVote(voted)]
<1>1. /\ voted = [voters |-> b.voters, votes |-> [b.votes EXCEPT ![v] = r],
                  threshold |-> b.threshold, status |-> "PENDING", expiry |-> b.expiry]
      /\ [b.votes EXCEPT ![v] = r] \in [b.voters -> VoteResults \cup {NotYet}]
  BY DEF Sound, BallotOK, CanAddVote, AddVote
<1>2. IsFinalizingVote(voted) \in BallotStatuses
  BY <1>1 DEF IsFinalizingVote, BallotStatuses
<1>3. c = [voters |-> b.voters, votes |-> [b.votes EXCEPT ![v] = r],
           threshold |-> b.threshold, status |-> IsFinalizingVote(voted), expiry |-> b.expiry]
  BY <1>1
<1>4. BallotOK(c)
  BY <1>1, <1>2, <1>3 DEF Sound, BallotOK
<1>5. YesVoters(c) = YesVoters(voted) /\ NoVoters(c) = NoVoters(voted)
  BY <1>1, <1>3 DEF YesVoters, NoVoters
<1>6. /\ c.status = "PASSED" => Cardinality(YesVoters(c)) >= c.threshold
      /\ c.status = "REJECTED" => Cardinality(NoVoters(c)) >= c.threshold
  BY <1>1, <1>3, <1>5 DEF IsFinalizingVote
<1>7. 3 * c.threshold > 2 * Cardinality(c.voters)
  BY <1>3 DEF Sound
<1> QED
  BY <1>4, <1>6, <1>7 DEF Sound

\* MarkBallotExpired changes the status of a pending ballot only.
LEMMA ExpiredKeepsSound ==
    ASSUME NEW b, Sound(b)
    PROVE  Sound(Expired(b)) /\ Expired(b).status = "EXPIRED"
<1>1. Expired(b) = [voters |-> b.voters, votes |-> b.votes, threshold |-> b.threshold,
                    status |-> "EXPIRED", expiry |-> b.expiry]
  BY DEF Sound, BallotOK, Expired
<1> QED
  BY <1>1 DEF Sound, BallotOK, BallotStatuses

\* RecomputeBallotQuorum gives a pending ballot a sound list and threshold.
LEMMA RecomputeKeepsSound ==
    ASSUME NEW b, Sound(b), b.status = "PENDING", NEW E \in SUBSET Validators
    PROVE  LET c == RecomputeBallotQuorum(b, E)
           IN  Sound(c) /\ c.status = IF E = {} THEN "EXPIRED" ELSE "PENDING"
<1>1. CASE E = {}
  BY <1>1, ExpiredKeepsSound DEF RecomputeBallotQuorum
<1>2. CASE E # {}
  <2> DEFINE votes == [v \in E |-> IF v \in b.voters THEN b.votes[v] ELSE NotYet]
             q == Quorum(Cardinality(E))
  <2>1. RecomputeBallotQuorum(b, E) =
           [voters |-> E, votes |-> votes, threshold |-> q,
            status |-> "PENDING", expiry |-> b.expiry]
    BY <1>2, Zenon DEF RecomputeBallotQuorum, Sound, BallotOK
  <2>2. votes \in [E -> VoteResults \cup {NotYet}]
    BY DEF Sound, BallotOK
  <2>3. q \in Nat /\ 3 * q > 2 * Cardinality(E)
    BY VotersFinite, QuorumIsTwoThirds
  <2> HIDE DEF votes, q
  <2> QED
    BY <1>2, <2>1, <2>2, <2>3 DEF Sound, BallotOK
<1> QED
  BY <1>1, <1>2

-----------------------------------------------------------------------------
\* A list of voters with an accepted voter is not empty, so the caller's threshold,
\* two thirds plus one or all, exceeds two thirds of it.
LEMMA CallerBallotSound ==
    ASSUME TypeOK, NEW id \in BallotIds, NEW S \in CallerVoters(id), S # {}
    PROVE  Sound(CallerBallot(id, S))
<1>1. S \in SUBSET Validators
  BY DEF CallerVoters, TypeOK
<1>2. Cardinality(S) \in Nat /\ Cardinality(S) # 0
  BY <1>1, VotersFinite, FS_EmptySet
<1>3. VotesNeeded(id, S) \in Nat /\ 3 * VotesNeeded(id, S) > 2 * Cardinality(S)
  BY <1>2, QuorumIsTwoThirds DEF VotesNeeded
<1>4. height \in Nat
  BY DEF TypeOK
<1> QED
  BY <1>1, <1>3, <1>4, NewBallotSound DEF CallerBallot

\* A vote keeps the inductive invariant: the voted ballot is sound, the swept ones are
\* expired, and the indexes move with them.
LEMMA VoteStep ==
    ASSUME IInv, NEW id \in BallotIds, NEW v \in Validators, NEW r \in VoteResults,
           NEW S \in CallerVoters(id), Vote(id, v, r, S)
    PROVE  IInv'
<1> DEFINE new   == CallerBallot(id, S)
           open  == GetOrCreateBallot(ballots, id, new, height)
           voted == AddVote(open[id], v, r)
           b     == [voted EXCEPT !.status = IsFinalizingVote(voted)]
           swept == IF id \in DOMAIN ballots THEN {} ELSE Stale(ballots, height)
<1>1. /\ ballots' = [open EXCEPT ![id] = b]
      /\ CanAddVote(open[id], v)
      /\ ~IsExpired(open[id], height)
  BY DEF Vote, VoteOnBallot, VoteAccepted
<1>2. /\ DOMAIN open = DOMAIN ballots \cup {id}
      /\ open = [i \in DOMAIN open |-> open[i]]
      /\ open[id] = IF id \in DOMAIN ballots THEN ballots[id] ELSE new
      /\ \A i \in DOMAIN ballots \ {id} :
            open[i] = IF i \in swept THEN Expired(ballots[i]) ELSE ballots[i]
  <2>1. ballots = [i \in DOMAIN ballots |-> ballots[i]]
    BY DEF IInv, TypeOK
  <2> HIDE DEF new
  <2> QED
    BY <2>1, Zenon DEF GetOrCreateBallot, ExpireBallotsBeforeHeight
<1>3. Sound(open[id]) /\ open[id].status = "PENDING"
  <2>1. CASE id \in DOMAIN ballots
    BY <2>1, <1>1, <1>2 DEF IInv, CanAddVote
  <2>2. CASE id \notin DOMAIN ballots
    <3>1. open[id] = new /\ new.voters = S
      BY <2>2, <1>2 DEF CallerBallot, NewBallot
    <3>2. S # {}
      BY <3>1, <1>1 DEF CanAddVote
    <3> QED
      BY <3>1, <3>2, <1>1, CallerBallotSound DEF IInv, CanAddVote
  <2> QED
    BY <2>1, <2>2
<1>4. Sound(b) /\ b.status \in {"PENDING", "PASSED", "REJECTED"}
  <2>1. Sound(b)
    BY <1>1, <1>3, VoteKeepsSound
  <2>2. voted.status = "PENDING"
    BY <1>3 DEF AddVote, Sound, BallotOK
  <2>3. b.status = IsFinalizingVote(voted)
    BY <2>1, <1>3 DEF AddVote, Sound, BallotOK
  <2> QED
    BY <2>1, <2>2, <2>3 DEF IsFinalizingVote
<1> HIDE DEF b, new, open
<1>5. /\ DOMAIN ballots' = DOMAIN ballots \cup {id}
      /\ ballots' = [i \in DOMAIN ballots' |-> ballots'[i]]
      /\ ballots'[id] = b
      /\ \A i \in DOMAIN ballots \ {id} :
            ballots'[i] = IF i \in swept THEN Expired(ballots[i]) ELSE ballots[i]
  BY <1>1, <1>2, Zenon
<1>6. \A i \in DOMAIN ballots' : Sound(ballots'[i])
  BY <1>4, <1>5, ExpiredKeepsSound DEF IInv
<1>7. /\ swept \subseteq DOMAIN ballots \ {id}
      /\ \A i \in DOMAIN ballots \ {id} :
            ballots'[i].status = IF i \in swept THEN "EXPIRED" ELSE ballots[i].status
      /\ \A i \in swept : ballots[i].status = "PENDING"
  BY <1>5, ExpiredKeepsSound DEF IInv, Stale
<1>8. swept = IF id \in DOMAIN ballots THEN {} ELSE {i \in active : IsExpired(ballots[i], height)}
  BY Zenon DEF IInv, IndexAgreement, WithStatus, Stale
<1> DEFINE done == IF b.status = "PENDING" THEN {} ELSE {id}
<1>9. /\ active' = ((active \ swept) \cup {id}) \ done
      /\ expired' = expired \cup swept
      /\ finalized' = finalized \cup done
      /\ height' = height /\ eligible' = eligible
  <2>1. VoteOnBallot(ballots, id, CallerBallot(id, S), v, r, height)[id] = b
    BY <1>5 DEF Vote
  <2> QED
    BY <2>1, <1>8 DEF Vote
<1>10. id \in DOMAIN ballots => ballots[id].status = "PENDING"
  BY <1>2, <1>3
<1> HIDE DEF swept
<1>11. IndexAgreement'
  <2>1. active' = WithStatus({"PENDING"})'
    BY <1>4, <1>5, <1>7, <1>9, <1>10 DEF IInv, IndexAgreement, WithStatus
  <2>2. expired' = WithStatus({"EXPIRED"})'
    BY <1>4, <1>5, <1>7, <1>9, <1>10 DEF IInv, IndexAgreement, WithStatus
  <2>3. finalized' = WithStatus({"PASSED", "REJECTED"})'
    BY <1>4, <1>5, <1>7, <1>9, <1>10 DEF IInv, IndexAgreement, WithStatus
  <2> QED
    BY <2>1, <2>2, <2>3 DEF IndexAgreement
<1>12. TypeOK'
  BY <1>5, <1>6, <1>7, <1>9 DEF IInv, TypeOK, Sound
<1> QED
  BY <1>6, <1>11, <1>12 DEF IInv

-----------------------------------------------------------------------------
\* A recomputation keeps the inductive invariant.
LEMMA RecomputeStep ==
    ASSUME IInv, NEW id \in BallotIds, Recompute(id)
    PROVE  IInv'
<1> DEFINE c == RecomputeBallotQuorum(ballots[id], eligible)
<1>1. /\ id \in DOMAIN ballots
      /\ ballots[id].status = "PENDING"
      /\ ballots' = [ballots EXCEPT ![id] = c]
      /\ ballots = [i \in DOMAIN ballots |-> ballots[i]]
  BY DEF Recompute, IInv, TypeOK
<1>2. Sound(c) /\ c.status = IF eligible = {} THEN "EXPIRED" ELSE "PENDING"
  BY <1>1, RecomputeKeepsSound DEF IInv, TypeOK
<1> HIDE DEF c
<1>3. /\ DOMAIN ballots' = DOMAIN ballots
      /\ ballots' = [i \in DOMAIN ballots' |-> ballots'[i]]
      /\ ballots'[id] = c
      /\ \A i \in DOMAIN ballots \ {id} : ballots'[i] = ballots[i]
  BY <1>1, Zenon
<1>4. \A i \in DOMAIN ballots' : Sound(ballots'[i])
  BY <1>2, <1>3 DEF IInv
<1>5. IndexAgreement'
  BY <1>1, <1>2, <1>3 DEF IInv, IndexAgreement, WithStatus, Recompute
<1>6. TypeOK'
  BY <1>3, <1>4 DEF IInv, TypeOK, Sound, Recompute
<1> QED
  BY <1>4, <1>5, <1>6 DEF IInv

\* Deleting an expired ballot keeps the inductive invariant.
LEMMA DeleteStep ==
    ASSUME IInv, NEW id \in BallotIds, DeleteBallot(id)
    PROVE  IInv'
<1>1. /\ DOMAIN ballots' = DOMAIN ballots \ {id}
      /\ ballots' = [i \in DOMAIN ballots' |-> ballots'[i]]
      /\ \A i \in DOMAIN ballots' : ballots'[i] = ballots[i]
  BY DEF DeleteBallot
<1>2. IndexAgreement'
  BY <1>1 DEF IInv, IndexAgreement, WithStatus, DeleteBallot
<1>3. TypeOK'
  BY <1>1 DEF IInv, TypeOK, DeleteBallot
<1> QED
  BY <1>1, <1>2, <1>3 DEF IInv

\* The inductive invariant holds initially and every step keeps it.
THEOREM Inductive == Spec => []IInv
<1>1. Init => IInv
  BY DEF Init, IInv, TypeOK, IndexAgreement, WithStatus
<1>2. IInv /\ [Next]_vars => IInv'
  <2> SUFFICES ASSUME IInv, [Next]_vars PROVE IInv'
    OBVIOUS
  <2>1. CASE \E id \in BallotIds, v \in Validators, r \in VoteResults : \E S \in CallerVoters(id) :
                Vote(id, v, r, S)
    BY <2>1, VoteStep
  <2>2. CASE \E id \in BallotIds : Recompute(id)
    BY <2>2, RecomputeStep
  <2>3. CASE \E id \in BallotIds : DeleteBallot(id)
    BY <2>3, DeleteStep
  <2>4. CASE NextBlock
    BY <2>4 DEF IInv, TypeOK, IndexAgreement, WithStatus, NextBlock
  <2>5. CASE ChangeEligible
    BY <2>5 DEF IInv, TypeOK, IndexAgreement, WithStatus, ChangeEligible
  <2>6. CASE UNCHANGED vars
    BY <2>6 DEF IInv, TypeOK, IndexAgreement, WithStatus, vars
  <2> QED
    BY <2>1, <2>2, <2>3, <2>4, <2>5, <2>6 DEF Next
<1> QED
  BY <1>1, <1>2, PTL DEF Spec

\* TypeOK always holds: every ballot keeps one vote slot per listed voter.
THEOREM TypeCorrect == Spec => []TypeOK
  BY Inductive, PTL DEF IInv

\* The three index sets always partition the stored ballots by status.
THEOREM IndexesAgree == Spec => []IndexAgreement
  BY Inductive, PTL DEF IInv

\* A decision always has more than two thirds of the ballot's voters behind it.
THEOREM QuorumBehindDecision == Spec => []DecidedByQuorum
<1>1. IInv => DecidedByQuorum
  <2> SUFFICES ASSUME IInv, NEW i \in finalized
               PROVE  LET b == ballots[i]
                          side == IF b.status = "PASSED" THEN YesVoters(b) ELSE NoVoters(b)
                      IN  /\ Cardinality(side) >= b.threshold
                          /\ 3 * Cardinality(side) > 2 * Cardinality(b.voters)
    BY DEF DecidedByQuorum
  <2> DEFINE b == ballots[i]
             side == IF b.status = "PASSED" THEN YesVoters(b) ELSE NoVoters(b)
  <2>1. Sound(b) /\ b.status \in {"PASSED", "REJECTED"}
    BY DEF IInv, IndexAgreement, WithStatus
  <2>2. b.threshold \in Nat /\ b.voters \in SUBSET Validators
    BY <2>1 DEF Sound, BallotOK
  <2>3. side \in SUBSET Validators
    BY <2>2 DEF YesVoters, NoVoters
  <2>4. Cardinality(side) \in Nat /\ Cardinality(b.voters) \in Nat
    BY <2>2, <2>3, VotersFinite
  <2>5. Cardinality(side) >= b.threshold
    BY <2>1 DEF Sound
  <2>6. 3 * b.threshold > 2 * Cardinality(b.voters)
    BY <2>1 DEF Sound
  <2> HIDE DEF side, b
  <2>7. 3 * Cardinality(side) > 2 * Cardinality(b.voters)
    BY <2>2, <2>4, <2>5, <2>6
  <2> QED
    BY <2>5, <2>7 DEF side, b
<1> QED
  BY <1>1, Inductive, PTL

\* Two majorities of more than two thirds of one list share more than a third of it.
LEMMA Overlap ==
    ASSUME NEW S \in SUBSET Validators, NEW A \in SUBSET S, NEW B \in SUBSET S,
           3 * Cardinality(A) > 2 * Cardinality(S),
           3 * Cardinality(B) > 2 * Cardinality(S)
    PROVE  3 * Cardinality(A \cap B) > Cardinality(S)
<1>1. IsFiniteSet(S) /\ IsFiniteSet(A) /\ IsFiniteSet(B)
  BY VotersFinite, FS_Subset
<1>2. Cardinality(A \cup B) = Cardinality(A) + Cardinality(B) - Cardinality(A \cap B)
  BY <1>1, FS_Union
<1>3. Cardinality(A \cup B) <= Cardinality(S)
  BY <1>1, FS_Subset, A \cup B \in SUBSET S
<1>4. /\ Cardinality(S) \in Nat /\ Cardinality(A) \in Nat /\ Cardinality(B) \in Nat
      /\ Cardinality(A \cap B) \in Nat /\ Cardinality(A \cup B) \in Nat
  BY VotersFinite, A \cap B \in SUBSET Validators, A \cup B \in SUBSET Validators,
     A \in SUBSET Validators, B \in SUBSET Validators
<1> QED
  BY <1>2, <1>3, <1>4

\* Conflicting ballots that both passed over one list always share more than a third
\* of it.
THEOREM PassedBallotsOverlap == Spec => []PassedOverlap
<1>1. IInv => PassedOverlap
  <2> SUFFICES ASSUME IInv, NEW i \in finalized, NEW j \in finalized,
                      ballots[i].status = "PASSED", ballots[j].status = "PASSED",
                      ballots[i].voters = ballots[j].voters
               PROVE  3 * Cardinality(YesVoters(ballots[i]) \cap YesVoters(ballots[j]))
                         > Cardinality(ballots[i].voters)
    BY DEF PassedOverlap
  <2>1. ASSUME NEW k \in finalized, ballots[k].status = "PASSED"
        PROVE  /\ ballots[k].voters \in SUBSET Validators
               /\ YesVoters(ballots[k]) \in SUBSET ballots[k].voters
               /\ 3 * Cardinality(YesVoters(ballots[k])) > 2 * Cardinality(ballots[k].voters)
    <3>1. Sound(ballots[k])
      BY DEF IInv, IndexAgreement, WithStatus
    <3>2. ballots[k].voters \in SUBSET Validators /\ ballots[k].threshold \in Nat
      BY <3>1 DEF Sound, BallotOK
    <3>3. YesVoters(ballots[k]) \in SUBSET ballots[k].voters
      BY DEF YesVoters
    <3>4. Cardinality(YesVoters(ballots[k])) \in Nat /\ Cardinality(ballots[k].voters) \in Nat
      BY <3>2, <3>3, VotersFinite
    <3>5. /\ Cardinality(YesVoters(ballots[k])) >= ballots[k].threshold
          /\ 3 * ballots[k].threshold > 2 * Cardinality(ballots[k].voters)
      BY <2>1, <3>1 DEF Sound
    <3> QED
      BY <3>2, <3>3, <3>4, <3>5
  <2> DEFINE S == ballots[i].voters
             A == YesVoters(ballots[i])
             B == YesVoters(ballots[j])
  <2>2. /\ S \in SUBSET Validators /\ A \in SUBSET S /\ B \in SUBSET S
        /\ 3 * Cardinality(A) > 2 * Cardinality(S)
        /\ 3 * Cardinality(B) > 2 * Cardinality(S)
    BY <2>1, Zenon
  <2> HIDE DEF S, A, B
  <2>3. 3 * Cardinality(A \cap B) > Cardinality(S)
    BY <2>2, Overlap
  <2> QED
    BY <2>3 DEF S, A, B
<1> QED
  BY <1>1, Inductive, PTL

-----------------------------------------------------------------------------
\* What a vote does to the ballots it is not cast on, and to the one it is.
LEMMA VoteFrame ==
    ASSUME IInv, NEW id \in BallotIds, NEW v \in Validators, NEW r \in VoteResults,
           NEW S \in CallerVoters(id), Vote(id, v, r, S), NEW i \in DOMAIN ballots
    PROVE  /\ i \in DOMAIN ballots'
           /\ \/ ballots'[i] = ballots[i]
              \/ ballots[i].status = "PENDING" /\ ballots'[i] = Expired(ballots[i])
              \/ /\ i = id
                 /\ CanAddVote(ballots[i], v)
                 /\ ballots'[i].voters = ballots[i].voters
                 /\ ballots'[i].votes = [ballots[i].votes EXCEPT ![v] = r]
<1> DEFINE new   == CallerBallot(id, S)
           open  == GetOrCreateBallot(ballots, id, new, height)
           voted == AddVote(open[id], v, r)
           b     == [voted EXCEPT !.status = IsFinalizingVote(voted)]
<1>1. ballots' = [open EXCEPT ![id] = b] /\ CanAddVote(open[id], v)
  BY DEF Vote, VoteOnBallot, VoteAccepted
<1>2. ballots = [k \in DOMAIN ballots |-> ballots[k]]
  BY DEF IInv, TypeOK
<1>3. CASE i = id
  <2>1. open = ballots
    BY <1>3 DEF GetOrCreateBallot
  <2>2. BallotOK(ballots[i])
    BY DEF IInv, TypeOK
  <2>3. b.voters = ballots[i].voters /\ b.votes = [ballots[i].votes EXCEPT ![v] = r]
    BY <1>3, <2>1, <2>2 DEF AddVote, BallotOK
  <2> HIDE DEF b, open
  <2> QED
    BY <1>1, <1>2, <1>3, <2>1, <2>3
<1>4. CASE i # id
  <2> HIDE DEF new, b
  <2>1. /\ i \in DOMAIN open
        /\ open[i] = ballots[i] \/ (i \in Stale(ballots, height) /\ open[i] = Expired(ballots[i]))
    BY <1>2, <1>4 DEF GetOrCreateBallot, ExpireBallotsBeforeHeight
  <2> HIDE DEF open
  <2> QED
    BY <1>1, <1>4, <2>1 DEF Stale
<1> QED
  BY <1>3, <1>4

\* No step of the keeper reopens or alters a decided ballot.
THEOREM DecisionsAreFinal == Spec => TerminalIsFinal
<1> DEFINE Kept(i) == \/ ballots[i].status = "PENDING"
                      \/ i \in DOMAIN ballots' /\ ballots'[i] = ballots[i]
                      \/ ballots[i].status = "EXPIRED" /\ i \notin DOMAIN ballots'
<1>1. IInv /\ [Next]_vars => [\A i \in DOMAIN ballots : Kept(i)]_vars
  <2> SUFFICES ASSUME IInv, Next, NEW i \in DOMAIN ballots PROVE Kept(i)
    OBVIOUS
  <2>0. ballots = [k \in DOMAIN ballots |-> ballots[k]]
    BY DEF IInv, TypeOK
  <2>1. CASE \E id \in BallotIds, v \in Validators, r \in VoteResults : \E S \in CallerVoters(id) :
                Vote(id, v, r, S)
    <3>1. PICK id \in BallotIds, v \in Validators, r \in VoteResults : \E S \in CallerVoters(id) :
                Vote(id, v, r, S)
      BY <2>1
    <3>2. PICK S \in CallerVoters(id) : Vote(id, v, r, S)
      BY <3>1
    <3> QED
      BY <3>2, VoteFrame, Zenon DEF CanAddVote
  <2>2. CASE \E id \in BallotIds : Recompute(id)
    BY <2>0, <2>2 DEF Recompute
  <2>3. CASE \E id \in BallotIds : DeleteBallot(id)
    BY <2>3 DEF DeleteBallot
  <2>4. CASE NextBlock \/ ChangeEligible
    BY <2>4 DEF NextBlock, ChangeEligible
  <2> QED
    BY <2>1, <2>2, <2>3, <2>4 DEF Next
<1> QED
  BY <1>1, Inductive, PTL DEF Spec, TerminalIsFinal

\* A vote once recorded is never altered; only its voter's removal takes it away.
THEOREM VotesNeverChange == Spec => VotesAreKept
<1> DEFINE Kept(i) == \A v \in ballots[i].voters :
                         HasVoted(ballots[i], v) /\ v \in ballots'[i].voters
                            => ballots'[i].votes[v] = ballots[i].votes[v]
<1>1. IInv /\ [Next]_vars => [\A i \in DOMAIN ballots \cap DOMAIN ballots' : Kept(i)]_vars
  <2> SUFFICES ASSUME IInv, Next, NEW i \in DOMAIN ballots, i \in DOMAIN ballots' PROVE Kept(i)
    OBVIOUS
  <2>0. BallotOK(ballots[i]) /\ ballots = [k \in DOMAIN ballots |-> ballots[k]]
    BY DEF IInv, TypeOK
  <2>1. CASE \E id \in BallotIds, v \in Validators, r \in VoteResults : \E S \in CallerVoters(id) :
                Vote(id, v, r, S)
    <3>1. PICK id \in BallotIds, w \in Validators, r \in VoteResults : \E S \in CallerVoters(id) :
                Vote(id, w, r, S)
      BY <2>1
    <3>2. PICK S \in CallerVoters(id) : Vote(id, w, r, S)
      BY <3>1
    <3>3. CASE ballots'[i] = ballots[i]
      BY <3>3
    <3>4. CASE ballots'[i] = Expired(ballots[i])
      BY <2>0, <3>4 DEF Expired, BallotOK
    <3>5. CASE /\ CanAddVote(ballots[i], w)
               /\ ballots'[i].votes = [ballots[i].votes EXCEPT ![w] = r]
      BY <2>0, <3>5 DEF CanAddVote, HasVoted, BallotOK
    <3> QED
      BY <3>2, <3>3, <3>4, <3>5, VoteFrame
  <2>2. CASE \E id \in BallotIds : Recompute(id)
    <3>1. CASE ballots'[i] = ballots[i]
      BY <3>1
    <3>2. CASE ballots'[i] = RecomputeBallotQuorum(ballots[i], eligible)
      <4>1. CASE eligible = {}
        BY <2>0, <3>2, <4>1 DEF RecomputeBallotQuorum, Expired, BallotOK
      <4>2. CASE eligible # {}
        <5>1. /\ ballots'[i].voters = eligible
              /\ ballots'[i].votes = [v \in eligible |->
                     IF v \in ballots[i].voters THEN ballots[i].votes[v] ELSE NotYet]
          BY <2>0, <3>2, <4>2 DEF RecomputeBallotQuorum, BallotOK
        <5> QED
          BY <5>1
      <4> QED
        BY <4>1, <4>2
    <3> QED
      BY <2>0, <2>2, <3>1, <3>2 DEF Recompute
  <2>3. CASE \E id \in BallotIds : DeleteBallot(id)
    BY <2>3 DEF DeleteBallot
  <2>4. CASE NextBlock \/ ChangeEligible
    BY <2>4 DEF NextBlock, ChangeEligible
  <2> QED
    BY <2>1, <2>2, <2>3, <2>4 DEF Next
<1> QED
  BY <1>1, Inductive, PTL DEF Spec, VotesAreKept
-----------------------------------------------------------------------------
(***************************************************************************)
(* Sums.  SumOver folds over a set by a recursive function.  That such a   *)
(* function exists, and that every order of the elements gives one sum, is *)
(* shown by looking at a smallest set for which it would not be so.        *)
(***************************************************************************)
First(T) == CHOOSE v \in T : TRUE

Computes(f, g, S) ==
    g = [T \in SUBSET S |-> IF T = {} THEN 0 ELSE f[First(T)] + g[T \ {First(T)}]]

Sums(f, S) == CHOOSE g : Computes(f, g, S)

\* A set of finite sets has a smallest one.
LEMMA Smallest ==
  ASSUME NEW S, IsFiniteSet(S), NEW Q \in SUBSET (SUBSET S), Q # {}
  PROVE  \E T \in Q : \A U \in Q : U \subseteq T => U = T
<1>1. IsWellFoundedOn(StrictSubsetOrdering(S), SUBSET S)
  BY FS_StrictSubsetOrderingWellFounded, FS_FiniteSubsetsOfFinite, Zenon
<1>2. PICK T \in Q : \A U \in Q : ~(<<U, T>> \in StrictSubsetOrdering(S))
  BY <1>1, WFMin
<1> QED BY <1>2, Zenon DEF StrictSubsetOrdering

LEMMA FirstTaken ==
  ASSUME NEW T, T # {} PROVE First(T) \in T
  BY DEF First

LEMMA SumIsFold ==
  ASSUME NEW f, NEW S PROVE SumOver(f, S) = Sums(f, S)[S]
  BY Zenon DEF SumOver, MapThenFoldSet, Sums, Computes, First

LEMMA ComputesStep ==
  ASSUME NEW f, NEW g, NEW S, Computes(f, g, S), NEW T \in SUBSET S
  PROVE  g[T] = IF T = {} THEN 0 ELSE f[First(T)] + g[T \ {First(T)}]
<1> DEFINE h == [U \in SUBSET S |-> IF U = {} THEN 0 ELSE f[First(U)] + g[U \ {First(U)}]]
<1>1. h[T] = IF T = {} THEN 0 ELSE f[First(T)] + g[T \ {First(T)}]
  OBVIOUS
<1>2. g = h
  BY Zenon DEF Computes
<1> HIDE DEF h
<1> QED BY <1>1, <1>2

\* Two such functions agree where both are defined.
LEMMA SumsAgree ==
  ASSUME NEW f, NEW g, NEW h, NEW A, NEW B, IsFiniteSet(A), B \subseteq A,
         Computes(f, g, A), Computes(f, h, B)
  PROVE  g[B] = h[B]
<1> DEFINE Bad == {T \in SUBSET B : g[T] # h[T]}
<1> SUFFICES ASSUME Bad # {} PROVE FALSE
  OBVIOUS
<1>1. IsFiniteSet(B)
  BY FS_Subset
<1>2. PICK T \in Bad : \A U \in Bad : U \subseteq T => U = T
  <2>1. Bad \in SUBSET (SUBSET B)
    OBVIOUS
  <2> HIDE DEF Bad
  <2> QED BY <1>1, <2>1, Smallest
<1>3. /\ g[T] = IF T = {} THEN 0 ELSE f[First(T)] + g[T \ {First(T)}]
      /\ h[T] = IF T = {} THEN 0 ELSE f[First(T)] + h[T \ {First(T)}]
  BY <1>2, ComputesStep
<1>4. T # {}
  BY <1>2, <1>3
<1>5. T \ {First(T)} # T /\ T \ {First(T)} \in SUBSET B
  BY <1>2, <1>4, FirstTaken
<1>6. g[T \ {First(T)}] = h[T \ {First(T)}]
  BY <1>2, <1>5
<1> QED BY <1>2, <1>3, <1>6

LEMMA SumsExist ==
  ASSUME NEW f, NEW S, IsFiniteSet(S) PROVE Computes(f, Sums(f, S), S)
<1> DEFINE Bad == {T \in SUBSET S : ~ Computes(f, Sums(f, T), T)}
<1> SUFFICES ASSUME Bad # {} PROVE FALSE
  OBVIOUS
<1>1. PICK T \in Bad : \A U \in Bad : U \subseteq T => U = T
  <2>1. Bad \in SUBSET (SUBSET S)
    OBVIOUS
  <2> HIDE DEF Bad
  <2> QED BY <2>1, Smallest
<1>2. \A U : U \subseteq T /\ U # T => Computes(f, Sums(f, U), U) /\ IsFiniteSet(U)
  BY <1>1, FS_Subset
<1> DEFINE W(U) == U \ {First(U)}
           g == [U \in SUBSET T |-> IF U = {} THEN 0 ELSE f[First(U)] + Sums(f, W(U))[W(U)]]
<1>3. ASSUME NEW U \in SUBSET T, U # {} PROVE g[W(U)] = Sums(f, W(U))[W(U)]
  <2>1. PICK V : V = W(U)
    OBVIOUS
  <2>2. V \in SUBSET T /\ V # T
    BY <1>3, <2>1, FirstTaken
  <2>3. Computes(f, Sums(f, V), V) /\ IsFiniteSet(V)
    BY <1>2, <2>2
  <2>4. Sums(f, V)[V] = IF V = {} THEN 0 ELSE f[First(V)] + Sums(f, V)[W(V)]
    BY <2>3, ComputesStep
  <2>5. g[V] = IF V = {} THEN 0 ELSE f[First(V)] + Sums(f, W(V))[W(V)]
    BY <2>2
  <2>6. V # {} => Sums(f, V)[W(V)] = Sums(f, W(V))[W(V)]
    <3>1. W(V) \subseteq V
      OBVIOUS
    <3>2. W(V) \subseteq T /\ (V # {} => W(V) # T)
      BY <2>2, FirstTaken
    <3> QED BY <1>2, <2>3, <3>1, <3>2, SumsAgree
  <2> HIDE DEF g, W
  <2> QED BY <2>1, <2>4, <2>5, <2>6
<1>4. Computes(f, g, T)
  <2> DEFINE h == [U \in SUBSET T |-> IF U = {} THEN 0 ELSE f[First(U)] + g[W(U)]]
  <2>1. \A U \in SUBSET T : g[U] = h[U]
    <3> SUFFICES ASSUME NEW U \in SUBSET T PROVE g[U] = h[U]
      OBVIOUS
    <3>1. g[U] = IF U = {} THEN 0 ELSE f[First(U)] + Sums(f, W(U))[W(U)]
      OBVIOUS
    <3>2. h[U] = IF U = {} THEN 0 ELSE f[First(U)] + g[W(U)]
      BY Zenon
    <3> HIDE DEF g, h, W
    <3> QED BY <1>3, <3>1, <3>2
  <2>2. g = h
    <3> DEFINE a(U) == IF U = {} THEN 0 ELSE f[First(U)] + Sums(f, W(U))[W(U)]
               b(U) == IF U = {} THEN 0 ELSE f[First(U)] + g[W(U)]
    <3>1. g = [U \in SUBSET T |-> a(U)] /\ h = [U \in SUBSET T |-> b(U)]
      BY Zenon
    <3>2. g = [U \in SUBSET T |-> g[U]] /\ h = [U \in SUBSET T |-> h[U]]
      BY <3>1, Zenon
    <3> HIDE DEF g, h, a, b
    <3> QED BY <2>1, <3>2, Zenon
  <2> QED BY <2>2, Zenon DEF Computes
<1>5. Computes(f, Sums(f, T), T)
  <2> HIDE DEF g
  <2> QED BY <1>4 DEF Sums
<1> QED BY <1>1, <1>5

\* A sum is that of one element, whichever is first, and the rest.
LEMMA SumSteps ==
  ASSUME NEW f, NEW S, IsFiniteSet(S)
  PROVE  SumOver(f, S) = IF S = {} THEN 0 ELSE f[First(S)] + SumOver(f, S \ {First(S)})
<1>1. Computes(f, Sums(f, S), S)
  BY SumsExist
<1>2. Sums(f, S)[S] = IF S = {} THEN 0 ELSE f[First(S)] + Sums(f, S)[S \ {First(S)}]
  BY <1>1, ComputesStep
<1>3. PICK T : T = S \ {First(S)}
  OBVIOUS
<1>4. IsFiniteSet(T) /\ T \subseteq S
  BY <1>3, FS_Subset
<1>5. Computes(f, Sums(f, T), T)
  BY <1>4, SumsExist
<1>6. Sums(f, S)[T] = Sums(f, T)[T]
  BY <1>1, <1>4, <1>5, SumsAgree
<1>7. SumOver(f, S) = Sums(f, S)[S] /\ SumOver(f, T) = Sums(f, T)[T]
  BY SumIsFold
<1> QED BY <1>2, <1>3, <1>6, <1>7

\* Sums of natural numbers are natural numbers.
LEMMA SumNat ==
  ASSUME NEW f, NEW S, IsFiniteSet(S), \A v \in S : f[v] \in Nat
  PROVE  \A T \in SUBSET S : SumOver(f, T) \in Nat
<1> DEFINE Bad == {T \in SUBSET S : SumOver(f, T) \notin Nat}
<1> SUFFICES ASSUME Bad # {} PROVE FALSE
  OBVIOUS
<1>1. PICK T \in Bad : \A U \in Bad : U \subseteq T => U = T
  <2>1. Bad \in SUBSET (SUBSET S)
    OBVIOUS
  <2> HIDE DEF Bad
  <2> QED BY <2>1, Smallest
<1>2. IsFiniteSet(T)
  BY <1>1, FS_Subset
<1>3. SumOver(f, T) = IF T = {} THEN 0 ELSE f[First(T)] + SumOver(f, T \ {First(T)})
  BY <1>2, SumSteps
<1>4. T # {}
  BY <1>1, <1>3
<1>5. First(T) \in T
  BY <1>4, FirstTaken
<1>6. SumOver(f, T \ {First(T)}) \in Nat
  BY <1>1, <1>5
<1> QED BY <1>1, <1>3, <1>4, <1>5, <1>6

\* The order of the elements does not matter: any of them can come first.
LEMMA SumAny ==
  ASSUME NEW f, NEW S, IsFiniteSet(S), \A v \in S : f[v] \in Nat
  PROVE  \A T \in SUBSET S : \A x \in T : SumOver(f, T) = f[x] + SumOver(f, T \ {x})
<1> DEFINE Bad == {T \in SUBSET S : \E x \in T : SumOver(f, T) # f[x] + SumOver(f, T \ {x})}
<1> SUFFICES ASSUME Bad # {} PROVE FALSE
  OBVIOUS
<1>1. PICK T \in Bad : \A U \in Bad : U \subseteq T => U = T
  <2>1. Bad \in SUBSET (SUBSET S)
    OBVIOUS
  <2> HIDE DEF Bad
  <2> QED BY <2>1, Smallest
<1>2. PICK x \in T : SumOver(f, T) # f[x] + SumOver(f, T \ {x})
  BY <1>1
<1>3. IsFiniteSet(T)
  BY <1>1, FS_Subset
<1>4. PICK y \in T : SumOver(f, T) = f[y] + SumOver(f, T \ {y})
  BY <1>2, <1>3, SumSteps, FirstTaken
<1>5. y # x
  BY <1>2, <1>4
<1>6. SumOver(f, T \ {y}) = f[x] + SumOver(f, (T \ {y}) \ {x})
  BY <1>1, <1>2, <1>4, <1>5, Zenon
<1>7. SumOver(f, T \ {x}) = f[y] + SumOver(f, (T \ {x}) \ {y})
  BY <1>1, <1>2, <1>4, <1>5, Zenon
<1>8. PICK R \in SUBSET S : R = (T \ {x}) \ {y} /\ R = (T \ {y}) \ {x}
  BY <1>1, Zenon
<1>9. f[x] \in Nat /\ f[y] \in Nat /\ SumOver(f, R) \in Nat
  BY <1>1, <1>2, <1>4, <1>8, SumNat
<1>10. /\ SumOver(f, T) = f[y] + (f[x] + SumOver(f, R))
       /\ f[x] + SumOver(f, T \ {x}) = f[x] + (f[y] + SumOver(f, R))
  BY <1>4, <1>6, <1>7, <1>8
<1>11. f[y] + (f[x] + SumOver(f, R)) = f[x] + (f[y] + SumOver(f, R))
  BY <1>9
<1> QED BY <1>2, <1>10, <1>11

\* More elements never lower a sum.
LEMMA SumGrows ==
  ASSUME NEW f, NEW S, IsFiniteSet(S), \A v \in S : f[v] \in Nat, NEW A \in SUBSET S
  PROVE  SumOver(f, A) <= SumOver(f, S)
<1> DEFINE Bad == {T \in SUBSET S : A \subseteq T /\ ~(SumOver(f, A) <= SumOver(f, T))}
<1> SUFFICES ASSUME Bad # {} PROVE FALSE
  OBVIOUS
<1>1. PICK T \in Bad : \A U \in Bad : U \subseteq T => U = T
  <2>1. Bad \in SUBSET (SUBSET S)
    OBVIOUS
  <2> HIDE DEF Bad
  <2> QED BY <2>1, Smallest
<1>2. SumOver(f, A) \in Nat /\ SumOver(f, T) \in Nat
  BY <1>1, SumNat
<1>3. PICK x \in T : x \notin A
  <2>1. A \subseteq T /\ A # T
    BY <1>1, <1>2
  <2> QED BY <2>1
<1>4. PICK R \in SUBSET S : R = T \ {x}
  BY <1>1, Zenon
<1>5. SumOver(f, T) = f[x] + SumOver(f, R) /\ SumOver(f, R) \in Nat /\ f[x] \in Nat
  BY <1>1, <1>3, <1>4, SumNat, SumAny
<1>6. SumOver(f, A) <= SumOver(f, R)
  BY <1>1, <1>3, <1>4
<1> QED BY <1>1, <1>2, <1>5, <1>6

LEMMA Distributes ==
  ASSUME NEW a \in Nat, NEW b \in Nat, NEW x \in Nat, NEW y \in Nat, NEW u \in Nat, NEW w \in Nat,
         a * x <= b * u, a * y <= b * w
  PROVE  a * (x + y) <= b * (u + w)
<1>1. a * (x + y) = a * x + a * y /\ b * (u + w) = b * u + b * w
  OBVIOUS
<1>2. a * x \in Nat /\ a * y \in Nat /\ b * u \in Nat /\ b * w \in Nat
  OBVIOUS
<1> QED BY <1>1, <1>2

\* What holds of the terms, up to two factors, holds of the sums.
LEMMA SumBounded ==
  ASSUME NEW f, NEW h, NEW S, IsFiniteSet(S), NEW a \in Nat, NEW b \in Nat,
         \A v \in S : f[v] \in Nat /\ h[v] \in Nat /\ a * f[v] <= b * h[v]
  PROVE  a * SumOver(f, S) <= b * SumOver(h, S)
<1> DEFINE Bad == {T \in SUBSET S : ~(a * SumOver(f, T) <= b * SumOver(h, T))}
<1> SUFFICES ASSUME Bad # {} PROVE FALSE
  OBVIOUS
<1>1. PICK T \in Bad : \A U \in Bad : U \subseteq T => U = T
  <2>1. Bad \in SUBSET (SUBSET S)
    OBVIOUS
  <2> HIDE DEF Bad
  <2> QED BY <2>1, Smallest
<1>2. IsFiniteSet(T)
  BY <1>1, FS_Subset
<1>3. /\ SumOver(f, T) = IF T = {} THEN 0 ELSE f[First(T)] + SumOver(f, T \ {First(T)})
      /\ SumOver(h, T) = IF T = {} THEN 0 ELSE h[First(T)] + SumOver(h, T \ {First(T)})
  BY <1>2, SumSteps
<1>4. T # {}
  <2>1. a * 0 = 0 /\ b * 0 = 0
    OBVIOUS
  <2> QED BY <1>1, <1>3, <2>1
<1>5. PICK x \in T : x = First(T)
  BY <1>4, FirstTaken
<1>6. PICK R \in SUBSET S : R = T \ {x}
  BY <1>1, Zenon
<1>7. a * SumOver(f, R) <= b * SumOver(h, R)
  BY <1>1, <1>5, <1>6
<1>8. SumOver(f, R) \in Nat /\ SumOver(h, R) \in Nat
  BY <1>6, SumNat
<1>9. f[x] \in Nat /\ h[x] \in Nat /\ a * f[x] <= b * h[x]
  BY <1>1, <1>5
<1>10. a * (f[x] + SumOver(f, R)) <= b * (h[x] + SumOver(h, R))
  BY <1>7, <1>8, <1>9, Distributes
<1> QED BY <1>1, <1>3, <1>4, <1>5, <1>6, <1>10
-----------------------------------------------------------------------------
LEMMA Divides ==
  ASSUME NEW n \in Nat, NEW d \in Nat \ {0}
  PROVE  /\ n \div d \in Nat /\ n % d \in 0 .. d - 1
         /\ n = d * (n \div d) + (n % d) /\ d * (n \div d) <= n
  OBVIOUS

LEMMA TimesMonotone ==
  ASSUME NEW a \in Nat, NEW x \in Nat, NEW y \in Nat, x <= y
  PROVE  a * x <= a * y
  OBVIOUS

LEMMA TimesCancels ==
  ASSUME NEW a \in Nat \ {0}, NEW x \in Nat, NEW y \in Nat, a * x <= y * a
  PROVE  x <= y
<1> SUFFICES ASSUME x >= y + 1 PROVE FALSE
  OBVIOUS
<1>1. a * (y + 1) <= a * x
  BY TimesMonotone
<1>2. a * (y + 1) = y * a + a
  OBVIOUS
<1> QED BY <1>1, <1>2

LEMMA TimesNat ==
  ASSUME NEW a \in Nat, NEW b \in Nat PROVE a * b \in Nat
  OBVIOUS

\* The constants: the boost on top is part of the boosted weight.
LEMMA BoostConstants ==
  /\ Precision \in Nat \ {0} /\ BoostMultiplier \in Nat \ {0} /\ ExtraBoostPortion \in Nat
  /\ ExtraBoostPortion <= BoostMultiplier
  BY PrecisionAssumption DEF BoostMultiplier, ExtraBoostPortion

\* A reward times the total power is no more than the fees times the boosted power.
LEMMA RewardBounded ==
  ASSUME NEW p \in Nat, NEW fees \in Nat, NEW total \in Nat \ {0}
  PROVE  /\ fees * ((p * ExtraBoostPortion * Precision) \div total) \in Nat
         /\ total * (fees * ((p * ExtraBoostPortion * Precision) \div total))
              <= (fees * Precision) * (p * BoostMultiplier)
<1>1. PICK E \in Nat, B \in Nat, P \in Nat :
         E = ExtraBoostPortion /\ B = BoostMultiplier /\ P = Precision /\ E <= B
  BY BoostConstants
<1>2. PICK n \in Nat : n = p * E * P
  BY TimesNat
<1>3. PICK q \in Nat : q = n \div total /\ total * q <= n
  BY Divides
<1>4. fees * q \in Nat /\ fees * P \in Nat /\ p * B \in Nat /\ total * q \in Nat /\ p * E \in Nat
  BY TimesNat
<1>5. total * (fees * q) <= fees * n
  <2>1. fees * (total * q) <= fees * n
    BY <1>3, <1>4, TimesMonotone
  <2>2. fees * (total * q) = total * (fees * q)
    OBVIOUS
  <2> QED BY <2>1, <2>2
<1>6. fees * n <= (fees * P) * (p * B)
  <2>1. p * E <= p * B
    BY <1>1, TimesMonotone
  <2>2. (fees * P) * (p * E) <= (fees * P) * (p * B)
    BY <1>4, <2>1, TimesMonotone
  <2>3. fees * n = (fees * P) * (p * E)
    BY <1>2
  <2> QED BY <2>2, <2>3
<1>7. fees * n \in Nat /\ total * (fees * q) \in Nat /\ (fees * P) * (p * B) \in Nat
  BY <1>4, TimesNat
<1>8. total * (fees * q) <= (fees * P) * (p * B)
  BY <1>5, <1>6, <1>7
<1> QED BY <1>1, <1>2, <1>3, <1>4, <1>8

\* The boost is paid out of the fees: its whole is never more than they are.
LEMMA AllocatedBounded ==
  ASSUME NEW voters \in SUBSET Stakers, NEW uvs \in SUBSET voters, NEW fees \in Nat,
         SumOver(Power, voters) # 0
  PROVE  Allocated(fees, voters, uvs) \in Nat /\ Allocated(fees, voters, uvs) <= fees * Precision
<1> DEFINE w == [v \in voters |-> Power[v] * (IF v \in uvs THEN BoostMultiplier ELSE Precision)]
           A == voters \cap uvs
           total == SumOver(w, voters)
           r == [v \in A |-> Reward(v, fees, total)]
<1>1. IsFiniteSet(voters) /\ IsFiniteSet(A) /\ \A v \in voters : Power[v] \in Nat
  BY StakersAssumption, FS_Subset
<1>2. \A v \in voters : w[v] \in Nat /\ 1 * Power[v] <= 1 * w[v]
  <2> SUFFICES ASSUME NEW v \in voters PROVE w[v] \in Nat /\ 1 * Power[v] <= 1 * w[v]
    OBVIOUS
  <2>1. PICK p \in Nat, m \in Nat \ {0} :
          p = Power[v] /\ m = (IF v \in uvs THEN BoostMultiplier ELSE Precision)
    BY <1>1, BoostConstants
  <2>2. p * m \in Nat /\ p * 1 <= p * m
    BY TimesNat, TimesMonotone
  <2> QED BY <2>1, <2>2
<1>3. \A v \in A : w[v] = Power[v] * BoostMultiplier
  OBVIOUS
<1> HIDE DEF w
<1>4. total \in Nat \ {0}
  <2>1. total \in Nat /\ SumOver(Power, voters) \in Nat
    BY <1>1, <1>2, SumNat, Zenon
  <2>2. 1 * SumOver(Power, voters) <= 1 * total
    BY <1>1, <1>2, SumBounded
  <2> QED BY <2>1, <2>2
<1> HIDE DEF total
<1>5. \A v \in A : r[v] \in Nat /\ total * r[v] <= (fees * Precision) * w[v]
  <2> SUFFICES ASSUME NEW v \in A PROVE r[v] \in Nat /\ total * r[v] <= (fees * Precision) * w[v]
    OBVIOUS
  <2>1. r[v] = fees * ((Power[v] * ExtraBoostPortion * Precision) \div total)
    BY DEF Reward
  <2>2. Power[v] \in Nat
    BY <1>1
  <2> HIDE DEF r
  <2> QED BY <1>3, <1>4, <2>1, <2>2, RewardBounded, Zenon
<1>6. Allocated(fees, voters, uvs) = SumOver(r, A)
  BY DEF Allocated, EffectiveTotalPower, total, w
<1> HIDE DEF r
<1>7. fees * Precision \in Nat
  BY BoostConstants, TimesNat
<1>8. total * SumOver(r, A) <= (fees * Precision) * SumOver(w, A)
  BY <1>1, <1>2, <1>4, <1>5, <1>7, SumBounded
<1>9. SumOver(w, A) <= total /\ SumOver(w, A) \in Nat
  BY <1>1, <1>2, SumGrows, SumNat DEF total
<1>10. SumOver(r, A) \in Nat
  BY <1>1, <1>5, SumNat
<1>11. total * SumOver(r, A) <= (fees * Precision) * total
  <2>1. (fees * Precision) * SumOver(w, A) <= (fees * Precision) * total
    BY <1>4, <1>7, <1>9, TimesMonotone
  <2>2. /\ (fees * Precision) * SumOver(w, A) \in Nat /\ (fees * Precision) * total \in Nat
        /\ total * SumOver(r, A) \in Nat
    BY <1>4, <1>7, <1>9, <1>10, TimesNat
  <2> QED BY <1>8, <2>1, <2>2
<1> QED BY <1>4, <1>6, <1>7, <1>10, <1>11, TimesCancels

\* Fees less the whole coins of a boost, with its fraction added and truncated again.
LEMMA NothingKept ==
  ASSUME NEW fees \in Nat, NEW allocated \in Nat, allocated <= fees * Precision
  PROVE  \E extra, rest \in Nat :
            /\ extra = allocated \div Precision
            /\ rest = RemainingFinal(fees, extra, allocated % Precision)
            /\ fees = extra + rest
            /\ allocated - extra * Precision \in 0 .. Precision - 1
<1>1. PICK P \in Nat \ {0}, e \in Nat, c \in 0 .. Precision - 1 :
         /\ P = Precision /\ e = allocated \div Precision /\ c = allocated % Precision
         /\ allocated = P * e + c
  BY BoostConstants, Divides
<1>2. e <= fees
  <2>1. P * e <= fees * P
    BY <1>1, TimesNat
  <2> QED BY <1>1, <2>1, TimesCancels
<1>3. PICK k \in Nat : k = fees - e
  BY <1>2
<1>4. (k * P + c) \div P = k
  <2>1. k * P + c = P * k + c
    BY <1>1
  <2> QED BY <1>1, <2>1
<1>5. RemainingFinal(fees, e, c) = k
  BY <1>1, <1>2, <1>3, <1>4 DEF RemainingFinal
<1>6. allocated - e * P = c
  BY <1>1
<1>7. fees = e + k
  BY <1>3
<1>8. allocated - e * Precision \in 0 .. Precision - 1
  BY <1>1, <1>6, Zenon
<1>9. e = allocated \div Precision /\ k = RemainingFinal(fees, e, allocated % Precision)
  BY <1>1, <1>5, Zenon
<1> QED BY <1>7, <1>8, <1>9, Zenon
-----------------------------------------------------------------------------
\* The debt of x/distribution beyond what it holds.
Excess == owed - distribution * Precision

\* Blocks whose boost has been paid.
Boosted == IF stage = "uvalidator" THEN block - 2 ELSE block - 1

RewardsInv ==
    /\ collector \in Nat /\ distribution \in Nat /\ owed \in Nat /\ module = 0
    /\ block \in Nat \ {0} /\ stage \in {"transactions", "uvalidator", "distribution"}
    /\ stage # "transactions" => block >= 2
    /\ Excess \in Nat /\ Excess <= Boosted * (Precision - 1)

LEMMA RewardsInvInit == RewardsInit => RewardsInv
<1> SUFFICES ASSUME RewardsInit PROVE RewardsInv
  OBVIOUS
<1>1. PICK P \in Nat \ {0} : P = Precision
  BY BoostConstants
<1>2. 0 * P = 0 /\ 0 * (P - 1) = 0
  OBVIOUS
<1> QED BY <1>1, <1>2 DEF RewardsInit, RewardsInv, Excess, Boosted

LEMMA CollectKeeps ==
  ASSUME RewardsInv, NEW fees \in Nat, CollectFees(fees) PROVE RewardsInv'
<1>1. Excess' = Excess /\ Boosted' = Boosted
  BY DEF CollectFees, Excess, Boosted, RewardsInv
<1>2. /\ collector' \in Nat /\ distribution' \in Nat /\ owed' \in Nat /\ module' = 0
      /\ block' \in Nat \ {0} /\ stage' = "uvalidator" /\ block' >= 2
  BY DEF CollectFees, RewardsInv
<1>3. Excess \in Nat /\ Excess <= Boosted * (Precision - 1)
  BY DEF RewardsInv
<1> QED BY <1>1, <1>2, <1>3 DEF RewardsInv

LEMMA AllocateKeeps ==
  ASSUME RewardsInv, NEW voters \in SUBSET Stakers, NEW uvs \in SUBSET voters,
         AllocateTokens(voters, uvs)
  PROVE  RewardsInv'
<1>1. PICK P \in Nat \ {0}, k \in Nat :
        P = Precision /\ k = Boosted /\ Boosted' = k + 1 /\ (k + 1) * (P - 1) = k * (P - 1) + (P - 1)
  <2>1. Boosted \in Nat /\ Boosted' = Boosted + 1
    BY DEF AllocateTokens, RewardsInv, Boosted
  <2>2. PICK P \in Nat \ {0} : P = Precision
    BY BoostConstants
  <2>3. \A k \in Nat : (k + 1) * (P - 1) = k * (P - 1) + (P - 1)
    OBVIOUS
  <2> QED BY <2>1, <2>2, <2>3
<1>2. /\ collector \in Nat /\ distribution \in Nat /\ owed \in Nat /\ module = 0 /\ Excess \in Nat
      /\ block' = block /\ block \in Nat \ {0} /\ block >= 2 /\ stage' = "distribution"
  BY DEF AllocateTokens, RewardsInv
<1>3. k * (P - 1) \in Nat /\ Excess <= k * (P - 1)
  BY <1>1, TimesNat DEF RewardsInv
<1>4. CASE SumOver(Power, voters) = 0 \/ collector = 0
  <2>1. UNCHANGED <<collector, module, distribution, owed>>
    BY <1>4 DEF AllocateTokens
  <2>2. Excess' = Excess
    BY <2>1 DEF Excess
  <2>3. Excess' <= Boosted' * (P - 1)
    BY <1>1, <1>2, <1>3, <2>2
  <2> QED BY <1>1, <1>2, <2>1, <2>2, <2>3 DEF RewardsInv
<1>5. CASE SumOver(Power, voters) # 0 /\ collector # 0
  <2>1. PICK allocated \in Nat : /\ allocated = Allocated(collector, voters, uvs)
                                 /\ allocated <= collector * Precision
    BY <1>2, <1>5, AllocatedBounded
  <2>2. PICK extra, rest \in Nat :
          /\ extra = allocated \div Precision
          /\ rest = RemainingFinal(collector, extra, allocated % Precision)
          /\ collector = extra + rest
          /\ allocated - extra * Precision \in 0 .. Precision - 1
    BY <1>2, <2>1, NothingKept
  <2>3. /\ owed' = owed + allocated /\ distribution' = distribution + extra
        /\ collector' = rest /\ module' = module + collector - extra - rest
    BY <1>5, <2>1, <2>2 DEF AllocateTokens, ExtraCoins
  <2>4. module' = 0
    <3>1. module' = 0 + (extra + rest) - extra - rest
      BY <1>2, <2>2, <2>3, Zenon
    <3> QED BY <3>1
  <2>5. Excess' = Excess + (allocated - extra * P)
    <3>1. (distribution + extra) * P = distribution * P + extra * P
      BY <1>2
    <3>2. distribution * P \in Nat /\ extra * P \in Nat
      BY <1>2, TimesNat
    <3> QED BY <1>1, <1>2, <2>3, <3>1, <3>2 DEF Excess
  <2>6. Excess' \in Nat /\ Excess' <= Boosted' * (P - 1)
    BY <1>1, <1>2, <1>3, <2>2, <2>5
  <2>7. collector' \in Nat /\ distribution' \in Nat /\ owed' \in Nat
    BY <1>2, <2>3
  <2> QED BY <1>1, <1>2, <2>4, <2>6, <2>7 DEF RewardsInv
<1> QED BY <1>4, <1>5

LEMMA DistributeKeeps ==
  ASSUME RewardsInv, Distribute PROVE RewardsInv'
<1>1. PICK P \in Nat \ {0} : P = Precision
  BY BoostConstants
<1>2. Boosted' = Boosted
  BY DEF Distribute, Boosted
<1>3. Excess' = Excess
  <2>1. collector \in Nat /\ distribution \in Nat /\ owed \in Nat
    BY DEF RewardsInv
  <2>2. (distribution + collector) * P = distribution * P + collector * P
    BY <2>1
  <2>3. distribution * P \in Nat /\ collector * P \in Nat
    BY <2>1, TimesNat
  <2> QED BY <1>1, <2>1, <2>2, <2>3 DEF Distribute, Excess
<1>4. /\ collector' \in Nat /\ distribution' \in Nat /\ owed' \in Nat /\ module' = 0
      /\ block' \in Nat \ {0} /\ stage' = "transactions"
  BY <1>1, TimesNat DEF Distribute, RewardsInv
<1>5. Excess \in Nat /\ Excess <= Boosted * (Precision - 1)
  BY DEF RewardsInv
<1> QED BY <1>2, <1>3, <1>4, <1>5 DEF RewardsInv

LEMMA RewardsInvStep == RewardsInv /\ [RewardsNext]_rewardVars => RewardsInv'
<1> SUFFICES ASSUME RewardsInv, [RewardsNext]_rewardVars PROVE RewardsInv'
  OBVIOUS
<1>1. CASE UNCHANGED rewardVars
  BY <1>1 DEF RewardsInv, rewardVars, Excess, Boosted
<1>2. ASSUME NEW fees \in Fees, CollectFees(fees) PROVE RewardsInv'
  <2>1. fees \in Nat
    BY FeesAssumption
  <2> QED BY <1>2, <2>1, CollectKeeps
<1>3. ASSUME NEW voters \in SUBSET Stakers, NEW uvs \in SUBSET voters,
             AllocateTokens(voters, uvs)
      PROVE  RewardsInv'
  BY <1>3, AllocateKeeps
<1>4. CASE Distribute
  BY <1>4, DistributeKeeps
<1> QED BY <1>1, <1>2, <1>3, <1>4 DEF RewardsNext

\* AllocateTokens of x/uvalidator passes all fees on, for any validators, powers, precision
\* and fees, and x/distribution owes no less than it was given and less than a coin more
\* for every block: the boosts of a block never add up to more than its fees, and the
\* fraction they are rounded by is all that is credited twice.
THEOREM RewardsBacked == RewardsSpec => []OwedIsBacked
<1>1. RewardsInv => OwedIsBacked
  <2> SUFFICES ASSUME RewardsInv PROVE OwedIsBacked
    OBVIOUS
  <2>1. PICK P \in Nat \ {0}, e \in Int, d \in Nat :
           P = Precision /\ e = owed - d /\ d = distribution * P
    BY BoostConstants, TimesNat DEF RewardsInv
  <2>2. e \in Nat /\ e <= Boosted * (P - 1) /\ owed \in Nat
    BY <2>1 DEF RewardsInv, Excess
  <2>3. Boosted * (P - 1) <= (block - 1) * (P - 1)
    <3>1. Boosted \in Nat /\ block - 1 \in Nat /\ Boosted <= block - 1
      BY DEF RewardsInv, Boosted
    <3>2. \A a, b \in Nat : a <= b => a * (P - 1) <= b * (P - 1)
      OBVIOUS
    <3> QED BY <3>1, <3>2
  <2>4. Boosted * (P - 1) \in Int /\ (block - 1) * (P - 1) \in Int
    BY <2>1 DEF RewardsInv, Boosted
  <2> QED BY <2>1, <2>2, <2>3, <2>4 DEF RewardsInv, OwedIsBacked
<1> QED BY <1>1, RewardsInvInit, RewardsInvStep, PTL DEF RewardsSpec
=============================================================================
