---------------------------- MODULE KeeperProofs ----------------------------
(***************************************************************************)
(* Proofs about two keepers with a small state of their own.  The first    *)
(* part is about FundMigration, for any validators, chains, keys and       *)
(* number of migrations.  The second is about ChainMeta, for any oracles,  *)
(* prices and heights: the votes are kept once per oracle, the contract    *)
(* has what the last write told it, and a median of fresh votes lies       *)
(* between two of the reliable ones when these are a majority.             *)
(***************************************************************************)
EXTENDS FundMigration, ChainMeta, FiniteSetTheorems, TLAPS

\* The records are numbered from zero without a gap, so that the next id is fresh.
Numbered == \E n \in Nat : DOMAIN migrations = 0 .. (n - 1)

Forward(m) == m.old \in Nat /\ m.cur \in Nat /\ m.old < m.cur /\ m.cur <= keys

MigrationInv ==
    /\ keys \in Nat
    /\ Numbered
    /\ PendingIndexExact
    /\ OneOpenPerChain
    /\ \A i \in DOMAIN migrations :
          /\ migrations[i] \in [old : Nat, cur : Nat, chain : Chains, status : {"PENDING", "COMPLETED", "FAILED"},
                                tx : TxHashes \cup {NoTx}]
          /\ Forward(migrations[i])

LEMMA NextIdIsFresh ==
    ASSUME Numbered
    PROVE  /\ NextMigrationId \in Nat
           /\ NextMigrationId \notin DOMAIN migrations
           /\ DOMAIN migrations \cup {NextMigrationId} = 0 .. ((NextMigrationId + 1) - 1)
<1>1. PICK n \in Nat : DOMAIN migrations = 0 .. (n - 1)
  BY DEF Numbered
<1>2. Cardinality(0 .. (n - 1)) = n
  <2>1. Cardinality(0 .. (n - 1)) = IF 0 > n - 1 THEN 0 ELSE (n - 1) - 0 + 1
    BY FS_Interval
  <2> QED BY <2>1
<1> QED BY <1>1, <1>2 DEF NextMigrationId

LEMMA InitiateKeeps ==
    ASSUME MigrationInv, NEW old \in 1 .. MaxKeys, NEW chain \in Chains, NEW on \in BOOLEAN,
           NEW busy \in BOOLEAN, InitiateFundMigration(old, chain, on, busy)
    PROVE  MigrationInv'
<1> DEFINE k == NextMigrationId
           new == [old |-> old, cur |-> keys, chain |-> chain, status |-> "PENDING", tx |-> NoTx]
<1>1. /\ k \in Nat /\ k \notin DOMAIN migrations
      /\ DOMAIN migrations \cup {k} = 0 .. ((k + 1) - 1)
  BY NextIdIsFresh DEF MigrationInv
<1>2. /\ migrations' = [i \in DOMAIN migrations \cup {k} |-> IF i = k THEN new ELSE migrations[i]]
      /\ pending' = pending \cup {k} /\ keys' = keys
  BY DEF InitiateFundMigration, CurrentKey
<1> HIDE DEF k
<1>3. /\ DOMAIN migrations' = DOMAIN migrations \cup {k}
      /\ migrations'[k] = new
      /\ \A i \in DOMAIN migrations : migrations'[i] = migrations[i]
  BY <1>1, <1>2
<1>4. Numbered'
  <2>1. DOMAIN migrations' = 0 .. ((k + 1) - 1) /\ k + 1 \in Nat
    BY <1>1, <1>3
  <2> QED BY <2>1 DEF Numbered
<1>5. PendingIndexExact'
  BY <1>1, <1>2, <1>3 DEF MigrationInv, PendingIndexExact
<1>6. OneOpenPerChain'
  <2>1. \A i \in DOMAIN migrations : migrations[i].status = "PENDING" => migrations[i].chain # chain
    BY DEF InitiateFundMigration, HasPendingMigration, MigrationInv, PendingIndexExact
  <2> QED BY <1>3, <2>1 DEF MigrationInv, OneOpenPerChain
<1>7. old \in Nat /\ old < keys /\ keys \in Nat
  BY DEF InitiateFundMigration, MigratableKey, CurrentKey, MigrationInv
<1> QED BY <1>2, <1>3, <1>4, <1>5, <1>6, <1>7 DEF MigrationInv, Forward

LEMMA VoteKeeps ==
    ASSUME MigrationInv, NEW v \in Validators, NEW i \in MigrationIds, NEW tx \in TxHashes,
           NEW success \in BOOLEAN, NEW eligible \in SUBSET Validators,
           VoteFundMigration(v, i, tx, success, eligible)
    PROVE  MigrationInv'
<1>1. IsOpenMigration(i) /\ keys' = keys
  BY DEF VoteFundMigration
<1>2. CASE UNCHANGED <<migrations, pending>>
  BY <1>1, <1>2 DEF MigrationInv, Numbered, PendingIndexExact, OneOpenPerChain, Forward
<1>3. CASE migrations' = Finalize(i, tx, success) /\ pending' = PendingWithout(i, success)
  <2>1. /\ DOMAIN migrations' = DOMAIN migrations
        /\ \A j \in DOMAIN migrations : j # i => migrations'[j] = migrations[j]
        /\ migrations'[i] = [migrations[i] EXCEPT !.status = StatusOf(success), !.tx = tx]
        /\ i \in DOMAIN migrations /\ StatusOf(success) \in {"COMPLETED", "FAILED"}
    BY <1>1, <1>3 DEF Finalize, IsOpenMigration, StatusOf
  <2>2. /\ migrations'[i] \in [old : Nat, cur : Nat, chain : Chains, status : {"COMPLETED", "FAILED"},
                               tx : TxHashes \cup {NoTx}]
        /\ migrations'[i].old = migrations[i].old /\ migrations'[i].cur = migrations[i].cur
    BY <2>1, Zenon DEF MigrationInv
  <2>3. PendingIndexExact'
    BY <1>3, <2>1, <2>2, Zenon DEF MigrationInv, PendingIndexExact, PendingWithout
  <2>4. OneOpenPerChain'
    BY <2>1, <2>2, Zenon DEF MigrationInv, OneOpenPerChain
  <2> QED BY <1>1, <2>1, <2>2, <2>3, <2>4, Zenon DEF MigrationInv, Numbered, Forward
<1> QED BY <1>2, <1>3 DEF VoteFundMigration

\* The strengthened invariant, for every behaviour.
LEMMA MigrationInvariant == Spec => []MigrationInv
<1>1. Init => MigrationInv
  <2> SUFFICES ASSUME Init PROVE MigrationInv
    OBVIOUS
  <2>1. DOMAIN migrations = {} /\ pending = {} /\ keys = 0 /\ DOMAIN migrations = 0 .. (0 - 1)
    BY DEF Init
  <2> QED BY <2>1 DEF MigrationInv, Numbered, PendingIndexExact, OneOpenPerChain
<1>2. MigrationInv /\ [Next]_vars => MigrationInv'
  <2> SUFFICES ASSUME MigrationInv, [Next]_vars PROVE MigrationInv'
    OBVIOUS
  <2>1. ASSUME NEW id \in BallotKeys, NEW eligible \in SUBSET Validators,
               RecomputeMigrationBallot(id, eligible)
        PROVE  MigrationInv'
    BY <2>1 DEF RecomputeMigrationBallot, MigrationInv, Numbered, PendingIndexExact,
                OneOpenPerChain, Forward
  <2>2. CASE ExportImportGenesis
    BY <2>2 DEF ExportImportGenesis, MigrationInv, Numbered, PendingIndexExact, OneOpenPerChain, Forward
  <2>3. CASE InstallKey
    BY <2>3 DEF InstallKey, MigrationInv, Numbered, PendingIndexExact, OneOpenPerChain, Forward
  <2>4. CASE NextBlock \/ UNCHANGED vars
    BY <2>4 DEF NextBlock, vars, MigrationInv, Numbered, PendingIndexExact, OneOpenPerChain, Forward
  <2> QED BY InitiateKeeps, VoteKeeps, <2>1, <2>2, <2>3, <2>4 DEF Next
<1> QED BY <1>1, <1>2, PTL DEF Spec

\* InitiateFundMigration, VoteFundMigration and the genesis import keep the index exact.
THEOREM PendingMigrationsExact == Spec => []PendingIndexExact
<1>1. MigrationInv => PendingIndexExact
  BY DEF MigrationInv
<1> QED BY <1>1, MigrationInvariant, PTL

\* HasPendingMigration is enough to keep one open migration per chain.
THEOREM OneOpenMigrationPerChain == Spec => []OneOpenPerChain
<1>1. MigrationInv => OneOpenPerChain
  BY DEF MigrationInv
<1> QED BY <1>1, MigrationInvariant, PTL

\* Every migration moves funds from an older key to one that was current.
THEOREM MigrationsMoveForward == Spec => []MovesForward
<1>1. MigrationInv => MovesForward
  BY DEF MigrationInv, Forward, MovesForward, CurrentKey
<1> QED BY <1>1, MigrationInvariant, PTL
-----------------------------------------------------------------------------
\* A ballot of observation id: whoever voted reported that observation, the threshold
\* is the quorum of the voters, and a decided ballot reached it.
Reports(id, b) == {v \in b.voters : b.votes[v] = ResultOf(id[3])}

Sound(id, b) ==
    /\ MigBallotOK(b)
    /\ b.votes \in [b.voters -> {NotYet, ResultOf(id[3])}]
    /\ b.threshold = Quorum(Cardinality(b.voters))
    /\ b.status \in {"PASSED", "REJECTED"} => Cardinality(Reports(id, b)) >= b.threshold

Ids == MigrationIds \X TxHashes \X BOOLEAN

LEMMA QuorumIsTwoThirds ==
    ASSUME NEW n \in Nat
    PROVE  Quorum(n) \in Nat \ {0} /\ 3 * Quorum(n) > 2 * n
BY DEF Quorum

LEMMA VotersFinite ==
    ASSUME NEW S \in SUBSET Validators
    PROVE  IsFiniteSet(S) /\ Cardinality(S) \in Nat
BY MigValidatorsAssumption, FS_Subset, FS_CardinalityType

LEMMA NewIsSound ==
    ASSUME NEW id \in Ids, NEW S \in SUBSET Validators, height \in Nat
    PROVE  Sound(id, MigrationBallot(S)) /\ MigrationBallot(S).status = "PENDING"
<1>1. Quorum(Cardinality(S)) \in Nat
  BY VotersFinite, QuorumIsTwoThirds
<1> QED BY <1>1, MigBoundsAssumption
        DEF Sound, MigBallotOK, MigrationBallot, NewBallot, BallotStatuses, NotYet

LEMMA ExpiredIsSound ==
    ASSUME NEW id \in Ids, NEW b, Sound(id, b)
    PROVE  Sound(id, Expired(b)) /\ Expired(b).status = "EXPIRED"
<1>1. Expired(b) = [voters |-> b.voters, votes |-> b.votes, threshold |-> b.threshold,
                    status |-> "EXPIRED", expiry |-> b.expiry]
  BY DEF Sound, MigBallotOK, Expired
<1> QED BY <1>1 DEF Sound, MigBallotOK, BallotStatuses

LEMMA RecomputedIsSound ==
    ASSUME NEW id \in Ids, NEW b, Sound(id, b), b.status = "PENDING",
           NEW S \in SUBSET Validators
    PROVE  /\ Sound(id, RecomputeBallotQuorum(b, S))
           /\ RecomputeBallotQuorum(b, S).status \in {"PENDING", "EXPIRED"}
<1> DEFINE votes == [v \in S |-> IF v \in b.voters THEN b.votes[v] ELSE NotYet]
<1>1. CASE S = {}
  BY <1>1, ExpiredIsSound DEF RecomputeBallotQuorum
<1>2. CASE S # {}
  <2>1. RecomputeBallotQuorum(b, S)
          = [voters |-> S, votes |-> votes, threshold |-> Quorum(Cardinality(S)),
             status |-> "PENDING", expiry |-> b.expiry]
    BY <1>2, Zenon DEF RecomputeBallotQuorum, Sound, MigBallotOK
  <2>2. Quorum(Cardinality(S)) \in Nat
    BY VotersFinite, QuorumIsTwoThirds
  <2>3. votes \in [S -> {NotYet, ResultOf(id[3])}] /\ votes \in [S -> VoteResults \cup {NotYet}]
    BY DEF Sound, MigBallotOK
  <2> HIDE DEF votes
  <2> QED BY <2>1, <2>2, <2>3 DEF Sound, MigBallotOK
<1> QED BY <1>1, <1>2

\* AddVote and IsFinalizingVote: a ballot is decided only by reports of its observation.
LEMMA VotedIsSound ==
    ASSUME NEW id \in Ids, NEW b, Sound(id, b), NEW v, CanAddVote(b, v)
    PROVE  LET voted == AddVote(b, v, ResultOf(id[3]))
           IN  Sound(id, [voted EXCEPT !.status = IsFinalizingVote(voted)])
<1> DEFINE r == ResultOf(id[3])
           voted == AddVote(b, v, r)
           votes == [b.votes EXCEPT ![v] = r]
           c == [voted EXCEPT !.status = IsFinalizingVote(voted)]
<1>0. r \in VoteResults /\ (r = "SUCCESS" \/ r = "FAILURE")
  BY DEF ResultOf, VoteResults
<1> HIDE DEF r
<1>1. /\ votes \in [b.voters -> {NotYet, r}] /\ votes \in [b.voters -> VoteResults \cup {NotYet}]
      /\ voted = [voters |-> b.voters, votes |-> votes, threshold |-> b.threshold,
                  status |-> "PENDING", expiry |-> b.expiry]
  BY <1>0 DEF Sound, MigBallotOK, CanAddVote, AddVote, r
<1> HIDE DEF votes
<1>2. c = [voters |-> b.voters, votes |-> votes, threshold |-> b.threshold,
           status |-> IsFinalizingVote(voted), expiry |-> b.expiry]
  BY <1>1
<1>3. IsFinalizingVote(voted) \in BallotStatuses
  BY <1>1 DEF IsFinalizingVote, BallotStatuses
<1>4. b.threshold \in Nat \ {0} /\ b.voters \in SUBSET Validators
  BY VotersFinite, QuorumIsTwoThirds DEF Sound, MigBallotOK
<1>5. ASSUME IsFinalizingVote(voted) \in {"PASSED", "REJECTED"}
      PROVE  Cardinality({w \in b.voters : votes[w] = r}) >= b.threshold
  <2>1. Cardinality({}) = 0
    BY FS_EmptySet
  <2>2. CASE r = "SUCCESS"
    <3>1. YesVoters(voted) = {w \in b.voters : votes[w] = r} /\ NoVoters(voted) = {}
      BY <1>1, <2>2 DEF YesVoters, NoVoters, NotYet
    <3> QED BY <1>1, <1>4, <1>5, <2>1, <3>1 DEF IsFinalizingVote
  <2>3. CASE r = "FAILURE"
    <3>1. NoVoters(voted) = {w \in b.voters : votes[w] = r} /\ YesVoters(voted) = {}
      BY <1>1, <2>3 DEF YesVoters, NoVoters, NotYet
    <3> QED BY <1>1, <1>4, <1>5, <2>1, <3>1 DEF IsFinalizingVote
  <2> QED BY <1>0, <2>2, <2>3
<1>6. Sound(id, c)
  <2> HIDE DEF c, voted
  <2> QED BY <1>1, <1>2, <1>3, <1>5 DEF Sound, MigBallotOK, Reports, r
<1> QED BY <1>6 DEF r
-----------------------------------------------------------------------------
\* The observation that closed record i.
Closes(i, tx, success) == migrations[i].tx = tx /\ migrations[i].status = StatusOf(success)

DecidedCloses ==
    \A i \in DOMAIN migrations, tx \in TxHashes, success \in BOOLEAN :
        Decisive(<<i, tx, success>>) <=> Closes(i, tx, success)

OutcomeInv ==
    /\ MigrationInv
    /\ height \in Nat
    /\ DOMAIN migrations \subseteq MigrationIds
    /\ DOMAIN ballots \subseteq (DOMAIN migrations) \X TxHashes \X BOOLEAN
    /\ \A id \in DOMAIN ballots : Sound(id, ballots[id])
    /\ DecidedCloses

LEMMA BallotIdsInRange ==
    ASSUME OutcomeInv PROVE DOMAIN ballots \subseteq Ids
BY DEF OutcomeInv, Ids

LEMMA OutcomeInitiate ==
    ASSUME OutcomeInv, MigrationInv', NEW old \in 1 .. MaxKeys, NEW chain \in Chains,
           NEW on \in BOOLEAN, NEW busy \in BOOLEAN, InitiateFundMigration(old, chain, on, busy)
    PROVE  OutcomeInv'
<1>0. PICK k : k = NextMigrationId
  OBVIOUS
<1>1. /\ k \in Nat /\ k \notin DOMAIN migrations /\ k < MaxMigrations /\ MaxMigrations \in Nat
  BY <1>0, NextIdIsFresh, MigBoundsAssumption DEF OutcomeInv, MigrationInv, InitiateFundMigration
<1>2. /\ DOMAIN migrations' = DOMAIN migrations \cup {k}
      /\ migrations'[k].status = "PENDING"
      /\ \A i \in DOMAIN migrations : migrations'[i] = migrations[i]
      /\ UNCHANGED <<ballots, height>>
  BY <1>0, <1>1 DEF InitiateFundMigration
<1>3. DecidedCloses'
  <2>1. \A tx \in TxHashes, success \in BOOLEAN : <<k, tx, success>> \notin DOMAIN ballots
    BY <1>1 DEF OutcomeInv
  <2>2. \A tx \in TxHashes, success \in BOOLEAN : ~Closes(k, tx, success)'
    BY <1>2 DEF Closes, StatusOf
  <2> SUFFICES ASSUME NEW i \in DOMAIN migrations', NEW tx \in TxHashes, NEW success \in BOOLEAN
               PROVE  Decisive(<<i, tx, success>>)' <=> Closes(i, tx, success)'
    BY Zenon DEF DecidedCloses
  <2>3. Decisive(<<i, tx, success>>)' <=> Decisive(<<i, tx, success>>)
    BY <1>2 DEF Decisive
  <2>4. CASE i = k
    BY <2>1, <2>2, <2>3, <2>4 DEF Decisive
  <2>5. CASE i \in DOMAIN migrations
    <3>1. Closes(i, tx, success)' <=> Closes(i, tx, success)
      BY <1>2, <2>5 DEF Closes
    <3> QED BY <2>3, <2>5, <3>1 DEF OutcomeInv, DecidedCloses
  <2> QED BY <1>2, <2>4, <2>5
<1>4. DOMAIN migrations' \subseteq MigrationIds
  BY <1>1, <1>2 DEF OutcomeInv, MigrationIds
<1> QED BY <1>2, <1>3, <1>4 DEF OutcomeInv

LEMMA OutcomeVote ==
    ASSUME OutcomeInv, MigrationInv', NEW v \in Validators, NEW i \in MigrationIds,
           NEW tx \in TxHashes, NEW success \in BOOLEAN, NEW eligible \in SUBSET Validators,
           VoteFundMigration(v, i, tx, success, eligible)
    PROVE  OutcomeInv'
<1> DEFINE id == <<i, tx, success>>
           got == GetOrCreateBallot(ballots, id, MigrationBallot(eligible), height)
           voted == AddVote(got[id], v, ResultOf(success))
           final == [voted EXCEPT !.status = IsFinalizingVote(voted)]
<1>1. /\ i \in DOMAIN migrations /\ migrations[i].status = "PENDING"
      /\ CanAddVote(got[id], v)
      /\ ballots' = [got EXCEPT ![id] = final]
      /\ height' = height
  BY DEF VoteFundMigration, IsOpenMigration, VoteAccepted, VoteOnBallot
<1>2. id \in Ids /\ id[3] = success /\ DOMAIN ballots \subseteq Ids /\ height \in Nat
  BY BallotIdsInRange DEF Ids, OutcomeInv
<1>3. /\ DOMAIN got = DOMAIN ballots \cup {id}
      /\ \A j \in DOMAIN got : Sound(j, got[j])
      /\ \A j \in DOMAIN got : got[j].status \in {"PASSED", "REJECTED"}
            => j \in DOMAIN ballots /\ ballots[j].status = got[j].status
      /\ \A j \in DOMAIN ballots : ballots[j].status \in {"PASSED", "REJECTED"}
            => got[j].status = ballots[j].status
  <2> DEFINE old == ExpireBallotsBeforeHeight(ballots, height)
  <2>1. \A j \in DOMAIN ballots :
           /\ Sound(j, old[j])
           /\ old[j] = ballots[j]
              \/ (old[j].status = "EXPIRED" /\ ballots[j].status = "PENDING")
    BY <1>2, ExpiredIsSound DEF ExpireBallotsBeforeHeight, Stale, OutcomeInv
  <2>2. Sound(id, MigrationBallot(eligible)) /\ MigrationBallot(eligible).status = "PENDING"
    BY <1>2, NewIsSound
  <2>3. CASE id \in DOMAIN ballots
    BY <2>3 DEF GetOrCreateBallot, OutcomeInv
  <2>4. CASE id \notin DOMAIN ballots
    <3> DEFINE new == MigrationBallot(eligible)
    <3>1. got = [j \in DOMAIN ballots \cup {id} |-> IF j = id THEN new ELSE old[j]]
      BY <2>4 DEF GetOrCreateBallot
    <3> HIDE DEF new, old, got, id
    <3> QED BY <2>1, <2>2, <2>4, <3>1 DEF new
  <2> QED BY <2>3, <2>4
<1> HIDE DEF got, id
<1>4. Sound(id, final)
  BY <1>1, <1>2, <1>3, VotedIsSound
<1>5. final.status = IsFinalizingVote(voted) /\ final.status \in {"PENDING", "PASSED", "REJECTED"}
  <2>1. got[id] = [voters |-> got[id].voters, votes |-> got[id].votes, threshold |-> got[id].threshold,
                   status |-> got[id].status, expiry |-> got[id].expiry] /\ got[id].status = "PENDING"
    BY <1>1, <1>3, Zenon DEF Sound, MigBallotOK, CanAddVote
  <2>2. voted.status = "PENDING"
    BY <2>1 DEF AddVote
  <2>3. final.status = IsFinalizingVote(voted)
    BY <2>1 DEF AddVote
  <2> QED BY <2>2, <2>3 DEF IsFinalizingVote
<1> HIDE DEF final
<1>6. /\ DOMAIN ballots' = DOMAIN ballots \cup {id} /\ ballots'[id] = final
      /\ \A j \in DOMAIN ballots' : j # id => ballots'[j] = got[j]
  BY <1>1, <1>3
<1>7. /\ \A j \in DOMAIN ballots' : Sound(j, ballots'[j])
      /\ \A j \in Ids : j # id => (Decisive(j)' <=> Decisive(j))
      /\ Decisive(id)' <=> final.status # "PENDING"
  BY <1>3, <1>4, <1>5, <1>6 DEF Decisive
<1>8. \A t \in TxHashes, s \in BOOLEAN : ~Decisive(<<i, t, s>>)
  BY <1>1 DEF OutcomeInv, DecidedCloses, Closes, StatusOf
<1>9. DOMAIN migrations' = DOMAIN migrations /\ DecidedCloses'
  <2>1. CASE final.status = "PENDING"
    <3>1. UNCHANGED migrations
      <4>1. ballots'[id].status = "PENDING"
        BY <1>6, <2>1
      <4> QED BY <4>1 DEF VoteFundMigration, id
    <3>2. \A j \in Ids : Decisive(j)' <=> Decisive(j)
      BY <1>7, <1>8, <2>1 DEF id
    <3>3. DOMAIN migrations \subseteq MigrationIds
      BY DEF OutcomeInv
    <3> QED BY <3>1, <3>2, <3>3 DEF OutcomeInv, DecidedCloses, Closes, Ids
  <2>2. CASE final.status # "PENDING"
    <3>1. migrations' = Finalize(i, tx, success)
      <4>1. ballots'[id].status # "PENDING"
        BY <1>6, <2>2
      <4> QED BY <4>1 DEF VoteFundMigration, id
    <3>2. migrations[i] \in [old : Nat, cur : Nat, chain : Chains, status : {"PENDING", "COMPLETED", "FAILED"},
                             tx : TxHashes \cup {NoTx}]
      BY <1>1 DEF OutcomeInv, MigrationInv
    <3>3. /\ DOMAIN migrations' = DOMAIN migrations
          /\ migrations'[i].tx = tx /\ migrations'[i].status = StatusOf(success)
          /\ \A j \in DOMAIN migrations : j # i => migrations'[j] = migrations[j]
      BY <1>1, <3>1, <3>2, Zenon DEF Finalize
    <3>4. \A t \in TxHashes, s \in BOOLEAN : Decisive(<<i, t, s>>)' <=> Closes(i, t, s)'
      <4> SUFFICES ASSUME NEW t \in TxHashes, NEW s \in BOOLEAN
                   PROVE  Decisive(<<i, t, s>>)' <=> Closes(i, t, s)'
        OBVIOUS
      <4>1. Closes(i, t, s)' <=> (t = tx /\ s = success)
        BY <3>3 DEF Closes, StatusOf
      <4>2. CASE t = tx /\ s = success
        BY <1>7, <2>2, <4>1, <4>2 DEF id
      <4>3. CASE ~(t = tx /\ s = success)
        <5>1. <<i, t, s>> # id /\ <<i, t, s>> \in Ids
          BY <4>3 DEF id, Ids
        <5> QED BY <1>7, <1>8, <4>1, <4>3, <5>1
      <4> QED BY <4>2, <4>3
    <3>5. \A j \in DOMAIN migrations, t \in TxHashes, s \in BOOLEAN :
             j # i => (Decisive(<<j, t, s>>)' <=> Closes(j, t, s)')
      <4>1. \A j \in DOMAIN migrations, t \in TxHashes, s \in BOOLEAN :
               j # i => <<j, t, s>> # id /\ <<j, t, s>> \in Ids
        BY DEF id, Ids, OutcomeInv
      <4> QED BY <1>7, <3>3, <4>1 DEF OutcomeInv, DecidedCloses, Closes
    <3> QED BY <3>3, <3>4, <3>5 DEF DecidedCloses
  <2> QED BY <2>1, <2>2
<1>10. id \in (DOMAIN migrations) \X TxHashes \X BOOLEAN
  BY <1>1 DEF id
<1> QED BY <1>1, <1>2, <1>6, <1>7, <1>9, <1>10 DEF OutcomeInv

LEMMA OutcomeRecompute ==
    ASSUME OutcomeInv, MigrationInv', NEW id \in BallotKeys, NEW eligible \in SUBSET Validators,
           RecomputeMigrationBallot(id, eligible)
    PROVE  OutcomeInv'
<1> DEFINE b == RecomputeBallotQuorum(ballots[id], eligible)
<1>1. /\ id \in DOMAIN ballots /\ ballots[id].status = "PENDING" /\ id \in Ids
      /\ ballots' = [ballots EXCEPT ![id] = b] /\ UNCHANGED <<migrations, height>>
  BY BallotIdsInRange DEF RecomputeMigrationBallot
<1>2. Sound(id, b) /\ b.status \in {"PENDING", "EXPIRED"}
  BY <1>1, RecomputedIsSound DEF OutcomeInv
<1> HIDE DEF b
<1>3. \A j \in Ids : Decisive(j)' <=> Decisive(j)
  BY <1>1, <1>2 DEF Decisive
<1>4. DecidedCloses'
  <2> SUFFICES ASSUME NEW i \in DOMAIN migrations, NEW tx \in TxHashes, NEW success \in BOOLEAN
               PROVE  Decisive(<<i, tx, success>>)' <=> Closes(i, tx, success)'
    BY <1>1, Zenon DEF DecidedCloses
  <2>1. <<i, tx, success>> \in Ids
    BY DEF OutcomeInv, Ids
  <2>2. Closes(i, tx, success)' <=> Closes(i, tx, success)
    BY <1>1 DEF Closes
  <2> QED BY <1>3, <2>1, <2>2 DEF OutcomeInv, DecidedCloses
<1> QED BY <1>1, <1>2, <1>4 DEF OutcomeInv

LEMMA OutcomeInvariant == Spec => []OutcomeInv
<1>1. Init /\ MigrationInv => OutcomeInv
  <2> SUFFICES ASSUME Init, MigrationInv PROVE OutcomeInv
    OBVIOUS
  <2>1. DOMAIN ballots = {} /\ DOMAIN migrations = {} /\ height = 0
    BY DEF Init
  <2> QED BY <2>1 DEF OutcomeInv, DecidedCloses
<1>2. OutcomeInv /\ MigrationInv' /\ [Next]_vars => OutcomeInv'
  <2> SUFFICES ASSUME OutcomeInv, MigrationInv', [Next]_vars PROVE OutcomeInv'
    OBVIOUS
  <2>1. CASE ExportImportGenesis \/ InstallKey \/ UNCHANGED vars
    BY <2>1 DEF ExportImportGenesis, InstallKey, vars, OutcomeInv, DecidedCloses, Decisive, Closes
  <2>2. CASE NextBlock
    BY <2>2 DEF NextBlock, OutcomeInv, DecidedCloses, Decisive, Closes
  <2> QED BY OutcomeInitiate, OutcomeVote, OutcomeRecompute, <2>1, <2>2 DEF Next
<1> QED BY <1>1, <1>2, MigrationInvariant, PTL DEF Spec

\* TypeOK: records and ballots keep their shapes, one vote slot per listed voter, and the
\* pending index names stored records only.
THEOREM MigrationTypes == Spec => []TypeOK
<1>1. OutcomeInv => TypeOK
  BY DEF OutcomeInv, MigrationInv, PendingIndexExact, Sound, TypeOK, MigrationOK, BallotKeys
<1> QED BY <1>1, OutcomeInvariant, PTL

\* VoteFundMigration closes a migration with the one observation that more than two
\* thirds of a ballot's voters reported; no other observation of it is ever decided.
THEOREM MigrationOutcomeAgreed == Spec => []OutcomeAgreed
<1>1. OutcomeInv => OutcomeAgreed
  <2> SUFFICES ASSUME OutcomeInv, NEW i \in DOMAIN migrations, NEW tx \in TxHashes,
                      NEW success \in BOOLEAN, Decisive(<<i, tx, success>>)
               PROVE  3 * Cardinality(ReportedBy(<<i, tx, success>>))
                        > 2 * Cardinality(ballots[<<i, tx, success>>].voters)
    BY Zenon DEF OutcomeInv, DecidedCloses, Closes, OutcomeAgreed
  <2> DEFINE id == <<i, tx, success>>
             b == ballots[id]
  <2>1. /\ b.voters \in SUBSET Validators /\ b.threshold = Quorum(Cardinality(b.voters))
        /\ Cardinality(Reports(id, b)) >= b.threshold
    BY DEF Decisive, OutcomeInv, Sound, MigBallotOK
  <2>2. ReportedBy(id) = Reports(id, b) /\ Reports(id, b) \in SUBSET Validators
    BY <2>1 DEF ReportedBy, Reports
  <2>3. Cardinality(b.voters) \in Nat /\ Cardinality(Reports(id, b)) \in Nat
    BY <2>1, <2>2, VotersFinite
  <2> HIDE DEF b, id
  <2>4. b.threshold \in Nat /\ 3 * b.threshold > 2 * Cardinality(b.voters)
    BY <2>1, <2>3, QuorumIsTwoThirds
  <2>5. 3 * Cardinality(ReportedBy(id)) > 2 * Cardinality(b.voters)
    BY <2>1, <2>2, <2>3, <2>4
  <2> QED BY <2>5 DEF b, id
<1> QED BY <1>1, OutcomeInvariant, PTL

-----------------------------------------------------------------------------
\* Sequences, as the provers need them.
LEMMA Elements ==
  ASSUME NEW S, NEW s \in Seq(S)
  PROVE  /\ Len(s) \in Nat /\ DOMAIN s = 1 .. Len(s) /\ s \in [1 .. Len(s) -> S]
         /\ \A i \in 1 .. Len(s) : s[i] \in S
OBVIOUS

LEMMA NoElements ==
  ASSUME NEW S PROVE <<>> \in Seq(S) /\ Len(<<>>) = 0
OBVIOUS

LEMMA IsSequence ==
  ASSUME NEW S, NEW n \in Nat, NEW s \in [1 .. n -> S]
  PROVE  s \in Seq(S) /\ Len(s) = n
OBVIOUS

LEMMA Appended ==
  ASSUME NEW S, NEW s \in Seq(S), NEW x \in S
  PROVE  /\ Append(s, x) \in Seq(S) /\ Len(Append(s, x)) = Len(s) + 1
         /\ Append(s, x)[Len(s) + 1] = x
         /\ \A i \in 1 .. Len(s) : Append(s, x)[i] = s[i]
OBVIOUS

-----------------------------------------------------------------------------
(***************************************************************************)
(* Medians.  In a finite set with a strict total order every rank below    *)
(* its size is taken by one element.                                       *)
(***************************************************************************)
Below(D, L, i) == {j \in D : <<j, i>> \in L}

StrictOrder(D, L) ==
  /\ \A i \in D : <<i, i>> \notin L
  /\ \A i, j \in D : i # j => <<i, j>> \in L \/ <<j, i>> \in L
  /\ \A i, j, k \in D : <<i, j>> \in L /\ <<j, k>> \in L => <<i, k>> \in L

LEMMA RankGrows ==
  ASSUME NEW D, IsFiniteSet(D), NEW L, StrictOrder(D, L), NEW i \in D, NEW j \in D, <<i, j>> \in L
  PROVE  Cardinality(Below(D, L, i)) < Cardinality(Below(D, L, j))
<1> DEFINE A == Below(D, L, i)
           B == Below(D, L, j)
<1>1. A \subseteq D /\ B \subseteq D /\ i \notin A /\ A \cup {i} \subseteq B
  BY DEF Below, StrictOrder
<1> HIDE DEF A, B
<1>2. IsFiniteSet(A) /\ IsFiniteSet(B) /\ Cardinality(A) \in Nat /\ Cardinality(B) \in Nat
  BY <1>1, FS_Subset, FS_CardinalityType
<1>3. Cardinality(A \cup {i}) = Cardinality(A) + 1
  BY <1>1, <1>2, FS_AddElement, Zenon
<1>4. Cardinality(A \cup {i}) <= Cardinality(B)
  BY <1>1, <1>2, FS_Subset
<1> QED BY <1>2, <1>3, <1>4 DEF A, B

LEMMA RankTaken ==
  ASSUME NEW D, IsFiniteSet(D), NEW L, StrictOrder(D, L), NEW k \in 0 .. Cardinality(D) - 1
  PROVE  \E i \in D : Cardinality(Below(D, L, i)) = k
<1> DEFINE n == Cardinality(D)
           f == [i \in D |-> Cardinality(Below(D, L, i))]
<1>1. n \in Nat
  BY FS_CardinalityType
<1>2. ASSUME NEW i \in D PROVE Cardinality(Below(D, L, i)) \in 0 .. n - 1
  <2>1. Below(D, L, i) \subseteq D \ {i}
    BY DEF Below, StrictOrder
  <2>2. IsFiniteSet(D \ {i}) /\ Cardinality(D \ {i}) = n - 1
    BY FS_RemoveElement
  <2>3. IsFiniteSet(Below(D, L, i)) /\ Cardinality(Below(D, L, i)) <= n - 1
    BY <2>1, <2>2, FS_Subset
  <2> QED BY <1>1, <2>3, FS_CardinalityType
<1>3. ASSUME NEW i \in D, NEW j \in D, f[i] = f[j] PROVE i = j
  <2>1. ASSUME NEW x \in D, NEW y \in D, <<x, y>> \in L PROVE f[x] # f[y]
    BY <1>2, <2>1, RankGrows
  <2> QED BY <1>3, <2>1, Zenon DEF StrictOrder
<1>4. f \in Injection(D, 0 .. n - 1)
  <2>1. f \in [D -> 0 .. n - 1]
    BY <1>2
  <2> HIDE DEF f
  <2> QED BY <1>3, <2>1 DEF Injection, IsInjective
<1>5. IsFiniteSet(0 .. n - 1) /\ Cardinality(0 .. n - 1) = n
  BY <1>1, FS_Interval
<1>6. f \in Surjection(D, 0 .. n - 1)
  <2> HIDE DEF f, n
  <2> QED BY <1>4, <1>5, FS_Injection DEF n
<1>7. \E i \in D : f[i] = k
  <2> HIDE DEF f
  <2> QED BY <1>6 DEF Surjection
<1> QED BY <1>7

\* The stably sorted values have an element at every index.
LEMMA RankedPosition ==
  ASSUME NEW vals \in Seq(Nat), NEW k \in 0 .. Len(vals) - 1
  PROVE  \E i \in DOMAIN vals : Rank(vals, i) = k
<1>0. PICK n \in Nat : n = Len(vals) /\ DOMAIN vals = 1 .. n /\ \A i \in 1 .. n : vals[i] \in Nat
  BY Elements
<1> DEFINE D == 1 .. n
           L == {p \in D \X D : vals[p[1]] < vals[p[2]] \/ (vals[p[1]] = vals[p[2]] /\ p[1] < p[2])}
<1>1. \A i, j \in D : <<i, j>> \in L <=> vals[i] < vals[j] \/ (vals[i] = vals[j] /\ i < j)
  OBVIOUS
<1>2. IsFiniteSet(D) /\ Cardinality(D) = n
  BY FS_Interval
<1>3. \A i \in D : i \in Nat /\ vals[i] \in Nat
  BY <1>0
<1>4. \A i \in D : Below(D, L, i) = {j \in DOMAIN vals : vals[j] < vals[i] \/ (vals[j] = vals[i] /\ j < i)}
  BY <1>0, <1>1 DEF Below
<1> HIDE DEF L, D
<1>5. StrictOrder(D, L)
  <2>1. ASSUME NEW i \in D PROVE <<i, i>> \notin L
    BY <1>1, <1>3
  <2>2. ASSUME NEW i \in D, NEW j \in D, i # j PROVE <<i, j>> \in L \/ <<j, i>> \in L
    BY <1>1, <1>3, <2>2
  <2>3. ASSUME NEW i \in D, NEW j \in D, NEW k2 \in D, <<i, j>> \in L, <<j, k2>> \in L
        PROVE  <<i, k2>> \in L
    <3>1. /\ vals[i] < vals[j] \/ (vals[i] = vals[j] /\ i < j)
          /\ vals[j] < vals[k2] \/ (vals[j] = vals[k2] /\ j < k2)
      BY <1>1, <2>3
    <3>2. vals[i] < vals[k2] \/ (vals[i] = vals[k2] /\ i < k2)
      BY <1>3, <3>1
    <3> QED BY <1>1, <3>2
  <2> QED BY <2>1, <2>2, <2>3 DEF StrictOrder
<1>6. PICK i \in D : Cardinality(Below(D, L, i)) = k
  BY <1>0, <1>2, <1>5, RankTaken
<1> QED BY <1>0, <1>4, <1>6, Zenon DEF Rank, D

\* The positions that are kept are enumerated, each once.
LEMMA NthPositions ==
  ASSUME NEW n \in Nat, NEW P, P \subseteq 1 .. n
  PROVE  /\ Cardinality(P) \in Nat
         /\ \A m \in 1 .. Cardinality(P) : Nth(P, m) \in P
         /\ \A a, b \in 1 .. Cardinality(P) : Nth(P, a) = Nth(P, b) => a = b
         /\ \A j \in P : \E m \in 1 .. Cardinality(P) : Nth(P, m) = j
<1> DEFINE c == Cardinality(P)
           L == {p \in P \X P : p[1] < p[2]}
           f == [m \in 1 .. c |-> Nth(P, m)]
<1>1. IsFiniteSet(P) /\ c \in Nat
  <2>1. IsFiniteSet(1 .. n)
    BY FS_Interval
  <2> QED BY <2>1, FS_Subset, FS_CardinalityType, Zenon
<1>2. \A i \in P : i \in Nat
  OBVIOUS
<1>3. \A i, j \in P : <<i, j>> \in L <=> i < j
  OBVIOUS
<1>4. \A j \in P : Below(P, L, j) = {i \in P : i < j}
  BY <1>3 DEF Below
<1> HIDE DEF L
<1>5. StrictOrder(P, L)
  BY <1>2, <1>3 DEF StrictOrder
<1>6. ASSUME NEW m \in 1 .. c PROVE Nth(P, m) \in P /\ Cardinality(Below(P, L, Nth(P, m))) = m - 1
  <2>1. m - 1 \in 0 .. c - 1
    BY <1>1
  <2>2. \E j \in P : Cardinality(Below(P, L, j)) = m - 1
    BY <1>1, <1>5, <2>1, RankTaken
  <2>3. \E j \in P : Cardinality({i \in P : i < j}) = m - 1
    BY <1>4, <2>2
  <2>4. Nth(P, m) \in P /\ Cardinality({i \in P : i < Nth(P, m)}) = m - 1
    BY <2>3, Zenon DEF Nth
  <2> QED BY <1>4, <2>4, Zenon
<1>7. f \in [1 .. c -> P] /\ \A m \in 1 .. c : f[m] = Nth(P, m)
  BY <1>6
<1> HIDE DEF f
<1>8. ASSUME NEW a \in 1 .. c, NEW b \in 1 .. c, Nth(P, a) = Nth(P, b) PROVE a = b
  <2>1. a - 1 = b - 1
    BY <1>6, <1>8
  <2> QED BY <1>1, <2>1
<1>9. f \in Surjection(1 .. c, P)
  <2>1. f \in Injection(1 .. c, P)
    BY <1>7, <1>8 DEF Injection, IsInjective
  <2>2. Cardinality(1 .. c) = c
    BY <1>1, FS_Interval
  <2> HIDE DEF c
  <2> QED BY <1>1, <2>1, <2>2, FS_Injection DEF c
<1>10. \A j \in P : \E m \in 1 .. c : Nth(P, m) = j
  BY <1>7, <1>9 DEF Surjection
<1> QED BY <1>1, <1>6, <1>8, <1>10
-----------------------------------------------------------------------------
LEMMA MedianTaken ==
  ASSUME NEW vals \in Seq(Nat), Len(vals) # 0
  PROVE  /\ MedianPosition(vals) \in 1 .. Len(vals) /\ UpperMedian(vals) \in Nat
         /\ Rank(vals, MedianPosition(vals)) = Len(vals) \div 2
<1> DEFINE n == Len(vals)
<1>1. n \in Nat /\ DOMAIN vals = 1 .. n /\ \A i \in 1 .. n : vals[i] \in Nat
  BY Elements
<1>2. PICK k \in 0 .. n - 1 : k = n \div 2
  <2> HIDE DEF n
  <2> QED BY <1>1 DEF n
<1>3. \E i \in DOMAIN vals : Rank(vals, i) = n \div 2
  BY <1>2, RankedPosition
<1>4. MedianPosition(vals) \in DOMAIN vals /\ Rank(vals, MedianPosition(vals)) = n \div 2
  BY <1>3 DEF MedianPosition
<1> QED BY <1>1, <1>4 DEF UpperMedian

\* The median of a sequence lies between values of any majority of its positions.
LEMMA MedianAmong ==
  ASSUME NEW vals \in Seq(Nat), Len(vals) # 0,
         NEW R \in SUBSET (1 .. Len(vals)), 2 * Cardinality(R) > Len(vals)
  PROVE  /\ \E j \in R : vals[j] <= UpperMedian(vals)
         /\ \E j \in R : UpperMedian(vals) <= vals[j]
<1> DEFINE n == Len(vals)
           D == 1 .. n
<1>1. n \in Nat /\ DOMAIN vals = D /\ \A i \in D : i \in Nat /\ vals[i] \in Nat
  BY Elements
<1>2. PICK i \in D : UpperMedian(vals) = vals[i] /\ Rank(vals, i) = n \div 2
  BY MedianTaken DEF UpperMedian
<1> DEFINE A == {j \in D : vals[j] < vals[i] \/ (vals[j] = vals[i] /\ j < i)}
<1>3. Cardinality(A) = n \div 2
  BY <1>1, <1>2, Zenon DEF Rank
<1>4. IsFiniteSet(D) /\ Cardinality(D) = n
  <2> HIDE DEF n
  <2> QED BY <1>1, FS_Interval
<1>5. /\ A \subseteq D /\ i \notin A /\ \A j \in A : vals[j] <= vals[i]
      /\ \A j \in D \ A : vals[i] <= vals[j]
  BY <1>1, <1>2
<1> HIDE DEF A, D
<1>6. IsFiniteSet(A) /\ IsFiniteSet(R) /\ Cardinality(R) \in Nat
  BY <1>4, <1>5, FS_Subset, FS_CardinalityType, Zenon DEF D
<1>7. Cardinality(A \cup {i}) = n \div 2 + 1 /\ Cardinality(D \ A) = n - n \div 2
  <2>1. Cardinality(A \cup {i}) = Cardinality(A) + 1
    BY <1>5, <1>6, FS_AddElement, Zenon
  <2>2. D \cap A = A
    BY <1>5
  <2>3. Cardinality(D \ A) = Cardinality(D) - Cardinality(D \cap A)
    BY <1>4, FS_Difference, Zenon
  <2> QED BY <1>3, <1>4, <2>1, <2>2, <2>3, Zenon
<1>8. /\ Cardinality(A \cup {i}) + Cardinality(R) > n /\ Cardinality(D \ A) + Cardinality(R) > n
  <2> HIDE DEF n
  <2> QED BY <1>1, <1>6, <1>7 DEF n
<1>9. (A \cup {i}) \cap R # {}
  BY <1>2, <1>4, <1>5, <1>8, FS_MajoritiesIntersect, Zenon DEF D
<1>10. (D \ A) \cap R # {}
  BY <1>4, <1>8, FS_MajoritiesIntersect, Zenon DEF D
<1>11. vals[i] <= vals[i]
  BY <1>1, <1>2
<1> QED BY <1>2, <1>5, <1>9, <1>10, <1>11, Zenon DEF D
-----------------------------------------------------------------------------
(***************************************************************************)
(* The oracle's invariant: one vote per signer, none from the future, and  *)
(* a MedianIndex within the votes of an entry that exists.                 *)
(***************************************************************************)
Once(votes) == \A i, j \in DOMAIN votes : votes[i].signer = votes[j].signer => i = j

Entries == [votes : Seq(MetaVotes), medianIndex : Int, last : Nat]

MetaInv ==
  /\ entry \in Entries /\ oracle \in [price : Nat, height : Nat] /\ head \in Nat /\ now \in Nat
  /\ Once(entry.votes) /\ \A i \in DOMAIN entry.votes : entry.votes[i].at <= now
  /\ entry = NoEntry \/ entry.medianIndex \in 0 .. Len(entry.votes) - 1
  /\ OracleAgrees

LEMMA VoteTypes ==
  ASSUME NEW votes \in Seq(MetaVotes)
  PROVE  /\ Len(votes) \in Nat /\ DOMAIN votes = 1 .. Len(votes)
         /\ \A i \in DOMAIN votes : votes[i] \in MetaVotes
         /\ PricesOf(votes) \in Seq(Nat) /\ Len(PricesOf(votes)) = Len(votes)
         /\ HeightsOf(votes) \in Seq(Nat) /\ Len(HeightsOf(votes)) = Len(votes)
<1>1. Len(votes) \in Nat /\ DOMAIN votes = 1 .. Len(votes)
  BY Elements
<1>2. \A i \in DOMAIN votes : votes[i] \in MetaVotes
  BY <1>1, Elements
<1>3. \A i \in DOMAIN votes : votes[i].price \in Nat /\ votes[i].height \in Nat
  BY <1>2, PricesAssumption, Zenon DEF MetaVotes
<1>4. PricesOf(votes) \in Seq(Nat) /\ Len(PricesOf(votes)) = Len(votes)
  BY <1>1, <1>3, IsSequence DEF PricesOf
<1>5. HeightsOf(votes) \in Seq(Nat) /\ Len(HeightsOf(votes)) = Len(votes)
  BY <1>1, <1>3, IsSequence DEF HeightsOf
<1> QED BY <1>1, <1>2, <1>4, <1>5

LEMMA KeptVotes ==
  ASSUME NEW votes \in Seq(MetaVotes), Once(votes), NEW P \in SUBSET (DOMAIN votes),
         NEW kept, kept = Kept(votes, P)
  PROVE  /\ kept \in Seq(MetaVotes) /\ Once(kept)
         /\ \A m \in DOMAIN kept : \E j \in P : kept[m] = votes[j]
         /\ \A j \in P : \E m \in DOMAIN kept : kept[m] = votes[j]
<1>1. /\ Len(votes) \in Nat /\ DOMAIN votes = 1 .. Len(votes)
      /\ \A i \in DOMAIN votes : votes[i] \in MetaVotes
  BY VoteTypes
<1>2. /\ Cardinality(P) \in Nat
      /\ \A m \in 1 .. Cardinality(P) : Nth(P, m) \in P
      /\ \A a, b \in 1 .. Cardinality(P) : Nth(P, a) = Nth(P, b) => a = b
      /\ \A j \in P : \E m \in 1 .. Cardinality(P) : Nth(P, m) = j
  BY <1>1, NthPositions
<1>3. kept = [m \in 1 .. Cardinality(P) |-> votes[Nth(P, m)]]
  BY DEF Kept
<1>4. DOMAIN kept = 1 .. Cardinality(P) /\ \A m \in DOMAIN kept : kept[m] = votes[Nth(P, m)]
  BY <1>3
<1>5. kept \in Seq(MetaVotes)
  <2>1. \A m \in 1 .. Cardinality(P) : votes[Nth(P, m)] \in MetaVotes
    BY <1>1, <1>2
  <2> QED BY <1>2, <1>3, <2>1, IsSequence
<1>6. Once(kept)
  <2> SUFFICES ASSUME NEW a \in DOMAIN kept, NEW b \in DOMAIN kept, kept[a].signer = kept[b].signer
               PROVE  a = b
    BY DEF Once
  <2>1. Nth(P, a) = Nth(P, b)
    BY <1>2, <1>4 DEF Once
  <2> QED BY <1>2, <1>4, <2>1
<1>7. \A m \in DOMAIN kept : \E j \in P : kept[m] = votes[j]
  BY <1>2, <1>4
<1>8. ASSUME NEW j \in P PROVE \E m \in DOMAIN kept : kept[m] = votes[j]
  <2>1. PICK m \in 1 .. Cardinality(P) : Nth(P, m) = j
    BY <1>2
  <2>2. m \in DOMAIN kept /\ kept[m] = votes[Nth(P, m)]
    BY <1>4
  <2> QED BY <2>1, <2>2
<1> QED BY <1>5, <1>6, <1>7, <1>8

\* A vote is recorded once.
Extends(r, votes, vote) ==
  /\ r \in Seq(MetaVotes) /\ Once(r) /\ Len(r) \in Nat /\ Len(r) >= Len(votes) /\ Len(r) # 0
  /\ \A i \in DOMAIN r : r[i] = vote \/ \E j \in DOMAIN votes : r[i] = votes[j]
  /\ \E i \in DOMAIN r : r[i] = vote

LEMMA VoteRecorded ==
  ASSUME NEW votes \in Seq(MetaVotes), Once(votes), NEW vote \in MetaVotes
  PROVE  Extends(Recorded(votes, vote), votes, vote)
<1>0. PICK r : r = Recorded(votes, vote)
  OBVIOUS
<1>1. /\ Len(votes) \in Nat /\ DOMAIN votes = 1 .. Len(votes)
      /\ \A i \in DOMAIN votes : votes[i] \in MetaVotes
  BY VoteTypes
<1>2. CASE \E i \in DOMAIN votes : votes[i].signer = vote.signer
  <2>1. PICK i \in DOMAIN votes : votes[i].signer = vote.signer
    BY <1>2
  <2>2. r = [j \in DOMAIN votes |-> IF votes[j].signer = vote.signer THEN vote ELSE votes[j]]
    BY <1>0, <1>2 DEF Recorded
  <2>3. DOMAIN r = 1 .. Len(votes) /\ \A j \in DOMAIN r : r[j] \in MetaVotes
    BY <1>1, <2>2
  <2>4. r \in Seq(MetaVotes) /\ Len(r) = Len(votes)
    BY <1>1, <2>2, <2>3, IsSequence
  <2>5. \A j \in DOMAIN r : r[j].signer = votes[j].signer /\ r[j] \in {vote, votes[j]}
    BY <1>1, <2>2
  <2>6. Once(r)
    BY <1>1, <2>3, <2>5 DEF Once
  <2>7. r[i] = vote /\ i \in DOMAIN r
    BY <2>1, <2>2
  <2>8. Len(votes) # 0
    BY <1>1, <2>1
  <2> QED BY <1>0, <1>1, <2>3, <2>4, <2>5, <2>6, <2>7, <2>8 DEF Extends
<1>3. CASE ~\E i \in DOMAIN votes : votes[i].signer = vote.signer
  <2>1. r = Append(votes, vote)
    BY <1>0, <1>3 DEF Recorded
  <2>2. /\ r \in Seq(MetaVotes) /\ Len(r) = Len(votes) + 1
        /\ \A i \in 1 .. Len(votes) : r[i] = votes[i]
        /\ r[Len(votes) + 1] = vote
    BY <1>1, <2>1, Appended
  <2>3. DOMAIN r = 1 .. Len(votes) + 1
    BY <1>1, <2>2, Elements
  <2>4. \A i \in DOMAIN r :
          (i \in DOMAIN votes /\ r[i] = votes[i]) \/ (i = Len(votes) + 1 /\ r[i] = vote)
    BY <1>1, <2>2, <2>3
  <2>5. Once(r)
    BY <1>3, <2>4 DEF Once
  <2>6. Len(votes) + 1 \in DOMAIN r
    BY <1>1, <2>3
  <2> QED BY <1>0, <1>1, <2>2, <2>4, <2>5, <2>6 DEF Extends
<1> QED BY <1>2, <1>3
-----------------------------------------------------------------------------
\* The position of the median of the prices is one of an entry with votes.
LEMMA MedianIndexed ==
  ASSUME NEW votes \in Seq(MetaVotes), Len(votes) # 0
  PROVE  computeMedianIndex(votes) \in 0 .. Len(votes) - 1
<1>1. PricesOf(votes) \in Seq(Nat) /\ Len(PricesOf(votes)) = Len(votes) /\ Len(votes) \in Nat
  BY VoteTypes
<1>2. PICK m : m = MedianPosition(PricesOf(votes)) /\ m \in 1 .. Len(votes)
  BY <1>1, MedianTaken
<1> QED BY <1>1, <1>2 DEF computeMedianIndex

LEMMA FreshVotes ==
  ASSUME NEW votes \in Seq(MetaVotes), Once(votes), \A i \in DOMAIN votes : votes[i].at <= now,
         now \in Nat, NEW i0 \in DOMAIN votes, votes[i0].at = now, NEW fresh, fresh = Fresh(votes)
  PROVE  /\ fresh \in Seq(MetaVotes) /\ Once(fresh) /\ Len(fresh) # 0
         /\ RecentVotes(votes) = fresh
         /\ UpperMedian(PricesOf(fresh)) \in Nat /\ UpperMedian(HeightsOf(fresh)) \in Nat
<1> DEFINE P == {i \in DOMAIN votes : votes[i].at <= now /\ now - votes[i].at <= StalenessTicks}
           Q == {i \in DOMAIN votes : votes[i].at + StalenessTicks >= now}
<1>1. \A i \in DOMAIN votes : votes[i].at \in Nat
  BY VoteTypes, Zenon DEF MetaVotes
<1>2. P = Q /\ i0 \in P
  BY <1>1, TicksAssumption
<1>3. fresh = Kept(votes, P) /\ RecentVotes(votes) = Kept(votes, Q)
  BY DEF Fresh, RecentVotes
<1>4. P \in SUBSET (DOMAIN votes)
  OBVIOUS
<1> HIDE DEF P, Q
<1>5. /\ fresh \in Seq(MetaVotes) /\ Once(fresh)
      /\ \E m \in DOMAIN fresh : fresh[m] = votes[i0]
  BY <1>2, <1>3, <1>4, KeptVotes
<1>6. Len(fresh) # 0
  BY <1>5, VoteTypes
<1>7. UpperMedian(PricesOf(fresh)) \in Nat /\ UpperMedian(HeightsOf(fresh)) \in Nat
  BY <1>5, <1>6, VoteTypes, MedianTaken
<1> QED BY <1>2, <1>3, <1>5, <1>6, <1>7

\* What VoteChainMeta leaves of the votes once one is recorded.
Cast(votes) ==
  /\ votes \in Seq(MetaVotes) /\ Once(votes) /\ Len(votes) # 0 /\ Len(votes) \in Nat
  /\ Len(votes) >= Len(entry.votes) /\ Len(entry.votes) \in Nat
  /\ \A i \in DOMAIN votes : votes[i].at <= now
  /\ \E i \in DOMAIN votes : votes[i].at = now
  /\ computeMedianIndex(votes) \in 0 .. Len(votes) - 1

LEMMA VoteCast ==
  ASSUME MetaInv, NEW v \in Oracles, NEW price \in SeenPrices \cup OtherPrices, NEW h \in Nat,
         NEW votes,
         votes = Recorded(entry.votes, [signer |-> v, price |-> price, height |-> h, at |-> now])
  PROVE  Cast(votes)
<1>1. PICK vote \in MetaVotes : vote.at = now /\ now <= now /\ votes = Recorded(entry.votes, vote)
  <2> DEFINE vote == [signer |-> v, price |-> price, height |-> h, at |-> now]
  <2>1. now \in Nat
    BY DEF MetaInv
  <2>2. vote \in MetaVotes /\ vote.at = now /\ now <= now
    BY <2>1 DEF MetaVotes
  <2>3. votes = Recorded(entry.votes, vote)
    OBVIOUS
  <2> HIDE DEF vote
  <2> QED BY <2>2, <2>3
<1>2. PICK old \in Seq(MetaVotes) : old = entry.votes /\ Once(old)
  BY DEF MetaInv, Entries
<1>3. votes = Recorded(old, vote)
  BY <1>1, <1>2
<1>4. /\ votes \in Seq(MetaVotes) /\ Once(votes) /\ Len(votes) \in Nat
      /\ Len(votes) >= Len(old) /\ Len(votes) # 0
      /\ \A i \in DOMAIN votes : votes[i] = vote \/ \E j \in DOMAIN old : votes[i] = old[j]
      /\ \E i \in DOMAIN votes : votes[i] = vote
  <2>1. Extends(votes, old, vote)
    BY <1>2, <1>3, VoteRecorded
  <2> QED BY <2>1 DEF Extends
<1>5. \A i \in DOMAIN votes : votes[i].at <= now
  BY <1>1, <1>2, <1>4 DEF MetaInv
<1>6. Len(entry.votes) \in Nat
  BY <1>2, VoteTypes
<1>7. \E i \in DOMAIN votes : votes[i].at = now
  BY <1>1, <1>4
<1>8. computeMedianIndex(votes) \in 0 .. Len(votes) - 1
  BY <1>4, MedianIndexed
<1> QED BY <1>2, <1>4, <1>5, <1>6, <1>7, <1>8 DEF Cast

\* What a vote that writes tells the contract: the medians of the fresh votes.
Writes(votes, fresh) ==
  /\ votes \in Seq(MetaVotes) /\ Once(votes) /\ entry'.votes = votes
  /\ fresh \in Seq(MetaVotes) /\ Once(fresh) /\ Len(fresh) # 0 /\ fresh = RecentVotes(votes)
  /\ entry.last > 0 \/ Len(fresh) >= chainMetaMinVotesForFirstWrite
  /\ oracle'.price = UpperMedian(PricesOf(fresh)) /\ oracle'.height = UpperMedian(HeightsOf(fresh))

LEMMA MetaVoteStep ==
  ASSUME MetaInv, NEW v \in Oracles, NEW price \in SeenPrices \cup OtherPrices, NEW h \in Nat,
         VoteChainMeta(v, price, h)
  PROVE  MetaInv' /\ (oracle' = oracle \/ \E votes, fresh : Writes(votes, fresh))
<1> DEFINE vote == [signer |-> v, price |-> price, height |-> h, at |-> now]
<1>1. PICK votes, fresh : votes = Recorded(entry.votes, vote) /\ fresh = Fresh(votes)
  OBVIOUS
<1> HIDE DEF vote
<1>2. /\ votes \in Seq(MetaVotes) /\ Once(votes) /\ Len(votes) # 0 /\ Len(votes) \in Nat
      /\ Len(votes) >= Len(entry.votes) /\ Len(entry.votes) \in Nat
      /\ \A i \in DOMAIN votes : votes[i].at <= now
      /\ \E i \in DOMAIN votes : votes[i].at = now
      /\ computeMedianIndex(votes) \in 0 .. Len(votes) - 1
  <2>1. votes = Recorded(entry.votes, [signer |-> v, price |-> price, height |-> h, at |-> now])
    BY <1>1 DEF vote
  <2>2. Cast(votes)
    BY <2>1, VoteCast
  <2> QED BY <2>2 DEF Cast
<1>3. now \in Nat /\ now' = now /\ head' = head /\ head \in Nat /\ entry \in Entries
  BY DEF MetaInv, VoteChainMeta
<1>4. /\ fresh \in Seq(MetaVotes) /\ Once(fresh) /\ Len(fresh) # 0 /\ RecentVotes(votes) = fresh
      /\ UpperMedian(PricesOf(fresh)) \in Nat /\ UpperMedian(HeightsOf(fresh)) \in Nat
  BY <1>1, <1>2, <1>3, FreshVotes
<1>5. CASE /\ entry' = [entry EXCEPT !.votes = votes] /\ oracle' = oracle
  <2>1. /\ entry' \in Entries /\ entry'.votes = votes /\ entry'.last = entry.last
        /\ entry'.medianIndex = entry.medianIndex
    BY <1>2, <1>3, <1>5 DEF Entries
  <2>2. entry'.medianIndex \in 0 .. Len(votes) - 1
    <3>1. CASE entry = NoEntry
      BY <1>2, <2>1, <3>1 DEF NoEntry
    <3>2. CASE entry # NoEntry
      BY <1>2, <2>1, <3>2 DEF MetaInv
    <3> QED BY <3>1, <3>2
  <2> QED BY <1>2, <1>3, <1>5, <2>1, <2>2 DEF MetaInv, OracleAgrees
<1>6. CASE /\ ~AwaitsQuorum(entry.last > 0, fresh)
           /\ entry' = [votes |-> votes, medianIndex |-> computeMedianIndex(votes),
                        last |-> UpperMedian(HeightsOf(fresh))]
           /\ oracle' = [price |-> UpperMedian(PricesOf(fresh)), height |-> UpperMedian(HeightsOf(fresh))]
  <2>1. /\ entry' \in Entries /\ entry'.votes = votes /\ entry'.last = UpperMedian(HeightsOf(fresh))
        /\ entry'.medianIndex = computeMedianIndex(votes)
    <3>1. PICK m \in Nat, l \in Nat : m = computeMedianIndex(votes) /\ l = UpperMedian(HeightsOf(fresh))
      BY <1>2, <1>4
    <3>2. entry' = [votes |-> votes, medianIndex |-> m, last |-> l]
      BY <1>6, <3>1
    <3>3. votes \in Seq(MetaVotes)
      BY <1>2
    <3> QED BY <3>1, <3>2, <3>3 DEF Entries
  <2>2. /\ oracle' \in [price : Nat, height : Nat]
        /\ oracle'.price = UpperMedian(PricesOf(fresh)) /\ oracle'.height = UpperMedian(HeightsOf(fresh))
    BY <1>4, <1>6
  <2>3. MetaInv'
    BY <1>2, <1>3, <2>1, <2>2 DEF MetaInv, OracleAgrees
  <2>4. entry.last > 0 \/ Len(fresh) >= chainMetaMinVotesForFirstWrite
    BY <1>4, <1>6, VoteTypes DEF AwaitsQuorum, chainMetaMinVotesForFirstWrite
  <2>5. Writes(votes, fresh)
    BY <1>2, <1>4, <2>1, <2>2, <2>4 DEF Writes
  <2> QED BY <2>3, <2>5
<1> QED BY <1>1, <1>5, <1>6 DEF VoteChainMeta, vote

LEMMA MetaPruneStep ==
  ASSUME MetaInv, NEW v \in Oracles, PruneValidatorVotes(v) PROVE MetaInv'
<1> DEFINE P == {i \in DOMAIN entry.votes : entry.votes[i].signer = v}
<1>1. PICK votes : votes = Kept(entry.votes, DOMAIN entry.votes \ P)
  OBVIOUS
<1>2. /\ entry' = IF votes = <<>> THEN NoEntry
                  ELSE [entry EXCEPT !.votes = votes, !.medianIndex = computeMedianIndex(votes)]
      /\ UNCHANGED <<oracle, head, now>>
  BY <1>1 DEF PruneValidatorVotes
<1> HIDE DEF P
<1>3. entry.votes \in Seq(MetaVotes) /\ Once(entry.votes) /\ entry \in Entries
  BY DEF MetaInv, Entries
<1>4. PICK old, Q :
         /\ old \in Seq(MetaVotes)
         /\ old = entry.votes /\ Once(old) /\ Q \in SUBSET (DOMAIN old) /\ votes = Kept(old, Q)
  BY <1>1, <1>3
<1>5. /\ votes \in Seq(MetaVotes) /\ Once(votes)
      /\ \A m \in DOMAIN votes : \E j \in Q : votes[m] = old[j]
  BY <1>4, KeptVotes
<1>6. \A i \in DOMAIN votes : votes[i].at <= now
  BY <1>4, <1>5 DEF MetaInv
<1>7. CASE votes = <<>>
  <2>1. /\ entry' = NoEntry /\ NoEntry \in Entries /\ NoEntry.votes = <<>> /\ NoEntry.last = 0
    BY <1>2, <1>7, NoElements DEF NoEntry, Entries
  <2>2. DOMAIN entry'.votes = {}
    BY <2>1
  <2> QED BY <1>2, <2>1, <2>2 DEF MetaInv, Once, OracleAgrees
<1>8. CASE votes # <<>>
  <2>1. Len(votes) # 0
    BY <1>5, <1>8, NoElements
  <2>2. computeMedianIndex(votes) \in 0 .. Len(votes) - 1 /\ Len(votes) \in Nat
    BY <1>5, <2>1, MedianIndexed, VoteTypes
  <2>3. /\ entry' \in Entries /\ entry'.votes = votes /\ entry'.last = entry.last
        /\ entry'.medianIndex = computeMedianIndex(votes)
    <3>1. PICK k \in Int : k = computeMedianIndex(votes)
      BY <2>2
    <3>2. entry' = [entry EXCEPT !.votes = votes, !.medianIndex = k]
      BY <1>2, <1>8, <3>1
    <3> QED BY <1>3, <1>5, <3>1, <3>2, Zenon DEF Entries
  <2> QED BY <1>2, <1>5, <1>6, <2>2, <2>3 DEF MetaInv, OracleAgrees
<1> QED BY <1>7, <1>8

LEMMA MetaInvInit ==
  ASSUME MetaInit PROVE MetaInv
<1>1. oracle = Unset /\ head = 1 /\ now = StalenessTicks + 1
  BY DEF MetaInit
<1>2. /\ oracle \in [price : Nat, height : Nat] /\ head \in Nat /\ now \in Nat /\ 0 <= now
  BY <1>1, TicksAssumption DEF Unset
<1>3. CASE entry = NoEntry
  <2>1. NoEntry \in Entries /\ NoEntry.votes = <<>> /\ NoEntry.last = 0
    BY NoElements DEF NoEntry, Entries
  <2> QED BY <1>2, <1>3, <2>1 DEF MetaInv, Once, OracleAgrees
<1>4. ASSUME NEW v \in Oracles, entry = MigrateGasPricesToChainMeta(<<v>>) PROVE MetaInv
  <2>1. PICK price : price = (CHOOSE p \in SeenPrices : TRUE)
    OBVIOUS
  <2>2. price \in SeenPrices
    BY <2>1, PricesAssumption
  <2> DEFINE vote == [signer |-> v, price |-> price, height |-> 1, at |-> 0]
             votes == [i \in 1 .. 1 |-> vote]
  <2>3. vote \in MetaVotes /\ vote.at = 0
    BY <2>2 DEF MetaVotes
  <2>4. DOMAIN <<v>> = 1 .. 1 /\ \A i \in 1 .. 1 : <<v>>[i] = v
    OBVIOUS
  <2>5. entry = [votes |-> votes, medianIndex |-> computeMedianIndex(votes), last |-> 0]
    BY <1>4, <2>1, <2>4, Zenon DEF MigrateGasPricesToChainMeta
  <2> HIDE DEF vote
  <2>6. DOMAIN votes = 1 .. 1 /\ \A i \in 1 .. 1 : votes[i] = vote /\ i = 1
    OBVIOUS
  <2>7. votes \in Seq(MetaVotes) /\ Len(votes) = 1 /\ Len(votes) # 0
    BY <2>3, IsSequence
  <2> HIDE DEF votes
  <2>8. computeMedianIndex(votes) \in 0 .. Len(votes) - 1
    BY <2>7, MedianIndexed, Zenon
  <2>9. entry \in Entries /\ entry.votes = votes /\ entry.last = 0
        /\ entry.medianIndex = computeMedianIndex(votes)
    BY <2>5, <2>7, <2>8 DEF Entries
  <2>10. Once(votes) /\ \A i \in DOMAIN votes : votes[i].at <= now
    BY <1>2, <2>3, <2>6 DEF Once
  <2> QED BY <1>2, <2>8, <2>9, <2>10 DEF MetaInv, OracleAgrees
<1> QED BY <1>3, <1>4, Zenon DEF MetaInit

LEMMA MetaStep ==
  ASSUME MetaInv, [MetaNext]_metaVars
  PROVE  MetaInv' /\ (oracle' = oracle \/ \E votes, fresh : Writes(votes, fresh))
<1>1. ASSUME NEW v \in Reliable, NEW price \in SeenPrices, VoteChainMeta(v, price, head)
      PROVE  MetaInv' /\ (oracle' = oracle \/ \E votes, fresh : Writes(votes, fresh))
  <2>1. v \in Oracles /\ price \in SeenPrices \cup OtherPrices /\ head \in Nat
    BY OraclesAssumption DEF MetaInv
  <2> QED BY <1>1, <2>1, MetaVoteStep
<1>2. ASSUME NEW v \in Oracles \ Reliable, NEW price \in SeenPrices \cup OtherPrices,
             NEW h \in 1 .. MaxHead + 1, VoteChainMeta(v, price, h)
      PROVE  MetaInv' /\ (oracle' = oracle \/ \E votes, fresh : Writes(votes, fresh))
  <2>1. v \in Oracles /\ h \in Nat
    BY TicksAssumption
  <2> QED BY <1>2, <2>1, MetaVoteStep
<1>3. ASSUME NEW v \in Oracles, PruneValidatorVotes(v) PROVE MetaInv' /\ oracle' = oracle
  BY <1>3, MetaPruneStep, Zenon DEF PruneValidatorVotes
<1>4. CASE MetaTick
  <2>1. UNCHANGED <<entry, oracle, head>> /\ now' = now + 1 /\ now \in Nat
    BY <1>4 DEF MetaTick, MetaInv
  <2>2. \A i \in DOMAIN entry.votes : entry.votes[i].at <= now + 1
    <3>1. \A i \in DOMAIN entry.votes : entry.votes[i].at \in Nat /\ entry.votes[i].at <= now
      BY VoteTypes, Zenon DEF MetaInv, Entries, MetaVotes
    <3> QED BY <2>1, <3>1
  <2> QED BY <2>1, <2>2 DEF MetaInv, OracleAgrees
<1>5. CASE MetaGrow
  BY <1>5 DEF MetaGrow, MetaInv, OracleAgrees
<1>6. CASE UNCHANGED metaVars
  BY <1>6 DEF metaVars, MetaInv, OracleAgrees
<1> QED BY <1>1, <1>2, <1>3, <1>4, <1>5, <1>6 DEF MetaNext
-----------------------------------------------------------------------------
ReliablePositions(votes) == {j \in DOMAIN votes : votes[j].signer \in Reliable}

LEMMA ReportedByMajority ==
  ASSUME NEW votes \in Seq(MetaVotes), Len(votes) # 0,
         2 * Cardinality(ReliablePositions(votes)) > Len(votes),
         NEW x, x.price = UpperMedian(PricesOf(votes)), x.height = UpperMedian(HeightsOf(votes))
  PROVE  Reported(x, votes)
<1>1. /\ Len(votes) \in Nat /\ DOMAIN votes = 1 .. Len(votes)
      /\ PricesOf(votes) \in Seq(Nat) /\ Len(PricesOf(votes)) = Len(votes)
      /\ HeightsOf(votes) \in Seq(Nat) /\ Len(HeightsOf(votes)) = Len(votes)
  BY VoteTypes
<1>2. PICK R \in SUBSET (1 .. Len(votes)) : R = ReliablePositions(votes)
  BY <1>1, Zenon DEF ReliablePositions
<1>3. /\ \E j \in R : PricesOf(votes)[j] <= UpperMedian(PricesOf(votes))
      /\ \E j \in R : UpperMedian(PricesOf(votes)) <= PricesOf(votes)[j]
  BY <1>1, <1>2, MedianAmong
<1>4. /\ \E j \in R : HeightsOf(votes)[j] <= UpperMedian(HeightsOf(votes))
      /\ \E j \in R : UpperMedian(HeightsOf(votes)) <= HeightsOf(votes)[j]
  BY <1>1, <1>2, MedianAmong, Zenon
<1>5. \A j \in R : /\ votes[j] \in ReliableVotes(votes) /\ PricesOf(votes)[j] = votes[j].price
                   /\ HeightsOf(votes)[j] = votes[j].height
  BY <1>1, <1>2 DEF ReliablePositions, ReliableVotes, PricesOf, HeightsOf
<1>6. Within(x.price, {vote.price : vote \in ReliableVotes(votes)})
  BY <1>3, <1>5, Zenon DEF Within
<1>7. Within(x.height, {vote.height : vote \in ReliableVotes(votes)})
  BY <1>4, <1>5, Zenon DEF Within
<1> QED BY <1>6, <1>7 DEF Reported

LEMMA ReliableCounted ==
  ASSUME NEW votes \in Seq(MetaVotes)
  PROVE  /\ IsFiniteSet(ReliablePositions(votes)) /\ IsFiniteSet(DOMAIN votes)
         /\ Cardinality(DOMAIN votes) = Len(votes)
         /\ Cardinality(ReliablePositions(votes)) \in Nat
         /\ Cardinality(ReliableVotes(votes)) \in Nat
         /\ Cardinality(ReliableVotes(votes)) <= Cardinality(ReliablePositions(votes))
<1> DEFINE R == ReliablePositions(votes)
           f == [j \in R |-> votes[j]]
<1>1. Len(votes) \in Nat /\ DOMAIN votes = 1 .. Len(votes)
  BY VoteTypes
<1>2. IsFiniteSet(DOMAIN votes) /\ Cardinality(DOMAIN votes) = Len(votes)
  BY <1>1, FS_Interval
<1>3. R \subseteq DOMAIN votes
  BY DEF ReliablePositions
<1>4. IsFiniteSet(R) /\ Cardinality(R) \in Nat
  BY <1>2, <1>3, FS_Subset, FS_CardinalityType
<1>5. f \in Surjection(R, ReliableVotes(votes))
  BY DEF Surjection, ReliableVotes, ReliablePositions
<1> HIDE DEF R, f
<1>6. IsFiniteSet(ReliableVotes(votes)) /\ Cardinality(ReliableVotes(votes)) <= Cardinality(R)
  BY <1>4, <1>5, FS_Surjection
<1>7. Cardinality(ReliableVotes(votes)) \in Nat
  BY <1>6, FS_CardinalityType
<1> QED BY <1>2, <1>4, <1>6, <1>7 DEF R

LEMMA MajorityReported ==
  ASSUME NEW votes, NEW fresh, Writes(votes, fresh),
         2 * Cardinality(ReliableVotes(fresh)) > Len(fresh)
  PROVE  Reported(oracle', fresh)
<1>1. fresh \in Seq(MetaVotes) /\ Len(fresh) # 0 /\ Len(fresh) \in Nat
  BY VoteTypes DEF Writes
<1>2. 2 * Cardinality(ReliablePositions(fresh)) > Len(fresh)
  <2>1. /\ Cardinality(ReliablePositions(fresh)) \in Nat /\ Cardinality(ReliableVotes(fresh)) \in Nat
        /\ Cardinality(ReliableVotes(fresh)) <= Cardinality(ReliablePositions(fresh))
    BY <1>1, ReliableCounted
  <2> QED BY <1>1, <2>1
<1>3. PICK x : x = oracle'
  OBVIOUS
<1>4. x.price = UpperMedian(PricesOf(fresh)) /\ x.height = UpperMedian(HeightsOf(fresh))
  BY <1>3 DEF Writes
<1>5. Reported(x, fresh)
  BY <1>1, <1>2, <1>4, ReportedByMajority
<1> QED BY <1>3, <1>5

\* With one unreliable validator, three votes of different validators have a reliable majority.
LEMMA FirstWriteReported ==
  ASSUME NEW votes, NEW fresh, Writes(votes, fresh), Cardinality(Oracles \ Reliable) <= 1,
         entry.last = 0
  PROVE  Reported(oracle', fresh)
<1> DEFINE R == ReliablePositions(fresh)
           B == DOMAIN fresh \ R
           f == [j \in B |-> fresh[j].signer]
<1>1. fresh \in Seq(MetaVotes) /\ Len(fresh) \in Nat /\ Len(fresh) >= 3 /\ Once(fresh)
  BY VoteTypes DEF Writes, chainMetaMinVotesForFirstWrite
<1>2. \A j \in B : fresh[j].signer \in Oracles \ Reliable
  BY <1>1, VoteTypes, Zenon DEF MetaVotes, ReliablePositions
<1>3. f \in Injection(B, Oracles \ Reliable)
  <2>1. f \in [B -> Oracles \ Reliable]
    BY <1>2
  <2>2. \A a, b \in B : f[a] = f[b] => a = b
    BY <1>1 DEF Once
  <2> HIDE DEF f
  <2> QED BY <2>1, <2>2 DEF Injection, IsInjective
<1>4. /\ IsFiniteSet(R) /\ IsFiniteSet(DOMAIN fresh) /\ Cardinality(DOMAIN fresh) = Len(fresh)
      /\ Cardinality(R) \in Nat
  BY <1>1, ReliableCounted
<1>5. R \subseteq DOMAIN fresh
  BY DEF ReliablePositions
<1> HIDE DEF f, R
<1>6. IsFiniteSet(Oracles \ Reliable) /\ Cardinality(Oracles \ Reliable) \in Nat
  BY OraclesAssumption, FS_Difference, FS_CardinalityType, Zenon
<1>7. Cardinality(B) <= Cardinality(Oracles \ Reliable)
  BY <1>3, <1>6, FS_Injection
<1>8. Cardinality(B) = Len(fresh) - Cardinality(R)
  <2>1. DOMAIN fresh \cap R = R
    BY <1>5
  <2>2. Cardinality(B) = Cardinality(DOMAIN fresh) - Cardinality(DOMAIN fresh \cap R)
    BY <1>4, FS_Difference, Zenon
  <2> QED BY <1>4, <2>1, <2>2, Zenon
<1>9. 2 * Cardinality(R) > Len(fresh)
  <2> HIDE DEF B
  <2> QED BY <1>1, <1>4, <1>6, <1>7, <1>8
<1>10. PICK x : x = oracle'
  OBVIOUS
<1>11. /\ x.price = UpperMedian(PricesOf(fresh)) /\ x.height = UpperMedian(HeightsOf(fresh))
       /\ Len(fresh) # 0
  BY <1>1, <1>10 DEF Writes
<1>12. Reported(x, fresh)
  BY <1>1, <1>9, <1>11, ReportedByMajority DEF R
<1> QED BY <1>10, <1>12

\* The stored entry keeps one vote per signer and a MedianIndex that is a position of the
\* prices, for any validators: votes replaced in place, pruned or migrated never leave it
\* pointing past them.
THEOREM MetaEntriesTyped == MetaSpec => []MetaTypeOK
<1>1. MetaInv => MetaTypeOK
  <2> SUFFICES ASSUME MetaInv PROVE MetaTypeOK
    OBVIOUS
  <2>1. entry.votes \in Seq(MetaVotes) /\ entry.last \in Nat
    BY DEF MetaInv, Entries
  <2>2. \A i \in DOMAIN entry.votes : entry.votes[i] \in MetaVotes
    BY <2>1, VoteTypes
  <2> QED BY <2>1, <2>2 DEF MetaInv, Once, MetaTypeOK
<1>2. MetaInv /\ [MetaNext]_metaVars => MetaInv'
  BY MetaStep
<1> QED BY <1>1, <1>2, MetaInvInit, PTL DEF MetaSpec

\* The height that VoteChainMeta holds votes against is the one the contract was told.
THEOREM OracleAgreement == MetaSpec => []OracleAgrees
<1>1. MetaInv => OracleAgrees
  BY DEF MetaInv
<1>2. MetaInv /\ [MetaNext]_metaVars => MetaInv'
  BY MetaStep
<1> QED BY <1>1, <1>2, MetaInvInit, PTL DEF MetaSpec

\* Where reliable validators cast more than half of the recent votes, both medians that
\* are written lie between votes of theirs, for any number of validators and prices: more
\* than half of the positions are at or below the median, and at least half not below it.
THEOREM MediansBounded == MetaSpec => MajorityBounds
<1>1. MetaInv /\ [MetaNext]_metaVars
        => [LET votes == RecentVotes(entry'.votes)
            IN  oracle' # oracle /\ 2 * Cardinality(ReliableVotes(votes)) > Len(votes)
                  => Reported(oracle', votes)]_metaVars
  <2> SUFFICES ASSUME MetaInv, [MetaNext]_metaVars, oracle' # oracle,
                      2 * Cardinality(ReliableVotes(RecentVotes(entry'.votes)))
                         > Len(RecentVotes(entry'.votes))
               PROVE  Reported(oracle', RecentVotes(entry'.votes))
    OBVIOUS
  <2>1. PICK votes, fresh : Writes(votes, fresh)
    BY MetaStep
  <2>2. fresh = RecentVotes(entry'.votes)
    BY <2>1 DEF Writes
  <2> QED BY <2>1, <2>2, MajorityReported
<1>2. MetaInv /\ [MetaNext]_metaVars => MetaInv'
  BY MetaStep
<1> QED BY <1>1, <1>2, MetaInvInit, PTL DEF MetaSpec, MajorityBounds

\* chainMetaMinVotesForFirstWrite is enough against one unreliable validator: the first
\* write, or the first after everyone left, lies between reliable votes.
THEOREM FirstWritesRobust == MetaSpec => FirstWriteRobust
<1>1. MetaInv /\ [MetaNext]_metaVars
        => [Cardinality(Oracles \ Reliable) <= 1 /\ entry.last = 0 /\ oracle' # oracle
              => Reported(oracle', RecentVotes(entry'.votes))]_metaVars
  <2> SUFFICES ASSUME MetaInv, [MetaNext]_metaVars, oracle' # oracle, entry.last = 0,
                      Cardinality(Oracles \ Reliable) <= 1
               PROVE  Reported(oracle', RecentVotes(entry'.votes))
    OBVIOUS
  <2>1. PICK votes, fresh : Writes(votes, fresh)
    BY MetaStep
  <2>2. fresh = RecentVotes(entry'.votes)
    BY <2>1 DEF Writes
  <2> QED BY <2>1, <2>2, FirstWriteReported
<1>2. MetaInv /\ [MetaNext]_metaVars => MetaInv'
  BY MetaStep
<1> QED BY <1>1, <1>2, MetaInvInit, PTL DEF MetaSpec, FirstWriteRobust
=============================================================================
