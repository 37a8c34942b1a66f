---------------------------- MODULE FundMigration ----------------------------
(***************************************************************************)
(* Fund migrations of x/utss: the admin opens a record that moves the      *)
(* funds one chain holds under an old TSS key to the current key, and the  *)
(* universal validators vote on the transaction they observed.             *)
(*                                                                         *)
(* What other modules answer at the moment of a call is an input of the    *)
(* action: the eligible voters (x/uvalidator), the outbound switch of the  *)
(* chain (x/uregistry), whether it has pending outbounds (x/uexecutor).    *)
(* They change at any moment, also while a migration is open.  Keys are    *)
(* numbered in the order they were installed; the last is CurrentTssKey.   *)
(***************************************************************************)
EXTENDS BallotOps

CONSTANTS Validators,     \* core validators that may be universal validators
          Chains,         \* external chains
          TxHashes,       \* transactions a validator may report
          ExpiryAfter,    \* fundMigrationExpiryBlocks
          MaxKeys,        \* bound on the keys ever installed
          MaxMigrations,  \* bound on the migrations ever opened
          MaxHeight       \* bound on the block height

ASSUME MigValidatorsAssumption == IsFiniteSet(Validators)
ASSUME MigBoundsAssumption ==
    MaxKeys \in Nat /\ MaxMigrations \in Nat /\ MaxHeight \in Nat /\ ExpiryAfter \in Nat \ {0}

MigrationIds == 0 .. (MaxMigrations - 1)
BallotKeys == MigrationIds \X TxHashes \X BOOLEAN
NoTx == "none"

VARIABLES keys,         \* how many keys TssKeyHistory holds
          migrations,   \* FundMigrations
          pending,      \* PendingMigrations
          ballots,      \* the fund migration ballots of x/uvalidator
          height        \* block height

vars == <<keys, migrations, pending, ballots, height>>

Init ==
    /\ keys = 0
    /\ migrations = [i \in {} |-> NotYet]
    /\ pending = {}
    /\ ballots = [i \in {} |-> NotYet]
    /\ height = 0

CurrentKey == keys

\* NextMigrationId counts the records from zero, and records are never deleted.
NextMigrationId == Cardinality(DOMAIN migrations)

MigratableKey(old) == old \in 1 .. CurrentKey /\ old # CurrentKey

HasMigrationToCurrent(chain) ==
    \E i \in pending : migrations[i].chain = chain /\ migrations[i].cur = CurrentKey

HasPendingMigration(chain) == \E i \in pending : migrations[i].chain = chain

(***************************************************************************)
(* InitiateFundMigration.  The three gas queries to UniversalCore may fail *)
(* and then nothing happens.                                               *)
(***************************************************************************)
InitiateFundMigration(old, chain, outboundEnabled, hasPendingOutbounds) ==
    /\ MigratableKey(old)
    /\ ~outboundEnabled
    /\ ~hasPendingOutbounds
    /\ ~HasPendingMigration(chain)
    /\ NextMigrationId < MaxMigrations
    /\ migrations' = [i \in DOMAIN migrations \cup {NextMigrationId} |->
                        IF i = NextMigrationId
                        THEN [old |-> old, cur |-> CurrentKey, chain |-> chain,
                              status |-> "PENDING", tx |-> NoTx]
                        ELSE migrations[i]]
    /\ pending' = pending \cup {NextMigrationId}
    /\ UNCHANGED <<keys, ballots, height>>

(***************************************************************************)
(* VoteFundMigration.  An observation is its own ballot; a failed one is   *)
(* voted FAILURE, so it is decided by becoming REJECTED.  The message      *)
(* server also asks that the signer is bonded and not tombstoned: any      *)
(* voter the ballot lists may be.                                          *)
(***************************************************************************)
MigrationBallot(eligible) ==
    NewBallot(eligible, Quorum(Cardinality(eligible)), height, ExpiryAfter)

ResultOf(success) == IF success THEN "SUCCESS" ELSE "FAILURE"
StatusOf(success) == IF success THEN "COMPLETED" ELSE "FAILED"

IsKnownMigration(i) == i \in DOMAIN migrations

IsOpenMigration(i) == i \in DOMAIN migrations /\ migrations[i].status = "PENDING"

Finalize(i, tx, success) ==
    [migrations EXCEPT ![i].status = StatusOf(success), ![i].tx = tx]

PendingUnlessFailed(i, success) == IF success THEN pending \ {i} ELSE pending

PendingWithout(i, success) == pending \ {i}

VoteFundMigration(v, i, tx, success, eligible) ==
    LET id    == <<i, tx, success>>
        new   == MigrationBallot(eligible)
        store == VoteOnBallot(ballots, id, new, v, ResultOf(success), height)
    IN  /\ IsOpenMigration(i)
        /\ VoteAccepted(ballots, id, new, v, height)
        /\ ballots' = store
        /\ IF store[id].status = "PENDING"
           THEN UNCHANGED <<migrations, pending>>
           ELSE migrations' = Finalize(i, tx, success) /\ pending' = PendingWithout(i, success)
        /\ UNCHANGED <<keys, height>>

(***************************************************************************)
(* The admin's MsgRecomputeBallotQuorum on a migration ballot.             *)
(***************************************************************************)
RecomputeMigrationBallot(id, eligible) ==
    /\ id \in DOMAIN ballots
    /\ ballots[id].status = "PENDING"
    /\ ballots' = [ballots EXCEPT ![id] = RecomputeBallotQuorum(@, eligible)]
    /\ UNCHANGED <<keys, migrations, pending, height>>

(***************************************************************************)
(* ExportGenesis followed by InitGenesis on the new chain: the index is    *)
(* not exported but rebuilt from the records that are still PENDING.       *)
(***************************************************************************)
ExportImportGenesis ==
    /\ pending' = {i \in DOMAIN migrations : migrations[i].status = "PENDING"}
    /\ UNCHANGED <<keys, migrations, ballots, height>>

InstallKey ==
    /\ keys < MaxKeys
    /\ keys' = keys + 1
    /\ UNCHANGED <<migrations, pending, ballots, height>>

NextBlock ==
    /\ height < MaxHeight
    /\ height' = height + 1
    /\ UNCHANGED <<keys, migrations, pending, ballots>>

Next ==
    \/ \E old \in 1 .. MaxKeys, chain \in Chains, on, busy \in BOOLEAN :
          InitiateFundMigration(old, chain, on, busy)
    \/ \E eligible \in SUBSET Validators :
          \/ \E v \in Validators, i \in MigrationIds, tx \in TxHashes, success \in BOOLEAN :
                VoteFundMigration(v, i, tx, success, eligible)
          \/ \E id \in BallotKeys : RecomputeMigrationBallot(id, eligible)
    \/ ExportImportGenesis
    \/ InstallKey
    \/ NextBlock

Spec == Init /\ [][Next]_vars
-----------------------------------------------------------------------------
MigrationOK(m) ==
    /\ m = [old |-> m.old, cur |-> m.cur, chain |-> m.chain, status |-> m.status, tx |-> m.tx]
    /\ m.old \in Nat /\ m.cur \in Nat
    /\ m.chain \in Chains
    /\ m.status \in {"PENDING", "COMPLETED", "FAILED"}
    /\ m.tx \in TxHashes \cup {NoTx}

MigBallotOK(b) ==
    /\ b = [voters |-> b.voters, votes |-> b.votes, threshold |-> b.threshold,
            status |-> b.status, expiry |-> b.expiry]
    /\ b.voters \in SUBSET Validators
    /\ b.votes \in [b.voters -> VoteResults \cup {NotYet}]
    /\ b.threshold \in Nat
    /\ b.status \in BallotStatuses
    /\ b.expiry \in Nat

\* The types of the collections; the pending index names stored records only.
TypeOK ==
    /\ keys \in Nat
    /\ DOMAIN migrations \subseteq MigrationIds
    /\ \A i \in DOMAIN migrations : MigrationOK(migrations[i])
    /\ pending \subseteq DOMAIN migrations
    /\ DOMAIN ballots \subseteq BallotKeys
    /\ \A i \in DOMAIN ballots : MigBallotOK(ballots[i])
    /\ height \in Nat

\* InitiateFundMigration looks for an open migration only in PendingMigrations:
\* the index holds exactly the PENDING records, whatever votes, failures and
\* genesis exports came before.
PendingIndexExact == pending = {i \in DOMAIN migrations : migrations[i].status = "PENDING"}

\* Two signing rounds must never spend one chain's vault at once: at any moment
\* a chain has at most one open migration, from whichever old key.
OneOpenPerChain ==
    \A i, j \in DOMAIN migrations :
        /\ migrations[i].status = "PENDING" /\ migrations[j].status = "PENDING"
        /\ migrations[i].chain = migrations[j].chain
        => i = j

Decisive(id) == id \in DOMAIN ballots /\ ballots[id].status \in {"PASSED", "REJECTED"}

ReportedBy(id) == {v \in ballots[id].voters : ballots[id].votes[v] = ResultOf(id[3])}

\* The outcome of a migration is the one observation its voters agreed on: a
\* closed record carries the transaction and result of a ballot that more than
\* two thirds of its voters decided, an open record has no decided ballot, and no
\* second observation of the same migration is ever decided, although each has a
\* ballot of its own.
OutcomeAgreed ==
    \A i \in DOMAIN migrations, tx \in TxHashes, success \in BOOLEAN :
        LET id == <<i, tx, success>>
        IN  /\ Decisive(id) <=> (migrations[i].tx = tx /\ migrations[i].status = StatusOf(success))
            /\ Decisive(id) => 3 * Cardinality(ReportedBy(id)) > 2 * Cardinality(ballots[id].voters)

\* Funds only ever move forward: the source key was installed before the key
\* they move to, and that key is one the chain had at the time, also when
\* further keys are installed while the migration is open.
MovesForward ==
    \A i \in DOMAIN migrations :
        migrations[i].old < migrations[i].cur /\ migrations[i].cur <= CurrentKey
=============================================================================
