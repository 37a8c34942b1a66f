------------------------------ MODULE Inbounds ------------------------------
(***************************************************************************)
(* The inbound half of x/uexecutor up to the birth of a UniversalTx.       *)
(*                                                                         *)
(* An event of a source chain has a UTX key (chain, tx hash, log index).   *)
(* Validators may decode it differently: every distinct Inbound is a       *)
(* variant with a ballot of its own.  PendingInbounds keeps, per key, who  *)
(* voted for which variant; the terminal hook that x/uvalidator fires      *)
(* closes variants and moves an entry whose variants all died to           *)
(* ExpiredInbounds.  A variant that passes, or the admin, creates the UTX. *)
(*                                                                         *)
(* What execution does to the UTX is module UExecutor; here it either      *)
(* returns nil or, for the transaction types ExecuteInbound does not know, *)
(* an error that reverts the vote with everything it did.  What other      *)
(* modules answer at the moment of a call (the eligible voters, the        *)
(* inbound switch of the chain) is an input of the action.                 *)
(***************************************************************************)
EXTENDS BallotOps

CONSTANTS Validators,    \* core validators that may be universal validators
          Keys,          \* UTX keys
          Variants,      \* the Inbounds a validator may report for a key
          Unsupported,   \* those whose TxType ExecuteInbound rejects
          ExpiryAfter,   \* DefaultExpiryAfterBlocks
          MaxHeight      \* bound on the block height

ASSUME InValidatorsAssumption == IsFiniteSet(Validators)
ASSUME InVariantsAssumption == Unsupported \subseteq Variants
ASSUME InBoundsAssumption == MaxHeight \in Nat /\ ExpiryAfter \in Nat \ {0}

BallotKeys == Keys \X Variants

VARIABLES pendingIn,   \* PendingInbounds: key -> variant -> [voters, status]
          expiredIn,   \* ExpiredInbounds, likewise
          ballots,     \* the inbound ballots of x/uvalidator
          utxs,        \* UniversalTx: key -> how it came to be
          height       \* block height

vars == <<pendingIn, expiredIn, ballots, utxs, height>>

EmptyMap == [i \in {} |-> NotYet]

Init ==
    /\ pendingIn = EmptyMap
    /\ expiredIn = EmptyMap
    /\ ballots = EmptyMap
    /\ utxs = EmptyMap
    /\ height = 0

With(f, i, x) == [j \in DOMAIN f \cup {i} |-> IF j = i THEN x ELSE f[j]]
Without(f, S) == [j \in DOMAIN f \ S |-> f[j]]
-----------------------------------------------------------------------------
(***************************************************************************)
(* RecordInboundVote: the entry of the first vote, the variant of the      *)
(* first vote for a payload, the voter once.                               *)
(***************************************************************************)
RecordLastVoter(p, k, b, v) ==
    LET entry == IF k \in DOMAIN p THEN p[k] ELSE EmptyMap
    IN  With(p, k, With(entry, b, [voters |-> {v}, status |-> "PENDING"]))

RecordInboundVote(p, k, b, v) ==
    LET entry   == IF k \in DOMAIN p THEN p[k] ELSE EmptyMap
        variant == IF b \in DOMAIN entry
                   THEN [entry[b] EXCEPT !.voters = @ \cup {v}]
                   ELSE [voters |-> {v}, status |-> "PENDING"]
    IN  With(p, k, With(entry, b, variant))

(***************************************************************************)
(* AfterBallotTerminal for the ballots `gone' that just expired, in        *)
(* whatever order.  A ballot whose key has no entry is ignored.            *)
(***************************************************************************)
Marked(entry, k, gone) ==
    [b \in DOMAIN entry |->
        IF <<k, b>> \in gone THEN [entry[b] EXCEPT !.status = "EXPIRED"] ELSE entry[b]]

ClosedByAny(p, gone) == {k \in DOMAIN p : \E b \in DOMAIN p[k] : <<k, b>> \in gone}

Closed(p, gone) ==
    {k \in DOMAIN p : /\ \E b \in DOMAIN p[k] : <<k, b>> \in gone
                      /\ \A b \in DOMAIN p[k] : Marked(p[k], k, gone)[b].status # "PENDING"}

PendingAfter(p, gone) ==
    [k \in DOMAIN p \ Closed(p, gone) |-> Marked(p[k], k, gone)]

ExpiredAfter(p, x, gone) ==
    [k \in DOMAIN x \cup Closed(p, gone) |->
        IF k \in Closed(p, gone) THEN Marked(p[k], k, gone) ELSE x[k]]
-----------------------------------------------------------------------------
(***************************************************************************)
(* VoteInbound.  Opening a ballot sweeps the stale ones, whose hooks run   *)
(* after this vote was recorded.  The hook of the passing ballot and       *)
(* RemovePendingInbound between them leave no entry for the key.  The      *)
(* message server also asks that the signer is bonded and not tombstoned:  *)
(* any voter the ballot lists may be.                                      *)
(***************************************************************************)
InboundBallot(eligible) == NewBallot(eligible, Quorum(Cardinality(eligible)), height, ExpiryAfter)

SweptByOpening(id) == IF id \in DOMAIN ballots THEN {} ELSE Stale(ballots, height)

NoneToFind(k) == TRUE

NoUniversalTx(k) == k \notin DOMAIN utxs

VoteInbound(v, k, b, inboundEnabled, eligible) ==
    LET id       == <<k, b>>
        new      == InboundBallot(eligible)
        store    == VoteOnBallot(ballots, id, new, v, "SUCCESS", height)
        recorded == RecordInboundVote(pendingIn, k, b, v)
        gone     == SweptByOpening(id)
    IN  /\ inboundEnabled
        /\ NoUniversalTx(k)
        /\ VoteAccepted(ballots, id, new, v, height)
        /\ ballots' = store
        /\ expiredIn' = ExpiredAfter(recorded, expiredIn, gone)
        /\ \/ /\ store[id].status = "PENDING"
              /\ pendingIn' = PendingAfter(recorded, gone)
              /\ UNCHANGED utxs
           \/ /\ store[id].status # "PENDING"
              /\ b \notin Unsupported
              /\ pendingIn' = Without(PendingAfter(recorded, gone), {k})
              /\ utxs' = With(utxs, k, [by |-> "vote", variant |-> b])
        /\ UNCHANGED height

(***************************************************************************)
(* RevertStuckInbound of the admin.  Neither PendingInbounds nor           *)
(* ExpiredInbounds is touched.                                             *)
(***************************************************************************)
Revertable(k, b) ==
    <<k, b>> \in DOMAIN ballots /\ ballots[<<k, b>>].status = "EXPIRED" /\ NoUniversalTx(k)

RevertStuckInbound(k, b) ==
    /\ Revertable(k, b)
    /\ utxs' = With(utxs, k, [by |-> "admin", variant |-> b])
    /\ UNCHANGED <<pendingIn, expiredIn, ballots, height>>

(***************************************************************************)
(* The admin's MsgRecomputeBallotQuorum on an inbound ballot; expiry for   *)
(* want of voters fires the hook.                                          *)
(***************************************************************************)
RecomputeInboundBallot(id, eligible) ==
    LET b    == RecomputeBallotQuorum(ballots[id], eligible)
        gone == IF b.status = "EXPIRED" THEN {id} ELSE {}
    IN  /\ id \in DOMAIN ballots
        /\ ballots[id].status = "PENDING"
        /\ ballots' = [ballots EXCEPT ![id] = b]
        /\ pendingIn' = PendingAfter(pendingIn, gone)
        /\ expiredIn' = ExpiredAfter(pendingIn, expiredIn, gone)
        /\ UNCHANGED <<utxs, height>>

(***************************************************************************)
(* Opening an outbound, TSS or migration ballot sweeps the inbound ballots *)
(* too.                                                                    *)
(***************************************************************************)
OpenOtherBallot ==
    LET gone == Stale(ballots, height)
    IN  /\ gone # {}
        /\ ballots' = ExpireBallotsBeforeHeight(ballots, height)
        /\ pendingIn' = PendingAfter(pendingIn, gone)
        /\ expiredIn' = ExpiredAfter(pendingIn, expiredIn, gone)
        /\ UNCHANGED <<utxs, height>>

NextBlock ==
    /\ height < MaxHeight
    /\ height' = height + 1
    /\ UNCHANGED <<pendingIn, expiredIn, ballots, utxs>>

Next ==
    \/ \E eligible \in SUBSET Validators :
          \/ \E v \in Validators, k \in Keys, b \in Variants, on \in BOOLEAN :
                VoteInbound(v, k, b, on, eligible)
          \/ \E id \in BallotKeys : RecomputeInboundBallot(id, eligible)
    \/ \E k \in Keys, b \in Variants : RevertStuckInbound(k, b)
    \/ OpenOtherBallot
    \/ NextBlock

Spec == Init /\ [][Next]_vars

-----------------------------------------------------------------------------
InBallotOK(b) ==
    /\ b = [voters |-> b.voters, votes |-> b.votes, threshold |-> b.threshold,
            status |-> b.status, expiry |-> b.expiry]
    /\ b.voters \in SUBSET Validators
    /\ b.votes \in [b.voters -> VoteResults \cup {NotYet}]
    /\ b.threshold \in Nat
    /\ b.status \in BallotStatuses
    /\ b.expiry \in Nat

EntriesOK(p) ==
    \A k \in DOMAIN p : \A b \in DOMAIN p[k] :
        /\ k \in Keys /\ b \in Variants
        /\ p[k][b] \in [voters : SUBSET Validators, status : BallotStatuses]

\* The types of the collections.
TypeOK ==
    /\ EntriesOK(pendingIn) /\ EntriesOK(expiredIn)
    /\ DOMAIN ballots \subseteq BallotKeys
    /\ \A i \in DOMAIN ballots : InBallotOK(ballots[i])
    /\ DOMAIN utxs \subseteq Keys
    /\ \A k \in DOMAIN utxs : utxs[k] \in [by : {"vote", "admin"}, variant : Variants]
    /\ height \in Nat

\* One event moves funds once: at most one of a key's variants ever passes, and it
\* passed exactly when it created the UTX; a UTX the admin reverted rests on an
\* expired variant and excludes every passed one.  The variants' ballots know
\* nothing of each other, and only HasUniversalTx stands between them.
OneOutcome ==
    \A k \in Keys, b \in Variants :
        /\ (<<k, b>> \in DOMAIN ballots /\ ballots[<<k, b>>].status = "PASSED")
               <=> (k \in DOMAIN utxs /\ utxs[k] = [by |-> "vote", variant |-> b])
        /\ (k \in DOMAIN utxs /\ utxs[k] = [by |-> "admin", variant |-> b])
               => (<<k, b>> \in DOMAIN ballots /\ ballots[<<k, b>>].status = "EXPIRED")

\* PendingInbounds mirrors the ballots it cannot see: an entry's variants carry the
\* status of their ballots and name everyone whose vote the ballot counts, one of
\* them is still open, and every open ballot of a key without a UTX is in an entry.
PendingMirrorsBallots ==
    /\ \A k \in DOMAIN pendingIn :
          /\ \A b \in DOMAIN pendingIn[k] :
                /\ <<k, b>> \in DOMAIN ballots
                /\ pendingIn[k][b].status = ballots[<<k, b>>].status
                /\ YesVoters(ballots[<<k, b>>]) \subseteq pendingIn[k][b].voters
          /\ \E b \in DOMAIN pendingIn[k] : pendingIn[k][b].status = "PENDING"
    /\ \A id \in DOMAIN ballots :
          ballots[id].status = "PENDING" /\ id[1] \notin DOMAIN utxs
             => id[1] \in DOMAIN pendingIn /\ id[2] \in DOMAIN pendingIn[id[1]]

\* The hook reports the death of an inbound, never of one that is still open: no
\* variant of an ExpiredInbounds entry has a ballot that is pending or passed.
ExpiredIsTerminal ==
    \A k \in DOMAIN expiredIn : \A b \in DOMAIN expiredIn[k] :
        /\ expiredIn[k][b].status = "EXPIRED"
        /\ <<k, b>> \in DOMAIN ballots /\ ballots[<<k, b>>].status = "EXPIRED"
=============================================================================
