----------------------------- MODULE VoteClient -----------------------------
(***************************************************************************)
(* One universal validator's client, from an event of a source chain to a  *)
(* counted vote, composed with the voting of module Inbounds.              *)
(*                                                                         *)
(* The listener scans block ranges and stores the event as a PENDING row;  *)
(* the confirmer counts confirmations; the processor votes and completes   *)
(* the row; the cleaner drops it.  The signer gives every transaction of   *)
(* the hot key a sequence number it caches, and shares it with the other   *)
(* votes of the client (the chain-meta oracle's stand for them all).  Rows *)
(* and the saved height are in the database and survive a crash; the rest  *)
(* is memory.  Push Chain checks sequences when it admits a transaction    *)
(* and executes it in a later block, or loses it.                          *)
(*                                                                         *)
(* env is fixed per behaviour: where a listener without saved height       *)
(* starts, by how many blocks the endpoints of the source chain may lag,   *)
(* whether a scan may miss the event (a row that cannot be inserted, a     *)
(* Solana transaction that cannot be fetched: both are only logged),       *)
(* whether the transaction that emitted the event failed, which other      *)
(* validators are up, and how many crashes and lost or failed calls there  *)
(* are (a bound).                                                          *)
(***************************************************************************)
EXTENDS Inbounds, Sequences

CONSTANTS Honest,         \* validators that report Truth, and keep reporting
          Self,           \* the one whose client is modelled
          Event,          \* the UTX key of the event
          Truth,          \* the Inbound an honest validator decodes
          EventBlock,     \* its block on the source chain
          Required,       \* confirmations the event needs
          WordSize,       \* 2^64 of the unsigned confirmation count
          Environments,
          MaxBlock,       \* bound on the source chain
          MaxMetaVotes    \* bound on the votes of the chain-meta oracle

EnvironmentOK(e) ==
    e \in [start : {"config", "latest"}, lag : Nat, misses : BOOLEAN,
           failed : BOOLEAN, up : SUBSET Validators, faults : Nat]

ASSUME VoteClientAssumption ==
    /\ Honest \subseteq Validators /\ Self \in Honest
    /\ Event \in Keys /\ Truth \in Variants \ Unsupported
    /\ EventBlock \in Nat \ {0} /\ Required \in Nat /\ MaxBlock \in Nat
    /\ WordSize \in Nat \ {0} /\ MaxMetaVotes \in Nat
    /\ \A e \in Environments : EnvironmentOK(e)

VARIABLES env,
          head,     \* latest block of the source chain
          row,      \* status of the event's row
          saved,    \* State.BlockHeight; 0: nothing saved
          cursor,   \* currentBlock of the listener
          scan,     \* toBlock of the poll under way; 0: none
          last,     \* lastSequence of the signer; 0: unknown
          call,     \* the vote that holds the signer's mutex, and its attempt
          await,    \* what became of the transaction the processor waits for
          sequence, \* Push Chain: committed sequence of the hot key
          pool,     \* Push Chain: admitted transactions of the hot key
          metaVotes,
          faults

client == <<row, saved, cursor, scan, last, call, await>>
push == <<sequence, pool>>
world == <<env, head, metaVotes, faults>>
all == <<vars, client, push, world>>

Free == [vote |-> "none", attempt |-> 0]

Fault == faults < env.faults /\ faults' = faults + 1

Biggest(a, b) == IF a > b THEN a ELSE b

\* Block numbers the endpoints of the source chain may answer with.
Heads == Biggest(0, head - env.lag) .. head
-----------------------------------------------------------------------------
(***************************************************************************)
(* getStartBlock: the saved height, which is scanned again; without one,   *)
(* the configured block or the latest.                                     *)
(***************************************************************************)
StartBlock(s, latest) ==
    IF s # 0 THEN s
    ELSE IF env.start = "config" THEN 0
    ELSE latest

ClientInit ==
    /\ Init
    /\ env \in Environments
    /\ head = EventBlock - 1
    /\ row = "ABSENT"
    /\ saved = 0
    /\ cursor = StartBlock(0, EventBlock - 1)
    /\ scan = 0
    /\ last = 0
    /\ call = Free
    /\ await = "nothing"
    /\ sequence = 0
    /\ pool = <<>>
    /\ metaVotes = 0
    /\ faults = 0

(***************************************************************************)
(* processNewBlocks and processNewSlots, up to the stored rows: nothing to *)
(* do unless the cursor is behind the latest block; an event that is       *)
(* already stored, in whatever status, is left alone.                      *)
(***************************************************************************)
ScanRangeShort(latest, missed) ==
    /\ scan = 0 /\ cursor < latest
    /\ missed => env.misses
    /\ scan' = latest
    /\ row' = IF EventBlock \in cursor .. (latest - 1) /\ row \in {"ABSENT", "CLEANED"} /\ ~missed
              THEN "PENDING" ELSE row
    /\ UNCHANGED <<vars, push, world, saved, cursor, last, call, await>>

ScanRange(latest, missed) ==
    /\ scan = 0 /\ cursor < latest
    /\ missed => env.misses
    /\ scan' = latest
    /\ row' = IF EventBlock \in cursor .. latest /\ row \in {"ABSENT", "CLEANED"} /\ ~missed
              THEN "PENDING" ELSE row
    /\ UNCHANGED <<vars, push, world, saved, cursor, last, call, await>>

(***************************************************************************)
(* The end of the poll: the height is saved, and an error of the save is   *)
(* logged; the cursor moves past the range.  An error in a later chunk or  *)
(* page of the range ends the poll with the cursor where it was.           *)
(***************************************************************************)
FinishScan ==
    /\ scan # 0
    /\ saved' = Biggest(saved, scan)
    /\ cursor' = scan + 1
    /\ scan' = 0
    /\ UNCHANGED <<vars, push, world, row, last, call, await>>

FinishScanUnsaved ==
    /\ scan # 0 /\ Fault
    /\ cursor' = scan + 1
    /\ scan' = 0
    /\ UNCHANGED <<vars, push, env, head, metaVotes, row, saved, last, call, await>>

AbortScan ==
    /\ scan # 0 /\ Fault
    /\ scan' = 0
    /\ UNCHANGED <<vars, push, env, head, metaVotes, row, saved, cursor, last, call, await>>

(***************************************************************************)
(* processPendingEvents of the confirmers: `latest' was read before the    *)
(* transaction's receipt, perhaps from another endpoint, and the count is  *)
(* a difference of unsigned integers.                                      *)
(***************************************************************************)
Confirmations(latest) == (latest - EventBlock + 1) % WordSize

ConfirmsUnchecked(latest) ==
    /\ row = "PENDING" /\ head >= EventBlock
    /\ Confirmations(latest) >= Required
    /\ row' = "CONFIRMED"
    /\ UNCHANGED <<vars, push, world, saved, cursor, scan, last, call, await>>

ProcessPending(latest) ==
    /\ row = "PENDING" /\ head >= EventBlock
    /\ \/ env.failed /\ row' = "REVERTED"
       \/ /\ ~env.failed /\ Confirmations(latest) >= Required
          /\ row' = "CONFIRMED"
    /\ UNCHANGED <<vars, push, world, saved, cursor, scan, last, call, await>>

(***************************************************************************)
(* DeleteTerminalEvents, once the retention period is over.                *)
(***************************************************************************)
CleanRow ==
    /\ row \in {"COMPLETED", "REVERTED"}
    /\ row' = "CLEANED"
    /\ UNCHANGED <<vars, push, world, saved, cursor, scan, last, call, await>>
-----------------------------------------------------------------------------
(***************************************************************************)
(* A vote takes the signer's mutex.  The processor votes on its CONFIRMED  *)
(* rows one after the other and waits for each transaction.                *)
(***************************************************************************)
ProcessInboundEvent ==
    /\ row = "CONFIRMED" /\ await = "nothing" /\ call = Free
    /\ call' = [vote |-> "inbound", attempt |-> 1]
    /\ UNCHANGED <<vars, push, world, row, saved, cursor, scan, last, await>>

VoteChainMeta ==
    /\ metaVotes < MaxMetaVotes /\ call = Free
    /\ metaVotes' = metaVotes + 1
    /\ call' = [vote |-> "meta", attempt |-> 1]
    /\ UNCHANGED <<vars, push, env, head, faults, row, saved, cursor, scan, last, await>>

(***************************************************************************)
(* One attempt of signAndBroadcastAuthZTx.  signTxWithSequence adopts the  *)
(* chain's sequence unless its own is ahead.  The chain admits the         *)
(* transaction whose sequence follows those it holds.                      *)
(***************************************************************************)
NextSequence == IF last = 0 \/ last < sequence THEN sequence ELSE last

InOrder == NextSequence = sequence + Len(pool)

Admitted ==
    Append(pool, IF call.vote = "inbound" THEN "awaited" ELSE "meta")

Accepted ==
    /\ InOrder
    /\ pool' = Admitted
    /\ last' = NextSequence + 1
    /\ call' = Free
    /\ await' = IF call.vote = "inbound" THEN "pooled" ELSE await
    /\ UNCHANGED faults

MaxAttempts == 3

MismatchKeepingSequence ==
    /\ ~InOrder
    /\ IF call.attempt < MaxAttempts
       THEN /\ last' = NextSequence
            /\ call' = [call EXCEPT !.attempt = @ + 1]
       ELSE /\ last' = NextSequence
            /\ call' = Free
    /\ UNCHANGED <<pool, await, faults>>

Mismatch ==
    /\ ~InOrder
    /\ IF call.attempt < MaxAttempts
       THEN /\ last' = 0
            /\ call' = [call EXCEPT !.attempt = @ + 1]
       ELSE /\ last' = NextSequence + 1
            /\ call' = Free
    /\ UNCHANGED <<pool, await, faults>>

\* Another error code of the chain: counted as a used sequence, although the
\* transaction was not admitted.
Refused ==
    /\ Fault
    /\ last' = NextSequence + 1
    /\ call' = Free
    /\ UNCHANGED <<pool, await>>

\* A transport error, whether or not the transaction got through.
AnswerLost ==
    /\ Fault
    /\ last' = 0
    /\ call' = Free
    /\ pool' \in {pool} \cup
         (IF InOrder
          THEN {Append(pool, IF call.vote = "inbound" THEN "abandoned" ELSE "meta")}
          ELSE {})
    /\ UNCHANGED await

SignAndBroadcast ==
    /\ call # Free
    /\ Accepted \/ Mismatch \/ Refused \/ AnswerLost
    /\ UNCHANGED <<vars, env, head, metaVotes, row, saved, cursor, scan, sequence>>

(***************************************************************************)
(* waitForTxConfirmation looks for the transaction in a block, not at its  *)
(* result.  Found, the row is completed unless the write fails; after 15   *)
(* seconds it stays CONFIRMED and the next tick votes again.               *)
(***************************************************************************)
Abandon(p) == [i \in DOMAIN p |-> IF p[i] = "awaited" THEN "abandoned" ELSE p[i]]

VoteFound ==
    /\ await = "included"
    /\ await' = "nothing"
    /\ row' = IF row = "CONFIRMED" THEN "COMPLETED" ELSE row
    /\ UNCHANGED <<vars, push, world, saved, cursor, scan, last, call>>

VoteFoundUnsaved ==
    /\ await = "included" /\ Fault
    /\ await' = "nothing"
    /\ UNCHANGED <<vars, push, env, head, metaVotes, row, saved, cursor, scan, last, call>>

TimeoutCompletes ==
    /\ await \in {"pooled", "lost"}
    /\ await = "pooled" => Fault
    /\ await = "lost" => UNCHANGED faults
    /\ await' = "nothing"
    /\ pool' = Abandon(pool)
    /\ row' = IF row = "CONFIRMED" THEN "COMPLETED" ELSE row
    /\ UNCHANGED <<vars, env, head, metaVotes, saved, cursor, scan, last, call, sequence>>

VoteTimeout ==
    /\ await \in {"pooled", "lost"}
    /\ await = "pooled" => Fault
    /\ await = "lost" => UNCHANGED faults
    /\ await' = "nothing"
    /\ pool' = Abandon(pool)
    /\ UNCHANGED <<vars, env, head, metaVotes, row, saved, cursor, scan, last, call, sequence>>

(***************************************************************************)
(* A crash loses the memory; the listener starts over, the signer knows no *)
(* sequence.                                                               *)
(***************************************************************************)
Restart(latest) ==
    /\ Fault
    /\ cursor' = StartBlock(saved, latest)
    /\ scan' = 0
    /\ last' = 0
    /\ call' = Free
    /\ await' = "nothing"
    /\ pool' = Abandon(pool)
    /\ UNCHANGED <<vars, env, head, metaVotes, row, saved, sequence>>
-----------------------------------------------------------------------------
MineSource ==
    /\ head < MaxBlock
    /\ head' = head + 1
    /\ UNCHANGED <<vars, client, push, env, metaVotes, faults>>

(***************************************************************************)
(* Push Chain executes the oldest admitted transaction: the vote counts or *)
(* is rejected, and the sequence is used either way.                       *)
(***************************************************************************)
SteadyVote(v, k, b) == VoteInbound(v, k, b, TRUE, Validators)

VoteCounts ==
    /\ NoUniversalTx(Event)
    /\ VoteAccepted(ballots, <<Event, Truth>>, InboundBallot(Validators), Self, height)

ExecuteOldest ==
    /\ pool # <<>>
    /\ pool' = Tail(pool)
    /\ sequence' = sequence + 1
    /\ await' = IF Head(pool) = "awaited" THEN "included" ELSE await
    /\ IF Head(pool) # "meta" /\ VoteCounts
       THEN SteadyVote(Self, Event, Truth)
       ELSE UNCHANGED vars
    /\ UNCHANGED <<world, row, saved, cursor, scan, last, call>>

LosePool ==
    /\ pool # <<>> /\ Fault
    /\ pool' = <<>>
    /\ await' = IF await = "pooled" THEN "lost" ELSE await
    /\ UNCHANGED <<vars, env, head, metaVotes, row, saved, cursor, scan, last, call, sequence>>

\* The other validators: honest ones report what happened, the rest anything.
OthersVote(v, b) ==
    /\ v \in env.up \ {Self}
    /\ v \in Honest => (b = Truth /\ ~env.failed)
    /\ SteadyVote(v, Event, b)
    /\ UNCHANGED <<client, push, world>>

Listen == (\E latest \in Heads, missed \in BOOLEAN : ScanRange(latest, missed)) \/ FinishScan

ClientNext ==
    \/ Listen \/ FinishScanUnsaved \/ AbortScan
    \/ \E latest \in Heads : ProcessPending(latest) \/ Restart(latest)
    \/ CleanRow \/ ProcessInboundEvent \/ VoteChainMeta \/ SignAndBroadcast
    \/ VoteFound \/ VoteFoundUnsaved \/ VoteTimeout
    \/ MineSource \/ ExecuteOldest \/ LosePool
    \/ \E v \in Validators, b \in Variants : OthersVote(v, b)

ClientSpec == ClientInit /\ [][ClientNext]_all

(***************************************************************************)
(* The loops of the client tick for ever, both chains go on, and the other *)
(* honest clients vote in the end.  Nothing is assumed of the rest.        *)
(***************************************************************************)
ProcessorStep ==
    \/ ProcessInboundEvent
    \/ SignAndBroadcast
    \/ VoteFound
    \/ await = "lost" /\ VoteTimeout

ClientFairSpec ==
    /\ ClientSpec
    /\ WF_all(Listen)
    /\ WF_all(\E latest \in Heads : ProcessPending(latest))
    /\ WF_all(ProcessorStep)
    /\ WF_all(MineSource)
    /\ WF_all(ExecuteOldest)
    /\ \A v \in Honest : WF_all(OthersVote(v, Truth))
-----------------------------------------------------------------------------
Counted ==
    /\ <<Event, Truth>> \in DOMAIN ballots
    /\ Self \in YesVoters(ballots[<<Event, Truth>>])

\* A listener that misses nothing leaves no event behind: once the cursor, or the
\* height a restart would begin at, is past the event's block, the row was stored,
\* whatever poll failed or crashed on the way (processNewBlocks, getStartBlock).
NothingSkipped ==
    ~env.misses /\ env.start = "config" /\ row = "ABSENT"
        => cursor <= EventBlock /\ saved < EventBlock

\* The client votes on what happened and is deep enough: an event of a failed
\* transaction is never voted on, and no event before its confirmations, as long
\* as the endpoints lag by one block at most.
VotesAfterConfirmation ==
    row \in {"CONFIRMED", "COMPLETED"} \/ call.vote = "inbound" \/ Counted
        => /\ ~env.failed
           /\ env.lag < 2 => head - EventBlock + 1 >= Required

\* A completed row means a vote that counts, or one no longer needed: the processor
\* completes the row when any transaction of it is found in a block, rejected ones
\* included (waitForTxConfirmation), and retries those it lost sight of.
CompletedCounted ==
    row = "COMPLETED" => Counted \/ Event \in DOMAIN utxs

Observable == env.start = "config" /\ ~env.misses /\ ~env.failed

\* Every event is voted on in the end: crashes, lost answers, lost transactions and
\* the sequence numbers they leave in disorder delay the row's completion only.
EventCompleted == Observable ~> row \in {"COMPLETED", "CLEANED"}

\* When more than two thirds of the validators decode an event alike, a UTX for it
\* is created although others vote for other variants of it, or for one whose
\* execution fails (VoteInbound), and although this one's client is restarted.
InboundLands == Observable /\ Honest \subseteq env.up ~> Event \in DOMAIN utxs
=============================================================================
