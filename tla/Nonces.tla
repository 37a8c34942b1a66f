------------------------------- MODULE Nonces --------------------------------
(***************************************************************************)
(* The nonces of the outbounds to one EVM chain (assignSignNonce of the    *)
(* client's coordinator, with the rows it counts).  Every poll the         *)
(* coordinator hands consecutive nonces to the events that wait; while     *)
(* rows are in flight it waits for a number of polls and then starts again *)
(* from the chain's own nonce.                                             *)
(*                                                                         *)
(* The nodes' databases are taken as one, since every signer takes part in *)
(* every signing; how they differ, and what a transaction does, is TxFlow. *)
(* Nonces count from the next one the chain will mine, so that outbounds   *)
(* may keep arriving: a settled one stands for a new one.                  *)
(***************************************************************************)
EXTENDS Integers, Sequences, FiniteSets, SequencesExt

CONSTANTS
  OutboundEvents,            \* events bound for the chain
  Coordinators,              \* nodes that take turns as coordinator
  PerChainCap,               \* 16
  ConsecutiveWaitThreshold,  \* 20
  NoEvent,
  Traffic,                   \* whether outbounds may keep arriving
  MaxFaults                  \* bound on lost setups and sessions, evictions and restarts

ASSUME NoncesAssumption ==
  /\ IsFiniteSet(OutboundEvents) /\ NoEvent \notin OutboundEvents
  /\ Coordinators # {} /\ Traffic \subseteq BOOLEAN
  /\ PerChainCap \in Nat \ {0} /\ ConsecutiveWaitThreshold \in Nat /\ MaxFaults \in Nat

VARIABLES
  flowing, \* whether outbounds keep arriving
  queues,  \* whether the chain keeps a transaction whose nonce is ahead
  held,    \* per event: the status of its row and the nonce it was given
  ready,   \* the CONFIRMED events old enough to sign, by block height
  waits,   \* consecutiveWaitPerChain of each coordinator
  slots,   \* the pending transaction of each nonce
  landed,  \* the events whose transaction was mined
  mishaps  \* faults so far

nonceVars == <<flowing, queues, held, ready, waits, slots, landed, mishaps>>

Ahead == 0 .. (Cardinality(OutboundEvents) - 1)

Consumed == -1

Confirmed == [status |-> "CONFIRMED", nonce |-> Consumed]

NoncesInit ==
  /\ flowing \in Traffic /\ queues \in BOOLEAN
  /\ held = [e \in OutboundEvents |-> Confirmed]
  /\ ready = <<>>
  /\ waits = [c \in Coordinators |-> 0]
  /\ slots = [k \in Ahead |-> NoEvent]
  /\ landed = {}
  /\ mishaps = 0

Fault == mishaps < MaxFaults /\ mishaps' = mishaps + 1

InFlight == {e \in OutboundEvents : held[e].status \in {"IN_PROGRESS", "SIGNED"}}

\* The first nonce without a pending transaction.
PendingNonce ==
  CHOOSE k \in Ahead \cup {Cardinality(OutboundEvents)} :
    /\ k \in Ahead => slots[k] = NoEvent
    /\ \A j \in Ahead : j < k => slots[j] # NoEvent

Waits(c) == InFlight # {} /\ waits[c] < ConsecutiveWaitThreshold

FirstNonce == IF InFlight = {} THEN PendingNonce ELSE 0

(***************************************************************************)
(* How many of m events get a nonce in a poll: the first in any case, the  *)
(* others while the chain is below its cap.                                *)
(***************************************************************************)
Assigned(m) ==
  LET room == PerChainCap - Cardinality(InFlight)
  IN  IF room < 1 THEN 1 ELSE IF m < room THEN m ELSE room

(***************************************************************************)
(* A poll of the coordinator; whose turn it is changes with the blocks.    *)
(* Asking for the nonce fails for the first events, and the setups of      *)
(* `lost' do not arrive.                                                   *)
(***************************************************************************)
PollWaitsUncounted(c) ==
  /\ ready # <<>> /\ Waits(c)
  /\ UNCHANGED nonceVars

PollWaits(c) ==
  /\ ready # <<>> /\ Waits(c)
  /\ waits' = [waits EXCEPT ![c] = @ + 1]
  /\ UNCHANGED <<flowing, queues, held, ready, slots, landed, mishaps>>

PollAssigns(c, failing, lost) ==
  LET asked == SubSeq(ready, failing + 1, Len(ready))
      given == SubSeq(asked, 1, Assigned(Len(asked)))
      begun == {e \in ToSet(given) : e \notin lost}
      nonce(e) == FirstNonce + (CHOOSE i \in DOMAIN given : given[i] = e) - 1
  IN  /\ asked # <<>> /\ ~Waits(c)
      /\ lost \subseteq ToSet(given)
      /\ IF failing = 0 /\ lost = {} THEN UNCHANGED mishaps ELSE Fault
      /\ waits' = [waits EXCEPT ![c] = 0]
      /\ held' = [e \in OutboundEvents |->
                    IF e \in begun THEN [status |-> "IN_PROGRESS", nonce |-> nonce(e)]
                    ELSE held[e]]
      /\ ready' = SelectSeq(ready, LAMBDA e : e \notin begun)
      /\ UNCHANGED <<flowing, queues, slots, landed>>

(***************************************************************************)
(* A node that restarts forgets its waiting, and the sessions it took part *)
(* in come to nothing.                                                     *)
(***************************************************************************)
RestartCoordinator(c) ==
  /\ Fault
  /\ waits' = [waits EXCEPT ![c] = 0]
  /\ held' = [e \in OutboundEvents |->
                IF held[e].status = "IN_PROGRESS" THEN Confirmed ELSE held[e]]
  /\ UNCHANGED <<flowing, queues, ready, slots, landed>>

SetHeld(e, status) == held' = [held EXCEPT ![e].status = status]

FinishSigning(e) ==
  /\ held[e].status = "IN_PROGRESS"
  /\ SetHeld(e, "SIGNED")
  /\ UNCHANGED <<flowing, queues, ready, waits, slots, landed, mishaps>>

ExpireSigning(e) ==
  /\ held[e].status = "IN_PROGRESS" /\ Fault
  /\ held' = [held EXCEPT ![e] = Confirmed]
  /\ UNCHANGED <<flowing, queues, ready, waits, slots, landed>>

(***************************************************************************)
(* A confirmed event becomes old enough.                                   *)
(***************************************************************************)
Mature(e) ==
  /\ held[e].status = "CONFIRMED" /\ e \notin ToSet(ready)
  /\ ready' = Append(ready, e)
  /\ UNCHANGED <<flowing, queues, held, waits, slots, landed, mishaps>>

(***************************************************************************)
(* The broadcaster.  The chain takes a transaction whose slot is free and, *)
(* unless it keeps those ahead, whose nonce is the next; a row whose nonce *)
(* is consumed is given to the resolver.                                   *)
(***************************************************************************)
Takes(e) ==
  LET k == held[e].nonce
  IN  k # Consumed /\ slots[k] = NoEvent /\ (queues \/ k = PendingNonce)

Replaces(e) ==
  LET k == held[e].nonce
  IN  k # Consumed /\ slots[k] \notin {NoEvent, e}

Broadcast(e) ==
  /\ held[e].status = "SIGNED"
  /\ \/ (Takes(e) \/ Replaces(e)) /\ slots' = [slots EXCEPT ![held[e].nonce] = e]
     \/ held[e].nonce = Consumed /\ UNCHANGED slots
  /\ SetHeld(e, "BROADCASTED")
  /\ UNCHANGED <<flowing, queues, ready, waits, landed, mishaps>>

(***************************************************************************)
(* The resolver.  A pending transaction has no receipt either, so that its *)
(* row returns to SIGNED as well.                                          *)
(***************************************************************************)
ResolveHeld(e) ==
  /\ held[e].status = "BROADCASTED"
  /\ SetHeld(e, IF e \in landed THEN "COMPLETED"
                ELSE IF held[e].nonce = Consumed THEN "REVERTED" ELSE "SIGNED")
  /\ UNCHANGED <<flowing, queues, ready, waits, slots, landed, mishaps>>

(***************************************************************************)
(* The chain mines the next nonce, and all others come one nearer.         *)
(***************************************************************************)
MineNext ==
  /\ slots[0] # NoEvent
  /\ landed' = landed \cup {slots[0]}
  /\ slots' = [k \in Ahead |-> IF k + 1 \in Ahead THEN slots[k + 1] ELSE NoEvent]
  /\ held' = [e \in OutboundEvents |->
                IF held[e].nonce = Consumed THEN held[e]
                ELSE [held[e] EXCEPT !.nonce = @ - 1]]
  /\ UNCHANGED <<flowing, queues, ready, waits, mishaps>>

EvictSlot(k) ==
  /\ slots[k] # NoEvent /\ Fault
  /\ slots' = [slots EXCEPT ![k] = NoEvent]
  /\ UNCHANGED <<flowing, queues, held, ready, waits, landed>>

NextOutbound(e) ==
  /\ flowing
  /\ held[e].status \in {"COMPLETED", "REVERTED"}
  /\ held' = [held EXCEPT ![e] = Confirmed]
  /\ landed' = landed \ {e}
  /\ UNCHANGED <<flowing, queues, ready, waits, slots, mishaps>>

NoncesNext ==
  \/ \E c \in Coordinators :
       \/ PollWaits(c) \/ RestartCoordinator(c)
       \/ \E failing \in 0 .. Len(ready), lost \in SUBSET OutboundEvents :
            PollAssigns(c, failing, lost)
  \/ \E e \in OutboundEvents :
       \/ FinishSigning(e) \/ ExpireSigning(e) \/ Mature(e)
       \/ Broadcast(e) \/ ResolveHeld(e) \/ NextOutbound(e)
  \/ MineNext
  \/ \E k \in Ahead : EvictSlot(k)

NoncesSpec == NoncesInit /\ [][NoncesNext]_nonceVars

(***************************************************************************)
(* Fairness: the poll, the broadcaster and the resolver run on tickers,    *)
(* signings that nothing disturbs finish, the chain mines what is next,    *)
(* and outbounds keep arriving if they flow.                               *)
(***************************************************************************)
Poll == \E c \in Coordinators : PollWaits(c) \/ PollAssigns(c, 0, {})

NoncesFairness ==
  /\ WF_nonceVars(Poll)
  /\ WF_nonceVars(MineNext)
  /\ \A e \in OutboundEvents :
       /\ WF_nonceVars(FinishSigning(e))
       /\ WF_nonceVars(Mature(e))
       /\ WF_nonceVars(Broadcast(e) /\ ~Replaces(e))
       /\ WF_nonceVars(ResolveHeld(e))
       /\ WF_nonceVars(NextOutbound(e))

NoncesFairSpec == NoncesSpec /\ NoncesFairness
-----------------------------------------------------------------------------
Settled(e) == held[e].status \in {"COMPLETED", "REVERTED"}

\* A signed outbound is settled in the end: the wait for rows in flight, the restart
\* from the chain's nonce and the resolver's verdict on consumed nonces together leave
\* none behind a nonce that nobody uses, even on a chain that refuses nonces ahead.
OutboundsSettle == \A e \in OutboundEvents : (held[e].status = "SIGNED") ~> Settled(e)
=============================================================================
