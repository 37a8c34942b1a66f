------------------------------- MODULE TxFlow --------------------------------
(***************************************************************************)
(* What the nodes do with a signed event (universalClient/tss: txflow,     *)
(* txbroadcaster and txresolver), together with the signing itself.  A     *)
(* SIGNED row is sent to the destination chain and becomes BROADCASTED; a  *)
(* BROADCASTED row is looked up on it and becomes COMPLETED, REVERTED with *)
(* a vote on Push Chain, or SIGNED again.                                  *)
(*                                                                         *)
(* The destination chain is external.  On an EVM chain the transactions of *)
(* the TSS address are mined in the order of their nonces, and another     *)
(* event's transaction may take a nonce; on an SVM chain a transaction can *)
(* land until the deadline that was signed with it.                        *)
(***************************************************************************)
EXTENDS Signing

CONSTANTS
  MaxNonce  \* bound: how many transactions of the TSS address are mined

ASSUME TxFlowAssumption == MaxNonce \in Nat

VARIABLES
  pool,   \* the attempts whose transaction the destination chain has pending
  mined,  \* the mined transactions of the TSS address, in order
  clock,  \* the SVM cluster's finalized time, relative to the deadline
  votes   \* the outcomes the nodes voted for on Push Chain

chainVars == <<pool, mined, clock, votes>>
vars == <<signingVars, chainVars>>

Init ==
  /\ SigningInit
  /\ pool = {}
  /\ mined = <<>>
  /\ clock = "open"
  /\ votes = {}

OnEVM == env.kind \in {"EVM", "MIGRATE"}

OnSVM == env.kind = "SVM"

Nonce(a) == attempts[a].nonce

NonceConsumed(a) == Nonce(a) < Len(mined)

Transaction(a, ok) == [att |-> a, ok |-> ok]

Executed == \E i \in DOMAIN mined : mined[i].att # NoAttempt /\ mined[i].ok

-----------------------------------------------------------------------------
(***************************************************************************)
(* The destination chain.  The gateway executes an event once; the SVM one *)
(* rejects it after its deadline.                                          *)
(***************************************************************************)
Unmined(P) == {a \in P : Nonce(a) > Len(mined)}

Mine(a, ok) ==
  /\ OnEVM
  /\ a \in pool
  /\ Nonce(a) = Len(mined) /\ Len(mined) < MaxNonce
  /\ ok => ~Executed
  /\ mined' = Append(mined, Transaction(a, ok))
  /\ pool' = Unmined(pool)
  /\ UNCHANGED <<signingVars, clock, votes>>

MineOther ==
  /\ OnEVM
  /\ Len(mined) < MaxNonce
  /\ mined' = Append(mined, Transaction(NoAttempt, TRUE))
  /\ pool' = Unmined(pool)
  /\ UNCHANGED <<signingVars, clock, votes>>

Evict(a) ==
  /\ a \in pool
  /\ pool' = pool \ {a}
  /\ UNCHANGED <<signingVars, mined, clock, votes>>

Land(a) ==
  /\ OnSVM
  /\ a \in pool
  /\ clock = "open"
  /\ ~Executed
  /\ mined' = Append(mined, Transaction(a, TRUE))
  /\ pool' = pool \ {a}
  /\ UNCHANGED <<signingVars, clock, votes>>

Tick ==
  /\ OnSVM
  /\ clock # "closed"
  /\ clock' = IF clock = "open" THEN "closing" ELSE "closed"
  /\ UNCHANGED <<signingVars, pool, mined, votes>>

-----------------------------------------------------------------------------
(***************************************************************************)
(* The signing steps that ask the chain: a coordinator assigns a nonce     *)
(* from the next one upwards, and a participant refuses one already used.  *)
(***************************************************************************)
AssignableNonces ==
  IF OnEVM THEN Len(mined) .. (MaxNonce - 1) ELSE {0}

Coordinate(c) ==
  /\ \E S \in Participants, k \in AssignableNonces :
       ProcessEventAsCoordinator(c, S, k)
  /\ UNCHANGED chainVars

Setup(n) ==
  /\ \E m \in msgs :
       m.type = "setup" /\ HandleSetup(n, m, OnEVM => ~NonceConsumed(m.att))
  /\ UNCHANGED chainVars

-----------------------------------------------------------------------------
(***************************************************************************)
(* The broadcaster, EVM: the send is accepted; or it errs although the     *)
(* chain took it; or it errs and the nonce is found consumed.              *)
(***************************************************************************)
MarkBroadcasted(n) ==
  row' = [row EXCEPT ![n].status = "BROADCASTED"]

SignedRow(n) == row[n].status = "SIGNED" /\ row[n].sig # NoAttempt

BroadcastEVM(n) ==
  LET a == row[n].sig IN
  /\ OnEVM /\ SignedRow(n)
  /\ \/ ~NonceConsumed(a) /\ MarkBroadcasted(n) /\ pool' = pool \cup {a}
     \/ ~NonceConsumed(a) /\ UNCHANGED row /\ pool' = pool \cup {a}
     \/ NonceConsumed(a) /\ MarkBroadcasted(n) /\ UNCHANGED pool
  /\ UNCHANGED <<env, attempts, memory, msgs, mined, clock, votes>>

(***************************************************************************)
(* The answers of the chain to a lookup of an attempt's receipt (EVM), and *)
(* of the event's execution record (SVM), which is read before the time    *)
(* and so may be as old as the slack of the deadline allows.               *)
(***************************************************************************)
ReceiptAnswers(a) ==
  LET found == {mined[i].ok : i \in {j \in DOMAIN mined : mined[j].att = a}}
      answers == IF found = {} THEN {"none"}
                 ELSE IF TRUE \in found THEN {"success"} ELSE {"failure"}
  IN  IF env.flaky THEN answers \cup {"none"} ELSE answers

ExecutionAnswers ==
  IF clock = "closed" /\ ~env.flaky THEN {Executed} ELSE {Executed, FALSE}

(***************************************************************************)
(* The broadcaster, SVM: with its own clock past the deadline it gives the *)
(* row to the resolver when the event is executed or the cluster's clock   *)
(* is past the deadline too; else it sends.                                *)
(***************************************************************************)
BroadcastSVM(n) ==
  LET a == row[n].sig IN
  /\ OnSVM /\ SignedRow(n)
  /\ \/ /\ TRUE \in ExecutionAnswers \/ clock # "open"
        /\ MarkBroadcasted(n)
        /\ UNCHANGED pool
     \/ /\ clock = "open" \/ FALSE \in ExecutionAnswers
        /\ MarkBroadcasted(n)
        /\ pool' = pool \cup {a}
     \/ UNCHANGED row /\ pool' = pool \cup {a}
  /\ UNCHANGED <<env, attempts, memory, msgs, mined, clock, votes>>

-----------------------------------------------------------------------------
(***************************************************************************)
(* The resolver, EVM.  The transaction is found: its outcome settles the   *)
(* row, with a vote unless an outbound succeeded (the gateway's own event  *)
(* is voted for then).  It is not found: the nonce decides between a vote  *)
(* for failure and another broadcast.                                      *)
(***************************************************************************)
Resolve(n, to) ==
  /\ row' = [row EXCEPT ![n].status = to]
  /\ UNCHANGED <<env, attempts, memory, msgs, pool, mined, clock>>

Vote(n, ok) == votes' = votes \cup {[node |-> n, ok |-> ok]}

BroadcastedRow(n) == row[n].status = "BROADCASTED"

ResolveAbsentRetrying(n) ==
  UNCHANGED votes /\ Resolve(n, "SIGNED")

ResolveAbsent(n) ==
  IF NonceConsumed(row[n].sig)
  THEN Vote(n, FALSE) /\ Resolve(n, "REVERTED")
  ELSE UNCHANGED votes /\ Resolve(n, "SIGNED")

ResolveEVM(n) ==
  /\ OnEVM /\ BroadcastedRow(n)
  /\ \E answer \in ReceiptAnswers(row[n].sig) :
       \/ /\ answer = "success"
          /\ IF env.kind = "MIGRATE" THEN Vote(n, TRUE) ELSE UNCHANGED votes
          /\ Resolve(n, "COMPLETED")
       \/ answer = "failure" /\ Vote(n, FALSE) /\ Resolve(n, "REVERTED")
       \/ answer = "none" /\ ResolveAbsent(n)

(***************************************************************************)
(* The resolver, SVM: executed, or not executed with the cluster's clock   *)
(* past the deadline and the slack.                                        *)
(***************************************************************************)
ResolveSVMWithoutSlack(n) ==
  /\ OnSVM /\ BroadcastedRow(n)
  /\ \E executed \in ExecutionAnswers :
       \/ executed /\ UNCHANGED votes /\ Resolve(n, "COMPLETED")
       \/ ~executed /\ clock # "open" /\ Vote(n, FALSE) /\ Resolve(n, "REVERTED")

ResolveSVM(n) ==
  /\ OnSVM /\ BroadcastedRow(n)
  /\ \E executed \in ExecutionAnswers :
       \/ executed /\ UNCHANGED votes /\ Resolve(n, "COMPLETED")
       \/ ~executed /\ clock = "closed" /\ Vote(n, FALSE) /\ Resolve(n, "REVERTED")

-----------------------------------------------------------------------------
NodeStep(n) ==
  \/ LocalStep(n) /\ UNCHANGED chainVars
  \/ Coordinate(n)
  \/ Setup(n)
  \/ BroadcastEVM(n)
  \/ BroadcastSVM(n)
  \/ ResolveEVM(n)
  \/ ResolveSVM(n)

ChainStep ==
  \/ \E a \in pool, ok \in BOOLEAN : Mine(a, ok)
  \/ MineOther
  \/ \E a \in pool : Evict(a) \/ Land(a)
  \/ Tick

Next == (\E n \in Nodes : NodeStep(n)) \/ ChainStep

Spec == Init /\ [][Next]_vars

(***************************************************************************)
(* Fairness.  The broadcaster and the resolver retry on every tick, and    *)
(* the calls they need do not fail forever; the session checker and the    *)
(* sweeper run for as long as the process does; the cluster's clock        *)
(* advances, and the nonces of the TSS address are used in time, if not by *)
(* this event then by another.  No message has to arrive.                  *)
(***************************************************************************)
Pursue(n) ==
  \/ (BroadcastEVM(n) \/ BroadcastSVM(n)) /\ row' # row
  \/ ResolveEVM(n) \/ ResolveSVM(n)

Expire(n) == (CheckExpired(n) \/ FinishExpiry(n)) /\ UNCHANGED chainVars

Fairness ==
  /\ \A n \in Nodes :
       /\ WF_vars(Pursue(n))
       /\ WF_vars(Expire(n))
       /\ WF_vars(Sweep(n) /\ UNCHANGED chainVars)
  /\ WF_vars(MineOther \/ Tick)

FairSpec == Spec /\ Fairness

-----------------------------------------------------------------------------
TypeOK ==
  /\ SigningTypeOK
  /\ pool \subseteq Attempts
  /\ mined \in Seq([att : Attempts \cup {NoAttempt}, ok : BOOLEAN])
  /\ clock \in {"open", "closing", "closed"}
  /\ votes \subseteq [node : Nodes, ok : BOOLEAN]

Calm == ~env.races /\ ~env.flaky /\ env.lasts # "days"

\* A vote of the resolver tells what happened to the event on the destination
\* chain, and what will: a vote for failure is cast only for an event that is
\* not and will never be executed there, a vote for success only for one that is.
VotesMatchChain == \A v \in votes : v.ok = Executed

\* The same, as long as the lookups of one tick see one state of the chain and
\* do not fail, a node's handlers do not interleave, and no settled row is
\* cleaned and signed for a second time.
VotesTruthful == Calm => VotesMatchChain

\* Signing data that a row has stays there: no row is swept, or none that was signed
\* looks as if it was not, and none outlives its retention.
Durable == env.lasts = "minutes" \/ (~env.races /\ env.lasts = "hours")

\* As long as a threshold of signers is all of them, no two nodes ever hold
\* different signatures of the event, whatever attempts were lost on the way and
\* however a node's handlers interleave.
OneSignature ==
  Durable => \A m, n \in Nodes :
    row[m].sig # NoAttempt /\ row[n].sig # NoAttempt => row[m].sig = row[n].sig

\* As long as a threshold of signers is all of them, a signature that is stored but
\* hidden under a row's IN_PROGRESS, by a handler that read the row before it was
\* stored, is never forgotten: the row still has the session whose end restores it, or
\* is being restored, also after a restart.
HiddenSignaturesRecover ==
  (env.races => env.lasts = "minutes") =>
    \A n \in Nodes :
      row[n].sig # NoAttempt /\ row[n].status = "IN_PROGRESS" =>
        session[n] # NoSession \/ busy[n].doing = "expiry"

\* Every node's row goes only through the steps of EventRows.
AbstractRows ==
  INSTANCE EventRows
    WITH Signatures <- Attempts,
         NoSignature <- NoAttempt,
         status <- [n \in Nodes |-> IF env.races THEN "ABSENT" ELSE row[n].status],
         signature <- [n \in Nodes |-> IF env.races THEN NoAttempt ELSE row[n].sig]

RowsImplemented == AbstractRows!Spec

\* A signature that a node stored leads to a settled event there, although
\* transactions are dropped, their nonce is lost to another event, answers are
\* not received, and a handler that read the row before the signature was stored
\* overwrites its status: the session checker and Start restore it.  What such a
\* handler set to CONFIRMED is signed for again, or swept.
SignaturesUsed ==
  \A n \in Nodes :
    (row[n].sig # NoAttempt) ~>
      \/ row[n].status \in {"COMPLETED", "REVERTED", "ABSENT"}
      \/ env.races /\ row[n].status = "CONFIRMED"

\* No row stays in a session for ever: the session ends, times out, or its row
\* is recovered after a crash or swept after a session whose result was lost.
InProgressEnds ==
  env.lasts # "minutes" => \A n \in Nodes :
    (row[n].status = "IN_PROGRESS") ~> (row[n].status # "IN_PROGRESS")

==============================================================================
