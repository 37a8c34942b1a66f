------------------------------- MODULE Signing -------------------------------
(***************************************************************************)
(* How the universal validators sign one event with their threshold key    *)
(* (universalClient/tss: coordinator, sessionmanager, eventstore and       *)
(* expirysweeper).  Every node keeps a row for the event in its database.  *)
(* The coordinator of the moment proposes an attempt to a threshold of     *)
(* nodes, they acknowledge it, it tells them to begin, and whoever sees    *)
(* the protocol finish stores the signature and sends it to all.           *)
(*                                                                         *)
(* Messages are lost, delayed and reordered at will, sessions time out,    *)
(* and nodes crash: what a node keeps in memory is lost, its row is not.   *)
(* The coordinator rotates with the block height, which nothing else here  *)
(* reads, so at any moment it may be any node.  A signature is named by    *)
(* the attempt it comes from: no two runs of the protocol yield the same.  *)
(***************************************************************************)
EXTENDS Naturals, FiniteSets, Sequences

CONSTANTS
  Nodes,        \* the validators eligible to sign
  MaxAttempts,  \* bound: the most attempts of any environment
  Environments  \* the settings a behaviour may run in, see EnvironmentOK

NoAttempt == 0

Attempts == 1 .. MaxAttempts

Kinds == {"EVM", "SVM", "MIGRATE", "KEY"}

(***************************************************************************)
(* kind: an outbound to an EVM or to an SVM chain, a fund migration, or a  *)
(* key event (keygen, keyrefresh, quorum change).  races: whether another  *)
(* handler of the same node may run between a handler's reads and writes.  *)
(* flaky: whether two reads of the destination chain in one tick may see   *)
(* different states of it, and a failed read passes for "not found".       *)
(* lasts: "hours", so that rows become old enough to be swept, "days", so  *)
(* that they outlive their retention too, or "minutes", neither.           *)
(* attempts: bound, how many attempts the coordinators propose.            *)
(***************************************************************************)
EnvironmentOK(e) ==
  e \in [kind : Kinds, races : BOOLEAN, flaky : BOOLEAN,
        lasts : {"minutes", "hours", "days"}, attempts : Attempts]

ASSUME SigningAssumption ==
  /\ IsFiniteSet(Nodes) /\ Cardinality(Nodes) > 1
  /\ MaxAttempts \in Nat
  /\ \A e \in Environments : EnvironmentOK(e)

VARIABLES
  env,       \* the environment of this behaviour
  row,       \* node -> its row: status and signing data
  attempts,  \* the attempts proposed: coordinator, participants, nonce, met
  session,   \* node -> the attempt it has a session for, and whether it begun
  tracking,  \* node -> the acknowledgements it waits for as a coordinator
  busy,      \* node -> the handler stopped between its reads and its writes
  msgs       \* the messages in flight

signingVars == <<env, row, attempts, session, tracking, busy, msgs>>
memory == <<session, tracking, busy>>

Rows ==
  [status : {"ABSENT", "CONFIRMED", "IN_PROGRESS", "SIGNED", "BROADCASTED",
             "COMPLETED", "REVERTED"},
   sig : Attempts \cup {NoAttempt}]

NewRow == [status |-> "CONFIRMED", sig |-> NoAttempt]

NoRow == [NewRow EXCEPT !.status = "ABSENT"]

NoSession == [att |-> NoAttempt, begun |-> FALSE]

NewSession(a) == [att |-> a, begun |-> FALSE]

NotTracking == [of |-> {}, acked |-> {}]

Idle == [doing |-> "nothing", att |-> NoAttempt, signed |-> FALSE]

(***************************************************************************)
(* CalculateThreshold: more than two thirds of the eligible validators,    *)
(* and at most all of them.  A sign event asks that many, a key event all. *)
(***************************************************************************)
CalculateThresholdTwoThirds(n) ==
  IF n <= 0 THEN 1 ELSE (2 * n) \div 3

CalculateThreshold(n) ==
  IF n <= 0 THEN 1
  ELSE IF (2 * n) \div 3 + 1 > n THEN n ELSE (2 * n) \div 3 + 1

Participants ==
  IF env.kind = "KEY" THEN {Nodes}
  ELSE {S \in SUBSET Nodes :
          Cardinality(S) = CalculateThreshold(Cardinality(Nodes))}

SigningInit ==
  /\ env \in Environments
  /\ row = [n \in Nodes |-> NewRow]
  /\ attempts = <<>>
  /\ session = [n \in Nodes |-> NoSession]
  /\ tracking = [n \in Nodes |-> NotTracking]
  /\ busy = [n \in Nodes |-> Idle]
  /\ msgs = {}

Update(n, fields) ==
  row' = IF row[n].status = "ABSENT" THEN row
         ELSE [row EXCEPT ![n] = fields]

SetStatus(n, s) == Update(n, [row[n] EXCEPT !.status = s])

(***************************************************************************)
(* PersistSignature: signing data and SIGNED in one conditional write, for *)
(* rows that are still CONFIRMED or IN_PROGRESS.                           *)
(***************************************************************************)
PersistSignature(n, a) ==
  row' = IF row[n].status \in {"CONFIRMED", "IN_PROGRESS"}
         THEN [row EXCEPT ![n].status = "SIGNED", ![n].sig = a]
         ELSE row

Consume(m) == msgs' = msgs \ {m}

Reply(m, sent) == msgs' = (msgs \ {m}) \cup sent

-----------------------------------------------------------------------------
(***************************************************************************)
(* The event listener supplies the event, as often as it is pending on     *)
(* Push Chain and not in the database; the sweeper deletes rows that are   *)
(* old and not signed, and key events past their expiry; the cleaner       *)
(* deletes rows that have been settled for the retention period, in which  *)
(* a handler is done.                                                      *)
(***************************************************************************)
InsertEvent(n) ==
  /\ row[n].status = "ABSENT"
  /\ row' = [row EXCEPT ![n] = NewRow]
  /\ UNCHANGED <<env, attempts, session, tracking, busy, msgs>>

SweepIgnoringStatus(n) ==
  /\ row[n].status \in {"CONFIRMED", "IN_PROGRESS", "SIGNED"}
  /\ row' = [row EXCEPT ![n] = NoRow]
  /\ UNCHANGED <<env, attempts, session, tracking, busy, msgs>>

SweepConfirmedOnly(n) ==
  /\ row[n].status = "CONFIRMED"
  /\ row' = [row EXCEPT ![n] = NoRow]
  /\ UNCHANGED <<env, attempts, session, tracking, busy, msgs>>

Sweep(n) ==
  /\ \/ env.lasts # "minutes" /\ row[n].status \in {"CONFIRMED", "IN_PROGRESS"}
     \/ env.kind = "KEY" /\ row[n].status # "ABSENT"
  /\ row' = [row EXCEPT ![n] = NoRow]
  /\ UNCHANGED <<env, attempts, session, tracking, busy, msgs>>

CleanTerminal(n) ==
  /\ env.lasts = "days" /\ busy[n] = Idle
  /\ row[n].status \in {"COMPLETED", "REVERTED"}
  /\ row' = [row EXCEPT ![n] = NoRow]
  /\ UNCHANGED <<env, attempts, session, tracking, busy, msgs>>

(***************************************************************************)
(* The coordinator takes a CONFIRMED row, with the nonce it was assigned,  *)
(* starts to track acknowledgements and sends the setup to the             *)
(* participants it picked.  What it sends to itself is handled on the      *)
(* spot: unless it still has a session, it opens one and acknowledges, or  *)
(* stores once more the signature its row has and stops tracking.          *)
(***************************************************************************)
ProcessEventAsCoordinator(c, S, nonce) ==
  LET a == Len(attempts) + 1
      answers == c \in S /\ session[c] = NoSession
      joins == answers /\ row[c].sig = NoAttempt
      hasIt == answers /\ row[c].sig # NoAttempt
  IN
  /\ a <= env.attempts
  /\ row[c].status = "CONFIRMED"
  /\ attempts' = Append(attempts, [coord |-> c, parts |-> S, nonce |-> nonce,
                                   met |-> FALSE])
  /\ tracking' = [tracking EXCEPT ![c] =
                    IF hasIt THEN NotTracking
                    ELSE [of |-> S, acked |-> IF joins THEN {c} ELSE {}]]
  /\ session' = IF joins THEN [session EXCEPT ![c] = NewSession(a)] ELSE session
  /\ row' = IF joins THEN [row EXCEPT ![c].status = "IN_PROGRESS"]
            ELSE IF hasIt THEN [row EXCEPT ![c].status = "SIGNED"]
            ELSE row
  /\ msgs' = msgs \cup {[type |-> "setup", to |-> n, from |-> c, att |-> a] :
                          n \in S \ {c}}
  /\ UNCHANGED <<env, busy>>

(***************************************************************************)
(* A setup is ignored when the node has a session for the event, and       *)
(* answered with the signature when the row has one.  Otherwise the row    *)
(* must be CONFIRMED and the coordinator's nonce not used on the chain     *)
(* (nonceOk); then the node opens a session, marks the row IN_PROGRESS     *)
(* without looking at it again, and acknowledges.                          *)
(***************************************************************************)
Ack(n, c, a) == [type |-> "ack", to |-> c, from |-> n, att |-> a]

OpenSession(n, a) ==
  /\ session' = [session EXCEPT ![n] = NewSession(a)]
  /\ SetStatus(n, "IN_PROGRESS")

HandleSetup(n, m, nonceOk) ==
  /\ m.type = "setup" /\ m.to = n /\ busy[n] = Idle
  /\ UNCHANGED <<env, attempts, tracking>>
  /\ \/ /\ \/ session[n] # NoSession
           \/ row[n].sig = NoAttempt /\ (row[n].status # "CONFIRMED" \/ ~nonceOk)
        /\ Consume(m)
        /\ UNCHANGED <<row, session, busy>>
     \/ /\ session[n] = NoSession
        /\ row[n].sig # NoAttempt
        /\ Reply(m, {Ack(n, m.from, row[n].sig)})
        /\ UNCHANGED <<row, session, busy>>
     \/ /\ session[n] = NoSession
        /\ row[n].sig = NoAttempt /\ row[n].status = "CONFIRMED" /\ nonceOk
        /\ IF env.races
           THEN /\ Consume(m)
                /\ busy' = [busy EXCEPT ![n] = [Idle EXCEPT !.doing = "setup", !.att = m.att]]
                /\ UNCHANGED <<row, session>>
           ELSE /\ OpenSession(n, m.att)
                /\ Reply(m, {Ack(n, m.from, NoAttempt)})
                /\ UNCHANGED busy

FinishSetup(n) ==
  LET a == busy[n].att IN
  /\ busy[n].doing = "setup"
  /\ OpenSession(n, a)
  /\ msgs' = msgs \cup {Ack(n, attempts[a].coord, NoAttempt)}
  /\ busy' = [busy EXCEPT ![n] = Idle]
  /\ UNCHANGED <<env, attempts, tracking>>

(***************************************************************************)
(* A node takes part in the protocol of its session from the BEGIN of the  *)
(* session's coordinator, or from the first message of a participant that  *)
(* already does.  Every round needs a message of everyone that answers the *)
(* round before, so the protocol can finish only if all sessions of the    *)
(* attempt were open when the last participant joined: then they met.      *)
(***************************************************************************)
Begin(n) ==
  LET a == session[n].att
      others == attempts[a].parts \ {n}
  IN
  /\ session' = [session EXCEPT ![n].begun = TRUE]
  /\ attempts' = [attempts EXCEPT ![a].met =
                    @ \/ \A p \in others : session[p] = [att |-> a, begun |-> TRUE]]

MayBegin(n, c) ==
  session[n] # NoSession /\ ~session[n].begun /\ attempts[session[n].att].coord = c

BeginIf(n, c) ==
  IF MayBegin(n, c) THEN Begin(n) ELSE UNCHANGED <<session, attempts>>

HandleBegin(n, m) ==
  /\ m.type = "begin" /\ m.to = n
  /\ Consume(m)
  /\ BeginIf(n, m.from)
  /\ UNCHANGED <<env, row, tracking, busy>>

HandleStep(n) ==
  /\ session[n] # NoSession /\ ~session[n].begun
  /\ \E p \in attempts[session[n].att].parts :
       session[p] = [att |-> session[n].att, begun |-> TRUE]
  /\ Begin(n)
  /\ UNCHANGED <<env, row, tracking, busy, msgs>>

(***************************************************************************)
(* The coordinator counts plain acknowledgements of tracked participants,  *)
(* whichever attempt they answer, and sends BEGIN after the last one.  One *)
(* that carries a signature is stored, and ends the tracking.              *)
(***************************************************************************)
Cancel(c) == tracking' = [tracking EXCEPT ![c] = NotTracking]

HandleAck(c, m) ==
  LET awaited == m.from \in tracking[c].of \ tracking[c].acked
      acked == tracking[c].acked \cup {m.from}
  IN
  /\ m.type = "ack" /\ m.to = c
  /\ UNCHANGED <<env, busy>>
  /\ \/ /\ ~awaited
        /\ Consume(m)
        /\ UNCHANGED <<row, tracking, session, attempts>>
     \/ /\ awaited /\ m.att = NoAttempt /\ acked # tracking[c].of
        /\ tracking' = [tracking EXCEPT ![c].acked = acked]
        /\ Consume(m)
        /\ UNCHANGED <<row, session, attempts>>
     \/ /\ awaited /\ m.att = NoAttempt /\ acked = tracking[c].of
        /\ Cancel(c)
        /\ Reply(m, {[type |-> "begin", to |-> n, from |-> c, att |-> NoAttempt] :
                       n \in acked \ {c}})
        /\ BeginIf(c, c)
        /\ UNCHANGED row
     \/ /\ awaited /\ m.att # NoAttempt
        /\ Consume(m)
        /\ IF row[c].status = "ABSENT" THEN UNCHANGED <<row, tracking>>
           ELSE PersistSignature(c, m.att) /\ Cancel(c)
        /\ UNCHANGED <<session, attempts>>

(***************************************************************************)
(* The protocol finishes at a node only if all participants met in it.     *)
(* A signature is stored and sent to all other nodes, whether or not the   *)
(* row took it.  A key share is stored and voted for, and the outcome of   *)
(* the vote (voted) settles the row.  The session is removed either way,   *)
(* also when its result cannot be read or the key share not be stored.     *)
(***************************************************************************)
SessionFinishes(n) ==
  /\ session[n].begun /\ attempts[session[n].att].met
  /\ session' = [session EXCEPT ![n] = NoSession]
  /\ UNCHANGED <<env, attempts, tracking, busy>>

HandleSignFinished(n) ==
  /\ env.kind # "KEY"
  /\ SessionFinishes(n)
  /\ IF row[n].status = "ABSENT" THEN UNCHANGED <<row, msgs>>
     ELSE /\ PersistSignature(n, session[n].att)
          /\ msgs' = msgs \cup {[type |-> "signature", to |-> p, from |-> n,
                                 att |-> session[n].att] : p \in Nodes \ {n}}

SessionResultLost(n) ==
  /\ SessionFinishes(n)
  /\ UNCHANGED <<row, msgs>>

HandleKeyFinished(n, voted) ==
  /\ env.kind = "KEY"
  /\ SessionFinishes(n)
  /\ SetStatus(n, IF voted THEN "COMPLETED" ELSE "REVERTED")
  /\ UNCHANGED msgs

HandleSignatureBroadcast(n, m) ==
  /\ m.type = "signature" /\ m.to = n
  /\ Consume(m)
  /\ UNCHANGED <<env, attempts, session, busy>>
  /\ IF row[n].status = "ABSENT" THEN UNCHANGED <<row, tracking>>
     ELSE PersistSignature(n, m.att) /\ Cancel(n)

(***************************************************************************)
(* A session that outlives its time is removed.  The row is read, and set  *)
(* to SIGNED when it has signing data and to CONFIRMED when it has not.    *)
(***************************************************************************)
Recovered(signed) == IF signed THEN "SIGNED" ELSE "CONFIRMED"

CheckExpired(n) ==
  /\ session[n] # NoSession /\ busy[n] = Idle
  /\ session' = [session EXCEPT ![n] = NoSession]
  /\ IF env.races /\ row[n].status # "ABSENT"
     THEN /\ busy' = [busy EXCEPT ![n] = [Idle EXCEPT !.doing = "expiry",
                                          !.signed = row[n].sig # NoAttempt]]
          /\ UNCHANGED row
     ELSE /\ SetStatus(n, Recovered(row[n].sig # NoAttempt))
          /\ UNCHANGED busy
  /\ UNCHANGED <<env, attempts, tracking, msgs>>

FinishExpiry(n) ==
  /\ busy[n].doing = "expiry"
  /\ SetStatus(n, Recovered(busy[n].signed))
  /\ busy' = [busy EXCEPT ![n] = Idle]
  /\ UNCHANGED <<env, attempts, session, tracking, msgs>>

(***************************************************************************)
(* A node stops and starts again: its memory is empty, and Start recovers  *)
(* the row that a session had left IN_PROGRESS.                            *)
(***************************************************************************)
RestartWithoutRecovery(n) ==
  /\ session' = [session EXCEPT ![n] = NoSession]
  /\ tracking' = [tracking EXCEPT ![n] = NotTracking]
  /\ busy' = [busy EXCEPT ![n] = Idle]
  /\ UNCHANGED <<env, row, attempts, msgs>>

Restart(n) ==
  /\ row' = IF row[n].status = "IN_PROGRESS"
            THEN [row EXCEPT ![n].status = Recovered(row[n].sig # NoAttempt)]
            ELSE row
  /\ session' = [session EXCEPT ![n] = NoSession]
  /\ tracking' = [tracking EXCEPT ![n] = NotTracking]
  /\ busy' = [busy EXCEPT ![n] = Idle]
  /\ UNCHANGED <<env, attempts, msgs>>

(***************************************************************************)
(* The steps of a node that need no answer of the destination chain.       *)
(***************************************************************************)
LocalStep(n) ==
  \/ InsertEvent(n)
  \/ Sweep(n)
  \/ CleanTerminal(n)
  \/ FinishSetup(n)
  \/ HandleStep(n)
  \/ HandleSignFinished(n)
  \/ SessionResultLost(n)
  \/ \E voted \in BOOLEAN : HandleKeyFinished(n, voted)
  \/ CheckExpired(n)
  \/ FinishExpiry(n)
  \/ Restart(n)
  \/ \E m \in msgs :
       \/ HandleAck(n, m)
       \/ HandleBegin(n, m)
       \/ HandleSignatureBroadcast(n, m)

SigningTypeOK ==
  /\ env \in Environments
  /\ row \in [Nodes -> Rows]
  /\ attempts \in Seq([coord : Nodes, parts : SUBSET Nodes, nonce : Nat,
                       met : BOOLEAN])
  /\ Len(attempts) <= env.attempts
  /\ session \in [Nodes -> [att : 0 .. Len(attempts), begun : BOOLEAN]]
  /\ tracking \in [Nodes -> [of : SUBSET Nodes, acked : SUBSET Nodes]]
  /\ busy \in [Nodes -> [doing : {"nothing", "setup", "expiry"},
                         att : 0 .. Len(attempts), signed : BOOLEAN]]
  /\ msgs \subseteq [type : {"setup", "ack", "begin", "signature"}, to : Nodes,
                     from : Nodes, att : 0 .. Len(attempts)]

==============================================================================
