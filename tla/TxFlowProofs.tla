---------------------------- MODULE TxFlowProofs -----------------------------
(***************************************************************************)
(* TxFlow implements EventRows, for any nodes, attempts and environments:  *)
(* whatever is lost, reordered, timed out or restarted, a node's row takes *)
(* only the steps that the abstract specification of a row allows.         *)
(*                                                                         *)
(* The invariant says that without races a row shows its signing data in   *)
(* its status, that a settled key event has no session left to reopen it,  *)
(* and that a key event's messages carry no signature.                     *)
(***************************************************************************)
EXTENDS TxFlow, TLAPS

-----------------------------------------------------------------------------
(***************************************************************************)
(* Sequences.                                                              *)
(***************************************************************************)
LEMMA Lengths ==
  ASSUME NEW S, NEW s \in Seq(S)
  PROVE  Len(s) \in Nat /\ DOMAIN s = 1 .. Len(s) /\ \A i \in 1 .. Len(s) : s[i] \in S
OBVIOUS

LEMMA NoElements ==
  ASSUME NEW S PROVE <<>> \in Seq(S) /\ Len(<<>>) = 0
OBVIOUS

LEMMA Appended ==
  ASSUME NEW S, NEW s \in Seq(S), NEW x \in S
  PROVE  /\ Append(s, x) \in Seq(S) /\ Len(Append(s, x)) = Len(s) + 1
         /\ Append(s, x)[Len(s) + 1] = x
         /\ \A i \in 1 .. Len(s) : Append(s, x)[i] = s[i]
OBVIOUS

LEMMA Replaced ==
  ASSUME NEW S, NEW s \in Seq(S), NEW i \in 1 .. Len(s), NEW x \in S
  PROVE  /\ [s EXCEPT ![i] = x] \in Seq(S) /\ Len([s EXCEPT ![i] = x]) = Len(s)
         /\ \A j \in 1 .. Len(s) : [s EXCEPT ![i] = x][j] = IF j = i THEN x ELSE s[j]
OBVIOUS
-----------------------------------------------------------------------------

\* The steps of EventRows on one row.
RowMove(r, s) ==
  \/ s = r
  \/ r.status = "ABSENT" /\ s.status = "CONFIRMED" /\ s.sig = r.sig
  \/ /\ r.sig = NoAttempt /\ s.sig = NoAttempt
     /\ \/ r.status = "CONFIRMED" /\ s.status = "IN_PROGRESS"
        \/ r.status = "IN_PROGRESS" /\ s.status = "CONFIRMED"
        \/ r.status \in {"CONFIRMED", "IN_PROGRESS"} /\ s.status \in {"COMPLETED", "REVERTED"}
  \/ /\ r.status \in {"CONFIRMED", "IN_PROGRESS", "COMPLETED", "REVERTED"}
     /\ r.status \in {"CONFIRMED", "IN_PROGRESS"} => r.sig = NoAttempt
     /\ s.status = "ABSENT" /\ s.sig = NoAttempt
  \/ /\ r.sig = NoAttempt /\ r.status \in {"CONFIRMED", "IN_PROGRESS"}
     /\ s.status = "SIGNED" /\ s.sig \in Attempts
  \/ r.status = "SIGNED" /\ s.status = "BROADCASTED" /\ s.sig = r.sig
  \/ r.status = "BROADCASTED" /\ s.status \in {"COMPLETED", "REVERTED"} /\ s.sig = r.sig
  \/ /\ r.sig # NoAttempt /\ s.sig = r.sig
     /\ r.status \in {"BROADCASTED", "COMPLETED", "REVERTED"} /\ s.status = "SIGNED"

\* A step of node n as the rows see it.
Moves(n) ==
  /\ row' \in [Nodes -> Rows]
  /\ \A p \in Nodes : p # n => row'[p] = row[p]
  /\ ~env.races => RowMove(row[n], row'[n])

AbsStatus == [n \in Nodes |-> IF env.races THEN "ABSENT" ELSE row[n].status]
AbsSignature == [n \in Nodes |-> IF env.races THEN NoAttempt ELSE row[n].sig]

LEMMA MoveMaps ==
  ASSUME row \in [Nodes -> Rows], NEW n \in Nodes, Moves(n), env' = env
  PROVE  AbstractRows!Next \/ UNCHANGED AbstractRows!rowVars
<1> DEFINE st == AbsStatus
           sg == AbsSignature
<1>1. CASE env.races
  BY <1>1 DEF AbstractRows!rowVars
<1>2. CASE ~env.races
  <2>1. /\ st = [p \in Nodes |-> row[p].status] /\ sg = [p \in Nodes |-> row[p].sig]
        /\ st' = [p \in Nodes |-> row'[p].status] /\ sg' = [p \in Nodes |-> row'[p].sig]
    BY <1>2 DEF AbsStatus, AbsSignature
  <2>2. /\ st' = [st EXCEPT ![n] = row'[n].status]
        /\ sg' = [sg EXCEPT ![n] = row'[n].sig]
    BY <2>1, Zenon DEF Moves
  <2>3. st[n] = row[n].status /\ sg[n] = row[n].sig
    BY <2>1
  <2>4. row'[n].sig = row[n].sig => sg' = sg
    BY <2>1 DEF Moves
  <2>5. row'[n] = row[n] => st' = st
    BY <2>1 DEF Moves
  <2>6. RowMove(row[n], row'[n])
    BY <1>2 DEF Moves
  <2> SUFFICES AbstractRows!RowStep(n) \/ UNCHANGED AbstractRows!rowVars
    BY DEF AbstractRows!Next
  <2> QED BY Zenon, <2>2, <2>3, <2>4, <2>5, <2>6
      DEF RowMove, AbstractRows!RowStep, AbstractRows!rowVars, AbstractRows!Move,
          AbstractRows!Appear, AbstractRows!Enter, AbstractRows!Leave,
          AbstractRows!EndKeyEvent, AbstractRows!Disappear, AbstractRows!Sign,
          AbstractRows!Send, AbstractRows!Settle, AbstractRows!SendAgain, AbsStatus, AbsSignature
<1> QED BY <1>1, <1>2
-----------------------------------------------------------------------------
AttemptRecords == [coord : Nodes, parts : SUBSET Nodes, nonce : Nat, met : BOOLEAN]
Sessions == [Nodes -> [att : 0 .. Len(attempts), begun : BOOLEAN]]
Handlers ==
  [Nodes -> [doing : {"nothing", "setup", "expiry"}, att : 0 .. Len(attempts),
             signed : BOOLEAN]]
Messages ==
  [type : {"setup", "ack", "begin", "signature"}, to : Nodes, from : Nodes,
   att : 0 .. Len(attempts)]

\* What is about the chain, what about the node's memory and the messages.
ChainTypes ==
  /\ pool \subseteq Attempts
  /\ mined \in Seq([att : Attempts \cup {NoAttempt}, ok : BOOLEAN])
  /\ clock \in {"open", "closing", "closed"}
  /\ votes \subseteq [node : Nodes, ok : BOOLEAN]

NodeTypes ==
  /\ env \in Environments
  /\ row \in [Nodes -> Rows]
  /\ attempts \in Seq(AttemptRecords) /\ Len(attempts) <= env.attempts
  /\ session \in Sessions
  /\ tracking \in [Nodes -> [of : SUBSET Nodes, acked : SUBSET Nodes]]
  /\ busy \in Handlers
  /\ msgs \subseteq Messages

\* An attempt is named wherever one must be.
Named ==
  /\ \A m \in msgs : m.type \in {"setup", "signature"} => m.att # NoAttempt
  /\ \A n \in Nodes : session[n].att = NoAttempt => session[n] = NoSession
  /\ \A n \in Nodes : busy[n].doing = "setup" => busy[n].att # NoAttempt
  /\ \A n \in Nodes : row[n].sig \in 0 .. Len(attempts)

\* Without races a row's status shows whether it was signed.
Shown(n) ==
  /\ busy[n] = Idle
  /\ row[n].sig # NoAttempt
        => row[n].status \in {"SIGNED", "BROADCASTED", "COMPLETED", "REVERTED"}
  /\ row[n].status \in {"SIGNED", "BROADCASTED"} => row[n].sig # NoAttempt
  /\ row[n].status \in {"COMPLETED", "REVERTED"} /\ row[n].sig = NoAttempt
        => session[n] = NoSession

Quiet == ~env.races => \A n \in Nodes : Shown(n)

\* A key event is never signed.
Keys ==
  env.kind = "KEY" =>
    /\ \A n \in Nodes : row[n].sig = NoAttempt
    /\ \A m \in msgs : m.type # "signature" /\ (m.type = "ack" => m.att = NoAttempt)

FlowInv == NodeTypes /\ ChainTypes /\ Named /\ Quiet /\ Keys

LEMMA EnvironmentType ==
  ASSUME NodeTypes
  PROVE  /\ env.kind \in Kinds /\ env.races \in BOOLEAN
         /\ env.attempts \in Attempts /\ MaxAttempts \in Nat
         /\ Len(attempts) \in Nat /\ Len(attempts) <= MaxAttempts
         /\ \A k \in 0 .. Len(attempts) : k = NoAttempt \/ k \in Attempts
<1>1. EnvironmentOK(env) /\ MaxAttempts \in Nat
  BY SigningAssumption DEF NodeTypes
<1>2. Len(attempts) \in Nat /\ Len(attempts) <= env.attempts
  BY Lengths DEF NodeTypes
<1> QED BY <1>1, <1>2 DEF EnvironmentOK, Attempts, NoAttempt

\* The ways a row is written.
LEMMA StatusWritten ==
  ASSUME row \in [Nodes -> Rows], NEW n \in Nodes,
         NEW s \in {"CONFIRMED", "IN_PROGRESS", "SIGNED", "BROADCASTED", "COMPLETED", "REVERTED"},
         SetStatus(n, s)
  PROVE  /\ row' \in [Nodes -> Rows] /\ \A p \in Nodes : p # n => row'[p] = row[p]
         /\ row'[n].sig = row[n].sig
         /\ row[n].status = "ABSENT" => row'[n] = row[n]
         /\ row[n].status # "ABSENT" => row'[n].status = s
BY DEF SetStatus, Update, Rows

LEMMA SignatureWritten ==
  ASSUME row \in [Nodes -> Rows], NEW n \in Nodes, NEW a \in Attempts, PersistSignature(n, a)
  PROVE  /\ row' \in [Nodes -> Rows] /\ \A p \in Nodes : p # n => row'[p] = row[p]
         /\ row[n].status \in {"CONFIRMED", "IN_PROGRESS"}
               => row'[n].status = "SIGNED" /\ row'[n].sig = a
         /\ row[n].status \notin {"CONFIRMED", "IN_PROGRESS"} => row'[n] = row[n]
BY Zenon DEF PersistSignature, Rows

LEMMA RowReplaced ==
  ASSUME row \in [Nodes -> Rows], NEW n \in Nodes, NEW r \in Rows, row' = [row EXCEPT ![n] = r]
  PROVE  /\ row' \in [Nodes -> Rows] /\ \A p \in Nodes : p # n => row'[p] = row[p]
         /\ row'[n] = r
OBVIOUS

\* A step that changes rows only.
LEMMA RowOnly ==
  ASSUME FlowInv, NEW n \in Nodes, Moves(n),
         UNCHANGED <<env, attempts, session, tracking, busy, msgs>>, ChainTypes',
         ~env.races => Shown(n)', row'[n].sig \in {row[n].sig, NoAttempt}
  PROVE  FlowInv'
<1>0. NoAttempt \in 0 .. Len(attempts)
  BY EnvironmentType DEF FlowInv, NoAttempt
<1>1. NodeTypes'
  BY DEF FlowInv, NodeTypes, Moves, Sessions, Handlers, Messages
<1>2. Named'
  BY <1>0 DEF FlowInv, Named, Moves
<1>3. Quiet'
  BY DEF FlowInv, Quiet, Shown, Moves
<1>4. Keys'
  BY DEF FlowInv, Keys, Moves
<1> QED BY <1>1, <1>2, <1>3, <1>4 DEF FlowInv

LEMMA ChainSame ==
  ASSUME ChainTypes, UNCHANGED chainVars PROVE ChainTypes'
BY DEF ChainTypes, chainVars

LEMMA DatabaseStep ==
  ASSUME FlowInv, NEW n \in Nodes, InsertEvent(n) \/ Sweep(n) \/ CleanTerminal(n),
         UNCHANGED chainVars
  PROVE  FlowInv' /\ Moves(n)
<1> USE DEF FlowInv
<1>0. NewRow \in Rows /\ NoRow \in Rows /\ NewRow.sig = NoAttempt /\ NoRow.sig = NoAttempt
      /\ NewRow.status = "CONFIRMED" /\ NoRow.status = "ABSENT"
  BY DEF NewRow, NoRow, Rows
<1>1. UNCHANGED <<env, attempts, session, tracking, busy, msgs>>
  BY DEF InsertEvent, Sweep, CleanTerminal
<1>2. row \in [Nodes -> Rows] /\ (~env.races => Shown(n)) /\ (env.kind = "KEY" => row[n].sig = NoAttempt)
  BY DEF NodeTypes, Quiet, Keys
<1>3. CASE InsertEvent(n)
  <2>1. row[n].status = "ABSENT" /\ row' = [row EXCEPT ![n] = NewRow]
    BY <1>3 DEF InsertEvent
  <2>2. row'[n] = NewRow /\ row' \in [Nodes -> Rows] /\ \A p \in Nodes : p # n => row'[p] = row[p]
    BY <1>0, <1>2, <2>1, RowReplaced
  <2>3. Moves(n)
    BY <1>0, <1>2, <2>1, <2>2 DEF Moves, RowMove, Shown
  <2>4. ~env.races => Shown(n)'
    BY <1>0, <1>1, <1>2, <2>2 DEF Shown
  <2> QED BY <1>0, <1>1, <2>2, <2>3, <2>4, RowOnly, ChainSame
<1>4. CASE Sweep(n) \/ CleanTerminal(n)
  <2>1. row' = [row EXCEPT ![n] = NoRow]
    BY <1>4 DEF Sweep, CleanTerminal
  <2>2. row'[n] = NoRow /\ row' \in [Nodes -> Rows] /\ \A p \in Nodes : p # n => row'[p] = row[p]
    BY <1>0, <1>2, <2>1, RowReplaced
  <2>3. ~env.races => RowMove(row[n], row'[n])
    <3> SUFFICES ASSUME ~env.races PROVE RowMove(row[n], row'[n])
      OBVIOUS
    <3>1. row[n] \in Rows /\ Shown(n)
      BY <1>2
    <3>2. row[n].status \in {"CONFIRMED", "IN_PROGRESS", "COMPLETED", "REVERTED"}
      BY <1>2, <1>4, <3>1 DEF Sweep, CleanTerminal, Shown, Rows
    <3> QED BY <1>0, <2>2, <3>1, <3>2 DEF RowMove, Shown
  <2>4. ~env.races => Shown(n)'
    BY <1>0, <1>1, <1>2, <2>2 DEF Shown
  <2>5. Moves(n)
    BY <2>2, <2>3 DEF Moves
  <2> QED BY <1>0, <1>1, <2>2, <2>5, <2>4, RowOnly, ChainSame
<1> QED BY <1>3, <1>4

-----------------------------------------------------------------------------
LEMMA RowSent ==
  ASSUME row \in [Nodes -> Rows], NEW n \in Nodes,
         NEW s \in {"SIGNED", "BROADCASTED", "COMPLETED", "REVERTED"},
         row' = [row EXCEPT ![n].status = s]
  PROVE  /\ row' \in [Nodes -> Rows] /\ \A p \in Nodes : p # n => row'[p] = row[p]
         /\ row'[n].sig = row[n].sig /\ row'[n].status = s
BY DEF Rows

LEMMA BroadcastStep ==
  ASSUME FlowInv, NEW n \in Nodes, BroadcastEVM(n) \/ BroadcastSVM(n)
  PROVE  FlowInv' /\ Moves(n)
<1> USE DEF FlowInv
<1>1. /\ UNCHANGED <<env, attempts, session, tracking, busy, msgs>>
      /\ UNCHANGED <<mined, clock, votes>>
      /\ SignedRow(n) /\ (MarkBroadcasted(n) \/ row' = row)
      /\ pool' \in {pool, pool \cup {row[n].sig}}
  BY Zenon DEF BroadcastEVM, BroadcastSVM, memory
<1>2. row \in [Nodes -> Rows] /\ row[n] \in Rows /\ (~env.races => Shown(n))
      /\ (env.kind = "KEY" => row[n].sig = NoAttempt)
  BY DEF NodeTypes, Quiet, Keys
<1>3. ChainTypes'
  BY <1>1, <1>2 DEF ChainTypes, SignedRow, Rows
<1>4. CASE row' = row
  <2>1. Moves(n) /\ (~env.races => Shown(n)') /\ row'[n].sig = row[n].sig
    BY <1>1, <1>2, <1>4 DEF Moves, RowMove, Shown
  <2> QED BY <1>1, <1>2, <1>3, <2>1, RowOnly
<1>5. CASE MarkBroadcasted(n)
  <2>1. /\ row' \in [Nodes -> Rows] /\ \A p \in Nodes : p # n => row'[p] = row[p]
        /\ row'[n].sig = row[n].sig /\ row'[n].status = "BROADCASTED"
    BY <1>2, <1>5, RowSent, Zenon DEF MarkBroadcasted
  <2>2. Moves(n)
    BY <1>1, <2>1 DEF Moves, RowMove, SignedRow
  <2>3. ~env.races => Shown(n)'
    BY <1>1, <1>2, <2>1 DEF Shown, SignedRow
  <2> QED BY <1>1, <1>2, <1>3, <2>1, <2>2, <2>3, RowOnly
<1> QED BY <1>1, <1>4, <1>5

LEMMA ResolveStep ==
  ASSUME FlowInv, NEW n \in Nodes, ResolveEVM(n) \/ ResolveSVM(n)
  PROVE  FlowInv' /\ Moves(n)
<1> USE DEF FlowInv
<1>1. PICK to \in {"SIGNED", "COMPLETED", "REVERTED"} :
         /\ Resolve(n, to) /\ row[n].status = "BROADCASTED"
         /\ votes' \in {votes, votes \cup {[node |-> n, ok |-> TRUE]},
                        votes \cup {[node |-> n, ok |-> FALSE]}}
  BY DEF ResolveEVM, ResolveSVM, ResolveAbsent, BroadcastedRow, Vote
<1>2. row \in [Nodes -> Rows] /\ row[n] \in Rows /\ (~env.races => Shown(n))
      /\ (env.kind = "KEY" => row[n].sig = NoAttempt)
  BY DEF NodeTypes, Quiet, Keys
<1>3. /\ UNCHANGED <<env, attempts, session, tracking, busy, msgs>>
      /\ UNCHANGED <<pool, mined, clock>>
      /\ row' = [row EXCEPT ![n].status = to]
  BY <1>1 DEF Resolve, memory
<1>4. ChainTypes'
  <2>1. votes' \subseteq [node : Nodes, ok : BOOLEAN]
    <3>1. [node |-> n, ok |-> TRUE] \in [node : Nodes, ok : BOOLEAN]
      OBVIOUS
    <3>2. [node |-> n, ok |-> FALSE] \in [node : Nodes, ok : BOOLEAN]
      OBVIOUS
    <3> QED BY <1>1, <3>1, <3>2, Zenon DEF ChainTypes
  <2> QED BY <1>3, <2>1 DEF ChainTypes
<1>5. /\ row' \in [Nodes -> Rows] /\ \A p \in Nodes : p # n => row'[p] = row[p]
      /\ row'[n].sig = row[n].sig /\ row'[n].status = to
  BY <1>2, <1>3, RowSent, Zenon
<1>6. Moves(n)
  BY <1>1, <1>2, <1>5 DEF Moves, RowMove, Shown
<1>7. ~env.races => Shown(n)'
  BY <1>1, <1>2, <1>3, <1>5 DEF Shown
<1> QED BY <1>2, <1>3, <1>4, <1>5, <1>6, <1>7, RowOnly

LEMMA ChainMoves ==
  ASSUME FlowInv, ChainStep PROVE FlowInv' /\ row' = row /\ env' = env
<1> USE DEF FlowInv
<1>1. UNCHANGED signingVars
  BY Zenon DEF ChainStep, Mine, MineOther, Evict, Land, Tick
<1>2. ChainTypes'
  <2>1. ASSUME NEW a \in pool, NEW ok \in BOOLEAN
        PROVE  Append(mined, Transaction(a, ok)) \in Seq([att : Attempts \cup {NoAttempt}, ok : BOOLEAN])
    BY Appended DEF ChainTypes, Transaction
  <2>2. Append(mined, Transaction(NoAttempt, TRUE)) \in Seq([att : Attempts \cup {NoAttempt}, ok : BOOLEAN])
    BY Appended DEF ChainTypes, Transaction
  <2>3. ASSUME NEW a \in pool, NEW ok \in BOOLEAN, Mine(a, ok) PROVE ChainTypes'
    BY <2>1, <2>3 DEF Mine, Unmined, ChainTypes
  <2>4. ASSUME MineOther PROVE ChainTypes'
    BY <2>2, <2>4, Zenon DEF MineOther, Unmined, ChainTypes
  <2>5. ASSUME NEW a \in pool, Evict(a) PROVE ChainTypes'
    BY <2>5 DEF Evict, ChainTypes
  <2>6. ASSUME NEW a \in pool, Land(a) PROVE ChainTypes'
    BY <2>1, <2>6, Zenon DEF Land, ChainTypes
  <2>7. ASSUME Tick PROVE ChainTypes'
    BY <2>7 DEF Tick, ChainTypes
  <2> QED BY <2>3, <2>4, <2>5, <2>6, <2>7 DEF ChainStep
<1>3. NodeTypes' /\ Named' /\ Quiet' /\ Keys'
  BY <1>1 DEF signingVars, NodeTypes, Sessions, Handlers, Messages, Named, Quiet, Shown, Keys
<1> QED BY <1>1, <1>2, <1>3 DEF signingVars

-----------------------------------------------------------------------------
\* A step of node n on its row, its memory and the messages, as the invariant sees it.
Change(n) ==
  /\ env' = env /\ Moves(n)
  /\ attempts' \in Seq(AttemptRecords) /\ Len(attempts') <= env.attempts
  /\ Len(attempts) <= Len(attempts') /\ row'[n].sig \in 0 .. Len(attempts')
  /\ session' \in Sessions' /\ \A p \in Nodes : p # n => session'[p] = session[p]
  /\ session'[n].att = NoAttempt => session'[n] = NoSession
  /\ tracking' \in [Nodes -> [of : SUBSET Nodes, acked : SUBSET Nodes]]
  /\ busy' \in Handlers' /\ \A p \in Nodes : p # n => busy'[p] = busy[p]
  /\ busy'[n].doing = "setup" => busy'[n].att # NoAttempt
  /\ msgs' \subseteq Messages'
  /\ \A m \in msgs' \ msgs :
        /\ m.type \in {"setup", "signature"} => m.att # NoAttempt
        /\ env.kind = "KEY" => m.type # "signature" /\ (m.type = "ack" => m.att = NoAttempt)
  /\ ~env.races => Shown(n)'
  /\ env.kind = "KEY" => row'[n].sig = NoAttempt

LEMMA ChangeKeeps ==
  ASSUME FlowInv, NEW n \in Nodes, Change(n), UNCHANGED chainVars PROVE FlowInv'
<1>1. NodeTypes'
  BY DEF FlowInv, NodeTypes, Change, Moves
<1>2. Named'
  <2>1. Len(attempts) \in Nat /\ Len(attempts') \in Nat /\ Len(attempts) <= Len(attempts')
    BY <1>1, Lengths, EnvironmentType DEF FlowInv, NodeTypes, Change
  <2>2. \A p \in Nodes : row'[p].sig \in 0 .. Len(attempts')
    <3> SUFFICES ASSUME NEW p \in Nodes, p # n PROVE row'[p].sig \in 0 .. Len(attempts')
      BY DEF Change
    <3>1. row'[p].sig \in 0 .. Len(attempts)
      BY DEF FlowInv, Named, Change, Moves
    <3> QED BY <2>1, <3>1
  <2> QED BY <2>2 DEF FlowInv, Named, Change
<1>3. Quiet'
  <2> SUFFICES ASSUME ~env.races, NEW p \in Nodes, p # n PROVE Shown(p)'
    BY DEF Quiet, Change
  <2> QED BY DEF FlowInv, Quiet, Shown, Change, Moves
<1>4. Keys'
  BY DEF FlowInv, Keys, Change, Moves
<1> QED BY <1>1, <1>2, <1>3, <1>4, ChainSame DEF FlowInv

\* A step that leaves the attempts alone.
LEMMA SameAttempts ==
  ASSUME NodeTypes, env' = env, attempts' = attempts
  PROVE  /\ attempts' \in Seq(AttemptRecords) /\ Len(attempts') <= env.attempts
         /\ Len(attempts') = Len(attempts) /\ Len(attempts) <= Len(attempts')
         /\ Sessions' = Sessions /\ Handlers' = Handlers /\ Messages' = Messages
BY Lengths DEF NodeTypes, Sessions, Handlers, Messages

\* The hypotheses every step of node n starts from.
LEMMA Before ==
  ASSUME FlowInv, NEW n \in Nodes
  PROVE  /\ NodeTypes /\ row \in [Nodes -> Rows] /\ row[n] \in Rows
         /\ ~env.races => Shown(n)
         /\ env.kind = "KEY" => row[n].sig = NoAttempt
         /\ session \in Sessions /\ busy \in Handlers /\ msgs \subseteq Messages
         /\ tracking \in [Nodes -> [of : SUBSET Nodes, acked : SUBSET Nodes]]
         /\ session[n].att = NoAttempt => session[n] = NoSession
         /\ busy[n].doing = "setup" => busy[n].att # NoAttempt
         /\ row[n].sig \in 0 .. Len(attempts) /\ NoAttempt \in 0 .. Len(attempts)
         /\ NoSession \in [att : 0 .. Len(attempts), begun : BOOLEAN]
         /\ Idle \in [doing : {"nothing", "setup", "expiry"}, att : 0 .. Len(attempts), signed : BOOLEAN]
         /\ Idle.doing # "setup"
<1>1. Len(attempts) \in Nat
  BY EnvironmentType DEF FlowInv
<1>2. NoSession \in [att : 0 .. Len(attempts), begun : BOOLEAN]
  BY <1>1 DEF NoSession, NoAttempt
<1>3. /\ Idle \in [doing : {"nothing", "setup", "expiry"}, att : 0 .. Len(attempts), signed : BOOLEAN]
      /\ Idle.doing # "setup"
  BY <1>1 DEF Idle, NoAttempt
<1>4. NoAttempt \in 0 .. Len(attempts)
  BY <1>1 DEF NoAttempt
<1> QED BY <1>2, <1>3, <1>4 DEF FlowInv, NodeTypes, Quiet, Keys, Named

LEMMA RestartStep ==
  ASSUME FlowInv, NEW n \in Nodes, Restart(n), UNCHANGED chainVars
  PROVE  FlowInv' /\ Moves(n)
<1> DEFINE r == IF row[n].status = "IN_PROGRESS"
                THEN [status |-> Recovered(row[n].sig # NoAttempt), sig |-> row[n].sig] ELSE row[n]
<1>1. r \in Rows /\ row' = [row EXCEPT ![n] = r]
  <2>1. Recovered(row[n].sig # NoAttempt) \in {"SIGNED", "CONFIRMED"}
    BY DEF Recovered
  <2>2. r \in Rows
    BY <2>1, Before DEF Rows
  <2>3. CASE row[n].status = "IN_PROGRESS"
    <3>1. row' = [row EXCEPT ![n].status = Recovered(row[n].sig # NoAttempt)]
      BY <2>3 DEF Restart
    <3>2. [row[n] EXCEPT !.status = Recovered(row[n].sig # NoAttempt)] = r
      BY <2>3, Before DEF Rows
    <3> QED BY <2>2, <3>1, <3>2, Zenon
  <2>4. CASE row[n].status # "IN_PROGRESS"
    BY <2>2, <2>4, Before DEF Restart
  <2> QED BY <2>3, <2>4
<1>2. row'[n] = r /\ row' \in [Nodes -> Rows] /\ \A p \in Nodes : p # n => row'[p] = row[p]
  BY <1>1, Before, RowReplaced
<1>3. ~env.races => RowMove(row[n], r)
  BY Before DEF RowMove, Shown, Recovered
<1>4. /\ session' = [session EXCEPT ![n] = NoSession] /\ busy' = [busy EXCEPT ![n] = Idle]
      /\ tracking' = [tracking EXCEPT ![n] = NotTracking] /\ UNCHANGED <<env, attempts, msgs>>
  BY DEF Restart
<1>5. /\ session' \in Sessions /\ session'[n] = NoSession /\ \A p \in Nodes : p # n => session'[p] = session[p]
      /\ busy' \in Handlers /\ busy'[n] = Idle /\ \A p \in Nodes : p # n => busy'[p] = busy[p]
  BY <1>4, Before DEF Sessions, Handlers
<1>6. tracking' \in [Nodes -> [of : SUBSET Nodes, acked : SUBSET Nodes]]
  BY <1>4, Before DEF NotTracking
<1>7. ~env.races => Shown(n)'
  <2>1. /\ r.sig = row[n].sig
        /\ row[n].status = "IN_PROGRESS" => r.status = Recovered(row[n].sig # NoAttempt)
        /\ row[n].status # "IN_PROGRESS" => r = row[n]
    OBVIOUS
  <2> HIDE DEF r
  <2> QED BY <1>2, <1>5, <2>1, Before DEF Shown, Recovered
<1>8. Moves(n)
  BY <1>2, <1>3 DEF Moves
<1>9. r.sig = row[n].sig
  OBVIOUS
<1> HIDE DEF r
<1>10. Change(n)
  BY <1>2, <1>4, <1>5, <1>6, <1>7, <1>8, <1>9, Before, SameAttempts DEF Change
<1> QED BY <1>8, <1>10, ChangeKeeps

LEMMA ExpiryHandler ==
  ASSUME NEW b \in BOOLEAN, NEW S, NEW idle,
         idle \in [doing : {"nothing", "setup", "expiry"}, att : S, signed : BOOLEAN]
  PROVE  LET h == [idle EXCEPT !.doing = "expiry", !.signed = b]
         IN  /\ h \in [doing : {"nothing", "setup", "expiry"}, att : S, signed : BOOLEAN]
             /\ h.doing # "setup"
OBVIOUS

LEMMA ExpiryStep ==
  ASSUME FlowInv, NEW n \in Nodes, CheckExpired(n), UNCHANGED chainVars
  PROVE  FlowInv' /\ Moves(n)
<1>1. /\ session[n] # NoSession /\ session' = [session EXCEPT ![n] = NoSession]
      /\ UNCHANGED <<env, attempts, tracking, msgs>>
  BY DEF CheckExpired
<1>2. /\ session' \in Sessions /\ session'[n] = NoSession
      /\ \A p \in Nodes : p # n => session'[p] = session[p]
  BY <1>1, Before DEF Sessions
<1>3. CASE env.races /\ row[n].status # "ABSENT"
  <2>0. PICK b \in BOOLEAN : b = (row[n].sig # NoAttempt)
    BY Zenon
  <2> DEFINE h == [Idle EXCEPT !.doing = "expiry", !.signed = b]
  <2>3. /\ h \in [doing : {"nothing", "setup", "expiry"}, att : 0 .. Len(attempts), signed : BOOLEAN]
        /\ h.doing # "setup"
    BY Before, ExpiryHandler, Zenon
  <2>4. row' = row /\ busy' = [busy EXCEPT ![n] = h]
    BY <1>3, <2>0 DEF CheckExpired
  <2> HIDE DEF h
  <2>6. busy' \in Handlers /\ busy'[n] = h /\ \A p \in Nodes : p # n => busy'[p] = busy[p]
    BY <2>3, <2>4, Before DEF Handlers
  <2>7. Moves(n)
    BY <1>3, <2>4, Before DEF Moves
  <2>8. Change(n)
    BY <1>1, <1>2, <1>3, <2>3, <2>4, <2>6, <2>7, Before, SameAttempts DEF Change
  <2> QED BY <2>7, <2>8, ChangeKeeps
<1>4. CASE ~(env.races /\ row[n].status # "ABSENT")
  <2> DEFINE s == Recovered(row[n].sig # NoAttempt)
  <2>1. s \in {"SIGNED", "CONFIRMED"}
    BY DEF Recovered
  <2>2. SetStatus(n, s) /\ busy' = busy
    BY <1>4 DEF CheckExpired
  <2>3. /\ row' \in [Nodes -> Rows] /\ \A p \in Nodes : p # n => row'[p] = row[p]
        /\ row'[n].sig = row[n].sig
        /\ row[n].status = "ABSENT" => row'[n] = row[n]
        /\ row[n].status # "ABSENT" => row'[n].status = s
    BY <2>1, <2>2, Before, StatusWritten
  <2>4. ~env.races => RowMove(row[n], row'[n])
    <3> SUFFICES ASSUME ~env.races PROVE RowMove(row[n], row'[n])
      OBVIOUS
    <3>1. row[n] \in Rows /\ row'[n] \in Rows /\ Shown(n)
      BY <2>3, Before
    <3>2. CASE row[n].sig # NoAttempt
      <4>1. row'[n].status = "SIGNED"
        BY <2>3, <3>1, <3>2 DEF Shown, Recovered
      <4>2. row[n].status = "SIGNED" => row'[n] = row[n]
        BY <2>3, <3>1, <4>1 DEF Rows
      <4> QED BY <2>3, <3>1, <3>2, <4>1, <4>2 DEF RowMove, Shown
    <3>3. CASE row[n].sig = NoAttempt
      <4>1. row[n].status \in {"ABSENT", "CONFIRMED", "IN_PROGRESS"}
        BY <1>1, <3>1, <3>3 DEF Shown, Rows
      <4>2. row[n].status # "ABSENT" => row'[n].status = "CONFIRMED"
        BY <2>3, <3>3 DEF Recovered
      <4>3. row[n].status = "CONFIRMED" => row'[n] = row[n]
        BY <2>3, <3>1, <4>2 DEF Rows
      <4> QED BY <2>3, <3>3, <4>1, <4>2, <4>3 DEF RowMove
    <3> QED BY <3>2, <3>3
  <2>5. Moves(n)
    BY <2>3, <2>4 DEF Moves
  <2>6. ~env.races => Shown(n)'
    BY <1>1, <1>2, <2>2, <2>3, Before DEF Shown, Recovered
  <2> HIDE DEF s
  <2>7. Change(n)
    BY <1>1, <1>2, <2>2, <2>3, <2>5, <2>6, Before, SameAttempts DEF Change
  <2> QED BY <2>5, <2>7, ChangeKeeps
<1> QED BY <1>3, <1>4

LEMMA FinishExpiryStep ==
  ASSUME FlowInv, NEW n \in Nodes, FinishExpiry(n), UNCHANGED chainVars
  PROVE  FlowInv' /\ Moves(n)
<1>1. /\ busy' = [busy EXCEPT ![n] = Idle] /\ UNCHANGED <<env, attempts, session, tracking, msgs>>
      /\ SetStatus(n, Recovered(busy[n].signed))
  BY DEF FinishExpiry
<1>2. env.races
  BY Before, EnvironmentType DEF FinishExpiry, Shown, Idle
<1>3. Recovered(busy[n].signed) \in {"SIGNED", "CONFIRMED"}
  BY DEF Recovered
<1>4. /\ row' \in [Nodes -> Rows] /\ \A p \in Nodes : p # n => row'[p] = row[p]
      /\ row'[n].sig = row[n].sig
  BY <1>1, <1>3, Before, StatusWritten
<1>5. busy' \in Handlers /\ busy'[n] = Idle /\ \A p \in Nodes : p # n => busy'[p] = busy[p]
  BY <1>1, Before DEF Handlers
<1>6. Moves(n)
  BY <1>2, <1>4 DEF Moves
<1>7. Change(n)
  BY <1>1, <1>2, <1>4, <1>5, <1>6, Before, SameAttempts, Zenon DEF Change
<1> QED BY <1>6, <1>7, ChangeKeeps

LEMMA AttemptsTyped ==
  ASSUME FlowInv, NEW a \in 0 .. Len(attempts), a # NoAttempt
  PROVE  a \in 1 .. Len(attempts) /\ a \in Attempts /\ attempts[a] \in AttemptRecords
<1>1. Len(attempts) \in Nat /\ Len(attempts) <= MaxAttempts /\ MaxAttempts \in Nat
  BY EnvironmentType DEF FlowInv
<1>2. a \in 1 .. Len(attempts) /\ a \in Attempts
  BY <1>1 DEF NoAttempt, Attempts
<1> QED BY <1>2, Lengths DEF FlowInv, NodeTypes

LEMMA AckTyped ==
  ASSUME FlowInv, NEW n \in Nodes, NEW c \in Nodes, NEW a \in 0 .. Len(attempts)
  PROVE  Ack(n, c, a) \in Messages /\ Ack(n, c, a).type = "ack" /\ Ack(n, c, a).att = a
BY DEF Ack, Messages

LEMMA FinishSetupStep ==
  ASSUME FlowInv, NEW n \in Nodes, FinishSetup(n), UNCHANGED chainVars
  PROVE  FlowInv' /\ Moves(n)
<1> DEFINE a == busy[n].att
<1>1. /\ busy[n].doing = "setup" /\ a \in 0 .. Len(attempts) /\ a # NoAttempt
      /\ busy' = [busy EXCEPT ![n] = Idle] /\ UNCHANGED <<env, attempts, tracking>>
      /\ session' = [session EXCEPT ![n] = NewSession(a)] /\ SetStatus(n, "IN_PROGRESS")
      /\ msgs' = msgs \cup {Ack(n, attempts[a].coord, NoAttempt)}
  BY Before DEF FinishSetup, OpenSession, Handlers
<1>2. env.races
  BY <1>1, Before, EnvironmentType DEF Shown, Idle
<1>3. /\ row' \in [Nodes -> Rows] /\ \A p \in Nodes : p # n => row'[p] = row[p]
      /\ row'[n].sig = row[n].sig
  BY <1>1, Before, StatusWritten
<1>4. attempts[a].coord \in Nodes /\ NoAttempt \in 0 .. Len(attempts)
  BY <1>1, AttemptsTyped, EnvironmentType DEF FlowInv, AttemptRecords, NoAttempt
<1> HIDE DEF a
<1>5. /\ msgs' \subseteq Messages
      /\ \A m \in msgs' \ msgs : m.type = "ack" /\ m.att = NoAttempt
  <2>1. /\ Ack(n, attempts[a].coord, NoAttempt) \in Messages
        /\ Ack(n, attempts[a].coord, NoAttempt).type = "ack"
        /\ Ack(n, attempts[a].coord, NoAttempt).att = NoAttempt
    BY <1>4, AckTyped
  <2>2. msgs \subseteq Messages
    BY Before
  <2> QED BY <1>1, <2>1, <2>2
<1>6. busy' \in Handlers /\ busy'[n] = Idle /\ \A p \in Nodes : p # n => busy'[p] = busy[p]
  BY <1>1, Before DEF Handlers
<1>7. /\ session' \in Sessions /\ session'[n].att = a
      /\ \A p \in Nodes : p # n => session'[p] = session[p]
  BY <1>1, Before DEF Sessions, NewSession
<1>8. Moves(n)
  BY <1>2, <1>3 DEF Moves
<1>9. Change(n)
  BY <1>1, <1>2, <1>3, <1>5, <1>6, <1>7, <1>8, Before, SameAttempts DEF Change
<1> QED BY <1>8, <1>9, ChangeKeeps

LEMMA SetupStep ==
  ASSUME FlowInv, NEW n \in Nodes, NEW m \in msgs, NEW ok, HandleSetup(n, m, ok),
         UNCHANGED chainVars
  PROVE  FlowInv' /\ Moves(n)
<1>1. /\ m.type = "setup" /\ m.from \in Nodes /\ m.att \in 0 .. Len(attempts) /\ m.att # NoAttempt
      /\ UNCHANGED <<env, attempts, tracking>>
  BY Before DEF HandleSetup, Messages, FlowInv, Named
<1>2. NoAttempt \in 0 .. Len(attempts) /\ Len(attempts) \in Nat
  BY EnvironmentType DEF FlowInv, NoAttempt
<1>3. CASE msgs' = msgs \ {m} /\ UNCHANGED <<row, session, busy>>
  <2>1. Moves(n) /\ (~env.races => Shown(n)')
    BY <1>3, Before DEF Moves, RowMove, Shown
  <2>2. Change(n)
    BY <1>1, <1>3, <2>1, Before, SameAttempts, Zenon DEF Change
  <2> QED BY <2>1, <2>2, ChangeKeeps
<1>4. CASE /\ row[n].sig # NoAttempt /\ msgs' = (msgs \ {m}) \cup {Ack(n, m.from, row[n].sig)}
           /\ UNCHANGED <<row, session, busy>>
  <2>1. Moves(n) /\ (~env.races => Shown(n)')
    BY <1>4, Before DEF Moves, RowMove, Shown
  <2>2. env.kind # "KEY"
    BY <1>4, Before
  <2>3. row[n].sig \in 0 .. Len(attempts)
    BY <1>4, Before
  <2>4. msgs' \subseteq Messages /\ \A x \in msgs' \ msgs : x.type = "ack"
    <3>1. Ack(n, m.from, row[n].sig) \in Messages /\ Ack(n, m.from, row[n].sig).type = "ack"
      BY <1>1, <2>3, AckTyped
    <3>2. msgs \subseteq Messages
      BY Before
    <3> QED BY <1>4, <3>1, <3>2
  <2>5. Change(n)
    BY <1>1, <1>4, <2>1, <2>2, <2>4, Before, SameAttempts DEF Change
  <2> QED BY <2>1, <2>5, ChangeKeeps
<1>5. CASE /\ session[n] = NoSession /\ row[n].sig = NoAttempt /\ row[n].status = "CONFIRMED"
           /\ env.races /\ msgs' = msgs \ {m} /\ UNCHANGED <<row, session>>
           /\ busy' = [busy EXCEPT ![n] = [Idle EXCEPT !.doing = "setup", !.att = m.att]]
  <2> DEFINE h == [Idle EXCEPT !.doing = "setup", !.att = m.att]
  <2>1. /\ h \in [doing : {"nothing", "setup", "expiry"}, att : 0 .. Len(attempts), signed : BOOLEAN]
        /\ h.att # NoAttempt
    BY <1>1, Zenon DEF Idle
  <2> HIDE DEF h
  <2>2. busy' \in Handlers /\ busy'[n] = h /\ \A p \in Nodes : p # n => busy'[p] = busy[p]
    BY <1>5, <2>1, Before DEF Handlers, h
  <2>3. Moves(n)
    BY <1>5, Before DEF Moves
  <2>4. Change(n)
    BY <1>1, <1>5, <2>1, <2>2, <2>3, Before, SameAttempts DEF Change
  <2> QED BY <2>3, <2>4, ChangeKeeps
<1>6. CASE /\ session[n] = NoSession /\ row[n].sig = NoAttempt /\ row[n].status = "CONFIRMED"
           /\ OpenSession(n, m.att) /\ busy' = busy
           /\ msgs' = (msgs \ {m}) \cup {Ack(n, m.from, NoAttempt)}
  <2>1. /\ row' \in [Nodes -> Rows] /\ \A p \in Nodes : p # n => row'[p] = row[p]
        /\ row'[n].sig = row[n].sig /\ row'[n].status = "IN_PROGRESS"
    BY <1>6, Before, StatusWritten DEF OpenSession
  <2>2. /\ msgs' \subseteq Messages
        /\ \A x \in msgs' \ msgs : x.type = "ack" /\ x.att = NoAttempt
    <3>1. /\ Ack(n, m.from, NoAttempt) \in Messages /\ Ack(n, m.from, NoAttempt).type = "ack"
          /\ Ack(n, m.from, NoAttempt).att = NoAttempt
      BY <1>1, <1>2, AckTyped
    <3>2. msgs \subseteq Messages
      BY Before
    <3> QED BY <1>6, <3>1, <3>2
  <2>3. /\ session' \in Sessions /\ session'[n].att = m.att
        /\ \A p \in Nodes : p # n => session'[p] = session[p]
    BY <1>1, <1>6, Before DEF Sessions, NewSession, OpenSession
  <2>4. Moves(n) /\ (~env.races => Shown(n)')
    BY <1>6, <2>1, Before, Zenon DEF Moves, RowMove, Shown
  <2>5. Change(n)
    BY <1>1, <1>6, <2>1, <2>2, <2>3, <2>4, Before, SameAttempts DEF Change
  <2> QED BY <2>4, <2>5, ChangeKeeps
<1> QED BY <1>3, <1>4, <1>5, <1>6 DEF HandleSetup, Consume, Reply

-----------------------------------------------------------------------------
\* BEGIN changes one attempt's met and the node's session.
LEMMA BeginTyped ==
  ASSUME FlowInv, NEW n \in Nodes, session[n] # NoSession, Begin(n), env' = env
  PROVE  /\ attempts' \in Seq(AttemptRecords) /\ Len(attempts') = Len(attempts)
         /\ session' \in Sessions /\ session'[n].att # NoAttempt /\ session'[n] # NoSession
         /\ \A p \in Nodes : p # n => session'[p] = session[p]
<1> DEFINE a == session[n].att
           met == attempts[a].met \/ \A p \in attempts[a].parts \ {n} :
                                       session[p] = [att |-> a, begun |-> TRUE]
<1>1. a \in 0 .. Len(attempts) /\ a # NoAttempt
  BY Before DEF Sessions
<1>2. a \in 1 .. Len(attempts) /\ attempts[a] \in AttemptRecords
  BY <1>1, AttemptsTyped
<1>3. PICK b \in BOOLEAN : b = met
  BY Zenon
<1>4. attempts' = [attempts EXCEPT ![a].met = met] /\ session' = [session EXCEPT ![n].begun = TRUE]
  BY DEF Begin
<1> HIDE DEF met
<1>5. [attempts[a] EXCEPT !.met = b] \in AttemptRecords
  BY <1>2 DEF AttemptRecords
<1> DEFINE e == [attempts[a] EXCEPT !.met = b]
<1>6. attempts' = [attempts EXCEPT ![a] = e]
  BY <1>3, <1>4
<1> HIDE DEF e, a
<1>7. attempts' \in Seq(AttemptRecords) /\ Len(attempts') = Len(attempts)
  BY <1>2, <1>5, <1>6, Replaced DEF FlowInv, NodeTypes, e
<1>8. /\ session' \in Sessions /\ session'[n].att = session[n].att /\ session'[n].begun = TRUE
      /\ \A p \in Nodes : p # n => session'[p] = session[p]
  BY <1>4, Before, Zenon DEF Sessions
<1>9. session'[n] # NoSession
  BY <1>8 DEF NoSession
<1>10. session'[n].att # NoAttempt
  BY <1>1, <1>8 DEF a
<1> QED BY <1>7, <1>8, <1>9, <1>10

\* Steps that leave the number of attempts alone.
LEMMA SameLength ==
  ASSUME NodeTypes, env' = env, Len(attempts') = Len(attempts)
  PROVE  /\ Len(attempts') <= env.attempts /\ Len(attempts) <= Len(attempts')
         /\ Sessions' = Sessions /\ Handlers' = Handlers /\ Messages' = Messages
BY Lengths DEF NodeTypes, Sessions, Handlers, Messages

LEMMA BeginKeeps ==
  ASSUME FlowInv, NEW n \in Nodes, NEW c, BeginIf(n, c), UNCHANGED <<env, row, busy>>
  PROVE  /\ attempts' \in Seq(AttemptRecords) /\ Len(attempts') = Len(attempts)
         /\ session' \in Sessions /\ \A p \in Nodes : p # n => session'[p] = session[p]
         /\ session'[n].att = NoAttempt => session'[n] = NoSession
         /\ Moves(n) /\ (~env.races => Shown(n)')
<1>1. row' \in [Nodes -> Rows] /\ RowMove(row[n], row'[n]) /\ Moves(n)
  BY Before, Zenon DEF Moves, RowMove
<1>2. CASE MayBegin(n, c)
  <2>1. session[n] # NoSession /\ Begin(n)
    BY <1>2 DEF MayBegin, BeginIf
  <2>2. /\ attempts' \in Seq(AttemptRecords) /\ Len(attempts') = Len(attempts)
        /\ session' \in Sessions /\ session'[n].att # NoAttempt
        /\ \A p \in Nodes : p # n => session'[p] = session[p]
    BY <2>1, BeginTyped
  <2>3. ~env.races => Shown(n)'
    BY <2>1, Before DEF Shown
  <2> QED BY <1>1, <2>2, <2>3
<1>3. CASE ~MayBegin(n, c)
  <2>1. UNCHANGED <<session, attempts>>
    BY <1>3 DEF BeginIf
  <2>2. ~env.races => Shown(n)'
    BY <2>1, Before DEF Shown
  <2> QED BY <1>1, <2>1, <2>2, Before DEF NodeTypes
<1> QED BY <1>2, <1>3

LEMMA BeginStep ==
  ASSUME FlowInv, NEW n \in Nodes, HandleStep(n) \/ \E m \in msgs : HandleBegin(n, m),
         UNCHANGED chainVars
  PROVE  FlowInv' /\ Moves(n)
<1>1. UNCHANGED <<env, row, tracking, busy>> /\ msgs' \subseteq msgs
  BY DEF HandleStep, HandleBegin, Consume
<1>2. PICK c : BeginIf(n, c)
  <2>1. CASE HandleStep(n)
    <3>1. MayBegin(n, attempts[session[n].att].coord) /\ Begin(n)
      BY <2>1, Zenon DEF HandleStep, MayBegin
    <3> QED BY <3>1 DEF BeginIf
  <2>2. CASE \E m \in msgs : HandleBegin(n, m)
    BY <2>2 DEF HandleBegin
  <2> QED BY <2>1, <2>2
<1>3. /\ attempts' \in Seq(AttemptRecords) /\ Len(attempts') = Len(attempts)
      /\ session' \in Sessions /\ \A p \in Nodes : p # n => session'[p] = session[p]
      /\ session'[n].att = NoAttempt => session'[n] = NoSession
      /\ Moves(n) /\ (~env.races => Shown(n)')
  BY <1>1, <1>2, BeginKeeps
<1>4. Change(n)
  BY <1>1, <1>3, Before, SameLength DEF Change
<1> QED BY <1>3, <1>4, ChangeKeeps

\* PersistSignature with a session kept or removed.
LEMMA PersistKeeps ==
  ASSUME FlowInv, NEW n \in Nodes, NEW a \in 0 .. Len(attempts), a # NoAttempt,
         PersistSignature(n, a), env.kind # "KEY", UNCHANGED <<env, busy>>,
         session'[n] \in {session[n], NoSession}
  PROVE  Moves(n) /\ (~env.races => Shown(n)') /\ row'[n].sig \in 0 .. Len(attempts)
<1>1. a \in Attempts
  BY AttemptsTyped
<1>2. /\ row' \in [Nodes -> Rows] /\ \A p \in Nodes : p # n => row'[p] = row[p]
      /\ row[n].status \in {"CONFIRMED", "IN_PROGRESS"} => row'[n].status = "SIGNED" /\ row'[n].sig = a
      /\ row[n].status \notin {"CONFIRMED", "IN_PROGRESS"} => row'[n] = row[n]
  BY <1>1, Before, SignatureWritten
<1>3. Moves(n)
  BY <1>1, <1>2, Before, Zenon DEF Moves, RowMove, Shown
<1>4. ~env.races => Shown(n)'
  BY <1>2, Before DEF Shown
<1> QED BY <1>2, <1>3, <1>4, Before

LEMMA RowKept ==
  ASSUME FlowInv, NEW n \in Nodes, UNCHANGED <<env, row, busy>>,
         session'[n] \in {session[n], NoSession}
  PROVE  Moves(n) /\ (~env.races => Shown(n)')
BY Before DEF Moves, RowMove, Shown

LEMMA CancelTyped ==
  ASSUME FlowInv, NEW n \in Nodes, Cancel(n)
  PROVE  tracking' \in [Nodes -> [of : SUBSET Nodes, acked : SUBSET Nodes]]
<1>1. NotTracking \in [of : SUBSET Nodes, acked : SUBSET Nodes]
  BY DEF NotTracking
<1> QED BY <1>1, Before, Zenon DEF Cancel

LEMMA AckStep ==
  ASSUME FlowInv, NEW n \in Nodes, NEW m \in msgs, HandleAck(n, m), UNCHANGED chainVars
  PROVE  FlowInv' /\ Moves(n)
<1> DEFINE acked == tracking[n].acked \cup {m.from}
<1>1. /\ m.type = "ack" /\ m.from \in Nodes /\ m.att \in 0 .. Len(attempts)
      /\ env.kind = "KEY" => m.att = NoAttempt
      /\ UNCHANGED <<env, busy>>
  BY Before DEF HandleAck, Messages, FlowInv, Keys
<1>2. acked \subseteq Nodes
  BY <1>1, Before, Zenon
<1>3. CASE /\ msgs' = msgs \ {m} /\ UNCHANGED <<row, session, attempts>>
           /\ tracking' \in {tracking, [tracking EXCEPT ![n].acked = acked]}
  <2>1. Moves(n) /\ (~env.races => Shown(n)')
    BY <1>1, <1>3, RowKept
  <2>2. [tracking EXCEPT ![n].acked = acked] \in [Nodes -> [of : SUBSET Nodes, acked : SUBSET Nodes]]
    BY <1>2, Before
  <2>3. tracking' \in [Nodes -> [of : SUBSET Nodes, acked : SUBSET Nodes]]
    BY <1>3, <2>2, Before
  <2>4. Change(n)
    BY <1>1, <1>3, <2>1, <2>3, Before, SameAttempts DEF Change
  <2> QED BY <2>1, <2>4, ChangeKeeps
<1>4. CASE /\ Cancel(n) /\ BeginIf(n, n) /\ UNCHANGED row
           /\ msgs' = (msgs \ {m}) \cup
                        {[type |-> "begin", to |-> p, from |-> n, att |-> NoAttempt] : p \in acked \ {n}}
  <2>1. /\ attempts' \in Seq(AttemptRecords) /\ Len(attempts') = Len(attempts)
        /\ session' \in Sessions /\ \A p \in Nodes : p # n => session'[p] = session[p]
        /\ session'[n].att = NoAttempt => session'[n] = NoSession
        /\ Moves(n) /\ (~env.races => Shown(n)')
    BY <1>1, <1>4, BeginKeeps
  <2>2. msgs' \subseteq Messages /\ \A x \in msgs' \ msgs : x.type = "begin"
    <3>1. ASSUME NEW p \in acked \ {n}
          PROVE  [type |-> "begin", to |-> p, from |-> n, att |-> NoAttempt] \in Messages
      BY <1>2, <3>1, Before DEF Messages
    <3>2. msgs \subseteq Messages
      BY Before
    <3> HIDE DEF acked
    <3>3. ASSUME NEW x \in msgs'
          PROVE  \/ x \in msgs
                 \/ \E p \in acked \ {n} :
                       x = [type |-> "begin", to |-> p, from |-> n, att |-> NoAttempt]
      BY <1>4
    <3>4. ASSUME NEW x \in msgs', x \notin msgs PROVE x \in Messages /\ x.type = "begin"
      BY <3>1, <3>3, <3>4
    <3> QED BY <3>2, <3>4
  <2>3. tracking' \in [Nodes -> [of : SUBSET Nodes, acked : SUBSET Nodes]]
    BY <1>4, CancelTyped
  <2>4. Change(n)
    BY <1>1, <1>4, <2>1, <2>2, <2>3, Before, SameLength, Zenon DEF Change
  <2> QED BY <2>1, <2>4, ChangeKeeps
<1>5. CASE /\ m.att # NoAttempt /\ msgs' = msgs \ {m} /\ UNCHANGED <<session, attempts>>
           /\ \/ UNCHANGED <<row, tracking>>
              \/ PersistSignature(n, m.att) /\ Cancel(n)
  <2>1. Moves(n) /\ (~env.races => Shown(n)') /\ row'[n].sig \in 0 .. Len(attempts)
    BY <1>1, <1>5, RowKept, PersistKeeps, Before, Zenon
  <2>2. tracking' \in [Nodes -> [of : SUBSET Nodes, acked : SUBSET Nodes]]
    BY <1>5, CancelTyped, Before, Zenon
  <2>3. Change(n)
    BY <1>1, <1>5, <2>1, <2>2, Before, SameAttempts, Zenon DEF Change
  <2> QED BY <2>1, <2>3, ChangeKeeps
<1> QED BY <1>3, <1>4, <1>5 DEF HandleAck, Consume, Reply

LEMMA SignatureStep ==
  ASSUME FlowInv, NEW n \in Nodes, NEW m \in msgs, HandleSignatureBroadcast(n, m),
         UNCHANGED chainVars
  PROVE  FlowInv' /\ Moves(n)
<1>1. /\ m.att \in 0 .. Len(attempts) /\ m.att # NoAttempt /\ env.kind # "KEY"
      /\ UNCHANGED <<env, attempts, session, busy>> /\ msgs' = msgs \ {m}
      /\ UNCHANGED <<row, tracking>> \/ (PersistSignature(n, m.att) /\ Cancel(n))
  BY Before, Zenon DEF HandleSignatureBroadcast, Consume, Messages, FlowInv, Keys, Named
<1>2. Moves(n) /\ (~env.races => Shown(n)') /\ row'[n].sig \in 0 .. Len(attempts)
  BY <1>1, RowKept, PersistKeeps, Before, Zenon
<1>3. tracking' \in [Nodes -> [of : SUBSET Nodes, acked : SUBSET Nodes]]
  BY <1>1, CancelTyped, Before
<1>4. Change(n)
  BY <1>1, <1>2, <1>3, Before, SameAttempts, Zenon DEF Change
<1> QED BY <1>2, <1>4, ChangeKeeps

LEMMA FinishStep ==
  ASSUME FlowInv, NEW n \in Nodes, UNCHANGED chainVars,
         \/ HandleSignFinished(n) \/ SessionResultLost(n)
         \/ \E voted \in BOOLEAN : HandleKeyFinished(n, voted)
  PROVE  FlowInv' /\ Moves(n)
<1> DEFINE a == session[n].att
<1>1. /\ UNCHANGED <<env, attempts, tracking, busy>>
      /\ session[n].begun /\ session' = [session EXCEPT ![n] = NoSession]
  BY DEF HandleSignFinished, SessionResultLost, HandleKeyFinished, SessionFinishes
<1>2. /\ session' \in Sessions /\ session'[n] = NoSession
      /\ \A p \in Nodes : p # n => session'[p] = session[p]
  BY <1>1, Before, Zenon DEF Sessions
<1>3. session[n] # NoSession /\ a \in 0 .. Len(attempts) /\ a # NoAttempt
  <2>1. session[n] # NoSession
    BY <1>1 DEF NoSession
  <2> QED BY <2>1, Before DEF Sessions
<1>4. CASE UNCHANGED <<row, msgs>>
  <2>1. Moves(n) /\ (~env.races => Shown(n)')
    BY <1>1, <1>2, <1>4, RowKept
  <2>2. Change(n)
    BY <1>1, <1>2, <1>4, <2>1, Before, SameAttempts, Zenon DEF Change
  <2> QED BY <2>1, <2>2, ChangeKeeps
<1>5. CASE /\ env.kind # "KEY" /\ PersistSignature(n, a)
           /\ msgs' = msgs \cup {[type |-> "signature", to |-> p, from |-> n, att |-> a] :
                                   p \in Nodes \ {n}}
  <2> HIDE DEF a
  <2>1. Moves(n) /\ (~env.races => Shown(n)') /\ row'[n].sig \in 0 .. Len(attempts)
    BY <1>1, <1>2, <1>3, <1>5, PersistKeeps
  <2>2. msgs' \subseteq Messages /\ \A x \in msgs' \ msgs : x.att = a
    <3>1. ASSUME NEW p \in Nodes \ {n}
          PROVE  [type |-> "signature", to |-> p, from |-> n, att |-> a] \in Messages
      BY <1>3 DEF Messages
    <3>2. msgs \subseteq Messages
      BY Before
    <3>3. ASSUME NEW x \in msgs', x \notin msgs
          PROVE  \E p \in Nodes \ {n} : x = [type |-> "signature", to |-> p, from |-> n, att |-> a]
      BY <1>5, <3>3, Zenon
    <3>4. ASSUME NEW x \in msgs', x \notin msgs PROVE x \in Messages /\ x.att = a
      BY <3>1, <3>3, <3>4
    <3> QED BY <3>2, <3>4
  <2>3. Change(n)
    BY <1>1, <1>2, <1>3, <1>5, <2>1, <2>2, Before, SameAttempts, Zenon DEF Change
  <2> QED BY <2>1, <2>3, ChangeKeeps
<1>6. ASSUME env.kind = "KEY", NEW s \in {"COMPLETED", "REVERTED"}, SetStatus(n, s), msgs' = msgs
      PROVE  FlowInv' /\ Moves(n)
  <2>1. /\ row' \in [Nodes -> Rows] /\ \A p \in Nodes : p # n => row'[p] = row[p]
        /\ row'[n].sig = row[n].sig
        /\ row[n].status = "ABSENT" => row'[n] = row[n]
        /\ row[n].status # "ABSENT" => row'[n].status = s
    BY <1>6, Before, StatusWritten, Zenon
  <2>2. row[n].sig = NoAttempt
    BY <1>6, Before
  <2>3. ~env.races => row[n].status \in {"ABSENT", "CONFIRMED", "IN_PROGRESS"}
    BY <1>3, <2>2, Before DEF Shown, Rows
  <2>4. Moves(n)
    BY <1>6, <2>1, <2>2, <2>3, Zenon DEF Moves, RowMove
  <2>5. ~env.races => Shown(n)'
    BY <1>1, <1>2, <1>6, <2>1, <2>2, Before, Zenon DEF Shown
  <2>6. Change(n)
    BY <1>1, <1>2, <1>6, <2>1, <2>2, <2>4, <2>5, Before, SameAttempts, Zenon DEF Change
  <2> QED BY <2>4, <2>6, ChangeKeeps
<1>7. ASSUME NEW voted \in BOOLEAN, HandleKeyFinished(n, voted) PROVE FlowInv' /\ Moves(n)
  BY <1>6, <1>7 DEF HandleKeyFinished
<1> QED BY <1>4, <1>5, <1>7, Zenon DEF HandleSignFinished, SessionResultLost

LEMMA CoordinateStep ==
  ASSUME FlowInv, NEW n \in Nodes, Coordinate(n) PROVE FlowInv' /\ Moves(n)
<1>1. PICK S \in Participants, k \in AssignableNonces : ProcessEventAsCoordinator(n, S, k)
  BY DEF Coordinate
<1>2. S \in SUBSET Nodes
  BY DEF Participants
<1>3. k \in Nat
  <2>1. Len(mined) \in Nat
    BY Lengths DEF FlowInv, ChainTypes
  <2> QED BY <2>1, TxFlowAssumption DEF AssignableNonces
<1> DEFINE a == Len(attempts) + 1
           joins == n \in S /\ session[n] = NoSession /\ row[n].sig = NoAttempt
           hasIt == n \in S /\ session[n] = NoSession /\ row[n].sig # NoAttempt
           e == [coord |-> n, parts |-> S, nonce |-> k, met |-> FALSE]
<1>4. /\ a <= env.attempts /\ row[n].status = "CONFIRMED" /\ UNCHANGED <<env, busy>>
      /\ attempts' = Append(attempts, e)
      /\ tracking' = [tracking EXCEPT ![n] =
                        IF hasIt THEN NotTracking
                        ELSE [of |-> S, acked |-> IF joins THEN {n} ELSE {}]]
      /\ session' = IF joins THEN [session EXCEPT ![n] = NewSession(a)] ELSE session
      /\ row' = IF joins THEN [row EXCEPT ![n].status = "IN_PROGRESS"]
                ELSE IF hasIt THEN [row EXCEPT ![n].status = "SIGNED"] ELSE row
      /\ msgs' = msgs \cup {[type |-> "setup", to |-> p, from |-> n, att |-> a] : p \in S \ {n}}
      /\ UNCHANGED chainVars
  BY <1>1, Zenon DEF ProcessEventAsCoordinator, Coordinate
<1>5. e \in AttemptRecords
  BY <1>2, <1>3 DEF AttemptRecords
<1>6. /\ attempts' \in Seq(AttemptRecords) /\ Len(attempts') = a /\ Len(attempts) \in Nat
      /\ Len(attempts) <= Len(attempts')
  <2>1. attempts \in Seq(AttemptRecords)
    BY DEF FlowInv, NodeTypes
  <2>2. Len(attempts) \in Nat
    BY <2>1, Lengths
  <2> HIDE DEF e
  <2> QED BY <1>4, <1>5, <2>1, <2>2, Appended
<1> HIDE DEF e
<1>7. 0 .. Len(attempts) \subseteq 0 .. Len(attempts') /\ a \in 0 .. Len(attempts') /\ a # NoAttempt
  BY <1>6 DEF NoAttempt
<1>8. Sessions \subseteq Sessions' /\ Handlers \subseteq Handlers' /\ Messages \subseteq Messages'
  BY <1>7 DEF Sessions, Handlers, Messages
<1> HIDE DEF a
<1>9. msgs' \subseteq Messages' /\ \A x \in msgs' \ msgs : x.att = a /\ x.type = "setup"
  <2>1. ASSUME NEW p \in S \ {n}
        PROVE  [type |-> "setup", to |-> p, from |-> n, att |-> a] \in Messages'
    BY <1>2, <1>7 DEF Messages
  <2> QED BY <1>4, <1>8, <2>1, Before
<1>10. tracking' \in [Nodes -> [of : SUBSET Nodes, acked : SUBSET Nodes]]
  <2>1. (IF hasIt THEN NotTracking ELSE [of |-> S, acked |-> IF joins THEN {n} ELSE {}])
          \in [of : SUBSET Nodes, acked : SUBSET Nodes]
    BY <1>2 DEF NotTracking
  <2> HIDE DEF hasIt, joins
  <2> QED BY <1>4, <2>1, Before
<1>11. /\ session' \in Sessions' /\ \A p \in Nodes : p # n => session'[p] = session[p]
       /\ session'[n].att = NoAttempt => session'[n] = NoSession
       /\ ~joins => session'[n] = session[n]
  <2>1. NewSession(a) \in [att : 0 .. Len(attempts'), begun : BOOLEAN] /\ NewSession(a).att = a
    BY <1>7 DEF NewSession
  <2>2. session \in [Nodes -> [att : 0 .. Len(attempts'), begun : BOOLEAN]]
    BY <1>8, Before, Zenon DEF Sessions
  <2> HIDE DEF joins
  <2>3. session' \in [Nodes -> [att : 0 .. Len(attempts'), begun : BOOLEAN]]
    BY <1>4, <2>1, <2>2
  <2>4. /\ \A p \in Nodes : p # n => session'[p] = session[p]
        /\ joins => session'[n] = NewSession(a)
        /\ ~joins => session'[n] = session[n]
    BY <1>4, <2>2
  <2> QED BY <1>7, <2>1, <2>3, <2>4, Before DEF Sessions
<1>12. /\ row' \in [Nodes -> Rows] /\ \A p \in Nodes : p # n => row'[p] = row[p]
       /\ row'[n].sig = row[n].sig
       /\ joins => row'[n].status = "IN_PROGRESS"
       /\ ~joins /\ hasIt => row'[n].status = "SIGNED"
       /\ ~joins /\ ~hasIt => row'[n] = row[n]
  <2> HIDE DEF joins, hasIt
  <2> QED BY <1>4, Before, Zenon DEF Rows
<1>13. ~env.races => ~hasIt
  BY <1>4, Before, Zenon DEF Shown
<1>14. Moves(n)
  BY <1>4, <1>12, <1>13, Before DEF Moves, RowMove
<1>15. ~env.races => Shown(n)'
  BY <1>4, <1>11, <1>12, <1>13, Before DEF Shown
<1>16. row'[n].sig \in 0 .. Len(attempts')
  BY <1>7, <1>12, Before
<1>17. busy' \in Handlers'
  BY <1>4, <1>8, Before
<1> HIDE DEF joins, hasIt
<1>18. Len(attempts') <= env.attempts
  BY <1>4, <1>6
<1>19. Change(n)
  BY <1>4, <1>6, <1>7, <1>9, <1>10, <1>11, <1>12, <1>14, <1>15, <1>16, <1>17, <1>18, Before DEF Change
<1> QED BY <1>4, <1>14, <1>19, ChangeKeeps

-----------------------------------------------------------------------------
LEMMA FlowInvInit ==
  ASSUME Init PROVE FlowInv
<1>1. /\ env \in Environments /\ row = [n \in Nodes |-> NewRow] /\ attempts = <<>>
      /\ session = [n \in Nodes |-> NoSession] /\ tracking = [n \in Nodes |-> NotTracking]
      /\ busy = [n \in Nodes |-> Idle] /\ msgs = {} /\ pool = {} /\ mined = <<>>
      /\ clock = "open" /\ votes = {}
  BY DEF Init, SigningInit
<1>2. EnvironmentOK(env)
  BY <1>1, SigningAssumption
<1>3. attempts \in Seq(AttemptRecords) /\ Len(attempts) = 0 /\ Len(attempts) <= env.attempts
  BY <1>1, <1>2, SigningAssumption, NoElements DEF EnvironmentOK, Attempts
<1>4. NewRow \in Rows /\ NewRow.sig = NoAttempt /\ NewRow.status = "CONFIRMED"
  BY DEF NewRow, Rows
<1>5. /\ NoSession \in [att : 0 .. Len(attempts), begun : BOOLEAN]
      /\ Idle \in [doing : {"nothing", "setup", "expiry"}, att : 0 .. Len(attempts), signed : BOOLEAN]
      /\ NotTracking \in [of : SUBSET Nodes, acked : SUBSET Nodes]
      /\ NoAttempt \in 0 .. Len(attempts) /\ Idle.doing # "setup"
  BY <1>3 DEF NoSession, Idle, NotTracking, NoAttempt
<1>6. NodeTypes
  BY <1>1, <1>3, <1>4, <1>5 DEF NodeTypes, Sessions, Handlers
<1>7. ChainTypes
  BY <1>1, NoElements DEF ChainTypes
<1>8. Named
  BY <1>1, <1>4, <1>5 DEF Named
<1>9. Quiet /\ Keys
  BY <1>1, <1>4 DEF Quiet, Shown, Keys
<1> QED BY <1>6, <1>7, <1>8, <1>9 DEF FlowInv

LEMMA NodeStepKeeps ==
  ASSUME FlowInv, NEW n \in Nodes, NodeStep(n) PROVE FlowInv' /\ Moves(n) /\ env' = env
<1>1. env' = env
  BY Zenon DEF NodeStep, LocalStep, InsertEvent, Sweep, CleanTerminal, FinishSetup, HandleStep,
         HandleSignFinished, SessionResultLost, HandleKeyFinished, SessionFinishes,
         CheckExpired, FinishExpiry, Restart, HandleAck, HandleBegin,
         HandleSignatureBroadcast, Coordinate, ProcessEventAsCoordinator, Setup, HandleSetup,
         BroadcastEVM, BroadcastSVM, ResolveEVM, ResolveSVM, ResolveAbsent, Resolve
<1>2. CASE LocalStep(n) /\ UNCHANGED chainVars
  BY <1>1, <1>2, DatabaseStep, FinishSetupStep, BeginStep, FinishStep, ExpiryStep,
     FinishExpiryStep, RestartStep, AckStep, SignatureStep DEF LocalStep
<1>3. CASE Setup(n)
  BY <1>1, <1>3, SetupStep DEF Setup
<1> QED BY <1>1, <1>2, <1>3, CoordinateStep, BroadcastStep, ResolveStep DEF NodeStep

LEMMA FlowInvStep ==
  ASSUME FlowInv, [Next]_vars
  PROVE  FlowInv' /\ (AbstractRows!Next \/ UNCHANGED AbstractRows!rowVars)
<1>0. row \in [Nodes -> Rows]
  BY DEF FlowInv, NodeTypes
<1>1. ASSUME NEW n \in Nodes, NodeStep(n)
      PROVE  FlowInv' /\ (AbstractRows!Next \/ UNCHANGED AbstractRows!rowVars)
  BY <1>0, <1>1, NodeStepKeeps, MoveMaps
<1>2. CASE ChainStep
  BY <1>2, ChainMoves DEF AbstractRows!rowVars
<1>3. CASE UNCHANGED vars
  BY <1>3 DEF vars, signingVars, chainVars, FlowInv, NodeTypes, Sessions, Handlers, Messages,
              ChainTypes, Named, Quiet, Shown, Keys, AbstractRows!rowVars
<1> QED BY <1>1, <1>2, <1>3 DEF Next

\* What setup, acknowledgement and signature messages, sessions, nonces and votes may
\* hold: in particular no node keeps an attempt that was not proposed.
THEOREM FlowTypes == Spec => []TypeOK
<1>1. FlowInv => TypeOK
  BY DEF FlowInv, NodeTypes, ChainTypes, TypeOK, SigningTypeOK, AttemptRecords, Sessions,
         Handlers, Messages
<1>2. FlowInv /\ [Next]_vars => FlowInv'
  BY FlowInvStep
<1> QED BY <1>1, <1>2, FlowInvInit, PTL DEF Spec

\* Session manager, coordinator, sweeper, cleaner, broadcaster and resolver together take a
\* row of the event store only through the steps of EventRows: signing data is written once
\* and stays until the row is settled, whatever messages and processes are lost on the way.
THEOREM RowsImplementEventRows == Spec => RowsImplemented
<1>1. Init => AbstractRows!Init
  <2> SUFFICES ASSUME Init PROVE AbstractRows!Init
    OBVIOUS
  <2>1. row = [n \in Nodes |-> NewRow]
    BY DEF Init, SigningInit
  <2> QED BY <2>1 DEF AbstractRows!Init, NewRow
<1>2. FlowInv /\ [Next]_vars => FlowInv' /\ [AbstractRows!Next]_(AbstractRows!rowVars)
  BY FlowInvStep
<1> QED BY <1>1, <1>2, FlowInvInit, PTL DEF Spec, RowsImplemented, AbstractRows!Spec
=============================================================================
