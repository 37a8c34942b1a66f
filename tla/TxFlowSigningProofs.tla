------------------------- MODULE TxFlowSigningProofs --------------------------
(***************************************************************************)
(* Every step of TxFlow is of a kind that keeps the invariants on          *)
(* signatures (these are in TxFlowStepsProofs); from them follow that the  *)
(* nodes hold one signature, that a hidden one comes back, and that a vote *)
(* tells the truth about the broadcast transaction.                        *)
(***************************************************************************)
EXTENDS TxFlowStepsProofs

-----------------------------------------------------------------------------
\* Every step of a node is of one of these kinds, where rows keep their signatures.
LEMMA OthersAlone ==
  ASSUME FlowInv, NEW n \in Nodes, env' = env, Moves(n),
         \A p \in Nodes : p # n => session'[p] = session[p] /\ busy'[p] = busy[p]
  PROVE  Alone(n)
BY DEF Alone, Moves

\* The row and the memory stay.
LEMMA NothingHappens ==
  ASSUME FlowInv, SignInv, NEW n \in Nodes, UNCHANGED <<env, row, attempts, session, busy>>,
         \A x \in msgs' \ msgs :
            x.type = "begin" \/ (x.type = "ack" /\ (x.att = NoAttempt \/ Known(x.att)))
  PROVE  Passive(n)
<1>1. Consistent(n)'
  BY DEF SignInv, Consistent
<1>2. Hidden(n)' => Hidden(n)
  BY DEF Hidden
<1> QED BY <1>1, <1>2 DEF Passive, Alone

\* A known signature is stored.
LEMMA KnownStored ==
  ASSUME FlowInv, SignInv, NEW n \in Nodes, NEW a \in Attempts, Known(a), PersistSignature(n, a),
         UNCHANGED <<env, attempts, session, busy>>, msgs' \subseteq msgs
  PROVE  Passive(n)
<1>1. /\ row \in [Nodes -> Rows] /\ row' \in [Nodes -> Rows]
      /\ \A p \in Nodes : p # n => row'[p] = row[p]
      /\ row[n].status \in {"CONFIRMED", "IN_PROGRESS"}
            => row'[n].status = "SIGNED" /\ row'[n].sig = a
      /\ row[n].status \notin {"CONFIRMED", "IN_PROGRESS"} => row'[n] = row[n]
  BY Before, SignatureWritten
<1>2. a # NoAttempt
  BY DEF Known
<1>3. Consistent(n)'
  BY <1>1, <1>2 DEF SignInv, Consistent
<1>4. ~Hidden(n)'
  BY <1>1 DEF Hidden
<1>5. /\ row'[n].sig = row[n].sig \/ Known(row'[n].sig)
      /\ row[n].sig # NoAttempt => row'[n].sig # NoAttempt
  BY <1>1, <1>2
<1> QED BY <1>1, <1>3, <1>4, <1>5 DEF Passive, Alone

\* The status of a row is written, and nothing else of it.
LEMMA StatusOnly ==
  ASSUME FlowInv, SignInv, NEW n \in Nodes, env' = env, attempts' = attempts, msgs' \subseteq msgs,
         Moves(n), \A p \in Nodes : p # n => session'[p] = session[p] /\ busy'[p] = busy[p],
         row'[n].sig = row[n].sig, session'[n] \in {session[n], NoSession},
         busy'[n] = busy[n] \/ busy'[n].doing # "setup",
         row'[n] # row[n] => row'[n].status # "IN_PROGRESS",
         row'[n] = row[n] /\ Hidden(n) => busy'[n].doing = "expiry"
                                          \/ (session'[n] = session[n] /\ busy'[n] = busy[n]),
         Consistent(n)'
  PROVE  Passive(n)
<1>1. Alone(n)
  BY OthersAlone
<1>2. Hidden(n)' => row'[n] = row[n] /\ Hidden(n)
  BY DEF Hidden
<1> QED BY <1>1, <1>2 DEF Passive

LEMMA DatabasePassive ==
  ASSUME FlowInv, SignInv, Durable, NEW n \in Nodes, Moves(n),
         InsertEvent(n) \/ Sweep(n) \/ CleanTerminal(n)
  PROVE  Passive(n)
<1>1. UNCHANGED <<env, attempts, session, tracking, busy, msgs>>
  BY DEF InsertEvent, Sweep, CleanTerminal
<1>2. row' = [row EXCEPT ![n] = NewRow] \/ row' = [row EXCEPT ![n] = NoRow]
  BY DEF InsertEvent, Sweep, CleanTerminal
<1>3. row'[n].sig = NoAttempt /\ row'[n].status \in {"CONFIRMED", "ABSENT"}
  BY <1>2, Before DEF NewRow, NoRow
<1>4. row[n].sig = NoAttempt
  <2>1. CASE InsertEvent(n)
    BY <2>1 DEF InsertEvent, SignInv, Consistent
  <2>2. CASE Sweep(n)
    BY <2>2, Before DEF Sweep, Shown, Durable
  <2>3. CASE CleanTerminal(n)
    BY <2>3 DEF CleanTerminal, Durable
  <2> QED BY <2>1, <2>2, <2>3
<1>5. Consistent(n)'
  BY <1>1, <1>3, <1>4 DEF SignInv, Consistent
<1> QED BY <1>1, <1>3, <1>4, <1>5, StatusOnly

LEMMA SendingPassive ==
  ASSUME FlowInv, SignInv, NEW n \in Nodes, Moves(n),
         BroadcastEVM(n) \/ BroadcastSVM(n) \/ ResolveEVM(n) \/ ResolveSVM(n)
  PROVE  Passive(n) /\ row'[n].sig = row[n].sig /\ row[n].status \in {"SIGNED", "BROADCASTED"}
<1>1. /\ UNCHANGED <<env, attempts, session, tracking, busy, msgs>>
      /\ row[n].status \in {"SIGNED", "BROADCASTED"}
      /\ \/ row' = row
         \/ \E s \in {"SIGNED", "BROADCASTED", "COMPLETED", "REVERTED"} :
               row' = [row EXCEPT ![n].status = s]
  BY Zenon DEF BroadcastEVM, BroadcastSVM, ResolveEVM, ResolveSVM, ResolveAbsent, Resolve, memory,
         SignedRow, BroadcastedRow, MarkBroadcasted
<1>2. /\ row'[n].sig = row[n].sig
      /\ row'[n] = row[n] \/ row'[n].status \in {"SIGNED", "BROADCASTED", "COMPLETED", "REVERTED"}
  BY <1>1, Before, RowSent
<1>3. Consistent(n)'
  BY <1>1, <1>2 DEF SignInv, Consistent
<1> QED BY <1>1, <1>2, <1>3, StatusOnly

LEMMA MemoryPassive ==
  ASSUME FlowInv, SignInv, NEW n \in Nodes, Moves(n),
         CheckExpired(n) \/ FinishExpiry(n) \/ Restart(n)
  PROVE  Passive(n)
<1>0. /\ row \in [Nodes -> Rows] /\ session \in Sessions /\ busy \in Handlers
      /\ Idle.doing = "nothing" /\ (~env.races => Shown(n)) /\ Consistent(n)
  BY Before DEF Idle, SignInv
<1>1. CASE Restart(n)
  <2>1. /\ session' = [session EXCEPT ![n] = NoSession] /\ busy' = [busy EXCEPT ![n] = Idle]
        /\ UNCHANGED <<env, attempts, msgs>>
    BY <1>1 DEF Restart
  <2>2. /\ \A p \in Nodes : p # n => session'[p] = session[p] /\ busy'[p] = busy[p]
        /\ session'[n] = NoSession /\ busy'[n] = Idle
    BY <1>0, <2>1 DEF Sessions, Handlers
  <2>3. /\ row'[n].sig = row[n].sig
        /\ row[n].status # "IN_PROGRESS" => row'[n] = row[n]
        /\ row[n].status = "IN_PROGRESS" => row'[n].status = Recovered(row[n].sig # NoAttempt)
    BY <1>0, <1>1 DEF Restart, Rows
  <2>4. Consistent(n)'
    BY <1>0, <2>1, <2>2, <2>3 DEF Consistent, Recovered
  <2>5. row[n].status = "IN_PROGRESS" => row'[n].status \in {"SIGNED", "CONFIRMED"}
    BY <2>3 DEF Recovered
  <2>6. row'[n] = row[n] => ~Hidden(n)
    BY <2>5 DEF Hidden
  <2> QED BY <1>0, <2>1, <2>2, <2>3, <2>4, <2>5, <2>6, StatusOnly
<1>2. CASE FinishExpiry(n)
  <2>1. /\ UNCHANGED <<env, attempts, session, msgs>> /\ busy' = [busy EXCEPT ![n] = Idle]
        /\ SetStatus(n, Recovered(busy[n].signed)) /\ busy[n].doing = "expiry"
    BY <1>2 DEF FinishExpiry
  <2>2. /\ \A p \in Nodes : p # n => session'[p] = session[p] /\ busy'[p] = busy[p]
        /\ session'[n] = session[n] /\ busy'[n] = Idle
    BY <1>0, <2>1 DEF Handlers
  <2>3. Recovered(busy[n].signed) \in {"SIGNED", "CONFIRMED"}
    BY DEF Recovered
  <2>4. /\ row'[n].sig = row[n].sig
        /\ row[n].status = "ABSENT" => row'[n] = row[n]
        /\ row[n].status # "ABSENT" => row'[n].status = Recovered(busy[n].signed)
    BY <1>0, <2>1, <2>3, StatusWritten
  <2>5. Consistent(n)'
    BY <1>0, <2>1, <2>2, <2>4 DEF Consistent, Recovered
  <2>6. row'[n].status # "IN_PROGRESS"
    BY <2>3, <2>4
  <2> QED BY <1>0, <2>1, <2>2, <2>4, <2>5, <2>6, StatusOnly DEF Hidden
<1>3. CASE CheckExpired(n)
  <2>1. /\ session' = [session EXCEPT ![n] = NoSession] /\ UNCHANGED <<env, attempts, msgs>>
    BY <1>3 DEF CheckExpired
  <2>2. \A p \in Nodes : p # n => session'[p] = session[p]
    BY <1>0, <2>1 DEF Sessions
  <2>3. session'[n] = NoSession
    BY <1>0, <2>1 DEF Sessions
  <2>4. CASE env.races /\ row[n].status # "ABSENT"
    <3>0. PICK b \in BOOLEAN : b = (row[n].sig # NoAttempt)
      BY Zenon
    <3> DEFINE h == [Idle EXCEPT !.doing = "expiry", !.signed = b]
    <3>1. row' = row /\ busy' = [busy EXCEPT ![n] = h]
      BY <1>3, <2>4, <3>0 DEF CheckExpired
    <3>2. h.doing = "expiry" /\ h.signed = b
      BY DEF Idle
    <3> HIDE DEF h
    <3>3. busy'[n] = h /\ \A p \in Nodes : p # n => busy'[p] = busy[p]
      BY <1>0, <3>1 DEF Handlers
    <3>4. Consistent(n)'
      BY <1>0, <2>1, <3>0, <3>1, <3>2, <3>3, Zenon DEF Consistent
    <3>5. busy'[n].doing = "expiry" /\ row'[n] = row[n]
      BY <3>1, <3>2, <3>3
    <3> QED BY <2>1, <2>2, <2>3, <3>3, <3>4, <3>5, StatusOnly
  <2>5. CASE ~(env.races /\ row[n].status # "ABSENT")
    <3>1. SetStatus(n, Recovered(row[n].sig # NoAttempt)) /\ busy' = busy
      BY <1>3, <2>5 DEF CheckExpired
    <3>2. Recovered(row[n].sig # NoAttempt) \in {"SIGNED", "CONFIRMED"}
      BY DEF Recovered
    <3>3. /\ row'[n].sig = row[n].sig
          /\ row[n].status = "ABSENT" => row'[n] = row[n]
          /\ row[n].status # "ABSENT" => row'[n].status = Recovered(row[n].sig # NoAttempt)
      BY <1>0, <3>1, <3>2, StatusWritten
    <3>4. Consistent(n)'
      BY <1>0, <2>1, <3>1, <3>3 DEF Consistent, Recovered
    <3>5. row'[n].status # "IN_PROGRESS"
      BY <3>2, <3>3
    <3> QED BY <2>1, <2>2, <2>3, <3>1, <3>3, <3>4, <3>5, StatusOnly DEF Hidden
  <2> QED BY <2>4, <2>5
<1> QED BY <1>1, <1>2, <1>3
-----------------------------------------------------------------------------
LEMMA SetupSigns ==
  ASSUME FlowInv, FlowInv', SignInv, NEW n \in Nodes, NEW m \in msgs, NEW ok,
         HandleSetup(n, m, ok), Moves(n)
  PROVE  SignInv'
<1>1. /\ m.type = "setup" /\ m.to = n /\ busy[n] = Idle /\ UNCHANGED <<env, attempts>>
      /\ m.att \in Proposed /\ m.from \in Nodes
  BY Typed DEF HandleSetup
<1>2. /\ session \in Sessions /\ busy \in Handlers /\ row \in [Nodes -> Rows]
      /\ Idle.doing = "nothing" /\ m.att # NoAttempt
  BY <1>1, Typed, Before DEF Idle
<1>3. CASE msgs' = msgs \ {m} /\ UNCHANGED <<row, session, busy>>
  <2>1. Passive(n)
    BY <1>1, <1>3, NothingHappens
  <2> QED BY <2>1, PassiveKeeps
<1>4. CASE /\ row[n].sig # NoAttempt /\ msgs' = (msgs \ {m}) \cup {Ack(n, m.from, row[n].sig)}
           /\ UNCHANGED <<row, session, busy>>
  <2>1. Known(row[n].sig)
    BY <1>4 DEF Known
  <2>2. Ack(n, m.from, row[n].sig).type = "ack" /\ Ack(n, m.from, row[n].sig).att = row[n].sig
    BY DEF Ack
  <2>3. \A x \in msgs' \ msgs : x.type = "ack" /\ Known(x.att)
    BY <1>4, <2>1, <2>2
  <2>4. Passive(n)
    BY <1>1, <1>4, <2>3, NothingHappens
  <2> QED BY <2>4, PassiveKeeps
<1>5. ASSUME row[n].sig = NoAttempt, m \notin msgs', \A x \in msgs' \ msgs : x.type = "ack"
      PROVE  Token(n, m.att)
  <2>1. msgs' \cap {y \in msgs : y.type = "setup"} \subseteq msgs \ {m}
    BY <1>5
  <2> QED BY <1>1, <1>5, <2>1 DEF Token
<1>6. CASE /\ session[n] = NoSession /\ row[n].sig = NoAttempt /\ row[n].status = "CONFIRMED"
           /\ env.races /\ msgs' = msgs \ {m} /\ UNCHANGED <<row, session>>
           /\ busy' = [busy EXCEPT ![n] = [Idle EXCEPT !.doing = "setup", !.att = m.att]]
  <2> DEFINE h == [Idle EXCEPT !.doing = "setup", !.att = m.att]
  <2>1. h.doing = "setup" /\ h.att = m.att
    BY DEF Idle
  <2> HIDE DEF h
  <2>2. busy'[n] = h /\ \A p \in Nodes : p # n => busy'[p] = busy[p]
    BY <1>2, <1>6 DEF Handlers, h
  <2>3. Alone(n)
    BY <1>1, <1>6, <2>2, OthersAlone
  <2>4. Consistent(n)'
    BY <1>1, <1>6, <2>1, <2>2 DEF SignInv, Consistent
  <2>5. Joining(n, m.att)' /\ ~Hidden(n)'
    BY <1>6, <2>1, <2>2 DEF Joining, Hidden
  <2>6. Enters(n, m.att)
    BY <1>1, <1>5, <1>6, <2>3, <2>4, <2>5 DEF Enters
  <2> QED BY <1>1, <2>6, EntersKeeps
<1>7. CASE /\ session[n] = NoSession /\ row[n].sig = NoAttempt /\ row[n].status = "CONFIRMED"
           /\ OpenSession(n, m.att) /\ busy' = busy
           /\ msgs' = (msgs \ {m}) \cup {Ack(n, m.from, NoAttempt)}
  <2>1. /\ row'[n].sig = row[n].sig /\ row'[n].status = "IN_PROGRESS"
    BY <1>2, <1>7, StatusWritten DEF OpenSession
  <2>2. session'[n] = NewSession(m.att) /\ \A p \in Nodes : p # n => session'[p] = session[p]
    BY <1>2, <1>7 DEF Sessions, OpenSession
  <2>3. Alone(n)
    BY <1>1, <1>7, <2>2, OthersAlone
  <2>4. Consistent(n)'
    BY <1>1, <1>2, <1>7, <2>1 DEF SignInv, Consistent
  <2>5. Ack(n, m.from, NoAttempt).type = "ack" /\ Ack(n, m.from, NoAttempt).att = NoAttempt
    BY DEF Ack
  <2>6. m \notin msgs' /\ \A x \in msgs' \ msgs : x.type = "ack" /\ x.att = NoAttempt
    BY <1>1, <1>7, <2>5
  <2>7. busy'[n].doing = "nothing"
    BY <1>1, <1>2, <1>7
  <2>8. Enters(n, m.att)
    BY <1>1, <1>5, <1>7, <2>1, <2>2, <2>3, <2>4, <2>6, <2>7 DEF Enters
  <2> QED BY <1>1, <2>8, EntersKeeps
<1> QED BY <1>3, <1>4, <1>6, <1>7 DEF HandleSetup, Consume, Reply

LEMMA FinishSetupSigns ==
  ASSUME FlowInv, FlowInv', SignInv, NEW n \in Nodes, FinishSetup(n), Moves(n)
  PROVE  SignInv'
<1> DEFINE a == busy[n].att
<1>1. /\ busy[n].doing = "setup" /\ busy' = [busy EXCEPT ![n] = Idle] /\ UNCHANGED <<env, attempts>>
      /\ session' = [session EXCEPT ![n] = NewSession(a)] /\ SetStatus(n, "IN_PROGRESS")
      /\ msgs' = msgs \cup {Ack(n, attempts[a].coord, NoAttempt)}
  BY DEF FinishSetup, OpenSession
<1>2. /\ session \in Sessions /\ busy \in Handlers /\ row \in [Nodes -> Rows]
      /\ Idle.doing = "nothing" /\ a \in Proposed
  BY <1>1, Typed, Before DEF Idle
<1>3. /\ session'[n] = NewSession(a) /\ \A p \in Nodes : p # n => session'[p] = session[p]
      /\ busy'[n] = Idle /\ \A p \in Nodes : p # n => busy'[p] = busy[p]
  <2> HIDE DEF a
  <2> QED BY <1>1, <1>2 DEF Sessions, Handlers
<1>4. /\ row'[n].sig = row[n].sig /\ (row[n].status = "ABSENT" => row'[n] = row[n])
      /\ row[n].status # "ABSENT" => row'[n].status = "IN_PROGRESS"
  BY <1>1, <1>2, StatusWritten
<1>5. Alone(n)
  BY <1>1, <1>3, OthersAlone
<1>6. Consistent(n)'
  BY <1>1, <1>2, <1>3, <1>4 DEF SignInv, Consistent
<1>7. \A x \in msgs' \ msgs : x.type = "ack" /\ x.att = NoAttempt
  BY <1>1, SMTT(20) DEF Ack
<1>8. Token(n, a)
  BY <1>1 DEF Token, Joining
<1>9. Enters(n, a)
  BY <1>1, <1>2, <1>3, <1>4, <1>5, <1>6, <1>7, <1>8 DEF Enters
<1> QED BY <1>2, <1>9, EntersKeeps

LEMMA BeginSigns ==
  ASSUME FlowInv, FlowInv', SignInv, NEW n \in Nodes, NEW c, BeginIf(n, c), Moves(n),
         UNCHANGED <<env, row, busy>>, \A x \in msgs' \ msgs : x.type = "begin"
  PROVE  SignInv'
<1>1. CASE MayBegin(n, c)
  <2>1. Begin(n) /\ session[n] # NoSession
    BY <1>1 DEF BeginIf, MayBegin
  <2>2. \A p \in Nodes : p # n => session'[p] = session[p]
    BY <2>1, BeginTyped
  <2>3. Begins(n)
    BY <2>1, <2>2, OthersAlone DEF Begins
  <2> QED BY <2>3, BeginsKeeps
<1>2. CASE ~MayBegin(n, c)
  <2>1. UNCHANGED <<session, attempts>>
    BY <1>2 DEF BeginIf
  <2>2. Passive(n)
    BY <2>1, NothingHappens
  <2> QED BY <2>2, PassiveKeeps
<1> QED BY <1>1, <1>2

LEMMA MessageSigns ==
  ASSUME FlowInv, FlowInv', SignInv, NEW n \in Nodes, NEW m \in msgs, Moves(n),
         HandleAck(n, m) \/ HandleBegin(n, m) \/ HandleSignatureBroadcast(n, m)
  PROVE  SignInv'
<1>1. CASE /\ msgs' = msgs \ {m} /\ UNCHANGED <<env, row, attempts, session, busy>>
  <2>1. Passive(n)
    BY <1>1, NothingHappens
  <2> QED BY <2>1, PassiveKeeps
<1>2. ASSUME NEW c, BeginIf(n, c), UNCHANGED <<env, row, busy>>,
             \A x \in msgs' \ msgs : x.type = "begin"
      PROVE  SignInv'
  BY <1>2, BeginSigns
<1>3. CASE /\ m.type \in {"ack", "signature"} /\ m.att # NoAttempt /\ msgs' = msgs \ {m}
           /\ PersistSignature(n, m.att) /\ UNCHANGED <<env, attempts, session, busy>>
  <2>1. Known(m.att)
    BY <1>3 DEF Known
  <2>2. m.att \in Attempts
    BY <1>3, AttemptsTyped, Before DEF Messages
  <2>3. Passive(n)
    BY <1>3, <2>1, <2>2, KnownStored
  <2> QED BY <2>3, PassiveKeeps
<1>4. CASE HandleAck(n, m)
  <2> DEFINE acked == tracking[n].acked \cup {m.from}
  <2>1. ASSUME msgs' = (msgs \ {m}) \cup
                  {[type |-> "begin", to |-> p, from |-> n, att |-> NoAttempt] : p \in acked \ {n}}
        PROVE  \A x \in msgs' \ msgs : x.type = "begin"
    BY <2>1
  <2>2. \/ /\ msgs' = msgs \ {m} /\ UNCHANGED <<env, row, attempts, session, busy>>
        \/ /\ msgs' = (msgs \ {m}) \cup
                  {[type |-> "begin", to |-> p, from |-> n, att |-> NoAttempt] : p \in acked \ {n}}
           /\ BeginIf(n, n) /\ UNCHANGED <<env, row, busy>>
        \/ /\ m.type = "ack" /\ m.att # NoAttempt /\ msgs' = msgs \ {m}
           /\ PersistSignature(n, m.att) /\ UNCHANGED <<env, attempts, session, busy>>
    BY <1>4 DEF HandleAck, Consume, Reply
  <2> QED BY <1>1, <1>2, <1>3, <2>1, <2>2
<1>5. CASE HandleBegin(n, m)
  <2>1. BeginIf(n, m.from) /\ UNCHANGED <<env, row, busy>> /\ msgs' = msgs \ {m}
    BY <1>5 DEF HandleBegin, Consume
  <2> QED BY <1>2, <2>1
<1>6. CASE HandleSignatureBroadcast(n, m)
  <2>1. m.att # NoAttempt /\ m.type = "signature"
    BY <1>6, Typed DEF HandleSignatureBroadcast
  <2> QED BY <1>1, <1>3, <1>6, <2>1 DEF HandleSignatureBroadcast, Consume
<1> QED BY <1>4, <1>5, <1>6
-----------------------------------------------------------------------------
LEMMA StepSigns ==
  ASSUME FlowInv, FlowInv', SignInv, NEW n \in Nodes, HandleStep(n), Moves(n)
  PROVE  SignInv'
<1>1. Begin(n) /\ session[n] # NoSession /\ UNCHANGED <<env, row, busy, msgs>>
  BY DEF HandleStep
<1>2. \A p \in Nodes : p # n => session'[p] = session[p]
  BY <1>1, BeginTyped
<1>3. Begins(n)
  BY <1>1, <1>2, OthersAlone DEF Begins
<1> QED BY <1>3, BeginsKeeps

LEMMA FinishSigns ==
  ASSUME FlowInv, FlowInv', SignInv, NEW n \in Nodes, Moves(n),
         \/ HandleSignFinished(n) \/ SessionResultLost(n)
         \/ \E voted \in BOOLEAN : HandleKeyFinished(n, voted)
  PROVE  SignInv'
<1>0. PICK a : a = session[n].att
  OBVIOUS
<1>1. /\ session[n].begun /\ attempts[a].met /\ session' = [session EXCEPT ![n] = NoSession]
      /\ UNCHANGED <<env, attempts, busy>>
  BY <1>0 DEF HandleSignFinished, SessionResultLost, HandleKeyFinished, SessionFinishes
<1>2. /\ session'[n] = NoSession /\ \A p \in Nodes : p # n => session'[p] = session[p]
      /\ row \in [Nodes -> Rows]
  BY <1>1, Before DEF Sessions
<1>3. session[n] # NoSession /\ a \in Proposed /\ a # NoAttempt /\ a \in Attempts
  <2>1. session[n] # NoSession
    BY <1>1 DEF NoSession
  <2> QED BY <1>0, <2>1, Typed, AttemptsTyped, Before DEF Sessions
<1>4. Live(n) /\ Consistent(n) /\ (Hidden(n) => busy[n].doing = "expiry") /\ Candidate(a)
  BY <1>0, <1>1, <1>3 DEF Live, SignInv, HiddenUnmet, Candidate
<1>5. Alone(n)
  BY <1>1, <1>2, OthersAlone
<1>6. CASE UNCHANGED <<row, msgs>>
  <2>1. Consistent(n)'
    BY <1>1, <1>4, <1>6 DEF Consistent
  <2>2. Passive(n)
    BY <1>1, <1>2, <1>4, <1>6, <2>1, StatusOnly
  <2> QED BY <2>2, PassiveKeeps
<1>7. CASE /\ env.kind # "KEY" /\ row[n].status # "ABSENT" /\ PersistSignature(n, a)
           /\ msgs' = msgs \cup {[type |-> "signature", to |-> p, from |-> n, att |-> a] :
                                   p \in Nodes \ {n}}
  <2>1. /\ row[n].status \in {"CONFIRMED", "IN_PROGRESS"}
              => row'[n].status = "SIGNED" /\ row'[n].sig = a
        /\ row[n].status \notin {"CONFIRMED", "IN_PROGRESS"} => row'[n] = row[n]
    BY <1>2, <1>3, <1>7, SignatureWritten
  <2>2. ASSUME row[n].status \notin {"CONFIRMED", "IN_PROGRESS"} PROVE row[n].sig = a
    <3>1. row[n].sig # NoAttempt
      BY <1>2, <1>4, <1>7, <2>2 DEF Consistent, Rows
    <3>2. row[n].sig \in Proposed /\ Known(row[n].sig)
      BY <3>1, Typed DEF Known
    <3> QED BY <1>3, <1>4, <3>2 DEF SignInv, OneCandidate, Candidate
  <2>3. row'[n].sig = a /\ row'[n].status # "IN_PROGRESS" /\ row'[n].status # "ABSENT"
    BY <1>7, <2>1, <2>2
  <2>4. Consistent(n)'
    BY <1>1, <1>3, <2>3 DEF Consistent
  <2>5. \A x \in msgs' \ msgs : x.type = "signature" /\ x.att = a
    BY <1>7
  <2>6. Finishes(n)
    BY <1>0, <1>1, <1>2, <1>4, <1>5, <2>3, <2>4, <2>5 DEF Finishes
  <2> QED BY <2>6, FinishesKeeps
<1>8. ASSUME NEW s \in {"COMPLETED", "REVERTED"}, env.kind = "KEY", SetStatus(n, s), msgs' = msgs
      PROVE  SignInv'
  <2>1. /\ row'[n].sig = row[n].sig /\ (row[n].status = "ABSENT" => row'[n] = row[n])
        /\ row[n].status # "ABSENT" => row'[n].status = s
    BY <1>2, <1>8, StatusWritten
  <2>2. Consistent(n)'
    BY <1>1, <1>4, <1>8, <2>1 DEF Consistent
  <2>3. row'[n] # row[n] => row'[n].status # "IN_PROGRESS"
    BY <2>1
  <2>4. Passive(n)
    BY <1>1, <1>2, <1>4, <1>8, <2>1, <2>2, <2>3, StatusOnly
  <2> QED BY <2>4, PassiveKeeps
<1>9. CASE HandleSignFinished(n)
  BY <1>0, <1>6, <1>7, <1>9 DEF HandleSignFinished
<1>10. CASE \E voted \in BOOLEAN : HandleKeyFinished(n, voted)
  BY <1>8, <1>10 DEF HandleKeyFinished
<1> QED BY <1>6, <1>9, <1>10 DEF SessionResultLost

\* A coordinator asks all nodes.
LEMMA AllAreAsked ==
  ASSUME AllSign, NEW S \in Participants PROVE S = Nodes
  BY DEF Participants, AllSign

LEMMA CoordinateSigns ==
  ASSUME AllSign, FlowInv, FlowInv', SignInv, NEW n \in Nodes, Coordinate(n), Moves(n)
  PROVE  SignInv'
<1>1. PICK k \in AssignableNonces : ProcessEventAsCoordinator(n, Nodes, k)
  BY AllAreAsked DEF Coordinate
<1> DEFINE joins == session[n] = NoSession /\ row[n].sig = NoAttempt
           hasIt == session[n] = NoSession /\ row[n].sig # NoAttempt
<1>2. PICK a : a = Len(attempts) + 1
  OBVIOUS
<1>3. /\ row[n].status = "CONFIRMED" /\ UNCHANGED <<env, busy>>
      /\ attempts' = Append(attempts, [coord |-> n, parts |-> Nodes, nonce |-> k, met |-> FALSE])
      /\ session' = IF joins THEN [session EXCEPT ![n] = NewSession(a)] ELSE session
      /\ row' = IF joins THEN [row EXCEPT ![n].status = "IN_PROGRESS"]
                ELSE IF hasIt THEN [row EXCEPT ![n].status = "SIGNED"] ELSE row
      /\ msgs' = msgs \cup {[type |-> "setup", to |-> p, from |-> n, att |-> a] : p \in Nodes \ {n}}
  BY <1>1, <1>2 DEF ProcessEventAsCoordinator
<1>4. /\ \A p \in Nodes : p # n => session'[p] = session[p]
      /\ joins => session'[n] = NewSession(a)
      /\ ~joins => session'[n] = session[n]
  <2> HIDE DEF joins
  <2> QED BY <1>3, Before DEF Sessions
<1>5. /\ row'[n].sig = row[n].sig
      /\ joins => row'[n].status = "IN_PROGRESS"
      /\ ~joins => row'[n].status \in {"SIGNED", "CONFIRMED"}
      /\ ~joins /\ ~hasIt => row'[n].status = "CONFIRMED"
  <2> HIDE DEF joins, hasIt
  <2> QED BY <1>3, Before DEF Rows
<1>6. Alone(n)
  <2> HIDE DEF joins
  <2> QED BY <1>3, <1>4, OthersAlone
<1>7. Consistent(n)'
  BY <1>3, <1>5 DEF SignInv, Consistent
<1>8. \A x \in msgs' \ msgs : x.type = "setup" /\ x.from = n /\ x.to # n /\ x.att = a
  BY <1>3
<1>9. \/ session'[n] = session[n] /\ row'[n].status # "IN_PROGRESS"
      \/ session'[n] = NewSession(a) /\ row[n].sig = NoAttempt
  BY <1>4, <1>5
<1>10. row'[n].sig = row[n].sig /\ busy'[n] = busy[n]
  BY <1>3, <1>5
<1>11. Proposes(n)
  <2> HIDE DEF joins, hasIt
  <2> QED BY <1>2, <1>3, <1>6, <1>7, <1>8, <1>9, <1>10, Zenon DEF Proposes
<1> QED BY <1>11, ProposesKeeps

LEMMA SignInvInit ==
  ASSUME Init PROVE SignInv
<1>1. /\ row = [n \in Nodes |-> NewRow] /\ attempts = <<>> /\ msgs = {}
      /\ session = [n \in Nodes |-> NoSession] /\ busy = [n \in Nodes |-> Idle]
  BY DEF Init, SigningInit
<1>2. Proposed = {}
  BY <1>1 DEF Proposed
<1>3. /\ NewRow.sig = NoAttempt /\ NewRow.status = "CONFIRMED" /\ Idle.doing = "nothing"
  BY DEF NewRow, Idle
<1>4. \A n \in Nodes : row[n] = NewRow /\ session[n] = NoSession /\ busy[n] = Idle
  BY <1>1
<1>5. \A n \in Nodes : Consistent(n) /\ ~Hidden(n)
  BY <1>3, <1>4 DEF Consistent, Hidden
<1> QED BY <1>1, <1>2, <1>5 DEF SignInv, AllTakePart, SetupsOnce, JoinsOnce, OneCandidate,
           SignedBars, LiveBars, HiddenUnmet

LEMMA SignInvKept ==
  ASSUME AllSign, Durable, FlowInv, FlowInv', SignInv, [Next]_vars PROVE SignInv'
<1>1. ASSUME NEW n \in Nodes, NodeStep(n) PROVE SignInv'
  <2>1. Moves(n)
    BY <1>1, NodeStepKeeps
  <2>2. CASE LocalStep(n)
    <3>1. CASE InsertEvent(n) \/ Sweep(n) \/ CleanTerminal(n)
      BY <2>1, <3>1, DatabasePassive, PassiveKeeps
    <3>2. CASE CheckExpired(n) \/ FinishExpiry(n) \/ Restart(n)
      BY <2>1, <3>2, MemoryPassive, PassiveKeeps
    <3>3. CASE \/ HandleSignFinished(n) \/ SessionResultLost(n)
               \/ \E voted \in BOOLEAN : HandleKeyFinished(n, voted)
      BY <2>1, <3>3, FinishSigns
    <3>4. CASE \E m \in msgs : HandleAck(n, m) \/ HandleBegin(n, m) \/ HandleSignatureBroadcast(n, m)
      BY <2>1, <3>4, MessageSigns
    <3> QED BY <2>1, <2>2, <3>1, <3>2, <3>3, <3>4, FinishSetupSigns, StepSigns DEF LocalStep
  <2>3. CASE Setup(n)
    BY <2>1, <2>3, SetupSigns DEF Setup
  <2>4. CASE BroadcastEVM(n) \/ BroadcastSVM(n) \/ ResolveEVM(n) \/ ResolveSVM(n)
    BY <2>1, <2>4, SendingPassive, PassiveKeeps
  <2> QED BY <1>1, <2>1, <2>2, <2>3, <2>4, CoordinateSigns DEF NodeStep
<1>2. CASE UNCHANGED signingVars
  <2>1. UNCHANGED <<env, row, attempts, session, busy, msgs>>
    BY <1>2 DEF signingVars
  <2>2. AllTakePart' /\ SetupsOnce' /\ JoinsOnce'
    BY <2>1 DEF SignInv, AllTakePart, SetupsOnce, JoinsOnce, Joining, Proposed
  <2>3. /\ Proposed' = Proposed
        /\ \A s : Known(s)' <=> Known(s)
        /\ \A n \in Nodes : (Live(n)' <=> Live(n)) /\ session'[n] = session[n]
        /\ \A n \in Nodes : \A b : Joining(n, b)' <=> Joining(n, b)
        /\ \A b : Barred(b)' <=> Barred(b)
    BY <2>1 DEF Proposed, Known, Live, Joining, Barred
  <2>4. OneCandidate' /\ SignedBars' /\ LiveBars'
    <3>0. \A s : Candidate(s)' => Candidate(s)
      BY <2>3 DEF Candidate
    <3>1. OneCandidate'
      BY <2>3, <3>0 DEF SignInv, OneCandidate
    <3>2. SignedBars'
      BY <2>1, <2>3 DEF SignInv, SignedBars
    <3>3. LiveBars'
      BY <2>3 DEF SignInv, LiveBars
    <3> QED BY <3>1, <3>2, <3>3
  <2>5. HiddenUnmet' /\ \A n \in Nodes : Consistent(n)'
    BY <2>1 DEF SignInv, HiddenUnmet, Hidden, Live, Consistent
  <2> QED BY <2>2, <2>3, <2>4, <2>5 DEF SignInv
<1>3. ChainStep \/ UNCHANGED vars => UNCHANGED signingVars
  BY Zenon DEF ChainStep, Mine, MineOther, Evict, Land, Tick, vars
<1> QED BY <1>1, <1>2, <1>3 DEF Next

LEMMA SignInvStep ==
  ASSUME AllSign, FlowInv, Durable => SignInv, [Next]_vars PROVE FlowInv' /\ (Durable' => SignInv')
<1>1. FlowInv'
  BY FlowInvStep
<1>2. env' = env
  <2>1. ASSUME NEW n \in Nodes, NodeStep(n) PROVE env' = env
    BY <2>1, NodeStepKeeps
  <2>2. ChainStep \/ UNCHANGED vars => env' = env
    BY ChainMoves DEF vars, signingVars
  <2> QED BY <2>1, <2>2 DEF Next
<1>3. Durable' => Durable
  BY <1>2 DEF Durable
<1> QED BY <1>1, <1>3, SignInvKept

\* Where all nodes must sign, the nodes never hold two signatures of one event, for
\* any number of nodes and attempts: whatever setups, acknowledgements and sessions
\* were lost, a session that finishes is of the only attempt that can still meet.
THEOREM NodesHoldOneSignature == AllSign => (Spec => []OneSignature)
<1> SUFFICES ASSUME AllSign PROVE Spec => []OneSignature
  OBVIOUS
<1>1. FlowInv /\ (Durable => SignInv) => OneSignature
  <2> SUFFICES ASSUME FlowInv, Durable, SignInv, NEW m \in Nodes, NEW n \in Nodes,
                      row[m].sig # NoAttempt, row[n].sig # NoAttempt
               PROVE  row[m].sig = row[n].sig
    BY DEF OneSignature
  <2>1. /\ row[m].sig \in Proposed /\ row[n].sig \in Proposed
        /\ Known(row[m].sig) /\ Known(row[n].sig)
    BY Typed DEF Known
  <2> QED BY <2>1 DEF SignInv, OneCandidate, Candidate
<1>2. FlowInv /\ (Durable => SignInv) /\ [Next]_vars => FlowInv' /\ (Durable => SignInv)'
  BY SignInvStep
<1> QED BY <1>1, <1>2, FlowInvInit, SignInvInit, PTL DEF Spec

\* A signature that a late setup or expiry handler hid under IN_PROGRESS is restored:
\* the session it opened cannot have met, so it ends by expiry, which reads the row.
THEOREM HiddenSignaturesReturn == AllSign => (Spec => []HiddenSignaturesRecover)
<1> SUFFICES ASSUME AllSign PROVE Spec => []HiddenSignaturesRecover
  OBVIOUS
<1>1. FlowInv /\ (Durable => SignInv) => HiddenSignaturesRecover
  <2> SUFFICES ASSUME FlowInv, Durable => SignInv, env.races => env.lasts = "minutes",
                      NEW n \in Nodes, row[n].sig # NoAttempt, row[n].status = "IN_PROGRESS"
               PROVE  session[n] # NoSession \/ busy[n].doing = "expiry"
    BY DEF HiddenSignaturesRecover
  <2>1. CASE env.races
    BY <2>1 DEF Durable, SignInv, HiddenUnmet, Hidden
  <2>2. CASE ~env.races
    BY <2>2, Before DEF Shown
  <2> QED BY <2>1, <2>2
<1>2. FlowInv /\ (Durable => SignInv) /\ [Next]_vars => FlowInv' /\ (Durable => SignInv)'
  BY SignInvStep
<1> QED BY <1>1, <1>2, FlowInvInit, SignInvInit, PTL DEF Spec
-----------------------------------------------------------------------------
(***************************************************************************)
(* Votes.  What the pool and the chain have of the event is the one        *)
(* signature that a row holds, in the place its nonce gives it.  So when a *)
(* vote for failure is cast its nonce is used, or the deadline passed,     *)
(* without an execution, and no transaction is left that could be one.     *)
(***************************************************************************)
Held(s) == s # NoAttempt /\ \E m \in Nodes : row[m].sig = s

Placed ==
  /\ \A a \in pool : Held(a)
  /\ \A i \in DOMAIN mined : mined[i].att # NoAttempt =>
        Held(mined[i].att) /\ (OnEVM => i = Nonce(mined[i].att) + 1)

Judged ==
  \A v \in votes :
    /\ v.ok => Executed
    /\ ~v.ok => /\ ~Executed
                /\ OnEVM => \E s \in Proposed : Held(s) /\ NonceConsumed(s)
                /\ ~OnEVM => clock = "closed"

VoteInv == Calm => Placed /\ Judged

\* Only the sweeper and the cleaner delete a row.
LEMMA RowsRemain ==
  ASSUME FlowInv, NEW n \in Nodes, NodeStep(n), ~Sweep(n), ~CleanTerminal(n)
  PROVE  row'[n].status = "ABSENT" => row[n].status = "ABSENT"
<1>0. row \in [Nodes -> Rows]
  BY Before
<1>1. ASSUME NEW s \in {"CONFIRMED", "IN_PROGRESS", "SIGNED", "BROADCASTED", "COMPLETED", "REVERTED"},
             SetStatus(n, s) \/ row' = [row EXCEPT ![n].status = s]
      PROVE  row'[n].status = "ABSENT" => row[n].status = "ABSENT"
  BY <1>0, <1>1 DEF SetStatus, Update, Rows
<1>2. ASSUME NEW a, PersistSignature(n, a)
      PROVE  row'[n].status = "ABSENT" => row[n].status = "ABSENT"
  BY <1>0, <1>2 DEF PersistSignature, Rows
<1>3. CASE row' = row
  BY <1>3
<1>4. CASE InsertEvent(n)
  BY <1>0, <1>4 DEF InsertEvent, NewRow
<1>5. CASE FinishSetup(n) \/ Setup(n) \/ HandleStep(n)
  BY <1>1, <1>3, <1>5, Zenon DEF FinishSetup, Setup, HandleSetup, OpenSession, HandleStep
<1>6. CASE \/ HandleSignFinished(n) \/ SessionResultLost(n)
           \/ \E voted \in BOOLEAN : HandleKeyFinished(n, voted)
  BY <1>1, <1>2, <1>3, <1>6 DEF HandleSignFinished, SessionResultLost, HandleKeyFinished
<1>7. CASE CheckExpired(n) \/ FinishExpiry(n) \/ Restart(n)
  <2>1. \A b : Recovered(b) \in {"CONFIRMED", "SIGNED"}
    BY DEF Recovered
  <2> QED BY <1>1, <1>3, <1>7, <2>1 DEF CheckExpired, FinishExpiry, Restart
<1>8. CASE \E m \in msgs : HandleAck(n, m) \/ HandleBegin(n, m) \/ HandleSignatureBroadcast(n, m)
  BY <1>2, <1>3, <1>8 DEF HandleAck, HandleBegin, HandleSignatureBroadcast
<1>9. CASE Coordinate(n)
  <2>1. PICK S, k : ProcessEventAsCoordinator(n, S, k)
    BY <1>9 DEF Coordinate
  <2>2. \/ row' = row \/ row' = [row EXCEPT ![n].status = "IN_PROGRESS"]
        \/ row' = [row EXCEPT ![n].status = "SIGNED"]
    BY <2>1 DEF ProcessEventAsCoordinator
  <2> QED BY <1>1, <1>3, <2>2
<1>10. CASE BroadcastEVM(n) \/ BroadcastSVM(n) \/ ResolveEVM(n) \/ ResolveSVM(n)
  BY <1>1, <1>3, <1>10, Zenon DEF BroadcastEVM, BroadcastSVM, ResolveEVM, ResolveSVM, ResolveAbsent,
                           Resolve, MarkBroadcasted
<1> QED BY <1>4, <1>5, <1>6, <1>7, <1>8, <1>9, <1>10, Zenon DEF NodeStep, LocalStep

LEMMA HeldStays ==
  ASSUME Calm, FlowInv, FlowInv', SignInv, NEW n \in Nodes, NodeStep(n), NEW s, Held(s)
  PROVE  Held(s)'
<1>1. PICK m \in Nodes : row[m].sig = s /\ s # NoAttempt
  BY DEF Held
<1>2. Moves(n) /\ ~env.races
  BY NodeStepKeeps DEF Calm
<1>3. CASE m # n
  BY <1>1, <1>2, <1>3 DEF Moves, Held
<1>4. CASE m = n
  <2>1. CASE Sweep(n) \/ CleanTerminal(n)
    <3>1. Durable
      <4>1. env.lasts \in {"minutes", "hours", "days"}
        BY SigningAssumption DEF FlowInv, NodeTypes, EnvironmentOK
      <4> QED BY <4>1 DEF Durable, Calm
    <3>2. Passive(n)
      BY <1>2, <2>1, <3>1, DatabasePassive
    <3>3. row'[n].sig # NoAttempt
      BY <1>1, <1>4, <3>2 DEF Passive
    <3> QED BY <1>1, <1>2, <1>4, <3>3, Before DEF Moves, RowMove, Held
  <2>2. CASE ~Sweep(n) /\ ~CleanTerminal(n)
    <3>1. row[n].status # "ABSENT"
      BY <1>1, <1>4 DEF SignInv, Consistent
    <3>2. row'[n].status # "ABSENT"
      BY <2>2, <3>1, RowsRemain
    <3>3. row'[n].sig = s
      BY <1>1, <1>2, <1>4, <3>1, <3>2, Before, Zenon DEF Moves, RowMove
    <3> QED BY <1>1, <3>3 DEF Held
  <2> QED BY <2>1, <2>2
<1> QED BY <1>3, <1>4

LEMMA HeldOnce ==
  ASSUME FlowInv, SignInv, NEW s, NEW t, Held(s), Held(t)
  PROVE  s = t /\ s \in Proposed
<1>1. s \in Proposed /\ t \in Proposed
  BY Typed DEF Held
<1> QED BY <1>1 DEF Held, SignInv, OneCandidate, Candidate, Known

\* The nonce of an attempt is assigned once.
LEMMA NoncesStay ==
  ASSUME FlowInv, NEW n \in Nodes, NodeStep(n), NEW a \in Proposed
  PROVE  Nonce(a)' = Nonce(a) /\ a \in Proposed'
<1>0. attempts \in Seq(AttemptRecords) /\ Len(attempts) \in Nat /\ DOMAIN attempts = 1 .. Len(attempts)
  BY Lengths DEF FlowInv, NodeTypes
<1>1. CASE attempts' = attempts
  BY <1>1 DEF Nonce, Proposed
<1>2. CASE Begin(n)
  <2>1. PICK b, x : attempts' = [attempts EXCEPT ![b].met = x]
    BY <1>2, Zenon DEF Begin
  <2>2. attempts[a] \in AttemptRecords
    BY Typed
  <2>3. attempts'[a].nonce = attempts[a].nonce
    BY <1>0, <2>1, <2>2 DEF AttemptRecords, Proposed
  <2>4. DOMAIN attempts' = DOMAIN attempts /\ Len(attempts') = Len(attempts)
    BY <1>0, <2>1
  <2> QED BY <2>3, <2>4 DEF Nonce, Proposed
<1>3. CASE Coordinate(n)
  <2>1. PICK e : attempts' = Append(attempts, e)
    BY <1>3 DEF Coordinate, ProcessEventAsCoordinator
  <2>2. Len(attempts') = Len(attempts) + 1 /\ attempts'[a] = attempts[a]
    BY <1>0, <2>1 DEF Proposed
  <2> QED BY <1>0, <2>2 DEF Nonce, Proposed
<1>4. CASE LocalStep(n)
  BY <1>1, <1>2, <1>4, Zenon DEF LocalStep, InsertEvent, Sweep, CleanTerminal, FinishSetup, HandleStep,
         HandleSignFinished, SessionResultLost, HandleKeyFinished, SessionFinishes,
         CheckExpired, FinishExpiry, Restart, HandleAck, HandleBegin,
         HandleSignatureBroadcast, BeginIf
<1>5. CASE Setup(n)
  BY <1>1, <1>5 DEF Setup, HandleSetup
<1>6. CASE BroadcastEVM(n) \/ BroadcastSVM(n) \/ ResolveEVM(n) \/ ResolveSVM(n)
  BY <1>1, <1>6, Zenon DEF BroadcastEVM, BroadcastSVM, ResolveEVM, ResolveSVM, ResolveAbsent, Resolve
<1> QED BY <1>3, <1>4, <1>5, <1>6 DEF NodeStep
-----------------------------------------------------------------------------
LEMMA ExecutedSame ==
  ASSUME mined' = mined PROVE Executed' = Executed
BY DEF Executed

\* What a transaction appended to the chain changes.
LEMMA MinedAppended ==
  ASSUME FlowInv, NEW a \in Attempts \cup {NoAttempt}, NEW ok \in BOOLEAN,
         mined' = Append(mined, Transaction(a, ok))
  PROVE  /\ Len(mined) \in Nat /\ Len(mined') = Len(mined) + 1
         /\ DOMAIN mined = 1 .. Len(mined) /\ DOMAIN mined' = 1 .. (Len(mined) + 1)
         /\ \A i \in DOMAIN mined : mined'[i] = mined[i]
         /\ mined'[Len(mined) + 1].att = a /\ mined'[Len(mined) + 1].ok = ok
         /\ Executed' <=> Executed \/ (a # NoAttempt /\ ok)
<1> DEFINE t == Transaction(a, ok)
<1>1. t.att = a /\ t.ok = ok /\ t \in [att : Attempts \cup {NoAttempt}, ok : BOOLEAN]
  BY DEF Transaction
<1> HIDE DEF t
<1>2. mined \in Seq([att : Attempts \cup {NoAttempt}, ok : BOOLEAN]) /\ mined' = Append(mined, t)
  BY DEF FlowInv, ChainTypes, t
<1>3. Len(mined) \in Nat /\ DOMAIN mined = 1 .. Len(mined)
  BY <1>2, Lengths
<1>4. /\ mined' \in Seq([att : Attempts \cup {NoAttempt}, ok : BOOLEAN])
      /\ Len(mined') = Len(mined) + 1
      /\ \A i \in 1 .. Len(mined) : mined'[i] = mined[i]
      /\ mined'[Len(mined) + 1] = t
  BY <1>1, <1>2, Appended
<1>5. DOMAIN mined' = 1 .. (Len(mined) + 1)
  BY <1>4, Lengths
<1>6. \A i \in DOMAIN mined' : i \in DOMAIN mined \/ i = Len(mined) + 1
  BY <1>3, <1>5
<1>7. DOMAIN mined \subseteq DOMAIN mined' /\ Len(mined) + 1 \in DOMAIN mined'
  BY <1>3, <1>5
<1>8. Executed' <=> Executed \/ (a # NoAttempt /\ ok)
  BY <1>1, <1>3, <1>4, <1>6, <1>7 DEF Executed
<1> QED BY <1>1, <1>3, <1>4, <1>5, <1>8

\* A step of a node that leaves the chain alone, or sends what its row holds.
LEMMA PlacedByNode ==
  ASSUME Calm, FlowInv, FlowInv', SignInv, NEW n \in Nodes, NodeStep(n), Placed, mined' = mined,
         \A a \in pool' : a \in pool \/ Held(a)
  PROVE  Placed'
<1>1. \A s : Held(s) => Held(s)' /\ s \in Proposed
  BY HeldStays, HeldOnce
<1>2. OnEVM' = OnEVM
  BY NodeStepKeeps DEF OnEVM
<1>3. \A s \in Proposed : Nonce(s)' = Nonce(s)
  BY NoncesStay
<1>4. \A a \in pool' : Held(a)'
  BY <1>1 DEF Placed
<1>5. ASSUME NEW i \in DOMAIN mined', mined'[i].att # NoAttempt
      PROVE  Held(mined[i].att)' /\ (OnEVM' => i = Nonce(mined[i].att)' + 1)
  <2>1. PICK s : s = mined[i].att
    OBVIOUS
  <2>2. Held(s) /\ (OnEVM => i = Nonce(s) + 1) /\ s = mined'[i].att
    BY <1>5, <2>1 DEF Placed
  <2>3. Held(s)' /\ Nonce(s)' = Nonce(s)
    BY <1>1, <1>3, <2>2
  <2> QED BY <1>2, <2>2, <2>3 DEF Held, Nonce
<1> QED BY <1>4, <1>5 DEF Placed

LEMMA JudgedByNode ==
  ASSUME Calm, FlowInv, FlowInv', SignInv, NEW n \in Nodes, NodeStep(n), Judged,
         UNCHANGED <<mined, clock>>,
         \A v \in votes' \ votes :
            /\ v.ok => Executed
            /\ ~v.ok => /\ ~Executed
                        /\ OnEVM => \E s \in Proposed : Held(s) /\ NonceConsumed(s)
                        /\ ~OnEVM => clock = "closed"
  PROVE  Judged'
<1>1. OnEVM' = OnEVM
  BY NodeStepKeeps DEF OnEVM
<1>2. Executed' = Executed
  BY ExecutedSame
<1>3. ASSUME NEW s \in Proposed, Held(s), NonceConsumed(s)
      PROVE  s \in Proposed' /\ Held(s)' /\ NonceConsumed(s)'
  <2>1. s \in Proposed' /\ Nonce(s)' = Nonce(s)
    BY <1>3, NoncesStay
  <2> QED BY <1>3, <2>1, HeldStays DEF NonceConsumed
<1>4. (\E s \in Proposed : Held(s) /\ NonceConsumed(s))
        => (\E s \in Proposed' : Held(s)' /\ NonceConsumed(s)')
  BY <1>3
<1> QED BY <1>1, <1>2, <1>4 DEF Judged

LEMMA SendingVotes ==
  ASSUME Calm, FlowInv, FlowInv', SignInv, NEW n \in Nodes, NodeStep(n), Placed, Judged,
         BroadcastEVM(n) \/ BroadcastSVM(n)
  PROVE  Placed' /\ Judged'
<1>1. /\ UNCHANGED <<mined, clock, votes>> /\ row[n].sig # NoAttempt
      /\ pool' \subseteq pool \cup {row[n].sig}
  BY Zenon DEF BroadcastEVM, BroadcastSVM, SignedRow
<1>2. Held(row[n].sig)
  BY <1>1 DEF Held
<1> QED BY <1>1, <1>2, PlacedByNode, JudgedByNode

\* A node's own signature is the one the chain may have executed.
LEMMA ReceiptTells ==
  ASSUME Calm, FlowInv, SignInv, Placed, OnEVM, NEW a, Held(a), NEW answer \in ReceiptAnswers(a)
  PROVE  /\ answer = "success" => Executed
         /\ answer = "failure" => ~Executed /\ NonceConsumed(a)
         /\ answer = "none" => ~Executed
<1> DEFINE found == {mined[i].ok : i \in {j \in DOMAIN mined : mined[j].att = a}}
<1>1. answer = IF found = {} THEN "none" ELSE IF TRUE \in found THEN "success" ELSE "failure"
  BY Zenon DEF ReceiptAnswers, Calm
<1>2. /\ mined \in Seq([att : Attempts \cup {NoAttempt}, ok : BOOLEAN])
      /\ DOMAIN mined = 1 .. Len(mined) /\ Len(mined) \in Nat /\ a # NoAttempt /\ a \in Proposed
  BY Lengths, HeldOnce, ZenonT(20) DEF FlowInv, ChainTypes, Held
<1>3. \A i \in DOMAIN mined : mined[i].ok \in BOOLEAN
  <2> SUFFICES ASSUME NEW i \in DOMAIN mined PROVE mined[i].ok \in BOOLEAN
    OBVIOUS
  <2>1. mined[i] \in [att : Attempts \cup {NoAttempt}, ok : BOOLEAN]
    BY <1>2, Lengths, Zenon
  <2> QED BY <2>1
<1>4. Executed <=> \E i \in DOMAIN mined : mined[i].att = a /\ mined[i].ok
  BY <1>2, HeldOnce DEF Executed, Placed
<1>5. TRUE \in found => Executed
  BY <1>4, Zenon
<1>6. Executed => TRUE \in found
  BY <1>3, <1>4, Zenon
<1>7. found # {} => NonceConsumed(a)
  <2> SUFFICES ASSUME NEW i \in DOMAIN mined, mined[i].att = a PROVE NonceConsumed(a)
    OBVIOUS
  <2>1. i = Nonce(a) + 1
    BY <1>2 DEF Placed
  <2>2. Nonce(a) \in Nat
    BY <1>2, Typed DEF Nonce, AttemptRecords
  <2> QED BY <1>2, <2>1, <2>2 DEF NonceConsumed
<1> HIDE DEF found
<1> QED BY <1>1, <1>5, <1>6, <1>7, Zenon

LEMMA ResolvingVotes ==
  ASSUME Calm, FlowInv, FlowInv', SignInv, NEW n \in Nodes, NodeStep(n), Placed, Judged,
         ResolveEVM(n) \/ ResolveSVM(n)
  PROVE  Placed' /\ Judged'
<1>1. UNCHANGED <<pool, mined, clock>> /\ row[n].status = "BROADCASTED"
  BY Zenon DEF ResolveEVM, ResolveSVM, ResolveAbsent, Resolve, BroadcastedRow
<1>2. Placed'
  BY <1>1, PlacedByNode
<1>3. PICK a : a = row[n].sig
  OBVIOUS
<1>4. Held(a) /\ a \in Proposed
  <2>1. a # NoAttempt
    BY <1>1, <1>3, Before DEF Calm, Shown
  <2> QED BY <1>3, <2>1, Typed DEF Held
<1>5. CASE votes' = votes
  BY <1>1, <1>5, <1>2, JudgedByNode
<1>6. CASE Vote(n, TRUE) /\ Executed
  <2>1. \A v \in votes' \ votes : v.ok = TRUE
    BY <1>6 DEF Vote
  <2> QED BY <1>1, <1>2, <1>6, <2>1, JudgedByNode
<1>7. CASE /\ Vote(n, FALSE) /\ ~Executed /\ (OnEVM => NonceConsumed(a))
           /\ ~OnEVM => clock = "closed"
  <2>1. \A v \in votes' \ votes : v.ok = FALSE
    BY <1>7 DEF Vote
  <2>2. OnEVM => \E s \in Proposed : Held(s) /\ NonceConsumed(s)
    BY <1>4, <1>7
  <2> QED BY <1>1, <1>2, <1>7, <2>1, <2>2, JudgedByNode
<1>8. CASE ResolveEVM(n)
  <2>1. PICK answer \in ReceiptAnswers(a) :
           \/ answer = "success" /\ (Vote(n, TRUE) \/ votes' = votes)
           \/ answer = "failure" /\ Vote(n, FALSE)
           \/ answer = "none" /\ ResolveAbsent(n)
    BY <1>3, <1>8, Zenon DEF ResolveEVM
  <2>2. OnEVM
    BY <1>8 DEF ResolveEVM
  <2>3. /\ answer = "success" => Executed
        /\ answer = "failure" => ~Executed /\ NonceConsumed(a)
        /\ answer = "none" => ~Executed
    BY <1>4, <2>2, ReceiptTells
  <2>4. ResolveAbsent(n) => votes' = votes \/ (Vote(n, FALSE) /\ NonceConsumed(a))
    BY <1>3, Zenon DEF ResolveAbsent
  <2> QED BY <1>5, <1>6, <1>7, <2>1, <2>2, <2>3, <2>4, Zenon
<1>9. CASE ResolveSVM(n)
  <2>1. PICK executed \in ExecutionAnswers :
           votes' = votes \/ (~executed /\ clock = "closed" /\ Vote(n, FALSE))
    BY <1>9, Zenon DEF ResolveSVM
  <2>2. ~OnEVM
    BY <1>9 DEF ResolveSVM, OnSVM, OnEVM
  <2>3. clock = "closed" => executed = Executed
    BY DEF ExecutionAnswers, Calm
  <2> QED BY <1>5, <1>7, <2>1, <2>2, <2>3, Zenon
<1> QED BY <1>8, <1>9

LEMMA NodeVotes ==
  ASSUME Calm, FlowInv, FlowInv', SignInv, NEW n \in Nodes, NodeStep(n), Placed, Judged
  PROVE  Placed' /\ Judged'
<1>1. CASE UNCHANGED chainVars
  BY <1>1, PlacedByNode, JudgedByNode DEF chainVars
<1> QED BY <1>1, SendingVotes, ResolvingVotes DEF NodeStep, Coordinate, Setup

LEMMA ChainVotes ==
  ASSUME Calm, FlowInv, FlowInv', SignInv, ChainStep, Placed, Judged
  PROVE  Placed' /\ Judged'
<1>1. /\ UNCHANGED signingVars /\ votes' = votes /\ \A s : Held(s)' <=> Held(s)
      /\ OnEVM' = OnEVM /\ Proposed' = Proposed /\ \A s : Nonce(s)' = Nonce(s)
  <2>1. UNCHANGED signingVars /\ votes' = votes
    BY Zenon DEF ChainStep, Mine, MineOther, Evict, Land, Tick
  <2> QED BY <2>1 DEF signingVars, Held, OnEVM, Proposed, Nonce
<1>2. pool' \subseteq pool
  BY Zenon DEF ChainStep, Mine, MineOther, Evict, Land, Tick, Unmined
<1>3. \A s \in Proposed : Nonce(s) \in Nat
  BY Typed DEF Nonce, AttemptRecords
<1>4. CASE UNCHANGED <<mined, clock>>
  <2>1. Executed' = Executed /\ \A s : NonceConsumed(s)' <=> NonceConsumed(s)
    BY <1>1, <1>4, ExecutedSame DEF NonceConsumed
  <2>2. Placed'
    BY <1>1, <1>2, <1>4 DEF Placed
  <2> QED BY <1>1, <1>4, <2>1, <2>2 DEF Judged
<1>5. CASE Tick
  <2>1. mined' = mined /\ Executed' = Executed /\ clock # "closed" /\ ~OnEVM
    BY <1>5, ExecutedSame DEF Tick, OnEVM, OnSVM
  <2>2. Placed'
    BY <1>1, <1>2, <2>1 DEF Placed
  <2>3. \A v \in votes : v.ok
    BY <2>1 DEF Judged
  <2> QED BY <1>1, <2>1, <2>2, <2>3 DEF Judged
<1>6. ASSUME NEW a \in Attempts \cup {NoAttempt}, NEW ok \in BOOLEAN,
             mined' = Append(mined, Transaction(a, ok)), clock' = clock,
             a # NoAttempt => /\ Held(a) /\ (OnEVM => Nonce(a) = Len(mined))
                              /\ ~OnEVM => clock # "closed"
      PROVE  Placed' /\ Judged'
  <2>1. /\ Len(mined) \in Nat /\ Len(mined') = Len(mined) + 1
        /\ DOMAIN mined = 1 .. Len(mined) /\ DOMAIN mined' = 1 .. (Len(mined) + 1)
        /\ \A i \in DOMAIN mined : mined'[i] = mined[i]
        /\ mined'[Len(mined) + 1].att = a /\ mined'[Len(mined) + 1].ok = ok
        /\ Executed' <=> Executed \/ (a # NoAttempt /\ ok)
    BY <1>6, MinedAppended, Zenon
  <2>2. Placed'
    <3>1. ASSUME NEW i \in DOMAIN mined', mined'[i].att # NoAttempt
          PROVE  Held(mined[i].att)' /\ (OnEVM' => i = Nonce(mined[i].att)' + 1)
      <4>1. PICK s : s = mined'[i].att
        OBVIOUS
      <4>2. Held(s) /\ (OnEVM => i = Nonce(s) + 1)
        <5>1. CASE i \in DOMAIN mined
          BY <2>1, <3>1, <4>1, <5>1 DEF Placed
        <5>2. CASE i = Len(mined) + 1
          BY <1>6, <2>1, <3>1, <4>1, <5>2
        <5>3. PICK k \in Nat : k = Len(mined)
          BY <2>1, Zenon
        <5>4. i \in 1 .. (k + 1) /\ DOMAIN mined = 1 .. k
          BY <2>1, <3>1, <5>3
        <5>5. i \in 1 .. k \/ i = k + 1
          BY <5>4
        <5> QED BY <5>1, <5>2, <5>3, <5>4, <5>5
      <4>3. Held(s)' /\ (OnEVM' => i = Nonce(s)' + 1)
        <5>1. Held(s)' /\ Nonce(s)' = Nonce(s)
          BY <1>1, <4>2
        <5>2. OnEVM' => OnEVM
          BY <1>1
        <5> QED BY <4>2, <5>1, <5>2
      <4> QED BY <4>1, <4>3 DEF Held, Nonce
    <3>2. \A b \in pool' : Held(b)'
      BY <1>1, <1>2 DEF Placed
    <3> QED BY <3>1, <3>2 DEF Placed
  <2>3. \A s \in Proposed : NonceConsumed(s) => NonceConsumed(s)'
    BY <1>1, <1>3, <2>1 DEF NonceConsumed
  <2>4. ASSUME NEW v \in votes, ~v.ok PROVE a = NoAttempt
    <3> SUFFICES ASSUME a # NoAttempt PROVE FALSE
      OBVIOUS
    <3>1. CASE OnEVM
      <4>1. PICK s \in Proposed : Held(s) /\ NonceConsumed(s)
        BY <2>4, <3>1 DEF Judged
      <4>2. s = a
        BY <1>6, <4>1, HeldOnce
      <4> QED BY <1>3, <1>6, <2>1, <3>1, <4>1, <4>2 DEF NonceConsumed
    <3>2. CASE ~OnEVM
      BY <1>6, <2>4, <3>2 DEF Judged
    <3> QED BY <3>1, <3>2
  <2>5. Judged'
    <3> SUFFICES ASSUME NEW v \in votes
                 PROVE  /\ v.ok => Executed'
                        /\ ~v.ok => /\ ~Executed'
                                    /\ OnEVM' => \E s \in Proposed' : Held(s)' /\ NonceConsumed(s)'
                                    /\ ~OnEVM' => clock' = "closed"
      BY <1>1 DEF Judged
    <3>1. CASE v.ok
      BY <2>1, <3>1 DEF Judged
    <3>2. CASE ~v.ok
      <4>1. ~Executed'
        BY <2>1, <2>4, <3>2 DEF Judged
      <4>2. OnEVM' => \E s \in Proposed' : Held(s)' /\ NonceConsumed(s)'
        BY <1>1, <2>3, <3>2 DEF Judged
      <4> QED BY <1>1, <1>6, <3>2, <4>1, <4>2 DEF Judged
    <3> QED BY <3>1, <3>2
  <2> QED BY <2>2, <2>5
<1>7. ASSUME NEW a \in pool PROVE Held(a) /\ a \in Attempts /\ a # NoAttempt
  BY <1>7 DEF Placed, FlowInv, ChainTypes, Held
<1>8. ASSUME NEW a \in pool, NEW ok \in BOOLEAN, Mine(a, ok) PROVE Placed' /\ Judged'
  BY <1>6, <1>7, <1>8 DEF Mine
<1>9. CASE MineOther
  BY <1>6, <1>9, Zenon DEF MineOther
<1>10. ASSUME NEW a \in pool, Land(a) PROVE Placed' /\ Judged'
  BY <1>6, <1>7, <1>10, Zenon DEF Land, OnSVM, OnEVM
<1>11. ASSUME NEW a \in pool, Evict(a) PROVE Placed' /\ Judged'
  BY <1>4, <1>11 DEF Evict
<1> QED BY <1>5, <1>8, <1>9, <1>10, <1>11 DEF ChainStep

\* Where all nodes must sign, every vote of the resolver tells what happened to the event
\* on its chain and what will, for any number of nodes, attempts and nonces: a row that
\* has no receipt is reverted only when the nonce of the event's one signature is used.
THEOREM VotesAreTruthful == AllSign => (Spec => []VotesTruthful)
<1> SUFFICES ASSUME AllSign PROVE Spec => []VotesTruthful
  OBVIOUS
<1> DEFINE Inv == FlowInv /\ (Durable => SignInv) /\ VoteInv
<1>1. Init => Inv
  BY FlowInvInit, SignInvInit DEF Init, VoteInv, Placed, Judged
<1>2. Inv /\ [Next]_vars => Inv'
  <2> SUFFICES ASSUME Inv, [Next]_vars PROVE Inv'
    OBVIOUS
  <2>1. FlowInv' /\ (Durable' => SignInv')
    BY SignInvStep
  <2>2. env' = env
    <3>1. ASSUME NEW n \in Nodes, NodeStep(n) PROVE env' = env
      BY <3>1, NodeStepKeeps
    <3>2. ChainStep \/ UNCHANGED vars => env' = env
      BY ChainMoves DEF vars, signingVars
    <3> QED BY <3>1, <3>2 DEF Next
  <2>3. ASSUME Calm PROVE Placed' /\ Judged'
    <3>1. SignInv /\ Placed /\ Judged
      <4>1. env.lasts \in {"minutes", "hours", "days"}
        BY SigningAssumption DEF FlowInv, NodeTypes, EnvironmentOK
      <4> QED BY <2>3, <4>1 DEF Durable, Calm, VoteInv
    <3>2. CASE UNCHANGED vars
      BY <3>1, <3>2 DEF vars, signingVars, chainVars, Placed, Judged, Held, OnEVM, Nonce,
                        NonceConsumed, Executed, Proposed
    <3> QED BY <2>1, <2>3, <3>1, <3>2, NodeVotes, ChainVotes DEF Next
  <2>4. VoteInv'
    BY <2>2, <2>3 DEF VoteInv, Calm
  <2> QED BY <2>1, <2>4
<1>3. Inv => VotesTruthful
  <2> SUFFICES ASSUME Inv, Calm, NEW v \in votes PROVE v.ok = Executed
    BY DEF VotesTruthful, VotesMatchChain
  <2>1. v.ok \in BOOLEAN /\ Executed \in BOOLEAN
    BY DEF FlowInv, ChainTypes, Executed
  <2>2. v.ok <=> Executed
    BY DEF VoteInv, Judged
  <2> QED BY <2>1, <2>2
<1> QED BY <1>1, <1>2, <1>3, PTL DEF Spec
=============================================================================
