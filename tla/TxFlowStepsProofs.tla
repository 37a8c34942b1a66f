-------------------------- MODULE TxFlowStepsProofs ---------------------------
(***************************************************************************)
(* The kinds of steps of a node, as far as signatures go, and that each of *)
(* them keeps the invariant SignInv.  That every handler of the worker is  *)
(* of one of these kinds is in TxFlowSigningProofs.                        *)
(*                                                                         *)
(* One signature.  An attempt can be signed only after all nodes were in   *)
(* its session at once.  A node enters an attempt once, the coordinator as *)
(* it proposes it: so an attempt that all nodes left for another one never *)
(* meets again, and neither does one that a node with a signature is not   *)
(* in.  A behaviour therefore has at most one candidate for a signature at *)
(* a time, and once that one is stored no other attempt can meet.          *)
(***************************************************************************)
EXTENDS TxFlowProofs

AllSign ==
  \A S \in SUBSET Nodes : Cardinality(S) = CalculateThreshold(Cardinality(Nodes)) => S = Nodes

Proposed == 1 .. Len(attempts)

\* n has read its row for the setup of attempt a and is about to open the session.
Joining(n, a) == busy[n].doing = "setup" /\ busy[n].att = a

\* The signature of attempt s is in a row or in a message.
Known(s) ==
  /\ s # NoAttempt
  /\ \/ \E n \in Nodes : row[n].sig = s
     \/ \E x \in msgs : x.type \in {"ack", "signature"} /\ x.att = s

\* n has the session of an attempt that met, and so may finish it.
Live(n) == session[n] # NoSession /\ attempts[session[n].att].met

Candidate(s) == Known(s) \/ \E n \in Nodes : Live(n) /\ session[n].att = s

\* A node is out of attempt b for good: it coordinated and left it, or was signed.
Barred(b) ==
  \E m \in Nodes : /\ session[m].att # b /\ ~Joining(m, b)
                   /\ row[m].sig # NoAttempt \/ m = attempts[b].coord

AllTakePart == \A a \in Proposed : attempts[a].parts = Nodes

\* What still lets a node into an attempt: a setup to it, or its reading of one.
SetupsOnce ==
  \A x \in msgs : x.type = "setup" =>
    /\ x.from = attempts[x.att].coord /\ x.to # x.from
    /\ ~attempts[x.att].met /\ session[x.to].att # x.att /\ ~Joining(x.to, x.att)

JoinsOnce ==
  \A n \in Nodes, a \in Proposed : Joining(n, a) =>
    n # attempts[a].coord /\ ~attempts[a].met /\ session[n].att # a

OneCandidate == \A s, t \in Proposed : Candidate(s) /\ Candidate(t) => s = t

SignedBars ==
  \A s \in Proposed : Known(s) =>
    /\ attempts[s].met
    /\ \E m \in Nodes : row[m].sig = s
    /\ \A b \in Proposed : b # s => Barred(b)

LiveBars == \A n \in Nodes, b \in Proposed : Live(n) /\ Joining(n, b) => Barred(b)

Hidden(n) == row[n].sig # NoAttempt /\ row[n].status = "IN_PROGRESS"

HiddenUnmet ==
  \A n \in Nodes : Hidden(n) =>
    busy[n].doing = "expiry" \/ (session[n] # NoSession /\ ~Live(n))

\* A row that was signed once has its signature, and an absent one has none.
Consistent(n) ==
  /\ row[n].status = "ABSENT" => row[n].sig = NoAttempt
  /\ env.kind # "KEY" /\ row[n].status \in {"SIGNED", "BROADCASTED", "COMPLETED", "REVERTED"}
        => row[n].sig # NoAttempt
  /\ busy[n].doing = "expiry" /\ busy[n].signed => row[n].sig # NoAttempt

SignInv ==
  /\ AllTakePart /\ SetupsOnce /\ JoinsOnce /\ OneCandidate /\ SignedBars /\ LiveBars
  /\ HiddenUnmet /\ \A n \in Nodes : Consistent(n)

\* A step of node n, as far as the other nodes see.
Alone(n) ==
  /\ env' = env
  /\ \A p \in Nodes : p # n => row'[p] = row[p] /\ session'[p] = session[p] /\ busy'[p] = busy[p]

\* A step of node n that enters no attempt, lets none meet and makes no signature.
Passive(n) ==
  /\ Alone(n) /\ attempts' = attempts
  /\ row'[n].sig = row[n].sig \/ Known(row'[n].sig)
  /\ row[n].sig # NoAttempt => row'[n].sig # NoAttempt
  /\ session'[n] \in {session[n], NoSession}
  /\ busy'[n] = busy[n] \/ busy'[n].doing # "setup"
  /\ \A x \in msgs' \ msgs :
        x.type = "begin" \/ (x.type = "ack" /\ (x.att = NoAttempt \/ Known(x.att)))
  /\ Hidden(n)' => \/ busy'[n].doing = "expiry"
                   \/ Hidden(n) /\ session'[n] = session[n] /\ busy'[n] = busy[n]
  /\ Consistent(n)'

\* Where a step of n alone keeps its row consistent, all rows stay so.
LEMMA OthersConsistent ==
  ASSUME NEW n \in Nodes, Alone(n), Consistent(n)', \A p \in Nodes : Consistent(p)
  PROVE  \A p \in Nodes : Consistent(p)'
<1> SUFFICES ASSUME NEW p \in Nodes, p # n PROVE Consistent(p)'
  OBVIOUS
<1>1. env' = env /\ row'[p] = row[p] /\ busy'[p] = busy[p]
  BY DEF Alone
<1> QED BY <1>1 DEF Consistent

\* The types of an attempt, for the steps below.
LEMMA Typed ==
  ASSUME FlowInv
  PROVE  /\ Len(attempts) \in Nat /\ NoAttempt \notin Proposed
         /\ \A n \in Nodes : /\ session[n] # NoSession => session[n].att \in Proposed
                             /\ session[n].att \in Proposed \cup {NoAttempt}
                             /\ busy[n].doing = "setup" => busy[n].att \in Proposed
                             /\ row[n].sig \in Proposed \cup {NoAttempt}
         /\ \A x \in msgs : /\ x.to \in Nodes /\ x.from \in Nodes
                            /\ x.att \in Proposed \cup {NoAttempt}
                            /\ x.type \in {"setup", "signature"} => x.att \in Proposed
         /\ \A a \in Proposed : attempts[a] \in AttemptRecords
         /\ NoSession.att = NoAttempt
<1>1. Len(attempts) \in Nat /\ NoSession.att = NoAttempt
  BY EnvironmentType DEF FlowInv, NoSession
<1>2. \A k : k \in 0 .. Len(attempts) <=> k \in Proposed \cup {NoAttempt}
  BY <1>1 DEF Proposed, NoAttempt
<1>3. NoAttempt \notin Proposed
  BY <1>1 DEF Proposed, NoAttempt
<1>4. ASSUME NEW n \in Nodes
      PROVE  /\ session[n] # NoSession => session[n].att \in Proposed
             /\ session[n].att \in Proposed \cup {NoAttempt}
             /\ busy[n].doing = "setup" => busy[n].att \in Proposed
             /\ row[n].sig \in Proposed \cup {NoAttempt}
  BY <1>2, Before DEF Sessions, Handlers
<1>5. ASSUME NEW x \in msgs
      PROVE  /\ x.to \in Nodes /\ x.from \in Nodes
             /\ x.att \in Proposed \cup {NoAttempt}
             /\ x.type \in {"setup", "signature"} => x.att \in Proposed
  BY <1>2 DEF FlowInv, NodeTypes, Messages, Named
<1>6. \A a \in Proposed : attempts[a] \in AttemptRecords
  BY <1>2, <1>3, AttemptsTyped
<1> QED BY <1>1, <1>3, <1>4, <1>5, <1>6

\* A node stays barred as long as its signature, its absence and its being on the way do.
LEMMA BarredStays ==
  ASSUME NEW n \in Nodes, Alone(n), NEW b, Barred(b), attempts'[b].coord = attempts[b].coord,
         row[n].sig # NoAttempt => row'[n].sig # NoAttempt,
         session[n].att # b /\ ~Joining(n, b) /\ (row[n].sig # NoAttempt \/ n = attempts[b].coord)
           => session'[n].att # b /\ ~Joining(n, b)'
  PROVE  Barred(b)'
<1>1. PICK m \in Nodes : /\ session[m].att # b /\ ~Joining(m, b)
                         /\ row[m].sig # NoAttempt \/ m = attempts[b].coord
  BY DEF Barred
<1>2. CASE m = n
  BY <1>1, <1>2 DEF Barred, Joining
<1>3. CASE m # n
  BY <1>1, <1>3 DEF Barred, Joining, Alone
<1> QED BY <1>2, <1>3

LEMMA PassiveKeeps ==
  ASSUME FlowInv, FlowInv', SignInv, NEW n \in Nodes, Passive(n) PROVE SignInv'
<1> USE DEF SignInv
<1>0. Proposed' = Proposed /\ attempts' = attempts
  BY DEF Passive, Proposed
<1>1. ASSUME NEW p \in Nodes
      PROVE  /\ session'[p] \in {session[p], NoSession}
             /\ \A a : Joining(p, a)' => Joining(p, a)
             /\ row[p].sig # NoAttempt => row'[p].sig # NoAttempt
             /\ row'[p].sig = row[p].sig \/ Known(row'[p].sig)
  BY DEF Passive, Alone, Joining
<1>2. \A s : Known(s)' => Known(s)
  <2> SUFFICES ASSUME NEW s, Known(s)' PROVE Known(s)
    OBVIOUS
  <2>1. s # NoAttempt
    BY DEF Known
  <2>2. CASE \E p \in Nodes : row'[p].sig = s
    BY <1>1, <2>1, <2>2 DEF Known
  <2>3. CASE \E x \in msgs' : x.type \in {"ack", "signature"} /\ x.att = s
    BY <2>1, <2>3 DEF Known, Passive
  <2> QED BY <2>2, <2>3 DEF Known
<1>3. \A p \in Nodes : Live(p)' => Live(p) /\ session'[p].att = session[p].att
  BY <1>0, <1>1 DEF Live
<1>4. \A b \in Proposed : Barred(b) => Barred(b)'
  <2> SUFFICES ASSUME NEW b \in Proposed, Barred(b) PROVE Barred(b)'
    OBVIOUS
  <2>1. session[n].att # b => session'[n].att # b
    BY <1>1, Typed
  <2> QED BY <1>0, <1>1, <2>1, BarredStays DEF Passive
<1>5. AllTakePart'
  BY <1>0 DEF AllTakePart
<1>6. SetupsOnce'
  <2> SUFFICES ASSUME NEW x \in msgs', x.type = "setup"
               PROVE  /\ x.from = attempts[x.att].coord /\ x.to # x.from /\ ~attempts[x.att].met
                      /\ session'[x.to].att # x.att /\ ~Joining(x.to, x.att)'
    BY <1>0 DEF SetupsOnce
  <2>1. x \in msgs
    BY DEF Passive
  <2>2. x.to \in Nodes /\ x.att \in Proposed
    BY <2>1, Typed
  <2> QED BY <1>1, <2>1, <2>2, Typed DEF SetupsOnce
<1>7. JoinsOnce'
  <2> SUFFICES ASSUME NEW p \in Nodes, NEW a \in Proposed, Joining(p, a)'
               PROVE  p # attempts[a].coord /\ ~attempts[a].met /\ session'[p].att # a
    BY <1>0 DEF JoinsOnce
  <2> QED BY <1>1, Typed DEF JoinsOnce
<1>8. OneCandidate'
  BY <1>0, <1>2, <1>3 DEF OneCandidate, Candidate
<1>9. SignedBars'
  <2> SUFFICES ASSUME NEW s \in Proposed, Known(s)'
               PROVE  /\ attempts[s].met
                      /\ \E m \in Nodes : row'[m].sig = s
                      /\ \A b \in Proposed : b # s => Barred(b)'
    BY <1>0 DEF SignedBars
  <2>1. Known(s)
    BY <1>2
  <2>2. PICK m \in Nodes : row[m].sig = s
    BY <2>1 DEF SignedBars
  <2>3. row'[m].sig = s
    <3>1. row'[m].sig # NoAttempt
      BY <1>1, <2>2, Typed
    <3>2. CASE Known(row'[m].sig)
      <4>1. row'[m].sig \in Proposed
        BY <1>0, <2>2, <3>1, Typed DEF Passive, Alone, FlowInv, Named, Proposed, NoAttempt
      <4> QED BY <2>1, <3>2, <4>1 DEF OneCandidate, Candidate
    <3> QED BY <1>1, <2>2, <3>2
  <2> QED BY <1>4, <2>1, <2>3 DEF SignedBars
<1>10. LiveBars'
  BY <1>0, <1>1, <1>3, <1>4 DEF LiveBars
<1>11. HiddenUnmet'
  <2> SUFFICES ASSUME NEW p \in Nodes, Hidden(p)'
               PROVE  busy'[p].doing = "expiry" \/ (session'[p] # NoSession /\ ~Live(p)')
    BY DEF HiddenUnmet
  <2>1. CASE p = n
    BY <1>3, <2>1 DEF Passive, HiddenUnmet
  <2>2. CASE p # n
    BY <1>3, <2>2 DEF Passive, Alone, HiddenUnmet, Hidden
  <2> QED BY <2>1, <2>2
<1>12. \A p \in Nodes : Consistent(p)'
  BY OthersConsistent DEF Passive
<1> QED BY <1>5, <1>6, <1>7, <1>8, <1>9, <1>10, <1>11, <1>12
-----------------------------------------------------------------------------
\* Node n opens the session of attempt a, or begins to: the setup x is used up, or n had
\* read one.
Token(n, a) ==
  \/ /\ row[n].sig = NoAttempt
     /\ \E x \in msgs : /\ x.type = "setup" /\ x.to = n /\ x.att = a
                        /\ msgs' \cap {y \in msgs : y.type = "setup"} \subseteq msgs \ {x}
  \/ Joining(n, a)

Enters(n, a) ==
  /\ Alone(n) /\ attempts' = attempts /\ Token(n, a)
  /\ row'[n].sig = row[n].sig /\ Consistent(n)'
  /\ \A x \in msgs' \ msgs : x.type = "ack" /\ x.att = NoAttempt
  /\ \/ session'[n] = NewSession(a) /\ busy'[n].doing = "nothing"
     \/ /\ session[n] = NoSession /\ session'[n] = NoSession
        /\ Joining(n, a)' /\ ~Hidden(n)'

LEMMA EntersKeeps ==
  ASSUME FlowInv, FlowInv', SignInv, NEW n \in Nodes, NEW a \in Proposed, Enters(n, a)
  PROVE  SignInv'
<1> USE DEF SignInv
<1>0. Proposed' = Proposed /\ attempts' = attempts
  BY DEF Enters, Proposed
<1>1. ~attempts[a].met /\ n # attempts[a].coord /\ (row[n].sig # NoAttempt => Joining(n, a))
  BY Typed DEF Enters, Token, SetupsOnce, JoinsOnce
<1>2. ASSUME NEW x \in msgs', x.type = "setup" PROVE x \in msgs /\ ~(x.to = n /\ x.att = a)
  <2>1. x \in msgs
    BY <1>2 DEF Enters
  <2>2. CASE Joining(n, a)
    BY <1>2, <2>1, <2>2 DEF SetupsOnce
  <2>3. CASE ~Joining(n, a)
    <3>1. PICK y \in msgs : /\ y.type = "setup" /\ y.to = n /\ y.att = a
                            /\ msgs' \cap {z \in msgs : z.type = "setup"} \subseteq msgs \ {y}
      BY <2>3 DEF Enters, Token
    <3>2. x # y
      BY <1>2, <2>1, <3>1
    <3>3. x.to = y.to /\ x.att = y.att => x = y
      <4> SUFFICES ASSUME x.to = y.to, x.att = y.att PROVE x = y
        OBVIOUS
      <4>1. x.from = y.from /\ x.type = y.type
        BY <1>2, <2>1, <3>1 DEF SetupsOnce
      <4>2. x \in Messages /\ y \in Messages
        BY <2>1, Before
      <4> QED BY <4>1, <4>2 DEF Messages
    <3> QED BY <2>1, <3>1, <3>2, <3>3
  <2> QED BY <2>2, <2>3
<1>3. /\ session'[n].att = a \/ session'[n] = NoSession
      /\ session'[n] = NoSession => session[n] = NoSession
      /\ session'[n] # NoSession => session'[n].att = a
  <2>1. a # NoAttempt
    BY Typed
  <2> QED BY <2>1 DEF Enters, NewSession, NoSession
<1>4. \A b : Joining(n, b)' => b = a /\ session'[n] = NoSession
  BY Typed DEF Enters, Joining, NewSession, NoSession
<1>5. \A s : Known(s)' => Known(s)
  <2> SUFFICES ASSUME NEW s, Known(s)' PROVE Known(s)
    OBVIOUS
  <2>1. \A p \in Nodes : row'[p].sig = row[p].sig
    BY DEF Enters, Alone
  <2>2. \A x \in msgs' : x.att = s => x \in msgs
    BY DEF Enters, Known
  <2> QED BY <2>1, <2>2 DEF Known
<1>6. \A p \in Nodes : Live(p)' => p # n /\ Live(p) /\ session'[p].att = session[p].att
  <2>1. ~Live(n)'
    BY <1>0, <1>1, <1>3 DEF Live
  <2> QED BY <1>0, <2>1 DEF Live, Enters, Alone
<1>7. \A b \in Proposed : Barred(b) => Barred(b)'
  <2> SUFFICES ASSUME NEW b \in Proposed, Barred(b) PROVE Barred(b)'
    OBVIOUS
  <2>1. session[n].att # b /\ ~Joining(n, b) /\ (row[n].sig # NoAttempt \/ n = attempts[b].coord)
           => session'[n].att # b /\ ~Joining(n, b)'
    BY <1>1, <1>3, <1>4, Typed
  <2>2. Alone(n) /\ (row[n].sig # NoAttempt => row'[n].sig # NoAttempt)
    BY DEF Enters
  <2> QED BY <1>0, <2>1, <2>2, BarredStays
<1>8. AllTakePart'
  BY <1>0 DEF AllTakePart
<1>9. SetupsOnce'
  <2> SUFFICES ASSUME NEW x \in msgs', x.type = "setup"
               PROVE  /\ x.from = attempts[x.att].coord /\ x.to # x.from /\ ~attempts[x.att].met
                      /\ session'[x.to].att # x.att /\ ~Joining(x.to, x.att)'
    BY <1>0 DEF SetupsOnce
  <2>1. x \in msgs /\ ~(x.to = n /\ x.att = a) /\ x.to \in Nodes /\ x.att \in Proposed
    BY <1>2, Typed
  <2>2. CASE x.to = n
    BY <1>3, <1>4, <2>1, <2>2, Typed DEF SetupsOnce
  <2>3. CASE x.to # n
    BY <2>1, <2>3 DEF SetupsOnce, Enters, Alone, Joining
  <2> QED BY <2>2, <2>3
<1>10. JoinsOnce'
  <2> SUFFICES ASSUME NEW p \in Nodes, NEW b \in Proposed, Joining(p, b)'
               PROVE  p # attempts[b].coord /\ ~attempts[b].met /\ session'[p].att # b
    BY <1>0 DEF JoinsOnce
  <2>1. CASE p = n
    BY <1>1, <1>4, <2>1, Typed
  <2>2. CASE p # n
    BY <2>2 DEF JoinsOnce, Enters, Alone, Joining
  <2> QED BY <2>1, <2>2
<1>11. OneCandidate'
  BY <1>0, <1>5, <1>6 DEF OneCandidate, Candidate
<1>12. SignedBars'
  <2>1. \A p \in Nodes : row'[p].sig = row[p].sig
    BY DEF Enters, Alone
  <2> QED BY <1>0, <1>5, <1>7, <2>1 DEF SignedBars
<1>13. LiveBars'
  <2> SUFFICES ASSUME NEW p \in Nodes, NEW b \in Proposed, Live(p)', Joining(p, b)' PROVE Barred(b)'
    BY <1>0 DEF LiveBars
  <2>1. Live(p) /\ Joining(p, b)
    BY <1>6 DEF Enters, Alone, Joining
  <2> QED BY <1>7, <2>1 DEF LiveBars
<1>14. HiddenUnmet'
  <2> SUFFICES ASSUME NEW p \in Nodes, Hidden(p)'
               PROVE  busy'[p].doing = "expiry" \/ (session'[p] # NoSession /\ ~Live(p)')
    BY DEF HiddenUnmet
  <2>1. CASE p = n
    <3>1. session'[n].att = a
      BY <2>1 DEF Enters, NewSession
    <3> QED BY <1>6, <2>1, <3>1, Typed
  <2>2. CASE p # n
    BY <1>6, <2>2 DEF Enters, Alone, HiddenUnmet, Hidden
  <2> QED BY <2>1, <2>2
<1>15. \A p \in Nodes : Consistent(p)'
  BY OthersConsistent DEF Enters
<1> QED BY <1>8, <1>9, <1>10, <1>11, <1>12, <1>13, <1>14, <1>15
-----------------------------------------------------------------------------
\* Node n begins the session it has: the attempt meets with the last node.
Begins(n) ==
  /\ Alone(n) /\ Begin(n) /\ session[n] # NoSession /\ row'[n] = row[n] /\ busy'[n] = busy[n]
  /\ \A x \in msgs' \ msgs : x.type = "begin"

LEMMA BeginsKeeps ==
  ASSUME FlowInv, FlowInv', SignInv, NEW n \in Nodes, Begins(n) PROVE SignInv'
<1> USE DEF SignInv
<1> DEFINE a == session[n].att
           all == \A p \in attempts[a].parts \ {n} : session[p] = [att |-> a, begun |-> TRUE]
<1>1. a \in Proposed /\ attempts[a] \in AttemptRecords /\ attempts[a].parts = Nodes
  BY Typed DEF Begins, AllTakePart
<1>2. /\ session' = [session EXCEPT ![n].begun = TRUE]
      /\ attempts' = [attempts EXCEPT ![a].met = attempts[a].met \/ all]
      /\ Len(attempts') = Len(attempts)
  BY BeginTyped, Zenon DEF Begins, Begin, Alone
<1>3. Proposed' = Proposed /\ DOMAIN attempts = Proposed
  BY <1>2, Lengths DEF Proposed, FlowInv, NodeTypes
<1>4. \A p \in Nodes : session'[p].att = session[p].att /\ (session'[p] = NoSession <=> session[p] = NoSession)
  <2>1. \A p \in Nodes : p # n => session'[p] = session[p]
    BY DEF Begins, Alone
  <2>2. session'[n].att = session[n].att
    BY <1>2, Before DEF Sessions
  <2>3. session'[n] # NoSession
    BY BeginTyped DEF Begins, Alone
  <2> QED BY <2>1, <2>2, <2>3 DEF Begins
<1>5. \A p \in Nodes : row'[p] = row[p] /\ busy'[p] = busy[p]
  BY DEF Begins, Alone
<1>6. /\ \A p \in Nodes : \A b : Joining(p, b)' <=> Joining(p, b)
      /\ \A p \in Nodes : Hidden(p)' <=> Hidden(p)
      /\ \A p \in Nodes : Consistent(p)'
  BY <1>5 DEF Joining, Hidden, Consistent, Begins, Alone
<1>7. \A s : Known(s)' => Known(s)
  <2>1. \A x \in msgs' : x.type \in {"ack", "signature", "setup"} => x \in msgs
    BY DEF Begins
  <2> QED BY <1>5, <2>1 DEF Known
<1>8. /\ \A b \in Proposed : /\ attempts'[b].coord = attempts[b].coord
                             /\ attempts'[b].parts = attempts[b].parts
      /\ \A b \in Proposed : b # a => attempts'[b].met = attempts[b].met
      /\ attempts'[a].met <=> attempts[a].met \/ all
  <2> HIDE DEF all, a
  <2>1. \A b \in Proposed : b # a => attempts'[b] = attempts[b]
    BY <1>1, <1>2, <1>3
  <2>2. attempts'[a] = [attempts[a] EXCEPT !.met = attempts[a].met \/ all]
    BY <1>1, <1>2, <1>3
  <2>3. /\ attempts'[a].coord = attempts[a].coord /\ attempts'[a].parts = attempts[a].parts
        /\ attempts'[a].met = (attempts[a].met \/ all)
    BY <1>1, <2>2 DEF AttemptRecords
  <2> QED BY <2>1, <2>3, Zenon
<1> HIDE DEF all
<1>9. \A b \in Proposed : Barred(b) => Barred(b)'
  BY <1>4, <1>5, <1>6, <1>8 DEF Barred
<1>10. AllTakePart'
  BY <1>3, <1>8 DEF AllTakePart
<1>11. \A x \in msgs' : x.type = "setup" => x \in msgs /\ x.to \in Nodes /\ x.att \in Proposed
  BY Typed DEF Begins
<1>12. CASE attempts[a].met \/ ~all
  <2>1. \A b \in Proposed : attempts'[b].met <=> attempts[b].met
    BY <1>8, <1>12
  <2>2. \A p \in Nodes : Live(p)' <=> Live(p)
    BY <1>4, <2>1, Typed DEF Live
  <2>3. SetupsOnce'
    BY <1>4, <1>6, <1>8, <1>11, <2>1 DEF SetupsOnce
  <2>4. JoinsOnce'
    BY <1>3, <1>4, <1>6, <1>8, <2>1 DEF JoinsOnce
  <2>5. OneCandidate'
    BY <1>3, <1>4, <1>7, <2>2 DEF OneCandidate, Candidate
  <2>6. SignedBars'
    BY <1>3, <1>5, <1>7, <1>9, <2>1 DEF SignedBars
  <2>7. LiveBars'
    BY <1>3, <1>6, <1>9, <2>2 DEF LiveBars
  <2>8. HiddenUnmet'
    BY <1>4, <1>5, <1>6, <2>2 DEF HiddenUnmet
  <2> QED BY <1>6, <1>10, <2>3, <2>4, <2>5, <2>6, <2>7, <2>8
<1>13. CASE ~attempts[a].met /\ all
  <2>1. \A p \in Nodes : session[p].att = a
    <3>1. \A p \in Nodes : p # n => session[p] = [att |-> a, begun |-> TRUE]
      BY <1>1, <1>13, Zenon DEF all
    <3> QED BY <3>1
  <2>2. \A s \in Proposed : ~Known(s)
    <3> SUFFICES ASSUME NEW s \in Proposed, Known(s) PROVE FALSE
      OBVIOUS
    <3>1. s # a
      BY <1>13 DEF SignedBars
    <3>2. Barred(a)
      BY <1>1, <3>1 DEF SignedBars
    <3> QED BY <2>1, <3>2 DEF Barred
  <2> HIDE DEF a
  <2>3. SetupsOnce'
    <3> SUFFICES ASSUME NEW x \in msgs', x.type = "setup"
                 PROVE  /\ x.from = attempts'[x.att].coord /\ x.to # x.from /\ ~attempts'[x.att].met
                        /\ session'[x.to].att # x.att /\ ~Joining(x.to, x.att)'
      BY DEF SetupsOnce
    <3>1. x \in msgs /\ x.to \in Nodes /\ x.att \in Proposed
      BY <1>11
    <3>2. x.att # a
      BY <2>1, <3>1 DEF SetupsOnce
    <3>3. /\ x.from = attempts[x.att].coord /\ x.to # x.from /\ ~attempts[x.att].met
          /\ session[x.to].att # x.att /\ ~Joining(x.to, x.att)
      BY <3>1 DEF SetupsOnce
    <3>4. attempts'[x.att].coord = attempts[x.att].coord /\ attempts'[x.att].met = attempts[x.att].met
      BY <1>8, <3>1, <3>2
    <3> QED BY <1>4, <1>6, <3>1, <3>3, <3>4
  <2>4. JoinsOnce'
    <3> SUFFICES ASSUME NEW p \in Nodes, NEW b \in Proposed, Joining(p, b)'
                 PROVE  p # attempts'[b].coord /\ ~attempts'[b].met /\ session'[p].att # b
      BY <1>3 DEF JoinsOnce
    <3>1. Joining(p, b) /\ b # a
      BY <1>6, <2>1 DEF JoinsOnce
    <3> QED BY <1>4, <1>8, <3>1 DEF JoinsOnce
  <2>5. OneCandidate'
    BY <1>3, <1>4, <1>7, <2>1, <2>2 DEF OneCandidate, Candidate
  <2>6. SignedBars'
    BY <1>3, <1>7, <2>2 DEF SignedBars
  <2>7. LiveBars'
    <3> SUFFICES ASSUME NEW p \in Nodes, NEW b \in Proposed, Joining(p, b)' PROVE Barred(b)'
      BY <1>3 DEF LiveBars
    <3>1. Joining(p, b) /\ b # a
      BY <1>6, <2>1 DEF JoinsOnce
    <3> DEFINE c == attempts[b].coord
    <3>2. c \in Nodes
      BY Typed DEF AttemptRecords
    <3>3. session[c].att # b /\ ~Joining(c, b)
      BY <2>1, <3>1, <3>2 DEF JoinsOnce
    <3>4. Barred(b)
      BY <3>2, <3>3 DEF Barred
    <3> QED BY <1>9, <3>4
  <2>8. HiddenUnmet'
    <3> SUFFICES ASSUME NEW p \in Nodes, Hidden(p)' PROVE FALSE
      BY DEF HiddenUnmet
    <3>1. Known(row[p].sig) /\ row[p].sig \in Proposed
      BY <1>6, Typed DEF Hidden, Known
    <3> QED BY <2>2, <3>1
  <2> QED BY <1>6, <1>10, <2>3, <2>4, <2>5, <2>6, <2>7, <2>8
<1> QED BY <1>12, <1>13

\* Node n stores and sends the signature of the attempt it finishes.
Finishes(n) ==
  /\ Alone(n) /\ attempts' = attempts /\ Live(n)
  /\ session'[n] = NoSession /\ busy'[n] = busy[n]
  /\ row'[n].sig = session[n].att /\ row'[n].status # "IN_PROGRESS" /\ Consistent(n)'
  /\ \A x \in msgs' \ msgs : x.type = "signature" /\ x.att = session[n].att

LEMMA FinishesKeeps ==
  ASSUME FlowInv, FlowInv', SignInv, NEW n \in Nodes, Finishes(n) PROVE SignInv'
<1> USE DEF SignInv
<1> DEFINE a == session[n].att
<1>0. Proposed' = Proposed /\ attempts' = attempts
  BY DEF Finishes, Proposed
<1>1. a \in Proposed /\ a # NoAttempt /\ Candidate(a) /\ attempts[a].met
  BY Typed DEF Finishes, Live, Candidate
<1>2. ASSUME NEW p \in Nodes
      PROVE  /\ session'[p] \in {session[p], NoSession} /\ (p # n => session'[p] = session[p])
             /\ \A b : Joining(p, b)' <=> Joining(p, b)
  BY DEF Finishes, Alone, Joining
<1>3. \A s \in Proposed : Known(s)' => s = a
  <2> SUFFICES ASSUME NEW s \in Proposed, Known(s)', s # a PROVE FALSE
    OBVIOUS
  <2>1. Known(s)
    <3>1. \A p \in Nodes : row'[p].sig = s => row[p].sig = s
      BY DEF Finishes, Alone
    <3>2. \A x \in msgs' : x.att = s => x \in msgs
      BY DEF Finishes
    <3> QED BY <3>1, <3>2 DEF Known
  <2> QED BY <1>1, <2>1 DEF OneCandidate, Candidate
<1>4. \A p \in Nodes : Live(p)' => Live(p) /\ session'[p].att = a
  <2> SUFFICES ASSUME NEW p \in Nodes, Live(p)' PROVE Live(p) /\ session'[p].att = a
    OBVIOUS
  <2>1. Live(p) /\ session'[p] = session[p]
    BY <1>0, <1>2 DEF Live
  <2>2. session[p].att \in Proposed /\ Candidate(session[p].att)
    BY <2>1, Typed DEF Live, Candidate
  <2> QED BY <1>1, <2>1, <2>2 DEF OneCandidate
<1>5. \A b \in Proposed : Barred(b) => Barred(b)'
  <2> SUFFICES ASSUME NEW b \in Proposed, Barred(b) PROVE Barred(b)'
    OBVIOUS
  <2>1. session'[n].att # b /\ row'[n].sig # NoAttempt /\ Alone(n)
    BY <1>1, Typed DEF Finishes
  <2> QED BY <1>0, <1>2, <2>1, BarredStays
<1>6. AllTakePart'
  BY <1>0 DEF AllTakePart
<1>7. SetupsOnce'
  <2> SUFFICES ASSUME NEW x \in msgs', x.type = "setup"
               PROVE  /\ x.from = attempts[x.att].coord /\ x.to # x.from /\ ~attempts[x.att].met
                      /\ session'[x.to].att # x.att /\ ~Joining(x.to, x.att)'
    BY <1>0 DEF SetupsOnce
  <2>1. x \in msgs
    BY DEF Finishes
  <2>2. x.to \in Nodes /\ x.att \in Proposed
    BY <2>1, Typed
  <2> QED BY <1>2, <2>1, <2>2, Typed, SMTT(20) DEF SetupsOnce
<1>8. JoinsOnce'
  <2> SUFFICES ASSUME NEW p \in Nodes, NEW b \in Proposed, Joining(p, b)'
               PROVE  p # attempts[b].coord /\ ~attempts[b].met /\ session'[p].att # b
    BY <1>0 DEF JoinsOnce
  <2> QED BY <1>2, Typed, SMTT(20) DEF JoinsOnce
<1>9. OneCandidate'
  BY <1>0, <1>3, <1>4 DEF OneCandidate, Candidate
<1>10. SignedBars'
  <2> SUFFICES ASSUME NEW b \in Proposed, b # a PROVE Barred(b)'
    BY <1>0, <1>1, <1>3 DEF SignedBars, Finishes
  <2>1. CASE Joining(n, b)
    BY <1>5, <2>1 DEF LiveBars, Finishes
  <2>2. CASE ~Joining(n, b)
    <3>1. session'[n].att # b /\ ~Joining(n, b)' /\ row'[n].sig # NoAttempt
      BY <1>1, <1>2, <2>2, Typed DEF Finishes
    <3> QED BY <3>1 DEF Barred
  <2> QED BY <2>1, <2>2
<1>11. LiveBars'
  BY <1>0, <1>2, <1>4, <1>5 DEF LiveBars
<1>12. HiddenUnmet'
  <2> SUFFICES ASSUME NEW p \in Nodes, Hidden(p)'
               PROVE  busy'[p].doing = "expiry" \/ (session'[p] # NoSession /\ ~Live(p)')
    BY DEF HiddenUnmet
  <2>1. p # n
    BY DEF Finishes, Hidden
  <2> QED BY <1>4, <2>1 DEF Finishes, Alone, HiddenUnmet, Hidden
<1>13. \A p \in Nodes : Consistent(p)'
  BY OthersConsistent DEF Finishes
<1> QED BY <1>6, <1>7, <1>8, <1>9, <1>10, <1>11, <1>12, <1>13
-----------------------------------------------------------------------------
\* Node n proposes an attempt to all nodes, and joins it or not.
Proposes(n) ==
  LET a == Len(attempts) + 1 IN
  /\ Alone(n)
  /\ \E k : attempts' = Append(attempts, [coord |-> n, parts |-> Nodes, nonce |-> k, met |-> FALSE])
  /\ row'[n].sig = row[n].sig /\ busy'[n] = busy[n] /\ Consistent(n)'
  /\ \/ session'[n] = session[n] /\ row'[n].status # "IN_PROGRESS"
     \/ session'[n] = NewSession(a) /\ row[n].sig = NoAttempt
  /\ \A x \in msgs' \ msgs : x.type = "setup" /\ x.from = n /\ x.to # n /\ x.att = a

LEMMA ProposesKeeps ==
  ASSUME FlowInv, FlowInv', SignInv, NEW n \in Nodes, Proposes(n) PROVE SignInv'
<1> USE DEF SignInv
<1>0. PICK a : a = Len(attempts) + 1
  OBVIOUS
<1>1. PICK k : attempts' = Append(attempts, [coord |-> n, parts |-> Nodes, nonce |-> k, met |-> FALSE])
  BY Zenon DEF Proposes
<1>2. attempts \in Seq(AttemptRecords) /\ Len(attempts) \in Nat
  BY Typed DEF FlowInv, NodeTypes
<1>3. /\ Proposed' = Proposed \cup {a} /\ a \notin Proposed /\ a # NoAttempt
      /\ \A b \in Proposed : attempts'[b] = attempts[b]
      /\ attempts'[a] = [coord |-> n, parts |-> Nodes, nonce |-> k, met |-> FALSE]
  <2>1. Len(attempts') = a
    BY <1>0, <1>1, <1>2
  <2>2. \A b \in Proposed : attempts'[b] = attempts[b]
    BY <1>1, <1>2, SMTT(20) DEF Proposed
  <2>3. attempts'[a] = [coord |-> n, parts |-> Nodes, nonce |-> k, met |-> FALSE]
    BY <1>0, <1>1, <1>2
  <2>4. Proposed' = Proposed \cup {a} /\ a \notin Proposed /\ a # NoAttempt
    BY <1>0, <1>2, <2>1 DEF Proposed, NoAttempt
  <2> QED BY <2>2, <2>3, <2>4
<1>4. attempts'[a].coord = n /\ attempts'[a].parts = Nodes /\ ~attempts'[a].met
  BY <1>3
<1>5. /\ \A p \in Nodes : p # n => session'[p] = session[p]
      /\ \A p \in Nodes : busy'[p] = busy[p] /\ row'[p].sig = row[p].sig
      /\ session'[n] = session[n] \/ (session'[n].att = a /\ row[n].sig = NoAttempt)
      /\ \A p \in Nodes : session'[p] = session[p] \/ session'[p].att = a
  <2>1. \A p \in Nodes : p # n => session'[p] = session[p] /\ busy'[p] = busy[p] /\ row'[p] = row[p]
    BY DEF Proposes, Alone
  <2>2. busy'[n] = busy[n] /\ row'[n].sig = row[n].sig
    BY DEF Proposes
  <2>3. session'[n] = session[n] \/ (session'[n].att = a /\ row[n].sig = NoAttempt)
    BY <1>0 DEF Proposes, NewSession
  <2> QED BY <2>1, <2>2, <2>3
<1>6. \A x \in msgs' : x \in msgs \/ (x.type = "setup" /\ x.from = n /\ x.to # n /\ x.att = a)
  BY <1>0 DEF Proposes
<1>7. \A p \in Nodes : \A b : Joining(p, b)' <=> Joining(p, b)
  BY <1>5 DEF Joining
<1>8. \A p \in Nodes : session[p].att # a /\ ~Joining(p, a)
  BY <1>3, Typed DEF Joining
<1>9. \A s : Known(s)' => Known(s)
  BY <1>5, <1>6 DEF Known
<1>10. \A s : Known(s) => s \in Proposed
  <2>1. \A p \in Nodes : row[p].sig \in Proposed \cup {NoAttempt}
    BY Typed
  <2>2. \A x \in msgs : x.att \in Proposed \cup {NoAttempt}
    BY Typed
  <2> QED BY <2>1, <2>2 DEF Known
<1>11. \A p \in Nodes : Live(p)' => Live(p) /\ session'[p] = session[p]
  <2> SUFFICES ASSUME NEW p \in Nodes, Live(p)' PROVE Live(p) /\ session'[p] = session[p]
    OBVIOUS
  <2>1. session'[p].att # a
    BY <1>4 DEF Live
  <2>2. session'[p] = session[p] /\ session[p] # NoSession
    BY <1>5, <2>1 DEF Live
  <2> QED BY <1>3, <2>2, Typed DEF Live
<1>12. \A b \in Proposed : Barred(b) => Barred(b)'
  <2> SUFFICES ASSUME NEW b \in Proposed, Barred(b) PROVE Barred(b)'
    OBVIOUS
  <2>1. session[n].att # b => session'[n].att # b
    BY <1>3, <1>5, Zenon
  <2>2. Alone(n)
    BY Zenon DEF Proposes
  <2> QED BY <1>3, <1>5, <1>7, <2>1, <2>2, BarredStays, Zenon
<1>13. AllTakePart'
  BY <1>3, <1>4 DEF AllTakePart
<1>14. SetupsOnce'
  <2> SUFFICES ASSUME NEW x \in msgs', x.type = "setup"
               PROVE  /\ x.from = attempts'[x.att].coord /\ x.to # x.from /\ ~attempts'[x.att].met
                      /\ session'[x.to].att # x.att /\ ~Joining(x.to, x.att)'
    BY DEF SetupsOnce
  <2>1. CASE x \in msgs
    <3>1. x.to \in Nodes /\ x.att \in Proposed
      BY <2>1, Typed
    <3>2. x.att # a /\ attempts'[x.att] = attempts[x.att]
      BY <1>3, <3>1
    <3> QED BY <1>5, <1>7, <2>1, <3>1, <3>2 DEF SetupsOnce
  <2>2. CASE x \notin msgs
    <3>1. x.from = n /\ x.to # n /\ x.att = a
      BY <1>6, <2>2
    <3>2. x.to \in Nodes
      BY DEF FlowInv, NodeTypes, Messages
    <3> QED BY <1>4, <1>5, <1>7, <1>8, <3>1, <3>2
  <2> QED BY <2>1, <2>2
<1>15. JoinsOnce'
  <2> SUFFICES ASSUME NEW p \in Nodes, NEW b \in Proposed', Joining(p, b)'
               PROVE  p # attempts'[b].coord /\ ~attempts'[b].met /\ session'[p].att # b
    BY DEF JoinsOnce
  <2>1. Joining(p, b) /\ b \in Proposed /\ b # a
    BY <1>3, <1>7, <1>8
  <2>2. p # attempts[b].coord /\ ~attempts[b].met /\ session[p].att # b
    BY <2>1 DEF JoinsOnce
  <2>3. attempts'[b] = attempts[b]
    BY <1>3, <2>1
  <2> QED BY <1>5, <2>1, <2>2, <2>3
<1>16. OneCandidate'
  <2> SUFFICES ASSUME NEW s, Candidate(s)' PROVE Candidate(s) /\ s \in Proposed
    BY DEF OneCandidate
  <2>1. CASE Known(s)'
    BY <1>9, <1>10, <2>1 DEF Candidate
  <2>2. CASE \E p \in Nodes : Live(p)' /\ session'[p].att = s
    BY <1>11, <2>2, Typed DEF Candidate, Live
  <2> QED BY <2>1, <2>2 DEF Candidate
<1>17. SignedBars'
  <2> SUFFICES ASSUME NEW s, Known(s)'
               PROVE  /\ attempts'[s].met
                      /\ \E m \in Nodes : row'[m].sig = s
                      /\ \A b \in Proposed' : b # s => Barred(b)'
    BY DEF SignedBars
  <2>1. Known(s) /\ s \in Proposed
    BY <1>9, <1>10
  <2>2. PICK m \in Nodes : row[m].sig = s
    BY <2>1 DEF SignedBars
  <2>3. Barred(a)'
    <3>1. session'[m].att # a
      BY <1>5, <1>8, <2>1, <2>2 DEF Known
    <3> QED BY <1>5, <1>7, <1>8, <2>1, <2>2, <3>1 DEF Barred, Known
  <2>4. attempts'[s].met /\ row'[m].sig = s
    BY <1>3, <1>5, <2>1, <2>2, Zenon DEF SignedBars
  <2>5. \A b \in Proposed : b # s => Barred(b)'
    BY <1>12, <2>1, Zenon DEF SignedBars
  <2> QED BY <1>3, <2>3, <2>4, <2>5
<1>18. LiveBars'
  <2> SUFFICES ASSUME NEW p \in Nodes, NEW b \in Proposed', Live(p)', Joining(p, b)' PROVE Barred(b)'
    BY DEF LiveBars
  <2>1. Joining(p, b) /\ b \in Proposed /\ Live(p)
    BY <1>3, <1>7, <1>8, <1>11
  <2> QED BY <1>12, <2>1 DEF LiveBars
<1>19. HiddenUnmet'
  <2> SUFFICES ASSUME NEW p \in Nodes, Hidden(p)'
               PROVE  busy'[p].doing = "expiry" \/ (session'[p] # NoSession /\ ~Live(p)')
    BY DEF HiddenUnmet
  <2>1. CASE p = n
    BY <1>5, <2>1 DEF Proposes, Hidden
  <2>2. CASE p # n
    BY <1>5, <1>11, <2>2 DEF Proposes, Alone, HiddenUnmet, Hidden
  <2> QED BY <2>1, <2>2
<1>20. \A p \in Nodes : Consistent(p)'
  BY OthersConsistent, Zenon DEF Proposes
<1> QED BY <1>13, <1>14, <1>15, <1>16, <1>17, <1>18, <1>19, <1>20
=============================================================================
