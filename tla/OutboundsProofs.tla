---------------------------- MODULE OutboundsProofs --------------------------
(***************************************************************************)
(* Proofs about UExecutor for any keys, any subset of the types and any    *)
(* number of outbounds, and about Outbounds for any validators, eligible   *)
(* sets, expiry and height.                                                *)
(*                                                                         *)
(* UExecutor.  A UTX is born by one of three actions and then only rescued *)
(* and settled, so the proofs are about single UTX records: what they are  *)
(* born as (the lemmas on ExecuteInbound) and what the two later steps     *)
(* keep.  The solvency of the vaults counts the records.                   *)
(***************************************************************************)
EXTENDS Outbounds, FiniteSetTheorems, TLAPS

Steps == [step : {"deploy", "deposit", "call", "rescue"}, ok : BOOLEAN]

\* A UTX as it is born: everything is PENDING, a revert stands alone and only when no
\* deposit succeeded, and a CEA inbound has its deposit, if any, first.
Born(u) ==
    /\ u \in UTX
    /\ \A i \in DOMAIN u.outs : u.outs[i].status = "PENDING" /\ u.outs[i].type # "RESCUE_FUNDS"
    /\ HasRevert(u) =>
          /\ DOMAIN u.outs = {1}
          /\ \A j \in DOMAIN u.pctx : u.pctx[j].step = "deposit" => ~u.pctx[j].ok
    /\ u.inb.cea => \A j \in DOMAIN u.pctx : u.pctx[j].step = "deposit" => j = 1

\* A mapped sequence of emitted types is a sequence of open outbounds.
LEMMA OutsType ==
    ASSUME NEW types \in Seq({"FUNDS", "PAYLOAD"})
    PROVE  /\ Outs(types) \in Seq(Outbound)
           /\ DOMAIN Outs(types) = DOMAIN types
           /\ \A i \in DOMAIN types : Outs(types)[i] = Out(types[i])
<1>1. /\ Outs(types) = [i \in 1 .. Len(types) |-> Out(types[i])]
      /\ DOMAIN types = 1 .. Len(types) /\ Len(types) \in Nat
  BY DEF Outs
<1>2. \A i \in 1 .. Len(types) : Out(types[i]) \in Outbound
  <2> SUFFICES ASSUME NEW i \in 1 .. Len(types) PROVE Out(types[i]) \in Outbound
    OBVIOUS
  <2>1. types[i] \in {"FUNDS", "PAYLOAD"}
    OBVIOUS
  <2> QED BY <2>1 DEF Out, Outbound
<1> HIDE DEF Out, Outbound
<1> QED BY <1>1, <1>2

\* ExecuteInbound and handleFailedInboundValidation: whatever the execution meets, the
\* UTX it leaves is a Born one.
LEMMA ExecutedIsBorn ==
    ASSUME NEW inb \in Inbound, NEW w \in World
    PROVE  Born(ExecuteInbound(inb, w).utx)
<1> DEFINE u == ExecuteInbound(inb, w).utx
           dep == IF Deploys(inb, w) THEN PCTx("deploy", TRUE) ELSE <<>>
           fund == IF inb.funded \/ ~Arrives(inb, w) THEN PCTx("deposit", Arrives(inb, w)) ELSE <<>>
           cal == IF Calls(inb, w) THEN PCTx("call", CallSucceeds(inb, w)) ELSE <<>>
           rev == IF Reverts(inb, w) THEN <<Out("INBOUND_REVERT")>> ELSE <<>>
           att == Outs(Attached(inb, w))
<1>1. u = [inb |-> inb, pctx |-> dep \o fund \o cal, outs |-> att \o rev,
           err |-> ~ToContract(inb, w) /\ ~w.attach /\ Emitted(inb, w) # <<>>]
  BY DEF ExecuteInbound
<1>2. /\ Arrives(inb, w) \in BOOLEAN /\ Calls(inb, w) \in BOOLEAN
      /\ CallSucceeds(inb, w) \in BOOLEAN /\ Deploys(inb, w) \in BOOLEAN
      /\ Reverts(inb, w) \in BOOLEAN
  BY DEF Arrives, Calls, CallSucceeds, Deploys, Reverts
<1>3. dep \in Seq(Steps) /\ fund \in Seq(Steps) /\ cal \in Seq(Steps)
  <2>1. \A st \in {"deploy", "deposit", "call"}, b \in BOOLEAN : PCTx(st, b) \in Seq(Steps)
    BY DEF PCTx, Steps
  <2>2. <<>> \in Seq(Steps)
    OBVIOUS
  <2> QED BY <2>1, <2>2, <1>2, Zenon
<1>4. Attached(inb, w) \in Seq({"FUNDS", "PAYLOAD"})
  <2>1. w.emits \in {<<>>, <<"FUNDS">>, <<"PAYLOAD">>}
    BY DEF World
  <2>2. w.emits \in Seq({"FUNDS", "PAYLOAD"}) /\ <<>> \in Seq({"FUNDS", "PAYLOAD"})
    <3>1. CASE w.emits = <<>>
      BY <3>1
    <3>2. CASE w.emits = <<"FUNDS">>
      BY <3>2
    <3>3. CASE w.emits = <<"PAYLOAD">>
      BY <3>3
    <3> QED BY <2>1, <3>1, <3>2, <3>3
  <2> QED BY <2>2 DEF Attached, Emitted
<1>5. /\ att \in Seq(Outbound) /\ DOMAIN att = DOMAIN Attached(inb, w)
      /\ \A i \in DOMAIN att : att[i].status = "PENDING" /\ att[i].type \in {"FUNDS", "PAYLOAD"}
  <2>1. /\ att \in Seq(Outbound) /\ DOMAIN att = DOMAIN Attached(inb, w)
        /\ \A i \in DOMAIN Attached(inb, w) : att[i] = Out(Attached(inb, w)[i])
    BY <1>4, OutsType
  <2>2. \A i \in DOMAIN Attached(inb, w) : Attached(inb, w)[i] \in {"FUNDS", "PAYLOAD"}
    BY <1>4
  <2> QED BY <2>1, <2>2 DEF Out
<1>6. rev \in Seq(Outbound)
  <2>1. Out("INBOUND_REVERT") \in Outbound
    BY DEF Out, Outbound
  <2> QED BY <2>1
<1>7. Reverts(inb, w) => Attached(inb, w) = <<>>
  BY DEF Reverts, Attached, Emitted, CallSucceeds, Calls
<1>a. /\ rev = IF Reverts(inb, w) THEN <<Out("INBOUND_REVERT")>> ELSE <<>>
      /\ Reverts(inb, w) => att = <<>>
  BY <1>7, <1>5
<1>b. /\ fund = IF inb.funded \/ ~Arrives(inb, w) THEN PCTx("deposit", Arrives(inb, w)) ELSE <<>>
      /\ cal = IF Calls(inb, w) THEN PCTx("call", CallSucceeds(inb, w)) ELSE <<>>
      /\ dep = IF Deploys(inb, w) THEN PCTx("deploy", TRUE) ELSE <<>>
  OBVIOUS
<1>c. ExecuteInbound(inb, w).utx = u
  OBVIOUS
<1> HIDE DEF u, dep, fund, cal, rev, att
<1>8. u \in UTX
  <2>1. (~ToContract(inb, w) /\ ~w.attach /\ Emitted(inb, w) # <<>>) \in BOOLEAN
    OBVIOUS
  <2>2. dep \o fund \o cal \in Seq(Steps) /\ att \o rev \in Seq(Outbound)
    BY <1>3, <1>5, <1>6
  <2> QED BY <1>1, <2>1, <2>2 DEF UTX, Steps
<1>9. \A i \in DOMAIN u.outs : u.outs[i].status = "PENDING" /\ u.outs[i].type # "RESCUE_FUNDS"
  <2>1. CASE Reverts(inb, w)
    <3>1. att \o rev = <<Out("INBOUND_REVERT")>>
      BY <2>1, <1>a
    <3> QED BY <3>1, <1>1 DEF Out
  <2>2. CASE ~Reverts(inb, w)
    <3>1. att \o rev = att
      BY <2>2, <1>a, <1>5
    <3> QED BY <3>1, <1>1, <1>5, Zenon
  <2> QED BY <2>1, <2>2
<1>10. HasRevert(u) => Reverts(inb, w)
  <2> SUFFICES ASSUME ~Reverts(inb, w) PROVE ~HasRevert(u)
    OBVIOUS
  <2>1. att \o rev = att
    BY <1>a, <1>5
  <2> QED BY <2>1, <1>1, <1>5 DEF HasRevert
<1>11. Reverts(inb, w) => DOMAIN u.outs = {1}
  <2> SUFFICES ASSUME Reverts(inb, w) PROVE DOMAIN u.outs = {1}
    OBVIOUS
  <2>1. att \o rev = <<Out("INBOUND_REVERT")>>
    BY <1>a
  <2> QED BY <2>1, <1>1
<1>12. Reverts(inb, w) => \A j \in DOMAIN u.pctx : u.pctx[j].step = "deposit" => ~u.pctx[j].ok
  <2> SUFFICES ASSUME Reverts(inb, w) PROVE \A j \in DOMAIN u.pctx : u.pctx[j].step = "deposit" => ~u.pctx[j].ok
    OBVIOUS
  <2>1. ~Arrives(inb, w) /\ ~Calls(inb, w)
    BY DEF Reverts, Calls
  <2>2. fund = <<[step |-> "deposit", ok |-> FALSE]>> /\ cal = <<>>
    BY <2>1, <1>b, <1>2, Zenon DEF PCTx
  <2>3. dep \o fund \o cal = dep \o fund
    BY <2>2, <1>3
  <2>4. \A j \in DOMAIN dep : dep[j].step = "deploy"
    BY <1>b DEF PCTx
  <2>5. \A j \in DOMAIN fund : ~fund[j].ok
    BY <2>2
  <2> QED BY <2>3, <2>4, <2>5, <1>1, <1>3
<1>13. inb.cea => \A j \in DOMAIN u.pctx : u.pctx[j].step = "deposit" => j = 1
  <2> SUFFICES ASSUME inb.cea PROVE \A j \in DOMAIN u.pctx : u.pctx[j].step = "deposit" => j = 1
    OBVIOUS
  <2>1. dep = <<>>
    BY <1>b DEF Deploys
  <2>2. dep \o fund \o cal = fund \o cal
    BY <2>1, <1>3
  <2>3. Len(fund) <= 1
    BY <1>b DEF PCTx
  <2>4. \A j \in DOMAIN cal : cal[j].step = "call"
    BY <1>b DEF PCTx
  <2> QED BY <2>2, <2>3, <2>4, <1>1, <1>3
<1>14. u.inb = inb
  BY <1>1
<1> QED BY <1>c, <1>14, <1>8, <1>9, <1>10, <1>11, <1>12, <1>13 DEF Born

\* RevertStuckInbound and a Push Chain transaction leave Born UTXs too.
LEMMA OthersAreBorn ==
    /\ \A inb \in Inbound : Born(AdminRevert(inb))
    /\ \A types \in PcEmits :
          Born([inb |-> NoInbound, pctx |-> PCTx("call", TRUE), outs |-> Outs(types), err |-> FALSE])
<1>1. ASSUME NEW inb \in Inbound PROVE Born(AdminRevert(inb))
  <2>1. Out("INBOUND_REVERT") \in Outbound /\ [step |-> "deposit", ok |-> FALSE] \in Steps
    BY DEF Out, Outbound, Steps
  <2>2. <<Out("INBOUND_REVERT")>> \in Seq(Outbound) /\ PCTx("deposit", FALSE) \in Seq(Steps)
    BY <2>1 DEF PCTx
  <2>3. AdminRevert(inb) \in UTX
    BY <2>2, Zenon DEF AdminRevert, UTX, Steps
  <2> QED BY <2>3 DEF AdminRevert, Born, HasRevert, Out, PCTx
<1>2. ASSUME NEW types \in PcEmits
      PROVE Born([inb |-> NoInbound, pctx |-> PCTx("call", TRUE), outs |-> Outs(types), err |-> FALSE])
  <2> DEFINE u == [inb |-> NoInbound, pctx |-> PCTx("call", TRUE), outs |-> Outs(types), err |-> FALSE]
  <2>1. types \in Seq({"FUNDS", "PAYLOAD"})
    <3>1. CASE types = <<"FUNDS">>
      BY <3>1
    <3>2. CASE types = <<"FUNDS", "PAYLOAD">>
      BY <3>2
    <3> QED BY <3>1, <3>2 DEF PcEmits
  <2>2. /\ Outs(types) \in Seq(Outbound) /\ DOMAIN Outs(types) = DOMAIN types
        /\ \A i \in DOMAIN types : Outs(types)[i] = Out(types[i]) /\ types[i] \in {"FUNDS", "PAYLOAD"}
    BY <2>1, OutsType
  <2>3. [step |-> "call", ok |-> TRUE] \in Steps
    BY DEF Steps
  <2>4. PCTx("call", TRUE) \in Seq(Steps)
    BY <2>3 DEF PCTx
  <2>5. u \in UTX
    BY <2>2, <2>4, Zenon DEF UTX, Steps
  <2>6. \A i \in DOMAIN u.outs : u.outs[i].status = "PENDING" /\ u.outs[i].type \in {"FUNDS", "PAYLOAD"}
    BY <2>2 DEF Out
  <2>7. ~u.inb.cea
    BY DEF NoInbound
  <2> QED BY <2>5, <2>6, <2>7, Zenon DEF Born, HasRevert
<1> QED BY <1>1, <1>2, Zenon

(***************************************************************************)
(* Solvency.  A funded inbound locks one unit.  The unit is claimed by the *)
(* supply or by an outbound that moves it, or it is free: no deposit       *)
(* succeeded and every return failed.  A rescue claims a free unit, so     *)
(* what is invariant counts the free ones too.                             *)
(***************************************************************************)
NoDeposit(u) == \A j \in DOMAIN u.pctx : u.pctx[j].step = "deposit" => ~u.pctx[j].ok

MovesIn(u, i) == IF u.inb # NoInbound /\ IsReturn(u.outs[i])
                 THEN u.inb.funded ELSE u.outs[i].type = "FUNDS"

IsFree(u) ==
    /\ u.inb.funded
    /\ NoDeposit(u)
    /\ \A i \in DOMAIN u.outs : IsReturn(u.outs[i]) => u.outs[i].status = "REVERTED"

One(b) == IF b THEN 1 ELSE 0

\* A UTX born with d more units in circulation claims no more than it locks.
AccountOK(u, d) ==
    /\ \A i, j \in DOMAIN u.outs : MovesIn(u, i) /\ MovesIn(u, j) => i = j
    /\ d + One(\E i \in DOMAIN u.outs : MovesIn(u, i)) + One(IsFree(u)) <= One(u.inb.funded)

\* Sequences of at most one emitted type.
LEMMA Emissions ==
    ASSUME NEW types \in {<<>>, <<"FUNDS">>, <<"PAYLOAD">>}
    PROVE  /\ DOMAIN types \subseteq {1}
           /\ (\E i \in DOMAIN types : types[i] = "FUNDS") => types = <<"FUNDS">>
           /\ Units(types) \in {0, 1} /\ types \in Seq({"FUNDS", "PAYLOAD"})
<1>1. CASE types = <<>>
  BY <1>1 DEF Units
<1>2. CASE types = <<"FUNDS">>
  BY <1>2 DEF Units
<1>3. CASE types = <<"PAYLOAD">>
  BY <1>3 DEF Units
<1> QED BY <1>1, <1>2, <1>3

\* ExecuteInbound mints what the inbound locked or gives it back, and burns what it sends.
LEMMA ExecutedAccount ==
    ASSUME NEW inb \in Inbound, NEW w \in World
    PROVE  LET x == ExecuteInbound(inb, w) IN AccountOK(x.utx, x.mint - x.burn)
<1> DEFINE u == ExecuteInbound(inb, w).utx
           dep == IF Deploys(inb, w) THEN PCTx("deploy", TRUE) ELSE <<>>
           fund == IF inb.funded \/ ~Arrives(inb, w) THEN PCTx("deposit", Arrives(inb, w)) ELSE <<>>
           cal == IF Calls(inb, w) THEN PCTx("call", CallSucceeds(inb, w)) ELSE <<>>
           rev == IF Reverts(inb, w) THEN <<Out("INBOUND_REVERT")>> ELSE <<>>
           att == Outs(Attached(inb, w))
           mint == ExecuteInbound(inb, w).mint
           burn == ExecuteInbound(inb, w).burn
<1>1. /\ u.inb = inb /\ u.pctx = dep \o fund \o cal /\ u.outs = att \o rev
      /\ mint = One(Arrives(inb, w) /\ inb.funded) /\ burn = Units(Emitted(inb, w))
  BY Zenon DEF ExecuteInbound, One
<1>2. inb # NoInbound /\ inb.funded \in BOOLEAN
  BY TypesAssumption DEF Inbound, NoInbound
<1>3. /\ Emitted(inb, w) \in {<<>>, <<"FUNDS">>, <<"PAYLOAD">>}
      /\ Attached(inb, w) \in {<<>>, Emitted(inb, w)}
      /\ ~Arrives(inb, w) => Emitted(inb, w) = <<>>
  BY DEF Emitted, Attached, World, CallSucceeds, Calls
<1>4. Attached(inb, w) \in {<<>>, <<"FUNDS">>, <<"PAYLOAD">>}
  BY <1>3
<1>5. /\ att \in Seq(Outbound) /\ DOMAIN att = DOMAIN Attached(inb, w)
      /\ \A i \in DOMAIN att : att[i] = Out(Attached(inb, w)[i])
  BY <1>4, Emissions, OutsType, Zenon
<1>6. burn \in {0, 1} /\ (Emitted(inb, w) = <<>> => burn = 0) /\ (Emitted(inb, w) = <<"FUNDS">> => burn = 1)
  BY <1>1, <1>3, Emissions DEF Units
<1>7. inb.funded /\ Arrives(inb, w) => ~NoDeposit(u)
  <2> SUFFICES ASSUME inb.funded, Arrives(inb, w) PROVE ~NoDeposit(u)
    OBVIOUS
  <2>1. fund = <<[step |-> "deposit", ok |-> TRUE]>>
    BY Zenon DEF PCTx
  <2>2. dep \in Seq(Steps) /\ cal \in Seq(Steps) /\ fund \in Seq(Steps)
    <3>1. \A st \in {"deploy", "deposit", "call"}, b \in BOOLEAN : PCTx(st, b) \in Seq(Steps)
      BY DEF PCTx, Steps
    <3>2. CallSucceeds(inb, w) \in BOOLEAN /\ Arrives(inb, w) \in BOOLEAN
      BY DEF CallSucceeds, Calls, Arrives
    <3>3. <<>> \in Seq(Steps)
      OBVIOUS
    <3> QED BY <3>1, <3>2, <3>3, Zenon
  <2> HIDE DEF dep, cal, fund
  <2>3. Len(dep) + 1 \in DOMAIN (dep \o fund \o cal) /\ (dep \o fund \o cal)[Len(dep) + 1] = fund[1]
    BY <2>1, <2>2
  <2> QED BY <1>1, <2>1, <2>3 DEF NoDeposit
<1>8. CASE Reverts(inb, w)
  <2>1. ~Arrives(inb, w)
    BY <1>8 DEF Reverts
  <2>2. mint = 0 /\ burn = 0 /\ Attached(inb, w) = <<>>
    BY <1>1, <1>3, <1>6, <2>1 DEF One
  <2>3. u.outs = <<Out("INBOUND_REVERT")>>
    <3>1. att = <<>> /\ rev = <<Out("INBOUND_REVERT")>>
      BY <1>5, <1>8, <2>2
    <3> HIDE DEF att, rev
    <3> QED BY <1>1, <3>1
  <2>4. /\ DOMAIN u.outs = {1} /\ u.outs[1].type = "INBOUND_REVERT" /\ u.outs[1].status = "PENDING"
    BY <2>3 DEF Out
  <2> HIDE DEF u, mint, burn
  <2>5. ~IsFree(u) /\ (MovesIn(u, 1) <=> inb.funded)
    BY <1>1, <1>2, <2>4 DEF IsFree, MovesIn, IsReturn
  <2>6. AccountOK(u, mint - burn)
    BY <1>1, <1>2, <2>2, <2>4, <2>5 DEF AccountOK, One
  <2> QED BY <2>6 DEF u, mint, burn
<1>9. CASE ~Reverts(inb, w)
  <2>1. u.outs = att
    BY <1>1, <1>5, <1>9
  <2>2. \A i \in DOMAIN u.outs : MovesIn(u, i) <=> Attached(inb, w)[i] = "FUNDS"
    <3>1. \A i \in DOMAIN u.outs : u.outs[i].type = Attached(inb, w)[i] /\ ~IsReturn(u.outs[i])
      <4>1. \A i \in DOMAIN Attached(inb, w) : Attached(inb, w)[i] \in {"FUNDS", "PAYLOAD"}
        BY <1>4, Emissions
      <4> QED BY <1>5, <2>1, <4>1 DEF Out, IsReturn
    <3> QED BY <3>1 DEF MovesIn
  <2> HIDE DEF u, mint, burn, att
  <2>3. \A i, j \in DOMAIN u.outs : i = j
    BY <1>4, <1>5, <2>1, Emissions
  <2>4. CASE \E i \in DOMAIN u.outs : MovesIn(u, i)
    <3>1. Attached(inb, w) = <<"FUNDS">>
      BY <1>4, <1>5, <2>1, <2>2, <2>4, Emissions
    <3>2. Emitted(inb, w) = <<"FUNDS">> /\ Arrives(inb, w)
      BY <1>3, <3>1
    <3>3. burn = 1 /\ ~IsFree(u)
      BY <1>1, <1>6, <1>7, <3>2 DEF IsFree
    <3>4. AccountOK(u, mint - burn)
      BY <1>1, <1>2, <2>3, <3>2, <3>3 DEF AccountOK, One
    <3> QED BY <3>4 DEF u, mint, burn
  <2>5. CASE ~\E i \in DOMAIN u.outs : MovesIn(u, i)
    <3>1. IsFree(u) => inb.funded /\ ~Arrives(inb, w)
      BY <1>1, <1>7 DEF IsFree
    <3>2. AccountOK(u, mint - burn)
      BY <1>1, <1>2, <1>6, <2>3, <2>5, <3>1 DEF AccountOK, One
    <3> QED BY <3>2 DEF u, mint, burn
  <2> QED BY <2>4, <2>5
<1> QED BY <1>8, <1>9

\* RevertStuckInbound claims what was locked; a Push Chain transaction burns what it sends.
LEMMA OthersAccount ==
    /\ \A inb \in Inbound : AccountOK(AdminRevert(inb), 0)
    /\ \A types \in PcEmits :
          AccountOK([inb |-> NoInbound, pctx |-> PCTx("call", TRUE), outs |-> Outs(types), err |-> FALSE],
                    0 - Units(types))
<1>1. ASSUME NEW inb \in Inbound PROVE AccountOK(AdminRevert(inb), 0)
  <2> DEFINE u == AdminRevert(inb)
  <2>1. /\ u.inb = inb /\ DOMAIN u.outs = {1}
        /\ u.outs[1].type = "INBOUND_REVERT" /\ u.outs[1].status = "PENDING"
    BY DEF AdminRevert, Out
  <2>2. inb # NoInbound /\ inb.funded \in BOOLEAN
    BY TypesAssumption DEF Inbound, NoInbound
  <2> HIDE DEF u
  <2>3. ~IsFree(u) /\ (MovesIn(u, 1) <=> inb.funded)
    BY <2>1, <2>2 DEF IsFree, MovesIn, IsReturn
  <2>4. AccountOK(u, 0)
    BY <2>1, <2>2, <2>3 DEF AccountOK, One
  <2> QED BY <2>4 DEF u
<1>2. ASSUME NEW types \in PcEmits
      PROVE AccountOK([inb |-> NoInbound, pctx |-> PCTx("call", TRUE), outs |-> Outs(types), err |-> FALSE],
                      0 - Units(types))
  <2> DEFINE u == [inb |-> NoInbound, pctx |-> PCTx("call", TRUE), outs |-> Outs(types), err |-> FALSE]
  <2>1. DOMAIN types \in {{1}, {1, 2}} /\ \A i \in DOMAIN types : types[i] = "FUNDS" <=> i = 1
    <3>1. CASE types = <<"FUNDS">>
      BY <3>1
    <3>2. CASE types = <<"FUNDS", "PAYLOAD">>
      BY <3>2
    <3> QED BY <3>1, <3>2 DEF PcEmits
  <2>2. u.inb = NoInbound /\ ~u.inb.funded /\ DOMAIN u.outs = DOMAIN types
    BY DEF NoInbound, Outs
  <2>3. \A i \in DOMAIN u.outs : MovesIn(u, i) <=> i = 1
    BY <2>1 DEF MovesIn, Outs, Out
  <2>4. Units(types) = 1
    BY <2>1 DEF Units
  <2> HIDE DEF u
  <2>5. AccountOK(u, 0 - Units(types))
    BY <2>1, <2>2, <2>3, <2>4 DEF AccountOK, One, IsFree
  <2> QED BY <2>5 DEF u
<1> QED BY <1>1, <1>2, Zenon

Rescued(u) ==
    [u EXCEPT !.pctx = @ \o PCTx("rescue", TRUE), !.outs = Append(@, Out("RESCUE_FUNDS"))]

Settled(u, i, s) == [u EXCEPT !.outs[i].status = s]

\* The three things a step does to the UTXs.
Birth(k, u) ==
    /\ k \in InKeys \cup PcKeys /\ Born(u) /\ Admissible(u) /\ Create(k, u)
    /\ AccountOK(u, supply' - supply)

Rescue(k) ==
    /\ k \in DOMAIN utxs /\ Rescuable(utxs[k])
    /\ utxs' = [utxs EXCEPT ![k] = Rescued(utxs[k])]
    /\ pendingOut' = pendingOut \cup {<<k, Len(utxs[k].outs) + 1>>}
    /\ supply' = supply

Settlement(k, i, s) ==
    /\ k \in DOMAIN utxs /\ i \in DOMAIN utxs[k].outs /\ utxs[k].outs[i].status = "PENDING"
    /\ s = "ABORTED" => utxs[k].outs[i].type = "FUNDS"
    /\ utxs' = [utxs EXCEPT ![k] = Settled(utxs[k], i, s)]
    /\ pendingOut' = pendingOut \ {<<k, i>>}
    /\ supply' = supply + One(s = "REVERTED" /\ utxs[k].outs[i].type = "FUNDS")

\* Every request is a birth or a rescue.
LEMMA RequestKinds ==
    ASSUME TypeOK, Requests
    PROVE  (\E k, u : Birth(k, u)) \/ (\E k \in InKeys : Rescue(k))
<1>1. ASSUME NEW k \in InKeys, NEW x \in Executions, InboundDecided(k, x)
      PROVE \E kk, u : Birth(kk, u)
  <2>1. PICK inb \in Inbound, w \in World : x = ExecuteInbound(inb, w)
    BY DEF Executions
  <2>2. supply' - supply = x.mint - x.burn
    <3>1. x.mint \in Int /\ x.burn \in Int
      BY <2>1 DEF ExecuteInbound, Units
    <3> QED BY <1>1, <3>1 DEF InboundDecided, TypeOK
  <2>3. AccountOK(x.utx, x.mint - x.burn)
    BY <2>1, ExecutedAccount
  <2>4. Birth(k, x.utx)
    BY <1>1, <2>1, <2>2, <2>3, ExecutedIsBorn DEF Birth, InboundDecided
  <2> QED BY <2>4
<1>2. ASSUME NEW k \in InKeys, NEW inb \in Inbound, RevertStuckInbound(k, inb)
      PROVE \E kk, u : Birth(kk, u)
  <2>1. supply' - supply = 0
    BY <1>2 DEF RevertStuckInbound, TypeOK
  <2>2. Birth(k, AdminRevert(inb))
    BY <1>2, <2>1, OthersAreBorn, OthersAccount DEF Birth, RevertStuckInbound
  <2> QED BY <2>2
<1>3. ASSUME NEW k \in PcKeys, NEW types \in PcEmits, PcTransaction(k, types)
      PROVE \E kk, u : Birth(kk, u)
  <2> DEFINE u == [inb |-> NoInbound, pctx |-> PCTx("call", TRUE), outs |-> Outs(types), err |-> FALSE]
  <2>1. Born(u) /\ Create(k, u)
    BY <1>3, OthersAreBorn, Zenon DEF PcTransaction
  <2>2. Admissible(u)
    BY DEF Admissible, NoInbound
  <2>3. supply' - supply = 0 - Units(types)
    BY <1>3 DEF PcTransaction, Units, TypeOK
  <2>4. AccountOK(u, supply' - supply)
    BY <2>3, OthersAccount, Zenon
  <2>5. Birth(k, u)
    BY <2>1, <2>2, <2>4 DEF Birth
  <2> HIDE DEF u
  <2> QED BY <2>5
<1>4. ASSUME NEW k \in InKeys, RescueFunds(k) PROVE Rescue(k)
  BY <1>4, Zenon DEF RescueFunds, Rescue, Rescued, NextPosition
<1> QED BY <1>1, <1>2, <1>3, <1>4 DEF Requests

\* Every step of UExecutor is a birth, a rescue or a settlement.
LEMMA StepKinds ==
    ASSUME TypeOK, Next
    PROVE  \/ \E k, u : Birth(k, u)
           \/ \E k \in InKeys : Rescue(k)
           \/ \E k, i : \E s \in {"OBSERVED", "REVERTED", "ABORTED"} : Settlement(k, i, s)
<1>1. CASE Requests
  BY <1>1, RequestKinds
<1>2. ASSUME NEW k \in InKeys \cup PcKeys, NEW i \in 1 .. MaxOuts, NEW success \in BOOLEAN,
             NEW minted \in BOOLEAN, OutboundDecided(k, i, success, minted)
      PROVE \E kk, ii : \E s \in {"OBSERVED", "REVERTED", "ABORTED"} : Settlement(kk, ii, s)
  <2> DEFINE s == StatusAfter(utxs[k].outs[i], success, minted)
  <2>1. s \in {"OBSERVED", "REVERTED", "ABORTED"} /\ (s = "ABORTED" => utxs[k].outs[i].type = "FUNDS")
    BY DEF StatusAfter, MintsBack
  <2>2. supply' = supply + One(s = "REVERTED" /\ utxs[k].outs[i].type = "FUNDS")
    BY <1>2 DEF OutboundDecided, StatusAfter, MintsBack, One, TypeOK
  <2>3. Settlement(k, i, s)
    BY <1>2, <2>1, <2>2 DEF OutboundDecided, Settlement, Settled, IsOpen
  <2> HIDE DEF s
  <2> QED BY <2>1, <2>3
<1> QED BY <1>1, <1>2 DEF Next

\* A rescued UTX: one RESCUE_FUNDS and one PCTx appended, all else as it was.
LEMMA RescuedFacts ==
    ASSUME NEW u \in UTX
    PROVE  /\ Rescued(u) \in UTX
           /\ Rescued(u).inb = u.inb
           /\ DOMAIN Rescued(u).outs = DOMAIN u.outs \cup {Len(u.outs) + 1}
           /\ Len(u.outs) + 1 \notin DOMAIN u.outs
           /\ \A i \in DOMAIN u.outs : Rescued(u).outs[i] = u.outs[i]
           /\ Rescued(u).outs[Len(u.outs) + 1] = Out("RESCUE_FUNDS")
           /\ DOMAIN Rescued(u).pctx = DOMAIN u.pctx \cup {Len(u.pctx) + 1}
           /\ \A j \in DOMAIN u.pctx : Rescued(u).pctx[j] = u.pctx[j]
           /\ Rescued(u).pctx[Len(u.pctx) + 1] = [step |-> "rescue", ok |-> TRUE]
<1> DEFINE r == [step |-> "rescue", ok |-> TRUE]
           o == Out("RESCUE_FUNDS")
           ps == u.pctx \o <<r>>
           os == Append(u.outs, o)
<1>1. /\ u.inb \in Inbound \cup {NoInbound} /\ u.pctx \in Seq(Steps)
      /\ u.outs \in Seq(Outbound) /\ u.err \in BOOLEAN
  BY DEF UTX, Steps
<1>2. Rescued(u) = [inb |-> u.inb, pctx |-> ps, outs |-> os, err |-> u.err]
  <2>1. u = [inb |-> u.inb, pctx |-> u.pctx, outs |-> u.outs, err |-> u.err]
    BY DEF UTX
  <2>2. Rescued(u) = [[u EXCEPT !.pctx = ps] EXCEPT !.outs = os]
    BY <2>1 DEF Rescued, PCTx
  <2> HIDE DEF ps, os
  <2> QED BY <2>1, <2>2, Zenon
<1>3. r \in Steps /\ o \in Outbound
  BY DEF Steps, Out, Outbound
<1> HIDE DEF r, o
<1>4. /\ ps \in Seq(Steps) /\ DOMAIN ps = DOMAIN u.pctx \cup {Len(u.pctx) + 1}
      /\ \A j \in DOMAIN u.pctx : ps[j] = u.pctx[j]
      /\ ps[Len(u.pctx) + 1] = r
  <2>1. Len(u.pctx) \in Nat /\ DOMAIN u.pctx = 1 .. Len(u.pctx) /\ <<r>> \in Seq(Steps) /\ Len(<<r>>) = 1
    BY <1>1, <1>3
  <2>2. ps \in Seq(Steps) /\ Len(ps) = Len(u.pctx) + 1
    BY <1>1, <2>1
  <2> QED BY <1>1, <2>1, <2>2
<1>5. /\ os \in Seq(Outbound) /\ DOMAIN os = DOMAIN u.outs \cup {Len(u.outs) + 1}
      /\ Len(u.outs) + 1 \notin DOMAIN u.outs
      /\ \A j \in DOMAIN u.outs : os[j] = u.outs[j]
      /\ os[Len(u.outs) + 1] = o
  BY <1>1, <1>3
<1> HIDE DEF ps, os
<1>6. Rescued(u) \in UTX
  BY <1>1, <1>2, <1>4, <1>5 DEF UTX, Steps
<1> QED BY <1>2, <1>4, <1>5, <1>6 DEF r, o

\* A settled UTX: one outbound's status changed, all else as it was.
LEMMA SettledFacts ==
    ASSUME NEW u \in UTX, NEW i \in DOMAIN u.outs, NEW s \in {"OBSERVED", "REVERTED", "ABORTED"}
    PROVE  /\ Settled(u, i, s) \in UTX
           /\ Settled(u, i, s).inb = u.inb /\ Settled(u, i, s).pctx = u.pctx
           /\ DOMAIN Settled(u, i, s).outs = DOMAIN u.outs
           /\ \A j \in DOMAIN u.outs \ {i} : Settled(u, i, s).outs[j] = u.outs[j]
           /\ Settled(u, i, s).outs[i].type = u.outs[i].type
           /\ Settled(u, i, s).outs[i].status = s
<1> DEFINE o == [u.outs[i] EXCEPT !.status = s]
           os == [u.outs EXCEPT ![i] = o]
<1>1. /\ u.inb \in Inbound \cup {NoInbound} /\ u.pctx \in Seq(Steps)
      /\ u.outs \in Seq(Outbound) /\ u.err \in BOOLEAN
  BY DEF UTX, Steps
<1>2. Settled(u, i, s) = [inb |-> u.inb, pctx |-> u.pctx, outs |-> os, err |-> u.err]
  <2>1. u = [inb |-> u.inb, pctx |-> u.pctx, outs |-> u.outs, err |-> u.err]
    BY DEF UTX
  <2>2. Settled(u, i, s) = [u EXCEPT !.outs = os]
    BY <2>1 DEF Settled
  <2> HIDE DEF os
  <2> QED BY <2>1, <2>2
<1>3. u.outs[i] \in Outbound
  BY <1>1
<1>4. o \in Outbound /\ o.type = u.outs[i].type /\ o.status = s
  BY <1>3 DEF Outbound
<1> HIDE DEF o
<1>5. /\ os \in Seq(Outbound) /\ DOMAIN os = DOMAIN u.outs
      /\ os[i] = o /\ \A j \in DOMAIN u.outs \ {i} : os[j] = u.outs[j]
  BY <1>1, <1>4
<1> HIDE DEF os
<1>6. Settled(u, i, s) \in UTX
  BY <1>1, <1>2, <1>5 DEF UTX, Steps
<1> QED BY <1>2, <1>4, <1>5, <1>6

\* The UTXs after a step, record by record.
LEMMA StepRecords ==
    ASSUME TypeOK
    PROVE  /\ \A k, u : Birth(k, u) =>
                /\ DOMAIN utxs' = DOMAIN utxs \cup {k} /\ k \notin DOMAIN utxs
                /\ utxs' = [j \in DOMAIN utxs' |-> utxs'[j]]
                /\ utxs'[k] = u /\ \A j \in DOMAIN utxs : utxs'[j] = utxs[j]
           /\ \A k : Rescue(k) =>
                /\ DOMAIN utxs' = DOMAIN utxs /\ utxs' = [j \in DOMAIN utxs' |-> utxs'[j]]
                /\ utxs'[k] = Rescued(utxs[k]) /\ \A j \in DOMAIN utxs \ {k} : utxs'[j] = utxs[j]
           /\ \A k, i, s : Settlement(k, i, s) =>
                /\ DOMAIN utxs' = DOMAIN utxs /\ utxs' = [j \in DOMAIN utxs' |-> utxs'[j]]
                /\ utxs'[k] = Settled(utxs[k], i, s)
                /\ \A j \in DOMAIN utxs \ {k} : utxs'[j] = utxs[j]
<1>1. utxs = [k \in DOMAIN utxs |-> utxs[k]]
  BY DEF TypeOK
<1>2. ASSUME NEW k, NEW u, Birth(k, u)
      PROVE  /\ DOMAIN utxs' = DOMAIN utxs \cup {k} /\ k \notin DOMAIN utxs
             /\ utxs' = [j \in DOMAIN utxs' |-> utxs'[j]]
             /\ utxs'[k] = u /\ \A j \in DOMAIN utxs : utxs'[j] = utxs[j]
  BY <1>2 DEF Birth, Create
<1>3. ASSUME NEW k, Rescue(k)
      PROVE  /\ DOMAIN utxs' = DOMAIN utxs /\ utxs' = [j \in DOMAIN utxs' |-> utxs'[j]]
             /\ utxs'[k] = Rescued(utxs[k]) /\ \A j \in DOMAIN utxs \ {k} : utxs'[j] = utxs[j]
  BY <1>1, <1>3, Zenon DEF Rescue
<1>4. ASSUME NEW k, NEW i, NEW s, Settlement(k, i, s)
      PROVE  /\ DOMAIN utxs' = DOMAIN utxs /\ utxs' = [j \in DOMAIN utxs' |-> utxs'[j]]
             /\ utxs'[k] = Settled(utxs[k], i, s)
             /\ \A j \in DOMAIN utxs \ {k} : utxs'[j] = utxs[j]
  BY <1>1, <1>4, Zenon DEF Settlement
<1> QED BY <1>2, <1>3, <1>4, Zenon

\* The supply stays a natural number: a call burns no more than there is.
LEMMA SupplyStep ==
    ASSUME TypeOK, Next
    PROVE  supply' \in Nat
<1>1. supply \in Nat
  BY DEF TypeOK
<1>2. ASSUME NEW k \in InKeys, NEW x \in Executions, InboundDecided(k, x) PROVE supply' \in Nat
  <2>1. PICK inb \in Inbound, w \in World : x = ExecuteInbound(inb, w)
    BY DEF Executions
  <2>2. x.mint \in Nat /\ x.burn \in Nat
    BY <2>1 DEF ExecuteInbound, Units
  <2> QED BY <1>1, <1>2, <2>2 DEF InboundDecided
<1>3. ASSUME NEW types \in PcEmits, NEW k, PcTransaction(k, types) PROVE supply' \in Nat
  <2>1. Units(types) \in Nat
    BY DEF Units
  <2> QED BY <1>1, <1>3, <2>1 DEF PcTransaction
<1>4. ASSUME NEW k, NEW i, NEW a, NEW b, OutboundDecided(k, i, a, b) PROVE supply' \in Nat
  BY <1>1, <1>4 DEF OutboundDecided
<1>5. ASSUME NEW k, NEW inb, RevertStuckInbound(k, inb) PROVE supply' \in Nat
  BY <1>1, <1>5 DEF RevertStuckInbound
<1>6. ASSUME NEW k, RescueFunds(k) PROVE supply' \in Nat
  BY <1>1, <1>6 DEF RescueFunds
<1> QED BY <1>2, <1>3, <1>4, <1>5, <1>6 DEF Next, Requests

\* Every step keeps the types of the collections.
LEMMA TypeStep ==
    ASSUME TypeOK, Next
    PROVE  TypeOK'
<1>1. /\ DOMAIN utxs \subseteq InKeys \cup PcKeys /\ \A k \in DOMAIN utxs : utxs[k] \in UTX
      /\ pendingOut \subseteq (InKeys \cup PcKeys) \X (Nat \ {0})
  BY DEF TypeOK
<1>2. supply' \in Nat
  BY SupplyStep
<1>3. \A u \in UTX : DOMAIN u.outs \subseteq Nat \ {0} /\ Len(u.outs) + 1 \in Nat \ {0}
  <2> SUFFICES ASSUME NEW u \in UTX
               PROVE DOMAIN u.outs \subseteq Nat \ {0} /\ Len(u.outs) + 1 \in Nat \ {0}
    OBVIOUS
  <2>1. u.outs \in Seq(Outbound)
    BY DEF UTX
  <2> QED BY <2>1
<1>4. ASSUME NEW k, NEW u, Birth(k, u) PROVE TypeOK'
  <2>1. k \in InKeys \cup PcKeys /\ u \in UTX /\ pendingOut' = pendingOut \cup ({k} \X DOMAIN u.outs)
    BY <1>4 DEF Birth, Born, Create
  <2>2. /\ DOMAIN utxs' = DOMAIN utxs \cup {k} /\ utxs' = [j \in DOMAIN utxs' |-> utxs'[j]]
        /\ utxs'[k] = u /\ \A j \in DOMAIN utxs : utxs'[j] = utxs[j]
    BY <1>4, StepRecords, Zenon
  <2>3. pendingOut' \subseteq (InKeys \cup PcKeys) \X (Nat \ {0})
    BY <1>1, <1>3, <2>1
  <2>4. \A j \in DOMAIN utxs' : utxs'[j] \in UTX
    BY <1>1, <2>1, <2>2
  <2>5. DOMAIN utxs' \subseteq InKeys \cup PcKeys
    BY <1>1, <2>1, <2>2
  <2> QED BY <1>2, <2>2, <2>3, <2>4, <2>5 DEF TypeOK
<1>5. ASSUME NEW k \in InKeys, Rescue(k) PROVE TypeOK'
  <2>1. k \in DOMAIN utxs /\ pendingOut' = pendingOut \cup {<<k, Len(utxs[k].outs) + 1>>}
    BY <1>5 DEF Rescue
  <2>2. /\ DOMAIN utxs' = DOMAIN utxs /\ utxs' = [j \in DOMAIN utxs' |-> utxs'[j]]
        /\ utxs'[k] = Rescued(utxs[k]) /\ \A j \in DOMAIN utxs \ {k} : utxs'[j] = utxs[j]
    BY <1>5, StepRecords
  <2>3. Rescued(utxs[k]) \in UTX
    BY <1>1, <2>1, RescuedFacts
  <2>4. pendingOut' \subseteq (InKeys \cup PcKeys) \X (Nat \ {0})
    BY <1>1, <1>3, <2>1
  <2>5. \A j \in DOMAIN utxs' : utxs'[j] \in UTX
    BY <1>1, <2>2, <2>3
  <2> QED BY <1>1, <1>2, <2>2, <2>4, <2>5 DEF TypeOK
<1>6. ASSUME NEW k, NEW i, NEW s \in {"OBSERVED", "REVERTED", "ABORTED"}, Settlement(k, i, s) PROVE TypeOK'
  <2>1. k \in DOMAIN utxs /\ i \in DOMAIN utxs[k].outs /\ pendingOut' = pendingOut \ {<<k, i>>}
    BY <1>6 DEF Settlement
  <2>2. /\ DOMAIN utxs' = DOMAIN utxs /\ utxs' = [j \in DOMAIN utxs' |-> utxs'[j]]
        /\ utxs'[k] = Settled(utxs[k], i, s) /\ \A j \in DOMAIN utxs \ {k} : utxs'[j] = utxs[j]
    BY <1>6, StepRecords
  <2>3. Settled(utxs[k], i, s) \in UTX
    BY <1>1, <2>1, SettledFacts
  <2>4. pendingOut' \subseteq (InKeys \cup PcKeys) \X (Nat \ {0})
    BY <1>1, <2>1
  <2>5. \A j \in DOMAIN utxs' : utxs'[j] \in UTX
    BY <1>1, <2>2, <2>3
  <2> QED BY <1>1, <1>2, <2>2, <2>4, <2>5 DEF TypeOK
<1> QED BY <1>4, <1>5, <1>6, StepKinds

\* The types of the collections hold for any keys and any number of outbounds.
THEOREM TypeCorrect == Spec => []TypeOK
<1>1. Init => TypeOK
  BY DEF Init, TypeOK
<1>2. TypeOK /\ [Next]_uexVars => TypeOK'
  <2>1. TypeOK /\ UNCHANGED uexVars => TypeOK'
    BY DEF TypeOK, uexVars
  <2> QED BY <2>1, TypeStep
<1> QED BY <1>1, <1>2, PTL DEF Spec
-----------------------------------------------------------------------------
\* PendingOutboundsExact, pair by pair.
PendingPairs == \A k, i : <<k, i>> \in pendingOut <=> IsOpen(k, i)

\* The set PendingOutboundsExact compares with is the set of open pairs.
LEMMA PairsExact == TypeOK => (PendingOutboundsExact <=> PendingPairs)
<1> SUFFICES ASSUME TypeOK PROVE PendingOutboundsExact <=> PendingPairs
  OBVIOUS
<1> DEFINE Open == {p \in UNION {{k} \X DOMAIN utxs[k].outs : k \in DOMAIN utxs} :
                       utxs[p[1]].outs[p[2]].status = "PENDING"}
<1>1. \A k, i : <<k, i>> \in Open <=> IsOpen(k, i)
  BY DEF IsOpen
<1>2. \A p \in Open : p = <<p[1], p[2]>>
  OBVIOUS
<1>3. \A p \in pendingOut : p = <<p[1], p[2]>>
  BY DEF TypeOK
<1>4. PendingOutboundsExact <=> pendingOut = Open
  BY DEF PendingOutboundsExact
<1> HIDE DEF Open
<1>5. ASSUME pendingOut = Open PROVE PendingPairs
  BY <1>1, <1>5, Zenon DEF PendingPairs
<1>6. ASSUME PendingPairs PROVE pendingOut = Open
  <2>1. ASSUME NEW p \in pendingOut PROVE p \in Open
    <3>1. p = <<p[1], p[2]>>
      BY <1>3
    <3> QED BY <1>1, <1>6, <3>1 DEF PendingPairs
  <2>2. ASSUME NEW p \in Open PROVE p \in pendingOut
    <3>1. p = <<p[1], p[2]>>
      BY <1>2
    <3> QED BY <1>1, <1>6, <3>1 DEF PendingPairs
  <2> QED BY <2>1, <2>2
<1> QED BY <1>4, <1>5, <1>6

\* A birth enters what it opens, a rescue its new outbound, a settlement removes one.
LEMMA PairsStep ==
    ASSUME TypeOK, PendingPairs, Next
    PROVE  PendingPairs'
<1> SUFFICES ASSUME NEW kk, NEW ii
             PROVE  (<<kk, ii>> \in pendingOut)' <=> IsOpen(kk, ii)'
  BY Zenon DEF PendingPairs
<1>1. \A k \in DOMAIN utxs : utxs[k] \in UTX
  BY DEF TypeOK
<1>2. <<kk, ii>> \in pendingOut <=> IsOpen(kk, ii)
  BY DEF PendingPairs
<1>3. ASSUME NEW k, NEW u, Birth(k, u) PROVE <<kk, ii>> \in pendingOut' <=> IsOpen(kk, ii)'
  <2>1. /\ pendingOut' = pendingOut \cup ({k} \X DOMAIN u.outs)
        /\ \A i \in DOMAIN u.outs : u.outs[i].status = "PENDING"
    BY <1>3 DEF Birth, Born, Create
  <2>2. /\ DOMAIN utxs' = DOMAIN utxs \cup {k} /\ k \notin DOMAIN utxs
        /\ utxs'[k] = u /\ \A j \in DOMAIN utxs : utxs'[j] = utxs[j]
    BY <1>3, StepRecords, Zenon
  <2> QED BY <1>2, <2>1, <2>2 DEF IsOpen
<1>4. ASSUME NEW k, Rescue(k) PROVE <<kk, ii>> \in pendingOut' <=> IsOpen(kk, ii)'
  <2> DEFINE v == Rescued(utxs[k])
             n == Len(utxs[k].outs) + 1
  <2>1. k \in DOMAIN utxs /\ pendingOut' = pendingOut \cup {<<k, n>>}
    BY <1>4 DEF Rescue
  <2>2. /\ DOMAIN utxs' = DOMAIN utxs /\ utxs'[k] = v
        /\ \A j \in DOMAIN utxs \ {k} : utxs'[j] = utxs[j]
    BY <1>4, StepRecords
  <2>3. /\ DOMAIN v.outs = DOMAIN utxs[k].outs \cup {n} /\ v.outs[n] = Out("RESCUE_FUNDS")
        /\ \A i \in DOMAIN utxs[k].outs : v.outs[i] = utxs[k].outs[i]
        /\ n \notin DOMAIN utxs[k].outs
    BY <1>1, <2>1, RescuedFacts
  <2>4. v.outs[n].status = "PENDING"
    BY <2>3 DEF Out
  <2> HIDE DEF v, n
  <2> QED BY <1>2, <2>1, <2>2, <2>3, <2>4 DEF IsOpen
<1>5. ASSUME NEW k, NEW i, NEW s \in {"OBSERVED", "REVERTED", "ABORTED"}, Settlement(k, i, s)
      PROVE <<kk, ii>> \in pendingOut' <=> IsOpen(kk, ii)'
  <2> DEFINE v == Settled(utxs[k], i, s)
  <2>1. k \in DOMAIN utxs /\ i \in DOMAIN utxs[k].outs /\ pendingOut' = pendingOut \ {<<k, i>>}
    BY <1>5 DEF Settlement
  <2>2. /\ DOMAIN utxs' = DOMAIN utxs /\ utxs'[k] = v
        /\ \A j \in DOMAIN utxs \ {k} : utxs'[j] = utxs[j]
    BY <1>5, StepRecords
  <2>3. /\ DOMAIN v.outs = DOMAIN utxs[k].outs /\ v.outs[i].status = s
        /\ \A j \in DOMAIN utxs[k].outs \ {i} : v.outs[j] = utxs[k].outs[j]
    BY <1>1, <2>1, SettledFacts
  <2> HIDE DEF v
  <2> QED BY <1>2, <2>1, <2>2, <2>3 DEF IsOpen
<1> QED BY <1>3, <1>4, <1>5, StepKinds

\* The pending index and the statuses in the UTXs never disagree, whatever the order of
\* votes, reverts and rescues (RecordOutboundVote, UpdateOutbound, attachOutboundsToUtx).
THEOREM PendingIndexExact == Spec => []PendingOutboundsExact
<1>1. Init => PendingPairs
  BY DEF Init, PendingPairs, IsOpen
<1>2. TypeOK /\ PendingPairs /\ [Next]_uexVars => PendingPairs'
  <2>1. PendingPairs /\ UNCHANGED uexVars => PendingPairs'
    BY Zenon DEF PendingPairs, IsOpen, uexVars
  <2> QED BY <2>1, PairsStep
<1> QED BY <1>1, <1>2, TypeCorrect, PairsExact, PTL DEF Spec
-----------------------------------------------------------------------------
\* The step formula of HistoryKept.
Kept ==
    \A k \in DOMAIN utxs :
        /\ k \in DOMAIN utxs'
        /\ utxs'[k].inb = utxs[k].inb
        /\ \A j \in DOMAIN utxs[k].pctx :
              j \in DOMAIN utxs'[k].pctx /\ utxs'[k].pctx[j] = utxs[k].pctx[j]
        /\ \A i \in DOMAIN utxs[k].outs :
              /\ i \in DOMAIN utxs'[k].outs
              /\ utxs'[k].outs[i].type = utxs[k].outs[i].type
              /\ \/ utxs'[k].outs[i] = utxs[k].outs[i]
                 \/ utxs[k].outs[i].status = "PENDING"

\* Births leave the other UTXs alone; rescues append and settlements change one open outbound.
LEMMA KeptStep == TypeOK /\ Next => Kept
<1> SUFFICES ASSUME TypeOK, Next PROVE Kept
  OBVIOUS
<1>1. \A k \in DOMAIN utxs : utxs[k] \in UTX
  BY DEF TypeOK
<1>2. ASSUME NEW k, NEW u, Birth(k, u) PROVE Kept
  <2>1. DOMAIN utxs' = DOMAIN utxs \cup {k} /\ \A j \in DOMAIN utxs : utxs'[j] = utxs[j]
    BY <1>2, StepRecords, Zenon
  <2> QED BY <2>1 DEF Kept
<1>3. ASSUME NEW k, Rescue(k) PROVE Kept
  <2>1. k \in DOMAIN utxs
    BY <1>3 DEF Rescue
  <2>2. /\ DOMAIN utxs' = DOMAIN utxs /\ utxs'[k] = Rescued(utxs[k])
        /\ \A j \in DOMAIN utxs \ {k} : utxs'[j] = utxs[j]
    BY <1>3, StepRecords
  <2> DEFINE v == Rescued(utxs[k])
  <2>3. /\ v.inb = utxs[k].inb
        /\ \A j \in DOMAIN utxs[k].pctx : j \in DOMAIN v.pctx /\ v.pctx[j] = utxs[k].pctx[j]
        /\ \A i \in DOMAIN utxs[k].outs : i \in DOMAIN v.outs /\ v.outs[i] = utxs[k].outs[i]
    BY <1>1, <2>1, RescuedFacts
  <2>4. utxs'[k] = v
    BY <2>2
  <2> HIDE DEF v
  <2> QED BY <2>2, <2>3, <2>4 DEF Kept
<1>4. ASSUME NEW k, NEW i, NEW s \in {"OBSERVED", "REVERTED", "ABORTED"}, Settlement(k, i, s) PROVE Kept
  <2>1. k \in DOMAIN utxs /\ i \in DOMAIN utxs[k].outs /\ utxs[k].outs[i].status = "PENDING"
    BY <1>4 DEF Settlement
  <2>2. /\ DOMAIN utxs' = DOMAIN utxs /\ utxs'[k] = Settled(utxs[k], i, s)
        /\ \A j \in DOMAIN utxs \ {k} : utxs'[j] = utxs[j]
    BY <1>4, StepRecords
  <2> DEFINE v == Settled(utxs[k], i, s)
  <2>3. /\ v.inb = utxs[k].inb /\ v.pctx = utxs[k].pctx /\ DOMAIN v.outs = DOMAIN utxs[k].outs
        /\ \A j \in DOMAIN utxs[k].outs \ {i} : v.outs[j] = utxs[k].outs[j]
        /\ v.outs[i].type = utxs[k].outs[i].type
    BY <1>1, <2>1, SettledFacts
  <2>4. utxs'[k] = v
    BY <2>2
  <2> HIDE DEF v
  <2> QED BY <2>1, <2>2, <2>3, <2>4 DEF Kept
<1> QED BY <1>2, <1>3, <1>4, StepKinds

\* No step of x/uexecutor rewrites what a UTX recorded: UpdateUniversalTx is only used
\* to append and to settle PENDING outbounds.
THEOREM HistoryIsKept == Spec => HistoryKept
<1>1. TypeOK /\ [Next]_uexVars => [Kept]_uexVars
  BY KeptStep
<1>2. HistoryKept <=> [][Kept]_uexVars
  BY DEF HistoryKept, Kept
<1> QED BY <1>1, <1>2, TypeCorrect, PTL DEF Spec
-----------------------------------------------------------------------------
(***************************************************************************)
(* What is invariant of a UTX when CEA inbounds are given no revert.       *)
(* ReturnedOnce alone is not inductive: a rescue is attached on the        *)
(* evidence of one REVERTED revert (or, for a CEA inbound, of the first    *)
(* PCTx), so there must be no other revert, no return may be ABORTED, and  *)
(* a CEA inbound's deposit must be its first PCTx.                         *)
(***************************************************************************)
Sound(u) ==
    /\ \A i \in DOMAIN u.outs :
          IsReturn(u.outs[i]) => u.outs[i].status # "ABORTED" /\ NoDeposit(u)
    /\ \A i, j \in DOMAIN u.outs :
          u.outs[i].type = "INBOUND_REVERT" /\ u.outs[j].type = "INBOUND_REVERT" => i = j
    /\ u.inb.cea => /\ ~HasRevert(u)
                    /\ \A j \in DOMAIN u.pctx : u.pctx[j].step = "deposit" => j = 1
    /\ \A i, j \in DOMAIN u.outs :
          /\ i # j /\ IsReturn(u.outs[i]) /\ IsReturn(u.outs[j])
          /\ u.outs[i].status \in {"PENDING", "OBSERVED"}
          => u.outs[j].status = "REVERTED"

\* What execution and the admin's revert create has at most one return, and it is open.
LEMMA BornSound ==
    ASSUME CeaReverts = FALSE, NEW u, Born(u), Admissible(u)
    PROVE  Sound(u)
<1>1. u.inb.cea => ~HasRevert(u)
  BY DEF Admissible
<1>2. \A i \in DOMAIN u.outs : u.outs[i].status = "PENDING" /\ u.outs[i].type # "RESCUE_FUNDS"
  BY DEF Born
<1>3. \A i \in DOMAIN u.outs : IsReturn(u.outs[i]) => DOMAIN u.outs = {1} /\ NoDeposit(u)
  BY <1>2 DEF Born, IsReturn, HasRevert, NoDeposit
<1>4. \A i, j \in DOMAIN u.outs : IsReturn(u.outs[i]) => i = j
  BY <1>3
<1>5. u.inb.cea => \A j \in DOMAIN u.pctx : u.pctx[j].step = "deposit" => j = 1
  BY DEF Born
<1> QED BY <1>1, <1>2, <1>3, <1>4, <1>5 DEF Sound, IsReturn

\* What AttachRescueOutboundFromReceipt tests is enough: no deposit succeeded and every
\* earlier return failed.
LEMMA RescuableFailed ==
    ASSUME NEW u \in UTX, Sound(u), Rescuable(u)
    PROVE  /\ NoDeposit(u)
           /\ \A i \in DOMAIN u.outs : IsReturn(u.outs[i]) => u.outs[i].status = "REVERTED"
<1>1. \A i \in DOMAIN u.outs : u.outs[i].status \in {"PENDING", "OBSERVED", "REVERTED", "ABORTED"}
  <2>1. u.outs \in Seq(Outbound)
    BY DEF UTX
  <2>2. \A i \in DOMAIN u.outs : u.outs[i] \in Outbound
    BY <2>1
  <2> QED BY <2>2 DEF Outbound
<1>2. \A i \in DOMAIN u.outs : IsReturn(u.outs[i]) => u.outs[i].status = "REVERTED"
  <2> SUFFICES ASSUME NEW i \in DOMAIN u.outs, IsReturn(u.outs[i]) PROVE u.outs[i].status = "REVERTED"
    OBVIOUS
  <2>1. CASE u.outs[i].type = "RESCUE_FUNDS"
    BY <1>1, <2>1 DEF Rescuable, NoActiveRescue, Sound
  <2>2. CASE u.outs[i].type = "INBOUND_REVERT"
    <3>1. ~u.inb.cea
      BY <2>2 DEF Sound, HasRevert
    <3>2. PICK j \in DOMAIN u.outs : u.outs[j] = [type |-> "INBOUND_REVERT", status |-> "REVERTED"]
      BY <3>1 DEF Rescuable
    <3>3. i = j
      BY <2>2, <3>2 DEF Sound
    <3> QED BY <3>2, <3>3
  <2> QED BY <2>1, <2>2 DEF IsReturn
<1>3. NoDeposit(u)
  <2>1. CASE u.inb.cea
    <3>1. u.pctx # <<>> /\ ~u.pctx[1].ok
      BY <2>1 DEF Rescuable
    <3>2. \A j \in DOMAIN u.pctx : u.pctx[j].step = "deposit" => j = 1
      BY <2>1 DEF Sound
    <3> QED BY <3>1, <3>2 DEF NoDeposit
  <2>2. CASE ~u.inb.cea
    <3>1. PICK i \in DOMAIN u.outs : u.outs[i] = [type |-> "INBOUND_REVERT", status |-> "REVERTED"]
      BY <2>2 DEF Rescuable
    <3>2. IsReturn(u.outs[i])
      BY <3>1 DEF IsReturn
    <3> QED BY <3>2 DEF Sound
  <2> QED BY <2>1, <2>2
<1> QED BY <1>2, <1>3

\* A rescue is attached when every earlier return of the UTX failed.
LEMMA RescueSound ==
    ASSUME NEW u \in UTX, Sound(u), Rescuable(u)
    PROVE  Sound(Rescued(u))
<1> DEFINE v == Rescued(u)
           n == Len(u.outs) + 1
           m == Len(u.pctx) + 1
<1>1. /\ v.inb = u.inb /\ DOMAIN v.outs = DOMAIN u.outs \cup {n} /\ n \notin DOMAIN u.outs
      /\ \A i \in DOMAIN u.outs : v.outs[i] = u.outs[i]
      /\ v.outs[n] = Out("RESCUE_FUNDS")
      /\ DOMAIN v.pctx = DOMAIN u.pctx \cup {m}
      /\ \A j \in DOMAIN u.pctx : v.pctx[j] = u.pctx[j]
      /\ v.pctx[m] = [step |-> "rescue", ok |-> TRUE]
  BY RescuedFacts
<1>2. v.outs[n].type = "RESCUE_FUNDS" /\ v.outs[n].status = "PENDING" /\ v.pctx[m].step = "rescue"
  BY <1>1 DEF Out
<1> HIDE DEF v, n, m
<1>3. NoDeposit(u) /\ \A i \in DOMAIN u.outs : IsReturn(u.outs[i]) => u.outs[i].status = "REVERTED"
  BY RescuableFailed
<1>6. NoDeposit(v)
  BY <1>1, <1>2, <1>3 DEF NoDeposit
<1>7. \A i \in DOMAIN v.outs : IsReturn(v.outs[i]) => v.outs[i].status # "ABORTED"
  BY <1>1, <1>2, <1>3
<1>8. \A i, j \in DOMAIN v.outs :
        v.outs[i].type = "INBOUND_REVERT" /\ v.outs[j].type = "INBOUND_REVERT" => i = j
  BY <1>1, <1>2 DEF Sound
<1>9. v.inb.cea => ~HasRevert(v) /\ \A j \in DOMAIN v.pctx : v.pctx[j].step = "deposit" => j = 1
  BY <1>1, <1>2, SMTT(20) DEF Sound, HasRevert
<1>10. \A i, j \in DOMAIN v.outs :
         /\ i # j /\ IsReturn(v.outs[i]) /\ IsReturn(v.outs[j])
         /\ v.outs[i].status \in {"PENDING", "OBSERVED"}
         => v.outs[j].status = "REVERTED"
  BY <1>1, <1>2, <1>3
<1>11. Sound(v)
  BY <1>6, <1>7, <1>8, <1>9, <1>10 DEF Sound
<1> QED BY <1>11 DEF v

\* Settling a return keeps the others as they are: they had all failed.
LEMMA SettleSound ==
    ASSUME NEW u \in UTX, Sound(u), NEW i \in DOMAIN u.outs, u.outs[i].status = "PENDING",
           NEW s \in {"OBSERVED", "REVERTED", "ABORTED"}, s = "ABORTED" => u.outs[i].type = "FUNDS"
    PROVE  Sound(Settled(u, i, s))
<1> DEFINE v == Settled(u, i, s)
<1>1. /\ v.inb = u.inb /\ v.pctx = u.pctx /\ DOMAIN v.outs = DOMAIN u.outs
      /\ \A j \in DOMAIN u.outs \ {i} : v.outs[j] = u.outs[j]
      /\ v.outs[i].type = u.outs[i].type /\ v.outs[i].status = s
  BY SettledFacts
<1> HIDE DEF v
<1>2. \A j \in DOMAIN u.outs : v.outs[j].type = u.outs[j].type /\ (IsReturn(v.outs[j]) <=> IsReturn(u.outs[j]))
  BY <1>1 DEF IsReturn
<1>3. NoDeposit(v) <=> NoDeposit(u)
  BY <1>1 DEF NoDeposit
<1>4. \A j \in DOMAIN v.outs : IsReturn(v.outs[j]) => v.outs[j].status # "ABORTED" /\ NoDeposit(v)
  BY <1>1, <1>2, <1>3 DEF Sound, IsReturn
<1>5. \A j, l \in DOMAIN v.outs :
        v.outs[j].type = "INBOUND_REVERT" /\ v.outs[l].type = "INBOUND_REVERT" => j = l
  BY <1>1, <1>2 DEF Sound
<1>6. v.inb.cea => ~HasRevert(v) /\ \A j \in DOMAIN v.pctx : v.pctx[j].step = "deposit" => j = 1
  BY <1>1, <1>2, SMTT(20) DEF Sound, HasRevert
<1>7. \A j, l \in DOMAIN v.outs :
        /\ j # l /\ IsReturn(v.outs[j]) /\ IsReturn(v.outs[l])
        /\ v.outs[j].status \in {"PENDING", "OBSERVED"}
        => v.outs[l].status = "REVERTED"
  BY <1>1, <1>2, SMTT(20) DEF Sound
<1>8. Sound(v)
  BY <1>4, <1>5, <1>6, <1>7 DEF Sound
<1> QED BY <1>8 DEF v

AllSound == \A k \in DOMAIN utxs : Sound(utxs[k])

\* Sound is inductive over the three kinds of steps.
LEMMA SoundStep ==
    ASSUME CeaReverts = FALSE, TypeOK, AllSound, Next
    PROVE  AllSound'
<1>1. \A k \in DOMAIN utxs : utxs[k] \in UTX /\ Sound(utxs[k])
  BY DEF TypeOK, AllSound
<1>2. ASSUME NEW k, NEW u, Birth(k, u) PROVE AllSound'
  <2>1. Sound(u)
    BY <1>2, BornSound, Zenon DEF Birth
  <2>2. /\ DOMAIN utxs' = DOMAIN utxs \cup {k} /\ utxs'[k] = u
        /\ \A j \in DOMAIN utxs : utxs'[j] = utxs[j]
    BY <1>2, StepRecords
  <2>3. \A j \in DOMAIN utxs' : Sound(utxs'[j])
    BY <1>1, <2>1, <2>2
  <2> QED BY <2>3 DEF AllSound, Sound, NoDeposit, HasRevert, IsReturn
<1>3. ASSUME NEW k, Rescue(k) PROVE AllSound'
  <2>1. k \in DOMAIN utxs /\ Rescuable(utxs[k])
    BY <1>3 DEF Rescue
  <2>2. Sound(Rescued(utxs[k]))
    BY <1>1, <2>1, RescueSound
  <2>3. /\ DOMAIN utxs' = DOMAIN utxs /\ utxs'[k] = Rescued(utxs[k])
        /\ \A j \in DOMAIN utxs \ {k} : utxs'[j] = utxs[j]
    BY <1>3, StepRecords
  <2>4. \A j \in DOMAIN utxs' : Sound(utxs'[j])
    BY <1>1, <2>2, <2>3
  <2> QED BY <2>4 DEF AllSound, Sound, NoDeposit, HasRevert, IsReturn
<1>4. ASSUME NEW k, NEW i, NEW s \in {"OBSERVED", "REVERTED", "ABORTED"}, Settlement(k, i, s)
      PROVE AllSound'
  <2>1. /\ k \in DOMAIN utxs /\ i \in DOMAIN utxs[k].outs /\ utxs[k].outs[i].status = "PENDING"
        /\ s = "ABORTED" => utxs[k].outs[i].type = "FUNDS"
    BY <1>4 DEF Settlement
  <2>2. Sound(Settled(utxs[k], i, s))
    BY <1>1, <2>1, SettleSound
  <2>3. /\ DOMAIN utxs' = DOMAIN utxs /\ utxs'[k] = Settled(utxs[k], i, s)
        /\ \A j \in DOMAIN utxs \ {k} : utxs'[j] = utxs[j]
    BY <1>4, StepRecords
  <2>4. \A j \in DOMAIN utxs' : Sound(utxs'[j])
    BY <1>1, <2>2, <2>3
  <2> QED BY <2>4 DEF AllSound, Sound, NoDeposit, HasRevert, IsReturn
<1> QED BY <1>2, <1>3, <1>4, StepKinds

\* When no CEA inbound is given an INBOUND_REVERT, the funds of an inbound are returned
\* at most once and never when they were deposited, however reverts, rescues and the
\* votes on them interleave.
THEOREM FundsReturnedOnce == CeaReverts = FALSE => (Spec => []ReturnedOnce)
<1> SUFFICES ASSUME CeaReverts = FALSE PROVE Spec => []ReturnedOnce
  OBVIOUS
<1>1. Init => AllSound
  BY DEF Init, AllSound
<1>2. TypeOK /\ AllSound /\ [Next]_uexVars => AllSound'
  <2>1. AllSound /\ UNCHANGED uexVars => AllSound'
    BY SMTT(20) DEF AllSound, uexVars, Sound, NoDeposit, HasRevert, IsReturn
  <2> QED BY <2>1, SoundStep, Zenon
<1>3. AllSound => ReturnedOnce
  BY DEF AllSound, Sound, NoDeposit, ReturnedOnce
<1> QED BY <1>1, <1>2, <1>3, TypeCorrect, PTL DEF Spec
-----------------------------------------------------------------------------
\* The units of the vault nobody has claimed, and the units locked in it.
Free == {k \in DOMAIN utxs : IsFree(utxs[k])}
Funded == {k \in DOMAIN utxs : utxs[k].inb.funded}

Covered ==
    /\ IsFiniteSet(Positions("PENDING")) /\ IsFiniteSet(Positions("OBSERVED"))
    /\ IsFiniteSet(Free) /\ IsFiniteSet(Funded)
    /\ supply + Cardinality(Positions("PENDING")) + Cardinality(Positions("OBSERVED"))
         + Cardinality(Free) <= Cardinality(Funded)

\* Whether an inbound locked a unit is a Boolean.
LEMMA FundedType ==
    ASSUME NEW u \in UTX
    PROVE  u.inb.funded \in BOOLEAN
<1>1. \A inb \in Inbound : inb.funded \in BOOLEAN
  BY DEF Inbound
<1>2. NoInbound.funded \in BOOLEAN
  BY DEF NoInbound
<1>3. u.inb \in Inbound \cup {NoInbound}
  BY DEF UTX
<1> QED BY <1>1, <1>2, <1>3

\* Positions, pair by pair.
LEMMA PositionPairs ==
    ASSUME NEW st
    PROVE  /\ \A k, i : <<k, i>> \in Positions(st) <=>
                 /\ k \in DOMAIN utxs /\ i \in DOMAIN utxs[k].outs
                 /\ utxs[k].outs[i].status = st /\ MovesIn(utxs[k], i)
           /\ \A p \in Positions(st) : p = <<p[1], p[2]>>
BY SMTT(20) DEF Positions, MovesIn, Moves

\* Positions after a step, pair by pair.
LEMMA PositionPairsNext ==
    ASSUME NEW st
    PROVE  /\ \A k, i : <<k, i>> \in Positions(st)' <=>
                 /\ k \in DOMAIN utxs' /\ i \in DOMAIN utxs'[k].outs
                 /\ utxs'[k].outs[i].status = st /\ MovesIn(utxs'[k], i)
           /\ \A p \in Positions(st)' : p = <<p[1], p[2]>>
BY SMTT(20) DEF Positions, MovesIn, Moves, IsReturn

\* Two sets of pairs with the same pairs are equal.
LEMMA SamePairs ==
    ASSUME NEW S, NEW T, \A p \in S : p = <<p[1], p[2]>>, \A p \in T : p = <<p[1], p[2]>>,
           \A k, i : <<k, i>> \in S <=> <<k, i>> \in T
    PROVE  S = T
<1>1. \A p \in S : p \in T
  <2> TAKE p \in S
  <2>1. p = <<p[1], p[2]>>
    OBVIOUS
  <2> QED BY <2>1
<1>2. \A p \in T : p \in S
  <2> TAKE p \in T
  <2>1. p = <<p[1], p[2]>>
    OBVIOUS
  <2> QED BY <2>1
<1> QED BY <1>1, <1>2

\* Adding or removing one element, as the accounting uses it.
LEMMA CountOne ==
    ASSUME NEW S, IsFiniteSet(S), NEW x, NEW b \in BOOLEAN
    PROVE  LET T == IF b THEN S \cup {x} ELSE S
               U == IF b THEN S \ {x} ELSE S
           IN /\ IsFiniteSet(T) /\ Cardinality(T) \in Nat /\ IsFiniteSet(U) /\ Cardinality(U) \in Nat
              /\ Cardinality(S) \in Nat
              /\ Cardinality(T) <= Cardinality(S) + One(b)
              /\ x \notin S => Cardinality(T) = Cardinality(S) + One(b)
              /\ x \in S => Cardinality(U) = Cardinality(S) - One(b)
<1>1. /\ IsFiniteSet(S \cup {x}) /\ IsFiniteSet(S \ {x})
      /\ Cardinality(S \cup {x}) = IF x \in S THEN Cardinality(S) ELSE Cardinality(S) + 1
      /\ Cardinality(S \ {x}) = IF x \in S THEN Cardinality(S) - 1 ELSE Cardinality(S)
  BY FS_AddElement, FS_RemoveElement
<1>2. Cardinality(S) \in Nat /\ Cardinality(S \cup {x}) \in Nat /\ Cardinality(S \ {x}) \in Nat
  BY <1>1, FS_CardinalityType
<1>3. CASE b
  BY <1>1, <1>2, <1>3 DEF One
<1>4. CASE ~b
  BY <1>1, <1>2, <1>4 DEF One
<1> QED BY <1>3, <1>4

\* A birth claims at most what it locks.
LEMMA BirthCovered ==
    ASSUME TypeOK, Covered, NEW k, NEW u, Birth(k, u), supply' \in Nat
    PROVE  Covered'
<1>1. /\ Born(u) /\ AccountOK(u, supply' - supply)
  BY DEF Birth
<1>2. /\ DOMAIN utxs' = DOMAIN utxs \cup {k} /\ k \notin DOMAIN utxs
      /\ utxs'[k] = u /\ \A j \in DOMAIN utxs : utxs'[j] = utxs[j]
  BY StepRecords
<1>3. \A i \in DOMAIN u.outs : u.outs[i].status = "PENDING"
  BY <1>1 DEF Born
<1> DEFINE mv == \E i \in DOMAIN u.outs : MovesIn(u, i)
           i0 == CHOOSE i \in DOMAIN u.outs : MovesIn(u, i)
           fr == IsFree(u)
           fu == u.inb.funded
           P == Positions("PENDING")
           O == Positions("OBSERVED")
<1>4. mv => i0 \in DOMAIN u.outs /\ MovesIn(u, i0) /\ \A i \in DOMAIN u.outs : MovesIn(u, i) <=> i = i0
  BY <1>1 DEF AccountOK
<1>5. u.inb.funded \in BOOLEAN /\ (fr => fu)
  BY <1>1, FundedType DEF Born, IsFree
<1>6. (supply' - supply) + One(mv) + One(fr) <= One(fu)
  BY <1>1, Zenon DEF AccountOK
<1>7. mv \in BOOLEAN /\ fr \in BOOLEAN /\ fu \in BOOLEAN
  BY <1>5 DEF IsFree
<1> HIDE DEF mv, i0, fr, fu
<1>8. P' = IF mv THEN P \cup {<<k, i0>>} ELSE P
  <2> DEFINE Q == IF mv THEN P \cup {<<k, i0>>} ELSE P
  <2>1. \A kk, i : <<kk, i>> \in P' <=> <<kk, i>> \in Q
    <3>1. \A kk, i : <<kk, i>> \in P <=> /\ kk \in DOMAIN utxs /\ i \in DOMAIN utxs[kk].outs
                 /\ utxs[kk].outs[i].status = "PENDING" /\ MovesIn(utxs[kk], i)
      BY PositionPairs, Zenon
    <3>2. \A kk, i : <<kk, i>> \in P' <=> /\ kk \in DOMAIN utxs' /\ i \in DOMAIN utxs'[kk].outs
                 /\ utxs'[kk].outs[i].status = "PENDING" /\ MovesIn(utxs'[kk], i)
      BY PositionPairsNext, Zenon
    <3>3. \A i : <<k, i>> \notin P
      BY <1>2, <3>1
    <3>4. \A i : <<k, i>> \in P' <=> mv /\ i = i0
      BY <1>2, <1>3, <1>4, <3>2 DEF mv
    <3>5. \A kk, i : kk # k => (<<kk, i>> \in P' <=> <<kk, i>> \in P)
      BY <1>2, <3>1, <3>2
    <3> HIDE DEF P
    <3> QED BY <3>3, <3>4, <3>5, Zenon
  <2>2. (\A p \in P' : p = <<p[1], p[2]>>) /\ \A p \in Q : p = <<p[1], p[2]>>
    BY PositionPairs, PositionPairsNext
  <2> HIDE DEF P, Q
  <2>3. P' = Q
    BY <2>1, <2>2, SamePairs
  <2> QED BY <2>3 DEF Q
<1>9. O' = O
  <2>1. \A kk, i : <<kk, i>> \in O' <=> <<kk, i>> \in O
    <3>1. \A kk, i : <<kk, i>> \in O <=> /\ kk \in DOMAIN utxs /\ i \in DOMAIN utxs[kk].outs
                 /\ utxs[kk].outs[i].status = "OBSERVED" /\ MovesIn(utxs[kk], i)
      BY PositionPairs, Zenon
    <3>2. \A kk, i : <<kk, i>> \in O' <=> /\ kk \in DOMAIN utxs' /\ i \in DOMAIN utxs'[kk].outs
                 /\ utxs'[kk].outs[i].status = "OBSERVED" /\ MovesIn(utxs'[kk], i)
      BY PositionPairsNext, Zenon
    <3>3. \A i : <<k, i>> \notin O /\ <<k, i>> \notin O'
      BY <1>2, <1>3, <3>1, <3>2
    <3>4. \A kk, i : kk # k => (<<kk, i>> \in O' <=> <<kk, i>> \in O)
      BY <1>2, <3>1, <3>2
    <3> HIDE DEF O
    <3> QED BY <3>3, <3>4, Zenon
  <2>2. (\A p \in O' : p = <<p[1], p[2]>>) /\ \A p \in O : p = <<p[1], p[2]>>
    BY PositionPairs, PositionPairsNext
  <2> HIDE DEF O
  <2> QED BY <2>1, <2>2, SamePairs
<1>10. Free' = IF fr THEN Free \cup {k} ELSE Free
  <2>1. Free' = {j \in DOMAIN utxs' : IsFree(utxs'[j])}
    BY DEF Free, IsFree, NoDeposit, IsReturn
  <2> QED BY <1>2, <2>1 DEF Free, fr
<1>11. Funded' = IF fu THEN Funded \cup {k} ELSE Funded
  BY <1>2 DEF Funded, fu
<1>12. <<k, i0>> \notin P /\ k \notin Free /\ k \notin Funded
  BY <1>2, PositionPairs DEF Free, Funded
<1> HIDE DEF P, O
<1>13. /\ IsFiniteSet(P) /\ IsFiniteSet(O) /\ IsFiniteSet(Free) /\ IsFiniteSet(Funded)
       /\ supply + Cardinality(P) + Cardinality(O) + Cardinality(Free) <= Cardinality(Funded)
  BY DEF Covered, P, O
<1>14. /\ IsFiniteSet(P') /\ Cardinality(P') = Cardinality(P) + One(mv)
       /\ IsFiniteSet(Free') /\ Cardinality(Free') = Cardinality(Free) + One(fr)
       /\ IsFiniteSet(Funded') /\ Cardinality(Funded') = Cardinality(Funded) + One(fu)
       /\ Cardinality(P) \in Nat /\ Cardinality(Free) \in Nat /\ Cardinality(Funded) \in Nat
  BY <1>7, <1>8, <1>10, <1>11, <1>12, <1>13, CountOne, Zenon
<1>15. Cardinality(O) \in Nat /\ supply \in Nat
  BY <1>13, FS_CardinalityType DEF TypeOK
<1>16. supply' + Cardinality(P') + Cardinality(O') + Cardinality(Free') <= Cardinality(Funded')
  <2>1. One(mv) \in Nat /\ One(fr) \in Nat /\ One(fu) \in Nat
    BY DEF One
  <2> QED BY <1>6, <1>9, <1>13, <1>14, <1>15, <2>1
<1> QED BY <1>9, <1>13, <1>14, <1>16 DEF Covered, P, O

\* A rescue claims the unit of a funded inbound, which was free.
LEMMA RescueCovered ==
    ASSUME TypeOK, AllSound, Covered, NEW k, Rescue(k)
    PROVE  Covered'
<1> DEFINE u == utxs[k]
           v == Rescued(u)
           n == Len(u.outs) + 1
           fu == u.inb.funded
           P == Positions("PENDING")
           O == Positions("OBSERVED")
<1>1. k \in DOMAIN utxs /\ Rescuable(u) /\ supply' = supply
  BY DEF Rescue
<1>2. u \in UTX /\ Sound(u)
  BY <1>1 DEF TypeOK, AllSound
<1>3. /\ DOMAIN utxs' = DOMAIN utxs /\ utxs'[k] = v
      /\ \A j \in DOMAIN utxs \ {k} : utxs'[j] = utxs[j]
  BY StepRecords
<1>4. /\ v.inb = u.inb /\ DOMAIN v.outs = DOMAIN u.outs \cup {n} /\ n \notin DOMAIN u.outs
      /\ \A i \in DOMAIN u.outs : v.outs[i] = u.outs[i]
      /\ v.outs[n].type = "RESCUE_FUNDS" /\ v.outs[n].status = "PENDING"
  BY <1>2, RescuedFacts, SMTT(20) DEF Out
<1>5. fu \in BOOLEAN
  BY <1>2, FundedType
<1>6. (fu <=> IsFree(u)) /\ ~IsFree(v)
  BY <1>1, <1>2, <1>4, RescuableFailed DEF IsFree, IsReturn
<1>7. /\ \A i \in DOMAIN u.outs : MovesIn(v, i) <=> MovesIn(u, i)
      /\ MovesIn(v, n) <=> fu
  BY <1>1, <1>4, Zenon DEF MovesIn, IsReturn, Rescuable
<1> HIDE DEF u, v, n
<1>8. P' = IF fu THEN P \cup {<<k, n>>} ELSE P
  <2> DEFINE Q == IF fu THEN P \cup {<<k, n>>} ELSE P
  <2>1. \A kk, i : <<kk, i>> \in P' <=> <<kk, i>> \in Q
    <3>1. \A kk, i : <<kk, i>> \in P <=> /\ kk \in DOMAIN utxs /\ i \in DOMAIN utxs[kk].outs
                 /\ utxs[kk].outs[i].status = "PENDING" /\ MovesIn(utxs[kk], i)
      BY PositionPairs, Zenon
    <3>2. \A kk, i : <<kk, i>> \in P' <=> /\ kk \in DOMAIN utxs' /\ i \in DOMAIN utxs'[kk].outs
                 /\ utxs'[kk].outs[i].status = "PENDING" /\ MovesIn(utxs'[kk], i)
      BY PositionPairsNext, Zenon
    <3>3. \A i : <<k, i>> \in P' <=> <<k, i>> \in P \/ (fu /\ i = n)
      BY <1>1, <1>3, <1>4, <1>7, <3>1, <3>2, SMTT(20) DEF u
    <3>4. \A kk, i : kk # k => (<<kk, i>> \in P' <=> <<kk, i>> \in P)
      BY <1>3, <3>1, <3>2, SMTT(20)
    <3> HIDE DEF P
    <3> QED BY <3>3, <3>4, Zenon
  <2>2. (\A p \in P' : p = <<p[1], p[2]>>) /\ \A p \in Q : p = <<p[1], p[2]>>
    BY PositionPairs, PositionPairsNext
  <2> HIDE DEF P, Q
  <2>3. P' = Q
    BY <2>1, <2>2, SamePairs
  <2> QED BY <2>3 DEF Q
<1>9. O' = O
  <2>1. \A kk, i : <<kk, i>> \in O' <=> <<kk, i>> \in O
    <3>1. \A kk, i : <<kk, i>> \in O <=> /\ kk \in DOMAIN utxs /\ i \in DOMAIN utxs[kk].outs
                 /\ utxs[kk].outs[i].status = "OBSERVED" /\ MovesIn(utxs[kk], i)
      BY PositionPairs, Zenon
    <3>2. \A kk, i : <<kk, i>> \in O' <=> /\ kk \in DOMAIN utxs' /\ i \in DOMAIN utxs'[kk].outs
                 /\ utxs'[kk].outs[i].status = "OBSERVED" /\ MovesIn(utxs'[kk], i)
      BY PositionPairsNext, Zenon
    <3>3. \A i : <<k, i>> \in O' <=> <<k, i>> \in O
      BY <1>1, <1>3, <1>4, <1>7, <3>1, <3>2, SMTT(20) DEF u
    <3>4. \A kk, i : kk # k => (<<kk, i>> \in O' <=> <<kk, i>> \in O)
      BY <1>3, <3>1, <3>2
    <3> HIDE DEF O
    <3> QED BY <3>3, <3>4, Zenon
  <2>2. (\A p \in O' : p = <<p[1], p[2]>>) /\ \A p \in O : p = <<p[1], p[2]>>
    BY PositionPairs, PositionPairsNext
  <2> HIDE DEF O
  <2> QED BY <2>1, <2>2, SamePairs
<1>10. Free' = IF fu THEN Free \ {k} ELSE Free
  <2>1. Free' = {j \in DOMAIN utxs' : IsFree(utxs'[j])}
    BY DEF Free, IsFree, NoDeposit, IsReturn
  <2>2. \A j : j \in Free' <=> j \in Free /\ j # k
    BY <1>3, <1>6, <2>1 DEF Free
  <2>3. k \in Free <=> fu
    BY <1>1, <1>6 DEF Free, u
  <2> QED BY <2>2, <2>3
<1>11. Funded' = Funded
  BY <1>1, <1>3, <1>4 DEF Funded, u
<1>12. <<k, n>> \notin P /\ (fu => k \in Free)
  BY <1>1, <1>4, <1>6, PositionPairs DEF Free, u
<1> HIDE DEF P, O, fu
<1>13. /\ IsFiniteSet(P) /\ IsFiniteSet(O) /\ IsFiniteSet(Free) /\ IsFiniteSet(Funded)
       /\ supply + Cardinality(P) + Cardinality(O) + Cardinality(Free) <= Cardinality(Funded)
  BY DEF Covered, P, O
<1>14. /\ IsFiniteSet(P') /\ Cardinality(P') = Cardinality(P) + One(fu)
       /\ IsFiniteSet(Free') /\ Cardinality(Free') = Cardinality(Free) - One(fu)
       /\ Cardinality(P) \in Nat /\ Cardinality(Free) \in Nat
  <2>1. IsFiniteSet(P') /\ Cardinality(P') = Cardinality(P) + One(fu) /\ Cardinality(P) \in Nat
    BY <1>5, <1>8, <1>12, <1>13, CountOne, Zenon DEF fu
  <2>2. IsFiniteSet(Free') /\ Cardinality(Free') = Cardinality(Free) - One(fu) /\ Cardinality(Free) \in Nat
    <3>1. CASE fu
      BY <1>5, <1>10, <1>12, <1>13, <3>1, CountOne, Zenon DEF fu
    <3>2. CASE ~fu
      BY <1>10, <1>13, <3>2, FS_CardinalityType DEF One
    <3> QED BY <3>1, <3>2
  <2> QED BY <2>1, <2>2
<1>15. Cardinality(O) \in Nat /\ supply \in Nat /\ Cardinality(Funded) \in Nat /\ One(fu) \in Nat
  BY <1>13, FS_CardinalityType DEF TypeOK, One
<1>16. supply' + Cardinality(P') + Cardinality(O') + Cardinality(Free') <= Cardinality(Funded')
  BY <1>1, <1>9, <1>11, <1>13, <1>14, <1>15
<1> QED BY <1>9, <1>11, <1>13, <1>14, <1>16 DEF Covered, P, O

\* A settlement moves the unit of the outbound: to the supply, to the free ones or out.
LEMMA SettlementCovered ==
    ASSUME TypeOK, Covered, NEW k, NEW i, NEW s \in {"OBSERVED", "REVERTED", "ABORTED"},
           Settlement(k, i, s)
    PROVE  Covered'
<1> DEFINE u == utxs[k]
           v == Settled(u, i, s)
           mv == MovesIn(u, i)
           ob == mv /\ s = "OBSERVED"
           mint == s = "REVERTED" /\ u.outs[i].type = "FUNDS"
           fr == IsFree(v)
           P == Positions("PENDING")
           O == Positions("OBSERVED")
<1>1. /\ k \in DOMAIN utxs /\ i \in DOMAIN u.outs /\ u.outs[i].status = "PENDING"
      /\ supply' = supply + One(mint) /\ (s = "ABORTED" => u.outs[i].type = "FUNDS")
  BY DEF Settlement
<1>2. u \in UTX
  BY <1>1 DEF TypeOK
<1>3. /\ DOMAIN utxs' = DOMAIN utxs /\ utxs'[k] = v
      /\ \A j \in DOMAIN utxs \ {k} : utxs'[j] = utxs[j]
  BY StepRecords
<1>4. /\ v.inb = u.inb /\ v.pctx = u.pctx /\ DOMAIN v.outs = DOMAIN u.outs
      /\ \A j \in DOMAIN u.outs \ {i} : v.outs[j] = u.outs[j]
      /\ v.outs[i].type = u.outs[i].type /\ v.outs[i].status = s
  <2> HIDE DEF u
  <2> QED BY <1>1, <1>2, SettledFacts, SMTT(20)
<1>5. u.inb.funded \in BOOLEAN /\ mv \in BOOLEAN
  BY <1>2, FundedType, Zenon DEF MovesIn
<1>6. \A j \in DOMAIN u.outs : MovesIn(v, j) <=> MovesIn(u, j)
  BY <1>4 DEF MovesIn, IsReturn
<1>7. /\ IsReturn(v.outs[i]) <=> IsReturn(u.outs[i])
      /\ ~IsReturn(u.outs[i]) => (IsFree(v) <=> IsFree(u))
      /\ IsReturn(u.outs[i]) => ~IsFree(u) /\ (IsFree(v) => s = "REVERTED" /\ u.inb.funded)
  <2>1. IsReturn(v.outs[i]) <=> IsReturn(u.outs[i])
    BY <1>4 DEF IsReturn
  <2>2. (NoDeposit(v) <=> NoDeposit(u)) /\ (v.inb.funded <=> u.inb.funded)
    BY <1>4 DEF NoDeposit
  <2>3. ASSUME ~IsReturn(u.outs[i]) PROVE IsFree(v) <=> IsFree(u)
    BY <1>4, <2>1, <2>2, <2>3, Zenon DEF IsFree
  <2>4. ASSUME IsReturn(u.outs[i]) PROVE ~IsFree(u) /\ (IsFree(v) => s = "REVERTED" /\ u.inb.funded)
    BY <1>1, <1>4, <2>1, <2>2, <2>4, Zenon DEF IsFree
  <2> QED BY <2>1, <2>3, <2>4
<1>8. /\ u.outs[i].type = "FUNDS" => mv /\ ~IsReturn(u.outs[i])
      /\ IsReturn(u.outs[i]) /\ u.inb.funded => mv
  <2>1. NoInbound.funded = FALSE
    BY DEF NoInbound
  <2> QED BY <2>1 DEF MovesIn, IsReturn
<1> HIDE DEF u, v, mv, mint, fr, ob
<1>9. P' = IF mv THEN P \ {<<k, i>>} ELSE P
  <2> DEFINE Q == IF mv THEN P \ {<<k, i>>} ELSE P
  <2>1. \A kk, ii : <<kk, ii>> \in P' <=> <<kk, ii>> \in Q
    <3>1. \A kk, ii : <<kk, ii>> \in P <=> /\ kk \in DOMAIN utxs /\ ii \in DOMAIN utxs[kk].outs
                 /\ utxs[kk].outs[ii].status = "PENDING" /\ MovesIn(utxs[kk], ii)
      BY PositionPairs, Zenon
    <3>2. \A kk, ii : <<kk, ii>> \in P' <=> /\ kk \in DOMAIN utxs' /\ ii \in DOMAIN utxs'[kk].outs
                 /\ utxs'[kk].outs[ii].status = "PENDING" /\ MovesIn(utxs'[kk], ii)
      BY PositionPairsNext, Zenon
    <3>3. /\ \A ii : ii # i => (<<k, ii>> \in P' <=> <<k, ii>> \in P)
          /\ <<k, i>> \notin P' /\ (<<k, i>> \in P <=> mv)
      <4>1. \A ii : <<k, ii>> \in P <=>
                /\ ii \in DOMAIN u.outs /\ u.outs[ii].status = "PENDING" /\ MovesIn(u, ii)
        BY <1>1, <3>1 DEF u
      <4>2. \A ii : <<k, ii>> \in P' <=>
                /\ ii \in DOMAIN v.outs /\ v.outs[ii].status = "PENDING" /\ MovesIn(v, ii)
        BY <1>1, <1>3, <3>2
      <4> HIDE DEF P
      <4> QED BY <1>1, <1>4, <1>6, <4>1, <4>2, SMTT(20) DEF mv
    <3>4. \A kk, ii : kk # k => (<<kk, ii>> \in P' <=> <<kk, ii>> \in P)
      BY <1>3, <3>1, <3>2
    <3> HIDE DEF P
    <3> QED BY <3>3, <3>4, Zenon
  <2>2. (\A p \in P' : p = <<p[1], p[2]>>) /\ \A p \in Q : p = <<p[1], p[2]>>
    BY PositionPairs, PositionPairsNext
  <2> HIDE DEF P, Q
  <2>3. P' = Q
    BY <2>1, <2>2, SamePairs
  <2> QED BY <2>3 DEF Q
<1>10. O' = IF ob THEN O \cup {<<k, i>>} ELSE O
  <2> DEFINE Q == IF ob THEN O \cup {<<k, i>>} ELSE O
  <2>1. \A kk, ii : <<kk, ii>> \in O' <=> <<kk, ii>> \in Q
    <3>1. \A kk, ii : <<kk, ii>> \in O <=> /\ kk \in DOMAIN utxs /\ ii \in DOMAIN utxs[kk].outs
                 /\ utxs[kk].outs[ii].status = "OBSERVED" /\ MovesIn(utxs[kk], ii)
      BY PositionPairs, Zenon
    <3>2. \A kk, ii : <<kk, ii>> \in O' <=> /\ kk \in DOMAIN utxs' /\ ii \in DOMAIN utxs'[kk].outs
                 /\ utxs'[kk].outs[ii].status = "OBSERVED" /\ MovesIn(utxs'[kk], ii)
      BY PositionPairsNext, Zenon
    <3>3. /\ \A ii : ii # i => (<<k, ii>> \in O' <=> <<k, ii>> \in O)
          /\ <<k, i>> \notin O /\ (<<k, i>> \in O' <=> ob)
      <4>1. \A ii : <<k, ii>> \in O <=>
                /\ ii \in DOMAIN u.outs /\ u.outs[ii].status = "OBSERVED" /\ MovesIn(u, ii)
        BY <1>1, <3>1 DEF u
      <4>2. \A ii : <<k, ii>> \in O' <=>
                /\ ii \in DOMAIN v.outs /\ v.outs[ii].status = "OBSERVED" /\ MovesIn(v, ii)
        BY <1>1, <1>3, <3>2
      <4> HIDE DEF O
      <4> QED BY <1>1, <1>4, <1>6, <4>1, <4>2, SMTT(20) DEF mv, ob
    <3>4. \A kk, ii : kk # k => (<<kk, ii>> \in O' <=> <<kk, ii>> \in O)
      BY <1>3, <3>1, <3>2
    <3> HIDE DEF O
    <3> QED BY <3>3, <3>4, Zenon
  <2>2. (\A p \in O' : p = <<p[1], p[2]>>) /\ \A p \in Q : p = <<p[1], p[2]>>
    BY PositionPairs, PositionPairsNext
  <2> HIDE DEF O, Q
  <2>3. O' = Q
    BY <2>1, <2>2, SamePairs
  <2> QED BY <2>3 DEF Q
<1> DEFINE nf == fr /\ IsReturn(u.outs[i])
<1>11. Free' = IF nf THEN Free \cup {k} ELSE Free
  <2>1. Free' = {j \in DOMAIN utxs' : IsFree(utxs'[j])}
    BY DEF Free, IsFree, NoDeposit, IsReturn
  <2>2. \A j : j # k => (j \in Free' <=> j \in Free)
    BY <1>3, <2>1 DEF Free
  <2>3. (k \in Free' <=> fr) /\ (k \in Free <=> IsFree(u))
    BY <1>1, <1>3, <2>1 DEF Free, fr, u
  <2>4. k \in Free' <=> nf \/ k \in Free
    BY <1>7, <2>3 DEF fr
  <2> HIDE DEF nf
  <2> QED BY <2>2, <2>4
<1>12. Funded' = Funded
  BY <1>1, <1>3, <1>4 DEF Funded, u
<1>13. mv => <<k, i>> \in P
  BY <1>1, PositionPairs DEF u, mv
<1> HIDE DEF P, O, nf
<1>14. /\ IsFiniteSet(P) /\ IsFiniteSet(O) /\ IsFiniteSet(Free) /\ IsFiniteSet(Funded)
       /\ supply + Cardinality(P) + Cardinality(O) + Cardinality(Free) <= Cardinality(Funded)
  BY DEF Covered, P, O
<1>15. /\ Cardinality(P) \in Nat /\ Cardinality(O) \in Nat /\ Cardinality(Free) \in Nat
       /\ Cardinality(Funded) \in Nat /\ supply \in Nat
  BY <1>14, FS_CardinalityType DEF TypeOK
<1>16. IsFiniteSet(P') /\ Cardinality(P') = Cardinality(P) - One(mv)
  <2>1. CASE mv
    BY <1>5, <1>9, <1>13, <1>14, <2>1, CountOne, Zenon
  <2>2. CASE ~mv
    BY <1>9, <1>14, <1>15, <2>2 DEF One
  <2> QED BY <2>1, <2>2
<1>17. /\ IsFiniteSet(O') /\ Cardinality(O') <= Cardinality(O) + One(ob)
       /\ IsFiniteSet(Free') /\ Cardinality(Free') <= Cardinality(Free) + One(nf)
       /\ Cardinality(O') \in Nat /\ Cardinality(Free') \in Nat
  <2>1. ob \in BOOLEAN /\ nf \in BOOLEAN
    BY <1>5 DEF ob, nf, fr, IsFree
  <2> QED BY <1>10, <1>11, <1>14, <2>1, CountOne, Zenon
<1>18. One(mint) + One(ob) + One(nf) <= One(mv)
  <2>1. nf => s = "REVERTED" /\ mv /\ ~mint
    BY <1>7, <1>8 DEF nf, fr, mint
  <2>2. mint => mv /\ s = "REVERTED"
    BY <1>8 DEF mint
  <2>3. ob => mv /\ s = "OBSERVED"
    BY DEF ob
  <2> QED BY <2>1, <2>2, <2>3 DEF One
<1>19. supply' + Cardinality(P') + Cardinality(O') + Cardinality(Free') <= Cardinality(Funded')
  <2>1. One(mint) \in Nat /\ One(ob) \in Nat /\ One(nf) \in Nat /\ One(mv) \in Nat
    BY DEF One
  <2> QED BY <1>1, <1>12, <1>14, <1>15, <1>16, <1>17, <1>18, <2>1, SMTT(20)
<1> QED BY <1>12, <1>14, <1>16, <1>17, <1>19 DEF Covered, P, O

\* When no CEA inbound is given an INBOUND_REVERT, the vault covers every claim: what
\* deposits mint, calls burn, failed outbounds mint back and reverts and rescues claim
\* never exceeds what inbounds locked, whatever the order of the votes on them.
THEOREM VaultCoversClaims == CeaReverts = FALSE => (Spec => []Solvent)
<1> SUFFICES ASSUME CeaReverts = FALSE PROVE Spec => []Solvent
  OBVIOUS
<1>1. Init => Covered
  <2> SUFFICES ASSUME Init PROVE Covered
    OBVIOUS
  <2>1. Positions("PENDING") = {} /\ Positions("OBSERVED") = {} /\ Free = {} /\ Funded = {}
    BY DEF Init, Positions, Free, Funded
  <2>2. IsFiniteSet({}) /\ Cardinality({}) = 0 /\ supply = 0
    BY FS_EmptySet DEF Init
  <2> QED BY <2>1, <2>2 DEF Covered
<1>2. Init => AllSound
  BY DEF Init, AllSound
<1>3. TypeOK /\ AllSound /\ Covered /\ [Next]_uexVars => AllSound' /\ Covered'
  <2> SUFFICES ASSUME TypeOK, AllSound, Covered, [Next]_uexVars PROVE AllSound' /\ Covered'
    OBVIOUS
  <2>1. CASE UNCHANGED uexVars
    <3>1. AllSound'
      <4>1. utxs' = utxs
        BY <2>1 DEF uexVars
      <4> QED BY <4>1, SMTT(40) DEF AllSound, Sound, NoDeposit, HasRevert, IsReturn
    <3>2. Covered'
      BY <2>1, Zenon DEF Covered, uexVars, Positions, Moves, Free, Funded, IsFree, NoDeposit, IsReturn
    <3> QED BY <3>1, <3>2
  <2>2. CASE Next
    <3>1. AllSound' /\ supply' \in Nat
      BY <2>2, SoundStep, SupplyStep, Zenon
    <3>2. Covered'
      BY <2>2, <3>1, StepKinds, BirthCovered, RescueCovered, SettlementCovered
    <3> QED BY <3>1, <3>2
  <2> QED BY <2>1, <2>2
<1>4. TypeOK /\ Covered => Solvent
  <2> SUFFICES ASSUME TypeOK, Covered PROVE Solvent
    OBVIOUS
  <2>1. /\ Cardinality(Positions("PENDING")) \in Nat /\ Cardinality(Positions("OBSERVED")) \in Nat
        /\ Cardinality(Free) \in Nat /\ Cardinality(Funded) \in Nat /\ supply \in Nat
    BY FS_CardinalityType DEF Covered, TypeOK
  <2> QED BY <2>1 DEF Covered, Solvent, Funded
<1> QED BY <1>1, <1>2, <1>3, <1>4, TypeCorrect, PTL DEF Spec
-----------------------------------------------------------------------------
(***************************************************************************)
(* Outbounds: voting implements UExecutor.  A vote that does not decide, a *)
(* recomputation, a sweep, a purge and a block are stuttering steps of     *)
(* UExecutor; a vote that decides is OutboundDecided.  The simulation      *)
(* needs the types of the UTXs, which in turn follow from it.  The last    *)
(* part is about what only the detailed specification has: the ballots and *)
(* the variants.                                                           *)
(***************************************************************************)

\* Marking OBSERVED and then finalizing is the one status change of UExecutor.
LEMMA FinalizedStatus ==
    ASSUME NEW out \in Outbound, NEW success \in BOOLEAN, NEW minted \in BOOLEAN
    PROVE  FinalizeOutbound([out EXCEPT !.status = "OBSERVED"], success, minted)
             = [out EXCEPT !.status = StatusAfter(out, success, minted)]
BY Zenon DEF FinalizeOutbound, StatusAfter, MintsBack, Outbound

\* VoteOutbound decides the outbound or leaves UExecutor's state alone.
LEMMA VoteDecides ==
    ASSUME TypeOK, NEW v \in Validators, NEW id \in BallotKeys, NEW minted \in BOOLEAN,
           NEW eligible \in EligibleSets, VoteOutbound(v, id[1], id[2], id[3], minted, eligible)
    PROVE  UNCHANGED uexVars \/ OutboundDecided(id[1], id[2], id[3], minted)
<1> DEFINE k == id[1]
           i == id[2]
           success == id[3]
           out == utxs[k].outs[i]
           final == FinalizeOutbound([out EXCEPT !.status = "OBSERVED"], success, minted)
<1>1. k \in InKeys \cup PcKeys /\ i \in 1 .. MaxOuts /\ success \in BOOLEAN
  BY DEF BallotKeys
<1>2. k \in DOMAIN utxs /\ i \in DOMAIN utxs[k].outs /\ out.status = "PENDING"
  BY DEF VoteOutbound
<1>3. \/ UNCHANGED uexVars
      \/ /\ utxs' = [utxs EXCEPT ![k].outs[i] = final]
         /\ pendingOut' = pendingOut \ {<<k, i>>}
         /\ supply' = supply + ReMinted(out, success, minted)
  BY DEF VoteOutbound
<1>4. CASE UNCHANGED uexVars
  BY <1>4
<1>5. CASE /\ utxs' = [utxs EXCEPT ![k].outs[i] = final]
           /\ pendingOut' = pendingOut \ {<<k, i>>}
           /\ supply' = supply + ReMinted(out, success, minted)
  <2>1. out \in Outbound /\ supply \in Nat
    <3>1. utxs[k] \in UTX /\ supply \in Nat
      BY <1>2 DEF TypeOK
    <3>2. utxs[k].outs \in Seq(Outbound)
      BY <3>1 DEF UTX
    <3> QED BY <1>2, <3>1, <3>2, SMTT(20)
  <2>2. final = [out EXCEPT !.status = StatusAfter(out, success, minted)]
    BY <1>1, <2>1, FinalizedStatus
  <2>3. utxs' = [utxs EXCEPT ![k].outs[i].status = StatusAfter(out, success, minted)]
    BY <1>5, <2>2, Zenon
  <2>4. supply' = IF MintsBack(out, success) /\ minted THEN supply + 1 ELSE supply
    BY <1>5, <2>1, SMTT(20) DEF ReMinted, MintsBack
  <2>5. OutboundDecided(k, i, success, minted)
    BY <1>2, <1>5, <2>3, <2>4, Zenon DEF OutboundDecided, IsOpen
  <2> QED BY <2>5
<1> QED BY <1>3, <1>4, <1>5

\* A vote is a step of UExecutor or a stuttering one.
LEMMA VoteSimulates ==
    ASSUME TypeOK, NEW v \in Validators, NEW id \in BallotKeys, NEW minted \in BOOLEAN,
           NEW eligible \in EligibleSets, VoteOutbound(v, id[1], id[2], id[3], minted, eligible)
    PROVE  [Next]_uexVars
<1>1. id[1] \in InKeys \cup PcKeys /\ id[2] \in 1 .. MaxOuts /\ id[3] \in BOOLEAN
  BY DEF BallotKeys
<1>2. OutboundDecided(id[1], id[2], id[3], minted) => Next
  BY <1>1 DEF Next
<1> QED BY <1>2, VoteDecides

\* Recomputations, sweeps, purges and blocks change ballots only; requests are UExecutor's.
LEMMA StepSimulates ==
    ASSUME TypeOK, [OutNext]_vars
    PROVE  [Next]_uexVars
<1>1. CASE Requests
  BY <1>1 DEF Next
<1>2. ASSUME NEW eligible \in EligibleSets, NEW v \in Validators, NEW id \in BallotKeys,
             NEW minted \in BOOLEAN, VoteOutbound(v, id[1], id[2], id[3], minted, eligible)
      PROVE [Next]_uexVars
  BY <1>2, VoteSimulates
<1>3. ASSUME NEW eligible, NEW id, RecomputeOutboundBallot(id, eligible) PROVE [Next]_uexVars
  BY <1>3 DEF RecomputeOutboundBallot, uexVars
<1>4. CASE OpenOtherBallot
  BY <1>4 DEF OpenOtherBallot, uexVars
<1>5. ASSUME NEW guessed, PurgeExpiredOutbounds(guessed) PROVE [Next]_uexVars
  BY <1>5 DEF PurgeExpiredOutbounds, uexVars
<1>6. CASE NextBlock
  BY <1>6 DEF NextBlock, uexVars
<1>7. CASE UNCHANGED vars
  BY <1>7 DEF vars, uexVars
<1> QED BY <1>1, <1>2, <1>3, <1>4, <1>5, <1>6, <1>7 DEF OutNext

\* The validators' votes implement UExecutor: whatever is voted, recomputed, swept and
\* purged, an outbound is decided in one step, once, with the effects UExecutor gives it
\* (VoteOutbound and FinalizeOutbound).
THEOREM VotesImplement == OutSpec => ImplementsUExecutor
<1>1. OutInit => Init
  BY DEF OutInit
<1>2. Init => TypeOK
  BY DEF Init, TypeOK
<1>3. TypeOK /\ [OutNext]_vars => [Next]_uexVars
  BY StepSimulates
<1>4. TypeOK /\ [Next]_uexVars => TypeOK'
  <2>1. TypeOK /\ UNCHANGED uexVars => TypeOK'
    BY DEF TypeOK, uexVars
  <2> QED BY <2>1, TypeStep
<1>5. OutSpec => []TypeOK
  BY <1>1, <1>2, <1>3, <1>4, PTL DEF OutSpec
<1>6. OutSpec => Spec
  BY <1>1, <1>3, <1>5, PTL DEF OutSpec, Spec
<1> QED BY <1>6 DEF ImplementsUExecutor

\* What is proved of UExecutor holds of the votes: the pending index the clients read is
\* exact and, when no CEA inbound is given a revert, funds are returned once and the vault
\* covers every claim.
THEOREM VotesInherit ==
    /\ OutSpec => []PendingOutboundsExact
    /\ OutSpec => HistoryKept
    /\ CeaReverts = FALSE => (OutSpec => []ReturnedOnce /\ []Solvent)
BY VotesImplement, PendingIndexExact, HistoryIsKept, FundsReturnedOnce, VaultCoversClaims
   DEF ImplementsUExecutor
-----------------------------------------------------------------------------
\* A ballot on an observation: nobody votes against one.
OutBallotOK(b) ==
    /\ b = [voters |-> b.voters, votes |-> b.votes, threshold |-> b.threshold,
            status |-> b.status, expiry |-> b.expiry]
    /\ b.voters \in SUBSET Validators
    /\ b.votes \in [b.voters -> {NotYet, "SUCCESS"}]
    /\ b.threshold \in Nat \ {0}
    /\ b.status \in {"PENDING", "PASSED", "EXPIRED"}

\* c is b after steps that count no vote.
Weaker(c, b) ==
    /\ OutBallotOK(c)
    /\ c.status = "PASSED" <=> b.status = "PASSED"
    /\ YesVoters(c) \subseteq YesVoters(b)

\* The quorum of an eligible set is at least one vote.
LEMMA QuorumPositive ==
    ASSUME NEW E \in EligibleSets
    PROVE  E \in SUBSET Validators /\ Quorum(Cardinality(E)) \in Nat \ {0}
<1>1. E \in SUBSET Validators /\ IsFiniteSet(Validators)
  BY OutValidatorsAssumption
<1>2. Cardinality(E) \in Nat
  BY <1>1, FS_Subset, FS_CardinalityType
<1> QED BY <1>1, <1>2 DEF Quorum

\* A vote is counted, and the ballot passes or stays pending: it cannot be rejected.
LEMMA VoteCounts ==
    ASSUME NEW b, OutBallotOK(b), NEW v, CanAddVote(b, v)
    PROVE  LET voted1 == AddVote(b, v, "SUCCESS")
               c == [voted1 EXCEPT !.status = IsFinalizingVote(voted1)]
           IN  OutBallotOK(c) /\ c.status \in {"PENDING", "PASSED"} /\ YesVoters(c) \subseteq YesVoters(b) \cup {v}
<1> DEFINE voted1 == AddVote(b, v, "SUCCESS")
           c == [voted1 EXCEPT !.status = IsFinalizingVote(voted1)]
           cast == [b.votes EXCEPT ![v] = "SUCCESS"]
<1>1. /\ voted1 = [voters |-> b.voters, votes |-> cast, threshold |-> b.threshold,
                   status |-> "PENDING", expiry |-> b.expiry]
      /\ cast \in [b.voters -> {NotYet, "SUCCESS"}]
  BY DEF OutBallotOK, CanAddVote, AddVote
<1>2. NoVoters(voted1) = {}
  BY <1>1, SMTT(20) DEF NoVoters, NotYet
<1>3. IsFinalizingVote(voted1) \in {"PENDING", "PASSED"}
  BY <1>1, <1>2, FS_EmptySet DEF IsFinalizingVote, OutBallotOK
<1>4. c = [voters |-> b.voters, votes |-> cast, threshold |-> b.threshold,
           status |-> IsFinalizingVote(voted1), expiry |-> b.expiry]
  BY <1>1
<1>5. OutBallotOK(c) /\ c.status \in {"PENDING", "PASSED"}
  BY <1>1, <1>3, <1>4 DEF OutBallotOK
<1>6. YesVoters(c) \subseteq YesVoters(b) \cup {v}
  BY <1>4 DEF YesVoters, OutBallotOK
<1> QED BY <1>5, <1>6

\* Expiring a pending ballot counts nothing and keeps its votes.
LEMMA ExpiryWeakens ==
    ASSUME NEW b, OutBallotOK(b), b.status = "PENDING"
    PROVE  Weaker(Expired(b), b)
<1>1. Expired(b) = [voters |-> b.voters, votes |-> b.votes, threshold |-> b.threshold,
                    status |-> "EXPIRED", expiry |-> b.expiry]
  BY DEF OutBallotOK, Expired
<1> QED BY <1>1, SMTT(20) DEF OutBallotOK, Weaker, YesVoters

\* Recomputing a pending ballot keeps votes of its voters and adds none.
LEMMA RecomputeWeakens ==
    ASSUME NEW b, OutBallotOK(b), b.status = "PENDING", NEW E \in EligibleSets
    PROVE  Weaker(RecomputeBallotQuorum(b, E), b)
<1>1. CASE E = {}
  BY <1>1, ExpiryWeakens DEF RecomputeBallotQuorum
<1>2. CASE E # {}
  <2> DEFINE cast == [v \in E |-> IF v \in b.voters THEN b.votes[v] ELSE NotYet]
             q == Quorum(Cardinality(E))
             c == RecomputeBallotQuorum(b, E)
  <2>1. c = [voters |-> E, votes |-> cast, threshold |-> q, status |-> "PENDING", expiry |-> b.expiry]
    BY <1>2, Zenon DEF RecomputeBallotQuorum, OutBallotOK
  <2>2. cast \in [E -> {NotYet, "SUCCESS"}]
    BY DEF OutBallotOK
  <2>3. E \in SUBSET Validators /\ q \in Nat \ {0}
    BY QuorumPositive
  <2>4. YesVoters(c) \subseteq YesVoters(b)
    BY <2>1 DEF YesVoters, NotYet
  <2> HIDE DEF cast, q
  <2>5. OutBallotOK(c)
    BY <2>1, <2>2, <2>3 DEF OutBallotOK
  <2> QED BY <2>1, <2>4, <2>5 DEF Weaker
<1> QED BY <1>1, <1>2
-----------------------------------------------------------------------------
Passed(id) == id \in DOMAIN ballots /\ ballots[id].status = "PASSED"

StatusesOf(success) == IF success THEN {"OBSERVED"} ELSE {"REVERTED", "ABORTED"}

(***************************************************************************)
(* The inductive invariant.  A ballot is about an outbound that exists, so *)
(* a new outbound meets no ballot of its own.                              *)
(***************************************************************************)
BallotsKnown ==
    /\ ballots = [id \in DOMAIN ballots |-> ballots[id]]
    /\ \A id \in DOMAIN ballots : OutBallotOK(ballots[id])
    /\ \A k, i, s : <<k, i, s>> \in DOMAIN ballots => IsKnown(k, i)

SettledPairs ==
    \A k, i : IsKnown(k, i) => \A s \in BOOLEAN :
        Passed(<<k, i, s>>) <=> utxs[k].outs[i].status \in StatusesOf(s)

VotersNamed ==
    \A k, i, s : <<k, i>> \in pendingOut /\ s \in BOOLEAN /\ <<k, i, s>> \in DOMAIN ballots
        => YesVoters(ballots[<<k, i, s>>]) \subseteq voted[<<k, i>>][s]

VotedOK == voted \in [pendingOut -> [BOOLEAN -> SUBSET Validators]]

OutInv == TypeOK /\ PendingPairs /\ BallotsKnown /\ SettledPairs /\ VotersNamed /\ VotedOK

\* Ballots change without a vote being counted: none that passed is lost.
QuietBallots ==
    /\ ballots' = [id \in DOMAIN ballots' |-> ballots'[id]]
    /\ DOMAIN ballots' \subseteq DOMAIN ballots
    /\ \A id \in DOMAIN ballots' : Weaker(ballots'[id], ballots[id])
    /\ \A id \in DOMAIN ballots : ballots[id].status = "PASSED" => id \in DOMAIN ballots'

\* Steps that only count no vote keep the invariant.
LEMMA QuietStep ==
    ASSUME OutInv, QuietBallots, UNCHANGED <<utxs, pendingOut, supply, voted>>
    PROVE  OutInv'
<1>1. TypeOK' /\ PendingPairs'
  BY DEF OutInv, TypeOK, PendingPairs, IsOpen
<1>2. BallotsKnown'
  <2>1. \A id \in DOMAIN ballots' : OutBallotOK(ballots'[id])
    BY DEF QuietBallots, Weaker
  <2>2. \A k, i, s : <<k, i, s>> \in DOMAIN ballots' => IsKnown(k, i)'
    BY DEF QuietBallots, OutInv, BallotsKnown, IsKnown
  <2> QED BY <2>1, <2>2 DEF BallotsKnown, QuietBallots, OutBallotOK
<1>3. \A id : Passed(id)' <=> Passed(id)
  BY DEF Passed, QuietBallots, Weaker
<1>4. SettledPairs'
  BY <1>3 DEF OutInv, SettledPairs, IsKnown
<1>5. VotersNamed'
  <2> SUFFICES ASSUME NEW k, NEW i, NEW s \in BOOLEAN, <<k, i>> \in pendingOut, <<k, i, s>> \in DOMAIN ballots'
               PROVE  YesVoters(ballots'[<<k, i, s>>]) \subseteq voted[<<k, i>>][s]
    BY DEF VotersNamed, YesVoters
  <2>1. YesVoters(ballots'[<<k, i, s>>]) \subseteq YesVoters(ballots[<<k, i, s>>]) /\ <<k, i, s>> \in DOMAIN ballots
    BY DEF QuietBallots, Weaker
  <2> QED BY <2>1 DEF OutInv, VotersNamed
<1>6. VotedOK'
  BY DEF OutInv, VotedOK
<1> QED BY <1>1, <1>2, <1>4, <1>5, <1>6 DEF OutInv

\* RecomputeBallot counts no vote.
LEMMA RecomputeQuiet ==
    ASSUME OutInv, NEW id, NEW E \in EligibleSets, RecomputeOutboundBallot(id, E)
    PROVE  QuietBallots
<1>1. /\ id \in DOMAIN ballots /\ ballots[id].status = "PENDING"
      /\ ballots' = [ballots EXCEPT ![id] = RecomputeBallotQuorum(ballots[id], E)]
  BY DEF RecomputeOutboundBallot
<1>2. ballots = [j \in DOMAIN ballots |-> ballots[j]] /\ \A j \in DOMAIN ballots : OutBallotOK(ballots[j])
  BY DEF OutInv, BallotsKnown
<1>3. Weaker(RecomputeBallotQuorum(ballots[id], E), ballots[id])
  BY <1>1, <1>2, RecomputeWeakens
<1>4. \A j \in DOMAIN ballots : Weaker(ballots[j], ballots[j])
  BY <1>2 DEF Weaker
<1>5. /\ DOMAIN ballots' = DOMAIN ballots /\ ballots' = [j \in DOMAIN ballots' |-> ballots'[j]]
      /\ ballots'[id] = RecomputeBallotQuorum(ballots[id], E)
      /\ \A j \in DOMAIN ballots \ {id} : ballots'[j] = ballots[j]
  BY <1>1, <1>2, Zenon
<1> QED BY <1>3, <1>4, <1>5 DEF QuietBallots

\* ExpireBallotsBeforeHeight only expires pending ballots.
LEMMA SweepQuiet ==
    ASSUME OutInv, ballots' = ExpireBallotsBeforeHeight(ballots, height)
    PROVE  QuietBallots
<1>1. \A j \in DOMAIN ballots : OutBallotOK(ballots[j])
  BY DEF OutInv, BallotsKnown
<1>2. \A j \in DOMAIN ballots : Weaker(ballots[j], ballots[j])
  BY <1>1 DEF Weaker
<1>3. \A j \in Stale(ballots, height) : Weaker(Expired(ballots[j]), ballots[j])
  BY <1>1, ExpiryWeakens DEF Stale
<1>4. /\ DOMAIN ballots' = DOMAIN ballots /\ ballots' = [j \in DOMAIN ballots' |-> ballots'[j]]
      /\ \A j \in DOMAIN ballots :
            ballots'[j] = IF j \in Stale(ballots, height) THEN Expired(ballots[j]) ELSE ballots[j]
  BY DEF ExpireBallotsBeforeHeight
<1> QED BY <1>2, <1>3, <1>4 DEF QuietBallots

\* PurgeExpiredOutbounds deletes expired ballots only.
LEMMA PurgeQuiet ==
    ASSUME OutInv, NEW guessed, PurgeExpiredOutbounds(guessed)
    PROVE  QuietBallots
<1> DEFINE gone == UNION {FindExpiredBallot(p, guessed) : p \in pendingOut}
<1>1. ballots' = [id \in DOMAIN ballots \ gone |-> ballots[id]]
  BY DEF PurgeExpiredOutbounds
<1>2. \A id \in gone : id \in DOMAIN ballots /\ ballots[id].status = "EXPIRED"
  <2> SUFFICES ASSUME NEW p \in pendingOut, NEW id \in FindExpiredBallot(p, guessed)
               PROVE  id \in DOMAIN ballots /\ ballots[id].status = "EXPIRED"
    OBVIOUS
  <2> QED BY Zenon DEF FindExpiredBallot
<1>3. \A j \in DOMAIN ballots : Weaker(ballots[j], ballots[j])
  BY DEF Weaker, OutInv, BallotsKnown
<1> HIDE DEF gone
<1> QED BY <1>1, <1>2, <1>3 DEF QuietBallots

\* A new outbound has no ballot yet; the outbounds that were known are as they were.
LEMMA RequestStep ==
    ASSUME OutInv, Requests, voted' = Entries(pendingOut'), UNCHANGED ballots
    PROVE  OutInv'
<1>1. TypeOK' /\ PendingPairs'
  BY TypeStep, PairsStep DEF OutInv, Next
<1>2. \A k \in DOMAIN utxs : utxs[k] \in UTX
  BY DEF OutInv, TypeOK
<1>3. /\ \A k, i : IsKnown(k, i) => IsKnown(k, i)' /\ utxs'[k].outs[i] = utxs[k].outs[i]
      /\ \A k, i : IsKnown(k, i)' /\ ~IsKnown(k, i) => utxs'[k].outs[i].status = "PENDING"
  <2>1. ASSUME NEW kk, NEW u, Birth(kk, u) PROVE <1>3!1 /\ <1>3!2
    <3>1. /\ DOMAIN utxs' = DOMAIN utxs \cup {kk} /\ kk \notin DOMAIN utxs
          /\ utxs'[kk] = u /\ \A j \in DOMAIN utxs : utxs'[j] = utxs[j]
      BY <2>1, StepRecords, Zenon DEF OutInv
    <3>2. \A i \in DOMAIN u.outs : u.outs[i].status = "PENDING"
      BY <2>1 DEF Birth, Born
    <3> QED BY <3>1, <3>2 DEF IsKnown
  <2>2. ASSUME NEW kk, Rescue(kk) PROVE <1>3!1 /\ <1>3!2
    <3> DEFINE w == Rescued(utxs[kk])
               n == Len(utxs[kk].outs) + 1
    <3>1. kk \in DOMAIN utxs
      BY <2>2 DEF Rescue
    <3>2. /\ DOMAIN utxs' = DOMAIN utxs /\ utxs'[kk] = w
          /\ \A j \in DOMAIN utxs \ {kk} : utxs'[j] = utxs[j]
      BY <2>2, StepRecords DEF OutInv
    <3>3. /\ DOMAIN w.outs = DOMAIN utxs[kk].outs \cup {n} /\ w.outs[n] = Out("RESCUE_FUNDS")
          /\ \A i \in DOMAIN utxs[kk].outs : w.outs[i] = utxs[kk].outs[i]
      BY <1>2, <3>1, RescuedFacts
    <3>4. w.outs[n].status = "PENDING"
      BY <3>3, SMTT(20) DEF Out
    <3> HIDE DEF w, n
    <3> QED BY <3>1, <3>2, <3>3, <3>4 DEF IsKnown
  <2> QED BY <2>1, <2>2, RequestKinds, Zenon DEF OutInv
<1>4. BallotsKnown'
  BY <1>3 DEF OutInv, BallotsKnown, OutBallotOK
<1>5. SettledPairs'
  <2> SUFFICES ASSUME NEW k, NEW i, IsKnown(k, i)', NEW s \in BOOLEAN
               PROVE  Passed(<<k, i, s>>)' <=> utxs'[k].outs[i].status \in StatusesOf(s)
    BY DEF SettledPairs, StatusesOf
  <2>1. Passed(<<k, i, s>>)' <=> Passed(<<k, i, s>>)
    BY DEF Passed
  <2>2. CASE IsKnown(k, i)
    BY <1>3, <2>1, <2>2 DEF OutInv, SettledPairs
  <2>3. CASE ~IsKnown(k, i)
    <3>1. ~Passed(<<k, i, s>>)
      BY <2>3 DEF Passed, OutInv, BallotsKnown
    <3> QED BY <1>3, <2>1, <2>3, <3>1 DEF StatusesOf
  <2> QED BY <2>2, <2>3
<1>6. /\ DOMAIN voted' = pendingOut'
      /\ voted' = [p \in pendingOut' |-> voted'[p]]
      /\ \A p \in pendingOut' : voted'[p] = IF p \in pendingOut THEN voted[p] ELSE [s \in BOOLEAN |-> {}]
  BY DEF Entries, OutInv, VotedOK
<1>7. VotedOK'
  BY <1>6 DEF VotedOK, OutInv
<1>8. VotersNamed'
  <2> SUFFICES ASSUME NEW k, NEW i, NEW s \in BOOLEAN, <<k, i>> \in pendingOut', <<k, i, s>> \in DOMAIN ballots
               PROVE  YesVoters(ballots[<<k, i, s>>]) \subseteq voted'[<<k, i>>][s]
    BY DEF VotersNamed, YesVoters
  <2>1. IsKnown(k, i) /\ IsOpen(k, i)'
    BY <1>1 DEF OutInv, BallotsKnown, PendingPairs
  <2>2. IsOpen(k, i)
    BY <1>3, <2>1 DEF IsOpen, IsKnown
  <2>3. <<k, i>> \in pendingOut
    BY <2>2 DEF OutInv, PendingPairs
  <2> QED BY <1>6, <2>3 DEF OutInv, VotersNamed
<1> QED BY <1>1, <1>4, <1>5, <1>7, <1>8 DEF OutInv

\* What VoteOnBallot does to the store: the voted ballot counts the vote, the others
\* are at most swept.
LEMMA StoreAfterVote ==
    ASSUME OutInv, NEW id, NEW v, NEW E \in EligibleSets,
           VoteAccepted(ballots, id, OutboundBallot(E), v, height)
    PROVE  LET store == VoteOnBallot(ballots, id, OutboundBallot(E), v, "SUCCESS", height)
           IN  /\ DOMAIN store = DOMAIN ballots \cup {id} /\ store = [j \in DOMAIN store |-> store[j]]
               /\ OutBallotOK(store[id]) /\ store[id].status \in {"PENDING", "PASSED"}
               /\ YesVoters(store[id]) \subseteq (IF id \in DOMAIN ballots THEN YesVoters(ballots[id]) ELSE {}) \cup {v}
               /\ \A j \in DOMAIN ballots \ {id} : Weaker(store[j], ballots[j])
<1> DEFINE new == OutboundBallot(E)
           open == GetOrCreateBallot(ballots, id, new, height)
           cast == AddVote(open[id], v, "SUCCESS")
           b == [cast EXCEPT !.status = IsFinalizingVote(cast)]
           store == VoteOnBallot(ballots, id, new, v, "SUCCESS", height)
<1>1. ballots = [j \in DOMAIN ballots |-> ballots[j]] /\ \A j \in DOMAIN ballots : OutBallotOK(ballots[j])
  BY DEF OutInv, BallotsKnown
<1>2. OutBallotOK(new) /\ YesVoters(new) = {}
  <2>1. E \in SUBSET Validators /\ Quorum(Cardinality(E)) \in Nat \ {0}
    BY QuorumPositive
  <2> QED BY <2>1 DEF OutboundBallot, NewBallot, OutBallotOK, YesVoters, NotYet
<1> HIDE DEF new
<1>3. CanAddVote(open[id], v)
  BY DEF VoteAccepted, new
<1>4. store = [open EXCEPT ![id] = b]
  BY DEF VoteOnBallot
<1>5. /\ DOMAIN open = DOMAIN ballots \cup {id} /\ open = [j \in DOMAIN open |-> open[j]]
      /\ open[id] = IF id \in DOMAIN ballots THEN ballots[id] ELSE new
      /\ \A j \in DOMAIN ballots \ {id} :
            \/ open[j] = ballots[j]
            \/ open[j] = Expired(ballots[j]) /\ ballots[j].status = "PENDING"
  BY <1>1, Zenon DEF GetOrCreateBallot, ExpireBallotsBeforeHeight, Stale
<1>6. OutBallotOK(open[id])
  BY <1>1, <1>2, <1>5
<1>7. OutBallotOK(b) /\ b.status \in {"PENDING", "PASSED"} /\ YesVoters(b) \subseteq YesVoters(open[id]) \cup {v}
  BY <1>3, <1>6, VoteCounts
<1>8. \A j \in DOMAIN ballots \ {id} : Weaker(open[j], ballots[j])
  <2> SUFFICES ASSUME NEW j \in DOMAIN ballots \ {id} PROVE Weaker(open[j], ballots[j])
    OBVIOUS
  <2>1. CASE open[j] = ballots[j]
    BY <1>1, <2>1 DEF Weaker
  <2>2. CASE open[j] = Expired(ballots[j]) /\ ballots[j].status = "PENDING"
    BY <1>1, <2>2, ExpiryWeakens
  <2> QED BY <1>5, <2>1, <2>2
<1> HIDE DEF b, open, store
<1>9. /\ DOMAIN store = DOMAIN ballots \cup {id} /\ store = [j \in DOMAIN store |-> store[j]]
      /\ store[id] = b /\ \A j \in DOMAIN ballots \ {id} : store[j] = open[j]
  BY <1>4, <1>5, Zenon
<1>10. YesVoters(b) \subseteq (IF id \in DOMAIN ballots THEN YesVoters(ballots[id]) ELSE {}) \cup {v}
  BY <1>2, <1>5, <1>7
<1>11. /\ OutBallotOK(store[id]) /\ store[id].status \in {"PENDING", "PASSED"}
       /\ YesVoters(store[id]) \subseteq (IF id \in DOMAIN ballots THEN YesVoters(ballots[id]) ELSE {}) \cup {v}
       /\ \A j \in DOMAIN ballots \ {id} : Weaker(store[j], ballots[j])
  BY <1>7, <1>8, <1>9, <1>10
<1> QED BY <1>9, <1>11 DEF store, new

\* Recording a vote adds it to one variant and keeps the other.
LEMMA VariantGrows ==
    ASSUME NEW f \in [BOOLEAN -> SUBSET Validators], NEW success \in BOOLEAN, NEW v \in Validators
    PROVE  LET g == [f EXCEPT ![success] = @ \cup {v}]
           IN  /\ g \in [BOOLEAN -> SUBSET Validators]
               /\ g[success] = f[success] \cup {v}
               /\ \A s \in BOOLEAN : f[s] \subseteq g[s]
<1>1. f[success] \cup {v} \in SUBSET Validators
  OBVIOUS
<1> DEFINE more == f[success] \cup {v}
           g == [f EXCEPT ![success] = more]
<1>2. f[success] \subseteq more
  OBVIOUS
<1> HIDE DEF more
<1>3. g \in [BOOLEAN -> SUBSET Validators] /\ g[success] = more
  BY <1>1 DEF more
<1>4. \A s \in BOOLEAN : s # success => g[s] = f[s]
  OBVIOUS
<1>5. \A s \in BOOLEAN : f[s] \subseteq g[s]
  BY <1>2, <1>3, <1>4
<1> QED BY <1>3, <1>5 DEF more

\* A vote that does not decide is recorded among the variants of its outbound.
LEMMA CountedVoteStep ==
    ASSUME OutInv, NEW k, NEW i, NEW success \in BOOLEAN, NEW v \in Validators, NEW store,
           IsOpen(k, i), UNCHANGED uexVars, ballots' = store,
           DOMAIN store = DOMAIN ballots \cup {<<k, i, success>>}, store = [j \in DOMAIN store |-> store[j]],
           OutBallotOK(store[<<k, i, success>>]), store[<<k, i, success>>].status = "PENDING",
           YesVoters(store[<<k, i, success>>])
             \subseteq (IF <<k, i, success>> \in DOMAIN ballots THEN YesVoters(ballots[<<k, i, success>>]) ELSE {}) \cup {v},
           \A j \in DOMAIN ballots \ {<<k, i, success>>} : Weaker(store[j], ballots[j]),
           voted' = RecordOutboundVote(<<k, i>>, success, v)
    PROVE  OutInv'
<1> DEFINE id == <<k, i, success>>
           p == <<k, i>>
<1>1. p \in pendingOut /\ IsKnown(k, i) /\ utxs[k].outs[i].status = "PENDING"
  BY DEF OutInv, PendingPairs, IsOpen, IsKnown
<1>2. UNCHANGED <<utxs, pendingOut, supply>>
  BY DEF uexVars
<1>3. TypeOK' /\ PendingPairs'
  BY <1>2 DEF OutInv, TypeOK, PendingPairs, IsOpen
<1>4. \A j \in DOMAIN store : OutBallotOK(store[j])
  BY DEF Weaker
<1>5. BallotsKnown'
  <2>1. \A kk, ii, s : <<kk, ii, s>> \in DOMAIN store => IsKnown(kk, ii)'
    BY <1>1, <1>2 DEF OutInv, BallotsKnown, IsKnown
  <2>2. ballots' = [j \in DOMAIN ballots' |-> ballots'[j]]
    OBVIOUS
  <2>3. \A j \in DOMAIN ballots' : OutBallotOK(ballots[j])'
    BY <1>4 DEF OutBallotOK
  <2>4. (\A j \in DOMAIN ballots : OutBallotOK(ballots[j]))'
    BY <2>3
  <2> QED BY <2>1, <2>2, <2>4 DEF BallotsKnown
<1>6. \A s \in BOOLEAN : ~Passed(<<k, i, s>>)
  BY <1>1 DEF OutInv, SettledPairs, StatusesOf
<1>7. \A j : Passed(j)' <=> Passed(j)
  <2> SUFFICES ASSUME NEW j PROVE Passed(j)' <=> Passed(j)
    OBVIOUS
  <2>1. CASE j = id
    BY <1>6, <2>1 DEF Passed
  <2>2. CASE j # id
    BY <2>2 DEF Passed, Weaker
  <2> QED BY <2>1, <2>2
<1>8. SettledPairs'
  BY <1>2, <1>7 DEF OutInv, SettledPairs, IsKnown
<1>9. /\ DOMAIN voted' = pendingOut' /\ voted' = [q \in pendingOut' |-> voted'[q]]
      /\ \A q \in pendingOut' \ {p} : voted'[q] = voted[q]
      /\ voted'[p] = [voted[p] EXCEPT ![success] = @ \cup {v}]
  <2>1. Entries(pendingOut) = voted
    BY DEF Entries, OutInv, VotedOK
  <2>2. voted = [q \in pendingOut |-> voted[q]] /\ DOMAIN voted = pendingOut
    BY DEF OutInv, VotedOK
  <2>3. voted' = [voted EXCEPT ![p] = [voted[p] EXCEPT ![success] = @ \cup {v}]]
    BY <2>1 DEF RecordOutboundVote
  <2> QED BY <1>1, <1>2, <2>2, <2>3
<1>10. /\ voted'[p] \in [BOOLEAN -> SUBSET Validators]
       /\ voted'[p][success] = voted[p][success] \cup {v}
       /\ \A s \in BOOLEAN : voted[p][s] \subseteq voted'[p][s]
  <2>1. voted[p] \in [BOOLEAN -> SUBSET Validators]
    BY <1>1 DEF OutInv, VotedOK
  <2> DEFINE g == [voted[p] EXCEPT ![success] = @ \cup {v}]
  <2>2. /\ g \in [BOOLEAN -> SUBSET Validators] /\ g[success] = voted[p][success] \cup {v}
        /\ \A s \in BOOLEAN : voted[p][s] \subseteq g[s]
    BY <2>1, VariantGrows
  <2>3. voted'[p] = g
    BY <1>9
  <2> HIDE DEF g
  <2> QED BY <2>2, <2>3
<1>11. VotedOK'
  <2>1. voted \in [pendingOut -> [BOOLEAN -> SUBSET Validators]]
    BY DEF OutInv, VotedOK
  <2>2. \A q \in pendingOut' : voted'[q] \in [BOOLEAN -> SUBSET Validators]
    BY <1>2, <1>9, <1>10, <2>1, Zenon
  <2> QED BY <1>9, <2>2, Zenon DEF VotedOK
<1>12. VotersNamed'
  <2> SUFFICES ASSUME NEW kk, NEW ii, NEW s \in BOOLEAN, <<kk, ii>> \in pendingOut', <<kk, ii, s>> \in DOMAIN store
               PROVE  YesVoters(store[<<kk, ii, s>>]) \subseteq voted'[<<kk, ii>>][s]
    BY DEF VotersNamed, YesVoters
  <2>1. CASE <<kk, ii, s>> = id
    <3>1. kk = k /\ ii = i /\ s = success
      BY <2>1
    <3>2. id \in DOMAIN ballots => YesVoters(ballots[id]) \subseteq voted[p][success]
      BY <1>1 DEF OutInv, VotersNamed
    <3> QED BY <1>10, <3>1, <3>2
  <2>2. CASE <<kk, ii, s>> # id
    <3>1. <<kk, ii, s>> \in DOMAIN ballots /\ YesVoters(store[<<kk, ii, s>>]) \subseteq YesVoters(ballots[<<kk, ii, s>>])
      BY <2>2 DEF Weaker
    <3>2. YesVoters(ballots[<<kk, ii, s>>]) \subseteq voted[<<kk, ii>>][s]
      BY <1>2, <3>1 DEF OutInv, VotersNamed
    <3>3. voted[<<kk, ii>>][s] \subseteq voted'[<<kk, ii>>][s]
      BY <1>9, <1>10
    <3> QED BY <3>1, <3>2, <3>3
  <2> QED BY <2>1, <2>2
<1> QED BY <1>3, <1>5, <1>8, <1>11, <1>12 DEF OutInv

\* The vote that passes a ballot settles its outbound as the ballot says.
LEMMA DecidingVoteStep ==
    ASSUME OutInv, NEW k \in InKeys \cup PcKeys, NEW i \in 1 .. MaxOuts, NEW success \in BOOLEAN,
           NEW minted \in BOOLEAN, NEW store,
           OutboundDecided(k, i, success, minted), ballots' = store,
           DOMAIN store = DOMAIN ballots \cup {<<k, i, success>>}, store = [j \in DOMAIN store |-> store[j]],
           OutBallotOK(store[<<k, i, success>>]), store[<<k, i, success>>].status = "PASSED",
           \A j \in DOMAIN ballots \ {<<k, i, success>>} : Weaker(store[j], ballots[j]),
           voted' = Entries(pendingOut')
    PROVE  OutInv'
<1> DEFINE id == <<k, i, success>>
           p == <<k, i>>
           st == StatusAfter(utxs[k].outs[i], success, minted)
           w == Settled(utxs[k], i, st)
<1>1. TypeOK' /\ PendingPairs'
  <2>1. Next
    BY DEF Next
  <2> QED BY <2>1, TypeStep, PairsStep DEF OutInv
<1>2. IsKnown(k, i) /\ IsOpen(k, i) /\ utxs[k].outs[i].status = "PENDING"
  BY DEF OutboundDecided, IsOpen, IsKnown
<1>3. st \in StatusesOf(success) /\ st \in {"OBSERVED", "REVERTED", "ABORTED"}
  BY DEF StatusAfter, StatusesOf
<1>4. utxs' = [utxs EXCEPT ![k] = w] /\ pendingOut' = pendingOut \ {p}
  BY <1>2 DEF OutboundDecided, Settled, IsKnown
<1>5. utxs = [j \in DOMAIN utxs |-> utxs[j]] /\ utxs[k] \in UTX
  BY <1>2 DEF OutInv, TypeOK, IsKnown
<1>6. /\ DOMAIN w.outs = DOMAIN utxs[k].outs /\ w.outs[i].status = st
      /\ \A j \in DOMAIN utxs[k].outs \ {i} : w.outs[j] = utxs[k].outs[j]
  <2>1. i \in DOMAIN utxs[k].outs
    BY <1>2 DEF IsKnown
  <2> HIDE DEF st
  <2> QED BY <1>3, <1>5, <2>1, SettledFacts, SMTT(20)
<1> HIDE DEF w, st
<1>7. /\ DOMAIN utxs' = DOMAIN utxs /\ utxs'[k] = w
      /\ \A j \in DOMAIN utxs \ {k} : utxs'[j] = utxs[j]
  BY <1>2, <1>4, <1>5 DEF IsKnown
<1>8. \A kk, ii : /\ IsKnown(kk, ii)' <=> IsKnown(kk, ii)
                  /\ IsKnown(kk, ii) /\ <<kk, ii>> # p => utxs'[kk].outs[ii] = utxs[kk].outs[ii]
  BY <1>6, <1>7 DEF IsKnown
<1>9. utxs'[k].outs[i].status = st
  BY <1>6, <1>7
<1>10. \A j \in DOMAIN store : OutBallotOK(store[j])
  BY DEF Weaker
<1>11. BallotsKnown'
  <2>1. \A kk, ii, s : <<kk, ii, s>> \in DOMAIN store => IsKnown(kk, ii)'
    BY <1>2, <1>8 DEF OutInv, BallotsKnown
  <2> QED BY <1>10, <2>1 DEF BallotsKnown, OutBallotOK
<1>12. \A j : Passed(j)' <=> (Passed(j) \/ j = id)
  BY DEF Passed, Weaker
<1>13. SettledPairs'
  <2> SUFFICES ASSUME NEW kk, NEW ii, IsKnown(kk, ii)', NEW s \in BOOLEAN
               PROVE  Passed(<<kk, ii, s>>)' <=> utxs'[kk].outs[ii].status \in StatusesOf(s)
    BY DEF SettledPairs, StatusesOf
  <2>1. Passed(<<kk, ii, s>>) <=> utxs[kk].outs[ii].status \in StatusesOf(s)
    BY <1>8 DEF OutInv, SettledPairs
  <2>2. CASE <<kk, ii>> # p
    <3>1. <<kk, ii, s>> # id
      BY <2>2
    <3> QED BY <1>8, <1>12, <2>1, <2>2, <3>1
  <2>3. CASE <<kk, ii>> = p
    <3>1. kk = k /\ ii = i
      BY <2>3
    <3>2. ~Passed(<<kk, ii, s>>)
      BY <1>2, <2>1, <3>1 DEF StatusesOf
    <3>3. Passed(<<kk, ii, s>>)' <=> s = success
      BY <1>12, <3>1, <3>2
    <3>4. st \in StatusesOf(s) <=> s = success
      BY <1>3 DEF StatusesOf
    <3> QED BY <1>9, <3>1, <3>3, <3>4
  <2> QED BY <2>2, <2>3
<1>14. /\ DOMAIN voted' = pendingOut' /\ voted' = [q \in pendingOut' |-> voted'[q]]
       /\ \A q \in pendingOut' : voted'[q] = voted[q]
  BY <1>4 DEF Entries, OutInv, VotedOK
<1>15. VotedOK'
  BY <1>4, <1>14, Zenon DEF VotedOK, OutInv
<1>16. VotersNamed'
  <2> SUFFICES ASSUME NEW kk, NEW ii, NEW s \in BOOLEAN, <<kk, ii>> \in pendingOut', <<kk, ii, s>> \in DOMAIN store
               PROVE  YesVoters(store[<<kk, ii, s>>]) \subseteq voted'[<<kk, ii>>][s]
    BY DEF VotersNamed, YesVoters
  <2>1. <<kk, ii>> # p /\ <<kk, ii>> \in pendingOut
    BY <1>4
  <2>2. <<kk, ii, s>> # id
    BY <2>1
  <2>3. <<kk, ii, s>> \in DOMAIN ballots /\ YesVoters(store[<<kk, ii, s>>]) \subseteq YesVoters(ballots[<<kk, ii, s>>])
    BY <2>2 DEF Weaker
  <2> QED BY <1>14, <2>1, <2>3 DEF OutInv, VotersNamed
<1> QED BY <1>1, <1>11, <1>13, <1>15, <1>16 DEF OutInv

\* Whatever VoteOutbound does, it keeps the invariant.
LEMMA VoteStep ==
    ASSUME OutInv, NEW v \in Validators, NEW id \in BallotKeys, NEW minted \in BOOLEAN,
           NEW eligible \in EligibleSets, VoteOutbound(v, id[1], id[2], id[3], minted, eligible)
    PROVE  OutInv'
<1> DEFINE k == id[1]
           i == id[2]
           success == id[3]
           store == VoteOnBallot(ballots, id, OutboundBallot(eligible), v, "SUCCESS", height)
<1>1. id = <<k, i, success>> /\ k \in InKeys \cup PcKeys /\ i \in 1 .. MaxOuts /\ success \in BOOLEAN
  BY DEF BallotKeys
<1>2. VoteAccepted(ballots, id, OutboundBallot(eligible), v, height) /\ ballots' = store /\ IsOpen(k, i)
  BY <1>1 DEF VoteOutbound, IsOpen
<1>3. /\ DOMAIN store = DOMAIN ballots \cup {id} /\ store = [j \in DOMAIN store |-> store[j]]
      /\ OutBallotOK(store[id]) /\ store[id].status \in {"PENDING", "PASSED"}
      /\ YesVoters(store[id]) \subseteq (IF id \in DOMAIN ballots THEN YesVoters(ballots[id]) ELSE {}) \cup {v}
      /\ \A j \in DOMAIN ballots \ {id} : Weaker(store[j], ballots[j])
  BY <1>2, StoreAfterVote, Zenon
<1>4. \/ store[id].status = "PENDING" /\ voted' = RecordOutboundVote(<<k, i>>, success, v) /\ UNCHANGED uexVars
      \/ /\ store[id].status = "PASSED" /\ voted' = Entries(pendingOut')
         /\ pendingOut' = pendingOut \ {<<k, i>>}
  BY <1>1, <1>3 DEF VoteOutbound
<1> HIDE DEF store, k, i, success
<1>5. CASE store[id].status = "PENDING" /\ voted' = RecordOutboundVote(<<k, i>>, success, v) /\ UNCHANGED uexVars
  BY <1>1, <1>2, <1>3, <1>5, CountedVoteStep
<1>6. CASE /\ store[id].status = "PASSED" /\ voted' = Entries(pendingOut')
           /\ pendingOut' = pendingOut \ {<<k, i>>}
  <2>1. pendingOut' # pendingOut
    BY <1>2, <1>6, Zenon DEF OutInv, PendingPairs
  <2>2. OutboundDecided(k, i, success, minted)
    BY <2>1, VoteDecides DEF OutInv, uexVars, k, i, success
  <2> QED BY <1>1, <1>2, <1>3, <1>6, <2>2, DecidingVoteStep
<1> QED BY <1>4, <1>5, <1>6

\* Every step keeps the invariant.
LEMMA OutStep == OutInv /\ [OutNext]_vars => OutInv'
<1> SUFFICES ASSUME OutInv, [OutNext]_vars PROVE OutInv'
  OBVIOUS
<1>1. CASE Requests /\ voted' = Entries(pendingOut') /\ UNCHANGED <<ballots, height>>
  BY <1>1, RequestStep
<1>2. ASSUME NEW eligible \in EligibleSets, NEW v \in Validators, NEW id \in BallotKeys,
             NEW minted \in BOOLEAN, VoteOutbound(v, id[1], id[2], id[3], minted, eligible)
      PROVE OutInv'
  BY <1>2, VoteStep
<1>3. ASSUME NEW eligible \in EligibleSets, NEW id, RecomputeOutboundBallot(id, eligible) PROVE OutInv'
  BY <1>3, RecomputeQuiet, QuietStep, Zenon DEF RecomputeOutboundBallot
<1>4. CASE OpenOtherBallot
  BY <1>4, SweepQuiet, QuietStep DEF OpenOtherBallot
<1>5. ASSUME NEW guessed, PurgeExpiredOutbounds(guessed) PROVE OutInv'
  BY <1>5, PurgeQuiet, QuietStep DEF PurgeExpiredOutbounds
<1>6. CASE NextBlock \/ UNCHANGED vars
  <2>1. UNCHANGED <<utxs, pendingOut, supply, ballots, voted>>
    BY <1>6 DEF NextBlock, vars
  <2>2. QuietBallots
    BY <2>1 DEF QuietBallots, Weaker, OutInv, BallotsKnown
  <2> QED BY <2>1, <2>2, QuietStep
<1> QED BY <1>1, <1>2, <1>3, <1>4, <1>5, <1>6 DEF OutNext

\* The invariant holds throughout.
LEMMA OutInvariant == OutSpec => []OutInv
<1>1. OutInit => OutInv
  <2> SUFFICES ASSUME OutInit PROVE OutInv
    OBVIOUS
  <2> USE DEF OutInit, Init
  <2>1. TypeOK /\ PendingPairs
    BY DEF TypeOK, PendingPairs, IsOpen
  <2>2. BallotsKnown /\ VotersNamed /\ VotedOK
    BY DEF BallotsKnown, VotersNamed, VotedOK
  <2>3. SettledPairs
    BY DEF SettledPairs, IsKnown
  <2> QED BY <2>1, <2>2, <2>3 DEF OutInv
<1> QED BY <1>1, OutStep, PTL DEF OutSpec

\* Whatever is voted, recomputed, swept and purged, an outbound is settled as the one
\* observation that passed says: VoteOutbound on one of its ballots, of which the others
\* know nothing, ends the voting on all of them.
THEOREM OutcomesAreObserved == OutSpec => []SettledAsObserved
<1>1. OutInv => SettledAsObserved
  <2> SUFFICES ASSUME OutInv, NEW k \in DOMAIN utxs, NEW i \in DOMAIN utxs[k].outs
               PROVE  Decision(k, i) = CASE utxs[k].outs[i].status = "PENDING"  -> {}
                           [] utxs[k].outs[i].status = "OBSERVED" -> {TRUE}
                           [] OTHER -> {FALSE}
    BY Zenon DEF SettledAsObserved
  <2>1. IsKnown(k, i)
    BY DEF IsKnown
  <2>2. utxs[k].outs[i].status \in {"PENDING", "OBSERVED", "REVERTED", "ABORTED"}
    <3>1. utxs[k] \in UTX
      BY DEF OutInv, TypeOK
    <3>2. utxs[k].outs \in Seq(Outbound)
      BY <3>1 DEF UTX
    <3>3. utxs[k].outs[i] \in Outbound
      BY <3>2
    <3> QED BY <3>3 DEF Outbound
  <2>3. \A s \in BOOLEAN : s \in Decision(k, i) <=> utxs[k].outs[i].status \in StatusesOf(s)
    BY <2>1 DEF OutInv, SettledPairs, Passed, Decision
  <2>4. Decision(k, i) \subseteq BOOLEAN
    BY DEF Decision
  <2>5. /\ TRUE \in Decision(k, i) <=> utxs[k].outs[i].status = "OBSERVED"
        /\ FALSE \in Decision(k, i) <=> utxs[k].outs[i].status \in {"REVERTED", "ABORTED"}
    BY <2>3, Zenon DEF StatusesOf
  <2> HIDE DEF Decision
  <2> QED BY <2>2, <2>4, <2>5, Zenon
<1> QED BY <1>1, OutInvariant, PTL

\* The variants of a pending outbound name every validator whose vote one of its ballots
\* counts, for any history of expired, recomputed and purged ballots (RecordOutboundVote).
THEOREM VariantsComplete == OutSpec => []VariantsNameVoters
<1>1. OutInv => VariantsNameVoters
  <2> SUFFICES ASSUME OutInv, NEW p \in pendingOut, NEW s \in BOOLEAN, <<p[1], p[2], s>> \in DOMAIN ballots
               PROVE  YesVoters(ballots[<<p[1], p[2], s>>]) \subseteq voted[p][s]
    BY DEF VariantsNameVoters, OutInv, VotedOK
  <2>1. p = <<p[1], p[2]>>
    BY DEF OutInv, TypeOK
  <2> QED BY <2>1 DEF OutInv, VotersNamed
<1> QED BY <1>1, OutInvariant, PTL
=============================================================================
