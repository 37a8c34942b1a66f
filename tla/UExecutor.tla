----------------------------- MODULE UExecutor ------------------------------
(***************************************************************************)
(* Universal transactions (UTX) of x/uexecutor and the funds they move.    *)
(*                                                                         *)
(* An inbound locks funds on a source chain.  Executing it mints PRC20 on  *)
(* Push Chain, and when that fails an INBOUND_REVERT outbound returns the  *)
(* funds.  A transaction on Push Chain burns PRC20 and creates outbounds   *)
(* that release funds; one that fails is minted back.  Funds a revert      *)
(* could not return may be asked for again with a RESCUE_FUNDS outbound.   *)
(*                                                                         *)
(* This is the level above the ballots: an inbound or an outbound is       *)
(* decided in one step (modules Inbounds and Outbounds vote on them).      *)
(* Funds are counted in units: an inbound locks one or none.               *)
(***************************************************************************)
EXTENDS Naturals, Sequences, FiniteSets

CONSTANTS InKeys,      \* UTX keys of inbounds
          PcKeys,      \* UTX keys of Push Chain transactions
          Types,       \* transaction types of the inbounds
          MaxOuts,     \* bound on the outbounds of a UTX
          CeaReverts   \* a CEA inbound may be given an INBOUND_REVERT, see Admissible

ASSUME KeysDisjoint == InKeys \cap PcKeys = {}
ASSUME TypesAssumption == Types \subseteq {"FUNDS", "GAS", "FUNDS_AND_PAYLOAD", "GAS_AND_PAYLOAD"}
ASSUME OutsAssumption == MaxOuts \in Nat \ {0} /\ CeaReverts \in BOOLEAN

VARIABLES utxs,        \* UniversalTx: key -> [inb, pctx, outs, err]
          pendingOut,  \* PendingOutbounds: <<UTX key, position of the outbound>>
          supply       \* PRC20 units on Push Chain

uexVars == <<utxs, pendingOut, supply>>

Inbound == [type : Types, cea : BOOLEAN, funded : BOOLEAN, wellFormed : BOOLEAN]

NoInbound == [type |-> "NONE", cea |-> FALSE, funded |-> FALSE, wellFormed |-> FALSE]

(***************************************************************************)
(* What execution meets: the token in the registry, the recipient account  *)
(* (found, deployed or verified; not yet deployed; what it is), the EVM's  *)
(* answers to the deposit and to the call, the outbounds the call emits    *)
(* and whether they can be attached (outbound switch, PRC20 known).        *)
(* "FUNDS" stands for the three types that carry funds.                    *)
(***************************************************************************)
World == [token : BOOLEAN, account : BOOLEAN, fresh : BOOLEAN, kind : {"uea", "contract", "eoa"},
          deposit : BOOLEAN, call : BOOLEAN, emits : {<<>>, <<"FUNDS">>, <<"PAYLOAD">>},
          attach : BOOLEAN]

Out(type) == [type |-> type, status |-> "PENDING"]
PCTx(step, ok) == <<[step |-> step, ok |-> ok]>>
-----------------------------------------------------------------------------
HasPayload(inb) == inb.type \in {"FUNDS_AND_PAYLOAD", "GAS_AND_PAYLOAD"}
NeedsToken(inb) == inb.type \in {"GAS", "GAS_AND_PAYLOAD"} \/ inb.funded

\* ValidateForExecution
Executable(inb) ==
    /\ inb.wellFormed
    /\ inb.funded \/ HasPayload(inb)
    /\ inb.cea => inb.type # "GAS"

\* The token is found, the account is there and the deposit, if any, succeeds.
Arrives(inb, w) ==
    /\ Executable(inb)
    /\ NeedsToken(inb) => w.token
    /\ inb.type # "FUNDS" => w.account
    /\ inb.funded => w.deposit

\* A UEA is deployed after the token lookup of the gas types, before the deposit.
Deploys(inb, w) ==
    /\ Executable(inb) /\ ~inb.cea /\ inb.type # "FUNDS"
    /\ inb.type = "FUNDS_AND_PAYLOAD" \/ w.token
    /\ w.account /\ w.fresh

\* Failures of CEA inbounds are not returned, but for the token lookup of
\* ExecuteInboundGasAndPayload, which precedes its test of IsCEA.
Reverts(inb, w) ==
    /\ ~Arrives(inb, w)
    /\ ~inb.cea \/ (Executable(inb) /\ inb.type = "GAS_AND_PAYLOAD" /\ ~w.token)

ToContract(inb, w) == inb.cea /\ w.kind = "contract"

Calls(inb, w) == Arrives(inb, w) /\ HasPayload(inb)

CallSucceeds(inb, w) == Calls(inb, w) /\ w.call /\ (ToContract(inb, w) => w.token)

Emitted(inb, w) ==
    IF CallSucceeds(inb, w) /\ ~(inb.cea /\ w.kind = "eoa") THEN w.emits ELSE <<>>

\* Outbounds are read from the receipts of UEA calls only, all of them or none.
Attached(inb, w) == IF ~ToContract(inb, w) /\ w.attach THEN Emitted(inb, w) ELSE <<>>

Units(types) == IF \E i \in DOMAIN types : types[i] = "FUNDS" THEN 1 ELSE 0

Outs(types) == [i \in DOMAIN types |-> Out(types[i])]

(***************************************************************************)
(* ExecuteInbound and handleFailedInboundValidation: the UTX they leave    *)
(* and the units minted and burned.                                        *)
(***************************************************************************)
ExecuteInbound(inb, w) ==
    [utx  |-> [inb  |-> inb,
               pctx |-> (IF Deploys(inb, w) THEN PCTx("deploy", TRUE) ELSE <<>>)
                        \o (IF inb.funded \/ ~Arrives(inb, w)
                            THEN PCTx("deposit", Arrives(inb, w)) ELSE <<>>)
                        \o (IF Calls(inb, w) THEN PCTx("call", CallSucceeds(inb, w)) ELSE <<>>),
               outs |-> Outs(Attached(inb, w))
                        \o (IF Reverts(inb, w) THEN <<Out("INBOUND_REVERT")>> ELSE <<>>),
               err  |-> ~ToContract(inb, w) /\ ~w.attach /\ Emitted(inb, w) # <<>>],
     mint |-> IF Arrives(inb, w) /\ inb.funded THEN 1 ELSE 0,
     burn |-> Units(Emitted(inb, w))]

Executions == {ExecuteInbound(inb, w) : inb \in Inbound, w \in World}

AdminRevert(inb) ==
    [inb |-> inb, pctx |-> PCTx("deposit", FALSE), outs |-> <<Out("INBOUND_REVERT")>>, err |-> FALSE]

HasRevert(u) == \E i \in DOMAIN u.outs : u.outs[i].type = "INBOUND_REVERT"

Admissible(u) == CeaReverts \/ ~(u.inb.cea /\ HasRevert(u))
-----------------------------------------------------------------------------
CreateIndexingFirst(k, u) ==
    /\ k \notin DOMAIN utxs
    /\ utxs' = [j \in DOMAIN utxs \cup {k} |-> IF j = k THEN u ELSE utxs[j]]
    /\ pendingOut' = pendingOut \cup ({k} \X (DOMAIN u.outs \cap {1}))

\* CreateUniversalTx, and attachOutboundsToUtx for what it is born with.
Create(k, u) ==
    /\ k \notin DOMAIN utxs
    /\ utxs' = [j \in DOMAIN utxs \cup {k} |-> IF j = k THEN u ELSE utxs[j]]
    /\ pendingOut' = pendingOut \cup ({k} \X DOMAIN u.outs)

Init ==
    /\ utxs = [k \in {} |-> NoInbound]
    /\ pendingOut = {}
    /\ supply = 0

(***************************************************************************)
(* The vote that decides an inbound creates its UTX and executes it.  A    *)
(* call can burn only what is there.                                       *)
(***************************************************************************)
InboundDecided(k, x) ==
    /\ Admissible(x.utx)
    /\ Create(k, x.utx)
    /\ x.burn <= supply + x.mint
    /\ supply' = (supply + x.mint) - x.burn

\* RevertStuckInbound, of an inbound whose ballot expired.
RevertStuckInbound(k, inb) ==
    /\ Admissible(AdminRevert(inb))
    /\ Create(k, AdminRevert(inb))
    /\ UNCHANGED supply

(***************************************************************************)
(* A transaction of a user, by MsgExecutePayload or an EVM transaction     *)
(* with its hook, that emits outbounds.  When one cannot be attached the   *)
(* transaction fails as a whole.                                           *)
(***************************************************************************)
PcTransaction(k, types) ==
    /\ Units(types) <= supply
    /\ Create(k, [inb |-> NoInbound, pctx |-> PCTx("call", TRUE), outs |-> Outs(types), err |-> FALSE])
    /\ supply' = supply - Units(types)

(***************************************************************************)
(* AttachRescueOutboundFromReceipt, for one rescue event.                  *)
(***************************************************************************)
NoPendingRescue(u) ==
    \A i \in DOMAIN u.outs : u.outs[i].type = "RESCUE_FUNDS" => u.outs[i].status # "PENDING"

NoActiveRescue(u) ==
    \A i \in DOMAIN u.outs :
        u.outs[i].type = "RESCUE_FUNDS" => u.outs[i].status \notin {"PENDING", "OBSERVED"}

Rescuable(u) ==
    /\ u.inb # NoInbound
    /\ IF u.inb.cea
       THEN u.pctx # <<>> /\ ~u.pctx[1].ok
       ELSE \E i \in DOMAIN u.outs : u.outs[i] = [type |-> "INBOUND_REVERT", status |-> "REVERTED"]
    /\ NoActiveRescue(u)

NextPosition(u) == Len(u.outs) + 1

RescueFunds(k) ==
    /\ k \in DOMAIN utxs
    /\ Rescuable(utxs[k])
    /\ Len(utxs[k].outs) < MaxOuts
    /\ utxs' = [utxs EXCEPT ![k].pctx = @ \o PCTx("rescue", TRUE),
                            ![k].outs = Append(@, Out("RESCUE_FUNDS"))]
    /\ pendingOut' = pendingOut \cup {<<k, NextPosition(utxs[k])>>}
    /\ UNCHANGED supply

(***************************************************************************)
(* The vote that decides an outbound, with FinalizeOutbound.  Only burned  *)
(* funds are minted back; when that fails the outbound is ABORTED.         *)
(***************************************************************************)
MintsBackAlways(out, success) == ~success

MintsBack(out, success) == ~success /\ out.type = "FUNDS"

StatusAfter(out, success, minted) ==
    IF success THEN "OBSERVED"
    ELSE IF MintsBack(out, success) /\ ~minted THEN "ABORTED" ELSE "REVERTED"

IsKnown(k, i) == k \in DOMAIN utxs /\ i \in DOMAIN utxs[k].outs

IsOpen(k, i) == k \in DOMAIN utxs /\ i \in DOMAIN utxs[k].outs /\ utxs[k].outs[i].status = "PENDING"

OutboundDecided(k, i, success, minted) ==
    /\ IsOpen(k, i)
    /\ utxs' = [utxs EXCEPT ![k].outs[i].status = StatusAfter(utxs[k].outs[i], success, minted)]
    /\ pendingOut' = pendingOut \ {<<k, i>>}
    /\ supply' = IF MintsBack(utxs[k].outs[i], success) /\ minted THEN supply + 1 ELSE supply

PcEmits == {<<"FUNDS">>, <<"FUNDS", "PAYLOAD">>}

Requests ==
    \/ \E k \in InKeys : \/ \E x \in Executions : InboundDecided(k, x)
                         \/ \E inb \in Inbound : RevertStuckInbound(k, inb)
                         \/ RescueFunds(k)
    \/ \E k \in PcKeys, types \in PcEmits : PcTransaction(k, types)

Next ==
    \/ Requests
    \/ \E k \in InKeys \cup PcKeys, i \in 1 .. MaxOuts, success, minted \in BOOLEAN :
          OutboundDecided(k, i, success, minted)

Spec == Init /\ [][Next]_uexVars
-----------------------------------------------------------------------------
Outbound ==
    [type : {"FUNDS", "PAYLOAD", "INBOUND_REVERT", "RESCUE_FUNDS"},
     status : {"PENDING", "OBSERVED", "REVERTED", "ABORTED"}]

UTX ==
    [inb  : Inbound \cup {NoInbound},
     pctx : Seq([step : {"deploy", "deposit", "call", "rescue"}, ok : BOOLEAN]),
     outs : Seq(Outbound),
     err  : BOOLEAN]

\* The types of the collections.
TypeOK ==
    /\ DOMAIN utxs \subseteq InKeys \cup PcKeys
    /\ utxs = [k \in DOMAIN utxs |-> utxs[k]]
    /\ \A k \in DOMAIN utxs : utxs[k] \in UTX
    /\ pendingOut \subseteq (InKeys \cup PcKeys) \X (Nat \ {0})
    /\ supply \in Nat

\* PendingOutbounds, from which the validators' clients take their work, lists
\* exactly the outbounds that are PENDING in their UTX, although the two are
\* written by different steps of a vote, of a revert, of a rescue and of an abort.
PendingOutboundsExact ==
    pendingOut = {p \in UNION {{k} \X DOMAIN utxs[k].outs : k \in DOMAIN utxs} :
                     utxs[p[1]].outs[p[2]].status = "PENDING"}

IsReturn(out) == out.type \in {"INBOUND_REVERT", "RESCUE_FUNDS"}

\* The funds of an inbound are on one side only: when a deposit succeeded nothing is
\* ever returned to the source chain, and of the reverts and rescues of a UTX at most
\* one is under way or done.  Reverts, failed reverts, rescues and repeated rescues
\* are decided by different votes and transactions.
ReturnedOnce ==
    \A k \in DOMAIN utxs : \A i \in DOMAIN utxs[k].outs :
        IsReturn(utxs[k].outs[i]) =>
            /\ \A j \in DOMAIN utxs[k].pctx : utxs[k].pctx[j].step = "deposit" => ~utxs[k].pctx[j].ok
            /\ utxs[k].outs[i].status \in {"PENDING", "OBSERVED"} =>
                  \A j \in DOMAIN utxs[k].outs \ {i} :
                      IsReturn(utxs[k].outs[j]) => utxs[k].outs[j].status = "REVERTED"

Moves(k, i) == IF utxs[k].inb # NoInbound /\ IsReturn(utxs[k].outs[i])
               THEN utxs[k].inb.funded ELSE utxs[k].outs[i].type = "FUNDS"

Positions(status) ==
    {p \in UNION {{k} \X DOMAIN utxs[k].outs : k \in DOMAIN utxs} :
        utxs[p[1]].outs[p[2]].status = status /\ Moves(p[1], p[2])}

\* The vault on the source chain covers every claim on it: the PRC20 in circulation
\* and the outbounds still to be paid never exceed what inbounds locked less what
\* outbounds released.
Solvent ==
    supply + Cardinality(Positions("PENDING")) + Cardinality(Positions("OBSERVED"))
        <= Cardinality({k \in DOMAIN utxs : utxs[k].inb.funded})

\* Claimed of rescues: the funds of the inbound are still locked on the source chain,
\* so none is attached to a UTX whose funds an INBOUND_REVERT already returned.
RescuedFundsLocked ==
    \A k \in DOMAIN utxs : \A i, j \in DOMAIN utxs[k].outs :
        ~(/\ utxs[k].inb.funded
          /\ utxs[k].outs[i] = [type |-> "RESCUE_FUNDS", status |-> "PENDING"]
          /\ utxs[k].outs[j] = [type |-> "INBOUND_REVERT", status |-> "OBSERVED"])

\* A UTX is a history: its inbound stays, Push Chain transactions and outbounds are
\* only appended, and an outbound that left PENDING never changes again.
HistoryKept ==
    [][\A k \in DOMAIN utxs :
          /\ k \in DOMAIN utxs'
          /\ utxs'[k].inb = utxs[k].inb
          /\ \A j \in DOMAIN utxs[k].pctx :
                j \in DOMAIN utxs'[k].pctx /\ utxs'[k].pctx[j] = utxs[k].pctx[j]
          /\ \A i \in DOMAIN utxs[k].outs :
                /\ i \in DOMAIN utxs'[k].outs
                /\ utxs'[k].outs[i].type = utxs[k].outs[i].type
                /\ \/ utxs'[k].outs[i] = utxs[k].outs[i]
                   \/ utxs[k].outs[i].status = "PENDING"]_uexVars
=============================================================================
