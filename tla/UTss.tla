-------------------------------- MODULE UTss --------------------------------
(***************************************************************************)
(* The universal-validator set (x/uvalidator) and the TSS key it holds     *)
(* (x/utss).  The admin and the base chain's staking module move           *)
(* validators through their lifecycle; each change of the eligible set     *)
(* starts a TSS process that supersedes the running one; the participants  *)
(* of the current process vote on the key they generated off chain, and    *)
(* the last vote installs the key and settles the validators' statuses.    *)
(*                                                                         *)
(* Ballot ids are <<process, key id>>.  A handler that returns an error    *)
(* changes nothing and is not an action.                                   *)
(***************************************************************************)
EXTENDS BallotOps, Sequences

CONSTANTS Validators,     \* core validators
          KeyIds,         \* key ids that votes may name
          NoKey,          \* CurrentTssKey not set
          ProcessExpiry,  \* DefaultTssProcessExpiryAfterBlocks
          MaxProcesses,   \* bound on the processes started
          MaxHeight,      \* bound on the block height
          Environments    \* what surrounds the modules, one per behaviour (see EnvironmentOK)

\* founders: ACTIVE holders of the first key, {} for an empty chain; adminTypes: process
\* types the admin starts; doublesigners: validators that may be tombstoned; checksBonded:
\* the admin reactivates only bonded validators; recomputes: the admin recomputes the
\* quorum of TSS ballots.
EnvironmentOK(e) ==
    /\ e.founders \subseteq Validators /\ e.doublesigners \subseteq Validators
    /\ e.adminTypes \subseteq {"KEYGEN", "REFRESH", "QUORUM_CHANGE"}
    /\ e.checksBonded \in BOOLEAN /\ e.recomputes \in BOOLEAN

ASSUME ValidatorsAssumption == IsFiniteSet(Validators)
ASSUME KeysAssumption == NoKey \notin KeyIds /\ "genesis" \notin KeyIds /\ NoKey # "genesis"
ASSUME BoundsAssumption ==
    ProcessExpiry \in Nat \ {0} /\ MaxProcesses \in Nat /\ MaxHeight \in Nat
ASSUME EnvironmentsAssumption == \A e \in Environments : EnvironmentOK(e)

VARIABLES env,       \* the environment, chosen once
          bonded,    \* validators bonded in x/staking
          tombed,    \* validators tombstoned in x/slashing
          uv,        \* LifecycleInfo.CurrentStatus, "NONE" if not registered
          reason,    \* Reason of the last lifecycle event
          tss,       \* processes, the current one and the pending-event index
          keys,      \* TssKeyHistory, with the status of the KEY_FINALIZED event
          curKey,    \* CurrentTssKey
          ballots,   \* the ballot store of x/uvalidator
          height,    \* block height
          removed    \* history: validators whose last removal was the admin's

uvVars == <<env, bonded, tombed, uv, reason, removed>>
vars == <<env, bonded, tombed, uv, reason, tss, keys, curKey, ballots, height, removed>>

Statuses == {"NONE", "PENDING_JOIN", "ACTIVE", "PENDING_LEAVE", "INACTIVE"}
Reasons == {"UNSPECIFIED", "ADMIN", "STAKING_HOOK"}
ProcessTypes == {"KEYGEN", "REFRESH", "QUORUM_CHANGE"}

(***************************************************************************)
(* GetEligibleVoters: ACTIVE or PENDING_JOIN, bonded, not tombstoned.      *)
(***************************************************************************)
EligibleIn(u, b) == {v \in Validators : u[v] \in {"ACTIVE", "PENDING_JOIN"} /\ v \in b /\ v \notin tombed}

Eligible == EligibleIn(uv, bonded)

GetTssParticipants(type, u, b) ==
    IF type = "REFRESH"
    THEN {v \in Validators : u[v] \in {"ACTIVE", "PENDING_LEAVE"}}
    ELSE EligibleIn(u, b)

Unexpired(p) == height < p.expiry

HasOngoingTss == tss.cur # 0 /\ Unexpired(tss.procs[tss.cur])

GetCurrentTssParticipants == IF HasOngoingTss THEN tss.procs[tss.cur].participants ELSE {}

(***************************************************************************)
(* Starting a process force-expires the current one if it is still running *)
(* and closes its event.  A process that ran out by itself is left alone,  *)
(* its event ACTIVE and in the pending index.                              *)
(***************************************************************************)
ForceExpireNothing(t) == t

ForceExpireLeavesIndex(t) ==
    IF t.cur # 0 /\ Unexpired(t.procs[t.cur])
    THEN [t EXCEPT !.procs[t.cur].expiry = height - 1, !.procs[t.cur].event = "EXPIRED"]
    ELSE t

ForceExpire(t) ==
    IF t.cur # 0 /\ Unexpired(t.procs[t.cur])
    THEN [t EXCEPT !.procs[t.cur].expiry = height - 1,
                   !.procs[t.cur].event = "EXPIRED",
                   !.pending = @ \ {t.cur}]
    ELSE t

InitiateTssKeyProcess(t, type, participants) ==
    LET e  == ForceExpire(t)
        id == Len(e.procs) + 1
    IN  [procs   |-> Append(e.procs, [type |-> type, participants |-> participants,
                                      expiry |-> height + ProcessExpiry,
                                      status |-> "PENDING", event |-> "ACTIVE"]),
         cur     |-> id,
         pending |-> e.pending \cup {id}]

(***************************************************************************)
(* The AfterValidatorAdded / AfterValidatorRemoved hook of x/utss.         *)
(***************************************************************************)
HandleEligibleValidatorSetChange(t, u, b) ==
    LET E == EligibleIn(u, b)
    IN  IF Cardinality(E) < 2
        THEN t
        ELSE InitiateTssKeyProcess(t, IF curKey = NoKey THEN "KEYGEN" ELSE "QUORUM_CHANGE", E)

WithinProcessBound == Len(tss'.procs) <= MaxProcesses

SetStatus(v, s, r) == uv' = [uv EXCEPT ![v] = s] /\ reason' = [reason EXCEPT ![v] = r]
-----------------------------------------------------------------------------
Init ==
    /\ env \in Environments
    /\ bonded = Validators
    /\ tombed = {}
    /\ uv = [v \in Validators |-> IF v \in env.founders THEN "ACTIVE" ELSE "NONE"]
    /\ reason = [v \in Validators |-> "UNSPECIFIED"]
    /\ tss = [procs |-> <<>>, cur |-> 0, pending |-> {}]
    /\ keys = [k \in IF env.founders = {} THEN {} ELSE {"genesis"} |->
                  [participants |-> env.founders, process |-> 0, event |-> "ACTIVE"]]
    /\ curKey = IF env.founders = {} THEN NoKey ELSE "genesis"
    /\ ballots = [i \in {} |-> NotYet]
    /\ height = 1
    /\ removed = {}

(***************************************************************************)
(* The admin's messages to x/uvalidator.                                   *)
(***************************************************************************)
AddUniversalValidator(v) ==
    /\ v \in bonded
    /\ uv[v] \in {"NONE", "INACTIVE"}
    /\ SetStatus(v, "PENDING_JOIN", "UNSPECIFIED")
    /\ tss' = HandleEligibleValidatorSetChange(tss, uv', bonded)
    /\ WithinProcessBound
    /\ removed' = removed \ {v}
    /\ UNCHANGED <<env, bonded, tombed, keys, curKey, ballots, height>>

RemoveUniversalValidator(v) ==
    /\ \/ uv[v] = "ACTIVE" /\ ~HasOngoingTss /\ SetStatus(v, "PENDING_LEAVE", "ADMIN")
       \/ uv[v] = "PENDING_JOIN" /\ v \notin GetCurrentTssParticipants /\ SetStatus(v, "INACTIVE", "ADMIN")
    /\ tss' = HandleEligibleValidatorSetChange(tss, uv', bonded)
    /\ WithinProcessBound
    /\ removed' = removed \cup {v}
    /\ UNCHANGED <<env, bonded, tombed, keys, curKey, ballots, height>>

UpdateUniversalValidatorStatus(v) ==
    /\ ~HasOngoingTss
    /\ uv[v] = "PENDING_LEAVE"
    /\ env.checksBonded => v \in bonded
    /\ SetStatus(v, "ACTIVE", "ADMIN")
    /\ removed' = removed \ {v}
    /\ UNCHANGED <<env, bonded, tombed, tss, keys, curKey, ballots, height>>

(***************************************************************************)
(* The staking hooks, which x/staking calls in its EndBlocker.             *)
(***************************************************************************)
UnbondingOfActiveOnly(v) ==
    /\ v \in bonded
    /\ bonded' = bonded \ {v}
    /\ IF uv[v] = "ACTIVE"
       THEN /\ SetStatus(v, "PENDING_LEAVE", "STAKING_HOOK")
            /\ tss' = HandleEligibleValidatorSetChange(tss, uv', bonded')
            /\ WithinProcessBound
       ELSE UNCHANGED <<uv, reason, tss>>
    /\ UNCHANGED <<env, tombed, keys, curKey, ballots, height, removed>>

HandleBaseValidatorUnbonding(v) ==
    /\ v \in bonded
    /\ bonded' = bonded \ {v}
    /\ IF uv[v] \in {"ACTIVE", "PENDING_JOIN"}
       THEN /\ SetStatus(v, IF uv[v] = "ACTIVE" THEN "PENDING_LEAVE" ELSE "INACTIVE", "STAKING_HOOK")
            /\ tss' = HandleEligibleValidatorSetChange(tss, uv', bonded')
            /\ WithinProcessBound
       ELSE UNCHANGED <<uv, reason, tss>>
    /\ UNCHANGED <<env, tombed, keys, curKey, ballots, height, removed>>

RevivesAnyReason(v) == uv[v] \in {"PENDING_LEAVE", "INACTIVE"}

AutoRevivable(v) == uv[v] \in {"PENDING_LEAVE", "INACTIVE"} /\ reason[v] = "STAKING_HOOK"

BondedWithoutHook(v) ==
    /\ v \notin bonded \cup tombed
    /\ bonded' = bonded \cup {v}
    /\ IF AutoRevivable(v)
       THEN SetStatus(v, IF uv[v] = "PENDING_LEAVE" THEN "ACTIVE" ELSE "PENDING_JOIN", "STAKING_HOOK")
       ELSE UNCHANGED <<uv, reason>>
    /\ UNCHANGED <<env, tombed, tss, keys, curKey, ballots, height, removed>>

HandleBaseValidatorBonded(v) ==
    /\ v \notin bonded \cup tombed
    /\ bonded' = bonded \cup {v}
    /\ IF AutoRevivable(v)
       THEN /\ SetStatus(v, IF uv[v] = "PENDING_LEAVE" THEN "ACTIVE" ELSE "PENDING_JOIN", "STAKING_HOOK")
            /\ tss' = HandleEligibleValidatorSetChange(tss, uv', bonded')
            /\ WithinProcessBound
       ELSE UNCHANGED <<uv, reason, tss>>
    /\ UNCHANGED <<env, tombed, keys, curKey, ballots, height, removed>>

(***************************************************************************)
(* Double-sign evidence tombstones a validator at the start of a block; it *)
(* is jailed and leaves the bonded set when the block ends.                *)
(***************************************************************************)
Tombstone(v) ==
    /\ v \in (bonded \cap env.doublesigners) \ tombed
    /\ tombed' = tombed \cup {v}
    /\ UNCHANGED <<env, bonded, uv, reason, tss, keys, curKey, ballots, height, removed>>

NextBlock ==
    /\ height < MaxHeight
    /\ bonded \cap tombed = {}
    /\ height' = height + 1
    /\ UNCHANGED <<env, bonded, tombed, uv, reason, tss, keys, curKey, ballots, removed>>

(***************************************************************************)
(* The admin's MsgInitiateTssKeyProcess.  ValidateBasic refuses an empty   *)
(* participant list.                                                       *)
(***************************************************************************)
AdminInitiateTssKeyProcess(type) ==
    LET P == GetTssParticipants(type, uv, bonded)
    IN  /\ P # {}
        /\ tss' = InitiateTssKeyProcess(tss, type, P)
        /\ WithinProcessBound
        /\ UNCHANGED <<uvVars, keys, curKey, ballots, height>>

RecomputeTssBallot(id) ==
    /\ env.recomputes
    /\ id \in DOMAIN ballots
    /\ ballots[id].status = "PENDING"
    /\ ballots' = [ballots EXCEPT ![id] = RecomputeBallotQuorum(@, Eligible)]
    /\ UNCHANGED <<uvVars, tss, keys, curKey, height>>

(***************************************************************************)
(* What the finalizing vote of a process does to the validators: KEYGEN    *)
(* and QUORUM_CHANGE activate joining participants and inactivate leaving  *)
(* non-participants; the last recorded reason is carried over.             *)
(***************************************************************************)
SettledStatuses(p) ==
    [v \in Validators |->
        IF p.type = "REFRESH" THEN uv[v]
        ELSE IF uv[v] = "PENDING_JOIN" /\ v \in p.participants THEN "ACTIVE"
        ELSE IF uv[v] = "PENDING_LEAVE" /\ v \notin p.participants THEN "INACTIVE"
        ELSE uv[v]]

(***************************************************************************)
(* The new key enters the history with an ACTIVE event and the event of    *)
(* every earlier key is COMPLETED.                                         *)
(***************************************************************************)
KeysWith(k, p) ==
    [j \in DOMAIN keys \cup {k} |->
        IF j = k THEN [participants |-> p.participants, process |-> tss.cur, event |-> "ACTIVE"]
                 ELSE [keys[j] EXCEPT !.event = "COMPLETED"]]

MayVote(v) == uv[v] # "NONE" /\ v \in bonded /\ v \notin tombed

TssBallotTwoThirds(p) ==
    NewBallot(p.participants, (2 * Cardinality(p.participants)) \div 3, height, p.expiry - height)

TssBallot(p) == NewBallot(p.participants, Cardinality(p.participants), height, p.expiry - height)

VoteTssKeyProcess(v, k) ==
    /\ MayVote(v)
    /\ HasOngoingTss
    /\ k \notin DOMAIN keys
    /\ LET p  == tss.procs[tss.cur]
           id == <<tss.cur, k>>
       IN  /\ VoteAccepted(ballots, id, TssBallot(p), v, height)
           /\ ballots' = VoteOnBallot(ballots, id, TssBallot(p), v, "SUCCESS", height)
           /\ IF ballots'[id].status = "PENDING"
              THEN UNCHANGED <<uv, tss, keys, curKey>>
              ELSE /\ keys' = KeysWith(k, p)
                   /\ curKey' = k
                   /\ tss' = [procs   |-> [tss.procs EXCEPT ![tss.cur].status = "SUCCESS",
                                                            ![tss.cur].event = "COMPLETED"],
                              cur     |-> 0,
                              pending |-> tss.pending \ {tss.cur}]
                   /\ uv' = SettledStatuses(p)
    /\ UNCHANGED <<env, bonded, tombed, reason, height, removed>>

Next ==
    \/ \E v \in Validators : \/ AddUniversalValidator(v)
                             \/ RemoveUniversalValidator(v)
                             \/ UpdateUniversalValidatorStatus(v)
                             \/ HandleBaseValidatorUnbonding(v)
                             \/ HandleBaseValidatorBonded(v)
                             \/ Tombstone(v)
                             \/ \E k \in KeyIds : VoteTssKeyProcess(v, k)
    \/ \E type \in env.adminTypes : AdminInitiateTssKeyProcess(type)
    \/ \E id \in (1 .. MaxProcesses) \X KeyIds : RecomputeTssBallot(id)
    \/ NextBlock

Spec == Init /\ [][Next]_vars
-----------------------------------------------------------------------------
ProcessOK(p) ==
    /\ p.type \in ProcessTypes
    /\ p.participants \in SUBSET Validators
    /\ p.expiry \in Nat
    /\ p.status \in {"PENDING", "SUCCESS"}
    /\ p.event \in {"ACTIVE", "EXPIRED", "COMPLETED"}

\* The types of the collections of both modules; CurrentTssProcess is a process of the
\* history and the current key a key of the history.
TypeOK ==
    /\ EnvironmentOK(env)
    /\ bonded \subseteq Validators /\ tombed \subseteq Validators /\ removed \subseteq Validators
    /\ uv \in [Validators -> Statuses]
    /\ reason \in [Validators -> Reasons]
    /\ \A i \in DOMAIN tss.procs : ProcessOK(tss.procs[i])
    /\ tss.cur \in {0} \cup DOMAIN tss.procs
    /\ tss.pending \subseteq DOMAIN tss.procs
    /\ DOMAIN keys \subseteq KeyIds \cup {"genesis"}
    /\ curKey \in DOMAIN keys \cup {NoKey}
    /\ DOMAIN ballots \subseteq Nat \X KeyIds
    /\ height \in Nat

\* Everyone the chain counts as holding a share, ACTIVE or still leaving, is a
\* participant of the current key: admin removals, unbondings, re-bondings and
\* superseded processes never leave an ACTIVE validator outside the key that signs.  A
\* tombstoned validator is excepted: it is on its way out of the set for good.  So are
\* chains whose admin reactivates an unbonded validator, which is ACTIVE and yet not
\* eligible for the next process, or recomputes TSS ballots: others than the
\* participants of a process may then vote its key in.
KeyHolders ==
    env.checksBonded /\ ~env.recomputes =>
        \A v \in Validators \ tombed :
            uv[v] \in {"ACTIVE", "PENDING_LEAVE"} => curKey # NoKey /\ v \in keys[curKey].participants

\* "100% quorum": a key is installed only with the SUCCESS vote of every participant of
\* its process, although participants unbond, and processes are superseded, between votes.
UnanimousKey ==
    \A k \in DOMAIN keys \ {"genesis"} :
        keys[k].participants \subseteq YesVoters(ballots[<<keys[k].process, k>>])

\* The same where the admin leaves the quorum of TSS ballots alone.
UnanimousUnlessRecomputed == ~env.recomputes => UnanimousKey

\* What HandleBaseValidatorBonded relies on: for a validator that left, the reason of
\* its last event tells whether the admin or the base chain removed it, also after a
\* key finalization moved it from PENDING_LEAVE to INACTIVE.  Admin removals so never
\* come back by themselves and hook removals always can.
RemovalReason ==
    \A v \in Validators :
        uv[v] \in {"PENDING_LEAVE", "INACTIVE"} =>
            reason[v] = IF v \in removed THEN "ADMIN" ELSE "STAKING_HOOK"

\* The staking hooks keep the lifecycle in step with the base chain: a validator that
\* is ACTIVE or PENDING_JOIN is bonded.  UpdateUniversalValidatorStatus does not look at
\* the base chain, so this asks that the admin does.
LifecycleInStep ==
    env.checksBonded =>
        \A v \in Validators : uv[v] \in {"ACTIVE", "PENDING_JOIN"} => v \in bonded

\* One TSS process runs at a time: whatever is unexpired and unfinished is the current
\* process, so a superseded process can never be voted to a second key.
OneLiveProcess ==
    \A i \in DOMAIN tss.procs :
        Unexpired(tss.procs[i]) /\ tss.procs[i].status = "PENDING" => i = tss.cur

\* The event log and its index agree: pending means the INITIATED event is ACTIVE, and
\* the only ACTIVE KEY_FINALIZED event is the current key's.
EventsAgree ==
    /\ tss.pending = {i \in DOMAIN tss.procs : tss.procs[i].event = "ACTIVE"}
    /\ \A k \in DOMAIN keys : keys[k].event = "ACTIVE" <=> k = curKey
=============================================================================
