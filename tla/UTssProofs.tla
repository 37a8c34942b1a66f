----------------------------- MODULE UTssProofs -----------------------------
(***************************************************************************)
(* Proofs about UTss for any validators, keys, heights and environments:   *)
(* one TSS process at a time, an event index that agrees with the events,  *)
(* reasons that tell the admin's removals from the base chain's, keys that *)
(* every participant voted for, statuses in step with the bonds, and a key *)
(* that everyone counted as its holder takes part in.                      *)
(*                                                                         *)
(* The first three rest on what starting a process does to the processes   *)
(* before it; the fourth on ballots that keep the participants of their    *)
(* process as voters, all of whom the threshold asks for.                  *)
(***************************************************************************)
EXTENDS UTss, FiniteSetTheorems, SequenceTheorems, TLAPS

Procs ==
    [type : ProcessTypes, participants : SUBSET Validators, expiry : Nat,
     status : {"PENDING", "SUCCESS"}, event : {"ACTIVE", "EXPIRED", "COMPLETED"}]

Shape(t) ==
    /\ t \in [procs : Seq(Procs), cur : Nat, pending : SUBSET Nat]
    /\ t.cur \in 0 .. Len(t.procs)

Indexed(t) == t.pending = {i \in DOMAIN t.procs : t.procs[i].event = "ACTIVE"}

Live(t, i) == Unexpired(t.procs[i]) /\ t.procs[i].status = "PENDING"

\* u has the processes of t, with the same participants, and perhaps more.
Extends(t, u) ==
    /\ Len(t.procs) <= Len(u.procs)
    /\ \A i \in DOMAIN t.procs :
          i \in DOMAIN u.procs /\ u.procs[i].participants = t.procs[i].participants

Sane(t) == Shape(t) /\ Indexed(t) /\ \A i \in DOMAIN t.procs : Live(t, i) => i = t.cur

LEMMA ProcsTyped ==
    ASSUME NEW t, Shape(t)
    PROVE  /\ t.procs \in Seq(Procs) /\ Len(t.procs) \in Nat /\ DOMAIN t.procs = 1 .. Len(t.procs)
           /\ \A i \in DOMAIN t.procs : t.procs[i] \in Procs
           /\ t.cur # 0 => t.cur \in DOMAIN t.procs
BY LenProperties, ElementOfSeq DEF Shape

\* Replacing one process.
LEMMA ProcReplaced ==
    ASSUME NEW t, Shape(t), NEW c \in DOMAIN t.procs, NEW q \in Procs,
           q.participants = t.procs[c].participants
    PROVE  LET s == [t.procs EXCEPT ![c] = q]
           IN  /\ s \in Seq(Procs) /\ Len(s) = Len(t.procs) /\ DOMAIN s = DOMAIN t.procs
               /\ s[c] = q /\ \A i \in DOMAIN t.procs : i # c => s[i] = t.procs[i]
               /\ \A i \in DOMAIN t.procs : s[i].participants = t.procs[i].participants
<1> DEFINE s == [t.procs EXCEPT ![c] = q]
<1>1. s \in Seq(Procs) /\ Len(s) = Len(t.procs)
  BY ProcsTyped, ExceptSeq
<1>2. DOMAIN s = DOMAIN t.procs /\ s[c] = q /\ \A i \in DOMAIN t.procs : i # c => s[i] = t.procs[i]
  OBVIOUS
<1> HIDE DEF s
<1>3. \A i \in DOMAIN t.procs : s[i].participants = t.procs[i].participants
  BY <1>2
<1> QED BY <1>1, <1>2, <1>3 DEF s

LEMMA ForceExpireKeeps ==
    ASSUME NEW t, Sane(t), height \in Nat \ {0}
    PROVE  /\ Shape(ForceExpire(t)) /\ Indexed(ForceExpire(t)) /\ Extends(t, ForceExpire(t))
           /\ \A i \in DOMAIN ForceExpire(t).procs : ~Live(ForceExpire(t), i)
<1> DEFINE c == t.cur
<1>1. CASE c # 0 /\ Unexpired(t.procs[c])
  <2>1. c \in DOMAIN t.procs /\ t.procs[c] \in Procs
    BY <1>1, ProcsTyped DEF Sane
  <2> DEFINE q == [t.procs[c] EXCEPT !.expiry = height - 1, !.event = "EXPIRED"]
             s == [t.procs EXCEPT ![c] = q]
             u == [procs |-> s, cur |-> c, pending |-> t.pending \ {c}]
  <2>2. height - 1 \in Nat
    OBVIOUS
  <2>3. /\ q \in Procs /\ q.participants = t.procs[c].participants /\ q.expiry = height - 1
        /\ q.event = "EXPIRED"
    BY <2>1, <2>2, Zenon DEF Procs
  <2>4. ForceExpire(t) = u
    BY <1>1, <2>1, Zenon DEF ForceExpire, Sane, Shape, Procs
  <2> HIDE DEF q
  <2>5. /\ s \in Seq(Procs) /\ Len(s) = Len(t.procs) /\ DOMAIN s = DOMAIN t.procs
        /\ s[c] = q /\ \A i \in DOMAIN t.procs : i # c => s[i] = t.procs[i]
        /\ \A i \in DOMAIN t.procs : s[i].participants = t.procs[i].participants
    BY <2>1, <2>3, ProcReplaced DEF Sane
  <2> HIDE DEF s
  <2>6. Shape(u)
    BY <2>5 DEF Sane, Shape
  <2>7. Indexed(u)
    BY <2>1, <2>3, <2>5 DEF Sane, Indexed
  <2>8. Len(t.procs) \in Nat
    BY ProcsTyped DEF Sane
  <2>9. Extends(t, u)
    BY <2>5, <2>8 DEF Extends
  <2>10. ASSUME NEW i \in DOMAIN u.procs PROVE ~Live(u, i)
    <3>1. CASE i = c
      <4>1. ~(height < height - 1)
        OBVIOUS
      <4> QED BY <2>3, <2>5, <3>1, <4>1 DEF Live, Unexpired
    <3>2. CASE i # c
      BY <2>5, <3>2 DEF Live, Sane
    <3> QED BY <3>1, <3>2
  <2> HIDE DEF u
  <2> QED BY <2>4, <2>6, <2>7, <2>9, <2>10
<1>2. CASE ~(c # 0 /\ Unexpired(t.procs[c]))
  <2>1. ForceExpire(t) = t
    BY <1>2 DEF ForceExpire
  <2>2. DOMAIN t.procs = 1 .. Len(t.procs) /\ Len(t.procs) \in Nat
    BY ProcsTyped DEF Sane
  <2>3. \A i \in DOMAIN t.procs : ~Live(t, i)
    BY <1>2, <2>2 DEF Sane, Live
  <2>4. Extends(t, t)
    BY <2>2 DEF Extends
  <2> QED BY <2>1, <2>3, <2>4 DEF Sane
<1> QED BY <1>1, <1>2

LEMMA InitiateKeeps ==
    ASSUME NEW t, Sane(t), height \in Nat \ {0}, NEW type \in ProcessTypes,
           NEW participants \in SUBSET Validators
    PROVE  /\ Sane(InitiateTssKeyProcess(t, type, participants))
           /\ Extends(t, InitiateTssKeyProcess(t, type, participants))
<1> DEFINE e == ForceExpire(t)
           id == Len(e.procs) + 1
           q == [type |-> type, participants |-> participants, expiry |-> height + ProcessExpiry,
                 status |-> "PENDING", event |-> "ACTIVE"]
           s == Append(e.procs, q)
           u == [procs |-> s, cur |-> id, pending |-> e.pending \cup {id}]
<1>1. u = InitiateTssKeyProcess(t, type, participants)
  BY DEF InitiateTssKeyProcess
<1>2. q \in Procs /\ q.event = "ACTIVE"
  BY BoundsAssumption DEF Procs
<1>3. /\ Shape(e) /\ Indexed(e) /\ Extends(t, e) /\ \A i \in DOMAIN e.procs : ~Live(e, i)
  BY ForceExpireKeeps
<1> HIDE DEF e, q
<1>4. e.procs \in Seq(Procs) /\ Len(e.procs) \in Nat /\ DOMAIN e.procs = 1 .. Len(e.procs)
  BY <1>3, ProcsTyped
<1>5. /\ s \in Seq(Procs) /\ Len(s) = id /\ s[id] = q
      /\ \A i \in 1 .. Len(e.procs) : s[i] = e.procs[i]
  BY <1>2, <1>4, AppendProperties
<1>6. DOMAIN s = 1 .. id /\ id \in Nat
  BY <1>4, <1>5, LenProperties
<1> HIDE DEF s
<1>7. 1 .. id = (1 .. Len(e.procs)) \cup {id} /\ id \notin 1 .. Len(e.procs) /\ id \in 0 .. id
  BY <1>4
<1>8. Len(e.procs) <= id
  BY <1>4
<1> HIDE DEF id
<1>9. Shape(u)
  BY <1>3, <1>5, <1>6, <1>7 DEF Shape
<1>10. Indexed(u)
  BY <1>2, <1>3, <1>4, <1>5, <1>6, <1>7 DEF Indexed
<1>11. \A i \in DOMAIN u.procs : Live(u, i) => i = u.cur
  BY <1>3, <1>4, <1>5, <1>6, <1>7 DEF Live
<1>12. Extends(t, u)
  <2>1. Len(t.procs) \in Nat
    BY ProcsTyped DEF Sane
  <2>2. Len(t.procs) <= Len(u.procs)
    BY <1>3, <1>4, <1>5, <1>6, <1>8, <2>1 DEF Extends
  <2> QED BY <1>3, <1>4, <1>5, <1>6, <1>7, <2>2 DEF Extends
<1> HIDE DEF u
<1> QED BY <1>1, <1>9, <1>10, <1>11, <1>12 DEF Sane
-----------------------------------------------------------------------------
\* A ballot of a process of participants P, before any recomputation.
OfProcess(b, P) ==
    /\ b = [voters |-> b.voters, votes |-> b.votes, threshold |-> b.threshold,
            status |-> b.status, expiry |-> b.expiry]
    /\ b.voters = P /\ P \in SUBSET Validators
    /\ b.votes \in [P -> {NotYet, "SUCCESS"}]
    /\ b.threshold = Cardinality(P)

BallotsOK(bs, t) ==
    /\ \A id \in DOMAIN bs : \E i \in DOMAIN t.procs, k \in KeyIds : id = <<i, k>>
    /\ \A i \in DOMAIN t.procs, k \in KeyIds :
          <<i, k>> \in DOMAIN bs => OfProcess(bs[<<i, k>>], t.procs[i].participants)

KeyRecords == [participants : SUBSET Validators, process : Nat, event : {"ACTIVE", "COMPLETED"}]

\* A key rests on a ballot that all its participants voted SUCCESS on.
KeysVoted(ks, bs) ==
    \A k \in DOMAIN ks \ {"genesis"} :
        /\ <<ks[k].process, k>> \in DOMAIN bs
        /\ ks[k].participants \subseteq YesVoters(bs[<<ks[k].process, k>>])

ReasonOf(v) ==
    /\ uv[v] \in {"PENDING_LEAVE", "INACTIVE"}
          => reason[v] = IF v \in removed THEN "ADMIN" ELSE "STAKING_HOOK"
    /\ uv[v] \in {"NONE", "PENDING_JOIN", "ACTIVE"} => v \notin removed

LifecycleInv ==
    /\ uv \in [Validators -> Statuses] /\ reason \in [Validators -> Reasons]
    /\ \A v \in Validators : ReasonOf(v)

KeysInv ==
    /\ DOMAIN keys \subseteq KeyIds \cup {"genesis"}
    /\ \A k \in DOMAIN keys : keys[k] \in KeyRecords /\ (keys[k].event = "ACTIVE" <=> k = curKey)

TssInv ==
    /\ env \in Environments /\ height \in Nat \ {0}
    /\ Sane(tss) /\ LifecycleInv /\ KeysInv
    /\ ~env.recomputes => BallotsOK(ballots, tss) /\ KeysVoted(keys, ballots)

LEMMA BallotsKept ==
    ASSUME NEW bs, NEW t, NEW u, BallotsOK(bs, t), Extends(t, u) PROVE BallotsOK(bs, u)
<1>1. \A id \in DOMAIN bs : \E i \in DOMAIN u.procs, k \in KeyIds : id = <<i, k>>
  BY DEF BallotsOK, Extends
<1>2. ASSUME NEW i \in DOMAIN u.procs, NEW k \in KeyIds, <<i, k>> \in DOMAIN bs
      PROVE  OfProcess(bs[<<i, k>>], u.procs[i].participants)
  <2>1. i \in DOMAIN t.procs
    BY <1>2 DEF BallotsOK
  <2>2. OfProcess(bs[<<i, k>>], t.procs[i].participants)
    BY <1>2, <2>1 DEF BallotsOK
  <2> QED BY <2>1, <2>2 DEF Extends
<1> QED BY <1>1, <1>2 DEF BallotsOK

LEMMA SetChangeKeeps ==
    ASSUME Sane(tss), height \in Nat \ {0}, NEW u, NEW b
    PROVE  /\ Sane(HandleEligibleValidatorSetChange(tss, u, b))
           /\ Extends(tss, HandleEligibleValidatorSetChange(tss, u, b))
<1> DEFINE E == EligibleIn(u, b)
           type == IF curKey = NoKey THEN "KEYGEN" ELSE "QUORUM_CHANGE"
<1>1. E \in SUBSET Validators /\ type \in ProcessTypes
  BY DEF EligibleIn, ProcessTypes
<1> HIDE DEF E, type
<1>2. Sane(InitiateTssKeyProcess(tss, type, E)) /\ Extends(tss, InitiateTssKeyProcess(tss, type, E))
  BY <1>1, InitiateKeeps
<1>3. Len(tss.procs) \in Nat
  BY ProcsTyped DEF Sane
<1>4. Extends(tss, tss)
  BY <1>3 DEF Extends
<1> QED BY <1>2, <1>4 DEF HandleEligibleValidatorSetChange, E, type

\* Any step that leaves ballots and keys alone.
LEMMA OthersKept ==
    ASSUME TssInv, UNCHANGED <<env, keys, curKey, ballots, height>>,
           Sane(tss'), Extends(tss, tss')
    PROVE  /\ env' \in Environments /\ height' \in Nat \ {0}
           /\ Sane(tss)' /\ KeysInv'
           /\ ~env'.recomputes => BallotsOK(ballots, tss)' /\ KeysVoted(keys, ballots)'
<1>1. Sane(tss)'
  BY DEF Sane, Shape, Indexed, Live, Unexpired
<1>2. KeysInv'
  BY DEF TssInv, KeysInv
<1>3. ~env'.recomputes => BallotsOK(ballots, tss')
  BY BallotsKept DEF TssInv
<1>4. BallotsOK(ballots, tss') => BallotsOK(ballots, tss)'
  BY DEF BallotsOK, OfProcess
<1>5. KeysVoted(keys, ballots) => KeysVoted(keys, ballots)'
  BY DEF KeysVoted, YesVoters
<1> QED BY <1>1, <1>2, <1>3, <1>4, <1>5 DEF TssInv

\* One validator's lifecycle event.
LEMMA StatusSet ==
    ASSUME LifecycleInv, NEW v \in Validators, NEW s \in Statuses, NEW r \in Reasons,
           SetStatus(v, s, r), \A w \in Validators : w # v => (w \in removed' <=> w \in removed),
           s \in {"PENDING_LEAVE", "INACTIVE"}
              => r = IF v \in removed' THEN "ADMIN" ELSE "STAKING_HOOK",
           s \in {"NONE", "PENDING_JOIN", "ACTIVE"} => v \notin removed'
    PROVE  LifecycleInv'
<1>1. /\ uv' \in [Validators -> Statuses] /\ reason' \in [Validators -> Reasons]
      /\ uv'[v] = s /\ reason'[v] = r
      /\ \A w \in Validators : w # v => uv'[w] = uv[w] /\ reason'[w] = reason[w]
  BY DEF SetStatus, LifecycleInv
<1>2. ASSUME NEW w \in Validators PROVE ReasonOf(w)'
  <2>1. CASE w = v
    BY <1>1, <2>1 DEF ReasonOf
  <2>2. CASE w # v
    BY <1>1, <2>2 DEF ReasonOf, LifecycleInv
  <2> QED BY <2>1, <2>2
<1> QED BY <1>1, <1>2 DEF LifecycleInv

LEMMA SameTss ==
    ASSUME TssInv, tss' = tss, height' = height PROVE Sane(tss') /\ Extends(tss, tss')
<1>1. Len(tss.procs) \in Nat
  BY ProcsTyped DEF TssInv, Sane
<1> QED BY <1>1 DEF TssInv, Extends

LEMMA LifecycleStep ==
    ASSUME TssInv, NEW v \in Validators,
           \/ AddUniversalValidator(v) \/ RemoveUniversalValidator(v)
           \/ UpdateUniversalValidatorStatus(v) \/ HandleBaseValidatorUnbonding(v)
           \/ HandleBaseValidatorBonded(v)
    PROVE  TssInv'
<1>1. UNCHANGED <<env, keys, curKey, ballots, height>>
  BY DEF AddUniversalValidator, RemoveUniversalValidator, UpdateUniversalValidatorStatus,
         HandleBaseValidatorUnbonding, HandleBaseValidatorBonded
<1>2. tss' = tss \/ \E b : tss' = HandleEligibleValidatorSetChange(tss, uv', b)
  BY DEF AddUniversalValidator, RemoveUniversalValidator, UpdateUniversalValidatorStatus,
         HandleBaseValidatorUnbonding, HandleBaseValidatorBonded
<1>3. Sane(tss') /\ Extends(tss, tss')
  BY <1>1, <1>2, SameTss, SetChangeKeeps DEF TssInv
<1>4. LifecycleInv'
  <2>0. LifecycleInv /\ ReasonOf(v) /\ uv[v] \in Statuses
    BY DEF TssInv, LifecycleInv
  <2>1. CASE AddUniversalValidator(v)
    <3>1. SetStatus(v, "PENDING_JOIN", "UNSPECIFIED") /\ removed' = removed \ {v}
      BY <2>1 DEF AddUniversalValidator
    <3> QED BY <2>0, <3>1, StatusSet DEF Statuses, Reasons
  <2>2. CASE RemoveUniversalValidator(v)
    <3>1. /\ removed' = removed \cup {v}
          /\ SetStatus(v, "PENDING_LEAVE", "ADMIN") \/ SetStatus(v, "INACTIVE", "ADMIN")
      BY <2>2 DEF RemoveUniversalValidator
    <3> QED BY <2>0, <3>1, StatusSet DEF Statuses, Reasons
  <2>3. CASE UpdateUniversalValidatorStatus(v)
    <3>1. SetStatus(v, "ACTIVE", "ADMIN") /\ removed' = removed \ {v}
      BY <2>3 DEF UpdateUniversalValidatorStatus
    <3> QED BY <2>0, <3>1, StatusSet DEF Statuses, Reasons
  <2>4. CASE HandleBaseValidatorUnbonding(v)
    <3>1. CASE uv[v] \in {"ACTIVE", "PENDING_JOIN"}
      <4>1. /\ SetStatus(v, IF uv[v] = "ACTIVE" THEN "PENDING_LEAVE" ELSE "INACTIVE", "STAKING_HOOK")
            /\ removed' = removed /\ v \notin removed
        BY <2>0, <2>4, <3>1 DEF HandleBaseValidatorUnbonding, ReasonOf
      <4> QED BY <2>0, <4>1, StatusSet DEF Statuses, Reasons
    <3>2. CASE uv[v] \notin {"ACTIVE", "PENDING_JOIN"}
      <4>1. UNCHANGED <<uv, reason, removed>>
        BY <2>4, <3>2 DEF HandleBaseValidatorUnbonding
      <4> QED BY <2>0, <4>1 DEF LifecycleInv, ReasonOf
    <3> QED BY <3>1, <3>2
  <2>5. CASE HandleBaseValidatorBonded(v)
    <3>1. CASE AutoRevivable(v)
      <4>1. /\ SetStatus(v, IF uv[v] = "PENDING_LEAVE" THEN "ACTIVE" ELSE "PENDING_JOIN", "STAKING_HOOK")
            /\ removed' = removed /\ v \notin removed
        BY <2>0, <2>5, <3>1 DEF HandleBaseValidatorBonded, AutoRevivable, ReasonOf
      <4> QED BY <2>0, <4>1, StatusSet DEF Statuses, Reasons
    <3>2. CASE ~AutoRevivable(v)
      <4>1. UNCHANGED <<uv, reason, removed>>
        BY <2>5, <3>2 DEF HandleBaseValidatorBonded
      <4> QED BY <2>0, <4>1 DEF LifecycleInv, ReasonOf
    <3> QED BY <3>1, <3>2
  <2> QED BY <2>1, <2>2, <2>3, <2>4, <2>5
<1> QED BY <1>1, <1>3, <1>4, OthersKept DEF TssInv

-----------------------------------------------------------------------------
LEMMA ExpiredOfProcess ==
    ASSUME NEW P, NEW b, OfProcess(b, P)
    PROVE  OfProcess(Expired(b), P) /\ YesVoters(Expired(b)) = YesVoters(b)
<1>1. Expired(b) = [voters |-> b.voters, votes |-> b.votes, threshold |-> b.threshold,
                    status |-> "EXPIRED", expiry |-> b.expiry]
  BY DEF Expired, OfProcess
<1> QED BY <1>1 DEF OfProcess, YesVoters

\* A SUCCESS vote: when it finalizes the ballot, it was the last of all.
LEMMA VoteOfProcess ==
    ASSUME NEW P, NEW b, OfProcess(b, P), NEW v, CanAddVote(b, v)
    PROVE  LET w == AddVote(b, v, "SUCCESS")
               x == [w EXCEPT !.status = IsFinalizingVote(w)]
           IN  /\ OfProcess(x, P) /\ YesVoters(b) \subseteq YesVoters(x)
               /\ x.status # "PENDING" => P \subseteq YesVoters(x)
<1> DEFINE w == AddVote(b, v, "SUCCESS")
           st == IsFinalizingVote(w)
           x == [w EXCEPT !.status = st]
           f == [b.votes EXCEPT ![v] = "SUCCESS"]
<1>1. v \in P /\ b.status = "PENDING" /\ P \in SUBSET Validators
  BY DEF CanAddVote, OfProcess
<1>2. w = [voters |-> P, votes |-> f, threshold |-> Cardinality(P), status |-> "PENDING",
           expiry |-> b.expiry]
  BY <1>1 DEF AddVote, OfProcess
<1>3. f \in [P -> {NotYet, "SUCCESS"}] /\ f[v] = "SUCCESS" /\ \A y \in P : y # v => f[y] = b.votes[y]
  BY <1>1 DEF OfProcess
<1> HIDE DEF f, st
<1>4. x = [voters |-> P, votes |-> f, threshold |-> Cardinality(P), status |-> st,
           expiry |-> b.expiry]
  BY <1>2
<1>5. YesVoters(x) = {y \in P : f[y] = "SUCCESS"} /\ YesVoters(w) = YesVoters(x) /\ NoVoters(w) = {}
  BY <1>2, <1>3, <1>4 DEF YesVoters, NoVoters, NotYet
<1>6. YesVoters(b) \subseteq YesVoters(x)
  BY <1>3, <1>5 DEF YesVoters, OfProcess
<1>7. OfProcess(x, P)
  BY <1>1, <1>3, <1>4 DEF OfProcess
<1>8. ASSUME st # "PENDING" PROVE P \subseteq YesVoters(x)
  <2>1. IsFiniteSet(P)
    BY <1>1, ValidatorsAssumption, FS_Subset
  <2>2. Cardinality(P) \in Nat /\ Cardinality(P) # 0
    BY <1>1, <2>1, FS_CardinalityType, FS_EmptySet
  <2>3. Cardinality(NoVoters(w)) = 0
    BY <1>5, FS_EmptySet
  <2>4. Cardinality(YesVoters(w)) >= Cardinality(P)
    BY <1>2, <1>8, <2>2, <2>3 DEF IsFinalizingVote, st
  <2>5. YesVoters(x) \subseteq P
    BY <1>5
  <2>6. IsFiniteSet(YesVoters(x)) /\ Cardinality(YesVoters(x)) <= Cardinality(P)
        /\ (Cardinality(YesVoters(x)) = Cardinality(P) => YesVoters(x) = P)
    BY <2>1, <2>5, FS_Subset
  <2>7. Cardinality(YesVoters(x)) \in Nat
    BY <2>6, FS_CardinalityType
  <2> HIDE DEF x, w
  <2>8. Cardinality(YesVoters(x)) = Cardinality(P)
    BY <1>5, <2>2, <2>4, <2>6, <2>7
  <2> QED BY <2>6, <2>8
<1>9. x.status = st
  BY <1>4
<1> HIDE DEF x
<1> QED BY <1>6, <1>7, <1>8, <1>9 DEF x, st

LEMMA VoteInProcess ==
    ASSUME NEW bs, NEW t, BallotsOK(bs, t), NEW c \in DOMAIN t.procs, NEW k \in KeyIds,
           NEW v \in Validators, NEW h \in Nat, NEW new, t.procs[c].participants \in SUBSET Validators,
           OfProcess(new, t.procs[c].participants), VoteAccepted(bs, <<c, k>>, new, v, h)
    PROVE  LET n == VoteOnBallot(bs, <<c, k>>, new, v, "SUCCESS", h)
           IN  /\ BallotsOK(n, t) /\ <<c, k>> \in DOMAIN n
               /\ \A i \in DOMAIN bs : i \in DOMAIN n /\ YesVoters(bs[i]) \subseteq YesVoters(n[i])
               /\ n[<<c, k>>].status # "PENDING"
                    => t.procs[c].participants \subseteq YesVoters(n[<<c, k>>])
<1> DEFINE P == t.procs[c].participants
           id == <<c, k>>
           store == GetOrCreateBallot(bs, id, new, h)
           w == AddVote(store[id], v, "SUCCESS")
           x == [w EXCEPT !.status = IsFinalizingVote(w)]
           n == [store EXCEPT ![id] = x]
<1>1. n = VoteOnBallot(bs, id, new, v, "SUCCESS", h) /\ CanAddVote(store[id], v)
  BY DEF VoteOnBallot, VoteAccepted
<1>2. DOMAIN store = DOMAIN bs \cup {id}
  BY DEF GetOrCreateBallot
<1>3. \A i \in DOMAIN bs : i # id => store[i] \in {bs[i], Expired(bs[i])}
  BY DEF GetOrCreateBallot, ExpireBallotsBeforeHeight
<1>4. store[id] = IF id \in DOMAIN bs THEN bs[id] ELSE new
  BY DEF GetOrCreateBallot
<1> HIDE DEF store
<1>5. OfProcess(store[id], P)
  BY <1>4 DEF BallotsOK
<1>6. /\ OfProcess(x, P) /\ YesVoters(store[id]) \subseteq YesVoters(x)
      /\ x.status # "PENDING" => P \subseteq YesVoters(x)
  BY <1>1, <1>5, VoteOfProcess
<1> HIDE DEF x
<1>7. DOMAIN n = DOMAIN bs \cup {id} /\ n[id] = x /\ \A i \in DOMAIN bs : i # id => n[i] = store[i]
  BY <1>2
<1> HIDE DEF n
<1>8. \A y \in DOMAIN n : \E i \in DOMAIN t.procs, j \in KeyIds : y = <<i, j>>
  BY <1>7 DEF BallotsOK
<1>9. ASSUME NEW i \in DOMAIN t.procs, NEW j \in KeyIds, <<i, j>> \in DOMAIN n
      PROVE  OfProcess(n[<<i, j>>], t.procs[i].participants)
  <2>1. CASE <<i, j>> = id
    BY <1>6, <1>7, <2>1
  <2>2. CASE <<i, j>> # id
    <3>1. <<i, j>> \in DOMAIN bs
      BY <1>7, <1>9, <2>2
    <3>2. OfProcess(bs[<<i, j>>], t.procs[i].participants)
      BY <3>1 DEF BallotsOK
    <3> QED BY <1>3, <1>7, <2>2, <3>1, <3>2, ExpiredOfProcess
  <2> QED BY <2>1, <2>2
<1>10. ASSUME NEW i \in DOMAIN bs PROVE i \in DOMAIN n /\ YesVoters(bs[i]) \subseteq YesVoters(n[i])
  <2>1. CASE i = id
    BY <1>4, <1>6, <1>7, <2>1
  <2>2. CASE i # id
    <3>1. PICK a \in DOMAIN t.procs, j \in KeyIds : i = <<a, j>>
      BY DEF BallotsOK
    <3>2. OfProcess(bs[i], t.procs[a].participants)
      BY <3>1 DEF BallotsOK
    <3> QED BY <1>3, <1>7, <2>2, <3>2, ExpiredOfProcess
  <2> QED BY <2>1, <2>2
<1>11. BallotsOK(n, t)
  BY <1>8, <1>9 DEF BallotsOK
<1> QED BY <1>1, <1>6, <1>7, <1>10, <1>11

\* The finalizing vote closes the current process.
LEMMA ClosingKeeps ==
    ASSUME NEW t, Sane(t), NEW c \in DOMAIN t.procs, c = t.cur,
           NEW u, u = [procs   |-> [t.procs EXCEPT ![c].status = "SUCCESS", ![c].event = "COMPLETED"],
                       cur     |-> 0,
                       pending |-> t.pending \ {c}]
    PROVE  Sane(u) /\ Extends(t, u)
<1> DEFINE q == [t.procs[c] EXCEPT !.status = "SUCCESS", !.event = "COMPLETED"]
           s == [t.procs EXCEPT ![c] = q]
<1>1. t.procs[c] \in Procs /\ Len(t.procs) \in Nat
  BY ProcsTyped DEF Sane
<1>2. q \in Procs /\ q.participants = t.procs[c].participants /\ q.status = "SUCCESS" /\ q.event = "COMPLETED"
  BY <1>1 DEF Procs
<1>3. u = [procs |-> s, cur |-> 0, pending |-> t.pending \ {c}]
  BY <1>1, Zenon DEF Procs
<1> HIDE DEF q
<1>4. /\ s \in Seq(Procs) /\ Len(s) = Len(t.procs) /\ DOMAIN s = DOMAIN t.procs
      /\ s[c] = q /\ \A i \in DOMAIN t.procs : i # c => s[i] = t.procs[i]
      /\ \A i \in DOMAIN t.procs : s[i].participants = t.procs[i].participants
  BY <1>2, ProcReplaced DEF Sane
<1> HIDE DEF s
<1>5. Shape(u)
  BY <1>1, <1>3, <1>4, SMTT(20) DEF Sane, Shape
<1>6. Indexed(u)
  BY <1>2, <1>3, <1>4 DEF Sane, Indexed
<1>7. Extends(t, u)
  BY <1>1, <1>3, <1>4 DEF Extends
<1>8. ASSUME NEW i \in DOMAIN u.procs PROVE ~Live(u, i)
  <2>1. CASE i = c
    BY <1>2, <1>3, <1>4, <2>1 DEF Live
  <2>2. CASE i # c
    BY <1>3, <1>4, <2>2 DEF Live, Sane
  <2> QED BY <2>1, <2>2
<1> QED BY <1>5, <1>6, <1>7, <1>8 DEF Sane

LEMMA VoteStep ==
    ASSUME TssInv, NEW v \in Validators, NEW k \in KeyIds, VoteTssKeyProcess(v, k)
    PROVE  TssInv'
<1> DEFINE c == tss.cur
           p == tss.procs[c]
           id == <<c, k>>
           done == ballots'[id].status # "PENDING"
<1>1. /\ c \in DOMAIN tss.procs /\ p \in Procs /\ p.participants \in SUBSET Validators
      /\ p.expiry \in Nat /\ c \in Nat /\ Sane(tss) /\ height \in Nat
  BY ProcsTyped, Zenon DEF VoteTssKeyProcess, HasOngoingTss, TssInv, Sane, Shape, Procs
<1>2. /\ VoteAccepted(ballots, id, TssBallot(p), v, height)
      /\ ballots' = VoteOnBallot(ballots, id, TssBallot(p), v, "SUCCESS", height)
      /\ UNCHANGED <<env, reason, height, removed>> /\ k \notin DOMAIN keys
  BY DEF VoteTssKeyProcess
<1>3. ~done => UNCHANGED <<uv, tss, keys, curKey>>
  BY DEF VoteTssKeyProcess
<1>4. done => /\ keys' = KeysWith(k, p) /\ curKey' = k /\ uv' = SettledStatuses(p)
              /\ tss' = [procs   |-> [tss.procs EXCEPT ![c].status = "SUCCESS", ![c].event = "COMPLETED"],
                         cur     |-> 0,
                         pending |-> tss.pending \ {c}]
  BY DEF VoteTssKeyProcess
<1>5. OfProcess(TssBallot(p), p.participants)
  BY <1>1, Zenon DEF TssBallot, NewBallot, OfProcess
<1>6. ~env.recomputes =>
        /\ BallotsOK(ballots', tss) /\ id \in DOMAIN ballots'
        /\ \A i \in DOMAIN ballots : i \in DOMAIN ballots' /\ YesVoters(ballots[i]) \subseteq YesVoters(ballots'[i])
        /\ done => p.participants \subseteq YesVoters(ballots'[id])
  BY <1>1, <1>2, <1>5, VoteInProcess, Zenon DEF TssInv
<1> HIDE DEF done
<1>7. Sane(tss') /\ Extends(tss, tss')
  <2>1. CASE done
    BY <1>1, <1>4, <2>1, ClosingKeeps, Zenon
  <2>2. CASE ~done
    BY <1>2, <1>3, <2>2, SameTss
  <2> QED BY <2>1, <2>2
<1>8. Sane(tss)'
  BY <1>2, <1>7, Zenon DEF Sane, Shape, Indexed, Live, Unexpired
<1>9. LifecycleInv'
  <2>1. CASE done
    <3>0. LifecycleInv
      BY DEF TssInv
    <3>1. uv' \in [Validators -> Statuses] /\ reason' \in [Validators -> Reasons]
      BY <1>2, <1>4, <2>1, <3>0 DEF LifecycleInv, SettledStatuses, Statuses
    <3>2. ASSUME NEW w \in Validators PROVE ReasonOf(w)'
      <4>0. uv'[w] = IF p.type = "REFRESH" THEN uv[w]
                     ELSE IF uv[w] = "PENDING_JOIN" /\ w \in p.participants THEN "ACTIVE"
                     ELSE IF uv[w] = "PENDING_LEAVE" /\ w \notin p.participants THEN "INACTIVE"
                     ELSE uv[w]
        BY <1>4, <2>1 DEF SettledStatuses
      <4>1. \/ uv'[w] = uv[w]
            \/ uv[w] = "PENDING_JOIN" /\ uv'[w] = "ACTIVE"
            \/ uv[w] = "PENDING_LEAVE" /\ uv'[w] = "INACTIVE"
        BY <4>0
      <4>2. ReasonOf(w) /\ reason' = reason /\ removed' = removed
        BY <1>2, <3>0 DEF LifecycleInv
      <4>3. CASE uv'[w] = uv[w]
        BY <4>2, <4>3 DEF ReasonOf
      <4>4. CASE uv[w] = "PENDING_JOIN" /\ uv'[w] = "ACTIVE"
        BY <4>2, <4>4 DEF ReasonOf
      <4>5. CASE uv[w] = "PENDING_LEAVE" /\ uv'[w] = "INACTIVE"
        BY <4>2, <4>5 DEF ReasonOf
      <4> QED BY <4>1, <4>3, <4>4, <4>5
    <3> QED BY <3>1, <3>2 DEF LifecycleInv
  <2>2. CASE ~done
    BY <1>2, <1>3, <2>2 DEF TssInv, LifecycleInv, ReasonOf
  <2> QED BY <2>1, <2>2
<1>10. KeysInv'
  <2>1. CASE done
    <3>1. DOMAIN keys' \subseteq KeyIds \cup {"genesis"}
      BY <1>4, <2>1 DEF KeysWith, TssInv, KeysInv
    <3>2. ASSUME NEW j \in DOMAIN keys' PROVE keys'[j] \in KeyRecords /\ (keys'[j].event = "ACTIVE" <=> j = k)
      <4>1. CASE j = k
        BY <1>1, <1>4, <2>1, <4>1 DEF KeysWith, KeyRecords
      <4>2. CASE j # k
        <5>1. j \in DOMAIN keys /\ keys'[j] = [keys[j] EXCEPT !.event = "COMPLETED"]
          BY <1>4, <2>1, <4>2 DEF KeysWith
        <5>2. keys[j] \in KeyRecords
          BY <5>1 DEF TssInv, KeysInv
        <5>3. keys'[j] \in KeyRecords /\ keys'[j].event = "COMPLETED"
          BY <5>1, <5>2 DEF KeyRecords
        <5> QED BY <4>2, <5>3
      <4> QED BY <4>1, <4>2
    <3> QED BY <1>4, <2>1, <3>1, <3>2 DEF KeysInv
  <2>2. CASE ~done
    BY <1>3, <2>2 DEF TssInv, KeysInv
  <2> QED BY <2>1, <2>2
<1>11. ASSUME ~env.recomputes PROVE BallotsOK(ballots', tss') /\ KeysVoted(keys', ballots')
  <2>1. BallotsOK(ballots', tss')
    BY <1>6, <1>7, <1>11, BallotsKept
  <2>2. ASSUME NEW j \in DOMAIN keys \ {"genesis"}
        PROVE  /\ <<keys[j].process, j>> \in DOMAIN ballots'
               /\ keys[j].participants \subseteq YesVoters(ballots'[<<keys[j].process, j>>])
    BY <1>6, <1>11 DEF TssInv, KeysVoted
  <2>3. CASE done
    <3>1. ASSUME NEW j \in DOMAIN keys' \ {"genesis"}
          PROVE  /\ <<keys'[j].process, j>> \in DOMAIN ballots'
                 /\ keys'[j].participants \subseteq YesVoters(ballots'[<<keys'[j].process, j>>])
      <4>1. CASE j = k
        <5>1. keys'[j].process = c /\ keys'[j].participants = p.participants
          BY <1>4, <2>3, <4>1 DEF KeysWith
        <5> QED BY <1>6, <1>11, <2>3, <4>1, <5>1
      <4>2. CASE j # k
        <5>1. j \in DOMAIN keys /\ keys'[j] = [keys[j] EXCEPT !.event = "COMPLETED"]
          BY <1>4, <2>3, <4>2 DEF KeysWith
        <5>2. keys[j] \in KeyRecords
          BY <5>1 DEF TssInv, KeysInv
        <5>3. keys'[j].process = keys[j].process /\ keys'[j].participants = keys[j].participants
          BY <5>1, <5>2 DEF KeyRecords
        <5> QED BY <2>2, <5>1, <5>3
      <4> QED BY <4>1, <4>2
    <3> QED BY <2>1, <3>1 DEF KeysVoted
  <2>4. CASE ~done
    BY <1>3, <2>1, <2>2, <2>4 DEF KeysVoted
  <2> QED BY <2>3, <2>4
<1>12. BallotsOK(ballots', tss') => BallotsOK(ballots, tss)'
  BY DEF BallotsOK, OfProcess
<1>13. KeysVoted(keys', ballots') => KeysVoted(keys, ballots)'
  BY Zenon DEF KeysVoted, YesVoters
<1> QED BY <1>2, <1>8, <1>9, <1>10, <1>11, <1>12, <1>13 DEF TssInv

LEMMA TssInvInit == ASSUME Init PROVE TssInv
<1>1. EnvironmentOK(env)
  BY EnvironmentsAssumption DEF Init
<1>2. Sane(tss)
  <2>1. tss.procs = <<>> /\ tss.procs \in Seq(Procs) /\ Len(tss.procs) = 0 /\ DOMAIN tss.procs = {}
    BY EmptySeq DEF Init
  <2>2. Shape(tss)
    BY <2>1 DEF Init, Shape
  <2> QED BY <2>1, <2>2 DEF Init, Sane, Indexed
<1>3. LifecycleInv
  BY DEF Init, LifecycleInv, ReasonOf, Statuses, Reasons
<1>4. KeysInv
  BY <1>1, KeysAssumption DEF Init, KeysInv, KeyRecords, EnvironmentOK
<1>5. BallotsOK(ballots, tss) /\ KeysVoted(keys, ballots)
  BY DEF Init, BallotsOK, KeysVoted
<1>6. env \in Environments /\ height \in Nat \ {0}
  BY DEF Init
<1> QED BY <1>2, <1>3, <1>4, <1>5, <1>6 DEF TssInv

LEMMA TssInvStep == ASSUME TssInv, [Next]_vars PROVE TssInv'
<1>1. ASSUME NEW v \in Validators,
             \/ AddUniversalValidator(v) \/ RemoveUniversalValidator(v)
             \/ UpdateUniversalValidatorStatus(v) \/ HandleBaseValidatorUnbonding(v)
             \/ HandleBaseValidatorBonded(v)
      PROVE  TssInv'
  BY <1>1, LifecycleStep
<1>2. ASSUME NEW v \in Validators, NEW k \in KeyIds, VoteTssKeyProcess(v, k) PROVE TssInv'
  BY <1>2, VoteStep
<1>3. ASSUME NEW type \in env.adminTypes, AdminInitiateTssKeyProcess(type) PROVE TssInv'
  <2> DEFINE P == GetTssParticipants(type, uv, bonded)
  <2>1. type \in ProcessTypes /\ P \in SUBSET Validators
    BY EnvironmentsAssumption DEF TssInv, EnvironmentOK, ProcessTypes, GetTssParticipants, EligibleIn
  <2>2. /\ tss' = InitiateTssKeyProcess(tss, type, P)
        /\ UNCHANGED <<env, uv, reason, removed, keys, curKey, ballots, height>>
    BY <1>3 DEF AdminInitiateTssKeyProcess, uvVars
  <2> HIDE DEF P
  <2>3. Sane(tss') /\ Extends(tss, tss')
    BY <2>1, <2>2, InitiateKeeps DEF TssInv
  <2>4. LifecycleInv'
    BY <2>2 DEF TssInv, LifecycleInv, ReasonOf
  <2> QED BY <2>2, <2>3, <2>4, OthersKept DEF TssInv
<1>4. ASSUME NEW id, RecomputeTssBallot(id) PROVE TssInv'
  <2>1. env.recomputes /\ UNCHANGED <<env, uv, reason, removed, tss, keys, curKey, height>>
    BY <1>4 DEF RecomputeTssBallot, uvVars
  <2>2. Sane(tss)' /\ LifecycleInv' /\ KeysInv'
    BY <2>1 DEF TssInv, Sane, Shape, Indexed, Live, Unexpired, LifecycleInv, ReasonOf, KeysInv
  <2> QED BY <2>1, <2>2 DEF TssInv
<1>5. ASSUME NEW v \in Validators, Tombstone(v) PROVE TssInv'
  <2>1. UNCHANGED <<env, uv, reason, removed, tss, keys, curKey, ballots, height>>
    BY <1>5 DEF Tombstone
  <2>2. LifecycleInv'
    BY <2>1 DEF TssInv, LifecycleInv, ReasonOf
  <2> QED BY <2>1, <2>2, SameTss, OthersKept DEF TssInv
<1>6. ASSUME NextBlock PROVE TssInv'
  <2>1. UNCHANGED <<env, uv, reason, removed, tss, keys, curKey, ballots>> /\ height' = height + 1
    BY <1>6 DEF NextBlock
  <2>2. LifecycleInv' /\ KeysInv'
    BY <2>1 DEF TssInv, LifecycleInv, ReasonOf, KeysInv
  <2>3. Sane(tss)'
    <3>1. ASSUME NEW i \in DOMAIN tss.procs, Live(tss, i)' PROVE Live(tss, i)
      <4>1. height \in Nat /\ tss.procs[i].expiry \in Nat
        BY ProcsTyped DEF TssInv, Sane, Procs
      <4> QED BY <2>1, <3>1, <4>1 DEF Live, Unexpired
    <3> QED BY <2>1, <3>1 DEF TssInv, Sane, Shape, Indexed
  <2>4. height' \in Nat \ {0}
    BY <2>1 DEF TssInv
  <2>5. BallotsOK(ballots, tss) /\ KeysVoted(keys, ballots)
          => BallotsOK(ballots, tss)' /\ KeysVoted(keys, ballots)'
    BY <2>1, ZenonT(20) DEF BallotsOK, OfProcess, KeysVoted, YesVoters
  <2> QED BY <2>1, <2>2, <2>3, <2>4, <2>5 DEF TssInv
<1>7. ASSUME UNCHANGED vars PROVE TssInv'
  <2>1. UNCHANGED <<env, uv, reason, removed, tss, keys, curKey, ballots, height>>
    BY <1>7 DEF vars
  <2>2. LifecycleInv'
    BY <2>1 DEF TssInv, LifecycleInv, ReasonOf
  <2> QED BY <2>1, <2>2, SameTss, OthersKept DEF TssInv
<1> QED BY <1>1, <1>2, <1>3, <1>4, <1>5, <1>6, <1>7 DEF Next

LEMMA TssInvariant == Spec => []TssInv
<1>1. Init => TssInv
  BY TssInvInit
<1>2. TssInv /\ [Next]_vars => TssInv'
  BY TssInvStep
<1> QED BY <1>1, <1>2, PTL DEF Spec
-----------------------------------------------------------------------------
\* The collections that TssInv says nothing of.
SetsTyped ==
    /\ bonded \subseteq Validators /\ tombed \subseteq Validators /\ removed \subseteq Validators
    /\ curKey \in DOMAIN keys \cup {NoKey}
    /\ DOMAIN ballots \subseteq Nat \X KeyIds

LEMMA SetsKeepTypes == ASSUME TssInv, SetsTyped, [Next]_vars PROVE SetsTyped'
<1>1. ASSUME NEW v \in Validators,
             \/ AddUniversalValidator(v) \/ RemoveUniversalValidator(v)
             \/ UpdateUniversalValidatorStatus(v) \/ HandleBaseValidatorUnbonding(v)
             \/ HandleBaseValidatorBonded(v) \/ Tombstone(v)
      PROVE  SetsTyped'
  <2>1. /\ UNCHANGED <<keys, curKey, ballots>> /\ tombed' \subseteq tombed \cup {v}
        /\ bonded' \subseteq bonded \cup {v} /\ removed' \subseteq removed \cup {v}
    BY <1>1, Zenon DEF AddUniversalValidator, RemoveUniversalValidator, UpdateUniversalValidatorStatus,
                HandleBaseValidatorUnbonding, HandleBaseValidatorBonded, Tombstone
  <2> QED BY <2>1 DEF SetsTyped
<1>2. ASSUME NEW v \in Validators, NEW k \in KeyIds, VoteTssKeyProcess(v, k) PROVE SetsTyped'
  <2> DEFINE id == <<tss.cur, k>>
             new == TssBallot(tss.procs[tss.cur])
  <2>1. /\ UNCHANGED <<bonded, tombed, removed>>
        /\ ballots' = VoteOnBallot(ballots, id, new, v, "SUCCESS", height)
        /\ \/ UNCHANGED <<keys, curKey>>
           \/ keys' = KeysWith(k, tss.procs[tss.cur]) /\ curKey' = k
    BY <1>2 DEF VoteTssKeyProcess
  <2>2. id \in Nat \X KeyIds
    BY DEF TssInv, Sane, Shape
  <2> HIDE DEF id, new
  <2>3. DOMAIN ballots' \subseteq DOMAIN ballots \cup {id}
    BY <2>1 DEF VoteOnBallot, GetOrCreateBallot, ExpireBallotsBeforeHeight
  <2>4. curKey' \in DOMAIN keys' \cup {NoKey}
    BY <2>1 DEF KeysWith, SetsTyped
  <2> QED BY <2>1, <2>2, <2>3, <2>4 DEF SetsTyped
<1>3. ASSUME NEW type, AdminInitiateTssKeyProcess(type) PROVE SetsTyped'
  BY <1>3 DEF AdminInitiateTssKeyProcess, uvVars, SetsTyped
<1>4. ASSUME NEW id, RecomputeTssBallot(id) PROVE SetsTyped'
  BY <1>4 DEF RecomputeTssBallot, uvVars, SetsTyped
<1>5. CASE NextBlock \/ UNCHANGED vars
  BY <1>5 DEF NextBlock, vars, SetsTyped
<1> QED BY <1>1, <1>2, <1>3, <1>4, <1>5 DEF Next

\* TypeOK: the collections of both modules keep their types; CurrentTssProcess is a process
\* of the history, the current key one of its keys, and the pending index names processes.
THEOREM TssTypes == Spec => []TypeOK
<1>1. Init => SetsTyped
  BY DEF Init, SetsTyped
<1>2. TssInv /\ SetsTyped /\ [Next]_vars => SetsTyped'
  BY SetsKeepTypes
<1>3. TssInv /\ SetsTyped => TypeOK
  <2> SUFFICES ASSUME TssInv, SetsTyped PROVE TypeOK
    OBVIOUS
  <2>1. EnvironmentOK(env)
    BY EnvironmentsAssumption DEF TssInv
  <2>2. /\ \A i \in DOMAIN tss.procs : ProcessOK(tss.procs[i])
        /\ tss.cur \in {0} \cup DOMAIN tss.procs
    BY ProcsTyped DEF TssInv, Sane, Procs, ProcessOK
  <2>3. tss.pending \subseteq DOMAIN tss.procs
    BY DEF TssInv, Sane, Indexed
  <2> QED BY <2>1, <2>2, <2>3 DEF TssInv, LifecycleInv, KeysInv, SetsTyped, TypeOK
<1> QED BY <1>1, <1>2, <1>3, TssInvariant, PTL DEF Spec

\* OneLiveProcess: InitiateTssKeyProcess force-expires the process it supersedes, so two
\* processes never run together, whatever the staking hooks and the admin start.
THEOREM OneProcessAtATime == Spec => []OneLiveProcess
<1>1. TssInv => OneLiveProcess
  BY DEF TssInv, Sane, Live, OneLiveProcess
<1> QED BY <1>1, TssInvariant, PTL

\* EventsAgree: superseding and finalizing a process update its event and the pending
\* index together, and a new key's event closes that of every key before it.
THEOREM EventIndexAgrees == Spec => []EventsAgree
<1>1. TssInv => EventsAgree
  BY DEF TssInv, Sane, Indexed, KeysInv, EventsAgree
<1> QED BY <1>1, TssInvariant, PTL

\* RemovalReason: the reason HandleBaseValidatorBonded reads tells the admin's removals
\* from the base chain's, also after a finalizing vote settled the statuses.
THEOREM RemovalReasonKept == Spec => []RemovalReason
<1>1. TssInv => RemovalReason
  BY DEF TssInv, LifecycleInv, ReasonOf, RemovalReason
<1> QED BY <1>1, TssInvariant, PTL

\* UnanimousUnlessRecomputed: a key of n participants is installed with n SUCCESS votes,
\* for every n, where the quorum of TSS ballots is not recomputed.
THEOREM KeysAreUnanimous == Spec => []UnanimousUnlessRecomputed
<1>1. TssInv => UnanimousUnlessRecomputed
  BY DEF TssInv, KeysVoted, UnanimousKey, UnanimousUnlessRecomputed
<1> QED BY <1>1, TssInvariant, PTL

\* LifecycleInStep: the staking hooks keep ACTIVE and PENDING_JOIN validators bonded, where
\* the admin reactivates bonded ones only.
THEOREM LifecycleStaysInStep == Spec => []LifecycleInStep
<1>1. Init => LifecycleInStep
  BY DEF Init, LifecycleInStep
<1>2. TssInv /\ LifecycleInStep /\ [Next]_vars => LifecycleInStep'
  <2> SUFFICES ASSUME TssInv, LifecycleInStep, [Next]_vars PROVE LifecycleInStep'
    OBVIOUS
  <2>0. uv \in [Validators -> Statuses] /\ env' = env
    BY Zenon DEF TssInv, LifecycleInv, Next, vars, uvVars, AddUniversalValidator, RemoveUniversalValidator,
           UpdateUniversalValidatorStatus, HandleBaseValidatorUnbonding, HandleBaseValidatorBonded,
           Tombstone, VoteTssKeyProcess, AdminInitiateTssKeyProcess, RecomputeTssBallot, NextBlock
  <2>1. ASSUME NEW v \in Validators,
               \/ AddUniversalValidator(v) \/ RemoveUniversalValidator(v)
               \/ UpdateUniversalValidatorStatus(v)
        PROVE  LifecycleInStep'
    BY <2>0, <2>1 DEF LifecycleInStep, AddUniversalValidator, RemoveUniversalValidator,
           UpdateUniversalValidatorStatus, SetStatus
  <2>2. ASSUME NEW v \in Validators, HandleBaseValidatorUnbonding(v) PROVE LifecycleInStep'
    <3>1. bonded' = bonded \ {v} /\ uv'[v] \notin {"ACTIVE", "PENDING_JOIN"}
      BY <2>0, <2>2 DEF HandleBaseValidatorUnbonding, SetStatus
    <3>2. \A w \in Validators : w # v => uv'[w] = uv[w]
      BY <2>0, <2>2 DEF HandleBaseValidatorUnbonding, SetStatus
    <3> QED BY <2>0, <3>1, <3>2 DEF LifecycleInStep
  <2>3. ASSUME NEW v \in Validators, HandleBaseValidatorBonded(v) PROVE LifecycleInStep'
    <3>1. bonded' = bonded \cup {v} /\ \A w \in Validators : w # v => uv'[w] = uv[w]
      BY <2>0, <2>3 DEF HandleBaseValidatorBonded, SetStatus
    <3> QED BY <2>0, <3>1 DEF LifecycleInStep
  <2>4. ASSUME NEW v \in Validators, NEW k \in KeyIds, VoteTssKeyProcess(v, k) PROVE LifecycleInStep'
    <3>1. bonded' = bonded /\ (uv' = uv \/ uv' = SettledStatuses(tss.procs[tss.cur]))
      BY <2>4 DEF VoteTssKeyProcess
    <3>2. ASSUME NEW w \in Validators, uv'[w] \in {"ACTIVE", "PENDING_JOIN"}
          PROVE  uv[w] \in {"ACTIVE", "PENDING_JOIN"}
      BY <3>1, <3>2 DEF SettledStatuses
    <3> QED BY <2>0, <3>1, <3>2 DEF LifecycleInStep
  <2>5. CASE UNCHANGED <<uv, bonded>>
    BY <2>0, <2>5 DEF LifecycleInStep
  <2>6. ASSUME \/ \E v \in Validators : Tombstone(v)
               \/ \E type \in env.adminTypes : AdminInitiateTssKeyProcess(type)
               \/ \E id \in (1 .. MaxProcesses) \X KeyIds : RecomputeTssBallot(id)
               \/ NextBlock \/ UNCHANGED vars
        PROVE  UNCHANGED <<uv, bonded>>
    BY <2>6 DEF Tombstone, AdminInitiateTssKeyProcess, RecomputeTssBallot, NextBlock, vars, uvVars
  <2> QED BY <2>1, <2>2, <2>3, <2>4, <2>5, <2>6 DEF Next
<1> QED BY <1>1, <1>2, TssInvariant, PTL DEF Spec
-----------------------------------------------------------------------------
(***************************************************************************)
(* KeyHolders is not inductive: the vote that installs a key must find     *)
(* that its process covers everyone who holds a share.  A refresh covers   *)
(* them from its start.  The other processes start with the eligible       *)
(* validators, among whom the holders are as long as the statuses are in   *)
(* step with the bonds; a holder that comes back later starts a new        *)
(* process unless fewer than two are eligible, and then nobody of the old  *)
(* one can vote: its participants left through the staking hook and would  *)
(* come back through it.                                                   *)
(***************************************************************************)
HeldBy(S) == \A v \in Validators \ tombed : uv[v] \in {"ACTIVE", "PENDING_LEAVE"} => v \in S

Reachable(y) ==
    IF y \in bonded THEN uv[y] \in {"ACTIVE", "PENDING_JOIN"}
    ELSE uv[y] \in {"PENDING_LEAVE", "INACTIVE"} /\ reason[y] = "STAKING_HOOK"

Covers(p) ==
    \/ p.type = "REFRESH" /\ HeldBy(p.participants)
    \/ /\ p.type # "REFRESH"
       /\ \A y \in p.participants \ tombed : Reachable(y)
       /\ \A v \in Validators \ tombed :
             uv[v] = "ACTIVE" /\ v \notin p.participants => Cardinality(Eligible) < 2

HoldersInv ==
    /\ KeyHolders
    /\ env.checksBonded /\ ~env.recomputes /\ HasOngoingTss => Covers(tss.procs[tss.cur])

\* The process that InitiateTssKeyProcess makes current.
LEMMA InitiatedProcess ==
    ASSUME NEW t, Sane(t), height \in Nat \ {0}, NEW type \in ProcessTypes,
           NEW participants \in SUBSET Validators,
           NEW v, v = InitiateTssKeyProcess(t, type, participants)
    PROVE  /\ v.cur \in DOMAIN v.procs /\ v.procs[v.cur].type = type
           /\ v.procs[v.cur].participants = participants
<1> DEFINE e == ForceExpire(t)
           id == Len(e.procs) + 1
           q == [type |-> type, participants |-> participants, expiry |-> height + ProcessExpiry,
                 status |-> "PENDING", event |-> "ACTIVE"]
           s == Append(e.procs, q)
           u == [procs |-> s, cur |-> id, pending |-> e.pending \cup {id}]
<1>1. u = v
  BY DEF InitiateTssKeyProcess
<1>2. q \in Procs /\ q.type = type /\ q.participants = participants
  BY BoundsAssumption DEF Procs
<1>3. Shape(e)
  BY ForceExpireKeeps
<1> HIDE DEF e, q
<1>4. e.procs \in Seq(Procs) /\ Len(e.procs) \in Nat
  BY <1>3, ProcsTyped
<1>5. s \in Seq(Procs) /\ Len(s) = id /\ s[id] = q
  BY <1>2, <1>4, AppendProperties
<1>6. DOMAIN s = 1 .. id /\ id \in 1 .. id
  BY <1>4, <1>5, LenProperties
<1> HIDE DEF s, id
<1>7. u.cur \in DOMAIN u.procs /\ u.procs[u.cur] = q
  BY <1>5, <1>6
<1> HIDE DEF u
<1> QED BY <1>1, <1>2, <1>7

\* What the hooks of x/utss leave: the process that was current, still running, or a new
\* one of the eligible validators.
LEMMA ProcessAfterChange ==
    ASSUME Sane(tss), height \in Nat \ {0}, NEW u, NEW b,
           tss' = HandleEligibleValidatorSetChange(tss, u, b)
    PROVE  \/ tss' = tss /\ Cardinality(EligibleIn(u, b)) < 2
           \/ /\ tss'.cur \in DOMAIN tss'.procs
              /\ tss'.procs[tss'.cur].type # "REFRESH"
              /\ tss'.procs[tss'.cur].participants = EligibleIn(u, b)
<1> DEFINE E == EligibleIn(u, b)
           type == IF curKey = NoKey THEN "KEYGEN" ELSE "QUORUM_CHANGE"
<1>1. CASE Cardinality(E) < 2
  BY <1>1 DEF HandleEligibleValidatorSetChange
<1>2. CASE ~(Cardinality(E) < 2)
  <2>1. tss' = InitiateTssKeyProcess(tss, type, E)
    BY <1>2 DEF HandleEligibleValidatorSetChange
  <2>2. type \in ProcessTypes /\ E \in SUBSET Validators /\ type # "REFRESH"
    BY DEF ProcessTypes, EligibleIn
  <2> HIDE DEF E, type
  <2>3. /\ tss'.cur \in DOMAIN tss'.procs /\ tss'.procs[tss'.cur].type = type
        /\ tss'.procs[tss'.cur].participants = E
    BY <2>1, <2>2, InitiatedProcess, SMTT(20)
  <2>4. tss'.procs[tss'.cur].type # "REFRESH"
    BY <2>2, <2>3
  <2>5. tss'.procs[tss'.cur].participants = EligibleIn(u, b)
    BY <2>3 DEF E
  <2> QED BY <2>3, <2>4, <2>5
<1> QED BY <1>1, <1>2

\* Everyone of a process who could still vote is eligible or left through the hook.
Gathers(p) ==
    \/ p.type = "REFRESH" /\ HeldBy(p.participants)
    \/ p.type # "REFRESH" /\ \A y \in p.participants \ tombed : Reachable(y)

\* A lifecycle event: what it can do to the statuses.
Lifecycle(v) ==
    \/ AddUniversalValidator(v) \/ RemoveUniversalValidator(v)
    \/ UpdateUniversalValidatorStatus(v) \/ HandleBaseValidatorUnbonding(v)
    \/ HandleBaseValidatorBonded(v)

\* No lifecycle event makes a holder of someone who was none.
LEMMA NoNewHolders ==
    ASSUME LifecycleInv, NEW v \in Validators, Lifecycle(v)
    PROVE  /\ UNCHANGED <<env, tombed, keys, curKey, height>>
           /\ \A w \in Validators : uv'[w] \in {"ACTIVE", "PENDING_LEAVE"} => uv[w] \in {"ACTIVE", "PENDING_LEAVE"}
<1>0. uv \in [Validators -> Statuses] /\ reason \in [Validators -> Reasons]
  BY DEF LifecycleInv
<1>1. CASE AddUniversalValidator(v)
  BY <1>0, <1>1 DEF AddUniversalValidator, SetStatus
<1>2. CASE RemoveUniversalValidator(v)
  BY <1>0, <1>2 DEF RemoveUniversalValidator, SetStatus
<1>3. CASE UpdateUniversalValidatorStatus(v)
  BY <1>0, <1>3 DEF UpdateUniversalValidatorStatus, SetStatus
<1>4. CASE HandleBaseValidatorUnbonding(v)
  BY <1>0, <1>4 DEF HandleBaseValidatorUnbonding, SetStatus
<1>5. CASE HandleBaseValidatorBonded(v)
  BY <1>0, <1>5 DEF HandleBaseValidatorBonded, AutoRevivable, SetStatus
<1> QED BY <1>1, <1>2, <1>3, <1>4, <1>5 DEF Lifecycle

\* The participants of a running process stay within reach: the admin can neither add,
\* remove nor reactivate them, and the staking hooks move them out and back in.
LEMMA GatheredStay ==
    ASSUME LifecycleInv, NEW p, p.participants \in SUBSET Validators, Gathers(p),
           HasOngoingTss, p = tss.procs[tss.cur], NEW v \in Validators, Lifecycle(v)
    PROVE  Gathers(p)'
<1>0. /\ uv \in [Validators -> Statuses] /\ reason \in [Validators -> Reasons]
      /\ tombed' = tombed
  BY NoNewHolders DEF LifecycleInv
<1>1. CASE p.type = "REFRESH"
  <2>1. HeldBy(p.participants)
    BY <1>1 DEF Gathers
  <2>2. HeldBy(p.participants)'
    BY <1>0, <2>1, NoNewHolders DEF HeldBy
  <2> QED BY <1>1, <2>2 DEF Gathers
<1>2. CASE p.type # "REFRESH"
  <2> SUFFICES ASSUME NEW y \in p.participants \ tombed PROVE Reachable(y)'
    BY <1>0, <1>2 DEF Gathers
  <2>0. Reachable(y) /\ y \in Validators
    BY <1>2 DEF Gathers
  <2>1. CASE AddUniversalValidator(v)
    <3>1. y # v
      BY <2>0, <2>1 DEF AddUniversalValidator, Reachable
    <3> QED BY <1>0, <2>0, <2>1, <3>1 DEF AddUniversalValidator, SetStatus, Reachable
  <2>2. CASE RemoveUniversalValidator(v)
    <3>1. y # v
      BY <2>2, Zenon DEF RemoveUniversalValidator, GetCurrentTssParticipants
    <3> QED BY <1>0, <2>0, <2>2, <3>1 DEF RemoveUniversalValidator, SetStatus, Reachable
  <2>3. CASE UpdateUniversalValidatorStatus(v)
    BY <2>3 DEF UpdateUniversalValidatorStatus
  <2>4. CASE HandleBaseValidatorUnbonding(v)
    <3>1. CASE y # v
      BY <1>0, <2>0, <2>4, <3>1 DEF HandleBaseValidatorUnbonding, SetStatus, Reachable
    <3>2. CASE y = v
      <4>1. uv[v] \in {"ACTIVE", "PENDING_JOIN"} /\ v \notin bonded'
        BY <2>0, <2>4, <3>2 DEF HandleBaseValidatorUnbonding, Reachable
      <4>2. uv'[v] \in {"PENDING_LEAVE", "INACTIVE"} /\ reason'[v] = "STAKING_HOOK"
        BY <1>0, <2>4, <4>1 DEF HandleBaseValidatorUnbonding, SetStatus
      <4> QED BY <3>2, <4>1, <4>2 DEF Reachable
    <3> QED BY <3>1, <3>2
  <2>5. CASE HandleBaseValidatorBonded(v)
    <3>1. CASE y # v
      BY <1>0, <2>0, <2>5, <3>1, Zenon DEF HandleBaseValidatorBonded, SetStatus, Reachable
    <3>2. CASE y = v
      <4>1. AutoRevivable(v) /\ v \in bonded'
        BY <2>0, <2>5, <3>2 DEF HandleBaseValidatorBonded, Reachable, AutoRevivable
      <4>2. uv'[v] \in {"ACTIVE", "PENDING_JOIN"}
        BY <1>0, <2>5, <4>1 DEF HandleBaseValidatorBonded, SetStatus
      <4> QED BY <3>2, <4>1, <4>2 DEF Reachable
    <3> QED BY <3>1, <3>2
  <2> QED BY <2>1, <2>2, <2>3, <2>4, <2>5 DEF Lifecycle
<1> QED BY <1>1, <1>2

\* A lifecycle event that starts no process leaves the eligible set as it was, or too
\* small for one.
LEMMA EligibleKept ==
    ASSUME TssInv, LifecycleInStep, env.checksBonded, HasOngoingTss,
           NEW v \in Validators, Lifecycle(v)
    PROVE  \/ tss' = HandleEligibleValidatorSetChange(tss, uv', bonded')
           \/ tss' = tss /\ uv' = uv /\ Eligible' = Eligible
<1>1. CASE AddUniversalValidator(v)
  BY <1>1 DEF AddUniversalValidator
<1>2. CASE RemoveUniversalValidator(v)
  BY <1>2 DEF RemoveUniversalValidator
<1>3. CASE UpdateUniversalValidatorStatus(v)
  BY <1>3 DEF UpdateUniversalValidatorStatus
<1>4. CASE HandleBaseValidatorUnbonding(v)
  BY <1>4 DEF HandleBaseValidatorUnbonding, Eligible, EligibleIn
<1>5. CASE HandleBaseValidatorBonded(v)
  <2>1. CASE AutoRevivable(v)
    BY <1>5, <2>1 DEF HandleBaseValidatorBonded
  <2>2. CASE ~AutoRevivable(v)
    <3>1. uv' = uv /\ tss' = tss /\ bonded' = bonded \cup {v} /\ tombed' = tombed /\ v \notin bonded
      BY <1>5, <2>2 DEF HandleBaseValidatorBonded
    <3>2. uv[v] \notin {"ACTIVE", "PENDING_JOIN"}
      BY <3>1 DEF LifecycleInStep
    <3> QED BY <3>1, <3>2 DEF Eligible, EligibleIn
  <2> QED BY <2>1, <2>2
<1> QED BY <1>1, <1>2, <1>3, <1>4, <1>5 DEF Lifecycle

\* The lifecycle events keep everyone covered.
LEMMA LifecycleCovers ==
    ASSUME TssInv, HoldersInv, LifecycleInStep, LifecycleInStep', NEW v \in Validators, Lifecycle(v)
    PROVE  HoldersInv'
<1>0. UNCHANGED <<env, tombed, keys, curKey, height>> /\ LifecycleInv
  BY NoNewHolders DEF TssInv
<1>1. KeyHolders'
  BY <1>0, NoNewHolders DEF HoldersInv, KeyHolders
<1>2. ASSUME env.checksBonded, ~env.recomputes, HasOngoingTss' PROVE Covers(tss.procs[tss.cur])'
  <2> DEFINE p == tss'.procs[tss'.cur]
  <2>1. CASE tss' = tss
    <3>1. HasOngoingTss /\ Covers(tss.procs[tss.cur])
      BY <1>0, <1>2, <2>1 DEF HasOngoingTss, Unexpired, HoldersInv
    <3>2. tss.procs[tss.cur].participants \in SUBSET Validators
      BY <3>1, ProcsTyped DEF TssInv, Sane, HasOngoingTss, Procs
    <3>3. PICK q : q = tss.procs[tss.cur]
      OBVIOUS
    <3>4. Gathers(q)
      BY <3>1, <3>3 DEF Covers, Gathers
    <3>5. Gathers(q)'
      BY <1>0, <3>1, <3>2, <3>3, <3>4, GatheredStay
    <3>6. CASE q.type = "REFRESH"
      BY <2>1, <3>3, <3>5, <3>6 DEF Gathers, Covers
    <3>7. CASE q.type # "REFRESH"
      <4>1. ASSUME NEW w \in Validators \ tombed', uv'[w] = "ACTIVE", w \notin q.participants
            PROVE  Cardinality(Eligible') < 2
        <5>1. CASE tss' = HandleEligibleValidatorSetChange(tss, uv', bonded')
          <6>1. EligibleIn(uv', bonded') = Eligible'
            BY <1>0 DEF Eligible, EligibleIn
          <6>2. Cardinality(Eligible') < 2 \/ q.participants = Eligible'
            BY <2>1, <3>3, <5>1, <6>1, ProcessAfterChange, Zenon DEF TssInv
          <6>3. w \in Eligible'
            BY <1>0, <1>2, <4>1 DEF Eligible, EligibleIn, LifecycleInStep
          <6> QED BY <4>1, <6>2, <6>3
        <5>2. CASE uv' = uv /\ Eligible' = Eligible
          BY <1>0, <3>1, <3>3, <3>7, <4>1, <5>2 DEF Covers
        <5> QED BY <1>2, <3>1, <5>1, <5>2, EligibleKept
      <4> QED BY <2>1, <3>3, <3>5, <3>7, <4>1 DEF Gathers, Covers
    <3> QED BY <3>6, <3>7
  <2>2. CASE tss' # tss
    <3>1. tss' = HandleEligibleValidatorSetChange(tss, uv', bonded')
      BY <2>2, Zenon DEF Lifecycle, AddUniversalValidator, RemoveUniversalValidator,
           UpdateUniversalValidatorStatus, HandleBaseValidatorUnbonding, HandleBaseValidatorBonded
    <3>2. EligibleIn(uv', bonded') = Eligible'
      BY <1>0 DEF Eligible, EligibleIn
    <3>3. p.type # "REFRESH" /\ p.participants = Eligible'
      BY <2>2, <3>1, <3>2, ProcessAfterChange DEF TssInv
    <3>4. \A y \in p.participants : Reachable(y)'
      BY <3>3 DEF Eligible, EligibleIn, Reachable
    <3>5. \A w \in Validators \ tombed' : uv'[w] = "ACTIVE" => w \in p.participants
      BY <1>0, <1>2, <3>3 DEF Eligible, EligibleIn, LifecycleInStep
    <3> QED BY <3>3, <3>4, <3>5 DEF Covers
  <2> QED BY <2>1, <2>2
<1> QED BY <1>0, <1>1, <1>2 DEF HoldersInv\* Only a participant of the process votes on its ballots.
LEMMA VoterParticipates ==
    ASSUME NEW bs, NEW t, BallotsOK(bs, t), NEW c \in DOMAIN t.procs, NEW k \in KeyIds,
           NEW v, NEW h, NEW new, OfProcess(new, t.procs[c].participants),
           VoteAccepted(bs, <<c, k>>, new, v, h)
    PROVE  v \in t.procs[c].participants
<1> DEFINE store == GetOrCreateBallot(bs, <<c, k>>, new, h)
<1>1. CanAddVote(store[<<c, k>>], v)
  BY Zenon DEF VoteAccepted
<1>2. store[<<c, k>>] = IF <<c, k>> \in DOMAIN bs THEN bs[<<c, k>>] ELSE new
  BY DEF GetOrCreateBallot
<1> HIDE DEF store
<1>3. OfProcess(store[<<c, k>>], t.procs[c].participants)
  BY <1>2 DEF BallotsOK
<1> QED BY <1>1, <1>3 DEF CanAddVote, OfProcess

\* The vote that installs a key finds every holder among the participants.
LEMMA VoteCovers ==
    ASSUME TssInv, HoldersInv, LifecycleInStep, NEW v \in Validators, NEW k \in KeyIds,
           VoteTssKeyProcess(v, k)
    PROVE  HoldersInv'
<1> DEFINE c == tss.cur
           p == tss.procs[c]
<1>1. /\ c \in DOMAIN tss.procs /\ p \in Procs /\ p.participants \in SUBSET Validators
      /\ p.expiry \in Nat /\ height \in Nat
  BY ProcsTyped, Zenon DEF VoteTssKeyProcess, HasOngoingTss, TssInv, Sane, Shape, Procs
<1>2. /\ VoteAccepted(ballots, <<c, k>>, TssBallot(p), v, height) /\ HasOngoingTss
      /\ v \in bonded /\ v \notin tombed
      /\ UNCHANGED <<env, bonded, tombed, reason, height>>
  BY DEF VoteTssKeyProcess, MayVote
<1>3. CASE UNCHANGED <<uv, tss, keys, curKey>>
  <2>1. KeyHolders'
    BY <1>2, <1>3 DEF HoldersInv, KeyHolders
  <2>2. (HasOngoingTss <=> HasOngoingTss') /\ (Covers(p) => Covers(tss.procs[tss.cur])')
    BY <1>2, <1>3, Zenon DEF HasOngoingTss, Unexpired, Covers, HeldBy, Reachable, Eligible, EligibleIn
  <2> QED BY <1>2, <2>1, <2>2, Zenon DEF HoldersInv
<1>4. CASE /\ keys' = KeysWith(k, p) /\ curKey' = k /\ uv' = SettledStatuses(p) /\ tss'.cur = 0
  <2>1. ~HasOngoingTss'
    BY <1>4 DEF HasOngoingTss
  <2>2. keys'[k].participants = p.participants /\ curKey' # NoKey
    BY <1>4, KeysAssumption DEF KeysWith
  <2>3. ASSUME env.checksBonded, ~env.recomputes, NEW w \in Validators \ tombed,
               uv'[w] \in {"ACTIVE", "PENDING_LEAVE"}
        PROVE  w \in p.participants
    <3>1. Covers(p)
      BY <1>2, <2>3, Zenon DEF HoldersInv
    <3>2. uv'[w] = IF p.type = "REFRESH" THEN uv[w]
                   ELSE IF uv[w] = "PENDING_JOIN" /\ w \in p.participants THEN "ACTIVE"
                   ELSE IF uv[w] = "PENDING_LEAVE" /\ w \notin p.participants THEN "INACTIVE"
                   ELSE uv[w]
      BY <1>4 DEF SettledStatuses
    <3>3. CASE p.type = "REFRESH"
      BY <2>3, <3>1, <3>2, <3>3 DEF Covers, HeldBy
    <3>4. CASE p.type # "REFRESH"
      <4> SUFFICES ASSUME w \notin p.participants PROVE FALSE
        OBVIOUS
      <4>1. uv[w] = "ACTIVE"
        BY <2>3, <3>2, <3>4
      <4>2. Cardinality(Eligible) < 2
        BY <3>1, <3>4, <4>1 DEF Covers
      <4>3. v \in p.participants
        <5>1. OfProcess(TssBallot(p), p.participants)
          BY <1>1, Zenon DEF TssBallot, NewBallot, OfProcess
        <5>2. BallotsOK(ballots, tss)
          BY <2>3, Zenon DEF TssInv
        <5> QED BY <1>1, <1>2, <5>1, <5>2, VoterParticipates
      <4>4. v \in Eligible
        BY <1>2, <3>1, <3>4, <4>3, Zenon DEF Covers, Reachable, Eligible, EligibleIn
      <4>5. w \in Eligible
        BY <2>3, <4>1 DEF Eligible, EligibleIn, LifecycleInStep
      <4>6. IsFiniteSet(Eligible)
        BY ValidatorsAssumption, FS_Subset DEF Eligible, EligibleIn
      <4>7. {v, w} \subseteq Eligible /\ v # w
        BY <4>3, <4>4, <4>5
      <4>8. Cardinality({v, w}) = 2 /\ IsFiniteSet({v, w})
        <5>1. IsFiniteSet({v}) /\ Cardinality({v}) = 1
          BY FS_Singleton, Zenon
        <5>2. {v, w} = {v} \cup {w} /\ w \notin {v}
          BY <4>7
        <5> QED BY <5>1, <5>2, FS_AddElement
      <4>9. Cardinality({v, w}) <= Cardinality(Eligible) /\ Cardinality(Eligible) \in Nat
        BY <4>6, <4>7, FS_Subset, FS_CardinalityType
      <4> QED BY <4>2, <4>8, <4>9
    <3> QED BY <3>3, <3>4
  <2>4. KeyHolders'
    BY <1>2, <1>4, <2>2, <2>3, Zenon DEF KeyHolders
  <2> QED BY <2>1, <2>4 DEF HoldersInv
<1>5. \/ UNCHANGED <<uv, tss, keys, curKey>>
      \/ keys' = KeysWith(k, p) /\ curKey' = k /\ uv' = SettledStatuses(p) /\ tss'.cur = 0
  BY DEF VoteTssKeyProcess
<1> QED BY <1>3, <1>4, <1>5

\* The admin's processes cover the holders as they start.
LEMMA AdminCovers ==
    ASSUME TssInv, HoldersInv, LifecycleInStep, NEW type \in env.adminTypes,
           AdminInitiateTssKeyProcess(type)
    PROVE  HoldersInv'
<1> DEFINE P == GetTssParticipants(type, uv, bonded)
           p == tss'.procs[tss'.cur]
<1>1. type \in ProcessTypes /\ P \in SUBSET Validators
  BY EnvironmentsAssumption DEF TssInv, EnvironmentOK, ProcessTypes, GetTssParticipants, EligibleIn
<1>2. /\ tss' = InitiateTssKeyProcess(tss, type, P)
      /\ UNCHANGED <<env, uv, bonded, tombed, reason, keys, curKey, height>>
  BY DEF AdminInitiateTssKeyProcess, uvVars
<1>3. p.type = type /\ p.participants = P
  <2> HIDE DEF P
  <2>1. tss'.procs[tss'.cur].type = type /\ tss'.procs[tss'.cur].participants = P
    <3>1. Sane(tss) /\ height \in Nat \ {0}
      BY DEF TssInv
    <3> QED BY <1>1, <1>2, <3>1, InitiatedProcess, SMTT(20)
  <2> QED BY <2>1
<1>4. ASSUME env.checksBonded PROVE Covers(tss.procs[tss.cur])'
  <2>1. CASE type = "REFRESH"
    BY <1>2, <1>3, <2>1, Zenon DEF GetTssParticipants, Covers, HeldBy
  <2>2. CASE type # "REFRESH"
    <3>1. P = Eligible
      BY <2>2 DEF GetTssParticipants, Eligible
    <3>2. \A y \in P : Reachable(y)'
      BY <1>2, <3>1 DEF Eligible, EligibleIn, Reachable
    <3>3. \A w \in Validators \ tombed' : uv'[w] = "ACTIVE" => w \in P
      BY <1>2, <1>4, <3>1 DEF Eligible, EligibleIn, LifecycleInStep
    <3> HIDE DEF P
    <3> QED BY <1>3, <2>2, <3>2, <3>3 DEF Covers
  <2> QED BY <2>1, <2>2
<1>5. KeyHolders'
  BY <1>2 DEF HoldersInv, KeyHolders
<1> QED BY <1>2, <1>4, <1>5, Zenon DEF HoldersInv

\* Tombstones and blocks only take holders, voters and time away.
LEMMA OthersCover ==
    ASSUME TssInv, HoldersInv, UNCHANGED <<env, bonded, uv, reason, tss, keys, curKey>>,
           tombed \subseteq tombed', height' \in Nat, height <= height'
    PROVE  HoldersInv'
<1>1. KeyHolders'
  BY DEF HoldersInv, KeyHolders
<1>2. HasOngoingTss' => HasOngoingTss
  <2> SUFFICES ASSUME HasOngoingTss' PROVE HasOngoingTss
    OBVIOUS
  <2>1. tss.cur # 0 /\ height' < tss.procs[tss.cur].expiry
    BY DEF HasOngoingTss, Unexpired
  <2>2. tss.procs[tss.cur].expiry \in Nat /\ height \in Nat
    BY <2>1, ProcsTyped DEF TssInv, Sane, Procs
  <2> QED BY <2>1, <2>2 DEF HasOngoingTss, Unexpired
<1>3. ASSUME Covers(tss.procs[tss.cur]) PROVE Covers(tss.procs[tss.cur])'
  <2> DEFINE p == tss.procs[tss.cur]
  <2>1. CASE p.type = "REFRESH"
    BY <1>3, <2>1 DEF Covers, HeldBy
  <2>2. CASE p.type # "REFRESH"
    <3>1. \A y \in p.participants \ tombed' : Reachable(y)'
      BY <1>3, <2>2 DEF Covers, Reachable
    <3>2. Eligible' \subseteq Eligible /\ IsFiniteSet(Eligible)
      BY ValidatorsAssumption, FS_Subset DEF Eligible, EligibleIn
    <3>3. /\ Cardinality(Eligible') <= Cardinality(Eligible)
          /\ Cardinality(Eligible') \in Nat /\ Cardinality(Eligible) \in Nat
      BY <3>2, FS_Subset, FS_CardinalityType
    <3>4. \A w \in Validators \ tombed' :
            uv'[w] = "ACTIVE" /\ w \notin p.participants => Cardinality(Eligible') < 2
      <4> SUFFICES ASSUME NEW w \in Validators \ tombed', uv'[w] = "ACTIVE", w \notin p.participants
                   PROVE  Cardinality(Eligible') < 2
        OBVIOUS
      <4>1. w \in Validators \ tombed /\ uv[w] = "ACTIVE"
        OBVIOUS
      <4>2. Cardinality(Eligible) < 2
        BY <1>3, <2>2, <4>1 DEF Covers
      <4> QED BY <3>3, <4>2
    <3> QED BY <2>2, <3>1, <3>4 DEF Covers
  <2> QED BY <2>1, <2>2
<1> QED BY <1>1, <1>2, <1>3 DEF HoldersInv

\* KeyHolders: for any validators, keys and order of the admin's messages, the staking
\* hooks, tombstones and votes, an ACTIVE or leaving validator holds a share of the current
\* key, where the admin reactivates bonded validators only and recomputes no TSS ballot.
THEOREM HoldersHoldTheKey == Spec => []KeyHolders
<1>1. Init => HoldersInv
  <2> SUFFICES ASSUME Init PROVE HoldersInv
    OBVIOUS
  <2>1. ~HasOngoingTss
    BY DEF Init, HasOngoingTss
  <2>2. KeyHolders
    BY KeysAssumption DEF Init, KeyHolders
  <2> QED BY <2>1, <2>2 DEF HoldersInv
<1>2. TssInv /\ LifecycleInStep /\ LifecycleInStep' /\ HoldersInv /\ [Next]_vars => HoldersInv'
  <2> SUFFICES ASSUME TssInv, LifecycleInStep, LifecycleInStep', HoldersInv, [Next]_vars PROVE HoldersInv'
    OBVIOUS
  <2>1. ASSUME NEW v \in Validators, Lifecycle(v) PROVE HoldersInv'
    BY <2>1, LifecycleCovers
  <2>2. ASSUME NEW v \in Validators, NEW k \in KeyIds, VoteTssKeyProcess(v, k) PROVE HoldersInv'
    BY <2>2, VoteCovers
  <2>3. ASSUME NEW type \in env.adminTypes, AdminInitiateTssKeyProcess(type) PROVE HoldersInv'
    BY <2>3, AdminCovers
  <2>4. CASE \/ \E v \in Validators : Tombstone(v)
             \/ \E id \in (1 .. MaxProcesses) \X KeyIds : RecomputeTssBallot(id)
             \/ NextBlock \/ UNCHANGED vars
    <3>1. UNCHANGED <<env, bonded, uv, reason, tss, keys, curKey>> /\ tombed \subseteq tombed'
      BY <2>4, Zenon DEF Tombstone, RecomputeTssBallot, NextBlock, vars, uvVars
    <3>2. height' \in {height, height + 1} /\ height \in Nat
      BY <2>4 DEF Tombstone, RecomputeTssBallot, NextBlock, vars, TssInv
    <3>3. height' \in Nat /\ height <= height'
      BY <3>2
    <3> QED BY <3>1, <3>3, OthersCover
  <2> QED BY <2>1, <2>2, <2>3, <2>4, Zenon DEF Next, Lifecycle
<1>3. HoldersInv => KeyHolders
  BY DEF HoldersInv
<1> QED BY <1>1, <1>2, <1>3, TssInvariant, LifecycleStaysInStep, PTL DEF Spec
=============================================================================
