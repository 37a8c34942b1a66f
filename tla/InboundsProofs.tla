--------------------------- MODULE InboundsProofs ---------------------------
(***************************************************************************)
(* Proofs about Inbounds for any validators, keys, variants and heights,   *)
(* and about VoteClient, which casts the votes, for any number of faults   *)
(* and blocks and any environments.                                        *)
(*                                                                         *)
(* The invariant of Inbounds ties the three stores together:               *)
(* PendingInbounds mirrors the ballots, ExpiredInbounds holds dead         *)
(* variants only, and a UTX born by vote excludes a pending entry.  Every  *)
(* action is a vote recorded on one ballot, a sweep of some pending        *)
(* ballots with their hooks, or both; the sweep is one lemma for all of    *)
(* them.                                                                   *)
(***************************************************************************)
EXTENDS VoteClient, FiniteSetTheorems, TLAPS

Sound(b) ==
    /\ InBallotOK(b)
    /\ b.votes \in [b.voters -> {NotYet, "SUCCESS"}]
    /\ b.threshold \in Nat \ {0}
    /\ b.status \in {"PENDING", "PASSED", "EXPIRED"}

Store(bs) == DOMAIN bs \subseteq BallotKeys /\ \A i \in DOMAIN bs : Sound(bs[i])

Entry == [voters : SUBSET Validators, status : {"PENDING", "EXPIRED"}]

\* The entries of p carry the statuses and the votes of the ballots bs.
Mirrors(p, bs) ==
    \A k \in DOMAIN p :
        /\ k \in Keys
        /\ \A b \in DOMAIN p[k] :
              /\ b \in Variants /\ p[k][b] \in Entry
              /\ <<k, b>> \in DOMAIN bs
              /\ p[k][b].status = bs[<<k, b>>].status
              /\ YesVoters(bs[<<k, b>>]) \subseteq p[k][b].voters
        /\ \E b \in DOMAIN p[k] : p[k][b].status = "PENDING"

\* Every open ballot of a key outside K has an entry in p.
Covers(p, bs, K) ==
    \A k \in Keys, b \in Variants :
        <<k, b>> \in DOMAIN bs /\ bs[<<k, b>>].status = "PENDING" /\ k \notin K
            => k \in DOMAIN p /\ b \in DOMAIN p[k]

\* The entries of x are dead.
Dead(x, bs) ==
    \A k \in DOMAIN x : \A b \in DOMAIN x[k] :
        /\ k \in Keys /\ b \in Variants /\ x[k][b] \in Entry
        /\ x[k][b].status = "EXPIRED"
        /\ <<k, b>> \in DOMAIN bs /\ bs[<<k, b>>].status = "EXPIRED"

\* Entries may be dropped, and ballots without an entry may change.
LEMMA MirrorsAgree ==
    ASSUME NEW p, NEW q, NEW bs, NEW cs, Mirrors(p, bs), DOMAIN q \subseteq DOMAIN p,
           \A k \in DOMAIN q : q[k] = p[k],
           \A k \in DOMAIN q : \A b \in DOMAIN q[k] :
              <<k, b>> \in DOMAIN bs => <<k, b>> \in DOMAIN cs /\ cs[<<k, b>>] = bs[<<k, b>>]
    PROVE  Mirrors(q, cs)
<1> SUFFICES ASSUME NEW k \in DOMAIN q
             PROVE  /\ k \in Keys
                    /\ \A b \in DOMAIN q[k] :
                          /\ b \in Variants /\ q[k][b] \in Entry
                          /\ <<k, b>> \in DOMAIN cs
                          /\ q[k][b].status = cs[<<k, b>>].status
                          /\ YesVoters(cs[<<k, b>>]) \subseteq q[k][b].voters
                    /\ \E b \in DOMAIN q[k] : q[k][b].status = "PENDING"
  BY DEF Mirrors
<1>1. k \in DOMAIN p /\ q[k] = p[k]
  OBVIOUS
<1> QED BY <1>1 DEF Mirrors

Swept(bs, gone) == [i \in DOMAIN bs |-> IF i \in gone THEN Expired(bs[i]) ELSE bs[i]]

LEMMA ExpiredIsSound ==
    ASSUME NEW b, Sound(b)
    PROVE  /\ Sound(Expired(b)) /\ Expired(b).status = "EXPIRED"
           /\ YesVoters(Expired(b)) = YesVoters(b)
<1>1. Expired(b) = [voters |-> b.voters, votes |-> b.votes, threshold |-> b.threshold,
                    status |-> "EXPIRED", expiry |-> b.expiry]
  BY DEF Sound, InBallotOK, Expired
<1> QED BY <1>1 DEF Sound, InBallotOK, BallotStatuses, YesVoters

LEMMA SweptIsStore ==
    ASSUME NEW bs, Store(bs), NEW gone \in SUBSET DOMAIN bs
    PROVE  /\ Store(Swept(bs, gone)) /\ DOMAIN Swept(bs, gone) = DOMAIN bs
           /\ \A i \in DOMAIN bs :
                 /\ i \in gone => Swept(bs, gone)[i].status = "EXPIRED"
                 /\ i \notin gone => Swept(bs, gone)[i] = bs[i]
                 /\ YesVoters(Swept(bs, gone)[i]) = YesVoters(bs[i])
BY ExpiredIsSound DEF Store, Swept

\* AfterBallotTerminal, run for every ballot of a sweep, keeps the two audit trails in
\* step with the ballots.
LEMMA SweepKeeps ==
    ASSUME NEW p, NEW x, NEW bs, NEW K, NEW gone \in SUBSET DOMAIN bs,
           Store(bs), \A i \in gone : bs[i].status = "PENDING",
           Mirrors(p, bs), Covers(p, bs, K), Dead(x, bs)
    PROVE  /\ Mirrors(PendingAfter(p, gone), Swept(bs, gone))
           /\ Covers(PendingAfter(p, gone), Swept(bs, gone), K)
           /\ Dead(ExpiredAfter(p, x, gone), Swept(bs, gone))
           /\ DOMAIN PendingAfter(p, gone) \subseteq DOMAIN p
<1> DEFINE sw == Swept(bs, gone)
           pa == PendingAfter(p, gone)
           xa == ExpiredAfter(p, x, gone)
           cl == Closed(p, gone)
<1>1. /\ DOMAIN sw = DOMAIN bs
      /\ \A i \in DOMAIN bs : /\ i \in gone => sw[i].status = "EXPIRED"
                              /\ i \notin gone => sw[i] = bs[i]
                              /\ YesVoters(sw[i]) = YesVoters(bs[i])
  BY SweptIsStore
<1>2. \A k \in DOMAIN p :
         /\ DOMAIN Marked(p[k], k, gone) = DOMAIN p[k]
         /\ \A b \in DOMAIN p[k] :
               /\ Marked(p[k], k, gone)[b] \in Entry
               /\ Marked(p[k], k, gone)[b].voters = p[k][b].voters
               /\ Marked(p[k], k, gone)[b].status
                    = IF <<k, b>> \in gone THEN "EXPIRED" ELSE p[k][b].status
  BY DEF Marked, Mirrors, Entry
<1>3. /\ DOMAIN pa = DOMAIN p \ cl
      /\ \A k \in DOMAIN pa : pa[k] = Marked(p[k], k, gone)
      /\ DOMAIN xa = DOMAIN x \cup cl
      /\ \A k \in DOMAIN xa : xa[k] = IF k \in cl THEN Marked(p[k], k, gone) ELSE x[k]
  BY DEF PendingAfter, ExpiredAfter
<1>4. /\ cl \subseteq DOMAIN p
      /\ \A k \in DOMAIN p \ cl :
            \/ \A b \in DOMAIN p[k] : <<k, b>> \notin gone
            \/ \E b \in DOMAIN p[k] : Marked(p[k], k, gone)[b].status = "PENDING"
      /\ \A k \in cl : \A b \in DOMAIN p[k] : Marked(p[k], k, gone)[b].status # "PENDING"
  BY DEF Closed
<1> HIDE DEF sw, pa, xa, cl
<1>5. \A k \in DOMAIN p : \A b \in DOMAIN p[k] :
         /\ <<k, b>> \in DOMAIN sw
         /\ Marked(p[k], k, gone)[b].status = sw[<<k, b>>].status
         /\ YesVoters(sw[<<k, b>>]) \subseteq Marked(p[k], k, gone)[b].voters
  <2> SUFFICES ASSUME NEW k \in DOMAIN p, NEW b \in DOMAIN p[k]
               PROVE  /\ <<k, b>> \in DOMAIN sw
                      /\ Marked(p[k], k, gone)[b].status = sw[<<k, b>>].status
                      /\ YesVoters(sw[<<k, b>>]) \subseteq Marked(p[k], k, gone)[b].voters
    OBVIOUS
  <2>1. /\ <<k, b>> \in DOMAIN bs
        /\ p[k][b].status = bs[<<k, b>>].status
        /\ YesVoters(bs[<<k, b>>]) \subseteq p[k][b].voters
    BY DEF Mirrors
  <2>2. /\ Marked(p[k], k, gone)[b].voters = p[k][b].voters
        /\ Marked(p[k], k, gone)[b].status
             = IF <<k, b>> \in gone THEN "EXPIRED" ELSE p[k][b].status
    BY <1>2
  <2>3. /\ <<k, b>> \in gone => sw[<<k, b>>].status = "EXPIRED"
        /\ <<k, b>> \notin gone => sw[<<k, b>>] = bs[<<k, b>>]
        /\ YesVoters(sw[<<k, b>>]) = YesVoters(bs[<<k, b>>])
    BY <1>1, <2>1
  <2> QED BY <1>1, <2>1, <2>2, <2>3
<1>6. \A k \in DOMAIN p \ cl : \E b \in DOMAIN p[k] : Marked(p[k], k, gone)[b].status = "PENDING"
  <2> SUFFICES ASSUME NEW k \in DOMAIN p, k \notin cl,
                      \A b \in DOMAIN p[k] : <<k, b>> \notin gone
               PROVE  \E b \in DOMAIN p[k] : Marked(p[k], k, gone)[b].status = "PENDING"
    BY <1>4
  <2>1. PICK b \in DOMAIN p[k] : p[k][b].status = "PENDING"
    BY DEF Mirrors
  <2>2. Marked(p[k], k, gone)[b].status = p[k][b].status
    BY <1>2, Zenon
  <2> QED BY <2>1, <2>2
<1>7. Mirrors(pa, sw)
  <2> SUFFICES ASSUME NEW k \in DOMAIN pa
               PROVE  /\ k \in Keys
                      /\ \A b \in DOMAIN pa[k] :
                            /\ b \in Variants /\ pa[k][b] \in Entry
                            /\ <<k, b>> \in DOMAIN sw
                            /\ pa[k][b].status = sw[<<k, b>>].status
                            /\ YesVoters(sw[<<k, b>>]) \subseteq pa[k][b].voters
                      /\ \E b \in DOMAIN pa[k] : pa[k][b].status = "PENDING"
    BY DEF Mirrors
  <2>1. k \in DOMAIN p /\ k \notin cl /\ pa[k] = Marked(p[k], k, gone) /\ DOMAIN pa[k] = DOMAIN p[k]
    BY <1>2, <1>3
  <2>2. k \in Keys /\ \A b \in DOMAIN p[k] : b \in Variants
    BY <2>1, Zenon DEF Mirrors
  <2> QED BY <1>2, <1>5, <1>6, <2>1, <2>2
<1>8. Covers(pa, sw, K)
  <2> SUFFICES ASSUME NEW k \in Keys, NEW b \in Variants, <<k, b>> \in DOMAIN sw,
                      sw[<<k, b>>].status = "PENDING", k \notin K
               PROVE  k \in DOMAIN pa /\ b \in DOMAIN pa[k]
    BY DEF Covers
  <2>1. <<k, b>> \in DOMAIN bs /\ bs[<<k, b>>].status = "PENDING" /\ <<k, b>> \notin gone
    BY <1>1
  <2>2. k \in DOMAIN p /\ b \in DOMAIN p[k]
    BY <2>1 DEF Covers
  <2>3. Marked(p[k], k, gone)[b].status = "PENDING"
    BY <1>5, <2>2
  <2> QED BY <1>2, <1>3, <1>4, <2>2, <2>3
<1>9. Dead(xa, sw)
  <2> SUFFICES ASSUME NEW k \in DOMAIN xa, NEW b \in DOMAIN xa[k]
               PROVE  /\ k \in Keys /\ b \in Variants /\ xa[k][b] \in Entry
                      /\ xa[k][b].status = "EXPIRED"
                      /\ <<k, b>> \in DOMAIN sw /\ sw[<<k, b>>].status = "EXPIRED"
    BY Zenon DEF Dead
  <2>1. CASE k \in cl
    <3>1. xa[k] = Marked(p[k], k, gone) /\ k \in DOMAIN p /\ b \in DOMAIN p[k]
      BY <1>2, <1>3, <1>4, <2>1
    <3>2. Marked(p[k], k, gone)[b].status = "EXPIRED"
      <4>1. Marked(p[k], k, gone)[b].status # "PENDING"
        BY <1>4, <2>1, <3>1
      <4>2. PICK e \in Entry : e = Marked(p[k], k, gone)[b]
        BY <1>2, <3>1, Zenon
      <4> QED BY <4>1, <4>2 DEF Entry
    <3>3. k \in Keys /\ b \in Variants
      BY <3>1, Zenon DEF Mirrors
    <3>4. xa[k][b].status = "EXPIRED" /\ xa[k][b] \in Entry
      BY <1>2, <3>1, <3>2, Zenon
    <3> QED BY <1>5, <3>1, <3>2, <3>3, <3>4
  <2>2. CASE k \notin cl
    <3>1. xa[k] = x[k] /\ k \in DOMAIN x
      BY <1>3, <2>2
    <3> QED BY <1>1, <3>1 DEF Dead
  <2> QED BY <2>1, <2>2
<1> QED BY <1>3, <1>7, <1>8, <1>9 DEF sw, pa, xa
-----------------------------------------------------------------------------
InboundInv ==
    /\ Store(ballots)
    /\ Mirrors(pendingIn, ballots)
    /\ Covers(pendingIn, ballots, DOMAIN utxs)
    /\ Dead(expiredIn, ballots)
    /\ OneOutcome
    /\ height \in Nat

LEMMA QuorumPositive ==
    ASSUME NEW n \in Nat PROVE Quorum(n) \in Nat \ {0}
BY DEF Quorum

LEMMA EligibleCounted ==
    ASSUME NEW S \in SUBSET Validators
    PROVE  IsFiniteSet(S) /\ Cardinality(S) \in Nat
BY InValidatorsAssumption, FS_Subset, FS_CardinalityType

\* A vote for a variant keeps its ballot sound and can only leave it open or pass it.
LEMMA VoteIsSound ==
    ASSUME NEW old, Sound(old), NEW v, CanAddVote(old, v)
    PROVE  LET voted == AddVote(old, v, "SUCCESS")
               final == [voted EXCEPT !.status = IsFinalizingVote(voted)]
           IN  /\ Sound(voted) /\ voted.status = "PENDING"
               /\ YesVoters(voted) \subseteq YesVoters(old) \cup {v}
               /\ Sound(final) /\ final.status \in {"PENDING", "PASSED"}
               /\ final.status = "PENDING" => final = voted
<1> DEFINE voted == AddVote(old, v, "SUCCESS")
           final == [voted EXCEPT !.status = IsFinalizingVote(voted)]
<1>1. voted = [voters |-> old.voters, votes |-> [old.votes EXCEPT ![v] = "SUCCESS"],
               threshold |-> old.threshold, status |-> old.status, expiry |-> old.expiry]
  BY DEF Sound, InBallotOK, AddVote
<1>2. v \in old.voters /\ old.status = "PENDING"
  BY DEF CanAddVote
<1>3. Sound(voted) /\ voted.status = "PENDING"
  BY <1>1, <1>2 DEF Sound, InBallotOK, VoteResults
<1>4. YesVoters(voted) \subseteq YesVoters(old) \cup {v}
  BY <1>1, <1>2 DEF YesVoters, Sound
<1>5. NoVoters(voted) = {}
  BY <1>3 DEF NoVoters, Sound, NotYet
<1>6. Cardinality(NoVoters(voted)) = 0
  BY <1>5, FS_EmptySet
<1>7. IsFinalizingVote(voted) \in {"PENDING", "PASSED"}
  <2>1. voted.threshold \in Nat \ {0}
    BY <1>3 DEF Sound
  <2>2. ~(Cardinality(NoVoters(voted)) >= voted.threshold)
    BY <1>6, <2>1
  <2> QED BY <1>3, <2>2 DEF IsFinalizingVote
<1>8. final = [voters |-> voted.voters, votes |-> voted.votes, threshold |-> voted.threshold,
               status |-> IsFinalizingVote(voted), expiry |-> voted.expiry]
  BY <1>3 DEF Sound, InBallotOK
<1>9. Sound(final) /\ final.status \in {"PENDING", "PASSED"}
  BY <1>3, <1>7, <1>8 DEF Sound, InBallotOK, BallotStatuses
<1>10. final.status = "PENDING" => final = voted
  BY <1>3, <1>8 DEF Sound, InBallotOK
<1> QED BY <1>3, <1>4, <1>9, <1>10

LEMMA NewBallotIsSound ==
    ASSUME NEW eligible \in SUBSET Validators, height \in Nat
    PROVE  Sound(InboundBallot(eligible)) /\ YesVoters(InboundBallot(eligible)) = {}
<1> DEFINE q == Quorum(Cardinality(eligible))
<1>1. q \in Nat \ {0}
  BY QuorumPositive, EligibleCounted
<1> HIDE DEF q
<1>2. height + ExpiryAfter \in Nat
  BY InBoundsAssumption
<1>3. InboundBallot(eligible) = [voters |-> eligible, votes |-> [v \in eligible |-> NotYet],
                                 threshold |-> q, status |-> "PENDING",
                                 expiry |-> height + ExpiryAfter]
  BY DEF InboundBallot, NewBallot, q
<1> QED BY <1>1, <1>2, <1>3 DEF Sound, InBallotOK, BallotStatuses, VoteResults, YesVoters, NotYet

\* RecordInboundVote keeps the entries in step with the ballot the vote was added to.
LEMMA RecordKeeps ==
    ASSUME Store(ballots), Mirrors(pendingIn, ballots),
           Covers(pendingIn, ballots, DOMAIN utxs), Dead(expiredIn, ballots),
           NEW v \in Validators, NEW k \in Keys, NEW b \in Variants, NEW old, NEW voted,
           <<k, b>> \in DOMAIN ballots => old = ballots[<<k, b>>],
           <<k, b>> \notin DOMAIN ballots => YesVoters(old) = {},
           k \notin DOMAIN utxs,
           old.status = "PENDING", voted.status = "PENDING",
           YesVoters(voted) \subseteq YesVoters(old) \cup {v}
    PROVE  /\ Mirrors(RecordInboundVote(pendingIn, k, b, v), With(ballots, <<k, b>>, voted))
           /\ Covers(RecordInboundVote(pendingIn, k, b, v), With(ballots, <<k, b>>, voted), DOMAIN utxs)
           /\ Dead(expiredIn, With(ballots, <<k, b>>, voted))
<1> DEFINE id == <<k, b>>
           bs == With(ballots, id, voted)
           pend == IF k \in DOMAIN pendingIn THEN pendingIn[k] ELSE EmptyMap
           rec == RecordInboundVote(pendingIn, k, b, v)
<1>1. /\ DOMAIN bs = DOMAIN ballots \cup {id} /\ bs[id] = voted
      /\ \A i \in DOMAIN ballots : i # id => bs[i] = ballots[i]
  BY DEF With
<1>2. DOMAIN EmptyMap = {}
  BY DEF EmptyMap
<1>3. /\ DOMAIN rec = DOMAIN pendingIn \cup {k}
      /\ \A j \in DOMAIN pendingIn : j # k => rec[j] = pendingIn[j]
      /\ DOMAIN rec[k] = DOMAIN pend \cup {b}
      /\ \A c \in DOMAIN pend : c # b => rec[k][c] = pend[c]
      /\ rec[k][b] = IF b \in DOMAIN pend THEN [pend[b] EXCEPT !.voters = @ \cup {v}]
                     ELSE [voters |-> {v}, status |-> "PENDING"]
  BY DEF RecordInboundVote, With
<1>4. \A c \in DOMAIN pend : k \in DOMAIN pendingIn /\ c \in DOMAIN pendingIn[k] /\ pend[c] = pendingIn[k][c]
  BY <1>2
<1>5. \A c \in DOMAIN pend :
         /\ c \in Variants /\ pend[c] \in Entry /\ <<k, c>> \in DOMAIN ballots
         /\ pend[c].status = ballots[<<k, c>>].status
         /\ YesVoters(ballots[<<k, c>>]) \subseteq pend[c].voters
  BY <1>4 DEF Mirrors
<1>6. b \in DOMAIN pend \/ id \notin DOMAIN ballots
  BY <1>2 DEF Covers
<1> HIDE DEF bs, pend, rec
<1>7. /\ rec[k][b] \in Entry /\ rec[k][b].status = "PENDING"
      /\ YesVoters(voted) \subseteq rec[k][b].voters
  <2>1. CASE b \in DOMAIN pend
    <3>1. /\ pend[b] \in Entry /\ pend[b].status = "PENDING"
          /\ YesVoters(old) \subseteq pend[b].voters
      BY <1>5, <2>1
    <3>2. rec[k][b] = [voters |-> pend[b].voters \cup {v}, status |-> pend[b].status]
      BY <1>3, <2>1, <3>1 DEF Entry
    <3> QED BY <3>1, <3>2 DEF Entry
  <2>2. CASE b \notin DOMAIN pend
    <3>1. rec[k][b] = [voters |-> {v}, status |-> "PENDING"] /\ YesVoters(old) = {}
      BY <1>3, <1>6, <2>2
    <3> QED BY <3>1 DEF Entry
  <2> QED BY <2>1, <2>2
<1>8. Mirrors(rec, bs)
  <2> SUFFICES ASSUME NEW j \in DOMAIN rec
               PROVE  /\ j \in Keys
                      /\ \A c \in DOMAIN rec[j] :
                            /\ c \in Variants /\ rec[j][c] \in Entry
                            /\ <<j, c>> \in DOMAIN bs
                            /\ rec[j][c].status = bs[<<j, c>>].status
                            /\ YesVoters(bs[<<j, c>>]) \subseteq rec[j][c].voters
                      /\ \E c \in DOMAIN rec[j] : rec[j][c].status = "PENDING"
    BY DEF Mirrors
  <2>1. CASE j = k
    <3>1. ASSUME NEW c \in DOMAIN rec[k]
          PROVE  /\ c \in Variants /\ rec[k][c] \in Entry
                 /\ <<k, c>> \in DOMAIN bs
                 /\ rec[k][c].status = bs[<<k, c>>].status
                 /\ YesVoters(bs[<<k, c>>]) \subseteq rec[k][c].voters
      <4>1. CASE c = b
        BY <1>1, <1>7, <4>1
      <4>2. CASE c # b
        <5>1. c \in DOMAIN pend /\ rec[k][c] = pend[c] /\ <<k, c>> # id
          BY <1>3, <4>2
        <5> QED BY <1>1, <1>5, <5>1
      <4> QED BY <4>1, <4>2
    <3>2. b \in DOMAIN rec[k]
      BY <1>3
    <3> QED BY <1>7, <2>1, <3>1, <3>2
  <2>2. CASE j # k
    <3>1. j \in DOMAIN pendingIn /\ rec[j] = pendingIn[j] /\ \A c \in Variants : <<j, c>> # id
      BY <1>3, <2>2
    <3> QED BY <1>1, <3>1 DEF Mirrors
  <2> QED BY <2>1, <2>2
<1>9. Covers(rec, bs, DOMAIN utxs)
  <2> SUFFICES ASSUME NEW j \in Keys, NEW c \in Variants, <<j, c>> \in DOMAIN bs,
                      bs[<<j, c>>].status = "PENDING", j \notin DOMAIN utxs
               PROVE  j \in DOMAIN rec /\ c \in DOMAIN rec[j]
    BY DEF Covers
  <2>1. CASE <<j, c>> = id
    BY <1>3, <2>1
  <2>2. CASE <<j, c>> # id
    <3>1. j \in DOMAIN pendingIn /\ c \in DOMAIN pendingIn[j]
      BY <1>1, <2>2 DEF Covers
    <3> QED BY <1>3, <3>1 DEF pend
  <2> QED BY <2>1, <2>2
<1>10. Dead(expiredIn, bs)
  <2> SUFFICES ASSUME NEW j \in DOMAIN expiredIn, NEW c \in DOMAIN expiredIn[j]
               PROVE  /\ j \in Keys /\ c \in Variants
                      /\ expiredIn[j][c].status = "EXPIRED"
                      /\ <<j, c>> \in DOMAIN bs /\ bs[<<j, c>>].status = "EXPIRED"
    BY Zenon DEF Dead
  <2>1. /\ j \in Keys /\ c \in Variants /\ expiredIn[j][c].status = "EXPIRED"
        /\ <<j, c>> \in DOMAIN ballots /\ ballots[<<j, c>>].status = "EXPIRED"
    BY DEF Dead
  <2>2. <<j, c>> # id
    BY <2>1
  <2> QED BY <1>1, <2>1, <2>2
<1> QED BY <1>8, <1>9, <1>10 DEF bs, rec

-----------------------------------------------------------------------------
\* How the ballots of other keys and variants may move while OneOutcome rests on them.
Steady(bs, after, id) ==
    \A i \in BallotKeys : i # id =>
        /\ i \in DOMAIN bs <=> i \in DOMAIN after
        /\ i \in DOMAIN bs =>
              \/ after[i].status = bs[i].status
              \/ bs[i].status = "PENDING" /\ after[i].status = "EXPIRED"

OutcomeOf(bs, u, k, b) ==
    /\ (<<k, b>> \in DOMAIN bs /\ bs[<<k, b>>].status = "PASSED")
          <=> (k \in DOMAIN u /\ u[k] = [by |-> "vote", variant |-> b])
    /\ (k \in DOMAIN u /\ u[k] = [by |-> "admin", variant |-> b])
          => (<<k, b>> \in DOMAIN bs /\ bs[<<k, b>>].status = "EXPIRED")

LEMMA OutcomeByVariant ==
    OneOutcome <=> \A k \in Keys, b \in Variants : OutcomeOf(ballots, utxs, k, b)
BY DEF OneOutcome, OutcomeOf

LEMMA OutcomeByVariantAfter ==
    ASSUME \A k \in Keys, b \in Variants : OutcomeOf(ballots', utxs', k, b)
    PROVE  OneOutcome'
BY Zenon DEF OneOutcome, OutcomeOf

LEMMA OutcomeKept ==
    ASSUME OneOutcome, NEW id, Steady(ballots, ballots', id),
           id \in DOMAIN ballots' => ballots'[id].status # "PASSED",
           id \in DOMAIN ballots => ballots[id].status = "PENDING",
           utxs' = utxs
    PROVE  OneOutcome'
<1> SUFFICES ASSUME NEW k \in Keys, NEW b \in Variants
             PROVE  OutcomeOf(ballots', utxs, k, b)
  BY OutcomeByVariantAfter
<1>1. OutcomeOf(ballots, utxs, k, b)
  BY OutcomeByVariant
<1>2. <<k, b>> \in BallotKeys
  BY DEF BallotKeys
<1>3. CASE <<k, b>> = id
  BY <1>1, <1>3 DEF OutcomeOf
<1>4. CASE <<k, b>> # id
  BY <1>1, <1>2, <1>4 DEF Steady, OutcomeOf
<1> QED BY <1>3, <1>4

\* A sweep, with or without a change to one pending ballot before it.
LEMMA SweepIsSteady ==
    ASSUME NEW bs, Store(bs), NEW gone \in SUBSET DOMAIN bs,
           \A i \in gone : bs[i].status = "PENDING", NEW id,
           \A i \in BallotKeys : i # id => /\ i \in DOMAIN ballots <=> i \in DOMAIN bs
                                           /\ i \in DOMAIN bs => bs[i] = ballots[i]
    PROVE  Steady(ballots, Swept(bs, gone), id)
<1> SUFFICES ASSUME NEW i \in BallotKeys, i # id
             PROVE  /\ i \in DOMAIN ballots <=> i \in DOMAIN Swept(bs, gone)
                    /\ i \in DOMAIN ballots =>
                          \/ Swept(bs, gone)[i].status = ballots[i].status
                          \/ ballots[i].status = "PENDING" /\ Swept(bs, gone)[i].status = "EXPIRED"
  BY DEF Steady
<1>1. DOMAIN Swept(bs, gone) = DOMAIN bs
  BY SweptIsStore
<1>2. i \in DOMAIN bs => /\ i \in gone => Swept(bs, gone)[i].status = "EXPIRED"
                         /\ i \notin gone => Swept(bs, gone)[i] = bs[i]
  BY SweptIsStore
<1>3. /\ i \in DOMAIN ballots <=> i \in DOMAIN bs
      /\ i \in DOMAIN bs => bs[i] = ballots[i]
  OBVIOUS
<1>4. i \in gone => bs[i].status = "PENDING"
  OBVIOUS
<1> QED BY <1>1, <1>2, <1>3, <1>4

LEMMA OpenStep ==
    ASSUME InboundInv, OpenOtherBallot PROVE InboundInv'
<1> DEFINE gone == Stale(ballots, height)
<1>1. gone \in SUBSET DOMAIN ballots /\ \A i \in gone : ballots[i].status = "PENDING"
  BY DEF Stale
<1>2. /\ ballots' = Swept(ballots, gone) /\ pendingIn' = PendingAfter(pendingIn, gone)
      /\ expiredIn' = ExpiredAfter(pendingIn, expiredIn, gone)
      /\ utxs' = utxs /\ height' = height
  BY DEF OpenOtherBallot, ExpireBallotsBeforeHeight, Swept
<1> HIDE DEF gone
<1>3. Store(ballots')
  BY <1>1, <1>2, SweptIsStore DEF InboundInv
<1>4. /\ Mirrors(pendingIn', ballots') /\ Covers(pendingIn', ballots', DOMAIN utxs')
      /\ Dead(expiredIn', ballots')
  BY <1>1, <1>2, SweepKeeps DEF InboundInv
<1>5. OneOutcome'
  <2>1. Steady(ballots, ballots', <<>>)
    BY <1>1, <1>2, SweepIsSteady DEF InboundInv
  <2>2. <<>> \notin DOMAIN ballots /\ <<>> \notin DOMAIN ballots'
    BY <1>3 DEF InboundInv, Store, BallotKeys
  <2> QED BY <1>2, <2>1, <2>2, OutcomeKept DEF InboundInv
<1> QED BY <1>2, <1>3, <1>4, <1>5 DEF InboundInv, Store, Mirrors, Covers, Dead

LEMMA RecomputeIsSound ==
    ASSUME NEW b, Sound(b), NEW eligible \in SUBSET Validators, eligible # {}
    PROVE  /\ Sound(RecomputeBallotQuorum(b, eligible))
           /\ RecomputeBallotQuorum(b, eligible).status = b.status
           /\ YesVoters(RecomputeBallotQuorum(b, eligible)) \subseteq YesVoters(b)
<1> DEFINE votes == [v \in eligible |-> IF v \in b.voters THEN b.votes[v] ELSE NotYet]
           q == Quorum(Cardinality(eligible))
<1>1. q \in Nat \ {0}
  BY QuorumPositive, EligibleCounted
<1>2. votes \in [eligible -> {NotYet, "SUCCESS"}]
  BY DEF Sound
<1>3. RecomputeBallotQuorum(b, eligible)
        = [voters |-> eligible, votes |-> votes, threshold |-> q, status |-> b.status, expiry |-> b.expiry]
  BY Zenon DEF RecomputeBallotQuorum, Sound, InBallotOK
<1>4. {v \in eligible : votes[v] = "SUCCESS"} \subseteq YesVoters(b)
  BY DEF YesVoters, NotYet
<1> HIDE DEF votes, q
<1> QED BY <1>1, <1>2, <1>3, <1>4 DEF Sound, InBallotOK, VoteResults, YesVoters

LEMMA RecomputeStep ==
    ASSUME InboundInv, NEW id \in BallotKeys, NEW eligible \in SUBSET Validators,
           RecomputeInboundBallot(id, eligible)
    PROVE  InboundInv'
<1>0. id \in DOMAIN ballots /\ ballots[id].status = "PENDING" /\ Sound(ballots[id])
      /\ utxs' = utxs /\ height' = height
      /\ ballots' = [ballots EXCEPT ![id] = RecomputeBallotQuorum(ballots[id], eligible)]
  BY DEF RecomputeInboundBallot, InboundInv, Store
<1>1. PICK bs, gone :
         /\ Store(bs) /\ gone \in SUBSET DOMAIN bs /\ \A i \in gone : bs[i].status = "PENDING"
         /\ DOMAIN bs = DOMAIN ballots /\ \A i \in DOMAIN bs : i # id => bs[i] = ballots[i]
         /\ bs[id].status = "PENDING" /\ YesVoters(bs[id]) \subseteq YesVoters(ballots[id])
         /\ ballots' = Swept(bs, gone)
         /\ pendingIn' = PendingAfter(pendingIn, gone)
         /\ expiredIn' = ExpiredAfter(pendingIn, expiredIn, gone)
  <2>1. CASE eligible = {}
    <3>1. RecomputeBallotQuorum(ballots[id], eligible) = Expired(ballots[id])
      BY <2>1 DEF RecomputeBallotQuorum
    <3>2. Expired(ballots[id]).status = "EXPIRED"
      BY <1>0, ExpiredIsSound
    <3>3. ballots' = Swept(ballots, {id})
      BY <1>0, <3>1, Zenon DEF Swept
    <3>4. /\ pendingIn' = PendingAfter(pendingIn, {id})
          /\ expiredIn' = ExpiredAfter(pendingIn, expiredIn, {id})
      BY <3>1, <3>2 DEF RecomputeInboundBallot
    <3> QED BY <1>0, <3>3, <3>4 DEF InboundInv
  <2>2. CASE eligible # {}
    <3> DEFINE b == RecomputeBallotQuorum(ballots[id], eligible)
               bs == [ballots EXCEPT ![id] = b]
    <3>1. Sound(b) /\ b.status = "PENDING" /\ YesVoters(b) \subseteq YesVoters(ballots[id])
      BY <1>0, <2>2, RecomputeIsSound
    <3>2. /\ pendingIn' = PendingAfter(pendingIn, {})
          /\ expiredIn' = ExpiredAfter(pendingIn, expiredIn, {})
      BY <3>1 DEF RecomputeInboundBallot
    <3> HIDE DEF b
    <3>3. /\ DOMAIN bs = DOMAIN ballots /\ bs[id] = b
          /\ \A i \in DOMAIN bs : i # id => bs[i] = ballots[i]
      BY <1>0
    <3>4. Store(bs)
      BY <3>1, <3>3 DEF Store, InboundInv
    <3>5. ballots' = Swept(bs, {})
      BY <1>0, Zenon DEF Swept, b
    <3> HIDE DEF bs
    <3> QED BY <3>1, <3>2, <3>3, <3>4, <3>5
  <2> QED BY <2>1, <2>2
<1>2. Mirrors(pendingIn, bs)
  <2> SUFFICES ASSUME NEW k \in DOMAIN pendingIn, NEW c \in DOMAIN pendingIn[k]
               PROVE  /\ <<k, c>> \in DOMAIN bs
                      /\ pendingIn[k][c].status = bs[<<k, c>>].status
                      /\ YesVoters(bs[<<k, c>>]) \subseteq pendingIn[k][c].voters
    BY DEF Mirrors, InboundInv
  <2>1. /\ <<k, c>> \in DOMAIN ballots
        /\ pendingIn[k][c].status = ballots[<<k, c>>].status
        /\ YesVoters(ballots[<<k, c>>]) \subseteq pendingIn[k][c].voters
    BY DEF Mirrors, InboundInv
  <2>2. CASE <<k, c>> = id
    BY <1>0, <1>1, <2>1, <2>2
  <2>3. CASE <<k, c>> # id
    BY <1>1, <2>1, <2>3
  <2> QED BY <2>2, <2>3
<1>3. Covers(pendingIn, bs, DOMAIN utxs)
  BY <1>0, <1>1 DEF Covers, InboundInv
<1>4. Dead(expiredIn, bs)
  <2> SUFFICES ASSUME NEW k \in DOMAIN expiredIn, NEW c \in DOMAIN expiredIn[k]
               PROVE  /\ k \in Keys /\ c \in Variants /\ expiredIn[k][c] \in Entry
                      /\ expiredIn[k][c].status = "EXPIRED"
                      /\ <<k, c>> \in DOMAIN bs /\ bs[<<k, c>>].status = "EXPIRED"
    BY Zenon DEF Dead
  <2>1. /\ k \in Keys /\ c \in Variants
        /\ expiredIn[k][c] \in Entry /\ expiredIn[k][c].status = "EXPIRED"
        /\ <<k, c>> \in DOMAIN ballots /\ ballots[<<k, c>>].status = "EXPIRED"
    BY DEF Dead, InboundInv
  <2>2. <<k, c>> # id
    BY <1>0, <2>1
  <2> QED BY <1>1, <2>1, <2>2
<1>5. Store(ballots')
  BY <1>1, SweptIsStore
<1>6. /\ Mirrors(pendingIn', ballots') /\ Covers(pendingIn', ballots', DOMAIN utxs)
      /\ Dead(expiredIn', ballots')
  BY <1>1, <1>2, <1>3, <1>4, SweepKeeps, Zenon
<1>7. OneOutcome'
  <2>1. Steady(ballots, ballots', id)
    BY <1>1, SweepIsSteady
  <2>2. ballots'[id].status # "PASSED"
    BY <1>0, <1>1, SweptIsStore
  <2> QED BY <1>0, <2>1, <2>2, OutcomeKept, Zenon DEF InboundInv
<1> QED BY <1>0, <1>5, <1>6, <1>7 DEF InboundInv, Store, Mirrors, Covers, Dead

LEMMA VoteStep ==
    ASSUME InboundInv, NEW v \in Validators, NEW k \in Keys, NEW b \in Variants,
           NEW on \in BOOLEAN, NEW eligible \in SUBSET Validators,
           VoteInbound(v, k, b, on, eligible)
    PROVE  InboundInv'
<1> DEFINE id == <<k, b>>
           new == InboundBallot(eligible)
           old == IF id \in DOMAIN ballots THEN ballots[id] ELSE new
           voted == AddVote(old, v, "SUCCESS")
           final == [voted EXCEPT !.status = IsFinalizingVote(voted)]
           gone == SweptByOpening(id)
           bs == With(ballots, id, voted)
           recorded == RecordInboundVote(pendingIn, k, b, v)
           sw == Swept(bs, gone)
<1>0. id \in BallotKeys /\ k \notin DOMAIN utxs /\ height' = height
  BY DEF BallotKeys, VoteInbound, NoUniversalTx
<1>1. Sound(old) /\ (id \notin DOMAIN ballots => YesVoters(old) = {})
  BY NewBallotIsSound DEF InboundInv, Store
<1>2. CanAddVote(old, v)
  BY DEF VoteInbound, VoteAccepted, GetOrCreateBallot
<1>3. /\ Sound(voted) /\ voted.status = "PENDING" /\ old.status = "PENDING"
      /\ YesVoters(voted) \subseteq YesVoters(old) \cup {v}
      /\ Sound(final) /\ final.status \in {"PENDING", "PASSED"}
      /\ final.status = "PENDING" => final = voted
  BY <1>1, <1>2, VoteIsSound DEF CanAddVote
<1>4. /\ gone \in SUBSET DOMAIN ballots /\ id \notin gone
      /\ \A i \in gone : ballots[i].status = "PENDING"
      /\ id \in DOMAIN ballots => gone = {}
      /\ id \notin DOMAIN ballots => gone = Stale(ballots, height)
  BY DEF SweptByOpening, Stale
<1>5. /\ DOMAIN bs = DOMAIN ballots \cup {id} /\ bs[id] = voted
      /\ \A i \in DOMAIN ballots : i # id => bs[i] = ballots[i]
  BY DEF With
<1>6. Store(bs) /\ gone \in SUBSET DOMAIN bs /\ \A i \in gone : bs[i].status = "PENDING"
  <2> HIDE DEF bs, gone, voted
  <2> QED BY <1>0, <1>3, <1>4, <1>5 DEF InboundInv, Store
<1>7. ballots' = [sw EXCEPT ![id] = final]
  <2>1. ballots' = [GetOrCreateBallot(ballots, id, new, height) EXCEPT ![id] = final]
    BY Zenon DEF VoteInbound, VoteOnBallot, GetOrCreateBallot
  <2>2. CASE id \in DOMAIN ballots
    <3>1. GetOrCreateBallot(ballots, id, new, height) = ballots
      BY <2>2 DEF GetOrCreateBallot
    <3>2. gone = {}
      BY <1>4, <2>2
    <3> HIDE DEF gone, final, voted
    <3> QED BY <2>1, <2>2, <3>1, <3>2, Zenon DEF Swept, With
  <2>3. CASE id \notin DOMAIN ballots
    <3>1. GetOrCreateBallot(ballots, id, new, height)
            = [i \in DOMAIN ballots \cup {id} |->
                  IF i = id THEN new ELSE IF i \in gone THEN Expired(ballots[i]) ELSE ballots[i]]
      BY <1>4, <2>3 DEF GetOrCreateBallot, ExpireBallotsBeforeHeight
    <3> HIDE DEF gone, final, voted, new
    <3> QED BY <1>4, <2>1, <2>3, <3>1, Zenon DEF Swept, With
  <2> QED BY <2>2, <2>3
<1>8. Mirrors(recorded, bs) /\ Covers(recorded, bs, DOMAIN utxs) /\ Dead(expiredIn, bs)
  <2>1. id \in DOMAIN ballots => old = ballots[id]
    OBVIOUS
  <2> HIDE DEF old, voted
  <2> QED BY <1>0, <1>1, <1>3, <2>1, RecordKeeps DEF InboundInv
<1> HIDE DEF old, voted, final, gone, bs, recorded
<1>9. /\ Mirrors(PendingAfter(recorded, gone), sw)
      /\ Covers(PendingAfter(recorded, gone), sw, DOMAIN utxs)
      /\ Dead(ExpiredAfter(recorded, expiredIn, gone), sw)
  BY <1>6, <1>8, SweepKeeps, Zenon
<1>10. Store(sw) /\ DOMAIN sw = DOMAIN bs /\ sw[id] = voted
  BY <1>4, <1>5, <1>6, SweptIsStore
<1>11. Steady(ballots, sw, id)
  <2>1. \A i \in BallotKeys : i # id => /\ i \in DOMAIN ballots <=> i \in DOMAIN bs
                                        /\ i \in DOMAIN bs => bs[i] = ballots[i]
    BY <1>5
  <2> QED BY <1>6, <2>1, SweepIsSteady
<1> HIDE DEF sw
<1>12. /\ DOMAIN ballots' = DOMAIN sw /\ id \in DOMAIN sw /\ ballots'[id] = final
       /\ \A i \in DOMAIN sw : i # id => ballots'[i] = sw[i]
  BY <1>5, <1>7, <1>10
<1>13. Store(ballots')
  BY <1>3, <1>10, <1>12 DEF Store
<1>14. Steady(ballots, ballots', id)
  BY <1>11, <1>12 DEF Steady
<1>15. expiredIn' = ExpiredAfter(recorded, expiredIn, gone)
  BY Zenon DEF VoteInbound, recorded, gone
<1>16. Dead(expiredIn', ballots')
  <2> SUFFICES ASSUME NEW j \in DOMAIN expiredIn', NEW c \in DOMAIN expiredIn'[j]
               PROVE  /\ j \in Keys /\ c \in Variants /\ expiredIn'[j][c] \in Entry
                      /\ expiredIn'[j][c].status = "EXPIRED"
                      /\ <<j, c>> \in DOMAIN ballots' /\ ballots'[<<j, c>>].status = "EXPIRED"
    BY Zenon DEF Dead
  <2>1. /\ j \in Keys /\ c \in Variants
        /\ expiredIn'[j][c] \in Entry /\ expiredIn'[j][c].status = "EXPIRED"
        /\ <<j, c>> \in DOMAIN sw /\ sw[<<j, c>>].status = "EXPIRED"
    BY <1>9, <1>15 DEF Dead
  <2>2. <<j, c>> # id
    BY <1>3, <1>10, <2>1
  <2> QED BY <1>12, <2>1, <2>2
<1>17. CASE final.status = "PENDING"
  <2>1. pendingIn' = PendingAfter(recorded, gone) /\ utxs' = utxs
    <3>1. ballots'[id].status = "PENDING"
      BY <1>12, <1>17
    <3> QED BY <3>1, Zenon DEF VoteInbound, recorded, gone
  <2>2. \A i \in DOMAIN sw : ballots'[i] = sw[i]
    BY <1>3, <1>10, <1>12, <1>17
  <2>3. Mirrors(pendingIn', ballots')
    <3>1. Mirrors(PendingAfter(recorded, gone), sw)
      BY <1>9
    <3> QED BY <1>12, <2>1, <2>2, <3>1, MirrorsAgree
  <2>4. Covers(pendingIn', ballots', DOMAIN utxs')
    BY <1>9, <1>12, <2>1, <2>2 DEF Covers
  <2>5. OneOutcome'
    <3>1. id \in DOMAIN ballots => ballots[id].status = "PENDING"
      BY <1>3 DEF old
    <3> QED BY <1>12, <1>14, <1>17, <2>1, <3>1, OutcomeKept DEF InboundInv
  <2> QED BY <1>0, <1>13, <1>16, <2>3, <2>4, <2>5 DEF InboundInv, Store, Mirrors, Covers, Dead
<1>18. CASE final.status = "PASSED"
  <2>1. /\ pendingIn' = Without(PendingAfter(recorded, gone), {k})
        /\ utxs' = With(utxs, k, [by |-> "vote", variant |-> b])
    <3>1. ballots'[id].status # "PENDING"
      BY <1>12, <1>18
    <3> QED BY <3>1, Zenon DEF VoteInbound, recorded, gone
  <2>2. /\ DOMAIN pendingIn' = DOMAIN PendingAfter(recorded, gone) \ {k}
        /\ \A j \in DOMAIN pendingIn' : pendingIn'[j] = PendingAfter(recorded, gone)[j]
    BY <2>1 DEF Without
  <2>3. /\ DOMAIN utxs' = DOMAIN utxs \cup {k}
        /\ utxs'[k] = [by |-> "vote", variant |-> b]
        /\ \A j \in DOMAIN utxs : j # k => utxs'[j] = utxs[j]
    BY <2>1 DEF With
  <2>4. \A j, c : j # k => <<j, c>> # id
    OBVIOUS
  <2>5. Mirrors(pendingIn', ballots')
    <3>1. Mirrors(PendingAfter(recorded, gone), sw) /\ k \notin DOMAIN pendingIn'
      BY <1>9, <2>2
    <3>2. DOMAIN pendingIn' \subseteq DOMAIN PendingAfter(recorded, gone)
      BY <2>2
    <3>3. \A j \in DOMAIN pendingIn' : \A c \in DOMAIN pendingIn'[j] :
             <<j, c>> \in DOMAIN sw => <<j, c>> \in DOMAIN ballots' /\ ballots'[<<j, c>>] = sw[<<j, c>>]
      BY <1>12, <2>4, <3>1
    <3>4. \A j \in DOMAIN pendingIn' : pendingIn'[j] = PendingAfter(recorded, gone)[j]
      BY <2>2
    <3> QED BY <3>1, <3>2, <3>3, <3>4, MirrorsAgree
  <2>6. Covers(pendingIn', ballots', DOMAIN utxs')
    BY <1>9, <1>12, <2>2, <2>3, <2>4, Zenon DEF Covers
  <2>7. OneOutcome'
    <3> SUFFICES ASSUME NEW j \in Keys, NEW c \in Variants
                 PROVE  OutcomeOf(ballots', utxs', j, c)
      BY OutcomeByVariantAfter
    <3>1. OutcomeOf(ballots, utxs, j, c)
      BY OutcomeByVariant DEF InboundInv
    <3>2. <<j, c>> \in BallotKeys
      BY DEF BallotKeys
    <3>3. CASE j = k /\ c = b
      <4>1. <<j, c>> \in DOMAIN ballots' /\ ballots'[<<j, c>>].status = "PASSED"
        BY <1>12, <1>18, <3>3
      <4>2. j \in DOMAIN utxs' /\ utxs'[j] = [by |-> "vote", variant |-> c]
        BY <2>3, <3>3
      <4> QED BY <4>1, <4>2 DEF OutcomeOf
    <3>4. CASE j = k /\ c # b
      <4>1. <<j, c>> # id
        BY <3>4
      <4>2. ~(<<j, c>> \in DOMAIN ballots /\ ballots[<<j, c>>].status = "PASSED")
        BY <1>0, <3>1, <3>4 DEF OutcomeOf
      <4>3. ~(<<j, c>> \in DOMAIN ballots' /\ ballots'[<<j, c>>].status = "PASSED")
        BY <1>14, <3>2, <4>1, <4>2 DEF Steady
      <4> QED BY <2>3, <3>4, <4>3 DEF OutcomeOf
    <3>5. CASE j # k
      <4>1. <<j, c>> # id
        BY <3>5
      <4>2. /\ <<j, c>> \in DOMAIN ballots <=> <<j, c>> \in DOMAIN ballots'
            /\ <<j, c>> \in DOMAIN ballots =>
                  \/ ballots'[<<j, c>>].status = ballots[<<j, c>>].status
                  \/ /\ ballots[<<j, c>>].status = "PENDING"
                     /\ ballots'[<<j, c>>].status = "EXPIRED"
        BY <1>14, <3>2, <4>1 DEF Steady
      <4> QED BY <2>3, <3>1, <3>5, <4>2 DEF OutcomeOf
    <3> QED BY <3>3, <3>4, <3>5
  <2> QED BY <1>0, <1>13, <1>16, <2>5, <2>6, <2>7 DEF InboundInv, Store, Mirrors, Covers, Dead
<1> QED BY <1>3, <1>17, <1>18

\* Where the stores stay, so does what is said about them.
LEMMA SameStores ==
    ASSUME InboundInv, UNCHANGED <<pendingIn, expiredIn, ballots>>
    PROVE  Store(ballots)' /\ Mirrors(pendingIn, ballots)' /\ Dead(expiredIn, ballots)'
<1>1. Store(ballots)'
  BY DEF InboundInv, Store
<1>2. Mirrors(pendingIn, ballots)'
  BY DEF InboundInv, Mirrors
<1>3. Dead(expiredIn, ballots)'
  BY Zenon DEF InboundInv, Dead
<1> QED BY <1>1, <1>2, <1>3

LEMMA RevertStep ==
    ASSUME InboundInv, NEW k \in Keys, NEW b \in Variants, RevertStuckInbound(k, b)
    PROVE  InboundInv'
<1>1. /\ <<k, b>> \in DOMAIN ballots /\ ballots[<<k, b>>].status = "EXPIRED"
      /\ k \notin DOMAIN utxs
      /\ DOMAIN utxs' = DOMAIN utxs \cup {k}
      /\ utxs'[k] = [by |-> "admin", variant |-> b]
      /\ \A j \in DOMAIN utxs : j # k => utxs'[j] = utxs[j]
      /\ pendingIn' = pendingIn /\ expiredIn' = expiredIn /\ ballots' = ballots /\ height' = height
  BY Zenon DEF RevertStuckInbound, Revertable, NoUniversalTx, With
<1>2. Covers(pendingIn, ballots, DOMAIN utxs)'
  BY <1>1 DEF Covers, InboundInv
<1>3. OneOutcome'
  <2> SUFFICES ASSUME NEW j \in Keys, NEW c \in Variants
               PROVE  OutcomeOf(ballots, utxs', j, c)
    BY <1>1, OutcomeByVariantAfter
  <2>1. OutcomeOf(ballots, utxs, j, c)
    BY OutcomeByVariant DEF InboundInv
  <2>2. CASE j = k
    BY <1>1, <2>1, <2>2 DEF OutcomeOf
  <2>3. CASE j # k
    BY <1>1, <2>1, <2>3 DEF OutcomeOf
  <2> QED BY <2>2, <2>3
<1> QED BY <1>1, <1>2, <1>3, SameStores, Zenon DEF InboundInv

LEMMA InboundInvInit ==
    ASSUME Init PROVE InboundInv
BY DEF Init, InboundInv, EmptyMap, Store, Mirrors, Covers, Dead, OneOutcome

LEMMA InboundInvStep ==
    ASSUME InboundInv, [Next]_vars PROVE InboundInv'
<1>1. ASSUME UNCHANGED <<pendingIn, expiredIn, ballots, utxs>>, height' \in Nat
      PROVE  InboundInv'
  <2>1. Store(ballots)' /\ Mirrors(pendingIn, ballots)' /\ Dead(expiredIn, ballots)'
    BY <1>1, SameStores
  <2>2. Covers(pendingIn, ballots, DOMAIN utxs)'
    BY <1>1 DEF InboundInv, Covers
  <2>3. OneOutcome'
    <3>1. \A k \in Keys, b \in Variants : OutcomeOf(ballots, utxs, k, b)
      BY OutcomeByVariant DEF InboundInv
    <3> QED BY <1>1, <3>1, OutcomeByVariantAfter
  <2> QED BY <1>1, <2>1, <2>2, <2>3 DEF InboundInv
<1>2. CASE NextBlock
  BY <1>1, <1>2 DEF NextBlock, InboundInv
<1>3. CASE UNCHANGED vars
  BY <1>1, <1>3 DEF vars, InboundInv
<1> QED BY <1>2, <1>3, OpenStep, RecomputeStep, VoteStep, RevertStep DEF Next

Births == [by : {"vote", "admin"}, variant : Variants]

UtxsTyped == \A k \in DOMAIN utxs : k \in Keys /\ utxs[k] \in Births

LEMMA UtxsKeepTypes == Spec => []UtxsTyped
<1>1. Init => UtxsTyped
  BY DEF Init, EmptyMap, UtxsTyped
<1>2. UtxsTyped /\ [Next]_vars => UtxsTyped'
  <2> SUFFICES ASSUME UtxsTyped, [Next]_vars PROVE UtxsTyped'
    OBVIOUS
  <2>1. ASSUME NEW k \in Keys, NEW u \in Births, utxs' = With(utxs, k, u) PROVE UtxsTyped'
    <3>1. /\ DOMAIN utxs' = DOMAIN utxs \cup {k} /\ utxs'[k] = u
          /\ \A j \in DOMAIN utxs : j # k => utxs'[j] = utxs[j]
      BY <2>1 DEF With
    <3> QED BY <3>1 DEF UtxsTyped
  <2>2. CASE utxs' = utxs
    BY <2>2 DEF UtxsTyped
  <2>3. ASSUME NEW v \in Validators, NEW k \in Keys, NEW b \in Variants, NEW on, NEW eligible,
               VoteInbound(v, k, b, on, eligible)
        PROVE  UtxsTyped'
    <3>1. utxs' = utxs \/ utxs' = With(utxs, k, [by |-> "vote", variant |-> b])
      BY <2>3, Zenon DEF VoteInbound
    <3>2. [by |-> "vote", variant |-> b] \in Births
      BY DEF Births
    <3> QED BY <2>1, <2>2, <3>1, <3>2
  <2>4. ASSUME NEW k \in Keys, NEW b \in Variants, RevertStuckInbound(k, b) PROVE UtxsTyped'
    <3>1. [by |-> "admin", variant |-> b] \in Births
      BY DEF Births
    <3> QED BY <2>1, <2>4, <3>1 DEF RevertStuckInbound
  <2>5. CASE OpenOtherBallot \/ NextBlock \/ UNCHANGED vars
    BY <2>2, <2>5 DEF OpenOtherBallot, NextBlock, vars
  <2>6. ASSUME NEW id, NEW eligible, RecomputeInboundBallot(id, eligible) PROVE UtxsTyped'
    BY <2>2, <2>6 DEF RecomputeInboundBallot
  <2> QED BY <2>3, <2>4, <2>5, <2>6 DEF Next
<1> QED BY <1>1, <1>2, PTL DEF Spec

\* TypeOK: ballots, audit trails and universal transactions keep their shapes; the
\* entries name keys, variants and validators only.
THEOREM InboundTypes == Spec => []TypeOK
<1>1. InboundInv /\ UtxsTyped => TypeOK
  <2> SUFFICES ASSUME InboundInv, UtxsTyped PROVE TypeOK
    OBVIOUS
  <2>1. EntriesOK(pendingIn)
    BY Zenon DEF InboundInv, Mirrors, Entry, EntriesOK, BallotStatuses
  <2>2. EntriesOK(expiredIn)
    BY Zenon DEF InboundInv, Dead, Entry, EntriesOK, BallotStatuses
  <2> QED BY <2>1, <2>2 DEF InboundInv, Store, Sound, TypeOK, UtxsTyped, Births
<1> QED BY <1>1, UtxsKeepTypes, InboundInvInit, InboundInvStep, PTL DEF Spec

\* VoteInbound and RevertStuckInbound, for any number of variants of an event: at most one
\* ballot of a key passes, only the key's first UTX decides, and it never changes.
THEOREM OneOutcomePerEvent == Spec => []OneOutcome
<1>1. InboundInv => OneOutcome
  BY DEF InboundInv
<1> QED BY <1>1, InboundInvInit, InboundInvStep, PTL DEF Spec

\* RecordInboundVote, AfterBallotTerminal and RemovePendingInbound keep PendingInbounds in
\* step with the ballots of x/uvalidator under every order of votes, sweeps and
\* recomputations.
THEOREM PendingInboundsMirrorBallots == Spec => []PendingMirrorsBallots
<1>1. InboundInv => PendingMirrorsBallots
  <2> SUFFICES ASSUME InboundInv PROVE PendingMirrorsBallots
    OBVIOUS
  <2>1. ASSUME NEW id \in DOMAIN ballots, ballots[id].status = "PENDING",
               id[1] \notin DOMAIN utxs
        PROVE  id[1] \in DOMAIN pendingIn /\ id[2] \in DOMAIN pendingIn[id[1]]
    <3>1. PICK k \in Keys, b \in Variants : id = <<k, b>>
      <4>1. id \in BallotKeys
        BY DEF InboundInv, Store
      <4> QED BY <4>1 DEF BallotKeys
    <3> QED BY <2>1, <3>1 DEF InboundInv, Covers
  <2>2. ASSUME NEW k \in DOMAIN pendingIn
        PROVE  /\ \A b \in DOMAIN pendingIn[k] :
                     /\ <<k, b>> \in DOMAIN ballots
                     /\ pendingIn[k][b].status = ballots[<<k, b>>].status
                     /\ YesVoters(ballots[<<k, b>>]) \subseteq pendingIn[k][b].voters
               /\ \E b \in DOMAIN pendingIn[k] : pendingIn[k][b].status = "PENDING"
    BY DEF InboundInv, Mirrors
  <2> QED BY <2>1, <2>2 DEF PendingMirrorsBallots
<1> QED BY <1>1, InboundInvInit, InboundInvStep, PTL DEF Spec

\* The terminal hook moves an entry to ExpiredInbounds only when every variant's ballot is
\* dead, and no ballot comes back to life.
THEOREM ExpiredInboundsAreDead == Spec => []ExpiredIsTerminal
<1>1. InboundInv => ExpiredIsTerminal
  BY Zenon DEF InboundInv, Dead, ExpiredIsTerminal
<1> QED BY <1>1, InboundInvInit, InboundInvStep, PTL DEF Spec
-----------------------------------------------------------------------------
(***************************************************************************)
(* VoteClient: what the listener leaves behind, when the client votes, and *)
(* what a completed row stands for.                                        *)
(***************************************************************************)
\* What the arithmetic of the listener and the confirmer needs to know.
Numbers ==
    /\ EnvironmentOK(env)
    /\ head \in Nat /\ saved \in Nat /\ cursor \in Nat /\ scan \in Nat

\* NothingSkipped with the poll under way: its range is not past an event that is
\* not stored.
NothingSkippedInv ==
    /\ Numbers
    /\ ~env.misses /\ env.start = "config" /\ row = "ABSENT"
          => cursor <= EventBlock /\ saved < EventBlock /\ scan < EventBlock

LEMMA HeadsAreNumbers ==
    ASSUME Numbers
    PROVE  /\ Heads \subseteq Nat
           /\ \A latest \in Heads : latest <= head /\ latest + env.lag >= head
BY DEF Numbers, Heads, Biggest, EnvironmentOK

LEMMA NumbersInit ==
    ASSUME ClientInit PROVE Numbers
BY VoteClientAssumption DEF ClientInit, Numbers, StartBlock

LEMMA NumbersStep ==
    ASSUME Numbers, [ClientNext]_all PROVE Numbers'
<1> USE DEF Numbers
<1>1. ASSUME NEW latest \in Heads, NEW missed \in BOOLEAN, ScanRange(latest, missed)
      PROVE  Numbers'
  BY <1>1, HeadsAreNumbers DEF ScanRange, world
<1>2. ASSUME FinishScan \/ FinishScanUnsaved \/ AbortScan PROVE Numbers'
  BY <1>2 DEF FinishScan, FinishScanUnsaved, AbortScan, Fault, Biggest, world
<1>3. ASSUME NEW latest \in Heads, ProcessPending(latest) \/ Restart(latest) PROVE Numbers'
  BY <1>3, HeadsAreNumbers DEF ProcessPending, Restart, StartBlock, Fault, world
<1>4. ASSUME CleanRow \/ ProcessInboundEvent \/ VoteChainMeta \/ SignAndBroadcast
             \/ VoteFound \/ VoteFoundUnsaved \/ VoteTimeout PROVE Numbers'
  BY <1>4 DEF CleanRow, ProcessInboundEvent, VoteChainMeta, SignAndBroadcast, VoteFound,
              VoteFoundUnsaved, VoteTimeout, Fault, world
<1>5. ASSUME MineSource \/ ExecuteOldest \/ LosePool PROVE Numbers'
  BY <1>5 DEF MineSource, ExecuteOldest, LosePool, Fault, world, client
<1>6. ASSUME NEW v \in Validators, NEW b \in Variants, OthersVote(v, b) PROVE Numbers'
  BY <1>6, Zenon DEF OthersVote, world, client
<1>7. CASE UNCHANGED all
  BY <1>7 DEF all, world, client
<1> QED BY <1>1, <1>2, <1>3, <1>4, <1>5, <1>6, <1>7 DEF ClientNext, Listen

\* The listener (processNewBlocks, processBlockRange, getStartBlock) under any crashes
\* and failed polls.
THEOREM ListenerSkipsNothing == ClientSpec => []NothingSkipped
<1>1. ClientInit => NothingSkippedInv
  BY NumbersInit, VoteClientAssumption DEF ClientInit, NothingSkippedInv, StartBlock
<1>2. NothingSkippedInv /\ [ClientNext]_all => NothingSkippedInv'
  <2> SUFFICES ASSUME NothingSkippedInv, [ClientNext]_all PROVE NothingSkippedInv'
    OBVIOUS
  <2>0. Numbers' /\ Numbers /\ EventBlock \in Nat \ {0}
    BY NumbersStep, VoteClientAssumption DEF NothingSkippedInv
  <2> USE DEF NothingSkippedInv, Numbers
  <2>1. ASSUME NEW latest \in Heads, NEW missed \in BOOLEAN, ScanRange(latest, missed)
        PROVE  NothingSkippedInv'
    BY <2>0, <2>1, HeadsAreNumbers DEF ScanRange, world
  <2>2. ASSUME FinishScan \/ FinishScanUnsaved \/ AbortScan PROVE NothingSkippedInv'
    BY <2>0, <2>2 DEF FinishScan, FinishScanUnsaved, AbortScan, Biggest, world
  <2>3. ASSUME NEW latest \in Heads, ProcessPending(latest) \/ Restart(latest)
        PROVE  NothingSkippedInv'
    BY <2>0, <2>3, HeadsAreNumbers DEF ProcessPending, Restart, StartBlock, world
  <2>4. ASSUME CleanRow \/ ProcessInboundEvent \/ VoteChainMeta \/ SignAndBroadcast
               \/ VoteFound \/ VoteFoundUnsaved \/ VoteTimeout PROVE NothingSkippedInv'
    BY <2>0, <2>4 DEF CleanRow, ProcessInboundEvent, VoteChainMeta, SignAndBroadcast,
                      VoteFound, VoteFoundUnsaved, VoteTimeout, world
  <2>5. ASSUME MineSource \/ ExecuteOldest \/ LosePool PROVE NothingSkippedInv'
    BY <2>0, <2>5 DEF MineSource, ExecuteOldest, LosePool, world, client
  <2>6. ASSUME NEW v \in Validators, NEW b \in Variants, OthersVote(v, b)
        PROVE  NothingSkippedInv'
    BY <2>0, <2>6 DEF OthersVote, world, client
  <2>7. CASE UNCHANGED all
    BY <2>0, <2>7 DEF all, world, client
  <2> QED BY <2>1, <2>2, <2>3, <2>4, <2>5, <2>6, <2>7 DEF ClientNext, Listen
<1>3. NothingSkippedInv => NothingSkipped
  BY DEF NothingSkippedInv, NothingSkipped
<1> QED BY <1>1, <1>2, <1>3, PTL DEF ClientSpec
-----------------------------------------------------------------------------
Deep == ~env.failed /\ (env.lag < 2 => head - EventBlock + 1 >= Required)

\* Self's vote on the event's ballot.
Id == <<Event, Truth>>

\* What a steady period guarantees of the event's ballot: it lists every validator, it
\* does not run out, and it is open until there is a UTX.  Its votes are positive.
SteadyBallot ==
    /\ height = 0
    /\ Id \in DOMAIN ballots =>
          /\ ballots[Id].voters = Validators
          /\ ballots[Id].expiry \in Nat \ {0}
          /\ ballots[Id].status = "PENDING" \/ Event \in DOMAIN utxs
          /\ ballots[Id].votes \in [Validators -> {NotYet, "SUCCESS"}]

Settled == Counted \/ Event \in DOMAIN utxs

\* A vote, of whoever, on whichever ballot of the event, leaves the steady ballot
\* steady and takes nobody's vote away.
LEMMA VoteKeepsBallot ==
    ASSUME NEW v \in Validators, NEW b \in Variants, SteadyBallot, SteadyVote(v, Event, b)
    PROVE  /\ SteadyBallot'
           /\ Counted => Counted'
           /\ v # Self /\ Counted' => Counted
           /\ v = Self /\ b = Truth => Counted'
           /\ DOMAIN utxs \subseteq DOMAIN utxs'
<1> DEFINE id == <<Event, b>>
           new == InboundBallot(Validators)
           got == GetOrCreateBallot(ballots, id, new, height)
           voted == AddVote(got[id], v, "SUCCESS")
           final == [voted EXCEPT !.status = IsFinalizingVote(voted)]
<1>1. /\ ballots' = [got EXCEPT ![id] = final] /\ height' = height /\ height = 0
      /\ b = Truth => CanAddVote(got[id], v)
  BY DEF SteadyVote, VoteInbound, VoteOnBallot, VoteAccepted, SteadyBallot
<1>2. /\ \/ final.status = "PENDING" /\ utxs' = utxs
         \/ final.status # "PENDING" /\ utxs' = With(utxs, Event, [by |-> "vote", variant |-> b])
  <2>1. ballots'[id] = final
    BY <1>1 DEF GetOrCreateBallot
  <2> QED BY <2>1, Zenon DEF SteadyVote, VoteInbound, VoteOnBallot
<1>3. DOMAIN utxs \subseteq DOMAIN utxs' /\ (final.status # "PENDING" => Event \in DOMAIN utxs')
  BY <1>2 DEF With
<1>4. /\ DOMAIN got = DOMAIN ballots \cup {id}
      /\ Id \in DOMAIN ballots => got[Id] = ballots[Id]
      /\ b = Truth /\ Id \notin DOMAIN ballots => got[Id] = new
  <2>1. Id \in DOMAIN ballots => Id \notin Stale(ballots, height)
    <3> SUFFICES ASSUME Id \in DOMAIN ballots PROVE Id \notin Stale(ballots, height)
      OBVIOUS
    <3>1. ballots[Id].expiry \in Nat \ {0} /\ height = 0
      BY DEF SteadyBallot
    <3>2. ~IsExpired(ballots[Id], height)
      BY <3>1 DEF IsExpired
    <3> QED BY <3>2 DEF Stale
  <2>2. \A i \in DOMAIN ballots : i \notin Stale(ballots, height)
          => ExpireBallotsBeforeHeight(ballots, height)[i] = ballots[i]
    BY DEF ExpireBallotsBeforeHeight
  <2> QED BY <2>1, <2>2 DEF GetOrCreateBallot, Id
<1>5. /\ new.voters = Validators /\ new.expiry \in Nat \ {0} /\ new.status = "PENDING"
      /\ new.votes = [w \in Validators |-> NotYet]
  BY <1>1, InBoundsAssumption DEF InboundBallot, NewBallot
<1>6. CASE b # Truth
  <2>1. Id # id
    BY <1>6 DEF Id
  <2>2. (Id \in DOMAIN ballots' <=> Id \in DOMAIN ballots)
        /\ (Id \in DOMAIN ballots => ballots'[Id] = ballots[Id])
    BY <1>1, <1>4, <2>1
  <2> QED BY <1>1, <1>3, <1>6, <2>2 DEF SteadyBallot, Counted, YesVoters, Id
<1>7. CASE b = Truth
  <2>1. id = Id /\ Id \in DOMAIN ballots' /\ ballots'[Id] = final
    BY <1>1, <1>4, <1>7 DEF Id
  <2>2. /\ got[Id].voters = Validators /\ got[Id].expiry \in Nat \ {0}
        /\ got[Id].votes \in [Validators -> {NotYet, "SUCCESS"}]
    BY <1>4, <1>5, <1>7, Zenon DEF SteadyBallot
  <2>3. /\ final.voters = got[Id].voters /\ final.expiry = got[Id].expiry
        /\ final.votes = [got[Id].votes EXCEPT ![v] = "SUCCESS"]
    BY <1>4, <1>5, <1>7, <2>1 DEF AddVote
  <2>4. SteadyBallot'
    <3>1. final.votes \in [Validators -> {NotYet, "SUCCESS"}]
      BY <2>2, <2>3
    <3> HIDE DEF final, got, new, voted
    <3>2. height' = 0
      BY <1>1
    <3> QED BY <1>3, <2>1, <2>2, <2>3, <3>1, <3>2, Zenon DEF SteadyBallot, Id
  <2>5. Self \in Validators /\ NotYet # "SUCCESS"
    BY VoteClientAssumption DEF NotYet
  <2>6. Counted' <=> final.votes[Self] = "SUCCESS"
    BY <2>1, <2>2, <2>3, <2>5 DEF Counted, YesVoters, Id
  <2>7. Counted <=> got[Id].votes[Self] = "SUCCESS"
    BY <1>4, <1>5, <1>7, <2>2, <2>5, Zenon DEF Counted, YesVoters, Id, SteadyBallot
  <2> QED BY <1>3, <1>7, <2>2, <2>3, <2>4, <2>5, <2>6, <2>7
<1> QED BY <1>6, <1>7, Zenon

\* In a steady period the chain rejects Self's vote only when it is not needed.
LEMMA RejectedIsSettled ==
    ASSUME SteadyBallot, ~VoteCounts PROVE Settled
<1>1. Self \in Validators
  BY VoteClientAssumption
<1>2. CASE Event \in DOMAIN utxs
  BY <1>2 DEF Settled
<1>3. CASE Event \notin DOMAIN utxs /\ Id \in DOMAIN ballots
  <2>1. GetOrCreateBallot(ballots, Id, InboundBallot(Validators), height) = ballots
    BY <1>3 DEF GetOrCreateBallot
  <2>2. ~IsExpired(ballots[Id], height)
    BY <1>3 DEF SteadyBallot, IsExpired
  <2>3. HasVoted(ballots[Id], Self)
    BY <1>1, <1>3, <2>1, <2>2, Zenon DEF VoteCounts, NoUniversalTx, VoteAccepted, CanAddVote, SteadyBallot, Id
  <2>4. ballots[Id].votes[Self] = "SUCCESS"
    BY <1>1, <1>3, <2>3 DEF HasVoted, SteadyBallot
  <2> QED BY <1>1, <1>3, <2>4 DEF Settled, Counted, YesVoters, SteadyBallot, Id
<1>4. CASE Event \notin DOMAIN utxs /\ Id \notin DOMAIN ballots
  <2> DEFINE new == InboundBallot(Validators)
  <2>1. GetOrCreateBallot(ballots, Id, new, height)[Id] = new
    BY <1>4 DEF GetOrCreateBallot
  <2>2. ~IsExpired(new, height) /\ CanAddVote(new, Self)
    <3>1. /\ new.voters = Validators /\ new.expiry \in Nat \ {0} /\ new.status = "PENDING"
          /\ new.votes = [w \in Validators |-> NotYet] /\ height = 0
      BY <1>1, InBoundsAssumption, SMTT(20) DEF InboundBallot, NewBallot, SteadyBallot
    <3> HIDE DEF new
    <3> QED BY <1>1, <3>1 DEF IsExpired, CanAddVote, HasVoted
  <2> QED BY <1>4, <2>1, <2>2, Zenon DEF VoteCounts, NoUniversalTx, VoteAccepted, Id
<1> QED BY <1>2, <1>3, <1>4
-----------------------------------------------------------------------------
Tags == {"awaited", "abandoned", "meta"}

\* Before the event is deep enough the client has done nothing about it on Push Chain.
Silent ==
    /\ row \notin {"CONFIRMED", "COMPLETED"}
    /\ call.vote # "inbound"
    /\ await = "nothing"
    /\ \A i \in DOMAIN pool : pool[i] = "meta"
    /\ ~Counted

ClientInv ==
    /\ Numbers
    /\ SteadyBallot
    /\ pool \in Seq(Tags)
    /\ call \in [vote : {"none", "inbound", "meta"}, attempt : Nat]
    /\ ~Deep => Silent
    /\ row = "COMPLETED" \/ await = "included" => Settled

\* The confirmer counts right while `latest' is at most one block behind the event's.
LEMMA ConfirmedIsDeep ==
    ASSUME Numbers, NEW latest \in Heads, head >= EventBlock, ~env.failed,
           Confirmations(latest) >= Required
    PROVE  Deep
<1>1. SUFFICES ASSUME env.lag < 2 PROVE head - EventBlock + 1 >= Required
  BY DEF Deep
<1> DEFINE n == latest - EventBlock + 1
<1>2. n \in Nat /\ n <= head - EventBlock + 1 /\ env.lag \in Nat
  BY <1>1, HeadsAreNumbers, VoteClientAssumption DEF Numbers, EnvironmentOK
<1>3. n % WordSize <= n /\ n % WordSize \in Nat
  <2> HIDE DEF n
  <2>1. WordSize \in Nat \ {0}
    BY VoteClientAssumption
  <2>2. n = WordSize * (n \div WordSize) + (n % WordSize) /\ n % WordSize \in 0 .. (WordSize - 1)
        /\ n \div WordSize \in Int
    BY <1>2, <2>1, SMTT(30)
  <2> QED BY <1>2, <2>1, <2>2, SMTT(30)
<1> QED BY <1>2, <1>3, VoteClientAssumption DEF Confirmations, Numbers

LEMMA AbandonKeepsTags ==
    ASSUME NEW p \in Seq(Tags)
    PROVE  /\ Abandon(p) \in Seq(Tags)
           /\ (\A i \in DOMAIN p : p[i] = "meta") => \A i \in DOMAIN Abandon(p) : Abandon(p)[i] = "meta"
<1>1. DOMAIN p = 1 .. Len(p) /\ Len(p) \in Nat /\ \A i \in 1 .. Len(p) : p[i] \in Tags
  OBVIOUS
<1>2. Abandon(p) = [i \in 1 .. Len(p) |-> IF p[i] = "awaited" THEN "abandoned" ELSE p[i]]
  BY <1>1 DEF Abandon
<1>3. \A i \in 1 .. Len(p) : (IF p[i] = "awaited" THEN "abandoned" ELSE p[i]) \in Tags
  BY <1>1 DEF Tags
<1> QED BY <1>1, <1>2, <1>3

\* Steps that leave ballots and UTXs alone leave what is said about them.
LEMMA ChainUnchanged ==
    ASSUME UNCHANGED vars
    PROVE  /\ SteadyBallot' <=> SteadyBallot
           /\ Counted' <=> Counted
           /\ Settled' <=> Settled
BY Zenon DEF vars, SteadyBallot, Counted, Settled, YesVoters

LEMMA DepthGrows ==
    ASSUME NEW h \in Nat, NEW g \in Nat, NEW e \in Nat, NEW r \in Nat, g >= h, h - e + 1 >= r
    PROVE  g - e + 1 >= r
OBVIOUS

\* What has to be shown of a step of the client's own: the chain stands still.
LEMMA ClientFrame ==
    ASSUME ClientInv, Numbers', UNCHANGED <<vars, env, head>>, pool' \in Seq(Tags),
           call' \in [vote : {"none", "inbound", "meta"}, attempt : Nat],
           ~Deep => /\ row' \notin {"CONFIRMED", "COMPLETED"} /\ call'.vote # "inbound"
                    /\ await' = "nothing" /\ \A i \in DOMAIN pool' : pool'[i] = "meta",
           row' = "COMPLETED" \/ await' = "included" => Settled
    PROVE  ClientInv'
<1>1. Deep' <=> Deep
  BY DEF Deep
<1>2. SteadyBallot' /\ (Counted' <=> Counted) /\ (Settled' <=> Settled)
  BY ChainUnchanged DEF ClientInv
<1>3. ~Deep' => Silent'
  BY <1>1, <1>2 DEF ClientInv, Silent
<1> QED BY <1>2, <1>3 DEF ClientInv

\* A restart and a timeout: nothing is awaited any more.
LEMMA AbandonKeeps ==
    ASSUME ClientInv, Numbers', UNCHANGED <<vars, env, head, row>>, await' = "nothing",
           pool' = Abandon(pool), call' \in {call, Free}
    PROVE  ClientInv'
<1>1. pool \in Seq(Tags) /\ (~Deep => Silent) /\ (row = "COMPLETED" => Settled)
  BY DEF ClientInv
<1>2. /\ pool' \in Seq(Tags)
      /\ (\A i \in DOMAIN pool : pool[i] = "meta") => \A i \in DOMAIN pool' : pool'[i] = "meta"
  BY <1>1, AbandonKeepsTags
<1>3. /\ call' \in [vote : {"none", "inbound", "meta"}, attempt : Nat]
      /\ call.vote # "inbound" => call'.vote # "inbound"
  BY DEF ClientInv, Free
<1>4. ~Deep => /\ row' \notin {"CONFIRMED", "COMPLETED"} /\ call'.vote # "inbound"
               /\ \A i \in DOMAIN pool' : pool'[i] = "meta"
  BY <1>1, <1>2, <1>3 DEF Silent
<1> QED BY <1>1, <1>2, <1>3, <1>4, ClientFrame

LEMMA ClientStep ==
    ASSUME ClientInv, [ClientNext]_all PROVE ClientInv'
<1>0. Numbers' /\ Numbers
  BY NumbersStep DEF ClientInv
<1>1. ASSUME env' = env, head' >= head PROVE Deep => Deep'
  <2>1. head - EventBlock + 1 >= Required => head' - EventBlock + 1 >= Required
    <3>1. EventBlock \in Nat /\ Required \in Nat
      BY VoteClientAssumption
    <3>2. head \in Nat /\ head' \in Nat /\ head' >= head
      BY <1>0, <1>1 DEF Numbers
    <3> QED BY <3>1, <3>2, DepthGrows, Zenon
  <2> QED BY <1>1, <2>1 DEF Deep
<1>2. ASSUME NEW latest \in Heads, NEW missed \in BOOLEAN, ScanRange(latest, missed)
      PROVE  ClientInv'
  BY <1>0, <1>1, <1>2, ChainUnchanged DEF ScanRange, ClientInv, Silent, Deep, world, push
<1>3. ASSUME FinishScan \/ FinishScanUnsaved \/ AbortScan PROVE ClientInv'
  BY <1>0, <1>3, ChainUnchanged
     DEF FinishScan, FinishScanUnsaved, AbortScan, ClientInv, Silent, Deep, world, push
<1>4. ASSUME NEW latest \in Heads, ProcessPending(latest) PROVE ClientInv'
  <2>1. CASE env.failed
    BY <1>0, <1>4, <2>1, ChainUnchanged
       DEF ProcessPending, ClientInv, Silent, Deep, world, push
  <2>2. CASE ~env.failed
    <3>1. Deep
      BY <1>0, <1>4, <2>2, ConfirmedIsDeep DEF ProcessPending
    <3> QED BY <1>0, <1>4, <2>2, <3>1, ChainUnchanged
               DEF ProcessPending, ClientInv, Deep, world, push
  <2> QED BY <2>1, <2>2
<1>5. ASSUME NEW latest \in Heads, Restart(latest) PROVE ClientInv'
  BY <1>0, <1>5, AbandonKeeps DEF Restart
<1>6. ASSUME CleanRow \/ ProcessInboundEvent \/ VoteChainMeta PROVE ClientInv'
  BY SMTT(20), <1>0, <1>6, ChainUnchanged
     DEF CleanRow, ProcessInboundEvent, VoteChainMeta, Free, ClientInv, Silent, Deep, world, push
<1>7. ASSUME SignAndBroadcast PROVE ClientInv'
  <2>0. UNCHANGED <<vars, env, head, row>> /\ (Accepted \/ Mismatch \/ Refused \/ AnswerLost)
    BY <1>7 DEF SignAndBroadcast
  <2>1. /\ pool' \in Seq(Tags)
        /\ call.vote # "inbound" /\ (\A i \in DOMAIN pool : pool[i] = "meta")
              => \A i \in DOMAIN pool' : pool'[i] = "meta"
    <3>1. pool' = pool \/ \E t \in Tags : pool' = Append(pool, t)
                                        /\ (call.vote # "inbound" => t = "meta")
      BY <2>0 DEF Accepted, Mismatch, Refused, AnswerLost, Admitted, Tags
    <3>2. pool \in Seq(Tags)
      BY DEF ClientInv
    <3> QED BY <3>1, <3>2
  <2>2. /\ call' \in [vote : {"none", "inbound", "meta"}, attempt : Nat]
        /\ call.vote # "inbound" => call'.vote # "inbound" /\ await' = await
    BY <2>0 DEF Accepted, Mismatch, Refused, AnswerLost, Free, ClientInv
  <2>3. await' = "included" => await = "included"
    BY <2>0 DEF Accepted, Mismatch, Refused, AnswerLost
  <2> QED BY <1>0, <2>0, <2>1, <2>2, <2>3, ChainUnchanged DEF ClientInv, Silent, Deep
<1>8. ASSUME VoteFound \/ VoteFoundUnsaved \/ VoteTimeout PROVE ClientInv'
  <2>1. CASE VoteFound \/ VoteFoundUnsaved
    <3>1. /\ UNCHANGED <<vars, env, head, pool, call>> /\ row' \in {row, "COMPLETED"}
          /\ await = "included" /\ await' = "nothing"
      BY <2>1 DEF VoteFound, VoteFoundUnsaved, world, push
    <3>2. Deep /\ Settled
      BY <3>1 DEF ClientInv, Silent
    <3>3. pool' \in Seq(Tags) /\ call' \in [vote : {"none", "inbound", "meta"}, attempt : Nat]
      BY <3>1 DEF ClientInv
    <3> QED BY <1>0, <3>1, <3>2, <3>3, ClientFrame
  <2>2. CASE VoteTimeout
    BY <1>0, <2>2, AbandonKeeps DEF VoteTimeout
  <2> QED BY <1>8, <2>1, <2>2
<1>9. ASSUME MineSource PROVE ClientInv'
  BY <1>0, <1>1, <1>9, ChainUnchanged DEF MineSource, ClientInv, Silent, client, push, Numbers
<1>10. ASSUME LosePool PROVE ClientInv'
  BY <1>0, <1>10, ChainUnchanged DEF LosePool, ClientInv, Silent, Deep, Tags
<1>11. ASSUME ExecuteOldest PROVE ClientInv'
  <2>0. pool \in Seq(Tags) /\ pool # <<>> /\ UNCHANGED <<env, head, row, call>> /\ SteadyBallot
    BY <1>11 DEF ExecuteOldest, ClientInv, world
  <2>1. /\ pool' \in Seq(Tags)
        /\ (\A i \in DOMAIN pool : pool[i] = "meta")
              => Head(pool) = "meta" /\ \A i \in DOMAIN pool' : pool'[i] = "meta"
    BY <1>11, <2>0 DEF ExecuteOldest
  <2>2. CASE Head(pool) # "meta" /\ VoteCounts
    <3>1. SteadyVote(Self, Event, Truth)
      BY <1>11, <2>2 DEF ExecuteOldest
    <3>2. SteadyBallot' /\ Counted'
      BY <2>0, <3>1, VoteKeepsBallot, VoteClientAssumption
    <3>3. Deep
      BY <2>1, <2>2 DEF ClientInv, Silent
    <3> QED BY <1>0, <2>0, <2>1, <3>2, <3>3 DEF ClientInv, Deep, Settled
  <2>3. CASE ~(Head(pool) # "meta" /\ VoteCounts)
    <3>1. UNCHANGED vars
      BY <1>11, <2>3 DEF ExecuteOldest
    <3>2. Head(pool) # "meta" => Settled
      BY <2>0, <2>3, RejectedIsSettled
    <3>3. await' = IF Head(pool) = "awaited" THEN "included" ELSE await
      BY <1>11 DEF ExecuteOldest
    <3> QED BY <1>0, <2>0, <2>1, <3>1, <3>2, <3>3, ChainUnchanged DEF ClientInv, Silent, Deep
  <2> QED BY <2>2, <2>3
<1>12. ASSUME NEW v \in Validators, NEW b \in Variants, OthersVote(v, b) PROVE ClientInv'
  <2>1. v # Self /\ SteadyVote(v, Event, b) /\ UNCHANGED <<client, push, world>> /\ SteadyBallot
    BY <1>12 DEF OthersVote, ClientInv
  <2>2. /\ SteadyBallot' /\ (Counted' <=> Counted) /\ (Settled => Settled')
    BY <2>1, VoteKeepsBallot, Zenon DEF Settled
  <2> QED BY <1>0, <2>1, <2>2 DEF ClientInv, Silent, Deep, client, push, world
<1>13. CASE UNCHANGED all
  BY <1>0, <1>13, ChainUnchanged DEF all, client, push, world, ClientInv, Silent, Deep
<1> QED BY <1>2, <1>3, <1>4, <1>5, <1>6, <1>7, <1>8, <1>9, <1>10, <1>11, <1>12, <1>13
        DEF ClientNext, Listen

LEMMA ClientInvariant == ClientSpec => []ClientInv
<1>1. ClientInit => ClientInv
  <2> SUFFICES ASSUME ClientInit PROVE ClientInv
    OBVIOUS
  <2>1. Numbers /\ pool = <<>>
    BY NumbersInit DEF ClientInit
  <2>2. DOMAIN ballots = {} /\ height = 0
    BY DEF ClientInit, Init, EmptyMap
  <2>3. row = "ABSENT" /\ await = "nothing" /\ call = Free
    BY DEF ClientInit
  <2>4. SteadyBallot /\ ~Counted
    BY <2>2 DEF SteadyBallot, Counted, Id
  <2>5. Silent
    BY <2>1, <2>3, <2>4 DEF Silent, Free
  <2>6. pool \in Seq(Tags) /\ call \in [vote : {"none", "inbound", "meta"}, attempt : Nat]
    BY <2>1, <2>3 DEF Free, Tags
  <2> QED BY <2>1, <2>3, <2>4, <2>5, <2>6 DEF ClientInv
<1> QED BY <1>1, ClientStep, PTL DEF ClientSpec

\* The confirmers and the processor: never a vote on a failed transaction or before the
\* confirmations, with endpoints at most one block apart.
THEOREM ClientVotesAfterConfirmation == ClientSpec => []VotesAfterConfirmation
<1>1. ClientInv => VotesAfterConfirmation
  BY DEF ClientInv, Silent, Deep, VotesAfterConfirmation
<1> QED BY <1>1, ClientInvariant, PTL

\* processInboundEvent and waitForTxConfirmation: a completed row's vote counts or is
\* not needed, whatever was lost, retried or executed late.
THEOREM CompletedMeansCounted == ClientSpec => []CompletedCounted
<1>1. ClientInv => CompletedCounted
  BY DEF ClientInv, Settled, CompletedCounted
<1> QED BY <1>1, ClientInvariant, PTL
=============================================================================
