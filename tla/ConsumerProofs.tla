--------------------------- MODULE ConsumerProofs ---------------------------
(***************************************************************************)
(* Proofs about the three parts of the fixed-topology consumer, for any    *)
(* values of their constants that ConsumerAssumption admits.               *)
(*                                                                         *)
(* FixedTopology: a handle's stamp and the contents its rows were found in *)
(* are those of one scene, so they agree unless that scene was torn; what  *)
(* a poll passed stays true of the live world until an edit of that world; *)
(* and the domain reported by MovedDomain tells the three outcomes of the  *)
(* comparison apart, in a frozen world and in one whose geometry moves.    *)
(*                                                                         *)
(* WidebandGrid: a frequency of the range is moved by its launch at most   *)
(* half a unit of the float format, and the frequencies of an admitted     *)
(* grid are a unit apart, so two of them meet only when both move by half. *)
(*                                                                         *)
(* SlotReplay: the row t*K + r of a tiled topology is row r with t added   *)
(* to its slot. Its pair is then t slots of pairs further on, the slots of *)
(* the copies of a row, which an accepted request leaves in order, climb   *)
(* one by one, the counts of sorted pairs are where the pairs begin, and   *)
(* the buckets, tiled the same way, still hold each row of their kind.     *)
(***************************************************************************)
EXTENDS MCConsumer, Sequences, FiniteSetTheorems, WellFoundedInduction, TLAPS

\* The rows of a handle were found in the scene it is stamped with.
StampedWhereFound(h) == h.found # None => h.stamp # None /\ (~h.torn => h.stamp = h.found)

\* What a poll that passed said, and no edit has undone.
QuietIsTrue ==
  quiet # None =>
    LET s == quiet[1]  h == quiet[2]
    IN /\ s.versions = live[s.of]
       /\ StampedWhereFound(h)
       /\ h.stamp # None => h.stamp = s.versions

IInv ==
  /\ TypeOK
  /\ \A h \in handles : StampedWhereFound(h)
  /\ QuietIsTrue
  /\ LabelsNameTheSameWorld
  /\ VouchedReplayIsLive

-----------------------------------------------------------------------------
\* No domain that moved is reported exactly when nothing that counts moved, the
\* geometry exactly when it alone did.
LEMMA MovedDomainTells ==
  ASSUME DomainsAssumption, NoneAssumption,
         NEW recorded \in Snapshots, NEW current \in Snapshots, NEW allow \in BOOLEAN
  PROVE  LET moved == MovedDomain(recorded, current, allow)
             sameLabels == \A d \in LabelDomains : recorded[d] = current[d]
             sameGeometry == recorded["geometry"] = current["geometry"]
         IN /\ moved = None <=> sameLabels /\ (sameGeometry \/ allow)
            /\ moved = "geometry" <=> sameLabels /\ ~sameGeometry /\ ~allow
            /\ moved \in LabelDomains <=> ~sameLabels
BY DEF MovedDomain, DomainsAssumption, NoneAssumption, Domains

\* Where nothing moved two snapshots are one.
LEMMA SameSnapshot ==
  ASSUME NEW recorded \in Snapshots, NEW current \in Snapshots,
         \A d \in LabelDomains : recorded[d] = current[d],
         recorded["geometry"] = current["geometry"]
  PROVE  recorded = current
BY DEF Snapshots, Domains

LEMMA StampIsNotNone ==
  ASSUME NoneAssumption PROVE None \notin Snapshots
BY DEF NoneAssumption

\* A replay that is accepted found the labels, and but for a fixed winner the
\* geometry, that the scene recorded.
LEMMA AcceptedIsCurrent ==
  ASSUME DomainsAssumption, NoneAssumption,
         NEW s \in Scenes, NEW h \in Handles, NEW motion \in Motions,
         h.stamp # None
  PROVE  /\ IsCurrent(s, h, motion) <=>
              /\ \A d \in LabelDomains : h.stamp[d] = s.versions[d]
              /\ motion = "frozen_world" => h.stamp["geometry"] = s.versions["geometry"]
<1>1. h.stamp \in Snapshots /\ s.versions \in Snapshots
  BY DEF Handles, Scenes
<1>2. motion = "frozen_world" <=> motion # "fixed_winner_replay"
  BY DEF Motions
<1> QED
  BY <1>1, <1>2, MovedDomainTells DEF IsCurrent, ProvenanceOf

\* What a revalidating poll that passes has compared.
LEMMA PassedPoll ==
  ASSUME DomainsAssumption, NoneAssumption, TypeOK,
         NEW s \in scenes, NEW h \in handles, Moved(s, h, TRUE) = None
  PROVE  s.versions = live[s.of] /\ (h.stamp # None => h.stamp = s.versions)
<1>1. s.versions \in Snapshots /\ live[s.of] \in Snapshots
  BY DEF TypeOK, Scenes
<1>2. h.stamp # None => h.stamp \in Snapshots
  BY DEF TypeOK, Handles
<1>3. h.stamp # None => MovedDomain(h.stamp, s.versions, FALSE) = None
  BY DEF Moved, ProvenanceOf
<1>4. MovedDomain(s.versions, live[s.of], FALSE) = None
  BY DEF Moved, ProvenanceOf
<1>5. s.versions = live[s.of]
  <2>1. /\ \A d \in LabelDomains : s.versions[d] = live[s.of][d]
        /\ s.versions["geometry"] = live[s.of]["geometry"]
    BY <1>1, <1>4, MovedDomainTells
  <2> QED
    BY <1>1, <2>1, SameSnapshot
<1>6. h.stamp # None => h.stamp = s.versions
  BY <1>1, <1>2, <1>3, MovedDomainTells, SameSnapshot
<1> QED
  BY <1>5, <1>6

-----------------------------------------------------------------------------
LEMMA InitIInv == Init => IInv
BY DEF Init, IInv, TypeOK, QuietIsTrue, LabelsNameTheSameWorld, VouchedReplayIsLive

\* A new handle that is stamped where its rows were found.
LEMMA HeldIInv ==
  ASSUME IInv, NEW h \in Handles, StampedWhereFound(h), Held(h)
  PROVE  IInv'
BY DEF IInv, TypeOK, Held, QuietIsTrue, LabelsNameTheSameWorld, VouchedReplayIsLive

LEMMA EditIInv ==
  ASSUME IInv, NEW w \in Worlds, NEW d \in Domains, Edit(w, d)
  PROVE  IInv'
<1>1. TypeOK'
  BY DEF IInv, TypeOK, Edit, Snapshots
<1>2. \A v \in Worlds \ {w} : live'[v] = live[v]
  BY DEF Edit, IInv, TypeOK
<1>3. QuietIsTrue'
  <2>1. quiet' # None => quiet' = quiet /\ quiet[1] \in Scenes /\ quiet[1].of # w
    BY DEF Edit, IInv, TypeOK
  <2> QED
    BY <1>2, <2>1 DEF IInv, QuietIsTrue, Scenes
<1> QED
  BY <1>1, <1>3 DEF IInv, Edit, LabelsNameTheSameWorld, VouchedReplayIsLive

LEMMA SceneIInv ==
  ASSUME IInv, \/ \E w \in Worlds : BeginCompile(w)
               \/ EndCompile
               \/ \E s \in scenes : DropScene(s)
               \/ \E h \in handles : DropHandle(h)
  PROVE  IInv'
<1>1. TypeOK'
  BY DEF IInv, TypeOK, BeginCompile, EndCompile, DropScene, DropHandle, Scenes
<1> QED
  BY <1>1 DEF IInv, BeginCompile, EndCompile, DropScene, DropHandle, QuietIsTrue,
              LabelsNameTheSameWorld, VouchedReplayIsLive

LEMMA TopologyIInv ==
  ASSUME NoneAssumption, IInv,
         \/ HandBuild
         \/ \E s \in scenes : Discover(s)
         \/ \E h \in handles : Prepare(h) \/ Replicate(h)
  PROVE  IInv'
<1>1. CASE HandBuild
  BY <1>1, HeldIInv DEF HandBuild, Handles, Forms, StampedWhereFound
<1>2. ASSUME NEW s \in scenes, Discover(s) PROVE IInv'
  <2> DEFINE h == [stamp |-> ProvenanceOf(s), found |-> s.has, form |-> "raw", torn |-> Torn(s)]
  <2>1. s \in Scenes
    BY DEF IInv, TypeOK
  <2>2. h \in Handles
    BY <2>1 DEF Handles, Forms, Scenes, ProvenanceOf, Torn
  <2>3. StampedWhereFound(h)
    BY <2>1, StampIsNotNone DEF StampedWhereFound, Scenes, ProvenanceOf, Torn
  <2> QED
    BY <1>2, <2>2, <2>3, HeldIInv DEF Discover
<1>3. ASSUME NEW h \in handles, Prepare(h) \/ Replicate(h) PROVE IInv'
  <2>1. h \in Handles /\ StampedWhereFound(h)
    BY DEF IInv, TypeOK
  <2>2. CASE Prepare(h)
    <3> DEFINE g == [h EXCEPT !.form = "prepared"]
    <3>1. g \in Handles /\ StampedWhereFound(g)
      BY <2>1 DEF Handles, Forms, StampedWhereFound
    <3> QED
      BY <2>2, <3>1, HeldIInv DEF Prepare
  <2>3. CASE Replicate(h)
    <3>1. Replicated(h) \in Handles /\ StampedWhereFound(Replicated(h))
      BY <2>1 DEF Handles, Forms, StampedWhereFound, Replicated
    <3> QED
      BY <2>3, <3>1, HeldIInv DEF Replicate
  <2> QED
    BY <1>3, <2>2, <2>3
<1> QED
  BY <1>1, <1>2, <1>3

LEMMA PollIInv ==
  ASSUME DomainsAssumption, NoneAssumption, IInv,
         NEW s \in scenes, NEW h \in handles, Poll(s, h)
  PROVE  IInv'
<1>1. s \in Scenes /\ h \in Handles /\ StampedWhereFound(h)
  BY DEF IInv, TypeOK
<1>2. s.versions = live[s.of] /\ (h.stamp # None => h.stamp = s.versions)
  BY PassedPoll DEF IInv, Poll
<1>3. QuietIsTrue'
  BY <1>1, <1>2 DEF Poll, QuietIsTrue
<1>4. TypeOK'
  BY <1>1 DEF IInv, TypeOK, Poll
<1> QED
  BY <1>3, <1>4 DEF IInv, Poll, LabelsNameTheSameWorld, VouchedReplayIsLive

\* A replay of a handle g: the one held, or its copy over slots.
LEMMA AnswerIInv ==
  ASSUME DomainsAssumption, NoneAssumption, IInv,
         NEW s \in scenes, NEW h \in handles, NEW motion \in Motions, NEW g \in Handles,
         g.stamp = h.stamp, g.found = h.found, g.torn = h.torn,
         IsCurrent(s, g, motion),
         answer' = [scene |-> s, handle |-> g, motion |-> motion,
                    vouched |-> (quiet = <<s, h>>), live |-> live[s.of]],
         UNCHANGED <<live, building, scenes, handles, quiet>>
  PROVE  IInv'
<1>1. s \in Scenes /\ h \in Handles /\ StampedWhereFound(h) /\ s.of \in Worlds
  BY DEF IInv, TypeOK, Scenes
<1>2. TypeOK'
  BY <1>1 DEF IInv, TypeOK, Answers
<1>3. QuietIsTrue'
  BY DEF IInv, QuietIsTrue
<1>4. LabelsNameTheSameWorld'
  <2> SUFFICES ASSUME g.found # None, ~Torn(s), ~g.torn
               PROVE  /\ \A d \in LabelDomains : g.found[d] = s.has[d]
                      /\ motion = "frozen_world" => g.found = s.has
    BY DEF LabelsNameTheSameWorld
  <2>1. g.stamp # None /\ g.stamp = g.found /\ s.versions = s.has
    BY <1>1 DEF StampedWhereFound, Torn
  <2>2. /\ \A d \in LabelDomains : g.stamp[d] = s.versions[d]
        /\ motion = "frozen_world" => g.stamp["geometry"] = s.versions["geometry"]
    BY <1>1, <2>1, AcceptedIsCurrent
  <2>3. g.stamp \in Snapshots /\ s.versions \in Snapshots
    BY <1>1, <2>1 DEF Handles, Scenes
  <2> QED
    BY <2>1, <2>2, <2>3, SameSnapshot
<1>5. VouchedReplayIsLive'
  <2> SUFFICES ASSUME quiet = <<s, h>>
               PROVE  /\ ~Torn(s) => s.has = live[s.of]
                      /\ g.found # None /\ ~g.torn => g.found = live[s.of]
    BY DEF VouchedReplayIsLive
  <2>1. quiet # None
    BY <1>1 DEF NoneAssumption
  <2>2. s.versions = live[s.of] /\ (h.stamp # None => h.stamp = s.versions)
    BY <2>1 DEF IInv, QuietIsTrue
  <2> QED
    BY <1>1, <2>2 DEF StampedWhereFound, Torn
<1> QED
  BY <1>2, <1>3, <1>4, <1>5 DEF IInv

LEMMA ReplayIInv ==
  ASSUME DomainsAssumption, NoneAssumption, IInv,
         NEW s \in scenes, NEW h \in handles, NEW motion \in Motions,
         Replay(s, h, motion) \/ ReplayOverTime(s, h, motion)
  PROVE  IInv'
<1>1. h \in Handles
  BY DEF IInv, TypeOK
<1>2. CASE Replay(s, h, motion)
  BY <1>1, <1>2, AnswerIInv DEF Replay
<1>3. CASE ReplayOverTime(s, h, motion)
  <2> DEFINE g == Replicated(h)
  <2>1. g \in Handles /\ g.stamp = h.stamp /\ g.found = h.found /\ g.torn = h.torn
    BY <1>1 DEF Replicated, Handles, Forms
  <2> QED
    BY <1>3, <2>1, AnswerIInv DEF ReplayOverTime
<1> QED
  BY <1>2, <1>3

LEMMA NextIInv ==
  ASSUME DomainsAssumption, NoneAssumption, IInv, [Next]_vars
  PROVE  IInv'
<1>1. CASE UNCHANGED vars
  BY <1>1 DEF vars, IInv, TypeOK, QuietIsTrue, LabelsNameTheSameWorld, VouchedReplayIsLive
<1>2. CASE Next
  BY <1>2, SceneIInv, TopologyIInv, EditIInv, PollIInv, ReplayIInv DEF Next
<1> QED
  BY <1>1, <1>2

-----------------------------------------------------------------------------
\* Every state of the consumer is well typed, its handles are stamped with the
\* scene their rows were found in, and what a poll passed is still so.
THEOREM Inductive ==
  ASSUME DomainsAssumption, NoneAssumption
  PROVE  Spec => []IInv
<1>1. IInv /\ [Next]_vars => IInv'
  BY NextIInv
<1> QED
  BY InitIInv, <1>1, PTL DEF Spec

\* Handles, scenes, reports and answers are well typed.
THEOREM TypeCorrect ==
  ASSUME DomainsAssumption, NoneAssumption
  PROVE  Spec => []TypeOK
BY Inductive, PTL DEF IInv

\* reevaluate never reads a frozen label in a world it was not found in.
THEOREM LabelsAreOfTheWorld ==
  ASSUME DomainsAssumption, NoneAssumption
  PROVE  Spec => []LabelsNameTheSameWorld
BY Inductive, PTL DEF IInv

\* The cheap poll of a well-typed state says what a replay would.
LEMMA PollPredicts ==
  ASSUME DomainsAssumption, NoneAssumption, TypeOK
  PROVE  PollPredictsReplay
<1> SUFFICES ASSUME NEW s \in scenes, NEW h \in handles
             PROVE  LET moved == Moved(s, h, FALSE)
                    IN /\ (moved = None) <=> IsCurrent(s, h, "frozen_world")
                       /\ (moved \in {None, "geometry"}) <=> IsCurrent(s, h, "fixed_winner_replay")
  BY DEF PollPredictsReplay
<1>1. s \in Scenes /\ h \in Handles
  BY DEF TypeOK
<1>2. CASE h.stamp = None
  BY <1>2 DEF Moved, IsCurrent
<1>3. CASE h.stamp # None
  <2>1. h.stamp \in Snapshots /\ s.versions \in Snapshots
    BY <1>1, <1>3 DEF Handles, Scenes
  <2>2. Moved(s, h, FALSE) = MovedDomain(h.stamp, s.versions, FALSE)
    BY <1>3 DEF Moved, ProvenanceOf
  <2>3. /\ IsCurrent(s, h, "frozen_world") <=>
             MovedDomain(h.stamp, s.versions, FALSE) = None
        /\ IsCurrent(s, h, "fixed_winner_replay") <=>
             MovedDomain(h.stamp, s.versions, TRUE) = None
    <3>1. /\ ("frozen_world" = "fixed_winner_replay") = FALSE
          /\ ("fixed_winner_replay" = "fixed_winner_replay") = TRUE
      OBVIOUS
    <3> QED
      BY <1>3, <3>1 DEF IsCurrent, ProvenanceOf
  <2> DEFINE same == \A d \in LabelDomains : h.stamp[d] = s.versions[d]
  <2>4. /\ MovedDomain(h.stamp, s.versions, TRUE) = None <=> same
        /\ MovedDomain(h.stamp, s.versions, FALSE) = None
             <=> same /\ h.stamp["geometry"] = s.versions["geometry"]
        /\ MovedDomain(h.stamp, s.versions, FALSE) = "geometry"
             <=> same /\ h.stamp["geometry"] # s.versions["geometry"]
    BY <2>1, MovedDomainTells
  <2> HIDE DEF same
  <2> QED
    BY <2>2, <2>3, <2>4
<1> QED
  BY <1>2, <1>3

\* What rediscovery_required reports is what a replay will do, and what it
\* vouched for against the live source holds when the replay is answered.
THEOREM PollsMayBeActedOn ==
  ASSUME DomainsAssumption, NoneAssumption
  PROVE  Spec => []PollsAreHonest
<1>1. IInv => PollsAreHonest
  BY PollPredicts DEF IInv, PollsAreHonest
<1> QED
  BY <1>1, Inductive, PTL

\* The instances of the consumer keep what was proved of FixedTopology: its
\* variables rest in the other parts.
LEMMA WorldInv == ConsumerSpec => []IInv
<1>1. DomainsAssumption /\ NoneAssumption
  BY ConsumerAssumption DEF ConsumerAssumption
<1>2. ConsumerInit => IInv
  <2>1. AtRest => IInv
    BY <1>1 DEF AtRest, IInv, TypeOK, QuietIsTrue, LabelsNameTheSameWorld, VouchedReplayIsLive,
                Snapshots, NoneAssumption
  <2>. QED BY <1>1, <2>1, InitIInv DEF ConsumerInit, OnlySlot, OnlyGrid
<1>3. IInv /\ [ConsumerNext]_consumerVars => IInv'
  <2>1. [ConsumerNext]_consumerVars => [Next]_vars
    BY DEF ConsumerNext, consumerVars, slotOthers, gridOthers, vars
  <2>. QED BY <1>1, <2>1, NextIInv
<1>. QED BY <1>2, <1>3, PTL DEF ConsumerSpec

\* So does what is checked of it in their runs.
THEOREM ConsumerWorld ==
  ConsumerSpec => [](TypeOK /\ LabelsNameTheSameWorld /\ PollsAreHonest)
<1>1. IInv => TypeOK /\ LabelsNameTheSameWorld /\ PollsAreHonest
  BY PollPredicts, ConsumerAssumption DEF ConsumerAssumption, IInv, PollsAreHonest
<1>. QED BY <1>1, WorldInv, PTL

-----------------------------------------------------------------------------
\* What holds of zero and of every successor holds of every number.
LEMMA Ascending ==
  ASSUME NEW S, 0 \in S, \A n \in Nat : n \in S => n + 1 \in S
  PROVE  Nat \subseteq S
<1>. DEFINE R == OpToRel(<, Nat)
            Bad == {n \in Nat : n \notin S}
<1>1. IsWellFoundedOn(R, Nat)
  BY NatLessThanWellFounded, Zenon
<1>2. \A m, n \in Nat : m < n => <<m, n>> \in R
  BY Zenon DEF OpToRel
<1>. HIDE DEF R
<1>3. SUFFICES ASSUME Bad # {} PROVE FALSE
  OBVIOUS
<1>4. PICK n \in Bad : \A m \in Bad : <<m, n>> \notin R
  BY <1>1, <1>3, WFMin
<1>5. n # 0 /\ n - 1 \in Nat /\ n - 1 < n
  BY <1>4
<1>6. n - 1 \in S
  BY <1>2, <1>4, <1>5
<1>. QED BY <1>4, <1>5, <1>6

-----------------------------------------------------------------------------
(* Frequency grids                                                         *)

\* The powers up to m.
IsPower(g, m) ==
  g \in [0..m -> Nat \ {0}] /\ g[0] = 1 /\ \A k \in 1..m : g[k] = 2 * g[k - 1]

LEMMA PowersUpTo == \A m \in Nat : \E g : IsPower(g, m)
<1>. DEFINE Good == {m \in Nat : \E g : IsPower(g, m)}
<1>1. 0 \in Good
  <2>. DEFINE g == [k \in 0..0 |-> 1]
  <2>1. IsPower(g, 0)
    BY DEF IsPower
  <2>. QED BY <2>1
<1>2. ASSUME NEW m \in Nat, m \in Good PROVE m + 1 \in Good
  <2>1. PICK g : IsPower(g, m)
    BY <1>2
  <2>. DEFINE h == [k \in 0..m + 1 |-> IF k = m + 1 THEN 2 * g[m] ELSE g[k]]
  <2>2. IsPower(h, m + 1)
    BY <2>1 DEF IsPower
  <2>. QED BY <2>2
<1>. HIDE DEF Good
<1>3. Nat \subseteq Good
  BY <1>1, <1>2, Ascending
<1>. QED BY <1>3 DEF Good

LEMMA PowersAreOne ==
  ASSUME NEW m \in Nat, NEW n \in Nat, m <= n, NEW g, IsPower(g, m), NEW h, IsPower(h, n)
  PROVE  \A k \in 0..m : g[k] = h[k]
<1>. DEFINE Good == {k \in Nat : k \in 0..m => g[k] = h[k]}
<1>1. 0 \in Good
  BY DEF IsPower
<1>2. ASSUME NEW k \in Nat, k \in Good PROVE k + 1 \in Good
  <2>1. SUFFICES ASSUME k + 1 \in 1..m PROVE g[k + 1] = h[k + 1]
    OBVIOUS
  <2>2. g[k + 1] = 2 * g[k] /\ h[k + 1] = 2 * h[k]
    <3>1. k + 1 \in 1..n /\ (k + 1) - 1 = k
      BY <2>1
    <3>. QED BY <2>1, <3>1 DEF IsPower
  <2>. QED BY <1>2, <2>1, <2>2
<1>. HIDE DEF Good
<1>3. Nat \subseteq Good
  BY <1>1, <1>2, Ascending
<1>. QED BY <1>3 DEF Good

\* The powers of two are what their definition says, and positive.
LEMMA PowersOfTwo == \A n \in Nat : Grids!PowerOfTwo[n] \in Nat \ {0}
<1>. DEFINE G(m) == CHOOSE g : IsPower(g, m)
            f == [n \in Nat |-> G(n)[n]]
<1>1. \A m \in Nat : IsPower(G(m), m)
  BY PowersUpTo
<1>. HIDE DEF G
<1>2. ASSUME NEW n \in Nat PROVE f[n] = IF n = 0 THEN 1 ELSE 2 * f[n - 1]
  <2>1. CASE n = 0
    BY <1>1, <2>1 DEF IsPower
  <2>2. CASE n # 0
    <3>1. n - 1 \in Nat /\ n \in 1..n /\ n - 1 \in 0..n - 1
      BY <2>2
    <3>2. G(n)[n] = 2 * G(n)[n - 1]
      BY <1>1, <3>1 DEF IsPower
    <3>3. G(n - 1)[n - 1] = G(n)[n - 1]
      BY <1>1, <3>1, PowersAreOne
    <3>. QED BY <2>2, <3>1, <3>2, <3>3
  <2>. QED BY <2>1, <2>2
<1>3. f = [n \in Nat |-> IF n = 0 THEN 1 ELSE 2 * f[n - 1]]
  <2>1. f = [n \in Nat |-> f[n]]
    OBVIOUS
  <2>. HIDE DEF f
  <2>. QED BY <1>2, <2>1
<1>4. \E g : g = [n \in Nat |-> IF n = 0 THEN 1 ELSE 2 * g[n - 1]]
  <2>. HIDE DEF f
  <2>. QED BY <1>3
<1>. DEFINE p == Grids!PowerOfTwo
<1>5. p = [n \in Nat |-> IF n = 0 THEN 1 ELSE 2 * p[n - 1]]
  BY <1>4, Zenon DEF Grids!PowerOfTwo
<1>. HIDE DEF p
<1>. DEFINE Good == {n \in Nat : p[n] \in Nat \ {0}}
<1>6. 0 \in Good
  BY <1>5
<1>7. ASSUME NEW n \in Nat, n \in Good PROVE n + 1 \in Good
  <2>1. p[n + 1] = 2 * p[n]
    BY <1>5
  <2>. QED BY <1>7, <2>1
<1>. HIDE DEF Good
<1>8. Nat \subseteq Good
  BY <1>6, <1>7, Ascending
<1>. QED BY <1>8 DEF Good, p

\* Rounding goes to a neighbour at most half a unit away, and that far only from
\* half-way between two.
LEMMA Rounded ==
  ASSUME NEW x, Grids!InRange(x)
  PROVE  LET u == Grids!Ulp(x) l == Grids!Launch(x)
         IN /\ u \in Nat \ {0} /\ l \in Nat /\ x \in Nat
            /\ 2 * (x - l) <= u /\ 2 * (l - x) <= u
            /\ 2 * (x - l) = u \/ 2 * (l - x) = u => 2 * (x % u) = u
<1>. DEFINE u == Grids!Ulp(x)  r == x % u
<1>1. PICK e \in Exponents : e = (CHOOSE d \in Exponents : x \in Grids!Binade(d)) /\ x \in Grids!Binade(e)
  BY DEF Grids!InRange
<1>2. u = Grids!PowerOfTwo[e]
  BY <1>1 DEF Grids!Ulp
<1>3. e \in Nat /\ e + Precision - 1 \in Nat
  BY ConsumerAssumption DEF ConsumerAssumption, Grids!PrecisionAssumption
<1>4. u \in Nat \ {0}
  BY <1>2, <1>3, PowersOfTwo
<1>5. x \in Nat
  BY <1>1, <1>3, PowersOfTwo DEF Grids!Binade
<1>6. r \in 0..u - 1 /\ r <= x
  <2>. HIDE DEF u
  <2>. QED BY <1>4, <1>5
<1>7. Grids!Launch(x) = x - r \/ (Grids!Launch(x) = x - r + u /\ 2 * r >= u)
  <2>1. Grids!Launch(x) = IF \/ 2 * r > u
                             \/ 2 * r = u /\ (x \div u) % 2 = 1
                          THEN x - r + u ELSE x - r
    BY Zenon DEF Grids!Launch
  <2>. HIDE DEF u, r
  <2>. QED BY <1>4, <1>6, <2>1
<1>8. Grids!Launch(x) = x - r => 2 * r <= u
  <2>1. Grids!Launch(x) = IF \/ 2 * r > u
                             \/ 2 * r = u /\ (x \div u) % 2 = 1
                          THEN x - r + u ELSE x - r
    BY Zenon DEF Grids!Launch
  <2>. HIDE DEF u, r
  <2>. QED BY <1>4, <1>5, <1>6, <2>1
<1>. QED
  <2>. HIDE DEF u, r
  <2>1. /\ Grids!Launch(x) \in Nat
        /\ 2 * (x - Grids!Launch(x)) <= u /\ 2 * (Grids!Launch(x) - x) <= u
        /\ 2 * (x - Grids!Launch(x)) = u \/ 2 * (Grids!Launch(x) - x) = u => 2 * r = u
    BY <1>4, <1>5, <1>6, <1>7, <1>8
  <2>. QED BY <1>4, <1>5, <2>1 DEF u, r

\* What is launched is what was asked, column by column, of a grid that passed.
GridInv ==
  /\ reference \in References
  /\ grid \in Seq(Offsets) /\ Len(grid) <= MaxColumns
  /\ stage \in {"idle", "declared", "admitted", "refused", "published"}
  /\ stage \in {"admitted", "published"} => Grids!Resolvable(grid)
  /\ launches # <<>> => stage \in {"admitted", "published"}
  /\ launches \in Seq(Nat) /\ Len(launches) <= 1 + Len(grid)
  /\ \A k \in DOMAIN launches : launches[k] = Grids!Launch(Grids!Requested(k - 1))
  /\ stage = "published" => Len(launches) = 1 + Len(grid)

LEMMA RequestedInRange ==
  ASSUME GridInv, NEW j \in Grids!Columns
  PROVE  Grids!InRange(Grids!Requested(j)) /\ Grids!InRange(Grids!Launch(reference))
<1>1. \A r \in References : Grids!InRange(Grids!Launch(r)) /\ \A o \in Offsets \cup {0} : Grids!InRange(r + o)
  BY ConsumerAssumption DEF ConsumerAssumption, Grids!RangeAssumption
<1>2. j = 0 \/ (j # 0 /\ grid[j] \in Offsets)
  BY DEF GridInv, Grids!Columns
<1>. QED BY <1>1, <1>2 DEF GridInv, Grids!Requested

LEMMA GridInitInv == Grids!Init => GridInv
BY ConsumerAssumption DEF ConsumerAssumption, Grids!Init, GridInv, Grids!GridAssumption

\* Nothing that was made of the grid changes while the grid stays.
LEMMA GridKept ==
  ASSUME UNCHANGED <<reference, grid>>
  PROVE  /\ Grids!Resolvable(grid)' <=> Grids!Resolvable(grid)
         /\ \A j : Grids!Requested(j)' = Grids!Requested(j)
BY DEF Grids!Resolvable, Grids!Resolution, Grids!Requested

LEMMA GridNextInv == GridInv /\ [Grids!Next]_Grids!vars => GridInv'
<1>. SUFFICES ASSUME GridInv, [Grids!Next]_Grids!vars PROVE GridInv'
  OBVIOUS
<1>1. CASE Grids!Declare
  <2>1. PICK n \in 0..MaxColumns : \E g \in [1..n -> Offsets] : grid' = g
    BY <1>1 DEF Grids!Declare
  <2>2. n \in Nat /\ grid' \in Seq(Offsets) /\ Len(grid') = n
    BY <2>1, ConsumerAssumption DEF ConsumerAssumption, Grids!GridAssumption
  <2>. QED BY <1>1, <2>1, <2>2, ConsumerAssumption
           DEF GridInv, Grids!Declare, ConsumerAssumption, Grids!GridAssumption
<1>2. CASE Grids!Preflight
  <2>1. launches' = <<>>
    BY <1>2 DEF GridInv, Grids!Preflight
  <2>. QED BY <1>2, <2>1, GridKept DEF GridInv, Grids!Preflight
<1>3. CASE Grids!LaunchReference \/ Grids!LaunchColumn
  <2>. DEFINE j == Len(launches)
  <2>1. UNCHANGED <<reference, grid, stage>> /\ stage = "admitted" /\ j \in Grids!Columns
    BY <1>3 DEF Grids!LaunchReference, Grids!LaunchColumn, Grids!Columns, GridInv
  <2>2. launches' = Append(launches, Grids!Launch(Grids!Requested(j)))
    <3>1. CASE Grids!LaunchReference
      <4>1. Grids!Requested(0) = reference
        BY RequestedInRange, ConsumerAssumption
           DEF Grids!Requested, GridInv, ConsumerAssumption, Grids!GridAssumption
      <4>. QED BY <3>1, <4>1 DEF Grids!LaunchReference, GridInv
    <3>2. CASE Grids!LaunchColumn
      BY <3>2 DEF Grids!LaunchColumn, Grids!Requested
    <3>. QED BY <1>3, <3>1, <3>2
  <2>3. Grids!Launch(Grids!Requested(j)) \in Nat
    BY <2>1, RequestedInRange, Rounded
  <2>. QED BY <2>1, <2>2, <2>3, GridKept DEF GridInv, Grids!Columns
<1>4. CASE Grids!Publish
  BY <1>4, GridKept DEF GridInv, Grids!Publish
<1>5. CASE UNCHANGED Grids!vars
  BY <1>5, GridKept DEF GridInv, Grids!vars
<1>. QED BY <1>1, <1>2, <1>3, <1>4, <1>5 DEF Grids!Next

\* Of an admitted grid only frequencies one resolution apart, both half-way
\* between two floats, are one launch.
LEMMA GridDistinct == GridInv => Grids!TypeOK /\ Grids!ColumnsAreDistinctOffTies
<1>. SUFFICES ASSUME GridInv PROVE Grids!TypeOK /\ Grids!ColumnsAreDistinctOffTies
  OBVIOUS
<1>1. Grids!TypeOK
  BY DEF GridInv, Grids!TypeOK
<1>2. ASSUME stage = "published", NEW i \in Grids!Columns, NEW j \in Grids!Columns,
             Grids!Requested(i) # Grids!Requested(j), Grids!Launched(i) = Grids!Launched(j),
             Grids!InReferenceBinade(i), Grids!InReferenceBinade(j)
      PROVE  /\ Grids!Magnitude(Grids!Requested(i) - Grids!Requested(j)) = Grids!Resolution
             /\ 2 * (Grids!Requested(i) % Grids!Resolution) = Grids!Resolution
  <2>. DEFINE x == Grids!Requested(i)  y == Grids!Requested(j)  R == Grids!Resolution
              u == Grids!Ulp(x)  v == Grids!Ulp(y)  l == Grids!Launch(x)
  <2>1. Grids!Launch(y) = l
    <3>1. ASSUME NEW k \in Grids!Columns PROVE Grids!Launched(k) = Grids!Launch(Grids!Requested(k))
      <4>1. k + 1 \in DOMAIN launches /\ (k + 1) - 1 = k
        BY <1>2 DEF GridInv, Grids!Columns
      <4>2. launches[k + 1] = Grids!Launch(Grids!Requested((k + 1) - 1))
        BY <4>1 DEF GridInv
      <4>. QED BY <4>1, <4>2 DEF Grids!Launched
    <3>. HIDE DEF x, y
    <3>. QED BY <1>2, <3>1, Zenon DEF x, y, l
  <2>2. u \in Nat /\ v \in Nat /\ R \in Nat /\ l \in Nat /\ x \in Nat /\ y \in Nat
        /\ u <= R /\ v <= R
    BY <1>2, RequestedInRange, Rounded DEF Grids!InReferenceBinade, Grids!Resolution
  <2>3. /\ 2 * (x - l) <= u /\ 2 * (l - x) <= u
        /\ (2 * (x - l) = u \/ 2 * (l - x) = u => 2 * (x % u) = u)
        /\ 2 * (y - l) <= v /\ 2 * (l - y) <= v
    <3>1. Grids!InRange(x) /\ Grids!InRange(y)
      BY RequestedInRange
    <3>. QED BY <2>1, <3>1, Rounded
  <2>4. x - y >= R \/ y - x >= R
    <3>. DEFINE off(k) == IF k = 0 THEN 0 ELSE grid[k]
    <3>0. /\ References \subseteq Nat \ {0} /\ Offsets \subseteq Int
          /\ reference \in References /\ grid \in Seq(Offsets)
      BY ConsumerAssumption DEF GridInv, ConsumerAssumption, Grids!GridAssumption
    <3>b. DOMAIN grid = 1..Len(grid) /\ \A k \in DOMAIN grid : grid[k] \in Int
      <4>1. DOMAIN grid = 1..Len(grid) /\ \A k \in DOMAIN grid : grid[k] \in Offsets
        BY <3>0
      <4>. QED BY <3>0, <4>1, Zenon
    <3>1. reference \in Nat /\ off(i) \in Int /\ off(j) \in Int
      <4>1. (i = 0 \/ i \in 1..Len(grid)) /\ (j = 0 \/ j \in 1..Len(grid)) /\ reference \in Nat
        BY <3>0 DEF Grids!Columns
      <4>. QED BY <3>b, <4>1
    <3>a. x = reference + off(i) /\ y = reference + off(j)
      BY DEF Grids!Requested
    <3>2. off(i) # off(j)
      BY <1>2, <3>a
    <3>3. \A k \in DOMAIN grid : grid[k] = 0 \/ grid[k] >= R \/ 0 - grid[k] >= R
      <4>1. \A k \in DOMAIN grid : grid[k] = 0 \/ Grids!Magnitude(grid[k]) >= R
        BY <1>2, Zenon DEF GridInv, Grids!Resolvable
      <4>. HIDE DEF R
      <4>. QED BY <2>2, <3>b, <4>1 DEF Grids!Magnitude
    <3>4. \A k, m \in DOMAIN grid : grid[k] < grid[m] => grid[m] - grid[k] >= R
      BY <1>2 DEF GridInv, Grids!Resolvable
    <3>5. \A k \in Grids!Columns : k = 0 \/ k \in DOMAIN grid
      BY DEF GridInv, Grids!Columns
    <3>6. off(j) - off(i) >= R \/ off(i) - off(j) >= R
      <4>1. off(i) < off(j) \/ off(j) < off(i)
        <5>. HIDE DEF off
        <5>. QED BY <3>1, <3>2
      <4>. HIDE DEF R
      <4>. QED BY <2>2, <3>1, <3>2, <3>3, <3>4, <3>5, <4>1
    <3>. HIDE DEF off, x, y, R
    <3>. QED BY <2>2, <3>1, <3>a, <3>6
  <2>. HIDE DEF x, y, R, u, v, l
  <2>5. u = R /\ (2 * (x - l) = u \/ 2 * (l - x) = u)
    BY <2>2, <2>3, <2>4
  <2>6. x - y = R \/ y - x = R
    BY <2>2, <2>3, <2>4
  <2>7. 2 * (x % R) = R
    BY ONLY <2>3, <2>5
  <2>8. Grids!Magnitude(x - y) = R
    BY <2>2, <2>6 DEF Grids!Magnitude
  <2>. QED BY <2>7, <2>8, Zenon DEF x, y, R
<1>. QED BY <1>1, <1>2 DEF Grids!ColumnsAreDistinctOffTies

LEMMA GridPart == ConsumerSpec => [](part = "wideband" => GridInv)
<1>1. ConsumerInit => (part = "wideband" => GridInv)
  BY GridInitInv DEF ConsumerInit
<1>2. (part = "wideband" => GridInv) /\ [ConsumerNext]_consumerVars
        => (part = "wideband" => GridInv)'
  <2>. SUFFICES ASSUME part = "wideband" => GridInv, [ConsumerNext]_consumerVars, part' = "wideband"
                PROVE  GridInv'
    OBVIOUS
  <2>1. part = "wideband" /\ [Grids!Next]_Grids!vars
    BY DEF ConsumerNext, consumerVars, Grids!vars
  <2>. QED BY <2>1, GridNextInv
<1>. QED BY <1>1, <1>2, PTL DEF ConsumerSpec

\* Two columns of an admitted grid are one launch only when they are one unit
\* of the float format apart and both half-way between two floats.
THEOREM ColumnsDistinct == ConsumerSpec => []ColumnsAreDistinctOffTies
<1>1. (part = "wideband" => GridInv) => ColumnsAreDistinctOffTies
  BY GridDistinct DEF ColumnsAreDistinctOffTies
<1>. QED BY <1>1, GridPart, PTL

-----------------------------------------------------------------------------
(* SlotReplay                                                              *)

\* Floored division, by its two properties.
LEMMA Division ==
  ASSUME NEW a \in Int, NEW b \in Nat \ {0}
  PROVE  a \div b \in Int /\ a % b \in 0 .. b - 1 /\ a = b * (a \div b) + (a % b)
OBVIOUS

LEMMA MultipleIsBig ==
  ASSUME NEW b \in Nat \ {0}, NEW d \in Int
  PROVE  (d >= 1 => b * d >= b) /\ (d >= 0 => b * d >= 0) /\ (d <= -1 => b * d <= -b)
OBVIOUS

LEMMA DivisionIs ==
  ASSUME NEW b \in Nat \ {0}, NEW q \in Int, NEW r \in 0 .. b - 1
  PROVE  b * q + r \in Int /\ (b * q + r) \div b = q /\ (b * q + r) % b = r
<1>. DEFINE a == b * q + r  p == a \div b  m == a % b  d == q - p
<1>1. a \in Int
  OBVIOUS
<1>2. p \in Int /\ m \in 0 .. b - 1 /\ a = b * p + m
  <2>. HIDE DEF a
  <2>. QED BY <1>1, Division
<1>3. b * d = b * q - b * p /\ b * q + r = b * p + m
  <2>. HIDE DEF m, p
  <2>. QED BY <1>1, <1>2
<1>4. b * d = m - r /\ d \in Int /\ b * d \in Int
  <2>1. p \in Int /\ m \in Int /\ b * q \in Int /\ b * p \in Int
    <3>. HIDE DEF m, p
    <3>. QED BY <1>2
  <2>. HIDE DEF m, p
  <2>. QED BY <1>3, <2>1
<1>5. d = 0
  <2>. HIDE DEF d, m
  <2>. QED BY <1>2, <1>4, MultipleIsBig
<1>6. p = q
  <2>. HIDE DEF p
  <2>. QED BY <1>2, <1>5
<1>7. m = r
  <2>. HIDE DEF m, d, p
  <2>. QED BY <1>2, <1>4, <1>5
<1>. HIDE DEF p, m, a
<1>. QED BY <1>1, <1>6, <1>7 DEF p, m, a

LEMMA SlotsCardinality == \A S : Slots!Cardinality(S) = Cardinality(S)
BY DEF Slots!Cardinality, Cardinality, Slots!IsFiniteSet, IsFiniteSet

\* How many of S are below x.
Below(S, x) == Cardinality({y \in S : y < x})

LEMMA BelowGrows ==
  ASSUME NEW S \in SUBSET Int, IsFiniteSet(S)
  PROVE  /\ Cardinality(S) \in Nat
         /\ \A x \in S : Below(S, x) \in 0 .. Cardinality(S) - 1
         /\ \A x, y \in S : x < y => Below(S, x) < Below(S, y)
<1>1. Cardinality(S) \in Nat
  BY FS_CardinalityType
<1>2. ASSUME NEW x PROVE IsFiniteSet({y \in S : y < x}) /\ Cardinality({y \in S : y < x}) \in Nat
  <2>1. {y \in S : y < x} \in SUBSET S
    OBVIOUS
  <2>. QED BY <2>1, FS_Subset, FS_CardinalityType
<1>3. ASSUME NEW x \in S PROVE Below(S, x) \in 0 .. Cardinality(S) - 1
  <2>. DEFINE A == {y \in S : y < x}
  <2>1. A \in SUBSET S /\ x \notin A
    OBVIOUS
  <2>. HIDE DEF A
  <2>2. Cardinality(A) <= Cardinality(S) /\ Cardinality(A) # Cardinality(S)
    BY <2>1, FS_Subset
  <2>. QED BY <1>1, <1>2, <2>2 DEF Below, A
<1>4. ASSUME NEW x \in S, NEW y \in S, x < y PROVE Below(S, x) < Below(S, y)
  <2>. DEFINE A == {z \in S : z < x}  B == {z \in S : z < y}
  <2>1. A \in SUBSET B /\ x \in B /\ x \notin A
    <3>1. \A z \in S : z \in Int
      OBVIOUS
    <3>2. \A z \in S : z < x => z < y
      BY <1>4, <3>1
    <3>3. ~(x < x)
      BY <3>1
    <3>. QED BY <1>4, <3>2, <3>3, Zenon
  <2>2. IsFiniteSet(B) /\ Cardinality(A) \in Nat /\ Cardinality(B) \in Nat
    BY <1>2
  <2>. HIDE DEF A, B
  <2>3. Cardinality(A) <= Cardinality(B) /\ Cardinality(A) # Cardinality(B)
    BY <2>1, <2>2, FS_Subset
  <2>. QED BY <2>2, <2>3 DEF Below, A, B
<1>. QED BY <1>1, <1>3, <1>4

\* The members of a finite set of integers, listed in order, are those of the set.
LEMMA ListedInOrder ==
  ASSUME NEW S \in SUBSET Int, IsFiniteSet(S)
  PROVE  /\ Slots!InOrder(S) \in Seq(S)
         /\ Slots!Range(Slots!InOrder(S)) = S
<1>. DEFINE n == Cardinality(S)
            place == [x \in S |-> Below(S, x) + 1]
            s == Slots!InOrder(S)
<1>1. n \in Nat /\ \A x \in S : Below(S, x) \in 0 .. n - 1
  BY BelowGrows
<1>2. ASSUME NEW x \in S, NEW y \in S, Below(S, x) = Below(S, y) PROVE x = y
  <2>1. x \in Int /\ y \in Int /\ (x < y => Below(S, x) < Below(S, y)) /\ (y < x => Below(S, y) < Below(S, x))
    BY BelowGrows
  <2>2. Below(S, x) \in Int
    BY <1>1
  <2>. QED BY <1>2, <2>1, <2>2
<1>3. \A j \in 1 .. n : \E x \in S : Below(S, x) = j - 1
  <2>1. place \in Injection(S, 1 .. n)
    BY <1>1, <1>2 DEF Injection, IsInjective
  <2>2. IsFiniteSet(1 .. n) /\ Cardinality(1 .. n) = n
    <3>1. n \in Int /\ 1 \in Int
      BY <1>1
    <3>. HIDE DEF n
    <3>2. IsFiniteSet(1 .. n) /\ Cardinality(1 .. n) = IF 1 > n THEN 0 ELSE n - 1 + 1
      BY <3>1, FS_Interval, Zenon
    <3>. QED BY <1>1, <3>2
  <2>3. place \in Surjection(S, 1 .. n)
    BY <2>1, <2>2, FS_Injection
  <2>4. \A j \in 1 .. n : \E x \in S : place[x] = j
    BY <2>3 DEF Surjection
  <2>. QED BY <1>1, <2>4
<1>4. s = [j \in 1 .. n |-> CHOOSE x \in S : Slots!Cardinality({y \in S : y < x}) = j - 1]
  <2>1. n = Slots!Cardinality(S)
    BY SlotsCardinality
  <2>. HIDE DEF n
  <2>. QED BY <2>1 DEF Slots!InOrder
<1>5. \A j \in 1 .. n : s[j] \in S /\ Below(S, s[j]) = j - 1
  <2>. SUFFICES ASSUME NEW j \in 1 .. n PROVE s[j] \in S /\ Below(S, s[j]) = j - 1
    OBVIOUS
  <2>1. \A x : Slots!Cardinality({y \in S : y < x}) = Below(S, x)
    BY SlotsCardinality DEF Below
  <2>2. \E x \in S : Slots!Cardinality({y \in S : y < x}) = j - 1
    BY <1>3, <2>1
  <2>3. s[j] = CHOOSE x \in S : Slots!Cardinality({y \in S : y < x}) = j - 1
    BY <1>4
  <2>. HIDE DEF s, n
  <2>4. s[j] \in S /\ Slots!Cardinality({y \in S : y < s[j]}) = j - 1
    BY <2>2, <2>3
  <2>. QED BY <2>1, <2>4
<1>6. \A x \in S : \E j \in 1 .. n : s[j] = x
  <2>. SUFFICES ASSUME NEW x \in S PROVE \E j \in 1 .. n : s[j] = x
    OBVIOUS
  <2>1. Below(S, x) + 1 \in 1 .. n
    BY <1>1
  <2>2. s[Below(S, x) + 1] \in S /\ Below(S, s[Below(S, x) + 1]) = Below(S, x)
    BY <1>1, <1>5, <2>1
  <2>. QED BY <1>2, <2>1, <2>2
<1>7. s \in Seq(S) /\ DOMAIN s = 1 .. n
  <2>1. s = [j \in 1 .. n |-> s[j]]
    BY <1>4
  <2>. HIDE DEF s, n
  <2>. QED BY <1>1, <1>5, <2>1
<1>. HIDE DEF s, n
<1>8. Slots!Range(s) = S
  BY <1>5, <1>6, <1>7 DEF Slots!Range
<1>. QED BY <1>7, <1>8 DEF s

\* The i-th of T * n is the r-th of the n in one slot t.
LEMMA Places ==
  ASSUME NEW n \in Nat, NEW T \in Nat, NEW t \in 0 .. T - 1, NEW r \in 1 .. n
  PROVE  /\ t * n + r \in 1 .. T * n
         /\ (t * n + r - 1) \div n = t /\ ((t * n + r - 1) % n) + 1 = r
<1>1. n \in Nat \ {0} /\ r - 1 \in 0 .. n - 1 /\ t \in Int /\ t + 1 <= T
  OBVIOUS
<1>2. n * t = t * n /\ t * n \in Int /\ n * t + (r - 1) = t * n + r - 1
  BY <1>1
<1>3. (t * n + r - 1) \div n = t /\ (t * n + r - 1) % n = r - 1
  <2>1. (n * t + (r - 1)) \div n = t /\ (n * t + (r - 1)) % n = r - 1
    BY <1>1, DivisionIs
  <2>. QED BY <1>2, <2>1
<1>4. t * n >= 0 /\ t * n + n <= T * n
  <2>1. n * t >= 0 /\ n * (T - 1 - t) >= 0
    BY <1>1, MultipleIsBig
  <2>2. n * (T - 1 - t) = T * n - n - t * n
    BY <1>1
  <2>3. T * n \in Int
    OBVIOUS
  <2>. QED BY <1>1, <1>2, <2>1, <2>2, <2>3
<1>. QED BY <1>1, <1>2, <1>3, <1>4

LEMMA PlaceOf ==
  ASSUME NEW n \in Nat, NEW T \in Nat, NEW i \in 1 .. T * n
  PROVE  /\ n \in Nat \ {0}
         /\ (i - 1) \div n \in 0 .. T - 1 /\ ((i - 1) % n) + 1 \in 1 .. n
         /\ i = ((i - 1) \div n) * n + (((i - 1) % n) + 1)
<1>1. n # 0
  <2>1. n = 0 => T * n = 0
    OBVIOUS
  <2>. QED BY <2>1
<1>. DEFINE t == (i - 1) \div n  r == ((i - 1) % n) + 1
<1>2. t \in Int /\ r \in 1 .. n /\ i - 1 = n * t + (r - 1) /\ i - 1 \in Nat
  <2>. DEFINE m == (i - 1) % n
  <2>1. i - 1 \in Nat /\ n \in Nat \ {0}
    BY <1>1
  <2>2. t \in Int /\ m \in 0 .. n - 1 /\ i - 1 = n * t + m
    BY <2>1, Division
  <2>3. r = m + 1
    OBVIOUS
  <2>. HIDE DEF t, m, r
  <2>4. r \in 1 .. n /\ r - 1 = m
    BY <2>1, <2>2, <2>3
  <2>. QED BY <2>1, <2>2, <2>4
<1>3. i = t * n + r
  <2>. HIDE DEF t, r
  <2>. QED BY <1>2
<1>4. t \in 0 .. T - 1
  <2>. HIDE DEF t, r
  <2>1. t >= 0
    <3>1. t <= -1 => n * t <= -n
      BY <1>1, <1>2, MultipleIsBig
    <3>2. n * t \in Int
      BY <1>2
    <3>. QED BY <1>1, <1>2, <3>1, <3>2
  <2>2. t <= T - 1
    <3>1. t - T >= 0 => n * (t - T) >= 0
      BY <1>1, <1>2, MultipleIsBig
    <3>2. n * (t - T) = n * t - T * n /\ n * t \in Int /\ T * n \in Int
      BY <1>2
    <3>. QED BY <1>1, <1>2, <3>1, <3>2
  <2>. QED BY <1>2, <2>1, <2>2
<1>. QED BY <1>1, <1>2, <1>3, <1>4

\* A row moved by t slots of a sources and b sinks, and rows tiled over T slots.
Shifted(r, t, a, b) == [r EXCEPT !.source = @ + t * a, !.sink = @ + t * b]
TileOf(f, T, a, b) ==
  [i \in 1 .. T * Len(f) |-> Shifted(f[((i - 1) % Len(f)) + 1], (i - 1) \div Len(f), a, b)]

LEMMA ShiftedRow ==
  ASSUME NEW r \in Slots!Rows, NEW t \in Int, NEW a \in Int, NEW b \in Int
  PROVE  /\ Shifted(r, t, a, b) \in Slots!Rows
         /\ Shifted(r, t, a, b).source = r.source + t * a
         /\ Shifted(r, t, a, b).sink = r.sink + t * b
         /\ \A c \in {"sourceId", "sinkId", "component", "depth"} : Shifted(r, t, a, b)[c] = r[c]
<1>. DEFINE u == t * a  v == t * b
<1>1. u \in Int /\ v \in Int
  OBVIOUS
<1>2. Shifted(r, t, a, b) = [r EXCEPT !.source = r.source + u, !.sink = r.sink + v]
  BY DEF Shifted, Slots!Rows
<1>. HIDE DEF u, v
<1>3. Shifted(r, t, a, b) \in Slots!Rows
  <2>1. /\ r.source \in Int /\ r.sink \in Int /\ r.sourceId \in Int /\ r.sinkId \in Int
        /\ r.component \in Int /\ r.depth \in Int /\ r.filled \in SUBSET Nat
    BY DEF Slots!Rows
  <2>2. Shifted(r, t, a, b) =
          [source |-> r.source + u, sink |-> r.sink + v, sourceId |-> r.sourceId, sinkId |-> r.sinkId,
           component |-> r.component, depth |-> r.depth, filled |-> r.filled]
    BY <1>2 DEF Slots!Rows
  <2>3. r.source + u \in Int /\ r.sink + v \in Int
    BY <1>1, <2>1
  <2>. QED BY <2>1, <2>2, <2>3 DEF Slots!Rows
<1>4. /\ Shifted(r, t, a, b).source = r.source + u
      /\ Shifted(r, t, a, b).sink = r.sink + v
  BY <1>1, <1>2 DEF Slots!Rows
<1>5. \A c \in {"sourceId", "sinkId", "component", "depth"} : Shifted(r, t, a, b)[c] = r[c]
  BY <1>2 DEF Slots!Rows
<1>. QED BY <1>3, <1>4, <1>5 DEF u, v

LEMMA TileIs ==
  ASSUME NEW f \in Seq(Slots!Rows), NEW T \in Nat, NEW a \in Int, NEW b \in Int
  PROVE  /\ TileOf(f, T, a, b) \in Seq(Slots!Rows)
         /\ Len(TileOf(f, T, a, b)) = T * Len(f)
         /\ \A t \in 0 .. T - 1, r \in 1 .. Len(f) : TileOf(f, T, a, b)[t * Len(f) + r] = Shifted(f[r], t, a, b)
<1>. DEFINE n == Len(f)  g == TileOf(f, T, a, b)
<1>1. n \in Nat /\ T * n \in Nat /\ \A r \in 1 .. n : f[r] \in Slots!Rows
  OBVIOUS
<1>2. g = [i \in 1 .. T * n |-> Shifted(f[((i - 1) % n) + 1], (i - 1) \div n, a, b)]
  BY DEF TileOf
<1>. HIDE DEF g, n
<1>3. ASSUME NEW t \in 0 .. T - 1, NEW r \in 1 .. n PROVE g[t * n + r] = Shifted(f[r], t, a, b)
  <2>. DEFINE i == t * n + r
  <2>1. i \in 1 .. T * n /\ (i - 1) \div n = t /\ ((i - 1) % n) + 1 = r
    BY <1>1, Places
  <2>. HIDE DEF i
  <2>2. g[i] = Shifted(f[r], t, a, b)
    BY <1>2, <2>1
  <2>. QED BY <2>2 DEF i
<1>4. \A i \in 1 .. T * n : g[i] \in Slots!Rows
  <2>. SUFFICES ASSUME NEW i \in 1 .. T * n PROVE g[i] \in Slots!Rows
    OBVIOUS
  <2>. DEFINE t == (i - 1) \div n  r == ((i - 1) % n) + 1
  <2>1. t \in 0 .. T - 1 /\ r \in 1 .. n /\ i = t * n + r
    BY <1>1, PlaceOf
  <2>. HIDE DEF t, r
  <2>2. t \in Int /\ g[t * n + r] = Shifted(f[r], t, a, b)
    BY <1>3, <2>1
  <2>3. f[r] \in Slots!Rows
    BY <1>1, <2>1
  <2>4. Shifted(f[r], t, a, b) \in Slots!Rows
    BY <2>2, <2>3, ShiftedRow
  <2>. QED BY <2>1, <2>2, <2>4
<1>5. g \in Seq(Slots!Rows) /\ Len(g) = T * n
  BY <1>1, <1>2, <1>4
<1>. QED BY <1>3, <1>5 DEF g, n

\* Rows each no less than the last are in order.
Rising(p, n) == \A i, j \in 1 .. n : i <= j => p[i] <= p[j]

LEMMA StepsRise ==
  ASSUME NEW n \in Nat, NEW p, \A i \in 1 .. n : p[i] \in Int, \A i \in 2 .. n : p[i] >= p[i - 1]
  PROVE  Rising(p, n)
<1>. DEFINE Good == {d \in Nat : \A i \in 1 .. n : i + d <= n => p[i] <= p[i + d]}
<1>1. 0 \in Good
  OBVIOUS
<1>2. ASSUME NEW d \in Nat, d \in Good PROVE d + 1 \in Good
  <2>. SUFFICES ASSUME NEW i \in 1 .. n, i + (d + 1) <= n PROVE p[i] <= p[i + (d + 1)]
    OBVIOUS
  <2>. DEFINE j == i + d
  <2>1. j \in 1 .. n /\ j + 1 \in 2 .. n /\ (j + 1) - 1 = j /\ i + (d + 1) = j + 1
    OBVIOUS
  <2>2. p[i] <= p[j]
    BY <1>2, <2>1
  <2>. HIDE DEF j
  <2>3. p[j + 1] >= p[j]
    BY <2>1
  <2>. QED BY <2>1, <2>2, <2>3
<1>. HIDE DEF Good
<1>3. Nat \subseteq Good
  BY <1>1, <1>2, Ascending
<1>4. ASSUME NEW i \in 1 .. n, NEW j \in 1 .. n, i <= j PROVE p[i] <= p[j]
  <2>1. j - i \in Good /\ i + (j - i) = j
    BY <1>3, <1>4
  <2>. QED BY <2>1 DEF Good
<1>. QED BY <1>4 DEF Rising

\* How many of n rows have a pair below q.
PairsBelow(p, n, q) == Cardinality({i \in 1 .. n : p[i] < q})

LEMMA CountTo ==
  ASSUME NEW n \in Nat, NEW m \in 0 .. n
  PROVE  IsFiniteSet(1 .. m) /\ Cardinality(1 .. m) = m
<1>1. m \in Int /\ 1 \in Int
  OBVIOUS
<1>2. IsFiniteSet(1 .. m) /\ Cardinality(1 .. m) = IF 1 > m THEN 0 ELSE m - 1 + 1
  BY <1>1, FS_Interval, Zenon
<1>. QED BY <1>2

\* Of rows in order those below a pair come first, so the count of them is the
\* place of the last.
LEMMA PairsBelowIs ==
  ASSUME NEW n \in Nat, NEW p, \A i \in 1 .. n : p[i] \in Int, Rising(p, n), NEW q \in Int
  PROVE  /\ PairsBelow(p, n, q) \in 0 .. n
         /\ \A i \in 1 .. n : p[i] < q <=> i <= PairsBelow(p, n, q)
<1>. DEFINE A == {i \in 1 .. n : p[i] < q}  m == Cardinality(A)
<1>1. IsFiniteSet(A) /\ m \in 0 .. n
  <2>1. A \in SUBSET (1 .. n) /\ IsFiniteSet(1 .. n) /\ Cardinality(1 .. n) = n
    <3>1. n \in 0 .. n
      OBVIOUS
    <3>2. IsFiniteSet(1 .. n) /\ Cardinality(1 .. n) = n
      BY <3>1, CountTo
    <3>. QED BY <3>2
  <2>. HIDE DEF A
  <2>2. IsFiniteSet(A) /\ Cardinality(A) <= n /\ Cardinality(A) \in Nat
    BY <2>1, FS_Subset, FS_CardinalityType
  <2>. QED BY <2>2
<1>2. ASSUME NEW i \in 1 .. n, p[i] < q PROVE i <= m
  <2>1. 1 .. i \in SUBSET A
    BY <1>2 DEF Rising
  <2>2. Cardinality(1 .. i) = i
    BY CountTo
  <2>. HIDE DEF A
  <2>. QED BY <1>1, <2>1, <2>2, FS_Subset
<1>3. ASSUME NEW i \in 1 .. n, ~(p[i] < q) PROVE ~(i <= m)
  <2>1. A \in SUBSET (1 .. i - 1)
    BY <1>3 DEF Rising
  <2>2. IsFiniteSet(1 .. i - 1) /\ Cardinality(1 .. i - 1) = i - 1
    BY CountTo
  <2>. HIDE DEF A
  <2>3. m <= i - 1
    BY <2>1, <2>2, FS_Subset
  <2>. QED BY <1>1, <2>3
<1>. QED BY <1>1, <1>2, <1>3 DEF PairsBelow

LEMMA SegmentationIs ==
  ASSUME NEW n \in Nat, NEW p, DOMAIN p = 1 .. n, NEW c \in Nat
  PROVE  /\ Slots!Segmentation(p, c) \in Seq(Int) => Len(Slots!Segmentation(p, c)) = c + 1
         /\ Slots!Segmentation(p, c) = [q \in 1 .. c + 1 |-> PairsBelow(p, n, q - 1)]
<1>1. \A q : Slots!Cardinality({i \in DOMAIN p : p[i] < q - 1}) = PairsBelow(p, n, q - 1)
  BY SlotsCardinality, Zenon DEF PairsBelow
<1>2. Slots!Segmentation(p, c) = [q \in 1 .. c + 1 |-> PairsBelow(p, n, q - 1)]
  BY <1>1 DEF Slots!Segmentation
<1>. HIDE DEF Slots!Segmentation
<1>. QED BY <1>2

\* The rows between two of the offsets o of n rows are those of one of c pairs.
Segmented(o, p, n, c) ==
  /\ o \in [1 .. c + 1 -> 0 .. n] /\ Len(o) = c + 1
  /\ o[1] = 0 /\ o[c + 1] = n
  /\ \A i \in 1 .. n : p[i] + 1 \in 1 .. c /\ i \in o[p[i] + 1] + 1 .. o[p[i] + 2]

LEMMA Segments ==
  ASSUME NEW n \in Nat, NEW p, DOMAIN p = 1 .. n, NEW c \in Nat,
         \A i \in 1 .. n : p[i] \in 0 .. c - 1, Rising(p, n)
  PROVE  Segmented(Slots!Segmentation(p, c), p, n, c)
<1>. DEFINE o == Slots!Segmentation(p, c)
<1>1. o = [q \in 1 .. c + 1 |-> PairsBelow(p, n, q - 1)]
  BY SegmentationIs
<1>. HIDE DEF o
<1>2. \A q \in Int : /\ PairsBelow(p, n, q) \in 0 .. n
                     /\ \A i \in 1 .. n : p[i] < q <=> i <= PairsBelow(p, n, q)
  <2>1. \A i \in 1 .. n : p[i] \in Int
    OBVIOUS
  <2>. QED BY <2>1, PairsBelowIs
<1>3. o \in [1 .. c + 1 -> 0 .. n] /\ Len(o) = c + 1
  <2>1. \A q \in 1 .. c + 1 : q - 1 \in Int
    OBVIOUS
  <2>2. o \in [1 .. c + 1 -> 0 .. n]
    BY <1>1, <1>2, <2>1
  <2>. QED BY <2>2
<1>4. o[1] = 0
  <2>1. o[1] = PairsBelow(p, n, 0)
    BY <1>1
  <2>2. PairsBelow(p, n, 0) >= 1 => 1 \in 1 .. n /\ p[1] < 0
    BY <1>2
  <2>. QED BY <1>2, <2>1, <2>2
<1>5. o[c + 1] = n
  <2>1. o[c + 1] = PairsBelow(p, n, c)
    BY <1>1
  <2>2. n >= 1 => p[n] < c
    OBVIOUS
  <2>. QED BY <1>2, <2>1, <2>2
<1>6. ASSUME NEW i \in 1 .. n PROVE p[i] + 1 \in 1 .. c /\ i \in o[p[i] + 1] + 1 .. o[p[i] + 2]
  <2>. DEFINE q == p[i]
  <2>1. q \in Int /\ q \in 0 .. c - 1
    OBVIOUS
  <2>. HIDE DEF q
  <2>2. o[q + 1] = PairsBelow(p, n, q) /\ o[q + 2] = PairsBelow(p, n, q + 1)
    BY <1>1, <2>1
  <2>a. /\ p[i] < q <=> i <= PairsBelow(p, n, q)
        /\ p[i] < q + 1 <=> i <= PairsBelow(p, n, q + 1)
    BY <1>2, <2>1
  <2>b. p[i] = q
    BY DEF q
  <2>3. ~(i <= PairsBelow(p, n, q)) /\ i <= PairsBelow(p, n, q + 1)
    BY <2>1, <2>a, <2>b
  <2>4. PairsBelow(p, n, q) \in Int /\ PairsBelow(p, n, q + 1) \in Int
    BY <1>2, <2>1
  <2>5. q + 1 \in 1 .. c /\ i \in o[q + 1] + 1 .. o[q + 2]
    BY <2>1, <2>2, <2>3, <2>4
  <2>. QED BY <2>5 DEF q
<1>7. Segmented(o, p, n, c)
  BY <1>3, <1>4, <1>5, <1>6 DEF Segmented
<1>. QED BY <1>7 DEF o

\* A row whose endpoints are of one of T slots of s sources and k sinks.
Placed(r, s, k, T) ==
  r.source \div s \in 0 .. T - 1 /\ r.sink - (r.source \div s) * k \in 0 .. k - 1

LEMMA QuotientIs ==
  ASSUME NEW s \in Nat \ {0}, NEW T \in Nat \ {0}, NEW x \in Int
  PROVE  /\ x \in 0 .. T * s - 1 <=> x \div s \in 0 .. T - 1
         /\ x \div s \in Int /\ x - (x \div s) * s \in 0 .. s - 1
<1>. DEFINE q == x \div s  m == x % s
<1>1. q \in Int /\ m \in 0 .. s - 1 /\ x = s * q + m
  BY Division
<1>2. x - q * s = m
  <2>. HIDE DEF q, m
  <2>. QED BY <1>1
<1>3. x \in 0 .. T * s - 1 => q \in 0 .. T - 1
  <2>. SUFFICES ASSUME x \in 0 .. T * s - 1 PROVE q \in 0 .. T - 1
    OBVIOUS
  <2>1. x + 1 \in 1 .. T * s /\ (x + 1) - 1 = x /\ s \in Nat /\ T \in Nat
    OBVIOUS
  <2>2. ((x + 1) - 1) \div s \in 0 .. T - 1
    BY <2>1, PlaceOf
  <2>. QED BY <2>1, <2>2
<1>4. q \in 0 .. T - 1 => x \in 0 .. T * s - 1
  <2>. SUFFICES ASSUME q \in 0 .. T - 1 PROVE x \in 0 .. T * s - 1
    OBVIOUS
  <2>. HIDE DEF q, m
  <2>1. m + 1 \in 1 .. s /\ s \in Nat /\ T \in Nat
    BY <1>1
  <2>2. q * s + (m + 1) \in 1 .. T * s
    BY <2>1, Places
  <2>3. q * s \in Int /\ T * s \in Int /\ x = q * s + m
    BY <1>1
  <2>. QED BY <1>1, <2>2, <2>3
<1>. QED BY <1>1, <1>2, <1>3, <1>4

LEMMA PlacedIs ==
  ASSUME NEW r \in Slots!Rows, NEW s \in Nat \ {0}, NEW k \in Nat \ {0}, NEW T \in Nat \ {0}
  PROVE  Placed(r, s, k, T) <=>
           /\ r.source \in 0 .. T * s - 1 /\ r.sink \in 0 .. T * k - 1
           /\ T > 1 => ~Slots!SlotBroken(r, s, k)
<1>. DEFINE q == r.source \div s
<1>1. r.source \in Int /\ r.sink \in Int
  BY DEF Slots!Rows
<1>2. q \in Int /\ (r.source \in 0 .. T * s - 1 <=> q \in 0 .. T - 1)
  BY <1>1, QuotientIs
<1>3. Slots!SlotBroken(r, s, k) <=> r.sink - q * k \notin 0 .. k - 1
  BY DEF Slots!SlotBroken
<1>4. Placed(r, s, k, T) <=> q \in 0 .. T - 1 /\ r.sink - q * k \in 0 .. k - 1
  BY DEF Placed
<1>. HIDE DEF q
<1>5. ASSUME q \in 0 .. T - 1, r.sink - q * k \in 0 .. k - 1 PROVE r.sink \in 0 .. T * k - 1
  <2>. DEFINE x == r.sink - q * k
  <2>1. x + 1 \in 1 .. k /\ k \in Nat /\ T \in Nat
    BY <1>5
  <2>2. q * k + (x + 1) \in 1 .. T * k
    BY <1>5, <2>1, Places
  <2>. DEFINE qk == q * k  Tk == T * k
  <2>3. qk \in Int /\ Tk \in Int /\ x \in 0 .. k - 1
    BY <1>2, <1>5
  <2>4. r.sink = qk + x /\ qk + (x + 1) \in 1 .. Tk
    <3>1. qk + (x + 1) \in 1 .. Tk
      BY <2>2
    <3>2. x = r.sink - qk
      OBVIOUS
    <3>. HIDE DEF qk, Tk, x
    <3>. QED BY <1>1, <2>3, <3>1, <3>2
  <2>5. r.sink \in 0 .. Tk - 1
    <3>. HIDE DEF qk, Tk, x
    <3>. QED BY <2>3, <2>4
  <2>. QED BY <2>5
<1>6. ASSUME T = 1, q \in 0 .. T - 1, r.sink \in 0 .. T * k - 1 PROVE r.sink - q * k \in 0 .. k - 1
  <2>1. q = 0 /\ q * k = 0 /\ T * k = k
    BY <1>2, <1>6
  <2>. QED BY <1>1, <1>6, <2>1
<1>. QED BY <1>2, <1>3, <1>4, <1>5, <1>6

\* A pair is of the slot of its row, and one of as many as the slots have.
LEMMA PairIs ==
  ASSUME NEW r \in Slots!Rows, NEW s \in Nat \ {0}, NEW k \in Nat \ {0}, NEW T \in Nat \ {0},
         Placed(r, s, k, T)
  PROVE  LET q == r.source \div s  p == Slots!PairOf(r, s, k)
         IN /\ p - q * (s * k) \in 0 .. s * k - 1
            /\ p \in 0 .. T * s * k - 1
<1>. DEFINE q == r.source \div s  p == Slots!PairOf(r, s, k)  x == r.sink - q * k  y == r.source - q * s
            z == x * s + y
<1>1. r.source \in Int /\ r.sink \in Int
  BY DEF Slots!Rows
<1>2. q \in 0 .. T - 1 /\ y \in 0 .. s - 1 /\ x \in 0 .. k - 1
  BY <1>1, QuotientIs DEF Placed
<1>3. p = q * s * k + x * s + y
  BY DEF Slots!PairOf
<1>. HIDE DEF q, p, x, y
<1>4. z \in 0 .. k * s - 1
  <2>1. y + 1 \in 1 .. s /\ s \in Nat /\ k \in Nat
    BY <1>2
  <2>2. x * s + (y + 1) \in 1 .. k * s
    BY <1>2, <2>1, Places
  <2>3. x * s \in Int /\ k * s \in Int
    BY <1>2
  <2>. QED BY <1>2, <2>2, <2>3
<1>5. k * s = s * k /\ s * k \in Nat /\ q * s * k = q * (s * k) /\ T * s * k = T * (s * k)
      /\ q * s * k \in Int /\ T * s * k \in Int /\ x * s \in Int
  BY <1>2
<1>6. p = q * (s * k) + z /\ z \in Int /\ q * (s * k) \in Int
  BY <1>2, <1>3, <1>5
<1>7. q * (s * k) + (z + 1) \in 1 .. T * (s * k)
  <2>. DEFINE m == s * k
  <2>1. z + 1 \in 1 .. m
    <3>. HIDE DEF z
    <3>. QED BY <1>4, <1>5, <1>6
  <2>2. m \in Nat
    BY <1>5
  <2>. HIDE DEF z, m
  <2>3. q * m + (z + 1) \in 1 .. T * m
    BY <1>2, <2>1, <2>2, Places
  <2>. QED BY <2>3 DEF m
<1>. DEFINE m == s * k  qm == q * m  Tm == T * m  Tsk == T * s * k
<1>8. p = qm + z /\ z \in 0 .. m - 1 /\ qm + (z + 1) \in 1 .. Tm /\ Tsk = Tm /\ qm \in Int /\ Tm \in Int /\ m \in Int
  <2>. HIDE DEF z
  <2>. QED BY <1>4, <1>5, <1>6, <1>7
<1>. HIDE DEF z, m, qm, Tm, Tsk
<1>9. p - qm \in 0 .. m - 1 /\ p \in 0 .. Tsk - 1
  BY <1>8
<1>. QED BY <1>9 DEF q, p, m, qm, Tsk

\* What a request is given, slot by slot: T slots of as many endpoints.
Stacked(ids, T) == ids \in Seq(Int) /\ T \in Nat \ {0} /\ Len(ids) % T = 0

LEMMA StackedIs ==
  ASSUME NEW ids, NEW T, Stacked(ids, T)
  PROVE  /\ Len(ids) \div T \in Nat /\ Len(ids) = T * (Len(ids) \div T)
         /\ ids # <<>> <=> Len(ids) \div T # 0
<1>. DEFINE n == Len(ids)  s == n \div T
<1>1. n \in Nat /\ T \in Nat \ {0} /\ n % T = 0 /\ (ids # <<>> <=> n # 0)
  BY DEF Stacked
<1>. HIDE DEF n
<1>2. s \in Int /\ n = T * s + 0
  BY <1>1, Division
<1>. HIDE DEF s
<1>3. s >= 0
  <2>1. s <= -1 => T * s <= -T
    BY <1>1, <1>2, MultipleIsBig
  <2>2. T * s \in Int
    BY <1>1, <1>2
  <2>. QED BY <1>1, <1>2, <2>1, <2>2
<1>4. n = T * s /\ (n # 0 <=> s # 0)
  BY <1>1, <1>2, <1>3
<1>. QED BY <1>1, <1>2, <1>3, <1>4 DEF s, n

\* The contract of a request, in terms of the slots of its rows.
Contract(f, sources, sinks, T, s, k) ==
  /\ s # 0 /\ k # 0
  /\ \A i \in 1 .. Len(f) : Placed(f[i], s, k, T) /\ Slots!Identified(f[i], sources, sinks)
  /\ \A i \in 2 .. Len(f) : Slots!PairOf(f[i], s, k) >= Slots!PairOf(f[i - 1], s, k)

LEMMA AcceptedIs ==
  ASSUME NEW f \in Seq(Slots!Rows), NEW sources, NEW sinks, NEW T,
         Stacked(sources, T), Stacked(sinks, T)
  PROVE  Slots!Accepted(f, sources, sinks, T) <=>
           (f # <<>> => Contract(f, sources, sinks, T, Len(sources) \div T, Len(sinks) \div T))
<1>. DEFINE s == Len(sources) \div T  k == Len(sinks) \div T  p == Slots!PairsOf(f, s, k)
<1>1. s \in Nat /\ k \in Nat /\ Len(sources) = T * s /\ Len(sinks) = T * k /\ T \in Nat \ {0}
      /\ (sources # <<>> <=> s # 0) /\ (sinks # <<>> <=> k # 0)
  BY StackedIs DEF Stacked
<1>2. p = [i \in 1 .. Len(f) |-> Slots!PairOf(f[i], s, k)]
  BY DEF Slots!PairsOf
<1>3. Slots!Accepted(f, sources, sinks, T) <=>
        (f # <<>> => /\ sources # <<>> /\ sinks # <<>>
                     /\ \A i \in DOMAIN f : /\ Slots!InBounds(f[i], sources, sinks)
                                            /\ Slots!Identified(f[i], sources, sinks)
                                            /\ T > 1 => ~Slots!SlotBroken(f[i], s, k)
                     /\ Slots!Ordered(p, f))
  BY Zenon DEF Slots!Accepted
<1>4. Slots!Ordered(p, f) <=> \A i \in 2 .. Len(f) : Slots!PairOf(f[i], s, k) >= Slots!PairOf(f[i - 1], s, k)
  <2>1. Len(p) = Len(f) /\ \A i \in 2 .. Len(f) : i \in 1 .. Len(f) /\ i - 1 \in 1 .. Len(f)
    BY <1>2
  <2>2. \A i \in 2 .. Len(f) : p[i] = Slots!PairOf(f[i], s, k) /\ p[i - 1] = Slots!PairOf(f[i - 1], s, k)
    BY <1>2, <2>1
  <2>. HIDE DEF p, s, k
  <2>. QED BY <2>1, <2>2 DEF Slots!Ordered
<1>5. ASSUME s # 0, k # 0, NEW i \in 1 .. Len(f)
      PROVE  Placed(f[i], s, k, T) <=> /\ Slots!InBounds(f[i], sources, sinks)
                                       /\ T > 1 => ~Slots!SlotBroken(f[i], s, k)
  <2>1. f[i] \in Slots!Rows
    OBVIOUS
  <2>2. Slots!InBounds(f[i], sources, sinks) <=> f[i].source \in 0 .. T * s - 1 /\ f[i].sink \in 0 .. T * k - 1
    <3>. HIDE DEF s, k
    <3>. QED BY <1>1 DEF Slots!InBounds
  <2>. HIDE DEF s, k
  <2>3. s \in Nat \ {0} /\ k \in Nat \ {0}
    BY <1>1, <1>5
  <2>. QED BY <1>1, <2>1, <2>2, <2>3, PlacedIs
<1>6. DOMAIN f = 1 .. Len(f)
  OBVIOUS
<1>. HIDE DEF s, k, p
<1>7. Slots!Accepted(f, sources, sinks, T) <=> (f # <<>> => Contract(f, sources, sinks, T, s, k))
  BY <1>1, <1>3, <1>4, <1>5, <1>6 DEF Contract
<1>. QED BY <1>7 DEF s, k

\* The pairs of a request that is accepted: in order, and as many as the slots
\* have.
LEMMA AcceptedPairs ==
  ASSUME NEW f \in Seq(Slots!Rows), NEW sources, NEW sinks, NEW T,
         Stacked(sources, T), Stacked(sinks, T), Slots!Accepted(f, sources, sinks, T)
  PROVE  LET s == Len(sources) \div T  k == Len(sinks) \div T  p == Slots!PairsOf(f, s, k)
         IN /\ T * s * k \in Nat
            /\ DOMAIN p = 1 .. Len(f)
            /\ \A i \in 1 .. Len(f) : p[i] = Slots!PairOf(f[i], s, k) /\ p[i] \in 0 .. T * s * k - 1
            /\ Rising(p, Len(f))
<1>. DEFINE s == Len(sources) \div T  k == Len(sinks) \div T  p == Slots!PairsOf(f, s, k)
            c == T * s * k  n == Len(f)
<1>1. s \in Nat /\ k \in Nat /\ T \in Nat \ {0} /\ n \in Nat
  BY StackedIs DEF Stacked
<1>2. p = [i \in 1 .. n |-> Slots!PairOf(f[i], s, k)]
  BY DEF Slots!PairsOf
<1>3. f # <<>> => Contract(f, sources, sinks, T, s, k)
  BY AcceptedIs
<1>4. c \in Nat
  <2>. HIDE DEF s, k
  <2>1. T * s \in Nat
    BY <1>1
  <2>. DEFINE Ts == T * s
  <2>. HIDE DEF Ts
  <2>2. Ts * k \in Nat
    BY <1>1, <2>1 DEF Ts
  <2>. QED BY <2>2 DEF Ts
<1>. HIDE DEF s, k, p, c, n
<1>5. ASSUME NEW i \in 1 .. n
      PROVE  p[i] = Slots!PairOf(f[i], s, k) /\ p[i] \in 0 .. c - 1
  <2>1. f # <<>> /\ f[i] \in Slots!Rows /\ i \in 1 .. Len(f)
    BY DEF n
  <2>2. s \in Nat \ {0} /\ k \in Nat \ {0} /\ Placed(f[i], s, k, T)
    BY <1>1, <1>3, <2>1 DEF Contract
  <2>3. Slots!PairOf(f[i], s, k) \in 0 .. T * s * k - 1
    BY <1>1, <2>1, <2>2, PairIs
  <2>. QED BY <1>2, <2>3 DEF c
<1>6. ASSUME NEW i \in 2 .. n PROVE p[i] >= p[i - 1]
  <2>1. f # <<>> /\ i \in 2 .. Len(f) /\ i \in 1 .. n /\ i - 1 \in 1 .. n
    BY <1>1 DEF n
  <2>2. Slots!PairOf(f[i], s, k) >= Slots!PairOf(f[i - 1], s, k)
    BY <1>3, <2>1 DEF Contract
  <2>. QED BY <1>2, <2>1, <2>2
<1>7. Rising(p, n)
  <2>1. \A i \in 1 .. n : p[i] \in Int
    BY <1>4, <1>5
  <2>. QED BY <1>1, <1>6, <2>1, StepsRise
<1>8. DOMAIN p = 1 .. n
  BY <1>2
<1>. QED BY <1>4, <1>5, <1>7, <1>8 DEF s, k, p, c, n

\* The first slot repeats the rows as they are.
LEMMA ShiftedByNone ==
  ASSUME NEW r \in Slots!Rows, NEW a \in Int, NEW b \in Int PROVE Shifted(r, 0, a, b) = r
<1>1. 0 * a = 0 /\ 0 * b = 0
  OBVIOUS
<1>2. Shifted(r, 0, a, b) = [r EXCEPT !.source = r.source + 0, !.sink = r.sink + 0]
  BY <1>1 DEF Shifted, Slots!Rows
<1>3. r.source + 0 = r.source /\ r.sink + 0 = r.sink
  BY DEF Slots!Rows
<1>. QED BY <1>2, <1>3 DEF Slots!Rows

LEMMA TileHead ==
  ASSUME NEW f \in Seq(Slots!Rows), NEW T \in Nat \ {0}, NEW a \in Int, NEW b \in Int
  PROVE  SubSeq(TileOf(f, T, a, b), 1, Len(TileOf(f, T, a, b)) \div T) = f
<1>. DEFINE g == TileOf(f, T, a, b)  n == Len(f)
<1>1. g \in Seq(Slots!Rows) /\ Len(g) = T * n /\ n \in Nat
      /\ \A t \in 0 .. T - 1, r \in 1 .. n : g[t * n + r] = Shifted(f[r], t, a, b)
  BY TileIs
<1>2. \A r \in 1 .. n : f[r] \in Slots!Rows
  OBVIOUS
<1>3. f = [r \in 1 .. n |-> f[r]]
  OBVIOUS
<1>. HIDE DEF g, n
<1>4. Len(g) \div T = n /\ n <= T * n
  <2>1. (T * n + 0) \div T = n
    BY <1>1, DivisionIs
  <2>2. T * n \in Int /\ T * n + 0 = T * n
    BY <1>1
  <2>3. n * (T - 1) >= 0 /\ n * (T - 1) = T * n - n
    BY <1>1
  <2>. QED BY <1>1, <2>1, <2>2, <2>3
<1>5. ASSUME NEW r \in 1 .. n PROVE g[r] = f[r]
  <2>1. 0 * n + r = r /\ 0 \in 0 .. T - 1
    BY <1>1
  <2>2. g[0 * n + r] = Shifted(f[r], 0, a, b)
    BY <1>1, <2>1
  <2>. QED BY <1>2, <2>1, <2>2, ShiftedByNone
<1>6. SubSeq(g, 1, n) = [r \in 1 .. n |-> g[r]]
  BY <1>1, <1>4
<1>7. SubSeq(g, 1, n) = f
  BY <1>3, <1>5, <1>6
<1>. QED BY <1>4, <1>7 DEF g

LEMMA TileOne ==
  ASSUME NEW f \in Seq(Slots!Rows), NEW a \in Int, NEW b \in Int PROVE TileOf(f, 1, a, b) = f
<1>. DEFINE g == TileOf(f, 1, a, b)  n == Len(f)
<1>1. 1 \in Nat \ {0}
  OBVIOUS
<1>2. SubSeq(g, 1, Len(g) \div 1) = f
  BY <1>1, TileHead
<1>3. g \in Seq(Slots!Rows) /\ Len(g) \div 1 = Len(g)
  BY TileIs
<1>. HIDE DEF g
<1>4. SubSeq(g, 1, Len(g)) = g
  BY <1>3
<1>. QED BY <1>2, <1>3, <1>4 DEF g

\* A copy is of the slot as many on, and of its pairs.
LEMMA ShiftedPlace ==
  ASSUME NEW x \in Slots!Rows, NEW t \in Nat, NEW s \in Nat \ {0}, NEW k \in Nat \ {0}
  PROVE  /\ x.source \div s \in Int
         /\ Shifted(x, t, s, k).source \div s = x.source \div s + t
         /\ Shifted(x, t, s, k).sink - (Shifted(x, t, s, k).source \div s) * k
              = x.sink - (x.source \div s) * k
         /\ Slots!PairOf(Shifted(x, t, s, k), s, k) = t * (s * k) + Slots!PairOf(x, s, k)
<1>. DEFINE y == Shifted(x, t, s, k)  q == x.source \div s  m == x.source % s
<1>1. /\ x.source \in Int /\ x.sink \in Int
      /\ y.source = x.source + t * s /\ y.sink = x.sink + t * k
  <2>1. t \in Int /\ s \in Int /\ k \in Int
    OBVIOUS
  <2>. HIDE DEF y
  <2>2. y.source = x.source + t * s /\ y.sink = x.sink + t * k
    BY <2>1, ShiftedRow DEF y
  <2>. QED BY <2>2 DEF Slots!Rows
<1>. HIDE DEF y
<1>2. q \in Int /\ m \in 0 .. s - 1 /\ x.source = s * q + m
  BY <1>1, Division
<1>. HIDE DEF q, m
<1>3. y.source = s * (q + t) + m /\ q + t \in Int
  <2>1. s * (q + t) = s * q + t * s /\ s * q \in Int /\ t * s \in Int
    BY <1>2
  <2>. QED BY <1>1, <1>2, <2>1
<1>4. y.source \div s = q + t
  BY <1>2, <1>3, DivisionIs
<1>5. y.sink - (q + t) * k = x.sink - q * k
  <2>1. (q + t) * k = q * k + t * k /\ q * k \in Int /\ t * k \in Int
    BY <1>2
  <2>. QED BY <1>1, <2>1
<1>6. Slots!PairOf(x, s, k) = q * s * k + (x.sink - q * k) * s + (x.source - q * s)
  BY DEF Slots!PairOf, q
<1>7. Slots!PairOf(y, s, k) = (q + t) * s * k + (y.sink - (q + t) * k) * s + (y.source - (q + t) * s)
  BY <1>4 DEF Slots!PairOf
<1>8. y.source - (q + t) * s = x.source - q * s
  <2>1. (q + t) * s = q * s + t * s /\ q * s \in Int /\ t * s \in Int
    BY <1>2
  <2>. QED BY <1>1, <2>1
<1>9. (q + t) * s * k = t * (s * k) + q * s * k
  BY <1>2
<1>10. Slots!PairOf(y, s, k) = t * (s * k) + Slots!PairOf(x, s, k)
  <2>. DEFINE u == (x.sink - q * k) * s  v == x.source - q * s  w == t * (s * k)  z == q * s * k
  <2>1. u \in Int /\ v \in Int /\ w \in Int /\ z \in Int
    BY <1>1, <1>2
  <2>2. Slots!PairOf(y, s, k) = w + z + u + v
    BY <1>5, <1>7, <1>8, <1>9
  <2>3. Slots!PairOf(x, s, k) = z + u + v
    BY <1>6
  <2>. HIDE DEF u, v, w, z
  <2>4. Slots!PairOf(y, s, k) = w + Slots!PairOf(x, s, k)
    BY <2>1, <2>2, <2>3
  <2>. QED BY <2>4 DEF w
<1>. QED BY <1>2, <1>4, <1>5, <1>10 DEF y, q

\* The endpoints of one slot.
LEMMA SlotOfIs ==
  ASSUME NEW ids, NEW T, Stacked(ids, T), NEW t \in 0 .. T - 1
  PROVE  LET s == Len(ids) \div T
         IN /\ Stacked(Slots!SlotOf(ids, t, T), 1)
            /\ Len(Slots!SlotOf(ids, t, T)) = s /\ Len(Slots!SlotOf(ids, t, T)) \div 1 = s
            /\ \A x \in 0 .. s - 1 : Slots!SlotOf(ids, t, T)[x + 1] = ids[x + t * s + 1]
<1>. DEFINE s == Len(ids) \div T  one == Slots!SlotOf(ids, t, T)  ts == t * s
<1>1. ids \in Seq(Int) /\ s \in Nat /\ Len(ids) = T * s /\ T \in Nat
  BY StackedIs DEF Stacked
<1>2. one = SubSeq(ids, t * s + 1, (t + 1) * s)
  BY DEF Slots!SlotOf
<1>. HIDE DEF s, one
<1>3. (t + 1) * s = ts + s /\ ts \in Nat /\ ts + s <= Len(ids)
  <2>1. (t + 1) * s = t * s + s /\ t * s \in Int /\ T * s \in Int
    BY <1>1
  <2>2. s * t >= 0 /\ s * (T - 1 - t) >= 0
    BY <1>1
  <2>3. s * t = t * s /\ s * (T - 1 - t) = T * s - s - t * s
    BY <1>1
  <2>. QED BY <1>1, <2>1, <2>2, <2>3
<1>. HIDE DEF ts
<1>4. one = SubSeq(ids, ts + 1, ts + s)
  BY <1>2, <1>3 DEF ts
<1>5. one \in Seq(Int) /\ Len(one) = s /\ \A x \in 1 .. s : one[x] = ids[ts + x]
  BY <1>1, <1>3, <1>4
<1>6. Len(one) \div 1 = s /\ Len(one) % 1 = 0
  BY <1>1, <1>5
<1>7. ASSUME NEW x \in 0 .. s - 1 PROVE one[x + 1] = ids[x + t * s + 1]
  <2>1. x + 1 \in 1 .. s /\ ts + (x + 1) = x + ts + 1
    BY <1>1, <1>3
  <2>. QED BY <1>5, <2>1 DEF ts
<1>8. Stacked(one, 1)
  BY <1>5, <1>6 DEF Stacked
<1>. QED BY <1>5, <1>6, <1>7, <1>8 DEF s, one

\* A copy of a row in a slot is what the row is to that slot alone.
LEMMA CopyIs ==
  ASSUME NEW x \in Slots!Rows, NEW sources, NEW sinks, NEW T, Stacked(sources, T), Stacked(sinks, T),
         NEW t \in 0 .. T - 1,
         Len(sources) \div T # 0, Len(sinks) \div T # 0,
         Placed(x, Len(sources) \div T, Len(sinks) \div T, 1)
  PROVE  LET s == Len(sources) \div T  k == Len(sinks) \div T  y == Shifted(x, t, s, k)
         IN /\ Placed(y, s, k, T)
            /\ Slots!Identified(y, sources, sinks)
                 <=> Slots!Identified(x, Slots!SlotOf(sources, t, T), Slots!SlotOf(sinks, t, T))
<1>. DEFINE s == Len(sources) \div T  k == Len(sinks) \div T  y == Shifted(x, t, s, k)
<1>1. s \in Nat \ {0} /\ k \in Nat \ {0} /\ T \in Nat \ {0} /\ t \in Nat
  BY StackedIs DEF Stacked
<1>2. x.source \div s \in 0 .. 0 /\ x.sink - (x.source \div s) * k \in 0 .. k - 1
  BY DEF Placed
<1>3. x.source \in Int /\ x.sink \in Int
  BY DEF Slots!Rows
<1>4. \A j \in 0 .. s - 1 : Slots!SlotOf(sources, t, T)[j + 1] = sources[j + t * s + 1]
  BY SlotOfIs
<1>5. \A j \in 0 .. k - 1 : Slots!SlotOf(sinks, t, T)[j + 1] = sinks[j + t * k + 1]
  BY SlotOfIs
<1>. HIDE DEF s, k
<1>6. /\ y.source \div s = x.source \div s + t
      /\ y.sink - (y.source \div s) * k = x.sink - (x.source \div s) * k
  <2>1. t \in Nat /\ s \in Nat \ {0} /\ k \in Nat \ {0}
    BY <1>1
  <2>. QED BY <2>1, ShiftedPlace
<1>7. y.source = x.source + t * s /\ y.sink = x.sink + t * k /\ y.sourceId = x.sourceId /\ y.sinkId = x.sinkId
  <2>1. t \in Int /\ s \in Int /\ k \in Int
    BY <1>1
  <2>2. /\ y.source = x.source + t * s /\ y.sink = x.sink + t * k
        /\ \A c \in {"sourceId", "sinkId", "component", "depth"} : y[c] = x[c]
    BY <2>1, ShiftedRow
  <2>. HIDE DEF y
  <2>. QED BY <2>2
<1>. HIDE DEF y
<1>8. Placed(y, s, k, T)
  <2>1. x.source \div s = 0
    BY <1>2
  <2>2. y.source \div s = t
    BY <1>1, <1>6, <2>1
  <2>. QED BY <1>1, <1>2, <1>6, <2>2 DEF Placed
<1>9. x.source \in 0 .. s - 1 /\ x.sink \in 0 .. k - 1
  <2>1. x.source \div s = 0 /\ 0 * k = 0
    BY <1>1, <1>2
  <2>2. x.source \in 0 .. 1 * s - 1
    <3>1. x.source \in 0 .. 1 * s - 1 <=> x.source \div s \in 0 .. 1 - 1
      <4>1. 1 \in Nat \ {0}
        OBVIOUS
      <4>. QED BY ONLY <1>1, <1>3, <4>1, QuotientIs, Zenon
    <3>. QED BY <2>1, <3>1
  <2>. QED BY <1>1, <1>2, <1>3, <2>1, <2>2
<1>10. /\ Slots!SlotOf(sources, t, T)[x.source + 1] = sources[x.source + t * s + 1]
       /\ Slots!SlotOf(sinks, t, T)[x.sink + 1] = sinks[x.sink + t * k + 1]
  BY <1>4, <1>5, <1>9
<1>11. Slots!Identified(y, sources, sinks)
         <=> Slots!Identified(x, Slots!SlotOf(sources, t, T), Slots!SlotOf(sinks, t, T))
  BY <1>7, <1>10, Zenon DEF Slots!Identified
<1>. QED BY <1>8, <1>11 DEF y, s, k

\* The rows of one slot after those of the one before.
LEMMA TilePairs ==
  ASSUME NEW g \in Seq(Slots!Rows), NEW T \in Nat \ {0}, NEW s \in Nat \ {0}, NEW k \in Nat \ {0}
  PROVE  \A t \in 0 .. T - 1, r \in 1 .. Len(g) :
           Slots!PairOf(TileOf(g, T, s, k)[t * Len(g) + r], s, k) = t * (s * k) + Slots!PairOf(g[r], s, k)
<1>. SUFFICES ASSUME NEW t \in 0 .. T - 1, NEW r \in 1 .. Len(g)
     PROVE Slots!PairOf(TileOf(g, T, s, k)[t * Len(g) + r], s, k) = t * (s * k) + Slots!PairOf(g[r], s, k)
  OBVIOUS
<1>1. TileOf(g, T, s, k)[t * Len(g) + r] = Shifted(g[r], t, s, k)
  BY TileIs
<1>2. g[r] \in Slots!Rows /\ t \in Nat
  OBVIOUS
<1>3. Slots!PairOf(Shifted(g[r], t, s, k), s, k) = t * (s * k) + Slots!PairOf(g[r], s, k)
  <2>. DEFINE x == g[r]
  <2>1. x \in Slots!Rows /\ t \in Nat
    BY <1>2
  <2>. HIDE DEF x
  <2>2. Slots!PairOf(Shifted(x, t, s, k), s, k) = t * (s * k) + Slots!PairOf(x, s, k)
    BY <2>1, ShiftedPlace
  <2>. QED BY <2>2 DEF x
<1>. QED BY <1>1, <1>3, Zenon

\* A row of the first of several slots, as the only one.
LEMMA PlacedAlone ==
  ASSUME NEW x \in Slots!Rows, NEW T \in Nat \ {0}, NEW s \in Nat \ {0}, NEW k \in Nat \ {0},
         \A t \in 0 .. T - 1 : Placed(Shifted(x, t, s, k), s, k, T)
  PROVE  Placed(x, s, k, 1)
<1>. DEFINE q == x.source \div s
<1>1. q \in Int
  BY ShiftedPlace, 0 \in Nat
<1>2. ASSUME NEW t \in 0 .. T - 1 PROVE q + t \in 0 .. T - 1 /\ x.sink - q * k \in 0 .. k - 1
  <2>1. t \in Nat
    OBVIOUS
  <2>2. /\ Shifted(x, t, s, k).source \div s = q + t
        /\ Shifted(x, t, s, k).sink - (Shifted(x, t, s, k).source \div s) * k = x.sink - q * k
    BY <2>1, ShiftedPlace
  <2>. HIDE DEF q
  <2>. QED BY <2>2, Zenon DEF Placed
<1>. HIDE DEF q
<1>3. q = 0 /\ x.sink - q * k \in 0 .. k - 1
  <2>1. 0 \in 0 .. T - 1 /\ T - 1 \in 0 .. T - 1
    OBVIOUS
  <2>2. q + 0 \in 0 .. T - 1 /\ q + (T - 1) \in 0 .. T - 1 /\ x.sink - q * k \in 0 .. k - 1
    BY <1>2, <2>1
  <2>. QED BY <1>1, <2>2
<1>. QED BY <1>3 DEF Placed, q

\* Copies of rows in order are in order, slot after slot, where each is placed.
LEMMA TileInOrder ==
  ASSUME NEW g \in Seq(Slots!Rows), NEW T \in Nat \ {0}, NEW s \in Nat \ {0}, NEW k \in Nat \ {0},
         \A r \in 1 .. Len(g) : Placed(g[r], s, k, 1),
         \A r \in 2 .. Len(g) : Slots!PairOf(g[r], s, k) >= Slots!PairOf(g[r - 1], s, k),
         NEW i \in 2 .. T * Len(g)
  PROVE  Slots!PairOf(TileOf(g, T, s, k)[i], s, k) >= Slots!PairOf(TileOf(g, T, s, k)[i - 1], s, k)
<1>. DEFINE n == Len(g)  m == s * k  P(r) == Slots!PairOf(g[r], s, k)  f == TileOf(g, T, s, k)
            t == (i - 1) \div n  r == ((i - 1) % n) + 1
<1>1. n \in Nat /\ m \in Nat
  OBVIOUS
<1>2. n # 0 /\ t \in 0 .. T - 1 /\ r \in 1 .. n /\ i = t * n + r
  <2>1. i \in 1 .. T * n
    OBVIOUS
  <2>. HIDE DEF n
  <2>. QED BY <1>1, <2>1, PlaceOf
<1>3. \A u \in 0 .. T - 1, z \in 1 .. n : Slots!PairOf(f[u * n + z], s, k) = u * m + P(z)
  BY TilePairs
<1>4. ASSUME NEW z \in 1 .. n PROVE P(z) \in 0 .. m - 1
  <2>1. g[z] \in Slots!Rows /\ Placed(g[z], s, k, 1) /\ 1 \in Nat \ {0}
    OBVIOUS
  <2>2. P(z) \in 0 .. 1 * s * k - 1
    BY <2>1, PairIs
  <2>3. 1 * s * k = m
    OBVIOUS
  <2>. QED BY <2>2, <2>3
<1>5. \A z \in 2 .. n : P(z) >= P(z - 1)
  OBVIOUS
<1>6. i \in Int /\ t \in Int /\ r \in Int
  BY <1>1, <1>2
<1>. HIDE DEF n, m, P, f, t, r
<1>7. CASE r >= 2
  <2>1. r \in 2 .. n /\ r - 1 \in 1 .. n /\ i - 1 = t * n + (r - 1) /\ t * n \in Int
    BY <1>1, <1>2, <1>7
  <2>2. Slots!PairOf(f[i], s, k) = t * m + P(r) /\ Slots!PairOf(f[i - 1], s, k) = t * m + P(r - 1)
    BY <1>2, <1>3, <2>1
  <2>3. P(r) >= P(r - 1) /\ P(r) \in Int /\ P(r - 1) \in Int /\ t * m \in Int
    BY <1>1, <1>2, <1>4, <1>5, <2>1
  <2>4. Slots!PairOf(f[i], s, k) >= Slots!PairOf(f[i - 1], s, k)
    BY <2>2, <2>3
  <2>. QED BY <2>4 DEF f
<1>8. CASE r = 1
  <2>1. t \in 1 .. T - 1 /\ t - 1 \in 0 .. T - 1 /\ n \in 1 .. n
    <3>1. t # 0
      <4>1. t = 0 => t * n = 0
        BY <1>1
      <4>. QED BY <1>2, <1>8, <4>1
    <3>. QED BY <1>1, <1>2, <3>1
  <2>2. i - 1 = (t - 1) * n + n
    <3>1. (t - 1) * n = t * n - n /\ t * n \in Int
      BY <1>1, <1>6
    <3>. QED BY <1>1, <1>2, <1>8, <3>1
  <2>3. Slots!PairOf(f[i], s, k) = t * m + P(1) /\ Slots!PairOf(f[i - 1], s, k) = (t - 1) * m + P(n)
    BY <1>2, <1>3, <1>8, <2>1, <2>2
  <2>4. (t - 1) * m = t * m - m /\ t * m \in Int
    BY <1>1, <1>6
  <2>5. P(1) \in 0 .. m - 1 /\ P(n) \in 0 .. m - 1
    BY <1>2, <1>4, <1>8, <2>1
  <2>6. Slots!PairOf(f[i], s, k) >= Slots!PairOf(f[i - 1], s, k)
    BY <1>1, <2>3, <2>4, <2>5
  <2>. QED BY <2>6 DEF f
<1>. QED BY <1>2, <1>6, <1>7, <1>8

\* Rows tiled by as many endpoints as the request has in a slot are accepted
\* exactly when they are in each of its slots.
LEMMA OneCall ==
  ASSUME NEW g \in Seq(Slots!Rows), NEW sources, NEW sinks, NEW T,
         Stacked(sources, T), Stacked(sinks, T), Len(sources) \div T # 0, Len(sinks) \div T # 0
  PROVE  Slots!Accepted(TileOf(g, T, Len(sources) \div T, Len(sinks) \div T), sources, sinks, T) <=>
           \A t \in 0 .. T - 1 :
             Slots!Accepted(g, Slots!SlotOf(sources, t, T), Slots!SlotOf(sinks, t, T), 1)
<1>. DEFINE s == Len(sources) \div T  k == Len(sinks) \div T  f == TileOf(g, T, s, k)  n == Len(g)
            so(t) == Slots!SlotOf(sources, t, T)  sk(t) == Slots!SlotOf(sinks, t, T)
<1>1. s \in Nat \ {0} /\ k \in Nat \ {0} /\ T \in Nat \ {0} /\ n \in Nat
  BY StackedIs DEF Stacked
<1>2. /\ f \in Seq(Slots!Rows) /\ Len(f) = T * n
      /\ \A t \in 0 .. T - 1, r \in 1 .. n : f[t * n + r] = Shifted(g[r], t, s, k)
  <2>1. T \in Nat /\ s \in Int /\ k \in Int
    BY <1>1
  <2>. HIDE DEF s, k
  <2>. QED BY <2>1, TileIs
<1>3. Slots!Accepted(f, sources, sinks, T) <=> (f # <<>> => Contract(f, sources, sinks, T, s, k))
  <2>. HIDE DEF f
  <2>. QED BY <1>2, AcceptedIs
<1>4. ASSUME NEW t \in 0 .. T - 1
      PROVE  Slots!Accepted(g, so(t), sk(t), 1) <=> (g # <<>> => Contract(g, so(t), sk(t), 1, s, k))
  <2>1. /\ Stacked(so(t), 1) /\ Len(so(t)) \div 1 = s
        /\ Stacked(sk(t), 1) /\ Len(sk(t)) \div 1 = k
    BY SlotOfIs
  <2>2. Slots!Accepted(g, so(t), sk(t), 1) <=>
          (g # <<>> => Contract(g, so(t), sk(t), 1, Len(so(t)) \div 1, Len(sk(t)) \div 1))
    <3>. HIDE DEF so, sk
    <3>. QED BY <2>1, AcceptedIs
  <2>. HIDE DEF so, sk, s, k
  <2>. QED BY <2>1, <2>2
<1>5. f # <<>> <=> n # 0
  <2>1. f # <<>> <=> T * n # 0
    <3>. HIDE DEF f, n
    <3>. QED BY <1>2
  <2>2. T * n # 0 <=> n # 0
    <3>. HIDE DEF n
    <3>1. T * n >= T \/ n = 0
      BY <1>1, MultipleIsBig
    <3>2. n = 0 => T * n = 0
      BY <1>1
    <3>. QED BY <1>1, <3>1, <3>2
  <2>. QED BY <2>1, <2>2
<1>6. g # <<>> <=> n # 0
  OBVIOUS
<1>7. \A r \in 1 .. n : g[r] \in Slots!Rows
  OBVIOUS
<1>8. ASSUME NEW t \in 0 .. T - 1, NEW r \in 1 .. n, Placed(g[r], s, k, 1)
      PROVE  /\ Placed(Shifted(g[r], t, s, k), s, k, T)
             /\ Slots!Identified(Shifted(g[r], t, s, k), sources, sinks) <=> Slots!Identified(g[r], so(t), sk(t))
  <2>1. g[r] \in Slots!Rows
    BY <1>7
  <2>. QED BY <1>8, <2>1, CopyIs
<1>9. ASSUME Contract(f, sources, sinks, T, s, k), NEW t \in 0 .. T - 1
      PROVE  Contract(g, so(t), sk(t), 1, s, k)
  <2>1. ASSUME NEW r \in 1 .. n, NEW u \in 0 .. T - 1
        PROVE  Placed(Shifted(g[r], u, s, k), s, k, T) /\ Slots!Identified(Shifted(g[r], u, s, k), sources, sinks)
    <3>. DEFINE i == u * n + r
    <3>1. i \in 1 .. Len(f)
      <4>1. i \in 1 .. T * n
        <5>. HIDE DEF n
        <5>. QED BY <1>1, Places
      <4>. HIDE DEF f, i, n
      <4>. QED BY <1>2, <4>1
    <3>2. f[i] = Shifted(g[r], u, s, k)
      BY <1>2
    <3>. HIDE DEF i, f, s, k
    <3>. QED BY <1>9, <3>1, <3>2 DEF Contract
  <2>2. ASSUME NEW r \in 1 .. n PROVE Placed(g[r], s, k, 1)
    <3>1. g[r] \in Slots!Rows
      BY <1>7
    <3>. HIDE DEF s, k, n
    <3>. QED BY <1>1, <2>1, <3>1, PlacedAlone
  <2>3. ASSUME NEW r \in 1 .. n PROVE Slots!Identified(g[r], so(t), sk(t))
    BY <1>8, <2>1, <2>2
  <2>4. ASSUME NEW r \in 2 .. n PROVE Slots!PairOf(g[r], s, k) >= Slots!PairOf(g[r - 1], s, k)
    <3>1. \A z \in 1 .. n : f[z] = g[z]
      <4>. SUFFICES ASSUME NEW z \in 1 .. n PROVE f[z] = g[z]
        OBVIOUS
      <4>1. 0 \in 0 .. T - 1 /\ 0 * n + z = z
        BY <1>1
      <4>2. f[0 * n + z] = Shifted(g[z], 0, s, k)
        BY <1>2, <4>1
      <4>3. Shifted(g[z], 0, s, k) = g[z]
        BY <1>1, <1>7, ShiftedByNone
      <4>. QED BY <4>1, <4>2, <4>3
    <3>2. r \in 2 .. Len(f) /\ r \in 1 .. n /\ r - 1 \in 1 .. n
      <4>. DEFINE Tn == T * n
      <4>1. n * (T - 1) >= 0 /\ n * (T - 1) = Tn - n /\ Tn \in Int
        BY <1>1
      <4>2. Tn >= n
        <5>1. n * (T - 1) \in Int
          BY <1>1
        <5>. HIDE DEF Tn, n
        <5>. QED BY <1>1, <4>1, <5>1
      <4>3. Len(f) = Tn
        BY <1>2
      <4>. HIDE DEF f, n, Tn
      <4>. QED BY <1>1, <4>1, <4>2, <4>3
    <3>. HIDE DEF f, s, k, n
    <3>3. Slots!PairOf(f[r], s, k) >= Slots!PairOf(f[r - 1], s, k)
      BY <1>9, <3>2 DEF Contract
    <3>. QED BY <3>1, <3>2, <3>3
  <2>. HIDE DEF so, sk, s, k
  <2>. QED BY <1>1, <2>2, <2>3, <2>4 DEF Contract, n
<1>10. ASSUME n # 0, \A t \in 0 .. T - 1 : Contract(g, so(t), sk(t), 1, s, k)
       PROVE  Contract(f, sources, sinks, T, s, k)
  <2>1. 0 \in 0 .. T - 1
    BY <1>1
  <2>2. /\ \A r \in 1 .. n : Placed(g[r], s, k, 1)
        /\ \A r \in 2 .. n : Slots!PairOf(g[r], s, k) >= Slots!PairOf(g[r - 1], s, k)
    <3>. HIDE DEF so, sk, s, k
    <3>. QED BY <1>10, <2>1 DEF Contract, n
  <2>3. \A t \in 0 .. T - 1, r \in 1 .. n : Slots!Identified(g[r], so(t), sk(t))
    <3>. HIDE DEF so, sk, s, k
    <3>. QED BY <1>10 DEF Contract, n
  <2>4. ASSUME NEW i \in 1 .. Len(f) PROVE Placed(f[i], s, k, T) /\ Slots!Identified(f[i], sources, sinks)
    <3>. DEFINE t == (i - 1) \div n  r == ((i - 1) % n) + 1
    <3>1. t \in 0 .. T - 1 /\ r \in 1 .. n /\ i = t * n + r
      <4>1. i \in 1 .. T * n /\ T \in Nat
        <5>. HIDE DEF f, n
        <5>. QED BY <1>1, <1>2
      <4>. HIDE DEF n
      <4>. QED BY <1>1, <4>1, PlaceOf
    <3>. HIDE DEF t, r
    <3>2. f[t * n + r] = Shifted(g[r], t, s, k)
      BY <1>2, <3>1
    <3>3. Placed(g[r], s, k, 1) /\ Slots!Identified(g[r], so(t), sk(t))
      BY <2>2, <2>3, <3>1
    <3>. QED BY <1>8, <3>1, <3>2, <3>3
  <2>5. ASSUME NEW i \in 2 .. Len(f) PROVE Slots!PairOf(f[i], s, k) >= Slots!PairOf(f[i - 1], s, k)
    <3>1. i \in 2 .. T * Len(g)
      BY <1>2
    <3>. HIDE DEF s, k
    <3>. QED BY <1>1, <2>2, <3>1, TileInOrder
  <2>. HIDE DEF f, s, k
  <2>. QED BY <1>1, <2>4, <2>5 DEF Contract
<1>11. Slots!Accepted(f, sources, sinks, T) <=> \A t \in 0 .. T - 1 : Slots!Accepted(g, so(t), sk(t), 1)
  <2>1. 0 \in 0 .. T - 1
    BY <1>1
  <2>. HIDE DEF f, so, sk, s, k, n
  <2>. QED BY <1>3, <1>4, <1>5, <1>6, <1>9, <1>10, <2>1
<1>. QED BY <1>11 DEF f, so, sk, s, k

\* Pairs of T slots of m pairs and n rows each, in order, that repeat slot
\* after slot.
Repeating(p, n, T, m) ==
  /\ \A u \in 0 .. T - 1, r \in 1 .. n : p[u * n + r] = u * m + p[r]
  /\ \A r \in 1 .. n : p[r] \in 0 .. m - 1
  /\ \A i \in 1 .. T * n : p[i] \in Int
  /\ Rising(p, T * n)

\* Those below a pair of a slot are those of the slots before it, and in the
\* slot those below the pair in the first.
CountsRepeat(p, n, T, m) ==
  \A t \in 0 .. T - 1, q \in 0 .. m :
    PairsBelow(p, T * n, t * m + q) = t * n + PairsBelow(p, T * n, q)

LEMMA RepeatsBelow ==
  ASSUME NEW n \in Nat, NEW T \in Nat \ {0}, NEW m \in Nat \ {0}, NEW p, Repeating(p, n, T, m)
  PROVE  CountsRepeat(p, n, T, m)
<1>. USE DEF Repeating
<1>. SUFFICES ASSUME NEW t \in 0 .. T - 1, NEW q \in 0 .. m
              PROVE  PairsBelow(p, T * n, t * m + q) = t * n + PairsBelow(p, T * n, q)
  BY DEF CountsRepeat
<1>. DEFINE N == T * n  M == PairsBelow(p, N, t * m + q)  a == PairsBelow(p, N, q)
            tm == t * m  tn == t * n
<1>1. N \in Nat /\ tm \in Nat /\ tn \in Nat /\ q \in Int /\ tm + q \in Int
  OBVIOUS
<1>2. N >= n /\ tn + n <= N
  <2>1. n * (T - 1) >= 0 /\ n * (T - 1 - t) >= 0
    OBVIOUS
  <2>2. n * (T - 1) = N - n /\ n * (T - 1 - t) = N - n - tn
    OBVIOUS
  <2>. HIDE DEF N, tn
  <2>3. N - n >= 0 /\ N - n - tn >= 0
    BY <2>1, <2>2
  <2>. QED BY <1>1, <2>3
<1>3. /\ M \in 0 .. N /\ \A i \in 1 .. N : p[i] < tm + q <=> i <= M
      /\ a \in 0 .. N /\ \A i \in 1 .. N : p[i] < q <=> i <= a
  <2>1. \A i \in 1 .. N : p[i] \in Int
    OBVIOUS
  <2>2. Rising(p, N)
    OBVIOUS
  <2>3. M = PairsBelow(p, N, tm + q)
    OBVIOUS
  <2>. HIDE DEF N, M, tm
  <2>4. M \in 0 .. N /\ \A i \in 1 .. N : p[i] < tm + q <=> i <= M
    BY <1>1, <2>1, <2>2, <2>3, PairsBelowIs
  <2>5. a \in 0 .. N /\ \A i \in 1 .. N : p[i] < q <=> i <= a
    BY <1>1, <2>1, <2>2, PairsBelowIs
  <2>. QED BY <2>4, <2>5
<1>4. a <= n
  <2>. SUFFICES ASSUME a > n PROVE FALSE
    BY <1>1, <1>3
  <2>1. n + 1 \in 1 .. N /\ n # 0 /\ T # 1
    <3>1. T = 1 => N = n
      OBVIOUS
    <3>2. n = 0 => N = 0
      OBVIOUS
    <3>. HIDE DEF N, a
    <3>. QED BY <1>1, <1>3, <3>1, <3>2
  <2>2. p[1 * n + 1] = 1 * m + p[1]
    <3>1. 1 \in 0 .. T - 1 /\ 1 \in 1 .. n
      BY <2>1
    <3>. QED BY <3>1
  <2>3. 1 * n + 1 = n + 1 /\ 1 * m = m /\ p[1] \in 0 .. m - 1
    BY <2>1
  <2>4. p[n + 1] >= q
    BY <2>2, <2>3
  <2>5. p[n + 1] < q
    <3>. HIDE DEF N, a
    <3>. QED BY <1>3, <2>1
  <2>6. p[n + 1] \in Int
    BY <2>1
  <2>. QED BY <2>4, <2>5, <2>6
<1>5. ASSUME NEW i \in 1 .. N PROVE p[i] < tm + q <=> i <= tn + a
  <2>. DEFINE u == (i - 1) \div n  r == ((i - 1) % n) + 1  um == u * m  un == u * n
  <2>1. u \in 0 .. T - 1 /\ r \in 1 .. n /\ i = un + r
    <3>1. T \in Nat /\ i \in 1 .. T * n
      OBVIOUS
    <3>. QED BY <3>1, PlaceOf
  <2>. HIDE DEF u, r
  <2>2. p[i] = um + p[r] /\ p[r] \in 0 .. m - 1
    BY <2>1
  <2>3. um \in Int /\ un \in Int
    BY <2>1
  <2>4. r \in 1 .. N
    <3>. HIDE DEF N
    <3>. QED BY <1>1, <1>2, <2>1
  <2>5. p[r] < q <=> r <= a
    <3>. HIDE DEF N, a
    <3>. QED BY <1>3, <2>4
  <2>6. CASE u = t
    <3>1. um = tm /\ un = tn
      BY <2>6
    <3>. HIDE DEF N, a, um, un, tm, tn
    <3>. QED BY <1>1, <1>3, <2>1, <2>2, <2>3, <2>5, <3>1
  <2>7. CASE u < t
    <3>1. m * (t - 1 - u) >= 0 /\ n * (t - 1 - u) >= 0
      BY <2>1, <2>7
    <3>2. m * (t - 1 - u) = tm - m - um /\ n * (t - 1 - u) = tn - n - un
      BY <2>1
    <3>. HIDE DEF N, a, um, un, tm, tn
    <3>3. tm - m - um >= 0 /\ tn - n - un >= 0
      BY <3>1, <3>2
    <3>. QED BY <1>1, <1>3, <2>1, <2>2, <2>3, <3>3
  <2>8. CASE u > t
    <3>1. m * (u - 1 - t) >= 0 /\ n * (u - 1 - t) >= 0
      BY <2>1, <2>8
    <3>2. m * (u - 1 - t) = um - m - tm /\ n * (u - 1 - t) = un - n - tn
      BY <2>1
    <3>. HIDE DEF N, a, um, un, tm, tn
    <3>3. um - m - tm >= 0 /\ un - n - tn >= 0
      BY <3>1, <3>2
    <3>. QED BY <1>1, <1>3, <1>4, <2>1, <2>2, <2>3, <3>3
  <2>. QED BY <2>1, <2>6, <2>7, <2>8
<1>. HIDE DEF N, M, a, tm, tn
<1>6. tn + a \in 0 .. N
  BY <1>1, <1>2, <1>3, <1>4
<1>7. ~(M < tn + a)
  <2>. SUFFICES ASSUME M < tn + a PROVE FALSE
    OBVIOUS
  <2>. DEFINE i == tn + a
  <2>1. i \in 1 .. N /\ i <= i /\ ~(i <= M)
    BY <1>1, <1>3, <1>6
  <2>2. p[i] < tm + q <=> i <= i
    BY <1>5, <2>1
  <2>3. p[i] < tm + q <=> i <= M
    BY <1>3, <2>1
  <2>. QED BY <2>1, <2>2, <2>3
<1>8. ~(M > tn + a)
  BY <1>1, <1>3, <1>5, <1>6
<1>9. M = tn + a
  BY <1>1, <1>3, <1>6, <1>7, <1>8
<1>. QED BY <1>9 DEF M, a, N, tn

\* As many steps upwards as there are places go through each.
LEMMA Climbs ==
  ASSUME NEW T \in Nat \ {0}, NEW q, \A t \in 0 .. T - 1 : q[t] \in 0 .. T - 1,
         \A t \in Nat : t + 1 <= T - 1 => q[t] < q[t + 1]
  PROVE  \A t \in 0 .. T - 1 : q[t] = t
<1>. DEFINE Up == {t \in Nat : t <= T - 1 => q[t] >= t}
            Down == {d \in Nat : d <= T - 1 => q[T - 1 - d] <= T - 1 - d}
<1>1. 0 \in Up
  OBVIOUS
<1>2. ASSUME NEW t \in Nat, t \in Up PROVE t + 1 \in Up
  <2>. SUFFICES ASSUME t + 1 <= T - 1 PROVE q[t + 1] >= t + 1
    OBVIOUS
  <2>1. q[t] >= t /\ q[t] < q[t + 1] /\ q[t] \in Int /\ q[t + 1] \in Int
    BY <1>2
  <2>. QED BY <2>1
<1>3. 0 \in Down
  OBVIOUS
<1>4. ASSUME NEW d \in Nat, d \in Down PROVE d + 1 \in Down
  <2>. SUFFICES ASSUME d + 1 <= T - 1 PROVE q[T - 1 - (d + 1)] <= T - 1 - (d + 1)
    OBVIOUS
  <2>. DEFINE t == T - 1 - (d + 1)
  <2>1. t \in Nat /\ t + 1 = T - 1 - d /\ t + 1 <= T - 1
    OBVIOUS
  <2>2. q[t + 1] <= t + 1
    BY <1>4, <2>1
  <2>. HIDE DEF t
  <2>3. q[t] < q[t + 1] /\ q[t] \in Int /\ q[t + 1] \in Int
    BY <2>1
  <2>4. q[t] <= t
    BY <2>1, <2>2, <2>3
  <2>. QED BY <2>4 DEF t
<1>. HIDE DEF Up, Down
<1>5. Nat \subseteq Up /\ Nat \subseteq Down
  BY <1>1, <1>2, <1>3, <1>4, Ascending
<1>6. ASSUME NEW t \in 0 .. T - 1 PROVE q[t] = t
  <2>1. t \in Up /\ T - 1 - t \in Down
    BY <1>5
  <2>2. q[t] >= t
    BY <2>1 DEF Up
  <2>3. T - 1 - (T - 1 - t) = t
    OBVIOUS
  <2>4. q[T - 1 - (T - 1 - t)] <= T - 1 - (T - 1 - t)
    BY <2>1 DEF Down
  <2>. QED BY <2>2, <2>3, <2>4
<1>. QED BY <1>6

\* The quotients of two numbers are in the order of the numbers.
LEMMA QuotientGrows ==
  ASSUME NEW s \in Nat \ {0}, NEW x \in Int, NEW y \in Int, x <= y
  PROVE  x \div s <= y \div s
<1>. DEFINE q == x \div s  p == y \div s
<1>1. q \in Int /\ x % s \in 0 .. s - 1 /\ x = s * q + (x % s)
  BY Division
<1>2. p \in Int /\ y % s \in 0 .. s - 1 /\ y = s * p + (y % s)
  BY Division
<1>. HIDE DEF q, p
<1>3. p - q <= -1 => s * (p - q) <= -s
  BY <1>1, <1>2, MultipleIsBig
<1>4. s * (p - q) = s * p - s * q /\ s * p \in Int /\ s * q \in Int
  BY <1>1, <1>2
<1>5. q <= p
  BY <1>1, <1>2, <1>3, <1>4
<1>. QED BY <1>5 DEF q, p

\* Copies of a row that are accepted are one in each slot, in the order they
\* were tiled in, whatever they were shifted by: no slot has two endpoints of
\* the row's stable id.
LEMMA CopiesKeepTheirSlots ==
  ASSUME NEW f \in Seq(Slots!Rows), NEW sources, NEW sinks, NEW T,
         Stacked(sources, T), Stacked(sinks, T), NEW a \in Nat \ {0}, NEW b \in Nat \ {0},
         Slots!Accepted(TileOf(f, T, a, b), sources, sinks, T), Slots!DistinctIn(sources, T),
         NEW i \in 1 .. T * Len(f)
  PROVE  /\ TileOf(f, T, a, b)[i].source \div (Len(sources) \div T) = (i - 1) \div Len(f)
         /\ TileOf(f, T, a, b)[i].sink \div (Len(sinks) \div T) = (i - 1) \div Len(f)
<1>. DEFINE s == Len(sources) \div T  k == Len(sinks) \div T  g == TileOf(f, T, a, b)  n == Len(f)
            u == (i - 1) \div n  r == ((i - 1) % n) + 1  x == f[r]
            at(t) == t * n + r  from(t) == x.source + t * a
            q == [t \in 0 .. T - 1 |-> from(t) \div s]
<1>1. T \in Nat \ {0} /\ n \in Nat /\ a \in Int /\ b \in Int
  BY DEF Stacked
<1>2. /\ g \in Seq(Slots!Rows) /\ Len(g) = T * n
      /\ \A t \in 0 .. T - 1, z \in 1 .. n : g[t * n + z] = Shifted(f[z], t, a, b)
  <2>1. T \in Nat
    BY <1>1
  <2>. QED BY <2>1, TileIs
<1>3. n # 0 /\ u \in 0 .. T - 1 /\ r \in 1 .. n /\ i = u * n + r
  <2>1. T \in Nat
    BY <1>1
  <2>. QED BY <1>1, <2>1, PlaceOf
<1>4. x \in Slots!Rows
  BY <1>3
<1>5. Contract(g, sources, sinks, T, s, k)
  <2>1. T * n # 0
    BY <1>1, <1>3
  <2>2. g # <<>>
    <3>. HIDE DEF g, n
    <3>. QED BY <1>2, <2>1
  <2>. HIDE DEF g
  <2>. QED BY <1>2, <2>2, AcceptedIs DEF g
<1>6. s \in Nat \ {0} /\ k \in Nat \ {0} /\ Len(sources) = T * s /\ sources \in Seq(Int)
  <2>1. s # 0 /\ k # 0
    <3>. HIDE DEF s, k, g
    <3>. QED BY <1>5 DEF Contract
  <2>. QED BY <2>1, StackedIs DEF Stacked
<1>7. ASSUME NEW t \in 0 .. T - 1
      PROVE  /\ at(t) \in 1 .. Len(g)
             /\ g[at(t)].source = from(t)
             /\ g[at(t)].sourceId = x.sourceId
  <2>1. at(t) \in 1 .. T * n
    <3>. HIDE DEF n, r
    <3>. QED BY <1>1, <1>3, Places
  <2>2. g[at(t)] = Shifted(x, t, a, b)
    BY <1>2, <1>3
  <2>3. t \in Int
    OBVIOUS
  <2>. HIDE DEF x, g, n
  <2>4. /\ Shifted(x, t, a, b).source = x.source + t * a
        /\ \A c \in {"sourceId", "sinkId", "component", "depth"} : Shifted(x, t, a, b)[c] = x[c]
    BY <1>1, <1>4, <2>3, ShiftedRow
  <2>. QED BY <1>2, <2>1, <2>2, <2>4
<1>8. ASSUME NEW t \in 0 .. T - 1
      PROVE  /\ from(t) \in Int /\ q[t] = from(t) \div s /\ q[t] \in 0 .. T - 1
             /\ from(t) + 1 \in 1 .. Len(sources)
             /\ sources[from(t) + 1] = x.sourceId
  <2>1. Placed(g[at(t)], s, k, T) /\ Slots!Identified(g[at(t)], sources, sinks)
    <3>. HIDE DEF g, at, s, k
    <3>. QED BY <1>5, <1>7 DEF Contract
  <2>2. from(t) \in Int
    <3>1. t * a \in Int /\ x.source \in Int
      BY <1>4 DEF Slots!Rows
    <3>. HIDE DEF x
    <3>. QED BY <3>1
  <2>3. q[t] = from(t) \div s
    OBVIOUS
  <2>4. from(t) \div s \in 0 .. T - 1
    <3>. HIDE DEF g, at, s, k, from
    <3>. QED BY <1>7, <2>1 DEF Placed
  <2>5. from(t) \in 0 .. T * s - 1
    <3>. HIDE DEF from, s
    <3>. QED BY <1>1, <1>6, <2>2, <2>4, QuotientIs
  <2>6. sources[from(t) + 1] = x.sourceId
    <3>. HIDE DEF g, at, s, k, from, x
    <3>. QED BY <1>7, <2>1 DEF Slots!Identified
  <2>7. from(t) + 1 \in 1 .. Len(sources)
    <3>. DEFINE Ts == T * s
    <3>1. from(t) \in 0 .. Ts - 1 /\ Len(sources) = Ts /\ Ts \in Int
      BY <1>1, <1>6, <2>5
    <3>. HIDE DEF from, Ts
    <3>. QED BY <3>1
  <2>. HIDE DEF q, from
  <2>. QED BY <2>2, <2>3, <2>4, <2>6, <2>7
<1>9. ASSUME NEW t \in Nat, t + 1 <= T - 1 PROVE q[t] < q[t + 1]
  <2>1. t \in 0 .. T - 1 /\ t + 1 \in 0 .. T - 1
    BY <1>1, <1>9
  <2>2. from(t) < from(t + 1)
    <3>1. (t + 1) * a = t * a + a /\ t * a \in Int
      OBVIOUS
    <3>2. x.source \in Int
      BY <1>4 DEF Slots!Rows
    <3>. HIDE DEF x
    <3>. QED BY <3>1, <3>2
  <2>3. q[t] <= q[t + 1]
    <3>1. from(t) \in Int /\ from(t + 1) \in Int /\ q[t] = from(t) \div s /\ q[t + 1] = from(t + 1) \div s
      BY <1>8, <2>1
    <3>. DEFINE v == from(t)  w == from(t + 1)
    <3>2. v \in Int /\ w \in Int /\ v < w /\ q[t] = v \div s /\ q[t + 1] = w \div s
      BY <2>2, <3>1
    <3>. HIDE DEF v, w, q, s
    <3>3. v <= w
      BY <3>2
    <3>4. v \div s <= w \div s
      BY <1>6, <3>2, <3>3, QuotientGrows
    <3>. QED BY <3>2, <3>4
  <2>4. q[t] # q[t + 1]
    <3>. DEFINE c == from(t) + 1  d == from(t + 1) + 1
    <3>1. /\ c \in DOMAIN sources /\ d \in DOMAIN sources /\ sources[c] = sources[d]
          /\ c - 1 = from(t) /\ d - 1 = from(t + 1) /\ from(t) \in Int /\ from(t + 1) \in Int
          /\ q[t] = from(t) \div s /\ q[t + 1] = from(t + 1) \div s
      <4>1. /\ from(t) \in Int /\ q[t] = from(t) \div s /\ c \in 1 .. Len(sources) /\ sources[c] = x.sourceId
        BY <1>8, <2>1
      <4>2. /\ from(t + 1) \in Int /\ q[t + 1] = from(t + 1) \div s /\ d \in 1 .. Len(sources)
            /\ sources[d] = x.sourceId
        BY <1>8, <2>1
      <4>3. c - 1 = from(t) /\ d - 1 = from(t + 1)
        <5>1. from(t) \in Int /\ from(t + 1) \in Int
          BY <1>8, <2>1
        <5>2. c = from(t) + 1 /\ d = from(t + 1) + 1
          OBVIOUS
        <5>. HIDE DEF c, d, from
        <5>. QED BY <5>1, <5>2
      <4>4. DOMAIN sources = 1 .. Len(sources)
        BY <1>6
      <4>. HIDE DEF c, d, from, q, x, s
      <4>. QED BY <4>1, <4>2, <4>3, <4>4
    <3>2. c # d
      <4>. HIDE DEF from
      <4>. QED BY <2>2, <3>1
    <3>3. \A e, h \in DOMAIN sources : e # h /\ (e - 1) \div s = (h - 1) \div s => sources[e] # sources[h]
      BY DEF Slots!DistinctIn
    <3>. HIDE DEF c, d, from, q, s
    <3>. QED BY <3>1, <3>2, <3>3
  <2>5. q[t] \in Int /\ q[t + 1] \in Int
    BY <1>8, <2>1
  <2>. HIDE DEF q
  <2>. QED BY <2>3, <2>4, <2>5
<1>10. q[u] = u
  <2>. HIDE DEF q, u
  <2>1. \A t \in 0 .. T - 1 : q[t] \in 0 .. T - 1
    BY <1>8
  <2>2. \A t \in Nat : t + 1 <= T - 1 => q[t] < q[t + 1]
    BY <1>9
  <2>. QED BY <1>1, <1>3, <2>1, <2>2, Climbs
<1>11. i = at(u) /\ g[i].source \div s = u
  <2>1. g[at(u)].source = from(u) /\ q[u] = from(u) \div s
    BY <1>3, <1>7, <1>8
  <2>. HIDE DEF q, from, u, r, n, g, s
  <2>. QED BY <1>3, <1>10, <2>1
<1>12. g[i].sink \div k = u
  <2>. DEFINE y == g[i]  c == y.sink - u * k
  <2>1. Placed(y, s, k, T) /\ y \in Slots!Rows
    <3>1. i \in 1 .. Len(g)
      BY <1>2
    <3>. HIDE DEF g, s, k
    <3>. QED BY <1>2, <1>5, <3>1 DEF Contract
  <2>2. c \in 0 .. k - 1
    <3>1. y.source \div s = u
      BY <1>11
    <3>. HIDE DEF y, s, k, u
    <3>. QED BY <2>1, <3>1 DEF Placed
  <2>3. y.sink = k * u + c
    <3>1. y.sink \in Int /\ u \in Int
      <4>. HIDE DEF y
      <4>. QED BY <1>3, <2>1 DEF Slots!Rows
    <3>2. u * k = k * u /\ u * k \in Int
      <4>. HIDE DEF u, k
      <4>. QED BY <1>6, <3>1
    <3>. HIDE DEF u, k, y
    <3>. QED BY <3>1, <3>2
  <2>. HIDE DEF c, u, k, y
  <2>4. (k * u + c) \div k = u
    <3>1. k \in Nat \ {0} /\ u \in Int
      BY <1>3, <1>6
    <3>. QED BY <2>2, <3>1, DivisionIs
  <2>. QED BY <2>3, <2>4 DEF y
<1>. HIDE DEF g, s, k, u, n
<1>13. g[i].source \div s = u /\ g[i].sink \div k = u
  BY <1>11, <1>12
<1>. QED BY <1>13 DEF g, s, k, u, n

\* Buckets of rows of their own component and depth, and of all rows.
Buckets == [component : Int, depth : Int, rows : Seq(Int)]
Fit(bks, rws) ==
  /\ bks \in Seq(Buckets)
  /\ \A b \in DOMAIN bks : \A i \in Slots!Range(bks[b].rows) :
       i \in DOMAIN rws /\ rws[i].component = bks[b].component /\ rws[i].depth = bks[b].depth
Covers(bks, rws) == \A i \in DOMAIN rws : \E b \in DOMAIN bks : i \in Slots!Range(bks[b].rows)

\* Rows that are well formed are partitioned by their keys.
LEMMA Partitioned ==
  ASSUME width \in Nat, frozen \in Seq(Slots!Rows), \A i \in DOMAIN frozen : ~Slots!Malformed(frozen[i]),
         NEW keys, keys = Slots!InOrder({Slots!Key(frozen[i]) : i \in DOMAIN frozen})
  PROVE  /\ Fit([b \in DOMAIN keys |-> Slots!Bucket(keys[b])], frozen)
         /\ Covers([b \in DOMAIN keys |-> Slots!Bucket(keys[b])], frozen)
<1>. DEFINE n == Len(frozen)  K == {Slots!Key(frozen[i]) : i \in DOMAIN frozen}
            of(v) == {i \in DOMAIN frozen : Slots!Key(frozen[i]) = v}
            parts == [b \in DOMAIN keys |-> Slots!Bucket(keys[b])]  w == width + 1
<1>1. n \in Nat /\ DOMAIN frozen = 1 .. n /\ w \in Nat \ {0}
      /\ \A i \in 1 .. n : frozen[i] \in Slots!Rows
  OBVIOUS
<1>2. IsFiniteSet(1 .. n)
  <2>1. n \in 0 .. n
    BY <1>1
  <2>. QED BY <1>1, <2>1, CountTo
<1>3. ASSUME NEW i \in 1 .. n
      PROVE  LET v == Slots!Key(frozen[i])
             IN v \in Int /\ v \div w = frozen[i].component /\ v % w = frozen[i].depth
  <2>. DEFINE c == frozen[i].component  d == frozen[i].depth
  <2>1. c \in Int /\ d \in Int
    BY <1>1 DEF Slots!Rows
  <2>2. ~(d < 0) /\ ~(d > width)
    BY <1>1 DEF Slots!Malformed
  <2>3. Slots!Key(frozen[i]) = c * w + d
    BY DEF Slots!Key
  <2>. HIDE DEF c, d
  <2>4. d \in 0 .. w - 1 /\ c * w = w * c
    BY <2>1, <2>2
  <2>. HIDE DEF w
  <2>5. w * c + d \in Int /\ (w * c + d) \div w = c /\ (w * c + d) % w = d
    BY <1>1, <2>1, <2>4, DivisionIs
  <2>. QED BY <2>3, <2>4, <2>5 DEF c, d
<1>4. K \in SUBSET Int /\ IsFiniteSet(K)
  <2>1. K \in SUBSET Int
    BY <1>1, <1>3
  <2>. DEFINE h == [i \in 1 .. n |-> Slots!Key(frozen[i])]
  <2>2. h \in Surjection(1 .. n, K)
    BY <1>1 DEF Surjection
  <2>. HIDE DEF h, K, n
  <2>3. IsFiniteSet(K)
    BY <1>2, <2>2, FS_Surjection
  <2>. QED BY <2>1, <2>3
<1>5. keys \in Seq(K) /\ Slots!Range(keys) = K
  <2>. HIDE DEF K
  <2>. QED BY <1>4, ListedInOrder DEF K
<1>6. ASSUME NEW v PROVE Slots!InOrder(of(v)) \in Seq(of(v)) /\ Slots!Range(Slots!InOrder(of(v))) = of(v)
  <2>1. of(v) \in SUBSET (1 .. n) /\ of(v) \in SUBSET Int
    BY <1>1
  <2>. HIDE DEF of, n
  <2>2. IsFiniteSet(of(v))
    BY <1>2, <2>1, FS_Subset
  <2>. QED BY <2>1, <2>2, ListedInOrder
<1>7. ASSUME NEW b \in DOMAIN keys
      PROVE  /\ keys[b] \in K /\ parts[b] = Slots!Bucket(keys[b])
             /\ parts[b] \in Buckets
             /\ parts[b].component = keys[b] \div w /\ parts[b].depth = keys[b] % w
             /\ Slots!Range(parts[b].rows) = of(keys[b])
  <2>1. keys[b] \in K /\ parts[b] = Slots!Bucket(keys[b])
    <3>1. parts[b] = Slots!Bucket(keys[b])
      OBVIOUS
    <3>. HIDE DEF K, parts
    <3>2. keys[b] \in K
      BY <1>5
    <3>. QED BY <3>1, <3>2
  <2>2. Slots!Bucket(keys[b]) =
          [component |-> keys[b] \div w, depth |-> keys[b] % w, rows |-> Slots!InOrder(of(keys[b]))]
    BY Zenon DEF Slots!Bucket
  <2>3. keys[b] \div w \in Int /\ keys[b] % w \in Int
    <3>1. keys[b] \in Int
      BY <1>4, <2>1
    <3>. HIDE DEF w
    <3>. QED BY <1>1, <3>1, Division
  <2>4. Slots!InOrder(of(keys[b])) \in Seq(Int) /\ Slots!Range(Slots!InOrder(of(keys[b]))) = of(keys[b])
    <3>1. of(keys[b]) \in SUBSET Int
      BY <1>1
    <3>. HIDE DEF of
    <3>. QED BY <1>6, <3>1
  <2>. DEFINE c == keys[b] \div w  d == keys[b] % w  l == Slots!InOrder(of(keys[b]))
  <2>5. parts[b] = [component |-> c, depth |-> d, rows |-> l]
    <3>. HIDE DEF of, w, K, parts
    <3>. QED BY <2>1, <2>2
  <2>6. c \in Int /\ d \in Int /\ l \in Seq(Int)
    BY <2>3, <2>4
  <2>. HIDE DEF c, d, l, K, parts
  <2>7. parts[b] \in Buckets
    BY <2>5, <2>6 DEF Buckets
  <2>8. parts[b].component = c /\ parts[b].depth = d /\ parts[b].rows = l
    BY <2>5
  <2>9. Slots!Range(l) = of(keys[b])
    BY <2>4 DEF l
  <2>. HIDE DEF of
  <2>. QED BY <2>1, <2>7, <2>8, <2>9 DEF c, d
<1>8. parts \in Seq(Buckets) /\ DOMAIN parts = DOMAIN keys
  <2>1. DOMAIN keys = 1 .. Len(keys) /\ Len(keys) \in Nat
    <3>. HIDE DEF K
    <3>. QED BY <1>5
  <2>2. parts = [b \in 1 .. Len(keys) |-> parts[b]]
    BY <2>1
  <2>3. \A b \in DOMAIN keys : parts[b] \in Buckets
    BY <1>7
  <2>4. DOMAIN parts = DOMAIN keys
    OBVIOUS
  <2>. DEFINE m == Len(keys)
  <2>. HIDE DEF parts, m
  <2>5. parts \in [1 .. m -> Buckets]
    BY <2>1, <2>2, <2>3 DEF m
  <2>6. m \in Nat
    BY <2>1 DEF m
  <2>7. parts \in Seq(Buckets)
    BY <2>5, <2>6
  <2>. QED BY <2>4, <2>7
<1>9. ASSUME NEW b \in DOMAIN keys, NEW i \in of(keys[b])
      PROVE  i \in DOMAIN frozen /\ frozen[i].component = parts[b].component /\ frozen[i].depth = parts[b].depth
  <2>1. i \in 1 .. n /\ Slots!Key(frozen[i]) = keys[b]
    BY <1>1
  <2>2. keys[b] \div w = frozen[i].component /\ keys[b] % w = frozen[i].depth
    BY <1>3, <2>1
  <2>3. parts[b].component = keys[b] \div w /\ parts[b].depth = keys[b] % w
    BY <1>7
  <2>. HIDE DEF parts, w
  <2>. QED BY <1>1, <2>1, <2>2, <2>3
<1>10. Fit(parts, frozen)
  <2>. HIDE DEF parts, of
  <2>. QED BY <1>7, <1>8, <1>9 DEF Fit
<1>11. Covers(parts, frozen)
  <2>. SUFFICES ASSUME NEW i \in DOMAIN frozen PROVE \E b \in DOMAIN parts : i \in Slots!Range(parts[b].rows)
    BY DEF Covers
  <2>1. Slots!Key(frozen[i]) \in Slots!Range(keys)
    BY <1>5
  <2>2. PICK b \in DOMAIN keys : keys[b] = Slots!Key(frozen[i])
    BY <2>1 DEF Slots!Range
  <2>3. i \in of(keys[b])
    BY <2>2
  <2>4. Slots!Range(parts[b].rows) = of(keys[b])
    BY <1>7
  <2>. HIDE DEF parts, of
  <2>. QED BY <1>8, <2>3, <2>4
<1>. QED BY <1>10, <1>11

\* One bucket, tiled over the copies of n rows.
TiledList(l, T, n) ==
  [i \in 1 .. T * Len(l) |-> l[((i - 1) % Len(l)) + 1] + ((i - 1) \div Len(l)) * n]

LEMMA TiledListIs ==
  ASSUME NEW n \in Nat, NEW T \in Nat, NEW l \in Seq(1 .. n)
  PROVE  /\ TiledList(l, T, n) \in Seq(Int)
         /\ \A i \in Slots!Range(TiledList(l, T, n)) :
              \E t \in 0 .. T - 1, r \in 1 .. n : r \in Slots!Range(l) /\ i = t * n + r
         /\ \A t \in 0 .. T - 1, r \in Slots!Range(l) : t * n + r \in Slots!Range(TiledList(l, T, n))
<1>. DEFINE L == Len(l)  g == TiledList(l, T, n)
<1>1. L \in Nat /\ T * L \in Nat /\ \A z \in 1 .. L : l[z] \in 1 .. n
  OBVIOUS
<1>2. g = [i \in 1 .. T * L |-> l[((i - 1) % L) + 1] + ((i - 1) \div L) * n]
  BY DEF TiledList
<1>3. DOMAIN l = 1 .. L
  OBVIOUS
<1>. HIDE DEF g, L
<1>4. ASSUME NEW t \in 0 .. T - 1, NEW z \in 1 .. L
      PROVE  t * L + z \in 1 .. T * L /\ g[t * L + z] = t * n + l[z]
  <2>. DEFINE i == t * L + z
              At(x) == x \in 1 .. T * L /\ (x - 1) \div L = t /\ ((x - 1) % L) + 1 = z
  <2>a. At(t * L + z)
    BY <1>1, Places
  <2>. HIDE DEF At
  <2>b. At(i)
    BY <2>a
  <2>. HIDE DEF i
  <2>1. i \in 1 .. T * L /\ (i - 1) \div L = t /\ ((i - 1) % L) + 1 = z
    BY <2>b DEF At
  <2>2. g[i] = l[z] + t * n
    BY <1>2, <2>1
  <2>3. l[z] \in Int /\ t * n \in Int
    BY <1>1
  <2>4. g[i] = t * n + l[z]
    BY <2>2, <2>3
  <2>. QED BY <2>1, <2>4 DEF i
<1>5. ASSUME NEW i \in 1 .. T * L
      PROVE  \E t \in 0 .. T - 1, z \in 1 .. L : i = t * L + z /\ g[i] = t * n + l[z]
  <2>. DEFINE t == (i - 1) \div L  z == ((i - 1) % L) + 1
  <2>1. t \in 0 .. T - 1 /\ z \in 1 .. L /\ i = t * L + z
    BY <1>1, PlaceOf
  <2>. HIDE DEF t, z
  <2>2. g[t * L + z] = t * n + l[z]
    BY <1>4, <2>1
  <2>. QED BY <2>1, <2>2
<1>6. ASSUME NEW i \in 1 .. T * L PROVE g[i] \in Int
  <2>1. PICK t \in 0 .. T - 1, z \in 1 .. L : i = t * L + z /\ g[i] = t * n + l[z]
    BY <1>5
  <2>2. t * n \in Int /\ l[z] \in Int
    BY <1>1
  <2>. QED BY <2>1, <2>2
<1>7. g \in Seq(Int) /\ DOMAIN g = 1 .. T * L
  <2>. DEFINE N == T * L
  <2>1. g = [i \in 1 .. N |-> g[i]]
    BY <1>2
  <2>2. N \in Nat /\ \A i \in 1 .. N : g[i] \in Int
    BY <1>1, <1>6
  <2>. HIDE DEF N
  <2>3. [i \in 1 .. N |-> g[i]] \in Seq(Int) /\ DOMAIN [i \in 1 .. N |-> g[i]] = 1 .. N
    <3>. DEFINE e(i) == g[i]
    <3>1. N \in Nat /\ \A i \in 1 .. N : e(i) \in Int
      BY <2>2
    <3>. HIDE DEF e
    <3>2. [i \in 1 .. N |-> e(i)] \in Seq(Int) /\ DOMAIN [i \in 1 .. N |-> e(i)] = 1 .. N
      BY <3>1
    <3>. QED BY <3>2 DEF e
  <2>. QED BY <2>1, <2>3, Zenon DEF N
<1>8. ASSUME NEW i \in Slots!Range(g)
      PROVE  \E t \in 0 .. T - 1, r \in 1 .. n : r \in Slots!Range(l) /\ i = t * n + r
  <2>1. PICK j \in 1 .. T * L : i = g[j]
    BY <1>7 DEF Slots!Range
  <2>2. PICK t \in 0 .. T - 1, z \in 1 .. L : j = t * L + z /\ g[j] = t * n + l[z]
    BY <1>5
  <2>3. l[z] \in 1 .. n /\ l[z] \in Slots!Range(l)
    BY <1>1, <1>3 DEF Slots!Range
  <2>. QED BY <2>1, <2>2, <2>3
<1>9. ASSUME NEW t \in 0 .. T - 1, NEW r \in Slots!Range(l) PROVE t * n + r \in Slots!Range(g)
  <2>1. PICK z \in 1 .. L : r = l[z]
    BY <1>3 DEF Slots!Range
  <2>2. t * L + z \in DOMAIN g /\ g[t * L + z] = t * n + r
    BY <1>4, <1>7, <2>1
  <2>. QED BY <2>2 DEF Slots!Range
<1>. QED BY <1>7, <1>8, <1>9 DEF g

\* Buckets tiled with their rows are the buckets of the tiled rows.
LEMMA TiledBucketsFit ==
  ASSUME rows \in Seq(Slots!Rows), NEW T \in Nat, NEW a \in Int, NEW b \in Int, Fit(buckets, rows)
  PROVE  /\ Fit(Slots!TiledBuckets(T), TileOf(rows, T, a, b))
         /\ Len(Slots!TiledBuckets(T)) = Len(buckets)
         /\ Covers(buckets, rows) => Covers(Slots!TiledBuckets(T), TileOf(rows, T, a, b))
<1>. DEFINE n == Len(rows)  f == TileOf(rows, T, a, b)  bks == Slots!TiledBuckets(T)  m == Len(buckets)
<1>1. /\ n \in Nat /\ DOMAIN rows = 1 .. n /\ \A r \in 1 .. n : rows[r] \in Slots!Rows
      /\ m \in Nat /\ DOMAIN buckets = 1 .. m /\ \A c \in 1 .. m : buckets[c] \in Buckets
  BY DEF Fit
<1>2. /\ f \in Seq(Slots!Rows) /\ Len(f) = T * n
      /\ \A t \in 0 .. T - 1, r \in 1 .. n : f[t * n + r] = Shifted(rows[r], t, a, b)
  BY TileIs
<1>3. ASSUME NEW c \in 1 .. m
      PROVE  /\ buckets[c].rows \in Seq(1 .. n)
             /\ \A r \in Slots!Range(buckets[c].rows) :
                  r \in 1 .. n /\ rows[r].component = buckets[c].component /\ rows[r].depth = buckets[c].depth
  <2>. DEFINE l == buckets[c].rows
  <2>1. l \in Seq(Int)
    BY <1>1 DEF Buckets
  <2>2. \A r \in Slots!Range(l) :
          r \in 1 .. n /\ rows[r].component = buckets[c].component /\ rows[r].depth = buckets[c].depth
    <3>. HIDE DEF n
    <3>. QED BY <1>1 DEF Fit
  <2>. HIDE DEF l
  <2>3. DOMAIN l = 1 .. Len(l) /\ Len(l) \in Nat /\ l = [z \in 1 .. Len(l) |-> l[z]]
    BY <2>1
  <2>4. \A z \in 1 .. Len(l) : l[z] \in 1 .. n
    BY <2>2, <2>3 DEF Slots!Range
  <2>5. l \in Seq(1 .. n)
    BY <2>3, <2>4
  <2>. QED BY <2>2, <2>5 DEF l
<1>4. ASSUME NEW c \in 1 .. m
      PROVE  /\ bks[c] \in Buckets
             /\ bks[c].component = buckets[c].component /\ bks[c].depth = buckets[c].depth
             /\ bks[c].rows = TiledList(buckets[c].rows, T, n)
  <2>. DEFINE l == buckets[c].rows  z == TiledList(l, T, n)
  <2>1. bks[c] = [buckets[c] EXCEPT !.rows = [i \in 1 .. T * Len(l) |-> Slots!Tiled(l, i) + Slots!Lap(l, i) * n]]
    BY <1>1 DEF Slots!TiledBuckets, Buckets
  <2>2. z = [i \in 1 .. T * Len(l) |-> Slots!Tiled(l, i) + Slots!Lap(l, i) * n]
    BY Zenon DEF TiledList, Slots!Tiled, Slots!Lap
  <2>3. bks[c] = [buckets[c] EXCEPT !.rows = z]
    BY <2>1, <2>2
  <2>4. z \in Seq(Int)
    <3>. HIDE DEF n
    <3>. QED BY <1>1, <1>3, TiledListIs
  <2>. HIDE DEF z, bks
  <2>5. buckets[c] \in Buckets
    BY <1>1
  <2>. QED BY <2>3, <2>4, <2>5 DEF Buckets, z
<1>5. bks \in Seq(Buckets) /\ DOMAIN bks = 1 .. m /\ Len(bks) = m
  <2>1. bks = [c \in 1 .. m |-> bks[c]]
    BY <1>1 DEF Slots!TiledBuckets
  <2>. HIDE DEF bks, m
  <2>2. bks \in [1 .. m -> Buckets]
    BY <1>4, <2>1
  <2>. QED BY <1>1, <2>2
<1>6. \A r \in 1 .. n, t \in 0 .. T - 1 : t * n + r \in 1 .. T * n /\ t * n + r \in DOMAIN f
  <2>1. DOMAIN f = 1 .. T * n
    <3>. HIDE DEF f, n
    <3>. QED BY <1>2
  <2>. HIDE DEF f, n
  <2>. QED BY <1>1, <2>1, Places
<1>7. ASSUME NEW c \in 1 .. m, NEW i \in Slots!Range(bks[c].rows)
      PROVE  i \in DOMAIN f /\ f[i].component = bks[c].component /\ f[i].depth = bks[c].depth
  <2>. DEFINE l == buckets[c].rows
  <2>1. PICK t \in 0 .. T - 1, r \in 1 .. n : r \in Slots!Range(l) /\ i = t * n + r
    <3>1. l \in Seq(1 .. n) /\ i \in Slots!Range(TiledList(l, T, n))
      BY <1>3, <1>4
    <3>. HIDE DEF l, n
    <3>. QED BY <1>1, <3>1, TiledListIs
  <2>2. f[i] = Shifted(rows[r], t, a, b) /\ i \in DOMAIN f
    BY <1>2, <1>6, <2>1
  <2>3. rows[r].component = buckets[c].component /\ rows[r].depth = buckets[c].depth
    BY <1>3, <2>1
  <2>4. f[i].component = rows[r].component /\ f[i].depth = rows[r].depth
    <3>1. rows[r] \in Slots!Rows /\ t \in Int
      BY <1>1
    <3>2. \A q \in {"sourceId", "sinkId", "component", "depth"} : Shifted(rows[r], t, a, b)[q] = rows[r][q]
      BY <3>1, ShiftedRow
    <3>. HIDE DEF f
    <3>. QED BY <2>2, <3>2
  <2>. HIDE DEF f, bks
  <2>. QED BY <1>4, <2>2, <2>3, <2>4
<1>8. Fit(bks, f)
  <2>. HIDE DEF f, bks, m
  <2>. QED BY <1>5, <1>7 DEF Fit
<1>9. ASSUME Covers(buckets, rows) PROVE Covers(bks, f)
  <2>. SUFFICES ASSUME NEW i \in DOMAIN f PROVE \E c \in DOMAIN bks : i \in Slots!Range(bks[c].rows)
    BY DEF Covers
  <2>. DEFINE t == (i - 1) \div n  r == ((i - 1) % n) + 1
  <2>1. t \in 0 .. T - 1 /\ r \in 1 .. n /\ i = t * n + r
    <3>1. i \in 1 .. T * n
      <4>. HIDE DEF f, n
      <4>. QED BY <1>2
    <3>. HIDE DEF n
    <3>. QED BY <1>1, <3>1, PlaceOf
  <2>. HIDE DEF t, r
  <2>2. PICK c \in 1 .. m : r \in Slots!Range(buckets[c].rows)
    BY <1>1, <1>9, <2>1 DEF Covers
  <2>3. t * n + r \in Slots!Range(TiledList(buckets[c].rows, T, n))
    <3>1. buckets[c].rows \in Seq(1 .. n)
      BY <1>3
    <3>. HIDE DEF n
    <3>. QED BY <1>1, <2>1, <2>2, <3>1, TiledListIs
  <2>. HIDE DEF f, bks
  <2>. QED BY <1>4, <1>5, <2>1, <2>3
<1>. QED BY <1>5, <1>8, <1>9 DEF f, bks, m

-----------------------------------------------------------------------------
\* A row is called valid only as published.
Answered(i) == out[i].by = IF out[i].valid THEN {<<rows[i].component, rows[i].depth>>} ELSE {}

PerSource == Len(request.sources) \div request.slots
PerSink == Len(request.sinks) \div request.slots

\* The rows are the frozen ones, copy after copy.
Copies == \E a, b \in Nat \ {0} : rows = TileOf(frozen, tiled, a, b)

\* Of a request that was accepted.
BoundInv ==
  /\ Stacked(request.sources, request.slots) /\ Stacked(request.sinks, request.slots)
  /\ Slots!Accepted(rows, request.sources, request.sinks, request.slots)
  /\ pairs = Slots!PairsOf(rows, PerSource, PerSink)
  /\ offsets = Slots!Segmentation(pairs, request.slots * PerSource * PerSink)
  /\ DOMAIN out = DOMAIN rows
  /\ tiled > 1 /\ tiled = request.slots => Copies
  /\ stage = "bound" => /\ Covers(buckets, rows)
                        /\ \A c \in 1 .. replayed : \A i \in Slots!Range(buckets[c].rows) : Answered(i)
  /\ stage = "done" => \A i \in DOMAIN rows : Answered(i)

\* Of a time-varying request, accepted or not.
TimeInv ==
  /\ stage \in {"bound", "done", "refused"}
  /\ Stacked(request.sources, request.slots) /\ Stacked(request.sinks, request.slots)
  /\ PerSource # 0 /\ PerSink # 0
  /\ \E f \in Seq(Slots!Rows) : rows = TileOf(f, request.slots, PerSource, PerSink)
  /\ Slots!Bound <=> Slots!Accepted(rows, request.sources, request.sinks, request.slots)

SlotInv ==
  /\ width \in Nat /\ frozen \in Seq(Slots!Rows) /\ [width |-> width, rows |-> frozen] \in Topologies
  /\ stage \in {"frozen", "prepared", "replicated", "bound", "done", "refused"}
  /\ rows \in Seq(Slots!Rows) /\ tiled \in 1 .. MaxSlots * MaxSlots
  /\ Fit(buckets, rows) /\ replayed \in 0 .. Len(buckets)
  /\ stage \in {"frozen", "prepared", "replicated"} =>
       request = Slots!NoRequest /\ replayed = 0 /\ tiled <= MaxSlots
  /\ stage \in {"frozen", "prepared"} => tiled = 1 /\ rows = frozen
  /\ stage = "frozen" => buckets = <<>>
  /\ stage \in {"prepared", "replicated"} => Covers(buckets, rows)
  /\ stage = "replicated" => tiled > 1 /\ Copies
  /\ Slots!Bound => BoundInv
  /\ request.kind = "time_varying" => TimeInv

\* The segmentation of a request that is bound.
LEMMA BoundSegments ==
  ASSUME SlotInv, Slots!Bound
  PROVE  /\ DOMAIN pairs = DOMAIN rows /\ DOMAIN out = DOMAIN rows
         /\ \A i \in DOMAIN offsets : offsets[i] \in 0 .. Len(rows)
         /\ Slots!OffsetsSegmentTheRows
<1>. DEFINE T == request.slots  s == PerSource  k == PerSink  c == T * s * k  n == Len(rows)
<1>1. /\ rows \in Seq(Slots!Rows) /\ Stacked(request.sources, T) /\ Stacked(request.sinks, T)
      /\ Slots!Accepted(rows, request.sources, request.sinks, T)
      /\ pairs = Slots!PairsOf(rows, s, k) /\ offsets = Slots!Segmentation(pairs, c)
      /\ DOMAIN out = DOMAIN rows
  BY DEF SlotInv, BoundInv
<1>2. n \in Nat /\ DOMAIN rows = 1 .. n
  BY <1>1
<1>3. /\ c \in Nat /\ DOMAIN pairs = 1 .. n /\ Rising(pairs, n)
      /\ \A i \in 1 .. n : pairs[i] \in 0 .. c - 1
  BY <1>1, AcceptedPairs DEF PerSource, PerSink
<1>. HIDE DEF c, n
<1>4. /\ offsets \in [1 .. c + 1 -> 0 .. n] /\ Len(offsets) = c + 1
      /\ offsets[1] = 0 /\ offsets[c + 1] = n
      /\ \A i \in 1 .. n : pairs[i] + 1 \in 1 .. c /\ i \in offsets[pairs[i] + 1] + 1 .. offsets[pairs[i] + 2]
  <2>1. Segmented(Slots!Segmentation(pairs, c), pairs, n, c)
    BY <1>2, <1>3, Segments
  <2>2. Segmented(offsets, pairs, n, c)
    BY <1>1, <2>1
  <2>. QED BY <2>2 DEF Segmented
<1>5. \A i \in DOMAIN offsets : offsets[i] \in 0 .. n
  BY <1>4
<1>6. Slots!OffsetsSegmentTheRows
  <2>1. offsets[1] = 0 /\ offsets[Len(offsets)] = Len(rows)
    BY <1>4 DEF n
  <2>2. \A i \in DOMAIN rows : /\ pairs[i] + 1 \in 1 .. Len(offsets) - 1
                               /\ i \in offsets[pairs[i] + 1] + 1 .. offsets[pairs[i] + 2]
    BY <1>2, <1>3, <1>4
  <2>. QED BY <2>1, <2>2 DEF Slots!OffsetsSegmentTheRows
<1>. QED BY <1>1, <1>2, <1>3, <1>5, <1>6 DEF n

\* A request over as many slots as the rows were tiled over.
LEMMA BoundKeeps == SlotInv => Slots!RowsKeepTheirSlots
<1>. SUFFICES ASSUME SlotInv, Slots!Bound, tiled > 1, tiled = request.slots,
                     Slots!DistinctIn(request.sources, tiled), NEW i \in DOMAIN rows
              PROVE  LET slot == (i - 1) \div Len(frozen)
                     IN /\ rows[i].source \div (Len(request.sources) \div tiled) = slot
                        /\ rows[i].sink \div (Len(request.sinks) \div tiled) = slot
  BY DEF Slots!RowsKeepTheirSlots
<1>1. /\ frozen \in Seq(Slots!Rows) /\ tiled \in Nat /\ Stacked(request.sources, tiled) /\ Stacked(request.sinks, tiled)
      /\ Slots!Accepted(rows, request.sources, request.sinks, tiled) /\ Copies
  <2>1. tiled \in Nat
    BY DEF SlotInv
  <2>. QED BY <2>1 DEF SlotInv, BoundInv
<1>2. PICK a \in Nat \ {0}, b \in Nat \ {0} : rows = TileOf(frozen, tiled, a, b)
  BY <1>1 DEF Copies
<1>3. i \in 1 .. tiled * Len(frozen)
  <2>1. a \in Int /\ b \in Int
    BY <1>2
  <2>2. TileOf(frozen, tiled, a, b) \in Seq(Slots!Rows) /\ Len(TileOf(frozen, tiled, a, b)) = tiled * Len(frozen)
    BY <1>1, <2>1, TileIs
  <2>. QED BY <1>2, <2>2
<1>. QED BY <1>1, <1>2, <1>3, CopiesKeepTheirSlots

LEMMA BoundAnswers == SlotInv => Slots!ValidRowsWerePublished
BY DEF SlotInv, BoundInv, Slots!Bound, Slots!ValidRowsWerePublished, Answered

LEMMA SlotsTypeCorrect == SlotInv => Slots!TypeOK
<1>. SUFFICES ASSUME SlotInv PROVE Slots!TypeOK
  OBVIOUS
<1>1. \A b \in DOMAIN buckets : Slots!Range(buckets[b].rows) \subseteq DOMAIN rows
  BY DEF SlotInv, Fit
<1>2. Slots!Bound => /\ DOMAIN pairs = DOMAIN rows /\ DOMAIN out = DOMAIN rows
                     /\ \A i \in DOMAIN offsets : offsets[i] \in 0 .. Len(rows)
  BY BoundSegments
<1>. QED BY <1>1, <1>2 DEF SlotInv, Slots!TypeOK

\* Each instant of a tiled request has the pairs of the leading one, and the
\* segmentation of all its pairs repeats the leading part, instant by instant.
LEMMA Instants ==
  ASSUME NEW g \in Seq(Slots!Rows), NEW sources, NEW sinks, NEW T, Stacked(sources, T), Stacked(sinks, T),
         NEW s, s = Len(sources) \div T, s # 0, NEW k, k = Len(sinks) \div T, k # 0,
         NEW f, f = TileOf(g, T, s, k), Slots!Accepted(f, sources, sinks, T),
         NEW t \in 0 .. T - 1
  PROVE  /\ \A r \in 1 .. Len(g) : Slots!PairsOf(f, s, k)[t * Len(g) + r] = t * s * k + Slots!PairOf(g[r], s, k)
         /\ \A q \in 1 .. s * k + 1 :
              Slots!Segmentation(Slots!PairsOf(f, s, k), T * s * k)[t * s * k + q]
                = t * Len(g) + Slots!Segmentation(Slots!PairsOf(f, s, k), T * s * k)[q]
<1>. DEFINE n == Len(g)  m == s * k  p == Slots!PairsOf(f, s, k)  P(r) == Slots!PairOf(g[r], s, k)
<1>1. T \in Nat \ {0} /\ s \in Nat \ {0} /\ k \in Nat \ {0} /\ n \in Nat
  BY StackedIs DEF Stacked
<1>2. m \in Nat \ {0} /\ t * s * k = t * m /\ T * s * k = T * m /\ T * m \in Nat /\ t \in Nat
  BY <1>1, MultipleIsBig
<1>3. f \in Seq(Slots!Rows) /\ Len(f) = T * n
  BY <1>1, TileIs
<1>4. /\ DOMAIN p = 1 .. T * n /\ Rising(p, T * n)
      /\ \A i \in 1 .. T * n : p[i] = Slots!PairOf(f[i], s, k) /\ p[i] \in 0 .. T * s * k - 1
  BY <1>3, AcceptedPairs
<1>5. \A r \in 1 .. n : P(r) \in 0 .. m - 1
  <2>1. 0 \in 0 .. T - 1
    BY <1>1
  <2>2. Slots!Accepted(g, Slots!SlotOf(sources, 0, T), Slots!SlotOf(sinks, 0, T), 1)
    BY <2>1, OneCall
  <2>3. /\ Stacked(Slots!SlotOf(sources, 0, T), 1) /\ Len(Slots!SlotOf(sources, 0, T)) \div 1 = s
        /\ Stacked(Slots!SlotOf(sinks, 0, T), 1) /\ Len(Slots!SlotOf(sinks, 0, T)) \div 1 = k
    BY <2>1, SlotOfIs
  <2>4. \A r \in 1 .. n : Slots!PairsOf(g, s, k)[r] = P(r) /\ Slots!PairsOf(g, s, k)[r] \in 0 .. 1 * s * k - 1
    BY <2>2, <2>3, AcceptedPairs
  <2>5. 1 * s * k = m
    BY <1>1
  <2>. QED BY <2>4, <2>5
<1>6. \A u \in 0 .. T - 1, r \in 1 .. n : p[u * n + r] = u * m + P(r)
  <2>3. \A u \in 0 .. T - 1, r \in 1 .. n :
          Slots!PairOf(TileOf(g, T, s, k)[u * n + r], s, k) = u * m + P(r)
    <3>1. g \in Seq(Slots!Rows)
      OBVIOUS
    <3>. QED BY ONLY <1>1, <3>1, TilePairs, Zenon
  <2>. SUFFICES ASSUME NEW u \in 0 .. T - 1, NEW r \in 1 .. n PROVE p[u * n + r] = u * m + P(r)
    OBVIOUS
  <2>1. u * n + r \in 1 .. T * n
    BY <1>1, Places
  <2>2. Slots!PairOf(f[u * n + r], s, k) = u * m + P(r)
    BY <2>3
  <2>. QED BY <1>4, <2>1, <2>2
<1>7. \A r \in 1 .. n : p[r] = P(r)
  <2>1. 0 \in 0 .. T - 1
    BY <1>1
  <2>. SUFFICES ASSUME NEW r \in 1 .. n PROVE p[r] = P(r)
    OBVIOUS
  <2>2. p[0 * n + r] = 0 * m + P(r)
    BY <1>6, <2>1
  <2>3. 0 * n + r = r /\ 0 * m + P(r) = P(r)
    BY <1>1, <1>2, <1>5
  <2>. QED BY <2>2, <2>3
<1>8. /\ \A i \in 1 .. T * n : p[i] \in Int
      /\ \A u \in 0 .. T - 1, r \in 1 .. n : p[u * n + r] = u * m + p[r]
      /\ \A r \in 1 .. n : p[r] \in 0 .. m - 1
  BY <1>4, <1>5, <1>6, <1>7
<1>9. Slots!Segmentation(p, T * m) = [q \in 1 .. T * m + 1 |-> PairsBelow(p, T * n, q - 1)]
  <2>. DEFINE N == T * n  C == T * m
  <2>1. N \in Nat /\ C \in Nat /\ DOMAIN p = 1 .. N
    BY <1>1, <1>2, <1>3, <1>4
  <2>. HIDE DEF p, N, C
  <2>2. Slots!Segmentation(p, C) = [q \in 1 .. C + 1 |-> PairsBelow(p, N, q - 1)]
    BY <2>1, SegmentationIs
  <2>. QED BY <2>2 DEF N, C
<1>. DEFINE o == Slots!Segmentation(p, T * m)
<1>10. \A q \in 1 .. m + 1 : o[t * m + q] = t * n + o[q]
  <2>. SUFFICES ASSUME NEW q \in 1 .. m + 1 PROVE o[t * m + q] = t * n + o[q]
    OBVIOUS
  <2>1. q - 1 \in 0 .. m
    BY <1>2
  <2>. HIDE DEF p, m, n
  <2>2. PairsBelow(p, T * n, t * m + (q - 1)) = t * n + PairsBelow(p, T * n, q - 1)
    <3>. DEFINE x == q - 1
    <3>1. x \in 0 .. m
      BY <2>1
    <3>. HIDE DEF x
    <3>2. n \in Nat /\ T \in Nat \ {0} /\ m \in Nat \ {0} /\ t \in 0 .. T - 1
      BY <1>1, <1>2
    <3>3. Repeating(p, n, T, m)
      BY <1>4, <1>8 DEF Repeating
    <3>4. PairsBelow(p, T * n, t * m + x) = t * n + PairsBelow(p, T * n, x)
      <4>1. CountsRepeat(p, n, T, m)
        BY <3>2, <3>3, RepeatsBelow
      <4>. QED BY <3>1, <4>1 DEF CountsRepeat
    <3>. QED BY <3>4 DEF x
  <2>3. q \in 1 .. T * m + 1 /\ t * m + q \in 1 .. T * m + 1 /\ (t * m + q) - 1 = t * m + (q - 1)
    <3>1. 1 * m = m /\ (t + 1) * m = t * m + m /\ t * m \in Nat /\ q \in Int /\ m \in Int
      BY <1>2
    <3>2. m * (T - 1) >= 0 /\ m * (T - (t + 1)) >= 0
      BY <1>1, <1>2, MultipleIsBig
    <3>3. m * (T - 1) = T * m - m /\ m * (T - (t + 1)) = T * m - (t * m + m)
      BY <1>1, <1>2
    <3>. DEFINE a == t * m  b == T * m
    <3>4. a \in Nat /\ b \in Nat /\ b - m >= 0 /\ b - (a + m) >= 0
      BY <1>2, <3>1, <3>2, <3>3
    <3>. HIDE DEF a, b
    <3>5. q \in 1 .. b + 1 /\ a + q \in 1 .. b + 1 /\ (a + q) - 1 = a + (q - 1)
      BY <3>1, <3>4
    <3>. QED BY <3>5 DEF a, b
  <2>4. o[t * m + q] = PairsBelow(p, T * n, (t * m + q) - 1) /\ o[q] = PairsBelow(p, T * n, q - 1)
    BY <1>9, <2>3
  <2>. QED BY <2>2, <2>3, <2>4
<1>11. \A r \in 1 .. n : p[t * n + r] = t * s * k + P(r)
  BY <1>2, <1>6
<1>. QED BY <1>2, <1>10, <1>11

\* A time-varying request that was answered.
LEMMA BoundRepeats == SlotInv => Slots!AsOneCallPerInstant
<1>. SUFFICES ASSUME SlotInv, request.kind = "time_varying" PROVE Slots!AsOneCallPerInstant
  BY DEF Slots!AsOneCallPerInstant
<1>. DEFINE T == request.slots  s == Len(request.sources) \div T  k == Len(request.sinks) \div T
            before == IF T = 1 THEN rows ELSE SubSeq(rows, 1, Len(rows) \div T)
            alone(t) == Slots!Accepted(before, Slots!SlotOf(request.sources, t, T), Slots!SlotOf(request.sinks, t, T), 1)
<1>1. /\ Stacked(request.sources, T) /\ Stacked(request.sinks, T) /\ s # 0 /\ k # 0
      /\ Slots!Bound <=> Slots!Accepted(rows, request.sources, request.sinks, T)
      /\ \E g \in Seq(Slots!Rows) : rows = TileOf(g, T, s, k)
  BY DEF SlotInv, TimeInv, PerSource, PerSink
<1>2. PICK g \in Seq(Slots!Rows) : rows = TileOf(g, T, s, k)
  BY <1>1
<1>3. T \in Nat \ {0} /\ s \in Int /\ k \in Int
  BY <1>1, StackedIs DEF Stacked
<1>. HIDE DEF T, s, k
<1>4. before = g
  <2>1. CASE T = 1
    BY <1>2, <1>3, <2>1, TileOne
  <2>2. CASE T # 1
    <3>1. SubSeq(TileOf(g, T, s, k), 1, Len(TileOf(g, T, s, k)) \div T) = g
      BY <1>2, <1>3, TileHead
    <3>. QED BY <1>2, <2>2, <3>1
  <2>. QED BY <2>1, <2>2
<1>. HIDE DEF before
<1>5. Slots!Bound <=> \A t \in 0 .. T - 1 : alone(t)
  <2>1. Slots!Accepted(TileOf(g, T, s, k), request.sources, request.sinks, T) <=>
          \A t \in 0 .. T - 1 :
            Slots!Accepted(g, Slots!SlotOf(request.sources, t, T), Slots!SlotOf(request.sinks, t, T), 1)
    BY <1>1, <1>2, OneCall DEF s, k
  <2>. QED BY <1>1, <1>2, <1>4, <2>1
<1>6. ASSUME Slots!Bound, NEW t \in 0 .. T - 1
      PROVE  /\ \A r \in DOMAIN before :
                  pairs[t * Len(before) + r] = t * s * k + Slots!PairOf(before[r], s, k)
             /\ \A q \in 1 .. s * k + 1 :
                  offsets[t * s * k + q] = t * Len(before) + offsets[q]
  <2>1. pairs = Slots!PairsOf(rows, s, k) /\ offsets = Slots!Segmentation(pairs, T * s * k)
    BY <1>6 DEF SlotInv, BoundInv, PerSource, PerSink, T, s, k
  <2>2. DOMAIN before = 1 .. Len(g) /\ Len(before) = Len(g)
    BY <1>4
  <2>3. Slots!Accepted(rows, request.sources, request.sinks, T)
    BY <1>1, <1>6
  <2>4. s = Len(request.sources) \div T /\ k = Len(request.sinks) \div T
    BY DEF s, k
  <2>5. /\ \A r \in 1 .. Len(g) : Slots!PairsOf(rows, s, k)[t * Len(g) + r] = t * s * k + Slots!PairOf(g[r], s, k)
        /\ \A q \in 1 .. s * k + 1 :
             Slots!Segmentation(Slots!PairsOf(rows, s, k), T * s * k)[t * s * k + q]
               = t * Len(g) + Slots!Segmentation(Slots!PairsOf(rows, s, k), T * s * k)[q]
    BY <1>1, <1>2, <1>6, <2>3, <2>4, Instants
  <2>. QED BY <1>4, <2>1, <2>2, <2>5
<1>7. /\ Slots!Bound <=> \A t \in 0 .. T - 1 : alone(t)
      /\ Slots!Bound =>
           \A t \in 0 .. T - 1 :
             /\ \A r \in DOMAIN before :
                  pairs[t * Len(before) + r] = t * s * k + Slots!PairOf(before[r], s, k)
             /\ \A q \in 1 .. s * k + 1 :
                  offsets[t * s * k + q] = t * Len(before) + offsets[q]
  BY <1>5, <1>6
<1>. QED BY <1>7, Zenon DEF Slots!AsOneCallPerInstant, T, s, k, before

\* Frozen as discovered.
LEMMA SlotInitInv == Slots!Init => SlotInv
<1>. SUFFICES ASSUME Slots!Init PROVE SlotInv
  OBVIOUS
<1>1. PICK t \in Topologies : width = t.width /\ frozen = t.rows
  BY DEF Slots!Init
<1>2. Topologies \subseteq [width : Nat, rows : Seq(Slots!Rows)] /\ MaxSlots \in Nat \ {0}
  BY ConsumerAssumption DEF ConsumerAssumption, Slots!TopologiesAssumption, Slots!BoundsAssumption
<1>3. width \in Nat /\ frozen \in Seq(Slots!Rows) /\ [width |-> width, rows |-> frozen] = t
  BY <1>1, <1>2
<1>4. 1 \in 1 .. MaxSlots * MaxSlots /\ 1 <= MaxSlots
  <2>. DEFINE m == MaxSlots * MaxSlots
  <2>1. MaxSlots \in Nat \ {0} /\ MaxSlots \in Int /\ MaxSlots >= 1
    BY <1>2
  <2>2. m >= MaxSlots /\ m \in Int
    BY <2>1, MultipleIsBig
  <2>. HIDE DEF m
  <2>3. 1 \in 1 .. m /\ 1 <= MaxSlots
    BY <2>1, <2>2
  <2>. QED BY <2>3 DEF m
<1>5. /\ stage = "frozen" /\ rows = frozen /\ buckets = <<>> /\ tiled = 1
      /\ request = Slots!NoRequest /\ replayed = 0
  BY DEF Slots!Init
<1>6. Fit(buckets, rows)
  BY <1>5 DEF Fit
<1>7. request.kind # "time_varying" /\ ~Slots!Bound
  BY <1>5 DEF Slots!NoRequest, Slots!Bound
<1>8. replayed \in 0 .. Len(buckets)
  BY <1>5
<1>. QED BY <1>1, <1>3, <1>4, <1>5, <1>6, <1>7, <1>8 DEF SlotInv

LEMMA PreparedInv == ASSUME SlotInv, Slots!Prepare PROVE SlotInv'
<1>. DEFINE keys == Slots!InOrder({Slots!Key(frozen[i]) : i \in DOMAIN frozen})
            parts == [b \in DOMAIN keys |-> Slots!Bucket(keys[b])]
<1>1. /\ stage = "frozen" /\ UNCHANGED <<width, frozen, rows, tiled, request, replayed>>
      /\ stage' \in {"prepared", "refused"}
  BY DEF Slots!Prepare
<1>2. \/ stage' = "refused" /\ buckets' = <<>>
      \/ /\ stage' = "prepared" /\ buckets' = parts
         /\ \A i \in DOMAIN frozen : ~Slots!Malformed(frozen[i])
  BY Zenon DEF Slots!Prepare
<1>. HIDE DEF parts
<1>3. /\ width \in Nat /\ frozen \in Seq(Slots!Rows) /\ [width |-> width, rows |-> frozen] \in Topologies
      /\ rows = frozen /\ tiled = 1 /\ tiled \in 1 .. MaxSlots * MaxSlots /\ tiled <= MaxSlots
      /\ request = Slots!NoRequest /\ replayed = 0
  BY <1>1 DEF SlotInv
<1>4. Fit(buckets', rows') /\ (stage' = "prepared" => Covers(buckets', rows'))
  <2>1. CASE buckets' = <<>> /\ stage' = "refused"
    BY <2>1 DEF Fit
  <2>2. CASE buckets' = parts /\ \A i \in DOMAIN frozen : ~Slots!Malformed(frozen[i])
    <3>1. Fit(parts, frozen) /\ Covers(parts, frozen)
      BY <1>3, <2>2, Partitioned DEF parts
    <3>. QED BY <1>1, <1>3, <2>2, <3>1
  <2>. QED BY <1>2, <2>1, <2>2
<1>5. replayed' \in 0 .. Len(buckets')
  BY <1>1, <1>3, <1>4 DEF Fit
<1>6. request'.kind # "time_varying" /\ ~Slots!Bound'
  BY <1>1, <1>3 DEF Slots!NoRequest, Slots!Bound
<1>. QED BY <1>1, <1>3, <1>4, <1>5, <1>6 DEF SlotInv

\* The rows and buckets of TiledRows and TiledBuckets.
LEMMA TilingKeeps ==
  ASSUME SlotInv, stage \in {"prepared", "replicated"}, NEW T \in Nat, NEW a \in Int, NEW b \in Int
  PROVE  /\ Slots!TiledRows(T, a, b) = TileOf(rows, T, a, b)
         /\ TileOf(rows, T, a, b) \in Seq(Slots!Rows)
         /\ Fit(Slots!TiledBuckets(T), TileOf(rows, T, a, b))
         /\ Covers(Slots!TiledBuckets(T), TileOf(rows, T, a, b))
<1>1. Slots!TiledRows(T, a, b) = TileOf(rows, T, a, b)
  BY DEF Slots!TiledRows, TileOf, Slots!Tiled, Slots!Lap, Shifted
<1>2. rows \in Seq(Slots!Rows) /\ Fit(buckets, rows) /\ Covers(buckets, rows)
  BY DEF SlotInv
<1>. QED BY <1>1, <1>2, TileIs, TiledBucketsFit

LEMMA ReplicatedInv ==
  ASSUME SlotInv, NEW slots \in 1 .. MaxSlots, NEW s \in 1 .. MaxPerSlot, NEW k \in 1 .. MaxPerSlot,
         Slots!Replicate(slots, s, k)
  PROVE  SlotInv'
<1>1. /\ stage = "prepared" /\ stage' = "replicated" /\ tiled' = slots /\ slots > 1
      /\ rows' = Slots!TiledRows(slots, s, k) /\ buckets' = Slots!TiledBuckets(slots)
      /\ UNCHANGED <<width, frozen, request, replayed>>
  BY DEF Slots!Replicate
<1>2. MaxSlots \in Nat \ {0} /\ MaxPerSlot \in Nat
  BY ConsumerAssumption DEF ConsumerAssumption, Slots!BoundsAssumption
<1>3. slots \in Nat /\ s \in Nat \ {0} /\ k \in Nat \ {0} /\ slots <= MaxSlots
  BY <1>2
<1>4. slots \in 1 .. MaxSlots * MaxSlots
  <2>. DEFINE m == MaxSlots * MaxSlots
  <2>1. m >= MaxSlots /\ m \in Int
    BY <1>2, MultipleIsBig
  <2>. HIDE DEF m
  <2>2. slots \in 1 .. m
    BY <1>2, <1>3, <2>1
  <2>. QED BY <2>2 DEF m
<1>5. /\ width \in Nat /\ frozen \in Seq(Slots!Rows) /\ [width |-> width, rows |-> frozen] \in Topologies
      /\ rows = frozen /\ request = Slots!NoRequest /\ replayed = 0
  BY <1>1 DEF SlotInv
<1>6. /\ rows' = TileOf(rows, slots, s, k) /\ rows' \in Seq(Slots!Rows)
      /\ Fit(buckets', rows') /\ Covers(buckets', rows')
  <2>1. stage \in {"prepared", "replicated"} /\ slots \in Nat /\ s \in Int /\ k \in Int
    BY <1>1, <1>3
  <2>2. /\ Slots!TiledRows(slots, s, k) = TileOf(rows, slots, s, k)
        /\ TileOf(rows, slots, s, k) \in Seq(Slots!Rows)
        /\ Fit(Slots!TiledBuckets(slots), TileOf(rows, slots, s, k))
        /\ Covers(Slots!TiledBuckets(slots), TileOf(rows, slots, s, k))
    BY <2>1, TilingKeeps, Zenon
  <2>. QED BY <1>1, <2>2
<1>7. Copies'
  <2>1. rows' = TileOf(frozen', tiled', s, k)
    BY <1>1, <1>5, <1>6
  <2>2. \E a, b \in Nat \ {0} : rows' = TileOf(frozen', tiled', a, b)
    BY <1>3, <2>1
  <2>. QED BY <2>2, Zenon DEF Copies
<1>8. replayed' \in 0 .. Len(buckets')
  BY <1>1, <1>5, <1>6 DEF Fit
<1>9. request'.kind # "time_varying" /\ ~Slots!Bound'
  BY <1>1, <1>5 DEF Slots!NoRequest, Slots!Bound
<1>10. tiled' > 1 /\ tiled' <= MaxSlots /\ tiled' \in 1 .. MaxSlots * MaxSlots
  BY <1>1, <1>3, <1>4
<1>. QED BY <1>1, <1>5, <1>6, <1>7, <1>8, <1>9, <1>10 DEF SlotInv

\* A request bound or refused.
LEMMA BindInv ==
  ASSUME SlotInv, NEW kind, NEW sources, NEW sinks, NEW slots, Slots!Bind(kind, sources, sinks, slots),
         Stacked(sources, slots), Stacked(sinks, slots),
         stage \in {"prepared", "replicated"},
         rows' \in Seq(Slots!Rows), tiled' \in 1 .. MaxSlots * MaxSlots,
         Fit(buckets', rows'), Covers(buckets', rows'),
         tiled' > 1 /\ tiled' = slots => Copies',
         kind = "time_varying" =>
           /\ Len(sources) \div slots # 0 /\ Len(sinks) \div slots # 0
           /\ \E f \in Seq(Slots!Rows) :
                rows' = TileOf(f, slots, Len(sources) \div slots, Len(sinks) \div slots)
  PROVE  SlotInv'
<1>. DEFINE accepted == Slots!Accepted(rows', sources, sinks, slots)
            s == Len(sources) \div slots  k == Len(sinks) \div slots
<1>1. /\ request' = [kind |-> kind, sources |-> sources, sinks |-> sinks, slots |-> slots]
      /\ UNCHANGED <<width, frozen, replayed>>
  BY Zenon DEF Slots!Bind
<1>2. accepted => /\ stage' = "bound" /\ pairs' = Slots!PairsOf(rows', s, k)
                  /\ offsets' = Slots!Segmentation(pairs', slots * s * k)
                  /\ out' = [i \in DOMAIN rows' |-> Slots!Blank]
  BY Zenon DEF Slots!Bind
<1>3. ~accepted => stage' = "refused"
  BY Zenon DEF Slots!Bind
<1>. HIDE DEF accepted
<1>4. /\ width \in Nat /\ frozen \in Seq(Slots!Rows) /\ [width |-> width, rows |-> frozen] \in Topologies
      /\ replayed = 0
  BY DEF SlotInv
<1>5. replayed' \in 0 .. Len(buckets') /\ 1 .. replayed' = {}
  BY <1>1, <1>4 DEF Fit
<1>6. /\ request'.kind = kind /\ request'.sources = sources /\ request'.sinks = sinks
      /\ request'.slots = slots /\ PerSource' = s /\ PerSink' = k
  BY <1>1 DEF PerSource, PerSink
<1>. HIDE DEF s, k
<1>7. stage' \in {"bound", "refused"} /\ (Slots!Bound' <=> accepted)
  BY <1>2, <1>3 DEF Slots!Bound
<1>8. Slots!Bound' => BoundInv'
  <2>. SUFFICES ASSUME accepted PROVE BoundInv'
    BY <1>7
  <2>1. /\ Stacked(request'.sources, request'.slots) /\ Stacked(request'.sinks, request'.slots)
        /\ Slots!Accepted(rows', request'.sources, request'.sinks, request'.slots)
        /\ pairs' = Slots!PairsOf(rows', PerSource', PerSink')
        /\ offsets' = Slots!Segmentation(pairs', request'.slots * PerSource' * PerSink')
    BY <1>2, <1>6 DEF accepted
  <2>2. DOMAIN out' = DOMAIN rows' /\ stage' = "bound"
    BY <1>2
  <2>3. tiled' > 1 /\ tiled' = request'.slots => Copies'
    BY <1>6
  <2>. QED BY <1>5, <2>1, <2>2, <2>3 DEF BoundInv
<1>9. request'.kind = "time_varying" => TimeInv'
  <2>. SUFFICES ASSUME kind = "time_varying" PROVE TimeInv'
    BY <1>6
  <2>1. /\ Stacked(request'.sources, request'.slots) /\ Stacked(request'.sinks, request'.slots)
        /\ PerSource' # 0 /\ PerSink' # 0
        /\ \E f \in Seq(Slots!Rows) : rows' = TileOf(f, request'.slots, PerSource', PerSink')
    BY <1>6 DEF s, k
  <2>2. Slots!Bound' <=> Slots!Accepted(rows', request'.sources, request'.sinks, request'.slots)
    BY <1>6, <1>7 DEF accepted
  <2>3. stage' \in {"bound", "done", "refused"}
    BY <1>7
  <2>. QED BY <2>1, <2>2, <2>3 DEF TimeInv
<1>10. /\ width' \in Nat /\ frozen' \in Seq(Slots!Rows)
       /\ [width |-> width', rows |-> frozen'] \in Topologies
  BY <1>1, <1>4
<1>. QED BY <1>5, <1>7, <1>8, <1>9, <1>10 DEF SlotInv

\* Batches that a request's slot count divides are stacked.
LEMMA BatchesStack ==
  ASSUME NEW sources \in Sources, NEW sinks \in Sinks, NEW slots \in 1 .. MaxSlots,
         slots > 1 => Len(sources) % slots = 0 /\ Len(sinks) % slots = 0
  PROVE  Stacked(sources, slots) /\ Stacked(sinks, slots)
<1>1. sources \in Seq(Int) /\ sinks \in Seq(Int) /\ slots \in Nat \ {0}
  BY ConsumerAssumption DEF ConsumerAssumption, Slots!BatchesAssumption, Slots!BoundsAssumption
<1>2. slots = 1 => Len(sources) % slots = 0 /\ Len(sinks) % slots = 0
  <2>1. Len(sources) \in Int /\ Len(sinks) \in Int
    BY <1>1
  <2>. QED BY <2>1
<1>. QED BY <1>1, <1>2 DEF Stacked

LEMMA ReevaluatedInv ==
  ASSUME SlotInv, NEW sources \in Sources, NEW sinks \in Sinks, NEW slots \in 1 .. MaxSlots,
         Slots!Reevaluate(sources, sinks, slots)
  PROVE  SlotInv'
<1>1. /\ stage \in {"prepared", "replicated"} /\ UNCHANGED <<rows, buckets, tiled>>
      /\ Slots!Bind("reevaluate", sources, sinks, slots)
  BY DEF Slots!Reevaluate
<1>2. Stacked(sources, slots) /\ Stacked(sinks, slots)
  <2>1. slots > 1 => Len(sources) % slots = 0 /\ Len(sinks) % slots = 0
    BY DEF Slots!Reevaluate, Slots!Divides
  <2>. QED BY <2>1, BatchesStack
<1>3. /\ rows \in Seq(Slots!Rows) /\ tiled \in 1 .. MaxSlots * MaxSlots
      /\ Fit(buckets, rows) /\ Covers(buckets, rows)
  BY <1>1 DEF SlotInv
<1>4. tiled > 1 => Copies'
  <2>. SUFFICES ASSUME tiled > 1 PROVE Copies'
    OBVIOUS
  <2>1. Copies
    BY <1>1 DEF SlotInv
  <2>2. frozen' = frozen
    BY <1>1 DEF Slots!Bind
  <2>. QED BY <1>1, <2>1, <2>2 DEF Copies
<1>5. tiled' > 1 /\ tiled' = slots => Copies'
  BY <1>1, <1>4
<1>. QED BY <1>1, <1>2, <1>3, <1>5, BindInv

LEMMA TimeVaryingInv ==
  ASSUME SlotInv, NEW sources \in Sources, NEW sinks \in Sinks, NEW slots \in 1 .. MaxSlots,
         Slots!EvaluateTimeVarying(sources, sinks, slots)
  PROVE  SlotInv'
<1>. DEFINE s == Len(sources) \div slots  k == Len(sinks) \div slots
<1>1. /\ stage \in {"prepared", "replicated"} /\ tiled' = tiled * slots
      /\ Len(sources) % slots = 0 /\ Len(sinks) % slots = 0 /\ sources # <<>> /\ sinks # <<>>
      /\ Slots!Bind("time_varying", sources, sinks, slots)
  BY DEF Slots!EvaluateTimeVarying
<1>2. /\ rows' = IF slots = 1 THEN rows ELSE Slots!TiledRows(slots, s, k)
      /\ buckets' = IF slots = 1 THEN buckets ELSE Slots!TiledBuckets(slots)
  BY DEF Slots!EvaluateTimeVarying, Slots!PerSlotCounts
<1>3. /\ Stacked(sources, slots) /\ Stacked(sinks, slots)
      /\ s \in Nat \ {0} /\ k \in Nat \ {0} /\ slots \in Nat \ {0}
  <2>1. Stacked(sources, slots) /\ Stacked(sinks, slots)
    BY <1>1, BatchesStack
  <2>. QED BY <1>1, <2>1, StackedIs DEF Stacked
<1>4. /\ rows \in Seq(Slots!Rows) /\ tiled \in 1 .. MaxSlots * MaxSlots /\ tiled <= MaxSlots
      /\ Fit(buckets, rows) /\ Covers(buckets, rows)
  BY <1>1 DEF SlotInv
<1>. HIDE DEF s, k
<1>5. /\ rows' = TileOf(rows, slots, s, k) /\ rows' \in Seq(Slots!Rows)
      /\ Fit(buckets', rows') /\ Covers(buckets', rows')
  <2>1. CASE slots = 1
    <3>1. TileOf(rows, 1, s, k) = rows
      BY <1>3, <1>4, TileOne
    <3>. QED BY <1>2, <1>4, <2>1, <3>1
  <2>2. CASE slots # 1
    <3>1. slots \in Nat /\ s \in Int /\ k \in Int
      BY <1>3
    <3>2. /\ Slots!TiledRows(slots, s, k) = TileOf(rows, slots, s, k)
          /\ TileOf(rows, slots, s, k) \in Seq(Slots!Rows)
          /\ Fit(Slots!TiledBuckets(slots), TileOf(rows, slots, s, k))
          /\ Covers(Slots!TiledBuckets(slots), TileOf(rows, slots, s, k))
      BY <1>1, <3>1, TilingKeeps, Zenon
    <3>. QED BY <1>2, <2>2, <3>2
  <2>. QED BY <2>1, <2>2
<1>6. tiled' \in 1 .. MaxSlots * MaxSlots /\ (tiled' = slots => tiled = 1)
  <2>. DEFINE m == MaxSlots * MaxSlots  a == MaxSlots * slots  b == slots * tiled
  <2>1. MaxSlots \in Nat \ {0} /\ tiled \in Nat \ {0} /\ slots \in Nat \ {0} /\ slots <= MaxSlots /\ tiled <= MaxSlots
    BY <1>3, <1>4, ConsumerAssumption DEF ConsumerAssumption, Slots!BoundsAssumption
  <2>2. MaxSlots * (MaxSlots - slots) >= 0 /\ slots * (MaxSlots - tiled) >= 0 /\ slots * (tiled - 1) >= 0
        /\ (tiled - 1 >= 1 => slots * (tiled - 1) >= slots)
    BY <2>1, MultipleIsBig
  <2>3. /\ MaxSlots * (MaxSlots - slots) = m - a /\ slots * (MaxSlots - tiled) = a - b
        /\ slots * (tiled - 1) = b - slots /\ tiled * slots = b /\ m \in Int /\ a \in Int /\ b \in Int
    BY <2>1
  <2>. HIDE DEF m, a, b
  <2>4. b \in 1 .. m /\ (b = slots => tiled = 1)
    BY <2>1, <2>2, <2>3
  <2>. QED BY <1>1, <2>3, <2>4 DEF m
<1>7. tiled' > 1 /\ tiled' = slots => Copies'
  <2>. SUFFICES ASSUME tiled' > 1, tiled' = slots PROVE Copies'
    OBVIOUS
  <2>1. tiled = 1
    BY <1>6
  <2>2. rows = frozen
    BY <1>1, <2>1 DEF SlotInv
  <2>3. frozen' = frozen
    BY <1>1 DEF Slots!Bind
  <2>4. rows' = TileOf(frozen', tiled', s, k)
    BY <1>5, <2>2, <2>3
  <2>5. \E a, b \in Nat \ {0} : rows' = TileOf(frozen', tiled', a, b)
    BY <1>3, <2>4
  <2>. QED BY <2>5, Zenon DEF Copies
<1>8. /\ Len(sources) \div slots # 0 /\ Len(sinks) \div slots # 0
      /\ \E f \in Seq(Slots!Rows) :
           rows' = TileOf(f, slots, Len(sources) \div slots, Len(sinks) \div slots)
  BY <1>3, <1>4, <1>5 DEF s, k
<1>. QED BY <1>1, <1>3, <1>5, <1>6, <1>7, <1>8, BindInv

LEMMA RawInv ==
  ASSUME SlotInv, NEW sources \in Sources, NEW sinks \in Sinks, Slots!ReevaluateRaw(sources, sinks)
  PROVE  SlotInv'
<1>. DEFINE accepted == /\ Slots!Accepted(rows, sources, sinks, 1)
                        /\ \A i \in DOMAIN rows : rows[i].depth = 0 /\ rows[i].component = 0
            s == Len(sources) \div 1  k == Len(sinks) \div 1
<1>1. /\ stage = "frozen" /\ UNCHANGED <<width, frozen, rows, buckets, tiled, replayed>>
      /\ request' = [kind |-> "raw", sources |-> sources, sinks |-> sinks, slots |-> 1]
  BY DEF Slots!ReevaluateRaw
<1>2. accepted => /\ stage' = "done" /\ pairs' = Slots!PairsOf(rows, Len(sources), Len(sinks))
                  /\ offsets' = Slots!Segmentation(pairs', Len(sources) * Len(sinks))
                  /\ out' = [i \in DOMAIN rows |-> [valid |-> TRUE, by |-> {<<0, 0>>}]]
  BY Zenon DEF Slots!ReevaluateRaw
<1>3. ~accepted => stage' = "refused"
  BY Zenon DEF Slots!ReevaluateRaw
<1>4. /\ width \in Nat /\ frozen \in Seq(Slots!Rows) /\ [width |-> width, rows |-> frozen] \in Topologies
      /\ rows \in Seq(Slots!Rows) /\ tiled = 1 /\ tiled \in 1 .. MaxSlots * MaxSlots
      /\ Fit(buckets, rows) /\ replayed \in 0 .. Len(buckets)
  BY <1>1 DEF SlotInv
<1>5. /\ Stacked(sources, 1) /\ Stacked(sinks, 1) /\ s = Len(sources) /\ k = Len(sinks)
      /\ 1 * s * k = Len(sources) * Len(sinks)
  <2>1. MaxSlots \in Nat \ {0}
    BY ConsumerAssumption DEF ConsumerAssumption, Slots!BoundsAssumption
  <2>2. Stacked(sources, 1) /\ Stacked(sinks, 1)
    BY <2>1, BatchesStack
  <2>3. Len(sources) \in Nat /\ Len(sinks) \in Nat
    BY <2>2 DEF Stacked
  <2>. QED BY <2>2, <2>3
<1>6. /\ request'.kind = "raw" /\ request'.sources = sources /\ request'.sinks = sinks
      /\ request'.slots = 1 /\ PerSource' = s /\ PerSink' = k
  BY <1>1 DEF PerSource, PerSink
<1>. HIDE DEF s, k
<1>7. stage' \in {"done", "refused"} /\ (Slots!Bound' <=> accepted)
  <2>. HIDE DEF accepted
  <2>. QED BY <1>2, <1>3 DEF Slots!Bound
<1>8. Slots!Bound' => BoundInv'
  <2>. SUFFICES ASSUME accepted PROVE BoundInv'
    BY <1>7
  <2>1. /\ Stacked(request'.sources, request'.slots) /\ Stacked(request'.sinks, request'.slots)
        /\ Slots!Accepted(rows', request'.sources, request'.sinks, request'.slots)
        /\ pairs' = Slots!PairsOf(rows', PerSource', PerSink')
        /\ offsets' = Slots!Segmentation(pairs', request'.slots * PerSource' * PerSink')
    BY <1>1, <1>2, <1>5, <1>6
  <2>2. DOMAIN out' = DOMAIN rows' /\ stage' = "done"
    BY <1>1, <1>2
  <2>3. ~(tiled' > 1)
    BY <1>1, <1>4
  <2>4. ASSUME NEW i \in DOMAIN rows PROVE Answered(i)'
    <3>1. out'[i].by = {<<0, 0>>} /\ out'[i].valid = TRUE /\ rows'[i].component = 0 /\ rows'[i].depth = 0
      BY <1>1, <1>2
    <3>. QED BY <3>1 DEF Answered
  <2>5. \A i \in DOMAIN rows' : Answered(i)'
    BY <1>1, <2>4
  <2>. QED BY <2>1, <2>2, <2>3, <2>5 DEF BoundInv
<1>9. request'.kind # "time_varying"
  BY <1>6
<1>. HIDE DEF accepted
<1>. QED BY <1>1, <1>4, <1>7, <1>8, <1>9 DEF SlotInv

\* What of SlotInv is not about the outputs and the buckets replayed.
LEMMA ServedInv ==
  ASSUME SlotInv, stage = "bound", stage' \in {"bound", "done"},
         UNCHANGED <<width, frozen, rows, buckets, tiled, request, pairs, offsets>>,
         replayed' \in 0 .. Len(buckets), DOMAIN out' = DOMAIN out,
         stage' = "bound" => \A c \in 1 .. replayed' : \A i \in Slots!Range(buckets[c].rows) : Answered(i)',
         stage' = "done" => \A i \in DOMAIN rows : Answered(i)'
  PROVE  SlotInv'
<1>1. Slots!Bound /\ Slots!Bound'
  BY DEF Slots!Bound
<1>2. BoundInv
  BY <1>1 DEF SlotInv
<1>3. PerSource' = PerSource /\ PerSink' = PerSink /\ (Copies => Copies')
  BY DEF PerSource, PerSink, Copies
<1>4. /\ Stacked(request'.sources, request'.slots) /\ Stacked(request'.sinks, request'.slots)
      /\ Slots!Accepted(rows', request'.sources, request'.sinks, request'.slots)
      /\ pairs' = Slots!PairsOf(rows', PerSource', PerSink')
      /\ offsets' = Slots!Segmentation(pairs', request'.slots * PerSource' * PerSink')
      /\ DOMAIN out' = DOMAIN rows'
      /\ tiled' > 1 /\ tiled' = request'.slots => Copies'
      /\ Covers(buckets', rows')
  BY <1>2, <1>3 DEF BoundInv
<1>5. BoundInv'
  BY <1>4 DEF BoundInv
<1>6. request'.kind = "time_varying" => TimeInv'
  <2>. SUFFICES ASSUME request.kind = "time_varying" PROVE TimeInv'
    OBVIOUS
  <2>1. TimeInv
    BY DEF SlotInv
  <2>2. /\ Stacked(request'.sources, request'.slots) /\ Stacked(request'.sinks, request'.slots)
        /\ PerSource' # 0 /\ PerSink' # 0
        /\ \E f \in Seq(Slots!Rows) : rows' = TileOf(f, request'.slots, PerSource', PerSink')
    BY <1>3, <2>1 DEF TimeInv
  <2>3. Slots!Bound' <=> Slots!Accepted(rows', request'.sources, request'.sinks, request'.slots)
    BY <1>1, <1>4
  <2>. QED BY <2>2, <2>3 DEF TimeInv
<1>7. /\ width' \in Nat /\ frozen' \in Seq(Slots!Rows) /\ [width |-> width', rows |-> frozen'] \in Topologies
      /\ rows' \in Seq(Slots!Rows) /\ tiled' \in 1 .. MaxSlots * MaxSlots
      /\ Fit(buckets', rows') /\ replayed' \in 0 .. Len(buckets')
  BY DEF SlotInv
<1>. QED BY <1>5, <1>6, <1>7 DEF SlotInv

LEMMA BucketInv == ASSUME SlotInv, Slots!ReplayBucket PROVE SlotInv'
<1>. DEFINE b == buckets[replayed + 1]  mine == Slots!Range(b.rows)
<1>1. /\ stage = "bound" /\ replayed < Len(buckets) /\ replayed' = replayed + 1
      /\ UNCHANGED <<stage, width, frozen, rows, buckets, tiled, request, pairs, offsets>>
  BY DEF Slots!ReplayBucket
<1>2. PICK alive \in SUBSET mine :
        out' = [i \in DOMAIN out |->
                  IF i \in mine
                  THEN [valid |-> i \in alive,
                        by |-> IF i \in alive THEN {<<b.component, b.depth>>} ELSE {}]
                  ELSE out[i]]
  BY Zenon DEF Slots!ReplayBucket
<1>3. /\ BoundInv /\ DOMAIN out = DOMAIN rows /\ Fit(buckets, rows) /\ replayed \in 0 .. Len(buckets)
      /\ \A c \in 1 .. replayed : \A i \in Slots!Range(buckets[c].rows) : Answered(i)
  BY <1>1 DEF SlotInv, BoundInv, Slots!Bound
<1>4. replayed' \in 0 .. Len(buckets) /\ replayed + 1 \in DOMAIN buckets
  BY <1>1, <1>3 DEF Fit
<1>5. ASSUME NEW i \in mine PROVE i \in DOMAIN out /\ Answered(i)'
  <2>1. i \in DOMAIN out /\ rows[i].component = b.component /\ rows[i].depth = b.depth
    BY <1>3, <1>4 DEF Fit
  <2>. HIDE DEF mine, b
  <2>2. CASE i \in alive
    <3>1. out'[i].valid = TRUE /\ out'[i].by = {<<b.component, b.depth>>}
      BY <1>2, <1>5, <2>1, <2>2
    <3>. QED BY <1>1, <2>1, <3>1 DEF Answered
  <2>3. CASE i \notin alive
    <3>0. out'[i] = [valid |-> i \in alive, by |-> IF i \in alive THEN {<<b.component, b.depth>>} ELSE {}]
      BY <1>2, <1>5, <2>1
    <3>1. out'[i].by = {} /\ out'[i].valid = (i \in alive)
      BY <2>3, <3>0
    <3>2. ~out'[i].valid
      BY <2>3, <3>1, Zenon
    <3>. QED BY <2>1, <3>1, <3>2 DEF Answered
  <2>. QED BY <2>2, <2>3
<1>6. ASSUME NEW c \in 1 .. replayed', NEW i \in Slots!Range(buckets[c].rows) PROVE Answered(i)'
  <2>1. CASE i \in mine
    BY <1>5, <2>1
  <2>2. CASE i \notin mine
    <3>1. c \in 1 .. replayed /\ c \in DOMAIN buckets
      <4>1. c # replayed + 1
        BY <1>6, <2>2
      <4>2. c \in 1 .. replayed + 1 /\ replayed \in Nat /\ Len(buckets) \in Nat
            /\ DOMAIN buckets = 1 .. Len(buckets)
        BY <1>1, <1>3, <1>6 DEF Fit
      <4>. QED BY <1>3, <4>1, <4>2
    <3>2. Answered(i) /\ i \in DOMAIN out
      BY <1>3, <1>6, <3>1 DEF Fit
    <3>. HIDE DEF mine
    <3>3. out'[i] = out[i]
      BY <1>2, <2>2, <3>2
    <3>. QED BY <1>1, <3>2, <3>3 DEF Answered
  <2>. QED BY <2>1, <2>2
<1>. HIDE DEF mine, b
<1>7. DOMAIN out' = DOMAIN out
  BY <1>2
<1>. QED BY <1>1, <1>4, <1>6, <1>7, ServedInv

LEMMA PublishInv == ASSUME SlotInv, Slots!Publish PROVE SlotInv'
<1>1. /\ stage = "bound" /\ stage' = "done" /\ replayed = Len(buckets)
      /\ UNCHANGED <<width, frozen, rows, buckets, tiled, request, pairs, offsets, out, replayed>>
  BY DEF Slots!Publish
<1>2. /\ Covers(buckets, rows) /\ buckets \in Seq(Buckets) /\ replayed \in 0 .. Len(buckets)
      /\ \A c \in 1 .. replayed : \A i \in Slots!Range(buckets[c].rows) : Answered(i)
  BY <1>1 DEF SlotInv, BoundInv, Slots!Bound, Fit
<1>3. \A i \in DOMAIN rows : Answered(i)
  BY <1>1, <1>2 DEF Covers
<1>4. \A i \in DOMAIN rows : Answered(i)'
  BY <1>1, <1>3 DEF Answered
<1>. QED BY <1>1, <1>2, <1>4, ServedInv

LEMMA SlotNextInv == SlotInv /\ [Slots!Next]_Slots!vars => SlotInv'
<1>. SUFFICES ASSUME SlotInv, [Slots!Next]_Slots!vars PROVE SlotInv'
  OBVIOUS
<1>1. CASE Slots!Prepare
  BY <1>1, PreparedInv
<1>2. ASSUME NEW slots \in 1 .. MaxSlots, NEW s \in 1 .. MaxPerSlot, NEW k \in 1 .. MaxPerSlot,
             Slots!Replicate(slots, s, k)
      PROVE  SlotInv'
  BY <1>2, ReplicatedInv
<1>3. ASSUME NEW sources \in Sources, NEW sinks \in Sinks, Slots!ReevaluateRaw(sources, sinks)
      PROVE  SlotInv'
  BY <1>3, RawInv
<1>4. ASSUME NEW sources \in Sources, NEW sinks \in Sinks, NEW slots \in 1 .. MaxSlots
      PROVE  /\ Slots!Reevaluate(sources, sinks, slots) => SlotInv'
             /\ Slots!EvaluateTimeVarying(sources, sinks, slots) => SlotInv'
  BY ReevaluatedInv, TimeVaryingInv
<1>5. CASE Slots!ReplayBucket
  BY <1>5, BucketInv
<1>6. CASE Slots!Publish
  BY <1>6, PublishInv
<1>7. CASE UNCHANGED Slots!vars
  <2>1. UNCHANGED <<stage, width, frozen, rows, buckets, tiled, request, pairs, offsets, out, replayed>>
    BY <1>7 DEF Slots!vars
  <2>2. (Copies => Copies') /\ PerSource' = PerSource /\ PerSink' = PerSink /\ (Slots!Bound' <=> Slots!Bound)
        /\ \A i : Answered(i)' <=> Answered(i)
    BY <2>1 DEF Copies, PerSource, PerSink, Slots!Bound, Answered
  <2>3. BoundInv => BoundInv'
    BY <2>1, <2>2 DEF BoundInv
  <2>4. TimeInv => TimeInv'
    BY <2>1, <2>2 DEF TimeInv
  <2>. QED BY <2>1, <2>2, <2>3, <2>4 DEF SlotInv
<1>. QED BY <1>1, <1>2, <1>3, <1>4, <1>5, <1>6, <1>7 DEF Slots!Next

LEMMA SlotPart == ConsumerSpec => [](part = "slots" => SlotInv)
<1>1. ConsumerInit => (part = "slots" => SlotInv)
  BY SlotInitInv DEF ConsumerInit
<1>2. (part = "slots" => SlotInv) /\ [ConsumerNext]_consumerVars
        => (part = "slots" => SlotInv)'
  <2>. SUFFICES ASSUME part = "slots" => SlotInv, [ConsumerNext]_consumerVars, part' = "slots"
                PROVE  SlotInv'
    OBVIOUS
  <2>1. part = "slots" /\ [Slots!Next]_Slots!vars
    BY DEF ConsumerNext, consumerVars, Slots!vars
  <2>. QED BY <2>1, SlotNextInv
<1>. QED BY <1>1, <1>2, PTL DEF ConsumerSpec

\* A topology tiled over any number of slots answers as one call for each of
\* its instants would: a request is accepted exactly when each of those calls
\* would be, every copy of a row is in its slot and between the offsets of its
\* pair, and a row is called valid only if the bucket of its kind published it.
THEOREM TiledReplayExact == ConsumerSpec => []TiledReplayIsExact
<1>1. (part = "slots" => SlotInv) => TiledReplayIsExact
  BY SlotsTypeCorrect, BoundKeeps, BoundSegments, BoundRepeats, BoundAnswers
     DEF TiledReplayIsExact, Slots!OffsetsSegmentTheRows
<1>. QED BY <1>1, SlotPart, PTL
=============================================================================
