---------------------------- MODULE SolversProofs ----------------------------
(***************************************************************************)
(* Proofs about the solvers and their composition, for any configurations, *)
(* scenes, depths, orders and amounts.                                     *)
(*                                                                         *)
(* The argument, for BDPT: the factors of a subpath are those its word     *)
(* owes, except that a scatter vertex also owes the density of the         *)
(* direction in which it was left, which a connection to it does not; and  *)
(* a word tells which route finds it, by the events in it.                 *)
(*                                                                         *)
(* For Basic: each map is, from the step that makes it on, a function of   *)
(* the configuration and the scene, until a failed solve blanks them all;  *)
(* the gains add up to the powers because a sum over cells of sums over    *)
(* components is a sum over components of sums over cells.                 *)
(* Solves of Deterministic are in FieldProofs.                             *)
(***************************************************************************)
EXTENDS FieldProofs

-----------------------------------------------------------------------------
(* Subpaths of BDPT                                                        *)

Steps == [event : {"R", "T", "S"}, on : Surfaces]
Words == Seq(Steps)

\* What a bounce that was followed is paid for.
Paid(s, tables) ==
  CASE s.event = "R" /\ s.on = "rough" /\ tables -> <<"R", "C_r">>
    [] s.event = "S" -> <<"S", "pdf">>
    [] OTHER -> <<s.event>>

Followed(word, tables) == [i \in 1 .. Len(word) |-> Paid(word[i], tables)]

Met(word) == {word[i].event : i \in 1 .. Len(word)}

CallInv ==
  /\ call.depth \in 1 .. MaxBounces /\ call.order \in 1 .. MaxOrder
  /\ call.tables \in BOOLEAN /\ call.mixed \in BOOLEAN

LightInv ==
  /\ light.word \in Words /\ light.valid \in BOOLEAN
  /\ light.depth = Len(light.word)
  /\ light.mask = Met(light.word)
  /\ light.factors = Followed(light.word, call.tables)

WalkInv ==
  /\ walk \in {"off", "on", "over"} /\ hidden \subseteq 1 .. MaxBounces
  /\ bounce \in 0 .. call.depth /\ Len(light.word) <= bounce
  /\ walk = "off" => light.word = <<>> /\ emitted = {}
  /\ walk = "on" => light.valid /\ bounce = Len(light.word)

\* While the subpath goes on it may scatter once more.
ScatterInv ==
  /\ scatters \in 0 .. MaxOrder
  /\ walk = "on" => scatters < call.order /\ Count("S", light.word) = scatters

RowSound(row) ==
  /\ row.word \in Words /\ row.depth = Len(row.word) /\ row.depth <= call.depth
  /\ row.factors = Owed(row.word, call.tables)
  /\ Count("S", row.word) <= call.order
  /\ \/ /\ row.route = "mixed" /\ row.component = "transmission" /\ call.mixed
        /\ {"R", "T"} \subseteq Met(row.word) /\ "S" \notin Met(row.word)
     \/ /\ row.route = "nee" /\ row.component = "scattering" /\ call.tables
        /\ row.word # <<>> /\ Last(row.word).event = "S"

RowsInv == \A row \in emitted : RowSound(row)

Remembered ==
  call.mixed =>
    \A n \in Connectable :
      \E row \in emitted : row.route = "mixed" /\ row.word = SubSeq(light.word, 1, n)

SamplerInv == CallInv /\ LightInv /\ WalkInv /\ ScatterInv /\ RowsInv /\ Remembered

-----------------------------------------------------------------------------
(* Counting events                                                          *)

LEMMA CountIsNat ==
  ASSUME NEW e, NEW w \in Words
  PROVE  /\ IsFiniteSet({i \in 1 .. Len(w) : w[i].event = e})
         /\ Count(e, w) \in Nat
<1>1. IsFiniteSet(1 .. Len(w))
  BY FS_Interval DEF Words
<1>2. IsFiniteSet({i \in 1 .. Len(w) : w[i].event = e})
  BY <1>1, FS_Subset
<1> QED BY <1>2, FS_CardinalityType DEF Count

\* An event is counted when it was met.
LEMMA CountOfMet ==
  ASSUME NEW e, NEW w \in Words
  PROVE  Count(e, w) > 0 <=> e \in Met(w)
<1>1. Count(e, w) = 0 <=> {i \in 1 .. Len(w) : w[i].event = e} = {}
  BY CountIsNat, FS_EmptySet DEF Count
<1>2. e \in Met(w) <=> {i \in 1 .. Len(w) : w[i].event = e} # {}
  BY DEF Met
<1>3. Count(e, w) \in Nat
  BY CountIsNat
<1> QED BY <1>1, <1>2, <1>3

LEMMA CountOfAppend ==
  ASSUME NEW e, NEW w \in Words, NEW s \in Steps
  PROVE  Count(e, Append(w, s)) = IF s.event = e THEN Count(e, w) + 1 ELSE Count(e, w)
<1> DEFINE Old == {i \in 1 .. Len(w) : w[i].event = e}
           New == {i \in 1 .. Len(Append(w, s)) : Append(w, s)[i].event = e}
<1>1. /\ Len(Append(w, s)) = Len(w) + 1 /\ Len(w) \in Nat
      /\ \A i \in 1 .. Len(w) : Append(w, s)[i] = w[i]
      /\ Append(w, s)[Len(w) + 1] = s
  BY DEF Words
<1>2. CASE s.event = e
  <2>1. New = Old \cup {Len(w) + 1}
    BY <1>1, <1>2
  <2>2. Len(w) + 1 \notin Old
    BY <1>1
  <2>3. IsFiniteSet(Old)
    BY CountIsNat
  <2>4. Cardinality(Old \cup {Len(w) + 1}) = Cardinality(Old) + 1
    BY <2>2, <2>3, FS_AddElement
  <2>. QED BY <2>1, <2>4, <1>2 DEF Count
<1>3. CASE s.event # e
  <2>1. New = Old
    BY <1>1, <1>3
  <2>. QED BY <2>1, <1>3 DEF Count
<1> QED BY <1>2, <1>3

LEMMA MetOfAppend ==
  ASSUME NEW w \in Words, NEW s \in Steps
  PROVE  Met(Append(w, s)) = Met(w) \cup {s.event}
<1>1. /\ Len(Append(w, s)) = Len(w) + 1 /\ Len(w) \in Nat
      /\ \A i \in 1 .. Len(w) : Append(w, s)[i] = w[i]
      /\ Append(w, s)[Len(w) + 1] = s
  BY DEF Words
<1>2. ASSUME NEW e
      PROVE  e \in Met(Append(w, s)) <=> e \in Met(w) \/ e = s.event
  <2>1. e \in Met(Append(w, s)) <=> \E i \in 1 .. Len(w) + 1 : e = Append(w, s)[i].event
    BY <1>1 DEF Met
  <2>2. e \in Met(w) <=> \E i \in 1 .. Len(w) : e = w[i].event
    BY DEF Met
  <2>3. ASSUME NEW i \in 1 .. Len(w) + 1
        PROVE  i \in 1 .. Len(w) \/ i = Len(w) + 1
    BY <1>1
  <2>4. Len(w) + 1 \in 1 .. Len(w) + 1 /\ 1 .. Len(w) \subseteq 1 .. Len(w) + 1
    BY <1>1
  <2> HIDE DEF Met
  <2>. QED BY <1>1, <2>1, <2>2, <2>3, <2>4
<1> QED BY <1>2

-----------------------------------------------------------------------------
(* Paying for a word                                                        *)

LEMMA AppendIs ==
  ASSUME NEW S, NEW f \in Seq(S), NEW p
  PROVE  Append(f, p) = [i \in 1 .. Len(f) + 1 |-> IF i = Len(f) + 1 THEN p ELSE f[i]]
<1>1. Append(f, p) \in Seq(S \cup {p}) /\ Len(Append(f, p)) = Len(f) + 1 /\ Len(f) \in Nat
  OBVIOUS
<1>2. \A i \in 1 .. Len(f) + 1 : Append(f, p)[i] = IF i = Len(f) + 1 THEN p ELSE f[i]
  OBVIOUS
<1>3. Append(f, p) \in [1 .. Len(f) + 1 -> S \cup {p}]
  BY <1>1, LenProperties
<1> QED BY <1>1, <1>2, <1>3

LEMMA FollowedIsSeq ==
  ASSUME NEW w \in Words, NEW tables \in BOOLEAN
  PROVE  /\ Followed(w, tables) \in Seq({Paid(x, tables) : x \in Steps})
         /\ Len(Followed(w, tables)) = Len(w)
<1>1. Len(w) \in Nat /\ \A i \in 1 .. Len(w) : w[i] \in Steps
  BY DEF Words
<1>2. \A i \in 1 .. Len(w) : Paid(w[i], tables) \in {Paid(x, tables) : x \in Steps}
  BY <1>1
<1> QED BY <1>1, <1>2 DEF Followed

LEMMA FollowedAppend ==
  ASSUME NEW w \in Words, NEW s \in Steps, NEW tables \in BOOLEAN
  PROVE  Followed(Append(w, s), tables) = Append(Followed(w, tables), Paid(s, tables))
<1>1. /\ Len(Append(w, s)) = Len(w) + 1 /\ Len(w) \in Nat
      /\ \A i \in 1 .. Len(w) : Append(w, s)[i] = w[i]
      /\ Append(w, s)[Len(w) + 1] = s
  BY DEF Words
<1> DEFINE F == Followed(w, tables)  p == Paid(s, tables)
<1>2. F \in Seq({Paid(x, tables) : x \in Steps}) /\ Len(F) = Len(w)
  BY <1>1, FollowedIsSeq
<1>4. Append(F, p) = [i \in 1 .. Len(w) + 1 |-> IF i = Len(w) + 1 THEN p ELSE F[i]]
  BY <1>1, <1>2, AppendIs
<1>5. \A i \in 1 .. Len(w) : F[i] = Paid(w[i], tables)
  BY DEF Followed
<1> HIDE DEF F
<1>6. Followed(Append(w, s), tables) =
        [i \in 1 .. Len(w) + 1 |-> IF i = Len(w) + 1 THEN p ELSE F[i]]
  BY <1>1, <1>5 DEF Followed
<1> QED BY <1>4, <1>6 DEF F

\* A word without a scatter owes what it was paid for.
LEMMA OwedUnscattered ==
  ASSUME NEW w \in Words, NEW tables \in BOOLEAN, "S" \notin Met(w)
  PROVE  Owed(w, tables) = Followed(w, tables)
<1>1. \A i \in 1 .. Len(w) : w[i].event # "S"
  BY DEF Met
<1> QED BY <1>1 DEF Owed, Followed, Paid

\* The scatter vertex a word ends in is paid for its selection alone.
LEMMA OwedAtScatter ==
  ASSUME NEW w \in Words, NEW s \in Steps, NEW tables \in BOOLEAN, s.event = "S"
  PROVE  Owed(Append(w, s), tables) = Append(Followed(w, tables), <<"S">>)
<1>1. /\ Len(Append(w, s)) = Len(w) + 1 /\ Len(w) \in Nat
      /\ \A i \in 1 .. Len(w) : Append(w, s)[i] = w[i]
      /\ Append(w, s)[Len(w) + 1] = s
  BY DEF Words
<1> DEFINE F == Followed(w, tables)
<1>2. F \in Seq({Paid(x, tables) : x \in Steps}) /\ Len(F) = Len(w)
  BY <1>1, FollowedIsSeq
<1>4. Append(F, <<"S">>) =
        [i \in 1 .. Len(w) + 1 |-> IF i = Len(w) + 1 THEN <<"S">> ELSE F[i]]
  BY <1>1, <1>2, AppendIs
<1>5. \A i \in 1 .. Len(w) : F[i] = Paid(w[i], tables)
  BY DEF Followed
<1> HIDE DEF F
<1>6. Owed(Append(w, s), tables) =
        [i \in 1 .. Len(w) + 1 |-> IF i = Len(w) + 1 THEN <<"S">> ELSE F[i]]
  BY <1>1, <1>5 DEF Owed, Paid
<1> QED BY <1>4, <1>6 DEF F

-----------------------------------------------------------------------------
(* The sampler                                                              *)

\* Nothing was met on the way to the first surface.
LEMMA EmptyWord ==
  ASSUME NEW tables \in BOOLEAN
  PROVE  /\ <<>> \in Words /\ Len(<<>>) = 0
         /\ Met(<<>>) = {} /\ Followed(<<>>, tables) = <<>>
<1>1. <<>> \in Words /\ Len(<<>>) = 0
  BY DEF Words
<1>2. Met(<<>>) = {}
  BY <1>1 DEF Met
<1>3. Len(Followed(<<>>, tables)) = 0 /\ Followed(<<>>, tables) \in Seq({Paid(x, tables) : x \in Steps})
  BY <1>1, FollowedIsSeq
<1> QED BY <1>1, <1>2, <1>3, EmptySeq

LEMMA SamplerInitInv ==
  ASSUME BoundsAssumption, SamplerInit
  PROVE  SamplerInv
<1>0. 1 \in 1 .. MaxBounces /\ 1 \in 1 .. MaxOrder
  BY DEF BoundsAssumption
<1>1. call.depth = 1 /\ call.order = 1 /\ call.tables \in BOOLEAN /\ call.mixed \in BOOLEAN
      /\ ~call.tables /\ ~call.mixed
  BY DEF SamplerInit
<1>2. CallInv
  BY <1>0, <1>1 DEF CallInv
<1>3. light.word = <<>> /\ light.valid = TRUE /\ light.mask = {} /\ light.depth = 0
      /\ light.factors = <<>>
  BY DEF SamplerInit, Launched
<1>4. LightInv
  BY <1>1, <1>3, EmptyWord DEF LightInv
<1>5. WalkInv
  BY <1>1, <1>3 DEF WalkInv, SamplerInit
<1>6. ScatterInv
  BY BoundsAssumption DEF ScatterInv, SamplerInit, BoundsAssumption
<1>7. RowsInv /\ Remembered
  BY <1>1 DEF RowsInv, Remembered, SamplerInit
<1> QED BY <1>2, <1>4, <1>5, <1>6, <1>7 DEF SamplerInv

LEMMA LaunchInv ==
  ASSUME BoundsAssumption, NEW request, Launch(request),
         request.depth \in 1 .. MaxBounces, request.order \in 1 .. MaxOrder,
         request.tables \in BOOLEAN, request.mixed \in BOOLEAN
  PROVE  SamplerInv'
<1>1. CallInv'
  BY DEF CallInv, Launch
<1>2. light'.word = <<>> /\ light'.valid = TRUE /\ light'.mask = {} /\ light'.depth = 0
      /\ light'.factors = <<>>
  BY DEF Launch, Launched
<1>3. LightInv'
  BY <1>1, <1>2, EmptyWord DEF LightInv, CallInv
<1>4. WalkInv'
  BY <1>2 DEF WalkInv, Launch, BoundsAssumption
<1>5. Count("S", <<>>) = 0
  <2>1. {i \in 1 .. Len(<<>>) : <<>>[i].event = "S"} = {}
    OBVIOUS
  <2>. QED BY <2>1, FS_EmptySet DEF Count
<1>6. ScatterInv'
  BY <1>2, <1>5 DEF ScatterInv, Launch, BoundsAssumption
<1>7. RowsInv'
  BY DEF RowsInv, Launch
<1>8. Connectable' = {}
  BY <1>2 DEF Connectable
<1>9. Remembered'
  BY <1>8 DEF Remembered
<1> QED BY <1>1, <1>3, <1>4, <1>6, <1>7, <1>9 DEF SamplerInv

\* A bounce that leaves nothing but the walk and its count behind.
LEMMA QuietStep ==
  ASSUME SamplerInv, UNCHANGED <<call, hidden, light, scatters, emitted>>,
         walk' = "over", walk = "on", bounce' \in 0 .. call.depth, bounce <= bounce'
  PROVE  SamplerInv'
<1> USE DEF SamplerInv
<1>1. CallInv' /\ LightInv'
  BY DEF CallInv, LightInv
<1>2. WalkInv'
  <2>1. Len(light.word) \in Nat
    BY DEF LightInv, Words
  <2>. QED BY <2>1 DEF WalkInv, CallInv
<1>3. ScatterInv'
  BY DEF ScatterInv
<1>4. RowsInv'
  BY DEF RowsInv, RowSound
<1>5. Remembered'
  BY DEF Remembered, Connectable
<1> QED BY <1>1, <1>2, <1>3, <1>4, <1>5

LEMMA BounceInv ==
  ASSUME BoundsAssumption, SamplerInv, Bounce
  PROVE  SamplerInv'
<1> USE DEF SamplerInv
<1>0. walk = "on" /\ bounce < call.depth /\ call' = call /\ hidden' = hidden /\ bounce' = bounce + 1
  BY DEF Bounce
<1>1. PICK surface \in Surfaces, ok \in BOOLEAN :
        \E event \in Events(surface, call.tables) :
          LET next == IF event = "S" THEN Scattered(light, surface, ok)
                      ELSE Specular(light, event, surface, call.tables, ok)
              seen == bounce + 1 \notin hidden
              count == IF call.order > 1 /\ event = "S" /\ next.valid THEN scatters + 1 ELSE scatters
          IN /\ light' = next
             /\ scatters' = count
             /\ emitted' = emitted
                  \cup (IF event = "S" THEN ScatterRows(light, next, seen) ELSE {})
                  \cup MixedRows(next, event, seen)
             /\ walk' = IF Continues(next, event, count) THEN "on" ELSE "over"
  BY DEF Bounce
<1> DEFINE seen == bounce + 1 \notin hidden
<1>2. PICK event \in Events(surface, call.tables) :
        /\ light' = IF event = "S" THEN Scattered(light, surface, ok)
                    ELSE Specular(light, event, surface, call.tables, ok)
        /\ scatters' = IF call.order > 1 /\ event = "S" /\ light'.valid THEN scatters + 1 ELSE scatters
        /\ emitted' = emitted
             \cup (IF event = "S" THEN ScatterRows(light, light', seen) ELSE {})
             \cup MixedRows(light', event, seen)
        /\ walk' = IF Continues(light', event, scatters') THEN "on" ELSE "over"
  BY <1>1
<1> DEFINE s == [event |-> event, on |-> surface]
<1>3. event \in {"R", "T", "S"} /\ (event = "S" => call.tables)
  BY DEF Events, Surfaces, CallInv
<1>4. s \in Steps /\ s.event = event
  BY <1>3 DEF Steps
<1>5. /\ light'.word = Append(light.word, s) /\ light'.depth = light.depth + 1
      /\ light'.valid = (light.valid /\ ok)
      /\ light'.mask = light.mask \cup {event}
      /\ light'.factors = Append(light.factors, Paid(s, call.tables))
  BY <1>2, <1>3 DEF Specular, Scattered, Paid
<1>6. /\ light'.word \in Words /\ Len(light'.word) = Len(light.word) + 1
      /\ Len(light.word) \in Nat /\ light.word \in Words
  BY <1>4, <1>5 DEF LightInv, Words
<1> HIDE DEF s
<1>7. CallInv'
  BY <1>0 DEF CallInv
<1>8. LightInv'
  BY <1>0, <1>4, <1>5, <1>6, MetOfAppend, FollowedAppend DEF LightInv, CallInv
<1>9. WalkInv'
  BY <1>0, <1>2, <1>5, <1>6 DEF WalkInv, CallInv, LightInv, Continues
<1>10. ScatterInv'
  <2>1. Count("S", light'.word) = IF event = "S" THEN Count("S", light.word) + 1 ELSE Count("S", light.word)
    BY <1>4, <1>5, <1>6, CountOfAppend
  <2>2. scatters \in Nat /\ scatters < call.order /\ Count("S", light.word) = scatters
        /\ call.order \in 1 .. MaxOrder /\ MaxOrder \in Nat
    BY <1>0 DEF ScatterInv, CallInv, BoundsAssumption
  <2>. QED BY <1>0, <1>2, <2>1, <2>2 DEF ScatterInv, Continues
<1>11. RowsInv'
  <2>1. ASSUME NEW row \in emitted
        PROVE  RowSound(row)'
    BY <1>0 DEF RowsInv, RowSound
  <2>2. ASSUME event = "S", NEW row \in ScatterRows(light, light', seen)
        PROVE  RowSound(row)'
    <3>1. /\ row.route = "nee" /\ row.word = light'.word /\ row.component = "scattering"
          /\ row.depth = light'.depth /\ row.factors = Append(light.factors, <<"S">>)
      BY <2>2 DEF ScatterRows
    <3>2. row.factors = Owed(row.word, call.tables)
      BY <3>1, <1>4, <1>5, <1>6, <2>2, OwedAtScatter DEF LightInv, CallInv
    <3>3. Count("S", row.word) <= call.order
      <4>1. Count("S", row.word) = Count("S", light.word) + 1
        BY <3>1, <1>4, <1>5, <1>6, <2>2, CountOfAppend
      <4>. QED BY <4>1, <1>0 DEF ScatterInv, CallInv
    <3>4. row.depth = Len(row.word) /\ row.depth <= call.depth
      BY <3>1, <1>0, <1>5, <1>6 DEF LightInv, WalkInv, CallInv
    <3>5. row.word # <<>> /\ Last(row.word).event = "S"
      <4>1. Len(row.word) = Len(light.word) + 1 /\ row.word[Len(light.word) + 1] = s
        BY <3>1, <1>5, <1>6 DEF Words
      <4>. QED BY <4>1, <1>4, <1>6, <2>2 DEF Last
    <3>. QED BY <3>1, <3>2, <3>3, <3>4, <3>5, <1>0, <1>3, <1>6, <2>2 DEF RowSound
  <2>3. ASSUME NEW row \in MixedRows(light', event, seen)
        PROVE  RowSound(row)'
    <3>1. /\ row.route = "mixed" /\ row.word = light'.word /\ row.component = "transmission"
          /\ row.depth = light'.depth /\ row.factors = light'.factors
          /\ call.mixed /\ Mixed(light', event)
      BY <2>3 DEF MixedRows
    <3>2. {"R", "T"} \subseteq Met(row.word) /\ "S" \notin Met(row.word)
      BY <3>1, <1>8 DEF Mixed, LightInv
    <3>3. row.factors = Owed(row.word, call.tables)
      BY <3>1, <3>2, <1>0, <1>6, <1>8, OwedUnscattered DEF LightInv, CallInv
    <3>4. row.depth = Len(row.word) /\ row.depth <= call.depth
      BY <3>1, <1>0, <1>5, <1>6 DEF LightInv, WalkInv, CallInv
    <3>5. Count("S", row.word) <= call.order
      <4>1. row.word \in Words
        BY <3>1, <1>6
      <4>2. Count("S", row.word) \in Nat /\ (Count("S", row.word) > 0 <=> "S" \in Met(row.word))
        BY <4>1, CountOfMet, CountIsNat
      <4>3. Count("S", row.word) = 0
        BY <4>2, <3>2
      <4>. QED BY <4>3 DEF CallInv
    <3>. QED BY <3>1, <3>2, <3>3, <3>4, <3>5, <1>0, <1>6 DEF RowSound
  <2>. QED BY <1>2, <2>1, <2>2, <2>3 DEF RowsInv
<1>12. Remembered'
  <2> SUFFICES ASSUME call.mixed, NEW n \in Connectable'
               PROVE  \E row \in emitted' : row.route = "mixed" /\ row.word = SubSeq(light'.word, 1, n)
    BY <1>0 DEF Remembered
  <2> DEFINE prefix == SubSeq(light'.word, 1, n)
  <2>1. /\ n \in 1 .. Len(light'.word) /\ (n < Len(light'.word) \/ light'.valid) /\ n \notin hidden
        /\ Count("R", prefix) > 0 /\ Count("T", prefix) > 0 /\ Count("S", prefix) = 0
    BY <1>0 DEF Connectable
  <2>2. CASE n \in 1 .. Len(light.word)
    <3>1. prefix = SubSeq(light.word, 1, n)
      BY <2>2, <1>5, <1>6 DEF Words
    <3>2. n \in Connectable
      BY <2>1, <2>2, <3>1, <1>0 DEF Connectable, WalkInv
    <3>. QED BY <3>1, <3>2, <1>2 DEF Remembered
  <2>3. CASE n = Len(light.word) + 1
    <3>1. prefix = light'.word
      BY <2>3, <1>6 DEF Words
    <3>2. {"R", "T"} \subseteq Met(light'.word) /\ "S" \notin Met(light'.word)
      <4>1. \A e : Count(e, light'.word) \in Nat /\ (Count(e, light'.word) > 0 <=> e \in Met(light'.word))
        BY <1>6, CountOfMet, CountIsNat
      <4>2. Count("R", light'.word) > 0 /\ Count("T", light'.word) > 0 /\ Count("S", light'.word) = 0
        BY <2>1, <3>1
      <4>. QED BY <4>1, <4>2
    <3>3. light'.valid /\ bounce + 1 \notin hidden
      BY <2>1, <2>3, <1>0, <1>6 DEF WalkInv
    <3>4. Mixed(light', event)
      BY <3>2, <3>3, <1>5, <1>8 DEF Mixed, LightInv
    <3> DEFINE row == [route |-> "mixed", word |-> light'.word, component |-> "transmission",
                       depth |-> light'.depth, factors |-> light'.factors]
    <3>5. row \in MixedRows(light', event, seen)
      BY <3>3, <3>4 DEF MixedRows
    <3>6. row \in emitted'
      BY <3>5, <1>2
    <3>. QED BY <3>1, <3>6
  <2>. QED BY <2>1, <2>2, <2>3, <1>6
<1> QED BY <1>7, <1>8, <1>9, <1>10, <1>11, <1>12

LEMMA SamplerStepInv ==
  ASSUME BoundsAssumption, SamplerInv, SamplerStep
  PROVE  SamplerInv'
<1>1. CASE Bounce
  BY <1>1, BounceInv
<1>2. CASE Miss
  <2>1. bounce \in Nat /\ call.depth \in Nat
    BY DEF SamplerInv, WalkInv, CallInv
  <2>. QED BY <1>2, <2>1, QuietStep DEF Miss
<1>3. CASE DepthReached
  <2>1. bounce \in 0 .. call.depth
    BY DEF SamplerInv, WalkInv
  <2>. QED BY <1>3, <2>1, QuietStep DEF DepthReached
<1> QED BY <1>1, <1>2, <1>3 DEF SamplerStep

LEMMA SamplerStutter ==
  ASSUME SamplerInv, UNCHANGED samplerVars
  PROVE  SamplerInv'
BY DEF samplerVars, SamplerInv, CallInv, LightInv, WalkInv, ScatterInv, RowsInv, RowSound,
       Remembered, Connectable

\* What the sampler promises, of any subpath it has walked.
LEMMA SamplerPromises ==
  ASSUME SamplerInv
  PROVE  SubpathsArePaidOnce /\ RowsAreTheSamplersOwn /\ SubpathTypes
<1> USE DEF SamplerInv
<1>1. SubpathsArePaidOnce
  BY DEF RowsInv, RowSound, Remembered, SubpathsArePaidOnce, WeightsMatchChances,
         ScatterOrderHolds, NoBounceIsForgotten
<1>2. RowsAreTheSamplersOwn
  <2>1. ASSUME NEW row \in emitted, row.route = "mixed", row.word \in Words,
               {"R", "T"} \subseteq Met(row.word), "S" \notin Met(row.word)
        PROVE  Count("R", row.word) > 0 /\ Count("T", row.word) > 0 /\ Count("S", row.word) = 0
    <3>1. \A e : Count(e, row.word) \in Nat /\ (Count(e, row.word) > 0 <=> e \in Met(row.word))
      BY <2>1, CountOfMet, CountIsNat
    <3>. QED BY <3>1, <2>1
  <2>. QED BY <2>1 DEF RowsInv, RowSound, RowsAreTheSamplersOwn
<1>3. SubpathTypes
  BY DEF RowsInv, RowSound, CallInv, WalkInv, ScatterInv, LightInv, SubpathTypes
<1> QED BY <1>1, <1>2, <1>3

\* Whatever a subpath meets, its rows are paid for by what was drawn on their
\* way, at any scattering order and depth.
THEOREM SamplerPays ==
  ASSUME BoundsAssumption
  PROVE  SamplerSpec => []SubpathsArePaidOnce
<1>1. SamplerInit => SamplerInv
  BY BoundsAssumption, SamplerInitInv
<1>2. SamplerInv /\ [SamplerNext]_samplerVars => SamplerInv'
  <2>1. ASSUME NEW request \in Calls, Launch(request)
        PROVE  SamplerInv'
    BY BoundsAssumption, <2>1, LaunchInv DEF Calls
  <2>. QED BY BoundsAssumption, <2>1, SamplerStepInv, SamplerStutter DEF SamplerNext
<1>3. SamplerInv => SubpathsArePaidOnce
  BY SamplerPromises
<1> QED BY <1>1, <1>2, <1>3, PTL DEF SamplerSpec
-----------------------------------------------------------------------------
(* The paths of a solve                                                     *)

Letters(word) == {word[i] : i \in 1 .. Len(word)}

\* The events of a path tell which route finds it, the direct path apart: it
\* has two routes, of which a solve takes one.
RouteSound(row) ==
  \/ row.route \in {"los", "endpoint"} /\ row.word = <<>>
  \/ row.route = "reflection" /\ Letters(row.word) = {"R"}
  \/ row.route = "diffraction" /\ Letters(row.word) = {"D"} /\ Len(row.word) = 1
  \/ row.route = "transmission" /\ Letters(row.word) = {"T"}
  \/ /\ row.route = "coupled" /\ Len(row.word) = 2
     /\ "D" \in Letters(row.word) /\ Letters(row.word) \subseteq {"R", "D"}
  \/ row.route = "mixed" /\ {"R", "T"} \subseteq Letters(row.word) /\ "S" \notin Letters(row.word)
  \/ row.route = "nee" /\ "S" \in Letters(row.word)

SolveRow(row) == row.component \in Components /\ row.depth = Len(row.word) /\ RouteSound(row)

Requested(row) == row.component \in config.components /\ (~config.coherent => row.live = config.ad)

Early == {"new", "configured", "valid", "endpoints", "coherent", "los"}

\* Where the solve is, and what the stages behind it have established.
SettingInv ==
  /\ stage \in Stages /\ world \in Worlds
  /\ stage = "new" => config = Blank
  /\ stage # "new" => config \in Configs
  /\ stage \notin {"new", "refused"} => Accepted(config)
  /\ stage \notin {"new", "configured", "refused"} =>
       ~(config.ad /\ ReachesSampler(config, world) /\ world.liveVertices)
  /\ stage = "coherent" => config.coherent

WalkOfSolve ==
  /\ walk # "off" => stage \in {"walking", "accumulate", "done"} /\ ReachesSampler(config, world)
  /\ stage = "walking" => call = SamplerCall

RowsOfSolve ==
  /\ \A row \in samples : SolveRow(row)
  /\ stage \notin {"new", "refused"} => \A row \in samples : Requested(row)
  /\ stage \in Early => samples = {}
  /\ \/ \A row \in samples : row.route # "endpoint"
     \/ stage \in {"accumulate", "done"} /\ \A row \in samples : row.route = "endpoint"

Has(word) == \E row \in samples : row.word = word

LosCounted == "los" \in config.components /\ world.walls = 0 => Has(<<>>)
ReflectionCounted ==
  world.structures /\ NativeDepth(config) >= 1 /\ "reflection" \in config.components => Has(<<"R">>)
DiffractionCounted ==
  world.structures /\ NativeDepth(config) >= 1 /\ "diffraction" \in config.components => Has(<<"D">>)
CoupledCounted ==
  config.coupled /\ world.structures => \A word \in CoupledWords : Has(word)
TransmissionCounted ==
  world.structures /\ NativeDepth(config) >= 1 /\ "transmission" \in config.components
  /\ world.walls \in 1 .. config.depth => Has([i \in 1 .. world.walls |-> "T"])

Ends == {"accumulate", "done"}
AfterTransmission == {"sampler", "walking"} \cup Ends
AfterCoupled == {"transmission"} \cup AfterTransmission
AfterDiffraction == {"coupled"} \cup AfterCoupled
AfterReflection == {"diffraction"} \cup AfterDiffraction
AfterLos == {"reflection"} \cup AfterReflection

Progress ==
  /\ stage \in AfterLos => LosCounted
  /\ stage \in AfterReflection => ReflectionCounted
  /\ stage \in AfterDiffraction => DiffractionCounted
  /\ stage \in AfterCoupled => CoupledCounted
  /\ stage \in AfterTransmission => TransmissionCounted

PowerOfSolve ==
  stage = "done" =>
    power = [k \in {"los", "reflection", "diffraction"} \cup config.components |->
               {row \in samples : row.component = k}]

Inv == SamplerInv /\ SettingInv /\ WalkOfSolve /\ RowsOfSolve /\ Progress /\ PowerOfSolve

LEMMA ConfigTypes ==
  ASSUME ConfigAssumption, NEW c \in Configs
  PROVE  /\ c.components \subseteq Components
         /\ c.depth \in Nat /\ c.lightDepth \in 0 .. MaxBounces
         /\ c.coupled \in BOOLEAN /\ c.coherent \in BOOLEAN /\ c.ad \in BOOLEAN
BY DEF Configs, ConfigAssumption

LEMMA WorldTypes ==
  ASSUME ConfigAssumption, NEW w \in Worlds
  PROVE  /\ w.structures \in BOOLEAN /\ w.walls \in Nat /\ w.rough \in BOOLEAN
         /\ w.liveVertices \in BOOLEAN
         /\ w.walls # 0 => w.structures
BY DEF ConfigAssumption

LEMMA ChainLetters ==
  ASSUME NEW e, NEW depth \in Nat, NEW word \in Chains(e, depth)
  PROVE  Letters(word) = {e}
<1>1. PICK n \in 1 .. depth : word \in [1 .. n -> {e}]
  BY DEF Chains
<1>2. Len(word) = n /\ n >= 1 /\ \A i \in 1 .. n : word[i] = e
  BY <1>1
<1>3. 1 \in 1 .. Len(word)
  BY <1>2
<1> QED BY <1>2, <1>3 DEF Letters

\* The words an enumeration of each class finds.
LEMMA EnumeratedSound ==
  ASSUME NEW depth \in Nat, NEW class, NEW word \in Enumerated(class, depth)
  PROVE  /\ class = "los" => word = <<>>
         /\ class = "reflection" => Letters(word) = {"R"}
         /\ class = "diffraction" => Letters(word) = {"D"} /\ Len(word) = 1
         /\ class = "transmission" => Letters(word) = {"T"}
         /\ class = "coupled" => /\ Len(word) = 2 /\ "D" \in Letters(word)
                                 /\ Letters(word) \subseteq {"R", "D"}
<1>1. CASE class = "los"
  BY <1>1 DEF Enumerated
<1>2. CASE class = "reflection"
  <2>1. word \in Chains("R", depth)
    BY <1>2 DEF Enumerated
  <2>. QED BY <1>2, <2>1, ChainLetters
<1>3. CASE class = "diffraction"
  <2>1. word = <<"D">>
    BY <1>3 DEF Enumerated
  <2>. QED BY <1>3, <2>1 DEF Letters
<1>4. CASE class = "transmission"
  <2>1. world.walls \in 1 .. depth /\ word = [i \in 1 .. world.walls |-> "T"]
    BY <1>4 DEF Enumerated
  <2>2. word \in Chains("T", depth)
    BY <2>1 DEF Chains
  <2>. QED BY <1>4, <2>2, ChainLetters
<1>5. CASE class = "coupled"
  <2>1. word \in CoupledWords
    BY <1>5 DEF Enumerated
  <2>2. /\ Letters(<<"R", "D">>) = {"R", "D"} /\ Letters(<<"D", "R">>) = {"R", "D"}
        /\ Letters(<<"D", "D">>) = {"D"}
    BY DEF Letters
  <2>. QED BY <1>5, <2>1, <2>2 DEF CoupledWords
<1> QED BY <1>1, <1>2, <1>3, <1>4, <1>5

LEMMA DiscreteSound ==
  ASSUME config.depth \in Nat, NEW component \in Components, NEW live,
         NEW class \in {"los", "reflection", "diffraction", "transmission", "coupled"},
         NEW row \in Discrete(class, component, live)
  PROVE  /\ SolveRow(row) /\ row.route # "endpoint"
         /\ row.component = component /\ row.live = live
<1>1. PICK word \in Enumerated(class, config.depth) :
        row = [route |-> class, word |-> word, component |-> component, depth |-> Len(word), live |-> live]
  BY DEF Discrete
<1>2. /\ row.route = class /\ row.word = word /\ row.component = component
      /\ row.depth = Len(word) /\ row.live = live
  BY <1>1
<1>3. RouteSound(row)
  BY <1>2, EnumeratedSound DEF RouteSound
<1> QED BY <1>2, <1>3 DEF SolveRow

\* A row of every word the enumeration finds.
LEMMA DiscreteComplete ==
  ASSUME NEW class, NEW component, NEW live, NEW word \in Enumerated(class, config.depth)
  PROVE  \E row \in Discrete(class, component, live) : row.word = word
<1> DEFINE row == [route |-> class, word |-> word, component |-> component, depth |-> Len(word), live |-> live]
<1>1. row \in Discrete(class, component, live)
  BY DEF Discrete
<1>2. row.word = word
  OBVIOUS
<1> QED BY <1>1, <1>2

\* A sampled row keeps its events, and they place it.
LEMMA SampledSound ==
  ASSUME NEW row \in emitted, RowsInv
  PROVE  /\ Len(EventsOf(row.word)) = Len(row.word) /\ row.depth = Len(row.word)
         /\ \/ /\ row.route = "mixed" /\ row.component = "transmission" /\ call.mixed
               /\ {"R", "T"} \subseteq Letters(EventsOf(row.word))
               /\ "S" \notin Letters(EventsOf(row.word))
            \/ /\ row.route = "nee" /\ row.component = "scattering" /\ call.tables
               /\ "S" \in Letters(EventsOf(row.word))
<1> DEFINE w == row.word  v == EventsOf(row.word)
<1>1. RowSound(row)
  BY DEF RowsInv
<1>2. Len(w) \in Nat /\ \A i \in 1 .. Len(w) : w[i].event \in {"R", "T", "S"}
  <2>1. w \in Seq(Steps)
    BY <1>1 DEF RowSound, Words
  <2>2. Len(w) \in Nat /\ \A i \in 1 .. Len(w) : w[i] \in Steps
    BY <2>1
  <2>. QED BY <2>2 DEF Steps
<1>3. v \in [1 .. Len(w) -> {"R", "T", "S"}] /\ \A i \in 1 .. Len(w) : v[i] = w[i].event
  BY <1>2 DEF EventsOf
<1>4. Len(v) = Len(w)
  BY <1>2, <1>3
<1>5. Letters(v) = Met(w)
  BY <1>3, <1>4 DEF Letters, Met
<1>6. w # <<>> /\ w \in Words => Last(w).event \in Met(w)
  <2>1. w # <<>> /\ w \in Words => Len(w) \in 1 .. Len(w)
    BY DEF Words
  <2>. QED BY <2>1 DEF Met, Last
<1> HIDE DEF w, v
<1>7. row.depth = Len(w)
  BY <1>1 DEF RowSound, w
<1>8. \/ /\ row.route = "mixed" /\ row.component = "transmission" /\ call.mixed
         /\ {"R", "T"} \subseteq Met(w) /\ "S" \notin Met(w)
      \/ /\ row.route = "nee" /\ row.component = "scattering" /\ call.tables
         /\ w # <<>> /\ w \in Words /\ Last(w).event = "S"
  BY <1>1 DEF RowSound, w
<1>9. \/ /\ row.route = "mixed" /\ row.component = "transmission" /\ call.mixed
         /\ {"R", "T"} \subseteq Letters(v) /\ "S" \notin Letters(v)
      \/ row.route = "nee" /\ row.component = "scattering" /\ call.tables /\ "S" \in Letters(v)
  BY <1>5, <1>6, <1>8
<1> QED BY <1>4, <1>7, <1>9 DEF w, v

-----------------------------------------------------------------------------
(* The stages of a solve                                                    *)

LEMMA CountedStays ==
  ASSUME UNCHANGED <<config, world>>, samples \subseteq samples'
  PROVE  /\ LosCounted => LosCounted'
         /\ ReflectionCounted => ReflectionCounted'
         /\ DiffractionCounted => DiffractionCounted'
         /\ CoupledCounted => CoupledCounted'
         /\ TransmissionCounted => TransmissionCounted'
<1>1. \A word : Has(word) => Has(word)'
  BY DEF Has
<1> QED BY <1>1 DEF LosCounted, ReflectionCounted, DiffractionCounted, CoupledCounted,
                    TransmissionCounted

\* Where the collection of rows leads, the sampler apart.
Onward == {"coherent", "los", "reflection", "diffraction", "coupled", "transmission", "sampler",
           "accumulate", "refused"}

\* Where the walk is off and a stage of collecting adds its rows.
LEMMA Collected ==
  ASSUME ConfigAssumption, Inv, NEW New,
         UNCHANGED <<config, world, power, samplerVars>>, samples' = samples \cup New,
         stage \notin {"new", "configured", "refused", "accumulate", "done"},
         stage' \in Onward,
         stage' = "coherent" => config.coherent,
         walk # "off" => stage' = "accumulate",
         stage' \in Early => stage \in Early /\ New = {},
         \A row \in New : SolveRow(row) /\ Requested(row) /\ row.route # "endpoint"
  PROVE  SamplerInv' /\ SettingInv' /\ WalkOfSolve' /\ RowsOfSolve' /\ PowerOfSolve'
<1> USE DEF Inv
<1>1. SamplerInv'
  BY SamplerStutter DEF samplerVars
<1>2. SettingInv'
  BY DEF SettingInv, Early, Onward, Stages
<1>3. WalkOfSolve'
  BY DEF WalkOfSolve, samplerVars, Onward
<1>4. RowsOfSolve'
  <2>1. \A row \in samples' : SolveRow(row)
    BY DEF RowsOfSolve
  <2>2. \A row \in samples' : Requested(row)'
    BY DEF RowsOfSolve, Requested
  <2>3. stage' \in Early => samples' = {}
    BY DEF RowsOfSolve
  <2>4. \A row \in samples' : row.route # "endpoint"
    BY DEF RowsOfSolve
  <2>5. \A row : SolveRow(row)' <=> SolveRow(row)
    BY DEF SolveRow, RouteSound, Letters
  <2> HIDE DEF Inv
  <2>. QED BY <2>1, <2>2, <2>3, <2>4, <2>5 DEF RowsOfSolve
<1>5. PowerOfSolve'
  BY DEF PowerOfSolve, Onward
<1> QED BY <1>1, <1>2, <1>3, <1>4, <1>5

LEMMA InitInv ==
  ASSUME BoundsAssumption, ConfigAssumption, Init
  PROVE  Inv
<1>1. SamplerInv
  BY SamplerInitInv DEF Init
<1>2. SettingInv /\ WalkOfSolve
  BY DEF Init, SamplerInit, SettingInv, WalkOfSolve, Stages
<1>3. RowsOfSolve /\ Progress /\ PowerOfSolve
  BY DEF Init, RowsOfSolve, Progress, PowerOfSolve, AfterLos, AfterReflection, AfterDiffraction,
         AfterCoupled, AfterTransmission, Ends
<1> QED BY <1>1, <1>2, <1>3 DEF Inv

\* Before a row is collected, a stage behind which nothing is promised moves on.
LEMMA EarlyStep ==
  ASSUME BoundsAssumption, ConfigAssumption, Inv, Configure \/ Validate \/ Prepare
  PROVE  Inv'
<1> USE DEF Inv
<1>1. UNCHANGED <<world, samples, power, samplerVars>> /\ samples = {} /\ walk = "off"
  BY DEF Configure, Validate, Prepare, Keep, RowsOfSolve, WalkOfSolve, Early
<1>2. SamplerInv'
  BY <1>1, SamplerStutter
<1>3. SettingInv'
  <2>1. CASE Configure
    BY <2>1, <1>1 DEF Configure, Goes, SettingInv, Stages
  <2>2. CASE Validate
    BY <2>2, <1>1 DEF Validate, Goes, Keep, SettingInv, Stages
  <2>3. CASE Prepare
    BY <2>3, <1>1 DEF Prepare, Goes, Keep, SettingInv, Stages
  <2>. QED BY <2>1, <2>2, <2>3
<1>4. stage' \in {"configured", "refused", "valid", "endpoints"}
  BY DEF Configure, Validate, Prepare, Goes
<1>5. WalkOfSolve' /\ RowsOfSolve'
  BY <1>1, <1>4 DEF WalkOfSolve, RowsOfSolve, samplerVars
<1>6. Progress' /\ PowerOfSolve'
  BY <1>4 DEF Progress, PowerOfSolve, AfterLos, AfterReflection, AfterDiffraction, AfterCoupled,
              AfterTransmission, Ends
<1> QED BY <1>2, <1>3, <1>5, <1>6

\* The direct path is found when no wall is in the way.
LEMMA DirectSound ==
  ASSUME NEW route \in {"los", "endpoint"}, NEW row \in DirectRows(route)
  PROVE  /\ SolveRow(row) /\ row.route = route
         /\ row.component = "los" /\ row.live = config.ad
<1>1. PICK word \in Enumerated("los", 0) :
        row = [route |-> route, word |-> word, component |-> "los", depth |-> 0, live |-> config.ad]
  BY DEF DirectRows
<1>2. word = <<>>
  BY DEF Enumerated
<1>3. /\ row.route = route /\ row.word = <<>> /\ row.component = "los" /\ row.depth = 0
      /\ row.live = config.ad /\ Len(<<>>) = 0
  BY <1>1, <1>2
<1> QED BY <1>3 DEF SolveRow, RouteSound, Components

LEMMA DirectComplete ==
  ASSUME NEW route, world.walls = 0
  PROVE  \E row \in DirectRows(route) : row.word = <<>>
<1> DEFINE row == [route |-> route, word |-> <<>>, component |-> "los", depth |-> 0, live |-> config.ad]
<1>1. row \in DirectRows(route)
  BY DEF DirectRows, Enumerated
<1> QED BY <1>1

LEMMA BuildEndpointsInv ==
  ASSUME BoundsAssumption, ConfigAssumption, Inv, BuildEndpoints
  PROVE  Inv'
<1> USE DEF Inv
<1>0. /\ stage = "endpoints" /\ UNCHANGED <<config, world, power, samplerVars>>
      /\ samples = {} /\ walk = "off"
  BY DEF BuildEndpoints, Keep, RowsOfSolve, WalkOfSolve, Early
<1>1. CASE config.coherent \/ ~(~world.structures /\ config.components = {"los"})
  <2>1. samples' = samples \cup {} /\ stage' \in {"coherent", "los"}
        /\ (stage' = "coherent" => config.coherent)
    BY <1>0, <1>1 DEF BuildEndpoints, Goes
  <2>2. SamplerInv' /\ SettingInv' /\ WalkOfSolve' /\ RowsOfSolve' /\ PowerOfSolve'
    <3> HIDE DEF Inv
    <3>. QED BY <1>0, <2>1, Collected DEF Onward, Early
  <2>3. Progress'
    BY <2>1 DEF Progress, AfterLos, AfterReflection, AfterDiffraction, AfterCoupled,
                AfterTransmission, Ends
  <2>. QED BY <2>2, <2>3
<1>2. CASE ~config.coherent /\ ~world.structures /\ config.components = {"los"}
  <2>1. samples' = DirectRows("endpoint") /\ stage' = "accumulate"
    BY <1>0, <1>2 DEF BuildEndpoints, Goes
  <2>2. SamplerInv'
    BY <1>0, SamplerStutter
  <2>3. SettingInv' /\ WalkOfSolve' /\ PowerOfSolve'
    BY <1>0, <2>1 DEF SettingInv, WalkOfSolve, PowerOfSolve, Stages, samplerVars
  <2>4. RowsOfSolve'
    <3>1. \A row \in samples' : SolveRow(row) /\ row.route = "endpoint" /\ Requested(row)'
      BY <1>0, <1>2, <2>1, DirectSound DEF Requested
    <3>2. \A row : SolveRow(row)' <=> SolveRow(row)
      BY DEF SolveRow, RouteSound, Letters
    <3>. QED BY <2>1, <3>1, <3>2 DEF RowsOfSolve, Early
  <2>5. LosCounted'
    BY <1>0, <2>1, DirectComplete DEF LosCounted, Has
  <2>6. ReflectionCounted' /\ DiffractionCounted' /\ CoupledCounted' /\ TransmissionCounted'
    BY <1>0, <1>2 DEF ReflectionCounted, DiffractionCounted, CoupledCounted, TransmissionCounted
  <2>7. Progress'
    BY <2>5, <2>6 DEF Progress
  <2>. QED BY <2>2, <2>3, <2>4, <2>7
<1> QED BY <1>1, <1>2

LEMMA SettingTypes ==
  ASSUME ConfigAssumption, SettingInv, stage # "new"
  PROVE  /\ config.components \subseteq Components /\ config.depth \in Nat
         /\ config.lightDepth \in 0 .. MaxBounces /\ config.coupled \in BOOLEAN
         /\ config.coherent \in BOOLEAN /\ config.ad \in BOOLEAN
         /\ world.structures \in BOOLEAN /\ world.walls \in Nat /\ world.rough \in BOOLEAN
BY ConfigTypes, WorldTypes DEF SettingInv

\* The first paths of each class are among those its enumeration finds.
LEMMA FirstWords ==
  ASSUME ConfigAssumption, SettingInv, stage # "new", world.structures
  PROVE  /\ NativeDepth(config) >= 1 => /\ <<"R">> \in Enumerated("reflection", config.depth)
                                        /\ <<"D">> \in Enumerated("diffraction", config.depth)
         /\ world.walls \in 1 .. config.depth =>
              [i \in 1 .. world.walls |-> "T"] \in Enumerated("transmission", config.depth)
         /\ config.depth >= 2 => CoupledWords = Enumerated("coupled", config.depth)
<1>1. config.depth \in Nat /\ config.lightDepth \in Nat
  BY SettingTypes
<1>2. ASSUME NativeDepth(config) >= 1
      PROVE  /\ <<"R">> \in Enumerated("reflection", config.depth)
             /\ <<"D">> \in Enumerated("diffraction", config.depth)
  <2>1. config.depth >= 1
    BY <1>1, <1>2 DEF NativeDepth
  <2>2. 1 \in 1 .. config.depth /\ <<"R">> \in [1 .. 1 -> {"R"}]
    BY <1>1, <2>1
  <2>3. <<"R">> \in Chains("R", config.depth)
    BY <2>2 DEF Chains
  <2>. QED BY <2>1, <2>3 DEF Enumerated
<1> QED BY <1>2 DEF Enumerated

\* A block of one class: its rows are of that class, and its first path is one.
LEMMA CollectInv ==
  ASSUME ConfigAssumption, Inv, NEW class, NEW next, Collect(class, next),
         <<class, next>> \in {<<"reflection", "diffraction">>, <<"diffraction", "coupled">>,
                              <<"transmission", "sampler">>}
  PROVE  Inv'
<1>0. /\ stage = class /\ UNCHANGED <<config, world, power, samplerVars>>
      /\ class \in {"reflection", "diffraction", "transmission"}
      /\ next \in {"diffraction", "coupled", "sampler"}
  BY DEF Collect, Keep
<1>1. SettingInv /\ WalkOfSolve /\ Progress /\ stage # "new"
  BY <1>0 DEF Inv
<1>2. walk = "off"
  BY <1>0, <1>1 DEF WalkOfSolve
<1> DEFINE New == IF samples' = samples THEN {} ELSE Discrete(class, class, config.ad)
<1>3. /\ samples' = samples \cup New
      /\ \A row \in New : SolveRow(row) /\ Requested(row) /\ row.route # "endpoint"
  <2>1. CASE samples' = samples
    BY <2>1
  <2>2. CASE samples' # samples
    <3>1. Wanted(class) /\ samples' = samples \cup Discrete(class, class, config.ad)
      BY <2>2 DEF Collect
    <3>2. class \in Components /\ class \in config.components
      BY <3>1, <1>0 DEF Wanted, Components
    <3>3. \A row \in Discrete(class, class, config.ad) :
            SolveRow(row) /\ Requested(row) /\ row.route # "endpoint"
      BY <1>0, <1>1, <3>2, SettingTypes, DiscreteSound DEF Requested
    <3>. QED BY <2>2, <3>1, <3>3
  <2>. QED BY <2>1, <2>2
<1> HIDE DEF New
<1>4. stage' \in {next, "refused"}
  BY DEF Collect, Goes
<1>5. SamplerInv' /\ SettingInv' /\ WalkOfSolve' /\ RowsOfSolve' /\ PowerOfSolve'
  BY <1>0, <1>2, <1>3, <1>4, Collected DEF Onward, Early
<1>6. Progress'
  <2>1. CASE stage' = "refused"
    BY <2>1 DEF Progress, AfterLos, AfterReflection, AfterDiffraction, AfterCoupled,
                AfterTransmission, Ends
  <2>2. CASE stage' = next /\ stage' # "refused"
    <3>1. samples \subseteq samples'
      BY <1>3
    <3>2. Wanted(class) => samples' = samples \cup Discrete(class, class, config.ad)
      BY <1>0, <2>2 DEF Collect, Goes
    <3>3. ASSUME NEW word \in Enumerated(class, config.depth), Wanted(class)
          PROVE  Has(word)'
      BY <3>2, <3>3, DiscreteComplete DEF Has
    <3>4. class = "reflection" => ReflectionCounted'
      BY <1>0, <1>1, <3>3, FirstWords DEF ReflectionCounted, Wanted
    <3>5. class = "diffraction" => DiffractionCounted'
      BY <1>0, <1>1, <3>3, FirstWords DEF DiffractionCounted, Wanted
    <3>6. class = "transmission" => TransmissionCounted'
      BY <1>0, <1>1, <3>3, FirstWords DEF TransmissionCounted, Wanted
    <3>7. /\ LosCounted => LosCounted'
          /\ ReflectionCounted => ReflectionCounted'
          /\ DiffractionCounted => DiffractionCounted'
          /\ CoupledCounted => CoupledCounted'
      BY <1>0, <3>1, CountedStays
    <3>. QED BY <1>0, <1>1, <2>2, <3>4, <3>5, <3>6, <3>7
             DEF Progress, AfterLos, AfterReflection, AfterDiffraction, AfterCoupled,
                 AfterTransmission, Ends
  <2>. QED BY <1>4, <2>1, <2>2
<1> QED BY <1>5, <1>6 DEF Inv

LEMMA CollectLosInv ==
  ASSUME ConfigAssumption, Inv, CollectLos
  PROVE  Inv'
<1> DEFINE New == IF "los" \in config.components THEN DirectRows("los") ELSE {}
<1>0. /\ stage = "los" /\ stage' = "reflection" /\ UNCHANGED <<config, world, power, samplerVars>>
      /\ samples' = samples \cup New
  BY DEF CollectLos, Keep, Goes
<1>1. walk = "off"
  BY <1>0 DEF Inv, WalkOfSolve
<1>2. \A row \in New : SolveRow(row) /\ Requested(row) /\ row.route # "endpoint"
  BY DirectSound DEF Requested
<1> HIDE DEF New
<1>3. SamplerInv' /\ SettingInv' /\ WalkOfSolve' /\ RowsOfSolve' /\ PowerOfSolve'
  BY <1>0, <1>1, <1>2, Collected DEF Onward, Early
<1>4. LosCounted'
  <2>1. CASE "los" \in config.components /\ world.walls = 0
    <3>1. PICK row \in DirectRows("los") : row.word = <<>>
      BY <2>1, DirectComplete
    <3>2. row \in samples'
      BY <1>0, <2>1, <3>1 DEF New
    <3>. QED BY <3>1, <3>2 DEF LosCounted, Has
  <2>2. CASE ~("los" \in config.components /\ world.walls = 0)
    BY <1>0, <2>2 DEF LosCounted
  <2>. QED BY <2>1, <2>2
<1>5. Progress'
  BY <1>0, <1>4 DEF Progress, AfterLos, AfterReflection, AfterDiffraction, AfterCoupled,
                    AfterTransmission, Ends
<1> QED BY <1>3, <1>5 DEF Inv

\* The rows of the coupled block, which count as diffraction.
LEMMA CoupledRowsSound ==
  ASSUME ConfigAssumption, SettingInv, stage \notin {"new", "refused"}, config.coupled, NEW live,
         live = config.ad \/ config.coherent
  PROVE  /\ \A row \in CoupledRows(live) :
              SolveRow(row) /\ Requested(row) /\ row.route # "endpoint"
         /\ world.structures =>
              \A word \in CoupledWords : \E row \in CoupledRows(live) : row.word = word
<1>1. config.depth >= 2 /\ "diffraction" \in config.components
  BY DEF SettingInv, Accepted
<1>2. \A row \in CoupledRows(live) :
        SolveRow(row) /\ Requested(row) /\ row.route # "endpoint"
  <2>1. "diffraction" \in Components /\ config.depth \in Nat
    BY SettingTypes DEF Components
  <2>2. ASSUME NEW row \in Discrete("coupled", "diffraction", live)
        PROVE  SolveRow(row) /\ Requested(row) /\ row.route # "endpoint"
    <3>1. SolveRow(row) /\ row.route # "endpoint" /\ row.component = "diffraction" /\ row.live = live
      BY <2>1, <2>2, DiscreteSound
    <3>. QED BY <1>1, <3>1 DEF Requested
  <2>. QED BY <2>2 DEF CoupledRows
<1>3. ASSUME world.structures, NEW word \in CoupledWords
      PROVE  \E row \in CoupledRows(live) : row.word = word
  <2>1. word \in Enumerated("coupled", config.depth)
    BY <1>1, <1>3, FirstWords
  <2>. QED BY <2>1, DiscreteComplete DEF CoupledRows
<1> QED BY <1>2, <1>3

LEMMA CollectCoupledInv ==
  ASSUME ConfigAssumption, Inv, CollectCoupled
  PROVE  Inv'
<1>0. /\ stage = "coupled" /\ UNCHANGED <<config, world, power, samplerVars>>
      /\ stage' \in {"transmission", "refused"}
  BY DEF CollectCoupled, Keep, Goes
<1>1. SettingInv /\ WalkOfSolve /\ Progress
  BY DEF Inv
<1>2. walk = "off"
  BY <1>0, <1>1 DEF WalkOfSolve
<1> DEFINE New == IF samples' = samples THEN {} ELSE CoupledRows(config.ad)
<1>3. /\ samples' = samples \cup New
      /\ \A row \in New : SolveRow(row) /\ Requested(row) /\ row.route # "endpoint"
  <2>1. CASE samples' = samples
    BY <2>1
  <2>2. CASE samples' # samples
    <3>1. config.coupled /\ samples' = samples \cup CoupledRows(config.ad)
      BY <2>2 DEF CollectCoupled
    <3>. QED BY <1>0, <1>1, <2>2, <3>1, CoupledRowsSound
  <2>. QED BY <2>1, <2>2
<1> HIDE DEF New
<1>4. SamplerInv' /\ SettingInv' /\ WalkOfSolve' /\ RowsOfSolve' /\ PowerOfSolve'
  BY <1>0, <1>2, <1>3, Collected DEF Onward, Early
<1>5. Progress'
  <2>1. CASE stage' = "refused"
    BY <2>1 DEF Progress, AfterLos, AfterReflection, AfterDiffraction, AfterCoupled,
                AfterTransmission, Ends
  <2>2. CASE stage' = "transmission"
    <3>1. CoupledCounted'
      <4>1. CASE config.coupled /\ world.structures
        <5>1. samples' = samples \cup CoupledRows(config.ad)
          BY <4>1, <2>2 DEF CollectCoupled, Goes
        <5>2. \A word \in CoupledWords : \E row \in CoupledRows(config.ad) : row.word = word
          BY <1>0, <1>1, <4>1, CoupledRowsSound
        <5>. QED BY <5>1, <5>2 DEF CoupledCounted, Has
      <4>2. CASE ~(config.coupled /\ world.structures)
        BY <1>0, <4>2 DEF CoupledCounted
      <4>. QED BY <4>1, <4>2
    <3>2. /\ LosCounted => LosCounted'
          /\ ReflectionCounted => ReflectionCounted'
          /\ DiffractionCounted => DiffractionCounted'
      BY <1>0, <1>3, CountedStays
    <3>. QED BY <1>0, <1>1, <2>2, <3>1, <3>2
             DEF Progress, AfterLos, AfterReflection, AfterDiffraction, AfterCoupled,
                 AfterTransmission, Ends
  <2>. QED BY <1>0, <2>1, <2>2
<1> QED BY <1>4, <1>5 DEF Inv

\* The rows of a coherent solve, and the first paths among them.
LEMMA AllRowsSound ==
  ASSUME ConfigAssumption, SettingInv, stage \notin {"new", "refused"}, config.coherent, NEW live
  PROVE  /\ \A row \in AllRows(live) : SolveRow(row) /\ Requested(row) /\ row.route # "endpoint"
         /\ \A k \in config.components : \A word \in Enumerated(k, config.depth) :
              \E row \in AllRows(live) : row.word = word
         /\ config.coupled /\ world.structures =>
              \A word \in CoupledWords : \E row \in AllRows(live) : row.word = word
<1>1. config.components \subseteq {"los", "reflection", "diffraction"} /\ config.depth \in Nat
  BY SettingTypes DEF SettingInv, Accepted, Components
<1>2. ASSUME NEW k \in config.components, NEW row \in Discrete(k, k, live)
      PROVE  SolveRow(row) /\ Requested(row) /\ row.route # "endpoint"
  <2>1. k \in {"los", "reflection", "diffraction", "transmission", "coupled"} /\ k \in Components
    BY <1>1 DEF Components
  <2>2. SolveRow(row) /\ row.route # "endpoint" /\ row.component = k
    BY <1>1, <1>2, <2>1, DiscreteSound
  <2>. QED BY <2>2 DEF Requested
<1>3. ASSUME config.coupled
      PROVE  /\ \A row \in CoupledRows(live) : SolveRow(row) /\ Requested(row) /\ row.route # "endpoint"
             /\ world.structures =>
                  \A word \in CoupledWords : \E row \in CoupledRows(live) : row.word = word
  BY <1>3, CoupledRowsSound
<1>4. \A row \in AllRows(live) : SolveRow(row) /\ Requested(row) /\ row.route # "endpoint"
  BY <1>2, <1>3 DEF AllRows
<1>5. ASSUME NEW k \in config.components, NEW word \in Enumerated(k, config.depth)
      PROVE  \E row \in AllRows(live) : row.word = word
  BY DiscreteComplete DEF AllRows
<1>6. ASSUME config.coupled, world.structures, NEW word \in CoupledWords
      PROVE  \E row \in AllRows(live) : row.word = word
  BY <1>3, <1>6 DEF AllRows
<1> QED BY <1>4, <1>5, <1>6

LEMMA CollectCoherentInv ==
  ASSUME ConfigAssumption, Inv, CollectCoherent
  PROVE  Inv'
<1> DEFINE All == AllRows(FALSE)
<1>0. /\ stage = "coherent" /\ UNCHANGED <<config, world, power, samplerVars>>
      /\ stage' \in {"accumulate", "refused"}
      /\ stage' = "refused" => samples' = samples
      /\ stage' = "accumulate" => samples' = samples \cup All
  BY DEF CollectCoherent, Keep, Goes
<1>1. SettingInv /\ WalkOfSolve
  BY DEF Inv
<1>2. walk = "off" /\ config.coherent
  BY <1>0, <1>1 DEF WalkOfSolve, SettingInv
<1>3. /\ \A row \in All : SolveRow(row) /\ Requested(row) /\ row.route # "endpoint"
      /\ \A k \in config.components : \A word \in Enumerated(k, config.depth) :
           \E row \in All : row.word = word
      /\ config.coupled /\ world.structures =>
           \A word \in CoupledWords : \E row \in All : row.word = word
  BY <1>0, <1>1, <1>2, AllRowsSound
<1> HIDE DEF All
<1>4. SamplerInv' /\ SettingInv' /\ WalkOfSolve' /\ RowsOfSolve' /\ PowerOfSolve'
  <2>1. PICK New \in {{}, All} : samples' = samples \cup New
    <3>1. samples' = samples \cup {} \/ samples' = samples \cup All
      BY <1>0
    <3>. QED BY <3>1
  <2>2. \A row \in New : SolveRow(row) /\ Requested(row) /\ row.route # "endpoint"
    BY <1>3, <2>1
  <2>. QED BY <1>0, <1>2, <2>1, <2>2, Collected DEF Onward, Early
<1>5. Progress'
  <2>1. CASE stage' = "refused"
    BY <2>1 DEF Progress, AfterLos, AfterReflection, AfterDiffraction, AfterCoupled,
                AfterTransmission, Ends
  <2>2. CASE stage' = "accumulate"
    <3>1. ASSUME NEW k \in config.components, NEW word \in Enumerated(k, config.depth)
          PROVE  Has(word)'
      BY <1>0, <1>3, <2>2 DEF Has
    <3>2. LosCounted'
      <4>1. world.walls = 0 => <<>> \in Enumerated("los", config.depth)
        BY DEF Enumerated
      <4>. QED BY <1>0, <3>1, <4>1 DEF LosCounted
    <3>3. ReflectionCounted' /\ DiffractionCounted'
      BY <1>0, <1>1, <3>1, FirstWords DEF ReflectionCounted, DiffractionCounted
    <3>4. CoupledCounted'
      BY <1>0, <1>3, <2>2 DEF CoupledCounted, Has
    <3>5. TransmissionCounted'
      BY <1>0, <1>1, <1>2 DEF TransmissionCounted, SettingInv, Accepted
    <3>. QED BY <3>2, <3>3, <3>4, <3>5 DEF Progress
  <2>. QED BY <1>0, <2>1, <2>2
<1> QED BY <1>4, <1>5 DEF Inv

\* A subpath is launched for transmission or for rough surfaces, one bounce of
\* it at least.
LEMMA SamplerCallSound ==
  ASSUME BoundsAssumption, ConfigAssumption, SettingInv, stage # "new"
  PROVE  /\ SamplerCall.order = 1 /\ SamplerCall.order \in 1 .. MaxOrder
         /\ SamplerCall.mixed \in BOOLEAN /\ SamplerCall.tables \in BOOLEAN
         /\ SamplerCall.mixed => "transmission" \in config.components
         /\ SamplerCall.tables => "scattering" \in config.components
         /\ SamplerCall.mixed \/ SamplerCall.tables =>
              SamplerCall.depth \in 1 .. MaxBounces /\ ReachesSampler(config, world)
<1>1. /\ config.depth \in Nat /\ config.lightDepth \in 0 .. MaxBounces
      /\ world.structures \in BOOLEAN /\ world.rough \in BOOLEAN
  BY SettingTypes
<1>2. Wanted("transmission") \in BOOLEAN /\ Wanted("scattering") \in BOOLEAN
  BY <1>1, Zenon DEF Wanted
<1>3. /\ SamplerCall.order = 1 /\ SamplerCall.depth = NativeDepth(config)
      /\ SamplerCall.tables = (Wanted("scattering") /\ world.rough)
      /\ SamplerCall.mixed = Wanted("transmission")
  BY DEF SamplerCall
<1>4. 1 \in 1 .. MaxOrder /\ MaxBounces \in Nat
  BY DEF BoundsAssumption
<1>5. \A class : Wanted(class) => /\ class \in config.components /\ world.structures
                                  /\ NativeDepth(config) \in 1 .. MaxBounces
  BY <1>1, <1>4 DEF Wanted, NativeDepth
<1>6. /\ SamplerCall.mixed => Wanted("transmission")
      /\ SamplerCall.tables => Wanted("scattering")
  BY <1>3
<1>7. SamplerCall.mixed \in BOOLEAN /\ SamplerCall.tables \in BOOLEAN
  BY <1>2, <1>3
<1> QED BY <1>3, <1>4, <1>5, <1>6, <1>7 DEF ReachesSampler

LEMMA StartSamplerInv ==
  ASSUME BoundsAssumption, ConfigAssumption, Inv, StartSampler
  PROVE  Inv'
<1>0. stage = "sampler" /\ UNCHANGED <<config, world, samples, power>>
  BY DEF StartSampler
<1>1. SettingInv /\ WalkOfSolve /\ RowsOfSolve /\ Progress
  BY DEF Inv
<1>2. CASE SamplerCall.mixed \/ SamplerCall.tables
  <2>1. Launch(SamplerCall) /\ stage' = "walking"
    BY <1>2 DEF StartSampler, Goes
  <2>2. SamplerInv'
    BY BoundsAssumption, <1>0, <1>1, <1>2, <2>1, SamplerCallSound, LaunchInv
  <2>3. SettingInv'
    BY <1>0, <1>1, <2>1 DEF SettingInv, Stages
  <2>4. WalkOfSolve'
    <3>1. ReachesSampler(config, world)
      BY BoundsAssumption, <1>0, <1>1, <1>2, SamplerCallSound
    <3>2. ReachesSampler(config, world)' /\ SamplerCall' = SamplerCall /\ call' = SamplerCall
      BY <1>0, <2>1, <3>1 DEF ReachesSampler, SamplerCall, Wanted, Launch
    <3>. QED BY <2>1, <3>2 DEF WalkOfSolve
  <2>5. RowsOfSolve'
    BY <1>0, <1>1, <2>1 DEF RowsOfSolve, Requested, SolveRow, RouteSound, Letters, Early
  <2>6. Progress'
    <3>1. /\ LosCounted => LosCounted'
          /\ ReflectionCounted => ReflectionCounted'
          /\ DiffractionCounted => DiffractionCounted'
          /\ CoupledCounted => CoupledCounted'
          /\ TransmissionCounted => TransmissionCounted'
      BY <1>0, CountedStays
    <3>. QED BY <1>0, <1>1, <2>1, <3>1
             DEF Progress, AfterLos, AfterReflection, AfterDiffraction, AfterCoupled,
                 AfterTransmission, Ends
  <2>7. PowerOfSolve'
    BY <2>1 DEF PowerOfSolve
  <2>. QED BY <2>2, <2>3, <2>4, <2>5, <2>6, <2>7 DEF Inv
<1>3. CASE ~(SamplerCall.mixed \/ SamplerCall.tables)
  <2> DEFINE New == {}
  <2>1. stage' = "accumulate" /\ UNCHANGED samplerVars /\ samples' = samples \cup New
    BY <1>0, <1>3 DEF StartSampler, Goes
  <2>2. SamplerInv' /\ SettingInv' /\ WalkOfSolve' /\ RowsOfSolve' /\ PowerOfSolve'
    <3>1. \A row \in New : SolveRow(row) /\ Requested(row) /\ row.route # "endpoint"
      OBVIOUS
    <3> HIDE DEF New
    <3>. QED BY <1>0, <2>1, <3>1, Collected DEF Onward, Early
  <2>3. Progress'
    <3>1. /\ LosCounted => LosCounted'
          /\ ReflectionCounted => ReflectionCounted'
          /\ DiffractionCounted => DiffractionCounted'
          /\ CoupledCounted => CoupledCounted'
          /\ TransmissionCounted => TransmissionCounted'
      BY <1>0, CountedStays
    <3>. QED BY <1>0, <1>1, <2>1, <3>1
             DEF Progress, AfterLos, AfterReflection, AfterDiffraction, AfterCoupled,
                 AfterTransmission, Ends
  <2>. QED BY <2>2, <2>3 DEF Inv
<1> QED BY <1>2, <1>3

LEMMA SampleInv ==
  ASSUME BoundsAssumption, Inv, Sample
  PROVE  Inv'
<1>0. stage = "walking" /\ UNCHANGED <<stage, config, world, samples, power>> /\ SamplerStep
  BY DEF Sample
<1>1. SamplerInv'
  BY <1>0, SamplerStepInv DEF Inv
<1>2. walk = "on" /\ call' = call
  BY <1>0 DEF SamplerStep, Bounce, Miss, DepthReached
<1>3. SettingInv' /\ PowerOfSolve'
  BY <1>0 DEF Inv, SettingInv, PowerOfSolve
<1>4. WalkOfSolve'
  BY <1>0, <1>2 DEF Inv, WalkOfSolve, SamplerCall, Wanted
<1>5. RowsOfSolve'
  BY <1>0 DEF Inv, RowsOfSolve, Requested, SolveRow, RouteSound, Letters
<1>6. Progress'
  BY <1>0 DEF Inv, Progress, LosCounted, ReflectionCounted, DiffractionCounted, CoupledCounted,
              TransmissionCounted, Has
<1> QED BY <1>1, <1>3, <1>4, <1>5, <1>6 DEF Inv

LEMMA EndSamplerInv ==
  ASSUME BoundsAssumption, ConfigAssumption, Inv, EndSampler
  PROVE  Inv'
<1> DEFINE New == {[route |-> row.route, word |-> EventsOf(row.word), component |-> row.component,
                    depth |-> row.depth, live |-> config.ad] : row \in emitted}
<1>0. /\ stage = "walking" /\ stage' = "accumulate" /\ samples' = samples \cup New
      /\ UNCHANGED <<config, world, power, samplerVars>>
  BY DEF EndSampler, Goes, Keep
<1>1. SettingInv /\ WalkOfSolve /\ Progress /\ RowsInv
  BY DEF Inv, SamplerInv
<1>2. ASSUME NEW new \in New
      PROVE  SolveRow(new) /\ Requested(new) /\ new.route # "endpoint"
  <2>1. PICK row \in emitted :
          new = [route |-> row.route, word |-> EventsOf(row.word), component |-> row.component,
                 depth |-> row.depth, live |-> config.ad]
    OBVIOUS
  <2>2. /\ new.route = row.route /\ new.word = EventsOf(row.word)
        /\ new.component = row.component /\ new.depth = row.depth /\ new.live = config.ad
    BY <2>1
  <2>3. /\ call = SamplerCall
        /\ SamplerCall.mixed => "transmission" \in config.components
        /\ SamplerCall.tables => "scattering" \in config.components
    BY BoundsAssumption, <1>0, <1>1, SamplerCallSound DEF WalkOfSolve
  <2>4. /\ new.depth = Len(new.word)
        /\ \/ /\ new.route = "mixed" /\ new.component = "transmission" /\ call.mixed
              /\ {"R", "T"} \subseteq Letters(new.word) /\ "S" \notin Letters(new.word)
           \/ /\ new.route = "nee" /\ new.component = "scattering" /\ call.tables
              /\ "S" \in Letters(new.word)
    BY <1>1, <2>2, SampledSound
  <2>5. SolveRow(new) /\ new.route # "endpoint"
    BY <2>4 DEF SolveRow, RouteSound, Components
  <2>6. new.component \in config.components
    BY <2>3, <2>4
  <2>. QED BY <2>2, <2>5, <2>6 DEF Requested
<1> HIDE DEF New
<1>3. SamplerInv' /\ SettingInv' /\ WalkOfSolve' /\ RowsOfSolve' /\ PowerOfSolve'
  BY <1>0, <1>2, Collected DEF Onward, Early
<1>4. Progress'
  <2>1. /\ LosCounted => LosCounted'
        /\ ReflectionCounted => ReflectionCounted'
        /\ DiffractionCounted => DiffractionCounted'
        /\ CoupledCounted => CoupledCounted'
        /\ TransmissionCounted => TransmissionCounted'
    BY <1>0, CountedStays
  <2>. QED BY <1>0, <1>1, <2>1
           DEF Progress, AfterLos, AfterReflection, AfterDiffraction, AfterCoupled,
               AfterTransmission, Ends
<1> QED BY <1>3, <1>4 DEF Inv

LEMMA AccumulateInv ==
  ASSUME Inv, Accumulate
  PROVE  Inv'
<1>0. /\ stage = "accumulate" /\ stage' = "done"
      /\ UNCHANGED <<config, world, samples, samplerVars>>
      /\ power' = [k \in {"los", "reflection", "diffraction"} \cup config.components |->
                     {row \in samples : row.component = k}]
  BY DEF Accumulate, Goes
<1>1. SamplerInv'
  BY <1>0, SamplerStutter DEF Inv
<1>2. SettingInv'
  BY <1>0 DEF Inv, SettingInv, Stages
<1>3. WalkOfSolve'
  BY <1>0 DEF Inv, WalkOfSolve, samplerVars
<1>4. RowsOfSolve'
  BY <1>0 DEF Inv, RowsOfSolve, Requested, SolveRow, RouteSound, Letters, Early
<1>5. Progress'
  <2>1. /\ LosCounted => LosCounted'
        /\ ReflectionCounted => ReflectionCounted'
        /\ DiffractionCounted => DiffractionCounted'
        /\ CoupledCounted => CoupledCounted'
        /\ TransmissionCounted => TransmissionCounted'
    BY <1>0, CountedStays
  <2>. QED BY <1>0, <2>1
           DEF Inv, Progress, AfterLos, AfterReflection, AfterDiffraction, AfterCoupled,
               AfterTransmission, Ends
<1>6. PowerOfSolve'
  BY <1>0 DEF PowerOfSolve
<1> QED BY <1>1, <1>2, <1>3, <1>4, <1>5, <1>6 DEF Inv

LEMMA StutterInv ==
  ASSUME Inv, UNCHANGED vars
  PROVE  Inv'
<1>0. UNCHANGED <<stage, config, world, samples, power, samplerVars>>
  BY DEF vars
<1>1. SamplerInv'
  BY <1>0, SamplerStutter DEF Inv
<1>2. SettingInv' /\ PowerOfSolve'
  BY <1>0 DEF Inv, SettingInv, PowerOfSolve
<1>3. WalkOfSolve'
  BY <1>0 DEF Inv, WalkOfSolve, samplerVars, SamplerCall, Wanted
<1>4. RowsOfSolve'
  BY <1>0 DEF Inv, RowsOfSolve, Requested, SolveRow, RouteSound, Letters
<1>5. Progress'
  BY <1>0 DEF Inv, Progress, LosCounted, ReflectionCounted, DiffractionCounted, CoupledCounted,
              TransmissionCounted, Has
<1> QED BY <1>1, <1>2, <1>3, <1>4, <1>5 DEF Inv

LEMMA NextInv ==
  ASSUME BoundsAssumption, ConfigAssumption, Inv, [Next]_vars
  PROVE  Inv'
<1>1. ASSUME Configure \/ Validate \/ Prepare PROVE Inv'
  BY BoundsAssumption, ConfigAssumption, <1>1, EarlyStep
<1>2. ASSUME BuildEndpoints PROVE Inv'
  BY BoundsAssumption, ConfigAssumption, <1>2, BuildEndpointsInv
<1>3. ASSUME CollectCoherent PROVE Inv'
  BY ConfigAssumption, <1>3, CollectCoherentInv
<1>4. ASSUME CollectLos PROVE Inv'
  BY ConfigAssumption, <1>4, CollectLosInv
<1>5. ASSUME CollectReflection PROVE Inv'
  BY ConfigAssumption, <1>5, CollectInv DEF CollectReflection
<1>6. ASSUME CollectDiffraction PROVE Inv'
  BY ConfigAssumption, <1>6, CollectInv DEF CollectDiffraction
<1>7. ASSUME CollectTransmission PROVE Inv'
  BY ConfigAssumption, <1>7, CollectInv DEF CollectTransmission
<1>8. ASSUME CollectCoupled PROVE Inv'
  BY ConfigAssumption, <1>8, CollectCoupledInv
<1>9. ASSUME StartSampler PROVE Inv'
  BY BoundsAssumption, ConfigAssumption, <1>9, StartSamplerInv
<1>10. ASSUME Sample PROVE Inv'
  BY BoundsAssumption, <1>10, SampleInv
<1>11. ASSUME EndSampler PROVE Inv'
  BY BoundsAssumption, ConfigAssumption, <1>11, EndSamplerInv
<1>12. ASSUME Accumulate PROVE Inv'
  BY <1>12, AccumulateInv
<1>13. ASSUME UNCHANGED vars PROVE Inv'
  BY <1>13, StutterInv
<1> QED BY <1>1, <1>2, <1>3, <1>4, <1>5, <1>6, <1>7, <1>8, <1>9, <1>10, <1>11, <1>12, <1>13
        DEF Next

-----------------------------------------------------------------------------
(* What a solve promises                                                    *)

\* Two routes never find words with the same events.
LEMMA RoutesDiffer ==
  ASSUME NEW a, NEW b, RouteSound(a), RouteSound(b), a.word = b.word,
         a.route = "endpoint" <=> b.route = "endpoint"
  PROVE  a.route = b.route
<1>1. Letters(<<>>) = {}
  BY DEF Letters
<1> DEFINE w == a.word  L == Letters(w)
<1>2. \A r : RouteSound(r) /\ r.word = w =>
        \/ r.route \in {"los", "endpoint"} /\ L = {}
        \/ r.route = "reflection" /\ L = {"R"}
        \/ r.route = "diffraction" /\ L = {"D"} /\ Len(w) = 1
        \/ r.route = "transmission" /\ L = {"T"}
        \/ r.route = "coupled" /\ Len(w) = 2 /\ "D" \in L /\ L \subseteq {"R", "D"}
        \/ r.route = "mixed" /\ {"R", "T"} \subseteq L /\ "S" \notin L
        \/ r.route = "nee" /\ "S" \in L
  BY <1>1 DEF RouteSound
<1> HIDE DEF w, L
<1> QED BY <1>2 DEF w

LEMMA SolvePromises ==
  ASSUME ConfigAssumption, Inv
  PROVE  TypeOK /\ SubpathsArePaidOnce /\ EachPathByOneRoute
<1>1. SubpathsArePaidOnce /\ RowsAreTheSamplersOwn /\ SubpathTypes
  BY SamplerPromises DEF Inv
<1>2. SettingInv /\ WalkOfSolve /\ RowsOfSolve /\ Progress /\ PowerOfSolve
  BY DEF Inv
<1>3. TypeOK
  BY <1>1, <1>2 DEF TypeOK, SettingInv, RowsOfSolve, SolveRow
<1>4. EachPathOnce
  <2>1. ASSUME NEW a \in samples, NEW b \in samples, a.word = b.word
        PROVE  a.route = b.route
    BY <1>2, <2>1, RoutesDiffer DEF RowsOfSolve, SolveRow
  <2>. QED BY <2>1 DEF EachPathOnce
<1>5. RequestedPathsAreCounted
  <2> SUFFICES ASSUME stage = "done"
               PROVE  LET counted == {row.word : row \in samples}
                      IN /\ "los" \in config.components /\ world.walls = 0 => <<>> \in counted
                         /\ config.coupled /\ world.structures => CoupledWords \subseteq counted
                         /\ world.structures /\ NativeDepth(config) >= 1 =>
                              /\ "reflection" \in config.components => <<"R">> \in counted
                              /\ "diffraction" \in config.components => <<"D">> \in counted
                              /\ "transmission" \in config.components /\ world.walls \in 1 .. config.depth =>
                                   [i \in 1 .. world.walls |-> "T"] \in counted
    BY DEF RequestedPathsAreCounted
  <2>1. LosCounted /\ ReflectionCounted /\ DiffractionCounted /\ CoupledCounted /\ TransmissionCounted
    BY <1>2 DEF Progress, AfterLos, AfterReflection, AfterDiffraction, AfterCoupled,
                AfterTransmission, Ends
  <2>2. \A word : Has(word) => word \in {row.word : row \in samples}
    BY DEF Has
  <2>. QED BY <2>1, <2>2 DEF LosCounted, ReflectionCounted, DiffractionCounted, CoupledCounted,
                            TransmissionCounted
<1>6. NothingUnrequested
  <2> SUFFICES ASSUME stage = "done"
               PROVE  /\ \A row \in samples : row.component \in config.components
                      /\ UNION {power[k] : k \in DOMAIN power} = samples
    BY DEF NothingUnrequested
  <2>1. \A row \in samples : row.component \in config.components
    BY <1>2 DEF RowsOfSolve, Requested
  <2> DEFINE Exposed == {"los", "reflection", "diffraction"} \cup config.components
  <2>2. /\ DOMAIN power = Exposed /\ config.components \subseteq Exposed
        /\ \A k \in Exposed : power[k] = {row \in samples : row.component = k}
    BY <1>2 DEF PowerOfSolve
  <2> HIDE DEF Exposed
  <2>3. UNION {power[k] : k \in DOMAIN power} = samples
    BY <2>1, <2>2
  <2>. QED BY <2>1, <2>3
<1>7. FrozenGeometryIsRefused
  BY <1>2 DEF FrozenGeometryIsRefused, WalkOfSolve, SettingInv
<1>8. PowerStaysLive
  BY <1>2 DEF PowerStaysLive, RowsOfSolve, Requested
<1> QED BY <1>1, <1>3, <1>4, <1>5, <1>6, <1>7, <1>8 DEF EachPathByOneRoute

LEMMA AlwaysInv ==
  ASSUME BoundsAssumption, ConfigAssumption
  PROVE  Spec => []Inv
<1>1. Init => Inv
  BY BoundsAssumption, ConfigAssumption, InitInv
<1>2. Inv /\ [Next]_vars => Inv'
  BY BoundsAssumption, ConfigAssumption, NextInv
<1> QED BY <1>1, <1>2, PTL DEF Spec

\* Every value is one of its kind, and no row is deeper than its path.
THEOREM TypeCorrect ==
  ASSUME BoundsAssumption, ConfigAssumption
  PROVE  Spec => []TypeOK
<1>1. Inv => TypeOK
  BY ConfigAssumption, SolvePromises
<1> QED BY <1>1, AlwaysInv, PTL

\* The light subpath of a solve is paid for what was drawn on its way.
THEOREM SubpathsPaid ==
  ASSUME BoundsAssumption, ConfigAssumption
  PROVE  Spec => []SubpathsArePaidOnce
<1>1. Inv => SubpathsArePaidOnce
  BY ConfigAssumption, SolvePromises
<1> QED BY <1>1, AlwaysInv, PTL

\* Whatever was asked of whatever scene, the enumerations and the sampler divide
\* the paths among them, leave out none of the first ones and refuse what they
\* cannot differentiate.
THEOREM RoutesDivideThePaths ==
  ASSUME BoundsAssumption, ConfigAssumption
  PROVE  Spec => []EachPathByOneRoute
<1>1. Inv => EachPathByOneRoute
  BY ConfigAssumption, SolvePromises
<1> QED BY <1>1, AlwaysInv, PTL

-----------------------------------------------------------------------------
(* Solves of Basic                                                         *)

\* Each instance has its own copy of the library's operators.
LEMMA BasicSumIsSum == \A f, S : Basic!SumFunctionOnSet(f, S) = Sum(f, S)
BY DEF Basic!SumFunctionOnSet, Basic!FoldFunctionOnSet, Basic!MapThenFoldSet,
       Sum, SumFunctionOnSet, FoldFunctionOnSet, MapThenFoldSet

LEMMA BasicFiniteIsFinite ==
  ASSUME NEW S PROVE /\ Basic!IsFiniteSet(S) <=> IsFiniteSet(S)
BY DEF Basic!IsFiniteSet, IsFiniteSet

(* What a solve of Basic has made of its maps, component by component. *)
BasicEnded == step \in {"finalize", "terminal", "returned", "raised"}
BasicStarted == step \notin {"budget", "los", "refused"}

LosMap == [p \in Basic!Pairs |-> IF Basic!On("los") /\ Basic!Visible(p) THEN 1 ELSE 0]

ReflectionMap ==
  IF Basic!On("reflection") /\ scene.structures /\ step # "reflection" THEN scene.reflects ELSE Basic!Zero

DiffractionMap ==
  IF Basic!On("diffraction") /\ scene.structures /\ step \notin {"reflection", "diffraction"}
  THEN [p \in Basic!Pairs |->
          Basic!SumFunctionOnSet([e \in scene.wedges[p[1]] |-> scene.sheds[e][p[2]]], scene.wedges[p[1]])]
  ELSE Basic!Zero

TransmissionMap ==
  IF Basic!On("transmission") /\ scene.structures /\ Basic!Pairs # {} /\ ~failed
     /\ step \notin {"reflection", "diffraction", "transmission"}
  THEN [p \in Basic!Pairs |-> Basic!Through(p, 1)]
  ELSE Basic!Zero

ScatteringMap ==
  IF Basic!On("scattering") /\ scene.structures
     /\ step \notin {"reflection", "diffraction", "transmission", "scattering"}
  THEN [p \in Basic!Pairs |-> Basic!Deposits(p[1], p[2])]
  ELSE Basic!Zero

BasicConfigured ==
  /\ settings \in BasicConfigurations /\ scene \in BasicScenes /\ failed \in BOOLEAN
  /\ step \in {"budget", "los", "reflection", "diffraction", "transmission", "scattering",
               "blank", "finalize", "terminal", "returned", "refused", "raised"}
  /\ step \notin {"budget", "refused"} =>
       Basic!Constructible(settings) /\ Basic!Affordable(settings, scene)

BasicMatrix ==
  /\ ~BasicStarted => maps = <<>> /\ failed = FALSE
  /\ BasicStarted =>
       matrix = IF ~Basic!On("los") THEN Basic!Zero
                ELSE IF scene.grid THEN Basic!Unobstructed ELSE LosMap
  /\ BasicStarted /\ ~scene.grid => BasicEnded /\ maps = <<>> /\ failed = FALSE

BasicMaps ==
  BasicStarted /\ scene.grid =>
    IF failed /\ BasicEnded THEN maps = Basic!Blanked
    ELSE /\ maps = [c \in Basic!Components |-> maps[c]]
         /\ maps["los"] = LosMap
         /\ maps["reflection"] = ReflectionMap
         /\ maps["diffraction"] = DiffractionMap
         /\ maps["transmission"] = TransmissionMap
         /\ maps["scattering"] = ScatteringMap

BasicWedges ==
  step = "diffraction" =>
    wedges = IF Basic!On("diffraction") /\ scene.structures THEN scene.wedges ELSE <<>>

BasicFailed ==
  failed => step \in {"scattering", "blank", "finalize", "terminal", "raised"} /\ scene.grid

BasicResult ==
  step \in {"terminal", "returned", "raised"} =>
    result = IF scene.grid
             THEN [gain |-> [p \in Basic!Pairs |-> Basic!Gain(p)],
                   power |-> [c \in Basic!Reported |-> Basic!Total(maps[c])]]
             ELSE [gain |-> matrix,
                   power |-> [c \in Basic!Reported |->
                     IF c = "los" /\ Basic!On("los") THEN Basic!Total(matrix) ELSE 0]]

BasicInv ==
  /\ BasicConfigured /\ BasicMatrix /\ BasicMaps /\ BasicWedges /\ BasicFailed /\ BasicResult

LEMMA BasicInitInv == Basic!Init => BasicInv
BY DEF Basic!Init, BasicInv, BasicConfigured, BasicMatrix, BasicMaps, BasicWedges, BasicFailed,
  BasicResult, BasicStarted, Basic!None

LEMMA BasicBudgetInv ==
  ASSUME BasicInv, Basic!Budget PROVE BasicInv'
BY DEF Basic!Budget, BasicInv, BasicConfigured, BasicMatrix, BasicMaps, BasicWedges, BasicFailed,
  BasicResult, BasicStarted, BasicEnded, Basic!None, Basic!Constructible, Basic!Affordable, Basic!Required

\* What an action that keeps the configuration and the scene keeps.
LEMMA BasicGiven ==
  ASSUME UNCHANGED <<settings, scene>>
  PROVE  /\ Basic!Pairs' = Basic!Pairs /\ Basic!Zero' = Basic!Zero
         /\ Basic!Unobstructed' = Basic!Unobstructed /\ LosMap' = LosMap
         /\ Basic!Blanked' = Basic!Blanked /\ Basic!Reported' = Basic!Reported
         /\ Basic!Constructible(settings)' <=> Basic!Constructible(settings)
         /\ Basic!Affordable(settings, scene)' <=> Basic!Affordable(settings, scene)
         /\ \A c : Basic!On(c)' <=> Basic!On(c)
         /\ \A p : Basic!Through(p, 1)' = Basic!Through(p, 1)
         /\ \A t, r : Basic!Deposits(t, r)' = Basic!Deposits(t, r)
         /\ \A m : Basic!Total(m)' = Basic!Total(m)
<1>1. Basic!Pairs' = Basic!Pairs
  BY DEF Basic!Pairs, Basic!Tx, Basic!Rx
<1>2. Basic!Zero' = Basic!Zero /\ Basic!Unobstructed' = Basic!Unobstructed
  BY <1>1 DEF Basic!Zero, Basic!Unobstructed
<1>3. LosMap' = LosMap
  BY <1>1 DEF LosMap, Basic!Visible, Basic!On
<1>4. Basic!Blanked' = Basic!Blanked
  BY <1>2 DEF Basic!Blanked
<1>5. Basic!Reported' = Basic!Reported
  BY DEF Basic!Reported
<1>6. /\ Basic!Constructible(settings)' <=> Basic!Constructible(settings)
      /\ Basic!Affordable(settings, scene)' <=> Basic!Affordable(settings, scene)
      /\ \A c : Basic!On(c)' <=> Basic!On(c)
  BY DEF Basic!Constructible, Basic!Affordable, Basic!Required, Basic!On
<1>7. \A p : Basic!Through(p, 1)' = Basic!Through(p, 1)
  BY DEF Basic!Through
<1>8. \A t, r : Basic!Deposits(t, r)' = Basic!Deposits(t, r)
  BY DEF Basic!Deposits, Basic!Lit, Basic!Active, Basic!Starts, Basic!Block, Basic!Rx, Basic!Chunk, Basic!Seen
<1>9. \A m : Basic!Total(m)' = Basic!Total(m)
  BY <1>1 DEF Basic!Total
<1>. QED BY <1>1, <1>2, <1>3, <1>4, <1>5, <1>6, <1>7, <1>8, <1>9

LEMMA BasicLosInv ==
  ASSUME BasicInv, Basic!Los PROVE BasicInv'
<1>1. /\ step = "los" /\ UNCHANGED <<settings, scene, wedges, failed, result>> /\ failed = FALSE
      /\ step' = IF scene.grid THEN "reflection" ELSE "finalize"
  BY DEF Basic!Los, BasicInv, BasicMatrix, BasicStarted
<1>2. BasicConfigured' /\ BasicWedges' /\ BasicFailed' /\ BasicResult'
  BY <1>1, BasicGiven DEF BasicInv, BasicConfigured, BasicWedges, BasicFailed, BasicResult
<1>3. BasicMatrix'
  BY <1>1, BasicGiven DEF Basic!Los, BasicMatrix, BasicStarted, BasicEnded, Basic!Zero, LosMap, Basic!On, Basic!None
<1>4. BasicMaps'
  <2>. SUFFICES ASSUME scene.grid PROVE BasicMaps'
    BY <1>1 DEF BasicMaps
  <2>1. maps' = [c \in Basic!Components |-> IF c = "los" /\ Basic!On("los")
                   THEN [p \in Basic!Pairs |-> IF Basic!Visible(p) THEN 1 ELSE 0] ELSE Basic!Zero]
    BY DEF Basic!Los
  <2>2. maps' = [c \in Basic!Components |-> maps'[c]]
    BY <2>1
  <2>3. maps'["los"] = LosMap
    BY <2>1 DEF LosMap, Basic!Components, Basic!Zero, Basic!On
  <2>4. \A c \in Basic!Components \ {"los"} : maps'[c] = Basic!Zero
    BY <2>1
  <2>5. {"reflection", "diffraction", "transmission", "scattering"} \subseteq Basic!Components \ {"los"}
    BY DEF Basic!Components
  <2>6. /\ ReflectionMap' = Basic!Zero /\ DiffractionMap' = Basic!Zero
        /\ TransmissionMap' = Basic!Zero /\ ScatteringMap' = Basic!Zero
    BY <1>1, BasicGiven DEF ReflectionMap, DiffractionMap, TransmissionMap, ScatteringMap
  <2>. QED BY <1>1, <2>2, <2>3, <2>4, <2>5, <2>6, BasicGiven DEF BasicMaps
<1>. QED BY <1>2, <1>3, <1>4 DEF BasicInv

\* An action between the first and the last map keeps the matrix and the result.
LEMMA BasicBetween ==
  ASSUME BasicInv, UNCHANGED <<settings, scene, matrix, result>>,
         step \in {"reflection", "diffraction", "transmission", "scattering", "blank"},
         step' \in {"diffraction", "transmission", "scattering", "blank", "finalize"},
         failed' \in BOOLEAN, failed' => step' \in {"scattering", "blank", "finalize"}
  PROVE  BasicConfigured' /\ BasicMatrix' /\ BasicFailed' /\ BasicResult' /\ scene.grid
<1>1. scene.grid
  BY DEF BasicInv, BasicMatrix, BasicStarted, BasicEnded
<1>2. BasicConfigured' /\ BasicFailed' /\ BasicResult'
  BY <1>1, BasicGiven DEF BasicInv, BasicConfigured, BasicFailed, BasicResult
<1>3. BasicMatrix'
  BY <1>1, BasicGiven DEF BasicInv, BasicMatrix, BasicStarted
<1>. QED BY <1>1, <1>2, <1>3

LEMMA BasicReflectionInv ==
  ASSUME BasicInv, Basic!Reflection PROVE BasicInv'
<1>1. /\ step = "reflection" /\ step' = "diffraction"
      /\ UNCHANGED <<settings, scene, matrix, failed, result>> /\ failed = FALSE
  BY DEF Basic!Reflection, BasicInv, BasicFailed, BasicConfigured
<1>2. BasicConfigured' /\ BasicMatrix' /\ BasicFailed' /\ BasicResult' /\ scene.grid
  BY <1>1, BasicBetween
<1>3. BasicWedges'
  BY <1>1, BasicGiven DEF Basic!Reflection, BasicWedges, Basic!None
<1>. DEFINE on == scene.structures /\ Basic!On("reflection")
<1>4. maps = [c \in Basic!Components |-> maps[c]] /\ "reflection" \in Basic!Components
  BY <1>1, <1>2 DEF BasicInv, BasicMaps, BasicStarted, BasicEnded, Basic!Components
<1>5. maps' = [maps EXCEPT !["reflection"] = ReflectionMap']
  <2>1. ReflectionMap' = IF on THEN scene.reflects ELSE Basic!Zero
    BY <1>1, BasicGiven DEF ReflectionMap
  <2>2. CASE on
    BY <1>1, <2>1, <2>2 DEF Basic!Reflection
  <2>3. CASE ~on
    <3>1. maps["reflection"] = Basic!Zero
      BY <1>1, <1>2 DEF BasicInv, BasicMaps, BasicStarted, BasicEnded, ReflectionMap
    <3>2. maps' = maps
      BY <2>3 DEF Basic!Reflection
    <3>. QED BY <1>4, <2>1, <2>3, <3>1, <3>2
  <2>. QED BY <2>2, <2>3
<1>6. /\ maps["los"] = LosMap /\ DiffractionMap' = maps["diffraction"]
      /\ TransmissionMap' = maps["transmission"] /\ ScatteringMap' = maps["scattering"]
  BY <1>1, <1>2, BasicGiven DEF BasicInv, BasicMaps, BasicStarted, BasicEnded,
     DiffractionMap, TransmissionMap, ScatteringMap
<1>7. BasicMaps'
  <2>. HIDE DEF on
  <2>. QED BY <1>1, <1>2, <1>4, <1>5, <1>6, BasicGiven DEF BasicMaps, BasicEnded
<1>. QED BY <1>2, <1>3, <1>7 DEF BasicInv

LEMMA BasicDiffractionInv ==
  ASSUME BasicInv, Basic!Diffraction PROVE BasicInv'
<1>1. /\ step = "diffraction" /\ step' = "transmission"
      /\ UNCHANGED <<settings, scene, matrix, wedges, failed, result>> /\ failed = FALSE
  BY DEF Basic!Diffraction, BasicInv, BasicFailed, BasicConfigured
<1>2. BasicConfigured' /\ BasicMatrix' /\ BasicFailed' /\ BasicResult' /\ scene.grid
  BY <1>1, BasicBetween
<1>3. BasicWedges'
  BY <1>1 DEF BasicWedges
<1>. DEFINE on == Basic!On("diffraction") /\ scene.structures
<1>4. maps = [c \in Basic!Components |-> maps[c]] /\ "diffraction" \in Basic!Components
  BY <1>1, <1>2 DEF BasicInv, BasicMaps, BasicStarted, BasicEnded, Basic!Components
<1>5. maps' = [maps EXCEPT !["diffraction"] = DiffractionMap']
  <2>1. CASE on
    <3>1. wedges = scene.wedges
      BY <1>1, <2>1 DEF BasicInv, BasicWedges
    <3>2. ASSUME NEW p \in Basic!Pairs
          PROVE  (IF settings.ad THEN IF p[1] \in DOMAIN Basic!Rows THEN Basic!Rows[p[1]][p[2]] ELSE 0
                  ELSE IF p[1] \in Basic!Diffracting THEN Basic!Shed(p[1])[p[2]] ELSE 0)
                 = Basic!SumFunctionOnSet([e \in scene.wedges[p[1]] |-> scene.sheds[e][p[2]]], scene.wedges[p[1]])
      <4>1. p[1] \in Basic!Tx /\ p[2] \in Basic!Rx
        BY DEF Basic!Pairs
      <4>2. Basic!Shed(p[1])[p[2]]
              = Basic!SumFunctionOnSet([e \in scene.wedges[p[1]] |-> scene.sheds[e][p[2]]], scene.wedges[p[1]])
        BY <3>1, <4>1 DEF Basic!Shed
      <4>3. CASE settings.ad
        BY <4>1, <4>2, <4>3 DEF Basic!Rows
      <4>4. CASE ~settings.ad
        <5>1. CASE p[1] \in Basic!Diffracting
          BY <4>2, <4>4, <5>1
        <5>2. CASE p[1] \notin Basic!Diffracting
          <6>1. scene.wedges[p[1]] = {}
            BY <3>1, <4>1, <5>2 DEF Basic!Diffracting
          <6>. DEFINE f == [e \in scene.wedges[p[1]] |-> scene.sheds[e][p[2]]]
          <6>2. Sum(f, {}) = 0
            BY SumPicked, FS_EmptySet
          <6>3. Basic!SumFunctionOnSet(f, scene.wedges[p[1]]) = 0
            <7>. HIDE DEF f
            <7>. QED BY <6>1, <6>2, BasicSumIsSum
          <6>. QED BY <4>4, <5>2, <6>3
        <5>. QED BY <5>1, <5>2
      <4>. QED BY <4>3, <4>4
    <3>3. DiffractionMap' = [p \in Basic!Pairs |->
             Basic!SumFunctionOnSet([e \in scene.wedges[p[1]] |-> scene.sheds[e][p[2]]], scene.wedges[p[1]])]
      BY <1>1, <2>1, BasicGiven DEF DiffractionMap
    <3>4. maps' = [maps EXCEPT !["diffraction"] = [p \in Basic!Pairs |->
                     IF settings.ad THEN IF p[1] \in DOMAIN Basic!Rows THEN Basic!Rows[p[1]][p[2]] ELSE 0
                     ELSE IF p[1] \in Basic!Diffracting THEN Basic!Shed(p[1])[p[2]] ELSE 0]]
      BY <2>1 DEF Basic!Diffraction
    <3>. HIDE DEF on
    <3>. QED BY <3>2, <3>3, <3>4
  <2>2. CASE ~on
    <3>1. maps["diffraction"] = Basic!Zero
      BY <1>1, <1>2 DEF BasicInv, BasicMaps, BasicStarted, BasicEnded, DiffractionMap
    <3>2. maps' = maps
      BY <2>2 DEF Basic!Diffraction
    <3>3. DiffractionMap' = Basic!Zero
      BY <1>1, <2>2, BasicGiven DEF DiffractionMap
    <3>. QED BY <1>4, <2>2, <3>1, <3>2, <3>3
  <2>. QED BY <2>1, <2>2
<1>6. /\ maps["los"] = LosMap /\ ReflectionMap' = maps["reflection"]
      /\ TransmissionMap' = maps["transmission"] /\ ScatteringMap' = maps["scattering"]
  BY <1>1, <1>2, BasicGiven DEF BasicInv, BasicMaps, BasicStarted, BasicEnded,
     ReflectionMap, TransmissionMap, ScatteringMap
<1>7. BasicMaps'
  <2>. HIDE DEF on
  <2>. QED BY <1>1, <1>2, <1>4, <1>5, <1>6, BasicGiven DEF BasicMaps, BasicEnded
<1>. QED BY <1>2, <1>3, <1>7 DEF BasicInv

LEMMA BasicTransmissionInv ==
  ASSUME BasicInv, Basic!Transmission PROVE BasicInv'
<1>1. /\ step = "transmission" /\ step' = "scattering"
      /\ UNCHANGED <<settings, scene, matrix, wedges, result>> /\ failed' \in BOOLEAN /\ failed = FALSE
  BY DEF Basic!Transmission, BasicInv, BasicFailed, BasicConfigured
<1>2. BasicConfigured' /\ BasicMatrix' /\ BasicFailed' /\ BasicResult' /\ scene.grid
  BY <1>1, BasicBetween
<1>3. BasicWedges'
  BY <1>1 DEF BasicWedges
<1>. DEFINE made == Basic!On("transmission") /\ scene.structures /\ Basic!Pairs # {}
<1>4. maps = [c \in Basic!Components |-> maps[c]] /\ "transmission" \in Basic!Components
  BY <1>1, <1>2 DEF BasicInv, BasicMaps, BasicStarted, BasicEnded, Basic!Components
<1>5. maps' = [maps EXCEPT !["transmission"] = TransmissionMap']
  <2>1. CASE made
    <3>1. \A p \in Basic!Pairs : Basic!BasePower[p] = 1
      BY <1>1, <1>2 DEF BasicInv, BasicMatrix, BasicStarted, Basic!BasePower, Basic!Unobstructed
    <3>2. [p \in Basic!Pairs |-> Basic!Through(p, Basic!BasePower[p])]
            = [p \in Basic!Pairs |-> Basic!Through(p, 1)]
      BY <3>1
    <3>3. TransmissionMap' = IF failed' THEN Basic!Zero ELSE [p \in Basic!Pairs |-> Basic!Through(p, 1)]
      BY <1>1, <2>1, BasicGiven DEF TransmissionMap
    <3>4. maps' = [maps EXCEPT !["transmission"] =
                    IF failed' THEN Basic!Zero ELSE [p \in Basic!Pairs |-> Basic!Through(p, Basic!BasePower[p])]]
      BY <2>1 DEF Basic!Transmission
    <3>. HIDE DEF made
    <3>. QED BY <3>2, <3>3, <3>4
  <2>2. CASE ~made
    <3>1. maps["transmission"] = Basic!Zero
      BY <1>1, <1>2 DEF BasicInv, BasicMaps, BasicStarted, BasicEnded, TransmissionMap
    <3>2. maps' = maps
      BY <2>2 DEF Basic!Transmission
    <3>3. TransmissionMap' = Basic!Zero
      BY <1>1, <2>2, BasicGiven DEF TransmissionMap
    <3>. QED BY <1>4, <2>2, <3>1, <3>2, <3>3
  <2>. QED BY <2>1, <2>2
<1>6. /\ maps["los"] = LosMap /\ ReflectionMap' = maps["reflection"]
      /\ DiffractionMap' = maps["diffraction"] /\ ScatteringMap' = maps["scattering"]
  BY <1>1, <1>2, BasicGiven DEF BasicInv, BasicMaps, BasicStarted, BasicEnded,
     ReflectionMap, DiffractionMap, ScatteringMap
<1>7. BasicMaps'
  <2>. HIDE DEF made
  <2>. QED BY <1>1, <1>2, <1>4, <1>5, <1>6, BasicGiven DEF BasicMaps, BasicEnded
<1>. QED BY <1>2, <1>3, <1>7 DEF BasicInv

LEMMA BasicScatteringInv ==
  ASSUME BasicInv, Basic!Scattering PROVE BasicInv'
<1>1. /\ step = "scattering" /\ step' = "blank" /\ failed \in BOOLEAN
      /\ UNCHANGED <<settings, scene, matrix, wedges, failed, result>>
  BY DEF Basic!Scattering, BasicInv, BasicConfigured
<1>2. BasicConfigured' /\ BasicMatrix' /\ BasicFailed' /\ BasicResult' /\ scene.grid
  BY <1>1, BasicBetween
<1>3. BasicWedges'
  BY <1>1 DEF BasicWedges
<1>. DEFINE on == Basic!On("scattering") /\ scene.structures
<1>4. maps = [c \in Basic!Components |-> maps[c]] /\ "scattering" \in Basic!Components
  BY <1>1, <1>2 DEF BasicInv, BasicMaps, BasicStarted, BasicEnded, Basic!Components
<1>5. maps' = [maps EXCEPT !["scattering"] = ScatteringMap']
  <2>1. CASE on
    <3>1. ScatteringMap' = [p \in Basic!Pairs |-> Basic!Deposits(p[1], p[2])]
      BY <1>1, <2>1, BasicGiven DEF ScatteringMap
    <3>. QED BY <2>1, <3>1 DEF Basic!Scattering
  <2>2. CASE ~on
    <3>1. maps["scattering"] = Basic!Zero
      BY <1>1, <1>2 DEF BasicInv, BasicMaps, BasicStarted, BasicEnded, ScatteringMap
    <3>2. maps' = maps
      BY <2>2 DEF Basic!Scattering
    <3>3. ScatteringMap' = Basic!Zero
      BY <1>1, <2>2, BasicGiven DEF ScatteringMap
    <3>. QED BY <1>4, <2>2, <3>1, <3>2, <3>3
  <2>. QED BY <2>1, <2>2
<1>6. /\ maps["los"] = LosMap /\ ReflectionMap' = maps["reflection"]
      /\ DiffractionMap' = maps["diffraction"] /\ TransmissionMap' = maps["transmission"]
  BY <1>1, <1>2, BasicGiven DEF BasicInv, BasicMaps, BasicStarted, BasicEnded,
     ReflectionMap, DiffractionMap, TransmissionMap
<1>7. BasicMaps'
  <2>. HIDE DEF on
  <2>. QED BY <1>1, <1>2, <1>4, <1>5, <1>6, BasicGiven DEF BasicMaps, BasicEnded
<1>. QED BY <1>2, <1>3, <1>7 DEF BasicInv

LEMMA BasicBlankInv ==
  ASSUME BasicInv, Basic!Blank PROVE BasicInv'
<1>1. /\ step = "blank" /\ step' = "finalize" /\ failed \in BOOLEAN
      /\ UNCHANGED <<settings, scene, matrix, wedges, failed, result>>
      /\ maps' = IF failed THEN Basic!Blanked ELSE maps
  BY DEF Basic!Blank, BasicInv, BasicConfigured
<1>2. BasicConfigured' /\ BasicMatrix' /\ BasicFailed' /\ BasicResult' /\ scene.grid
  BY <1>1, BasicBetween
<1>3. BasicWedges'
  BY <1>1 DEF BasicWedges
<1>4. BasicMaps'
  BY <1>1, <1>2, BasicGiven DEF BasicInv, BasicMaps, BasicStarted, BasicEnded, ReflectionMap, DiffractionMap,
     TransmissionMap, ScatteringMap
<1>. QED BY <1>2, <1>3, <1>4 DEF BasicInv

\* What reads the maps and keeps them, when all are made.
LEMMA BasicKept ==
  ASSUME BasicInv, UNCHANGED <<settings, scene, matrix, maps, wedges, failed>>, BasicEnded, BasicEnded'
  PROVE  BasicMatrix' /\ BasicMaps' /\ BasicWedges'
<1>1. ReflectionMap' = ReflectionMap /\ DiffractionMap' = DiffractionMap
      /\ TransmissionMap' = TransmissionMap /\ ScatteringMap' = ScatteringMap
  BY BasicGiven DEF BasicEnded, ReflectionMap, DiffractionMap, TransmissionMap, ScatteringMap
<1>2. BasicMatrix' /\ BasicWedges'
  BY BasicGiven DEF BasicInv, BasicMatrix, BasicWedges, BasicStarted, BasicEnded
<1>3. BasicMaps'
  BY <1>1, BasicGiven DEF BasicInv, BasicMaps, BasicStarted, BasicEnded
<1>. QED BY <1>2, <1>3

LEMMA BasicFinalizeInv ==
  ASSUME BasicInv, Basic!Finalize PROVE BasicInv'
<1>1. step = "finalize" /\ step' = "terminal" /\ UNCHANGED <<settings, scene, matrix, wedges, maps, failed>>
  BY DEF Basic!Finalize
<1>2. BasicMatrix' /\ BasicMaps' /\ BasicWedges'
  BY <1>1, BasicKept DEF BasicEnded
<1>3. BasicConfigured' /\ BasicFailed'
  BY <1>1, BasicGiven DEF BasicInv, BasicConfigured, BasicFailed, BasicMatrix, BasicStarted
<1>4. BasicResult'
  <2>1. \A p : Basic!Gain(p)' = Basic!Gain(p)
    BY <1>1 DEF Basic!Gain
  <2>. QED BY <1>1, <2>1, BasicGiven DEF BasicResult, Basic!Finalize
<1>. QED BY <1>2, <1>3, <1>4 DEF BasicInv

LEMMA BasicTerminalInv ==
  ASSUME BasicInv, Basic!Terminal PROVE BasicInv'
<1>1. /\ step = "terminal" /\ step' = IF failed THEN "raised" ELSE "returned"
      /\ UNCHANGED <<settings, scene, matrix, wedges, maps, failed, result>> /\ failed \in BOOLEAN
  BY DEF Basic!Terminal, BasicInv, BasicConfigured
<1>2. BasicMatrix' /\ BasicMaps' /\ BasicWedges'
  BY <1>1, BasicKept DEF BasicEnded
<1>3. BasicConfigured' /\ BasicFailed'
  BY <1>1, BasicGiven DEF BasicInv, BasicConfigured, BasicFailed
<1>4. BasicResult'
  <2>1. \A p : Basic!Gain(p)' = Basic!Gain(p)
    BY <1>1 DEF Basic!Gain
  <2>. QED BY <1>1, <2>1, BasicGiven DEF BasicInv, BasicResult
<1>. QED BY <1>2, <1>3, <1>4 DEF BasicInv

LEMMA BasicStays ==
  ASSUME BasicInv, UNCHANGED Basic!vars PROVE BasicInv'
<1>1. UNCHANGED <<step, settings, scene, matrix, wedges, maps, failed, result>>
  BY DEF Basic!vars
<1>. QED BY <1>1, BasicGiven DEF BasicInv, BasicConfigured, BasicMatrix, BasicMaps, BasicWedges, BasicFailed,
      BasicResult, BasicStarted, BasicEnded, ReflectionMap, DiffractionMap, TransmissionMap, ScatteringMap, Basic!Gain

LEMMA BasicStep ==
  ASSUME BasicInv, [Basic!Next]_Basic!vars PROVE BasicInv'
<1>. QED BY BasicBudgetInv, BasicLosInv, BasicReflectionInv, BasicDiffractionInv, BasicTransmissionInv,
      BasicScatteringInv, BasicBlankInv, BasicFinalizeInv, BasicTerminalInv, BasicStays DEF Basic!Next, Basic!Done


\* What the assumptions say of the scene of a solve.
LEMMA BasicScene ==
  ASSUME BasicConfigured
  PROVE  /\ {scene.tx, scene.rows, scene.cols} \subseteq Nat
         /\ {scene.walls, scene.thru, scene.reflects} \subseteq [Basic!Pairs -> Nat]
         /\ \A t \in Basic!Tx : IsFiniteSet(scene.wedges[t]) /\ scene.wedges[t] \subseteq DOMAIN scene.sheds
         /\ \A e \in DOMAIN scene.sheds : scene.sheds[e] \in [Basic!Rx -> Nat]
         /\ {settings.samples, settings.depth, settings.limit} \subseteq Nat
         /\ IsFiniteSet(Basic!Pairs) /\ IsFiniteSet(Basic!Components)
         /\ scene.rows * scene.cols \in Nat
<1>1. Basic!InputsAssumption
  BY SolversAssumption
<1>2. /\ {scene.tx, scene.rows, scene.cols} \subseteq Nat
      /\ {scene.walls, scene.thru, scene.reflects} \subseteq [Basic!Pairs -> Nat]
      /\ \A t \in Basic!Tx : IsFiniteSet(scene.wedges[t]) /\ scene.wedges[t] \subseteq DOMAIN scene.sheds
      /\ \A e \in DOMAIN scene.sheds : scene.sheds[e] \in [Basic!Rx -> Nat]
      /\ {settings.samples, settings.depth, settings.limit} \subseteq Nat
  BY <1>1, BasicFiniteIsFinite DEF BasicConfigured, Basic!InputsAssumption, Basic!Pairs, Basic!Tx, Basic!Rx
<1>3. scene.rows * scene.cols \in Nat
  BY <1>2
<1>4. IsFiniteSet(Basic!Tx) /\ IsFiniteSet(Basic!Rx)
  <2>1. 1 \in Int /\ scene.tx \in Int /\ scene.rows * scene.cols \in Int
    BY <1>2, <1>3
  <2>. QED BY <2>1, FS_Interval, Zenon DEF Basic!Tx, Basic!Rx
<1>5. IsFiniteSet(Basic!Pairs)
  BY <1>4, FS_Product DEF Basic!Pairs
<1>6. IsFiniteSet(Basic!Components)
  <2>1. \A a, b, c, d, e : IsFiniteSet({a} \cup {b} \cup {c} \cup {d} \cup {e})
    BY FS_Singleton, FS_Union
  <2>2. Basic!Components =
          {"los"} \cup {"reflection"} \cup {"diffraction"} \cup {"transmission"} \cup {"scattering"}
    BY DEF Basic!Components
  <2>. QED BY <2>1, <2>2
<1>. QED BY <1>2, <1>3, <1>5, <1>6

LEMMA ZeroAddsNothing ==
  ASSUME BasicConfigured
  PROVE  Basic!Total(Basic!Zero) = 0
<1>1. Sum(Basic!Zero, Basic!Pairs) = 0
  BY BasicScene, SumZero DEF Basic!Zero
<1>. QED BY <1>1, BasicSumIsSum DEF Basic!Total

LEMMA BasicFailedShowsNothing ==
  ASSUME BasicInv
  PROVE  Basic!NothingOfAFailedSolve
<1>. SUFFICES ASSUME failed, step \in {"terminal", "raised"}
     PROVE  /\ \A p \in Basic!Pairs : result.gain[p] = 0
            /\ \A c \in DOMAIN result.power : result.power[c] = 0
  BY DEF BasicInv, BasicFailed, Basic!NothingOfAFailedSolve
<1>1. scene.grid /\ maps = Basic!Blanked
  BY DEF BasicInv, BasicFailed, BasicMaps, BasicStarted, BasicEnded
<1>2. result = [gain |-> [p \in Basic!Pairs |-> Basic!Gain(p)],
                power |-> [c \in Basic!Reported |-> Basic!Total(maps[c])]]
  BY <1>1 DEF BasicInv, BasicResult
<1>3. ASSUME NEW p \in Basic!Pairs PROVE Basic!Gain(p) = 0
  <2>. DEFINE f == [c \in Basic!Components |-> maps[c][p]]
  <2>1. \A c \in Basic!Components : f[c] = 0
    BY <1>1 DEF Basic!Blanked, Basic!Zero
  <2>2. IsFiniteSet(Basic!Components)
    BY BasicScene DEF BasicInv
  <2>3. Sum(f, Basic!Components) = 0
    <3>. HIDE DEF f
    <3>. QED BY <2>1, <2>2, SumZero
  <2>. QED BY <2>3, BasicSumIsSum DEF Basic!Gain
<1>4. \A c \in Basic!Reported : Basic!Total(maps[c]) = 0
  <2>1. Basic!Reported \subseteq Basic!Components
    BY DEF Basic!Reported, Basic!Components
  <2>2. \A c \in Basic!Reported : maps[c] = Basic!Zero
    BY <1>1, <2>1 DEF Basic!Blanked
  <2>. QED BY <2>2, ZeroAddsNothing DEF BasicInv
<1>. QED BY <1>2, <1>3, <1>4

\* The maps of a grid's solve that is returned.
LEMMA BasicReturned ==
  ASSUME BasicInv, Basic!Whole
  PROVE  /\ scene.grid /\ ~failed /\ step = "returned"
         /\ maps["los"] = LosMap
         /\ maps["reflection"] = IF Basic!On("reflection") /\ scene.structures THEN scene.reflects ELSE Basic!Zero
         /\ maps["diffraction"] = IF Basic!On("diffraction") /\ scene.structures
              THEN [p \in Basic!Pairs |-> Basic!SumFunctionOnSet(
                      [e \in scene.wedges[p[1]] |-> scene.sheds[e][p[2]]], scene.wedges[p[1]])]
              ELSE Basic!Zero
         /\ maps["transmission"] =
              IF Basic!On("transmission") /\ scene.structures /\ Basic!Pairs # {}
              THEN [p \in Basic!Pairs |-> Basic!Through(p, 1)] ELSE Basic!Zero
         /\ maps["scattering"] =
              IF Basic!On("scattering") /\ scene.structures
              THEN [p \in Basic!Pairs |-> Basic!Deposits(p[1], p[2])] ELSE Basic!Zero
         /\ result = [gain |-> [p \in Basic!Pairs |-> Basic!Gain(p)],
                      power |-> [c \in Basic!Reported |-> Basic!Total(maps[c])]]
<1>1. scene.grid /\ ~failed /\ step = "returned"
  BY DEF BasicInv, BasicFailed, Basic!Whole
<1>2. result = [gain |-> [p \in Basic!Pairs |-> Basic!Gain(p)],
                power |-> [c \in Basic!Reported |-> Basic!Total(maps[c])]]
  BY <1>1 DEF BasicInv, BasicResult
<1>. QED BY <1>1, <1>2 DEF BasicInv, BasicMaps, BasicStarted, BasicEnded, ReflectionMap,
          DiffractionMap, TransmissionMap, ScatteringMap

LEMMA BasicLine ==
  ASSUME BasicInv PROVE Basic!StraightLineOnce
<1>. SUFFICES ASSUME Basic!Whole, NEW p \in Basic!Pairs
     PROVE  maps["los"][p] + maps["transmission"][p] =
              IF ~scene.structures \/ scene.walls[p] = 0 THEN (IF Basic!On("los") THEN 1 ELSE 0)
              ELSE IF Basic!On("transmission") THEN scene.thru[p] ELSE 0
  BY DEF Basic!StraightLineOnce
<1>1. scene.thru[p] \in Nat
  BY BasicScene DEF BasicInv
<1>2. maps["los"][p] = IF Basic!On("los") /\ (~scene.structures \/ scene.walls[p] = 0) THEN 1 ELSE 0
  BY BasicReturned DEF LosMap, Basic!Visible
<1>3. maps["transmission"][p] = IF Basic!On("transmission") /\ scene.structures
                                THEN IF scene.walls[p] = 0 THEN 0 ELSE 1 * scene.thru[p] ELSE 0
  BY BasicReturned DEF Basic!Through, Basic!Zero
<1>. QED BY <1>1, <1>2, <1>3

LEMMA BasicUnrequested ==
  ASSUME BasicInv PROVE Basic!UnrequestedAddsNothing
<1>. SUFFICES ASSUME Basic!Whole
     PROVE  /\ \A c \in Basic!Components \ settings.components : maps[c] = Basic!Zero
            /\ \A c \in DOMAIN result.power : ~Basic!On(c) => result.power[c] = 0
  BY DEF Basic!UnrequestedAddsNothing
<1>1. LosMap = Basic!Zero \/ Basic!On("los")
  BY DEF LosMap, Basic!Zero
<1>2. \A c \in Basic!Components : ~Basic!On(c) => maps[c] = Basic!Zero
  BY <1>1, BasicReturned DEF Basic!Components
<1>3. Basic!Reported \subseteq Basic!Components
  BY DEF Basic!Reported, Basic!Components
<1>4. \A c \in Basic!Reported : ~Basic!On(c) => result.power[c] = 0
  BY <1>2, <1>3, BasicReturned, ZeroAddsNothing DEF BasicInv
<1>. QED BY <1>2, <1>4, BasicReturned DEF Basic!On


LEMMA BasicSafe ==
  ASSUME BasicInv PROVE Basic!TypeOK
<1>1. step \in {"budget", "los", "reflection", "diffraction", "transmission", "scattering",
                "blank", "finalize", "terminal", "returned", "refused", "raised"}
  BY DEF BasicInv, BasicConfigured
<1>2. ASSUME maps # <<>>
      PROVE  DOMAIN maps = Basic!Components /\ \A c \in Basic!Components : DOMAIN maps[c] = Basic!Pairs
  <2>1. BasicStarted /\ scene.grid
    BY <1>2 DEF BasicInv, BasicMatrix
  <2>2. CASE failed /\ BasicEnded
    <3>1. maps = Basic!Blanked
      BY <2>1, <2>2 DEF BasicInv, BasicMaps
    <3>. QED BY <3>1 DEF Basic!Blanked, Basic!Zero
  <2>3. CASE ~(failed /\ BasicEnded)
    <3>1. /\ maps = [c \in Basic!Components |-> maps[c]] /\ maps["los"] = LosMap
          /\ maps["reflection"] = ReflectionMap /\ maps["diffraction"] = DiffractionMap
          /\ maps["transmission"] = TransmissionMap /\ maps["scattering"] = ScatteringMap
      BY <2>1, <2>3 DEF BasicInv, BasicMaps
    <3>2. \A m \in {LosMap, ReflectionMap, DiffractionMap, TransmissionMap, ScatteringMap} : DOMAIN m = Basic!Pairs
      BY BasicScene DEF BasicInv, LosMap, ReflectionMap, DiffractionMap, TransmissionMap, ScatteringMap, Basic!Zero
    <3>. QED BY <3>1, <3>2 DEF Basic!Components
  <2>. QED BY <2>2, <2>3
<1>3. ASSUME step \in {"terminal", "returned", "raised"} PROVE DOMAIN result.gain = Basic!Pairs
  BY <1>3 DEF BasicInv, BasicResult, BasicMatrix, BasicStarted, LosMap, Basic!Zero
<1>. QED BY <1>1, <1>2, <1>3 DEF Basic!TypeOK, Basic!None

\* A remainder, and what is left without it.
LEMMA Remainders ==
  ASSUME NEW a \in Nat, NEW c \in Nat, c >= 1
  PROVE  /\ a % c \in 0 .. c - 1 /\ a % c <= a
         /\ (a - (a % c)) % c = 0
<1>1. a % c \in 0 .. c - 1 /\ a % c <= a
  OBVIOUS
<1>2. a = c * (a \div c) + (a % c) /\ a \div c \in Nat
  OBVIOUS
<1>3. \A q \in Nat : (c * q) % c = 0
  OBVIOUS
<1>. DEFINE q == a \div c
            m == a % c
<1>4. a - m = c * q
  <2>1. m \in Int /\ q \in Nat /\ a = c * q + m
    BY <1>1, <1>2
  <2>. HIDE DEF q, m
  <2>. QED BY <2>1
<1>5. (a - m) % c = 0
  <2>. HIDE DEF m, q
  <2>1. q \in Nat
    BY <1>2 DEF q
  <2>. QED BY <1>3, <1>4, <2>1
<1>. QED BY <1>1, <1>5

\* A block of cells starts every Chunk cells, so each cell is in one.
LEMMA BasicBlocks ==
  ASSUME BasicConfigured, NEW r \in Basic!Rx, Basic!Constructible(settings)
  PROVE  \E s \in Basic!Starts : r \in Basic!Block(s)
<1>. DEFINE c == Basic!Chunk
            m == (r - 1) % c
            s == r - m
<1>1. settings.samples \in Nat /\ settings.samples > 0 /\ ChunkRows \in Nat
  BY BasicScene, SolversAssumption DEF SolversAssumption, Basic!Constructible, Basic!BytesAssumption
<1>2. c \in Nat /\ c >= 1
  BY <1>1 DEF Basic!Chunk
<1>3. r \in Nat /\ r >= 1 /\ r <= scene.rows * scene.cols /\ r - 1 \in Nat
  BY BasicScene DEF Basic!Rx
<1>4. m \in 0 .. c - 1 /\ m <= r - 1 /\ ((r - 1) - m) % c = 0
  <2>. HIDE DEF c
  <2>. QED BY <1>2, <1>3, Remainders
<1>5. s \in Nat /\ s >= 1 /\ s <= r /\ r < s + c /\ s - 1 = (r - 1) - m
  <2>. HIDE DEF c, m
  <2>. QED BY <1>2, <1>3, <1>4
<1>6. s \in Basic!Rx
  <2>1. scene.rows * scene.cols \in Nat
    BY BasicScene
  <2>. HIDE DEF s
  <2>. QED BY <1>3, <1>5, <2>1 DEF Basic!Rx
<1>. HIDE DEF m, s, c
<1>7. s \in Basic!Starts
  <2>1. (s - 1) % c = 0
    BY <1>4, <1>5
  <2>. QED BY <1>6, <2>1 DEF Basic!Starts, c
<1>8. r \in Basic!Block(s)
  BY <1>5 DEF Basic!Block, c
<1>. QED BY <1>7, <1>8

LEMMA BasicRows ==
  ASSUME BasicInv PROVE Basic!RowsAreTheirTransmitters
<1>. SUFFICES ASSUME Basic!Whole, scene.structures, NEW p \in Basic!Pairs
     PROVE  /\ Basic!On("diffraction") => maps["diffraction"][p] =
                 Basic!SumFunctionOnSet([e \in scene.wedges[p[1]] |-> scene.sheds[e][p[2]]], scene.wedges[p[1]])
            /\ Basic!On("scattering") => maps["scattering"][p] =
                 Basic!Cardinality({k \in 1..settings.samples :
                   /\ scene.lights[p[1]][((k - 1) % Len(scene.lights[p[1]])) + 1]
                   /\ scene.sees[((k - 1) % Len(scene.sees)) + 1][p[2]]})
  BY DEF Basic!RowsAreTheirTransmitters
<1>1. ASSUME Basic!On("diffraction")
      PROVE  maps["diffraction"][p] =
               Basic!SumFunctionOnSet([e \in scene.wedges[p[1]] |-> scene.sheds[e][p[2]]], scene.wedges[p[1]])
  BY <1>1, BasicReturned
<1>2. ASSUME Basic!On("scattering")
      PROVE  maps["scattering"][p] =
               Basic!Cardinality({k \in 1..settings.samples :
                   /\ scene.lights[p[1]][((k - 1) % Len(scene.lights[p[1]])) + 1]
                   /\ scene.sees[((k - 1) % Len(scene.sees)) + 1][p[2]]})
  <2>. DEFINE t == p[1]
              r == p[2]
              S == {k \in Basic!Lit(t) : Basic!Seen(k, r)}
              s == CHOOSE s \in Basic!Starts : r \in Basic!Block(s)
  <2>1. maps["scattering"][p] = Basic!Deposits(t, r)
    BY <1>2, BasicReturned
  <2>2. S = {k \in 1..settings.samples :
              /\ scene.lights[p[1]][((k - 1) % Len(scene.lights[p[1]])) + 1]
              /\ scene.sees[((k - 1) % Len(scene.sees)) + 1][p[2]]}
    BY DEF Basic!Lit, Basic!Seen
  <2>3. r \in Basic!Block(s)
    <3>1. r \in Basic!Rx /\ Basic!Constructible(settings) /\ BasicConfigured
      BY DEF Basic!Pairs, BasicInv, BasicConfigured, Basic!Whole
    <3>. HIDE DEF r
    <3>. QED BY <3>1, BasicBlocks
  <2>4. ASSUME Basic!Lit(t) = {} \/ ~Basic!Active(t, s) PROVE S = {}
    <3>. HIDE DEF t, r, s
    <3>. QED BY <2>3, <2>4 DEF Basic!Active
  <2>5. Basic!Cardinality({}) = 0
    BY FS_EmptySet DEF Basic!Cardinality, Cardinality
  <2>6. Basic!Deposits(t, r) = IF Basic!Lit(t) = {} \/ ~Basic!Active(t, s) THEN 0 ELSE Basic!Cardinality(S)
    BY DEF Basic!Deposits
  <2>. HIDE DEF S, s
  <2>. QED BY <2>1, <2>2, <2>4, <2>5, <2>6
<1>. QED BY <1>1, <1>2

\* What is not refused was computed without a bound.
LEMMA BasicTimes ==
  ASSUME NEW a, NEW b
  PROVE  /\ Basic!Times(a, b) # Basic!Refused => a # Basic!Refused /\ Basic!Times(a, b) = a * b
         /\ Basic!Plus(a, b) # Basic!Refused => a # Basic!Refused /\ Basic!Plus(a, b) = a + b
BY DEF Basic!Times, Basic!Plus

LEMMA BasicLimit ==
  ASSUME BasicInv PROVE Basic!StartsWithinItsLimit
<1>. SUFFICES ASSUME step \notin {"budget", "refused"}, settings.limit # 0
     PROVE  LET depth == IF settings.depth > 1 THEN settings.depth ELSE 1
            IN settings.samples * scene.tx * depth * PathBytes
                 + scene.tx * scene.rows * scene.cols * PairBytes <= settings.limit
  BY DEF Basic!StartsWithinItsLimit
<1>. DEFINE depth == IF settings.depth > 1 THEN settings.depth ELSE 1
            cells == scene.rows * scene.cols
            a1 == Basic!Times(1, settings.samples)
            a2 == Basic!Times(a1, scene.tx)
            a3 == Basic!Times(a2, depth)
            a4 == Basic!Times(a3, PathBytes)
            b1 == Basic!Times(1, scene.tx)
            b2 == Basic!Times(b1, cells)
            b3 == Basic!Times(b2, PairBytes)
            c1 == Basic!Plus(0, 0)
            c2 == Basic!Plus(c1, a4)
            c3 == Basic!Plus(c2, b3)
            c4 == Basic!Plus(c3, 0)
<1>1. /\ settings.samples \in Nat /\ scene.tx \in Nat /\ scene.rows \in Nat /\ scene.cols \in Nat
      /\ PathBytes \in Nat /\ PairBytes \in Nat /\ depth \in Nat /\ cells \in Nat
  BY BasicScene, SolversAssumption DEF BasicInv, SolversAssumption, Basic!BytesAssumption
<1>2. Basic!Required(settings, scene) # Basic!Refused /\ Basic!Required(settings, scene) <= settings.limit
  BY DEF BasicInv, BasicConfigured, Basic!Affordable
<1>3. a4 # Basic!Refused /\ b3 # Basic!Refused /\ Basic!Required(settings, scene) = c4
  BY <1>2 DEF Basic!Required
<1>4. a4 = settings.samples * scene.tx * depth * PathBytes
  <2>1. a4 # Basic!Refused => a3 # Basic!Refused /\ a4 = a3 * PathBytes
    BY BasicTimes
  <2>2. a3 # Basic!Refused => a2 # Basic!Refused /\ a3 = a2 * depth
    BY BasicTimes
  <2>3. a2 # Basic!Refused => a1 # Basic!Refused /\ a2 = a1 * scene.tx
    BY BasicTimes
  <2>4. a1 # Basic!Refused => a1 = 1 * settings.samples
    BY BasicTimes
  <2>. HIDE DEF a1, a2, a3, a4, depth
  <2>. QED BY <1>1, <1>3, <2>1, <2>2, <2>3, <2>4
<1>5. b3 = scene.tx * cells * PairBytes
  <2>1. b3 # Basic!Refused => b2 # Basic!Refused /\ b3 = b2 * PairBytes
    BY BasicTimes
  <2>2. b2 # Basic!Refused => b1 # Basic!Refused /\ b2 = b1 * cells
    BY BasicTimes
  <2>3. b1 # Basic!Refused => b1 = 1 * scene.tx
    BY BasicTimes
  <2>. HIDE DEF b1, b2, b3, cells
  <2>. QED BY <1>1, <1>3, <2>1, <2>2, <2>3
<1>6. a4 \in Nat /\ b3 \in Nat
  <2>. HIDE DEF a4, b3, depth, cells
  <2>. QED BY <1>1, <1>4, <1>5
<1>7. a4 + b3 <= settings.limit
  <2>1. c4 # Basic!Refused => c3 # Basic!Refused /\ c4 = c3 + 0
    BY BasicTimes
  <2>2. c3 # Basic!Refused => c2 # Basic!Refused /\ c3 = c2 + b3
    BY BasicTimes
  <2>3. c2 # Basic!Refused => c1 # Basic!Refused /\ c2 = c1 + a4
    BY BasicTimes
  <2>4. c1 # Basic!Refused => c1 = 0 + 0
    BY BasicTimes
  <2>. HIDE DEF a4, b3, c1, c2, c3, c4
  <2>. QED BY <1>2, <1>3, <1>6, <2>1, <2>2, <2>3, <2>4
<1>8. scene.tx * cells * PairBytes = scene.tx * scene.rows * scene.cols * PairBytes
  BY <1>1
<1>. HIDE DEF a1, a2, a3, a4, b1, b2, b3, c1, c2, c3, c4
<1>. QED BY <1>4, <1>5, <1>7, <1>8


\* What a map holds are numbers.
LEMMA BasicAmounts ==
  ASSUME BasicInv, Basic!Whole, NEW c \in Basic!Components, NEW p \in Basic!Pairs
  PROVE  maps[c][p] \in Int /\ maps[c] = [q \in Basic!Pairs |-> maps[c][q]]
<1>1. p[1] \in Basic!Tx /\ p[2] \in Basic!Rx /\ \A q \in Basic!Pairs : q[1] \in Basic!Tx /\ q[2] \in Basic!Rx
  BY DEF Basic!Pairs
<1>2. /\ Basic!Zero = [q \in Basic!Pairs |-> Basic!Zero[q]] /\ Basic!Zero[p] \in Int
      /\ LosMap = [q \in Basic!Pairs |-> LosMap[q]] /\ LosMap[p] \in Int
      /\ scene.reflects = [q \in Basic!Pairs |-> scene.reflects[q]] /\ scene.reflects[p] \in Int
  BY BasicScene DEF BasicInv, Basic!Zero, LosMap
<1>3. Basic!Through(p, 1) \in Int
  BY BasicScene DEF BasicInv, Basic!Through
<1>4. Basic!Deposits(p[1], p[2]) \in Int
  <2>. DEFINE S == {k \in Basic!Lit(p[1]) : Basic!Seen(k, p[2])}
  <2>1. S \subseteq 1 .. settings.samples
    BY DEF Basic!Lit
  <2>2. IsFiniteSet(1 .. settings.samples)
    <3>1. 1 \in Int /\ settings.samples \in Int
      BY BasicScene DEF BasicInv
    <3>. QED BY <3>1, FS_Interval, Zenon
  <2>3. Cardinality(S) \in Nat
    BY <2>1, <2>2, FS_Subset, FS_CardinalityType
  <2>4. Basic!Cardinality(S) = Cardinality(S)
    BY DEF Basic!Cardinality, Cardinality
  <2>. HIDE DEF S
  <2>. QED BY <2>3, <2>4 DEF Basic!Deposits, S
<1>5. ASSUME Basic!On("diffraction"), scene.structures
      PROVE  Basic!SumFunctionOnSet([e \in scene.wedges[p[1]] |-> scene.sheds[e][p[2]]], scene.wedges[p[1]]) \in Int
  <2>. DEFINE E == scene.wedges[p[1]]
              f == [e \in E |-> scene.sheds[e][p[2]]]
  <2>1. IsFiniteSet(E) /\ \A e \in E : f[e] \in Int
    BY <1>1, BasicScene DEF BasicInv
  <2>2. Sum(f, E) \in Int
    <3>. HIDE DEF f, E
    <3>. QED BY <2>1, SumInt
  <2>. HIDE DEF f, E
  <2>. QED BY <2>2, BasicSumIsSum DEF f, E
<1>6. CASE c = "los"
  BY <1>2, <1>6, BasicReturned
<1>7. CASE c = "reflection"
  BY <1>2, <1>7, BasicReturned
<1>8. CASE c = "diffraction"
  <2>. DEFINE m == [q \in Basic!Pairs |-> Basic!SumFunctionOnSet(
                      [e \in scene.wedges[q[1]] |-> scene.sheds[e][q[2]]], scene.wedges[q[1]])]
  <2>1. maps[c] = IF Basic!On("diffraction") /\ scene.structures THEN m ELSE Basic!Zero
    BY <1>8, BasicReturned
  <2>2. m = [q \in Basic!Pairs |-> m[q]] /\ m[p] = Basic!SumFunctionOnSet(
          [e \in scene.wedges[p[1]] |-> scene.sheds[e][p[2]]], scene.wedges[p[1]])
    OBVIOUS
  <2>. HIDE DEF m
  <2>. QED BY <1>2, <1>5, <2>1, <2>2
<1>9. CASE c = "transmission"
  BY <1>2, <1>3, <1>9, BasicReturned
<1>10. CASE c = "scattering"
  BY <1>2, <1>4, <1>10, BasicReturned
<1>. QED BY <1>6, <1>7, <1>8, <1>9, <1>10 DEF Basic!Components

LEMMA BasicGridTotal ==
  ASSUME BasicInv, Basic!Whole
  PROVE  Basic!Total(result.gain) = Basic!SumFunctionOnSet(result.power, DOMAIN result.power)
<1>. DEFINE P == Basic!Pairs
            C == Basic!Components
            R == Basic!Reported
            m == [p \in P |-> [c \in C |-> maps[c][p]]]
            gain == [p \in P |-> Sum(m[p], C)]
            watts == [c \in C |-> Sum(maps[c], P)]
            column == [c \in C |-> Sum([p \in P |-> m[p][c]], P)]
<1>1. IsFiniteSet(P) /\ IsFiniteSet(C)
  BY BasicScene DEF BasicInv
<1>2. R \subseteq C /\ C = R \cup (C \ R)
  BY DEF Basic!Reported, Basic!Components
<1>3. result.gain = gain
  BY BasicReturned, BasicSumIsSum DEF Basic!Gain
<1>4. \A p \in P, c \in C : m[p][c] \in Int
  BY BasicAmounts
<1>5. Sum(gain, P) = Sum(column, C)
  <2>. HIDE DEF m, P, C
  <2>. QED BY <1>1, <1>4, SumSwap
<1>6. \A c \in C : column[c] = watts[c]
  <2>. SUFFICES ASSUME NEW c \in C PROVE column[c] = watts[c]
    OBVIOUS
  <2>1. \A p \in P : [q \in P |-> m[q][c]][p] = maps[c][p]
    OBVIOUS
  <2>2. Sum([q \in P |-> m[q][c]], P) = Sum(maps[c], P)
    <3>. HIDE DEF m, P
    <3>. QED BY <1>1, <2>1, SumSame
  <2>. HIDE DEF m, P
  <2>. QED BY <2>2
<1>7. Sum(column, C) = Sum(watts, C)
  <2>. HIDE DEF column, watts, C
  <2>. QED BY <1>1, <1>6, SumSame
<1>8. \A c \in C : watts[c] \in Int
  <2>. SUFFICES ASSUME NEW c \in C PROVE watts[c] \in Int
    OBVIOUS
  <2>1. \A p \in P : maps[c][p] \in Int
    BY BasicAmounts
  <2>2. Sum(maps[c], P) \in Int
    <3>. HIDE DEF P
    <3>. QED BY <1>1, <2>1, SumInt
  <2>. QED BY <2>2
<1>9. \A c \in C \ R : watts[c] = 0
  <2>. SUFFICES ASSUME NEW c \in C \ R PROVE watts[c] = 0
    OBVIOUS
  <2>1. maps[c] = Basic!Zero
    <3>1. c \in Basic!Components \ settings.components
      BY DEF Basic!Reported, Basic!Components
    <3>. QED BY <3>1, BasicUnrequested DEF Basic!UnrequestedAddsNothing
  <2>2. \A p \in P : maps[c][p] = 0
    BY <2>1 DEF Basic!Zero
  <2>3. Sum(maps[c], P) = 0
    <3>. HIDE DEF P
    <3>. QED BY <1>1, <2>2, SumZero
  <2>. QED BY <2>3
<1>10. Sum(watts, C) = Sum(watts, R)
  <2>1. IsFiniteSet(R) /\ IsFiniteSet(C \ R)
    BY <1>1, <1>2, FS_Subset
  <2>2. Sum(watts, C \ R) = 0
    <3>. HIDE DEF watts, C, R
    <3>. QED BY <1>9, <2>1, SumZero
  <2>3. Sum(watts, R \cup (C \ R)) = Sum(watts, R) + Sum(watts, C \ R)
    <3>. HIDE DEF watts, C, R
    <3>. QED BY <1>2, <1>8, <2>1, SumUnion
  <2>4. Sum(watts, R) \in Int
    <3>. HIDE DEF watts, C, R
    <3>. QED BY <1>2, <1>8, <2>1, SumInt
  <2>5. Sum(watts, C) = Sum(watts, R \cup (C \ R))
    <3>. HIDE DEF watts, C, R
    <3>. QED BY <1>2, Zenon
  <2>. HIDE DEF watts, C, R
  <2>. QED BY <2>2, <2>3, <2>4, <2>5
<1>11. DOMAIN result.power = R /\ \A c \in R : result.power[c] = watts[c]
  BY <1>2, BasicReturned, BasicSumIsSum DEF Basic!Total
<1>12. Sum(result.power, R) = Sum(watts, R)
  <2>1. IsFiniteSet(R)
    BY <1>1, <1>2, FS_Subset
  <2>. HIDE DEF watts, R
  <2>. QED BY <1>11, <2>1, SumSame
<1>13. Basic!Total(result.gain) = Sum(gain, P)
  <2>. HIDE DEF gain
  <2>. QED BY <1>3, BasicSumIsSum DEF Basic!Total
<1>14. Basic!SumFunctionOnSet(result.power, DOMAIN result.power) = Sum(result.power, R)
  <2>. HIDE DEF R
  <2>. QED BY <1>11, BasicSumIsSum
<1>. HIDE DEF gain, watts, column, P, C, R
<1>. QED BY <1>5, <1>7, <1>10, <1>12, <1>13, <1>14

LEMMA BasicPointsTotal ==
  ASSUME BasicInv, step = "returned", ~scene.grid
  PROVE  Basic!Total(result.gain) = Basic!SumFunctionOnSet(result.power, DOMAIN result.power)
<1>. DEFINE R == Basic!Reported
            watts == [c \in R |-> IF c = "los" /\ Basic!On("los") THEN Basic!Total(matrix) ELSE 0]
<1>1. result = [gain |-> matrix, power |-> watts]
  BY DEF BasicInv, BasicResult
<1>2. IsFiniteSet(R) /\ "los" \in R
  <2>1. R \subseteq Basic!Components /\ IsFiniteSet(Basic!Components)
    BY BasicScene DEF BasicInv, Basic!Reported, Basic!Components
  <2>. QED BY <2>1, FS_Subset DEF Basic!Reported
<1>3. Basic!Total(matrix) \in Int
  <2>1. \A p \in Basic!Pairs : matrix[p] \in Int
    BY DEF BasicInv, BasicMatrix, BasicStarted, Basic!Zero, LosMap
  <2>2. IsFiniteSet(Basic!Pairs)
    BY BasicScene DEF BasicInv
  <2>3. Sum(matrix, Basic!Pairs) \in Int
    BY <2>1, <2>2, SumInt
  <2>. QED BY <2>3, BasicSumIsSum DEF Basic!Total
<1>4. Sum(watts, R) = watts["los"]
  <2>1. \A c \in R : watts[c] \in Int
    BY <1>3
  <2>2. \A c \in R \ {"los"} : watts[c] = 0
    OBVIOUS
  <2>3. IsFiniteSet(R \ {"los"})
    BY <1>2, FS_Subset
  <2>. HIDE DEF R, watts
  <2>4. Sum(watts, R \ {"los"}) = 0
    BY <2>2, <2>3, SumZero
  <2>5. Sum(watts, R) = watts["los"] + Sum(watts, R \ {"los"})
    BY <1>2, <2>1, SumWithout
  <2>. QED BY <1>2, <2>1, <2>4, <2>5
<1>5. watts["los"] = Basic!Total(matrix)
  <2>1. CASE Basic!On("los")
    BY <1>2, <2>1
  <2>2. CASE ~Basic!On("los")
    <3>1. matrix = Basic!Zero
      BY <2>2 DEF BasicInv, BasicMatrix, BasicStarted
    <3>2. Basic!Total(matrix) = 0
      BY <3>1, ZeroAddsNothing DEF BasicInv
    <3>. QED BY <1>2, <2>2, <3>2
  <2>. QED BY <2>1, <2>2
<1>6. DOMAIN result.power = R /\ result.power = watts /\ result.gain = matrix
  BY <1>1
<1>. HIDE DEF R, watts
<1>. QED BY <1>4, <1>5, <1>6, BasicSumIsSum

LEMMA BasicGain ==
  ASSUME BasicInv PROVE Basic!GainIsThePowers
BY BasicGridTotal, BasicPointsTotal DEF Basic!GainIsThePowers, Basic!Whole

-----------------------------------------------------------------------------
(* The composition: a behaviour stays in the part it started in.           *)

In(p) == part = p

\* A step is one of the part, or of another.
LEMMA SolversParts ==
  ASSUME [SolversNext]_solversVars
  PROVE  /\ part' = part
         /\ In("paths") => [Path!Next]_Path!vars
         /\ OfDeterministic => [Field!Next]_Field!vars
         /\ In("basic") => [Basic!Next]_Basic!vars
<1>1. CASE UNCHANGED solversVars
  <2>1. UNCHANGED <<part, step, settings, scene, rows, result, found, solved, asked, vector, candidates,
          totals, metadata, paths, truncated, matrix, wedges, maps, failed>>
    BY <1>1 DEF solversVars, solveOthers
  <2>. QED BY <2>1 DEF Path!vars, Field!vars, Basic!vars
<1>2. CASE SolversNext
  BY <1>2 DEF SolversNext, In, OfDeterministic
<1>. QED BY <1>1, <1>2

LEMMA BasicPart ==
  SolversSpec => [](In("basic") => BasicInv)
<1>1. SolversInit => (In("basic") => BasicInv)
  BY BasicInitInv DEF SolversInit, In
<1>2. (In("basic") => BasicInv) /\ [SolversNext]_solversVars => (In("basic") => BasicInv)'
  BY SolversParts, BasicStep DEF In
<1>. QED BY <1>1, <1>2, PTL DEF SolversSpec

\* The gain of a cell is each requested contribution once, in the row of its own
\* transmitter, and a solve fits the limit it started in (basic.py, solve_pipeline).
THEOREM ContributionsOnce == SolversSpec => []EachContributionOnce
<1>1. (In("basic") => BasicInv) => EachContributionOnce
  BY BasicSafe, BasicLine, BasicUnrequested, BasicGain, BasicRows, BasicLimit DEF In, EachContributionOnce
<1>. QED BY <1>1, BasicPart, PTL

LEMMA FieldPart ==
  SolversSpec => [](OfDeterministic => FieldInv)
<1>1. SolversInit => (OfDeterministic => FieldInv)
  BY FieldInitInv DEF SolversInit, OfDeterministic
<1>2. (OfDeterministic => FieldInv) /\ [SolversNext]_solversVars => (OfDeterministic => FieldInv)'
  BY FieldStep, SolversParts DEF OfDeterministic
<1>. QED BY <1>1, <1>2, PTL DEF SolversSpec

\* The totals, the powers of the components, the counts and the cut flag of a
\* deterministic result are those of the rows it used (deterministic.py, solve;
\* deterministic.cu, the accumulator).
THEOREM TotalsAreOfTheRows == SolversSpec => []TotalsFollowTheRows
<1>1. (OfDeterministic => FieldInv) => TotalsFollowTheRows
  BY FieldTypes, FieldIncoherent, FieldCoherent, FieldOfItsPaths, FieldCounts, FieldCutsReported
     DEF TotalsFollowTheRows
<1>. QED BY <1>1, FieldPart, PTL

\* The hand-written companions of the accumulator are the derivative of its forward
\* pass and the transpose of that, for every row, value and output, under every
\* switch (deterministic.cu, the jvp and backward kernels).
THEOREM CompanionsDerive == SolversSpec => []CompanionsAreTheDerivative
<1>1. (OfDeterministic => FieldInv) => CompanionsAreTheDerivative
  BY FieldTypes, FieldCompanions DEF OfDeterministic, CompanionsAreTheDerivative
<1>. QED BY <1>1, FieldPart, PTL

-----------------------------------------------------------------------------
(* What a failed solve shows.                                              *)

\* A solve whose capacity does not suffice is not returned.
PathShown == step = "returned" => settings.suffices

LEMMA PathPart ==
  SolversSpec => [](In("paths") => PathShown)
<1>1. SolversInit => (In("paths") => PathShown)
  BY DEF SolversInit, In, PathShown, Path!Init
<1>2. ASSUME PathShown, [Path!Next]_Path!vars PROVE PathShown'
  BY <1>2 DEF PathShown, Path!Next, Path!vars, Path!Validate, Path!Trace, Path!AppendScattering, Path!Compact,
     Path!Pack, Path!Arrays, Path!TerminalCheck, Path!FilterByType
<1>3. (In("paths") => PathShown) /\ [SolversNext]_solversVars => (In("paths") => PathShown)'
  BY <1>2, SolversParts DEF In
<1>. QED BY <1>1, <1>3, PTL DEF SolversSpec

\* No caller is handed anything of a solve that ran out of capacity: Path and
\* Deterministic check it last, Basic blanks every map before it adds them up.
THEOREM FailedSolvesShowNothing == SolversSpec => []NothingOfAFailedSolve
<1>1. (In("basic") => BasicInv) /\ (In("paths") => PathShown) /\ (OfDeterministic => FieldInv)
        => NothingOfAFailedSolve
  BY BasicFailedShowsNothing DEF In, NothingOfAFailedSolve, PathShown, FieldInv, FieldConfigured,
     Path!NothingOfAFailedSolve, Field!NothingOfAFailedSolve
<1>. QED BY <1>1, BasicPart, PathPart, FieldPart, PTL

-----------------------------------------------------------------------------
(* Solves and subpaths of BDPT.                                            *)

\* A subpath that is asked for alone finds a solve that has not begun.
Unasked ==
  stage = "new" /\ config = Blank /\ world \in Worlds /\ samples = {} /\ SamplerInv

LEMMA BdptPart ==
  SolversSpec => []IF In("sampler") THEN Unasked ELSE Inv
<1>. USE SolversAssumption DEF SolversAssumption
<1>1. SolversInit => IF In("sampler") THEN Unasked ELSE Inv
  <2>1. SolversInit => Init
    BY DEF SolversInit, AtRest, OnlyPath, OnlyField, OnlyBasic, OnlyPass
  <2>2. Init => Inv
    BY InitInv
  <2>3. Init => Unasked
    BY SamplerInitInv DEF Init, Unasked
  <2>. QED BY <2>1, <2>2, <2>3
<1>2. ASSUME Inv, UNCHANGED vars PROVE Inv'
  BY <1>2, NextInv
<1>3. ASSUME Unasked, In("sampler"), [SolversNext]_solversVars PROVE Unasked'
  <2>1. [SamplerNext]_samplerVars /\ UNCHANGED <<stage, config, world, samples>>
    BY <1>3 DEF SolversNext, OfDeterministic, In, solversVars, vars, samplerOthers
  <2>2. SamplerInv'
    <3>1. ASSUME NEW request \in Calls, Launch(request) PROVE SamplerInv'
      BY <3>1, LaunchInv DEF Calls
    <3>. QED BY <1>3, <2>1, <3>1, SamplerStepInv, SamplerStutter DEF SamplerNext, Unasked
  <2>. QED BY <1>3, <2>1, <2>2 DEF Unasked
<1>4. ASSUME Inv, ~In("sampler"), [SolversNext]_solversVars PROVE Inv'
  <2>1. CASE In("bdpt")
    BY <1>4, <2>1, NextInv DEF SolversNext, OfDeterministic, In, solversVars
  <2>2. CASE ~In("bdpt")
    <3>1. UNCHANGED vars
      BY <1>4, <2>2 DEF SolversNext, OfDeterministic, In, solversVars, pathOthers, fieldOthers, basicOthers,
         passOthers
    <3>. QED BY <1>2, <1>4, <3>1
  <2>. QED BY <2>1, <2>2
<1>5. (IF In("sampler") THEN Unasked ELSE Inv) /\ [SolversNext]_solversVars
        => (IF In("sampler") THEN Unasked ELSE Inv)'
  BY <1>3, <1>4, SolversParts DEF In
<1>. QED BY <1>1, <1>5, PTL DEF SolversSpec

LEMMA UnaskedPromises ==
  ASSUME Unasked PROVE TypeOK /\ SubpathsArePaidOnce /\ EachPathByOneRoute
<1>1. SubpathsArePaidOnce /\ RowsAreTheSamplersOwn /\ SubpathTypes
  BY SamplerPromises DEF Unasked
<1>. QED BY <1>1 DEF Unasked, TypeOK, Stages, EachPathByOneRoute, EachPathOnce, RequestedPathsAreCounted,
       NothingUnrequested, FrozenGeometryIsRefused, PowerStaysLive, Blank

LEMMA BdptPromises ==
  SolversSpec => [](TypeOK /\ SubpathsArePaidOnce /\ EachPathByOneRoute)
<1>1. ConfigAssumption
  BY SolversAssumption DEF SolversAssumption
<1>2. (IF In("sampler") THEN Unasked ELSE Inv) => TypeOK /\ SubpathsArePaidOnce /\ EachPathByOneRoute
  BY <1>1, UnaskedPromises, SolvePromises
<1>. QED BY <1>2, BdptPart, PTL

\* Every value of a BDPT solve is one of its kind, and no row is deeper than its
\* path, beside any other solve.
THEOREM SolversTypeCorrect == SolversSpec => []TypeOK
BY BdptPromises, PTL

\* A light subpath is paid for what was drawn on its way, in a solve or alone.
THEOREM SolversPay == SolversSpec => []SubpathsArePaidOnce
BY BdptPromises, PTL

\* Enumerations and sampler divide the paths of a solve among them.
THEOREM SolversDivideThePaths == SolversSpec => []EachPathByOneRoute
BY BdptPromises, PTL
=============================================================================
