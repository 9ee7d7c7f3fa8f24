--------------------------- MODULE MCScatterChains ---------------------------
(***************************************************************************)
(* What ScatterChains is checked on: two transmitters and two receivers    *)
(* around a rough floor, a rough wall and, sometimes, a phase screen; legs *)
(* over mirrors 7, 8 and 9.                                                *)
(***************************************************************************)
EXTENDS Integers, Sequences, FiniteSets, TLC

Tx(t) == <<"tx", t>>
Rx(r) == <<"rx", r>>
Nothing == <<0, -1>>   \* an empty slot

Floor == 1
Wall == 2

Seen(e, f, side, len) == [end |-> e, face |-> f, side |-> side, len |-> len]
Leg(e, f, hops, len) == [end |-> e, face |-> f, hops |-> hops, len |-> len]

\* Everybody above the floor; the second receiver behind the wall.
SightAll ==
  {Seen(Tx(0), Floor, "up", 1), Seen(Tx(1), Floor, "up", 3), Seen(Rx(0), Floor, "up", 2),
   Seen(Rx(1), Floor, "up", 2), Seen(Tx(0), Wall, "up", 2), Seen(Rx(0), Wall, "up", 4),
   Seen(Rx(1), Wall, "down", 1)}

LegsAll ==
  {Leg(Tx(0), Floor, <<7>>, 3), Leg(Tx(0), Floor, <<7, 8>>, 5), Leg(Tx(1), Wall, <<8>>, 2),
   Leg(Rx(0), Floor, <<8, 9>>, 6), Leg(Rx(1), Floor, <<9>>, 2), Leg(Rx(1), Wall, <<9, 7>>, 3)}

\* No leg, one or two, or all of them.
SomeLegs == {s \in SUBSET LegsAll : Cardinality(s) \in {0, 1, 2, 6}}

MCWorlds ==
  {[rough |-> s[1], screens |-> s[2], weak |-> s[3], sight |-> SightAll \ hidden, legs |-> legs,
    density |-> (Floor :> d @@ Wall :> 1)] :
     s \in {<<{Floor, Wall}, {}, {}>>, <<{Floor, Wall}, {Wall}, {}>>, <<{Floor, Wall}, {}, {Wall}>>,
            <<{}, {Floor}, {}>>, <<{}, {}, {}>>},
     hidden \in {{}, {Seen(Tx(0), Floor, "up", 1)}, {Seen(Rx(1), Floor, "up", 2), Seen(Rx(0), Wall, "up", 4)}},
     legs \in SomeLegs, d \in 1..2}

Direct(t, r, n) == [tx |-> t, rx |-> r, depth |-> 0, slots |-> [k \in 1..n |-> Nothing], of |-> "los"]
Mirror(t, r) == [tx |-> t, rx |-> r, depth |-> 1, slots |-> <<<<1, 7>>>>, of |-> "mirror"]

Plain == [base |-> <<Direct(0, 0, 0), Direct(1, 1, 0)>>, width |-> 0, cap |-> 4, chain |-> 0,
          rows |-> 4, ad |-> FALSE, rays |-> TRUE]

MCJobs ==
  {[Plain EXCEPT !.chain = c[1], !.rows = c[2], !.cap = c[3]] :
     c \in {<<0, 4, 4>>, <<1, 4, 2>>, <<4, 6, 1>>, <<2, 1, 4>>}}
  \cup {[Plain EXCEPT !.base = <<Direct(0, 0, 1), Mirror(1, 0)>>, !.width = 1, !.chain = 3, !.rows = 2],
        [Plain EXCEPT !.base = <<>>, !.chain = 1, !.ad = TRUE],
        [Plain EXCEPT !.chain = 1, !.rays = FALSE]}

MCGain(t, r, f) == 1 + ((t + 2 * r + 2 * f) % 3)

=============================================================================
