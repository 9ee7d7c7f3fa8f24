------------------------- MODULE FieldAccumulation -------------------------
(***************************************************************************)
(* The accumulator of the deterministic solver (kernels/deterministic.py,  *)
(* native/channel/kernels/deterministic.cu): the fields and powers of the  *)
(* paths are added up cell by cell in six slots, the slots are combined,   *)
(* and the combination is differentiated in both directions. Fields are    *)
(* Gaussian integers. The square root of the incoherent pseudo-field is    *)
(* never taken: the pseudo-field stands as its square, and its tangent and *)
(* cotangent are counted in units of twice its root.                       *)
(***************************************************************************)
EXTENDS Integers, Sequences, FiniteSets, FiniteSetsExt

CONSTANTS
  Transmitters,  \* number of transmitters
  Receivers      \* number of receivers, the cells of a grid counted one by one

Slots == 0..5
ScatteringSlot == 4
FieldSlots == Slots \ {ScatteringSlot}
Cells == (0..Transmitters - 1) \X (0..Receivers - 1)

\* The slot of a component id, -1 for an id that is dropped.
SlotOf(id) ==
  IF id \in 0..2 THEN id
  ELSE IF id \in {3, 4, 7} THEN 5
  ELSE IF id = 5 THEN 3
  ELSE IF id = 6 THEN ScatteringSlot
  ELSE -1

\* The rows of a slot in a cell.
At(rows, slot, cell) ==
  {k \in DOMAIN rows : rows[k].valid /\ SlotOf(rows[k].id) = slot /\ <<rows[k].tx, rows[k].rx>> = cell}

\* A column of the rows added up, slot by slot, in one cell.
Scattered(rows, values, cell) ==
  [s \in Slots |-> SumFunctionOnSet(values, At(rows, s, cell))]

Column(rows, name) == [k \in DOMAIN rows |-> rows[k][name]]
OverSlots(S, f) == SumFunctionOnSet(f, S)

\* Slots whose power is the square of their field and not a sum of powers.
SquaredSlots(mode) ==
  (IF mode.coherent THEN FieldSlots ELSE {}) \cup (IF mode.scattering THEN {ScatteringSlot} ELSE {})

-----------------------------------------------------------------------------
(* Forward *)

\* Mutant of Finalized: a coherent solve adds the scattered field to the rest.
FinalizedWithScattering(gain, re, im, mode) ==
  LET power == [s \in Slots |-> IF s \in SquaredSlots(mode) THEN re[s] * re[s] + im[s] * im[s] ELSE gain[s]]
      sum == <<OverSlots(Slots, re), OverSlots(Slots, im)>>
  IN [power |-> power, re |-> re, im |-> im,
      total |-> IF mode.coherent
                  THEN sum[1] * sum[1] + sum[2] * sum[2] + power[ScatteringSlot]
                  ELSE OverSlots(Slots, power),
      field |-> IF mode.coherent THEN sum ELSE <<0, 0>>,
      square |-> IF mode.coherent THEN 0 ELSE Max({0, OverSlots(Slots, power)})]

\* Mutant of Finalized: a coherent solve forgets the scattered power.
FinalizedWithoutScattering(gain, re, im, mode) ==
  LET power == [s \in Slots |-> IF s \in SquaredSlots(mode) THEN re[s] * re[s] + im[s] * im[s] ELSE gain[s]]
      sum == <<OverSlots(FieldSlots, re), OverSlots(FieldSlots, im)>>
  IN [power |-> power, re |-> re, im |-> im,
      total |-> IF mode.coherent THEN sum[1] * sum[1] + sum[2] * sum[2] ELSE OverSlots(Slots, power),
      field |-> IF mode.coherent THEN sum ELSE <<0, 0>>,
      square |-> IF mode.coherent THEN 0 ELSE Max({0, OverSlots(Slots, power)})]

\* A cell after the slots are combined.
Finalized(gain, re, im, mode) ==
  LET power == [s \in Slots |-> IF s \in SquaredSlots(mode) THEN re[s] * re[s] + im[s] * im[s] ELSE gain[s]]
      sum == <<OverSlots(FieldSlots, re), OverSlots(FieldSlots, im)>>
  IN [power |-> power, re |-> re, im |-> im,
      total |-> IF mode.coherent
                  THEN sum[1] * sum[1] + sum[2] * sum[2] + power[ScatteringSlot]
                  ELSE OverSlots(Slots, power),
      field |-> IF mode.coherent THEN sum ELSE <<0, 0>>,
      square |-> IF mode.coherent THEN 0 ELSE Max({0, OverSlots(Slots, power)})]

Accumulated(rows, mode) ==
  [c \in Cells |->
     Finalized(Scattered(rows, Column(rows, "gain"), c), Scattered(rows, Column(rows, "re"), c),
               Scattered(rows, Column(rows, "im"), c), mode)]

-----------------------------------------------------------------------------
(* Forward mode *)

\* Mutant of TangentScatters: coherent solves drop every tangent of a power.
TangentScattersFieldsOnly(s, mode) == ~mode.coherent

\* The tangent of a power is added only where the slot's power is a sum of powers.
TangentScatters(s, mode) == IF s = ScatteringSlot THEN ~mode.scattering ELSE ~mode.coherent

\* The tangents of a cell for the tangents of the rows, at the saved forward values.
Pushed(rows, out, tangent, mode, cell) ==
  LET gain == Scattered(rows, Column(tangent, "gain"), cell)
      re == Scattered(rows, Column(tangent, "re"), cell)
      im == Scattered(rows, Column(tangent, "im"), cell)
      at == out[cell]
      power == [s \in Slots |->
                  IF s \in SquaredSlots(mode) THEN 2 * (at.re[s] * re[s] + at.im[s] * im[s])
                  ELSE IF TangentScatters(s, mode) THEN gain[s] ELSE 0]
      field == <<OverSlots(FieldSlots, re), OverSlots(FieldSlots, im)>>
      primal == <<OverSlots(FieldSlots, at.re), OverSlots(FieldSlots, at.im)>>
  IN [power |-> power, re |-> re, im |-> im,
      total |-> IF mode.coherent
                  THEN 2 * (primal[1] * field[1] + primal[2] * field[2]) + power[ScatteringSlot]
                  ELSE OverSlots(Slots, power),
      field |-> IF mode.coherent THEN field ELSE <<0, 0>>,
      square |-> IF ~mode.coherent /\ at.total > 0 THEN OverSlots(Slots, power) ELSE 0]

-----------------------------------------------------------------------------
(* Reverse mode *)

\* Mutant of Gathered: scattered fields combined coherently inside an incoherent
\* solve send nothing back from the pseudo-field.
GatheredWithoutRoot(row, out, cotangent, mode) ==
  LET s == SlotOf(row.id)  cell == <<row.tx, row.rx>>  at == out[cell]  g == cotangent[cell]
      summed == g.total + (IF ~mode.coherent /\ at.total > 0 /\ s \notin SquaredSlots(mode) THEN g.square ELSE 0)
      own == g.power[s] + (IF s \in FieldSlots /\ mode.coherent THEN 0 ELSE summed)
      total == IF s \in FieldSlots /\ mode.coherent THEN g.total ELSE 0
  IN IF ~row.valid THEN [gain |-> 0, re |-> 0, im |-> 0]
     ELSE IF s \in SquaredSlots(mode)
     THEN [gain |-> 0,
           re |-> g.re[s] + 2 * at.re[s] * own + 2 * at.field[1] * total + (IF s \in FieldSlots THEN g.field[1] ELSE 0),
           im |-> g.im[s] + 2 * at.im[s] * own + 2 * at.field[2] * total + (IF s \in FieldSlots THEN g.field[2] ELSE 0)]
     ELSE [gain |-> own, re |-> g.re[s], im |-> g.im[s]]

\* What a row receives: the square of a slot sends back through its field, a sum of
\* powers through its power, and the coherent total through the field of every slot.
Gathered(row, out, cotangent, mode) ==
  LET s == SlotOf(row.id)  cell == <<row.tx, row.rx>>  at == out[cell]  g == cotangent[cell]
      summed == g.total + (IF ~mode.coherent /\ at.total > 0 THEN g.square ELSE 0)
      own == g.power[s] + (IF s \in FieldSlots /\ mode.coherent THEN 0 ELSE summed)
      total == IF s \in FieldSlots /\ mode.coherent THEN g.total ELSE 0
  IN IF ~row.valid THEN [gain |-> 0, re |-> 0, im |-> 0]
     ELSE IF s \in SquaredSlots(mode)
     THEN [gain |-> 0,
           re |-> g.re[s] + 2 * at.re[s] * own + 2 * at.field[1] * total + (IF s \in FieldSlots THEN g.field[1] ELSE 0),
           im |-> g.im[s] + 2 * at.im[s] * own + 2 * at.field[2] * total + (IF s \in FieldSlots THEN g.field[2] ELSE 0)]
     ELSE [gain |-> own, re |-> g.re[s], im |-> g.im[s]]

Jvp(rows, out, tangent, mode) == [c \in Cells |-> Pushed(rows, out, tangent, mode, c)]
Backward(rows, out, cotangent, mode) == [k \in DOMAIN rows |-> Gathered(rows[k], out, cotangent, mode)]

-----------------------------------------------------------------------------
(* Laws of the accumulator, stated of given rows *)

Inputs(rows) == (DOMAIN rows) \X {"gain", "re", "im"}
NoTangent(rows) == [k \in DOMAIN rows |-> [gain |-> 0, re |-> 0, im |-> 0]]
UnitTangent(rows, x) == [NoTangent(rows) EXCEPT ![x[1]][x[2]] = 1]
Moved(rows, x, d) == [rows EXCEPT ![x[1]][x[2]] = @ + d]

\* The scalar outputs of a cell.
Outputs ==
  ({"power", "re", "im"} \X Slots) \cup ({"field"} \X {1, 2}) \cup ({"total", "square"} \X {0})
Read(cell, o) == IF o[1] \in {"total", "square"} THEN cell[o[1]] ELSE cell[o[1]][o[2]]
NoCotangent ==
  [c \in Cells |-> [power |-> [s \in Slots |-> 0], re |-> [s \in Slots |-> 0],
                    im |-> [s \in Slots |-> 0], total |-> 0, field |-> <<0, 0>>, square |-> 0]]
UnitCotangent(c, o) ==
  IF o[1] \in {"total", "square"} THEN [NoCotangent EXCEPT ![c][o[1]] = 1]
  ELSE [NoCotangent EXCEPT ![c][o[1]][o[2]] = 1]

\* Every output is of the second degree at most, so a centred difference is its
\* derivative; the root at zero power is left out.
TangentsAreDerivatives(rows, mode) ==
  LET out == Accumulated(rows, mode) IN
  \A x \in Inputs(rows) :
    LET c == <<rows[x[1]].tx, rows[x[1]].rx>>
        up == Accumulated(Moved(rows, x, 1), mode)[c]
        down == Accumulated(Moved(rows, x, -1), mode)[c]
        t == Jvp(rows, out, UnitTangent(rows, x), mode)[c]
    IN \A o \in Outputs :
         (o[1] = "square" => out[c].total # 0) => 2 * Read(t, o) = Read(up, o) - Read(down, o)

\* Reverse mode is the transpose of forward mode, entry by entry.
GradientsAreTransposed(rows, mode) ==
  LET out == Accumulated(rows, mode) IN
  \A x \in Inputs(rows) :
    LET c == <<rows[x[1]].tx, rows[x[1]].rx>>
        t == Jvp(rows, out, UnitTangent(rows, x), mode)[c]
    IN \A o \in Outputs :
         (o[1] = "field" => mode.coherent) =>
           Backward(rows, out, UnitCotangent(c, o), mode)[x[1]][x[2]] = Read(t, o)

=============================================================================
