---------------------------- MODULE Interpolation ----------------------------
(***************************************************************************)
(* LinearVoltageInterpolator and CubicSplineVoltageInterpolator, in exact  *)
(* fractions where the code has floats.  A table is a sequence of          *)
(* [voltage, value] with rising voltages, which is what the binary         *)
(* searches of the code take for granted.  Interpolation gives             *)
(* [ok |-> FALSE] where the code reads outside its table.                  *)
(***************************************************************************)
EXTENDS Fractions, Sequences, FiniteSets

Inside(x) == [ok |-> TRUE, v |-> x]
Outside == [ok |-> FALSE]
Points(table) == [i \in DOMAIN table |->
                    [voltage |-> Whole(table[i].voltage), value |-> Whole(table[i].value)]]

\* lower_bound and upper_bound: how many points lie below (not above) a voltage.
Below(table, voltage) == Cardinality({i \in DOMAIN table : Less(table[i].voltage, voltage)})
NotAbove(table, voltage) == Cardinality({i \in DOMAIN table : AtMost(table[i].voltage, voltage)})

Clamps(table, voltage) ==
  AtMost(voltage, table[1].voltage) \/ AtMost(table[Len(table)].voltage, voltage)
Clamped(table, voltage) ==
  IF AtMost(voltage, table[1].voltage) THEN table[1].value ELSE table[Len(table)].value
-----------------------------------------------------------------------------
Linear(table, voltage, clamp) ==
  IF clamp /\ Clamps(table, voltage) THEN Inside(Clamped(table, voltage))
  ELSE
    LET lower == Below(table, voltage)
        upper == lower + 1
        a == table[lower]
        b == table[upper]
    IN IF lower = 0 \/ upper > Len(table) THEN Outside
       ELSE Inside(Plus(a.value,
                        Times(Over(Minus(voltage, a.voltage), Minus(b.voltage, a.voltage)),
                              Minus(b.value, a.value))))
-----------------------------------------------------------------------------
(***************************************************************************)
(* The coefficients of the natural spline, as its constructor computes     *)
(* them: forward through l, mu and z, then backward through c, b and d.    *)
(* The code counts from 0, this module from 1.                             *)
(***************************************************************************)
H(table, i) == Minus(table[i + 1].voltage, table[i].voltage)
\* Mutant: both rises over the same interval's width.
AlphaOneWidth(table, i) ==
  LET rise(j) == Times(Over(Whole(3), H(table, i)), Minus(table[j + 1].value, table[j].value)) IN
  Minus(rise(i), rise(i - 1))
Alpha(table, i) ==
  LET rise(j) == Times(Over(Whole(3), H(table, j)), Minus(table[j + 1].value, table[j].value)) IN
  Minus(rise(i), rise(i - 1))

Forward(table) ==
  LET n == Len(table)
      f[i \in 1 .. n] ==
        IF i = 1 \/ i = n THEN [mu |-> Whole(0), z |-> Whole(0)]
        ELSE
          LET before == f[i - 1]
              l == Minus(Times(Whole(2), Minus(table[i + 1].voltage, table[i - 1].voltage)),
                         Times(H(table, i - 1), before.mu))
          IN [mu |-> Over(H(table, i), l),
              z |-> Over(Minus(Alpha(table, i), Times(H(table, i - 1), before.z)), l)]
  IN f

Curvature(table) ==
  LET n == Len(table)
      forward == Forward(table)
      c[j \in 1 .. n] ==
        IF j = n THEN Whole(0) ELSE Minus(forward[j].z, Times(forward[j].mu, c[j + 1]))
  IN c

Segments(table) ==
  LET Bent(c) ==
        [j \in 1 .. Len(table) - 1 |->
           [a |-> table[j].value,
            b |-> Minus(Over(Minus(table[j + 1].value, table[j].value), H(table, j)),
                        Over(Times(H(table, j), Plus(c[j + 1], Times(Whole(2), c[j]))), Whole(3))),
            c |-> c[j],
            d |-> Over(Minus(c[j + 1], c[j]), Times(Whole(3), H(table, j)))]]
  IN Bent(Curvature(table))

Polynomial(s, dx) ==
  Plus(s.a, Times(dx, Plus(s.b, Times(dx, Plus(s.c, Times(dx, s.d))))))
Slope(s, dx) ==
  Plus(s.b, Times(dx, Plus(Times(Whole(2), s.c), Times(Whole(3), Times(dx, s.d)))))

CubicSpline(table, voltage, clamp) ==
  IF clamp /\ Clamps(table, voltage) THEN Inside(Clamped(table, voltage))
  ELSE LET i == NotAbove(table, voltage) IN
       IF i \notin 1 .. Len(table) - 1 THEN Outside
       ELSE Inside(Polynomial(Segments(table)[i], Minus(voltage, table[i].voltage)))

Interpolate(method, table, voltage, clamp) ==
  IF method = "LINEAR" THEN Linear(table, voltage, clamp)
  ELSE CubicSpline(table, voltage, clamp)
=============================================================================
