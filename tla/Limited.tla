------------------------------ MODULE Limited ------------------------------
(***************************************************************************)
(* The limited values the simulation is made of.  Quantities are whole     *)
(* hundredths (of a unit of energy, a metre, a ratio) and round down.      *)
(* `RuntimeLimitedValue' is a record of its value and its maximum: every   *)
(* energy and life is made with the default minimum, zero.                 *)
(***************************************************************************)
EXTENDS Integers

One == 100      \* the ratio 1.0, and one unit of a quantity

Clamped(v, min, max) == IF v < min THEN min ELSE IF v > max THEN max ELSE v

Least(a, b) == IF a < b THEN a ELSE b

-----------------------------------------------------------------------------
(* NormalizedValue: a ratio in 0..One, clamped by every operation.         *)

Normalized(v) == Clamped(v, 0, One)

Part(ratio, quantity) == (ratio * quantity) \div One

NormalizedTimes(ratio, factor) == Normalized(Part(factor, ratio))

NormalizedPlus(ratio, v) == Normalized(ratio + v)

-----------------------------------------------------------------------------
(* RuntimeLimitedValue                                                     *)

Limited(v, max) == [value |-> Clamped(v, 0, max), max |-> max]

IsLimited(l) == l.value \in 0..l.max

Gain(l, q) == [l EXCEPT !.value = Clamped(@ + q, 0, l.max)]

Lose(l, q) == [l EXCEPT !.value = Clamped(@ - q, 0, l.max)]

\* max_ref() += q: the value is not clamped again, and need not be when q >= 0.
Widen(l, q) == [l EXCEPT !.max = @ + q]

IsZero(l) == l.value = 0

Remaining(l) == l.max - l.value

Ratio(l) == IF l.max = 0 THEN 0 ELSE Normalized((l.value * One) \div l.max)

-----------------------------------------------------------------------------
(* IntegerWithMax and IntegerLimited: counters that stop at their maximum. *)

Counter(v, max) == [value |-> Clamped(v, 0, max), max |-> max]

Pass(c) == IF c.value < c.max THEN [c EXCEPT !.value = @ + 1] ELSE c

CounterRatio(c) == IF c.max = 0 THEN 0 ELSE Normalized((c.value * One) \div c.max)

BornCount(max) == [value |-> 0, max |-> max]

=============================================================================
