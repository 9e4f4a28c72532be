----------------------------- MODULE TIntRange -----------------------------
(***************************************************************************)
(* TIntRange: the range an integer was observed to be in (TIntRange.hh).   *)
(* An observation that leaves no value aborts the transaction: the range   *)
(* is then empty (first > second).                                         *)
(***************************************************************************)
EXTENDS Integers

CONSTANTS MinInt, MaxInt    \* numeric_limits of the integer type

ASSUME IntAssumption == MinInt \in Int /\ MaxInt \in Int /\ MinInt <= MaxInt

TIntRange == [first : MinInt .. MaxInt, second : MinInt .. MaxInt]

unconstrained == [first |-> MinInt, second |-> MaxInt]

max(a, b) == IF a < b THEN b ELSE a
min(a, b) == IF a < b THEN a ELSE b

AtLeast(r, v) == [r EXCEPT !.first = max(@, v)]
AtMost(r, v) == [r EXCEPT !.second = min(@, v)]

verify(r, value) == r.first <= value /\ value <= r.second

empty_range(r) == r.first > r.second

observe_value(r, value) ==
  IF verify(r, value) THEN [first |-> value, second |-> value]
                      ELSE [first |-> MaxInt, second |-> MinInt]

observe_test_eq(r, value, comparison) ==
  IF value = comparison THEN AtMost(AtLeast(r, value), value)
  ELSE IF value < comparison THEN AtMost(r, comparison - 1)
  ELSE AtLeast(r, comparison + 1)

(* Mutant: the comparison is taken for <=.                                 *)
observe_lt_off(r, value, was_lt) ==
  IF was_lt THEN AtMost(r, value) ELSE AtLeast(r, value)

observe_lt(r, value, was_lt) ==
  IF was_lt THEN AtMost(r, value - 1) ELSE AtLeast(r, value)

observe_le(r, value, was_le) ==
  IF was_le THEN AtMost(r, value) ELSE AtLeast(r, value + 1)

observe_gt(r, value, was_gt) == observe_le(r, value, ~was_gt)

observe_ge(r, value, was_ge) == observe_lt(r, value, ~was_ge)

(* The six comparisons of TIntRangeProxy(r, original, delta) with n: what  *)
(* each one observes and answers.                                          *)
Compare(r, original, delta, rel, n) ==
  LET m == n - delta
      eq == [r |-> observe_test_eq(r, original, m), is |-> original = m]
      lt == [r |-> observe_lt(r, m, original < m), is |-> original < m]
      le == [r |-> observe_le(r, m, original <= m), is |-> original <= m]
      Not(c) == [c EXCEPT !.is = ~@]
  IN CASE rel = "==" -> eq [] rel = "!=" -> Not(eq)
       [] rel = "<"  -> lt [] rel = ">=" -> Not(lt)
       [] rel = "<=" -> le [] rel = ">"  -> Not(le)
=============================================================================
