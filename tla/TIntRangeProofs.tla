-------------------------- MODULE TIntRangeProofs --------------------------
(***************************************************************************)
(* Why check_predicate may stand for the comparisons of a transaction:     *)
(* for any width of the integers, whoever finds a value in the range that  *)
(* the comparisons left would have got the same answers from it.           *)
(***************************************************************************)
EXTENDS TIntRange, TLAPS

Relations == {"==", "!=", "<", ">=", "<=", ">"}

Value == MinInt .. MaxInt

(* observe_test_eq keeps the value compared, only narrows the range, stays *)
(* within the limits of the type, and leaves no value that answers         *)
(* otherwise.                                                              *)
LEMMA ObserveEq ==
  ASSUME NEW r \in TIntRange, NEW v \in Value, NEW m \in Value, verify(r, v)
  PROVE  LET s == observe_test_eq(r, v, m) IN
         /\ s \in TIntRange /\ verify(s, v)
         /\ \A w \in Value : verify(s, w) => verify(r, w) /\ (w = m <=> v = m)
<1>1. CASE v = m
  <2>1. AtLeast(r, v) = [first |-> v, second |-> r.second]
    BY IntAssumption DEF verify, AtLeast, max, TIntRange, Value
  <2>2. observe_test_eq(r, v, m) = [first |-> v, second |-> v]
    BY <1>1, <2>1, IntAssumption DEF observe_test_eq, verify, AtMost, min, TIntRange, Value
  <2> QED
    BY <1>1, <2>2, IntAssumption DEF verify, TIntRange, Value
<1>2. CASE v < m
  BY <1>2, IntAssumption
  DEF observe_test_eq, verify, AtMost, AtLeast, max, min, TIntRange, Value
<1>3. CASE v > m
  BY <1>3, IntAssumption
  DEF observe_test_eq, verify, AtMost, AtLeast, max, min, TIntRange, Value
<1> QED
  BY <1>1, <1>2, <1>3, IntAssumption DEF Value

(* The same of observe_lt with the answer of v.                            *)
LEMMA ObserveLt ==
  ASSUME NEW r \in TIntRange, NEW v \in Value, NEW m \in Value, verify(r, v)
  PROVE  LET s == observe_lt(r, m, v < m) IN
         /\ s \in TIntRange /\ verify(s, v)
         /\ \A w \in Value : verify(s, w) => verify(r, w) /\ (w < m <=> v < m)
BY IntAssumption DEF observe_lt, verify, AtMost, AtLeast, max, min, TIntRange, Value

(* The same of observe_le with the answer of v.                            *)
LEMMA ObserveLe ==
  ASSUME NEW r \in TIntRange, NEW v \in Value, NEW m \in Value, verify(r, v)
  PROVE  LET s == observe_le(r, m, v <= m) IN
         /\ s \in TIntRange /\ verify(s, v)
         /\ \A w \in Value : verify(s, w) => verify(r, w) /\ (w <= m <=> v <= m)
BY IntAssumption DEF observe_le, verify, AtMost, AtLeast, max, min, TIntRange, Value

(* After any of the six comparisons of TIntRangeProxy, made on a value v   *)
(* that was in the range: v still is, the range has only narrowed and its  *)
(* ends have not left the integer type (value - 1 and value + 1 in         *)
(* observe_lt, observe_le and observe_test_eq do not overflow), and every  *)
(* value w that verify() accepts at the commit gives the same answer.      *)
THEOREM ComparisonsStable ==
  ASSUME NEW r \in TIntRange, NEW v \in Value, verify(r, v),
         NEW delta \in Int, NEW n \in Int, n - delta \in Value,
         NEW rel \in Relations
  PROVE  LET c == Compare(r, v, delta, rel, n) IN
         /\ c.r \in TIntRange /\ verify(c.r, v)
         /\ \A w \in Value : verify(c.r, w) =>
              verify(r, w) /\ Compare(r, w, delta, rel, n).is = c.is
<1> DEFINE m == n - delta
<1>1. m \in Value
  OBVIOUS
<1>2. CASE rel \in {"==", "!="}
  <2>1. Compare(r, v, delta, rel, n).r = observe_test_eq(r, v, m)
    BY <1>2 DEF Compare
  <2>2. \A w : Compare(r, w, delta, rel, n).is = IF rel = "==" THEN w = m ELSE ~(w = m)
    BY <1>2 DEF Compare
  <2>3. \A w \in Value : (w = m <=> v = m)
           => Compare(r, w, delta, rel, n).is = Compare(r, v, delta, rel, n).is
    BY <1>1, <2>2, IntAssumption DEF Value
  <2> HIDE DEF m
  <2> QED
    BY <1>1, <2>1, <2>3, ObserveEq
<1>3. CASE rel \in {"<", ">="}
  <2>1. Compare(r, v, delta, rel, n).r = observe_lt(r, m, v < m)
    BY <1>3 DEF Compare
  <2>2. \A w : Compare(r, w, delta, rel, n).is = IF rel = "<" THEN w < m ELSE ~(w < m)
    BY <1>3 DEF Compare
  <2>3. \A w \in Value : (w < m <=> v < m)
           => Compare(r, w, delta, rel, n).is = Compare(r, v, delta, rel, n).is
    BY <1>1, <2>2, IntAssumption DEF Value
  <2> HIDE DEF m
  <2> QED
    BY <1>1, <2>1, <2>3, ObserveLt
<1>4. CASE rel \in {"<=", ">"}
  <2>1. Compare(r, v, delta, rel, n).r = observe_le(r, m, v <= m)
    BY <1>4 DEF Compare
  <2>2. \A w : Compare(r, w, delta, rel, n).is = IF rel = "<=" THEN w <= m ELSE ~(w <= m)
    BY <1>4 DEF Compare
  <2>3. \A w \in Value : (w <= m <=> v <= m)
           => Compare(r, w, delta, rel, n).is = Compare(r, v, delta, rel, n).is
    BY <1>1, <2>2, IntAssumption DEF Value
  <2> HIDE DEF m
  <2> QED
    BY <1>1, <2>1, <2>3, ObserveLe
<1> QED
  BY <1>2, <1>3, <1>4 DEF Relations
=============================================================================
