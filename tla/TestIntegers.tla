---------------------------- MODULE TestIntegers ----------------------------
(***************************************************************************)
(* unit-tgeneric.cc, unit-tbox.cc, unit-tarray.cc, unit-tintpredicate.cc   *)
(* and unit-tcounter.cc.                                                   *)
(***************************************************************************)
EXTENDS TestScript

-----------------------------------------------------------------------------
(* unit-tgeneric.cc.  Two ints of an array share an 8-byte word, and with  *)
(* it a version; so do the fields of a small struct.                       *)

Ints(opaque) ==
  [f |-> G!NewWords(opaque, [i \in 0 .. 9 |-> i \div 2], [i \in 0 .. 9 |-> i])]

generic_testSimpleInt ==
  Test([f |-> G!NewWords(TRUE, [i \in {0} |-> 0], [i \in {0} |-> 0])],
    Guard(<<Put1(0, 100)>>) \o Guard(<<Get(0, 100)>>) \o Peek("get", <<0>>, 100))

generic_testOpacity1 ==
  Test(Ints(TRUE),
    T(1, <<Get(3, 3)>>) \o T(2, <<Put1(3, 2), Put1(4, 6)>>) \o Commits(2)
    \o Use(1, <<Aborts(Get(4, 6))>>) \o Guard(<<Get(4, 6)>>) \o Peek("get", <<4>>, 6))

generic_testNoOpacity1 ==
  Test(Ints(FALSE),
    T(1, <<Get(3, 3)>>) \o T(2, <<Put1(3, 2), Put1(4, 6)>>) \o Commits(2)
    \o Use(1, <<Get(4, 6)>>) \o Fails(1) \o Guard(<<Get(4, 6)>>) \o Peek("get", <<4>>, 6))

generic_testVariableSizes ==
  LET foo == [a |-> 100, b |-> 1, c |-> 2, d |-> 3]
      Holds(m) == Peek("get", <<"a">>, m.a) \o Peek("get", <<"b">>, m.b)
                  \o Peek("get", <<"c">>, m.c) \o Peek("get", <<"d">>, m.d)
  IN Test([f |-> G!NewWords(TRUE, [k \in DOMAIN foo |-> 0], foo)],
       T(1, <<Get("a", 100), Get("b", 1), Put1("b", 10), Put1("a", 10000), Put1("d", 99)>>)
       \o Holds(foo)
       \o Use(1, <<Get("a", 10000), Get("b", 10), Get("c", 2), Get("d", 99)>>)
       \o Commits(1) \o Holds([a |-> 10000, b |-> 10, c |-> 2, d |-> 99]))

-----------------------------------------------------------------------------
(* unit-tbox.cc                                                            *)

Boxes(opaque, names) == [b \in names |-> B!NewArray(opaque, <<0>>)]

Write(v) == Put1(0, v)
Read(v) == Get(0, v)

box_testSimpleInt == Test(Boxes(TRUE, {"f"}), Guard(<<Write(100)>>) \o Guard(<<Read(100)>>))

box_testSimpleString ==
  Test([f |-> B!NewArray(TRUE, <<"">>)], Guard(<<Write("100")>>) \o Guard(<<Read("100")>>))

box_testConcurrentInt ==
  Test(Boxes(TRUE, {"f", "box"}),
    T(1, <<Read(0), NotReadOnly>>) \o T(2, <<Write(1)>>) \o Commits(2) \o Fails(1)
    \o T(1, <<Write(1)>>) \o T(2, <<Write(2)>>) \o Commits(2) \o Commits(1)
    \o Peek("get", <<0>>, 1) \o Poke(<<0>>, 2)
    \o T(1, <<Read(2), NotReadOnly>>) \o T(2, <<Write(0)>>) \o Commits(2)
    \o T(3, <<Write(2)>>) \o Commits(3) \o Fails(1))

box_testOpacity1 ==
  Test(Boxes(TRUE, {"f", "g", "box"}),
    Poke(<<0>>, 3) \o T(1, <<Read(3), NotReadOnly>>)
    \o T(2, <<Write(2), Of("g", Write(4))>>) \o Commits(2)
    \o Use(1, <<Aborts(Of("g", Read(4)))>>) \o Guard(<<Read(2)>>))

box_testNoOpacity1 ==
  Test(Boxes(FALSE, {"f", "g", "box"}),
    Poke(<<0>>, 3) \o T(1, <<Read(3), NotReadOnly>>)
    \o T(2, <<Write(2), Of("g", Write(4))>>) \o Commits(2)
    \o Use(1, <<Of("g", Read(4))>>) \o Fails(1) \o Guard(<<Read(2)>>))

(* Up to the values that are moved or aliased by a StringWrapper.          *)
box_testStringWrapper ==
  LET Is(v) == Peek("get", <<0>>, v)
      Assign(old, v) == T(Main, <<Write(v), Read(v)>>) \o Is(old) \o Commits(Main) \o Is(v)
  IN Test([f |-> B!NewArray(TRUE, <<"">>)],
       Guard(<<Write("100")>>) \o Is("100") \o Assign("100", "200") \o Assign("200", "300")
       \o Assign("300", "400") \o Assign("400", "500"))

-----------------------------------------------------------------------------
(* unit-tarray.cc.  Iterators are plain positions.                         *)

Zeros == B!NewArray(TRUE, [i \in 1 .. 4 |-> 0])
Digits(opaque) == B!NewArray(opaque, [i \in 1 .. 10 |-> i - 1])
DigitsAndBox == [f |-> Digits(TRUE), box |-> B!NewArray(TRUE, <<0>>)]

(* std::max_element of increasing values, std::replace of 4 by 6.          *)
MaxOfDigits == Each(1, 10, LAMBDA i : <<Get(i - 1, i - 1), Get(i, i)>>)

ReplaceWhen(Value(_)) ==
  Each(0, 10, LAMBDA i : <<Get(i, Value(i))>> \o IF i = 4 THEN <<Put1(4, 6)>> ELSE <<>>)

ReplaceDigits == ReplaceWhen(LAMBDA i : i)

array_testSimpleInt ==
  Test([f |-> Zeros], Guard(<<Put1(1, 100)>>) \o Guard(<<Get(1, 100)>>))

array_testSimpleString ==
  Test([f |-> B!NewArray(TRUE, <<"", "">>)],
    Guard(<<Put1(1, "100")>>) \o Guard(<<Get(1, "100")>>))

array_testIter == Test([f |-> Digits(TRUE)], Guard(MaxOfDigits \o <<Get(9, 9)>>))

array_testTicToc0 ==
  Test([f |-> Digits(FALSE)],
    T(1, <<Get(4, 4)>>) \o T(2, <<Put1(4, 5)>>) \o Commits(2)
    \o Use(1, <<Get(5, 5)>>) \o Fails(1))

array_testConflictingIter ==
  Test(DigitsAndBox,
    T(1, MaxOfDigits \o <<NotReadOnly>>) \o T(2, <<Put1(4, 10)>>) \o Commits(2) \o Fails(1))

array_testModifyingIter ==
  Test(DigitsAndBox, Guard(ReplaceDigits) \o Guard(<<Get(4, 6)>>))

array_testConflictingModifyIter1 ==
  Test(DigitsAndBox,
    T(1, ReplaceDigits) \o T(2, <<Put1(4, 10)>>) \o Commits(2) \o Fails(1)
    \o Guard(<<Get(4, 10)>>))

array_testConflictingModifyIter2 ==
  Test(DigitsAndBox,
    Guard(ReplaceDigits) \o Guard(<<Put1(4, 10)>>) \o Guard(<<Get(4, 10)>>))

array_testConflictingModifyIter3 ==
  Test(DigitsAndBox,
    T(1, <<Get(4, 4), NotReadOnly>>) \o T(2, ReplaceDigits) \o Commits(2) \o Fails(1)
    \o Guard(<<Get(4, 6)>>))

ReplaceAfterWrite == ReplaceWhen(LAMBDA i : IF i = 3 THEN 2 ELSE i)

array_testOpacity1 ==
  Test([f |-> Digits(TRUE)],
    T(1, <<Get(3, 3)>>) \o T(2, <<Put1(3, 2)>> \o ReplaceAfterWrite) \o Commits(2)
    \o Use(1, <<Aborts(Get(4, 6))>>) \o Guard(<<Get(4, 6)>>))

array_testNoOpacity1 ==
  Test([f |-> Digits(FALSE)],
    T(1, <<Get(3, 3)>>) \o T(2, <<Put1(3, 2)>> \o ReplaceAfterWrite) \o Commits(2)
    \o Use(1, <<Get(4, 6)>>) \o Fails(1) \o Guard(<<Get(4, 6)>>))

-----------------------------------------------------------------------------
(* unit-tintpredicate.cc.  A TIntPredicate is nonopaque unless told.       *)

Assign(v) == Does("put", <<v>>, Nothing)
Is(rel, n, b) == Does("is", <<rel, n>>, b)
Add(n) == Does("add", <<n>>, Nothing)

IntAndBox(kind, opaque) ==
  [f |-> I!NewInt(kind, opaque, 0), box |-> B!NewArray(TRUE, <<0>>)]

(* Thread 1 compares, thread 2 assigns v and commits.                      *)
Race(comparisons, v) ==
  T(1, comparisons \o <<NotReadOnly>>) \o T(2, <<Assign(v)>>) \o Commits(2)

predicate_testTrivial ==
  Test(IntAndBox("TIntPredicate", FALSE),
    Guard(<<Assign(1)>>) \o Guard(<<Does("get", <<>>, 1)>>))

predicate_testSimpleRangesOk ==
  LET Between == <<Is(">=", 0, TRUE), Is("<", 4, TRUE)>> IN
  Test(IntAndBox("TIntPredicate", FALSE),
    Race(<<Is("<", 3, TRUE)>>, 1) \o Commits(1)
    \o Race(<<Is("<", 0, FALSE)>>, 0) \o Commits(1)
    \o Race(<<Is(">", -1, TRUE)>>, -1) \o Fails(1)
    \o Race(<<Is(">", 0, FALSE)>>, 0) \o Commits(1)
    \o Race(Between, 3) \o Commits(1) \o Race(Between, -1) \o Fails(1)
    \o Poke(<<>>, 3) \o Race(Between, 4) \o Fails(1)
    \o Race(<<Is(">", -4, TRUE)>>, -1) \o Commits(1)
    \o Poke(<<>>, 1) \o Race(<<Is("==", 1, TRUE)>>, 2)
    \o T(2, <<Assign(1)>>) \o Commits(2) \o Commits(1))

predicate_testSimpleRangesFail ==
  Test(IntAndBox("TIntPredicate", FALSE),
    Race(<<Is("<", 3, TRUE)>>, 5) \o Fails(1)
    \o Poke(<<>>, 0) \o Race(<<Is("<", 3, TRUE)>>, 5)
    \o Use(1, <<Is(">", 1, AnyValue)>>) \o Fails(1)
    \o Poke(<<>>, 0) \o Race(<<Is("<", 3, TRUE)>>, 5) \o Use(1, <<Is(">", 1, TRUE)>>)
    \o T(2, <<Assign(2)>>) \o Commits(2) \o Commits(1)
    \o Poke(<<>>, 4) \o Race(<<Is(">", 1, TRUE)>>, 0) \o Use(1, <<Aborts(Is("<", 1, TRUE))>>))

-----------------------------------------------------------------------------
(* unit-tcounter.cc                                                        *)

counter_testTrivial ==
  Test(IntAndBox("TCounter", TRUE), Guard(<<Assign(1)>>) \o Guard(<<Does("get", <<>>, 1)>>))

(* Four updates commit in every order.                                     *)
counter_testConcurrentUpdate ==
  LET Round(a, b, c) ==
        Poke(<<>>, 0)
        \o T(1, <<Add(1)>>) \o T(2, <<Add(1)>>) \o T(3, <<Add(-1)>>) \o T(4, <<Add(5)>>)
        \o Commits(a) \o Commits(b) \o Commits(c) \o Commits(10 - a - b - c)
        \o Peek("get", <<>>, 6)
      Rounds ==
        Each(1, 5, LAMBDA a : Each(1, 5, LAMBDA b : Each(1, 5, LAMBDA c :
          IF Cardinality({a, b, c}) = 3 THEN Round(a, b, c) ELSE <<>>)))
  IN Test(IntAndBox("TCounter", TRUE),
       Rounds \o T(1, <<Is(">=", 4, TRUE), Add(4)>>) \o T(2, <<Add(-2)>>) \o Commits(2)
       \o Use(1, <<Is(">=", 8, TRUE)>>) \o Commits(1) \o Peek("get", <<>>, 8))

counter_testSimpleRangesOk ==
  Test(IntAndBox("TCounter", TRUE),
    T(1, <<Add(1)>>) \o T(2, <<Assign(1)>>) \o Commits(2) \o Commits(1)
    \o Race(<<Is(">", -4, TRUE)>>, -1) \o Commits(1)
    \o Poke(<<>>, 1) \o Race(<<Is("==", 1, TRUE)>>, 2)
    \o T(2, <<Assign(1)>>) \o Commits(2) \o Commits(1))

counter_testSimpleRangesFail ==
  Test(IntAndBox("TCounter", TRUE),
    Race(<<Is("<", 3, TRUE)>>, 5) \o Fails(1)
    \o Poke(<<>>, 0) \o Race(<<Is("<", 3, TRUE)>>, 5) \o Use(1, <<Aborts(Is(">", 1, TRUE))>>)
    \o Poke(<<>>, 0) \o Race(<<Is("<", 3, TRUE)>>, 5) \o Use(1, <<Aborts(Is(">", 1, TRUE))>>)
    \o Poke(<<>>, 4) \o Race(<<Is(">", 1, TRUE)>>, 0) \o Use(1, <<Aborts(Is("<", 1, TRUE))>>))

counter_testSimpleRangesFailNoOpacity ==
  Test(IntAndBox("TCounter", FALSE),
    Race(<<Is("<", 3, TRUE)>>, 5) \o Fails(1)
    \o Poke(<<>>, 0) \o Race(<<Is("<", 3, TRUE)>>, 5)
    \o Use(1, <<Is(">", 1, AnyValue)>>) \o Fails(1)
    \o Poke(<<>>, 0) \o Race(<<Is("<", 3, TRUE)>>, 5) \o Use(1, <<Is(">", 1, TRUE)>>)
    \o T(2, <<Assign(2)>>) \o Commits(2) \o Commits(1)
    \* the last assertion is not reached: the comparison leaves no value
    \o Poke(<<>>, 4) \o Race(<<Is(">", 1, TRUE)>>, 0) \o Use(1, <<Aborts(Is("<", 1, TRUE))>>))

counter_testUpdateRead ==
  LET Round(v) == T(1, <<Add(1), Is(">", 0, TRUE)>>) \o T(2, <<Assign(v)>>) \o Commits(2) IN
  Test(IntAndBox("TCounter", TRUE),
    Round(1) \o Commits(1) \o Peek("get", <<>>, 2) \o Round(-1) \o Fails(1)
    \o Peek("get", <<>>, -1))

Counters(opaque) ==
  [f |-> I!NewInt("TCounter", opaque, 0), g |-> I!NewInt("TCounter", opaque, 0)]

counter_testOpacity ==
  Test(Counters(TRUE),
    T(1, <<Add(1), Is(">", 0, TRUE)>>) \o T(2, <<Of("g", Assign(5)), Add(-1)>>) \o Commits(2)
    \o Use(1, <<Aborts(Of("g", Is(">", 4, TRUE)))>>) \o Guard(<<Of("g", Is(">", 4, TRUE))>>))

counter_testNoOpacity ==
  Test(Counters(FALSE),
    T(1, <<Add(1), Is(">", 0, TRUE)>>) \o T(2, <<Of("g", Assign(5)), Add(-1)>>) \o Commits(2)
    \o Use(1, <<Of("g", Is(">", 4, TRUE))>>) \o Fails(1) \o Guard(<<Of("g", Is(">", 4, TRUE))>>))

IntegerTests ==
  <<generic_testSimpleInt, generic_testOpacity1, generic_testNoOpacity1,
    generic_testVariableSizes, box_testSimpleInt, box_testSimpleString,
    box_testConcurrentInt, box_testOpacity1, box_testNoOpacity1, box_testStringWrapper,
    array_testSimpleInt, array_testSimpleString, array_testIter, array_testTicToc0,
    array_testConflictingIter, array_testModifyingIter, array_testConflictingModifyIter1,
    array_testConflictingModifyIter2, array_testConflictingModifyIter3,
    array_testOpacity1, array_testNoOpacity1, predicate_testTrivial,
    predicate_testSimpleRangesOk, predicate_testSimpleRangesFail, counter_testTrivial,
    counter_testConcurrentUpdate, counter_testSimpleRangesOk, counter_testSimpleRangesFail,
    counter_testSimpleRangesFailNoOpacity, counter_testUpdateRead, counter_testOpacity,
    counter_testNoOpacity>>
=============================================================================
