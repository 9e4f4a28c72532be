---------------------------- MODULE TestTVector ----------------------------
(***************************************************************************)
(* unit-tvector.cc.  A test takes the empty vector it works on, because    *)
(* unit-tvector-nopred.cc repeats most of the tests for TVector_nopred;    *)
(* predicates tells whether a size that was only compared may change.      *)
(***************************************************************************)
EXTENDS TestScript

Box == B!NewArray(TRUE, <<0>>)

Objects(f) == [f |-> f, box |-> Box]

Capacity == 14    \* enough for every test; the code starts with 128

Opaque == V!NewVector(TRUE, Capacity, <<>>)
Nonopaque == V!NewVector(FALSE, Capacity, <<>>)

Push(v) == Does("push_back", <<v>>, Nothing)
Pop == Does("pop_back", <<>>, Nothing)
Erase(i) == Does("erase", <<i>>, Nothing)
Insert(i, v) == Does("insert", <<i, v>>, Nothing)
SizeIs(rel, n, b) == Does("size_is", <<rel, n>>, b)
IsEnd(i, b) == Does("iter_eq_end", <<i>>, b)

Guards(s) == Guard(For(1, Len(s) + 1, LAMBDA i : Push(s[i])))

Upto(n) == Guard(For(0, n, Push))

Reads(s) == For(0, Len(s), LAMBDA i : Get(i, s[i + 1]))

(* while (f.size() > n) f.pop_back(), the size being m; and its converse.  *)
Shrink(m, n) ==
  Each(n, m, LAMBDA i : <<SizeIs(">", n, TRUE), Pop>>) \o <<SizeIs(">", n, FALSE)>>

Grow(m, n) ==
  Each(m, n, LAMBDA i : <<SizeIs("<", n, TRUE), Does("size", <<>>, i), Push(i)>>)
  \o <<SizeIs("<", n, FALSE)>>

(* std::max_element(f.begin(), f.end()) and std::replace(..., a, b) when f *)
(* is s: what libstdc++ makes of them.                                     *)
Best(s, i) == CHOOSE j \in 1 .. i : /\ \A k \in 1 .. i : s[k] <= s[j]
                                    /\ \A k \in 1 .. j - 1 : s[k] < s[j]

MaxElement(s) ==
  <<IsEnd(0, FALSE)>>
  \o Each(1, Len(s), LAMBDA i : <<IsEnd(i, FALSE), Get(Best(s, i) - 1, s[Best(s, i)]),
                                  Get(i, s[i + 1])>>)
  \o <<IsEnd(Len(s), TRUE)>>

Replace(s, a, b) ==
  Each(0, Len(s), LAMBDA i : <<IsEnd(i, FALSE), Get(i, s[i + 1])>>
                             \o IF s[i + 1] = a THEN <<Put1(i, b)>> ELSE <<>>)
  \o <<IsEnd(Len(s), TRUE)>>

(* What makes a transaction that only reads check its reads at the commit; *)
(* where versions are nonopaque nothing need.                              *)
Written == <<NotReadOnly>>

Range10 == <<0, 1, 2, 3, 4, 5, 6, 7, 8, 9>>

-----------------------------------------------------------------------------
testSimpleInt(f) ==
  Test(Objects(f),
    Guard(<<Push(100), Push(200), Get(1, 200), Put1(0, 200)>>) \o Guard(<<Get(0, 200)>>))

testWriteNPushBack(f) ==
  Test(Objects(f),
    Guard(<<Push(10)>>) \o T(1, <<Put1(0, 4)>>) \o T(2, <<Push(20)>>)
    \o Commits(2) \o Commits(1) \o Guard(<<Get(0, 4)>>))

testPushBack(f) ==
  Test(Objects(f),
    Guard(<<Push(10)>>) \o T(1, <<Push(4)>>) \o T(2, <<Push(20)>>)
    \o Commits(2) \o Commits(1) \o Guard(Reads(<<10, 20, 4>>)))

testPushBackNRead(f) ==
  Test(Objects(f), Guard(<<Push(10)>>) \o Guard(<<Push(4), Get(1, 4)>>))

testPushBackNRead1(f) ==
  Test(Objects(f),
    Guard(<<Push(10)>>) \o T(1, <<Push(4), Get(1, 4)>>) \o T(2, <<Push(20)>>)
    \o Commits(2) \o Fails(1)
    \o T(1, <<Get(0, 10)>>) \o T(2, <<Pop>>) \o Commits(2) \o Commits(1))

testPushBackNRead2(f) ==
  Test(Objects(f),
    Guard(<<Push(10)>>) \o T(1, <<Push(4), Does("size", <<>>, 2), Get(1, 4)>>)
    \o T(2, <<Push(20)>>) \o Commits(2) \o Fails(1))

testPushBackNWrite(f) ==
  Test(Objects(f),
    Guard(<<Push(10)>>) \o Guard(<<Push(4), Put1(1, 10)>>) \o Guard(<<Get(1, 10)>>))

testSimpleString(f) ==
  Test(Objects(f), Guard(<<Push("100")>>) \o Guard(<<Get(0, "100")>>))

testIter(f) ==
  LET arr == <<3, 9, 1, 9, 7, 2, 8, 0, 5, 4>>    \* rand()
  IN Test(Objects(f), Guards(arr) \o Guard(MaxElement(arr) \o <<Get(1, 9)>>))

testConflictingIter(f, written) ==
  Test(Objects(f),
    Upto(10) \o T(1, MaxElement(Range10) \o written) \o T(2, <<Put1(4, 10)>>)
    \o Commits(2) \o Fails(1))

testModifyingIter(f) ==
  Test(Objects(f), Upto(10) \o Guard(Replace(Range10, 4, 6)) \o Guard(<<Get(4, 6)>>))

testConflictingModifyIter1(f) ==
  Test(Objects(f),
    Upto(10) \o T(1, Replace(Range10, 4, 6)) \o T(2, <<Put1(4, 10)>>)
    \o Commits(2) \o Fails(1) \o Guard(<<Get(4, 10)>>))

testConflictingModifyIter2(f) ==
  Test(Objects(f),
    Upto(10) \o Guard(Replace(Range10, 4, 6)) \o Guard(<<Put1(4, 10)>>)
    \o Guard(<<Get(4, 10)>>))

testConflictingModifyIter3(f, written) ==
  Test(Objects(f),
    Upto(10) \o T(1, <<Get(4, AnyValue)>> \o written) \o T(2, Replace(Range10, 4, 6))
    \o Commits(2) \o Fails(1) \o Guard(<<Get(4, 6)>>))

testIterNPushBack(f) ==
  Test(Objects(f),
    Upto(10)
    \o Once(<<Push(20)>> \o MaxElement(Append(Range10, 20)) \o <<Get(10, 20)>>))

testIterNPushBack1(f) ==
  Test(Objects(f),
    Upto(10)
    \o T(1, <<Push(20)>> \o MaxElement(Append(Range10, 20)) \o <<Get(10, 20)>>)
    \o T(2, <<Push(12)>>) \o Commits(2) \o Fails(1))

testIterNPushBack2(f, written) ==
  Test(Objects(f),
    Upto(10) \o T(1, MaxElement(Range10) \o written) \o T(2, <<Push(2)>>)
    \o Commits(2) \o Fails(1))

testErase(f) ==
  Test(Objects(f),
    Upto(10) \o Guard(<<Erase(5)>>)
    \o Guard(<<SizeIs("==", 9, TRUE)>> \o Reads(<<0, 1, 2, 3, 4, 6, 7, 8, 9>>)))

testInsert(f) ==
  Test(Objects(f),
    Upto(10) \o Guard(<<Insert(5, 25)>>)
    \o Guard(<<SizeIs("==", 11, TRUE)>> \o Reads(<<0, 1, 2, 3, 4, 25, 5, 6, 7, 8, 9>>))
    \o Guard(<<Does("end", <<>>, 11), Insert(11, 30)>>)
    \o Guard(<<SizeIs("==", 12, TRUE)>>
             \o Reads(<<0, 1, 2, 3, 4, 25, 5, 6, 7, 8, 9, 30>>)))

testPushNPop(f) ==
  Test(Objects(f),
    Upto(10)
    \o Guard(<<Push(20), Push(21), Get(0, 0), SizeIs("==", 12, TRUE), Pop, Pop>>)
    \o T(1, <<Pop, Push(15)>>) \o T(2, <<Push(20)>>) \o Commits(2) \o Commits(1)
    \o Guard(<<SizeIs("==", 11, TRUE), Get(10, 15)>>)
    \o T(1, <<Pop, Push(18), Get(10, 18)>>) \o T(2, <<Push(21)>>) \o Commits(2) \o Fails(1)
    \o Guard(<<SizeIs("==", 12, TRUE), Get(10, 15), Pop>>)
    \* testPushNPop1
    \o T(1, <<Pop, Push(15)>>) \o T(2, <<Pop>>) \o Commits(2) \o Commits(1)
    \o Guard(<<SizeIs("==", 10, TRUE)>>)
    \* testPushNPop2
    \o T(1, <<Pop, Pop, Push(15)>>) \o T(2, <<Put1(8, 16)>>) \o Commits(2)
    \o T(3, <<Get(8, AnyValue), NotReadOnly>>) \o Commits(1) \o Fails(3)
    \o Guard(<<SizeIs("==", 9, TRUE), Get(8, 15)>>))

testPopAndUpdate(f) ==
  Test(Objects(f),
    Upto(10) \o T(1, <<Put1(9, 20)>>) \o T(2, <<Pop, Pop>>) \o Commits(2) \o Fails(1))

testMulPushPops(f) ==
  Test(Objects(f), Upto(10) \o Guard(<<Push(100), Push(200), Pop, Pop, Pop>>))

testMulPushPops1(f) ==
  Test(Objects(f), Upto(10) \o Guard(<<Push(100), Push(200), Pop, Pop, Push(300)>>))

testUpdatePop(f) == Test(Objects(f), Upto(10) \o Guard(<<Put1(9, 20), Pop>>))

testIteratorBetterSemantics(f, written, predicates) ==
  Test(Objects(f),
    Upto(10)
    \o T(1, Each(0, 6, LAMBDA i : <<IsEnd(i, FALSE), Get(i, i)>>) \o written)
    \o T(2, <<Push(12)>>) \o Commits(2) \o Use(1, <<Get(5, 5)>>) \o Commit(1, predicates))

testSizePredicates(f, predicates) ==
  Test(Objects(f),
    Upto(10)
    \o T(1, <<SizeIs(">", 5, TRUE), NotReadOnly>>) \o T(2, <<Pop, Pop, Pop, Pop>>)
    \o Commits(2) \o Commit(1, predicates) \o Peek("size", <<>>, 6)
    \o T(1, <<SizeIs(">", 4, TRUE), NotReadOnly>>) \o T(2, Shrink(6, 4))
    \o Commits(2) \o Fails(1) \o Peek("size", <<>>, 4)
    \o T(1, Grow(4, 6)) \o Commits(1)
    \o T(1, <<SizeIs(">", 4, TRUE), NotReadOnly>>) \o T(2, Shrink(6, 4))
    \o Commits(1) \o Commits(2) \o Peek("size", <<>>, 4)
    \o T(1, <<SizeIs("<", 6, TRUE), NotReadOnly>>) \o T(2, Grow(4, 6))
    \o Commits(2) \o Fails(1) \o Peek("size", <<>>, 6)
    \o T(1, <<SizeIs("<", 8, TRUE), NotReadOnly>>) \o T(2, Grow(6, 8))
    \o Commits(1) \o Commits(2) \o Peek("size", <<>>, 8))

testIterPredicates(f, predicates) ==
  LET Less(n) == Does("difference_is", <<TRUE, "<", n>>, TRUE) IN
  Test(Objects(f),
    Upto(10)
    \o T(1, <<Does("iter_lt_end", <<5>>, TRUE), NotReadOnly>>) \o T(2, <<Pop, Pop, Pop, Pop>>)
    \o Commits(2) \o Commit(1, predicates) \o Peek("size", <<>>, 6)
    \o T(1, <<Does("iter_lt_end", <<4>>, TRUE), NotReadOnly>>) \o T(2, Shrink(6, 4))
    \o Commits(2) \o Fails(1) \o Peek("size", <<>>, 4)
    \o T(1, Grow(4, 6)) \o Commits(1)
    \o T(1, <<Does("iter_lt_end", <<4>>, TRUE), NotReadOnly>>) \o T(2, Shrink(6, 4))
    \o Commits(1) \o Commits(2) \o Peek("size", <<>>, 4)
    \o T(1, <<Does("end_le_iter", <<5>>, TRUE), NotReadOnly>>) \o T(2, Grow(4, 6))
    \o Commits(2) \o Fails(1) \o Peek("size", <<>>, 6)
    \o T(1, <<Less(8), NotReadOnly>>) \o T(2, Grow(6, 8))
    \o Commits(1) \o Commits(2) \o Peek("size", <<>>, 8)
    \o T(1, <<Less(9), NotReadOnly>>) \o T(2, Grow(8, 9))
    \o Commits(2) \o Fails(1) \o Peek("size", <<>>, 9)
    \o T(1, <<Does("difference_is", <<FALSE, "==", -9>>, TRUE)>>) \o Commits(1)
    \o Peek("size", <<>>, 9))

testResize(f, predicates) ==
  Test(Objects(f),
    Upto(10)
    \o T(1, <<Get(1, 1), NotReadOnly>>) \o T(2, <<Does("resize", <<4, 0>>, Nothing)>>)
    \o Commits(2) \o Use(1, <<SizeIs(">=", 4, TRUE)>>) \o Commits(1) \o Peek("size", <<>>, 4)
    \o T(1, <<Get(1, 1), SizeIs(">=", 4, TRUE), NotReadOnly>>)
    \o T(2, <<Does("resize", <<5, -100>>, Nothing)>>) \o Commits(2) \o Commit(1, predicates)
    \o T(3, <<SizeIs("==", 5, TRUE)>> \o Reads(<<0, 1, 2, 3, -100>>)) \o Commits(3))

testFrontBack(f) ==
  LET Back(v) == Does("back", <<>>, v) IN
  Test(Objects(f),
    Upto(10) \o Guard(<<SizeIs("==", 10, TRUE)>>)
    \o Guard(<<Does("front", <<>>, 0), Back(9), Pop, Back(8), Push(30), Back(30)>>))

testIndexPushOverlap(f) ==
  LET Overlap == <<Put1(0, -1), Pop, Pop, Push(-2), Put1(0, -3)>> IN
  Test(Objects(f),
    Upto(3) \o T(1, Overlap) \o Commits(1)
    \o Peek("size", <<>>, 2) \o Peek("get", <<0>>, -3) \o Peek("get", <<1>>, -2)
    \o Guard(<<Does("clear", <<>>, Nothing)>> \o For(0, 3, Push))
    \o T(1, Overlap) \o T(2, <<Pop>>) \o Commits(2) \o Fails(1))

testOpacity(f) ==
  LET Refill(m) == Guard(Grow(m, 10))
      Read14 == T(1, <<Get(1, 1), Get(4, 4), NotReadOnly>>)
      Shrinks(n) == T(2, Shrink(10, n) \o <<Put1(2, -1)>>) \o Commits(2)
  IN
  Test(Objects(f),
    Upto(10)
    \o T(1, <<Get(1, 1), NotReadOnly>>) \o T(2, <<Pop>>) \o Commits(2)
    \o Use(1, <<Get(2, 2)>>) \o Commits(1) \o Peek("size", <<>>, 9)
    \o Read14 \o T(2, Shrink(9, 3)) \o Commits(2)
    \o Use(1, <<Get(2, 2)>>) \o Fails(1) \o Peek("size", <<>>, 3)
    \o Refill(3) \o Read14 \o Shrinks(3) \o Use(1, <<Aborts(Get(2, -1))>>)
    \o Refill(3) \o Read14 \o Shrinks(3) \o Use(1, <<Aborts(SizeIs(">", 4, TRUE))>>)
    \o Refill(3) \o T(1, <<Put1(1, 1), Put1(4, 4)>>) \o Shrinks(3)
    \o Use(1, <<Aborts(SizeIs(">", 4, TRUE))>>)
    \o Refill(3) \o Read14 \o Shrinks(5) \o Use(1, <<Get(2, -1)>>) \o Commits(1))

testNoOpacity(f, rel, d) ==
  LET Refill(m) == Guard(Grow(m, 10))
      Read14 == T(1, <<Get(1, 1), Get(4, 4), NotReadOnly>>)
      Shrinks(n) == T(2, Shrink(10, n) \o <<Put1(2, -1)>>) \o Commits(2)
  IN
  Test([f |-> f, box |-> B!NewArray(FALSE, <<0>>)],
    Upto(10)
    \o T(1, <<Get(1, 1), NotReadOnly>>) \o T(2, <<Pop>>) \o Commits(2)
    \o Use(1, <<Get(2, 2)>>) \o Commits(1) \o Peek("size", <<>>, 9)
    \o Read14 \o T(2, Shrink(9, 3)) \o Commits(2)
    \o Use(1, <<Get(2, 2)>>) \o Fails(1) \o Peek("size", <<>>, 3)
    \o Refill(3) \o Read14 \o Shrinks(3) \o Use(1, <<Get(2, -1)>>) \o Fails(1)
    \o Refill(3) \o Read14 \o Shrinks(3) \o Use(1, <<SizeIs(rel, 3 + d, TRUE)>>) \o Fails(1)
    \o Refill(3) \o Read14 \o Shrinks(5) \o Use(1, <<Get(2, -1)>>) \o Commits(1))

TVectorTests ==
  LET f == Opaque IN
  <<testSimpleInt(f), testWriteNPushBack(f), testPushBack(f), testPushBackNRead(f),
    testPushBackNRead1(f), testPushBackNRead2(f), testPushBackNWrite(f),
    testSimpleString(f), testIter(f), testConflictingIter(f, Written), testModifyingIter(f),
    testConflictingModifyIter1(f), testConflictingModifyIter2(f),
    testConflictingModifyIter3(f, Written), testIterNPushBack(f), testIterNPushBack1(f),
    testIterNPushBack2(f, Written), testErase(f), testInsert(f), testPushNPop(f),
    testPopAndUpdate(f), testMulPushPops(f), testMulPushPops1(f), testUpdatePop(f),
    testIteratorBetterSemantics(f, Written, TRUE), testSizePredicates(f, TRUE), testIterPredicates(f, TRUE),
    testResize(f, TRUE), testFrontBack(f), testIndexPushOverlap(f), testOpacity(f),
    testNoOpacity(Nonopaque, "==", 0)>>

-----------------------------------------------------------------------------
(* unit-tvector-nopred.cc: the same tests on TVector_nopred.  Where the    *)
(* two files differ it is because a size that was read must not change.    *)

NopredOpaque == N!NewVector(TRUE, Capacity)
NopredNonopaque == N!NewVector(FALSE, Capacity)

nopred_testSimpleInt == testSimpleInt(NopredOpaque)
nopred_testWriteNPushBack == testWriteNPushBack(NopredOpaque)
nopred_testPushBackNRead == testPushBackNRead(NopredOpaque)
nopred_testPushBackNRead2 == testPushBackNRead2(NopredOpaque)
nopred_testPushBackNWrite == testPushBackNWrite(NopredOpaque)
nopred_testSimpleString == testSimpleString(NopredOpaque)
nopred_testIter == testIter(NopredOpaque)
nopred_testConflictingIter == testConflictingIter(NopredOpaque, Written)
nopred_testModifyingIter == testModifyingIter(NopredOpaque)
nopred_testConflictingModifyIter1 == testConflictingModifyIter1(NopredOpaque)
nopred_testConflictingModifyIter2 == testConflictingModifyIter2(NopredOpaque)
nopred_testConflictingModifyIter3 == testConflictingModifyIter3(NopredOpaque, Written)
nopred_testIterNPushBack == testIterNPushBack(NopredOpaque)
nopred_testIterNPushBack1 == testIterNPushBack1(NopredOpaque)
nopred_testIterNPushBack2 == testIterNPushBack2(NopredOpaque, Written)
nopred_testErase == testErase(NopredOpaque)
nopred_testInsert == testInsert(NopredOpaque)
nopred_testMulPushPops == testMulPushPops(NopredOpaque)
nopred_testMulPushPops1 == testMulPushPops1(NopredOpaque)
nopred_testUpdatePop == testUpdatePop(NopredOpaque)
nopred_testFrontBack == testFrontBack(NopredOpaque)
nopred_testOpacity == testOpacity(NopredOpaque)
nopred_testPopAndUdpate == testPopAndUpdate(NopredOpaque)
nopred_testIteratorBetterSemantics == testIteratorBetterSemantics(NopredOpaque, Written, FALSE)
nopred_testSizePredicates == testSizePredicates(NopredOpaque, FALSE)
nopred_testIterPredicates == testIterPredicates(NopredOpaque, FALSE)
nopred_testResize == testResize(NopredOpaque, FALSE)
nopred_testNoOpacity ==
  testNoOpacity(NopredNonopaque, "<=", 1)

nopred_testPushBack ==
  Test(Objects(NopredOpaque),
    Guard(<<Push(10)>>) \o T(1, <<Push(4)>>) \o T(2, <<Push(20)>>)
    \o Commits(2) \o Fails(1) \o Guard(Reads(<<10, 20>>)))

nopred_testPushBackNRead1 ==
  Test(Objects(NopredOpaque),
    Guard(<<Push(10)>>) \o T(1, <<Push(4), Get(1, 4)>>) \o T(2, <<Push(20)>>)
    \o Commits(2) \o Fails(1))

nopred_testPushNPop ==
  Test(Objects(NopredOpaque),
    Upto(10)
    \o Guard(<<Push(20), Push(21), Get(0, 0), SizeIs("==", 12, TRUE), Pop, Pop>>)
    \o T(1, <<Pop, Push(15)>>) \o T(2, <<Push(20)>>) \o Commits(2) \o Fails(1)
    \o Guard(<<SizeIs("==", 11, TRUE), Get(10, 20)>>)
    \o T(1, <<Push(18), Get(11, 18)>>) \o T(2, <<Push(21)>>) \o Commits(2) \o Fails(1)
    \o Guard(<<SizeIs("==", 12, TRUE), Get(10, 20), Get(11, 21), Pop>>)
    \* testPushNPop1
    \o T(1, <<Pop, Push(15)>>) \o T(2, <<Pop>>) \o Commits(2) \o Fails(1)
    \o Guard(<<SizeIs("==", 10, TRUE)>>)
    \* testPushNPop2
    \o T(1, <<Pop, Pop, Push(15)>>) \o T(2, <<Put1(8, 16)>>) \o Commits(2)
    \o T(3, <<Get(8, AnyValue), NotReadOnly>>) \o Commits(1) \o Fails(3)
    \o Guard(<<SizeIs("==", 9, TRUE), Get(8, 15)>>))

NopredTests ==
  <<nopred_testSimpleInt, nopred_testWriteNPushBack, nopred_testPushBackNRead,
    nopred_testPushBackNRead2, nopred_testPushBackNWrite,
    nopred_testSimpleString, nopred_testIter, nopred_testConflictingIter,
    nopred_testModifyingIter, nopred_testConflictingModifyIter1,
    nopred_testConflictingModifyIter2, nopred_testConflictingModifyIter3,
    nopred_testIterNPushBack, nopred_testIterNPushBack1,
    nopred_testIterNPushBack2, nopred_testErase, nopred_testInsert,
    nopred_testMulPushPops, nopred_testMulPushPops1, nopred_testUpdatePop,
    nopred_testFrontBack, nopred_testOpacity, nopred_testPopAndUdpate,
    nopred_testIteratorBetterSemantics, nopred_testSizePredicates,
    nopred_testIterPredicates, nopred_testResize, nopred_testNoOpacity,
    nopred_testPushBack, nopred_testPushBackNRead1, nopred_testPushNPop>>
=============================================================================
