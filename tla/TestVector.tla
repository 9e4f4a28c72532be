----------------------------- MODULE TestVector -----------------------------
(***************************************************************************)
(* vector.cc: the tests of Vector, from which those of TVector were made.  *)
(* No box keeps a transaction from being read-only: Vector is nonopaque,   *)
(* so every transaction that has read something is checked at its commit.  *)
(***************************************************************************)
EXTENDS TestTVector

EmptyVector == W!NewVector(FALSE, <<>>)

vector_testSimpleInt == testSimpleInt(EmptyVector)
vector_testWriteNPushBack == testWriteNPushBack(EmptyVector)
vector_testPushBack == testPushBack(EmptyVector)
vector_testPushBackNRead == testPushBackNRead(EmptyVector)
vector_testPushBackNRead2 == testPushBackNRead2(EmptyVector)
vector_testPushBackNWrite == testPushBackNWrite(EmptyVector)
vector_testSimpleString == testSimpleString(EmptyVector)
vector_testIter == testIter(EmptyVector)
vector_testConflictingIter == testConflictingIter(EmptyVector, <<>>)
vector_testModifyingIter == testModifyingIter(EmptyVector)
vector_testConflictingModifyIter1 == testConflictingModifyIter1(EmptyVector)
vector_testConflictingModifyIter2 == testConflictingModifyIter2(EmptyVector)
vector_testConflictingModifyIter3 == testConflictingModifyIter3(EmptyVector, <<>>)
vector_testIterNPushBack == testIterNPushBack(EmptyVector)
vector_testIterNPushBack1 == testIterNPushBack1(EmptyVector)
vector_testIterNPushBack2 == testIterNPushBack2(EmptyVector, <<>>)
vector_testPopAndUdpate == testPopAndUpdate(EmptyVector)
vector_testMulPushPops == testMulPushPops(EmptyVector)
vector_testMulPushPops1 == testMulPushPops1(EmptyVector)
vector_testUpdatePop == testUpdatePop(EmptyVector)
vector_testIteratorBetterSemantics ==
  testIteratorBetterSemantics(EmptyVector, <<>>, TRUE)

vector_testPushBackNRead1 ==
  Test(Objects(EmptyVector),
    Guard(<<Push(10)>>) \o T(1, <<Push(4), Get(1, 4)>>) \o T(2, <<Push(20)>>)
    \o Commits(2) \o Fails(1))

(* for (it = f.begin(); it != f.end(); ++it): the values it prints.        *)
Prints(s) ==
  Guard(Each(0, Len(s), LAMBDA i : <<IsEnd(i, FALSE), Get(i, s[i + 1])>>)
        \o <<IsEnd(Len(s), TRUE)>>)

vector_testErase ==
  Test(Objects(EmptyVector),
    Upto(10) \o Guard(<<Erase(5)>>) \o Prints(<<0, 1, 2, 3, 4, 6, 7, 8, 9>>))

vector_testInsert ==
  Test(Objects(EmptyVector),
    Upto(10) \o Guard(<<Insert(5, 25)>>) \o Prints(<<0, 1, 2, 3, 4, 25, 5, 6, 7, 8, 9>>))

vector_testPushNPop ==
  Test(Objects(EmptyVector),
    Upto(10)
    \o Guard(<<Push(20), Push(21), Get(0, 0), SizeIs("==", 12, TRUE), Pop, Pop>>)
    \o T(1, <<Pop, Push(15)>>) \o T(2, <<Push(20)>>) \o Commits(2) \o Fails(1)
    \o Guard(<<SizeIs("==", 11, TRUE), Get(10, 20)>>)
    \* testPushNPop1
    \o T(1, <<Pop, Push(15)>>) \o T(2, <<Pop>>) \o Commits(2) \o Fails(1)
    \o Guard(<<SizeIs("==", 10, TRUE)>>)
    \* testPushNPop2
    \o T(1, <<Pop, Pop, Push(15)>>) \o T(2, <<Put1(8, 16)>>) \o Commits(2)
    \o T(3, <<Get(8, AnyValue)>>) \o Commits(1) \o Fails(3)
    \o Guard(<<SizeIs("==", 9, TRUE), Get(8, 15)>>))

(* All tests but testInsert, which fails.                                  *)
VectorTests ==
  <<vector_testSimpleInt, vector_testWriteNPushBack, vector_testPushBack,
    vector_testPushBackNRead, vector_testPushBackNRead1, vector_testPushBackNRead2,
    vector_testPushBackNWrite, vector_testSimpleString, vector_testIter,
    vector_testConflictingIter, vector_testModifyingIter,
    vector_testConflictingModifyIter1, vector_testConflictingModifyIter2,
    vector_testConflictingModifyIter3, vector_testIterNPushBack,
    vector_testIterNPushBack1, vector_testIterNPushBack2, vector_testErase,
    vector_testPushNPop, vector_testPopAndUdpate, vector_testMulPushPops,
    vector_testMulPushPops1, vector_testUpdatePop, vector_testIteratorBetterSemantics>>
=============================================================================
