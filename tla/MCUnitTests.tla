---------------------------- MODULE MCUnitTests ----------------------------
(* The tests of the repository, run against the model: each behaviour is a *)
(* test, and every result must be the one the test asserts.                *)
EXTENDS TestTVector, TestVector, TestCollections, TestIntegers, TestRBTree

VARIABLES
  test,     \* the test that runs
  pos,      \* its next step
  agrees    \* every result so far was the asserted one

vars == <<obj, tx, TID, test, pos, agrees>>

IntMin == -1000    \* numbers of the tests are far inside IntMin .. MaxInt

CONSTANT Tests     \* a sequence of tests

AllTests == TVectorTests \o NopredTests \o VectorTests \o QueueTests \o MapTests
            \o IntegerTests \o RBTreeTests

TestInit ==
  /\ test \in DOMAIN Tests
  /\ Init(Tests[test].objects)
  /\ pos = 1
  /\ agrees = TRUE

Steps == Tests[test].steps

Matches(r, expected) == expected = r \/ (expected = AnyValue /\ r # Abort)

Advance(r, expected) ==
  /\ agrees' = (agrees /\ Matches(r, expected))
  /\ pos' = pos + 1
  /\ UNCHANGED test

Quiet == UNCHANGED <<test, pos, agrees>>

RunStart(s) ==
  /\ s.do = "start"
  /\ IF Ended(s.t) THEN start(s.t) /\ Advance(TRUE, TRUE)
                   ELSE silent_abort(s.t) /\ Quiet

RunCall(s) ==
  /\ s.do = "call"
  /\ CanCall(s.t, s.o, s)
  /\ \E m \in {Call(tx[s.t], s.o, s)} :
       /\ MakeCall(s.t, s.o, m)
       /\ Advance(Result(m, s.o), s.r)

RunCommit(s) ==
  /\ s.do = "commit"
  /\ IF Ended(s.t)
     THEN Advance(tx[s.t].state = "committed", s.r) /\ UNCHANGED <<obj, tx, TID>>
     ELSE try_commit(s.t) /\ Quiet

RunPeek(s) ==
  /\ s.do = "peek"
  /\ Advance(PeekResult(obj[s.o], s), s.r)
  /\ UNCHANGED <<obj, tx, TID>>

RunPoke(s) ==
  /\ s.do = "poke"
  /\ obj' = [obj EXCEPT ![s.o] = Poked(@, s)]
  /\ Advance(TRUE, TRUE)
  /\ UNCHANGED <<tx, TID>>

Committing == {t \in Thread : tx[t].at # "calls"}

RunStep ==
  /\ Committing = {} /\ pos <= Len(Steps)
  /\ \E s \in {Steps[pos]} :
       RunStart(s) \/ RunCall(s) \/ RunCommit(s) \/ RunPeek(s) \/ RunPoke(s)

RunCommitting == \E t \in Committing : CommitStep(t) /\ Quiet

Done == pos > Len(Steps) /\ Committing = {} /\ UNCHANGED vars

Next == RunStep \/ RunCommitting \/ Done

Spec == TestInit /\ [][Next]_vars /\ WF_vars(Next)

-----------------------------------------------------------------------------
(* Every call and every try_commit() of the repository's tests returns,    *)
(* throws or aborts as the test asserts.                                   *)
ResultsAsAsserted == agrees

(* rbtree::check(), after every step of inserts, commits and aborts: no    *)
(* red node has a red child, every path has as many black nodes, the       *)
(* limits are the first and the last node; and the keys rise, which the    *)
(* boundary nodes of a lookup rely on.                                     *)
TreesBalanced == \A o \in DOMAIN obj : obj[o].kind = "RBTree" => R!Balanced(obj[o])

(* No assert() of the data structures or of the commit fails.              *)
CodeAssertionsHold == \A t \in Thread : ~tx[t].failed
=============================================================================
