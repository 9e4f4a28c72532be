-------------------------- MODULE TestCollections ---------------------------
(***************************************************************************)
(* queueTests() of pqueue.cc and of single.cc, the tests of single.cc on   *)
(* List and Hashtable, and unit-tlayout-bt.cc.                             *)
(***************************************************************************)
EXTENDS TestScript

PushQ(v) == Does("push", <<v>>, Nothing)
PopQ == Does("pop", <<>>, AnyValue)
Top(v) == Does("top", <<>>, v)

Heap(s) == [f |-> P!NewPriorityQueue(s)]

(* The queue each block finds is what the blocks before it leave.          *)
pqueue_nonempty ==
  Test(Heap(<<>>),
    Guard(<<PushQ(1), PushQ(2), Top(2), PopQ, Top(1), PopQ>>)
    \o Guard(<<PushQ(1), PushQ(2)>>) \o Guard(<<Top(2), Top(2)>>)
    \o Guard(<<PopQ, PopQ, PushQ(1), PushQ(2), PushQ(3)>>)
    \o Guard(<<Top(3), PopQ, Top(2), PopQ, Top(1), PopQ, PushQ(1), PushQ(2), PushQ(3)>>)
    \o Guard(<<Top(3), Top(3), PushQ(4), Top(4)>>)
    \o Guard(<<PopQ, Top(3), PushQ(5), PopQ, Top(3), PushQ(6)>>))

pqueue_empty ==
  Test(Heap(<<6, 3, 2, 1>>),
    Guard(<<PopQ, PopQ, PopQ, PopQ, PushQ(1), Top(1), Top(1)>>)
    \o Guard(<<PopQ, PushQ(1), PopQ>>)
    \o Guard(<<PushQ(1), Top(1), PopQ, PushQ(1), PopQ, PushQ(1), PushQ(2)>>))

pqueue_conflicts ==
  Test(Heap(<<2, 1>>),
    T(1, <<PopQ>>) \o T(2, <<Aborts(PopQ)>>) \o Commits(1)
    \o T(1, <<PopQ>>) \o T(2, <<Aborts(PushQ(3))>>) \o Commits(1)
    \o Guard(<<PushQ(3)>>) \o Guard(<<Top(3), PopQ>>)
    \o T(1, <<PopQ, PushQ(1), PushQ(2)>>) \o T(2, <<PushQ(3), PushQ(4), PushQ(5), PopQ>>)
    \o Fails(1) \o Commits(2) \o Guard(<<PopQ, PopQ, PushQ(1), PushQ(2)>>)
    \o Starts(2) \o T(1, <<Top(2), PushQ(4), PopQ, Top(2)>>) \o Commits(1)
    \o Use(2, <<PushQ(3)>>) \o Commits(2)
    \o Guard(<<Top(3), PopQ, Top(2), PopQ, Top(1), PopQ>>)
    \o Guard(<<PushQ(10), PushQ(4), PushQ(5)>>)
    \o T(1, <<PopQ, PushQ(20)>>) \o T(2, <<Aborts(PushQ(12))>>) \o Commits(1))

pqueue_tops ==
  Test(Heap(<<20, 5, 4>>),
    T(1, <<Top(20)>>) \o T(2, <<PushQ(100)>>) \o Commits(2) \o Fails(1)
    \o Guard(<<PopQ, PopQ, PopQ, PopQ, PushQ(5)>>)
    \o T(1, <<Top(5), PushQ(10)>>) \o T(2, <<PushQ(7)>>) \o Commits(2) \o Fails(1)
    \o Guard(<<PopQ, PopQ>>)
    \o T(1, <<PopQ>>) \o T(2, <<PushQ(4)>>) \o Commits(2) \o Fails(1)
    \o T(1, <<Top(4)>>) \o T(2, <<PushQ(6)>>) \o Commits(2) \o T(3, <<PopQ>>)
    \o Fails(1) \o Commits(3)
    \o T(1, <<Top(4)>>) \o T(2, <<PushQ(6)>>) \o Commits(2) \o Use(1, <<Aborts(PopQ)>>))

-----------------------------------------------------------------------------
(* Queue.  A front that fails is Nothing.                                  *)
Front(v) == Does("front", <<>>, v)
Pops(b) == Does("pop", <<>>, b)
Drained(s) == Each(1, Len(s) + 1, LAMBDA i : <<Front(s[i]), Pops(TRUE)>>)

Ring(s) == [f |-> Q!NewQueue(TRUE, 8, 0, s)]

single_nonempty ==
  Test(Ring(<<>>),
    Guard(<<PushQ(1), PushQ(2)>> \o Drained(<<1, 2>>))
    \o Guard(<<PushQ(1), PushQ(2)>>) \o Guard(<<Front(1), Front(1)>>)
    \o Guard(<<Pops(TRUE), Pops(TRUE), Pops(FALSE), PushQ(1), PushQ(2), PushQ(3)>>)
    \o Guard(Drained(<<1, 2, 3>>) \o <<Pops(FALSE), PushQ(1), PushQ(2), PushQ(3)>>)
    \o Guard(<<Front(1), Front(1), PushQ(4), Front(1)>>)
    \o Guard(<<Pops(TRUE), Front(2), PushQ(5), Pops(TRUE), Front(3), PushQ(6)>>))

single_empty ==
  Test(Ring(<<3, 4, 5, 6>>),
    Guard(<<Pops(TRUE), Pops(TRUE), Pops(TRUE), Pops(TRUE), Pops(FALSE), Front(Nothing),
            PushQ(1), Front(1), Front(1)>>)
    \o Guard(<<Pops(TRUE), Pops(FALSE), Front(Nothing), PushQ(1), Pops(TRUE), Pops(FALSE)>>)
    \o Guard(<<Front(Nothing), PushQ(1), Front(1), Pops(TRUE), PushQ(1), Pops(TRUE),
               Front(Nothing), Pops(FALSE), PushQ(1), PushQ(2)>>))

single_conflicts ==
  Test(Ring(<<1, 2>>),
    T(1, <<Pops(TRUE)>>) \o T(2, <<Pops(TRUE)>>) \o Commits(1) \o Fails(2)
    \o T(1, <<Pops(TRUE)>>) \o T(2, <<PushQ(3)>>) \o Commits(1) \o Commits(2)
    \o Guard(<<Front(3), Pops(TRUE), Pops(FALSE)>>)
    \o T(1, <<Pops(FALSE), PushQ(1), PushQ(2)>>)
    \o T(2, <<PushQ(3), PushQ(4), PushQ(5), Pops(TRUE)>>) \o Commits(1) \o Fails(2)
    \o T(1, <<Front(1), PushQ(4), Pops(TRUE), Front(2)>>) \o T(2, <<PushQ(3)>>)
    \o Commits(2) \o Commits(1)
    \o T(3, <<Pops(TRUE), Front(3), Pops(TRUE), Front(4), Pops(TRUE), Pops(FALSE)>>) \o Commits(3))

QueueTests ==
  <<pqueue_nonempty, pqueue_empty, pqueue_conflicts, pqueue_tops,
    single_nonempty, single_empty, single_conflicts>>

-----------------------------------------------------------------------------
Finds(v) == Does("find", <<v>>, v)
Misses(v) == Does("find", <<v>>, Nothing)
Adds(v, b) == Does("insert", <<v>>, b)
Removes(v, b) == Does("delete", <<v>>, b)
Holds(n) == Does("size", <<>>, n)

(* An iterator is the node it stands on, nodes are numbered as they are    *)
(* made, and 0 is the end.                                                 *)
Iterates(s) ==
  <<Does("iter", <<>>, s[1])>>
  \o [i \in 1 .. Len(s) - 1 |-> Does("next", <<s[i]>>, s[i + 1])]

linkedListTests ==
  Test([f |-> L!NewList(TRUE, <<>>)],
    Guard(<<Misses(5), Adds(5, TRUE), Finds(5)>>)
    \o Guard(<<Adds(5, FALSE), Finds(5), Misses(7), Adds(7, TRUE)>>)
    \o Guard(<<Holds(2), Adds(10, TRUE), Holds(3)>> \o Iterates(<<1, 2, 3, 0>>))
    \o Guard(<<Removes(7, TRUE), Removes(1000, FALSE), Holds(2), Misses(7)>>
             \o Iterates(<<1, 3, 0>>))
    \o Guard(<<Adds(7, TRUE), Removes(7, TRUE), Holds(2), Misses(7)>>))

-----------------------------------------------------------------------------
Gets(k, v) == Does("get", <<k>>, v)
NoKey(k) == Gets(k, Nothing)
Puts(k, v) == Does("put", <<k, v>>, AnyValue)
Inserts(k, v, b) == Does("insert", <<k, v>>, b)
Updates(k, v, b) == Does("update", <<k, v>>, b)

Table(nbuckets) == [f |-> H!NewHashtable(TRUE, nbuckets, [k \in {} |-> 0])]

basicMapTests ==
  Test(Table(129),
    Guard(<<Inserts(0, 1, TRUE), Puts(1, 3)>>) \o Guard(<<Updates(1, 2, TRUE)>>)
    \o Guard(<<Gets(1, 2)>>) \o Guard(<<Puts(0, 4)>>) \o Guard(<<Gets(0, 4)>>)
    \o Guard(<<Inserts(0, 5, FALSE)>>) \o Guard(<<Updates(2, 1, FALSE)>>)
    \o T(1, <<NoKey(2), Puts(1000, 0)>>) \o T(2, <<Inserts(2, 2, TRUE)>>)
    \o Commits(2) \o Fails(1)
    \o T(3, <<Inserts(3, 0, TRUE)>>)
    \o T(1, <<Inserts(4, 4, TRUE), Aborts(Updates(3, 0, TRUE))>>)
    \o T(2, <<Aborts(Removes(3, TRUE))>>) \o Commits(3) \o Fails(1) \o Fails(2)
    \o Guard(<<Inserts(4, 5, TRUE)>>)
    \o Guard(<<Removes(5, FALSE), Updates(4, 0, TRUE), Removes(4, TRUE), NoKey(4),
               Updates(4, 0, FALSE), Removes(4, FALSE)>>)
    \o Guard(<<Gets(3, 0), Removes(3, TRUE), Inserts(3, 1, TRUE), Gets(3, 1)>>)
    \o Guard(<<NoKey(4), Inserts(4, 14, TRUE), Gets(4, 14), Removes(4, TRUE), NoKey(4)>>)
    \o T(1, <<Updates(3, 15, TRUE)>>) \o T(2, <<Updates(3, 16, TRUE)>>) \o Commits(2) \o Fails(1)
    \o T(1, <<Updates(3, 17, TRUE)>>) \o T(2, <<Removes(3, TRUE)>>) \o Commits(2) \o Fails(1))

(* The string "foo" as the number of some bucket.                          *)
stringKeyTests ==
  LET foo == 7
  IN Test(Table(129), Guard(<<Inserts(foo, "bar", TRUE), Gets(foo, "bar")>>)
                      \o Guard(<<Gets(foo, "bar")>>))

-----------------------------------------------------------------------------
tlayoutTest ==
  Test([f |-> Y!NewTLayoutBT([k \in {123} |-> 1], {})], T(1, <<Adds(123, TRUE)>>) \o Commits(1))

MapTests == <<linkedListTests, basicMapTests, stringKeyTests, tlayoutTest>>
=============================================================================
