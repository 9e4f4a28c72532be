----------------------------- MODULE MCTesters -----------------------------
(* The testers on the data structures they are for, two threads.           *)
EXTENDS TestPrograms

IntMin == -1000

NonopaqueVector(s) == V!NewVector(FALSE, 6, s)
OneBucket(s) == H!NewHashtable(TRUE, 1, Filled(s))
Pqueue(s) == P!NewPriorityQueue(s)
OrderedList(s) == L!NewList(FALSE, s)
Predicated(n) == I!NewInt("TIntPredicate", TRUE, n)
Counter(opaque) == I!NewInt("TCounter", opaque, 1)

Containers(s) ==
  <<Array(s), NonopaqueArray(s), Words(s), TransVector(s), Table(s), NonopaqueTable(s), Boosted(s)>>

Run(containers, progs, test) ==
  Seqs!FlattenSeq([c \in DOMAIN containers |->
    [i \in DOMAIN progs |-> Workload([f |-> containers[c]], progs[i], test)]])

(* RandomRWs on every container but the boosted map, which has the most    *)
(* steps, and with deletes where deletes are serializable.                 *)
Arrays ==
  Run(<<Array(<<1, 2>>), Words(<<1, 2>>), TransVector(<<1, 2>>), Table(<<1, 2>>)>>,
      RandomRWs, "sequential")
  \o Run(<<NonopaqueArray(<<1, 2>>)>>, ZipfRW, "sequential")
  \o Run(Containers(<<1, 2, 3>>), HotspotRW \o Hotspot2RW, "none")
  \o Run(Containers(<<1, 2>>), SingleRW, "sequential")
  \o Run(Containers(<<1, 2>>), ReadThenWrite, "none")
  \o Run(Containers(<<0, 0>>), IsolatedWrites, "isolated")
  \o Run(Containers(<<0, 0, 0>>), BlindWrites, "blind")
  \o Run(Containers(<<0, 0, 0>>), InterferingRWs, "interfering")
  \o Run(<<OldVector(<<1, 2>>)>>, AscendingRWs, "sequential")
  \o Run(<<OldVector(<<0, 0>>)>>, IsolatedWrites, "isolated")
  \o Run(<<OldVector(<<0, 0, 0>>)>>, InterferingRWs, "interfering")

Maps ==
  Run(<<Table(<<1, 2>>), OneBucket(<<1, 2>>), NonopaqueTable(<<1, 2>>), Boosted(<<1, 2>>)>>,
      KingDelete, "king")
  \o Run(<<NonopaqueTable(<<1, 2, 3>>), Boosted(<<1, 2, 3>>)>>, XorDelete, "sequential")
  \o Run(<<NonopaqueTable(<<0, 2>>)>>, RandomDeletes, "none")

Queues ==
  Run(<<Ring(<<>>), Ring(<<7>>), Ring(<<7, 8>>)>>, QueueRandomRWs, "none")
  \o Run(<<Ring(<<>>), Ring(<<7>>)>>, Qxordelete, "none")
  \o [i \in DOMAIN QueueTransfer |->
        Workload([f |-> Ring(<<7, 8>>), g |-> Ring(<<>>)], QueueTransfer[i], "none")]
  \o Run(<<Pqueue(<<7, 4>>)>>, PqueueTester \o PqueueRun, "none")

Others ==
  Run(<<OldVector(<<1>>), OldVector(<<1, 2>>), TransVector(<<1>>)>>, VectorTester, "none")
  \o Run(<<TransVector(<<1>>), NonopaqueVector(<<1>>)>>, TVectorTester, "none")
  \o Run(<<Predicated(1), Predicated(2)>>, NumberTester, "none")
  \o Run(<<Counter(TRUE), Counter(FALSE)>>, CounterTester, "none")
  \o Run(<<OrderedList(<<2, 4>>)>>, ListTester, "none")

Tree(s) == R!NewRBTree([i \in DOMAIN s |-> <<s[i], s[i]>>])

Trees ==
  Run(<<Tree(<<2, 4>>)>>, RBTreeTester \o RBTreeErases \o RBTreeSizes, "none")
  \o Run(<<Tree(<<>>)>>, RBTreeFirsts, "none")

WL == Arrays \o Maps \o Queues \o Others \o Trees

TwoTreelets == Run(<<LayoutBT({5})>>, TreeUpdates, "none")

(* Not serializable: count(4) does not notice that what count(2) read is   *)
(* gone, and a transaction without writes commits unchecked.               *)
TreeDeletes == Run(<<Tree(<<2, 4>>)>>, RBTreeReadsOn, "none")

(* pqueue.cc begins with an empty queue.                                   *)
PqueueFromEmpty == Run(<<Pqueue(<<>>)>>, PqueueRun, "none")
=============================================================================
