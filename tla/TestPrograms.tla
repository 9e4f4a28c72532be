---------------------------- MODULE TestPrograms ----------------------------
(***************************************************************************)
(* The programs of the concurrent tests: what each thread runs.  A random  *)
(* choice of operations is every choice.                                   *)
(***************************************************************************)
EXTENDS Testers

nthreads == Cardinality(Thread)

Two(x, y) == [t \in Thread |-> IF t = 1 THEN x ELSE y]

Both(program) == Two(program[0], program[1])

(* Random transactions of two of the operations ops, one in each thread.   *)
Queries(ops) ==
  LET n == Len(ops)
  IN [i \in 1 .. n * n |-> <<ops[((i - 1) \div n) + 1], ops[((i - 1) % n) + 1]>>]

Pairs(qs) ==
  Seqs!FlattenSeq([i \in DOMAIN qs |-> [j \in 1 .. i |-> Two(<<qs[j]>>, <<qs[i]>>)]])

-----------------------------------------------------------------------------
(* Containers whose slots 0, 1, ... hold the values of s, 0 for nothing.   *)

Filled(s) == [k \in {i \in 0 .. Len(s) - 1 : s[i + 1] # 0} |-> s[k + 1]]

Array(s) == B!NewArray(TRUE, s)

NonopaqueArray(s) == B!NewArray(FALSE, s)

OldVector(s) == W!NewVector(FALSE, s)

TransVector(s) == V!NewVector(TRUE, 2 * ARRAY_SZ, s)

(* Words 0 and 1 share a version.                                          *)
Words(s) ==
  G!NewWords(TRUE, [k \in 0 .. Len(s) - 1 |-> k \div 2], [k \in 0 .. Len(s) - 1 |-> s[k + 1]])

Table(s) == H!NewHashtable(TRUE, 2, Filled(s))

(* hash-str, the table without opacity.                                    *)
NonopaqueTable(s) == H!NewHashtable(FALSE, 2, Filled(s))

Boosted(s) == M!NewTransMap(0 .. ARRAY_SZ - 1, Filled(s))

(* A queue prepopulated with s, its head near the end of the ring.         *)
Ring(s) == Q!NewQueue(FALSE, 8, 6, s)

(* A layout tree with the keys s and two treelets, below 4 and from 4 on.  *)
LayoutBT(s) == Y!NewTLayoutBT([k \in 1 .. 6 |-> k \div 4], s)

-----------------------------------------------------------------------------
(* concurrent.cc, on arrays and maps.                                      *)

(* Every write increments, or is blind.                                    *)
RandomRWs == Pairs(Queries(<<Read(0), Read(1), Inc(0), Inc(1)>>))

(* The same without two increments in falling order of slots.              *)
AscendingRWs ==
  LET Falling(p) == \E t \in Thread : p[t][1] = <<Inc(1), Inc(0)>>
  IN SelectSeq(RandomRWs, LAMBDA p : ~Falling(p))

RandomDeletes ==
  Pairs(Queries(<<Read(0), Read(1), Write(0, 7), Do("delete", <<0>>), Do("delete", <<1>>)>>))

(* The keys but 0 in rising order, reads before writes; 0 is the hotspot:  *)
(* read first or written last.                                             *)
HotspotRW ==
  Pairs(<< <<Read(0), Read(1), Read(2)>>, <<Read(1), Write(2, 3), Write(0, 7)>>,
           <<Write(1, 2), Write(2, 3), Write(0, 8)>> >>)

(* 0 is incremented first, or read in a read-only transaction.             *)
Hotspot2RW ==
  Pairs(<< <<Read(1), Read(2), Read(0)>>, <<Inc(0), Read(1), Write(2, 3)>>,
           <<Inc(0), Write(1, 2), Write(2, 3)>> >>)

SingleRW == Pairs(<< <<Inc(0)>>, <<Inc(1)>> >>)

(* Read-only transactions are of another length.                           *)
ZipfRW == Pairs(<< <<Read(1), Read(0), Read(1)>> >> \o Queries(<<Read(0), Inc(0), Inc(1)>>))

(* The values tell who wrote them.                                         *)
ReadThenWrite ==
  Pairs(<< <<Read(0), Write(1, 7)>>, <<Read(1), Write(0, 8)>>, <<Write(0, 9), Write(1, 9)>>,
           <<Read(0), Read(1)>> >>)

KingDelete ==
  <<Both([me \in 0 .. 1 |-> << IF me = 0 THEN <<Write(0, 1), Do("delete", <<1>>)>>
                        ELSE <<Do("delete", <<0>>), Write(1, 2)>> >>])>>

Update(slot) == Do("update", <<slot, slot + 1>>)

XorDelete == Pairs(Queries(<<Update(1), Update(2), Xor(1), Xor(2)>>))

IsolatedWrites == <<Both([me \in 0 .. 1 |-> << <<Read(0), Read(1), Write(me, me + 1)>> >>])>>

BlindWrites == <<Both([me \in 0 .. 1 |-> << <<Blind(me, nthreads)>> >>])>>

InterferingRWs ==
  LET Slots(me) == SelectSeq([i \in 1 .. ARRAY_SZ |-> i - 1], LAMBDA i : i % nthreads >= me)
  IN <<Both([me \in 0 .. 1 |-> <<[j \in DOMAIN Slots(me) |-> Inc(Slots(me)[j])]>>])>>

-----------------------------------------------------------------------------
(* concurrentqueue.cc and the queues of concurrent.cc.                     *)

QueueRead == <<Do("front", <<>>), Do("pop", <<>>)>>

Push(v) == Do("push", <<v>>)

QueueRandomRWs ==
  Pairs(<<QueueRead \o QueueRead, QueueRead \o <<Push(1)>>, <<Push(0)>> \o QueueRead,
          <<Push(0), Push(1)>> >>)

Qxordelete == Pairs(<< <<Qxor(0), Qxor(1)>>, <<PopOrPush(1), PopOrPush(1)>> >>)

QueueTransfer == Pairs(<< <<Qtransfer, Qtransfer>>, <<Qtransfer>> >>)

-----------------------------------------------------------------------------
(* pqueue.cc, and the testers of trans_test.cc.                            *)

PqueueRun ==
  <<Two(<< <<Do("pop", <<>>), Push(5), Push(1), Do("top", <<>>), Push(3)>> >>,
        << <<Do("pop", <<>>), Push(2), Push(6), Do("top", <<>>), Push(4)>> >>)>>

PqueueTester == Pairs(Queries(<<Push(2), Push(6), Do("pop", <<>>), Do("top", <<>>)>>))

VectorTester == Pairs(Queries(<<Do("push_back", <<6>>), PopLast, Do("size", <<>>)>>))

PopBack == Do("pop_back", <<>>)

TVectorTester ==
  Pairs(Queries(<<Do("push_back", <<6>>), PopBack, Do("size", <<>>), Do("size_is", <<">", 1>>)>>))

NumberTester == Pairs(Queries(<<Do("get", <<>>), Do("put", <<3>>), Do("is", <<">", 1>>), Do("is", <<"==", 3>>)>>))

CounterTester == Pairs(Queries(<<Do("get", <<>>), Do("add", <<1>>), Do("add", <<-2>>), Do("is", <<">", 0>>)>>))

(* Updates of treelets in rising order, inserts of new keys, removals of   *)
(* old ones.                                                               *)
TreeUpdates ==
  <<Two(<< <<Do("insert", <<1>>), Do("insert", <<2>>), Do("insert", <<4>>)>> >>,
        << <<Do("insert", <<3>>), Do("remove", <<5>>)>> >>)>>

ListTester ==
  Pairs(Queries(<<Do("find", <<2>>), Do("insert", <<2>>), Do("delete", <<2>>), Do("insert", <<5>>)>>))

SetKey(k, v) == Do("put", <<k, v>>)
Count(k) == Do("count", <<k>>)
Erase(k) == Do("erase", <<k>>)
Size == Do("size", <<>>)

RBTreeTester == Pairs(Queries(<<SetKey(3, 8), Count(2), Count(3)>>))

(* Erases; what no transaction does is read on past what another erased.   *)
RBTreeErases ==
  Pairs(<< <<Erase(2)>>, <<Erase(3)>>, <<Erase(2), SetKey(2, 7)>>, <<SetKey(3, 8), Erase(3)>>,
           <<SetKey(3, 9), Erase(2)>>, <<Erase(2), SetKey(3, 5)>>, <<Count(3), SetKey(3, 5)>>,
           <<SetKey(2, 7)>>, <<SetKey(3, 9)>>, <<Count(2)>> >>)

RBTreeSizes ==
  Pairs(<< <<Size>>, <<SetKey(3, 4), Size>>, <<Size, SetKey(3, 5)>>, <<Erase(2), Size>>,
           <<SetKey(3, 3)>>, <<Erase(2)>>, <<SetKey(3, 3), Erase(3)>> >>)

(* From an empty tree, with the calls of STAMP too.                        *)
RBTreeFirsts ==
  Pairs(<< <<Do("insert", <<3, 3>>)>>, <<SetKey(3, 4), Erase(3)>>, <<SetKey(3, 3), SetKey(4, 4)>>,
           <<Do("find", <<3>>)>>, <<Erase(3)>>, <<Count(4), SetKey(3, 3)>>, <<Size, SetKey(5, 5)>> >>)

(* A transaction reads one key before and one key after another erases     *)
(* both.                                                                   *)
RBTreeReadsOn == <<Two(<< <<Erase(2), Erase(4)>> >>, << <<Count(2), Count(4)>> >>)>>
=============================================================================
