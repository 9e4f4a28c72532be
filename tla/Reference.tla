----------------------------- MODULE Reference -----------------------------
(***************************************************************************)
(* What the data structures promise: their content, and one call after the *)
(* other on it, as in the redoOp() and check() of Testers.hh and the       *)
(* sequential reruns of concurrent.cc and pqueue.cc.                       *)
(***************************************************************************)
EXTENDS TObjects

(* The content of an object: an array, a number, a sequence, pairs of keys *)
(* and values, a set, or the values of a priority queue in falling order.  *)
Descending(ob) ==
  LET live == {i \in DOMAIN ob.heap : ob.node[ob.heap[i]].flags = {}}
      v(i) == ob.node[ob.heap[i]].v
      Sorted[S \in SUBSET live] ==
        IF S = {} THEN <<>>
        ELSE LET i == CHOOSE i \in S : \A j \in S : v(i) >= v(j)
             IN <<v(i)>> \o Sorted[S \ {i}]
  IN Sorted[live]

Content(ob) ==
  CASE ob.kind = "TBox" -> [i \in DOMAIN ob.data |-> ob.data[i].v]
    [] ob.kind = "TGeneric" -> ob.mem
    [] ob.kind \in {"TIntPredicate", "TCounter"} -> ob.v
    [] ob.kind = "TVector" -> V!Value(ob)
    [] ob.kind = "TVector_nopred" -> N!Value(ob)
    [] ob.kind = "Vector" -> W!Value(ob)
    [] ob.kind = "Queue" -> Q!Value(ob)
    [] ob.kind = "PriorityQueue" -> Descending(ob)
    [] ob.kind = "List" -> L!Value(ob)
    [] ob.kind = "Hashtable" -> H!Value(ob)
    [] ob.kind = "RBTree" -> R!Value(ob)
    [] ob.kind = "TransMap" -> ob.map
    [] ob.kind = "TLayoutBT" -> UNION {ob.treelets[t].keys : t \in DOMAIN ob.treelets}

-----------------------------------------------------------------------------
(* A call c on the content v: the content afterwards and the result.       *)
After(v, r) == [v |-> v, r |-> r]

redoArray(v, c) ==
  CASE c.op = "get" -> After(v, v[c.a[1]])
    [] c.op = "put" -> After([v EXCEPT ![c.a[1]] = c.a[2]], Nothing)

redoNumber(v, c) ==
  CASE c.op = "get" -> After(v, v)
    [] c.op = "put" -> After(c.a[1], Nothing)
    [] c.op = "add" -> After(v + c.a[1], Nothing)
    [] c.op = "is" -> After(v, Related(v, c.a[1], c.a[2]))

redoVector(v, c) ==
  LET inside == c.a[1] \in 0 .. Len(v) - 1 IN
  CASE c.op = "get" -> After(v, IF inside THEN v[c.a[1] + 1] ELSE OutOfRange)
    [] c.op = "put" -> IF inside THEN After([v EXCEPT ![c.a[1] + 1] = c.a[2]], Nothing)
                                 ELSE After(v, OutOfRange)
    [] c.op = "push_back" -> After(Append(v, c.a[1]), Nothing)
    [] c.op = "pop_back" -> IF v = <<>> THEN After(v, OutOfRange)
                                        ELSE After(SubSeq(v, 1, Len(v) - 1), Nothing)
    [] c.op = "size" -> After(v, Len(v))
    [] c.op = "size_is" -> After(v, Related(Len(v), c.a[1], c.a[2]))

redoQueue(v, c) ==
  CASE c.op = "push" -> After(Append(v, c.a[1]), Nothing)
    [] c.op = "pop" -> IF v = <<>> THEN After(v, FALSE) ELSE After(Tail(v), TRUE)
    [] c.op = "front" -> After(v, IF v = <<>> THEN Nothing ELSE Head(v))

redoPriorityQueue(v, c) ==
  LET ahead == Cardinality({i \in DOMAIN v : v[i] >= c.a[1]}) IN
  CASE c.op = "push" ->
         After(SubSeq(v, 1, ahead) \o <<c.a[1]>> \o SubSeq(v, ahead + 1, Len(v)), Nothing)
    [] c.op = "pop" -> IF v = <<>> THEN After(v, -1) ELSE After(Tail(v), Head(v))
    [] c.op = "top" -> After(v, IF v = <<>> THEN -1 ELSE Head(v))

redoSet(v, c) ==
  LET e == c.a[1] IN
  CASE c.op = "find" -> After(v, IF e \in v THEN e ELSE Nothing)
    [] c.op = "insert" -> After(v \cup {e}, e \notin v)
    [] c.op = "delete" -> After(v \ {e}, e \in v)
    [] c.op = "size" -> After(v, Cardinality(v))

(* Every update of a TLayoutBT says true.                                  *)
redoTree(v, c) ==
  After(IF c.op = "insert" THEN v \cup {c.a[1]} ELSE v \ {c.a[1]}, TRUE)

(* put says whether the key was there, on a Hashtable.                     *)
redoMap(kind, v, c) ==
  LET old == {p \in v : p[1] = c.a[1]}
      there == old # {}
      new == (v \ old) \cup {<<c.a[1], c.a[2]>>}
  IN CASE c.op = "get" -> After(v, IF there THEN (CHOOSE p \in old : TRUE)[2] ELSE Nothing)
       [] c.op = "delete" -> After(v \ old, there)
       [] c.op = "insert" -> After(IF there THEN v ELSE new, ~there)
       [] c.op = "update" -> After(IF there THEN new ELSE v, there)
       [] c.op = "put" -> After(new, IF kind = "Hashtable" THEN there ELSE Nothing)

(* An RBTree as a std::map: operator[] inserts a key that is not there.    *)
redoRBTree(v, c) ==
  LET old == {p \in v : p[1] = c.a[1]}
      there == old # {}
      value == IF there THEN (CHOOSE p \in old : TRUE)[2] ELSE 0
      With(n) == (v \ old) \cup {<<c.a[1], n>>}
  IN CASE c.op = "put" -> After(With(c.a[2]), Nothing)
       [] c.op = "get" -> After(With(value), value)
       [] c.op = "insert" -> After(IF there THEN v ELSE With(c.a[2]), ~there)
       [] c.op = "find" -> After(v, value)
       [] c.op = "count" -> After(v, IF there THEN 1 ELSE 0)
       [] c.op = "erase" -> After(v \ old, IF there THEN 1 ELSE 0)
       [] c.op = "size" -> After(v, Cardinality(v))

redoOp(kind, v, c) ==
  CASE kind \in {"TBox", "TGeneric"} -> redoArray(v, c)
    [] kind \in {"TIntPredicate", "TCounter"} -> redoNumber(v, c)
    [] kind \in {"TVector", "TVector_nopred", "Vector"} -> redoVector(v, c)
    [] kind = "Queue" -> redoQueue(v, c)
    [] kind = "PriorityQueue" -> redoPriorityQueue(v, c)
    [] kind = "List" -> redoSet(v, c)
    [] kind = "TLayoutBT" -> redoTree(v, c)
    [] kind \in {"Hashtable", "TransMap"} -> redoMap(kind, v, c)
    [] kind = "RBTree" -> redoRBTree(v, c)

-----------------------------------------------------------------------------
(* Objects by name: kinds and contents.                                    *)
Contents(objects) == [o \in DOMAIN objects |-> Content(objects[o])]

Kinds(objects) == [o \in DOMAIN objects |-> objects[o].kind]

(* A log, calls with their results, played on the contents v: what is left *)
(* and whether every result is the one that was seen.                      *)
Replay(kinds, v, log) ==
  LET Play[i \in 0 .. Len(log)] ==
        IF i = 0 THEN [v |-> v, agrees |-> TRUE]
        ELSE LET s == Play[i - 1]
                 c == log[i]
                 n == redoOp(kinds[c.o], s.v[c.o], c)
             IN IF ~s.agrees THEN s
                ELSE [v |-> [s.v EXCEPT ![c.o] = n.v], agrees |-> n.r = c.r]
  IN Play[Len(log)]
=============================================================================
