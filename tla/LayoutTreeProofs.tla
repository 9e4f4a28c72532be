-------------------------- MODULE LayoutTreeProofs --------------------------
(***************************************************************************)
(* For any threads, keys, calls and sizes, and any number of layout        *)
(* changes: the backbone leads to the treelet that holds a key, and        *)
(* search, insert and remove are calls of one linearizable set.            *)
(***************************************************************************)
EXTENDS LayoutTree, LayoutLockProofs, SequenceTheorems, FiniteSetTheorems,
        WellFoundedInduction

-----------------------------------------------------------------------------
(* Numbers and keys in order                                               *)

LEMMA NatOrdered ==
  \E R : IsWellFoundedOn(R, Nat) /\ \A x, y \in Nat : y < x => <<y, x>> \in R
<1>1. \A x, y \in Nat : y < x => <<y, x>> \in OpToRel(<, Nat)
  BY DEF OpToRel
<1>2. QED BY <1>1, NatLessThanWellFounded, Zenon

(* A nonempty set of numbers has a least one.                              *)
LEMMA LeastNumber ==
  ASSUME NEW T \in SUBSET Nat, T # {}
  PROVE  \E x \in T : \A y \in T : x <= y
<1>1. PICK R : IsWellFoundedOn(R, Nat) /\ \A x, y \in Nat : y < x => <<y, x>> \in R
  BY NatOrdered
<1>2. PICK x \in T : \A y \in T : ~(<<y, x>> \in R)
  BY <1>1, WFMin
<1>3. ASSUME NEW y \in T PROVE x <= y
  <2>1. x \in Nat /\ y \in Nat
    OBVIOUS
  <2>2. ~(y < x)
    BY <1>1, <1>2, <2>1
  <2>3. QED BY <2>1, <2>2
<1>4. QED BY <1>3

(* s lists the elements of S in increasing order.                          *)
Lists(s, S) ==
  /\ s \in [1 .. Cardinality(S) -> S]
  /\ \A i, j \in 1 .. Cardinality(S) : i < j => s[i] < s[j]
  /\ \A k \in S : \E i \in 1 .. Cardinality(S) : s[i] = k

(* Every finite set of numbers can be listed: put its least element before *)
(* the list of the others.                                                 *)
LEMMA ListExists ==
  ASSUME NEW S \in SUBSET Nat, IsFiniteSet(S)
  PROVE  \E s : Lists(s, S)
<1> DEFINE Bad == {n \in Nat : \E T \in SUBSET Nat :
                     IsFiniteSet(T) /\ Cardinality(T) = n /\ ~\E s : Lists(s, T)}
<1>1. SUFFICES ASSUME Bad # {} PROVE FALSE
  <2>1. Cardinality(S) \in Nat
    BY FS_CardinalityType
  <2>2. QED BY <2>1
<1>2. PICK n \in Bad : \A m \in Bad : n <= m
  BY <1>1, LeastNumber
<1>3. PICK T \in SUBSET Nat :
        IsFiniteSet(T) /\ Cardinality(T) = n /\ ~\E s : Lists(s, T)
  BY <1>2
<1>4. CASE T = {}
  <2>1. Cardinality(T) = 0
    BY <1>4, FS_EmptySet
  <2>2. Lists([i \in 1 .. 0 |-> 0], T)
    BY <1>4, <2>1 DEF Lists
  <2>3. QED BY <1>3, <2>2
<1>5. CASE T # {}
  <2>1. PICK m \in T : \A k \in T : m <= k
    BY <1>5, LeastNumber
  <2> DEFINE U == T \ {m}
  <2>2. IsFiniteSet(U) /\ Cardinality(U) = n - 1 /\ U \in SUBSET Nat /\ n \in Nat
    BY <1>3, FS_RemoveElement
  <2>3. Cardinality(U) \in Nat
    BY <2>2, FS_CardinalityType
  <2>4. n - 1 \in Nat /\ n - 1 \notin Bad
    BY <1>2, <2>2, <2>3
  <2>5. PICK s : Lists(s, U)
    BY <2>2, <2>4
  <2> DEFINE l == [i \in 1 .. n |-> IF i = 1 THEN m ELSE s[i - 1]]
  <2>6. s \in [1 .. n - 1 -> U] /\ \A i \in 2 .. n : i - 1 \in 1 .. n - 1
    <3>1. s \in [1 .. n - 1 -> U]
      BY <2>2, <2>5 DEF Lists
    <3>2. n \in Nat
      BY <2>2
    <3>3. QED BY <3>1, <3>2
  <2>7. ASSUME NEW i \in 2 .. n
        PROVE  s[i - 1] \in U /\ s[i - 1] \in Nat /\ m < s[i - 1]
    <3>1. s[i - 1] \in U
      BY <2>6
    <3>2. s[i - 1] \in Nat /\ m \in Nat /\ m # s[i - 1] /\ m <= s[i - 1]
      BY <2>1, <3>1
    <3>3. QED BY <3>1, <3>2
  <2>8. l \in [1 .. n -> T]
    BY <2>6, <2>7
  <2>9. \A i, j \in 1 .. n : i < j => l[i] < l[j]
    <3>1. \A i, j \in 1 .. n - 1 : i < j => s[i] < s[j]
      BY <2>2, <2>5 DEF Lists
    <3>2. TAKE i, j \in 1 .. n
    <3>3. HAVE i < j
    <3>4. j \in 2 .. n /\ (i # 1 => i \in 2 .. n)
      BY <3>3, <2>4
    <3>5. QED BY <3>1, <3>3, <3>4, <2>6, <2>7
  <2>10. ASSUME NEW k \in T PROVE \E i \in 1 .. n : l[i] = k
    <3>1. CASE k = m
      BY <3>1, <2>4
    <3>2. CASE k # m
      <4>1. PICK i \in 1 .. n - 1 : s[i] = k
        BY <3>2, <2>2, <2>5 DEF Lists
      <4>2. i + 1 \in 1 .. n /\ l[i + 1] = k
        BY <4>1, <2>4
      <4>3. QED BY <4>2
    <3>3. QED BY <3>1, <3>2
  <2>11. Lists(l, T)
    BY <1>3, <2>8, <2>9, <2>10 DEF Lists
  <2>12. QED BY <1>3, <2>11
<1>6. QED BY <1>4, <1>5

(* addItems appends the keys of a treelet in increasing order, all of them.*)
LEMMA AddItems ==
  ASSUME NEW S \in SUBSET Nat, IsFiniteSet(S)
  PROVE  LET s == InOrder(S) IN
           /\ s \in Seq(S) /\ Increasing(s)
           /\ \A k \in S : \E i \in 1 .. Len(s) : s[i] = k
<1> DEFINE P(s) == /\ \A i, j \in 1 .. Cardinality(S) : i < j => s[i] < s[j]
                   /\ \A k \in S : \E i \in 1 .. Cardinality(S) : s[i] = k
           s == InOrder(S)
<1>1. PICK l \in [1 .. Cardinality(S) -> S] : P(l)
  BY ListExists DEF Lists
<1>2. s = CHOOSE x \in [1 .. Cardinality(S) -> S] : P(x)
  BY DEF InOrder
<1> HIDE DEF P, s
<1>3. s \in [1 .. Cardinality(S) -> S] /\ P(s)
  BY <1>1, <1>2, Zenon
<1>4. Cardinality(S) \in Nat
  BY FS_CardinalityType
<1>5. s \in Seq(S) /\ Len(s) = Cardinality(S)
  BY <1>3, <1>4, IsASeq
<1>6. QED BY <1>3, <1>5 DEF P, s, Increasing

-----------------------------------------------------------------------------
(* How constructBigNode and buildFromV divide v                            *)

LEMMA Keys == \A k \in Key : k \in Nat /\ k > 0
  BY TreeAssumption

(* asmsearch chooses child 1 up to the key and child 2 above it.           *)
LEMMA Sent ==
  ASSUME NEW S, NEW key
  PROVE  /\ sent(S, key, 1) = {k \in S : ~(k > key)}
         /\ sent(S, key, 2) = {k \in S : k > key}
  BY DEF sent, asmsearch

LEMMA Halves ==
  ASSUME NEW f \in Nat, NEW l \in Nat
  PROVE  /\ l \div 2 \in 0 .. l
         /\ childFirst(f, l, 1) = f
         /\ childFirst(f, l, 2) = f + l \div 2
         /\ childFirst(f, l, 3) = f + l
         /\ childLen(f, l, 1) = l \div 2
         /\ childLen(f, l, 2) = l - l \div 2
<1>1. l \div 2 \in 0 .. l
  OBVIOUS
<1>2. childFirst(f, l, 1) = f
  BY DEF childFirst
<1>3. childFirst(f, l, 2) = f + l \div 2
  BY DEF childFirst
<1>4. childFirst(f, l, 3) = f + l
  BY DEF childFirst
<1>5. QED BY <1>1, <1>2, <1>3, <1>4 DEF childLen

LEMMA HalvesWithin ==
  ASSUME NEW f \in Nat, NEW l \in Nat, NEW i \in 1 .. 2
  PROVE  /\ childFirst(f, l, i) \in Nat /\ childLen(f, l, i) \in Nat
         /\ childFirst(f, l, i) + childLen(f, l, i) <= f + l
<1> DEFINE h == l \div 2
<1>1. /\ h \in 0 .. l
      /\ childFirst(f, l, 1) = f /\ childFirst(f, l, 2) = f + h
      /\ childLen(f, l, 1) = h /\ childLen(f, l, 2) = l - h
  BY Halves
<1> HIDE DEF h
<1>2. CASE i = 1
  BY <1>1, <1>2
<1>3. CASE i = 2
  BY <1>1, <1>3
<1>4. QED BY <1>2, <1>3

(* A node over the part of s from f, with length l, sends the keys of the  *)
(* first half to child 1 and those of the second to child 2.               *)
LEMMA Split ==
  ASSUME NEW s \in Seq(Key), Increasing(s), NEW f \in Nat, NEW l \in Nat,
         f + l <= Len(s), NEW S,
         \A j \in 1 .. Len(s) : s[j] \in S <=> f < j /\ j <= f + l
  PROVE  LET key == bigNodeKey(s, f, l) IN
           /\ key \in Key \cup {0}
           /\ \A i \in 1 .. 2, j \in 1 .. Len(s) :
                s[j] \in sent(S, key, i) <=>
                  /\ childFirst(f, l, i) < j
                  /\ j <= childFirst(f, l, i) + childLen(f, l, i)
<1> DEFINE h == l \div 2
           key == bigNodeKey(s, f, l)
<1>1. h \in 0 .. l /\ h \in Nat
  OBVIOUS
<1>2. Len(s) \in Nat /\ \A j \in 1 .. Len(s) : s[j] \in Key /\ s[j] \in Nat /\ s[j] > 0
  BY Keys
<1>3. key \in Key \cup {0} /\ \A j \in 1 .. Len(s) : s[j] > key <=> j > f + h
  <2>1. CASE f + h <= 0
    <3>1. key = 0
      BY <2>1 DEF bigNodeKey
    <3>2. QED BY <1>1, <1>2, <2>1, <3>1
  <2>2. CASE f + h > 0
    <3>1. f + h \in 1 .. Len(s)
      BY <1>1, <1>2, <2>2
    <3>2. key = s[f + h]
      BY <1>1, <2>2 DEF bigNodeKey
    <3> HIDE DEF h, key
    <3>3. ASSUME NEW j \in 1 .. Len(s) PROVE s[j] > key <=> j > f + h
      <4>1. CASE j < f + h
        <5>1. s[j] < s[f + h]
          BY <3>1, <4>1 DEF Increasing
        <5>2. QED BY <1>2, <3>1, <3>2, <4>1, <5>1
      <4>2. CASE j > f + h
        <5>1. s[f + h] < s[j]
          BY <3>1, <4>2 DEF Increasing
        <5>2. QED BY <1>2, <3>1, <3>2, <4>2, <5>1
      <4>3. CASE j = f + h
        BY <1>2, <3>1, <3>2, <4>3
      <4>4. QED BY <1>1, <1>2, <4>1, <4>2, <4>3
    <3>4. QED BY <1>2, <3>1, <3>2, <3>3
  <2>3. QED BY <1>1, <2>1, <2>2
<1>4. /\ childFirst(f, l, 1) = f /\ childLen(f, l, 1) = h
      /\ childFirst(f, l, 2) = f + h /\ childLen(f, l, 2) = l - h
  BY Halves
<1> HIDE DEF h, key
<1>5. ASSUME NEW j \in 1 .. Len(s)
      PROVE  /\ s[j] \in sent(S, key, 1) <=> f < j /\ j <= f + h
             /\ s[j] \in sent(S, key, 2) <=> f + h < j /\ j <= (f + h) + (l - h)
  <2>1. /\ s[j] \in sent(S, key, 1) <=> s[j] \in S /\ ~(s[j] > key)
        /\ s[j] \in sent(S, key, 2) <=> s[j] \in S /\ s[j] > key
    BY Sent
  <2>2. QED BY <1>1, <1>3, <2>1
<1>6. QED
  <2>1. ASSUME NEW i \in 1 .. 2, NEW j \in 1 .. Len(s)
        PROVE  s[j] \in sent(S, key, i) <=>
                  /\ childFirst(f, l, i) < j
                  /\ j <= childFirst(f, l, i) + childLen(f, l, i)
    <3>1. i = 1 \/ i = 2
      OBVIOUS
    <3>2. QED BY <1>4, <1>5, <3>1
  <2>2. QED BY <1>3, <2>1 DEF key

(* A treelet made for child i takes the keys of v that lead to it.         *)
LEMMA ChildItems ==
  ASSUME NEW s \in Seq(Key), Increasing(s), NEW f \in Nat, NEW l \in Nat,
         f + l <= Len(s), NEW S,
         \A j \in 1 .. Len(s) : s[j] \in S <=> f < j /\ j <= f + l,
         NEW i \in 1 .. 2
  PROVE  LET items == childItems(s, f, l, i)
             S_i == sent(S, bigNodeKey(s, f, l), i)
         IN /\ items \subseteq S_i /\ items \subseteq Key /\ IsFiniteSet(items)
            /\ \A k \in items : \E j \in 1 .. Len(s) : s[j] = k
            /\ \A j \in 1 .. Len(s) : s[j] \in S_i => s[j] \in items
<1> DEFINE a == childFirst(f, l, i)
           b == childFirst(f, l, i + 1)
           items == childItems(s, f, l, i)
           S_i == sent(S, bigNodeKey(s, f, l), i)
<1>1. /\ a \in Nat /\ b \in Nat /\ 0 <= a /\ a <= b /\ b <= Len(s)
      /\ b = a + childLen(f, l, i)
  <2>1. i = 1 \/ i = 2
    OBVIOUS
  <2>2. Len(s) \in Nat
    OBVIOUS
  <2>3. CASE i = 1
    <3>1. a = f /\ b = f + l \div 2 /\ childLen(f, l, i) = b - a
      BY <2>3 DEF childLen, childFirst
    <3>2. l \div 2 \in 0 .. l
      OBVIOUS
    <3>3. QED BY <2>2, <3>1, <3>2
  <2>4. CASE i = 2
    <3>1. a = f + l \div 2 /\ b = f + l /\ childLen(f, l, i) = b - a
      BY <2>4 DEF childLen, childFirst
    <3>2. l \div 2 \in 0 .. l
      OBVIOUS
    <3>3. QED BY <2>2, <3>1, <3>2
  <2>5. QED BY <2>1, <2>3, <2>4
<1>2. items = {s[j] : j \in a + 1 .. b}
  BY DEF childItems
<1>3. \A j \in 1 .. Len(s) : s[j] \in S_i <=> a < j /\ j <= b
  BY <1>1, Split
<1> HIDE DEF a, b, items, S_i
<1>4. \A j \in 1 .. Len(s) : a < j /\ j <= b <=> j \in a + 1 .. b
  BY <1>1
<1>5. \A j \in a + 1 .. b : j \in 1 .. Len(s)
  BY <1>1
<1>6. items \subseteq S_i /\ items \subseteq Key
  BY <1>2, <1>3, <1>4, <1>5
<1>7. IsFiniteSet(items)
  <2>1. IsFiniteSet(a + 1 .. b)
    BY <1>1, FS_Interval
  <2>2. [j \in a + 1 .. b |-> s[j]] \in Surjection(a + 1 .. b, items)
    BY <1>2 DEF Surjection
  <2>3. QED BY <2>1, <2>2, FS_Surjection
<1>8. QED
  BY <1>2, <1>3, <1>4, <1>5, <1>6, <1>7 DEF items, S_i

-----------------------------------------------------------------------------
(* References and steps that leave the layout alone                        *)

LEMMA References ==
  ASSUME TreeTypeOK
  PROVE  /\ Len(nodes) \in Nat /\ Len(trees) \in Nat
         /\ \A r \in Ref : /\ r \in Int /\ r # 0
                           /\ IsNode(r) => -r \in 1 .. Len(nodes)
                           /\ ~IsNode(r) => r \in 1 .. Len(trees)
         /\ \A n \in 1 .. Len(nodes) : -n \in Ref
         /\ \A r \in 1 .. Len(trees) : r \in Ref
<1>1. Len(nodes) \in Nat /\ Len(trees) \in Nat
  BY DEF TreeTypeOK
<1>2. QED BY <1>1 DEF Ref, IsNode

LEMMA NodeType ==
  ASSUME TreeTypeOK, NEW n \in 1 .. Len(nodes)
  PROVE  /\ nodes[n] \in [key : Key \cup {0}, next : [1 .. 2 -> Ref]]
         /\ nodes[n].key \in Key \cup {0}
         /\ nodes[n].next \in [1 .. 2 -> Ref]
         /\ \A i \in 1 .. 2 : nodes[n].next[i] \in Ref
<1>1. nodes[n] \in [key : Key \cup {0}, next : [1 .. 2 -> Ref]]
  BY ElementOfSeq DEF TreeTypeOK
<1>2. QED BY <1>1

LEMMA TreeletType ==
  ASSUME TreeTypeOK, NEW r \in 1 .. Len(trees)
  PROVE  /\ trees[r] \in [lock : Thread \cup {0}, items : SUBSET Key]
         /\ trees[r].lock \in Thread \cup {0}
         /\ trees[r].items \subseteq Key
<1>1. trees[r] \in [lock : Thread \cup {0}, items : SUBSET Key]
  BY ElementOfSeq DEF TreeTypeOK
<1>2. QED BY <1>1

(* What a change of the layout would touch                                 *)
shapeVars == <<head, nodes, span, parts, c, todo, v>>

SameItems == \A r \in 1 .. Len(trees) : trees'[r].items = trees[r].items

backboneVars == <<head, nodes, span, parts, c>>

LEMMA SameBackbone ==
  ASSUME UNCHANGED backboneVars, Len(trees') = Len(trees)
  PROVE  /\ Ref' = Ref
         /\ \A r : Linked(r)' <=> Linked(r)
         /\ \A r, i : childSpan(r, i)' = childSpan(r, i)
         /\ \A r, i : Settled(r, i)' <=> Settled(r, i)
         /\ ShapeInv => ShapeInv'
         /\ LinkInv => LinkInv'
         /\ NoGap => NoGap'
<1> USE DEF backboneVars
<1>1. Ref' = Ref
  BY DEF Ref
<1>2. \A r : Linked(r)' <=> Linked(r)
  BY DEF Linked
<1>3. \A r, i : childSpan(r, i)' = childSpan(r, i)
  BY DEF childSpan, Node
<1>4. \A r, i : Settled(r, i)' <=> Settled(r, i)
  BY DEF Settled
<1>5. ShapeInv => ShapeInv'
  BY DEF ShapeInv
<1>6. LinkInv => LinkInv'
  BY <1>3, <1>4 DEF LinkInv
<1>7. NoGap => NoGap'
  BY <1>3, <1>4 DEF NoGap
<1>8. QED BY <1>1, <1>2, <1>3, <1>4, <1>5, <1>6, <1>7

LEMMA SameShape ==
  ASSUME UNCHANGED shapeVars, Len(trees') = Len(trees)
  PROVE  /\ Ref' = Ref
         /\ \A r : Linked(r)' <=> Linked(r)
         /\ \A r, i : childSpan(r, i)' = childSpan(r, i)
         /\ ShapeInv => ShapeInv'
         /\ LinkInv => LinkInv'
         /\ NoGap => NoGap'
         /\ GatherInv => GatherInv'
<1>1. UNCHANGED backboneVars
  BY DEF backboneVars, shapeVars
<1>2. /\ \A r : Linked(r)' <=> Linked(r)
      /\ \A r, i : childSpan(r, i)' = childSpan(r, i)
  BY <1>1, SameBackbone
<1>3. pending' = pending /\ \A i : rest(i)' = rest(i)
  BY <1>2 DEF pending, rest, shapeVars
<1>4. GatherInv => GatherInv'
  BY <1>2, <1>3 DEF GatherInv, isLeaf, Node, shapeVars
<1>5. QED BY <1>1, <1>4, SameBackbone

(* Nobody else is in a change's code.                                      *)
LEMMA OneOwner ==
  ASSUME LockInv, NEW t \in Thread, NEW u \in Thread,
         lpc[t] = "change", lpc[u] = "change"
  PROVE  t = u
<1>1. t \in Thread /\ Holds(t, t) /\ Holds(u, t)
  BY DEF Holds
<1>2. QED BY <1>1 DEF LockInv, HolderInv

LEMMA OwnerInChange ==
  ASSUME TreeInv, NEW t \in Thread, pc[t] \in Owning
  PROVE  lpc[t] = "change"
  BY DEF TreeInv, ControlInv

Working == {"gather", "take", "free", "build", "expand"}

(* Keys come and go within a treelet's span while no backbone is built.    *)
ItemsOK ==
  SameItems \/ (SpanInv' /\ \A u \in Thread : pc[u] \notin {"build", "expand"})

LEMMA QuietTree ==
  ASSUME TreeInv, UNCHANGED shapeVars, Len(trees') = Len(trees), ItemsOK,
         \A u \in Thread : \/ pc'[u] = pc[u]
                           \/ pc[u] \notin Working /\ pc'[u] \notin Working,
         \A u \in Thread : pc'[u] = "apply" =>
           pc[u] = "apply" \/ \A w \in Thread : pc[w] \notin {"build", "expand"},
         \A u \in Thread : pc[u] = "take" => cur'[u] = cur[u]
  PROVE  ShapeInv' /\ SpanInv' /\ LinkInv' /\ ChangeInv'
<1>1. ShapeInv' /\ LinkInv'
  BY SameShape DEF TreeInv
<1>2. SpanInv'
  <2>1. Ref' = Ref /\ \A r : Linked(r)' <=> Linked(r)
    BY SameShape
  <2>2. SameItems => SpanInv'
    BY <2>1 DEF TreeInv, SpanInv, SameItems, shapeVars
  <2>3. QED BY <2>2 DEF ItemsOK
<1>3. BuildInv /\ SameItems /\ (\A u \in Thread : pc'[u] # "apply") => BuildInv'
  <2>1. /\ \A r : Linked(r)' <=> Linked(r)
        /\ \A r, i : childSpan(r, i)' = childSpan(r, i)
    BY SameShape
  <2>2. pending' = pending /\ \A i : rest(i)' = rest(i)
    BY <2>1 DEF pending, rest, shapeVars
  <2>3. \A p : PartInv(p)' <=> PartInv(p)
    BY DEF PartInv, shapeVars
  <2>4. QED BY <2>1, <2>2, <2>3 DEF BuildInv, SameItems, shapeVars
<1>4. ASSUME NEW u \in Thread
      PROVE  /\ pc'[u] \in Working \/ pc[u] \in Working => pc'[u] = pc[u]
             /\ pc'[u] \in {"build", "expand"} => \A w \in Thread : pc'[w] # "apply"
  <2>1. pc'[u] \in Working \/ pc[u] \in Working => pc'[u] = pc[u]
    OBVIOUS
  <2>2. ASSUME pc'[u] \in {"build", "expand"}, NEW w \in Thread PROVE pc'[w] # "apply"
    <3>1. pc[u] \in {"build", "expand"}
      BY <2>1, <2>2 DEF Working
    <3>2. pc[w] # "apply"
      BY <3>1 DEF TreeInv, ChangeInv, OwnerInv, BuildInv
    <3>3. QED BY <3>1, <3>2
  <2>3. QED BY <2>1, <2>2
<1>5. \A u \in Thread :
        /\ pc'[u] \in {"gather", "take", "free"} => pc'[u] = pc[u]
        /\ pc[u] \in {"gather", "take", "free"} => pc'[u] = pc[u]
        /\ pc'[u] \in {"build", "expand"} => pc'[u] = pc[u]
        /\ pc[u] \in {"build", "expand"} => pc'[u] = pc[u]
  BY <1>4 DEF Working
<1>6. ASSUME NEW u \in Thread PROVE OwnerInv(u)'
  <2>1. OwnerInv(u)
    BY DEF TreeInv, ChangeInv
  <2>2. (GatherInv => GatherInv') /\ victim' = victim /\ (ExpandInv => ExpandInv')
    BY SameShape DEF shapeVars, victim, ExpandInv, Node, isLeaf
  <2>3. pc'[u] \in {"build", "expand"} => BuildInv'
    BY <1>3, <1>4, <1>5, <2>1 DEF OwnerInv, ItemsOK
  <2>4. isLeaf(todo[1])' <=> isLeaf(todo[1])
    BY DEF shapeVars, isLeaf, Node
  <2>5. QED BY <1>5, <2>1, <2>2, <2>3, <2>4 DEF OwnerInv, shapeVars
<1>7. RestInv'
  <2>1. (Gathering => Gathering') /\ (Building => Building')
    BY <1>5 DEF Gathering, Building, shapeVars
  <2>2. NoGap => NoGap'
    BY SameShape
  <2>3. QED BY <2>1, <2>2 DEF TreeInv, ChangeInv, RestInv, shapeVars
<1>8. Increasing(v)'
  BY DEF TreeInv, ChangeInv, Increasing, shapeVars
<1>9. QED BY <1>1, <1>2, <1>6, <1>7, <1>8 DEF ChangeInv

(* A step of t that concerns t and the treelets t has or takes             *)
Aside(t, u) ==
  /\ pc'[u] = pc[u] /\ lpc'[u] = lpc[u] /\ call'[u] = call[u]
  /\ cur'[u] = cur[u] /\ side'[u] = side[u]
  /\ \A r \in 1 .. Len(trees) : trees[r].lock = u => trees'[r].lock = u

Quiet(t) ==
  /\ UNCHANGED shapeVars /\ Len(trees') = Len(trees)
  /\ \A u \in Thread \ {t} : Aside(t, u) /\ stale'[u] = stale[u]
  /\ lpc'[t] = "read" => \/ lpc[t] = "read" /\ stale'[t] = stale[t]
                         \/ (\E u \in Thread : lpc[u] = "change") => stale'[t]

(* The other threads keep what they know.                                  *)
LEMMA Others ==
  ASSUME TreeInv, NEW t \in Thread, Quiet(t), NEW u \in Thread \ {t}
  PROVE  ControlInv(u)' /\ CallInv(u)' /\ WalkInv(u)'
<1>1. ControlInv(u) /\ CallInv(u) /\ WalkInv(u) /\ Aside(t, u) /\ stale'[u] = stale[u]
  BY DEF TreeInv, Quiet
<1>2. ControlInv(u)' /\ CallInv(u)'
  BY <1>1 DEF ControlInv, CallInv, Aside
<1>3. /\ Ref' = Ref
      /\ \A r : Linked(r)' <=> Linked(r)
      /\ \A r, i : childSpan(r, i)' = childSpan(r, i)
  BY SameShape DEF Quiet
<1>4. UNCHANGED <<span, shapeVars>> /\ Len(trees') = Len(trees)
  BY DEF Quiet, shapeVars
<1>5. /\ pc'[u] \in {"walk", "next"} => cur'[u] \in Ref'
      /\ pc'[u] = "next" => cur'[u] < 0
      /\ pc'[u] \in {"check", "giveup", "apply", "take", "free", "freeroot"} =>
           cur'[u] \in 1 .. Len(trees') /\ trees'[cur'[u]].lock = u
      /\ pc'[u] \in {"free", "freeroot"} => cur'[u] = NULL_TREE \/ ~Linked(cur[u])'
  BY <1>1, <1>3, <1>4 DEF WalkInv, Aside
<1>6. (pc'[u] \in {"walk", "next", "check"} /\ ~stale'[u]) \/ pc'[u] = "apply" =>
        /\ cur'[u] \in DOMAIN span' /\ call'[u].key \in span'[cur'[u]]
        /\ Linked(cur[u])'
        /\ pc'[u] = "next" => call'[u].key \in childSpan(cur[u], side[u])'
  BY <1>1, <1>3, <1>4 DEF WalkInv, Aside
<1>7. pc'[u] \in Owning => \A w \in Thread : lpc'[w] = "read" => stale'[w]
  <2> SUFFICES ASSUME pc'[u] \in Owning, NEW w \in Thread, lpc'[w] = "read"
               PROVE  stale'[w]
    OBVIOUS
  <2>1. pc[u] \in Owning /\ lpc[u] = "change" /\ (lpc[w] = "read" => stale[w])
    BY <1>1 DEF Aside, WalkInv, ControlInv
  <2>2. QED BY <2>1 DEF Quiet, Aside
<1>8. QED BY <1>2, <1>5, <1>6, <1>7 DEF WalkInv

(* While the owner works on the layout, readers know that they are late,   *)
(* and a validated insert or remove still holds its treelet.               *)
LEMMA OthersDuringChange ==
  ASSUME LockInv, TreeInv, NEW t \in Thread, lpc[t] = "change",
         NEW u \in Thread \ {t}, Aside(t, u),
         lpc[u] = "read" => stale'[u],
         Ref \subseteq Ref', Len(trees) <= Len(trees'), Len(trees') \in Nat,
         pc[u] = "apply" =>
           /\ cur[u] \in DOMAIN span' /\ call[u].key \in span'[cur[u]]
           /\ Linked(cur[u])'
  PROVE  ControlInv(u)' /\ CallInv(u)' /\ WalkInv(u)'
<1>1. ControlInv(u) /\ CallInv(u) /\ WalkInv(u) /\ TreeTypeOK
  BY DEF TreeInv
<1>2. ControlInv(u)' /\ CallInv(u)'
  BY <1>1 DEF ControlInv, CallInv, Aside
<1>3. lpc[u] # "change" /\ pc[u] \notin Owning
  BY <1>1, OneOwner DEF ControlInv
<1>4. pc[u] \in {"walk", "next", "check"} => stale'[u]
  BY <1>1 DEF ControlInv
<1>5. cur[u] \in 1 .. Len(trees) => cur[u] \in 1 .. Len(trees')
  BY <1>1, References
<1>6. pc'[u] = "apply" =>
        /\ cur'[u] \in DOMAIN span' /\ call'[u].key \in span'[cur'[u]]
        /\ Linked(cur[u])'
  BY DEF Aside
<1>7. WalkInv(u)'
  BY <1>1, <1>3, <1>4, <1>5, <1>6 DEF WalkInv, Aside, Owning
<1>8. QED BY <1>2, <1>7

LEMMA QuietStep ==
  ASSUME TreeInv, NEW t \in Thread, Quiet(t), ItemsOK, TreeTypeOK',
         ControlInv(t)', CallInv(t)', WalkInv(t)',
         pc'[t] = pc[t] \/ (pc[t] \notin Working /\ pc'[t] \notin Working),
         pc'[t] = "apply" =>
           pc[t] = "apply" \/ \A w \in Thread : pc[w] \notin {"build", "expand"},
         pc[t] = "take" => cur'[t] = cur[t]
  PROVE  TreeInv'
<1>1. \A u \in Thread : ControlInv(u)' /\ CallInv(u)' /\ WalkInv(u)'
  BY Others
<1>2. /\ \A u \in Thread : \/ pc'[u] = pc[u]
                           \/ pc[u] \notin Working /\ pc'[u] \notin Working
      /\ \A u \in Thread : pc'[u] = "apply" =>
           pc[u] = "apply" \/ \A w \in Thread : pc[w] \notin {"build", "expand"}
      /\ \A u \in Thread : pc[u] = "take" => cur'[u] = cur[u]
  BY DEF Quiet, Aside
<1>3. ShapeInv' /\ SpanInv' /\ LinkInv' /\ ChangeInv'
  BY <1>2, QuietTree DEF Quiet
<1>4. QED BY <1>1, <1>3 DEF TreeInv

(* Every step makes one of the lock's steps, or none.                      *)
LEMMA StepKeepsLock ==
  ASSUME LockInv, NEW t \in Thread, Step(t)
  PROVE  LockInv'
<1> DEFINE LockOp ==
             \/ startRead(t) \/ finishRead(t) \/ endRead(t) \/ resetDirty(t)
             \/ startLayoutChange(t) \/ write_lock(t) \/ MarkDirty(t)
             \/ changeLayout(t) \/ finishLayoutChange(t) \/ write_unlock(t)
             \/ UNCHANGED lockVars
<1>1. LockStep(t) => LockOp /\ UNCHANGED calls
  BY DEF LockStep, allLockVars
<1>2. (LoadHead(t) \/ LoadLimit(t)) => LockOp /\ UNCHANGED calls
  BY DEF LoadHead, LoadLimit, allLockVars
<1>3. (Check(t) \/ CheckLimit(t)) => LockOp /\ UNCHANGED calls
  BY DEF Check, CheckLimit, allLockVars
<1>4. Apply(t) => LockOp /\ UNCHANGED calls
  BY DEF Apply, allLockVars
<1>5. Decide(t) => LockOp /\ UNCHANGED calls
  BY DEF Decide, allLockVars
<1>6. StartChange(t) => LockOp /\ UNCHANGED calls
  BY DEF StartChange, allLockVars
<1>7. (GiveUpChange(t) \/ FinishChange(t)) => LockOp /\ UNCHANGED calls
  BY DEF GiveUpChange, FinishChange, allLockVars
<1>8. enlarge_tree(t) => LockOp /\ UNCHANGED calls
  BY DEF enlarge_tree, allLockVars
<1>9. NewRoot(t) => LockOp /\ UNCHANGED calls
  BY DEF NewRoot, allLockVars
<1>10. GatherTake(t) => LockOp /\ UNCHANGED calls
  BY DEF GatherTake, allLockVars
<1>11. BuildKey(t) => LockOp /\ UNCHANGED calls
  BY DEF BuildKey, allLockVars
<1>12. expandLeafBigNode(t) => LockOp /\ UNCHANGED calls
  BY DEF expandLeafBigNode, allLockVars
<1>13. (LoadKey(t) \/ LoadNext(t) \/ Acquire(t) \/ GiveUp(t)) => LockOp /\ UNCHANGED calls
  BY DEF LoadKey, LoadNext, Acquire, GiveUp, allLockVars
<1>14. (FlushCount(t) \/ ResetCount(t) \/ Return(t) \/ shrink_tree(t)) => LockOp /\ UNCHANGED calls
  BY DEF FlushCount, ResetCount, Return, shrink_tree, allLockVars
<1>15. (GatherChildren(t) \/ GatherAcquire(t)) => LockOp /\ UNCHANGED calls
  BY DEF GatherChildren, GatherAcquire, allLockVars
<1>16. (FreeRoot(t) \/ FreeTreelet(t)) => LockOp /\ UNCHANGED calls
  BY DEF FreeRoot, FreeTreelet, allLockVars
<1>17. LockOp /\ UNCHANGED calls
  BY <1>1, <1>2, <1>3, <1>4, <1>5, <1>6, <1>7, <1>8, <1>9, <1>10, <1>11, <1>12, <1>13, <1>14, <1>15, <1>16 DEF Step
<1>18. calls' \in [Thread -> Nat]
  BY <1>17 DEF LockInv, LockTypeOK
<1>19. QED BY <1>17, <1>18, ReadSteps, ChangeSteps, CallsOnly

LEMMA InvokeKeepsLock ==
  ASSUME LockInv, NEW t \in Thread, NEW op, NEW k, Invoke(t, op, k)
  PROVE  LockInv'
<1>1. calls' \in [Thread -> Nat]
  BY DEF LockInv, LockTypeOK, Invoke
<1>2. UNCHANGED lockVars
  BY DEF Invoke
<1>3. QED BY <1>1, <1>2, CallsOnly

-----------------------------------------------------------------------------
(* Steps that leave the treelets alone                                     *)

Call == [op : {"search", "insert", "remove"}, key : Key,
         res : {"none", "true", "false"}] \cup {Idle}

(* What such a step has to keep                                            *)
LEMMA PlainStep ==
  ASSUME TreeInv, LockInv', NEW t \in Thread,
         UNCHANGED <<treeVars, changeVars>>,
         pc' \in [Thread -> Place], call' \in [Thread -> Call],
         cur' \in [Thread -> Ref \cup {0}], side' \in [Thread -> 1 .. 2],
         heuristic' \in [Thread -> Int], sz' \in [Thread -> Int],
         limit' \in [Thread -> Int],
         {fuzzySize', enlargeWhen', shrinkWhen', backboneSize'} \subseteq Int,
         \A u \in Thread \ {t} :
           /\ pc'[u] = pc[u] /\ lpc'[u] = lpc[u] /\ call'[u] = call[u]
           /\ cur'[u] = cur[u] /\ side'[u] = side[u] /\ stale'[u] = stale[u],
         lpc'[t] = "read" => \/ lpc[t] = "read" /\ stale'[t] = stale[t]
                             \/ (\E u \in Thread : lpc[u] = "change") => stale'[t],
         ControlInv(t)', CallInv(t)', WalkInv(t)',
         pc'[t] = pc[t] \/ (pc[t] \notin Working /\ pc'[t] \notin Working),
         pc'[t] = "apply" =>
           pc[t] = "apply" \/ \A w \in Thread : pc[w] \notin {"build", "expand"},
         cur'[t] = cur[t] \/ pc[t] # "take"
  PROVE  TreeInv'
<1>1. Quiet(t) /\ SameItems
  BY DEF Quiet, Aside, SameItems, shapeVars, treeVars, changeVars
<1>2. TreeTypeOK'
  <2>1. Ref' = Ref
    BY DEF Ref, treeVars
  <2>2. QED BY <2>1 DEF TreeInv, TreeTypeOK, LockInv, Call, treeVars, changeVars
<1>3. QED BY <1>1, <1>2, QuietStep DEF ItemsOK

LEMMA DoLoadHead ==
  ASSUME LockInv, TreeInv, LockInv', NEW t \in Thread, LoadHead(t)
  PROVE  TreeInv'
<1>1. TreeTypeOK /\ ControlInv(t) /\ CallInv(t) /\ WalkInv(t) /\ SpanInv
  BY DEF TreeInv
<1>2. /\ UNCHANGED <<treeVars, changeVars, sizeVars, countVars, call, side>>
      /\ pc[t] = "start" /\ pc' = [pc EXCEPT ![t] = "walk"]
      /\ cur' = [cur EXCEPT ![t] = head]
      /\ lpc' = [lpc EXCEPT ![t] = "read"]
      /\ stale' = [stale EXCEPT ![t] = \E u \in Thread : lpc[u] = "change"]
  BY DEF LoadHead, startRead, goes, to
<1>3. (\E u \in Thread : lpc[u] = "change") => stale'[t]
  BY <1>1, <1>2, Zenon DEF TreeTypeOK, LockTypeOK
<1>4. /\ pc' \in [Thread -> Place] /\ pc'[t] = "walk" /\ lpc'[t] = "read"
      /\ cur' \in [Thread -> Ref \cup {0}] /\ cur'[t] = head
      /\ \A u \in Thread \ {t} : /\ pc'[u] = pc[u] /\ lpc'[u] = lpc[u]
                                 /\ cur'[u] = cur[u] /\ stale'[u] = stale[u]
  BY <1>1, <1>2 DEF TreeTypeOK, LockTypeOK, Place, Before
<1>5. ControlInv(t)' /\ CallInv(t)'
  BY <1>1, <1>2, <1>4 DEF ControlInv, CallInv, Before, Owning
<1>6. WalkInv(t)'
  <2>1. head' \in Ref' /\ head' \in DOMAIN span' /\ span'[head'] = Key /\ Linked(head)'
    BY <1>1, <1>2 DEF TreeTypeOK, SpanInv, Linked, treeVars, changeVars, Ref
  <2>2. call'[t].key \in Key
    BY <1>1, <1>2 DEF TreeTypeOK, CallInv, Idle
  <2>3. QED BY <1>2, <1>4, <2>1, <2>2 DEF WalkInv, Owning, treeVars
<1>7. QED
  BY <1>1, <1>2, <1>3, <1>4, <1>5, <1>6, PlainStep
  DEF TreeTypeOK, Call, Place, Working, sizeVars, countVars

LEMMA DoLoadKey ==
  ASSUME LockInv, TreeInv, LockInv', NEW t \in Thread, LoadKey(t)
  PROVE  TreeInv'
<1> DEFINE s == asmsearch(call[t].key, Node(cur[t]))
<1>1. TreeTypeOK /\ ControlInv(t) /\ CallInv(t) /\ WalkInv(t)
  BY DEF TreeInv
<1>2. /\ UNCHANGED <<treeVars, changeVars, sizeVars, countVars, call, cur, lpc, stale>>
      /\ pc[t] = "walk" /\ IsNode(cur[t]) /\ pc' = [pc EXCEPT ![t] = "next"]
      /\ side' = [side EXCEPT ![t] = s]
  BY DEF LoadKey, to, allLockVars, lockVars
<1>3. s \in 1 .. 2
  BY DEF asmsearch
<1>4. /\ pc' \in [Thread -> Place] /\ pc'[t] = "next"
      /\ side' \in [Thread -> 1 .. 2] /\ side'[t] = s
      /\ \A u \in Thread \ {t} : pc'[u] = pc[u] /\ side'[u] = side[u]
  BY <1>1, <1>2, <1>3 DEF TreeTypeOK, Place, Before
<1>5. ControlInv(t)' /\ CallInv(t)'
  BY <1>1, <1>2, <1>4 DEF ControlInv, CallInv, Before, Owning
<1>6. WalkInv(t)'
  <2>1. \A r, i : /\ childSpan(r, i)' = childSpan(r, i)
                  /\ Linked(r)' <=> Linked(r)
                  /\ Ref' = Ref
    BY <1>2, SameShape DEF shapeVars, treeVars, changeVars
  <2>2. call[t].key \in span[cur[t]] => call[t].key \in childSpan(cur[t], s)
    BY DEF childSpan, sent, asmsearch
  <2>3. cur[t] < 0
    BY <1>2 DEF IsNode
  <2>4. QED BY <1>1, <1>2, <1>4, <2>1, <2>2, <2>3 DEF WalkInv, Owning, changeVars
<1>7. QED
  BY <1>1, <1>2, <1>4, <1>5, <1>6, PlainStep
  DEF TreeTypeOK, Call, Working, sizeVars, countVars

(* While a reader can still succeed nobody is changing the layout: it      *)
(* leads on, for every key that comes to a node.                           *)
LEMMA LeadsOn ==
  ASSUME TreeInv, \A u \in Thread : pc[u] \notin Owning,
         NEW r \in DOMAIN span, IsNode(r), NEW i \in 1 .. 2,
         NEW k \in childSpan(r, i)
  PROVE  LET q == Node(r).next[i] IN
           /\ q \in Ref /\ q # NULL_TREE
           /\ q \in DOMAIN span /\ span[q] = childSpan(r, i) /\ Linked(q)
<1> DEFINE q == Node(r).next[i]
<1>1. r \in Ref /\ -r \in 1 .. Len(nodes) /\ r \in Int
  BY References DEF TreeInv, SpanInv
<1>2. q = nodes[-r].next[i] /\ r = -(-r)
  BY <1>1 DEF Node
<1>3. q \in Ref /\ Linked(q)
  BY <1>1, <1>2, NodeType DEF TreeInv, Linked
<1>4. parts = <<>> /\ NoGap
  BY DEF TreeInv, ChangeInv, RestInv, Gathering, Building, Owning
<1>5. Settled(r, i)
  BY <1>4 DEF Settled
<1>6. q # NULL_TREE
  BY <1>1, <1>2, <1>4, <1>5 DEF NoGap
<1>7. q \in DOMAIN span /\ span[q] = childSpan(r, i)
  BY <1>1, <1>2, <1>5, <1>6 DEF TreeInv, LinkInv
<1>8. QED BY <1>3, <1>6, <1>7

LEMMA DoLoadNext ==
  ASSUME LockInv, TreeInv, LockInv', NEW t \in Thread, LoadNext(t)
  PROVE  TreeInv'
<1> DEFINE q == Node(cur[t]).next[side[t]]
<1>1. TreeTypeOK /\ ControlInv(t) /\ CallInv(t) /\ WalkInv(t)
  BY DEF TreeInv
<1>2. /\ UNCHANGED <<treeVars, changeVars, sizeVars, countVars, call, lpc, stale>>
      /\ pc[t] = "next" /\ pc' = [pc EXCEPT ![t] = "walk"]
      /\ cur' = [cur EXCEPT ![t] = q]
      /\ side' = [side EXCEPT ![t] = 1]
  BY DEF LoadNext, to, allLockVars, lockVars
<1>3. q \in Ref /\ Linked(q)
  <2>1. IsNode(cur[t]) /\ cur[t] \in Ref /\ side[t] \in 1 .. 2
    BY <1>1, <1>2 DEF WalkInv, IsNode, TreeTypeOK
  <2>2. -cur[t] \in 1 .. Len(nodes)
    BY <1>1, <2>1, References
  <2>3. QED BY <1>1, <2>1, <2>2, NodeType DEF Node, Linked
<1>4. /\ pc' \in [Thread -> Place] /\ pc'[t] = "walk"
      /\ side' \in [Thread -> 1 .. 2]
      /\ cur' \in [Thread -> Ref \cup {0}] /\ cur'[t] = q
      /\ \A u \in Thread \ {t} : /\ pc'[u] = pc[u] /\ side'[u] = side[u]
                                 /\ cur'[u] = cur[u]
  BY <1>1, <1>2, <1>3 DEF TreeTypeOK, Place, Before
<1>5. ControlInv(t)' /\ CallInv(t)'
  BY <1>1, <1>2, <1>4 DEF ControlInv, CallInv, Before, Owning
<1>6. WalkInv(t)'
  <2>1. \A r, i : /\ childSpan(r, i)' = childSpan(r, i)
                  /\ Linked(r)' <=> Linked(r)
                  /\ Ref' = Ref
    BY <1>2, SameShape DEF shapeVars, treeVars, changeVars
  <2>2. ASSUME ~stale[t] PROVE q \in DOMAIN span /\ call[t].key \in span[q]
    <3>1. \A u \in Thread : pc[u] \notin Owning
      BY <1>1, <1>2, <2>2 DEF TreeInv, WalkInv, ControlInv
    <3>2. /\ cur[t] \in DOMAIN span /\ IsNode(cur[t])
          /\ side[t] \in 1 .. 2 /\ call[t].key \in childSpan(cur[t], side[t])
      BY <1>1, <1>2, <2>2 DEF WalkInv, IsNode, TreeTypeOK
    <3>3. QED BY <3>1, <3>2, LeadsOn
  <2>3. QED BY <1>2, <1>3, <1>4, <2>1, <2>2 DEF WalkInv, Owning, changeVars
<1>7. QED
  BY <1>1, <1>2, <1>4, <1>5, <1>6, PlainStep
  DEF TreeTypeOK, Call, Place, Before, Working, sizeVars, countVars

(* Steps after which t is elsewhere, in the tree's code or in the lock's,  *)
(* and that do not change what it knows of the tree                        *)
LEMMA PlaceStep ==
  ASSUME TreeInv, LockInv', NEW t \in Thread, NEW place \in Place,
         UNCHANGED <<treeVars, changeVars, call, cur, side>>,
         pc' = [pc EXCEPT ![t] = place], \A u \in Thread \ {t} : lpc'[u] = lpc[u],
         \A u \in Thread \ {t} : stale'[u] = stale[u],
         heuristic' \in [Thread -> Int], sz' \in [Thread -> Int],
         limit' \in [Thread -> Int],
         {fuzzySize', enlargeWhen', shrinkWhen', backboneSize'} \subseteq Int,
         lpc'[t] = "read" => \/ lpc[t] = "read" /\ stale'[t] = stale[t]
                             \/ (\E u \in Thread : lpc[u] = "change") => stale'[t],
         ControlInv(t)',
         pc[t] # "idle" /\ place # "idle" /\ (pc[t] \in Before <=> place \in Before),
         \/ place = pc[t] /\ stale'[t] = stale[t] /\ (lpc'[t] = "read" => lpc[t] = "read")
         \/ place \notin {"walk", "next", "check", "giveup", "apply"} \cup Owning,
         place = pc[t] \/ pc[t] \notin Working
  PROVE  TreeInv'
<1>1. TreeTypeOK /\ ControlInv(t) /\ CallInv(t) /\ WalkInv(t)
  BY DEF TreeInv
<1>2. pc' \in [Thread -> Place] /\ pc'[t] = place /\ \A u \in Thread \ {t} : pc'[u] = pc[u]
  BY <1>1 DEF TreeTypeOK
<1>3. CallInv(t)'
  BY <1>1, <1>2 DEF CallInv
<1>4. WalkInv(t)'
  <2>1. CASE place \notin {"walk", "next", "check", "giveup", "apply"} \cup Owning
    BY <1>2, <2>1 DEF WalkInv, Owning
  <2>2. CASE place = pc[t] /\ stale'[t] = stale[t] /\ (lpc'[t] = "read" => lpc[t] = "read")
    <3>1. \A r, i : /\ childSpan(r, i)' = childSpan(r, i)
                    /\ Linked(r)' <=> Linked(r)
                    /\ Ref' = Ref
      BY SameShape DEF shapeVars, treeVars, changeVars
    <3>2. \A w \in Thread : (lpc'[w] = "read" => lpc[w] = "read") /\ stale'[w] = stale[w]
      BY <2>2
    <3>3. QED BY <1>1, <1>2, <2>2, <3>1, <3>2 DEF WalkInv, treeVars, changeVars
  <2>3. QED BY <2>1, <2>2
<1>5. QED
  BY <1>1, <1>2, <1>3, <1>4, PlainStep DEF TreeTypeOK, Call, Working, Owning, Before

LEMMA DoCheckLimit ==
  ASSUME LockInv, TreeInv, LockInv', NEW t \in Thread, CheckLimit(t)
  PROVE  TreeInv'
<1>1. TreeTypeOK /\ ControlInv(t)
  BY DEF TreeInv
<1> DEFINE place == IF dirty[t] = 0 THEN "decide" ELSE "limit"
<1>2. /\ UNCHANGED <<treeVars, changeVars, sizeVars, countVars, call, cur, side, stale>>
      /\ pc[t] = "limitcheck" /\ pc' = [pc EXCEPT ![t] = place]
      /\ lpc' = [lpc EXCEPT ![t] = IF dirty[t] = 0 THEN "valid" ELSE "reset"]
  BY DEF CheckLimit, to, finishRead, goes, walkVars
<1>3. place \in {"decide", "limit"} /\ place \in Place
  BY DEF Place
<1>4. /\ lpc'[t] = IF dirty[t] = 0 THEN "valid" ELSE "reset"
      /\ \A u \in Thread \ {t} : lpc'[u] = lpc[u]
      /\ pc'[t] = place
  BY <1>1, <1>2 DEF TreeTypeOK, LockTypeOK
<1>5. ControlInv(t)'
  BY <1>4 DEF ControlInv, Before, Owning, Failing
<1>6. lpc'[t] # "read"
  BY <1>4
<1> HIDE DEF place
<1>7. QED
  BY <1>1, <1>2, <1>3, <1>4, <1>5, <1>6, PlaceStep
  DEF TreeTypeOK, Place, Working, Owning, Before, sizeVars, countVars

LEMMA DoLoadLimit ==
  ASSUME LockInv, TreeInv, LockInv', NEW t \in Thread, LoadLimit(t)
  PROVE  TreeInv'
<1>1. TreeTypeOK /\ ControlInv(t)
  BY DEF TreeInv
<1>2. /\ UNCHANGED <<treeVars, changeVars, sizeVars, call, cur, side, heuristic, sz>>
      /\ pc[t] = "limit" /\ pc' = [pc EXCEPT ![t] = "limitcheck"]
      /\ lpc' = [lpc EXCEPT ![t] = "read"]
      /\ stale' = [stale EXCEPT ![t] = \E u \in Thread : lpc[u] = "change"]
      /\ limit' = [limit EXCEPT ![t] = IF call[t].op = "insert" THEN enlargeWhen
                                                                ELSE shrinkWhen]
  BY DEF LoadLimit, to, startRead, goes, walkVars
<1>3. (\E u \in Thread : lpc[u] = "change") => stale'[t]
  BY <1>1, <1>2, Zenon DEF TreeTypeOK, LockTypeOK
<1>4. /\ lpc'[t] = "read" /\ pc'[t] = "limitcheck"
      /\ \A u \in Thread \ {t} : lpc'[u] = lpc[u] /\ stale'[u] = stale[u]
      /\ limit' \in [Thread -> Int]
  BY <1>1, <1>2 DEF TreeTypeOK, LockTypeOK
<1>5. ControlInv(t)'
  BY <1>4 DEF ControlInv, Before, Owning, Failing
<1>6. QED
  BY <1>1, <1>2, <1>3, <1>4, <1>5, PlaceStep
  DEF TreeTypeOK, Place, Working, Owning, Before, sizeVars

LEMMA DoDecide ==
  ASSUME LockInv, TreeInv, LockInv', NEW t \in Thread, Decide(t)
  PROVE  TreeInv'
<1>1. TreeTypeOK /\ ControlInv(t)
  BY DEF TreeInv
<1>2. /\ UNCHANGED <<treeVars, changeVars, sizeVars, call, cur, side, heuristic, sz>>
      /\ pc[t] = "decide"
      /\ \E place \in {"change", "counted"} : pc' = [pc EXCEPT ![t] = place]
      /\ lpc' = [lpc EXCEPT ![t] = "out"]
      /\ stale' = [stale EXCEPT ![t] = FALSE]
      /\ limit' = [limit EXCEPT ![t] = 0]
  BY DEF Decide, to, endRead, goes, walkVars
<1>3. PICK place \in {"change", "counted"} : pc' = [pc EXCEPT ![t] = place]
  BY <1>2
<1>4. /\ lpc'[t] = "out" /\ pc'[t] = place /\ place \in Place
      /\ \A u \in Thread \ {t} : lpc'[u] = lpc[u] /\ stale'[u] = stale[u]
      /\ limit' \in [Thread -> Int]
  BY <1>1, <1>2, <1>3 DEF TreeTypeOK, LockTypeOK, Place
<1>5. ControlInv(t)'
  BY <1>4 DEF ControlInv, Before, Owning, Failing
<1>6. QED
  BY <1>1, <1>2, <1>3, <1>4, <1>5, PlaceStep
  DEF TreeTypeOK, Place, Working, Owning, Before, sizeVars

LEMMA DoFlushCount ==
  ASSUME LockInv, TreeInv, LockInv', NEW t \in Thread, FlushCount(t)
  PROVE  TreeInv'
<1>1. TreeTypeOK /\ ControlInv(t)
  BY DEF TreeInv
<1>2. /\ UNCHANGED <<treeVars, changeVars, call, cur, side, heuristic, limit, lpc, stale>>
      /\ UNCHANGED <<enlargeWhen, shrinkWhen, backboneSize>>
      /\ pc[t] = "flush" /\ pc' = [pc EXCEPT ![t] = "limit"]
      /\ fuzzySize' = fuzzySize + heuristic[t]
      /\ sz' = [sz EXCEPT ![t] = fuzzySize + heuristic[t]]
  BY DEF FlushCount, to, allLockVars, lockVars, walkVars
<1>3. /\ pc'[t] = "limit" /\ lpc'[t] = "out"
      /\ fuzzySize' \in Int /\ sz' \in [Thread -> Int]
  BY <1>1, <1>2 DEF TreeTypeOK, ControlInv
<1>4. ControlInv(t)'
  BY <1>3 DEF ControlInv, Before, Owning, Failing
<1>5. QED
  BY <1>1, <1>2, <1>3, <1>4, PlaceStep
  DEF TreeTypeOK, Place, Working, Owning, Before

LEMMA DoResetCount ==
  ASSUME LockInv, TreeInv, LockInv', NEW t \in Thread, ResetCount(t)
  PROVE  TreeInv'
<1>1. TreeTypeOK /\ ControlInv(t)
  BY DEF TreeInv
<1>2. /\ UNCHANGED <<treeVars, changeVars, sizeVars, call, cur, side, limit, lpc, stale>>
      /\ pc[t] = "counted" /\ lpc[t] = "out" /\ pc' = [pc EXCEPT ![t] = "return"]
      /\ heuristic' = [heuristic EXCEPT ![t] = 0] /\ sz' = [sz EXCEPT ![t] = 0]
  BY DEF ResetCount, to, allLockVars, lockVars, walkVars
<1>3. pc'[t] = "return" /\ heuristic' \in [Thread -> Int] /\ sz' \in [Thread -> Int]
  BY <1>1, <1>2 DEF TreeTypeOK
<1>4. ControlInv(t)'
  BY <1>2, <1>3 DEF ControlInv, Before, Owning, Failing
<1>5. QED
  BY <1>1, <1>2, <1>3, <1>4, PlaceStep
  DEF TreeTypeOK, Place, Working, Owning, Before, sizeVars

LEMMA DoReturn ==
  ASSUME LockInv, TreeInv, LockInv', NEW t \in Thread, Return(t)
  PROVE  TreeInv'
<1>1. TreeTypeOK /\ ControlInv(t)
  BY DEF TreeInv
<1>2. /\ UNCHANGED <<treeVars, changeVars, sizeVars, countVars, cur, side, lpc, stale>>
      /\ pc[t] = "return" /\ pc' = [pc EXCEPT ![t] = "idle"]
      /\ call' = [call EXCEPT ![t] = Idle]
  BY DEF Return, to, allLockVars, lockVars, walkVars
<1>3. /\ pc' \in [Thread -> Place] /\ pc'[t] = "idle" /\ lpc'[t] = "out"
      /\ call' \in [Thread -> Call] /\ call'[t] = Idle
      /\ \A u \in Thread \ {t} : pc'[u] = pc[u] /\ call'[u] = call[u]
  BY <1>1, <1>2 DEF TreeTypeOK, ControlInv, Call, Place
<1>4. ControlInv(t)' /\ CallInv(t)' /\ WalkInv(t)'
  BY <1>2, <1>3 DEF ControlInv, CallInv, WalkInv, Before, Owning
<1>5. QED
  BY <1>1, <1>2, <1>3, <1>4, PlainStep
  DEF TreeTypeOK, Working, sizeVars, countVars

LEMMA DoInvoke ==
  ASSUME LockInv, TreeInv, LockInv', NEW t \in Thread,
         NEW op \in {"search", "insert", "remove"}, NEW k \in Key, Invoke(t, op, k)
  PROVE  TreeInv'
<1>1. TreeTypeOK /\ ControlInv(t)
  BY DEF TreeInv
<1> DEFINE new == [op |-> op, key |-> k, res |-> "none"]
<1>2. /\ UNCHANGED <<treeVars, changeVars, sizeVars, countVars, cur, side, lpc, stale>>
      /\ pc[t] = "idle" /\ pc' = [pc EXCEPT ![t] = "start"]
      /\ call' = [call EXCEPT ![t] = new]
  BY DEF Invoke, to, lockVars, walkVars
<1>3. new \in Call /\ new # Idle /\ new.res = "none"
  BY DEF Call, Idle
<1>4. /\ pc' \in [Thread -> Place] /\ pc'[t] = "start" /\ lpc'[t] = "out"
      /\ call' \in [Thread -> Call] /\ call'[t] = new
      /\ \A u \in Thread \ {t} : pc'[u] = pc[u] /\ call'[u] = call[u]
  BY <1>1, <1>2, <1>3 DEF TreeTypeOK, ControlInv, Call, Place, Before
<1> HIDE DEF new
<1>5. ControlInv(t)' /\ CallInv(t)' /\ WalkInv(t)'
  BY <1>2, <1>3, <1>4 DEF ControlInv, CallInv, WalkInv, Before, Owning
<1>6. QED
  BY <1>1, <1>2, <1>4, <1>5, PlainStep
  DEF TreeTypeOK, Working, sizeVars, countVars

LEMMA DoStartChange ==
  ASSUME LockInv, TreeInv, LockInv', NEW t \in Thread, StartChange(t)
  PROVE  TreeInv'
<1>1. TreeTypeOK /\ ControlInv(t)
  BY DEF TreeInv
<1>2. /\ UNCHANGED <<treeVars, changeVars, sizeVars, countVars, call, cur, side, stale>>
      /\ pc[t] = "change" /\ pc' = [pc EXCEPT ![t] = "owner"]
      /\ lpc' = [lpc EXCEPT ![t] = "wlock"]
  BY DEF StartChange, startLayoutChange, goes, to, walkVars
<1>3. pc'[t] = "owner" /\ lpc'[t] = "wlock" /\ \A u \in Thread \ {t} : lpc'[u] = lpc[u]
  BY <1>1, <1>2 DEF TreeTypeOK, LockTypeOK
<1>4. ControlInv(t)'
  BY <1>3 DEF ControlInv, Before, Owning
<1>5. QED
  BY <1>1, <1>2, <1>3, <1>4, PlaceStep
  DEF TreeTypeOK, Place, Working, Owning, Before, sizeVars, countVars

(* GiveUpChange and FinishChange: the end of a change                      *)
LEMMA DoEndChange ==
  ASSUME LockInv, TreeInv, LockInv', NEW t \in Thread, GiveUpChange(t) \/ FinishChange(t)
  PROVE  TreeInv'
<1>1. TreeTypeOK /\ ControlInv(t)
  BY DEF TreeInv
<1>2. /\ UNCHANGED <<treeVars, changeVars, sizeVars, countVars, call, cur, side, stale>>
      /\ pc[t] \in {"owner", "finish"} /\ pc' = [pc EXCEPT ![t] = "counted"]
      /\ lpc' = [lpc EXCEPT ![t] = "wunlock"]
  BY DEF GiveUpChange, FinishChange, finishLayoutChange, goes, to, walkVars
<1>3. pc'[t] = "counted" /\ lpc'[t] = "wunlock" /\ \A u \in Thread \ {t} : lpc'[u] = lpc[u]
  BY <1>1, <1>2 DEF TreeTypeOK, LockTypeOK
<1>4. ControlInv(t)'
  BY <1>3 DEF ControlInv, Before, Owning
<1>5. QED
  BY <1>1, <1>2, <1>3, <1>4, PlaceStep
  DEF TreeTypeOK, Place, Working, Owning, Before, sizeVars, countVars

LEMMA DoShrink ==
  ASSUME LockInv, TreeInv, LockInv', NEW t \in Thread, shrink_tree(t)
  PROVE  TreeInv'
<1>1. TreeTypeOK /\ ControlInv(t)
  BY DEF TreeInv
<1>2. /\ UNCHANGED <<treeVars, changeVars, sizeVars, countVars, call, cur, side, stale, lpc>>
      /\ pc[t] = "owner" /\ lpc[t] = "change" /\ pc' = [pc EXCEPT ![t] = "stuck"]
  BY DEF shrink_tree, to, allLockVars, lockVars, walkVars
<1>3. pc'[t] = "stuck"
  BY <1>1, <1>2 DEF TreeTypeOK
<1>4. ControlInv(t)'
  BY <1>2, <1>3 DEF ControlInv, Before, Owning
<1>5. QED
  BY <1>1, <1>2, <1>3, <1>4, PlaceStep
  DEF TreeTypeOK, Place, Working, Owning, Before, sizeVars, countVars

LEMMA DoLockStep ==
  ASSUME LockInv, TreeInv, LockInv', NEW t \in Thread, LockStep(t)
  PROVE  TreeInv'
<1>1. TreeTypeOK /\ ControlInv(t) /\ LockTypeOK /\ pc[t] \in Place
  BY DEF TreeInv, TreeTypeOK
<1>2. /\ UNCHANGED <<treeVars, changeVars, sizeVars, countVars, call, cur, side, pc>>
      /\ resetDirty(t) \/ write_lock(t) \/ MarkDirty(t) \/ write_unlock(t)
  BY DEF LockStep, walkVars
<1>3. /\ UNCHANGED stale /\ \A u \in Thread \ {t} : lpc'[u] = lpc[u]
      /\ lpc[t] \in Failing \ {"failed"} => lpc'[t] \in Failing
      /\ lpc[t] = "wlock" => lpc'[t] \in {"wlock", "mark"}
      /\ lpc[t] = "mark" => lpc'[t] \in {"mark", "change"}
      /\ lpc[t] = "wunlock" => lpc'[t] \in {"wunlock", "out"}
      /\ lpc[t] \in {"reset", "clear", "recheck", "redirty", "wlock", "mark", "wunlock"}
  <2>1. CASE resetDirty(t)
    BY <1>1, <2>1 DEF resetDirty, ResetTest, ResetClear, ResetRecheck, ResetRedirty, goes,
       LockTypeOK, Failing
  <2>2. CASE write_lock(t)
    BY <1>1, <2>2, EachStep DEF write_lock, Failing
  <2>3. CASE MarkDirty(t)
    BY <1>1, <2>3, EachStep DEF MarkDirty, Failing
  <2>4. CASE write_unlock(t)
    BY <1>1, <2>4, EachStep DEF write_unlock, Failing
  <2>5. QED BY <1>2, <2>1, <2>2, <2>3, <2>4
<1>4. pc[t] \in {"giveup", "limit", "owner", "counted"}
  BY <1>1, <1>3 DEF ControlInv, Place, Before, Owning
<1>5. ControlInv(t)'
  BY <1>1, <1>2, <1>3, <1>4 DEF ControlInv, Before, Owning, Failing
<1>6. pc' = [pc EXCEPT ![t] = pc[t]]
  BY <1>1, <1>2 DEF TreeTypeOK
<1>7. lpc'[t] # "read"
  BY <1>3 DEF Failing
<1>8. QED
  BY <1>1, <1>2, <1>3, <1>4, <1>5, <1>6, <1>7, PlaceStep
  DEF TreeTypeOK, sizeVars, countVars

(* A read that finishRead accepts ends while nobody changes the layout.    *)
LEMMA DoCheck ==
  ASSUME LockInv, TreeInv, LockInv', NEW t \in Thread, Check(t)
  PROVE  TreeInv'
<1>1. TreeTypeOK /\ ControlInv(t) /\ CallInv(t) /\ WalkInv(t)
  BY DEF TreeInv
<1> DEFINE place == IF dirty[t] = 0 THEN "apply" ELSE "giveup"
<1>2. /\ UNCHANGED <<treeVars, changeVars, sizeVars, countVars, call, cur, side, stale>>
      /\ pc[t] = "check" /\ lpc[t] = "read" /\ pc' = [pc EXCEPT ![t] = place]
      /\ lpc' = [lpc EXCEPT ![t] = IF dirty[t] = 0 THEN "valid" ELSE "reset"]
  BY DEF Check, to, finishRead, goes, walkVars
<1>3. /\ lpc'[t] = IF dirty[t] = 0 THEN "valid" ELSE "reset"
      /\ \A u \in Thread \ {t} : lpc'[u] = lpc[u] /\ pc'[u] = pc[u]
      /\ pc'[t] = place /\ pc' \in [Thread -> Place]
  BY <1>1, <1>2 DEF TreeTypeOK, LockTypeOK, Place, Before
<1>4. ControlInv(t)' /\ CallInv(t)'
  BY <1>1, <1>2, <1>3 DEF ControlInv, CallInv, Before, Owning, Failing
<1>5. dirty[t] = 0 => ~stale[t]
  BY <1>2 DEF LockInv, StaleInv
<1>6. dirty[t] = 0 => \A u \in Thread : pc[u] \notin Owning
  BY <1>2, <1>5 DEF TreeInv, WalkInv
<1>7. WalkInv(t)'
  <2>1. \A r, i : /\ childSpan(r, i)' = childSpan(r, i)
                  /\ Linked(r)' <=> Linked(r)
                  /\ Ref' = Ref
    BY <1>2, SameShape DEF shapeVars, treeVars, changeVars
  <2>2. QED BY <1>1, <1>2, <1>3, <1>5, <2>1 DEF WalkInv, Owning, treeVars, changeVars
<1>8. lpc'[t] # "read"
  BY <1>3
<1>9. pc'[t] = "apply" => \A u \in Thread : pc[u] \notin {"build", "expand"}
  BY <1>3, <1>6 DEF Owning
<1>10. pc[t] \notin Working /\ pc'[t] \notin Working
  BY <1>2, <1>3 DEF Working
<1> HIDE DEF place
<1>11. QED
  BY <1>1, <1>2, <1>3, <1>4, <1>7, <1>8, <1>9, <1>10, PlainStep
  DEF TreeTypeOK, Call, sizeVars, countVars

-----------------------------------------------------------------------------
(* Steps that change a treelet                                             *)

LEMMA SetTreelet ==
  ASSUME TreeTypeOK, NEW r \in 1 .. Len(trees),
         NEW e \in [lock : Thread \cup {0}, items : SUBSET Key],
         trees' = [trees EXCEPT ![r] = e]
  PROVE  /\ trees' \in Seq([lock : Thread \cup {0}, items : SUBSET Key])
         /\ Len(trees') = Len(trees)
         /\ trees'[r] = e /\ \A q \in 1 .. Len(trees) : q # r => trees'[q] = trees[q]
  BY ExceptSeq DEF TreeTypeOK

LEMMA SetLock ==
  ASSUME TreeTypeOK, NEW r \in 1 .. Len(trees), NEW l \in Thread \cup {0},
         trees' = [trees EXCEPT ![r].lock = l]
  PROVE  /\ trees' \in Seq([lock : Thread \cup {0}, items : SUBSET Key])
         /\ Len(trees') = Len(trees) /\ SameItems
         /\ trees'[r].lock = l /\ \A q \in 1 .. Len(trees) : q # r => trees'[q] = trees[q]
<1> DEFINE e == [trees[r] EXCEPT !.lock = l]
<1>1. trees[r] \in [lock : Thread \cup {0}, items : SUBSET Key]
  BY TreeletType
<1>2. e \in [lock : Thread \cup {0}, items : SUBSET Key] /\ e.items = trees[r].items
      /\ e.lock = l
  BY <1>1
<1>3. trees' = [trees EXCEPT ![r] = e]
  OBVIOUS
<1> HIDE DEF e
<1>4. /\ trees' \in Seq([lock : Thread \cup {0}, items : SUBSET Key])
      /\ Len(trees') = Len(trees)
      /\ trees'[r] = e /\ \A q \in 1 .. Len(trees) : q # r => trees'[q] = trees[q]
  BY <1>2, <1>3, SetTreelet
<1>5. QED BY <1>2, <1>4 DEF SameItems

LEMMA DoAcquire ==
  ASSUME LockInv, TreeInv, LockInv', NEW t \in Thread, Acquire(t)
  PROVE  TreeInv'
<1>1. TreeTypeOK /\ ControlInv(t) /\ CallInv(t) /\ WalkInv(t)
  BY DEF TreeInv
<1>2. /\ UNCHANGED <<head, nodes, changeVars, sizeVars, countVars, call, cur, side, stale, lpc>>
      /\ pc[t] = "walk" /\ ~IsNode(cur[t]) /\ pc' = [pc EXCEPT ![t] = "check"]
      /\ trees[cur[t]].lock = 0 /\ trees' = [trees EXCEPT ![cur[t]].lock = t]
  BY DEF Acquire, acquire, to, walkVars, allLockVars, lockVars
<1>3. cur[t] \in 1 .. Len(trees)
  BY <1>1, <1>2, References DEF WalkInv
<1>4. /\ trees' \in Seq([lock : Thread \cup {0}, items : SUBSET Key])
      /\ Len(trees') = Len(trees) /\ SameItems /\ trees'[cur[t]].lock = t
      /\ \A q \in 1 .. Len(trees) : q # cur[t] => trees'[q] = trees[q]
  BY <1>1, <1>2, <1>3, SetLock
<1>5. /\ pc'[t] = "check" /\ pc' \in [Thread -> Place]
      /\ \A u \in Thread \ {t} : pc'[u] = pc[u]
  BY <1>1, <1>2 DEF TreeTypeOK, Place, Before
<1>6. UNCHANGED shapeVars
  BY <1>2 DEF shapeVars, changeVars
<1>7. Quiet(t)
  <2>1. \A u \in Thread : u # 0
    BY DEF Thread
  <2>2. QED BY <1>2, <1>3, <1>4, <1>5, <1>6, <2>1 DEF Quiet, Aside
<1>8. Ref' = Ref /\ \A r : Linked(r)' <=> Linked(r)
  BY <1>4, <1>6, SameShape
<1>9. TreeTypeOK'
  BY <1>1, <1>2, <1>4, <1>5, <1>8 DEF TreeTypeOK, LockInv, changeVars, sizeVars, countVars
<1>10. ControlInv(t)' /\ CallInv(t)'
  BY <1>1, <1>2, <1>5 DEF ControlInv, CallInv, Before, Owning
<1>11. WalkInv(t)'
  BY <1>1, <1>2, <1>3, <1>4, <1>5, <1>8 DEF WalkInv, Owning, changeVars
<1>12. QED
  BY <1>2, <1>4, <1>5, <1>7, <1>9, <1>10, <1>11, QuietStep DEF Working, ItemsOK

LEMMA DoGiveUp ==
  ASSUME LockInv, TreeInv, LockInv', NEW t \in Thread, GiveUp(t)
  PROVE  TreeInv'
<1>1. TreeTypeOK /\ ControlInv(t) /\ CallInv(t) /\ WalkInv(t)
  BY DEF TreeInv
<1>2. /\ UNCHANGED <<head, nodes, changeVars, sizeVars, countVars, call, cur, side, stale, lpc>>
      /\ pc[t] = "giveup" /\ lpc[t] = "failed" /\ pc' = [pc EXCEPT ![t] = "start"]
      /\ trees' = [trees EXCEPT ![cur[t]].lock = 0]
  BY DEF GiveUp, to, walkVars, allLockVars, lockVars
<1>3. cur[t] \in 1 .. Len(trees) /\ trees[cur[t]].lock = t
  BY <1>1, <1>2 DEF WalkInv
<1>4. /\ trees' \in Seq([lock : Thread \cup {0}, items : SUBSET Key])
      /\ Len(trees') = Len(trees) /\ SameItems
      /\ \A q \in 1 .. Len(trees) : q # cur[t] => trees'[q] = trees[q]
  BY <1>1, <1>2, <1>3, SetLock
<1>5. /\ pc'[t] = "start" /\ pc' \in [Thread -> Place]
      /\ \A u \in Thread \ {t} : pc'[u] = pc[u]
  BY <1>1, <1>2 DEF TreeTypeOK, Place, Before
<1>6. UNCHANGED shapeVars
  BY <1>2 DEF shapeVars, changeVars
<1>7. Quiet(t)
  BY <1>2, <1>3, <1>4, <1>5, <1>6 DEF Quiet, Aside
<1>8. Ref' = Ref
  BY <1>4, <1>6, SameShape
<1>9. TreeTypeOK'
  BY <1>1, <1>2, <1>4, <1>5, <1>8 DEF TreeTypeOK, LockInv, changeVars, sizeVars, countVars
<1>10. ControlInv(t)' /\ CallInv(t)' /\ WalkInv(t)'
  BY <1>1, <1>2, <1>5 DEF ControlInv, CallInv, WalkInv, Before, Owning
<1>11. QED
  BY <1>2, <1>4, <1>5, <1>7, <1>9, <1>10, QuietStep DEF Working, ItemsOK

(* The keys of a treelet change within its span.                           *)
LEMMA SetItems ==
  ASSUME TreeInv, UNCHANGED shapeVars, Len(trees') = Len(trees),
         NEW r \in 1 .. Len(trees),
         \A q \in 1 .. Len(trees) : q # r => trees'[q] = trees[q],
         trees'[r].items \subseteq span[r], IsFiniteSet(trees'[r].items)
  PROVE  SpanInv'
<1>1. Ref' = Ref /\ \A q : Linked(q)' <=> Linked(q)
  BY SameShape
<1>2. QED BY <1>1 DEF TreeInv, SpanInv, shapeVars

LEMMA UpdatedItems ==
  ASSUME NEW op \in {"search", "insert", "remove"}, NEW S, NEW k \in S,
         NEW items \in SUBSET S, IsFiniteSet(items)
  PROVE  Updated(op, k, items) \subseteq S /\ IsFiniteSet(Updated(op, k, items))
<1>1. Updated(op, k, items) \in {items \cup {k}, items \ {k}, items}
  BY DEF Updated
<1>2. IsFiniteSet(items \cup {k})
  BY FS_AddElement
<1>3. IsFiniteSet(items \ {k})
  BY FS_RemoveElement, FS_Subset
<1>4. QED BY <1>1, <1>2, <1>3

(* An insert or remove that was validated finds its treelet linked and its *)
(* key within the span, even if a change has begun since.                  *)
LEMMA DoApply ==
  ASSUME LockInv, TreeInv, LockInv', NEW t \in Thread, Apply(t)
  PROVE  TreeInv'
<1> DEFINE r == cur[t]
           e == Treelet(Updated(call[t].op, call[t].key, trees[r].items))
<1>1. TreeTypeOK /\ ControlInv(t) /\ CallInv(t) /\ WalkInv(t) /\ SpanInv
  BY DEF TreeInv
<1>2. PICK place \in {"flush", "return"}, n \in Int, res \in {"true", "false"} :
        /\ UNCHANGED <<head, nodes, changeVars, sizeVars, sz, limit, side>>
        /\ pc[t] = "apply" /\ pc' = [pc EXCEPT ![t] = place]
        /\ lpc' = [lpc EXCEPT ![t] = "out"] /\ stale' = [stale EXCEPT ![t] = FALSE]
        /\ trees' = [trees EXCEPT ![r] = e]
        /\ call' = [call EXCEPT ![t].res = res]
        /\ heuristic' = [heuristic EXCEPT ![t] = n]
        /\ cur' = [cur EXCEPT ![t] = 0]
  <2>1. \A b : Counted(t, b) \in Int
    <3>1. heuristic[t] \in Int
      BY <1>1 DEF TreeTypeOK
    <3>2. QED BY <3>1 DEF Counted
  <2>2. QED BY <2>1 DEF Apply, to, endRead, goes
<1>3. /\ r \in 1 .. Len(trees) /\ trees[r].lock = t
      /\ call[t].key \in span[r] /\ Linked(r) /\ r \in DOMAIN span
      /\ call[t].op \in {"search", "insert", "remove"} /\ call[t] # Idle
  BY <1>1, <1>2 DEF WalkInv, CallInv, TreeTypeOK
<1>4. /\ e.items \subseteq span[r] /\ IsFiniteSet(e.items) /\ span[r] \subseteq Key
      /\ e \in [lock : Thread \cup {0}, items : SUBSET Key]
  <2>1. span[r] \subseteq Key /\ trees[r].items \in SUBSET span[r] /\ IsFiniteSet(trees[r].items)
    BY <1>1, <1>3 DEF SpanInv
  <2>2. e = [lock |-> 0, items |-> Updated(call[t].op, call[t].key, trees[r].items)]
    BY DEF Treelet
  <2>3. QED BY <1>3, <2>1, <2>2, UpdatedItems
<1> HIDE DEF e
<1>5. /\ trees' \in Seq([lock : Thread \cup {0}, items : SUBSET Key])
      /\ Len(trees') = Len(trees) /\ trees'[r] = e
      /\ \A q \in 1 .. Len(trees) : q # r => trees'[q] = trees[q]
  BY <1>1, <1>2, <1>3, <1>4, SetTreelet
<1>6. /\ pc'[t] = place /\ pc' \in [Thread -> Place] /\ lpc'[t] = "out"
      /\ call' \in [Thread -> Call] /\ call'[t].res = res /\ call'[t] # Idle
      /\ heuristic' \in [Thread -> Int] /\ cur' \in [Thread -> Ref \cup {0}]
      /\ \A u \in Thread \ {t} :
           /\ pc'[u] = pc[u] /\ lpc'[u] = lpc[u] /\ stale'[u] = stale[u]
           /\ cur'[u] = cur[u] /\ call'[u] = call[u]
  <2>1. call[t] \in [op : {"search", "insert", "remove"}, key : Key,
                     res : {"none", "true", "false"}]
    BY <1>1, <1>3 DEF TreeTypeOK
  <2>2. /\ [call[t] EXCEPT !.res = res] \in Call
        /\ [call[t] EXCEPT !.res = res].res = res /\ [call[t] EXCEPT !.res = res] # Idle
    BY <2>1 DEF Call, Idle
  <2>3. call'[t] = [call[t] EXCEPT !.res = res] /\ call' \in [Thread -> Call]
    BY <1>1, <1>2, <2>2 DEF TreeTypeOK, Call
  <2>4. QED BY <1>1, <1>2, <2>2, <2>3 DEF TreeTypeOK, LockTypeOK, Place
<1>7. UNCHANGED shapeVars
  BY <1>2 DEF shapeVars, changeVars
<1>8. Quiet(t)
  <2>1. \A u \in Thread \ {t}, q \in 1 .. Len(trees) :
          trees[q].lock = u => trees'[q].lock = u
    BY <1>3, <1>5
  <2>2. \A u \in Thread \ {t} : Aside(t, u) /\ stale'[u] = stale[u]
    BY <1>2, <1>6, <2>1 DEF Aside
  <2>3. lpc'[t] # "read"
    BY <1>6
  <2>4. QED BY <1>5, <1>7, <2>2, <2>3 DEF Quiet
<1>9. ItemsOK
  <2>1. SpanInv'
    BY <1>3, <1>4, <1>5, <1>7, SetItems
  <2>2. \A u \in Thread : pc[u] \notin {"build", "expand"}
    BY <1>2 DEF TreeInv, ChangeInv, OwnerInv, BuildInv
  <2>3. QED BY <2>1, <2>2 DEF ItemsOK
<1>10. TreeTypeOK'
  <2>1. Ref' = Ref
    BY <1>5, <1>7, SameShape
  <2>2. QED BY <1>1, <1>2, <1>5, <1>6, <2>1
            DEF TreeTypeOK, Call, LockInv, changeVars, sizeVars
<1>11. ControlInv(t)' /\ CallInv(t)' /\ WalkInv(t)'
  BY <1>2, <1>6 DEF ControlInv, CallInv, WalkInv, Before, Owning
<1>12. QED
  BY <1>2, <1>6, <1>8, <1>9, <1>10, <1>11, QuietStep DEF Working

-----------------------------------------------------------------------------
(* Steps of a layout change                                                *)

(* Only the owner is in the code of a change.                              *)
LEMMA OwnerStep ==
  ASSUME LockInv, TreeInv, NEW t \in Thread, lpc[t] = "change",
         \A u \in Thread \ {t} : pc'[u] = pc[u]
  PROVE  /\ \A u \in Thread \ {t} : pc[u] \notin Owning /\ OwnerInv(u)'
         /\ Gathering <=> IsNode(head) /\ pc[t] \in {"gather", "take", "free"}
         /\ Gathering' <=> IsNode(head') /\ pc'[t] \in {"gather", "take", "free"}
         /\ Building <=> pc[t] \in {"build", "expand"}
         /\ Building' <=> pc'[t] \in {"build", "expand"}
<1>1. \A u \in Thread \ {t} : pc[u] \notin Owning
  BY OneOwner, OwnerInChange
<1>2. \A u \in Thread \ {t} : pc[u] \notin Working /\ pc'[u] \notin Working
  BY <1>1 DEF Owning, Working
<1>3. \A u \in Thread \ {t} : OwnerInv(u)'
  BY <1>2 DEF OwnerInv, Working
<1>4. QED BY <1>1, <1>2, <1>3 DEF Gathering, Building, Working

(* The node gatherAll is at                                                *)
LEMMA AtNode ==
  ASSUME TreeInv, NEW t \in Thread, pc[t] \in {"gather", "take"}, IsNode(head)
  PROVE  /\ GatherInv /\ parts = <<>> /\ todo # <<>> /\ Len(todo) \in Nat \ {0}
         /\ todo \in Seq(Ref) /\ Head(todo) = todo[1]
         /\ todo[1] \in Ref /\ todo[1] \in Int /\ todo[1] < 0 /\ todo[1] \in DOMAIN span
         /\ -todo[1] \in 1 .. Len(nodes) /\ IsNode(todo[1])
         /\ Node(todo[1]) = nodes[-todo[1]]
         /\ \A i \in 1 .. 2 :
              /\ nodes[-todo[1]].next[i] \in Ref /\ Linked(nodes[-todo[1]].next[i])
              /\ IsNode(nodes[-todo[1]].next[i]) <=> ~isLeaf(todo[1])
              /\ Settled(todo[1], i)
<1>1. GatherInv /\ todo # <<>> /\ parts = <<>> /\ todo \in Seq(Ref) /\ TreeTypeOK
  BY DEF TreeInv, ChangeInv, OwnerInv, GatherInv, TreeTypeOK
<1>2. Len(todo) \in Nat \ {0} /\ Head(todo) = todo[1]
  BY <1>1, EmptySeq
<1>3. 1 \in 1 .. Len(todo)
  BY <1>2
<1>4. todo[1] \in Ref /\ todo[1] < 0 /\ todo[1] \in DOMAIN span
  BY <1>1, <1>3, ElementOfSeq DEF GatherInv
<1>5. todo[1] \in Int /\ -todo[1] \in 1 .. Len(nodes) /\ IsNode(todo[1]) /\ -(-todo[1]) = todo[1]
  BY <1>1, <1>4, References DEF IsNode
<1>6. IsNode(nodes[-todo[1]].next[1]) = IsNode(nodes[-todo[1]].next[2])
  BY <1>1, <1>5 DEF TreeInv, LinkInv
<1>7. ASSUME NEW i \in 1 .. 2
      PROVE  /\ nodes[-todo[1]].next[i] \in Ref /\ Linked(nodes[-todo[1]].next[i])
             /\ IsNode(nodes[-todo[1]].next[i]) <=> ~isLeaf(todo[1])
             /\ Settled(todo[1], i)
  <2>1. nodes[-todo[1]].next[i] \in Ref
    BY <1>1, <1>5, NodeType
  <2>2. Linked(nodes[-todo[1]].next[i])
    BY <1>5 DEF Linked
  <2>3. i = 1 \/ i = 2
    OBVIOUS
  <2>4. Settled(todo[1], i)
    BY <1>1, <1>4 DEF Settled
  <2>5. QED BY <1>6, <2>1, <2>2, <2>3, <2>4 DEF isLeaf, Node, IsNode
<1>8. QED BY <1>1, <1>2, <1>4, <1>5, <1>7 DEF Node

LEMMA VictimLinked ==
  ASSUME TreeInv, NEW t \in Thread, pc[t] \in {"gather", "take"},
         IsNode(head) => isLeaf(Head(todo))
  PROVE  victim \in 1 .. Len(trees) /\ Linked(victim)
<1>1. TreeTypeOK /\ c \in 1 .. 2
  BY DEF TreeInv, TreeTypeOK
<1>2. CASE IsNode(head)
  <2>1. victim = nodes[-todo[1]].next[c]
    BY <1>2, AtNode DEF victim
  <2>2. victim \in Ref /\ Linked(victim) /\ ~IsNode(victim)
    BY <1>1, <1>2, <2>1, AtNode
  <2>3. QED BY <1>1, <2>2, References
<1>3. CASE ~IsNode(head)
  <2>1. victim = head /\ head \in Ref
    BY <1>1, <1>3 DEF victim, TreeTypeOK
  <2>2. QED BY <1>1, <1>3, <2>1, References DEF Linked
<1>4. QED BY <1>2, <1>3

LEMMA DoGatherAcquire ==
  ASSUME LockInv, TreeInv, LockInv', NEW t \in Thread, GatherAcquire(t)
  PROVE  TreeInv'
<1>1. TreeTypeOK /\ ControlInv(t) /\ CallInv(t) /\ WalkInv(t) /\ OwnerInv(t)
  BY DEF TreeInv, ChangeInv
<1>2. /\ UNCHANGED <<head, nodes, changeVars, sizeVars, countVars, call, side, stale, lpc>>
      /\ pc[t] = "gather" /\ pc' = [pc EXCEPT ![t] = "take"]
      /\ IsNode(head) => isLeaf(Head(todo))
      /\ trees[victim].lock = 0 /\ trees' = [trees EXCEPT ![victim].lock = t]
      /\ cur' = [cur EXCEPT ![t] = victim]
  BY DEF GatherAcquire, acquire, to, allLockVars, lockVars
<1>3. victim \in 1 .. Len(trees) /\ lpc[t] = "change"
  BY <1>1, <1>2, VictimLinked DEF ControlInv, Owning
<1>4. /\ trees' \in Seq([lock : Thread \cup {0}, items : SUBSET Key])
      /\ Len(trees') = Len(trees) /\ SameItems /\ trees'[victim].lock = t
      /\ \A q \in 1 .. Len(trees) : q # victim => trees'[q] = trees[q]
  BY <1>1, <1>2, <1>3, SetLock
<1>5. /\ pc'[t] = "take" /\ pc' \in [Thread -> Place] /\ cur'[t] = victim
      /\ cur' \in [Thread -> Ref \cup {0}]
      /\ \A u \in Thread \ {t} : pc'[u] = pc[u] /\ cur'[u] = cur[u]
  BY <1>1, <1>2, <1>3, References DEF TreeTypeOK, Place, Owning
<1>6. UNCHANGED shapeVars
  BY <1>2 DEF shapeVars, changeVars
<1>7. Quiet(t)
  <2>1. \A u \in Thread : u # 0
    BY DEF Thread
  <2>2. \A u \in Thread \ {t}, q \in 1 .. Len(trees) :
          trees[q].lock = u => trees'[q].lock = u
    BY <1>2, <1>3, <1>4, <2>1
  <2>3. QED BY <1>2, <1>3, <1>4, <1>5, <1>6, <2>2 DEF Quiet, Aside
<1>8. Ref' = Ref /\ ShapeInv' /\ LinkInv' /\ (GatherInv => GatherInv') /\ (NoGap => NoGap')
      /\ \A r : Linked(r)' <=> Linked(r)
  BY <1>4, <1>6, SameShape DEF TreeInv
<1>9. TreeTypeOK'
  BY <1>1, <1>2, <1>4, <1>5, <1>8 DEF TreeTypeOK, LockInv, changeVars, sizeVars, countVars
<1>10. ControlInv(t)' /\ CallInv(t)'
  BY <1>1, <1>2, <1>5 DEF ControlInv, CallInv, Before, Owning
<1>11. WalkInv(t)'
  BY <1>1, <1>2, <1>3, <1>4, <1>5, <1>8 DEF WalkInv, Owning, changeVars
<1>12. SpanInv'
  BY <1>4, <1>6, <1>8 DEF TreeInv, SpanInv, SameItems, shapeVars
<1>13. ChangeInv'
  <2>1. victim' = victim
    BY <1>6 DEF victim, shapeVars, Node
  <2>2. OwnerInv(t)'
    <3>1. IsNode(head) => Head(todo) = todo[1]
      BY <1>2, AtNode
    <3>2. isLeaf(todo[1])' <=> isLeaf(todo[1])
      BY <1>6 DEF isLeaf, Node, shapeVars
    <3>3. QED BY <1>1, <1>2, <1>5, <1>6, <1>8, <2>1, <3>1, <3>2 DEF OwnerInv, shapeVars
  <2>3. Increasing(v)' /\ RestInv'
    BY <1>2, <1>3, <1>5, <1>6, <1>8, OwnerStep
    DEF TreeInv, ChangeInv, RestInv, Increasing, shapeVars
  <2>4. QED BY <1>3, <1>5, <2>2, <2>3, OwnerStep DEF ChangeInv
<1>14. QED BY <1>7, <1>8, <1>9, <1>10, <1>11, <1>12, <1>13, Others DEF TreeInv

(* free_treelet leaves at most one of the treelet's keys and unlocks it.   *)
LEMMA Destroyed ==
  ASSUME TreeInv, NEW t \in Thread, pc[t] \in {"free", "freeroot"}, destroyed(t)
  PROVE  /\ cur' = [cur EXCEPT ![t] = 0]
         /\ trees' \in Seq([lock : Thread \cup {0}, items : SUBSET Key])
         /\ Len(trees') = Len(trees)
         /\ cur[t] \in 1 .. Len(trees) /\ trees[cur[t]].lock = t
         /\ \A q \in 1 .. Len(trees) : q # cur[t] => trees'[q] = trees[q]
         /\ trees'[cur[t]].items \subseteq trees[cur[t]].items
         /\ trees'[cur[t]].items \subseteq span[cur[t]]
         /\ IsFiniteSet(trees'[cur[t]].items)
<1> DEFINE items == trees[cur[t]].items
<1>1. TreeTypeOK /\ WalkInv(t) /\ SpanInv
  BY DEF TreeInv
<1>2. cur[t] \in 1 .. Len(trees) /\ trees[cur[t]].lock = t
  BY <1>1 DEF WalkInv
<1>3. items \subseteq span[cur[t]] /\ IsFiniteSet(items) /\ items \subseteq Key
  BY <1>1, <1>2, TreeletType DEF SpanInv
<1>4. PICK left \in IF items = {} THEN {{}} ELSE {{k} : k \in items} :
        trees' = [trees EXCEPT ![cur[t]] = Treelet(left)]
  BY DEF destroyed
<1>5. left \subseteq items
  BY <1>4
<1>6. IsFiniteSet(left)
  BY <1>3, <1>5, FS_Subset
<1>7. /\ Treelet(left) \in [lock : Thread \cup {0}, items : SUBSET Key]
      /\ Treelet(left).items = left
  BY <1>3, <1>5 DEF Treelet
<1>8. /\ trees' \in Seq([lock : Thread \cup {0}, items : SUBSET Key])
      /\ Len(trees') = Len(trees) /\ trees'[cur[t]] = Treelet(left)
      /\ \A q \in 1 .. Len(trees) : q # cur[t] => trees'[q] = trees[q]
  BY <1>1, <1>2, <1>4, <1>7, SetTreelet
<1>9. cur' = [cur EXCEPT ![t] = 0]
  BY DEF destroyed
<1>10. QED BY <1>2, <1>3, <1>5, <1>6, <1>7, <1>8, <1>9

LEMMA DoFreeRoot ==
  ASSUME LockInv, TreeInv, LockInv', NEW t \in Thread, FreeRoot(t)
  PROVE  TreeInv'
<1>1. TreeTypeOK /\ ControlInv(t) /\ CallInv(t) /\ WalkInv(t)
  BY DEF TreeInv
<1>2. /\ UNCHANGED <<head, nodes, changeVars, sizeVars, countVars, call, side, stale, lpc>>
      /\ pc[t] = "freeroot" /\ pc' = [pc EXCEPT ![t] = "finish"] /\ destroyed(t)
  BY DEF FreeRoot, to, allLockVars, lockVars
<1>3. /\ cur' = [cur EXCEPT ![t] = 0]
      /\ trees' \in Seq([lock : Thread \cup {0}, items : SUBSET Key])
      /\ Len(trees') = Len(trees)
      /\ cur[t] \in 1 .. Len(trees) /\ trees[cur[t]].lock = t
      /\ \A q \in 1 .. Len(trees) : q # cur[t] => trees'[q] = trees[q]
      /\ trees'[cur[t]].items \subseteq span[cur[t]]
      /\ IsFiniteSet(trees'[cur[t]].items)
  BY <1>2, Destroyed
<1>4. /\ pc'[t] = "finish" /\ pc' \in [Thread -> Place] /\ cur' \in [Thread -> Ref \cup {0}]
      /\ \A u \in Thread \ {t} : pc'[u] = pc[u] /\ cur'[u] = cur[u]
  BY <1>1, <1>2, <1>3 DEF TreeTypeOK, Place, Owning
<1>5. UNCHANGED shapeVars
  BY <1>2 DEF shapeVars, changeVars
<1>6. lpc[t] = "change" /\ lpc'[t] = "change"
  BY <1>1, <1>2 DEF ControlInv, Owning
<1>7. Quiet(t)
  <2>1. \A u \in Thread \ {t}, q \in 1 .. Len(trees) :
          trees[q].lock = u => trees'[q].lock = u
    BY <1>3
  <2>2. QED BY <1>2, <1>3, <1>4, <1>5, <1>6, <2>1 DEF Quiet, Aside
<1>8. ItemsOK
  <2>1. SpanInv'
    BY <1>3, <1>5, SetItems
  <2>2. \A u \in Thread : pc[u] \notin {"build", "expand"}
    BY <1>2, <1>4, <1>6, OwnerStep DEF Building
  <2>3. QED BY <2>1, <2>2 DEF ItemsOK
<1>9. TreeTypeOK'
  <2>1. Ref' = Ref
    BY <1>3, <1>5, SameShape
  <2>2. QED BY <1>1, <1>2, <1>3, <1>4, <2>1
            DEF TreeTypeOK, LockInv, changeVars, sizeVars, countVars
<1>10. ControlInv(t)' /\ CallInv(t)' /\ WalkInv(t)'
  BY <1>1, <1>2, <1>4, <1>6 DEF ControlInv, CallInv, WalkInv, Before, Owning
<1>11. QED
  BY <1>2, <1>4, <1>7, <1>8, <1>9, <1>10, QuietStep DEF Working

LEMMA ChangeStale ==
  ASSUME LockTypeOK, NEW t \in Thread, changeLayout(t)
  PROVE  /\ lpc[t] = "change" /\ lpc' = lpc
         /\ \A u \in Thread : lpc[u] = "read" => stale'[u]
<1>1. stale' = [u \in Thread |-> stale[u] \/ lpc[u] = "read"] /\ lpc' = lpc
  BY DEF changeLayout
<1>2. \A u \in Thread : stale'[u] = (stale[u] \/ lpc[u] = "read")
  BY <1>1, Zenon
<1>3. QED BY <1>1, <1>2 DEF changeLayout

(* A change begins with the root.                                          *)
LEMMA DoEnlarge ==
  ASSUME LockInv, TreeInv, LockInv', NEW t \in Thread, enlarge_tree(t)
  PROVE  TreeInv'
<1>1. TreeTypeOK /\ ControlInv(t) /\ CallInv(t) /\ WalkInv(t) /\ SpanInv
  BY DEF TreeInv
<1>2. /\ UNCHANGED <<treeVars, fuzzySize, countVars, call, cur, side, v, c, parts, span>>
      /\ pc[t] = "owner" /\ pc' = [pc EXCEPT ![t] = "gather"] /\ changeLayout(t)
      /\ {enlargeWhen', shrinkWhen', backboneSize'} \subseteq Int
      /\ todo' = IF IsNode(head) THEN <<head>> ELSE <<>>
  <2>1. \E size \in Int : /\ backboneSize' = size /\ enlargeWhen' = size * Growth
                          /\ shrinkWhen' = size \div 4
    <3>1. backboneSize \in Int /\ FirstBackbone \in Int /\ Growth \in Int
      BY <1>1, TreeAssumption DEF TreeTypeOK
    <3>2. QED BY <3>1 DEF enlarge_tree
  <2>2. Growth \in Int
    BY TreeAssumption
  <2>3. {enlargeWhen', shrinkWhen', backboneSize'} \subseteq Int
    BY <2>1, <2>2
  <2>4. QED BY <2>3 DEF enlarge_tree, to, walkVars
<1>3. /\ lpc[t] = "change" /\ lpc' = lpc
      /\ \A u \in Thread : lpc[u] = "read" => stale'[u]
  BY <1>1, <1>2, ChangeStale DEF TreeTypeOK
<1>4. /\ pc'[t] = "gather" /\ pc' \in [Thread -> Place]
      /\ \A u \in Thread \ {t} : pc'[u] = pc[u]
  BY <1>1, <1>2 DEF TreeTypeOK, Place, Owning
<1>5. UNCHANGED <<backboneVars, v>> /\ Len(trees') = Len(trees) /\ trees' = trees
  BY <1>2 DEF backboneVars, treeVars
<1>6. /\ Ref' = Ref /\ ShapeInv' /\ LinkInv' /\ (NoGap => NoGap')
      /\ \A r : Linked(r)' <=> Linked(r)
      /\ \A r, i : childSpan(r, i)' = childSpan(r, i)
  BY <1>5, SameBackbone DEF TreeInv
<1>7. /\ ~Gathering /\ ~Building /\ todo = <<>> /\ parts = <<>> /\ v = <<>> /\ c = 1 /\ NoGap
      /\ (Gathering' <=> IsNode(head)) /\ ~Building'
      /\ \A u \in Thread \ {t} : OwnerInv(u)'
  <2>1. ~Gathering /\ ~Building
    BY <1>2, <1>3, <1>4, OwnerStep
  <2>2. (Gathering' <=> IsNode(head)) /\ ~Building' /\ \A u \in Thread \ {t} : OwnerInv(u)'
    <3>1. head' = head
      BY <1>2 DEF treeVars
    <3>2. QED BY <1>3, <1>4, <3>1, OwnerStep
  <2>3. QED BY <2>1, <2>2 DEF TreeInv, ChangeInv, RestInv
<1>8. todo' \in Seq(Ref) /\ head \in Ref
  <2>1. head \in Ref
    BY <1>1 DEF TreeTypeOK
  <2>2. QED BY <1>2, <2>1
<1>9. TreeTypeOK'
  BY <1>1, <1>2, <1>4, <1>6, <1>8 DEF TreeTypeOK, LockInv, countVars, treeVars
<1>10. ControlInv(t)' /\ CallInv(t)' /\ WalkInv(t)'
  BY <1>1, <1>2, <1>3, <1>4 DEF ControlInv, CallInv, WalkInv, Before, Owning
<1>11. ASSUME NEW u \in Thread \ {t}
       PROVE  ControlInv(u)' /\ CallInv(u)' /\ WalkInv(u)'
  <2>1. Aside(t, u)
    BY <1>2, <1>3, <1>4, <1>5 DEF Aside
  <2>2. WalkInv(u) /\ Len(trees) \in Nat
    BY <1>1, References DEF TreeInv
  <2>3. pc[u] = "apply" => /\ cur[u] \in DOMAIN span' /\ call[u].key \in span'[cur[u]]
                           /\ Linked(cur[u])'
    BY <1>2, <1>6, <2>2 DEF WalkInv
  <2>4. QED BY <1>3, <1>5, <1>6, <2>1, <2>2, <2>3, OthersDuringChange
<1>12. SpanInv'
  BY <1>1, <1>2, <1>6 DEF SpanInv, treeVars
<1>13. IsNode(head) => GatherInv'
  <2> SUFFICES ASSUME IsNode(head) PROVE GatherInv'
    OBVIOUS
  <2>1. todo' = <<head>> /\ Len(todo') = 1 /\ todo'[1] = head /\ head < 0
    BY <1>2, <1>8 DEF IsNode
  <2>2. pending' = todo' /\ rest(1)' = Key
    BY <1>1, <1>2, <1>5, <1>7, <2>1 DEF pending, rest, SpanInv, treeVars
  <2>3. \A i \in 1 .. Len(todo') : i = 1
    BY <2>1
  <2>4. \A n \in 1 .. Len(nodes), i \in 1 .. 2 :
          -n \in DOMAIN span /\ nodes[n].next[i] = NULL_TREE => childSpan(-n, i) = {}
    BY <1>7 DEF NoGap, Settled
  <2>5. \A n \in 1 .. Len(nodes'), i \in 1 .. 2 :
          -n \in DOMAIN span' /\ nodes'[n].next[i] = NULL_TREE =>
             childSpan(-n, i)' = {}
    BY <1>2, <1>6, <2>4 DEF treeVars
  <2>6. \A r \in 1 .. Len(trees') : span'[r] \subseteq Key
    BY <1>12 DEF SpanInv
  <2>7. todo'[1] \in DOMAIN span'
    BY <1>12, <1>2, <2>1 DEF SpanInv, treeVars
  <2>8. parts' = <<>> /\ c' = 1 /\ Len(v') = 0
    BY <1>2, <1>7
  <2>9. QED BY <2>1, <2>2, <2>3, <2>5, <2>6, <2>7, <2>8 DEF GatherInv
<1>14. OwnerInv(t)'
  <2>1. IsNode(head) => todo' # <<>>
    BY <1>2
  <2>2. head' = head
    BY <1>2 DEF treeVars
  <2>3. QED BY <1>4, <1>13, <2>1, <2>2 DEF OwnerInv
<1>15. RestInv'
  <2>1. ~IsNode(head) => todo' = <<>>
    BY <1>2
  <2>2. QED BY <1>2, <1>6, <1>7, <2>1 DEF RestInv
<1>16. Increasing(v)'
  BY <1>2 DEF TreeInv, ChangeInv, Increasing
<1>17. QED
  BY <1>6, <1>7, <1>9, <1>10, <1>11, <1>12, <1>14, <1>15, <1>16 DEF TreeInv, ChangeInv

LEMMA Pair ==
  ASSUME NEW S, NEW f \in [1 .. 2 -> S]
  PROVE  f \in Seq(S) /\ Len(f) = 2
<1>1. f \in Seq(S)
  BY SeqDef
<1>2. Len(f) \in Nat /\ 1 .. Len(f) = 1 .. 2
  BY <1>1, LenProperties
<1>3. QED BY <1>1, <1>2

(* The children of a node share its keys, child 1 has the lower ones.      *)
LEMMA SentSplits ==
  ASSUME NEW S \in SUBSET Key, NEW key \in Key \cup {0}
  PROVE  /\ sent(S, key, 1) \cup sent(S, key, 2) = S
         /\ \A k \in sent(S, key, 1), l \in sent(S, key, 2) : k < l
         /\ sent(S, key, 1) \cap sent(S, key, 2) = {}
         /\ \A i : sent(S, key, i) \subseteq S
<1>1. sent(S, key, 1) \cup sent(S, key, 2) = S
  BY Sent
<1>2. ASSUME NEW k \in sent(S, key, 1), NEW l \in sent(S, key, 2) PROVE k < l
  <2>1. ~(k > key) /\ l > key /\ k \in Key /\ l \in Key
    BY Sent
  <2>2. k \in Nat /\ l \in Nat /\ key \in Nat
    BY <2>1, Keys
  <2>3. QED BY <2>1, <2>2
<1>3. sent(S, key, 1) \cap sent(S, key, 2) = {}
  BY Sent
<1>4. \A i : sent(S, key, i) \subseteq S
  BY DEF sent
<1>5. QED BY <1>1, <1>2, <1>3, <1>4

LEMMA ChildSpans ==
  ASSUME TreeInv, NEW r \in DOMAIN span, IsNode(r)
  PROVE  /\ childSpan(r, 1) \cup childSpan(r, 2) = span[r]
         /\ \A k \in childSpan(r, 1), l \in childSpan(r, 2) : k < l
         /\ childSpan(r, 1) \cap childSpan(r, 2) = {}
         /\ \A i : childSpan(r, i) \subseteq span[r]
<1>1. span[r] \in SUBSET Key /\ r \in Ref
  BY DEF TreeInv, SpanInv
<1>2. Node(r).key \in Key \cup {0}
  BY <1>1, References, NodeType DEF TreeInv, Node
<1>3. QED BY <1>1, <1>2, SentSplits DEF childSpan

(* gatherAll goes down: the children take the place of their parent.       *)
LEMMA ChildrenTodo ==
  ASSUME TreeInv, NEW t \in Thread, GatherChildren(t)
  PROVE  /\ GatherInv' /\ todo' # <<>> /\ todo' \in Seq(Ref) /\ UNCHANGED backboneVars
         /\ UNCHANGED <<v, trees>> /\ parts = <<>> /\ c = 1 /\ IsNode(head)
<1> DEFINE r == todo[1]
           next == nodes[-r].next
           L == Len(todo)
<1>1. /\ pc[t] = "gather" /\ IsNode(head) /\ ~isLeaf(Head(todo))
      /\ todo' = Node(Head(todo)).next \o Tail(todo)
      /\ UNCHANGED <<backboneVars, v, trees>>
  BY DEF GatherChildren, backboneVars, treeVars
<1>2. /\ GatherInv /\ parts = <<>> /\ L \in Nat \ {0} /\ todo \in Seq(Ref)
      /\ Head(todo) = r /\ r \in DOMAIN span /\ -r \in 1 .. Len(nodes) /\ IsNode(r)
      /\ Node(r) = nodes[-r] /\ todo # <<>> /\ r \in Int /\ -(-r) = r
  BY <1>1, AtNode
<1>3. TreeTypeOK /\ next \in [1 .. 2 -> Ref] /\ \A i \in 1 .. 2 : next[i] \in Int
  BY <1>2, NodeType, References DEF TreeInv
<1>4. \A i \in 1 .. 2 : next[i] < 0 /\ next[i] \in DOMAIN span /\ span[next[i]] = childSpan(r, i)
  <2>1. \A i \in 1 .. 2 : IsNode(next[i]) /\ Settled(r, i)
    BY <1>1, <1>2, AtNode
  <2>2. \A i \in 1 .. 2 : next[i] < 0 /\ next[i] # NULL_TREE
    BY <1>3, <2>1 DEF IsNode, NULL_TREE
  <2>3. QED BY <1>2, <2>1, <2>2 DEF TreeInv, LinkInv
<1>5. c = 1
  BY <1>1, <1>2, <1>3 DEF GatherInv, TreeTypeOK
<1>6. /\ todo' \in Seq(Ref) /\ Len(todo') = L + 1 /\ todo'[1] = next[1] /\ todo'[2] = next[2]
      /\ \A i \in 3 .. L + 1 : todo'[i] = todo[i - 1]
  <2>1. next \in Seq(Ref) /\ Len(next) = 2
    BY <1>3, Pair
  <2>2. Tail(todo) \in Seq(Ref) /\ Len(Tail(todo)) = L - 1
        /\ \A i \in 1 .. L - 1 : Tail(todo)[i] = todo[i + 1]
    BY <1>2, HeadTailProperties
  <2>3. todo' = next \o Tail(todo)
    BY <1>1, <1>2
  <2> HIDE DEF next, L
  <2>4. todo' \in Seq(Ref) /\ Len(todo') = L + 1
        /\ \A i \in 1 .. L + 1 : todo'[i] = IF i <= 2 THEN next[i] ELSE Tail(todo)[i - 2]
    <3>1. /\ todo' \in Seq(Ref) /\ Len(todo') = Len(next) + Len(Tail(todo))
          /\ \A i \in 1 .. Len(next) + Len(Tail(todo)) :
               todo'[i] = IF i <= Len(next) THEN next[i] ELSE Tail(todo)[i - Len(next)]
      BY <2>1, <2>2, <2>3, ConcatProperties
    <3>2. Len(next) + Len(Tail(todo)) = L + 1
      BY <1>2, <2>1, <2>2
    <3>3. QED BY <2>1, <3>1, <3>2
  <2>5. ASSUME NEW i \in 3 .. L + 1 PROVE todo'[i] = todo[i - 1]
    <3>1. i \in 1 .. L + 1 /\ i - 2 \in 1 .. L - 1 /\ (i - 2) + 1 = i - 1 /\ ~(i <= 2)
      BY <1>2
    <3>2. QED BY <2>2, <2>4, <3>1
  <2>6. 1 \in 1 .. L + 1 /\ 2 \in 1 .. L + 1
    BY <1>2
  <2>7. QED BY <2>4, <2>5, <2>6
<1> HIDE DEF r, next, L
<1>7. /\ \A i : rest(i) = span[todo[i]]
      /\ \A i : rest(i)' = span[todo'[i]]
  <2>1. parts' = <<>> /\ c' = 1 /\ span' = span
    BY <1>1, <1>2, <1>5 DEF backboneVars
  <2>2. pending = todo /\ pending' = todo'
    BY <1>2, <2>1 DEF pending
  <2>3. QED BY <1>5, <2>1, <2>2 DEF rest
<1>8. /\ rest(1)' = childSpan(r, 1) /\ rest(2)' = childSpan(r, 2) /\ rest(1) = span[r]
      /\ \A i \in 3 .. L + 1 : rest(i)' = rest(i - 1)
  BY <1>4, <1>6, <1>7 DEF r
<1>9. /\ childSpan(r, 1) \cup childSpan(r, 2) = rest(1)
      /\ \A k \in childSpan(r, 1), l \in childSpan(r, 2) : k < l
  BY <1>2, <1>8, ChildSpans
<1>10. ASSUME NEW i \in 1 .. L + 1
       PROVE  /\ todo'[i] < 0 /\ todo'[i] \in DOMAIN span
              /\ \E j \in 1 .. L : rest(i)' \subseteq rest(j) /\ (i >= 3 => j = i - 1)
                                   /\ (i <= 2 => j = 1)
  <2>1. CASE i <= 2
    <3>1. (i = 1 \/ i = 2) /\ 1 \in 1 .. L
      BY <1>2, <2>1
    <3>2. QED BY <1>4, <1>6, <1>8, <1>9, <3>1
  <2>2. CASE i >= 3
    <3>1. i - 1 \in 1 .. L /\ i \in 3 .. L + 1
      BY <1>2, <2>2
    <3>2. todo[i - 1] < 0 /\ todo[i - 1] \in DOMAIN span
      BY <1>2, <3>1 DEF GatherInv, L
    <3>3. todo'[i] = todo[i - 1] /\ rest(i)' = rest(i - 1)
      BY <1>6, <1>8, <3>1
    <3>4. \E j \in 1 .. L : rest(i)' \subseteq rest(j) /\ (i >= 3 => j = i - 1)
                            /\ (i <= 2 => j = 1)
      <4>1. i \in Int /\ ~(i <= 2)
        BY <2>2
      <4>2. QED BY <3>1, <3>3, <4>1
    <3>5. QED BY <3>2, <3>3, <3>4
  <2>3. QED BY <1>2, <2>1, <2>2
<1>11. ASSUME NEW i \in 1 .. L + 1, NEW j \in 1 .. L + 1, i < j,
              NEW k \in rest(i)', NEW l \in rest(j)'
       PROVE  k < l
  <2>1. CASE j <= 2
    <3>1. i = 1 /\ j = 2
      BY <1>2, <1>11, <2>1
    <3>2. k \in childSpan(r, 1) /\ l \in childSpan(r, 2)
      BY <1>8, <1>11, <3>1
    <3>3. QED BY <1>9, <3>2
  <2>2. CASE j >= 3
    <3>1. PICK m \in 1 .. L : /\ rest(i)' \subseteq rest(m)
                              /\ (i >= 3 => m = i - 1) /\ (i <= 2 => m = 1)
      BY <1>10
    <3>2. j - 1 \in 1 .. L /\ m < j - 1
      BY <1>2, <1>11, <2>2, <3>1
    <3>3. k \in rest(m) /\ l \in rest(j - 1)
      BY <1>2, <1>8, <1>11, <2>2, <3>1
    <3>4. QED BY <1>2, <3>2, <3>3 DEF GatherInv, L
  <2>3. QED BY <1>2, <2>1, <2>2
<1>12. \A q : Linked(q)' <=> Linked(q)
  BY <1>1, SameBackbone
<1>13. ASSUME NEW q \in 1 .. Len(trees), Linked(q), NEW k \in span[q]
       PROVE  \E i \in 1 .. L + 1 : k \in rest(i)'
  <2>1. PICK i \in 1 .. L : k \in rest(i)
    BY <1>2, <1>13 DEF GatherInv, L
  <2>2. CASE i = 1
    <3>1. k \in rest(1)' \/ k \in rest(2)'
      BY <1>8, <1>9, <2>1, <2>2
    <3>2. 1 \in 1 .. L + 1 /\ 2 \in 1 .. L + 1
      BY <1>2
    <3>3. QED BY <3>1, <3>2
  <2>3. CASE i # 1
    <3>1. i + 1 \in 3 .. L + 1 /\ i + 1 \in 1 .. L + 1 /\ (i + 1) - 1 = i
      BY <1>2, <2>3
    <3>2. rest(i + 1)' = rest(i)
      BY <1>8, <3>1
    <3>3. QED BY <2>1, <3>1, <3>2
  <2>4. QED BY <2>2, <2>3
<1>14. \A q, i : childSpan(q, i)' = childSpan(q, i)
  BY <1>1, SameBackbone
<1>15. \A n \in 1 .. Len(nodes), i \in 1 .. 2 :
         -n \in DOMAIN span /\ nodes[n].next[i] = NULL_TREE =>
           \A j \in 1 .. L + 1 : childSpan(-n, i)' \cap rest(j)' = {}
  BY <1>2, <1>10, <1>14 DEF GatherInv, L
<1>16. \A h \in 1 .. Len(v), i \in 1 .. L + 1 : \A l \in rest(i)' : v[h] < l
  BY <1>2, <1>10 DEF GatherInv, L
<1>17. /\ head' = head /\ nodes' = nodes /\ span' = span /\ parts' = parts /\ c' = c
       /\ v' = v /\ trees' = trees
  BY <1>1 DEF backboneVars
<1>18. GatherInv'
  <2>1. parts' = <<>> /\ c' = 1 /\ Len(todo') = L + 1
    BY <1>2, <1>5, <1>6, <1>17
  <2>2. \A i \in 1 .. Len(todo') : todo'[i] < 0 /\ todo'[i] \in DOMAIN span'
    BY <1>10, <1>17, <2>1
  <2>3. \A i, j \in 1 .. Len(todo') : i < j => \A k \in rest(i)', l \in rest(j)' : k < l
    BY <1>11, <2>1
  <2>4. \A h \in 1 .. Len(v'), i \in 1 .. Len(todo') : \A l \in rest(i)' : v'[h] < l
    BY <1>16, <1>17, <2>1
  <2>5. \A q \in 1 .. Len(trees') : Linked(q)' =>
          \A k \in span'[q] : \E i \in 1 .. Len(todo') : k \in rest(i)'
    BY <1>12, <1>13, <1>17, <2>1
  <2>6. \A n \in 1 .. Len(nodes'), i \in 1 .. 2 :
          -n \in DOMAIN span' /\ nodes'[n].next[i] = NULL_TREE =>
            \A j \in 1 .. Len(todo') : childSpan(-n, i)' \cap rest(j)' = {}
    BY <1>15, <1>17, <2>1
  <2>7. QED BY <2>1, <2>2, <2>3, <2>4, <2>5, <2>6, SMTT(40) DEF GatherInv
<1>19. todo' # <<>>
  <2>1. Len(todo') # 0
    BY <1>2, <1>6
  <2>2. QED BY <2>1
<1>20. QED BY <1>1, <1>2, <1>5, <1>6, <1>18, <1>19

LEMMA DoGatherChildren ==
  ASSUME LockInv, TreeInv, LockInv', NEW t \in Thread, GatherChildren(t)
  PROVE  TreeInv'
<1>1. TreeTypeOK /\ ControlInv(t) /\ CallInv(t) /\ WalkInv(t) /\ SpanInv /\ OwnerInv(t)
  BY DEF TreeInv, ChangeInv
<1>2. /\ UNCHANGED <<sizeVars, countVars, call, cur, side, pc, stale, lpc>>
      /\ pc[t] = "gather"
  BY DEF GatherChildren, allLockVars, lockVars, walkVars
<1>3. /\ GatherInv' /\ todo' # <<>> /\ todo' \in Seq(Ref) /\ UNCHANGED backboneVars
      /\ UNCHANGED <<v, trees>> /\ parts = <<>> /\ c = 1 /\ IsNode(head)
  BY ChildrenTodo
<1>4. /\ Ref' = Ref /\ ShapeInv' /\ LinkInv'
      /\ \A r : Linked(r)' <=> Linked(r)
      /\ \A r, i : childSpan(r, i)' = childSpan(r, i)
  BY <1>3, SameBackbone DEF TreeInv
<1>5. TreeTypeOK'
  BY <1>1, <1>2, <1>3, <1>4 DEF TreeTypeOK, LockInv, sizeVars, countVars, backboneVars
<1>6. SpanInv'
  BY <1>1, <1>3, <1>4 DEF SpanInv, backboneVars
<1>7. ASSUME NEW u \in Thread PROVE ControlInv(u)' /\ CallInv(u)' /\ WalkInv(u)'
  <2>1. ControlInv(u) /\ CallInv(u) /\ WalkInv(u)
    BY DEF TreeInv
  <2>2. ControlInv(u)' /\ CallInv(u)'
    BY <1>2, <2>1 DEF ControlInv, CallInv
  <2>3. WalkInv(u)'
    BY <1>2, <1>3, <1>4, <2>1 DEF WalkInv, backboneVars
  <2>4. QED BY <2>2, <2>3
<1>8. lpc[t] = "change"
  BY <1>1, <1>2 DEF ControlInv, Owning
<1>9. OwnerInv(t)'
  BY <1>2, <1>3 DEF OwnerInv
<1>10. \A u \in Thread : OwnerInv(u)'
  BY <1>2, <1>8, <1>9, OwnerStep
<1>11. Gathering' /\ ~Building'
  <2>1. head' = head
    BY <1>3 DEF backboneVars
  <2>2. QED BY <1>2, <1>3, <1>8, <2>1, OwnerStep
<1>12. RestInv'
  BY <1>3, <1>11 DEF RestInv, backboneVars
<1>13. Increasing(v)'
  BY <1>3 DEF TreeInv, ChangeInv, Increasing
<1>14. QED BY <1>4, <1>5, <1>6, <1>7, <1>10, <1>12, <1>13 DEF TreeInv, ChangeInv

(* gatherAll has visited everything: no key is left outside v, and nobody  *)
(* is about to change a treelet.                                           *)
LEMMA AllGathered ==
  ASSUME TreeInv, GatherInv, todo = <<>>
  PROVE  /\ \A r \in 1 .. Len(trees) : Linked(r) => span[r] = {}
         /\ \A u \in Thread : pc[u] # "apply"
         /\ c = 1
<1>1. \A r \in 1 .. Len(trees) : Linked(r) => span[r] = {}
  <2>1. Len(todo) = 0
    OBVIOUS
  <2>2. QED BY <2>1 DEF GatherInv
<1>2. \A u \in Thread : pc[u] # "apply"
  BY <1>1 DEF TreeInv, WalkInv
<1>3. c = 1
  BY DEF GatherInv, TreeInv, TreeTypeOK
<1>4. QED BY <1>1, <1>2, <1>3

(* buildFromV starts with the root and all of v.                           *)
LEMMA BuildBegins ==
  ASSUME TreeInv, IsNode(head), GatherInv, todo = <<>>,
         UNCHANGED <<head, nodes, v, c, todo>>, Len(trees') = Len(trees),
         parts' = <<[node |-> head, first |-> 0, len |-> Len(v)]>>,
         span' = [r \in {head} \cup 1 .. Len(trees) |-> span[r]],
         \A r \in 1 .. Len(trees) : /\ trees'[r].items \subseteq trees[r].items
                                    /\ IsFiniteSet(trees'[r].items),
         \A u \in Thread : pc'[u] # "apply"
  PROVE  /\ Ref' = Ref /\ LinkInv' /\ SpanInv' /\ NoGap' /\ BuildInv' /\ c = 1
         /\ parts' \in Seq([node : Ref, first : Nat, len : Nat])
<1>1. /\ TreeTypeOK /\ SpanInv /\ LinkInv /\ parts = <<>> /\ c = 1
      /\ \A r \in 1 .. Len(trees) : Linked(r) => span[r] = {}
  BY AllGathered DEF TreeInv, GatherInv
<1>2. Ref' = Ref /\ \A r : Linked(r)' <=> Linked(r)
  BY DEF Ref, Linked
<1>3. /\ head \in Ref /\ head \in Int /\ head < 0 /\ head \in DOMAIN span
      /\ Len(v) \in Nat /\ Len(trees) \in Nat
  BY <1>1, References DEF TreeTypeOK, SpanInv, IsNode
<1>4. /\ DOMAIN span' = {head} \cup 1 .. Len(trees)
      /\ \A r \in {head} \cup 1 .. Len(trees) : span'[r] = span[r]
  OBVIOUS
<1>5. /\ Len(parts') = 1 /\ parts'[1] = [node |-> head, first |-> 0, len |-> Len(v)]
      /\ parts' \in Seq([node : Ref, first : Nat, len : Nat]) /\ parts' # <<>>
      /\ parts'[1].node = head /\ parts'[1].first = 0 /\ parts'[1].len = Len(v)
  BY <1>3
<1>6. ASSUME NEW n \in 1 .. Len(nodes), NEW i \in 1 .. 2 PROVE ~Settled(-n, i)'
  <2>1. CASE -n = head
    <3>1. 1 \in 1 .. Len(parts') /\ ~(i < c')
      BY <1>1, <1>5
    <3>2. QED BY <1>5, <2>1, <3>1 DEF Settled
  <2>2. CASE -n # head
    <3>1. -n \notin DOMAIN span'
      BY <1>3, <1>4, <2>2
    <3>2. QED BY <3>1 DEF Settled
  <2>3. QED BY <2>1, <2>2
<1>7. LinkInv'
  <2> SUFFICES ASSUME NEW n \in 1 .. Len(nodes)
               PROVE  /\ \A i \in 1 .. 2 :
                           LET r == nodes[n].next[i] IN
                           IF r < 0 THEN r \notin DOMAIN span' ELSE span'[r] = {}
                      /\ IsNode(nodes[n].next[1]) = IsNode(nodes[n].next[2])
    BY <1>6 DEF LinkInv
  <2>1. ASSUME NEW i \in 1 .. 2
        PROVE  IF nodes[n].next[i] < 0 THEN nodes[n].next[i] \notin DOMAIN span'
                                       ELSE span'[nodes[n].next[i]] = {}
    <3> DEFINE r == nodes[n].next[i]
    <3>1. r \in Ref /\ Linked(r) /\ r # head
      BY <1>1, NodeType DEF TreeInv, ShapeInv, Linked
    <3>2. CASE r < 0
      BY <1>3, <1>4, <3>1, <3>2
    <3>3. CASE ~(r < 0)
      <4>1. r \in 1 .. Len(trees)
        BY <1>1, <3>1, <3>3, References DEF IsNode
      <4>2. QED BY <1>1, <1>4, <3>1, <3>3, <4>1
    <3>4. QED BY <3>2, <3>3
  <2>2. IsNode(nodes[n].next[1]) = IsNode(nodes[n].next[2])
    BY <1>1 DEF LinkInv
  <2>3. QED BY <2>1, <2>2
<1>8. SpanInv'
  <2>1. NULL_TREE \in 1 .. Len(trees)
    BY <1>1, References DEF SpanInv, NULL_TREE, IsNode
  <2>2. /\ {head, NULL_TREE} \cup 1 .. Len(trees) \subseteq DOMAIN span'
        /\ DOMAIN span' \subseteq Ref /\ span'[NULL_TREE] = {}
    BY <1>1, <1>3, <1>4, <2>1, References DEF SpanInv
  <2>3. \A r \in DOMAIN span' : r \in DOMAIN span /\ span'[r] = span[r]
    BY <1>1, <1>4 DEF SpanInv
  <2>4. span'[head] = Key
    BY <1>1, <1>4 DEF SpanInv
  <2>5. \A r \in 1 .. Len(trees) :
          trees'[r].items \subseteq span'[r] /\ IsFiniteSet(trees'[r].items)
    BY <1>1, <1>4 DEF SpanInv
  <2>6. QED BY <1>1, <1>2, <2>2, <2>3, <2>4, <2>5 DEF SpanInv
<1>9. NoGap'
  BY <1>6 DEF NoGap
<1>10. rest(1)' = Key
  <2>1. pending'[1] = head
    BY <1>5 DEF pending
  <2>2. span'[head] = Key
    BY <1>1, <1>4 DEF SpanInv
  <2>3. QED BY <1>1, <2>1, <2>2 DEF rest
<1>11. BuildInv'
  <2>1. \A i \in 1 .. Len(parts') : i = 1
    BY <1>5
  <2>2. PartInv(parts[1])'
    <3>1. \A j \in 1 .. Len(v) : v[j] \in Key /\ 0 < j /\ j <= 0 + Len(v)
      BY <1>1, <1>3 DEF TreeTypeOK
    <3>2. span'[head] = Key /\ head \in DOMAIN span'
      BY <1>1, <1>4 DEF SpanInv
    <3>3. QED BY <1>3, <1>5, <3>1, <3>2 DEF PartInv
  <2>3. \A r \in 1 .. Len(trees') : Linked(r)' => span'[r] = {} /\ trees'[r].items = {}
    BY <1>1, <1>2, <1>4 DEF SpanInv
  <2>4. \A j \in 1 .. Len(v') : v'[j] \in rest(1)'
    BY <1>1, <1>10 DEF TreeTypeOK
  <2>5. 1 \in 1 .. Len(parts')
    BY <1>5
  <2>6. QED BY <1>5, <2>1, <2>2, <2>3, <2>4, <2>5 DEF BuildInv
<1>12. QED BY <1>1, <1>2, <1>5, <1>7, <1>8, <1>9, <1>11

LEMMA DoFreeTreelet ==
  ASSUME LockInv, TreeInv, LockInv', NEW t \in Thread, FreeTreelet(t)
  PROVE  TreeInv'
<1>1. /\ TreeTypeOK /\ ControlInv(t) /\ CallInv(t) /\ WalkInv(t) /\ SpanInv /\ OwnerInv(t)
      /\ ShapeInv /\ Increasing(v)
  BY DEF TreeInv, ChangeInv
<1> DEFINE place == IF todo = <<>> THEN "build" ELSE "gather"
<1>2. /\ UNCHANGED <<head, nodes, v, c, todo, sizeVars, countVars, call, side, stale, lpc>>
      /\ pc[t] = "free" /\ pc' = [pc EXCEPT ![t] = place] /\ destroyed(t)
      /\ todo = <<>> => /\ parts' = <<[node |-> head, first |-> 0, len |-> Len(v)]>>
                        /\ span' = [r \in {head} \cup 1 .. Len(trees) |-> span[r]]
      /\ todo # <<>> => UNCHANGED <<parts, span>>
  BY DEF FreeTreelet, to, allLockVars, lockVars
<1>3. /\ cur' = [cur EXCEPT ![t] = 0]
      /\ trees' \in Seq([lock : Thread \cup {0}, items : SUBSET Key])
      /\ Len(trees') = Len(trees)
      /\ cur[t] \in 1 .. Len(trees) /\ trees[cur[t]].lock = t
      /\ \A q \in 1 .. Len(trees) : q # cur[t] => trees'[q] = trees[q]
      /\ trees'[cur[t]].items \subseteq trees[cur[t]].items
      /\ trees'[cur[t]].items \subseteq span[cur[t]]
      /\ IsFiniteSet(trees'[cur[t]].items)
  BY <1>2, Destroyed
<1>4. /\ pc'[t] = place /\ pc' \in [Thread -> Place] /\ cur' \in [Thread -> Ref \cup {0}]
      /\ place \in {"build", "gather"}
      /\ \A u \in Thread \ {t} : pc'[u] = pc[u] /\ cur'[u] = cur[u]
  BY <1>1, <1>2, <1>3 DEF TreeTypeOK, Place, Owning
<1>5. /\ lpc[t] = "change" /\ IsNode(head) /\ GatherInv /\ parts = <<>>
      /\ \A u \in Thread : lpc[u] = "read" => stale[u]
  BY <1>1, <1>2 DEF ControlInv, WalkInv, Owning, OwnerInv, GatherInv
<1>6. \A u \in Thread \ {t}, q \in 1 .. Len(trees) :
        trees[q].lock = u => trees'[q].lock = u
  BY <1>3
<1>7. Ref' = Ref /\ \A r : Linked(r)' <=> Linked(r)
  BY <1>2, <1>3 DEF Ref, Linked
<1>8. ControlInv(t)' /\ CallInv(t)' /\ WalkInv(t)'
  BY <1>1, <1>2, <1>4, <1>5 DEF ControlInv, CallInv, WalkInv, Before, Owning
<1>9. \A u \in Thread \ {t} : OwnerInv(u)' /\ Aside(t, u)
  BY <1>2, <1>4, <1>5, <1>6, OwnerStep DEF Aside
<1>10. Increasing(v)' /\ ShapeInv'
  BY <1>1, <1>2 DEF Increasing, ShapeInv
<1>11. CASE todo # <<>>
  <2>1. UNCHANGED shapeVars /\ pc'[t] = "gather"
    BY <1>2, <1>4, <1>11 DEF shapeVars
  <2>2. SpanInv'
    BY <1>3, <2>1, SetItems
  <2>3. LinkInv' /\ GatherInv'
    BY <1>3, <1>5, <2>1, SameShape DEF TreeInv
  <2>4. Quiet(t)
    BY <1>2, <1>3, <1>5, <1>9, <2>1 DEF Quiet
  <2>5. TreeTypeOK'
    BY <1>1, <1>2, <1>3, <1>4, <1>7, <2>1
    DEF TreeTypeOK, LockInv, sizeVars, countVars, shapeVars
  <2>6. OwnerInv(t)'
    BY <1>2, <1>11, <2>1, <2>3 DEF OwnerInv
  <2>7. RestInv'
    <3>1. Gathering' /\ ~Building'
      BY <1>2, <1>4, <1>5, <2>1, OwnerStep
    <3>2. QED BY <1>5, <2>1, <3>1 DEF RestInv, shapeVars
  <2>8. QED
    BY <1>8, <1>9, <1>10, <2>2, <2>3, <2>4, <2>5, <2>6, <2>7, Others DEF TreeInv, ChangeInv
<1>12. CASE todo = <<>>
  <2>1. pc'[t] = "build"
    BY <1>4, <1>12
  <2>2. \A u \in Thread : pc[u] # "apply" /\ pc'[u] # "apply"
    BY <1>4, <1>5, <1>12, <2>1, AllGathered
  <2>3. \A r \in 1 .. Len(trees) : /\ trees'[r].items \subseteq trees[r].items
                                   /\ IsFiniteSet(trees'[r].items)
    BY <1>1, <1>3 DEF SpanInv
  <2>4. /\ LinkInv' /\ SpanInv' /\ NoGap' /\ BuildInv' /\ c = 1
        /\ parts' \in Seq([node : Ref, first : Nat, len : Nat])
    BY <1>2, <1>3, <1>5, <1>12, <2>2, <2>3, BuildBegins
  <2>5. TreeTypeOK'
    BY <1>1, <1>2, <1>3, <1>4, <1>7, <2>4 DEF TreeTypeOK, LockInv, sizeVars, countVars
  <2>6. OwnerInv(t)'
    BY <1>2, <2>1, <2>4 DEF OwnerInv
  <2>7. RestInv'
    <3>1. ~Gathering' /\ Building'
      BY <1>4, <1>5, <2>1, OwnerStep
    <3>2. QED BY <1>2, <1>12, <2>4, <3>1 DEF RestInv
  <2>8. \A u \in Thread \ {t} : ControlInv(u)' /\ CallInv(u)' /\ WalkInv(u)'
    <3>1. Len(trees) \in Nat
      BY <1>1, References
    <3>2. QED BY <1>2, <1>3, <1>5, <1>7, <1>9, <2>2, <3>1, OthersDuringChange
  <2>9. QED BY <1>8, <1>9, <1>10, <2>4, <2>5, <2>6, <2>7, <2>8 DEF TreeInv, ChangeInv
<1>13. QED BY <1>11, <1>12

(* Child i of node n is replaced.                                          *)
relinked(s, n, i, x) == [s EXCEPT ![n].next[i] = x]

NodeOf(R) == [key : Key \cup {0}, next : [1 .. 2 -> R]]

OtherwiseSame(s, s2, n, i, x) ==
  /\ Len(s2) = Len(s)
  /\ \A m \in 1 .. Len(s) : s2[m].key = s[m].key
  /\ \A m \in 1 .. Len(s), j \in 1 .. 2 :
       s2[m].next[j] = IF m = n /\ j = i THEN x ELSE s[m].next[j]

LEMMA SetNext ==
  ASSUME NEW R, NEW s \in Seq(NodeOf(R)),
         NEW n \in 1 .. Len(s), NEW i \in 1 .. 2, NEW x \in R
  PROVE  LET s2 == relinked(s, n, i, x) IN
         s2 \in Seq(NodeOf(R)) /\ OtherwiseSame(s, s2, n, i, x)
<1> DEFINE e == [s[n] EXCEPT !.next[i] = x]
           s2 == relinked(s, n, i, x)
<1>1. s[n] \in NodeOf(R)
  BY ElementOfSeq
<1>2. /\ e \in NodeOf(R) /\ e.key = s[n].key
      /\ \A j \in 1 .. 2 : e.next[j] = IF j = i THEN x ELSE s[n].next[j]
  BY <1>1 DEF NodeOf
<1>3. s2 = [s EXCEPT ![n] = e]
  BY DEF relinked
<1> HIDE DEF e, s2
<1>4. /\ s2 \in Seq(NodeOf(R)) /\ Len(s2) = Len(s)
      /\ \A m \in 1 .. Len(s) : s2[m] = IF m = n THEN e ELSE s[m]
  BY <1>2, <1>3, ExceptSeq
<1>5. /\ \A m \in 1 .. Len(s) : s2[m].key = s[m].key
      /\ \A m \in 1 .. Len(s), j \in 1 .. 2 :
           s2[m].next[j] = IF m = n /\ j = i THEN x ELSE s[m].next[j]
  BY <1>2, <1>4
<1>6. QED BY <1>4, <1>5 DEF s2, OtherwiseSame

(* What is left to visit when child c of the first node has been taken     *)
LEMMA RestAfterTake ==
  ASSUME TreeInv, NEW t \in Thread, pc[t] = "take", IsNode(head), isLeaf(todo[1]),
         UNCHANGED <<span, parts>>, c' = nextChild,
         todo' = IF c = 2 THEN Tail(todo) ELSE todo,
         \A r \in DOMAIN span : \A i : IsNode(r) => childSpan(r, i)' = childSpan(r, i)
  PROVE  /\ todo' \in Seq(Ref) /\ c' \in 1 .. 2
         /\ c' = 2 => todo' = todo /\ c = 1
         /\ childSpan(todo[1], c) \subseteq rest(1)
         /\ \A i \in 1 .. Len(todo') : todo'[i] < 0 /\ todo'[i] \in DOMAIN span
         /\ \A i \in 1 .. Len(todo') :
              /\ i + (c - 1) \in 1 .. Len(todo) /\ rest(i)' \subseteq rest(i + (c - 1))
              /\ \A k \in childSpan(todo[1], c), l \in rest(i)' : k < l
         /\ \A j \in 1 .. Len(todo) : \A k \in rest(j) :
              k \in childSpan(todo[1], c) \/ \E i \in 1 .. Len(todo') : k \in rest(i)'
<1> DEFINE r == todo[1]
           L == Len(todo)
<1>1. /\ GatherInv /\ parts = <<>> /\ todo # <<>> /\ L \in Nat \ {0} /\ todo \in Seq(Ref)
      /\ r \in DOMAIN span /\ IsNode(r) /\ c \in 1 .. 2
  BY AtNode DEF TreeInv, TreeTypeOK
<1>2. /\ childSpan(r, 1) \cup childSpan(r, 2) = span[r]
      /\ \A k \in childSpan(r, 1), l \in childSpan(r, 2) : k < l
  BY <1>1, ChildSpans
<1>3. pending = todo /\ pending' = todo'
  BY <1>1 DEF pending
<1>4. /\ rest(1) = IF c = 2 THEN childSpan(r, 2) ELSE span[r]
      /\ \A i \in 2 .. L : rest(i) = span[todo[i]]
  BY <1>1, <1>3 DEF rest
<1>5. \A i \in 1 .. L : todo[i] < 0 /\ todo[i] \in DOMAIN span
  BY <1>1 DEF GatherInv
<1>6. \A i, j \in 1 .. L : i < j => \A k \in rest(i), l \in rest(j) : k < l
  BY <1>1 DEF GatherInv
<1>7. 1 \in 1 .. L /\ childSpan(r, c) \subseteq rest(1) /\ (c = 1 \/ c = 2)
  BY <1>1, <1>2, <1>4
<1>8. CASE c = 1
  <2>1. todo' = todo /\ c' = 2 /\ Len(todo') = L
    BY <1>8 DEF nextChild
  <2>2. /\ rest(1)' = childSpan(r, 2) /\ rest(1) = span[r]
        /\ \A i \in 2 .. L : rest(i)' = rest(i)
    <3>1. rest(1)' = childSpan(r, 2)
      BY <1>1, <1>3, <2>1 DEF rest
    <3>2. ASSUME NEW i \in 2 .. L PROVE rest(i)' = span[todo[i]]
      BY <1>3, <2>1 DEF rest
    <3>3. QED BY <1>4, <1>8, <3>1, <3>2
  <2> HIDE DEF r, L
  <2>3. ASSUME NEW i \in 1 .. L
        PROVE  /\ rest(i)' \subseteq rest(i)
               /\ \A k \in childSpan(r, 1), l \in rest(i)' : k < l
    <3>1. CASE i = 1
      BY <1>2, <2>2, <3>1
    <3>2. CASE i # 1
      <4>1. i \in 2 .. L /\ 1 < i
        BY <1>1, <3>2
      <4>2. QED BY <1>6, <1>7, <1>8, <2>2, <4>1
    <3>3. QED BY <3>1, <3>2
  <2>4. ASSUME NEW j \in 1 .. L, NEW k \in rest(j)
        PROVE  k \in childSpan(r, 1) \/ \E i \in 1 .. L : k \in rest(i)'
    <3>1. CASE j = 1
      BY <1>2, <1>7, <2>2, <2>4, <3>1
    <3>2. CASE j # 1
      BY <1>1, <2>2, <2>4, <3>2
    <3>3. QED BY <3>1, <3>2
  <2>5. \A i \in 1 .. L : i + (c - 1) = i
    BY <1>8
  <2>6. QED BY <1>1, <1>5, <1>7, <1>8, <2>1, <2>3, <2>4, <2>5 DEF r, L
<1>9. CASE c = 2
  <2>1. /\ todo' = Tail(todo) /\ c' = 1 /\ Len(todo') = L - 1 /\ todo' \in Seq(Ref)
        /\ \A i \in 1 .. L - 1 : todo'[i] = todo[i + 1]
    BY <1>1, <1>9, HeadTailProperties DEF nextChild
  <2>2. rest(1) = childSpan(r, 2) /\ \A i \in 1 .. L - 1 : rest(i)' = rest(i + 1)
    <3>1. ASSUME NEW i \in 1 .. L - 1 PROVE rest(i)' = rest(i + 1)
      <4>1. rest(i)' = span[todo'[i]]
        BY <1>3, <2>1 DEF rest
      <4>2. i + 1 \in 2 .. L
        BY <1>1
      <4>3. QED BY <1>4, <2>1, <4>1, <4>2
    <3>2. QED BY <1>4, <1>9, <3>1
  <2> HIDE DEF r, L
  <2>3. ASSUME NEW i \in 1 .. L - 1
        PROVE  /\ i + 1 \in 1 .. L /\ 1 < i + 1 /\ rest(i)' \subseteq rest(i + 1)
               /\ todo'[i] < 0 /\ todo'[i] \in DOMAIN span
    <3>1. i + 1 \in 1 .. L /\ 1 < i + 1
      BY <1>1
    <3>2. QED BY <1>5, <2>1, <2>2, <3>1
  <2>4. ASSUME NEW i \in 1 .. L - 1, NEW k \in childSpan(r, 2), NEW l \in rest(i)'
        PROVE  k < l
    BY <1>6, <1>7, <2>2, <2>3, <2>4
  <2>5. ASSUME NEW j \in 1 .. L, NEW k \in rest(j)
        PROVE  k \in childSpan(r, 2) \/ \E i \in 1 .. L - 1 : k \in rest(i)'
    <3>1. CASE j = 1
      BY <2>2, <2>5, <3>1
    <3>2. CASE j # 1
      <4>1. j - 1 \in 1 .. L - 1 /\ (j - 1) + 1 = j
        BY <1>1, <3>2
      <4>2. QED BY <2>2, <2>5, <4>1
    <3>3. QED BY <3>1, <3>2
  <2>6. \A i \in 1 .. L - 1 : i + (c - 1) = i + 1
    BY <1>9
  <2>7. \A i \in 1 .. L - 1 :
          /\ i + (c - 1) \in 1 .. L /\ rest(i)' \subseteq rest(i + (c - 1))
          /\ \A k \in childSpan(r, c), l \in rest(i)' : k < l
    BY <1>9, <2>3, <2>4, <2>6
  <2>8. \A j \in 1 .. L : \A k \in rest(j) :
          k \in childSpan(r, c) \/ \E i \in 1 .. L - 1 : k \in rest(i)'
    BY <1>9, <2>5
  <2>9. \A i \in 1 .. L - 1 : todo'[i] < 0 /\ todo'[i] \in DOMAIN span
    BY <2>3
  <2>10. Len(todo') = L - 1 /\ todo' \in Seq(Ref) /\ c' = 1
    BY <2>1
  <2>11. /\ todo' \in Seq(Ref) /\ c' \in 1 .. 2 /\ (c' = 2 => todo' = todo /\ c = 1)
         /\ childSpan(todo[1], c) \subseteq rest(1)
    BY <1>7, <2>10 DEF r
  <2>12. \A i \in 1 .. Len(todo') : todo'[i] < 0 /\ todo'[i] \in DOMAIN span
    BY <2>9, <2>10
  <2>13. \A i \in 1 .. Len(todo') :
           /\ i + (c - 1) \in 1 .. Len(todo) /\ rest(i)' \subseteq rest(i + (c - 1))
           /\ \A k \in childSpan(todo[1], c), l \in rest(i)' : k < l
    BY <2>7, <2>10 DEF r, L
  <2>14. \A j \in 1 .. Len(todo) : \A k \in rest(j) :
           k \in childSpan(todo[1], c) \/ \E i \in 1 .. Len(todo') : k \in rest(i)'
    BY <2>8, <2>10 DEF r, L
  <2>15. QED BY <2>11, <2>12, <2>13, <2>14
<1>10. QED BY <1>7, <1>8, <1>9

(* A treelet is taken out of the backbone: no key leads to it any more.    *)
LEMMA TakenOut ==
  ASSUME TreeInv, NEW t \in Thread, pc[t] = "take", IsNode(head),
         nodes' = relinked(nodes, -Head(todo), c, NULL_TREE),
         UNCHANGED <<head, trees, span, parts, cur>>
  PROVE  /\ isLeaf(todo[1]) /\ cur[t] = nodes[-todo[1]].next[c]
         /\ nodes' \in Seq(NodeOf(Ref)) /\ Len(nodes') = Len(nodes) /\ Ref' = Ref
         /\ \A n \in 1 .. Len(nodes), i \in 1 .. 2 :
              nodes'[n].next[i] = IF n = -todo[1] /\ i = c THEN NULL_TREE ELSE nodes[n].next[i]
         /\ \A n \in 1 .. Len(nodes) : nodes'[n].key = nodes[n].key
         /\ \A x : Linked(x)' => Linked(x) \/ x = NULL_TREE
         /\ \A x : Linked(x) /\ x # cur[t] => Linked(x)'
         /\ cur[t] # NULL_TREE => ~Linked(cur[t])'
         /\ cur[t] # NULL_TREE => span[cur[t]] = childSpan(todo[1], c)
         /\ cur[t] = NULL_TREE =>
              \A j \in 1 .. Len(todo) : childSpan(todo[1], c) \cap rest(j) = {}
         /\ trees[cur[t]].items \subseteq childSpan(todo[1], c)
<1> DEFINE r == todo[1]
           n0 == -r
           q == cur[t]
<1>1. /\ TreeTypeOK /\ SpanInv /\ LinkInv /\ ShapeInv /\ OwnerInv(t) /\ c \in 1 .. 2
      /\ NULL_TREE \in Ref /\ NULL_TREE \in 1 .. Len(trees) /\ span[NULL_TREE] = {}
      /\ head # NULL_TREE
  <2>1. TreeTypeOK /\ SpanInv /\ LinkInv /\ ShapeInv /\ OwnerInv(t) /\ c \in 1 .. 2
    BY DEF TreeInv, ChangeInv, TreeTypeOK
  <2>2. NULL_TREE \in Ref /\ span[NULL_TREE] = {}
    BY <2>1 DEF SpanInv
  <2>3. NULL_TREE \in 1 .. Len(trees)
    BY <2>1, <2>2, References DEF NULL_TREE, IsNode
  <2>4. head # NULL_TREE
    BY <2>1 DEF TreeTypeOK
  <2>5. QED BY <2>1, <2>2, <2>3, <2>4
<1>2. /\ r \in Ref /\ r \in Int /\ r < 0 /\ r \in DOMAIN span /\ -r \in 1 .. Len(nodes)
      /\ Head(todo) = r /\ Node(r) = nodes[-r] /\ Settled(r, c) /\ GatherInv
      /\ -n0 = r
  BY <1>1, AtNode
<1>3. isLeaf(r) /\ q = nodes[-r].next[c] /\ q \in 1 .. Len(trees) /\ q # head
  <2>1. q = victim /\ isLeaf(r)
    BY <1>1 DEF OwnerInv
  <2>2. q = nodes[-r].next[c]
    BY <1>2, <2>1 DEF victim
  <2>3. q \in 1 .. Len(trees)
    BY <1>2, <2>1, VictimLinked
  <2>4. QED BY <1>1, <1>2, <2>1, <2>2, <2>3 DEF ShapeInv
<1>4. /\ nodes \in Seq(NodeOf(Ref))
      /\ nodes' = relinked(nodes, n0, c, NULL_TREE)
      /\ n0 \in 1 .. Len(nodes) /\ q = nodes[n0].next[c] /\ -n0 = r
  BY <1>1, <1>2, <1>3 DEF TreeTypeOK, NodeOf
<1> HIDE DEF r, q, n0
<1>5. /\ nodes' \in Seq(NodeOf(Ref))
      /\ Len(nodes') = Len(nodes)
      /\ \A n \in 1 .. Len(nodes) : nodes'[n].key = nodes[n].key
      /\ \A n \in 1 .. Len(nodes), i \in 1 .. 2 :
           nodes'[n].next[i] = IF n = n0 /\ i = c THEN NULL_TREE ELSE nodes[n].next[i]
  <2>1. c \in 1 .. 2 /\ NULL_TREE \in Ref
    BY <1>1
  <2>2. nodes' \in Seq(NodeOf(Ref)) /\ OtherwiseSame(nodes, nodes', n0, c, NULL_TREE)
    BY <1>4, <2>1, SetNext
  <2>3. QED BY <2>2 DEF OtherwiseSame
<1>6. Ref' = Ref
  BY <1>5 DEF Ref
<1>7. \A x : Linked(x)' => Linked(x) \/ x = NULL_TREE
  BY <1>5 DEF Linked
<1>8. \A x : Linked(x) /\ x # q => Linked(x)'
  BY <1>4, <1>5 DEF Linked
<1>9. ASSUME q # NULL_TREE, Linked(q)' PROVE FALSE
  <2>1. PICK n \in 1 .. Len(nodes), i \in 1 .. 2 : nodes'[n].next[i] = q
    BY <1>3, <1>5, <1>9 DEF Linked, q
  <2>2. nodes[n].next[i] = q /\ ~(n = n0 /\ i = c)
    BY <1>5, <1>9, <2>1
  <2>3. QED BY <1>1, <1>4, <1>9, <2>2 DEF ShapeInv
<1>10. q # NULL_TREE => span[q] = childSpan(r, c)
  BY <1>1, <1>2, <1>4 DEF LinkInv
<1>11. q = NULL_TREE => \A j \in 1 .. Len(todo) : childSpan(r, c) \cap rest(j) = {}
  <2>1. \A n \in 1 .. Len(nodes), i \in 1 .. 2 :
          -n \in DOMAIN span /\ nodes[n].next[i] = NULL_TREE =>
            \A j \in 1 .. Len(todo) : childSpan(-n, i) \cap rest(j) = {}
    BY <1>2 DEF GatherInv
  <2>2. QED BY <1>1, <1>2, <1>4, <2>1
<1>12. trees[q].items \subseteq childSpan(r, c)
  BY <1>1, <1>3, <1>10 DEF SpanInv
<1>13. QED BY <1>3, <1>5, <1>6, <1>7, <1>8, <1>9, <1>10, <1>11, <1>12 DEF r, q, n0

LEMMA IncreasingConcat ==
  ASSUME NEW s1 \in Seq(Key), NEW s2 \in Seq(Key), Increasing(s1), Increasing(s2),
         \A i \in 1 .. Len(s1), j \in 1 .. Len(s2) : s1[i] < s2[j]
  PROVE  /\ s1 \o s2 \in Seq(Key) /\ Increasing(s1 \o s2)
         /\ Len(s1 \o s2) = Len(s1) + Len(s2)
         /\ \A h \in 1 .. Len(s1 \o s2) :
              \/ h \in 1 .. Len(s1) /\ (s1 \o s2)[h] = s1[h]
              \/ \E j \in 1 .. Len(s2) : (s1 \o s2)[h] = s2[j]
         /\ \A h \in 1 .. Len(s1) : h \in 1 .. Len(s1 \o s2) /\ (s1 \o s2)[h] = s1[h]
         /\ \A j \in 1 .. Len(s2) :
              Len(s1) + j \in 1 .. Len(s1 \o s2) /\ (s1 \o s2)[Len(s1) + j] = s2[j]
<1> DEFINE s == s1 \o s2
           a == Len(s1)
           b == Len(s2)
<1>1. /\ s \in Seq(Key) /\ Len(s) = a + b /\ a \in Nat /\ b \in Nat
      /\ \A h \in 1 .. a + b : s[h] = IF h <= a THEN s1[h] ELSE s2[h - a]
  BY ConcatProperties
<1> HIDE DEF s, a, b
<1>2. ASSUME NEW h \in 1 .. a + b
      PROVE  \/ h \in 1 .. a /\ s[h] = s1[h]
             \/ h > a /\ h - a \in 1 .. b /\ s[h] = s2[h - a]
  BY <1>1
<1>3. ASSUME NEW i \in 1 .. a + b, NEW j \in 1 .. a + b, i < j PROVE s[i] < s[j]
  <2>1. CASE j <= a
    <3>1. i \in 1 .. a /\ j \in 1 .. a /\ s[i] = s1[i] /\ s[j] = s1[j]
      BY <1>1, <1>3, <2>1
    <3>2. QED BY <1>3, <3>1 DEF Increasing, a
  <2>2. CASE i > a
    <3>1. i - a \in 1 .. b /\ j - a \in 1 .. b /\ s[i] = s2[i - a] /\ s[j] = s2[j - a]
          /\ i - a < j - a
      BY <1>1, <1>3, <2>2
    <3>2. QED BY <3>1 DEF Increasing, b
  <2>3. CASE i <= a /\ j > a
    <3>1. i \in 1 .. a /\ j - a \in 1 .. b /\ s[i] = s1[i] /\ s[j] = s2[j - a]
      BY <1>1, <2>3
    <3>2. QED BY <3>1 DEF a, b
  <2>4. QED BY <1>1, <2>1, <2>2, <2>3
<1>4. Increasing(s)
  BY <1>1, <1>3 DEF Increasing
<1>5. \A h \in 1 .. a : h \in 1 .. a + b /\ s[h] = s1[h]
  BY <1>1
<1>6. \A j \in 1 .. b : a + j \in 1 .. a + b /\ s[a + j] = s2[j]
  BY <1>1
<1>7. QED BY <1>1, <1>2, <1>4, <1>5, <1>6 DEF s, a, b

LEMMA ItemsInOrder ==
  ASSUME TreeInv, NEW r \in 1 .. Len(trees)
  PROVE  LET items == trees[r].items
             s == InOrder(items)
         IN /\ s \in Seq(Key) /\ Increasing(s) /\ Len(s) \in Nat
            /\ \A j \in 1 .. Len(s) : s[j] \in items
            /\ \A k \in items : \E j \in 1 .. Len(s) : s[j] = k
<1> DEFINE items == trees[r].items
           s == InOrder(items)
<1>1. items \in SUBSET Nat /\ items \subseteq Key /\ IsFiniteSet(items)
  BY TreeletType, Keys DEF TreeInv, SpanInv
<1>2. /\ s \in Seq(items) /\ Increasing(s)
      /\ \A k \in items : \E j \in 1 .. Len(s) : s[j] = k
  BY <1>1, AddItems
<1> HIDE DEF s, items
<1>3. \A j \in 1 .. Len(s) : s[j] \in items
  BY <1>2, ElementOfSeq
<1>4. s \in [1 .. Len(s) -> Key] /\ Len(s) \in Nat
  BY <1>1, <1>2, <1>3, LenProperties
<1>5. s \in Seq(Key)
  BY <1>4, IsASeq
<1>6. QED BY <1>2, <1>3, <1>4, <1>5 DEF s, items

(* What gatherAll has taken is below what is left.                         *)
LEMMA GatherGoesOn ==
  ASSUME TreeInv, NEW t \in Thread, pc[t] = "take", IsNode(head),
         nodes' = relinked(nodes, -Head(todo), c, NULL_TREE),
         UNCHANGED <<head, trees, span, parts, cur>>, c' = nextChild,
         todo' = IF c = 2 THEN Tail(todo) ELSE todo,
         v' = v \o InOrder(trees[cur[t]].items)
  PROVE  /\ GatherInv' /\ v' \in Seq(Key) /\ Increasing(v') /\ c' \in 1 .. 2
         /\ todo' \in Seq(Ref)
         /\ \A k : (\E j \in 1 .. Len(v') : v'[j] = k) <=>
                      (\E j \in 1 .. Len(v) : v[j] = k) \/ k \in trees[cur[t]].items
<1> DEFINE r == todo[1]
           q == cur[t]
           items == trees[q].items
           S == childSpan(r, c)
<1>1. /\ isLeaf(r) /\ q = nodes[-r].next[c]
      /\ Len(nodes') = Len(nodes)
      /\ \A n \in 1 .. Len(nodes), i \in 1 .. 2 :
           nodes'[n].next[i] = IF n = -r /\ i = c THEN NULL_TREE ELSE nodes[n].next[i]
      /\ \A n \in 1 .. Len(nodes) : nodes'[n].key = nodes[n].key
      /\ \A x : Linked(x)' => Linked(x) \/ x = NULL_TREE
      /\ \A x : x = q /\ q # NULL_TREE => ~Linked(x)'
      /\ q # NULL_TREE => span[q] = S
      /\ q = NULL_TREE => \A j \in 1 .. Len(todo) : S \cap rest(j) = {}
      /\ items \subseteq S
  BY TakenOut
<1>a. isLeaf(todo[1])
  BY TakenOut
<1>b. \A n \in 1 .. Len(nodes) : nodes'[n].key = nodes[n].key
  BY TakenOut
<1>2. /\ GatherInv /\ TreeTypeOK /\ SpanInv /\ Increasing(v) /\ parts = <<>>
      /\ -r \in 1 .. Len(nodes) /\ r < 0 /\ r \in Int /\ Node(r) = nodes[-r]
      /\ todo # <<>> /\ 1 \in 1 .. Len(todo)
  BY AtNode DEF TreeInv, ChangeInv
<1>3. q \in 1 .. Len(trees) /\ Linked(q) /\ c \in 1 .. 2 /\ span[NULL_TREE] = {}
  <2>1. c \in 1 .. 2 /\ span[NULL_TREE] = {} /\ q = victim
    BY <1>2 DEF TreeTypeOK, SpanInv, TreeInv, ChangeInv, OwnerInv
  <2>2. Head(todo) = r
    BY AtNode
  <2>3. QED BY <1>1, <2>1, <2>2, VictimLinked
<1>4. \A x \in DOMAIN span : \A i : IsNode(x) => childSpan(x, i)' = childSpan(x, i)
  <2>1. \A x \in DOMAIN span : IsNode(x) => -x \in 1 .. Len(nodes)
    BY <1>2, References DEF SpanInv
  <2>2. ASSUME NEW x \in DOMAIN span, NEW i, IsNode(x)
        PROVE  childSpan(x, i)' = childSpan(x, i)
    <3>1. nodes'[-x].key = nodes[-x].key
      BY <1>b, <2>1, <2>2
    <3>2. QED BY <3>1 DEF childSpan, Node
  <2>3. QED BY <2>2
<1>5. /\ todo' \in Seq(Ref) /\ c' \in 1 .. 2
      /\ c' = 2 => todo' = todo /\ c = 1
      /\ S \subseteq rest(1)
      /\ \A i \in 1 .. Len(todo') : todo'[i] < 0 /\ todo'[i] \in DOMAIN span
      /\ \A i \in 1 .. Len(todo') :
           /\ i + (c - 1) \in 1 .. Len(todo) /\ rest(i)' \subseteq rest(i + (c - 1))
           /\ \A k \in S, l \in rest(i)' : k < l
      /\ \A j \in 1 .. Len(todo) : \A k \in rest(j) :
           k \in S \/ \E i \in 1 .. Len(todo') : k \in rest(i)'
  <2>1. isLeaf(todo[1]) /\ UNCHANGED <<span, parts>>
    BY <1>a
  <2>2. QED BY <1>4, <2>1, RestAfterTake
<1> DEFINE s == InOrder(items)
<1>6. /\ s \in Seq(Key) /\ Increasing(s) /\ v \in Seq(Key)
      /\ \A j \in 1 .. Len(s) : s[j] \in items
      /\ \A k \in items : \E j \in 1 .. Len(s) : s[j] = k
  <2>1. /\ s \in Seq(Key) /\ Increasing(s)
        /\ \A j \in 1 .. Len(s) : s[j] \in items
        /\ \A k \in items : \E j \in 1 .. Len(s) : s[j] = k
    BY <1>3, ItemsInOrder
  <2>2. v \in Seq(Key)
    BY <1>2 DEF TreeTypeOK
  <2>3. QED BY <2>1, <2>2
<1>7. \A h \in 1 .. Len(v), i \in 1 .. Len(todo) : \A l \in rest(i) : v[h] < l
  BY <1>2 DEF GatherInv
<1> HIDE DEF r, q, items, S, s
<1>8. /\ v' = v \o s
      /\ \A i \in 1 .. Len(v), j \in 1 .. Len(s) : v[i] < s[j]
  <2>1. v' = v \o s
    BY DEF s, items, q
  <2>2. ASSUME NEW i \in 1 .. Len(v), NEW j \in 1 .. Len(s) PROVE v[i] < s[j]
    <3>1. s[j] \in rest(1)
      BY <1>1, <1>5, <1>6
    <3>2. QED BY <1>2, <1>7, <3>1
  <2>3. QED BY <2>1, <2>2
<1>9. /\ v' \in Seq(Key) /\ Increasing(v')
      /\ \A h \in 1 .. Len(v') : \/ h \in 1 .. Len(v) /\ v'[h] = v[h]
                                 \/ \E j \in 1 .. Len(s) : v'[h] = s[j]
      /\ \A h \in 1 .. Len(v) : h \in 1 .. Len(v') /\ v'[h] = v[h]
      /\ \A j \in 1 .. Len(s) : Len(v) + j \in 1 .. Len(v') /\ v'[Len(v) + j] = s[j]
  BY <1>2, <1>6, <1>8, IncreasingConcat
<1>10. \A k : (\E j \in 1 .. Len(v') : v'[j] = k) <=>
                (\E j \in 1 .. Len(v) : v[j] = k) \/ k \in items
  <2>1. \A h \in 1 .. Len(v') : v'[h] \in items \/ \E j \in 1 .. Len(v) : v[j] = v'[h]
    BY <1>6, <1>9
  <2>2. \A k \in items : \E j \in 1 .. Len(v') : v'[j] = k
    <3> SUFFICES ASSUME NEW k \in items PROVE \E j \in 1 .. Len(v') : v'[j] = k
      OBVIOUS
    <3>1. PICK j \in 1 .. Len(s) : s[j] = k
      BY <1>6
    <3>2. Len(v) + j \in 1 .. Len(v') /\ v'[Len(v) + j] = k
      BY <1>9, <3>1
    <3>3. QED BY <3>2
  <2>3. \A j \in 1 .. Len(v) : \E h \in 1 .. Len(v') : v'[h] = v[j]
    BY <1>9
  <2>4. ASSUME NEW k, NEW h \in 1 .. Len(v'), v'[h] = k
        PROVE  (\E j \in 1 .. Len(v) : v[j] = k) \/ k \in items
    BY <2>1, <2>4
  <2>5. ASSUME NEW k, NEW j \in 1 .. Len(v), v[j] = k
        PROVE  \E h \in 1 .. Len(v') : v'[h] = k
    BY <2>3, <2>5
  <2>6. QED BY <2>2, <2>4, <2>5, Zenon
<1>11. GatherInv'
  <2>1. c' = 2 => todo' # <<>> /\ isLeaf(todo[1])'
    <3>1. CASE c' = 2
      <4>1. todo' = todo /\ c = 1
        BY <1>5, <3>1
      <4>2. nodes'[-r].next[1] = NULL_TREE
        BY <1>1, <1>2, <4>1
      <4>3. QED BY <1>2, <4>1, <4>2 DEF isLeaf, Node, IsNode, NULL_TREE, r
    <3>2. QED BY <3>1
  <2>2. \A i, j \in 1 .. Len(todo') : i < j =>
          \A k \in rest(i)', l \in rest(j)' : k < l
    <3>1. \A i, j \in 1 .. Len(todo) : i < j => \A k \in rest(i), l \in rest(j) : k < l
      BY <1>2 DEF GatherInv
    <3> SUFFICES ASSUME NEW i \in 1 .. Len(todo'), NEW j \in 1 .. Len(todo'), i < j,
                        NEW k \in rest(i)', NEW l \in rest(j)'
                 PROVE  k < l
      OBVIOUS
    <3>2. i + (c - 1) < j + (c - 1)
      BY <1>3
    <3>3. QED BY <1>5, <3>1, <3>2
  <2>3. \A h \in 1 .. Len(v'), i \in 1 .. Len(todo') : \A l \in rest(i)' : v'[h] < l
    <3> SUFFICES ASSUME NEW h \in 1 .. Len(v'), NEW i \in 1 .. Len(todo'), NEW l \in rest(i)'
                 PROVE  v'[h] < l
      OBVIOUS
    <3>1. i + (c - 1) \in 1 .. Len(todo) /\ l \in rest(i + (c - 1))
      BY <1>5
    <3>2. CASE h \in 1 .. Len(v) /\ v'[h] = v[h]
      BY <1>7, <3>1, <3>2
    <3>3. CASE \E j \in 1 .. Len(s) : v'[h] = s[j]
      BY <1>1, <1>5, <1>6, <3>3
    <3>4. QED BY <1>9, <3>2, <3>3
  <2>4. \A x \in 1 .. Len(trees) : Linked(x)' =>
          \A k \in span[x] : \E i \in 1 .. Len(todo') : k \in rest(i)'
    <3> SUFFICES ASSUME NEW x \in 1 .. Len(trees), Linked(x)', NEW k \in span[x]
                 PROVE  \E i \in 1 .. Len(todo') : k \in rest(i)'
      OBVIOUS
    <3>1. Linked(x) /\ x # NULL_TREE /\ x # q
      BY <1>1, <1>3
    <3>2. PICK j \in 1 .. Len(todo) : k \in rest(j)
      BY <1>2, <3>1 DEF GatherInv
    <3>3. k \notin S
      <4>1. CASE q = NULL_TREE
        BY <1>1, <3>2, <4>1
      <4>2. CASE q # NULL_TREE
        <5>1. span[q] = S /\ span[x] \cap span[q] = {}
          BY <1>1, <1>2, <1>3, <3>1, <4>2 DEF SpanInv
        <5>2. QED BY <5>1
      <4>3. QED BY <4>1, <4>2
    <3>4. QED BY <1>5, <3>2, <3>3
  <2>5. \A n \in 1 .. Len(nodes), i \in 1 .. 2 :
          -n \in DOMAIN span /\ nodes'[n].next[i] = NULL_TREE =>
            \A j \in 1 .. Len(todo') : childSpan(-n, i)' \cap rest(j)' = {}
    <3> SUFFICES ASSUME NEW n \in 1 .. Len(nodes), NEW i \in 1 .. 2,
                        -n \in DOMAIN span, nodes'[n].next[i] = NULL_TREE,
                        NEW j \in 1 .. Len(todo')
                 PROVE  childSpan(-n, i)' \cap rest(j)' = {}
      OBVIOUS
    <3>1. childSpan(-n, i)' = childSpan(-n, i)
      BY <1>4 DEF IsNode
    <3>2. CASE n = -r /\ i = c
      <4>1. childSpan(-n, i) = S
        BY <1>2, <3>2 DEF S
      <4>2. \A k \in S : k \in Key /\ k \in Nat
        <5>1. S \subseteq Key
          BY <1>2, <1>4, Keys, AtNode, ChildSpans DEF S, r, SpanInv
        <5>2. QED BY <5>1, Keys
      <4>3. \A k \in S, l \in rest(j)' : k < l
        BY <1>5
      <4>4. QED BY <3>1, <4>1, <4>2, <4>3
    <3>3. CASE ~(n = -r /\ i = c)
      <4>1. nodes[n].next[i] = NULL_TREE
        BY <1>1, <3>3
      <4>2. \A h \in 1 .. Len(todo) : childSpan(-n, i) \cap rest(h) = {}
        BY <1>2, <4>1 DEF GatherInv
      <4>3. QED BY <1>5, <3>1, <4>2
    <3>4. QED BY <3>2, <3>3
  <2>6. QED BY <1>1, <1>2, <1>5, <2>1, <2>2, <2>3, <2>4, <2>5 DEF GatherInv
<1>12. v' \in Seq(Key) /\ Increasing(v') /\ c' \in 1 .. 2 /\ todo' \in Seq(Ref)
  BY <1>5, <1>9
<1>13. \A k : (\E j \in 1 .. Len(v') : v'[j] = k) <=>
                (\E j \in 1 .. Len(v) : v[j] = k) \/ k \in trees[cur[t]].items
  BY <1>10 DEF items, q
<1>14. QED BY <1>11, <1>12, <1>13

LEMMA DoGatherTake ==
  ASSUME LockInv, TreeInv, LockInv', NEW t \in Thread, GatherTake(t)
  PROVE  TreeInv'
<1>1. /\ TreeTypeOK /\ ControlInv(t) /\ CallInv(t) /\ WalkInv(t) /\ SpanInv /\ LinkInv
      /\ ShapeInv /\ c \in 1 .. 2
  BY DEF TreeInv, TreeTypeOK
<1>2. /\ UNCHANGED <<head, trees, sizeVars, countVars, call, cur, side, parts, span>>
      /\ pc[t] = "take" /\ pc' = [pc EXCEPT ![t] = "free"] /\ IsNode(head)
      /\ changeLayout(t)
      /\ nodes' = relinked(nodes, -Head(todo), c, NULL_TREE) /\ c' = nextChild
      /\ todo' = IF c = 2 THEN Tail(todo) ELSE todo
      /\ v' = v \o InOrder(trees[cur[t]].items)
  BY DEF GatherTake, to, walkVars, relinked
<1>3. /\ GatherInv' /\ v' \in Seq(Key) /\ Increasing(v') /\ c' \in 1 .. 2
      /\ todo' \in Seq(Ref)
  BY <1>2, GatherGoesOn
<1> DEFINE q == cur[t]
           n0 == -todo[1]
<1>4. /\ isLeaf(todo[1])
      /\ q = nodes[n0].next[c]
      /\ nodes' \in Seq(NodeOf(Ref)) /\ Len(nodes') = Len(nodes) /\ Ref' = Ref
      /\ \A n \in 1 .. Len(nodes), i \in 1 .. 2 :
           nodes'[n].next[i] = IF n = n0 /\ i = c THEN NULL_TREE ELSE nodes[n].next[i]
      /\ \A n \in 1 .. Len(nodes) : nodes'[n].key = nodes[n].key
  BY <1>2, TakenOut
<1>5. /\ \A x : Linked(x)' => Linked(x) \/ x = NULL_TREE
      /\ \A x : Linked(x) /\ x # q => Linked(x)'
      /\ q # NULL_TREE => ~Linked(cur[t])'
  BY <1>2, TakenOut
<1>6. /\ lpc[t] = "change" /\ lpc' = lpc /\ \A u \in Thread : lpc[u] = "read" => stale'[u]
  BY <1>1, <1>2, ChangeStale DEF TreeTypeOK
<1>7. /\ parts = <<>> /\ n0 \in 1 .. Len(nodes) /\ -n0 = todo[1]
      /\ todo[1] \in DOMAIN span /\ Node(todo[1]) = nodes[n0]
      /\ ~IsNode(nodes[n0].next[1]) /\ ~IsNode(nodes[n0].next[2])
  <2>1. /\ parts = <<>> /\ n0 \in 1 .. Len(nodes) /\ todo[1] \in Int
        /\ todo[1] \in DOMAIN span /\ Node(todo[1]) = nodes[n0]
        /\ \A i \in 1 .. 2 : IsNode(nodes[n0].next[i]) <=> ~isLeaf(todo[1])
    BY <1>2, AtNode
  <2>2. ~IsNode(nodes[n0].next[1]) /\ ~IsNode(nodes[n0].next[2])
    BY <1>4, <2>1
  <2>3. -n0 = todo[1]
    BY <2>1
  <2>4. QED BY <2>1, <2>2, <2>3
<1>8. /\ pc'[t] = "free" /\ pc' \in [Thread -> Place]
      /\ \A u \in Thread \ {t} : pc'[u] = pc[u]
  BY <1>1, <1>2 DEF TreeTypeOK, Place, Owning
<1>9. /\ NULL_TREE \in 1 .. Len(trees) /\ NULL_TREE = 1 /\ span[NULL_TREE] = {} /\ head # NULL_TREE
  <2>1. NULL_TREE \in Ref /\ span[NULL_TREE] = {}
    BY <1>1 DEF SpanInv
  <2>2. head # NULL_TREE
    BY <1>1 DEF TreeTypeOK
  <2>3. QED BY <1>1, <2>1, <2>2, References DEF NULL_TREE, IsNode
<1> HIDE DEF n0, q
<1>10. TreeTypeOK'
  BY <1>1, <1>2, <1>3, <1>4, <1>8 DEF TreeTypeOK, LockInv, sizeVars, countVars, NodeOf
<1>11. ShapeInv'
  <2>1. ASSUME NEW n \in 1 .. Len(nodes), NEW i \in 1 .. 2
        PROVE  nodes'[n].next[i] # head /\ (nodes'[n].next[i] < 0 => nodes'[n].next[i] < -n)
    <3>1. CASE n = n0 /\ i = c
      BY <1>4, <1>9, <3>1
    <3>2. CASE ~(n = n0 /\ i = c)
      BY <1>1, <1>4, <3>2 DEF ShapeInv
    <3>3. QED BY <3>1, <3>2
  <2>2. ASSUME NEW n \in 1 .. Len(nodes), NEW i \in 1 .. 2,
               NEW m \in 1 .. Len(nodes), NEW j \in 1 .. 2,
               nodes'[n].next[i] = nodes'[m].next[j], nodes'[n].next[i] # NULL_TREE
        PROVE  n = m /\ i = j
    <3>1. nodes'[n].next[i] = nodes[n].next[i] /\ nodes'[m].next[j] = nodes[m].next[j]
      BY <1>4, <2>2
    <3>2. nodes[n].next[i] = nodes[m].next[j] /\ nodes[n].next[i] # NULL_TREE
      BY <2>2, <3>1
    <3>3. QED BY <1>1, <3>2 DEF ShapeInv
  <2>3. QED BY <1>2, <1>4, <2>1, <2>2 DEF ShapeInv
<1>12. LinkInv'
  <2>1. \A x, i : Settled(x, i)' <=> Settled(x, i)
    BY <1>2, <1>7 DEF Settled
  <2>2. \A n \in 1 .. Len(nodes) : \A i : childSpan(-n, i)' = childSpan(-n, i)
    <3>1. \A n \in 1 .. Len(nodes) : -(-n) = n
      BY <1>1, References
    <3>2. QED BY <1>2, <1>4, <3>1 DEF childSpan, Node
  <2> SUFFICES ASSUME NEW n \in 1 .. Len(nodes')
               PROVE  /\ \A i \in 1 .. 2 :
                           LET r == nodes'[n].next[i] IN
                           IF Settled(-n, i)'
                           THEN r # NULL_TREE => r \in DOMAIN span' /\ span'[r] = childSpan(-n, i)'
                           ELSE IF r < 0 THEN r \notin DOMAIN span' ELSE span'[r] = {}
                      /\ IsNode(nodes'[n].next[1]) = IsNode(nodes'[n].next[2])
    BY DEF LinkInv
  <2> n \in 1 .. Len(nodes)
    BY <1>4
  <2>3. ASSUME NEW i \in 1 .. 2
        PROVE  LET r == nodes'[n].next[i] IN
               IF Settled(-n, i)'
               THEN r # NULL_TREE => r \in DOMAIN span' /\ span'[r] = childSpan(-n, i)'
               ELSE IF r < 0 THEN r \notin DOMAIN span' ELSE span'[r] = {}
    <3>1. CASE n = n0 /\ i = c
      <4>1. nodes'[n].next[i] = NULL_TREE
        BY <1>4, <3>1
      <4>2. QED BY <1>2, <1>9, <4>1
    <3>2. CASE ~(n = n0 /\ i = c)
      <4>1. nodes'[n].next[i] = nodes[n].next[i] /\ span' = span
        BY <1>2, <1>4, <3>2
      <4>2. LET r == nodes[n].next[i] IN
            IF Settled(-n, i)
            THEN r # NULL_TREE => r \in DOMAIN span /\ span[r] = childSpan(-n, i)
            ELSE IF r < 0 THEN r \notin DOMAIN span ELSE span[r] = {}
        BY <1>1 DEF LinkInv
      <4>3. QED BY <2>1, <2>2, <4>1, <4>2
    <3>3. QED BY <3>1, <3>2
  <2>4. IsNode(nodes'[n].next[1]) = IsNode(nodes'[n].next[2])
    <3>1. ~IsNode(NULL_TREE)
      BY DEF NULL_TREE, IsNode
    <3>2. CASE n = n0
      <4>1. ~IsNode(nodes'[n].next[1])
        BY <1>4, <1>7, <3>1, <3>2
      <4>2. ~IsNode(nodes'[n].next[2])
        BY <1>4, <1>7, <3>1, <3>2
      <4>3. QED BY <4>1, <4>2 DEF IsNode
    <3>3. CASE n # n0
      <4>1. nodes'[n].next[1] = nodes[n].next[1] /\ nodes'[n].next[2] = nodes[n].next[2]
        BY <1>4, <3>3
      <4>2. IsNode(nodes[n].next[1]) = IsNode(nodes[n].next[2])
        BY <1>1, <1>7 DEF LinkInv
      <4>3. QED BY <4>1, <4>2 DEF IsNode
    <3>4. QED BY <3>2, <3>3
  <2>5. QED BY <2>3, <2>4
<1>13. SpanInv'
  <2>1. \A x, r \in 1 .. Len(trees) :
          Linked(x)' /\ Linked(r)' /\ x # r => span[x] \cap span[r] = {}
    BY <1>1, <1>5, <1>9 DEF SpanInv
  <2>2. QED BY <1>1, <1>2, <1>4, <2>1 DEF SpanInv
<1>14. ControlInv(t)' /\ CallInv(t)' /\ WalkInv(t)'
  <2>1. ControlInv(t)' /\ CallInv(t)'
    BY <1>1, <1>2, <1>6, <1>8 DEF ControlInv, CallInv, Before, Owning
  <2>2. cur'[t] = q /\ q \in 1 .. Len(trees) /\ trees[q].lock = t
    BY <1>1, <1>2 DEF WalkInv, q
  <2>3. cur'[t] = NULL_TREE \/ ~Linked(cur[t])'
    BY <1>5, <2>2
  <2>4. QED BY <1>2, <1>6, <1>8, <2>1, <2>2, <2>3 DEF WalkInv, q
<1>15. ASSUME NEW u \in Thread \ {t}
       PROVE  ControlInv(u)' /\ CallInv(u)' /\ WalkInv(u)' /\ OwnerInv(u)'
  <2>1. Aside(t, u)
    BY <1>2, <1>6, <1>8 DEF Aside
  <2>2. ASSUME pc[u] = "apply"
        PROVE  /\ cur[u] \in DOMAIN span' /\ call[u].key \in span'[cur[u]]
               /\ Linked(cur[u])'
    <3>1. /\ cur[u] \in DOMAIN span /\ call[u].key \in span[cur[u]] /\ Linked(cur[u])
          /\ trees[cur[u]].lock = u
      BY <2>2 DEF TreeInv, WalkInv
    <3>2. cur[u] # q
      BY <1>1, <1>2, <3>1 DEF WalkInv, q
    <3>3. cur'[u] = cur[u]
      BY <1>2
    <3>4. QED BY <1>2, <1>5, <3>1, <3>2, <3>3
  <2>3. Ref \subseteq Ref' /\ Len(trees) <= Len(trees') /\ Len(trees') \in Nat
    BY <1>1, <1>2, <1>4, References
  <2>4. ControlInv(u)' /\ CallInv(u)' /\ WalkInv(u)'
    BY <1>6, <2>1, <2>2, <2>3, OthersDuringChange
  <2>5. QED BY <1>6, <1>8, <2>4, OwnerStep
<1>16. OwnerInv(t)'
  BY <1>2, <1>3, <1>8 DEF OwnerInv
<1>17. RestInv'
  <2>1. Gathering' /\ ~Building'
    BY <1>2, <1>6, <1>8, OwnerStep
  <2>2. QED BY <1>2, <1>7, <2>1 DEF RestInv
<1>18. Increasing(v)'
  BY <1>3 DEF Increasing
<1>19. QED
  BY <1>10, <1>11, <1>12, <1>13, <1>14, <1>15, <1>16, <1>17, <1>18 DEF TreeInv, ChangeInv

-----------------------------------------------------------------------------
(* New nodes                                                               *)

(* The references to a new node and to its treelets                        *)
Fresh == {-(Len(nodes) + 1), Len(trees) + 1, Len(trees) + 2}

LEMMA GrownRef ==
  ASSUME Len(nodes) \in Nat, Len(trees) \in Nat, Len(nodes') = Len(nodes) + 1,
         Len(trees') = Len(trees) + 2
  PROVE  Ref' = Ref \cup Fresh
<1>1. 1 .. Len(trees') = 1 .. Len(trees) \cup {Len(trees) + 1, Len(trees) + 2}
  OBVIOUS
<1>2. 1 .. Len(nodes') = 1 .. Len(nodes) \cup {Len(nodes) + 1}
  OBVIOUS
<1>3. {-n : n \in 1 .. Len(nodes')} = {-n : n \in 1 .. Len(nodes)} \cup {-(Len(nodes) + 1)}
  BY <1>2
<1>4. QED BY <1>1, <1>3 DEF Ref, Fresh

(* A new node over the part of s that leads to S, with two treelets that   *)
(* divide it                                                               *)
Grown(s, f, l, S) ==
  LET T == Len(trees)
      L == Len(nodes)
      n == bigNode(s, f, l)
  IN /\ n \in NodeOf({T + 1, T + 2}) /\ n.next[1] = T + 1 /\ n.next[2] = T + 2
     /\ n.key = bigNodeKey(s, f, l) /\ n.key \in Key \cup {0}
     /\ trees' \in Seq([lock : Thread \cup {0}, items : SUBSET Key])
     /\ Len(trees') = T + 2
     /\ \A q \in 1 .. T : trees'[q] = trees[q]
     /\ DOMAIN span' = DOMAIN span \cup Fresh /\ Fresh \cap Ref = {}
     /\ \A r \in DOMAIN span : span'[r] = span[r]
     /\ span'[-(L + 1)] = S
     /\ \A i \in 1 .. 2 :
          /\ span'[T + i] = sent(S, n.key, i)
          /\ trees'[T + i].items \subseteq span'[T + i]
          /\ IsFiniteSet(trees'[T + i].items)
          /\ \A k \in trees'[T + i].items : \E j \in 1 .. Len(s) : s[j] = k
          /\ \A j \in 1 .. Len(s) : s[j] \in span'[T + i] => s[j] \in trees'[T + i].items

(* constructBigNode makes one.                                             *)
LEMMA NewNode ==
  ASSUME TreeInv, NEW s \in Seq(Key), Increasing(s), NEW f \in Nat, NEW l \in Nat,
         f + l <= Len(s), NEW S \in SUBSET Key,
         \A j \in 1 .. Len(s) : s[j] \in S <=> f < j /\ j <= f + l,
         trees' = trees \o bigNodeTrees(s, f, l), span' = withNode(S, bigNode(s, f, l))
  PROVE  Grown(s, f, l, S)
<1> DEFINE T == Len(trees)
           L == Len(nodes)
           n == bigNode(s, f, l)
           B == bigNodeTrees(s, f, l)
           TreeletRecord == [lock : Thread \cup {0}, items : SUBSET Key]
<1>1. TreeTypeOK /\ SpanInv /\ T \in Nat /\ L \in Nat
  BY References DEF TreeInv
<1>2. bigNodeKey(s, f, l) \in Key \cup {0}
  BY Split
<1>3. /\ n.key = bigNodeKey(s, f, l) /\ n.next[1] = T + 1 /\ n.next[2] = T + 2
      /\ n \in NodeOf({T + 1, T + 2})
  <2>1. n = [key |-> bigNodeKey(s, f, l), next |-> [i \in 1 .. 2 |-> T + i]]
    BY DEF bigNode
  <2>2. [i \in 1 .. 2 |-> T + i] \in [1 .. 2 -> {T + 1, T + 2}]
    OBVIOUS
  <2>3. QED BY <1>2, <2>1, <2>2 DEF NodeOf
<1>4. ASSUME NEW i \in 1 .. 2
      PROVE  /\ childItems(s, f, l, i) \subseteq sent(S, bigNodeKey(s, f, l), i)
             /\ childItems(s, f, l, i) \subseteq Key /\ IsFiniteSet(childItems(s, f, l, i))
             /\ \A k \in childItems(s, f, l, i) : \E j \in 1 .. Len(s) : s[j] = k
             /\ \A j \in 1 .. Len(s) :
                  s[j] \in sent(S, bigNodeKey(s, f, l), i) => s[j] \in childItems(s, f, l, i)
  BY ChildItems, ZenonT(40)
<1>5. /\ B \in Seq(TreeletRecord) /\ Len(B) = 2
      /\ \A i \in 1 .. 2 : B[i].items = childItems(s, f, l, i)
  <2>1. B = [i \in 1 .. 2 |-> [lock |-> 0, items |-> childItems(s, f, l, i)]]
    BY DEF bigNodeTrees, Treelet
  <2>2. \A i \in 1 .. 2 : childItems(s, f, l, i) \in SUBSET Key
    BY <1>4
  <2>3. B \in [1 .. 2 -> TreeletRecord]
    BY <2>1, <2>2
  <2>4. B \in Seq(TreeletRecord) /\ Len(B) = 2
    BY <2>3, Pair
  <2>5. QED BY <2>1, <2>4
<1>6. /\ trees' \in Seq(TreeletRecord) /\ Len(trees') = T + 2
      /\ \A q \in 1 .. T : trees'[q] = trees[q]
      /\ \A i \in 1 .. 2 : trees'[T + i] = B[i]
  <2> HIDE DEF B, TreeletRecord, T
  <2>1. trees \in Seq(TreeletRecord) /\ trees' = trees \o B
    BY <1>1 DEF TreeTypeOK, B, TreeletRecord
  <2>2. /\ trees' \in Seq(TreeletRecord) /\ Len(trees') = T + 2
        /\ \A q \in 1 .. T + 2 : trees'[q] = IF q <= T THEN trees[q] ELSE B[q - T]
    <3>1. B \in Seq(TreeletRecord)
      BY <1>5
    <3>2. trees \o B \in Seq(TreeletRecord)
      BY <2>1, <3>1, ConcatProperties
    <3>3. Len(trees \o B) = T + Len(B)
      BY <2>1, <3>1, ConcatProperties DEF T
    <3>4. \A q \in 1 .. T + Len(B) :
             (trees \o B)[q] = IF q <= T THEN trees[q] ELSE B[q - T]
      BY <2>1, <3>1, ConcatProperties DEF T
    <3>5. QED BY <1>5, <2>1, <3>2, <3>3, <3>4
  <2>3. \A q \in 1 .. T : trees'[q] = trees[q]
    <3>1. \A q \in 1 .. T : q \in 1 .. T + 2 /\ q <= T
      BY <1>1
    <3>2. QED BY <2>2, <3>1, Zenon
  <2>4. \A i \in 1 .. 2 : trees'[T + i] = B[i]
    <3> SUFFICES ASSUME NEW i \in 1 .. 2 PROVE trees'[T + i] = B[i]
      OBVIOUS
    <3>1. T + i \in 1 .. T + 2 /\ ~(T + i <= T) /\ (T + i) - T = i
      BY <1>1
    <3>2. QED BY <2>2, <3>1
  <2>5. QED BY <2>2, <2>3, <2>4
<1>7. Fresh \cap Ref = {} /\ DOMAIN span \subseteq Ref
  <2>1. ASSUME NEW r \in Ref PROVE r # T + 1 /\ r # T + 2 /\ r # -(L + 1)
    <3>1. r \in Int /\ (-r \in 1 .. L \/ r \in 1 .. T)
      BY <1>1, References
    <3>2. T \in Nat /\ L \in Nat
      BY <1>1
    <3> HIDE DEF T, L
    <3>3. QED BY <3>1, <3>2
  <2>2. QED BY <1>1, <2>1 DEF Fresh, SpanInv
<1>8. /\ DOMAIN span' = DOMAIN span \cup Fresh
      /\ \A r \in DOMAIN span : span'[r] = span[r]
      /\ span'[-(L + 1)] = S
      /\ \A i \in 1 .. 2 : span'[T + i] = sent(S, n.key, i)
  <2> HIDE DEF n
  <2>1. span' = [r \in DOMAIN span \cup Fresh |->
                   IF r = -(L + 1) THEN S
                   ELSE IF r \in {T + 1, T + 2} THEN sent(S, n.key, r - T) ELSE span[r]]
    BY DEF withNode, Fresh, n
  <2>2. \A r \in DOMAIN span : r # -(L + 1) /\ r \notin {T + 1, T + 2}
    BY <1>7 DEF Fresh
  <2>3. ASSUME NEW i \in 1 .. 2 PROVE span'[T + i] = sent(S, n.key, i)
    <3>1. T + i \in Fresh /\ T + i # -(L + 1) /\ T + i \in {T + 1, T + 2} /\ (T + i) - T = i
      BY <1>1 DEF Fresh
    <3>2. QED BY <2>1, <3>1
  <2>4. QED BY <2>1, <2>2, <2>3 DEF Fresh
<1> HIDE DEF n, B, T, L
<1>9. ASSUME NEW i \in 1 .. 2
      PROVE  /\ span'[T + i] = sent(S, n.key, i)
             /\ trees'[T + i].items \subseteq span'[T + i]
             /\ IsFiniteSet(trees'[T + i].items)
             /\ \A k \in trees'[T + i].items : \E j \in 1 .. Len(s) : s[j] = k
             /\ \A j \in 1 .. Len(s) : s[j] \in span'[T + i] => s[j] \in trees'[T + i].items
  <2>1. /\ span'[T + i] = sent(S, bigNodeKey(s, f, l), i)
        /\ trees'[T + i].items = childItems(s, f, l, i)
    BY <1>3, <1>5, <1>6, <1>8
  <2>2. QED BY <1>3, <1>4, <2>1
<1>10. QED BY <1>2, <1>3, <1>6, <1>7, <1>8, <1>9 DEF n, T, L, Grown

(* The first change: the treelet at head is divided under a new root.      *)
LEMMA RootMade ==
  ASSUME TreeInv, NEW t \in Thread, pc[t] = "take", ~IsNode(head),
         \A u \in Thread \ {t} : pc[u] \notin Working,
         NEW s, s = InOrder(trees[head].items),
         nodes' = Append(nodes, bigNode(s, 0, Len(s))),
         trees' = trees \o bigNodeTrees(s, 0, Len(s)),
         head' = -(Len(nodes) + 1), span' = withNode(Key, bigNode(s, 0, Len(s))),
         UNCHANGED <<v, c, todo, parts>>
  PROVE  /\ parts = <<>> /\ v = <<>> /\ c = 1 /\ todo = <<>>
         /\ Len(nodes') = Len(nodes) + 1 /\ Len(trees') = Len(trees) + 2
         /\ Ref \subseteq Ref' /\ Ref' = Ref \cup Fresh
         /\ \A q \in 1 .. Len(trees) : trees'[q] = trees[q]
         /\ nodes' \in Seq([key : Key \cup {0}, next : [1 .. 2 -> Ref']])
         /\ trees' \in Seq([lock : Thread \cup {0}, items : SUBSET Key])
         /\ cur[t] = head /\ head \in 1 .. Len(trees)
         /\ \A x : Linked(x)' <=> x \in Fresh \/ (Linked(x) /\ x # head)
         /\ \A x \in 1 .. Len(trees) : Linked(x) /\ x # head => span[x] = {}
         /\ ShapeInv' /\ SpanInv' /\ LinkInv' /\ NoGap'
         /\ UNION {trees'[r].items : r \in {q \in 1 .. Len(trees') : Linked(q)'}}
              = trees[head].items
<1> DEFINE T == Len(trees)
           L == Len(nodes)
           items == trees[head].items
           n1 == bigNode(s, 0, Len(s))
<1>1. /\ TreeTypeOK /\ SpanInv /\ LinkInv /\ ShapeInv /\ RestInv /\ OwnerInv(t)
      /\ T \in Nat /\ L \in Nat
  BY References DEF TreeInv, ChangeInv
<1>2. parts = <<>> /\ v = <<>> /\ c = 1 /\ todo = <<>> /\ NoGap
  <2>1. \A u \in Thread : pc[u] \notin {"build", "expand"}
    BY DEF Working
  <2>2. ~Gathering /\ ~Building
    BY <2>1 DEF Gathering, Building
  <2>3. QED BY <1>1, <2>2 DEF RestInv
<1>3. /\ cur[t] = head /\ head \in Ref /\ head \in 1 .. T /\ head # NULL_TREE
      /\ Linked(head)
  <2>1. cur[t] = victim
    BY <1>1 DEF OwnerInv
  <2>2. head \in Ref /\ head # NULL_TREE /\ Linked(head) /\ cur[t] = head
    BY <1>1, <2>1 DEF TreeTypeOK, Linked, victim
  <2>3. QED BY <1>1, <2>2, References
<1>4. /\ s \in Seq(Key) /\ Increasing(s) /\ Len(s) \in Nat
      /\ \A j \in 1 .. Len(s) : s[j] \in items
      /\ \A k \in items : \E j \in 1 .. Len(s) : s[j] = k
  BY <1>3, ItemsInOrder
<1>5. nodes' = Append(nodes, n1)
  OBVIOUS
<1> HIDE DEF items
<1>6. /\ n1 \in NodeOf({T + 1, T + 2}) /\ n1.next[1] = T + 1 /\ n1.next[2] = T + 2
      /\ n1.key \in Key \cup {0}
      /\ trees' \in Seq([lock : Thread \cup {0}, items : SUBSET Key])
      /\ Len(trees') = T + 2
      /\ \A q \in 1 .. T : trees'[q] = trees[q]
      /\ DOMAIN span' = DOMAIN span \cup Fresh /\ Fresh \cap Ref = {}
      /\ \A r \in DOMAIN span : span'[r] = span[r]
      /\ span'[-(L + 1)] = Key
      /\ \A i \in 1 .. 2 :
           /\ span'[T + i] = sent(Key, n1.key, i)
           /\ trees'[T + i].items \subseteq span'[T + i]
           /\ IsFiniteSet(trees'[T + i].items)
           /\ \A k \in trees'[T + i].items : \E j \in 1 .. Len(s) : s[j] = k
           /\ \A j \in 1 .. Len(s) : s[j] \in span'[T + i] => s[j] \in trees'[T + i].items
  <2>1. \A j \in 1 .. Len(s) : s[j] \in Key <=> 0 < j /\ j <= 0 + Len(s)
    BY <1>4
  <2>2. 0 + Len(s) <= Len(s) /\ 0 \in Nat /\ Key \in SUBSET Key
    BY <1>4
  <2>3. Grown(s, 0, Len(s), Key)
    BY <1>4, <2>1, <2>2, NewNode
  <2>4. QED BY <2>3, Zenon DEF Grown
<1> HIDE DEF n1
<1>7. /\ Len(nodes') = L + 1
      /\ \A n \in 1 .. L : nodes'[n] = nodes[n]
      /\ nodes'[L + 1] = n1
  BY <1>1, <1>5, AppendProperties DEF TreeTypeOK
<1>a. /\ n1 \in NodeOf({T + 1, T + 2}) /\ n1.key \in Key \cup {0}
      /\ n1.next[1] = T + 1 /\ n1.next[2] = T + 2
  BY <1>6, Zenon
<1>b. Len(trees') = T + 2 /\ Fresh \cap Ref = {}
  BY <1>6, Zenon
<1>8. Len(trees') = T + 2 /\ Fresh \cap Ref = {} /\ DOMAIN span \subseteq Ref
  BY <1>1, <1>b DEF SpanInv
<1>9. Ref' = Ref \cup Fresh
  BY <1>1, <1>7, <1>8, GrownRef
<1>10. \A n \in 1 .. L, i \in 1 .. 2 :
         nodes[n].next[i] \in Ref /\ nodes[n].next[i] # head
  BY <1>1, NodeType DEF ShapeInv
<1>11. \A n \in 1 .. L + 1, i \in 1 .. 2 :
         \/ n \in 1 .. L /\ nodes'[n].next[i] = nodes[n].next[i]
         \/ n = L + 1 /\ nodes'[n].next[i] = T + i
  <2>1. \A i \in 1 .. 2 : n1.next[i] = T + i
    BY <1>a
  <2>2. \A n \in 1 .. L + 1 : n \in 1 .. L \/ n = L + 1
    BY <1>1
  <2>3. QED BY <1>7, <2>1, <2>2
<1>12. /\ -(L + 1) \in Fresh /\ T + 1 \in Fresh /\ T + 2 \in Fresh
       /\ \A x \in Fresh : x = -(L + 1) \/ x = T + 1 \/ x = T + 2
  BY DEF Fresh
<1>13. \A x : Linked(x)' <=> x \in Fresh \/ (Linked(x) /\ x # head)
  <2>1. ASSUME NEW x, Linked(x)' PROVE x \in Fresh \/ (Linked(x) /\ x # head)
    <3>1. x = -(L + 1) \/ \E n \in 1 .. L + 1, i \in 1 .. 2 : nodes'[n].next[i] = x
      BY <1>7, <2>1 DEF Linked
    <3>2. ASSUME NEW n \in 1 .. L + 1, NEW i \in 1 .. 2, nodes'[n].next[i] = x
          PROVE  x \in Fresh \/ (Linked(x) /\ x # head)
      <4>1. CASE n \in 1 .. L /\ nodes'[n].next[i] = nodes[n].next[i]
        BY <1>10, <3>2, <4>1 DEF Linked
      <4>2. CASE nodes'[n].next[i] = T + i
        <5>1. i = 1 \/ i = 2
          OBVIOUS
        <5>2. QED BY <1>12, <3>2, <4>2, <5>1
      <4>3. QED BY <1>11, <4>1, <4>2
    <3>3. QED BY <1>12, <3>1, <3>2
  <2>2. ASSUME NEW x \in Fresh PROVE Linked(x)'
    <3>1. L + 1 \in 1 .. Len(nodes') /\ nodes'[L + 1].next[1] = T + 1 /\ nodes'[L + 1].next[2] = T + 2
      BY <1>1, <1>7, <1>a
    <3>2. QED BY <1>12, <3>1 DEF Linked
  <2>3. ASSUME NEW x, Linked(x), x # head PROVE Linked(x)'
    <3>1. PICK n \in 1 .. L, i \in 1 .. 2 : nodes[n].next[i] = x
      BY <2>3 DEF Linked
    <3>2. n \in 1 .. Len(nodes') /\ nodes'[n].next[i] = x
      BY <1>1, <1>7, <3>1
    <3>3. QED BY <3>2 DEF Linked
  <2>4. QED BY <2>1, <2>2, <2>3
<1>14. \A x \in 1 .. T : Linked(x) /\ x # head => span[x] = {}
  <2>1. ASSUME NEW x \in 1 .. T, Linked(x), x # head PROVE span[x] = {}
    <3>1. span[x] \cap span[head] = {} /\ span[head] = Key /\ span[x] \subseteq Key
      BY <1>1, <1>3, <2>1 DEF SpanInv
    <3>2. QED BY <3>1
  <2>2. QED BY <2>1
<1>c. /\ DOMAIN span' = DOMAIN span \cup Fresh
      /\ \A r \in DOMAIN span : span'[r] = span[r]
      /\ span'[-(L + 1)] = Key
      /\ \A i \in 1 .. 2 : span'[T + i] = sent(Key, n1.key, i)
      /\ \A q \in 1 .. T : trees'[q] = trees[q]
  BY <1>6, Zenon
<1>d. \A i \in 1 .. 2 :
        /\ trees'[T + i].items \subseteq span'[T + i]
        /\ IsFiniteSet(trees'[T + i].items)
        /\ \A k \in trees'[T + i].items : \E j \in 1 .. Len(s) : s[j] = k
        /\ \A j \in 1 .. Len(s) : s[j] \in span'[T + i] => s[j] \in trees'[T + i].items
  BY <1>6, Zenon
<1>f. \A r \in {T + 1, T + 2} :
        /\ trees'[r].items \subseteq span'[r]
        /\ IsFiniteSet(trees'[r].items)
        /\ \A k \in trees'[r].items : \E j \in 1 .. Len(s) : s[j] = k
        /\ \A j \in 1 .. Len(s) : s[j] \in span'[r] => s[j] \in trees'[r].items
  <2>1. 1 \in 1 .. 2 /\ 2 \in 1 .. 2
    OBVIOUS
  <2>2. QED BY <1>d, <2>1, Zenon
<1>e. /\ span'[T + 1] \cup span'[T + 2] = Key /\ span'[T + 1] \cap span'[T + 2] = {}
      /\ \A i \in 1 .. 2 : span'[T + i] \subseteq Key
  <2>1. span'[T + 1] = sent(Key, n1.key, 1) /\ span'[T + 2] = sent(Key, n1.key, 2)
    BY <1>c
  <2>2. /\ sent(Key, n1.key, 1) \cup sent(Key, n1.key, 2) = Key
        /\ sent(Key, n1.key, 1) \cap sent(Key, n1.key, 2) = {}
        /\ \A i : sent(Key, n1.key, i) \subseteq Key
    <3>1. Key \in SUBSET Key /\ n1.key \in Key \cup {0}
      BY <1>a
    <3>2. QED BY <3>1, SentSplits
  <2>3. QED BY <1>c, <2>1, <2>2
<1>15. nodes' \in Seq([key : Key \cup {0}, next : [1 .. 2 -> Ref']])
  <2> DEFINE N2 == NodeOf(Ref')
  <2>1. n1 \in N2
    BY <1>9, <1>12, <1>a DEF NodeOf
  <2>2. \A n \in 1 .. L : nodes[n] \in N2
    <3>1. \A n \in 1 .. L : nodes[n] \in [key : Key \cup {0}, next : [1 .. 2 -> Ref]]
      BY <1>1, NodeType
    <3>2. QED BY <1>9, <3>1 DEF NodeOf
  <2> HIDE DEF N2
  <2>3. nodes \in Seq(N2)
    <3>1. nodes \in [1 .. L -> N2]
      BY <1>1, <2>2, SMTT(40) DEF TreeTypeOK
    <3>2. L \in Nat
      BY <1>1
    <3> HIDE DEF L
    <3>3. QED BY <3>1, <3>2, IsASeq
  <2>4. nodes' \in Seq(N2)
    BY <1>5, <2>1, <2>3, AppendProperties
  <2>5. QED BY <2>4 DEF N2, NodeOf
<1>16. ShapeInv'
  <2>1. ASSUME NEW n \in 1 .. L + 1, NEW i \in 1 .. 2
        PROVE  /\ nodes'[n].next[i] # -(L + 1)
               /\ nodes'[n].next[i] < 0 => nodes'[n].next[i] < -n
    <3>1. CASE n \in 1 .. L /\ nodes'[n].next[i] = nodes[n].next[i]
      <4>1. nodes[n].next[i] # -(L + 1)
        BY <1>8, <1>10, <1>12, <3>1
      <4>2. QED BY <1>1, <3>1, <4>1 DEF ShapeInv
    <3>2. CASE nodes'[n].next[i] = T + i
      <4>1. T \in Nat /\ L \in Nat
        BY <1>1
      <4>2. ~(T + i < 0) /\ T + i # -(L + 1)
        BY <4>1
      <4>3. QED BY <3>2, <4>2, Zenon
    <3>3. QED BY <1>11, <3>1, <3>2
  <2>2. ASSUME NEW n \in 1 .. L + 1, NEW i \in 1 .. 2,
               NEW m \in 1 .. L + 1, NEW j \in 1 .. 2,
               nodes'[n].next[i] = nodes'[m].next[j], nodes'[n].next[i] # NULL_TREE
        PROVE  n = m /\ i = j
    <3>1. ASSUME NEW a \in 1 .. L, NEW b \in 1 .. 2, NEW d \in 1 .. 2
          PROVE  nodes[a].next[b] # T + d
      BY <1>8, <1>10, <1>12
    <3>2. CASE n \in 1 .. L
      <4>1. nodes'[n].next[i] = nodes[n].next[i] /\ n # L + 1
        BY <1>1, <1>7, <3>2
      <4>2. m \in 1 .. L /\ nodes'[m].next[j] = nodes[m].next[j]
        <5>1. nodes'[m].next[j] # T + j
          BY <2>2, <3>1, <3>2, <4>1, Zenon
        <5>2. QED BY <1>11, <5>1, Zenon
      <4>3. nodes[n].next[i] = nodes[m].next[j] /\ nodes[n].next[i] # NULL_TREE
        BY <2>2, <4>1, <4>2
      <4>4. QED BY <1>1, <3>2, <4>2, <4>3 DEF ShapeInv
    <3>3. CASE n = L + 1
      <4>1. nodes'[n].next[i] = T + i
        <5>1. n \notin 1 .. L
          BY <1>1, <3>3
        <5>2. QED BY <1>11, <5>1
      <4>2. m = L + 1 /\ nodes'[m].next[j] = T + j
        <5>1. ~(m \in 1 .. L /\ nodes'[m].next[j] = nodes[m].next[j])
          BY <2>2, <3>1, <4>1, Zenon
        <5>2. QED BY <1>11, <5>1, Zenon
      <4>3. QED BY <1>1, <2>2, <3>3, <4>1, <4>2
    <3>4. QED BY <1>11, <3>2, <3>3
  <2>3. Len(nodes') = L + 1 /\ head' = -(L + 1)
    BY <1>7
  <2>4. \A n : n \in 1 .. Len(nodes') => n \in 1 .. L + 1
    BY <2>3
  <2>5. ASSUME NEW n \in 1 .. Len(nodes'), NEW i \in 1 .. 2
        PROVE  /\ nodes'[n].next[i] # head'
               /\ nodes'[n].next[i] < 0 => nodes'[n].next[i] < -n
    <3>1. n \in 1 .. L + 1
      BY <2>4
    <3>2. nodes'[n].next[i] # -(L + 1)
      BY <2>1, <3>1, Zenon
    <3>3. nodes'[n].next[i] < 0 => nodes'[n].next[i] < -n
      BY <2>1, <3>1, Zenon
    <3>4. QED BY <2>3, <3>2, <3>3, Zenon
  <2>6. ASSUME NEW n \in 1 .. Len(nodes'), NEW i \in 1 .. 2,
               NEW m \in 1 .. Len(nodes'), NEW j \in 1 .. 2,
               nodes'[n].next[i] = nodes'[m].next[j], nodes'[n].next[i] # NULL_TREE
        PROVE  n = m /\ i = j
    <3>1. n \in 1 .. L + 1 /\ m \in 1 .. L + 1
      BY <2>4
    <3>2. QED BY <2>2, <2>6, <3>1, Zenon
  <2>7. QED BY <2>5, <2>6, SMTT(40) DEF ShapeInv
<1>17. /\ NULL_TREE \in 1 .. T /\ NULL_TREE \in DOMAIN span /\ span[NULL_TREE] = {}
       /\ \A r \in 1 .. T : r \in DOMAIN span /\ r \in Ref
       /\ \A r \in DOMAIN span : span[r] \subseteq Key
  <2>1. NULL_TREE \in DOMAIN span /\ NULL_TREE \in Ref /\ span[NULL_TREE] = {}
    BY <1>1 DEF SpanInv
  <2>2. NULL_TREE \in 1 .. T
    BY <1>1, <2>1, References DEF NULL_TREE, IsNode
  <2>3. \A r \in 1 .. T : r \in DOMAIN span /\ r \in Ref
    BY <1>1, References DEF SpanInv
  <2>4. \A r \in DOMAIN span : span[r] \subseteq Key
    BY <1>1 DEF SpanInv
  <2>5. QED BY <2>1, <2>2, <2>3, <2>4
<1>18. \A q \in 1 .. T + 2 : q \in 1 .. T \/ q = T + 1 \/ q = T + 2
  BY <1>1
<1>19. SpanInv'
  <2>1. {head', NULL_TREE} \cup 1 .. Len(trees') \subseteq DOMAIN span'
    BY <1>8, <1>12, <1>17, <1>18, <1>c
  <2>2. DOMAIN span' \subseteq Ref'
    BY <1>8, <1>9, <1>c
  <2>3. span'[head'] = Key /\ span'[NULL_TREE] = {}
    BY <1>17, <1>c
  <2>4. \A r \in DOMAIN span' : span'[r] \subseteq Key
    BY <1>12, <1>17, <1>c, <1>e
  <2>5. \A r \in 1 .. T + 2 :
          trees'[r].items \subseteq span'[r] /\ IsFiniteSet(trees'[r].items)
    <3>1. \A r \in 1 .. T : trees[r].items \subseteq span[r] /\ IsFiniteSet(trees[r].items)
      BY <1>1 DEF SpanInv
    <3>2. ASSUME NEW r \in 1 .. T + 2
          PROVE  trees'[r].items \subseteq span'[r] /\ IsFiniteSet(trees'[r].items)
      <4>1. CASE r \in 1 .. T
        BY <1>17, <1>c, <3>1, <4>1
      <4>2. CASE r \in {T + 1, T + 2}
        BY <1>f, <4>2, Zenon
      <4>3. QED BY <1>18, <4>1, <4>2
    <3>3. QED BY <3>2
  <2>6. ASSUME NEW q \in 1 .. T + 2, NEW r \in 1 .. T + 2, Linked(q)', Linked(r)', q # r
        PROVE  span'[q] \cap span'[r] = {}
    <3>1. \A x \in 1 .. T : Linked(x)' => span'[x] = {}
      BY <1>8, <1>13, <1>14, <1>17, <1>c
    <3>2. CASE q \in 1 .. T \/ r \in 1 .. T
      BY <2>6, <3>1, <3>2
    <3>3. CASE ~(q \in 1 .. T \/ r \in 1 .. T)
      <4>1. (q = T + 1 /\ r = T + 2) \/ (q = T + 2 /\ r = T + 1)
        BY <1>18, <2>6, <3>3
      <4>2. QED BY <1>e, <4>1
    <3>4. QED BY <3>2, <3>3
  <2>7. QED BY <1>8, <2>1, <2>2, <2>3, <2>4, <2>5, <2>6 DEF SpanInv
<1>20. ASSUME NEW n \in 1 .. L + 1, NEW i \in 1 .. 2
       PROVE  /\ Settled(-n, i)' <=> -n \in DOMAIN span'
              /\ Settled(-n, i) <=> -n \in DOMAIN span
              /\ n \in 1 .. L => /\ -n \in DOMAIN span' <=> -n \in DOMAIN span
                                 /\ -n \in DOMAIN span => childSpan(-n, i)' = childSpan(-n, i)
              /\ n = L + 1 => -n \in DOMAIN span' /\ childSpan(-n, i)' = sent(Key, n1.key, i)
  <2>1. (Settled(-n, i)' <=> -n \in DOMAIN span') /\ (Settled(-n, i) <=> -n \in DOMAIN span)
    BY <1>2 DEF Settled
  <2>2. -(-n) = n
    BY <1>1
  <2>3. ASSUME n \in 1 .. L
        PROVE  /\ -n \in DOMAIN span' <=> -n \in DOMAIN span
               /\ -n \in DOMAIN span => childSpan(-n, i)' = childSpan(-n, i)
    <3>1. -n \in Ref
      BY <1>1, <2>3, References
    <3>2. QED BY <1>7, <1>8, <1>c, <2>2, <2>3, <3>1 DEF childSpan, Node
  <2>4. ASSUME n = L + 1
        PROVE  -n \in DOMAIN span' /\ childSpan(-n, i)' = sent(Key, n1.key, i)
    BY <1>7, <1>12, <1>c, <2>2, <2>4 DEF childSpan, Node
  <2>5. QED BY <2>1, <2>3, <2>4
<1>21. LinkInv'
  <2> SUFFICES ASSUME NEW n \in 1 .. Len(nodes')
               PROVE  /\ \A i \in 1 .. 2 :
                           LET r == nodes'[n].next[i] IN
                           IF Settled(-n, i)'
                           THEN r # NULL_TREE => r \in DOMAIN span' /\ span'[r] = childSpan(-n, i)'
                           ELSE IF r < 0 THEN r \notin DOMAIN span' ELSE span'[r] = {}
                      /\ IsNode(nodes'[n].next[1]) = IsNode(nodes'[n].next[2])
    BY Zenon DEF LinkInv
  <2>1. n \in 1 .. L + 1
    BY <1>7
  <2>2. ASSUME NEW i \in 1 .. 2
        PROVE  LET r == nodes'[n].next[i] IN
               IF Settled(-n, i)'
               THEN r # NULL_TREE => r \in DOMAIN span' /\ span'[r] = childSpan(-n, i)'
               ELSE IF r < 0 THEN r \notin DOMAIN span' ELSE span'[r] = {}
    <3>1. CASE n \in 1 .. L
      <4> DEFINE r == nodes[n].next[i]
      <4>1. nodes'[n].next[i] = r /\ r \in Ref
        BY <1>7, <1>10, <3>1
      <4>2. IF Settled(-n, i)
            THEN r # NULL_TREE => r \in DOMAIN span /\ span[r] = childSpan(-n, i)
            ELSE IF r < 0 THEN r \notin DOMAIN span ELSE span[r] = {}
        BY <1>1, <3>1 DEF LinkInv
      <4>3. r \in DOMAIN span' <=> r \in DOMAIN span
        BY <1>8, <1>c, <4>1
      <4>4. ~(r < 0) => r \in DOMAIN span
        <5>1. ~(r < 0) => r \in 1 .. T
          BY <1>1, <4>1, References DEF IsNode
        <5>2. QED BY <1>17, <5>1
      <4>5. r \in DOMAIN span => span'[r] = span[r]
        BY <1>c
      <4> HIDE DEF r
      <4>6. /\ Settled(-n, i)' <=> Settled(-n, i)
            /\ Settled(-n, i) => childSpan(-n, i)' = childSpan(-n, i)
        BY <1>20, <2>1, <3>1
      <4>7. IF Settled(-n, i)'
            THEN r # NULL_TREE => r \in DOMAIN span' /\ span'[r] = childSpan(-n, i)'
            ELSE IF r < 0 THEN r \notin DOMAIN span' ELSE span'[r] = {}
        BY <4>2, <4>3, <4>4, <4>5, <4>6
      <4>8. QED BY <4>1, <4>7, Zenon
    <3>2. CASE n = L + 1
      <4>1. nodes'[n].next[i] = T + i
        BY <1>7, <1>a, <3>2
      <4>2. T + i \in DOMAIN span'
        BY <1>12, <1>c
      <4>3. Settled(-n, i)' /\ childSpan(-n, i)' = span'[T + i]
        BY <1>20, <1>c, <2>1, <3>2
      <4>4. nodes'[n].next[i] \in DOMAIN span' /\ span'[nodes'[n].next[i]] = childSpan(-n, i)'
        BY <4>1, <4>2, <4>3
      <4>5. QED BY <4>3, <4>4, Zenon
    <3>3. n \in 1 .. L \/ n = L + 1
      BY <1>1, <2>1
    <3>4. QED BY <3>1, <3>2, <3>3, Zenon
  <2>3. IsNode(nodes'[n].next[1]) = IsNode(nodes'[n].next[2])
    <3>1. CASE n \in 1 .. L
      <4>1. nodes'[n] = nodes[n]
        BY <1>7, <3>1
      <4>2. IsNode(nodes[n].next[1]) = IsNode(nodes[n].next[2])
        BY <1>1, <1>2, <3>1 DEF LinkInv
      <4>3. QED BY <4>1, <4>2
    <3>2. CASE n = L + 1
      <4>1. nodes'[n].next[1] = T + 1 /\ nodes'[n].next[2] = T + 2
        BY <1>7, <1>a, <3>2
      <4>2. ~IsNode(T + 1) /\ ~IsNode(T + 2)
        BY <1>1 DEF IsNode
      <4>3. QED BY <4>1, <4>2 DEF IsNode
    <3>3. QED BY <1>1, <2>1, <3>1, <3>2
  <2>4. QED BY <2>2, <2>3, Zenon
<1>22. NoGap'
  <2> SUFFICES ASSUME NEW n \in 1 .. L + 1, NEW i \in 1 .. 2,
                      Settled(-n, i)', nodes'[n].next[i] = NULL_TREE
               PROVE  childSpan(-n, i)' = {}
    BY <1>7 DEF NoGap
  <2>1. n \in 1 .. L /\ nodes[n].next[i] = NULL_TREE
    <3>1. NULL_TREE # T + i
      BY <1>1, <1>17 DEF NULL_TREE
    <3>2. QED BY <1>11, <3>1
  <2>2. QED BY <1>2, <1>20, <2>1 DEF NoGap
<1>23. UNION {trees'[r].items : r \in {q \in 1 .. Len(trees') : Linked(q)'}} = items
  <2>1. ASSUME NEW r \in 1 .. T + 2, Linked(r)', NEW k \in trees'[r].items PROVE k \in items
    <3>1. CASE r \in 1 .. T
      <4>1. trees[r].items \subseteq span[r] /\ span[r] = {}
        BY <1>1, <1>8, <1>13, <1>14, <1>17, <2>1, <3>1 DEF SpanInv
      <4>2. QED BY <1>c, <2>1, <3>1, <4>1
    <3>2. CASE r = T + 1 \/ r = T + 2
      <4>1. \E j \in 1 .. Len(s) : s[j] = k
        BY <1>f, <2>1, <3>2, Zenon
      <4>2. QED BY <1>4, <4>1
    <3>3. QED BY <1>18, <3>1, <3>2
  <2>2. ASSUME NEW k \in items
        PROVE  \E r \in 1 .. T + 2 : Linked(r)' /\ k \in trees'[r].items
    <3>1. PICK j \in 1 .. Len(s) : s[j] = k
      BY <1>4
    <3>2. k \in Key
      BY <1>4, <3>1, ElementOfSeq
    <3>3. k \in span'[T + 1] \/ k \in span'[T + 2]
      BY <1>e, <3>2
    <3>4. k \in trees'[T + 1].items \/ k \in trees'[T + 2].items
      <4>1. k \in span'[T + 1] => k \in trees'[T + 1].items
        BY <1>f, <3>1, Zenon
      <4>2. k \in span'[T + 2] => k \in trees'[T + 2].items
        BY <1>f, <3>1, Zenon
      <4>3. QED BY <3>3, <4>1, <4>2
    <3>5. \A r \in Fresh : Linked(r)'
      BY <1>13
    <3>6. T + 1 \in 1 .. T + 2 /\ T + 2 \in 1 .. T + 2
      BY <1>1
    <3>7. QED BY <1>12, <3>4, <3>5, <3>6
  <2>3. \A k : k \in UNION {trees'[r].items : r \in {q \in 1 .. Len(trees') : Linked(q)'}}
                <=> \E r \in 1 .. T + 2 : Linked(r)' /\ k \in trees'[r].items
    BY <1>8
  <2>4. \A k : k \in UNION {trees'[r].items : r \in {q \in 1 .. Len(trees') : Linked(q)'}}
                <=> k \in items
    BY <2>1, <2>2, <2>3, Zenon
  <2>5. QED BY <2>4
<1>24. trees' \in Seq([lock : Thread \cup {0}, items : SUBSET Key])
  BY <1>6, Zenon
<1>25. Ref \subseteq Ref' /\ \A q \in 1 .. T : trees'[q] = trees[q]
  BY <1>9, <1>c
<1>26. QED
  BY <1>2, <1>3, <1>7, <1>8, <1>9, <1>13, <1>14, <1>15, <1>16, <1>19, <1>21, <1>22, <1>23,
     <1>24, <1>25, Zenon
  DEF items

LEMMA DoNewRoot ==
  ASSUME LockInv, TreeInv, LockInv', NEW t \in Thread, NewRoot(t)
  PROVE  TreeInv'
<1> DEFINE s == InOrder(trees[head].items)
<1>1. TreeTypeOK /\ ControlInv(t) /\ CallInv(t) /\ WalkInv(t)
  BY DEF TreeInv
<1>2. /\ UNCHANGED <<sizeVars, countVars, call, cur, side, parts, v, c, todo>>
      /\ pc[t] = "take" /\ pc' = [pc EXCEPT ![t] = "freeroot"] /\ ~IsNode(head)
      /\ changeLayout(t)
      /\ nodes' = Append(nodes, bigNode(s, 0, Len(s)))
      /\ trees' = trees \o bigNodeTrees(s, 0, Len(s))
      /\ head' = -(Len(nodes) + 1) /\ span' = withNode(Key, bigNode(s, 0, Len(s)))
  BY DEF NewRoot, to, walkVars
<1> HIDE DEF s
<1>3. /\ lpc[t] = "change" /\ lpc' = lpc /\ \A u \in Thread : lpc[u] = "read" => stale'[u]
  BY <1>1, <1>2, ChangeStale DEF TreeTypeOK
<1>4. /\ pc'[t] = "freeroot" /\ pc' \in [Thread -> Place]
      /\ \A u \in Thread \ {t} : pc'[u] = pc[u]
  BY <1>1, <1>2 DEF TreeTypeOK, Place, Owning
<1>5. \A u \in Thread \ {t} : pc[u] \notin Owning /\ pc[u] \notin Working /\ OwnerInv(u)'
  BY <1>3, <1>4, OwnerStep DEF Owning, Working
<1>6. /\ parts = <<>> /\ v = <<>> /\ c = 1 /\ todo = <<>>
      /\ Len(nodes') = Len(nodes) + 1 /\ Len(trees') = Len(trees) + 2
      /\ Ref \subseteq Ref' /\ Ref' = Ref \cup Fresh
      /\ \A q \in 1 .. Len(trees) : trees'[q] = trees[q]
      /\ nodes' \in Seq([key : Key \cup {0}, next : [1 .. 2 -> Ref']])
      /\ trees' \in Seq([lock : Thread \cup {0}, items : SUBSET Key])
      /\ cur[t] = head /\ head \in 1 .. Len(trees)
      /\ \A x : Linked(x)' <=> x \in Fresh \/ (Linked(x) /\ x # head)
      /\ \A x \in 1 .. Len(trees) : Linked(x) /\ x # head => span[x] = {}
      /\ ShapeInv' /\ SpanInv' /\ LinkInv' /\ NoGap'
  BY <1>2, <1>5, RootMade DEF s
<1>7. /\ Len(trees) \in Nat /\ Len(nodes) \in Nat /\ head \notin Fresh
      /\ head' \in Ref' \ {NULL_TREE}
  <2>1. Len(trees) \in Nat /\ Len(nodes) \in Nat
    BY <1>1, References
  <2>2. head \notin Fresh
    BY <1>6, <2>1 DEF Fresh
  <2>3. head' \in Ref' /\ head' # NULL_TREE
    BY <1>2, <1>6, <2>1 DEF Fresh, NULL_TREE
  <2>4. QED BY <2>1, <2>2, <2>3
<1>8. TreeTypeOK'
  <2>1. cur' \in [Thread -> Ref' \cup {0}]
    BY <1>1, <1>2, <1>6 DEF TreeTypeOK
  <2>2. /\ v' \in Seq(Key) /\ c' \in 1 .. 2 /\ todo' \in Seq(Ref')
        /\ parts' \in Seq([node : Ref', first : Nat, len : Nat])
    BY <1>2, <1>6
  <2>3. /\ pc' \in [Thread -> Place] /\ head' \in Ref' \ {NULL_TREE}
        /\ nodes' \in Seq([key : Key \cup {0}, next : [1 .. 2 -> Ref']])
        /\ trees' \in Seq([lock : Thread \cup {0}, items : SUBSET Key])
    BY <1>4, <1>6, <1>7
  <2>4. /\ side' \in [Thread -> 1 .. 2] /\ heuristic' \in [Thread -> Int]
        /\ sz' \in [Thread -> Int] /\ limit' \in [Thread -> Int]
        /\ {fuzzySize', enlargeWhen', shrinkWhen', backboneSize'} \subseteq Int
        /\ call' \in [Thread -> Call] /\ LockTypeOK'
    BY <1>1, <1>2 DEF TreeTypeOK, LockInv, sizeVars, countVars, Call
  <2>5. QED BY <2>1, <2>2, <2>3, <2>4 DEF TreeTypeOK, Call
<1>9. ControlInv(t)' /\ CallInv(t)' /\ WalkInv(t)'
  <2>1. ControlInv(t)' /\ CallInv(t)'
    BY <1>1, <1>2, <1>3, <1>4 DEF ControlInv, CallInv, Before, Owning
  <2>2. cur'[t] = cur[t] /\ cur[t] = head
    BY <1>2, <1>6
  <2>3. cur'[t] \in 1 .. Len(trees') /\ trees'[cur'[t]].lock = t
    BY <1>1, <1>2, <1>6, <1>7, <2>2 DEF WalkInv
  <2>4. ~Linked(cur[t])'
    BY <1>6, <1>7, <2>2
  <2>5. QED BY <1>3, <1>4, <2>1, <2>3, <2>4 DEF WalkInv
<1>10. ASSUME NEW u \in Thread \ {t} PROVE ControlInv(u)' /\ CallInv(u)' /\ WalkInv(u)'
  <2>1. Aside(t, u)
    <3>1. \A r \in 1 .. Len(trees) : trees[r].lock = u => trees'[r].lock = u
      BY <1>6
    <3>2. QED BY <1>2, <1>3, <1>4, <3>1 DEF Aside
  <2>2. pc[u] # "apply"
    <3>1. SUFFICES ASSUME pc[u] = "apply" PROVE FALSE
      OBVIOUS
    <3>2. /\ cur[u] \in 1 .. Len(trees) /\ trees[cur[u]].lock = u
          /\ call[u].key \in span[cur[u]] /\ Linked(cur[u])
      BY <3>1 DEF TreeInv, WalkInv
    <3>3. cur[u] # head
      BY <1>1, <1>2, <1>6, <3>2 DEF WalkInv
    <3>4. QED BY <1>6, <3>2, <3>3
  <2>3. Ref \subseteq Ref' /\ Len(trees) <= Len(trees') /\ Len(trees') \in Nat
    BY <1>6, <1>7
  <2>4. QED BY <1>3, <2>1, <2>2, <2>3, OthersDuringChange
<1>11. OwnerInv(t)'
  BY <1>4 DEF OwnerInv
<1>12. RestInv'
  BY <1>2, <1>6 DEF RestInv
<1>13. Increasing(v)'
  BY <1>2 DEF TreeInv, ChangeInv, Increasing
<1>14. QED
  BY <1>5, <1>6, <1>8, <1>9, <1>10, <1>11, <1>12, <1>13 DEF TreeInv, ChangeInv

-----------------------------------------------------------------------------
(* buildFromV                                                              *)

(* The call of buildFromV that is running                                  *)
LEMMA AtPart ==
  ASSUME TreeInv, NEW t \in Thread, pc[t] \in {"build", "expand"}
  PROVE  /\ BuildInv /\ todo = <<>> /\ parts # <<>> /\ Len(parts) \in Nat \ {0}
         /\ parts \in Seq([node : Ref, first : Nat, len : Nat]) /\ Head(parts) = parts[1]
         /\ parts[1] \in [node : Ref, first : Nat, len : Nat]
         /\ parts[1].node \in Ref /\ parts[1].first \in Nat /\ parts[1].len \in Nat
         /\ PartInv(parts[1]) /\ parts[1].node \in Int /\ parts[1].node < 0
         /\ parts[1].node \in DOMAIN span /\ -parts[1].node \in 1 .. Len(nodes)
         /\ Node(parts[1].node) = nodes[-parts[1].node]
         /\ span[parts[1].node] \in SUBSET Key
         /\ v \in Seq(Key) /\ Increasing(v) /\ Len(v) \in Nat
         /\ bigNodeKey(v, parts[1].first, parts[1].len) \in Key \cup {0}
         /\ NoGap /\ \A u \in Thread : pc[u] # "apply"
<1> DEFINE p == parts[1]
<1>1. BuildInv /\ TreeTypeOK /\ SpanInv /\ Increasing(v) /\ RestInv
  BY DEF TreeInv, ChangeInv, OwnerInv
<1>2. /\ todo = <<>> /\ parts # <<>> /\ parts \in Seq([node : Ref, first : Nat, len : Nat])
      /\ v \in Seq(Key)
  BY <1>1 DEF BuildInv, TreeTypeOK
<1>3. Len(parts) \in Nat \ {0} /\ Head(parts) = p /\ 1 \in 1 .. Len(parts)
  BY <1>2, EmptySeq
<1>4. p \in [node : Ref, first : Nat, len : Nat] /\ PartInv(p)
  BY <1>1, <1>2, <1>3, ElementOfSeq DEF BuildInv
<1>5. p.node \in Ref /\ p.first \in Nat /\ p.len \in Nat /\ p.node < 0 /\ p.node \in DOMAIN span
  BY <1>4 DEF PartInv
<1>6. p.node \in Int /\ -p.node \in 1 .. Len(nodes)
  BY <1>1, <1>5, References DEF IsNode
<1>7. span[p.node] \in SUBSET Key
  BY <1>1, <1>5 DEF SpanInv
<1>8. bigNodeKey(v, p.first, p.len) \in Key \cup {0}
  <2>1. /\ p.first + p.len <= Len(v)
        /\ \A j \in 1 .. Len(v) :
             v[j] \in span[p.node] <=> p.first < j /\ j <= p.first + p.len
    BY <1>4 DEF PartInv
  <2> HIDE DEF p
  <2>2. QED BY <1>1, <1>2, <1>5, <2>1, Split
<1>9. \A u \in Thread : pc[u] # "apply"
  BY <1>1 DEF BuildInv
<1>10. NoGap
  <2>1. Building
    BY DEF Building
  <2>2. ~Gathering
    <3>1. SUFFICES ASSUME Gathering PROVE FALSE
      OBVIOUS
    <3>2. PICK u \in Thread : pc[u] \in {"gather", "take", "free"} /\ IsNode(head)
      BY <3>1 DEF Gathering
    <3>3. parts = <<>>
      BY <3>2 DEF TreeInv, ChangeInv, OwnerInv, GatherInv
    <3>4. QED BY <1>2, <3>3
  <2>3. QED BY <1>1, <2>2 DEF RestInv
<1>11. QED
  BY <1>1, <1>2, <1>3, <1>4, <1>5, <1>6, <1>7, <1>8, <1>9, <1>10 DEF Node

(* A node gets another key.                                                *)
rekeyed(s, n, k) == [s EXCEPT ![n].key = k]

KeyOnly(s, s2, n, k) ==
  /\ Len(s2) = Len(s) /\ s2[n].key = k
  /\ \A m \in 1 .. Len(s) : s2[m].next = s[m].next /\ (m # n => s2[m].key = s[m].key)

LEMMA SetKey ==
  ASSUME NEW R, NEW s \in Seq(NodeOf(R)), NEW n \in 1 .. Len(s), NEW k \in Key \cup {0}
  PROVE  LET s2 == rekeyed(s, n, k) IN
         s2 \in Seq(NodeOf(R)) /\ KeyOnly(s, s2, n, k)
<1> DEFINE e == [s[n] EXCEPT !.key = k]
           s2 == rekeyed(s, n, k)
<1>1. s[n] \in NodeOf(R)
  BY ElementOfSeq
<1>2. e \in NodeOf(R) /\ e.key = k /\ e.next = s[n].next
  BY <1>1 DEF NodeOf
<1>3. s2 = [s EXCEPT ![n] = e]
  BY DEF rekeyed
<1> HIDE DEF e, s2
<1>4. /\ s2 \in Seq(NodeOf(R)) /\ Len(s2) = Len(s)
      /\ \A m \in 1 .. Len(s) : s2[m] = IF m = n THEN e ELSE s[m]
  BY <1>2, <1>3, ExceptSeq
<1>5. QED BY <1>2, <1>4 DEF s2, KeyOnly

LEMMA SameNext ==
  ASSUME ShapeInv, head' = head, Len(nodes') = Len(nodes),
         \A n \in 1 .. Len(nodes), i \in 1 .. 2 : nodes'[n].next[i] = nodes[n].next[i]
  PROVE  ShapeInv'
  BY DEF ShapeInv

(* The node of the running call gets its key; the layout stays.            *)
LEMMA NewKey ==
  ASSUME TreeInv, NEW t \in Thread, pc[t] = "build",
         nodes' = rekeyed(nodes, -parts[1].node, bigNodeKey(v, parts[1].first, parts[1].len)),
         UNCHANGED <<head, trees>>
  PROVE  /\ nodes' \in Seq(NodeOf(Ref)) /\ Ref' = Ref /\ Len(nodes') = Len(nodes)
         /\ \A r : Linked(r)' <=> Linked(r)
         /\ \A n \in 1 .. Len(nodes) : nodes'[n].next = nodes[n].next
         /\ \A n \in 1 .. Len(nodes) : -n # parts[1].node => nodes'[n].key = nodes[n].key
         /\ nodes'[-parts[1].node].key = bigNodeKey(v, parts[1].first, parts[1].len)
         /\ ShapeInv' /\ c = 1
<1> DEFINE n0 == -parts[1].node
           k == bigNodeKey(v, parts[1].first, parts[1].len)
<1>1. /\ TreeTypeOK /\ ShapeInv /\ c = 1 /\ parts[1].node \in Int
      /\ n0 \in 1 .. Len(nodes) /\ k \in Key \cup {0}
  BY AtPart DEF TreeInv, ChangeInv, OwnerInv
<1>2. nodes \in Seq(NodeOf(Ref)) /\ nodes' = rekeyed(nodes, n0, k)
  BY <1>1 DEF TreeTypeOK, NodeOf
<1>3. \A n \in 1 .. Len(nodes) : -n # parts[1].node => n # n0
  BY <1>1
<1> HIDE DEF n0, k
<1>4. nodes' \in Seq(NodeOf(Ref)) /\ KeyOnly(nodes, nodes', n0, k)
  BY <1>1, <1>2, SetKey
<1>5. /\ Len(nodes') = Len(nodes) /\ nodes'[n0].key = k
      /\ \A n \in 1 .. Len(nodes) : nodes'[n].next = nodes[n].next
      /\ \A n \in 1 .. Len(nodes) : n # n0 => nodes'[n].key = nodes[n].key
  BY <1>4 DEF KeyOnly
<1>6. Ref' = Ref /\ \A r : Linked(r)' <=> Linked(r)
  BY <1>5 DEF Ref, Linked
<1>7. ShapeInv'
  <2>1. \A n \in 1 .. Len(nodes), i \in 1 .. 2 : nodes'[n].next[i] = nodes[n].next[i]
    BY <1>5
  <2>2. head' = head /\ Len(nodes') = Len(nodes) /\ ShapeInv
    BY <1>1, <1>5
  <2>3. QED BY <2>1, <2>2, SameNext
<1>8. QED BY <1>1, <1>3, <1>4, <1>5, <1>6, <1>7 DEF n0, k

(* A node over treelets has its key: its children are to be expanded.      *)
LEMMA LeafKey ==
  ASSUME TreeInv, NEW t \in Thread, pc[t] = "build", isLeaf(parts[1].node),
         nodes' = rekeyed(nodes, -parts[1].node, bigNodeKey(v, parts[1].first, parts[1].len)),
         UNCHANGED <<head, trees, span, parts, c, v, todo>>,
         \A u \in Thread : pc'[u] # "apply"
  PROVE  SpanInv' /\ LinkInv' /\ NoGap' /\ BuildInv' /\ ExpandInv'
<1> DEFINE p == parts[1]
           n0 == -p.node
<1>1. /\ Ref' = Ref /\ Len(nodes') = Len(nodes)
      /\ \A r : Linked(r)' <=> Linked(r)
      /\ \A n \in 1 .. Len(nodes) : nodes'[n].next = nodes[n].next
      /\ \A n \in 1 .. Len(nodes) : -n # p.node => nodes'[n].key = nodes[n].key
      /\ nodes'[n0].key = bigNodeKey(v, p.first, p.len)
      /\ c = 1
  BY NewKey
<1>2. /\ BuildInv /\ NoGap /\ p.node \in DOMAIN span /\ n0 \in 1 .. Len(nodes)
      /\ Len(parts) \in Nat \ {0} /\ Node(p.node) = nodes[n0] /\ p.node \in Int
  BY AtPart
<1>3. SpanInv /\ LinkInv /\ TreeTypeOK /\ Len(nodes) \in Nat
  BY References DEF TreeInv
<1>4. \A n \in 1 .. Len(nodes) : \A i : -n # p.node => childSpan(-n, i)' = childSpan(-n, i)
  <2>1. \A n \in 1 .. Len(nodes) : -(-n) = n
    BY <1>3
  <2>2. QED BY <1>1, <2>1 DEF childSpan, Node
<1>5. /\ \A r, i : Settled(r, i)' <=> Settled(r, i)
      /\ \A i \in 1 .. 2 : ~Settled(p.node, i)
  <2>1. \A r, i : Settled(r, i)' <=> Settled(r, i)
    BY DEF Settled
  <2>2. 1 \in 1 .. Len(parts) /\ \A i \in 1 .. 2 : ~(i < c)
    BY <1>1, <1>2
  <2>3. QED BY <2>1, <2>2 DEF Settled
<1>6. SpanInv'
  BY <1>1, <1>3 DEF SpanInv
<1>7. LinkInv'
  <2> SUFFICES ASSUME NEW n \in 1 .. Len(nodes)
               PROVE  /\ \A i \in 1 .. 2 :
                           LET r == nodes'[n].next[i] IN
                           IF Settled(-n, i)'
                           THEN r # NULL_TREE => r \in DOMAIN span' /\ span'[r] = childSpan(-n, i)'
                           ELSE IF r < 0 THEN r \notin DOMAIN span' ELSE span'[r] = {}
                      /\ IsNode(nodes'[n].next[1]) = IsNode(nodes'[n].next[2])
    BY <1>1, Zenon DEF LinkInv
  <2>1. ASSUME NEW i \in 1 .. 2
        PROVE  LET r == nodes'[n].next[i] IN
               IF Settled(-n, i)'
               THEN r # NULL_TREE => r \in DOMAIN span' /\ span'[r] = childSpan(-n, i)'
               ELSE IF r < 0 THEN r \notin DOMAIN span' ELSE span'[r] = {}
    <3> DEFINE r == nodes[n].next[i]
    <3>1. nodes'[n].next[i] = r
      BY <1>1
    <3>2. IF Settled(-n, i)
          THEN r # NULL_TREE => r \in DOMAIN span /\ span[r] = childSpan(-n, i)
          ELSE IF r < 0 THEN r \notin DOMAIN span ELSE span[r] = {}
      BY <1>3 DEF LinkInv
    <3> HIDE DEF r
    <3>3. Settled(-n, i) => childSpan(-n, i)' = childSpan(-n, i)
      BY <1>4, <1>5
    <3>4. IF Settled(-n, i)'
          THEN r # NULL_TREE => r \in DOMAIN span' /\ span'[r] = childSpan(-n, i)'
          ELSE IF r < 0 THEN r \notin DOMAIN span' ELSE span'[r] = {}
      BY <1>5, <3>2, <3>3
    <3>5. QED BY <3>1, <3>4, Zenon
  <2>2. IsNode(nodes'[n].next[1]) = IsNode(nodes'[n].next[2])
    <3>1. IsNode(nodes[n].next[1]) = IsNode(nodes[n].next[2])
      BY <1>1, <1>3 DEF LinkInv
    <3>2. nodes'[n].next = nodes[n].next
      BY <1>1
    <3>3. QED BY <3>1, <3>2
  <2>3. QED BY <2>1, <2>2, Zenon
<1>8. NoGap'
  <2>1. ASSUME NEW n \in 1 .. Len(nodes), NEW i \in 1 .. 2, Settled(-n, i)',
               nodes'[n].next[i] = NULL_TREE
        PROVE  childSpan(-n, i)' = {}
    <3>1. Settled(-n, i)
      BY <1>5, <2>1
    <3>2. -n # p.node
      BY <1>5, <3>1
    <3>3. nodes[n].next[i] = NULL_TREE
      BY <1>1, <2>1
    <3>4. childSpan(-n, i) = {}
      BY <1>2, <3>1, <3>3 DEF NoGap
    <3>5. QED BY <1>4, <3>2, <3>4
  <2>2. QED BY <1>1, <2>1 DEF NoGap
<1>9. BuildInv'
  <2>1. \A i : rest(i)' = rest(i)
    BY <1>1 DEF rest, pending
  <2>2. \A q : PartInv(q)' <=> PartInv(q)
    BY DEF PartInv
  <2>3. todo' = <<>> /\ parts' # <<>>
    BY <1>2 DEF BuildInv
  <2>4. \A i \in 1 .. Len(parts') : PartInv(parts[i])'
    <3>1. \A i \in 1 .. Len(parts) : PartInv(parts[i])
      BY <1>2 DEF BuildInv
    <3>2. QED BY <2>2, <3>1 DEF PartInv
  <2>5. \A i, j \in 1 .. Len(parts') : i # j =>
          parts'[i].node # parts'[j].node /\ rest(i)' \cap rest(j)' = {}
    <3>1. \A i, j \in 1 .. Len(parts) : i # j =>
            parts[i].node # parts[j].node /\ rest(i) \cap rest(j) = {}
      BY <1>2 DEF BuildInv
    <3>2. QED BY <2>1, <3>1
  <2>6. \A r \in 1 .. Len(trees') : Linked(r)' =>
          /\ \A i \in 1 .. Len(parts') : span'[r] \cap rest(i)' = {}
          /\ \A k \in trees'[r].items : \E j \in 1 .. Len(v') : v'[j] = k
    <3>1. \A r \in 1 .. Len(trees) : Linked(r) =>
            /\ \A i \in 1 .. Len(parts) : span[r] \cap rest(i) = {}
            /\ \A k \in trees[r].items : \E j \in 1 .. Len(v) : v[j] = k
      BY <1>2 DEF BuildInv
    <3>2. QED BY <1>1, <2>1, <3>1
  <2>7. \A j \in 1 .. Len(v') :
          \/ \E i \in 1 .. Len(parts') : v'[j] \in rest(i)'
          \/ \E r \in 1 .. Len(trees') : Linked(r)' /\ v'[j] \in trees'[r].items
    <3>1. \A j \in 1 .. Len(v) :
            \/ \E i \in 1 .. Len(parts) : v[j] \in rest(i)
            \/ \E r \in 1 .. Len(trees) : Linked(r) /\ v[j] \in trees[r].items
      BY <1>2 DEF BuildInv
    <3>2. QED BY <1>1, <2>1, <3>1
  <2>8. QED BY <2>3, <2>4, <2>5, <2>6, <2>7, Zenon DEF BuildInv
<1>10. ExpandInv'
  <2>1. ~IsNode(nodes[n0].next[1]) /\ ~IsNode(nodes[n0].next[2])
    BY <1>1, <1>2, <1>3 DEF isLeaf, LinkInv
  <2>2. nodes'[n0].next = nodes[n0].next /\ p' = p
    BY <1>1, <1>2
  <2>3. QED BY <1>1, <2>1, <2>2 DEF ExpandInv, isLeaf, Node, IsNode
<1>11. QED BY <1>6, <1>7, <1>8, <1>9, <1>10

(* buildFromV goes down: its calls for the children replace its own.       *)
Pushed ==
  LET p == parts[1]
      next == nodes[-p.node].next
  IN /\ parts' \in Seq([node : Ref, first : Nat, len : Nat])
     /\ Len(parts') = Len(parts) + 1
     /\ \A i \in 1 .. 2 : /\ parts'[i].node = next[i]
                          /\ parts'[i].first = childFirst(p.first, p.len, i)
                          /\ parts'[i].len = childLen(p.first, p.len, i)
     /\ \A j \in 3 .. Len(parts) + 1 : parts'[j] = parts[j - 1]

LEMMA PushChildren ==
  ASSUME TreeInv, NEW t \in Thread, pc[t] = "build",
         parts' = childParts(parts[1]) \o Tail(parts)
  PROVE  Pushed
<1> DEFINE p == parts[1]
           next == nodes[-p.node].next
           R == [node : Ref, first : Nat, len : Nat]
           C == childParts(p)
           child(i) == [node |-> next[i], first |-> childFirst(p.first, p.len, i),
                        len |-> childLen(p.first, p.len, i)]
<1>1. /\ parts \in Seq(R) /\ parts # <<>> /\ Len(parts) \in Nat \ {0}
      /\ p.first \in Nat /\ p.len \in Nat /\ Node(p.node) = nodes[-p.node]
      /\ -p.node \in 1 .. Len(nodes) /\ TreeTypeOK
  BY AtPart DEF TreeInv
<1>2. \A i \in 1 .. 2 : child(i) \in R
  <2>1. \A i \in 1 .. 2 : next[i] \in Ref
    BY <1>1, NodeType
  <2>2. \A i \in 1 .. 2 :
          childFirst(p.first, p.len, i) \in Nat /\ childLen(p.first, p.len, i) \in Nat
    BY <1>1, HalvesWithin
  <2>3. QED BY <2>1, <2>2
<1>3. C \in Seq(R) /\ Len(C) = 2 /\ \A i \in 1 .. 2 : C[i] = child(i)
  <2>1. C = [i \in 1 .. 2 |-> child(i)]
    BY <1>1 DEF childParts
  <2> HIDE DEF C, child, R
  <2>2. C \in [1 .. 2 -> R]
    BY <1>2, <2>1
  <2>3. QED BY <2>1, <2>2, Pair
<1>4. /\ Tail(parts) \in Seq(R) /\ Len(Tail(parts)) = Len(parts) - 1
      /\ \A j \in 1 .. Len(parts) - 1 : Tail(parts)[j] = parts[j + 1]
  <2> HIDE DEF R
  <2>1. QED BY <1>1, HeadTailProperties
<1>5. parts' = C \o Tail(parts)
  OBVIOUS
<1>6. /\ parts' \in Seq(R) /\ Len(parts') = Len(parts) + 1
      /\ \A j \in 1 .. Len(parts) + 1 :
           parts'[j] = IF j <= 2 THEN C[j] ELSE Tail(parts)[j - 2]
  <2> HIDE DEF R, C
  <2>1. /\ C \o Tail(parts) \in Seq(R) /\ Len(C \o Tail(parts)) = Len(C) + Len(Tail(parts))
        /\ \A j \in 1 .. Len(C) + Len(Tail(parts)) :
             (C \o Tail(parts))[j] = IF j <= Len(C) THEN C[j] ELSE Tail(parts)[j - Len(C)]
    BY <1>3, <1>4, ConcatProperties
  <2>2. Len(C) + Len(Tail(parts)) = Len(parts) + 1
    BY <1>1, <1>3, <1>4
  <2>3. QED BY <1>3, <1>5, <2>1, <2>2
<1>7. \A i \in 1 .. 2 : parts'[i] = child(i)
  <2> HIDE DEF C, child
  <2>1. Len(parts) \in Nat \ {0}
    BY <1>1
  <2>2. \A i \in 1 .. 2 : i \in 1 .. Len(parts) + 1 /\ i <= 2
    BY <2>1
  <2>3. QED BY <1>3, <1>6, <2>2
<1>8. \A j \in 3 .. Len(parts) + 1 : parts'[j] = parts[j - 1]
  <2> HIDE DEF C, child
  <2>1. ASSUME NEW j \in 3 .. Len(parts) + 1 PROVE parts'[j] = parts[j - 1]
    <3>1. /\ j \in 1 .. Len(parts) + 1 /\ ~(j <= 2) /\ j - 2 \in 1 .. Len(parts) - 1
          /\ (j - 2) + 1 = j - 1
      BY <1>1
    <3>2. QED BY <1>4, <1>6, <3>1
  <2>2. QED BY <2>1
<1>9. \A i \in 1 .. 2 : /\ parts'[i].node = next[i]
                        /\ parts'[i].first = childFirst(p.first, p.len, i)
                        /\ parts'[i].len = childLen(p.first, p.len, i)
  <2>1. \A i : /\ child(i).node = next[i]
               /\ child(i).first = childFirst(p.first, p.len, i)
               /\ child(i).len = childLen(p.first, p.len, i)
    OBVIOUS
  <2> HIDE DEF child, next, p
  <2>2. QED BY <1>7, <2>1, Zenon
<1>10. parts' \in Seq(R) /\ Len(parts') = Len(parts) + 1
  BY <1>6
<1>11. QED BY <1>8, <1>9, <1>10, Zenon DEF Pushed

(* The children of a node whose key is still to be written: nobody else    *)
(* points to them, and they lead nowhere yet.                              *)
LEMMA UnbuiltChildren ==
  ASSUME TreeInv, NEW t \in Thread, pc[t] = "build", ~isLeaf(parts[1].node)
  PROVE  LET next == nodes[-parts[1].node].next IN
         /\ \A i \in 1 .. 2 : next[i] \in Ref /\ next[i] < 0 /\ next[i] \notin DOMAIN span
         /\ next[1] # next[2]
         /\ \A n \in 1 .. Len(nodes), j \in 1 .. 2, i \in 1 .. 2 :
              nodes[n].next[j] = next[i] => -n = parts[1].node
<1> DEFINE p == parts[1]
           n0 == -p.node
           next == nodes[n0].next
<1>1. /\ Len(parts) \in Nat \ {0} /\ Node(p.node) = nodes[n0] /\ n0 \in 1 .. Len(nodes)
      /\ p.node \in Int /\ -n0 = p.node
  BY AtPart
<1>2. c = 1 /\ LinkInv /\ ShapeInv /\ TreeTypeOK /\ Len(nodes) \in Nat
  BY References DEF TreeInv, ChangeInv, OwnerInv
<1>3. \A i \in 1 .. 2 : next[i] \in Ref /\ next[i] \in Int
  BY <1>1, <1>2, NodeType, References
<1>4. next[1] < 0 /\ next[2] < 0
  <2>1. IsNode(next[1])
    BY <1>1 DEF isLeaf
  <2>2. IsNode(next[1]) = IsNode(next[2])
    BY <1>1, <1>2 DEF LinkInv
  <2>3. QED BY <2>1, <2>2 DEF IsNode
<1>5. \A i \in 1 .. 2 : ~Settled(-n0, i)
  <2>1. 1 \in 1 .. Len(parts) /\ \A i \in 1 .. 2 : ~(i < c)
    BY <1>1, <1>2
  <2>2. QED BY <1>1, <2>1 DEF Settled
<1>6. ASSUME NEW i \in 1 .. 2 PROVE next[i] < 0 /\ next[i] \notin DOMAIN span
  <2>1. next[i] < 0
    <3>1. i = 1 \/ i = 2
      OBVIOUS
    <3>2. QED BY <1>4, <3>1
  <2>2. IF Settled(-n0, i)
        THEN next[i] # NULL_TREE => next[i] \in DOMAIN span /\ span[next[i]] = childSpan(-n0, i)
        ELSE IF next[i] < 0 THEN next[i] \notin DOMAIN span ELSE span[next[i]] = {}
    BY <1>1, <1>2 DEF LinkInv
  <2>3. QED BY <1>5, <2>1, <2>2
<1>7. \A n \in 1 .. Len(nodes), j \in 1 .. 2, i \in 1 .. 2 :
        nodes[n].next[j] = next[i] => n = n0 /\ j = i
  <2>1. \A i \in 1 .. 2 : next[i] # NULL_TREE
    BY <1>3, <1>6 DEF NULL_TREE
  <2>2. ASSUME NEW n \in 1 .. Len(nodes), NEW j \in 1 .. 2, NEW i \in 1 .. 2,
               nodes[n].next[j] = next[i]
        PROVE  n = n0 /\ j = i
    <3>1. nodes[n].next[j] = nodes[n0].next[i] /\ nodes[n].next[j] # NULL_TREE
      BY <2>1, <2>2
    <3>2. QED BY <1>1, <1>2, <3>1 DEF ShapeInv
  <2>3. QED BY <2>2
<1>8. next[1] # next[2]
  <2>1. 1 \in 1 .. 2 /\ 2 \in 1 .. 2 /\ 1 # 2
    OBVIOUS
  <2>2. QED BY <1>1, <1>7, <2>1
<1>9. QED BY <1>1, <1>3, <1>6, <1>7, <1>8

(* What is settled, and what the open calls have, after buildFromV has     *)
(* gone down                                                               *)
LEMMA PushedSettled ==
  ASSUME TreeInv, NEW t \in Thread, pc[t] = "build", ~isLeaf(parts[1].node),
         Pushed, c' = c,
         DOMAIN span' = DOMAIN span \cup {nodes[-parts[1].node].next[1],
                                          nodes[-parts[1].node].next[2]}
  PROVE  /\ \A r, i : i \in 1 .. 2 => (Settled(r, i)' <=> r = parts[1].node \/ Settled(r, i))
         /\ \A i, j \in 1 .. Len(parts') : i # j => parts'[i].node # parts'[j].node
<1> DEFINE p == parts[1]
           next == nodes[-p.node].next
           P == Len(parts)
<1>1. /\ P \in Nat \ {0} /\ c = 1 /\ p.node \in DOMAIN span
      /\ \A i, j \in 1 .. P : i # j => parts[i].node # parts[j].node
      /\ \A i \in 1 .. P : parts[i].node \in DOMAIN span
  <2>1. P \in Nat \ {0} /\ BuildInv /\ p.node \in DOMAIN span
    BY AtPart
  <2>2. c = 1
    BY DEF TreeInv, ChangeInv, OwnerInv
  <2>3. \A i, j \in 1 .. P : i # j => parts[i].node # parts[j].node
    BY <2>1 DEF BuildInv
  <2>4. \A i \in 1 .. P : PartInv(parts[i])
    BY <2>1 DEF BuildInv
  <2>5. \A i \in 1 .. P : parts[i].node \in DOMAIN span
    BY <2>4 DEF PartInv
  <2>6. QED BY <2>1, <2>2, <2>3, <2>5
<1>2. next[1] # next[2] /\ next[1] \notin DOMAIN span /\ next[2] \notin DOMAIN span
  <2>1. 1 \in 1 .. 2 /\ 2 \in 1 .. 2
    OBVIOUS
  <2>2. QED BY <2>1, UnbuiltChildren
<1>3. /\ Len(parts') = P + 1
      /\ parts'[1].node = next[1] /\ parts'[2].node = next[2]
      /\ \A j \in 3 .. P + 1 : parts'[j].node = parts[j - 1].node
  <2>1. 1 \in 1 .. 2 /\ 2 \in 1 .. 2
    OBVIOUS
  <2>2. QED BY <2>1, Zenon DEF Pushed
<1> HIDE DEF p, next, P
<1>4. \A j \in 1 .. P + 1 : j = 1 \/ j = 2 \/ (j \in 3 .. P + 1 /\ j - 1 \in 2 .. P)
  BY <1>1
<1>5. \A j \in 2 .. P : j + 1 \in 3 .. P + 1 /\ (j + 1) - 1 = j /\ j \in 1 .. P /\ j # 1
  BY <1>1
<1>6. 1 \in 1 .. P /\ 1 \in 1 .. P + 1 /\ 2 \in 1 .. P + 1
  BY <1>1
<1>7. \A i, j \in 1 .. P + 1 : i # j => parts'[i].node # parts'[j].node
  <2>1. \A j \in 3 .. P + 1 : parts'[j].node \in DOMAIN span
    BY <1>1, <1>3, <1>4, <1>5
  <2>2. ASSUME NEW i \in 3 .. P + 1, NEW j \in 3 .. P + 1, i # j
        PROVE  parts'[i].node # parts'[j].node
    <3>1. i - 1 \in 1 .. P /\ j - 1 \in 1 .. P /\ i - 1 # j - 1
      BY <1>1, <2>2
    <3>2. QED BY <1>1, <1>3, <3>1
  <2>3. QED BY <1>2, <1>3, <1>4, <2>1, <2>2
<1>8. ASSUME NEW r, NEW i \in 1 .. 2
      PROVE  Settled(r, i)' <=> r = p.node \/ Settled(r, i)
  <2>1. ~(i < 1)
    OBVIOUS
  <2>2. Settled(r, i) <=> r \in DOMAIN span /\ \A j \in 1 .. P : parts[j].node # r
    BY <1>1, <2>1 DEF Settled, P
  <2>3. Settled(r, i)' <=> r \in DOMAIN span' /\ \A j \in 1 .. P + 1 : parts'[j].node # r
    BY <1>1, <1>3, <2>1 DEF Settled
  <2>4. (\A j \in 1 .. P + 1 : parts'[j].node # r) <=>
          r # next[1] /\ r # next[2] /\ \A j \in 2 .. P : parts[j].node # r
    <3>1. ASSUME \A j \in 1 .. P + 1 : parts'[j].node # r
          PROVE  r # next[1] /\ r # next[2] /\ \A j \in 2 .. P : parts[j].node # r
      <4>1. r # next[1] /\ r # next[2]
        BY <1>3, <1>6, <3>1
      <4>2. ASSUME NEW j \in 2 .. P PROVE parts[j].node # r
        <5>1. j + 1 \in 1 .. P + 1 /\ j + 1 \in 3 .. P + 1 /\ (j + 1) - 1 = j
          BY <1>1
        <5>2. QED BY <1>3, <3>1, <5>1
      <4>3. QED BY <4>1, <4>2
    <3>2. ASSUME r # next[1] /\ r # next[2] /\ \A j \in 2 .. P : parts[j].node # r
          PROVE  \A j \in 1 .. P + 1 : parts'[j].node # r
      BY <1>3, <1>4, <3>2
    <3>3. QED BY <3>1, <3>2
  <2>5. (\A j \in 1 .. P : parts[j].node # r) <=>
          p.node # r /\ \A j \in 2 .. P : parts[j].node # r
    <3>1. \A j \in 1 .. P : j = 1 \/ j \in 2 .. P
      BY <1>1
    <3>2. QED BY <1>5, <1>6, <3>1 DEF p
  <2>6. r \in DOMAIN span' <=> r \in DOMAIN span \/ r = next[1] \/ r = next[2]
    BY DEF next, p
  <2>7. \A j \in 2 .. P : parts[j].node # p.node
    BY <1>1, <1>5, <1>6 DEF p
  <2>8. QED BY <1>1, <1>2, <2>2, <2>3, <2>4, <2>5, <2>6, <2>7, Zenon
<1>9. QED BY <1>3, <1>7, <1>8 DEF p

(* The spans of the children divide that of the node.                      *)
Divided ==
  LET p == parts[1]
      next == nodes[-p.node].next
      key == bigNodeKey(v, p.first, p.len)
  IN /\ DOMAIN span' = DOMAIN span \cup {next[1], next[2]}
     /\ \A r \in DOMAIN span : span'[r] = span[r]
     /\ \A i \in 1 .. 2 : span'[next[i]] = sent(span[p.node], key, i)

dividedSpan(r0, key, next) ==
  [r \in DOMAIN span \cup {next[1], next[2]} |->
     IF r \in {next[1], next[2]}
     THEN sent(span[r0], key, IF r = next[1] THEN 1 ELSE 2)
     ELSE span[r]]

LEMMA DivideSpan ==
  ASSUME TreeInv, NEW t \in Thread, pc[t] = "build", ~isLeaf(parts[1].node),
         NEW next, next = nodes[-parts[1].node].next,
         NEW key, key = bigNodeKey(v, parts[1].first, parts[1].len),
         span' = dividedSpan(parts[1].node, key, next)
  PROVE  Divided
<1>1. next[1] # next[2] /\ next[1] \notin DOMAIN span /\ next[2] \notin DOMAIN span
  <2>1. 1 \in 1 .. 2 /\ 2 \in 1 .. 2
    OBVIOUS
  <2>2. QED BY <2>1, UnbuiltChildren
<1>2. DOMAIN span' = DOMAIN span \cup {next[1], next[2]}
  BY DEF dividedSpan
<1>3. \A r \in DOMAIN span : span'[r] = span[r]
  BY <1>1 DEF dividedSpan
<1>4. /\ span'[next[1]] = sent(span[parts[1].node], key, 1)
      /\ span'[next[2]] = sent(span[parts[1].node], key, 2)
  BY <1>1 DEF dividedSpan
<1>5. \A i \in 1 .. 2 : span'[next[i]] = sent(span[parts[1].node], key, i)
  <2>1. \A i \in 1 .. 2 : i = 1 \/ i = 2
    OBVIOUS
  <2>2. QED BY <1>4, <2>1, Zenon
<1>6. QED BY <1>2, <1>3, <1>5, Zenon DEF Divided

(* A node of nodes has its key, and its children's calls come next.        *)
LEMMA InnerKey ==
  ASSUME TreeInv, NEW t \in Thread, pc[t] = "build", ~isLeaf(parts[1].node),
         nodes' = rekeyed(nodes, -parts[1].node, bigNodeKey(v, parts[1].first, parts[1].len)),
         Pushed, Divided, UNCHANGED <<head, trees, c, v, todo>>
  PROVE  SpanInv' /\ LinkInv' /\ NoGap'
<1> DEFINE p == parts[1]
           n0 == -p.node
           next == nodes[n0].next
           key == bigNodeKey(v, p.first, p.len)
<1>1. /\ Ref' = Ref /\ Len(nodes') = Len(nodes)
      /\ \A r : Linked(r)' <=> Linked(r)
      /\ \A n \in 1 .. Len(nodes) : nodes'[n].next = nodes[n].next
      /\ \A n \in 1 .. Len(nodes) : -n # p.node => nodes'[n].key = nodes[n].key
      /\ nodes'[n0].key = key
      /\ c = 1
  BY NewKey
<1>2. /\ NoGap /\ p.node \in DOMAIN span /\ n0 \in 1 .. Len(nodes)
      /\ Len(parts) \in Nat \ {0} /\ Node(p.node) = nodes[n0] /\ p.node \in Int
      /\ span[p.node] \in SUBSET Key /\ key \in Key \cup {0}
  BY AtPart
<1>3. SpanInv /\ LinkInv /\ TreeTypeOK /\ Len(nodes) \in Nat
  BY References DEF TreeInv
<1>4. /\ DOMAIN span' = DOMAIN span \cup {next[1], next[2]}
      /\ \A r \in DOMAIN span : span'[r] = span[r]
      /\ \A i \in 1 .. 2 : span'[next[i]] = sent(span[p.node], key, i)
  BY Zenon DEF Divided
<1>5. \A r, i : i \in 1 .. 2 => (Settled(r, i)' <=> r = p.node \/ Settled(r, i))
  BY <1>4, PushedSettled
<1>6. /\ \A i \in 1 .. 2 : next[i] \in Ref /\ next[i] < 0 /\ next[i] \notin DOMAIN span
      /\ next[1] # next[2]
      /\ \A n \in 1 .. Len(nodes), j \in 1 .. 2, i \in 1 .. 2 :
           nodes[n].next[j] = next[i] => -n = p.node
  BY UnbuiltChildren
<1>7. next[1] \in Ref /\ next[2] \in Ref
  <2>1. 1 \in 1 .. 2 /\ 2 \in 1 .. 2
    OBVIOUS
  <2>2. QED BY <1>6, <2>1, Zenon
<1> HIDE DEF key
<1>8. \A n \in 1 .. Len(nodes), i \in 1 .. 2 :
        -n \in DOMAIN span =>
          childSpan(-n, i)' = IF -n = p.node THEN span'[next[i]] ELSE childSpan(-n, i)
  <2> SUFFICES ASSUME NEW n \in 1 .. Len(nodes), NEW i \in 1 .. 2, -n \in DOMAIN span
               PROVE  childSpan(-n, i)' = IF -n = p.node THEN span'[next[i]] ELSE childSpan(-n, i)
    OBVIOUS
  <2>1. -(-n) = n /\ span'[-n] = span[-n]
    <3>1. -(-n) = n
      BY <1>3
    <3>2. QED BY <1>4, <3>1
  <2>2. childSpan(-n, i)' = sent(span[-n], nodes'[n].key, i) /\ childSpan(-n, i) = sent(span[-n], nodes[n].key, i)
    BY <2>1 DEF childSpan, Node
  <2>3. CASE -n = p.node
    <3>1. n = n0
      BY <1>2, <2>3
    <3>2. nodes'[n].key = key /\ span'[next[i]] = sent(span[-n], key, i)
      BY <1>1, <1>4, <2>3, <3>1, Zenon
    <3> HIDE DEF p, next
    <3>3. QED BY <2>2, <2>3, <3>2
  <2>4. CASE -n # p.node
    BY <1>1, <2>2, <2>4
  <2>5. QED BY <2>3, <2>4
<1>9. SpanInv'
  <2>1. /\ {head, NULL_TREE} \cup 1 .. Len(trees) \subseteq DOMAIN span
        /\ DOMAIN span \subseteq Ref
        /\ span[head] = Key /\ span[NULL_TREE] = {}
        /\ \A r \in DOMAIN span : span[r] \subseteq Key
    BY <1>3 DEF SpanInv
  <2>2. /\ \A r \in 1 .. Len(trees) :
             trees[r].items \subseteq span[r] /\ IsFiniteSet(trees[r].items)
        /\ \A q, r \in 1 .. Len(trees) :
             Linked(q) /\ Linked(r) /\ q # r => span[q] \cap span[r] = {}
    BY <1>3 DEF SpanInv
  <2>3. \A r \in 1 .. Len(trees) : span'[r] = span[r]
    BY <1>4, <2>1
  <2>4. span'[next[1]] \subseteq Key /\ span'[next[2]] \subseteq Key
    <3>1. /\ span'[next[1]] = sent(span[p.node], key, 1)
          /\ span'[next[2]] = sent(span[p.node], key, 2)
      <4>1. 1 \in 1 .. 2 /\ 2 \in 1 .. 2
        OBVIOUS
      <4>2. QED BY <1>4, <4>1, Zenon
    <3>2. span[p.node] \in SUBSET Key /\ key \in Key \cup {0}
      BY <1>2
    <3> HIDE DEF p, next
    <3>3. sent(span[p.node], key, 1) \subseteq span[p.node] /\ sent(span[p.node], key, 2) \subseteq span[p.node]
      BY <3>2, SentSplits
    <3>4. QED BY <3>1, <3>2, <3>3
  <2>5. /\ {head', NULL_TREE} \cup 1 .. Len(trees') \subseteq DOMAIN span'
        /\ DOMAIN span' \subseteq Ref'
        /\ span'[head'] = Key /\ span'[NULL_TREE] = {}
        /\ \A r \in DOMAIN span' : span'[r] \subseteq Key
    <3>1. /\ DOMAIN span' = DOMAIN span \cup {next[1], next[2]}
          /\ \A r \in DOMAIN span : span'[r] = span[r]
      BY <1>4
    <3>2. Ref' = Ref
      BY <1>1
    <3> HIDE DEF p, next
    <3>3. QED BY <1>7, <2>1, <2>4, <3>1, <3>2
  <2>6. /\ \A r \in 1 .. Len(trees') :
             trees'[r].items \subseteq span'[r] /\ IsFiniteSet(trees'[r].items)
        /\ \A q, r \in 1 .. Len(trees') :
             Linked(q)' /\ Linked(r)' /\ q # r => span'[q] \cap span'[r] = {}
    BY <1>1, <2>2, <2>3
  <2>7. QED BY <2>5, <2>6, Zenon DEF SpanInv
<1>10. LinkInv'
  <2> SUFFICES ASSUME NEW n \in 1 .. Len(nodes)
               PROVE  /\ \A i \in 1 .. 2 :
                           LET r == nodes'[n].next[i] IN
                           IF Settled(-n, i)'
                           THEN r # NULL_TREE => r \in DOMAIN span' /\ span'[r] = childSpan(-n, i)'
                           ELSE IF r < 0 THEN r \notin DOMAIN span' ELSE span'[r] = {}
                      /\ IsNode(nodes'[n].next[1]) = IsNode(nodes'[n].next[2])
    BY <1>1, Zenon DEF LinkInv
  <2>1. ASSUME NEW i \in 1 .. 2
        PROVE  LET r == nodes'[n].next[i] IN
               IF Settled(-n, i)'
               THEN r # NULL_TREE => r \in DOMAIN span' /\ span'[r] = childSpan(-n, i)'
               ELSE IF r < 0 THEN r \notin DOMAIN span' ELSE span'[r] = {}
    <3> DEFINE r == nodes[n].next[i]
    <3>1. nodes'[n].next[i] = r /\ r \in Ref
      BY <1>1, <1>3, NodeType
    <3>2. CASE -n = p.node
      <4>1. n = n0 /\ r = next[i]
        BY <1>2, <3>2
      <4>2. next[i] \in DOMAIN span'
        <5>1. i = 1 \/ i = 2
          OBVIOUS
        <5>2. QED BY <1>4, <5>1
      <4>3. Settled(-n, i)' /\ span'[next[i]] = childSpan(-n, i)'
        BY <1>2, <1>5, <1>8, <3>2
      <4> HIDE DEF r, next
      <4>4. r \in DOMAIN span' /\ span'[r] = childSpan(-n, i)'
        BY <4>1, <4>2, <4>3
      <4>5. QED BY <3>1, <4>3, <4>4, Zenon
    <3>3. CASE -n # p.node
      <4>1. IF Settled(-n, i)
            THEN r # NULL_TREE => r \in DOMAIN span /\ span[r] = childSpan(-n, i)
            ELSE IF r < 0 THEN r \notin DOMAIN span ELSE span[r] = {}
        BY <1>3 DEF LinkInv
      <4>2. Settled(-n, i)' <=> Settled(-n, i)
        BY <1>5, <3>3
      <4>3. r # next[1] /\ r # next[2]
        <5>1. 1 \in 1 .. 2 /\ 2 \in 1 .. 2
          OBVIOUS
        <5>2. QED BY <1>6, <3>3, <5>1
      <4>4. r \in DOMAIN span' <=> r \in DOMAIN span
        <5>1. DOMAIN span' = DOMAIN span \cup {next[1], next[2]}
          BY <1>4
        <5> HIDE DEF r, next
        <5>2. QED BY <4>3, <5>1
      <4>5. ~(r < 0) => r \in DOMAIN span
        <5>1. ~(r < 0) => r \in 1 .. Len(trees)
          BY <1>3, <3>1, References DEF IsNode
        <5>2. QED BY <1>3, <5>1 DEF SpanInv
      <4>6. Settled(-n, i) => childSpan(-n, i)' = childSpan(-n, i)
        BY <1>8, <3>3 DEF Settled
      <4>7. r \in DOMAIN span => span'[r] = span[r]
        BY <1>4
      <4> HIDE DEF r
      <4>8. IF Settled(-n, i)'
            THEN r # NULL_TREE => r \in DOMAIN span' /\ span'[r] = childSpan(-n, i)'
            ELSE IF r < 0 THEN r \notin DOMAIN span' ELSE span'[r] = {}
        BY <4>1, <4>2, <4>4, <4>5, <4>6, <4>7
      <4>9. QED BY <3>1, <4>8, Zenon
    <3>4. -n = p.node \/ -n # p.node
      OBVIOUS
    <3>5. QED BY <3>2, <3>3, <3>4, Zenon
  <2>2. IsNode(nodes'[n].next[1]) = IsNode(nodes'[n].next[2])
    <3>1. IsNode(nodes[n].next[1]) = IsNode(nodes[n].next[2])
      BY <1>1, <1>3 DEF LinkInv
    <3>2. nodes'[n].next = nodes[n].next
      BY <1>1
    <3>3. QED BY <3>1, <3>2
  <2>3. QED BY <2>1, <2>2, Zenon
<1>11. NoGap'
  <2> SUFFICES ASSUME NEW n \in 1 .. Len(nodes), NEW i \in 1 .. 2,
                      Settled(-n, i)', nodes'[n].next[i] = NULL_TREE
               PROVE  childSpan(-n, i)' = {}
    BY <1>1 DEF NoGap
  <2>1. nodes[n].next[i] = NULL_TREE
    BY <1>1
  <2>2. -n # p.node
    <3>1. next[i] # NULL_TREE
      <4>1. next[i] < 0
        BY <1>6
      <4>2. QED BY <4>1 DEF NULL_TREE
    <3>2. -n = p.node => n = n0
      BY <1>2
    <3>3. QED BY <2>1, <3>1, <3>2
  <2>3. Settled(-n, i)
    BY <1>5, <2>2
  <2>4. childSpan(-n, i) = {} /\ -n \in DOMAIN span
    BY <1>2, <2>1, <2>3 DEF NoGap, Settled
  <2>5. QED BY <1>8, <2>2, <2>4
<1>12. QED BY <1>9, <1>10, <1>11

(* The children's calls have the halves of their parent's part of v.       *)
LEMMA InnerParts ==
  ASSUME TreeInv, NEW t \in Thread, pc[t] = "build", ~isLeaf(parts[1].node),
         nodes' = rekeyed(nodes, -parts[1].node, bigNodeKey(v, parts[1].first, parts[1].len)),
         Pushed, Divided, UNCHANGED <<head, trees, c, v, todo>>,
         \A u \in Thread : pc'[u] # "apply"
  PROVE  BuildInv'
<1> DEFINE p == parts[1]
           next == nodes[-p.node].next
           key == bigNodeKey(v, p.first, p.len)
           S == span[p.node]
           P == Len(parts)
<1>1. /\ BuildInv /\ P \in Nat \ {0} /\ PartInv(p) /\ p.first \in Nat /\ p.len \in Nat
      /\ v \in Seq(Key) /\ Increasing(v) /\ S \in SUBSET Key /\ key \in Key \cup {0}
      /\ p.node \in DOMAIN span /\ todo = <<>>
  BY AtPart
<1>2. \A r : Linked(r)' <=> Linked(r)
  BY NewKey
<1>3. c = 1 /\ SpanInv
  BY DEF TreeInv, ChangeInv, OwnerInv
<1>4. /\ DOMAIN span' = DOMAIN span \cup {next[1], next[2]}
      /\ \A r \in DOMAIN span : span'[r] = span[r]
      /\ \A i \in 1 .. 2 : span'[next[i]] = sent(S, key, i)
  BY Zenon DEF Divided
<1>5. /\ Len(parts') = P + 1
      /\ \A i \in 1 .. 2 : /\ parts'[i].node = next[i]
                           /\ parts'[i].first = childFirst(p.first, p.len, i)
                           /\ parts'[i].len = childLen(p.first, p.len, i)
      /\ \A j \in 3 .. P + 1 : parts'[j] = parts[j - 1]
  BY Zenon DEF Pushed
<1>6. \A i, j \in 1 .. P + 1 : i # j => parts'[i].node # parts'[j].node
  BY <1>4, <1>5, PushedSettled
<1>7. \A i \in 1 .. 2 : next[i] < 0
  BY UnbuiltChildren
<1>8. \A i \in 1 .. P : PartInv(parts[i]) /\ parts[i].node \in DOMAIN span
  <2>1. \A i \in 1 .. P : PartInv(parts[i])
    BY <1>1 DEF BuildInv
  <2>2. QED BY <2>1 DEF PartInv
<1>9. \A j \in 1 .. P + 1 : j \in 1 .. 2 \/ (j \in 3 .. P + 1 /\ j - 1 \in 1 .. P /\ j - 1 # 1)
  <2>1. P \in Nat
    BY <1>1
  <2> HIDE DEF P
  <2>2. QED BY <2>1
<1>10. ASSUME NEW i \in 1 .. 2
       PROVE  /\ parts'[i].node \in DOMAIN span' /\ parts'[i].node < 0
              /\ span'[parts'[i].node] = sent(S, key, i)
  <2>1. next[i] \in DOMAIN span'
    <3>1. i = 1 \/ i = 2
      OBVIOUS
    <3>2. QED BY <1>4, <3>1, Zenon
  <2>2. parts'[i].node = next[i] /\ span'[next[i]] = sent(S, key, i) /\ next[i] < 0
    BY <1>4, <1>5, <1>7, Zenon
  <2> HIDE DEF next, S
  <2>3. QED BY <2>1, <2>2
<1>11. ASSUME NEW j \in 1 .. P + 1 PROVE rest(j)' = span'[parts'[j].node]
  <2>1. parts' # <<>> /\ c' = 1
    <3>1. Len(parts') # 0
      BY <1>1, <1>5
    <3>2. QED BY <1>3, <3>1
  <2>2. j \in 1 .. Len(parts')
    BY <1>5
  <2>3. pending'[j] = parts'[j].node
    BY <2>1, <2>2 DEF pending
  <2>4. QED BY <2>1, <2>3 DEF rest
<1>12. ASSUME NEW j \in 1 .. P PROVE rest(j) = span[parts[j].node]
  <2>1. parts # <<>>
    BY <1>1 DEF BuildInv
  <2>2. pending[j] = parts[j].node
    BY <2>1 DEF pending
  <2>3. QED BY <1>3, <2>2 DEF rest
<1> HIDE DEF key, P, S
<1>13. /\ rest(1)' = sent(S, key, 1) /\ rest(2)' = sent(S, key, 2)
       /\ \A j \in 3 .. P + 1 : rest(j)' = rest(j - 1)
       /\ rest(1) = S /\ 1 \in 1 .. P
  <2>1. 1 \in 1 .. 2 /\ 2 \in 1 .. 2 /\ 1 \in 1 .. P + 1 /\ 2 \in 1 .. P + 1 /\ 1 \in 1 .. P
    BY <1>1
  <2>2. ASSUME NEW j \in 3 .. P + 1 PROVE rest(j)' = rest(j - 1)
    <3>1. j \in 1 .. P + 1 /\ j - 1 \in 1 .. P
      BY <1>1
    <3>2. parts'[j] = parts[j - 1]
      BY <1>5
    <3>3. span'[parts[j - 1].node] = span[parts[j - 1].node]
      BY <1>4, <1>8, <3>1
    <3>4. QED BY <1>11, <1>12, <3>1, <3>2, <3>3
  <2>3. rest(1)' = sent(S, key, 1) /\ rest(2)' = sent(S, key, 2)
    BY <1>10, <1>11, <2>1
  <2>4. rest(1) = S
    BY <1>12, <2>1 DEF S
  <2>5. QED BY <2>1, <2>2, <2>3, <2>4
<1>14. /\ sent(S, key, 1) \cup sent(S, key, 2) = S
       /\ sent(S, key, 1) \cap sent(S, key, 2) = {}
       /\ sent(S, key, 1) \subseteq S /\ sent(S, key, 2) \subseteq S
  BY <1>1, SentSplits
<1>15. \A i, j \in 1 .. P : i # j => rest(i) \cap rest(j) = {}
  BY <1>1 DEF BuildInv, P
<1>16. \A j \in 1 .. P + 1 : j = 1 \/ j = 2 \/ (j \in 3 .. P + 1 /\ j - 1 \in 1 .. P /\ j - 1 # 1)
  <2>1. \A j \in 1 .. 2 : j = 1 \/ j = 2
    OBVIOUS
  <2>2. QED BY <1>9, <2>1
<1>17. \A j \in 1 .. P + 1 : \E i \in 1 .. P : rest(j)' \subseteq rest(i)
  BY <1>13, <1>14, <1>16
<1>18. ASSUME NEW i \in 1 .. P + 1, NEW j \in 1 .. P + 1, i # j
       PROVE  parts'[i].node # parts'[j].node /\ rest(i)' \cap rest(j)' = {}
  <2>1. parts'[i].node # parts'[j].node
    BY <1>6, <1>18
  <2>2. ASSUME NEW a \in 3 .. P + 1, a - 1 \in 1 .. P, a - 1 # 1
        PROVE  rest(a)' \cap rest(1)' = {} /\ rest(a)' \cap rest(2)' = {}
    <3>1. rest(a)' \cap S = {}
      BY <1>13, <1>15, <2>2
    <3>2. QED BY <1>13, <1>14, <3>1
  <2>3. ASSUME NEW a \in 3 .. P + 1, NEW b \in 3 .. P + 1, a # b,
               a - 1 \in 1 .. P, b - 1 \in 1 .. P
        PROVE  rest(a)' \cap rest(b)' = {}
    <3>1. a - 1 # b - 1
      BY <1>1, <2>3
    <3>2. QED BY <1>13, <1>15, <2>3, <3>1
  <2>4. rest(1)' \cap rest(2)' = {}
    BY <1>13, <1>14
  <2>5. rest(i)' \cap rest(j)' = {}
    <3>1. CASE i \in 3 .. P + 1 /\ j \in 3 .. P + 1
      <4>1. i - 1 \in 1 .. P /\ j - 1 \in 1 .. P
        BY <1>1, <3>1
      <4>2. QED BY <1>18, <2>3, <3>1, <4>1
    <3>2. CASE (i = 1 \/ i = 2) /\ j \in 3 .. P + 1
      <4>1. j - 1 \in 1 .. P /\ j - 1 # 1
        BY <1>1, <3>2
      <4>2. QED BY <2>2, <3>2, <4>1
    <3>3. CASE (j = 1 \/ j = 2) /\ i \in 3 .. P + 1
      <4>1. i - 1 \in 1 .. P /\ i - 1 # 1
        BY <1>1, <3>3
      <4>2. QED BY <2>2, <3>3, <4>1
    <3>4. CASE (i = 1 \/ i = 2) /\ (j = 1 \/ j = 2)
      BY <1>18, <2>4, <3>4
    <3>5. QED BY <1>16, <3>1, <3>2, <3>3, <3>4
  <2>6. QED BY <2>1, <2>5
<1>19. ASSUME NEW j \in 1 .. P + 1 PROVE PartInv(parts[j])'
  <2>1. CASE j \in 1 .. 2
    <3>1. /\ parts'[j].first = childFirst(p.first, p.len, j)
          /\ parts'[j].len = childLen(p.first, p.len, j)
      BY <1>5, <2>1
    <3>2. /\ p.first + p.len <= Len(v)
          /\ \A i \in 1 .. Len(v) : v[i] \in S <=> p.first < i /\ i <= p.first + p.len
      BY <1>1 DEF PartInv, S
    <3>3. \A i \in 1 .. Len(v) :
            v[i] \in sent(S, key, j) <=>
              /\ childFirst(p.first, p.len, j) < i
              /\ i <= childFirst(p.first, p.len, j) + childLen(p.first, p.len, j)
      BY <1>1, <2>1, <3>2, Split, SMTT(40) DEF key
    <3>4. childFirst(p.first, p.len, j) + childLen(p.first, p.len, j) <= Len(v)
      <4>1. /\ childFirst(p.first, p.len, j) \in Nat /\ childLen(p.first, p.len, j) \in Nat
            /\ childFirst(p.first, p.len, j) + childLen(p.first, p.len, j) <= p.first + p.len
        BY <1>1, <2>1, HalvesWithin
      <4>2. Len(v) \in Nat /\ p.first \in Nat /\ p.len \in Nat
        BY <1>1
      <4> HIDE DEF p
      <4>3. QED BY <3>2, <4>1, <4>2
    <3>5. /\ parts'[j].node \in DOMAIN span' /\ parts'[j].node < 0
          /\ span'[parts'[j].node] = sent(S, key, j)
      BY <1>10, <2>1
    <3>6. QED BY <3>1, <3>3, <3>4, <3>5, Zenon DEF PartInv
  <2>2. CASE j \in 3 .. P + 1
    <3>1. parts'[j] = parts[j - 1] /\ j - 1 \in 1 .. P
      BY <1>1, <1>5, <2>2
    <3>2. /\ PartInv(parts[j - 1]) /\ parts[j - 1].node \in DOMAIN span
          /\ span'[parts[j - 1].node] = span[parts[j - 1].node]
          /\ parts[j - 1].node \in DOMAIN span'
      BY <1>4, <1>8, <3>1
    <3>3. PartInv(parts'[j]) /\ span'[parts'[j].node] = span[parts'[j].node] /\ parts'[j].node \in DOMAIN span'
      BY <3>1, <3>2
    <3>4. QED BY <3>3 DEF PartInv
  <2>3. QED BY <1>9, <2>1, <2>2
<1>20. \A r \in 1 .. Len(trees) : span'[r] = span[r]
  BY <1>3, <1>4 DEF SpanInv
<1>21. \A r \in 1 .. Len(trees) : Linked(r)' =>
         /\ \A i \in 1 .. P + 1 : span'[r] \cap rest(i)' = {}
         /\ \A k \in trees[r].items : \E j \in 1 .. Len(v) : v[j] = k
  <2>1. \A r \in 1 .. Len(trees) : Linked(r) =>
          /\ \A i \in 1 .. P : span[r] \cap rest(i) = {}
          /\ \A k \in trees[r].items : \E j \in 1 .. Len(v) : v[j] = k
    BY <1>1 DEF BuildInv, P
  <2>2. ASSUME NEW r \in 1 .. Len(trees), Linked(r)', NEW i \in 1 .. P + 1
        PROVE  span'[r] \cap rest(i)' = {}
    <3>1. PICK h \in 1 .. P : rest(i)' \subseteq rest(h)
      BY <1>17
    <3>2. span[r] \cap rest(h) = {}
      BY <1>2, <2>1, <2>2
    <3>3. span'[r] = span[r]
      BY <1>20
    <3>4. QED BY <3>1, <3>2, <3>3
  <2>3. QED BY <1>2, <2>1, <2>2, Zenon
<1>22. \A j \in 1 .. Len(v) :
         \/ \E i \in 1 .. P + 1 : v[j] \in rest(i)'
         \/ \E r \in 1 .. Len(trees) : Linked(r)' /\ v[j] \in trees[r].items
  <2> SUFFICES ASSUME NEW j \in 1 .. Len(v)
               PROVE  \/ \E i \in 1 .. P + 1 : v[j] \in rest(i)'
                      \/ \E r \in 1 .. Len(trees) : Linked(r)' /\ v[j] \in trees[r].items
    OBVIOUS
  <2>1. \/ \E i \in 1 .. P : v[j] \in rest(i)
        \/ \E r \in 1 .. Len(trees) : Linked(r) /\ v[j] \in trees[r].items
    BY <1>1 DEF BuildInv, P
  <2>2. ASSUME NEW i \in 1 .. P, v[j] \in rest(i)
        PROVE  \E h \in 1 .. P + 1 : v[j] \in rest(h)'
    <3>1. CASE i = 1
      <4>1. v[j] \in rest(1)' \/ v[j] \in rest(2)'
        BY <1>13, <1>14, <2>2, <3>1
      <4>2. 1 \in 1 .. P + 1 /\ 2 \in 1 .. P + 1
        BY <1>1
      <4>3. QED BY <4>1, <4>2
    <3>2. CASE i # 1
      <4>1. i + 1 \in 3 .. P + 1 /\ i + 1 \in 1 .. P + 1 /\ (i + 1) - 1 = i
        BY <1>1, <3>2
      <4>2. rest(i + 1)' = rest(i)
        BY <1>13, <4>1
      <4>3. QED BY <2>2, <4>1, <4>2
    <3>3. QED BY <3>1, <3>2
  <2>3. QED BY <1>2, <2>1, <2>2, Zenon
<1>23. todo' = <<>> /\ parts' # <<>>
  <2>1. Len(parts') # 0
    BY <1>1, <1>5
  <2>2. QED BY <1>1, <2>1
<1>24. QED
  <2>1. UNCHANGED <<trees, v>> /\ Len(parts') = P + 1
    BY <1>5
  <2>2. \A i, j \in 1 .. Len(parts') : i # j =>
          parts'[i].node # parts'[j].node /\ rest(i)' \cap rest(j)' = {}
    BY <1>18, <2>1
  <2>3. \A i \in 1 .. Len(parts') : PartInv(parts[i])'
    BY <1>19, <2>1, Zenon
  <2>4. \A r \in 1 .. Len(trees') : Linked(r)' =>
          /\ \A i \in 1 .. Len(parts') : span'[r] \cap rest(i)' = {}
          /\ \A k \in trees'[r].items : \E j \in 1 .. Len(v') : v'[j] = k
    BY <1>21, <2>1
  <2>5. \A j \in 1 .. Len(v') :
          \/ \E i \in 1 .. Len(parts') : v'[j] \in rest(i)'
          \/ \E r \in 1 .. Len(trees') : Linked(r)' /\ v'[j] \in trees'[r].items
    BY <1>22, <2>1
  <2>6. QED BY <1>23, <2>2, <2>3, <2>4, <2>5, Zenon DEF BuildInv

LEMMA DoBuildKey ==
  ASSUME LockInv, TreeInv, LockInv', NEW t \in Thread, BuildKey(t)
  PROVE  TreeInv'
<1> DEFINE p == parts[1]
           key == bigNodeKey(v, p.first, p.len)
           next == nodes[-p.node].next
<1>1. TreeTypeOK /\ ControlInv(t) /\ CallInv(t) /\ WalkInv(t)
  BY DEF TreeInv
<1>2. /\ UNCHANGED <<head, trees, sizeVars, countVars, call, cur, side, v, c, todo>>
      /\ pc[t] = "build" /\ changeLayout(t)
  BY DEF BuildKey, walkVars
<1>3. /\ Head(parts) = p /\ Node(p.node) = nodes[-p.node] /\ \A u \in Thread : pc[u] # "apply"
      /\ todo = <<>>
  BY <1>2, AtPart
<1>4. nodes' = rekeyed(nodes, -p.node, key)
  BY <1>3 DEF BuildKey, rekeyed
<1>5. \/ isLeaf(p.node) /\ pc' = [pc EXCEPT ![t] = "expand"] /\ UNCHANGED <<parts, span>>
      \/ /\ ~isLeaf(p.node) /\ UNCHANGED pc
         /\ parts' = childParts(p) \o Tail(parts)
         /\ span' = dividedSpan(p.node, key, next)
  <2>1. LET q == Head(parts) IN
        \/ isLeaf(q.node) /\ pc' = [pc EXCEPT ![t] = "expand"] /\ UNCHANGED <<parts, span>>
        \/ /\ ~isLeaf(q.node) /\ UNCHANGED pc
           /\ parts' = childParts(q) \o Tail(parts)
           /\ span' = dividedSpan(q.node, bigNodeKey(v, q.first, q.len), Node(q.node).next)
    BY Zenon DEF BuildKey, to, dividedSpan
  <2>2. QED BY <1>3, <2>1, Zenon
<1>6. /\ lpc[t] = "change" /\ lpc' = lpc /\ \A u \in Thread : lpc[u] = "read" => stale'[u]
  BY <1>1, <1>2, ChangeStale DEF TreeTypeOK
<1>7. /\ pc'[t] \in {"build", "expand"} /\ pc' \in [Thread -> Place]
      /\ \A u \in Thread \ {t} : pc'[u] = pc[u]
      /\ pc'[t] = "expand" => isLeaf(p.node)
      /\ \A u \in Thread : pc'[u] # "apply"
  <2>1. pc \in [Thread -> Place]
    BY <1>1 DEF TreeTypeOK
  <2>2. CASE pc' = [pc EXCEPT ![t] = "expand"] /\ isLeaf(p.node)
    BY <1>3, <2>1, <2>2 DEF Place, Owning
  <2>3. CASE UNCHANGED pc
    BY <1>2, <1>3, <2>1, <2>3
  <2>4. QED BY <1>5, <2>2, <2>3
<1>8. /\ nodes' \in Seq(NodeOf(Ref)) /\ Ref' = Ref /\ Len(nodes') = Len(nodes)
      /\ \A r : Linked(r)' <=> Linked(r)
      /\ ShapeInv' /\ c = 1
  BY <1>2, <1>4, NewKey
<1>9. /\ SpanInv' /\ LinkInv' /\ NoGap' /\ BuildInv' /\ (pc'[t] = "expand" => ExpandInv')
      /\ parts' \in Seq([node : Ref, first : Nat, len : Nat])
  <2>1. CASE isLeaf(p.node)
    <3>1. UNCHANGED <<parts, span>>
      BY <1>5, <2>1
    <3>2. SpanInv' /\ LinkInv' /\ NoGap' /\ BuildInv' /\ ExpandInv'
      BY <1>2, <1>4, <1>7, <2>1, <3>1, LeafKey
    <3>3. parts' \in Seq([node : Ref, first : Nat, len : Nat])
      BY <1>1, <3>1 DEF TreeTypeOK
    <3>4. QED BY <3>2, <3>3
  <2>2. CASE ~isLeaf(p.node)
    <3>1. /\ parts' = childParts(p) \o Tail(parts)
          /\ span' = dividedSpan(p.node, key, next)
      BY <1>5, <2>2
    <3>2. Pushed
      BY <1>2, <3>1, PushChildren
    <3>3. Divided
      BY <1>2, <2>2, <3>1, DivideSpan
    <3>4. SpanInv' /\ LinkInv' /\ NoGap'
      BY <1>2, <1>4, <2>2, <3>2, <3>3, InnerKey
    <3>5. BuildInv'
      BY <1>2, <1>4, <1>7, <2>2, <3>2, <3>3, InnerParts
    <3>6. parts' \in Seq([node : Ref, first : Nat, len : Nat])
      BY <3>2, Zenon DEF Pushed
    <3>7. pc'[t] # "expand"
      BY <1>7, <2>2
    <3>8. QED BY <3>4, <3>5, <3>6, <3>7
  <2>3. QED BY <2>1, <2>2
<1>10. TreeTypeOK'
  <2>1. /\ v' \in Seq(Key) /\ c' \in 1 .. 2 /\ todo' \in Seq(Ref')
        /\ parts' \in Seq([node : Ref', first : Nat, len : Nat])
        /\ cur' \in [Thread -> Ref' \cup {0}]
    BY <1>1, <1>2, <1>8, <1>9 DEF TreeTypeOK
  <2>2. /\ pc' \in [Thread -> Place] /\ head' \in Ref' \ {NULL_TREE}
        /\ nodes' \in Seq([key : Key \cup {0}, next : [1 .. 2 -> Ref']])
        /\ trees' \in Seq([lock : Thread \cup {0}, items : SUBSET Key])
    BY <1>1, <1>2, <1>7, <1>8 DEF TreeTypeOK, NodeOf
  <2>3. /\ side' \in [Thread -> 1 .. 2] /\ heuristic' \in [Thread -> Int]
        /\ sz' \in [Thread -> Int] /\ limit' \in [Thread -> Int]
        /\ {fuzzySize', enlargeWhen', shrinkWhen', backboneSize'} \subseteq Int
        /\ call' \in [Thread -> Call] /\ LockTypeOK'
    BY <1>1, <1>2 DEF TreeTypeOK, LockInv, sizeVars, countVars, Call
  <2>4. QED BY <2>1, <2>2, <2>3 DEF TreeTypeOK, Call
<1>11. ControlInv(t)' /\ CallInv(t)' /\ WalkInv(t)'
  <2>1. ControlInv(t)' /\ CallInv(t)'
    BY <1>1, <1>2, <1>6, <1>7 DEF ControlInv, CallInv, Before, Owning
  <2>2. QED BY <1>6, <1>7, <2>1 DEF WalkInv
<1>12. ASSUME NEW u \in Thread \ {t} PROVE ControlInv(u)' /\ CallInv(u)' /\ WalkInv(u)'
  <2>1. Aside(t, u)
    BY <1>2, <1>6, <1>7 DEF Aside
  <2>2. pc[u] # "apply"
    BY <1>3
  <2>3. Ref \subseteq Ref' /\ Len(trees) <= Len(trees') /\ Len(trees') \in Nat
    BY <1>1, <1>2, <1>8, References
  <2>4. QED BY <1>6, <2>1, <2>2, <2>3, OthersDuringChange
<1>13. OwnerInv(t)'
  BY <1>2, <1>7, <1>8, <1>9 DEF OwnerInv
<1>14. \A u \in Thread : OwnerInv(u)'
  BY <1>6, <1>7, <1>13, OwnerStep
<1>15. RestInv'
  <2>1. ~Gathering' /\ Building'
    BY <1>6, <1>7, OwnerStep
  <2>2. QED BY <1>2, <1>3, <1>9, <2>1 DEF RestInv
<1>16. Increasing(v)'
  BY <1>2 DEF TreeInv, ChangeInv, Increasing
<1>17. QED
  BY <1>8, <1>9, <1>10, <1>11, <1>12, <1>14, <1>15, <1>16 DEF TreeInv, ChangeInv

(* The child that expandLeafBigNode replaces: an empty treelet             *)
LEMMA AtChild ==
  ASSUME TreeInv, NEW t \in Thread, pc[t] = "expand"
  PROVE  LET p == parts[1]
             S == childSpan(p.node, c)
             f == childFirst(p.first, p.len, c)
             l == childLen(p.first, p.len, c)
             x == nodes[-p.node].next[c]
         IN /\ c \in 1 .. 2 /\ f \in Nat /\ l \in Nat /\ f + l <= Len(v) /\ S \in SUBSET Key
            /\ \A j \in 1 .. Len(v) : v[j] \in S <=> f < j /\ j <= f + l
            /\ x \in 1 .. Len(trees) /\ x \in Ref /\ span[x] = {} /\ trees[x].items = {}
            /\ rest(1) = IF c = 1 THEN span[p.node] ELSE S
            /\ S \subseteq rest(1)
            /\ c = 1 => rest(1) = S \cup childSpan(p.node, 2) /\ S \cap childSpan(p.node, 2) = {}
            /\ c = 2 => IsNode(nodes[-p.node].next[1])
            /\ ~IsNode(nodes[-p.node].next[2])
<1> DEFINE p == parts[1]
           n0 == -p.node
           S == childSpan(p.node, c)
           f == childFirst(p.first, p.len, c)
           l == childLen(p.first, p.len, c)
           x == nodes[n0].next[c]
<1>1. /\ BuildInv /\ PartInv(p) /\ p.first \in Nat /\ p.len \in Nat /\ p.node \in DOMAIN span
      /\ n0 \in 1 .. Len(nodes) /\ Node(p.node) = nodes[n0] /\ p.node \in Int /\ p.node < 0
      /\ span[p.node] \in SUBSET Key /\ v \in Seq(Key) /\ Increasing(v) /\ Len(v) \in Nat
      /\ Len(parts) \in Nat \ {0} /\ -n0 = p.node
      /\ bigNodeKey(v, p.first, p.len) \in Key \cup {0}
  <2>1. /\ BuildInv /\ PartInv(p) /\ p.first \in Nat /\ p.len \in Nat /\ p.node \in DOMAIN span
        /\ n0 \in 1 .. Len(nodes) /\ Node(p.node) = nodes[n0] /\ p.node \in Int /\ p.node < 0
        /\ span[p.node] \in SUBSET Key /\ v \in Seq(Key) /\ Increasing(v) /\ Len(v) \in Nat
        /\ Len(parts) \in Nat \ {0} /\ bigNodeKey(v, p.first, p.len) \in Key \cup {0}
    BY AtPart, ZenonT(40)
  <2>2. -n0 = p.node
    BY <2>1
  <2>3. QED BY <2>1, <2>2, Zenon
<1>2. c \in 1 .. 2 /\ ExpandInv /\ LinkInv /\ SpanInv /\ TreeTypeOK
  BY DEF TreeInv, TreeTypeOK, ChangeInv, OwnerInv
<1>3. /\ Node(p.node).key = bigNodeKey(v, p.first, p.len)
      /\ ~IsNode(nodes[n0].next[2]) /\ (~IsNode(nodes[n0].next[1]) <=> c = 1)
  BY <1>1, <1>2 DEF ExpandInv, isLeaf
<1>4. S = sent(span[p.node], bigNodeKey(v, p.first, p.len), c)
  BY <1>3 DEF childSpan
<1>5. /\ p.first + p.len <= Len(v)
      /\ \A j \in 1 .. Len(v) :
           v[j] \in span[p.node] <=> p.first < j /\ j <= p.first + p.len
  BY <1>1 DEF PartInv
<1>6. \A j \in 1 .. Len(v) : v[j] \in S <=> f < j /\ j <= f + l
  <2>1. \A i \in 1 .. 2, j \in 1 .. Len(v) :
          v[j] \in sent(span[p.node], bigNodeKey(v, p.first, p.len), i) <=>
            /\ childFirst(p.first, p.len, i) < j
            /\ j <= childFirst(p.first, p.len, i) + childLen(p.first, p.len, i)
    <3> DEFINE S0 == span[p.node]
               f0 == p.first
               l0 == p.len
    <3>1. /\ v \in Seq(Key) /\ Increasing(v) /\ f0 \in Nat /\ l0 \in Nat /\ f0 + l0 <= Len(v)
          /\ \A j \in 1 .. Len(v) : v[j] \in S0 <=> f0 < j /\ j <= f0 + l0
      BY <1>1, <1>5
    <3> HIDE DEF S0, f0, l0
    <3>2. \A i \in 1 .. 2, j \in 1 .. Len(v) :
            v[j] \in sent(S0, bigNodeKey(v, f0, l0), i) <=>
              /\ childFirst(f0, l0, i) < j
              /\ j <= childFirst(f0, l0, i) + childLen(f0, l0, i)
      BY <3>1, Split
    <3>3. QED BY <3>2 DEF S0, f0, l0
  <2> HIDE DEF p, S
  <2>2. QED BY <1>2, <1>4, <2>1, Zenon
<1>7. f \in Nat /\ l \in Nat /\ f + l <= Len(v)
  <2>1. f \in Nat /\ l \in Nat /\ f + l <= p.first + p.len
    BY <1>1, <1>2, HalvesWithin
  <2>2. p.first \in Nat /\ p.len \in Nat /\ Len(v) \in Nat
    BY <1>1
  <2> HIDE DEF f, l, p
  <2>3. QED BY <1>5, <2>1, <2>2
<1>8. IsNode(p.node)
  BY <1>1 DEF IsNode
<1>9. /\ childSpan(p.node, 1) \cup childSpan(p.node, 2) = span[p.node]
      /\ childSpan(p.node, 1) \cap childSpan(p.node, 2) = {}
      /\ \A i : childSpan(p.node, i) \subseteq span[p.node]
  BY <1>1, <1>8, ChildSpans
<1>10. rest(1) = IF c = 1 THEN span[p.node] ELSE S
  <2>1. parts # <<>> /\ 1 \in 1 .. Len(parts)
    BY <1>1 DEF BuildInv
  <2>2. pending[1] = p.node
    BY <2>1 DEF pending
  <2>3. QED BY <1>2, <2>2 DEF rest
<1>11. S \in SUBSET Key /\ S \subseteq rest(1)
  BY <1>1, <1>9, <1>10
<1>12. c = 1 => rest(1) = S \cup childSpan(p.node, 2) /\ S \cap childSpan(p.node, 2) = {}
  BY <1>9, <1>10
<1>13. x \in 1 .. Len(trees) /\ x \in Ref /\ ~IsNode(x)
  <2>1. x \in Ref
    BY <1>1, <1>2, NodeType
  <2>2. ~IsNode(x)
    <3>1. c = 1 \/ c = 2
      BY <1>2
    <3>2. QED BY <1>3, <3>1
  <2>3. QED BY <1>2, <2>1, <2>2, References
<1>14. span[x] = {}
  <2>1. ~Settled(-n0, c)
    <3>1. ~(c < c) /\ 1 \in 1 .. Len(parts)
      BY <1>1, <1>2
    <3>2. QED BY <1>1, <3>1 DEF Settled
  <2>2. IF Settled(-n0, c)
        THEN x # NULL_TREE => x \in DOMAIN span /\ span[x] = childSpan(-n0, c)
        ELSE IF x < 0 THEN x \notin DOMAIN span ELSE span[x] = {}
    BY <1>1, <1>2 DEF LinkInv
  <2>3. QED BY <1>13, <2>1, <2>2 DEF IsNode
<1>15. trees[x].items = {}
  <2>1. trees[x].items \subseteq span[x]
    BY <1>2, <1>13 DEF SpanInv
  <2>2. QED BY <1>14, <2>1
<1>16. c = 2 => IsNode(nodes[n0].next[1])
  BY <1>3
<1>17. QED
  BY <1>2, <1>3, <1>6, <1>7, <1>10, <1>11, <1>12, <1>13, <1>14, <1>15, <1>16, Zenon

(* What the step does to the nodes, the treelets and the spans             *)
Expanded ==
  LET p == parts[1]
      f == childFirst(p.first, p.len, c)
      l == childLen(p.first, p.len, c)
      L == Len(nodes)
  IN /\ Grown(v, f, l, childSpan(p.node, c))
     /\ Ref' = Ref \cup Fresh
     /\ nodes' \in Seq(NodeOf(Ref')) /\ Len(nodes') = L + 1
     /\ \A m \in 1 .. L : nodes'[m].key = nodes[m].key
     /\ \A m \in 1 .. L, j \in 1 .. 2 :
          nodes'[m].next[j] = IF m = -p.node /\ j = c THEN -(L + 1) ELSE nodes[m].next[j]
     /\ nodes'[L + 1] = bigNode(v, f, l)

LEMMA ExpandChild ==
  ASSUME TreeInv, NEW t \in Thread, pc[t] = "expand",
         NEW f, f = childFirst(parts[1].first, parts[1].len, c),
         NEW l, l = childLen(parts[1].first, parts[1].len, c),
         trees' = trees \o bigNodeTrees(v, f, l),
         nodes' = Append(relinked(nodes, -parts[1].node, c, -(Len(nodes) + 1)), bigNode(v, f, l)),
         span' = withNode(childSpan(parts[1].node, c), bigNode(v, f, l))
  PROVE  Expanded
<1> DEFINE p == parts[1]
           n0 == -p.node
           S == childSpan(p.node, c)
           L == Len(nodes)
           T == Len(trees)
           s2 == relinked(nodes, n0, c, -(L + 1))
           n1 == bigNode(v, f, l)
           N2 == NodeOf(Ref \cup Fresh)
<1>1. /\ c \in 1 .. 2 /\ f \in Nat /\ l \in Nat /\ f + l <= Len(v) /\ S \in SUBSET Key
      /\ \A j \in 1 .. Len(v) : v[j] \in S <=> f < j /\ j <= f + l
  BY AtChild
<1>2. n0 \in 1 .. Len(nodes) /\ v \in Seq(Key) /\ Increasing(v)
  BY AtPart
<1>3. Grown(v, f, l, S)
  BY <1>1, <1>2, NewNode
<1>4. TreeTypeOK /\ L \in Nat /\ T \in Nat
  BY References DEF TreeInv
<1>5. n1 \in NodeOf({T + 1, T + 2}) /\ Len(trees') = T + 2
  BY <1>3, Zenon DEF Grown
<1>6. nodes' = Append(s2, n1)
  OBVIOUS
<1> HIDE DEF n1, s2, S, n0, p
<1>7. nodes \in Seq(N2)
  <2>1. \A n \in 1 .. L : nodes[n] \in N2
    <3>1. \A n \in 1 .. L : nodes[n] \in [key : Key \cup {0}, next : [1 .. 2 -> Ref]]
      BY <1>4, NodeType
    <3>2. QED BY <3>1 DEF NodeOf
  <2> HIDE DEF N2
  <2>2. nodes \in [1 .. L -> N2]
    BY <1>4, <2>1, SMTT(40) DEF TreeTypeOK
  <2>3. L \in Nat
    BY <1>4
  <2> HIDE DEF L
  <2>4. QED BY <2>2, <2>3, IsASeq
<1>8. s2 \in Seq(N2) /\ OtherwiseSame(nodes, s2, n0, c, -(L + 1))
  <2>1. -(L + 1) \in Ref \cup Fresh
    BY DEF Fresh
  <2>2. QED BY <1>1, <1>2, <1>7, <2>1, SetNext DEF s2
<1>9. n1 \in N2
  BY <1>5 DEF NodeOf, Fresh
<1>10. /\ Len(s2) = L
       /\ \A m \in 1 .. L : s2[m].key = nodes[m].key
       /\ \A m \in 1 .. L, j \in 1 .. 2 :
            s2[m].next[j] = IF m = n0 /\ j = c THEN -(L + 1) ELSE nodes[m].next[j]
  BY <1>8, Zenon DEF OtherwiseSame
<1> HIDE DEF N2
<1>11. /\ nodes' \in Seq(N2) /\ Len(nodes') = L + 1
       /\ \A m \in 1 .. L : nodes'[m] = s2[m]
       /\ nodes'[L + 1] = n1
  <2>1. /\ Append(s2, n1) \in Seq(N2) /\ Len(Append(s2, n1)) = Len(s2) + 1
        /\ \A m \in 1 .. Len(s2) : Append(s2, n1)[m] = s2[m]
        /\ Append(s2, n1)[Len(s2) + 1] = n1
    BY <1>8, <1>9, AppendProperties
  <2>2. QED BY <1>6, <1>10, <2>1
<1>12. Ref' = Ref \cup Fresh
  BY <1>4, <1>5, <1>11, GrownRef
<1>13. /\ \A m \in 1 .. L : nodes'[m].key = nodes[m].key
       /\ \A m \in 1 .. L, j \in 1 .. 2 :
            nodes'[m].next[j] = IF m = n0 /\ j = c THEN -(L + 1) ELSE nodes[m].next[j]
  BY <1>10, <1>11
<1>14. nodes' \in Seq(NodeOf(Ref'))
  BY <1>11, <1>12 DEF N2
<1>15. QED BY <1>3, <1>11, <1>12, <1>13, <1>14, Zenon DEF Expanded, n0, p, S, n1

(* Where the nodes lead afterwards: to the new node in the child's place,  *)
(* from there to the new treelets, and otherwise to where they led         *)
LEMMA ExpandedNext ==
  ASSUME TreeInv, NEW t \in Thread, pc[t] = "expand", Expanded
  PROVE  LET L == Len(nodes)
             T == Len(trees)
             n0 == -parts[1].node
         IN /\ \A n \in 1 .. L + 1, i \in 1 .. 2 :
                 \/ n \in 1 .. L /\ ~(n = n0 /\ i = c) /\ nodes'[n].next[i] = nodes[n].next[i]
                 \/ n = n0 /\ i = c /\ nodes'[n].next[i] = -(L + 1)
                 \/ n = L + 1 /\ nodes'[n].next[i] = T + i
            /\ \A n \in 1 .. L, i \in 1 .. 2 : nodes[n].next[i] \in Ref
            /\ nodes'[n0].next[c] = -(L + 1)
            /\ \A i \in 1 .. 2 : nodes'[L + 1].next[i] = T + i
            /\ Len(nodes') = L + 1 /\ Len(trees') = T + 2 /\ L \in Nat /\ T \in Nat
            /\ Fresh \cap Ref = {} /\ n0 \in 1 .. L /\ c \in 1 .. 2
<1> DEFINE L == Len(nodes)
           T == Len(trees)
           p == parts[1]
           n0 == -p.node
           n1 == bigNode(v, childFirst(p.first, p.len, c), childLen(p.first, p.len, c))
<1>1. TreeTypeOK /\ L \in Nat /\ T \in Nat /\ c \in 1 .. 2 /\ n0 \in 1 .. L
  BY AtPart, References DEF TreeInv, TreeTypeOK
<1>2. /\ Len(nodes') = L + 1
      /\ \A m \in 1 .. L, j \in 1 .. 2 :
           nodes'[m].next[j] = IF m = n0 /\ j = c THEN -(L + 1) ELSE nodes[m].next[j]
      /\ nodes'[L + 1] = n1
  BY Zenon DEF Expanded
<1>3. n1.next[1] = T + 1 /\ n1.next[2] = T + 2 /\ Len(trees') = T + 2 /\ Fresh \cap Ref = {}
  BY Zenon DEF Expanded, Grown
<1> HIDE DEF n1, n0
<1>4. \A i \in 1 .. 2 : nodes'[L + 1].next[i] = T + i
  <2>1. \A i \in 1 .. 2 : i = 1 \/ i = 2
    OBVIOUS
  <2>2. QED BY <1>2, <1>3, <2>1, Zenon
<1>5. \A n \in 1 .. L, i \in 1 .. 2 : nodes[n].next[i] \in Ref
  BY <1>1, NodeType
<1>6. \A n \in 1 .. L + 1 : n \in 1 .. L \/ n = L + 1
  BY <1>1
<1>7. ASSUME NEW n \in 1 .. L + 1, NEW i \in 1 .. 2
      PROVE  \/ n \in 1 .. L /\ ~(n = n0 /\ i = c) /\ nodes'[n].next[i] = nodes[n].next[i]
             \/ n = n0 /\ i = c /\ nodes'[n].next[i] = -(L + 1)
             \/ n = L + 1 /\ nodes'[n].next[i] = T + i
  BY <1>2, <1>4, <1>6, Zenon
<1>8. nodes'[n0].next[c] = -(L + 1)
  BY <1>1, <1>2, Zenon
<1>9. QED BY <1>1, <1>2, <1>3, <1>4, <1>5, <1>7, <1>8, Zenon DEF n0

LEMMA ExpandedShape ==
  ASSUME TreeInv, NEW t \in Thread, pc[t] = "expand", Expanded, head' = head
  PROVE  /\ \A x : Linked(x)' => x \in Fresh \/ Linked(x)
         /\ \A x : x \in Fresh \/ (Linked(x) /\ x # nodes[-parts[1].node].next[c]) => Linked(x)'
         /\ ShapeInv'
<1> DEFINE L == Len(nodes)
           T == Len(trees)
           n0 == -parts[1].node
<1>1. /\ \A n \in 1 .. L + 1, i \in 1 .. 2 :
           \/ n \in 1 .. L /\ ~(n = n0 /\ i = c) /\ nodes'[n].next[i] = nodes[n].next[i]
           \/ n = n0 /\ i = c /\ nodes'[n].next[i] = -(L + 1)
           \/ n = L + 1 /\ nodes'[n].next[i] = T + i
      /\ \A n \in 1 .. L, i \in 1 .. 2 : nodes[n].next[i] \in Ref
      /\ nodes'[n0].next[c] = -(L + 1)
      /\ \A i \in 1 .. 2 : nodes'[L + 1].next[i] = T + i
      /\ Len(nodes') = L + 1 /\ Len(trees') = T + 2 /\ L \in Nat /\ T \in Nat
      /\ Fresh \cap Ref = {} /\ n0 \in 1 .. L /\ c \in 1 .. 2
  BY ExpandedNext
<1>2. TreeTypeOK /\ ShapeInv /\ head \in Ref
  BY DEF TreeInv, TreeTypeOK
<1> HIDE DEF n0
<1>3. \A n \in 1 .. L + 1, i \in 1 .. 2 :
        \/ n \in 1 .. L /\ nodes'[n].next[i] = nodes[n].next[i] /\ nodes[n].next[i] \in Ref
        \/ n = n0 /\ i = c /\ nodes'[n].next[i] = -(L + 1)
        \/ n = L + 1 /\ nodes'[n].next[i] = T + i
  BY <1>1
<1>4. /\ -(L + 1) \in Fresh /\ T + 1 \in Fresh /\ T + 2 \in Fresh
      /\ \A i \in 1 .. 2 : T + i \in Fresh
      /\ \A x \in Fresh : x = -(L + 1) \/ x = T + 1 \/ x = T + 2
      /\ \A x \in Ref : x \notin Fresh
      /\ L + 1 \in 1 .. L + 1 /\ n0 \in 1 .. L + 1
      /\ \A n \in 1 .. L : n \in 1 .. L + 1 /\ n # L + 1
  BY <1>1 DEF Fresh
<1>5. ASSUME NEW x, Linked(x)' PROVE x \in Fresh \/ Linked(x)
  <2>1. x = head \/ \E n \in 1 .. L + 1, i \in 1 .. 2 : nodes'[n].next[i] = x
    BY <1>1, <1>5 DEF Linked
  <2>2. QED BY <1>3, <1>4, <2>1 DEF Linked
<1>6. ASSUME NEW x \in Fresh PROVE Linked(x)'
  <2>1. 1 \in 1 .. 2 /\ 2 \in 1 .. 2
    OBVIOUS
  <2>2. /\ nodes'[n0].next[c] = -(L + 1) /\ c \in 1 .. 2
        /\ nodes'[L + 1].next[1] = T + 1 /\ nodes'[L + 1].next[2] = T + 2
    BY <1>1, <2>1
  <2>3. x = -(L + 1) \/ x = T + 1 \/ x = T + 2
    BY <1>4
  <2>4. \E n \in 1 .. L + 1, i \in 1 .. 2 : nodes'[n].next[i] = x
    BY <1>4, <2>1, <2>2, <2>3
  <2>5. QED BY <1>1, <2>4 DEF Linked
<1>7. ASSUME NEW x, Linked(x), x # nodes[n0].next[c] PROVE Linked(x)'
  <2>1. CASE x = head
    BY <2>1 DEF Linked
  <2>2. CASE \E n \in 1 .. L, i \in 1 .. 2 : nodes[n].next[i] = x
    <3>1. PICK n \in 1 .. L, i \in 1 .. 2 : nodes[n].next[i] = x
      BY <2>2
    <3>2. nodes'[n].next[i] = x /\ n \in 1 .. L + 1
      BY <1>1, <1>4, <1>7, <3>1, Zenon
    <3>3. QED BY <1>1, <3>2 DEF Linked
  <2>3. QED BY <1>7, <2>1, <2>2 DEF Linked
<1>8. ShapeInv'
  <2>1. ASSUME NEW n \in 1 .. L + 1, NEW i \in 1 .. 2
        PROVE  /\ nodes'[n].next[i] # head
               /\ nodes'[n].next[i] < 0 => nodes'[n].next[i] < -n
    <3>1. CASE n \in 1 .. L /\ nodes'[n].next[i] = nodes[n].next[i]
      BY <1>2, <3>1 DEF ShapeInv
    <3>2. CASE n = n0 /\ nodes'[n].next[i] = -(L + 1)
      <4>1. -(L + 1) # head
        BY <1>2, <1>4
      <4>2. -(L + 1) < -n
        BY <1>1, <3>2
      <4>3. QED BY <3>2, <4>1, <4>2
    <3>3. CASE nodes'[n].next[i] = T + i
      <4>1. T + i # head
        BY <1>2, <1>4
      <4>2. ~(T + i < 0)
        BY <1>1
      <4>3. QED BY <3>3, <4>1, <4>2, Zenon
    <3>4. QED BY <1>3, <3>1, <3>2, <3>3
  <2>2. ASSUME NEW n \in 1 .. L + 1, NEW i \in 1 .. 2,
               NEW m \in 1 .. L + 1, NEW j \in 1 .. 2,
               nodes'[n].next[i] = nodes'[m].next[j], nodes'[n].next[i] # NULL_TREE
        PROVE  n = m /\ i = j
    <3>1. \A d \in 1 .. 2 : -(L + 1) # T + d
      BY <1>1
    <3>2. CASE n \in 1 .. L /\ nodes'[n].next[i] = nodes[n].next[i] /\ nodes[n].next[i] \in Ref
      <4>1. m \in 1 .. L /\ nodes'[m].next[j] = nodes[m].next[j]
        <5>1. nodes'[m].next[j] # -(L + 1) /\ nodes'[m].next[j] # T + j
          BY <1>4, <2>2, <3>2
        <5>2. QED BY <1>3, <5>1
      <4>2. nodes[n].next[i] = nodes[m].next[j] /\ nodes[n].next[i] # NULL_TREE
        BY <2>2, <3>2, <4>1
      <4>3. QED BY <1>2, <3>2, <4>1, <4>2 DEF ShapeInv
    <3>3. CASE n = n0 /\ i = c /\ nodes'[n].next[i] = -(L + 1)
      <4>1. m = n0 /\ j = c
        <5>1. nodes'[m].next[j] \notin Ref /\ nodes'[m].next[j] # T + j
          BY <1>4, <2>2, <3>1, <3>3
        <5>2. QED BY <1>3, <5>1
      <4>2. QED BY <3>3, <4>1
    <3>4. CASE n = L + 1 /\ nodes'[n].next[i] = T + i
      <4>1. m = L + 1 /\ nodes'[m].next[j] = T + j
        <5>1. nodes'[m].next[j] \notin Ref /\ nodes'[m].next[j] # -(L + 1)
          BY <1>4, <2>2, <3>1, <3>4
        <5>2. QED BY <1>3, <5>1
      <4>2. QED BY <1>1, <2>2, <3>4, <4>1
    <3>5. QED BY <1>3, <3>2, <3>3, <3>4
  <2>3. QED BY <1>1, <2>1, <2>2 DEF ShapeInv
<1>9. QED BY <1>5, <1>6, <1>7, <1>8 DEF n0

(* The open calls after the step                                           *)
LEMMA PartsLeft ==
  ASSUME TreeInv, NEW t \in Thread, pc[t] = "expand",
         parts' = IF c = 2 THEN Tail(parts) ELSE parts, c' = nextChild
  PROVE  /\ c = 1 => c' = 2 /\ parts' = parts
         /\ c = 2 => /\ c' = 1 /\ Len(parts') = Len(parts) - 1
                     /\ \A j \in 1 .. Len(parts) - 1 : parts'[j] = parts[j + 1]
         /\ c = 1 \/ c = 2
         /\ parts' \in Seq([node : Ref, first : Nat, len : Nat])
         /\ Len(parts') \in Nat
         /\ \A i, j \in 1 .. Len(parts) : i # j => parts[i].node # parts[j].node
         /\ \A i \in 1 .. Len(parts) : PartInv(parts[i]) /\ parts[i].node \in DOMAIN span
<1> DEFINE R == [node : Ref, first : Nat, len : Nat]
<1>1. parts \in Seq(R) /\ parts # <<>> /\ Len(parts) \in Nat \ {0} /\ BuildInv
  BY AtPart
<1>2. c \in 1 .. 2
  BY DEF TreeInv, TreeTypeOK
<1>3. \A i, j \in 1 .. Len(parts) : i # j => parts[i].node # parts[j].node
  BY <1>1 DEF BuildInv
<1>4. \A i \in 1 .. Len(parts) : PartInv(parts[i])
  BY <1>1 DEF BuildInv
<1>5. \A i \in 1 .. Len(parts) : parts[i].node \in DOMAIN span
  BY <1>4 DEF PartInv
<1> HIDE DEF R
<1>6. /\ Tail(parts) \in Seq(R) /\ Len(Tail(parts)) = Len(parts) - 1
      /\ \A j \in 1 .. Len(parts) - 1 : Tail(parts)[j] = parts[j + 1]
  BY <1>1, HeadTailProperties
<1>7. c = 1 => c' = 2 /\ parts' = parts
  BY DEF nextChild
<1>8. c = 2 => c' = 1 /\ parts' = Tail(parts)
  BY DEF nextChild
<1>9. c = 1 \/ c = 2
  BY <1>2
<1>10. parts' \in Seq(R)
  BY <1>1, <1>6, <1>7, <1>8, <1>9, Zenon
<1>11. Len(parts') \in Nat
  BY <1>10
<1>12. c = 2 => /\ Len(parts') = Len(parts) - 1
                /\ \A j \in 1 .. Len(parts) - 1 : parts'[j] = parts[j + 1]
  BY <1>6, <1>8
<1>13. QED
  BY <1>3, <1>4, <1>5, <1>7, <1>8, <1>9, <1>10, <1>11, <1>12, Zenon DEF R

LEMMA ExpandedSettled ==
  ASSUME TreeInv, NEW t \in Thread, pc[t] = "expand", Expanded,
         parts' = IF c = 2 THEN Tail(parts) ELSE parts, c' = nextChild
  PROVE  LET L == Len(nodes)
             n0 == -parts[1].node
         IN /\ \A n \in 1 .. L, i \in 1 .. 2 :
                 /\ Settled(-n, i)' <=> Settled(-n, i) \/ (n = n0 /\ i = c)
                 /\ -n \in DOMAIN span => childSpan(-n, i)' = childSpan(-n, i)
            /\ \A n, i : n = L + 1 /\ i \in 1 .. 2 =>
                 Settled(-n, i)' /\ childSpan(-n, i)' = span'[Len(trees) + i]
<1> DEFINE L == Len(nodes)
           T == Len(trees)
           P == Len(parts)
           p == parts[1]
           n0 == -p.node
           n1 == bigNode(v, childFirst(p.first, p.len, c), childLen(p.first, p.len, c))
           S == childSpan(p.node, c)
<1>1. /\ L \in Nat /\ P \in Nat \ {0} /\ p.node \in DOMAIN span /\ -n0 = p.node /\ p.node \in Int
  BY AtPart, References DEF TreeInv
<1>2. /\ \A m \in 1 .. L : nodes'[m].key = nodes[m].key
      /\ nodes'[L + 1] = n1
  BY Zenon DEF Expanded
<1>3. /\ DOMAIN span' = DOMAIN span \cup Fresh /\ Fresh \cap Ref = {}
      /\ \A r \in DOMAIN span : span'[r] = span[r]
      /\ span'[-(L + 1)] = S
      /\ \A i \in 1 .. 2 : span'[T + i] = sent(S, n1.key, i)
  BY Zenon DEF Expanded, Grown
<1>4. /\ c = 1 => c' = 2 /\ parts' = parts
      /\ c = 2 => /\ c' = 1 /\ Len(parts') = P - 1
                  /\ \A j \in 1 .. P - 1 : parts'[j] = parts[j + 1]
      /\ c = 1 \/ c = 2
      /\ \A i, j \in 1 .. P : i # j => parts[i].node # parts[j].node
      /\ \A i \in 1 .. P : parts[i].node \in DOMAIN span
  BY PartsLeft
<1>5. \A r \in DOMAIN span : r \in Ref
  BY DEF TreeInv, SpanInv
<1> HIDE DEF n1, S
<1>6. ASSUME NEW n \in 1 .. L, NEW i \in 1 .. 2
      PROVE  -n \in DOMAIN span => childSpan(-n, i)' = childSpan(-n, i)
  <2>1. -(-n) = n
    BY <1>1
  <2>2. QED BY <1>2, <1>3, <2>1 DEF childSpan, Node
<1>7. ASSUME NEW n, n = L + 1, NEW i \in 1 .. 2 PROVE childSpan(-n, i)' = span'[T + i]
  <2>1. -(-n) = n
    BY <1>1, <1>7
  <2>2. QED BY <1>2, <1>3, <1>7, <2>1 DEF childSpan, Node
<1>8. \A j \in 1 .. Len(parts') : \E h \in 1 .. P : parts'[j] = parts[h]
  <2>1. CASE c = 1
    BY <1>4, <2>1
  <2>2. CASE c = 2
    <3>1. \A j \in 1 .. P - 1 : j + 1 \in 1 .. P
      BY <1>1
    <3>2. QED BY <1>4, <2>2, <3>1
  <2>3. QED BY <1>4, <2>1, <2>2
<1>9. ASSUME NEW n, n = L + 1, NEW i \in 1 .. 2 PROVE Settled(-n, i)'
  <2>1. -n \in DOMAIN span' /\ -n \notin DOMAIN span
    BY <1>3, <1>5, <1>9 DEF Fresh
  <2>2. \A j \in 1 .. Len(parts') : parts'[j].node # -n
    BY <1>4, <1>8, <2>1
  <2>3. QED BY <2>1, <2>2 DEF Settled
<1>10. ASSUME NEW n \in 1 .. L, NEW i \in 1 .. 2
       PROVE  Settled(-n, i)' <=> Settled(-n, i) \/ (n = n0 /\ i = c)
  <2>1. -n \in DOMAIN span' <=> -n \in DOMAIN span
    <3>1. -n \in Ref
      BY References DEF TreeInv
    <3>2. QED BY <1>3, <3>1
  <2>2. -n = p.node <=> n = n0
    BY <1>1
  <2>3. 1 \in 1 .. P
    BY <1>1
  <2>4. Settled(-n, i) <=>
          -n \in DOMAIN span /\ \A j \in 1 .. P : parts[j].node = -n => j = 1 /\ i < c
    BY DEF Settled
  <2>5. CASE n = n0
    <3>1. -n = p.node /\ -n \in DOMAIN span
      BY <1>1, <2>2, <2>5
    <3>2. \A j \in 1 .. P : parts[j].node = -n <=> j = 1
      BY <1>4, <2>3, <3>1
    <3>3. Settled(-n, i) <=> i < c
      BY <2>3, <2>4, <3>1, <3>2
    <3>4. Settled(-n, i)' <=> i <= c
      <4>1. CASE c = 1
        <5>1. Settled(-n, i)' <=> \A j \in 1 .. P : parts[j].node = -n => j = 1 /\ i < 2
          BY <1>4, <2>1, <3>1, <4>1 DEF Settled
        <5>2. Settled(-n, i)' <=> i < 2
          BY <2>3, <3>2, <5>1
        <5>3. QED BY <4>1, <5>2
      <4>2. CASE c = 2
        <5>1. ASSUME NEW j \in 1 .. P - 1 PROVE parts'[j].node # -n
          <6>1. j + 1 \in 1 .. P /\ j + 1 # 1
            BY <1>1
          <6>2. QED BY <1>4, <3>2, <4>2, <6>1
        <5>2. Settled(-n, i)'
          BY <1>4, <2>1, <3>1, <4>2, <5>1 DEF Settled
        <5>3. QED BY <4>2, <5>2
      <4>3. QED BY <1>4, <4>1, <4>2
    <3>5. QED BY <1>4, <2>5, <3>3, <3>4
  <2>6. CASE n # n0
    <3>1. parts[1].node # -n
      BY <2>2, <2>6
    <3>2. Settled(-n, i) <=> -n \in DOMAIN span /\ \A j \in 1 .. P : parts[j].node # -n
      BY <2>4, <3>1
    <3>3. Settled(-n, i)' <=> -n \in DOMAIN span /\ \A j \in 1 .. P : parts[j].node # -n
      <4>1. CASE c = 1
        BY <1>4, <2>1, <3>1, <4>1 DEF Settled
      <4>2. CASE c = 2
        <5>1. Settled(-n, i)' <=>
                -n \in DOMAIN span /\ \A j \in 1 .. P - 1 : parts'[j].node # -n
          <6>1. ~(i < 1)
            OBVIOUS
          <6>2. QED BY <1>4, <2>1, <4>2, <6>1 DEF Settled
        <5>2. (\A j \in 1 .. P - 1 : parts'[j].node # -n) <=> \A j \in 1 .. P : parts[j].node # -n
          <6>1. ASSUME \A j \in 1 .. P - 1 : parts'[j].node # -n, NEW j \in 1 .. P
                PROVE  parts[j].node # -n
            <7>1. CASE j = 1
              BY <3>1, <7>1
            <7>2. CASE j # 1
              <8>1. j - 1 \in 1 .. P - 1 /\ (j - 1) + 1 = j
                BY <1>1, <7>2
              <8>2. QED BY <1>4, <4>2, <6>1, <8>1
            <7>3. QED BY <7>1, <7>2
          <6>2. ASSUME \A j \in 1 .. P : parts[j].node # -n, NEW j \in 1 .. P - 1
                PROVE  parts'[j].node # -n
            <7>1. j + 1 \in 1 .. P
              BY <1>1
            <7>2. QED BY <1>4, <4>2, <6>2, <7>1
          <6>3. QED BY <6>1, <6>2
        <5>3. QED BY <5>1, <5>2
      <4>3. QED BY <1>4, <4>1, <4>2
    <3>4. QED BY <2>6, <3>2, <3>3
  <2>7. QED BY <2>5, <2>6
<1>11. QED BY <1>6, <1>7, <1>9, <1>10

(* The new treelets divide what leads to the child; the rest of the layout *)
(* is as it was.                                                           *)
LEMMA ExpandedTree ==
  ASSUME TreeInv, NEW t \in Thread, pc[t] = "expand", Expanded,
         parts' = IF c = 2 THEN Tail(parts) ELSE parts, c' = nextChild, head' = head
  PROVE  SpanInv' /\ LinkInv' /\ NoGap'
<1> DEFINE L == Len(nodes)
           T == Len(trees)
           p == parts[1]
           n0 == -p.node
           n1 == bigNode(v, childFirst(p.first, p.len, c), childLen(p.first, p.len, c))
           S == childSpan(p.node, c)
<1>1. /\ p.node \in DOMAIN span /\ -n0 = p.node /\ p.node \in Int /\ BuildInv
      /\ Len(parts) \in Nat \ {0} /\ NoGap
  BY AtPart
<1>2. S \in SUBSET Key /\ S \subseteq rest(1) /\ ~IsNode(nodes[n0].next[2])
      /\ (c = 2 => IsNode(nodes[n0].next[1]))
  BY AtChild
<1>3. /\ \A n \in 1 .. L + 1, i \in 1 .. 2 :
           \/ n \in 1 .. L /\ ~(n = n0 /\ i = c) /\ nodes'[n].next[i] = nodes[n].next[i]
           \/ n = n0 /\ i = c /\ nodes'[n].next[i] = -(L + 1)
           \/ n = L + 1 /\ nodes'[n].next[i] = T + i
      /\ \A n \in 1 .. L, i \in 1 .. 2 : nodes[n].next[i] \in Ref
      /\ nodes'[n0].next[c] = -(L + 1)
      /\ \A i \in 1 .. 2 : nodes'[L + 1].next[i] = T + i
      /\ Len(nodes') = L + 1 /\ Len(trees') = T + 2 /\ L \in Nat /\ T \in Nat
      /\ Fresh \cap Ref = {} /\ n0 \in 1 .. L /\ c \in 1 .. 2
  BY ExpandedNext
<1>4. \A x : Linked(x)' => x \in Fresh \/ Linked(x)
  BY ExpandedShape
<1>5. /\ \A n \in 1 .. L, i \in 1 .. 2 :
           /\ Settled(-n, i)' <=> Settled(-n, i) \/ (n = n0 /\ i = c)
           /\ -n \in DOMAIN span => childSpan(-n, i)' = childSpan(-n, i)
      /\ \A n, i : n = L + 1 /\ i \in 1 .. 2 =>
           Settled(-n, i)' /\ childSpan(-n, i)' = span'[T + i]
  BY ExpandedSettled
<1>6. /\ DOMAIN span' = DOMAIN span \cup Fresh
      /\ \A r \in DOMAIN span : span'[r] = span[r]
      /\ span'[-(L + 1)] = S
      /\ \A i \in 1 .. 2 : span'[T + i] = sent(S, n1.key, i)
      /\ n1.key \in Key \cup {0}
      /\ \A q \in 1 .. T : trees'[q] = trees[q]
  BY Zenon DEF Expanded, Grown
<1>7. \A i \in 1 .. 2 : trees'[T + i].items \subseteq span'[T + i] /\ IsFiniteSet(trees'[T + i].items)
  BY Zenon DEF Expanded, Grown
<1>8. Ref' = Ref \cup Fresh
  BY Zenon DEF Expanded
<1>9. /\ {head, NULL_TREE} \cup 1 .. T \subseteq DOMAIN span
      /\ DOMAIN span \subseteq Ref
      /\ span[head] = Key /\ span[NULL_TREE] = {}
      /\ \A r \in DOMAIN span : span[r] \subseteq Key
  BY DEF TreeInv, SpanInv
<1>10. /\ \A r \in 1 .. T : trees[r].items \subseteq span[r] /\ IsFiniteSet(trees[r].items)
       /\ \A q, r \in 1 .. T : Linked(q) /\ Linked(r) /\ q # r => span[q] \cap span[r] = {}
  BY DEF TreeInv, SpanInv
<1>11. /\ -(L + 1) \in Fresh /\ T + 1 \in Fresh /\ T + 2 \in Fresh
       /\ \A x \in Fresh : x = -(L + 1) \/ x = T + 1 \/ x = T + 2
       /\ \A x \in Ref : x \notin Fresh
  BY <1>3 DEF Fresh
<1> HIDE DEF n1, S
<1>12. /\ span'[T + 1] \cap span'[T + 2] = {}
       /\ \A r \in {T + 1, T + 2} :
            /\ span'[r] \subseteq S
            /\ trees'[r].items \subseteq span'[r] /\ IsFiniteSet(trees'[r].items)
  <2>1. 1 \in 1 .. 2 /\ 2 \in 1 .. 2
    OBVIOUS
  <2>2. span'[T + 1] = sent(S, n1.key, 1) /\ span'[T + 2] = sent(S, n1.key, 2)
    BY <1>6, <2>1, Zenon
  <2>3. /\ sent(S, n1.key, 1) \cap sent(S, n1.key, 2) = {}
        /\ sent(S, n1.key, 1) \subseteq S /\ sent(S, n1.key, 2) \subseteq S
    <3>1. S \in SUBSET Key /\ n1.key \in Key \cup {0}
      BY <1>2, <1>6, Zenon
    <3>2. QED BY <3>1, SentSplits
  <2>4. QED BY <1>7, <2>1, <2>2, <2>3, Zenon
<1>13. \A q \in 1 .. T + 2 : q \in 1 .. T \/ q \in {T + 1, T + 2}
  BY <1>3
<1>14. \A q \in 1 .. T : /\ span'[q] = span[q] /\ trees'[q] = trees[q]
                         /\ q \in Ref /\ (Linked(q)' => Linked(q))
  <2>1. \A q \in 1 .. T : q \in DOMAIN span /\ q \in Ref
    BY <1>9
  <2>2. \A q \in 1 .. T : Linked(q)' => Linked(q)
    BY <1>4, <1>11, <2>1
  <2>3. QED BY <1>6, <2>1, <2>2
<1>15. SpanInv'
  <2>1. /\ {head', NULL_TREE} \cup 1 .. Len(trees') \subseteq DOMAIN span'
        /\ DOMAIN span' \subseteq Ref'
        /\ span'[head'] = Key /\ span'[NULL_TREE] = {}
    <3>1. DOMAIN span' = DOMAIN span \cup Fresh /\ \A r \in DOMAIN span : span'[r] = span[r]
      BY <1>6, Zenon
    <3>2. Len(trees') = T + 2
      BY <1>3
    <3>3. 1 .. T + 2 \subseteq DOMAIN span'
      BY <1>9, <1>11, <1>13, <3>1
    <3>4. QED BY <1>8, <1>9, <3>1, <3>2, <3>3
  <2>2. \A r \in DOMAIN span' : span'[r] \subseteq Key
    <3>1. DOMAIN span' = DOMAIN span \cup Fresh /\ \A r \in DOMAIN span : span'[r] = span[r]
      BY <1>6, Zenon
    <3>2. span'[-(L + 1)] \subseteq Key
      BY <1>2, <1>6
    <3>3. span'[T + 1] \subseteq Key /\ span'[T + 2] \subseteq Key
      BY <1>2, <1>12
    <3>4. QED BY <1>9, <1>11, <3>1, <3>2, <3>3
  <2>3. \A r \in 1 .. Len(trees') :
          trees'[r].items \subseteq span'[r] /\ IsFiniteSet(trees'[r].items)
    <3>1. \A r \in 1 .. T : trees'[r].items \subseteq span'[r] /\ IsFiniteSet(trees'[r].items)
      BY <1>10, <1>14
    <3>2. \A r \in {T + 1, T + 2} :
             trees'[r].items \subseteq span'[r] /\ IsFiniteSet(trees'[r].items)
      BY <1>12, Zenon
    <3>3. Len(trees') = T + 2
      BY <1>3
    <3>4. QED BY <1>13, <3>1, <3>2, <3>3, Zenon
  <2>4. ASSUME NEW q \in 1 .. T, NEW r \in {T + 1, T + 2}, Linked(q)'
        PROVE  span'[q] \cap span'[r] = {}
    <3>1. 1 \in 1 .. Len(parts)
      BY <1>1
    <3>2. span[q] \cap rest(1) = {}
      BY <1>1, <1>14, <2>4, <3>1 DEF BuildInv
    <3>3. span'[r] \subseteq rest(1)
      BY <1>2, <1>12
    <3>4. span'[q] = span[q]
      BY <1>14
    <3>5. QED BY <3>2, <3>3, <3>4
  <2>5. ASSUME NEW q \in 1 .. T + 2, NEW r \in 1 .. T + 2, Linked(q)', Linked(r)', q # r
        PROVE  span'[q] \cap span'[r] = {}
    <3>1. CASE q \in 1 .. T /\ r \in 1 .. T
      BY <1>10, <1>14, <2>5, <3>1
    <3>2. CASE q \in 1 .. T /\ r \in {T + 1, T + 2}
      BY <2>4, <2>5, <3>2
    <3>3. CASE r \in 1 .. T /\ q \in {T + 1, T + 2}
      BY <2>4, <2>5, <3>3
    <3>4. CASE q \in {T + 1, T + 2} /\ r \in {T + 1, T + 2}
      BY <1>12, <2>5, <3>4
    <3>5. QED BY <1>13, <3>1, <3>2, <3>3, <3>4
  <2>6. \A q, r \in 1 .. Len(trees') :
          Linked(q)' /\ Linked(r)' /\ q # r => span'[q] \cap span'[r] = {}
    BY <1>3, <2>5
  <2>7. QED BY <2>1, <2>2, <2>3, <2>6, Zenon DEF SpanInv
<1>16. LinkInv'
  <2> SUFFICES ASSUME NEW n \in 1 .. Len(nodes')
               PROVE  /\ \A i \in 1 .. 2 :
                           LET r == nodes'[n].next[i] IN
                           IF Settled(-n, i)'
                           THEN r # NULL_TREE => r \in DOMAIN span' /\ span'[r] = childSpan(-n, i)'
                           ELSE IF r < 0 THEN r \notin DOMAIN span' ELSE span'[r] = {}
                      /\ \/ IsNode(nodes'[n].next[1]) = IsNode(nodes'[n].next[2])
                         \/ parts' # <<>> /\ c' = 2 /\ n = -parts'[1].node
    BY Zenon DEF LinkInv
  <2>1. n \in 1 .. L + 1
    BY <1>3
  <2>2. ASSUME NEW i \in 1 .. 2
        PROVE  LET r == nodes'[n].next[i] IN
               IF Settled(-n, i)'
               THEN r # NULL_TREE => r \in DOMAIN span' /\ span'[r] = childSpan(-n, i)'
               ELSE IF r < 0 THEN r \notin DOMAIN span' ELSE span'[r] = {}
    <3>1. CASE n \in 1 .. L /\ ~(n = n0 /\ i = c) /\ nodes'[n].next[i] = nodes[n].next[i]
      <4> DEFINE r == nodes[n].next[i]
      <4>1. r \in Ref
        BY <1>3, <3>1
      <4>2. IF Settled(-n, i)
            THEN r # NULL_TREE => r \in DOMAIN span /\ span[r] = childSpan(-n, i)
            ELSE IF r < 0 THEN r \notin DOMAIN span ELSE span[r] = {}
        BY <3>1 DEF TreeInv, LinkInv
      <4>3. r \in DOMAIN span' <=> r \in DOMAIN span
        BY <1>6, <1>11, <4>1
      <4>4. ~(r < 0) => r \in DOMAIN span
        <5>1. ~(r < 0) => r \in 1 .. T
          BY <4>1, References DEF IsNode, TreeInv
        <5>2. QED BY <1>9, <5>1
      <4>5. r \in DOMAIN span => span'[r] = span[r]
        BY <1>6
      <4>6. /\ Settled(-n, i)' <=> Settled(-n, i)
            /\ Settled(-n, i) => childSpan(-n, i)' = childSpan(-n, i)
        <5>1. Settled(-n, i) => -n \in DOMAIN span
          BY DEF Settled
        <5>2. QED BY <1>5, <3>1, <5>1, Zenon
      <4> HIDE DEF r
      <4>7. IF Settled(-n, i)'
            THEN r # NULL_TREE => r \in DOMAIN span' /\ span'[r] = childSpan(-n, i)'
            ELSE IF r < 0 THEN r \notin DOMAIN span' ELSE span'[r] = {}
        BY <4>2, <4>3, <4>4, <4>5, <4>6
      <4>8. nodes'[n].next[i] = r
        BY <3>1 DEF r
      <4>9. QED BY <4>7, <4>8, Zenon
    <3>2. CASE n = n0 /\ i = c /\ nodes'[n].next[i] = -(L + 1)
      <4>1. Settled(-n, i)'
        BY <1>3, <1>5, <3>2, Zenon
      <4>2. childSpan(-n, i)' = childSpan(-n, i) /\ childSpan(-n, i) = S
        <5>1. -n = p.node /\ -n \in DOMAIN span /\ n \in 1 .. L
          BY <1>1, <1>3, <3>2
        <5>2. QED BY <1>5, <3>2, <5>1 DEF S
      <4>3. -(L + 1) \in DOMAIN span' /\ span'[-(L + 1)] = S
        BY <1>6, <1>11
      <4>4. nodes'[n].next[i] \in DOMAIN span' /\ span'[nodes'[n].next[i]] = childSpan(-n, i)'
        BY <3>2, <4>2, <4>3, Zenon
      <4>5. QED BY <4>1, <4>4, Zenon
    <3>3. CASE n = L + 1 /\ nodes'[n].next[i] = T + i
      <4>1. Settled(-n, i)' /\ childSpan(-n, i)' = span'[T + i]
        BY <1>5, <3>3, Zenon
      <4>2. T + i \in DOMAIN span'
        <5>1. i = 1 \/ i = 2
          OBVIOUS
        <5>2. QED BY <1>6, <1>11, <5>1
      <4>3. nodes'[n].next[i] \in DOMAIN span' /\ span'[nodes'[n].next[i]] = childSpan(-n, i)'
        BY <3>3, <4>1, <4>2, Zenon
      <4>4. QED BY <4>1, <4>3, Zenon
    <3>4. \/ n \in 1 .. L /\ ~(n = n0 /\ i = c) /\ nodes'[n].next[i] = nodes[n].next[i]
          \/ n = n0 /\ i = c /\ nodes'[n].next[i] = -(L + 1)
          \/ n = L + 1 /\ nodes'[n].next[i] = T + i
      BY <1>3, <2>1, Zenon
    <3>5. QED BY <3>1, <3>2, <3>3, <3>4, Zenon
  <2>3. \/ IsNode(nodes'[n].next[1]) = IsNode(nodes'[n].next[2])
        \/ parts' # <<>> /\ c' = 2 /\ n = -parts'[1].node
    <3>1. 1 \in 1 .. 2 /\ 2 \in 1 .. 2
      OBVIOUS
    <3>2. CASE n \in 1 .. L /\ n # n0
      <4>1. nodes'[n].next[1] = nodes[n].next[1] /\ nodes'[n].next[2] = nodes[n].next[2]
        <5>1. n # L + 1
          BY <1>3, <3>2
        <5>2. QED BY <1>3, <2>1, <3>1, <3>2, <5>1, Zenon
      <4>2. IsNode(nodes[n].next[1]) = IsNode(nodes[n].next[2])
        BY <3>2 DEF TreeInv, LinkInv
      <4>3. QED BY <4>1, <4>2
    <3>3. CASE n = n0
      <4>1. CASE c = 1
        <5>1. parts' = parts /\ c' = 2 /\ parts # <<>>
          BY <1>1, <4>1, PartsLeft
        <5>2. QED BY <3>3, <5>1
      <4>2. CASE c = 2
        <5>1. nodes'[n].next[2] = -(L + 1) /\ nodes'[n].next[1] = nodes[n0].next[1]
          <6>1. n # L + 1 /\ 1 # c
            BY <1>3, <3>3, <4>2
          <6>2. QED BY <1>3, <2>1, <3>1, <3>3, <4>2, <6>1, Zenon
        <5>2. IsNode(-(L + 1)) /\ IsNode(nodes[n0].next[1])
          BY <1>2, <1>3, <4>2 DEF IsNode
        <5>3. QED BY <5>1, <5>2 DEF IsNode
      <4>3. c = 1 \/ c = 2
        BY <1>3
      <4>4. QED BY <4>1, <4>2, <4>3
    <3>4. CASE n = L + 1
      <4>1. nodes'[n].next[1] = T + 1 /\ nodes'[n].next[2] = T + 2
        BY <1>3, <3>1, <3>4, Zenon
      <4>2. ~IsNode(T + 1) /\ ~IsNode(T + 2)
        BY <1>3 DEF IsNode
      <4>3. QED BY <4>1, <4>2 DEF IsNode
    <3>5. n \in 1 .. L \/ n = L + 1
      BY <1>3, <2>1
    <3>6. QED BY <3>2, <3>3, <3>4, <3>5, Zenon
  <2>4. QED BY <2>2, <2>3, Zenon
<1>17. NoGap'
  <2> SUFFICES ASSUME NEW n \in 1 .. L + 1, NEW i \in 1 .. 2,
                      Settled(-n, i)', nodes'[n].next[i] = NULL_TREE
               PROVE  childSpan(-n, i)' = {}
    BY <1>3 DEF NoGap
  <2>1. NULL_TREE # -(L + 1) /\ NULL_TREE # T + i
    <3>1. NULL_TREE \in Ref
      BY <1>9
    <3>2. T + i \in Fresh
      BY DEF Fresh
    <3>3. QED BY <1>11, <3>1, <3>2
  <2>2. n \in 1 .. L /\ ~(n = n0 /\ i = c) /\ nodes[n].next[i] = NULL_TREE
    BY <1>3, <2>1, Zenon
  <2>3. Settled(-n, i)
    BY <1>5, <2>2, Zenon
  <2>4. childSpan(-n, i) = {} /\ -n \in DOMAIN span
    BY <1>1, <2>2, <2>3 DEF NoGap, Settled
  <2>5. QED BY <1>5, <2>2, <2>4, Zenon
<1>18. QED BY <1>15, <1>16, <1>17

(* What the open calls expect loses just what leads to the new node.       *)
LEMMA RestLeft ==
  ASSUME TreeInv, NEW t \in Thread, pc[t] = "expand", Expanded,
         parts' = IF c = 2 THEN Tail(parts) ELSE parts, c' = nextChild
  PROVE  LET S == childSpan(parts[1].node, c)
             P == Len(parts)
         IN /\ \A i \in 1 .. Len(parts') :
                 S \cap rest(i)' = {} /\ \E h \in 1 .. P : rest(i)' \subseteq rest(h)
            /\ \A i, j \in 1 .. Len(parts') : i # j =>
                 parts'[i].node # parts'[j].node /\ rest(i)' \cap rest(j)' = {}
            /\ \A h \in 1 .. P : \A k \in rest(h) :
                 k \in S \/ \E i \in 1 .. Len(parts') : k \in rest(i)'
            /\ \A i \in 1 .. Len(parts') : \E h \in 1 .. P : parts'[i] = parts[h]
<1> DEFINE S == childSpan(parts[1].node, c)
           P == Len(parts)
           p == parts[1]
<1>1. /\ P \in Nat \ {0} /\ p.node \in DOMAIN span /\ BuildInv /\ p.node \in Int
      /\ -p.node \in 1 .. Len(nodes) /\ -(-p.node) = p.node
  BY AtPart
<1>2. /\ rest(1) = IF c = 1 THEN span[p.node] ELSE S
      /\ S \subseteq rest(1)
      /\ c = 1 => rest(1) = S \cup childSpan(p.node, 2) /\ S \cap childSpan(p.node, 2) = {}
  BY AtChild
<1>3. \A r \in DOMAIN span : span'[r] = span[r]
  BY Zenon DEF Expanded, Grown
<1>4. /\ c = 1 => c' = 2 /\ parts' = parts
      /\ c = 2 => /\ c' = 1 /\ Len(parts') = P - 1
                  /\ \A j \in 1 .. P - 1 : parts'[j] = parts[j + 1]
      /\ c = 1 \/ c = 2
      /\ \A i, j \in 1 .. P : i # j => parts[i].node # parts[j].node
      /\ \A i \in 1 .. P : parts[i].node \in DOMAIN span
  BY PartsLeft
<1>5. \A i, j \in 1 .. P : i # j => rest(i) \cap rest(j) = {}
  BY <1>1 DEF BuildInv
<1>6. ASSUME NEW h \in 2 .. P PROVE rest(h) = span[parts[h].node]
  <2>1. parts # <<>> /\ h \in 1 .. P /\ h # 1
    BY <1>1 DEF BuildInv
  <2>2. pending[h] = parts[h].node
    BY <2>1 DEF pending
  <2>3. QED BY <2>1, <2>2 DEF rest
<1>7. CASE c = 1
  <2>1. c' = 2 /\ parts' = parts /\ Len(parts') = P /\ parts # <<>>
    BY <1>1, <1>4, <1>7 DEF BuildInv
  <2>2. rest(1)' = childSpan(p.node, 2)
    <3>1. pending'[1] = p.node
      BY <1>1, <2>1 DEF pending
    <3>2. childSpan(p.node, 2)' = childSpan(p.node, 2)
      <4>1. \A n \in 1 .. Len(nodes), i \in 1 .. 2 :
              -n \in DOMAIN span => childSpan(-n, i)' = childSpan(-n, i)
        BY ExpandedSettled
      <4>2. 2 \in 1 .. 2 /\ parts'[1].node = p.node
        BY <2>1
      <4>3. \A q : q = p.node => childSpan(q, 2)' = childSpan(q, 2)
        BY <1>1, <4>1, <4>2
      <4>4. QED BY <4>2, <4>3
    <3>3. rest(1)' = childSpan(pending[1], 2)'
      BY <2>1 DEF rest
    <3>4. \A q : q = pending'[1] => childSpan(pending[1], 2)' = childSpan(q, 2)'
      OBVIOUS
    <3>5. \A q : q = p.node => childSpan(q, 2)' = childSpan(p.node, 2)
      BY <2>1, <3>2 DEF childSpan, Node
    <3>6. QED BY <3>1, <3>3, <3>4, <3>5
  <2>3. ASSUME NEW i \in 2 .. P PROVE rest(i)' = rest(i) /\ i \in 1 .. P /\ i # 1
    <3>1. i \in 1 .. P /\ i # 1
      BY <1>1
    <3>2. pending'[i] = parts[i].node
      BY <2>1, <3>1 DEF pending
    <3>3. rest(i)' = span'[parts[i].node]
      BY <3>1, <3>2 DEF rest
    <3>4. QED BY <1>3, <1>4, <1>6, <3>1, <3>3
  <2>4. \A i \in 1 .. P : i = 1 \/ i \in 2 .. P
    BY <1>1
  <2>5. 1 \in 1 .. P
    BY <1>1
  <2>6. rest(1) = S \cup rest(1)' /\ S \cap rest(1)' = {} /\ rest(1)' \subseteq rest(1)
    BY <1>2, <1>7, <2>2
  <2> HIDE DEF S, P, p
  <2>7. ASSUME NEW i \in 1 .. P
        PROVE  S \cap rest(i)' = {} /\ \E h \in 1 .. P : rest(i)' \subseteq rest(h)
    <3>1. CASE i = 1
      BY <2>5, <2>6, <3>1
    <3>2. CASE i \in 2 .. P
      <4>1. rest(i)' = rest(i) /\ rest(1) \cap rest(i) = {} /\ i \in 1 .. P
        BY <1>5, <2>3, <2>5, <3>2
      <4>2. QED BY <2>6, <4>1
    <3>3. QED BY <2>4, <3>1, <3>2
  <2>8. \A i \in 1 .. P : rest(i)' \subseteq rest(i)
    BY <2>3, <2>4, <2>6
  <2>9. ASSUME NEW i \in 1 .. P, NEW j \in 1 .. P, i # j
        PROVE  parts'[i].node # parts'[j].node /\ rest(i)' \cap rest(j)' = {}
    BY <1>4, <1>5, <2>1, <2>8, <2>9
  <2>10. ASSUME NEW h \in 1 .. P, NEW k \in rest(h)
         PROVE  k \in S \/ \E i \in 1 .. P : k \in rest(i)'
    BY <2>3, <2>4, <2>5, <2>6
  <2>11. \A i \in 1 .. P : \E h \in 1 .. P : parts'[i] = parts[h]
    BY <2>1
  <2>12. QED BY <2>1, <2>7, <2>9, <2>10, <2>11 DEF S, P
<1>8. CASE c = 2
  <2>1. c' = 1 /\ Len(parts') = P - 1 /\ \A j \in 1 .. P - 1 : parts'[j] = parts[j + 1]
    BY <1>4, <1>8
  <2>2. rest(1) = S /\ 1 \in 1 .. P
    BY <1>1, <1>2, <1>8
  <2>3. ASSUME NEW i \in 1 .. P - 1
        PROVE  rest(i)' = rest(i + 1) /\ i + 1 \in 1 .. P /\ i + 1 # 1
    <3>1. i + 1 \in 2 .. P /\ i + 1 \in 1 .. P /\ i + 1 # 1 /\ P - 1 # 0
      <4>1. P \in Nat
        BY <1>1
      <4> HIDE DEF P
      <4>2. QED BY <4>1
    <3>2. parts' # <<>> /\ i \in 1 .. Len(parts')
      BY <2>1, <3>1
    <3>3. pending'[i] = parts'[i].node
      BY <3>2 DEF pending
    <3>4. rest(i)' = span'[parts'[i].node]
      BY <2>1, <3>3 DEF rest
    <3>5. span'[parts[i + 1].node] = span[parts[i + 1].node]
      BY <1>3, <1>4, <3>1
    <3>6. rest(i + 1) = span[parts[i + 1].node] /\ parts'[i] = parts[i + 1]
      BY <1>6, <2>1, <3>1
    <3>7. QED BY <3>1, <3>4, <3>5, <3>6
  <2> HIDE DEF S, P, p
  <2>4. ASSUME NEW i \in 1 .. P - 1
        PROVE  S \cap rest(i)' = {} /\ \E h \in 1 .. P : rest(i)' \subseteq rest(h)
    BY <1>5, <2>2, <2>3
  <2>5. ASSUME NEW i \in 1 .. P - 1, NEW j \in 1 .. P - 1, i # j
        PROVE  parts'[i].node # parts'[j].node /\ rest(i)' \cap rest(j)' = {}
    <3>1. i + 1 # j + 1 /\ i + 1 \in 1 .. P /\ j + 1 \in 1 .. P
      BY <1>1, <2>5
    <3>2. QED BY <1>4, <1>5, <2>1, <2>3, <3>1
  <2>6. ASSUME NEW h \in 1 .. P, NEW k \in rest(h)
        PROVE  k \in S \/ \E i \in 1 .. P - 1 : k \in rest(i)'
    <3>1. CASE h = 1
      BY <2>2, <2>6, <3>1
    <3>2. CASE h # 1
      <4>1. h - 1 \in 1 .. P - 1 /\ (h - 1) + 1 = h
        BY <1>1, <3>2
      <4>2. rest(h - 1)' = rest(h)
        BY <2>3, <4>1
      <4>3. QED BY <2>6, <4>1, <4>2
    <3>3. QED BY <3>1, <3>2
  <2>7. \A i \in 1 .. P - 1 : \E h \in 1 .. P : parts'[i] = parts[h]
    BY <2>1, <2>3
  <2>8. QED BY <2>1, <2>4, <2>5, <2>6, <2>7 DEF S, P
<1>9. QED BY <1>4, <1>7, <1>8

(* Every gathered key is in a new treelet or in the part of an open call.  *)
LEMMA ExpandedParts ==
  ASSUME TreeInv, NEW t \in Thread, pc[t] = "expand", Expanded,
         parts' = IF c = 2 THEN Tail(parts) ELSE parts, c' = nextChild, head' = head
  PROVE  /\ \A r \in 1 .. Len(trees') : Linked(r)' =>
              /\ \A i \in 1 .. Len(parts') : span'[r] \cap rest(i)' = {}
              /\ \A k \in trees'[r].items : \E j \in 1 .. Len(v) : v[j] = k
         /\ \A j \in 1 .. Len(v) :
              \/ \E i \in 1 .. Len(parts') : v[j] \in rest(i)'
              \/ \E r \in 1 .. Len(trees') : Linked(r)' /\ v[j] \in trees'[r].items
         /\ v' = v /\ parts' # <<>> /\ todo' = <<>> /\ (\A u \in Thread : pc'[u] # "apply") =>
              BuildInv'
<1> DEFINE P == Len(parts)
           T == Len(trees)
           p == parts[1]
           n1 == bigNode(v, childFirst(p.first, p.len, c), childLen(p.first, p.len, c))
           S == childSpan(p.node, c)
           x == nodes[-p.node].next[c]
<1>1. BuildInv /\ T \in Nat
  BY AtPart, References DEF TreeInv
<1>2. S \in SUBSET Key /\ trees[x].items = {}
  BY AtChild
<1>3. /\ \A i \in 1 .. Len(parts') :
           S \cap rest(i)' = {} /\ \E h \in 1 .. P : rest(i)' \subseteq rest(h)
      /\ \A i, j \in 1 .. Len(parts') : i # j =>
           parts'[i].node # parts'[j].node /\ rest(i)' \cap rest(j)' = {}
      /\ \A h \in 1 .. P : \A k \in rest(h) :
           k \in S \/ \E i \in 1 .. Len(parts') : k \in rest(i)'
      /\ \A i \in 1 .. Len(parts') : \E h \in 1 .. P : parts'[i] = parts[h]
  BY RestLeft
<1>4. /\ \A y : Linked(y)' => y \in Fresh \/ Linked(y)
      /\ \A y : y \in Fresh \/ (Linked(y) /\ y # x) => Linked(y)'
  BY ExpandedShape
<1>5. /\ Len(trees') = T + 2 /\ Fresh \cap Ref = {}
      /\ DOMAIN span' = DOMAIN span \cup Fresh
      /\ \A r \in DOMAIN span : span'[r] = span[r]
      /\ \A i \in 1 .. 2 : span'[T + i] = sent(S, n1.key, i)
      /\ n1.key \in Key \cup {0}
      /\ \A q \in 1 .. T : trees'[q] = trees[q]
  BY Zenon DEF Expanded, Grown
<1>6. \A i \in 1 .. 2 :
        /\ \A k \in trees'[T + i].items : \E j \in 1 .. Len(v) : v[j] = k
        /\ \A j \in 1 .. Len(v) : v[j] \in span'[T + i] => v[j] \in trees'[T + i].items
  BY Zenon DEF Expanded, Grown
<1>7. \A q \in 1 .. T : q \in DOMAIN span /\ q \in Ref
  BY DEF TreeInv, SpanInv
<1>8. /\ \A r \in 1 .. T : Linked(r) =>
           /\ \A i \in 1 .. P : span[r] \cap rest(i) = {}
           /\ \A k \in trees[r].items : \E j \in 1 .. Len(v) : v[j] = k
      /\ \A j \in 1 .. Len(v) :
           \/ \E i \in 1 .. P : v[j] \in rest(i)
           \/ \E r \in 1 .. T : Linked(r) /\ v[j] \in trees[r].items
  BY <1>1, Zenon DEF BuildInv
<1> HIDE DEF S, n1, x, P, p
<1>9. /\ span'[T + 1] \cup span'[T + 2] = S
      /\ span'[T + 1] \subseteq S /\ span'[T + 2] \subseteq S
  <2>1. 1 \in 1 .. 2 /\ 2 \in 1 .. 2
    OBVIOUS
  <2>2. span'[T + 1] = sent(S, n1.key, 1) /\ span'[T + 2] = sent(S, n1.key, 2)
    BY <1>5, <2>1, Zenon
  <2>3. S \in SUBSET Key /\ n1.key \in Key \cup {0}
    BY <1>2, <1>5, Zenon
  <2>4. sent(S, n1.key, 1) \cup sent(S, n1.key, 2) = S
    BY <2>3, SentSplits
  <2>5. QED BY <2>2, <2>4
<1>10. \A r \in {T + 1, T + 2} :
         /\ span'[r] \subseteq S
         /\ \A k \in trees'[r].items : \E j \in 1 .. Len(v) : v[j] = k
         /\ \A j \in 1 .. Len(v) : v[j] \in span'[r] => v[j] \in trees'[r].items
  <2>1. 1 \in 1 .. 2 /\ 2 \in 1 .. 2
    OBVIOUS
  <2>2. QED BY <1>6, <1>9, <2>1, Zenon
<1>11. \A q \in 1 .. T + 2 : q \in 1 .. T \/ q \in {T + 1, T + 2}
  BY <1>1
<1>12. ASSUME NEW r \in 1 .. T + 2, Linked(r)'
       PROVE  /\ \A i \in 1 .. Len(parts') : span'[r] \cap rest(i)' = {}
              /\ \A k \in trees'[r].items : \E j \in 1 .. Len(v) : v[j] = k
  <2>1. CASE r \in 1 .. T
    <3>1. Linked(r) /\ span'[r] = span[r] /\ trees'[r] = trees[r]
      BY <1>4, <1>5, <1>7, <1>12, <2>1
    <3>2. ASSUME NEW i \in 1 .. Len(parts') PROVE span'[r] \cap rest(i)' = {}
      <4>1. PICK h \in 1 .. P : rest(i)' \subseteq rest(h)
        BY <1>3, Zenon
      <4>2. span[r] \cap rest(h) = {}
        BY <1>8, <2>1, <3>1, Zenon
      <4>3. QED BY <3>1, <4>1, <4>2
    <3>3. \A k \in trees'[r].items : \E j \in 1 .. Len(v) : v[j] = k
      BY <1>8, <2>1, <3>1, Zenon
    <3>4. QED BY <3>2, <3>3
  <2>2. CASE r \in {T + 1, T + 2}
    <3>1. ASSUME NEW i \in 1 .. Len(parts') PROVE span'[r] \cap rest(i)' = {}
      <4>1. S \cap rest(i)' = {}
        BY <1>3, Zenon
      <4>2. span'[r] \subseteq S
        BY <1>10, <2>2, Zenon
      <4>3. QED BY <4>1, <4>2
    <3>2. \A k \in trees'[r].items : \E j \in 1 .. Len(v) : v[j] = k
      BY <1>10, <2>2, Zenon
    <3>3. QED BY <3>1, <3>2
  <2>3. QED BY <1>11, <2>1, <2>2, Zenon
<1>13. ASSUME NEW j \in 1 .. Len(v)
       PROVE  \/ \E i \in 1 .. Len(parts') : v[j] \in rest(i)'
              \/ \E r \in 1 .. T + 2 : Linked(r)' /\ v[j] \in trees'[r].items
  <2>1. CASE v[j] \in S
    <3>1. v[j] \in span'[T + 1] \/ v[j] \in span'[T + 2]
      BY <1>9, <2>1
    <3>2. v[j] \in trees'[T + 1].items \/ v[j] \in trees'[T + 2].items
      BY <1>10, <3>1, Zenon
    <3>3. T + 1 \in 1 .. T + 2 /\ T + 2 \in 1 .. T + 2 /\ T + 1 \in Fresh /\ T + 2 \in Fresh
      BY <1>1 DEF Fresh
    <3>4. \A y \in Fresh : Linked(y)'
      BY <1>4
    <3>5. QED BY <3>2, <3>3, <3>4
  <2>2. ASSUME NEW h \in 1 .. P, v[j] \in rest(h), v[j] \notin S
        PROVE  \E i \in 1 .. Len(parts') : v[j] \in rest(i)'
    BY <1>3, <2>2, Zenon
  <2>3. ASSUME NEW r \in 1 .. T, Linked(r), v[j] \in trees[r].items
        PROVE  \E q \in 1 .. T + 2 : Linked(q)' /\ v[j] \in trees'[q].items
    <3>1. r # x
      BY <1>2, <2>3
    <3>2. Linked(r)' /\ trees'[r] = trees[r]
      BY <1>4, <1>5, <2>3, <3>1, Zenon
    <3>3. r \in 1 .. T + 2
      BY <1>1
    <3>4. QED BY <2>3, <3>2, <3>3
  <2>4. QED BY <1>8, <2>1, <2>2, <2>3, Zenon
<1>14. ASSUME v' = v, parts' # <<>>, todo' = <<>>, \A u \in Thread : pc'[u] # "apply"
       PROVE  BuildInv'
  <2>1. \A i \in 1 .. Len(parts') : PartInv(parts[i])'
    <3> SUFFICES ASSUME NEW i \in 1 .. Len(parts') PROVE PartInv(parts[i])'
      OBVIOUS
    <3>1. PICK h \in 1 .. P : parts'[i] = parts[h]
      BY <1>3, Zenon
    <3>2. PartInv(parts[h])
      BY <1>1 DEF BuildInv, P
    <3>3. PartInv(parts'[i])
      BY <3>1, <3>2
    <3>4. parts'[i].node \in DOMAIN span
      BY <3>3 DEF PartInv
    <3>5. parts'[i].node \in DOMAIN span' /\ span'[parts'[i].node] = span[parts'[i].node]
      BY <1>5, <3>4
    <3>6. QED BY <1>14, <3>3, <3>5 DEF PartInv
  <2>2. \A r \in 1 .. Len(trees') : Linked(r)' =>
          /\ \A i \in 1 .. Len(parts') : span'[r] \cap rest(i)' = {}
          /\ \A k \in trees'[r].items : \E j \in 1 .. Len(v') : v'[j] = k
    BY <1>5, <1>12, <1>14
  <2>3. \A j \in 1 .. Len(v') :
          \/ \E i \in 1 .. Len(parts') : v'[j] \in rest(i)'
          \/ \E r \in 1 .. Len(trees') : Linked(r)' /\ v'[j] \in trees'[r].items
    BY <1>5, <1>13, <1>14
  <2>4. QED BY <1>3, <1>14, <2>1, <2>2, <2>3, Zenon DEF BuildInv
<1>15. Len(trees') = T + 2
  BY <1>5
<1>16. QED BY <1>12, <1>13, <1>14, <1>15

LEMMA ExpandStep ==
  ASSUME TreeInv, NEW t \in Thread, expandLeafBigNode(t)
  PROVE  /\ Expanded /\ pc[t] = "expand" /\ changeLayout(t)
         /\ parts' = IF c = 2 THEN Tail(parts) ELSE parts
         /\ c' = nextChild
         /\ v' = IF parts' = <<>> THEN <<>> ELSE v
         /\ pc' = [pc EXCEPT ![t] = IF parts' = <<>> THEN "finish"
                                    ELSE IF c = 2 THEN "build" ELSE "expand"]
         /\ UNCHANGED <<head, sizeVars, countVars, call, cur, side, todo>>
<1> DEFINE p == parts[1]
           f == childFirst(p.first, p.len, c)
           l == childLen(p.first, p.len, c)
<1>1. pc[t] = "expand"
  BY DEF expandLeafBigNode
<1>2. Head(parts) = p
  BY <1>1, AtPart
<1>3. LET q == Head(parts)
          f1 == childFirst(q.first, q.len, c)
          l1 == childLen(q.first, q.len, c)
      IN /\ trees' = trees \o bigNodeTrees(v, f1, l1)
         /\ nodes' = Append(relinked(nodes, -q.node, c, -(Len(nodes) + 1)), bigNode(v, f1, l1))
         /\ span' = withNode(childSpan(q.node, c), bigNode(v, f1, l1))
  BY Zenon DEF expandLeafBigNode, relinked, childSpan
<1>4. /\ trees' = trees \o bigNodeTrees(v, f, l)
      /\ nodes' = Append(relinked(nodes, -p.node, c, -(Len(nodes) + 1)), bigNode(v, f, l))
      /\ span' = withNode(childSpan(p.node, c), bigNode(v, f, l))
  BY <1>2, <1>3, Zenon
<1>5. Expanded
  BY <1>1, <1>4, ExpandChild
<1>6. /\ parts' = IF c = 2 THEN Tail(parts) ELSE parts
      /\ c' = nextChild /\ changeLayout(t)
      /\ v' = IF parts' = <<>> THEN <<>> ELSE v
      /\ pc' = [pc EXCEPT ![t] = IF parts' = <<>> THEN "finish"
                                 ELSE IF c = 2 THEN "build" ELSE "expand"]
  BY DEF expandLeafBigNode, to
<1>7. UNCHANGED <<head, sizeVars, countVars, call, cur, side, todo>>
  BY DEF expandLeafBigNode, walkVars
<1>8. QED BY <1>1, <1>5, <1>6, <1>7

LEMMA DoExpand ==
  ASSUME LockInv, TreeInv, LockInv', NEW t \in Thread, expandLeafBigNode(t)
  PROVE  TreeInv'
<1>1. TreeTypeOK /\ ControlInv(t) /\ CallInv(t) /\ WalkInv(t)
  BY DEF TreeInv
<1>2. /\ Expanded /\ pc[t] = "expand" /\ changeLayout(t)
      /\ parts' = IF c = 2 THEN Tail(parts) ELSE parts
      /\ c' = nextChild
      /\ v' = IF parts' = <<>> THEN <<>> ELSE v
      /\ pc' = [pc EXCEPT ![t] = IF parts' = <<>> THEN "finish"
                                 ELSE IF c = 2 THEN "build" ELSE "expand"]
      /\ UNCHANGED <<head, sizeVars, countVars, call, cur, side, todo>>
  BY ExpandStep
<1>3. /\ lpc[t] = "change" /\ lpc' = lpc /\ \A u \in Thread : lpc[u] = "read" => stale'[u]
  BY <1>1, <1>2, ChangeStale DEF TreeTypeOK
<1>4. /\ \A u \in Thread : pc[u] # "apply"
      /\ todo = <<>> /\ Len(parts) \in Nat \ {0} /\ -parts[1].node \in 1 .. Len(nodes)
      /\ v \in Seq(Key) /\ Increasing(v) /\ Node(parts[1].node) = nodes[-parts[1].node]
  BY <1>2, AtPart
<1>5. /\ c = 1 => c' = 2 /\ parts' = parts
      /\ c = 2 => c' = 1
      /\ c = 1 \/ c = 2
      /\ parts' \in Seq([node : Ref, first : Nat, len : Nat])
  BY <1>2, PartsLeft
<1>6. /\ pc'[t] = IF parts' = <<>> THEN "finish" ELSE IF c = 2 THEN "build" ELSE "expand"
      /\ pc' \in [Thread -> Place]
      /\ \A u \in Thread \ {t} : pc'[u] = pc[u]
      /\ \A u \in Thread : pc'[u] # "apply"
  <2>1. pc \in [Thread -> Place]
    BY <1>1 DEF TreeTypeOK
  <2> DEFINE place == IF parts' = <<>> THEN "finish" ELSE IF c = 2 THEN "build" ELSE "expand"
  <2>2. place \in Place /\ place # "apply" /\ pc' = [pc EXCEPT ![t] = place]
    BY <1>2 DEF Place, Owning
  <2> HIDE DEF place
  <2>3. pc'[t] = place /\ pc' \in [Thread -> Place] /\ \A u \in Thread \ {t} : pc'[u] = pc[u]
    BY <2>1, <2>2
  <2>4. QED BY <1>4, <2>2, <2>3 DEF place
<1>7. /\ Ref' = Ref \cup Fresh /\ Len(trees') = Len(trees) + 2
      /\ nodes' \in Seq(NodeOf(Ref'))
      /\ trees' \in Seq([lock : Thread \cup {0}, items : SUBSET Key])
      /\ \A q \in 1 .. Len(trees) : trees'[q] = trees[q]
  BY <1>2, Zenon DEF Expanded, Grown
<1>8. ShapeInv'
  BY <1>2, ExpandedShape
<1>9. SpanInv' /\ LinkInv' /\ NoGap'
  BY <1>2, ExpandedTree
<1>10. v' = v /\ parts' # <<>> /\ todo' = <<>> /\ (\A u \in Thread : pc'[u] # "apply") =>
         BuildInv'
  BY <1>2, ExpandedParts
<1>11. parts' # <<>> => BuildInv' /\ v' = v
  BY <1>2, <1>4, <1>6, <1>10
<1>12. c = 1 => ExpandInv' /\ parts' # <<>>
  <2> SUFFICES ASSUME c = 1 PROVE ExpandInv' /\ parts' # <<>>
    OBVIOUS
  <2> DEFINE p == parts[1]
             n0 == -p.node
  <2>1. parts' = parts /\ c' = 2 /\ parts' # <<>> /\ v' = v
    BY <1>2, <1>4, <1>5
  <2>2. /\ nodes[n0].key = bigNodeKey(v, p.first, p.len)
        /\ ~IsNode(nodes[n0].next[2])
    BY <1>2, <1>4 DEF TreeInv, ChangeInv, OwnerInv, ExpandInv
  <2>3. /\ nodes'[n0].key = nodes[n0].key
        /\ nodes'[n0].next[1] = -(Len(nodes) + 1)
        /\ nodes'[n0].next[2] = nodes[n0].next[2]
    <3>1. /\ \A m \in 1 .. Len(nodes) : nodes'[m].key = nodes[m].key
          /\ \A m \in 1 .. Len(nodes), j \in 1 .. 2 :
               nodes'[m].next[j] =
                 IF m = n0 /\ j = c THEN -(Len(nodes) + 1) ELSE nodes[m].next[j]
      BY <1>2, Zenon DEF Expanded
    <3>2. 1 \in 1 .. 2 /\ 2 \in 1 .. 2 /\ 2 # c /\ 1 = c
      OBVIOUS
    <3> HIDE DEF n0
    <3>3. QED BY <1>4, <3>1, <3>2 DEF n0
  <2>4. IsNode(nodes'[n0].next[1])
    <3>1. Len(nodes) \in Nat
      BY <1>1, References
    <3>2. QED BY <2>3, <3>1 DEF IsNode
  <2>5. p' = p
    BY <2>1
  <2>6. QED BY <2>1, <2>2, <2>3, <2>4, <2>5 DEF ExpandInv, isLeaf, Node, IsNode
<1>13. TreeTypeOK'
  <2>1. cur' \in [Thread -> Ref' \cup {0}] /\ head' \in Ref' \ {NULL_TREE}
    BY <1>1, <1>2, <1>7 DEF TreeTypeOK
  <2>2. v' \in Seq(Key) /\ c' \in 1 .. 2 /\ todo' \in Seq(Ref')
    BY <1>2, <1>4, <1>5
  <2>3. parts' \in Seq([node : Ref', first : Nat, len : Nat])
    <3> DEFINE R == [node : Ref, first : Nat, len : Nat]
               R2 == [node : Ref', first : Nat, len : Nat]
    <3>1. parts' \in Seq(R) /\ \A e \in R : e \in R2
      BY <1>5, <1>7
    <3> HIDE DEF R, R2
    <3>2. Len(parts') \in Nat /\ parts' \in [1 .. Len(parts') -> R]
      BY <3>1, LenProperties
    <3>3. parts' \in [1 .. Len(parts') -> R2]
      BY <3>1, <3>2
    <3>4. parts' \in Seq(R2)
      BY <3>2, <3>3, IsASeq
    <3>5. QED BY <3>4 DEF R2
  <2>4. /\ nodes' \in Seq([key : Key \cup {0}, next : [1 .. 2 -> Ref']])
        /\ trees' \in Seq([lock : Thread \cup {0}, items : SUBSET Key])
        /\ pc' \in [Thread -> Place]
    BY <1>6, <1>7 DEF NodeOf
  <2>5. /\ side' \in [Thread -> 1 .. 2] /\ heuristic' \in [Thread -> Int]
        /\ sz' \in [Thread -> Int] /\ limit' \in [Thread -> Int]
        /\ {fuzzySize', enlargeWhen', shrinkWhen', backboneSize'} \subseteq Int
        /\ call' \in [Thread -> Call] /\ LockTypeOK'
    BY <1>1, <1>2 DEF TreeTypeOK, LockInv, sizeVars, countVars, Call
  <2>6. QED BY <2>1, <2>2, <2>3, <2>4, <2>5 DEF TreeTypeOK, Call
<1>14. pc'[t] \in {"finish", "build", "expand"}
  BY <1>6
<1>15. ControlInv(t)' /\ CallInv(t)' /\ WalkInv(t)'
  <2>1. ControlInv(t)' /\ CallInv(t)'
    BY <1>1, <1>2, <1>3, <1>14 DEF ControlInv, CallInv, Before, Owning
  <2>2. QED BY <1>3, <1>14, <2>1 DEF WalkInv
<1>16. ASSUME NEW u \in Thread \ {t} PROVE ControlInv(u)' /\ CallInv(u)' /\ WalkInv(u)'
  <2>1. Aside(t, u)
    BY <1>2, <1>3, <1>6, <1>7 DEF Aside
  <2>2. pc[u] # "apply"
    BY <1>4
  <2>3. Ref \subseteq Ref' /\ Len(trees) <= Len(trees') /\ Len(trees') \in Nat
    BY <1>1, <1>7, References
  <2>4. QED BY <1>3, <2>1, <2>2, <2>3, OthersDuringChange
<1>17. OwnerInv(t)'
  <2>1. CASE parts' = <<>>
    BY <1>6, <2>1 DEF OwnerInv
  <2>2. CASE parts' # <<>> /\ c = 2
    <3>1. pc'[t] = "build" /\ c' = 1 /\ BuildInv'
      BY <1>5, <1>6, <1>11, <2>2
    <3>2. QED BY <3>1 DEF OwnerInv
  <2>3. CASE c = 1
    <3>1. pc'[t] = "expand" /\ BuildInv' /\ ExpandInv'
      BY <1>6, <1>11, <1>12, <2>3
    <3>2. QED BY <3>1 DEF OwnerInv
  <2>4. QED BY <1>5, <2>1, <2>2, <2>3
<1>18. \A u \in Thread : OwnerInv(u)'
  BY <1>3, <1>6, <1>17, OwnerStep
<1>19. RestInv'
  <2>1. /\ ~Gathering' /\ (Building' <=> pc'[t] \in {"build", "expand"})
    BY <1>3, <1>6, <1>14, OwnerStep
  <2>2. ~Building' => parts' = <<>> /\ v' = <<>> /\ c' = 1
    <3> SUFFICES ASSUME ~Building' PROVE parts' = <<>> /\ v' = <<>> /\ c' = 1
      OBVIOUS
    <3>1. parts' = <<>>
      BY <1>6, <2>1
    <3>2. c = 2
      BY <1>5, <1>12, <3>1
    <3>3. QED BY <1>2, <1>5, <3>1, <3>2
  <2>3. QED BY <1>2, <1>4, <1>9, <2>1, <2>2 DEF RestInv
<1>20. Increasing(v)'
  <2>1. CASE parts' = <<>>
    BY <1>2, <2>1 DEF Increasing
  <2>2. CASE parts' # <<>>
    BY <1>4, <1>11, <2>2 DEF Increasing
  <2>3. QED BY <2>1, <2>2
<1>21. QED
  BY <1>8, <1>9, <1>13, <1>15, <1>16, <1>18, <1>19, <1>20 DEF TreeInv, ChangeInv

-----------------------------------------------------------------------------
(* The invariant                                                           *)

(* A new tree is one treelet without keys.                                 *)
LEMMA TreeInvInit == Init => LockInv /\ TreeInv
<1> SUFFICES ASSUME Init PROVE LockInv /\ TreeInv
  OBVIOUS
<1>1. LockInv /\ LockTypeOK
  BY LockInvInit DEF Init, LockInv
<1>2. /\ head = 2 /\ nodes = <<>> /\ Len(nodes) = 0
      /\ trees = <<Treelet({}), Treelet({})>> /\ Len(trees) = 2
      /\ v = <<>> /\ c = 1 /\ todo = <<>> /\ parts = <<>>
      /\ span = [r \in 1 .. 2 |-> IF r = 2 THEN Key ELSE {}]
      /\ \A t \in Thread : lpc[t] = "out" /\ pc[t] = "idle" /\ call[t] = Idle
  BY DEF Init, LockInit
<1>3. Ref = 1 .. 2
  <2>1. {-n : n \in 1 .. Len(nodes)} = {}
    BY <1>2
  <2>2. QED BY <1>2, <2>1 DEF Ref
<1>4. \A r \in 1 .. 2 : trees[r] = [lock |-> 0, items |-> {}]
  <2>1. trees[1] = Treelet({}) /\ trees[2] = Treelet({})
    BY <1>2
  <2>2. \A r \in 1 .. 2 : r = 1 \/ r = 2
    OBVIOUS
  <2>3. QED BY <2>1, <2>2, Zenon DEF Treelet
<1>5. trees \in Seq([lock : Thread \cup {0}, items : SUBSET Key])
  <2>1. Treelet({}) \in [lock : Thread \cup {0}, items : SUBSET Key]
    BY DEF Treelet
  <2>2. QED BY <1>2, <2>1
<1>6. TreeTypeOK
  <2>1. /\ head \in Ref \ {NULL_TREE}
        /\ nodes \in Seq([key : Key \cup {0}, next : [1 .. 2 -> Ref]])
        /\ v \in Seq(Key) /\ c \in 1 .. 2 /\ todo \in Seq(Ref)
        /\ parts \in Seq([node : Ref, first : Nat, len : Nat])
    BY <1>2, <1>3 DEF NULL_TREE
  <2>2. /\ pc \in [Thread -> Place]
        /\ cur \in [Thread -> Ref \cup {0}] /\ side \in [Thread -> 1 .. 2]
        /\ heuristic \in [Thread -> Int]
        /\ sz \in [Thread -> Int] /\ limit \in [Thread -> Int]
    BY DEF Init, Place
  <2>3. call \in [Thread -> [op : {"search", "insert", "remove"}, key : Key,
                             res : {"none", "true", "false"}] \cup {Idle}]
    <3>1. call = [t \in Thread |-> Idle]
      BY DEF Init
    <3>2. QED BY <3>1
  <2>4. {fuzzySize, enlargeWhen, shrinkWhen, backboneSize} \subseteq Int
    BY TreeAssumption DEF Init
  <2>5. QED BY <1>1, <1>5, <2>1, <2>2, <2>3, <2>4 DEF TreeTypeOK
<1>7. ASSUME NEW t \in Thread PROVE ControlInv(t) /\ CallInv(t) /\ WalkInv(t) /\ OwnerInv(t)
  <2>1. ControlInv(t) /\ CallInv(t)
    BY <1>2 DEF ControlInv, CallInv, Before, Owning
  <2>2. WalkInv(t)
    BY <1>2 DEF WalkInv, Owning
  <2>3. OwnerInv(t)
    BY <1>2 DEF OwnerInv
  <2>4. QED BY <2>1, <2>2, <2>3
<1>8. ShapeInv /\ LinkInv /\ NoGap
  BY <1>2 DEF ShapeInv, LinkInv, NoGap
<1>9. SpanInv
  <2>1. \A r : Linked(r) <=> r = 2
    BY <1>2 DEF Linked
  <2>2. \A r \in 1 .. 2 : trees[r].items \subseteq span[r] /\ IsFiniteSet(trees[r].items)
    BY <1>4, FS_EmptySet
  <2>3. QED BY <1>2, <1>3, <2>1, <2>2 DEF SpanInv, NULL_TREE
<1>10. ChangeInv
  <2>1. Increasing(v)
    BY <1>2 DEF Increasing
  <2>2. RestInv
    BY <1>2, <1>8 DEF RestInv
  <2>3. QED BY <1>7, <2>1, <2>2 DEF ChangeInv
<1>11. QED BY <1>1, <1>6, <1>7, <1>8, <1>9, <1>10 DEF TreeInv

LEMMA TreeStep ==
  ASSUME LockInv, TreeInv, NEW t \in Thread, Step(t)
  PROVE  LockInv' /\ TreeInv'
<1>1. LockInv'
  BY StepKeepsLock
<1>2. CASE LockStep(t)
  BY <1>1, <1>2, DoLockStep
<1>3. CASE LoadHead(t)
  BY <1>1, <1>3, DoLoadHead
<1>4. CASE LoadKey(t)
  BY <1>1, <1>4, DoLoadKey
<1>5. CASE LoadNext(t)
  BY <1>1, <1>5, DoLoadNext
<1>6. CASE Acquire(t)
  BY <1>1, <1>6, DoAcquire
<1>7. CASE Check(t)
  BY <1>1, <1>7, DoCheck
<1>8. CASE GiveUp(t)
  BY <1>1, <1>8, DoGiveUp
<1>9. CASE Apply(t)
  BY <1>1, <1>9, DoApply
<1>10. CASE FlushCount(t)
  BY <1>1, <1>10, DoFlushCount
<1>11. CASE LoadLimit(t)
  BY <1>1, <1>11, DoLoadLimit
<1>12. CASE CheckLimit(t)
  BY <1>1, <1>12, DoCheckLimit
<1>13. CASE Decide(t)
  BY <1>1, <1>13, DoDecide
<1>14. CASE ResetCount(t)
  BY <1>1, <1>14, DoResetCount
<1>15. CASE Return(t)
  BY <1>1, <1>15, DoReturn
<1>16. CASE StartChange(t)
  BY <1>1, <1>16, DoStartChange
<1>17. CASE GiveUpChange(t) \/ FinishChange(t)
  BY <1>1, <1>17, DoEndChange
<1>18. CASE enlarge_tree(t)
  BY <1>1, <1>18, DoEnlarge
<1>19. CASE shrink_tree(t)
  BY <1>1, <1>19, DoShrink
<1>20. CASE GatherChildren(t)
  BY <1>1, <1>20, DoGatherChildren
<1>21. CASE GatherAcquire(t)
  BY <1>1, <1>21, DoGatherAcquire
<1>22. CASE NewRoot(t)
  BY <1>1, <1>22, DoNewRoot
<1>23. CASE GatherTake(t)
  BY <1>1, <1>23, DoGatherTake
<1>24. CASE FreeRoot(t)
  BY <1>1, <1>24, DoFreeRoot
<1>25. CASE FreeTreelet(t)
  BY <1>1, <1>25, DoFreeTreelet
<1>26. CASE BuildKey(t)
  BY <1>1, <1>26, DoBuildKey
<1>27. CASE expandLeafBigNode(t)
  BY <1>1, <1>27, DoExpand
<1>28. QED
  BY <1>1, <1>2, <1>3, <1>4, <1>5, <1>6, <1>7, <1>8, <1>9, <1>10, <1>11, <1>12, <1>13,
     <1>14, <1>15, <1>16, <1>17, <1>18, <1>19, <1>20, <1>21, <1>22, <1>23, <1>24, <1>25,
     <1>26, <1>27, Zenon
  DEF Step

LEMMA Stutter ==
  ASSUME LockInv, TreeInv, UNCHANGED vars
  PROVE  LockInv' /\ TreeInv'
<1> USE DEF vars, allLockVars, lockVars, treeVars, sizeVars, walkVars, countVars, changeVars
<1>1. LockInv'
  <2>1. UNCHANGED lockVars /\ calls' = calls
    BY DEF vars
  <2>2. calls' \in [Thread -> Nat]
    BY <2>1 DEF LockInv, LockTypeOK
  <2>3. QED BY <2>1, <2>2, CallsOnly
<1>2. Ref' = Ref /\ TreeTypeOK'
  BY <1>1 DEF TreeInv, TreeTypeOK, Ref, LockInv
<1>3. UNCHANGED shapeVars /\ Len(trees') = Len(trees)
  BY DEF shapeVars
<1>4. ASSUME NEW t \in Thread PROVE ControlInv(t)' /\ CallInv(t)' /\ WalkInv(t)'
  <2>1. ControlInv(t) /\ CallInv(t) /\ WalkInv(t)
    BY DEF TreeInv
  <2>2. ControlInv(t)' /\ CallInv(t)'
    BY <2>1 DEF ControlInv, CallInv
  <2>3. WalkInv(t)'
    BY <1>2, <2>1 DEF WalkInv, Linked, childSpan, Node
  <2>4. QED BY <2>2, <2>3
<1>5. SameItems
  BY DEF SameItems
<1>6. ShapeInv' /\ SpanInv' /\ LinkInv' /\ ChangeInv'
  <2>1. ItemsOK
    BY <1>5 DEF ItemsOK
  <2>2. pc' = pc /\ cur' = cur
    OBVIOUS
  <2>3. QED BY <1>3, <2>1, <2>2, QuietTree
<1>7. QED BY <1>1, <1>2, <1>4, <1>6 DEF TreeInv

(* TreeInv holds throughout: however many threads call the tree, however   *)
(* often enlarge_tree rebuilds the backbone under them, the spans a reader *)
(* follows are right until its dirty flag is set, and the owner of a       *)
(* change has every key either in a linked treelet or in v.                *)
THEOREM TreeInductive == Spec => [](LockInv /\ TreeInv)
<1>1. LockInv /\ TreeInv /\ [Next]_vars => (LockInv /\ TreeInv)'
  <2> SUFFICES ASSUME LockInv, TreeInv, [Next]_vars PROVE (LockInv /\ TreeInv)'
    OBVIOUS
  <2>1. CASE UNCHANGED vars
    BY <2>1, Stutter
  <2>2. ASSUME NEW t \in Thread, Step(t) PROVE (LockInv /\ TreeInv)'
    BY <2>2, TreeStep
  <2>3. ASSUME NEW t \in Thread, NEW op \in {"search", "insert", "remove"}, NEW k \in Key,
               Invoke(t, op, k)
        PROVE  (LockInv /\ TreeInv)'
    BY <2>3, InvokeKeepsLock, DoInvoke
  <2>4. QED BY <2>1, <2>2, <2>3 DEF Next
<1>2. QED BY <1>1, TreeInvInit, PTL DEF Spec

(* References lead to allocated nodes and treelets, treelet locks belong   *)
(* to threads and every field of LayoutTree stays in its domain.           *)
THEOREM TreeTypes == Spec => []TreeTypeOK
  BY TreeInductive, PTL DEF TreeInv

-----------------------------------------------------------------------------
(* The tree as a set of keys                                               *)

(* Key k is in the tree.                                                   *)
Has(k) ==
  \/ \E r \in 1 .. Len(trees) : Linked(r) /\ k \in trees[r].items
  \/ \E j \in 1 .. Len(v) : v[j] = k

LEMMA ContentsHas ==
  (\A k : k \in Contents <=> Has(k)) /\ (\A k : k \in Contents' <=> Has(k)')
<1>1. \A k : k \in Contents <=> Has(k)
  BY DEF Contents, Has
<1>2. \A k : k \in Contents' <=> Has(k)'
  BY DEF Contents, Has
<1>3. QED BY <1>1, <1>2

LEMMA SameKeys ==
  ASSUME \A k : Has(k)' <=> Has(k)
  PROVE  Contents' = Contents
  BY ContentsHas

(* The linked treelets keep their items.                                   *)
LEMMA SameLinked ==
  ASSUME v' = v, Len(trees') = Len(trees), \A r : Linked(r)' <=> Linked(r),
         \A r \in 1 .. Len(trees) : Linked(r) => trees'[r].items = trees[r].items
  PROVE  Contents' = Contents
<1>1. \A k : Has(k)' <=> Has(k)
  BY DEF Has
<1>2. QED BY <1>1, SameKeys

LEMMA TreeAlone ==
  ASSUME UNCHANGED <<treeVars, v>>
  PROVE  Contents' = Contents
<1>1. \A r : Linked(r)' <=> Linked(r)
  BY DEF Linked, treeVars
<1>2. QED BY <1>1, SameLinked DEF treeVars

LEMMA LocksOnly ==
  ASSUME TreeTypeOK, UNCHANGED <<head, nodes, v>>,
         NEW r \in 1 .. Len(trees), NEW l \in Thread \cup {0},
         trees' = [trees EXCEPT ![r].lock = l]
  PROVE  Contents' = Contents
<1>1. Len(trees') = Len(trees) /\ SameItems
  BY SetLock
<1>2. \A q : Linked(q)' <=> Linked(q)
  BY DEF Linked
<1>3. QED BY <1>1, <1>2, SameLinked DEF SameItems

(* A treelet that is freed is not linked, or it is NULL_TREE.              *)
LEMMA FreedUnlinked ==
  ASSUME TreeInv, NEW t \in Thread, pc[t] \in {"free", "freeroot"}, destroyed(t),
         UNCHANGED <<head, nodes, v>>
  PROVE  Contents' = Contents
<1>1. /\ Len(trees') = Len(trees) /\ cur[t] \in 1 .. Len(trees)
      /\ \A q \in 1 .. Len(trees) : q # cur[t] => trees'[q] = trees[q]
      /\ trees'[cur[t]].items \subseteq trees[cur[t]].items
  BY Destroyed
<1>2. cur[t] = NULL_TREE \/ ~Linked(cur[t])
  BY DEF TreeInv, WalkInv
<1>3. cur[t] = NULL_TREE => trees[cur[t]].items = {}
  BY <1>1 DEF TreeInv, SpanInv
<1>4. \A r \in 1 .. Len(trees) : Linked(r) => trees'[r].items = trees[r].items
  BY <1>1, <1>2, <1>3
<1>5. \A r : Linked(r)' <=> Linked(r)
  BY DEF Linked
<1>6. QED BY <1>1, <1>4, <1>5, SameLinked

(* gatherAll moves the keys of a treelet to v.                             *)
LEMMA TakenKeys ==
  ASSUME LockInv, TreeInv, NEW t \in Thread, GatherTake(t)
  PROVE  Contents' = Contents
<1>1. /\ UNCHANGED <<head, trees, span, parts, cur>> /\ pc[t] = "take" /\ IsNode(head)
      /\ nodes' = relinked(nodes, -Head(todo), c, NULL_TREE) /\ c' = nextChild
      /\ todo' = IF c = 2 THEN Tail(todo) ELSE todo
      /\ v' = v \o InOrder(trees[cur[t]].items)
  BY DEF GatherTake, walkVars, relinked
<1>2. \A k : (\E j \in 1 .. Len(v') : v'[j] = k) <=>
               (\E j \in 1 .. Len(v) : v[j] = k) \/ k \in trees[cur[t]].items
  BY <1>1, GatherGoesOn
<1>3. /\ \A x : Linked(x)' => Linked(x) \/ x = NULL_TREE
      /\ \A x : Linked(x) /\ x # cur[t] => Linked(x)'
  BY <1>1, TakenOut
<1>4. cur[t] \in 1 .. Len(trees) /\ Linked(cur[t])
  <2>1. cur[t] = victim
    BY <1>1 DEF TreeInv, ChangeInv, OwnerInv
  <2>2. QED BY <1>1, <2>1, VictimLinked DEF TreeInv, ChangeInv, OwnerInv
<1>5. trees[NULL_TREE].items = {}
  <2>1. 1 \in 1 .. Len(trees)
    BY <1>4
  <2>2. QED BY <2>1 DEF TreeInv, SpanInv, NULL_TREE
<1>6. \A k : Has(k)' <=> Has(k)
  BY <1>1, <1>2, <1>3, <1>4, <1>5 DEF Has
<1>7. QED BY <1>6, SameKeys

(* The first change moves the keys of the only treelet to two new ones.    *)
LEMMA RootKeys ==
  ASSUME LockInv, TreeInv, NEW t \in Thread, NewRoot(t)
  PROVE  Contents' = Contents
<1> DEFINE s == InOrder(trees[head].items)
<1>1. /\ UNCHANGED <<v, c, todo, parts>> /\ pc[t] = "take" /\ ~IsNode(head)
      /\ nodes' = Append(nodes, bigNode(s, 0, Len(s)))
      /\ trees' = trees \o bigNodeTrees(s, 0, Len(s))
      /\ head' = -(Len(nodes) + 1) /\ span' = withNode(Key, bigNode(s, 0, Len(s)))
  BY DEF NewRoot
<1> HIDE DEF s
<1>2. lpc[t] = "change"
  BY <1>1, OwnerInChange DEF Owning
<1>3. \A u \in Thread \ {t} : pc[u] \notin Working
  <2>1. ASSUME NEW u \in Thread \ {t}, pc[u] \in Working PROVE FALSE
    <3>1. lpc[u] = "change"
      BY <2>1, OwnerInChange DEF Owning, Working
    <3>2. QED BY <1>2, <3>1, OneOwner
  <2>2. QED BY <2>1
<1>4. /\ v = <<>> /\ head \in 1 .. Len(trees)
      /\ \A x \in 1 .. Len(trees) : Linked(x) /\ x # head => span[x] = {}
      /\ UNION {trees'[r].items : r \in {q \in 1 .. Len(trees') : Linked(q)'}}
           = trees[head].items
  BY <1>1, <1>3, RootMade DEF s
<1>5. \A k : Has(k) <=> k \in trees[head].items
  <2>1. Linked(head)
    BY DEF Linked
  <2>2. \A x \in 1 .. Len(trees) : Linked(x) /\ x # head => trees[x].items = {}
    BY <1>4 DEF TreeInv, SpanInv
  <2>3. QED BY <1>4, <2>1, <2>2 DEF Has
<1>6. \A k : Has(k)' <=> k \in trees[head].items
  <2>1. \A k : (\E r \in 1 .. Len(trees') : Linked(r)' /\ k \in trees'[r].items)
                 <=> k \in trees[head].items
    BY <1>4
  <2>2. v' = <<>>
    BY <1>1, <1>4
  <2>3. QED BY <2>1, <2>2 DEF Has
<1>7. QED BY <1>5, <1>6, SameKeys

(* expandLeafBigNode puts keys of v into new treelets; they stay in v      *)
(* until the last of them has been placed.                                 *)
LEMMA ExpandedKeys ==
  ASSUME LockInv, TreeInv, NEW t \in Thread, expandLeafBigNode(t)
  PROVE  Contents' = Contents
<1>1. /\ Expanded /\ pc[t] = "expand" /\ head' = head
      /\ parts' = IF c = 2 THEN Tail(parts) ELSE parts
      /\ c' = nextChild /\ v' = IF parts' = <<>> THEN <<>> ELSE v
  BY ExpandStep
<1>2. /\ \A r \in 1 .. Len(trees') : Linked(r)' =>
           \A k \in trees'[r].items : \E j \in 1 .. Len(v) : v[j] = k
      /\ \A j \in 1 .. Len(v) :
           \/ \E i \in 1 .. Len(parts') : v[j] \in rest(i)'
           \/ \E r \in 1 .. Len(trees') : Linked(r)' /\ v[j] \in trees'[r].items
  BY <1>1, ExpandedParts
<1>3. \A r \in 1 .. Len(trees) : Linked(r) =>
        \A k \in trees[r].items : \E j \in 1 .. Len(v) : v[j] = k
  <2>1. BuildInv
    BY <1>1, AtPart
  <2>2. QED BY <2>1 DEF BuildInv
<1>4. \A k : Has(k) <=> \E j \in 1 .. Len(v) : v[j] = k
  BY <1>3 DEF Has
<1>5. \A k : Has(k)' <=> \E j \in 1 .. Len(v) : v[j] = k
  <2>1. CASE parts' = <<>>
    <3>1. ~\E j \in 1 .. Len(v') : TRUE
      BY <1>1, <2>1
    <3>2. ~\E i \in 1 .. Len(parts') : TRUE
      BY <2>1
    <3>3. \A j \in 1 .. Len(v) : \E r \in 1 .. Len(trees') :
            Linked(r)' /\ v[j] \in trees'[r].items
      BY <1>2, <3>2, Zenon
    <3>4. QED BY <1>2, <3>1, <3>3, Zenon DEF Has
  <2>2. CASE parts' # <<>>
    <3>1. v' = v
      BY <1>1, <2>2
    <3>2. QED BY <1>2, <3>1 DEF Has
  <2>3. QED BY <2>1, <2>2
<1>6. QED BY <1>4, <1>5, SameKeys

(* The key of a validated call is in its treelet or nowhere.               *)
LEMMA OnlyThere ==
  ASSUME TreeInv, NEW t \in Thread, pc[t] = "apply"
  PROVE  /\ cur[t] \in 1 .. Len(trees) /\ Linked(cur[t])
         /\ call[t].op \in {"search", "insert", "remove"} /\ call[t].res = "none"
         /\ call[t].key \in Key /\ call[t] # Idle
         /\ \A q \in 1 .. Len(trees) :
              Linked(q) /\ q # cur[t] => call[t].key \notin trees[q].items
         /\ \A j \in 1 .. Len(v) : v[j] # call[t].key
<1> DEFINE r == cur[t]
           k == call[t].key
<1>1. /\ TreeTypeOK /\ WalkInv(t) /\ CallInv(t) /\ SpanInv /\ RestInv
      /\ \A u \in Thread : OwnerInv(u)
  BY DEF TreeInv, ChangeInv
<1>2. /\ r \in 1 .. Len(trees) /\ Linked(r) /\ r \in DOMAIN span /\ k \in span[r]
      /\ call[t] # Idle /\ call[t].res = "none"
  BY <1>1 DEF WalkInv, CallInv, Before
<1>3. call[t].op \in {"search", "insert", "remove"} /\ k \in Key
  BY <1>1, <1>2 DEF TreeTypeOK
<1>4. \A q \in 1 .. Len(trees) : Linked(q) /\ q # r => k \notin trees[q].items
  BY <1>1, <1>2 DEF SpanInv
<1>5. ~Building
  BY <1>1 DEF Building, OwnerInv, BuildInv
<1>6. \A j \in 1 .. Len(v) : v[j] # k
  <2>1. CASE Gathering
    <3>1. GatherInv
      BY <1>1, <2>1 DEF Gathering, OwnerInv
    <3>2. PICK i \in 1 .. Len(todo) : k \in rest(i)
      BY <1>2, <3>1 DEF GatherInv
    <3>3. \A j \in 1 .. Len(v) : v[j] < k
      BY <3>1, <3>2 DEF GatherInv
    <3>4. k \in Int
      BY <1>3, Keys
    <3>5. QED BY <3>3, <3>4
  <2>2. CASE ~Gathering
    BY <1>1, <1>5, <2>2 DEF RestInv
  <2>3. QED BY <2>1, <2>2
<1>7. QED BY <1>2, <1>3, <1>4, <1>6

(* A call takes effect on the set when it changes the treelet.             *)
LEMMA AppliedKeys ==
  ASSUME TreeInv, NEW t \in Thread, Apply(t)
  PROVE  Set!TakeEffect(t)
<1> DEFINE r == cur[t]
           k == call[t].key
           op == call[t].op
           items == trees[r].items
           new == Updated(op, k, items)
<1>1. /\ r \in 1 .. Len(trees) /\ Linked(r)
      /\ op \in {"search", "insert", "remove"} /\ call[t].res = "none" /\ k \in Key
      /\ \A q \in 1 .. Len(trees) : Linked(q) /\ q # r => k \notin trees[q].items
      /\ \A j \in 1 .. Len(v) : v[j] # k
  BY OnlyThere DEF Apply
<1>2. /\ UNCHANGED <<head, nodes, v>>
      /\ trees' = [trees EXCEPT ![r] = Treelet(new)]
      /\ call' = [call EXCEPT ![t].res = IF Result(op, k, items) THEN "true" ELSE "false"]
  BY DEF Apply, changeVars
<1>3. /\ TreeTypeOK /\ items \subseteq Key
  BY <1>1, TreeletType DEF TreeInv
<1>4. /\ new = CASE op = "insert" -> items \cup {k}
                 [] op = "remove" -> items \ {k}
                 [] op = "search" -> items
  BY DEF Updated
<1> HIDE DEF new
<1>5. Treelet(new) \in [lock : Thread \cup {0}, items : SUBSET Key] /\ Treelet(new).items = new
  BY <1>1, <1>3, <1>4 DEF Treelet
<1>6. /\ Len(trees') = Len(trees) /\ trees'[r].items = new
      /\ \A q \in 1 .. Len(trees) : q # r => trees'[q] = trees[q]
  BY <1>1, <1>2, <1>3, <1>5, SetTreelet
<1>7. \A q : Linked(q)' <=> Linked(q)
  BY <1>2 DEF Linked
<1>8. \A x : x = k => (Has(x) <=> x \in items)
  BY <1>1 DEF Has
<1>9. \A x : x = k => (Has(x)' <=> x \in new)
  BY <1>1, <1>2, <1>6, <1>7 DEF Has
<1>10. ASSUME NEW x, x # k PROVE Has(x)' <=> Has(x)
  <2>1. x \in new <=> x \in items
    BY <1>1, <1>4, <1>10
  <2>2. \A q \in 1 .. Len(trees) : x \in trees'[q].items <=> x \in trees[q].items
    BY <1>6, <2>1
  <2>3. QED BY <1>2, <1>6, <1>7, <2>2 DEF Has
<1>11. /\ k \in Contents <=> k \in items
       /\ k \in Contents' <=> k \in new
       /\ \A x : x # k => (x \in Contents' <=> x \in Contents)
  BY <1>8, <1>9, <1>10, ContentsHas
<1>12. Contents' = CASE op = "insert" -> Contents \cup {k}
                     [] op = "remove" -> Contents \ {k}
                     [] op = "search" -> Contents
  <2>1. CASE op = "insert"
    <3>1. k \in new
      BY <1>4, <2>1
    <3>2. QED BY <1>11, <2>1, <3>1
  <2>2. CASE op = "remove"
    <3>1. k \notin new
      BY <1>4, <2>2
    <3>2. QED BY <1>11, <2>2, <3>1
  <2>3. CASE op = "search"
    <3>1. new = items
      BY <1>4, <2>3
    <3>2. QED BY <1>11, <2>3, <3>1
  <2>4. QED BY <1>1, <2>1, <2>2, <2>3
<1>13. call' = [call EXCEPT ![t].res = Set!Outcome(op, k \in Contents)]
  <2>1. (IF Result(op, k, items) THEN "true" ELSE "false") = Set!Outcome(op, k \in Contents)
    BY <1>11 DEF Result, Set!Outcome
  <2>2. QED BY <1>2, <2>1
<1>14. QED BY <1>1, <1>12, <1>13 DEF Set!TakeEffect

(* Steps that are none of the callers'                                     *)
LEMMA HiddenStep ==
  ASSUME LockInv, TreeInv, NEW t \in Thread, Step(t), ~Apply(t), ~Return(t)
  PROVE  Contents' = Contents /\ call' = call
<1> USE DEF changeVars, allLockVars, lockVars, treeVars, walkVars, countVars
<1>1. CASE LockStep(t)
  BY <1>1, TreeAlone DEF LockStep
<1>2. CASE LoadHead(t) \/ LoadKey(t) \/ LoadNext(t) \/ Check(t)
  <2>1. UNCHANGED <<treeVars, v, call>>
    BY <1>2 DEF LoadHead, LoadKey, LoadNext, Check
  <2>2. QED BY <2>1, TreeAlone
<1>3. CASE FlushCount(t) \/ LoadLimit(t) \/ CheckLimit(t) \/ Decide(t) \/ ResetCount(t)
  <2>1. UNCHANGED <<treeVars, v, call>>
    BY <1>3 DEF FlushCount, LoadLimit, CheckLimit, Decide, ResetCount
  <2>2. QED BY <2>1, TreeAlone
<1>4. CASE StartChange(t) \/ GiveUpChange(t) \/ enlarge_tree(t) \/ shrink_tree(t)
           \/ FinishChange(t) \/ GatherChildren(t)
  <2>1. UNCHANGED <<treeVars, v, call>>
    BY <1>4 DEF StartChange, GiveUpChange, enlarge_tree, shrink_tree, FinishChange,
                GatherChildren
  <2>2. QED BY <2>1, TreeAlone
<1>5. CASE Acquire(t)
  <2>1. cur[t] \in 1 .. Len(trees) /\ TreeTypeOK
    BY <1>5, References DEF Acquire, TreeInv, WalkInv
  <2>2. QED BY <1>5, <2>1, LocksOnly DEF Acquire, acquire
<1>6. CASE GiveUp(t)
  <2>1. cur[t] \in 1 .. Len(trees) /\ TreeTypeOK
    BY <1>6 DEF GiveUp, TreeInv, WalkInv
  <2>2. QED BY <1>6, <2>1, LocksOnly DEF GiveUp
<1>7. CASE GatherAcquire(t)
  <2>1. victim \in 1 .. Len(trees) /\ TreeTypeOK
    BY <1>7, VictimLinked DEF GatherAcquire, TreeInv
  <2>2. QED BY <1>7, <2>1, LocksOnly DEF GatherAcquire, acquire
<1>8. CASE NewRoot(t)
  BY <1>8, RootKeys DEF NewRoot
<1>9. CASE GatherTake(t)
  BY <1>9, TakenKeys DEF GatherTake
<1>10. CASE FreeRoot(t) \/ FreeTreelet(t)
  BY <1>10, FreedUnlinked DEF FreeRoot, FreeTreelet
<1>11. CASE BuildKey(t)
  <2>1. UNCHANGED <<head, trees, v, call>> /\ pc[t] = "build"
        /\ nodes' = rekeyed(nodes, -parts[1].node, bigNodeKey(v, parts[1].first, parts[1].len))
    BY <1>11, AtPart DEF BuildKey, rekeyed
  <2>2. KeyOnly(nodes, nodes', -parts[1].node, bigNodeKey(v, parts[1].first, parts[1].len))
    <3>1. /\ nodes \in Seq(NodeOf(Ref)) /\ -parts[1].node \in 1 .. Len(nodes)
          /\ bigNodeKey(v, parts[1].first, parts[1].len) \in Key \cup {0}
      BY <2>1, AtPart DEF TreeInv, TreeTypeOK, NodeOf
    <3>2. QED BY <2>1, <3>1, SetKey
  <2>3. \A r : Linked(r)' <=> Linked(r)
    BY <2>1, <2>2 DEF Linked, KeyOnly
  <2>4. QED BY <2>1, <2>3, SameLinked
<1>12. CASE expandLeafBigNode(t)
  BY <1>12, ExpandedKeys DEF expandLeafBigNode
<1>13. QED
  BY <1>1, <1>2, <1>3, <1>4, <1>5, <1>6, <1>7, <1>8, <1>9, <1>10, <1>11, <1>12, Zenon
  DEF Step

(* search, insert and remove are calls of one linearizable set: each takes *)
(* effect once, in Apply, its result is right at that moment, and neither  *)
(* gatherAll nor buildFromV loses a key or brings one back.                *)
THEOREM TreeIsKeySet == Spec => IsKeySet
<1>1. Init => Set!KeySetInit
  <2> SUFFICES ASSUME Init PROVE Set!KeySetInit
    OBVIOUS
  <2>1. \A r \in 1 .. Len(trees) : trees[r].items = {}
    <3>1. trees[1] = Treelet({}) /\ trees[2] = Treelet({}) /\ Len(trees) = 2
      BY DEF Init
    <3>2. \A r \in 1 .. 2 : r = 1 \/ r = 2
      OBVIOUS
    <3>3. Treelet({}).items = {}
      BY DEF Treelet
    <3>4. QED BY <3>1, <3>2, <3>3
  <2>2. v = <<>>
    BY DEF Init
  <2>3. \A k : ~Has(k)
    BY <2>1, <2>2 DEF Has
  <2>4. Contents = {}
    BY <2>3, ContentsHas
  <2>5. QED BY <2>4 DEF Init, Set!KeySetInit, Set!Idle, Idle
<1>2. LockInv /\ TreeInv /\ [Next]_vars => [Set!KeySetNext]_<<Contents, call>>
  <2> SUFFICES ASSUME LockInv, TreeInv, [Next]_vars
               PROVE  [Set!KeySetNext]_<<Contents, call>>
    OBVIOUS
  <2>1. CASE UNCHANGED vars
    <3>1. UNCHANGED <<treeVars, v>> /\ call' = call
      BY <2>1 DEF vars, changeVars
    <3>2. QED BY <3>1, TreeAlone
  <2>2. ASSUME NEW t \in Thread, Step(t) PROVE [Set!KeySetNext]_<<Contents, call>>
    <3>1. CASE Apply(t)
      BY <3>1, AppliedKeys DEF Set!KeySetNext
    <3>2. CASE Return(t)
      <4>1. call[t].res # "none"
        BY <3>2 DEF Return, TreeInv, CallInv, Before
      <4>2. UNCHANGED <<treeVars, v>>
        BY <3>2 DEF Return, changeVars
      <4>3. Set!Return(t)
        BY <3>2, <4>1, <4>2, TreeAlone DEF Return, Set!Return, Set!Idle, Idle
      <4>4. QED BY <4>3 DEF Set!KeySetNext
    <3>3. CASE ~Apply(t) /\ ~Return(t)
      BY <2>2, <3>3, HiddenStep
    <3>4. QED BY <3>1, <3>2, <3>3
  <2>3. ASSUME NEW t \in Thread, NEW op \in {"search", "insert", "remove"}, NEW k \in Key,
               Invoke(t, op, k)
        PROVE  [Set!KeySetNext]_<<Contents, call>>
    <3>1. call[t] = Idle
      BY <2>3 DEF Invoke, TreeInv, CallInv
    <3>2. UNCHANGED <<treeVars, v>>
      BY <2>3 DEF Invoke, changeVars
    <3>3. Set!Invoke(t, op, k)
      BY <2>3, <3>1, <3>2, TreeAlone DEF Invoke, Set!Invoke, Set!Idle, Idle
    <3>4. QED BY <3>3 DEF Set!KeySetNext
  <2>4. QED BY <2>1, <2>2, <2>3 DEF Next
<1>3. QED BY <1>1, <1>2, TreeInductive, PTL DEF Spec, IsKeySet, Set!KeySetSpec

-----------------------------------------------------------------------------
(* The walk down a backbone at rest                                        *)

down(k, r) == IF IsNode(r) THEN Node(r).next[asmsearch(k, Node(r))] ELSE r

(* w[d] is where backboneGetTreelet is after d nodes.                      *)
Walk(k, w, n) == w = [d \in 0 .. n |-> IF d = 0 THEN head ELSE down(k, w[d - 1])]

LEMMA WalkExists ==
  ASSUME NEW k, NEW n \in Nat
  PROVE  \E w : Walk(k, w, n)
<1> DEFINE Bad == {m \in Nat : ~\E w : Walk(k, w, m)}
<1>1. SUFFICES ASSUME Bad # {} PROVE FALSE
  OBVIOUS
<1>2. PICK m \in Bad : \A l \in Bad : m <= l
  BY <1>1, LeastNumber
<1>3. m # 0
  <2>1. ASSUME m = 0 PROVE Walk(k, [d \in 0 .. 0 |-> head], m)
    BY <2>1 DEF Walk
  <2>2. QED BY <1>2, <2>1
<1>4. m - 1 \in Nat /\ m - 1 \notin Bad
  BY <1>2, <1>3
<1>5. PICK w : Walk(k, w, m - 1)
  BY <1>4
<1> DEFINE w2 == [d \in 0 .. m |-> IF d = m THEN down(k, w[m - 1]) ELSE w[d]]
<1>6. ASSUME NEW d \in 0 .. m
      PROVE  w2[d] = IF d = 0 THEN head ELSE down(k, w2[d - 1])
  <2>1. \A i \in 0 .. m - 1 : w[i] = IF i = 0 THEN head ELSE down(k, w[i - 1])
    BY <1>5 DEF Walk
  <2>2. CASE d = m
    BY <1>3, <1>4, <2>2
  <2>3. CASE d # m
    <3>1. d \in 0 .. m - 1
      BY <2>3
    <3>2. w2[d] = w[d] /\ (d # 0 => w2[d - 1] = w[d - 1])
      BY <2>3, <3>1
    <3>3. QED BY <2>1, <3>1, <3>2
  <2>4. QED BY <2>2, <2>3
<1>7. Walk(k, w2, m)
  <2>1. w2 = [d \in 0 .. m |-> w2[d]]
    OBVIOUS
  <2> HIDE DEF w2
  <2>2. QED BY <1>6, <2>1 DEF Walk
<1>8. QED BY <1>2, <1>7

LEMMA WalkTaken ==
  ASSUME NEW k, Len(nodes) \in Nat
  PROVE  \E w : Walk(k, w, Len(nodes)) /\ backboneGetTreelet(k) = w[Len(nodes)]
<1> DEFINE w == CHOOSE w : Walk(k, w, Len(nodes))
<1>1. Walk(k, w, Len(nodes))
  BY WalkExists
<1>2. backboneGetTreelet(k) = w[Len(nodes)]
  BY DEF backboneGetTreelet, Walk, down
<1>3. QED BY <1>1, <1>2

(* Nobody owns the layout.                                                 *)
AtRest == \A t \in Thread : lpc[t] # "change"

LEMMA Resting ==
  ASSUME TreeInv, AtRest
  PROVE  (\A t \in Thread : pc[t] \notin Owning) /\ v = <<>>
<1>1. \A t \in Thread : pc[t] \notin Owning
  BY OwnerInChange DEF AtRest
<1>2. v = <<>>
  BY <1>1 DEF TreeInv, ChangeInv, RestInv, Gathering, Building, Owning
<1>3. QED BY <1>1, <1>2

(* One step down: still on the way to k's treelet, and in a later node.    *)
LEMMA StepDown ==
  ASSUME TreeInv, AtRest, NEW k, NEW r \in DOMAIN span, k \in span[r], Linked(r)
  PROVE  LET q == down(k, r) IN
           /\ q \in DOMAIN span /\ k \in span[q] /\ Linked(q)
           /\ IsNode(q) => IsNode(r) /\ -q > -r
<1> DEFINE q == down(k, r)
<1>1. TreeTypeOK /\ SpanInv /\ ShapeInv /\ r \in Ref /\ r \in Int
  BY References DEF TreeInv, SpanInv
<1>2. CASE ~IsNode(r)
  BY <1>2 DEF down
<1>3. CASE IsNode(r)
  <2> DEFINE i == asmsearch(k, Node(r))
  <2>1. -r \in 1 .. Len(nodes) /\ Node(r) = nodes[-r] /\ i \in 1 .. 2
    BY <1>1, <1>3, References DEF Node, asmsearch
  <2>2. k \in childSpan(r, i)
    <3>1. i = asmsearch(k, [key |-> Node(r).key])
      BY DEF asmsearch
    <3>2. QED BY <3>1 DEF childSpan, sent
  <2>3. q = Node(r).next[i]
    BY <1>3 DEF down
  <2> HIDE DEF i, q
  <2>4. q \in Ref /\ q \in DOMAIN span /\ span[q] = childSpan(r, i) /\ Linked(q)
    BY <1>3, <2>1, <2>2, <2>3, Resting, LeadsOn
  <2>5. q < 0 => q < -(-r)
    BY <1>1, <2>1, <2>3 DEF ShapeInv
  <2>6. q \in Int
    BY <1>1, <2>4, References
  <2>7. IsNode(q) => -q > -r
    BY <1>1, <2>5, <2>6 DEF IsNode
  <2>8. QED BY <1>3, <2>2, <2>4, <2>7 DEF q
<1>4. QED BY <1>2, <1>3

(* A walk meets nodes in the order of their allocation, so that Len(nodes) *)
(* steps lead from head to a treelet.                                      *)
LEMMA WalkLeads ==
  ASSUME TreeInv, AtRest, NEW k \in Key, NEW w, Walk(k, w, Len(nodes))
  PROVE  LET q == w[Len(nodes)] IN
           q \in 1 .. Len(trees) /\ k \in span[q] /\ Linked(q)
<1> DEFINE L == Len(nodes)
           Led(d) == /\ w[d] \in DOMAIN span /\ k \in span[w[d]] /\ Linked(w[d])
                     /\ IsNode(w[d]) => -w[d] > d
           Bad == {d \in 0 .. L : ~Led(d)}
<1>1. L \in Nat /\ TreeTypeOK /\ SpanInv
  BY References DEF TreeInv
<1>2. \A d \in 0 .. L : w[d] = IF d = 0 THEN head ELSE down(k, w[d - 1])
  BY DEF Walk
<1>3. Bad = {}
  <2>1. SUFFICES ASSUME Bad # {} PROVE FALSE
    OBVIOUS
  <2>2. Bad \in SUBSET Nat
    BY <1>1
  <2>3. PICK d \in Bad : \A e \in Bad : d <= e
    BY <2>1, <2>2, LeastNumber
  <2>4. d \in 0 .. L /\ ~Led(d)
    BY <2>3
  <2>5. CASE d = 0
    <3>1. w[0] = head
      BY <1>2, <2>4, <2>5
    <3>2. head \in Ref /\ head \in DOMAIN span /\ span[head] = Key /\ Linked(head)
      BY <1>1 DEF TreeTypeOK, SpanInv, Linked
    <3>3. IsNode(head) => -head > 0
      BY <1>1, <3>2, References DEF IsNode
    <3>4. QED BY <2>4, <2>5, <3>1, <3>2, <3>3
  <2>6. CASE d # 0
    <3>1. d - 1 \in 0 .. L /\ d - 1 \notin Bad
      <4>1. d \in Nat /\ d - 1 \in 0 .. L
        BY <1>1, <2>4, <2>6
      <4>2. QED BY <2>3, <4>1
    <3>2. Led(d - 1)
      BY <3>1
    <3>3. w[d] = down(k, w[d - 1])
      BY <1>2, <2>4, <2>6
    <3> DEFINE r == w[d - 1]
               q == down(k, r)
    <3> HIDE DEF r
    <3>4. r \in DOMAIN span /\ k \in span[r] /\ Linked(r) /\ (IsNode(r) => -r > d - 1)
      BY <3>2 DEF r
    <3>5. /\ q \in DOMAIN span /\ k \in span[q] /\ Linked(q)
          /\ IsNode(q) => IsNode(r) /\ -q > -r
      BY <3>4, StepDown
    <3>6. q \in Int /\ r \in Int /\ d \in Int
      BY <1>1, <2>4, <3>4, <3>5, References DEF SpanInv
    <3>7. w[d] = q
      BY <3>3 DEF r
    <3> HIDE DEF q
    <3>8. IsNode(q) => -q > d
      BY <3>4, <3>5, <3>6
    <3>9. QED BY <2>4, <3>5, <3>7, <3>8
  <2>7. QED BY <2>5, <2>6
<1>4. Led(L)
  <2>1. L \in 0 .. L
    BY <1>1
  <2>2. QED BY <1>3, <2>1
<1> DEFINE q == w[L]
<1> HIDE DEF q
<1>5. q \in DOMAIN span /\ k \in span[q] /\ Linked(q) /\ (IsNode(q) => -q > L)
  BY <1>4 DEF q
<1>6. q \in Ref
  BY <1>1, <1>5 DEF SpanInv
<1>7. q \in 1 .. Len(trees)
  BY <1>1, <1>5, <1>6, References
<1>8. QED BY <1>5, <1>7 DEF q

(* Whenever nobody owns the layout, backboneGetTreelet leads every key of  *)
(* the tree to the one treelet that holds it: the keys buildFromV gives    *)
(* the nodes separate the parts of v it puts below them, at any depth.     *)
THEOREM TreeRouted == Spec => []Routed
<1>1. TreeInv => Routed
  <2> SUFFICES ASSUME TreeInv, AtRest, NEW k \in Contents
               PROVE  k \in trees[backboneGetTreelet(k)].items
    BY DEF Routed, AtRest
  <2>1. SpanInv /\ Len(nodes) \in Nat
    BY References DEF TreeInv
  <2>2. ~\E j \in 1 .. Len(v) : v[j] = k
    BY Resting
  <2>3. PICK r \in 1 .. Len(trees) : Linked(r) /\ k \in trees[r].items
    BY <2>2, ContentsHas DEF Has
  <2>4. k \in span[r] /\ k \in Key
    BY <2>1, <2>3 DEF SpanInv
  <2>5. PICK w : Walk(k, w, Len(nodes)) /\ backboneGetTreelet(k) = w[Len(nodes)]
    BY <2>1, WalkTaken
  <2> DEFINE q == backboneGetTreelet(k)
  <2>6. q \in 1 .. Len(trees) /\ k \in span[q] /\ Linked(q)
    BY <2>4, <2>5, WalkLeads
  <2> HIDE DEF q
  <2>7. q = r
    BY <2>1, <2>3, <2>4, <2>6 DEF SpanInv
  <2>8. QED BY <2>3, <2>7 DEF q
<1>2. QED BY <1>1, TreeInductive, PTL
=============================================================================
