----------------------------- MODULE TRcuProofs -----------------------------
(***************************************************************************)
(* For any number of threads and objects and any capacities: the sets of   *)
(* deleted objects stay in order, nothing is lost or destroyed twice, and  *)
(* no object is destroyed while an elder of its deleter runs.              *)
(***************************************************************************)
EXTENDS TRcu, SequenceTheorems, FiniteSetTheorems, WellFoundedInduction, TLAPS

USE DEF Thread, Epoch

-----------------------------------------------------------------------------
(* Numbers                                                                 *)

LEMMA NatOrder ==
  \E R : IsWellFoundedOn(R, Nat) /\ \A x, y \in Nat : y < x => <<y, x>> \in R
<1>1. \A x, y \in Nat : y < x => <<y, x>> \in OpToRel(<, Nat)
  BY DEF OpToRel
<1>2. QED BY <1>1, NatLessThanWellFounded, Zenon

(* Every nonempty set of numbers has a smallest.                           *)
LEMMA Smallest ==
  ASSUME NEW T \in SUBSET Nat, T # {}
  PROVE  \E x \in T : \A y \in T : x <= y
<1>1. PICK R : IsWellFoundedOn(R, Nat) /\ \A x, y \in Nat : y < x => <<y, x>> \in R
  BY NatOrder
<1>2. PICK x \in T : \A y \in T : ~(<<y, x>> \in R)
  BY <1>1, WFMin
<1>3. ASSUME NEW y \in T PROVE x <= y
  <2>1. x \in Nat /\ y \in Nat
    OBVIOUS
  <2>2. ~(y < x)
    BY <1>1, <1>2, <2>1
  <2>3. QED BY <2>1, <2>2
<1>4. QED BY <1>3

-----------------------------------------------------------------------------
(* TRcuGroup                                                               *)

(* clean_until stops somewhere, at the end or at a marker that is not due, *)
(* and all markers it passes are due.                                      *)
LEMMA StopsAtExists ==
  ASSUME NEW gr \in Group, gr.head <= Len(gr.e), NEW max \in Epoch
  PROVE  LET s == StopsAt(gr, max) IN
           /\ s \in gr.head .. Len(gr.e)
           /\ s = Len(gr.e) \/ (gr.e[s + 1].object = NoObj /\ ~Due(gr.e[s + 1], max))
           /\ \A i \in gr.head .. s - 1 :
                gr.e[i + 1].object # NoObj \/ Due(gr.e[i + 1], max)
<1> DEFINE Stop(j) == j = Len(gr.e) \/ (gr.e[j + 1].object = NoObj /\ ~Due(gr.e[j + 1], max))
           T == {j \in gr.head .. Len(gr.e) : Stop(j)}
<1>1. gr.head \in Nat /\ Len(gr.e) \in Nat
  BY DEF Group
<1>2. Len(gr.e) \in T /\ T \in SUBSET Nat
  BY <1>1
<1> HIDE DEF T
<1>3. PICK s \in T : \A y \in T : s <= y
  BY <1>2, Smallest
<1>4. ASSUME NEW i \in gr.head .. s - 1
      PROVE  gr.e[i + 1].object # NoObj \/ Due(gr.e[i + 1], max)
  <2>1. s \in gr.head .. Len(gr.e)
    BY DEF T
  <2>2. i \in gr.head .. Len(gr.e) /\ ~(s <= i)
    BY <1>1, <2>1
  <2>3. i \notin T
    BY <1>3, <2>2
  <2>4. QED BY <2>2, <2>3 DEF T
<1>5. s \in gr.head .. Len(gr.e) /\ Stop(s)
  BY DEF T
<1>6. QED BY <1>4, <1>5 DEF StopsAt

(* What clean_until leaves of a group is again in order; what it destroys  *)
(* was deleted before max.                                                 *)
LEMMA GroupClean ==
  ASSUME NEW gr \in Group, NEW tags \in [Obj -> Epoch], GroupInv(gr, tags),
         NEW max \in Epoch
  PROVE  LET s == StopsAt(gr, max)
             new == group_clean(gr, max)
         IN /\ new \in Group
            /\ GroupInv(new, tags)
            /\ s = Len(gr.e) => Reset(new)
            /\ s # Len(gr.e) => ~Spent(new)
            /\ \A o \in Obj : Slots(new, o) = {i \in Slots(gr, o) : i > s}
            /\ \A o \in Obj : o \in Cleaned(gr, max) <=>
                 \E i \in Slots(gr, o) : i <= s
            /\ \A o \in Cleaned(gr, max) : tags[o] < max
<1> DEFINE s == StopsAt(gr, max)
           new == group_clean(gr, max)
<1>1. /\ gr.head \in Nat /\ Len(gr.e) \in Nat /\ gr.head <= Len(gr.e)
      /\ gr.e \in Seq(Slot) /\ DOMAIN gr.e = 1 .. Len(gr.e)
      /\ \A i \in 1 .. Len(gr.e) : gr.e[i].object \in Obj \cup {NoObj} /\ gr.e[i].epoch \in Epoch
  <2>1. gr.e \in Seq(Slot) /\ gr.head \in Nat /\ gr.head <= Len(gr.e)
    BY DEF Group, GroupInv
  <2>2. Len(gr.e) \in Nat /\ DOMAIN gr.e = 1 .. Len(gr.e)
    BY <2>1, LenProperties
  <2>3. \A i \in 1 .. Len(gr.e) : gr.e[i] \in Slot
    BY <2>1, ElementOfSeq
  <2>4. QED BY <2>1, <2>2, <2>3 DEF Slot
<1>2. /\ s \in gr.head .. Len(gr.e)
      /\ s = Len(gr.e) \/ (gr.e[s + 1].object = NoObj /\ ~Due(gr.e[s + 1], max))
      /\ \A i \in gr.head .. s - 1 :
           gr.e[i + 1].object # NoObj \/ Due(gr.e[i + 1], max)
  BY <1>1, StopsAtExists
<1> HIDE DEF s
<1>3. new = IF s = Len(gr.e) THEN [gr EXCEPT !.head = 0, !.e = <<>>]
                             ELSE [gr EXCEPT !.head = s]
  BY DEF s, group_clean
<1> HIDE DEF new
<1>4. new \in Group
  <2>1. <<>> \in Seq(Slot)
    BY EmptySeq
  <2>2. 0 \in Nat /\ s \in Nat
    BY <1>1, <1>2
  <2>3. gr \in [capacity : {FirstCapacity, NextCapacity}, head : Nat, epoch : Epoch, e : Seq(Slot)]
    BY DEF Group
  <2>4. QED BY <1>3, <2>1, <2>2, <2>3 DEF Group
<1>5. ASSUME s = Len(gr.e) PROVE GroupInv(new, tags) /\ Reset(new)
  <2>1. new.head = 0 /\ new.e = <<>> /\ new.capacity = gr.capacity /\ Len(new.e) = 0
    BY <1>3, <1>5 DEF Group
  <2>2. gr.capacity \in Nat
    BY SizeAssumption DEF Group
  <2>3. GroupInv(new, tags)
    BY <2>1, <2>2 DEF GroupInv, Spent, Reset
  <2>4. QED BY <2>1, <2>3 DEF Reset
<1>6. ASSUME s # Len(gr.e) PROVE GroupInv(new, tags) /\ ~Spent(new)
  <2>1. /\ new.head = s /\ new.e = gr.e /\ new.capacity = gr.capacity /\ new.epoch = gr.epoch
        /\ s \in Nat /\ s < Len(gr.e)
        /\ gr.e[s + 1].object = NoObj
    BY <1>1, <1>2, <1>3, <1>6 DEF Group
  <2>2. ASSUME NEW i \in s + 1 .. Len(gr.e), NEW ep, Under(gr, i, ep)
        PROVE  Under(new, i, ep)
    <3>1. PICK m \in gr.head + 1 .. i :
            /\ gr.e[m].object = NoObj /\ gr.e[m].epoch = ep
            /\ \A l \in m + 1 .. i : gr.e[l].object # NoObj
      BY <2>2 DEF Under
    <3>2. m >= s + 1
      BY <1>1, <2>1, <3>1
    <3>3. QED BY <1>1, <2>1, <3>1, <3>2 DEF Under
  <2>3. GroupInv(new, tags)
    <3>1. ~Spent(new) /\ ~Spent(gr)
      BY <1>1, <1>2, <2>1 DEF Spent
    <3>2. Under(new, Len(gr.e), new.epoch)
      BY <2>1, <2>2, <3>1 DEF GroupInv
    <3>3. ASSUME NEW i \in s + 1 .. Len(gr.e), gr.e[i].object # NoObj
          PROVE  Under(new, i, tags[gr.e[i].object])
      <4>1. i \in gr.head + 1 .. Len(gr.e)
        BY <1>1, <1>2
      <4>2. QED BY <2>2, <3>3, <4>1 DEF GroupInv
    <3>4. QED BY <1>1, <2>1, <3>1, <3>2, <3>3 DEF GroupInv
  <2>4. QED BY <1>6, <2>1, <2>3 DEF Spent
<1>7. ASSUME NEW o \in Obj PROVE Slots(new, o) = {i \in Slots(gr, o) : i > s}
  <2>1. CASE s = Len(gr.e)
    <3>1. new.head = 0 /\ new.e = <<>> /\ Len(new.e) = 0
      BY <1>3, <2>1 DEF Group
    <3>2. QED BY <1>1, <2>1, <3>1 DEF Slots
  <2>2. CASE s # Len(gr.e)
    <3>1. new.head = s /\ new.e = gr.e
      BY <1>3, <2>2 DEF Group
    <3>2. QED BY <1>1, <1>2, <3>1 DEF Slots
  <2>3. QED BY <2>1, <2>2
<1>8. ASSUME NEW o \in Obj
      PROVE  o \in Cleaned(gr, max) <=> \E i \in Slots(gr, o) : i <= s
  <2>1. Cleaned(gr, max) = {gr.e[j].object : j \in gr.head + 1 .. s} \ {NoObj}
    BY DEF Cleaned, s
  <2>2. o # NoObj
    BY SizeAssumption
  <2>3. QED BY <1>1, <1>2, <2>1, <2>2 DEF Slots
<1>9. ASSUME NEW o \in Cleaned(gr, max) PROVE tags[o] < max
  <2>1. PICK j \in gr.head + 1 .. s : gr.e[j].object = o /\ o # NoObj
    BY DEF Cleaned, s
  <2>2. j \in gr.head + 1 .. Len(gr.e)
    BY <1>1, <1>2
  <2>3. Under(gr, j, tags[o])
    BY <2>1, <2>2 DEF GroupInv
  <2>4. PICK m \in gr.head + 1 .. j : gr.e[m].object = NoObj /\ gr.e[m].epoch = tags[o]
    BY <2>3 DEF Under
  <2>5. m - 1 \in gr.head .. s - 1 /\ (m - 1) + 1 = m
    BY <1>1, <1>2, <2>1, <2>4
  <2>6. Due(gr.e[m], max)
    BY <1>2, <2>4, <2>5
  <2>7. QED BY <2>4, <2>6 DEF Due
<1>10. QED BY <1>4, <1>5, <1>6, <1>7, <1>8, <1>9 DEF s, new

(* rcu_delete adds one slot that holds o and keeps the others.             *)
LEMMA GroupAdd ==
  ASSUME NEW gr \in Group, NEW tags \in [Obj -> Epoch], GroupInv(gr, tags),
         Len(gr.e) + 2 <= gr.capacity,
         NEW o \in Obj, NEW ep \in Epoch, tags[o] = ep
  PROVE  LET new == group_add(gr, ep, o)
         IN /\ new \in Group
            /\ GroupInv(new, tags)
            /\ ~Spent(new)
            /\ Slots(new, o) = Slots(gr, o) \cup {Len(new.e)}
            /\ \A x \in Obj \ {o} : Slots(new, x) = Slots(gr, x)
<1> DEFINE new == group_add(gr, ep, o)
           L == Len(gr.e)
           marked == Spent(gr) \/ gr.epoch # ep
           M == IF marked THEN L + 2 ELSE L + 1
<1>1. /\ gr.head \in Nat /\ L \in Nat /\ gr.head <= L
      /\ gr.e \in Seq(Slot)
      /\ gr.capacity \in Nat
  BY LenProperties, SizeAssumption DEF Group, GroupInv
<1>2. Marker(ep) \in Slot /\ Entry(o) \in Slot /\ Marker(ep).object = NoObj
      /\ Marker(ep).epoch = ep /\ Entry(o).object = o /\ o # NoObj
  BY SizeAssumption DEF Marker, Entry, Slot
<1>3. /\ new \in Group
      /\ new.head = gr.head /\ new.capacity = gr.capacity /\ new.epoch = ep
      /\ Len(new.e) = M
      /\ \A i \in 1 .. L : new.e[i] = gr.e[i]
      /\ marked => new.e[L + 1].object = NoObj /\ new.e[L + 1].epoch = ep
      /\ new.e[M].object = o
  <2>1. CASE marked
    <3> DEFINE two == <<Marker(ep), Entry(o)>>
    <3>1. two \in Seq(Slot) /\ Len(two) = 2 /\ two[1] = Marker(ep) /\ two[2] = Entry(o)
      BY <1>2
    <3> HIDE DEF two
    <3>2. /\ gr.e \o two \in Seq(Slot) /\ Len(gr.e \o two) = L + 2
          /\ \A i \in 1 .. L + 2 : (gr.e \o two)[i] = IF i <= L THEN gr.e[i] ELSE two[i - L]
      <4> DEFINE s1 == gr.e
      <4>1. s1 \in Seq(Slot)
        BY <1>1
      <4> HIDE DEF s1
      <4>2. /\ s1 \o two \in Seq(Slot) /\ Len(s1 \o two) = Len(s1) + Len(two)
            /\ \A i \in 1 .. Len(s1) + Len(two) :
                 (s1 \o two)[i] = IF i <= Len(s1) THEN s1[i] ELSE two[i - Len(s1)]
        BY <3>1, <4>1, ConcatProperties
      <4>3. QED BY <3>1, <4>2 DEF s1
    <3>3. new = [gr EXCEPT !.e = gr.e \o two, !.epoch = ep]
      BY <2>1 DEF group_add, two
    <3>4. new \in Group /\ new.e = gr.e \o two /\ new.head = gr.head
          /\ new.capacity = gr.capacity /\ new.epoch = ep
      BY <3>2, <3>3 DEF Group
    <3>5. new.e[L + 1] = two[1] /\ new.e[L + 2] = two[2]
      BY <1>1, <3>2, <3>4
    <3>6. \A i \in 1 .. L : new.e[i] = gr.e[i]
      BY <1>1, <3>2, <3>4
    <3>7. QED BY <1>2, <2>1, <3>1, <3>2, <3>4, <3>5, <3>6
  <2>2. CASE ~marked
    <3>1. new = [gr EXCEPT !.e = Append(gr.e, Entry(o))]
      BY <2>2 DEF group_add
    <3>2. /\ Append(gr.e, Entry(o)) \in Seq(Slot)
          /\ Len(Append(gr.e, Entry(o))) = L + 1
          /\ \A i \in 1 .. L : Append(gr.e, Entry(o))[i] = gr.e[i]
          /\ Append(gr.e, Entry(o))[L + 1] = Entry(o)
      BY <1>1, <1>2, AppendProperties
    <3>3. new \in Group /\ new.e = Append(gr.e, Entry(o)) /\ new.head = gr.head
          /\ new.capacity = gr.capacity /\ new.epoch = gr.epoch
      BY <3>1, <3>2 DEF Group
    <3>4. QED BY <1>2, <2>2, <3>2, <3>3
  <2>3. QED BY <2>1, <2>2
<1> HIDE DEF new
<1>4. M \in Nat /\ L < M
  BY <1>1
<1>5. ASSUME NEW i \in gr.head + 1 .. L, NEW x, Under(gr, i, x)
      PROVE  Under(new, i, x)
  <2>1. PICK m \in gr.head + 1 .. i :
          /\ gr.e[m].object = NoObj /\ gr.e[m].epoch = x
          /\ \A l \in m + 1 .. i : gr.e[l].object # NoObj
    BY <1>5 DEF Under
  <2>2. m \in 1 .. L /\ \A l \in m + 1 .. i : l \in 1 .. L
    BY <1>1
  <2>3. new.e[m] = gr.e[m] /\ \A l \in m + 1 .. i : new.e[l] = gr.e[l]
    BY <1>3, <2>2
  <2>4. QED BY <1>3, <2>1, <2>3 DEF Under
<1>6. Under(new, M, ep)
  <2>1. CASE marked
    <3>1. /\ L + 1 \in gr.head + 1 .. M /\ new.e[L + 1].object = NoObj /\ new.e[L + 1].epoch = ep
          /\ \A l \in (L + 1) + 1 .. M : new.e[l].object # NoObj
      BY <1>1, <1>2, <1>3, <2>1
    <3>2. QED BY <1>3, <3>1 DEF Under
  <2>2. CASE ~marked
    <3>1. Under(gr, L, ep)
      BY <2>2 DEF GroupInv
    <3>2. PICK m \in gr.head + 1 .. L :
            /\ gr.e[m].object = NoObj /\ gr.e[m].epoch = ep
            /\ \A l \in m + 1 .. L : gr.e[l].object # NoObj
      BY <3>1 DEF Under
    <3>3. /\ m \in gr.head + 1 .. M /\ new.e[m].object = NoObj /\ new.e[m].epoch = ep
          /\ \A l \in m + 1 .. M : new.e[l].object # NoObj
      <4>1. M = L + 1 /\ m \in 1 .. L /\ m \in gr.head + 1 .. M
        BY <1>1, <2>2
      <4>2. new.e[m] = gr.e[m]
        BY <1>3, <4>1
      <4>3. ASSUME NEW l \in m + 1 .. M PROVE new.e[l].object # NoObj
        <5>1. CASE l = M
          BY <1>2, <1>3, <5>1
        <5>2. CASE l # M
          <6>1. l \in m + 1 .. L /\ l \in 1 .. L
            BY <1>1, <4>1, <5>2
          <6>2. QED BY <1>3, <3>2, <6>1
        <5>3. QED BY <5>1, <5>2
      <4>4. QED BY <3>2, <4>1, <4>2, <4>3
    <3>4. QED BY <1>3, <3>3 DEF Under
  <2>3. QED BY <2>1, <2>2
<1>7. GroupInv(new, tags)
  <2>1. new.head <= Len(new.e) /\ Len(new.e) <= new.capacity /\ ~Spent(new)
    BY <1>1, <1>3, <1>4 DEF Spent
  <2>2. new.e[new.head + 1].object = NoObj
    <3>1. CASE Spent(gr)
      BY <1>1, <1>3, <3>1 DEF Spent
    <3>2. CASE ~Spent(gr)
      <4>1. gr.e[gr.head + 1].object = NoObj /\ gr.head + 1 \in 1 .. L
        BY <1>1, <3>2 DEF GroupInv, Spent
      <4>2. QED BY <1>3, <4>1
    <3>3. QED BY <3>1, <3>2
  <2>3. ASSUME NEW i \in gr.head + 1 .. M, new.e[i].object # NoObj
        PROVE  Under(new, i, tags[new.e[i].object])
    <3>1. CASE i <= L
      <4>1. i \in gr.head + 1 .. L /\ i \in 1 .. L
        BY <1>1, <3>1
      <4>2. new.e[i] = gr.e[i]
        BY <1>3, <4>1
      <4>3. Under(gr, i, tags[gr.e[i].object])
        BY <2>3, <4>1, <4>2 DEF GroupInv
      <4>4. QED BY <1>5, <4>1, <4>2, <4>3
    <3>2. CASE i > L
      <4>1. i = M
        BY <1>1, <1>3, <2>3, <3>2
      <4>2. QED BY <1>3, <1>6, <4>1
    <3>3. QED BY <1>1, <3>1, <3>2
  <2>4. QED BY <1>3, <1>6, <2>1, <2>2, <2>3 DEF GroupInv
<1>8. ASSUME NEW x \in Obj
      PROVE  Slots(new, x) = Slots(gr, x) \cup (IF x = o THEN {M} ELSE {})
  <2>1. x # NoObj
    BY SizeAssumption
  <2>2. ASSUME NEW i
        PROVE  i \in Slots(new, x) <=> i \in Slots(gr, x) \/ (x = o /\ i = M)
    <3>1. i \in Slots(new, x) <=> i \in gr.head + 1 .. M /\ new.e[i].object = x
      BY <1>3 DEF Slots
    <3>2. i \in Slots(gr, x) <=> i \in gr.head + 1 .. L /\ gr.e[i].object = x
      BY DEF Slots
    <3>3. CASE i \in gr.head + 1 .. L
      <4>1. i \in 1 .. L /\ i \in gr.head + 1 .. M /\ i # M
        BY <1>1, <3>3
      <4>2. new.e[i] = gr.e[i]
        BY <1>3, <4>1
      <4>3. QED BY <3>1, <3>2, <3>3, <4>1, <4>2
    <3>4. CASE i = M
      <4>1. i \in gr.head + 1 .. M /\ i \notin gr.head + 1 .. L
        BY <1>1, <3>4
      <4>2. QED BY <1>3, <3>1, <3>2, <3>4, <4>1
    <3>5. CASE i \notin gr.head + 1 .. L /\ i # M
      <4>1. i \in gr.head + 1 .. M => marked /\ i = L + 1
        BY <1>1, <3>5
      <4>2. QED BY <1>3, <2>1, <3>1, <3>2, <3>5, <4>1
    <3>6. QED BY <3>3, <3>4, <3>5
  <2>3. QED BY <2>2
<1>9. ~Spent(new)
  BY <1>1, <1>3, <1>4 DEF Spent
<1>10. QED BY <1>3, <1>7, <1>8, <1>9 DEF new

(* Objects that are not in a group do not matter to it.                    *)
LEMMA OtherTags ==
  ASSUME NEW gr \in Group, NEW tags, GroupInv(gr, tags), NEW new,
         \A i \in gr.head + 1 .. Len(gr.e) : gr.e[i].object # NoObj =>
            new[gr.e[i].object] = tags[gr.e[i].object]
  PROVE  GroupInv(gr, new)
  BY DEF GroupInv

-----------------------------------------------------------------------------
(* TRcuSet                                                                 *)

(* hard_clean_until counts the emptied groups.                             *)
LEMMA EmptiedCount ==
  ASSUME NEW t \in Thread, current[t] \in Nat, NEW max
  PROVE  /\ Emptied(t, max) \in 0 .. current[t]
         /\ \A j \in 1 .. Emptied(t, max) :
              StopsAt(groups[t][j], max) = Len(groups[t][j].e)
         /\ Emptied(t, max) < current[t] =>
              StopsAt(groups[t][Emptied(t, max) + 1], max)
                # Len(groups[t][Emptied(t, max) + 1].e)
<1> DEFINE empty(j) == StopsAt(groups[t][j], max) = Len(groups[t][j].e)
           done(c) == \A j \in 1 .. c : empty(j)
           T == {c \in 0 .. current[t] : c = current[t] \/ ~done(c + 1)}
           c == Emptied(t, max)
<1>1. T \in SUBSET Nat /\ current[t] \in T
  OBVIOUS
<1> HIDE DEF T, empty
<1>2. PICK x \in T : \A y \in T : x <= y
  BY <1>1, Smallest
<1>3. x \in 0 .. current[t] /\ (x < current[t] => ~done(x + 1))
  BY DEF T
<1>4. done(x)
  <2>1. CASE x = 0
    BY <2>1
  <2>2. CASE x # 0
    <3>1. x - 1 \in 0 .. current[t] /\ ~(x <= x - 1) /\ (x - 1) + 1 = x /\ x - 1 # current[t]
      BY <1>3, <2>2
    <3>2. x - 1 \notin T
      BY <1>2, <3>1
    <3>3. done((x - 1) + 1)
      BY <3>1, <3>2 DEF T
    <3>4. QED BY <3>1, <3>3
  <2>3. QED BY <2>1, <2>2
<1>5. c = CHOOSE y \in 0 .. current[t] : done(y) /\ (y < current[t] => ~done(y + 1))
  BY DEF Emptied, empty
<1> HIDE DEF c
<1>6. c \in 0 .. current[t] /\ done(c) /\ (c < current[t] => ~done(c + 1))
  BY <1>3, <1>4, <1>5
<1>7. c < current[t] => ~empty(c + 1)
  <2>1. \A j \in 1 .. c + 1 : j \in 1 .. c \/ j = c + 1
    BY <1>6
  <2>2. QED BY <1>6, <2>1
<1>8. QED BY <1>6, <1>7 DEF c, empty

(* Rehooking is a rotation of the groups up to current_.                   *)
LEMMA RehookedAt ==
  ASSUME NEW gs \in Seq(Group), NEW cur \in 1 .. Len(gs), NEW c \in 0 .. cur
  PROVE  /\ rehooked(gs, c, cur) \in Seq(Group)
         /\ Len(rehooked(gs, c, cur)) = Len(gs)
         /\ \A j \in 1 .. cur - c : rehooked(gs, c, cur)[j] = gs[c + j]
         /\ \A j \in cur - c + 1 .. cur : rehooked(gs, c, cur)[j] = gs[j - (cur - c)]
         /\ \A j \in cur + 1 .. Len(gs) : rehooked(gs, c, cur)[j] = gs[j]
<1> DEFINE A == SubSeq(gs, c + 1, cur)
           B == SubSeq(gs, 1, c)
           C == SubSeq(gs, cur + 1, Len(gs))
<1>1. Len(gs) \in Nat /\ \A i \in 1 .. Len(gs) : gs[i] \in Group
  BY LenProperties, ElementOfSeq
<1>2. /\ A \in Seq(Group) /\ Len(A) = cur - c
      /\ \A i \in 1 .. cur - c : A[i] = gs[c + i]
  <2>1. \A i \in c + 1 .. cur : gs[i] \in Group
    BY <1>1
  <2>2. /\ A \in Seq(Group) /\ Len(A) = IF c + 1 <= cur THEN cur - (c + 1) + 1 ELSE 0
        /\ \A i \in 1 .. cur - (c + 1) + 1 : A[i] = gs[(c + 1) + i - 1]
    BY <1>1, <2>1, SubSeqProperties
  <2>3. QED BY <1>1, <2>2
<1>3. /\ B \in Seq(Group) /\ Len(B) = c
      /\ \A i \in 1 .. c : B[i] = gs[i]
  <2>1. \A i \in 1 .. c : gs[i] \in Group
    BY <1>1
  <2>2. /\ B \in Seq(Group) /\ Len(B) = IF 1 <= c THEN c - 1 + 1 ELSE 0
        /\ \A i \in 1 .. c - 1 + 1 : B[i] = gs[1 + i - 1]
    BY <1>1, <2>1, SubSeqProperties
  <2>3. QED BY <1>1, <2>2
<1>4. /\ C \in Seq(Group) /\ Len(C) = Len(gs) - cur
      /\ \A i \in 1 .. Len(gs) - cur : C[i] = gs[cur + i]
  <2>1. \A i \in cur + 1 .. Len(gs) : gs[i] \in Group
    BY <1>1
  <2>2. /\ C \in Seq(Group) /\ Len(C) = IF cur + 1 <= Len(gs) THEN Len(gs) - (cur + 1) + 1 ELSE 0
        /\ \A i \in 1 .. Len(gs) - (cur + 1) + 1 : C[i] = gs[(cur + 1) + i - 1]
    BY <1>1, <2>1, SubSeqProperties
  <2>3. QED BY <1>1, <2>2
<1> HIDE DEF A, B, C
<1>5. /\ A \o B \in Seq(Group) /\ Len(A \o B) = cur
      /\ \A i \in 1 .. cur : (A \o B)[i] = IF i <= cur - c THEN A[i] ELSE B[i - (cur - c)]
  <2>1. /\ A \o B \in Seq(Group) /\ Len(A \o B) = Len(A) + Len(B)
        /\ \A i \in 1 .. Len(A) + Len(B) : (A \o B)[i] = IF i <= Len(A) THEN A[i] ELSE B[i - Len(A)]
    BY <1>2, <1>3, ConcatProperties
  <2>2. QED BY <1>1, <1>2, <1>3, <2>1
<1> DEFINE AB == A \o B
<1> HIDE DEF AB
<1>6. /\ AB \o C \in Seq(Group) /\ Len(AB \o C) = Len(gs)
      /\ \A i \in 1 .. Len(gs) : (AB \o C)[i] = IF i <= cur THEN AB[i] ELSE C[i - cur]
  <2>1. /\ AB \o C \in Seq(Group) /\ Len(AB \o C) = Len(AB) + Len(C)
        /\ \A i \in 1 .. Len(AB) + Len(C) : (AB \o C)[i] = IF i <= Len(AB) THEN AB[i] ELSE C[i - Len(AB)]
    <3>1. AB \in Seq(Group)
      BY <1>5 DEF AB
    <3>2. QED BY <1>4, <3>1, ConcatProperties
  <2>2. Len(AB) = cur
    BY <1>5 DEF AB
  <2>3. QED BY <1>1, <1>4, <2>1, <2>2
<1>7. rehooked(gs, c, cur) = AB \o C
  BY DEF rehooked, A, B, C, AB
<1> DEFINE all == AB \o C
<1>8. /\ \A i \in 1 .. cur : AB[i] = IF i <= cur - c THEN A[i] ELSE B[i - (cur - c)]
      /\ all \in Seq(Group) /\ Len(all) = Len(gs)
      /\ \A i \in 1 .. Len(gs) : all[i] = IF i <= cur THEN AB[i] ELSE C[i - cur]
  BY <1>5, <1>6 DEF AB
<1> HIDE DEF all
<1>9. \A j \in 1 .. cur - c : all[j] = gs[c + j]
  BY <1>1, <1>2, <1>8
<1>10. \A j \in cur - c + 1 .. cur : all[j] = gs[j - (cur - c)]
  <2>1. ASSUME NEW j \in cur - c + 1 .. cur PROVE all[j] = gs[j - (cur - c)]
    <3>1. j \in 1 .. cur /\ j \in 1 .. Len(gs) /\ ~(j <= cur - c) /\ j - (cur - c) \in 1 .. c
      BY <1>1
    <3>2. QED BY <1>3, <1>8, <3>1
  <2>2. QED BY <2>1
<1>11. \A j \in cur + 1 .. Len(gs) : all[j] = gs[j]
  BY <1>1, <1>4, <1>8
<1>12. QED BY <1>7, <1>8, <1>9, <1>10, <1>11 DEF all

LEMMA PlaceOf ==
  ASSUME NEW gs, NEW o, NEW p
  PROVE  p \in Places(gs, o) <=>
           \E j \in 1 .. Len(gs) : \E i \in Slots(gs[j], o) : p = <<j, i>>
  BY DEF Places

LEMMA PairEqual ==
  ASSUME NEW a, NEW b, NEW x, NEW y, <<a, b>> = <<x, y>>
  PROVE  a = x /\ b = y
  OBVIOUS

(* Rehooking neither loses nor doubles a slot.                             *)
LEMMA RehookedPlaces ==
  ASSUME NEW gs \in Seq(Group), NEW cur \in 1 .. Len(gs), NEW c \in 0 .. cur, NEW o \in Obj
  PROVE  LET new == rehooked(gs, c, cur)
         IN /\ Places(gs, o) = {} => Places(new, o) = {}
            /\ Single(Places(gs, o)) => Single(Places(new, o))
<1> DEFINE new == rehooked(gs, c, cur)
           from(j) == IF j <= cur - c THEN c + j ELSE IF j <= cur THEN j - (cur - c) ELSE j
           to(j) == IF j <= c THEN j + (cur - c) ELSE IF j <= cur THEN j - c ELSE j
<1>1. Len(gs) \in Nat
  BY LenProperties
<1>2. Len(new) = Len(gs) /\ \A j \in 1 .. Len(gs) : new[j] = gs[from(j)]
  <2>1. /\ Len(new) = Len(gs)
        /\ \A j \in 1 .. cur - c : new[j] = gs[c + j]
        /\ \A j \in cur - c + 1 .. cur : new[j] = gs[j - (cur - c)]
        /\ \A j \in cur + 1 .. Len(gs) : new[j] = gs[j]
    BY RehookedAt
  <2> HIDE DEF new
  <2>2. QED BY <1>1, <2>1
<1> HIDE DEF new
<1>3. \A j \in 1 .. Len(gs) : from(j) \in 1 .. Len(gs) /\ to(from(j)) = j
  BY <1>1
<1>4. \A j \in 1 .. Len(gs) : to(j) \in 1 .. Len(gs) /\ from(to(j)) = j
  BY <1>1
<1> HIDE DEF from, to
<1>5. ASSUME NEW p \in Places(new, o)
      PROVE  \E j \in 1 .. Len(gs) : \E i : p = <<j, i>> /\ <<from(j), i>> \in Places(gs, o)
  <2>1. PICK j \in 1 .. Len(gs) : \E i \in Slots(new[j], o) : p = <<j, i>>
    BY <1>2, <1>5, PlaceOf
  <2>1b. PICK i \in Slots(new[j], o) : p = <<j, i>>
    BY <2>1
  <2>2. i \in Slots(gs[from(j)], o) /\ from(j) \in 1 .. Len(gs)
    BY <1>2, <1>3, <2>1b
  <2>3. <<from(j), i>> \in Places(gs, o)
    BY <2>2, PlaceOf
  <2>4. QED BY <2>1b, <2>3
<1>6. Places(gs, o) = {} => Places(new, o) = {}
  BY <1>5
<1>7. ASSUME Single(Places(gs, o)) PROVE Single(Places(new, o))
  <2>1. PICK p \in Places(gs, o) : Places(gs, o) = {p}
    BY <1>7 DEF Single
  <2>2. PICK j \in 1 .. Len(gs) : \E i \in Slots(gs[j], o) : p = <<j, i>>
    BY PlaceOf
  <2>2b. PICK i \in Slots(gs[j], o) : p = <<j, i>>
    BY <2>2
  <2>3. to(j) \in 1 .. Len(new) /\ i \in Slots(new[to(j)], o)
    BY <1>2, <1>4, <2>2b
  <2>4. <<to(j), i>> \in Places(new, o)
    BY <2>3, PlaceOf
  <2>5. ASSUME NEW q \in Places(new, o) PROVE q = <<to(j), i>>
    <3>0. PICK k \in 1 .. Len(gs) : \E l : q = <<k, l>> /\ <<from(k), l>> \in Places(gs, o)
      BY <1>5, <2>5
    <3>1. PICK l : q = <<k, l>> /\ <<from(k), l>> \in Places(gs, o)
      BY <3>0
    <3>2. <<from(k), l>> = <<j, i>>
      BY <2>1, <2>2b, <3>1
    <3>3. from(k) = j /\ l = i
      BY <3>2, PairEqual
    <3>4. QED BY <1>3, <3>1, <3>3
  <2>6. Places(new, o) = {<<to(j), i>>}
    BY <2>4, <2>5
  <2>7. QED BY <2>4, <2>6 DEF Single
<1>8. QED BY <1>6, <1>7 DEF new

(* A set with its elements in order                                        *)
LEMMA SetFacts ==
  ASSUME NEW gs \in Seq(Group), NEW cur, NEW tags, SetInv(gs, cur, tags)
  PROVE  /\ Len(gs) \in Nat /\ cur \in 1 .. Len(gs)
         /\ \A j \in 1 .. Len(gs) : gs[j] \in Group /\ GroupInv(gs[j], tags)
         /\ \A j \in 1 .. Len(gs) : j > cur => Reset(gs[j])
         /\ \A j \in 1 .. Len(gs) : j < cur => ~Spent(gs[j])
  BY LenProperties, ElementOfSeq DEF SetInv

(* The groups after the loop of hard_clean_until, before it rehooks        *)
CleanedGroups(t, max) ==
  [j \in 1 .. Len(groups[t]) |->
     IF j \in Visited(t, max) THEN group_clean(groups[t][j], max)
                              ELSE groups[t][j]]

Freed(t, max) == UNION {Cleaned(groups[t][j], max) : j \in Visited(t, max)}

(* The loop takes away whole epochs that are over, from the front.         *)
LEMMA CleanLoop ==
  ASSUME NEW t \in Thread, groups[t] \in Seq(Group), NEW tags \in [Obj -> Epoch],
         SetInv(groups[t], current[t], tags), NEW max \in Epoch
  PROVE  LET gs == CleanedGroups(t, max)
             c == Emptied(t, max)
         IN /\ gs \in Seq(Group) /\ Len(gs) = Len(groups[t])
            /\ c \in 0 .. current[t]
            /\ \A j \in 1 .. Len(gs) : GroupInv(gs[j], tags)
            /\ \A j \in 1 .. Len(gs) : j <= c \/ j > current[t] => Reset(gs[j])
            /\ \A j \in 1 .. Len(gs) : c < j /\ j < current[t] => ~Spent(gs[j])
            /\ c < current[t] => ~Spent(gs[c + 1])
            /\ \A o \in Freed(t, max) :
                 o \in Obj /\ tags[o] < max /\ Places(groups[t], o) # {}
            /\ \A o \in Freed(t, max) :
                 Single(Places(groups[t], o)) => Places(gs, o) = {}
            /\ \A o \in Obj \ Freed(t, max) : Places(gs, o) = Places(groups[t], o)
<1> DEFINE G == groups[t]
           cur == current[t]
           gs == CleanedGroups(t, max)
           c == Emptied(t, max)
           V == Visited(t, max)
           s(j) == StopsAt(G[j], max)
<1>1. /\ Len(G) \in Nat /\ cur \in 1 .. Len(G)
      /\ \A j \in 1 .. Len(G) : G[j] \in Group /\ GroupInv(G[j], tags)
      /\ \A j \in 1 .. Len(G) : j > cur => Reset(G[j])
      /\ \A j \in 1 .. Len(G) : j < cur => ~Spent(G[j])
  BY SetFacts
<1>2. /\ c \in 0 .. cur
      /\ \A j \in 1 .. c : s(j) = Len(G[j].e)
      /\ c < cur => s(c + 1) # Len(G[c + 1].e)
  <2>1. current[t] \in Nat
    BY <1>1
  <2>2. QED BY <2>1, EmptiedCount
<1>3. V = 1 .. (IF c = cur THEN cur ELSE c + 1)
  BY DEF Visited
<1>4. DOMAIN gs = 1 .. Len(G)
      /\ \A j \in 1 .. Len(G) : gs[j] = IF j \in V THEN group_clean(G[j], max) ELSE G[j]
  BY DEF CleanedGroups
<1> HIDE DEF c, V, gs
<1>5. \A j \in 1 .. Len(G) :
        /\ group_clean(G[j], max) \in Group
        /\ GroupInv(group_clean(G[j], max), tags)
        /\ s(j) = Len(G[j].e) => Reset(group_clean(G[j], max))
        /\ s(j) # Len(G[j].e) => ~Spent(group_clean(G[j], max))
        /\ \A o \in Obj : Slots(group_clean(G[j], max), o) = {i \in Slots(G[j], o) : i > s(j)}
        /\ \A o \in Obj : o \in Cleaned(G[j], max) <=> \E i \in Slots(G[j], o) : i <= s(j)
        /\ \A o \in Cleaned(G[j], max) : tags[o] < max
  BY <1>1, GroupClean
<1>6. \A j \in 1 .. Len(G) : gs[j] \in Group /\ GroupInv(gs[j], tags)
  BY <1>1, <1>4, <1>5
<1>7. gs \in Seq(Group) /\ Len(gs) = Len(G)
  <2>1. gs \in [1 .. Len(G) -> Group]
    BY <1>4, <1>6 DEF gs, CleanedGroups
  <2>2. QED BY <1>1, <2>1
<1>8. ASSUME NEW j \in 1 .. Len(G), j <= c \/ j > cur PROVE Reset(gs[j])
  <2>1. CASE j <= c
    <3>1. j \in 1 .. c /\ j \in V
      BY <1>1, <1>2, <1>3, <2>1
    <3>2. QED BY <1>2, <1>4, <1>5, <3>1
  <2>2. CASE j > cur
    <3>1. j \notin V
      BY <1>1, <1>2, <1>3, <2>2
    <3>2. QED BY <1>1, <1>4, <2>2, <3>1
  <2>3. QED BY <1>8, <2>1, <2>2
<1>9. ASSUME c < cur PROVE ~Spent(gs[c + 1])
  <2>1. c + 1 \in V /\ c + 1 \in 1 .. Len(G)
    BY <1>1, <1>2, <1>3, <1>9
  <2>2. QED BY <1>2, <1>4, <1>5, <1>9, <2>1
<1>10. ASSUME NEW j \in 1 .. Len(G), c < j, j < cur PROVE ~Spent(gs[j])
  <2>1. CASE j = c + 1
    <3>1. c < cur
      BY <1>1, <1>2, <1>10
    <3>2. QED BY <1>9, <2>1, <3>1
  <2>2. CASE j # c + 1
    <3>1. j \notin V
      BY <1>1, <1>2, <1>3, <1>10, <2>2
    <3>2. QED BY <1>1, <1>4, <1>10, <3>1
  <2>3. QED BY <2>1, <2>2
<1>11. V \subseteq 1 .. Len(G)
  BY <1>1, <1>2, <1>3
<1>12. ASSUME NEW o \in Obj, NEW j \in 1 .. Len(G), NEW i
       PROVE  i \in Slots(gs[j], o) <=> i \in Slots(G[j], o) /\ ~(j \in V /\ i <= s(j))
  <2>1. i \in Slots(G[j], o) => i \in Nat
    <3>1. G[j].head \in Nat
      BY <1>1 DEF Group
    <3>2. i \in Slots(G[j], o) => i \in G[j].head + 1 .. Len(G[j].e)
      BY DEF Slots
    <3>3. QED BY <3>1, <3>2
  <2>2. s(j) \in Nat
    <3>1. s(j) \in G[j].head .. Len(G[j].e)
      BY <1>1, StopsAtExists DEF GroupInv
    <3>2. QED BY <1>1, <3>1 DEF Group
  <2>3. CASE j \in V
    <3>1. gs[j] = group_clean(G[j], max)
      BY <1>4, <2>3
    <3>2. Slots(gs[j], o) = {l \in Slots(G[j], o) : l > s(j)}
      BY <1>5, <3>1
    <3>3. QED BY <2>1, <2>2, <2>3, <3>2
  <2>4. CASE j \notin V
    BY <1>4, <2>4
  <2>5. QED BY <2>3, <2>4
<1>13. ASSUME NEW o \in Obj
       PROVE  o \in Freed(t, max) <=> \E j \in V : \E i \in Slots(G[j], o) : i <= s(j)
  <2>1. o \in Freed(t, max) <=> \E j \in V : o \in Cleaned(G[j], max)
    BY DEF Freed, V
  <2>2. QED BY <1>5, <1>11, <2>1
<1>14. ASSUME NEW o \in Freed(t, max)
       PROVE  o \in Obj /\ tags[o] < max /\ Places(G, o) # {}
  <2>1. PICK j \in V : o \in Cleaned(G[j], max)
    BY DEF Freed, V
  <2>2. o \in Obj
    <3>1. PICK l \in G[j].head + 1 .. s(j) : G[j].e[l].object = o /\ o # NoObj
      BY <2>1 DEF Cleaned
    <3>2. G[j] \in Group /\ s(j) \in G[j].head .. Len(G[j].e)
      BY <1>1, <1>11, StopsAtExists DEF GroupInv
    <3>3. l \in 1 .. Len(G[j].e) /\ G[j].e \in Seq(Slot)
      BY <3>2 DEF Group
    <3>4. G[j].e[l] \in Slot
      BY <3>3, ElementOfSeq
    <3>5. QED BY <3>1, <3>4 DEF Slot
  <2>3. tags[o] < max
    BY <1>5, <1>11, <2>1
  <2>4. PICK i \in Slots(G[j], o) : i <= s(j)
    BY <1>5, <1>11, <2>1, <2>2
  <2>5. <<j, i>> \in Places(G, o)
    BY <1>11, <2>4, PlaceOf
  <2>6. QED BY <2>2, <2>3, <2>5
<1>15. ASSUME NEW o \in Freed(t, max), Single(Places(G, o)) PROVE Places(gs, o) = {}
  <2>1. o \in Obj
    BY <1>14
  <2>2. PICK j \in V : \E i \in Slots(G[j], o) : i <= s(j)
    BY <1>13, <2>1
  <2>2b. PICK i \in Slots(G[j], o) : i <= s(j)
    BY <2>2
  <2>3. <<j, i>> \in Places(G, o)
    BY <1>11, <2>2b, PlaceOf
  <2>4. SUFFICES ASSUME NEW p \in Places(gs, o) PROVE FALSE
    OBVIOUS
  <2>5. PICK k \in 1 .. Len(G) : \E l \in Slots(gs[k], o) : p = <<k, l>>
    BY <1>7, PlaceOf
  <2>5b. PICK l \in Slots(gs[k], o) : p = <<k, l>>
    BY <2>5
  <2>6. l \in Slots(G[k], o) /\ ~(k \in V /\ l <= s(k))
    BY <1>12, <2>1, <2>5b
  <2>7. <<k, l>> \in Places(G, o)
    BY <2>5b, <2>6, PlaceOf
  <2>8. <<k, l>> = <<j, i>>
    BY <1>15, <2>3, <2>7 DEF Single
  <2>9. k = j /\ l = i
    BY <2>8, PairEqual
  <2>10. QED BY <2>2b, <2>6, <2>9
<1>16. ASSUME NEW o \in Obj \ Freed(t, max) PROVE Places(gs, o) = Places(G, o)
  <2>1. \A j \in 1 .. Len(G) : \A i : i \in Slots(gs[j], o) <=> i \in Slots(G[j], o)
    BY <1>12, <1>13, <1>16
  <2>2. ASSUME NEW p PROVE p \in Places(gs, o) <=> p \in Places(G, o)
    <3>1. p \in Places(gs, o) <=>
            \E j \in 1 .. Len(G) : \E i \in Slots(gs[j], o) : p = <<j, i>>
      BY <1>7, PlaceOf
    <3>2. p \in Places(G, o) <=>
            \E j \in 1 .. Len(G) : \E i \in Slots(G[j], o) : p = <<j, i>>
      BY PlaceOf
    <3>3. QED BY <2>1, <3>1, <3>2
  <2>3. QED BY <2>2
<1>17. QED
  BY <1>2, <1>6, <1>7, <1>8, <1>9, <1>10, <1>14, <1>15, <1>16 DEF gs, c

(* hard_clean_until as a whole                                             *)
LEMMA SetClean ==
  ASSUME NEW t \in Thread, groups \in [Thread -> Seq(Group)], current \in [Thread -> Nat],
         NEW tags \in [Obj -> Epoch], SetInv(groups[t], current[t], tags),
         NEW max \in Epoch, hard_clean_until(t, max)
  PROVE  \E gs \in Seq(Group), c \in Nat :
           /\ groups' = [groups EXCEPT ![t] = gs]
           /\ current' = [current EXCEPT ![t] = c]
           /\ SetInv(gs, c, tags)
           /\ destroyed' = [o \in Obj |-> destroyed[o] + IF o \in Freed(t, max) THEN 1 ELSE 0]
           /\ \A o \in Freed(t, max) :
                /\ o \in Obj /\ tags[o] < max /\ Places(groups[t], o) # {}
                /\ Single(Places(groups[t], o)) => Places(gs, o) = {}
           /\ \A o \in Obj \ Freed(t, max) :
                /\ Places(groups[t], o) = {} => Places(gs, o) = {}
                /\ Single(Places(groups[t], o)) => Single(Places(gs, o))
<1> DEFINE cs == CleanedGroups(t, max)
           c == Emptied(t, max)
           cur == current[t]
<1>1. groups[t] \in Seq(Group)
  OBVIOUS
<1>2. /\ cs \in Seq(Group) /\ Len(cs) = Len(groups[t])
      /\ c \in 0 .. cur
      /\ \A j \in 1 .. Len(cs) : GroupInv(cs[j], tags)
      /\ \A j \in 1 .. Len(cs) : j <= c \/ j > cur => Reset(cs[j])
      /\ \A j \in 1 .. Len(cs) : c < j /\ j < cur => ~Spent(cs[j])
      /\ c < cur => ~Spent(cs[c + 1])
      /\ \A o \in Freed(t, max) :
           o \in Obj /\ tags[o] < max /\ Places(groups[t], o) # {}
      /\ \A o \in Freed(t, max) :
           Single(Places(groups[t], o)) => Places(cs, o) = {}
      /\ \A o \in Obj \ Freed(t, max) : Places(cs, o) = Places(groups[t], o)
  BY <1>1, CleanLoop
<1>3. /\ destroyed' = [o \in Obj |-> destroyed[o] + IF o \in Freed(t, max) THEN 1 ELSE 0]
      /\ c = cur => groups' = [groups EXCEPT ![t] = cs] /\ current' = [current EXCEPT ![t] = 1]
      /\ c # cur => /\ groups' = [groups EXCEPT ![t] = rehooked(cs, c, cur)]
                    /\ current' = [current EXCEPT ![t] = @ - c]
  BY DEF hard_clean_until, CleanedGroups, Freed
<1>4. cur \in 1 .. Len(cs) /\ Len(cs) \in Nat /\ cur \in Nat
  BY <1>1, <1>2, SetFacts
<1> HIDE DEF cs, c
<1>5. CASE c = cur
  <2>1. SetInv(cs, 1, tags)
    <3>1. \A j \in 1 .. Len(cs) : Reset(cs[j])
      BY <1>2, <1>4, <1>5
    <3>2. QED BY <1>2, <1>4, <3>1 DEF SetInv
  <2>2. /\ cs \in Seq(Group) /\ 1 \in Nat
        /\ groups' = [groups EXCEPT ![t] = cs]
        /\ current' = [current EXCEPT ![t] = 1]
    BY <1>2, <1>3, <1>5
  <2>3. QED BY <1>2, <1>3, <2>1, <2>2
<1>6. CASE c # cur
  <2> DEFINE gs == rehooked(cs, c, cur)
  <2>1. c < cur /\ c \in Nat
    BY <1>2, <1>4, <1>6
  <2>2. /\ gs \in Seq(Group) /\ Len(gs) = Len(cs)
        /\ \A j \in 1 .. cur - c : gs[j] = cs[c + j]
        /\ \A j \in cur - c + 1 .. cur : gs[j] = cs[j - (cur - c)]
        /\ \A j \in cur + 1 .. Len(cs) : gs[j] = cs[j]
    BY <1>2, <1>4, RehookedAt
  <2>3. \A o \in Obj : /\ Places(cs, o) = {} => Places(gs, o) = {}
                       /\ Single(Places(cs, o)) => Single(Places(gs, o))
    BY <1>2, <1>4, RehookedPlaces
  <2> HIDE DEF gs
  <2>4. SetInv(gs, cur - c, tags)
    <3>1. cur - c \in 1 .. Len(gs)
      BY <1>4, <2>1, <2>2
    <3>2. ASSUME NEW j \in 1 .. Len(gs)
          PROVE  /\ GroupInv(gs[j], tags)
                 /\ j > cur - c => Reset(gs[j])
                 /\ j < cur - c => ~Spent(gs[j])
      <4>1. CASE j <= cur - c
        <5>1. /\ j \in 1 .. cur - c /\ c + j \in 1 .. Len(cs) /\ c < c + j
              /\ (j < cur - c => c + j < cur) /\ ~(j > cur - c)
          BY <1>4, <2>1, <2>2, <4>1
        <5>2. gs[j] = cs[c + j]
          BY <2>2, <5>1
        <5>3. QED BY <1>2, <5>1, <5>2
      <4>2. CASE j > cur - c /\ j <= cur
        <5>1. /\ j \in cur - c + 1 .. cur /\ j - (cur - c) \in 1 .. Len(cs) /\ j - (cur - c) <= c
              /\ ~(j < cur - c)
          BY <1>4, <2>1, <2>2, <4>2
        <5>2. gs[j] = cs[j - (cur - c)]
          BY <2>2, <5>1
        <5>3. QED BY <1>2, <5>1, <5>2
      <4>3. CASE j > cur
        <5>1. j \in cur + 1 .. Len(cs) /\ j \in 1 .. Len(cs) /\ ~(j < cur - c)
          BY <1>4, <2>1, <2>2, <4>3
        <5>2. gs[j] = cs[j]
          BY <2>2, <5>1
        <5>3. QED BY <1>2, <4>3, <5>1, <5>2
      <4>4. QED BY <1>4, <2>1, <2>2, <4>1, <4>2, <4>3
    <3>3. QED BY <3>1, <3>2 DEF SetInv
  <2>5. /\ gs \in Seq(Group) /\ cur - c \in Nat
        /\ groups' = [groups EXCEPT ![t] = gs]
        /\ current' = [current EXCEPT ![t] = cur - c]
    BY <1>3, <1>4, <1>6, <2>1, <2>2 DEF gs
  <2>6. \A o \in Freed(t, max) :
          /\ o \in Obj /\ tags[o] < max /\ Places(groups[t], o) # {}
          /\ Single(Places(groups[t], o)) => Places(gs, o) = {}
    BY <1>2, <2>3
  <2>7. \A o \in Obj \ Freed(t, max) :
          /\ Places(groups[t], o) = {} => Places(gs, o) = {}
          /\ Single(Places(groups[t], o)) => Single(Places(gs, o))
    BY <1>2, <2>3
  <2>8. QED BY <1>3, <2>4, <2>5, <2>6, <2>7
<1>7. QED BY <1>5, <1>6

LEMMA EmptyGroupOK ==
  ASSUME NEW tags, NEW n \in {FirstCapacity, NextCapacity}
  PROVE  /\ EmptyGroup(n) \in Group /\ GroupInv(EmptyGroup(n), tags)
         /\ Reset(EmptyGroup(n)) /\ EmptyGroup(n).capacity = n
         /\ \A o : Slots(EmptyGroup(n), o) = {}
<1>1. n \in Nat /\ n >= 2 /\ 0 \in Epoch
  BY SizeAssumption
<1>2. /\ EmptyGroup(n).capacity = n /\ EmptyGroup(n).head = 0
      /\ EmptyGroup(n).epoch = 0 /\ EmptyGroup(n).e = <<>> /\ Len(<<>>) = 0
  BY DEF EmptyGroup
<1>3. EmptyGroup(n) \in Group
  <2>1. <<>> \in Seq(Slot)
    BY EmptySeq
  <2>2. QED BY <1>1, <2>1 DEF EmptyGroup, Group
<1>4. QED BY <1>1, <1>2, <1>3 DEF GroupInv, Spent, Reset, Slots

(* A full group is not spent: rcu_delete may leave it behind.              *)
LEMMA FullGroup ==
  ASSUME NEW gr \in Group, NEW tags, GroupInv(gr, tags)
  PROVE  /\ Len(gr.e) + 2 > gr.capacity => ~Spent(gr)
         /\ Reset(gr) => Len(gr.e) + 2 <= gr.capacity
<1>1. gr.capacity \in Nat /\ gr.capacity >= 2 /\ Len(gr.e) \in Nat
  BY SizeAssumption, LenProperties DEF Group
<1>2. Reset(gr) => Len(gr.e) = 0
  BY DEF Reset
<1>3. QED BY <1>1, <1>2 DEF GroupInv

(* TRcuSet::add, with grow                                                 *)
LEMMA SetAdd ==
  ASSUME NEW t \in Thread, groups \in [Thread -> Seq(Group)], current \in [Thread -> Nat],
         NEW tags \in [Obj -> Epoch], SetInv(groups[t], current[t], tags),
         NEW o \in Obj, NEW ep \in Epoch, tags[o] = ep, Places(groups[t], o) = {},
         add(t, ep, o)
  PROVE  \E gs \in Seq(Group), c \in Nat :
           /\ groups' = [groups EXCEPT ![t] = gs]
           /\ current' = [current EXCEPT ![t] = c]
           /\ SetInv(gs, c, tags)
           /\ Single(Places(gs, o))
           /\ \A x \in Obj \ {o} : Places(gs, x) = Places(groups[t], x)
<1> DEFINE G == groups[t]
           cur == current[t]
           full == Len(G[cur].e) + 2 > G[cur].capacity
           c == IF full THEN cur + 1 ELSE cur
           H == IF full THEN grown(t) ELSE G
           gs == [H EXCEPT ![c] = group_add(H[c], ep, o)]
<1>1. G \in Seq(Group) /\ cur \in Nat
  OBVIOUS
<1>2. /\ Len(G) \in Nat /\ cur \in 1 .. Len(G)
      /\ \A j \in 1 .. Len(G) : G[j] \in Group /\ GroupInv(G[j], tags)
      /\ \A j \in 1 .. Len(G) : j > cur => Reset(G[j])
      /\ \A j \in 1 .. Len(G) : j < cur => ~Spent(G[j])
  BY <1>1, SetFacts
<1>3. groups' = [groups EXCEPT ![t] = gs] /\ current' = [current EXCEPT ![t] = c]
  <2>1. CASE full
    BY <2>1 DEF add
  <2>2. CASE ~full
    <3>1. groups' = [groups EXCEPT ![t][cur] = group_add(@, ep, o)] /\ current' = current
      BY <2>2 DEF add
    <3>2. QED BY <2>2, <3>1
  <2>3. QED BY <2>1, <2>2
<1>4. /\ H \in Seq(Group) /\ c \in 1 .. Len(H) /\ Len(H) \in Nat
      /\ \A j \in 1 .. Len(H) : H[j] \in Group /\ GroupInv(H[j], tags)
      /\ \A j \in 1 .. Len(H) : j > c => Reset(H[j])
      /\ \A j \in 1 .. Len(H) : j < c => ~Spent(H[j])
      /\ Len(H[c].e) + 2 <= H[c].capacity
      /\ \A x \in Obj : Places(H, x) = Places(G, x)
  <2>1. CASE ~full
    <3>1. H = G /\ c = cur
      BY <2>1
    <3>2. Len(G[cur].e) \in Nat /\ G[cur].capacity \in Nat
      BY <1>2, LenProperties, SizeAssumption DEF Group
    <3>3. QED BY <1>1, <1>2, <2>1, <3>1, <3>2
  <2>2. CASE full /\ cur # Len(G)
    <3>1. H = G /\ c = cur + 1
      BY <2>2 DEF grown
    <3>2. c \in 1 .. Len(G) /\ c > cur
      BY <1>2, <2>2, <3>1
    <3>3. ~Spent(G[cur])
      BY <1>2, <2>2, FullGroup
    <3>4. \A j \in 1 .. Len(G) : j < c => j < cur \/ j = cur
      BY <1>2, <3>1
    <3>5. Len(G[c].e) + 2 <= G[c].capacity
      BY <1>2, <3>2, FullGroup
    <3>6. \A j \in 1 .. Len(G) : j > c => j > cur
      BY <1>2, <3>1
    <3>7. QED BY <1>1, <1>2, <3>1, <3>2, <3>3, <3>4, <3>5, <3>6
  <2>3. CASE full /\ cur = Len(G)
    <3> DEFINE E == EmptyGroup(NextCapacity)
    <3>1. H = Append(G, E) /\ c = Len(G) + 1
      BY <2>3 DEF grown
    <3>2. /\ E \in Group /\ GroupInv(E, tags) /\ Reset(E)
          /\ \A x : Slots(E, x) = {}
      BY EmptyGroupOK
    <3> HIDE DEF E, H
    <3>3. /\ H \in Seq(Group) /\ Len(H) = Len(G) + 1
          /\ \A j \in 1 .. Len(G) : H[j] = G[j]
          /\ H[Len(G) + 1] = E
      BY <1>1, <3>1, <3>2, AppendProperties
    <3>4. ~Spent(G[cur])
      BY <1>2, <2>3, FullGroup
    <3>5. Len(E.e) + 2 <= E.capacity
      BY <3>2, FullGroup
    <3>6. \A j \in 1 .. Len(H) : j \in 1 .. Len(G) \/ j = Len(G) + 1
      BY <1>2, <3>3
    <3>7. c \in 1 .. Len(H) /\ Len(H) \in Nat /\ H[c] = E
      BY <1>2, <3>1, <3>3
    <3>8. \A j \in 1 .. Len(H) : H[j] \in Group /\ GroupInv(H[j], tags)
      BY <1>2, <3>2, <3>3, <3>6
    <3>9. \A j \in 1 .. Len(H) : ~(j > c)
      BY <1>2, <3>1, <3>3
    <3>10. \A j \in 1 .. Len(H) : j < c => ~Spent(H[j])
      <4>1. \A j \in 1 .. Len(H) : j < c => j \in 1 .. Len(G) /\ (j < cur \/ j = cur)
        BY <1>2, <2>3, <3>1, <3>3
      <4>2. QED BY <1>2, <3>3, <3>4, <4>1
    <3>11. ASSUME NEW x \in Obj PROVE Places(H, x) = Places(G, x)
      <4>1. ASSUME NEW p PROVE p \in Places(H, x) <=> p \in Places(G, x)
        <5>1. p \in Places(H, x) <=>
                \E j \in 1 .. Len(H) : \E i \in Slots(H[j], x) : p = <<j, i>>
          BY PlaceOf
        <5>2. p \in Places(G, x) <=>
                \E j \in 1 .. Len(G) : \E i \in Slots(G[j], x) : p = <<j, i>>
          BY PlaceOf
        <5>3. 1 .. Len(G) \subseteq 1 .. Len(H)
          BY <1>2, <3>3
        <5>4. QED BY <3>2, <3>3, <3>6, <5>1, <5>2, <5>3
      <4>2. QED BY <4>1
    <3>12. QED
      BY <3>3, <3>5, <3>7, <3>8, <3>9, <3>10, <3>11
  <2>4. QED BY <2>1, <2>2, <2>3
<1> DEFINE new == group_add(H[c], ep, o)
<1> HIDE DEF H, c
<1>5. /\ new \in Group /\ GroupInv(new, tags) /\ ~Spent(new)
      /\ Slots(new, o) = Slots(H[c], o) \cup {Len(new.e)}
      /\ \A x \in Obj \ {o} : Slots(new, x) = Slots(H[c], x)
  BY <1>4, GroupAdd
<1> HIDE DEF new
<1>6. /\ gs \in Seq(Group) /\ Len(gs) = Len(H)
      /\ \A j \in 1 .. Len(H) : gs[j] = IF j = c THEN new ELSE H[j]
  <2>1. gs = [H EXCEPT ![c] = new]
    BY DEF new
  <2>2. QED BY <1>4, <1>5, <2>1, ExceptSeq
<1> HIDE DEF gs
<1>7. SetInv(gs, c, tags)
  BY <1>4, <1>5, <1>6 DEF SetInv
<1>8. ASSUME NEW x \in Obj \ {o} PROVE Places(gs, x) = Places(G, x)
  <2>1. \A j \in 1 .. Len(H) : Slots(gs[j], x) = Slots(H[j], x)
    BY <1>5, <1>6
  <2>2. Places(gs, x) = Places(H, x)
    BY <1>6, <2>1 DEF Places
  <2>3. QED BY <1>4, <2>2
<1>9. Single(Places(gs, o))
  <2>1. \A j \in 1 .. Len(H) : Slots(H[j], o) = {}
    <3>1. Places(H, o) = {}
      BY <1>4
    <3>2. ASSUME NEW j \in 1 .. Len(H), NEW i \in Slots(H[j], o) PROVE FALSE
      <4>1. <<j, i>> \in Places(H, o)
        BY PlaceOf
      <4>2. QED BY <3>1, <4>1
    <3>3. QED BY <3>2
  <2>2. Slots(gs[c], o) = {Len(new.e)}
    BY <1>4, <1>5, <1>6, <2>1
  <2>3. \A j \in 1 .. Len(H) : j # c => Slots(gs[j], o) = {}
    BY <1>6, <2>1
  <2>4. <<c, Len(new.e)>> \in Places(gs, o)
    <3>1. c \in 1 .. Len(gs) /\ Len(new.e) \in Slots(gs[c], o)
      BY <1>4, <1>6, <2>2
    <3>2. QED BY <3>1, PlaceOf
  <2>5. ASSUME NEW p \in Places(gs, o) PROVE p = <<c, Len(new.e)>>
    <3>1. PICK j \in 1 .. Len(gs) : \E i \in Slots(gs[j], o) : p = <<j, i>>
      BY <2>5, PlaceOf
    <3>2. j = c
      BY <1>6, <2>3, <3>1
    <3>3. QED BY <2>2, <3>1, <3>2
  <2>6. Places(gs, o) = {<<c, Len(new.e)>>}
    BY <2>4, <2>5
  <2>7. QED BY <2>4, <2>6 DEF Single
<1>10. QED
  <2>1. c \in Nat
    BY <1>4
  <2>2. QED BY <1>3, <1>6, <1>7, <1>8, <1>9, <2>1

-----------------------------------------------------------------------------
(* The invariant                                                           *)

LEMMA RcuInvInit == Init => RcuInv
<1> SUFFICES ASSUME Init PROVE RcuInv
  OBVIOUS
<1>1. 0 \in Epoch /\ 1 \in Epoch /\ 1 \in Thread
  BY SizeAssumption
<1> DEFINE E == EmptyGroup(FirstCapacity)
<1>2. /\ E \in Group /\ GroupInv(E, tag) /\ Reset(E)
      /\ \A x : Slots(E, x) = {}
  BY EmptyGroupOK
<1> HIDE DEF E
<1>3. <<E>> \in Seq(Group) /\ Len(<<E>>) = 1 /\ <<E>>[1] = E
  BY <1>2
<1>4. \A t \in Thread : groups[t] = <<E>> /\ current[t] = 1
  BY DEF Init, E
<1>5. TypeOK
  <2>1. groups \in [Thread -> Seq(Group)]
    BY <1>3 DEF Init, E
  <2>2. global_epoch \in Epoch \ {0} /\ scan \in 0 .. N
    BY SizeAssumption DEF Init
  <2>3. 0 \in 0 .. 1 /\ 1 \in Nat
    OBVIOUS
  <2>4. owner \in [Obj -> Thread] /\ destroyed \in [Obj -> 0 .. 1] /\ tag \in [Obj -> Epoch]
        /\ elders \in [Thread -> SUBSET Thread] /\ guard \in [Obj -> SUBSET Thread]
        /\ unlinked \in [Thread -> SUBSET Obj] /\ linked \subseteq Obj
    BY <1>1, <2>3 DEF Init
  <2>5. epoch \in [Thread -> Epoch] /\ loaded \in [Thread -> Epoch] /\ clean_epoch \in [Thread -> Epoch]
        /\ current \in [Thread -> Nat] /\ active_epoch \in Epoch /\ g \in Epoch /\ e \in Epoch
    BY <1>1, <2>3 DEF Init
  <2>6. pc \in [Thread -> {"idle", "store", "clean", "run"}]
        /\ apc \in {"load", "scan", "global", "active"}
    BY DEF Init
  <2>7. QED BY <2>1, <2>2, <2>4, <2>5, <2>6 DEF TypeOK
<1>6. EpochInv /\ ElderInv /\ ElderProtected /\ ObjectInv
  BY <1>1 DEF Init, EpochInv, ElderInv, ElderProtected, ObjectInv, Published
<1>7. ASSUME NEW t \in Thread PROVE SetInv(groups[t], current[t], tag)
  <2>1. SetInv(<<E>>, 1, tag)
    <3>1. \A j \in 1 .. Len(<<E>>) : j = 1 /\ <<E>>[j] = E
      BY <1>3
    <3>2. 1 \in 1 .. Len(<<E>>)
      BY <1>3
    <3>3. QED BY <1>2, <3>1, <3>2 DEF SetInv
  <2>2. QED BY <1>4, <2>1
<1>8. ASSUME NEW t \in Thread, NEW o \in Obj PROVE PlaceInv(t, o)
  <2>1. Places(<<E>>, o) = {}
    BY <1>2, <1>3 DEF Places
  <2>2. tag[o] = 0
    BY DEF Init
  <2>3. QED BY <1>4, <2>1, <2>2 DEF PlaceInv
<1>9. QED BY <1>5, <1>6, <1>7, <1>8 DEF RcuInv

(* Steps that leave the sets of deleted objects alone                      *)
LEMMA SetsKept ==
  ASSUME RcuInv, UNCHANGED <<groups, current, tag, owner, destroyed>>
  PROVE  /\ \A t \in Thread : SetInv(groups[t], current[t], tag)'
         /\ \A t \in Thread, o \in Obj : PlaceInv(t, o)'
  BY DEF RcuInv, PlaceInv

(* The advancer                                                            *)
LEMMA AdvanceStep ==
  ASSUME RcuInv, Advance PROVE RcuInv'
<1>1. TypeOK /\ EpochInv /\ ElderInv /\ ElderProtected /\ ObjectInv
  BY DEF RcuInv
<1>2. UNCHANGED <<epoch, setVars, pc, loaded, objVars, histVars>>
  BY DEF Advance, AdvanceLoad, AdvanceScan, AdvanceGlobal, AdvanceActive, epochVars
<1>3. /\ global_epoch' \in Epoch \ {0} /\ active_epoch' \in Epoch
      /\ apc' \in {"load", "scan", "global", "active"}
      /\ g' \in Epoch /\ e' \in Epoch /\ scan' \in 0 .. N
      /\ active_epoch' <= global_epoch' /\ global_epoch <= global_epoch'
      /\ apc' # "load" => e' <= global_epoch'
      /\ apc' \in {"scan", "global"} => g' = global_epoch'
      /\ apc' = "scan" => scan' >= 1
  <2>1. /\ global_epoch \in Epoch \ {0} /\ active_epoch \in Epoch /\ epoch \in [Thread -> Epoch]
        /\ apc \in {"load", "scan", "global", "active"}
        /\ g \in Epoch /\ e \in Epoch /\ scan \in 0 .. N
        /\ active_epoch <= global_epoch
        /\ apc # "load" => e <= global_epoch
        /\ apc \in {"scan", "global"} => g = global_epoch
        /\ apc = "scan" => scan >= 1
    BY <1>1 DEF TypeOK, EpochInv
  <2>2. CASE AdvanceLoad
    BY <2>1, <2>2, SizeAssumption DEF AdvanceLoad, epochVars
  <2>3. CASE AdvanceScan
    <3>1. scan \in Thread /\ epoch[scan] \in Epoch
      BY <2>1, <2>3 DEF AdvanceScan
    <3>2. e' \in Epoch /\ e' <= e
      BY <2>1, <2>3, <3>1, SizeAssumption DEF AdvanceScan, Oldest
    <3>3. e' <= global_epoch
      BY <2>1, <2>3, <3>2, SizeAssumption DEF AdvanceScan
    <3>4. QED BY <2>1, <2>3, <3>2, <3>3, SizeAssumption DEF AdvanceScan, epochVars
  <2>4. CASE AdvanceGlobal
    BY <2>1, <2>4, SizeAssumption DEF AdvanceGlobal
  <2>5. CASE AdvanceActive
    BY <2>1, <2>5, SizeAssumption DEF AdvanceActive
  <2>6. QED BY <2>2, <2>3, <2>4, <2>5 DEF Advance
<1>4. TypeOK' /\ EpochInv'
  <2>1. TypeOK'
    BY <1>1, <1>2, <1>3 DEF TypeOK, setVars, objVars, histVars
  <2>2. Published' = Published
    BY <1>2 DEF Published
  <2>3. ASSUME NEW t \in Thread
        PROVE  /\ epoch'[t] <= global_epoch'
               /\ pc'[t] = "store" => 1 <= loaded'[t] /\ loaded'[t] <= global_epoch'
               /\ t \in Published' => 1 <= epoch'[t]
    <3>1. global_epoch \in Nat /\ global_epoch' \in Nat /\ epoch[t] \in Nat /\ loaded[t] \in Nat
      BY <1>1, <1>3, SizeAssumption DEF TypeOK
    <3>2. /\ epoch[t] <= global_epoch
          /\ pc[t] = "store" => 1 <= loaded[t] /\ loaded[t] <= global_epoch
          /\ t \in Published => 1 <= epoch[t]
      BY <1>1 DEF EpochInv
    <3>3. QED BY <1>2, <1>3, <2>2, <3>1, <3>2
  <2>4. QED BY <1>3, <2>1, <2>3 DEF EpochInv
<1>5. ASSUME NEW u \in Thread, NEW ep \in Epoch, Holds(u, ep) PROVE Holds(u, ep)'
  <2>1. u \in Published' /\ epoch'[u] <= ep /\ epoch[u] \in Nat /\ 1 <= epoch[u]
    <3>1. u \in Published /\ Published' = Published /\ epoch' = epoch /\ epoch[u] <= ep
      BY <1>2, <1>5 DEF Holds, Published
    <3>2. 1 <= epoch[u] /\ epoch[u] \in Epoch
      BY <1>1, <3>1 DEF EpochInv, TypeOK
    <3>3. QED BY <3>1, <3>2
  <2>2. CASE AdvanceLoad
    BY <1>5, <2>1, <2>2 DEF Holds, AdvanceLoad, epochVars
  <2>3. CASE AdvanceScan
    BY <1>1, <1>5, <2>1, <2>3 DEF Holds, AdvanceScan, Oldest, epochVars, TypeOK, EpochInv
  <2>4. CASE AdvanceGlobal
    BY <1>5, <2>1, <2>4 DEF Holds, AdvanceGlobal
  <2>5. CASE AdvanceActive
    BY <1>5, <2>1, <2>5 DEF Holds, AdvanceActive
  <2>6. QED BY <2>2, <2>3, <2>4, <2>5 DEF Advance
<1>6. ElderInv'
  BY <1>1, <1>2, <1>5 DEF ElderInv, Begun, TypeOK, histVars
<1>7. ElderProtected' /\ ObjectInv'
  BY <1>1, <1>2 DEF ElderProtected, ObjectInv, objVars, histVars
<1>8. QED BY <1>2, <1>4, <1>6, <1>7, SetsKept DEF RcuInv, setVars, histVars

(* start(): the two accesses to epochs                                     *)
LEMMA StartLoadStep ==
  ASSUME RcuInv, NEW t \in Thread, StartLoad(t) PROVE RcuInv'
<1>1. TypeOK /\ EpochInv /\ ElderInv /\ ElderProtected /\ ObjectInv
  BY DEF RcuInv
<1>2. /\ UNCHANGED <<epochVars, setVars, advVars, objVars, tag, owner, destroyed, guard>>
      /\ pc[t] = "idle" /\ pc' = [pc EXCEPT ![t] = "store"]
      /\ loaded' = [loaded EXCEPT ![t] = global_epoch]
      /\ elders' = [elders EXCEPT ![t] = IF t \in Deleter THEN Published ELSE {}]
  BY DEF StartLoad
<1>3. TypeOK'
  BY <1>1, <1>2 DEF TypeOK, epochVars, setVars, advVars, objVars, Published
<1>4. Published' = Published
  BY <1>1, <1>2 DEF Published, TypeOK
<1>5. EpochInv'
  BY <1>1, <1>2, <1>4 DEF TypeOK, EpochInv, epochVars, advVars
<1>6. ASSUME NEW u \in Thread, NEW ep PROVE Holds(u, ep)' <=> Holds(u, ep)
  BY <1>2, <1>4 DEF Holds, epochVars, advVars
<1>7. ASSUME NEW u \in Published PROVE Holds(u, global_epoch)
  BY <1>1 DEF Holds, EpochInv, Published, TypeOK
<1>8. ASSUME NEW w \in Thread, pc'[w] # "idle", NEW u \in elders'[w] PROVE Holds(u, Begun(w))'
  <2>1. CASE w = t
    <3>1. u \in Published /\ u \in Thread /\ Begun(w)' = global_epoch
      BY <1>1, <1>2, <1>8, <2>1 DEF TypeOK, Begun, Published
    <3>2. QED BY <1>6, <1>7, <3>1 DEF Holds
  <2>2. CASE w # t
    <3>1. pc[w] # "idle" /\ u \in elders[w] /\ u \in Thread /\ Begun(w)' = Begun(w)
      BY <1>1, <1>2, <1>8, <2>2 DEF TypeOK, Begun, epochVars
    <3>2. Holds(u, Begun(w))
      BY <1>1, <3>1 DEF ElderInv
    <3>3. QED BY <1>6, <3>1, <3>2 DEF Holds
  <2>3. QED BY <2>1, <2>2
<1>9. ElderInv'
  BY <1>1, <1>2, <1>6, <1>8 DEF ElderInv, TypeOK
<1>10. ElderProtected' /\ ObjectInv'
  BY <1>1, <1>2 DEF ElderProtected, ObjectInv, objVars
<1>11. QED BY <1>2, <1>3, <1>5, <1>9, <1>10, SetsKept DEF RcuInv, setVars

LEMMA StartStoreStep ==
  ASSUME RcuInv, NEW t \in Thread, StartStore(t) PROVE RcuInv'
<1>1. TypeOK /\ EpochInv /\ ElderInv /\ ElderProtected /\ ObjectInv
  BY DEF RcuInv
<1>2. /\ UNCHANGED <<global_epoch, active_epoch, setVars, advVars, objVars, histVars>>
      /\ pc[t] = "store" /\ pc' = [pc EXCEPT ![t] = "clean"]
      /\ loaded' = [loaded EXCEPT ![t] = 0]
      /\ epoch' = [epoch EXCEPT ![t] = loaded[t]]
  BY DEF StartStore
<1>3. TypeOK'
  <2>1. epoch' \in [Thread -> Epoch] /\ loaded' \in [Thread -> Epoch]
        /\ pc' \in [Thread -> {"idle", "store", "clean", "run"}]
    <3>1. 0 \in Epoch
      BY SizeAssumption
    <3>2. /\ epoch \in [Thread -> Epoch] /\ loaded \in [Thread -> Epoch]
          /\ pc \in [Thread -> {"idle", "store", "clean", "run"}]
      BY <1>1 DEF TypeOK
    <3>3. loaded[t] \in Epoch
      BY <3>2
    <3>4. QED BY <1>2, <3>1, <3>2, <3>3
  <2>2. QED BY <1>1, <1>2, <2>1 DEF TypeOK, setVars, advVars, objVars, histVars
<1>4. \A u \in Thread : u # t => (u \in Published' <=> u \in Published) /\ epoch'[u] = epoch[u]
  BY <1>1, <1>2 DEF Published, TypeOK
<1>5. t \notin Published
  BY <1>2 DEF Published
<1>6. EpochInv'
  BY <1>1, <1>2, <1>4 DEF TypeOK, EpochInv, advVars
<1>7. ASSUME NEW u, NEW ep, Holds(u, ep) PROVE Holds(u, ep)'
  <2>1. u \in Thread /\ u # t
    BY <1>5, <1>7 DEF Holds, Published
  <2>2. QED BY <1>2, <1>4, <1>7, <2>1 DEF Holds, advVars
<1>8. \A w \in Thread : Begun(w)' = Begun(w) /\ (pc'[w] # "idle" => pc[w] # "idle")
  BY <1>1, <1>2 DEF Begun, TypeOK
<1>9. ElderInv'
  BY <1>1, <1>2, <1>7, <1>8 DEF ElderInv, histVars
<1>10. ElderProtected' /\ ObjectInv'
  BY <1>1, <1>2 DEF ElderProtected, ObjectInv, objVars, histVars
<1>11. QED BY <1>2, <1>3, <1>6, <1>9, <1>10, SetsKept DEF RcuInv, setVars, histVars

(* List::_remove and its like                                              *)
LEMMA UnlinkStep ==
  ASSUME RcuInv, NEW t \in Thread, NEW o \in Obj, Unlink(t, o) PROVE RcuInv'
<1>1. TypeOK /\ EpochInv /\ ElderInv /\ ElderProtected /\ ObjectInv
  BY DEF RcuInv
<1>2. /\ UNCHANGED <<epochVars, setVars, pc, loaded, advVars, histVars>>
      /\ o \in linked /\ linked' = linked \ {o}
      /\ unlinked' = [unlinked EXCEPT ![t] = @ \cup {o}]
  BY DEF Unlink
<1>3. TypeOK'
  BY <1>1, <1>2 DEF TypeOK, epochVars, setVars, advVars, histVars
<1>4. EpochInv' /\ ElderInv' /\ ElderProtected'
  BY <1>1, <1>2 DEF EpochInv, ElderInv, ElderProtected, Holds, Begun, Published, epochVars,
     advVars, histVars
<1>5. ObjectInv'
  <2>1. unlinked \in [Thread -> SUBSET Obj]
    BY <1>1 DEF TypeOK
  <2>2. ASSUME NEW w \in Thread, NEW x \in unlinked'[w]
        PROVE  /\ tag'[x] = 0 /\ x \notin linked'
               /\ \A u \in Thread : x \in unlinked'[u] => u = w
    <3>1. x \in unlinked[w] \/ (x = o /\ w = t)
      BY <1>2, <2>1, <2>2
    <3>2. \A u \in Thread : x \in unlinked'[u] => x \in unlinked[u] \/ (x = o /\ u = t)
      BY <1>2, <2>1
    <3>3. \A u \in Thread : o \notin unlinked[u]
      BY <1>1, <1>2 DEF ObjectInv
    <3>4. QED BY <1>1, <1>2, <3>1, <3>2, <3>3 DEF ObjectInv, histVars
  <2>3. QED BY <1>1, <1>2, <2>2 DEF ObjectInv, histVars
<1>6. QED BY <1>2, <1>3, <1>4, <1>5, SetsKept DEF RcuInv, setVars, histVars

(* Commit or abort                                                         *)
LEMMA FinishStep ==
  ASSUME RcuInv, NEW t \in Thread, Finish(t) PROVE RcuInv'
<1>1. TypeOK /\ EpochInv /\ ElderInv /\ ElderProtected /\ ObjectInv
  BY DEF RcuInv
<1>2. /\ UNCHANGED <<epochVars, setVars, loaded, advVars, linked, unlinked, tag, owner, destroyed>>
      /\ pc' = [pc EXCEPT ![t] = "idle"]
      /\ elders' = [u \in Thread |-> IF u = t THEN {} ELSE elders[u] \ {t}]
      /\ guard' = [o \in Obj |-> guard[o] \ {t}]
  BY DEF Finish
<1>3. TypeOK'
  <2>1. /\ elders' \in [Thread -> SUBSET Thread] /\ guard' \in [Obj -> SUBSET Thread]
        /\ pc' \in [Thread -> {"idle", "store", "clean", "run"}]
    BY <1>1, <1>2 DEF TypeOK
  <2>2. QED BY <1>1, <1>2, <2>1 DEF TypeOK, epochVars, setVars, advVars
<1>4. /\ \A u \in Thread : u # t => (u \in Published' <=> u \in Published) /\ pc'[u] = pc[u]
      /\ t \notin Published' /\ pc'[t] = "idle"
  BY <1>1, <1>2 DEF Published, TypeOK
<1>5. EpochInv'
  BY <1>1, <1>2, <1>4 DEF EpochInv, epochVars, advVars
<1>6. ASSUME NEW u \in Thread, u # t, NEW ep, Holds(u, ep) PROVE Holds(u, ep)'
  BY <1>2, <1>4, <1>6 DEF Holds, epochVars, advVars
<1>7. ASSUME NEW w \in Thread, pc'[w] # "idle", NEW u \in elders'[w] PROVE Holds(u, Begun(w))'
  <2>1. w # t
    BY <1>4, <1>7
  <2>2. u \in elders[w] /\ u # t /\ u \in Thread
    BY <1>1, <1>2, <1>7, <2>1 DEF TypeOK
  <2>3. Begun(w)' = Begun(w) /\ pc[w] # "idle"
    BY <1>2, <1>4, <1>7, <2>1 DEF Begun, epochVars
  <2>4. Holds(u, Begun(w))
    BY <1>1, <2>2, <2>3 DEF ElderInv
  <2>5. QED BY <1>6, <2>2, <2>3, <2>4 DEF Holds
<1>8. ASSUME NEW o \in Obj, NEW u \in guard'[o] PROVE Holds(u, tag[o])'
  <2>1. u \in guard[o] /\ u # t /\ u \in Thread /\ tag'[o] = tag[o]
    BY <1>1, <1>2, <1>8 DEF TypeOK
  <2>2. Holds(u, tag[o])
    BY <1>1, <2>1 DEF ElderInv
  <2>3. QED BY <1>6, <2>1, <2>2 DEF Holds
<1>9. ElderInv'
  BY <1>7, <1>8 DEF ElderInv
<1>10. ElderProtected' /\ ObjectInv'
  BY <1>1, <1>2 DEF ElderProtected, ObjectInv
<1>11. QED BY <1>2, <1>3, <1>5, <1>9, <1>10, SetsKept DEF RcuInv, setVars

LEMMA QuiesceStep ==
  ASSUME RcuInv, NEW t \in Thread, rcu_quiesce(t) PROVE RcuInv'
<1>1. TypeOK /\ EpochInv /\ ElderInv /\ ElderProtected /\ ObjectInv
  BY DEF RcuInv
<1>2. /\ UNCHANGED <<global_epoch, active_epoch, setVars, pc, loaded, advVars, objVars, histVars>>
      /\ pc[t] = "idle" /\ epoch' = [epoch EXCEPT ![t] = 0]
  BY DEF rcu_quiesce
<1>3. TypeOK'
  <2>1. epoch' \in [Thread -> Epoch]
    BY <1>1, <1>2, SizeAssumption DEF TypeOK
  <2>2. QED BY <1>1, <1>2, <2>1 DEF TypeOK, setVars, advVars, objVars, histVars
<1>4. Published' = Published /\ t \notin Published
  BY <1>2 DEF Published
<1>5. \A u \in Thread : u # t => epoch'[u] = epoch[u]
  BY <1>1, <1>2 DEF TypeOK
<1>6. EpochInv'
  <2>1. epoch'[t] = 0 /\ 0 <= global_epoch
    BY <1>1, <1>2 DEF TypeOK
  <2>2. QED BY <1>1, <1>2, <1>4, <1>5, <2>1 DEF EpochInv, advVars
<1>7. ASSUME NEW u, NEW ep, Holds(u, ep) PROVE Holds(u, ep)'
  <2>1. u \in Thread /\ u # t
    BY <1>4, <1>7 DEF Holds, Published
  <2>2. QED BY <1>2, <1>4, <1>5, <1>7, <2>1 DEF Holds, advVars
<1>8. \A w \in Thread : pc[w] # "idle" => Begun(w)' = Begun(w)
  BY <1>2, <1>5 DEF Begun
<1>9. ElderInv'
  BY <1>1, <1>2, <1>7, <1>8 DEF ElderInv, histVars
<1>10. ElderProtected' /\ ObjectInv'
  BY <1>1, <1>2 DEF ElderProtected, ObjectInv, objVars, histVars
<1>11. QED BY <1>2, <1>3, <1>6, <1>9, <1>10, SetsKept DEF RcuInv, setVars, histVars

(* rcu_delete files the object under the epoch its elders hold back.       *)
LEMMA DeleteStep ==
  ASSUME RcuInv, NEW t \in Thread, NEW o \in Obj, rcu_delete(t, o) PROVE RcuInv'
<1>1. /\ TypeOK /\ EpochInv /\ ElderInv /\ ElderProtected /\ ObjectInv
      /\ \A w \in Thread : SetInv(groups[w], current[w], tag)
      /\ \A w \in Thread, x \in Obj : PlaceInv(w, x)
  BY DEF RcuInv
<1>2. /\ UNCHANGED <<epochVars, clean_epoch, pc, loaded, advVars, linked, destroyed, elders>>
      /\ pc[t] = "run" /\ o \in unlinked[t]
      /\ unlinked' = [unlinked EXCEPT ![t] = @ \ {o}]
      /\ add(t, epoch[t], o)
      /\ tag' = [tag EXCEPT ![o] = epoch[t]]
      /\ owner' = [owner EXCEPT ![o] = t]
      /\ guard' = [guard EXCEPT ![o] = elders[t]]
  BY DEF rcu_delete
<1>3. /\ epoch[t] \in Epoch /\ 1 <= epoch[t]
      /\ groups \in [Thread -> Seq(Group)] /\ current \in [Thread -> Nat]
      /\ tag \in [Obj -> Epoch] /\ owner \in [Obj -> Thread] /\ destroyed \in [Obj -> 0 .. 1]
      /\ guard \in [Obj -> SUBSET Thread] /\ elders \in [Thread -> SUBSET Thread]
      /\ unlinked \in [Thread -> SUBSET Obj]
  BY <1>1, <1>2 DEF TypeOK, EpochInv, Published
<1>4. tag[o] = 0 /\ destroyed[o] = 0 /\ o \notin linked
      /\ \A u \in Thread : o \in unlinked[u] => u = t
  BY <1>1, <1>2 DEF ObjectInv
<1>5. \A w \in Thread : Places(groups[w], o) = {}
  BY <1>1, <1>4 DEF PlaceInv
<1>6. tag' \in [Obj -> Epoch] /\ tag'[o] = epoch[t] /\ \A x \in Obj \ {o} : tag'[x] = tag[x]
  BY <1>2, <1>3
<1>7. ASSUME NEW w \in Thread PROVE SetInv(groups[w], current[w], tag')
  <2>1. groups[w] \in Seq(Group) /\ SetInv(groups[w], current[w], tag)
    BY <1>1, <1>3
  <2>2. \A j \in 1 .. Len(groups[w]) : groups[w][j] \in Group /\ GroupInv(groups[w][j], tag)
    BY <2>1, SetFacts
  <2>3. ASSUME NEW j \in 1 .. Len(groups[w]) PROVE GroupInv(groups[w][j], tag')
    <3> DEFINE gr == groups[w][j]
    <3>1. gr \in Group /\ GroupInv(gr, tag)
      BY <2>2
    <3>2. ASSUME NEW i \in gr.head + 1 .. Len(gr.e), gr.e[i].object # NoObj
          PROVE  tag'[gr.e[i].object] = tag[gr.e[i].object]
      <4>1. gr.e[i].object \in Obj
        <5>1. gr.e \in Seq(Slot) /\ i \in 1 .. Len(gr.e)
          BY <3>1 DEF Group
        <5>2. gr.e[i] \in Slot
          BY <5>1, ElementOfSeq
        <5>3. QED BY <3>2, <5>2 DEF Slot
      <4>2. gr.e[i].object # o
        <5>1. SUFFICES ASSUME gr.e[i].object = o PROVE FALSE
          OBVIOUS
        <5>2. i \in Slots(gr, o)
          BY <5>1 DEF Slots
        <5>3. <<j, i>> \in Places(groups[w], o)
          BY <5>2, PlaceOf
        <5>4. QED BY <1>5, <5>3
      <4>3. QED BY <1>6, <4>1, <4>2
    <3> HIDE DEF gr
    <3>3. GroupInv(gr, tag')
      BY <3>1, <3>2, OtherTags
    <3>4. QED BY <3>3 DEF gr
  <2>4. QED BY <2>1, <2>3 DEF SetInv
<1>8. \E gs \in Seq(Group), c \in Nat :
        /\ groups' = [groups EXCEPT ![t] = gs]
        /\ current' = [current EXCEPT ![t] = c]
        /\ SetInv(gs, c, tag')
        /\ Single(Places(gs, o))
        /\ \A x \in Obj \ {o} : Places(gs, x) = Places(groups[t], x)
  <2> DEFINE tags == tag'
  <2>1. tags \in [Obj -> Epoch] /\ tags[o] = epoch[t] /\ SetInv(groups[t], current[t], tags)
    BY <1>6, <1>7
  <2> HIDE DEF tags
  <2>2. \E gs \in Seq(Group), c \in Nat :
          /\ groups' = [groups EXCEPT ![t] = gs]
          /\ current' = [current EXCEPT ![t] = c]
          /\ SetInv(gs, c, tags)
          /\ Single(Places(gs, o))
          /\ \A x \in Obj \ {o} : Places(gs, x) = Places(groups[t], x)
    <3> DEFINE ep == epoch[t]
    <3>1. /\ groups \in [Thread -> Seq(Group)] /\ current \in [Thread -> Nat]
          /\ ep \in Epoch /\ tags[o] = ep /\ Places(groups[t], o) = {} /\ add(t, ep, o)
      BY <1>2, <1>3, <1>5, <2>1
    <3> HIDE DEF ep
    <3>2. QED BY <2>1, <3>1, SetAdd
  <2>3. QED BY <2>2 DEF tags
<1>9. PICK gs \in Seq(Group), c \in Nat :
        /\ groups' = [groups EXCEPT ![t] = gs]
        /\ current' = [current EXCEPT ![t] = c]
        /\ SetInv(gs, c, tag')
        /\ Single(Places(gs, o))
        /\ \A x \in Obj \ {o} : Places(gs, x) = Places(groups[t], x)
  BY <1>8
<1>10. groups'[t] = gs /\ current'[t] = c
       /\ \A w \in Thread : w # t => groups'[w] = groups[w] /\ current'[w] = current[w]
  BY <1>3, <1>9
<1>11. TypeOK'
  <2>1. /\ groups' \in [Thread -> Seq(Group)] /\ current' \in [Thread -> Nat]
        /\ owner' \in [Obj -> Thread] /\ guard' \in [Obj -> SUBSET Thread]
        /\ unlinked' \in [Thread -> SUBSET Obj]
    BY <1>2, <1>3, <1>9
  <2>2. QED BY <1>1, <1>2, <1>6, <2>1 DEF TypeOK, epochVars, advVars
<1>12. EpochInv'
  BY <1>1, <1>2 DEF EpochInv, Published, epochVars, advVars
<1>13. ElderInv'
  <2>1. ASSUME NEW u, NEW ep, Holds(u, ep) PROVE Holds(u, ep)'
    BY <1>2, <2>1 DEF Holds, Published, epochVars, advVars
  <2>2. ASSUME NEW w \in Thread, pc'[w] # "idle", NEW u \in elders'[w] PROVE Holds(u, Begun(w))'
    <3>1. Holds(u, Begun(w)) /\ Begun(w)' = Begun(w)
      BY <1>1, <1>2, <2>2 DEF ElderInv, Begun, epochVars
    <3>2. QED BY <2>1, <3>1 DEF Holds
  <2>3. ASSUME NEW x \in Obj, NEW u \in guard'[x] PROVE Holds(u, tag[x])'
    <3>1. CASE x = o
      <4>1. u \in elders[t] /\ Begun(t) = epoch[t]
        BY <1>2, <1>3, <2>3, <3>1 DEF Begun
      <4>2. Holds(u, epoch[t])
        BY <1>1, <1>2, <4>1 DEF ElderInv
      <4>3. QED BY <1>6, <2>1, <3>1, <4>2 DEF Holds
    <3>2. CASE x # o
      <4>1. u \in guard[x] /\ tag'[x] = tag[x]
        BY <1>2, <1>3, <1>6, <2>3, <3>2
      <4>2. Holds(u, tag[x])
        BY <1>1, <4>1 DEF ElderInv
      <4>3. QED BY <2>1, <4>1, <4>2 DEF Holds
    <3>3. QED BY <3>1, <3>2
  <2>4. QED BY <2>2, <2>3 DEF ElderInv
<1>14. ElderProtected'
  BY <1>1, <1>2, <1>3, <1>4 DEF ElderProtected
<1>15. ObjectInv'
  <2>1. \A w \in Thread : \A x \in unlinked'[w] : x # o /\ x \in unlinked[w]
    BY <1>2, <1>3, <1>4
  <2>2. \A x \in Obj : tag'[x] = 0 => x # o
    BY <1>3, <1>6
  <2>3. \A x \in Obj : x # o => guard'[x] = guard[x]
    BY <1>2, <1>3
  <2>4. \A x \in linked : x \in Obj /\ x # o
    BY <1>1, <1>4 DEF TypeOK
  <2>5. \A w \in Thread : \A x \in unlinked[w] : x \in Obj
    BY <1>3
  <2>6. QED BY <1>1, <1>2, <1>6, <2>1, <2>2, <2>3, <2>4, <2>5 DEF ObjectInv
<1>16. ASSUME NEW w \in Thread PROVE SetInv(groups[w], current[w], tag)'
  <2>1. SetInv(groups'[w], current'[w], tag')
    BY <1>7, <1>9, <1>10
  <2>2. QED BY <2>1
<1>17. ASSUME NEW w \in Thread, NEW x \in Obj PROVE PlaceInv(w, x)'
  <2>1. CASE x = o
    <3>1. tag'[o] # 0 /\ owner'[o] = t /\ destroyed'[o] = 0
      BY <1>2, <1>3, <1>4, <1>6
    <3>2. QED BY <1>5, <1>9, <1>10, <2>1, <3>1 DEF PlaceInv
  <2>2. CASE x # o
    <3>1. tag'[x] = tag[x] /\ owner'[x] = owner[x] /\ destroyed'[x] = destroyed[x]
      BY <1>2, <1>3, <1>6, <2>2
    <3>2. Places(groups'[w], x) = Places(groups[w], x)
      BY <1>9, <1>10, <2>2
    <3>3. PlaceInv(w, x)
      BY <1>1
    <3>4. QED BY <3>1, <3>2, <3>3 DEF PlaceInv
  <2>3. QED BY <2>1, <2>2
<1>18. QED BY <1>11, <1>12, <1>13, <1>14, <1>15, <1>16, <1>17 DEF RcuInv

(* The cleaning at the start of a transaction destroys objects of epochs   *)
(* before active_epoch only, and none of these has an elder left.          *)
LEMMA CleanStep ==
  ASSUME RcuInv, NEW t \in Thread, StartClean(t) PROVE RcuInv'
<1>1. /\ TypeOK /\ EpochInv /\ ElderInv /\ ElderProtected /\ ObjectInv
      /\ \A w \in Thread : SetInv(groups[w], current[w], tag)
      /\ \A w \in Thread, x \in Obj : PlaceInv(w, x)
  BY DEF RcuInv
<1>2. /\ UNCHANGED <<epochVars, loaded, advVars, objVars, tag, owner, elders, guard>>
      /\ pc[t] = "clean" /\ pc' = [pc EXCEPT ![t] = "run"]
      /\ clean_until(t, active_epoch)
  BY DEF StartClean
<1>3. /\ groups \in [Thread -> Seq(Group)] /\ current \in [Thread -> Nat]
      /\ tag \in [Obj -> Epoch] /\ destroyed \in [Obj -> 0 .. 1]
      /\ active_epoch \in Epoch /\ clean_epoch' \in [Thread -> Epoch]
  BY <1>1, <1>2 DEF TypeOK, clean_until
<1>4. /\ Published' = Published
      /\ \A w \in Thread : Begun(w)' = Begun(w) /\ (pc'[w] # "idle" <=> pc[w] # "idle")
      /\ \A w \in Thread : pc'[w] = "store" <=> pc[w] = "store"
      /\ pc' \in [Thread -> {"idle", "store", "clean", "run"}]
  BY <1>1, <1>2 DEF TypeOK, Published, Begun, epochVars
<1>5. EpochInv'
  BY <1>1, <1>2, <1>4 DEF EpochInv, epochVars, advVars
<1>6. ASSUME NEW u, NEW ep PROVE Holds(u, ep)' <=> Holds(u, ep)
  BY <1>2, <1>4 DEF Holds, epochVars, advVars
<1>7. ElderInv'
  <2>1. ASSUME NEW w \in Thread, pc'[w] # "idle", NEW u \in elders'[w] PROVE Holds(u, Begun(w))'
    <3>1. Holds(u, Begun(w)) /\ Begun(w)' = Begun(w)
      BY <1>1, <1>2, <1>4, <2>1 DEF ElderInv
    <3>2. QED BY <1>6, <3>1 DEF Holds
  <2>2. ASSUME NEW x \in Obj, NEW u \in guard'[x] PROVE Holds(u, tag[x])'
    <3>1. Holds(u, tag[x]) /\ tag'[x] = tag[x]
      BY <1>1, <1>2, <2>2 DEF ElderInv
    <3>2. QED BY <1>6, <3>1 DEF Holds
  <2>3. QED BY <2>1, <2>2 DEF ElderInv
<1>8. CASE clean_epoch[t] = active_epoch
  <2>1. UNCHANGED <<groups, current, destroyed>>
    BY <1>2, <1>8 DEF clean_until
  <2>2. TypeOK'
    BY <1>1, <1>2, <1>3, <1>4, <2>1 DEF TypeOK, epochVars, advVars, objVars
  <2>3. ElderProtected' /\ ObjectInv'
    BY <1>1, <1>2, <2>1 DEF ElderProtected, ObjectInv, objVars
  <2>4. QED BY <1>2, <1>5, <1>7, <2>1, <2>2, <2>3, SetsKept DEF RcuInv
<1>9. CASE clean_epoch[t] # active_epoch
  <2> DEFINE max == active_epoch
             F == Freed(t, max)
  <2>1. hard_clean_until(t, max) /\ SetInv(groups[t], current[t], tag)
    BY <1>1, <1>2, <1>9 DEF clean_until
  <2>2. \E gs \in Seq(Group), c \in Nat :
          /\ groups' = [groups EXCEPT ![t] = gs]
          /\ current' = [current EXCEPT ![t] = c]
          /\ SetInv(gs, c, tag)
          /\ destroyed' = [x \in Obj |-> destroyed[x] + IF x \in F THEN 1 ELSE 0]
          /\ \A x \in F :
               /\ x \in Obj /\ tag[x] < max /\ Places(groups[t], x) # {}
               /\ Single(Places(groups[t], x)) => Places(gs, x) = {}
          /\ \A x \in Obj \ F :
               /\ Places(groups[t], x) = {} => Places(gs, x) = {}
               /\ Single(Places(groups[t], x)) => Single(Places(gs, x))
    BY <1>3, <2>1, SetClean
  <2> HIDE DEF F
  <2>3. PICK gs \in Seq(Group), c \in Nat :
          /\ groups' = [groups EXCEPT ![t] = gs]
          /\ current' = [current EXCEPT ![t] = c]
          /\ SetInv(gs, c, tag)
          /\ destroyed' = [x \in Obj |-> destroyed[x] + IF x \in F THEN 1 ELSE 0]
          /\ \A x \in F :
               /\ x \in Obj /\ tag[x] < max /\ Places(groups[t], x) # {}
               /\ Single(Places(groups[t], x)) => Places(gs, x) = {}
          /\ \A x \in Obj \ F :
               /\ Places(groups[t], x) = {} => Places(gs, x) = {}
               /\ Single(Places(groups[t], x)) => Single(Places(gs, x))
    BY <2>2
  <2>4. groups'[t] = gs /\ current'[t] = c
        /\ \A w \in Thread : w # t => groups'[w] = groups[w] /\ current'[w] = current[w]
    BY <1>3, <2>3
  <2>5. ASSUME NEW x \in F
        PROVE  /\ x \in Obj /\ tag[x] # 0 /\ owner[x] = t /\ destroyed[x] = 0
               /\ Single(Places(groups[t], x)) /\ guard[x] = {}
    <3>1. x \in Obj /\ tag[x] < max /\ Places(groups[t], x) # {}
      BY <2>3, <2>5
    <3>2. PlaceInv(t, x)
      BY <1>1, <3>1
    <3>3. tag[x] # 0 /\ owner[x] = t /\ destroyed[x] = 0 /\ Single(Places(groups[t], x))
      BY <3>1, <3>2 DEF PlaceInv
    <3>4. guard[x] = {}
      <4>1. SUFFICES ASSUME NEW u \in guard[x] PROVE FALSE
        OBVIOUS
      <4>2. active_epoch <= tag[x]
        BY <1>1, <3>1 DEF ElderInv, Holds
      <4>3. tag[x] \in Nat /\ active_epoch \in Nat
        BY <1>3, <3>1
      <4>4. QED BY <3>1, <4>2, <4>3
    <3>5. QED BY <3>1, <3>3, <3>4
  <2>6. \A x \in Obj : destroyed'[x] = IF x \in F THEN 1 ELSE destroyed[x]
    <3>1. ASSUME NEW x \in Obj PROVE destroyed'[x] = IF x \in F THEN 1 ELSE destroyed[x]
      <4>1. destroyed'[x] = destroyed[x] + IF x \in F THEN 1 ELSE 0
        BY <2>3
      <4>2. destroyed[x] \in 0 .. 1 /\ (x \in F => destroyed[x] = 0)
        BY <1>3, <2>5
      <4>3. QED BY <4>1, <4>2
    <3>2. QED BY <3>1
  <2>7. TypeOK'
    <3>1. groups' \in [Thread -> Seq(Group)] /\ current' \in [Thread -> Nat]
      BY <1>3, <2>3
    <3>2. destroyed' \in [Obj -> 0 .. 1]
      <4>1. \A x \in Obj : destroyed'[x] \in 0 .. 1
        BY <1>3, <2>6
      <4>2. QED BY <2>3, <4>1
    <3>3. QED BY <1>1, <1>2, <1>3, <1>4, <3>1, <3>2 DEF TypeOK, epochVars, advVars, objVars
  <2>8. ElderProtected'
    BY <1>1, <1>2, <2>5, <2>6 DEF ElderProtected
  <2>9. ObjectInv'
    <3>1. \A x \in Obj : tag[x] = 0 => x \notin F
      BY <2>5
    <3>2. QED BY <1>1, <1>2, <2>6, <3>1 DEF ObjectInv, objVars
  <2>10. ASSUME NEW w \in Thread PROVE SetInv(groups[w], current[w], tag)'
    <3>1. SetInv(groups'[w], current'[w], tag)
      BY <1>1, <2>3, <2>4
    <3>2. tag' = tag
      BY <1>2
    <3>3. QED BY <3>1, <3>2
  <2>11. ASSUME NEW w \in Thread, NEW x \in Obj PROVE PlaceInv(w, x)'
    <3>1. tag' = tag /\ owner' = owner /\ PlaceInv(w, x)
      BY <1>1, <1>2
    <3>2. CASE x \in F /\ w = t
      BY <2>3, <2>4, <2>5, <2>6, <3>2 DEF PlaceInv
    <3>3. CASE x \in F /\ w # t
      BY <2>4, <2>5, <2>6, <3>1, <3>3 DEF PlaceInv
    <3>4. CASE x \notin F /\ w = t
      BY <2>3, <2>4, <2>6, <3>1, <3>4 DEF PlaceInv
    <3>5. CASE x \notin F /\ w # t
      BY <2>4, <2>6, <3>1, <3>5 DEF PlaceInv
    <3>6. QED BY <3>2, <3>3, <3>4, <3>5
  <2>12. QED BY <1>5, <1>7, <2>7, <2>8, <2>9, <2>10, <2>11 DEF RcuInv
<1>10. QED BY <1>8, <1>9

LEMMA RcuStutter ==
  ASSUME RcuInv, UNCHANGED vars PROVE RcuInv'
<1>1. TypeOK /\ EpochInv /\ ElderInv /\ ElderProtected /\ ObjectInv
  BY DEF RcuInv
<1>2. UNCHANGED <<epochVars, setVars, pc, loaded, advVars, objVars, histVars>>
  BY DEF vars
<1>3. TypeOK'
  BY <1>1, <1>2 DEF TypeOK, epochVars, setVars, advVars, objVars, histVars
<1>4. EpochInv' /\ ElderInv' /\ ElderProtected' /\ ObjectInv'
  BY <1>1, <1>2 DEF EpochInv, ElderInv, ElderProtected, ObjectInv, Holds, Begun, Published,
     epochVars, advVars, objVars, histVars
<1>5. QED BY <1>2, <1>3, <1>4, SetsKept DEF RcuInv, setVars, histVars

(* The invariant RcuInv of the epochs, the advancer and the sets of        *)
(* deleted objects holds for any number of threads and objects, any group  *)
(* capacities and any number of epochs.                                    *)
THEOREM RcuInductive == Spec => []RcuInv
<1>1. RcuInv /\ [Next]_vars => RcuInv'
  <2> SUFFICES ASSUME RcuInv, [Next]_vars PROVE RcuInv'
    OBVIOUS
  <2>1. CASE UNCHANGED vars
    BY <2>1, RcuStutter
  <2>2. CASE Advance
    BY <2>2, AdvanceStep
  <2>3. ASSUME NEW t \in Thread,
               Transact(t) \/ (\E o \in Obj : Unlink(t, o)) \/ rcu_quiesce(t)
        PROVE  RcuInv'
    BY <2>3, StartLoadStep, StartStoreStep, CleanStep, DeleteStep, FinishStep, UnlinkStep,
       QuiesceStep DEF Transact
  <2>4. QED BY <2>1, <2>2, <2>3 DEF Next
<1>2. QED BY <1>1, RcuInvInit, PTL DEF Spec

(* Every variable stays in its domain; no destructor runs twice, whatever  *)
(* grow, clean_until and the rehooking of emptied groups do.               *)
THEOREM RcuTyped == Spec => []TypeOK
<1>1. RcuInv => TypeOK
  BY DEF RcuInv
<1>2. QED BY <1>1, RcuInductive, PTL

(* The assertions of TRcuSet::check hold of every set at all times.        *)
THEOREM SetsInOrder == Spec => []RcuSetCheck
<1>1. RcuInv => RcuSetCheck
  <2> SUFFICES ASSUME RcuInv, NEW t \in Thread
               PROVE  /\ current[t] \in 1 .. Len(groups[t])
                      /\ \A j \in 1 .. Len(groups[t]) :
                           /\ groups[t][j].head <= Len(groups[t][j].e)
                           /\ Len(groups[t][j].e) <= groups[t][j].capacity
                           /\ j > current[t] => Reset(groups[t][j])
                           /\ j < current[t] => ~Spent(groups[t][j])
    BY DEF RcuSetCheck, Reset
  <2>1. SetInv(groups[t], current[t], tag)
    BY DEF RcuInv
  <2>2. QED BY <2>1 DEF SetInv, GroupInv
<1>2. QED BY <1>1, RcuInductive, PTL

(* A deleted object waits in exactly one slot, of its deleter's set, until *)
(* clean_until has called its destructor.                                  *)
THEOREM ExactlyOnce == Spec => []NothingLost
<1>1. RcuInv => NothingLost
  <2> SUFFICES ASSUME RcuInv, NEW o \in Obj, NEW t \in Thread
               PROVE  Waiting(t, o) = IF tag[o] # 0 /\ owner[o] = t THEN 1 - destroyed[o] ELSE 0
    BY DEF NothingLost
  <2>1. PlaceInv(t, o) /\ destroyed[o] \in 0 .. 1
    BY DEF RcuInv, TypeOK
  <2>2. Single(Places(groups[t], o)) => Waiting(t, o) = 1
    BY FS_Singleton DEF Single, Waiting
  <2>3. Places(groups[t], o) = {} => Waiting(t, o) = 0
    BY FS_EmptySet DEF Waiting
  <2>4. QED BY <2>1, <2>2, <2>3 DEF PlaceInv
<1>2. QED BY <1>1, RcuInductive, PTL

(* No object is destroyed while a transaction runs that had published its  *)
(* epoch when the deleting transaction began.                              *)
THEOREM EldersProtected == Spec => []ElderProtected
<1>1. RcuInv => ElderProtected
  BY DEF RcuInv
<1>2. QED BY <1>1, RcuInductive, PTL
============================================================================
