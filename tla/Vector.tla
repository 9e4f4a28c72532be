------------------------------- MODULE Vector -------------------------------
(***************************************************************************)
(* Vector.hh over Box.hh: the first vector of STO.  Pushes wait in the     *)
(* item push_back_key until the commit appends them; vecversion_ stands    *)
(* for the size; an iterator compared with end() leaves a predicate on the *)
(* size, encoded as in the code: 2n for size = n, 2n + 1 for size >= n.    *)
(***************************************************************************)
EXTENDS TransItem

vector_key == -1
push_back_key == -2
size_key == -3
size_pred_key == -4

NewVector(opaque, s) ==
  [kind |-> "Vector", opaque |-> opaque, capacity |-> Len(s), size |-> Len(s),
   vecversion |-> Word(0, {}),
   data |-> [i \in 0 .. Len(s) - 1 |-> [vers |-> Word(1, {"nonopaque"}), v |-> s[i + 1]]]]

-----------------------------------------------------------------------------
(* The pushes minus the pops of the transaction so far.                    *)
trans_size_offs(x, o) ==
  LET it == item(x, o, size_key) IN IF has(it, "stash") THEN it.rdata ELSE 0

add_trans_size_offs(x, o, n) ==
  Put(x, [add_flags(item(x, o, size_key), {"stash"})
            EXCEPT !.rdata = trans_size_offs(x, o) + n])

add_vector_version(x, o) ==
  AddRead(x, item(x, o, vector_key), unlocked(obj[o].vecversion))

add_lock_vector_item(x, o) == AddWrite(x, item(x, o, vector_key))

MySize(x, o) == obj[o].size + trans_size_offs(x, o)

(* The pushes are one value or a list of them: here always a list.         *)
Pushes(x, o) ==
  LET it == item(x, o, push_back_key) IN IF has(it, "write") THEN it.wdata ELSE <<>>

-----------------------------------------------------------------------------
push_back(x, o, v) ==
  LET last == item(x, o, MySize(x, o))
      again == clear_flags(last, {"delete"})
      y == AddWriteValue(x, item(x, o, push_back_key), Append(Pushes(x, o), v))
  IN Return(IF trans_size_offs(x, o) >= 0
            THEN add_trans_size_offs(add_lock_vector_item(y, o), o, 1)
            ELSE IF has(last, "write") /\ has(last, "delete")
            THEN add_trans_size_offs(AddWriteValue(x, again, v), o, 1)
            ELSE abort(x),      \* someone has pushed in the meantime
            o, Nothing)

pop_back(x, o) ==
  LET p == Put(x, item(x, o, push_back_key))
      n == Len(Pushes(x, o))
      rest == SubSeq(Pushes(x, o), 1, n - 1)
      pushed == [item(p, o, push_back_key) EXCEPT !.wdata = rest]
      y == add_vector_version(p, o)
      z == AddWrite(y, item(y, o, vector_key))
      it == item(z, o, MySize(z, o) - 1)
      known == IF has(it, "valid_only") THEN clear_flags(it, {"read", "valid_only"}) ELSE it
  IN Return(IF n > 0
            THEN add_trans_size_offs(Put(p, IF n = 1 THEN clear_write(pushed) ELSE pushed), o, -1)
            ELSE IF MySize(y, o) = 0 THEN y
            ELSE add_trans_size_offs(AddWriteValue(z, add_flags(known, {"delete"}), 0), o, -1),
            o, Nothing)

size(x, o) == LET y == add_vector_version(x, o) IN Return(y, o, MySize(y, o))

(* size() compared with n by the caller.                                   *)
size_is(x, o, rel, n) ==
  LET s == size(x, o) IN [s EXCEPT !.r = Related(s.r, rel, n)]

geq(pred) == pred % 2 = 1

(* The predicate that covers both, if there is one.                        *)
Covering(old, new) ==
  IF new = old \/ (geq(old) /\ geq(new)) THEN IF new >= old THEN new ELSE old
  ELSE IF geq(old) /\ old <= new + 1 THEN new
  ELSE IF geq(new) /\ new <= old + 1 THEN old
  ELSE Nothing

(* it == end() for an iterator that is sz elements past begin().           *)
checkSize(x, o, sz) ==
  LET it == item(x, o, size_pred_key)
      pred == 2 * (sz - trans_size_offs(x, o)) + IF MySize(x, o) > sz THEN 1 ELSE 0
      both == IF has(it, "predicate") THEN Covering(it.rdata, pred) ELSE pred
      y == Put(x, [add_flags(it, {"predicate"}) EXCEPT !.rdata = both])
  IN Return(IF MySize(x, o) < sz \/ both = Nothing THEN abort(x) ELSE y, o,
            MySize(x, o) = sz)

-----------------------------------------------------------------------------
(* Elements: Box::transRead and Box::transWrite.                           *)

transRead(x, o, i) ==
  LET it == item(x, o, i)
      d == obj[o].data[i]
      known == IF has(it, "valid_only") THEN clear_flags(it, {"read", "valid_only"}) ELSE it
  IN IF has(it, "write") THEN Return(Put(x, it), o, it.wdata)
     ELSE IF is_locked(d.vers) THEN Return(abort(x), o, Nothing)
     ELSE Return(AddRead(x, known, d.vers), o, d.v)

transWrite(x, o, i, v) ==
  LET y == AddWriteValue(x, item(x, o, i), v)
      it == item(y, o, i)
  IN IF has(it, "read") THEN y ELSE AddRead(y, add_flags(it, {"valid_only"}), Nothing)

transGet(x, o, i) ==
  LET pushed == i - obj[o].size + 1 IN
  IF i >= MySize(x, o) THEN Return(check_whole_opacity(x), o, OutOfRange)
  ELSE IF i < obj[o].size THEN transRead(x, o, i)
  ELSE Return(assert(add_vector_version(x, o), pushed <= Len(Pushes(x, o))), o,
              Pushes(x, o)[pushed])

transUpdate(x, o, i, v) ==
  LET pushed == i - obj[o].size + 1
      y == add_vector_version(x, o)
      it == item(y, o, push_back_key)
  IN IF i >= MySize(x, o) THEN Return(check_whole_opacity(x), o, OutOfRange)
     ELSE IF i < obj[o].size THEN Return(transWrite(x, o, i, v), o, Nothing)
     ELSE Return(Put(assert(y, pushed <= Len(Pushes(x, o))), [it EXCEPT !.wdata[pushed] = v]),
                 o, Nothing)

(* operator[] aborts where an iterator would throw.                        *)
at(x, o, i) == IF i >= MySize(x, o) THEN Return(abort(x), o, Nothing) ELSE transGet(x, o, i)

at_put(x, o, i, v) ==
  IF i >= MySize(x, o) THEN Return(abort(x), o, Nothing) ELSE transUpdate(x, o, i, v)

front(x, o) == at(x, o, 0)

back(x, o) ==
  LET s == size(x, o) IN
  IF s.r = 0 THEN Return(abort(s.x), o, Nothing) ELSE transGet(s.x, o, s.r - 1)

(* erase(begin() + p): elements move down until the iterator is end() - 1. *)
erase(x, o, p) ==
  LET n == MySize(x, o)
      Move[j \in 0 .. n] ==
        IF j = 0 THEN x
        ELSE LET c == checkSize(Move[j - 1], o, p + j)
                 g == transGet(c.x, o, p + j)
             IN transUpdate(g.x, o, p + j - 1, g.r).x
  IN IF p >= n THEN Return(abort(x), o, Nothing)
     ELSE pop_back(checkSize(Move[n - 1 - p], o, n).x, o)

(* insert(begin() + p, v): end() - 1 moves with the pushed copy of the     *)
(* last element; n is the size after the push, at least 2.                 *)
insert(x, o, p, v) ==
  LET s == size(x, o)
      g0 == transGet(s.x, o, s.r - 1)
      n == s.r + 1
      Move[j \in 0 .. n] ==
        IF j = 0 THEN push_back(g0.x, o, g0.r).x
        ELSE LET c == checkSize(Move[j - 1], o, p + j)
                 g == transGet(size(c.x, o).x, o, n - 1 - j)
             IN transUpdate(g.x, o, n - j, g.r).x
  IN transUpdate(checkSize(Move[n - 1 - p], o, n).x, o, p, v)

-----------------------------------------------------------------------------
(* Callbacks of the commit.                                                *)

(* The lock is waited for, not tried.                                      *)
waits(ob, it) ==
  CASE it.key = vector_key -> is_locked(ob.vecversion)
    [] it.key = push_back_key -> FALSE
    [] OTHER -> is_locked(ob.data[it.key].vers)

lock(x, ob, it) ==
  Lock(TRUE,
    CASE it.key = vector_key -> [ob EXCEPT !.vecversion = Locked(@, x.thread)]
      [] it.key = push_back_key -> ob
      [] OTHER -> [ob EXCEPT !.data[it.key].vers = Locked(@, x.thread)])

(* A size that is being changed, even by this transaction, fails.          *)
check_predicate(x, ob, it) ==
  /\ ~is_locked(ob.vecversion)
  /\ IF geq(it.rdata) THEN ob.size >= it.rdata \div 2 ELSE ob.size = it.rdata \div 2

(* The version of the size becomes a read, in an item of its own.          *)
PredicateRead(x, ob, it) ==
  AddRead(x, item(x, it.owner, vector_key), ob.vecversion)

check(x, ob, it) ==
  IF it.key = vector_key THEN check_version(ob.vecversion, it.rdata, x.thread)
  ELSE IF has(it, "valid_only")
  THEN /\ it.key < ob.size + trans_size_offs(x, it.owner)
       /\ ~is_locked_elsewhere(ob.data[it.key].vers, x.thread)
  ELSE check_version(ob.data[it.key].vers, it.rdata, x.thread)

(* reserve(): capacity doubles, and the elements move to a new array.      *)
reserve(ob) ==
  LET n == IF ob.capacity = 0 THEN 1 ELSE 2 * ob.capacity
  IN IF ob.size < ob.capacity THEN ob
     ELSE [ob EXCEPT !.capacity = n,
                     !.data = [i \in 0 .. n - 1 |->
                                 IF i < ob.capacity THEN ob.data[i]
                                 ELSE [vers |-> Word(0, {}), v |-> Nothing]]]

(* Box::write: whoever holds the lock of the slot keeps it.                *)
AppendOne(ob, v) ==
  LET r == reserve(ob)
  IN [r EXCEPT !.data[ob.size] = [vers |-> inc_nonopaque_version(@.vers), v |-> v],
               !.size = @ + 1]

NewSizeVersion(x, ob) ==
  [ob EXCEPT !.vecversion = IF ob.opaque THEN set_version(x, @, TRUE, {})
                                         ELSE inc_nonopaque_version(@)]

install(x, ob, it) ==
  LET Appended[n \in 0 .. Len(it.wdata)] ==
        IF n = 0 THEN ob ELSE AppendOne(Appended[n - 1], it.wdata[n])
      shrinks == has(it, "delete") /\ it.key < ob.size
      sized == IF shrinks THEN NewSizeVersion(x, [ob EXCEPT !.size = it.key]) ELSE ob
  IN CASE it.key = vector_key -> Install(ob, it, FALSE, TRUE)
       [] it.key = push_back_key ->
            Install(NewSizeVersion(x, Appended[Len(it.wdata)]), it, ob.opaque, TRUE)
       [] OTHER ->
            Install([sized EXCEPT !.data[it.key] =
                       [vers |-> inc_nonopaque_version(@.vers), v |-> it.wdata]],
                    it, shrinks /\ ob.opaque, has(it, "delete") \/ it.key < ob.size)

unlock(x, ob, it) ==
  CASE it.key = vector_key -> [ob EXCEPT !.vecversion = unlocked(@)]
    [] it.key = push_back_key -> ob
    [] OTHER -> [ob EXCEPT !.data[it.key].vers = unlocked(@)]

(* What the vector holds.                                                  *)
Value(ob) == [i \in 1 .. ob.size |-> ob.data[i - 1].v]

Call(x, o, c) ==
  CASE c.op = "push_back" -> push_back(x, o, c.a[1])
    [] c.op = "pop_back" -> pop_back(x, o)
    [] c.op = "get" -> at(x, o, c.a[1])
    [] c.op = "put" -> at_put(x, o, c.a[1], c.a[2])
    [] c.op = "front" -> front(x, o)
    [] c.op = "back" -> back(x, o)
    [] c.op = "erase" -> erase(x, o, c.a[1])
    [] c.op = "insert" -> insert(x, o, c.a[1], c.a[2])
    [] c.op = "size" -> size(x, o)
    [] c.op = "size_is" -> size_is(x, o, c.a[1], c.a[2])
    [] c.op = "iter_eq_end" -> checkSize(x, o, c.a[1])
=============================================================================
