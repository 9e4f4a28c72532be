------------------------------ MODULE TVector ------------------------------
(***************************************************************************)
(* TVector.hh: a vector whose size is observed through predicates, so that *)
(* transactions that push and pop commute with transactions that only      *)
(* compare the size.  An object is a record of data_, size_, size_vers_,   *)
(* size_delta_, max_size_ and capacity_, and opaque tells the wrapper.     *)
(*                                                                         *)
(* Everything about the size is in the item with key size_key: its         *)
(* predicate in rdata, the sizes before and after the transaction's own    *)
(* changes in wdata.  An element popped or pushed by position from the end *)
(* has no indexed flag and moves by size_delta_ at commit.                 *)
(***************************************************************************)
EXTENDS TransItem, TIntRange

size_key == -1

NewVector(opaque, capacity, s) ==
  [kind |-> "TVector", opaque |-> opaque, capacity |-> capacity,
   size |-> Len(s), max_size |-> Len(s), size_delta |-> 0,
   size_vers |-> Committed(opaque, s # <<>>),
   data |-> [i \in 0 .. capacity - 1 |->
              IF i < Len(s) THEN [vers |-> Committed(opaque, TRUE), v |-> s[i + 1]]
                            ELSE [vers |-> Word(0, {"dead"}), v |-> Nothing]]]

-----------------------------------------------------------------------------
(* The size item.                                                          *)

size_item(x, o) ==
  IF present(x, o, size_key) /\ has(item(x, o, size_key), "predicate") THEN x
  ELSE LET sz == obj[o].size
           it == [add_flags(item(x, o, size_key), {"predicate"})
                    EXCEPT !.rdata = unconstrained,
                           !.wdata = [first |-> sz, second |-> sz]]
       IN snapshot(x, it, obj[o].size_vers, obj[o].opaque)

size_info(x, o) == item(x, o, size_key).wdata

size_predicate(x, o) == item(x, o, size_key).rdata

SetPredicate(x, o, r) ==
  AbortIf(Put(x, [item(x, o, size_key) EXCEPT !.rdata = r]), empty_range(r))

SetSize(x, o, n) == Put(x, [item(x, o, size_key) EXCEPT !.wdata.second = n])

ObserveSize(x, o) ==
  SetPredicate(x, o, observe_value(size_predicate(x, o), size_info(x, o).first))

SizeForWrite(x, o) == WriteItem(size_item(x, o), o, size_key, {})

(* What a call returns that has read the size as a number.                 *)
ReturnSize(x, o) == Return(x, o, size_info(x, o).second)

(* The size before the transaction, plus d, compared with n.               *)
Compared(x, o, d, rel, n) ==
  LET Known(c) == Return(SetPredicate(x, o, c.r), o, c.is)
  IN Known(Compare(size_predicate(x, o), size_info(x, o).first, d, rel, n))

(* size() compared with n, and size() read as a number.                    *)
size_is(x, o, rel, n) ==
  LET Is(y) == Compared(y, o, size_info(y, o).second - size_info(y, o).first, rel, n)
  IN Is(size_item(x, o))

size(x, o) == ReturnSize(ObserveSize(size_item(x, o), o), o)

(* empty() compares size() with 0 the way the code does.                   *)
empty(x, o) == size_is(x, o, "!=", 0)

-----------------------------------------------------------------------------
(* Pushing and popping.                                                    *)

Pushed(x, o, i, flags, v) ==
  AddWriteValue(x, add_flags(clear_flags(clear_write(item(x, o, i)), {"pop"}), flags), v)

Popped(x, o, i, flags) == WriteItem(x, o, i, {"pop"} \cup flags)

Thrown(x, o) == Return(opaque_throw(x, obj[o].opaque), o, OutOfRange)

push_back(x, o, v) ==
  LET Push(y, n) == Pushed(SetSize(y, o, n + 1), o, n, {}, v)
      At(y) == Push(y, size_info(y, o).second)
  IN Return(At(SizeForWrite(x, o)), o, Nothing)

pop_back(x, o) ==
  LET Pop(y, n) == IF n = 0 THEN Thrown(y, o)
                   ELSE Return(Popped(SetSize(y, o, n - 1), o, n - 1, {}), o, Nothing)
      At(y) == Pop(y, size_info(y, o).second)
  IN At(SizeForWrite(x, o))

clear(x, o) ==
  LET Clear(y, n) ==
        LET Pops[i \in 0 .. n] == IF i = 0 THEN y ELSE Popped(Pops[i - 1], o, i - 1, {})
        IN Return(SetSize(Pops[n], o, 0), o, Nothing)
      At(y) == Clear(y, size_info(y, o).second)
  IN At(SizeForWrite(x, o))

(* From m elements to n; y has the new size.                               *)
Resized(y, o, m, n, v) ==
  LET Down[j \in 0 .. m] ==
        IF j = 0 THEN y ELSE Popped(Down[j - 1], o, m - j, {"indexed"})
      Up[j \in 0 .. n] ==
        IF j = 0 THEN y ELSE Pushed(Up[j - 1], o, m + j - 1, {"indexed"}, v)
  IN IF n < m THEN Down[m - n] ELSE Up[n - m]

resize(x, o, n, v) ==
  LET At(y) == Resized(SetSize(y, o, n), o, size_info(y, o).second, n, v)
  IN Return(At(ObserveSize(SizeForWrite(x, o), o)), o, Nothing)

-----------------------------------------------------------------------------
(* Elements.                                                               *)

(* transGet(i, item) of erase and insert: no look at the flags.            *)
PlainGet(x, o, i) ==
  LET Get(it) ==
        IF has(it, "write") THEN Return(Put(x, it), o, it.wdata)
        ELSE Return(observe(x, it, obj[o].data[i].vers, obj[o].opaque, TRUE), o,
                    obj[o].data[i].v)
  IN Get(item(x, o, i))

(* The element at i, known by its index, copied to j.                      *)
Copied(x, o, i, j) ==
  LET Store(g) == WriteItemValue(g.x, o, j, g.r)
  IN Store(PlainGet(Touch(x, o, i, {"indexed"}), o, i))

transGet(x, o, i) ==
  LET d == obj[o].data[i]
      Indexed(it) == add_flags(it, {"indexed"})
      Own(it) == IF has(it, "indexed") THEN Put(x, it)
                 ELSE Put(ObserveSize(size_item(Put(x, it), o), o), Indexed(it))
      Get(it) ==
        CASE has(it, "write") /\ has(it, "pop") -> Thrown(Put(x, it), o)
          [] has(it, "write") /\ ~has(it, "pop") -> Return(Own(it), o, it.wdata)
          [] OTHER ->
               LET Observed(z) == IF "dead" \in add_read(it, d.vers).rdata.bits THEN Thrown(z, o)
                                  ELSE Return(z, o, d.v)
               IN Observed(observe(x, Indexed(it), d.vers, obj[o].opaque, TRUE))
  IN Get(item(x, o, i))

(* put_in_range: only the existence of the element is observed.            *)
transPut(x, o, i, v) ==
  LET d == obj[o].data[i]
      Unknown(it) == ~has(it, "read") /\ ~has(it, "write")
      Exists(it) == IF Unknown(it) /\ i < obj[o].capacity
                    THEN observe(x, add_flags(it, {"onlyexists"}), d.vers, obj[o].opaque, TRUE)
                    ELSE Put(x, it)
      Gone(it) == \/ has(it, "pop")
                  \/ Unknown(it) /\ (i >= obj[o].capacity \/ "dead" \in d.vers.bits)
      Sized(y, it) == IF has(it, "write") /\ ~has(it, "indexed")
                      THEN ObserveSize(size_item(y, o), o) ELSE y
      PutIn(y, it) == IF Gone(it) THEN Thrown(y, o)
                      ELSE Return(WriteItemValue(Touch(Sized(y, it), o, i, {"indexed"}), o, i, v),
                                  o, Nothing)
      At(it) == PutIn(Exists(it), it)
  IN At(item(x, o, i))

front(x, o) == transGet(x, o, 0)

back(x, o) ==
  LET Back(y, n) == IF n = 0 THEN Thrown(y, o) ELSE transGet(y, o, n - 1)
      At(y) == Back(y, size_info(y, o).second)
  IN At(ObserveSize(size_item(x, o), o))

(* erase(begin() + p): the later elements move down, one at a time.        *)
erase(x, o, p) ==
  LET Down(y, n) ==
        LET Move[j \in 0 .. n] ==
              IF j = 0 THEN Touch(SetSize(ObserveSize(y, o), o, n - 1), o, p, {"indexed"})
              ELSE Copied(Move[j - 1], o, p + j, p + j - 1)
        IN Move[n - 1 - p]
      Erase(y, n) == IF p >= n THEN Thrown(y, o)
                     ELSE Return(Popped(Down(y, n), o, n - 1, {}), o, Nothing)
      At(y) == Erase(y, size_info(y, o).second)
  IN At(SizeForWrite(x, o))

(* insert(begin() + p, v): the later elements move up, the last one first. *)
insert(x, o, p, v) ==
  LET Grown(y, n) ==
        LET New(s) == Put(s, add_flags(clear_flags(item(s, o, n), {"write", "pop"}), {"indexed"}))
        IN New(SetSize(ObserveSize(y, o), o, n + 1))
      Up(y, n) ==
        LET Move[j \in 0 .. n] ==
              IF j = 0 THEN Grown(y, n) ELSE Copied(Move[j - 1], o, n - j, n - j + 1)
        IN Move[n - p]
      Insert(y, n) == IF p > n THEN Thrown(y, o)
                      ELSE Return(WriteItemValue(Up(y, n), o, p, v), o, Nothing)
      At(y) == Insert(y, size_info(y, o).second)
  IN At(SizeForWrite(x, o))

-----------------------------------------------------------------------------
(* Iterators: begin() + i compared with end(), from either side, and their *)
(* difference.  Only end() knows the size item.                            *)

end(x, o) == ReturnSize(size_item(x, o), o)

(* s: the sizes; r: the predicate so far; m: what the size before the      *)
(* transaction is compared with.                                           *)
EndPredicate(x, o, i, rel) ==
  LET Compares(r, s, m) ==
        CASE rel = "==" -> observe_test_eq(r, s.first, m)
          [] rel = "<" -> observe_gt(r, m, i < s.second)
          [] rel = ">=" -> observe_le(r, m, s.second <= i)
      At(y, s) ==
        Return(SetPredicate(y, o, Compares(size_predicate(y, o), s, i - s.second + s.first)), o,
               Related(i, rel, s.second))
      End(y) == At(y, size_info(y, o))
  IN End(size_item(x, o))

iter_eq_end(x, o, i) == EndPredicate(x, o, i, "==")

iter_lt_end(x, o, i) == EndPredicate(x, o, i, "<")

end_le_iter(x, o, i) == EndPredicate(x, o, i, ">=")

(* end() - begin(), or begin() - end(), compared with n: the difference is *)
(* the size before the transaction plus a constant, either way round.      *)
difference_is(x, o, forward, rel, n) ==
  LET Differs(y, d) == IF n - d >= 0 THEN Compared(y, o, d, rel, n)
                       ELSE Return(y, o, rel \in {"!=", ">", ">="})
      Difference(s) == (IF forward THEN s.second ELSE -s.second) - s.first
      At(y) == Differs(y, Difference(size_info(y, o)))
  IN At(size_item(x, o))

-----------------------------------------------------------------------------
(* Callbacks of the commit.                                                *)

(* The position an item stands for once the size is locked.                *)
Position(ob, it) ==
  it.key + IF has(it, "indexed") THEN 0 ELSE ob.size_delta

check_predicate(x, ob, it) == verify(it.rdata, ob.size)

lock(x, ob, it) ==
  LET p == Position(ob, it) IN
  IF it.key = size_key
  THEN Lock(~is_locked(ob.size_vers),
            [ob EXCEPT !.size_vers = Locked(@, x.thread),
                           !.size_delta = ob.size - it.wdata.first])
  ELSE IF p < 0 THEN Lock(FALSE, ob)    \* popped too much!
  ELSE Lock(~is_locked(ob.data[p].vers),
            [ob EXCEPT !.data[p].vers = Locked(@, x.thread)])

check(x, ob, it) ==
  IF it.key = size_key THEN check_version(ob.size_vers, it.rdata, x.thread)
  ELSE IF has(it, "onlyexists")
  THEN /\ "dead" \notin ob.data[it.key].vers.bits
       /\ x.state = "in_progress" /\ ob.opaque
            => ~is_locked_elsewhere(ob.data[it.key].vers, x.thread)
  ELSE check_version(ob.data[it.key].vers, it.rdata, x.thread)

(* assert(item.has_flag(indexed_bit)) in check().                          *)
check_asserts(it) == it.key = size_key \/ has(it, "onlyexists") \/ has(it, "indexed")

install(x, ob, it) ==
  LET n == it.wdata.second + ob.size_delta
      p == Position(ob, it)
      vers == set_version_unlock(x, ob.data[p].vers, ob.opaque,
                                 IF has(it, "pop") THEN {"dead"} ELSE {})
  IN IF it.key = size_key
     THEN Install([ob EXCEPT !.size = n, !.size_vers = set_version(x, @, ob.opaque, {})],
                  it, ob.opaque, n >= 0)
     ELSE IF has(it, "pop")
     THEN Install([ob EXCEPT !.data[p].vers = vers], clear_needs_unlock(it), ob.opaque, TRUE)
     ELSE Install([ob EXCEPT !.data[p] = [vers |-> vers, v |-> it.wdata],
                             !.max_size = IF p = @ THEN @ + 1 ELSE @],
                  clear_needs_unlock(it), ob.opaque,
                  p <= ob.max_size /\ p < ob.capacity)

unlock(x, ob, it) ==
  IF it.key = size_key THEN [ob EXCEPT !.size_vers = unlocked(@)]
  ELSE [ob EXCEPT !.data[Position(ob, it)].vers = unlocked(@)]

(* What the vector holds.                                                  *)
Value(ob) == [i \in 1 .. ob.size |-> ob.data[i - 1].v]

Call(x, o, c) ==
  CASE c.op = "push_back" -> push_back(x, o, c.a[1])
    [] c.op = "pop_back" -> pop_back(x, o)
    [] c.op = "clear" -> clear(x, o)
    [] c.op = "resize" -> resize(x, o, c.a[1], c.a[2])
    [] c.op = "get" -> transGet(x, o, c.a[1])
    [] c.op = "put" -> transPut(x, o, c.a[1], c.a[2])
    [] c.op = "front" -> front(x, o)
    [] c.op = "back" -> back(x, o)
    [] c.op = "erase" -> erase(x, o, c.a[1])
    [] c.op = "insert" -> insert(x, o, c.a[1], c.a[2])
    [] c.op = "size" -> size(x, o)
    [] c.op = "size_is" -> size_is(x, o, c.a[1], c.a[2])
    [] c.op = "empty" -> empty(x, o)
    [] c.op = "iter_eq_end" -> iter_eq_end(x, o, c.a[1])
    [] c.op = "iter_lt_end" -> iter_lt_end(x, o, c.a[1])
    [] c.op = "end_le_iter" -> end_le_iter(x, o, c.a[1])
    [] c.op = "end" -> end(x, o)
    [] c.op = "difference_is" -> difference_is(x, o, c.a[1], c.a[2], c.a[3])
=============================================================================
