--------------------------- MODULE TVectorNopred ---------------------------
(***************************************************************************)
(* TVector_nopred.hh: the vector without predicates.  Every operation that *)
(* looks at the size, pushes and pops included, reads it.                  *)
(***************************************************************************)
EXTENDS TransItem

size_key == -1

NewVector(opaque, capacity) ==
  [kind |-> "TVector_nopred", opaque |-> opaque, capacity |-> capacity,
   size |-> 0, max_size |-> 0, size_vers |-> Committed(opaque, FALSE),
   data |-> [i \in 0 .. capacity - 1 |-> [vers |-> Word(0, {"dead"}), v |-> Nothing]]]

-----------------------------------------------------------------------------
(* The size item: sizes before and after the transaction in wdata.         *)

size_item(x, o) ==
  LET it == item(x, o, size_key)
      sized == [it EXCEPT !.wdata = [first |-> obj[o].size, second |-> obj[o].size]]
  IN IF has(it, "read") THEN x
     ELSE observe(x, sized, obj[o].size_vers, obj[o].opaque, TRUE)

size_info(x, o) == item(x, o, size_key).wdata

SetSize(x, o, n) == Put(x, [item(x, o, size_key) EXCEPT !.wdata.second = n])

SizeForWrite(x, o) ==
  LET y == size_item(x, o) IN AddWrite(y, item(y, o, size_key))

size(x, o) == LET y == size_item(x, o) IN Return(y, o, size_info(y, o).second)

size_is(x, o, rel, n) ==
  LET s == size(x, o) IN [s EXCEPT !.r = Related(s.r, rel, n)]

empty(x, o) == size_is(x, o, "!=", 0)

-----------------------------------------------------------------------------
Pushed(x, o, i, v) ==
  AddWriteValue(x, clear_flags(item(x, o, i), {"write", "pop"}), v)

Popped(x, o, i) == AddWrite(x, add_flags(item(x, o, i), {"pop"}))

push_back(x, o, v) ==
  LET y == SizeForWrite(x, o)
      n == size_info(y, o).second
  IN Return(Pushed(SetSize(y, o, n + 1), o, n, v), o, Nothing)

pop_back(x, o) ==
  LET y == SizeForWrite(x, o)
      n == size_info(y, o).second
  IN IF n = 0 THEN Return(opaque_throw(y, obj[o].opaque), o, OutOfRange)
     ELSE Return(Popped(SetSize(y, o, n - 1), o, n - 1), o, Nothing)

clear(x, o) ==
  LET y == SizeForWrite(x, o)
      n == size_info(y, o).second
      Pops[i \in 0 .. n] == IF i = 0 THEN y ELSE Popped(Pops[i - 1], o, i - 1)
  IN Return(SetSize(Pops[n], o, 0), o, Nothing)

resize(x, o, n, v) ==
  LET y == SizeForWrite(x, o)
      m == size_info(y, o).second
      Down[j \in 0 .. m] ==
        IF j = 0 THEN SetSize(y, o, n) ELSE Popped(Down[j - 1], o, m - j)
      Up[j \in 0 .. n] ==
        IF j = 0 THEN SetSize(y, o, n) ELSE Pushed(Up[j - 1], o, m + j - 1, v)
  IN Return(IF n < m THEN Down[m - n] ELSE Up[n - m], o, Nothing)

(* transGet(i, item) of erase and insert: no look at the flags.            *)
PlainGet(x, o, i) ==
  LET it == item(x, o, i) IN
  IF has(it, "write") THEN Return(Put(x, it), o, it.wdata)
  ELSE Return(observe(x, it, obj[o].data[i].vers, obj[o].opaque, TRUE), o,
              obj[o].data[i].v)

transGet(x, o, i) ==
  LET it == item(x, o, i)
      g == PlainGet(x, o, i)
      gone == IF has(it, "write") THEN has(it, "pop")
              ELSE "dead" \in add_read(it, obj[o].data[i].vers).rdata.bits
  IN IF gone THEN Return(opaque_throw(g.x, obj[o].opaque), o, OutOfRange) ELSE g

transPut(x, o, i, v) ==
  LET it == item(x, o, i)
      unknown == ~has(it, "read") /\ ~has(it, "write")
      d == obj[o].data[i]
      y == IF unknown /\ i < obj[o].capacity
           THEN observe(x, add_flags(it, {"onlyexists"}), d.vers, obj[o].opaque, TRUE)
           ELSE Put(x, it)
      gone == has(it, "pop") \/ (unknown /\ (i >= obj[o].capacity \/ "dead" \in d.vers.bits))
  IN IF gone THEN Return(opaque_throw(y, obj[o].opaque), o, OutOfRange)
     ELSE Return(AddWriteValue(y, item(y, o, i), v), o, Nothing)

back(x, o) ==
  LET y == size_item(x, o)
      n == size_info(y, o).second
  IN IF n = 0 THEN Return(opaque_throw(y, obj[o].opaque), o, OutOfRange)
     ELSE transGet(y, o, n - 1)

erase(x, o, p) ==
  LET y == SizeForWrite(x, o)
      n == size_info(y, o).second
      Move[j \in 0 .. n] ==
        IF j = 0 THEN SetSize(y, o, n - 1)
        ELSE LET z == Put(Move[j - 1], item(Move[j - 1], o, p + j - 1))
                 g == PlainGet(z, o, p + j)
             IN AddWriteValue(g.x, item(g.x, o, p + j - 1), g.r)
  IN IF p >= n THEN Return(opaque_throw(y, obj[o].opaque), o, OutOfRange)
     ELSE Return(Popped(Move[n - 1 - p], o, n - 1), o, Nothing)

insert(x, o, p, v) ==
  LET y == SizeForWrite(x, o)
      n == size_info(y, o).second
      s == SetSize(y, o, n + 1)
      Move[j \in 0 .. n] ==
        IF j = 0 THEN Put(s, clear_flags(item(s, o, n), {"write", "pop"}))
        ELSE LET g == PlainGet(Move[j - 1], o, n - j)
             IN AddWriteValue(g.x, item(g.x, o, n - j + 1), g.r)
  IN IF p > n THEN Return(opaque_throw(y, obj[o].opaque), o, OutOfRange)
     ELSE LET z == Move[n - p] IN Return(AddWriteValue(z, item(z, o, p), v), o, Nothing)

(* Iterators are plain positions; end() reads the size.                    *)
iter_is(x, o, i, rel) ==
  LET e == size(x, o) IN [e EXCEPT !.r = Related(i, rel, e.r)]

difference_is(x, o, forward, rel, n) ==
  LET e == size(x, o)
  IN [e EXCEPT !.r = Related(IF forward THEN e.r ELSE -e.r, rel, n)]

-----------------------------------------------------------------------------
(* Callbacks of the commit.                                                *)

Version(ob, it) == IF it.key = size_key THEN ob.size_vers ELSE ob.data[it.key].vers

SetVersion(ob, it, v) ==
  IF it.key = size_key THEN [ob EXCEPT !.size_vers = v] ELSE [ob EXCEPT !.data[it.key].vers = v]

lock(x, ob, it) ==
  Lock(~is_locked(Version(ob, it)), SetVersion(ob, it, Locked(Version(ob, it), x.thread)))

check(x, ob, it) ==
  IF it.key # size_key /\ has(it, "onlyexists")
  THEN /\ "dead" \notin Version(ob, it).bits
       /\ x.state = "in_progress" /\ ob.opaque
            => ~is_locked_elsewhere(Version(ob, it), x.thread)
  ELSE check_version(Version(ob, it), it.rdata, x.thread)

install(x, ob, it) ==
  LET k == it.key
      vers == set_version_unlock(x, Version(ob, it), ob.opaque,
                                 IF has(it, "pop") THEN {"dead"} ELSE {})
  IN IF k = size_key
     THEN Install([ob EXCEPT !.size = it.wdata.second,
                             !.size_vers = set_version(x, @, ob.opaque, {})],
                  it, ob.opaque, TRUE)
     ELSE Install(IF has(it, "pop") THEN [ob EXCEPT !.data[k].vers = vers]
                  ELSE [ob EXCEPT !.data[k] = [vers |-> vers, v |-> it.wdata],
                                  !.max_size = IF k = @ THEN @ + 1 ELSE @],
                  clear_needs_unlock(it), ob.opaque, TRUE)

unlock(x, ob, it) == SetVersion(ob, it, unlocked(Version(ob, it)))

Value(ob) == [i \in 1 .. ob.size |-> ob.data[i - 1].v]

Call(x, o, c) ==
  CASE c.op = "push_back" -> push_back(x, o, c.a[1])
    [] c.op = "pop_back" -> pop_back(x, o)
    [] c.op = "clear" -> clear(x, o)
    [] c.op = "resize" -> resize(x, o, c.a[1], c.a[2])
    [] c.op = "get" -> transGet(x, o, c.a[1])
    [] c.op = "put" -> transPut(x, o, c.a[1], c.a[2])
    [] c.op = "front" -> transGet(x, o, 0)
    [] c.op = "back" -> back(x, o)
    [] c.op = "erase" -> erase(x, o, c.a[1])
    [] c.op = "insert" -> insert(x, o, c.a[1], c.a[2])
    [] c.op \in {"size", "end"} -> size(x, o)
    [] c.op = "size_is" -> size_is(x, o, c.a[1], c.a[2])
    [] c.op = "empty" -> empty(x, o)
    [] c.op = "iter_eq_end" -> iter_is(x, o, c.a[1], "==")
    [] c.op = "iter_lt_end" -> iter_is(x, o, c.a[1], "<")
    [] c.op = "end_le_iter" -> iter_is(x, o, c.a[1], ">=")
    [] c.op = "difference_is" -> difference_is(x, o, c.a[1], c.a[2], c.a[3])
=============================================================================
