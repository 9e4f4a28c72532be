--------------------------- MODULE PriorityQueue ---------------------------
(***************************************************************************)
(* PriorityQueue.hh: a binary heap that transactions change as they run.   *)
(* A pushed node is in the heap at once, marked inserted until the commit; *)
(* a popped one leaves at once, and the queue is dirty: dirtytid_ owns it  *)
(* and other transactions that would notice abort.                         *)
(*                                                                         *)
(* node: value and flags of every node made, heap: the nodes in the heap,  *)
(* heap[i + 1] for heap_[i], i < size_.  Every call takes poplock_ and     *)
(* releases it, so poplock_ does not show.                                 *)
(***************************************************************************)
EXTENDS TransItem

pop_key == -2
empty_key == -3
top_key == -4
NULL == 0
NoThread == -1

NewPriorityQueue(s) ==
  [kind |-> "PriorityQueue", opaque |-> FALSE,
   node |-> [i \in DOMAIN s |-> [v |-> s[i], flags |-> {}]],
   heap |-> [i \in DOMAIN s |-> i],      \* s is a heap
   popversion |-> Word(0, {}), dirtytid |-> NoThread, dirtyval |-> -1, dirtycount |-> 0]

-----------------------------------------------------------------------------
(* The heap.                                                               *)

ValueAt(q, i) == q.node[q.heap[i + 1]].v

swap(q, i, j) ==
  [q EXCEPT !.heap[i + 1] = q.heap[j + 1], !.heap[j + 1] = q.heap[i + 1]]

(* add(): the new last node moves up while it is larger than its parent.   *)
add(q, n) ==
  LET last == Len(q.heap)
      parent(i) == (i - 1) \div 2
      Up[k \in 0 .. last] ==
        IF k = 0 THEN [q |-> [q EXCEPT !.heap = Append(@, n)], child |-> last]
        ELSE LET s == Up[k - 1]
                 p == parent(s.child)
             IN IF s.child > 0 /\ ValueAt(s.q, s.child) > ValueAt(s.q, p)
                THEN [q |-> swap(s.q, s.child, p), child |-> p] ELSE s
  IN Up[last].q

(* removeMax(): the last node replaces the first and moves down.           *)
removeMax(q) ==
  LET bottom == Len(q.heap) - 1
      moved == [swap(q, bottom, 0) EXCEPT !.heap = SubSeq(@, 1, bottom)]
      Larger(s) ==
        LET l == 2 * s.parent + 1
            r == l + 1
        IN IF r < bottom /\ ValueAt(s.q, l) <= ValueAt(s.q, r) THEN r ELSE l
      Down[k \in 0 .. bottom] ==
        IF k = 0 THEN [q |-> moved, parent |-> 0]
        ELSE LET s == Down[k - 1]
                 c == Larger(s)
             IN IF 2 * s.parent < bottom - 1 /\ ValueAt(s.q, c) > ValueAt(s.q, s.parent)
                THEN [q |-> swap(s.q, s.parent, c), parent |-> c] ELSE s
  IN Down[bottom].q

Marked(q, n, flag) == [q EXCEPT !.node[n].flags = @ \cup {flag}]
Unmarked(q, n, flag) == [q EXCEPT !.node[n].flags = @ \ {flag}]

(* getMax(): deleted nodes at the top are dropped.                         *)
DropDeleted(q) ==
  LET Drop[k \in 0 .. Len(q.heap)] ==
        IF k = 0 THEN q
        ELSE LET p == Drop[k - 1]
             IN IF p.heap # <<>> /\ "delete" \in p.node[p.heap[1]].flags
                THEN removeMax(p) ELSE p
  IN Drop[Len(q.heap)]

First1(q) == IF q.heap = <<>> THEN NULL ELSE q.heap[1]

(* Another transaction has pushed the largest node and not committed.      *)
PushedElsewhere(x, o, q) ==
  /\ q.heap # <<>>
  /\ "insert" \in q.node[q.heap[1]].flags
  /\ ~has(item(x, o, q.heap[1]), "insert")

DirtyElsewhere(q, t) == q.dirtytid \notin {NoThread, t}

Make(q, v, flags) == [q EXCEPT !.node = Append(@, [v |-> v, flags |-> flags])]

-----------------------------------------------------------------------------
Returns(x, q, r) == [x |-> x, ob |-> q, r |-> r]

push(x, o, v) ==
  LET q == obj[o]
      n == Len(q.node) + 1
  IN IF DirtyElsewhere(q, x.thread) /\ v > q.dirtyval THEN Return(abort(x), o, Nothing)
     ELSE Returns(AddWriteValue(x, add_flags(item(x, o, n), {"insert"}), v),
                  add(Make(q, v, {"insert"}), n), Nothing)

ReadEmpty(x, o) ==
  LET y == AddRead(x, item(x, o, empty_key), Nothing)
  IN AddRead(y, item(y, o, pop_key), unlocked(obj[o].popversion))

(* The node is popped: the queue is dirty with the least value popped.     *)
Dirtied(q, t, v, counts) ==
  [removeMax(q) EXCEPT
     !.dirtyval = IF q.dirtytid = NoThread \/ v < @ THEN v ELSE @,
     !.dirtytid = t, !.dirtycount = IF counts THEN @ + 1 ELSE @]

pop(x, o) ==
  LET t == x.thread
      top == item(x, o, top_key)
      read_val == IF has(top, "read") THEN top.rdata ELSE NULL
      q == DropDeleted(obj[o])
      n == First1(q)
      v == q.node[n].v
      same == read_val # NULL /\ q.node[read_val].v = v
      shouldBeInserted ==
        (has(item(x, o, empty_key), "read") /\ n # NULL) \/ (read_val # NULL /\ ~same)
      y == IF same THEN Put(x, clear_flags(top, {"read"})) ELSE x
      it == item(y, o, n)
      mine == has(it, "insert")
      z == IF mine THEN Put(y, add_flags(it, {"delete"}))
           ELSE AddWriteValue(y, add_flags(it, {"delete"}), Nothing)
  IN IF obj[o].heap = <<>>
     THEN IF read_val # NULL THEN Return(abort(x), o, -1)
          ELSE Return(ReadEmpty(x, o), o, -1)
     ELSE IF DirtyElsewhere(obj[o], t) THEN Return(abort(x), o, -1)
     ELSE IF PushedElsewhere(x, o, q) THEN Returns(abort(x), q, -1)
     ELSE IF n = NULL    \* a top already read is then compared with no node at all
     THEN Returns(assert(ReadEmpty(x, o), read_val = NULL), q, -1)
     ELSE IF shouldBeInserted /\ ~mine THEN Returns(abort(y), q, -1)
     ELSE Returns(AddWrite(z, item(z, o, pop_key)), Dirtied(q, t, v, ~mine), v)

top(x, o) ==
  LET empty == AddRead(x, item(x, o, empty_key), Nothing)
      y == AddRead(x, item(x, o, pop_key), unlocked(obj[o].popversion))
      q == DropDeleted(obj[o])
      n == First1(q)
      z == AddRead(y, item(y, o, n), Nothing)
  IN IF obj[o].heap = <<>> THEN Return(empty, o, -1)
     ELSE IF DirtyElsewhere(obj[o], x.thread) THEN Return(abort(y), o, -1)
     ELSE IF PushedElsewhere(x, o, q) THEN Returns(abort(y), q, -1)
     ELSE IF n = NULL THEN Returns(AddRead(y, item(y, o, empty_key), Nothing), q, -1)
     ELSE Returns(AddRead(z, item(z, o, top_key), n), q, q.node[n].v)

-----------------------------------------------------------------------------
(* Callbacks of the commit.                                                *)

lock(x, ob, it) ==
  IF it.key # pop_key THEN Lock(TRUE, ob)
  ELSE Lock(~is_locked(ob.popversion), [ob EXCEPT !.popversion = Locked(@, x.thread)])

endOfLevel(l) == 2 ^ l - 2
findLevel(i) == CHOOSE l \in 1 .. i + 2 : 2 ^ l >= i + 2 /\ 2 ^ (l - 1) < i + 2

(* A node that was the top: only own pushes may be above it, down to the   *)
(* level below the last of those.                                          *)
StillTop(x, q, it) ==
  LET v == q.node[it.key].v
      Mine(i) == has(item(x, it.owner, q.heap[i + 1]), "insert")
      Scan[k \in 0 .. Len(q.heap)] ==
        IF k = 0 THEN [level |-> 1, found |-> FALSE, above |-> FALSE, ended |-> FALSE]
        ELSE LET s == Scan[k - 1]
                 i == k - 1
             IN IF s.ended \/ s.above THEN s
                ELSE IF ValueAt(q, i) > v
                THEN IF Mine(i) THEN [s EXCEPT !.level = findLevel(i) + 1]
                                ELSE [s EXCEPT !.above = TRUE]
                ELSE [s EXCEPT !.found = @ \/ ValueAt(q, i) = v,
                               !.ended = i = endOfLevel(s.level)]
      all == Scan[Len(q.heap)]
  IN all.found /\ ~all.above

check(x, ob, it) ==
  CASE it.key = top_key -> TRUE
    [] it.key = empty_key ->
         /\ \A i \in DOMAIN ob.heap : "insert" \in ob.node[ob.heap[i]].flags
         /\ ~DirtyElsewhere(ob, x.thread)
    [] it.key = pop_key -> check_version(ob.popversion, it.rdata, x.thread)
    [] OTHER -> /\ ~(DirtyElsewhere(ob, x.thread) /\ ob.dirtyval >= ob.node[it.key].v)
                /\ has(it, "delete") \/ StillTop(x, ob, it)

install(x, ob, it) ==
  Install(IF it.key = pop_key THEN [ob EXCEPT !.popversion = inc_nonopaque_version(@)]
          ELSE IF has(it, "insert") THEN Unmarked(ob, it.key, "insert") ELSE ob,
          it, FALSE, TRUE)

unlock(x, ob, it) ==
  IF it.key = pop_key THEN [ob EXCEPT !.popversion = unlocked(@)] ELSE ob

(* An abort takes pushes back by marking them, pops by pushing again.      *)
cleanup(x, ob, it, committed) ==
  LET again == add(Make(ob, ob.node[it.key].v, {}), Len(ob.node) + 1)
      n == ob.dirtycount - 1
  IN IF committed
     THEN [ob EXCEPT !.dirtytid = IF @ = x.thread THEN NoThread ELSE @]
     ELSE IF has(it, "insert") /\ has(it, "delete") THEN ob
     ELSE IF has(it, "insert") THEN Unmarked(Marked(ob, it.key, "delete"), it.key, "insert")
     ELSE IF has(it, "delete")
     THEN [again EXCEPT !.dirtycount = n, !.dirtytid = IF n = 0 THEN NoThread ELSE @]
     ELSE ob

(* The last pop taken back is one of the thread that made the queue dirty. *)
cleanup_asserts(x, ob, it, committed) ==
  ~committed /\ has(it, "delete") /\ ~has(it, "insert") /\ ob.dirtycount = 1
    => ob.dirtytid = x.thread

(* What the queue holds: the values of the nodes that count.               *)
Holds(ob, v) ==
  Cardinality({i \in DOMAIN ob.heap : /\ ob.node[ob.heap[i]].v = v
                                      /\ ob.node[ob.heap[i]].flags = {}})

Call(x, o, c) ==
  CASE c.op = "push" -> push(x, o, c.a[1])
    [] c.op = "pop" -> pop(x, o)
    [] c.op = "top" -> top(x, o)
=============================================================================
