------------------------------- MODULE Queue -------------------------------
(***************************************************************************)
(* Queue.hh: a ring of BUF_SIZE slots.  Pushes wait in the item tail_key   *)
(* for the commit, pops mark slots; head_key and tail_key carry the        *)
(* versions of the two ends.                                               *)
(***************************************************************************)
EXTENDS TransItem

tail_key == -1
head_key == -2

(* A queue whose head is at slot h and that holds s.                       *)
NewQueue(opaque, BUF_SIZE, h, s) ==
  [kind |-> "Queue", opaque |-> opaque, BUF_SIZE |-> BUF_SIZE,
   head |-> h, tail |-> (h + Len(s)) % BUF_SIZE,
   headversion |-> Word(0, {}), tailversion |-> Word(0, {}),
   queueSlots |-> [i \in 0 .. BUF_SIZE - 1 |->
                     LET p == (i + BUF_SIZE - h) % BUF_SIZE
                     IN IF p < Len(s) THEN s[p + 1] ELSE Nothing]]

(* The elements still to be pushed: one or a list in the code.             *)
write_list(x, o) ==
  LET it == item(x, o, tail_key) IN IF has(it, "write") THEN it.wdata ELSE <<>>

transPush(x, o, v) ==
  LET it == item(x, o, tail_key)
      list == IF has(it, "write") THEN add_flags(it, {"list"}) ELSE it
  IN Return(AddWriteValue(x, list, Append(write_list(x, o), v)), o, Nothing)

(* The slot a pop or a look takes: the first one from head_ that the       *)
(* transaction has not popped, or tail_.                                   *)
index(x, o) ==
  LET q == obj[o]
      Slot(k) == (q.head + k) % q.BUF_SIZE
      Stops(k) == Slot(k) = q.tail \/ ~has(item(x, o, Slot(k)), "delete")
  IN Slot(CHOOSE k \in 0 .. q.BUF_SIZE - 1 : Stops(k) /\ \A j \in 0 .. k - 1 : ~Stops(j))

ObserveTail(x, o) ==
  LET it == item(x, o, tail_key) IN
  IF has(it, "read") THEN Put(x, it) ELSE observe(x, it, obj[o].tailversion, obj[o].opaque, TRUE)

(* Mutant: the version of the head is looked at but not read.              *)
ObserveHeadUnread(x, o) == observe(x, item(x, o, head_key), obj[o].headversion, obj[o].opaque, FALSE)

ObserveHead(x, o) ==
  LET it == item(x, o, head_key) IN
  IF has(it, "read") THEN Put(x, it) ELSE observe(x, it, obj[o].headversion, obj[o].opaque, TRUE)

(* A queue that is empty but for the transaction's own pushes: the first   *)
(* of those is popped.                                                     *)
PopOwn(x, o, i) ==
  LET y == ObserveTail(Put(x, item(x, o, i)), o)
      push == item(y, o, tail_key)
      z == Put(y, [push EXCEPT !.wdata = Tail(@)])
  IN IF write_list(x, o) = <<>> THEN Return(y, o, FALSE)
     ELSE Return(IF has(push, "list") THEN Put(z, add_flags(item(z, o, i), {"read_writes"}))
                                      ELSE z, o, TRUE)

transPop(x, o) ==
  LET i == index(x, o)
      y == ObserveHead(Put(x, item(x, o, i)), o)
      z == AddWrite(y, item(y, o, head_key))
  IN IF i = obj[o].tail THEN PopOwn(x, o, i)
     ELSE Return(AddWrite(z, add_flags(item(z, o, i), {"delete"})), o, TRUE)

(* The front element, or Nothing for false.                                *)
transFront(x, o) ==
  LET i == index(x, o)
      y == Put(x, item(x, o, i))
  IN IF i # obj[o].tail THEN Return(ObserveHead(y, o), o, obj[o].queueSlots[i])
     ELSE Return(ObserveTail(y, o), o,
                 IF write_list(x, o) = <<>> THEN Nothing ELSE Head(write_list(x, o)))

-----------------------------------------------------------------------------
lock(x, ob, it) ==
  CASE it.key = tail_key -> Lock(~is_locked(ob.tailversion),
                                 [ob EXCEPT !.tailversion = Locked(@, x.thread)])
    [] it.key = head_key -> Lock(~is_locked(ob.headversion),
                                 [ob EXCEPT !.headversion = Locked(@, x.thread)])
    [] OTHER -> Lock(TRUE, ob)

check(x, ob, it) ==
  IF it.key = head_key THEN check_version(ob.headversion, it.rdata, x.thread)
                       ELSE check_version(ob.tailversion, it.rdata, x.thread)

(* (h - 1) % BUF_SIZE in unsigned arithmetic: 2^32 - 1 if h is 0.          *)
BeforeHead(ob) ==
  LET n == ob.BUF_SIZE IN
  IF ob.head > 0 THEN ob.head - 1 ELSE ((65536 % n) * (65536 % n) + n - 1) % n

(* The elements of a list are pushed under the check that the ring is not  *)
(* full, a single one is not.  The new version is always a commit tid.     *)
install(x, ob, it) ==
  LET n == Len(it.wdata)
      Slot(k) == (ob.tail + k) % ob.BUF_SIZE
      Pushed(i) == {k \in 1 .. n : Slot(k - 1) = i}
      slots == [i \in DOMAIN ob.queueSlots |->
                  IF Pushed(i) = {} THEN ob.queueSlots[i]
                  ELSE it.wdata[CHOOSE k \in Pushed(i) : \A j \in Pushed(i) : j <= k]]
      room == has(it, "list") => \A k \in 0 .. n - 1 : Slot(k) # BeforeHead(ob)
  IN CASE it.key = head_key -> Install(ob, it, FALSE, TRUE)
       [] has(it, "delete") ->
            Install([ob EXCEPT !.head = IF has(it, "read_writes") THEN @
                                        ELSE (@ + 1) % ob.BUF_SIZE,
                               !.headversion = set_version(x, @, TRUE, {})], it, TRUE, TRUE)
       [] it.key = tail_key ->
            Install([ob EXCEPT !.tail = Slot(n), !.queueSlots = slots,
                               !.tailversion = set_version(x, @, TRUE, {})], it, TRUE, room)

unlock(x, ob, it) ==
  CASE it.key = tail_key -> [ob EXCEPT !.tailversion = unlocked(@)]
    [] it.key = head_key -> [ob EXCEPT !.headversion = unlocked(@)]
    [] OTHER -> ob

(* What the queue holds, the front first.                                  *)
Value(ob) ==
  [i \in 1 .. (ob.tail + ob.BUF_SIZE - ob.head) % ob.BUF_SIZE |->
     ob.queueSlots[(ob.head + i - 1) % ob.BUF_SIZE]]

Call(x, o, c) ==
  CASE c.op = "push" -> transPush(x, o, c.a[1])
    [] c.op = "pop" -> transPop(x, o)
    [] c.op = "front" -> transFront(x, o)
=============================================================================
