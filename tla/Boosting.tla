------------------------------ MODULE Boosting ------------------------------
(***************************************************************************)
(* Transactional boosting (Boosting_locks.hh, Boosting_map.hh,             *)
(* TransPessimisticLocking.hh, TransUndoable.hh): TransMap changes an      *)
(* ordinary table at once, under a lock of the key, and logs how to undo   *)
(* it.  A lock is taken one atomic access at a time; the rest of a call is *)
(* one step, as for the other data structures.                             *)
(*                                                                         *)
(* map: pairs of a key and its value; locks: the RWLock of each key.       *)
(***************************************************************************)
EXTENDS TransItem

SPIN == 1       \* READ_SPIN and WRITE_SPIN, 100000 in the code

Free == [write |-> FALSE, waiting |-> FALSE, readers |-> 0]

WriteLocked == [Free EXCEPT !.write = TRUE]

NewTransMap(keys, m) ==
  [kind |-> "TransMap", opaque |-> TRUE, map |-> {<<k, m[k]>> : k \in DOMAIN m},
   locks |-> [k \in keys |-> Free]]

-----------------------------------------------------------------------------
(* RWLock.  a: a thread in tryReadLock, tryWriteLock or tryUpgrade of the  *)
(* lock l; loop is where its loop begins.  A step gives both afterwards.   *)

Trying(mode) ==
  LET first == CASE mode = "read" -> "read_load" [] mode = "write" -> "write_load"
                 [] mode = "upgrade" -> "upgrade_load"
  IN [pc |-> first, loop |-> IF mode = "upgrade" THEN "upgrade_wait" ELSE first,
      spin |-> SPIN, cur |-> Free, registered |-> FALSE]

At(a, pc) == [a EXCEPT !.pc = pc]

(* Mutant: who gives up leaves waiting_write_bit set.                      *)
AgainForgetful(a) ==
  IF a.spin > 0 THEN [a EXCEPT !.spin = @ - 1, !.pc = a.loop] ELSE At(a, "denied")

(* The end of the loop's body: another round or giving up.                 *)
Again(a) ==
  IF a.spin > 0 THEN [a EXCEPT !.spin = @ - 1, !.pc = a.loop]
  ELSE At(a, IF a.registered THEN "clear" ELSE "denied")

Outcome(a, l) == [a |-> a, l |-> l]

tryReadLock(a, l) ==
  CASE a.pc = "read_load" ->
         Outcome(IF ~l.write /\ ~l.waiting THEN At(a, "read_add") ELSE Again(a), l)
    [] a.pc = "read_add" ->
         Outcome(At(a, IF l.write \/ l.waiting THEN "read_sub" ELSE "granted"),
                 [l EXCEPT !.readers = @ + 1])
    [] a.pc = "read_sub" -> Outcome(Again(a), [l EXCEPT !.readers = @ - 1])

Register(a) == IF ~a.cur.waiting /\ a.spin > 0 THEN At(a, "write_or") ELSE Again(a)

tryWriteLock(a, l) ==
  LET b == [a EXCEPT !.cur = l] IN
  CASE a.pc = "write_load" ->
         Outcome(IF ~l.write /\ l.readers = 0 THEN At(b, "write_swap") ELSE Register(b), l)
    [] a.pc = "write_swap" ->
         IF l = a.cur THEN Outcome(At(a, "granted"), WriteLocked) ELSE Outcome(Register(a), l)
    [] a.pc = "write_or" ->
         Outcome(Again([a EXCEPT !.registered = ~l.waiting]), [l EXCEPT !.waiting = TRUE])

(* It gives way to whoever waits already.                                  *)
tryUpgrade(a, l) ==
  CASE a.pc = "upgrade_load" -> Outcome(At(a, IF l.waiting THEN "denied" ELSE "upgrade_or"), l)
    [] a.pc = "upgrade_or" ->
         Outcome(IF l.waiting THEN At(a, "denied")
                 ELSE [At(a, "upgrade_wait") EXCEPT !.registered = TRUE],
                 [l EXCEPT !.waiting = TRUE])
    [] a.pc = "upgrade_wait" ->
         Outcome(IF l.readers = 1 THEN [At(a, "upgrade_swap") EXCEPT !.cur = l] ELSE Again(a), l)
    [] a.pc = "upgrade_swap" ->
         IF l = a.cur THEN Outcome(At(a, "granted"), WriteLocked) ELSE Outcome(Again(a), l)

(* waiting_write_bit goes when the thread that set it gives up.            *)
GiveUp(a, l) == Outcome(At(a, "denied"), [l EXCEPT !.waiting = FALSE])

RWLockStep(a, l) ==
  CASE a.pc = "clear" -> GiveUp(a, l)
    [] a.pc \in {"read_load", "read_add", "read_sub"} -> tryReadLock(a, l)
    [] a.pc \in {"write_load", "write_swap", "write_or"} -> tryWriteLock(a, l)
    [] OTHER -> tryUpgrade(a, l)

(* Who upgrades is a reader.                                               *)
TryAsserts(a, l) == a.pc = "upgrade_load" => l.readers > 0

readUnlock(l) == [l EXCEPT !.readers = @ - 1]

writeUnlock(l) == [l EXCEPT !.write = FALSE]

-----------------------------------------------------------------------------
(* TransPessimisticLocking: the item of a lock says how it is held.        *)

Mode(c) == IF c.op = "get" THEN "read" ELSE "write"

Held(x, o, k) == LET it == item(x, o, k) IN IF has(it, "write") THEN it.wdata ELSE Nothing

(* What transReadLock or transWriteLock has to ask the lock for.           *)
Wanted(x, o, c) ==
  LET held == Held(x, o, c.a[1])
  IN IF held = Nothing THEN Mode(c)
     ELSE IF held = "read" /\ Mode(c) = "write" THEN "upgrade"
     ELSE Nothing

(* The lock is granted, in the mode mode.                                  *)
Hold(x, o, k, mode) == AddWriteValue(x, item(x, o, k), IF mode = "read" THEN "read" ELSE "write")

-----------------------------------------------------------------------------
(* TransMap, with the lock of the key held.                                *)

undo_key == -1

(* add_undo: always a new item.                                            *)
add_undo(x, o, undo, k, v) ==
  [x EXCEPT !.any_writes = TRUE,
            !.tset = Append(@, [NewTransItem(o, undo_key) EXCEPT
                                  !.flags = {"write"}, !.rdata = undo, !.wdata = <<k, v>>])]

Found(ob, k) == {p \in ob.map : p[1] = k}

Old(ob, k) == (CHOOSE p \in Found(ob, k) : TRUE)[2]

Without(ob, k) == [ob EXCEPT !.map = @ \ Found(ob, k)]

With(ob, k, v) == [Without(ob, k) EXCEPT !.map = @ \cup {<<k, v>>}]

Changed(x, new, r) == [x |-> x, ob |-> new, r |-> r]

transGet(x, o, k) ==
  Return(x, o, IF Found(obj[o], k) = {} THEN Nothing ELSE Old(obj[o], k))

transDelete(x, o, k) ==
  IF Found(obj[o], k) = {} THEN Return(x, o, FALSE)
  ELSE Changed(add_undo(x, o, "delete", k, Old(obj[o], k)), Without(obj[o], k), TRUE)

transInsert(x, o, k, v) ==
  IF Found(obj[o], k) # {} THEN Return(x, o, FALSE)
  ELSE Changed(add_undo(x, o, "insert", k, Nothing), With(obj[o], k, v), TRUE)

transUpdate(x, o, k, v) ==
  IF Found(obj[o], k) = {} THEN Return(x, o, FALSE)
  ELSE Changed(add_undo(x, o, "set", k, Old(obj[o], k)), With(obj[o], k, v), TRUE)

transPut(x, o, k, v) ==
  IF Found(obj[o], k) = {} THEN [transInsert(x, o, k, v) EXCEPT !.r = Nothing]
  ELSE [transUpdate(x, o, k, v) EXCEPT !.r = Nothing]

Call(x, o, c) ==
  CASE c.op = "get" -> transGet(x, o, c.a[1])
    [] c.op = "delete" -> transDelete(x, o, c.a[1])
    [] c.op = "insert" -> transInsert(x, o, c.a[1], c.a[2])
    [] c.op = "update" -> transUpdate(x, o, c.a[1], c.a[2])
    [] c.op = "put" -> transPut(x, o, c.a[1], c.a[2])

-----------------------------------------------------------------------------
(* Nothing is left to do at the commit but the cleanup, the last item      *)
(* first: what a transaction did is undone before its lock is released.    *)

Undone(ob, it) ==
  LET k == it.wdata[1] IN
  IF it.rdata = "insert" THEN Without(ob, k) ELSE With(ob, k, it.wdata[2])

cleanup(x, ob, it, committed) ==
  CASE it.key = undo_key -> IF committed THEN ob ELSE Undone(ob, it)
    [] it.key # undo_key ->
         [ob EXCEPT !.locks[it.key] = IF it.wdata = "read" THEN readUnlock(@) ELSE writeUnlock(@)]

(* _undoDelete inserts, _undoInsert and _undoSet find the key; a reader is *)
(* counted.                                                                *)
cleanup_asserts(x, ob, it, committed) ==
  IF it.key = undo_key
  THEN ~committed => (it.rdata = "delete" <=> Found(ob, it.wdata[1]) = {})
  ELSE it.wdata = "read" => ob.locks[it.key].readers > 0
=============================================================================
