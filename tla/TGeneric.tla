------------------------------ MODULE TGeneric ------------------------------
(***************************************************************************)
(* TGeneric.hh: transactional access to plain words of memory.  A table of *)
(* versions serves all words; words with the same slot share a version.    *)
(***************************************************************************)
EXTENDS TransItem

(* slot: (word >> 3) % table_size, for the words in use.                   *)
NewWords(opaque, slot, mem) ==
  [kind |-> "TGeneric", opaque |-> opaque, slot |-> slot, mem |-> mem,
   table |-> [s \in {slot[w] : w \in DOMAIN slot} |-> Committed(opaque, FALSE)]]

version(ob, word) == ob.table[ob.slot[word]]

SetWord(ob, word, v) == [ob EXCEPT !.table[ob.slot[word]] = v]

read(x, o, word) ==
  LET it == item(x, o, word) IN
  IF has(it, "write") THEN Return(Put(x, it), o, it.wdata)
  ELSE Return(observe(x, it, version(obj[o], word), obj[o].opaque, TRUE), o, obj[o].mem[word])

write(x, o, word, v) == Return(AddWriteValue(x, item(x, o, word), v), o, Nothing)

(* A version another word of the transaction has locked counts as locked.  *)
lock(x, ob, it) ==
  LET v == version(ob, it.key)
  IN Lock(v.own \in {0, x.thread}, SetWord(ob, it.key, Locked(v, x.thread)))

check(x, ob, it) == check_version(version(ob, it.key), it.rdata, x.thread)

install(x, ob, it) ==
  Install([SetWord(ob, it.key, set_version(x, version(ob, it.key), ob.opaque, {}))
             EXCEPT !.mem[it.key] = it.wdata], it, ob.opaque, TRUE)

unlock(x, ob, it) ==
  IF version(ob, it.key).own = x.thread
  THEN SetWord(ob, it.key, unlocked(version(ob, it.key))) ELSE ob

Call(x, o, c) ==
  CASE c.op = "get" -> read(x, o, c.a[1])
    [] c.op = "put" -> write(x, o, c.a[1], c.a[2])
=============================================================================
