-------------------------------- MODULE TBox --------------------------------
(***************************************************************************)
(* TBox.hh and TArray.hh: values with a version each, at whole calls.  A   *)
(* box is an array whose only key is 0.  data: vers and v of each element. *)
(***************************************************************************)
EXTENDS TransItem

NewArray(opaque, s) ==
  [kind |-> "TBox", opaque |-> opaque,
   data |-> [i \in 0 .. Len(s) - 1 |-> [vers |-> Committed(opaque, FALSE), v |-> s[i + 1]]]]

read(x, o, i) ==
  LET it == item(x, o, i)
      d == obj[o].data[i]
  IN IF has(it, "write") THEN Return(Put(x, it), o, it.wdata)
     ELSE Return(observe(x, it, d.vers, obj[o].opaque, TRUE), o, d.v)

write(x, o, i, v) == Return(AddWriteValue(x, item(x, o, i), v), o, Nothing)

lock(x, ob, it) ==
  Lock(~is_locked(ob.data[it.key].vers),
       [ob EXCEPT !.data[it.key].vers = Locked(@, x.thread)])

(* Mutant: a locked element passes, whatever its version.                  *)
check_lock(x, ob, it) == ~is_locked_elsewhere(ob.data[it.key].vers, x.thread)

check(x, ob, it) == check_version(ob.data[it.key].vers, it.rdata, x.thread)

install(x, ob, it) ==
  LET vers == set_version_unlock(x, ob.data[it.key].vers, ob.opaque, {})
  IN Install([ob EXCEPT !.data[it.key] = [vers |-> vers, v |-> it.wdata]],
             clear_needs_unlock(it), ob.opaque, TRUE)

unlock(x, ob, it) == [ob EXCEPT !.data[it.key].vers = unlocked(@)]

Call(x, o, c) ==
  CASE c.op = "get" -> read(x, o, c.a[1])
    [] c.op = "put" -> write(x, o, c.a[1], c.a[2])
=============================================================================
