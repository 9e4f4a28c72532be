--------------------------- MODULE TIntPredicate ---------------------------
(***************************************************************************)
(* TIntPredicate.hh and TCounter.hh: an integer that is observed through   *)
(* comparisons, and a counter to which transactions add.  An observed      *)
(* range is verified at commit and only then becomes a read.               *)
(***************************************************************************)
EXTENDS TransItem, TIntRange

NewInt(kind, opaque, v) ==
  [kind |-> kind, opaque |-> opaque, vers |-> Committed(opaque, FALSE), v |-> v]

(* get(item): the predicate, unconstrained if there is none.               *)
get(it) ==
  IF has(it, "predicate") THEN it
  ELSE [add_flags(it, {"predicate"}) EXCEPT !.rdata = unconstrained]

(* A snapshot of the value, whose range becomes r.                         *)
Constrain(x, o, it, r) ==
  LET g == get(it)
      y == snapshot(x, it, obj[o].vers, obj[o].opaque)
      z == Put(y, [g EXCEPT !.rdata = r])
  IN IF empty_range(r) THEN abort(z) ELSE z

-----------------------------------------------------------------------------
(* TIntPredicate                                                           *)

(* operator T                                                              *)
predicate_read(x, o) ==
  LET it == item(x, o, 0)
      r == observe_value(get(it).rdata, obj[o].v)
  IN IF has(it, "write") THEN Return(Put(x, it), o, it.wdata)
     ELSE Return(Constrain(x, o, it, r), o, obj[o].v)

predicate_write(x, o, v) == Return(AddWriteValue(x, item(x, o, 0), v), o, Nothing)

(* observe_eq, observe_lt, observe_le and the operators made of them.      *)
predicate_compare(x, o, rel, n) ==
  LET it == item(x, o, 0)
      s == IF has(it, "write") THEN it.wdata ELSE obj[o].v
      r == Compare(get(it).rdata, s, 0, rel, n).r
      is == Compare(unconstrained, s, 0, rel, n).is
  IN IF has(it, "write") THEN Return(Put(x, it), o, is)
     ELSE Return(Constrain(x, o, it, r), o, is)

-----------------------------------------------------------------------------
(* TCounter.  A write is a value (flag assigned) or a delta.               *)

delta(it) == IF has(it, "delta") THEN it.wdata ELSE 0

Written(it) == IF has(it, "write") THEN it.wdata ELSE 0

counter_read(x, o) ==
  LET it == item(x, o, 0)
      r == observe_value(get(it).rdata, obj[o].v)
  IN IF has(it, "assigned") THEN Return(Put(x, it), o, Written(it))
     ELSE Return(Constrain(x, o, it, r), o, obj[o].v + Written(it))

(* operator=: assign_flags drops delta_bit.                                *)
counter_write(x, o, v) ==
  LET it == item(x, o, 0)
  IN Return(AddWriteValue(x, add_flags(clear_flags(it, {"delta"}), {"assigned"}), v),
            o, Nothing)

(* operator+=, operator-= and the increments.                              *)
counter_add(x, o, n) ==
  LET it == item(x, o, 0)
      flags == IF has(it, "assigned") THEN {} ELSE {"delta"}
  IN Return(AddWriteValue(x, add_flags(it, flags), Written(it) + n), o, Nothing)

counter_compare(x, o, rel, n) ==
  LET it == item(x, o, 0)
      s == IF has(it, "assigned") THEN it.wdata ELSE obj[o].v
      r == Compare(get(it).rdata, s, delta(it), rel, n).r
      is == Compare(unconstrained, s, delta(it), rel, n).is
  IN IF has(it, "assigned") THEN Return(Put(x, it), o, is)
     ELSE Return(Constrain(x, o, it, r), o, is)

-----------------------------------------------------------------------------
(* Callbacks of the commit, the same for both but for the delta.           *)

check_predicate(x, ob, it) == verify(it.rdata, ob.v)

lock(x, ob, it) ==
  Lock(~is_locked(ob.vers), [ob EXCEPT !.vers = Locked(@, x.thread)])

check(x, ob, it) == check_version(ob.vers, it.rdata, x.thread)

install(x, ob, it) ==
  Install([ob EXCEPT !.v = IF has(it, "delta") THEN @ + it.wdata ELSE it.wdata,
                         !.vers = set_version_unlock(x, @, ob.opaque, {})],
          clear_needs_unlock(it), ob.opaque, TRUE)

unlock(x, ob, it) == [ob EXCEPT !.vers = unlocked(@)]

Call(x, o, c) ==
  LET counter == obj[o].kind = "TCounter" IN
  CASE c.op = "get" -> IF counter THEN counter_read(x, o) ELSE predicate_read(x, o)
    [] c.op = "put" -> IF counter THEN counter_write(x, o, c.a[1])
                                  ELSE predicate_write(x, o, c.a[1])
    [] c.op = "add" -> counter_add(x, o, c.a[1])
    [] c.op = "is" -> IF counter THEN counter_compare(x, o, c.a[1], c.a[2])
                                 ELSE predicate_compare(x, o, c.a[1], c.a[2])
=============================================================================
