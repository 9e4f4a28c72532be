----------------------------- MODULE TLayoutBT -----------------------------
(***************************************************************************)
(* TLayoutBT.hh: transactions on a layout tree.  A call finds the treelet  *)
(* of its key, locks it unless this transaction has done so, and logs the  *)
(* update; install() applies the log.  No call returns what is in the tree.*)
(*                                                                         *)
(* treelet: the treelet of each key, in a layout that does not change (a   *)
(* thread makes fewer than 200 updates).  treelets: the keys of each, and  *)
(* own, who locked it; 0 is unlocked, and the code knows no more than that.*)
(***************************************************************************)
EXTENDS TransItem

NewTLayoutBT(treelet, s) ==
  [kind |-> "TLayoutBT", opaque |-> FALSE, treelet |-> treelet,
   treelets |-> [t \in {treelet[k] : k \in DOMAIN treelet} |->
                   [own |-> 0, keys |-> {k \in s : treelet[k] = t}]]]

release(ob, t) == [ob EXCEPT !.treelets[t].own = 0]

-----------------------------------------------------------------------------
acquires(x, o, key) ==
  LET it == item(x, o, obj[o].treelet[key]) IN ~has(it, "write") /\ ~has(it, "read")

(* tatas_acquire spins: the call does not return before the lock is free.  *)
waits(x, o, key) == acquires(x, o, key) /\ obj[o].treelets[obj[o].treelet[key]].own # 0

(* treelet_log: pairs of a key and whether it is inserted or removed.      *)
Log(x, o, key, inserted) ==
  LET it == item(x, o, obj[o].treelet[key])
      old == IF has(it, "write") THEN it.wdata ELSE {}
  IN AddWriteValue(x, it, {e \in old : e[1] # key} \cup {<<key, inserted>>})

(* insert() and remove(), getTreelet() included.                           *)
update(x, o, key, inserted) ==
  [x |-> Log(x, o, key, inserted), r |-> TRUE,
   ob |-> IF acquires(x, o, key) THEN [obj[o] EXCEPT !.treelets[obj[o].treelet[key]].own = x.thread]
          ELSE obj[o]]

Call(x, o, c) == update(x, o, c.a[1], c.op = "insert")

-----------------------------------------------------------------------------
(* The callbacks lock, check, unlock and cleanup do nothing.               *)
lock(x, ob, it) == Lock(TRUE, ob)

unlock(x, ob, it) == ob

(* One round of the loop of install(): the insert() or remove() of the     *)
(* treelet, which releases it.  After the last one it is released again.   *)
Entry(it) == CHOOSE e \in it.wdata : \A f \in it.wdata : e[1] <= f[1]

install(x, ob, it) ==
  LET e == Entry(it)
      applied == [release(ob, it.key) EXCEPT
                    !.treelets[it.key].keys = IF e[2] THEN @ \cup {e[1]} ELSE @ \ {e[1]}]
  IN IF it.wdata = {} THEN Install(release(ob, it.key), it, FALSE, TRUE)
     ELSE Install(applied, [it EXCEPT !.wdata = @ \ {e}], FALSE, TRUE)

(* Another round follows.                                                  *)
more_to_install(it) == it.wdata # {}

(* The key to be inserted was there, or the one to be removed was not:     *)
(* install() calls abort().                                                *)
install_aborts(ob, it) ==
  more_to_install(it) /\ LET e == Entry(it) IN e[2] = (e[1] \in ob.treelets[it.key].keys)
=============================================================================
