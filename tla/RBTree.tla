------------------------------- MODULE RBTree -------------------------------
(***************************************************************************)
(* RBTree.hh: a transactional ordered map.  A new node is linked at once,  *)
(* with insert_bit in its version until its transaction commits; a deleted *)
(* one is unlinked by install().  A key that is not there is read as the   *)
(* nodeversions of its two neighbours, the boundary nodes; an insert bumps *)
(* that of the new node's parent, at commit.  treelock_ is held within a   *)
(* step only.                                                              *)
(*                                                                         *)
(* tree: the nodes, their keys and links; val, vers, nodevers: of each.    *)
(***************************************************************************)
EXTENDS TransItem

Tree == INSTANCE RBTreeInternal

Null == Tree!Null

(* Keys of items.  A node is a pointer, whose low 3 bits are 0: its item   *)
(* is about the value, and with the lowest bit about the nodeversion.      *)
tree_key == 1

size_key == 2

ValueKey(n) == 8 * n

NodeKey(n) == ValueKey(n) + tree_key

NodeOf(it) == it.key \div 8

is_structured(it) == it.key % 2 = 1

insert_bit == "insert"

initialized_tid == Word(1, {})

(* nontrans_insert: a node without insert_bit.                             *)
nontrans_insert(ob, k, v) ==
  LET new == Tree!WithNode(ob.tree, k) IN
  IF Tree!found(Tree!find_any(ob.tree, k)) THEN ob
  ELSE [ob EXCEPT !.tree = Tree!insert(new, Len(new.key)),
                  !.val = Append(@, v), !.vers = Append(@, initialized_tid),
                  !.nodevers = Append(@, initialized_tid), !.size = @ + 1]

nontrans_remove(ob, k) ==
  LET at == Tree!find_any(ob.tree, k) IN
  IF Tree!found(at) THEN [ob EXCEPT !.tree = Tree!erase(@, at.n.n), !.size = @ - 1] ELSE ob

(* 0 is T().                                                               *)
nontrans_find(ob, k) ==
  LET at == Tree!find_any(ob.tree, k) IN IF Tree!found(at) THEN ob.val[at.n.n] ELSE 0

EmptyTree ==
  [kind |-> "RBTree", opaque |-> TRUE, tree |-> Tree!Empty,
   val |-> <<>>, vers |-> <<>>, nodevers |-> <<>>,
   treeversion |-> initialized_tid, size |-> 0, sizeversion |-> Word(0, {})]

(* A tree that holds the pairs of a key and its value in s.                *)
NewRBTree(s) ==
  LET Filled[i \in 0 .. Len(s)] ==
        IF i = 0 THEN EmptyTree ELSE nontrans_insert(Filled[i - 1], s[i][1], s[i][2])
  IN Filled[Len(s)]

is_inserted(v) == insert_bit \in v.bits

has_insert(it) == has(it, "insert")

has_delete(it) == has(it, "delete")

(* Inserted by this transaction, whatever it did to it since.              *)
Mine(it) == has_insert(it) \/ has_delete(it)

-----------------------------------------------------------------------------
Observe(x, o, key, v) == observe(x, item(x, o, key), v, TRUE, TRUE)

ObserveNode(x, o, n) ==
  IF n = Null THEN x ELSE Observe(x, o, NodeKey(n), obj[o].nodevers[n])

observe_absent(x, o, at) ==
  LET y == IF at.p.n = Null THEN Observe(x, o, tree_key, obj[o].treeversion) ELSE x
  IN ObserveNode(ObserveNode(y, o, at.lhs), o, at.rhs)

(* verified_lookup: what it sees is one state of the tree.                 *)
Lookup(o, k) == Tree!find_any(obj[o].tree, k)

find_or_abort(x, o, at) ==
  LET n == at.n.n
      it == item(x, o, ValueKey(n))
  IN IF ~Tree!found(at) THEN observe_absent(x, o, at)
     ELSE IF ~is_inserted(obj[o].vers[n]) THEN Observe(x, o, ValueKey(n), obj[o].vers[n])
     ELSE AbortIf(Put(x, it), ~Mine(it))

change_size_offset(x, o, delta) ==
  LET it == item(x, o, size_key)
  IN AddWriteValue(x, it, (IF has(it, "write") THEN it.wdata ELSE 0) + delta)

-----------------------------------------------------------------------------
(* count(k); size().                                                       *)
count(x, o, k) ==
  LET at == Lookup(o, k)
      y == find_or_abort(x, o, at)
      there == Tree!found(at) /\ ~has_delete(item(y, o, ValueKey(at.n.n)))
  IN Return(y, o, IF there THEN 1 ELSE 0)

(* stamp_find: 0 is T().                                                   *)
stamp_find(x, o, k) ==
  LET at == Lookup(o, k)
      n == at.n.n
      y == find_or_abort(x, o, at)
      there == Tree!found(at) /\ ~has_delete(item(y, o, ValueKey(n)))
  IN IF there THEN Return(Observe(y, o, ValueKey(n), obj[o].vers[n]), o, obj[o].val[n])
     ELSE Return(y, o, 0)

size(x, o) ==
  LET it == item(x, o, size_key)
      y == IF has(it, "read") THEN x ELSE Observe(x, o, size_key, obj[o].sizeversion)
  IN Return(y, o, obj[o].size + (IF has(it, "write") THEN it.wdata ELSE 0))

(* erase(k).  0 is written; the value of a deleted node does not matter.   *)
MarkDeleted(x, o, it) ==
  change_size_offset(AddWriteValue(x, add_flags(clear_flags(it, {"insert"}), {"delete"}), 0), o, -1)

erase(x, o, k) ==
  LET at == Lookup(o, k)
      y == find_or_abort(x, o, at)
      it == item(y, o, ValueKey(at.n.n))
  IN IF y.doomed \/ ~Tree!found(at) \/ has_delete(it) THEN Return(y, o, 0)
     ELSE Return(MarkDeleted(y, o, it), o, 1)

-----------------------------------------------------------------------------
(* find_or_insert of an absent key, and what the transaction makes of it.  *)

(* The object with a new node for k, whose version has insert_bit.         *)
WithNew(ob, k, at, v) ==
  LET new == Tree!WithNode(ob.tree, k)
  IN [ob EXCEPT !.tree = Tree!find_insert(new, Len(new.key), at),
                !.val = Append(@, v), !.vers = Append(@, Word(1, {insert_bit})),
                !.nodevers = Append(@, initialized_tid)]

(* The new node n becomes a boundary node if a neighbour of it is one.     *)
Adjacent(x, o, n, at) ==
  LET left == Touch(x, o, NodeKey(at.lhs), {})
      right == Touch(left, o, NodeKey(at.rhs), {})
      Tracked(y, m) == has(item(y, o, NodeKey(m)), "read")
  IN IF Tracked(x, at.lhs) THEN Observe(left, o, NodeKey(n), initialized_tid)
     ELSE IF Tracked(x, at.rhs) THEN Observe(right, o, NodeKey(n), initialized_tid)
     ELSE right

insert_absent(x, o, n, at, v) ==
  LET y == IF at.p.n = Null
           THEN assert(WriteItem(x, o, tree_key, {}), at.lhs = Null /\ at.rhs = Null)
           ELSE Adjacent(WriteItem(x, o, NodeKey(at.p.n), {}), o, n, at)
      it == add_flags(item(y, o, ValueKey(n)), {"insert"})
  IN change_size_offset(AddWriteValue(y, it, v), o, 1)

(* Insert-my-delete, of a node that this transaction may have inserted.    *)
insert_deleted(x, o, n, v) ==
  LET back == IF is_inserted(obj[o].vers[n]) THEN {"insert"} ELSE {}
      it == add_flags(clear_flags(item(x, o, ValueKey(n)), {"delete"}), back)
  IN change_size_offset(AddWriteValue(x, it, v), o, 1)

(* The node n of the key exists.                                           *)
insert_present(x, o, n, v) ==
  LET it == item(x, o, ValueKey(n)) IN
  IF is_inserted(obj[o].vers[n]) /\ ~Mine(it) THEN abort(Put(x, it))
  ELSE IF has_delete(it) THEN insert_deleted(x, o, n, v)
  ELSE Observe(x, o, ValueKey(n), obj[o].vers[n])

(* insert(k) and stamp_insert(k, v): whether the key was not there, and    *)
(* the node of the key.                                                    *)
stamp_insert(x, o, k, v) ==
  LET at == Lookup(o, k)
      n == at.n.n
      new == Len(obj[o].val) + 1
  IN IF Tree!found(at)
     THEN [x |-> insert_present(x, o, n, v), ob |-> obj[o], n |-> n,
           r |-> has_delete(item(x, o, ValueKey(n)))]
     ELSE [x |-> insert_absent(x, o, new, at, v), ob |-> WithNew(obj[o], k, at, v),
           n |-> new, r |-> TRUE]

(* operator[], and then what RBProxy does.                                 *)
ProxyWrite(w, o, v) == [w EXCEPT !.x = WriteItemValue(@, o, ValueKey(w.n), v), !.r = Nothing]

ProxyRead(w, o) ==
  LET it == item(w.x, o, ValueKey(w.n)) IN
  IF has(it, "write") THEN [w EXCEPT !.r = it.wdata]
  ELSE [w EXCEPT !.x = Observe(@, o, ValueKey(w.n), w.ob.vers[w.n]), !.r = w.ob.val[w.n]]

Call(x, o, c) ==
  CASE c.op = "put" -> ProxyWrite(stamp_insert(x, o, c.a[1], 0), o, c.a[2])
    [] c.op = "get" -> ProxyRead(stamp_insert(x, o, c.a[1], 0), o)
    [] c.op = "insert" -> stamp_insert(x, o, c.a[1], c.a[2])
    [] c.op = "find" -> stamp_find(x, o, c.a[1])
    [] c.op = "count" -> count(x, o, c.a[1])
    [] c.op = "erase" -> erase(x, o, c.a[1])
    [] c.op = "size" -> size(x, o)

-----------------------------------------------------------------------------
is_locked_here(x, v) == v.own = x.thread

unlock_here(x, v) == IF is_locked_here(x, v) THEN unlocked(v) ELSE v

(* The nodeversion, for an item about it or a delete; then the version.    *)
lock_node(x, ob, it) ==
  LET n == NodeOf(it)
      nv == is_structured(it) \/ has_delete(it)
      ok == /\ nv => is_locked_here(x, ob.nodevers[n]) \/ ~is_locked(ob.nodevers[n])
            /\ ~is_structured(it) => ~is_locked(ob.vers[n])
  IN IF ~ok THEN Lock(FALSE, [ob EXCEPT !.nodevers[n] = unlock_here(x, @)])
     ELSE Lock(TRUE, [ob EXCEPT !.nodevers[n] = IF nv THEN Locked(@, x.thread) ELSE @,
                                !.vers[n] = IF is_structured(it) THEN @ ELSE Locked(@, x.thread)])

try_lock(x, v) == IF is_locked(v) THEN v ELSE Locked(v, x.thread)

lock(x, ob, it) ==
  CASE it.key = size_key ->
         Lock(~is_locked(ob.sizeversion), [ob EXCEPT !.sizeversion = try_lock(x, @)])
    [] it.key = tree_key ->
         Lock(~is_locked(ob.treeversion), [ob EXCEPT !.treeversion = try_lock(x, @)])
    [] OTHER -> lock_node(x, ob, it)

unlock(x, ob, it) ==
  LET n == NodeOf(it) IN
  CASE it.key = size_key -> [ob EXCEPT !.sizeversion = unlocked(@)]
    [] it.key = tree_key -> [ob EXCEPT !.treeversion = unlocked(@)]
    [] it.key # tree_key /\ is_structured(it) -> [ob EXCEPT !.nodevers[n] = unlock_here(x, @)]
    [] OTHER -> [ob EXCEPT !.vers[n] = unlock_here(x, @),
                           !.nodevers[n] = IF has_delete(it) THEN unlock_here(x, @) ELSE @]

check(x, ob, it) ==
  CASE it.key = size_key -> check_version(ob.sizeversion, it.rdata, x.thread)
    [] it.key = tree_key -> check_version(ob.treeversion, it.rdata, x.thread)
    [] it.key # tree_key /\ is_structured(it) ->
         check_version(ob.nodevers[NodeOf(it)], it.rdata, x.thread)
    [] OTHER -> check_version(ob.vers[NodeOf(it)], it.rdata, x.thread)

NewVersion(x, v) == set_version(x, v, TRUE, {})

install_node(x, ob, it) ==
  LET n == NodeOf(it)
      gone == [ob EXCEPT !.tree = Tree!erase(@, n), !.vers[n] = NewVersion(x, @),
                         !.nodevers[n] = NewVersion(x, @)]
      stored == [ob EXCEPT !.val[n] = it.wdata, !.vers[n] = NewVersion(x, @)]
      mine == is_locked_here(x, ob.vers[n]) /\ ~(has_delete(it) /\ has_insert(it))
  IN IF has_delete(it)
     THEN Install(gone, it, TRUE, mine /\ is_locked_here(x, ob.nodevers[n]))
     ELSE Install(stored, it, TRUE, mine)

install(x, ob, it) ==
  LET n == NodeOf(it) IN
  CASE it.key = size_key ->
         Install([ob EXCEPT !.size = @ + it.wdata, !.sizeversion = unlocked(NewVersion(x, @))],
                 clear_needs_unlock(it), TRUE,
                 is_locked_here(x, ob.sizeversion) /\ ob.size + it.wdata >= 0)
    [] it.key = tree_key ->
         Install([ob EXCEPT !.treeversion = unlocked(NewVersion(x, @))], clear_needs_unlock(it),
                 TRUE, is_locked_here(x, ob.treeversion))
    [] it.key # tree_key /\ is_structured(it) ->
         Install([ob EXCEPT !.nodevers[n] = NewVersion(x, @)], it, TRUE,
                 is_locked_here(x, ob.nodevers[n]))
    [] OTHER -> install_node(x, ob, it)

(* An insert that did not commit is unlinked; whoever read its nodeversion *)
(* will see that it changed.                                               *)
cleanup(x, ob, it, committed) ==
  LET n == NodeOf(it) IN
  IF ~committed /\ Mine(it) /\ is_inserted(ob.vers[n])
  THEN [ob EXCEPT !.tree = Tree!erase(@, n), !.nodevers[n].bits = @ \cup {"nonopaque"}]
  ELSE ob

cleanup_asserts(x, ob, it, committed) == ~committed /\ Mine(it) => ~is_structured(it)

-----------------------------------------------------------------------------
(* What the tree holds: pairs of a key and its value.                      *)
LinkedNodes(ob) == {Tree!Nodes(ob.tree)[i] : i \in 1 .. Tree!size(ob.tree)}

Value(ob) ==
  {<<ob.tree.key[n], ob.val[n]>> : n \in {m \in LinkedNodes(ob) : ~is_inserted(ob.vers[m])}}

(* The nodes in the order of their keys, and rbtree::check().              *)
Balanced(ob) ==
  LET s == Tree!Nodes(ob.tree)
  IN /\ Tree!check(ob.tree)
     /\ \A i \in 2 .. Len(s) : ob.tree.key[s[i - 1]] < ob.tree.key[s[i]]

(* Nothing locked, nothing awaits a commit, size() counts the nodes.       *)
AtRest(ob) ==
  /\ ~is_locked(ob.sizeversion) /\ ~is_locked(ob.treeversion)
  /\ \A n \in LinkedNodes(ob) :
       ~is_locked(ob.vers[n]) /\ ~is_locked(ob.nodevers[n]) /\ ~is_inserted(ob.vers[n])
  /\ ob.size = Tree!size(ob.tree)
=============================================================================
