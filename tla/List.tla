-------------------------------- MODULE List --------------------------------
(***************************************************************************)
(* List.hh: a sorted list without duplicates.  An inserted node is linked  *)
(* at once, invalid and locked by its thread until the commit; a deleted   *)
(* one is unlinked at the commit.  listlock_ is held within a call only,   *)
(* so it does not show.                                                    *)
(*                                                                         *)
(* nodes: val, next and vers of every node made; 0 is NULL.                *)
(***************************************************************************)
EXTENDS TransItem

NULL == 0
list_key == 0
size_key == -1

(* A list that holds the increasing sequence s.                            *)
NewList(opaque, s) ==
  [kind |-> "List", opaque |-> opaque,
   nodes |-> [n \in DOMAIN s |->
                [val |-> s[n], next |-> IF n = Len(s) THEN NULL ELSE n + 1, vers |-> Word(1, {})]],
   head |-> IF s = <<>> THEN NULL ELSE 1,
   listsize |-> Len(s), listversion |-> Word(0, {})]

(* The nodes from n on, in the order of the list.                          *)
From(ob, n) ==
  LET Rest[m \in 0 .. Len(ob.nodes)] ==
        IF m = NULL THEN <<>> ELSE <<m>> \o Rest[ob.nodes[m].next]
  IN Rest[n]

Linked(ob) == From(ob, ob.head)

_find(ob, elem) ==
  LET ns == Linked(ob)
      found == {i \in DOMAIN ns : ob.nodes[ns[i]].val = elem}
  IN IF found = {} THEN NULL ELSE ns[CHOOSE i \in found : TRUE]

is_valid(ob, n) == "invalid" \notin ob.nodes[n].vers.bits

(* The node after which something comes, or goes: NULL for head_.          *)
LinkTo(ob, prev, n) ==
  IF prev = NULL THEN [ob EXCEPT !.head = n] ELSE [ob EXCEPT !.nodes[prev].next = n]

Before(ob, Comes(_)) ==
  LET ns == Linked(ob)
      ahead == {i \in DOMAIN ns : Comes(ns[i])}
      k == IF ahead = {} THEN Len(ns) ELSE First(ahead) - 1
  IN IF k = 0 THEN NULL ELSE ns[k]

(* _insert<true> of an element that is not there.                          *)
_insert(ob, elem, t) ==
  LET prev == Before(ob, LAMBDA n : ob.nodes[n].val > elem)
      next == IF prev = NULL THEN ob.head ELSE ob.nodes[prev].next
      node == [val |-> elem, next |-> next, vers |-> Locked(Word(1, {"invalid"}), t)]
  IN LinkTo([ob EXCEPT !.nodes = Append(@, node)], prev, Len(ob.nodes) + 1)

(* remove<true>(n): it keeps its own next, for those who stand on it.      *)
remove(ob, n) ==
  LET marked == [ob EXCEPT !.nodes[n].vers.bits = @ \cup {"invalid"}]
  IN LinkTo(marked, Before(ob, LAMBDA m : m = n), ob.nodes[n].next)

-----------------------------------------------------------------------------
has_delete(it) == has(it, "delete")

has_doupdate(it) == has(it, "doupdate")

has_insert(it) == has(it, "write") /\ ~has_delete(it) /\ ~has_doupdate(it)

validityCheck(ob, n, it) == is_valid(ob, n) \/ has(it, "insert")

verify_list(x, o) == observe(x, item(x, o, list_key), obj[o].listversion, TRUE, TRUE)

add_lock_list_item(x, o) == AddWrite(x, item(x, o, list_key))

trans_size_offs(x, o) ==
  LET it == item(x, o, size_key) IN IF has(it, "stash") THEN it.rdata ELSE 0

add_trans_size_offs(x, o, n) ==
  Put(x, [add_flags(item(x, o, size_key), {"stash"}) EXCEPT !.rdata = trans_size_offs(x, o) + n])

(* The element, or Nothing for a null pointer.                             *)
transFind(x, o, elem) ==
  LET ob == obj[o]
      n == _find(ob, elem)
      it == item(x, o, n)
      y == Put(x, it)
  IN IF n = NULL THEN Return(verify_list(x, o), o, Nothing)
     ELSE IF ~validityCheck(ob, n, it) THEN Return(abort(y), o, Nothing)
     ELSE IF has_delete(it) THEN Return(y, o, Nothing)
     ELSE Return(observe(x, it, ob.nodes[n].vers, TRUE, TRUE), o, elem)

(* transInsert of an element that has a node n.                            *)
InsertExisting(x, o, elem, n) ==
  LET ob == obj[o]
      it == item(x, o, n)
      y == Put(x, it)
      again == [clear_flags(it, {"delete"}) EXCEPT !.flags = @ \cup {"doupdate"}]
  IN CASE ~validityCheck(ob, n, it) -> Return(abort(y), o, FALSE)
       [] has_insert(it) \/ has_doupdate(it) -> Return(y, o, FALSE)
       [] has_delete(it) ->
            Return(add_trans_size_offs(AddWriteValue(x, again, elem), o, 1), o, TRUE)
       [] OTHER -> Return(observe(x, it, ob.nodes[n].vers, TRUE, TRUE), o, FALSE)

InsertNew(x, o, elem) ==
  LET n == Len(obj[o].nodes) + 1
      y == add_trans_size_offs(Put(x, NewTransItem(o, n)), o, 1)
      z == add_lock_list_item(y, o)
  IN [x |-> AddWrite(z, add_flags(item(z, o, n), {"insert"})),
      ob |-> _insert(obj[o], elem, x.thread), r |-> TRUE]

transInsert(x, o, elem) ==
  LET n == _find(obj[o], elem)
  IN IF n = NULL THEN InsertNew(x, o, elem) ELSE InsertExisting(x, o, elem, n)

transDelete(x, o, elem) ==
  LET ob == obj[o]
      n == _find(ob, elem)
      it == item(x, o, n)
      y == Put(x, it)
      gone == Put(x, clear_flags(it, {"read", "write", "insert"}))
      w == AddWrite(x, add_flags(it, {"delete"}))
      z == add_lock_list_item(observe(w, item(w, o, n), ob.nodes[n].vers, TRUE, TRUE), o)
  IN CASE n = NULL -> Return(verify_list(x, o), o, FALSE)
       [] n # NULL /\ ~validityCheck(ob, n, it) -> Return(abort(y), o, FALSE)
       [] n # NULL /\ validityCheck(ob, n, it) ->
            CASE has_delete(it) -> Return(y, o, FALSE)
              [] has_doupdate(it) ->
                   Return(add_trans_size_offs(
                            Put(x, add_flags(clear_flags(it, {"doupdate"}), {"delete"})), o, -1),
                          o, TRUE)
              [] has_insert(it) ->
                   [x |-> verify_list(add_trans_size_offs(gone, o, -1), o),
                    ob |-> remove(ob, n), r |-> TRUE]
              [] OTHER -> Return(add_trans_size_offs(z, o, -1), o, TRUE)

size(x, o) ==
  LET y == verify_list(x, o)
  IN Return(Put(y, item(y, o, size_key)), o, obj[o].listsize + trans_size_offs(x, o))

-----------------------------------------------------------------------------
(* ListIter.  The iterator is the node it stands on.                       *)

opacity_check(x, o) ==
  Observing(x, NewTransItem(o, list_key), obj[o].listversion, TRUE, FALSE)

(* ensureValid from node n: past what this transaction has deleted; a node *)
(* that another transaction is inserting aborts.                           *)
ensureValid(x, o, n) ==
  LET ob == obj[o]
      ns == From(ob, n)
      Skipped(i) == /\ is_valid(ob, ns[i]) \/ has_insert(item(x, o, ns[i]))
                    /\ has_delete(item(x, o, ns[i]))
      stops == {i \in DOMAIN ns : ~Skipped(i)}
      k == First(stops)
  IN IF stops = {} THEN Return(opacity_check(x, o), o, NULL)
     ELSE IF ~is_valid(ob, ns[k]) /\ ~has_insert(item(x, o, ns[k])) THEN Return(abort(x), o, NULL)
     ELSE Return(opacity_check(x, o), o, ns[k])

transIter(x, o) == ensureValid(verify_list(x, o), o, obj[o].head)

transNext(x, o, n) == ensureValid(x, o, obj[o].nodes[n].next)

-----------------------------------------------------------------------------
(* Mutant: nodes to be deleted are not locked.                             *)
lock_list(x, ob, it) ==
  IF it.key = list_key THEN Lock(~is_locked(ob.listversion),
                                 [ob EXCEPT !.listversion = Locked(@, x.thread)])
  ELSE Lock(TRUE, ob)

lock(x, ob, it) ==
  CASE it.key = list_key -> Lock(~is_locked(ob.listversion),
                                 [ob EXCEPT !.listversion = Locked(@, x.thread)])
    [] it.key # list_key /\ has_insert(it) -> Lock(TRUE, ob)
    [] OTHER -> Lock(~is_locked(ob.nodes[it.key].vers),
                     [ob EXCEPT !.nodes[it.key].vers = Locked(@, x.thread)])

check(x, ob, it) ==
  IF it.key = list_key THEN check_version(ob.listversion, it.rdata, x.thread)
  ELSE IF ~is_valid(ob, it.key) THEN has_insert(it)
  ELSE check_version(ob.nodes[it.key].vers, it.rdata, x.thread)

NewListVersion(x, ob) ==
  IF ob.opaque THEN set_version(x, ob.listversion, TRUE, {})
  ELSE inc_nonopaque_version(ob.listversion)

(* Flags and lock holder that the assertions of the code ask for.          *)
install(x, ob, it) ==
  LET n == it.key
      vers == ob.nodes[n].vers
      mine == vers.own = x.thread
      changed == [ob EXCEPT !.listversion = NewListVersion(x, ob)]
  IN CASE n = list_key -> Install(ob, it, FALSE, TRUE)
       [] n # list_key /\ has_delete(it) ->
            Install([remove(changed, n) EXCEPT !.listsize = @ - 1], it, ob.opaque, mine)
       [] n # list_key /\ has_doupdate(it) ->
            Install([ob EXCEPT !.nodes[n].vers = set_version(x, @, TRUE, {}),
                               !.nodes[n].val = it.wdata], it, TRUE, mine)
       [] OTHER ->
            Install([changed EXCEPT !.nodes[n].vers = set_version_unlock(x, @, TRUE, {}),
                                    !.listsize = @ + 1], it, TRUE, mine)

unlock(x, ob, it) ==
  IF it.key = list_key THEN [ob EXCEPT !.listversion = unlocked(@)]
  ELSE IF has_insert(it) THEN ob
  ELSE [ob EXCEPT !.nodes[it.key].vers = unlocked(@)]

(* An insert that was aborted.                                             *)
Dropped(it, committed) == ~committed /\ has(it, "insert")

cleanup(x, ob, it, committed) == IF Dropped(it, committed) THEN remove(ob, it.key) ELSE ob

cleanup_asserts(x, ob, it, committed) ==
  Dropped(it, committed) => ob.nodes[it.key].vers.own = x.thread

(* What the list holds, and whether it is well formed.                     *)
Value(ob) ==
  {ob.nodes[n].val : n \in {m \in DOMAIN ob.nodes : /\ \E i \in DOMAIN Linked(ob) : Linked(ob)[i] = m
                                                    /\ is_valid(ob, m)}}

Call(x, o, c) ==
  CASE c.op = "find" -> transFind(x, o, c.a[1])
    [] c.op = "insert" -> transInsert(x, o, c.a[1])
    [] c.op = "delete" -> transDelete(x, o, c.a[1])
    [] c.op = "size" -> size(x, o)
    [] c.op = "iter" -> transIter(x, o)
    [] c.op = "next" -> transNext(x, o, c.a[1])
=============================================================================
