----------------------------- MODULE Hashtable -----------------------------
(***************************************************************************)
(* Hashtable.hh: buckets of linked elements.  An inserted element is       *)
(* linked at once, invalid until the commit, and the version of its bucket *)
(* goes up at once; a deleted one is marked invalid at the commit and      *)
(* unlinked by cleanup().  The lock of a bucket is held within a call only.*)
(*                                                                         *)
(* elem: every element made; buckets: the elements of each bucket, the     *)
(* head first, and its version.                                            *)
(***************************************************************************)
EXTENDS TransItem

NULL == 0

(* pack_bucket: the key of the item of bucket b; elements are 1, 2, ...    *)
pack_bucket(b) == -1 - b

is_bucket(it) == it.key < 0

bucket_key(it) == -1 - it.key

(* std::hash of an integer is the integer.                                 *)
bucket(ob, k) == k % ob.nbuckets

internal_elem(k, v, bits) == [key |-> k, version |-> Word(1, bits), value |-> v]

(* A table that holds the values of the function m.                        *)
NewHashtable(opaque, nbuckets, m) ==
  LET Enumerated == CHOOSE s \in [1 .. Cardinality(DOMAIN m) -> DOMAIN m] :
                      \A i, j \in DOMAIN s : s[i] = s[j] => i = j
      s == IF DOMAIN m = {} THEN <<>> ELSE Enumerated
      In(b) == {i \in DOMAIN s : s[i] % nbuckets = b}
      Chain[S \in SUBSET DOMAIN s] ==
        IF S = {} THEN <<>> ELSE LET i == First(S) IN <<i>> \o Chain[S \ {i}]
  IN [kind |-> "Hashtable", opaque |-> opaque, nbuckets |-> nbuckets,
      elem |-> [i \in DOMAIN s |-> internal_elem(s[i], m[s[i]], {})],
      buckets |-> [b \in 0 .. nbuckets - 1 |-> [chain |-> Chain[In(b)], version |-> Word(0, {})]]]

Bucket(ob, k) == ob.buckets[bucket(ob, k)]

find(ob, k) ==
  LET chain == Bucket(ob, k).chain
      found == {i \in DOMAIN chain : ob.elem[chain[i]].key = k}
  IN IF found = {} THEN NULL ELSE chain[First(found)]

valid(ob, e) == "invalid" \notin ob.elem[e].version.bits

_remove(ob, e) ==
  LET b == bucket(ob, ob.elem[e].key)
      Other(n) == n # e
  IN [ob EXCEPT !.buckets[b].chain = SelectSeq(@, Other)]

insert_locked(ob, k, v) ==
  LET b == bucket(ob, k) IN
  [ob EXCEPT !.elem = Append(@, internal_elem(k, v, {"invalid"})),
             !.buckets[b].chain = <<Len(ob.elem) + 1>> \o @,
             !.buckets[b].version = inc_nonopaque_version(@)]

-----------------------------------------------------------------------------
has_delete(it) == has(it, "delete")

has_insert(it) == has(it, "insert")

validity_check(ob, it, e) == has_insert(it) \/ valid(ob, e)

(* No such key: the version of the bucket is read.                         *)
Absent(x, o, k) ==
  observe(x, item(x, o, pack_bucket(bucket(obj[o], k))),
          unlocked(Bucket(obj[o], k).version), obj[o].opaque, TRUE)

(* The value, or Nothing for false.                                        *)
transGet(x, o, k) ==
  LET ob == obj[o]
      e == find(ob, k)
      it == read_item(x, o, e)
      vers == ob.elem[e].version
  IN IF e = NULL THEN Return(Absent(x, o, k), o, Nothing)
     ELSE IF ~validity_check(ob, it, e) THEN Return(abort(PutRead(x, it)), o, Nothing)
     ELSE IF has_delete(it) THEN Return(x, o, Nothing)
     ELSE IF has(it, "write") THEN Return(x, o, it.wdata)
     ELSE Return(PutRead(Observing(x, it, vers, ob.opaque, TRUE), add_read(it, vers)),
                 o, ob.elem[e].value)

transDelete(x, o, k) ==
  LET ob == obj[o]
      e == find(ob, k)
      it == item(x, o, e)
      y == observe(x, it, ob.elem[e].version, ob.opaque, TRUE)
      gone == Put(x, clear_flags(it, {"read", "write", "insert", "delete"}))
  IN IF e = NULL THEN Return(Absent(x, o, k), o, FALSE)
     ELSE IF ~valid(ob, e) /\ has_insert(it)
     THEN [x |-> Absent(gone, o, k), ob |-> _remove(ob, e), r |-> TRUE]
     ELSE IF ~valid(ob, e) THEN Return(abort(Put(x, it)), o, FALSE)
     ELSE IF has_delete(it) THEN Return(x, o, FALSE)
     ELSE Return(AddWrite(y, add_flags(item(y, o, e), {"delete"})), o, TRUE)

(* trans_write on the element e of the key; its result is that the key     *)
(* existed.  An element inserted by this transaction gets the value now.   *)
WriteExisting(x, o, e, v, insert, set) ==
  LET ob == obj[o]
      it == item(x, o, e)
      y == observe(x, it, ob.elem[e].version, ob.opaque, TRUE)
      written == IF set THEN AddWriteValue(y, item(y, o, e), v) ELSE y
  IN CASE ~validity_check(ob, it, e) -> Return(abort(Put(x, it)), o, FALSE)
       [] validity_check(ob, it, e) /\ has_delete(it) ->
            Return(IF insert THEN AddWriteValue(x, clear_flags(it, {"delete"}), v) ELSE x, o, FALSE)
       [] OTHER -> [x |-> written, r |-> TRUE,
                    ob |-> IF set /\ has_insert(it) THEN [ob EXCEPT !.elem[e].value = v] ELSE ob]

(* An unsuccessful insert of another key in this bucket would not be       *)
(* noticed: a version read before is brought up to date.                   *)
update_read(x, o, k, new) ==
  LET it == item(x, o, pack_bucket(bucket(obj[o], k)))
  IN IF has(it, "read") /\ it.rdata = Bucket(obj[o], k).version
     THEN Put(x, [it EXCEPT !.rdata = Bucket(new, k).version]) ELSE x

WriteNew(x, o, k, v) ==
  LET new == insert_locked(obj[o], k, v)
      it == add_flags(NewTransItem(o, Len(new.elem)), {"insert"})
  IN [x |-> AddWriteValue(update_read(x, o, k, new), it, v), ob |-> new, r |-> FALSE]

trans_write(x, o, k, v, insert, set) ==
  LET e == find(obj[o], k)
  IN IF e # NULL THEN WriteExisting(x, o, e, v, insert, set)
     ELSE IF insert THEN WriteNew(x, o, k, v)
     ELSE Return(Absent(x, o, k), o, FALSE)

transPut(x, o, k, v) == trans_write(x, o, k, v, TRUE, TRUE)

transInsert(x, o, k, v) ==
  LET w == trans_write(x, o, k, v, TRUE, FALSE) IN [w EXCEPT !.r = ~@]

transUpdate(x, o, k, v) == trans_write(x, o, k, v, FALSE, TRUE)

-----------------------------------------------------------------------------
check(x, ob, it) ==
  IF is_bucket(it) THEN check_version(ob.buckets[bucket_key(it)].version, it.rdata, x.thread)
  ELSE check_version(ob.elem[it.key].version, it.rdata, x.thread)

(* Mutant: an element this transaction inserted is not locked.             *)
lock_existing(x, ob, it) ==
  IF has_insert(it) THEN Lock(TRUE, ob)
  ELSE Lock(~is_locked(ob.elem[it.key].version),
            [ob EXCEPT !.elem[it.key].version = Locked(@, x.thread)])

lock(x, ob, it) ==
  Lock(~is_locked(ob.elem[it.key].version),
       [ob EXCEPT !.elem[it.key].version = Locked(@, x.thread)])

(* A delete only marks the element.  The version of a bucket that is still *)
(* nonopaque becomes the commit tid of the insert.                         *)
install(x, ob, it) ==
  LET e == it.key
      b == bucket(ob, ob.elem[e].key)
      stored == IF has_insert(it) THEN ob ELSE [ob EXCEPT !.elem[e].value = it.wdata]
      new == [stored EXCEPT !.elem[e].version = set_version(x, @, TRUE, {})]
      opens == ob.opaque /\ has_insert(it) /\ "nonopaque" \in ob.buckets[b].version.bits
      mine == is_locked(ob.elem[e].version)
  IN IF has_delete(it)
     THEN Install([ob EXCEPT !.elem[e].version.bits = @ \cup {"invalid"}], it, FALSE, mine)
     ELSE Install(IF opens THEN [new EXCEPT !.buckets[b].version = set_version(x, @, TRUE, {})]
                           ELSE new, it, TRUE, mine)

unlock(x, ob, it) == [ob EXCEPT !.elem[it.key].version = unlocked(@)]

(* The element goes: a delete that committed, an insert that did not.      *)
Dropped(it, committed) == IF committed THEN has_delete(it) ELSE has_insert(it)

cleanup(x, ob, it, committed) == IF Dropped(it, committed) THEN _remove(ob, it.key) ELSE ob

cleanup_asserts(x, ob, it, committed) ==
  LET chain == Bucket(ob, ob.elem[it.key].key).chain
  IN Dropped(it, committed) => /\ ~valid(ob, it.key)
                               /\ \E i \in DOMAIN chain : chain[i] = it.key

(* What the table holds: pairs of a key and its value.                     *)
Value(ob) ==
  {<<ob.elem[e].key, ob.elem[e].value>> :
     e \in {n \in DOMAIN ob.elem : /\ valid(ob, n)
                                   /\ \E i \in DOMAIN Bucket(ob, ob.elem[n].key).chain :
                                        Bucket(ob, ob.elem[n].key).chain[i] = n}}

Call(x, o, c) ==
  CASE c.op = "get" -> transGet(x, o, c.a[1])
    [] c.op = "delete" -> transDelete(x, o, c.a[1])
    [] c.op = "put" -> transPut(x, o, c.a[1], c.a[2])
    [] c.op = "insert" -> transInsert(x, o, c.a[1], c.a[2])
    [] c.op = "update" -> transUpdate(x, o, c.a[1], c.a[2])
=============================================================================
