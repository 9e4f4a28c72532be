----------------------------- MODULE TransItem -----------------------------
(***************************************************************************)
(* The items of a transaction (TransItem.hh) and what TransProxy and       *)
(* Transaction do with them, for the transactional data structures.        *)
(*                                                                         *)
(* Here a call of a data structure is one step, unlike in Transaction,     *)
(* which takes single loads and stores apart.  So an operator maps a       *)
(* transaction x to the transaction after the call; an opacity check of    *)
(* the whole read set that the call asks for is noted in x.hard and made   *)
(* at its end, when memory is still the same.                              *)
(***************************************************************************)
EXTENDS Integers, Sequences, FiniteSets

CONSTANTS
  Nothing,      \* no value
  AnyValue,     \* whatever value: the caller does not look at it
  OutOfRange,   \* std::out_of_range was thrown
  Abort         \* Transaction::Abort was thrown

VARIABLES
  obj,          \* the shared data structures
  tx,           \* the Transaction of each thread
  TID           \* Transaction::_TID

-----------------------------------------------------------------------------
(* Version words: transaction id, owner of the lock (0: unlocked), flags.  *)

Word(tid, bits) == [tid |-> tid, own |-> 0, bits |-> bits]

(* The version of something a transaction has written, or not yet, before  *)
(* the behaviour begins; _TID starts at FirstTid.                          *)
FirstTid == 2

Committed(opaque, written) ==
  Word(IF written THEN FirstTid - 1 ELSE 0, IF opaque THEN {} ELSE {"nonopaque"})

is_locked(v) == v.own # 0

is_locked_elsewhere(v, here) == v.own \notin {0, here}

unlocked(v) == [v EXCEPT !.own = 0]

check_version(v, old, here) == v \in {old, [old EXCEPT !.own = here]}

try_check_opacity(start_tid, v) ==
  v.tid < start_tid /\ ~is_locked(v) /\ "nonopaque" \notin v.bits

next_unflagged_nonopaque_version(v) ==
  [tid |-> v.tid + 1, own |-> v.own, bits |-> {"nonopaque"}]

inc_nonopaque_version(v) ==
  [v EXCEPT !.tid = @ + 1, !.bits = @ \cup {"nonopaque"}]

-----------------------------------------------------------------------------
(* Transactions and their items.                                           *)

NewTransItem(o, key) ==
  [owner |-> o, key |-> key, flags |-> {}, rdata |-> Nothing, wdata |-> Nothing]

(* start().  at, k: the loop of the commit that is running and its item;   *)
(* rw: the lock a boosted call is taking;                                 *)
(* hard, doomed: the running call asked for a full opacity check or called *)
(* abort(); failed: an assertion of the code did not hold.                 *)
NewTransaction(t) ==
  [thread |-> t, state |-> "in_progress", tset |-> <<>>,
   start_tid |-> 0, commit_tid |-> 0,
   any_writes |-> FALSE, any_nonopaque |-> FALSE, may_duplicate_items |-> FALSE,
   at |-> "calls", k |-> 0, rw |-> Nothing,
   hard |-> FALSE, doomed |-> FALSE, failed |-> FALSE]

has(it, flag) == flag \in it.flags

find_item(x, o, key) ==
  {i \in DOMAIN x.tset : x.tset[i].owner = o /\ x.tset[i].key = key}

present(x, o, key) == find_item(x, o, key) # {}

First(S) == CHOOSE i \in S : \A j \in S : i <= j

item(x, o, key) ==
  IF present(x, o, key) THEN x.tset[First(find_item(x, o, key))]
                        ELSE NewTransItem(o, key)

(* The item as the call leaves it, allocated if it was not there.          *)
Put(x, it) ==
  IF present(x, it.owner, it.key)
  THEN [x EXCEPT !.tset[First(find_item(x, it.owner, it.key))] = it]
  ELSE [x EXCEPT !.tset = Append(@, it)]

(* fresh_item, and read_item before the first write: an entry that may     *)
(* duplicate another one.                                                  *)
PutDuplicate(x, it) ==
  [x EXCEPT !.may_duplicate_items = x.tset # <<>>, !.tset = Append(@, it)]

read_item(x, o, key) ==
  IF x.any_writes THEN item(x, o, key) ELSE NewTransItem(o, key)

PutRead(x, it) == IF x.any_writes THEN Put(x, it) ELSE PutDuplicate(x, it)

add_flags(it, flags) == [it EXCEPT !.flags = @ \cup flags]

clear_flags(it, flags) == [it EXCEPT !.flags = @ \ flags]

clear_write(it) == clear_flags(it, {"write"})

AddWrite(x, it) ==
  Put([x EXCEPT !.any_writes = TRUE], add_flags(it, {"write"}))

AddWriteValue(x, it, value) ==
  Put([x EXCEPT !.any_writes = TRUE],
      [add_flags(it, {"write"}) EXCEPT !.wdata = value])

(* The same for the item of a key, as the transaction has it.              *)
Touch(x, o, key, flags) == Put(x, add_flags(item(x, o, key), flags))

WriteItem(x, o, key, flags) == AddWrite(x, add_flags(item(x, o, key), flags))

WriteItemValue(x, o, key, value) == AddWriteValue(x, item(x, o, key), value)

abort(x) == [x EXCEPT !.doomed = TRUE]

AbortIf(x, condition) == [x EXCEPT !.doomed = @ \/ condition]

assert(x, condition) == [x EXCEPT !.failed = @ \/ ~condition]

preceding_duplicate_read(x, i) ==
  \E j \in 1 .. i - 1 : /\ x.tset[j].owner = x.tset[i].owner
                        /\ x.tset[j].key = x.tset[i].key
                        /\ has(x.tset[j], "read")

-----------------------------------------------------------------------------
(* Opacity.  hard_check_opacity ignores a version already read.            *)

(* Mutant: only the version at hand is checked.                            *)
hard_check_opacity_alone(x, it, v) ==
  [x EXCEPT !.start_tid = TID, !.doomed = @ \/ is_locked_elsewhere(v, x.thread)]

hard_check_opacity(x, it, v) ==
  IF has(it, "read") /\ it.rdata = v THEN x
  ELSE [x EXCEPT !.start_tid = TID, !.hard = TRUE,
                 !.doomed = @ \/ is_locked_elsewhere(v, x.thread)]

check_opacity(x, it, v) ==
  LET s == IF x.start_tid = 0 THEN TID ELSE x.start_tid
      started == [x EXCEPT !.start_tid = s]
  IN IF try_check_opacity(s, v) \/ x.state # "in_progress" THEN started
     ELSE hard_check_opacity(started, it, v)

add_read(it, v) ==
  IF has(it, "read") THEN it ELSE [add_flags(it, {"read"}) EXCEPT !.rdata = v]

(* TransProxy::add_read of a version the transaction set knows nothing of. *)
AddRead(x, it, v) ==
  Put([x EXCEPT !.any_nonopaque = @ \/ ~has(it, "read")], add_read(it, v))

(* Sto::check_opacity(): always the whole set.                             *)
check_whole_opacity(x) == [x EXCEPT !.start_tid = TID, !.hard = TRUE]

(* What observe() makes of the transaction and of the item.                *)
Observing(x, it, v, opaque, add) ==
  IF is_locked_elsewhere(v, x.thread) THEN abort(x)
  ELSE IF opaque THEN check_opacity(x, it, v)
  ELSE [x EXCEPT !.any_nonopaque = @ \/ (add /\ ~has(it, "read"))]

observe(x, it, v, opaque, add) ==
  Put(Observing(x, it, v, opaque, add), IF add THEN add_read(it, v) ELSE it)

(* TWrapped::snapshot: a nonopaque value is simply read.                   *)
snapshot(x, it, v, opaque) ==
  IF opaque THEN observe(x, it, v, TRUE, FALSE) ELSE Put(x, it)

(* version_type::opaque_throw: what the caller of a data structure sees.   *)
opaque_throw(x, opaque) == IF opaque THEN x ELSE abort(x)

-----------------------------------------------------------------------------
(* Locks and new versions at commit.                                       *)

Locked(v, t) == [v EXCEPT !.own = t]

CommitTid(x) == IF x.commit_tid = 0 THEN TID ELSE x.commit_tid

(* set_version: whether it has taken a commit tid, and the version.        *)
set_version(x, v, opaque, flags) ==
  IF opaque \/ x.commit_tid # 0
  THEN [tid |-> CommitTid(x), own |-> v.own, bits |-> flags]
  ELSE [next_unflagged_nonopaque_version(v) EXCEPT !.bits = @ \cup flags]

set_version_unlock(x, v, opaque, flags) == unlocked(set_version(x, v, opaque, flags))

clear_needs_unlock(it) == clear_flags(it, {"lock"})

(* A plain comparison of numbers by the caller.                            *)
Related(m, rel, n) ==
  CASE rel = "==" -> m = n [] rel = "<" -> m < n [] rel = ">" -> m > n
    [] rel = "!=" -> m # n [] rel = ">=" -> m >= n [] rel = "<=" -> m <= n

(* The result of a call that leaves the structure as it is.                *)
Return(x, o, r) == [x |-> x, ob |-> obj[o], r |-> r]

(* What lock() does to an object: whether it succeeded, and the object.    *)
Lock(ok, ob) == [ok |-> ok, ob |-> ob]

(* What install() does: the object, the item, whether a commit tid was     *)
(* taken and whether the assertions of the code held.                      *)
Install(ob, it, took, asserted) ==
  [ob |-> ob, it |-> it, took |-> took, asserted |-> asserted]
=============================================================================
