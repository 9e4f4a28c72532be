--------------------------- MODULE TransactionTid ---------------------------
(***************************************************************************)
(* The version word of Interface.hh (class TransactionTid).  The 64-bit    *)
(* word packs a transaction id (bits 10..63), nonopaque_bit, lock_bit and  *)
(* the five-bit id of the thread holding the lock.  The thread bits are    *)
(* zero whenever lock_bit is clear, so "lock_bit | thread id" becomes one  *)
(* field that names the owner or is NoThread.                              *)
(***************************************************************************)
EXTENDS Naturals

CONSTANTS
  Thread,      \* threads that run transactions (TThread::id())
  NoThread,    \* owner of an unlocked word
  ThreadZero   \* the thread whose id is 0, if it runs transactions

ASSUME ThreadAssumption == NoThread \notin Thread /\ ThreadZero # NoThread

Version == [tid : Nat, lock : Thread \cup {NoThread}, nonopaque : BOOLEAN]

(* _TID starts at 2 * increment_value: increment_value itself is reserved  *)
(* for prepopulated data (Sto::initialized_tid), 0 for fresh TVersions.    *)
FirstTid == 2

(* TVersion() : v_() and TNonopaqueVersion() : v_(nonopaque_bit)           *)
FreshVersion(opaque) ==
  [tid |-> 0, lock |-> NoThread, nonopaque |-> ~opaque]

is_locked(v) == v.lock # NoThread

is_locked_elsewhere(v, here) == v.lock \notin {NoThread, here}

locked(v, here) ==
  [tid |-> v.tid, lock |-> here, nonopaque |-> v.nonopaque]

unlocked(v) == locked(v, NoThread)

(* Mutant: the compare-and-swap expects vv with its lock bit.              *)
try_lock_takes_over(cur, vv) == cur = vv

(* try_lock loads vv and swaps (vv & ~lock_bit) for (vv | lock_bit | here).*)
(* A loaded word that was locked keeps its owner's thread bits in the      *)
(* expected value, which no unlocked word has - unless the owner's id is 0.*)
try_lock_succeeds(cur, vv) ==
  /\ ~is_locked(cur)
  /\ \/ cur = vv
     \/ vv.lock = ThreadZero /\ cur = unlocked(vv)

(* cur_vers is allowed to be locked by us *)
check_version(cur, old, here) ==
  \/ cur = old
  \/ cur = locked(old, here)

(* delta = start_tid - v > 0: start_tid has no flag bits and the flag bits *)
(* of v sit below increment_value, so only the tid fields decide the sign. *)
try_check_opacity(start, v) ==
  /\ start > v.tid
  /\ ~is_locked(v)
  /\ ~v.nonopaque

next_unflagged_nonopaque_version(v) ==
  [tid |-> v.tid + 1, lock |-> NoThread, nonopaque |-> TRUE]

(* The word set_version_unlock(commit_tid()) stores: no flag, no lock.     *)
commit_version(c) ==
  [tid |-> c, lock |-> NoThread, nonopaque |-> FALSE]

=============================================================================
