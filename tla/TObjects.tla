------------------------------ MODULE TObjects ------------------------------
(***************************************************************************)
(* Transactions over all the data structures: the commit of Transaction.cc *)
(* with the virtual calls of TObject.  Locking, checking, installing,      *)
(* unlocking and cleaning up an item is a step each; so is a whole call of *)
(* a data structure.                                                       *)
(***************************************************************************)
EXTENDS TransItem, TIntRange

CONSTANT Thread     \* thread ids, not 0

ASSUME ThreadAssumption == Thread \subseteq Nat \ {0}

B == INSTANCE TBox
V == INSTANCE TVector
N == INSTANCE TVectorNopred
G == INSTANCE TGeneric
I == INSTANCE TIntPredicate
W == INSTANCE Vector
Q == INSTANCE Queue
P == INSTANCE PriorityQueue
L == INSTANCE List
H == INSTANCE Hashtable
M == INSTANCE Boosting
Y == INSTANCE TLayoutBT
R == INSTANCE RBTree

-----------------------------------------------------------------------------
(* The virtual functions of TObject.                                       *)

Call(x, o, c) ==
  CASE obj[o].kind = "TBox" -> B!Call(x, o, c)
    [] obj[o].kind = "TVector" -> V!Call(x, o, c)
    [] obj[o].kind = "TVector_nopred" -> N!Call(x, o, c)
    [] obj[o].kind = "TGeneric" -> G!Call(x, o, c)
    [] obj[o].kind \in {"TIntPredicate", "TCounter"} -> I!Call(x, o, c)
    [] obj[o].kind = "Vector" -> W!Call(x, o, c)
    [] obj[o].kind = "Queue" -> Q!Call(x, o, c)
    [] obj[o].kind = "PriorityQueue" -> P!Call(x, o, c)
    [] obj[o].kind = "List" -> L!Call(x, o, c)
    [] obj[o].kind = "Hashtable" -> H!Call(x, o, c)
    [] obj[o].kind = "TransMap" -> M!Call(x, o, c)
    [] obj[o].kind = "TLayoutBT" -> Y!Call(x, o, c)
    [] obj[o].kind = "RBTree" -> R!Call(x, o, c)

lock(x, ob, it) ==
  CASE ob.kind = "TBox" -> B!lock(x, ob, it)
    [] ob.kind = "TVector" -> V!lock(x, ob, it)
    [] ob.kind = "TVector_nopred" -> N!lock(x, ob, it)
    [] ob.kind = "TGeneric" -> G!lock(x, ob, it)
    [] ob.kind \in {"TIntPredicate", "TCounter"} -> I!lock(x, ob, it)
    [] ob.kind = "Vector" -> W!lock(x, ob, it)
    [] ob.kind = "Queue" -> Q!lock(x, ob, it)
    [] ob.kind = "PriorityQueue" -> P!lock(x, ob, it)
    [] ob.kind = "List" -> L!lock(x, ob, it)
    [] ob.kind = "Hashtable" -> H!lock(x, ob, it)
    [] ob.kind = "TransMap" -> Lock(TRUE, ob)
    [] ob.kind = "TLayoutBT" -> Y!lock(x, ob, it)
    [] ob.kind = "RBTree" -> R!lock(x, ob, it)

(* A lock() that fails leaves the object alone, except for RBTree, which   *)
(* gives back a nodeversion.                                               *)
undoes(ob) == ob.kind = "RBTree"

(* lock() of this item spins: it returns only when the lock is free.       *)
waits(ob, it) == ob.kind = "Vector" /\ W!waits(ob, it)

check(x, ob, it) ==
  CASE ob.kind = "TBox" -> B!check(x, ob, it)
    [] ob.kind = "TVector" -> V!check(x, ob, it)
    [] ob.kind = "TVector_nopred" -> N!check(x, ob, it)
    [] ob.kind = "TGeneric" -> G!check(x, ob, it)
    [] ob.kind \in {"TIntPredicate", "TCounter"} -> I!check(x, ob, it)
    [] ob.kind = "Vector" -> W!check(x, ob, it)
    [] ob.kind = "Queue" -> Q!check(x, ob, it)
    [] ob.kind = "PriorityQueue" -> P!check(x, ob, it)
    [] ob.kind = "List" -> L!check(x, ob, it)
    [] ob.kind = "Hashtable" -> H!check(x, ob, it)
    [] ob.kind = "RBTree" -> R!check(x, ob, it)

CheckAsserts(ob, it) == ob.kind = "TVector" => V!check_asserts(it)

verify_predicate(x, ob, it) ==
  CASE ob.kind = "TVector" -> V!check_predicate(x, ob, it)
    [] ob.kind \in {"TIntPredicate", "TCounter"} -> I!check_predicate(x, ob, it)
    [] ob.kind = "Vector" -> W!check_predicate(x, ob, it)

(* The version a predicate is about.                                       *)
PredicateVersion(ob) ==
  CASE ob.kind = "TVector" -> ob.size_vers
    [] ob.kind \in {"TIntPredicate", "TCounter"} -> ob.vers
    [] ob.kind = "Vector" -> ob.vecversion

(* A predicate that held becomes a read of that version.  Vector makes it  *)
(* an item of its own, and also when only opacity is checked.              *)
PredicateRead(x, ob, i) ==
  IF ob.kind = "Vector" THEN W!PredicateRead(x, ob, x.tset[i])
  ELSE [x EXCEPT !.tset[i] = add_read(@, PredicateVersion(ob))]

install(x, ob, it) ==
  CASE ob.kind = "TBox" -> B!install(x, ob, it)
    [] ob.kind = "TVector" -> V!install(x, ob, it)
    [] ob.kind = "TVector_nopred" -> N!install(x, ob, it)
    [] ob.kind = "TGeneric" -> G!install(x, ob, it)
    [] ob.kind \in {"TIntPredicate", "TCounter"} -> I!install(x, ob, it)
    [] ob.kind = "Vector" -> W!install(x, ob, it)
    [] ob.kind = "Queue" -> Q!install(x, ob, it)
    [] ob.kind = "PriorityQueue" -> P!install(x, ob, it)
    [] ob.kind = "List" -> L!install(x, ob, it)
    [] ob.kind = "Hashtable" -> H!install(x, ob, it)
    [] ob.kind = "TransMap" -> Install(ob, it, FALSE, TRUE)
    [] ob.kind = "TLayoutBT" -> Y!install(x, ob, it)
    [] ob.kind = "RBTree" -> R!install(x, ob, it)

(* install() of TLayoutBT takes several steps and may abort.               *)
more_to_install(ob, it) == ob.kind = "TLayoutBT" /\ Y!more_to_install(it)

install_aborts(ob, it) == ob.kind = "TLayoutBT" /\ Y!install_aborts(ob, it)

unlock(x, ob, it) ==
  CASE ob.kind = "TBox" -> B!unlock(x, ob, it)
    [] ob.kind = "TVector" -> V!unlock(x, ob, it)
    [] ob.kind = "TVector_nopred" -> N!unlock(x, ob, it)
    [] ob.kind = "TGeneric" -> G!unlock(x, ob, it)
    [] ob.kind \in {"TIntPredicate", "TCounter"} -> I!unlock(x, ob, it)
    [] ob.kind = "Vector" -> W!unlock(x, ob, it)
    [] ob.kind = "Queue" -> Q!unlock(x, ob, it)
    [] ob.kind = "PriorityQueue" -> P!unlock(x, ob, it)
    [] ob.kind = "List" -> L!unlock(x, ob, it)
    [] ob.kind = "Hashtable" -> H!unlock(x, ob, it)
    [] ob.kind = "TransMap" -> ob
    [] ob.kind = "TLayoutBT" -> Y!unlock(x, ob, it)
    [] ob.kind = "RBTree" -> R!unlock(x, ob, it)

(* cleanup(), for the kinds that override it.                              *)
CleansUp(ob) == ob.kind \in {"PriorityQueue", "List", "Hashtable", "TransMap", "RBTree"}

cleanup(x, ob, it, committed) ==
  CASE ob.kind = "PriorityQueue" -> P!cleanup(x, ob, it, committed)
    [] ob.kind = "List" -> L!cleanup(x, ob, it, committed)
    [] ob.kind = "Hashtable" -> H!cleanup(x, ob, it, committed)
    [] ob.kind = "TransMap" -> M!cleanup(x, ob, it, committed)
    [] ob.kind = "RBTree" -> R!cleanup(x, ob, it, committed)

CleanupAsserts(x, ob, it, committed) ==
  CASE ob.kind = "PriorityQueue" -> P!cleanup_asserts(x, ob, it, committed)
    [] ob.kind = "List" -> L!cleanup_asserts(x, ob, it, committed)
    [] ob.kind = "Hashtable" -> H!cleanup_asserts(x, ob, it, committed)
    [] ob.kind = "TransMap" -> M!cleanup_asserts(x, ob, it, committed)
    [] ob.kind = "RBTree" -> R!cleanup_asserts(x, ob, it, committed)

(* nontrans_get(), nontrans_find() and nontrans_size().                    *)
PeekResult(ob, c) ==
  CASE ob.kind \in {"TVector", "TVector_nopred", "Vector"} ->
           IF c.op = "size" THEN ob.size ELSE ob.data[c.a[1]].v
    [] ob.kind = "TBox" -> ob.data[c.a[1]].v
    [] ob.kind = "TGeneric" -> ob.mem[c.a[1]]
    [] ob.kind \in {"TIntPredicate", "TCounter"} -> ob.v
    [] ob.kind = "RBTree" -> R!nontrans_find(ob, c.a[1])

(* nontrans_put() and nontrans_write(); nontrans_insert() of a value, and  *)
(* nontrans_remove().                                                      *)
Poked(ob, c) ==
  CASE ob.kind = "TBox" -> [ob EXCEPT !.data[c.a[1]].v = c.v]
    [] ob.kind \in {"TIntPredicate", "TCounter"} -> [ob EXCEPT !.v = c.v]
    [] ob.kind = "RBTree" -> IF c.v = Nothing THEN R!nontrans_remove(ob, c.a[1])
                             ELSE R!nontrans_insert(ob, c.a[1], c.v)

-----------------------------------------------------------------------------
(* hard_check_opacity: the whole transaction set is still valid.           *)

CheckRead(x, now, i) ==
  LET it == x.tset[i] IN
  \/ check(x, now[it.owner], it)
  \/ x.may_duplicate_items /\ preceding_duplicate_read(x, i)

(* The snapshot that check_predicate takes would start another check of    *)
(* the whole set, and that aborts, unless the version is old enough.       *)
CheckPredicate(x, now, i) ==
  LET it == x.tset[i]
      ob == now[it.owner]
  IN /\ ~is_locked_elsewhere(PredicateVersion(ob), x.thread)
     /\ ob.opaque /\ ob.kind # "Vector" => try_check_opacity(x.start_tid, PredicateVersion(ob))
     /\ verify_predicate(x, ob, it)

OpacityCheck(x, now) ==
  \A i \in DOMAIN x.tset :
    IF has(x.tset[i], "read") THEN CheckRead(x, now, i)
    ELSE has(x.tset[i], "predicate") => CheckPredicate(x, now, i)

-----------------------------------------------------------------------------
Init(objects) ==
  /\ obj = objects
  /\ tx = [t \in Thread |-> [NewTransaction(t) EXCEPT !.state = "aborted"]]
  /\ TID = FirstTid

Ended(t) == tx[t].state \in {"aborted", "committed"}

start(t) ==
  /\ Ended(t)
  /\ tx' = [tx EXCEPT ![t] = NewTransaction(t)]
  /\ UNCHANGED <<obj, TID>>

(* stop() begins: locked items and then written items, the last one first. *)
Stopping(x, committed) ==
  [x EXCEPT !.at = IF committed THEN "commit" ELSE "abort", !.k = Len(x.tset)]

(* A call with outcome m on o, and the check of the whole set it may ask   *)
(* for.                                                                    *)
Succeeds(m, o) ==
  ~m.x.doomed /\ (m.x.hard => OpacityCheck(m.x, [obj EXCEPT ![o] = m.ob]))

(* After an opacity check that held: Vector's predicates are reads now.    *)
Checked(x, now) ==
  LET vectors == {i \in DOMAIN x.tset : /\ has(x.tset[i], "predicate")
                                        /\ now[x.tset[i].owner].kind = "Vector"}
      After[n \in 0 .. Len(x.tset)] ==
        IF n = 0 THEN x
        ELSE IF n \in vectors THEN PredicateRead(After[n - 1], now[x.tset[n].owner], n)
        ELSE After[n - 1]
  IN After[Len(x.tset)]

(* A boosted call takes its lock first, an access at a time, and aborts if *)
(* it does not get it.                                                     *)
Wanted(t, o, c) ==
  IF obj[o].kind = "TransMap" THEN M!Wanted(tx[t], o, c) ELSE Nothing

(* What the caller of m gets: a value, OutOfRange, or Abort if the         *)
(* transaction was aborted.                                                *)
Result(m, o) == IF Succeeds(m, o) THEN m.r ELSE Abort

AfterCall(m, o) ==
  IF ~Succeeds(m, o) THEN Stopping(m.x, FALSE)
  ELSE IF m.x.hard THEN Checked(m.x, [obj EXCEPT ![o] = m.ob])
  ELSE m.x

CanCall(t, o, c) ==
  /\ tx[t].state = "in_progress" /\ tx[t].at = "calls"
  /\ Wanted(t, o, c) = Nothing
  /\ ~(obj[o].kind = "TLayoutBT" /\ Y!waits(tx[t], o, c.a[1]))

MakeCall(t, o, m) ==
  /\ obj' = [obj EXCEPT ![o] = m.ob]
  /\ tx' = [tx EXCEPT ![t] = [AfterCall(m, o) EXCEPT !.hard = FALSE]]
  /\ UNCHANGED TID

StartLocking(t, o, c) ==
  /\ tx[t].state = "in_progress" /\ tx[t].at = "calls"
  /\ Wanted(t, o, c) # Nothing
  /\ tx' = [tx EXCEPT ![t].at = "rwlock",
                      ![t].rw = [o |-> o, key |-> c.a[1], mode |-> Wanted(t, o, c),
                                 a |-> M!Trying(Wanted(t, o, c))]]
  /\ UNCHANGED <<obj, TID>>

TakeLock(t) ==
  LET x == tx[t]
      rw == x.rw
      s == M!RWLockStep(rw.a, obj[rw.o].locks[rw.key])
      done == [x EXCEPT !.at = "calls", !.rw = Nothing]
  IN /\ x.at = "rwlock"
     /\ obj' = [obj EXCEPT ![rw.o].locks[rw.key] = s.l]
     /\ tx' = [tx EXCEPT ![t] =
                 assert(CASE s.a.pc = "granted" -> M!Hold(done, rw.o, rw.key, rw.mode)
                          [] s.a.pc = "denied" -> Stopping(done, FALSE)
                          [] OTHER -> [x EXCEPT !.rw.a = s.a],
                        M!TryAsserts(rw.a, obj[rw.o].locks[rw.key]))]
     /\ UNCHANGED TID

(* try_commit(): a read-only transaction has been checked all along.       *)
try_commit(t) ==
  /\ tx[t].state = "in_progress" /\ tx[t].at = "calls"
  /\ tx' = [tx EXCEPT ![t] =
              IF ~@.any_writes /\ ~@.any_nonopaque THEN [@ EXCEPT !.state = "committed"]
              ELSE [@ EXCEPT !.state = "committing", !.at = "lock", !.k = 1]]
  /\ UNCHANGED <<obj, TID>>

silent_abort(t) ==
  /\ tx[t].state = "in_progress" /\ tx[t].at = "calls"
  /\ tx' = [tx EXCEPT ![t] = Stopping(@, FALSE)]
  /\ UNCHANGED <<obj, TID>>

(* Phase 1, one item: lock it if it is written; a predicate that holds     *)
(* becomes a read.                                                         *)
LockItem(t) ==
  LET x == tx[t]
      it == x.tset[x.k]
      ob == obj[it.owner]
      writes == has(it, "write")
      l == IF writes THEN lock(x, ob, it) ELSE Lock(TRUE, ob)
      predicate == has(it, "predicate") /\ ~has(it, "read")
      holds == /\ ~is_locked_elsewhere(PredicateVersion(l.ob), t)
               /\ verify_predicate(x, l.ob, it)
      y == IF writes THEN [x EXCEPT !.tset[x.k] = add_flags(@, {"lock"}),
                                    !.state = "committing_locked"] ELSE x
      z == IF predicate /\ holds THEN PredicateRead(y, l.ob, x.k) ELSE y
  IN /\ x.at = "lock" /\ x.k <= Len(x.tset)
     /\ ~(writes /\ waits(ob, it))
     /\ obj' = IF l.ok \/ undoes(ob) THEN [obj EXCEPT ![it.owner] = l.ob] ELSE obj
     /\ tx' = [tx EXCEPT ![t] =
                 IF ~l.ok THEN Stopping(x, FALSE)
                 ELSE IF predicate /\ ~holds THEN Stopping(y, FALSE)
                 ELSE [z EXCEPT !.k = @ + 1]]
     /\ UNCHANGED TID

(* Phase 2, one item: check what was read.                                 *)
CheckItem(t) ==
  LET x == tx[t]
      it == x.tset[x.k]
      ok == has(it, "read") => CheckRead(x, obj, x.k)
  IN /\ x.at = "check" /\ x.k <= Len(x.tset)
     /\ tx' = [tx EXCEPT ![t] =
                 assert(IF ok THEN [x EXCEPT !.k = @ + 1] ELSE Stopping(x, FALSE),
                        has(it, "read") => CheckAsserts(obj[it.owner], it))]
     /\ UNCHANGED <<obj, TID>>

(* Phase 3, one item: install what was written.                            *)
InstallItem(t) ==
  LET x == tx[t]
      it == x.tset[x.k]
      i == install(x, obj[it.owner], it)
      took == i.took /\ x.commit_tid = 0
  IN /\ x.at = "install" /\ x.k <= Len(x.tset)
     /\ IF has(it, "write")
        THEN /\ obj' = [obj EXCEPT ![it.owner] = i.ob]
             /\ tx' = [tx EXCEPT ![t] =
                         assert(IF install_aborts(obj[it.owner], it) THEN Stopping(x, FALSE)
                                ELSE [x EXCEPT !.tset[x.k] = i.it,
                                               !.k = IF more_to_install(obj[it.owner], it)
                                                     THEN @ ELSE @ + 1,
                                               !.commit_tid = IF took THEN TID ELSE @],
                                i.asserted)]
             /\ TID' = IF took THEN TID + 1 ELSE TID
        ELSE tx' = [tx EXCEPT ![t].k = @ + 1] /\ UNCHANGED <<obj, TID>>

NextPhase(t) ==
  LET x == tx[t] IN
  /\ x.at \in {"lock", "check", "install"} /\ x.k > Len(x.tset)
  /\ tx' = [tx EXCEPT ![t] =
              CASE x.at = "lock" -> [x EXCEPT !.at = "check", !.k = 1]
                [] x.at = "check" -> [x EXCEPT !.at = "install", !.k = 1]
                [] x.at = "install" -> Stopping(x, TRUE)]
  /\ UNCHANGED <<obj, TID>>

(* stop(): unlock, then clean up, then the end.                            *)
Last(S) == CHOOSE i \in S : \A j \in S : j <= i

ToUnlock(x) == {i \in DOMAIN x.tset : has(x.tset[i], "lock")}

ToCleanUp(x) ==
  {i \in 1 .. x.k : has(x.tset[i], "write") /\ CleansUp(obj[x.tset[i].owner])}

StopItem(t) ==
  LET x == tx[t]
      u == Last(ToUnlock(x))
      c == Last(ToCleanUp(x))
  IN /\ x.at \in {"commit", "abort"}
     /\ IF ToUnlock(x) # {}
        THEN /\ obj' = [obj EXCEPT ![x.tset[u].owner] = unlock(x, @, x.tset[u])]
             /\ tx' = [tx EXCEPT ![t].tset[u] = clear_needs_unlock(@)]
        ELSE IF ToCleanUp(x) # {}
        THEN /\ obj' = [obj EXCEPT ![x.tset[c].owner] =
                          cleanup(x, @, x.tset[c], x.at = "commit")]
             /\ tx' = [tx EXCEPT ![t] =
                         assert([x EXCEPT !.k = c - 1],
                                CleanupAsserts(x, obj[x.tset[c].owner], x.tset[c],
                                               x.at = "commit"))]
        ELSE /\ tx' = [tx EXCEPT ![t] =
                         [x EXCEPT !.state = IF x.at = "commit" THEN "committed" ELSE "aborted",
                                   !.at = "calls"]]
             /\ UNCHANGED obj
     /\ UNCHANGED TID

CommitStep(t) ==
  TakeLock(t) \/ LockItem(t) \/ CheckItem(t) \/ InstallItem(t) \/ NextPhase(t) \/ StopItem(t)
=============================================================================
