---------------------------- MODULE Transaction ----------------------------
(***************************************************************************)
(* The optimistic transactions of Transaction.hh and Transaction.cc, run   *)
(* by several threads on TBox / TArray items (TBox.hh, TArray.hh), whose   *)
(* values are read through TWrapped.hh.  Items of Opaque carry a TVersion, *)
(* the others a TNonopaqueVersion.                                         *)
(*                                                                         *)
(* One step makes at most one access to memory that threads share: a load  *)
(* or store of a version or a value, a compare-and-swap, an access to      *)
(* _TID.  Build: STO_SORT_WRITESET 0, STO_ABORT_ON_LOCKED 1,               *)
(* STO_SPIN_EXPBACKOFF 0, CONSISTENCY_CHECK 0 (the defaults).              *)
(***************************************************************************)
EXTENDS TransactionTid, Sequences, FiniteSets

CONSTANTS
  Item,        \* the boxes and array elements
  NoItem,
  Opaque,      \* the items with a TVersion
  SpinBound,   \* 1 << STO_SPIN_BOUND_WRITE
  Quota,       \* bound: transactions each thread starts
  CanRead,     \* workload: the items a thread's transactions may read
  CanWrite     \* workload: the items a thread's transactions may write

ASSUME ItemAssumption ==
  /\ NoItem \notin Item
  /\ Opaque \subseteq Item

ASSUME SpinBoundAssumption == SpinBound \in Nat \ {0}

ASSUME WorkloadAssumption ==
  /\ Quota \in [Thread -> Nat]
  /\ CanRead \in [Thread -> SUBSET Item]
  /\ CanWrite \in [Thread -> SUBSET Item]

(* A value is named by the transaction that wrote it.                      *)
Token == (Thread \cup {NoThread}) \X Nat
InitialToken == <<NoThread, 0>>

VARIABLES
  \* shared memory
  ver,         \* version word of each item
  val,         \* value of each item
  TID,         \* Transaction::_TID / increment_value
  \* the Transaction object of each thread
  state,       \* state_
  tset,        \* the transaction set, in allocation order
  rset,        \* items with read_bit
  rdata,       \* rdata_ of the items with read_bit
  wset,        \* items with write_bit
  lset,        \* items with lock_bit (needs_unlock)
  start_tid,   \* start_tid_
  commit_tid,  \* commit_tid_
  first_write, \* first_write_
  \* control and locals of the running call
  pc, txn, k, n, cur, obs, res,
  \* history
  seen,        \* <<item, value>> pairs this transaction's reads returned
  anchor,      \* item being observed when start_tid_ was last assigned
  fresh,       \* were all of seen current when the last lock was taken?
  order,       \* transactions in the order in which they took their last lock
  log,         \* the <<value, tid>> pairs installed at each item, in order
  hist         \* transactions past their commit point

sharedVars == <<ver, val, TID>>
setVars == <<tset, rset, rdata, wset>>
tidVars == <<start_tid, commit_tid, first_write>>
readVars == <<cur, obs, res>>
histVars == <<seen, anchor, fresh, order, log, hist>>
vars == <<sharedVars, state, setVars, lset, tidVars, pc, txn, k, n,
          readVars, histVars>>

-----------------------------------------------------------------------------
(* Derived state                                                           *)

Range(s) == {s[j] : j \in DOMAIN s}

Me(t) == <<t, txn[t]>>

any_writes(t) == wset[t] # {}

any_nonopaque(t) == \E i \in rset[t] : i \notin Opaque

InCall == {"rd_v0", "rd_val", "rd_v1", "tco", "hco_tid", "hco", "rd_nval",
           "lock", "cas", "check", "inst_val", "inst_tid", "inst_ver",
           "unlock"}

-----------------------------------------------------------------------------
Init ==
  /\ ver = [i \in Item |-> FreshVersion(i \in Opaque)]
  /\ val = [i \in Item |-> InitialToken]
  /\ TID = FirstTid
  /\ state = [t \in Thread |-> "aborted"]
  /\ tset = [t \in Thread |-> <<>>]
  /\ rset = [t \in Thread |-> {}]
  /\ rdata = [t \in Thread |-> [i \in Item |-> FreshVersion(TRUE)]]
  /\ wset = [t \in Thread |-> {}]
  /\ lset = [t \in Thread |-> {}]
  /\ start_tid = [t \in Thread |-> 0]
  /\ commit_tid = [t \in Thread |-> 0]
  /\ first_write = [t \in Thread |-> 0]
  /\ pc = [t \in Thread |-> "idle"]
  /\ txn = [t \in Thread |-> 0]
  /\ k = [t \in Thread |-> 0]
  /\ n = [t \in Thread |-> 0]
  /\ cur = [t \in Thread |-> NoItem]
  /\ obs = [t \in Thread |-> FreshVersion(TRUE)]
  /\ res = [t \in Thread |-> InitialToken]
  /\ seen = [t \in Thread |-> {}]
  /\ anchor = [t \in Thread |-> NoItem]
  /\ fresh = [t \in Thread |-> FALSE]
  /\ order = <<>>
  /\ log = [i \in Item |-> <<>>]
  /\ hist = {}

Goto(t, label) == pc' = [pc EXCEPT ![t] = label]

(* Transaction::start: the item flags live in the set that is emptied.     *)
Start(t) ==
  /\ pc[t] = "idle"
  /\ txn[t] < Quota[t]
  /\ txn' = [txn EXCEPT ![t] = @ + 1]
  /\ state' = [state EXCEPT ![t] = "in_progress"]
  /\ tset' = [tset EXCEPT ![t] = <<>>]
  /\ rset' = [rset EXCEPT ![t] = {}]
  /\ rdata' = [rdata EXCEPT ![t] = [i \in Item |-> FreshVersion(TRUE)]]
  /\ wset' = [wset EXCEPT ![t] = {}]
  /\ lset' = [lset EXCEPT ![t] = {}]
  /\ start_tid' = [start_tid EXCEPT ![t] = 0]
  /\ commit_tid' = [commit_tid EXCEPT ![t] = 0]
  /\ first_write' = [first_write EXCEPT ![t] = 0]
  /\ seen' = [seen EXCEPT ![t] = {}]
  /\ anchor' = [anchor EXCEPT ![t] = NoItem]
  /\ fresh' = [fresh EXCEPT ![t] = FALSE]
  /\ Goto(t, "run")
  /\ UNCHANGED <<sharedVars, k, n, readVars, order, log, hist>>

(* The locals of a call die with it.                                       *)
EndCall(t) ==
  /\ k' = [k EXCEPT ![t] = 0]
  /\ n' = [n EXCEPT ![t] = 0]
  /\ cur' = [cur EXCEPT ![t] = NoItem]
  /\ obs' = [obs EXCEPT ![t] = FreshVersion(TRUE)]
  /\ res' = [res EXCEPT ![t] = InitialToken]

(* Transaction::stop, its last assignment.  A committed TBox write has     *)
(* cleared lock_bit in set_version_unlock, so nothing is left to unlock.   *)
Stopped(t, committed) ==
  /\ state' = [state EXCEPT ![t] = IF committed THEN "committed" ELSE "aborted"]
  /\ Goto(t, "idle")
  /\ EndCall(t)

(* Mutant: allocate_item without looking the item up first.                *)
item_always_new(t, i) == Append(tset[t], i)

(* find_item, else allocate_item                                           *)
item(t, i) == IF i \in Range(tset[t]) THEN tset[t] ELSE Append(tset[t], i)

-----------------------------------------------------------------------------
(* Reading an opaque item: TWrappedAccess::read_atomic, then               *)
(* TransProxy::observe(TVersion).                                          *)

BeginRead(t, i) ==
  /\ pc[t] = "run"
  /\ i \in (CanRead[t] \cap Opaque) \ wset[t]
  /\ tset' = [tset EXCEPT ![t] = item(t, i)]
  /\ cur' = [cur EXCEPT ![t] = i]
  /\ obs' = [obs EXCEPT ![t] = ver[i]]
  /\ Goto(t, "rd_val")
  /\ UNCHANGED <<sharedVars, state, rset, rdata, wset, lset, tidVars, txn,
                 k, n, res, histVars>>

RetryRead(t) ==
  /\ pc[t] = "rd_v0"
  /\ obs' = [obs EXCEPT ![t] = ver[cur[t]]]
  /\ Goto(t, "rd_val")
  /\ UNCHANGED <<sharedVars, state, setVars, lset, tidVars, txn, k, n, cur,
                 res, histVars>>

ReadValue(t) ==
  /\ pc[t] = "rd_val"
  /\ res' = [res EXCEPT ![t] = val[cur[t]]]
  /\ Goto(t, "rd_v1")
  /\ UNCHANGED <<sharedVars, state, setVars, lset, tidVars, txn, k, n, cur,
                 obs, histVars>>

(* Mutant: the value is taken without loading the version again.           *)
ReadSettledAtOnce(v0, v1) == TRUE

(* v0 == v1 || v1.is_locked()                                              *)
ReadSettled(v0, v1) == v0 = v1 \/ is_locked(v1)

ReadVersion(t) ==
  /\ pc[t] = "rd_v1"
  /\ LET v1 == ver[cur[t]] IN
       \/ /\ ReadSettled(obs[t], v1)
          /\ is_locked_elsewhere(v1, t)
          /\ Stopped(t, FALSE)
       \/ /\ ReadSettled(obs[t], v1)
          /\ ~is_locked_elsewhere(v1, t)
          /\ obs' = [obs EXCEPT ![t] = v1]
          /\ Goto(t, "tco")
          /\ UNCHANGED <<state, k, n, cur, res>>
       \/ /\ ~ReadSettled(obs[t], v1)
          /\ Goto(t, "rd_v0")
          /\ UNCHANGED <<state, k, n, readVars>>
  /\ UNCHANGED <<sharedVars, setVars, lset, tidVars, txn, histVars>>

(* observe returns: rdata_ keeps the version of the first read.            *)
AddRead(t) ==
  /\ rset' = [rset EXCEPT ![t] = @ \cup {cur[t]}]
  /\ rdata' = [rdata EXCEPT ![t][cur[t]] =
                 IF cur[t] \in rset[t] THEN @ ELSE obs[t]]
  /\ seen' = [seen EXCEPT ![t] = @ \cup {<<cur[t], res[t]>>}]

(* hard_check_opacity ignores a version that equals the one already read.  *)
SameVersionRead(t) == cur[t] \in rset[t] /\ rdata[t][cur[t]] = obs[t]

StartTid(t) == IF start_tid[t] = 0 THEN TID ELSE start_tid[t]

CheckOpacity(t) ==
  /\ pc[t] = "tco"
  /\ start_tid' = [start_tid EXCEPT ![t] = StartTid(t)]
  /\ anchor' = [anchor EXCEPT ![t] = IF start_tid[t] = 0 THEN cur[t] ELSE @]
  /\ \/ /\ try_check_opacity(StartTid(t), obs[t]) \/ SameVersionRead(t)
        /\ AddRead(t)
        /\ EndCall(t)
        /\ Goto(t, "run")
        /\ UNCHANGED state
     \/ /\ ~try_check_opacity(StartTid(t), obs[t])
        /\ ~SameVersionRead(t)
        /\ state' = [state EXCEPT ![t] = "opacity_check"]
        /\ Goto(t, "hco_tid")
        /\ UNCHANGED <<rset, rdata, seen, k, n, readVars>>
  /\ UNCHANGED <<sharedVars, tset, wset, lset, commit_tid, first_write, txn,
                 fresh, order, log, hist>>

HardCheckTid(t) ==
  /\ pc[t] = "hco_tid"
  /\ start_tid' = [start_tid EXCEPT ![t] = TID]
  /\ anchor' = [anchor EXCEPT ![t] = cur[t]]
  /\ k' = [k EXCEPT ![t] = 1]
  /\ Goto(t, "hco")
  /\ UNCHANGED <<sharedVars, state, setVars, lset, commit_tid, first_write,
                 txn, n, readVars, seen, fresh, order, log, hist>>

(* Mutant: an item that is also written is not checked.                    *)
ItemChecksIfUnwritten(t) ==
  LET i == tset[t][k[t]]
  IN i \in rset[t] \ wset[t] => check_version(ver[i], rdata[t][i], t)

(* Mutant: only the tid is compared, a lock held elsewhere is overlooked.  *)
ItemChecksTid(t) ==
  LET i == tset[t][k[t]]
  IN i \in rset[t] => ver[i].tid = rdata[t][i].tid

(* TBox::check of the k-th item, if it has read_bit                        *)
ItemChecks(t) ==
  LET i == tset[t][k[t]]
  IN i \in rset[t] => check_version(ver[i], rdata[t][i], t)

HardCheckItem(t) ==
  /\ pc[t] = "hco"
  /\ \/ /\ ~ItemChecks(t)
        /\ Stopped(t, FALSE)
        /\ UNCHANGED <<rset, rdata, seen>>
     \/ /\ ItemChecks(t)
        /\ k[t] < Len(tset[t])
        /\ k' = [k EXCEPT ![t] = @ + 1]
        /\ UNCHANGED <<state, rset, rdata, seen, pc, n, readVars>>
     \/ /\ ItemChecks(t)
        /\ k[t] = Len(tset[t])
        /\ state' = [state EXCEPT ![t] = "in_progress"]
        /\ AddRead(t)
        /\ EndCall(t)
        /\ Goto(t, "run")
  /\ UNCHANGED <<sharedVars, tset, wset, lset, tidVars, txn, anchor, fresh,
                 order, log, hist>>

-----------------------------------------------------------------------------
(* Reading a nonopaque item: read_nonatomic observes the version (load),   *)
(* then returns the value (second load).                                   *)

ObserveNonopaque(t, i) ==
  /\ pc[t] = "run"
  /\ i \in CanRead[t] \ (Opaque \cup wset[t])
  /\ tset' = [tset EXCEPT ![t] = item(t, i)]
  /\ \/ /\ is_locked_elsewhere(ver[i], t)
        /\ Stopped(t, FALSE)
        /\ UNCHANGED <<rset, rdata>>
     \/ /\ ~is_locked_elsewhere(ver[i], t)
        /\ rset' = [rset EXCEPT ![t] = @ \cup {i}]
        /\ rdata' = [rdata EXCEPT ![t][i] = IF i \in rset[t] THEN @ ELSE ver[i]]
        /\ cur' = [cur EXCEPT ![t] = i]
        /\ Goto(t, "rd_nval")
        /\ UNCHANGED <<state, k, n, obs, res>>
  /\ UNCHANGED <<sharedVars, wset, lset, tidVars, txn, histVars>>

ReadNonopaqueValue(t) ==
  /\ pc[t] = "rd_nval"
  /\ seen' = [seen EXCEPT ![t] = @ \cup {<<cur[t], val[cur[t]]>>}]
  /\ EndCall(t)
  /\ Goto(t, "run")
  /\ UNCHANGED <<sharedVars, state, setVars, lset, tidVars, txn, anchor,
                 fresh, order, log, hist>>

-----------------------------------------------------------------------------
(* TBox::write, an abort by the user, and the decision at the top of       *)
(* try_commit.                                                             *)

Write(t, i) ==
  /\ pc[t] = "run"
  /\ i \in CanWrite[t] \ wset[t]
  /\ tset' = [tset EXCEPT ![t] = item(t, i)]
  /\ wset' = [wset EXCEPT ![t] = @ \cup {i}]
  /\ UNCHANGED <<sharedVars, state, rset, rdata, lset, tidVars, pc, txn, k, n,
                 readVars, histVars>>

(* silent_abort in s_in_progress: stop(false) has nothing to unlock.       *)
UserAbort(t) ==
  /\ pc[t] = "run"
  /\ Stopped(t, FALSE)
  /\ UNCHANGED <<sharedVars, setVars, lset, tidVars, txn, histVars>>

CommitRecord(t, validated) ==
  [by |-> Me(t), reads |-> seen[t], validated |-> validated]

ReadOnlyCommits(t) == ~any_writes(t) /\ ~any_nonopaque(t)

TryCommit(t) ==
  /\ pc[t] = "run"
  /\ \/ /\ ReadOnlyCommits(t)
        /\ Stopped(t, TRUE)
        /\ hist' = hist \cup {CommitRecord(t, FALSE)}
     \/ /\ ~ReadOnlyCommits(t)
        /\ state' = [state EXCEPT ![t] = "committing"]
        /\ k' = [k EXCEPT ![t] = 1]
        /\ Goto(t, "lock")
        /\ UNCHANGED <<n, readVars, hist>>
  /\ UNCHANGED <<sharedVars, setVars, lset, tidVars, txn, seen, anchor,
                 fresh, order, log>>

-----------------------------------------------------------------------------
(* try_commit, phase 1: lock the written items in set order.               *)

(* Are the values read so far still the current ones?                      *)
SeenCurrent(t) == \A p \in seen[t] : val[p[1]] = p[2]

(* The end of the phase is the lock point: fresh records what held there,  *)
(* order who reached it before whom.                                       *)
NextToLock(t) ==
  IF k[t] = Len(tset[t])
  THEN /\ k' = [k EXCEPT ![t] = 1]
       /\ fresh' = [fresh EXCEPT ![t] = SeenCurrent(t)]
       /\ order' = Append(order, Me(t))
       /\ Goto(t, "check")
  ELSE /\ k' = [k EXCEPT ![t] = @ + 1]
       /\ UNCHANGED <<fresh, order>>
       /\ Goto(t, "lock")

LockSkip(t) ==
  /\ pc[t] = "lock"
  /\ tset[t][k[t]] \notin wset[t]
  /\ NextToLock(t)
  /\ UNCHANGED <<sharedVars, state, setVars, lset, tidVars, txn, n, readVars,
                 seen, anchor, log, hist>>

(* The first written item fixes first_write_ (set as a count of the items  *)
(* before it); the load of TransactionTid::try_lock follows.               *)
LockLoad(t) ==
  /\ pc[t] = "lock"
  /\ tset[t][k[t]] \in wset[t]
  /\ state' = [state EXCEPT ![t] = "committing_locked"]
  /\ first_write' = [first_write EXCEPT ![t] =
                       IF state[t] = "committing" THEN k[t] - 1 ELSE @]
  /\ obs' = [obs EXCEPT ![t] = ver[tset[t][k[t]]]]
  /\ Goto(t, "cas")
  /\ UNCHANGED <<sharedVars, setVars, lset, start_tid, commit_tid, txn, k, n,
                 cur, res, histVars>>

(* Mutant: one attempt too many.                                           *)
GivesUpLate(t) ==
  \/ tset[t][k[t]] \in rset[t]
  \/ n[t] = SpinBound

(* Transaction::try_lock gives up at once on an item it has also read.     *)
GivesUp(t) ==
  \/ tset[t][k[t]] \in rset[t]
  \/ n[t] + 1 = SpinBound

(* Mutant: the attempts are not counted.                                   *)
CountNothing(t) == n' = n

(* ++n, after a failed attempt                                             *)
CountSpin(t) == n' = [n EXCEPT ![t] = @ + 1]

(* stop(false) with state_ == s_committing_locked: unlock from the end.    *)
AbortLocked(t) ==
  /\ k' = [k EXCEPT ![t] = Len(tset[t])]
  /\ Goto(t, "unlock")

LockCas(t) ==
  /\ pc[t] = "cas"
  /\ LET i == tset[t][k[t]] IN
       \/ /\ try_lock_succeeds(ver[i], obs[t])
          /\ ver' = [ver EXCEPT ![i] = locked(obs[t], t)]
          /\ lset' = [lset EXCEPT ![t] = @ \cup {i}]
          /\ n' = [n EXCEPT ![t] = 0]
          /\ NextToLock(t)
       \/ /\ ~try_lock_succeeds(ver[i], obs[t])
          /\ GivesUp(t)
          /\ n' = [n EXCEPT ![t] = 0]
          /\ AbortLocked(t)
          /\ UNCHANGED <<ver, lset, fresh, order>>
       \/ /\ ~try_lock_succeeds(ver[i], obs[t])
          /\ ~GivesUp(t)
          /\ CountSpin(t)
          /\ Goto(t, "lock")
          /\ UNCHANGED <<ver, lset, k, fresh, order>>
  /\ obs' = [obs EXCEPT ![t] = FreshVersion(TRUE)]
  /\ UNCHANGED <<val, TID, state, setVars, tidVars, txn, cur, res, seen,
                 anchor, log, hist>>

-----------------------------------------------------------------------------
(* Phase 2: check the read set; the transaction commits when it is through.*)

CheckItem(t) ==
  /\ pc[t] = "check"
  /\ \/ /\ ~ItemChecks(t)
        /\ state[t] = "committing_locked"
        /\ AbortLocked(t)
        /\ UNCHANGED <<state, n, readVars, hist>>
     \/ /\ ~ItemChecks(t)
        /\ state[t] = "committing"
        /\ Stopped(t, FALSE)
        /\ UNCHANGED hist
     \/ /\ ItemChecks(t)
        /\ k[t] < Len(tset[t])
        /\ k' = [k EXCEPT ![t] = @ + 1]
        /\ UNCHANGED <<state, pc, n, readVars, hist>>
     \/ /\ ItemChecks(t)
        /\ k[t] = Len(tset[t])
        /\ hist' = hist \cup {CommitRecord(t, TRUE)}
        /\ IF any_writes(t)
           THEN /\ k' = [k EXCEPT ![t] = 1]
                /\ Goto(t, "inst_val")
                /\ UNCHANGED <<state, n, readVars>>
           ELSE Stopped(t, TRUE)
  /\ UNCHANGED <<sharedVars, setVars, lset, tidVars, txn, seen, anchor, fresh,
                 order, log>>

-----------------------------------------------------------------------------
(* Phase 3: TBox::install of the written items in set order.               *)

NextToInstall(t) ==
  IF k[t] = Len(tset[t])
  THEN Stopped(t, TRUE)
  ELSE /\ k' = [k EXCEPT ![t] = @ + 1]
       /\ Goto(t, "inst_val")
       /\ UNCHANGED <<state, n, readVars>>

InstallSkip(t) ==
  /\ pc[t] = "inst_val"
  /\ tset[t][k[t]] \notin wset[t]
  /\ NextToInstall(t)
  /\ UNCHANGED <<sharedVars, setVars, lset, tidVars, txn, histVars>>

InstallValue(t) ==
  /\ pc[t] = "inst_val"
  /\ LET i == tset[t][k[t]] IN
       /\ i \in wset[t]
       /\ val' = [val EXCEPT ![i] = Me(t)]
       /\ Goto(t, IF i \in Opaque /\ commit_tid[t] = 0
                  THEN "inst_tid" ELSE "inst_ver")
  /\ UNCHANGED <<ver, TID, state, setVars, lset, tidVars, txn, k, n, readVars,
                 histVars>>

(* Mutant: _TID is read but not advanced.                                  *)
FetchTidOnly(t) ==
  /\ pc[t] = "inst_tid"
  /\ commit_tid' = [commit_tid EXCEPT ![t] = TID]
  /\ Goto(t, "inst_ver")
  /\ UNCHANGED <<sharedVars, state, setVars, lset, start_tid, first_write,
                 txn, k, n, readVars, histVars>>

(* commit_tid(): fetch_and_add(&_TID, increment_value), once               *)
FetchTid(t) ==
  /\ pc[t] = "inst_tid"
  /\ commit_tid' = [commit_tid EXCEPT ![t] = TID]
  /\ TID' = TID + 1
  /\ Goto(t, "inst_ver")
  /\ UNCHANGED <<ver, val, state, setVars, lset, start_tid, first_write, txn,
                 k, n, readVars, histVars>>

(* set_version_unlock: a TNonopaqueVersion takes the commit tid if the     *)
(* transaction already has one, else the next version of its own counter.  *)
InstalledVersion(t, i) ==
  IF commit_tid[t] # 0
  THEN commit_version(commit_tid[t])
  ELSE next_unflagged_nonopaque_version(ver[i])

InstallVersion(t) ==
  /\ pc[t] = "inst_ver"
  /\ LET i == tset[t][k[t]] IN
       /\ ver' = [ver EXCEPT ![i] = InstalledVersion(t, i)]
       /\ lset' = [lset EXCEPT ![t] = @ \ {i}]
       /\ log' = [log EXCEPT ![i] =
                    Append(@, <<Me(t), InstalledVersion(t, i).tid>>)]
  /\ NextToInstall(t)
  /\ UNCHANGED <<val, TID, setVars, tidVars, txn, seen, anchor, fresh,
                 order, hist>>

-----------------------------------------------------------------------------
(* stop(false) after locking: one item per step, down to first_write_.     *)

(* Mutant: the loop ends one item early.                                   *)
UnlockEndsEarly(t) == k[t] = first_write[t] + 2 \/ k[t] = 1

UnlockEnds(t) == k[t] = first_write[t] + 1

Unlock(t) ==
  /\ pc[t] = "unlock"
  /\ LET i == tset[t][k[t]] IN
       IF i \in lset[t]
       THEN /\ ver' = [ver EXCEPT ![i] = unlocked(@)]
            /\ lset' = [lset EXCEPT ![t] = @ \ {i}]
       ELSE UNCHANGED <<ver, lset>>
  /\ IF UnlockEnds(t)
     THEN Stopped(t, FALSE)
     ELSE /\ k' = [k EXCEPT ![t] = @ - 1]
          /\ UNCHANGED <<state, pc, n, readVars>>
  /\ UNCHANGED <<val, TID, setVars, tidVars, txn, histVars>>

-----------------------------------------------------------------------------
(* What the user's code decides, and what the library then does by itself  *)

UserStep(t) ==
  \/ Start(t)
  \/ \E i \in Item : BeginRead(t, i) \/ ObserveNonopaque(t, i) \/ Write(t, i)
  \/ UserAbort(t)
  \/ TryCommit(t)

LibraryStep(t) ==
  \/ RetryRead(t) \/ ReadValue(t) \/ ReadVersion(t)
  \/ CheckOpacity(t) \/ HardCheckTid(t) \/ HardCheckItem(t)
  \/ ReadNonopaqueValue(t)
  \/ LockSkip(t) \/ LockLoad(t) \/ LockCas(t)
  \/ CheckItem(t)
  \/ InstallSkip(t) \/ InstallValue(t) \/ FetchTid(t) \/ InstallVersion(t)
  \/ Unlock(t)

Done == \A t \in Thread : pc[t] = "idle" /\ txn[t] = Quota[t]

Next ==
  \/ \E t \in Thread : UserStep(t) \/ LibraryStep(t)
  \/ Done /\ UNCHANGED vars

Spec == Init /\ [][Next]_vars

(* A thread inside a call of the library is eventually scheduled; nothing  *)
(* is assumed about when user code makes its calls.                        *)
FairSpec == Spec /\ \A t \in Thread : WF_vars(LibraryStep(t))

-----------------------------------------------------------------------------
(* Properties                                                              *)

StateName == {"in_progress", "opacity_check", "committing",
              "committing_locked", "aborted", "committed"}

Committed == [by : Token, reads : SUBSET (Item \X Token),
              validated : BOOLEAN]

MemoryType ==
  /\ ver \in [Item -> Version]
  /\ val \in [Item -> Token]
  /\ TID \in Nat

SetType ==
  /\ tset \in [Thread -> Seq(Item)]
  /\ rset \in [Thread -> SUBSET Item]
  /\ rdata \in [Thread -> [Item -> Version]]
  /\ wset \in [Thread -> SUBSET Item]
  /\ lset \in [Thread -> SUBSET Item]

TidType ==
  /\ start_tid \in [Thread -> Nat]
  /\ commit_tid \in [Thread -> Nat]
  /\ first_write \in [Thread -> Nat]
  /\ txn \in [Thread -> Nat]

CallType ==
  /\ state \in [Thread -> StateName]
  /\ pc \in [Thread -> {"idle", "run"} \cup InCall]
  /\ k \in [Thread -> Nat]
  /\ n \in [Thread -> 0 .. SpinBound - 1]
  /\ cur \in [Thread -> Item \cup {NoItem}]
  /\ obs \in [Thread -> Version]
  /\ res \in [Thread -> Token]

HistoryType ==
  /\ seen \in [Thread -> SUBSET (Item \X Token)]
  /\ anchor \in [Thread -> Item \cup {NoItem}]
  /\ fresh \in [Thread -> BOOLEAN]
  /\ order \in Seq(Token)
  /\ log \in [Item -> Seq(Token \X Nat)]
  /\ hist \in SUBSET Committed

(* Every variable stays in its domain; in particular the spin count of     *)
(* Transaction::try_lock stays below 1 << STO_SPIN_BOUND_WRITE.            *)
TypeOK == MemoryType /\ SetType /\ TidType /\ CallType /\ HistoryType

(* A version word names a thread as its owner exactly while that thread's  *)
(* item carries lock_bit, and lock bits exist only inside a commit: no     *)
(* path through try_commit and stop, the lock, check and spin failures     *)
(* included, leaves an item locked behind a finished transaction.          *)
LockOwnership ==
  /\ \A t \in Thread, i \in Item : ver[i].lock = t <=> i \in lset[t]
  /\ \A t \in Thread :
       lset[t] # {} => state[t] = "committing_locked" /\ pc[t] # "idle"

(* The <<value, tid>> pairs an item has ever had unlocked.                 *)
Installed(i) == Range(log[i]) \cup {<<InitialToken, 0>>}

CurrentValue(i) ==
  IF log[i] = <<>> THEN InitialToken ELSE log[i][Len(log[i])][1]

(* An unlocked item holds the value of a transaction that passed its       *)
(* commit point (or the initial value): an aborted transaction leaves no   *)
(* value behind, and nobody reaches a half-installed one without finding   *)
(* the item locked.                                                        *)
UnlockedValueCommitted ==
  \A i \in Item : ~is_locked(ver[i]) =>
    /\ val[i] = CurrentValue(i)
    /\ val[i] # InitialToken => \E h \in hist : h.by = val[i]

(* The value and the version an opaque read takes out of read_atomic were  *)
(* installed together, although value and version are loaded in three      *)
(* separate loads while writers store them in two.                         *)
ReadPairs ==
  \A t \in Thread :
    /\ pc[t] \in {"tco", "hco_tid", "hco"} =>
         <<res[t], obs[t].tid>> \in Installed(cur[t])
    /\ \A i \in rset[t] \cap Opaque : \E p \in seen[t] :
         p[1] = i /\ <<p[2], rdata[t][i].tid>> \in Installed(i)

(* Opaque versions never repeat or go back: the tid a writer takes from    *)
(* _TID after locking is above every tid installed at the item before.     *)
VersionsIncrease ==
  \A i \in Opaque : \A a, b \in DOMAIN log[i] :
    a < b => log[i][a][2] < log[i][b][2]

(* As the comment on nonopaque_bit in Interface.hh says of data structures *)
(* that do not use opacity: they "increment a version".                    *)
NonopaqueVersionsIncrease ==
  \A i \in Item \ Opaque : \A a, b \in DOMAIN log[i] :
    a < b => log[i][a][2] < log[i][b][2]

(* Has t passed try_commit's validation of its reads?                      *)
PastValidation(t) ==
  \/ pc[t] \in {"inst_val", "inst_tid", "inst_ver"}
  \/ state[t] = "committed" /\ ~ReadOnlyCommits(t)

(* Validation implies that all values the transaction read were current at *)
(* one moment, the one when it had taken its last lock, although the items *)
(* are checked one by one later.                                           *)
LockPointReads == \A t \in Thread : PastValidation(t) => fresh[t]

(* b's value at i was installed after a's.                                 *)
InstalledAfter(i, a, b) ==
  \E q \in DOMAIN log[i] :
    /\ log[i][q][1] = b
    /\ a = InitialToken \/ \E p \in 1 .. q - 1 : log[i][p][1] = a

(* g must precede h in any serial order: h read what g wrote, h overwrote  *)
(* what g wrote, or h overwrote what g read.                               *)
Precedes(g, h) ==
  \/ \E p \in h.reads : p[2] = g.by
  \/ \E i \in Item : g.by \in {e[1] : e \in Range(log[i])}
                    /\ InstalledAfter(i, g.by, h.by)
  \/ \E p \in g.reads : InstalledAfter(p[1], p[2], h.by)

(* No cycle: every nonempty set has a member none of the others precedes.  *)
Acyclic(nodes) ==
  \A S \in SUBSET nodes : S # {} =>
    \E h \in S : \A g \in S \ {h} : ~Precedes(g, h)

(* The transactions that went through try_commit's three phases are        *)
(* conflict serializable.                                                  *)
Serializable == Acyclic({h \in hist : h.validated})

(* As unit-opacity.cc and unit-tbox.cc expect: also those that committed   *)
(* "immediately if read-only transaction with opacity" are.                *)
ReadOnlySerializable == Acyclic(hist)

(* What check_opacity establishes for a running transaction: its reads are *)
(* from before start_tid_ and no version below start_tid_ has replaced one *)
(* of them since - but for the item that was being observed when           *)
(* start_tid_ was last assigned, which is not checked again.               *)
SnapshotExceptAnchor ==
  \A t \in Thread : state[t] = "in_progress" =>
    \A i \in rset[t] \cap Opaque :
      /\ rdata[t][i].tid < start_tid[t]
      /\ i # anchor[t] =>
           \A e \in Range(log[i]) :
             e[2] <= rdata[t][i].tid \/ e[2] >= start_tid[t]

(* Every call ends: a read loop leaves, a commit commits or aborts, even   *)
(* when two transactions lock the same items in opposite orders, because   *)
(* try_lock gives up after SpinBound attempts.                             *)
CallsEnd == \A t \in Thread : pc[t] \in InCall ~> pc[t] \notin InCall

-----------------------------------------------------------------------------
(* The inductive invariant behind the proofs (module TransactionProofs)    *)

Reading == {"rd_v0", "rd_val", "rd_v1", "tco", "hco_tid", "hco"}
Locking == {"lock", "cas"}
Installing == {"inst_val", "inst_tid", "inst_ver"}
Indexing == {"hco", "lock", "cas", "check", "unlock"} \cup Installing

(* The transaction set has one item per key, and the flags belong to items *)
(* of the set.                                                             *)
SetInv(t) ==
  /\ \A a, b \in 1 .. Len(tset[t]) : tset[t][a] = tset[t][b] => a = b
  /\ \A i \in rset[t] \cup wset[t] \cup lset[t] :
       \E j \in 1 .. Len(tset[t]) : tset[t][j] = i

(* Which state_ and which registers each point of the code comes with.     *)
ControlInv(t) ==
  /\ pc[t] = "idle" => state[t] \in {"aborted", "committed"}
  /\ pc[t] \in {"run", "rd_nval", "rd_v0", "rd_val", "rd_v1", "tco"} =>
       state[t] = "in_progress"
  /\ pc[t] \in {"hco_tid", "hco"} => state[t] = "opacity_check"
  /\ pc[t] \in {"lock", "check"} =>
       state[t] \in {"committing", "committing_locked"}
  /\ pc[t] \in {"cas", "unlock"} \cup Installing =>
       state[t] = "committing_locked"
  /\ pc[t] \in Reading => cur[t] \in Opaque
  /\ pc[t] \in Reading \cup {"rd_nval"} =>
       \E j \in 1 .. Len(tset[t]) : tset[t][j] = cur[t]
  /\ k[t] <= Len(tset[t])
  /\ pc[t] \in {"idle", "run"} => k[t] = 0
  /\ pc[t] \in Indexing => k[t] >= 1
  /\ pc[t] \in {"cas", "inst_tid", "inst_ver"} => tset[t][k[t]] \in wset[t]
  /\ pc[t] = "inst_tid" => commit_tid[t] = 0
  /\ pc[t] = "inst_ver" /\ tset[t][k[t]] \in Opaque => commit_tid[t] # 0
  /\ pc[t] \notin Installing \cup {"idle"} => commit_tid[t] = 0

(* Which items are locked at each point of try_commit and stop.            *)
LocksInv(t) ==
  /\ pc[t] \in {"idle", "run", "rd_nval"} \cup Reading => lset[t] = {}
  /\ state[t] = "committing" => lset[t] = {}
  /\ pc[t] \in Locking => \A j \in 1 .. Len(tset[t]) :
       tset[t][j] \in lset[t] <=> tset[t][j] \in wset[t] /\ j < k[t]
  /\ pc[t] = "check" => lset[t] = wset[t]
  /\ pc[t] \in Installing => \A j \in 1 .. Len(tset[t]) :
       tset[t][j] \in lset[t] <=> tset[t][j] \in wset[t] /\ j >= k[t]
  /\ pc[t] \in Locking \cup {"check"} /\ state[t] = "committing_locked" =>
       /\ first_write[t] < Len(tset[t])
       /\ \A j \in 1 .. first_write[t] : tset[t][j] \notin wset[t]
  /\ pc[t] = "unlock" =>
       /\ first_write[t] < k[t]
       /\ \A j \in 1 .. Len(tset[t]) : tset[t][j] \in lset[t] =>
            first_write[t] < j /\ j <= k[t]

(* Transaction ids are handed out in order, and a commit takes its id      *)
(* after it has locked the items it will give it to.                       *)
TidInv ==
  /\ TID > 0
  /\ \A i \in Opaque : ver[i].tid < TID
  /\ \A i \in Opaque : \A a \in 1 .. Len(log[i]) : log[i][a][2] <= ver[i].tid
  /\ \A t \in Thread : commit_tid[t] < TID
  /\ \A t \in Thread : pc[t] \in Installing /\ commit_tid[t] # 0 =>
       \A i \in lset[t] \cap Opaque : ver[i].tid < commit_tid[t]

Ownership == \A t \in Thread, i \in Item : ver[i].lock = t <=> i \in lset[t]

(* Together these are preserved by every step of every thread.             *)
IInv ==
  /\ TypeOK
  /\ \A t \in Thread : SetInv(t) /\ ControlInv(t) /\ LocksInv(t)
  /\ Ownership
  /\ TidInv
  /\ VersionsIncrease

-----------------------------------------------------------------------------
(* What reads return (module TransactionReadProofs)                        *)

(* u has stored its value at i and not yet its version.                    *)
Storing(u, i) == pc[u] \in {"inst_tid", "inst_ver"} /\ tset[u][k[u]] = i

CurrentTid(i) == IF log[i] = <<>> THEN 0 ELSE log[i][Len(log[i])][2]

(* A value differs from the last one installed only between the two stores *)
(* of TBox::install.                                                       *)
ValueInv ==
  \A i \in Item :
    /\ ver[i].tid = CurrentTid(i)
    /\ \A u \in Thread : Storing(u, i) => val[i] = Me(u)
    /\ (\A u \in Thread : ~Storing(u, i)) => val[i] = CurrentValue(i)

(* Only transactions past their commit point install, each commits once.   *)
CommitInv ==
  /\ \A h \in hist : h.by[1] \in Thread /\ h.by[2] <= txn[h.by[1]]
  /\ \A g, h \in hist : g.by = h.by => g = h
  /\ \A t \in Thread : \A h \in hist :
       h.by = Me(t) => pc[t] \in Installing \cup {"idle"}
  /\ \A t \in Thread : pc[t] \in Installing => \E h \in hist : h.by = Me(t)
  /\ \A i \in Item : \A q \in 1 .. Len(log[i]) :
       \E h \in hist : h.by = log[i][q][1]

(* No transaction writes both kinds of items, so no TNonopaqueVersion      *)
(* takes a commit tid in place of its own next version.                    *)
KindsApart ==
  \A t \in Thread : CanWrite[t] \subseteq Opaque \/ CanWrite[t] \cap Opaque = {}

(* The items whose versions never repeat                                   *)
Growing == {i \in Item : i \in Opaque \/ KindsApart}

GrowthInv ==
  \A i \in Growing : \A b \in 1 .. Len(log[i]) :
    /\ log[i][b][2] > 0
    /\ \A a \in 1 .. b - 1 : log[i][a][2] < log[i][b][2]

WorkloadInv(t) ==
  /\ rset[t] \subseteq CanRead[t] /\ wset[t] \subseteq CanWrite[t]
  /\ pc[t] \in Reading => cur[t] \in CanRead[t]
  /\ pc[t] = "inst_tid" => tset[t][k[t]] \in Opaque
  /\ pc[t] \in Installing /\ commit_tid[t] # 0 => wset[t] \cap Opaque # {}

(* Value x of i is as new as version tid, or about to be.                  *)
AsNewAs(i, x, tid) ==
  \/ \E u \in Thread : Storing(u, i) /\ x = Me(u)
  \/ \E e \in Installed(i) : e[1] = x /\ e[2] >= tid

(* No read returns a value older than the version it will be checked by.   *)
ReadSetInv(t) ==
  /\ \A i \in rset[t] :
       rdata[t][i].lock = NoThread /\ (i \in Growing => rdata[t][i].tid <= ver[i].tid)
  /\ \A p \in seen[t] :
       /\ p[1] \in rset[t]
       /\ p[1] \in Growing => AsNewAs(p[1], p[2], rdata[t][p[1]].tid)
  /\ \A i \in rset[t] \cap Opaque :
       \E p \in seen[t] : p[1] = i /\ <<p[2], rdata[t][i].tid>> \in Installed(i)

(* The same of a read under way                                            *)
ReadCallInv(t) ==
  /\ pc[t] \in Reading \ {"rd_v0"} =>
       /\ obs[t].tid <= ver[cur[t]].tid
       /\ cur[t] \in rset[t] => rdata[t][cur[t]].tid <= obs[t].tid
  /\ pc[t] = "rd_v1" => AsNewAs(cur[t], res[t], obs[t].tid)
  /\ pc[t] \in {"tco", "hco_tid", "hco"} =>
       obs[t].lock = NoThread /\ <<res[t], obs[t].tid>> \in Installed(cur[t])
  /\ pc[t] = "rd_nval" => cur[t] \in rset[t]

(* Only items whose versions never repeat are read.                        *)
ReadsGrowing == \A t \in Thread : CanRead[t] \subseteq Growing

(* A stale read can no longer check: its version has been replaced, or the *)
(* item stays locked until it is.                                          *)
Outdated(t, i) ==
  \/ rdata[t][i].tid < ver[i].tid
  \/ \E u \in Thread : Storing(u, i)

FreshInv(t) ==
  /\ PastValidation(t) => fresh[t]
  /\ pc[t] = "check" /\ ~fresh[t] =>
       \E j \in k[t] .. Len(tset[t]) :
         tset[t][j] \in rset[t] /\ Outdated(t, tset[t][j])

(* What is in memory, in the read sets and in the reads under way belongs  *)
(* together at every point of read_atomic, observe, install and the        *)
(* validation loop: values are replaced only with a new version, and a     *)
(* read that is stale at the lock point still has its check to fail.       *)
ReadsInv ==
  /\ ValueInv /\ CommitInv /\ GrowthInv
  /\ \A t \in Thread : WorkloadInv(t) /\ ReadSetInv(t) /\ ReadCallInv(t)
  /\ ReadsGrowing => \A t \in Thread : FreshInv(t)

-----------------------------------------------------------------------------
(* The serial order of validated transactions                              *)
(* (module TransactionSerialProofs)                                        *)

Ordered(a) == \E p \in 1 .. Len(order) : order[p] = a

Before(a, b) ==
  \E q \in 1 .. Len(order) : order[q] = b /\ \E p \in 1 .. q - 1 : order[p] = a

(* Every transaction passes its lock point at most once, before it checks. *)
OrderInv ==
  /\ \A p, q \in 1 .. Len(order) : order[p] = order[q] => p = q
  /\ \A p \in 1 .. Len(order) :
       order[p][1] \in Thread /\ order[p][2] <= txn[order[p][1]]
  /\ \A t \in Thread :
       /\ Ordered(Me(t)) => pc[t] \in {"idle", "check", "unlock"} \cup Installing
       /\ pc[t] \in {"check"} \cup Installing => Ordered(Me(t))

(* Values are installed in the order of the lock points.                   *)
LogInv ==
  \A i \in Item : \A q \in 1 .. Len(log[i]) :
    /\ Ordered(log[i][q][1])
    /\ \A p \in 1 .. q - 1 : Before(log[i][p][1], log[i][q][1])
    /\ \A t \in Thread : i \in lset[t] /\ Ordered(Me(t)) =>
         Before(log[i][q][1], Me(t))

(* a read p, and nobody before a in the order can replace it any more.     *)
Settled(a, p) ==
  /\ p[2] = InitialToken \/ Before(p[2], a)
  /\ \A e \in Range(log[p[1]]) :
       InstalledAfter(p[1], p[2], e[1]) /\ e[1] # a => Before(a, e[1])
  /\ \A u \in Thread :
       p[1] \in lset[u] /\ Ordered(Me(u)) /\ Me(u) # a => Before(a, Me(u))

SettledInv ==
  /\ \A t \in Thread :
       /\ \A p \in seen[t] :
            /\ p[2] = InitialToken \/ Ordered(p[2])
            /\ pc[t] = "check" => p[2] = InitialToken \/ Before(p[2], Me(t))
            /\ pc[t] = "check" /\ (\E j \in 1 .. k[t] - 1 : tset[t][j] = p[1]) =>
                 Settled(Me(t), p)
       /\ res[t] = InitialToken \/ Ordered(res[t])
  /\ \A h \in hist : h.validated =>
       Ordered(h.by) /\ \A p \in h.reads : Settled(h.by, p)

(* The order of the lock points of try_commit is a serial order: installs  *)
(* follow it, and what a validated transaction read nobody before it in    *)
(* the order replaces any more.                                            *)
SerialInv ==
  ReadsGrowing => OrderInv /\ LogInv /\ SettledInv

-----------------------------------------------------------------------------
(* The snapshot of a running transaction (module TransactionOpacityProofs) *)

(* No version below start_tid_ has replaced version tid of i, or will.     *)
Untouched(t, i, tid) ==
  /\ \A e \in Range(log[i]) : e[2] <= tid \/ e[2] >= start_tid[t]
  /\ \A u \in Thread :
       i \in lset[u] /\ pc[u] \in Installing /\ commit_tid[u] # 0 =>
         commit_tid[u] >= start_tid[t]

SnapshotOf(t) ==
  /\ start_tid[t] <= TID
  /\ state[t] \in {"in_progress", "opacity_check"} =>
       \A i \in rset[t] \cap Opaque : rdata[t][i].tid < start_tid[t]
  /\ state[t] = "in_progress" =>
       \A i \in rset[t] \cap Opaque :
         i # anchor[t] => Untouched(t, i, rdata[t][i].tid)
  /\ pc[t] = "tco" => Untouched(t, cur[t], obs[t].tid)
  /\ pc[t] = "hco" =>
       /\ anchor[t] = cur[t] /\ obs[t].tid < start_tid[t]
       /\ \A j \in 1 .. k[t] - 1 :
            tset[t][j] \in (rset[t] \cap Opaque) \ {cur[t]} =>
              Untouched(t, tset[t][j], rdata[t][tset[t][j]].tid)

(* What start_tid_ says of each read at every point of check_opacity and   *)
(* hard_check_opacity, with commit tids taken and not yet installed.       *)
SnapshotInv == \A t \in Thread : SnapshotOf(t)

=============================================================================
