---------------------- MODULE TransactionOpacityProofs ----------------------
(* Proofs about Transaction.tla: what check_opacity gives a transaction    *)
(* that is still running.                                                  *)
EXTENDS TransactionReadProofs

(* A snapshot stays one: who replaces a version from now on draws its      *)
(* commit tid from _TID, which start_tid_ was taken from earlier.          *)
LEMMA UntouchedStays ==
  ASSUME IInv, IInv', NEW w \in Thread, UserStep(w) \/ LibraryStep(w),
         NEW t \in Thread, start_tid[t] <= TID, start_tid'[t] = start_tid[t],
         NEW i \in Opaque, NEW tid, Untouched(t, i, tid)
  PROVE  Untouched(t, i, tid)'
<1>a. /\ TypeOK /\ CallType /\ TidType /\ SetType /\ HistoryType /\ ControlInv(w)
      /\ i \in Item /\ TID \in Nat
  BY ItemAssumption DEF IInv, TypeOK, MemoryType
<1>1. ASSUME NEW e \in Range(log'[i])
      PROVE  e[2] <= tid \/ e[2] >= start_tid[t]
  <2>1. CASE log'[i] = log[i]
    BY <2>1 DEF Untouched
  <2>2. CASE InstallVersion(w) /\ StoresVersion(w, i)
    <3>1. i \in lset[w] /\ pc[w] \in Installing
      BY <1>a, <2>2, StoringLocked DEF StoresVersion, Storing, Installing
    <3>2. commit_tid[w] # 0
      BY <1>a, <2>2 DEF InstallVersion, StoresVersion, Storing, ControlInv
    <3>3. InstalledVersion(w, i).tid = commit_tid[w] /\ commit_tid[w] >= start_tid[t]
      BY <1>a, <3>1, <3>2, InstalledVersionType DEF Untouched
    <3>4. log'[i] \in Seq(Token \X Nat) /\ log[i] \in Seq(Token \X Nat)
      BY <1>a DEF IInv, TypeOK, HistoryType
    <3>5. DOMAIN log[i] = 1 .. Len(log[i]) /\ DOMAIN log'[i] = 1 .. Len(log'[i])
      BY <3>4
    <3>6. PICK q \in 1 .. Len(log'[i]) : e = log'[i][q]
      BY <3>5 DEF Range
    <3>7. CASE q \in 1 .. Len(log[i])
      <4>1. e \in Range(log[i])
        BY <1>a, <2>2, <3>5, <3>6, <3>7, LogGrows DEF Range
      <4>2. QED BY <4>1 DEF Untouched
    <3>8. CASE q = Len(log[i]) + 1
      BY <1>a, <2>2, <3>3, <3>6, <3>8, LogGrows
    <3>9. QED BY <1>a, <2>2, <3>6, <3>7, <3>8, LogGrows, LastOrBefore
  <2>3. QED
    <3>1. CASE \E j \in Item : InstallVersion(w) /\ StoresVersion(w, j)
      BY <3>1, <1>a, <2>1, <2>2, LogGrows
    <3>2. QED BY <3>1, <1>a, <2>1, Footprint DEF StoresNothing, StoresValue
<1>2. ASSUME NEW u \in Thread, i \in lset'[u], pc'[u] \in Installing, commit_tid'[u] # 0
      PROVE  commit_tid'[u] >= start_tid[t]
  <2>1. CASE u # w
    BY <1>2, <2>1, <1>a, OtherThreads DEF Untouched
  <2>2. CASE u = w /\ FetchTid(w)
    <3>1. commit_tid'[w] = TID
      BY <2>2, <1>a DEF FetchTid, TidType
    <3>2. QED BY <1>a, <2>2, <3>1 DEF TidType
  <2>3. CASE u = w /\ ~FetchTid(w)
    <3>1. commit_tid' = commit_tid \/ commit_tid'[w] = 0
      BY <2>3, <1>a DEF TidType, UserStep, LibraryStep, tidVars, Start, BeginRead,
       ObserveNonopaque, Write, UserAbort, TryCommit, RetryRead, ReadValue,
       ReadVersion, CheckOpacity, HardCheckTid, HardCheckItem,
       ReadNonopaqueValue, LockSkip, LockLoad, LockCas, CountSpin, CheckItem,
       InstallSkip, InstallValue, InstallVersion, Unlock, UnlockEnds
    <3>2. commit_tid' = commit_tid
      BY <1>2, <2>3, <3>1
    <3>3. pc[w] # "idle"
      BY <1>2, <2>3, <1>a, TxnStep DEF Installing
    <3>4. pc[w] \in Installing
      BY <1>2, <2>3, <3>2, <3>3, <1>a DEF ControlInv
    <3>5. ~LockCas(w)
      BY <3>4 DEF LockCas, Installing
    <3>6. lset'[w] \subseteq lset[w]
      BY <3>5, <1>a DEF SetType, UserStep, LibraryStep, Start, BeginRead,
       ObserveNonopaque, Write, UserAbort, TryCommit, RetryRead, ReadValue,
       ReadVersion, CheckOpacity, HardCheckTid, HardCheckItem,
       ReadNonopaqueValue, LockSkip, LockLoad, CheckItem,
       InstallSkip, InstallValue, FetchTid, InstallVersion, Unlock, UnlockEnds
    <3>7. QED BY <1>2, <2>3, <3>2, <3>4, <3>6 DEF Untouched
  <2>4. QED BY <2>1, <2>2, <2>3
<1>3. QED BY <1>1, <1>2 DEF Untouched

(* The version in an unlocked word has not been replaced, nor is anybody   *)
(* about to.                                                               *)
LEMMA UnlockedUntouched ==
  ASSUME IInv, NEW t \in Thread, NEW i \in Opaque, ver[i].lock = NoThread
  PROVE  Untouched(t, i, ver[i].tid)
<1>1. i \in Item /\ log[i] \in Seq(Token \X Nat)
  BY ItemAssumption DEF IInv, TypeOK, HistoryType
<1>2. DOMAIN log[i] = 1 .. Len(log[i])
  BY <1>1
<1>3. \A e \in Range(log[i]) : e[2] <= ver[i].tid
  BY <1>2 DEF IInv, TidInv, Range
<1>4. \A u \in Thread : i \notin lset[u]
  BY <1>1, ThreadAssumption DEF IInv, Ownership
<1>5. QED BY <1>3, <1>4 DEF Untouched

(* What the acting thread does not change about its own snapshot.          *)
SnapshotKept(t) ==
  /\ start_tid'[t] = start_tid[t] /\ anchor'[t] = anchor[t]
  /\ rset'[t] \cap Opaque = rset[t] \cap Opaque
  /\ \A i \in rset[t] \cap Opaque : rdata'[t][i] = rdata[t][i]

(* A step that keeps a snapshot and starts no check keeps what is said of  *)
(* it.                                                                     *)
LEMMA SnapshotStays ==
  ASSUME IInv, IInv', NEW w \in Thread, UserStep(w) \/ LibraryStep(w),
         NEW t \in Thread, SnapshotOf(t), SnapshotKept(t)
  PROVE  /\ start_tid'[t] <= TID'
         /\ state'[t] \in {"in_progress", "opacity_check"} /\ state'[t] = state[t] =>
              \A i \in rset'[t] \cap Opaque : rdata'[t][i].tid < start_tid'[t]
         /\ state'[t] = "in_progress" /\ state'[t] = state[t] =>
              \A i \in rset'[t] \cap Opaque :
                i # anchor'[t] => Untouched(t, i, rdata[t][i].tid)'
<1>a. TID \in Nat /\ TID' \in Nat /\ start_tid[t] \in Nat /\ start_tid[t] <= TID
  BY DEF IInv, TypeOK, MemoryType, TidType, SnapshotOf
<1>1. TID <= TID'
  <2>1. CASE FetchTid(w)
    BY <2>1, <1>a DEF FetchTid
  <2>2. CASE ~FetchTid(w)
    <3>1. TID' = TID
      BY <2>2 DEF UserStep, LibraryStep, sharedVars, Start, BeginRead,
       ObserveNonopaque, Write, UserAbort, TryCommit, RetryRead, ReadValue,
       ReadVersion, CheckOpacity, HardCheckTid, HardCheckItem,
       ReadNonopaqueValue, LockSkip, LockLoad, LockCas, CheckItem,
       InstallSkip, InstallValue, InstallVersion, Unlock, UnlockEnds
    <3>2. QED BY <1>a, <3>1
  <2>3. QED BY <2>1, <2>2
<1>2. start_tid'[t] <= TID'
  BY <1>a, <1>1 DEF SnapshotKept
<1>3. state'[t] \in {"in_progress", "opacity_check"} /\ state'[t] = state[t] =>
        \A i \in rset'[t] \cap Opaque : rdata'[t][i].tid < start_tid'[t]
  BY DEF SnapshotOf, SnapshotKept
<1>4. ASSUME state[t] = "in_progress", NEW i \in rset'[t] \cap Opaque, i # anchor'[t]
      PROVE  Untouched(t, i, rdata[t][i].tid)'
  <2>1. PICK tid \in {rdata[t][i].tid} : TRUE
    OBVIOUS
  <2>2. Untouched(t, i, tid)
    BY <1>4, <2>1 DEF SnapshotOf, SnapshotKept
  <2>3. Untouched(t, i, tid)'
    BY <1>a, <2>2, UntouchedStays DEF SnapshotKept
  <2>4. rdata'[t][i].tid = tid
    BY <2>1 DEF SnapshotKept
  <2>5. QED BY <2>3, <2>4 DEF Untouched
<1>5. QED BY <1>2, <1>3, <1>4

(* Every step of a transaction keeps its own snapshot.                     *)
LEMMA SnapshotStep ==
  ASSUME IInv, IInv', ReadsInv, NEW t \in Thread, UserStep(t) \/ LibraryStep(t),
         SnapshotOf(t)
  PROVE  SnapshotOf(t)'
<1>a. /\ TypeOK /\ CallType /\ TidType /\ SetType /\ HistoryType /\ MemoryType
      /\ ControlInv(t) /\ SetInv(t) /\ ReadSetInv(t) /\ ReadCallInv(t)
      /\ Opaque \subseteq Item /\ Opaque \subseteq Growing
  BY ItemAssumption DEF IInv, TypeOK, ReadsInv, Growing
<1>b. /\ TID \in Nat /\ start_tid[t] \in Nat /\ obs[t].tid \in Nat /\ k[t] \in Nat
      /\ \A i \in Item : ver[i].tid \in Nat /\ rdata[t][i].tid \in Nat
      /\ tset[t] \in Seq(Item) /\ Len(tset[t]) \in Nat
  BY <1>a DEF MemoryType, TidType, CallType, SetType, Version
<1>c. pc[t] \in Reading => cur[t] \in Opaque /\ cur[t] \in Item
  BY <1>a DEF ControlInv
<1>n. \A i \in Opaque : ver[i].tid < TID
  BY DEF IInv, TidInv
<1>1. CASE Start(t)
  <2>1. start_tid'[t] = 0 /\ rset'[t] = {} /\ pc'[t] = "run" /\ TID' = TID
    BY <1>1, <1>a DEF Start, TidType, SetType, CallType, Goto, sharedVars
  <2>2. QED BY <1>b, <2>1 DEF SnapshotOf
<1>2. CASE CheckOpacity(t)
  <2>1. /\ pc[t] = "tco" /\ start_tid'[t] = StartTid(t) /\ TID' = TID
        /\ anchor'[t] = (IF start_tid[t] = 0 THEN cur[t] ELSE anchor[t])
        /\ UNCHANGED <<ver, log>> /\ state[t] = "in_progress"
    BY <1>2, <1>a DEF CheckOpacity, TidType, HistoryType, sharedVars, ControlInv
  <2>2. start_tid'[t] <= TID' /\ start_tid'[t] \in Nat
    BY <1>b, <2>1 DEF StartTid, SnapshotOf
  <2>3. start_tid[t] = 0 => rset[t] \cap Opaque = {}
    BY <1>a, <1>b, <2>1 DEF SnapshotOf
  <2>4. ASSUME NEW i \in rset[t] \cap Opaque
        PROVE  /\ start_tid'[t] = start_tid[t] /\ anchor'[t] = anchor[t]
               /\ rdata[t][i].tid < start_tid'[t]
               /\ \A tid : tid = rdata[t][i].tid /\ i # anchor[t] => Untouched(t, i, tid)'
    <3>1. start_tid'[t] = start_tid[t] /\ anchor'[t] = anchor[t]
      BY <2>1, <2>3 DEF StartTid
    <3>2. rdata[t][i].tid < start_tid[t] /\ start_tid[t] <= TID
      BY <2>1 DEF SnapshotOf
    <3>3. ASSUME NEW tid, tid = rdata[t][i].tid, i # anchor[t]
          PROVE  Untouched(t, i, tid)'
      <4>1. Untouched(t, i, tid)
        BY <2>1, <3>3 DEF SnapshotOf
      <4>2. QED BY <3>1, <3>2, <4>1, UntouchedStays
    <3>4. QED BY <3>1, <3>2, <3>3
  <2>5. CASE ~SameVersionRead(t) /\ Goto(t, "hco_tid") /\ UNCHANGED <<rset, rdata>>
             /\ state' = [state EXCEPT ![t] = "opacity_check"]
    <3>1. pc'[t] = "hco_tid" /\ state'[t] = "opacity_check"
      BY <2>5, <1>a DEF Goto, CallType
    <3>2. QED BY <2>2, <2>4, <2>5, <3>1 DEF SnapshotOf
  <2>6. CASE /\ try_check_opacity(StartTid(t), obs[t]) \/ SameVersionRead(t)
             /\ AddRead(t) /\ Goto(t, "run") /\ UNCHANGED state
    <3>0. PICK i \in Opaque : i = cur[t] /\ i \in Item
      BY <1>c, <2>1 DEF Reading
    <3>1. /\ pc'[t] = "run" /\ rset'[t] = rset[t] \cup {i}
          /\ rdata'[t][i] = (IF i \in rset[t] THEN rdata[t][i] ELSE obs[t])
          /\ \A j \in Item : j # i => rdata'[t][j] = rdata[t][j]
      BY <2>6, <1>a, <3>0 DEF Goto, CallType, AddRead, SetType
    <3>2. \A j \in rset[t] : rdata'[t][j] = rdata[t][j]
      BY <1>a, <3>1 DEF SetType
    <3>3. i \notin rset[t] => obs[t].tid < start_tid'[t]
      BY <1>b, <2>1, <2>6, <3>0 DEF SameVersionRead, try_check_opacity, StartTid
    <3>4. i \notin rset[t] /\ i # anchor'[t] =>
            \A tid : tid = obs[t].tid => Untouched(t, i, tid)'
      <4> SUFFICES ASSUME i # anchor'[t], NEW tid, tid = obs[t].tid PROVE Untouched(t, i, tid)'
        OBVIOUS
      <4>1. start_tid'[t] = start_tid[t]
        BY <2>1, <3>0 DEF StartTid
      <4>2. Untouched(t, i, tid) /\ start_tid[t] <= TID
        BY <2>1, <3>0 DEF SnapshotOf
      <4>3. QED BY <4>1, <4>2, UntouchedStays
    <3>5. ASSUME NEW j \in rset'[t] \cap Opaque
          PROVE  /\ rdata'[t][j].tid < start_tid'[t]
                 /\ j # anchor'[t] => Untouched(t, j, rdata[t][j].tid)'
      <4>1. CASE j \in rset[t]
        <5>1. rdata'[t][j] = rdata[t][j]
          BY <3>2, <4>1
        <5>2. PICK tid \in {rdata[t][j].tid} : TRUE
          OBVIOUS
        <5>3. j # anchor'[t] => Untouched(t, j, tid)'
          BY <2>4, <4>1, <5>2
        <5>4. QED BY <2>4, <4>1, <5>1, <5>2, <5>3 DEF Untouched
      <4>2. CASE j = i /\ i \notin rset[t]
        <5>1. PICK tid \in {obs[t].tid} : TRUE
          OBVIOUS
        <5>2. rdata'[t][j].tid = tid
          BY <3>1, <4>2, <5>1
        <5>3. j # anchor'[t] => Untouched(t, j, tid)'
          BY <3>4, <4>2, <5>1
        <5>4. QED BY <3>3, <4>2, <5>1, <5>2, <5>3 DEF Untouched
      <4>3. QED BY <3>1, <4>1, <4>2
    <3>6. QED BY <2>2, <3>1, <3>5 DEF SnapshotOf
  <2>7. QED BY <1>2, <2>5, <2>6 DEF CheckOpacity
<1>3. CASE HardCheckTid(t)
  <2>1. /\ start_tid'[t] = TID /\ anchor'[t] = cur[t] /\ k'[t] = 1 /\ pc'[t] = "hco"
        /\ TID' = TID /\ UNCHANGED <<rset, rdata, obs, cur, state>>
        /\ pc[t] = "hco_tid" /\ state[t] = "opacity_check"
    BY <1>3, <1>a DEF HardCheckTid, TidType, HistoryType, CallType, Goto, sharedVars,
       setVars, readVars, ControlInv
  <2>2. \A i \in rset[t] \cap Opaque : rdata[t][i].tid < TID
    BY <1>a, <1>b, <1>n DEF ReadSetInv
  <2>3. obs[t].tid < TID
    BY <1>b, <1>c, <1>n, <1>a, <2>1 DEF ReadCallInv, Reading
  <2>4. QED BY <1>b, <2>1, <2>2, <2>3 DEF SnapshotOf
<1>4. CASE HardCheckItem(t)
  <2>1. /\ pc[t] = "hco" /\ state[t] = "opacity_check" /\ TID' = TID
        /\ start_tid' = start_tid /\ anchor' = anchor /\ tset' = tset
        /\ UNCHANGED <<ver, log, lset>>
    BY <1>4, <1>a DEF HardCheckItem, sharedVars, tidVars, ControlInv
  <2>i. PICK c \in Opaque : c = cur[t] /\ c \in Item
    BY <1>c, <2>1 DEF Reading
  <2>2. /\ anchor[t] = c /\ obs[t].tid < start_tid[t] /\ start_tid[t] <= TID
        /\ \A i \in rset[t] \cap Opaque : rdata[t][i].tid < start_tid[t]
    BY <2>1, <2>i DEF SnapshotOf
  <2>3. CASE Stopped(t, FALSE)
    <3>1. pc'[t] = "idle" /\ state'[t] = "aborted"
      BY <2>3, <1>a DEF Stopped, Goto, CallType
    <3>2. QED BY <1>b, <2>1, <2>2, <3>1 DEF SnapshotOf
  <2>4. ASSUME ItemChecks(t), NEW j \in 1 .. k[t], NEW i, i = tset[t][j],
               i \in (rset[t] \cap Opaque) \ {c}
        PROVE  \A tid : tid = rdata[t][i].tid => Untouched(t, i, tid)'
    <3> SUFFICES ASSUME NEW tid, tid = rdata[t][i].tid PROVE Untouched(t, i, tid)'
      OBVIOUS
    <3>1. CASE j \in 1 .. k[t] - 1
      <4>1. Untouched(t, i, tid)
        BY <2>1, <2>i, <2>4, <3>1 DEF SnapshotOf
      <4>2. QED BY <2>1, <2>2, <2>4, <4>1, UntouchedStays
    <3>2. CASE j = k[t]
      <4>1. check_version(ver[i], rdata[t][i], t)
        BY <2>4, <3>2 DEF ItemChecks
      <4>2. rdata[t][i].tid = ver[i].tid /\ ver[i].lock \in {NoThread, t}
        BY <1>a, <2>1, <2>4, <4>1, CheckedNotOutdated DEF Installing
      <4>3. ~is_locked_elsewhere(ver[i], t)
        BY <4>2 DEF is_locked_elsewhere
      <4>4. ver[i].lock = NoThread
        BY <1>a, <2>1, <2>4, <4>3, NotLocked DEF Reading
      <4>5. Untouched(t, i, tid)
        BY <2>4, <4>2, <4>4, UnlockedUntouched
      <4>6. QED BY <2>1, <2>2, <2>4, <4>5, UntouchedStays
    <3>3. QED BY <1>b, <2>4, <3>1, <3>2
  <2>5. CASE /\ ItemChecks(t) /\ k' = [k EXCEPT ![t] = @ + 1]
             /\ UNCHANGED <<state, rset, rdata, pc, readVars>>
    <3>1. k'[t] = k[t] + 1 /\ state'[t] = "opacity_check" /\ cur' = cur /\ obs' = obs
      BY <1>a, <2>1, <2>5 DEF CallType, readVars
    <3>2. ASSUME NEW j \in 1 .. k'[t] - 1, tset'[t][j] \in (rset'[t] \cap Opaque) \ {cur'[t]}
          PROVE  Untouched(t, tset[t][j], rdata[t][tset[t][j]].tid)'
      <4>1. PICK i \in {tset[t][j]} : TRUE
        OBVIOUS
      <4>2. PICK tid \in {rdata[t][i].tid} : TRUE
        OBVIOUS
      <4>3. j \in 1 .. k[t] /\ i \in (rset[t] \cap Opaque) \ {c}
        BY <1>b, <2>1, <2>5, <2>i, <3>1, <3>2, <4>1
      <4>4. Untouched(t, i, tid)'
        BY <2>4, <2>5, <4>1, <4>2, <4>3
      <4>5. QED BY <2>1, <2>5, <4>1, <4>2, <4>4 DEF Untouched
    <3>3. QED BY <1>b, <2>1, <2>2, <2>5, <2>i, <3>1, <3>2 DEF SnapshotOf
  <2>6. CASE /\ ItemChecks(t) /\ k[t] = Len(tset[t]) /\ AddRead(t)
             /\ state' = [state EXCEPT ![t] = "in_progress"] /\ Goto(t, "run")
    <3>1. /\ pc'[t] = "run" /\ rset'[t] = rset[t] \cup {c}
          /\ rdata'[t][c] = (IF c \in rset[t] THEN rdata[t][c] ELSE obs[t])
          /\ \A j \in Item : j # c => rdata'[t][j] = rdata[t][j]
      BY <2>6, <1>a, <2>i DEF Goto, CallType, AddRead, SetType
    <3>2. ASSUME NEW i \in rset'[t] \cap Opaque
          PROVE  /\ rdata'[t][i].tid < start_tid'[t]
                 /\ i # anchor'[t] => Untouched(t, i, rdata[t][i].tid)'
      <4>1. CASE i = c
        BY <2>1, <2>2, <3>1, <4>1
      <4>2. CASE i # c
        <5>1. i \in rset[t] /\ i \in Item /\ rdata'[t][i] = rdata[t][i]
          BY <1>a, <3>1, <4>2
        <5>2. PICK j \in 1 .. Len(tset[t]) : tset[t][j] = i
          BY <1>a, <5>1 DEF SetInv
        <5>3. PICK tid \in {rdata[t][i].tid} : TRUE
          OBVIOUS
        <5>4. Untouched(t, i, tid)'
          BY <2>4, <2>6, <4>2, <5>1, <5>2, <5>3
        <5>5. QED BY <2>1, <2>2, <5>1, <5>3, <5>4 DEF Untouched
      <4>3. QED BY <4>1, <4>2
    <3>3. QED BY <1>b, <2>1, <2>2, <3>1, <3>2 DEF SnapshotOf
  <2>7. QED BY <1>4, <2>3, <2>5, <2>6 DEF HardCheckItem
<1>5. CASE ReadVersion(t) /\ Goto(t, "tco")
  <2>1. PICK i \in Opaque : i = cur[t] /\ i \in Item
    BY <1>5, <1>c DEF ReadVersion, Reading
  <2>2. pc'[t] = "tco" /\ pc[t] = "rd_v1" /\ SnapshotKept(t) /\ state[t] = "in_progress"
    BY <1>5, <1>a DEF ReadVersion, Goto, CallType, SnapshotKept, setVars, tidVars,
       histVars, ControlInv
  <2>3. ~Stopped(t, FALSE) /\ ~Goto(t, "rd_v0")
    BY <1>a, <2>2 DEF Stopped, Goto, CallType
  <2>4. /\ ~is_locked_elsewhere(ver[i], t) /\ obs' = [obs EXCEPT ![t] = ver[i]]
        /\ UNCHANGED <<state, cur>>
    BY <1>5, <2>1, <2>3 DEF ReadVersion
  <2>5. ver[i].lock = NoThread
    BY <2>1, <2>2, <2>4, NotLocked DEF Reading
  <2>6. PICK tid \in {ver[i].tid} : TRUE
    OBVIOUS
  <2>7. Untouched(t, i, tid)
    BY <2>5, <2>6, UnlockedUntouched
  <2>8. Untouched(t, i, tid)'
    BY <2>2, <2>7, UntouchedStays DEF SnapshotOf, SnapshotKept
  <2>9. obs'[t].tid = tid /\ cur'[t] = i
    BY <1>a, <2>1, <2>4, <2>6 DEF CallType
  <2>10. Untouched(t, cur[t], obs[t].tid)'
    BY <2>8, <2>9 DEF Untouched
  <2>11. QED BY <2>2, <2>4, <2>10, SnapshotStays DEF SnapshotOf
<1>6. CASE ~(\/ Start(t) \/ CheckOpacity(t) \/ HardCheckTid(t) \/ HardCheckItem(t)
             \/ ReadVersion(t) /\ Goto(t, "tco"))
  <2>1. pc'[t] \notin {"tco", "hco"}
    BY <1>6, <1>a DEF CallType, Goto, UserStep, LibraryStep, BeginRead,
     ObserveNonopaque, Write, UserAbort, TryCommit, RetryRead, ReadValue,
     ReadVersion, ReadNonopaqueValue, LockSkip, LockLoad, LockCas, CheckItem,
     NextToLock, NextToInstall, AbortLocked, Stopped,
     InstallSkip, InstallValue, FetchTid, InstallVersion, Unlock, UnlockEnds
  <2>2. state'[t] \notin {"in_progress", "opacity_check"} \/ state'[t] = state[t]
    BY <1>6, <1>a DEF CallType, UserStep, LibraryStep, BeginRead,
     ObserveNonopaque, Write, UserAbort, TryCommit, RetryRead, ReadValue,
     ReadVersion, ReadNonopaqueValue, LockSkip, LockLoad, LockCas, CheckItem,
     NextToInstall, Stopped,
     InstallSkip, InstallValue, FetchTid, InstallVersion, Unlock, UnlockEnds
  <2>3. SnapshotKept(t)
    <3>1. CASE \E i \in Item : ObserveNonopaque(t, i)
      <4>1. PICK i \in Item : ObserveNonopaque(t, i)
        BY <3>1
      <4>2. /\ i \notin Opaque /\ UNCHANGED <<start_tid, anchor>>
            /\ rset' = rset \/ rset' = [rset EXCEPT ![t] = @ \cup {i}]
            /\ rdata' = rdata
                 \/ rdata' = [rdata EXCEPT ![t][i] = IF i \in rset[t] THEN @ ELSE ver[i]]
        BY <4>1 DEF ObserveNonopaque, tidVars, histVars
      <4>3. QED BY <1>a, <4>2 DEF SetType, SnapshotKept
    <3>2. CASE UNCHANGED <<start_tid, anchor, rset, rdata>>
      BY <3>2 DEF SnapshotKept
    <3>3. QED
      BY <1>6, <3>1, <3>2 DEF UserStep, LibraryStep, tidVars, histVars, setVars, BeginRead,
       Write, UserAbort, TryCommit, RetryRead, ReadValue,
       ReadVersion, ReadNonopaqueValue, LockSkip, LockLoad, LockCas, CheckItem,
       InstallSkip, InstallValue, FetchTid, InstallVersion, Unlock, UnlockEnds
  <2>4. QED BY <2>1, <2>2, <2>3, SnapshotStays DEF SnapshotOf
<1>7. QED BY <1>1, <1>2, <1>3, <1>4, <1>5, <1>6

(* Initially nobody has read anything.                                     *)
LEMMA SnapshotInvInit == Init => SnapshotInv
<1> SUFFICES ASSUME Init, NEW t \in Thread PROVE SnapshotOf(t)
  BY DEF SnapshotInv
<1>1. /\ start_tid[t] = 0 /\ TID \in Nat /\ pc[t] = "idle" /\ state[t] = "aborted"
  BY DEF Init, FirstTid
<1>2. QED BY <1>1 DEF SnapshotOf

(* Every step of every thread keeps everybody's snapshot.                  *)
LEMMA SnapshotInvStep ==
  ASSUME IInv, IInv', ReadsInv, SnapshotInv, [Next]_vars
  PROVE  SnapshotInv'
<1>1. CASE \E t \in Thread : UserStep(t) \/ LibraryStep(t)
  <2> PICK t \in Thread : UserStep(t) \/ LibraryStep(t)
    BY <1>1
  <2>1. SnapshotOf(t)'
    BY SnapshotStep DEF SnapshotInv
  <2>2. ASSUME NEW u \in Thread, u # t PROVE SnapshotOf(u)'
    <3>1. /\ pc'[u] = pc[u] /\ k'[u] = k[u] /\ cur'[u] = cur[u] /\ tset'[u] = tset[u]
          /\ rset'[u] = rset[u] /\ rdata'[u] = rdata[u] /\ state'[u] = state[u]
          /\ obs'[u] = obs[u] /\ start_tid'[u] = start_tid[u] /\ anchor'[u] = anchor[u]
      BY <2>2, OtherThreads, OtherReads DEF IInv
    <3>2. SnapshotOf(u) /\ SnapshotKept(u) /\ start_tid[u] <= TID
      BY <3>1 DEF SnapshotInv, SnapshotOf, SnapshotKept
    <3>3. pc[u] = "tco" => Untouched(u, cur[u], obs[u].tid)'
      <4> SUFFICES ASSUME pc[u] = "tco" PROVE Untouched(u, cur[u], obs[u].tid)'
        OBVIOUS
      <4>1. PICK i \in Opaque : i = cur[u]
        BY DEF IInv, ControlInv, Reading
      <4>2. PICK tid \in {obs[u].tid} : TRUE
        OBVIOUS
      <4>3. Untouched(u, i, tid)'
        BY <3>1, <3>2, <4>1, <4>2, UntouchedStays DEF SnapshotOf
      <4>4. QED BY <3>1, <4>1, <4>2, <4>3 DEF Untouched
    <3>4. ASSUME pc[u] = "hco", NEW j \in 1 .. k[u] - 1,
                 tset[u][j] \in (rset[u] \cap Opaque) \ {cur[u]}
          PROVE  Untouched(u, tset[u][j], rdata[u][tset[u][j]].tid)'
      <4>1. PICK i \in Opaque : i = tset[u][j]
        BY <3>4
      <4>2. PICK tid \in {rdata[u][i].tid} : TRUE
        OBVIOUS
      <4>3. Untouched(u, i, tid)'
        BY <3>1, <3>2, <3>4, <4>1, <4>2, UntouchedStays DEF SnapshotOf
      <4>4. QED BY <3>1, <4>1, <4>2, <4>3 DEF Untouched
    <3>5. pc[u] = "hco" => anchor[u] = cur[u] /\ obs[u].tid < start_tid[u]
      BY <3>2 DEF SnapshotOf
    <3>6. QED BY <3>1, <3>2, <3>3, <3>4, <3>5, SnapshotStays DEF SnapshotOf
  <2>3. QED BY <2>1, <2>2 DEF SnapshotInv
<1>2. CASE UNCHANGED vars
  BY <1>2 DEF vars, sharedVars, setVars, tidVars, readVars, histVars, SnapshotInv,
     SnapshotOf, Untouched
<1>3. QED BY <1>1, <1>2 DEF Next

(* What is said of snapshots holds in every reachable state.               *)
THEOREM SnapshotInductive == Spec => []SnapshotInv
<1>1. Init => SnapshotInv
  BY SnapshotInvInit
<1>2. IInv /\ IInv' /\ ReadsInv /\ SnapshotInv /\ [Next]_vars => SnapshotInv'
  BY SnapshotInvStep
<1>3. QED BY <1>1, <1>2, Inductive, ReadsInductive, PTL DEF Spec

(* A running transaction's opaque reads were all current together just     *)
(* before start_tid_, but for the one observed when start_tid_ was last    *)
(* assigned.                                                               *)
THEOREM RunningSnapshot == Spec => []SnapshotExceptAnchor
<1>1. SnapshotInv => SnapshotExceptAnchor
  BY DEF SnapshotInv, SnapshotOf, Untouched, SnapshotExceptAnchor
<1>2. QED BY <1>1, SnapshotInductive, PTL
============================================================================
