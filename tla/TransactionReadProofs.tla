----------------------- MODULE TransactionReadProofs -----------------------
(* Proofs about what the reads of Transaction.tla return: ReadsInv is      *)
(* inductive relative to IInv.                                             *)
EXTENDS TransactionProofs

(* A step leaves the reads, the records and the registers of other         *)
(* transactions alone.                                                     *)
LEMMA OtherReads ==
  ASSUME TypeOK, NEW t \in Thread, UserStep(t) \/ LibraryStep(t),
         NEW u \in Thread, u # t
  PROVE  /\ txn'[u] = txn[u] /\ rdata'[u] = rdata[u] /\ seen'[u] = seen[u]
         /\ obs'[u] = obs[u] /\ res'[u] = res[u] /\ fresh'[u] = fresh[u]
         /\ start_tid'[u] = start_tid[u] /\ anchor'[u] = anchor[u]
<1>a. SetType /\ TidType /\ CallType /\ HistoryType
  BY DEF TypeOK
<1>1. txn'[u] = txn[u] /\ start_tid'[u] = start_tid[u]
  BY <1>a DEF UserStep, LibraryStep, TidType, tidVars, Start, BeginRead,
     ObserveNonopaque, Write, UserAbort, TryCommit, RetryRead, ReadValue,
     ReadVersion, CheckOpacity, HardCheckTid, HardCheckItem,
     ReadNonopaqueValue, LockSkip, LockLoad, LockCas, CountSpin, CheckItem,
     InstallSkip, InstallValue, FetchTid, InstallVersion, Unlock, UnlockEnds
<1>2. rdata'[u] = rdata[u]
  BY <1>a DEF UserStep, LibraryStep, SetType, setVars, Start, BeginRead,
     ObserveNonopaque, Write, UserAbort, TryCommit, RetryRead, ReadValue,
     ReadVersion, CheckOpacity, HardCheckTid, HardCheckItem, AddRead,
     ReadNonopaqueValue, LockSkip, LockLoad, LockCas, CountSpin, CheckItem,
     InstallSkip, InstallValue, FetchTid, InstallVersion, Unlock, UnlockEnds
<1>3. seen'[u] = seen[u] /\ anchor'[u] = anchor[u]
  BY <1>a DEF UserStep, LibraryStep, HistoryType, histVars, Start, BeginRead,
     ObserveNonopaque, Write, UserAbort, TryCommit, RetryRead, ReadValue,
     ReadVersion, CheckOpacity, HardCheckTid, HardCheckItem, AddRead,
     ReadNonopaqueValue, LockSkip, LockLoad, LockCas, CountSpin, CheckItem,
     InstallSkip, InstallValue, FetchTid, InstallVersion, Unlock, UnlockEnds
<1>4. fresh'[u] = fresh[u]
  BY <1>a DEF UserStep, LibraryStep, HistoryType, histVars, Start, BeginRead,
     ObserveNonopaque, Write, UserAbort, TryCommit, RetryRead, ReadValue,
     ReadVersion, CheckOpacity, HardCheckTid, HardCheckItem, AddRead,
     ReadNonopaqueValue, LockSkip, LockLoad, LockCas, NextToLock, CountSpin,
     CheckItem, InstallSkip, InstallValue, FetchTid, InstallVersion, Unlock,
     UnlockEnds
<1>5. obs'[u] = obs[u] /\ res'[u] = res[u]
  BY <1>a DEF UserStep, LibraryStep, CallType, readVars, Stopped, EndCall, Start,
     BeginRead,
     ObserveNonopaque, Write, UserAbort, TryCommit, RetryRead, ReadValue,
     ReadVersion, CheckOpacity, HardCheckTid, HardCheckItem, AddRead,
     ReadNonopaqueValue, LockSkip, LockLoad, LockCas, CountSpin, CheckItem,
     InstallSkip, InstallValue, FetchTid, InstallVersion, NextToInstall, Unlock,
     UnlockEnds
<1>6. QED BY <1>1, <1>2, <1>3, <1>4, <1>5

(* What a step of t does to values and installed versions: nothing, the    *)
(* first store of TBox::install, or the second.                            *)
StoresNothing ==
  /\ UNCHANGED <<val, log>>
  /\ \A i \in Item : ver'[i].tid = ver[i].tid
  /\ \A u \in Thread, i \in Item :
       /\ Storing(u, i)' <=> Storing(u, i)
       /\ Storing(u, i) => Me(u)' = Me(u)

StoresValue(t, i) ==
  /\ i \in Item /\ i \in lset[t]
  /\ val' = [val EXCEPT ![i] = Me(t)]
  /\ UNCHANGED <<ver, log, txn, lset>>
  /\ \A u \in Thread, j \in Item :
       Storing(u, j)' <=> Storing(u, j) \/ (u = t /\ j = i)
  /\ \A j \in Item : ~Storing(t, j)

StoresVersion(t, i) ==
  /\ i \in Item /\ Storing(t, i)
  /\ ver' = [ver EXCEPT ![i] = InstalledVersion(t, i)]
  /\ log' = [log EXCEPT ![i] = Append(@, <<Me(t), InstalledVersion(t, i).tid>>)]
  /\ UNCHANGED <<val, txn>>
  /\ \A u \in Thread, j \in Item : Storing(u, j)' <=> Storing(u, j) /\ u # t

(* An item between the two stores of install is locked by the installer,   *)
(* so there is only one.                                                   *)
LEMMA StoringLocked ==
  ASSUME IInv, NEW u \in Thread, NEW i \in Item, Storing(u, i)
  PROVE  i \in lset[u] /\ ver[i].lock = u
<1>1. SetType /\ CallType /\ ControlInv(u) /\ LocksInv(u) /\ Ownership
  BY DEF IInv, TypeOK
<1>2. pc[u] \in {"inst_tid", "inst_ver"} /\ i = tset[u][k[u]]
  BY DEF Storing
<1>3. k[u] \in 1 .. Len(tset[u]) /\ i \in wset[u]
  BY <1>1, <1>2 DEF SetType, CallType, ControlInv, Indexing, Installing
<1>4. k[u] >= k[u]
  BY <1>3
<1>5. i \in lset[u]
  BY <1>1, <1>2, <1>3, <1>4 DEF LocksInv, Installing
<1>6. QED BY <1>1, <1>5 DEF Ownership

(* Two threads are never between these stores at the same item.            *)
LEMMA OneStorer ==
  ASSUME IInv, NEW u \in Thread, NEW w \in Thread, NEW i \in Item,
         Storing(u, i), Storing(w, i)
  PROVE  u = w
  BY StoringLocked

(* The three kinds of steps are all there are.                             *)
LEMMA Footprint ==
  ASSUME IInv, IInv', NEW t \in Thread, UserStep(t) \/ LibraryStep(t)
  PROVE  \/ StoresNothing
         \/ \E i \in Item : InstallValue(t) /\ StoresValue(t, i)
         \/ \E i \in Item : InstallVersion(t) /\ StoresVersion(t, i)
<1>a. MemoryType /\ SetType /\ CallType /\ TidType /\ HistoryType
  BY DEF IInv, TypeOK
<1>b. ControlInv(t)
  BY DEF IInv
<1>o. \A u \in Thread : u # t =>
        /\ pc'[u] = pc[u] /\ k'[u] = k[u] /\ tset'[u] = tset[u]
        /\ txn'[u] = txn[u]
  BY OtherThreads, OtherReads DEF IInv
<1>u. ASSUME NEW u \in Thread, u # t, NEW i \in Item
      PROVE  (Storing(u, i)' <=> Storing(u, i)) /\ Me(u)' = Me(u)
  BY <1>o, <1>u DEF Storing, Me
<1>1. CASE InstallValue(t)
  <2> DEFINE i == tset[t][k[t]]
  <2>1. /\ i \in wset[t] /\ val' = [val EXCEPT ![i] = Me(t)]
        /\ UNCHANGED <<ver, log, txn, lset, tset, k>> /\ pc[t] = "inst_val"
    BY <1>1 DEF InstallValue, histVars, setVars
  <2>2. pc'[t] \in {"inst_tid", "inst_ver"}
    BY <1>1, <1>a DEF InstallValue, Goto, CallType
  <2>3. i \in Item
    BY <2>1, <1>a DEF SetType
  <2>4. Storing(t, i)' /\ \A j \in Item : ~Storing(t, j) /\ (Storing(t, j)' => j = i)
    BY <2>1, <2>2 DEF Storing
  <2>5. i \in lset[t]
    BY <2>3, <2>4, <2>1 DEF IInv, LocksInv, SetInv, Installing, ControlInv,
       Indexing, TypeOK, SetType, CallType
  <2>6. StoresValue(t, i)
    BY <1>u, <2>1, <2>3, <2>4, <2>5 DEF StoresValue
  <2>7. QED BY <1>1, <2>3, <2>6
<1>2. CASE InstallVersion(t)
  <2> DEFINE i == tset[t][k[t]]
  <2>1. /\ pc[t] = "inst_ver"
        /\ ver' = [ver EXCEPT ![i] = InstalledVersion(t, i)]
        /\ log' = [log EXCEPT ![i] = Append(@, <<Me(t), InstalledVersion(t, i).tid>>)]
        /\ UNCHANGED <<val, txn>>
    BY <1>2 DEF InstallVersion
  <2>2. i \in Item
    BY <2>1, <1>a, <1>b DEF SetType, CallType, ControlInv, Indexing, Installing
  <2>3. pc'[t] \in {"inst_val", "idle"}
    BY <1>2, <1>a DEF InstallVersion, NextToInstall, Stopped, Goto, CallType
  <2>4. Storing(t, i) /\ \A j \in Item : ~Storing(t, j)'
    BY <2>1, <2>3 DEF Storing
  <2>5. StoresVersion(t, i)
    BY <1>u, <2>1, <2>2, <2>4 DEF StoresVersion
  <2>6. QED BY <1>2, <2>2, <2>5
<1>3. CASE FetchTid(t)
  <2>1. /\ pc[t] = "inst_tid" /\ UNCHANGED <<ver, val, log, tset, k, txn>>
        /\ pc'[t] = "inst_ver"
    BY <1>3, <1>a DEF FetchTid, Goto, CallType, histVars, setVars
  <2>2. \A i \in Item : (Storing(t, i)' <=> Storing(t, i)) /\ Me(t)' = Me(t)
    BY <2>1 DEF Storing, Me
  <2>3. QED BY <1>u, <2>1, <2>2 DEF StoresNothing
<1>4. CASE ~(InstallValue(t) \/ InstallVersion(t) \/ FetchTid(t))
  <2>1. UNCHANGED <<val, log>>
    BY <1>4 DEF UserStep, LibraryStep, sharedVars, histVars, Start, BeginRead,
     ObserveNonopaque, Write, UserAbort, TryCommit, RetryRead, ReadValue,
     ReadVersion, CheckOpacity, HardCheckTid, HardCheckItem,
     ReadNonopaqueValue, LockSkip, LockLoad, LockCas, CountSpin, CheckItem,
     InstallSkip, Unlock, UnlockEnds
  <2>2. pc[t] \notin {"inst_tid", "inst_ver"}
    BY <1>4 DEF UserStep, LibraryStep, Start, BeginRead,
     ObserveNonopaque, Write, UserAbort, TryCommit, RetryRead, ReadValue,
     ReadVersion, CheckOpacity, HardCheckTid, HardCheckItem,
     ReadNonopaqueValue, LockSkip, LockLoad, LockCas, CountSpin, CheckItem,
     InstallSkip, Unlock, UnlockEnds
  <2>3. pc'[t] \notin {"inst_tid", "inst_ver"}
    BY <1>4, <1>a, <2>2 DEF UserStep, LibraryStep, CallType, Goto, Stopped,
     NextToLock, AbortLocked, NextToInstall, Start, BeginRead,
     ObserveNonopaque, Write, UserAbort, TryCommit, RetryRead, ReadValue,
     ReadVersion, CheckOpacity, HardCheckTid, HardCheckItem,
     ReadNonopaqueValue, LockSkip, LockLoad, LockCas, CountSpin, CheckItem,
     InstallSkip, Unlock, UnlockEnds
  <2>4. \A i \in Item : ver'[i].tid = ver[i].tid
    <3>1. CASE LockCas(t) /\ ver' # ver
      <4> PICK i \in Item :
             /\ ver' = [ver EXCEPT ![i] = locked(obs[t], t)]
             /\ obs[t] \in Version /\ obs[t].tid = ver[i].tid
        BY <3>1, LockCasWord
      <4>1. locked(obs[t], t).tid = ver[i].tid
        BY LockedWord
      <4>2. QED BY <1>a, <4>1 DEF MemoryType
    <3>2. CASE Unlock(t) /\ ver' # ver
      <4> PICK i \in Item : ver' = [ver EXCEPT ![i] = unlocked(ver[i])]
        BY <3>2, UnlockWord
      <4>1. unlocked(ver[i]).tid = ver[i].tid
        BY <1>a, LockedWord DEF unlocked, MemoryType
      <4>2. QED BY <1>a, <4>1 DEF MemoryType
    <3>3. CASE ver' = ver
      BY <3>3
    <3>4. Start(t) => ver' = ver
      BY DEF Start, sharedVars
    <3>5. QED
      BY <1>4, <3>1, <3>2, <3>3, <3>4, NeutralStep DEF UserStep, LibraryStep, Neutral
  <2>5. QED BY <1>u, <2>1, <2>2, <2>3, <2>4 DEF StoresNothing, Storing
<1>5. QED BY <1>1, <1>2, <1>3, <1>4

(* What ReadsInv says of the log after the second store of install: one    *)
(* more entry, of the version just installed.                              *)
LEMMA LogGrows ==
  ASSUME IInv, NEW t \in Thread, NEW i \in Item, StoresVersion(t, i)
  PROVE  /\ Len(log[i]) \in Nat /\ Len(log'[i]) = Len(log[i]) + 1
         /\ \A q \in 1 .. Len(log[i]) : log'[i][q] = log[i][q]
         /\ log'[i][Len(log[i]) + 1] = <<Me(t), InstalledVersion(t, i).tid>>
         /\ ver'[i] = InstalledVersion(t, i)
         /\ \A j \in Item : j # i => log'[j] = log[j] /\ ver'[j] = ver[j]
<1>1. log \in [Item -> Seq(Token \X Nat)] /\ ver \in [Item -> Version]
  BY DEF IInv, TypeOK, HistoryType, MemoryType
<1>2. log'[i] = Append(log[i], <<Me(t), InstalledVersion(t, i).tid>>)
  BY <1>1 DEF StoresVersion
<1>3. log[i] \in Seq(Token \X Nat)
  BY <1>1
<1>4. Len(log[i]) \in Nat
  BY <1>3
<1>5. QED BY <1>1, <1>2, <1>3, <1>4 DEF StoresVersion

(* The <<value, tid>> pairs an item has had, one by one                    *)
LEMMA InstalledPairs ==
  ASSUME IInv, NEW i \in Item, NEW e
  PROVE  e \in Installed(i) <=>
           e = <<InitialToken, 0>> \/ \E q \in 1 .. Len(log[i]) : e = log[i][q]
<1>1. log[i] \in Seq(Token \X Nat)
  BY DEF IInv, TypeOK, HistoryType
<1>2. DOMAIN log[i] = 1 .. Len(log[i])
  BY <1>1
<1>3. QED BY <1>2 DEF Installed, Range

(* The history of an item is never rewritten.                              *)
LEMMA InstalledStays ==
  ASSUME IInv, IInv', NEW t \in Thread, UserStep(t) \/ LibraryStep(t),
         NEW i \in Item
  PROVE  Installed(i) \subseteq Installed(i)'
<1>1. CASE log'[i] = log[i]
  BY <1>1 DEF Installed, Range
<1>2. CASE StoresVersion(t, i)
  <2>1. log[i] \in Seq(Token \X Nat) /\ log'[i] \in Seq(Token \X Nat)
    BY DEF IInv, TypeOK, HistoryType
  <2>2. DOMAIN log[i] = 1 .. Len(log[i]) /\ DOMAIN log'[i] = 1 .. Len(log'[i])
    BY <2>1
  <2>3. \A q \in 1 .. Len(log[i]) : q \in 1 .. Len(log'[i]) /\ log'[i][q] = log[i][q]
    BY <1>2, LogGrows
  <2>4. QED BY <2>2, <2>3 DEF Installed, Range
<1>3. QED
  <2>1. CASE StoresNothing
    BY <2>1, <1>1 DEF StoresNothing
  <2>2. CASE \E j \in Item : StoresValue(t, j)
    BY <2>2, <1>1 DEF StoresValue
  <2>3. CASE \E j \in Item : StoresVersion(t, j)
    BY <2>3, <1>1, <1>2, LogGrows
  <2>4. QED BY <2>1, <2>2, <2>3, Footprint

(* Stores of values and of versions keep step.                             *)
LEMMA ValueStep ==
  ASSUME IInv, IInv', ValueInv, NEW t \in Thread, UserStep(t) \/ LibraryStep(t)
  PROVE  ValueInv'
<1> SUFFICES ASSUME NEW j \in Item
             PROVE  /\ ver'[j].tid = CurrentTid(j)'
                    /\ \A u \in Thread : Storing(u, j)' => val'[j] = Me(u)'
                    /\ (\A u \in Thread : ~Storing(u, j)') => val'[j] = CurrentValue(j)'
  BY DEF ValueInv
<1>a. val \in [Item -> Token] /\ log \in [Item -> Seq(Token \X Nat)]
  BY DEF IInv, TypeOK, HistoryType, MemoryType
<1>v. /\ ver[j].tid = CurrentTid(j)
      /\ \A u \in Thread : Storing(u, j) => val[j] = Me(u)
      /\ (\A u \in Thread : ~Storing(u, j)) => val[j] = CurrentValue(j)
  BY DEF ValueInv
<1>1. CASE StoresNothing
  BY <1>1, <1>v DEF StoresNothing, CurrentTid, CurrentValue
<1>2. CASE \E i \in Item : StoresValue(t, i)
  <2> PICK i \in Item : StoresValue(t, i)
    BY <1>2
  <2>m. \A u \in Thread : Me(u)' = Me(u)
    BY DEF StoresValue, Me
  <2>0. CurrentTid(j)' = CurrentTid(j) /\ CurrentValue(j)' = CurrentValue(j) /\ ver'[j] = ver[j]
    BY DEF StoresValue, CurrentTid, CurrentValue
  <2>1. CASE j = i
    <3>1. val'[j] = Me(t) /\ Storing(t, j)'
      BY <1>a, <2>1 DEF StoresValue
    <3>2. \A u \in Thread : Storing(u, j)' => u = t
      <4>1. ver[j].lock = t
        BY <2>1 DEF StoresValue, IInv, Ownership
      <4>2. QED BY <2>1, <4>1, StoringLocked DEF StoresValue
    <3>3. QED BY <1>v, <2>0, <2>m, <3>1, <3>2
  <2>2. CASE j # i
    <3>1. val'[j] = val[j] /\ \A u \in Thread : Storing(u, j)' <=> Storing(u, j)
      BY <1>a, <2>2 DEF StoresValue
    <3>2. QED BY <1>v, <2>0, <2>m, <3>1
  <2>3. QED BY <2>1, <2>2
<1>3. CASE \E i \in Item : StoresVersion(t, i)
  <2> PICK i \in Item : StoresVersion(t, i)
    BY <1>3
  <2>m. \A u \in Thread : Me(u)' = Me(u)
    BY DEF StoresVersion, Me
  <2>1. CASE j = i
    <3>1. \A u \in Thread : ~Storing(u, j)'
      BY <2>1, OneStorer DEF StoresVersion
    <3>2. val'[j] = Me(t)
      BY <1>v, <2>1 DEF StoresVersion
    <3>3. /\ log'[j] # <<>>
          /\ log'[j][Len(log'[j])] = <<Me(t), InstalledVersion(t, j).tid>>
          /\ ver'[j] = InstalledVersion(t, j)
      BY <2>1, LogGrows
    <3>4. CurrentTid(j)' = InstalledVersion(t, j).tid /\ CurrentValue(j)' = Me(t)
      BY <3>3 DEF CurrentTid, CurrentValue
    <3>5. QED BY <3>1, <3>2, <3>3, <3>4
  <2>2. CASE j # i
    <3>1. log'[j] = log[j] /\ ver'[j] = ver[j] /\ val'[j] = val[j]
      BY <2>2, LogGrows DEF StoresVersion
    <3>2. \A u \in Thread : Storing(u, j)' <=> Storing(u, j)
      BY <2>2 DEF StoresVersion, Storing
    <3>3. QED BY <1>v, <2>m, <3>1, <3>2 DEF CurrentTid, CurrentValue
  <2>3. QED BY <2>1, <2>2
<1>4. QED BY <1>1, <1>2, <1>3, Footprint

(* Only start gives a thread a new transaction, and every other step is    *)
(* one of a transaction under way.                                         *)
LEMMA TxnStep ==
  ASSUME TypeOK, NEW t \in Thread, UserStep(t) \/ LibraryStep(t)
  PROVE  \/ /\ Start(t) /\ pc[t] = "idle" /\ pc'[t] = "run"
            /\ txn'[t] = txn[t] + 1 /\ txn[t] \in Nat /\ txn \in [Thread -> Nat]
            /\ txn' = [txn EXCEPT ![t] = txn[t] + 1]
            /\ UNCHANGED <<order, log, hist>>
         \/ ~Start(t) /\ pc[t] # "idle" /\ txn' = txn /\ Me(t)' = Me(t)
<1>a. TidType /\ CallType
  BY DEF TypeOK
<1>1. CASE Start(t)
  BY <1>1, <1>a DEF Start, TidType, CallType, Goto
<1>2. CASE ~Start(t)
  <2>1. pc[t] # "idle" /\ txn' = txn
    BY <1>2 DEF UserStep, LibraryStep, BeginRead,
     ObserveNonopaque, Write, UserAbort, TryCommit, RetryRead, ReadValue,
     ReadVersion, CheckOpacity, HardCheckTid, HardCheckItem,
     ReadNonopaqueValue, LockSkip, LockLoad, LockCas, CountSpin, CheckItem,
     InstallSkip, InstallValue, FetchTid, InstallVersion, Unlock, UnlockEnds
  <2>2. QED BY <1>2, <2>1 DEF Me
<1>3. QED BY <1>1, <1>2

(* The commit points: a read-only commit, and the end of the check phase.  *)
LEMMA HistStep ==
  ASSUME TypeOK, NEW t \in Thread, UserStep(t) \/ LibraryStep(t)
  PROVE  /\ pc[t] \in Installing => pc'[t] \in Installing \cup {"idle"}
         /\ \/ hist' = hist /\ (pc'[t] \in Installing => pc[t] \in Installing)
            \/ /\ TryCommit(t) /\ pc[t] = "run" /\ pc'[t] = "idle"
               /\ hist' = hist \cup {CommitRecord(t, FALSE)}
            \/ /\ CheckItem(t) /\ pc[t] = "check"
               /\ pc'[t] \in {"inst_val", "idle"}
               /\ ItemChecks(t) /\ k[t] = Len(tset[t])
               /\ hist' = hist \cup {CommitRecord(t, TRUE)}
<1>a. CallType
  BY DEF TypeOK
<1>1. pc[t] \in Installing => pc'[t] \in Installing \cup {"idle"}
  BY <1>a DEF Installing, CallType, Goto, UserStep, LibraryStep, Start, BeginRead,
     ObserveNonopaque, Write, UserAbort, TryCommit, RetryRead, ReadValue,
     ReadVersion, CheckOpacity, HardCheckTid, HardCheckItem,
     ReadNonopaqueValue, LockSkip, LockLoad, LockCas, CountSpin, CheckItem,
     InstallSkip, InstallValue, FetchTid, InstallVersion, Unlock, UnlockEnds,
     NextToInstall, Stopped
<1>2. CASE TryCommit(t)
  BY <1>2, <1>a, <1>1 DEF TryCommit, Stopped, Goto, CallType, Installing
<1>3. CASE CheckItem(t)
  <2>1. CASE hist' = hist \cup {CommitRecord(t, TRUE)} /\ ItemChecks(t) /\ k[t] = Len(tset[t])
             /\ (Stopped(t, TRUE) \/ Goto(t, "inst_val"))
    BY <1>3, <2>1, <1>a, <1>1 DEF CheckItem, Stopped, Goto, CallType, Installing
  <2>2. CASE hist' = hist /\ (Stopped(t, FALSE) \/ AbortLocked(t) \/ pc' = pc)
    BY <1>3, <2>2, <1>a, <1>1 DEF CheckItem, Stopped, Goto, CallType, Installing, AbortLocked
  <2>3. QED BY <1>3, <2>1, <2>2 DEF CheckItem
<1>4. CASE ~TryCommit(t) /\ ~CheckItem(t)
  <2>1. hist' = hist
    BY <1>4 DEF UserStep, LibraryStep, histVars, Start, BeginRead,
     ObserveNonopaque, Write, UserAbort, RetryRead, ReadValue,
     ReadVersion, CheckOpacity, HardCheckTid, HardCheckItem,
     ReadNonopaqueValue, LockSkip, LockLoad, LockCas, CountSpin,
     InstallSkip, InstallValue, FetchTid, InstallVersion, Unlock, UnlockEnds
  <2>2. pc'[t] \in Installing => pc[t] \in Installing
    BY <1>4, <1>a DEF Installing, CallType, Goto, UserStep, LibraryStep, Start, BeginRead,
     ObserveNonopaque, Write, UserAbort, RetryRead, ReadValue,
     ReadVersion, CheckOpacity, HardCheckTid, HardCheckItem,
     ReadNonopaqueValue, LockSkip, LockLoad, LockCas, CountSpin,
     InstallSkip, InstallValue, FetchTid, InstallVersion, Unlock, UnlockEnds,
     NextToInstall, NextToLock, AbortLocked, Stopped
  <2>3. QED BY <1>1, <2>1, <2>2
<1>5. QED BY <1>2, <1>3, <1>4

(* A transaction enters the history once, and before it installs.          *)
LEMMA CommitStep ==
  ASSUME IInv, IInv', CommitInv, NEW t \in Thread, UserStep(t) \/ LibraryStep(t)
  PROVE  CommitInv'
<1>a. TypeOK /\ TypeOK'
  BY DEF IInv
<1>o. \A u \in Thread : u # t => pc'[u] = pc[u] /\ txn'[u] = txn[u] /\ Me(u)' = Me(u)
  BY <1>a, OtherThreads, OtherReads DEF Me
<1>n. /\ \A u \in Thread : txn[u] \in Nat /\ txn[u] <= txn'[u]
      /\ \A h \in hist : h.by[2] \in Nat
  <2>1. \A u \in Thread : txn[u] \in Nat /\ txn'[u] \in Nat
    BY <1>a DEF TypeOK, TidType
  <2>2. txn[t] <= txn'[t]
    BY <1>a, <2>1, TxnStep
  <2>3. \A h \in hist : h.by \in Token
    BY <1>a DEF TypeOK, HistoryType, Committed
  <2>4. QED BY <1>o, <2>1, <2>2, <2>3 DEF Token
<1>r. \A b \in BOOLEAN : CommitRecord(t, b).by = Me(t)
  BY DEF CommitRecord
<1>h. hist \subseteq hist'
  BY <1>a, HistStep
<1>g. \A h \in hist' : h \in hist \/ h.by = Me(t)
  BY <1>a, <1>r, HistStep
<1>m. Me(t)[1] = t /\ Me(t)[2] = txn[t]
  BY DEF Me
<1>1. \A h \in hist' : h.by[1] \in Thread /\ h.by[2] <= txn'[h.by[1]]
  <2>1. \A h \in hist : h.by[1] \in Thread /\ h.by[2] <= txn'[h.by[1]]
    <3>1. ASSUME NEW h \in hist PROVE h.by[1] \in Thread /\ h.by[2] <= txn'[h.by[1]]
      <4>1. h.by[1] \in Thread /\ h.by[2] <= txn[h.by[1]]
        BY DEF CommitInv
      <4>2. txn[h.by[1]] \in Nat /\ txn[h.by[1]] <= txn'[h.by[1]] /\ h.by[2] \in Nat
        BY <1>n, <4>1
      <4>3. txn'[h.by[1]] \in Nat
        BY <1>a, <4>1 DEF TypeOK, TidType
      <4>4. QED BY <4>1, <4>2, <4>3
    <3>2. QED BY <3>1
  <2>2. \A b \in BOOLEAN : LET h == CommitRecord(t, b) IN
          h.by[1] \in Thread /\ h.by[2] <= txn'[h.by[1]]
    BY <1>r, <1>m, <1>n
  <2>3. QED BY <1>a, <2>1, <2>2, HistStep
<1>2. \A h \in hist : h.by = Me(t)' => pc[t] \in Installing
  <2>1. CASE Start(t)
    <3>1. Me(t)'[2] = txn[t] + 1 /\ Me(t)'[1] = t /\ txn[t] \in Nat
      BY <2>1, <1>a, TxnStep DEF Me
    <3>2. \A h \in hist : h.by[1] = t => h.by[2] <= txn[t] /\ h.by[2] \in Nat
      BY <1>n DEF CommitInv
    <3>3. QED BY <3>1, <3>2
  <2>2. CASE ~Start(t)
    BY <2>2, <1>a, TxnStep DEF CommitInv
  <2>3. QED BY <2>1, <2>2
<1>3. \A h \in hist' : h.by = Me(t)' => pc'[t] \in Installing \cup {"idle"}
  BY <1>a, <1>2, HistStep DEF Installing
<1>4. \A u \in Thread : \A h \in hist' :
        h.by = Me(u)' => pc'[u] \in Installing \cup {"idle"}
  <2>1. ASSUME NEW u \in Thread, u # t, NEW h \in hist', h.by = Me(u)'
        PROVE  pc'[u] \in Installing \cup {"idle"}
    <3>1. h.by = Me(u) /\ h.by # Me(t)
      BY <1>o, <2>1 DEF Me
    <3>2. h \in hist
      BY <1>g, <3>1
    <3>3. QED BY <1>o, <2>1, <3>1, <3>2 DEF CommitInv
  <2>2. QED BY <1>3, <2>1
<1>5. \A u \in Thread : pc'[u] \in Installing => \E h \in hist' : h.by = Me(u)'
  <2>1. CASE pc'[t] \in Installing
    <3>1. Me(t)' = Me(t)
      BY <2>1, <1>a, TxnStep DEF Installing
    <3>2. pc[t] \in Installing \/ CommitRecord(t, TRUE) \in hist'
      BY <2>1, <1>a, HistStep DEF Installing
    <3>3. \E h \in hist' : h.by = Me(t)'
      BY <1>h, <1>r, <3>1, <3>2 DEF CommitInv
    <3>4. QED BY <1>h, <1>o, <3>3 DEF CommitInv
  <2>2. CASE pc'[t] \notin Installing
    BY <2>2, <1>h, <1>o DEF CommitInv
  <2>3. QED BY <2>1, <2>2
<1>6. ASSUME NEW i \in Item, NEW q \in 1 .. Len(log'[i])
      PROVE  \E h \in hist' : h.by = log'[i][q][1]
  <2>1. CASE log'[i] = log[i]
    BY <1>h, <2>1 DEF CommitInv
  <2>2. CASE StoresVersion(t, i)
    <3>1. CASE q \in 1 .. Len(log[i])
      BY <2>2, <3>1, <1>h, LogGrows DEF CommitInv
    <3>2. CASE q = Len(log[i]) + 1
      <4>1. log'[i][q][1] = Me(t)
        BY <2>2, <3>2, LogGrows
      <4>2. pc[t] \in Installing
        BY <2>2 DEF StoresVersion, Storing, Installing
      <4>3. QED BY <4>1, <4>2, <1>h DEF CommitInv
    <3>3. QED BY <2>2, <3>1, <3>2, LogGrows, LastOrBefore
  <2>3. QED
    <3>1. CASE \E j \in Item : StoresVersion(t, j)
      BY <3>1, <2>1, <2>2, LogGrows
    <3>2. QED BY <3>1, <2>1, Footprint DEF StoresNothing, StoresValue
<1>7. \A g, h \in hist' : g.by = h.by => g = h
  <2>1. hist' # hist => pc[t] \in {"run", "check"}
    BY <1>a, HistStep
  <2>2. hist' # hist => \A h \in hist : h.by # Me(t)
    BY <2>1 DEF CommitInv, Installing
  <2>3. CASE hist' = hist
    BY <2>3 DEF CommitInv
  <2>4. CASE hist' # hist
    <3>1. PICK b \in BOOLEAN : hist' = hist \cup {CommitRecord(t, b)}
      BY <2>4, <1>a, HistStep
    <3>2. \A h \in hist' : h = CommitRecord(t, b) \/ (h \in hist /\ h.by # Me(t))
      BY <2>2, <2>4, <3>1
    <3>3. QED BY <1>r, <3>2 DEF CommitInv
  <2>5. QED BY <2>3, <2>4
<1>8. QED BY <1>1, <1>4, <1>5, <1>6, <1>7 DEF CommitInv

(* Transactions read and write what their workload allows, and only one    *)
(* that writes an opaque item draws a commit tid.                          *)
LEMMA WorkloadStep ==
  ASSUME IInv, IInv', NEW t \in Thread, WorkloadInv(t),
         UserStep(t) \/ LibraryStep(t)
  PROVE  WorkloadInv(t)'
<1>a. SetType /\ CallType /\ TidType /\ SetType'
  BY DEF IInv, TypeOK
<1>b. ControlInv(t) /\ ControlInv(t)'
  BY DEF IInv
<1>1. rset'[t] \subseteq CanRead[t]
  <2>1. CASE Start(t)
    BY <2>1, <1>a DEF Start, SetType
  <2>2. CASE \E i \in Item : ObserveNonopaque(t, i)
    <3>1. PICK i \in Item : ObserveNonopaque(t, i)
      BY <2>2
    <3>2. i \in CanRead[t] /\ (rset' = rset \/ rset' = [rset EXCEPT ![t] = @ \cup {i}])
      BY <3>1 DEF ObserveNonopaque
    <3>3. rset'[t] \subseteq rset[t] \cup {i}
      BY <3>2, <1>a DEF SetType
    <3>4. QED BY <3>2, <3>3 DEF WorkloadInv
  <2>3. CASE CheckOpacity(t) \/ HardCheckItem(t)
    <3>1. pc[t] \in Reading /\ (rset' = rset \/ rset' = [rset EXCEPT ![t] = @ \cup {cur[t]}])
      BY <2>3 DEF CheckOpacity, HardCheckItem, AddRead, Reading
    <3>2. rset'[t] \subseteq rset[t] \cup {cur[t]}
      BY <3>1, <1>a DEF SetType
    <3>3. QED BY <3>1, <3>2 DEF WorkloadInv
  <2>4. CASE rset' = rset
    BY <2>4 DEF WorkloadInv
  <2>5. QED
    BY <2>1, <2>2, <2>3, <2>4 DEF UserStep, LibraryStep, setVars, BeginRead, Write,
     UserAbort, TryCommit, RetryRead, ReadValue, ReadVersion, HardCheckTid,
     ReadNonopaqueValue, LockSkip, LockLoad, LockCas, CountSpin, CheckItem,
     InstallSkip, InstallValue, FetchTid, InstallVersion, Unlock, UnlockEnds
<1>2. wset'[t] \subseteq CanWrite[t] /\ (wset'[t] # wset[t] => pc[t] \in {"idle", "run"})
  <2>1. CASE Start(t)
    BY <2>1, <1>a DEF Start, SetType
  <2>2. CASE \E i \in Item : Write(t, i)
    <3>1. PICK i \in Item : Write(t, i)
      BY <2>2
    <3>2. i \in CanWrite[t] /\ pc[t] = "run" /\ wset'[t] = wset[t] \cup {i}
      BY <3>1, <1>a DEF Write, SetType
    <3>3. QED BY <3>2 DEF WorkloadInv
  <2>3. CASE wset' = wset
    BY <2>3 DEF WorkloadInv
  <2>4. QED
    BY <2>1, <2>2, <2>3 DEF UserStep, LibraryStep, setVars, BeginRead,
     ObserveNonopaque, UserAbort, TryCommit, RetryRead, ReadValue,
     ReadVersion, CheckOpacity, HardCheckTid, HardCheckItem, AddRead,
     ReadNonopaqueValue, LockSkip, LockLoad, LockCas, CountSpin, CheckItem,
     InstallSkip, InstallValue, FetchTid, InstallVersion, Unlock, UnlockEnds
<1>3. pc'[t] \in Reading => cur'[t] \in CanRead[t]
  <2>1. CASE \E i \in Item : BeginRead(t, i)
    BY <2>1, <1>a DEF BeginRead, CallType
  <2>2. pc'[t] \in Reading =>
          (\E i \in Item : BeginRead(t, i)) \/ (cur' = cur /\ pc[t] \in Reading)
    BY <1>a DEF CallType, Reading, UserStep, LibraryStep, readVars, Start, Goto,
     Stopped, NextToLock, NextToInstall, AbortLocked, BeginRead,
     ObserveNonopaque, Write, UserAbort, TryCommit, RetryRead, ReadValue,
     ReadVersion, CheckOpacity, HardCheckTid, HardCheckItem,
     ReadNonopaqueValue, LockSkip, LockLoad, LockCas, CountSpin, CheckItem,
     InstallSkip, InstallValue, FetchTid, InstallVersion, Unlock, UnlockEnds
  <2>3. QED BY <2>1, <2>2 DEF WorkloadInv
<1>4. pc'[t] = "inst_tid" => tset'[t][k'[t]] \in Opaque
  <2>1. CASE InstallValue(t)
    BY <2>1, <1>a DEF InstallValue, Goto, CallType, setVars
  <2>2. CASE ~InstallValue(t)
    <3>1. pc'[t] # "inst_tid" \/ pc'[t] = pc[t]
      BY <2>2, <1>a DEF CallType, UserStep, LibraryStep, readVars, Start, Goto,
       Stopped, NextToLock, NextToInstall, AbortLocked, BeginRead,
       ObserveNonopaque, Write, UserAbort, TryCommit, RetryRead, ReadValue,
       ReadVersion, CheckOpacity, HardCheckTid, HardCheckItem,
       ReadNonopaqueValue, LockSkip, LockLoad, LockCas, CountSpin, CheckItem,
       InstallSkip, InstallValue, FetchTid, InstallVersion, Unlock, UnlockEnds
    <3>2. pc[t] = "inst_tid" => FetchTid(t)
      BY <2>2 DEF UserStep, LibraryStep, Start, BeginRead,
       ObserveNonopaque, Write, UserAbort, TryCommit, RetryRead, ReadValue,
       ReadVersion, CheckOpacity, HardCheckTid, HardCheckItem,
       ReadNonopaqueValue, LockSkip, LockLoad, LockCas, CountSpin, CheckItem,
       InstallSkip, InstallValue, InstallVersion, Unlock, UnlockEnds
    <3>3. FetchTid(t) => pc'[t] = "inst_ver"
      BY <1>a DEF FetchTid, Goto, CallType
    <3>4. QED BY <3>1, <3>2, <3>3
  <2>3. QED BY <2>1, <2>2
<1>5. pc'[t] \in Installing /\ commit_tid'[t] # 0 => wset'[t] \cap Opaque # {}
  <2>1. CASE FetchTid(t)
    <3>1. tset[t][k[t]] \in Opaque /\ tset[t][k[t]] \in wset[t] /\ wset' = wset
      BY <2>1, <1>b DEF FetchTid, WorkloadInv, ControlInv, setVars
    <3>2. QED BY <3>1
  <2>2. CASE ~FetchTid(t)
    <3>1. commit_tid' = commit_tid \/ commit_tid'[t] = 0
      BY <2>2, <1>a DEF TidType, UserStep, LibraryStep, tidVars, Start, BeginRead,
       ObserveNonopaque, Write, UserAbort, TryCommit, RetryRead, ReadValue,
       ReadVersion, CheckOpacity, HardCheckTid, HardCheckItem,
       ReadNonopaqueValue, LockSkip, LockLoad, LockCas, CountSpin, CheckItem,
       InstallSkip, InstallValue, InstallVersion, Unlock, UnlockEnds
    <3>2. pc[t] \notin Installing /\ pc[t] # "idle" => commit_tid[t] = 0
      BY <1>b DEF ControlInv
    <3>3. pc[t] = "idle" => pc'[t] = "run"
      BY TxnStep DEF IInv
    <3>4. QED BY <1>2, <3>1, <3>2, <3>3 DEF WorkloadInv, Installing
  <2>3. QED BY <2>1, <2>2
<1>6. QED BY <1>1, <1>2, <1>3, <1>4, <1>5 DEF WorkloadInv

(* The version set_version_unlock stores at a growing item is above the    *)
(* one it replaces.                                                        *)
LEMMA NewerVersion ==
  ASSUME IInv, NEW t \in Thread, WorkloadInv(t), NEW i \in Growing,
         StoresVersion(t, i), InstallVersion(t)
  PROVE  /\ ver[i].tid \in Nat /\ InstalledVersion(t, i).tid \in Nat
         /\ ver[i].tid < InstalledVersion(t, i).tid
<1>a. TypeOK /\ ControlInv(t) /\ TidInv /\ i \in Item
  BY DEF IInv, Growing
<1>1. i = tset[t][k[t]] /\ pc[t] = "inst_ver" /\ i \in wset[t]
  BY <1>a DEF InstallVersion, StoresVersion, Storing, ControlInv
<1>2. ver[i].tid \in Nat /\ InstalledVersion(t, i).tid \in Nat
  BY <1>a, InstalledVersionType DEF TypeOK, MemoryType, Version
<1>3. CASE i \in Opaque
  <2>1. commit_tid[t] # 0
    BY <1>a, <1>1, <1>3 DEF ControlInv
  <2>2. i \in lset[t]
    BY <1>a, StoringLocked DEF StoresVersion
  <2>3. ver[i].tid < commit_tid[t]
    BY <1>a, <1>1, <1>3, <2>1, <2>2 DEF TidInv, Installing
  <2>4. QED BY <1>a, <1>2, <2>1, <2>3, InstalledVersionType
<1>4. CASE i \notin Opaque
  <2>1. CanWrite[t] \cap Opaque = {}
    BY <1>1, <1>4 DEF Growing, KindsApart, WorkloadInv
  <2>2. commit_tid[t] = 0
    BY <1>1, <2>1 DEF WorkloadInv, Installing
  <2>3. InstalledVersion(t, i).tid = ver[i].tid + 1
    BY <2>2 DEF InstalledVersion, next_unflagged_nonopaque_version
  <2>4. QED BY <1>2, <2>3
<1>5. QED BY <1>3, <1>4

(* The version word carries the largest tid installed so far.              *)
LEMMA VersionIsLargest ==
  ASSUME IInv, ValueInv, GrowthInv, NEW i \in Growing
  PROVE  /\ ver[i].tid \in Nat
         /\ \A q \in 1 .. Len(log[i]) :
              log[i][q][2] \in Nat /\ log[i][q][2] <= ver[i].tid
                /\ (log[i][q][2] = ver[i].tid => q = Len(log[i]))
         /\ (log[i] = <<>> <=> ver[i].tid = 0)
<1>a. i \in Item /\ log[i] \in Seq(Token \X Nat) /\ ver[i] \in Version
  BY DEF Growing, IInv, TypeOK, HistoryType, MemoryType
<1>1. Len(log[i]) \in Nat /\ ver[i].tid \in Nat
  BY <1>a DEF Version
<1>2. \A q \in 1 .. Len(log[i]) : log[i][q][2] \in Nat
  BY <1>a
<1>3. CASE log[i] = <<>>
  BY <1>1, <1>3, <1>a DEF ValueInv, CurrentTid
<1>4. CASE log[i] # <<>>
  <2>1. Len(log[i]) \in 1 .. Len(log[i]) /\ ver[i].tid = log[i][Len(log[i])][2]
    BY <1>a, <1>4 DEF ValueInv, CurrentTid
  <2>2. \A q \in 1 .. Len(log[i]) : q # Len(log[i]) => q \in 1 .. Len(log[i]) - 1
    BY <1>1
  <2>3. \A q \in 1 .. Len(log[i]) : q # Len(log[i]) => log[i][q][2] < ver[i].tid
    BY <2>1, <2>2 DEF GrowthInv
  <2>4. ver[i].tid > 0
    BY <2>1 DEF GrowthInv
  <2>5. QED BY <1>1, <1>2, <1>4, <2>1, <2>3, <2>4
<1>5. QED BY <1>3, <1>4

(* Versions of growing items increase.                                     *)
LEMMA GrowthStep ==
  ASSUME IInv, IInv', ValueInv, GrowthInv, NEW t \in Thread, WorkloadInv(t),
         UserStep(t) \/ LibraryStep(t)
  PROVE  GrowthInv'
<1> SUFFICES ASSUME NEW j \in Growing, NEW b \in 1 .. Len(log'[j])
             PROVE  /\ log'[j][b][2] > 0
                    /\ \A a \in 1 .. b - 1 : log'[j][a][2] < log'[j][b][2]
  BY DEF GrowthInv, Growing, KindsApart
<1>a. j \in Item
  BY DEF Growing
<1>1. CASE log'[j] = log[j]
  BY <1>1 DEF GrowthInv
<1>2. CASE StoresVersion(t, j) /\ InstallVersion(t)
  <2>1. CASE b \in 1 .. Len(log[j])
    <3>1. \A a \in 1 .. b - 1 : a \in 1 .. Len(log[j])
      BY <1>2, <2>1, <1>a, LogGrows
    <3>2. QED BY <1>a, <1>2, <2>1, <3>1, LogGrows DEF GrowthInv
  <2>2. CASE b = Len(log[j]) + 1
    <3>1. /\ ver[j].tid \in Nat /\ log'[j][b][2] \in Nat
          /\ ver[j].tid < log'[j][b][2]
      BY <1>a, <1>2, <2>2, LogGrows, NewerVersion
    <3>2. \A a \in 1 .. b - 1 : a \in 1 .. Len(log[j])
      BY <1>2, <2>2, <1>a, LogGrows
    <3>3. \A a \in 1 .. b - 1 : log'[j][a][2] \in Nat /\ log'[j][a][2] <= ver[j].tid
      BY <1>a, <1>2, <3>2, LogGrows, VersionIsLargest
    <3>4. QED BY <3>1, <3>3
  <2>3. QED BY <1>a, <1>2, <2>1, <2>2, LogGrows, LastOrBefore
<1>3. QED
  <2>1. CASE \E i \in Item : InstallVersion(t) /\ StoresVersion(t, i)
    BY <2>1, <1>a, <1>1, <1>2, LogGrows
  <2>2. QED BY <2>1, <1>a, <1>1, Footprint DEF StoresNothing, StoresValue

(* The value in memory is as new as the version in memory, even between    *)
(* the two stores of an install.                                           *)
LEMMA AsNewAsNow ==
  ASSUME IInv, ValueInv, NEW i \in Item, NEW tid \in Nat, tid <= ver[i].tid
  PROVE  AsNewAs(i, val[i], tid)
<1>1. CASE \E u \in Thread : Storing(u, i)
  BY <1>1 DEF ValueInv, AsNewAs
<1>2. CASE \A u \in Thread : ~Storing(u, i)
  <2>1. val[i] = CurrentValue(i) /\ ver[i].tid = CurrentTid(i)
    BY <1>2 DEF ValueInv
  <2>2. ver[i].tid \in Nat /\ log[i] \in Seq(Token \X Nat)
    BY DEF IInv, TypeOK, MemoryType, Version, HistoryType
  <2>3. PICK e \in Installed(i) : e[1] = CurrentValue(i) /\ e[2] = CurrentTid(i)
    <3>1. CASE log[i] = <<>>
      <4>1. <<InitialToken, 0>> \in Installed(i)
        BY InstalledPairs
      <4>2. QED BY <3>1, <4>1 DEF CurrentValue, CurrentTid
    <3>2. CASE log[i] # <<>>
      <4>1. Len(log[i]) \in 1 .. Len(log[i])
        BY <2>2, <3>2
      <4>2. log[i][Len(log[i])] \in Installed(i)
        BY <4>1, InstalledPairs
      <4>3. QED BY <3>2, <4>2 DEF CurrentValue, CurrentTid
    <3>3. QED BY <3>1, <3>2
  <2>4. e[1] = val[i] /\ e[2] >= tid
    BY <2>1, <2>2, <2>3
  <2>5. QED BY <2>4 DEF AsNewAs
<1>3. QED BY <1>1, <1>2

(* It stays so: what was about to be installed has a version above all     *)
(* those before.                                                           *)
LEMMA AsNewAsStays ==
  ASSUME IInv, IInv', NEW t \in Thread, WorkloadInv(t),
         UserStep(t) \/ LibraryStep(t),
         NEW i \in Growing, NEW x, NEW tid \in Nat, tid <= ver[i].tid,
         AsNewAs(i, x, tid)
  PROVE  AsNewAs(i, x, tid)'
<1>a. i \in Item
  BY DEF Growing
<1>1. CASE \E e \in Installed(i) : e[1] = x /\ e[2] >= tid
  BY <1>1, <1>a, InstalledStays DEF AsNewAs
<1>2. CASE \E u \in Thread : Storing(u, i) /\ x = Me(u)
  <2>1. PICK u \in Thread : Storing(u, i) /\ x = Me(u)
    BY <1>2
  <2>2. CASE Storing(u, i)' /\ Me(u)' = Me(u)
    BY <2>1, <2>2 DEF AsNewAs
  <2>3. CASE u = t /\ InstallVersion(t) /\ StoresVersion(t, i)
    <3>1. /\ log'[i][Len(log[i]) + 1] = <<x, InstalledVersion(t, i).tid>>
          /\ Len(log[i]) + 1 \in 1 .. Len(log'[i])
      BY <1>a, <2>1, <2>3, LogGrows
    <3>2. log'[i][Len(log[i]) + 1] \in Installed(i)'
      <4>1. log'[i] \in Seq(Token \X Nat)
        BY <1>a DEF IInv, TypeOK, HistoryType
      <4>2. DOMAIN log'[i] = 1 .. Len(log'[i])
        BY <4>1
      <4>3. QED BY <3>1, <4>2 DEF Installed, Range
    <3>3. InstalledVersion(t, i).tid >= tid
      BY <2>3, NewerVersion
    <3>4. QED BY <3>1, <3>2, <3>3 DEF AsNewAs
  <2>4. QED
    <3>1. CASE StoresNothing
      BY <3>1, <1>a, <2>1, <2>2 DEF StoresNothing
    <3>2. CASE \E j \in Item : StoresValue(t, j)
      BY <3>2, <1>a, <2>1, <2>2 DEF StoresValue, Me
    <3>3. CASE \E j \in Item : InstallVersion(t) /\ StoresVersion(t, j)
      <4>1. PICK j \in Item : InstallVersion(t) /\ StoresVersion(t, j)
        BY <3>3
      <4>2. CASE u # t
        BY <4>1, <4>2, <1>a, <2>1, <2>2 DEF StoresVersion, Me
      <4>3. CASE u = t
        BY <4>1, <4>3, <2>1, <2>3 DEF StoresVersion, Storing
      <4>4. QED BY <4>2, <4>3
    <3>4. QED BY <3>1, <3>2, <3>3, Footprint
<1>3. QED BY <1>1, <1>2 DEF AsNewAs

(* A read whose version is still the item's, with no install under way,    *)
(* has returned the current value.                                         *)
LEMMA UnchangedIsCurrent ==
  ASSUME IInv, ValueInv, GrowthInv, NEW i \in Growing, NEW x,
         AsNewAs(i, x, ver[i].tid), \A u \in Thread : ~Storing(u, i)
  PROVE  x = CurrentValue(i) /\ <<x, ver[i].tid>> \in Installed(i)
<1>a. i \in Item /\ log[i] \in Seq(Token \X Nat)
  BY DEF Growing, IInv, TypeOK, HistoryType
<1>1. PICK e \in Installed(i) : e[1] = x /\ e[2] >= ver[i].tid
  BY DEF AsNewAs
<1>2. CASE e = <<InitialToken, 0>>
  <2>1. ver[i].tid = 0 /\ log[i] = <<>>
    BY <1>1, <1>2, VersionIsLargest
  <2>2. QED BY <1>1, <1>2, <2>1 DEF CurrentValue
<1>3. CASE \E q \in 1 .. Len(log[i]) : e = log[i][q]
  <2>1. PICK q \in 1 .. Len(log[i]) : e = log[i][q]
    BY <1>3
  <2>2. e[2] = ver[i].tid /\ q = Len(log[i])
    BY <1>1, <2>1, VersionIsLargest
  <2>3. log[i] # <<>> /\ x = CurrentValue(i)
    BY <1>a, <1>1, <2>1, <2>2 DEF CurrentValue
  <2>4. e = <<x, ver[i].tid>>
    BY <1>a, <1>1, <2>1, <2>2
  <2>5. QED BY <2>3, <2>4
<1>4. QED BY <1>a, <1>2, <1>3, InstalledPairs

(* Versions of growing items never go back.                                *)
LEMMA VersionsGrow ==
  ASSUME IInv, IInv', NEW t \in Thread, WorkloadInv(t),
         UserStep(t) \/ LibraryStep(t), NEW i \in Growing
  PROVE  ver[i].tid \in Nat /\ ver'[i].tid \in Nat /\ ver[i].tid <= ver'[i].tid
<1>a. i \in Item /\ ver[i].tid \in Nat /\ ver'[i].tid \in Nat
  BY DEF Growing, IInv, TypeOK, MemoryType, Version
<1>1. CASE StoresNothing
  BY <1>a, <1>1 DEF StoresNothing
<1>2. CASE \E j \in Item : StoresValue(t, j)
  BY <1>a, <1>2 DEF StoresValue
<1>3. CASE \E j \in Item : InstallVersion(t) /\ StoresVersion(t, j)
  <2>1. PICK j \in Item : InstallVersion(t) /\ StoresVersion(t, j)
    BY <1>3
  <2>2. CASE j = i
    BY <1>a, <2>1, <2>2, NewerVersion, LogGrows
  <2>3. CASE j # i
    BY <1>a, <2>1, <2>3, LogGrows
  <2>4. QED BY <2>2, <2>3
<1>4. QED BY <1>1, <1>2, <1>3, Footprint

(* What a read set says stays true while others, or later steps of its own *)
(* transaction, install.                                                   *)
LEMMA ReadSetKept ==
  ASSUME IInv, IInv', NEW t \in Thread, WorkloadInv(t),
         UserStep(t) \/ LibraryStep(t), NEW u \in Thread, ReadSetInv(u)
  PROVE  /\ \A i \in rset[u] : i \in Growing => rdata[u][i].tid <= ver'[i].tid
         /\ \A p \in seen[u], tid \in Nat :
              p[1] \in Growing /\ tid = rdata[u][p[1]].tid =>
                AsNewAs(p[1], p[2], tid)'
         /\ \A i \in rset[u] \cap Opaque : \E p \in seen[u] :
              p[1] = i /\ <<p[2], rdata[u][i].tid>> \in Installed(i)'
         /\ (rset'[u] = rset[u] /\ rdata'[u] = rdata[u] /\ seen'[u] = seen[u] =>
               ReadSetInv(u)')
<1>a. \A i \in Item : rdata[u][i].tid \in Nat /\ i \in Item
  BY DEF IInv, TypeOK, SetType, Version
<1>b. rset[u] \subseteq Item /\ Growing \subseteq Item /\ Opaque \subseteq Item
  BY ItemAssumption DEF IInv, TypeOK, SetType, Growing
<1>1. ASSUME NEW i \in rset[u], i \in Growing
      PROVE  rdata[u][i].tid <= ver'[i].tid
  <2>1. rdata[u][i].tid <= ver[i].tid
    BY <1>1 DEF ReadSetInv
  <2>2. QED BY <1>1, <1>a, <1>b, <2>1, VersionsGrow
<1>2. ASSUME NEW p \in seen[u], NEW tid \in Nat, p[1] \in Growing, tid = rdata[u][p[1]].tid
      PROVE  AsNewAs(p[1], p[2], tid)'
  <2>1. tid <= ver[p[1]].tid /\ AsNewAs(p[1], p[2], tid)
    BY <1>2 DEF ReadSetInv
  <2>2. QED BY <1>2, <2>1, AsNewAsStays
<1>3. ASSUME NEW i \in rset[u] \cap Opaque
      PROVE  \E p \in seen[u] : p[1] = i /\ <<p[2], rdata[u][i].tid>> \in Installed(i)'
  <2>1. PICK p \in seen[u] : p[1] = i /\ <<p[2], rdata[u][i].tid>> \in Installed(i)
    BY DEF ReadSetInv
  <2>2. QED BY <1>b, <2>1, InstalledStays
<1>4. ASSUME rset'[u] = rset[u], rdata'[u] = rdata[u], seen'[u] = seen[u]
      PROVE  ReadSetInv(u)'
  <2>1. \A i \in rset'[u] : rdata'[u][i].lock = NoThread /\ (i \in Growing => rdata'[u][i].tid <= ver'[i].tid)
    BY <1>1, <1>4 DEF ReadSetInv
  <2>2. ASSUME NEW p \in seen'[u]
        PROVE  p[1] \in rset'[u] /\ (p[1] \in Growing => AsNewAs(p[1], p[2], rdata[u][p[1]].tid)')
    <3>1. p[1] \in rset'[u]
      BY <1>4 DEF ReadSetInv
    <3>2. PICK tid \in Nat : tid = rdata[u][p[1]].tid
      BY <1>4, <1>a, <1>b, <3>1
    <3>3. p[1] \in Growing => AsNewAs(p[1], p[2], tid)'
      BY <1>2, <1>4, <3>2
    <3>4. QED BY <1>4, <3>1, <3>2, <3>3 DEF AsNewAs
  <2>3. QED BY <1>3, <1>4, <2>1, <2>2 DEF ReadSetInv, Growing, KindsApart
<1>5. QED BY <1>1, <1>2, <1>3, <1>4

(* A thread outside a commit that finds a word not locked elsewhere finds  *)
(* it unlocked.                                                            *)
LEMMA NotLocked ==
  ASSUME IInv, NEW t \in Thread, NEW i \in Item,
         pc[t] \in {"run", "rd_nval"} \cup Reading,
         ~is_locked_elsewhere(ver[i], t)
  PROVE  ver[i].lock = NoThread /\ \A u \in Thread : ~Storing(u, i)
<1>1. lset[t] = {}
  BY DEF IInv, LocksInv
<1>2. ver[i].lock # t
  BY <1>1 DEF IInv, Ownership
<1>3. ver[i].lock = NoThread
  BY <1>2 DEF is_locked_elsewhere
<1>4. QED BY <1>3, StoringLocked, ThreadAssumption

(* Adding a read to the set, by observe of a TVersion                      *)
LEMMA AddReadStep ==
  ASSUME IInv, IInv', NEW t \in Thread, WorkloadInv(t),
         UserStep(t) \/ LibraryStep(t), ReadSetInv(t), ReadCallInv(t),
         pc[t] \in {"tco", "hco"}, AddRead(t), UNCHANGED <<ver, log>>
  PROVE  ReadSetInv(t)'
<1>a. /\ SetType /\ CallType /\ HistoryType /\ MemoryType /\ cur[t] \in Opaque
      /\ cur[t] \in Item /\ cur[t] \in Growing /\ Opaque \subseteq Item
  BY ItemAssumption DEF IInv, TypeOK, ControlInv, Reading, Growing
<1> PICK i \in Opaque : i = cur[t]
  BY <1>a
<1>1. /\ obs[t].tid \in Nat /\ obs[t].lock = NoThread /\ obs[t].tid <= ver[i].tid
      /\ <<res[t], obs[t].tid>> \in Installed(i)
      /\ (i \in rset[t] => rdata[t][i].tid <= obs[t].tid)
  BY <1>a DEF ReadCallInv, Reading, CallType, Version
<1>2. /\ rset'[t] = rset[t] \cup {i} /\ seen'[t] = seen[t] \cup {<<i, res[t]>>}
      /\ rdata'[t][i] = (IF i \in rset[t] THEN rdata[t][i] ELSE obs[t])
      /\ \A j \in Item : j # i => rdata'[t][j] = rdata[t][j]
  BY <1>a DEF AddRead, SetType, HistoryType
<1>t. \A j \in Item : rdata[t][j].tid \in Nat /\ rdata'[t][j].tid \in Nat
  BY DEF IInv, TypeOK, SetType, Version
<1>s. rset[t] \subseteq Item /\ \A j \in rset[t] : rdata'[t][j] = rdata[t][j]
  BY <1>2, <1>a DEF SetType
<1>3. \A j \in rset'[t] : rdata'[t][j].lock = NoThread
                        /\ (j \in Growing => rdata'[t][j].tid <= ver'[j].tid)
  <2>1. \A j \in rset[t] : rdata'[t][j].lock = NoThread
                        /\ (j \in Growing => rdata'[t][j].tid <= ver'[j].tid)
    BY <1>s DEF ReadSetInv
  <2>2. i \notin rset[t] => rdata'[t][i].lock = NoThread /\ rdata'[t][i].tid <= ver'[i].tid
    BY <1>1, <1>2
  <2>3. QED BY <1>2, <2>1, <2>2
<1>i. Installed(i)' = Installed(i)
  BY DEF Installed
<1>4. ASSUME NEW p \in seen'[t]
      PROVE  p[1] \in rset'[t]
               /\ (p[1] \in Growing => AsNewAs(p[1], p[2], rdata[t][p[1]].tid)')
  <2>1. CASE p \in seen[t]
    <3>1. p[1] \in rset[t] /\ p[1] \in Item
      BY <1>s, <2>1 DEF ReadSetInv
    <3>2. PICK tid \in Nat : tid = rdata[t][p[1]].tid
      BY <1>t, <3>1
    <3>3. p[1] \in Growing => AsNewAs(p[1], p[2], tid)'
      BY <2>1, <3>2, ReadSetKept
    <3>4. rdata'[t][p[1]].tid = tid
      BY <1>s, <3>1, <3>2
    <3>5. QED BY <1>2, <3>1, <3>3, <3>4 DEF AsNewAs
  <2>2. CASE p = <<i, res[t]>>
    <3>1. obs[t].tid >= rdata'[t][i].tid
      BY <1>1, <1>2, <1>t, <1>a
    <3>2. PICK e \in Installed(i)' : e[1] = p[2] /\ e[2] >= rdata'[t][i].tid
      BY <1>1, <1>i, <2>2, <3>1
    <3>3. p[1] = i
      BY <2>2
    <3>4. QED BY <1>2, <3>2, <3>3 DEF AsNewAs
  <2>3. QED BY <1>2, <2>1, <2>2
<1>5. ASSUME NEW j \in rset'[t] \cap Opaque
      PROVE  \E p \in seen'[t] : p[1] = j /\ <<p[2], rdata'[t][j].tid>> \in Installed(j)'
  <2>1. CASE j \in rset[t]
    <3>1. PICK p \in seen[t] : p[1] = j /\ <<p[2], rdata[t][j].tid>> \in Installed(j)'
      BY <2>1, ReadSetKept
    <3>2. QED BY <1>2, <1>s, <2>1, <3>1
  <2>2. CASE j = i /\ i \notin rset[t]
    <3>1. <<i, res[t]>> \in seen'[t] /\ rdata'[t][i].tid = obs[t].tid
      BY <1>2, <2>2
    <3>2. <<i, res[t]>>[1] = i /\ <<i, res[t]>>[2] = res[t]
      OBVIOUS
    <3>3. <<res[t], rdata'[t][i].tid>> \in Installed(i)'
      BY <1>1, <1>i, <3>1
    <3>4. QED BY <2>2, <3>1, <3>2, <3>3
  <2>3. QED BY <1>2, <2>1, <2>2
<1>6. QED BY <1>3, <1>4, <1>5 DEF ReadSetInv, Growing, KindsApart

(* Every step keeps the read set of its own transaction.                   *)
LEMMA ReadSetStep ==
  ASSUME IInv, IInv', ValueInv, NEW t \in Thread, WorkloadInv(t),
         UserStep(t) \/ LibraryStep(t), ReadSetInv(t), ReadCallInv(t)
  PROVE  ReadSetInv(t)'
<1>a. /\ SetType /\ CallType /\ HistoryType /\ MemoryType
      /\ Opaque \subseteq Item /\ Growing \subseteq Item
  BY ItemAssumption DEF IInv, TypeOK, Growing
<1>1. CASE Start(t)
  <2>1. rset'[t] = {} /\ seen'[t] = {}
    BY <1>1, <1>a DEF Start, SetType, HistoryType
  <2>2. QED BY <2>1 DEF ReadSetInv
<1>2. CASE (CheckOpacity(t) \/ HardCheckItem(t)) /\ AddRead(t)
  BY <1>2, AddReadStep DEF CheckOpacity, HardCheckItem, sharedVars
<1>3. CASE \E i \in Item : ObserveNonopaque(t, i) /\ ~Stopped(t, FALSE)
  <2>1. PICK i \in Item : ObserveNonopaque(t, i) /\ ~Stopped(t, FALSE)
    BY <1>3
  <2>0. /\ pc[t] = "run" /\ ~is_locked_elsewhere(ver[i], t) /\ i \notin Opaque
        /\ rset' = [rset EXCEPT ![t] = @ \cup {i}]
        /\ rdata' = [rdata EXCEPT ![t][i] = IF i \in rset[t] THEN @ ELSE ver[i]]
        /\ UNCHANGED <<seen, ver, log>>
    BY <2>1 DEF ObserveNonopaque, sharedVars, histVars
  <2>2. /\ pc[t] = "run" /\ ~is_locked_elsewhere(ver[i], t) /\ i \notin Opaque
        /\ rset'[t] = rset[t] \cup {i} /\ seen' = seen
        /\ rdata'[t][i] = (IF i \in rset[t] THEN rdata[t][i] ELSE ver[i])
        /\ \A j \in Item : j # i => rdata'[t][j] = rdata[t][j]
        /\ UNCHANGED <<ver, log>>
    BY <2>0, <1>a DEF SetType
  <2>3. ver[i].lock = NoThread /\ ver[i].tid \in Nat
    BY <2>2, <1>a, NotLocked DEF MemoryType, Version
  <2>s. rset[t] \subseteq Item /\ \A j \in rset[t] : rdata'[t][j] = rdata[t][j]
    BY <2>2, <1>a DEF SetType
  <2>t. \A j \in Item : rdata[t][j].tid \in Nat
    BY DEF IInv, TypeOK, SetType, Version
  <2>4. \A j \in rset'[t] : rdata'[t][j].lock = NoThread
                          /\ (j \in Growing => rdata'[t][j].tid <= ver'[j].tid)
    <3>1. \A j \in rset[t] : rdata'[t][j].lock = NoThread
                          /\ (j \in Growing => rdata'[t][j].tid <= ver'[j].tid)
      BY <2>s, <2>2 DEF ReadSetInv
    <3>2. i \notin rset[t] => rdata'[t][i].lock = NoThread /\ rdata'[t][i].tid <= ver'[i].tid
      BY <2>2, <2>3
    <3>3. QED BY <2>2, <3>1, <3>2
  <2>5. ASSUME NEW p \in seen'[t]
        PROVE  p[1] \in rset'[t]
                 /\ (p[1] \in Growing => AsNewAs(p[1], p[2], rdata[t][p[1]].tid)')
    <3>1. p \in seen[t] /\ p[1] \in rset[t] /\ p[1] \in Item
      BY <2>2, <2>s DEF ReadSetInv
    <3>2. PICK tid \in Nat : tid = rdata[t][p[1]].tid
      BY <2>t, <3>1
    <3>3. p[1] \in Growing => AsNewAs(p[1], p[2], tid)'
      BY <3>1, <3>2, ReadSetKept
    <3>4. rdata'[t][p[1]].tid = tid
      BY <2>s, <3>1, <3>2
    <3>5. QED BY <2>2, <3>1, <3>3, <3>4 DEF AsNewAs
  <2>6. ASSUME NEW j \in rset'[t] \cap Opaque
        PROVE  \E p \in seen'[t] : p[1] = j /\ <<p[2], rdata'[t][j].tid>> \in Installed(j)'
    <3>1. j \in rset[t]
      BY <2>2
    <3>2. PICK p \in seen[t] : p[1] = j /\ <<p[2], rdata[t][j].tid>> \in Installed(j)'
      BY <3>1, ReadSetKept
    <3>3. QED BY <2>2, <2>s, <3>1, <3>2
  <2>7. QED BY <2>4, <2>5, <2>6 DEF ReadSetInv, Growing, KindsApart
<1>4. CASE ReadNonopaqueValue(t)
  <2>1. /\ pc[t] = "rd_nval" /\ seen'[t] = seen[t] \cup {<<cur[t], val[cur[t]]>>}
        /\ rset' = rset /\ rdata' = rdata /\ UNCHANGED <<ver, log>> /\ cur[t] \in rset[t]
    BY <1>4, <1>a DEF ReadNonopaqueValue, HistoryType, setVars, sharedVars, ReadCallInv
  <2>s. rset[t] \subseteq Item
    BY <1>a DEF SetType
  <2>t. \A j \in Item : rdata[t][j].tid \in Nat
    BY DEF IInv, TypeOK, SetType, Version
  <2>2. ASSUME NEW p \in seen'[t]
        PROVE  p[1] \in rset'[t]
                 /\ (p[1] \in Growing => AsNewAs(p[1], p[2], rdata[t][p[1]].tid)')
    <3>1. p[1] \in rset[t] /\ p[1] \in Item
      BY <2>1, <2>s DEF ReadSetInv
    <3>2. PICK tid \in Nat : tid = rdata[t][p[1]].tid
      BY <2>t, <3>1
    <3>3. p[1] \in Growing => AsNewAs(p[1], p[2], tid)'
      <4>1. CASE p \in seen[t]
        BY <4>1, <3>2, ReadSetKept
      <4>2. CASE p = <<cur[t], val[cur[t]]>> /\ p[1] \in Growing
        <5>1. tid <= ver[p[1]].tid
          BY <3>1, <3>2, <4>2 DEF ReadSetInv
        <5>2. AsNewAs(p[1], p[2], tid)
          BY <3>1, <4>2, <5>1, AsNewAsNow
        <5>3. QED BY <4>2, <5>1, <5>2, AsNewAsStays
      <4>3. QED BY <2>1, <4>1, <4>2
    <3>4. QED BY <2>1, <3>1, <3>2, <3>3 DEF AsNewAs
  <2>3. \A i \in rset'[t] : rdata'[t][i].lock = NoThread
                          /\ (i \in Growing => rdata'[t][i].tid <= ver'[i].tid)
    BY <2>1 DEF ReadSetInv
  <2>4. ASSUME NEW j \in rset'[t] \cap Opaque
        PROVE  \E p \in seen'[t] : p[1] = j /\ <<p[2], rdata'[t][j].tid>> \in Installed(j)'
    <3>1. PICK p \in seen[t] : p[1] = j /\ <<p[2], rdata[t][j].tid>> \in Installed(j)'
      BY <2>1, ReadSetKept
    <3>2. QED BY <2>1, <3>1
  <2>5. QED BY <2>2, <2>3, <2>4 DEF ReadSetInv, Growing, KindsApart
<1>5. CASE rset'[t] = rset[t] /\ rdata'[t] = rdata[t] /\ seen'[t] = seen[t]
  BY <1>5, ReadSetKept
<1>6. QED
  <2>1. CASE \E i \in Item : ObserveNonopaque(t, i) /\ Stopped(t, FALSE)
    <3>1. PICK i \in Item : ObserveNonopaque(t, i) /\ Stopped(t, FALSE)
      BY <2>1
    <3>2. pc'[t] = "idle"
      BY <3>1, <1>a DEF Stopped, Goto, CallType
    <3>3. UNCHANGED <<rset, rdata, seen>>
      BY <3>1, <3>2, <1>a DEF ObserveNonopaque, Goto, CallType, histVars
    <3>4. QED BY <3>3, <1>5
  <2>2. CASE (CheckOpacity(t) \/ HardCheckItem(t)) /\ ~AddRead(t)
    BY <2>2, <1>5 DEF CheckOpacity, HardCheckItem
  <2>3. CASE UNCHANGED <<rset, rdata, seen>>
    BY <2>3, <1>5
  <2>4. QED
    BY <2>1, <2>2, <2>3, <1>1, <1>2, <1>3, <1>4
    DEF UserStep, LibraryStep, setVars, histVars, BeginRead, Write,
     UserAbort, TryCommit, RetryRead, ReadValue, ReadVersion, HardCheckTid,
     LockSkip, LockLoad, LockCas, CountSpin, CheckItem,
     InstallSkip, InstallValue, FetchTid, InstallVersion, Unlock, UnlockEnds

(* A read under way stays as good as it was while it makes no step itself. *)
LEMMA ReadCallKept ==
  ASSUME IInv, IInv', NEW t \in Thread, WorkloadInv(t),
         UserStep(t) \/ LibraryStep(t), NEW u \in Thread, ReadCallInv(u),
         rset'[u] = rset[u], rdata'[u] = rdata[u],
         obs'[u] = obs[u], res'[u] = res[u], cur'[u] = cur[u],
         \/ pc'[u] = pc[u]
         \/ pc[u] \in {"tco", "hco_tid", "hco"} /\ pc'[u] \in {"hco_tid", "hco"}
  PROVE  ReadCallInv(u)'
<1>a. obs[u].tid \in Nat
  BY DEF IInv, TypeOK, CallType, Version
<1>1. pc[u] \in Reading => cur[u] \in Growing /\ cur[u] \in Item
  BY ItemAssumption DEF IInv, ControlInv, Growing
<1>2. pc'[u] \in Reading \ {"rd_v0"} =>
        /\ obs[u].tid <= ver'[cur[u]].tid
        /\ cur[u] \in rset[u] => rdata[u][cur[u]].tid <= obs[u].tid
  <2>1. pc'[u] \in Reading \ {"rd_v0"} => pc[u] \in Reading \ {"rd_v0"}
    BY DEF Reading
  <2>2. QED BY <1>a, <1>1, <2>1, VersionsGrow DEF ReadCallInv
<1>3. pc'[u] = "rd_v1" => AsNewAs(cur[u], res[u], obs[u].tid)'
  <2> SUFFICES ASSUME pc[u] = "rd_v1"
               PROVE  AsNewAs(cur[u], res[u], obs[u].tid)'
    OBVIOUS
  <2>1. PICK i \in Growing : i = cur[u]
    BY <1>1 DEF Reading
  <2>2. PICK tid \in Nat : tid = obs[u].tid
    BY <1>a
  <2>3. PICK x \in {res[u]} : TRUE
    OBVIOUS
  <2>4. AsNewAs(i, x, tid) /\ tid <= ver[i].tid
    BY <2>1, <2>2, <2>3 DEF ReadCallInv, Reading
  <2>5. AsNewAs(i, x, tid)'
    BY <2>4, AsNewAsStays
  <2>6. QED BY <2>1, <2>2, <2>3, <2>5 DEF AsNewAs
<1>4. pc'[u] \in {"tco", "hco_tid", "hco"} =>
        obs[u].lock = NoThread /\ <<res[u], obs[u].tid>> \in Installed(cur[u])'
  <2> SUFFICES ASSUME pc[u] \in {"tco", "hco_tid", "hco"}
               PROVE  obs[u].lock = NoThread /\ <<res[u], obs[u].tid>> \in Installed(cur[u])'
    OBVIOUS
  <2>1. PICK i \in Item : i = cur[u]
    BY <1>1 DEF Reading
  <2>2. obs[u].lock = NoThread /\ <<res[u], obs[u].tid>> \in Installed(i)
    BY <2>1 DEF ReadCallInv
  <2>3. <<res[u], obs[u].tid>> \in Installed(i)'
    BY <2>2, InstalledStays
  <2>4. QED BY <2>1, <2>2, <2>3 DEF Installed
<1>5. pc'[u] = "rd_nval" => cur[u] \in rset[u]
  BY DEF ReadCallInv
<1>6. QED BY <1>2, <1>3, <1>4, <1>5 DEF ReadCallInv

(* Outside a read there is nothing to say.                                 *)
LEMMA NotReading ==
  ASSUME NEW u \in Thread, pc'[u] \notin Reading \cup {"rd_nval"}
  PROVE  ReadCallInv(u)'
BY DEF ReadCallInv, Reading

(* read_atomic, load by load: whatever writers do between the loads, the   *)
(* value goes with the version when the second version load agrees.        *)
LEMMA ReadCallStep ==
  ASSUME IInv, IInv', ValueInv, GrowthInv, NEW t \in Thread, WorkloadInv(t),
         UserStep(t) \/ LibraryStep(t), ReadSetInv(t), ReadCallInv(t)
  PROVE  ReadCallInv(t)'
<1>a. /\ SetType /\ CallType /\ HistoryType /\ MemoryType /\ ControlInv(t)
      /\ Opaque \subseteq Item /\ Opaque \subseteq Growing
  BY ItemAssumption DEF IInv, TypeOK, Growing
<1>b. \A i \in Item : ver[i].tid \in Nat
  BY <1>a DEF MemoryType, Version
<1>1. CASE RetryRead(t) \/ \E i \in Item : BeginRead(t, i)
  <2>1. PICK i \in Opaque :
          /\ pc'[t] = "rd_val" /\ cur'[t] = i /\ obs'[t] = ver[i]
          /\ UNCHANGED <<ver, rset, rdata>>
    BY <1>1, <1>a DEF RetryRead, BeginRead, CallType, Goto, setVars, sharedVars,
       ControlInv, Reading
  <2>2. i \in rset[t] => rdata[t][i].tid <= ver[i].tid
    BY <1>a DEF ReadSetInv
  <2>3. QED BY <1>a, <1>b, <2>1, <2>2 DEF ReadCallInv
<1>2. CASE ReadValue(t)
  <2>1. PICK i \in Opaque : i = cur[t] /\ i \in Item /\ i \in Growing
    BY <1>2, <1>a DEF ReadValue, ControlInv, Reading
  <2>2. /\ pc[t] = "rd_val" /\ pc'[t] = "rd_v1" /\ res'[t] = val[i]
        /\ UNCHANGED <<ver, rset, rdata, obs, cur>>
    BY <1>2, <1>a, <2>1 DEF ReadValue, CallType, Goto, setVars, sharedVars
  <2>3. /\ obs[t].tid \in Nat /\ obs[t].tid <= ver[i].tid
        /\ (i \in rset[t] => rdata[t][i].tid <= obs[t].tid)
    BY <1>a, <2>1, <2>2 DEF ReadCallInv, Reading, CallType, Version
  <2>4. PICK tid \in Nat : tid = obs[t].tid
    BY <2>3
  <2>5. PICK x \in {val[i]} : TRUE
    OBVIOUS
  <2>6. AsNewAs(i, x, tid)
    BY <2>1, <2>3, <2>4, <2>5, AsNewAsNow
  <2>7. AsNewAs(i, x, tid)'
    BY <2>1, <2>3, <2>4, <2>6, AsNewAsStays
  <2>8. AsNewAs(cur[t], res[t], obs[t].tid)'
    BY <2>1, <2>2, <2>4, <2>5, <2>7 DEF AsNewAs
  <2>9. QED BY <2>1, <2>2, <2>3, <2>8 DEF ReadCallInv
<1>3. CASE ReadVersion(t)
  <2>1. PICK i \in Opaque : i = cur[t] /\ i \in Item /\ i \in Growing
    BY <1>3, <1>a DEF ReadVersion, ControlInv, Reading
  <2>2. pc[t] = "rd_v1" /\ UNCHANGED <<ver, log, rset, rdata>>
    BY <1>3 DEF ReadVersion, setVars, sharedVars, histVars
  <2>3. CASE Stopped(t, FALSE)
    <3>1. pc'[t] = "idle"
      BY <2>3, <1>a DEF Stopped, Goto, CallType
    <3>2. QED BY <3>1, NotReading DEF Reading
  <2>4. CASE /\ ReadSettled(obs[t], ver[i]) /\ ~is_locked_elsewhere(ver[i], t)
             /\ obs' = [obs EXCEPT ![t] = ver[i]] /\ Goto(t, "tco")
             /\ UNCHANGED <<cur, res>>
    <3>1. ver[i].lock = NoThread /\ \A u \in Thread : ~Storing(u, i)
      BY <2>1, <2>2, <2>4, NotLocked DEF Reading
    <3>2. obs[t] = ver[i]
      BY <2>4, <3>1 DEF ReadSettled, is_locked
    <3>3. AsNewAs(i, res[t], ver[i].tid)
      BY <2>1, <2>2, <3>2 DEF ReadCallInv
    <3>4. <<res[t], ver[i].tid>> \in Installed(i)
      BY <2>1, <3>1, <3>3, UnchangedIsCurrent
    <3>5. pc'[t] = "tco" /\ obs'[t] = ver[i]
      BY <2>4, <1>a DEF Goto, CallType
    <3>6. i \in rset[t] => rdata[t][i].tid <= ver[i].tid
      BY <2>1 DEF ReadSetInv
    <3>7. QED BY <1>b, <2>1, <2>2, <2>4, <3>1, <3>4, <3>5, <3>6 DEF ReadCallInv, Installed
  <2>5. CASE Goto(t, "rd_v0")
    <3>1. pc'[t] = "rd_v0"
      BY <2>5, <1>a DEF Goto, CallType
    <3>2. QED BY <3>1 DEF ReadCallInv
  <2>6. QED BY <1>3, <2>1, <2>3, <2>4, <2>5 DEF ReadVersion
<1>4. CASE \E i \in Item : ObserveNonopaque(t, i)
  <2>1. PICK i \in Item : ObserveNonopaque(t, i)
    BY <1>4
  <2>2. CASE Stopped(t, FALSE)
    <3>1. pc'[t] = "idle"
      BY <2>2, <1>a DEF Stopped, Goto, CallType
    <3>2. QED BY <3>1, NotReading DEF Reading
  <2>3. CASE /\ rset' = [rset EXCEPT ![t] = @ \cup {i}]
             /\ cur' = [cur EXCEPT ![t] = i] /\ Goto(t, "rd_nval")
    <3>1. pc'[t] = "rd_nval" /\ cur'[t] \in rset'[t]
      BY <2>3, <1>a DEF Goto, CallType, SetType
    <3>2. QED BY <3>1 DEF ReadCallInv, Reading
  <2>4. QED BY <2>1, <2>2, <2>3 DEF ObserveNonopaque
<1>5. CASE CheckOpacity(t) \/ HardCheckTid(t) \/ HardCheckItem(t)
  <2>1. CASE pc'[t] \in {"idle", "run"}
    BY <2>1, NotReading DEF Reading
  <2>2. CASE /\ pc'[t] \in {"hco_tid", "hco"} /\ pc[t] \in {"tco", "hco_tid", "hco"}
             /\ UNCHANGED <<rset, rdata, readVars>>
    BY <2>2, ReadCallKept DEF readVars
  <2>3. CheckOpacity(t) => (Goto(t, "run") \/ (pc[t] = "tco" /\ Goto(t, "hco_tid") /\ UNCHANGED <<rset, rdata, readVars>>))
    BY DEF CheckOpacity
  <2>4. HardCheckTid(t) => pc[t] = "hco_tid" /\ Goto(t, "hco") /\ UNCHANGED <<rset, rdata, readVars>>
    BY DEF HardCheckTid, setVars
  <2>5. HardCheckItem(t) => (Goto(t, "run") \/ Goto(t, "idle") \/ (pc[t] = "hco" /\ UNCHANGED <<pc, rset, rdata, readVars>>))
    BY DEF HardCheckItem, Stopped
  <2>6. \A label \in {"idle", "run", "hco_tid", "hco"} : Goto(t, label) => pc'[t] = label
    BY <1>a DEF Goto, CallType
  <2>7. QED BY <1>5, <2>1, <2>2, <2>3, <2>4, <2>5, <2>6
<1>6. CASE \/ Start(t) \/ UserAbort(t) \/ TryCommit(t) \/ ReadNonopaqueValue(t)
           \/ \E i \in Item : Write(t, i)
  <2>1. pc'[t] \in {"idle", "run", "lock"}
    BY <1>6, <1>a DEF Start, UserAbort, TryCommit, ReadNonopaqueValue, Write, Stopped,
       Goto, CallType
  <2>2. QED BY <2>1, NotReading DEF Reading
<1>7. CASE \/ LockSkip(t) \/ LockLoad(t) \/ LockCas(t) \/ CheckItem(t)
           \/ InstallSkip(t) \/ InstallValue(t) \/ FetchTid(t) \/ InstallVersion(t)
           \/ Unlock(t)
  <2>1. \/ pc' = pc /\ pc[t] \in {"check", "unlock"}
        \/ \E label \in {"idle", "lock", "cas", "check", "unlock"} \cup Installing :
             Goto(t, label)
    BY <1>7 DEF LockSkip, LockLoad, LockCas, CheckItem, InstallSkip, InstallValue,
       FetchTid, InstallVersion, Unlock, NextToLock, NextToInstall, AbortLocked,
       Stopped, Installing
  <2>2. pc'[t] \in {"idle", "lock", "cas", "check", "unlock"} \cup Installing
    BY <2>1, <1>a DEF Goto, CallType
  <2>3. QED BY <2>2, NotReading DEF Reading, Installing
<1>8. QED
  BY <1>1, <1>2, <1>3, <1>4, <1>5, <1>6, <1>7 DEF UserStep, LibraryStep

(* Once a read is outdated it stays so.                                    *)
LEMMA OutdatedStays ==
  ASSUME IInv, IInv', NEW t \in Thread, WorkloadInv(t),
         UserStep(t) \/ LibraryStep(t), NEW u \in Thread, ReadSetInv(u),
         NEW i \in rset[u], i \in Growing, rdata'[u] = rdata[u], Outdated(u, i)
  PROVE  Outdated(u, i)'
<1>a. i \in Item /\ rdata[u][i].tid \in Nat /\ rdata[u][i].tid <= ver[i].tid
  BY DEF IInv, TypeOK, SetType, Version, ReadSetInv
<1>g. ver[i].tid \in Nat /\ ver'[i].tid \in Nat /\ ver[i].tid <= ver'[i].tid
  BY VersionsGrow
<1>1. CASE rdata[u][i].tid < ver[i].tid
  BY <1>1, <1>a, <1>g DEF Outdated
<1>2. CASE \E w \in Thread : Storing(w, i)
  <2>1. PICK w \in Thread : Storing(w, i)
    BY <1>2
  <2>2. CASE Storing(w, i)'
    BY <2>2 DEF Outdated
  <2>3. CASE InstallVersion(t) /\ StoresVersion(t, i)
    <3>1. ver[i].tid < ver'[i].tid
      BY <1>a, <2>3, NewerVersion, LogGrows
    <3>2. QED BY <1>a, <1>g, <3>1 DEF Outdated
  <2>4. QED
    <3>1. CASE \E j \in Item : InstallVersion(t) /\ StoresVersion(t, j)
      <4>1. PICK j \in Item : InstallVersion(t) /\ StoresVersion(t, j)
        BY <3>1
      <4>2. CASE w = t
        BY <4>1, <4>2, <2>1, <2>3 DEF StoresVersion, Storing
      <4>3. CASE w # t
        BY <4>1, <4>3, <1>a, <2>1, <2>2 DEF StoresVersion
      <4>4. QED BY <4>2, <4>3
    <3>2. CASE ~(\E j \in Item : InstallVersion(t) /\ StoresVersion(t, j))
      BY <3>2, <1>a, <2>1, <2>2, Footprint DEF StoresNothing, StoresValue
    <3>3. QED BY <3>1, <3>2
<1>3. QED BY <1>1, <1>2 DEF Outdated

(* A read that no longer has the current value is outdated.                *)
LEMMA StaleIsOutdated ==
  ASSUME IInv, ValueInv, GrowthInv, NEW t \in Thread, ReadSetInv(t),
         NEW p \in seen[t], p[1] \in Growing, val[p[1]] # p[2]
  PROVE  p[1] \in rset[t] /\ Outdated(t, p[1])
<1>a. /\ p[1] \in rset[t] /\ p[1] \in Item
      /\ AsNewAs(p[1], p[2], rdata[t][p[1]].tid)
      /\ rdata[t][p[1]].tid <= ver[p[1]].tid
      /\ rdata[t][p[1]].tid \in Nat /\ ver[p[1]].tid \in Nat
  BY DEF ReadSetInv, Growing, IInv, TypeOK, SetType, MemoryType, Version
<1>1. CASE rdata[t][p[1]].tid = ver[p[1]].tid /\ \A u \in Thread : ~Storing(u, p[1])
  <2>1. p[2] = CurrentValue(p[1])
    BY <1>a, <1>1, UnchangedIsCurrent
  <2>2. val[p[1]] = CurrentValue(p[1])
    BY <1>a, <1>1 DEF ValueInv
  <2>3. QED BY <2>1, <2>2
<1>2. QED BY <1>a, <1>1 DEF Outdated

(* What the check of an item finds out: the version has not been replaced  *)
(* and no other thread is about to.                                        *)
LEMMA CheckedNotOutdated ==
  ASSUME IInv, NEW t \in Thread, pc[t] \notin Installing, ReadSetInv(t),
         NEW i \in rset[t], check_version(ver[i], rdata[t][i], t)
  PROVE  /\ ~Outdated(t, i) /\ rdata[t][i].tid = ver[i].tid
         /\ ver[i].lock \in {NoThread, t}
         /\ \A u \in Thread : ~Storing(u, i)
<1>a. i \in Item /\ rdata[t][i] \in Version /\ rdata[t][i].tid \in Nat
  BY DEF IInv, TypeOK, SetType, Version
<1>1. ver[i].tid = rdata[t][i].tid /\ ver[i].lock \in {NoThread, t}
  BY <1>a, LockedWord DEF check_version, ReadSetInv
<1>2. \A u \in Thread : ~Storing(u, i)
  <2>1. ASSUME NEW u \in Thread, Storing(u, i) PROVE FALSE
    <3>1. ver[i].lock = u
      BY <1>a, <2>1, StoringLocked
    <3>2. u = t
      BY <1>1, <3>1, ThreadAssumption
    <3>3. QED BY <2>1, <3>2 DEF Storing, Installing
  <2>2. QED BY <2>1
<1>3. QED BY <1>a, <1>1, <1>2 DEF Outdated

(* Where fresh and the state of a commit can change.                       *)
LEMMA CommitPhase ==
  ASSUME IInv, IInv', NEW t \in Thread, UserStep(t) \/ LibraryStep(t)
  PROVE  /\ pc'[t] = "check" =>
              \/ /\ pc[t] \in Locking /\ fresh'[t] = SeenCurrent(t) /\ k'[t] = 1
                 /\ UNCHANGED <<tset, rset, rdata, seen, wset>>
              \/ /\ pc[t] = "check" /\ CheckItem(t) /\ ItemChecks(t)
                 /\ k'[t] = k[t] + 1 /\ k[t] < Len(tset[t])
                 /\ UNCHANGED <<tset, rset, rdata, seen, fresh, wset>>
         /\ pc'[t] \in Installing \/ state'[t] = "committed" =>
              \/ /\ pc[t] \in Installing \cup {"check"}
                 /\ pc[t] = "check" => ItemChecks(t) /\ k[t] = Len(tset[t])
                 /\ UNCHANGED <<tset, rset, rdata, seen, fresh, wset>>
              \/ ReadOnlyCommits(t)' /\ state'[t] = "committed" /\ pc'[t] = "idle"
<1>a. CallType /\ HistoryType /\ ControlInv(t) /\ SetType
  BY DEF IInv, TypeOK
<1>1. CASE LockSkip(t) \/ LockCas(t)
  <2>1. pc[t] \in Locking /\ UNCHANGED <<state, tset, rset, rdata, seen, wset>>
    BY <1>1 DEF LockSkip, LockCas, Locking, setVars
  <2>2. \/ /\ k' = [k EXCEPT ![t] = 1] /\ fresh' = [fresh EXCEPT ![t] = SeenCurrent(t)]
           /\ Goto(t, "check")
        \/ Goto(t, "lock") \/ Goto(t, "unlock")
    BY <1>1 DEF LockSkip, LockCas, NextToLock, AbortLocked
  <2>3. state[t] # "committed"
    BY <2>1, <1>a DEF ControlInv, Locking
  <2>4. QED BY <1>a, <2>1, <2>2, <2>3 DEF CallType, HistoryType, Goto, Installing
<1>2. CASE CheckItem(t)
  <2>1. /\ pc[t] = "check" /\ UNCHANGED <<tset, rset, rdata, seen, fresh, wset>>
        /\ state[t] # "committed"
    BY <1>2, <1>a DEF CheckItem, setVars, ControlInv
  <2>2. \/ Goto(t, "unlock") /\ state' = state
        \/ Stopped(t, FALSE)
        \/ /\ ItemChecks(t) /\ k[t] < Len(tset[t]) /\ k' = [k EXCEPT ![t] = @ + 1]
           /\ UNCHANGED <<state, pc>>
        \/ /\ ItemChecks(t) /\ k[t] = Len(tset[t])
           /\ Goto(t, "inst_val") \/ Goto(t, "idle")
    BY <1>2 DEF CheckItem, AbortLocked, Stopped
  <2>3. QED BY <1>a, <1>2, <2>1, <2>2 DEF CallType, Goto, Stopped, Installing
<1>3. CASE InstallSkip(t) \/ InstallValue(t) \/ FetchTid(t) \/ InstallVersion(t)
  <2>1. pc[t] \in Installing /\ UNCHANGED <<tset, rset, rdata, seen, fresh, wset>>
    BY <1>3 DEF InstallSkip, InstallValue, FetchTid, InstallVersion, Installing,
       setVars, histVars
  <2>2. \E label \in Installing \cup {"idle"} : Goto(t, label)
    BY <1>3 DEF InstallSkip, InstallValue, FetchTid, InstallVersion, Installing,
       NextToInstall, Stopped
  <2>3. pc'[t] \in Installing \cup {"idle"}
    BY <2>2, <1>a DEF Goto, CallType
  <2>4. QED BY <2>1, <2>3 DEF Installing
<1>4. CASE TryCommit(t)
  <2>1. \/ ReadOnlyCommits(t) /\ Stopped(t, TRUE)
        \/ state' = [state EXCEPT ![t] = "committing"] /\ Goto(t, "lock")
    BY <1>4 DEF TryCommit
  <2>2. ReadOnlyCommits(t) => ReadOnlyCommits(t)'
    BY <1>4 DEF TryCommit, ReadOnlyCommits, any_writes, any_nonopaque, setVars
  <2>3. QED BY <1>a, <2>1, <2>2 DEF CallType, Goto, Stopped, Installing
<1>5. CASE ~(\/ LockSkip(t) \/ LockCas(t) \/ CheckItem(t) \/ TryCommit(t)
             \/ InstallSkip(t) \/ InstallValue(t) \/ FetchTid(t) \/ InstallVersion(t))
  <2>1. /\ \/ \E label \in {"idle", "run", "lock", "cas", "unlock", "rd_nval"} \cup Reading : Goto(t, label)
           \/ pc' = pc /\ pc[t] \in {"hco", "run", "unlock"}
        /\ \/ \E s \in {"in_progress", "opacity_check", "committing_locked", "aborted"} :
                state' = [state EXCEPT ![t] = s]
           \/ state' = state /\ pc[t] # "idle"
    BY <1>5 DEF UserStep, LibraryStep, Reading, Stopped, Start, BeginRead,
     ObserveNonopaque, Write, UserAbort, RetryRead, ReadValue,
     ReadVersion, CheckOpacity, HardCheckTid, HardCheckItem,
     ReadNonopaqueValue, LockLoad, Unlock, UnlockEnds
  <2>2. pc[t] # "idle" => state[t] # "committed"
    BY <1>a DEF ControlInv, CallType, InCall, Installing
  <2>3. pc'[t] \notin Installing \cup {"check"} /\ state'[t] # "committed"
    BY <1>a, <2>1, <2>2 DEF CallType, Goto, Reading, Installing
  <2>4. QED BY <2>3
<1>6. QED BY <1>1, <1>2, <1>3, <1>4, <1>5

(* Validation: if a value was stale at the lock point, its item is         *)
(* outdated then and the check phase stops at it at the latest.            *)
LEMMA FreshStep ==
  ASSUME IInv, IInv', ValueInv, GrowthInv, NEW t \in Thread,
         \A u \in Thread : WorkloadInv(u) /\ ReadSetInv(u) /\ FreshInv(u),
         UserStep(t) \/ LibraryStep(t), ReadsGrowing, NEW u \in Thread
  PROVE  FreshInv(u)'
<1>a. /\ rset[u] \subseteq Growing /\ tset[u] \in Seq(Item) /\ k[u] \in Nat
      /\ Len(tset[u]) \in Nat /\ k[u] <= Len(tset[u])
      /\ \A i \in rset[u] : \E j \in 1 .. Len(tset[u]) : tset[u][j] = i
  BY DEF ReadsGrowing, WorkloadInv, IInv, TypeOK, SetType, SetInv, CallType, ControlInv
<1>1. CASE u # t
  <2>1. /\ pc'[u] = pc[u] /\ state'[u] = state[u] /\ fresh'[u] = fresh[u]
        /\ rset'[u] = rset[u] /\ wset'[u] = wset[u] /\ tset'[u] = tset[u]
        /\ k'[u] = k[u] /\ rdata'[u] = rdata[u]
    BY <1>1, OtherThreads, OtherReads DEF IInv
  <2>2. PastValidation(u)' => PastValidation(u)
    BY <2>1 DEF PastValidation, ReadOnlyCommits, any_writes, any_nonopaque
  <2>3. \A i \in rset[u] : Outdated(u, i) => Outdated(u, i)'
    BY <1>a, <2>1, OutdatedStays
  <2>4. QED BY <2>1, <2>2, <2>3 DEF FreshInv, Outdated
<1>2. CASE u = t
  <2>1. PastValidation(t)' => fresh'[t]
    <3> SUFFICES ASSUME PastValidation(t)' PROVE fresh'[t]
      OBVIOUS
    <3>1. /\ pc[t] \in Installing \cup {"check"}
          /\ pc[t] = "check" => ItemChecks(t) /\ k[t] = Len(tset[t])
          /\ fresh' = fresh
      BY CommitPhase DEF PastValidation, Installing
    <3>2. CASE pc[t] \in Installing
      BY <3>1, <3>2 DEF FreshInv, PastValidation, Installing
    <3>3. CASE pc[t] = "check" /\ ~fresh[t]
      <4>1. PICK j \in k[t] .. Len(tset[t]) : tset[t][j] \in rset[t] /\ Outdated(t, tset[t][j])
        BY <3>3 DEF FreshInv
      <4>2. j = k[t]
        BY <1>2, <1>a, <3>1, <3>3
      <4>3. check_version(ver[tset[t][j]], rdata[t][tset[t][j]], t)
        BY <3>1, <3>3, <4>1, <4>2 DEF ItemChecks
      <4>4. QED BY <3>3, <4>1, <4>3, CheckedNotOutdated DEF Installing
    <3>4. fresh[t] => fresh'[t]
      BY <3>1
    <3>5. QED BY <3>1, <3>2, <3>3, <3>4
  <2>2. ASSUME pc'[t] = "check", ~fresh'[t]
        PROVE  \E j \in k'[t] .. Len(tset'[t]) :
                 tset'[t][j] \in rset'[t] /\ Outdated(t, tset[t][j])'
    <3>1. CASE /\ fresh'[t] = SeenCurrent(t) /\ k'[t] = 1
               /\ UNCHANGED <<tset, rset, rdata, seen, wset>>
      <4>1. PICK p \in seen[t] : val[p[1]] # p[2]
        BY <2>2, <3>1 DEF SeenCurrent
      <4>2. p[1] \in rset[t] /\ p[1] \in Growing
        BY <1>2, <1>a DEF ReadSetInv
      <4>3. Outdated(t, p[1])
        BY <4>1, <4>2, StaleIsOutdated
      <4>4. PICK i \in rset[t] : i = p[1]
        BY <4>2
      <4>5. Outdated(t, i)'
        BY <3>1, <4>2, <4>3, <4>4, OutdatedStays
      <4>6. PICK j \in 1 .. Len(tset[t]) : tset[t][j] = i
        BY <1>2, <1>a
      <4>7. Outdated(t, tset[t][j])'
        BY <3>1, <4>5, <4>6 DEF Outdated
      <4>8. QED BY <3>1, <4>6, <4>7
    <3>2. CASE /\ pc[t] = "check" /\ ItemChecks(t)
               /\ k'[t] = k[t] + 1 /\ k[t] < Len(tset[t])
               /\ UNCHANGED <<tset, rset, rdata, seen, fresh, wset>>
      <4>1. PICK j \in k[t] .. Len(tset[t]) : tset[t][j] \in rset[t] /\ Outdated(t, tset[t][j])
        BY <2>2, <3>2 DEF FreshInv
      <4>2. j # k[t]
        <5>1. SUFFICES ASSUME j = k[t] PROVE FALSE
          OBVIOUS
        <5>2. check_version(ver[tset[t][j]], rdata[t][tset[t][j]], t)
          BY <3>2, <4>1, <5>1 DEF ItemChecks
        <5>3. QED BY <3>2, <4>1, <5>2, CheckedNotOutdated DEF Installing
      <4>3. j \in k'[t] .. Len(tset'[t])
        BY <1>2, <1>a, <3>2, <4>2
      <4>4. PICK i \in rset[t] : i = tset[t][j]
        BY <4>1
      <4>5. Outdated(t, i)'
        BY <1>2, <1>a, <3>2, <4>1, <4>4, OutdatedStays
      <4>6. Outdated(t, tset[t][j])'
        BY <3>2, <4>4, <4>5 DEF Outdated
      <4>7. QED BY <3>2, <4>1, <4>3, <4>6
    <3>3. QED BY <2>2, <3>1, <3>2, CommitPhase
  <2>3. QED BY <1>2, <2>1, <2>2 DEF FreshInv, Outdated
<1>3. QED BY <1>1, <1>2

(* Initially nothing has been read or installed.                           *)
LEMMA ReadsInvInit == Init => ReadsInv
<1> SUFFICES ASSUME Init PROVE ReadsInv
  OBVIOUS
<1>1. /\ \A i \in Item : log[i] = <<>> /\ val[i] = InitialToken /\ ver[i].tid = 0
      /\ \A t \in Thread : /\ pc[t] = "idle" /\ state[t] = "aborted" /\ rset[t] = {}
                           /\ wset[t] = {} /\ seen[t] = {}
      /\ hist = {}
  BY DEF Init, FreshVersion
<1>2. ValueInv
  BY <1>1 DEF ValueInv, CurrentTid, CurrentValue, Storing
<1>3. \A i \in Item : 1 .. Len(log[i]) = {}
  BY <1>1
<1>4. CommitInv
  BY <1>1, <1>3 DEF CommitInv, Installing
<1>5. GrowthInv
  BY <1>3 DEF GrowthInv, Growing
<1>6. \A t \in Thread : WorkloadInv(t) /\ ReadSetInv(t) /\ ReadCallInv(t) /\ FreshInv(t)
  BY <1>1 DEF WorkloadInv, ReadSetInv, ReadCallInv, FreshInv, PastValidation, Reading,
     Installing
<1>7. QED BY <1>2, <1>4, <1>5, <1>6 DEF ReadsInv

(* Every step preserves it.                                                *)
LEMMA ReadsInvStep ==
  ASSUME IInv, IInv', ReadsInv, [Next]_vars
  PROVE  ReadsInv'
<1>1. CASE \E t \in Thread : UserStep(t) \/ LibraryStep(t)
  <2> PICK t \in Thread : UserStep(t) \/ LibraryStep(t)
    BY <1>1
  <2>1. /\ ValueInv /\ CommitInv /\ GrowthInv
        /\ \A u \in Thread : WorkloadInv(u) /\ ReadSetInv(u) /\ ReadCallInv(u)
        /\ ReadsGrowing => \A u \in Thread : FreshInv(u)
    BY DEF ReadsInv
  <2>2. ValueInv' /\ CommitInv' /\ GrowthInv'
    BY <2>1, ValueStep, CommitStep, GrowthStep
  <2>3. WorkloadInv(t)' /\ ReadSetInv(t)' /\ ReadCallInv(t)'
    BY <2>1, WorkloadStep, ReadSetStep, ReadCallStep
  <2>4. ASSUME NEW u \in Thread, u # t
        PROVE  WorkloadInv(u)' /\ ReadSetInv(u)' /\ ReadCallInv(u)'
    <3>1. /\ pc'[u] = pc[u] /\ k'[u] = k[u] /\ cur'[u] = cur[u] /\ tset'[u] = tset[u]
          /\ rset'[u] = rset[u] /\ wset'[u] = wset[u] /\ commit_tid'[u] = commit_tid[u]
          /\ rdata'[u] = rdata[u] /\ seen'[u] = seen[u]
          /\ obs'[u] = obs[u] /\ res'[u] = res[u]
      BY <2>4, OtherThreads, OtherReads DEF IInv
    <3>2. WorkloadInv(u)'
      BY <2>1, <3>1 DEF WorkloadInv
    <3>3. ReadSetInv(u)'
      BY <2>1, <3>1, ReadSetKept
    <3>4. ReadCallInv(u)'
      BY <2>1, <3>1, ReadCallKept
    <3>5. QED BY <3>2, <3>3, <3>4
  <2>5. ReadsGrowing => \A u \in Thread : FreshInv(u)'
    BY <2>1, FreshStep
  <2>6. QED BY <2>2, <2>3, <2>4, <2>5 DEF ReadsInv, ReadsGrowing, Growing, KindsApart
<1>2. CASE UNCHANGED vars
  <2>1. \A u \in Thread, i \in Item : Storing(u, i)' = Storing(u, i) /\ Me(u)' = Me(u)
    BY <1>2 DEF vars, setVars, Storing, Me
  <2>2. ValueInv' /\ CommitInv' /\ GrowthInv'
    BY <1>2 DEF ReadsInv, vars, sharedVars, setVars, histVars, ValueInv, CommitInv,
       GrowthInv, CurrentTid, CurrentValue, Growing, KindsApart, Storing, Me
  <2>3. \A u \in Thread : WorkloadInv(u)' /\ ReadSetInv(u)' /\ ReadCallInv(u)'
    BY <1>2 DEF ReadsInv, vars, sharedVars, setVars, tidVars, readVars, histVars,
       WorkloadInv, ReadSetInv, ReadCallInv, AsNewAs, Installed, Growing, KindsApart,
       Storing, Me
  <2>4. ReadsGrowing => \A u \in Thread : FreshInv(u)'
    BY <1>2 DEF ReadsInv, vars, sharedVars, setVars, tidVars, readVars, histVars,
       FreshInv, PastValidation, ReadOnlyCommits, any_writes, any_nonopaque, Outdated,
       Storing
  <2>5. QED BY <2>2, <2>3, <2>4 DEF ReadsInv, ReadsGrowing, Growing, KindsApart
<1>3. QED BY <1>1, <1>2 DEF Next

(* In every reachable state a read is as new as the version it will be     *)
(* checked by, for any number of threads and items and any workload.       *)
THEOREM ReadsInductive == Spec => []ReadsInv
<1>1. Init => ReadsInv
  BY ReadsInvInit
<1>2. IInv /\ IInv' /\ ReadsInv /\ [Next]_vars => ReadsInv'
  BY ReadsInvStep
<1>3. QED BY <1>1, <1>2, Inductive, PTL DEF Spec

(* An unlocked item holds a committed value: stop leaves nothing of an     *)
(* aborted transaction behind, and nobody finds a half-installed value     *)
(* without finding the item locked.                                        *)
THEOREM CommittedValues == Spec => []UnlockedValueCommitted
<1>1. IInv /\ ReadsInv => UnlockedValueCommitted
  <2> SUFFICES ASSUME IInv, ReadsInv, NEW i \in Item, ~is_locked(ver[i])
               PROVE  /\ val[i] = CurrentValue(i)
                      /\ val[i] # InitialToken => \E h \in hist : h.by = val[i]
    BY DEF UnlockedValueCommitted
  <2>1. \A u \in Thread : ~Storing(u, i)
    BY StoringLocked, ThreadAssumption DEF is_locked
  <2>2. val[i] = CurrentValue(i)
    BY <2>1 DEF ReadsInv, ValueInv
  <2>3. log[i] \in Seq(Token \X Nat)
    BY DEF IInv, TypeOK, HistoryType
  <2>4. log[i] # <<>> => Len(log[i]) \in 1 .. Len(log[i])
    BY <2>3
  <2>5. QED BY <2>2, <2>4 DEF CurrentValue, ReadsInv, CommitInv
<1>2. QED BY <1>1, Inductive, ReadsInductive, PTL

(* An opaque read returns a value together with the version it was         *)
(* installed with, in spite of the separate loads and stores.              *)
THEOREM PairedReads == Spec => []ReadPairs
<1>1. ReadsInv => ReadPairs
  BY DEF ReadsInv, ReadSetInv, ReadCallInv, ReadPairs
<1>2. QED BY <1>1, ReadsInductive, PTL

(* When no transaction writes both kinds of items, or only opaque items    *)
(* are read, a validated transaction's reads were all current when it had  *)
(* taken its last lock.                                                    *)
THEOREM AtomicAtLockPoint ==
  ASSUME ReadsGrowing
  PROVE  Spec => []LockPointReads
<1>1. ReadsInv => LockPointReads
  BY DEF ReadsInv, FreshInv, LockPointReads
<1>2. QED BY <1>1, ReadsInductive, PTL
============================================================================
