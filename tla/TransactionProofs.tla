------------------------- MODULE TransactionProofs -------------------------
(* Proofs about Transaction.tla: the invariant IInv is inductive, and with *)
(* it type correctness, the ownership of locks and the growth of versions  *)
(* hold for every value of the constants. Each part of IInv has one lemma  *)
(* for the thread that takes the step (TypeStep, SetStep, ControlStep,     *)
(* LocksStep); OtherThreads carries it over to all other threads;          *)
(* OwnershipStep and TidStep treat the parts that relate threads to each   *)
(* other.                                                                  *)
EXTENDS Transaction, TLAPS

(* The values that Transaction::start and the end of a call give to        *)
(* registers have their types.                                             *)
LEMMA Defaults ==
  /\ FreshVersion(TRUE) \in Version
  /\ InitialToken \in Token
  /\ 0 \in 0 .. SpinBound - 1
  BY SpinBoundAssumption DEF Version, FreshVersion, Token, InitialToken

(* Setting or clearing the lock bits of a version word (Interface.hh,      *)
(* try_lock and unlock) changes the owner and keeps the tid.               *)
LEMMA LockedWord ==
  ASSUME NEW v \in Version, NEW u \in Thread \cup {NoThread}
  PROVE  /\ locked(v, u) \in Version
         /\ locked(v, u).tid = v.tid
         /\ locked(v, u).lock = u
  BY DEF Version, locked

(* The word set_version_unlock stores is an unlocked version; with a       *)
(* commit tid it carries exactly that tid.                                 *)
LEMMA InstalledVersionType ==
  ASSUME TypeOK, NEW t \in Thread, NEW i \in Item
  PROVE  /\ InstalledVersion(t, i) \in Version
         /\ InstalledVersion(t, i).tid \in Nat
         /\ InstalledVersion(t, i).lock = NoThread
         /\ commit_tid[t] # 0 => InstalledVersion(t, i).tid = commit_tid[t]
  BY DEF TypeOK, MemoryType, TidType, Version, InstalledVersion, commit_version, next_unflagged_nonopaque_version

(* The registers of a finished call have their types.                      *)
LEMMA EndCallType ==
  ASSUME CallType, NEW t \in Thread, EndCall(t)
  PROVE  /\ k' \in [Thread -> Nat]
         /\ n' \in [Thread -> 0 .. SpinBound - 1]
         /\ cur' \in [Thread -> Item \cup {NoItem}]
         /\ obs' \in [Thread -> Version]
         /\ res' \in [Thread -> Token]
  BY Defaults DEF CallType, EndCall

(* Transaction::stop leaves state_ and the registers well typed.           *)
LEMMA StoppedType ==
  ASSUME CallType, NEW t \in Thread, NEW committed \in BOOLEAN,
         Stopped(t, committed)
  PROVE  CallType'
  BY EndCallType DEF CallType, Stopped, Goto, StateName

(* What a commit adds to the history is a commit record.                   *)
LEMMA CommitRecordType ==
  ASSUME TypeOK, NEW t \in Thread, NEW validated \in BOOLEAN
  PROVE  CommitRecord(t, validated) \in Committed
  BY DEF TypeOK, TidType, HistoryType, CommitRecord, Me, Committed, Token

(* observe (TransProxy::observe) adds a well-typed read to the read set.   *)
LEMMA AddReadType ==
  ASSUME SetType, CallType, HistoryType, NEW t \in Thread, cur[t] \in Item,
         AddRead(t)
  PROVE  /\ rset' \in [Thread -> SUBSET Item]
         /\ rdata' \in [Thread -> [Item -> Version]]
         /\ seen' \in [Thread -> SUBSET (Item \X Token)]
<1> DEFINE v == IF cur[t] \in rset[t] THEN rdata[t][cur[t]] ELSE obs[t]
<1>1. v \in Version
  BY DEF SetType, CallType
<1>2. rdata' = [rdata EXCEPT ![t] = [rdata[t] EXCEPT ![cur[t]] = v]]
  BY DEF AddRead, SetType
<1>3. rdata' \in [Thread -> [Item -> Version]]
  BY <1>1, <1>2 DEF SetType
<1>4. QED
  BY <1>3 DEF AddRead, SetType, CallType, HistoryType

(* Going on to the next item of the lock phase keeps the registers typed.  *)
LEMMA NextToLockType ==
  ASSUME CallType, HistoryType, TidType, NEW t \in Thread, NextToLock(t)
  PROVE  /\ k' \in [Thread -> Nat]
         /\ pc' \in [Thread -> {"idle", "run"} \cup InCall]
         /\ fresh' \in [Thread -> BOOLEAN]
         /\ order' \in Seq(Token)
<1>1. SeenCurrent(t) \in BOOLEAN
  BY Zenon DEF SeenCurrent
<1>2. k' = [k EXCEPT ![t] = 1] \/ k' = [k EXCEPT ![t] = @ + 1]
  BY DEF NextToLock
<1>3. pc' = [pc EXCEPT ![t] = "check"] \/ pc' = [pc EXCEPT ![t] = "lock"]
  BY DEF NextToLock, Goto
<1>4. fresh' = [fresh EXCEPT ![t] = SeenCurrent(t)] \/ fresh' = fresh
  BY DEF NextToLock
<1>5. k' \in [Thread -> Nat] /\ pc' \in [Thread -> {"idle", "run"} \cup InCall]
  BY <1>2, <1>3 DEF CallType, InCall
<1>6. fresh' \in [Thread -> BOOLEAN]
  BY <1>1, <1>4 DEF HistoryType
<1>7. order' = Append(order, Me(t)) \/ order' = order
  BY DEF NextToLock
<1>8. Me(t) \in Token
  BY DEF Me, Token, TidType
<1>9. order' \in Seq(Token)
  <2>1. order \in Seq(Token)
    BY DEF HistoryType
  <2>2. Append(order, Me(t)) \in Seq(Token)
    BY <1>8, <2>1
  <2>3. QED BY <1>7, <2>1, <2>2
<1>10. QED
  BY <1>5, <1>6, <1>9

(* Going on to the next item of the install phase keeps them typed.        *)
LEMMA NextToInstallType ==
  ASSUME CallType, NEW t \in Thread, NextToInstall(t)
  PROVE  CallType'
<1>1. CASE Stopped(t, TRUE)
  BY <1>1, StoppedType
<1>2. CASE /\ k' = [k EXCEPT ![t] = @ + 1]
           /\ Goto(t, "inst_val")
           /\ UNCHANGED <<state, n, readVars>>
  BY <1>2 DEF CallType, Goto, InCall, readVars
<1>3. QED
  BY <1>1, <1>2 DEF NextToInstall

(* Turning to stop(false) with locks held keeps them typed.                *)
LEMMA AbortLockedType ==
  ASSUME CallType, SetType, NEW t \in Thread, AbortLocked(t)
  PROVE  /\ k' \in [Thread -> Nat]
         /\ pc' \in [Thread -> {"idle", "run"} \cup InCall]
  BY DEF AbortLocked, CallType, SetType, Goto, InCall

(* The initial state is well typed.                                        *)
LEMMA TypeInit == Init => TypeOK
  BY ThreadAssumption, ItemAssumption, SpinBoundAssumption
  DEF Init, TypeOK, MemoryType, SetType, TidType, CallType, HistoryType, Version, FreshVersion, Token, InitialToken, StateName, FirstTid

(* Every step of every operation, from start to stop, keeps all variables  *)
(* in their domains; the spin count of try_lock stays below the bound      *)
(* because GivesUp comes first.                                            *)
LEMMA TypeStep ==
  ASSUME IInv, NEW t \in Thread, UserStep(t) \/ LibraryStep(t)
  PROVE  TypeOK'
<1>a. TypeOK /\ ControlInv(t) BY DEF IInv
<1>b. MemoryType /\ SetType /\ TidType /\ CallType /\ HistoryType
  BY <1>a DEF TypeOK
<1>c. pc[t] \in Reading \cup {"rd_nval"} => cur[t] \in Item
  BY <1>a, <1>b DEF ControlInv, SetType
<1>k. pc[t] \in Indexing => tset[t][k[t]] \in Item
  BY <1>a, <1>b DEF ControlInv, SetType, CallType
<1>1. CASE Start(t)
  <2>0. [i \in Item |-> FreshVersion(TRUE)] \in [Item -> Version]
    BY Defaults
  <2>9. rdata' \in [Thread -> [Item -> Version]]
    BY <1>1, <1>b, <2>0 DEF Start, SetType
  <2>8. tset' \in [Thread -> Seq(Item)]
    BY <1>1, <1>b DEF Start, SetType
  <2>7. rset' \in [Thread -> SUBSET Item] /\ wset' \in [Thread -> SUBSET Item]
    BY <1>1, <1>b DEF Start, SetType
  <2>6. lset' \in [Thread -> SUBSET Item]
    BY <1>1, <1>b DEF Start, SetType
  <2>1. SetType'
    BY <2>6, <2>7, <2>8, <2>9 DEF SetType
  <2>2. TidType'
    BY <1>1, <1>b DEF Start, TidType, MemoryType, CallType, tidVars
  <2>3. CallType'
    BY <1>1, <1>b DEF Start, CallType, Goto, InCall, StateName, MemoryType, readVars
  <2>4. HistoryType'
    BY <1>1, <1>b DEF Start, HistoryType, MemoryType, CallType, TidType, histVars
  <2> QED BY <2>1, <2>2, <2>3, <2>4, <1>1, <1>b DEF Start, TypeOK, MemoryType, sharedVars
<1>2. CASE \E i \in Item : BeginRead(t, i)
  <2>1. SetType'
    BY <1>2, <1>b DEF BeginRead, SetType, item, MemoryType, CallType, setVars
  <2>2. CallType'
    BY <1>2, <1>b DEF BeginRead, CallType, Goto, InCall, MemoryType, readVars
  <2> QED BY <2>1, <2>2, <1>2, <1>b DEF BeginRead, TypeOK, MemoryType, sharedVars, TidType, tidVars, HistoryType, histVars
<1>3. CASE RetryRead(t)
  <2>1. CallType'
    BY <1>3, <1>b, <1>c DEF RetryRead, CallType, Goto, InCall, Reading, MemoryType, readVars
  <2> QED BY <2>1, <1>3, <1>b DEF RetryRead, TypeOK, MemoryType, sharedVars, SetType, setVars, TidType, tidVars, HistoryType, histVars
<1>4. CASE ReadValue(t)
  <2>1. CallType'
    BY <1>4, <1>b, <1>c DEF ReadValue, CallType, Goto, InCall, Reading, MemoryType, readVars
  <2> QED BY <2>1, <1>4, <1>b DEF ReadValue, TypeOK, MemoryType, sharedVars, SetType, setVars, TidType, tidVars, HistoryType, histVars
<1>5. CASE ReadVersion(t)
  <2>1. CallType'
    BY <1>5, <1>b, <1>c, StoppedType DEF ReadVersion, CallType, Goto, InCall, Reading, MemoryType, readVars
  <2> QED BY <2>1, <1>5, <1>b DEF ReadVersion, TypeOK, MemoryType, sharedVars, SetType, setVars, TidType, tidVars, HistoryType, histVars
<1>6. CASE CheckOpacity(t)
  <2>1. SetType'
    BY <1>6, <1>b, <1>c, AddReadType DEF CheckOpacity, SetType, Reading
  <2>2. TidType'
    BY <1>6, <1>b DEF CheckOpacity, TidType, StartTid, MemoryType, CallType, tidVars
  <2>3. CallType'
    BY <1>6, <1>b, EndCallType DEF CheckOpacity, CallType, Goto, InCall, StateName, MemoryType, readVars
  <2>4. HistoryType'
    BY <1>6, <1>b, <1>c, AddReadType DEF CheckOpacity, HistoryType, Reading, CallType
  <2> QED BY <2>1, <2>2, <2>3, <2>4, <1>6, <1>b DEF CheckOpacity, TypeOK, MemoryType, sharedVars
<1>7. CASE HardCheckTid(t)
  <2>1. TidType'
    BY <1>7, <1>b DEF HardCheckTid, TidType, MemoryType, CallType, tidVars
  <2>2. CallType'
    BY <1>7, <1>b DEF HardCheckTid, CallType, Goto, InCall, MemoryType, readVars
  <2>3. HistoryType'
    BY <1>7, <1>b, <1>c DEF HardCheckTid, HistoryType, Reading, MemoryType, CallType, TidType, histVars
  <2> QED BY <2>1, <2>2, <2>3, <1>7, <1>b DEF HardCheckTid, TypeOK, MemoryType, sharedVars, SetType, setVars
<1>8. CASE HardCheckItem(t)
  <2>1. SetType'
    BY <1>8, <1>b, <1>c, AddReadType DEF HardCheckItem, SetType, Reading
  <2>2. CallType'
    <3>1. CASE Stopped(t, FALSE)
      BY <3>1, <1>b, StoppedType
    <3>2. CASE k' = [k EXCEPT ![t] = @ + 1] /\ UNCHANGED <<state, pc, n, readVars>>
      BY <3>2, <1>b DEF CallType, readVars
    <3>3. CASE /\ state' = [state EXCEPT ![t] = "in_progress"]
               /\ EndCall(t)
               /\ Goto(t, "run")
      BY <3>3, <1>b, EndCallType DEF CallType, Goto, StateName
    <3>4. QED
      BY <3>1, <3>2, <3>3, <1>8 DEF HardCheckItem
  <2>3. HistoryType'
    BY <1>8, <1>b, <1>c, AddReadType DEF HardCheckItem, HistoryType, Reading
  <2> QED BY <2>1, <2>2, <2>3, <1>8, <1>b DEF HardCheckItem, TypeOK, MemoryType, sharedVars, TidType, tidVars
<1>9. CASE \E i \in Item : ObserveNonopaque(t, i)
  <2> PICK i \in Item : ObserveNonopaque(t, i)
    BY <1>9
  <2> DEFINE v == IF i \in rset[t] THEN rdata[t][i] ELSE ver[i]
  <2>1. v \in Version
    BY <1>b DEF SetType, MemoryType
  <2>2. \/ rdata' = rdata
        \/ rdata' = [rdata EXCEPT ![t] = [rdata[t] EXCEPT ![i] = v]]
    BY <1>b DEF ObserveNonopaque, SetType
  <2>a. [rdata[t] EXCEPT ![i] = v] \in [Item -> Version]
    BY <1>b, <2>1 DEF SetType
  <2>3. rdata' \in [Thread -> [Item -> Version]]
    <3> HIDE DEF v
    <3> QED BY <1>b, <2>a, <2>2 DEF SetType
  <2>b. item(t, i) \in Seq(Item)
    BY <1>b DEF item, SetType
  <2>c. rset' = rset \/ rset' = [rset EXCEPT ![t] = @ \cup {i}]
    BY DEF ObserveNonopaque
  <2>f. rset[t] \cup {i} \in SUBSET Item
    BY <1>b DEF SetType
  <2>d. rset' \in [Thread -> SUBSET Item]
    BY <1>b, <2>c, <2>f DEF SetType
  <2>e. tset' \in [Thread -> Seq(Item)]
    BY <1>b, <2>b DEF ObserveNonopaque, SetType
  <2>4. SetType'
    BY <1>b, <2>3, <2>d, <2>e DEF ObserveNonopaque, SetType
  <2>5. CallType'
    <3>1. CASE Stopped(t, FALSE)
      BY <3>1, <1>b, StoppedType
    <3>2. CASE /\ cur' = [cur EXCEPT ![t] = i]
               /\ Goto(t, "rd_nval")
               /\ UNCHANGED <<state, k, n, obs, res>>
      BY <3>2, <1>b DEF CallType, Goto, InCall
    <3>3. QED
      BY <3>1, <3>2 DEF ObserveNonopaque
  <2> QED BY <2>4, <2>5, <1>b DEF ObserveNonopaque, TypeOK, MemoryType, sharedVars, TidType, tidVars, HistoryType, histVars
<1>10. CASE ReadNonopaqueValue(t)
  <2>1. CallType'
    BY <1>10, <1>b, EndCallType DEF ReadNonopaqueValue, CallType, Goto, InCall, MemoryType, readVars
  <2>2. HistoryType'
    BY <1>10, <1>b, <1>c DEF ReadNonopaqueValue, HistoryType, Reading, MemoryType, CallType, TidType, histVars
  <2> QED BY <2>1, <2>2, <1>10, <1>b DEF ReadNonopaqueValue, TypeOK, MemoryType, sharedVars, SetType, setVars, TidType, tidVars
<1>11. CASE \E i \in Item : Write(t, i)
  <2>1. SetType'
    BY <1>11, <1>b DEF Write, SetType, item, MemoryType, CallType, setVars
  <2> QED BY <2>1, <1>11, <1>b DEF Write, TypeOK, MemoryType, sharedVars, TidType, tidVars, CallType, readVars, HistoryType, histVars
<1>12. CASE UserAbort(t)
  <2>1. CallType'
    BY <1>12, <1>b, StoppedType DEF UserAbort, CallType, MemoryType, readVars
  <2> QED BY <2>1, <1>12, <1>b DEF UserAbort, TypeOK, MemoryType, sharedVars, SetType, setVars, TidType, tidVars, HistoryType, histVars
<1>13. CASE TryCommit(t)
  <2>1. CallType'
    <3>1. CASE Stopped(t, TRUE)
      BY <3>1, <1>b, StoppedType
    <3>2. CASE /\ state' = [state EXCEPT ![t] = "committing"]
               /\ k' = [k EXCEPT ![t] = 1]
               /\ Goto(t, "lock")
               /\ UNCHANGED <<n, readVars>>
      BY <3>2, <1>b DEF CallType, Goto, InCall, StateName, readVars
    <3>3. QED
      BY <3>1, <3>2, <1>13 DEF TryCommit
  <2>2. HistoryType'
    BY <1>13, <1>b, CommitRecordType, <1>a DEF TryCommit, HistoryType, MemoryType, CallType, TidType, histVars
  <2> QED BY <2>1, <2>2, <1>13, <1>b DEF TryCommit, TypeOK, MemoryType, sharedVars, SetType, setVars, TidType, tidVars
<1>14. CASE LockSkip(t)
  <2>1. CallType'
    BY <1>14, <1>b, NextToLockType DEF LockSkip, CallType, readVars
  <2>2. HistoryType'
    BY <1>14, <1>b, NextToLockType DEF LockSkip, HistoryType
  <2> QED BY <2>1, <2>2, <1>14, <1>b DEF LockSkip, TypeOK, MemoryType, sharedVars, SetType, setVars, TidType, tidVars
<1>15. CASE LockLoad(t)
  <2>0. pc[t] = "lock" => k[t] - 1 \in Nat
    BY <1>a, <1>b DEF ControlInv, Indexing, CallType
  <2>1. TidType'
    BY <1>15, <1>b, <2>0 DEF LockLoad, TidType
  <2>2. CallType'
    BY <1>15, <1>b, <1>k DEF LockLoad, CallType, Goto, InCall, StateName, Indexing, Installing, MemoryType, SetType, readVars
  <2> QED BY <2>1, <2>2, <1>15, <1>b DEF LockLoad, TypeOK, MemoryType, sharedVars, SetType, setVars, HistoryType, histVars
<1>16. CASE LockCas(t)
  <2> DEFINE i == tset[t][k[t]]
  <2>0. i \in Item /\ obs[t] \in Version /\ locked(obs[t], t) \in Version
    BY <1>16, <1>b, <1>k, LockedWord DEF LockCas, CountSpin, CallType, Indexing
  <2>1. \/ ver' = [ver EXCEPT ![i] = locked(obs[t], t)]
        \/ ver' = ver
    BY <1>16 DEF LockCas, CountSpin
  <2>2. MemoryType'
    BY <1>16, <1>b, <2>0, <2>1 DEF LockCas, CountSpin, MemoryType
  <2>3. lset' = [lset EXCEPT ![t] = @ \cup {i}] \/ lset' = lset
    BY <1>16 DEF LockCas, CountSpin
  <2>4. SetType'
    <3>1. lset' \in [Thread -> SUBSET Item]
      BY <1>b, <2>0, <2>3 DEF SetType
    <3>2. QED
      BY <1>16, <1>b, <3>1 DEF LockCas, CountSpin, SetType, setVars
  <2>5. /\ k' \in [Thread -> Nat]
        /\ pc' \in [Thread -> {"idle", "run"} \cup InCall]
        /\ fresh' \in [Thread -> BOOLEAN]
        /\ order' \in Seq(Token)
    <3>1. CASE NextToLock(t)
      BY <3>1, <1>b, NextToLockType
    <3>2. CASE AbortLocked(t) /\ UNCHANGED <<fresh, order>>
      BY <3>2, <1>b, AbortLockedType DEF HistoryType
    <3>3. CASE Goto(t, "lock") /\ UNCHANGED <<k, fresh, order>>
      BY <3>3, <1>b DEF Goto, CallType, HistoryType, InCall
    <3>4. QED
      BY <3>1, <3>2, <3>3, <1>16 DEF LockCas, CountSpin
  <2>6. n' \in [Thread -> 0 .. SpinBound - 1]
    <3>1. n[t] + 1 # SpinBound => n[t] + 1 \in 0 .. SpinBound - 1
      BY <1>b, SpinBoundAssumption DEF CallType
    <3>2. n' = [n EXCEPT ![t] = 0] \/ (n[t] + 1 # SpinBound /\ n' = [n EXCEPT ![t] = n[t] + 1])
      BY <1>16, <1>b DEF LockCas, CountSpin, GivesUp, CallType
    <3>3. QED
      BY <3>1, <3>2, <1>b, Defaults DEF CallType
  <2>7. CallType'
    BY <1>16, <1>b, <2>5, <2>6, Defaults DEF LockCas, CountSpin, CallType
  <2>8. HistoryType'
    BY <1>16, <1>b, <2>5 DEF LockCas, CountSpin, HistoryType
  <2> QED BY <2>2, <2>4, <2>7, <2>8, <1>16, <1>b DEF LockCas, CountSpin, TypeOK, TidType, tidVars
<1>17. CASE CheckItem(t)
  <2>1. CallType'
    <3>1. CASE AbortLocked(t) /\ UNCHANGED <<state, n, readVars>>
      BY <3>1, <1>b, AbortLockedType DEF CallType, readVars
    <3>2. CASE Stopped(t, FALSE) \/ Stopped(t, TRUE)
      BY <3>2, <1>b, StoppedType
    <3>3. CASE k' = [k EXCEPT ![t] = @ + 1] /\ UNCHANGED <<state, pc, n, readVars>>
      BY <3>3, <1>b DEF CallType, readVars
    <3>4. CASE /\ k' = [k EXCEPT ![t] = 1]
               /\ Goto(t, "inst_val")
               /\ UNCHANGED <<state, n, readVars>>
      BY <3>4, <1>b DEF CallType, readVars, Goto, InCall
    <3>5. QED
      BY <3>1, <3>2, <3>3, <3>4, <1>17 DEF CheckItem
  <2>2. HistoryType'
    BY <1>17, <1>b, <1>a, CommitRecordType DEF CheckItem, HistoryType
  <2> QED BY <2>1, <2>2, <1>17, <1>b DEF CheckItem, TypeOK, MemoryType, sharedVars, SetType, setVars, TidType, tidVars
<1>18. CASE InstallSkip(t)
  <2>1. CallType'
    BY <1>18, <1>b, NextToInstallType DEF InstallSkip
  <2> QED BY <2>1, <1>18, <1>b DEF InstallSkip, TypeOK, MemoryType, sharedVars, SetType, setVars, TidType, tidVars, HistoryType, histVars
<1>19. CASE InstallValue(t)
  <2>1. MemoryType'
    BY <1>19, <1>b, <1>k DEF InstallValue, MemoryType, Me, Token, Indexing, Installing, CallType, TidType, sharedVars
  <2>2. CallType'
    BY <1>19, <1>b DEF InstallValue, CallType, Goto, InCall, MemoryType, readVars
  <2> QED BY <2>1, <2>2, <1>19, <1>b DEF InstallValue, TypeOK, SetType, setVars, TidType, tidVars, HistoryType, histVars
<1>20. CASE FetchTid(t)
  <2>1. MemoryType'
    BY <1>20, <1>b DEF FetchTid, MemoryType, CallType, TidType, sharedVars
  <2>2. TidType'
    BY <1>20, <1>b DEF FetchTid, TidType, MemoryType, CallType, tidVars
  <2>3. CallType'
    BY <1>20, <1>b DEF FetchTid, CallType, Goto, InCall, MemoryType, readVars
  <2> QED BY <2>1, <2>2, <2>3, <1>20, <1>b DEF FetchTid, TypeOK, SetType, setVars, HistoryType, histVars
<1>21. CASE InstallVersion(t)
  <2>1. MemoryType'
    BY <1>21, <1>b, <1>k, InstalledVersionType, <1>a DEF InstallVersion, MemoryType, Indexing, Installing, CallType, TidType, sharedVars
  <2>2. SetType'
    BY <1>21, <1>b DEF InstallVersion, SetType, MemoryType, CallType, setVars
  <2>3. CallType'
    BY <1>21, <1>b, NextToInstallType DEF InstallVersion
  <2>0. <<Me(t), InstalledVersion(t, tset[t][k[t]]).tid>> \in Token \X Nat
    BY <1>21, <1>a, <1>b, <1>k, InstalledVersionType DEF InstallVersion, Me, Token, TidType, Indexing, Installing
  <2>4. HistoryType'
    BY <1>21, <1>b, <1>k, <2>0 DEF InstallVersion, HistoryType, Indexing, Installing
  <2> QED BY <2>1, <2>2, <2>3, <2>4, <1>21, <1>b DEF InstallVersion, TypeOK, TidType, tidVars
<1>22. CASE Unlock(t)
  <2> DEFINE i == tset[t][k[t]]
  <2>0. i \in Item /\ unlocked(ver[i]) \in Version
    BY <1>22, <1>b, <1>k, LockedWord DEF Unlock, UnlockEnds, MemoryType, Indexing, unlocked
  <2>1. \/ ver' = [ver EXCEPT ![i] = unlocked(ver[i])] /\ lset' = [lset EXCEPT ![t] = @ \ {i}]
        \/ ver' = ver /\ lset' = lset
    BY <1>22, <1>b, <2>0 DEF Unlock, UnlockEnds, MemoryType
  <2>2. MemoryType'
    BY <1>22, <1>b, <2>0, <2>1 DEF Unlock, UnlockEnds, MemoryType
  <2>3. SetType'
    BY <1>22, <1>b, <2>1 DEF Unlock, UnlockEnds, SetType, setVars
  <2>4. CallType'
    <3>1. CASE Stopped(t, FALSE)
      BY <3>1, <1>b, StoppedType
    <3>2. CASE k' = [k EXCEPT ![t] = @ - 1] /\ UNCHANGED <<state, pc, n, readVars>>
      <4>1. k[t] - 1 \in Nat
        BY <1>22, <1>a, <1>b DEF Unlock, UnlockEnds, ControlInv, Indexing, CallType
      <4>2. QED BY <4>1, <3>2, <1>b DEF CallType, readVars
    <3>3. QED
      BY <3>1, <3>2, <1>22 DEF Unlock, UnlockEnds
  <2> QED BY <2>2, <2>3, <2>4, <1>22, <1>b DEF Unlock, UnlockEnds, TypeOK, TidType, tidVars, HistoryType, histVars
<1>q. QED
  BY <1>1, <1>2, <1>3, <1>4, <1>5, <1>6, <1>7, <1>8, <1>9, <1>10, <1>11, <1>12, <1>13, <1>14, <1>15, <1>16, <1>17, <1>18, <1>19, <1>20, <1>21, <1>22 DEF UserStep, LibraryStep

(* stop works on the Transaction object of its own thread only.            *)
LEMMA StoppedOthers ==
  ASSUME CallType, NEW t \in Thread, NEW committed \in BOOLEAN,
         Stopped(t, committed), NEW u \in Thread, u # t
  PROVE  state'[u] = state[u] /\ pc'[u] = pc[u] /\ k'[u] = k[u] /\ cur'[u] = cur[u]
  BY DEF CallType, Stopped, EndCall, Goto

(* So do the loops of try_commit with their indices.                       *)
LEMMA CallOthers ==
  ASSUME CallType, NEW t \in Thread, NextToInstall(t) \/ NextToLock(t) \/ AbortLocked(t),
         NEW u \in Thread, u # t
  PROVE  pc'[u] = pc[u] /\ k'[u] = k[u]
<1>1. CASE Stopped(t, TRUE)
  BY <1>1, StoppedOthers
<1>2. CASE /\ k' = [k EXCEPT ![t] = @ + 1] \/ k' = [k EXCEPT ![t] = 1]
              \/ k' = [k EXCEPT ![t] = Len(tset[t])]
           /\ \E label \in InCall : Goto(t, label)
  BY <1>2 DEF Goto, CallType
<1>3. QED
  BY <1>1, <1>2 DEF NextToInstall, NextToLock, AbortLocked, InCall

(* The install loop leaves state_ and the read registers of others alone.  *)
LEMMA NextToInstallOthers ==
  ASSUME CallType, NEW t \in Thread, NextToInstall(t), NEW u \in Thread, u # t
  PROVE  state'[u] = state[u] /\ cur'[u] = cur[u]
<1>1. CASE Stopped(t, TRUE)
  BY <1>1, StoppedOthers
<1>2. CASE UNCHANGED <<state, readVars>>
  BY <1>2 DEF readVars
<1>3. QED
  BY <1>1, <1>2 DEF NextToInstall

(* No step of a thread touches the transaction set, flags, locks, tids or  *)
(* registers of another thread: transactions meet only in version words,   *)
(* values and _TID.                                                        *)
LEMMA OtherThreads ==
  ASSUME TypeOK, NEW t \in Thread, UserStep(t) \/ LibraryStep(t),
         NEW u \in Thread, u # t
  PROVE  /\ state'[u] = state[u] /\ pc'[u] = pc[u]
         /\ k'[u] = k[u] /\ cur'[u] = cur[u]
         /\ tset'[u] = tset[u] /\ rset'[u] = rset[u] /\ wset'[u] = wset[u]
         /\ lset'[u] = lset[u] /\ commit_tid'[u] = commit_tid[u]
         /\ first_write'[u] = first_write[u]
<1>a. SetType /\ TidType /\ CallType
  BY DEF TypeOK
<1>b. /\ tset'[u] = tset[u] /\ rset'[u] = rset[u] /\ wset'[u] = wset[u]
      /\ lset'[u] = lset[u] /\ commit_tid'[u] = commit_tid[u]
      /\ first_write'[u] = first_write[u]
  <2> USE <1>a DEF SetType, TidType, setVars, tidVars
  <2>1. CASE Start(t)
    BY <2>1 DEF Start
  <2>2. CASE \E i \in Item : BeginRead(t, i) \/ ObserveNonopaque(t, i) \/ Write(t, i)
    BY <2>2 DEF BeginRead, ObserveNonopaque, Write
  <2>3. CASE UserAbort(t) \/ TryCommit(t) \/ RetryRead(t) \/ ReadValue(t)
             \/ ReadVersion(t) \/ ReadNonopaqueValue(t)
    BY <2>3 DEF UserAbort, TryCommit, RetryRead, ReadValue, ReadVersion,
       ReadNonopaqueValue
  <2>4. CASE CheckOpacity(t) \/ HardCheckTid(t) \/ HardCheckItem(t)
    BY <2>4 DEF CheckOpacity, HardCheckTid, HardCheckItem, AddRead
  <2>5. CASE LockSkip(t) \/ LockLoad(t) \/ CheckItem(t) \/ InstallSkip(t)
             \/ InstallValue(t) \/ FetchTid(t)
    BY <2>5 DEF LockSkip, LockLoad, CheckItem, InstallSkip, InstallValue,
       FetchTid
  <2>6. CASE LockCas(t) \/ InstallVersion(t) \/ Unlock(t)
    BY <2>6 DEF LockCas, CountSpin, InstallVersion, Unlock, UnlockEnds
  <2>7. QED
    BY <2>1, <2>2, <2>3, <2>4, <2>5, <2>6 DEF UserStep, LibraryStep
<1>c. state'[u] = state[u] /\ pc'[u] = pc[u] /\ k'[u] = k[u] /\ cur'[u] = cur[u]
  <2> USE <1>a
  <2>1. CASE Start(t) \/ \E i \in Item : BeginRead(t, i) \/ Write(t, i)
    BY <2>1 DEF Start, BeginRead, Write, CallType, Goto, readVars
  <2>2. CASE (\E i \in Item : ObserveNonopaque(t, i)) \/ ReadVersion(t)
    BY <2>2, StoppedOthers DEF ObserveNonopaque, ReadVersion, CallType, Goto, readVars
  <2>3. CASE UserAbort(t) \/ TryCommit(t)
    BY <2>3, StoppedOthers DEF UserAbort, TryCommit, CallType, Goto, readVars
  <2>4. CASE RetryRead(t) \/ ReadValue(t) \/ ReadNonopaqueValue(t)
    BY <2>4 DEF RetryRead, ReadValue, ReadNonopaqueValue, CallType, Goto, EndCall
  <2>5. CASE CheckOpacity(t) \/ HardCheckTid(t)
    BY <2>5 DEF CheckOpacity, HardCheckTid, CallType, Goto, EndCall, readVars
  <2>6. CASE HardCheckItem(t)
    BY <2>6, StoppedOthers DEF HardCheckItem, CallType, Goto, EndCall, readVars
  <2>7. CASE LockSkip(t) \/ LockCas(t) \/ LockLoad(t)
    BY <2>7, CallOthers DEF LockSkip, LockCas, CountSpin, LockLoad, CallType, Goto, readVars
  <2>8. CASE CheckItem(t)
    <3>1. CASE Stopped(t, TRUE) \/ Stopped(t, FALSE)
      BY <3>1, StoppedOthers
    <3>2. CASE AbortLocked(t) /\ UNCHANGED <<state, readVars>>
      BY <3>2, CallOthers DEF readVars
    <3>3. CASE /\ k' = [k EXCEPT ![t] = @ + 1] \/ k' = [k EXCEPT ![t] = 1]
               /\ Goto(t, "inst_val") \/ UNCHANGED pc
               /\ UNCHANGED <<state, readVars>>
      BY <3>3 DEF CallType, Goto, readVars
    <3>4. QED
      BY <2>8, <3>1, <3>2, <3>3 DEF CheckItem
  <2>9. CASE InstallSkip(t) \/ InstallVersion(t)
    BY <2>9, CallOthers, NextToInstallOthers DEF InstallSkip, InstallVersion
  <2>10. CASE InstallValue(t) \/ FetchTid(t)
    BY <2>10 DEF InstallValue, FetchTid, CallType, Goto, readVars
  <2>11. CASE Unlock(t)
    <3>1. CASE Stopped(t, FALSE)
      BY <3>1, StoppedOthers
    <3>2. CASE k' = [k EXCEPT ![t] = @ - 1] /\ UNCHANGED <<state, pc, n, readVars>>
      BY <3>2 DEF CallType, readVars
    <3>3. QED
      BY <2>11, <3>1, <3>2 DEF Unlock, UnlockEnds
  <2>12. QED
    BY <2>1, <2>2, <2>3, <2>4, <2>5, <2>6, <2>7, <2>8, <2>9, <2>10, <2>11
    DEF UserStep, LibraryStep
<1>d. QED
  BY <1>b, <1>c

(* Transaction::item finds the item or appends it: the old entries keep    *)
(* their places, and no item gets a second entry.                          *)
LEMMA ItemSet ==
  ASSUME NEW t \in Thread, NEW i \in Item, SetType, SetInv(t)
  PROVE  /\ item(t, i) \in Seq(Item)
         /\ Len(tset[t]) <= Len(item(t, i))
         /\ \A j \in 1 .. Len(tset[t]) : item(t, i)[j] = tset[t][j]
         /\ \E j \in 1 .. Len(item(t, i)) : item(t, i)[j] = i
         /\ \A a, b \in 1 .. Len(item(t, i)) :
              item(t, i)[a] = item(t, i)[b] => a = b
<1>1. tset[t] \in Seq(Item)
  BY DEF SetType
<1>2. CASE i \in Range(tset[t])
  BY <1>1, <1>2 DEF item, Range, SetInv
<1>3. CASE i \notin Range(tset[t])
  <2>1. item(t, i) = Append(tset[t], i)
    BY <1>3 DEF item
  <2>2. \A j \in 1 .. Len(tset[t]) : tset[t][j] # i
    BY <1>1, <1>3 DEF Range
  <2>3. QED
    BY <1>1, <2>1, <2>2 DEF SetInv
<1>4. QED
  BY <1>2, <1>3

(* find_item and allocate_item keep one entry per key, and the read, write *)
(* and lock flags stay with items of the set.                              *)
LEMMA SetStep ==
  ASSUME IInv, NEW t \in Thread, UserStep(t) \/ LibraryStep(t)
  PROVE  SetInv(t)'
<1>a. SetType /\ SetInv(t) /\ ControlInv(t) /\ CallType
  BY DEF IInv, TypeOK
<1>1. CASE Start(t)
  BY <1>1, <1>a DEF Start, SetInv, SetType
<1>2. CASE \E i \in Item : BeginRead(t, i) \/ ObserveNonopaque(t, i) \/ Write(t, i)
  <2> PICK i \in Item : BeginRead(t, i) \/ ObserveNonopaque(t, i) \/ Write(t, i)
    BY <1>2
  <2>1. tset'[t] = item(t, i) /\ lset'[t] = lset[t]
    BY <1>a DEF BeginRead, ObserveNonopaque, Write, SetType
  <2>2. rset'[t] \subseteq rset[t] \cup {i} /\ wset'[t] \subseteq wset[t] \cup {i}
    BY <1>a DEF BeginRead, ObserveNonopaque, Write, SetType
  <2>3. \A j \in 1 .. Len(tset[t]) : j \in 1 .. Len(item(t, i)) /\ item(t, i)[j] = tset[t][j]
    <3>1. Len(item(t, i)) \in Nat /\ Len(tset[t]) \in Nat
      BY <1>a, ItemSet DEF SetType
    <3>2. /\ Len(tset[t]) <= Len(item(t, i))
          /\ \A j \in 1 .. Len(tset[t]) : item(t, i)[j] = tset[t][j]
      BY <1>a, ItemSet
    <3>3. QED BY <3>1, <3>2
  <2>4. \A c \in rset'[t] \cup wset'[t] \cup lset'[t] :
          \E j \in 1 .. Len(item(t, i)) : item(t, i)[j] = c
    <3> SUFFICES ASSUME NEW c \in rset'[t] \cup wset'[t] \cup lset'[t]
                 PROVE  \E j \in 1 .. Len(item(t, i)) : item(t, i)[j] = c
      OBVIOUS
    <3>1. CASE c = i
      BY <3>1, <1>a, ItemSet
    <3>2. CASE c # i
      BY <3>2, <1>a, <2>1, <2>2, <2>3 DEF SetInv
    <3>3. QED BY <3>1, <3>2
  <2>5. \A a, b \in 1 .. Len(item(t, i)) : item(t, i)[a] = item(t, i)[b] => a = b
    BY <1>a, ItemSet
  <2>6. QED
    BY <2>1, <2>4, <2>5 DEF SetInv
<1>3. CASE CheckOpacity(t) \/ HardCheckItem(t)
  <2>1. /\ tset'[t] = tset[t] /\ wset'[t] = wset[t] /\ lset'[t] = lset[t]
        /\ rset'[t] \subseteq rset[t] \cup {cur[t]}
    BY <1>3, <1>a DEF CheckOpacity, HardCheckItem, AddRead, SetType
  <2>2. \E j \in 1 .. Len(tset[t]) : tset[t][j] = cur[t]
    BY <1>3, <1>a DEF CheckOpacity, HardCheckItem, ControlInv, Reading
  <2>3. QED
    BY <1>a, <2>1, <2>2 DEF SetInv
<1>4. CASE LockCas(t)
  <2>1. /\ tset'[t] = tset[t] /\ rset'[t] = rset[t] /\ wset'[t] = wset[t]
        /\ lset'[t] \subseteq lset[t] \cup {tset[t][k[t]]}
    BY <1>4, <1>a DEF LockCas, CountSpin, setVars, SetType
  <2>2. k[t] \in 1 .. Len(tset[t])
    BY <1>4, <1>a DEF LockCas, CountSpin, ControlInv, Indexing, CallType
  <2>3. QED
    BY <1>a, <2>1, <2>2 DEF SetInv
<1>5. CASE InstallVersion(t) \/ Unlock(t)
  <2>1. /\ tset'[t] = tset[t] /\ rset'[t] = rset[t] /\ wset'[t] = wset[t]
        /\ lset'[t] \subseteq lset[t]
    BY <1>5, <1>a DEF InstallVersion, Unlock, UnlockEnds, setVars, SetType
  <2>3. QED
    BY <1>a, <2>1 DEF SetInv
<1>6. CASE \/ UserAbort(t) \/ TryCommit(t) \/ RetryRead(t) \/ ReadValue(t)
           \/ ReadVersion(t) \/ HardCheckTid(t) \/ ReadNonopaqueValue(t)
           \/ LockSkip(t) \/ LockLoad(t) \/ CheckItem(t) \/ InstallSkip(t)
           \/ InstallValue(t) \/ FetchTid(t)
  <2>1. UNCHANGED <<tset, rset, wset, lset>>
    BY <1>6 DEF setVars, UserAbort, TryCommit, RetryRead, ReadValue,
       ReadVersion, HardCheckTid, ReadNonopaqueValue, LockSkip, LockLoad,
       CheckItem, InstallSkip, InstallValue, FetchTid
  <2>2. QED
    BY <1>a, <2>1 DEF SetInv
<1>7. QED
  BY <1>1, <1>2, <1>3, <1>4, <1>5, <1>6 DEF UserStep, LibraryStep

(* After stop the thread is outside every call, state_ is final.           *)
LEMMA IdleControl ==
  ASSUME CallType, SetType', NEW t \in Thread, NEW committed \in BOOLEAN,
         Stopped(t, committed)
  PROVE  ControlInv(t)'
<1>1. pc'[t] = "idle" /\ state'[t] \in {"aborted", "committed"} /\ k'[t] = 0
  BY DEF Stopped, EndCall, Goto, CallType
<1>2. Len(tset'[t]) \in Nat
  BY DEF SetType
<1>3. QED
  BY <1>1, <1>2 DEF ControlInv, Reading, Indexing, Installing

(* After a read or write returns the transaction is in progress and has no *)
(* commit tid.                                                             *)
LEMMA RunControl ==
  ASSUME SetType', NEW t \in Thread, pc'[t] = "run",
         state'[t] = "in_progress", k'[t] = 0, commit_tid'[t] = 0
  PROVE  ControlInv(t)'
<1>1. Len(tset'[t]) \in Nat
  BY DEF SetType
<1>2. QED
  BY <1>1 DEF ControlInv, Reading, Indexing, Installing

(* The loop of the lock phase keeps its index inside the transaction set.  *)
LEMMA NextToLockControl ==
  ASSUME CallType, SetType, NEW t \in Thread, ControlInv(t), NextToLock(t),
         pc[t] \in Locking, state' = state, tset' = tset,
         commit_tid' = commit_tid
  PROVE  ControlInv(t)'
<1>1. k[t] \in Nat /\ Len(tset[t]) \in Nat /\ k[t] >= 1 /\ k[t] <= Len(tset[t])
  BY DEF CallType, SetType, ControlInv, Indexing, Locking
<1>2. CASE k[t] = Len(tset[t])
  <2>1. pc'[t] = "check" /\ k'[t] = 1
    BY <1>2 DEF NextToLock, Goto, CallType
  <2>2. QED
    BY <2>1, <1>1, <1>2 DEF ControlInv, Reading, Indexing, Installing, Locking
<1>3. CASE k[t] # Len(tset[t])
  <2>1. pc'[t] = "lock" /\ k'[t] = k[t] + 1
    BY <1>3 DEF NextToLock, Goto, CallType
  <2>2. k[t] + 1 <= Len(tset[t]) /\ k[t] + 1 >= 1
    BY <1>1, <1>3
  <2>3. QED
    BY <2>1, <2>2 DEF ControlInv, Reading, Indexing, Installing, Locking
<1>4. QED BY <1>2, <1>3

(* The unlocking loop of stop starts at the last item, in                  *)
(* s_committing_locked.                                                    *)
LEMMA AbortLockedControl ==
  ASSUME CallType, SetType, NEW t \in Thread, ControlInv(t), AbortLocked(t),
         pc[t] \in {"cas", "check"}, state[t] = "committing_locked",
         state' = state, tset' = tset, commit_tid' = commit_tid
  PROVE  ControlInv(t)'
<1>1. k[t] \in Nat /\ Len(tset[t]) \in Nat /\ k[t] >= 1 /\ k[t] <= Len(tset[t])
  BY DEF CallType, SetType, ControlInv, Indexing
<1>2. pc'[t] = "unlock" /\ k'[t] = Len(tset[t])
  BY DEF AbortLocked, Goto, CallType
<1>3. Len(tset[t]) >= 1
  BY <1>1
<1>4. QED
  BY <1>1, <1>2, <1>3 DEF ControlInv, Reading, Indexing, Installing

(* The loop of the install phase keeps its index inside the transaction    *)
(* set.                                                                    *)
LEMMA NextToInstallControl ==
  ASSUME CallType, SetType, SetType', NEW t \in Thread, ControlInv(t),
         NextToInstall(t), pc[t] \in Installing, tset' = tset
  PROVE  ControlInv(t)'
<1>1. k[t] \in Nat /\ Len(tset[t]) \in Nat /\ k[t] >= 1 /\ k[t] <= Len(tset[t])
  BY DEF CallType, SetType, ControlInv, Indexing
<1>2. CASE Stopped(t, TRUE)
  BY <1>2, IdleControl
<1>3. CASE /\ k[t] # Len(tset[t]) /\ k' = [k EXCEPT ![t] = @ + 1]
           /\ Goto(t, "inst_val") /\ UNCHANGED <<state, n, readVars>>
  <2>1. pc'[t] = "inst_val" /\ k'[t] = k[t] + 1 /\ state' = state
    BY <1>3 DEF Goto, CallType
  <2>2. k[t] + 1 <= Len(tset[t]) /\ k[t] + 1 >= 1
    BY <1>1, <1>3
  <2>3. QED
    BY <2>1, <2>2 DEF ControlInv, Reading, Indexing, Installing
<1>4. QED BY <1>2, <1>3 DEF NextToInstall

(* Each point of the code is reached only with the state_, index and       *)
(* commit tid it expects; in particular commit_tid_ is taken at most once, *)
(* and before the first opaque version is installed.                       *)
LEMMA ControlStep ==
  ASSUME IInv, NEW t \in Thread, UserStep(t) \/ LibraryStep(t), TypeOK'
  PROVE  ControlInv(t)'
<1>a. /\ SetType /\ CallType /\ TidType /\ SetType'
      /\ SetInv(t) /\ ControlInv(t) /\ LocksInv(t)
  BY DEF IInv, TypeOK
<1>t. tset[t] \in Seq(Item) /\ Len(tset[t]) \in Nat /\ k[t] \in Nat
  BY <1>a DEF SetType, CallType
<1>1. CASE Start(t)
  <2>1. pc'[t] = "run" /\ k'[t] = 0 /\ state'[t] = "in_progress" /\ commit_tid'[t] = 0
    BY <1>1, <1>a DEF Start, Goto, CallType, TidType, ControlInv
  <2>2. QED BY <2>1, <1>a, RunControl
<1>2. CASE \E i \in Item : BeginRead(t, i)
  <2> PICK i \in Item : BeginRead(t, i)
    BY <1>2
  <2>1. /\ pc'[t] = "rd_val" /\ state'[t] = "in_progress" /\ cur'[t] = i
        /\ i \in Opaque /\ tset'[t] = item(t, i) /\ k'[t] = k[t]
        /\ commit_tid'[t] = 0
    BY <1>a DEF BeginRead, Goto, CallType, SetType, ControlInv, tidVars, Installing
  <2>2. k[t] = 0 /\ Len(item(t, i)) \in Nat
    BY <1>a, ItemSet DEF ControlInv, BeginRead, Write
  <2>3. \E j \in 1 .. Len(item(t, i)) : item(t, i)[j] = i
    BY <1>a, ItemSet
  <2>4. QED
    BY <2>1, <2>2, <2>3 DEF ControlInv, Reading, Indexing, Installing
<1>3. CASE RetryRead(t) \/ ReadValue(t)
  <2>1. /\ pc'[t] \in {"rd_val", "rd_v1"} /\ state'[t] = state[t]
        /\ cur'[t] = cur[t] /\ k'[t] = k[t] /\ tset' = tset
        /\ commit_tid' = commit_tid /\ pc[t] \in {"rd_v0", "rd_val"}
    BY <1>3, <1>a DEF RetryRead, ReadValue, Goto, CallType, setVars, tidVars
  <2>2. QED
    BY <1>a, <2>1 DEF ControlInv, Reading, Indexing, Installing
<1>4. CASE ReadVersion(t)
  <2>1. CASE Stopped(t, FALSE)
    BY <2>1, <1>a, IdleControl
  <2>2. CASE ~Stopped(t, FALSE)
    <3>1. /\ pc'[t] \in {"tco", "rd_v0"} /\ state'[t] = state[t]
          /\ cur'[t] = cur[t] /\ k'[t] = k[t] /\ tset' = tset
          /\ commit_tid' = commit_tid /\ pc[t] = "rd_v1"
      BY <1>4, <2>2, <1>a DEF ReadVersion, Goto, CallType, setVars, tidVars, readVars
    <3>2. QED
      BY <1>a, <3>1 DEF ControlInv, Reading, Indexing, Installing
  <2>3. QED BY <2>1, <2>2
<1>5. CASE CheckOpacity(t)
  <2>1. CASE Goto(t, "run") /\ EndCall(t) /\ UNCHANGED state
    <3>1. pc'[t] = "run" /\ k'[t] = 0 /\ state'[t] = "in_progress" /\ commit_tid'[t] = 0
      BY <1>5, <2>1, <1>a DEF CheckOpacity, Goto, EndCall, CallType, ControlInv, Installing
    <3>2. QED BY <3>1, <1>a, RunControl
  <2>2. CASE /\ state' = [state EXCEPT ![t] = "opacity_check"]
             /\ Goto(t, "hco_tid") /\ UNCHANGED <<rset, rdata, seen, k, n, readVars>>
    <3>1. /\ pc'[t] = "hco_tid" /\ state'[t] = "opacity_check"
          /\ cur'[t] = cur[t] /\ k'[t] = k[t] /\ tset' = tset
          /\ commit_tid' = commit_tid /\ pc[t] = "tco"
      BY <1>5, <2>2, <1>a DEF CheckOpacity, Goto, CallType, readVars
    <3>2. QED
      BY <1>a, <3>1 DEF ControlInv, Reading, Indexing, Installing
  <2>3. QED
    BY <1>5, <2>1, <2>2 DEF CheckOpacity
<1>6. CASE HardCheckTid(t)
  <2>1. /\ pc'[t] = "hco" /\ state'[t] = state[t] /\ cur'[t] = cur[t]
        /\ k'[t] = 1 /\ tset' = tset /\ commit_tid' = commit_tid
        /\ pc[t] = "hco_tid"
    BY <1>6, <1>a DEF HardCheckTid, Goto, CallType, setVars, readVars
  <2>2. Len(tset[t]) >= 1
    BY <1>a, <1>t, <2>1 DEF ControlInv, Reading
  <2>3. QED
    BY <1>a, <2>1, <2>2 DEF ControlInv, Reading, Indexing, Installing
<1>7. CASE HardCheckItem(t)
  <2>1. CASE Stopped(t, FALSE)
    BY <2>1, <1>a, IdleControl
  <2>2. CASE /\ k[t] < Len(tset[t]) /\ k' = [k EXCEPT ![t] = @ + 1]
             /\ UNCHANGED <<state, pc, n, readVars>>
    <3>1. /\ pc'[t] = "hco" /\ pc[t] = "hco" /\ state'[t] = state[t]
          /\ cur'[t] = cur[t] /\ k'[t] = k[t] + 1 /\ tset' = tset
          /\ commit_tid' = commit_tid
      BY <1>7, <2>2, <1>a DEF HardCheckItem, CallType, readVars, tidVars
    <3>2. k[t] + 1 <= Len(tset[t]) /\ k[t] + 1 >= 1
      BY <2>2, <1>t
    <3>3. QED
      BY <1>a, <3>1, <3>2 DEF ControlInv, Reading, Indexing, Installing
  <2>3. CASE /\ state' = [state EXCEPT ![t] = "in_progress"]
             /\ EndCall(t) /\ Goto(t, "run")
    <3>1. pc'[t] = "run" /\ k'[t] = 0 /\ state'[t] = "in_progress" /\ commit_tid'[t] = 0
      BY <1>7, <2>3, <1>a DEF HardCheckItem, Goto, EndCall, CallType, ControlInv, Installing, tidVars
    <3>2. QED BY <3>1, <1>a, RunControl
  <2>4. QED
    BY <1>7, <2>1, <2>2, <2>3 DEF HardCheckItem
<1>8. CASE \E i \in Item : ObserveNonopaque(t, i)
  <2> PICK i \in Item : ObserveNonopaque(t, i)
    BY <1>8
  <2>1. CASE Stopped(t, FALSE)
    BY <2>1, <1>a, IdleControl
  <2>2. CASE ~Stopped(t, FALSE)
    <3>1. /\ pc'[t] = "rd_nval" /\ state'[t] = "in_progress" /\ cur'[t] = i
          /\ tset'[t] = item(t, i) /\ k'[t] = k[t] /\ commit_tid'[t] = 0
      BY <2>2, <1>a DEF ObserveNonopaque, Goto, CallType, SetType, ControlInv, tidVars, Installing
    <3>2. k[t] = 0 /\ Len(item(t, i)) \in Nat
      BY <1>a, ItemSet DEF ControlInv, ObserveNonopaque
    <3>3. \E j \in 1 .. Len(item(t, i)) : item(t, i)[j] = i
      BY <1>a, ItemSet
    <3>4. QED
      BY <3>1, <3>2, <3>3 DEF ControlInv, Reading, Indexing, Installing
  <2>3. QED BY <2>1, <2>2
<1>9. CASE ReadNonopaqueValue(t)
  <2>1. pc'[t] = "run" /\ k'[t] = 0 /\ state'[t] = "in_progress" /\ commit_tid'[t] = 0
    BY <1>9, <1>a DEF ReadNonopaqueValue, Goto, EndCall, CallType, ControlInv, Installing, tidVars
  <2>2. QED BY <2>1, <1>a, RunControl
<1>10. CASE \E i \in Item : Write(t, i)
  <2> PICK i \in Item : Write(t, i)
    BY <1>10
  <2>1. /\ pc'[t] = "run" /\ state'[t] = "in_progress" /\ commit_tid'[t] = 0
        /\ tset'[t] = item(t, i) /\ k'[t] = k[t]
    BY <1>a DEF Write, CallType, SetType, ControlInv, tidVars, Installing
  <2>2. k[t] = 0 /\ Len(item(t, i)) \in Nat
    BY <1>a, ItemSet DEF ControlInv, BeginRead, Write
  <2>3. QED
    BY <2>1, <2>2 DEF ControlInv, Reading, Indexing, Installing
<1>11. CASE UserAbort(t)
  BY <1>11, <1>a, IdleControl DEF UserAbort
<1>12. CASE TryCommit(t)
  <2>1. CASE Stopped(t, TRUE)
    BY <2>1, <1>a, IdleControl
  <2>2. CASE ~Stopped(t, TRUE)
    <3>1. /\ pc'[t] = "lock" /\ state'[t] = "committing" /\ k'[t] = 1
          /\ tset' = tset /\ commit_tid' = commit_tid /\ pc[t] = "run"
          /\ ~ReadOnlyCommits(t)
      BY <1>12, <2>2, <1>a DEF TryCommit, Goto, CallType, setVars, tidVars
    <3>2. Len(tset[t]) >= 1
      BY <1>a, <1>t, <3>1 DEF ReadOnlyCommits, any_writes, any_nonopaque, SetInv
    <3>3. QED
      BY <1>a, <3>1, <3>2 DEF ControlInv, Reading, Indexing, Installing
  <2>3. QED BY <2>1, <2>2
<1>13. CASE LockSkip(t)
  <2>1. /\ pc[t] = "lock" /\ state' = state /\ tset' = tset
        /\ commit_tid' = commit_tid
    BY <1>13 DEF LockSkip, setVars, tidVars
  <2>2. QED
    BY <2>1, <1>13, <1>a, NextToLockControl DEF LockSkip, Locking
<1>14. CASE LockLoad(t)
  <2>1. /\ pc'[t] = "cas" /\ state'[t] = "committing_locked" /\ k' = k
        /\ tset' = tset /\ wset' = wset /\ commit_tid' = commit_tid
        /\ pc[t] = "lock" /\ tset[t][k[t]] \in wset[t]
    BY <1>14, <1>a DEF LockLoad, Goto, CallType, setVars
  <2>2. QED
    BY <1>a, <2>1 DEF ControlInv, Reading, Indexing, Installing
<1>15. CASE LockCas(t)
  <2>0. /\ pc[t] = "cas" /\ state' = state /\ tset' = tset /\ cur' = cur
        /\ wset' = wset /\ commit_tid' = commit_tid
    BY <1>15 DEF LockCas, CountSpin, setVars, tidVars
  <2>1. CASE NextToLock(t)
    BY <2>0, <2>1, <1>a, NextToLockControl DEF Locking
  <2>2. CASE AbortLocked(t)
    <3>1. state[t] = "committing_locked"
      BY <2>0, <1>a DEF ControlInv
    <3>2. QED BY <2>0, <2>2, <3>1, <1>a, AbortLockedControl
  <2>3. CASE Goto(t, "lock") /\ UNCHANGED k
    <3>1. pc'[t] = "lock" /\ k' = k
      BY <2>3, <1>a DEF Goto, CallType
    <3>2. QED
      BY <1>a, <2>0, <3>1 DEF ControlInv, Reading, Indexing, Installing
  <2>4. QED
    BY <1>15, <2>1, <2>2, <2>3 DEF LockCas, CountSpin
<1>16. CASE CheckItem(t)
  <2>0. pc[t] = "check" /\ tset' = tset /\ commit_tid' = commit_tid /\ wset' = wset
    BY <1>16 DEF CheckItem, setVars, tidVars
  <2>1. CASE Stopped(t, TRUE) \/ Stopped(t, FALSE)
    BY <2>1, <1>a, IdleControl
  <2>2. CASE state[t] = "committing_locked" /\ AbortLocked(t) /\ UNCHANGED state
    BY <2>0, <2>2, <1>a, AbortLockedControl
  <2>3. CASE /\ k[t] < Len(tset[t]) /\ k' = [k EXCEPT ![t] = @ + 1]
             /\ UNCHANGED <<state, pc>>
    <3>1. pc'[t] = "check" /\ state' = state /\ k'[t] = k[t] + 1
      BY <2>0, <2>3, <1>a DEF CallType
    <3>2. k[t] + 1 <= Len(tset[t]) /\ k[t] + 1 >= 1
      BY <2>3, <1>t
    <3>3. QED
      BY <1>a, <2>0, <3>1, <3>2 DEF ControlInv, Reading, Indexing, Installing
  <2>4. CASE /\ k[t] = Len(tset[t]) /\ any_writes(t) /\ k' = [k EXCEPT ![t] = 1]
             /\ Goto(t, "inst_val") /\ UNCHANGED state
    <3>1. pc'[t] = "inst_val" /\ state' = state /\ k'[t] = 1
      BY <2>4, <1>a DEF CallType, Goto
    <3>2. state[t] = "committing_locked"
      BY <2>0, <2>4, <1>a DEF ControlInv, LocksInv, any_writes
    <3>3. Len(tset[t]) >= 1
      BY <2>0, <2>4, <1>a, <1>t DEF ControlInv, Indexing
    <3>4. QED
      BY <1>a, <2>0, <3>1, <3>2, <3>3 DEF ControlInv, Reading, Indexing, Installing
  <2>5. QED
    BY <1>16, <2>1, <2>2, <2>3, <2>4 DEF CheckItem
<1>17. CASE InstallSkip(t)
  <2>1. pc[t] = "inst_val" /\ tset' = tset /\ wset' = wset /\ NextToInstall(t)
    BY <1>17 DEF InstallSkip, setVars
  <2>2. QED
    BY <2>1, <1>a, NextToInstallControl DEF Installing
<1>18. CASE InstallValue(t)
  <2>1. /\ pc'[t] = IF tset[t][k[t]] \in Opaque /\ commit_tid[t] = 0
                    THEN "inst_tid" ELSE "inst_ver"
        /\ pc[t] = "inst_val" /\ tset[t][k[t]] \in wset[t]
        /\ state' = state /\ k' = k /\ tset' = tset /\ wset' = wset
        /\ commit_tid' = commit_tid
    BY <1>18, <1>a DEF InstallValue, Goto, CallType, setVars, tidVars
  <2>2. QED
    BY <1>a, <2>1 DEF ControlInv, Reading, Indexing, Installing
<1>19. CASE FetchTid(t)
  <2>1. /\ pc'[t] = "inst_ver" /\ pc[t] = "inst_tid" /\ commit_tid'[t] = TID
        /\ state' = state /\ k' = k /\ tset' = tset /\ wset' = wset
    BY <1>19, <1>a DEF FetchTid, Goto, CallType, TidType, setVars
  <2>2. TID # 0
    BY DEF IInv, TidInv
  <2>3. QED
    BY <1>a, <2>1, <2>2 DEF ControlInv, Reading, Indexing, Installing
<1>20. CASE InstallVersion(t)
  <2>1. pc[t] = "inst_ver" /\ tset' = tset /\ wset' = wset /\ NextToInstall(t)
    BY <1>20 DEF InstallVersion, setVars
  <2>2. QED
    BY <2>1, <1>a, NextToInstallControl DEF Installing
<1>21. CASE Unlock(t)
  <2>1. CASE Stopped(t, FALSE)
    BY <2>1, <1>a, IdleControl
  <2>2. CASE /\ k[t] # first_write[t] + 1 /\ k' = [k EXCEPT ![t] = @ - 1]
             /\ UNCHANGED <<state, pc, n, readVars>>
    <3>1. /\ pc'[t] = "unlock" /\ pc[t] = "unlock" /\ state' = state
          /\ k'[t] = k[t] - 1 /\ tset' = tset /\ commit_tid' = commit_tid
      BY <1>21, <2>2, <1>a DEF Unlock, UnlockEnds, CallType, setVars, tidVars
    <3>2. first_write[t] < k[t] /\ first_write[t] \in Nat
      BY <3>1, <1>a DEF LocksInv, TidType
    <3>3. k[t] - 1 >= 1 /\ k[t] - 1 <= Len(tset[t])
      BY <2>2, <3>1, <3>2, <1>t, <1>a DEF ControlInv
    <3>4. QED
      BY <1>a, <3>1, <3>3 DEF ControlInv, Reading, Indexing, Installing
  <2>3. QED
    BY <1>21, <2>1, <2>2 DEF Unlock, UnlockEnds
<1>22. QED
  BY <1>1, <1>2, <1>3, <1>4, <1>5, <1>6, <1>7, <1>8, <1>9, <1>10, <1>11,
     <1>12, <1>13, <1>14, <1>15, <1>16, <1>17, <1>18, <1>19, <1>20, <1>21
  DEF UserStep, LibraryStep

(* Outside try_commit and stop there are no locks to account for.          *)
LEMMA QuietLocks ==
  ASSUME NEW t \in Thread, lset'[t] = {},
         pc'[t] \in {"idle", "run", "rd_nval"} \cup Reading
  PROVE  LocksInv(t)'
  BY DEF LocksInv, Reading, Locking, Installing

(* A transaction that stops holding nothing holds nothing afterwards.      *)
LEMMA StoppedLocks ==
  ASSUME CallType, NEW t \in Thread, NEW committed \in BOOLEAN,
         Stopped(t, committed), lset'[t] = {}
  PROVE  LocksInv(t)'
<1>1. pc'[t] = "idle"
  BY DEF Stopped, Goto, CallType
<1>2. QED BY <1>1, QuietLocks

(* The lock phase holds exactly the written items it has passed; at its    *)
(* end it holds the whole write set.                                       *)
LEMMA NextToLockLocks ==
  ASSUME CallType, SetType, TidType, NEW t \in Thread, SetInv(t), ControlInv(t),
         LocksInv(t), pc[t] \in Locking, NextToLock(t),
         state' = state, tset' = tset, wset' = wset, first_write' = first_write,
         \A j \in 1 .. Len(tset[t]) :
           tset[t][j] \in lset'[t] <=> tset[t][j] \in wset[t] /\ j <= k[t],
         \A i \in lset'[t] : \E j \in 1 .. Len(tset[t]) : tset[t][j] = i,
         state[t] = "committing" => lset'[t] = {}
  PROVE  LocksInv(t)'
<1>1. k[t] \in Nat /\ Len(tset[t]) \in Nat /\ k[t] >= 1 /\ k[t] <= Len(tset[t])
  BY DEF CallType, SetType, ControlInv, Indexing, Locking
<1>2. CASE k[t] = Len(tset[t])
  <2>1. pc'[t] = "check"
    BY <1>2 DEF NextToLock, Goto, CallType
  <2>2. lset'[t] = wset[t]
    <3>1. ASSUME NEW i \in lset'[t] PROVE i \in wset[t]
      OBVIOUS
    <3>2. ASSUME NEW i \in wset[t] PROVE i \in lset'[t]
      <4>1. PICK j \in 1 .. Len(tset[t]) : tset[t][j] = i
        BY DEF SetInv
      <4>2. j <= k[t]
        BY <1>1, <1>2
      <4>3. QED BY <4>1, <4>2
    <3>3. QED BY <3>1, <3>2
  <2>3. QED
    BY <2>1, <2>2 DEF LocksInv, Reading, Locking, Installing
<1>3. CASE k[t] # Len(tset[t])
  <2>1. pc'[t] = "lock" /\ k'[t] = k[t] + 1
    BY <1>3 DEF NextToLock, Goto, CallType
  <2>2. \A j \in 1 .. Len(tset[t]) : j <= k[t] <=> j < k[t] + 1
    BY <1>1
  <2>3. QED
    BY <2>1, <2>2 DEF LocksInv, Reading, Locking, Installing
<1>4. QED BY <1>2, <1>3

(* Every lock held when an abort begins lies between first_write_ and the  *)
(* end of the set, where stop(false) will look for it.                     *)
LEMMA AbortLockedLocks ==
  ASSUME CallType, SetType, TidType, NEW t \in Thread, LocksInv(t),
         pc[t] \in {"cas", "check"}, state[t] = "committing_locked",
         AbortLocked(t), state' = state, tset' = tset, wset' = wset,
         lset' = lset, first_write' = first_write
  PROVE  LocksInv(t)'
<1>1. Len(tset[t]) \in Nat /\ first_write[t] \in Nat
  BY DEF SetType, TidType
<1>2. pc'[t] = "unlock" /\ k'[t] = Len(tset[t])
  BY DEF AbortLocked, Goto, CallType
<1>3. /\ first_write[t] < Len(tset[t])
      /\ \A j \in 1 .. first_write[t] : tset[t][j] \notin wset[t]
  BY DEF LocksInv, Locking
<1>4. \A j \in 1 .. Len(tset[t]) : tset[t][j] \in lset[t] => tset[t][j] \in wset[t]
  BY DEF LocksInv, Locking
<1>5. \A j \in 1 .. Len(tset[t]) : tset[t][j] \in lset[t] =>
        first_write[t] < j /\ j <= Len(tset[t])
  BY <1>1, <1>3, <1>4
<1>6. QED
  BY <1>2, <1>3, <1>5 DEF LocksInv, Reading, Locking, Installing

(* The install phase holds exactly the written items still to install; the *)
(* last one leaves none.                                                   *)
LEMMA NextToInstallLocks ==
  ASSUME CallType, SetType, NEW t \in Thread, SetInv(t), ControlInv(t),
         pc[t] \in Installing, NextToInstall(t), tset' = tset, wset' = wset,
         \A j \in 1 .. Len(tset[t]) :
           tset[t][j] \in lset'[t] <=> tset[t][j] \in wset[t] /\ j > k[t],
         \A i \in lset'[t] : \E j \in 1 .. Len(tset[t]) : tset[t][j] = i
  PROVE  LocksInv(t)'
<1>1. k[t] \in Nat /\ Len(tset[t]) \in Nat /\ k[t] >= 1 /\ k[t] <= Len(tset[t])
  BY DEF CallType, SetType, ControlInv, Indexing
<1>2. CASE k[t] = Len(tset[t])
  <2>1. \A j \in 1 .. Len(tset[t]) : ~(j > k[t])
    BY <1>1, <1>2
  <2>2. lset'[t] = {}
    BY <2>1
  <2>3. QED
    BY <1>2, <2>2, StoppedLocks DEF NextToInstall
<1>3. CASE k[t] # Len(tset[t])
  <2>1. pc'[t] = "inst_val" /\ k'[t] = k[t] + 1 /\ state' = state
    BY <1>3 DEF NextToInstall, Goto, CallType
  <2>2. \A j \in 1 .. Len(tset[t]) : j > k[t] <=> j >= k[t] + 1
    BY <1>1
  <2>3. state[t] = "committing_locked"
    BY DEF ControlInv
  <2>4. QED
    BY <2>1, <2>2, <2>3 DEF LocksInv, Reading, Locking, Installing
<1>4. QED BY <1>2, <1>3

(* Every step keeps the account of which items are locked: all paths       *)
(* through try_commit and stop, the failing ones included.                 *)
LEMMA LocksStep ==
  ASSUME IInv, NEW t \in Thread, UserStep(t) \/ LibraryStep(t)
  PROVE  LocksInv(t)'
<1>a. /\ SetType /\ CallType /\ TidType
      /\ SetInv(t) /\ ControlInv(t) /\ LocksInv(t)
  BY DEF IInv, TypeOK
<1>t. /\ tset[t] \in Seq(Item) /\ Len(tset[t]) \in Nat /\ k[t] \in Nat
      /\ k[t] <= Len(tset[t]) /\ (pc[t] \in Indexing => k[t] >= 1)
  BY <1>a DEF SetType, CallType, ControlInv
<1>1. CASE Start(t)
  BY <1>1, <1>a, QuietLocks DEF Start, Goto, CallType, SetType
<1>2. CASE \E i \in Item : BeginRead(t, i) \/ Write(t, i)
  <2>1. lset'[t] = {} /\ pc'[t] \in {"run", "rd_val"}
    BY <1>2, <1>a DEF BeginRead, Write, Goto, CallType, LocksInv
  <2>2. QED BY <2>1, QuietLocks DEF Reading
<1>3. CASE RetryRead(t) \/ ReadValue(t) \/ CheckOpacity(t) \/ HardCheckTid(t) \/ ReadNonopaqueValue(t)
  <2>1. lset'[t] = {} /\ pc'[t] \in {"run", "rd_val", "rd_v1", "hco_tid", "hco"}
    BY <1>3, <1>a DEF RetryRead, ReadValue, CheckOpacity, HardCheckTid, ReadNonopaqueValue, Goto, CallType, LocksInv, Reading
  <2>2. QED BY <2>1, QuietLocks DEF Reading
<1>4. CASE ReadVersion(t) \/ HardCheckItem(t) \/ UserAbort(t) \/ \E i \in Item : ObserveNonopaque(t, i)
  <2>1. lset'[t] = {}
    BY <1>4, <1>a DEF ReadVersion, HardCheckItem, UserAbort, ObserveNonopaque, LocksInv, Reading
  <2>2. CASE Stopped(t, FALSE)
    BY <2>1, <2>2, <1>a, StoppedLocks
  <2>3. CASE ~Stopped(t, FALSE)
    <3>1. pc'[t] \in {"run", "tco", "rd_v0", "rd_nval", "hco"}
      BY <1>4, <2>3, <1>a DEF ReadVersion, HardCheckItem, UserAbort, ObserveNonopaque, Goto, CallType
    <3>2. QED BY <2>1, <3>1, QuietLocks DEF Reading
  <2>4. QED BY <2>2, <2>3
<1>5. CASE TryCommit(t)
  <2>1. lset'[t] = {} /\ lset[t] = {}
    BY <1>5, <1>a DEF TryCommit, LocksInv
  <2>2. CASE Stopped(t, TRUE)
    BY <2>1, <2>2, <1>a, StoppedLocks
  <2>3. CASE ~Stopped(t, TRUE)
    <3>1. pc'[t] = "lock" /\ state'[t] = "committing" /\ k'[t] = 1 /\ tset' = tset
      BY <1>5, <2>3, <1>a DEF TryCommit, Goto, CallType, setVars
    <3>2. \A j \in 1 .. Len(tset[t]) : ~(j < 1)
      BY <1>t
    <3>3. QED
      BY <2>1, <3>1, <3>2 DEF LocksInv, Reading, Locking, Installing
  <2>4. QED BY <2>2, <2>3
<1>6. CASE LockSkip(t)
  <2>1. /\ pc[t] = "lock" /\ state' = state /\ tset' = tset /\ wset' = wset
        /\ lset' = lset /\ first_write' = first_write /\ NextToLock(t)
        /\ tset[t][k[t]] \notin wset[t]
    BY <1>6 DEF LockSkip, setVars, tidVars
  <2>2. \A j \in 1 .. Len(tset[t]) :
          tset[t][j] \in lset[t] <=> tset[t][j] \in wset[t] /\ j < k[t]
    BY <2>1, <1>a DEF LocksInv, Locking
  <2>3. \A j \in 1 .. Len(tset[t]) : j <= k[t] <=> j < k[t] \/ j = k[t]
    BY <1>t
  <2>4. \A i \in lset'[t] : \E j \in 1 .. Len(tset[t]) : tset[t][j] = i
    BY <2>1, <1>a DEF SetInv
  <2>5. \A j \in 1 .. Len(tset[t]) :
          tset[t][j] \in lset'[t] <=> tset[t][j] \in wset[t] /\ j <= k[t]
    BY <2>1, <2>2, <2>3
  <2>6. state[t] = "committing" => lset'[t] = {}
    BY <2>1, <1>a DEF LocksInv
  <2>7. QED
    BY <2>1, <2>4, <2>5, <2>6, <1>a, NextToLockLocks DEF Locking
<1>7. CASE LockLoad(t)
  <2>1. /\ pc[t] = "lock" /\ pc'[t] = "cas" /\ state'[t] = "committing_locked"
        /\ k' = k /\ tset' = tset /\ wset' = wset /\ lset' = lset
        /\ first_write'[t] = IF state[t] = "committing" THEN k[t] - 1 ELSE first_write[t]
    BY <1>7, <1>a DEF LockLoad, Goto, CallType, TidType, setVars
  <2>2. /\ first_write'[t] < Len(tset[t])
        /\ \A j \in 1 .. first_write'[t] : tset[t][j] \notin wset[t]
    <3>1. CASE state[t] = "committing"
      <4>1. first_write'[t] = k[t] - 1 /\ lset[t] = {}
        BY <2>1, <3>1, <1>a DEF LocksInv
      <4>2. \A j \in 1 .. Len(tset[t]) : j < k[t] => tset[t][j] \notin wset[t]
        BY <2>1, <4>1, <1>a DEF LocksInv, Locking
      <4>3. \A j \in 1 .. k[t] - 1 : j \in 1 .. Len(tset[t]) /\ j < k[t]
        BY <1>t
      <4>4. k[t] - 1 < Len(tset[t])
        BY <1>t
      <4>5. QED BY <4>1, <4>2, <4>3, <4>4
    <3>2. CASE state[t] # "committing"
      BY <2>1, <3>2, <1>a DEF LocksInv, Locking, ControlInv
    <3>3. QED BY <3>1, <3>2
  <2>3. \A j \in 1 .. Len(tset[t]) :
          tset[t][j] \in lset[t] <=> tset[t][j] \in wset[t] /\ j < k[t]
    BY <2>1, <1>a DEF LocksInv, Locking
  <2>4. QED
    BY <2>1, <2>2, <2>3 DEF LocksInv, Reading, Locking, Installing
<1>8. CASE LockCas(t)
  <2>0. /\ pc[t] = "cas" /\ state' = state /\ tset' = tset /\ wset' = wset
        /\ first_write' = first_write /\ state[t] = "committing_locked"
        /\ tset[t][k[t]] \in wset[t] /\ k[t] \in 1 .. Len(tset[t])
    BY <1>8, <1>a, <1>t DEF LockCas, CountSpin, setVars, tidVars, ControlInv, Indexing
  <2>1. \A j \in 1 .. Len(tset[t]) :
          tset[t][j] \in lset[t] <=> tset[t][j] \in wset[t] /\ j < k[t]
    BY <2>0, <1>a DEF LocksInv, Locking
  <2>2. CASE NextToLock(t) /\ lset' = [lset EXCEPT ![t] = @ \cup {tset[t][k[t]]}]
    <3>1. lset'[t] = lset[t] \cup {tset[t][k[t]]}
      BY <2>2, <1>a DEF SetType
    <3>2. \A j \in 1 .. Len(tset[t]) : j <= k[t] <=> j < k[t] \/ j = k[t]
      BY <1>t
    <3>3. \A j \in 1 .. Len(tset[t]) : tset[t][j] = tset[t][k[t]] => j = k[t]
      BY <2>0, <1>a DEF SetInv
    <3>4. \A j \in 1 .. Len(tset[t]) :
            tset[t][j] \in lset'[t] <=> tset[t][j] \in wset[t] /\ j <= k[t]
      BY <2>0, <2>1, <3>1, <3>2, <3>3
    <3>5. \A i \in lset'[t] : \E j \in 1 .. Len(tset[t]) : tset[t][j] = i
      BY <2>0, <3>1, <1>a DEF SetInv
    <3>6. QED
      BY <2>0, <2>2, <3>4, <3>5, <1>a, NextToLockLocks DEF Locking
  <2>3. CASE AbortLocked(t) /\ UNCHANGED lset
    BY <2>0, <2>3, <1>a, AbortLockedLocks
  <2>4. CASE Goto(t, "lock") /\ UNCHANGED <<lset, k>>
    <3>1. pc'[t] = "lock" /\ k' = k /\ lset' = lset
      BY <2>4, <1>a DEF Goto, CallType
    <3>2. QED
      BY <2>0, <3>1, <1>a DEF LocksInv, Reading, Locking, Installing
  <2>5. QED
    BY <1>8, <2>2, <2>3, <2>4 DEF LockCas, CountSpin
<1>9. CASE CheckItem(t)
  <2>0. /\ pc[t] = "check" /\ tset' = tset /\ wset' = wset /\ lset' = lset
        /\ first_write' = first_write /\ lset[t] = wset[t]
    BY <1>9, <1>a DEF CheckItem, setVars, tidVars, LocksInv
  <2>1. CASE state[t] = "committing_locked" /\ AbortLocked(t) /\ UNCHANGED state
    BY <2>0, <2>1, <1>a, AbortLockedLocks
  <2>2. CASE (state[t] = "committing" \/ ~any_writes(t)) /\ (Stopped(t, FALSE) \/ Stopped(t, TRUE))
    <3>1. lset'[t] = {}
      BY <2>0, <2>2, <1>a DEF LocksInv, any_writes
    <3>2. QED BY <2>2, <3>1, <1>a, StoppedLocks
  <2>3. CASE UNCHANGED <<state, pc>>
    BY <2>0, <2>3, <1>a DEF LocksInv, Reading, Locking, Installing
  <2>4. CASE k' = [k EXCEPT ![t] = 1] /\ Goto(t, "inst_val") /\ UNCHANGED state /\ any_writes(t)
    <3>1. pc'[t] = "inst_val" /\ state' = state /\ k'[t] = 1
      BY <2>4, <1>a DEF CallType, Goto
    <3>2. \A j \in 1 .. Len(tset[t]) : j >= 1
      BY <1>t
    <3>3. QED
      BY <2>0, <2>4, <3>1, <3>2, <1>a DEF LocksInv, Reading, Locking, Installing
  <2>5. QED
    BY <1>9, <2>1, <2>2, <2>3, <2>4 DEF CheckItem
<1>10. CASE InstallSkip(t)
  <2>1. /\ pc[t] = "inst_val" /\ tset' = tset /\ wset' = wset /\ lset' = lset
        /\ NextToInstall(t) /\ tset[t][k[t]] \notin wset[t]
    BY <1>10 DEF InstallSkip, setVars
  <2>2. \A j \in 1 .. Len(tset[t]) :
          tset[t][j] \in lset[t] <=> tset[t][j] \in wset[t] /\ j >= k[t]
    BY <2>1, <1>a DEF LocksInv, Installing
  <2>3. \A j \in 1 .. Len(tset[t]) : j >= k[t] <=> j > k[t] \/ j = k[t]
    BY <1>t
  <2>4. \A j \in 1 .. Len(tset[t]) :
          tset[t][j] \in lset'[t] <=> tset[t][j] \in wset[t] /\ j > k[t]
    BY <2>1, <2>2, <2>3
  <2>5. \A i \in lset'[t] : \E j \in 1 .. Len(tset[t]) : tset[t][j] = i
    BY <2>1, <1>a DEF SetInv
  <2>6. QED
    BY <2>1, <2>4, <2>5, <1>a, NextToInstallLocks DEF Installing
<1>11. CASE InstallValue(t) \/ FetchTid(t)
  <2>1. /\ pc[t] \in Installing /\ pc'[t] \in Installing /\ state' = state /\ k' = k
        /\ tset' = tset /\ wset' = wset /\ lset' = lset
    BY <1>11, <1>a DEF InstallValue, FetchTid, Goto, CallType, setVars, Installing
  <2>2. QED
    BY <2>1, <1>a DEF LocksInv, Reading, Locking, Installing
<1>12. CASE InstallVersion(t)
  <2>1. /\ pc[t] = "inst_ver" /\ tset' = tset /\ wset' = wset
        /\ lset'[t] = lset[t] \ {tset[t][k[t]]} /\ NextToInstall(t)
    BY <1>12, <1>a DEF InstallVersion, setVars, SetType
  <2>2. \A j \in 1 .. Len(tset[t]) :
          tset[t][j] \in lset[t] <=> tset[t][j] \in wset[t] /\ j >= k[t]
    BY <2>1, <1>a DEF LocksInv, Installing
  <2>3. \A j \in 1 .. Len(tset[t]) : j > k[t] <=> j >= k[t] /\ j # k[t]
    BY <1>t
  <2>4. k[t] \in 1 .. Len(tset[t])
    BY <2>1, <1>t DEF Indexing, Installing
  <2>5. \A j \in 1 .. Len(tset[t]) : tset[t][j] = tset[t][k[t]] => j = k[t]
    BY <2>4, <1>a DEF SetInv
  <2>6. \A j \in 1 .. Len(tset[t]) :
          tset[t][j] \in lset'[t] <=> tset[t][j] \in wset[t] /\ j > k[t]
    BY <2>1, <2>2, <2>3, <2>5
  <2>7. \A i \in lset'[t] : \E j \in 1 .. Len(tset[t]) : tset[t][j] = i
    BY <2>1, <1>a DEF SetInv
  <2>8. QED
    BY <2>1, <2>6, <2>7, <1>a, NextToInstallLocks DEF Installing
<1>13. CASE Unlock(t)
  <2>1. /\ pc[t] = "unlock" /\ tset' = tset /\ wset' = wset
        /\ first_write' = first_write
        /\ lset'[t] = lset[t] \ {tset[t][k[t]]}
    BY <1>13, <1>a DEF Unlock, UnlockEnds, setVars, tidVars, SetType
  <2>2. /\ first_write[t] < k[t] /\ first_write[t] \in Nat
        /\ \A j \in 1 .. Len(tset[t]) : tset[t][j] \in lset[t] =>
             first_write[t] < j /\ j <= k[t]
    BY <2>1, <1>a DEF LocksInv, TidType
  <2>3. \A j \in 1 .. Len(tset[t]) : tset[t][j] \in lset'[t] =>
          first_write[t] < j /\ j <= k[t] - 1
    BY <2>1, <2>2, <1>t
  <2>4. CASE k[t] = first_write[t] + 1 /\ Stopped(t, FALSE)
    <3>1. \A j \in 1 .. Len(tset[t]) : tset[t][j] \notin lset'[t]
      BY <2>2, <2>3, <2>4, <1>t
    <3>2. lset'[t] = {}
      BY <2>1, <3>1, <1>a DEF SetInv
    <3>3. QED BY <2>4, <3>2, <1>a, StoppedLocks
  <2>5. CASE /\ k[t] # first_write[t] + 1 /\ k' = [k EXCEPT ![t] = @ - 1]
             /\ UNCHANGED <<state, pc, n, readVars>>
    <3>1. k'[t] = k[t] - 1 /\ pc'[t] = "unlock" /\ state' = state
      BY <2>1, <2>5, <1>a DEF CallType
    <3>2. first_write[t] < k[t] - 1
      BY <2>2, <2>5, <1>t
    <3>3. state[t] = "committing_locked"
      BY <2>1, <1>a DEF ControlInv
    <3>4. QED
      BY <2>1, <2>3, <3>1, <3>2, <3>3 DEF LocksInv, Reading, Locking, Installing
  <2>6. QED
    BY <1>13, <2>4, <2>5 DEF Unlock, UnlockEnds
<1>14. QED
  BY <1>1, <1>2, <1>3, <1>4, <1>5, <1>6, <1>7, <1>8, <1>9, <1>10, <1>11,
     <1>12, <1>13
  DEF UserStep, LibraryStep

(* The steps that leave locks, versions and tids alone.                    *)
Neutral(t) ==
  \/ UserAbort(t) \/ TryCommit(t)
  \/ (\E i \in Item : BeginRead(t, i) \/ ObserveNonopaque(t, i) \/ Write(t, i))
  \/ RetryRead(t) \/ ReadValue(t) \/ ReadVersion(t) \/ CheckOpacity(t)
  \/ HardCheckTid(t) \/ HardCheckItem(t) \/ ReadNonopaqueValue(t)
  \/ LockSkip(t) \/ LockLoad(t) \/ CheckItem(t) \/ InstallSkip(t)
  \/ InstallValue(t)

(* These steps write no version word, no tid and no lock flag.             *)
LEMMA NeutralStep ==
  ASSUME NEW t \in Thread, Neutral(t)
  PROVE  UNCHANGED <<ver, TID, lset, commit_tid, log>> /\ pc[t] # "idle"
<1>1. CASE \/ UserAbort(t) \/ TryCommit(t)
           \/ \E i \in Item : BeginRead(t, i) \/ ObserveNonopaque(t, i) \/ Write(t, i)
  BY <1>1 DEF UserAbort, TryCommit, BeginRead, ObserveNonopaque, Write, sharedVars, tidVars, histVars
<1>2. CASE \/ RetryRead(t) \/ ReadValue(t) \/ ReadVersion(t) \/ CheckOpacity(t)
           \/ HardCheckTid(t) \/ HardCheckItem(t) \/ ReadNonopaqueValue(t)
  BY <1>2 DEF RetryRead, ReadValue, ReadVersion, CheckOpacity, HardCheckTid,
     HardCheckItem, ReadNonopaqueValue, AddRead, sharedVars, tidVars, histVars
<1>3. CASE \/ LockSkip(t) \/ LockLoad(t) \/ CheckItem(t) \/ InstallSkip(t)
           \/ InstallValue(t)
  BY <1>3 DEF LockSkip, LockLoad, CheckItem, InstallSkip, InstallValue, sharedVars, tidVars, histVars
<1>4. QED BY <1>1, <1>2, <1>3 DEF Neutral

(* A successful compare-and-swap locks an unlocked word and keeps its tid, *)
(* even when the load before it saw the word locked by thread 0.           *)
LEMMA LockCasWord ==
  ASSUME IInv, NEW t \in Thread, LockCas(t), ver' # ver
  PROVE  \E i \in Item :
           /\ ver[i].lock = NoThread
           /\ ver' = [ver EXCEPT ![i] = locked(obs[t], t)]
           /\ obs[t] \in Version /\ obs[t].tid = ver[i].tid
           /\ lset' = [lset EXCEPT ![t] = @ \cup {i}]
<1> DEFINE i == tset[t][k[t]]
<1>1. i \in Item
  BY DEF IInv, TypeOK, SetType, CallType, ControlInv, Indexing, LockCas, CountSpin
<1>2. try_lock_succeeds(ver[i], obs[t]) /\ ver' = [ver EXCEPT ![i] = locked(obs[t], t)]
      /\ lset' = [lset EXCEPT ![t] = @ \cup {i}]
  BY DEF LockCas, CountSpin
<1>3. obs[t] \in Version
  BY DEF IInv, TypeOK, CallType
<1>4. ver[i].lock = NoThread
  BY <1>2 DEF try_lock_succeeds, is_locked
<1>5. unlocked(obs[t]).tid = obs[t].tid
  BY <1>3, LockedWord DEF unlocked
<1>6. obs[t].tid = ver[i].tid
  BY <1>2, <1>5 DEF try_lock_succeeds
<1>7. QED BY <1>1, <1>2, <1>3, <1>4, <1>6

(* install writes the version of an item that the thread has locked, and   *)
(* by then an opaque item has a commit tid to take.                        *)
LEMMA InstallWord ==
  ASSUME IInv, NEW t \in Thread, InstallVersion(t)
  PROVE  \E i \in Item :
           /\ i \in lset[t]
           /\ ver' = [ver EXCEPT ![i] = InstalledVersion(t, i)]
           /\ lset' = [lset EXCEPT ![t] = @ \ {i}]
           /\ log' = [log EXCEPT ![i] = Append(@, <<Me(t), InstalledVersion(t, i).tid>>)]
           /\ i \in Opaque => commit_tid[t] # 0
<1> DEFINE i == tset[t][k[t]]
<1>a. SetType /\ CallType /\ ControlInv(t) /\ LocksInv(t) /\ pc[t] = "inst_ver"
  BY DEF IInv, TypeOK, InstallVersion
<1>1. k[t] \in 1 .. Len(tset[t]) /\ i \in Item
  BY <1>a DEF SetType, CallType, ControlInv, Indexing, Installing
<1>2. k[t] >= k[t]
  BY <1>1
<1>3. i \in lset[t]
  BY <1>a, <1>1, <1>2 DEF LocksInv, Installing, ControlInv
<1>4. i \in Opaque => commit_tid[t] # 0
  BY <1>a DEF ControlInv
<1>5. QED BY <1>1, <1>3, <1>4 DEF InstallVersion

(* unlock in stop(false) writes only items that carry the lock flag.       *)
LEMMA UnlockWord ==
  ASSUME IInv, NEW t \in Thread, Unlock(t), ver' # ver
  PROVE  \E i \in Item :
           /\ i \in lset[t]
           /\ ver' = [ver EXCEPT ![i] = unlocked(ver[i])]
           /\ lset' = [lset EXCEPT ![t] = @ \ {i}]
<1> DEFINE i == tset[t][k[t]]
<1>1. i \in Item /\ ver \in [Item -> Version]
  BY DEF IInv, TypeOK, MemoryType, SetType, CallType, ControlInv, Indexing, Unlock, UnlockEnds
<1>2. QED BY <1>1 DEF Unlock, UnlockEnds

(* A version word and the lock flag of an item always change together.     *)
LEMMA OwnershipStep ==
  ASSUME IInv, NEW t \in Thread, UserStep(t) \/ LibraryStep(t)
  PROVE  Ownership'
<1>a. MemoryType /\ SetType /\ Ownership
  BY DEF IInv, TypeOK
<1>1. CASE Start(t)
  <2>1. lset[t] = {} /\ ver' = ver /\ lset' = [lset EXCEPT ![t] = {}]
    BY <1>1 DEF Start, IInv, LocksInv, sharedVars
  <2>2. QED BY <1>a, <2>1 DEF Ownership, SetType
<1>2. CASE LockCas(t)
  <2>1. CASE ver' # ver
    <3> PICK i \in Item :
           /\ ver[i].lock = NoThread
           /\ ver' = [ver EXCEPT ![i] = locked(obs[t], t)]
           /\ obs[t] \in Version /\ obs[t].tid = ver[i].tid
           /\ lset' = [lset EXCEPT ![t] = @ \cup {i}]
      BY <1>2, <2>1, LockCasWord
    <3>1. locked(obs[t], t).lock = t
      BY LockedWord
    <3>2. QED
      BY <1>a, <3>1, ThreadAssumption DEF Ownership, MemoryType, SetType
  <2>2. CASE ver' = ver /\ lset' = lset
    BY <1>a, <2>2 DEF Ownership
  <2>3. CASE ver' = ver /\ lset' # lset
    <3>1. /\ ver' = [ver EXCEPT ![tset[t][k[t]]] = locked(obs[t], t)]
          /\ ver[tset[t][k[t]]].lock = NoThread
      BY <1>2, <2>3 DEF LockCas, CountSpin, try_lock_succeeds, is_locked
    <3>2. obs[t] \in Version /\ tset[t][k[t]] \in Item
      BY <1>2 DEF IInv, TypeOK, SetType, CallType, ControlInv, Indexing, LockCas, CountSpin
    <3>3. QED
      BY <1>a, <2>3, <3>1, <3>2, LockedWord, ThreadAssumption DEF MemoryType
  <2>4. QED BY <2>1, <2>2, <2>3
<1>3. CASE InstallVersion(t)
  <2> PICK i \in Item :
         /\ i \in lset[t]
         /\ ver' = [ver EXCEPT ![i] = InstalledVersion(t, i)]
         /\ lset' = [lset EXCEPT ![t] = @ \ {i}]
    BY <1>3, InstallWord
  <2>1. InstalledVersion(t, i).lock = NoThread
    BY InstalledVersionType DEF IInv
  <2>2. QED
    BY <1>a, <2>1, ThreadAssumption DEF Ownership, MemoryType, SetType
<1>4. CASE Unlock(t)
  <2>1. CASE \E i \in Item :
           /\ i \in lset[t]
           /\ ver' = [ver EXCEPT ![i] = unlocked(ver[i])]
           /\ lset' = [lset EXCEPT ![t] = @ \ {i}]
    <3> PICK i \in Item :
           /\ i \in lset[t]
           /\ ver' = [ver EXCEPT ![i] = unlocked(ver[i])]
           /\ lset' = [lset EXCEPT ![t] = @ \ {i}]
      BY <2>1
    <3>1. unlocked(ver[i]).lock = NoThread
      BY <1>a, LockedWord DEF unlocked, MemoryType
    <3>2. QED
      BY <1>a, <3>1, ThreadAssumption DEF Ownership, MemoryType, SetType
  <2>2. CASE ver' = ver /\ lset' = lset
    BY <1>a, <2>2 DEF Ownership
  <2>3. tset[t][k[t]] \in Item
    BY <1>4 DEF IInv, TypeOK, SetType, CallType, ControlInv, Indexing, Unlock, UnlockEnds
  <2>4. QED
    BY <1>4, <1>a, <2>1, <2>2, <2>3 DEF Unlock, UnlockEnds, MemoryType
<1>5. CASE FetchTid(t) \/ Neutral(t)
  BY <1>5, <1>a, NeutralStep DEF FetchTid, Ownership
<1>6. QED
  BY <1>1, <1>2, <1>3, <1>4, <1>5 DEF UserStep, LibraryStep, Neutral

(* An index into a sequence that grew by one entry is old or the last.     *)
LEMMA LastOrBefore ==
  ASSUME NEW m \in Nat, NEW a \in 1 .. m + 1
  PROVE  a \in 1 .. m \/ a = m + 1
OBVIOUS

(* The tid a commit takes from _TID is above those of the items it has     *)
(* locked, and nobody else can change these until it installs: so versions *)
(* increase.                                                               *)
LEMMA TidStep ==
  ASSUME IInv, NEW t \in Thread, UserStep(t) \/ LibraryStep(t)
  PROVE  TidInv' /\ VersionsIncrease'
<1>a. /\ MemoryType /\ SetType /\ TidType /\ HistoryType /\ CallType
      /\ TidInv /\ VersionsIncrease /\ Ownership
  BY DEF IInv, TypeOK
<1>o. \A u \in Thread : u # t =>
        pc'[u] = pc[u] /\ lset'[u] = lset[u] /\ commit_tid'[u] = commit_tid[u]
  BY OtherThreads DEF IInv
<1>n. \A i \in Item : ver[i].tid \in Nat
  BY <1>a DEF MemoryType, Version
<1>1. CASE Start(t)
  <2>1. /\ UNCHANGED <<ver, TID, log>> /\ pc'[t] = "run" /\ commit_tid'[t] = 0
    BY <1>1, <1>a DEF Start, sharedVars, Goto, CallType, TidType
  <2>2. \A u \in Thread : commit_tid'[u] < TID
    BY <1>a, <1>o, <2>1 DEF TidInv
  <2>3. QED
    BY <1>a, <1>o, <2>1, <2>2 DEF TidInv, VersionsIncrease, Installing
<1>2. CASE Neutral(t)
  <2>1. UNCHANGED <<ver, TID, lset, commit_tid, log>> /\ pc[t] # "idle"
    BY <1>2, NeutralStep
  <2>2. pc[t] \notin Installing => commit_tid[t] = 0
    BY <2>1 DEF IInv, ControlInv
  <2>3. QED
    BY <1>a, <1>o, <2>1, <2>2 DEF TidInv, VersionsIncrease
<1>3. CASE FetchTid(t)
  <2>1. /\ UNCHANGED <<ver, lset, log>> /\ TID' = TID + 1 /\ TID \in Nat
        /\ commit_tid'[t] = TID
    BY <1>3, <1>a DEF FetchTid, histVars, TidType, MemoryType
  <2>2. ASSUME NEW u \in Thread PROVE commit_tid'[u] < TID'
    <3>1. CASE u = t
      BY <2>1, <3>1
    <3>2. CASE u # t
      <4>1. commit_tid'[u] = commit_tid[u] /\ commit_tid[u] \in Nat /\ commit_tid[u] < TID
        BY <1>a, <1>o, <3>2 DEF TidInv, TidType
      <4>2. QED BY <2>1, <4>1
    <3>3. QED BY <3>1, <3>2
  <2>3. \A i \in Opaque : ver[i].tid < TID'
    BY <1>a, <1>n, <2>1, ItemAssumption DEF TidInv
  <2>4. \A u \in Thread : pc'[u] \in Installing /\ commit_tid'[u] # 0 =>
          \A i \in lset'[u] \cap Opaque : ver'[i].tid < commit_tid'[u]
    BY <1>a, <1>o, <2>1 DEF TidInv
  <2>5. QED
    BY <1>a, <2>1, <2>2, <2>3, <2>4 DEF TidInv, VersionsIncrease
<1>4. CASE LockCas(t) \/ Unlock(t)
  <2>1. /\ UNCHANGED <<TID, commit_tid, log>> /\ commit_tid[t] = 0
    BY <1>4 DEF LockCas, CountSpin, Unlock, UnlockEnds, tidVars, histVars, IInv, ControlInv, Installing
  <2>2. \A i \in Item : ver'[i].tid = ver[i].tid
    <3>1. CASE ver' = ver
      BY <3>1
    <3>2. CASE ver' # ver /\ LockCas(t)
      <4> PICK i \in Item :
             /\ ver' = [ver EXCEPT ![i] = locked(obs[t], t)]
             /\ obs[t] \in Version /\ obs[t].tid = ver[i].tid
        BY <3>2, LockCasWord
      <4>1. locked(obs[t], t).tid = ver[i].tid
        BY LockedWord
      <4>2. QED BY <1>a, <4>1 DEF MemoryType
    <3>3. CASE ver' # ver /\ Unlock(t)
      <4> PICK i \in Item : ver' = [ver EXCEPT ![i] = unlocked(ver[i])]
        BY <3>3, UnlockWord
      <4>1. unlocked(ver[i]).tid = ver[i].tid
        BY <1>a, LockedWord DEF unlocked, MemoryType
      <4>2. QED BY <1>a, <4>1 DEF MemoryType
    <3>4. QED BY <1>4, <3>1, <3>2, <3>3
  <2>3. QED
    BY <1>a, <1>o, <2>1, <2>2, ItemAssumption DEF TidInv, VersionsIncrease, SetType
<1>5. CASE InstallVersion(t)
  <2> PICK i \in Item :
         /\ i \in lset[t]
         /\ ver' = [ver EXCEPT ![i] = InstalledVersion(t, i)]
         /\ lset' = [lset EXCEPT ![t] = @ \ {i}]
         /\ log' = [log EXCEPT ![i] = Append(@, <<Me(t), InstalledVersion(t, i).tid>>)]
         /\ i \in Opaque => commit_tid[t] # 0
    BY <1>5, InstallWord
  <2>1. /\ UNCHANGED <<TID, commit_tid>> /\ pc[t] \in Installing
    BY <1>5 DEF InstallVersion, tidVars, Installing
  <2>2. i \in Opaque => /\ InstalledVersion(t, i).tid = commit_tid[t]
                        /\ ver[i].tid < commit_tid[t] /\ commit_tid[t] < TID
    BY <1>a, <2>1, InstalledVersionType DEF TidInv, IInv
  <2>3. \A j \in Item : j # i => ver'[j] = ver[j] /\ log'[j] = log[j]
    BY <1>a DEF MemoryType, HistoryType
  <2>4. ver'[i] = InstalledVersion(t, i) /\ log'[i] = Append(log[i], <<Me(t), InstalledVersion(t, i).tid>>)
    BY <1>a DEF MemoryType, HistoryType
  <2>5. \A j \in Opaque : ver'[j].tid < TID
    BY <1>a, <2>2, <2>3, <2>4, ItemAssumption DEF TidInv
  <2>6. \A u \in Thread : pc'[u] \in Installing /\ commit_tid'[u] # 0 =>
          \A j \in lset'[u] \cap Opaque : ver'[j].tid < commit_tid'[u]
    <3>1. \A j \in lset'[t] : j # i /\ j \in lset[t]
      BY <1>a DEF SetType
    <3>2. \A u \in Thread : u # t => i \notin lset[u]
      BY <1>a DEF Ownership
    <3>3. QED
      BY <1>a, <1>o, <2>1, <2>3, <3>1, <3>2, ItemAssumption DEF TidInv
  <2>7. ASSUME NEW j \in Opaque
        PROVE  /\ \A a \in 1 .. Len(log'[j]) : log'[j][a][2] <= ver'[j].tid
               /\ \A a, b \in DOMAIN log'[j] : a < b => log'[j][a][2] < log'[j][b][2]
    <3>1. CASE j # i
      BY <1>a, <2>3, <3>1, ItemAssumption DEF TidInv, VersionsIncrease
    <3>2. CASE j = i
      <4>1. log[i] \in Seq(Token \X Nat) /\ Len(log[i]) \in Nat
        BY <1>a DEF HistoryType
      <4>2. /\ Len(log'[i]) = Len(log[i]) + 1
            /\ \A a \in 1 .. Len(log[i]) : log'[i][a] = log[i][a]
            /\ log'[i][Len(log[i]) + 1][2] = commit_tid[t]
            /\ DOMAIN log'[i] = 1 .. Len(log[i]) + 1
        BY <2>2, <2>4, <3>2, <4>1
      <4>3. \A a \in 1 .. Len(log[i]) : log[i][a][2] \in Nat /\ log[i][a][2] <= ver[i].tid
        BY <1>a, <3>2, <4>1 DEF TidInv
      <4>4. commit_tid[t] \in Nat /\ ver[i].tid \in Nat /\ ver'[i].tid = commit_tid[t] /\ ver[i].tid < commit_tid[t]
        BY <1>a, <1>n, <2>2, <2>4, <3>2 DEF TidType
      <4>5. \A a \in 1 .. Len(log[i]) : log'[i][a][2] < commit_tid[t]
        BY <4>2, <4>3, <4>4
      <4>6. \A a \in 1 .. Len(log[i]) + 1 : a \in 1 .. Len(log[i]) \/ a = Len(log[i]) + 1
        BY <4>1, LastOrBefore
      <4>7. \A a \in 1 .. Len(log'[i]) : log'[i][a][2] <= ver'[i].tid
        BY <4>2, <4>3, <4>4, <4>5, <4>6
      <4>8. \A a, b \in 1 .. Len(log[i]) : a < b => log[i][a][2] < log[i][b][2]
        BY <1>a, <3>2, <4>1 DEF VersionsIncrease
      <4>9. \A a, b \in 1 .. Len(log[i]) + 1 : a < b => a \in 1 .. Len(log[i])
        BY <4>1
      <4>10. \A a, b \in DOMAIN log'[i] : a < b => log'[i][a][2] < log'[i][b][2]
        BY <4>2, <4>5, <4>6, <4>8, <4>9
      <4>11. QED BY <3>2, <4>7, <4>10
    <3>3. QED BY <3>1, <3>2
  <2>8. QED
    BY <1>a, <2>1, <2>5, <2>6, <2>7 DEF TidInv, VersionsIncrease
<1>6. QED
  BY <1>1, <1>2, <1>3, <1>4, <1>5 DEF UserStep, LibraryStep, Neutral
(* The program starts in the inductive invariant.                          *)
LEMMA IInvInit == Init => IInv
<1> SUFFICES ASSUME Init PROVE IInv
  OBVIOUS
<1>1. TypeOK
  BY TypeInit
<1>2. ASSUME NEW t \in Thread PROVE SetInv(t) /\ ControlInv(t) /\ LocksInv(t)
  <2>1. /\ tset[t] = <<>> /\ rset[t] = {} /\ wset[t] = {} /\ lset[t] = {}
        /\ pc[t] = "idle" /\ state[t] = "aborted" /\ k[t] = 0
    BY DEF Init
  <2>2. Len(tset[t]) = 0
    BY <2>1
  <2>3. QED
    BY <2>1, <2>2 DEF SetInv, ControlInv, LocksInv, Reading, Locking, Installing, Indexing
<1>3. Ownership
  <2>1. \A i \in Item : ver[i].lock = NoThread
    BY DEF Init, FreshVersion
  <2>2. \A t \in Thread : lset[t] = {}
    BY DEF Init
  <2>3. QED BY <2>1, <2>2, ThreadAssumption DEF Ownership
<1>4. TidInv /\ VersionsIncrease
  <2>1. TID = 2 /\ \A i \in Item : ver[i].tid = 0 /\ log[i] = <<>>
    BY DEF Init, FreshVersion, FirstTid
  <2>2. \A t \in Thread : commit_tid[t] = 0 /\ lset[t] = {}
    BY DEF Init
  <2>3. \A i \in Item : Len(log[i]) = 0 /\ DOMAIN log[i] = {}
    BY <2>1
  <2>4. QED BY <2>1, <2>2, <2>3, ItemAssumption DEF TidInv, VersionsIncrease
<1>5. QED BY <1>1, <1>2, <1>3, <1>4 DEF IInv

(* Every step of the program, of whichever thread, preserves it.           *)
LEMMA IInvStep == IInv /\ [Next]_vars => IInv'
<1> SUFFICES ASSUME IInv, [Next]_vars PROVE IInv'
  OBVIOUS
<1>1. CASE \E t \in Thread : UserStep(t) \/ LibraryStep(t)
  <2> PICK t \in Thread : UserStep(t) \/ LibraryStep(t)
    BY <1>1
  <2>1. TypeOK'
    BY TypeStep
  <2>2. SetInv(t)' /\ ControlInv(t)' /\ LocksInv(t)'
    BY <2>1, SetStep, ControlStep, LocksStep
  <2>3. ASSUME NEW u \in Thread, u # t
        PROVE  SetInv(u)' /\ ControlInv(u)' /\ LocksInv(u)'
    BY <2>3, OtherThreads DEF IInv, SetInv, ControlInv, LocksInv
  <2>4. Ownership' /\ TidInv' /\ VersionsIncrease'
    BY OwnershipStep, TidStep
  <2>5. QED BY <2>1, <2>2, <2>3, <2>4 DEF IInv
<1>2. CASE UNCHANGED vars
  <2>1. TypeOK'
    BY <1>2 DEF IInv, TypeOK, MemoryType, SetType, TidType, CallType, HistoryType,
       vars, sharedVars, setVars, tidVars, readVars, histVars
  <2>2. \A t \in Thread : SetInv(t)' /\ ControlInv(t)' /\ LocksInv(t)'
    BY <1>2 DEF IInv, SetInv, ControlInv, LocksInv,
       vars, sharedVars, setVars, tidVars, readVars, histVars
  <2>3. Ownership' /\ TidInv' /\ VersionsIncrease'
    BY <1>2 DEF IInv, Ownership, TidInv, VersionsIncrease,
       vars, sharedVars, setVars, tidVars, readVars, histVars
  <2>4. QED BY <2>1, <2>2, <2>3 DEF IInv
<1>3. QED BY <1>1, <1>2 DEF Next

(* The inductive invariant holds in every reachable state, for any number  *)
(* of threads and items, any workload, any mix of TVersion and             *)
(* TNonopaqueVersion items and any spin bound.                             *)
THEOREM Inductive == Spec => []IInv
<1>1. Init => IInv
  BY IInvInit
<1>2. IInv /\ [Next]_vars => IInv'
  BY IInvStep
<1>3. QED BY <1>1, <1>2, PTL DEF Spec

(* The variables stay in their domains, the bounded spin of try_lock       *)
(* included.                                                               *)
THEOREM TypeCorrect == Spec => []TypeOK
<1>1. IInv => TypeOK
  BY DEF IInv
<1>2. QED BY <1>1, Inductive, PTL

(* Lock bits in version words and lock flags of transaction items agree,   *)
(* and only a transaction inside try_commit or stop holds locks: no path   *)
(* through them leaves an item locked behind.                              *)
THEOREM Locks == Spec => []LockOwnership
<1>1. IInv => LockOwnership
  <2> SUFFICES ASSUME IInv PROVE LockOwnership
    OBVIOUS
  <2>1. ASSUME NEW t \in Thread, lset[t] # {}
        PROVE  state[t] = "committing_locked" /\ pc[t] # "idle"
    <3>1. CallType /\ ControlInv(t) /\ LocksInv(t)
      BY DEF IInv, TypeOK
    <3>2. pc[t] \in {"idle", "run"} \cup InCall
      BY <3>1 DEF CallType
    <3>3. pc[t] \in {"lock", "cas", "check", "unlock"} \cup Installing
      BY <2>1, <3>1, <3>2 DEF LocksInv, InCall, Reading, Installing
    <3>4. QED BY <2>1, <3>1, <3>3 DEF LocksInv, ControlInv, Installing
  <2>2. QED BY <2>1 DEF LockOwnership, IInv, Ownership
<1>2. QED BY <1>1, Inductive, PTL

(* The versions installed at an opaque (TVersion) item strictly increase,  *)
(* so that an unchanged version word implies an unchanged value.           *)
THEOREM Versions == Spec => []VersionsIncrease
<1>1. IInv => VersionsIncrease
  BY DEF IInv
<1>2. QED BY <1>1, Inductive, PTL

============================================================================
