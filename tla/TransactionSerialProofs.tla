---------------------- MODULE TransactionSerialProofs ----------------------
(* Proofs about Transaction.tla: transactions that validate are            *)
(* serializable in the order of their lock points (variable order).        *)
EXTENDS TransactionReadProofs, WellFoundedInduction

(* Only the end of the lock phase extends the order.                       *)
LockPoint(t) ==
  /\ pc[t] \in Locking /\ pc'[t] = "check"
  /\ order' = Append(order, Me(t))
  /\ k'[t] = 1
  /\ UNCHANGED <<txn, log, hist, seen, res>>

LEMMA OrderStep ==
  ASSUME IInv, NEW t \in Thread, UserStep(t) \/ LibraryStep(t)
  PROVE  \/ LockPoint(t)
         \/ order' = order /\ (pc'[t] = "check" => pc[t] = "check")
<1>a. CallType
  BY DEF IInv, TypeOK
<1>1. CASE LockSkip(t) \/ LockCas(t)
  <2>1. pc[t] \in Locking /\ UNCHANGED <<txn, log, hist, seen, res>>
    BY <1>1 DEF LockSkip, LockCas, Locking, readVars
  <2>2. \/ /\ k' = [k EXCEPT ![t] = 1] /\ order' = Append(order, Me(t))
           /\ Goto(t, "check")
        \/ (Goto(t, "lock") \/ Goto(t, "unlock")) /\ order' = order
    BY <1>1 DEF LockSkip, LockCas, NextToLock, AbortLocked
  <2>3. QED BY <1>a, <2>1, <2>2 DEF CallType, Goto, LockPoint
<1>2. CASE ~(LockSkip(t) \/ LockCas(t))
  <2>1. order' = order
    BY <1>2 DEF UserStep, LibraryStep, histVars, Start, BeginRead,
     ObserveNonopaque, Write, UserAbort, TryCommit, RetryRead, ReadValue,
     ReadVersion, CheckOpacity, HardCheckTid, HardCheckItem,
     ReadNonopaqueValue, LockLoad, CheckItem,
     InstallSkip, InstallValue, FetchTid, InstallVersion, Unlock, UnlockEnds
  <2>2. CASE CheckItem(t)
    BY <2>1, <2>2 DEF CheckItem
  <2>3. CASE ~CheckItem(t)
    <3>1. pc'[t] # "check" \/ pc' = pc
      BY <1>2, <2>3, <1>a DEF CallType, Goto, UserStep, LibraryStep, Start, BeginRead,
       ObserveNonopaque, Write, UserAbort, TryCommit, RetryRead, ReadValue,
       ReadVersion, CheckOpacity, HardCheckTid, HardCheckItem,
       ReadNonopaqueValue, LockLoad, NextToInstall, Stopped,
       InstallSkip, InstallValue, FetchTid, InstallVersion, Unlock, UnlockEnds
    <3>2. QED BY <2>1, <3>1
  <2>4. QED BY <2>2, <2>3
<1>3. QED BY <1>1, <1>2

(* A lock point comes after all the others.                                *)
LEMMA LastInOrder ==
  ASSUME IInv, NEW t \in Thread, LockPoint(t), NEW a, NEW b
  PROVE  /\ Ordered(a)' <=> Ordered(a) \/ a = Me(t)
         /\ Before(a, b) => Before(a, b)'
         /\ Ordered(a) => Before(a, Me(t))'
         /\ Len(order) \in Nat /\ Len(order') = Len(order) + 1
         /\ order'[Len(order) + 1] = Me(t)
         /\ \A p \in 1 .. Len(order) : order'[p] = order[p]
<1>1. order \in Seq(Token) /\ order' = Append(order, Me(t)) /\ Me(t)' = Me(t)
  BY DEF IInv, TypeOK, HistoryType, LockPoint, Me
<1>2. /\ Len(order) \in Nat /\ Len(order') = Len(order) + 1
      /\ order'[Len(order) + 1] = Me(t)
      /\ \A p \in 1 .. Len(order) : order'[p] = order[p] /\ p \in 1 .. Len(order')
  BY <1>1
<1>3. Ordered(a)' <=> Ordered(a) \/ a = Me(t)
  <2>1. Ordered(a) => Ordered(a)'
    BY <1>2 DEF Ordered
  <2>2. a = Me(t) => Ordered(a)'
    <3>1. Len(order) + 1 \in 1 .. Len(order')
      BY <1>2
    <3>2. QED BY <1>2, <3>1 DEF Ordered
  <2>3. \A p \in 1 .. Len(order') : p \in 1 .. Len(order) \/ p = Len(order) + 1
    BY <1>2, LastOrBefore
  <2>4. Ordered(a)' => Ordered(a) \/ a = Me(t)
    BY <1>2, <2>3 DEF Ordered
  <2>5. QED BY <2>1, <2>2, <2>4
<1>4. Before(a, b) => Before(a, b)'
  <2> SUFFICES ASSUME NEW q \in 1 .. Len(order), order[q] = b,
                      NEW p \in 1 .. q - 1, order[p] = a
               PROVE  Before(a, b)'
    BY DEF Before
  <2>1. p \in 1 .. Len(order)
    BY <1>2
  <2>2. QED BY <1>2, <2>1 DEF Before
<1>5. Ordered(a) => Before(a, Me(t))'
  <2> SUFFICES ASSUME NEW p \in 1 .. Len(order), order[p] = a
               PROVE  Before(a, Me(t))'
    BY DEF Ordered
  <2>1. Len(order) + 1 \in 1 .. Len(order') /\ p \in 1 .. (Len(order) + 1) - 1
    BY <1>2
  <2>2. QED BY <1>1, <1>2, <2>1 DEF Before
<1>6. QED BY <1>2, <1>3, <1>4, <1>5

(* The order is only extended.                                             *)
LEMMA OrderStays ==
  ASSUME IInv, NEW t \in Thread, UserStep(t) \/ LibraryStep(t), NEW a, NEW b
  PROVE  (Ordered(a) => Ordered(a)') /\ (Before(a, b) => Before(a, b)')
<1>1. CASE LockPoint(t)
  BY <1>1, LastInOrder
<1>2. CASE order' = order
  BY <1>2 DEF Ordered, Before
<1>3. QED BY <1>1, <1>2, OrderStep

(* It is a strict order on threads' transactions.                          *)
LEMMA OrderFacts ==
  ASSUME IInv, OrderInv, NEW a, NEW b
  PROVE  /\ Before(a, b) => Ordered(a) /\ Ordered(b) /\ a # b
         /\ Ordered(a) => a # InitialToken /\ a[1] \in Thread
<1>1. Len(order) \in Nat
  BY DEF IInv, TypeOK, HistoryType
<1>2. Ordered(a) => a # InitialToken /\ a[1] \in Thread
  <2> SUFFICES ASSUME NEW p \in 1 .. Len(order), order[p] = a
               PROVE  a # InitialToken /\ a[1] \in Thread
    BY DEF Ordered
  <2>1. a[1] \in Thread
    BY DEF OrderInv
  <2>2. InitialToken[1] = NoThread
    BY DEF InitialToken
  <2>3. QED BY <2>1, <2>2, ThreadAssumption
<1>3. Before(a, b) => Ordered(a) /\ Ordered(b) /\ a # b
  <2> SUFFICES ASSUME NEW q \in 1 .. Len(order), order[q] = b,
                      NEW p \in 1 .. q - 1, order[p] = a
               PROVE  Ordered(a) /\ Ordered(b) /\ a # b
    BY DEF Before
  <2>1. p \in 1 .. Len(order) /\ p # q
    BY <1>1
  <2>2. QED BY <2>1 DEF Ordered, OrderInv
<1>4. QED BY <1>2, <1>3

(* Lock points of different transactions are different.                    *)
LEMMA OrderInvStep ==
  ASSUME IInv, IInv', OrderInv, NEW t \in Thread, UserStep(t) \/ LibraryStep(t)
  PROVE  OrderInv'
<1>t. TypeOK /\ TypeOK'
  BY DEF IInv
<1>a. /\ TypeOK /\ txn \in [Thread -> Nat] /\ txn' \in [Thread -> Nat]
      /\ order \in Seq(Token) /\ Len(order) \in Nat
  BY <1>t DEF TypeOK, TidType, HistoryType
<1>o. \A u \in Thread : u # t => pc'[u] = pc[u] /\ txn'[u] = txn[u] /\ Me(u)' = Me(u)
  BY <1>a, OtherThreads, OtherReads DEF Me
<1>n. \A u \in Thread : txn[u] \in Nat /\ txn'[u] \in Nat /\ txn[u] <= txn'[u]
  BY <1>a, <1>o, TxnStep
<1>m. Me(t)[1] = t /\ Me(t)[2] = txn[t]
  BY DEF Me
<1>p. \A p \in 1 .. Len(order) : order[p][2] \in Nat
  BY <1>a DEF Token
<1>1. CASE LockPoint(t)
  <2>1. /\ Len(order') = Len(order) + 1 /\ order'[Len(order) + 1] = Me(t)
        /\ \A p \in 1 .. Len(order) : order'[p] = order[p]
        /\ \A a : Ordered(a)' <=> Ordered(a) \/ a = Me(t)
    BY <1>1, LastInOrder
  <2>2. \A p \in 1 .. Len(order') : p \in 1 .. Len(order) \/ p = Len(order) + 1
    BY <1>a, <2>1, LastOrBefore
  <2>3. \A p \in 1 .. Len(order) : order[p] # Me(t)
    BY <1>1 DEF OrderInv, Ordered, LockPoint, Locking, Installing
  <2>4. \A p, q \in 1 .. Len(order') : order'[p] = order'[q] => p = q
    BY <2>1, <2>2, <2>3 DEF OrderInv
  <2>5. \A p \in 1 .. Len(order') : order'[p][1] \in Thread /\ order'[p][2] <= txn'[order'[p][1]]
    BY <1>1, <1>m, <1>n, <2>1, <2>2 DEF OrderInv, LockPoint
  <2>6. \A u \in Thread : Me(u)' = Me(u) /\ (u # t => Me(u) # Me(t))
    BY <1>1 DEF LockPoint, Me
  <2>7. pc'[t] = "check" /\ Ordered(Me(t))'
    BY <1>1, <2>1, <2>6 DEF LockPoint, Ordered
  <2>8. ASSUME NEW u \in Thread
        PROVE  /\ Ordered(Me(u))' => pc'[u] \in {"idle", "check", "unlock"} \cup Installing
               /\ pc'[u] \in {"check"} \cup Installing => Ordered(Me(u))'
    <3>1. CASE u = t
      BY <2>7, <3>1
    <3>2. CASE u # t
      <4>1. PICK a \in {Me(u)} : TRUE
        OBVIOUS
      <4>2. Ordered(a)' <=> Ordered(a)
        BY <2>1, <2>6, <3>2, <4>1
      <4>3. Ordered(Me(u))' <=> Ordered(Me(u))
        BY <2>6, <4>1, <4>2 DEF Ordered
      <4>4. QED BY <1>o, <3>2, <4>3 DEF OrderInv
    <3>3. QED BY <3>1, <3>2
  <2>9. QED BY <2>4, <2>5, <2>8 DEF OrderInv
<1>2. CASE order' = order /\ (pc'[t] = "check" => pc[t] = "check")
  <2>1. \A p, q \in 1 .. Len(order') : order'[p] = order'[q] => p = q
    BY <1>2 DEF OrderInv
  <2>2. ASSUME NEW p \in 1 .. Len(order')
        PROVE  order'[p][1] \in Thread /\ order'[p][2] <= txn'[order'[p][1]]
    <3>1. order[p][1] \in Thread /\ order[p][2] <= txn[order[p][1]] /\ order[p][2] \in Nat
      BY <1>2, <1>p DEF OrderInv
    <3>2. order[p][2] <= txn'[order[p][1]]
      BY <1>n, <3>1
    <3>3. QED BY <1>2, <3>1, <3>2
  <2>3. ASSUME NEW u \in Thread, u # t
        PROVE  /\ Ordered(Me(u))' => pc'[u] \in {"idle", "check", "unlock"} \cup Installing
               /\ pc'[u] \in {"check"} \cup Installing => Ordered(Me(u))'
    BY <1>2, <1>o, <2>3 DEF OrderInv, Ordered
  <2>4. CASE Start(t)
    <3>1. /\ Me(t)'[2] = txn[t] + 1 /\ Me(t)'[1] = t /\ txn[t] \in Nat
          /\ pc'[t] = "run"
      BY <2>4, <1>a, TxnStep DEF Me
    <3>2. \A p \in 1 .. Len(order) : order[p][1] = t => order[p][2] <= txn[t] /\ order[p][2] \in Nat
      BY <1>p DEF OrderInv
    <3>3. ~Ordered(Me(t))'
      BY <1>2, <3>1, <3>2 DEF Ordered
    <3>4. QED BY <2>1, <2>2, <2>3, <3>1, <3>3 DEF OrderInv, Installing
  <2>5. CASE ~Start(t)
    <3>1. Me(t)' = Me(t) /\ pc[t] # "idle"
      BY <2>5, <1>a, TxnStep
    <3>2. Ordered(Me(t))' <=> Ordered(Me(t))
      BY <1>2, <3>1 DEF Ordered
    <3>3. Ordered(Me(t)) => pc[t] \in {"check", "unlock"} \cup Installing
      BY <3>1 DEF OrderInv
    <3>4. pc[t] \in {"check", "unlock"} \cup Installing =>
            pc'[t] \in {"idle", "check", "unlock"} \cup Installing
      <4>1. CallType
        BY <1>a DEF TypeOK
      <4>2. QED
        BY <4>1 DEF CallType, Goto, UserStep, LibraryStep, Start, BeginRead,
         ObserveNonopaque, Write, UserAbort, TryCommit, RetryRead, ReadValue,
         ReadVersion, CheckOpacity, HardCheckTid, HardCheckItem, AbortLocked,
         ReadNonopaqueValue, LockSkip, LockLoad, LockCas, CheckItem, NextToInstall, Stopped,
         InstallSkip, InstallValue, FetchTid, InstallVersion, Unlock, UnlockEnds, Installing
    <3>5. pc'[t] \in {"check"} \cup Installing => pc[t] \in {"check"} \cup Installing
      BY <1>2, <1>a, HistStep DEF Installing
    <3>6. QED BY <2>1, <2>2, <2>3, <3>2, <3>3, <3>4, <3>5 DEF OrderInv
  <2>6. QED BY <2>4, <2>5
<1>3. QED BY <1>1, <1>2, OrderStep

(* A transaction in the order that holds a lock held it before, or is just *)
(* passing its lock point.                                                 *)
LEMMA HolderStep ==
  ASSUME IInv, IInv', OrderInv, OrderInv', NEW t \in Thread,
         UserStep(t) \/ LibraryStep(t), NEW u \in Thread,
         NEW i \in lset'[u], Ordered(Me(u))'
  PROVE  /\ Me(u)' = Me(u)
         /\ \/ u = t /\ LockPoint(t)
            \/ i \in lset[u] /\ Ordered(Me(u))
<1>a. TypeOK /\ SetType
  BY DEF IInv, TypeOK
<1>1. CASE u # t
  <2>1. lset'[u] = lset[u] /\ Me(u)' = Me(u) /\ Me(u) # Me(t)
    BY <1>1, <1>a, OtherThreads, OtherReads DEF Me
  <2>2. PICK a \in {Me(u)} : TRUE
    OBVIOUS
  <2>3. Ordered(a)' => Ordered(a)
    <3>1. CASE LockPoint(t)
      BY <3>1, <2>1, <2>2, LastInOrder
    <3>2. CASE order' = order
      BY <3>2 DEF Ordered
    <3>3. QED BY <3>1, <3>2, OrderStep
  <2>4. QED BY <2>1, <2>2, <2>3 DEF Ordered
<1>2. CASE u = t /\ ~LockPoint(t)
  <2>1. order' = order
    BY <1>2, OrderStep
  <2>2. pc'[t] \in {"idle", "check", "unlock"} \cup Installing
    BY <1>2 DEF OrderInv
  <2>3. Me(t)' = Me(t)
    BY <2>2, <1>a, TxnStep DEF Installing
  <2>4. Ordered(Me(t))
    BY <1>2, <2>1, <2>3 DEF Ordered
  <2>5. pc[t] \notin Locking
    BY <1>a, <2>4, TxnStep DEF OrderInv, Locking, Installing
  <2>6. ~LockCas(t)
    BY <2>5 DEF LockCas, Locking
  <2>7. lset'[t] \subseteq lset[t]
    BY <2>6, <1>a DEF SetType, UserStep, LibraryStep, Start, BeginRead,
     ObserveNonopaque, Write, UserAbort, TryCommit, RetryRead, ReadValue,
     ReadVersion, CheckOpacity, HardCheckTid, HardCheckItem,
     ReadNonopaqueValue, LockSkip, LockLoad, CheckItem,
     InstallSkip, InstallValue, FetchTid, InstallVersion, Unlock, UnlockEnds
  <2>8. QED BY <1>2, <2>3, <2>4, <2>7
<1>3. CASE u = t /\ LockPoint(t)
  BY <1>3 DEF LockPoint, Me
<1>4. QED BY <1>1, <1>2, <1>3

(* Who installs has passed its lock point and holds the item, and nobody   *)
(* holds it afterwards.                                                    *)
LEMMA InstallerStep ==
  ASSUME IInv, IInv', OrderInv, NEW t \in Thread, NEW i \in Item,
         StoresVersion(t, i)
  PROVE  /\ i \in lset[t] /\ Ordered(Me(t))
         /\ \A u \in Thread : i \notin lset'[u]
<1>1. i \in lset[t]
  BY StoringLocked DEF StoresVersion
<1>2. pc[t] \in Installing
  BY DEF StoresVersion, Storing, Installing
<1>3. Ordered(Me(t))
  BY <1>2 DEF OrderInv
<1>4. ver'[i].lock = NoThread
  <2>1. ver'[i] = InstalledVersion(t, i)
    BY LogGrows
  <2>2. QED BY <2>1, InstalledVersionType DEF IInv
<1>5. \A u \in Thread : i \notin lset'[u]
  BY <1>4, ThreadAssumption DEF IInv, Ownership
<1>6. QED BY <1>1, <1>3, <1>5

(* Values go into the log in the order of the lock points: a later         *)
(* installer held the lock only after the earlier one had let it go.       *)
LEMMA LogInvStep ==
  ASSUME IInv, IInv', OrderInv, OrderInv', LogInv, NEW t \in Thread,
         UserStep(t) \/ LibraryStep(t)
  PROVE  LogInv'
<1> SUFFICES ASSUME NEW i \in Item, NEW q \in 1 .. Len(log'[i])
             PROVE  /\ Ordered(log[i][q][1])'
                    /\ \A p \in 1 .. q - 1 : Before(log[i][p][1], log[i][q][1])'
                    /\ \A u \in Thread : i \in lset'[u] /\ Ordered(Me(u))' =>
                         Before(log[i][q][1], Me(u))'
  BY DEF LogInv
<1>l. Len(log[i]) \in Nat
  BY DEF IInv, TypeOK, HistoryType
<1>1. CASE log'[i] = log[i]
  <2>0. q \in 1 .. Len(log[i])
    BY <1>1
  <2>1. PICK a \in {log[i][q][1]} : TRUE
    OBVIOUS
  <2>2. Ordered(a)'
    BY <2>0, <2>1, OrderStays DEF LogInv
  <2>3. ASSUME NEW p \in 1 .. q - 1 PROVE Before(log[i][p][1], log[i][q][1])'
    <3>1. PICK b \in {log[i][p][1]} : TRUE
      OBVIOUS
    <3>2. Before(b, a)'
      BY <2>0, <2>1, <3>1, OrderStays DEF LogInv
    <3>3. QED BY <1>1, <2>1, <3>1, <3>2 DEF Before
  <2>4. ASSUME NEW u \in Thread, i \in lset'[u], Ordered(Me(u))'
        PROVE  Before(log[i][q][1], Me(u))'
    <3>1. CASE u = t /\ LockPoint(t)
      <4>1. Before(a, Me(t))'
        BY <2>0, <2>1, <3>1, LastInOrder DEF LogInv
      <4>2. QED BY <1>1, <2>1, <3>1, <4>1 DEF Before
    <3>2. CASE i \in lset[u] /\ Ordered(Me(u)) /\ Me(u)' = Me(u)
      <4>1. PICK b \in {Me(u)} : TRUE
        OBVIOUS
      <4>2. Before(a, b)'
        BY <2>0, <2>1, <3>2, <4>1, OrderStays DEF LogInv
      <4>3. QED BY <1>1, <2>1, <3>2, <4>1, <4>2 DEF Before
    <3>3. QED BY <2>4, <3>1, <3>2, HolderStep
  <2>5. QED BY <1>1, <2>1, <2>2, <2>3, <2>4 DEF Ordered
<1>2. CASE StoresVersion(t, i)
  <2>1. /\ Len(log'[i]) = Len(log[i]) + 1
        /\ \A p \in 1 .. Len(log[i]) : log'[i][p] = log[i][p]
        /\ log'[i][Len(log[i]) + 1][1] = Me(t)
    BY <1>2, LogGrows
  <2>2. i \in lset[t] /\ Ordered(Me(t)) /\ \A u \in Thread : i \notin lset'[u]
    BY <1>2, InstallerStep
  <2>3. CASE q \in 1 .. Len(log[i])
    <3>1. PICK a \in {log[i][q][1]} : TRUE
      OBVIOUS
    <3>2. Ordered(a)'
      BY <2>3, <3>1, OrderStays DEF LogInv
    <3>3. ASSUME NEW p \in 1 .. q - 1 PROVE Before(log[i][p][1], log[i][q][1])'
      <4>0. p \in 1 .. Len(log[i])
        BY <1>l, <2>3
      <4>1. PICK b \in {log[i][p][1]} : TRUE
        OBVIOUS
      <4>2. Before(b, a)'
        BY <2>3, <3>1, <4>1, OrderStays DEF LogInv
      <4>3. QED BY <2>1, <2>3, <3>1, <4>0, <4>1, <4>2 DEF Before
    <3>4. QED BY <2>1, <2>2, <2>3, <3>1, <3>2, <3>3 DEF Ordered
  <2>4. CASE q = Len(log[i]) + 1
    <3>1. PICK a \in {Me(t)} : TRUE
      OBVIOUS
    <3>2. Ordered(a)'
      BY <2>2, <3>1, OrderStays
    <3>3. ASSUME NEW p \in 1 .. q - 1 PROVE Before(log[i][p][1], log[i][q][1])'
      <4>0. p \in 1 .. Len(log[i])
        BY <1>l, <2>4
      <4>1. PICK b \in {log[i][p][1]} : TRUE
        OBVIOUS
      <4>2. Before(b, a)
        BY <2>2, <3>1, <4>0, <4>1 DEF LogInv
      <4>3. Before(b, a)'
        BY <4>2, OrderStays
      <4>4. QED BY <2>1, <2>4, <3>1, <4>0, <4>1, <4>3 DEF Before
    <3>4. QED BY <2>1, <2>2, <2>4, <3>1, <3>2, <3>3 DEF Ordered
  <2>5. QED BY <1>l, <2>1, <2>3, <2>4, LastOrBefore
<1>3. QED
  <2>1. CASE \E j \in Item : StoresVersion(t, j)
    BY <2>1, <1>1, <1>2, LogGrows
  <2>2. QED BY <2>1, <1>1, Footprint DEF StoresNothing, StoresValue

(* Nobody can get before a settled read any more: installers to come must  *)
(* hold the item's lock at a lock point behind it.                         *)
LEMMA SettledStays ==
  ASSUME IInv, IInv', OrderInv, OrderInv', NEW t \in Thread,
         UserStep(t) \/ LibraryStep(t), NEW a, Ordered(a),
         NEW p, p[1] \in Item, Settled(a, p)
  PROVE  Settled(a, p)'
<1> DEFINE i == p[1]
<1>a. log[i] \in Seq(Token \X Nat) /\ log'[i] \in Seq(Token \X Nat)
  BY DEF IInv, TypeOK, HistoryType
<1>d. /\ DOMAIN log[i] = 1 .. Len(log[i]) /\ DOMAIN log'[i] = 1 .. Len(log'[i])
      /\ Len(log[i]) \in Nat
  BY <1>a
<1>1. p[2] = InitialToken \/ Before(p[2], a)'
  BY OrderStays DEF Settled
<1>2. ASSUME NEW b, \E e \in Range(log'[i]) : e[1] = b, InstalledAfter(i, p[2], b)', b # a
      PROVE  Before(a, b)'
  <2>1. CASE \E e \in Range(log[i]) : e[1] = b /\ InstalledAfter(i, p[2], b)
    BY <1>2, <2>1, OrderStays DEF Settled
  <2>2. CASE log'[i] = log[i]
    BY <1>2, <2>1, <2>2 DEF Range, InstalledAfter
  <2>3. CASE StoresVersion(t, i)
    <3>1. /\ Len(log'[i]) = Len(log[i]) + 1
          /\ \A q \in 1 .. Len(log[i]) : log'[i][q] = log[i][q]
          /\ log'[i][Len(log[i]) + 1][1] = Me(t)
      BY <2>3, LogGrows
    <3>2. CASE b = Me(t)
      <4>1. i \in lset[t] /\ Ordered(Me(t))
        BY <2>3, InstallerStep
      <4>2. Before(a, b)
        BY <1>2, <3>2, <4>1 DEF Settled
      <4>3. QED BY <4>2, OrderStays
    <3>3. CASE b # Me(t)
      <4>1. PICK q \in 1 .. Len(log'[i]) :
              log'[i][q][1] = b
              /\ (p[2] = InitialToken \/ \E r \in 1 .. q - 1 : log'[i][r][1] = p[2])
        BY <1>2, <1>d DEF InstalledAfter
      <4>2. q \in 1 .. Len(log[i])
        BY <1>d, <3>1, <3>3, <4>1, LastOrBefore
      <4>3. \A r \in 1 .. q - 1 : r \in 1 .. Len(log[i])
        BY <1>d, <4>2
      <4>4. log[i][q][1] = b /\ (p[2] = InitialToken \/ \E r \in 1 .. q - 1 : log[i][r][1] = p[2])
        BY <3>1, <4>1, <4>2, <4>3
      <4>5. QED BY <1>d, <2>1, <4>2, <4>4 DEF Range, InstalledAfter
    <3>4. QED BY <3>2, <3>3
  <2>4. QED
    <3>1. CASE \E j \in Item : StoresVersion(t, j)
      BY <3>1, <2>2, <2>3, LogGrows
    <3>2. QED BY <3>1, <2>2, Footprint DEF StoresNothing, StoresValue
<1>3. ASSUME NEW u \in Thread, i \in lset'[u], Ordered(Me(u))', Me(u)' # a
      PROVE  Before(a, Me(u))'
  <2>1. CASE u = t /\ LockPoint(t)
    BY <2>1, LastInOrder
  <2>2. CASE i \in lset[u] /\ Ordered(Me(u)) /\ Me(u)' = Me(u)
    <3>1. PICK b \in {Me(u)} : TRUE
      OBVIOUS
    <3>2. Before(a, b)'
      BY <1>3, <2>2, <3>1, OrderStays DEF Settled
    <3>3. QED BY <2>2, <3>1, <3>2 DEF Before
  <2>3. QED BY <1>3, <2>1, <2>2, HolderStep
<1>4. QED BY <1>1, <1>2, <1>3 DEF Settled

(* The check of an item settles the reads of it: the value read is the     *)
(* last one installed, and no other thread holds the item.                 *)
LEMMA CheckSettles ==
  ASSUME IInv, ReadsInv, ReadsGrowing, OrderInv, LogInv, NEW t \in Thread,
         pc[t] = "check", ItemChecks(t), NEW p \in seen[t], p[1] = tset[t][k[t]],
         p[2] = InitialToken \/ Before(p[2], Me(t))
  PROVE  Settled(Me(t), p)
<1> DEFINE i == p[1]
<1>a. /\ ReadSetInv(t) /\ WorkloadInv(t) /\ ValueInv /\ GrowthInv
      /\ i \in rset[t] /\ i \in Growing /\ i \in Item
  BY DEF ReadsInv, ReadSetInv, ReadsGrowing, WorkloadInv, Growing
<1>b. log[i] \in Seq(Token \X Nat)
  BY <1>a DEF IInv, TypeOK, HistoryType
<1>d. DOMAIN log[i] = 1 .. Len(log[i]) /\ Len(log[i]) \in Nat
  BY <1>b
<1>1. check_version(ver[i], rdata[t][i], t)
  BY <1>a DEF ItemChecks
<1>2. /\ rdata[t][i].tid = ver[i].tid /\ ver[i].lock \in {NoThread, t}
      /\ \A u \in Thread : ~Storing(u, i)
  BY <1>a, <1>1, CheckedNotOutdated DEF Installing
<1>3. p[2] = CurrentValue(i)
  <2>1. AsNewAs(i, p[2], ver[i].tid)
    BY <1>a, <1>2 DEF ReadSetInv
  <2>2. QED BY <1>a, <1>2, <2>1, UnchangedIsCurrent
<1>4. \A b : ~InstalledAfter(i, p[2], b)
  <2> SUFFICES ASSUME NEW b, InstalledAfter(i, p[2], b) PROVE FALSE
    OBVIOUS
  <2>1. PICK q \in 1 .. Len(log[i]) :
          p[2] = InitialToken \/ \E r \in 1 .. q - 1 : log[i][r][1] = p[2]
    BY <1>d DEF InstalledAfter
  <2>2. log[i] # <<>> /\ Len(log[i]) \in 1 .. Len(log[i])
    BY <1>d, <2>1
  <2>3. p[2] = log[i][Len(log[i])][1]
    BY <1>3, <2>2 DEF CurrentValue
  <2>4. Ordered(p[2])
    BY <1>a, <2>2, <2>3 DEF LogInv
  <2>5. PICK r \in 1 .. q - 1 : log[i][r][1] = p[2]
    BY <2>1, <2>4, OrderFacts
  <2>6. r \in 1 .. Len(log[i]) - 1
    BY <1>d, <2>1, <2>5
  <2>7. Before(p[2], p[2])
    BY <1>a, <2>2, <2>3, <2>5, <2>6 DEF LogInv
  <2>8. QED BY <2>7, OrderFacts
<1>5. \A u \in Thread : i \in lset[u] => u = t
  BY <1>a, <1>2, ThreadAssumption DEF IInv, Ownership
<1>6. QED BY <1>4, <1>5 DEF Settled

(* The value in memory is the initial one or of a transaction in the order.*)
LEMMA ValueOrdered ==
  ASSUME IInv, ReadsInv, OrderInv, LogInv, NEW i \in Item
  PROVE  val[i] = InitialToken \/ Ordered(val[i])
<1>1. CASE \E u \in Thread : Storing(u, i)
  <2>1. PICK u \in Thread : Storing(u, i)
    BY <1>1
  <2>2. val[i] = Me(u) /\ pc[u] \in Installing
    BY <2>1 DEF ReadsInv, ValueInv, Storing, Installing
  <2>3. QED BY <2>2 DEF OrderInv
<1>2. CASE \A u \in Thread : ~Storing(u, i)
  <2>1. val[i] = CurrentValue(i)
    BY <1>2 DEF ReadsInv, ValueInv
  <2>2. log[i] \in Seq(Token \X Nat)
    BY DEF IInv, TypeOK, HistoryType
  <2>3. log[i] # <<>> => Len(log[i]) \in 1 .. Len(log[i])
    BY <2>2
  <2>4. QED BY <2>1, <2>3 DEF CurrentValue, LogInv
<1>3. QED BY <1>1, <1>2

(* Where the values that reads return come from.                           *)
LEMMA SeenStep ==
  ASSUME IInv, NEW t \in Thread, UserStep(t) \/ LibraryStep(t)
  PROVE  /\ \A p \in seen'[t] :
              \/ p \in seen[t]
              \/ p[2] = res[t] /\ pc'[t] = "run"
              \/ \E i \in Item : p[2] = val[i] /\ pc'[t] = "run"
         /\ \/ res'[t] \in {res[t], InitialToken}
            \/ \E i \in Item : res'[t] = val[i]
<1>a. CallType /\ HistoryType /\ SetType /\ ControlInv(t)
  BY DEF IInv, TypeOK
<1>c. pc[t] \in Reading \cup {"rd_nval"} => cur[t] \in Item
  <2>1. tset[t] \in Seq(Item)
    BY <1>a DEF SetType
  <2>2. QED BY <1>a, <2>1 DEF ControlInv
<1>1. CASE ReadNonopaqueValue(t)
  <2>1. /\ seen'[t] = seen[t] \cup {<<cur[t], val[cur[t]]>>} /\ pc'[t] = "run"
        /\ cur[t] \in Item /\ res'[t] = InitialToken
    BY <1>1, <1>a, <1>c DEF ReadNonopaqueValue, HistoryType, CallType, Goto, EndCall
  <2>2. QED BY <2>1
<1>2. CASE CheckOpacity(t) \/ HardCheckItem(t)
  <2>1. \/ seen' = seen
        \/ /\ seen'[t] = seen[t] \cup {<<cur[t], res[t]>>} /\ pc'[t] = "run"
    BY <1>2, <1>a DEF CheckOpacity, HardCheckItem, AddRead, HistoryType, CallType, Goto
  <2>2. res'[t] \in {res[t], InitialToken}
    BY <1>2, <1>a DEF CheckOpacity, HardCheckItem, EndCall, Stopped, CallType, readVars
  <2>3. QED BY <2>1, <2>2
<1>3. CASE ReadValue(t)
  <2>1. cur[t] \in Item /\ res'[t] = val[cur[t]] /\ seen' = seen
    BY <1>3, <1>a, <1>c DEF ReadValue, Reading, CallType, histVars
  <2>2. QED BY <2>1
<1>4. CASE ~(ReadNonopaqueValue(t) \/ CheckOpacity(t) \/ HardCheckItem(t) \/ ReadValue(t))
  <2>1. seen'[t] \subseteq seen[t]
    BY <1>4, <1>a DEF HistoryType, UserStep, LibraryStep, histVars, Start, BeginRead,
     ObserveNonopaque, Write, UserAbort, TryCommit, RetryRead,
     ReadVersion, HardCheckTid, LockSkip, LockLoad, LockCas, CheckItem,
     InstallSkip, InstallValue, FetchTid, InstallVersion, Unlock, UnlockEnds
  <2>2. res' = res \/ EndCall(t)
    BY <1>4 DEF UserStep, LibraryStep, readVars, Start, BeginRead,
     ObserveNonopaque, Write, UserAbort, TryCommit, RetryRead, Stopped, NextToInstall,
     ReadVersion, HardCheckTid, LockSkip, LockLoad, LockCas, CheckItem,
     InstallSkip, InstallValue, FetchTid, InstallVersion, Unlock, UnlockEnds
  <2>3. res'[t] \in {res[t], InitialToken}
    BY <2>2, <1>a DEF EndCall, CallType
  <2>4. QED BY <2>1, <2>3
<1>5. QED BY <1>1, <1>2, <1>3, <1>4

(* The reads of a validated transaction stay where the order puts them.    *)
LEMMA SettledInvStep ==
  ASSUME IInv, IInv', ReadsInv, ReadsGrowing, OrderInv, OrderInv', LogInv,
         SettledInv, NEW t \in Thread, UserStep(t) \/ LibraryStep(t)
  PROVE  SettledInv'
<1>a. TypeOK
  BY DEF IInv
<1>s. \A u \in Thread : \A p \in seen[u] : p[1] \in Item
  BY <1>a DEF TypeOK, HistoryType
<1>v. \A i \in Item : val[i] = InitialToken \/ Ordered(val[i])
  BY ValueOrdered
<1>r. \A u \in Thread : res'[u] = InitialToken \/ Ordered(res[u])'
  <2> SUFFICES ASSUME NEW u \in Thread PROVE res'[u] = InitialToken \/ Ordered(res[u])'
    OBVIOUS
  <2>1. PICK a \in {res'[u]} : TRUE
    OBVIOUS
  <2>2. a = InitialToken \/ Ordered(a)
    <3>1. CASE u # t
      <4>1. a = res[u]
        BY <2>1, <3>1, <1>a, OtherReads
      <4>2. QED BY <4>1 DEF SettledInv
    <3>2. CASE u = t
      BY <2>1, <3>2, <1>v, SeenStep DEF SettledInv
    <3>3. QED BY <3>1, <3>2
  <2>3. a = InitialToken \/ Ordered(a)'
    BY <2>2, OrderStays
  <2>4. QED BY <2>1, <2>3 DEF Ordered
<1>1. ASSUME NEW u \in Thread, NEW p \in seen'[u]
      PROVE  p[2] = InitialToken \/ Ordered(p[2])'
  <2>1. p[2] = InitialToken \/ Ordered(p[2])
    <3>1. CASE u # t
      <4>1. seen'[u] = seen[u]
        BY <3>1, <1>a, OtherReads
      <4>2. QED BY <4>1 DEF SettledInv
    <3>2. CASE u = t
      BY <3>2, <1>v, SeenStep DEF SettledInv
    <3>3. QED BY <3>1, <3>2
  <2>2. QED BY <2>1, OrderStays
<1>2. ASSUME NEW u \in Thread, NEW p \in seen'[u], pc'[u] = "check"
      PROVE  /\ p[2] = InitialToken \/ Before(p[2], Me(u))'
             /\ (\E j \in 1 .. k'[u] - 1 : tset'[u][j] = p[1]) => Settled(Me(u), p)'
  <2>1. CASE \/ /\ u # t /\ k'[u] = k[u] /\ tset'[u] = tset[u] /\ pc[u] = "check"
             \/ /\ u = t /\ CheckItem(t) /\ ItemChecks(t) /\ k'[t] = k[t] + 1
                /\ k[t] < Len(tset[t]) /\ UNCHANGED <<tset, seen>> /\ pc[t] = "check"
    <3>1. p \in seen[u] /\ Me(u)' = Me(u) /\ pc[u] = "check" /\ tset'[u] = tset[u]
      <4>1. u # t => seen'[u] = seen[u] /\ txn'[u] = txn[u]
        BY <1>a, OtherReads
      <4>2. u = t => Me(u)' = Me(u)
        BY <2>1, <1>a, TxnStep
      <4>3. QED BY <2>1, <4>1, <4>2 DEF Me
    <3>2. PICK a \in {Me(u)} : TRUE
      OBVIOUS
    <3>3. Ordered(a)
      BY <3>1, <3>2 DEF OrderInv
    <3>4. p[2] = InitialToken \/ Before(p[2], a)
      BY <3>1, <3>2 DEF SettledInv
    <3>5. p[2] = InitialToken \/ Before(p[2], a)'
      BY <3>4, OrderStays
    <3>6. ASSUME \E j \in 1 .. k'[u] - 1 : tset[u][j] = p[1]
          PROVE  Settled(a, p)
      <4>1. PICK j \in 1 .. k'[u] - 1 : tset[u][j] = p[1]
        BY <3>6
      <4>2. k[u] \in Nat
        BY <1>a DEF TypeOK, CallType
      <4>3. CASE j \in 1 .. k[u] - 1
        BY <3>1, <3>2, <4>1, <4>3 DEF SettledInv
      <4>4. CASE j = k[u] /\ u = t /\ ItemChecks(t)
        BY <3>1, <3>2, <3>4, <4>1, <4>4, CheckSettles
      <4>5. QED BY <2>1, <4>2, <4>3, <4>4
    <3>7. (\E j \in 1 .. k'[u] - 1 : tset'[u][j] = p[1]) => Settled(a, p)'
      BY <1>s, <3>1, <3>3, <3>6, SettledStays
    <3>8. QED BY <3>1, <3>2, <3>5, <3>7 DEF Before, Settled
  <2>2. CASE u = t /\ LockPoint(t)
    <3>1. p \in seen[t] /\ k'[t] = 1
      BY <2>2 DEF LockPoint
    <3>2. p[2] = InitialToken \/ Ordered(p[2])
      BY <3>1 DEF SettledInv
    <3>3. p[2] = InitialToken \/ Before(p[2], Me(t))'
      BY <2>2, <3>2, LastInOrder
    <3>4. QED BY <2>2, <3>1, <3>3
  <2>3. QED
    <3>1. CASE u # t
      BY <1>2, <3>1, <2>1, <1>a, OtherThreads
    <3>2. CASE u = t
      <4>1. LockPoint(t) \/ pc[t] = "check"
        BY <1>2, <3>2, OrderStep
      <4>2. pc[t] = "check" => CheckItem(t) /\ ItemChecks(t) /\ k'[t] = k[t] + 1
                 /\ k[t] < Len(tset[t]) /\ UNCHANGED <<tset, seen>>
        BY <1>2, <3>2, CommitPhase DEF Locking
      <4>3. QED BY <3>2, <4>1, <4>2, <2>1, <2>2
    <3>3. QED BY <3>1, <3>2
<1>3. ASSUME NEW h \in hist', h.validated, NEW p \in h.reads
      PROVE  Ordered(h.by)' /\ Settled(h.by, p)'
  <2>1. Ordered(h.by) /\ Settled(h.by, p) /\ p[1] \in Item
    <3>1. CASE h \in hist
      <4>1. h \in Committed
        BY <3>1, <1>a DEF TypeOK, HistoryType
      <4>2. p[1] \in Item
        BY <4>1 DEF Committed
      <4>3. QED BY <1>3, <3>1, <4>2 DEF SettledInv
    <3>2. CASE h = CommitRecord(t, TRUE) /\ pc[t] = "check" /\ ItemChecks(t) /\ k[t] = Len(tset[t])
      <4>1. h.by = Me(t) /\ h.reads = seen[t]
        BY <3>2 DEF CommitRecord
      <4>2. p \in seen[t]
        BY <4>1
      <4>3. Ordered(Me(t)) /\ (p[2] = InitialToken \/ Before(p[2], Me(t)))
        BY <3>2, <4>2 DEF OrderInv, SettledInv
      <4>4. p[1] \in rset[t]
        BY <4>2 DEF ReadsInv, ReadSetInv
      <4>5. PICK j \in 1 .. Len(tset[t]) : tset[t][j] = p[1]
        BY <4>4 DEF IInv, SetInv
      <4>6. k[t] \in Nat
        BY <1>a DEF TypeOK, CallType
      <4>7. CASE j \in 1 .. k[t] - 1
        BY <1>s, <3>2, <4>1, <4>2, <4>3, <4>5, <4>7 DEF SettledInv
      <4>8. CASE j = k[t]
        BY <1>s, <3>2, <4>1, <4>2, <4>3, <4>5, <4>8, CheckSettles
      <4>9. j \in 1 .. k[t] - 1 \/ j = k[t]
        BY <3>2, <4>6
      <4>10. QED BY <4>7, <4>8, <4>9
    <3>3. CASE h = CommitRecord(t, FALSE)
      BY <1>3, <3>3 DEF CommitRecord
    <3>4. QED BY <1>a, <3>1, <3>2, <3>3, HistStep
  <2>2. QED BY <2>1, OrderStays, SettledStays
<1>4. \A h \in hist' : h.validated => Ordered(h.by)'
  <2> SUFFICES ASSUME NEW h \in hist', h.validated PROVE Ordered(h.by)'
    OBVIOUS
  <2>1. Ordered(h.by)
    <3>1. CASE h \in hist
      BY <3>1 DEF SettledInv
    <3>2. CASE h = CommitRecord(t, TRUE) /\ pc[t] = "check"
      BY <3>2 DEF CommitRecord, OrderInv
    <3>3. CASE h = CommitRecord(t, FALSE)
      BY <3>3 DEF CommitRecord
    <3>4. QED BY <1>a, <3>1, <3>2, <3>3, HistStep
  <2>2. QED BY <2>1, OrderStays
<1>5. QED BY <1>r, <1>1, <1>2, <1>3, <1>4 DEF SettledInv

(* Nothing has been locked or read at the start.                           *)
LEMMA SerialInvInit == Init => SerialInv
<1> SUFFICES ASSUME Init PROVE SerialInv
  OBVIOUS
<1>1. /\ order = <<>> /\ hist = {} /\ \A i \in Item : log[i] = <<>>
      /\ \A t \in Thread : pc[t] = "idle" /\ seen[t] = {} /\ res[t] = InitialToken
  BY DEF Init
<1>2. 1 .. Len(order) = {} /\ \A i \in Item : 1 .. Len(log[i]) = {}
  BY <1>1
<1>3. OrderInv /\ LogInv
  BY <1>1, <1>2 DEF OrderInv, LogInv, Ordered, Installing
<1>4. SettledInv
  BY <1>1 DEF SettledInv
<1>5. QED BY <1>3, <1>4 DEF SerialInv

(* Every step keeps the order, the log and the reads in line.              *)
LEMMA SerialInvStep ==
  ASSUME IInv, IInv', ReadsInv, SerialInv, [Next]_vars
  PROVE  SerialInv'
<1> SUFFICES ASSUME ReadsGrowing PROVE (OrderInv /\ LogInv /\ SettledInv)'
  BY DEF SerialInv, ReadsGrowing, Growing, KindsApart
<1>i. OrderInv /\ LogInv /\ SettledInv
  BY DEF SerialInv
<1>1. CASE \E t \in Thread : UserStep(t) \/ LibraryStep(t)
  <2> PICK t \in Thread : UserStep(t) \/ LibraryStep(t)
    BY <1>1
  <2>1. OrderInv'
    BY <1>i, OrderInvStep
  <2>2. LogInv'
    BY <1>i, <2>1, LogInvStep
  <2>3. SettledInv'
    BY <1>i, <2>1, SettledInvStep
  <2>4. QED BY <2>1, <2>2, <2>3
<1>2. CASE UNCHANGED vars
  <2>0. UNCHANGED <<order, log, hist, seen, pc, txn, k, tset, lset, res>>
    BY <1>2 DEF vars, histVars, setVars, readVars
  <2>1. OrderInv' /\ LogInv'
    <3>1. OrderInv'
      BY <1>i, <2>0 DEF OrderInv, Ordered, Me
    <3>2. LogInv'
      BY <1>i, <2>0 DEF LogInv, Ordered, Before, Me
    <3>3. QED BY <3>1, <3>2
  <2>2. SettledInv'
    <3>1. \A a, b : (Ordered(a)' <=> Ordered(a)) /\ (Before(a, b)' <=> Before(a, b))
      BY <2>0 DEF Ordered, Before
    <3>2. \A u \in Thread : Me(u)' = Me(u)
      BY <2>0 DEF Me
    <3>3. \A u \in Thread : Ordered(Me(u))' <=> Ordered(Me(u))
      BY <2>0 DEF Ordered, Me
    <3>4. ASSUME NEW a, NEW p, Settled(a, p) PROVE Settled(a, p)'
      <4>1. Range(log[p[1]])' = Range(log[p[1]])
        BY <2>0
      <4>2. \A b : InstalledAfter(p[1], p[2], b)' <=> InstalledAfter(p[1], p[2], b)
        BY <2>0 DEF InstalledAfter
      <4>3. \A u \in Thread : Before(a, Me(u))' <=> Before(a, Me(u))
        BY <2>0 DEF Before, Me
      <4>4. QED BY <2>0, <3>1, <3>2, <3>3, <3>4, <4>1, <4>2, <4>3 DEF Settled
    <3>5. ASSUME NEW u \in Thread, NEW p, Settled(Me(u), p) PROVE Settled(Me(u), p)'
      <4>1. PICK a \in {Me(u)} : TRUE
        OBVIOUS
      <4>2. Settled(a, p)'
        BY <3>4, <3>5, <4>1
      <4>3. QED BY <3>2, <4>1, <4>2 DEF Settled, Before
    <3>6. \A p : \A u \in Thread : Before(p[2], Me(u))' <=> Before(p[2], Me(u))
      BY <2>0 DEF Before, Me
    <3>7. \A u \in Thread : Ordered(res[u])' <=> Ordered(res[u])
      BY <2>0 DEF Ordered
    <3>8. QED BY <1>i, <2>0, <3>1, <3>3, <3>4, <3>5, <3>6, <3>7 DEF SettledInv
  <2>3. QED BY <2>1, <2>2
<1>3. QED BY <1>1, <1>2 DEF Next

(* The order of the lock points, the order of the logs and the reads of    *)
(* validated transactions agree in every reachable state.                  *)
THEOREM SerialInductive == Spec => []SerialInv
<1>1. Init => SerialInv
  BY SerialInvInit
<1>2. IInv /\ IInv' /\ ReadsInv /\ SerialInv /\ [Next]_vars => SerialInv'
  BY SerialInvStep
<1>3. QED BY <1>1, <1>2, Inductive, ReadsInductive, PTL DEF Spec

(* The natural numbers are well founded.                                   *)
LEMMA NatOrder ==
  \E R : IsWellFoundedOn(R, Nat) /\ \A x, y \in Nat : y < x => <<y, x>> \in R
<1>1. \A x, y \in Nat : y < x => <<y, x>> \in OpToRel(<, Nat)
  BY DEF OpToRel
<1>2. QED BY <1>1, NatLessThanWellFounded, Zenon

(* Every nonempty set of numbers has a smallest.                           *)
LEMMA Smallest ==
  ASSUME NEW T \in SUBSET Nat, T # {}
  PROVE  \E x \in T : \A y \in T : x <= y
<1>1. PICK R : IsWellFoundedOn(R, Nat) /\ \A x, y \in Nat : y < x => <<y, x>> \in R
  BY NatOrder
<1>2. PICK x \in T : \A y \in T : ~(<<y, x>> \in R)
  BY <1>1, WFMin
<1>3. ASSUME NEW y \in T PROVE x <= y
  <2>1. x \in Nat /\ y \in Nat
    OBVIOUS
  <2>2. ~(y < x)
    BY <1>1, <1>2, <2>1
  <2>3. QED BY <2>1, <2>2
<1>4. QED BY <1>3

(* Reads-from, overwriting and being overwritten all point forward in the  *)
(* order of the lock points.                                               *)
LEMMA PrecedesForward ==
  ASSUME IInv, ReadsInv, OrderInv, LogInv, SettledInv,
         NEW g \in hist, NEW h \in hist, g.validated, h.validated, g # h,
         Precedes(g, h)
  PROVE  Before(g.by, h.by)
<1>a. /\ Ordered(g.by) /\ \A p \in g.reads : Settled(g.by, p)
      /\ Ordered(h.by) /\ \A p \in h.reads : Settled(h.by, p)
      /\ g.by # h.by
  BY DEF SettledInv, ReadsInv, CommitInv
<1>b. g.by # InitialToken /\ h.by # InitialToken
  BY <1>a, OrderFacts
<1>d. \A i \in Item : DOMAIN log[i] = 1 .. Len(log[i])
  BY DEF IInv, TypeOK, HistoryType
<1>1. CASE \E p \in h.reads : p[2] = g.by
  BY <1>1, <1>a, <1>b DEF Settled
<1>2. CASE \E i \in Item : InstalledAfter(i, g.by, h.by)
  <2>1. PICK i \in Item : InstalledAfter(i, g.by, h.by)
    BY <1>2
  <2>2. PICK q \in 1 .. Len(log[i]) :
          log[i][q][1] = h.by /\ \E p \in 1 .. q - 1 : log[i][p][1] = g.by
    BY <1>b, <1>d, <2>1 DEF InstalledAfter
  <2>3. QED BY <2>2 DEF LogInv
<1>3. CASE \E p \in g.reads : InstalledAfter(p[1], p[2], h.by)
  <2>1. PICK p \in g.reads : InstalledAfter(p[1], p[2], h.by)
    BY <1>3
  <2>2. \E e \in Range(log[p[1]]) : e[1] = h.by
    BY <2>1 DEF InstalledAfter, Range
  <2>3. QED BY <1>a, <2>1, <2>2 DEF Settled
<1>4. QED BY <1>1, <1>2, <1>3 DEF Precedes

(* Transactions that go through the three phases of try_commit are         *)
(* conflict serializable, when no transaction writes both kinds of items   *)
(* or only opaque items are read.                                          *)
THEOREM ConflictSerializable ==
  ASSUME ReadsGrowing
  PROVE  Spec => []Serializable
<1>1. IInv /\ ReadsInv /\ SerialInv => Serializable
  <2> SUFFICES ASSUME IInv, ReadsInv, SerialInv,
                      NEW S \in SUBSET {h \in hist : h.validated}, S # {}
               PROVE  \E h \in S : \A g \in S \ {h} : ~Precedes(g, h)
    BY DEF Serializable, Acyclic
  <2>i. OrderInv /\ LogInv /\ SettledInv
    BY DEF SerialInv
  <2>l. Len(order) \in Nat
    BY DEF IInv, TypeOK, HistoryType
  <2> DEFINE T == {q \in 1 .. Len(order) : \E h \in S : order[q] = h.by}
  <2>1. T \in SUBSET Nat
    BY <2>l
  <2>2. T # {}
    <3>1. PICK h \in S : Ordered(h.by)
      BY <2>i DEF SettledInv
    <3>2. QED BY <3>1 DEF Ordered
  <2>3. PICK q \in T : \A y \in T : q <= y
    <3> HIDE DEF T
    <3>1. QED BY <2>1, <2>2, Smallest
  <2>4. PICK h \in S : order[q] = h.by
    OBVIOUS
  <2>5. ASSUME NEW g \in S \ {h}, Precedes(g, h) PROVE FALSE
    <3>1. Before(g.by, h.by)
      BY <2>i, <2>5, PrecedesForward
    <3>2. PICK r \in 1 .. Len(order) :
            order[r] = h.by /\ \E p \in 1 .. r - 1 : order[p] = g.by
      BY <3>1 DEF Before
    <3>3. r = q
      BY <2>i, <2>4, <3>2 DEF OrderInv
    <3>4. PICK p \in 1 .. r - 1 : order[p] = g.by
      BY <3>2
    <3>5. p \in 1 .. Len(order) /\ p < q
      BY <2>l, <3>2, <3>3, <3>4
    <3>6. p \in T
      BY <3>4, <3>5
    <3>7. q <= p
      BY <2>3, <3>6
    <3>8. p \in Nat /\ q \in Nat
      BY <2>1, <3>6
    <3>9. QED BY <3>5, <3>7, <3>8
  <2>6. QED BY <2>5
<1>2. QED BY <1>1, Inductive, ReadsInductive, SerialInductive, PTL
============================================================================
