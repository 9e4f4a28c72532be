-------------------------- MODULE LayoutLockProofs --------------------------
(***************************************************************************)
(* For any number of threads and calls: a validated read overlapped no     *)
(* change of the layout, and a change is alone.                            *)
(***************************************************************************)
EXTENDS LayoutLock, TLAPS

(* u has taken thread i's state in write_lock and not yet given it back.   *)
Holds(u, i) ==
  \/ lpc[u] = "wlock" /\ i < at[u]
  \/ lpc[u] \in {"mark", "change"}
  \/ lpc[u] = "wunlock" /\ at[u] <= i

(* u has set thread i's dirty_ flag for a change it has not finished.      *)
Marked(u, i) == lpc[u] = "change" \/ (lpc[u] = "mark" /\ i < at[u])

(* Loops start at the first thread.                                        *)
LoopInv ==
  \A t \in Thread : lpc[t] \notin {"wlock", "mark", "wunlock"} => at[t] = 1

HolderInv ==
  /\ \A u, w, i \in Thread : Holds(u, i) /\ Holds(w, i) => u = w
  /\ \A u, i \in Thread : Holds(u, i) => state[i] = "writer"
  /\ \A t \in Thread : lpc[t] = "write" => state[t] = "reader"

(* A flag that was set for a change stays set but for the moment in which  *)
(* its thread is about to look at its state again.                         *)
MarkInv ==
  \A u, i \in Thread :
    Marked(u, i) => lpc[i] \in {"recheck", "redirty"} \/ dirty[i] = 1

StaleInv ==
  \A t \in Thread : lpc[t] = "read" /\ stale[t] => dirty[t] = 1

LockInv == LockTypeOK /\ LoopInv /\ HolderInv /\ MarkInv /\ StaleInv /\ ReadsClean

-----------------------------------------------------------------------------
(* The invariant holds before the first call.                              *)
LEMMA LockInvInit == LockInit => LockInv
  BY LockAssumption DEF LockInit, LockInv, LockTypeOK, LoopInv, HolderInv, MarkInv, StaleInv,
     ReadsClean, Holds, Marked, LockPlace, Thread

(* Steps of a read and of resetDirty: state_ and the loop indices stay.    *)
LEMMA ReadSteps ==
  ASSUME LockInv, NEW t \in Thread, calls' \in [Thread -> Nat],
         startRead(t) \/ finishRead(t) \/ endRead(t) \/ resetDirty(t)
  PROVE  LockInv'
<1> USE DEF LockInv, Thread
<1>1. LockTypeOK'
  BY DEF LockTypeOK, LockPlace, startRead, finishRead, endRead, resetDirty,
     ResetTest, ResetClear, ResetRecheck, ResetRedirty, goes
<1>2. /\ UNCHANGED <<state, at>>
      /\ \A u \in Thread :
           lpc'[u] # lpc[u] =>
             /\ u = t
             /\ lpc[u] \notin {"wlock", "mark", "change", "wunlock", "write"}
             /\ lpc'[u] \notin {"wlock", "mark", "change", "wunlock", "write"}
  BY DEF LockTypeOK, startRead, finishRead, endRead, resetDirty,
     ResetTest, ResetClear, ResetRecheck, ResetRedirty, goes
<1>3. LoopInv'
  BY <1>1, <1>2 DEF LoopInv
<1>4. \A u, i \in Thread : (Holds(u, i)' <=> Holds(u, i)) /\ (Marked(u, i)' <=> Marked(u, i))
  BY <1>2 DEF Holds, Marked
<1>5. HolderInv'
  BY <1>2, <1>4 DEF HolderInv
<1>6. ASSUME NEW u \in Thread, NEW i \in Thread, Marked(u, i)'
      PROVE  lpc'[i] \in {"recheck", "redirty"} \/ dirty'[i] = 1
  <2>1. Marked(u, i)
    BY <1>4, <1>6
  <2>2. state[i] = "writer"
    BY <2>1 DEF HolderInv, Holds, Marked
  <2>3. lpc[i] \in {"recheck", "redirty"} \/ dirty[i] = 1
    BY <2>1 DEF MarkInv
  <2> QED
    BY <2>2, <2>3 DEF LockTypeOK, startRead, finishRead, endRead, resetDirty,
       ResetTest, ResetClear, ResetRecheck, ResetRedirty, goes, isWriterActive
<1>7. MarkInv'
  BY <1>6 DEF MarkInv
<1>8. ASSUME NEW u \in Thread, lpc'[u] = "read", stale'[u]
      PROVE  dirty'[u] = 1
  <2>1. CASE u = t /\ startRead(t)
    <3>1. stale'[u] = \E w \in Thread : lpc[w] = "change"
      BY <2>1, Zenon DEF startRead, LockTypeOK
    <3>2. PICK w \in Thread : lpc[w] = "change"
      BY <3>1, <1>8
    <3> QED
      BY <2>1, <3>2 DEF startRead, MarkInv, Marked
  <2>2. CASE ~(u = t /\ startRead(t))
    <3>1. lpc[u] = "read" /\ stale'[u] = stale[u] /\ dirty'[u] = dirty[u]
      BY <1>8, <2>2 DEF LockTypeOK, startRead, finishRead, endRead, resetDirty,
         ResetTest, ResetClear, ResetRecheck, ResetRedirty, goes
    <3> QED
      BY <1>8, <3>1 DEF StaleInv
  <2> QED
    BY <2>1, <2>2
<1>9. StaleInv'
  BY <1>8 DEF StaleInv
<1>10. ASSUME NEW u \in Thread, lpc'[u] = "valid"
       PROVE  ~stale'[u]
  <2>1. /\ stale'[u] = stale[u]
        /\ lpc[u] = "valid" \/ (lpc[u] = "read" /\ dirty[u] = 0)
    BY <1>10 DEF LockTypeOK, startRead, finishRead, endRead, resetDirty,
       ResetTest, ResetClear, ResetRecheck, ResetRedirty, goes
  <2> QED
    BY <2>1 DEF StaleInv, ReadsClean
<1>11. ReadsClean'
  BY <1>10 DEF ReadsClean
<1> QED
  BY <1>1, <1>3, <1>5, <1>7, <1>9, <1>11

(* Steps of a write in place: only the thread's own state_ changes.        *)
LEMMA WriteSteps ==
  ASSUME LockInv, NEW t \in Thread, calls' \in [Thread -> Nat],
         startWrite(t) \/ read_lock(t) \/ read_unlock(t)
  PROVE  LockInv'
<1> USE DEF LockInv, Thread, startWrite, read_lock, read_unlock, goes
<1>1. LockTypeOK'
  BY DEF LockTypeOK, LockPlace
<1>2. LoopInv'
  BY DEF LockTypeOK, LoopInv
<1>3. \A u, i \in Thread : (Holds(u, i)' <=> Holds(u, i)) /\ (Marked(u, i)' <=> Marked(u, i))
  BY DEF LockTypeOK, Holds, Marked
<1>4. \A u \in Thread : ~Holds(u, t) \/ UNCHANGED state
  BY DEF HolderInv
<1>5. HolderInv'
  BY <1>3, <1>4 DEF LockTypeOK, HolderInv
<1>6. MarkInv' /\ StaleInv' /\ ReadsClean'
  BY <1>3 DEF LockTypeOK, MarkInv, StaleInv, ReadsClean
<1> QED
  BY <1>1, <1>2, <1>5, <1>6

(* A loop over the threads goes on, or leaves with its index back at 1.    *)
LEMMA EachStep ==
  ASSUME LockTypeOK, NEW t \in Thread, NEW next, each(t, next)
  PROVE  /\ at' \in [Thread -> Thread]
         /\ \A u \in Thread \ {t} : at'[u] = at[u] /\ lpc'[u] = lpc[u]
         /\ \/ at[t] < N /\ at'[t] = at[t] + 1 /\ lpc'[t] = lpc[t]
            \/ at[t] = N /\ at'[t] = 1 /\ lpc'[t] = next
         /\ lpc' = lpc \/ lpc' = [lpc EXCEPT ![t] = next]
<1>1. at[t] \in Thread /\ at[t] <= N /\ (at[t] # N => at[t] + 1 \in Thread) /\ 1 \in Thread
  <2>1. N \in Nat /\ N # 0
    BY LockAssumption
  <2>2. at[t] \in Thread
    BY DEF LockTypeOK
  <2> QED
    BY <2>1, <2>2 DEF Thread
<1>2. at' \in [Thread -> Thread] /\ at'[t] = IF at[t] = N THEN 1 ELSE at[t] + 1
  BY <1>1 DEF LockTypeOK, each
<1>3. \A u \in Thread \ {t} : at'[u] = at[u] /\ lpc'[u] = lpc[u]
  BY DEF LockTypeOK, each, goes
<1>4. \/ at[t] # N /\ lpc' = lpc
      \/ at[t] = N /\ lpc'[t] = next /\ lpc' = [lpc EXCEPT ![t] = next]
  BY DEF LockTypeOK, each, goes
<1> QED
  <2>1. at[t] # N => at[t] < N
    BY <1>1, LockAssumption DEF Thread
  <2> QED
    BY <1>2, <1>3, <1>4, <2>1

(* Steps of a layout change: all states, then all flags, then the layout.  *)
LEMMA ChangeSteps ==
  ASSUME LockInv, NEW t \in Thread, calls' \in [Thread -> Nat],
         \/ startLayoutChange(t) \/ write_lock(t) \/ MarkDirty(t)
         \/ changeLayout(t) \/ finishLayoutChange(t) \/ write_unlock(t)
  PROVE  LockInv'
<1> USE DEF LockInv
<1>1. CASE startLayoutChange(t)
  BY <1>1 DEF startLayoutChange, goes, LockTypeOK, LockPlace, LoopInv, HolderInv,
     MarkInv, StaleInv, ReadsClean, Holds, Marked, Thread
<1>2. CASE write_lock(t)
  <2>1. LockTypeOK'
    BY <1>2, EachStep DEF write_lock, LockTypeOK, LockPlace
  <2>2. LoopInv'
    BY <1>2, EachStep DEF write_lock, LoopInv
  <2>3. \A u \in Thread : ~Holds(u, at[t])
    BY <1>2 DEF write_lock, HolderInv, LockTypeOK
  <2>4. \A u, i \in Thread :
          Holds(u, i)' => Holds(u, i) \/ (u = t /\ i = at[t])
    BY <1>2, EachStep DEF write_lock, Holds, LockTypeOK, Thread
  <2>5. HolderInv'
    <3>1. \A u, w, i \in Thread : Holds(u, i)' /\ Holds(w, i)' => u = w
      BY <2>3, <2>4 DEF HolderInv
    <3>2. \A u, i \in Thread : Holds(u, i)' => state'[i] = "writer"
      BY <1>2, <2>4 DEF write_lock, HolderInv, LockTypeOK
    <3>3. \A u \in Thread : lpc'[u] = "write" => lpc[u] = "write" /\ u # at[t]
      BY <1>2, EachStep DEF write_lock, HolderInv
    <3>4. \A u \in Thread : lpc'[u] = "write" => state'[u] = "reader"
      BY <1>2, <3>3 DEF write_lock, HolderInv, LockTypeOK
    <3> QED
      BY <3>1, <3>2, <3>4 DEF HolderInv
  <2>6. MarkInv' /\ StaleInv' /\ ReadsClean'
    BY <1>2, EachStep DEF write_lock, MarkInv, Marked, StaleInv, ReadsClean, Thread
  <2> QED
    BY <2>1, <2>2, <2>5, <2>6
<1>3. CASE MarkDirty(t)
  <2>1. LockTypeOK'
    BY <1>3, EachStep DEF MarkDirty, LockTypeOK, LockPlace
  <2>2. LoopInv'
    BY <1>3, EachStep DEF MarkDirty, LoopInv
  <2>3. \A u, i \in Thread : Holds(u, i)' <=> Holds(u, i)
    BY <1>3, EachStep DEF MarkDirty, Holds
  <2>4. HolderInv'
    BY <1>3, <2>3, EachStep DEF MarkDirty, HolderInv
  <2>5. \A u, i \in Thread :
          Marked(u, i)' => Marked(u, i) \/ (u = t /\ i = at[t])
    BY <1>3, EachStep DEF MarkDirty, Marked, LockTypeOK, Thread
  <2>6. \A i \in Thread : (dirty'[i] = 1 \/ dirty'[i] = dirty[i]) /\ dirty'[at[t]] = 1
    BY <1>3 DEF MarkDirty, LockTypeOK
  <2>7. MarkInv'
    BY <1>3, <2>5, <2>6, EachStep DEF MarkDirty, MarkInv
  <2>8. StaleInv' /\ ReadsClean'
    BY <1>3, <2>6, EachStep DEF MarkDirty, StaleInv, ReadsClean
  <2> QED
    BY <2>1, <2>2, <2>4, <2>7, <2>8
<1>4. CASE changeLayout(t)
  BY <1>4 DEF changeLayout, LockTypeOK, LoopInv, HolderInv, MarkInv, StaleInv,
     ReadsClean, Holds, Marked
<1>5. CASE finishLayoutChange(t)
  BY <1>5 DEF finishLayoutChange, goes, LockTypeOK, LockPlace, LoopInv, HolderInv,
     MarkInv, StaleInv, ReadsClean, Holds, Marked, Thread
<1>6. CASE write_unlock(t)
  <2>1. LockTypeOK'
    BY <1>6, EachStep DEF write_unlock, LockTypeOK, LockPlace
  <2>2. LoopInv'
    BY <1>6, EachStep DEF write_unlock, LoopInv
  <2>3. Holds(t, at[t]) /\ state[at[t]] = "writer"
    BY <1>6 DEF write_unlock, Holds, HolderInv, LockTypeOK, Thread
  <2>4. \A u, i \in Thread : Holds(u, i)' => Holds(u, i) /\ i # at[t]
    <3>1. \A i \in Thread : Holds(t, i)' => Holds(t, i) /\ i # at[t]
      <4>1. at[t] \in Int /\ \A i \in Thread : i \in Int
        BY DEF LockTypeOK, Thread
      <4>2. each(t, "out") /\ lpc[t] = "wunlock"
        BY <1>6 DEF write_unlock
      <4>3. \/ lpc'[t] = "wunlock" /\ at'[t] = at[t] + 1
            \/ lpc'[t] = "out"
        BY <4>2, EachStep
      <4> QED
        BY <4>1, <4>2, <4>3 DEF Holds
    <3>2. \A u \in Thread \ {t} : \A i \in Thread : Holds(u, i)' => Holds(u, i)
      BY <1>6, EachStep DEF write_unlock, Holds
    <3> QED
      BY <3>1, <3>2, <2>3 DEF HolderInv, LockTypeOK
  <2>5. HolderInv'
    BY <1>6, <2>3, <2>4, EachStep DEF write_unlock, HolderInv, LockTypeOK
  <2>6. MarkInv' /\ StaleInv' /\ ReadsClean'
    BY <1>6, EachStep DEF write_unlock, MarkInv, Marked, StaleInv, ReadsClean
  <2> QED
    BY <2>1, <2>2, <2>5, <2>6
<1> QED
  BY <1>1, <1>2, <1>3, <1>4, <1>5, <1>6

(* What the calls a thread has left do to the invariant: only their type.  *)
LEMMA CallsOnly ==
  ASSUME LockInv, UNCHANGED lockVars, calls' \in [Thread -> Nat]
  PROVE  LockInv'
  BY DEF LockInv, lockVars, LockTypeOK, LoopInv, HolderInv, MarkInv, StaleInv,
     ReadsClean, Holds, Marked

(* The invariant is inductive and holds throughout.                        *)
THEOREM LockInductive == LockSpec => []LockInv
<1>1. LockInv /\ [LockNext]_allLockVars => LockInv'
  <2> SUFFICES ASSUME LockInv, [LockNext]_allLockVars PROVE LockInv'
    OBVIOUS
  <2>1. ASSUME NEW t \in Thread, GoOn(t) \/ Change(t) PROVE LockInv'
    <3>1. calls' \in [Thread -> Nat]
      BY <2>1 DEF GoOn, Change, LockInv, LockTypeOK
    <3> QED
      BY <2>1, <3>1, ReadSteps, WriteSteps, ChangeSteps DEF GoOn, Change, InCall
  <2>2. ASSUME NEW t \in Thread, Begin(t) PROVE LockInv'
    <3>1. calls' \in [Thread -> Nat]
      BY <2>2 DEF Begin, LockInv, LockTypeOK
    <3> QED
      BY <2>2, <3>1, ReadSteps, WriteSteps, ChangeSteps DEF Begin
  <2>3. CASE AllReturned \/ UNCHANGED allLockVars
    BY <2>3, CallsOnly DEF AllReturned, allLockVars, lockVars, LockInv, LockTypeOK
  <2> QED
    BY <2>1, <2>2, <2>3 DEF LockNext
<1> QED
  BY LockInvInit, <1>1, PTL DEF LockSpec

(* finishRead lets no read through that overlapped a layout change.        *)
THEOREM ValidReads == LockSpec => []ReadsClean
  BY LockInductive, PTL DEF LockInv

(* A layout change excludes other changes and writers in place.            *)
THEOREM Exclusion == LockSpec => []ChangeAlone
<1>1. LockInv => ChangeAlone
  BY DEF LockInv, HolderInv, Holds, ChangeAlone
<1> QED
  BY LockInductive, <1>1, PTL

(* Every lock counter, dirty flag and place stays in its domain.           *)
THEOREM LockTyped == LockSpec => []LockTypeOK
  BY LockInductive, PTL DEF LockInv
=============================================================================
