----------------------------- MODULE LayoutLock -----------------------------
(***************************************************************************)
(* LayoutLock_DefaultImpl_ over ScalableRWLock (layoutLock/llock.hh).      *)
(* Optimistic readers only look at their own dirty_ flag when they are     *)
(* done; a layout change takes every thread's state_ and sets every dirty_ *)
(* flag before it touches the layout; an in-place writer takes its own     *)
(* state_.  Each access to state_ or dirty_ is one step.                   *)
(***************************************************************************)
EXTENDS Integers

CONSTANTS
  N,           \* maxNumberOfThreads
  Quota        \* bound: the calls each thread makes

Thread == 1 .. N

ASSUME LockAssumption == N \in Nat \ {0} /\ Quota \in [Thread -> Nat]

VARIABLES
  state,       \* state_: kInactive, kReaderActive, kWriterActive
  dirty,       \* dirty_
  lpc, at,     \* where thread t is in the lock's code; its loop index + 1
  stale,       \* history: t's read overlaps a change of the layout
  calls        \* calls thread t has left

lockVars == <<state, dirty, lpc, at, stale>>
allLockVars == <<lockVars, calls>>

LockPlace == {"out", "read", "valid", "reset", "clear", "recheck", "redirty",
              "failed", "wait", "write", "wlock", "mark", "change", "wunlock"}

LockInit ==
  /\ state = [t \in Thread |-> "inactive"]
  /\ dirty = [t \in Thread |-> 0]
  /\ lpc = [t \in Thread |-> "out"]
  /\ at = [t \in Thread |-> 1]
  /\ stale = [t \in Thread |-> FALSE]
  /\ calls = Quota

goes(t, place) == lpc' = [lpc EXCEPT ![t] = place]

isWriterActive(t) == state[t] = "writer"

-----------------------------------------------------------------------------
(* Reads                                                                   *)

(* startRead does nothing: the read begins here, or again after a failure. *)
startRead(t) ==
  /\ lpc[t] \in {"out", "failed"}
  /\ goes(t, "read")
  /\ stale' = [stale EXCEPT ![t] = \E u \in Thread : lpc[u] = "change"]
  /\ UNCHANGED <<state, dirty, at>>

finishRead(t) ==
  /\ lpc[t] = "read"
  /\ goes(t, IF dirty[t] = 0 THEN "valid" ELSE "reset")
  /\ UNCHANGED <<state, dirty, at, stale>>

(* The caller is done with what a valid read returned.                     *)
endRead(t) ==
  /\ lpc[t] = "valid"
  /\ goes(t, "out")
  /\ stale' = [stale EXCEPT ![t] = FALSE]
  /\ UNCHANGED <<state, dirty, at>>

(* resetDirty, an access at a time                                         *)
ResetTest(t) ==
  /\ lpc[t] = "reset"
  /\ goes(t, IF isWriterActive(t) THEN "failed" ELSE "clear")
  /\ UNCHANGED <<state, dirty, at, stale>>

ResetClear(t) ==
  /\ lpc[t] = "clear"
  /\ dirty' = [dirty EXCEPT ![t] = 0]
  /\ goes(t, "recheck")
  /\ UNCHANGED <<state, at, stale>>

(* Mutant: the second look at the state is left out.                       *)
ResetNoRecheck(t) ==
  /\ lpc[t] = "recheck"
  /\ goes(t, "failed")
  /\ UNCHANGED <<state, dirty, at, stale>>

ResetRecheck(t) ==
  /\ lpc[t] = "recheck"
  /\ goes(t, IF isWriterActive(t) THEN "redirty" ELSE "failed")
  /\ UNCHANGED <<state, dirty, at, stale>>

ResetRedirty(t) ==
  /\ lpc[t] = "redirty"
  /\ dirty' = [dirty EXCEPT ![t] = 1]
  /\ goes(t, "failed")
  /\ UNCHANGED <<state, at, stale>>

resetDirty(t) ==
  ResetTest(t) \/ ResetClear(t) \/ ResetRecheck(t) \/ ResetRedirty(t)

-----------------------------------------------------------------------------
(* Writes in place: startWrite is read_lock, finishWrite is read_unlock    *)

startWrite(t) ==
  /\ lpc[t] = "out"
  /\ goes(t, "wait")
  /\ UNCHANGED <<state, dirty, at, stale>>

read_lock(t) ==
  /\ lpc[t] = "wait"
  /\ state[t] = "inactive"
  /\ state' = [state EXCEPT ![t] = "reader"]
  /\ goes(t, "write")
  /\ UNCHANGED <<dirty, at, stale>>

read_unlock(t) ==
  /\ lpc[t] = "write"
  /\ state' = [state EXCEPT ![t] = "inactive"]
  /\ goes(t, "out")
  /\ UNCHANGED <<dirty, at, stale>>

-----------------------------------------------------------------------------
(* Layout changes                                                          *)

(* Mutant: the loops count one too far before they leave.                  *)
each_too_far(t, next) ==
  /\ at' = [at EXCEPT ![t] = @ + 1]
  /\ IF at[t] > N THEN goes(t, next) ELSE UNCHANGED lpc

(* The loops over the threads: on to the next one, or out of the loop.     *)
each(t, next) ==
  /\ at' = [at EXCEPT ![t] = IF @ = N THEN 1 ELSE @ + 1]
  /\ IF at[t] = N THEN goes(t, next) ELSE UNCHANGED lpc

startLayoutChange(t) ==
  /\ lpc[t] = "out"
  /\ goes(t, "wlock")
  /\ UNCHANGED <<state, dirty, at, stale>>

(* Mutant: the compare-and-swap also takes a state a writer holds.         *)
write_lock_takes(t) ==
  /\ lpc[t] = "wlock"
  /\ state[at[t]] # "writer"
  /\ state' = [state EXCEPT ![at[t]] = "writer"]
  /\ each(t, "mark")
  /\ UNCHANGED <<dirty, stale>>

write_lock(t) ==
  /\ lpc[t] = "wlock"
  /\ state[at[t]] = "inactive"
  /\ state' = [state EXCEPT ![at[t]] = "writer"]
  /\ each(t, "mark")
  /\ UNCHANGED <<dirty, stale>>

MarkDirty(t) ==
  /\ lpc[t] = "mark"
  /\ dirty' = [dirty EXCEPT ![at[t]] = 1]
  /\ each(t, "change")
  /\ UNCHANGED <<state, stale>>

(* The owner of the change writes to the layout.                           *)
changeLayout(t) ==
  /\ lpc[t] = "change"
  /\ stale' = [u \in Thread |-> stale[u] \/ lpc[u] = "read"]
  /\ UNCHANGED <<state, dirty, lpc, at>>

finishLayoutChange(t) ==
  /\ lpc[t] = "change"
  /\ goes(t, "wunlock")
  /\ UNCHANGED <<state, dirty, at, stale>>

(* Mutant: the last thread's state is not given back.                      *)
write_unlock_short(t) ==
  /\ lpc[t] = "wunlock"
  /\ state' = [state EXCEPT ![at[t]] = IF at[t] = N THEN @ ELSE "inactive"]
  /\ each(t, "out")
  /\ UNCHANGED <<dirty, stale>>

write_unlock(t) ==
  /\ lpc[t] = "wunlock"
  /\ state' = [state EXCEPT ![at[t]] = "inactive"]
  /\ each(t, "out")
  /\ UNCHANGED <<dirty, stale>>

-----------------------------------------------------------------------------
(* The steps inside the lock's calls, and a client that makes calls.       *)

InCall(t) ==
  resetDirty(t) \/ read_lock(t) \/ write_lock(t) \/ MarkDirty(t) \/ write_unlock(t)

(* A caller begins one of the calls it has left ...                        *)
Begin(t) ==
  /\ lpc[t] = "out" /\ calls[t] > 0
  /\ calls' = [calls EXCEPT ![t] = @ - 1]
  /\ startRead(t) \/ startWrite(t) \/ startLayoutChange(t)

(* ... goes on until it is through, reading again after a failure ...      *)
GoOn(t) ==
  /\ \/ InCall(t)
     \/ lpc[t] = "failed" /\ startRead(t)
     \/ finishRead(t) \/ endRead(t) \/ read_unlock(t) \/ finishLayoutChange(t)
  /\ UNCHANGED calls

(* ... and may write to the layout while it owns the change.               *)
Change(t) == changeLayout(t) /\ UNCHANGED calls

(* Every call has been made and has returned.                              *)
AllReturned ==
  /\ \A t \in Thread : lpc[t] = "out" /\ calls[t] = 0
  /\ UNCHANGED allLockVars

LockNext ==
  \/ \E t \in Thread : Begin(t) \/ GoOn(t) \/ Change(t)
  \/ AllReturned

LockSpec == LockInit /\ [][LockNext]_allLockVars

(* Threads that are inside a call keep running.                            *)
LockFairSpec ==
  LockSpec /\ \A t \in Thread : WF_allLockVars(GoOn(t))

-----------------------------------------------------------------------------
(* Properties                                                              *)

(* Every variable stays in its domain: a loop index within the arrays.     *)
LockTypeOK ==
  /\ state \in [Thread -> {"inactive", "reader", "writer"}]
  /\ dirty \in [Thread -> {0, 1}]
  /\ lpc \in [Thread -> LockPlace]
  /\ at \in [Thread -> Thread]
  /\ stale \in [Thread -> BOOLEAN]
  /\ calls \in [Thread -> Nat]

(* A read that finishRead lets through overlapped no change of the layout: *)
(* clearing dirty_ in resetDirty never hides a change that is under way.   *)
ReadsClean == \A t \in Thread : lpc[t] = "valid" => ~stale[t]

(* While the layout is changed there is no second change and no writer     *)
(* between startWrite and finishWrite, whichever threads they run on.      *)
ChangeAlone ==
  \A t, u \in Thread :
    lpc[t] = "change" /\ u # t => lpc[u] \notin {"change", "write"}

(* Changes that take the states in index order and writers that hold one   *)
(* do not wait for each other in a circle: every call returns.             *)
LockCallsReturn == \A t \in Thread : lpc[t] # "out" ~> lpc[t] = "out"

=============================================================================
