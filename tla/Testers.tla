------------------------------ MODULE Testers ------------------------------
(***************************************************************************)
(* The concurrent test programs: concurrent.cc, concurrentqueue.cc,        *)
(* pqueue.cc, trans_test.cc.  Threads run transactions on shared objects   *)
(* and retry what aborts; a transaction is a sequence of the operations    *)
(* below, each of them some calls that may depend on the results before.   *)
(*                                                                         *)
(* All interleavings of calls and of the steps of the commits.             *)
(***************************************************************************)
EXTENDS Reference

Seqs == INSTANCE SequencesExt

CONSTANTS
  Workloads,    \* the workloads, a sequence; a behaviour runs one
  ARRAY_SZ,     \* the slots that check() looks at
  MaxTries      \* how often a transaction is tried

ASSUME MaxTriesAssumption == MaxTries \in Nat \ {0}

VARIABLES
  work,     \* the one that runs
  th,       \* where each thread is in its program
  done      \* the transactions that commit, in the order of their decision

vars == <<obj, tx, TID, work, th, done>>

(* objects; prog: the transactions of each thread; test: whose check()     *)
(* holds at the end.                                                       *)
Workload(objects, prog, test) == [objects |-> objects, prog |-> prog, test |-> test]

-----------------------------------------------------------------------------
(* Operations.                                                             *)

On(o, op, a) == [o |-> o, op |-> op, a |-> a]

Do(op, a) == [do |-> "call", op |-> op, a |-> a, me |-> 0]

Read(slot) == Do("get", <<slot>>)

Write(slot, v) == Do("put", <<slot, v>>)

Macro(do, a, me) == [do |-> do, op |-> "", a |-> a, me |-> me]

(* A key that is not in the table reads as value_type().                   *)
Number(r) == IF r = Nothing THEN 0 ELSE r

(* doWrite() that increments: read, then write.                            *)
Inc(slot) == Macro("inc", <<slot>>, 0)

inc(slot, rs) ==
  CASE Len(rs) = 0 -> On("f", "get", <<slot>>)
    [] Len(rs) = 1 -> On("f", "put", <<slot, Number(rs[1]) + 1>>)
    [] OTHER -> Nothing

(* XorDelete: insert what is not there, delete what is.                    *)
Xor(slot) == Macro("xor", <<slot>>, 0)

xor(slot, rs) ==
  CASE Len(rs) = 0 -> On("f", "insert", <<slot, slot + 1>>)
    [] Len(rs) = 1 /\ ~rs[1] -> On("f", "delete", <<slot>>)
    [] OTHER -> Nothing

(* BlindWrites of thread me of n.                                          *)
Blind(me, n) == Macro("blind", <<n>>, me)

blind(me, n, rs) ==
  LET last == me = n - 1 IN
  CASE Len(rs) = 0 -> On("f", "get", <<0>>)
    [] Len(rs) \in 1 .. ARRAY_SZ - 1 /\ (last \/ Number(rs[1]) = 0) ->
         On("f", "put", <<Len(rs), me>>)
    [] Len(rs) = ARRAY_SZ /\ last -> On("f", "put", <<0, me>>)
    [] OTHER -> Nothing

(* Qxordelete: pop from a queue that is not empty, push to an empty one.   *)
Qxor(v) == Macro("qxor", <<v>>, 0)

qxor(v, rs) ==
  CASE Len(rs) = 0 -> On("f", "front", <<>>)
    [] Len(rs) = 1 -> IF rs[1] = Nothing THEN On("f", "push", <<v>>) ELSE On("f", "pop", <<>>)
    [] OTHER -> Nothing

(* The same in concurrentqueue.cc: push if there was nothing to pop.       *)
PopOrPush(v) == Macro("popOrPush", <<v>>, 0)

popOrPush(v, rs) ==
  CASE Len(rs) = 0 -> On("f", "pop", <<>>)
    [] Len(rs) = 1 /\ ~rs[1] -> On("f", "push", <<v>>)
    [] OTHER -> Nothing

(* Qtransfer: from one queue to the other.                                 *)
Qtransfer == Macro("qtransfer", <<>>, 0)

qtransfer(rs) ==
  CASE Len(rs) = 0 -> On("f", "front", <<>>)
    [] Len(rs) = 1 /\ rs[1] # Nothing -> On("f", "pop", <<>>)
    [] Len(rs) = 2 -> On("g", "push", <<rs[1]>>)
    [] OTHER -> Nothing

(* VectorTester: the last element is read and taken off, if there is one.  *)
PopLast == Macro("poplast", <<>>, 0)

poplast(rs) ==
  CASE Len(rs) = 0 -> On("f", "size", <<>>)
    [] Len(rs) = 1 /\ rs[1] > 0 -> On("f", "get", <<rs[1] - 1>>)
    [] Len(rs) = 2 -> On("f", "pop_back", <<>>)
    [] OTHER -> Nothing

(* The next call of the operation p whose calls have returned rs.          *)
NextCall(p, rs) ==
  CASE p.do = "call" -> IF rs = <<>> THEN On("f", p.op, p.a) ELSE Nothing
    [] p.do = "inc" -> inc(p.a[1], rs)
    [] p.do = "xor" -> xor(p.a[1], rs)
    [] p.do = "blind" -> blind(p.me, p.a[1], rs)
    [] p.do = "qxor" -> qxor(p.a[1], rs)
    [] p.do = "popOrPush" -> popOrPush(p.a[1], rs)
    [] p.do = "qtransfer" -> qtransfer(rs)
    [] p.do = "poplast" -> poplast(rs)

-----------------------------------------------------------------------------
(* n: the transaction it is at; i: its operation; rs: what the calls of    *)
(* that returned; log: all its calls with their results; tries: failed     *)
(* attempts; after: the transactions that had ended when it began.         *)
AtTransaction(n, tries) ==
  [n |-> n, i |-> 1, rs |-> <<>>, log |-> <<>>, tries |-> tries, after |-> {}, running |-> FALSE]

TestersInit ==
  /\ work \in Seqs!ToSet(Workloads)
  /\ Init(work.objects)
  /\ th = [t \in Thread |-> AtTransaction(1, 0)]
  /\ done = <<>>

Finished(t) == th[t].n > Len(work.prog[t])

Operations(t) == work.prog[t][th[t].n]

CallsLeft(t) == th[t].i <= Len(Operations(t))

CurrentCall(t) == NextCall(Operations(t)[th[t].i], th[t].rs)

HasEnded(d) == ~th[done[d].t].running \/ done[d].n < th[done[d].t].n

Begin(t) ==
  /\ ~Finished(t) /\ ~th[t].running
  /\ start(t)
  /\ th' = [th EXCEPT ![t].running = TRUE, ![t].after = {d \in DOMAIN done : HasEnded(d)}]
  /\ UNCHANGED <<work, done>>

InCalls(t) == th[t].running /\ tx[t].state = "in_progress" /\ tx[t].at = "calls"

(* The thread after a call c with result r.                                *)
Returned(s, p, c, r) ==
  LET rs == Append(s.rs, r)
      logged == [s EXCEPT !.log = Append(@, [o |-> c.o, op |-> c.op, a |-> c.a, r |-> r])]
  IN IF NextCall(p, rs) = Nothing THEN [logged EXCEPT !.i = @ + 1, !.rs = <<>>]
     ELSE [logged EXCEPT !.rs = rs]

(* An out_of_range leaves the block of the transaction.                    *)
Threw(s) == s.log # <<>> /\ s.log[Len(s.log)].r = OutOfRange

DoCall(t) ==
  /\ InCalls(t) /\ CallsLeft(t) /\ ~Threw(th[t])
  /\ \E c \in {CurrentCall(t)} :
       \/ /\ StartLocking(t, c.o, c)
          /\ UNCHANGED th
       \/ /\ CanCall(t, c.o, c)
          /\ \E m \in {Call(tx[t], c.o, c)} :
               /\ MakeCall(t, c.o, m)
               /\ th' = IF Result(m, c.o) = Abort THEN th
                        ELSE [th EXCEPT ![t] = Returned(@, Operations(t)[@.i], c, Result(m, c.o))]
  /\ UNCHANGED <<work, done>>

(* The transaction will commit: its place among the others is recorded.    *)
Record(t) == [t |-> t, n |-> th[t].n, log |-> th[t].log, after |-> th[t].after]

Decided(t) == done' = Append(done, Record(t))

(* ~TransactionLoopGuard.                                                  *)
Leave(t) ==
  /\ InCalls(t) /\ Threw(th[t])
  /\ silent_abort(t)
  /\ UNCHANGED <<work, th, done>>

DoCommit(t) ==
  /\ InCalls(t) /\ ~CallsLeft(t) /\ ~Threw(th[t])
  /\ try_commit(t)
  /\ IF tx'[t].state = "committed" THEN Decided(t) ELSE UNCHANGED done
  /\ UNCHANGED <<work, th>>

DoStep(t) ==
  /\ th[t].running /\ CommitStep(t)
  /\ IF tx[t].at = "check" /\ tx'[t].at = "install" THEN Decided(t) ELSE UNCHANGED done
  /\ UNCHANGED <<work, th>>

(* RETRY(true): again if it aborted.                                       *)
Retry(t) ==
  LET s == th[t] IN
  /\ s.running /\ Ended(t)
  /\ th' = [th EXCEPT ![t] =
              CASE tx[t].state = "committed" -> AtTransaction(s.n + 1, 0)
                [] tx[t].state = "aborted" /\ s.tries + 1 < MaxTries /\ ~Threw(s) ->
                     AtTransaction(s.n, s.tries + 1)
                [] OTHER -> AtTransaction(Len(work.prog[t]) + 1, MaxTries)]
  /\ UNCHANGED <<obj, tx, TID, work, done>>

Step(t) == Begin(t) \/ DoCall(t) \/ Leave(t) \/ DoCommit(t) \/ DoStep(t) \/ Retry(t)

AllFinished == \A t \in Thread : Finished(t)

Joined == AllFinished /\ UNCHANGED vars

Next == (\E t \in Thread : Step(t)) \/ Joined

(* Tries and spins are bounded, so every behaviour ends: where AllFinished *)
(* holds, or in a deadlock.                                                *)
Spec == TestersInit /\ [][Next]_vars

-----------------------------------------------------------------------------
Orders(n) == {p \in [1 .. n -> 1 .. n] : \A i, j \in 1 .. n : p[i] = p[j] => i = j}

(* The transactions D, one after the other in some order that keeps who    *)
(* ended before whom, return what they returned, and leave such contents.  *)
(* What those in unseen write is for themselves only.                      *)
Explains(D, unseen, Left(_)) ==
  \E p \in Orders(Len(D)) :
    /\ \A i, j \in DOMAIN p : i < j => p[j] \notin D[p[i]].after
    /\ LET All[k \in 0 .. Len(D)] ==
             IF k = 0 THEN [v |-> Contents(work.objects), agrees |-> TRUE]
             ELSE LET before == All[k - 1]
                      s == Replay(Kinds(work.objects), before.v, D[p[k]].log)
                  IN IF ~before.agrees THEN before
                     ELSE IF p[k] \in unseen THEN [before EXCEPT !.agrees = s.agrees]
                     ELSE s
       IN All[Len(D)].agrees /\ Left(All[Len(D)].v)

(* When no transaction runs, the committed ones have returned, and left in *)
(* the objects, what they would one at a time, in an order in which one    *)
(* that ended before another began comes first: the replay of trans_test.cc*)
(* and pqueue.cc, whatever commit tids the transactions got.               *)
StrictlySerializable ==
  (\A t \in Thread : ~th[t].running)
    => Explains(done, {}, LAMBDA v : v = Contents(obj))

(* Opacity: a transaction that still runs, even one that will abort, has   *)
(* seen only what a serial execution of the committed ones could show, if  *)
(* all its objects are of an opaque type.                                  *)
Opaque ==
  (\A o \in DOMAIN obj : obj[o].opaque)
    => \A t \in Thread :
         InCalls(t) /\ th[t].log # <<>>
           => Explains(Append(done, Record(t)), {Len(done) + 1}, LAMBDA v : TRUE)

-----------------------------------------------------------------------------
(* No version of the object is locked, nothing in it awaits a commit.      *)
AllFree(words) == \A k \in DOMAIN words : ~is_locked(words[k])

Versions(data) == [i \in DOMAIN data |-> data[i].vers]

AtRest(ob) ==
  CASE ob.kind = "TBox" -> AllFree(Versions(ob.data))
    [] ob.kind = "TGeneric" -> AllFree(ob.table)
    [] ob.kind \in {"TIntPredicate", "TCounter"} -> ~is_locked(ob.vers)
    [] ob.kind = "TVector" -> ~is_locked(ob.size_vers) /\ AllFree(Versions(ob.data))
    [] ob.kind = "Vector" -> ~is_locked(ob.vecversion) /\ AllFree(Versions(ob.data))
    [] ob.kind = "Queue" -> ~is_locked(ob.headversion) /\ ~is_locked(ob.tailversion)
    [] ob.kind = "PriorityQueue" ->
         /\ ~is_locked(ob.popversion) /\ ob.dirtytid = P!NoThread
         /\ \A i \in DOMAIN ob.heap : "insert" \notin ob.node[ob.heap[i]].flags
    [] ob.kind = "List" ->
         /\ ~is_locked(ob.listversion)
         /\ \A n \in Seqs!ToSet(L!Linked(ob)) :
              L!is_valid(ob, n) /\ ~is_locked(ob.nodes[n].vers)
    [] ob.kind = "Hashtable" ->
         \A b \in DOMAIN ob.buckets :
           /\ ~is_locked(ob.buckets[b].version)
           /\ \A e \in Seqs!ToSet(ob.buckets[b].chain) :
                H!valid(ob, e) /\ ~is_locked(ob.elem[e].version)
    [] ob.kind = "TransMap" -> \A k \in DOMAIN ob.locks : ob.locks[k] = M!Free
    [] ob.kind = "TLayoutBT" -> \A t \in DOMAIN ob.treelets : ob.treelets[t].own = 0
    [] ob.kind = "RBTree" -> R!AtRest(ob)

(* Whatever a transaction did before it aborted or committed, stop() has   *)
(* released every lock it took, of versions, RWLocks and dirty queues, and *)
(* unlinked every node it inserted in vain or deleted.                     *)
NothingLeft ==
  (\A t \in Thread : ~th[t].running \/ Ended(t)) => \A o \in DOMAIN obj : AtRest(obj[o])

(* No assert() of the data structures or of the commit fails.              *)
CodeAssertionsHold == \A t \in Thread : ~tx[t].failed

(* What TLayoutBT.hh says of its treelets, "a treelet lock will not be     *)
(* released until the transaction commits": no two transactions have       *)
(* updates to install in one treelet.                                      *)
ToInstall(t, o) ==
  IF Ended(t) THEN {}
  ELSE {i.key : i \in {j \in Seqs!ToSet(tx[t].tset) :
                         j.owner = o /\ has(j, "write") /\ j.wdata # {}}}

TreeletsHeld ==
  \A o \in DOMAIN obj : obj[o].kind = "TLayoutBT"
    => \A t, u \in Thread : t # u => ToInstall(t, o) \cap ToInstall(u, o) = {}

-----------------------------------------------------------------------------
(* check() of the testers: what slots hold afterwards.                     *)

MaxCalls == ARRAY_SZ + 1       \* an operation makes at most as many

(* The content v after the operations ops, without any transaction.        *)
Rerun(v, ops) ==
  LET After1[k \in 0 .. MaxCalls * Len(ops)] ==
        IF k = 0 THEN [v |-> v, i |-> 1, rs |-> <<>>]
        ELSE LET s == After1[k - 1]
                 c == NextCall(ops[s.i], s.rs)
                 n == redoOp(work.objects[c.o].kind, s.v, c)
                 rs == Append(s.rs, n.r)
             IN IF s.i > Len(ops) THEN s
                ELSE IF NextCall(ops[s.i], rs) = Nothing
                THEN [v |-> n.v, i |-> s.i + 1, rs |-> <<>>]
                ELSE [v |-> n.v, i |-> s.i, rs |-> rs]
  IN After1[MaxCalls * Len(ops)].v

ThreadByThread ==
  Seqs!FlattenSeq([t \in 1 .. Cardinality(Thread) |-> Seqs!FlattenSeq(work.prog[t])])

nontrans_get(i) ==
  LET ob == obj["f"] IN Number(redoOp(ob.kind, Content(ob), On("f", "get", <<i>>)).r)

RandomRWsCheck == Content(obj["f"]) = Rerun(Content(work.objects["f"]), ThreadByThread)

KingDeleteCheck(n) == Cardinality({i \in 0 .. n - 1 : nontrans_get(i) # 0}) = 1

IsolatedWritesCheck(n) == \A i \in 0 .. n - 1 : nontrans_get(i) = i + 1

BlindWritesCheck(n) == \A i \in 0 .. ARRAY_SZ - 1 : nontrans_get(i) = n - 1

InterferingRWsCheck(n) == \A i \in 0 .. ARRAY_SZ - 1 : nontrans_get(i) = (i % n) + 1

(* When every transaction of the program has committed, the check() of its *)
(* tester passes: nothing is lost, and the result is that of running the   *)
(* threads one after the other.                                            *)
TesterCheck ==
  LET n == Cardinality(Thread) IN
  AllFinished /\ (\A t \in Thread : th[t].tries # MaxTries)
    => /\ work.test = "sequential" => RandomRWsCheck
       /\ work.test = "king" => KingDeleteCheck(n)
       /\ work.test = "isolated" => IsolatedWritesCheck(n)
       /\ work.test = "blind" => BlindWritesCheck(n)
       /\ work.test = "interfering" => InterferingRWsCheck(n)
=============================================================================
