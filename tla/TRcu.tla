-------------------------------- MODULE TRcu --------------------------------
(***************************************************************************)
(* Deferred reclamation: the epochs of Transaction.hh (epoch_state,        *)
(* threadinfo_t::epoch, start, rcu_delete, rcu_quiesce), the advancer      *)
(* thread of Transaction.cc and the per-thread TRcuSet of TRcu.hh, TRcu.cc.*)
(* Threads are the entries of tinfo.  A transaction may use any object    *)
(* linked in some shared structure while it runs, and unlinks and          *)
(* rcu_deletes some of them, the way List.hh and Hashtable.hh do.  Each    *)
(* access to an epoch is a step of its own; a TRcuSet belongs to one       *)
(* thread, so its calls are single steps.                                  *)
(***************************************************************************)
EXTENDS Integers, Sequences, FiniteSets

CONSTANTS
  N,           \* MAX_THREADS
  Obj,         \* the objects of the shared structure
  NoObj,       \* function == nullptr: the slot is an epoch marker
  FirstCapacity,   \* capacity_ of a set's first group
  NextCapacity,    \* and of the groups grow() makes
  MaxEpoch,    \* bound: global_epoch stays there
  Deleter      \* workload: the threads whose transactions delete objects

ASSUME SizeAssumption ==
  /\ N \in Nat \ {0}
  /\ NoObj \notin Obj
  /\ FirstCapacity \in Nat /\ FirstCapacity >= 2
  /\ NextCapacity \in Nat /\ NextCapacity >= 2
  /\ MaxEpoch \in Nat \ {0}
  /\ Deleter \subseteq 1 .. N

Thread == 1 .. N
Epoch == 0 .. MaxEpoch

VARIABLES
  global_epoch, active_epoch,
  epoch,       \* tinfo[t].epoch
  groups,      \* TRcuSet: the groups from first_ along next_
  current,     \* the place of current_ among them
  clean_epoch, \* clean_epoch_
  pc, loaded,  \* where thread t is; the epoch it loaded
  apc, g, e, scan,   \* the advancer, its locals and loop index
  linked,      \* objects a transaction can find
  unlinked,    \* those t has unlinked and not yet passed to rcu_delete
  \* history
  tag,         \* epoch an object was deleted in (0: not deleted)
  owner,       \* thread that deleted it
  destroyed,   \* how often its destructor was called
  elders,      \* transactions that had published their epoch when the
               \* transaction of deleter t began
  guard        \* the deleter's elders that have not ended since

epochVars == <<global_epoch, active_epoch, epoch>>
setVars == <<groups, current, clean_epoch>>
advVars == <<apc, g, e, scan>>
objVars == <<linked, unlinked>>
histVars == <<tag, owner, destroyed, elders, guard>>
vars == <<epochVars, setVars, pc, loaded, advVars, objVars, histVars>>

-----------------------------------------------------------------------------
(* TRcuGroup.  e holds the slots below tail_, so tail_ is Len(e).          *)

Marker(ep) == [object |-> NoObj, epoch |-> ep]
Entry(o) == [object |-> o, epoch |-> 0]

EmptyGroup(capacity) ==
  [capacity |-> capacity, head |-> 0, epoch |-> 0, e |-> <<>>]

Spent(gr) == gr.head = Len(gr.e)

group_add(gr, ep, o) ==
  IF Spent(gr) \/ gr.epoch # ep
  THEN [gr EXCEPT !.e = @ \o <<Marker(ep), Entry(o)>>, !.epoch = ep]
  ELSE [gr EXCEPT !.e = Append(@, Entry(o))]

(* Mutant: the current epoch is cleaned too.                               *)
DueAlso(slot, max) == slot.epoch <= max

(* signed_epoch_type(max_epoch - e_[head_].u.epoch) > 0                    *)
Due(slot, max) == slot.epoch < max

(* Mutant: the destructors run but head_ stays.                            *)
group_clean_stays(gr, max) == gr

(* Where clean_until stops: at the first marker that is not due.           *)
StopsAt(gr, max) ==
  CHOOSE j \in gr.head .. Len(gr.e) :
    /\ j = Len(gr.e) \/ (gr.e[j + 1].object = NoObj /\ ~Due(gr.e[j + 1], max))
    /\ \A i \in gr.head .. j - 1 :
         gr.e[i + 1].object # NoObj \/ Due(gr.e[i + 1], max)

(* Mutant: the group is reset although slots are left.                     *)
group_clean_resets(gr, max) == [gr EXCEPT !.head = 0, !.e = <<>>]

group_clean(gr, max) ==
  IF StopsAt(gr, max) = Len(gr.e)
  THEN [gr EXCEPT !.head = 0, !.e = <<>>]
  ELSE [gr EXCEPT !.head = StopsAt(gr, max)]

(* The objects whose destructors group_clean calls.                        *)
Cleaned(gr, max) ==
  {gr.e[j].object : j \in gr.head + 1 .. StopsAt(gr, max)} \ {NoObj}

-----------------------------------------------------------------------------
(* TRcuSet                                                                 *)

(* grow: go on to the next group, made if there is none                    *)
grown(t) ==
  IF current[t] = Len(groups[t])
  THEN Append(groups[t], EmptyGroup(NextCapacity)) ELSE groups[t]

add(t, ep, o) ==
  IF Len(groups[t][current[t]].e) + 2 > groups[t][current[t]].capacity
  THEN /\ current' = [current EXCEPT ![t] = @ + 1]
       /\ groups' = [groups EXCEPT ![t] =
            [grown(t) EXCEPT ![current[t] + 1] = group_add(@, ep, o)]]
  ELSE /\ groups' = [groups EXCEPT ![t][current[t]] = group_add(@, ep, o)]
       /\ UNCHANGED current

(* How many groups hard_clean_until empties, from first_ on.               *)
Emptied(t, max) ==
  LET done(c) == \A j \in 1 .. c :
                   StopsAt(groups[t][j], max) = Len(groups[t][j].e)
  IN CHOOSE c \in 0 .. current[t] :
       done(c) /\ (c < current[t] => ~done(c + 1))

(* The groups it visits: the emptied ones and the one it stops at.         *)
Visited(t, max) ==
  1 .. (IF Emptied(t, max) = current[t] THEN current[t]
                                        ELSE Emptied(t, max) + 1)

(* Mutant: the emptied groups are hooked in before current_.               *)
rehooked_before(gs, c, cur) ==
  SubSeq(gs, c + 1, cur - 1) \o SubSeq(gs, 1, c) \o SubSeq(gs, cur, Len(gs))

(* The emptied groups are hooked in after current_.                        *)
rehooked(gs, c, cur) ==
  SubSeq(gs, c + 1, cur) \o SubSeq(gs, 1, c) \o SubSeq(gs, cur + 1, Len(gs))

hard_clean_until(t, max) ==
  LET c == Emptied(t, max)
      gs == [j \in 1 .. Len(groups[t]) |->
               IF j \in Visited(t, max) THEN group_clean(groups[t][j], max)
                                        ELSE groups[t][j]]
      freed == UNION {Cleaned(groups[t][j], max) : j \in Visited(t, max)}
  IN /\ destroyed' = [o \in Obj |-> destroyed[o] + IF o \in freed THEN 1 ELSE 0]
     /\ IF c = current[t]
        THEN /\ groups' = [groups EXCEPT ![t] = gs]
             /\ current' = [current EXCEPT ![t] = 1]
        ELSE /\ groups' = [groups EXCEPT ![t] = rehooked(gs, c, current[t])]
             /\ current' = [current EXCEPT ![t] = @ - c]

clean_until(t, max) ==
  /\ IF clean_epoch[t] # max
     THEN hard_clean_until(t, max)
     ELSE UNCHANGED <<groups, current, destroyed>>
  /\ clean_epoch' = [clean_epoch EXCEPT ![t] = max]

-----------------------------------------------------------------------------
Init ==
  /\ global_epoch = 1 /\ active_epoch = 0
  /\ epoch = [t \in Thread |-> 0]
  /\ groups = [t \in Thread |-> <<EmptyGroup(FirstCapacity)>>]
  /\ current = [t \in Thread |-> 1]
  /\ clean_epoch = [t \in Thread |-> 0]
  /\ pc = [t \in Thread |-> "idle"]
  /\ loaded = [t \in Thread |-> 0]
  /\ apc = "load" /\ g = 0 /\ e = 0 /\ scan = 0
  /\ linked = Obj
  /\ unlinked = [t \in Thread |-> {}]
  /\ tag = [o \in Obj |-> 0]
  /\ owner = [o \in Obj |-> 1]
  /\ destroyed = [o \in Obj |-> 0]
  /\ elders = [t \in Thread |-> {}]
  /\ guard = [o \in Obj |-> {}]

Published == {t \in Thread : pc[t] \in {"clean", "run"}}

(* Transaction::start: load global_epoch, store it in tinfo, clean.        *)
StartLoad(t) ==
  /\ pc[t] = "idle"
  /\ loaded' = [loaded EXCEPT ![t] = global_epoch]
  /\ elders' = [elders EXCEPT ![t] =
                   IF t \in Deleter THEN Published ELSE {}]
  /\ pc' = [pc EXCEPT ![t] = "store"]
  /\ UNCHANGED <<epochVars, setVars, advVars, objVars, tag, owner, destroyed,
                 guard>>

StartStore(t) ==
  /\ pc[t] = "store"
  /\ epoch' = [epoch EXCEPT ![t] = loaded[t]]
  /\ loaded' = [loaded EXCEPT ![t] = 0]
  /\ pc' = [pc EXCEPT ![t] = "clean"]
  /\ UNCHANGED <<global_epoch, active_epoch, setVars, advVars, objVars,
                 histVars>>

StartClean(t) ==
  /\ pc[t] = "clean"
  /\ clean_until(t, active_epoch)
  /\ pc' = [pc EXCEPT ![t] = "run"]
  /\ UNCHANGED <<epochVars, loaded, advVars, objVars, tag, owner, elders,
                 guard>>

(* A transaction unlinks an object (List::_remove, Hashtable::_remove) ... *)
Unlink(t, o) ==
  /\ t \in Deleter
  /\ pc[t] = "run"
  /\ o \in linked
  /\ linked' = linked \ {o}
  /\ unlinked' = [unlinked EXCEPT ![t] = @ \cup {o}]
  /\ UNCHANGED <<epochVars, setVars, pc, loaded, advVars, histVars>>

(* ... and hands it to rcu_delete, which adds it under thr.epoch.          *)
rcu_delete(t, o) ==
  /\ pc[t] = "run"
  /\ o \in unlinked[t]
  /\ unlinked' = [unlinked EXCEPT ![t] = @ \ {o}]
  /\ add(t, epoch[t], o)
  /\ tag' = [tag EXCEPT ![o] = epoch[t]]
  /\ owner' = [owner EXCEPT ![o] = t]
  /\ guard' = [guard EXCEPT ![o] = elders[t]]
  /\ UNCHANGED <<epochVars, clean_epoch, pc, loaded, advVars, linked,
                 destroyed, elders>>

(* Commit or abort: the references of t die, thr.epoch stays as it is.          *)
Finish(t) ==
  /\ pc[t] = "run"
  /\ unlinked[t] = {}
  /\ elders' = [u \in Thread |-> IF u = t THEN {} ELSE elders[u] \ {t}]
  /\ guard' = [o \in Obj |-> guard[o] \ {t}]
  /\ pc' = [pc EXCEPT ![t] = "idle"]
  /\ UNCHANGED <<epochVars, setVars, loaded, advVars, linked, unlinked, tag,
                 owner, destroyed>>

rcu_quiesce(t) ==
  /\ pc[t] = "idle"
  /\ epoch[t] # 0
  /\ epoch' = [epoch EXCEPT ![t] = 0]
  /\ UNCHANGED <<global_epoch, active_epoch, setVars, pc, loaded, advVars,
                 objVars, histVars>>

-----------------------------------------------------------------------------
(* epoch_advancer                                                          *)

AdvanceLoad ==
  /\ apc = "load"
  /\ g' = global_epoch
  /\ e' = global_epoch
  /\ scan' = 1
  /\ apc' = "scan"
  /\ UNCHANGED <<epochVars, setVars, pc, loaded, objVars, histVars>>

(* Mutant: threads outside transactions count as well.                     *)
OldestOfAll(ep, old) == IF ep < old THEN ep ELSE old

(* if (t.epoch != 0 && t.epoch before e) e = t.epoch                       *)
Oldest(ep, old) == IF ep # 0 /\ ep < old THEN ep ELSE old

AdvanceScan ==
  /\ apc = "scan"
  /\ e' = Oldest(epoch[scan], e)
  /\ scan' = IF scan = N THEN 0 ELSE scan + 1
  /\ apc' = IF scan = N THEN "global" ELSE "scan"
  /\ UNCHANGED <<epochVars, setVars, pc, loaded, g, objVars, histVars>>

AdvanceGlobal ==
  /\ apc = "global"
  /\ global_epoch' = IF g = MaxEpoch THEN MaxEpoch ELSE g + 1
  /\ g' = 0
  /\ apc' = "active"
  /\ UNCHANGED <<active_epoch, epoch, setVars, pc, loaded, e, scan, objVars,
                 histVars>>

AdvanceActive ==
  /\ apc = "active"
  /\ active_epoch' = e
  /\ e' = 0
  /\ apc' = "load"
  /\ UNCHANGED <<global_epoch, epoch, setVars, pc, loaded, g, scan, objVars,
                 histVars>>

Advance == AdvanceLoad \/ AdvanceScan \/ AdvanceGlobal \/ AdvanceActive

-----------------------------------------------------------------------------
(* What a thread in a loop of transactions keeps doing                     *)
Transact(t) ==
  \/ StartLoad(t) \/ StartStore(t) \/ StartClean(t)
  \/ (\E o \in Obj : rcu_delete(t, o))
  \/ Finish(t)

Next ==
  \/ \E t \in Thread :
       \/ Transact(t)
       \/ \E o \in Obj : Unlink(t, o)
       \/ rcu_quiesce(t)
  \/ Advance

Spec == Init /\ [][Next]_vars

(* The advancer runs, and every thread keeps running transactions, as in   *)
(* unit-rcu.cc: a thread that stops without rcu_quiesce holds active_epoch *)
(* back for good.                                                          *)
FairSpec ==
  Spec /\ WF_vars(Advance) /\ \A t \in Thread : WF_vars(Transact(t))

-----------------------------------------------------------------------------
(* Properties                                                              *)

Slot == [object : Obj \cup {NoObj}, epoch : Epoch]
Group == [capacity : {FirstCapacity, NextCapacity}, head : Nat,
          epoch : Epoch, e : Seq(Slot)]

(* Every variable stays in its domain; no destructor runs twice.           *)
TypeOK ==
  /\ global_epoch \in Epoch \ {0} /\ active_epoch \in Epoch
  /\ epoch \in [Thread -> Epoch]
  /\ groups \in [Thread -> Seq(Group)]
  /\ current \in [Thread -> Nat]
  /\ clean_epoch \in [Thread -> Epoch]
  /\ pc \in [Thread -> {"idle", "store", "clean", "run"}]
  /\ loaded \in [Thread -> Epoch]
  /\ apc \in {"load", "scan", "global", "active"}
  /\ g \in Epoch /\ e \in Epoch /\ scan \in 0 .. N
  /\ linked \subseteq Obj
  /\ unlinked \in [Thread -> SUBSET Obj]
  /\ tag \in [Obj -> Epoch] /\ owner \in [Obj -> Thread]
  /\ destroyed \in [Obj -> 0 .. 1]
  /\ elders \in [Thread -> SUBSET Thread] /\ guard \in [Obj -> SUBSET Thread]

(* The assertions of TRcuSet::check: indices are in order and within the   *)
(* capacity, the groups behind current_ are reset, none before it is spent.*)
RcuSetCheck ==
  \A t \in Thread :
    /\ current[t] \in 1 .. Len(groups[t])
    /\ \A j \in 1 .. Len(groups[t]) :
         LET gr == groups[t][j] IN
           /\ gr.head <= Len(gr.e) /\ Len(gr.e) <= gr.capacity
           /\ j > current[t] => gr.head = 0 /\ gr.e = <<>>
           /\ j < current[t] => ~Spent(gr)

(* The slots of a group, and of a set with groups gs, in which o waits.    *)
Slots(gr, o) == {i \in gr.head + 1 .. Len(gr.e) : gr.e[i].object = o}

Places(gs, o) ==
  UNION {{<<j, i>> : i \in Slots(gs[j], o)} : j \in 1 .. Len(gs)}

Waiting(t, o) == Cardinality(Places(groups[t], o))

(* A deleted object waits in exactly one slot, of its deleter, until its   *)
(* destructor has been called, however groups grow, empty and are hooked   *)
(* in again.                                                               *)
NothingLost ==
  \A o \in Obj : \A t \in Thread :
    Waiting(t, o) = IF tag[o] # 0 /\ owner[o] = t THEN 1 - destroyed[o] ELSE 0

(* An object is destroyed only after all transactions have ended that had  *)
(* published their epoch when the deleting transaction began.              *)
ElderProtected == \A o \in Obj : destroyed[o] > 0 => guard[o] = {}

(* Every deleted object is destroyed in the end, up to the bound: one      *)
(* deleted in the last epoch, or when the last epoch has been cleaned,     *)
(* would need a further epoch.                                             *)
Reclaimed ==
  \A o \in Obj :
    tag[o] \in 1 .. MaxEpoch - 1 /\ clean_epoch[owner[o]] # MaxEpoch
      ~> destroyed[o] = 1

-----------------------------------------------------------------------------
(* The inductive invariant behind the proofs (module TRcuProofs)           *)

Reset(gr) == gr.head = 0 /\ gr.e = <<>>

(* The last marker at or before slot i is waiting and is one of epoch ep.  *)
Under(gr, i, ep) ==
  \E m \in gr.head + 1 .. i :
    /\ gr.e[m].object = NoObj /\ gr.e[m].epoch = ep
    /\ \A l \in m + 1 .. i : gr.e[l].object # NoObj

(* What waits in a group starts with a marker, and every object is under a *)
(* marker of the epoch it was deleted in.                                  *)
GroupInv(gr, tags) ==
  /\ gr.head <= Len(gr.e) /\ Len(gr.e) <= gr.capacity
  /\ Spent(gr) => Reset(gr)
  /\ ~Spent(gr) =>
       gr.e[gr.head + 1].object = NoObj /\ Under(gr, Len(gr.e), gr.epoch)
  /\ \A i \in gr.head + 1 .. Len(gr.e) :
       gr.e[i].object # NoObj => Under(gr, i, tags[gr.e[i].object])

SetInv(gs, cur, tags) ==
  /\ cur \in 1 .. Len(gs)
  /\ \A j \in 1 .. Len(gs) :
       /\ GroupInv(gs[j], tags)
       /\ j > cur => Reset(gs[j])
       /\ j < cur => ~Spent(gs[j])

Single(S) == \E p \in S : S = {p}

(* A deleted object waits in one place until it is destroyed.              *)
PlaceInv(t, o) ==
  IF tag[o] # 0 /\ owner[o] = t /\ destroyed[o] = 0
  THEN Single(Places(groups[t], o)) ELSE Places(groups[t], o) = {}

(* Objects that are linked or about to be deleted are not yet deleted.     *)
ObjectInv ==
  /\ \A o \in Obj : tag[o] = 0 => destroyed[o] = 0 /\ guard[o] = {}
  /\ \A o \in linked : tag[o] = 0
  /\ \A t \in Thread : \A o \in unlinked[t] :
       /\ tag[o] = 0 /\ o \notin linked
       /\ \A u \in Thread : o \in unlinked[u] => u = t

EpochInv ==
  /\ active_epoch <= global_epoch
  /\ apc # "load" => e <= global_epoch
  /\ apc \in {"scan", "global"} => g = global_epoch
  /\ apc = "scan" => scan >= 1
  /\ \A t \in Thread :
       /\ epoch[t] <= global_epoch
       /\ pc[t] = "store" => 1 <= loaded[t] /\ loaded[t] <= global_epoch
       /\ t \in Published => 1 <= epoch[t]

(* The epoch t's transaction began in                                      *)
Begun(t) == IF pc[t] = "store" THEN loaded[t] ELSE epoch[t]

(* u keeps active_epoch from passing ep: the advancer has not, and will    *)
(* not before u ends, because it has u's epoch still to look at.           *)
Holds(u, ep) ==
  /\ u \in Published
  /\ epoch[u] <= ep /\ active_epoch <= ep
  /\ apc # "load" => e <= ep \/ (apc = "scan" /\ scan <= u)

ElderInv ==
  /\ \A t \in Thread : pc[t] # "idle" => \A u \in elders[t] : Holds(u, Begun(t))
  /\ \A o \in Obj : \A u \in guard[o] : Holds(u, tag[o])

(* What protects elders is not that no thread is before active_epoch,      *)
(* which does not hold, but that active_epoch cannot pass the epoch the    *)
(* deleter loaded while one of them runs; and every waiting object is      *)
(* filed under that epoch, through all that TRcuSet does to its groups.    *)
RcuInv ==
  /\ TypeOK /\ EpochInv /\ ElderInv /\ ElderProtected /\ ObjectInv
  /\ \A t \in Thread : SetInv(groups[t], current[t], tag)
  /\ \A t \in Thread, o \in Obj : PlaceInv(t, o)

=============================================================================
