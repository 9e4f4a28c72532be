----------------------------- MODULE LayoutTree -----------------------------
(***************************************************************************)
(* LayoutTree (layoutLock/LayoutTree.hh): a backbone of index nodes read   *)
(* under the layout lock, over treelets (GlobalLockTree.hh) with a lock    *)
(* each.  A node has two children and one key here, sixteen and fifteen in *)
(* the code; a treelet's search tree is the set of its keys.  Nodes and    *)
(* treelets are never freed.  Each access to a shared field is a step; what*)
(* a thread does inside a treelet it has locked is one.                    *)
(***************************************************************************)
EXTENDS LayoutLock, Sequences, FiniteSets

CONSTANTS
  Key,             \* keys, without INVALID_KEY_SMALL
  Menu,            \* workload: the calls <<t, op, k>> the threads make
  Flush,           \* inserts and removes a thread counts privately (200)
  FirstEnlarge,    \* enlargeWhen of a new tree (16)
  FirstBackbone,   \* backboneSize after the first change (15)
  Growth           \* the factor it grows by (16)

ASSUME TreeAssumption ==
  /\ Key \subseteq Nat \ {0}
  /\ Menu \subseteq Thread \X {"search", "insert", "remove"} \X Key
  /\ {Flush, FirstEnlarge, FirstBackbone, Growth} \subseteq Nat \ {0}

VARIABLES
  head,        \* a reference: treelet r if r > 0, node -r if r < 0
  nodes,       \* nodes in the order of their allocation
  trees,       \* treelets in the order of their allocation
  call, pc,    \* the call thread t is in and where it is
  cur, side,   \* getTreelet: cur and the child asmsearch chose
  heuristic, fuzzySize, enlargeWhen, shrinkWhen, backboneSize,
  sz, limit,   \* insert and remove: res, lenlargeWhen or lshrinkWhen
  v, c,        \* the thread that owns the change: v and its loop index
  todo,        \* its calls of gatherAll: the nodes still to visit, in order
  parts,       \* its calls of buildFromV, with their first and len
  span         \* history: the keys that lead to a reference from head

treeVars == <<head, nodes, trees>>
sizeVars == <<fuzzySize, enlargeWhen, shrinkWhen, backboneSize>>
walkVars == <<cur, side>>
countVars == <<heuristic, sz, limit>>
changeVars == <<v, c, todo, parts, span>>
vars == <<allLockVars, treeVars, sizeVars, call, pc, walkVars, countVars,
          changeVars>>

NULL_TREE == 1
IsNode(r) == r < 0
Node(r) == nodes[-r]
Treelet(items) == [lock |-> 0, items |-> items]
Idle == [op |-> "none", key |-> 0, res |-> "none"]

Init ==
  /\ LockInit
  /\ head = 2
  /\ nodes = <<>>
  /\ trees = <<Treelet({}), Treelet({})>>
  /\ call = [t \in Thread |-> Idle]
  /\ pc = [t \in Thread |-> "idle"]
  /\ cur = [t \in Thread |-> 0]
  /\ side = [t \in Thread |-> 1]
  /\ heuristic = [t \in Thread |-> 0]
  /\ sz = [t \in Thread |-> 0]
  /\ limit = [t \in Thread |-> 0]
  /\ fuzzySize = 0
  /\ enlargeWhen = FirstEnlarge /\ shrinkWhen = -1 /\ backboneSize = 0
  /\ v = <<>> /\ c = 1 /\ todo = <<>> /\ parts = <<>>
  /\ span = [r \in 1 .. 2 |-> IF r = head THEN Key ELSE {}]

to(t, place) == pc' = [pc EXCEPT ![t] = place]
acquire(t, r) == trees[r].lock = 0 /\ trees' = [trees EXCEPT ![r].lock = t]

-----------------------------------------------------------------------------
(* getTreelet                                                              *)

Invoke(t, op, k) ==
  /\ pc[t] = "idle" /\ calls[t] > 0
  /\ <<t, op, k>> \in Menu
  /\ calls' = [calls EXCEPT ![t] = @ - 1]
  /\ call' = [call EXCEPT ![t] = [op |-> op, key |-> k, res |-> "none"]]
  /\ to(t, "start")
  /\ UNCHANGED <<lockVars, treeVars, sizeVars, walkVars, countVars, changeVars>>

LoadHead(t) ==
  /\ pc[t] = "start"
  /\ startRead(t)
  /\ cur' = [cur EXCEPT ![t] = head]
  /\ to(t, "walk")
  /\ UNCHANGED <<calls, treeVars, sizeVars, call, side, countVars, changeVars>>

(* Mutant: a key equal to the node's goes right.                           *)
asmsearch_right(key, n) == IF key >= n.key THEN 2 ELSE 1

asmsearch(key, n) == IF key > n.key THEN 2 ELSE 1

LoadKey(t) ==
  /\ pc[t] = "walk" /\ IsNode(cur[t])
  /\ side' = [side EXCEPT ![t] = asmsearch(call[t].key, Node(cur[t]))]
  /\ to(t, "next")
  /\ UNCHANGED <<allLockVars, treeVars, sizeVars, call, cur, countVars,
                 changeVars>>

LoadNext(t) ==
  /\ pc[t] = "next"
  /\ cur' = [cur EXCEPT ![t] = Node(cur[t]).next[side[t]]]
  /\ side' = [side EXCEPT ![t] = 1]
  /\ to(t, "walk")
  /\ UNCHANGED <<allLockVars, treeVars, sizeVars, call, countVars, changeVars>>

Acquire(t) ==
  /\ pc[t] = "walk" /\ ~IsNode(cur[t])
  /\ acquire(t, cur[t])
  /\ to(t, "check")
  /\ UNCHANGED <<allLockVars, head, nodes, sizeVars, call, walkVars, countVars,
                 changeVars>>

Check(t) ==
  /\ pc[t] = "check"
  /\ finishRead(t)
  /\ to(t, IF dirty[t] = 0 THEN "apply" ELSE "giveup")
  /\ UNCHANGED <<calls, treeVars, sizeVars, call, walkVars, countVars,
                 changeVars>>


GiveUp(t) ==
  /\ pc[t] = "giveup" /\ lpc[t] = "failed"
  /\ trees' = [trees EXCEPT ![cur[t]].lock = 0]
  /\ to(t, "start")
  /\ UNCHANGED <<allLockVars, head, nodes, sizeVars, call, walkVars, countVars,
                 changeVars>>

-----------------------------------------------------------------------------
(* search, insert, remove: the treelet's part and the counting             *)

(* Whether GlobalLockTree::search, insert, remove return true              *)
Result(op, k, items) == (k \in items) = (op # "insert")

Updated(op, k, items) ==
  CASE op = "insert" -> items \cup {k}
    [] op = "remove" -> items \ {k}
    [] op = "search" -> items

Counted(t, res) ==
  heuristic[t] + IF ~res \/ call[t].op = "search" THEN 0
                 ELSE IF call[t].op = "insert" THEN 1 ELSE -1

Overflows(op, count) ==
  \/ op = "insert" /\ count >= Flush
  \/ op = "remove" /\ count < -Flush

Apply(t) ==
  LET op == call[t].op
      k == call[t].key
      items == trees[cur[t]].items
      res == Result(op, k, items)
  IN /\ pc[t] = "apply"
     /\ endRead(t)
     /\ trees' = [trees EXCEPT ![cur[t]] = Treelet(Updated(op, k, items))]
     /\ call' = [call EXCEPT ![t].res = IF res THEN "true" ELSE "false"]
     /\ heuristic' = [heuristic EXCEPT ![t] = Counted(t, res)]
     /\ cur' = [cur EXCEPT ![t] = 0]
     /\ to(t, IF Overflows(op, Counted(t, res)) THEN "flush" ELSE "return")
     /\ UNCHANGED <<calls, head, nodes, sizeVars, side, sz, limit, changeVars>>

FlushCount(t) ==
  /\ pc[t] = "flush"
  /\ fuzzySize' = fuzzySize + heuristic[t]
  /\ sz' = [sz EXCEPT ![t] = fuzzySize + heuristic[t]]
  /\ to(t, "limit")
  /\ UNCHANGED <<allLockVars, treeVars, enlargeWhen, shrinkWhen, backboneSize,
                 call, walkVars, heuristic, limit, changeVars>>

LoadLimit(t) ==
  /\ pc[t] = "limit"
  /\ startRead(t)
  /\ limit' = [limit EXCEPT ![t] = IF call[t].op = "insert" THEN enlargeWhen
                                                            ELSE shrinkWhen]
  /\ to(t, "limitcheck")
  /\ UNCHANGED <<calls, treeVars, sizeVars, call, walkVars, heuristic, sz,
                 changeVars>>

CheckLimit(t) ==
  /\ pc[t] = "limitcheck"
  /\ finishRead(t)
  /\ to(t, IF dirty[t] = 0 THEN "decide" ELSE "limit")
  /\ UNCHANGED <<calls, treeVars, sizeVars, call, walkVars, countVars,
                 changeVars>>

Decide(t) ==
  /\ pc[t] = "decide"
  /\ endRead(t)
  /\ to(t, IF (call[t].op = "insert" /\ sz[t] >= limit[t])
              \/ (call[t].op = "remove" /\ sz[t] <= limit[t])
           THEN "change" ELSE "counted")
  /\ limit' = [limit EXCEPT ![t] = 0]
  /\ UNCHANGED <<calls, treeVars, sizeVars, call, walkVars, heuristic, sz,
                 changeVars>>

(* heuristic[stateOff_]=0, after the change if there was one               *)
ResetCount(t) ==
  /\ pc[t] = "counted" /\ lpc[t] = "out"
  /\ heuristic' = [heuristic EXCEPT ![t] = 0]
  /\ sz' = [sz EXCEPT ![t] = 0]
  /\ to(t, "return")
  /\ UNCHANGED <<allLockVars, treeVars, sizeVars, call, walkVars, limit,
                 changeVars>>

Return(t) ==
  /\ pc[t] = "return"
  /\ call' = [call EXCEPT ![t] = Idle]
  /\ to(t, "idle")
  /\ UNCHANGED <<allLockVars, treeVars, sizeVars, walkVars, countVars,
                 changeVars>>

-----------------------------------------------------------------------------
(* enlarge_tree and shrink_tree                                            *)

(* a < b compared as unsigned: a negative value is above the others        *)
below(a, b) == IF (a < 0) = (b < 0) THEN a < b ELSE b < 0

StartChange(t) ==
  /\ pc[t] = "change"
  /\ startLayoutChange(t)
  /\ to(t, "owner")
  /\ UNCHANGED <<calls, treeVars, sizeVars, call, walkVars, countVars,
                 changeVars>>

(* Another thread may have changed the layout since the sizes were read.   *)
GiveUpChange(t) ==
  /\ pc[t] = "owner"
  /\ \/ call[t].op = "insert" /\ below(sz[t], enlargeWhen)
     \/ call[t].op = "remove" /\ below(shrinkWhen, sz[t])
  /\ finishLayoutChange(t)
  /\ to(t, "counted")
  /\ UNCHANGED <<calls, treeVars, sizeVars, call, walkVars, countVars,
                 changeVars>>

enlarge_tree(t) ==
  LET size == IF backboneSize = 0 THEN FirstBackbone ELSE backboneSize * Growth
  IN /\ pc[t] = "owner" /\ call[t].op = "insert"
     /\ ~below(sz[t], enlargeWhen)
     /\ changeLayout(t)
     /\ backboneSize' = size
     /\ enlargeWhen' = size * Growth
     /\ shrinkWhen' = size \div 4
     /\ todo' = IF IsNode(head) THEN <<head>> ELSE <<>>
     /\ to(t, "gather")
     /\ UNCHANGED <<calls, treeVars, fuzzySize, call, walkVars, countVars, v, c,
                    parts, span>>

(* shrink_tree owns the layout and calls enlarge_tree, whose write_lock    *)
(* waits for the state this thread itself holds: it never returns.         *)
shrink_tree(t) ==
  /\ pc[t] = "owner" /\ lpc[t] = "change" /\ call[t].op = "remove"
  /\ ~below(shrinkWhen, sz[t])
  /\ to(t, "stuck")
  /\ UNCHANGED <<allLockVars, treeVars, sizeVars, call, walkVars, countVars,
                 changeVars>>

(* constructBigNode: the key that separates the halves of v[first, len)    *)
bigNodeKey(seq, first, len) ==
  IF first + len \div 2 <= 0 THEN 0 ELSE seq[first + len \div 2]

(* The items of child i (1 or 2) of a node over v[first, len)              *)
childFirst(first, len, i) == first + ((i - 1) * len) \div 2
childLen(first, len, i) == childFirst(first, len, i + 1) - childFirst(first, len, i)
childItems(seq, first, len, i) ==
  {seq[j] : j \in childFirst(first, len, i) + 1 .. childFirst(first, len, i + 1)}

(* A new node over v[first, len) whose children are new treelets           *)
bigNode(seq, first, len) ==
  [key |-> bigNodeKey(seq, first, len), next |-> [i \in 1 .. 2 |-> Len(trees) + i]]
bigNodeTrees(seq, first, len) ==
  [i \in 1 .. 2 |-> Treelet(childItems(seq, first, len, i))]

(* addItems: the keys of a treelet in order                                *)
InOrder(items) ==
  CHOOSE s \in [1 .. Cardinality(items) -> items] :
    /\ \A i, j \in 1 .. Cardinality(items) : i < j => s[i] < s[j]
    /\ \A k \in items : \E i \in 1 .. Cardinality(items) : s[i] = k

(* The keys of S that a node with this key sends to child i                *)
sent(S, key, i) == {k \in S : asmsearch(k, [key |-> key]) = i}

(* Spans with those of a new node and of its treelets                      *)
withNode(S, n) ==
  LET T == Len(trees) IN
  [r \in DOMAIN span \cup {-(Len(nodes) + 1), T + 1, T + 2} |->
     IF r = -(Len(nodes) + 1) THEN S
     ELSE IF r \in {T + 1, T + 2} THEN sent(S, n.key, r - T) ELSE span[r]]

(* Mutant: the loops over the children run on.                             *)
childAfter == c + 1

nextChild == IF c = 2 THEN 1 ELSE c + 1

(* gatherAll, buildFromV: the children of a node are treelets.             *)
isLeaf(r) == ~IsNode(Node(r).next[1])

(* gatherAll on a node of nodes calls itself for each child.               *)
GatherChildren(t) ==
  /\ pc[t] = "gather" /\ IsNode(head)
  /\ ~isLeaf(Head(todo))
  /\ todo' = Node(Head(todo)).next \o Tail(todo)
  /\ UNCHANGED <<allLockVars, treeVars, sizeVars, call, pc, walkVars, countVars,
                 v, c, parts, span>>

(* The treelet whose items are to be taken: the root, or root->next[c]     *)
victim == IF IsNode(head) THEN Node(Head(todo)).next[c] ELSE head

(* Mutant: the change does not wait for the treelet's lock.                *)
GatherAnyway(t) ==
  /\ pc[t] = "gather" /\ (IsNode(head) => isLeaf(Head(todo)))
  /\ cur' = [cur EXCEPT ![t] = victim]
  /\ to(t, "take")
  /\ UNCHANGED <<allLockVars, treeVars, sizeVars, call, side, countVars,
                 changeVars>>

GatherAcquire(t) ==
  /\ pc[t] = "gather" /\ (IsNode(head) => isLeaf(Head(todo)))
  /\ acquire(t, victim)
  /\ cur' = [cur EXCEPT ![t] = victim]
  /\ to(t, "take")
  /\ UNCHANGED <<allLockVars, head, nodes, sizeVars, call, side, countVars,
                 changeVars>>

(* consolidateRoot: addItems, a new root over two treelets, head = newroot *)
NewRoot(t) ==
  LET items == InOrder(trees[head].items)
      root == bigNode(items, 0, Len(items))
  IN /\ pc[t] = "take" /\ ~IsNode(head)
     /\ changeLayout(t)
     /\ nodes' = Append(nodes, root)
     /\ trees' = trees \o bigNodeTrees(items, 0, Len(items))
     /\ head' = -(Len(nodes) + 1)
     /\ span' = withNode(Key, root)
     /\ to(t, "freeroot")
     /\ UNCHANGED <<calls, sizeVars, call, walkVars, countVars, v, c, todo, parts>>

(* gatherAll: addItems, root->next[c] = &NULL_TREE                         *)
GatherTake(t) ==
  /\ pc[t] = "take" /\ IsNode(head)
  /\ changeLayout(t)
  /\ v' = v \o InOrder(trees[cur[t]].items)
  /\ nodes' = [nodes EXCEPT ![-Head(todo)].next[c] = NULL_TREE]
  /\ c' = nextChild
  /\ todo' = IF c = 2 THEN Tail(todo) ELSE todo
  /\ to(t, "free")
  /\ UNCHANGED <<calls, head, trees, sizeVars, call, walkVars, countVars, parts,
                 span>>

(* free_treelet: destroy leaves key_ as it is; then the lock is released.  *)
destroyed(t) ==
  LET items == trees[cur[t]].items IN
  /\ \E left \in IF items = {} THEN {{}} ELSE {{k} : k \in items} :
       trees' = [trees EXCEPT ![cur[t]] = Treelet(left)]
  /\ cur' = [cur EXCEPT ![t] = 0]

FreeRoot(t) ==
  /\ pc[t] = "freeroot"
  /\ destroyed(t)
  /\ to(t, "finish")
  /\ UNCHANGED <<allLockVars, head, nodes, sizeVars, call, side, countVars,
                 changeVars>>

(* After the last treelet buildFromV is called for the root; the backbone  *)
(* below it leads nowhere until it has been built.                         *)
FreeTreelet(t) ==
  /\ pc[t] = "free"
  /\ destroyed(t)
  /\ IF todo = <<>>
     THEN /\ parts' = <<[node |-> head, first |-> 0, len |-> Len(v)]>>
          /\ span' = [r \in {head} \cup 1 .. Len(trees) |-> span[r]]
          /\ to(t, "build")
     ELSE to(t, "gather") /\ UNCHANGED <<parts, span>>
  /\ UNCHANGED <<allLockVars, head, nodes, sizeVars, call, side, countVars, v, c,
                 todo>>

(* The calls buildFromV makes for the children of a node                   *)
childParts(p) ==
  [i \in 1 .. 2 |-> [node |-> Node(p.node).next[i],
                     first |-> childFirst(p.first, p.len, i),
                     len |-> childLen(p.first, p.len, i)]]

(* buildFromV: the node's key, and on to its children ...                  *)
BuildKey(t) ==
  LET p == Head(parts)
      key == bigNodeKey(v, p.first, p.len)
      next == Node(p.node).next
  IN /\ pc[t] = "build"
     /\ changeLayout(t)
     /\ nodes' = [nodes EXCEPT ![-p.node].key = key]
     /\ IF isLeaf(p.node)
        THEN to(t, "expand") /\ UNCHANGED <<parts, span>>
        ELSE /\ parts' = childParts(p) \o Tail(parts)
             /\ span' = [r \in DOMAIN span \cup {next[1], next[2]} |->
                           IF r \in {next[1], next[2]}
                           THEN sent(span[p.node], key, IF r = next[1] THEN 1 ELSE 2)
                           ELSE span[r]]
             /\ UNCHANGED pc
     /\ UNCHANGED <<calls, head, trees, sizeVars, call, walkVars, countVars, v, c,
                    todo>>

(* ... which, where they are treelets, become nodes over new treelets:     *)
(* expandLeafBigNode.                                                      *)
expandLeafBigNode(t) ==
  LET p == Head(parts)
      first == childFirst(p.first, p.len, c)
      len == childLen(p.first, p.len, c)
      child == bigNode(v, first, len)
      rest == IF c = 2 THEN Tail(parts) ELSE parts
  IN /\ pc[t] = "expand"
     /\ changeLayout(t)
     /\ trees' = trees \o bigNodeTrees(v, first, len)
     /\ nodes' = Append([nodes EXCEPT ![-p.node].next[c] = -(Len(nodes) + 1)], child)
     /\ span' = withNode(sent(span[p.node], Node(p.node).key, c), child)
     /\ c' = nextChild
     /\ parts' = rest
     /\ v' = IF rest = <<>> THEN <<>> ELSE v
     /\ to(t, IF rest = <<>> THEN "finish" ELSE IF c = 2 THEN "build" ELSE "expand")
     /\ UNCHANGED <<calls, head, sizeVars, call, walkVars, countVars, todo>>

FinishChange(t) ==
  /\ pc[t] = "finish"
  /\ finishLayoutChange(t)
  /\ to(t, "counted")
  /\ UNCHANGED <<calls, treeVars, sizeVars, call, walkVars, countVars,
                 changeVars>>

-----------------------------------------------------------------------------
(* A thread inside the lock's code                                         *)
LockStep(t) ==
  /\ resetDirty(t) \/ write_lock(t) \/ MarkDirty(t) \/ write_unlock(t)
  /\ UNCHANGED <<calls, treeVars, sizeVars, call, pc, walkVars, countVars,
                 changeVars>>

Step(t) ==
  \/ LockStep(t)
  \/ LoadHead(t) \/ LoadKey(t) \/ LoadNext(t) \/ Acquire(t) \/ Check(t)
  \/ GiveUp(t) \/ Apply(t)
  \/ FlushCount(t) \/ LoadLimit(t) \/ CheckLimit(t) \/ Decide(t)
  \/ ResetCount(t) \/ Return(t)
  \/ StartChange(t) \/ GiveUpChange(t) \/ enlarge_tree(t) \/ shrink_tree(t)
  \/ GatherChildren(t) \/ GatherAcquire(t) \/ NewRoot(t) \/ GatherTake(t)
  \/ FreeRoot(t) \/ FreeTreelet(t) \/ BuildKey(t) \/ expandLeafBigNode(t)
  \/ FinishChange(t)

Next ==
  \E t \in Thread :
    \/ \E op \in {"search", "insert", "remove"}, k \in Key : Invoke(t, op, k)
    \/ Step(t)

Spec == Init /\ [][Next]_vars

(* Threads inside a call keep running, and a layout change that spins on a *)
(* treelet's lock finds it free in the end, although readers that must try *)
(* again take and release it all the time (tatas_acquire backs off).       *)
FairSpec ==
  Spec /\ \A t \in Thread : WF_vars(Step(t)) /\ SF_vars(GatherAcquire(t))

-----------------------------------------------------------------------------
(* Properties                                                              *)

Ref == 1 .. Len(trees) \cup {-n : n \in 1 .. Len(nodes)}

Before == {"start", "walk", "next", "check", "giveup", "apply"}
Owning == {"gather", "take", "free", "freeroot", "build", "expand", "finish"}
Place == Before \cup Owning \cup
           {"idle", "flush", "limit", "limitcheck", "decide", "counted", "return",
            "change", "owner", "stuck"}

(* References lead to allocated nodes and treelets, locks belong to        *)
(* threads, and every variable stays in its domain.                        *)
TreeTypeOK ==
  /\ LockTypeOK
  /\ head \in Ref \ {NULL_TREE}
  /\ nodes \in Seq([key : Key \cup {0}, next : [1 .. 2 -> Ref]])
  /\ trees \in Seq([lock : Thread \cup {0}, items : SUBSET Key])
  /\ pc \in [Thread -> Place]
  /\ call \in [Thread -> [op : {"search", "insert", "remove"}, key : Key,
                          res : {"none", "true", "false"}] \cup {Idle}]
  /\ cur \in [Thread -> Ref \cup {0}] /\ side \in [Thread -> 1 .. 2]
  /\ heuristic \in [Thread -> Int]
  /\ sz \in [Thread -> Int] /\ limit \in [Thread -> Int]
  /\ {fuzzySize, enlargeWhen, shrinkWhen, backboneSize} \subseteq Int
  /\ v \in Seq(Key) /\ c \in 1 .. 2 /\ todo \in Seq(Ref)
  /\ parts \in Seq([node : Ref, first : Nat, len : Nat])

(* Some node or head leads to r.                                           *)
Linked(r) ==
  r = head \/ \E n \in 1 .. Len(nodes), i \in 1 .. 2 : nodes[n].next[i] = r

(* The keys of the tree: those in linked treelets, and those a change has  *)
(* gathered.                                                               *)
Contents ==
  (UNION {trees[r].items : r \in {q \in 1 .. Len(trees) : Linked(q)}})
    \cup {v[j] : j \in 1 .. Len(v)}

(* backboneGetTreelet, with no change under way                            *)
backboneGetTreelet(k) ==
  LET down(r) == IF IsNode(r) THEN Node(r).next[asmsearch(k, Node(r))] ELSE r
      walk[d \in 0 .. Len(nodes)] == IF d = 0 THEN head ELSE down(walk[d - 1])
  IN walk[Len(nodes)]

(* Whenever nobody owns the layout, the backbone leads to the one treelet  *)
(* that holds a key: splitting v at the keys of the new nodes, and inserts *)
(* that found their treelet before the change, never misplace one.         *)
Routed ==
  (\A t \in Thread : lpc[t] # "change") =>
    \A k \in Contents : k \in trees[backboneGetTreelet(k)].items

(* search, insert and remove are calls of one set of keys: each takes      *)
(* effect once, its result is right at that moment, and no layout change   *)
(* loses a key or brings one back.                                         *)
Set == INSTANCE KeySet WITH Caller <- Thread, KeyDomain <- Key, keys <- Contents
IsKeySet == Set!KeySetSpec


-----------------------------------------------------------------------------
(* The inductive invariant behind the proofs (module LayoutTreeProofs)     *)

Failing == {"reset", "clear", "recheck", "redirty", "failed"}

(* Where a thread is in the lock's code follows from where it is in the    *)
(* tree's.                                                                 *)
ControlInv(t) ==
  /\ pc[t] \in {"idle", "flush", "return", "change"} => lpc[t] = "out"
  /\ pc[t] = "start" => lpc[t] \in {"out", "failed"}
  /\ pc[t] \in {"walk", "next", "check", "limitcheck"} => lpc[t] = "read"
  /\ pc[t] \in {"apply", "decide"} => lpc[t] = "valid"
  /\ pc[t] = "giveup" => lpc[t] \in Failing
  /\ pc[t] = "limit" => lpc[t] \in {"out"} \cup Failing
  /\ pc[t] = "owner" => lpc[t] \in {"wlock", "mark", "change"}
  /\ pc[t] \in Owning \cup {"stuck"} => lpc[t] = "change"
  /\ pc[t] = "counted" => lpc[t] \in {"wunlock", "out"}

(* A call has its result from the moment it was applied.                   *)
CallInv(t) ==
  /\ pc[t] = "idle" => call[t] = Idle
  /\ pc[t] # "idle" => call[t] # Idle
  /\ pc[t] \in Before => call[t].res = "none"
  /\ pc[t] \notin Before \cup {"idle"} => call[t].res # "none"

(* The keys of r's span that go to its child i                             *)
childSpan(r, i) == sent(span[r], Node(r).key, i)

(* The thread's walk is on its way to the treelet of its key, unless a     *)
(* change has come in between; then it has the flag that will tell it.     *)
WalkInv(t) ==
  /\ pc[t] \in {"walk", "next"} => cur[t] \in Ref
  /\ pc[t] = "next" => cur[t] < 0
  /\ pc[t] \in {"check", "giveup", "apply", "take", "free", "freeroot"} =>
       cur[t] \in 1 .. Len(trees) /\ trees[cur[t]].lock = t
  /\ (pc[t] \in {"walk", "next", "check"} /\ ~stale[t]) \/ pc[t] = "apply" =>
       /\ cur[t] \in DOMAIN span /\ call[t].key \in span[cur[t]]
       /\ Linked(cur[t])
       /\ pc[t] = "next" => call[t].key \in childSpan(cur[t], side[t])
  /\ pc[t] \in {"free", "freeroot"} => cur[t] = NULL_TREE \/ ~Linked(cur[t])
  /\ pc[t] \in Owning => \A u \in Thread : lpc[u] = "read" => stale[u]

(* Nodes are allocated after their parent, and are their only child.       *)
ShapeInv ==
  /\ \A n \in 1 .. Len(nodes), i \in 1 .. 2 :
       nodes[n].next[i] # head /\ (nodes[n].next[i] < 0 => nodes[n].next[i] < -n)
  /\ \A n, m \in 1 .. Len(nodes), i, j \in 1 .. 2 :
       nodes[n].next[i] = nodes[m].next[j] /\ nodes[n].next[i] # NULL_TREE =>
         n = m /\ i = j

(* A treelet holds keys of its span only; no two treelets share one.       *)
SpanInv ==
  /\ {head, NULL_TREE} \cup 1 .. Len(trees) \subseteq DOMAIN span
  /\ DOMAIN span \subseteq Ref
  /\ span[head] = Key /\ span[NULL_TREE] = {}
  /\ \A r \in DOMAIN span : span[r] \subseteq Key
  /\ \A r \in 1 .. Len(trees) :
       trees[r].items \subseteq span[r] /\ IsFiniteSet(trees[r].items)
  /\ \A q, r \in 1 .. Len(trees) :
       Linked(q) /\ Linked(r) /\ q # r => span[q] \cap span[r] = {}

(* The nodes a change has to visit, and the keys it expects below each     *)
pending == IF parts = <<>> THEN todo ELSE [i \in 1 .. Len(parts) |-> parts[i].node]

rest(i) == IF i = 1 /\ c = 2 THEN childSpan(pending[1], 2) ELSE span[pending[i]]

(* Child i of node r is where it will be when the change is over.          *)
Settled(r, i) ==
  /\ r \in DOMAIN span
  /\ \A j \in 1 .. Len(parts) : parts[j].node = r => j = 1 /\ i < c

LinkInv ==
  \A n \in 1 .. Len(nodes) :
    /\ \A i \in 1 .. 2 :
         LET r == nodes[n].next[i] IN
         IF Settled(-n, i)
         THEN r # NULL_TREE => r \in DOMAIN span /\ span[r] = childSpan(-n, i)
         ELSE IF r < 0 THEN r \notin DOMAIN span ELSE span[r] = {}
    /\ \/ IsNode(nodes[n].next[1]) = IsNode(nodes[n].next[2])
       \/ parts # <<>> /\ c = 2 /\ n = -parts[1].node

Increasing(s) == \A i, j \in 1 .. Len(s) : i < j => s[i] < s[j]

(* What gatherAll has not visited lies above what it has gathered, and     *)
(* holds everything else.                                                  *)
GatherInv ==
  /\ parts = <<>>
  /\ \A i \in 1 .. Len(todo) : todo[i] < 0 /\ todo[i] \in DOMAIN span
  /\ c = 2 => todo # <<>> /\ isLeaf(todo[1])
  /\ \A i, j \in 1 .. Len(todo) : i < j =>
       \A k \in rest(i), l \in rest(j) : k < l
  /\ \A h \in 1 .. Len(v), i \in 1 .. Len(todo) : \A l \in rest(i) : v[h] < l
  /\ \A r \in 1 .. Len(trees) : Linked(r) =>
       \A k \in span[r] : \E i \in 1 .. Len(todo) : k \in rest(i)
  /\ \A n \in 1 .. Len(nodes), i \in 1 .. 2 :
       -n \in DOMAIN span /\ nodes[n].next[i] = NULL_TREE =>
         \A j \in 1 .. Len(todo) : childSpan(-n, i) \cap rest(j) = {}

(* A call of buildFromV has just the part of v that leads to its node.     *)
PartInv(p) ==
  /\ p.node < 0 /\ p.node \in DOMAIN span
  /\ p.first + p.len <= Len(v)
  /\ \A j \in 1 .. Len(v) :
       v[j] \in span[p.node] <=> p.first < j /\ j <= p.first + p.len

(* What is not in the part of such a call is in the new treelets.          *)
BuildInv ==
  /\ todo = <<>> /\ parts # <<>>
  /\ \A i \in 1 .. Len(parts) : PartInv(parts[i])
  /\ \A i, j \in 1 .. Len(parts) : i # j =>
       parts[i].node # parts[j].node /\ rest(i) \cap rest(j) = {}
  /\ \A t \in Thread : pc[t] # "apply"
  /\ \A r \in 1 .. Len(trees) : Linked(r) =>
       /\ \A i \in 1 .. Len(parts) : span[r] \cap rest(i) = {}
       /\ \A k \in trees[r].items : \E j \in 1 .. Len(v) : v[j] = k
  /\ \A j \in 1 .. Len(v) :
       \/ \E i \in 1 .. Len(parts) : v[j] \in rest(i)
       \/ \E r \in 1 .. Len(trees) : Linked(r) /\ v[j] \in trees[r].items

(* A slot without a treelet is one no key leads to.                        *)
NoGap ==
  \A n \in 1 .. Len(nodes), i \in 1 .. 2 :
    Settled(-n, i) /\ nodes[n].next[i] = NULL_TREE => childSpan(-n, i) = {}

(* The node whose children become nodes, the first one first, has its new  *)
(* key.                                                                    *)
ExpandInv ==
  LET p == parts[1] IN
  /\ Node(p.node).key = bigNodeKey(v, p.first, p.len)
  /\ ~IsNode(Node(p.node).next[2])
  /\ isLeaf(p.node) <=> c = 1

OwnerInv(t) ==
  /\ pc[t] \in {"gather", "take", "free"} /\ IsNode(head) => GatherInv
  /\ pc[t] \in {"build", "expand"} => BuildInv
  /\ pc[t] \in {"gather", "take"} /\ IsNode(head) => todo # <<>>
  /\ pc[t] = "take" => cur[t] = victim /\ (IsNode(head) => isLeaf(todo[1]))
  /\ pc[t] = "free" => IsNode(head)
  /\ pc[t] = "build" => c = 1
  /\ pc[t] = "expand" => ExpandInv

Gathering ==
  IsNode(head) /\ \E t \in Thread : pc[t] \in {"gather", "take", "free"}
Building == \E t \in Thread : pc[t] \in {"build", "expand"}

(* What gatherAll and buildFromV use is not in use otherwise.              *)
RestInv ==
  /\ ~Gathering => todo = <<>> /\ NoGap
  /\ ~Building => parts = <<>>
  /\ ~Gathering /\ ~Building => v = <<>> /\ c = 1

ChangeInv == Increasing(v) /\ (\A t \in Thread : OwnerInv(t)) /\ RestInv

(* Readers rely on the spans only while the layout is at rest; the owner   *)
(* of a change restores them before it lets go.                            *)
TreeInv ==
  /\ TreeTypeOK
  /\ \A t \in Thread : ControlInv(t) /\ CallInv(t) /\ WalkInv(t)
  /\ ShapeInv /\ SpanInv /\ LinkInv /\ ChangeInv

=============================================================================
