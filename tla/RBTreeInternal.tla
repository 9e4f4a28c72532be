--------------------------- MODULE RBTreeInternal ---------------------------
(***************************************************************************)
(* The red-black tree of RBTreeInternal.hh.  Nodes are 1, 2, ...; a        *)
(* pointer to a node carries its colour, so a node's colour is kept by its *)
(* parent and the root, which root_ points to, is black.                   *)
(*                                                                         *)
(* t: root_, limit_, and of each node the key and its rblinks_ p_ and c_.  *)
(***************************************************************************)
EXTENDS Integers, Sequences

Null == 0

rbnodeptr(n, red) == [n |-> n, red |-> red]

nullptr == rbnodeptr(Null, FALSE)

Black(n) == rbnodeptr(n, FALSE)

change_color(x, red) == [x EXCEPT !.red = red]

reverse_color(x) == [x EXCEPT !.red = ~@]

(* The sides left, 0, and right, 1.                                        *)
Sides == 0 .. 1

Other(side) == 1 - side

child(t, x, side) == t.c[x.n][side]

HasRedChild(t, x) == \E side \in Sides : child(t, x, side).red

find_child(t, x, n) == IF x # nullptr /\ child(t, x, 1).n = n THEN 1 ELSE 0

black_parent(t, x) == Black(t.p[x.n])

load_color(t, x) ==
  IF /\ x # nullptr
     /\ black_parent(t, x) # nullptr
     /\ child(t, black_parent(t, x), find_child(t, black_parent(t, x), x.n)).red
  THEN change_color(x, TRUE) ELSE x

SetLink(t, x, side, y) == [t EXCEPT !.c[x.n][side] = y]

set_child(t, x, side, y) ==
  IF x # nullptr THEN SetLink(t, x, side, y) ELSE [t EXCEPT !.root = y.n]

set_parent(t, x, n) == IF x # nullptr THEN [t EXCEPT !.p[x.n] = n] ELSE t

-----------------------------------------------------------------------------
(* rotate(side) brings the other child of x up: what it does to the tree,  *)
(* and the pointer it returns.                                             *)
rotate(t, x, side) ==
  LET Up(y) == [set_parent(SetLink(t, x, Other(side), child(t, y, side)), child(t, y, side), x.n)
                  EXCEPT !.c[y.n][side] = change_color(x, TRUE),
                         !.p[y.n] = t.p[x.n], !.p[x.n] = y.n]
  IN Up(child(t, x, Other(side)))

Rotated(t, x, side) == change_color(child(t, x, Other(side)), x.red)

(* q.set_child(qside, x.rotate(side), root_)                               *)
RotateUnder(t, q, qside, x, side) ==
  set_child(rotate(t, x, side), q, qside, Rotated(t, x, side))

flip(t, x) == [t EXCEPT !.c[x.n] = [side \in Sides |-> reverse_color(@[side])]]

-----------------------------------------------------------------------------
(* Insertion of node x at that side of p.                                  *)

(* The tree with the red node x in place, before anything is balanced.     *)
Linked(t, x, p, side) ==
  LET New == [t EXCEPT !.p[x] = p.n, !.c[x] = [s \in Sides |-> nullptr]] IN
  IF p = nullptr THEN [New EXCEPT !.root = x, !.limit = [s \in Sides |-> x]]
  ELSE [SetLink(New, p, side, rbnodeptr(x, TRUE))
          EXCEPT !.limit[side] = IF @ = p.n THEN x ELSE @]

(* Both children of gp are red: it becomes red, and its parent q may be    *)
(* red too.                                                                *)
FlipUnder(t, gp, q) == set_child(flip(t, gp), q, find_child(t, q, gp.n), reverse_color(gp))

(* p, below gp, is red and its sibling is not: one rotation or two.        *)
Straighten(t, gp, gpside, p, side) ==
  IF gpside # side THEN RotateUnder(t, gp, gpside, p, gpside) ELSE t

RotateUp(t, gp, gpside) ==
  RotateUnder(t, black_parent(t, gp), find_child(t, black_parent(t, gp), gp.n), gp, Other(gpside))

RECURSIVE flip_up(_, _, _)
flip_up(t, p, side) ==
  LET gp == black_parent(t, p)
      gpside == find_child(t, gp, p.n)
      q == load_color(t, black_parent(t, gp))
  IN IF ~p.red THEN t
     ELSE IF child(t, gp, 0).red /\ child(t, gp, 1).red
     THEN flip_up(FlipUnder(t, gp, q), q, find_child(t, q, gp.n))
     ELSE RotateUp(Straighten(t, gp, gpside, p, side), gp, gpside)

insert_commit(t, x, p, side) == flip_up(Linked(t, x, p, side), p, side)

-----------------------------------------------------------------------------
(* Lookup: n the node of key k, or null; p its parent; the boundary nodes  *)
(* lhs and rhs, narrowed down from the limits on the way.                  *)
RECURSIVE Descend(_, _, _)
Descend(t, k, at) ==
  LET x == at.n.n
      side == IF k > t.key[x] THEN 1 ELSE 0
      down == [at EXCEPT !.p = at.n, !.n = child(t, at.n, side)]
  IN IF x = Null \/ t.key[x] = k THEN at
     ELSE Descend(t, k, IF side = 1 THEN [down EXCEPT !.lhs = x] ELSE [down EXCEPT !.rhs = x])

find_any(t, k) ==
  Descend(t, k, [n |-> Black(t.root), p |-> nullptr, lhs |-> t.limit[0], rhs |-> t.limit[1]])

found(at) == at.n.n # Null

(* find_insert: the new node x goes where the lookup at ended.             *)
find_insert(t, x, at) ==
  insert_commit(t, x, at.p, IF at.p # nullptr /\ t.key[x] > t.key[at.p.n] THEN 1 ELSE 0)

-----------------------------------------------------------------------------
RECURSIVE edge_node(_, _, _)
edge_node(t, x, side) ==
  IF x = nullptr \/ child(t, x, side) = nullptr THEN x ELSE edge_node(t, child(t, x, side), side)

(* A node with two children first changes places with its successor s,     *)
(* below which it is then, at that side of p.                              *)
Swapped(t, v, s, sside) ==
  LET p == Black(t.p[v])
      over == IF p = nullptr THEN [t EXCEPT !.root = s]
              ELSE [t EXCEPT !.c[p.n][find_child(t, p, v)].n = s]
      links == [over EXCEPT !.p[s] = over.p[v], !.p[v] = over.p[s],
                            !.c[s] = over.c[v], !.c[v] = over.c[s]]
      Below(u) == [u EXCEPT !.p[u.c[s][0].n] = s, !.p[u.c[s][1].n] = s]
  IN Below(IF sside = 1 THEN [links EXCEPT !.c[s][1].n = v] ELSE links)

(* delete_node_fixup: that side of p is one black node short.              *)
RECURSIVE Short(_, _, _)
Short(t, p, side) ==
  IF /\ p # nullptr
     /\ ~HasRedChild(t, p)
     /\ ~HasRedChild(t, child(t, p, Other(side)))
  THEN Short(SetLink(t, p, Other(side), change_color(child(t, p, Other(side)), TRUE)),
             black_parent(t, p), find_child(t, black_parent(t, p), p.n))
  ELSE [t |-> t, p |-> p, side |-> side]

(* The sibling w is black; gp is the parent of p.                          *)
Blacken(t, x) ==
  [t EXCEPT !.c[x.n] = [s \in Sides |-> change_color(@[s], FALSE)]]

(* Mutant: a red child of w on the near side is not brought out first.     *)
Borrow_near(t, gp, p, side) ==
  LET w == child(t, p, Other(side))
      at == find_child(t, gp, p.n)
      colored == IF gp # nullptr THEN child(t, gp, at) ELSE p
  IN IF ~HasRedChild(t, w)
     THEN set_child(SetLink(t, p, Other(side), change_color(w, TRUE)), gp, at, change_color(p, FALSE))
     ELSE Blacken(RotateUnder(t, gp, at, colored, side), Rotated(t, colored, side))

Borrow(t, gp, p, side) ==
  LET w == child(t, p, Other(side))
      near == IF child(t, w, Other(side)).red THEN t
              ELSE RotateUnder(t, p, Other(side), w, Other(side))
      at == find_child(t, gp, p.n)
      colored == IF gp # nullptr THEN child(t, gp, at) ELSE p
  IN IF ~HasRedChild(t, w)
     THEN set_child(SetLink(t, p, Other(side), change_color(w, TRUE)), gp, at, change_color(p, FALSE))
     ELSE Blacken(RotateUnder(near, gp, at, colored, side), Rotated(near, colored, side))

Fixed(t, p, side) ==
  LET gp == black_parent(t, p)
      turned == RotateUnder(t, gp, find_child(t, gp, p.n), p, side)
  IN IF p = nullptr THEN t
     ELSE IF child(t, p, side).red
     THEN SetLink(t, p, side, change_color(child(t, p, side), FALSE))
     ELSE IF child(t, p, Other(side)).red
     THEN Borrow(turned, black_parent(turned, p), p, side)
     ELSE Borrow(t, gp, p, side)

delete_node_fixup(t, p, side) ==
  LET Fix(s) == Fixed(s.t, s.p, s.side) IN Fix(Short(t, p, side))

(* The victim v, at that side of p, has at most one child: x takes its     *)
(* place.                                                                  *)
Limits(t, v, b) ==
  [t EXCEPT !.limit = [i \in Sides |-> IF @[i] = v THEN edge_node(t, b, i).n ELSE @[i]]]

Spliced(t, v, p, side, x) ==
  Limits(set_parent(set_child(t, p, side, x), x, p.n), v, IF x # nullptr THEN x ELSE p)

SpliceOut(t, v, p, side) ==
  LET x == child(t, Black(v), IF child(t, Black(v), 0) = nullptr THEN 1 ELSE 0)
      red == p # nullptr /\ child(t, p, side).red
  IN IF red THEN Spliced(t, v, p, side, x)
     ELSE delete_node_fixup(Spliced(t, v, p, side, x), p, side)

delete_node(t, v) ==
  LET succ == edge_node(t, child(t, Black(v), 1), 0).n
      sside == IF t.p[succ] = v THEN 1 ELSE 0
      p == Black(t.p[v])
      Splice(u, s) == SpliceOut(u, v, Black(u.p[v]), s)
  IN IF \E side \in Sides : child(t, Black(v), side) = nullptr
     THEN SpliceOut(t, v, p, find_child(t, p, v))
     ELSE Splice(Swapped(t, v, succ, sside), sside)

-----------------------------------------------------------------------------
Empty == [root |-> Null, limit |-> [s \in Sides |-> Null], key |-> <<>>, p |-> <<>>, c |-> <<>>]

(* A node for key k, in no tree yet.                                       *)
WithNode(t, k) ==
  [t EXCEPT !.key = Append(@, k), !.p = Append(@, Null),
            !.c = Append(@, [s \in Sides |-> nullptr])]

(* rbtree::insert(x) of a node that exists, erase(x).                      *)
insert(t, x) == find_insert(t, x, find_any(t, t.key[x]))

erase(t, x) == delete_node(t, x)

(* The nodes below x, in order; size() counts them.                        *)
RECURSIVE InOrder(_, _)
InOrder(t, x) ==
  IF x = nullptr THEN <<>>
  ELSE InOrder(t, child(t, x, 0)) \o <<x.n>> \o InOrder(t, child(t, x, 1))

Nodes(t) == InOrder(t, Black(t.root))

size(t) == Len(Nodes(t))

(* check() at the node x below n.  Heights: the black nodes on the way from *)
(* x to each place where a child is missing.                               *)
RECURSIVE Heights(_, _)
Heights(t, x) ==
  IF x = nullptr THEN {0}
  ELSE {h + (IF x.red THEN 0 ELSE 1) : h \in UNION {Heights(t, child(t, x, s)) : s \in Sides}}

RECURSIVE WellFormed(_, _, _)
WellFormed(t, x, parent) ==
  x # nullptr =>
    /\ t.p[x.n] = parent
    /\ x.red => ~HasRedChild(t, x)
    /\ \A s \in Sides :
         /\ child(t, x, s) # nullptr =>
              IF s = 0 THEN t.key[child(t, x, s).n] < t.key[x.n]
                       ELSE t.key[child(t, x, s).n] > t.key[x.n]
         /\ WellFormed(t, child(t, x, s), x.n)

check(t) ==
  /\ WellFormed(t, Black(t.root), Null)
  /\ \A h, i \in Heights(t, Black(t.root)) : h = i
  /\ \A s \in Sides : t.limit[s] = edge_node(t, Black(t.root), s).n
=============================================================================
