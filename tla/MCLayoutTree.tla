---------------------------- MODULE MCLayoutTree ----------------------------
(* Instances of LayoutTree                                                 *)
EXTENDS LayoutTree

TwoEach == [t \in Thread |-> 2]

(* Three keys to insert, one after the other or at the same time, so that  *)
(* the backbone becomes three nodes deep, and the other calls beside them  *)
InsertAndMix ==
  {<<1, "insert", 1>>, <<1, "insert", 3>>}
    \cup {<<2, "insert", 2>>, <<2, "remove", 1>>, <<2, "search", 3>>}
=============================================================================
