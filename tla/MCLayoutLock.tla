---------------------------- MODULE MCLayoutLock ----------------------------
(* Instances of LayoutLock                                                 *)
EXTENDS LayoutLock

TwoEach == [t \in Thread |-> 2]
=============================================================================
