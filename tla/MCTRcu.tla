------------------------------- MODULE MCTRcu -------------------------------
(* Instances of TRcu                                                       *)
EXTENDS TRcu, TLC

CONSTANTS o1, o2, o3, o4
ObjSymmetry == Permutations(Obj)
=============================================================================
