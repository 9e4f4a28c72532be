--------------------------- MODULE MCTransaction ---------------------------
(* Instances of Transaction: two threads, two items.                       *)
EXTENDS Transaction, TLC

CONSTANTS t1, t2, x, y

(* Every transaction may read and write every item.                        *)
ReadAll == [t \in Thread |-> Item]
WriteAll == [t \in Thread |-> Item]
QuotaOneOne == [t \in Thread |-> 1]
QuotaFourOne == [t \in Thread |-> IF t = t1 THEN 4 ELSE 1]
ReadNone == [t \in Thread |-> {}]
WriteByOne == [t \in Thread |-> IF t = t1 THEN Item ELSE {}]
(* t1 reads x only, so that its second transaction stays affordable.      *)
ReadXByOne == [t \in Thread |-> IF t = t1 THEN {x} ELSE Item]
QuotaTwoOne == [t \in Thread |-> IF t = t1 THEN 2 ELSE 1]

ItemSymmetry == Permutations(Item)
=============================================================================
