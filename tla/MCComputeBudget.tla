--------------------------- MODULE MCComputeBudget ---------------------------
(* Small instances of ComputeBudget.  Owner o1 asks for one unit, the      *)
(* others for two; o1 belongs to the first cycle, o2 and o3 to the cycle   *)
(* McCycle2.                                                               *)
EXTENDS ComputeBudget

CONSTANTS o1, o2, o3, McCycle2

McEst == [o \in Owners |-> IF o = o1 THEN 1 ELSE 2]
McCycleOf == [o \in Owners |-> IF o = o1 THEN 1 ELSE McCycle2]

=============================================================================
