---------------------------- MODULE MCWorkLeases ----------------------------
(* Small instances of WorkLeases.  Worker w1 runs recipe r1; w2 runs the   *)
(* recipe McRecipe2 names, so a run can model a recipe bump.               *)
EXTENDS WorkLeases, TLC

CONSTANTS w1, w2, r1, r2, i1, i2, McRecipe2, McOffset2

McRecipeOf == [w \in Workers |-> IF w = w1 THEN r1 ELSE McRecipe2]
McOffset == [w \in Workers |-> IF w = w1 THEN 0 ELSE McOffset2]
McBucketOf == [i \in Items |-> IF i = i1 THEN 0 ELSE BucketCount - 1]

=============================================================================
