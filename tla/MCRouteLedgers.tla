--------------------------- MODULE MCRouteLedgers ---------------------------
(* Jobs and routes of the TLC runs of RouteLedgers.                        *)
EXTENDS RouteLedgers, TLC

CONSTANTS i, j, r1, r2

TwoJobs == {i, j}
OneRoute == {r1}
TwoRoutes == {r1, r2}

JobSymmetry == Permutations(Jobs)

=============================================================================
