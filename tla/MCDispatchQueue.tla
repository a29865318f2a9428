-------------------------- MODULE MCDispatchQueue --------------------------
(* Clients, recipes and pools of the TLC runs of DispatchQueue.            *)
EXTENDS DispatchQueue, TLC

Pools ==
    Permutations(Ids) \cup Permutations(Bundles) \cup Permutations(Clients)
        \cup Permutations(Digests)

(* Safety is checked while faults go on: calm only takes steps away.       *)
Troubled == Init /\ [][Steps]_vars

=============================================================================
