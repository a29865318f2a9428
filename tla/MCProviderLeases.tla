-------------------------- MODULE MCProviderLeases --------------------------
(* Callers, processes and domains of the TLC runs of ProviderLeases.       *)
EXTENDS ProviderLeases, TLC

CONSTANTS a, b, p, q

TwoCallers == {a, b}
TwoProcesses == {p, q}
ProcessOfTwo == (a :> p) @@ (b :> q)
SameProcess == [t \in Callers |-> p]

OneDomain == {1}
TwoDomains == {1, 2}
AllWantOne == [t \in Callers |-> {1}]
AllWantBoth == [t \in Callers |-> {1, 2}]

OneEach == [d \in Domains |-> 1]
TwoEach == [d \in Domains |-> 2]
OffsetByProcess ==
    [r \in Processes |-> [d \in Domains |-> IF r = p THEN 0 ELSE 1]]
SecondAhead == [r \in Processes |-> IF r = p THEN 0 ELSE Skew]

=============================================================================
