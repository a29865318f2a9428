----------------------------- MODULE BudgetLedger -----------------------------
(***************************************************************************)
(* One backend's ledger of citypods/compute/budget.py (BackendLedger) and  *)
(* what the methods of Budget make of it.  Money is counted in natural     *)
(* units; the month marker and the learned runtime estimates, which no     *)
(* admission decision reads, are left out.  An owner always reserves the   *)
(* same estimate, so inflight is the set of owners.                        *)
(***************************************************************************)
EXTENDS Integers, FiniteSets

CONSTANTS
    Owners,       \* claim owners "<backend>:<run>:<n>", one reservation each
    Est,          \* the estimate each owner reserves
    Cap,          \* spendable_dollars of the backend's policy
    MaxInflight,  \* max_inflight of the backend's policy
    NoCycle       \* the blank cycle_key of a ledger never touched

ASSUME BudgetAssumption ==
    /\ IsFiniteSet(Owners)
    /\ Est \in [Owners -> Nat]
    /\ Cap \in Nat /\ MaxInflight \in Nat

Ledgers(Cycles) ==
    [used : Nat, inflight : SUBSET Owners, cycle : Cycles \cup {NoCycle}]

MkLedger(used, inflight, cycle) ==
    [used |-> used, inflight |-> inflight, cycle |-> cycle]

EmptyLedger == MkLedger(0, {}, NoCycle)

(* Mutant: every ledger is taken for another cycle's.                      *)
RolledAlways(l, cycle) == MkLedger(0, {}, cycle)

(* _ledger: another cycle's ledger, older or newer, is zeroed.             *)
Rolled(l, cycle) == IF l.cycle = cycle THEN l ELSE MkLedger(0, {}, cycle)

Available(l, o) ==
    /\ l.used + Est[o] <= Cap
    /\ Cardinality(l.inflight) < MaxInflight

Reserved(l, o) == MkLedger(l.used + Est[o], l.inflight \cup {o}, l.cycle)

(* max(0, used - estimate + charge).                                       *)
Recharged(l, o, charge) ==
    LET used == l.used - Est[o] + charge
    IN  MkLedger(IF used < 0 THEN 0 ELSE used, l.inflight \ {o}, l.cycle)

(* settle with an actual, settle without one (the estimate stays charged), *)
(* and release: each a no-op when the reservation is gone.                 *)
SettledActual(l, o, actual, cycle) ==
    IF l.cycle = cycle /\ o \in l.inflight THEN Recharged(l, o, actual) ELSE l

SettledEstimate(l, o) == MkLedger(l.used, l.inflight \ {o}, l.cycle)

Released(l, o) == IF o \in l.inflight THEN Recharged(l, o, 0) ELSE l

=============================================================================
