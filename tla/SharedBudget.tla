----------------------------- MODULE SharedBudget ------------------------------
(***************************************************************************)
(* What the budget ledger promises to the runs that share it: an admission *)
(* or a settlement is ONE atomic step on the ledger as it then is, an      *)
(* admission only with room for it, and an owner is charged for what was   *)
(* done to a reservation it still had.  ComputeBudget, where every one of  *)
(* them is a load and a conditional write, implements this specification.  *)
(***************************************************************************)
EXTENDS BudgetLedger

CONSTANTS
    CycleOf,    \* the cycle an owner's run computed when it started
    MaxActual   \* bound: the largest cost the provider reports for a claim

VARIABLES
    ledger,
    charge     \* what each owner is charged

vars == <<ledger, charge>>

Init ==
    /\ ledger = EmptyLedger
    /\ charge = [o \in Owners |-> 0]

(* An owner whose answer was lost holds a reservation it is not charged    *)
(* for, since it runs nothing under it.                                    *)
Admit(o) ==
    LET current == Rolled(ledger, CycleOf[o]) IN
    /\ Available(current, o)
    /\ ledger' = Reserved(current, o)
    /\ \/ charge' = [charge EXCEPT ![o] = Est[o]]
       \/ UNCHANGED charge

Recharge(o, cost) ==
    /\ o \in ledger.inflight
    /\ ledger' = Recharged(ledger, o, cost)
    /\ charge' = [charge EXCEPT ![o] = cost]

(* A run of another cycle settles nothing.                                 *)
Settle(o) ==
    /\ ledger.cycle = CycleOf[o]
    /\ \E actual \in 0..MaxActual : Recharge(o, actual)

Complete(o) ==
    /\ ledger' = SettledEstimate(ledger, o)
    /\ UNCHANGED charge

Release(o) == Recharge(o, 0)

Next == \E o \in Owners : Admit(o) \/ Settle(o) \/ Complete(o) \/ Release(o)

Spec == Init /\ [][Next]_vars

=============================================================================
