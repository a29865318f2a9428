----------------------------- MODULE ComputeBudget -----------------------------
(***************************************************************************)
(* The compare-and-swap protocol on one backend's budget ledger            *)
(* (citypods/compute/budget.py: reserve_if_available, mutate_budget,       *)
(* settle_reservation, release_reservation) as the pull workers and the    *)
(* reconciler run it.  A conditional write may land and still be reported  *)
(* as a conflict (storage/s3.py retries a write whose answer was lost).    *)
(***************************************************************************)
EXTENDS BudgetLedger

CONSTANTS
    Cycles,     \* billing cycles
    CycleOf,    \* the cycle an owner's run computed when it started
    Reaper,     \* the reconciler
    MaxActual,  \* bound: the largest cost the provider reports for a claim
    MaxTries    \* max_attempts of the CAS loops

ASSUME ProtocolAssumption ==
    /\ NoCycle \notin Cycles
    /\ CycleOf \in [Owners -> Cycles]
    /\ Reaper \notin Owners
    /\ MaxActual \in Nat
    /\ MaxTries \in Nat \ {0}

VARIABLES
    ledger,    \* the ledger object on the coordination backend
    op,        \* the read-modify-write each process has in flight
    job,       \* where each owner's claim is
    uploaded,  \* owners whose artifact is in canonical storage
    reaped,    \* owners whose lease the reconciler has moved off "leased"
    charge,    \* what the operations that took effect charge each owner
    overrun    \* by how much reported costs have exceeded their estimates

vars == <<ledger, op, job, uploaded, reaped, charge, overrun>>
history == <<charge, overrun>>

Processes == Owners \cup {Reaper}

Kinds == {"idle", "reserve", "settle", "complete", "release"}

MkOp(kind, o, actual, tries, loaded, seen) ==
    [kind |-> kind, owner |-> o, actual |-> actual, tries |-> tries,
     loaded |-> loaded, seen |-> seen]

(* A read-modify-write about to load the ledger after n lost attempts.     *)
Load(kind, o, actual, n) == MkOp(kind, o, actual, n, FALSE, EmptyLedger)

Idle == Load("idle", Reaper, 0, 0)

Jobs == {"new", "declined", "running", "settling", "closed", "dead"}

Init ==
    /\ ledger = EmptyLedger
    /\ op = [p \in Processes |-> Idle]
    /\ job = [o \in Owners |-> "new"]
    /\ uploaded = {} /\ reaped = {}
    /\ charge = [o \in Owners |-> 0]
    /\ overrun = 0

-----------------------------------------------------------------------------
(* The CAS loops of reserve_if_available and mutate_budget.                *)

Written(q) ==
    IF q.kind = "reserve" THEN Reserved(Rolled(q.seen, CycleOf[q.owner]), q.owner)
    ELSE IF q.kind = "settle"
        THEN SettledActual(q.seen, q.owner, q.actual, CycleOf[q.owner])
    ELSE IF q.kind = "complete" THEN SettledEstimate(q.seen, q.owner)
    ELSE Released(q.seen, q.owner)

(* The settlement or release finds the reservation it is about.            *)
Effective(q) ==
    /\ q.owner \in q.seen.inflight
    /\ q.kind = "settle" => q.seen.cycle = CycleOf[q.owner]

(* An admission the caller does not learn of runs nothing.                 *)
Charged(q, told) ==
    IF q.kind = "reserve" /\ told THEN Est[q.owner]
    ELSE IF q.kind = "settle" /\ Effective(q) THEN q.actual
    ELSE IF q.kind = "release" /\ Effective(q) THEN 0
    ELSE charge[q.owner]

Excess(q) ==
    IF q.kind = "settle" /\ Effective(q) /\ q.actual > Est[q.owner]
    THEN q.actual - Est[q.owner] ELSE 0

(* The loop ends and the caller goes on with the answer it got; the        *)
(* reconciler's callbacks swallow a failure (_invoke_reap_callback).       *)
Returns(p, outcome) ==
    /\ op' = [op EXCEPT ![p] = Idle]
    /\ job' = IF p = Reaper THEN job ELSE [job EXCEPT ![p] = outcome]

(* Mutants: one attempt too many; room is only checked the first time.     *)
GivesUpLate(q) ==
    \/ q.tries > MaxTries
    \/ q.kind = "reserve" /\ ~Available(Rolled(ledger, CycleOf[q.owner]), q.owner)

GivesUpUnchecked(q) ==
    \/ q.tries = MaxTries
    \/ /\ q.kind = "reserve" /\ q.tries = 0
       /\ ~Available(Rolled(ledger, CycleOf[q.owner]), q.owner)

(* reserve_if_available re-checks the freshest ledger on every attempt and *)
(* gives up without room; any loop gives up when its attempts are spent.   *)
GivesUp(q) ==
    \/ q.tries = MaxTries
    \/ q.kind = "reserve" /\ ~Available(Rolled(ledger, CycleOf[q.owner]), q.owner)

Loads(p) ==
    LET q == op[p]
    IN  /\ q.kind # "idle" /\ ~q.loaded
        /\ IF GivesUp(q)
           THEN Returns(p, IF q.kind = "reserve" THEN "declined" ELSE "closed")
           ELSE /\ op' = [op EXCEPT ![p] =
                        MkOp(q.kind, q.owner, q.actual, q.tries, TRUE, ledger)]
                /\ UNCHANGED job
        /\ UNCHANGED <<ledger, uploaded, reaped, history>>

(* Mutant: the write carries no If-Match.                                  *)
LandedUnconditionally(p, told) ==
    LET q == op[p]
    IN  /\ q.loaded
        /\ ledger' = Written(q)
        /\ charge' = [charge EXCEPT ![q.owner] = Charged(q, told)]
        /\ overrun' = overrun + Excess(q)
        /\ UNCHANGED <<uploaded, reaped>>

Landed(p, told) ==
    LET q == op[p]
    IN  /\ q.loaded /\ ledger = q.seen
        /\ ledger' = Written(q)
        /\ charge' = [charge EXCEPT ![q.owner] = Charged(q, told)]
        /\ overrun' = overrun + Excess(q)
        /\ UNCHANGED <<uploaded, reaped>>

Retries(p) ==
    LET q == op[p]
    IN  /\ op' = [op EXCEPT ![p] = Load(q.kind, q.owner, q.actual, q.tries + 1)]
        /\ UNCHANGED job

PutWins(p) ==
    /\ Landed(p, TRUE)
    /\ Returns(p, IF op[p].kind = "reserve" THEN "running" ELSE "closed")

PutAnswerLost(p) == Landed(p, FALSE) /\ Retries(p)

PutConflict(p) ==
    /\ op[p].loaded /\ ledger # op[p].seen
    /\ Retries(p)
    /\ UNCHANGED <<ledger, uploaded, reaped, history>>

-----------------------------------------------------------------------------
(* A claim: reserve, run, upload or fail, settle at the end of the run.    *)

Reserve(o) ==
    /\ job[o] = "new" /\ op[o] = Idle
    /\ op' = [op EXCEPT ![o] = Load("reserve", o, 0, 0)]
    /\ UNCHANGED <<ledger, job, uploaded, reaped, history>>

Upload(o) ==
    /\ job[o] = "running"
    /\ uploaded' = uploaded \cup {o}
    /\ UNCHANGED <<ledger, op, job, reaped, history>>

(* The reported cost may be more than the estimate.                        *)
Settle(o) ==
    /\ job[o] = "running"
    /\ \E actual \in 0..MaxActual :
        op' = [op EXCEPT ![o] = Load("settle", o, actual, 0)]
    /\ job' = [job EXCEPT ![o] = "settling"]
    /\ UNCHANGED <<ledger, uploaded, reaped, history>>

(* The worker dies, or a storage error ends its run.                       *)
Die(o) ==
    /\ job[o] \in {"new", "running", "settling"}
    /\ Returns(o, "dead")
    /\ UNCHANGED <<ledger, uploaded, reaped, history>>

(* The reconciler's callback, once per lease it moves: on_completed for an *)
(* artifact; on_requeued for an expired lease, whether its worker died,    *)
(* only failed to renew it, or could not give it back.                     *)
Reap(o) ==
    /\ op[Reaper] = Idle /\ o \notin reaped
    /\ op' = [op EXCEPT ![Reaper] =
            Load(IF o \in uploaded THEN "complete" ELSE "release", o, 0, 0)]
    /\ reaped' = reaped \cup {o}
    /\ UNCHANGED <<ledger, job, uploaded, history>>

(* The callback raises, or the reconciler dies in it.                      *)
CallbackFails ==
    /\ op[Reaper] # Idle
    /\ op' = [op EXCEPT ![Reaper] = Idle]
    /\ UNCHANGED <<ledger, job, uploaded, reaped, history>>

Next ==
    \/ \E p \in Processes :
        Loads(p) \/ PutWins(p) \/ PutAnswerLost(p) \/ PutConflict(p)
    \/ \E o \in Owners :
        Reserve(o) \/ Upload(o) \/ Settle(o) \/ Die(o) \/ Reap(o)
    \/ CallbackFails

Spec == Init /\ [][Next]_vars

-----------------------------------------------------------------------------
(* Every variable has its type, and a process only ever carries a          *)
(* read-modify-write of its own kind (the reconciler's are completions and *)
(* releases, an owner's its own reservation or settlement).                *)
Ops ==
    [kind : Kinds, owner : Processes, actual : Nat, tries : 0..MaxTries,
     loaded : BOOLEAN, seen : Ledgers(Cycles)]

TypeOK ==
    /\ ledger \in Ledgers(Cycles)
    /\ op \in [Processes -> Ops]
    /\ job \in [Owners -> Jobs]
    /\ uploaded \subseteq Owners
    /\ reaped \subseteq Owners
    /\ charge \in [Owners -> Nat]
    /\ overrun \in Nat
    /\ \A p \in Processes : op[p].kind # "idle" =>
        /\ op[p].owner \in Owners
        /\ p # Reaper => op[p].owner = p
        /\ op[p].kind \in {"reserve", "settle"} <=> p # Reaper

(* However many shards race reserve_if_available, and whatever answers get *)
(* lost, admissions alone never take the ledger past the cap: only costs   *)
(* reported above their estimates can; and the slots are never exceeded.   *)
WithinLimits ==
    /\ ledger.used <= Cap + overrun
    /\ Cardinality(ledger.inflight) <= MaxInflight

(* No update is lost: the ledger charges at least what the admissions,     *)
(* settlements and releases of its cycle's owners add up to, unit by unit. *)
Units(f, os) == UNION {{o} \X (1..f[o]) : o \in os}

Owed(c) == Cardinality(Units(charge, {o \in Owners : CycleOf[o] = c}))

SpendCharged == Owed(ledger.cycle) <= ledger.used

(* However many shards and reconcilers load, retry and write the ledger,   *)
(* and whatever answers are lost, it changes by one whole admission,       *)
(* settlement or release at a time, each decided on the ledger it changes. *)
Shared == INSTANCE SharedBudget WITH ledger <- ledger, charge <- charge
AtomicUpdates == Shared!Spec

(* What makes WithinLimits inductive: a loaded admission was checked       *)
(* against the very ledger it will replace.                                *)
AdmissionChecked ==
    \A p \in Processes : op[p].loaded =>
        /\ op[p].kind # "idle" /\ op[p].tries < MaxTries
        /\ op[p].kind = "reserve" =>
            Available(Rolled(op[p].seen, CycleOf[op[p].owner]), op[p].owner)

Inv == TypeOK /\ AdmissionChecked /\ WithinLimits

(* What makes SpendCharged inductive within one cycle: a slot in use is    *)
(* charged for in full, whether or not its owner knows that it has it.     *)
Due == [o \in Owners |->
    IF o \in ledger.inflight /\ charge[o] < Est[o] THEN Est[o] ELSE charge[o]]

DueCharged == Cardinality(Units(Due, Owners)) <= ledger.used

(* A claim that runs, and whose lease nobody reaped, holds its slot.       *)
ReservationHeld ==
    \A o \in Owners : job[o] = "running" /\ o \notin reaped => o \in ledger.inflight

(* What makes ReservationHeld inductive within one cycle: a blank ledger   *)
(* holds nothing, the reconciler only touches reservations of leases it    *)
(* has moved, and an owner settles only once it has stopped running.       *)
HeldInv ==
    /\ ReservationHeld
    /\ ledger.cycle = NoCycle => ledger.inflight = {}
    /\ op[Reaper].kind # "idle" => op[Reaper].owner \in reaped
    /\ \A o \in Owners : /\ op[o].kind = "settle" => job[o] = "settling"
                         /\ op[o].kind = "reserve" => job[o] = "new"

=============================================================================
