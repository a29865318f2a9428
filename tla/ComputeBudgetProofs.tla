-------------------------- MODULE ComputeBudgetProofs --------------------------
(***************************************************************************)
(* Proofs about ComputeBudget, for every set of owners, every estimate,    *)
(* cap and slot limit, every set of cycles and every retry bound.          *)
(***************************************************************************)
EXTENDS ComputeBudget, FiniteSetTheorems, TLAPS

(* The inflight set of a ledger is finite.                                 *)
LEMMA InflightFinite ==
    ASSUME NEW l \in Ledgers(Cycles)
    PROVE  IsFiniteSet(l.inflight) /\ Cardinality(l.inflight) \in Nat
<1>1. l.inflight \in SUBSET Owners
  BY DEF Ledgers
<1>2. IsFiniteSet(l.inflight)
  BY <1>1, FS_Subset, BudgetAssumption
<1> QED
  BY <1>2, FS_CardinalityType

(* Adding one element adds at most one to the size, removing never adds.   *)
LEMMA SizeFacts ==
    ASSUME NEW S, NEW x, IsFiniteSet(S)
    PROVE  /\ Cardinality(S \cup {x}) <= Cardinality(S) + 1
           /\ Cardinality(S \ {x}) <= Cardinality(S)
           /\ Cardinality(S \cup {x}) \in Nat /\ Cardinality(S \ {x}) \in Nat
<1>1. Cardinality(S) \in Nat
  BY FS_CardinalityType
<1>2. Cardinality(S \cup {x}) = IF x \in S THEN Cardinality(S) ELSE Cardinality(S) + 1
  BY FS_AddElement
<1>3. Cardinality(S \ {x}) = IF x \in S THEN Cardinality(S) - 1 ELSE Cardinality(S)
  BY FS_RemoveElement
<1>4. IsFiniteSet(S \ {x})
  BY FS_RemoveElement
<1>5. Cardinality(S \ {x}) \in Nat
  BY <1>4, FS_CardinalityType
<1> QED
  BY <1>1, <1>2, <1>3, <1>5

(* A ledger operation yields a ledger.                                     *)
LEMMA WrittenType ==
    ASSUME NEW q \in Ops, q.owner \in Owners
    PROVE  Written(q) \in Ledgers(Cycles)
<1> USE BudgetAssumption, ProtocolAssumption
<1>1. /\ q.seen \in Ledgers(Cycles) /\ q.actual \in Nat
      /\ CycleOf[q.owner] \in Cycles /\ Est[q.owner] \in Nat
  BY DEF Ops
<1>2. Rolled(q.seen, CycleOf[q.owner]) \in Ledgers(Cycles)
  BY <1>1 DEF Rolled, MkLedger, Ledgers
<1>3. Reserved(Rolled(q.seen, CycleOf[q.owner]), q.owner) \in Ledgers(Cycles)
  BY <1>1, <1>2 DEF Reserved, MkLedger, Ledgers
<1>4. \A c \in Nat : Recharged(q.seen, q.owner, c) \in Ledgers(Cycles)
  BY <1>1 DEF Recharged, MkLedger, Ledgers
<1>5. SettledEstimate(q.seen, q.owner) \in Ledgers(Cycles)
  BY <1>1 DEF SettledEstimate, MkLedger, Ledgers
<1> QED
  BY <1>1, <1>3, <1>4, <1>5 DEF Written, SettledActual, Released

(* A write that lands keeps the limits: an admission because it was        *)
(* checked against the ledger it replaces, a settlement because what it    *)
(* charges above the estimate is added to the overrun.                     *)
LEMMA WrittenWithin ==
    ASSUME NEW q \in Ops, q.owner \in Owners, NEW v \in Nat,
           q.seen.used <= Cap + v, Cardinality(q.seen.inflight) <= MaxInflight,
           q.kind = "reserve" =>
                Available(Rolled(q.seen, CycleOf[q.owner]), q.owner)
    PROVE  /\ Written(q).used <= Cap + v + Excess(q)
           /\ Cardinality(Written(q).inflight) <= MaxInflight
           /\ Excess(q) \in Nat
<1> USE BudgetAssumption, ProtocolAssumption
<1>1. /\ q.seen \in Ledgers(Cycles) /\ q.actual \in Nat
      /\ q.seen.used \in Nat
      /\ CycleOf[q.owner] \in Cycles /\ Est[q.owner] \in Nat
  BY DEF Ops, Ledgers
<1>2. Excess(q) \in Nat
  BY <1>1 DEF Excess
<1>3. IsFiniteSet(q.seen.inflight) /\ Cardinality(q.seen.inflight) \in Nat
  BY <1>1, InflightFinite
<1>4. Cardinality(q.seen.inflight \ {q.owner}) <= MaxInflight
  <2>1. /\ Cardinality(q.seen.inflight \ {q.owner}) <= Cardinality(q.seen.inflight)
        /\ Cardinality(q.seen.inflight \ {q.owner}) \in Nat
    BY <1>3, SizeFacts
  <2> QED
    BY <1>3, <2>1
<1>5. \A c \in Nat :
        /\ Recharged(q.seen, q.owner, c).inflight = q.seen.inflight \ {q.owner}
        /\ Recharged(q.seen, q.owner, c).used <=
            q.seen.used + (IF c > Est[q.owner] THEN c - Est[q.owner] ELSE 0)
  BY <1>1 DEF Recharged, MkLedger
<1>6. CASE q.kind = "reserve"
  <2> DEFINE l == Rolled(q.seen, CycleOf[q.owner])
  <2>1. l \in Ledgers(Cycles) /\ Available(l, q.owner)
    BY <1>1, <1>6 DEF Rolled, MkLedger, Ledgers
  <2>2. IsFiniteSet(l.inflight) /\ Cardinality(l.inflight) \in Nat
    BY <2>1, InflightFinite
  <2>3. Cardinality(l.inflight \cup {q.owner}) <= MaxInflight
    <3>1. Cardinality(l.inflight) < MaxInflight
      BY <2>1 DEF Available
    <3>2. /\ Cardinality(l.inflight \cup {q.owner}) <= Cardinality(l.inflight) + 1
          /\ Cardinality(l.inflight \cup {q.owner}) \in Nat
      BY <2>2, SizeFacts
    <3> QED
      BY <3>1, <3>2, <2>2
  <2>4. l.used + Est[q.owner] <= Cap /\ l.used \in Nat
    BY <2>1 DEF Available, Ledgers
  <2>5. Written(q) = MkLedger(l.used + Est[q.owner], l.inflight \cup {q.owner}, l.cycle)
    BY <1>6 DEF Written, Reserved
  <2> HIDE DEF l
  <2> QED
    BY <1>1, <1>2, <2>3, <2>4, <2>5 DEF MkLedger
<1>7. CASE q.kind = "settle"
  <2>1. CASE Effective(q)
    <3>1. Written(q) = Recharged(q.seen, q.owner, q.actual)
      BY <1>7, <2>1 DEF Written, SettledActual, Effective
    <3>2. Excess(q) = IF q.actual > Est[q.owner] THEN q.actual - Est[q.owner] ELSE 0
      BY <1>7, <2>1 DEF Excess
    <3>3. /\ Recharged(q.seen, q.owner, q.actual).inflight = q.seen.inflight \ {q.owner}
          /\ Recharged(q.seen, q.owner, q.actual).used <= q.seen.used + Excess(q)
      BY <1>1, <1>5, <3>2
    <3>4. Written(q).used \in Nat
      BY WrittenType DEF Ledgers
    <3> QED
      BY <1>1, <1>2, <1>4, <3>1, <3>3, <3>4
  <2>2. CASE ~Effective(q)
    <3>1. Written(q) = q.seen
      BY <1>7, <2>2 DEF Written, SettledActual, Effective
    <3> QED
      BY <1>1, <1>2, <3>1
  <2> QED
    BY <2>1, <2>2
<1>8. CASE q.kind = "complete"
  <2>1. Written(q) = MkLedger(q.seen.used, q.seen.inflight \ {q.owner}, q.seen.cycle)
    BY <1>8 DEF Written, SettledEstimate
  <2> QED
    BY <1>1, <1>2, <1>4, <2>1 DEF MkLedger
<1>9. CASE q.kind \notin {"reserve", "settle", "complete"}
  <2>1. Written(q) = Released(q.seen, q.owner)
    BY <1>9 DEF Written
  <2>2. /\ Recharged(q.seen, q.owner, 0).inflight = q.seen.inflight \ {q.owner}
        /\ Recharged(q.seen, q.owner, 0).used <= q.seen.used
    BY <1>1, <1>5
  <2>3. Written(q).used \in Nat
    BY WrittenType DEF Ledgers
  <2> QED
    BY <1>1, <1>2, <1>4, <2>1, <2>2, <2>3 DEF Released
<1> QED
  BY <1>6, <1>7, <1>8, <1>9

LEMMA InitInv == Init => Inv
<1> USE BudgetAssumption, ProtocolAssumption
<1> SUFFICES ASSUME Init PROVE Inv
  OBVIOUS
<1>1. EmptyLedger \in Ledgers(Cycles)
  BY DEF EmptyLedger, MkLedger, Ledgers
<1>2. Idle \in Ops /\ Idle.kind = "idle" /\ ~Idle.loaded
  BY <1>1 DEF Idle, Load, MkOp, Ops, Kinds, Processes
<1>3. TypeOK
  BY <1>1, <1>2 DEF Init, TypeOK, Jobs
<1>4. AdmissionChecked
  BY <1>2 DEF Init, AdmissionChecked
<1>5. Cardinality({}) = 0
  BY FS_EmptySet
<1>6. WithinLimits
  BY <1>5 DEF Init, WithinLimits, EmptyLedger, MkLedger
<1> QED
  BY <1>3, <1>4, <1>6 DEF Inv

(* Every step preserves the invariant: only a landing write touches the    *)
(* ledger, and the other steps only start, retry or end an operation.      *)
LEMMA NextInv == Inv /\ [Next]_vars => Inv'
<1> USE BudgetAssumption, ProtocolAssumption
<1> SUFFICES ASSUME Inv, [Next]_vars PROVE Inv'
  OBVIOUS
<1>1. EmptyLedger \in Ledgers(Cycles)
  BY DEF EmptyLedger, MkLedger, Ledgers
<1>2. Idle \in Ops /\ Idle.kind = "idle" /\ ~Idle.loaded
  BY <1>1 DEF Idle, Load, MkOp, Ops, Kinds, Processes
<1>3. \A k \in Kinds, o \in Processes, a \in Nat, n \in 0..MaxTries :
        /\ Load(k, o, a, n) \in Ops
        /\ Load(k, o, a, n).kind = k /\ Load(k, o, a, n).owner = o
        /\ ~Load(k, o, a, n).loaded
  BY <1>1 DEF Load, MkOp, Ops
<1>4. /\ op \in [Processes -> Ops] /\ TypeOK /\ AdmissionChecked /\ WithinLimits
      /\ Owners \subseteq Processes /\ Reaper \in Processes
  BY DEF Inv, TypeOK, Processes
\* Replacing a process's operation by an unloaded one of its own kind.
<1> DEFINE Proper(p, q) ==
        /\ q \in Ops
        /\ q.kind # "idle" =>
            /\ q.owner \in Owners
            /\ p # Reaper => q.owner = p
            /\ q.kind \in {"reserve", "settle"} <=> p # Reaper
<1>5. ASSUME NEW p \in Processes, NEW q, Proper(p, q), ~q.loaded,
             op' = [op EXCEPT ![p] = q],
             job' \in [Owners -> Jobs], uploaded' \subseteq Owners,
             reaped' \subseteq Owners, ledger' \in Ledgers(Cycles),
             charge' \in [Owners -> Nat], overrun' \in Nat, WithinLimits'
      PROVE  Inv'
  <2>1. op' \in [Processes -> Ops]
    BY <1>4, <1>5
  <2>2. \A r \in Processes : op'[r] = IF r = p THEN q ELSE op[r]
    BY <1>4, <1>5
  <2>3. TypeOK'
    BY <1>4, <1>5, <2>1, <2>2 DEF TypeOK
  <2>4. AdmissionChecked'
    BY <1>4, <1>5, <2>2 DEF AdmissionChecked
  <2> QED
    BY <1>5, <2>3, <2>4 DEF Inv
<1>6. \A p : Proper(p, Idle)
  BY <1>2
<1>7. \A p \in Processes : Proper(p, op[p])
  BY <1>4 DEF TypeOK
<1>8. ASSUME NEW p \in Processes, op[p].kind # "idle", op[p].tries < MaxTries
      PROVE  LET q == Load(op[p].kind, op[p].owner, op[p].actual, op[p].tries + 1)
             IN  Proper(p, q) /\ ~q.loaded
  <2>1. /\ op[p].kind \in Kinds /\ op[p].owner \in Processes
        /\ op[p].actual \in Nat /\ op[p].tries + 1 \in 0..MaxTries
    BY <1>4, <1>8 DEF Ops
  <2> QED
    BY <1>3, <1>7, <1>8, <2>1
\* The returns of a loop.
<1>9. ASSUME NEW p \in Processes, NEW out \in Jobs, Returns(p, out)
      PROVE  op' = [op EXCEPT ![p] = Idle] /\ job' \in [Owners -> Jobs]
  BY <1>4, <1>9 DEF Returns, TypeOK, Processes
<1>10. ASSUME NEW p \in Processes, NEW told \in BOOLEAN, Landed(p, told)
       PROVE  /\ ledger' \in Ledgers(Cycles) /\ charge' \in [Owners -> Nat]
              /\ overrun' \in Nat /\ WithinLimits'
              /\ uploaded' \subseteq Owners /\ reaped' \subseteq Owners
              /\ op[p].kind # "idle" /\ op[p].tries < MaxTries
  <2> DEFINE q == op[p]
  <2>1. q \in Ops /\ q.loaded /\ q.seen = ledger /\ q.kind # "idle" /\ q.tries < MaxTries
    BY <1>4, <1>10 DEF Landed, AdmissionChecked
  <2>2. q.owner \in Owners
    BY <2>1 DEF Inv, TypeOK
  <2>3. /\ ledger' = Written(q) /\ overrun' = overrun + Excess(q)
        /\ charge' = [charge EXCEPT ![q.owner] = Charged(q, told)]
        /\ uploaded' = uploaded /\ reaped' = reaped
    BY <1>10 DEF Landed
  <2>4. overrun \in Nat /\ charge \in [Owners -> Nat]
    BY <1>4 DEF TypeOK
  <2>5. /\ q.seen.used <= Cap + overrun
        /\ Cardinality(q.seen.inflight) <= MaxInflight
    BY <1>4, <2>1 DEF WithinLimits
  <2>6. q.kind = "reserve" => Available(Rolled(q.seen, CycleOf[q.owner]), q.owner)
    BY <1>4, <2>1 DEF AdmissionChecked
  <2>7. q.actual \in Nat /\ Est[q.owner] \in Nat
    BY <2>1, <2>2 DEF Ops
  <2> HIDE DEF q
  <2>8. /\ Written(q).used <= Cap + overrun + Excess(q)
        /\ Cardinality(Written(q).inflight) <= MaxInflight
        /\ Excess(q) \in Nat
    BY <2>1, <2>2, <2>4, <2>5, <2>6, WrittenWithin
  <2>9. ledger' \in Ledgers(Cycles)
    BY <2>1, <2>2, <2>3, WrittenType
  <2>10. Charged(q, told) \in Nat
    BY <2>2, <2>4, <2>7 DEF Charged
  <2>11. WithinLimits'
    BY <2>3, <2>4, <2>8 DEF WithinLimits
  <2> QED
    BY <1>4, <2>1, <2>2, <2>3, <2>4, <2>8, <2>9, <2>10, <2>11 DEF TypeOK, q
<1>11. CASE UNCHANGED vars
  BY <1>11 DEF vars, Inv, TypeOK, AdmissionChecked, WithinLimits
<1>12. ASSUME NEW p \in Processes, Loads(p) PROVE Inv'
  <2>1. /\ ledger' = ledger /\ uploaded' = uploaded /\ reaped' = reaped
        /\ charge' = charge /\ overrun' = overrun /\ op[p].kind # "idle"
    BY <1>12 DEF Loads, history
  <2>2. /\ ledger \in Ledgers(Cycles) /\ uploaded \subseteq Owners
        /\ reaped \subseteq Owners /\ charge \in [Owners -> Nat] /\ overrun \in Nat
    BY <1>4 DEF TypeOK
  <2>3. WithinLimits'
    BY <1>4, <2>1 DEF WithinLimits
  <2>4. CASE GivesUp(op[p])
    <3>1. \E out \in Jobs : Returns(p, out)
      BY <1>12, <2>4 DEF Loads, Jobs
    <3>2. op' = [op EXCEPT ![p] = Idle] /\ job' \in [Owners -> Jobs]
      BY <1>9, <3>1
    <3> QED
      BY <1>2, <1>5, <1>6, <2>1, <2>2, <2>3, <3>2
  <2>5. CASE ~GivesUp(op[p])
    <3> DEFINE q == MkOp(op[p].kind, op[p].owner, op[p].actual, op[p].tries, TRUE, ledger)
    <3>1. op' = [op EXCEPT ![p] = q] /\ job' = job
      BY <1>12, <2>5 DEF Loads
    <3>2. /\ q.kind = op[p].kind /\ q.owner = op[p].owner /\ q.tries = op[p].tries
          /\ q.seen = ledger
      BY DEF MkOp
    <3>3. q \in Ops
      BY <1>4, <2>2 DEF MkOp, Ops
    <3>4. op[p].tries < MaxTries
      BY <1>4, <2>5 DEF GivesUp, Ops
    <3>5. q.kind = "reserve" => Available(Rolled(q.seen, CycleOf[q.owner]), q.owner)
      BY <2>5, <3>2 DEF GivesUp
    <3> HIDE DEF q
    <3>6. /\ op' \in [Processes -> Ops]
          /\ \A r \in Processes : op'[r] = IF r = p THEN q ELSE op[r]
      BY <1>4, <3>1, <3>3
    <3>7. TypeOK'
      BY <1>4, <2>1, <2>2, <3>1, <3>2, <3>6 DEF TypeOK
    <3>8. AdmissionChecked'
      BY <1>4, <2>1, <3>2, <3>4, <3>5, <3>6 DEF AdmissionChecked
    <3> QED
      BY <2>3, <3>7, <3>8 DEF Inv
  <2> QED
    BY <2>4, <2>5
<1>13. ASSUME NEW p \in Processes, PutWins(p) PROVE Inv'
  <2>1. Landed(p, TRUE) /\ \E out \in Jobs : Returns(p, out)
    BY <1>13 DEF PutWins, Jobs
  <2>2. op' = [op EXCEPT ![p] = Idle] /\ job' \in [Owners -> Jobs]
    BY <1>9, <2>1
  <2> QED
    BY <1>2, <1>5, <1>6, <1>10, <2>1, <2>2
<1>14. ASSUME NEW p \in Processes, PutAnswerLost(p) PROVE Inv'
  <2>1. Landed(p, FALSE) /\ job' = job
    BY <1>14 DEF PutAnswerLost, Retries
  <2>2. op' = [op EXCEPT ![p] =
            Load(op[p].kind, op[p].owner, op[p].actual, op[p].tries + 1)]
    BY <1>14 DEF PutAnswerLost, Retries
  <2>3. job \in [Owners -> Jobs]
    BY <1>4 DEF TypeOK
  <2>4. op[p].kind # "idle" /\ op[p].tries < MaxTries
    BY <1>10, <2>1
  <2> QED
    BY <1>5, <1>8, <1>10, <2>1, <2>2, <2>3, <2>4
<1>15. ASSUME NEW p \in Processes, PutConflict(p) PROVE Inv'
  <2>1. op' = [op EXCEPT ![p] =
            Load(op[p].kind, op[p].owner, op[p].actual, op[p].tries + 1)]
    BY <1>15 DEF PutConflict, Retries
  <2>2. op[p].kind # "idle" /\ op[p].tries < MaxTries
    BY <1>4, <1>15 DEF PutConflict, AdmissionChecked
  <2>3. UNCHANGED <<ledger, job, uploaded, reaped, charge, overrun>>
    BY <1>15 DEF PutConflict, Retries, history
  <2> QED
    BY <1>4, <1>5, <1>8, <2>1, <2>2, <2>3 DEF TypeOK, WithinLimits
<1>16. ASSUME NEW o \in Owners, Reserve(o) PROVE Inv'
  <2>1. /\ op' = [op EXCEPT ![o] = Load("reserve", o, 0, 0)]
        /\ UNCHANGED <<ledger, job, uploaded, reaped, charge, overrun>>
    BY <1>16 DEF Reserve, history
  <2>2. Proper(o, Load("reserve", o, 0, 0)) /\ ~Load("reserve", o, 0, 0).loaded
    BY <1>3, <1>4 DEF Kinds
  <2> QED
    BY <1>4, <1>5, <2>1, <2>2 DEF TypeOK, WithinLimits
<1>17. ASSUME NEW o \in Owners, Upload(o) PROVE Inv'
  BY <1>4, <1>17 DEF Upload, history, Inv, TypeOK, AdmissionChecked, WithinLimits
<1>18. ASSUME NEW o \in Owners, Settle(o) PROVE Inv'
  <2>1. PICK a \in 0..MaxActual : op' = [op EXCEPT ![o] = Load("settle", o, a, 0)]
    BY <1>18 DEF Settle
  <2>2. /\ job' = [job EXCEPT ![o] = "settling"]
        /\ UNCHANGED <<ledger, uploaded, reaped, charge, overrun>>
    BY <1>18 DEF Settle, history
  <2>3. Proper(o, Load("settle", o, a, 0)) /\ ~Load("settle", o, a, 0).loaded
    BY <1>3, <1>4 DEF Kinds
  <2> QED
    BY <1>4, <1>5, <2>1, <2>2, <2>3 DEF TypeOK, WithinLimits, Jobs
<1>19. ASSUME NEW o \in Owners, Die(o) PROVE Inv'
  <2>1. \E out \in Jobs : Returns(o, out)
    BY <1>19 DEF Die, Jobs
  <2>2. op' = [op EXCEPT ![o] = Idle] /\ job' \in [Owners -> Jobs]
    BY <1>4, <1>9, <2>1
  <2>3. UNCHANGED <<ledger, uploaded, reaped, charge, overrun>>
    BY <1>19 DEF Die, history
  <2> QED
    BY <1>2, <1>4, <1>5, <1>6, <2>2, <2>3 DEF TypeOK, WithinLimits
<1>20. ASSUME NEW o \in Owners, Reap(o) PROVE Inv'
  <2>1. PICK k \in {"complete", "release"} :
            op' = [op EXCEPT ![Reaper] = Load(k, o, 0, 0)]
    BY <1>20 DEF Reap
  <2>2. /\ reaped' = reaped \cup {o}
        /\ UNCHANGED <<ledger, job, uploaded, charge, overrun>>
    BY <1>20 DEF Reap, history
  <2>3. Proper(Reaper, Load(k, o, 0, 0)) /\ ~Load(k, o, 0, 0).loaded
    BY <1>3, <1>4 DEF Kinds
  <2> QED
    BY <1>4, <1>5, <2>1, <2>2, <2>3 DEF TypeOK, WithinLimits
<1>21. CASE CallbackFails
  BY <1>2, <1>4, <1>5, <1>6, <1>21 DEF CallbackFails, history, TypeOK, WithinLimits
<1> QED
  BY <1>11, <1>12, <1>13, <1>14, <1>15, <1>16, <1>17, <1>18, <1>19, <1>20, <1>21
     DEF Next

(* The invariant of budget.py's protocol: types, checked admissions and    *)
(* the limits.                                                             *)
THEOREM InvHolds == Spec => []Inv
  BY InitInv, NextInv, PTL DEF Spec

(* Every variable of the budget protocol keeps its type.                   *)
THEOREM TypeCorrect == Spec => []TypeOK
<1>1. Inv => TypeOK
  BY DEF Inv
<1> QED
  BY <1>1, InvHolds, PTL

(* However many shards race reserve_if_available, in however many cycles,  *)
(* and whatever answers get lost, admissions never take the ledger past    *)
(* the cap, nor the reservations past the slots.                           *)
THEOREM AdmissionsKeepLimits == Spec => []WithinLimits
<1>1. Inv => WithinLimits
  BY DEF Inv
<1> QED
  BY <1>1, InvHolds, PTL

-----------------------------------------------------------------------------
(* Within one cycle every write keeps the reservations it is not about.    *)
LEMMA OthersKept ==
    ASSUME NEW c, Cycles = {c}, NEW q \in Ops, q.owner \in Owners,
           q.seen.cycle = NoCycle => q.seen.inflight = {}
    PROVE  /\ q.seen.inflight \ {q.owner} \subseteq Written(q).inflight
           /\ q.kind = "reserve" => q.seen.inflight \cup {q.owner} \subseteq Written(q).inflight
           /\ Written(q).cycle = NoCycle => Written(q).inflight = {}
<1> USE BudgetAssumption, ProtocolAssumption
<1>1. CycleOf[q.owner] = c /\ q.seen \in Ledgers(Cycles) /\ c # NoCycle
  BY DEF Ops
<1>2. q.seen.cycle \in {c, NoCycle}
  BY <1>1 DEF Ledgers
<1>3. CASE q.kind = "reserve"
  <2>1. /\ Rolled(q.seen, c).inflight = q.seen.inflight
        /\ Rolled(q.seen, c).cycle = c
    BY <1>1, <1>2 DEF Rolled, MkLedger
  <2> QED
    BY <1>1, <1>3, <2>1 DEF Written, Reserved, MkLedger
<1>4. CASE q.kind # "reserve"
  <2>1. \A a : /\ Recharged(q.seen, q.owner, a).inflight = q.seen.inflight \ {q.owner}
               /\ Recharged(q.seen, q.owner, a).cycle = q.seen.cycle
    BY DEF Recharged, MkLedger
  <2>2. /\ SettledEstimate(q.seen, q.owner).inflight = q.seen.inflight \ {q.owner}
        /\ SettledEstimate(q.seen, q.owner).cycle = q.seen.cycle
    BY DEF SettledEstimate, MkLedger
  <2>3. Written(q) \in {q.seen, Recharged(q.seen, q.owner, q.actual),
                        Recharged(q.seen, q.owner, 0), SettledEstimate(q.seen, q.owner)}
    BY <1>4 DEF Written, SettledActual, Released
  <2>4. /\ Written(q).cycle = q.seen.cycle
        /\ Written(q).inflight \in {q.seen.inflight, q.seen.inflight \ {q.owner}}
    BY <2>1, <2>2, <2>3
  <2> QED
    BY <1>4, <2>4
<1> QED
  BY <1>3, <1>4

(* Within one billing cycle a claim that runs, and whose lease the         *)
(* reconciler has not moved, keeps its reservation, whatever conflicts,    *)
(* lost answers, deaths and reaps happen around it.                        *)
THEOREM ReservationKept ==
    ASSUME NEW CONSTANT c, Cycles = {c}
    PROVE  Spec => []ReservationHeld
<1> USE BudgetAssumption, ProtocolAssumption
<1>1. Idle.kind = "idle" /\ EmptyLedger.inflight = {}
  BY DEF Idle, Load, MkOp, EmptyLedger, MkLedger
<1>2. \A k, o, a, n : Load(k, o, a, n).kind = k /\ Load(k, o, a, n).owner = o
  BY DEF Load, MkOp
<1>3. Init => HeldInv
  BY <1>1 DEF Init, HeldInv, ReservationHeld, Processes
<1>4. ASSUME Inv, HeldInv, [Next]_vars PROVE HeldInv'
  <2>1. /\ op \in [Processes -> Ops] /\ job \in [Owners -> Jobs] /\ reaped \subseteq Owners
        /\ Owners \subseteq Processes /\ Reaper \in Processes
    BY <1>4 DEF Inv, TypeOK, Processes
  <2>2. \A o \in Owners : op[o].kind \in {"idle", "reserve", "settle"}
    <3>1. \A o \in Owners : op[o].kind \in Kinds
      BY <2>1 DEF Ops
    <3>2. \A o \in Owners : op[o].kind # "idle" => op[o].kind \in {"reserve", "settle"}
      BY <1>4, <2>1 DEF Inv, TypeOK
    <3> QED
      BY <3>1, <3>2
  <2> DEFINE Kept(p) ==
               /\ reaped' = reaped /\ op[p].owner \in Owners
               /\ op[p].kind # "idle" /\ (p # Reaper => op[p].owner = p)
               /\ (p = Reaper => op[p].owner \in reaped)
               /\ ledger.inflight \ {op[p].owner} \subseteq ledger'.inflight
               /\ op[p].kind = "reserve" =>
                    ledger.inflight \cup {op[p].owner} \subseteq ledger'.inflight
               /\ ledger'.cycle = NoCycle => ledger'.inflight = {}
  <2>3. ASSUME NEW p \in Processes, NEW told \in BOOLEAN, Landed(p, told)
        PROVE  Kept(p)
    <3>1. /\ op[p] \in Ops /\ op[p].seen = ledger /\ ledger' = Written(op[p])
          /\ op[p].loaded /\ reaped' = reaped
      BY <2>1, <2>3 DEF Landed
    <3>2. op[p].kind # "idle"
      BY <1>4, <3>1 DEF Inv, AdmissionChecked
    <3>3. op[p].owner \in Owners /\ (p # Reaper => op[p].owner = p)
      BY <1>4, <3>2 DEF Inv, TypeOK
    <3>4. p = Reaper => op[p].owner \in reaped
      BY <1>4, <3>2 DEF HeldInv
    <3>5. ledger.cycle = NoCycle => ledger.inflight = {}
      BY <1>4 DEF HeldInv
    <3> QED
      BY <3>1, <3>2, <3>3, <3>4, <3>5, OthersKept
  <2>4. CASE UNCHANGED vars
    BY <1>4, <2>4 DEF vars, HeldInv, ReservationHeld
  <2>5. ASSUME NEW p \in Processes, Loads(p) PROVE HeldInv'
    <3>1. /\ ledger' = ledger /\ reaped' = reaped /\ op[p].kind # "idle"
      BY <2>5 DEF Loads
    <3>2. CASE GivesUp(op[p])
      <4>1. /\ op' = [op EXCEPT ![p] = Idle]
            /\ job' = IF p = Reaper THEN job
                      ELSE [job EXCEPT ![p] =
                            IF op[p].kind = "reserve" THEN "declined" ELSE "closed"]
        BY <2>5, <3>2 DEF Loads, Returns
      <4> QED
        BY <1>1, <1>4, <2>1, <3>1, <4>1 DEF HeldInv, ReservationHeld, Processes
    <3>3. CASE ~GivesUp(op[p])
      <4>1. /\ job' = job
            /\ op' = [op EXCEPT ![p] =
                 MkOp(op[p].kind, op[p].owner, op[p].actual, op[p].tries, TRUE, ledger)]
        BY <2>5, <3>3 DEF Loads
      <4>2. \A r \in Processes : op'[r].kind = op[r].kind /\ op'[r].owner = op[r].owner
        BY <2>1, <4>1 DEF MkOp
      <4> QED
        BY <1>4, <2>1, <3>1, <4>1, <4>2 DEF HeldInv, ReservationHeld
    <3> QED
      BY <3>2, <3>3
  <2>6. ASSUME NEW p \in Processes, PutWins(p) PROVE HeldInv'
    <3>1. op' = [op EXCEPT ![p] = Idle]
      BY <2>6 DEF PutWins, Returns
    <3> Kept(p)
      <4>1. Landed(p, TRUE)
        BY <2>6 DEF PutWins
      <4> QED
        BY <2>3, <4>1
    <3>2. job' = IF p = Reaper THEN job
                 ELSE [job EXCEPT ![p] =
                        IF op[p].kind = "reserve" THEN "running" ELSE "closed"]
      BY <2>6 DEF PutWins, Returns
    <3>3. \A r \in Processes : op'[r] = IF r = p THEN Idle ELSE op[r]
      BY <2>1, <3>1
    <3>4. ReservationHeld'
      <4> SUFFICES ASSUME NEW o \in Owners, job'[o] = "running", o \notin reaped
                   PROVE  o \in ledger'.inflight
        BY <3>1 DEF ReservationHeld
      <4>1. CASE o = p
        BY <2>1, <3>1, <3>2, <4>1 DEF Processes
      <4>2. CASE o # p
        <5>1. job[o] = "running" /\ o \in ledger.inflight
          BY <1>4, <2>1, <3>2, <4>2 DEF HeldInv, ReservationHeld
        <5>2. o # op[p].owner
          BY <3>1, <4>2
        <5> QED
          BY <3>1, <5>1, <5>2
      <4> QED
        BY <4>1, <4>2
    <3>5. \A o \in Owners : /\ op'[o].kind = "settle" => job'[o] = "settling"
                            /\ op'[o].kind = "reserve" => job'[o] = "new"
      BY <1>1, <1>4, <2>1, <3>2, <3>3 DEF HeldInv
    <3>6. op'[Reaper].kind # "idle" => op'[Reaper].owner \in reaped'
      BY <1>1, <1>4, <2>1, <3>1, <3>3 DEF HeldInv
    <3> QED
      BY <3>1, <3>4, <3>5, <3>6 DEF HeldInv
  <2>7. ASSUME NEW p \in Processes, PutAnswerLost(p) PROVE HeldInv'
    <3> Kept(p)
      <4>1. Landed(p, FALSE)
        BY <2>7 DEF PutAnswerLost
      <4> QED
        BY <2>3, <4>1
    <3>1. /\ job' = job
          /\ op' = [op EXCEPT ![p] =
                Load(op[p].kind, op[p].owner, op[p].actual, op[p].tries + 1)]
      BY <2>7 DEF PutAnswerLost, Retries
    <3>2. \A r \in Processes : op'[r].kind = op[r].kind /\ op'[r].owner = op[r].owner
      BY <1>2, <2>1, <3>1
    <3>3. ReservationHeld'
      <4> SUFFICES ASSUME NEW o \in Owners, job[o] = "running", o \notin reaped
                   PROVE  o \in ledger'.inflight
        BY <3>1 DEF ReservationHeld
      <4>1. o \in ledger.inflight
        BY <1>4 DEF HeldInv, ReservationHeld
      <4>2. o # op[p].owner
        <5>1. op[o].kind = "idle"
          BY <1>4, <2>2 DEF HeldInv
        <5> QED
          BY <3>1, <5>1
      <4> QED
        BY <3>1, <4>1, <4>2
    <3> QED
      BY <1>4, <2>1, <3>1, <3>2, <3>3 DEF HeldInv
  <2>8. ASSUME NEW p \in Processes, PutConflict(p) PROVE HeldInv'
    <3>1. /\ UNCHANGED <<ledger, job, reaped>>
          /\ op' = [op EXCEPT ![p] =
                Load(op[p].kind, op[p].owner, op[p].actual, op[p].tries + 1)]
      BY <2>8 DEF PutConflict, Retries
    <3>2. \A r \in Processes : op'[r].kind = op[r].kind /\ op'[r].owner = op[r].owner
      BY <1>2, <2>1, <3>1
    <3> QED
      BY <1>4, <2>1, <3>1, <3>2 DEF HeldInv, ReservationHeld
  <2>9. ASSUME NEW o \in Owners, Reserve(o) PROVE HeldInv'
    BY <1>2, <1>4, <2>1, <2>9 DEF Reserve, HeldInv, ReservationHeld
  <2>10. ASSUME NEW o \in Owners, Upload(o) PROVE HeldInv'
    BY <1>4, <2>10 DEF Upload, HeldInv, ReservationHeld
  <2>11. ASSUME NEW o \in Owners, Settle(o) PROVE HeldInv'
    <3>1. PICK a : op' = [op EXCEPT ![o] = Load("settle", o, a, 0)]
      BY <2>11 DEF Settle
    <3>2. job' = [job EXCEPT ![o] = "settling"] /\ ledger' = ledger /\ reaped' = reaped
      BY <2>11 DEF Settle
    <3> QED
      BY <1>2, <1>4, <2>1, <3>1, <3>2 DEF HeldInv, ReservationHeld
  <2>12. ASSUME NEW o \in Owners, Die(o) PROVE HeldInv'
    <3>1. /\ op' = [op EXCEPT ![o] = Idle] /\ ledger' = ledger /\ reaped' = reaped
          /\ \E out \in {"closed", "dead"} : job' = [job EXCEPT ![o] = out]
      BY <2>12 DEF Die, Returns
    <3> QED
      BY <1>1, <1>4, <2>1, <3>1 DEF HeldInv, ReservationHeld
  <2>13. ASSUME NEW o \in Owners, Reap(o) PROVE HeldInv'
    <3>1. PICK k \in {"complete", "release"} :
            op' = [op EXCEPT ![Reaper] = Load(k, o, 0, 0)]
      BY <2>13 DEF Reap
    <3>2. reaped' = reaped \cup {o} /\ ledger' = ledger /\ job' = job
      BY <2>13 DEF Reap
    <3> QED
      BY <1>2, <1>4, <2>1, <3>1, <3>2 DEF HeldInv, ReservationHeld
  <2>14. CASE CallbackFails
    BY <1>1, <1>4, <2>1, <2>14 DEF CallbackFails, HeldInv, ReservationHeld
  <2> QED
    BY <1>4, <2>4, <2>5, <2>6, <2>7, <2>8, <2>9, <2>10, <2>11, <2>12, <2>13, <2>14
       DEF Next
<1>5. HeldInv => ReservationHeld
  BY DEF HeldInv
<1> QED
  BY <1>3, <1>4, <1>5, InvHolds, PTL DEF Spec

-----------------------------------------------------------------------------
(* Sums, counted unit by unit.                                             *)

LEMMA UnitsOf ==
    ASSUME NEW f, NEW S, NEW u
    PROVE  u \in Units(f, S) <=> \E o \in S : u \in {o} \X (1..f[o])
BY Zenon DEF Units

LEMMA UnitsFinite ==
    ASSUME NEW S, IsFiniteSet(S), NEW f, \A o \in S : f[o] \in Nat
    PROVE  /\ IsFiniteSet(Units(f, S))
           /\ Cardinality(Units(f, S)) \in Nat
<1> DEFINE T == {{o} \X (1..f[o]) : o \in S}
           g == [o \in S |-> {o} \X (1..f[o])]
<1>1. g \in Surjection(S, T)
  BY DEF Surjection
<1>2. IsFiniteSet(T)
  BY <1>1, FS_Surjection
<1>3. ASSUME NEW o \in S
      PROVE  IsFiniteSet({o} \X (1..f[o]))
  <2>1. 1 \in Int /\ f[o] \in Int
    OBVIOUS
  <2>2. IsFiniteSet({o})
    BY FS_Singleton
  <2>3. IsFiniteSet(1..f[o])
    BY <2>1, FS_Interval
  <2> QED
    BY <2>2, <2>3, FS_Product
<1>4. \A t \in T : IsFiniteSet(t)
  BY <1>3
<1>5. IsFiniteSet(UNION T)
  BY <1>2, <1>4, FS_UNION
<1> QED
  BY <1>5, FS_CardinalityType DEF Units

LEMMA UnitsGrow ==
    ASSUME NEW T, IsFiniteSet(T), NEW S \in SUBSET T, NEW f, NEW g,
           \A o \in T : f[o] \in Nat /\ g[o] \in Nat /\ f[o] <= g[o]
    PROVE  Cardinality(Units(f, S)) <= Cardinality(Units(g, T))
<1>1. ASSUME NEW u \in Units(f, S)
      PROVE  u \in Units(g, T)
  <2>1. PICK o \in S : u \in {o} \X (1..f[o])
    BY UnitsOf
  <2>2. PICK k \in 1..f[o] : u = <<o, k>>
    BY <2>1
  <2>3. k \in 1..g[o]
    OBVIOUS
  <2>4. u \in {o} \X (1..g[o])
    BY <2>2, <2>3
  <2> QED
    BY <2>1, <2>4, UnitsOf
<1>2. IsFiniteSet(Units(g, T))
  BY UnitsFinite
<1> QED
  BY <1>1, <1>2, FS_Subset

(* One owner's share changes.                                              *)
LEMMA UnitsChange ==
    ASSUME NEW S, IsFiniteSet(S), NEW o \in S, NEW f, NEW g,
           \A x \in S : f[x] \in Nat /\ g[x] \in Nat /\ (x # o => g[x] = f[x])
    PROVE  Cardinality(Units(g, S)) + f[o] = Cardinality(Units(f, S)) + g[o]
<1> DEFINE R == Units(f, S \ {o})
           Share(n) == {o} \X (1..n)
<1>1. IsFiniteSet(R) /\ Cardinality(R) \in Nat
  <2>1. IsFiniteSet(S \ {o})
    BY FS_RemoveElement
  <2> QED
    BY <2>1, UnitsFinite
<1>2. ASSUME NEW n \in Nat
      PROVE  /\ IsFiniteSet(Share(n)) /\ R \cap Share(n) = {}
             /\ Cardinality(R \cup Share(n)) = Cardinality(R) + n
  <2>1. IsFiniteSet({o}) /\ Cardinality({o}) = 1
    BY FS_Singleton
  <2>2. IsFiniteSet(1..n) /\ Cardinality(1..n) = n
    <3>1. 1 \in Int /\ n \in Int
      OBVIOUS
    <3>2. /\ IsFiniteSet(1..n)
          /\ Cardinality(1..n) = IF 1 > n THEN 0 ELSE n - 1 + 1
      BY <3>1, FS_Interval
    <3> QED
      BY <3>2
  <2>3. IsFiniteSet(Share(n)) /\ Cardinality(Share(n)) = 1 * n
    <3>1. /\ IsFiniteSet({o} \X (1..n))
          /\ Cardinality({o} \X (1..n)) = Cardinality({o}) * Cardinality(1..n)
      BY <2>1, <2>2, FS_Product, Zenon
    <3> QED
      BY <2>1, <2>2, <3>1, Zenon
  <2>4. R \cap Share(n) = {}
    <3> SUFFICES ASSUME NEW u \in R, u \in Share(n)
                 PROVE  FALSE
      OBVIOUS
    <3>1. PICK x \in S \ {o} : u \in {x} \X (1..f[x])
      BY UnitsOf
    <3>2. u[1] = x
      BY <3>1
    <3>3. u[1] = o
      OBVIOUS
    <3> QED
      BY <3>2, <3>3
  <2> HIDE DEF R, Share
  <2>5. Cardinality(R \cup Share(n)) =
            Cardinality(R) + Cardinality(Share(n)) - Cardinality({})
    BY <1>1, <2>3, <2>4, FS_Union
  <2>6. Cardinality({}) = 0
    BY FS_EmptySet
  <2> QED
    BY <1>1, <2>3, <2>4, <2>5, <2>6
<1>3. Units(f, S) = R \cup Share(f[o])
  BY DEF Units
<1>4. Units(g, S) = R \cup Share(g[o])
  <2>1. Units(g, S) = Units(g, S \ {o}) \cup Share(g[o])
    BY DEF Units
  <2>2. Units(g, S \ {o}) = R
    BY DEF Units
  <2> QED
    BY <2>1, <2>2
<1> HIDE DEF R, Share
<1> QED
  BY <1>1, <1>2, <1>3, <1>4

-----------------------------------------------------------------------------
(* Within one cycle every write charges what falls due with it.            *)
LEMMA WrittenCharges ==
    ASSUME NEW c, Cycles = {c}, TypeOK, NEW p \in Processes,
           NEW told \in BOOLEAN, Landed(p, told), op[p].kind # "idle",
           ledger.cycle = NoCycle => ledger = EmptyLedger, DueCharged
    PROVE  DueCharged'
<1> USE BudgetAssumption, ProtocolAssumption
<1> DEFINE q == op[p]
           o == q.owner
<1>1. /\ q \in Ops /\ o \in Owners /\ q.seen = ledger /\ q.actual \in Nat
      /\ ledger' = Written(q) /\ charge' = [charge EXCEPT ![o] = Charged(q, told)]
      /\ ledger \in Ledgers(Cycles) /\ ledger.used \in Nat /\ Est[o] \in Nat
      /\ charge \in [Owners -> Nat] /\ CycleOf[o] = c
  <2>1. /\ q.seen = ledger /\ ledger' = Written(q)
        /\ charge' = [charge EXCEPT ![o] = Charged(q, told)]
    BY DEF Landed
  <2>2. q \in Ops /\ o \in Owners /\ ledger \in Ledgers(Cycles) /\ charge \in [Owners -> Nat]
    BY DEF TypeOK
  <2>3. q.actual \in Nat /\ ledger.used \in Nat
    BY <2>2 DEF Ops, Ledgers
  <2> QED
    BY <2>1, <2>2, <2>3
<1>2. Charged(q, told) \in Nat
  BY <1>1 DEF Charged
<1>3. /\ \A x \in Owners : Due[x] \in Nat /\ Due[x] >= charge[x]
      /\ o \in ledger.inflight => Due[o] >= Est[o]
  BY <1>1 DEF Due
<1>4. /\ ledger'.used \in Nat /\ charge' \in [Owners -> Nat]
      /\ charge'[o] = Charged(q, told)
      /\ \A x \in Owners \ {o} : charge'[x] = charge[x]
  BY <1>1, <1>2, WrittenType DEF Ledgers
<1>5. Due'[o] = IF o \in ledger'.inflight /\ Charged(q, told) < Est[o]
                THEN Est[o] ELSE Charged(q, told)
  BY <1>1, <1>4 DEF Due
\* The others' reservations are left alone, but for a blank ledger's.
<1>6. ASSUME ledger'.inflight \ {o} = ledger.inflight \ {o}
      PROVE  \A x \in Owners : Due'[x] \in Nat /\ (x # o => Due'[x] = Due[x])
  BY <1>1, <1>2, <1>4, <1>6 DEF Due
<1> DEFINE Was == Cardinality(Units(Due, Owners))
           Is == Cardinality(Units(Due', Owners))
<1>7. ASSUME ledger'.inflight \ {o} = ledger.inflight \ {o}
      PROVE  Is + Due[o] = Was + Due'[o]
  BY <1>1, <1>3, <1>6, <1>7, UnitsChange
<1>8. Was \in Nat /\ Was <= ledger.used
  BY <1>3, UnitsFinite DEF DueCharged
<1>9. (ledger'.inflight \ {o} = ledger.inflight \ {o}) => Is \in Nat
  BY <1>6, UnitsFinite
<1>10. SUFFICES /\ ledger'.inflight \ {o} = ledger.inflight \ {o}
                /\ Due'[o] - Due[o] <= ledger'.used - ledger.used
  <2>1. ASSUME ledger'.inflight \ {o} = ledger.inflight \ {o},
               Due'[o] - Due[o] <= ledger'.used - ledger.used
        PROVE  Is <= ledger'.used
    <3>1. Due[o] \in Nat /\ Due'[o] \in Nat /\ Is \in Nat /\ Is + Due[o] = Was + Due'[o]
      BY <1>1, <1>3, <1>6, <1>7, <1>9, <2>1
    <3> HIDE DEF Is, Was
    <3> QED
      BY <1>1, <1>4, <1>8, <2>1, <3>1
  <2> QED
    BY <2>1 DEF DueCharged
<1>11. CASE q.kind = "reserve"
  <2>1. Rolled(ledger, c) = MkLedger(ledger.used, ledger.inflight, c)
    BY <1>1 DEF Rolled, MkLedger, Ledgers, EmptyLedger
  <2>2. Written(q) = MkLedger(ledger.used + Est[o], ledger.inflight \cup {o}, c)
    BY <1>1, <1>11, <2>1 DEF Written, Reserved, MkLedger
  <2>3. /\ ledger'.used = ledger.used + Est[o]
        /\ ledger'.inflight = ledger.inflight \cup {o}
    BY <1>1, <2>2 DEF MkLedger
  <2>4. Charged(q, told) \in {Est[o], charge[o]}
    BY <1>11 DEF Charged
  <2>5. Due'[o] <= Due[o] + Est[o]
    BY <1>1, <1>2, <1>3, <1>5, <2>4
  <2>6. Due'[o] \in Nat /\ Due[o] \in Nat
    BY <1>1, <1>2, <1>3, <1>5
  <2> HIDE DEF q
  <2> QED
    BY <1>1, <2>3, <2>5, <2>6
<1>12. ASSUME NEW v \in Nat, ledger'.inflight = ledger.inflight \ {o},
              o \in ledger.inflight, Charged(q, told) = v,
              ledger'.used >= ledger.used - Est[o] + v
       PROVE  Due'[o] - Due[o] <= ledger'.used - ledger.used
  <2>1. Due'[o] = v
    BY <1>5, <1>12
  <2>2. Due[o] >= Est[o] /\ Due[o] \in Nat
    BY <1>1, <1>3, <1>12
  <2> HIDE DEF q
  <2> QED
    BY <1>1, <1>4, <1>12, <2>1, <2>2
<1>13. ASSUME NEW v \in Nat
       PROVE  /\ Recharged(ledger, o, v).inflight = ledger.inflight \ {o}
              /\ Recharged(ledger, o, v).used >= ledger.used - Est[o] + v
  BY <1>1 DEF Recharged, MkLedger
<1>14. ASSUME ledger'.used = ledger.used, Charged(q, told) = charge[o],
              ledger'.inflight \subseteq ledger.inflight
       PROVE  Due'[o] - Due[o] <= ledger'.used - ledger.used
  <2>1. Due'[o] <= Due[o] /\ Due'[o] \in Nat /\ Due[o] \in Nat
    BY <1>1, <1>3, <1>5, <1>14 DEF Due
  <2> HIDE DEF q
  <2> QED
    BY <1>1, <1>14, <2>1
<1>15. CASE q.kind = "settle"
  <2>1. CASE Effective(q)
    <3>1. ledger' = Recharged(ledger, o, q.actual) /\ Charged(q, told) = q.actual
      BY <1>1, <1>15, <2>1 DEF Written, SettledActual, Effective, Charged
    <3>2. o \in ledger.inflight
      BY <1>1, <2>1 DEF Effective
    <3> QED
      BY <1>1, <1>12, <1>13, <3>1, <3>2
  <2>2. CASE ~Effective(q)
    <3>1. ledger' = ledger /\ Charged(q, told) = charge[o]
      BY <1>1, <1>15, <2>2 DEF Written, SettledActual, Effective, Charged
    <3> QED
      BY <1>14, <3>1
  <2> QED
    BY <2>1, <2>2
<1>16. CASE q.kind = "complete"
  <2>1. ledger' = MkLedger(ledger.used, ledger.inflight \ {o}, ledger.cycle)
    BY <1>1, <1>16 DEF Written, SettledEstimate
  <2>2. Charged(q, told) = charge[o]
    BY <1>16 DEF Charged
  <2>3. ledger'.used = ledger.used /\ ledger'.inflight = ledger.inflight \ {o}
    BY <2>1 DEF MkLedger
  <2> QED
    BY <1>14, <2>2, <2>3
<1>17. CASE q.kind = "release"
  <2>1. CASE Effective(q)
    <3>1. ledger' = Recharged(ledger, o, 0) /\ Charged(q, told) = 0
      BY <1>1, <1>17, <2>1 DEF Written, Released, Effective, Charged
    <3>2. o \in ledger.inflight
      BY <1>1, <2>1 DEF Effective
    <3> QED
      BY <1>1, <1>12, <1>13, <3>1, <3>2
  <2>2. CASE ~Effective(q)
    <3>1. ledger' = ledger /\ Charged(q, told) = charge[o]
      BY <1>1, <1>17, <2>2 DEF Written, Released, Effective, Charged
    <3> QED
      BY <1>14, <3>1
  <2> QED
    BY <2>1, <2>2
<1>18. q.kind \in {"reserve", "settle", "complete", "release"}
  BY <1>1 DEF Ops, Kinds
<1> QED
  BY <1>11, <1>15, <1>16, <1>17, <1>18

(* Within one billing cycle no charge is lost: whatever conflicts, lost    *)
(* answers, deaths and reaps happen, the ledger shows at least what its    *)
(* owners have been charged (mutate_budget, reserve_if_available).         *)
THEOREM ChargesKept ==
    ASSUME NEW CONSTANT c, Cycles = {c}
    PROVE  Spec => []SpendCharged
<1> USE BudgetAssumption, ProtocolAssumption
<1> DEFINE J == DueCharged /\ (ledger.cycle = NoCycle => ledger = EmptyLedger)
<1>1. Init => J
  <2> SUFFICES ASSUME Init PROVE J
    OBVIOUS
  <2>1. ledger = EmptyLedger /\ EmptyLedger.used = 0 /\ EmptyLedger.inflight = {}
    BY DEF Init, EmptyLedger, MkLedger
  <2>2. \A o \in Owners : Due[o] = 0
    BY <2>1 DEF Init, Due
  <2>3. Units(Due, Owners) = {}
    <3> SUFFICES ASSUME NEW u \in Units(Due, Owners) PROVE FALSE
      OBVIOUS
    <3>1. PICK o \in Owners : u \in {o} \X (1..Due[o])
      BY UnitsOf
    <3> QED
      BY <2>2, <3>1
  <2>4. DueCharged
    BY <2>1, <2>3, FS_EmptySet DEF DueCharged
  <2> QED
    BY <2>1, <2>4
<1>2. ASSUME Inv, J, [Next]_vars PROVE J'
  <2>1. CASE UNCHANGED <<ledger, charge>>
    BY <1>2, <2>1 DEF DueCharged, Due
  <2>2. ASSUME NEW p \in Processes, NEW told \in BOOLEAN, Landed(p, told)
        PROVE  J'
    <3>1. TypeOK /\ op[p].kind # "idle" /\ op[p].seen = ledger
      BY <1>2, <2>2 DEF Inv, AdmissionChecked, Landed
    <3>2. DueCharged'
      BY <1>2, <2>2, <3>1, WrittenCharges
    <3>3. op[p] \in Ops /\ op[p].owner \in Owners /\ CycleOf[op[p].owner] = c
      BY <3>1 DEF TypeOK
    <3>4. ledger'.cycle = NoCycle => ledger' = EmptyLedger
      <4>1. ledger' = Written(op[p]) /\ c # NoCycle
        BY <2>2 DEF Landed
      <4>2. CASE op[p].kind = "reserve"
        <5>1. ledger'.cycle = Rolled(ledger, c).cycle
          BY <3>1, <3>3, <4>1, <4>2 DEF Written, Reserved, MkLedger
        <5>2. Rolled(ledger, c).cycle = c
          BY DEF Rolled, MkLedger
        <5> QED
          BY <4>1, <5>1, <5>2
      <4>3. CASE op[p].kind # "reserve" /\ ledger.cycle = NoCycle
        <5>1. ledger = EmptyLedger
          BY <1>2, <4>3
        <5>2. EmptyLedger.inflight = {} /\ EmptyLedger.used = 0 /\ EmptyLedger.cycle = NoCycle
          BY DEF EmptyLedger, MkLedger
        <5>3. Written(op[p]) \in {ledger, SettledEstimate(ledger, op[p].owner)}
          BY <3>1, <4>3, <5>1, <5>2 DEF Written, SettledActual, Released
        <5>4. SettledEstimate(ledger, op[p].owner) = EmptyLedger
          BY <5>1 DEF SettledEstimate, EmptyLedger, MkLedger
        <5> QED
          BY <4>1, <5>1, <5>3, <5>4
      <4>4. CASE op[p].kind # "reserve" /\ ledger.cycle # NoCycle
        <5>1. /\ \A a : Recharged(ledger, op[p].owner, a).cycle = ledger.cycle
              /\ SettledEstimate(ledger, op[p].owner).cycle = ledger.cycle
          BY DEF Recharged, SettledEstimate, MkLedger
        <5>2. Written(op[p]).cycle = ledger.cycle
          BY <3>1, <4>4, <5>1 DEF Written, SettledActual, Released
        <5> QED
          BY <4>1, <4>4, <5>2
      <4> QED
        BY <4>2, <4>3, <4>4
    <3> QED
      BY <3>2, <3>4
  <2>3. ASSUME NEW p \in Processes,
               Loads(p) \/ PutWins(p) \/ PutAnswerLost(p) \/ PutConflict(p)
        PROVE  J'
    <3>1. CASE PutWins(p) \/ PutAnswerLost(p)
      BY <2>2, <3>1 DEF PutWins, PutAnswerLost
    <3>2. CASE Loads(p) \/ PutConflict(p)
      BY <2>1, <3>2 DEF Loads, PutConflict, history
    <3> QED
      BY <2>3, <3>1, <3>2
  <2>4. ASSUME NEW o \in Owners,
               Reserve(o) \/ Upload(o) \/ Settle(o) \/ Die(o) \/ Reap(o)
        PROVE  J'
    BY <2>1, <2>4 DEF Reserve, Upload, Settle, Die, Reap, history
  <2>5. CASE CallbackFails
    BY <2>1, <2>5 DEF CallbackFails, history
  <2>6. CASE UNCHANGED vars
    BY <2>1, <2>6 DEF vars
  <2> QED
    BY <1>2, <2>3, <2>4, <2>5, <2>6 DEF Next
<1>3. ASSUME Inv, J PROVE SpendCharged
  <2> DEFINE S == {o \in Owners : CycleOf[o] = ledger.cycle}
  <2>1. /\ charge \in [Owners -> Nat] /\ ledger.used \in Nat
    BY <1>3 DEF Inv, TypeOK, Ledgers
  <2>2. \A o \in Owners : /\ charge[o] \in Nat /\ Due[o] \in Nat
                          /\ charge[o] <= Due[o]
    BY <2>1 DEF Due
  <2>3. S \in SUBSET Owners
    OBVIOUS
  <2>4. IsFiniteSet(S)
    BY <2>3, FS_Subset
  <2>5. Cardinality(Units(charge, S)) <= Cardinality(Units(Due, Owners))
    BY <2>2, <2>3, UnitsGrow
  <2>6. Cardinality(Units(charge, S)) \in Nat /\ Cardinality(Units(Due, Owners)) \in Nat
    BY <2>2, <2>3, <2>4, UnitsFinite
  <2>7. Owed(ledger.cycle) = Cardinality(Units(charge, S))
    BY DEF Owed
  <2> HIDE DEF S
  <2> QED
    BY <1>3, <2>1, <2>5, <2>6, <2>7 DEF DueCharged, SpendCharged
<1> HIDE DEF J
<1> QED
  BY <1>1, <1>2, <1>3, InvHolds, PTL DEF Spec

-----------------------------------------------------------------------------
(* The protocol implements SharedBudget, whose operators are those of      *)
(* BudgetLedger under names of their own.                                  *)

LEMMA SameLedgers ==
    /\ \A l, cycle : Shared!Rolled(l, cycle) = Rolled(l, cycle)
    /\ \A l, o : Shared!Reserved(l, o) = Reserved(l, o)
    /\ \A l, o, cost : Shared!Recharged(l, o, cost) = Recharged(l, o, cost)
    /\ \A l, o : Shared!SettledEstimate(l, o) = SettledEstimate(l, o)
    /\ Shared!EmptyLedger = EmptyLedger
BY DEF Shared!Rolled, Rolled, Shared!Reserved, Reserved, Shared!Recharged, Recharged,
       Shared!SettledEstimate, SettledEstimate, Shared!EmptyLedger, EmptyLedger,
       Shared!MkLedger, MkLedger

LEMMA SameAvailable == \A l, o : Shared!Available(l, o) = Available(l, o)
<1>1. \A S : Shared!Cardinality(S) = Cardinality(S)
  BY DEF Shared!Cardinality, Cardinality
<1> QED
  BY <1>1 DEF Shared!Available, Available

(* No operation carries a cost above MaxActual.                            *)
CostsBounded == \A p \in Processes : op[p].actual \in 0..MaxActual

LEMMA CostsBoundedInit == Init => CostsBounded
BY ProtocolAssumption DEF Init, CostsBounded, Idle, Load, MkOp

LEMMA CostsBoundedNext == Inv /\ CostsBounded /\ [Next]_vars => CostsBounded'
<1> SUFFICES ASSUME Inv, CostsBounded, [Next]_vars PROVE CostsBounded'
  OBVIOUS
<1>1. op \in [Processes -> Ops]
  BY DEF Inv, TypeOK
<1>2. \A k, o, a, n : Load(k, o, a, n).actual = a
  BY DEF Load, MkOp
<1>3. 0 \in 0..MaxActual /\ Idle.actual = 0
  BY <1>2, ProtocolAssumption DEF Idle
<1>4. ASSUME NEW p \in Processes, NEW q, q.actual \in 0..MaxActual,
             op' = [op EXCEPT ![p] = q]
      PROVE  CostsBounded'
  BY <1>1, <1>4 DEF CostsBounded
<1>5. ASSUME NEW p \in Processes, NEW outcome, Returns(p, outcome) PROVE CostsBounded'
  BY <1>3, <1>4, <1>5 DEF Returns
<1>6. ASSUME NEW p \in Processes, Loads(p) PROVE CostsBounded'
  <2>1. CASE GivesUp(op[p])
    BY <1>5, <1>6, <2>1 DEF Loads
  <2>2. CASE ~GivesUp(op[p])
    <3> DEFINE q == MkOp(op[p].kind, op[p].owner, op[p].actual, op[p].tries, TRUE, ledger)
    <3>1. op' = [op EXCEPT ![p] = q]
      BY <1>6, <2>2 DEF Loads
    <3>2. q.actual \in 0..MaxActual
      BY DEF CostsBounded, MkOp
    <3> HIDE DEF q
    <3> QED
      BY <1>4, <3>1, <3>2
  <2> QED
    BY <2>1, <2>2
<1>7. ASSUME NEW p \in Processes, Retries(p) PROVE CostsBounded'
  <2> DEFINE q == Load(op[p].kind, op[p].owner, op[p].actual, op[p].tries + 1)
  <2>1. op' = [op EXCEPT ![p] = q]
    BY <1>7 DEF Retries
  <2>2. q.actual \in 0..MaxActual
    BY <1>2 DEF CostsBounded
  <2> HIDE DEF q
  <2> QED
    BY <1>4, <2>1, <2>2
<1>8. ASSUME NEW p \in Processes, PutWins(p) \/ PutAnswerLost(p) \/ PutConflict(p)
      PROVE  CostsBounded'
  BY <1>5, <1>7, <1>8 DEF PutWins, PutAnswerLost, PutConflict
<1>9. ASSUME NEW o \in Owners, Reserve(o) \/ Settle(o) \/ Reap(o) PROVE CostsBounded'
  <2>1. o \in Processes /\ Reaper \in Processes
    BY DEF Processes
  <2>2. ASSUME NEW p \in Processes, NEW k, NEW a \in 0..MaxActual,
               op' = [op EXCEPT ![p] = Load(k, o, a, 0)]
        PROVE  CostsBounded'
    <3> DEFINE q == Load(k, o, a, 0)
    <3>1. q.actual \in 0..MaxActual
      BY <1>2
    <3> HIDE DEF q
    <3> QED
      BY <1>4, <2>2, <3>1 DEF q
  <2>3. CASE Reserve(o)
    BY <1>3, <2>1, <2>2, <2>3 DEF Reserve
  <2>4. CASE Settle(o)
    BY <2>1, <2>2, <2>4 DEF Settle
  <2>5. CASE Reap(o)
    BY <1>3, <2>1, <2>2, <2>5 DEF Reap
  <2> QED
    BY <1>9, <2>3, <2>4, <2>5
<1>10. ASSUME NEW o \in Owners, Upload(o) \/ Die(o) PROVE CostsBounded'
  <2>1. o \in Processes
    BY DEF Processes
  <2>2. CASE Upload(o)
    BY <2>2 DEF Upload, CostsBounded
  <2>3. CASE Die(o)
    BY <1>5, <2>1, <2>3 DEF Die
  <2> QED
    BY <1>10, <2>2, <2>3
<1>11. CASE CallbackFails
  BY <1>3, <1>4, <1>11 DEF CallbackFails, Processes
<1>12. CASE UNCHANGED vars
  BY <1>12 DEF vars, CostsBounded
<1> QED
  BY <1>6, <1>8, <1>9, <1>10, <1>11, <1>12 DEF Next

(* A write that lands is one operation of SharedBudget, or changes nothing. *)
LEMMA LandedOnce ==
    ASSUME Inv, CostsBounded, NEW p \in Processes, NEW told \in BOOLEAN, Landed(p, told)
    PROVE  Shared!Next \/ UNCHANGED <<ledger, charge>>
<1> DEFINE q == op[p]
           o == q.owner
<1>1. /\ q \in Ops /\ q.kind # "idle" /\ o \in Owners /\ q.actual \in 0..MaxActual
      /\ charge \in [Owners -> Nat]
      /\ q.kind = "reserve" => Available(Rolled(q.seen, CycleOf[o]), o)
  BY DEF Inv, TypeOK, AdmissionChecked, CostsBounded, Landed
<1>2. /\ q.seen = ledger /\ ledger' = Written(q)
      /\ charge' = [charge EXCEPT ![o] = Charged(q, told)]
  BY DEF Landed
<1>3. q.kind \in {"reserve", "settle", "complete", "release"}
  BY <1>1 DEF Ops, Kinds
<1> HIDE DEF q
<1>4. Charged(q, told) = charge[o] => charge' = charge
  BY <1>1, <1>2
<1>5. CASE q.kind = "reserve"
  <2>1. ledger' = Reserved(Rolled(ledger, CycleOf[o]), o)
    BY <1>2, <1>5 DEF Written
  <2>2. charge' = [charge EXCEPT ![o] = Est[o]] \/ charge' = charge
    BY <1>2, <1>4, <1>5 DEF Charged
  <2>3. Available(Rolled(ledger, CycleOf[o]), o)
    BY <1>1, <1>2, <1>5
  <2>4. Shared!Admit(o)
    BY <2>1, <2>2, <2>3, SameLedgers, SameAvailable DEF Shared!Admit
  <2> QED
    BY <1>1, <2>4 DEF Shared!Next
<1>6. CASE q.kind = "settle" /\ Effective(q)
  <2>1. o \in ledger.inflight /\ ledger.cycle = CycleOf[o]
    BY <1>2, <1>6 DEF Effective
  <2>2. ledger' = Recharged(ledger, o, q.actual)
    BY <1>2, <1>6, <2>1 DEF Written, SettledActual
  <2>3. charge' = [charge EXCEPT ![o] = q.actual]
    BY <1>2, <1>6 DEF Charged
  <2>4. Shared!Settle(o)
    BY <1>1, <2>1, <2>2, <2>3, SameLedgers DEF Shared!Settle, Shared!Recharge
  <2> QED
    BY <1>1, <2>4 DEF Shared!Next
<1>7. CASE q.kind = "complete"
  <2>1. ledger' = SettledEstimate(ledger, o)
    BY <1>2, <1>7 DEF Written
  <2>2. charge' = charge
    BY <1>4, <1>7 DEF Charged
  <2>3. Shared!Complete(o)
    BY <2>1, <2>2, SameLedgers DEF Shared!Complete
  <2> QED
    BY <1>1, <2>3 DEF Shared!Next
<1>8. CASE q.kind = "release" /\ Effective(q)
  <2>1. o \in ledger.inflight
    BY <1>2, <1>8 DEF Effective
  <2>2. ledger' = Recharged(ledger, o, 0)
    BY <1>2, <1>8, <2>1 DEF Written, Released
  <2>3. charge' = [charge EXCEPT ![o] = 0]
    BY <1>2, <1>8 DEF Charged
  <2>4. Shared!Release(o)
    BY <2>1, <2>2, <2>3, SameLedgers DEF Shared!Release, Shared!Recharge
  <2> QED
    BY <1>1, <2>4 DEF Shared!Next
<1>9. CASE q.kind \in {"settle", "release"} /\ ~Effective(q)
  <2>1. ledger' = ledger
    BY <1>2, <1>9 DEF Written, SettledActual, Released, Effective
  <2>2. charge' = charge
    BY <1>4, <1>9 DEF Charged
  <2> QED
    BY <2>1, <2>2
<1> QED
  BY <1>3, <1>5, <1>6, <1>7, <1>8, <1>9

LEMMA SharedInit == Init => Shared!Init
BY SameLedgers DEF Init, Shared!Init

LEMMA SharedNext ==
    Inv /\ CostsBounded /\ [Next]_vars => [Shared!Next]_(Shared!vars)
<1> SUFFICES ASSUME Inv, CostsBounded, [Next]_vars
             PROVE  Shared!Next \/ UNCHANGED <<ledger, charge>>
  BY DEF Shared!vars
<1>1. ASSUME NEW p \in Processes, PutWins(p) \/ PutAnswerLost(p)
      PROVE  Shared!Next \/ UNCHANGED <<ledger, charge>>
  BY <1>1, LandedOnce DEF PutWins, PutAnswerLost
<1>2. ASSUME NEW p \in Processes, Loads(p) \/ PutConflict(p)
      PROVE  UNCHANGED <<ledger, charge>>
  BY <1>2 DEF Loads, PutConflict, history
<1>3. ASSUME NEW o \in Owners,
             Reserve(o) \/ Upload(o) \/ Settle(o) \/ Die(o) \/ Reap(o)
      PROVE  UNCHANGED <<ledger, charge>>
  BY <1>3 DEF Reserve, Upload, Settle, Die, Reap, history
<1>4. CASE CallbackFails \/ UNCHANGED vars
  BY <1>4 DEF CallbackFails, vars, history
<1> QED
  BY <1>1, <1>2, <1>3, <1>4 DEF Next

(* However many shards and reconcilers load, retry and write the ledger,   *)
(* in however many billing cycles, and whatever answers are lost or        *)
(* processes die (reserve_if_available, mutate_budget), it changes by one  *)
(* whole admission, settlement or release at a time, and no admission is   *)
(* decided on a ledger other than the one it changes.                      *)
THEOREM ImplementsShared == Spec => AtomicUpdates
<1>1. Init => CostsBounded
  BY CostsBoundedInit
<1>2. Inv /\ CostsBounded /\ [Next]_vars => CostsBounded'
  BY CostsBoundedNext
<1>3. Spec => []CostsBounded
  BY <1>1, <1>2, InvHolds, PTL DEF Spec
<1> QED
  BY <1>3, SharedInit, SharedNext, InvHolds, PTL DEF Spec, AtomicUpdates, Shared!Spec

=============================================================================
