----------------------------- MODULE LLMBudget ------------------------------
(***************************************************************************)
(* The ledger that admits LLM calls to provider routes, LLMBudget          *)
(* (citypods/compute/llm_budget.py): what an operation makes of it.        *)
(*                                                                         *)
(* All routes belong to one provider.  Of the quotas the model keeps the   *)
(* daily requests, the request schedule (rpm), the concurrency of a route  *)
(* and of the provider, and the block after a 429; tokens and money are    *)
(* counted the same way as requests.                                       *)
(***************************************************************************)
EXTENDS Integers, FiniteSets

CONSTANTS
    Jobs,          \* calls of run_inference, on all runners
    Routes,        \* physical routes
    Requests,      \* max_provider_attempts, what a reservation is for
    Rpd,           \* requests_per_day of a route
    Interval,      \* 60 / rpm, the time a request takes of the schedule
    Concurrency,   \* of a route
    ProviderConcurrency,
    TTL,           \* LLM_RESERVATION_TTL_SECONDS
    DayLength

ASSUME QuotaAssumption ==
    /\ Requests \in Nat \ {0} /\ Rpd \in Nat /\ Requests <= Rpd
    /\ Interval \in Nat
    /\ Concurrency \in Nat \ {0} /\ ProviderConcurrency \in Nat \ {0}
    /\ TTL \in Nat \ {0} /\ DayLength \in Nat \ {0}

-----------------------------------------------------------------------------
Day(now) == now \div DayLength

(* An owner is a fresh uuid for every attempt to reserve.                  *)
Owners == Jobs \X Nat

MkReservation(owner, at, before) ==
    [owner |-> owner, at |-> at, before |-> before]

Reservations == [owner : Owners, at : Nat, before : Nat]

(* requests_available_at and blocked_until are 0 when not set.             *)
Ledgers ==
    [exists : BOOLEAN, day : Nat, key : Nat, avail : Nat, blocked : Nat,
     inflight : SUBSET Reservations]

NoLedger ==
    [exists |-> FALSE, day |-> 0, key |-> 0, avail |-> 0, blocked |-> 0,
     inflight |-> {}]

NewBook == [r \in Routes |-> NoLedger]

(* _request_schedule_after.                                                *)
Schedule(before, requests, now) ==
    (IF now > before THEN now ELSE before) + Interval * requests

After(s) == Schedule(s.before, Requests, s.at)

(* Never below zero.                                                       *)
Less(count, requests) == IF count > requests THEN count - requests ELSE 0

(* Mutant: a reservation expires a tick early.                             *)
ExpiredEarly(led, now) == {s \in led.inflight : s.at + TTL <= now + 1}

Expired(led, now) == {s \in led.inflight : s.at + TTL <= now}

Turned(led, now) ==
    IF led.exists /\ led.key # Day(now)
    THEN [led EXCEPT !.day = 0, !.key = Day(now)]
    ELSE led

(* _unwind_reservation of all of gone, which leaves the schedule at avail. *)
Unwound(led, gone, avail) ==
    [led EXCEPT
        !.inflight = @ \ gone,
        !.avail = avail,
        !.day = Less(@, Requests * Cardinality({s \in gone : Day(s.at) = led.key}))]

(* Where the schedule may be after that: a reservation at its end gives    *)
(* way to what was there before it, then maybe to the one before that; the *)
(* order in which they are unwound is that of random ids.                  *)
Restored(led, gone) ==
    LET linked == {run \in (SUBSET gone) \ {{}} :
            \A s \in run : \/ After(s) = led.avail
                           \/ \E u \in run : u # s /\ u.before = After(s)}
        ends(run) == {s.before : s \in {u \in run :
                            \A v \in run : v # u => After(v) # u.before}}
    IN IF \E s \in gone : After(s) = led.avail
       THEN UNION {ends(run) : run \in linked}
       ELSE {led.avail}

(* _ledger: the day rolls over and expired reservations are reaped.        *)
Rolled(led, now, avail) == Unwound(Turned(led, now), Expired(led, now), avail)

(* What that may leave of the schedules of all routes.                     *)
Avails(b, now) ==
    {f \in [Routes -> UNION {Restored(b[r], Expired(b[r], now)) : r \in Routes}] :
        \A r \in Routes : f[r] \in Restored(b[r], Expired(b[r], now))}

RolledBook(b, now, f) == [r \in Routes |-> Rolled(b[r], now, f[r])]

AllInflight(b) == UNION {b[r].inflight : r \in Routes}

(* Mutant: only the route's own concurrency is looked at.                  *)
AvailableAlone(b, r, now) ==
    b[r].exists =>
        /\ now >= b[r].blocked /\ now >= b[r].avail
        /\ b[r].day + Requests <= Rpd
        /\ Cardinality(b[r].inflight) < Concurrency

(* Mutant: a reservation fits while a single request does.                 *)
AvailableForOne(b, r, now) ==
    /\ Cardinality(AllInflight(b)) < ProviderConcurrency
    /\ b[r].exists =>
        /\ now >= b[r].blocked /\ now >= b[r].avail
        /\ b[r].day < Rpd
        /\ Cardinality(b[r].inflight) < Concurrency

Available(b, r, now) ==
    /\ Cardinality(AllInflight(b)) < ProviderConcurrency
    /\ b[r].exists =>
        /\ now >= b[r].blocked /\ now >= b[r].avail
        /\ b[r].day + Requests <= Rpd
        /\ Cardinality(b[r].inflight) < Concurrency

(* select_route fails its assertion on a route that is not available       *)
(* although it has no ledger.                                              *)
Asserts(b, now) == \E r \in Routes : ~Available(b, r, now) /\ ~b[r].exists

Reserved(led, owner, now) ==
    [Turned([led EXCEPT !.exists = TRUE], now) EXCEPT
        !.day = @ + Requests,
        !.avail = Schedule(led.avail, Requests, now),
        !.inflight = @ \cup {MkReservation(owner, now, led.avail)}]

Own(led, owner) == {s \in led.inflight : s.owner = owner}

(* Mutant: the schedule is set back even when others come after.           *)
CorrectedAlways(led, s, actual) ==
    [led EXCEPT
        !.inflight = @ \ {s},
        !.day = IF Day(s.at) = led.key THEN Less(@ + actual, Requests) ELSE @,
        !.avail = Schedule(s.before, actual, s.at)]

(* A reservation is replaced by what the call really sent.                 *)
Corrected(led, s, actual) ==
    [led EXCEPT
        !.inflight = @ \ {s},
        !.day = IF Day(s.at) = led.key THEN Less(@ + actual, Requests) ELSE @,
        !.avail = IF @ = After(s) THEN Schedule(s.before, actual, s.at) ELSE @]

(* settle, after _ledger: nothing to do when the reservation was reaped.   *)
Settled(led, owner, actual) ==
    IF Own(led, owner) = {} THEN led
    ELSE Corrected(led, CHOOSE s \in Own(led, owner) : TRUE, actual)

Released(led, owner) ==
    LET gone == Own(led, owner) IN
    Unwound(led, gone, IF \E s \in gone : After(s) = led.avail
                       THEN (CHOOSE s \in gone : TRUE).before
                       ELSE led.avail)

Blocked(led, until) == [led EXCEPT !.blocked = IF until > @ THEN until ELSE @]

=============================================================================
