---------------------------- MODULE RouteQuotas -----------------------------
(***************************************************************************)
(* What the route ledger promises its callers: every operation of          *)
(* LLMBudget is ONE atomic step on the ledger, at a clock reading that may *)
(* be late but is never ahead; a reservation has an owner of its own, and  *)
(* is settled at most once.  RouteLedgers, where an operation is a load    *)
(* and a conditional write of the whole object, implements this            *)
(* specification.                                                          *)
(***************************************************************************)
EXTENDS LLMBudget

CONSTANT Cooldown

VARIABLES
    clock,
    book,      \* a RouteLedger for each route
    settled    \* the calls that were settled, and what they paid

vars == <<clock, book, settled>>

Init ==
    /\ clock = 0
    /\ book = NewBook
    /\ settled = {}

Tick ==
    /\ clock' = clock + 1
    /\ UNCHANGED <<book, settled>>

(* All routes are brought up to date, and an available one is reserved     *)
(* under a new owner (the one found in the new ledger).                    *)
Reserve(r, now) ==
    /\ \E f \in Avails(book, now) :
        LET b == RolledBook(book, now, f) IN
        /\ Available(b, r, now)
        /\ \E s \in book'[r].inflight :
            /\ \A t \in AllInflight(b) \cup settled : t.owner # s.owner
            /\ book' = [b EXCEPT ![r] = Reserved(b[r], s.owner, now)]
    /\ UNCHANGED <<clock, settled>>

(* None is.                                                                *)
Look(now) ==
    /\ \E f \in Avails(book, now) : book' = RolledBook(book, now, f)
    /\ UNCHANGED <<clock, settled>>

(* The ledger of a route when it is brought up to date.                    *)
Current(r, now) ==
    {Rolled(book[r], now, v) : v \in Restored(book[r], Expired(book[r], now))}

Write(r, led) ==
    /\ book' = [book EXCEPT ![r] = led]
    /\ UNCHANGED clock

(* A call is settled with what it sent.                                    *)
Settle(r, now) ==
    \E led \in Current(r, now) : \E s \in led.inflight : \E actual \in 0..Requests :
        /\ Write(r, Corrected(led, s, actual))
        /\ settled' = settled \cup
            {[owner |-> s.owner, route |-> r, at |-> s.at, paid |-> actual]}

(* A reservation is given up unused.                                       *)
Release(r, now) ==
    \E led \in Current(r, now) : \E s \in led.inflight :
        /\ Write(r, Unwound(led, {s}, IF After(s) = led.avail THEN s.before
                                                              ELSE led.avail))
        /\ UNCHANGED settled

(* The reservation to settle or release has expired.                       *)
Reap(r, now) ==
    /\ \E led \in Current(r, now) : Write(r, led)
    /\ UNCHANGED settled

Block(r, now) ==
    /\ \E led \in Current(r, now) : \E until \in 0..(clock + Cooldown) :
            Write(r, Blocked(led, until))
    /\ UNCHANGED settled

Next ==
    \/ Tick
    \/ \E now \in 0..clock :
        \/ Look(now)
        \/ \E r \in Routes :
            Reserve(r, now) \/ Settle(r, now) \/ Release(r, now)
            \/ Reap(r, now) \/ Block(r, now)

Spec == Init /\ [][Next]_vars

=============================================================================
