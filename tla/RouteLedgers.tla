---------------------------- MODULE RouteLedgers ----------------------------
(***************************************************************************)
(* How runners share the route ledger: it is one object in the bucket that *)
(* each of them reads, changes (LLMBudget) and writes back on the          *)
(* condition that nobody did so meanwhile; select_and_reserve              *)
(* (llm_scheduler.py) and mutate_llm_budget (llm_budget.py); and the life  *)
(* of a call around them, _run_policy_job (llm.py).  Every route is open   *)
(* to every job.                                                           *)
(***************************************************************************)
EXTENDS LLMBudget

CONSTANTS
    NoRoute,       \* the route of a selection that found none
    Cooldown,      \* how long a 429 blocks a route
    MaxTries,      \* attempts of a compare-and-swap loop
    MaxRounds,     \* max_capacity_retries
    MaxClock,      \* bound of the model
    Prompt         \* no day ends between a reading of the clock and the load

ASSUME RouteAssumption ==
    /\ IsFiniteSet(Jobs) /\ NoRoute \notin Routes
    /\ Cooldown \in Nat
    /\ MaxTries \in Nat \ {0} /\ MaxRounds \in Nat /\ MaxClock \in Nat
    /\ Prompt \in BOOLEAN

VARIABLES
    clock,
    book,      \* the ledger object: a RouteLedger for each route
    job,       \* where each job is
    settled    \* history: the calls that were settled, and what they paid

vars == <<clock, book, job, settled>>

-----------------------------------------------------------------------------
(* A job: what it does next; the operation on the ledger it is in, when    *)
(* its attempt began (from the load on: the clock as it read it), and the  *)
(* attempts before; the uuids it has used and the route, time and requests *)
(* of its call; how long a 429 blocks the route and whether another route  *)
(* is tried then; the ledger it loaded, and the one it writes instead.     *)
NewJob ==
    [pc |-> "idle", op |-> "reserve", now |-> 0, tries |-> 0, round |-> 0,
     uuid |-> 0, route |-> NoRoute, at |-> 0, sent |-> 0, until |-> 0,
     sibling |-> FALSE, seen |-> NewBook, body |-> NewBook]

JobTypes ==
    [pc : {"idle", "load", "put", "call", "done", "asserted"},
     op : {"reserve", "block", "settle", "rejected", "release"},
     now : Nat, tries : Nat, round : Nat, uuid : Nat,
     route : Routes \cup {NoRoute}, at : Nat, sent : Nat, until : Nat,
     sibling : BOOLEAN, seen : [Routes -> Ledgers], body : [Routes -> Ledgers]]

Init ==
    /\ clock = 0
    /\ book = NewBook
    /\ job = [j \in Jobs |-> NewJob]
    /\ settled = {}

Owner(j) == <<j, job[j].uuid>>

Tick ==
    /\ clock < MaxClock
    /\ clock' = clock + 1
    /\ UNCHANGED <<book, job, settled>>

(* An attempt of a compare-and-swap loop begins.                           *)
Attempt(j, op, tries) ==
    [job[j] EXCEPT !.pc = "load", !.op = op, !.now = clock, !.tries = tries,
                   !.seen = NewBook, !.body = NewBook]

Begin(j) ==
    /\ job[j].pc = "idle"
    /\ job' = [job EXCEPT ![j] = Attempt(j, "reserve", 0)]
    /\ UNCHANGED <<clock, book, settled>>

(* An attempt reads the clock, and then loads the ledger.                  *)
Loads(j, now) ==
    /\ job[j].pc = "load"
    /\ now \in job[j].now..clock
    /\ Prompt => Day(now) = Day(clock)

Writes(j, now, body) ==
    [job[j] EXCEPT !.pc = "put", !.now = now, !.seen = book, !.body = body]

(* select_route fails its assertion.                                       *)
AssertFails(j, now) ==
    /\ Loads(j, now) /\ job[j].op = "reserve"
    /\ \E f \in Avails(book, now) : Asserts(RolledBook(book, now, f), now)
    /\ job' = [job EXCEPT ![j] = [NewJob EXCEPT !.pc = "asserted"]]
    /\ UNCHANGED <<clock, book, settled>>

(* select_and_reserve up to its write, with a route (whichever ranks best) *)
(* or with none.                                                           *)
Select(j, now, r) ==
    /\ Loads(j, now) /\ job[j].op = "reserve"
    /\ \E f \in Avails(book, now) :
        LET b == RolledBook(book, now, f) IN
        /\ ~Asserts(b, now) /\ Available(b, r, now)
        /\ job' = [job EXCEPT ![j] =
            [Writes(j, now, [b EXCEPT ![r] = Reserved(@, <<j, job[j].uuid + 1>>, now)])
                EXCEPT !.route = r, !.uuid = @ + 1]]
    /\ UNCHANGED <<clock, book, settled>>

SelectNone(j, now) ==
    /\ Loads(j, now) /\ job[j].op = "reserve"
    /\ \E f \in Avails(book, now) :
        LET b == RolledBook(book, now, f) IN
        /\ ~Asserts(b, now) /\ \A r \in Routes : ~Available(b, r, now)
        /\ job' = [job EXCEPT ![j] = Writes(j, now, b)]
    /\ UNCHANGED <<clock, book, settled>>

(* Mutant: a rejected call is given back one request too many.             *)
ActualLess(j) == IF job[j].op = "rejected" THEN job[j].sent - 2 ELSE job[j].sent

(* max(attempted_requests, 1), and one less when the last was rejected.    *)
Actual(j) == IF job[j].op = "rejected" THEN job[j].sent - 1 ELSE job[j].sent

(* mutate_llm_budget up to its write.                                      *)
Mutated(j, led) ==
    CASE job[j].op = "block" -> Blocked(led, job[j].until)
      [] job[j].op = "release" -> Released(led, Owner(j))
      [] OTHER -> Settled(led, Owner(j), Actual(j))

Mutate(j, now) ==
    /\ Loads(j, now) /\ job[j].op # "reserve"
    /\ LET r == job[j].route IN
       \E avail \in Restored(book[r], Expired(book[r], now)) :
            job' = [job EXCEPT ![j] = Writes(j, now,
                        [book EXCEPT ![r] = Mutated(j, Rolled(@, now, avail))])]
    /\ UNCHANGED <<clock, book, settled>>

-----------------------------------------------------------------------------
Ended == [NewJob EXCEPT !.pc = "done"]

(* The operation succeeded.                                                *)
Proceeds(j) ==
    job' = [job EXCEPT ![j] =
        CASE job[j].op = "reserve" /\ job[j].route # NoRoute ->
                [NewJob EXCEPT !.pc = "call", !.route = job[j].route,
                    !.uuid = job[j].uuid, !.at = job[j].now,
                    !.round = job[j].round]
          [] job[j].op = "block" -> Attempt(j, "rejected", 0)
          [] job[j].op = "rejected" /\ job[j].sibling /\ job[j].round < MaxRounds ->
                [NewJob EXCEPT !.pc = "load", !.now = clock, !.uuid = job[j].uuid,
                    !.round = job[j].round + 1]
          [] OTHER -> Ended]

(* It met a conflict: another attempt, or the job gives up (a reservation  *)
(* it has is left to its TTL).                                             *)
TriesAgain(j) ==
    job' = [job EXCEPT ![j] =
        IF job[j].tries + 1 < MaxTries
        THEN [Attempt(j, job[j].op, job[j].tries + 1) EXCEPT
                !.route = IF job[j].op = "reserve" THEN NoRoute ELSE @]
        ELSE Ended]

(* The settlement j writes, if its reservation is still there to settle.   *)
Settlement(j) ==
    {[owner |-> s.owner, route |-> job[j].route, at |-> s.at, paid |-> Actual(j)] :
        s \in {u \in Own(job[j].seen[job[j].route], Owner(j)) :
                    u.at + TTL > job[j].now}}

(* Mutant: the write is not conditional.                                   *)
LandsAnyway(j) ==
    /\ book' = job[j].body
    /\ settled' = IF job[j].op \in {"settle", "rejected"}
                  THEN settled \cup Settlement(j) ELSE settled

Lands(j) ==
    /\ book = job[j].seen
    /\ book' = job[j].body
    /\ settled' = IF job[j].op \in {"settle", "rejected"}
                  THEN settled \cup Settlement(j) ELSE settled

Put(j) ==
    /\ job[j].pc = "put" /\ Lands(j)
    /\ Proceeds(j)
    /\ UNCHANGED clock

(* Nothing is written when there is nothing to reserve and the ledger has  *)
(* the rolled content already.                                             *)
PutUnneeded(j) ==
    /\ job[j].pc = "put" /\ job[j].op = "reserve" /\ job[j].route = NoRoute
    /\ book = job[j].body
    /\ Proceeds(j)
    /\ UNCHANGED <<clock, book, settled>>

(* The write lands and its answer is lost.  It is sent again, meets the    *)
(* new ETag and is taken for a conflict.                                   *)
PutAnswerLost(j) ==
    /\ job[j].pc = "put" /\ job[j].body # job[j].seen /\ Lands(j)
    /\ UNCHANGED <<clock, job>>

PutConflict(j) ==
    /\ job[j].pc = "put" /\ book # job[j].seen
    /\ TriesAgain(j)
    /\ UNCHANGED <<clock, book, settled>>

-----------------------------------------------------------------------------
(* The call itself, _attempt_policy_route.                                 *)

Send(j) ==
    /\ job[j].pc = "call" /\ job[j].sent < Requests
    /\ job' = [job EXCEPT ![j].sent = @ + 1]
    /\ UNCHANGED <<clock, book, settled>>

(* A result, or an error of any kind but a rate limit.                     *)
CallEnds(j) ==
    /\ job[j].pc = "call"
    /\ job' = [job EXCEPT ![j] =
                Attempt(j, IF job[j].sent > 0 THEN "settle" ELSE "release", 0)]
    /\ UNCHANGED <<clock, book, settled>>

(* A 429, on which another route may be tried.                             *)
RateLimited(j) ==
    /\ job[j].pc = "call" /\ job[j].sent > 0
    /\ \E sibling \in BOOLEAN :
        job' = [job EXCEPT ![j] = [Attempt(j, "block", 0) EXCEPT
                    !.until = clock + Cooldown, !.sibling = sibling]]
    /\ UNCHANGED <<clock, book, settled>>

(* The runner is killed, or a storage error ends the job.                  *)
Crash(j) ==
    /\ job[j].pc \in {"load", "put", "call"}
    /\ job' = [job EXCEPT ![j] = Ended]
    /\ UNCHANGED <<clock, book, settled>>

Next ==
    \/ Tick
    \/ \E j \in Jobs :
        \/ Begin(j)
        \/ \E now \in 0..MaxClock :
            \/ AssertFails(j, now) \/ SelectNone(j, now) \/ Mutate(j, now)
            \/ \E r \in Routes : Select(j, now, r)
        \/ Put(j) \/ PutUnneeded(j) \/ PutAnswerLost(j) \/ PutConflict(j)
        \/ Send(j) \/ CallEnds(j) \/ RateLimited(j) \/ Crash(j)

Spec == Init /\ [][Next]_vars

-----------------------------------------------------------------------------
TypeOK ==
    /\ clock \in Nat
    /\ book \in [Routes -> Ledgers]
    /\ job \in [Jobs -> JobTypes]
    /\ settled \subseteq [owner : Owners, route : Routes, at : Nat, paid : Nat]

(* A call in time: its reservation has not expired.                        *)
InTime(j) == job[j].pc = "call" /\ clock < job[j].at + TTL

(* Whatever other runners load, reap and write, and whichever answers are  *)
(* lost, a call in time has its reservation in the ledger.                 *)
CallReserved ==
    \A j \in Jobs : InTime(j) =>
        \E s \in book[job[j].route].inflight : s.owner = Owner(j) /\ s.at = job[j].at

(* No more calls in time run on a route, or at the provider, than quota    *)
(* concurrency and provider_concurrency allow.                             *)
ConcurrencyKept ==
    /\ \A r \in Routes :
        Cardinality({j \in Jobs : InTime(j) /\ job[j].route = r}) <= Concurrency
    /\ Cardinality({j \in Jobs : InTime(j)}) <= ProviderConcurrency

(* The requests of calls under a reservation made on day d of route r, one *)
(* by one: those of the calls settled, and of the ones that run.           *)
SettledOn(r, d) ==
    UNION {{c} \X (1..c.paid) : c \in {x \in settled : x.route = r /\ Day(x.at) = d}}

RunningOn(r, d) ==
    UNION {{j} \X (1..job[j].sent) :
            j \in {k \in Jobs : InTime(k) /\ job[k].route = r /\ Day(job[k].at) = d}}

SentOn(r, d) == Cardinality(SettledOn(r, d)) + Cardinality(RunningOn(r, d))

(* The daily quota: across rollovers, reaping, retries and lost answers,   *)
(* calls that end in time never send more on a route in a day than Rpd.    *)
DailyLimit == \A r \in Routes : \A d \in 0..Day(clock) : SentOn(r, d) <= Rpd

(* The calls of a route that its schedule accounts for: settled ones with  *)
(* what they sent, if anything, and reserved ones in full.                 *)
Paced(r) ==
    {[owner |-> c.owner, at |-> c.at, paid |-> c.paid] :
        c \in {x \in settled : x.route = r /\ x.paid > 0}}
    \cup {[owner |-> s.owner, at |-> s.at, paid |-> Requests] :
            s \in book[r].inflight}

(* The request rate: of any two such calls one was admitted only after the *)
(* time the other's requests take of the schedule.  A late settlement must *)
(* not pull the schedule from under a reservation made after it.           *)
AdmissionsPaced ==
    \A r \in Routes : \A c, d \in Paced(r) : c.owner # d.owner =>
        \/ d.at >= c.at + Interval * c.paid
        \/ c.at >= d.at + Interval * d.paid

(* What any number of runners make of the ledger object, with conflicts,   *)
(* lost answers and late clock readings, is one operation of LLMBudget     *)
(* after the other.                                                        *)
Quotas == INSTANCE RouteQuotas WITH clock <- clock, book <- book, settled <- settled
AtomicOperations == Quotas!Spec

-----------------------------------------------------------------------------
(* What the proofs rest on.  A job has a route when it needs one, and has  *)
(* sent something when it settles; the moments it knows of are past.       *)
JobPlaced(j) ==
    /\ job[j].now <= clock /\ job[j].at <= clock
    /\ job[j].pc = "idle" => job[j].route = NoRoute
    /\ job[j].pc = "call" => job[j].route \in Routes
    /\ job[j].pc = "load" /\ job[j].op = "reserve" => job[j].route = NoRoute
    /\ job[j].pc \in {"load", "put"} /\ job[j].op # "reserve" =>
        job[j].route \in Routes
    /\ job[j].pc \in {"load", "put"} /\ job[j].op \in {"block", "settle", "rejected"} =>
        job[j].sent > 0

(* What a job writes keeps the reservations of others that it loaded and   *)
(* that have not expired, and has the one it makes.                        *)
BodyKeeps(j) ==
    job[j].pc = "put" =>
        \A r \in Routes : \A s \in job[j].seen[r].inflight :
            s.at + TTL > job[j].now /\ s.owner # Owner(j) =>
                s \in job[j].body[r].inflight

BodyReserves(j) ==
    job[j].pc = "put" /\ job[j].op = "reserve" /\ job[j].route # NoRoute =>
        \E s \in job[j].body[job[j].route].inflight :
            s.owner = Owner(j) /\ s.at = job[j].now

(* A ledger within its limits.                                             *)
RouteWithin(led) ==
    /\ IsFiniteSet(led.inflight) /\ Cardinality(led.inflight) <= Concurrency
    /\ ~led.exists => led.inflight = {}

Within(b) ==
    /\ \A r \in Routes : RouteWithin(b[r])
    /\ IsFiniteSet(AllInflight(b))
    /\ Cardinality(AllInflight(b)) <= ProviderConcurrency

BodyInv(j) ==
    /\ JobPlaced(j) /\ BodyKeeps(j) /\ BodyReserves(j)
    /\ job[j].pc = "put" => Within(job[j].body)

LedgerInv ==
    /\ TypeOK /\ Within(book) /\ CallReserved
    /\ \A j \in Jobs : BodyInv(j)

=============================================================================
