# TLA+ models of city-meeting-podcasts

city-meeting-podcasts turns a city's meeting recordings into podcast feeds.
Most of the code scrapes, transcribes and renders; what makes it a distributed
system is that many short-lived jobs (GitHub Actions shards, Modal and Beam
functions, scheduled reconcilers, an operator's shell) share one object bucket
and, for LLM work, one Cloudflare worker. They coordinate through conditional
writes on objects in the bucket and through the worker's job table. That
coordination is what these modules model.

## 1. The system

| Part | Code | State it keeps | Operations |
|---|---|---|---|
| Work-lease ledger | `citypods/ops/work_leases.py` | one lease object per item, 64 index buckets | `claim`, `renew`, `release`, `abandon`, `requeue_failed`, `reap`, `reap_indexed` |
| Budget ledger | `citypods/compute/budget.py` | one ledger object: per backend the money used, the reservations in flight, the billing cycle | `reserve_if_available`, `settle_reservation`, `release_reservation` |
| Pull workers | `citypods/compute/external_worker.py` | the claim being worked on, a renewal thread, a batch of records to push | claim loop, renewal loop, upload, settle at the end of the run |
| Reconciler | `citypods/compute/dispatch.py` | nothing between runs | `reconcile_compute`, `requeue_failed_work_leases` |
| Bucket | `citypods/storage/s3.py` | objects with an ETag | `get_bytes`, `put_cas` with retries |
| Maintenance leases | `citypods/ops/maintenance_leases.py` | one lease object per lane or write key | `acquire`, `acquire_all`, `assert_held`, `release` |
| Provider leases | `citypods/provider_leases.py`, `citypods/http.py` | N slot objects per domain; per process a semaphore per domain and a renewal thread per held slot | acquisition passes, renewal, release |
| Record store | `citypods/statesync.py`, `citypods/records.py` | a record file per source | pull, `push_records_merged`, `merge_preserving_foreign` |
| LLM route ledger | `citypods/compute/llm_budget.py`, `llm_scheduler.py`, `llm.py` | one ledger object: per route the requests of the day, the request schedule, blocks, reservations in flight | `select_and_reserve`, `reserve`, `settle`, `release`, `block`, reaping and the day's rollover |
| LLM dispatch worker | `workers/llm-dispatch-v2/src/` | a table of job rows, a queue counter, the active bundles; payload and result objects | `enqueueBatch`, `pollBatch`, `cancelBatch`, `claimDispatchWindow`, `completeBatch`, `ackResults`, `retireConsumed`, `purgePendingBatch`, `confirmPurge` |
| LLM deferral | `citypods/compute/llm_deferred.py`, `llm.py` | the deferred record and its failure count per recipe | submit, poll, resolve, retire, acknowledge, discard |
| Everything else | providers, ASR, chapters, feeds, site, search, judging, catalog, remedy queue | | pure computation and I/O, or not modelled yet (section 5) |

How they interact. On the ASR side a worker claims a lease, reserves budget
under the same owner string, renews the lease from a second thread while it
infers, uploads the artifact and leaves the lease as it is. The reconciler later
finds the artifact and settles the lease and the reservation, or finds the lease
expired and requeues and refunds it. The artifact in the bucket is the only
message from the worker to the reconciler. On the record side every lane pulls a
source's record file, works for up to hours, and pushes it back by fetching the
file again, merging its own blocks into it and putting it without a condition;
the chapter lanes and the repair scripts take maintenance leases around that,
the other lanes take none. Media fetches hold a semaphore of their process and,
inside it, a slot of the provider that all shards share. On the LLM side a
stage either calls a provider itself, after reserving on the route ledger, or
stages a payload object, submits it to the dispatch worker and goes away; a
scheduled executor leases queued jobs, calls the provider, stores the result
object and reports; a later run of the stage, or the deferred sweep, polls,
persists the result, deletes the objects and retires the row; a scheduled
cleanup purges what nobody came for.

What is hard: every operation is a read, a decision and a conditional write, so
any two of them interleave between the read and the write; clocks of different
hosts disagree; a write may land and be reported as a conflict (the storage
layer retries a request whose answer was lost, and the retry meets its own
ETag); processes are killed at any point; the index that makes the sweep cheap
is best-effort and may miss a lease; leases and reservations expire under
holders that still work; the billing cycle and the quota day roll while runs
straddle them; the record store has no conditional write at all; the dispatch
worker's rows, their objects and the client's record of them change in separate
steps of separate processes, any of which may be the last.

What makes each part correct: a claim, a slot or a lease is held by one at a
time until it expires, and an operation decided on a stale read changes nothing;
a budget's cap, a route's concurrency, quota and rate hold whatever is retried;
no run overwrites what it has not seen; a job is not with a provider twice, its
result answers its request and is not lost unread; and what was lost with a
process is recovered in the end.

## 2. The modules

| Module | Models | Uses |
|---|---|---|
| `LeaseRecords` | the `WorkLease` object: predicates and the object each operation writes | |
| `LeaseLedger` | what the ledger promises: every operation one atomic step | `LeaseRecords` |
| `WorkLeases` | the operations as their callers run them, split at each storage request | `LeaseRecords`; `INSTANCE LeaseLedger WITH` its refinement mapping |
| `WorkLeasesProofs` | proofs about `WorkLeases` | `WorkLeases` |
| `BudgetLedger` | `BackendLedger` and the methods of `Budget` | |
| `SharedBudget` | what the ledger promises: every admission or settlement one atomic step | `BudgetLedger` |
| `ComputeBudget` | the compare-and-swap loops on the ledger, with worker and reconciler | `BudgetLedger`; `INSTANCE SharedBudget WITH` its refinement mapping |
| `ComputeBudgetProofs` | proofs about `ComputeBudget` | `ComputeBudget` |
| `MaintenanceLeases` | the mutex protocol of `ops/maintenance_leases.py` | |
| `ChapterCommits` | the runs that commit to one record under those leases | `MaintenanceLeases` |
| `ChapterCommitsProofs` | proofs about both | `ChapterCommits` |
| `ProviderLeases` | semaphores and provider slots with their renewal threads | |
| `ProviderLeasesProofs` | proofs about `ProviderLeases` | `ProviderLeases` |
| `LLMBudget` | the LLM route ledger: what each operation makes of it | |
| `RouteQuotas` | what the shared ledger promises: every operation one atomic step | `LLMBudget` |
| `RouteLedgers` | the compare-and-swap loops on the ledger object, selection, and the life of a direct call | `LLMBudget`; `INSTANCE RouteQuotas WITH` its refinement mapping |
| `RouteLedgersProofs` | proofs about `RouteLedgers`: types, reservations, concurrency | `RouteLedgers` |
| `RouteHistoryProofs` | proofs about `RouteLedgers`: what its calls have sent, the daily quota and the request rate | `RouteLedgersProofs` |
| `RouteQuotasProofs` | the proof that `RouteLedgers` implements `RouteQuotas` | `RouteHistoryProofs` |
| `DispatchQueue` | the dispatch worker's rows, executors and cleanup, and its clients | |
| `DispatchQueueProofs` | proofs about `DispatchQueue` | `DispatchQueue` |

`MC*` modules only give small values to constants.

### Work leases

`lease[i]` is the lease object of an item, with the state "absent" when
`read_lease` finds none. ETags are content hashes, so a conditional write is
`lease[i] = seen` followed by the update; `updated_at` is left out because no
operation ever writes an earlier content back (a claim raises `attempts`, a
renewal raises the expiry). `op[t]` is the operation a thread has between its
read and its write: `ClaimRead`, `RenewRead`, `SettleRead` (release and
abandon), `RequeueRead` and `ReapRead` fill it from the code's guards, and four
outcomes empty it: `CasWins`, `CasAnswerLost` (landed, caller told of a
conflict), `CasConflict`, and `RenewRaises` (the renewal loop swallows errors
and tries again; any other operation's error ends its process and is a crash).
After a successful claim or renewal the thread goes on to the index write
(`IndexMutates`, or `IndexFails`, which the code only logs). `held[w]` is what
the worker believes it holds; it is not the ledger's state, and `BeliefTrue`
relates the two. `artifact` holds `<<item, recipe>>` pairs; the reaper's
`ArtifactPresent` ignores the recipe, as the prefix match in
`_transcript_artifact_present` does, and the search may fail to find what is
there (`found` in `ReapRead`). `sweep` is the reconciler's position in
`reap_indexed` (bucket by bucket, then one integrity partition) or in `reap`
(`UseIndex = FALSE`).

Each host has a clock ahead of the slowest by at most `Skew`. A claim counts as
live while no host's clock has reached its expiry; that is the strongest
exclusion TTL leases can give, and `ClaimExclusive` states it.

`LeaseLedger` is the abstract specification: claims, renewals, settlements and
sweeps as single steps on the lease objects. `WorkLeases` implements it
(`AtomicOperations`): forgetting operations in flight, beliefs and the index,
every step is one of the ledger's or a stutter.

### Budget

`ledger` is one backend's ledger. `op[p]` is a read-modify-write of the owner's
or the reconciler's CAS loop, with the ledger it loaded and its attempts so
far. `job[o]` follows one claim from reservation to settlement. `charge` and
`overrun` are history variables: what the operations that took effect charge
each owner, and by how much reported costs exceeded their estimates. An owner
reserves once, so the in-flight map is a set of owners. What all owners owe is
counted as the number of their units, so that it can be reasoned about without
summing over a set. `SharedBudget` is the abstract specification, of the ledger
and the charges alone; `ComputeBudget` implements it (`AtomicUpdates`).

### Maintenance leases and record commits

`lock[k]` is the lease object of a key, `held[p][k]` the expiry of the lease a
run believes it has, `call[p]` an acquire or a release between its read and its
conditional write. `_acquire_single` reads the clock once and the object on
every attempt, and does not recognise its own lease after a lost answer; both
are in `AcquireStart`, `AcquireRead` and `Busy`. Release writes a tombstone and
leaves a lease that is not its own alone.

`ChapterCommits` gives each run the keys it takes for its whole length
(`Outer`) and around its push (`Inner`), the blocks it owns in each push
(`Pushes`), the blocks it changes (`Edits`) and whether its change is to clear
them (`Removers`). The chapter-agenda lane has its lane key outside and the
write key inside, the locator lane likewise with its own lane key; a reset
script has both lane keys outside and pushes twice, for the chapter lanes'
blocks and then for the audio lane's. `PlansFirst` tells the two reset scripts
apart: `reset_agenda_chapter_state.py` pulls and plans before it acquires,
`reset_raw_pdf_agenda_state.py` acquires first. `base` is the run's own copy,
`snap` what `fetch_remote_records` returned, `record` the file in the bucket.
A block's content is named by the run that produced it, so that a property can
tell whose work a put replaces. `Merged` is `merge_preserving_foreign` on the
artifact blocks of one record: an owned block from the local copy, a foreign
one from the remote copy if it is there and from the local copy if not.
`generated_agenda_candidates`, which both chapter lanes own key by key, is taken
as the blocks the lanes own separately; a key that a lane owns and never had
locally is kept by the code and does not occur here. Uids, links with their
null tombstones and `agenda_link_baseline`, stage markers and the dirty journal
are not modelled.

A lease is checked once, before the merge, and nothing fences the put, so a run
that outlives its lease may overwrite anything; `late` records that this has
happened, and `SerialCommits` promises nothing after it. The TTL (six hours) is
the longest a job may run.

### Provider leases

A caller is a thread that runs `with HOST_LIMITER.slots(urls),
DISTRIBUTED_PROVIDER_LEASES.slots(urls)` over and over: it takes the semaphores
of its process for its domains in order (`TakeSemaphore`), then walks over the
slots of each domain from its process's offset (`PassStart`, `ProbeOccupied`,
`ProbeFree`, `PassOn`), reading `now` once per pass, and writes its claim on the
condition of the ETag it read (`ClaimWins`, `ClaimAnswerLost`, `ClaimConflict`).
Each lease has a renewal thread whose write (`put`) may land late, fail, or
outlive the lease when `release` stops waiting for the thread. Release writes
the tombstone only over its own ETag (`ReleaseLands`, `ReleaseSkipped`).
`Crash` kills a process with all its callers.

Time is relative: `slot[s].left` is the number of ticks until the slowest
clock reaches the slot's expiry, and it stops at `-Horizon`, below which no
decision of the code tells two moments apart. Nothing has to bound the clock,
so the liveness run is about behaviours of any length. A payload is never
written twice, so an ETag is represented by who still remembers it (`match`).

### LLM route ledger

`book` is the ledger object, a record per route; `job[j]` follows one
`_run_policy_job` through `select_and_reserve`, the call, a 429's block and
settlement, and each compare-and-swap loop around them. An attempt reads the
clock before it loads the ledger, and the load may come late (`Loads`); the
body it writes is computed from what it loaded (`Select`, `SelectNone`,
`Mutate`) with the rollover of the day and the reaping of expired reservations
that `_ledger` does first (`Turned`, `Unwound`). Reaping goes through
reservations in the order of their random ids, so where it leaves the request
schedule depends on that order: `Restored` is the set of places it may be left
at. `settled` is a history variable with what each settled call sent, and
`DailyLimit` counts the requests of settled and running calls by the day of
their reservation.

`RouteQuotas` is the abstract specification: a reservation, a settlement, a
release, a block, or the bookkeeping of a selection that finds nothing, each one
step on the ledger at a clock reading that is never ahead. `RouteLedgers`
implements it (`AtomicOperations`): forgetting the jobs, every step is one of
those operations or a stutter. A content ETag that comes back after other writes
does no harm, because what a job writes is its operation applied to the content.

All routes belong to one provider and are open to every job; tokens and money
are counted the same way as requests and left out; the legacy per-minute
counter, deadlines, price windows and the ranking of routes (any available
route may be chosen) are left out. The clock is one: runners' clocks agree, but
they read it at different times. `Prompt` says that no day ends between a
reading of the clock and the load that follows it; without it a late load
turns the day back (section 5). `Requests <= Rpd`, and at least one call at a
time, are assumed, as configured routes satisfy them.

### LLM dispatch

`row[r]` is the row of a recipe (its idempotency key is unique), `queued` the
counter the admission limit reads, `active` the bundles not finished, `left[b]`
the ticks until a bundle's leases expire. Each coordinator RPC is one
transaction of a Durable Object and one action: `EnqueueBatch` inside
`PostAccepted` or `PostLost`, `Poll`, `CancelBatch`, `ClaimDispatchWindow` with
the recovery of expired leases it begins with, `CompleteBatch`, `AckResults`,
`RetireConsumed`, `PurgePendingBatch`, `ConfirmPurge`. What happens between
RPCs happens in steps: an executor waits, starts calls under the fence
`Covers`, gets answers (`Answered`, `CallFails`, `CallAgain`), reports, or stops
anywhere; a client stages a payload, posts, posts the same envelope once more
when the answer is lost, polls, persists a result, deletes its objects, retires
the row, falls back to an acknowledgement by id, or stops anywhere; the cleanup
lists, deletes, confirms, or stops. `record[r]` and `failures[r]` are the
deferred record and the marker's failure count.

A payload's key is the id of the submission that staged it, a lease's token and
result key stand for the bundle that made them, and both pools are finite: an
id that nothing refers to any more is as good as a fresh one. The purge of what
nobody fetched waits 38 days in the code; in the model it waits until no client
has a step in hand about that job (`Quiet`), which the retention is chosen to
ensure.

`calm` divides a behaviour: before `CalmDown` messages, objects and processes
may be lost at any time and any admission may be refused; afterwards not. Only
liveness uses it.

## 3. The runs

| Run | Checks | Bounds | Result |
|---|---|---|---|
| `leases` | `TypeOK`, `ClaimExclusive`, `BeliefTrue`, `DoneHasArtifact`, `TerminalStaysSettled`, `LiveLeaseProtected`, `AtomicOperations` | 2 workers with different recipes and clocks, 1 item, TTL 2, skew 1, clock up to 2, 2 attempts | holds, 1.2M states |
| `lease_recovery` | `IndexedRecovered`, `ExpiredRecovered` | 1 worker, 1 item, 2 buckets, index on | holds under fairness, 148k states |
| `budget` | `TypeOK`, `WithinLimits`, `SpendCharged`, `ReservationHeld`, `AtomicUpdates` | 2 owners (1 and 2 units), cap 2, 1 slot, 2 attempts per loop, one cycle | holds, 284k states |
| `chapter_commits` | `TypeOK`, `Exclusive`, `HoldsIsTrue`, `SerialCommits` | both chapter lanes and a lease-first reset, 3 keys, 3 blocks, TTL 1, clock up to 1, 2 attempts | holds, 1.9M states |
| `reset_stale_plan` | `SerialCommits` | agenda lane, plan-first reset | violated |
| `provider_slots` | `TypeOK`, `CapUntilExpiry`, `SureIsTrue`, `NoCircularWait`, `FreesOnlyOwn`, no deadlock | 2 callers in 2 processes, 2 domains with 1 slot each, both wanted by both | holds, 533k states |
| `provider_progress` | `WaitersProgress`, no deadlock | 2 callers of 1 process, 1 domain with 2 slots and a semaphore of 1 | holds under fairness, 12k states |
| `llm_routes` | `TypeOK`, `CallReserved`, `ConcurrencyKept`, `DailyLimit` | 2 jobs, 2 routes, 2 requests per reservation, 3 per day, concurrency 1, TTL 2, day 2, 2 attempts, clock up to 2 | holds, 1.1M states |
| `llm_pacing` | `AdmissionsPaced`, `AtomicOperations` | 2 jobs, 1 route, 4 requests per day, interval 1, concurrency 2, TTL 3, day 2, 1 attempt, 1 retry after a 429, clock up to 3 | holds, 436k states |
| `dispatch` | `TypeOK`, `QueueCounted`, `OneCallPerJob`, `ResultAnswersRequest`, `CompletionsHeard`, `RowOutlivesResult` | 1 recipe, 2 clients, 2 contents, 2 ids, 2 bundles of which 1 active, leases that expire at the next tick, no retries | holds, 926k states |
| `dispatch_progress` | `Settles` | 1 recipe, 1 client, 3 ids, 1 bundle, lease 1, 1 transient retry, 2 counted failures | holds under fairness, 73k states |
| `dispatch_retries` | `FailuresAreCalls` | as `dispatch_progress`, 2 ids, no retries | violated |

Why these bounds. Items are independent of each other except through a worker's
attention and the index buckets, so one item carries the races on a lease; two
workers, a reaper and an operator give every pair of writers. A claim at time 0
expires for every host within the clock bound, so expiry, reclaim and reopening
under another recipe (the second attempt) all happen. Two owners suffice for the
budget's races because the reconciler is the third process; with one slot and a
cap of 2 both limits bind. In `chapter_commits` a lease taken at time 0 lapses
at time 1, so a run may be overtaken in the middle of its push and release a
lease that is no longer its own; the three runs hold three different sets of
keys. `provider_slots` has the smallest instance where two processes could wait
for each other in a circle, and one slot per domain makes every claim
contended; `provider_progress` has two slots so that a pass has an order, and a
semaphore that makes one caller wait inside the process. In `llm_routes` a
third request of the day does not fit a second reservation, reservations
expire while calls run, and the day ends within the clock bound; `llm_pacing`
lets two reservations overlap on one schedule and settle in either order.
One recipe carries the races on a dispatch row, since rows meet only in the
counter and in a bundle; two clients, two bundles and the cleanup are every
pair of writers, with two contents to supersede each other. For more recipes,
clients and windows there are the proofs. Symmetry is used over jobs and over
the pools of ids and bundles, in safety runs only.

Deadlock is checked where the system runs for ever (`ProviderLeases`); in the
other runs clocks, attempts or claims are bounded, so a behaviour ends.

### Fairness

`lease_recovery`: the reconciler is a scheduled workflow (`asr.yml`), so sweeps
start again for ever (`WF` on its steps) and its storage requests are answered;
it may crash any number of times but from some point on every sweep that stops
has come to its end. Nothing is assumed of workers, and nothing of which
integrity partitions the sweeps start in. An indexed lease needs no partition
(`IndexedRecovered`); for one without an entry `ExpiredRecovered` carries the
proviso that sweeps keep starting in its partition, because nothing in the code
provides it (see "Known behaviours").

`provider_progress`: time passes, every caller and every begun renewal goes on
(`WF` on `Tick`, `Runs`, `Resolves`), processes are not killed for ever, and a
walk that again and again finds a free slot, or again and again may write its
claim, in the end does (`SF` on `ProbeFree` and `ClaimWins`): two walkers that
keep overtaking each other do so by the jitter of their sleeps.
`WaitersProgress` promises that the waiting caller or another gets through; the
code has no queue, so no more is true.

`dispatch_progress`: faults come to an end (`calm`). Dispatch windows and the
cleanup are scheduled, a client ends what it began and time passes (`WF`);
pollers, resubmissions, the claim of a recipe's job and the listing of a purge
are taken when they are possible again and again (`SF`), since each is one
scheduled run among others that may meet the row in another state. Once calm,
only provider calls take an executor time and the retention does not outrun the
polls. With two recipes and a queue limit of one, a recipe may be refused for
ever while the other's results are rejected without being counted; the run
therefore has one.

### What the violated properties show

* `SerialCommits` with the plan-first reset: what a chapter lane commits between
  the reset's pull and its acquisition is overwritten unseen.
* `FailuresAreCalls`: a failed job whose handle was discarded and that is asked
  for again under the same content meets the same failed row; the failure is
  counted a second time though no provider was called.

## 4. What is proved

All theorems are for every value of the constants under the named assumptions
of the modules. TLC evaluates those assumptions in the runs.

`WorkLeasesProofs`, for every set of items, workers, recipes, every TTL, skew
and bucket layout: `TypeOK`, `BeliefTrue`, `ClaimExclusive`, `DoneHasArtifact`,
`TerminalStaysSettled`, `LiveLeaseProtected`, and that `WorkLeases` implements
`LeaseLedger` (`AtomicOperations`). The inductive invariant `Inv` adds to the
properties what each operation in flight knows about the lease it read
(`OpKnows`): a claim in flight read a claimable lease at a clock reading not
ahead of its host, a renewal read its own unexpired lease, and so on. When the
write lands the lease still equals what was read, so that knowledge is about the
lease being overwritten. None of the properties is inductive without it: a state
with an arbitrary operation in flight breaks all of them in one step.
`LeaseWellFormed` (a held lease has an owner and an expiry its owner's clock can
explain) makes renewals monotone; `SettlingIsNotWorking` keeps a worker's own
release from contradicting its belief.

`ComputeBudgetProofs`, for any number of owners, any estimates, cap, slots,
attempts and cycles: `TypeOK` and `WithinLimits`; the strengthening is
`AdmissionChecked`: an admission that has loaded the ledger was checked against
that very ledger. For the same reason every write that lands is one operation of
`SharedBudget` or changes nothing (`AtomicUpdates`). For one billing cycle: `ReservationHeld`, from `HeldInv`, and
`SpendCharged`, from `DueCharged`: the ledger equals what the owners owe, and
what an operation in flight will charge does not depend on others. The sum over
owners is the cardinality of the set of their units (`Units`), so a change of
one owner's charge is the insertion or removal of that owner's units, without
induction. With two cycles both are false: admission of the other cycle zeroes
the ledger.

`ChapterCommitsProofs`, for any runs, keys, blocks, TTL, skew and attempts:
that the runs follow the lease protocol (`RunsFollowProtocol`), `TypeOK`,
`Exclusive` and `HoldsIsTrue`. The strengthening is `CallKnows`: an acquire in
flight read an inactive object at a clock reading no host is behind by more than
the skew, a release read its own. `SerialCommits` is proved under `Disciplined`:
nobody plans first, every two runs share a key, and two runs that own a block in
common, or of which one clears blocks, share an outer key. The three kinds of
run satisfy it although no key is common to all; the plan-first reset does not,
and the audio lane, which takes no lease, does not either. `CommitInv` carries
the argument: while a run's outer leases last, its copy of what it owns is
current and it knows of every cleared block (`SeenCurrent`); while all its
leases last, the record is what it fetched (`FetchedCurrent`).

`ProviderLeasesProofs`, for any processes, callers, domains, slots, offsets,
TTL and skew: `TypeOK`, `SureIsTrue`, `CapUntilExpiry`, `FreesOnlyOwn` and
`NoCircularWait`. `SlotInv` adds `Placed` (walks, leases and renewals point at
slots of their domain) and `MatchTrue` (a remembered ETag that is still the
object's belongs to the one that wrote it last). `NoCircularWait` rests on
`InOrder`: what a caller holds of a kind comes before what it waits for; the
least waiting caller of a supposed circle then waits for nobody in it. Clock
skew is covered here only: the runs have hosts that agree.

`RouteLedgersProofs`, for any jobs, routes, quotas, TTL, day and attempts:
`TypeOK`, `CallReserved` and `ConcurrencyKept`. `LedgerInv` says of every
attempt in flight that the body it is about to write keeps the unexpired
reservations of others that it loaded (`BodyKeeps`), has its own
(`BodyReserves`) and is within the limits; `ConcurrencyKept` then follows by
mapping each call in time to its reservation.

`RouteHistoryProofs`, for the same: `AdmissionsPaced`, and under `Prompt`
`DailyLimit`. `HistoryInv` adds to `LedgerInv` that each route's ledger, with
the calls settled on it, is `Accounted`: a call is in the account once, as a
reservation or as a settled call (`Unique`), and its owner is never used again
(`Fresh`, `Unpaid`); the schedule is past the end of every call, and the place a
reservation remembers, where unwinding it would set the schedule back to, is
past the end of every call that is not later (`OnSchedule`); and the counter
covers the requests of the day, one by one (`WithinDay`). Three arguments carry
it. What a job is about to write is its operation applied to the ledger it
loaded (`Computed`), so every write that lands is a whole operation on the
ledger it replaces. Unwinding reservations in any order never pulls the schedule
from under a call that is not unwound (`Displaced`): of a chain of reservations
that give way to each other, the one with the latest end leads to a
contradiction. And sums over calls are the cardinality of the set of their
requests, so `DailyLimit` follows from two injections: of the settled calls'
requests, and of those of calls in time by way of their reservations, into the
requests the account holds for that day. `AdmissionsPaced` needs no `Prompt`: a
day that is rolled back loses a count and no schedule.

`RouteQuotasProofs`, for the same and without `Prompt`: `RouteLedgers`
implements `RouteQuotas`. From `Computed` and `Unique`, a write that lands is
`Reserve`, `Look`, `Block`, or, as the reservation it is about is still there or
not, `Settle` or `Release`, or `Reap`; `BlocksSoon` bounds how long a 429 may
block a route.

`DispatchQueueProofs`, for any number of recipes, clients, contents, windows,
limits and lease lengths: `TypeOK`, `QueueCounted`, `OneCallPerJob`,
`ResultAnswersRequest`, `CompletionsHeard` and `RowOutlivesResult`. `DispatchInv`
says what rows, executors and clients know of each other: the payload a row
points at asks what the row asks and its result's bundle has ended (`RowKnows`);
an executor whose lease has not expired is still the row's and a call in
progress leaves room for what it may still take (`ItemKnows`); the key a client
is about to retire by is not written again (`OpKnows`).

Only model-checked: the liveness properties `IndexedRecovered`,
`ExpiredRecovered`, `WaitersProgress` and `Settles`, since liveness under fairness is outside what
the prover does, as are `ENABLED` and induction over data. Every invariant and
every action property of a passing run is proved.

## 5. What is not modelled, and the plan

### Left out of the modelled parts

* Work leases and budget: the legacy `work.json` leases of the push dispatcher,
  dry runs, runtime estimates. A claim may judge and stamp by a clock reading of
  any age; the other worker operations read clock and object in one step.
* Record commits: `_preserve_remote_planning_if_better` (`records.py:2020-2058`),
  by which a strictly better remote plan replaces planning fields and blocks of
  the pushed record; the runs modelled start from equally ranked plans.
* Provider leases: `configure`, unconfigured domains, telemetry. `Age` stops at
  `-Horizon`, which is a device of the model.
* Route ledger: tokens, money, deadlines, price windows, ranking, and every
  transport but the direct one.
* Dispatch worker: schema correction and pass-through bodies; structural and
  terminal reasons (a failed call is one kind of failure); jobs failed at claim
  for want of a route or for their size; `recountQueuedJobs`; the amounts of
  daily caps and row budgets (before `calm` any admission may be refused);
  the terminal feed's cursor; per-route exclusions, which are part of the retry
  budget; several recipes in one client call; a crash in
  `discard_terminal_failure` between marker and delete, which counts twice;
  the backoff before a call is made again; an answer's put that lands after the
  call's lease expired (it is the end of the call in the model; its key is the
  lease token's, so no other call reads or writes it).
  Recovery of expired leases happens at every claim, as it does when
  `RECOVERY_INTERVAL_MINUTES` is not set.

### Known behaviours outside the properties

The models, or the reading for them, also show these; the properties are stated
so as not to claim more than the code keeps.

* A claim under a new recipe is settled "done" from the old recipe's artifact
  (`ops/work_leases.py:577`), after which the item is terminal for the new one.
* The sweep's prune may remove the index entry of an item claimed again during
  the sweep (`ops/work_leases.py:756-760`); only the integrity partition
  repairs it.
* The integrity sweep does not cover the backlog, as its docs say it does:
  "still recovering full backlog coverage every bucket_count runs"
  (`ops/work_leases.py:714-716`), "worst-case full coverage down to
  INDEX_BUCKET_COUNT minutes" (`work_leases.py:107-108`), "the full backlog is
  eventually re-checked" (`compute/dispatch.py:456-459`). The partition is the
  minute the sweep starts in, modulo 64. Runs on schedule (`34 */5 * * *`) start
  in 10 of the 64 and, if they all take as long to reach the sweep, visit the
  same 10 for ever; steps of whole hours could never reach more than 16. The
  others are visited only when runs start late. `ExpiredRecovered` without its proviso is false in the model: a worker
  dies between its claim and the index write, the lease expires, and every
  sweep visits the other partition. An item that is still a candidate may then
  be claimed again by a worker, which needs no reaper; the dead claim's budget
  reservation is not released.
* A worker whose last flush fails, or that dies before it, leaves an artifact
  without a record (`compute/external_worker.py:797`). The reconciler then finds
  the artifact and settles the lease as done, so no later run claims the item
  and adopts the artifact, which `external_worker.py:793-796` counts on; the
  operator's `compute reclaim-transcript` publishes it.
* Runs on both sides of a billing rollover zero each other's ledger
  (`compute/budget.py:157`), and one cycle's charges may then exceed the cap.
* After a lost answer `reserve_if_available` may refuse because of its own
  reservation, which stays (`compute/budget.py:478-494`).
* A lapsed claim that is still running is refunded (`compute/dispatch.py:454`).
* The audio lane takes no lease, so a chapter lane's commit between its fetch and
  its put is undone by the put (`statesync.py:896`).
* `select_route` fails its assertion when the provider's concurrency is taken
  and a route has no ledger yet (`compute/llm_scheduler.py:505-507`): the
  outcome `asserted`.
* A runner that read the clock before midnight and loads the ledger after
  another has rolled it turns the day back, and both days' counts are lost
  (`compute/llm_budget.py:747`): excluded by `Prompt`, which only `DailyLimit`
  needs.
* When a client has deleted a completed job's objects and both the retirement
  and the acknowledgement are refused, submissions replay the completed row
  without a result until the retention ends.
* A late acknowledgement names a job by id only; after a supersede it may purge
  the row of a newer result (`coordinator.js:8026`). The retirement, which
  `RowOutlivesResult` is about, is fenced by the result's key.
* A delayed second post of an envelope may insert a row again after the job was
  retired, with a payload key whose object is deleted (`compute/llm.py:2324`).

### Not modelled

The remedy queue and ledger, the orchestration of stages, ASR, alignment and
media, providers and discovery, chapters, feeds, site, search, the provider
catalog and judging: they compute, render or fetch, and meet other processes
only through the record store and the parts above.

Next, in this order:

1. `TranscriptPublication`: the worker's batched record push next to the lease
   ledger, and who publishes after a crash.
2. `RecordSync`: uid ownership of per-episode shards, link tombstones and
   `agenda_link_baseline`, stage markers, the dirty journal and the snapshot
   manifest, next to the block merge `ChapterCommits` has.
3. The remedy queue and its ledger.

Worth proving there: that sharded pushes keep the uids they do not own, and that
what a crashed worker uploaded is published by somebody.
