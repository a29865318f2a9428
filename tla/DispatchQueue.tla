--------------------------- MODULE DispatchQueue ---------------------------
(***************************************************************************)
(* LLM Dispatch v2: the coordinator's job rows, the scheduled executors    *)
(* that call the providers, the scheduled cleanup, and the clients (the    *)
(* pipeline stages and the deferred sweep) that submit recipes, poll them  *)
(* and keep the shared deferred record.  Every coordinator RPC is one      *)
(* transaction (workers/llm-dispatch-v2/src/coordinator.js); a client, an  *)
(* executor and the cleanup are sequences of RPCs and of reads, writes and *)
(* deletes of objects, and may stop between any two of them.               *)
(*                                                                         *)
(* A recipe has at most one row (its idempotency key is unique).  A        *)
(* payload object's key is the id of the submission that staged it; a row  *)
(* keeps the id it was inserted with.  A job's lease token is fresh per    *)
(* claim, so the bundle that leased it stands for it, and for the result   *)
(* key made from it.  The pools are finite: an id nobody refers to any     *)
(* more is as good as a fresh one.  Time is relative: left counts the      *)
(* ticks until a bundle's lease_expires_at, -1 when that is past.          *)
(***************************************************************************)
EXTENDS Integers, FiniteSets

CONSTANTS
    Recipes,     \* idempotency keys
    NoRecipe,
    Clients,     \* stages and sweeps, one batch call at a time each
    Digests,     \* contents a recipe's request may take
    NoDigest,
    Ids,         \* submission ids
    NoId,
    Bundles,     \* dispatch windows
    NoBundle,
    MaxQueued,   \* MAX_QUEUED_JOBS
    MaxBundles,  \* MAX_ACTIVE_BUNDLES
    Lease,       \* LEASE_DURATION_SECONDS
    MaxResponse, \* MAX_RESPONSE_SECONDS
    MaxRetries,  \* the transient retry budget
    MaxFailures  \* MAX_TERMINAL_FAILURE_RETRIES

ASSUME DispatchAssumption ==
    /\ IsFiniteSet(Recipes) /\ IsFiniteSet(Bundles)
    /\ NoRecipe \notin Recipes /\ NoDigest \notin Digests
    /\ NoId \notin Ids /\ NoBundle \notin Bundles
    /\ MaxQueued \in Nat \ {0} /\ MaxBundles \in Nat \ {0}
    /\ Lease \in Nat /\ MaxResponse \in Nat /\ MaxResponse <= Lease
    /\ MaxRetries \in Nat /\ MaxFailures \in Nat \ {0}

VARIABLES
    row,      \* jobs, the coordinator's table
    queued,   \* scheduler.queued_job_count
    active,   \* the active bundles
    left,     \* ticks until a bundle's leases expire
    run,      \* what the executor of each bundle knows of its jobs
    payloads, \* the payload objects: what each submission asked
    results,  \* the result objects: what each answers
    record,   \* the deferred record of each recipe
    failures, \* failure_count of each recipe's marker
    client,   \* what each client is doing
    cleaner,  \* the job the cleanup is purging
    charged,  \* recipes whose failed row has been counted (history)
    calm      \* whether faults are over

coordinator == <<row, queued, active>>
objects == <<payloads, results>>
marks == <<record, failures>>

vars == <<row, queued, active, left, run, payloads, results, record, failures,
          client, cleaner, charged, calm>>

-----------------------------------------------------------------------------
MkRow(state, id, payload, digest, result, bundle, retries) ==
    [state |-> state, id |-> id, payload |-> payload, digest |-> digest,
     result |-> result, bundle |-> bundle, retries |-> retries]

RowStates ==
    {"absent", "queued", "leased", "completed", "failed", "purge_pending"}

Rows ==
    [state : RowStates, id : Ids \cup {NoId}, payload : Ids \cup {NoId},
     digest : Digests \cup {NoDigest}, result : Bundles \cup {NoBundle},
     bundle : Bundles \cup {NoBundle}, retries : 0..MaxRetries]

NoRow == MkRow("absent", NoId, NoId, NoDigest, NoBundle, NoBundle, 0)

(* A row back in the queue: its lease is cleared.                          *)
Requeued(j, retries) ==
    [j EXCEPT !.state = "queued", !.bundle = NoBundle, !.retries = retries]

Settled(j, state, result) ==
    [j EXCEPT !.state = state, !.bundle = NoBundle, !.result = result]

In(state) == {r \in Recipes : row[r].state = state}

Bit(b) == IF b THEN 1 ELSE 0

(* The row a job id names, if it is still there.                           *)
Names(r, i) == row[r].state # "absent" /\ row[r].id = i

(* A job of a bundle as its executor sees it: where it is, the payload key *)
(* of the claim, what the payload asked, and how long the call has run.    *)
MkItem(stage, payload, digest, age) ==
    [stage |-> stage, payload |-> payload, digest |-> digest, age |-> age]

Outcomes == {"success", "late", "transient", "terminal"}

Items ==
    [stage : {"none", "waiting", "calling"} \cup Outcomes,
     payload : Ids \cup {NoId}, digest : Digests \cup {NoDigest},
     age : 0..MaxResponse]

NoItem == MkItem("none", NoId, NoDigest, 0)

Idle == [r \in Recipes |-> NoItem]

MkRecord(state, ref) == [state |-> state, ref |-> ref]

Records == [state : {"none", "pending", "done"}, ref : Ids \cup {NoId}]

NoRecord == MkRecord("none", NoId)
Done == MkRecord("done", NoId)

(* A client's step in hand: the recipe, the job id it submitted or polled, *)
(* and the digest it asked or the keys of the poll it has still to use.    *)
MkOp(at, recipe, job, digest, payload, result) ==
    [at |-> at, recipe |-> recipe, job |-> job, digest |-> digest,
     payload |-> payload, result |-> result]

Rest == MkOp("idle", NoRecipe, NoId, NoDigest, NoId, NoBundle)

Ops ==
    [at : {"idle", "staged", "resend", "accepted", "completed", "failed",
           "dropped", "persisted", "deleted", "consumed"},
     recipe : Recipes \cup {NoRecipe}, job : Ids \cup {NoId},
     digest : Digests \cup {NoDigest}, payload : Ids \cup {NoId},
     result : Bundles \cup {NoBundle}]

MkPurge(at, recipe, job, payload, result) ==
    [at |-> at, recipe |-> recipe, job |-> job, payload |-> payload,
     result |-> result]

Purges ==
    [at : {"idle", "listed", "deleted"}, recipe : Recipes \cup {NoRecipe},
     job : Ids \cup {NoId}, payload : Ids \cup {NoId},
     result : Bundles \cup {NoBundle}]

NoPurge == MkPurge("idle", NoRecipe, NoId, NoId, NoBundle)

(* Objects: a key holds what was put there, or nothing.                    *)
Payload(i) == i # NoId /\ payloads[i] # {}
Result(r, b) == b # NoBundle /\ results[r][b] # {}

WithoutPayload(i) == [k \in Ids |-> IF k = i THEN {} ELSE payloads[k]]
WithoutResult(r, b) ==
    [results EXCEPT ![r] = [k \in Bundles |-> IF k = b THEN {} ELSE @[k]]]

(* uuid4 and crypto.randomUUID: a value nobody refers to.                  *)
FreshId(i) ==
    /\ \A r \in Recipes :
          /\ i \notin {row[r].id, row[r].payload, record[r].ref}
          /\ \A b \in Bundles : run[b][r].payload # i
    /\ \A c \in Clients : i \notin {client[c].job, client[c].payload}
    /\ i \notin {cleaner.job, cleaner.payload}

FreshBundle(b) ==
    /\ b \notin active /\ run[b] = Idle /\ cleaner.result # b
    /\ \A r \in Recipes : b \notin {row[r].bundle, row[r].result}
    /\ \A c \in Clients : client[c].result # b

Init ==
    /\ row = [r \in Recipes |-> NoRow]
    /\ queued = 0
    /\ active = {}
    /\ left = [b \in Bundles |-> -1]
    /\ run = [b \in Bundles |-> Idle]
    /\ payloads = [i \in Ids |-> {}]
    /\ results = [r \in Recipes |-> [b \in Bundles |-> {}]]
    /\ record = [r \in Recipes |-> NoRecord]
    /\ failures = [r \in Recipes |-> 0]
    /\ client = [c \in Clients |-> Rest]
    /\ cleaner = NoPurge
    /\ charged = {}
    /\ calm = FALSE

-----------------------------------------------------------------------------
(* The clients: enqueue_batch.                                             *)

(* Neither completed nor out of retries: the payload is staged under a     *)
(* fresh id.  What it asks depends on the code the client runs.  (Objects   *)
(* whose key nobody knows any more are forgotten.)                         *)
Submit(c, r, i, d) ==
    /\ client[c].at = "idle" /\ FreshId(i)
    /\ record[r].state # "done" /\ failures[r] < MaxFailures
    /\ payloads' = [k \in Ids |-> IF k = i THEN {d}
                                  ELSE IF FreshId(k) THEN {} ELSE payloads[k]]
    /\ client' = [client EXCEPT ![c] =
                    MkOp("staged", r, i, d, NoId, NoBundle)]
    /\ UNCHANGED <<coordinator, left, run, results, marks, cleaner, charged,
                   calm>>

(* The row an accepted submission leaves: an identical one is replayed in  *)
(* whatever state it is, another content supersedes one not in flight.     *)
Replays(r, d) == row[r].state # "absent" /\ row[r].digest = d

Room(r) == row[r].state = "queued" \/ queued < MaxQueued

Admits(r, d) == ~Replays(r, d) /\ row[r].state # "leased" /\ Room(r)

(* Mutant: a superseded row keeps the payload key of its old content.      *)
SubmittedKeepsKey(r, i, d) ==
    IF row[r].state = "absent"
    THEN MkRow("queued", i, i, d, NoBundle, NoBundle, 0)
    ELSE MkRow("queued", row[r].id, row[r].payload, d, NoBundle, NoBundle, 0)

SubmittedRow(r, i, d) ==
    MkRow("queued", IF row[r].state = "absent" THEN i ELSE row[r].id,
          i, d, NoBundle, NoBundle, 0)

(* The coordinator's transaction for a submission that is accepted.        *)
EnqueueBatch(r, i, d) ==
    \/ /\ Replays(r, d)
       /\ UNCHANGED <<row, queued, active, charged>>
    \/ /\ Admits(r, d)
       /\ row' = [row EXCEPT ![r] = SubmittedRow(r, i, d)]
       /\ queued' = queued + Bit(row[r].state # "queued")
       /\ charged' = charged \ {r}
       /\ UNCHANGED active

CanonicalId(r, i) == IF row[r].state = "absent" THEN i ELSE row[r].id

Posting(c) == client[c].at \in {"staged", "resend"}

(* Accepted; the reply carries the row's own id.                           *)
PostAccepted(c) ==
    LET op == client[c] IN
    /\ Posting(c)
    /\ EnqueueBatch(op.recipe, op.job, op.digest)
    /\ client' = [client EXCEPT ![c] =
          MkOp("accepted", op.recipe, CanonicalId(op.recipe, op.job),
               NoDigest, NoId, NoBundle)]
    /\ UNCHANGED <<left, run, objects, marks, cleaner, calm>>

(* The request or its reply is lost: the same envelope is posted once      *)
(* more, then the call raises.                                             *)
PostLost(c) ==
    LET op == client[c] IN
    /\ ~calm /\ Posting(c)
    /\ \/ EnqueueBatch(op.recipe, op.job, op.digest)
       \/ UNCHANGED <<row, queued, active, charged>>
    /\ client' = [client EXCEPT ![c] =
          IF op.at = "staged" THEN [op EXCEPT !.at = "resend"] ELSE Rest]
    /\ UNCHANGED <<left, run, objects, marks, cleaner, calm>>

(* queue_full, or one of the day's budgets is spent: a deferred handle     *)
(* without an id is recorded, to be submitted again later.                 *)
Written(r, new) == IF record[r].state = "done" THEN record[r] ELSE new

PostDeferred(c) ==
    LET op == client[c] IN
    /\ Posting(c)
    /\ ~Replays(op.recipe, op.digest)
    /\ ~calm \/ (row[op.recipe].state # "leased" /\ ~Room(op.recipe))
    /\ record' = [record EXCEPT ![op.recipe] =
                    Written(op.recipe, MkRecord("pending", NoId))]
    /\ client' = [client EXCEPT ![c] = Rest]
    /\ UNCHANGED <<coordinator, left, run, objects, failures, cleaner,
                   charged, calm>>

(* idempotency_conflict: another content is in flight; a handle recorded   *)
(* before is kept.                                                         *)
PostConflicts(c) ==
    LET op == client[c] IN
    /\ Posting(c)
    /\ ~Replays(op.recipe, op.digest) /\ row[op.recipe].state = "leased"
    /\ client' = [client EXCEPT ![c] = Rest]
    /\ UNCHANGED <<coordinator, left, run, objects, marks, cleaner, charged,
                   calm>>

(* write_deferred of the accepted handle never downgrades a completed      *)
(* record.                                                                 *)
KeepHandle(c) ==
    LET op == client[c] IN
    /\ op.at = "accepted"
    /\ record' = [record EXCEPT ![op.recipe] =
                    Written(op.recipe, MkRecord("pending", op.job))]
    /\ client' = [client EXCEPT ![c] = Rest]
    /\ UNCHANGED <<coordinator, left, run, objects, failures, cleaner,
                   charged, calm>>

-----------------------------------------------------------------------------
(* The clients: poll_batch, the sweep's recovery and the stages' discards. *)

(* pollBatch of a pending handle, when its status calls for something: a   *)
(* job still queued, leased or being purged leaves the client idle.        *)
PolledOp(r, i) ==
    IF ~Names(r, i) THEN MkOp("dropped", r, i, NoDigest, NoId, NoBundle)
    ELSE IF row[r].state = "failed"
         THEN MkOp("failed", r, i, NoDigest, NoId, NoBundle)
         ELSE MkOp("completed", r, i, NoDigest, row[r].payload, row[r].result)

Poll(c, r) ==
    /\ client[c].at = "idle"
    /\ record[r].state = "pending" /\ record[r].ref # NoId
    /\ Names(r, record[r].ref) => row[r].state \in {"completed", "failed"}
    /\ client' = [client EXCEPT ![c] = PolledOp(r, record[r].ref)]
    /\ UNCHANGED <<coordinator, left, run, objects, marks, cleaner, charged,
                   calm>>

(* _resolve_completed: a record completed meanwhile wins, a missing result *)
(* is taken for pending, and a read one is persisted.                      *)
Resolve(c) ==
    LET op == client[c]
        r == op.recipe
        found == record[r].state = "done" \/ Result(r, op.result)
    IN
    /\ op.at = "completed"
    /\ \/ /\ found
          /\ record' = [record EXCEPT ![r] = Done]
          /\ client' = [client EXCEPT ![c] = [op EXCEPT !.at = "persisted"]]
       \/ /\ ~found \/ ~calm
          /\ client' = [client EXCEPT ![c] = Rest]
          /\ UNCHANGED record
    /\ UNCHANGED <<coordinator, left, run, objects, failures, cleaner,
                   charged, calm>>

ToAck(op) ==
    MkOp("consumed", op.recipe, op.job, NoDigest, NoId, NoBundle)

(* _retire_consumed deletes the payload, then the result; an error leaves  *)
(* the job to the ack.                                                     *)
DeleteObjects(c) ==
    LET op == client[c] IN
    /\ op.at = "persisted"
    /\ payloads' = WithoutPayload(op.payload)
    /\ results' = WithoutResult(op.recipe, op.result)
    /\ client' = [client EXCEPT ![c] =
                    [op EXCEPT !.at = "deleted", !.payload = NoId]]
    /\ UNCHANGED <<coordinator, left, run, marks, cleaner, charged, calm>>

DeleteFails(c) ==
    LET op == client[c] IN
    /\ ~calm /\ op.at = "persisted"
    /\ \/ payloads' = WithoutPayload(op.payload)
       \/ UNCHANGED payloads
    /\ client' = [client EXCEPT ![c] = ToAck(op)]
    /\ UNCHANGED <<coordinator, left, run, results, marks, cleaner, charged,
                   calm>>

(* Mutant: a row is retired by its id alone.                               *)
RetiresById(r, i, b) == Names(r, i) /\ row[r].state = "completed"

(* retireConsumed: only the row whose result the client consumed.  Not     *)
(* retired, or the answer lost, the job is acked.                          *)
Retires(r, i, b) ==
    Names(r, i) /\ row[r].state = "completed" /\ row[r].result = b

RetireConsumed(c) ==
    LET op == client[c] IN
    /\ op.at = "deleted"
    /\ \/ /\ Retires(op.recipe, op.job, op.result)
          /\ row' = [row EXCEPT ![op.recipe] = NoRow]
          /\ \/ client' = [client EXCEPT ![c] = Rest]
             \/ ~calm /\ client' = [client EXCEPT ![c] = ToAck(op)]
       \/ /\ ~calm \/ ~Retires(op.recipe, op.job, op.result)
          /\ client' = [client EXCEPT ![c] = ToAck(op)]
          /\ UNCHANGED row
    /\ UNCHANGED <<queued, active, left, run, objects, marks, cleaner,
                   charged, calm>>

(* ackResults, by id; lost or refused, nothing happens.                    *)
AckResults(c) ==
    LET op == client[c] IN
    /\ op.at = "consumed"
    /\ \/ /\ Names(op.recipe, op.job) /\ row[op.recipe].state = "completed"
          /\ row' = [row EXCEPT ![op.recipe].state = "purge_pending"]
       \/ /\ ~calm \/ ~(Names(op.recipe, op.job)
                        /\ row[op.recipe].state = "completed")
          /\ UNCHANGED row
    /\ client' = [client EXCEPT ![c] = Rest]
    /\ UNCHANGED <<queued, active, left, run, objects, marks, cleaner,
                   charged, calm>>

(* discard_terminal_failure and discard_deferred act under the record's    *)
(* lock, and only on the handle the client polled.                         *)
Current(op) == record[op.recipe] = MkRecord("pending", op.job)

Forget(r) == record' = [record EXCEPT ![r] = NoRecord]

(* Past the limit, one count is like another.                              *)
Counted(n) == IF n < MaxFailures THEN n + 1 ELSE n

(* The job failed: counted, and the handle removed.                        *)
DiscardFailed(c) ==
    LET op == client[c] IN
    /\ op.at = "failed"
    /\ IF Current(op)
       THEN /\ Forget(op.recipe)
            /\ failures' = [failures EXCEPT ![op.recipe] = Counted(@)]
            /\ charged' = charged \cup {op.recipe}
       ELSE UNCHANGED <<record, failures, charged>>
    /\ client' = [client EXCEPT ![c] = Rest]
    /\ UNCHANGED <<coordinator, left, run, objects, cleaner, calm>>

(* The job is gone, or was cancelled: the handle is removed.               *)
DiscardDropped(c) ==
    LET op == client[c] IN
    /\ op.at = "dropped"
    /\ IF Current(op) THEN Forget(op.recipe) ELSE UNCHANGED record
    /\ client' = [client EXCEPT ![c] = Rest]
    /\ UNCHANGED <<coordinator, left, run, objects, failures, cleaner,
                   charged, calm>>

(* Mutant: a cancelled job stays counted.                                  *)
UncountedBlindly(r) == queued

Uncounted(r) == queued - Bit(row[r].state = "queued")

(* cancelBatch of a handle nobody wants any more; a job in flight is kept. *)
CancelBatch(c, r) ==
    /\ ~calm /\ client[c].at = "idle"
    /\ record[r].state = "pending" /\ Names(r, record[r].ref)
    /\ row[r].state # "leased"
    /\ row' = [row EXCEPT ![r].state = "purge_pending"]
    /\ charged' = charged \ {r}
    /\ queued' = Uncounted(r)
    /\ client' = [client EXCEPT ![c] =
          MkOp("dropped", r, record[r].ref, NoDigest, NoId, NoBundle)]
    /\ UNCHANGED <<active, left, run, objects, marks, cleaner, calm>>

(* discard_completed_result: a stage's own validation rejects the result,  *)
(* and some of them count it.                                              *)
RejectResult(r) ==
    /\ record[r].state = "done"
    /\ Forget(r)
    /\ \/ failures' = [failures EXCEPT ![r] = Counted(@)]
       \/ UNCHANGED failures
    /\ UNCHANGED <<coordinator, left, run, objects, client, cleaner, charged,
                   calm>>

(* The job of a stage or of the sweep is killed or runs out of time.       *)
ClientStops(c) ==
    /\ ~calm /\ client[c].at # "idle"
    /\ client' = [client EXCEPT ![c] = Rest]
    /\ UNCHANGED <<coordinator, left, run, objects, marks, cleaner, charged,
                   calm>>

-----------------------------------------------------------------------------
(* The scheduled executor and the coordinator's side of it.                *)

Expired(b) == left[b] < 0

(* Mutant: a bundle is dropped a tick before its jobs' leases expire.      *)
DroppedEarly(b) == left[b] <= 0

Dropped(b) == left[b] < 0

(* claimDispatchWindow first requeues the jobs whose lease expired, and    *)
(* drops the expired bundles and those without a leased job.               *)
Stale(r) == row[r].state = "leased" /\ Expired(row[r].bundle)

Recovered ==
    [r \in Recipes |->
        IF Stale(r) THEN Requeued(row[r], row[r].retries) ELSE row[r]]

StillActive ==
    {b \in active :
        /\ ~Dropped(b)
        /\ \E r \in Recipes : /\ Recovered[r].state = "leased"
                              /\ Recovered[r].bundle = b}

Reaped == Cardinality({r \in Recipes : Stale(r)})

(* Nothing can be claimed, for want of jobs, of routes or of a place for a *)
(* bundle: only the recovery is done.                                      *)
ClaimNothing ==
    /\ StillActive # active \/ \E r \in Recipes : Stale(r)
    /\ row' = Recovered /\ active' = StillActive /\ queued' = queued + Reaped
    /\ UNCHANGED <<left, run, objects, marks, client, cleaner, charged, calm>>

(* Some queued jobs are leased to a new bundle, and handed to an executor. *)
Claims(r, b) == [Recovered[r] EXCEPT !.state = "leased", !.bundle = b]

ClaimDispatchWindow(b, jobs) ==
    /\ FreshBundle(b)
    /\ Cardinality(StillActive) < MaxBundles
    /\ jobs # {} /\ \A r \in jobs : Recovered[r].state = "queued"
    /\ row' = [r \in Recipes |->
                 IF r \in jobs THEN Claims(r, b) ELSE Recovered[r]]
    /\ active' = StillActive \cup {b}
    /\ queued' = queued + Reaped - Cardinality(jobs)
    /\ left' = [left EXCEPT ![b] = Lease]
    /\ run' = [run EXCEPT ![b] =
          [r \in Recipes |->
              IF r \in jobs
              THEN MkItem("waiting", row[r].payload, NoDigest, 0) ELSE NoItem]]
    /\ results' = [r \in Recipes |->
          [k \in Bundles |-> IF FreshBundle(k) THEN {} ELSE results[r][k]]]
    /\ UNCHANGED <<payloads, marks, client, cleaner, charged, calm>>

At(b, r, stage) == run[b][r].stage = stage

Moves(b, r, item) == run' = [run EXCEPT ![b] = [@ EXCEPT ![r] = item]]

(* Mutant: a call starts whatever the lease.                               *)
Unfenced(b) == TRUE

(* leaseCoversCall.                                                        *)
Covers(b) == MaxResponse <= left[b]

(* dispatchOneJob reads the payload; a missing one ends the job, and so    *)
(* does a failed read.  The call starts if the lease covers it; a job      *)
(* whose turn comes after the window is late as well.                      *)
StartCall(b, r) ==
    LET i == run[b][r].payload IN
    /\ At(b, r, "waiting")
    /\ \/ /\ Payload(i) /\ Covers(b)
          /\ \E d \in payloads[i] : Moves(b, r, MkItem("calling", i, d, 0))
       \/ /\ ~Payload(i) \/ ~calm
          /\ Moves(b, r, MkItem("terminal", NoId, NoDigest, 0))
       \/ /\ ~Covers(b) \/ ~calm
          /\ Moves(b, r, MkItem("late", NoId, NoDigest, 0))
    /\ UNCHANGED <<coordinator, left, objects, marks, client, cleaner,
                   charged, calm>>

(* The answer is put under the lease's own key before it is reported.      *)
Answered(b, r) ==
    /\ At(b, r, "calling")
    /\ results' = [results EXCEPT ![r] = [@ EXCEPT ![b] = {run[b][r].digest}]]
    /\ Moves(b, r, MkItem("success", NoId, NoDigest, 0))
    /\ UNCHANGED <<coordinator, left, payloads, marks, client, cleaner,
                   charged, calm>>

(* The provider refuses or fails, the call is aborted, or the put fails.   *)
CallFails(b, r) ==
    /\ At(b, r, "calling")
    /\ \E o \in {"transient", "terminal"} :
          Moves(b, r, MkItem(o, NoId, NoDigest, 0))
    /\ UNCHANGED <<coordinator, left, objects, marks, client, cleaner,
                   charged, calm>>

(* A 503, or a 429 the coordinator authorizes a retry of: another call in  *)
(* the same window, fenced like the first.                                 *)
CallAgain(b, r) ==
    /\ ~calm /\ At(b, r, "calling")
    /\ IF Covers(b) THEN Moves(b, r, [run[b][r] EXCEPT !.age = 0])
                    ELSE Moves(b, r, MkItem("late", NoId, NoDigest, 0))
    /\ UNCHANGED <<coordinator, left, objects, marks, client, cleaner,
                   charged, calm>>

(* Mutant: one retry too many.                                             *)
RetriedOnceMore(r, outcome) ==
    outcome = "late" \/ (outcome = "transient" /\ row[r].retries <= MaxRetries)

(* How a reported job leaves its lease: a late one goes back to the queue, *)
(* a transient failure does while its budget lasts.                        *)
Retried(r, outcome) ==
    outcome = "late" \/ (outcome = "transient" /\ row[r].retries < MaxRetries)

SettledRow(r, b, outcome) ==
    IF outcome = "success" THEN Settled(row[r], "completed", b)
    ELSE IF Retried(r, outcome)
    THEN Requeued(row[r], row[r].retries + Bit(outcome = "transient"))
    ELSE Settled(row[r], "failed", NoBundle)

LeasedTo(r, b) == row[r].state = "leased" /\ row[r].bundle = b

Reported(b) ==
    {r \in Recipes : LeasedTo(r, b) /\ run[b][r].stage \in Outcomes}

Returned(b) == {r \in Reported(b) : Retried(r, run[b][r].stage)}

(* completeBatch: a bundle no longer active is not listened to.            *)
CompleteBatch(b) ==
    /\ run[b] # Idle
    /\ \A r \in Recipes : run[b][r].stage \in Outcomes \cup {"none"}
    /\ IF b \in active
       THEN /\ row' = [r \in Recipes |->
                  IF r \in Reported(b) THEN SettledRow(r, b, run[b][r].stage)
                                       ELSE row[r]]
            /\ queued' = queued + Cardinality(Returned(b))
            /\ active' = IF Reported(b) # {}
                            /\ \A r \in Recipes : row'[r].state = "leased"
                                                    => row'[r].bundle # b
                         THEN active \ {b} ELSE active
       ELSE UNCHANGED coordinator
    /\ left' = IF b \in active' THEN left ELSE [left EXCEPT ![b] = -1]
    /\ run' = [run EXCEPT ![b] = Idle]
    /\ UNCHANGED <<objects, marks, client, cleaner, charged, calm>>

(* The invocation is evicted, or its report is lost.                       *)
ExecutorStops(b) ==
    /\ ~calm /\ run[b] # Idle
    /\ run' = [run EXCEPT ![b] = Idle]
    /\ UNCHANGED <<coordinator, left, objects, marks, client, cleaner,
                   charged, calm>>

-----------------------------------------------------------------------------
(* The scheduled cleanup, one job at a time.                               *)

Purging == In("purge_pending")

(* Thirty-eight days after a job ended, nothing begun before is under way. *)
Quiet(r) ==
    /\ \A c \in Clients : client[c].at # "idle" => client[c].recipe # r
    /\ \A b \in Bundles : run[b][r] = NoItem

(* Once calm, a poll has heard of the job by then, unless it found nothing *)
(* to read.                                                                *)
Unheard(r) ==
    /\ record[r] = MkRecord("pending", row[r].id)
    /\ row[r].state = "failed" \/ Result(r, row[r].result)

Old ==
    {r \in In("completed") \cup In("failed") :
        Quiet(r) /\ (calm => ~Unheard(r))}

(* Mutant: only jobs past their retention are listed.                      *)
ListedAnew == Old

(* purgePendingBatch lists what is being purged already before it turns to *)
(* jobs past their retention.                                              *)
Listed == IF Purging # {} THEN Purging ELSE Old

PurgePendingBatch(r) ==
    /\ cleaner.at = "idle" /\ r \in Listed
    /\ row' = [row EXCEPT ![r].state = "purge_pending"]
    /\ charged' = charged \ {r}
    /\ cleaner' = MkPurge("listed", r, row[r].id, row[r].payload,
                          row[r].result)
    /\ UNCHANGED <<queued, active, left, run, objects, marks, client, calm>>

DeletePurged ==
    LET p == cleaner IN
    /\ p.at = "listed"
    /\ payloads' = WithoutPayload(p.payload)
    /\ results' = WithoutResult(p.recipe, p.result)
    /\ cleaner' = MkPurge("deleted", p.recipe, p.job, NoId, NoBundle)
    /\ UNCHANGED <<coordinator, left, run, marks, client, charged, calm>>

ConfirmPurge ==
    LET p == cleaner
        gone == Names(p.recipe, p.job) /\ row[p.recipe].state = "purge_pending"
    IN
    /\ p.at = "deleted"
    /\ row' = [row EXCEPT ![p.recipe] = IF gone THEN NoRow ELSE @]
    /\ cleaner' = NoPurge
    /\ UNCHANGED <<queued, active, left, run, objects, marks, client, charged,
                   calm>>

(* A delete fails after the payload or before, or the invocation ends.     *)
CleanupStops ==
    /\ ~calm /\ cleaner.at # "idle"
    /\ \/ cleaner.at = "listed" /\ payloads' = WithoutPayload(cleaner.payload)
       \/ UNCHANGED payloads
    /\ cleaner' = NoPurge
    /\ UNCHANGED <<coordinator, left, run, results, marks, client, charged,
                   calm>>

-----------------------------------------------------------------------------
(* Time passes; a call is aborted before it lasts longer than MaxResponse, *)
(* and once calm only the calls take an executor's time.                   *)
Engaged(b) ==
    /\ \E r \in Recipes : At(b, r, "calling")
    /\ \A r \in Recipes : ~At(b, r, "waiting")

Tick ==
    /\ \E b \in Bundles : left[b] >= 0
    /\ calm => \A b \in Bundles : run[b] = Idle \/ Engaged(b)
    /\ \A b \in Bundles, r \in Recipes :
          At(b, r, "calling") => run[b][r].age < MaxResponse
    /\ left' = [b \in Bundles |-> IF left[b] < 0 THEN -1 ELSE left[b] - 1]
    /\ run' = [b \in Bundles |->
          [r \in Recipes |->
              IF At(b, r, "calling") THEN [run[b][r] EXCEPT !.age = @ + 1]
                                     ELSE run[b][r]]]
    /\ UNCHANGED <<coordinator, objects, marks, client, cleaner, charged,
                   calm>>

(* From some time on, nothing is lost, killed or refused any more.         *)
CalmDown ==
    /\ ~calm /\ calm' = TRUE
    /\ UNCHANGED <<coordinator, left, run, objects, marks, client, cleaner,
                   charged>>

Requests(c) ==
    \/ \E r \in Recipes, i \in Ids, d \in Digests : Submit(c, r, i, d)
    \/ PostAccepted(c) \/ PostLost(c) \/ PostDeferred(c) \/ PostConflicts(c)
    \/ KeepHandle(c)

Follows(c) ==
    \/ \E r \in Recipes : Poll(c, r) \/ CancelBatch(c, r)
    \/ Resolve(c) \/ DeleteObjects(c) \/ DeleteFails(c) \/ RetireConsumed(c)
    \/ AckResults(c) \/ DiscardFailed(c) \/ DiscardDropped(c) \/ ClientStops(c)

Executes(b) ==
    \/ \E jobs \in SUBSET Recipes : ClaimDispatchWindow(b, jobs)
    \/ \E r \in Recipes : \/ StartCall(b, r) \/ Answered(b, r)
                          \/ CallFails(b, r) \/ CallAgain(b, r)
    \/ CompleteBatch(b) \/ ExecutorStops(b)

Cleans ==
    \/ \E r \in Recipes : PurgePendingBatch(r)
    \/ DeletePurged \/ ConfirmPurge \/ CleanupStops

Steps ==
    \/ \E c \in Clients : Requests(c) \/ Follows(c)
    \/ ClaimNothing \/ \E b \in Bundles : Executes(b)
    \/ Cleans
    \/ \E r \in Recipes : RejectResult(r)
    \/ Tick

Next == Steps \/ CalmDown

Spec == Init /\ [][Next]_vars

(* Scheduled work goes on, a client ends what it began, the stages go on   *)
(* asking for what they miss and following what they asked for.            *)
Finishes(c) ==
    \/ PostAccepted(c) \/ PostDeferred(c) \/ PostConflicts(c) \/ KeepHandle(c)
    \/ Resolve(c) \/ DeleteObjects(c) \/ RetireConsumed(c) \/ AckResults(c)
    \/ DiscardFailed(c) \/ DiscardDropped(c)

Fairness ==
    /\ WF_vars(CalmDown) /\ WF_vars(Tick)
    /\ \A b \in Bundles : WF_vars(Executes(b))
    /\ SF_vars(ClaimNothing)
    /\ \A r \in Recipes :
        SF_vars(\E b \in Bundles, jobs \in SUBSET Recipes :
                   r \in jobs /\ ClaimDispatchWindow(b, jobs))
    /\ \A r \in Recipes : SF_vars(PurgePendingBatch(r))
    /\ WF_vars(DeletePurged \/ ConfirmPurge)
    /\ \A c \in Clients :
        /\ WF_vars(Finishes(c))
        /\ \A r \in Recipes :
            /\ SF_vars(Poll(c, r))
            /\ SF_vars(/\ record[r] = NoRecord
                       /\ \E i \in Ids, d \in Digests : Submit(c, r, i, d))
            /\ SF_vars(/\ record[r] = MkRecord("pending", NoId)
                       /\ \E i \in Ids, d \in Digests : Submit(c, r, i, d))

FairSpec == Spec /\ Fairness

-----------------------------------------------------------------------------
TypeOK ==
    /\ row \in [Recipes -> Rows]
    /\ queued \in Int
    /\ active \subseteq Bundles
    /\ left \in [Bundles -> -1..Lease]
    /\ run \in [Bundles -> [Recipes -> Items]]
    /\ payloads \in [Ids -> SUBSET Digests]
    /\ results \in [Recipes -> [Bundles -> SUBSET Digests]]
    /\ record \in [Recipes -> Records]
    /\ failures \in [Recipes -> 0..MaxFailures]
    /\ client \in [Clients -> Ops]
    /\ cleaner \in Purges
    /\ charged \subseteq Recipes
    /\ calm \in BOOLEAN

(* The counter the queue limit reads, kept by the deltas of each RPC, is   *)
(* the number of queued rows.                                              *)
QueueCounted == queued = Cardinality(In("queued"))

(* While the provider works on a job, the job is leased to that call and   *)
(* to no other: it is never sent twice at once.                            *)
OneCallPerJob ==
    \A b \in Bundles, r \in Recipes : At(b, r, "calling") => LeasedTo(r, b)

(* The stored result of a completed job answers the content of its row,    *)
(* whatever submissions superseded each other before.                      *)
ResultAnswersRequest ==
    \A r \in Recipes :
        row[r].state = "completed" =>
            results[r][row[r].result] \subseteq {row[r].digest}

(* Until its lease expires, a job's executor is still listened to.         *)
CompletionsHeard ==
    \A r \in Recipes :
        row[r].state = "leased" /\ ~Expired(row[r].bundle) =>
            row[r].bundle \in active

(* A completed job's row goes only after its result was deleted, by a      *)
(* client that had persisted it: no unread result is lost with its row.    *)
RowOutlivesResult ==
    [][\A r \in Recipes :
          row[r].state = "completed" /\ row'[r].state = "absent" =>
              ~Result(r, row[r].result)]_vars

(* A failed job is counted against its recipe's retries once: the next     *)
(* count takes another job that failed.                                    *)
FailuresAreCalls ==
    [][\A c \in Clients :
          DiscardFailed(c) /\ Current(client[c]) =>
              client[c].recipe \notin charged]_vars

(* A recipe in demand is answered over and over, or its retries are spent. *)
Settles ==
    \A r \in Recipes :
        []<>(record[r].state = "done" \/ failures[r] = MaxFailures)

-----------------------------------------------------------------------------
(* Why the invariants hold: what the rows, the executors and the clients   *)
(* know of each other.                                                     *)

(* A result's key is not written again while a row refers to it.           *)
RowKnows(r) ==
    /\ row[r].state = "leased" => row[r].bundle \in Bundles
    /\ row[r].state = "completed" => row[r].result \in Bundles
    /\ row[r].state \in {"queued", "leased"} =>
          /\ row[r].payload \in Ids
          /\ payloads[row[r].payload] \subseteq {row[r].digest}
    /\ \A b \in Bundles : row[r].result = b => run[b] = Idle

(* An executor works on the row's content until its lease expires, and a   *)
(* call leaves room for what it may still take.                            *)
ItemKnows(b, r) ==
    /\ ~At(b, r, "none") /\ ~Expired(b) => LeasedTo(r, b)
    /\ At(b, r, "waiting") /\ LeasedTo(r, b) =>
          run[b][r].payload = row[r].payload
    /\ At(b, r, "calling") =>
          /\ MaxResponse - run[b][r].age <= left[b]
          /\ run[b][r].digest \in Digests \cap {row[r].digest}
    /\ At(b, r, "success") /\ LeasedTo(r, b) =>
          results[r][b] \subseteq {row[r].digest}

OpKnows(c) ==
    LET op == client[c] IN
    /\ op.at # "idle" => op.recipe \in Recipes
    /\ Posting(c) => op.job \in Ids /\ payloads[op.job] \subseteq {op.digest}
    /\ \A b \in Bundles : op.result = b =>
          /\ run[b] = Idle
          /\ op.at = "deleted" => results[op.recipe][b] = {}

DispatchInv ==
    /\ TypeOK /\ QueueCounted /\ CompletionsHeard /\ ResultAnswersRequest
    /\ \A r \in Recipes : RowKnows(r)
    /\ \A b \in Bundles, r \in Recipes : ItemKnows(b, r)
    /\ \A c \in Clients : OpKnows(c)
    /\ cleaner.at # "idle" => cleaner.recipe \in Recipes

=============================================================================
