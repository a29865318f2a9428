------------------------------ MODULE WorkLeases ------------------------------
(***************************************************************************)
(* The competitive work-lease ledger of citypods/ops/work_leases.py, as    *)
(* its concurrent callers run it: pull workers (main thread and renewal    *)
(* thread of compute/external_worker.py), the reconciler's sweep           *)
(* (compute/dispatch.py reconcile_compute) and the operator's              *)
(* requeue_failed.  Every operation is split where the code talks to       *)
(* storage: it reads the clock and the lease, and later writes             *)
(* conditionally on the content it read (an ETag is a content hash).       *)
(* storage/s3.py retries a conditional write whose answer was lost, so a   *)
(* write may land and still be reported as a conflict.                     *)
(***************************************************************************)
EXTENDS LeaseRecords, FiniteSets

CONSTANTS
    NoItem,       \* no item is being worked on
    Reaper,       \* the process running reconcile_compute
    Operator,     \* the process running requeue_failed
    BucketCount,  \* INDEX_BUCKET_COUNT
    BucketOf,     \* index_bucket_for: the index bucket of an item
    UseIndex,     \* update_index and use_lease_index: the active-lease index
                  \* is kept and swept, or every candidate is probed by reap
    MaxClock,     \* bound on clock
    MaxAttempts   \* bound on the claims of one item

ASSUME ThreadAssumption ==
    /\ NoItem \notin Items
    /\ Reaper # Operator
    /\ Reaper \notin Workers /\ Operator \notin Workers
    /\ BucketCount \in Nat \ {0}
    /\ BucketOf \in [Items -> 0..(BucketCount - 1)]
    /\ UseIndex \in BOOLEAN
    /\ MaxClock \in Nat /\ MaxAttempts \in Nat

VARIABLES
    clock,      \* the clock of the slowest host
    lease,      \* the lease object of every item
    artifact,   \* the <<item, recipe>> pairs whose transcript is in the bucket
    index,      \* the items that have an active-index entry
    op,         \* the operation each thread has in flight
    held,       \* the claim each worker is working under, as it last saw it
    sweep       \* the reaper's progress through one sweep

vars == <<clock, lease, artifact, index, op, held, sweep>>

-----------------------------------------------------------------------------
(* Threads and the operations they have in flight.                         *)

Main(w)    == <<w, "main">>
Renewal(w) == <<w, "renew">>
ReaperThread   == Main(Reaper)
OperatorThread == Main(Operator)

Threads ==
    (Workers \X {"main", "renew"}) \cup {ReaperThread, OperatorThread}

WriteKinds ==
    {"claim", "renew", "fail", "abandon", "complete", "reclaim", "requeue"}
IndexKinds == {"upsert", "remove"}

Operations ==
    [kind : WriteKinds \cup IndexKinds \cup {"idle"},
     item : Items \cup {NoItem},
     now  : Nat,
     seen : Leases]

Idle == [kind |-> "idle", item |-> NoItem, now |-> 0, seen |-> NoLease]

IndexOp(kind, i) == [kind |-> kind, item |-> i, now |-> 0, seen |-> NoLease]

(* The read half of an operation: item, lease content, and the clock       *)
(* reading where the write is made from it (elsewhere 0).                  *)
ReadFor(kind, i, now) ==
    [kind |-> kind, item |-> i, now |-> now, seen |-> lease[i]]

Belief(i, expiry, renewing) ==
    [item |-> i, expiry |-> expiry, renewing |-> renewing]

NotWorking == Belief(NoItem, 0, FALSE)

Beliefs == [item : Items \cup {NoItem}, expiry : Nat, renewing : BOOLEAN]

SweepPhases == {"off", "load", "bucket", "integrity", "probe"}

Sweeps ==
    [phase : SweepPhases, now : Nat, bucket : Nat,
     todo : SUBSET Items, drop : SUBSET Items, seen : SUBSET Items]

SweepOff ==
    [phase |-> "off", now |-> 0, bucket |-> 0,
     todo |-> {}, drop |-> {}, seen |-> {}]

ArtifactPresent(i) == \E r \in Recipes : <<i, r>> \in artifact

Init ==
    /\ clock = 0
    /\ lease = [i \in Items |-> NoLease]
    /\ artifact = {}
    /\ index = {}
    /\ op = [t \in Threads |-> Idle]
    /\ held = [w \in Workers |-> NotWorking]
    /\ sweep = SweepOff

-----------------------------------------------------------------------------
(* Time passes on every host at once.                                      *)

Tick ==
    /\ clock < MaxClock
    /\ clock' = clock + 1
    /\ UNCHANGED <<lease, artifact, index, op, held, sweep>>

-----------------------------------------------------------------------------
(* The conditional write.  Written is the object an operation puts.        *)

Written(t, o) ==
    IF o.kind = "claim" THEN Claimed(o.seen, t[1], o.now)
    ELSE IF o.kind = "renew" THEN Renewed(o.seen, o.now)
    ELSE IF o.kind = "fail" THEN Settled(o.seen, "failed")
    ELSE IF o.kind = "complete" THEN Settled(o.seen, "done")
    ELSE Requeued(o.seen)   \* abandon, reclaim, requeue

(* Mutant: the write carries no If-Match.                                  *)
LandedUnconditionally(t) ==
    /\ op[t].kind \in WriteKinds
    /\ lease' = [lease EXCEPT ![op[t].item] = Written(t, op[t])]
    /\ UNCHANGED <<clock, artifact, index>>

Landed(t) ==
    /\ op[t].kind \in WriteKinds
    /\ lease[op[t].item] = op[t].seen
    /\ lease' = [lease EXCEPT ![op[t].item] = Written(t, op[t])]
    /\ UNCHANGED <<clock, artifact, index>>

(* What the caller does next once its write succeeded: claim and renew     *)
(* refresh the index entry; release, abandon and requeue_failed drop it;   *)
(* the sweep drops its entries bucket by bucket instead.                   *)
AfterWrite(o) ==
    IF ~UseIndex \/ o.kind \in {"complete", "reclaim"} THEN Idle
    ELSE IndexOp(IF o.kind \in {"claim", "renew"} THEN "upsert" ELSE "remove",
                 o.item)

(* What worker w goes on believing once its write succeeded.               *)
BeliefAfter(w, o) ==
    IF o.kind = "claim" THEN Belief(o.item, o.now + TTL, TRUE)
    ELSE IF o.kind = "renew" /\ held[w].item = o.item
         THEN Belief(o.item, o.now + TTL, held[w].renewing)
         ELSE held[w]

(* The write landed and the caller knows it.                               *)
CasWins(t) ==
    /\ Landed(t)
    /\ op' = [op EXCEPT ![t] = AfterWrite(op[t])]
    /\ held' = [w \in Workers |->
                  IF w = t[1] THEN BeliefAfter(w, op[t]) ELSE held[w]]
    /\ sweep' = IF t = ReaperThread /\ sweep.phase = "bucket"
                THEN [sweep EXCEPT !.drop = @ \cup {op[t].item}]
                ELSE sweep

(* A caller told of a conflict gives the operation up; the renewal thread  *)
(* stops renewing altogether.                                              *)
GivesUp(t) ==
    /\ op' = [op EXCEPT ![t] = Idle]
    /\ held' = IF op[t].kind = "renew" /\ held[t[1]].item = op[t].item
               THEN [held EXCEPT ![t[1]] = Belief(@.item, @.expiry, FALSE)]
               ELSE held
    /\ UNCHANGED sweep

(* The write landed, its answer was lost, and the retry met its own ETag.  *)
CasAnswerLost(t) ==
    /\ Landed(t)
    /\ GivesUp(t)

CasConflict(t) ==
    /\ op[t].kind \in WriteKinds
    /\ lease[op[t].item] # op[t].seen
    /\ GivesUp(t)
    /\ UNCHANGED <<clock, lease, artifact, index>>

(* A renewal that raised, landed or not, is tried again at the next turn.  *)
(* (An error in any other operation ends its process: Crash, ReaperCrash.) *)
RenewRaises(w) ==
    LET t == Renewal(w) IN
    /\ op[t].kind = "renew"
    /\ Landed(t) \/ UNCHANGED <<clock, lease, artifact, index>>
    /\ op' = [op EXCEPT ![t] = Idle]
    /\ UNCHANGED <<held, sweep>>

(* _mutate_index_bucket: its CAS loop applies the change to the freshest   *)
(* entries in one write, or exhausts its attempts, which is only logged.   *)
IndexMutates(t) ==
    /\ op[t].kind \in IndexKinds
    /\ index' = IF op[t].kind = "upsert"
                THEN index \cup {op[t].item}
                ELSE index \ {op[t].item}
    /\ op' = [op EXCEPT ![t] = Idle]
    /\ UNCHANGED <<clock, lease, artifact, held, sweep>>

IndexFails(t) ==
    /\ op[t].kind \in IndexKinds
    /\ op' = [op EXCEPT ![t] = Idle]
    /\ UNCHANGED <<clock, lease, artifact, index, held, sweep>>

-----------------------------------------------------------------------------
(* A pull worker: scan, claim, work, and settle.                           *)

Now(w) == clock + Offset[w]

(* claim reads the clock, then the lease: the reading may be old by then.  *)
Readings(w) == 0..Now(w)

MainIdle(w) == op[Main(w)].kind = "idle"

ClaimRead(w, i) ==
    /\ MainIdle(w) /\ held[w].item = NoItem
    /\ lease[i].attempts < MaxAttempts
    /\ \E now \in Readings(w) :
        /\ MayClaim(lease[i], RecipeOf[w], now)
        /\ op' = [op EXCEPT ![Main(w)] = ReadFor("claim", i, now)]
    /\ UNCHANGED <<clock, lease, artifact, index, held, sweep>>

Working(w) == MainIdle(w) /\ held[w].item # NoItem

(* The renewal thread's turn; finding the lease gone, it stops.            *)
RenewRead(w) ==
    /\ Working(w) /\ held[w].renewing
    /\ op[Renewal(w)].kind = "idle"
    /\ IF HoldsLease(lease[held[w].item], w, Now(w))
       THEN /\ op' = [op EXCEPT ![Renewal(w)] =
                        ReadFor("renew", held[w].item, Now(w))]
            /\ UNCHANGED held
       ELSE /\ held' = [held EXCEPT ![w] = Belief(@.item, @.expiry, FALSE)]
            /\ UNCHANGED op
    /\ UNCHANGED <<clock, lease, artifact, index, sweep>>

(* The transcript and its word sidecar reach the bucket; what follows (the *)
(* record's batch push) may still fail.                                    *)
Upload(w) ==
    /\ Working(w)
    /\ artifact' = artifact \cup {<<held[w].item, RecipeOf[w]>>}
    /\ UNCHANGED <<clock, lease, index, op, held, sweep>>

(* Success, fresh or adopted: the lease is left to the reaper.  A renewal  *)
(* in flight survives: its thread is joined for one second only.           *)
Finish(w) ==
    /\ Working(w)
    /\ <<held[w].item, RecipeOf[w]>> \in artifact
    /\ held' = [held EXCEPT ![w] = NotWorking]
    /\ UNCHANGED <<clock, lease, artifact, index, op, sweep>>

(* Mutant: a worker settles the lease it finds, its own or not.            *)
SettleReadUnchecked(w, kind) ==
    /\ Working(w)
    /\ held' = [held EXCEPT ![w] = NotWorking]
    /\ op' = [op EXCEPT ![Main(w)] = ReadFor(kind, held[w].item, 0)]
    /\ UNCHANGED <<clock, lease, artifact, index, sweep>>

(* release(state="failed") after an error, abandon after a declined or     *)
(* deferred claim: both work only on a lease that is still ours.           *)
SettleRead(w, kind) ==
    /\ Working(w)
    /\ held' = [held EXCEPT ![w] = NotWorking]
    /\ op' = IF HoldsLease(lease[held[w].item], w, Now(w))
             THEN [op EXCEPT ![Main(w)] = ReadFor(kind, held[w].item, 0)]
             ELSE op
    /\ UNCHANGED <<clock, lease, artifact, index, sweep>>

ReleaseRead(w) == SettleRead(w, "fail")
AbandonRead(w) == SettleRead(w, "abandon")

(* The worker's process dies with both its threads.                        *)
Crash(w) ==
    /\ held' = [held EXCEPT ![w] = NotWorking]
    /\ op' = [op EXCEPT ![Main(w)] = Idle, ![Renewal(w)] = Idle]
    /\ UNCHANGED <<clock, lease, artifact, index, sweep>>

-----------------------------------------------------------------------------
(* requeue_failed, one item at a time, at the operator's command.          *)

RequeueRead(i) ==
    /\ op[OperatorThread].kind = "idle"
    /\ lease[i].state = "failed"
    /\ op' = [op EXCEPT ![OperatorThread] = ReadFor("requeue", i, 0)]
    /\ UNCHANGED <<clock, lease, artifact, index, held, sweep>>

-----------------------------------------------------------------------------
(* The sweep of reconcile_compute.  Its clock reading is taken once.       *)

ReaperIdle == op[ReaperThread].kind = "idle"

SweepStart ==
    /\ sweep.phase = "off" /\ ReaperIdle
    /\ \E now \in clock..(clock + Skew) :
        sweep' = IF UseIndex
                 THEN [SweepOff EXCEPT !.phase = "load", !.now = now]
                 ELSE [SweepOff EXCEPT !.phase = "probe", !.now = now,
                                       !.todo = Items]
    /\ UNCHANGED <<clock, lease, artifact, index, op, held>>

(* Mutant: the first bucket is left out.                                   *)
LoadBucketFromOne ==
    LET entries == {i \in index : BucketOf[i] = sweep.bucket /\ sweep.bucket > 0}
    IN  /\ sweep.phase = "load" /\ sweep.bucket < BucketCount
        /\ sweep' = [sweep EXCEPT !.phase = "bucket", !.todo = entries,
                                  !.seen = @ \cup entries]
        /\ UNCHANGED <<clock, lease, artifact, index, op, held>>

LoadBucket ==
    LET entries == {i \in index : BucketOf[i] = sweep.bucket}
    IN  /\ sweep.phase = "load" /\ sweep.bucket < BucketCount
        /\ sweep' = [sweep EXCEPT !.phase = "bucket", !.todo = entries,
                                  !.seen = @ \cup entries]
        /\ UNCHANGED <<clock, lease, artifact, index, op, held>>

(* integrity_partition_for: the partition is the minute the sweep started  *)
(* in, modulo the bucket count.  A late start may hit any.                 *)
Partitions == 0..(BucketCount - 1)

(* Mutant: the sweep probes what it has already seen instead of the rest.  *)
IntegrityOfSeen(partition) ==
    /\ sweep.phase = "load" /\ sweep.bucket = BucketCount
    /\ sweep' = [sweep EXCEPT !.phase = "integrity",
            !.todo = {i \in sweep.seen : BucketOf[i] = partition}]
    /\ UNCHANGED <<clock, lease, artifact, index, op, held>>

Integrity(partition) ==
    /\ sweep.phase = "load" /\ sweep.bucket = BucketCount
    /\ sweep' = [sweep EXCEPT !.phase = "integrity",
            !.todo = {i \in Items \ sweep.seen : BucketOf[i] = partition}]
    /\ UNCHANGED <<clock, lease, artifact, index, op, held>>

StartIntegrity == \E partition \in Partitions : Integrity(partition)

(* Mutants: an expired lease is taken for a completed one; a lease that is *)
(* still running is taken back.                                            *)
DecisionAssumesDone(i, found) ==
    IF found \/ IsExpired(lease[i], sweep.now)
    THEN ReadFor("complete", i, 0) ELSE Idle

DecisionIgnoresExpiry(i, found) ==
    IF found THEN ReadFor("complete", i, 0)
    ELSE ReadFor("reclaim", i, sweep.now)

(* The decision of _settle_leased on a lease just read; one in flight is   *)
(* left alone, and the integrity sweep repairs its index entry.            *)
Decision(i, found) ==
    IF found THEN ReadFor("complete", i, 0)
    ELSE IF IsExpired(lease[i], sweep.now) THEN ReadFor("reclaim", i, sweep.now)
    ELSE IF sweep.phase = "integrity" THEN IndexOp("upsert", i)
    ELSE Idle

(* Looking for the artifact may fail, which counts as not finding it.      *)
ReapRead(i) ==
    LET active == lease[i].state = "leased" IN
    /\ ReaperIdle /\ i \in sweep.todo
    /\ \E found \in {FALSE, ArtifactPresent(i)} :
        op' = [op EXCEPT ![ReaperThread] =
                  IF active THEN Decision(i, found) ELSE Idle]
    /\ sweep' = [sweep EXCEPT
         !.todo = @ \ {i},
         !.drop = IF active \/ sweep.phase # "bucket" THEN @ ELSE @ \cup {i}]
    /\ UNCHANGED <<clock, lease, artifact, index, held>>

(* _drop_index_entries: one write per bucket, on the freshest entries.     *)
DropEntries ==
    /\ sweep.phase = "bucket" /\ sweep.todo = {} /\ ReaperIdle
    /\ \/ index' = index \ sweep.drop
       \/ sweep.drop # {} /\ UNCHANGED index   \* best effort: CAS exhausted
    /\ sweep' = [sweep EXCEPT !.phase = "load", !.bucket = @ + 1, !.drop = {}]
    /\ UNCHANGED <<clock, lease, artifact, op, held>>

SweepEnd ==
    /\ sweep.phase \in {"integrity", "probe"} /\ sweep.todo = {} /\ ReaperIdle
    /\ sweep' = SweepOff
    /\ UNCHANGED <<clock, lease, artifact, index, op, held>>

ReaperCrash ==
    /\ sweep.phase # "off"
    /\ sweep' = SweepOff
    /\ op' = [op EXCEPT ![ReaperThread] = Idle]
    /\ UNCHANGED <<clock, lease, artifact, index, held>>

-----------------------------------------------------------------------------
Storage(t) ==
    CasWins(t) \/ CasAnswerLost(t) \/ CasConflict(t)
      \/ IndexMutates(t) \/ IndexFails(t)

Worker(w) ==
    \/ \E i \in Items : ClaimRead(w, i)
    \/ RenewRead(w) \/ RenewRaises(w) \/ Upload(w) \/ Finish(w)
    \/ ReleaseRead(w) \/ AbandonRead(w) \/ Crash(w)

Sweeping ==
    \/ SweepStart \/ LoadBucket \/ StartIntegrity \/ DropEntries \/ SweepEnd
    \/ \E i \in Items : ReapRead(i)

Next ==
    \/ Tick
    \/ \E t \in Threads : Storage(t)
    \/ \E w \in Workers : Worker(w)
    \/ \E i \in Items : RequeueRead(i)
    \/ Sweeping
    \/ ReaperCrash

Spec == Init /\ [][Next]_vars

(* The reconciler is scheduled for ever, each of its requests to the       *)
(* bucket is answered, and from some point on every sweep that stops has   *)
(* come to its end (a crash at that point is the same step as SweepEnd).   *)
(* Nothing is assumed of workers, of the operator, or of which partitions  *)
(* the sweeps start in: a schedule may keep to some of them for ever.      *)
Fairness ==
    /\ WF_vars(Sweeping)
    /\ WF_vars(Storage(ReaperThread))
    /\ <>[][ReaperCrash => SweepEnd]_vars

FairSpec == Spec /\ Fairness

-----------------------------------------------------------------------------
TypeOK ==
    /\ clock \in Nat
    /\ lease \in [Items -> Leases]
    /\ artifact \subseteq Items \X Recipes
    /\ index \subseteq Items
    /\ op \in [Threads -> Operations]
    /\ held \in [Workers -> Beliefs]
    /\ sweep \in Sweeps

-----------------------------------------------------------------------------
(* A claim is live while no host's clock has reached its expiry.           *)
Live(expiry) == expiry > clock + Skew

LiveHolder(w, i) == held[w].item = i /\ Live(held[w].expiry)

(* Two workers never both work on an item under live claims while it has   *)
(* no artifact: claim's read-check-CAS, renew and the reaper never hand an *)
(* item on before its holder expired (an early completion is the only      *)
(* exception: the reaper settles an item whose artifact is present).       *)
ClaimExclusive ==
    \A i \in Items : \A w1, w2 \in Workers :
        LiveHolder(w1, i) /\ LiveHolder(w2, i) /\ w1 # w2 => ArtifactPresent(i)

(* Whatever a worker believes about a live claim is what the ledger says,  *)
(* or the item already has an artifact; the ledger may only promise longer *)
(* (a renewal whose answer was lost).                                      *)
BeliefTrue ==
    \A w \in Workers : \A i \in Items : LiveHolder(w, i) =>
        \/ /\ lease[i].state = "leased" /\ lease[i].owner = w
           /\ lease[i].expiry >= held[w].expiry
        \/ ArtifactPresent(i)

(* done is only ever written for an item that has an artifact, however     *)
(* long ago the reaper looked.                                             *)
DoneHasArtifact ==
    \A i \in Items : lease[i].state = "done" => ArtifactPresent(i)

(* A settled item is reopened only by a claim under another recipe, and a  *)
(* failed one also by the operator: no stale write of a worker or of the   *)
(* reaper ever undoes a terminal state.                                    *)
TerminalStep ==
    \A i \in Items : lease[i].state \in {"done", "failed"} /\ lease'[i] # lease[i] =>
        \/ /\ lease'[i].state = "leased"
           /\ lease'[i].recipe \notin {lease[i].recipe, NoRecipe}
        \/ /\ lease[i].state = "failed" /\ lease'[i].state = "queued"
           /\ op[OperatorThread].kind = "requeue"
           /\ op[OperatorThread].item = i
TerminalStaysSettled == [][TerminalStep]_vars

(* While a lease is live only its holder moves it, except that the reaper  *)
(* settles an item whose artifact is present.                              *)
LiveLeaseStep ==
    \A i \in Items : \A w \in Workers :
        lease[i].state = "leased" /\ lease[i].owner = w /\ Live(lease[i].expiry)
          /\ lease'[i] # lease[i] =>
            \/ lease'[i].state = "leased" /\ lease'[i].owner = w
                 /\ lease'[i].attempts = lease[i].attempts
            \/ lease'[i].state = "queued" /\ op[Main(w)].kind = "abandon"
            \/ lease'[i].state = "failed" /\ op[Main(w)].kind = "fail"
            \/ lease'[i].state = "done" /\ ArtifactPresent(i)
LiveLeaseProtected == [][LiveLeaseStep]_vars

(* The read-then-conditional-write operations implement the atomic ones.   *)
Ledger == INSTANCE LeaseLedger WITH clock <- clock, lease <- lease, artifact <- artifact
AtomicOperations == Ledger!Spec

Expired(i) == lease[i].state = "leased" /\ lease[i].expiry <= clock

(* A lease whose holder died does not stay held: once expired it is        *)
(* requeued, settled or claimed again, unless its index entry is lost,     *)
(* whichever partitions the sweeps start in.                               *)
IndexedRecovered ==
    \A i \in Items : Expired(i) ~> (~Expired(i) \/ i \notin index)

(* Even without an index entry (its write failed, was lost to a crash, or  *)
(* was undone by a prune) an expired lease is recovered, provided sweeps   *)
(* keep starting in its partition.  The proviso is not the code's to give: *)
(* integrity_partition_for takes the minute the sweep starts in, and a     *)
(* fixed schedule visits the same few partitions for ever.                 *)
ExpiredRecovered ==
    \A i \in Items :
        []<><<Integrity(BucketOf[i])>>_vars => (Expired(i) ~> ~Expired(i))

-----------------------------------------------------------------------------
(* Why the invariants hold: what every operation in flight knows about the *)
(* lease it read, which its conditional write turns into a fact about the  *)
(* lease it overwrites.                                                    *)

OpKnows(t) ==
    LET o == op[t] w == t[1] IN
    /\ o.kind # "idle" => o.item \in Items
    /\ o.kind = "claim" =>
         /\ w \in Workers /\ t = Main(w)
         /\ o.now <= clock + Offset[w] /\ MayClaim(o.seen, RecipeOf[w], o.now)
    /\ o.kind = "renew" =>
         /\ w \in Workers /\ t = Renewal(w)
         /\ o.now <= clock + Offset[w]
         /\ HoldsLease(o.seen, w, o.now) /\ o.seen.expiry <= o.now + TTL
    /\ o.kind \in {"fail", "abandon"} =>
         /\ w \in Workers /\ t = Main(w)
         /\ o.seen.state = "leased" /\ o.seen.owner = w
    /\ o.kind = "complete" => o.seen.state = "leased" /\ ArtifactPresent(o.item)
    /\ o.kind = "reclaim" =>
         /\ o.seen.state = "leased"
         /\ o.now <= clock + Skew /\ IsExpired(o.seen, o.now)
    /\ o.kind = "requeue" => t = OperatorThread /\ o.seen.state = "failed"

(* A leased object has an owner and an expiry its owner's clock reached.   *)
LeaseWellFormed ==
    \A i \in Items : lease[i].state = "leased" =>
        /\ lease[i].owner \in Workers
        /\ lease[i].expiry \in Nat
        /\ lease[i].expiry <= clock + Offset[lease[i].owner] + TTL

(* A worker that is claiming or settling is not working on anything.       *)
SettlingIsNotWorking ==
    \A w \in Workers :
        op[Main(w)].kind \in {"claim", "fail", "abandon"} => held[w].item = NoItem

Inv ==
    /\ TypeOK
    /\ \A t \in Threads : OpKnows(t)
    /\ LeaseWellFormed
    /\ SettlingIsNotWorking
    /\ sweep.now <= clock + Skew
    /\ BeliefTrue
    /\ DoneHasArtifact

=============================================================================
