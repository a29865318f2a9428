--------------------------- MODULE ChapterCommits ---------------------------
(***************************************************************************)
(* The runs that commit to one record file under maintenance leases: the   *)
(* chapter lanes and the lane without a lease (citypods/run.py), and the   *)
(* reset scripts.  A run pulls the record, works, and pushes it back       *)
(* (statesync.push_records_merged): it checks its lane leases, fetches the *)
(* record again, merges its own blocks into it and puts the whole file,    *)
(* unconditionally.  One record stands for the file; its content is per    *)
(* block, named by the run that produced it.                               *)
(***************************************************************************)
EXTENDS MaintenanceLeases, Sequences

CONSTANTS
    Outer,       \* the lease keys a run takes for its whole length, in order
    Inner,       \* the keys a run takes around its push
    PlansFirst,  \* the runs that pull and plan before they take any lease
    Pushes,      \* the blocks a run owns in each of its pushes, in order
    Edits,       \* the blocks a run changes
    Removers,    \* the runs whose change is to clear the block
    Blocks,      \* the blocks of a record
    Old,         \* the content of a block before any of the runs
    Absent       \* the content of a block the record does not have

ASSUME CommitAssumption ==
    /\ Outer \in [Runs -> Seq(Keys)]
    /\ Inner \in [Runs -> Seq(Keys)]
    /\ PlansFirst \subseteq Runs /\ Removers \subseteq Runs
    /\ Pushes \in [Runs -> Seq(SUBSET Blocks)]
    /\ \A p \in Runs : Len(Pushes[p]) > 0
    /\ Edits \in [Runs -> SUBSET Blocks]
    /\ Old \notin Runs /\ Absent \notin Runs \cup {Old}

VARIABLES
    pc,      \* where each run is
    base,    \* the record in each run's state directory, without its edits
    snap,    \* the remote record each run fetched for its merge
    pushed,  \* how many of its pushes each run has behind it
    record,  \* the record in the bucket
    late     \* a run has put a record when a lease of its own had run out

commitVars == <<pc, base, snap, pushed, record, late>>
vars == <<leaseVars, commitVars>>

Contents == Runs \cup {Old, Absent}

Nothing == [b \in Blocks |-> Absent]

Init ==
    /\ LeaseInit
    /\ pc = [p \in Runs |-> "begin"]
    /\ record = [b \in Blocks |-> Old]
    /\ base = [p \in Runs |-> Nothing]
    /\ snap = [p \in Runs |-> Nothing]
    /\ pushed = [p \in Runs |-> 0]
    /\ late = FALSE

-----------------------------------------------------------------------------
KeysOf(p) == Outer[p] \o Inner[p]

KeySet(p) == {KeysOf(p)[n] : n \in DOMAIN KeysOf(p)}

(* The leases a run needs before it goes on: to pull, its lane's (none if  *)
(* it plans first); to push, the inner ones too.                           *)
Wanted(p) ==
    IF pc[p] # "begin" THEN KeysOf(p)
    ELSE IF p \in PlansFirst THEN <<>> ELSE Outer[p]

HasAll(p, keys) == \A n \in DOMAIN keys : held[p][keys[n]] # NotHeld

Acquire(p) ==
    /\ pc[p] \in {"begin", "working"}
    /\ \E n \in DOMAIN Wanted(p) :
        /\ HasAll(p, SubSeq(Wanted(p), 1, n - 1))
        /\ AcquireStart(p, Wanted(p)[n])
    /\ UNCHANGED commitVars

(* MaintenanceLeaseBusy, or a storage error: what is held is given back.   *)
AcquireFails(p) ==
    /\ AcquireRefused(p) \/ AcquireRaises(p)
    /\ pc' = [pc EXCEPT ![p] = "unwind"]
    /\ UNCHANGED <<base, snap, pushed, record, late>>

LeaseStorage(p) ==
    /\ \/ AcquireRead(p) \/ AcquireWins(p) \/ AcquireAnswerLost(p)
       \/ AcquireConflict(p) \/ ReleaseLands(p) \/ ReleaseConflict(p)
    /\ UNCHANGED commitVars

(* pull_state, or the script's sync of the sources it targets.             *)
Pull(p) ==
    /\ pc[p] = "begin" /\ call[p] = NoCall /\ HasAll(p, Wanted(p))
    /\ base' = [base EXCEPT ![p] = record]
    /\ pc' = [pc EXCEPT ![p] = "working"]
    /\ UNCHANGED <<leaseVars, snap, pushed, record, late>>

(* assert_held on the outer leases, immediately before the merge begins.   *)
AssertHeld(p) ==
    /\ pc[p] = "working" /\ call[p] = NoCall /\ HasAll(p, Wanted(p))
    /\ \E now \in HostClocks :
        pc' = [pc EXCEPT ![p] =
                IF \A n \in DOMAIN Outer[p] : OwnedBy(lock[Outer[p][n]], p, now)
                THEN "fetch" ELSE "unwind"]
    /\ UNCHANGED <<leaseVars, base, snap, pushed, record, late>>

Fetch(p) ==
    /\ pc[p] = "fetch"
    /\ snap' = [snap EXCEPT ![p] = record]
    /\ pc' = [pc EXCEPT ![p] = "put"]
    /\ UNCHANGED <<leaseVars, base, pushed, record, late>>

(* Mutant: one push too many.                                              *)
PushDoneLate(p) ==
    /\ snap' = [snap EXCEPT ![p] = Nothing]
    /\ pushed' = [pushed EXCEPT ![p] = @ + 1]
    /\ pc' = [pc EXCEPT ![p] =
                IF pushed[p] < Len(Pushes[p]) THEN "working" ELSE "unwind"]

(* On to the next push, or to the end.                                     *)
PushDone(p) ==
    /\ snap' = [snap EXCEPT ![p] = Nothing]
    /\ pushed' = [pushed EXCEPT ![p] = @ + 1]
    /\ pc' = [pc EXCEPT ![p] =
                IF pushed[p] + 1 < Len(Pushes[p]) THEN "working" ELSE "unwind"]

(* The remote record cannot be read: the push is skipped.                  *)
SkipPush(p) ==
    /\ pc[p] = "fetch"
    /\ PushDone(p)
    /\ UNCHANGED <<leaseVars, base, record, late>>

Produced(p) == IF p \in Removers THEN Absent ELSE p

(* The run's own copy: what it pulled, with its edits.                     *)
Local(p) ==
    [b \in Blocks |-> IF b \in Edits[p] THEN Produced(p) ELSE base[p][b]]

Owned(p) == Pushes[p][pushed[p] + 1]

(* Mutant: the run's whole copy is pushed.                                 *)
MergedWhole(p) == Local(p)

(* merge_preserving_foreign: own blocks from the local copy, the others    *)
(* from the remote one where it has them.                                  *)
Merged(p) ==
    [b \in Blocks |->
        IF b \in Owned(p) \/ snap[p][b] = Absent THEN Local(p)[b]
        ELSE snap[p][b]]

InTime(p) == \A k \in KeySet(p) : Holds(p, k)

(* save_records of the merge, then an unconditional put_file.              *)
Put(p) ==
    /\ pc[p] = "put"
    /\ record' = Merged(p)
    /\ base' = [base EXCEPT ![p] = Merged(p)]
    /\ late' = (late \/ ~InTime(p))
    /\ PushDone(p)
    /\ UNCHANGED leaseVars

(* An exception anywhere unwinds through the finally clauses.              *)
Fails(p) ==
    /\ pc[p] \in {"begin", "working", "fetch", "put"} /\ call[p] = NoCall
    /\ pc' = [pc EXCEPT ![p] = "unwind"]
    /\ snap' = [snap EXCEPT ![p] = Nothing]
    /\ UNCHANGED <<leaseVars, base, pushed, record, late>>

(* Leases are released in the reverse of the order they were taken in.     *)
Release(p) ==
    /\ pc[p] = "unwind"
    /\ \E n \in DOMAIN KeysOf(p) :
        /\ \A m \in DOMAIN KeysOf(p) : m > n => held[p][KeysOf(p)[m]] = NotHeld
        /\ ReleaseRead(p, KeysOf(p)[n])
    /\ UNCHANGED commitVars

(* The runner is gone, and its state directory with it.                    *)
Dies(p) ==
    /\ pc[p] # "dead"
    /\ Vanishes(p)
    /\ pc' = [pc EXCEPT ![p] = "dead"]
    /\ base' = [base EXCEPT ![p] = Nothing]
    /\ snap' = [snap EXCEPT ![p] = Nothing]
    /\ UNCHANGED <<pushed, record, late>>

Time == Tick /\ UNCHANGED commitVars

Next ==
    \/ Time
    \/ \E p \in Runs :
        \/ Acquire(p) \/ LeaseStorage(p) \/ AcquireFails(p)
        \/ Pull(p) \/ AssertHeld(p) \/ Fetch(p) \/ SkipPush(p) \/ Put(p)
        \/ Fails(p) \/ Release(p) \/ Dies(p)

Spec == Init /\ [][Next]_vars

-----------------------------------------------------------------------------
TypeOK ==
    /\ LeaseTypeOK
    /\ pc \in [Runs -> {"begin", "working", "fetch", "put", "unwind", "dead"}]
    /\ base \in [Runs -> [Blocks -> Contents]]
    /\ snap \in [Runs -> [Blocks -> Contents]]
    /\ pushed \in [Runs -> Nat]
    /\ record \in [Blocks -> Contents]
    /\ late \in BOOLEAN
    /\ \A p \in Runs : pc[p] \in {"begin", "working", "fetch", "put"} =>
        pushed[p] < Len(Pushes[p])

Pushing(p) == pushed'[p] # pushed[p]

(* A push changes nothing but blocks its run owns, and replaces nothing    *)
(* its run has not seen, as long as no run has outlived its leases: the    *)
(* read/modify/push windows of the lanes and of the resets are serialised, *)
(* although each holds different keys, none holds them all, and the put    *)
(* itself is unconditional.                                                *)
SerialStep ==
    late' \/ \A p \in Runs : Pushing(p) =>
        \A b \in Blocks : record'[b] # record[b] =>
            b \in Owned(p) /\ base[p][b] = record[b]
SerialCommits == [][SerialStep]_vars

(* The discipline of the lanes and of a reset that leases before it pulls. *)
(* Any two of them share a key, and those that own a block in common, or   *)
(* of which one clears blocks, share a key they hold for their whole       *)
(* length.  (A lane and its write key, another lane and the write key, a   *)
(* reset and both lanes' keys.)                                            *)
OuterSet(p) == {Outer[p][n] : n \in DOMAIN Outer[p]}

OwnedSet(p) == UNION {Pushes[p][n] : n \in DOMAIN Pushes[p]}

Disciplined ==
    /\ PlansFirst = {}
    /\ \A p, q \in Runs : p # q => KeySet(p) \cap KeySet(q) # {}
    /\ \A p, q \in Runs :
        p # q /\ (OwnedSet(p) \cap OwnedSet(q) # {} \/ q \in Removers) =>
            OuterSet(p) \cap OuterSet(q) # {}
    /\ \A p \in Runs \ Removers : \A n \in DOMAIN Pushes[p] :
        Edits[p] \subseteq Pushes[p][n]

(* What makes SerialCommits inductive under that discipline.  A run past   *)
(* its pull has its outer leases; while they last it has seen what it owns *)
(* and every block that is gone; and while it holds all its leases the     *)
(* record stays what it fetched.                                           *)
Pulled(p) == pc[p] \in {"working", "fetch", "put"}

HoldsOuter(p) == \A k \in OuterSet(p) : Holds(p, k)

CallsFit ==
    \A p \in Runs :
        /\ call[p].kind = "acquire" => pc[p] \in {"begin", "working"}
        /\ call[p].kind = "release" => pc[p] = "unwind"

OuterKept ==
    \A p \in Runs : Pulled(p) => \A k \in OuterSet(p) : held[p][k] # NotHeld

SeenCurrent ==
    \A p \in Runs : ~late /\ Pulled(p) /\ HoldsOuter(p) =>
        \A b \in Blocks :
            /\ b \in OwnedSet(p) => base[p][b] = record[b]
            /\ record[b] = Absent => base[p][b] = Absent

FetchedCurrent ==
    \A p \in Runs : ~late /\ pc[p] = "put" /\ InTime(p) => snap[p] = record

CommitInv == CallsFit /\ OuterKept /\ SeenCurrent /\ FetchedCurrent

=============================================================================
