--------------------------- MODULE ProviderLeases ---------------------------
(***************************************************************************)
(* The two concurrency caps a media fetch holds while it runs: the         *)
(* process-local semaphores of HostRateLimiter (citypods/http.py) and,     *)
(* inside them, the distributed slots of citypods/provider_leases.py, N    *)
(* compare-and-swap objects per domain with a renewal thread per held      *)
(* slot.  A caller is one thread running `with HOST_LIMITER.slots(urls),   *)
(* DISTRIBUTED_PROVIDER_LEASES.slots(urls)` over and over.                 *)
(*                                                                         *)
(* Time is relative: an expiry is the number of ticks left until the       *)
(* slowest host's clock reaches it, and a host's clock is up to Skew ahead *)
(* of that one.  A payload is never written twice (it carries the owner    *)
(* and the microsecond), so the ETags need no values: match says whose     *)
(* remembered ETag is still the object's.                                  *)
(***************************************************************************)
EXTENDS Integers, FiniteSets

CONSTANTS
    Callers,    \* threads of all processes
    NoCaller,   \* the writer of an object that does not exist
    Processes,  \* processes (the shards of a workflow)
    ProcessOf,  \* the process of a caller
    Domains,    \* configured domains, numbered in sorted order
    Wants,      \* the domains of a caller's urls
    Cap,        \* provider_rate_limits: a process's semaphore per domain
    SlotCount,  \* rule.slots, per domain
    Offset,     \* _scan_offset, per process and domain
    LeaseTTL,   \* rule.ttl_seconds
    Skew,       \* how far two hosts' clocks may differ
    Ahead,      \* how far a process's clock is ahead of the slowest
    Horizon     \* how many ticks back two past moments are told apart

ASSUME ProviderAssumption ==
    /\ IsFiniteSet(Callers) /\ NoCaller \notin Callers
    /\ ProcessOf \in [Callers -> Processes]
    /\ Domains \subseteq Nat
    /\ Wants \in [Callers -> SUBSET Domains]
    /\ Cap \in [Domains -> Nat \ {0}]
    /\ SlotCount \in [Domains -> Nat \ {0}]
    /\ Offset \in [Processes -> [Domains -> Nat]]
    /\ LeaseTTL \in Nat \ {0} /\ Skew \in Nat /\ Horizon \in Nat
    /\ Ahead \in [Processes -> 0..Skew]

VARIABLES
    slot,    \* the slot objects
    match,   \* whose remembered ETag is a slot object's current one
    pc,      \* where each caller is
    sems,    \* the domains whose semaphore a caller holds
    lease,   \* the lease a caller holds on each domain
    pass,    \* a caller's walk over the slots of the domain it waits for
    put      \* the renewal each lease's thread has in flight

vars == <<slot, match, pc, sems, lease, pass, put>>

-----------------------------------------------------------------------------
Slots == UNION {{d} \X (0..(SlotCount[d] - 1)) : d \in Domains}

Floor == -Horizon

Lefts == Floor..(LeaseTTL + Skew)

(* A moment one tick on.  The floor is a device of the model: real time    *)
(* goes on, but below the floor past moments are not told apart.           *)
Age(left) == IF left > Floor THEN left - 1 ELSE left

(* datetime.now, as a caller reads it.                                     *)
Now(t) == Ahead[ProcessOf[t]]

MkSlot(state, by, left) == [state |-> state, by |-> by, left |-> left]

SlotObjects ==
    [state : {"absent", "acquired", "released"}, by : Callers \cup {NoCaller},
     left : Lefts]

NoSlot == MkSlot("absent", NoCaller, Floor)

(* A held lease: the index of its slot, the expiry last known to be        *)
(* written, and _lost.                                                     *)
MkLease(index, left, lost) == [index |-> index, left |-> left, lost |-> lost]

LeaseObjects ==
    [index : Nat \cup {-1}, left : Lefts, lost : BOOLEAN]

NoLease == MkLease(-1, Floor, FALSE)

(* One pass: its domain, `now`, how many slots were probed, and the        *)
(* payload of the claim being written (while the next slot is still to be  *)
(* read, none).                                                            *)
MkPass(domain, now, probed, claiming, left) ==
    [domain |-> domain, now |-> now, probed |-> probed, claiming |-> claiming,
     left |-> left]

Passes ==
    [domain : Domains \cup {-1}, now : Floor..Skew, probed : Nat,
     claiming : BOOLEAN, left : Lefts]

NoPass == MkPass(-1, Floor, 0, FALSE, Floor)

(* A renewal in flight: the slot and the expiry of its payload.  When      *)
(* release() gives up joining its thread, it outlives the lease.           *)
MkPut(index, left) == [index |-> index, left |-> left]

Puts == [index : Nat \cup {-1}, left : Lefts]

NoPut == MkPut(-1, Floor)

Held(t) == {d \in Domains : lease[t][d].index # -1}

Renewing(t, d) == put[t][d].index # -1

(* Mutant: the domains are taken in the order of the caller's urls.        *)
FirstOfUrls(t, d, missing) ==
    /\ d \in missing
    /\ \A e \in missing : IF t = CHOOSE u \in Callers : TRUE THEN d <= e ELSE d >= e

(* slots() sorts the domains; they are taken in that order and given back  *)
(* in the reverse one.                                                     *)
First(t, d, missing) == d \in missing /\ \A e \in missing : d <= e

Last(d, taken) == d \in taken /\ \A e \in taken : d >= e

Init ==
    /\ slot = [s \in Slots |-> NoSlot]
    /\ match = [s \in Slots |-> {}]
    /\ pc = [t \in Callers |-> "idle"]
    /\ sems = [t \in Callers |-> {}]
    /\ lease = [t \in Callers |-> [d \in Domains |-> NoLease]]
    /\ pass = [t \in Callers |-> NoPass]
    /\ put = [t \in Callers |-> [d \in Domains |-> NoPut]]

Tick ==
    /\ slot' = [s \in Slots |-> [slot[s] EXCEPT !.left = Age(@)]]
    /\ lease' = [t \in Callers |-> [d \in Domains |->
                    [lease[t][d] EXCEPT !.left = Age(@)]]]
    /\ pass' = [t \in Callers |->
                    [pass[t] EXCEPT !.now = Age(@), !.left = Age(@)]]
    /\ put' = [t \in Callers |-> [d \in Domains |->
                    [put[t][d] EXCEPT !.left = Age(@)]]]
    /\ UNCHANGED <<match, pc, sems>>

-----------------------------------------------------------------------------
(* The semaphores: _Slots.__enter__, one per domain in sorted order.       *)

Missing(t) == Wants[t] \ sems[t]

Free(t, d) ==
    Cardinality({u \in Callers : /\ ProcessOf[u] = ProcessOf[t]
                                 /\ d \in sems[u]}) < Cap[d]

(* While a renewal of an earlier use is in flight the thread's next use is *)
(* that of another caller of its process.                                  *)
Begin(t) ==
    /\ pc[t] = "idle" /\ Wants[t] # {}
    /\ \A d \in Domains : ~Renewing(t, d)
    /\ pc' = [pc EXCEPT ![t] = "sems"]
    /\ UNCHANGED <<slot, match, sems, lease, pass, put>>

WantsSemaphore(t, d) == pc[t] = "sems" /\ First(t, d, Missing(t))

TakeSemaphore(t, d) ==
    /\ WantsSemaphore(t, d) /\ Free(t, d)
    /\ sems' = [sems EXCEPT ![t] = @ \cup {d}]
    /\ pc' = [pc EXCEPT ![t] = IF Missing(t) = {d} THEN "leases" ELSE @]
    /\ UNCHANGED <<slot, match, lease, pass, put>>

(* stop() is polled while the semaphore is taken.                          *)
SemaphoreStop(t, d) ==
    /\ WantsSemaphore(t, d) /\ ~Free(t, d)
    /\ pc' = [pc EXCEPT ![t] = "exit"]
    /\ UNCHANGED <<slot, match, sems, lease, pass, put>>

-----------------------------------------------------------------------------
(* The distributed slots: _acquire runs passes until one claims a slot.    *)

Unleased(t) == Wants[t] \ Held(t)

WantsSlot(t, d) == pc[t] = "leases" /\ First(t, d, Unleased(t))

PassOver(t) == pass[t].domain = -1

(* The slot a pass is at.                                                  *)
SlotIndex(t) ==
    LET d == pass[t].domain
    IN (Offset[ProcessOf[t]][d] + pass[t].probed) % SlotCount[d]

SlotAt(t) == <<pass[t].domain, SlotIndex(t)>>

PassStart(t, d) ==
    /\ WantsSlot(t, d) /\ PassOver(t)
    /\ pass' = [pass EXCEPT ![t] = MkPass(d, Now(t), 0, FALSE, Floor)]
    /\ UNCHANGED <<slot, match, pc, sems, lease, put>>

(* stop() is polled before each pass.                                      *)
LeaseStop(t, d) ==
    /\ WantsSlot(t, d) /\ PassOver(t)
    /\ pc' = [pc EXCEPT ![t] = "exit"]
    /\ UNCHANGED <<slot, match, sems, lease, pass, put>>

(* Mutant: a slot is taken one tick before its expiry.                     *)
ReclaimableEarly(s, now) == slot[s].state = "absent" \/ slot[s].left <= now + 1

(* Mutant: only a slot that was never used is taken.                       *)
ReclaimableAbsent(s, now) == slot[s].state = "absent"

(* A free slot is absent, or its expiry is not after now (a tombstone's    *)
(* soon is not).  Beyond the horizon either may be the later.              *)
Reclaimable(s, now) == slot[s].state = "absent" \/ slot[s].left <= now

(* On to the next slot, or to the end of the pass.                         *)
PassOn(t) ==
    pass' = [pass EXCEPT ![t] =
        IF pass[t].probed + 1 < SlotCount[pass[t].domain]
        THEN MkPass(pass[t].domain, pass[t].now, pass[t].probed + 1, FALSE, Floor)
        ELSE NoPass]

(* An ETag that will not be used again.                                    *)
Forget(s, who) == [match EXCEPT ![s] = @ \ {who}]

ProbeOccupied(t) ==
    /\ ~PassOver(t) /\ ~pass[t].claiming
    /\ slot[SlotAt(t)].state # "absent"
    /\ slot[SlotAt(t)].left > pass[t].now \/ pass[t].now = Floor
    /\ PassOn(t)
    /\ UNCHANGED <<slot, match, pc, sems, lease, put>>

(* The read of a free slot, and the payload of the claim.                  *)
ProbeFree(t) ==
    /\ ~PassOver(t) /\ ~pass[t].claiming
    /\ Reclaimable(SlotAt(t), pass[t].now)
    /\ match' = [match EXCEPT ![SlotAt(t)] = @ \cup {<<t, "pass">>}]
    /\ pass' = [pass EXCEPT ![t].claiming = TRUE, ![t].left = Now(t) + LeaseTTL]
    /\ UNCHANGED <<slot, pc, sems, lease, put>>

(* Mutant: the write carries no If-Match.                                  *)
WritesAnyway(s, who, object, learns) ==
    /\ slot' = [slot EXCEPT ![s] = object]
    /\ match' = [match EXCEPT ![s] = learns]

(* A conditional write: it needs the writer's ETag to be current, and      *)
(* makes everyone's stale but that of whoever learns the new one.          *)
Writes(s, who, object, learns) ==
    /\ who \in match[s]
    /\ slot' = [slot EXCEPT ![s] = object]
    /\ match' = [match EXCEPT ![s] = learns]

ClaimedSlot(t) == MkSlot("acquired", t, pass[t].left)

ClaimWins(t) ==
    /\ pass[t].claiming
    /\ Writes(SlotAt(t), <<t, "pass">>, ClaimedSlot(t), {<<t, "lease">>})
    /\ lease' = [lease EXCEPT ![t][pass[t].domain] =
                    MkLease(SlotIndex(t), pass[t].left, FALSE)]
    /\ pass' = [pass EXCEPT ![t] = NoPass]
    /\ UNCHANGED <<pc, sems, put>>

(* The write lands, its answer is lost, and its retry gets 412: the slot   *)
(* is taken by nobody until it expires.                                    *)
ClaimAnswerLost(t) ==
    /\ pass[t].claiming
    /\ Writes(SlotAt(t), <<t, "pass">>, ClaimedSlot(t), {})
    /\ PassOn(t)
    /\ UNCHANGED <<pc, sems, lease, put>>

ClaimConflict(t) ==
    /\ pass[t].claiming
    /\ <<t, "pass">> \notin match[SlotAt(t)]
    /\ PassOn(t)
    /\ UNCHANGED <<slot, match, pc, sems, lease, put>>

(* A storage error in the read or the write, which may have landed.        *)
AcquireRaises(t) ==
    /\ ~PassOver(t)
    /\ \/ /\ pass[t].claiming
          /\ Writes(SlotAt(t), <<t, "pass">>, ClaimedSlot(t), {})
       \/ /\ UNCHANGED slot
          /\ match' = Forget(SlotAt(t), <<t, "pass">>)
    /\ pass' = [pass EXCEPT ![t] = NoPass]
    /\ pc' = [pc EXCEPT ![t] = "exit"]
    /\ UNCHANGED <<sems, lease, put>>

Work(t) ==
    /\ pc[t] = "leases" /\ PassOver(t) /\ Unleased(t) = {}
    /\ pc' = [pc EXCEPT ![t] = "work"]
    /\ UNCHANGED <<slot, match, sems, lease, pass, put>>

WorkEnds(t) ==
    /\ pc[t] = "work"
    /\ pc' = [pc EXCEPT ![t] = "exit"]
    /\ UNCHANGED <<slot, match, sems, lease, pass, put>>

-----------------------------------------------------------------------------
(* _renew_while_held, the thread of one lease, until release() stops it.   *)

Releases(t, d) == pc[t] = "exit" /\ Last(d, Held(t))

(* Mutant: the TTL is added to the expiry held so far, not to now.         *)
RenewStacks(t, d) ==
    /\ d \in Held(t) /\ ~Releases(t, d)
    /\ ~lease[t][d].lost /\ ~Renewing(t, d)
    /\ put' = [put EXCEPT ![t][d] =
                    MkPut(lease[t][d].index, lease[t][d].left + LeaseTTL)]
    /\ UNCHANGED <<slot, match, pc, sems, lease, pass>>

RenewStart(t, d) ==
    /\ d \in Held(t) /\ ~Releases(t, d)
    /\ ~lease[t][d].lost /\ ~Renewing(t, d)
    /\ put' = [put EXCEPT ![t][d] = MkPut(lease[t][d].index, Now(t) + LeaseTTL)]
    /\ UNCHANGED <<slot, match, pc, sems, lease, pass>>

RenewedSlot(t, d) == MkSlot("acquired", t, put[t][d].left)

Renewed(t, d) == <<d, put[t][d].index>>

RenewDone(t, d) == put' = [put EXCEPT ![t][d] = NoPut]

(* What the thread remembers after a write of its own succeeded.           *)
LeaseKnows(t, d) == IF d \in Held(t) THEN {<<t, "lease">>} ELSE {}

RenewWins(t, d) ==
    /\ Renewing(t, d)
    /\ Writes(Renewed(t, d), <<t, "lease">>, RenewedSlot(t, d), LeaseKnows(t, d))
    /\ lease' = IF d \in Held(t)
                THEN [lease EXCEPT ![t][d].left = put[t][d].left]
                ELSE lease
    /\ RenewDone(t, d)
    /\ UNCHANGED <<pc, sems, pass>>

(* 412: the slot was reaped, or one's own earlier write landed.            *)
RenewConflict(t, d) ==
    /\ Renewing(t, d)
    /\ \/ <<t, "lease">> \notin match[Renewed(t, d)] /\ UNCHANGED <<slot, match>>
       \/ Writes(Renewed(t, d), <<t, "lease">>, RenewedSlot(t, d), {})
    /\ lease' = IF d \in Held(t)
                THEN [lease EXCEPT ![t][d].lost = TRUE]
                ELSE lease
    /\ RenewDone(t, d)
    /\ UNCHANGED <<pc, sems, pass>>

(* Any other error is logged; the write may have landed.                   *)
RenewFails(t, d) ==
    /\ Renewing(t, d)
    /\ \/ /\ UNCHANGED slot
          /\ match' = IF d \in Held(t) THEN match
                      ELSE Forget(Renewed(t, d), <<t, "lease">>)
       \/ Writes(Renewed(t, d), <<t, "lease">>, RenewedSlot(t, d), {})
    /\ RenewDone(t, d)
    /\ UNCHANGED <<pc, sems, lease, pass>>

-----------------------------------------------------------------------------
(* __exit__, and __enter__'s clean-up: the leases are released in reverse, *)
(* then the semaphores.  release() stops and joins the renewal thread, for *)
(* a limited time, so its write may still be in flight.                    *)

DropLease(t, d) == lease' = [lease EXCEPT ![t][d] = NoLease]

OwnSlot(t, d) == <<d, lease[t][d].index>>

(* Mutant: the slot is freed without a look at whose it is by now.         *)
ReleaseBlindly(t, d) ==
    /\ Releases(t, d) /\ ~lease[t][d].lost
    /\ slot' = [slot EXCEPT ![OwnSlot(t, d)] = MkSlot("released", t, Now(t))]
    /\ match' = [match EXCEPT ![OwnSlot(t, d)] = {}]
    /\ DropLease(t, d)
    /\ UNCHANGED <<pc, sems, pass, put>>

(* The tombstone: already past on the releasing host's clock.              *)
ReleaseLands(t, d) ==
    /\ Releases(t, d) /\ ~lease[t][d].lost
    /\ Writes(OwnSlot(t, d), <<t, "lease">>, MkSlot("released", t, Now(t)), {})
    /\ DropLease(t, d)
    /\ UNCHANGED <<pc, sems, pass, put>>

(* Skipped when lost, refused when reclaimed, or failed with an error.     *)
ReleaseSkipped(t, d) ==
    /\ Releases(t, d)
    /\ DropLease(t, d)
    /\ match' = IF Renewing(t, d) THEN match
                ELSE Forget(OwnSlot(t, d), <<t, "lease">>)
    /\ UNCHANGED <<slot, pc, sems, pass, put>>

(* __exit__ of the semaphores cannot fail or wait.                         *)
ReleaseSemaphores(t) ==
    /\ pc[t] = "exit" /\ Held(t) = {}
    /\ sems' = [sems EXCEPT ![t] = {}]
    /\ pc' = [pc EXCEPT ![t] = "idle"]
    /\ UNCHANGED <<slot, match, lease, pass, put>>

(* A process is killed and started again: its slots stay until they        *)
(* expire.                                                                 *)
Crash(p) ==
    LET dead == {t \in Callers : ProcessOf[t] = p} IN
    /\ \E t \in dead : pc[t] # "idle"
    /\ pc' = [t \in Callers |-> IF t \in dead THEN "idle" ELSE pc[t]]
    /\ sems' = [t \in Callers |-> IF t \in dead THEN {} ELSE sems[t]]
    /\ lease' = [t \in Callers |->
                    IF t \in dead THEN [d \in Domains |-> NoLease] ELSE lease[t]]
    /\ pass' = [t \in Callers |-> IF t \in dead THEN NoPass ELSE pass[t]]
    /\ put' = [t \in Callers |->
                    IF t \in dead THEN [d \in Domains |-> NoPut] ELSE put[t]]
    /\ match' = [s \in Slots |-> {m \in match[s] : m[1] \notin dead}]
    /\ UNCHANGED slot

Runs(t) ==
    \/ \E d \in Domains :
        TakeSemaphore(t, d) \/ PassStart(t, d) \/ ReleaseSkipped(t, d)
    \/ ProbeOccupied(t) \/ ProbeFree(t) \/ ClaimConflict(t)
    \/ Work(t) \/ WorkEnds(t) \/ ReleaseSemaphores(t)

Resolves(t, d) == RenewWins(t, d) \/ RenewConflict(t, d) \/ RenewFails(t, d)

Next ==
    \/ Tick
    \/ \E t \in Callers :
        \/ Begin(t) \/ Runs(t) \/ ClaimWins(t)
        \/ ClaimAnswerLost(t) \/ AcquireRaises(t)
        \/ \E d \in Domains :
            \/ SemaphoreStop(t, d) \/ LeaseStop(t, d)
            \/ RenewStart(t, d) \/ Resolves(t, d) \/ ReleaseLands(t, d)
    \/ \E p \in Processes : Crash(p)

Spec == Init /\ [][Next]_vars

(* Threads keep running, a subprocess ends (it has a timeout), a storage   *)
(* call returns, the clock advances; a slot long expired is not taken for  *)
(* live, nor a claim's answer lost, in every pass there is; processes are  *)
(* not killed for ever.  Nothing makes a caller start, stop or renew.      *)
FairSpec ==
    /\ Spec
    /\ <>[][\A p \in Processes : ~Crash(p)]_vars
    /\ WF_vars(Tick)
    /\ \A t \in Callers :
        /\ WF_vars(Runs(t))
        /\ SF_vars(ProbeFree(t)) /\ SF_vars(ClaimWins(t))
        /\ \A d \in Domains : WF_vars(Resolves(t, d))

-----------------------------------------------------------------------------
(* Types; with them, no expiry ever lies further ahead than one TTL past   *)
(* the fastest clock, however often a lease is renewed, so that a slot     *)
(* whose holder died is free again within that time.                       *)
TypeOK ==
    /\ slot \in [Slots -> SlotObjects]
    /\ match \in [Slots -> SUBSET (Callers \X {"pass", "lease"})]
    /\ pc \in [Callers -> {"idle", "sems", "leases", "work", "exit"}]
    /\ sems \in [Callers -> SUBSET Domains]
    /\ lease \in [Callers -> [Domains -> LeaseObjects]]
    /\ pass \in [Callers -> Passes]
    /\ put \in [Callers -> [Domains -> Puts]]

(* A caller surely holds a slot of d while no host's clock has reached the *)
(* expiry it knows to be written, whether or not it believes it lost it.   *)
SurelyHolds(t, d) == d \in Held(t) /\ lease[t][d].left > Skew

(* The cap of provider_leases.py: until an expiry passes, no more callers  *)
(* of all processes fetch from a domain than it has slots.  Lost answers,  *)
(* late renewals and crashes may leave a slot idle but never share it.     *)
CapUntilExpiry ==
    \A d \in Domains :
        Cardinality({t \in Callers : SurelyHolds(t, d)}) <= SlotCount[d]

(* Why the cap holds: what a caller surely holds is what the slot object   *)
(* says, so no claim, renewal or tombstone of another caller replaced it.  *)
SureIsTrue ==
    \A t \in Callers : \A d \in Domains : SurelyHolds(t, d) =>
        /\ slot[OwnSlot(t, d)].state = "acquired"
        /\ slot[OwnSlot(t, d)].by = t
        /\ slot[OwnSlot(t, d)].left >= lease[t][d].left

(* _release never frees a slot another caller took, even when its own      *)
(* lease lapsed before: a tombstone only ever replaces the releaser's own  *)
(* claim.                                                                  *)
FreesOnlyOwn ==
    [][\A s \in Slots :
        slot'[s].state = "released" /\ slot'[s] # slot[s] /\ slot[s].state # "released"
            => slot'[s].by = slot[s].by]_vars

(* Where the records of a caller point.                                    *)
Indices(d) == 0..(SlotCount[d] - 1)

PassPlaced(t) ==
    /\ ~PassOver(t) => pc[t] = "leases" /\ pass[t].domain \notin Held(t)
    /\ PassOver(t) => ~pass[t].claiming
    /\ pass[t].left <= Now(t) + LeaseTTL

LeasePlaced(t, d) ==
    /\ d \in Held(t) => lease[t][d].index \in Indices(d)
    /\ d \in Held(t) => pc[t] \notin {"idle", "sems"}
    /\ lease[t][d].left <= Now(t) + LeaseTTL

(* A renewal extends the lease it is for, and outlives it only when the    *)
(* caller is done.                                                         *)
PutPlaced(t, d) ==
    Renewing(t, d) =>
        /\ put[t][d].index \in Indices(d)
        /\ put[t][d].left <= Now(t) + LeaseTTL
        /\ d \in Held(t) =>
            put[t][d].index = lease[t][d].index /\ lease[t][d].left <= put[t][d].left
        /\ d \notin Held(t) => pc[t] \in {"idle", "exit"}

Placed ==
    \A t \in Callers :
        PassPlaced(t) /\ \A d \in Domains : LeasePlaced(t, d) /\ PutPlaced(t, d)

(* An ETag of a lease is current only while the object is the caller's     *)
(* claim, and that of a pass only while the object is free to claim.       *)
MatchTrue ==
    \A s \in Slots : \A t \in Callers :
        /\ <<t, "lease">> \in match[s] =>
            slot[s].state = "acquired" /\ slot[s].by = t
        /\ <<t, "pass">> \in match[s] /\ pass[t].claiming /\ s = SlotAt(t) =>
            Reclaimable(s, pass[t].now)

SlotInv == TypeOK /\ Placed /\ MatchTrue /\ SureIsTrue

(* Both kinds of resource are taken in order, and a pass is over the slots *)
(* of the domain that is next.                                             *)
OrderedAt(t) ==
    /\ pc[t] = "idle" => sems[t] = {}
    /\ pc[t] = "sems" => \A d \in sems[t] : \A e \in Missing(t) : d < e
    /\ pc[t] = "leases" => \A d \in Held(t) : \A e \in Unleased(t) : d < e
    /\ ~PassOver(t) => WantsSlot(t, pass[t].domain)

InOrder == \A t \in Callers : OrderedAt(t)

Waiting(t) == pc[t] \in {"sems", "leases"}

(* u has what t waits for: a semaphore of their process, or a slot.        *)
Blocks(u, t) ==
    \E d \in Domains :
        \/ WantsSemaphore(t, d) /\ ProcessOf[u] = ProcessOf[t] /\ d \in sems[u]
        \/ WantsSlot(t, d) /\ d \in Held(u)

(* Callers never wait for one another in a circle, which no expiry would   *)
(* break while their renewals go on: every path takes all semaphores       *)
(* before the slots (#342), and both in sorted order.                      *)
NoCircularWait ==
    \A S \in (SUBSET Callers) \ {{}} :
        \E t \in S : Waiting(t) => \A u \in S : ~Blocks(u, t)

(* Nobody waits for ever on callers that wait too: a slot whose holder     *)
(* died, or lost the answer to its claim, its renewal or its release,      *)
(* comes free.  (A caller may still wait while others get through or give  *)
(* up: the slots promise a cap, not fairness.)                             *)
WaitersProgress ==
    \A t \in Callers :
        Waiting(t) ~> (~Waiting(t) \/ \E u \in Callers : pc[u] \in {"work", "exit"})

=============================================================================
