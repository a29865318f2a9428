-------------------------- MODULE MaintenanceLeases --------------------------
(***************************************************************************)
(* The maintenance mutexes of citypods/ops/maintenance_leases.py: one      *)
(* lease object per key, taken and given back by conditional writes.       *)
(* Every run is its own owner and token.  A clock reading is that of some  *)
(* host, at most Skew ahead of the slowest.  A conditional write may land  *)
(* and still be reported as a conflict, when storage/s3.py retries it.     *)
(* renew() is left out: nothing calls it on a maintenance lease.           *)
(***************************************************************************)
EXTENDS Integers

CONSTANTS
    Runs,      \* workflow runs, each with an owner string and token
    NoRun,     \* the owner of an object that does not exist
    Keys,      \* lease keys
    NoKey,     \* no lease operation is under way
    LeaseTTL,  \* MAINTENANCE_LEASE_TTL_SECONDS
    Skew,      \* how far two hosts' clocks may differ
    MaxTries,  \* max_attempts of _acquire_single
    MaxClock   \* bound on clock

ASSUME MaintenanceAssumption ==
    /\ NoRun \notin Runs
    /\ NoKey \notin Keys
    /\ LeaseTTL \in Nat \ {0}
    /\ Skew \in Nat
    /\ MaxTries \in Nat \ {0}
    /\ MaxClock \in Nat

VARIABLES
    clock,  \* the clock of the slowest host
    lock,   \* the lease object under every key
    held,   \* the expiry of each lease a run has acquired, or NotHeld
    call    \* the acquire or release each run has under way

leaseVars == <<clock, lock, held, call>>

-----------------------------------------------------------------------------
MkLock(state, owner, expiry) ==
    [state |-> state, owner |-> owner, expiry |-> expiry]

Locks ==
    [state : {"absent", "held", "released"}, owner : Runs \cup {NoRun},
     expiry : Nat]

NoLock == MkLock("absent", NoRun, 0)

NotHeld == -1

HostClocks == clock..(clock + Skew)

Active(l, now) == l.state = "held" /\ l.expiry > now

(* Mutant: any active lease is taken for one's own.                        *)
OwnedByAnyone(l, p, now) == Active(l, now)

(* What _read_owned accepts.                                               *)
OwnedBy(l, p, now) == Active(l, now) /\ l.owner = p

MkCall(kind, k, now, tries, loaded, seen) ==
    [kind |-> kind, key |-> k, now |-> now, tries |-> tries,
     loaded |-> loaded, seen |-> seen]

Calls ==
    [kind : {"none", "acquire", "release"}, key : Keys \cup {NoKey}, now : Nat,
     tries : 0..MaxTries, loaded : BOOLEAN, seen : Locks]

NoCall == MkCall("none", NoKey, 0, 0, FALSE, NoLock)

LeaseInit ==
    /\ clock = 0
    /\ lock = [k \in Keys |-> NoLock]
    /\ held = [p \in Runs |-> [k \in Keys |-> NotHeld]]
    /\ call = [p \in Runs |-> NoCall]

Tick ==
    /\ clock < MaxClock
    /\ clock' = clock + 1
    /\ UNCHANGED <<lock, held, call>>

-----------------------------------------------------------------------------
(* _acquire_single: the clock is read once, the object on every attempt.   *)

AcquireStart(p, k) ==
    /\ call[p] = NoCall /\ held[p][k] = NotHeld
    /\ \E now \in HostClocks :
        call' = [call EXCEPT ![p] = MkCall("acquire", k, now, 0, FALSE, NoLock)]
    /\ UNCHANGED <<clock, lock, held>>

Acquiring(p) == call[p].kind = "acquire"

(* Mutant: an active lease is overwritten.                                 *)
BusyNever(p) == call[p].tries = MaxTries

(* Busy: someone's lease is active (one's own, after a lost answer), or    *)
(* the attempts are spent.                                                 *)
Busy(p) ==
    \/ call[p].tries = MaxTries
    \/ Active(lock[call[p].key], call[p].now)

AcquireRead(p) ==
    /\ Acquiring(p) /\ ~call[p].loaded /\ ~Busy(p)
    /\ call' = [call EXCEPT ![p] = MkCall("acquire", call[p].key, call[p].now,
                        call[p].tries, TRUE, lock[call[p].key])]
    /\ UNCHANGED <<clock, lock, held>>

AcquireRefused(p) ==
    /\ Acquiring(p) /\ ~call[p].loaded /\ Busy(p)
    /\ call' = [call EXCEPT ![p] = NoCall]
    /\ UNCHANGED <<clock, lock, held>>

Lands(p, l) ==
    /\ call[p].loaded /\ lock[call[p].key] = call[p].seen
    /\ lock' = [lock EXCEPT ![call[p].key] = l]

Taken(p) == MkLock("held", p, call[p].now + LeaseTTL)

AcquireWins(p) ==
    /\ Acquiring(p)
    /\ Lands(p, Taken(p))
    /\ held' = [held EXCEPT ![p][call[p].key] = call[p].now + LeaseTTL]
    /\ call' = [call EXCEPT ![p] = NoCall]
    /\ UNCHANGED clock

TriesAgain(p) ==
    call' = [call EXCEPT ![p] = MkCall("acquire", call[p].key, call[p].now,
                        call[p].tries + 1, FALSE, NoLock)]

AcquireAnswerLost(p) ==
    /\ Acquiring(p)
    /\ Lands(p, Taken(p))
    /\ TriesAgain(p)
    /\ UNCHANGED <<clock, held>>

AcquireConflict(p) ==
    /\ Acquiring(p) /\ call[p].loaded
    /\ lock[call[p].key] # call[p].seen
    /\ TriesAgain(p)
    /\ UNCHANGED <<clock, lock, held>>

(* A storage error, before or after the write landed.                      *)
AcquireRaises(p) ==
    /\ Acquiring(p)
    /\ Lands(p, Taken(p)) \/ UNCHANGED lock
    /\ call' = [call EXCEPT ![p] = NoCall]
    /\ UNCHANGED <<clock, held>>

-----------------------------------------------------------------------------
(* release: a tombstone over one's own unexpired lease; a lease that is    *)
(* gone, lost or overtaken is left alone.                                  *)

DropHeld(p, k) == held' = [held EXCEPT ![p][k] = NotHeld]

ReleaseRead(p, k) ==
    /\ call[p] = NoCall /\ held[p][k] # NotHeld
    /\ \E now \in HostClocks :
        IF OwnedBy(lock[k], p, now)
        THEN /\ call' = [call EXCEPT ![p] =
                    MkCall("release", k, now, 0, TRUE, lock[k])]
             /\ UNCHANGED held
        ELSE DropHeld(p, k) /\ UNCHANGED call
    /\ UNCHANGED <<clock, lock>>

ReleaseLands(p) ==
    /\ call[p].kind = "release"
    /\ Lands(p, MkLock("released", p, call[p].now))
    /\ DropHeld(p, call[p].key)
    /\ call' = [call EXCEPT ![p] = NoCall]
    /\ UNCHANGED clock

ReleaseConflict(p) ==
    /\ call[p].kind = "release"
    /\ lock[call[p].key] # call[p].seen
    /\ DropHeld(p, call[p].key)
    /\ call' = [call EXCEPT ![p] = NoCall]
    /\ UNCHANGED <<clock, lock>>

(* The process is killed, or a storage error ends its clean-up: its leases *)
(* stay until they expire.                                                 *)
Vanishes(p) ==
    /\ held' = [held EXCEPT ![p] = [k \in Keys |-> NotHeld]]
    /\ call' = [call EXCEPT ![p] = NoCall]
    /\ UNCHANGED <<clock, lock>>

LeaseNext ==
    \/ Tick
    \/ \E p \in Runs :
        \/ \E k \in Keys : AcquireStart(p, k) \/ ReleaseRead(p, k)
        \/ AcquireRead(p) \/ AcquireRefused(p)
        \/ AcquireWins(p) \/ AcquireAnswerLost(p) \/ AcquireConflict(p)
        \/ AcquireRaises(p)
        \/ ReleaseLands(p) \/ ReleaseConflict(p)
        \/ Vanishes(p)

LeaseSpec == LeaseInit /\ [][LeaseNext]_leaseVars

-----------------------------------------------------------------------------
LeaseTypeOK ==
    /\ clock \in Nat
    /\ lock \in [Keys -> Locks]
    /\ held \in [Runs -> [Keys -> Nat \cup {NotHeld}]]
    /\ call \in [Runs -> Calls]

(* A run holds a key for sure while no host's clock has reached the expiry *)
(* of the lease it acquired.                                               *)
Holds(p, k) == held[p][k] > clock + Skew

(* The mutex: two runs never both hold a key for sure.                     *)
Exclusive ==
    \A k \in Keys : \A p, q \in Runs : Holds(p, k) /\ Holds(q, k) => p = q

(* What a run holds for sure is what the lease object says: neither an     *)
(* acquire nor a release working from an old read replaces it.             *)
HoldsIsTrue ==
    \A p \in Runs : \A k \in Keys : Holds(p, k) =>
        lock[k] = MkLock("held", p, held[p][k])

(* What the calls under way know of the object they read.                  *)
CallKnows ==
    \A p \in Runs :
        /\ call[p].kind # "none" => call[p].key \in Keys
        /\ Acquiring(p) => /\ call[p].now <= clock + Skew
                           /\ held[p][call[p].key] = NotHeld
                           /\ call[p].loaded =>
                                /\ ~Active(call[p].seen, call[p].now)
                                /\ call[p].tries < MaxTries
        /\ call[p].kind = "release" => call[p].loaded /\ call[p].seen.owner = p

LeaseInv == LeaseTypeOK /\ HoldsIsTrue /\ CallKnows

=============================================================================
