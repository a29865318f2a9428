----------------------------- MODULE LeaseLedger -----------------------------
(***************************************************************************)
(* What the work-lease ledger promises its callers: every operation of     *)
(* citypods/ops/work_leases.py as ONE atomic step on the lease object.     *)
(* An operation judges expiry by a clock reading that may be stale but is  *)
(* never ahead of its host's clock.  WorkLeases, where an operation is a   *)
(* read followed by a conditional write, implements this specification.    *)
(***************************************************************************)
EXTENDS LeaseRecords

VARIABLES
    clock,      \* the clock of the slowest host
    lease,      \* the lease object of every item
    artifact    \* the <<item, recipe>> pairs whose transcript is in the bucket

vars == <<clock, lease, artifact>>

ArtifactPresent(i) == \E r \in Recipes : <<i, r>> \in artifact

Init ==
    /\ clock = 0
    /\ lease = [i \in Items |-> NoLease]
    /\ artifact = {}

Tick ==
    /\ clock' = clock + 1
    /\ UNCHANGED <<lease, artifact>>

Write(i, l) ==
    /\ lease' = [lease EXCEPT ![i] = l]
    /\ UNCHANGED <<clock, artifact>>

Claim(w, i) ==
    \E now \in 0..(clock + Offset[w]) :
        /\ MayClaim(lease[i], RecipeOf[w], now)
        /\ Write(i, Claimed(lease[i], w, now))

(* A renewal never brings the expiry closer.                               *)
Renew(w, i) ==
    \E now \in 0..(clock + Offset[w]) :
        /\ HoldsLease(lease[i], w, now)
        /\ lease[i].expiry <= now + TTL
        /\ Write(i, Renewed(lease[i], now))

Release(w, i) ==
    /\ lease[i].state = "leased" /\ lease[i].owner = w
    /\ Write(i, Settled(lease[i], "failed"))

Abandon(w, i) ==
    /\ lease[i].state = "leased" /\ lease[i].owner = w
    /\ Write(i, Requeued(lease[i]))

(* The reaper infers completion from the artifact.                         *)
Complete(i) ==
    /\ lease[i].state = "leased"
    /\ ArtifactPresent(i)
    /\ Write(i, Settled(lease[i], "done"))

(* The reaper takes an item back only from a holder that has expired.      *)
Reclaim(i) ==
    /\ lease[i].state = "leased"
    /\ IsExpired(lease[i], clock + Skew)
    /\ Write(i, Requeued(lease[i]))

RequeueFailed(i) ==
    /\ lease[i].state = "failed"
    /\ Write(i, Requeued(lease[i]))

Upload(w, i) ==
    /\ artifact' = artifact \cup {<<i, RecipeOf[w]>>}
    /\ UNCHANGED <<clock, lease>>

Next ==
    \/ Tick
    \/ \E i \in Items :
        \/ Complete(i)
        \/ Reclaim(i)
        \/ RequeueFailed(i)
        \/ \E w \in Workers :
            \/ Claim(w, i)
            \/ Renew(w, i)
            \/ Release(w, i)
            \/ Abandon(w, i)
            \/ Upload(w, i)

Spec == Init /\ [][Next]_vars

=============================================================================
