---------------------------- MODULE LeaseRecords ----------------------------
(***************************************************************************)
(* The per-item lease object of citypods/ops/work_leases.py: the dataclass *)
(* WorkLease, its predicates, and the object each operation writes.  The   *)
(* storage key, schema version and updated_at stamp are left out: the      *)
(* stamp only tells contents apart, and attempts, state and expiry already *)
(* do (no operation rewrites an object to an earlier content).             *)
(***************************************************************************)
EXTENDS Integers

CONSTANTS
    Items,      \* (source_key, uid) pairs
    Workers,    \* owner strings of the pull workers
    Recipes,    \* pipeline_version strings
    NoRecipe,   \* the empty pipeline_version ""
    NoOwner,    \* the empty owner ""
    RecipeOf,   \* the recipe a worker's deployed code claims under
    TTL,        \* ttl_seconds
    Offset,     \* how far each worker's host clock runs ahead of the slowest
    Skew        \* the largest such offset of any host

ASSUME LeaseAssumption ==
    /\ TTL \in Nat \ {0}
    /\ Skew \in Nat
    /\ RecipeOf \in [Workers -> Recipes]
    /\ NoRecipe \in Recipes
    /\ NoOwner \notin Workers
    /\ Offset \in [Workers -> 0..Skew]

NoExpiry == -1

LeaseStates == {"absent", "queued", "leased", "done", "failed"}

Leases ==
    [state    : LeaseStates,
     owner    : Workers \cup {NoOwner},
     expiry   : Nat \cup {NoExpiry},
     attempts : Nat,
     recipe   : Recipes]

(* What read_lease stands for when the key has no object.                  *)
NoLease ==
    [state |-> "absent", owner |-> NoOwner, expiry |-> NoExpiry,
     attempts |-> 0, recipe |-> NoRecipe]

-----------------------------------------------------------------------------
(* Predicates of WorkLease.                                                *)

IsExpired(l, now) == l.expiry # NoExpiry /\ l.expiry <= now

IsClaimable(l, now) ==
    l.state = "queued" \/ (l.state = "leased" /\ IsExpired(l, now))

(* Mutant: a terminal lease is reopened whatever recipe it was settled by. *)
StaleTerminalAnyRecipe(l, recipe) ==
    l.state \in {"done", "failed"} /\ recipe # NoRecipe

(* A terminal lease of another recipe is reopened by claim().              *)
StaleTerminal(l, recipe) ==
    /\ l.state \in {"done", "failed"}
    /\ recipe # NoRecipe
    /\ l.recipe # recipe

(* Mutant: a held lease is claimable before it expires.                    *)
MayClaimHeld(l, recipe, now) ==
    \/ l.state = "absent" \/ StaleTerminal(l, recipe)
    \/ l.state \in {"queued", "leased"}

MayClaim(l, recipe, now) ==
    l.state = "absent" \/ StaleTerminal(l, recipe) \/ IsClaimable(l, now)

(* The common guard of renew, release and abandon.                         *)
HoldsLease(l, w, now) ==
    l.state = "leased" /\ l.owner = w /\ ~IsExpired(l, now)

-----------------------------------------------------------------------------
(* The object each operation writes over the one it read.                  *)

MkLease(state, owner, expiry, attempts, recipe) ==
    [state |-> state, owner |-> owner, expiry |-> expiry,
     attempts |-> attempts, recipe |-> recipe]

(* Mutant: the TTL is taken off the clock instead of added to it.          *)
ClaimedPast(l, w, now) ==
    MkLease("leased", w, now - TTL, l.attempts + 1, RecipeOf[w])

Claimed(l, w, now) ==
    MkLease("leased", w, now + TTL, l.attempts + 1, RecipeOf[w])

Renewed(l, now) ==
    MkLease(l.state, l.owner, now + TTL, l.attempts, l.recipe)

Settled(l, terminal) ==
    MkLease(terminal, l.owner, NoExpiry, l.attempts, l.recipe)

Requeued(l) ==
    MkLease("queued", NoOwner, NoExpiry, l.attempts, l.recipe)

=============================================================================
