--------------------------- MODULE WorkLeasesProofs ---------------------------
(***************************************************************************)
(* Proofs about WorkLeases, for every set of items and workers, every TTL, *)
(* every clock skew and every bucket layout.                               *)
(***************************************************************************)
EXTENDS WorkLeases, TLAPS

(* Thread identities: a thread of a worker is neither the reaper's nor the *)
(* operator's, and a worker's two threads differ.                          *)
LEMMA ThreadFacts ==
    /\ \A w \in Workers : Main(w) \in Threads /\ Renewal(w) \in Threads
    /\ ReaperThread \in Threads /\ OperatorThread \in Threads
    /\ \A w, v \in Workers : Main(w) # Renewal(v)
    /\ \A w, v \in Workers : Main(w) = Main(v) => w = v
    /\ \A w \in Workers : /\ Main(w) # ReaperThread /\ Renewal(w) # ReaperThread
                          /\ Main(w) # OperatorThread /\ Renewal(w) # OperatorThread
    /\ ReaperThread # OperatorThread
    /\ \A w \in Workers : Main(w)[1] = w /\ Renewal(w)[1] = w
BY ThreadAssumption DEF Main, Renewal, ReaperThread, OperatorThread, Threads

(* The object a conditional write puts is a well-formed lease.             *)
LEMMA WrittenType ==
    ASSUME Inv, NEW t \in Threads, op[t].kind \in WriteKinds
    PROVE  Written(t, op[t]) \in Leases
<1> USE LeaseAssumption
<1> DEFINE o == op[t]
<1>1. o \in Operations /\ o.seen \in Leases /\ o.now \in Nat
  BY DEF Inv, TypeOK, Operations
<1>2. OpKnows(t)
  BY DEF Inv
<1>3. CASE o.kind = "claim"
  <2>1. t[1] \in Workers
    BY <1>2, <1>3 DEF OpKnows
  <2> QED
    BY <1>1, <1>3, <2>1 DEF Written, Claimed, MkLease, Leases, LeaseStates
<1>4. CASE o.kind = "renew"
  BY <1>1, <1>4 DEF Written, Renewed, MkLease, Leases, LeaseStates
<1>5. CASE o.kind \in {"fail", "complete"}
  BY <1>1, <1>5 DEF Written, Settled, MkLease, Leases, LeaseStates, NoExpiry
<1>6. CASE o.kind \in {"abandon", "reclaim", "requeue"}
  BY <1>1, <1>6 DEF Written, Requeued, MkLease, Leases, LeaseStates, NoExpiry
<1> QED
  BY <1>3, <1>4, <1>5, <1>6 DEF WriteKinds

(* Init establishes the inductive invariant.                               *)
LEMMA InitInv == Init => Inv
<1> USE LeaseAssumption, ThreadAssumption
<1> SUFFICES ASSUME Init PROVE Inv
  OBVIOUS
<1>1. NoLease \in Leases
  BY DEF NoLease, Leases, LeaseStates, NoExpiry
<1>2. TypeOK
  BY <1>1 DEF Init, TypeOK, Idle, Operations, WriteKinds, IndexKinds,
              NotWorking, Belief, Beliefs, SweepOff, Sweeps, SweepPhases
<1>3. \A t \in Threads : OpKnows(t)
  BY DEF Init, OpKnows, Idle
<1>4. LeaseWellFormed /\ SettlingIsNotWorking /\ DoneHasArtifact
  BY ThreadFacts DEF Init, LeaseWellFormed, SettlingIsNotWorking,
        DoneHasArtifact, NoLease, Idle
<1>5. sweep.now <= clock + Skew
  BY DEF Init, SweepOff
<1>6. BeliefTrue
  BY DEF Init, BeliefTrue, LiveHolder, NotWorking, Belief
<1> QED
  BY <1>2, <1>3, <1>4, <1>5, <1>6 DEF Inv

-----------------------------------------------------------------------------
(* What an operation in flight knows stays true while time passes and      *)
(* artifacts accumulate.                                                   *)
LEMMA OpStable ==
    ASSUME Inv, NEW t \in Threads, op'[t] = op[t],
           clock' \in Nat, clock <= clock', artifact \subseteq artifact'
    PROVE  OpKnows(t)'
<1> USE LeaseAssumption
<1>1. OpKnows(t) /\ op[t] \in Operations /\ clock \in Nat
  BY DEF Inv, TypeOK
<1>2. t[1] \in Workers => Offset[t[1]] \in Nat
  OBVIOUS
<1>3. ArtifactPresent(op[t].item) => ArtifactPresent(op[t].item)'
  BY DEF ArtifactPresent
<1> QED
  BY <1>1, <1>2, <1>3 DEF OpKnows, Operations

(* An idle thread, or one about to touch the index, knows nothing.         *)
LEMMA OpIdle ==
    ASSUME NEW t \in Threads,
           op'[t] = Idle \/ \E i \in Items, k \in IndexKinds : op'[t] = IndexOp(k, i)
    PROVE  OpKnows(t)'
<1>1. /\ op'[t].kind \in {"idle", "upsert", "remove"}
      /\ op'[t].kind # "idle" => op'[t].item \in Items
  <2>1. CASE op'[t] = Idle
    BY <2>1 DEF Idle
  <2>2. ASSUME NEW i \in Items, NEW k \in IndexKinds, op'[t] = IndexOp(k, i)
        PROVE  /\ op'[t].kind \in {"upsert", "remove"}
               /\ op'[t].item \in Items
    BY <2>2 DEF IndexOp, IndexKinds
  <2> QED
    BY <2>1, <2>2
<1> QED
  BY <1>1 DEF OpKnows

(* Steps that write no lease and start no claim keep every belief true.    *)
LEMMA QuietStep ==
    ASSUME Inv, lease' = lease, clock' \in Nat, clock <= clock',
           artifact \subseteq artifact',
           \A w \in Workers : \/ held'[w].item = NoItem
                              \/ /\ held'[w].item = held[w].item
                                 /\ held'[w].expiry = held[w].expiry
    PROVE  LeaseWellFormed' /\ BeliefTrue' /\ DoneHasArtifact'
<1> USE LeaseAssumption, ThreadAssumption
<1>1. clock \in Nat /\ lease \in [Items -> Leases] /\ held \in [Workers -> Beliefs]
  BY DEF Inv, TypeOK
<1>2. \A i \in Items : ArtifactPresent(i) => ArtifactPresent(i)'
  BY DEF ArtifactPresent
<1>3. LeaseWellFormed'
  BY <1>1 DEF Inv, LeaseWellFormed
<1>4. DoneHasArtifact'
  BY <1>2 DEF Inv, DoneHasArtifact
<1>5. ASSUME NEW w \in Workers, NEW i \in Items, LiveHolder(w, i)'
      PROVE  LiveHolder(w, i) /\ held'[w].expiry = held[w].expiry
  BY <1>1, <1>5 DEF LiveHolder, Live, Beliefs
<1>6. BeliefTrue'
  BY <1>2, <1>5 DEF Inv, BeliefTrue
<1> QED
  BY <1>3, <1>4, <1>6

LEMMA TickInv == Inv /\ Tick => Inv'
<1> USE LeaseAssumption
<1> SUFFICES ASSUME Inv, Tick PROVE Inv'
  OBVIOUS
<1>1. TypeOK'
  BY DEF Inv, TypeOK, Tick
<1>2. clock' \in Nat /\ clock <= clock'
  BY DEF Inv, TypeOK, Tick
<1>3. \A t \in Threads : OpKnows(t)'
  BY <1>2, OpStable DEF Tick
<1>4. SettlingIsNotWorking'
  BY DEF Inv, SettlingIsNotWorking, Tick
<1>5. (sweep.now <= clock + Skew)'
  BY DEF Inv, TypeOK, Sweeps, Tick
<1>6. LeaseWellFormed' /\ BeliefTrue' /\ DoneHasArtifact'
  BY <1>2, QuietStep DEF Tick
<1> QED
  BY <1>1, <1>3, <1>4, <1>5, <1>6 DEF Inv

-----------------------------------------------------------------------------
(* The conditional write: what landing it does, whoever is told.           *)

(* The fields of the object each kind of operation puts.                   *)
LEMMA WrittenFields ==
    ASSUME NEW t, NEW o, NEW l, l = Written(t, o)
    PROVE  /\ o.kind = "claim" => /\ l.state = "leased" /\ l.owner = t[1]
                                  /\ l.expiry = o.now + TTL
                                  /\ l.attempts = o.seen.attempts + 1
                                  /\ l.recipe = RecipeOf[t[1]]
           /\ o.kind = "renew" => /\ l.state = o.seen.state /\ l.owner = o.seen.owner
                                  /\ l.expiry = o.now + TTL
                                  /\ l.attempts = o.seen.attempts
           /\ o.kind = "fail" => l.state = "failed"
           /\ o.kind = "complete" => l.state = "done"
           /\ o.kind \in {"abandon", "reclaim", "requeue"} => l.state = "queued"
BY DEF Written, Claimed, Renewed, Settled, Requeued, MkLease

(* It overwrites a lease that is still the one the operation read, so what *)
(* the operation knew of the one is true of the other.                     *)
LEMMA LandedFacts ==
    ASSUME Inv, NEW t \in Threads, Landed(t)
    PROVE  /\ op[t].item \in Items /\ op[t].now \in Nat /\ op[t].seen \in Leases
           /\ op[t].seen = lease[op[t].item]
           /\ lease' = [lease EXCEPT ![op[t].item] = Written(t, op[t])]
           /\ lease' \in [Items -> Leases]
           /\ lease'[op[t].item] = Written(t, op[t])
           /\ \A i \in Items \ {op[t].item} : lease'[i] = lease[i]
           /\ clock' = clock /\ artifact' = artifact
<1>1. op[t] \in Operations /\ OpKnows(t) /\ lease \in [Items -> Leases]
  BY DEF Inv, TypeOK
<1>2. op[t].item \in Items
  BY <1>1 DEF Landed, WriteKinds, OpKnows
<1>3. Written(t, op[t]) \in Leases
  BY WrittenType DEF Landed
<1> QED
  BY <1>1, <1>2, <1>3 DEF Landed, Operations

LEMMA LandedWellFormed ==
    ASSUME Inv, NEW t \in Threads, Landed(t)
    PROVE  LeaseWellFormed' /\ DoneHasArtifact'
<1> USE LeaseAssumption
<1> DEFINE o == op[t]  i == o.item  l == lease'[i]
<1>1. OpKnows(t) /\ clock \in Nat /\ LeaseWellFormed /\ DoneHasArtifact
  BY DEF Inv, TypeOK
<1>2. o.kind \in WriteKinds
  BY DEF Landed
<1>3. \A j \in Items : ArtifactPresent(j)' <=> ArtifactPresent(j)
  BY LandedFacts DEF ArtifactPresent
<1>0. l = Written(t, o) /\ o.now \in Nat /\ i \in Items
  BY LandedFacts
<1> HIDE DEF l
<1>4. l.state = "leased" =>
        /\ l.owner \in Workers /\ l.expiry \in Nat
        /\ l.expiry <= clock + Offset[l.owner] + TTL
  <2>1. CASE o.kind \in {"claim", "renew"}
    <3>1. /\ l.owner = t[1] /\ t[1] \in Workers
          /\ l.expiry = o.now + TTL /\ o.now <= clock + Offset[t[1]]
      BY <1>0, <1>1, <2>1, WrittenFields DEF OpKnows, HoldsLease
    <3> QED
      BY <1>0, <1>1, <3>1
  <2>2. CASE o.kind \notin {"claim", "renew"}
    BY <1>0, <1>2, <2>2, WrittenFields DEF WriteKinds
  <2> QED
    BY <2>1, <2>2
<1>5. l.state = "done" => ArtifactPresent(i)
  <2>1. CASE o.kind = "complete"
    BY <1>1, <2>1 DEF OpKnows
  <2>2. CASE o.kind = "renew"
    BY <1>0, <1>1, <2>2, WrittenFields DEF OpKnows, HoldsLease
  <2>3. CASE o.kind \notin {"complete", "renew"}
    BY <1>0, <1>2, <2>3, WrittenFields DEF WriteKinds
  <2> QED
    BY <2>1, <2>2, <2>3
<1> USE DEF l
<1>6. LeaseWellFormed'
  BY <1>1, <1>4, LandedFacts DEF LeaseWellFormed
<1>7. DoneHasArtifact'
  BY <1>1, <1>3, <1>5, LandedFacts DEF DoneHasArtifact
<1> QED
  BY <1>6, <1>7

(* A live belief of a worker survives any write that lands, unless the     *)
(* worker itself is the writer and has moved on.                           *)
LEMMA LandedBelief ==
    ASSUME Inv, NEW t \in Threads, Landed(t),
           NEW w \in Workers, NEW i \in Items, LiveHolder(w, i)
    PROVE  \/ /\ lease'[i].state = "leased" /\ lease'[i].owner = w
              /\ lease'[i].expiry >= held[w].expiry
           \/ ArtifactPresent(i)
<1> USE LeaseAssumption, ThreadAssumption
<1> DEFINE o == op[t]
<1>0. held[w] \in Beliefs /\ held[w].item = i /\ clock \in Nat /\ held[w].expiry \in Nat
  BY DEF Inv, TypeOK, LiveHolder, Beliefs
<1>1. CASE o.item # i
  BY <1>1, LandedFacts DEF Inv, BeliefTrue
<1>2. CASE o.item = i /\ ~ArtifactPresent(i)
  <2>1. /\ o.seen.state = "leased" /\ o.seen.owner = w
        /\ o.seen.expiry >= held[w].expiry /\ o.seen.expiry \in Nat
    BY <1>2, LandedFacts DEF Inv, BeliefTrue, LeaseWellFormed
  <2>2. ~IsExpired(o.seen, clock + Skew)
    BY <1>0, <2>1 DEF IsExpired, LiveHolder, Live
  <2>3. OpKnows(t) /\ o.kind \in WriteKinds
    BY DEF Inv, Landed
  <2>4. \A now \in Nat : now <= clock + Skew => ~IsExpired(o.seen, now)
    BY <1>0, <2>1, <2>2 DEF IsExpired, NoExpiry
  <2>5. o.kind # "claim"
    <3> SUFFICES ASSUME o.kind = "claim" PROVE FALSE
      OBVIOUS
    <3>1. MayClaim(o.seen, RecipeOf[t[1]], o.now) /\ t[1] \in Workers
          /\ o.now <= clock + Offset[t[1]] /\ o.now \in Nat
      BY <2>3, LandedFacts DEF OpKnows
    <3>2. Offset[t[1]] \in 0..Skew
      BY <3>1
    <3>3. o.now <= clock + Skew
      BY <3>1, <3>2, <1>0
    <3>4. ~IsExpired(o.seen, o.now)
      BY <2>4, <3>1, <3>3
    <3> QED
      BY <2>1, <3>1, <3>4 DEF MayClaim, StaleTerminal, IsClaimable
  <2>6. o.kind \notin {"fail", "abandon"}
    <3> SUFFICES ASSUME o.kind \in {"fail", "abandon"} PROVE FALSE
      OBVIOUS
    <3>1. t[1] = w /\ t = Main(w)
      BY <2>1, <2>3 DEF OpKnows
    <3>2. held[w].item = NoItem
      BY <3>1 DEF Inv, SettlingIsNotWorking
    <3> QED
      BY <1>0, <3>2
  <2>7. o.kind # "complete"
    BY <1>2, <2>3 DEF OpKnows
  <2>8. o.kind # "reclaim"
    BY <2>3, <2>4, LandedFacts DEF OpKnows
  <2>9. o.kind # "requeue"
    BY <2>1, <2>3 DEF OpKnows
  <2>10. o.kind = "renew"
    BY <2>3, <2>5, <2>6, <2>7, <2>8, <2>9 DEF WriteKinds
  <2>11. /\ lease'[i].state = "leased" /\ lease'[i].owner = w
         /\ lease'[i].expiry = o.now + TTL
    <3>1. lease'[i] = Written(t, o)
      BY <1>2, LandedFacts
    <3> QED
      BY <2>1, <2>10, <3>1, WrittenFields
  <2>12. o.now + TTL >= o.seen.expiry
    BY <2>3, <2>10 DEF OpKnows
  <2> QED
    BY <1>0, <2>1, <2>11, <2>12, LandedFacts
<1> QED
  BY <1>1, <1>2

(* The facts of Inv that a step on thread t's own operation leaves alone.  *)
LEMMA OthersKnow ==
    ASSUME Inv, NEW t \in Threads, NEW o, op' = [op EXCEPT ![t] = o],
           clock' = clock, artifact' = artifact, OpKnows(t)'
    PROVE  \A u \in Threads : OpKnows(u)'
<1> SUFFICES ASSUME NEW u \in Threads, u # t PROVE OpKnows(u)'
  OBVIOUS
<1>1. op'[u] = op[u] /\ clock \in Nat
  BY DEF Inv, TypeOK
<1> QED
  BY <1>1, OpStable

LEMMA CasWinsInv == ASSUME Inv, NEW t \in Threads, CasWins(t) PROVE Inv'
<1> USE LeaseAssumption, ThreadAssumption
<1> DEFINE o == op[t]  i == o.item
<1>1. Landed(t) /\ o.kind \in WriteKinds /\ OpKnows(t)
  BY DEF CasWins, Landed, Inv
<1>2. i \in Items /\ o.now \in Nat /\ clock' = clock /\ artifact' = artifact
      /\ lease' \in [Items -> Leases] /\ lease'[i] = Written(t, o)
      /\ index' = index
  BY <1>1, LandedFacts DEF Landed
<1>3. /\ op \in [Threads -> Operations] /\ held \in [Workers -> Beliefs]
      /\ sweep \in Sweeps /\ clock \in Nat /\ sweep.now <= clock + Skew
  BY DEF Inv, TypeOK
<1>4. AfterWrite(o) = Idle \/ \E k \in IndexKinds : AfterWrite(o) = IndexOp(k, i)
  BY DEF AfterWrite, IndexKinds
<1>5. AfterWrite(o) \in Operations
  <2>1. NoLease \in Leases
    BY DEF NoLease, Leases, LeaseStates, NoExpiry
  <2> QED
    BY <1>2, <1>4, <2>1 DEF Idle, IndexOp, IndexKinds, Operations
<1>6. op' \in [Threads -> Operations] /\ op'[t] = AfterWrite(o)
  BY <1>3, <1>5 DEF CasWins
<1>7. \A w \in Workers : BeliefAfter(w, o) \in Beliefs
  BY <1>2, <1>3 DEF BeliefAfter, Belief, Beliefs
<1>8. held' \in [Workers -> Beliefs]
  BY <1>3, <1>7 DEF CasWins
<1>9. sweep' \in Sweeps /\ sweep'.now = sweep.now
  BY <1>2, <1>3 DEF CasWins, Sweeps
<1>10. TypeOK'
  BY <1>2, <1>3, <1>6, <1>8, <1>9 DEF TypeOK, Inv
<1>11. \A u \in Threads : OpKnows(u)'
  <2>1. OpKnows(t)'
    BY <1>2, <1>4, <1>6, OpIdle
  <2> QED
    BY <1>2, <2>1, OthersKnow DEF CasWins
<1>12. SettlingIsNotWorking'
  <2> SUFFICES ASSUME NEW w \in Workers,
                      op'[Main(w)].kind \in {"claim", "fail", "abandon"}
               PROVE  held'[w].item = NoItem
    BY DEF SettlingIsNotWorking
  <2>1. Main(w) # t
    BY <1>4, <1>6 DEF Idle, IndexOp, IndexKinds
  <2>2. op'[Main(w)] = op[Main(w)] /\ held[w].item = NoItem
    BY <1>3, <2>1, ThreadFacts DEF CasWins, Inv, SettlingIsNotWorking
  <2>3. w = t[1] => o.kind # "claim"
    BY <1>1, <2>1 DEF OpKnows
  <2> QED
    BY <1>2, <2>2, <2>3 DEF CasWins, BeliefAfter
<1>13. BeliefTrue'
  <2> SUFFICES ASSUME NEW w \in Workers, NEW j \in Items, LiveHolder(w, j)'
               PROVE  \/ /\ lease'[j].state = "leased" /\ lease'[j].owner = w
                         /\ lease'[j].expiry >= held'[w].expiry
                      \/ ArtifactPresent(j)'
    BY DEF BeliefTrue
  <2>1. ArtifactPresent(j)' <=> ArtifactPresent(j)
    BY <1>2 DEF ArtifactPresent
  <2>2. CASE held'[w] = held[w]
    <3>1. LiveHolder(w, j)
      BY <1>2, <2>2 DEF LiveHolder, Live
    <3> QED
      BY <1>1, <2>1, <2>2, <3>1, LandedBelief
  <2>3. CASE held'[w] # held[w]
    <3>1. w = t[1] /\ o.kind \in {"claim", "renew"} /\ held'[w].item = i
          /\ held'[w].expiry = o.now + TTL
      BY <2>3 DEF CasWins, BeliefAfter, Belief
    <3>2. lease'[i].state = "leased" /\ lease'[i].owner = w
          /\ lease'[i].expiry = o.now + TTL
      <4>1. o.kind = "renew" => o.seen.state = "leased" /\ o.seen.owner = t[1]
        BY <1>1 DEF OpKnows, HoldsLease
      <4> QED
        BY <1>2, <3>1, <4>1, WrittenFields
    <3>3. j = i
      BY <3>1 DEF LiveHolder
    <3> QED
      BY <1>2, <3>1, <3>2, <3>3
  <2> QED
    BY <2>2, <2>3
<1>14. (sweep.now <= clock + Skew)'
  BY <1>2, <1>3, <1>9
<1> QED
  BY <1>1, <1>10, <1>11, <1>12, <1>13, <1>14, LandedWellFormed DEF Inv

(* A thread that goes idle leaves what the others know alone.              *)
LEMMA GoesIdle ==
    ASSUME Inv, NEW t \in Threads, op' = [op EXCEPT ![t] = Idle],
           clock' = clock, artifact' = artifact,
           \A w \in Workers : held'[w].item = held[w].item
    PROVE  /\ op' \in [Threads -> Operations]
           /\ \A u \in Threads : OpKnows(u)'
           /\ SettlingIsNotWorking'
<1> USE LeaseAssumption, ThreadAssumption
<1>1. op \in [Threads -> Operations]
  BY DEF Inv, TypeOK
<1>2. Idle \in Operations
  BY DEF Idle, Operations, NoLease, Leases, LeaseStates, NoExpiry
<1>3. op' \in [Threads -> Operations]
  BY <1>1, <1>2
<1>4. \A u \in Threads : OpKnows(u)'
  <2>1. OpKnows(t)'
    BY <1>1, OpIdle
  <2> QED
    BY <2>1, OthersKnow
<1>5. SettlingIsNotWorking'
  <2> SUFFICES ASSUME NEW w \in Workers,
                      op'[Main(w)].kind \in {"claim", "fail", "abandon"}
               PROVE  held[w].item = NoItem
    BY DEF SettlingIsNotWorking
  <2>1. op'[Main(w)] = op[Main(w)]
    BY <1>1, ThreadFacts DEF Idle
  <2> QED
    BY <2>1 DEF Inv, SettlingIsNotWorking
<1> QED
  BY <1>3, <1>4, <1>5

(* A caller that gives up at most stops renewing.                          *)
LEMMA GivesUpFacts ==
    ASSUME Inv, NEW t \in Threads, GivesUp(t)
    PROVE  /\ op' = [op EXCEPT ![t] = Idle]
           /\ held' \in [Workers -> Beliefs]
           /\ \A w \in Workers : /\ held'[w].item = held[w].item
                                 /\ held'[w].expiry = held[w].expiry
<1>1. held \in [Workers -> Beliefs]
  BY DEF Inv, TypeOK
<1> QED
  BY <1>1 DEF GivesUp, Belief, Beliefs

(* A write that lands unbeknownst to its caller keeps every belief true.   *)
LEMMA LandedUnnoticed ==
    ASSUME Inv, NEW t \in Threads, Landed(t), held' \in [Workers -> Beliefs],
           \A w \in Workers : /\ held'[w].item = held[w].item
                              /\ held'[w].expiry = held[w].expiry
    PROVE  /\ clock' = clock /\ artifact' = artifact /\ index' = index
           /\ lease' \in [Items -> Leases]
           /\ BeliefTrue'
<1>1. /\ clock' = clock /\ artifact' = artifact /\ index' = index
      /\ lease' \in [Items -> Leases]
  BY LandedFacts DEF Landed
<1>2. BeliefTrue'
  <2> SUFFICES ASSUME NEW w \in Workers, NEW j \in Items, LiveHolder(w, j)'
               PROVE  \/ /\ lease'[j].state = "leased" /\ lease'[j].owner = w
                         /\ lease'[j].expiry >= held'[w].expiry
                      \/ ArtifactPresent(j)'
    BY DEF BeliefTrue
  <2>1. ArtifactPresent(j)' <=> ArtifactPresent(j)
    BY <1>1 DEF ArtifactPresent
  <2>2. LiveHolder(w, j) /\ held'[w].expiry = held[w].expiry
    BY <1>1 DEF LiveHolder, Live
  <2> QED
    BY <2>1, <2>2, LandedBelief
<1> QED
  BY <1>1, <1>2

LEMMA CasAnswerLostInv == ASSUME Inv, NEW t \in Threads, CasAnswerLost(t) PROVE Inv'
<1>1. Landed(t) /\ GivesUp(t) /\ op[t].kind \in WriteKinds /\ sweep' = sweep
  BY DEF CasAnswerLost, Landed, GivesUp
<1>2. /\ clock' = clock /\ artifact' = artifact /\ index' = index
      /\ lease' \in [Items -> Leases] /\ BeliefTrue'
  BY <1>1, GivesUpFacts, LandedUnnoticed
<1>3. /\ op' \in [Threads -> Operations] /\ SettlingIsNotWorking'
      /\ \A u \in Threads : OpKnows(u)'
  BY <1>1, <1>2, GivesUpFacts, GoesIdle
<1>4. TypeOK'
  BY <1>1, <1>2, <1>3, GivesUpFacts DEF Inv, TypeOK
<1> QED
  BY <1>1, <1>2, <1>3, <1>4, LandedWellFormed DEF Inv

LEMMA RenewRaisesInv == ASSUME Inv, NEW w \in Workers, RenewRaises(w) PROVE Inv'
<1> DEFINE t == Renewal(w)
<1>1. /\ t \in Threads /\ op' = [op EXCEPT ![t] = Idle]
      /\ held' = held /\ sweep' = sweep
      /\ held \in [Workers -> Beliefs] /\ op[t].kind \in WriteKinds
  BY ThreadFacts DEF RenewRaises, Inv, TypeOK, WriteKinds
<1>2. Landed(t) \/ UNCHANGED <<clock, lease, artifact, index>>
  BY DEF RenewRaises
<1>3. clock' = clock /\ artifact' = artifact /\ index' = index
  BY <1>2 DEF Landed
<1>4. /\ op' \in [Threads -> Operations] /\ SettlingIsNotWorking'
      /\ \A u \in Threads : OpKnows(u)'
  BY <1>1, <1>3, GoesIdle
<1>5. CASE Landed(t)
  <2>1. lease' \in [Items -> Leases] /\ BeliefTrue'
    BY <1>1, <1>5, LandedUnnoticed
  <2>2. LeaseWellFormed' /\ DoneHasArtifact'
    BY <1>1, <1>5, LandedWellFormed
  <2>3. TypeOK'
    BY <1>1, <1>3, <1>4, <2>1 DEF Inv, TypeOK
  <2> QED
    BY <1>1, <1>3, <1>4, <2>1, <2>2, <2>3 DEF Inv
<1>6. CASE UNCHANGED <<clock, lease, artifact, index>>
  <2>1. clock' \in Nat /\ clock <= clock'
    BY <1>6 DEF Inv, TypeOK
  <2>2. LeaseWellFormed' /\ BeliefTrue' /\ DoneHasArtifact'
    BY <1>1, <1>6, <2>1, QuietStep
  <2>3. TypeOK'
    BY <1>1, <1>4, <1>6 DEF Inv, TypeOK
  <2> QED
    BY <1>1, <1>3, <1>4, <2>2, <2>3 DEF Inv
<1> QED
  BY <1>2, <1>5, <1>6

LEMMA CasConflictInv == ASSUME Inv, NEW t \in Threads, CasConflict(t) PROVE Inv'
<1>1. GivesUp(t) /\ op[t].kind \in WriteKinds
  BY DEF CasConflict
<1>2. /\ clock' = clock /\ artifact' = artifact /\ index' = index
      /\ lease' = lease /\ sweep' = sweep /\ clock \in Nat
  BY DEF CasConflict, GivesUp, Inv, TypeOK
<1>3. TypeOK'
  BY <1>1, <1>2, GivesUpFacts, GoesIdle DEF Inv, TypeOK
<1>4. LeaseWellFormed' /\ BeliefTrue' /\ DoneHasArtifact'
  BY <1>1, <1>2, GivesUpFacts, QuietStep
<1> QED
  BY <1>1, <1>2, <1>3, <1>4, GivesUpFacts, GoesIdle DEF Inv

LEMMA IndexInv ==
    ASSUME Inv, NEW t \in Threads, IndexMutates(t) \/ IndexFails(t) PROVE Inv'
<1> USE LeaseAssumption, ThreadAssumption
<1>1. /\ op[t].kind \in IndexKinds /\ op' = [op EXCEPT ![t] = Idle]
      /\ clock' = clock /\ artifact' = artifact /\ lease' = lease
      /\ held' = held /\ sweep' = sweep
  BY DEF IndexMutates, IndexFails
<1>2. OpKnows(t) /\ op \in [Threads -> Operations] /\ index \subseteq Items
      /\ clock \in Nat
  BY DEF Inv, TypeOK
<1>3. Idle \in Operations
  BY DEF Idle, Operations, NoLease, Leases, LeaseStates, NoExpiry
<1>4. op[t].item \in Items
  BY <1>1, <1>2 DEF OpKnows, IndexKinds
<1>5. index' \subseteq Items
  BY <1>2, <1>4 DEF IndexMutates, IndexFails
<1>6. TypeOK'
  BY <1>1, <1>2, <1>3, <1>5 DEF Inv, TypeOK
<1>7. \A u \in Threads : OpKnows(u)'
  BY <1>1, <1>2, OpIdle, OthersKnow
<1>8. SettlingIsNotWorking'
  BY <1>1, <1>2, ThreadFacts DEF Inv, SettlingIsNotWorking, Idle
<1>9. LeaseWellFormed' /\ BeliefTrue' /\ DoneHasArtifact'
  BY <1>1, <1>2, QuietStep
<1> QED
  BY <1>1, <1>6, <1>7, <1>8, <1>9 DEF Inv

-----------------------------------------------------------------------------
(* The worker's own steps.                                                 *)

LEMMA ClaimReadInv ==
    ASSUME Inv, NEW w \in Workers, NEW i \in Items, ClaimRead(w, i) PROVE Inv'
<1> USE LeaseAssumption, ThreadAssumption
<1>0. PICK now \in Readings(w) :
        /\ MayClaim(lease[i], RecipeOf[w], now)
        /\ op' = [op EXCEPT ![Main(w)] = ReadFor("claim", i, now)]
  BY DEF ClaimRead
<1> DEFINE o == ReadFor("claim", i, now)
<1>1. op \in [Threads -> Operations] /\ lease \in [Items -> Leases] /\ clock \in Nat
  BY DEF Inv, TypeOK
<1>2. now \in Nat /\ now <= clock + Offset[w]
  BY <1>1 DEF Readings, Now
<1>3. o \in Operations
  BY <1>1, <1>2 DEF ReadFor, Operations, WriteKinds
<1>4. /\ op' = [op EXCEPT ![Main(w)] = o] /\ clock' = clock /\ artifact' = artifact
      /\ lease' = lease /\ held' = held /\ sweep' = sweep /\ index' = index
  BY <1>0 DEF ClaimRead
<1>5. TypeOK'
  BY <1>1, <1>3, <1>4, ThreadFacts DEF Inv, TypeOK
<1>6. OpKnows(Main(w))'
  <2>1. op'[Main(w)] = o /\ Main(w)[1] = w
    BY <1>1, <1>4, ThreadFacts
  <2> QED
    BY <1>0, <1>1, <1>2, <1>4, <2>1 DEF OpKnows, ReadFor
<1>7. \A u \in Threads : OpKnows(u)'
  BY <1>4, <1>6, ThreadFacts, OthersKnow
<1>8. SettlingIsNotWorking'
  BY <1>1, <1>4, ThreadFacts DEF ClaimRead, Inv, SettlingIsNotWorking
<1>9. LeaseWellFormed' /\ BeliefTrue' /\ DoneHasArtifact'
  BY <1>1, <1>4, QuietStep
<1> QED
  BY <1>4, <1>5, <1>7, <1>8, <1>9 DEF Inv

LEMMA RenewReadInv == ASSUME Inv, NEW w \in Workers, RenewRead(w) PROVE Inv'
<1> USE LeaseAssumption, ThreadAssumption
<1> DEFINE i == held[w].item  o == ReadFor("renew", i, Now(w))
<1>1. /\ op \in [Threads -> Operations] /\ lease \in [Items -> Leases]
      /\ clock \in Nat /\ held \in [Workers -> Beliefs]
  BY DEF Inv, TypeOK
<1>2. Now(w) \in Nat /\ i \in Items
  BY <1>1 DEF Now, RenewRead, Working, Beliefs
<1>3. /\ clock' = clock /\ artifact' = artifact
      /\ lease' = lease /\ sweep' = sweep /\ index' = index
  BY DEF RenewRead
<1>4. CASE HoldsLease(lease[i], w, Now(w))
  <2>1. op' = [op EXCEPT ![Renewal(w)] = o] /\ held' = held
    BY <1>4 DEF RenewRead
  <2>2. o \in Operations
    BY <1>1, <1>2 DEF ReadFor, Operations, WriteKinds
  <2>3. TypeOK'
    BY <1>1, <1>3, <2>1, <2>2, ThreadFacts DEF Inv, TypeOK
  <2>4. OpKnows(Renewal(w))'
    <3>1. op'[Renewal(w)] = o /\ Renewal(w)[1] = w
      BY <1>1, <2>1, ThreadFacts
    <3>2. lease[i].expiry <= Now(w) + TTL
      BY <1>2, <1>4 DEF Inv, LeaseWellFormed, HoldsLease, Now
    <3> QED
      BY <1>1, <1>2, <1>3, <1>4, <3>1, <3>2 DEF OpKnows, ReadFor, Now
  <2>5. \A u \in Threads : OpKnows(u)'
    BY <1>3, <2>1, <2>4, ThreadFacts, OthersKnow
  <2>6. SettlingIsNotWorking'
    BY <1>1, <2>1, ThreadFacts DEF Inv, SettlingIsNotWorking
  <2>7. LeaseWellFormed' /\ BeliefTrue' /\ DoneHasArtifact'
    BY <1>1, <1>3, <2>1, QuietStep
  <2> QED
    BY <1>3, <2>3, <2>5, <2>6, <2>7 DEF Inv
<1>5. CASE ~HoldsLease(lease[i], w, Now(w))
  <2>1. op' = op /\ held' = [held EXCEPT ![w] = Belief(i, held[w].expiry, FALSE)]
    BY <1>5 DEF RenewRead
  <2>2. Belief(i, held[w].expiry, FALSE) \in Beliefs
    BY <1>1, <1>2 DEF Belief, Beliefs
  <2>3. TypeOK'
    BY <1>1, <1>3, <2>1, <2>2 DEF Inv, TypeOK
  <2>4. \A v \in Workers : /\ held'[v].item = held[v].item
                           /\ held'[v].expiry = held[v].expiry
    BY <1>1, <2>1 DEF Belief
  <2>5. \A u \in Threads : OpKnows(u)'
    BY <1>1, <1>3, <2>1, OpStable
  <2>6. SettlingIsNotWorking'
    BY <2>1, <2>4 DEF Inv, SettlingIsNotWorking
  <2>7. LeaseWellFormed' /\ BeliefTrue' /\ DoneHasArtifact'
    BY <1>1, <1>3, <2>4, QuietStep
  <2> QED
    BY <1>3, <2>3, <2>5, <2>6, <2>7 DEF Inv
<1> QED
  BY <1>4, <1>5

(* Steps after which worker w no longer works on anything.                 *)
LEMMA StopWorking ==
    ASSUME Inv, NEW w \in Workers, held' = [held EXCEPT ![w] = NotWorking]
    PROVE  /\ held' \in [Workers -> Beliefs]
           /\ held'[w].item = NoItem
           /\ \A v \in Workers : \/ held'[v].item = NoItem
                                 \/ /\ held'[v].item = held[v].item
                                    /\ held'[v].expiry = held[v].expiry
           /\ \A v \in Workers : held[v].item = NoItem => held'[v].item = NoItem
<1>1. held \in [Workers -> Beliefs]
  BY DEF Inv, TypeOK
<1> QED
  BY <1>1 DEF NotWorking, Belief, Beliefs

LEMMA StopWorkingQuiet ==
    ASSUME Inv, NEW w \in Workers, held' = [held EXCEPT ![w] = NotWorking],
           lease' = lease, clock' = clock, artifact \subseteq artifact'
    PROVE  LeaseWellFormed' /\ BeliefTrue' /\ DoneHasArtifact'
<1>1. \A v \in Workers : \/ held'[v].item = NoItem
                         \/ /\ held'[v].item = held[v].item
                            /\ held'[v].expiry = held[v].expiry
  BY StopWorking
<1>2. clock' \in Nat /\ clock <= clock'
  BY DEF Inv, TypeOK
<1> QED
  BY <1>1, <1>2, QuietStep

LEMMA UploadInv == ASSUME Inv, NEW w \in Workers, Upload(w) PROVE Inv'
<1> USE LeaseAssumption, ThreadAssumption
<1>1. /\ held \in [Workers -> Beliefs] /\ clock \in Nat
      /\ artifact \subseteq Items \X Recipes
  BY DEF Inv, TypeOK
<1>2. /\ held' = held /\ clock' = clock /\ op' = op
      /\ lease' = lease /\ sweep' = sweep /\ index' = index
      /\ artifact' = artifact \cup {<<held[w].item, RecipeOf[w]>>}
  BY DEF Upload
<1>3. held[w].item \in Items
  BY <1>1 DEF Upload, Working, Beliefs
<1>4. TypeOK'
  BY <1>1, <1>2, <1>3 DEF Inv, TypeOK
<1>5. \A u \in Threads : OpKnows(u)'
  BY <1>1, <1>2, OpStable
<1>6. SettlingIsNotWorking'
  BY <1>2 DEF Inv, SettlingIsNotWorking
<1>7. LeaseWellFormed' /\ BeliefTrue' /\ DoneHasArtifact'
  BY <1>1, <1>2, QuietStep
<1> QED
  BY <1>2, <1>4, <1>5, <1>6, <1>7 DEF Inv

LEMMA FinishInv == ASSUME Inv, NEW w \in Workers, Finish(w) PROVE Inv'
<1>1. /\ held' = [held EXCEPT ![w] = NotWorking] /\ clock' = clock /\ op' = op
      /\ lease' = lease /\ sweep' = sweep /\ index' = index
      /\ artifact' = artifact /\ clock \in Nat
  BY DEF Finish, Inv, TypeOK
<1>2. TypeOK'
  BY <1>1, StopWorking DEF Inv, TypeOK
<1>3. \A u \in Threads : OpKnows(u)'
  BY <1>1, OpStable
<1>4. SettlingIsNotWorking'
  BY <1>1, StopWorking DEF Inv, SettlingIsNotWorking
<1>5. LeaseWellFormed' /\ BeliefTrue' /\ DoneHasArtifact'
  BY <1>1, StopWorkingQuiet
<1> QED
  BY <1>1, <1>2, <1>3, <1>4, <1>5 DEF Inv

LEMMA SettleReadInv ==
    ASSUME Inv, NEW w \in Workers, NEW kind \in {"fail", "abandon"},
           SettleRead(w, kind)
    PROVE  Inv'
<1> USE LeaseAssumption, ThreadAssumption
<1> DEFINE i == held[w].item  o == ReadFor(kind, i, 0)
<1>1. /\ op \in [Threads -> Operations] /\ lease \in [Items -> Leases]
      /\ clock \in Nat /\ held \in [Workers -> Beliefs]
  BY DEF Inv, TypeOK
<1>2. /\ held' = [held EXCEPT ![w] = NotWorking]
      /\ clock' = clock /\ artifact' = artifact
      /\ lease' = lease /\ sweep' = sweep /\ index' = index
  BY DEF SettleRead
<1>3. i \in Items /\ Now(w) \in Nat
  BY <1>1 DEF SettleRead, Working, Beliefs, Now
<1>4. LeaseWellFormed' /\ BeliefTrue' /\ DoneHasArtifact'
  BY <1>2, StopWorkingQuiet
<1>5. CASE HoldsLease(lease[i], w, Now(w))
  <2>1. op' = [op EXCEPT ![Main(w)] = o]
    BY <1>5 DEF SettleRead
  <2>2. o \in Operations
    BY <1>1, <1>3 DEF ReadFor, Operations, WriteKinds
  <2>3. TypeOK'
    BY <1>1, <1>2, <2>1, <2>2, ThreadFacts, StopWorking DEF Inv, TypeOK
  <2>4. OpKnows(Main(w))'
    <3>1. op'[Main(w)] = o /\ Main(w)[1] = w
      BY <1>1, <2>1, ThreadFacts
    <3> QED
      BY <1>3, <1>5, <3>1 DEF OpKnows, ReadFor, HoldsLease
  <2>5. \A u \in Threads : OpKnows(u)'
    BY <1>2, <2>1, <2>4, ThreadFacts, OthersKnow
  <2>6. SettlingIsNotWorking'
    <3> SUFFICES ASSUME NEW v \in Workers,
                        op'[Main(v)].kind \in {"claim", "fail", "abandon"}
                 PROVE  held'[v].item = NoItem
      BY DEF SettlingIsNotWorking
    <3>1. CASE v = w
      BY <1>2, <3>1, StopWorking
    <3>2. CASE v # w
      <4>1. op'[Main(v)] = op[Main(v)]
        BY <1>1, <2>1, <3>2, ThreadFacts
      <4> QED
        BY <1>2, <4>1, StopWorking DEF Inv, SettlingIsNotWorking
    <3> QED
      BY <3>1, <3>2
  <2> QED
    BY <1>2, <1>4, <2>3, <2>5, <2>6 DEF Inv
<1>6. CASE ~HoldsLease(lease[i], w, Now(w))
  <2>1. op' = op
    BY <1>6 DEF SettleRead
  <2>2. TypeOK'
    BY <1>2, <2>1, StopWorking DEF Inv, TypeOK
  <2>3. \A u \in Threads : OpKnows(u)'
    BY <1>1, <1>2, <2>1, OpStable
  <2>4. SettlingIsNotWorking'
    BY <1>2, <2>1, StopWorking DEF Inv, SettlingIsNotWorking
  <2> QED
    BY <1>2, <1>4, <2>2, <2>3, <2>4 DEF Inv
<1> QED
  BY <1>5, <1>6

LEMMA CrashInv == ASSUME Inv, NEW w \in Workers, Crash(w) PROVE Inv'
<1> USE LeaseAssumption, ThreadAssumption
<1>1. op \in [Threads -> Operations] /\ clock \in Nat
  BY DEF Inv, TypeOK
<1>2. /\ held' = [held EXCEPT ![w] = NotWorking]
      /\ clock' = clock /\ artifact' = artifact
      /\ lease' = lease /\ sweep' = sweep /\ index' = index
      /\ op' = [op EXCEPT ![Main(w)] = Idle, ![Renewal(w)] = Idle]
  BY DEF Crash
<1>3. Idle \in Operations
  BY DEF Idle, Operations, NoLease, Leases, LeaseStates, NoExpiry
<1>4. op' \in [Threads -> Operations]
      /\ \A u \in Threads : op'[u] = op[u] \/ op'[u] = Idle
  BY <1>1, <1>2, <1>3, ThreadFacts
<1>5. TypeOK'
  BY <1>2, <1>4, StopWorking DEF Inv, TypeOK
<1>6. \A u \in Threads : OpKnows(u)'
  BY <1>1, <1>2, <1>4, OpStable, OpIdle
<1>7. SettlingIsNotWorking'
  BY <1>2, <1>4, StopWorking, ThreadFacts DEF Inv, SettlingIsNotWorking, Idle
<1>8. LeaseWellFormed' /\ BeliefTrue' /\ DoneHasArtifact'
  BY <1>2, StopWorkingQuiet
<1> QED
  BY <1>2, <1>5, <1>6, <1>7, <1>8 DEF Inv

-----------------------------------------------------------------------------
(* The operator's and the reaper's steps.                                  *)

LEMMA RequeueReadInv == ASSUME Inv, NEW i \in Items, RequeueRead(i) PROVE Inv'
<1> USE LeaseAssumption, ThreadAssumption
<1> DEFINE o == ReadFor("requeue", i, 0)
<1>1. op \in [Threads -> Operations] /\ lease \in [Items -> Leases] /\ clock \in Nat
  BY DEF Inv, TypeOK
<1>2. /\ op' = [op EXCEPT ![OperatorThread] = o] /\ clock' = clock
      /\ artifact' = artifact /\ lease' = lease /\ held' = held
      /\ sweep' = sweep /\ index' = index
  BY DEF RequeueRead
<1>3. o \in Operations
  BY <1>1 DEF ReadFor, Operations, WriteKinds
<1>4. TypeOK'
  BY <1>1, <1>2, <1>3, ThreadFacts DEF Inv, TypeOK
<1>5. OpKnows(OperatorThread)'
  <2>1. op'[OperatorThread] = o
    BY <1>1, <1>2, ThreadFacts
  <2> QED
    BY <2>1 DEF OpKnows, ReadFor, RequeueRead
<1>6. \A u \in Threads : OpKnows(u)'
  BY <1>2, <1>5, ThreadFacts, OthersKnow
<1>7. SettlingIsNotWorking'
  BY <1>1, <1>2, ThreadFacts DEF Inv, SettlingIsNotWorking
<1>8. LeaseWellFormed' /\ BeliefTrue' /\ DoneHasArtifact'
  BY <1>1, <1>2, QuietStep
<1> QED
  BY <1>2, <1>4, <1>6, <1>7, <1>8 DEF Inv

(* Steps of the sweep that only move its own cursor.                       *)
LEMMA CursorInv ==
    ASSUME Inv, SweepStart \/ LoadBucket \/ StartIntegrity \/ DropEntries \/ SweepEnd
    PROVE  Inv'
<1> USE LeaseAssumption, ThreadAssumption
<1>1. clock \in Nat /\ sweep \in Sweeps /\ index \subseteq Items
      /\ sweep.now <= clock + Skew
  BY DEF Inv, TypeOK
<1>2. /\ op' = op /\ clock' = clock /\ artifact' = artifact
      /\ lease' = lease /\ held' = held
  BY DEF SweepStart, LoadBucket, StartIntegrity, Integrity, DropEntries, SweepEnd
<1>3. index' \subseteq Items
  BY <1>1 DEF SweepStart, LoadBucket, StartIntegrity, Integrity, DropEntries, SweepEnd
<1>4. sweep' \in Sweeps /\ sweep'.now <= clock + Skew
  <2>1. SweepOff \in Sweeps /\ SweepOff.now = 0
    BY DEF SweepOff, Sweeps, SweepPhases
  <2>2. CASE SweepStart
    <3>1. PICK now \in clock..(clock + Skew) :
            sweep' = IF UseIndex
                     THEN [SweepOff EXCEPT !.phase = "load", !.now = now]
                     ELSE [SweepOff EXCEPT !.phase = "probe", !.now = now,
                                           !.todo = Items]
      BY <2>2 DEF SweepStart
    <3>2. now \in Nat /\ now <= clock + Skew
      BY <1>1
    <3>3. /\ [SweepOff EXCEPT !.phase = "load", !.now = now] \in Sweeps
          /\ [SweepOff EXCEPT !.phase = "load", !.now = now].now = now
      BY <2>1, <3>2 DEF Sweeps, SweepPhases, SweepOff
    <3>4. /\ [SweepOff EXCEPT !.phase = "probe", !.now = now, !.todo = Items] \in Sweeps
          /\ [SweepOff EXCEPT !.phase = "probe", !.now = now, !.todo = Items].now = now
      BY <2>1, <3>2 DEF Sweeps, SweepPhases, SweepOff
    <3> QED
      BY <3>1, <3>2, <3>3, <3>4
  <2>3. CASE LoadBucket
    BY <1>1, <2>3 DEF LoadBucket, Sweeps, SweepPhases
  <2>4. CASE StartIntegrity
    <3>1. PICK T \in SUBSET Items :
            sweep' = [sweep EXCEPT !.phase = "integrity", !.todo = T]
      BY <2>4 DEF StartIntegrity, Integrity
    <3> QED
      BY <1>1, <3>1 DEF Sweeps, SweepPhases
  <2>5. CASE DropEntries
    <3>1. sweep' = [sweep EXCEPT !.phase = "load", !.bucket = sweep.bucket + 1,
                                 !.drop = {}]
      BY <2>5 DEF DropEntries
    <3>2. sweep.bucket + 1 \in Nat
      BY <1>1 DEF Sweeps
    <3> QED
      BY <1>1, <3>1, <3>2 DEF Sweeps, SweepPhases
  <2>6. CASE SweepEnd
    BY <1>1, <2>1, <2>6 DEF SweepEnd
  <2> QED
    BY <2>2, <2>3, <2>4, <2>5, <2>6
<1>5. TypeOK'
  BY <1>2, <1>3, <1>4 DEF Inv, TypeOK
<1>6. \A u \in Threads : OpKnows(u)'
  BY <1>1, <1>2, OpStable
<1>7. SettlingIsNotWorking'
  BY <1>2 DEF Inv, SettlingIsNotWorking
<1>8. LeaseWellFormed' /\ BeliefTrue' /\ DoneHasArtifact'
  BY <1>1, <1>2, QuietStep
<1> QED
  BY <1>2, <1>4, <1>5, <1>6, <1>7, <1>8 DEF Inv

LEMMA ReapReadInv == ASSUME Inv, NEW i \in Items, ReapRead(i) PROVE Inv'
<1> USE LeaseAssumption, ThreadAssumption
<1>0. PICK found \in {FALSE, ArtifactPresent(i)} :
        op' = [op EXCEPT ![ReaperThread] =
                  IF lease[i].state = "leased" THEN Decision(i, found) ELSE Idle]
  BY DEF ReapRead
<1> DEFINE o == IF lease[i].state = "leased" THEN Decision(i, found) ELSE Idle
<1>1. /\ op \in [Threads -> Operations] /\ lease \in [Items -> Leases]
      /\ clock \in Nat /\ sweep \in Sweeps /\ sweep.now \in Nat
      /\ sweep.now <= clock + Skew
  BY DEF Inv, TypeOK, Sweeps
<1>2. /\ op' = [op EXCEPT ![ReaperThread] = o] /\ clock' = clock
      /\ artifact' = artifact /\ lease' = lease /\ held' = held /\ index' = index
  BY <1>0 DEF ReapRead
<1>3. o \in Operations
  <2>1. Idle \in Operations /\ IndexOp("upsert", i) \in Operations
    BY DEF Idle, IndexOp, IndexKinds, Operations, NoLease, Leases, LeaseStates, NoExpiry
  <2>2. /\ ReadFor("complete", i, 0) \in Operations
        /\ ReadFor("reclaim", i, sweep.now) \in Operations
    BY <1>1 DEF ReadFor, Operations, WriteKinds
  <2> QED
    BY <2>1, <2>2 DEF Decision
<1>4. sweep' \in Sweeps /\ sweep'.now = sweep.now
  BY <1>1 DEF ReapRead, Sweeps
<1>5. TypeOK'
  BY <1>1, <1>2, <1>3, <1>4, ThreadFacts DEF Inv, TypeOK
<1>6. OpKnows(ReaperThread)'
  <2>1. op'[ReaperThread] = o
    BY <1>1, <1>2, ThreadFacts
  <2>2. CASE o = Idle \/ o = IndexOp("upsert", i)
    BY <2>1, <2>2, OpIdle, ThreadFacts DEF IndexKinds
  <2>3. CASE lease[i].state = "leased" /\ found
    <3>1. op'[ReaperThread] = ReadFor("complete", i, 0)
      BY <2>1, <2>3 DEF Decision
    <3>2. ArtifactPresent(i)'
      BY <1>0, <1>2, <2>3 DEF ArtifactPresent
    <3> QED
      BY <2>3, <3>1, <3>2 DEF OpKnows, ReadFor
  <2>4. CASE /\ lease[i].state = "leased" /\ ~found
             /\ IsExpired(lease[i], sweep.now)
    <3>1. op'[ReaperThread] = ReadFor("reclaim", i, sweep.now)
      BY <2>1, <2>4 DEF Decision
    <3> QED
      BY <1>1, <1>2, <2>4, <3>1 DEF OpKnows, ReadFor
  <2> QED
    BY <2>2, <2>3, <2>4 DEF Decision
<1>7. \A u \in Threads : OpKnows(u)'
  BY <1>2, <1>6, ThreadFacts, OthersKnow
<1>8. SettlingIsNotWorking'
  BY <1>1, <1>2, ThreadFacts DEF Inv, SettlingIsNotWorking
<1>9. LeaseWellFormed' /\ BeliefTrue' /\ DoneHasArtifact'
  BY <1>1, <1>2, QuietStep
<1> QED
  BY <1>1, <1>2, <1>4, <1>5, <1>7, <1>8, <1>9 DEF Inv

LEMMA ReaperCrashInv == ASSUME Inv, ReaperCrash PROVE Inv'
<1> USE LeaseAssumption, ThreadAssumption
<1>1. op \in [Threads -> Operations] /\ clock \in Nat
  BY DEF Inv, TypeOK
<1>2. /\ op' = [op EXCEPT ![ReaperThread] = Idle] /\ clock' = clock
      /\ artifact' = artifact /\ lease' = lease /\ held' = held
      /\ index' = index /\ sweep' = SweepOff
  BY DEF ReaperCrash
<1>3. Idle \in Operations /\ SweepOff \in Sweeps /\ SweepOff.now = 0
  BY DEF Idle, Operations, NoLease, Leases, LeaseStates, NoExpiry,
         SweepOff, Sweeps, SweepPhases
<1>4. TypeOK'
  BY <1>1, <1>2, <1>3, ThreadFacts DEF Inv, TypeOK
<1>5. OpKnows(ReaperThread)'
  BY <1>1, <1>2, ThreadFacts, OpIdle
<1>6. \A u \in Threads : OpKnows(u)'
  BY <1>2, <1>5, ThreadFacts, OthersKnow
<1>7. SettlingIsNotWorking'
  BY <1>1, <1>2, ThreadFacts DEF Inv, SettlingIsNotWorking
<1>8. LeaseWellFormed' /\ BeliefTrue' /\ DoneHasArtifact'
  BY <1>1, <1>2, QuietStep
<1> QED
  BY <1>1, <1>2, <1>3, <1>4, <1>6, <1>7, <1>8 DEF Inv

-----------------------------------------------------------------------------
(* Every step of the ledger keeps the inductive invariant.                 *)
LEMMA NextInv == Inv /\ [Next]_vars => Inv'
<1> SUFFICES ASSUME Inv, [Next]_vars PROVE Inv'
  OBVIOUS
<1>1. CASE Tick
  BY <1>1, TickInv
<1>2. ASSUME NEW t \in Threads, Storage(t) PROVE Inv'
  BY <1>2, CasWinsInv, CasAnswerLostInv, CasConflictInv, IndexInv DEF Storage
<1>3. ASSUME NEW w \in Workers, Worker(w) PROVE Inv'
  BY <1>3, ClaimReadInv, RenewReadInv, RenewRaisesInv, UploadInv, FinishInv,
     SettleReadInv, CrashInv
     DEF Worker, ReleaseRead, AbandonRead
<1>4. ASSUME NEW i \in Items, RequeueRead(i) PROVE Inv'
  BY <1>4, RequeueReadInv
<1>5. CASE Sweeping
  BY <1>5, CursorInv, ReapReadInv DEF Sweeping
<1>6. CASE ReaperCrash
  BY <1>6, ReaperCrashInv
<1>7. CASE UNCHANGED vars
  BY <1>7 DEF vars, Inv, TypeOK, OpKnows, LeaseWellFormed, SettlingIsNotWorking,
              BeliefTrue, DoneHasArtifact, LiveHolder, Live, ArtifactPresent
<1> QED
  BY <1>1, <1>2, <1>3, <1>4, <1>5, <1>6, <1>7 DEF Next

(* Inv is an invariant of the ledger, for any number of items, workers and *)
(* recipes, any TTL and any skew between the hosts' clocks.                *)
THEOREM InvHolds == Spec => []Inv
<1>1. Init => Inv
  BY InitInv
<1>2. Inv /\ [Next]_vars => Inv'
  BY NextInv
<1> QED
  BY <1>1, <1>2, PTL DEF Spec

(* The ledger's state always has its type.                                 *)
THEOREM TypeCorrect == Spec => []TypeOK
<1>1. Inv => TypeOK
  BY DEF Inv
<1> QED
  BY <1>1, InvHolds, PTL

(* A worker's live claim is what the ledger says, or the item is done.     *)
THEOREM BeliefsAreTrue == Spec => []BeliefTrue
<1>1. Inv => BeliefTrue
  BY DEF Inv
<1> QED
  BY <1>1, InvHolds, PTL

(* Two live claims on one item never coexist before it has an artifact.    *)
THEOREM ClaimsExclude == Spec => []ClaimExclusive
<1>1. Inv => ClaimExclusive
  BY DEF Inv, BeliefTrue, ClaimExclusive
<1> QED
  BY <1>1, InvHolds, PTL

(* done is only written over an item that has an artifact.                 *)
THEOREM DoneImpliesArtifact == Spec => []DoneHasArtifact
<1>1. Inv => DoneHasArtifact
  BY DEF Inv
<1> QED
  BY <1>1, InvHolds, PTL

-----------------------------------------------------------------------------
(* The operations are atomic: a write that lands is one step of            *)
(* LeaseLedger, and nothing else touches clock, leases and artifacts.      *)

LEMMA LandedIsAtomic ==
    ASSUME Inv, NEW t \in Threads, Landed(t)
    PROVE  Ledger!Next
<1> USE LeaseAssumption, ThreadAssumption
<1> DEFINE o == op[t]  i == o.item  w == t[1]
<1>1. OpKnows(t) /\ o.kind \in WriteKinds /\ clock \in Nat
  BY DEF Inv, TypeOK, Landed
<1>2. i \in Items /\ o.now \in Nat /\ o.seen = lease[i]
      /\ lease' = [lease EXCEPT ![i] = Written(t, o)]
      /\ clock' = clock /\ artifact' = artifact
  BY LandedFacts
<1>3. Ledger!Write(i, Written(t, o))
  BY <1>2 DEF Ledger!Write
<1>4. CASE o.kind = "claim"
  <2>1. w \in Workers /\ o.now <= clock + Offset[w] /\ MayClaim(o.seen, RecipeOf[w], o.now)
    BY <1>1, <1>4 DEF OpKnows
  <2>2. o.now \in 0..(clock + Offset[w])
    BY <1>1, <1>2, <2>1
  <2>3. Written(t, o) = Claimed(lease[i], w, o.now)
    BY <1>2, <1>4 DEF Written
  <2>4. Ledger!Claim(w, i)
    BY <1>2, <1>3, <2>1, <2>2, <2>3 DEF Ledger!Claim, Ledger!MayClaim, Ledger!Claimed,
       MayClaim, Claimed, Ledger!StaleTerminal, StaleTerminal, Ledger!IsClaimable,
       IsClaimable, Ledger!IsExpired, IsExpired, Ledger!NoExpiry, NoExpiry,
       Ledger!MkLease, MkLease
  <2> QED
    BY <1>2, <2>1, <2>4 DEF Ledger!Next
<1>5. CASE o.kind = "renew"
  <2>1. w \in Workers /\ o.now <= clock + Offset[w] /\ HoldsLease(o.seen, w, o.now)
        /\ o.seen.expiry <= o.now + TTL
    BY <1>1, <1>5 DEF OpKnows
  <2>2. o.now \in 0..(clock + Offset[w])
    BY <1>1, <1>2, <2>1
  <2>3. Written(t, o) = Renewed(lease[i], o.now)
    BY <1>2, <1>5 DEF Written
  <2>4. Ledger!Renew(w, i)
    BY <1>2, <1>3, <2>1, <2>2, <2>3 DEF Ledger!Renew, Ledger!HoldsLease, HoldsLease,
       Ledger!Renewed, Renewed, Ledger!IsExpired, IsExpired, Ledger!NoExpiry, NoExpiry,
       Ledger!MkLease, MkLease
  <2> QED
    BY <1>2, <2>1, <2>4 DEF Ledger!Next
<1>6. CASE o.kind \in {"fail", "abandon"}
  <2>1. w \in Workers /\ lease[i].state = "leased" /\ lease[i].owner = w
    BY <1>1, <1>2, <1>6 DEF OpKnows
  <2>2. Ledger!Release(w, i) \/ Ledger!Abandon(w, i)
    BY <1>2, <1>3, <1>6, <2>1 DEF Ledger!Release, Ledger!Abandon, Written,
       Ledger!Settled, Settled, Ledger!Requeued, Requeued, Ledger!NoExpiry, NoExpiry,
       Ledger!MkLease, MkLease
  <2> QED
    BY <1>2, <2>1, <2>2 DEF Ledger!Next
<1>7. CASE o.kind = "complete"
  <2>1. lease[i].state = "leased" /\ ArtifactPresent(i)
    BY <1>1, <1>2, <1>7 DEF OpKnows
  <2>2. Ledger!Complete(i)
    BY <1>2, <1>3, <1>7, <2>1 DEF Ledger!Complete, Written, Ledger!ArtifactPresent,
       ArtifactPresent, Ledger!Settled, Settled, Ledger!NoExpiry, NoExpiry,
       Ledger!MkLease, MkLease
  <2> QED
    BY <1>2, <2>2 DEF Ledger!Next
<1>8. CASE o.kind = "reclaim"
  <2>1. lease[i].state = "leased" /\ o.now <= clock + Skew /\ IsExpired(lease[i], o.now)
    BY <1>1, <1>2, <1>8 DEF OpKnows
  <2>2. lease[i].expiry \in Nat
    BY <1>2, <2>1 DEF Inv, LeaseWellFormed
  <2>3. lease[i].expiry # NoExpiry /\ lease[i].expiry <= clock + Skew
    BY <1>1, <1>2, <2>1, <2>2 DEF IsExpired
  <2>4. Ledger!Reclaim(i)
    BY <1>2, <1>3, <1>8, <2>1, <2>3 DEF Ledger!Reclaim, Written, Ledger!IsExpired,
       Ledger!Requeued, Requeued, Ledger!NoExpiry, NoExpiry, Ledger!MkLease, MkLease
  <2> QED
    BY <1>2, <2>4 DEF Ledger!Next
<1>9. CASE o.kind = "requeue"
  <2>1. Ledger!RequeueFailed(i)
    BY <1>1, <1>2, <1>3, <1>9 DEF OpKnows, Ledger!RequeueFailed, Written,
       Ledger!Requeued, Requeued, Ledger!NoExpiry, NoExpiry, Ledger!MkLease, MkLease
  <2> QED
    BY <1>2, <2>1 DEF Ledger!Next
<1> QED
  BY <1>1, <1>4, <1>5, <1>6, <1>7, <1>8, <1>9 DEF WriteKinds

LEMMA NextIsAtomic == Inv /\ [Next]_vars => [Ledger!Next]_(Ledger!vars)
<1> SUFFICES ASSUME Inv, [Next]_vars PROVE [Ledger!Next]_(Ledger!vars)
  OBVIOUS
<1> USE DEF Ledger!vars
<1>1. CASE Tick
  BY <1>1 DEF Tick, Ledger!Next, Ledger!Tick
<1>2. ASSUME NEW t \in Threads, Storage(t) PROVE [Ledger!Next]_(Ledger!vars)
  <2>1. CASE Landed(t)
    BY <2>1, LandedIsAtomic
  <2>2. CASE ~Landed(t)
    BY <1>2, <2>2 DEF Storage, CasWins, CasAnswerLost, CasConflict, IndexMutates, IndexFails
  <2> QED
    BY <2>1, <2>2
<1>3. ASSUME NEW w \in Workers, Worker(w) PROVE [Ledger!Next]_(Ledger!vars)
  <2>1. CASE Upload(w)
    <3>1. held[w].item \in Items
      BY <2>1 DEF Upload, Working, Inv, TypeOK, Beliefs
    <3>2. Ledger!Upload(w, held[w].item)
      BY <2>1 DEF Upload, Ledger!Upload
    <3> QED
      BY <3>1, <3>2 DEF Ledger!Next
  <2>2. CASE RenewRaises(w)
    <3>1. Renewal(w) \in Threads
      BY ThreadFacts
    <3> QED
      BY <2>2, <3>1, LandedIsAtomic DEF RenewRaises
  <2>3. CASE ~Upload(w) /\ ~RenewRaises(w)
    BY <1>3, <2>3 DEF Worker, ClaimRead, RenewRead, Finish, ReleaseRead, AbandonRead,
                      SettleRead, Crash
  <2> QED
    BY <2>1, <2>2, <2>3
<1>4. CASE \E i \in Items : RequeueRead(i)
  BY <1>4 DEF RequeueRead
<1>5. CASE Sweeping
  BY <1>5 DEF Sweeping, SweepStart, LoadBucket, StartIntegrity, Integrity, DropEntries,
              SweepEnd, ReapRead
<1>6. CASE ReaperCrash
  BY <1>6 DEF ReaperCrash
<1>7. CASE UNCHANGED vars
  BY <1>7 DEF vars
<1> QED
  BY <1>1, <1>2, <1>3, <1>4, <1>5, <1>6, <1>7 DEF Next

(* The split read-then-conditional-write operations, with lost answers,    *)
(* stale clock readings and crashes, implement the atomic ledger.          *)
THEOREM ImplementsLedger == Spec => AtomicOperations
<1>1. Init => Ledger!Init
  BY DEF Init, Ledger!Init, NoLease, Ledger!NoLease, NoExpiry, Ledger!NoExpiry
<1>2. Inv /\ [Next]_vars => [Ledger!Next]_(Ledger!vars)
  BY NextIsAtomic
<1> QED
  BY <1>1, <1>2, InvHolds, PTL DEF Spec, AtomicOperations, Ledger!Spec

-----------------------------------------------------------------------------
(* Action properties.  Only a landed write changes a lease.                *)

LEMMA OnlyLandedWrites ==
    ASSUME Inv, [Next]_vars, lease' # lease
    PROVE  \E t \in Threads : Landed(t)
<1>1. CASE \E t \in Threads : Storage(t)
  BY <1>1 DEF Storage, CasWins, CasAnswerLost, CasConflict, IndexMutates, IndexFails
<1>2. CASE \E w \in Workers : Worker(w)
  BY <1>2, ThreadFacts DEF Worker, ClaimRead, RenewRead, RenewRaises, Upload, Finish,
              ReleaseRead, AbandonRead, SettleRead, Crash
<1>3. CASE Tick \/ ReaperCrash \/ \E i \in Items : RequeueRead(i)
  BY <1>3 DEF Tick, ReaperCrash, RequeueRead
<1>4. CASE Sweeping
  BY <1>4 DEF Sweeping, SweepStart, LoadBucket, StartIntegrity, Integrity, DropEntries,
              SweepEnd, ReapRead
<1> QED
  BY <1>1, <1>2, <1>3, <1>4 DEF Next, vars

LEMMA TerminalStepHolds == Inv /\ [Next]_vars => TerminalStep
<1> USE LeaseAssumption, ThreadAssumption
<1> SUFFICES ASSUME Inv, [Next]_vars, NEW i \in Items,
                    lease[i].state \in {"done", "failed"}, lease'[i] # lease[i]
             PROVE  \/ /\ lease'[i].state = "leased"
                       /\ lease'[i].recipe \notin {lease[i].recipe, NoRecipe}
                    \/ /\ lease[i].state = "failed" /\ lease'[i].state = "queued"
                       /\ op[OperatorThread].kind = "requeue"
                       /\ op[OperatorThread].item = i
  BY DEF TerminalStep
<1>1. PICK t \in Threads : Landed(t)
  BY OnlyLandedWrites
<1> DEFINE o == op[t]  l == lease'[i]
<1>2. o.item = i /\ o.seen = lease[i] /\ l = Written(t, o)
  BY <1>1, LandedFacts
<1>3. OpKnows(t) /\ o.kind \in WriteKinds
  BY <1>1 DEF Inv, Landed
<1> HIDE DEF l
<1>4. o.kind \in {"claim", "requeue"}
  BY <1>2, <1>3 DEF OpKnows, HoldsLease, WriteKinds
<1>5. CASE o.kind = "claim"
  <2>1. StaleTerminal(lease[i], RecipeOf[t[1]])
    BY <1>2, <1>3, <1>5 DEF OpKnows, MayClaim, IsClaimable
  <2>2. l.state = "leased" /\ l.recipe = RecipeOf[t[1]]
    BY <1>2, <1>5, WrittenFields
  <2> QED
    BY <2>1, <2>2 DEF StaleTerminal, l
<1>6. CASE o.kind = "requeue"
  <2>1. t = OperatorThread /\ lease[i].state = "failed"
    BY <1>2, <1>3, <1>6 DEF OpKnows
  <2>2. l.state = "queued"
    BY <1>2, <1>6, WrittenFields
  <2> QED
    BY <1>2, <1>6, <2>1, <2>2 DEF l
<1> QED
  BY <1>4, <1>5, <1>6

LEMMA LiveLeaseStepHolds == Inv /\ [Next]_vars => LiveLeaseStep
<1> USE LeaseAssumption, ThreadAssumption
<1> SUFFICES ASSUME Inv, [Next]_vars, NEW i \in Items, NEW w \in Workers,
                    lease[i].state = "leased", lease[i].owner = w,
                    Live(lease[i].expiry), lease'[i] # lease[i]
             PROVE  \/ lease'[i].state = "leased" /\ lease'[i].owner = w
                         /\ lease'[i].attempts = lease[i].attempts
                    \/ lease'[i].state = "queued" /\ op[Main(w)].kind = "abandon"
                    \/ lease'[i].state = "failed" /\ op[Main(w)].kind = "fail"
                    \/ lease'[i].state = "done" /\ ArtifactPresent(i)
  BY DEF LiveLeaseStep
<1>1. PICK t \in Threads : Landed(t)
  BY OnlyLandedWrites
<1> DEFINE o == op[t]  l == lease'[i]
<1>2. o.item = i /\ o.seen = lease[i] /\ l = Written(t, o) /\ o.now \in Nat
  BY <1>1, LandedFacts
<1>3. OpKnows(t) /\ o.kind \in WriteKinds /\ clock \in Nat
  BY <1>1 DEF Inv, Landed, TypeOK
<1>4. lease[i].expiry \in Nat
  BY DEF Inv, LeaseWellFormed
<1>5. \A now \in Nat : now <= clock + Skew => ~IsExpired(lease[i], now)
  BY <1>3, <1>4 DEF IsExpired, Live
<1>6. o.kind # "claim"
  <2> SUFFICES ASSUME o.kind = "claim" PROVE FALSE
    OBVIOUS
  <2>1. t[1] \in Workers /\ o.now <= clock + Offset[t[1]]
        /\ MayClaim(lease[i], RecipeOf[t[1]], o.now)
    BY <1>2, <1>3 DEF OpKnows
  <2>2. Offset[t[1]] \in 0..Skew
    BY <2>1
  <2>3. o.now <= clock + Skew
    BY <1>2, <1>3, <2>1, <2>2
  <2> QED
    BY <1>2, <1>5, <2>1, <2>3 DEF MayClaim, StaleTerminal, IsClaimable
<1>7. o.kind # "reclaim" /\ o.kind # "requeue"
  BY <1>2, <1>3, <1>5 DEF OpKnows
<1>8. o.kind \in {"renew", "fail", "abandon", "complete"}
  BY <1>3, <1>6, <1>7 DEF WriteKinds
<1> HIDE DEF l
<1>9. CASE o.kind = "renew"
  <2>1. l.state = "leased" /\ l.owner = w /\ l.attempts = lease[i].attempts
    BY <1>2, <1>9, WrittenFields
  <2> QED
    BY <2>1 DEF l
<1>10. CASE o.kind \in {"fail", "abandon"}
  <2>1. t = Main(w)
    BY <1>2, <1>3, <1>10 DEF OpKnows
  <2>2. (o.kind = "fail" => l.state = "failed") /\ (o.kind = "abandon" => l.state = "queued")
    BY <1>2, WrittenFields
  <2> QED
    BY <1>10, <2>1, <2>2 DEF l
<1>11. CASE o.kind = "complete"
  <2>1. ArtifactPresent(i)
    BY <1>2, <1>3, <1>11 DEF OpKnows
  <2>2. l.state = "done"
    BY <1>2, <1>11, WrittenFields
  <2> QED
    BY <2>1, <2>2 DEF l
<1> QED
  BY <1>8, <1>9, <1>10, <1>11

(* No stale write undoes a terminal state.                                 *)
THEOREM TerminalIsSettled == Spec => TerminalStaysSettled
<1>1. Inv /\ [Next]_vars => [TerminalStep]_vars
  BY TerminalStepHolds
<1> QED
  BY <1>1, InvHolds, PTL DEF Spec, TerminalStaysSettled

(* A live lease moves only at its holder's hand or on completion.          *)
THEOREM LiveLeaseIsProtected == Spec => LiveLeaseProtected
<1>1. Inv /\ [Next]_vars => [LiveLeaseStep]_vars
  BY LiveLeaseStepHolds
<1> QED
  BY <1>1, InvHolds, PTL DEF Spec, LiveLeaseProtected

=============================================================================
