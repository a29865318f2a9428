------------------------ MODULE DispatchQueueProofs ------------------------
(***************************************************************************)
(* The queue is counted right, no job is with a provider twice at a time,  *)
(* a stored result answers the stored request, and no unread result is     *)
(* lost with its row: for any recipes, clients, contents, windows, limits, *)
(* leases and retries, and whatever is lost or killed on the way.          *)
(***************************************************************************)
EXTENDS DispatchQueue, FiniteSetTheorems, TLAPS

-----------------------------------------------------------------------------
(* Records.                                                                *)

LEMMA MkRowType ==
    ASSUME NEW s \in RowStates, NEW i \in Ids \cup {NoId},
           NEW p \in Ids \cup {NoId}, NEW d \in Digests \cup {NoDigest},
           NEW x \in Bundles \cup {NoBundle}, NEW b \in Bundles \cup {NoBundle},
           NEW n \in 0..MaxRetries
    PROVE  MkRow(s, i, p, d, x, b, n) \in Rows
BY DEF MkRow, Rows

LEMMA NoRowType == NoRow \in Rows /\ NoRow.state = "absent"
<1>1. 0 \in 0..MaxRetries
  BY DispatchAssumption
<1> QED
  BY <1>1, MkRowType DEF NoRow, RowStates, MkRow

LEMMA RequeuedType ==
    ASSUME NEW j \in Rows, NEW n \in 0..MaxRetries
    PROVE  /\ Requeued(j, n) \in Rows
           /\ Requeued(j, n).state = "queued"
           /\ Requeued(j, n).payload = j.payload
           /\ Requeued(j, n).digest = j.digest
           /\ Requeued(j, n).result = j.result
           /\ Requeued(j, n).retries = n
BY DEF Requeued, Rows, RowStates

LEMMA SettledType ==
    ASSUME NEW j \in Rows, NEW s \in RowStates, NEW x \in Bundles \cup {NoBundle}
    PROVE  /\ Settled(j, s, x) \in Rows
           /\ Settled(j, s, x).state = s
           /\ Settled(j, s, x).digest = j.digest
           /\ Settled(j, s, x).result = x
BY DEF Settled, Rows, RowStates

LEMMA MkItemType ==
    ASSUME NEW s \in {"none", "waiting", "calling"} \cup Outcomes,
           NEW i \in Ids \cup {NoId}, NEW d \in Digests \cup {NoDigest},
           NEW n \in 0..MaxResponse
    PROVE  /\ MkItem(s, i, d, n) \in Items
           /\ MkItem(s, i, d, n).stage = s
           /\ MkItem(s, i, d, n).payload = i
           /\ MkItem(s, i, d, n).digest = d
           /\ MkItem(s, i, d, n).age = n
BY DEF MkItem, Items

LEMMA NoItemType == NoItem \in Items /\ NoItem.stage = "none"
<1>1. 0 \in 0..MaxResponse
  BY DispatchAssumption
<1> QED
  BY <1>1, MkItemType DEF NoItem

LEMMA IdleType == Idle \in [Recipes -> Items] /\ \A r \in Recipes : Idle[r] = NoItem
BY NoItemType DEF Idle

LEMMA MkOpType ==
    ASSUME NEW a \in {"idle", "staged", "resend", "accepted", "completed",
                      "failed", "dropped", "persisted", "deleted", "consumed"},
           NEW r \in Recipes \cup {NoRecipe}, NEW i \in Ids \cup {NoId},
           NEW d \in Digests \cup {NoDigest}, NEW p \in Ids \cup {NoId},
           NEW x \in Bundles \cup {NoBundle}
    PROVE  /\ MkOp(a, r, i, d, p, x) \in Ops
           /\ MkOp(a, r, i, d, p, x).at = a
           /\ MkOp(a, r, i, d, p, x).recipe = r
           /\ MkOp(a, r, i, d, p, x).job = i
           /\ MkOp(a, r, i, d, p, x).digest = d
           /\ MkOp(a, r, i, d, p, x).result = x
BY DEF MkOp, Ops

LEMMA RestType ==
    Rest \in Ops /\ Rest.at = "idle" /\ Rest.result = NoBundle
BY MkOpType DEF Rest

-----------------------------------------------------------------------------
(* The counter of the queue.                                               *)

LEMMA QueueFinite ==
    IsFiniteSet(In("queued")) /\ Cardinality(In("queued")) \in Nat
BY DispatchAssumption, FS_Subset, FS_CardinalityType DEF In

LEMMA OneIn ==
    ASSUME NEW Q, NEW r, NEW n, NEW m, IsFiniteSet(Q), n = Cardinality(Q),
           m = n + 1 - (IF r \in Q THEN 1 ELSE 0)
    PROVE  m = Cardinality(Q \cup {r})
<1>1. Cardinality(Q) \in Nat
  BY FS_CardinalityType
<1>2. Cardinality(Q \cup {r}) = IF r \in Q THEN Cardinality(Q)
                                           ELSE Cardinality(Q) + 1
  BY FS_AddElement
<1> QED
  BY <1>1, <1>2

LEMMA OneOut ==
    ASSUME NEW Q, NEW r, NEW n, NEW m, IsFiniteSet(Q), n = Cardinality(Q),
           m = n + 0 - (IF r \in Q THEN 1 ELSE 0)
    PROVE  m = Cardinality(Q \ {r})
<1>1. Cardinality(Q) \in Nat
  BY FS_CardinalityType
<1>2. Cardinality(Q \ {r}) = IF r \in Q THEN Cardinality(Q) - 1
                                        ELSE Cardinality(Q)
  BY FS_RemoveElement
<1> QED
  BY <1>1, <1>2

(* One row is written.                                                     *)
LEMMA CountOne ==
    ASSUME TypeOK, QueueCounted, NEW r \in Recipes, NEW x,
           row' = [row EXCEPT ![r] = x],
           queued' = queued + Bit(x.state = "queued")
                            - Bit(row[r].state = "queued")
    PROVE  QueueCounted'
<1>1. \A q \in Recipes : row'[q] = IF q = r THEN x ELSE row[q]
  BY DEF TypeOK
<1>2. Bit(row[r].state = "queued") = IF r \in In("queued") THEN 1 ELSE 0
  BY DEF In, Bit
<1>3. CASE x.state = "queued"
  <2>1. In("queued")' = In("queued") \cup {r}
    BY <1>1, <1>3 DEF In
  <2>2. Bit(x.state = "queued") = 1
    BY <1>3 DEF Bit
  <2>3. queued' = queued + 1 - (IF r \in In("queued") THEN 1 ELSE 0)
    BY <1>2, <2>2, Zenon
  <2>4. queued' = Cardinality(In("queued") \cup {r})
    BY <2>3, QueueFinite, OneIn, Zenon DEF QueueCounted
  <2> QED
    BY <2>1, <2>4, Zenon DEF QueueCounted
<1>4. CASE x.state # "queued"
  <2>1. In("queued")' = In("queued") \ {r}
    BY <1>1, <1>4 DEF In
  <2>2. Bit(x.state = "queued") = 0
    BY <1>4 DEF Bit
  <2>3. queued' = queued + 0 - (IF r \in In("queued") THEN 1 ELSE 0)
    BY <1>2, <2>2, Zenon
  <2>4. queued' = Cardinality(In("queued") \ {r})
    BY <2>3, QueueFinite, OneOut, Zenon DEF QueueCounted
  <2> QED
    BY <2>1, <2>4, Zenon DEF QueueCounted
<1> QED
  BY <1>3, <1>4

LEMMA CountKept ==
    ASSUME QueueCounted, UNCHANGED <<row, queued>>
    PROVE  QueueCounted'
BY DEF QueueCounted, In

-----------------------------------------------------------------------------
(* What a step leaves alone.                                               *)

JobsKnow ==
    /\ CompletionsHeard /\ ResultAnswersRequest
    /\ \A r \in Recipes : RowKnows(r)
    /\ \A b \in Bundles, r \in Recipes : ItemKnows(b, r)

ClientsKnow == \A c \in Clients : OpKnows(c)

CleanerKnows == cleaner.at # "idle" => cleaner.recipe \in Recipes

LEMMA InvParts ==
    DispatchInv <=>
        TypeOK /\ QueueCounted /\ JobsKnow /\ ClientsKnow /\ CleanerKnows
BY DEF DispatchInv, JobsKnow, ClientsKnow, CleanerKnows

(* Objects that go missing disturb nothing.                                *)
LEMMA JobsLoseObjects ==
    ASSUME TypeOK, JobsKnow, UNCHANGED <<row, active, left, run>>,
           \A i \in Ids : payloads'[i] \subseteq payloads[i],
           \A r \in Recipes, b \in Bundles : results'[r][b] \subseteq results[r][b]
    PROVE  JobsKnow'
<1>1. CompletionsHeard'
  BY DEF JobsKnow, CompletionsHeard, Expired
<1>2. ResultAnswersRequest'
  BY DEF JobsKnow, ResultAnswersRequest, RowKnows
<1>3. ASSUME NEW r \in Recipes
      PROVE  RowKnows(r)'
  BY <1>3 DEF JobsKnow, RowKnows
<1>4. ASSUME NEW b \in Bundles, NEW r \in Recipes
      PROVE  ItemKnows(b, r)'
  <2>1. ItemKnows(b, r) /\ results'[r][b] \subseteq results[r][b]
    BY DEF JobsKnow
  <2> QED
    BY <2>1 DEF ItemKnows, At, Expired, LeasedTo
<1> QED
  BY <1>1, <1>2, <1>3, <1>4 DEF JobsKnow

(* What a client must know of the step it has in hand, given the payloads, *)
(* the results and the executors.                                          *)
OpFits(op, ps, rs, rn) ==
    /\ op.at # "idle" => op.recipe \in Recipes
    /\ op.at \in {"staged", "resend"} =>
          op.job \in Ids /\ ps[op.job] \subseteq {op.digest}
    /\ \A b \in Bundles : op.result = b =>
          /\ rn[b] = Idle
          /\ op.at = "deleted" => rs[op.recipe][b] = {}

LEMMA OpHeld ==
    ASSUME TypeOK, ClientsKnow, NEW c \in Clients
    PROVE  /\ client[c] \in Ops
           /\ client[c].recipe \in Recipes \cup {NoRecipe}
           /\ client[c].job \in Ids \cup {NoId}
           /\ client[c].digest \in Digests \cup {NoDigest}
           /\ client[c].payload \in Ids \cup {NoId}
           /\ client[c].result \in Bundles \cup {NoBundle}
           /\ OpFits(client[c], payloads, results, run)
<1>1. client[c] \in Ops
  BY DEF TypeOK
<1>2. OpFits(client[c], payloads, results, run)
  BY DEF ClientsKnow, OpKnows, OpFits, Posting
<1> QED
  BY <1>1, <1>2 DEF Ops

LEMMA RestFits == \A ps, rs, rn : OpFits(Rest, ps, rs, rn)
BY RestType, DispatchAssumption DEF OpFits

LEMMA OpWritten ==
    ASSUME TypeOK, ClientsKnow, NEW c \in Clients, NEW op,
           client' = [client EXCEPT ![c] = op], UNCHANGED run,
           \A i \in Ids : payloads'[i] \subseteq payloads[i],
           \A r \in Recipes, b \in Bundles : results'[r][b] \subseteq results[r][b],
           OpFits(op, payloads', results', run')
    PROVE  ClientsKnow'
<1> SUFFICES ASSUME NEW k \in Clients PROVE OpKnows(k)'
  BY DEF ClientsKnow
<1>1. CASE k = c
  <2>1. client'[k] = op
    BY <1>1 DEF TypeOK
  <2> QED
    BY <2>1 DEF OpKnows, OpFits, Posting
<1>2. CASE k # c
  <2>1. client'[k] = client[k] /\ OpKnows(k)
    BY <1>2 DEF TypeOK, ClientsKnow
  <2>2. client[k].at = "deleted" => client[k].recipe \in Recipes
    BY <2>1 DEF OpKnows
  <2>3. \A b \in Bundles :
           client[k].result = b /\ client[k].at = "deleted"
             => results'[client[k].recipe][b] = {}
    BY <2>1, <2>2 DEF OpKnows
  <2> QED
    BY <2>1, <2>3 DEF OpKnows, Posting
<1> QED
  BY <1>1, <1>2

LEMMA ClientsKept ==
    ASSUME ClientsKnow, UNCHANGED <<client, run>>,
           \A i \in Ids : payloads'[i] \subseteq payloads[i],
           \A r \in Recipes, b \in Bundles : results'[r][b] \subseteq results[r][b]
    PROVE  ClientsKnow'
<1> SUFFICES ASSUME NEW k \in Clients PROVE OpKnows(k)'
  BY DEF ClientsKnow
<1>1. OpKnows(k)
  BY DEF ClientsKnow
<1>2. \A b \in Bundles :
         client[k].result = b /\ client[k].at = "deleted"
           => results'[client[k].recipe][b] = {}
  BY <1>1 DEF OpKnows
<1> QED
  BY <1>1, <1>2 DEF OpKnows, Posting

(* A call under way has its lease.                                         *)
LEMMA CallHolds ==
    ASSUME TypeOK, JobsKnow, NEW b \in Bundles, NEW r \in Recipes,
           At(b, r, "calling")
    PROVE  /\ ~Expired(b) /\ LeasedTo(r, b)
           /\ run[b][r].digest \in Digests /\ run[b][r].digest = row[r].digest
           /\ MaxResponse - run[b][r].age <= left[b]
<1>1. run[b][r] \in Items /\ left[b] \in -1..Lease
  BY DEF TypeOK
<1>2. ItemKnows(b, r)
  BY DEF JobsKnow
<1>3. MaxResponse - run[b][r].age <= left[b] /\ run[b][r].age \in 0..MaxResponse
  BY <1>1, <1>2 DEF ItemKnows, Items
<1>4. ~Expired(b)
  BY <1>1, <1>3, DispatchAssumption DEF Expired
<1> QED
  BY <1>2, <1>3, <1>4 DEF ItemKnows, At

(* One row is written that was not leased and is not leased.               *)
LEMMA RowWritten ==
    ASSUME TypeOK, JobsKnow, NEW r \in Recipes, NEW x \in Rows,
           row' = [row EXCEPT ![r] = x], UNCHANGED <<active, left, run, objects>>,
           row[r].state # "leased", x.state \notin {"leased", "completed"},
           x.state = "queued" =>
              x.payload \in Ids /\ payloads[x.payload] \subseteq {x.digest},
           x.result \in {row[r].result, NoBundle}
    PROVE  JobsKnow'
<1>1. \A q \in Recipes : row'[q] = IF q = r THEN x ELSE row[q]
  BY DEF TypeOK
<1>2. UNCHANGED <<payloads, results>>
  BY DEF objects
<1>3. CompletionsHeard'
  BY <1>1 DEF JobsKnow, CompletionsHeard, Expired
<1>4. ResultAnswersRequest'
  BY <1>1, <1>2 DEF JobsKnow, ResultAnswersRequest
<1>5. ASSUME NEW q \in Recipes
      PROVE  RowKnows(q)'
  <2>1. RowKnows(q)
    BY DEF JobsKnow
  <2>2. NoBundle \notin Bundles
    BY DispatchAssumption
  <2>3. CASE q = r
    BY <1>1, <1>2, <2>1, <2>2, <2>3 DEF RowKnows
  <2>4. CASE q # r
    BY <1>1, <1>2, <2>1, <2>4 DEF RowKnows
  <2> QED
    BY <2>3, <2>4
<1>6. ASSUME NEW b \in Bundles, NEW q \in Recipes
      PROVE  ItemKnows(b, q)'
  <2>1. ItemKnows(b, q)
    BY DEF JobsKnow
  <2>2. At(b, q, "calling") => LeasedTo(q, b)
    BY CallHolds
  <2>3. CASE q = r
    <3>1. ~LeasedTo(q, b) /\ ~LeasedTo(q, b)'
      BY <1>1, <2>3 DEF LeasedTo
    <3> QED
      BY <2>1, <2>2, <3>1 DEF ItemKnows, At, Expired
  <2>4. CASE q # r
    BY <1>1, <1>2, <2>1, <2>4 DEF ItemKnows, At, Expired, LeasedTo
  <2> QED
    BY <2>3, <2>4
<1> QED
  BY <1>3, <1>4, <1>5, <1>6 DEF JobsKnow

-----------------------------------------------------------------------------
(* The clients' steps.                                                     *)

LEMMA InvNext ==
    ASSUME TypeOK', QueueCounted', JobsKnow', ClientsKnow', CleanerKnows'
    PROVE  DispatchInv'
BY DEF DispatchInv, JobsKnow, ClientsKnow, CleanerKnows

(* A step that changes what one client has in hand, and perhaps deletes    *)
(* objects.                                                                *)
LEMMA ClientStep ==
    ASSUME DispatchInv, NEW c \in Clients, NEW op,
           client' = [client EXCEPT ![c] = op],
           UNCHANGED <<row, queued, active, left, run, cleaner>>,
           \A i \in Ids : payloads'[i] \subseteq payloads[i],
           \A r \in Recipes, b \in Bundles : results'[r][b] \subseteq results[r][b],
           OpFits(op, payloads', results', run')
    PROVE  QueueCounted' /\ JobsKnow' /\ ClientsKnow' /\ CleanerKnows'
<1>1. TypeOK /\ QueueCounted /\ JobsKnow /\ ClientsKnow /\ CleanerKnows
  BY InvParts
<1>2. QueueCounted'
  BY <1>1, CountKept
<1>3. JobsKnow'
  BY <1>1, JobsLoseObjects
<1>4. ClientsKnow'
  BY <1>1, OpWritten
<1>5. CleanerKnows'
  BY <1>1 DEF CleanerKnows
<1> QED
  BY <1>2, <1>3, <1>4, <1>5

LEMMA PostConflictsKeeps ==
    ASSUME DispatchInv, NEW c \in Clients, PostConflicts(c)
    PROVE  DispatchInv'
<1>1. TypeOK'
  BY RestType DEF DispatchInv, TypeOK, PostConflicts, coordinator, objects, marks
<1>2. QueueCounted' /\ JobsKnow' /\ ClientsKnow' /\ CleanerKnows'
  BY ClientStep, RestFits DEF PostConflicts, coordinator, objects
<1> QED
  BY <1>1, <1>2, InvNext

LEMMA ClientStopsKeeps ==
    ASSUME DispatchInv, NEW c \in Clients, ClientStops(c)
    PROVE  DispatchInv'
<1>1. TypeOK'
  BY RestType DEF DispatchInv, TypeOK, ClientStops, coordinator, objects, marks
<1>2. QueueCounted' /\ JobsKnow' /\ ClientsKnow' /\ CleanerKnows'
  BY ClientStep, RestFits DEF ClientStops, coordinator, objects
<1> QED
  BY <1>1, <1>2, InvNext

LEMMA RecordTypes ==
    ASSUME TypeOK, NEW r \in Recipes
    PROVE  /\ record[r] \in Records /\ NoRecord \in Records /\ Done \in Records
           /\ \A i \in Ids \cup {NoId} : MkRecord("pending", i) \in Records
           /\ \A i \in Ids \cup {NoId} :
                 Written(r, MkRecord("pending", i)) \in Records
BY DEF TypeOK, NoRecord, Done, MkRecord, Records, Written

LEMMA PostDeferredKeeps ==
    ASSUME DispatchInv, NEW c \in Clients, PostDeferred(c)
    PROVE  DispatchInv'
<1> DEFINE op == client[c]
<1>0. TypeOK /\ ClientsKnow
  BY InvParts
<1>1. op.recipe \in Recipes
  BY <1>0, OpHeld DEF OpFits, PostDeferred, Posting
<1>2. Written(op.recipe, MkRecord("pending", NoId)) \in Records
  BY <1>0, <1>1, RecordTypes
<1>3. TypeOK'
  BY <1>0, <1>1, <1>2, RestType DEF TypeOK, PostDeferred, coordinator, objects
<1>4. QueueCounted' /\ JobsKnow' /\ ClientsKnow' /\ CleanerKnows'
  BY ClientStep, RestFits DEF PostDeferred, coordinator, objects
<1> QED
  BY <1>3, <1>4, InvNext

LEMMA KeepHandleKeeps ==
    ASSUME DispatchInv, NEW c \in Clients, KeepHandle(c)
    PROVE  DispatchInv'
<1> DEFINE op == client[c]
<1>0. TypeOK /\ ClientsKnow
  BY InvParts
<1>1. op.recipe \in Recipes /\ op.job \in Ids \cup {NoId}
  BY <1>0, OpHeld DEF OpFits, KeepHandle
<1>2. Written(op.recipe, MkRecord("pending", op.job)) \in Records
  BY <1>0, <1>1, RecordTypes
<1>3. TypeOK'
  BY <1>0, <1>1, <1>2, RestType DEF TypeOK, KeepHandle, coordinator, objects
<1>4. QueueCounted' /\ JobsKnow' /\ ClientsKnow' /\ CleanerKnows'
  BY ClientStep, RestFits DEF KeepHandle, coordinator, objects
<1> QED
  BY <1>3, <1>4, InvNext

LEMMA PollKeeps ==
    ASSUME DispatchInv, NEW c \in Clients, NEW r \in Recipes, Poll(c, r)
    PROVE  DispatchInv'
<1> DEFINE op == PolledOp(r, record[r].ref)
<1>0. TypeOK /\ JobsKnow
  BY InvParts
<1>1. /\ record[r].ref \in Ids \cup {NoId} /\ row[r].payload \in Ids \cup {NoId}
      /\ row[r].result \in Bundles \cup {NoBundle}
  BY <1>0 DEF TypeOK, Records, Rows
<1>2. op \in Ops /\ op.at \in {"dropped", "failed", "completed"}
      /\ op.recipe = r /\ op.result \in {NoBundle, row[r].result}
  BY <1>1 DEF PolledOp, MkOp, Ops
<1>3. TypeOK'
  BY <1>0, <1>2 DEF TypeOK, Poll, coordinator, objects, marks
<1>4. OpFits(op, payloads', results', run')
  <2>1. \A b \in Bundles : row[r].result = b => run[b] = Idle
    BY <1>0 DEF JobsKnow, RowKnows
  <2>2. NoBundle \notin Bundles
    BY DispatchAssumption
  <2> HIDE DEF op
  <2> QED
    BY <1>2, <2>1, <2>2 DEF OpFits, Poll
<1>5. QueueCounted' /\ JobsKnow' /\ ClientsKnow' /\ CleanerKnows'
  BY <1>4, ClientStep DEF Poll, coordinator, objects
<1> QED
  BY <1>3, <1>5, InvNext

LEMMA ResolveKeeps ==
    ASSUME DispatchInv, NEW c \in Clients, Resolve(c)
    PROVE  DispatchInv'
<1> DEFINE op == client[c]
           read == [op EXCEPT !.at = "persisted"]
<1>0. TypeOK /\ ClientsKnow
  BY InvParts
<1>1. /\ op \in Ops /\ op.recipe \in Recipes
      /\ OpFits(op, payloads, results, run)
  BY <1>0, OpHeld DEF OpFits, Resolve
<1>2. read \in Ops /\ OpFits(read, payloads, results, run)
  BY <1>1 DEF Ops, OpFits
<1>3. Done \in Records
  BY <1>0, <1>1, RecordTypes
<1>4. TypeOK'
  <2>1. client' \in [Clients -> Ops]
    BY <1>0, <1>2, RestType DEF TypeOK, Resolve
  <2>2. record' \in [Recipes -> Records]
    BY <1>0, <1>3 DEF TypeOK, Resolve
  <2> QED
    BY <1>0, <2>1, <2>2 DEF TypeOK, Resolve, coordinator, objects
<1>5. QueueCounted' /\ JobsKnow' /\ ClientsKnow' /\ CleanerKnows'
  <2>1. UNCHANGED <<row, queued, active, left, run, cleaner, payloads, results>>
    BY DEF Resolve, coordinator, objects
  <2>2. CASE client' = [client EXCEPT ![c] = read]
    BY <1>2, <2>1, <2>2, ClientStep
  <2>3. CASE client' = [client EXCEPT ![c] = Rest]
    BY <2>1, <2>3, ClientStep, RestFits
  <2> QED
    BY <2>2, <2>3 DEF Resolve
<1> QED
  BY <1>4, <1>5, InvNext

LEMMA DiscardDroppedKeeps ==
    ASSUME DispatchInv, NEW c \in Clients, DiscardDropped(c)
    PROVE  DispatchInv'
<1>0. TypeOK /\ ClientsKnow
  BY InvParts
<1>1. client[c].recipe \in Recipes
  BY <1>0, OpHeld DEF OpFits, DiscardDropped
<1>2. record' \in [Recipes -> Records]
  BY <1>0, <1>1, RecordTypes DEF TypeOK, DiscardDropped, Forget
<1>3. TypeOK'
  BY <1>0, <1>2, RestType DEF TypeOK, DiscardDropped, coordinator, objects
<1>4. QueueCounted' /\ JobsKnow' /\ ClientsKnow' /\ CleanerKnows'
  BY ClientStep, RestFits DEF DiscardDropped, coordinator, objects
<1> QED
  BY <1>3, <1>4, InvNext

LEMMA CountedType == \A n \in 0..MaxFailures : Counted(n) \in 0..MaxFailures
BY DispatchAssumption DEF Counted

LEMMA DiscardFailedKeeps ==
    ASSUME DispatchInv, NEW c \in Clients, DiscardFailed(c)
    PROVE  DispatchInv'
<1>0. TypeOK /\ ClientsKnow
  BY InvParts
<1>1. client[c].recipe \in Recipes
  BY <1>0, OpHeld DEF OpFits, DiscardFailed
<1>2. record' \in [Recipes -> Records]
  BY <1>0, <1>1, RecordTypes DEF TypeOK, DiscardFailed, Forget
<1>3. failures' \in [Recipes -> 0..MaxFailures]
  BY <1>0, <1>1, CountedType DEF TypeOK, DiscardFailed
<1>4. charged' \subseteq Recipes
  BY <1>0, <1>1 DEF TypeOK, DiscardFailed
<1>5. TypeOK'
  BY <1>0, <1>2, <1>3, <1>4, RestType DEF TypeOK, DiscardFailed, coordinator, objects
<1>6. QueueCounted' /\ JobsKnow' /\ ClientsKnow' /\ CleanerKnows'
  BY ClientStep, RestFits DEF DiscardFailed, coordinator, objects
<1> QED
  BY <1>5, <1>6, InvNext

LEMMA RejectResultKeeps ==
    ASSUME DispatchInv, NEW r \in Recipes, RejectResult(r)
    PROVE  DispatchInv'
<1>0. TypeOK /\ QueueCounted /\ JobsKnow /\ ClientsKnow /\ CleanerKnows
  BY InvParts
<1>1. record' \in [Recipes -> Records]
  BY <1>0, RecordTypes DEF TypeOK, RejectResult, Forget
<1>2. failures' \in [Recipes -> 0..MaxFailures]
  BY <1>0, CountedType DEF TypeOK, RejectResult
<1>3. TypeOK'
  BY <1>0, <1>1, <1>2 DEF TypeOK, RejectResult, coordinator, objects
<1>4. UNCHANGED <<row, queued, active, left, run, payloads, results, client, cleaner>>
  BY DEF RejectResult, coordinator, objects
<1>5. QueueCounted'
  BY <1>0, <1>4, CountKept
<1>6. JobsKnow'
  BY <1>0, <1>4, JobsLoseObjects
<1>7. ClientsKnow' /\ CleanerKnows'
  BY <1>0, <1>4, ClientsKept DEF CleanerKnows
<1> QED
  BY <1>3, <1>5, <1>6, <1>7, InvNext

(* The coordinator's transaction of a submission.                          *)
LEMMA EnqueueBatchKeeps ==
    ASSUME TypeOK, QueueCounted, JobsKnow, NEW r \in Recipes, NEW i \in Ids,
           NEW d \in Digests \cup {NoDigest}, payloads[i] \subseteq {d},
           EnqueueBatch(r, i, d), UNCHANGED <<left, run, objects>>
    PROVE  /\ row' \in [Recipes -> Rows] /\ queued' \in Int
           /\ active' \subseteq Bundles /\ charged' \subseteq Recipes
           /\ QueueCounted' /\ JobsKnow'
<1>1. CASE UNCHANGED <<row, queued, active, charged>>
  <2>1. QueueCounted'
    BY <1>1, CountKept
  <2>2. JobsKnow'
    BY <1>1, JobsLoseObjects DEF objects
  <2> QED
    BY <1>1, <2>1, <2>2 DEF TypeOK
<1>2. CASE /\ Admits(r, d) /\ row' = [row EXCEPT ![r] = SubmittedRow(r, i, d)]
           /\ queued' = queued + Bit(row[r].state # "queued")
           /\ charged' = charged \ {r} /\ UNCHANGED active
  <2> DEFINE x == SubmittedRow(r, i, d)
  <2>1. row[r].id \in Ids \cup {NoId}
    BY DEF TypeOK, Rows
  <2>2. 0 \in 0..MaxRetries
    BY DispatchAssumption
  <2>3. /\ x \in Rows /\ x.state = "queued" /\ x.payload = i /\ x.digest = d
        /\ x.result = NoBundle
    BY <2>1, <2>2 DEF SubmittedRow, MkRow, Rows, RowStates
  <2>4. Bit(x.state = "queued") = 1
    BY <2>3 DEF Bit
  <2>5. Bit(row[r].state # "queued") = 1 - Bit(row[r].state = "queued")
    BY DEF Bit
  <2>6. queued' = queued + 1 - Bit(row[r].state = "queued") /\ queued' \in Int
    <3>1. Bit(row[r].state = "queued") \in {0, 1} /\ queued \in Int
      BY DEF Bit, TypeOK
    <3> QED
      BY <1>2, <2>5, <3>1
  <2>7. queued' = queued + Bit(x.state = "queued") - Bit(row[r].state = "queued")
    BY <2>4, <2>6, Zenon
  <2> HIDE DEF x
  <2>8. row' = [row EXCEPT ![r] = x]
    BY <1>2 DEF x
  <2>9. QueueCounted'
    BY <2>7, <2>8, CountOne
  <2>10. row[r].state # "leased"
    BY <1>2 DEF Admits
  <2>11. JobsKnow'
    BY <1>2, <2>3, <2>8, <2>10, RowWritten
  <2> QED
    BY <1>2, <2>3, <2>6, <2>8, <2>9, <2>11 DEF TypeOK
<1> QED
  BY <1>1, <1>2 DEF EnqueueBatch

LEMMA CanonicalIdType ==
    ASSUME TypeOK, NEW r \in Recipes, NEW i \in Ids
    PROVE  CanonicalId(r, i) \in Ids \cup {NoId}
BY DEF TypeOK, Rows, CanonicalId

(* What a client that posts has staged.                                    *)
LEMMA Staged ==
    ASSUME DispatchInv, NEW c \in Clients, Posting(c)
    PROVE  /\ client[c].recipe \in Recipes /\ client[c].job \in Ids
           /\ client[c].digest \in Digests \cup {NoDigest}
           /\ payloads[client[c].job] \subseteq {client[c].digest}
BY InvParts, OpHeld DEF OpFits, Posting

LEMMA PostAcceptedKeeps ==
    ASSUME DispatchInv, NEW c \in Clients, PostAccepted(c)
    PROVE  DispatchInv'
<1> DEFINE op == client[c]
           i == CanonicalId(op.recipe, op.job)
           kept == MkOp("accepted", op.recipe, i, NoDigest, NoId, NoBundle)
<1>0. TypeOK /\ QueueCounted /\ JobsKnow /\ ClientsKnow /\ CleanerKnows
  BY InvParts
<1>1. /\ op.recipe \in Recipes /\ op.job \in Ids
      /\ op.digest \in Digests \cup {NoDigest} /\ payloads[op.job] \subseteq {op.digest}
  BY Staged DEF PostAccepted
<1>2. /\ EnqueueBatch(op.recipe, op.job, op.digest)
      /\ UNCHANGED <<left, run, objects, marks, cleaner, calm>>
      /\ client' = [client EXCEPT ![c] = kept]
  BY DEF PostAccepted
<1>3. /\ row' \in [Recipes -> Rows] /\ queued' \in Int
      /\ active' \subseteq Bundles /\ charged' \subseteq Recipes
      /\ QueueCounted' /\ JobsKnow'
  BY <1>0, <1>1, <1>2, EnqueueBatchKeeps
<1>4. i \in Ids \cup {NoId}
  BY <1>0, <1>1, CanonicalIdType
<1>5. kept \in Ops /\ kept.at = "accepted" /\ kept.recipe = op.recipe
      /\ kept.result = NoBundle
  BY <1>1, <1>4 DEF MkOp, Ops
<1> HIDE DEF kept
<1>6. TypeOK'
  BY <1>0, <1>2, <1>3, <1>5 DEF TypeOK, objects, marks
<1>7. OpFits(kept, payloads', results', run')
  BY <1>1, <1>5, DispatchAssumption DEF OpFits
<1>8. ClientsKnow'
  BY <1>0, <1>2, <1>7, OpWritten DEF objects
<1>9. CleanerKnows'
  BY <1>0, <1>2 DEF CleanerKnows
<1> QED
  BY <1>3, <1>6, <1>8, <1>9, InvNext

LEMMA PostLostKeeps ==
    ASSUME DispatchInv, NEW c \in Clients, PostLost(c)
    PROVE  DispatchInv'
<1> DEFINE op == client[c]
           again == [op EXCEPT !.at = "resend"]
           kept == IF op.at = "staged" THEN again ELSE Rest
<1>0. TypeOK /\ QueueCounted /\ JobsKnow /\ ClientsKnow /\ CleanerKnows
  BY InvParts
<1>1. /\ op.recipe \in Recipes /\ op.job \in Ids
      /\ op.digest \in Digests \cup {NoDigest} /\ payloads[op.job] \subseteq {op.digest}
  BY Staged DEF PostLost
<1>2. /\ \/ EnqueueBatch(op.recipe, op.job, op.digest)
         \/ UNCHANGED <<row, queued, active, charged>>
      /\ UNCHANGED <<left, run, objects, marks, cleaner, calm>>
      /\ client' = [client EXCEPT ![c] = kept]
  BY DEF PostLost
<1>3. /\ row' \in [Recipes -> Rows] /\ queued' \in Int
      /\ active' \subseteq Bundles /\ charged' \subseteq Recipes
      /\ QueueCounted' /\ JobsKnow'
  <2>1. CASE EnqueueBatch(op.recipe, op.job, op.digest)
    BY <1>0, <1>1, <1>2, <2>1, EnqueueBatchKeeps
  <2>2. CASE UNCHANGED <<row, queued, active, charged>>
    BY <1>0, <1>2, <2>2, CountKept, JobsLoseObjects DEF TypeOK, objects
  <2> QED
    BY <1>2, <2>1, <2>2
<1>4. op \in Ops /\ OpFits(op, payloads, results, run)
  BY <1>0, OpHeld
<1>5. again \in Ops /\ OpFits(again, payloads, results, run)
  BY <1>1, <1>4 DEF Ops, OpFits
<1>6. kept \in Ops /\ OpFits(kept, payloads', results', run')
  BY <1>2, <1>5, RestType, RestFits DEF objects
<1> HIDE DEF kept
<1>7. TypeOK'
  BY <1>0, <1>2, <1>3, <1>6 DEF TypeOK, objects, marks
<1>8. ClientsKnow'
  BY <1>0, <1>2, <1>6, OpWritten DEF objects
<1>9. CleanerKnows'
  BY <1>0, <1>2 DEF CleanerKnows
<1> QED
  BY <1>3, <1>7, <1>8, <1>9, InvNext

(* A payload is staged under an id nothing refers to.                      *)
LEMMA SubmitKeeps ==
    ASSUME DispatchInv, NEW c \in Clients, NEW r \in Recipes, NEW i \in Ids,
           NEW d \in Digests, Submit(c, r, i, d)
    PROVE  DispatchInv'
<1> DEFINE op == MkOp("staged", r, i, d, NoId, NoBundle)
<1>0. TypeOK /\ QueueCounted /\ JobsKnow /\ ClientsKnow /\ CleanerKnows
  BY InvParts
<1>1. /\ op \in Ops /\ op.at = "staged" /\ op.recipe = r /\ op.job = i
      /\ op.digest = d /\ op.result = NoBundle
  BY DEF MkOp, Ops
<1> HIDE DEF op
<1>2. /\ client' = [client EXCEPT ![c] = op]
      /\ UNCHANGED <<row, queued, active, left, run, results, marks, cleaner,
                     charged, calm>>
  BY DEF Submit, coordinator, op
<1>3. payloads' \in [Ids -> SUBSET Digests]
  BY <1>0 DEF TypeOK, Submit
<1>4. payloads'[i] = {d} /\ \A k \in Ids \ {i} : payloads'[k] \subseteq payloads[k]
  BY DEF Submit
<1>5. /\ \A q \in Recipes : row[q].payload # i
      /\ \A k \in Clients : client[k].job # i
  BY DEF Submit, FreshId
<1>6. TypeOK'
  BY <1>0, <1>1, <1>2, <1>3 DEF TypeOK, marks
<1>7. QueueCounted'
  BY <1>0, <1>2, CountKept
<1>8. JobsKnow'
  <2>1. CompletionsHeard' /\ ResultAnswersRequest'
    BY <1>0, <1>2 DEF JobsKnow, CompletionsHeard, Expired, ResultAnswersRequest
  <2>2. ASSUME NEW q \in Recipes
        PROVE  RowKnows(q)'
    BY <1>0, <1>2, <1>4, <1>5 DEF JobsKnow, RowKnows
  <2>3. ASSUME NEW b \in Bundles, NEW q \in Recipes
        PROVE  ItemKnows(b, q)'
    BY <1>0, <1>2 DEF JobsKnow, ItemKnows, At, Expired, LeasedTo
  <2> QED
    BY <2>1, <2>2, <2>3 DEF JobsKnow
<1>9. ClientsKnow'
  <2> SUFFICES ASSUME NEW k \in Clients PROVE OpKnows(k)'
    BY DEF ClientsKnow
  <2>1. CASE k = c
    <3>1. client'[k] = op
      BY <1>0, <1>2, <2>1 DEF TypeOK
    <3> QED
      BY <1>1, <1>4, <3>1, DispatchAssumption DEF OpKnows, Posting
  <2>2. CASE k # c
    <3>1. client'[k] = client[k] /\ OpKnows(k) /\ client[k].job # i
      BY <1>0, <1>2, <1>5, <2>2 DEF TypeOK, ClientsKnow
    <3> QED
      BY <1>2, <1>4, <3>1 DEF OpKnows, Posting
  <2> QED
    BY <2>1, <2>2
<1>10. CleanerKnows'
  BY <1>0, <1>2 DEF CleanerKnows
<1> QED
  BY <1>6, <1>7, <1>8, <1>9, <1>10, InvNext

(* A step of a client or of the cleanup that moves a row which is neither  *)
(* queued nor leased to a state where it is neither, or cancels it.        *)
LEMMA RowLeaves ==
    ASSUME TypeOK, QueueCounted, JobsKnow, NEW r \in Recipes, NEW x \in Rows,
           row' = [row EXCEPT ![r] = x], UNCHANGED <<active, left, run, objects>>,
           queued' = Uncounted(r), row[r].state # "leased",
           x.state \in {"absent", "purge_pending"},
           x.result \in {row[r].result, NoBundle}
    PROVE  row' \in [Recipes -> Rows] /\ queued' \in Int /\ QueueCounted' /\ JobsKnow'
<1>1. row' \in [Recipes -> Rows]
  BY DEF TypeOK
<1>2. Bit(x.state = "queued") = 0 /\ Bit(row[r].state = "queued") \in {0, 1}
  BY DEF Bit
<1>3. queued' = queued - Bit(row[r].state = "queued")
  BY DEF Uncounted
<1>4. queued' = queued + 0 - Bit(row[r].state = "queued") /\ queued' \in Int
  <2>1. queued \in Int
    BY DEF TypeOK
  <2> QED
    BY <1>2, <1>3, <2>1
<1>5. queued' = queued + Bit(x.state = "queued") - Bit(row[r].state = "queued")
  BY <1>2, <1>4, Zenon
<1>6. QueueCounted'
  BY <1>5, CountOne
<1>7. JobsKnow'
  BY RowWritten
<1> QED
  BY <1>1, <1>4, <1>6, <1>7

LEMMA StaysUncounted ==
    ASSUME TypeOK, NEW r \in Recipes, row[r].state # "queued"
    PROVE  Uncounted(r) = queued
<1>1. Bit(row[r].state = "queued") = 0 /\ queued \in Int
  BY DEF Bit, TypeOK
<1> QED
  BY <1>1 DEF Uncounted

(* A row on its way out.                                                   *)
LEMMA LeavingRow ==
    ASSUME TypeOK, NEW r \in Recipes
    PROVE  LET x == [row[r] EXCEPT !.state = "purge_pending"] IN
           /\ x \in Rows /\ x.state = "purge_pending" /\ x.result = row[r].result
BY DEF TypeOK, Rows, RowStates

LEMMA GoneRow == NoRow \in Rows /\ NoRow.state = "absent" /\ NoRow.result = NoBundle
BY NoRowType DEF NoRow, MkRow

LEMMA WithoutShrinks ==
    ASSUME TypeOK, NEW i
    PROVE  /\ WithoutPayload(i) \in [Ids -> SUBSET Digests]
           /\ \A k \in Ids : WithoutPayload(i)[k] \subseteq payloads[k]
BY DEF TypeOK, WithoutPayload

LEMMA WithoutResultShrinks ==
    ASSUME TypeOK, NEW r, NEW x
    PROVE  /\ WithoutResult(r, x) \in [Recipes -> [Bundles -> SUBSET Digests]]
           /\ \A q \in Recipes, b \in Bundles :
                 WithoutResult(r, x)[q][b] \subseteq results[q][b]
           /\ r \in Recipes /\ x \in Bundles => WithoutResult(r, x)[r][x] = {}
BY DEF TypeOK, WithoutResult

LEMMA ToAckType ==
    ASSUME DispatchInv, NEW c \in Clients, client[c].at # "idle"
    PROVE  /\ ToAck(client[c]) \in Ops
           /\ \A ps, rs, rn : OpFits(ToAck(client[c]), ps, rs, rn)
<1>1. client[c].recipe \in Recipes /\ client[c].job \in Ids \cup {NoId}
  BY InvParts, OpHeld DEF OpFits
<1> QED
  BY <1>1, DispatchAssumption DEF ToAck, MkOp, Ops, OpFits

LEMMA DeleteObjectsKeeps ==
    ASSUME DispatchInv, NEW c \in Clients, DeleteObjects(c)
    PROVE  DispatchInv'
<1> DEFINE op == client[c]
           kept == [op EXCEPT !.at = "deleted", !.payload = NoId]
<1>0. TypeOK /\ ClientsKnow
  BY InvParts
<1>1. /\ op \in Ops /\ op.recipe \in Recipes
      /\ op.result \in Bundles \cup {NoBundle}
      /\ OpFits(op, payloads, results, run)
  BY <1>0, OpHeld DEF OpFits, DeleteObjects
<1>2. /\ kept \in Ops /\ kept.at = "deleted" /\ kept.recipe = op.recipe
      /\ kept.result = op.result
  BY <1>1 DEF Ops
<1> HIDE DEF kept
<1>3. /\ client' = [client EXCEPT ![c] = kept]
      /\ payloads' = WithoutPayload(op.payload)
      /\ results' = WithoutResult(op.recipe, op.result)
      /\ UNCHANGED <<row, queued, active, left, run, marks, cleaner, charged, calm>>
  BY DEF DeleteObjects, coordinator, kept
<1>4. /\ payloads' \in [Ids -> SUBSET Digests]
      /\ \A k \in Ids : payloads'[k] \subseteq payloads[k]
  BY <1>0, <1>3, WithoutShrinks
<1>5. /\ results' \in [Recipes -> [Bundles -> SUBSET Digests]]
      /\ \A q \in Recipes, b \in Bundles : results'[q][b] \subseteq results[q][b]
      /\ \A b \in Bundles : op.result = b => results'[op.recipe][b] = {}
  BY <1>0, <1>1, <1>3, WithoutResultShrinks
<1>6. TypeOK'
  BY <1>0, <1>2, <1>3, <1>4, <1>5 DEF TypeOK, marks
<1>7. OpFits(kept, payloads', results', run')
  BY <1>1, <1>2, <1>3, <1>5 DEF OpFits
<1>8. QueueCounted' /\ JobsKnow' /\ ClientsKnow' /\ CleanerKnows'
  BY <1>3, <1>4, <1>5, <1>7, ClientStep
<1> QED
  BY <1>6, <1>8, InvNext

LEMMA DeleteFailsKeeps ==
    ASSUME DispatchInv, NEW c \in Clients, DeleteFails(c)
    PROVE  DispatchInv'
<1> DEFINE op == client[c]
           kept == ToAck(op)
<1>0. TypeOK /\ ClientsKnow
  BY InvParts
<1>1. kept \in Ops /\ OpFits(kept, payloads', results', run')
  BY ToAckType DEF DeleteFails
<1> HIDE DEF kept
<1>2. /\ client' = [client EXCEPT ![c] = kept]
      /\ payloads' \in {WithoutPayload(op.payload), payloads}
      /\ UNCHANGED <<row, queued, active, left, run, results, marks, cleaner,
                     charged, calm>>
  BY DEF DeleteFails, coordinator, kept
<1>3. /\ payloads' \in [Ids -> SUBSET Digests]
      /\ \A k \in Ids : payloads'[k] \subseteq payloads[k]
  BY <1>0, <1>2, WithoutShrinks DEF TypeOK
<1>4. TypeOK'
  BY <1>0, <1>1, <1>2, <1>3 DEF TypeOK, marks
<1>5. QueueCounted' /\ JobsKnow' /\ ClientsKnow' /\ CleanerKnows'
  BY <1>1, <1>2, <1>3, ClientStep
<1> QED
  BY <1>4, <1>5, InvNext

LEMMA RetireConsumedKeeps ==
    ASSUME DispatchInv, NEW c \in Clients, RetireConsumed(c)
    PROVE  DispatchInv'
<1> DEFINE op == client[c]
           r == op.recipe
<1>0. TypeOK /\ QueueCounted /\ JobsKnow /\ ClientsKnow /\ CleanerKnows
  BY InvParts
<1>1. op.at = "deleted" /\ r \in Recipes
  BY <1>0, OpHeld DEF OpFits, RetireConsumed
<1>2. UNCHANGED <<queued, active, left, run, objects, marks, cleaner, charged, calm>>
  BY DEF RetireConsumed
<1>3. PICK kept : /\ client' = [client EXCEPT ![c] = kept] /\ kept \in Ops
                  /\ OpFits(kept, payloads', results', run')
  <2>1. ToAck(op) \in Ops /\ OpFits(ToAck(op), payloads', results', run')
    BY <1>1, ToAckType
  <2>2. \/ client' = [client EXCEPT ![c] = ToAck(op)]
        \/ client' = [client EXCEPT ![c] = Rest]
    BY DEF RetireConsumed
  <2> QED
    BY <2>1, <2>2, RestType, RestFits
<1>4. row' \in [Recipes -> Rows] /\ queued' \in Int /\ QueueCounted' /\ JobsKnow'
  <2>1. CASE UNCHANGED row
    BY <1>0, <1>2, <2>1, CountKept, JobsLoseObjects DEF TypeOK, objects
  <2>2. CASE Retires(r, op.job, op.result) /\ row' = [row EXCEPT ![r] = NoRow]
    <3>1. row[r].state = "completed"
      BY <2>2 DEF Retires
    <3>2. queued' = Uncounted(r)
      BY <1>0, <1>1, <1>2, <3>1, StaysUncounted
    <3> QED
      BY <1>0, <1>1, <1>2, <2>2, <3>1, <3>2, GoneRow, RowLeaves
  <2> QED
    BY <2>1, <2>2 DEF RetireConsumed
<1>5. TypeOK'
  BY <1>0, <1>2, <1>3, <1>4 DEF TypeOK, objects, marks
<1>6. ClientsKnow'
  BY <1>0, <1>2, <1>3, OpWritten DEF objects
<1>7. CleanerKnows'
  BY <1>0, <1>2 DEF CleanerKnows
<1> QED
  BY <1>4, <1>5, <1>6, <1>7, InvNext

LEMMA AckResultsKeeps ==
    ASSUME DispatchInv, NEW c \in Clients, AckResults(c)
    PROVE  DispatchInv'
<1> DEFINE op == client[c]
           r == op.recipe
           x == [row[r] EXCEPT !.state = "purge_pending"]
<1>0. TypeOK /\ QueueCounted /\ JobsKnow /\ ClientsKnow /\ CleanerKnows
  BY InvParts
<1>1. r \in Recipes
  BY <1>0, OpHeld DEF OpFits, AckResults
<1>2. /\ UNCHANGED <<queued, active, left, run, objects, marks, cleaner, charged, calm>>
      /\ client' = [client EXCEPT ![c] = Rest]
  BY DEF AckResults
<1>3. row' \in [Recipes -> Rows] /\ queued' \in Int /\ QueueCounted' /\ JobsKnow'
  <2>1. CASE UNCHANGED row
    BY <1>0, <1>2, <2>1, CountKept, JobsLoseObjects DEF TypeOK, objects
  <2>2. CASE row[r].state = "completed" /\ row' = [row EXCEPT ![r] = x]
    <3>1. x \in Rows /\ x.state = "purge_pending" /\ x.result = row[r].result
      BY <1>0, <1>1, LeavingRow
    <3>2. queued' = Uncounted(r)
      BY <1>0, <1>1, <1>2, <2>2, StaysUncounted
    <3> HIDE DEF x
    <3> QED
      BY <1>0, <1>1, <1>2, <2>2, <3>1, <3>2, RowLeaves
  <2> QED
    BY <2>1, <2>2 DEF AckResults
<1>4. TypeOK'
  BY <1>0, <1>2, <1>3, RestType DEF TypeOK, objects, marks
<1>5. ClientsKnow'
  BY <1>0, <1>2, RestFits, OpWritten DEF objects
<1>6. CleanerKnows'
  BY <1>0, <1>2 DEF CleanerKnows
<1> QED
  BY <1>3, <1>4, <1>5, <1>6, InvNext

LEMMA CancelBatchKeeps ==
    ASSUME DispatchInv, NEW c \in Clients, NEW r \in Recipes, CancelBatch(c, r)
    PROVE  DispatchInv'
<1> DEFINE x == [row[r] EXCEPT !.state = "purge_pending"]
           kept == MkOp("dropped", r, record[r].ref, NoDigest, NoId, NoBundle)
<1>0. TypeOK /\ QueueCounted /\ JobsKnow /\ ClientsKnow /\ CleanerKnows
  BY InvParts
<1>1. /\ UNCHANGED <<active, left, run, objects, marks, cleaner, calm>>
      /\ queued' = Uncounted(r) /\ charged' = charged \ {r}
      /\ client' = [client EXCEPT ![c] = kept]
      /\ row' = [row EXCEPT ![r] = x] /\ row[r].state # "leased"
  BY DEF CancelBatch
<1>2. record[r].ref \in Ids \cup {NoId}
  BY <1>0 DEF TypeOK, Records
<1>3. /\ kept \in Ops /\ kept.at = "dropped" /\ kept.recipe = r
      /\ kept.result = NoBundle
  BY <1>2 DEF MkOp, Ops
<1> HIDE DEF kept
<1>4. OpFits(kept, payloads', results', run')
  BY <1>3, DispatchAssumption DEF OpFits
<1>5. x \in Rows /\ x.state = "purge_pending" /\ x.result = row[r].result
  BY <1>0, LeavingRow
<1> HIDE DEF x
<1>6. row' \in [Recipes -> Rows] /\ queued' \in Int /\ QueueCounted' /\ JobsKnow'
  BY <1>0, <1>1, <1>5, RowLeaves
<1>7. TypeOK'
  BY <1>0, <1>1, <1>3, <1>6 DEF TypeOK, objects, marks
<1>8. ClientsKnow'
  BY <1>0, <1>1, <1>4, OpWritten DEF objects
<1>9. CleanerKnows'
  BY <1>0, <1>1 DEF CleanerKnows
<1> QED
  BY <1>6, <1>7, <1>8, <1>9, InvNext

-----------------------------------------------------------------------------
(* The cleanup's steps.                                                    *)

LEMMA PurgePendingBatchKeeps ==
    ASSUME DispatchInv, NEW r \in Recipes, PurgePendingBatch(r)
    PROVE  DispatchInv'
<1> DEFINE x == [row[r] EXCEPT !.state = "purge_pending"]
           p == MkPurge("listed", r, row[r].id, row[r].payload, row[r].result)
<1>0. TypeOK /\ QueueCounted /\ JobsKnow /\ ClientsKnow /\ CleanerKnows
  BY InvParts
<1>1. /\ UNCHANGED <<queued, active, left, run, objects, marks, client, calm>>
      /\ charged' = charged \ {r} /\ cleaner' = p
      /\ row' = [row EXCEPT ![r] = x]
  BY DEF PurgePendingBatch
<1>2. p \in Purges /\ p.recipe = r
  BY <1>0 DEF TypeOK, Rows, MkPurge, Purges
<1> HIDE DEF p
<1>3. x \in Rows /\ x.state = "purge_pending" /\ x.result = row[r].result
  BY <1>0, LeavingRow
<1> HIDE DEF x
<1>4. row[r].state \notin {"leased", "queued"}
  BY DEF PurgePendingBatch, Listed, Purging, Old, In
<1>5. queued' = Uncounted(r)
  BY <1>0, <1>1, <1>4, StaysUncounted
<1>6. row' \in [Recipes -> Rows] /\ queued' \in Int /\ QueueCounted' /\ JobsKnow'
  BY <1>0, <1>1, <1>3, <1>4, <1>5, RowLeaves
<1>7. TypeOK'
  BY <1>0, <1>1, <1>2, <1>6 DEF TypeOK, objects, marks
<1>8. ClientsKnow'
  BY <1>0, <1>1, ClientsKept DEF objects
<1>9. CleanerKnows'
  BY <1>1, <1>2 DEF CleanerKnows
<1> QED
  BY <1>6, <1>7, <1>8, <1>9, InvNext

(* Steps of the cleanup that at most delete objects.                       *)
LEMMA CleanupStep ==
    ASSUME DispatchInv, UNCHANGED <<row, queued, active, left, run, client>>,
           \A k \in Ids : payloads'[k] \subseteq payloads[k],
           \A q \in Recipes, b \in Bundles : results'[q][b] \subseteq results[q][b],
           cleaner' = NoPurge \/ cleaner'.recipe \in Recipes
    PROVE  QueueCounted' /\ JobsKnow' /\ ClientsKnow' /\ CleanerKnows'
<1>0. TypeOK /\ QueueCounted /\ JobsKnow /\ ClientsKnow /\ CleanerKnows
  BY InvParts
<1>1. QueueCounted'
  BY <1>0, CountKept
<1>2. JobsKnow'
  BY <1>0, JobsLoseObjects
<1>3. ClientsKnow'
  BY <1>0, ClientsKept
<1>4. CleanerKnows'
  BY DEF CleanerKnows, NoPurge, MkPurge
<1> QED
  BY <1>1, <1>2, <1>3, <1>4

LEMMA NoPurgeType == NoPurge \in Purges
BY DEF NoPurge, MkPurge, Purges

LEMMA DeletePurgedKeeps ==
    ASSUME DispatchInv, DeletePurged
    PROVE  DispatchInv'
<1> DEFINE p == MkPurge("deleted", cleaner.recipe, cleaner.job, NoId, NoBundle)
<1>0. TypeOK /\ cleaner.recipe \in Recipes
  BY InvParts DEF CleanerKnows, DeletePurged
<1>1. /\ payloads' = WithoutPayload(cleaner.payload)
      /\ results' = WithoutResult(cleaner.recipe, cleaner.result)
      /\ cleaner' = p
      /\ UNCHANGED <<row, queued, active, left, run, marks, client, charged, calm>>
  BY DEF DeletePurged, coordinator
<1>2. p \in Purges /\ p.recipe = cleaner.recipe
  BY <1>0 DEF TypeOK, MkPurge, Purges
<1> HIDE DEF p
<1>3. /\ payloads' \in [Ids -> SUBSET Digests]
      /\ \A k \in Ids : payloads'[k] \subseteq payloads[k]
  BY <1>0, <1>1, WithoutShrinks
<1>4. /\ results' \in [Recipes -> [Bundles -> SUBSET Digests]]
      /\ \A q \in Recipes, b \in Bundles : results'[q][b] \subseteq results[q][b]
  BY <1>0, <1>1, WithoutResultShrinks
<1>5. TypeOK'
  BY <1>0, <1>1, <1>2, <1>3, <1>4 DEF TypeOK, marks
<1>6. QueueCounted' /\ JobsKnow' /\ ClientsKnow' /\ CleanerKnows'
  BY <1>0, <1>1, <1>2, <1>3, <1>4, CleanupStep
<1> QED
  BY <1>5, <1>6, InvNext

LEMMA ConfirmPurgeKeeps ==
    ASSUME DispatchInv, ConfirmPurge
    PROVE  DispatchInv'
<1> DEFINE r == cleaner.recipe
           gone == Names(r, cleaner.job) /\ row[r].state = "purge_pending"
<1>0. TypeOK /\ QueueCounted /\ JobsKnow /\ ClientsKnow /\ CleanerKnows
  BY InvParts
<1>1. r \in Recipes
  BY <1>0 DEF CleanerKnows, ConfirmPurge
<1>2. /\ UNCHANGED <<queued, active, left, run, objects, marks, client, charged, calm>>
      /\ cleaner' = NoPurge
      /\ row' = [row EXCEPT ![r] = IF gone THEN NoRow ELSE @]
  BY DEF ConfirmPurge
<1>3. row' \in [Recipes -> Rows] /\ queued' \in Int /\ QueueCounted' /\ JobsKnow'
  <2>1. CASE ~gone
    <3>1. row' = row
      BY <1>0, <1>2, <2>1 DEF TypeOK
    <3> QED
      BY <1>0, <1>2, <3>1, CountKept, JobsLoseObjects DEF TypeOK, objects
  <2>2. CASE gone
    <3>1. row' = [row EXCEPT ![r] = NoRow]
      BY <1>2, <2>2
    <3>2. queued' = Uncounted(r)
      BY <1>0, <1>1, <1>2, <2>2, StaysUncounted
    <3> QED
      BY <1>0, <1>1, <1>2, <2>2, <3>1, <3>2, GoneRow, RowLeaves
  <2> QED
    BY <2>1, <2>2
<1>4. TypeOK'
  BY <1>0, <1>2, <1>3, NoPurgeType DEF TypeOK, objects, marks
<1>5. ClientsKnow'
  BY <1>0, <1>2, ClientsKept DEF objects
<1>6. CleanerKnows'
  BY <1>2 DEF CleanerKnows, NoPurge, MkPurge
<1> QED
  BY <1>3, <1>4, <1>5, <1>6, InvNext

LEMMA CleanupStopsKeeps ==
    ASSUME DispatchInv, CleanupStops
    PROVE  DispatchInv'
<1>0. TypeOK
  BY InvParts
<1>1. /\ payloads' \in {WithoutPayload(cleaner.payload), payloads}
      /\ cleaner' = NoPurge
      /\ UNCHANGED <<row, queued, active, left, run, results, marks, client,
                     charged, calm>>
  BY DEF CleanupStops, coordinator
<1>2. /\ payloads' \in [Ids -> SUBSET Digests]
      /\ \A k \in Ids : payloads'[k] \subseteq payloads[k]
  BY <1>0, <1>1, WithoutShrinks DEF TypeOK
<1>3. TypeOK'
  BY <1>0, <1>1, <1>2, NoPurgeType DEF TypeOK, marks
<1>4. QueueCounted' /\ JobsKnow' /\ ClientsKnow' /\ CleanerKnows'
  BY <1>1, <1>2, CleanupStep
<1> QED
  BY <1>3, <1>4, InvNext

-----------------------------------------------------------------------------
(* The executors' steps.                                                   *)

(* An executor at work has no result of its own that a row or a client     *)
(* refers to.                                                              *)
LEMMA Engrossed ==
    ASSUME TypeOK, JobsKnow, ClientsKnow, NEW b \in Bundles, run[b] # Idle
    PROVE  /\ \A q \in Recipes : row[q].result # b
           /\ \A c \in Clients : client[c].result # b
BY DEF JobsKnow, RowKnows, ClientsKnow, OpKnows

LEMMA NotIdle ==
    ASSUME NEW b \in Bundles, NEW r \in Recipes, ~At(b, r, "none")
    PROVE  run[b] # Idle
BY IdleType, NoItemType DEF At

(* An executor moves one job on, and perhaps puts its result.              *)
LEMMA ItemWritten ==
    ASSUME DispatchInv, NEW b \in Bundles, NEW r \in Recipes, NEW item \in Items,
           ~At(b, r, "none"), item.stage \notin {"none", "waiting"},
           Moves(b, r, item),
           UNCHANGED <<row, queued, active, left, payloads, client, cleaner>>,
           \A q \in Recipes, k \in Bundles :
              q # r \/ k # b => results'[q][k] = results[q][k],
           item.stage = "calling" =>
              /\ MaxResponse - item.age <= left[b]
              /\ item.digest \in Digests \cap {row[r].digest},
           item.stage = "success" /\ LeasedTo(r, b) =>
              results'[r][b] \subseteq {row[r].digest}
    PROVE  /\ run' \in [Bundles -> [Recipes -> Items]]
           /\ QueueCounted' /\ JobsKnow' /\ ClientsKnow' /\ CleanerKnows'
<1>0. TypeOK /\ QueueCounted /\ JobsKnow /\ ClientsKnow /\ CleanerKnows
  BY InvParts
<1>1. /\ run' \in [Bundles -> [Recipes -> Items]]
      /\ \A k \in Bundles, q \in Recipes :
            run'[k][q] = IF k = b /\ q = r THEN item ELSE run[k][q]
      /\ \A k \in Bundles : k # b => run'[k] = run[k]
  BY <1>0 DEF TypeOK, Moves
<1>2. /\ \A q \in Recipes : row[q].result # b
      /\ \A c \in Clients : client[c].result # b
  BY <1>0, Engrossed, NotIdle
<1>3. QueueCounted'
  BY <1>0, CountKept
<1>4. JobsKnow'
  <2>1. CompletionsHeard'
    BY <1>0 DEF JobsKnow, CompletionsHeard, Expired
  <2>2. ResultAnswersRequest'
    <3> SUFFICES ASSUME NEW q \in Recipes, row[q].state = "completed"
                 PROVE  results'[q][row[q].result] \subseteq {row[q].digest}
      BY DEF ResultAnswersRequest
    <3>1. row[q].result \in Bundles /\ row[q].result # b
      BY <1>0, <1>2 DEF JobsKnow, RowKnows
    <3> QED
      BY <1>0, <3>1 DEF JobsKnow, ResultAnswersRequest
  <2>3. ASSUME NEW q \in Recipes
        PROVE  RowKnows(q)'
    BY <1>0, <1>1, <1>2 DEF JobsKnow, RowKnows
  <2>4. ASSUME NEW k \in Bundles, NEW q \in Recipes
        PROVE  ItemKnows(k, q)'
    <3>1. ItemKnows(k, q)
      BY <1>0 DEF JobsKnow
    <3>2. CASE k = b /\ q = r
      <4>1. run'[b][r] = item
        BY <1>1
      <4> QED
        BY <3>1, <3>2, <4>1 DEF ItemKnows, At, Expired, LeasedTo
    <3>3. CASE k # b \/ q # r
      <4>1. run'[k][q] = run[k][q] /\ results'[q][k] = results[q][k]
        BY <1>1, <3>3
      <4> QED
        BY <3>1, <4>1 DEF ItemKnows, At, Expired, LeasedTo
    <3> QED
      BY <3>2, <3>3
  <2> QED
    BY <2>1, <2>2, <2>3, <2>4 DEF JobsKnow
<1>5. ClientsKnow'
  <2> SUFFICES ASSUME NEW c \in Clients PROVE OpKnows(c)'
    BY DEF ClientsKnow
  <2>1. OpKnows(c) /\ client[c].result # b
    BY <1>0, <1>2 DEF ClientsKnow
  <2>2. client[c].at = "deleted" => client[c].recipe \in Recipes
    BY <2>1 DEF OpKnows
  <2> QED
    BY <1>1, <2>1, <2>2 DEF OpKnows, Posting
<1>6. CleanerKnows'
  BY <1>0 DEF CleanerKnows
<1> QED
  BY <1>1, <1>3, <1>4, <1>5, <1>6

LEMMA EndedType ==
    \A o \in Outcomes : /\ MkItem(o, NoId, NoDigest, 0) \in Items
                        /\ MkItem(o, NoId, NoDigest, 0).stage = o
BY DispatchAssumption, MkItemType DEF Outcomes

LEMMA StartCallKeeps ==
    ASSUME DispatchInv, NEW b \in Bundles, NEW r \in Recipes, StartCall(b, r)
    PROVE  DispatchInv'
<1> DEFINE i == run[b][r].payload
<1>0. TypeOK /\ JobsKnow
  BY InvParts
<1>1. At(b, r, "waiting") /\ ~At(b, r, "none")
  BY DEF StartCall, At
<1>2. UNCHANGED <<row, queued, active, left, payloads, results, marks, client,
                  cleaner, charged, calm>>
  BY DEF StartCall, coordinator, objects
<1>3. PICK item \in Items :
        /\ Moves(b, r, item)
        /\ item.stage \in {"calling", "late", "terminal"}
        /\ item.stage = "calling" =>
              /\ MaxResponse - item.age <= left[b]
              /\ item.digest \in Digests \cap {row[r].digest}
  <2>1. CASE /\ Payload(i) /\ Covers(b)
             /\ \E d \in payloads[i] : Moves(b, r, MkItem("calling", i, d, 0))
    <3>1. PICK d \in payloads[i] : Moves(b, r, MkItem("calling", i, d, 0))
      BY <2>1
    <3>2. left[b] \in -1..Lease /\ MaxResponse <= left[b] /\ ~Expired(b)
      BY <1>0, <2>1, DispatchAssumption DEF TypeOK, Covers, Expired
    <3>3. ItemKnows(b, r) /\ RowKnows(r)
      BY <1>0 DEF JobsKnow
    <3>4. LeasedTo(r, b) /\ i = row[r].payload
      BY <1>1, <3>2, <3>3 DEF ItemKnows
    <3>5. i \in Ids /\ payloads[i] \subseteq {row[r].digest}
      BY <3>3, <3>4 DEF RowKnows, LeasedTo
    <3>6. d = row[r].digest /\ d \in Digests
      BY <1>0, <3>1, <3>5 DEF TypeOK
    <3>7. /\ MkItem("calling", i, d, 0) \in Items
          /\ MkItem("calling", i, d, 0).stage = "calling"
          /\ MkItem("calling", i, d, 0).digest = d
          /\ MkItem("calling", i, d, 0).age = 0
      BY <3>5, <3>6, DispatchAssumption DEF MkItem, Items
    <3>8. MaxResponse - 0 <= left[b]
      BY <3>2, DispatchAssumption
    <3> QED
      BY <3>1, <3>6, <3>7, <3>8
  <2>2. CASE \/ Moves(b, r, MkItem("terminal", NoId, NoDigest, 0))
             \/ Moves(b, r, MkItem("late", NoId, NoDigest, 0))
    BY <2>2, EndedType DEF Outcomes
  <2> QED
    BY <2>1, <2>2 DEF StartCall
<1>4. /\ run' \in [Bundles -> [Recipes -> Items]]
      /\ QueueCounted' /\ JobsKnow' /\ ClientsKnow' /\ CleanerKnows'
  BY <1>1, <1>2, <1>3, ItemWritten
<1>5. TypeOK'
  BY <1>0, <1>2, <1>4 DEF TypeOK, marks
<1> QED
  BY <1>4, <1>5, InvNext

LEMMA AnsweredKeeps ==
    ASSUME DispatchInv, NEW b \in Bundles, NEW r \in Recipes, Answered(b, r)
    PROVE  DispatchInv'
<1> DEFINE item == MkItem("success", NoId, NoDigest, 0)
           d == run[b][r].digest
<1>0. TypeOK /\ JobsKnow
  BY InvParts
<1>1. At(b, r, "calling") /\ ~At(b, r, "none")
  BY DEF Answered, At
<1>2. d \in Digests /\ d = row[r].digest
  BY <1>0, <1>1, CallHolds
<1>3. item \in Items /\ item.stage = "success"
  BY EndedType DEF Outcomes
<1> HIDE DEF item
<1>4. /\ UNCHANGED <<row, queued, active, left, payloads, marks, client,
                     cleaner, charged, calm>>
      /\ Moves(b, r, item)
  BY DEF Answered, coordinator, item
<1>5. /\ results' \in [Recipes -> [Bundles -> SUBSET Digests]]
      /\ results'[r][b] = {d}
      /\ \A q \in Recipes, k \in Bundles :
            q # r \/ k # b => results'[q][k] = results[q][k]
  BY <1>0, <1>2 DEF TypeOK, Answered
<1>6. /\ run' \in [Bundles -> [Recipes -> Items]]
      /\ QueueCounted' /\ JobsKnow' /\ ClientsKnow' /\ CleanerKnows'
  BY <1>1, <1>2, <1>3, <1>4, <1>5, ItemWritten
<1>7. TypeOK'
  BY <1>0, <1>4, <1>5, <1>6 DEF TypeOK, marks
<1> QED
  BY <1>6, <1>7, InvNext

LEMMA CallFailsKeeps ==
    ASSUME DispatchInv, NEW b \in Bundles, NEW r \in Recipes, CallFails(b, r)
    PROVE  DispatchInv'
<1>0. TypeOK
  BY InvParts
<1>1. At(b, r, "calling") /\ ~At(b, r, "none")
  BY DEF CallFails, At
<1>2. UNCHANGED <<row, queued, active, left, payloads, results, marks, client,
                  cleaner, charged, calm>>
  BY DEF CallFails, coordinator, objects
<1>3. PICK item \in Items : /\ Moves(b, r, item)
                            /\ item.stage \in {"transient", "terminal"}
  BY EndedType DEF CallFails, Outcomes
<1>4. /\ run' \in [Bundles -> [Recipes -> Items]]
      /\ QueueCounted' /\ JobsKnow' /\ ClientsKnow' /\ CleanerKnows'
  BY <1>1, <1>2, <1>3, ItemWritten
<1>5. TypeOK'
  BY <1>0, <1>2, <1>4 DEF TypeOK, marks
<1> QED
  BY <1>4, <1>5, InvNext

LEMMA CallAgainKeeps ==
    ASSUME DispatchInv, NEW b \in Bundles, NEW r \in Recipes, CallAgain(b, r)
    PROVE  DispatchInv'
<1>0. TypeOK /\ JobsKnow
  BY InvParts
<1>1. At(b, r, "calling") /\ ~At(b, r, "none")
  BY DEF CallAgain, At
<1>2. UNCHANGED <<row, queued, active, left, payloads, results, marks, client,
                  cleaner, charged, calm>>
  BY DEF CallAgain, coordinator, objects
<1>3. PICK item \in Items :
        /\ Moves(b, r, item)
        /\ item.stage \in {"calling", "late"}
        /\ item.stage = "calling" =>
              /\ MaxResponse - item.age <= left[b]
              /\ item.digest \in Digests \cap {row[r].digest}
  <2>1. CASE Covers(b) /\ Moves(b, r, [run[b][r] EXCEPT !.age = 0])
    <3> DEFINE item == [run[b][r] EXCEPT !.age = 0]
    <3>1. run[b][r] \in Items
      BY <1>0 DEF TypeOK
    <3>2. /\ item \in Items /\ item.stage = "calling" /\ item.age = 0
          /\ item.digest = run[b][r].digest
      BY <1>1, <3>1, DispatchAssumption DEF Items, At
    <3>3. left[b] \in -1..Lease /\ MaxResponse - 0 <= left[b]
      BY <1>0, <2>1, DispatchAssumption DEF TypeOK, Covers
    <3>4. run[b][r].digest \in Digests \cap {row[r].digest}
      BY <1>0, <1>1, CallHolds
    <3> HIDE DEF item
    <3>5. Moves(b, r, item)
      BY <2>1 DEF item
    <3> QED
      BY <3>2, <3>3, <3>4, <3>5
  <2>2. CASE Moves(b, r, MkItem("late", NoId, NoDigest, 0))
    BY <2>2, EndedType DEF Outcomes
  <2> QED
    BY <2>1, <2>2 DEF CallAgain
<1>4. /\ run' \in [Bundles -> [Recipes -> Items]]
      /\ QueueCounted' /\ JobsKnow' /\ ClientsKnow' /\ CleanerKnows'
  BY <1>1, <1>2, <1>3, ItemWritten
<1>5. TypeOK'
  BY <1>0, <1>2, <1>4 DEF TypeOK, marks
<1> QED
  BY <1>4, <1>5, InvNext

-----------------------------------------------------------------------------
(* The windows: recovery, claim and completion.                            *)

LEMMA RecoveredRows ==
    ASSUME TypeOK, NEW r \in Recipes
    PROVE  /\ Recovered[r] \in Rows
           /\ ~Stale(r) => Recovered[r] = row[r]
           /\ Stale(r) => /\ row[r].state = "leased" /\ Recovered[r].state = "queued"
                          /\ Recovered[r].payload = row[r].payload
                          /\ Recovered[r].digest = row[r].digest
           /\ Recovered[r].result = row[r].result
<1>1. row[r] \in Rows /\ row[r].retries \in 0..MaxRetries
  BY DEF TypeOK, Rows
<1>2. Recovered[r] = IF Stale(r) THEN Requeued(row[r], row[r].retries) ELSE row[r]
  BY DEF Recovered
<1> QED
  BY <1>1, <1>2, RequeuedType DEF Stale

(* A row that is leased after the recovery was leased all the time, and    *)
(* its lease has not expired.                                              *)
LEMMA StillLeased ==
    ASSUME TypeOK, NEW r \in Recipes, Recovered[r].state = "leased"
    PROVE  Recovered[r] = row[r] /\ ~Expired(row[r].bundle)
<1>1. ~Stale(r)
  BY RecoveredRows
<1> QED
  BY <1>1, RecoveredRows DEF Stale

LEMMA RecoveredCount ==
    ASSUME TypeOK, QueueCounted
    PROVE  LET Q == {r \in Recipes : Recovered[r].state = "queued"} IN
           /\ IsFiniteSet(Q) /\ Cardinality(Q) \in Nat
           /\ queued + Reaped = Cardinality(Q)
<1> DEFINE Q == {r \in Recipes : Recovered[r].state = "queued"}
           S == {r \in Recipes : Stale(r)}
           P == In("queued")
<1>1. Q = P \cup S
  BY RecoveredRows DEF In
<1>2. P \cap S = {}
  BY DEF In, Stale
<1>3. IsFiniteSet(P) /\ IsFiniteSet(S) /\ IsFiniteSet(Q)
  BY DispatchAssumption, FS_Subset DEF In
<1>4. Cardinality(P) \in Nat /\ Cardinality(S) \in Nat /\ Cardinality(Q) \in Nat
  BY <1>3, FS_CardinalityType
<1>5. Cardinality(P \cup S) = Cardinality(P) + Cardinality(S) - Cardinality({})
  BY <1>2, <1>3, FS_Union
<1>6. queued = Cardinality(P) /\ Reaped = Cardinality(S)
  BY DEF QueueCounted, Reaped
<1> HIDE DEF Q, S, P
<1>7. queued + Reaped = Cardinality(Q)
  BY <1>1, <1>4, <1>5, <1>6, FS_EmptySet
<1> QED
  BY <1>3, <1>4, <1>7 DEF Q

LEMMA ActiveFacts ==
    ASSUME TypeOK, JobsKnow
    PROVE  /\ StillActive \subseteq active
           /\ \A r \in Recipes :
                 Recovered[r].state = "leased" => row[r].bundle \in StillActive
<1>1. ASSUME NEW r \in Recipes, Recovered[r].state = "leased"
      PROVE  row[r].bundle \in StillActive
  <2>1. Recovered[r] = row[r] /\ ~Expired(row[r].bundle)
    BY <1>1, StillLeased
  <2>2. row[r].bundle \in active
    BY <1>1, <2>1 DEF JobsKnow, CompletionsHeard
  <2> QED
    BY <1>1, <2>1, <2>2 DEF StillActive, Dropped, Expired
<1> QED
  BY <1>1 DEF StillActive

LEMMA ClaimNothingKeeps ==
    ASSUME DispatchInv, ClaimNothing
    PROVE  DispatchInv'
<1>0. TypeOK /\ QueueCounted /\ JobsKnow /\ ClientsKnow /\ CleanerKnows
  BY InvParts
<1>1. /\ row' = Recovered /\ active' = StillActive /\ queued' = queued + Reaped
      /\ UNCHANGED <<left, run, payloads, results, marks, client, cleaner,
                     charged, calm>>
  BY DEF ClaimNothing, objects
<1>2. row' \in [Recipes -> Rows]
  <2>1. Recovered = [r \in Recipes |-> Recovered[r]]
    BY DEF Recovered
  <2> QED
    BY <1>0, <1>1, <2>1, RecoveredRows
<1>3. QueueCounted' /\ queued' \in Int
  <2>1. In("queued")' = {r \in Recipes : Recovered[r].state = "queued"}
    BY <1>1 DEF In
  <2> QED
    BY <1>0, <1>1, <2>1, RecoveredCount DEF QueueCounted
<1>4. TypeOK'
  BY <1>0, <1>1, <1>2, <1>3, ActiveFacts DEF TypeOK, marks
<1>5. JobsKnow'
  <2>1. CompletionsHeard'
    BY <1>0, <1>1, StillLeased, ActiveFacts DEF CompletionsHeard, Expired
  <2>2. ResultAnswersRequest'
    BY <1>0, <1>1, RecoveredRows DEF JobsKnow, ResultAnswersRequest
  <2>3. ASSUME NEW r \in Recipes
        PROVE  RowKnows(r)'
    BY <1>0, <1>1, RecoveredRows DEF JobsKnow, RowKnows
  <2>4. ASSUME NEW b \in Bundles, NEW r \in Recipes
        PROVE  ItemKnows(b, r)'
    <3>1. ItemKnows(b, r)
      BY <1>0 DEF JobsKnow
    <3>2. LeasedTo(r, b) /\ ~Expired(b) => Recovered[r] = row[r]
      BY <1>0, RecoveredRows DEF LeasedTo, Stale
    <3>3. LeasedTo(r, b)' => Recovered[r] = row[r]
      BY <1>0, <1>1, StillLeased DEF LeasedTo
    <3>4. At(b, r, "calling") => LeasedTo(r, b) /\ ~Expired(b)
      BY <1>0, CallHolds
    <3> QED
      BY <1>1, <3>1, <3>2, <3>3, <3>4 DEF ItemKnows, At, Expired, LeasedTo
  <2> QED
    BY <2>1, <2>2, <2>3, <2>4 DEF JobsKnow
<1>6. ClientsKnow' /\ CleanerKnows'
  BY <1>0, <1>1, ClientsKept DEF CleanerKnows
<1> QED
  BY <1>3, <1>4, <1>5, <1>6, InvNext

LEMMA ClaimDispatchWindowKeeps ==
    ASSUME DispatchInv, NEW b \in Bundles, NEW jobs \in SUBSET Recipes,
           ClaimDispatchWindow(b, jobs)
    PROVE  DispatchInv'
<1>0. TypeOK /\ QueueCounted /\ JobsKnow /\ ClientsKnow /\ CleanerKnows
  BY InvParts
<1>1. /\ queued' = queued + Reaped - Cardinality(jobs)
      /\ active' = StillActive \cup {b}
      /\ left' = [left EXCEPT ![b] = Lease]
      /\ UNCHANGED <<payloads, marks, client, cleaner, charged, calm>>
      /\ \A r \in jobs : Recovered[r].state = "queued"
  BY DEF ClaimDispatchWindow
<1>2. /\ run[b] = Idle
      /\ \A r \in Recipes : row[r].bundle # b /\ row[r].result # b
      /\ \A c \in Clients : client[c].result # b
  BY DEF ClaimDispatchWindow, FreshBundle
<1>3. ASSUME NEW r \in Recipes
      PROVE  /\ row'[r] \in Rows
             /\ r \notin jobs => row'[r] = Recovered[r]
             /\ r \in jobs => /\ row'[r].state = "leased" /\ row'[r].bundle = b
                              /\ row'[r].payload = Recovered[r].payload
                              /\ row'[r].digest = Recovered[r].digest
             /\ row'[r].result = row[r].result
  <2>1. row'[r] = IF r \in jobs THEN Claims(r, b) ELSE Recovered[r]
    BY DEF ClaimDispatchWindow
  <2>2. Recovered[r] \in Rows /\ Recovered[r].result = row[r].result
    BY <1>0, RecoveredRows
  <2>3. /\ Claims(r, b) \in Rows /\ Claims(r, b).state = "leased"
        /\ Claims(r, b).bundle = b /\ Claims(r, b).payload = Recovered[r].payload
        /\ Claims(r, b).digest = Recovered[r].digest
        /\ Claims(r, b).result = Recovered[r].result
    BY <2>2 DEF Claims, Rows, RowStates
  <2> QED
    BY <2>1, <2>2, <2>3
<1>4. row' \in [Recipes -> Rows]
  <2>1. row' = [r \in Recipes |-> row'[r]]
    BY DEF ClaimDispatchWindow
  <2> QED
    BY <1>3, <2>1
<1>5. QueueCounted' /\ queued' \in Int
  <2> DEFINE Q == {r \in Recipes : Recovered[r].state = "queued"}
  <2>1. In("queued")' = Q \ jobs
    BY <1>3 DEF In
  <2>2. Q \cap jobs = jobs
    BY <1>1
  <2>3. IsFiniteSet(Q) /\ Cardinality(Q) \in Nat /\ queued + Reaped = Cardinality(Q)
    BY <1>0, RecoveredCount
  <2>4. Cardinality(jobs) \in Nat
    BY DispatchAssumption, FS_Subset, FS_CardinalityType
  <2> HIDE DEF Q
  <2>5. Cardinality(Q \ jobs) = Cardinality(Q) - Cardinality(Q \cap jobs)
    BY <2>3, FS_Difference
  <2>6. Cardinality(Q \ jobs) = Cardinality(Q) - Cardinality(jobs)
    BY <2>2, <2>5, Zenon
  <2>7. queued' = Cardinality(Q) - Cardinality(jobs)
    <3>1. queued \in Int
      BY <1>0 DEF TypeOK
    <3>2. Reaped \in Nat
      BY DispatchAssumption, FS_Subset, FS_CardinalityType DEF Reaped
    <3>3. queued' = queued + Reaped - Cardinality(jobs)
      BY <1>1
    <3> QED
      BY <2>3, <2>4, <3>1, <3>2, <3>3
  <2>8. queued' \in Int
    BY <2>3, <2>4, <2>7
  <2> QED
    BY <2>1, <2>6, <2>7, <2>8, Zenon DEF QueueCounted
<1>6. /\ run' \in [Bundles -> [Recipes -> Items]]
      /\ \A k \in Bundles : k # b => run'[k] = run[k]
      /\ \A r \in Recipes : r \notin jobs => run'[b][r].stage = "none"
      /\ \A r \in jobs : /\ run'[b][r].stage = "waiting"
                          /\ run'[b][r].payload = row[r].payload
  <2> DEFINE new == [r \in Recipes |->
                       IF r \in jobs
                       THEN MkItem("waiting", row[r].payload, NoDigest, 0) ELSE NoItem]
  <2>1. run' = [run EXCEPT ![b] = new]
    BY DEF ClaimDispatchWindow
  <2>2. \A r \in Recipes : row[r].payload \in Ids \cup {NoId}
    BY <1>0 DEF TypeOK, Rows
  <2>3. \A r \in Recipes :
          /\ new[r] \in Items
          /\ r \notin jobs => new[r].stage = "none"
          /\ r \in jobs => /\ new[r].stage = "waiting"
                           /\ new[r].payload = row[r].payload
    BY <2>2, NoItemType, DispatchAssumption DEF MkItem, Items
  <2>4. new \in [Recipes -> Items]
    BY <2>3
  <2>5. run'[b] = new
    BY <1>0, <2>1 DEF TypeOK
  <2> HIDE DEF new
  <2>6. run' \in [Bundles -> [Recipes -> Items]]
        /\ \A k \in Bundles : k # b => run'[k] = run[k]
    BY <1>0, <2>1, <2>4 DEF TypeOK
  <2> QED
    BY <2>3, <2>5, <2>6
<1>7. /\ results' \in [Recipes -> [Bundles -> SUBSET Digests]]
      /\ \A q \in Recipes, k \in Bundles : results'[q][k] \subseteq results[q][k]
  BY <1>0 DEF TypeOK, ClaimDispatchWindow
<1>8. left' \in [Bundles -> -1..Lease] /\ \A k \in Bundles : k # b => left'[k] = left[k]
  BY <1>0, <1>1, DispatchAssumption DEF TypeOK
<1>9. TypeOK'
  BY <1>0, <1>1, <1>4, <1>5, <1>6, <1>7, <1>8, ActiveFacts DEF TypeOK, marks
<1>10. JobsKnow'
  <2>1. CompletionsHeard'
    <3> SUFFICES ASSUME NEW r \in Recipes, row'[r].state = "leased"
                 PROVE  row'[r].bundle \in active'
      BY DEF CompletionsHeard
    <3>1. CASE r \in jobs
      BY <1>1, <1>3, <3>1
    <3>2. CASE r \notin jobs
      BY <1>0, <1>1, <1>3, <3>2, StillLeased, ActiveFacts
    <3> QED
      BY <3>1, <3>2
  <2>2. ResultAnswersRequest'
    <3> SUFFICES ASSUME NEW r \in Recipes, row'[r].state = "completed"
                 PROVE  results'[r][row'[r].result] \subseteq {row'[r].digest}
      BY DEF ResultAnswersRequest
    <3>1. row'[r] = row[r]
      BY <1>0, <1>3, RecoveredRows
    <3>2. row[r].result \in Bundles
      BY <1>0, <3>1 DEF JobsKnow, RowKnows
    <3> QED
      BY <1>0, <1>7, <3>1, <3>2 DEF JobsKnow, ResultAnswersRequest
  <2>3. ASSUME NEW r \in Recipes
        PROVE  RowKnows(r)'
    <3>1. RowKnows(r)
      BY <1>0 DEF JobsKnow
    <3>2. \A k \in Bundles : row'[r].result = k => run'[k] = Idle
      BY <1>2, <1>3, <1>6, <3>1 DEF RowKnows
    <3>3. CASE r \in jobs
      <4>1. /\ row[r].state \in {"queued", "leased"}
            /\ row'[r].payload = row[r].payload /\ row'[r].digest = row[r].digest
        BY <1>0, <1>1, <1>3, <3>3, RecoveredRows
      <4> QED
        BY <1>1, <1>3, <3>1, <3>2, <3>3, <4>1 DEF RowKnows
    <3>4. CASE r \notin jobs
      BY <1>0, <1>1, <1>3, <3>1, <3>2, <3>4, RecoveredRows DEF RowKnows
    <3> QED
      BY <3>3, <3>4
  <2>4. ASSUME NEW k \in Bundles, NEW r \in Recipes
        PROVE  ItemKnows(k, r)'
    <3>1. ItemKnows(k, r)
      BY <1>0 DEF JobsKnow
    <3>2. CASE k = b
      <4>1. CASE r \in jobs
        <5>1. row'[r].payload = row[r].payload /\ LeasedTo(r, b)'
          BY <1>0, <1>1, <1>3, <4>1, RecoveredRows DEF LeasedTo
        <5> QED
          BY <1>6, <3>2, <4>1, <5>1 DEF ItemKnows, At
      <4>2. CASE r \notin jobs
        BY <1>6, <3>2, <4>2 DEF ItemKnows, At
      <4> QED
        BY <4>1, <4>2
    <3>3. CASE k # b
      <4>1. LeasedTo(r, k) /\ ~Expired(k) => row'[r] = row[r]
        <5> SUFFICES ASSUME LeasedTo(r, k), ~Expired(k) PROVE row'[r] = row[r]
          OBVIOUS
        <5>1. ~Stale(r) /\ Recovered[r] = row[r]
          BY <1>0, RecoveredRows DEF LeasedTo, Stale
        <5>2. r \notin jobs
          BY <1>1, <5>1 DEF LeasedTo
        <5> QED
          BY <1>3, <5>1, <5>2
      <4>2. LeasedTo(r, k)' => row'[r] = row[r]
        <5> SUFFICES ASSUME row'[r].state = "leased", row'[r].bundle = k
                     PROVE  row'[r] = row[r]
          BY DEF LeasedTo
        <5>1. r \notin jobs
          BY <1>3, <3>3
        <5> QED
          BY <1>0, <1>3, <5>1, StillLeased
      <4>3. At(k, r, "calling") => LeasedTo(r, k) /\ ~Expired(k)
        BY <1>0, CallHolds
      <4>4. run'[k] = run[k] /\ left'[k] = left[k]
        BY <1>6, <1>8, <3>3
      <4>5. results'[r][k] \subseteq results[r][k]
        BY <1>7
      <4> QED
        BY <3>1, <4>1, <4>2, <4>3, <4>4, <4>5 DEF ItemKnows, At, Expired, LeasedTo
    <3> QED
      BY <3>2, <3>3
  <2> QED
    BY <2>1, <2>2, <2>3, <2>4 DEF JobsKnow
<1>11. ClientsKnow'
  <2> SUFFICES ASSUME NEW c \in Clients PROVE OpKnows(c)'
    BY DEF ClientsKnow
  <2>1. OpKnows(c) /\ client[c].result # b
    BY <1>0, <1>2 DEF ClientsKnow
  <2>2. client[c].at = "deleted" => client[c].recipe \in Recipes
    BY <2>1 DEF OpKnows
  <2>3. \A k \in Bundles :
           client[c].result = k /\ client[c].at = "deleted"
             => results'[client[c].recipe][k] = {}
    BY <1>7, <2>1, <2>2 DEF OpKnows
  <2> QED
    BY <1>1, <1>6, <2>1, <2>3 DEF OpKnows, Posting
<1>12. CleanerKnows'
  BY <1>0, <1>1 DEF CleanerKnows
<1> QED
  BY <1>5, <1>9, <1>10, <1>11, <1>12, InvNext

LEMMA SettledRows ==
    ASSUME TypeOK, NEW b \in Bundles, NEW r \in Reported(b)
    PROVE  LET x == SettledRow(r, b, run[b][r].stage) IN
           /\ x \in Rows /\ x.digest = row[r].digest
           /\ x.state \in {"completed", "queued", "failed"}
           /\ x.state = "completed" => x.result = b /\ At(b, r, "success")
           /\ x.state = "queued" => /\ x.payload = row[r].payload
                                    /\ x.result = row[r].result
           /\ x.state = "failed" => x.result = NoBundle
           /\ x.state = "queued" <=> r \in Returned(b)
<1> DEFINE o == run[b][r].stage
           x == SettledRow(r, b, o)
           n == row[r].retries + Bit(o = "transient")
<1>1. /\ r \in Recipes /\ row[r] \in Rows /\ row[r].retries \in 0..MaxRetries
      /\ row[r].state = "leased" /\ o \in Outcomes
  BY DEF Reported, LeasedTo, TypeOK, Rows
<1>2. CASE o = "success"
  <2>1. x = Settled(row[r], "completed", b)
    BY <1>2 DEF SettledRow
  <2>2. r \notin Returned(b)
    BY <1>2 DEF Returned, Retried
  <2>3. "completed" \in RowStates /\ At(b, r, "success")
    BY <1>2 DEF RowStates, At
  <2> HIDE DEF x
  <2>4. /\ x \in Rows /\ x.state = "completed"
        /\ x.digest = row[r].digest /\ x.result = b
    BY <1>1, <2>1, <2>3, SettledType
  <2>5. /\ x.state # "queued" /\ x.state # "failed"
        /\ x.state \in {"completed", "queued", "failed"}
    BY <2>4
  <2> QED
    BY <2>2, <2>3, <2>4, <2>5 DEF x
<1>3. CASE o # "success" /\ Retried(r, o)
  <2>1. x = Requeued(row[r], n)
    BY <1>3 DEF SettledRow
  <2>2. r \in Returned(b)
    BY <1>1, <1>3 DEF Returned
  <2>3. n \in 0..MaxRetries
    <3>1. CASE o = "transient"
      <4>1. Bit(o = "transient") = 1 /\ row[r].retries < MaxRetries
        BY <1>3, <3>1 DEF Bit, Retried
      <4> QED
        BY <1>1, <4>1, DispatchAssumption
    <3>2. CASE o # "transient"
      <4>1. Bit(o = "transient") = 0
        BY <3>2 DEF Bit
      <4> QED
        BY <1>1, <4>1, DispatchAssumption
    <3> QED
      BY <3>1, <3>2
  <2> HIDE DEF x, n
  <2> QED
    BY <1>1, <2>1, <2>2, <2>3, RequeuedType DEF x
<1>4. CASE o # "success" /\ ~Retried(r, o)
  <2>1. x = Settled(row[r], "failed", NoBundle)
    BY <1>4 DEF SettledRow
  <2>2. r \notin Returned(b)
    BY <1>4 DEF Returned
  <2>3. "failed" \in RowStates
    BY DEF RowStates
  <2> HIDE DEF x
  <2>4. /\ x \in Rows /\ x.state = "failed"
        /\ x.digest = row[r].digest /\ x.result = NoBundle
    BY <1>1, <2>1, <2>3, SettledType
  <2>5. /\ x.state # "queued" /\ x.state # "completed"
        /\ x.state \in {"completed", "queued", "failed"}
    BY <2>4
  <2> QED
    BY <2>2, <2>4, <2>5 DEF x
<1> QED
  BY <1>2, <1>3, <1>4

LEMMA CompleteBatchKeeps ==
    ASSUME DispatchInv, NEW b \in Bundles, CompleteBatch(b)
    PROVE  DispatchInv'
<1> DEFINE R == Reported(b)
<1>0. TypeOK /\ QueueCounted /\ JobsKnow /\ ClientsKnow /\ CleanerKnows
  BY InvParts
<1>1. /\ run' = [run EXCEPT ![b] = Idle]
      /\ UNCHANGED <<payloads, results, marks, client, cleaner, charged, calm>>
  BY DEF CompleteBatch, objects
<1>2. /\ row' \in [Recipes -> Rows] /\ queued' \in Int /\ QueueCounted'
      /\ active' \subseteq active /\ active \ {b} \subseteq active'
      /\ \A r \in Recipes : LeasedTo(r, b)' /\ b \in active => b \in active'
      /\ \A r \in Recipes :
            \/ row'[r] = row[r]
            \/ r \in R /\ row'[r] = SettledRow(r, b, run[b][r].stage)
  <2>1. CASE b \in active
    <3>1. /\ row' = [r \in Recipes |->
                IF r \in R THEN SettledRow(r, b, run[b][r].stage) ELSE row[r]]
          /\ queued' = queued + Cardinality(Returned(b))
          /\ active' = IF R # {} /\ \A r \in Recipes : row'[r].state = "leased"
                                                        => row'[r].bundle # b
                       THEN active \ {b} ELSE active
      BY <2>1 DEF CompleteBatch
    <3>2. R \subseteq Recipes /\ Returned(b) \subseteq R
      BY DEF Reported, Returned
    <3>3. row' \in [Recipes -> Rows]
      BY <1>0, <3>1, SettledRows DEF TypeOK
    <3>4. QueueCounted' /\ queued' \in Int
      <4> DEFINE P == In("queued")
                 S == Returned(b)
      <4>1. In("queued")' = P \cup S
        <5> SUFFICES ASSUME NEW r \in Recipes
                     PROVE  row'[r].state = "queued" <=> row[r].state = "queued" \/ r \in S
          BY <3>2 DEF In
        <5>1. CASE r \in R
          <6>1. row[r].state = "leased"
            BY <5>1 DEF Reported, LeasedTo
          <6> QED
            BY <1>0, <3>1, <5>1, <6>1, SettledRows
        <5>2. CASE r \notin R
          BY <3>1, <3>2, <5>2
        <5> QED
          BY <5>1, <5>2
      <4>2. P \cap S = {}
        BY DEF In, Returned, Reported, LeasedTo
      <4>3. IsFiniteSet(P) /\ IsFiniteSet(S)
        BY <3>2, DispatchAssumption, FS_Subset DEF In
      <4>4. queued = Cardinality(P) /\ queued' = queued + Cardinality(S)
        BY <1>0, <3>1 DEF QueueCounted
      <4> HIDE DEF P, S
      <4>5. Cardinality(P) \in Nat /\ Cardinality(S) \in Nat
        BY <4>3, FS_CardinalityType
      <4>6. Cardinality(P \cup S) = Cardinality(P) + Cardinality(S) - Cardinality({})
        BY <4>2, <4>3, FS_Union
      <4>7. queued' = Cardinality(P \cup S) /\ queued' \in Int
        BY <4>4, <4>5, <4>6, FS_EmptySet
      <4> QED
        BY <4>1, <4>7 DEF QueueCounted
    <3> QED
      BY <3>1, <3>3, <3>4 DEF LeasedTo
  <2>2. CASE b \notin active
    <3>1. UNCHANGED <<row, queued, active>>
      BY <2>2 DEF CompleteBatch, coordinator
    <3> QED
      BY <1>0, <2>2, <3>1, CountKept DEF TypeOK
  <2> QED
    BY <2>1, <2>2
<1>3. /\ left' \in [Bundles -> -1..Lease]
      /\ \A k \in Bundles : k # b => left'[k] = left[k]
      /\ \A k \in Bundles : ~(left'[k] < 0) => ~(left[k] < 0)
      /\ ~(left'[b] < 0) => b \in active'
  BY <1>0, DispatchAssumption DEF TypeOK, CompleteBatch
<1>4. /\ run' \in [Bundles -> [Recipes -> Items]] /\ run'[b] = Idle
      /\ \A k \in Bundles : k # b => run'[k] = run[k]
  BY <1>0, <1>1, IdleType DEF TypeOK
<1>5. TypeOK'
  BY <1>0, <1>1, <1>2, <1>3, <1>4 DEF TypeOK, marks
<1>6. \A r \in Recipes : row'[r].state = "leased" => row'[r] = row[r]
  BY <1>0, <1>2, SettledRows
<1>7. JobsKnow'
  <2>1. CompletionsHeard'
    <3> SUFFICES ASSUME NEW r \in Recipes, row'[r].state = "leased",
                        ~(left'[row'[r].bundle] < 0)
                 PROVE  row'[r].bundle \in active'
      BY DEF CompletionsHeard, Expired
    <3>1. row'[r] = row[r] /\ row[r].bundle \in Bundles
      BY <1>0, <1>6 DEF JobsKnow, RowKnows
    <3>2. ~(left[row[r].bundle] < 0)
      BY <1>3, <3>1
    <3>3. row[r].bundle \in active
      BY <1>0, <3>1, <3>2 DEF JobsKnow, CompletionsHeard, Expired
    <3>4. CASE row[r].bundle = b
      BY <1>3, <3>1, <3>4
    <3>5. CASE row[r].bundle # b
      BY <1>2, <3>1, <3>3, <3>5
    <3> QED
      BY <3>4, <3>5
  <2>2. ResultAnswersRequest'
    <3> SUFFICES ASSUME NEW r \in Recipes, row'[r].state = "completed"
                 PROVE  results[r][row'[r].result] \subseteq {row'[r].digest}
      BY <1>1 DEF ResultAnswersRequest
    <3>1. CASE row'[r] = row[r]
      BY <1>0, <3>1 DEF JobsKnow, ResultAnswersRequest
    <3>2. CASE r \in R /\ row'[r] = SettledRow(r, b, run[b][r].stage)
      <4>1. /\ row'[r].result = b /\ At(b, r, "success")
            /\ row'[r].digest = row[r].digest
        BY <1>0, <3>2, SettledRows
      <4>2. LeasedTo(r, b) /\ ItemKnows(b, r)
        BY <1>0, <3>2 DEF Reported, JobsKnow
      <4> QED
        BY <4>1, <4>2 DEF ItemKnows
    <3> QED
      BY <1>2, <3>1, <3>2
  <2>3. ASSUME NEW r \in Recipes
        PROVE  RowKnows(r)'
    <3>1. RowKnows(r)
      BY <1>0 DEF JobsKnow
    <3>2. CASE row'[r] = row[r]
      BY <1>1, <1>4, <3>1, <3>2 DEF RowKnows
    <3>3. CASE r \in R /\ row'[r] = SettledRow(r, b, run[b][r].stage)
      <4>1. row[r].state = "leased"
        BY <3>3 DEF Reported, LeasedTo
      <4>2. /\ row'[r].digest = row[r].digest
            /\ row'[r].state \in {"completed", "queued", "failed"}
            /\ row'[r].state = "completed" => row'[r].result = b
            /\ row'[r].state = "queued" => /\ row'[r].payload = row[r].payload
                                           /\ row'[r].result = row[r].result
            /\ row'[r].state = "failed" => row'[r].result = NoBundle
        BY <1>0, <3>3, SettledRows
      <4>3. \A k \in Bundles : row'[r].result = k => run'[k] = Idle
        BY <1>4, <3>1, <4>2, DispatchAssumption DEF RowKnows
      <4> QED
        BY <1>1, <3>1, <4>1, <4>2, <4>3 DEF RowKnows
    <3> QED
      BY <1>2, <3>2, <3>3
  <2>4. ASSUME NEW k \in Bundles, NEW r \in Recipes
        PROVE  ItemKnows(k, r)'
    <3>1. CASE k = b
      <4>1. run'[k][r].stage = "none"
        BY <1>4, <3>1, IdleType, NoItemType
      <4> QED
        BY <4>1 DEF ItemKnows, At
    <3>2. CASE k # b
      <4>1. ItemKnows(k, r)
        BY <1>0 DEF JobsKnow
      <4>2. LeasedTo(r, k) => row'[r] = row[r]
        BY <1>2, <3>2 DEF LeasedTo, Reported
      <4>3. LeasedTo(r, k)' => row'[r] = row[r]
        BY <1>6 DEF LeasedTo
      <4>4. At(k, r, "calling") => LeasedTo(r, k)
        BY <1>0, CallHolds
      <4>5. run'[k] = run[k] /\ left'[k] = left[k]
        BY <1>3, <1>4, <3>2
      <4> QED
        BY <1>1, <4>1, <4>2, <4>3, <4>4, <4>5 DEF ItemKnows, At, Expired, LeasedTo
    <3> QED
      BY <3>1, <3>2
  <2> QED
    BY <2>1, <2>2, <2>3, <2>4 DEF JobsKnow
<1>8. ClientsKnow'
  BY <1>0, <1>1, <1>4 DEF ClientsKnow, OpKnows, Posting
<1>9. CleanerKnows'
  BY <1>0, <1>1 DEF CleanerKnows
<1> QED
  BY <1>2, <1>5, <1>7, <1>8, <1>9, InvNext

LEMMA ExecutorStopsKeeps ==
    ASSUME DispatchInv, NEW b \in Bundles, ExecutorStops(b)
    PROVE  DispatchInv'
<1>0. TypeOK /\ QueueCounted /\ JobsKnow /\ ClientsKnow /\ CleanerKnows
  BY InvParts
<1>1. /\ run' = [run EXCEPT ![b] = Idle]
      /\ UNCHANGED <<row, queued, active, left, payloads, results, marks, client,
                     cleaner, charged, calm>>
  BY DEF ExecutorStops, coordinator, objects
<1>2. /\ run' \in [Bundles -> [Recipes -> Items]] /\ run'[b] = Idle
      /\ \A k \in Bundles : k # b => run'[k] = run[k]
  BY <1>0, <1>1, IdleType DEF TypeOK
<1>3. TypeOK'
  BY <1>0, <1>1, <1>2 DEF TypeOK, marks
<1>4. QueueCounted'
  BY <1>0, <1>1, CountKept
<1>5. JobsKnow'
  <2>1. CompletionsHeard' /\ ResultAnswersRequest'
    BY <1>0, <1>1 DEF JobsKnow, CompletionsHeard, Expired, ResultAnswersRequest
  <2>2. ASSUME NEW r \in Recipes
        PROVE  RowKnows(r)'
    BY <1>0, <1>1, <1>2 DEF JobsKnow, RowKnows
  <2>3. ASSUME NEW k \in Bundles, NEW r \in Recipes
        PROVE  ItemKnows(k, r)'
    <3>1. CASE k = b
      <4>1. run'[k][r].stage = "none"
        BY <1>2, <3>1, IdleType, NoItemType
      <4> QED
        BY <4>1 DEF ItemKnows, At
    <3>2. CASE k # b
      BY <1>0, <1>1, <1>2, <3>2 DEF JobsKnow, ItemKnows, At, Expired, LeasedTo
    <3> QED
      BY <3>1, <3>2
  <2> QED
    BY <2>1, <2>2, <2>3 DEF JobsKnow
<1>6. ClientsKnow' /\ CleanerKnows'
  BY <1>0, <1>1, <1>2 DEF ClientsKnow, OpKnows, Posting, CleanerKnows
<1> QED
  BY <1>3, <1>4, <1>5, <1>6, InvNext

LEMMA TickKeeps ==
    ASSUME DispatchInv, Tick
    PROVE  DispatchInv'
<1>0. TypeOK /\ QueueCounted /\ JobsKnow /\ ClientsKnow /\ CleanerKnows
  BY InvParts
<1>1. UNCHANGED <<row, queued, active, payloads, results, marks, client, cleaner,
                  charged, calm>>
  BY DEF Tick, coordinator, objects
<1>2. /\ left' \in [Bundles -> -1..Lease]
      /\ \A b \in Bundles : left'[b] = IF left[b] < 0 THEN -1 ELSE left[b] - 1
      /\ \A b \in Bundles : ~Expired(b)' => ~Expired(b)
  BY <1>0, DispatchAssumption DEF TypeOK, Tick, Expired
<1>3. ASSUME NEW b \in Bundles, NEW r \in Recipes
      PROVE  /\ run'[b][r] \in Items
             /\ ~At(b, r, "calling") => run'[b][r] = run[b][r]
             /\ At(b, r, "calling") =>
                   /\ run'[b][r].stage = "calling"
                   /\ run'[b][r].digest = run[b][r].digest
                   /\ run[b][r].age \in 0..(MaxResponse - 1)
                   /\ run'[b][r].age = run[b][r].age + 1
  <2>1. run[b][r] \in Items
    BY <1>0 DEF TypeOK
  <2>2. run'[b][r] = IF At(b, r, "calling") THEN [run[b][r] EXCEPT !.age = @ + 1]
                                            ELSE run[b][r]
    BY DEF Tick
  <2>3. At(b, r, "calling") => run[b][r].age < MaxResponse
    BY DEF Tick
  <2> QED
    BY <2>1, <2>2, <2>3, DispatchAssumption DEF Items, At
<1>4. run' \in [Bundles -> [Recipes -> Items]]
  <2>1. run' = [b \in Bundles |-> [r \in Recipes |-> run'[b][r]]]
    BY DEF Tick
  <2> QED
    BY <1>3, <2>1
<1>5. ASSUME NEW b \in Bundles, run[b] = Idle
      PROVE  run'[b] = Idle
  <2>1. \A r \in Recipes : run'[b][r] = Idle[r]
    BY <1>3, <1>5, IdleType, NoItemType DEF At
  <2>2. run'[b] \in [Recipes -> Items] /\ Idle \in [Recipes -> Items]
    BY <1>4, IdleType
  <2> QED
    BY <2>1, <2>2
<1>6. TypeOK'
  BY <1>0, <1>1, <1>2, <1>4 DEF TypeOK, marks
<1>7. QueueCounted'
  BY <1>0, <1>1, CountKept
<1>8. JobsKnow'
  <2>1. CompletionsHeard'
    <3> SUFFICES ASSUME NEW r \in Recipes, row[r].state = "leased",
                        ~Expired(row[r].bundle)'
                 PROVE  row[r].bundle \in active
      BY <1>1 DEF CompletionsHeard
    <3>1. row[r].bundle \in Bundles
      BY <1>0 DEF JobsKnow, RowKnows
    <3>2. ~Expired(row[r].bundle)
      BY <1>1, <1>2, <3>1
    <3> QED
      BY <1>0, <3>2 DEF JobsKnow, CompletionsHeard
  <2>2. ResultAnswersRequest'
    BY <1>0, <1>1 DEF JobsKnow, ResultAnswersRequest
  <2>3. ASSUME NEW r \in Recipes
        PROVE  RowKnows(r)'
    BY <1>0, <1>1, <1>5 DEF JobsKnow, RowKnows
  <2>4. ASSUME NEW b \in Bundles, NEW r \in Recipes
        PROVE  ItemKnows(b, r)'
    <3>1. ItemKnows(b, r)
      BY <1>0 DEF JobsKnow
    <3>2. CASE At(b, r, "calling")
      <4>1. /\ LeasedTo(r, b) /\ run[b][r].digest \in Digests \cap {row[r].digest}
            /\ MaxResponse - run[b][r].age <= left[b]
        BY <1>0, <3>2, CallHolds
      <4>2. left[b] \in -1..Lease
        BY <1>0 DEF TypeOK
      <4>3. MaxResponse - run'[b][r].age <= left'[b]
        BY <1>2, <1>3, <3>2, <4>1, <4>2, DispatchAssumption
      <4> QED
        BY <1>1, <1>3, <3>2, <4>1, <4>3 DEF ItemKnows, At, LeasedTo
    <3>3. CASE ~At(b, r, "calling")
      <4>1. run'[b][r] = run[b][r]
        BY <1>3, <3>3
      <4> QED
        BY <1>1, <1>2, <3>1, <3>3, <4>1 DEF ItemKnows, At, LeasedTo
    <3> QED
      BY <3>2, <3>3
  <2> QED
    BY <2>1, <2>2, <2>3, <2>4 DEF JobsKnow
<1>9. ClientsKnow' /\ CleanerKnows'
  BY <1>0, <1>1, <1>5 DEF ClientsKnow, OpKnows, Posting, CleanerKnows
<1> QED
  BY <1>6, <1>7, <1>8, <1>9, InvNext

LEMMA NothingKeeps ==
    ASSUME DispatchInv, CalmDown \/ UNCHANGED vars
    PROVE  DispatchInv'
<1>0. TypeOK /\ QueueCounted /\ JobsKnow /\ ClientsKnow /\ CleanerKnows
  BY InvParts
<1>1. /\ UNCHANGED <<row, queued, active, left, run, payloads, results, marks,
                     client, cleaner, charged>>
      /\ calm' \in {calm, TRUE}
  BY DEF CalmDown, vars, coordinator, objects, marks
<1>2. TypeOK'
  BY <1>0, <1>1 DEF TypeOK, marks
<1>3. QueueCounted' /\ JobsKnow'
  BY <1>0, <1>1, CountKept, JobsLoseObjects
<1>4. ClientsKnow' /\ CleanerKnows'
  BY <1>0, <1>1, ClientsKept DEF CleanerKnows
<1> QED
  BY <1>2, <1>3, <1>4, InvNext

-----------------------------------------------------------------------------
(* The invariant.                                                          *)

LEMMA InitInv == Init => DispatchInv
<1> SUFFICES ASSUME Init
             PROVE  DispatchInv
  OBVIOUS
<1>1. /\ \A r \in Recipes : row[r] \in Rows /\ row[r].state = "absent"
      /\ \A r \in Recipes : row[r].result = NoBundle
      /\ \A b \in Bundles : run[b] = Idle
      /\ \A c \in Clients : client[c] = Rest
      /\ cleaner \in Purges /\ cleaner.at = "idle"
  BY NoRowType DEF Init, NoRow, MkRow, NoPurge, MkPurge, Purges
<1>2. TypeOK
  <2>1. /\ row \in [Recipes -> Rows] /\ queued \in Int /\ active \subseteq Bundles
        /\ left \in [Bundles -> -1..Lease]
    BY <1>1, DispatchAssumption DEF Init
  <2>2. run \in [Bundles -> [Recipes -> Items]]
    BY IdleType DEF Init
  <2>3. /\ payloads \in [Ids -> SUBSET Digests]
        /\ results \in [Recipes -> [Bundles -> SUBSET Digests]]
    BY DEF Init
  <2>4. /\ record \in [Recipes -> Records] /\ failures \in [Recipes -> 0..MaxFailures]
    BY DispatchAssumption DEF Init, NoRecord, MkRecord, Records
  <2>5. client \in [Clients -> Ops] /\ charged \subseteq Recipes /\ calm \in BOOLEAN
    BY RestType DEF Init
  <2> QED
    BY <1>1, <2>1, <2>2, <2>3, <2>4, <2>5 DEF TypeOK
<1>3. QueueCounted
  <2>1. In("queued") = {}
    BY <1>1 DEF In
  <2> QED
    BY <2>1, FS_EmptySet DEF QueueCounted, Init
<1>4. JobsKnow
  <2>1. CompletionsHeard /\ ResultAnswersRequest
    BY <1>1 DEF CompletionsHeard, ResultAnswersRequest
  <2>2. \A r \in Recipes : RowKnows(r)
    BY <1>1 DEF RowKnows
  <2>3. ASSUME NEW b \in Bundles, NEW r \in Recipes
        PROVE  ItemKnows(b, r)
    <3>1. run[b][r].stage = "none"
      BY <1>1, IdleType, NoItemType
    <3> QED
      BY <3>1 DEF ItemKnows, At
  <2> QED
    BY <2>1, <2>2, <2>3 DEF JobsKnow
<1>5. ClientsKnow
  BY <1>1, RestType, DispatchAssumption DEF ClientsKnow, OpKnows, Posting
<1>6. CleanerKnows
  BY <1>1 DEF CleanerKnows
<1> QED
  BY <1>2, <1>3, <1>4, <1>5, <1>6, InvParts

LEMMA ClientsKeep ==
    ASSUME DispatchInv, NEW c \in Clients, Requests(c) \/ Follows(c)
    PROVE  DispatchInv'
<1>1. CASE Requests(c)
  <2>1. CASE \E r \in Recipes, i \in Ids, d \in Digests : Submit(c, r, i, d)
    BY <2>1, SubmitKeeps
  <2>2. CASE PostAccepted(c)
    BY <2>2, PostAcceptedKeeps
  <2>3. CASE PostLost(c)
    BY <2>3, PostLostKeeps
  <2>4. CASE PostDeferred(c)
    BY <2>4, PostDeferredKeeps
  <2>5. CASE PostConflicts(c)
    BY <2>5, PostConflictsKeeps
  <2>6. CASE KeepHandle(c)
    BY <2>6, KeepHandleKeeps
  <2> QED
    BY <1>1, <2>1, <2>2, <2>3, <2>4, <2>5, <2>6 DEF Requests
<1>2. CASE Follows(c)
  <2>1. CASE \E r \in Recipes : Poll(c, r) \/ CancelBatch(c, r)
    BY <2>1, PollKeeps, CancelBatchKeeps
  <2>2. CASE Resolve(c)
    BY <2>2, ResolveKeeps
  <2>3. CASE DeleteObjects(c)
    BY <2>3, DeleteObjectsKeeps
  <2>4. CASE DeleteFails(c)
    BY <2>4, DeleteFailsKeeps
  <2>5. CASE RetireConsumed(c)
    BY <2>5, RetireConsumedKeeps
  <2>6. CASE AckResults(c)
    BY <2>6, AckResultsKeeps
  <2>7. CASE DiscardFailed(c)
    BY <2>7, DiscardFailedKeeps
  <2>8. CASE DiscardDropped(c)
    BY <2>8, DiscardDroppedKeeps
  <2>9. CASE ClientStops(c)
    BY <2>9, ClientStopsKeeps
  <2> QED
    BY <1>2, <2>1, <2>2, <2>3, <2>4, <2>5, <2>6, <2>7, <2>8, <2>9 DEF Follows
<1> QED
  BY <1>1, <1>2

LEMMA ExecutorsKeep ==
    ASSUME DispatchInv, NEW b \in Bundles, Executes(b)
    PROVE  DispatchInv'
<1>1. CASE \E jobs \in SUBSET Recipes : ClaimDispatchWindow(b, jobs)
  BY <1>1, ClaimDispatchWindowKeeps
<1>2. ASSUME NEW r \in Recipes,
             \/ StartCall(b, r) \/ Answered(b, r)
             \/ CallFails(b, r) \/ CallAgain(b, r)
      PROVE  DispatchInv'
  BY <1>2, StartCallKeeps, AnsweredKeeps, CallFailsKeeps, CallAgainKeeps
<1>3. CASE CompleteBatch(b)
  BY <1>3, CompleteBatchKeeps
<1>4. CASE ExecutorStops(b)
  BY <1>4, ExecutorStopsKeeps
<1> QED
  BY <1>1, <1>2, <1>3, <1>4 DEF Executes

LEMMA StepKeeps == DispatchInv /\ [Next]_vars => DispatchInv'
<1> SUFFICES ASSUME DispatchInv, [Next]_vars
             PROVE  DispatchInv'
  OBVIOUS
<1>1. CASE \E c \in Clients : Requests(c) \/ Follows(c)
  BY <1>1, ClientsKeep
<1>2. CASE ClaimNothing
  BY <1>2, ClaimNothingKeeps
<1>3. CASE \E b \in Bundles : Executes(b)
  BY <1>3, ExecutorsKeep
<1>4. CASE Cleans
  <2>1. CASE \E r \in Recipes : PurgePendingBatch(r)
    BY <2>1, PurgePendingBatchKeeps
  <2>2. CASE DeletePurged
    BY <2>2, DeletePurgedKeeps
  <2>3. CASE ConfirmPurge
    BY <2>3, ConfirmPurgeKeeps
  <2>4. CASE CleanupStops
    BY <2>4, CleanupStopsKeeps
  <2> QED
    BY <1>4, <2>1, <2>2, <2>3, <2>4 DEF Cleans
<1>5. CASE \E r \in Recipes : RejectResult(r)
  BY <1>5, RejectResultKeeps
<1>6. CASE Tick
  BY <1>6, TickKeeps
<1>7. CASE CalmDown \/ UNCHANGED vars
  BY <1>7, NothingKeeps
<1> QED
  BY <1>1, <1>2, <1>3, <1>4, <1>5, <1>6, <1>7 DEF Next, Steps

(* What rows, executors and clients know of each other stays true: a       *)
(* leased row's executor works on its content, and no key in use is        *)
(* written again (coordinator.js, provider.js, llm.py).                    *)
THEOREM DispatchInvariant == Spec => []DispatchInv
<1>1. Init => DispatchInv
  BY InitInv
<1>2. DispatchInv /\ [Next]_vars => DispatchInv'
  BY StepKeeps
<1> QED
  BY <1>1, <1>2, PTL DEF Spec

-----------------------------------------------------------------------------
(* What the runs check, for every instance.                                *)

(* The variables have their types.                                         *)
THEOREM TypeCorrect == Spec => []TypeOK
<1>1. DispatchInv => TypeOK
  BY DEF DispatchInv
<1> QED
  BY <1>1, DispatchInvariant, PTL

(* The counter that each RPC adjusts by its own delta (enqueueBatch,       *)
(* claimDispatchWindow, completeBatch, cancelBatch) is the number of       *)
(* queued rows, which MAX_QUEUED_JOBS is about.                            *)
THEOREM CountsQueue == Spec => []QueueCounted
<1>1. DispatchInv => QueueCounted
  BY DEF DispatchInv
<1> QED
  BY <1>1, DispatchInvariant, PTL

(* leaseCoversCall fences each call: while it runs, the job is leased to   *)
(* it, so that no job is with a provider twice at a time.                  *)
THEOREM CallsOnce == Spec => []OneCallPerJob
<1>1. DispatchInv => OneCallPerJob
  <2>1. DispatchInv => TypeOK /\ JobsKnow
    BY InvParts
  <2> QED
    BY <2>1, CallHolds DEF OneCallPerJob
<1> QED
  BY <1>1, DispatchInvariant, PTL

(* The result a completed row points at answers the content of that row,   *)
(* whatever was superseded, retried, recovered or reported late.           *)
THEOREM AnswersRequest == Spec => []ResultAnswersRequest
<1>1. DispatchInv => ResultAnswersRequest
  BY DEF DispatchInv
<1> QED
  BY <1>1, DispatchInvariant, PTL

(* A bundle is not dropped from active_bundles while a lease of its jobs   *)
(* has not expired: completeBatch still takes its report.                  *)
THEOREM HearsCompletions == Spec => []CompletionsHeard
<1>1. DispatchInv => CompletionsHeard
  BY DEF DispatchInv
<1> QED
  BY <1>1, DispatchInvariant, PTL

(* Only retireConsumed makes a completed row go.                           *)
LEMMA CompletedStays ==
    ASSUME DispatchInv, Next, NEW r \in Recipes,
           row[r].state = "completed", row'[r].state = "absent"
    PROVE  \E c \in Clients : RetireConsumed(c) /\ client[c].recipe = r
<1>0. TypeOK /\ row \in [Recipes -> Rows]
  BY DEF DispatchInv, TypeOK
<1>1. row' # row
  OBVIOUS
<1>2. ASSUME NEW q \in Recipes, NEW x, row' = [row EXCEPT ![q] = x],
             x.state # "absent"
      PROVE  FALSE
  BY <1>0, <1>2
<1>3. ASSUME NEW q, NEW i, NEW d, EnqueueBatch(q, i, d), q \in Recipes
      PROVE  FALSE
  <2>1. row' = [row EXCEPT ![q] = SubmittedRow(q, i, d)]
    BY <1>1, <1>3 DEF EnqueueBatch
  <2>2. SubmittedRow(q, i, d).state = "queued"
    BY DEF SubmittedRow, MkRow
  <2> HIDE DEF SubmittedRow
  <2> QED
    BY <1>2, <1>3, <2>1, <2>2
<1>4. ASSUME NEW c \in Clients, Requests(c)
      PROVE  FALSE
  <2>1. PostAccepted(c) \/ PostLost(c)
    BY <1>1, <1>4 DEF Requests, Submit, PostDeferred, PostConflicts, KeepHandle,
                      coordinator
  <2>2. EnqueueBatch(client[c].recipe, client[c].job, client[c].digest)
    BY <1>1, <2>1 DEF PostAccepted, PostLost
  <2>3. client[c].recipe \in Recipes
    BY <2>1 DEF DispatchInv, OpKnows, PostAccepted, PostLost, Posting
  <2> QED
    BY <1>3, <2>2, <2>3
<1>5. ASSUME NEW c \in Clients, Follows(c)
      PROVE  RetireConsumed(c) /\ client[c].recipe = r
  <2>1. \/ RetireConsumed(c) \/ AckResults(c)
        \/ \E q \in Recipes : CancelBatch(c, q)
    BY <1>1, <1>5 DEF Follows, Poll, Resolve, DeleteObjects, DeleteFails,
                      DiscardFailed, DiscardDropped, ClientStops, coordinator
  <2>2. ASSUME NEW q \in Recipes, row' = [row EXCEPT ![q].state = "purge_pending"]
        PROVE  FALSE
    <3>1. [row[q] EXCEPT !.state = "purge_pending"].state = "purge_pending"
      BY <1>0 DEF Rows
    <3> QED
      BY <1>2, <2>2, <3>1
  <2>3. client[c].at # "idle" => client[c].recipe \in Recipes
    BY DEF DispatchInv, OpKnows
  <2>4. ~AckResults(c)
    BY <1>1, <2>2, <2>3 DEF AckResults
  <2>5. \A q \in Recipes : ~CancelBatch(c, q)
    BY <2>2 DEF CancelBatch
  <2>6. RetireConsumed(c)
    BY <2>1, <2>4, <2>5
  <2>7. row' = [row EXCEPT ![client[c].recipe] = NoRow]
    BY <1>1, <2>6 DEF RetireConsumed
  <2>8. client[c].recipe = r
    BY <1>0, <2>7
  <2> QED
    BY <2>6, <2>8
<1>6. Recovered[r] = row[r]
  BY DEF Recovered, Stale
<1>7. ~ClaimNothing
  BY <1>6 DEF ClaimNothing
<1>8. ASSUME NEW b \in Bundles, Executes(b)
      PROVE  FALSE
  <2>1. \/ \E jobs \in SUBSET Recipes : ClaimDispatchWindow(b, jobs)
        \/ CompleteBatch(b)
    BY <1>1, <1>8 DEF Executes, StartCall, Answered, CallFails, CallAgain,
                      ExecutorStops, coordinator
  <2>2. ASSUME NEW jobs \in SUBSET Recipes, ClaimDispatchWindow(b, jobs)
        PROVE  FALSE
    <3>1. r \notin jobs
      BY <1>6, <2>2 DEF ClaimDispatchWindow
    <3>2. row'[r] = Recovered[r]
      BY <2>2, <3>1 DEF ClaimDispatchWindow
    <3> QED
      BY <1>6, <3>2
  <2>3. ASSUME CompleteBatch(b)
        PROVE  FALSE
    <3>1. r \notin Reported(b)
      BY DEF Reported, LeasedTo
    <3>2. row'[r] = row[r]
      BY <1>1, <2>3, <3>1 DEF CompleteBatch, coordinator
    <3> QED
      BY <3>2
  <2> QED
    BY <2>1, <2>2, <2>3
<1>9. ~Cleans
  <2>1. ASSUME NEW q \in Recipes, PurgePendingBatch(q)
        PROVE  FALSE
    <3>1. [row[q] EXCEPT !.state = "purge_pending"].state = "purge_pending"
      BY <1>0 DEF Rows
    <3> QED
      BY <1>2, <2>1, <3>1 DEF PurgePendingBatch
  <2>2. ~DeletePurged /\ ~CleanupStops
    BY <1>1 DEF DeletePurged, CleanupStops, coordinator
  <2>3. ~ConfirmPurge
    <3> SUFFICES ASSUME ConfirmPurge
                 PROVE  FALSE
      OBVIOUS
    <3>1. cleaner.recipe \in Recipes
      BY DEF DispatchInv, ConfirmPurge
    <3>2. r = cleaner.recipe
      BY <1>0 DEF ConfirmPurge
    <3>3. row'[r] = row[r]
      BY <1>0, <3>1, <3>2 DEF ConfirmPurge
    <3> QED
      BY <3>3
  <2> QED
    BY <2>1, <2>2, <2>3 DEF Cleans
<1>10. /\ ~Tick /\ ~CalmDown
       /\ \A q \in Recipes : ~RejectResult(q)
  BY <1>1 DEF Tick, CalmDown, RejectResult, coordinator
<1> QED
  BY <1>4, <1>5, <1>7, <1>8, <1>9, <1>10 DEF Next, Steps

(* The order of _retire_consumed (persist, delete the objects, retire by   *)
(* the consumed result) and of the purge (list, delete, confirm) is what   *)
(* keeps a row from going before its result.                               *)
THEOREM RowsOutliveResults == Spec => RowOutlivesResult
<1>1. ASSUME DispatchInv, [Next]_vars, NEW r \in Recipes,
             row[r].state = "completed", row'[r].state = "absent"
      PROVE  ~Result(r, row[r].result)
  <2>1. Next
    BY <1>1 DEF vars
  <2>2. PICK c \in Clients : RetireConsumed(c) /\ client[c].recipe = r
    BY <1>1, <2>1, CompletedStays
  <2>3. row[r].result = client[c].result
    BY <1>1, <2>2 DEF RetireConsumed, Retires
  <2>4. \A b \in Bundles : client[c].result = b => results[r][b] = {}
    BY <1>1, <2>2 DEF DispatchInv, OpKnows, RetireConsumed
  <2>5. row[r].result \in Bundles
    BY <1>1 DEF DispatchInv, RowKnows
  <2> QED
    BY <2>3, <2>4, <2>5 DEF Result
<1>2. DispatchInv /\ [Next]_vars =>
        [\A r \in Recipes :
            row[r].state = "completed" /\ row'[r].state = "absent" =>
                ~Result(r, row[r].result)]_vars
  BY <1>1
<1> QED
  BY <1>2, DispatchInvariant, PTL DEF Spec, RowOutlivesResult

=============================================================================
