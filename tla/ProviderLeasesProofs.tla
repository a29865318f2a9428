------------------------ MODULE ProviderLeasesProofs ------------------------
(***************************************************************************)
(* The distributed provider slots keep their cap until an expiry passes,   *)
(* a release frees only the releaser's own slot, and callers never wait in *)
(* a circle: for any callers, processes, domains, slots, TTL and skew.     *)
(***************************************************************************)
EXTENDS ProviderLeases, FiniteSetTheorems, WellFoundedInduction, TLAPS

-----------------------------------------------------------------------------
(* The values the records start from.                                      *)
LEMMA BlankTypes ==
    /\ Floor \in Lefts /\ Floor \in Int
    /\ NoSlot \in SlotObjects /\ NoLease \in LeaseObjects
    /\ NoPass \in Passes /\ NoPut \in Puts
BY ProviderAssumption
   DEF Floor, Lefts, NoSlot, MkSlot, SlotObjects, NoLease, MkLease,
       LeaseObjects, NoPass, MkPass, Passes, NoPut, MkPut, Puts

(* Ageing stays in range and keeps the order of two moments.               *)
LEMMA AgeFacts ==
    /\ \A x \in Lefts : Age(x) \in Lefts /\ Age(x) <= x
    /\ \A x \in Floor..Skew : Age(x) \in Floor..Skew /\ Age(x) <= x
    /\ \A x, y \in Lefts \cup (Floor..Skew) : x <= y => Age(x) <= Age(y)
    /\ \A x \in Lefts : Age(x) > Skew => x > Skew
BY ProviderAssumption DEF Age, Lefts, Floor

(* A caller's clock reading and the expiries it computes are in range.     *)
LEMMA NowFacts ==
    ASSUME NEW t \in Callers
    PROVE  /\ Now(t) \in 0..Skew
           /\ Now(t) \in Floor..Skew /\ Now(t) \in Lefts
           /\ Now(t) + LeaseTTL \in Lefts
           /\ Floor <= Now(t) + LeaseTTL
<1>1. Now(t) \in 0..Skew
  BY ProviderAssumption DEF Now
<1> QED
  BY <1>1, ProviderAssumption DEF Lefts, Floor

(* A remainder is an index.                                                *)
LEMMA ModIndex ==
    ASSUME NEW n \in Nat, NEW m \in Nat \ {0}
    PROVE  n % m \in 0..(m - 1)
BY Z3

(* The slot a pass is at is a slot of its domain.                          *)
LEMMA SlotAtTypes ==
    ASSUME TypeOK, NEW t \in Callers, ~PassOver(t)
    PROVE  /\ pass[t].domain \in Domains
           /\ SlotIndex(t) \in Indices(pass[t].domain)
           /\ SlotAt(t) \in Slots
<1>1. pass[t].domain \in Domains
  BY DEF TypeOK, Passes, PassOver
<1> DEFINE d == pass[t].domain
           n == Offset[ProcessOf[t]][d] + pass[t].probed
<1>2. n \in Nat /\ SlotCount[d] \in Nat \ {0}
  <2>1. pass[t].probed \in Nat
    BY DEF TypeOK, Passes
  <2>2. ProcessOf[t] \in Processes
    BY ProviderAssumption
  <2>3. Offset[ProcessOf[t]] \in [Domains -> Nat]
    BY <2>2, ProviderAssumption
  <2>4. Offset[ProcessOf[t]][d] \in Nat
    BY <1>1, <2>3
  <2>5. SlotCount[d] \in Nat \ {0}
    BY <1>1, ProviderAssumption
  <2> QED
    BY <2>1, <2>4, <2>5
<1>3. n % SlotCount[d] \in 0..(SlotCount[d] - 1)
  <2> HIDE DEF n, d
  <2> QED
    BY <1>2, ModIndex
<1>4. SlotIndex(t) \in Indices(d)
  BY <1>3 DEF SlotIndex, Indices
<1> QED
  BY <1>1, <1>4 DEF SlotAt, Slots, Indices

(* So is the slot under an index of a domain.                              *)
LEMMA IndexSlot ==
    ASSUME NEW d \in Domains, NEW i \in Indices(d)
    PROVE  <<d, i>> \in Slots /\ i # -1 /\ i \in Nat
BY ProviderAssumption DEF Slots, Indices

-----------------------------------------------------------------------------
(* Before any call the invariant holds: every slot is absent.              *)
LEMMA SlotInvInit == Init => SlotInv
<1> SUFFICES ASSUME Init PROVE SlotInv
  OBVIOUS
<1>1. TypeOK
  BY BlankTypes DEF Init, TypeOK
<1>2. Placed
  <2> SUFFICES ASSUME NEW t \in Callers
               PROVE  /\ PassPlaced(t)
                      /\ \A d \in Domains : LeasePlaced(t, d) /\ PutPlaced(t, d)
    BY DEF Placed
  <2> Floor <= Now(t) + LeaseTTL
    BY NowFacts
  <2>1. PassPlaced(t)
    BY DEF Init, PassPlaced, PassOver, NoPass, MkPass
  <2>2. ASSUME NEW d \in Domains PROVE LeasePlaced(t, d) /\ PutPlaced(t, d)
    BY DEF Init, LeasePlaced, PutPlaced, Held, Renewing, NoLease, MkLease,
           NoPut, MkPut
  <2> QED
    BY <2>1, <2>2
<1>3. MatchTrue
  BY DEF Init, MatchTrue
<1>4. SureIsTrue
  BY DEF Init, SureIsTrue, SurelyHolds, Held, NoLease, MkLease
<1> QED
  BY <1>1, <1>2, <1>3, <1>4 DEF SlotInv

-----------------------------------------------------------------------------
(* A write of a claim goes to a slot nobody surely holds, and one of a     *)
(* lease's thread to a slot nobody else surely holds.                      *)
LEMMA ClaimUnsure ==
    ASSUME SlotInv, NEW t \in Callers, pass[t].claiming,
           <<t, "pass">> \in match[SlotAt(t)],
           NEW u \in Callers, NEW e \in Domains, SurelyHolds(u, e)
    PROVE  OwnSlot(u, e) # SlotAt(t)
<1>1. SlotAt(t) \in Slots
  BY SlotAtTypes DEF SlotInv, Placed, PassPlaced
<1>2. Reclaimable(SlotAt(t), pass[t].now)
  BY <1>1 DEF SlotInv, MatchTrue
<1>3. pass[t].now \in Floor..Skew
  BY DEF SlotInv, TypeOK, Passes
<1>4. slot[SlotAt(t)].left \in Int /\ lease[u][e].left \in Int
  BY <1>1 DEF SlotInv, TypeOK, SlotObjects, LeaseObjects, Lefts
<1>5. /\ slot[OwnSlot(u, e)].state = "acquired"
      /\ slot[OwnSlot(u, e)].left >= lease[u][e].left
  BY DEF SlotInv, SureIsTrue
<1>6. Floor \in Int /\ Skew \in Int
  BY ProviderAssumption, BlankTypes
<1> QED
  BY <1>2, <1>3, <1>4, <1>5, <1>6 DEF Reclaimable, SurelyHolds

LEMMA OwnerKnown ==
    ASSUME SlotInv, NEW s \in Slots, NEW t \in Callers,
           <<t, "lease">> \in match[s],
           NEW u \in Callers, NEW e \in Domains, SurelyHolds(u, e),
           OwnSlot(u, e) = s
    PROVE  u = t
<1>1. slot[s].by = t
  BY DEF SlotInv, MatchTrue
<1>2. slot[OwnSlot(u, e)].by = u
  BY DEF SlotInv, SureIsTrue
<1> QED
  BY <1>1, <1>2

(* A step of a caller's program counter that touches no slot.              *)
LEMMA PcStep ==
    ASSUME SlotInv, NEW t \in Callers,
           NEW l \in {"idle", "sems", "leases", "work", "exit"},
           pc' = [pc EXCEPT ![t] = l],
           sems' \in [Callers -> SUBSET Domains],
           UNCHANGED <<slot, match, lease, pass, put>>,
           ~PassOver(t) => l = "leases",
           Held(t) # {} => l \notin {"idle", "sems"},
           \A d \in Domains : Renewing(t, d) /\ d \notin Held(t) => l \in {"idle", "exit"}
    PROVE  SlotInv'
<1>1. TypeOK'
  BY DEF SlotInv, TypeOK
<1>2. Placed'
  <2> SUFFICES ASSUME NEW u \in Callers
               PROVE  /\ PassPlaced(u)'
                      /\ \A d \in Domains : LeasePlaced(u, d)' /\ PutPlaced(u, d)'
    BY DEF Placed
  <2> PassPlaced(u) /\ \A d \in Domains : LeasePlaced(u, d) /\ PutPlaced(u, d)
    BY DEF SlotInv, Placed
  <2> pc'[t] = l /\ (u # t => pc'[u] = pc[u])
    BY DEF SlotInv, TypeOK
  <2>1. PassPlaced(u)'
    BY DEF PassPlaced, PassOver, Held, Now
  <2>2. ASSUME NEW d \in Domains PROVE LeasePlaced(u, d)'
    BY DEF LeasePlaced, Held, Now
  <2>3. ASSUME NEW d \in Domains PROVE PutPlaced(u, d)'
    BY DEF PutPlaced, Held, Now, Renewing
  <2> QED
    BY <2>1, <2>2, <2>3
<1>3. MatchTrue'
  BY DEF SlotInv, MatchTrue, SlotAt, SlotIndex, Reclaimable
<1>4. SureIsTrue'
  BY DEF SlotInv, SureIsTrue, SurelyHolds, Held, OwnSlot
<1> QED
  BY <1>1, <1>2, <1>3, <1>4 DEF SlotInv

(* A step of a caller's pass that writes nothing and claims nothing.       *)
LEMMA PassStep ==
    ASSUME SlotInv, NEW t \in Callers, NEW r \in Passes,
           pass' = [pass EXCEPT ![t] = r],
           ~r.claiming, r.left = Floor,
           r.domain # -1 => pc[t] = "leases" /\ r.domain \notin Held(t),
           UNCHANGED <<slot, match, pc, sems, lease, put>>
    PROVE  SlotInv'
<1>1. TypeOK'
  BY DEF SlotInv, TypeOK
<1> pass'[t] = r /\ (\A u \in Callers : u # t => pass'[u] = pass[u])
  BY DEF SlotInv, TypeOK
<1>2. Placed'
  <2> SUFFICES ASSUME NEW u \in Callers
               PROVE  /\ PassPlaced(u)'
                      /\ \A d \in Domains : LeasePlaced(u, d)' /\ PutPlaced(u, d)'
    BY DEF Placed
  <2> PassPlaced(u) /\ \A d \in Domains : LeasePlaced(u, d) /\ PutPlaced(u, d)
    BY DEF SlotInv, Placed
  <2> Floor <= Now(u) + LeaseTTL
    BY NowFacts
  <2>1. PassPlaced(u)'
    BY DEF PassPlaced, PassOver, Held, Now
  <2>2. ASSUME NEW d \in Domains PROVE LeasePlaced(u, d)'
    BY DEF LeasePlaced, Held, Now
  <2>3. ASSUME NEW d \in Domains PROVE PutPlaced(u, d)'
    BY DEF PutPlaced, Held, Now, Renewing
  <2> QED
    BY <2>1, <2>2, <2>3
<1>3. MatchTrue'
  <2> SUFFICES ASSUME NEW s \in Slots, NEW u \in Callers
               PROVE  /\ <<u, "lease">> \in match'[s] =>
                          slot'[s].state = "acquired" /\ slot'[s].by = u
                      /\ <<u, "pass">> \in match'[s] /\ pass'[u].claiming
                            /\ s = SlotAt(u)' =>
                          Reclaimable(s, pass[u].now)'
    BY DEF MatchTrue
  <2>1. CASE u = t
    BY <2>1 DEF SlotInv, MatchTrue
  <2>2. CASE u # t
    BY <2>2 DEF SlotInv, MatchTrue, SlotAt, SlotIndex, Reclaimable
  <2> QED
    BY <2>1, <2>2
<1>4. SureIsTrue'
  BY DEF SlotInv, SureIsTrue, SurelyHolds, Held, OwnSlot
<1> QED
  BY <1>1, <1>2, <1>3, <1>4 DEF SlotInv

(* PassOn is such a step.                                                  *)
LEMMA PassOnStep ==
    ASSUME TypeOK, Placed, NEW t \in Callers, ~PassOver(t), PassOn(t)
    PROVE  \E r \in Passes :
             /\ pass' = [pass EXCEPT ![t] = r]
             /\ ~r.claiming /\ r.left = Floor
             /\ r.domain # -1 => pc[t] = "leases" /\ r.domain \notin Held(t)
<1> DEFINE r == IF pass[t].probed + 1 < SlotCount[pass[t].domain]
                THEN MkPass(pass[t].domain, pass[t].now, pass[t].probed + 1, FALSE, Floor)
                ELSE NoPass
<1>1. r \in Passes
  <2>1. pass[t] \in Passes
    BY DEF TypeOK
  <2> QED
    BY <2>1, BlankTypes DEF Passes, MkPass
<1>2. ~r.claiming /\ r.left = Floor
  BY DEF MkPass, NoPass
<1>3. r.domain # -1 => r.domain = pass[t].domain
  BY DEF MkPass, NoPass
<1>4. pc[t] = "leases" /\ pass[t].domain \notin Held(t)
  BY DEF Placed, PassPlaced
<1>5. pass' = [pass EXCEPT ![t] = r]
  BY DEF PassOn
<1> HIDE DEF r
<1> QED
  BY <1>1, <1>2, <1>3, <1>4, <1>5

(* What a conditional write leaves, and what it needs.                     *)
LEMMA WriteFacts ==
    ASSUME TypeOK, NEW s \in Slots, NEW who, NEW object \in SlotObjects,
           NEW learns \in SUBSET (Callers \X {"pass", "lease"}),
           Writes(s, who, object, learns)
    PROVE  /\ slot' \in [Slots -> SlotObjects]
           /\ match' \in [Slots -> SUBSET (Callers \X {"pass", "lease"})]
           /\ who \in match[s]
           /\ slot'[s] = object /\ match'[s] = learns
           /\ \A r \in Slots : r # s => slot'[r] = slot[r] /\ match'[r] = match[r]
BY DEF TypeOK, Writes

(* No ETag becomes current except a lease's own of its own write.          *)
LEMMA MatchKept ==
    ASSUME SlotInv, NEW t \in Callers,
           \A s \in Slots :
               \/ slot'[s] = slot[s] /\ match'[s] \subseteq match[s]
               \/ /\ match'[s] \subseteq {<<t, "lease">>}
                  /\ match'[s] # {} => slot'[s].state = "acquired" /\ slot'[s].by = t,
           \A u \in Callers : pass'[u] = pass[u] \/ ~pass'[u].claiming
    PROVE  MatchTrue'
<1> SUFFICES ASSUME NEW s \in Slots, NEW u \in Callers
             PROVE  /\ <<u, "lease">> \in match'[s] =>
                        slot'[s].state = "acquired" /\ slot'[s].by = u
                    /\ <<u, "pass">> \in match'[s] /\ pass'[u].claiming
                          /\ s = SlotAt(u)' =>
                        Reclaimable(s, pass[u].now)'
  BY DEF MatchTrue
<1>1. CASE slot'[s] = slot[s] /\ match'[s] \subseteq match[s]
  <2>1. <<u, "lease">> \in match'[s] => slot'[s].state = "acquired" /\ slot'[s].by = u
    BY <1>1 DEF SlotInv, MatchTrue
  <2>2. ASSUME <<u, "pass">> \in match'[s], pass'[u].claiming, s = SlotAt(u)'
        PROVE  Reclaimable(s, pass[u].now)'
    <3>1. pass'[u] = pass[u]
      BY <2>2
    <3>2. s = SlotAt(u)
      BY <2>2, <3>1 DEF SlotAt, SlotIndex
    <3>3. Reclaimable(s, pass[u].now)
      BY <1>1, <2>2, <3>1, <3>2 DEF SlotInv, MatchTrue
    <3> QED
      BY <1>1, <3>1, <3>3 DEF Reclaimable
  <2> QED
    BY <2>1, <2>2
<1>2. CASE /\ match'[s] \subseteq {<<t, "lease">>}
           /\ match'[s] # {} => slot'[s].state = "acquired" /\ slot'[s].by = t
  <2>1. <<u, "pass">> \notin match'[s]
    BY <1>2
  <2>2. <<u, "lease">> \in match'[s] => u = t
    BY <1>2
  <2> QED
    BY <1>2, <2>1, <2>2
<1> QED
  BY <1>1, <1>2

-----------------------------------------------------------------------------
(* The clock: every expiry ages alike.                                     *)
LEMMA TickSlotInv ==
    ASSUME SlotInv, Tick
    PROVE  SlotInv'
<1> TypeOK
  BY DEF SlotInv
<1> Floor \in Int /\ Skew \in Int /\ LeaseTTL \in Int
  BY BlankTypes, ProviderAssumption
<1>0. /\ \A s \in Slots : slot'[s] = [slot[s] EXCEPT !.left = Age(@)]
      /\ \A t \in Callers : pass'[t] = [pass[t] EXCEPT !.now = Age(@), !.left = Age(@)]
      /\ \A t \in Callers : \A d \in Domains :
            /\ lease'[t][d] = [lease[t][d] EXCEPT !.left = Age(@)]
            /\ put'[t][d] = [put[t][d] EXCEPT !.left = Age(@)]
  BY DEF Tick
<1>s. ASSUME NEW s \in Slots
      PROVE  /\ slot[s] \in SlotObjects /\ slot'[s] \in SlotObjects
             /\ slot'[s].state = slot[s].state /\ slot'[s].by = slot[s].by
             /\ slot'[s].left = Age(slot[s].left)
             /\ slot[s].left \in Lefts
  <2>1. slot[s] \in SlotObjects
    BY DEF TypeOK
  <2>2. slot[s].left \in Lefts /\ Age(slot[s].left) \in Lefts
    BY <2>1, AgeFacts DEF SlotObjects
  <2> QED
    BY <1>0, <2>1, <2>2 DEF SlotObjects
<1>p. ASSUME NEW t \in Callers
      PROVE  /\ pass'[t] \in Passes
             /\ pass'[t].domain = pass[t].domain /\ pass'[t].probed = pass[t].probed
             /\ pass'[t].claiming = pass[t].claiming
             /\ pass'[t].now = Age(pass[t].now) /\ pass'[t].left = Age(pass[t].left)
             /\ pass[t].now \in Floor..Skew /\ pass[t].left \in Lefts
  <2>1. pass[t] \in Passes
    BY DEF TypeOK
  <2>2. /\ pass[t].now \in Floor..Skew /\ pass[t].left \in Lefts
        /\ Age(pass[t].now) \in Floor..Skew /\ Age(pass[t].left) \in Lefts
    BY <2>1, AgeFacts DEF Passes
  <2> QED
    BY <1>0, <2>1, <2>2 DEF Passes
<1>l. ASSUME NEW t \in Callers, NEW d \in Domains
      PROVE  /\ lease'[t][d] \in LeaseObjects /\ put'[t][d] \in Puts
             /\ lease'[t][d].index = lease[t][d].index
             /\ lease'[t][d].left = Age(lease[t][d].left)
             /\ put'[t][d].index = put[t][d].index
             /\ put'[t][d].left = Age(put[t][d].left)
             /\ lease[t][d].left \in Lefts /\ put[t][d].left \in Lefts
  <2>1. lease[t][d] \in LeaseObjects /\ put[t][d] \in Puts
    BY DEF TypeOK
  <2>2. /\ lease[t][d].left \in Lefts /\ Age(lease[t][d].left) \in Lefts
        /\ put[t][d].left \in Lefts /\ Age(put[t][d].left) \in Lefts
    BY <2>1, AgeFacts DEF LeaseObjects, Puts
  <2>3. /\ lease'[t][d] = [lease[t][d] EXCEPT !.left = Age(@)]
        /\ put'[t][d] = [put[t][d] EXCEPT !.left = Age(@)]
    BY <1>0
  <2>4. /\ lease'[t][d] \in LeaseObjects
        /\ lease'[t][d].index = lease[t][d].index
        /\ lease'[t][d].left = Age(lease[t][d].left)
    BY <2>1, <2>2, <2>3 DEF LeaseObjects
  <2>5. /\ put'[t][d] \in Puts
        /\ put'[t][d].index = put[t][d].index
        /\ put'[t][d].left = Age(put[t][d].left)
    BY <2>1, <2>2, <2>3 DEF Puts
  <2> QED
    BY <2>2, <2>4, <2>5
<1>h. \A t \in Callers : Held(t)' = Held(t)
  BY <1>l DEF Held
<1>1. TypeOK'
  <2>1. slot' \in [Slots -> SlotObjects]
    BY <1>s DEF Tick
  <2>2. pass' \in [Callers -> Passes]
    BY <1>p DEF Tick
  <2>3. lease' \in [Callers -> [Domains -> LeaseObjects]]
    BY <1>l DEF Tick
  <2>4. put' \in [Callers -> [Domains -> Puts]]
    BY <1>l DEF Tick
  <2> QED
    BY <2>1, <2>2, <2>3, <2>4 DEF TypeOK, Tick
<1>2. Placed'
  <2> SUFFICES ASSUME NEW t \in Callers
               PROVE  /\ PassPlaced(t)'
                      /\ \A d \in Domains : LeasePlaced(t, d)' /\ PutPlaced(t, d)'
    BY DEF Placed
  <2> PassPlaced(t) /\ \A d \in Domains : LeasePlaced(t, d) /\ PutPlaced(t, d)
    BY DEF SlotInv, Placed
  <2> Now(t) + LeaseTTL \in Lefts
    BY NowFacts
  <2> pc' = pc
    BY DEF Tick
  <2>1. PassPlaced(t)'
    <3>1. Age(pass[t].left) \in Lefts /\ Age(pass[t].left) <= pass[t].left
      BY <1>p, AgeFacts
    <3>2. Age(pass[t].left) <= Now(t) + LeaseTTL
      BY <3>1, <1>p DEF PassPlaced, Lefts
    <3> QED
      BY <1>p, <1>h, <3>2 DEF PassPlaced, PassOver, Now
  <2>2. ASSUME NEW d \in Domains PROVE LeasePlaced(t, d)'
    <3>1. Age(lease[t][d].left) \in Lefts /\ Age(lease[t][d].left) <= lease[t][d].left
      BY <1>l, AgeFacts
    <3>2. Age(lease[t][d].left) <= Now(t) + LeaseTTL
      BY <3>1, <1>l DEF LeasePlaced, Lefts
    <3> QED
      BY <1>l, <1>h, <3>2 DEF LeasePlaced, Now
  <2>3. ASSUME NEW d \in Domains PROVE PutPlaced(t, d)'
    <3>1. Age(put[t][d].left) \in Lefts /\ Age(put[t][d].left) <= put[t][d].left
      BY <1>l, AgeFacts
    <3>2. Renewing(t, d) => Age(put[t][d].left) <= Now(t) + LeaseTTL
      BY <3>1, <1>l DEF PutPlaced, Lefts
    <3>3. lease[t][d].left <= put[t][d].left =>
            Age(lease[t][d].left) <= Age(put[t][d].left)
      BY <1>l, AgeFacts
    <3> QED
      BY <1>l, <1>h, <3>2, <3>3 DEF PutPlaced, Now, Renewing
  <2> QED
    BY <2>1, <2>2, <2>3
<1>3. MatchTrue'
  <2> SUFFICES ASSUME NEW s \in Slots, NEW u \in Callers
               PROVE  /\ <<u, "lease">> \in match'[s] =>
                          slot'[s].state = "acquired" /\ slot'[s].by = u
                      /\ <<u, "pass">> \in match'[s] /\ pass'[u].claiming
                            /\ s = SlotAt(u)' =>
                          Reclaimable(s, pass[u].now)'
    BY DEF MatchTrue
  <2> match' = match
    BY DEF Tick
  <2>1. <<u, "lease">> \in match'[s] => slot'[s].state = "acquired" /\ slot'[s].by = u
    BY <1>s DEF SlotInv, MatchTrue
  <2>2. SlotAt(u)' = SlotAt(u)
    BY <1>p DEF SlotAt, SlotIndex
  <2>3. slot[s].left <= pass[u].now => Age(slot[s].left) <= Age(pass[u].now)
    BY <1>s, <1>p, AgeFacts
  <2>4. Reclaimable(s, pass[u].now) => Reclaimable(s, pass[u].now)'
    BY <2>3, <1>s, <1>p DEF Reclaimable
  <2>5. <<u, "pass">> \in match[s] /\ pass[u].claiming /\ s = SlotAt(u) =>
            Reclaimable(s, pass[u].now)
    BY DEF SlotInv, MatchTrue
  <2> QED
    BY <2>1, <2>2, <2>4, <2>5, <1>p
<1>4. SureIsTrue'
  <2> SUFFICES ASSUME NEW t \in Callers, NEW d \in Domains, SurelyHolds(t, d)'
               PROVE  /\ slot'[OwnSlot(t, d)'].state = "acquired"
                      /\ slot'[OwnSlot(t, d)'].by = t
                      /\ slot'[OwnSlot(t, d)'].left >= lease'[t][d].left
    BY DEF SureIsTrue
  <2>1. SurelyHolds(t, d)
    BY <1>l, <1>h, AgeFacts DEF SurelyHolds
  <2>2. OwnSlot(t, d)' = OwnSlot(t, d)
    BY <1>l DEF OwnSlot
  <2>3. OwnSlot(t, d) \in Slots
    BY <2>1, IndexSlot DEF SurelyHolds, SlotInv, Placed, LeasePlaced, OwnSlot
  <2>4. /\ slot[OwnSlot(t, d)].state = "acquired"
        /\ slot[OwnSlot(t, d)].by = t
        /\ lease[t][d].left <= slot[OwnSlot(t, d)].left
    BY <2>1, <2>3, <1>s, <1>l DEF SlotInv, SureIsTrue, Lefts
  <2>5. Age(lease[t][d].left) <= Age(slot[OwnSlot(t, d)].left)
    BY <2>3, <2>4, <1>s, <1>l, AgeFacts
  <2>6. Age(lease[t][d].left) \in Int /\ Age(slot[OwnSlot(t, d)].left) \in Int
    BY <2>3, <1>s, <1>l, AgeFacts DEF Lefts
  <2> QED
    BY <2>2, <2>3, <2>4, <2>5, <2>6, <1>s, <1>l
<1> QED
  BY <1>1, <1>2, <1>3, <1>4 DEF SlotInv

(* The read of a free slot.                                                *)
LEMMA ProbeFreeSlotInv ==
    ASSUME SlotInv, NEW t \in Callers, ProbeFree(t)
    PROVE  SlotInv'
<1> DEFINE s == SlotAt(t)
           r == [pass[t] EXCEPT !.claiming = TRUE, !.left = Now(t) + LeaseTTL]
<1> TypeOK /\ ~PassOver(t)
  BY DEF SlotInv, ProbeFree
<1>0. s \in Slots
  BY SlotAtTypes
<1>1. /\ match' = [match EXCEPT ![s] = @ \cup {<<t, "pass">>}]
      /\ pass' = [pass EXCEPT ![t] = r]
      /\ UNCHANGED <<slot, pc, sems, lease, put>>
  BY DEF ProbeFree, TypeOK
<1>2. /\ r \in Passes /\ r.domain = pass[t].domain /\ r.now = pass[t].now
      /\ r.probed = pass[t].probed /\ r.left = Now(t) + LeaseTTL
  <2>1. pass[t] \in Passes
    BY DEF TypeOK
  <2>2. Now(t) + LeaseTTL \in Lefts
    BY NowFacts
  <2> QED
    BY <2>1, <2>2 DEF Passes
<1>3. pass'[t] = r /\ \A u \in Callers : u # t => pass'[u] = pass[u]
  BY <1>1 DEF TypeOK
<1> HIDE DEF r
<1>4. TypeOK'
  <2>1. match' \in [Slots -> SUBSET (Callers \X {"pass", "lease"})]
    BY <1>1, <1>0 DEF TypeOK
  <2> QED
    BY <1>1, <1>2, <2>1 DEF TypeOK
<1>5. Placed'
  <2> SUFFICES ASSUME NEW u \in Callers
               PROVE  /\ PassPlaced(u)'
                      /\ \A d \in Domains : LeasePlaced(u, d)' /\ PutPlaced(u, d)'
    BY DEF Placed
  <2> PassPlaced(u) /\ \A d \in Domains : LeasePlaced(u, d) /\ PutPlaced(u, d)
    BY DEF SlotInv, Placed
  <2> Now(u) + LeaseTTL \in Int
    BY NowFacts DEF Lefts
  <2>1. PassPlaced(u)'
    BY <1>1, <1>2, <1>3 DEF PassPlaced, PassOver, Held, Now
  <2>2. ASSUME NEW d \in Domains PROVE LeasePlaced(u, d)'
    BY <1>1 DEF LeasePlaced, Held, Now
  <2>3. ASSUME NEW d \in Domains PROVE PutPlaced(u, d)'
    BY <1>1 DEF PutPlaced, Held, Now, Renewing
  <2> QED
    BY <2>1, <2>2, <2>3
<1>6. MatchTrue'
  <2> SUFFICES ASSUME NEW x \in Slots, NEW u \in Callers
               PROVE  /\ <<u, "lease">> \in match'[x] =>
                          slot'[x].state = "acquired" /\ slot'[x].by = u
                      /\ <<u, "pass">> \in match'[x] /\ pass'[u].claiming
                            /\ x = SlotAt(u)' =>
                          Reclaimable(x, pass[u].now)'
    BY DEF MatchTrue
  <2>1. <<u, "lease">> \in match'[x] => <<u, "lease">> \in match[x]
    BY <1>1 DEF TypeOK
  <2>2. CASE u = t
    <3>1. SlotAt(u)' = s
      BY <2>2, <1>2, <1>3 DEF SlotAt, SlotIndex
    <3>2. ASSUME x = SlotAt(u)' PROVE Reclaimable(x, pass[u].now)'
      BY <2>2, <3>1, <3>2, <1>1, <1>2, <1>3 DEF ProbeFree, Reclaimable
    <3>3. <<u, "lease">> \in match'[x] => slot'[x].state = "acquired" /\ slot'[x].by = u
      BY <2>1, <1>1 DEF SlotInv, MatchTrue
    <3> QED
      BY <3>2, <3>3
  <2>3. CASE u # t
    <3>1. <<u, "pass">> \in match'[x] => <<u, "pass">> \in match[x]
      BY <2>3, <1>1 DEF TypeOK
    <3>2. SlotAt(u)' = SlotAt(u) /\ pass'[u] = pass[u]
      BY <2>3, <1>3 DEF SlotAt, SlotIndex
    <3> QED
      BY <2>1, <3>1, <3>2, <1>1 DEF SlotInv, MatchTrue, Reclaimable
  <2> QED
    BY <2>2, <2>3
<1>7. SureIsTrue'
  BY <1>1 DEF SlotInv, SureIsTrue, SurelyHolds, Held, OwnSlot
<1> QED
  BY <1>4, <1>5, <1>6, <1>7 DEF SlotInv

(* What the writes of a pass may assume and leave.                         *)
LEMMA ClaimFacts ==
    ASSUME SlotInv, NEW t \in Callers, pass[t].claiming
    PROVE  /\ ~PassOver(t) /\ TypeOK
           /\ pc[t] = "leases" /\ pass[t].domain \notin Held(t)
           /\ pass[t].domain \in Domains
           /\ SlotIndex(t) \in Indices(pass[t].domain) /\ SlotAt(t) \in Slots
           /\ ~Renewing(t, pass[t].domain)
           /\ ClaimedSlot(t) \in SlotObjects
           /\ ClaimedSlot(t).state = "acquired" /\ ClaimedSlot(t).by = t
           /\ ClaimedSlot(t).left = pass[t].left
<1>1. ~PassOver(t) /\ TypeOK
  BY DEF SlotInv, Placed, PassPlaced
<1>2. pc[t] = "leases" /\ pass[t].domain \notin Held(t)
  BY <1>1 DEF SlotInv, Placed, PassPlaced
<1>3. /\ pass[t].domain \in Domains
      /\ SlotIndex(t) \in Indices(pass[t].domain) /\ SlotAt(t) \in Slots
  BY <1>1, SlotAtTypes
<1>4. ~Renewing(t, pass[t].domain)
  BY <1>2, <1>3 DEF SlotInv, Placed, PutPlaced
<1>5. pass[t].left \in Lefts
  BY <1>1 DEF TypeOK, Passes
<1>6. ClaimedSlot(t) \in SlotObjects
  BY <1>5 DEF ClaimedSlot, MkSlot, SlotObjects
<1>7. /\ ClaimedSlot(t).state = "acquired" /\ ClaimedSlot(t).by = t
      /\ ClaimedSlot(t).left = pass[t].left
  BY DEF ClaimedSlot, MkSlot
<1> QED
  BY <1>1, <1>2, <1>3, <1>4, <1>6, <1>7

(* A claim that lands with nobody to know of it, or none that lands: the   *)
(* end of the pass or its next slot.                                       *)
LEMMA ClaimLostStep ==
    ASSUME SlotInv, NEW t \in Callers, NEW r \in Passes, NEW l \in {"leases", "exit"},
           ~PassOver(t),
           \/ pass[t].claiming /\ Writes(SlotAt(t), <<t, "pass">>, ClaimedSlot(t), {})
           \/ slot' = slot /\ match' = Forget(SlotAt(t), <<t, "pass">>),
           pass' = [pass EXCEPT ![t] = r],
           pc' = [pc EXCEPT ![t] = l],
           ~r.claiming, r.left = Floor,
           r.domain # -1 => l = "leases" /\ r.domain \notin Held(t),
           UNCHANGED <<sems, lease, put>>
    PROVE  SlotInv'
<1> DEFINE s == SlotAt(t)
<1> TypeOK /\ s \in Slots
  BY SlotAtTypes DEF SlotInv
<1>1. /\ pass'[t] = r /\ \A u \in Callers : u # t => pass'[u] = pass[u]
      /\ pc'[t] = l /\ \A u \in Callers : u # t => pc'[u] = pc[u]
  BY DEF TypeOK
<1>2. \/ /\ pass[t].claiming /\ <<t, "pass">> \in match[s]
         /\ match'[s] = {}
         /\ \A x \in Slots : x # s => slot'[x] = slot[x] /\ match'[x] = match[x]
      \/ slot' = slot /\ \A x \in Slots : match'[x] \subseteq match[x]
  <2>1. CASE pass[t].claiming /\ Writes(s, <<t, "pass">>, ClaimedSlot(t), {})
    <3>1. ClaimedSlot(t) \in SlotObjects
      BY <2>1, ClaimFacts
    <3>2. {} \in SUBSET (Callers \X {"pass", "lease"})
      OBVIOUS
    <3>3. /\ <<t, "pass">> \in match[s] /\ match'[s] = {}
          /\ \A x \in Slots : x # s => slot'[x] = slot[x] /\ match'[x] = match[x]
      BY <2>1, <3>1, <3>2, WriteFacts
    <3> QED
      BY <2>1, <3>3
  <2>2. CASE slot' = slot /\ match' = Forget(s, <<t, "pass">>)
    BY <2>2 DEF Forget, TypeOK
  <2> QED
    BY <2>1, <2>2
<1>3. TypeOK'
  <2>1. /\ slot' \in [Slots -> SlotObjects]
        /\ match' \in [Slots -> SUBSET (Callers \X {"pass", "lease"})]
    <3>1. CASE pass[t].claiming /\ Writes(s, <<t, "pass">>, ClaimedSlot(t), {})
      BY <3>1, ClaimFacts, WriteFacts
    <3>2. CASE slot' = slot /\ match' = Forget(s, <<t, "pass">>)
      BY <3>2 DEF Forget, TypeOK
    <3> QED
      BY <3>1, <3>2
  <2> QED
    BY <2>1 DEF TypeOK
<1>4. Placed'
  <2> SUFFICES ASSUME NEW u \in Callers
               PROVE  /\ PassPlaced(u)'
                      /\ \A d \in Domains : LeasePlaced(u, d)' /\ PutPlaced(u, d)'
    BY DEF Placed
  <2> PassPlaced(u) /\ \A d \in Domains : LeasePlaced(u, d) /\ PutPlaced(u, d)
    BY DEF SlotInv, Placed
  <2> PassPlaced(t)
    BY DEF SlotInv, Placed
  <2> Floor <= Now(u) + LeaseTTL
    BY NowFacts
  <2>1. PassPlaced(u)'
    BY <1>1 DEF PassPlaced, PassOver, Held, Now
  <2>2. ASSUME NEW d \in Domains PROVE LeasePlaced(u, d)'
    BY <1>1 DEF LeasePlaced, Held, Now
  <2>3. ASSUME NEW d \in Domains PROVE PutPlaced(u, d)'
    BY <1>1 DEF PutPlaced, Held, Now, Renewing, PassPlaced
  <2> QED
    BY <2>1, <2>2, <2>3
<1>5. MatchTrue'
  <2>1. \A x \in Slots :
               \/ slot'[x] = slot[x] /\ match'[x] \subseteq match[x]
               \/ /\ match'[x] \subseteq {<<t, "lease">>}
                  /\ match'[x] # {} => slot'[x].state = "acquired" /\ slot'[x].by = t
    BY <1>2
  <2>2. \A u \in Callers : pass'[u] = pass[u] \/ ~pass'[u].claiming
    BY <1>1
  <2> QED
    BY <2>1, <2>2, MatchKept
<1>6. SureIsTrue'
  <2> SUFFICES ASSUME NEW u \in Callers, NEW e \in Domains, SurelyHolds(u, e)'
               PROVE  /\ slot'[OwnSlot(u, e)'].state = "acquired"
                      /\ slot'[OwnSlot(u, e)'].by = u
                      /\ slot'[OwnSlot(u, e)'].left >= lease'[u][e].left
    BY DEF SureIsTrue
  <2>1. SurelyHolds(u, e) /\ OwnSlot(u, e)' = OwnSlot(u, e)
    BY DEF SurelyHolds, Held, OwnSlot
  <2>2. OwnSlot(u, e) \in Slots
    BY <2>1, IndexSlot DEF SurelyHolds, SlotInv, Placed, LeasePlaced, OwnSlot
  <2>3. slot'[OwnSlot(u, e)] = slot[OwnSlot(u, e)]
    BY <1>2, <2>1, <2>2, ClaimUnsure
  <2> QED
    BY <2>1, <2>3 DEF SlotInv, SureIsTrue
<1> QED
  BY <1>3, <1>4, <1>5, <1>6 DEF SlotInv

(* A claim that lands and is known to.                                     *)
LEMMA ClaimWinsSlotInv ==
    ASSUME SlotInv, NEW t \in Callers, ClaimWins(t)
    PROVE  SlotInv'
<1> DEFINE s == SlotAt(t)
           d == pass[t].domain
           l == MkLease(SlotIndex(t), pass[t].left, FALSE)
<1>c. pass[t].claiming /\ Writes(s, <<t, "pass">>, ClaimedSlot(t), {<<t, "lease">>})
  BY DEF ClaimWins
<1>f. /\ ~PassOver(t) /\ TypeOK
      /\ pc[t] = "leases" /\ d \notin Held(t) /\ d \in Domains
      /\ SlotIndex(t) \in Indices(d) /\ s \in Slots
      /\ ~Renewing(t, d)
      /\ ClaimedSlot(t) \in SlotObjects
      /\ ClaimedSlot(t).state = "acquired" /\ ClaimedSlot(t).by = t
      /\ ClaimedSlot(t).left = pass[t].left
  BY <1>c, ClaimFacts
<1> TypeOK /\ d \in Domains /\ s \in Slots
  BY <1>f
<1>i. SlotIndex(t) \in Nat /\ SlotIndex(t) # -1
  BY <1>f, IndexSlot
<1>l. /\ l \in LeaseObjects /\ l.index = SlotIndex(t) /\ l.left = pass[t].left
  <2>1. pass[t].left \in Lefts
    BY DEF TypeOK, Passes
  <2> QED
    BY <1>i, <2>1 DEF LeaseObjects, MkLease
<1>1. /\ slot' \in [Slots -> SlotObjects]
      /\ match' \in [Slots -> SUBSET (Callers \X {"pass", "lease"})]
      /\ <<t, "pass">> \in match[s]
      /\ slot'[s] = ClaimedSlot(t) /\ match'[s] = {<<t, "lease">>}
      /\ \A x \in Slots : x # s => slot'[x] = slot[x] /\ match'[x] = match[x]
  <2>1. {<<t, "lease">>} \in SUBSET (Callers \X {"pass", "lease"})
    OBVIOUS
  <2> QED
    BY <1>c, <1>f, <2>1, WriteFacts
<1>2. /\ lease' = [lease EXCEPT ![t][d] = l]
      /\ pass' = [pass EXCEPT ![t] = NoPass]
      /\ UNCHANGED <<pc, sems, put>>
  BY DEF ClaimWins
<1>3. /\ lease'[t][d] = l
      /\ \A u \in Callers : \A e \in Domains :
            <<u, e>> # <<t, d>> => lease'[u][e] = lease[u][e]
      /\ lease' \in [Callers -> [Domains -> LeaseObjects]]
  <2> HIDE DEF l, d
  <2> QED
    BY <1>2, <1>l DEF TypeOK
<1>4. /\ pass'[t] = NoPass /\ \A u \in Callers : u # t => pass'[u] = pass[u]
      /\ pass' \in [Callers -> Passes]
  BY <1>2, BlankTypes DEF TypeOK
<1> HIDE DEF l, s
<1>5. TypeOK'
  BY <1>1, <1>2, <1>3, <1>4 DEF TypeOK
<1>6. Placed'
  <2> SUFFICES ASSUME NEW u \in Callers
               PROVE  /\ PassPlaced(u)'
                      /\ \A e \in Domains : LeasePlaced(u, e)' /\ PutPlaced(u, e)'
    BY DEF Placed
  <2> PassPlaced(u) /\ \A e \in Domains : LeasePlaced(u, e) /\ PutPlaced(u, e)
    BY DEF SlotInv, Placed
  <2> PassPlaced(t)
    BY DEF SlotInv, Placed
  <2> Floor <= Now(u) + LeaseTTL
    BY NowFacts
  <2>1. PassPlaced(u)'
    <3>1. CASE u = t
      BY <3>1, <1>4 DEF PassPlaced, PassOver, NoPass, MkPass, Now
    <3>2. CASE u # t
      <4>1. Held(u)' = Held(u)
        BY <3>2, <1>3 DEF Held
      <4> QED
        BY <3>2, <4>1, <1>2, <1>4 DEF PassPlaced, PassOver, Now
    <3> QED
      BY <3>1, <3>2
  <2>2. ASSUME NEW e \in Domains PROVE LeasePlaced(u, e)' /\ PutPlaced(u, e)'
    <3>1. CASE u = t /\ e = d
      <4>1. LeasePlaced(u, e)'
        BY <3>1, <1>2, <1>3, <1>l, <1>f DEF LeasePlaced, PassPlaced, Now
      <4> QED
        BY <4>1, <3>1, <1>2, <1>f DEF PutPlaced, Renewing
    <3>2. CASE ~(u = t /\ e = d)
      <4>1. lease'[u][e] = lease[u][e]
        BY <3>2, <1>3
      <4>2. (e \in Held(u))' <=> e \in Held(u)
        BY <4>1 DEF Held
      <4> QED
        BY <4>1, <4>2, <1>2 DEF LeasePlaced, PutPlaced, Renewing, Now
    <3> QED
      BY <3>1, <3>2
  <2> QED
    BY <2>1, <2>2
<1>7. MatchTrue'
  <2>1. \A x \in Slots :
               \/ slot'[x] = slot[x] /\ match'[x] \subseteq match[x]
               \/ /\ match'[x] \subseteq {<<t, "lease">>}
                  /\ match'[x] # {} => slot'[x].state = "acquired" /\ slot'[x].by = t
    BY <1>1, <1>f
  <2>2. \A u \in Callers : pass'[u] = pass[u] \/ ~pass'[u].claiming
    BY <1>4 DEF NoPass, MkPass
  <2> QED
    BY <2>1, <2>2, MatchKept
<1>8. SureIsTrue'
  <2> SUFFICES ASSUME NEW u \in Callers, NEW e \in Domains, SurelyHolds(u, e)'
               PROVE  /\ slot'[OwnSlot(u, e)'].state = "acquired"
                      /\ slot'[OwnSlot(u, e)'].by = u
                      /\ slot'[OwnSlot(u, e)'].left >= lease'[u][e].left
    BY DEF SureIsTrue
  <2>1. CASE u = t /\ e = d
    <3>1. OwnSlot(u, e)' = s
      BY <2>1, <1>3, <1>l DEF OwnSlot, s, SlotAt
    <3>2. pass[t].left \in Int
      BY DEF TypeOK, Passes, Lefts
    <3> QED
      BY <2>1, <3>1, <3>2, <1>1, <1>3, <1>l, <1>f
  <2>2. CASE ~(u = t /\ e = d)
    <3>1. lease'[u][e] = lease[u][e]
      BY <2>2, <1>3
    <3>2. SurelyHolds(u, e) /\ OwnSlot(u, e)' = OwnSlot(u, e)
      BY <3>1 DEF SurelyHolds, Held, OwnSlot
    <3>3. OwnSlot(u, e) \in Slots
      BY <3>2, IndexSlot DEF SurelyHolds, SlotInv, Placed, LeasePlaced, OwnSlot
    <3>4. OwnSlot(u, e) # s
      BY <1>c, <1>1, <3>2, ClaimUnsure DEF s
    <3> QED
      BY <1>1, <3>1, <3>2, <3>3, <3>4 DEF SlotInv, SureIsTrue
  <2> QED
    BY <2>1, <2>2
<1> QED
  BY <1>5, <1>6, <1>7, <1>8 DEF SlotInv

-----------------------------------------------------------------------------
(* A renewal is begun.                                                     *)
LEMMA RenewStartSlotInv ==
    ASSUME SlotInv, NEW t \in Callers, NEW d \in Domains, RenewStart(t, d)
    PROVE  SlotInv'
<1> DEFINE r == MkPut(lease[t][d].index, Now(t) + LeaseTTL)
<1> TypeOK
  BY DEF SlotInv
<1>1. /\ put' = [put EXCEPT ![t][d] = r]
      /\ UNCHANGED <<slot, match, pc, sems, lease, pass>>
      /\ d \in Held(t)
  BY DEF RenewStart
<1>2. r \in Puts /\ r.index = lease[t][d].index /\ r.left = Now(t) + LeaseTTL
  <2>1. lease[t][d].index \in Nat \cup {-1}
    BY DEF TypeOK, LeaseObjects
  <2>2. Now(t) + LeaseTTL \in Lefts
    BY NowFacts
  <2> QED
    BY <2>1, <2>2 DEF Puts, MkPut
<1> HIDE DEF r
<1>3. /\ put'[t][d] = r
      /\ \A u \in Callers : \A e \in Domains :
            ~(u = t /\ e = d) => put'[u][e] = put[u][e]
      /\ put' \in [Callers -> [Domains -> Puts]]
  BY <1>1, <1>2 DEF TypeOK
<1>4. TypeOK'
  BY <1>1, <1>3 DEF TypeOK
<1>5. Placed'
  <2> SUFFICES ASSUME NEW u \in Callers
               PROVE  /\ PassPlaced(u)'
                      /\ \A e \in Domains : LeasePlaced(u, e)' /\ PutPlaced(u, e)'
    BY DEF Placed
  <2> PassPlaced(u) /\ \A e \in Domains : LeasePlaced(u, e) /\ PutPlaced(u, e)
    BY DEF SlotInv, Placed
  <2>1. PassPlaced(u)'
    BY <1>1 DEF PassPlaced, PassOver, Held, Now
  <2>2. ASSUME NEW e \in Domains PROVE LeasePlaced(u, e)'
    BY <1>1 DEF LeasePlaced, Held, Now
  <2>3. ASSUME NEW e \in Domains PROVE PutPlaced(u, e)'
    <3>1. CASE u = t /\ e = d
      <4>1. lease[t][d].index \in Indices(d) /\ lease[t][d].left <= Now(t) + LeaseTTL
        BY <3>1, <1>1 DEF LeasePlaced
      <4>2. Now(t) + LeaseTTL <= Now(t) + LeaseTTL
        BY NowFacts DEF Lefts
      <4>3. d \in Held(t)'
        BY <1>1 DEF Held
      <4> QED
        BY <3>1, <4>1, <4>2, <4>3, <1>1, <1>2, <1>3 DEF PutPlaced, Renewing, Now
    <3>2. CASE ~(u = t /\ e = d)
      BY <3>2, <1>1, <1>3 DEF PutPlaced, Renewing, Held, Now
    <3> QED
      BY <3>1, <3>2
  <2> QED
    BY <2>1, <2>2, <2>3
<1>6. MatchTrue'
  BY <1>1 DEF SlotInv, MatchTrue, SlotAt, SlotIndex, Reclaimable
<1>7. SureIsTrue'
  BY <1>1 DEF SlotInv, SureIsTrue, SurelyHolds, Held, OwnSlot
<1> QED
  BY <1>4, <1>5, <1>6, <1>7 DEF SlotInv

(* What a renewal in flight may assume.                                    *)
LEMMA RenewFacts ==
    ASSUME SlotInv, NEW t \in Callers, NEW d \in Domains, Renewing(t, d)
    PROVE  /\ TypeOK /\ Renewed(t, d) \in Slots
           /\ put[t][d].left \in Lefts /\ put[t][d].left <= Now(t) + LeaseTTL
           /\ d \in Held(t) =>
                OwnSlot(t, d) = Renewed(t, d) /\ lease[t][d].left <= put[t][d].left
           /\ d \notin Held(t) => pc[t] \in {"idle", "exit"}
           /\ RenewedSlot(t, d) \in SlotObjects
           /\ RenewedSlot(t, d).state = "acquired" /\ RenewedSlot(t, d).by = t
           /\ RenewedSlot(t, d).left = put[t][d].left
           /\ LeaseKnows(t, d) \in SUBSET (Callers \X {"pass", "lease"})
           /\ LeaseKnows(t, d) \subseteq {<<t, "lease">>}
<1>1. TypeOK
  BY DEF SlotInv
<1>2. PutPlaced(t, d)
  BY DEF SlotInv, Placed
<1>3. put[t][d].left \in Lefts
  BY <1>1 DEF TypeOK, Puts
<1>4. Renewed(t, d) \in Slots
  BY <1>2, IndexSlot DEF PutPlaced, Renewed
<1>5. d \in Held(t) =>
                OwnSlot(t, d) = Renewed(t, d) /\ lease[t][d].left <= put[t][d].left
  BY <1>2 DEF PutPlaced, OwnSlot, Renewed
<1>6. /\ RenewedSlot(t, d) \in SlotObjects
      /\ RenewedSlot(t, d).state = "acquired" /\ RenewedSlot(t, d).by = t
      /\ RenewedSlot(t, d).left = put[t][d].left
  BY <1>3 DEF RenewedSlot, MkSlot, SlotObjects
<1>7. LeaseKnows(t, d) \in SUBSET (Callers \X {"pass", "lease"})
  BY DEF LeaseKnows
<1>8. LeaseKnows(t, d) \subseteq {<<t, "lease">>}
  BY DEF LeaseKnows
<1> QED
  BY <1>1, <1>2, <1>3, <1>4, <1>5, <1>6, <1>7, <1>8 DEF PutPlaced

(* A renewal is resolved: written or not, learnt of or not.                *)
LEMMA RenewStep ==
    ASSUME SlotInv, NEW t \in Callers, NEW d \in Domains, Renewing(t, d),
           NEW learns \in SUBSET {<<t, "lease">>},
           \/ Writes(Renewed(t, d), <<t, "lease">>, RenewedSlot(t, d), learns)
           \/ /\ slot' = slot
              /\ match' = match \/ match' = Forget(Renewed(t, d), <<t, "lease">>),
           NEW l \in LeaseObjects,
           l.index = lease[t][d].index,
           l = lease[t][d] \/ l.left = lease[t][d].left
             \/ /\ l.left = put[t][d].left
                /\ Writes(Renewed(t, d), <<t, "lease">>, RenewedSlot(t, d), learns),
           lease' = [lease EXCEPT ![t][d] = l],
           RenewDone(t, d),
           UNCHANGED <<pc, sems, pass>>
    PROVE  SlotInv'
<1> DEFINE s == Renewed(t, d)
<1>f. /\ TypeOK /\ s \in Slots
      /\ put[t][d].left \in Lefts /\ put[t][d].left <= Now(t) + LeaseTTL
      /\ d \in Held(t) => OwnSlot(t, d) = s /\ lease[t][d].left <= put[t][d].left
      /\ RenewedSlot(t, d) \in SlotObjects
      /\ RenewedSlot(t, d).state = "acquired" /\ RenewedSlot(t, d).by = t
      /\ RenewedSlot(t, d).left = put[t][d].left
  BY RenewFacts
<1> TypeOK /\ s \in Slots
  BY <1>f
<1>w. \/ /\ <<t, "lease">> \in match[s]
         /\ slot'[s] = RenewedSlot(t, d) /\ match'[s] = learns
         /\ \A x \in Slots : x # s => slot'[x] = slot[x] /\ match'[x] = match[x]
      \/ /\ slot' = slot /\ l.left = lease[t][d].left
         /\ \A x \in Slots : match'[x] \subseteq match[x]
  <2>1. CASE Writes(s, <<t, "lease">>, RenewedSlot(t, d), learns)
    <3>1. learns \in SUBSET (Callers \X {"pass", "lease"})
      OBVIOUS
    <3> QED
      BY <2>1, <3>1, <1>f, WriteFacts
  <2>2. CASE /\ ~Writes(s, <<t, "lease">>, RenewedSlot(t, d), learns)
             /\ slot' = slot
             /\ match' = match \/ match' = Forget(s, <<t, "lease">>)
    <3>1. \A x \in Slots : match'[x] \subseteq match[x]
      BY <2>2 DEF Forget, TypeOK
    <3> QED
      BY <2>2, <3>1
  <2> QED
    BY <2>1, <2>2
<1>1. /\ slot' \in [Slots -> SlotObjects]
      /\ match' \in [Slots -> SUBSET (Callers \X {"pass", "lease"})]
  <2>1. CASE Writes(s, <<t, "lease">>, RenewedSlot(t, d), learns)
    <3>1. learns \in SUBSET (Callers \X {"pass", "lease"})
      OBVIOUS
    <3> QED
      BY <2>1, <3>1, <1>f, WriteFacts
  <2>2. CASE /\ slot' = slot
             /\ match' = match \/ match' = Forget(s, <<t, "lease">>)
    BY <2>2 DEF Forget, TypeOK
  <2> QED
    BY <2>1, <2>2
<1>2. /\ lease'[t][d] = l
      /\ \A u \in Callers : \A e \in Domains :
            ~(u = t /\ e = d) => lease'[u][e] = lease[u][e]
      /\ lease' \in [Callers -> [Domains -> LeaseObjects]]
  BY DEF TypeOK
<1>3. /\ put'[t][d] = NoPut
      /\ \A u \in Callers : \A e \in Domains :
            ~(u = t /\ e = d) => put'[u][e] = put[u][e]
      /\ put' \in [Callers -> [Domains -> Puts]]
  BY BlankTypes DEF TypeOK, RenewDone
<1>4. TypeOK'
  BY <1>1, <1>2, <1>3 DEF TypeOK
<1>h. \A u \in Callers : Held(u)' = Held(u)
  <2> SUFFICES ASSUME NEW u \in Callers, NEW e \in Domains
               PROVE  lease'[u][e].index = lease[u][e].index
    BY DEF Held
  <2> QED
    BY <1>2
<1>5. Placed'
  <2> SUFFICES ASSUME NEW u \in Callers
               PROVE  /\ PassPlaced(u)'
                      /\ \A e \in Domains : LeasePlaced(u, e)' /\ PutPlaced(u, e)'
    BY DEF Placed
  <2> PassPlaced(u) /\ \A e \in Domains : LeasePlaced(u, e) /\ PutPlaced(u, e)
    BY DEF SlotInv, Placed
  <2>1. PassPlaced(u)'
    BY <1>h DEF PassPlaced, PassOver, Now
  <2>2. ASSUME NEW e \in Domains PROVE LeasePlaced(u, e)'
    <3>1. CASE u = t /\ e = d
      BY <3>1, <1>h, <1>2, <1>f DEF LeasePlaced, Now
    <3>2. CASE ~(u = t /\ e = d)
      BY <3>2, <1>h, <1>2 DEF LeasePlaced, Now
    <3> QED
      BY <3>1, <3>2
  <2>3. ASSUME NEW e \in Domains PROVE PutPlaced(u, e)'
    <3>1. CASE u = t /\ e = d
      BY <3>1, <1>3 DEF PutPlaced, Renewing, NoPut, MkPut
    <3>2. CASE ~(u = t /\ e = d)
      BY <3>2, <1>h, <1>2, <1>3 DEF PutPlaced, Renewing, Now
    <3> QED
      BY <3>1, <3>2
  <2> QED
    BY <2>1, <2>2, <2>3
<1>6. MatchTrue'
  <2>1. \A x \in Slots :
               \/ slot'[x] = slot[x] /\ match'[x] \subseteq match[x]
               \/ /\ match'[x] \subseteq {<<t, "lease">>}
                  /\ match'[x] # {} => slot'[x].state = "acquired" /\ slot'[x].by = t
    BY <1>w, <1>f
  <2> QED
    BY <2>1, MatchKept
<1>7. SureIsTrue'
  <2> SUFFICES ASSUME NEW u \in Callers, NEW e \in Domains, SurelyHolds(u, e)'
               PROVE  /\ slot'[OwnSlot(u, e)'].state = "acquired"
                      /\ slot'[OwnSlot(u, e)'].by = u
                      /\ slot'[OwnSlot(u, e)'].left >= lease'[u][e].left
    BY DEF SureIsTrue
  <2>0. OwnSlot(u, e)' = OwnSlot(u, e) /\ e \in Held(u)
    BY <1>2, <1>h DEF OwnSlot, SurelyHolds
  <2>i. OwnSlot(u, e) \in Slots
    BY <2>0, IndexSlot DEF SlotInv, Placed, LeasePlaced, OwnSlot
  <2>l. /\ lease[u][e].left \in Int /\ lease'[u][e].left \in Int
        /\ put[t][d].left \in Int
    BY <1>2, <1>f DEF TypeOK, LeaseObjects, Lefts
  <2>1. CASE u = t /\ e = d /\ slot'[s] = RenewedSlot(t, d)
    <3>1. lease'[u][e].left <= put[t][d].left
      BY <2>1, <2>0, <2>l, <1>2, <1>f
    <3> QED
      BY <2>0, <2>1, <2>l, <3>1, <1>f
  <2>2. CASE slot' = slot /\ l.left = lease[t][d].left
    <3>1. lease'[u][e].left = lease[u][e].left
      BY <2>2, <1>2
    <3>2. SurelyHolds(u, e)
      BY <2>0, <3>1 DEF SurelyHolds
    <3> QED
      BY <2>0, <2>2, <3>1, <3>2 DEF SlotInv, SureIsTrue
  <2>3. CASE /\ ~(u = t /\ e = d) /\ <<t, "lease">> \in match[s]
             /\ \A x \in Slots : x # s => slot'[x] = slot[x]
    <3>1. lease'[u][e] = lease[u][e]
      BY <2>3, <1>2
    <3>2. SurelyHolds(u, e)
      BY <2>0, <3>1 DEF SurelyHolds
    <3>3. OwnSlot(u, e) # s
      <4> SUFFICES ASSUME OwnSlot(u, e) = s PROVE FALSE
        OBVIOUS
      <4>1. u = t
        BY <2>3, <3>2, OwnerKnown
      <4>2. e = d
        BY DEF OwnSlot, Renewed
      <4> QED
        BY <4>1, <4>2, <2>3
    <3> QED
      BY <2>0, <2>i, <2>3, <3>1, <3>2, <3>3 DEF SlotInv, SureIsTrue
  <2> QED
    BY <2>1, <2>2, <2>3, <1>w
<1> QED
  BY <1>4, <1>5, <1>6, <1>7 DEF SlotInv

(* A lease is dropped, with its tombstone or without.                      *)
LEMMA ReleaseStep ==
    ASSUME SlotInv, NEW t \in Callers, NEW d \in Domains, Releases(t, d),
           \/ Writes(OwnSlot(t, d), <<t, "lease">>, MkSlot("released", t, Now(t)), {})
           \/ /\ slot' = slot
              /\ match' = match \/ match' = Forget(OwnSlot(t, d), <<t, "lease">>),
           DropLease(t, d),
           UNCHANGED <<pc, sems, pass, put>>
    PROVE  SlotInv'
<1> DEFINE s == OwnSlot(t, d)
           o == MkSlot("released", t, Now(t))
<1> TypeOK
  BY DEF SlotInv
<1>0. d \in Held(t) /\ pc[t] = "exit" /\ s \in Slots
  <2>1. d \in Held(t) /\ pc[t] = "exit"
    BY DEF Releases, Last
  <2> QED
    BY <2>1, IndexSlot DEF SlotInv, Placed, LeasePlaced, OwnSlot
<1> s \in Slots
  BY <1>0
<1>o. o \in SlotObjects
  BY NowFacts DEF MkSlot, SlotObjects
<1>1. /\ slot' \in [Slots -> SlotObjects]
      /\ match' \in [Slots -> SUBSET (Callers \X {"pass", "lease"})]
      /\ \/ /\ <<t, "lease">> \in match[s] /\ match'[s] = {}
            /\ \A x \in Slots : x # s => slot'[x] = slot[x] /\ match'[x] = match[x]
         \/ slot' = slot /\ \A x \in Slots : match'[x] \subseteq match[x]
  <2>1. CASE Writes(s, <<t, "lease">>, o, {})
    <3>1. {} \in SUBSET (Callers \X {"pass", "lease"})
      OBVIOUS
    <3> HIDE DEF o
    <3> QED
      BY <2>1, <3>1, <1>o, WriteFacts
  <2>2. CASE slot' = slot /\ (match' = match \/ match' = Forget(s, <<t, "lease">>))
    BY <2>2 DEF Forget, TypeOK
  <2> QED
    BY <2>1, <2>2
<1>2. /\ lease'[t][d] = NoLease
      /\ \A u \in Callers : \A e \in Domains :
            ~(u = t /\ e = d) => lease'[u][e] = lease[u][e]
      /\ lease' \in [Callers -> [Domains -> LeaseObjects]]
  BY BlankTypes DEF TypeOK, DropLease
<1>3. TypeOK'
  BY <1>1, <1>2 DEF TypeOK
<1>4. /\ d \notin Held(t)'
      /\ \A u \in Callers : \A e \in Domains :
            ~(u = t /\ e = d) => (e \in Held(u)' <=> e \in Held(u))
  BY <1>2 DEF Held, NoLease, MkLease
<1>5. Placed'
  <2> SUFFICES ASSUME NEW u \in Callers
               PROVE  /\ PassPlaced(u)'
                      /\ \A e \in Domains : LeasePlaced(u, e)' /\ PutPlaced(u, e)'
    BY DEF Placed
  <2> PassPlaced(u) /\ \A e \in Domains : LeasePlaced(u, e) /\ PutPlaced(u, e)
    BY DEF SlotInv, Placed
  <2>1. PassPlaced(u)'
    <3>1. pass[u].domain \in Domains \/ PassOver(u)
      BY DEF TypeOK, Passes, PassOver
    <3>2. CASE u = t
      BY <3>2, <1>0 DEF PassPlaced, PassOver, Now
    <3>3. CASE u # t
      BY <3>1, <3>3, <1>4 DEF PassPlaced, PassOver, Now
    <3> QED
      BY <3>2, <3>3
  <2>2. ASSUME NEW e \in Domains PROVE LeasePlaced(u, e)' /\ PutPlaced(u, e)'
    <3>1. CASE u = t /\ e = d
      <4>1. lease'[u][e].left <= Now(t) + LeaseTTL
        BY <3>1, <1>2, NowFacts DEF NoLease, MkLease
      <4> QED
        BY <3>1, <4>1, <1>0, <1>4 DEF LeasePlaced, PutPlaced, Renewing, Now
    <3>2. CASE ~(u = t /\ e = d)
      BY <3>2, <1>2, <1>4 DEF LeasePlaced, PutPlaced, Renewing, Now
    <3> QED
      BY <3>1, <3>2
  <2> QED
    BY <2>1, <2>2
<1>6. MatchTrue'
  <2>1. \A x \in Slots :
               \/ slot'[x] = slot[x] /\ match'[x] \subseteq match[x]
               \/ /\ match'[x] \subseteq {<<t, "lease">>}
                  /\ match'[x] # {} => slot'[x].state = "acquired" /\ slot'[x].by = t
    BY <1>1
  <2> QED
    BY <2>1, MatchKept
<1>7. SureIsTrue'
  <2> SUFFICES ASSUME NEW u \in Callers, NEW e \in Domains, SurelyHolds(u, e)'
               PROVE  /\ slot'[OwnSlot(u, e)'].state = "acquired"
                      /\ slot'[OwnSlot(u, e)'].by = u
                      /\ slot'[OwnSlot(u, e)'].left >= lease'[u][e].left
    BY DEF SureIsTrue
  <2>1. ~(u = t /\ e = d)
    BY <1>4 DEF SurelyHolds
  <2>2. lease'[u][e] = lease[u][e] /\ OwnSlot(u, e)' = OwnSlot(u, e) /\ SurelyHolds(u, e)
    BY <2>1, <1>2, <1>4 DEF SurelyHolds, OwnSlot
  <2>3. OwnSlot(u, e) \in Slots
    BY <2>2, IndexSlot DEF SurelyHolds, SlotInv, Placed, LeasePlaced, OwnSlot
  <2>4. <<t, "lease">> \in match[s] => OwnSlot(u, e) # s
    <3> SUFFICES ASSUME <<t, "lease">> \in match[s], OwnSlot(u, e) = s PROVE FALSE
      OBVIOUS
    <3>1. u = t
      BY <2>2, OwnerKnown
    <3>2. e = d
      BY DEF OwnSlot
    <3> QED
      BY <2>1, <3>1, <3>2
  <2> QED
    BY <1>1, <2>2, <2>3, <2>4 DEF SlotInv, SureIsTrue
<1> QED
  BY <1>3, <1>5, <1>6, <1>7 DEF SlotInv

(* A process is killed: what it remembers is gone, the slots stay.         *)
LEMMA CrashSlotInv ==
    ASSUME SlotInv, NEW p \in Processes, Crash(p)
    PROVE  SlotInv'
<1> DEFINE dead == {t \in Callers : ProcessOf[t] = p}
<1> TypeOK
  BY DEF SlotInv
<1>1. \A u \in Callers :
        \/ /\ pc'[u] = "idle" /\ sems'[u] = {} /\ pass'[u] = NoPass
           /\ \A e \in Domains : lease'[u][e] = NoLease /\ put'[u][e] = NoPut
        \/ /\ pc'[u] = pc[u] /\ sems'[u] = sems[u] /\ pass'[u] = pass[u]
           /\ lease'[u] = lease[u] /\ put'[u] = put[u]
  BY DEF Crash
<1>2. slot' = slot /\ match' = [s \in Slots |-> {m \in match[s] : m[1] \notin dead}]
  BY DEF Crash
<1>3. TypeOK'
  <2>1. pc' \in [Callers -> {"idle", "sems", "leases", "work", "exit"}]
    BY DEF TypeOK, Crash
  <2>2. sems' \in [Callers -> SUBSET Domains]
    BY DEF TypeOK, Crash
  <2>3. lease' \in [Callers -> [Domains -> LeaseObjects]]
    BY BlankTypes DEF TypeOK, Crash
  <2>4. pass' \in [Callers -> Passes]
    BY BlankTypes DEF TypeOK, Crash
  <2>5. put' \in [Callers -> [Domains -> Puts]]
    BY BlankTypes DEF TypeOK, Crash
  <2>6. match' \in [Slots -> SUBSET (Callers \X {"pass", "lease"})]
    BY <1>2 DEF TypeOK
  <2> QED
    BY <1>2, <2>1, <2>2, <2>3, <2>4, <2>5, <2>6 DEF TypeOK
<1>4. Placed'
  <2> SUFFICES ASSUME NEW u \in Callers
               PROVE  /\ PassPlaced(u)'
                      /\ \A e \in Domains : LeasePlaced(u, e)' /\ PutPlaced(u, e)'
    BY DEF Placed
  <2> PassPlaced(u) /\ \A e \in Domains : LeasePlaced(u, e) /\ PutPlaced(u, e)
    BY DEF SlotInv, Placed
  <2> Floor <= Now(u) + LeaseTTL
    BY NowFacts
  <2>1. CASE /\ pc'[u] = "idle" /\ sems'[u] = {} /\ pass'[u] = NoPass
             /\ \A e \in Domains : lease'[u][e] = NoLease /\ put'[u][e] = NoPut
    BY <2>1 DEF PassPlaced, LeasePlaced, PutPlaced, PassOver, Held, Renewing,
                Now, NoPass, MkPass, NoLease, MkLease, NoPut, MkPut
  <2>2. CASE /\ pc'[u] = pc[u] /\ sems'[u] = sems[u] /\ pass'[u] = pass[u]
             /\ lease'[u] = lease[u] /\ put'[u] = put[u]
    BY <2>2 DEF PassPlaced, LeasePlaced, PutPlaced, PassOver, Held, Renewing, Now
  <2> QED
    BY <1>1, <2>1, <2>2
<1>5. MatchTrue'
  <2>1. \A s \in Slots : slot'[s] = slot[s] /\ match'[s] \subseteq match[s]
    BY <1>2
  <2>2. \A u \in Callers : pass'[u] = pass[u] \/ ~pass'[u].claiming
    BY <1>1 DEF NoPass, MkPass
  <2>3. PICK t \in Callers : TRUE
    BY DEF Crash
  <2> QED
    BY <2>1, <2>2, <2>3, MatchKept
<1>6. SureIsTrue'
  <2> SUFFICES ASSUME NEW u \in Callers, NEW e \in Domains, SurelyHolds(u, e)'
               PROVE  /\ slot'[OwnSlot(u, e)'].state = "acquired"
                      /\ slot'[OwnSlot(u, e)'].by = u
                      /\ slot'[OwnSlot(u, e)'].left >= lease'[u][e].left
    BY DEF SureIsTrue
  <2>1. lease'[u][e] # NoLease
    BY DEF SurelyHolds, Held, NoLease, MkLease
  <2>2. lease'[u] = lease[u]
    BY <1>1, <2>1
  <2> QED
    BY <1>2, <2>2 DEF SlotInv, SureIsTrue, SurelyHolds, Held, OwnSlot
<1> QED
  BY <1>3, <1>4, <1>5, <1>6 DEF SlotInv

-----------------------------------------------------------------------------
(* Every step keeps the invariant.                                         *)
LEMMA SlotInvNext == SlotInv /\ [Next]_vars => SlotInv'
<1> SUFFICES ASSUME SlotInv, [Next]_vars PROVE SlotInv'
  OBVIOUS
<1> TypeOK /\ Placed
  BY DEF SlotInv
<1>1. CASE Tick
  BY <1>1, TickSlotInv
<1>2. ASSUME NEW t \in Callers, Begin(t) PROVE SlotInv'
  <2>1. PassOver(t) /\ Held(t) = {}
    BY <1>2 DEF Begin, Placed, PassPlaced, LeasePlaced, Held
  <2> QED
    BY <1>2, <2>1, PcStep DEF Begin, TypeOK
<1>3. ASSUME NEW t \in Callers, NEW d \in Domains, TakeSemaphore(t, d) PROVE SlotInv'
  <2> DEFINE l == IF Missing(t) = {d} THEN "leases" ELSE pc[t]
  <2>0. pc[t] = "sems"
    BY <1>3 DEF TakeSemaphore, WantsSemaphore
  <2>1. PassOver(t) /\ Held(t) = {}
    BY <2>0 DEF Placed, PassPlaced, LeasePlaced, Held
  <2>2. \A e \in Domains : ~Renewing(t, e)
    BY <2>0, <2>1 DEF Placed, PutPlaced
  <2>3. l \in {"idle", "sems", "leases", "work", "exit"}
    BY <2>0
  <2>4. pc' = [pc EXCEPT ![t] = l]
    BY <1>3 DEF TakeSemaphore
  <2>5. sems' \in [Callers -> SUBSET Domains]
    BY <1>3 DEF TakeSemaphore, TypeOK
  <2>6. UNCHANGED <<slot, match, lease, pass, put>>
    BY <1>3 DEF TakeSemaphore
  <2> HIDE DEF l
  <2> QED
    BY <2>1, <2>2, <2>3, <2>4, <2>5, <2>6, PcStep
<1>4. ASSUME NEW t \in Callers, NEW d \in Domains, SemaphoreStop(t, d) PROVE SlotInv'
  <2>1. PassOver(t) /\ Held(t) = {}
    BY <1>4 DEF SemaphoreStop, WantsSemaphore, Placed, PassPlaced, LeasePlaced, Held
  <2> QED
    BY <1>4, <2>1, PcStep DEF SemaphoreStop, TypeOK
<1>5. ASSUME NEW t \in Callers, NEW d \in Domains, PassStart(t, d) PROVE SlotInv'
  <2> DEFINE r == MkPass(d, Now(t), 0, FALSE, Floor)
  <2>1. r \in Passes /\ ~r.claiming /\ r.left = Floor /\ r.domain = d
    BY NowFacts, BlankTypes DEF MkPass, Passes
  <2>2. pc[t] = "leases" /\ d \notin Held(t)
    BY <1>5 DEF PassStart, WantsSlot, First, Unleased
  <2>3. pass' = [pass EXCEPT ![t] = r] /\ UNCHANGED <<slot, match, pc, sems, lease, put>>
    BY <1>5 DEF PassStart
  <2> HIDE DEF r
  <2> QED
    BY <2>1, <2>2, <2>3, PassStep
<1>6. ASSUME NEW t \in Callers, NEW d \in Domains, LeaseStop(t, d) PROVE SlotInv'
  BY <1>6, PcStep DEF LeaseStop, WantsSlot, TypeOK
<1>7. ASSUME NEW t \in Callers, ProbeOccupied(t) PROVE SlotInv'
  <2>1. ~PassOver(t) /\ PassOn(t) /\ UNCHANGED <<slot, match, pc, sems, lease, put>>
    BY <1>7 DEF ProbeOccupied
  <2> QED
    BY <2>1, PassOnStep, PassStep
<1>8. ASSUME NEW t \in Callers, ProbeFree(t) PROVE SlotInv'
  BY <1>8, ProbeFreeSlotInv
<1>9. ASSUME NEW t \in Callers, ClaimWins(t) PROVE SlotInv'
  BY <1>9, ClaimWinsSlotInv
<1>10. ASSUME NEW t \in Callers, ClaimAnswerLost(t) PROVE SlotInv'
  <2>1. pass[t].claiming /\ Writes(SlotAt(t), <<t, "pass">>, ClaimedSlot(t), {})
    BY <1>10 DEF ClaimAnswerLost
  <2>2. ~PassOver(t) /\ pc[t] = "leases"
    BY <2>1, ClaimFacts
  <2>3. PassOn(t) /\ UNCHANGED <<pc, sems, lease, put>>
    BY <1>10 DEF ClaimAnswerLost
  <2>4. PICK r \in Passes :
             /\ pass' = [pass EXCEPT ![t] = r]
             /\ ~r.claiming /\ r.left = Floor
             /\ r.domain # -1 => pc[t] = "leases" /\ r.domain \notin Held(t)
    BY <2>2, <2>3, PassOnStep
  <2>5. pc' = [pc EXCEPT ![t] = "leases"]
    BY <2>2, <2>3 DEF TypeOK
  <2>6. "leases" \in {"leases", "exit"}
    OBVIOUS
  <2> QED
    BY <2>1, <2>2, <2>3, <2>4, <2>5, <2>6, ClaimLostStep
<1>11. ASSUME NEW t \in Callers, ClaimConflict(t) PROVE SlotInv'
  <2>1. pass[t].claiming /\ PassOn(t) /\ UNCHANGED <<slot, match, pc, sems, lease, put>>
    BY <1>11 DEF ClaimConflict
  <2>2. ~PassOver(t)
    BY <2>1, ClaimFacts
  <2> QED
    BY <2>1, <2>2, PassOnStep, PassStep
<1>12. ASSUME NEW t \in Callers, AcquireRaises(t) PROVE SlotInv'
  <2>1. /\ ~PassOver(t)
        /\ \/ pass[t].claiming /\ Writes(SlotAt(t), <<t, "pass">>, ClaimedSlot(t), {})
           \/ slot' = slot /\ match' = Forget(SlotAt(t), <<t, "pass">>)
        /\ pass' = [pass EXCEPT ![t] = NoPass]
        /\ pc' = [pc EXCEPT ![t] = "exit"]
        /\ UNCHANGED <<sems, lease, put>>
    BY <1>12 DEF AcquireRaises
  <2>2. NoPass \in Passes /\ ~NoPass.claiming /\ NoPass.left = Floor /\ NoPass.domain = -1
    BY BlankTypes DEF NoPass, MkPass
  <2>3. "exit" \in {"leases", "exit"}
    OBVIOUS
  <2> QED
    BY <2>1, <2>2, <2>3, ClaimLostStep
<1>13. ASSUME NEW t \in Callers, Work(t) PROVE SlotInv'
  <2>1. pc[t] = "leases" /\ PassOver(t)
    BY <1>13 DEF Work
  <2>2. \A d \in Domains : d \notin Held(t) => ~Renewing(t, d)
    BY <2>1 DEF Placed, PutPlaced
  <2> QED
    BY <1>13, <2>1, <2>2, PcStep DEF Work, TypeOK
<1>14. ASSUME NEW t \in Callers, WorkEnds(t) PROVE SlotInv'
  <2>1. PassOver(t)
    BY <1>14 DEF WorkEnds, Placed, PassPlaced
  <2> QED
    BY <1>14, <2>1, PcStep DEF WorkEnds, TypeOK
<1>15. ASSUME NEW t \in Callers, NEW d \in Domains, RenewStart(t, d) PROVE SlotInv'
  BY <1>15, RenewStartSlotInv
<1>16. ASSUME NEW t \in Callers, NEW d \in Domains, RenewWins(t, d) PROVE SlotInv'
  <2>1. /\ Renewing(t, d) /\ RenewDone(t, d) /\ UNCHANGED <<pc, sems, pass>>
        /\ Writes(Renewed(t, d), <<t, "lease">>, RenewedSlot(t, d), LeaseKnows(t, d))
    BY <1>16 DEF RenewWins
  <2> DEFINE l == IF d \in Held(t) THEN [lease[t][d] EXCEPT !.left = put[t][d].left]
                  ELSE lease[t][d]
  <2>2. /\ l \in LeaseObjects /\ l.index = lease[t][d].index
        /\ l = lease[t][d] \/ l.left = put[t][d].left
    <3>1. lease[t][d] \in LeaseObjects
      BY DEF TypeOK
    <3>2. put[t][d].left \in Lefts
      BY <2>1, RenewFacts
    <3> QED
      BY <3>1, <3>2 DEF LeaseObjects
  <2>3. lease' = [lease EXCEPT ![t][d] = l]
    BY <1>16 DEF RenewWins, TypeOK
  <2>4. LeaseKnows(t, d) \in SUBSET {<<t, "lease">>}
    BY <2>1, RenewFacts
  <2> HIDE DEF l
  <2> QED
    BY <2>1, <2>2, <2>3, <2>4, RenewStep
<1>17. ASSUME NEW t \in Callers, NEW d \in Domains, RenewConflict(t, d) PROVE SlotInv'
  <2>1. /\ Renewing(t, d) /\ RenewDone(t, d) /\ UNCHANGED <<pc, sems, pass>>
        /\ \/ slot' = slot /\ match' = match
           \/ Writes(Renewed(t, d), <<t, "lease">>, RenewedSlot(t, d), {})
    BY <1>17 DEF RenewConflict
  <2> DEFINE l == IF d \in Held(t) THEN [lease[t][d] EXCEPT !.lost = TRUE]
                  ELSE lease[t][d]
  <2>2. /\ l \in LeaseObjects /\ l.index = lease[t][d].index
        /\ l.left = lease[t][d].left
    <3>1. lease[t][d] \in LeaseObjects
      BY DEF TypeOK
    <3> QED
      BY <3>1 DEF LeaseObjects
  <2>3. lease' = [lease EXCEPT ![t][d] = l]
    BY <1>17 DEF RenewConflict, TypeOK
  <2>4. {} \in SUBSET {<<t, "lease">>}
    OBVIOUS
  <2> HIDE DEF l
  <2> QED
    BY <2>1, <2>2, <2>3, <2>4, RenewStep
<1>18. ASSUME NEW t \in Callers, NEW d \in Domains, RenewFails(t, d) PROVE SlotInv'
  <2>1. /\ Renewing(t, d) /\ RenewDone(t, d) /\ UNCHANGED <<pc, sems, lease, pass>>
        /\ \/ /\ slot' = slot
              /\ match' = match \/ match' = Forget(Renewed(t, d), <<t, "lease">>)
           \/ Writes(Renewed(t, d), <<t, "lease">>, RenewedSlot(t, d), {})
    BY <1>18 DEF RenewFails
  <2>2. lease[t][d] \in LeaseObjects /\ lease' = [lease EXCEPT ![t][d] = lease[t][d]]
    BY <2>1 DEF TypeOK
  <2>3. {} \in SUBSET {<<t, "lease">>}
    OBVIOUS
  <2> QED
    BY <2>1, <2>2, <2>3, RenewStep
<1>19. ASSUME NEW t \in Callers, NEW d \in Domains, ReleaseLands(t, d) PROVE SlotInv'
  BY <1>19, ReleaseStep DEF ReleaseLands
<1>20. ASSUME NEW t \in Callers, NEW d \in Domains, ReleaseSkipped(t, d) PROVE SlotInv'
  BY <1>20, ReleaseStep DEF ReleaseSkipped
<1>21. ASSUME NEW t \in Callers, ReleaseSemaphores(t) PROVE SlotInv'
  <2>1. PassOver(t)
    BY <1>21 DEF ReleaseSemaphores, Placed, PassPlaced
  <2> QED
    BY <1>21, <2>1, PcStep DEF ReleaseSemaphores, TypeOK
<1>22. ASSUME NEW p \in Processes, Crash(p) PROVE SlotInv'
  BY <1>22, CrashSlotInv
<1>23. CASE UNCHANGED vars
  <2>1. TypeOK'
    BY <1>23 DEF vars, TypeOK
  <2>2. Placed'
    BY <1>23 DEF vars, Placed, PassPlaced, LeasePlaced, PutPlaced, PassOver, Held,
                 Renewing, Now
  <2>3. MatchTrue'
    BY <1>23 DEF vars, SlotInv, MatchTrue, SlotAt, SlotIndex, Reclaimable
  <2>4. SureIsTrue'
    BY <1>23 DEF vars, SlotInv, SureIsTrue, SurelyHolds, Held, OwnSlot
  <2> QED
    BY <2>1, <2>2, <2>3, <2>4 DEF SlotInv
<1> QED
  BY <1>1, <1>2, <1>3, <1>4, <1>5, <1>6, <1>7, <1>8, <1>9, <1>10, <1>11, <1>12,
     <1>13, <1>14, <1>15, <1>16, <1>17, <1>18, <1>19, <1>20, <1>21, <1>22, <1>23
     DEF Next, Runs, Resolves

(* The slots stay well-formed.                                             *)
THEOREM TypeCorrect == Spec => []TypeOK
<1>1. SlotInv => TypeOK
  BY DEF SlotInv
<1> QED
  BY <1>1, SlotInvInit, SlotInvNext, PTL DEF Spec

(* What a caller surely holds is what the slot object says.                *)
THEOREM SureHoldersAreTrue == Spec => []SureIsTrue
<1>1. SlotInv => SureIsTrue
  BY DEF SlotInv
<1> QED
  BY <1>1, SlotInvInit, SlotInvNext, PTL DEF Spec

(* Until an expiry passes, no more callers fetch from a domain than it has *)
(* slots: each sure holder has a slot index of its own.                    *)
THEOREM CapHolds == Spec => []CapUntilExpiry
<1>1. ASSUME SlotInv PROVE CapUntilExpiry
  <2> SUFFICES ASSUME NEW d \in Domains
               PROVE  Cardinality({t \in Callers : SurelyHolds(t, d)}) <= SlotCount[d]
    BY DEF CapUntilExpiry
  <2> DEFINE H == {t \in Callers : SurelyHolds(t, d)}
             f == [t \in H |-> lease[t][d].index]
  <2>1. SlotCount[d] \in Nat \ {0}
    BY ProviderAssumption
  <2>2. f \in Injection(H, Indices(d))
    <3>1. \A t \in H : lease[t][d].index \in Indices(d)
      BY <1>1 DEF SlotInv, Placed, LeasePlaced, SurelyHolds
    <3>2. ASSUME NEW t \in H, NEW u \in H, lease[t][d].index = lease[u][d].index
          PROVE  t = u
      <4>1. OwnSlot(t, d) = OwnSlot(u, d)
        BY <3>2 DEF OwnSlot
      <4>2. slot[OwnSlot(t, d)].by = t /\ slot[OwnSlot(u, d)].by = u
        BY <1>1 DEF SlotInv, SureIsTrue
      <4> QED
        BY <4>1, <4>2
    <3>3. f \in [H -> Indices(d)]
      BY <3>1
    <3>4. \A t, u \in H : f[t] = f[u] => t = u
      BY <3>2
    <3> QED
      BY <3>3, <3>4 DEF Injection, IsInjective
  <2>3. IsFiniteSet(Indices(d)) /\ Cardinality(Indices(d)) = SlotCount[d]
    <3>1. 0 \in Int /\ SlotCount[d] - 1 \in Int
      BY <2>1
    <3>2. /\ IsFiniteSet(0..(SlotCount[d] - 1))
          /\ Cardinality(0..(SlotCount[d] - 1)) =
                IF 0 > SlotCount[d] - 1 THEN 0 ELSE (SlotCount[d] - 1) - 0 + 1
      BY <3>1, FS_Interval
    <3> QED
      BY <2>1, <3>2 DEF Indices
  <2>4. Cardinality(H) <= Cardinality(Indices(d))
    BY <2>2, <2>3, FS_Injection DEF ExistsInjection
  <2> QED
    BY <2>3, <2>4
<1> QED
  BY <1>1, SlotInvInit, SlotInvNext, PTL DEF Spec

(* A tombstone only ever replaces the releaser's own claim.                *)
THEOREM ReleasesOnlyOwn == Spec => FreesOnlyOwn
<1> DEFINE A == \A s \in Slots :
                    slot'[s].state = "released" /\ slot'[s] # slot[s]
                        /\ slot[s].state # "released" => slot'[s].by = slot[s].by
<1>1. ASSUME SlotInv, Next PROVE A
  <2> SUFFICES ASSUME NEW s \in Slots, slot'[s].state = "released", slot'[s] # slot[s],
                      slot[s].state # "released"
               PROVE  slot'[s].by = slot[s].by
    OBVIOUS
  <2> TypeOK
    BY <1>1 DEF SlotInv
  <2>1. ASSUME NEW x \in Slots, NEW who, NEW object, NEW learns,
               Writes(x, who, object, learns), object.state = "acquired"
        PROVE  FALSE
    BY <2>1 DEF Writes, TypeOK
  <2>2. CASE Tick
    <3>1. slot[s] \in SlotObjects
      BY DEF TypeOK
    <3>2. slot'[s] = [slot[s] EXCEPT !.left = Age(@)]
      BY <2>2 DEF Tick
    <3> QED
      BY <3>1, <3>2 DEF SlotObjects
  <2>3. ASSUME NEW t \in Callers,
               ClaimWins(t) \/ ClaimAnswerLost(t) \/ AcquireRaises(t)
        PROVE  FALSE
    <3>1. pass[t].claiming /\ \E learns : Writes(SlotAt(t), <<t, "pass">>, ClaimedSlot(t), learns)
      BY <2>3 DEF ClaimWins, ClaimAnswerLost, AcquireRaises
    <3>2. SlotAt(t) \in Slots /\ ClaimedSlot(t).state = "acquired"
      BY <3>1, <1>1, ClaimFacts
    <3> QED
      BY <3>1, <3>2, <2>1
  <2>4. ASSUME NEW t \in Callers, NEW d \in Domains, Resolves(t, d)
        PROVE  FALSE
    <3>1. Renewing(t, d) /\ \E learns : Writes(Renewed(t, d), <<t, "lease">>, RenewedSlot(t, d), learns)
      BY <2>4 DEF Resolves, RenewWins, RenewConflict, RenewFails
    <3>2. Renewed(t, d) \in Slots /\ RenewedSlot(t, d).state = "acquired"
      BY <3>1, <1>1, RenewFacts
    <3> QED
      BY <3>1, <3>2, <2>1
  <2>5. ASSUME NEW t \in Callers, NEW d \in Domains, ReleaseLands(t, d)
        PROVE  slot'[s].by = slot[s].by
    <3> DEFINE x == OwnSlot(t, d)
    <3>1. Writes(x, <<t, "lease">>, MkSlot("released", t, Now(t)), {}) /\ d \in Held(t)
      BY <2>5 DEF ReleaseLands, Releases, Last
    <3>2. x \in Slots
      BY <3>1, <1>1, IndexSlot DEF SlotInv, Placed, LeasePlaced, OwnSlot
    <3>3. s = x /\ slot'[s] = MkSlot("released", t, Now(t)) /\ <<t, "lease">> \in match[x]
      BY <3>1, <3>2 DEF Writes, TypeOK
    <3>4. slot[x].by = t
      BY <3>2, <3>3, <1>1 DEF SlotInv, MatchTrue
    <3> QED
      BY <3>3, <3>4 DEF MkSlot
  <2>6. CASE slot' = slot
    BY <2>6
  <2> QED
    BY <1>1, <2>2, <2>3, <2>4, <2>5, <2>6
       DEF Next, Runs, Begin, TakeSemaphore, SemaphoreStop, PassStart, LeaseStop,
           ProbeOccupied, ProbeFree, ClaimConflict, Work, WorkEnds, RenewStart,
           ReleaseSkipped, ReleaseSemaphores, Crash
<1>2. SlotInv /\ [Next]_vars => [A]_vars
  BY <1>1
<1> QED
  BY <1>2, SlotInvInit, SlotInvNext, PTL DEF Spec, FreesOnlyOwn

-----------------------------------------------------------------------------
(* The order in which a caller takes what it needs.                        *)
LEMMA OrderedSame ==
    ASSUME NEW t \in Callers, OrderedAt(t),
           pc'[t] = pc[t], sems'[t] = sems[t], Held(t)' = Held(t),
           pass'[t].domain = pass[t].domain \/ pass'[t].domain = -1
    PROVE  OrderedAt(t)'
BY DEF OrderedAt, Missing, Unleased, PassOver, WantsSlot, First

LEMMA OrderedDone ==
    ASSUME NEW t \in Callers, pass'[t].domain = -1,
           pc'[t] \in {"work", "exit"} \/ (pc'[t] = "idle" /\ sems'[t] = {})
    PROVE  OrderedAt(t)'
BY DEF OrderedAt, PassOver

LEMMA InOrderInit == Init => InOrder
BY DEF Init, InOrder, OrderedAt, PassOver, NoPass, MkPass

LEMMA InOrderNext == SlotInv /\ InOrder /\ [Next]_vars => InOrder'
<1> SUFFICES ASSUME SlotInv, InOrder, [Next]_vars, NEW u \in Callers PROVE OrderedAt(u)'
  BY DEF InOrder
<1> TypeOK /\ Placed /\ OrderedAt(u)
  BY DEF SlotInv, InOrder
<1> Domains \subseteq Nat
  BY ProviderAssumption
<1> DEFINE Same(t) == /\ pc'[t] = pc[t] /\ sems'[t] = sems[t] /\ Held(t)' = Held(t)
                      /\ pass'[t].domain = pass[t].domain \/ pass'[t].domain = -1
<1>s. Same(u) => OrderedAt(u)'
  BY OrderedSame
<1>n. NoPass.domain = -1
  BY DEF NoPass, MkPass
<1>p. ASSUME NEW t \in Callers, PassOn(t)
      PROVE  pass'[u].domain = pass[u].domain \/ pass'[u].domain = -1
  BY <1>p DEF PassOn, TypeOK, MkPass, NoPass
<1>r. ASSUME NEW t \in Callers, NEW d \in Domains, NEW l,
             lease' = [lease EXCEPT ![t][d] = l], l.index = lease[t][d].index
      PROVE  Held(u)' = Held(u)
  BY <1>r DEF Held, TypeOK
<1>1. CASE Tick
  <2>1. Held(u)' = Held(u)
    <3>1. ASSUME NEW d \in Domains PROVE lease'[u][d].index = lease[u][d].index
      <4>1. lease'[u][d] = [lease[u][d] EXCEPT !.left = Age(@)]
        BY <1>1 DEF Tick
      <4>2. lease[u][d] \in LeaseObjects
        BY DEF TypeOK
      <4> QED
        BY <4>1, <4>2 DEF LeaseObjects
    <3> QED
      BY <3>1 DEF Held
  <2>2. pass'[u].domain = pass[u].domain
    BY <1>1 DEF Tick, TypeOK, Passes
  <2> QED
    BY <1>1, <2>1, <2>2, <1>s DEF Tick
<1>2. ASSUME NEW t \in Callers, Begin(t) PROVE OrderedAt(u)'
  <2>1. CASE u = t
    <3>1. pc'[u] = "sems" /\ sems'[u] = {} /\ PassOver(u)'
      BY <1>2, <2>1 DEF Begin, TypeOK, OrderedAt, Placed, PassPlaced, PassOver
    <3> QED
      BY <3>1 DEF OrderedAt
  <2>2. CASE u # t
    BY <1>2, <2>2, <1>s DEF Begin, TypeOK, Held
  <2> QED
    BY <2>1, <2>2
<1>3. ASSUME NEW t \in Callers, NEW d \in Domains, TakeSemaphore(t, d) PROVE OrderedAt(u)'
  <2>1. CASE u = t
    <3>1. /\ pc[u] = "sems" /\ First(u, d, Missing(u))
          /\ sems' = [sems EXCEPT ![u] = @ \cup {d}]
          /\ pc' = [pc EXCEPT ![u] = IF Missing(u) = {d} THEN "leases" ELSE @]
          /\ lease' = lease /\ pass' = pass
      BY <1>3, <2>1 DEF TakeSemaphore, WantsSemaphore
    <3>2. Held(u)' = {}
      BY <3>1 DEF Placed, LeasePlaced, Held
    <3>3. PassOver(u)'
      BY <3>1 DEF Placed, PassPlaced, PassOver
    <3>4. pc'[u] \in {"sems", "leases"}
      BY <3>1 DEF TypeOK
    <3>5. ASSUME NEW c \in sems'[u], NEW e \in Missing(u)' PROVE c < e
      <4>1. c = d \/ c \in sems[u]
        BY <3>1 DEF TypeOK
      <4>2. e \in Missing(u) /\ e # d
        BY <3>1, <3>5 DEF Missing, TypeOK
      <4>3. e \in Nat /\ d \in Nat
        BY <4>2, ProviderAssumption DEF Missing
      <4>4. d <= e
        BY <3>1, <4>2 DEF First
      <4>5. c \in sems[u] => c < e
        BY <3>1, <4>2 DEF OrderedAt
      <4> QED
        BY <4>1, <4>2, <4>3, <4>4, <4>5
    <3> QED
      BY <3>2, <3>3, <3>4, <3>5 DEF OrderedAt
  <2>2. CASE u # t
    BY <1>3, <2>2, <1>s DEF TakeSemaphore, TypeOK, Held
  <2> QED
    BY <2>1, <2>2
<1>4. ASSUME NEW t \in Callers,
             \/ \E d \in Domains : SemaphoreStop(t, d) \/ LeaseStop(t, d)
             \/ AcquireRaises(t) \/ Work(t) \/ WorkEnds(t) \/ ReleaseSemaphores(t)
      PROVE  OrderedAt(u)'
  <2>0. lease' = lease /\ (pass' = pass \/ pass' = [pass EXCEPT ![t] = NoPass])
    BY <1>4 DEF SemaphoreStop, LeaseStop, AcquireRaises, Work, WorkEnds, ReleaseSemaphores
  <2>1. CASE u = t
    <3>1. pc'[u] \in {"work", "exit"} \/ (pc'[u] = "idle" /\ sems'[u] = {})
      BY <1>4, <2>1 DEF SemaphoreStop, LeaseStop, AcquireRaises, Work, WorkEnds,
                        ReleaseSemaphores, TypeOK
    <3>2. pass'[u] = NoPass \/ (pass' = pass /\ PassOver(u))
      BY <1>4, <2>1 DEF SemaphoreStop, LeaseStop, AcquireRaises, Work, WorkEnds,
                        ReleaseSemaphores, TypeOK, WantsSemaphore, Placed, PassPlaced
    <3>3. pass'[u].domain = -1
      BY <3>2, <1>n DEF PassOver
    <3> QED
      BY <3>1, <3>3, OrderedDone
  <2>2. CASE u # t
    <3>1. pc'[u] = pc[u] /\ sems'[u] = sems[u]
      BY <1>4, <2>2 DEF SemaphoreStop, LeaseStop, AcquireRaises, Work, WorkEnds,
                        ReleaseSemaphores, TypeOK
    <3>2. pass'[u] = pass[u] /\ Held(u)' = Held(u)
      BY <2>0, <2>2 DEF TypeOK, Held
    <3> QED
      BY <3>1, <3>2, <1>s
  <2> QED
    BY <2>1, <2>2
<1>5. ASSUME NEW t \in Callers, NEW d \in Domains, PassStart(t, d) PROVE OrderedAt(u)'
  <2>1. CASE u = t
    <3>1. /\ pass'[u].domain = d /\ WantsSlot(u, d)
          /\ UNCHANGED <<pc, sems, lease>>
      BY <1>5, <2>1 DEF PassStart, TypeOK, MkPass
    <3> QED
      BY <3>1 DEF OrderedAt, WantsSlot, Unleased, Missing, Held, First
  <2>2. CASE u # t
    BY <1>5, <2>2, <1>s DEF PassStart, TypeOK, Held
  <2> QED
    BY <2>1, <2>2
<1>6. ASSUME NEW t \in Callers, ProbeOccupied(t) \/ ClaimConflict(t) \/ ClaimAnswerLost(t)
      PROVE  OrderedAt(u)'
  BY <1>6, <1>p, <1>s DEF ProbeOccupied, ClaimConflict, ClaimAnswerLost, Held
<1>7. ASSUME NEW t \in Callers, ProbeFree(t) PROVE OrderedAt(u)'
  <2>1. pass'[u].domain = pass[u].domain
    BY <1>7 DEF ProbeFree, TypeOK, Passes
  <2> QED
    BY <1>7, <2>1, <1>s DEF ProbeFree, Held
<1>8. ASSUME NEW t \in Callers, ClaimWins(t) PROVE OrderedAt(u)'
  <2> DEFINE d == pass[t].domain
             l == MkLease(SlotIndex(t), pass[t].left, FALSE)
  <2>0. /\ pass[t].claiming /\ UNCHANGED <<pc, sems>>
        /\ lease' = [lease EXCEPT ![t][d] = l]
        /\ pass' = [pass EXCEPT ![t] = NoPass]
    BY <1>8 DEF ClaimWins
  <2>f. ~PassOver(t) /\ d \in Domains /\ SlotIndex(t) \in Indices(d)
    BY <2>0, ClaimFacts
  <2>l. l.index # -1
    BY <2>f, IndexSlot DEF MkLease
  <2> HIDE DEF d, l
  <2>1. CASE u = t
    <3>1. Held(u)' = Held(u) \cup {d}
      BY <2>0, <2>1, <2>f, <2>l DEF Held, TypeOK
    <3>2. PassOver(u)' /\ pc'[u] = pc[u] /\ sems'[u] = sems[u]
      BY <2>0, <2>1, <1>n DEF PassOver, TypeOK
    <3>3. pc[u] = "leases" /\ First(u, d, Unleased(u))
      BY <2>1, <2>f DEF OrderedAt, WantsSlot, d
    <3>4. ASSUME NEW c \in Held(u)', NEW e \in Unleased(u)' PROVE c < e
      <4>1. e \in Unleased(u) /\ e # d
        BY <3>1, <3>4 DEF Unleased
      <4>2. c = d \/ c \in Held(u)
        BY <3>1
      <4>3. e \in Nat /\ d \in Nat
        BY <4>1, <2>f, ProviderAssumption DEF Unleased
      <4>4. d <= e
        BY <3>3, <4>1 DEF First
      <4>5. c \in Held(u) => c < e
        BY <3>3, <4>1 DEF OrderedAt
      <4> QED
        BY <4>1, <4>2, <4>3, <4>4, <4>5
    <3> QED
      BY <3>2, <3>3, <3>4 DEF OrderedAt
  <2>2. CASE u # t
    BY <2>0, <2>2, <1>s DEF Held, TypeOK
  <2> QED
    BY <2>1, <2>2
<1>9. ASSUME NEW t \in Callers, NEW d \in Domains, RenewStart(t, d) PROVE OrderedAt(u)'
  BY <1>9, <1>s DEF RenewStart, Held
<1>10. ASSUME NEW t \in Callers, NEW d \in Domains, Resolves(t, d) PROVE OrderedAt(u)'
  <2>1. /\ UNCHANGED <<pc, sems, pass>>
        /\ \/ lease' = lease
           \/ lease' = [lease EXCEPT ![t][d].left = put[t][d].left]
           \/ lease' = [lease EXCEPT ![t][d].lost = TRUE]
    BY <1>10 DEF Resolves, RenewWins, RenewConflict, RenewFails
  <2>2. ASSUME NEW e \in Domains PROVE lease'[u][e].index = lease[u][e].index
    <3>1. lease[u][e] \in LeaseObjects
      BY DEF TypeOK
    <3>2. \/ lease'[u][e] = lease[u][e]
          \/ lease'[u][e] = [lease[u][e] EXCEPT !.left = put[t][d].left]
          \/ lease'[u][e] = [lease[u][e] EXCEPT !.lost = TRUE]
      <4>0. lease \in [Callers -> [Domains -> LeaseObjects]]
        BY DEF TypeOK
      <4>1. CASE u = t /\ e = d
        <5>1. CASE lease' = lease
          BY <5>1
        <5>2. CASE lease' = [lease EXCEPT ![t][d].left = put[t][d].left]
          BY <5>2, <4>0, <4>1
        <5>3. CASE lease' = [lease EXCEPT ![t][d].lost = TRUE]
          BY <5>3, <4>0, <4>1
        <5> QED
          BY <2>1, <5>1, <5>2, <5>3
      <4>2. CASE ~(u = t /\ e = d)
        BY <2>1, <4>2 DEF TypeOK
      <4> QED
        BY <4>1, <4>2
    <3> QED
      BY <3>1, <3>2 DEF LeaseObjects
  <2> QED
    BY <2>1, <2>2, <1>s DEF Held
<1>11. ASSUME NEW t \in Callers, NEW d \in Domains,
              ReleaseLands(t, d) \/ ReleaseSkipped(t, d)
       PROVE  OrderedAt(u)'
  <2>1. /\ pc[t] = "exit" /\ DropLease(t, d) /\ UNCHANGED <<pc, sems, pass>>
    BY <1>11 DEF ReleaseLands, ReleaseSkipped, Releases
  <2>2. CASE u = t
    <3>1. pass'[u].domain = -1
      BY <2>1, <2>2 DEF Placed, PassPlaced, PassOver
    <3> QED
      BY <2>1, <2>2, <3>1, OrderedDone
  <2>3. CASE u # t
    BY <2>1, <2>3, <1>s DEF DropLease, Held, TypeOK
  <2> QED
    BY <2>2, <2>3
<1>12. ASSUME NEW p \in Processes, Crash(p) PROVE OrderedAt(u)'
  <2>1. CASE ProcessOf[u] = p
    BY <1>12, <2>1, <1>n, OrderedDone DEF Crash
  <2>2. CASE ProcessOf[u] # p
    BY <1>12, <2>2, <1>s DEF Crash, Held
  <2> QED
    BY <2>1, <2>2
<1>13. CASE UNCHANGED vars
  BY <1>13, <1>s DEF vars, Held
<1> QED
  BY <1>1, <1>2, <1>3, <1>4, <1>5, <1>6, <1>7, <1>8, <1>9, <1>10, <1>11, <1>12, <1>13
     DEF Next, Runs

(* A finite set on which a relation is irreflexive and transitive has an   *)
(* element nothing in the set is above.                                    *)
LEMMA TopExists ==
    ASSUME NEW S, IsFiniteSet(S), S # {}, NEW R,
           \A x \in S : <<x, x>> \notin R,
           \A x, y, z \in S : <<x, y>> \in R /\ <<y, z>> \in R => <<x, z>> \in R
    PROVE  \E x \in S : \A y \in S : <<y, x>> \notin R
<1> DEFINE Up(x) == {y \in S : <<y, x>> \in R}
           U == {Up(x) : x \in S}
<1>1. IsWellFoundedOn(StrictSubsetOrdering(S), SUBSET S)
  BY FS_StrictSubsetOrderingWellFounded, FS_FiniteSubsetsOfFinite
<1>2. U \subseteq SUBSET S /\ U # {}
  <2>1. PICK x \in S : TRUE
    OBVIOUS
  <2>2. Up(x) \in U
    OBVIOUS
  <2>3. \A y \in S : Up(y) \in SUBSET S
    OBVIOUS
  <2> HIDE DEF Up
  <2> QED
    BY <2>2, <2>3
<1>3. PICK m \in U : \A n \in U : <<n, m>> \notin StrictSubsetOrdering(S)
  <2> HIDE DEF U
  <2> QED
    BY <1>1, <1>2, WFMin
<1>4. PICK x \in S : m = Up(x)
  OBVIOUS
<1>5. ASSUME NEW y \in S, <<y, x>> \in R PROVE FALSE
  <2>1. Up(y) \subseteq Up(x)
    BY <1>5
  <2>2. y \in Up(x) /\ y \notin Up(y)
    BY <1>5
  <2>3. Up(y) \in U /\ Up(y) \in SUBSET S /\ Up(x) \in SUBSET S
    OBVIOUS
  <2> HIDE DEF Up, U
  <2>4. <<Up(y), Up(x)>> \in StrictSubsetOrdering(S)
    BY <2>1, <2>2, <2>3 DEF StrictSubsetOrdering
  <2> QED
    BY <1>3, <1>4, <2>3, <2>4
<1> QED
  BY <1>5

(* In any set of callers there is one that does not wait for another of    *)
(* the set: the one waiting for the slots of the last domain, or, if all   *)
(* wait for semaphores, for that of the last.                              *)
THEOREM NoDeadlock == Spec => []NoCircularWait
<1>1. ASSUME SlotInv, InOrder PROVE NoCircularWait
  <2> SUFFICES ASSUME NEW S \in (SUBSET Callers) \ {{}},
                      \A t \in S : Waiting(t) /\ \E u \in S : Blocks(u, t)
               PROVE  FALSE
    BY DEF NoCircularWait
  <2> DEFINE Awaits(t, d) == WantsSemaphore(t, d) \/ WantsSlot(t, d)
             dom == [t \in S |-> CHOOSE d \in Domains : Awaits(t, d)]
             Above(u, t) == \/ pc[t] = "sems" /\ pc[u] = "leases"
                            \/ pc[t] = pc[u] /\ dom[t] < dom[u]
             R == {p \in S \X S : Above(p[1], p[2])}
  <2>0. S \subseteq Callers /\ S # {} /\ IsFiniteSet(S) /\ Domains \subseteq Nat
    BY ProviderAssumption, FS_Subset
  <2>1. ASSUME NEW t \in S
        PROVE  dom[t] \in Domains /\ Awaits(t, dom[t]) /\ dom[t] \in Nat
    <3>1. \E d \in Domains : Awaits(t, d)
      BY DEF Blocks
    <3> HIDE DEF Awaits
    <3> QED
      BY <3>1, <2>0
  <2>2. ASSUME NEW t \in S, NEW d \in Domains, Awaits(t, d) PROVE d = dom[t]
    <3>1. dom[t] \in Domains /\ Awaits(t, dom[t]) /\ dom[t] \in Nat /\ d \in Nat
      BY <2>1, <2>0
    <3> HIDE DEF dom
    <3> QED
      BY <2>2, <3>1 DEF WantsSemaphore, WantsSlot, First
  <2>3. ASSUME NEW t \in S, NEW u \in S, Blocks(u, t) PROVE Above(u, t)
    <3>0. Waiting(u) /\ Waiting(t) /\ u \in Callers /\ t \in Callers
      BY <2>0
    <3>1. PICK d \in Domains :
             \/ WantsSemaphore(t, d) /\ ProcessOf[u] = ProcessOf[t] /\ d \in sems[u]
             \/ WantsSlot(t, d) /\ d \in Held(u)
      BY <2>3 DEF Blocks
    <3>2. d = dom[t]
      BY <3>1, <2>2
    <3>3. dom[u] \in Domains /\ Awaits(u, dom[u])
      BY <2>1
    <3>4. OrderedAt(u) /\ LeasePlaced(u, d)
      BY <1>1, <3>0 DEF InOrder, SlotInv, Placed
    <3> HIDE DEF dom
    <3>5. CASE WantsSemaphore(t, d) /\ d \in sems[u]
      <4>1. pc[t] = "sems"
        BY <3>5 DEF WantsSemaphore
      <4>2. CASE pc[u] = "leases"
        BY <4>1, <4>2
      <4>3. CASE pc[u] = "sems"
        <5>1. dom[u] \in Missing(u)
          BY <3>3, <4>3 DEF WantsSemaphore, WantsSlot, First
        <5>2. d < dom[u]
          BY <5>1, <4>3, <3>4, <3>5 DEF OrderedAt
        <5> QED
          BY <3>2, <4>1, <4>3, <5>2
      <4> QED
        BY <3>0, <4>2, <4>3 DEF Waiting
    <3>6. CASE WantsSlot(t, d) /\ d \in Held(u)
      <4>1. pc[t] = "leases"
        BY <3>6 DEF WantsSlot
      <4>2. pc[u] = "leases"
        BY <3>0, <3>4, <3>6 DEF LeasePlaced, Waiting
      <4>3. dom[u] \in Unleased(u)
        BY <3>3, <4>2 DEF WantsSemaphore, WantsSlot, First
      <4>4. d < dom[u]
        BY <4>2, <4>3, <3>4, <3>6 DEF OrderedAt
      <4> QED
        BY <3>2, <4>1, <4>2, <4>4
    <3> QED
      BY <3>1, <3>5, <3>6
  <2>4. \A x \in S : dom[x] \in Nat
    BY <2>1
  <2> HIDE DEF dom
  <2>5. \A x \in S : <<x, x>> \notin R
    BY <2>4
  <2>6. \A x, y, z \in S : <<x, y>> \in R /\ <<y, z>> \in R => <<x, z>> \in R
    <3> SUFFICES ASSUME NEW x \in S, NEW y \in S, NEW z \in S, Above(x, y), Above(y, z)
                 PROVE  Above(x, z)
      OBVIOUS
    <3> QED
      BY <2>4
  <2>7. PICK t \in S : \A u \in S : <<u, t>> \notin R
    <3> HIDE DEF R
    <3> QED
      BY <2>0, <2>5, <2>6, TopExists
  <2>8. PICK u \in S : Blocks(u, t)
    OBVIOUS
  <2>9. Above(u, t)
    BY <2>3, <2>8
  <2> QED
    BY <2>7, <2>9
<1> QED
  BY <1>1, SlotInvInit, SlotInvNext, InOrderInit, InOrderNext, PTL DEF Spec

=============================================================================
