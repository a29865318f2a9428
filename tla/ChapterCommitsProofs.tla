------------------------ MODULE ChapterCommitsProofs ------------------------
(***************************************************************************)
(* The maintenance mutexes exclude, whatever the runs, keys, TTL and clock *)
(* skew; and under the lease discipline of the chapter lanes their pushes  *)
(* are serialised.                                                         *)
(***************************************************************************)
EXTENDS ChapterCommits, SequenceTheorems, TLAPS

-----------------------------------------------------------------------------
(* The mutexes.                                                            *)

(* Before any run the invariant of the leases holds: nothing is held.      *)
LEMMA LeaseInvInit == LeaseInit => LeaseInv
<1> SUFFICES ASSUME LeaseInit PROVE LeaseInv
  OBVIOUS
<1> USE MaintenanceAssumption DEF LeaseInit
<1>1. NoLock \in Locks
  BY DEF NoLock, MkLock, Locks
<1>2. NoCall \in Calls
  BY <1>1 DEF NoCall, MkCall, Calls
<1>3. LeaseTypeOK
  BY <1>1, <1>2 DEF LeaseTypeOK, NotHeld
<1>4. HoldsIsTrue
  BY DEF HoldsIsTrue, Holds, NotHeld
<1>5. CallKnows
  BY DEF CallKnows, Acquiring, NoCall, MkCall
<1> QED
  BY <1>3, <1>4, <1>5 DEF LeaseInv

(* The lease a call would write is a lease object.                         *)
LEMMA WrittenTypes ==
    ASSUME LeaseTypeOK, NEW p \in Runs
    PROVE  /\ Taken(p) \in Locks
           /\ MkLock("released", p, call[p].now) \in Locks
BY MaintenanceAssumption DEF LeaseTypeOK, Calls, Taken, MkLock, Locks

(* No call of the run is under way afterwards.                             *)
LEMMA NoCallTypes == NoCall \in Calls /\ NoCall.kind = "none"
BY MaintenanceAssumption DEF NoCall, MkCall, Calls, NoLock, MkLock, Locks

(* Every step of the leases preserves their invariant.                     *)
LEMMA LeaseInvNext == LeaseInv /\ [LeaseNext]_leaseVars => LeaseInv'
<1> SUFFICES ASSUME LeaseInv, [LeaseNext]_leaseVars PROVE LeaseInv'
  OBVIOUS
<1> USE MaintenanceAssumption DEF LeaseInv
<1>1. CASE UNCHANGED leaseVars
  BY <1>1 DEF leaseVars, LeaseTypeOK, HoldsIsTrue, Holds, CallKnows, Acquiring
<1>2. CASE Tick
  <2>1. clock \in Nat /\ clock' = clock + 1 /\ UNCHANGED <<lock, held, call>>
    BY <1>2 DEF Tick, LeaseTypeOK
  <2>2. LeaseTypeOK'
    BY <2>1 DEF LeaseTypeOK
  <2>3. HoldsIsTrue'
    <3>1. ASSUME NEW p \in Runs, NEW k \in Keys, Holds(p, k)'
          PROVE  Holds(p, k)
      <4>1. held[p][k] \in Int
        BY DEF LeaseTypeOK, NotHeld
      <4> QED
        BY <2>1, <3>1, <4>1 DEF Holds
    <3> QED
      BY <2>1, <3>1 DEF HoldsIsTrue
  <2>4. CallKnows'
    <3>1. \A p \in Runs : call[p].now \in Nat
      BY DEF LeaseTypeOK, Calls
    <3> QED
      BY <2>1, <3>1 DEF CallKnows, Acquiring
  <2> QED
    BY <2>2, <2>3, <2>4
<1>3. ASSUME NEW p \in Runs, NEW k \in Keys, AcquireStart(p, k)
      PROVE  LeaseInv'
  <2>1. PICK now \in HostClocks :
          call' = [call EXCEPT ![p] = MkCall("acquire", k, now, 0, FALSE, NoLock)]
    BY <1>3 DEF AcquireStart
  <2>2. now \in Nat /\ now <= clock + Skew
    BY DEF HostClocks, LeaseTypeOK
  <2>3. MkCall("acquire", k, now, 0, FALSE, NoLock) \in Calls
    BY <2>2 DEF MkCall, Calls, NoLock, MkLock, Locks
  <2>4. UNCHANGED <<clock, lock, held>> /\ held[p][k] = NotHeld
    BY <1>3 DEF AcquireStart
  <2>5. LeaseTypeOK'
    BY <2>1, <2>3, <2>4 DEF LeaseTypeOK
  <2>6. HoldsIsTrue'
    BY <2>4 DEF HoldsIsTrue, Holds
  <2>7. CallKnows'
    BY <2>1, <2>2, <2>4 DEF CallKnows, Acquiring, MkCall, LeaseTypeOK
  <2> QED
    BY <2>5, <2>6, <2>7
<1>4. ASSUME NEW p \in Runs, NEW k \in Keys, ReleaseRead(p, k)
      PROVE  LeaseInv'
  <2>1. PICK now \in HostClocks :
          IF OwnedBy(lock[k], p, now)
          THEN /\ call' = [call EXCEPT ![p] =
                      MkCall("release", k, now, 0, TRUE, lock[k])]
               /\ UNCHANGED held
          ELSE DropHeld(p, k) /\ UNCHANGED call
    BY <1>4 DEF ReleaseRead
  <2>2. now \in Nat
    BY DEF HostClocks, LeaseTypeOK
  <2>3. UNCHANGED <<clock, lock>> /\ call[p] = NoCall
    BY <1>4 DEF ReleaseRead
  <2>4. CASE OwnedBy(lock[k], p, now)
    <3>1. MkCall("release", k, now, 0, TRUE, lock[k]) \in Calls
      BY <2>2 DEF MkCall, Calls, LeaseTypeOK
    <3>2. lock[k].owner = p
      BY <2>4 DEF OwnedBy
    <3>3. LeaseTypeOK'
      BY <2>1, <2>3, <2>4, <3>1 DEF LeaseTypeOK
    <3>4. HoldsIsTrue'
      BY <2>1, <2>3, <2>4 DEF HoldsIsTrue, Holds
    <3>5. CallKnows'
      BY <2>1, <2>3, <2>4, <3>2 DEF CallKnows, Acquiring, MkCall, LeaseTypeOK
    <3> QED
      BY <3>3, <3>4, <3>5
  <2>5. CASE ~OwnedBy(lock[k], p, now)
    <3>1. DropHeld(p, k) /\ UNCHANGED call
      BY <2>1, <2>5
    <3>2. LeaseTypeOK'
      BY <2>3, <3>1 DEF LeaseTypeOK, DropHeld
    <3>3. HoldsIsTrue'
      BY <2>3, <3>1 DEF HoldsIsTrue, Holds, DropHeld, LeaseTypeOK, NotHeld
    <3>4. CallKnows'
      BY <2>3, <3>1 DEF CallKnows, Acquiring, DropHeld, LeaseTypeOK, NotHeld
    <3> QED
      BY <3>2, <3>3, <3>4
  <2> QED
    BY <2>4, <2>5
<1>5. ASSUME NEW p \in Runs, AcquireRead(p)
      PROVE  LeaseInv'
  <2> DEFINE loaded == MkCall("acquire", call[p].key, call[p].now,
                              call[p].tries, TRUE, lock[call[p].key])
  <2>1. /\ call[p].kind = "acquire" /\ call[p].tries # MaxTries
        /\ ~Active(lock[call[p].key], call[p].now)
        /\ call' = [call EXCEPT ![p] = loaded]
        /\ UNCHANGED <<clock, lock, held>>
    BY <1>5 DEF AcquireRead, Acquiring, Busy
  <2>2. /\ call[p].key \in Keys /\ call[p].now <= clock + Skew
        /\ held[p][call[p].key] = NotHeld
    BY <2>1 DEF CallKnows, Acquiring
  <2>3. call[p].tries \in 0..MaxTries /\ call[p].now \in Nat
    BY DEF LeaseTypeOK, Calls
  <2>4. lock[call[p].key] \in Locks
    BY <2>2 DEF LeaseTypeOK
  <2>5. loaded \in Calls
    BY <2>2, <2>3, <2>4 DEF MkCall, Calls
  <2>6. LeaseTypeOK'
    BY <2>1, <2>5 DEF LeaseTypeOK
  <2>7. HoldsIsTrue'
    BY <2>1 DEF HoldsIsTrue, Holds
  <2>8. CallKnows'
    <3>1. call[p].tries < MaxTries
      BY <2>1, <2>3
    <3>2. /\ loaded.kind = "acquire" /\ loaded.key = call[p].key
          /\ loaded.now = call[p].now /\ loaded.tries = call[p].tries
          /\ loaded.seen = lock[call[p].key]
      BY DEF MkCall
    <3>3. call'[p] = loaded /\ \A q \in Runs : q # p => call'[q] = call[q]
      BY <2>1 DEF LeaseTypeOK
    <3> HIDE DEF loaded
    <3> QED
      BY <2>1, <2>2, <3>1, <3>2, <3>3 DEF CallKnows, Acquiring
  <2> QED
    BY <2>6, <2>7, <2>8
<1>6. ASSUME NEW p \in Runs, call' = [call EXCEPT ![p] = NoCall],
             UNCHANGED <<clock, lock, held>>
      PROVE  LeaseInv'
  <2>1. LeaseTypeOK'
    BY <1>6, NoCallTypes DEF LeaseTypeOK
  <2>2. HoldsIsTrue'
    BY <1>6 DEF HoldsIsTrue, Holds
  <2>3. CallKnows'
    BY <1>6, NoCallTypes DEF CallKnows, Acquiring, LeaseTypeOK
  <2> QED
    BY <2>1, <2>2, <2>3
<1>7. ASSUME NEW p \in Runs, call[p].kind = "acquire", Lands(p, Taken(p)),
             NEW q \in Runs, NEW k \in Keys, Holds(q, k)
      PROVE  k # call[p].key
      \* an acquire lands only on a lease nobody holds for sure
  <2>1. lock[k] = MkLock("held", q, held[q][k]) /\ held[q][k] > clock + Skew
    BY <1>7 DEF HoldsIsTrue, Holds
  <2>2. call[p].now <= clock + Skew /\ ~Active(call[p].seen, call[p].now)
    BY <1>7 DEF CallKnows, Acquiring, Lands
  <2>3. call[p].now \in Nat /\ clock \in Nat /\ held[q][k] \in Int
    BY DEF LeaseTypeOK, Calls, NotHeld
  <2>4. Active(lock[k], call[p].now)
    BY <2>1, <2>2, <2>3 DEF Active, MkLock
  <2> QED
    BY <1>7, <2>2, <2>4 DEF Lands
<1>8. ASSUME NEW p \in Runs, AcquireWins(p)
      PROVE  LeaseInv'
  <2>1. /\ call[p].kind = "acquire" /\ Lands(p, Taken(p)) /\ clock' = clock
        /\ held' = [held EXCEPT ![p][call[p].key] = call[p].now + LeaseTTL]
        /\ call' = [call EXCEPT ![p] = NoCall]
    BY <1>8 DEF AcquireWins, Acquiring
  <2>2. /\ call[p].key \in Keys
        /\ lock' = [lock EXCEPT ![call[p].key] = Taken(p)]
        /\ call[p].now + LeaseTTL \in Nat
    BY <2>1 DEF CallKnows, Lands, LeaseTypeOK, Calls
  <2>3. LeaseTypeOK'
    BY <2>1, <2>2, WrittenTypes, NoCallTypes DEF LeaseTypeOK
  <2>4. ASSUME NEW q \in Runs, NEW k \in Keys, Holds(q, k)'
        PROVE  (lock[k] = MkLock("held", q, held[q][k]))'
    <3>1. CASE q = p /\ k = call[p].key
      BY <2>1, <2>2, <3>1 DEF Taken, LeaseTypeOK
    <3>2. CASE ~(q = p /\ k = call[p].key)
      <4>1. held'[q][k] = held[q][k]
        BY <2>1, <2>2, <3>2 DEF LeaseTypeOK
      <4>2. Holds(q, k)
        BY <2>1, <2>4, <4>1 DEF Holds
      <4>3. k # call[p].key
        BY <1>7, <2>1, <4>2
      <4>4. lock[k] = MkLock("held", q, held[q][k])
        BY <4>2 DEF HoldsIsTrue
      <4> QED
        BY <2>2, <4>1, <4>3, <4>4 DEF LeaseTypeOK
    <3> QED
      BY <3>1, <3>2
  <2>5. HoldsIsTrue'
    BY <2>4 DEF HoldsIsTrue
  <2>6. CallKnows'
    BY <2>1, <2>2, NoCallTypes DEF CallKnows, Acquiring, LeaseTypeOK
  <2> QED
    BY <2>3, <2>5, <2>6
<1>9. ASSUME NEW p \in Runs, call[p].kind = "acquire", Lands(p, Taken(p)),
             UNCHANGED <<clock, held>>
      PROVE  HoldsIsTrue' /\ lock' \in [Keys -> Locks]
      \* a landed write whose caller does not learn of it
  <2>1. call[p].key \in Keys /\ lock' = [lock EXCEPT ![call[p].key] = Taken(p)]
    BY <1>9 DEF CallKnows, Lands
  <2>2. lock' \in [Keys -> Locks]
    BY <2>1, WrittenTypes DEF LeaseTypeOK
  <2>3. ASSUME NEW q \in Runs, NEW k \in Keys, Holds(q, k)'
        PROVE  (lock[k] = MkLock("held", q, held[q][k]))'
    <3>1. Holds(q, k)
      BY <1>9, <2>3 DEF Holds
    <3>2. k # call[p].key
      BY <1>7, <1>9, <3>1
    <3> QED
      BY <1>9, <2>1, <3>1, <3>2 DEF HoldsIsTrue, LeaseTypeOK
  <2> QED
    BY <2>2, <2>3 DEF HoldsIsTrue
<1>10. ASSUME NEW p \in Runs, call[p].kind = "acquire", call[p].loaded,
              TriesAgain(p), UNCHANGED <<clock, held>>
       PROVE  CallKnows' /\ call' \in [Runs -> Calls]
  <2> DEFINE again == MkCall("acquire", call[p].key, call[p].now,
                             call[p].tries + 1, FALSE, NoLock)
  <2>1. /\ call[p].key \in Keys /\ call[p].now <= clock + Skew
        /\ held[p][call[p].key] = NotHeld /\ call[p].tries < MaxTries
    BY <1>10 DEF CallKnows, Acquiring
  <2>2. call[p].tries \in 0..MaxTries /\ call[p].now \in Nat
    BY DEF LeaseTypeOK, Calls
  <2>3. again \in Calls
    BY <2>1, <2>2 DEF MkCall, Calls, NoLock, MkLock, Locks
  <2>4. call' = [call EXCEPT ![p] = again]
    BY <1>10 DEF TriesAgain
  <2>5. call' \in [Runs -> Calls]
    BY <2>3, <2>4 DEF LeaseTypeOK
  <2>6. CallKnows'
    BY <1>10, <2>1, <2>4 DEF CallKnows, Acquiring, LeaseTypeOK, MkCall
  <2> QED
    BY <2>5, <2>6
<1>11. ASSUME NEW p \in Runs, AcquireAnswerLost(p)
       PROVE  LeaseInv'
  <2>1. /\ call[p].kind = "acquire" /\ Lands(p, Taken(p)) /\ TriesAgain(p)
        /\ call[p].loaded /\ UNCHANGED <<clock, held>>
    BY <1>11 DEF AcquireAnswerLost, Acquiring, Lands
  <2> QED
    BY <1>9, <1>10, <2>1 DEF LeaseTypeOK
<1>12. ASSUME NEW p \in Runs, AcquireConflict(p)
       PROVE  LeaseInv'
  <2>1. /\ call[p].kind = "acquire" /\ TriesAgain(p)
        /\ call[p].loaded /\ UNCHANGED <<clock, lock, held>>
    BY <1>12 DEF AcquireConflict, Acquiring
  <2>2. HoldsIsTrue'
    BY <2>1 DEF HoldsIsTrue, Holds
  <2> QED
    BY <1>10, <2>1, <2>2 DEF LeaseTypeOK
<1>13. ASSUME NEW p \in Runs, AcquireRaises(p)
       PROVE  LeaseInv'
  <2>1. /\ call[p].kind = "acquire" /\ call' = [call EXCEPT ![p] = NoCall]
        /\ UNCHANGED <<clock, held>>
        /\ Lands(p, Taken(p)) \/ UNCHANGED lock
    BY <1>13 DEF AcquireRaises, Acquiring
  <2>2. CASE UNCHANGED lock
    BY <1>6, <2>1, <2>2
  <2>3. CASE Lands(p, Taken(p))
    <3>1. HoldsIsTrue' /\ lock' \in [Keys -> Locks]
      BY <1>9, <2>1, <2>3
    <3>2. LeaseTypeOK'
      BY <2>1, <3>1, NoCallTypes DEF LeaseTypeOK
    <3>3. CallKnows'
      BY <2>1, NoCallTypes DEF CallKnows, Acquiring, LeaseTypeOK
    <3> QED
      BY <3>1, <3>2, <3>3
  <2> QED
    BY <2>1, <2>2, <2>3
<1>14. ASSUME NEW p \in Runs, call[p].kind = "release",
              DropHeld(p, call[p].key), call' = [call EXCEPT ![p] = NoCall],
              clock' = clock
       PROVE  /\ CallKnows' /\ held' \in [Runs -> [Keys -> Nat \cup {NotHeld}]]
              /\ call' \in [Runs -> Calls]
              /\ \A q \in Runs : \A k \in Keys : Holds(q, k)' =>
                    /\ Holds(q, k) /\ held'[q][k] = held[q][k]
                    /\ ~(q = p /\ k = call[p].key)
  <2>1. call[p].key \in Keys
    BY <1>14 DEF CallKnows
  <2>2. held' = [held EXCEPT ![p][call[p].key] = NotHeld]
    BY <1>14 DEF DropHeld
  <2>3. held' \in [Runs -> [Keys -> Nat \cup {NotHeld}]]
    BY <2>1, <2>2 DEF LeaseTypeOK
  <2>4. CallKnows'
    BY <1>14, <2>1, <2>2, NoCallTypes DEF CallKnows, Acquiring, LeaseTypeOK
  <2>5. call' \in [Runs -> Calls]
    BY <1>14, NoCallTypes DEF LeaseTypeOK
  <2>6. ASSUME NEW q \in Runs, NEW k \in Keys, Holds(q, k)'
        PROVE  /\ Holds(q, k) /\ held'[q][k] = held[q][k]
               /\ ~(q = p /\ k = call[p].key)
    BY <1>14, <2>1, <2>2, <2>6 DEF Holds, LeaseTypeOK, NotHeld
  <2> QED
    BY <2>3, <2>4, <2>5, <2>6
<1>15. ASSUME NEW p \in Runs, ReleaseLands(p)
       PROVE  LeaseInv'
  <2>1. /\ call[p].kind = "release" /\ clock' = clock
        /\ Lands(p, MkLock("released", p, call[p].now))
        /\ DropHeld(p, call[p].key) /\ call' = [call EXCEPT ![p] = NoCall]
    BY <1>15 DEF ReleaseLands
  <2>2. /\ call[p].key \in Keys /\ lock[call[p].key].owner = p
        /\ lock' = [lock EXCEPT ![call[p].key] = MkLock("released", p, call[p].now)]
    BY <2>1 DEF CallKnows, Lands
  <2>3. LeaseTypeOK'
    BY <1>14, <2>1, <2>2, WrittenTypes DEF LeaseTypeOK
  <2>6. \A q \in Runs : \A k \in Keys : Holds(q, k)' =>
            /\ Holds(q, k) /\ held'[q][k] = held[q][k]
            /\ ~(q = p /\ k = call[p].key)
    BY <1>14, <2>1
  <2>4. ASSUME NEW q \in Runs, NEW k \in Keys, Holds(q, k)'
        PROVE  (lock[k] = MkLock("held", q, held[q][k]))'
    <3>1. /\ Holds(q, k) /\ held'[q][k] = held[q][k]
          /\ ~(q = p /\ k = call[p].key)
      BY <2>4, <2>6
    <3>2. lock[k] = MkLock("held", q, held[q][k])
      BY <3>1 DEF HoldsIsTrue
    <3>3. k # call[p].key
      BY <2>2, <3>1, <3>2 DEF MkLock
    <3> QED
      BY <2>2, <3>1, <3>2, <3>3 DEF LeaseTypeOK
  <2>5. HoldsIsTrue'
    BY <2>4 DEF HoldsIsTrue
  <2> QED
    BY <1>14, <2>1, <2>3, <2>5
<1>16. ASSUME NEW p \in Runs, ReleaseConflict(p)
       PROVE  LeaseInv'
  <2>1. /\ call[p].kind = "release" /\ UNCHANGED <<clock, lock>>
        /\ DropHeld(p, call[p].key) /\ call' = [call EXCEPT ![p] = NoCall]
    BY <1>16 DEF ReleaseConflict
  <2>3. \A q \in Runs : \A k \in Keys : Holds(q, k)' =>
            /\ Holds(q, k) /\ held'[q][k] = held[q][k]
    BY <1>14, <2>1
  <2>2. HoldsIsTrue'
    BY <2>1, <2>3 DEF HoldsIsTrue
  <2> QED
    BY <1>14, <2>1, <2>2 DEF LeaseTypeOK
<1>17. ASSUME NEW p \in Runs, Vanishes(p)
       PROVE  LeaseInv'
  <2>1. /\ held' = [held EXCEPT ![p] = [k \in Keys |-> NotHeld]]
        /\ call' = [call EXCEPT ![p] = NoCall]
        /\ UNCHANGED <<clock, lock>>
    BY <1>17 DEF Vanishes
  <2>2. LeaseTypeOK'
    BY <2>1, NoCallTypes DEF LeaseTypeOK
  <2>3. HoldsIsTrue'
    BY <2>1 DEF HoldsIsTrue, Holds, LeaseTypeOK, NotHeld
  <2>4. CallKnows'
    BY <2>1, NoCallTypes DEF CallKnows, Acquiring, LeaseTypeOK
  <2> QED
    BY <2>2, <2>3, <2>4
<1>18. ASSUME NEW p \in Runs, AcquireRefused(p)
       PROVE  LeaseInv'
  BY <1>6, <1>18 DEF AcquireRefused
<1> QED
  BY <1>1, <1>2, <1>3, <1>4, <1>5, <1>8, <1>11, <1>12, <1>13, <1>15, <1>16,
     <1>17, <1>18 DEF LeaseNext

(* Every step of the runs is a step of the mutexes, or leaves them alone.  *)
LEMMA KeysOfTypes ==
    ASSUME NEW p \in Runs
    PROVE  /\ KeysOf(p) \in Seq(Keys)
           /\ \A n \in DOMAIN KeysOf(p) : KeysOf(p)[n] \in Keys
           /\ \A n \in DOMAIN Outer[p] : Outer[p][n] \in Keys
           /\ KeySet(p) \subseteq Keys
           /\ OuterSet(p) \subseteq KeySet(p)
<1>1. Outer[p] \in Seq(Keys) /\ Inner[p] \in Seq(Keys)
  BY CommitAssumption
<1>2. KeysOf(p) \in Seq(Keys)
  BY <1>1 DEF KeysOf
<1>3. \A n \in DOMAIN KeysOf(p) : KeysOf(p)[n] \in Keys
  BY <1>2
<1>4. \A n \in DOMAIN Outer[p] : Outer[p][n] \in Keys
  BY <1>1
<1>5. \A n \in DOMAIN Outer[p] :
        n \in DOMAIN KeysOf(p) /\ KeysOf(p)[n] = Outer[p][n]
  <2>1. /\ DOMAIN Outer[p] = 1..Len(Outer[p]) /\ Len(Outer[p]) \in Nat
        /\ DOMAIN Inner[p] = 1..Len(Inner[p]) /\ Len(Inner[p]) \in Nat
    BY <1>1
  <2>2. Len(KeysOf(p)) = Len(Outer[p]) + Len(Inner[p])
    BY <1>1, ConcatProperties DEF KeysOf
  <2>3. \A n \in 1..(Len(Outer[p]) + Len(Inner[p])) :
          KeysOf(p)[n] = IF n <= Len(Outer[p]) THEN Outer[p][n]
                         ELSE Inner[p][n - Len(Outer[p])]
    BY <1>1, ConcatProperties DEF KeysOf
  <2>4. DOMAIN KeysOf(p) = 1..Len(KeysOf(p))
    BY <1>2
  <2> SUFFICES ASSUME NEW n \in DOMAIN Outer[p]
               PROVE  n \in DOMAIN KeysOf(p) /\ KeysOf(p)[n] = Outer[p][n]
    OBVIOUS
  <2>5. n \in 1..(Len(Outer[p]) + Len(Inner[p])) /\ n <= Len(Outer[p])
    <3>1. n \in 1..Len(Outer[p])
      BY <2>1, Zenon
    <3>2. Len(Outer[p]) \in Nat /\ Len(Inner[p]) \in Nat
      BY <2>1
    <3> DEFINE lo == Len(Outer[p])
               li == Len(Inner[p])
    <3>3. n \in 1..lo /\ lo \in Nat /\ li \in Nat
      BY <3>1, <3>2
    <3> HIDE DEF lo, li
    <3>4. n \in 1..(lo + li) /\ n <= lo
      BY <3>3
    <3> QED
      BY <3>4 DEF lo, li
  <2>6. KeysOf(p)[n] = Outer[p][n]
    BY <2>3, <2>5
  <2> QED
    BY <2>2, <2>4, <2>5, <2>6
<1> QED
  BY <1>2, <1>3, <1>4, <1>5 DEF KeySet, OuterSet

LEMMA RunsUseLeases == [Next]_vars => [LeaseNext]_leaseVars
<1> SUFFICES ASSUME [Next]_vars PROVE [LeaseNext]_leaseVars
  OBVIOUS
<1>1. CASE UNCHANGED vars
  BY <1>1 DEF vars
<1>2. CASE Time
  BY <1>2 DEF Time, LeaseNext
<1>3. ASSUME NEW p \in Runs, Acquire(p)
      PROVE  LeaseNext
  <2>1. PICK n \in DOMAIN Wanted(p) : AcquireStart(p, Wanted(p)[n])
    BY <1>3 DEF Acquire
  <2>2. Wanted(p)[n] \in Keys
    BY KeysOfTypes, <2>1 DEF Wanted
  <2> QED
    BY <2>1, <2>2 DEF LeaseNext
<1>4. ASSUME NEW p \in Runs, Release(p)
      PROVE  LeaseNext
  <2>1. PICK n \in DOMAIN KeysOf(p) : ReleaseRead(p, KeysOf(p)[n])
    BY <1>4 DEF Release
  <2> QED
    BY <2>1, KeysOfTypes DEF LeaseNext
<1>5. ASSUME NEW p \in Runs, LeaseStorage(p) \/ AcquireFails(p) \/ Dies(p)
      PROVE  LeaseNext
  BY <1>5 DEF LeaseStorage, AcquireFails, Dies, LeaseNext
<1>6. ASSUME NEW p \in Runs,
             Pull(p) \/ AssertHeld(p) \/ Fetch(p) \/ SkipPush(p) \/ Put(p)
               \/ Fails(p)
      PROVE  UNCHANGED leaseVars
  BY <1>6 DEF Pull, AssertHeld, Fetch, SkipPush, Put, Fails
<1> QED
  BY <1>1, <1>2, <1>3, <1>4, <1>5, <1>6 DEF Next

(* The runs never break the mutexes' protocol.                             *)
THEOREM RunsFollowProtocol == Spec => LeaseSpec
<1>1. Init => LeaseInit
  BY DEF Init
<1> QED
  BY <1>1, RunsUseLeases, PTL DEF Spec, LeaseSpec

(* What a run holds for sure is what the lease object says.                *)
THEOREM LeasesInvariant == Spec => []LeaseInv
<1>1. LeaseSpec => []LeaseInv
  BY LeaseInvInit, LeaseInvNext, PTL DEF LeaseSpec
<1> QED
  BY <1>1, RunsFollowProtocol, PTL

(* A key two runs hold for sure has one lease object, which names one.     *)
LEMMA InvExclusive == LeaseInv => Exclusive
<1> SUFFICES ASSUME LeaseInv, NEW k \in Keys, NEW p \in Runs, NEW q \in Runs,
                    Holds(p, k), Holds(q, k)
             PROVE  p = q
  BY DEF Exclusive
<1>1. /\ lock[k] = MkLock("held", p, held[p][k])
      /\ lock[k] = MkLock("held", q, held[q][k])
  BY DEF LeaseInv, HoldsIsTrue
<1> QED
  BY <1>1 DEF MkLock

(* Two runs never both hold a maintenance key for sure (acquire, release): *)
(* for any number of runs and keys, any TTL, any clock skew.               *)
THEOREM MutualExclusion == Spec => []Exclusive
BY LeasesInvariant, InvExclusive, PTL

(* A stale acquire or release never replaces a lease someone holds.        *)
THEOREM LeasesKept == Spec => []HoldsIsTrue
BY LeasesInvariant, PTL DEF LeaseInv

-----------------------------------------------------------------------------
(* The pushes.                                                             *)

(* What a run merges is a record.                                          *)
LEMMA MergedType ==
    ASSUME TypeOK, NEW p \in Runs
    PROVE  Merged(p) \in [Blocks -> Contents] /\ Nothing \in [Blocks -> Contents]
<1>1. base[p] \in [Blocks -> Contents] /\ snap[p] \in [Blocks -> Contents]
  BY DEF TypeOK
<1>2. Local(p) \in [Blocks -> Contents]
  BY <1>1 DEF Local, Produced, Contents
<1> QED
  BY <1>1, <1>2 DEF Merged, Nothing, Contents

LEMMA TypeInit == Init => TypeOK
<1> SUFFICES ASSUME Init PROVE TypeOK
  OBVIOUS
<1>1. LeaseTypeOK
  BY LeaseInvInit DEF Init, LeaseInv
<1>2. Nothing \in [Blocks -> Contents] /\ record \in [Blocks -> Contents]
  BY DEF Init, Nothing, Contents
<1> QED
  BY <1>1, <1>2, CommitAssumption DEF Init, TypeOK

LEMMA TypeNext == TypeOK /\ LeaseTypeOK' /\ [Next]_vars => TypeOK'
<1> SUFFICES ASSUME TypeOK, LeaseTypeOK', [Next]_vars PROVE TypeOK'
  OBVIOUS
<1> USE DEF TypeOK
<1>1. CASE UNCHANGED commitVars
  BY <1>1 DEF commitVars
<1>2. ASSUME NEW p \in Runs, UNCHANGED <<base, pushed, record, late>>,
             snap' = snap \/ snap' = [snap EXCEPT ![p] = Nothing],
             pc' = [pc EXCEPT ![p] = "unwind"]
      PROVE  TypeOK'
  BY <1>2, MergedType
<1>3. ASSUME NEW p \in Runs, Pull(p)
      PROVE  TypeOK'
  BY <1>3 DEF Pull
<1>4. ASSUME NEW p \in Runs, AssertHeld(p)
      PROVE  TypeOK'
  BY <1>4 DEF AssertHeld
<1>5. ASSUME NEW p \in Runs, Fetch(p)
      PROVE  TypeOK'
  BY <1>5 DEF Fetch
<1>6. ASSUME NEW p \in Runs, PushDone(p), record' \in [Blocks -> Contents],
             base' \in [Runs -> [Blocks -> Contents]], late' \in BOOLEAN
      PROVE  TypeOK'
  <2>1. snap' \in [Runs -> [Blocks -> Contents]]
    BY <1>6, MergedType DEF PushDone
  <2>2. pushed' \in [Runs -> Nat]
    BY <1>6 DEF PushDone
  <2>3. pc' \in [Runs -> {"begin", "working", "fetch", "put", "unwind", "dead"}]
    BY <1>6 DEF PushDone
  <2>4. ASSUME NEW q \in Runs, pc'[q] \in {"begin", "working", "fetch", "put"}
        PROVE  pushed'[q] < Len(Pushes[q])
    BY <1>6, <2>4 DEF PushDone
  <2> QED
    BY <1>6, <2>1, <2>2, <2>3, <2>4
<1>7. ASSUME NEW p \in Runs, SkipPush(p)
      PROVE  TypeOK'
  BY <1>6, <1>7 DEF SkipPush
<1>8. ASSUME NEW p \in Runs, Put(p)
      PROVE  TypeOK'
  <2>1. /\ PushDone(p) /\ record' = Merged(p)
        /\ base' = [base EXCEPT ![p] = Merged(p)]
        /\ late' \in BOOLEAN
    BY <1>8 DEF Put
  <2>2. Merged(p) \in [Blocks -> Contents]
    BY MergedType
  <2>3. record' \in [Blocks -> Contents] /\ base' \in [Runs -> [Blocks -> Contents]]
    BY <2>1, <2>2
  <2> QED
    BY <1>6, <2>1, <2>3
<1>9. ASSUME NEW p \in Runs, Dies(p)
      PROVE  TypeOK'
  BY <1>9, MergedType DEF Dies
<1>10. ASSUME NEW p \in Runs, AcquireFails(p) \/ Fails(p)
       PROVE  TypeOK'
  BY <1>2, <1>10 DEF AcquireFails, Fails
<1>11. ASSUME Time \/ \E p \in Runs : Acquire(p) \/ LeaseStorage(p) \/ Release(p)
       PROVE  UNCHANGED commitVars
  BY <1>11 DEF Time, Acquire, LeaseStorage, Release
<1>12. UNCHANGED vars => UNCHANGED commitVars
  BY DEF vars
<1> QED
  BY <1>1, <1>3, <1>4, <1>5, <1>7, <1>8, <1>9, <1>10, <1>11, <1>12 DEF Next

(* Every variable of the runs keeps its type, and a run that may still     *)
(* push has a push left.                                                   *)
THEOREM TypeCorrect == Spec => []TypeOK
<1>1. LeaseInv => LeaseTypeOK
  BY DEF LeaseInv
<1> QED
  BY <1>1, TypeInit, TypeNext, LeasesInvariant, PTL DEF Spec

(* What a step may change of a run's place, its records and the bucket's.  *)
LEMMA StepFrames ==
    ASSUME TypeOK, [Next]_vars, NEW p \in Runs
    PROVE  /\ Pulled(p)' /\ ~Pulled(p) => Pull(p)
           /\ pc'[p] = "put" /\ pc[p] # "put" => Fetch(p)
           /\ Pulled(p) /\ Pulled(p)' => base'[p] = base[p] \/ Put(p)
           /\ pc[p] = "put" /\ pc'[p] = "put" => snap'[p] = snap[p] /\ ~Put(p)
           /\ (record' = record /\ late' = late) \/ \E q \in Runs : Put(q)
<1> USE DEF TypeOK, Pulled
<1>1. CASE UNCHANGED commitVars
  BY <1>1 DEF commitVars, Put, PushDone
<1>2. ASSUME NEW q \in Runs, UNCHANGED <<base, pushed, record, late>>,
             snap' = snap \/ snap' = [snap EXCEPT ![q] = Nothing],
             pc' = [pc EXCEPT ![q] = "unwind"]
      PROVE  /\ Pulled(p)' => Pulled(p)
             /\ pc'[p] = "put" => pc[p] = "put"
             /\ pc'[p] = "put" => snap'[p] = snap[p] /\ ~Put(p)
  BY <1>2 DEF Put, PushDone
<1>3. ASSUME NEW q \in Runs, AcquireFails(q) \/ Fails(q)
      PROVE  /\ UNCHANGED <<base, pushed, record, late>>
             /\ snap' = snap \/ snap' = [snap EXCEPT ![q] = Nothing]
             /\ pc' = [pc EXCEPT ![q] = "unwind"]
  BY <1>3 DEF AcquireFails, Fails
<1>4. ASSUME NEW q \in Runs, AcquireFails(q) \/ Fails(q)
      PROVE  /\ Pulled(p)' => Pulled(p)
             /\ pc'[p] = "put" => pc[p] = "put" /\ snap'[p] = snap[p] /\ ~Put(p)
             /\ UNCHANGED <<base, record, late>>
  BY <1>2, <1>3, <1>4
<1>5. ASSUME NEW q \in Runs, Pull(q) \/ AssertHeld(q) \/ Fetch(q)
      PROVE  /\ Pulled(p)' /\ ~Pulled(p) => Pull(p)
             /\ pc'[p] = "put" /\ pc[p] # "put" => Fetch(p)
             /\ Pulled(p) => base'[p] = base[p]
             /\ pc[p] = "put" => snap'[p] = snap[p] /\ ~Put(p)
             /\ UNCHANGED <<record, late>>
  <2>1. UNCHANGED <<pushed, record, late>>
    BY <1>5 DEF Pull, AssertHeld, Fetch
  <2>2. ~Put(p)
    BY <2>1 DEF Put, PushDone
  <2>3. CASE Pull(q)
    BY <2>1, <2>2, <2>3 DEF Pull
  <2>4. CASE AssertHeld(q)
    BY <2>1, <2>2, <2>4 DEF AssertHeld
  <2>5. CASE Fetch(q)
    BY <2>1, <2>2, <2>5 DEF Fetch
  <2> QED
    BY <1>5, <2>3, <2>4, <2>5
<1>6. ASSUME NEW q \in Runs, SkipPush(q) \/ Put(q)
      PROVE  /\ Pulled(p)' => Pulled(p)
             /\ pc'[p] = "put" => pc[p] = "put" /\ snap'[p] = snap[p] /\ ~Put(p)
             /\ base'[p] = base[p] \/ Put(p)
             /\ (record' = record /\ late' = late) \/ Put(q)
  <2>1. PushDone(q) /\ pc[q] \in {"fetch", "put"}
    BY <1>6 DEF SkipPush, Put
  <2>2. CASE q = p
    <3>1. pc'[p] # "put" /\ (Pulled(p)' => Pulled(p))
      BY <2>1, <2>2 DEF PushDone
    <3> QED
      BY <1>6, <2>2, <3>1 DEF SkipPush
  <2>3. CASE q # p
    <3>1. pc'[p] = pc[p] /\ snap'[p] = snap[p] /\ pushed'[p] = pushed[p]
      BY <2>1, <2>3 DEF PushDone
    <3>2. base'[p] = base[p]
      BY <1>6, <2>3 DEF SkipPush, Put
    <3>3. ~Put(p)
      BY <3>1 DEF Put, PushDone
    <3>4. (record' = record /\ late' = late) \/ Put(q)
      BY <1>6 DEF SkipPush
    <3> QED
      BY <3>1, <3>2, <3>3, <3>4
  <2> QED
    BY <2>2, <2>3
<1>7. ASSUME NEW q \in Runs, Dies(q)
      PROVE  /\ Pulled(p)' => Pulled(p) /\ base'[p] = base[p]
             /\ pc'[p] = "put" => pc[p] = "put" /\ snap'[p] = snap[p] /\ ~Put(p)
             /\ UNCHANGED <<record, late>>
  BY <1>7 DEF Dies, Put, PushDone
<1>8. ASSUME Time \/ \E q \in Runs : Acquire(q) \/ LeaseStorage(q) \/ Release(q)
      PROVE  UNCHANGED commitVars
  BY <1>8 DEF Time, Acquire, LeaseStorage, Release
<1>9. UNCHANGED vars => UNCHANGED commitVars
  BY DEF vars
<1> QED
  <2>1. CASE \E q \in Runs : AcquireFails(q) \/ Fails(q)
    BY <1>4, <2>1
  <2>2. CASE \E q \in Runs : Pull(q) \/ AssertHeld(q) \/ Fetch(q)
    BY <1>5, <2>2
  <2>3. CASE \E q \in Runs : SkipPush(q) \/ Put(q)
    BY <1>6, <2>3
  <2>4. CASE \E q \in Runs : Dies(q)
    BY <1>7, <2>4
  <2> QED
    BY <1>1, <1>8, <1>9, <2>1, <2>2, <2>3, <2>4 DEF Next

(* Time does not run backwards.                                            *)
LEMMA ClockUp == LeaseTypeOK /\ [LeaseNext]_leaseVars => clock' \in Nat /\ clock' >= clock
<1> SUFFICES ASSUME LeaseTypeOK, [LeaseNext]_leaseVars
             PROVE  clock' \in Nat /\ clock' >= clock
  OBVIOUS
<1>1. clock \in Nat
  BY DEF LeaseTypeOK
<1>2. clock' = clock \/ clock' = clock + 1
  BY DEF LeaseNext, leaseVars, Tick, AcquireStart, ReleaseRead, AcquireRead,
     AcquireRefused, AcquireWins, AcquireAnswerLost, AcquireConflict,
     AcquireRaises, ReleaseLands, ReleaseConflict, Vanishes
<1> QED
  BY <1>1, <1>2

(* A run that neither unwinds nor dies keeps the leases it has, and takes  *)
(* no new one while it puts.                                               *)
LEMMA HeldStable ==
    ASSUME TypeOK, CallKnows, CallsFit, [Next]_vars, NEW p \in Runs,
           pc[p] # "unwind", pc'[p] # "dead"
    PROVE  /\ \A k \in Keys : held[p][k] # NotHeld => held'[p][k] = held[p][k]
           /\ pc[p] = "put" => held'[p] = held[p]
<1> USE DEF TypeOK, LeaseTypeOK
<1>1. CASE UNCHANGED held
  BY <1>1
<1>2. ASSUME NEW q \in Runs, AcquireWins(q)
      PROVE  /\ \A k \in Keys : held[p][k] # NotHeld => held'[p][k] = held[p][k]
             /\ pc[p] = "put" => held'[p] = held[p]
  <2>1. /\ call[q].key \in Keys /\ held[q][call[q].key] = NotHeld
        /\ pc[q] \in {"begin", "working"}
    BY <1>2 DEF AcquireWins, Acquiring, CallKnows, CallsFit
  <2>2. held' = [held EXCEPT ![q][call[q].key] = call[q].now + LeaseTTL]
    BY <1>2 DEF AcquireWins
  <2> QED
    BY <2>1, <2>2
<1>3. ASSUME NEW q \in Runs, NEW k \in Keys, DropHeld(q, k), pc[q] = "unwind"
      PROVE  held'[p] = held[p]
  BY <1>3 DEF DropHeld
<1>4. ASSUME NEW q \in Runs, ReleaseLands(q) \/ ReleaseConflict(q)
      PROVE  held'[p] = held[p]
  <2>1. call[q].kind = "release" /\ DropHeld(q, call[q].key)
    BY <1>4 DEF ReleaseLands, ReleaseConflict
  <2>2. call[q].key \in Keys /\ pc[q] = "unwind"
    BY <2>1 DEF CallKnows, CallsFit
  <2> QED
    BY <1>3, <2>1, <2>2
<1>5. ASSUME NEW q \in Runs, Release(q)
      PROVE  held'[p] = held[p]
  <2>1. pc[q] = "unwind" /\ \E k \in Keys : ReleaseRead(q, k)
    BY <1>5, KeysOfTypes DEF Release
  <2>2. UNCHANGED held \/ \E k \in Keys : DropHeld(q, k)
    BY <2>1 DEF ReleaseRead
  <2> QED
    BY <1>3, <2>1, <2>2
<1>6. ASSUME NEW q \in Runs, Dies(q)
      PROVE  held'[p] = held[p]
  <2>1. pc'[q] = "dead" /\ held' = [held EXCEPT ![q] = [k \in Keys |-> NotHeld]]
    BY <1>6 DEF Dies, Vanishes
  <2> QED
    BY <2>1
<1>7. ASSUME NEW q \in Runs, LeaseStorage(q)
      PROVE  UNCHANGED held \/ AcquireWins(q) \/ ReleaseLands(q) \/ ReleaseConflict(q)
  BY <1>7 DEF LeaseStorage, AcquireRead, AcquireAnswerLost, AcquireConflict
<1>8. ASSUME NEW q \in Runs,
             Acquire(q) \/ AcquireFails(q) \/ Pull(q) \/ AssertHeld(q) \/ Fetch(q)
               \/ SkipPush(q) \/ Put(q) \/ Fails(q)
      PROVE  UNCHANGED held
  BY <1>8 DEF Acquire, AcquireStart, AcquireFails, AcquireRefused, AcquireRaises,
     Pull, AssertHeld, Fetch, SkipPush, Put, Fails, leaseVars
<1>9. Time \/ UNCHANGED vars => UNCHANGED held
  BY DEF Time, Tick, vars, leaseVars
<1> QED
  BY <1>1, <1>2, <1>4, <1>5, <1>6, <1>7, <1>8, <1>9 DEF Next

(* An acquire belongs to a run that still works, a release to one that     *)
(* unwinds.                                                                *)
LEMMA CallsFitNext == TypeOK /\ CallsFit /\ [Next]_vars => CallsFit'
<1> SUFFICES ASSUME TypeOK, CallsFit, [Next]_vars, NEW p \in Runs
             PROVE  /\ call'[p].kind = "acquire" => pc'[p] \in {"begin", "working"}
                    /\ call'[p].kind = "release" => pc'[p] = "unwind"
  BY DEF CallsFit
<1> DEFINE Fits == /\ call'[p].kind = "acquire" => pc'[p] \in {"begin", "working"}
                   /\ call'[p].kind = "release" => pc'[p] = "unwind"
<1>0. /\ call[p].kind = "acquire" => pc[p] \in {"begin", "working"}
      /\ call[p].kind = "release" => pc[p] = "unwind"
  BY DEF CallsFit
<1> USE NoCallTypes DEF TypeOK, LeaseTypeOK
<1>1. CASE UNCHANGED <<call, pc>>
  BY <1>0, <1>1
<1>2. ASSUME NEW q \in Runs, Acquire(q)
      PROVE  Fits
  <2>1. pc[q] \in {"begin", "working"} /\ pc' = pc
    BY <1>2 DEF Acquire, commitVars
  <2>2. PICK k, now : call' = [call EXCEPT ![q] =
                                MkCall("acquire", k, now, 0, FALSE, NoLock)]
    BY <1>2 DEF Acquire, AcquireStart
  <2> QED
    BY <1>0, <2>1, <2>2 DEF MkCall
<1>3. ASSUME NEW q \in Runs, LeaseStorage(q)
      PROVE  Fits
  <2>1. pc' = pc
    BY <1>3 DEF LeaseStorage, commitVars
  <2>2. CASE AcquireWins(q) \/ ReleaseLands(q) \/ ReleaseConflict(q)
    <3>1. call' = [call EXCEPT ![q] = NoCall]
      BY <2>2 DEF AcquireWins, ReleaseLands, ReleaseConflict
    <3> QED
      BY <1>0, <2>1, <3>1
  <2>3. CASE AcquireRead(q) \/ AcquireAnswerLost(q) \/ AcquireConflict(q)
    <3>1. call[q].kind = "acquire"
      BY <2>3 DEF AcquireRead, AcquireAnswerLost, AcquireConflict, Acquiring
    <3>2. PICK k, now, n, loaded, seen :
            call' = [call EXCEPT ![q] = MkCall("acquire", k, now, n, loaded, seen)]
      BY <2>3 DEF AcquireRead, AcquireAnswerLost, AcquireConflict, TriesAgain
    <3> QED
      BY <1>0, <2>1, <3>1, <3>2 DEF MkCall
  <2> QED
    BY <1>3, <2>2, <2>3 DEF LeaseStorage
<1>4. ASSUME NEW q \in Runs, AcquireFails(q) \/ Dies(q)
      PROVE  Fits
  <2>1. call' = [call EXCEPT ![q] = NoCall]
    BY <1>4 DEF AcquireFails, AcquireRefused, AcquireRaises, Dies, Vanishes
  <2>2. \A r \in Runs : r # q => pc'[r] = pc[r]
    BY <1>4 DEF AcquireFails, Dies
  <2> QED
    BY <1>0, <2>1, <2>2
<1>5. ASSUME NEW q \in Runs,
             Pull(q) \/ AssertHeld(q) \/ Fetch(q) \/ SkipPush(q) \/ Put(q)
               \/ Fails(q)
      PROVE  Fits
  <2>1. call' = call
    BY <1>5 DEF Pull, AssertHeld, Fetch, SkipPush, Put, Fails, leaseVars
  <2>2. \A r \in Runs : r # q => pc'[r] = pc[r]
    BY <1>5 DEF Pull, AssertHeld, Fetch, SkipPush, Put, Fails, PushDone
  <2>3. call[q] = NoCall \/ pc[q] \in {"fetch", "put"}
    BY <1>5 DEF Pull, AssertHeld, Fetch, SkipPush, Put, Fails
  <2>4. call[q].kind # "acquire" /\ call[q].kind # "release"
    BY <2>3 DEF CallsFit
  <2> QED
    BY <1>0, <2>1, <2>2, <2>4
<1>6. ASSUME NEW q \in Runs, Release(q)
      PROVE  Fits
  <2>1. pc[q] = "unwind" /\ pc' = pc
    BY <1>6 DEF Release, commitVars
  <2>2. PICK n \in DOMAIN KeysOf(q) : ReleaseRead(q, KeysOf(q)[n])
    BY <1>6 DEF Release
  <2>3. CASE UNCHANGED call
    BY <1>0, <2>1, <2>3
  <2>4. CASE ~UNCHANGED call
    <3>1. PICK now \in HostClocks : call' = [call EXCEPT ![q] =
            MkCall("release", KeysOf(q)[n], now, 0, TRUE, lock[KeysOf(q)[n]])]
      BY <2>2, <2>4 DEF ReleaseRead
    <3>2. call'[q].kind = "release" /\ \A r \in Runs : r # q => call'[r] = call[r]
      BY <3>1 DEF MkCall
    <3> QED
      BY <1>0, <2>1, <3>2
  <2> QED
    BY <2>3, <2>4
<1>7. Time \/ UNCHANGED vars => UNCHANGED <<call, pc>>
  BY DEF Time, Tick, vars, leaseVars, commitVars
<1> QED
  BY <1>1, <1>2, <1>3, <1>4, <1>5, <1>6, <1>7 DEF Next

(* A run that pushes has a push left, with the blocks it owns in it.       *)
LEMMA OwnedTypes ==
    ASSUME TypeOK, NEW p \in Runs, pc[p] = "put"
    PROVE  pushed[p] + 1 \in DOMAIN Pushes[p] /\ Owned(p) \subseteq OwnedSet(p)
<1>1. pushed[p] \in Nat /\ pushed[p] < Len(Pushes[p])
  BY DEF TypeOK
<1>2. Pushes[p] \in Seq(SUBSET Blocks)
  BY CommitAssumption
<1>3. DOMAIN Pushes[p] = 1..Len(Pushes[p]) /\ Len(Pushes[p]) \in Nat
  BY <1>2
<1>4. pushed[p] + 1 \in 1..Len(Pushes[p])
  BY <1>1, <1>3
<1>5. pushed[p] + 1 \in DOMAIN Pushes[p]
  BY <1>3, <1>4, Zenon
<1> QED
  BY <1>5 DEF Owned, OwnedSet

(* A put in time replaces what its run has seen, in blocks it owns, and    *)
(* only a remover's put makes a block vanish.                              *)
LEMMA PutInTime ==
    ASSUME Disciplined, TypeOK, LeaseInv, CommitInv, NEW p \in Runs, Put(p), ~late'
    PROVE  /\ ~late /\ InTime(p)
           /\ \A b \in Blocks : record'[b] # record[b] =>
                /\ b \in Owned(p) /\ b \in OwnedSet(p)
                /\ base[p][b] = record[b]
                /\ record'[b] = Absent => p \in Removers
<1>1. pc[p] = "put" /\ record' = Merged(p) /\ ~late /\ InTime(p)
  BY DEF Put
<1>2. snap[p] = record
  BY <1>1 DEF CommitInv, FetchedCurrent
<1>3. HoldsOuter(p)
  BY <1>1, KeysOfTypes DEF HoldsOuter, InTime
<1>4. \A b \in Blocks : /\ b \in OwnedSet(p) => base[p][b] = record[b]
                        /\ record[b] = Absent => base[p][b] = Absent
  BY <1>1, <1>3 DEF CommitInv, SeenCurrent, Pulled
<1>5. pushed[p] + 1 \in DOMAIN Pushes[p] /\ Owned(p) \subseteq OwnedSet(p)
  BY <1>1, OwnedTypes
<1>6. p \notin Removers => Edits[p] \subseteq Owned(p)
  BY <1>5 DEF Disciplined, Owned
<1>7. p # Absent
  BY CommitAssumption
<1> SUFFICES ASSUME NEW b \in Blocks, record'[b] # record[b]
             PROVE  /\ b \in Owned(p) /\ b \in OwnedSet(p)
                    /\ base[p][b] = record[b]
                    /\ record'[b] = Absent => p \in Removers
  BY <1>1
<1>8. record'[b] = IF b \in Owned(p) \/ record[b] = Absent THEN Local(p)[b]
                   ELSE record[b]
  BY <1>1, <1>2 DEF Merged
<1>9. Local(p)[b] = IF b \in Edits[p] THEN Produced(p) ELSE base[p][b]
  BY DEF Local
<1>10. b \in Owned(p)
  BY <1>4, <1>6, <1>8, <1>9 DEF Produced
<1>11. b \in OwnedSet(p) /\ base[p][b] = record[b]
  BY <1>4, <1>5, <1>10
<1>12. record'[b] = Produced(p)
  BY <1>8, <1>9, <1>10, <1>11
<1> QED
  BY <1>7, <1>10, <1>11, <1>12 DEF Produced

LEMMA CommitInvInit == Init => CommitInv
BY NoCallTypes DEF Init, LeaseInit, CommitInv, CallsFit, OuterKept, SeenCurrent,
   FetchedCurrent, Pulled

LEMMA CommitInvNext ==
    ASSUME Disciplined, TypeOK, LeaseInv, CommitInv, [Next]_vars
    PROVE  CommitInv'
<1>1. CallsFit'
  BY CallsFitNext DEF CommitInv
<1>2. LeaseTypeOK /\ CallKnows /\ CallsFit /\ Exclusive
  BY InvExclusive DEF LeaseInv, CommitInv
<1>3. clock \in Nat /\ clock' \in Nat /\ clock' >= clock
  BY <1>2, ClockUp, RunsUseLeases DEF LeaseTypeOK
<1>4. ASSUME NEW p \in Runs, NEW k \in Keys, held'[p][k] = held[p][k],
             Holds(p, k)'
      PROVE  Holds(p, k)
  <2>1. held[p][k] \in Int
    BY <1>2 DEF LeaseTypeOK, NotHeld
  <2> QED
    BY <1>3, <1>4, <2>1, MaintenanceAssumption DEF Holds
<1>5. ASSUME NEW p \in Runs, Pulled(p), Pulled(p)'
      PROVE  /\ \A k \in OuterSet(p) : held[p][k] # NotHeld
             /\ \A k \in OuterSet(p) : held'[p][k] = held[p][k]
             /\ HoldsOuter(p)' => HoldsOuter(p)
  <2>1. \A k \in OuterSet(p) : held[p][k] # NotHeld
    BY <1>5 DEF CommitInv, OuterKept
  <2>2. pc[p] # "unwind" /\ pc'[p] # "dead"
    BY <1>5 DEF Pulled
  <2>3. \A k \in OuterSet(p) : k \in Keys /\ held'[p][k] = held[p][k]
    BY <1>2, <2>1, <2>2, HeldStable, KeysOfTypes
  <2>4. HoldsOuter(p)' => HoldsOuter(p)
    BY <1>4, <2>3 DEF HoldsOuter, OuterSet
  <2> QED
    BY <2>1, <2>3, <2>4
<1>6. OuterKept'
  <2> SUFFICES ASSUME NEW p \in Runs, Pulled(p)', NEW k \in OuterSet(p)
               PROVE  held'[p][k] # NotHeld
    BY DEF OuterKept, OuterSet
  <2>1. CASE Pulled(p)
    BY <1>5, <2>1
  <2>2. CASE ~Pulled(p)
    <3>1. Pull(p)
      BY <2>2, StepFrames
    <3>2. HasAll(p, Outer[p]) /\ UNCHANGED held
      BY <3>1 DEF Pull, Wanted, Disciplined, leaseVars
    <3> QED
      BY <3>2 DEF HasAll, OuterSet
  <2> QED
    BY <2>1, <2>2
<1>7. ASSUME NEW q \in Runs, Put(q), ~late'
      PROVE  /\ \A k \in KeySet(q) : Holds(q, k)
             /\ \A b \in Blocks : record'[b] # record[b] =>
                  b \in OwnedSet(q) /\ (record'[b] = Absent => q \in Removers)
  BY <1>7, PutInTime DEF InTime
<1>8. SeenCurrent'
  <2> SUFFICES ASSUME NEW p \in Runs, ~late', Pulled(p)', HoldsOuter(p)',
                      NEW b \in Blocks
               PROVE  /\ b \in OwnedSet(p) => base'[p][b] = record'[b]
                      /\ record'[b] = Absent => base'[p][b] = Absent
    BY DEF SeenCurrent, OwnedSet
  <2>1. CASE ~Pulled(p)
    <3>1. Pull(p)
      BY <2>1, StepFrames
    <3> QED
      BY <3>1 DEF Pull, TypeOK
  <2>2. CASE Put(p)
    <3>1. record' = Merged(p) /\ base'[p] = Merged(p)
      BY <2>2 DEF Put, TypeOK
    <3> QED
      BY <3>1
  <2>3. CASE Pulled(p) /\ ~Put(p)
    <3>1. HoldsOuter(p) /\ base'[p] = base[p]
      BY <1>5, <2>3, StepFrames
    <3>2. CASE record' = record /\ late' = late
      BY <2>3, <3>1, <3>2 DEF CommitInv, SeenCurrent
    <3>3. ASSUME NEW q \in Runs, Put(q)
          PROVE  /\ b \in OwnedSet(p) => base'[p][b] = record'[b]
                 /\ record'[b] = Absent => base'[p][b] = Absent
      <4>1. q # p
        BY <2>3, <3>3
      <4>2. ~late
        BY <3>3 DEF Put
      <4>3. /\ b \in OwnedSet(p) => base[p][b] = record[b]
            /\ record[b] = Absent => base[p][b] = Absent
        BY <2>3, <3>1, <4>2 DEF CommitInv, SeenCurrent
      <4>4. OuterSet(p) \cap OuterSet(q) = {}
        BY <1>2, <1>7, <3>1, <3>3, <4>1, KeysOfTypes DEF HoldsOuter, Exclusive
      <4>5. OwnedSet(p) \cap OwnedSet(q) = {} /\ q \notin Removers
        BY <4>1, <4>4 DEF Disciplined
      <4>6. record'[b] # record[b] => b \notin OwnedSet(p) /\ record'[b] # Absent
        BY <1>7, <3>3, <4>5
      <4> QED
        BY <3>1, <4>3, <4>6
    <3> QED
      BY <3>2, <3>3, StepFrames
  <2> QED
    BY <2>1, <2>2, <2>3
<1>9. FetchedCurrent'
  <2> SUFFICES ASSUME NEW p \in Runs, ~late', pc'[p] = "put", InTime(p)'
               PROVE  snap'[p] = record'
    BY DEF FetchedCurrent
  <2>1. CASE pc[p] # "put"
    <3>1. Fetch(p)
      BY <2>1, StepFrames
    <3> QED
      BY <3>1 DEF Fetch, TypeOK
  <2>2. CASE pc[p] = "put"
    <3>1. held'[p] = held[p]
      BY <1>2, <2>2, HeldStable
    <3>2. InTime(p)
      BY <1>4, <3>1, KeysOfTypes DEF InTime, KeySet, KeysOf
    <3>3. snap'[p] = snap[p] /\ ~Put(p)
      BY <2>2, StepFrames
    <3>4. CASE record' = record /\ late' = late
      BY <2>2, <3>2, <3>3, <3>4 DEF CommitInv, FetchedCurrent
    <3>5. ASSUME NEW q \in Runs, Put(q)
          PROVE  FALSE
      <4>1. q # p
        BY <3>3, <3>5
      <4>2. KeySet(p) \cap KeySet(q) # {}
        BY <4>1 DEF Disciplined
      <4> QED
        BY <1>2, <1>7, <3>2, <3>5, <4>1, <4>2, KeysOfTypes DEF InTime, Exclusive
    <3> QED
      BY <3>4, <3>5, StepFrames
  <2> QED
    BY <2>1, <2>2
<1> QED
  BY <1>1, <1>6, <1>8, <1>9 DEF CommitInv

(* Only a put changes the record, so a push is serial if every put is.     *)
LEMMA SerialNext ==
    ASSUME Disciplined, TypeOK, LeaseInv, CommitInv, [Next]_vars
    PROVE  SerialStep
<1> SUFFICES ASSUME ~late', NEW p \in Runs, Pushing(p), NEW b \in Blocks,
                    record'[b] # record[b]
             PROVE  b \in Owned(p) /\ base[p][b] = record[b]
  BY DEF SerialStep
<1>1. PICK q \in Runs : Put(q)
  BY StepFrames
<1>2. q = p
  BY <1>1 DEF Put, PushDone, Pushing, TypeOK
<1> QED
  BY <1>1, <1>2, PutInTime

(* Under the discipline of the chapter lanes and of a reset that leases    *)
(* before it pulls, no push that is in time changes a block it does not    *)
(* own or replaces content its run has not seen, for any number of runs,   *)
(* keys and blocks, any TTL and any clock skew.                            *)
THEOREM CommitsSerialised == Disciplined => (Spec => SerialCommits)
<1> SUFFICES ASSUME Disciplined PROVE Spec => SerialCommits
  OBVIOUS
<1>1. Spec => []TypeOK /\ []LeaseInv
  BY TypeCorrect, LeasesInvariant
<1>2. TypeOK /\ LeaseInv /\ CommitInv /\ [Next]_vars => CommitInv'
  BY CommitInvNext
<1>3. TypeOK /\ LeaseInv /\ CommitInv /\ [Next]_vars => [SerialStep]_vars
  BY SerialNext
<1> QED
  BY <1>1, <1>2, <1>3, CommitInvInit, PTL DEF Spec, SerialCommits

=============================================================================
