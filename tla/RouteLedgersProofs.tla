------------------------- MODULE RouteLedgersProofs -------------------------
(***************************************************************************)
(* A call whose reservation has not expired has it in the ledger, so that  *)
(* no more calls run than the concurrency limits allow: for any jobs,      *)
(* routes, quotas, TTL, retries, and however late a clock reading is used. *)
(***************************************************************************)
EXTENDS RouteLedgers, FiniteSetTheorems, TLAPS

-----------------------------------------------------------------------------
(* Numbers.                                                                *)

LEMMA DayNat == \A now \in Nat : Day(now) \in Nat
BY QuotaAssumption DEF Day

LEMMA ProductNat == \A x, y \in Nat : x * y \in Nat
OBVIOUS

LEMMA ScheduleNat ==
    \A before, requests, now \in Nat : Schedule(before, requests, now) \in Nat
BY QuotaAssumption, ProductNat DEF Schedule

LEMMA LessNat == \A count, requests \in Nat : Less(count, requests) \in Nat
BY DEF Less

-----------------------------------------------------------------------------
(* The operations of LLMBudget on one route's ledger.                      *)

(* Smaller ledgers stay within the limits.                                 *)
LEMMA RouteShrinks ==
    ASSUME NEW led \in Ledgers, NEW less \in Ledgers, RouteWithin(led),
           less.inflight \subseteq led.inflight, less.exists = led.exists
    PROVE  RouteWithin(less)
<1>1. IsFiniteSet(led.inflight) /\ Cardinality(led.inflight) <= Concurrency
  BY DEF RouteWithin
<1>2. IsFiniteSet(less.inflight) /\ Cardinality(less.inflight) <= Cardinality(led.inflight)
  BY <1>1, FS_Subset
<1>3. Cardinality(led.inflight) \in Nat /\ Cardinality(less.inflight) \in Nat
  BY <1>1, <1>2, FS_CardinalityType
<1> QED
  BY <1>1, <1>2, <1>3, QuotaAssumption DEF RouteWithin

LEMMA TurnedFacts ==
    ASSUME NEW led \in Ledgers, NEW now \in Nat
    PROVE  /\ Turned(led, now) \in Ledgers
           /\ Turned(led, now).inflight = led.inflight
           /\ Turned(led, now).exists = led.exists
           /\ Turned(led, now).avail = led.avail
BY DayNat DEF Turned, Ledgers

LEMMA UnwoundFacts ==
    ASSUME NEW led \in Ledgers, NEW gone \in SUBSET led.inflight, NEW avail \in Nat,
           IsFiniteSet(led.inflight)
    PROVE  /\ Unwound(led, gone, avail) \in Ledgers
           /\ Unwound(led, gone, avail).inflight = led.inflight \ gone
           /\ Unwound(led, gone, avail).exists = led.exists
<1> DEFINE counted == {s \in gone : Day(s.at) = led.key}
<1>1. IsFiniteSet(counted)
  BY FS_Subset
<1>2. Cardinality(counted) \in Nat
  BY <1>1, FS_CardinalityType
<1>3. Requests * Cardinality(counted) \in Nat
  BY <1>2, QuotaAssumption, ProductNat
<1>4. Less(led.day, Requests * Cardinality(counted)) \in Nat
  BY <1>3, LessNat DEF Ledgers
<1> HIDE DEF counted
<1>5. Unwound(led, gone, avail) =
        [led EXCEPT !.inflight = led.inflight \ gone, !.avail = avail,
                    !.day = Less(led.day, Requests * Cardinality(counted))]
  BY DEF Unwound, counted
<1> QED
  BY <1>4, <1>5 DEF Ledgers

LEMMA RestoredNat ==
    ASSUME NEW led \in Ledgers, NEW gone \in SUBSET led.inflight,
           NEW v \in Restored(led, gone)
    PROVE  v \in Nat
<1>1. \A s \in gone : s.before \in Nat
  BY DEF Ledgers, Reservations
<1>2. led.avail \in Nat
  BY DEF Ledgers
<1> QED
  BY <1>1, <1>2 DEF Restored

LEMMA RolledFacts ==
    ASSUME NEW led \in Ledgers, RouteWithin(led), NEW now \in Nat, NEW avail \in Nat
    PROVE  /\ Rolled(led, now, avail) \in Ledgers
           /\ Rolled(led, now, avail).inflight = led.inflight \ Expired(led, now)
           /\ Rolled(led, now, avail).exists = led.exists
           /\ RouteWithin(Rolled(led, now, avail))
<1>1. IsFiniteSet(led.inflight)
  BY DEF RouteWithin
<1>2. Expired(led, now) \in SUBSET Turned(led, now).inflight
  BY TurnedFacts DEF Expired
<1>3. /\ Rolled(led, now, avail) \in Ledgers
      /\ Rolled(led, now, avail).inflight = led.inflight \ Expired(led, now)
      /\ Rolled(led, now, avail).exists = led.exists
  <2> DEFINE turned == Turned(led, now)
  <2>1. /\ turned \in Ledgers /\ turned.inflight = led.inflight
        /\ turned.exists = led.exists
    BY TurnedFacts
  <2>2. Rolled(led, now, avail) = Unwound(turned, Expired(led, now), avail)
    BY DEF Rolled
  <2> HIDE DEF turned
  <2>3. Expired(led, now) \in SUBSET turned.inflight /\ IsFiniteSet(turned.inflight)
    BY <1>1, <1>2, <2>1 DEF turned
  <2> QED
    BY <2>1, <2>2, <2>3, UnwoundFacts
<1> QED
  BY <1>3, RouteShrinks

LEMMA ReservedFacts ==
    ASSUME NEW led \in Ledgers, NEW owner \in Owners, NEW now \in Nat
    PROVE  /\ Reserved(led, owner, now) \in Ledgers
           /\ Reserved(led, owner, now).inflight =
                led.inflight \cup {MkReservation(owner, now, led.avail)}
           /\ Reserved(led, owner, now).exists
           /\ MkReservation(owner, now, led.avail) \in Reservations
           /\ MkReservation(owner, now, led.avail).owner = owner
           /\ MkReservation(owner, now, led.avail).at = now
<1> DEFINE there == [led EXCEPT !.exists = TRUE]
           new == MkReservation(owner, now, led.avail)
<1>1. there \in Ledgers /\ there.inflight = led.inflight /\ there.exists
  BY DEF Ledgers
<1>2. new \in Reservations /\ new.owner = owner /\ new.at = now
  BY DEF MkReservation, Reservations, Ledgers
<1>3. /\ Turned(there, now) \in Ledgers
      /\ Turned(there, now).inflight = led.inflight
      /\ Turned(there, now).exists
  BY <1>1, TurnedFacts
<1>4. Schedule(led.avail, Requests, now) \in Nat
  BY ScheduleNat, QuotaAssumption DEF Ledgers
<1> DEFINE turned == Turned(there, now)
<1>5. Reserved(led, owner, now) =
        [turned EXCEPT !.day = turned.day + Requests,
                       !.avail = Schedule(led.avail, Requests, now),
                       !.inflight = turned.inflight \cup {new}]
  BY DEF Reserved
<1> HIDE DEF turned, new, there
<1>6. turned \in Ledgers /\ turned.inflight = led.inflight /\ turned.exists
  BY <1>3 DEF turned
<1>7. turned.day + Requests \in Nat
  BY <1>6, QuotaAssumption DEF Ledgers
<1>8. turned.inflight \cup {new} \in SUBSET Reservations
  BY <1>2, <1>6 DEF Ledgers
<1>9. /\ Reserved(led, owner, now) \in Ledgers
      /\ Reserved(led, owner, now).inflight = led.inflight \cup {new}
      /\ Reserved(led, owner, now).exists
  BY <1>4, <1>5, <1>6, <1>7, <1>8 DEF Ledgers
<1> QED
  BY <1>2, <1>9 DEF new

(* settle, release and block take away the caller's own reservation, if    *)
(* any.                                                                    *)
Trims(less, led, owner) ==
    /\ less \in Ledgers
    /\ less.inflight \subseteq led.inflight
    /\ less.exists = led.exists
    /\ \A s \in led.inflight : s.owner # owner => s \in less.inflight

LEMMA SettledFacts ==
    ASSUME NEW led \in Ledgers, NEW owner \in Owners, NEW actual \in Nat
    PROVE  Trims(Settled(led, owner, actual), led, owner)
<1>1. CASE Own(led, owner) = {}
  BY <1>1 DEF Settled, Trims
<1>2. CASE Own(led, owner) # {}
  <2> DEFINE s == CHOOSE u \in Own(led, owner) : TRUE
  <2>1. s \in Own(led, owner)
    BY <1>2
  <2>2. Settled(led, owner, actual) = Corrected(led, s, actual)
    BY <1>2 DEF Settled
  <2> HIDE DEF s
  <2> DEFINE day == IF Day(s.at) = led.key THEN Less(led.day + actual, Requests) ELSE led.day
             avail == IF led.avail = After(s) THEN Schedule(s.before, actual, s.at) ELSE led.avail
  <2>3. s \in led.inflight /\ s.owner = owner /\ s \in Reservations
    BY <2>1 DEF Own, Ledgers
  <2>4. day \in Nat
    <3>1. led.day \in Nat /\ led.day + actual \in Nat /\ Requests \in Nat
      BY QuotaAssumption DEF Ledgers
    <3>2. Less(led.day + actual, Requests) \in Nat
      BY <3>1, LessNat
    <3> QED
      BY <3>1, <3>2
  <2>5. avail \in Nat
    BY <2>3, ScheduleNat DEF Ledgers, Reservations
  <2> HIDE DEF day, avail
  <2>6. /\ Settled(led, owner, actual) \in Ledgers
        /\ Settled(led, owner, actual).inflight = led.inflight \ {s}
        /\ Settled(led, owner, actual).exists = led.exists
    BY <2>2, <2>4, <2>5 DEF Corrected, day, avail, Ledgers
  <2> QED
    BY <2>3, <2>6 DEF Trims
<1> QED
  BY <1>1, <1>2

LEMMA ReleasedFacts ==
    ASSUME NEW led \in Ledgers, RouteWithin(led), NEW owner \in Owners
    PROVE  Trims(Released(led, owner), led, owner)
<1> DEFINE gone == Own(led, owner)
           avail == IF \E s \in gone : After(s) = led.avail
                    THEN (CHOOSE s \in gone : TRUE).before ELSE led.avail
<1>1. gone \in SUBSET led.inflight
  BY DEF Own
<1>2. avail \in Nat
  <2>1. CASE gone = {}
    BY <2>1 DEF Ledgers
  <2>2. CASE gone # {}
    <3>1. (CHOOSE s \in gone : TRUE) \in gone
      BY <2>2
    <3>2. (CHOOSE s \in gone : TRUE).before \in Nat
      BY <1>1, <3>1 DEF Ledgers, Reservations
    <3> QED
      BY <3>2 DEF Ledgers
  <2> QED
    BY <2>1, <2>2
<1>3. Released(led, owner) = Unwound(led, gone, avail)
  BY DEF Released
<1> HIDE DEF avail
<1>4. IsFiniteSet(led.inflight)
  BY DEF RouteWithin
<1>5. /\ Released(led, owner) \in Ledgers
      /\ Released(led, owner).inflight = led.inflight \ gone
      /\ Released(led, owner).exists = led.exists
  BY <1>1, <1>2, <1>3, <1>4, UnwoundFacts
<1> QED
  BY <1>5 DEF Trims, Own

LEMMA BlockedFacts ==
    ASSUME NEW led \in Ledgers, NEW owner \in Owners, NEW until \in Nat
    PROVE  Trims(Blocked(led, until), led, owner)
BY DEF Blocked, Ledgers, Trims

-----------------------------------------------------------------------------
(* The whole ledger.                                                       *)

LEMMA WithinShrinks ==
    ASSUME NEW b \in [Routes -> Ledgers], NEW c \in [Routes -> Ledgers], Within(b),
           \A r \in Routes : /\ c[r].inflight \subseteq b[r].inflight
                             /\ c[r].exists = b[r].exists
    PROVE  Within(c)
<1>1. \A r \in Routes : RouteWithin(c[r])
  <2> TAKE r \in Routes
  <2>1. b[r] \in Ledgers /\ c[r] \in Ledgers /\ RouteWithin(b[r])
    BY DEF Within
  <2> QED
    BY <2>1, RouteShrinks
<1>2. AllInflight(c) \in SUBSET AllInflight(b)
  BY DEF AllInflight
<1>3. IsFiniteSet(AllInflight(b)) /\ Cardinality(AllInflight(b)) <= ProviderConcurrency
  BY DEF Within
<1>4. /\ IsFiniteSet(AllInflight(c))
      /\ Cardinality(AllInflight(c)) <= Cardinality(AllInflight(b))
  BY <1>2, <1>3, FS_Subset
<1>5. Cardinality(AllInflight(b)) \in Nat /\ Cardinality(AllInflight(c)) \in Nat
  BY <1>3, <1>4, FS_CardinalityType
<1>6. Cardinality(AllInflight(c)) <= ProviderConcurrency
  BY <1>3, <1>4, <1>5, QuotaAssumption
<1> QED
  BY <1>1, <1>4, <1>6 DEF Within

LEMMA AddOne ==
    ASSUME NEW S, NEW x, IsFiniteSet(S), NEW n \in Nat, Cardinality(S) < n
    PROVE  IsFiniteSet(S \cup {x}) /\ Cardinality(S \cup {x}) <= n
<1>1. Cardinality(S) \in Nat
  BY FS_CardinalityType
<1>2. /\ IsFiniteSet(S \cup {x})
      /\ Cardinality(S \cup {x}) = IF x \in S THEN Cardinality(S) ELSE Cardinality(S) + 1
  BY FS_AddElement
<1>3. CASE x \in S
  BY <1>1, <1>2, <1>3
<1>4. CASE x \notin S
  BY <1>1, <1>2, <1>4
<1> QED
  BY <1>3, <1>4

(* A reservation on an available route.                                    *)
LEMMA WithinGrows ==
    ASSUME NEW b \in [Routes -> Ledgers], Within(b), NEW r \in Routes, NEW now \in Nat,
           NEW owner \in Owners, Available(b, r, now)
    PROVE  /\ [b EXCEPT ![r] = Reserved(@, owner, now)] \in [Routes -> Ledgers]
           /\ Within([b EXCEPT ![r] = Reserved(@, owner, now)])
<1> DEFINE new == MkReservation(owner, now, b[r].avail)
           led == Reserved(b[r], owner, now)
           c == [b EXCEPT ![r] = led]
<1>1. b[r] \in Ledgers
  OBVIOUS
<1>2. led \in Ledgers /\ led.inflight = b[r].inflight \cup {new} /\ led.exists
  BY <1>1, ReservedFacts
<1> HIDE DEF new, led
<1>3. c \in [Routes -> Ledgers]
  BY <1>2
<1>4. RouteWithin(led)
  <2>1. /\ IsFiniteSet(b[r].inflight) /\ Cardinality(b[r].inflight) <= Concurrency
        /\ ~b[r].exists => b[r].inflight = {}
    BY DEF Within, RouteWithin
  <2>2. Cardinality(b[r].inflight) < Concurrency
    <3>1. CASE b[r].exists
      BY <3>1 DEF Available
    <3>2. CASE ~b[r].exists
      BY <2>1, <3>2, FS_EmptySet, QuotaAssumption
    <3>3. b[r].exists \in BOOLEAN
      BY <1>1 DEF Ledgers
    <3> QED
      BY <3>1, <3>2, <3>3
  <2>3. /\ IsFiniteSet(b[r].inflight \cup {new})
        /\ Cardinality(b[r].inflight \cup {new}) <= Concurrency
    BY <2>1, <2>2, AddOne, QuotaAssumption
  <2> QED
    BY <1>2, <2>3 DEF RouteWithin
<1>5. \A q \in Routes : RouteWithin(c[q])
  BY <1>4 DEF Within
<1>6. AllInflight(c) = AllInflight(b) \cup {new}
  <2>1. c[r].inflight = b[r].inflight \cup {new}
    BY <1>2
  <2>2. \A q \in Routes : q # r => c[q].inflight = b[q].inflight
    OBVIOUS
  <2> HIDE DEF c
  <2> QED
    BY <2>1, <2>2 DEF AllInflight
<1> HIDE DEF c
<1>7. /\ IsFiniteSet(AllInflight(b))
      /\ Cardinality(AllInflight(b)) < ProviderConcurrency
  BY DEF Within, Available
<1>8. /\ IsFiniteSet(AllInflight(c))
      /\ Cardinality(AllInflight(c)) <= ProviderConcurrency
  <2>1. ProviderConcurrency \in Nat
    BY QuotaAssumption
  <2>2. /\ IsFiniteSet(AllInflight(b) \cup {new})
        /\ Cardinality(AllInflight(b) \cup {new}) <= ProviderConcurrency
    BY <1>7, <2>1, AddOne
  <2> QED
    BY <1>6, <2>2
<1>9. Within(c)
  BY <1>5, <1>8 DEF Within
<1> QED
  BY <1>3, <1>9 DEF led, c

(* What select_route rolls over before it looks at the routes.             *)
LEMMA RolledBookFacts ==
    ASSUME LedgerInv, NEW now \in Nat, NEW f \in Avails(book, now)
    PROVE  /\ RolledBook(book, now, f) \in [Routes -> Ledgers]
           /\ Within(RolledBook(book, now, f))
           /\ \A r \in Routes : \A s \in book[r].inflight :
                s.at + TTL > now => s \in RolledBook(book, now, f)[r].inflight
<1>1. book \in [Routes -> Ledgers] /\ Within(book)
  BY DEF LedgerInv, TypeOK
<1>2. ASSUME NEW r \in Routes
      PROVE  /\ Rolled(book[r], now, f[r]) \in Ledgers
             /\ Rolled(book[r], now, f[r]).inflight = book[r].inflight \ Expired(book[r], now)
             /\ Rolled(book[r], now, f[r]).exists = book[r].exists
  <2>1. book[r] \in Ledgers /\ RouteWithin(book[r])
    BY <1>1 DEF Within
  <2>2. f[r] \in Restored(book[r], Expired(book[r], now))
    BY DEF Avails
  <2>3. Expired(book[r], now) \in SUBSET book[r].inflight
    BY DEF Expired
  <2>4. f[r] \in Nat
    BY <2>1, <2>2, <2>3, RestoredNat
  <2> QED
    BY <2>1, <2>4, RolledFacts
<1> DEFINE b == RolledBook(book, now, f)
<1>3. b = [r \in Routes |-> Rolled(book[r], now, f[r])]
  BY DEF RolledBook
<1> HIDE DEF b
<1>4. b \in [Routes -> Ledgers]
  BY <1>2, <1>3
<1>5. \A r \in Routes : /\ b[r].inflight = book[r].inflight \ Expired(book[r], now)
                        /\ b[r].exists = book[r].exists
  BY <1>2, <1>3
<1>6. \A r \in Routes : b[r].inflight \subseteq book[r].inflight
  BY <1>5
<1>7. Within(b)
  BY <1>1, <1>4, <1>5, <1>6, WithinShrinks
<1>8. ASSUME NEW r \in Routes, NEW s \in book[r].inflight, s.at + TTL > now
      PROVE  s \in b[r].inflight
  <2>1. s.at \in Nat
    BY <1>1 DEF Ledgers, Reservations
  <2>2. s \notin Expired(book[r], now)
    BY <1>8, <2>1, QuotaAssumption DEF Expired
  <2> QED
    BY <1>5, <2>2
<1> QED
  BY <1>4, <1>7, <1>8 DEF b

(* settle, release and block on the loaded ledger.                         *)
LEMMA MutatedFacts ==
    ASSUME LedgerInv, NEW j \in Jobs, NEW now \in Nat,
           job[j].pc = "load", job[j].op # "reserve",
           NEW avail \in Restored(book[job[j].route], Expired(book[job[j].route], now))
    PROVE  LET r == job[j].route
               b == [book EXCEPT ![r] = Mutated(j, Rolled(@, now, avail))]
           IN /\ r \in Routes
              /\ b \in [Routes -> Ledgers] /\ Within(b)
              /\ \A q \in Routes : \A s \in book[q].inflight :
                    s.at + TTL > now /\ s.owner # Owner(j) => s \in b[q].inflight
<1> DEFINE r == job[j].route
           led == Rolled(book[r], now, avail)
           less == Mutated(j, led)
           b == [book EXCEPT ![r] = less]
<1>1. book \in [Routes -> Ledgers] /\ Within(book) /\ job[j] \in JobTypes
  BY DEF LedgerInv, TypeOK
<1>2. r \in Routes /\ (job[j].op \in {"block", "settle", "rejected"} => job[j].sent > 0)
  BY DEF LedgerInv, BodyInv, JobPlaced
<1>3. book[r] \in Ledgers /\ RouteWithin(book[r])
  BY <1>1, <1>2 DEF Within
<1>4. avail \in Nat
  <2>1. Expired(book[r], now) \in SUBSET book[r].inflight
    BY DEF Expired
  <2> QED
    BY <1>3, <2>1, RestoredNat
<1>5. /\ led \in Ledgers /\ RouteWithin(led) /\ led.exists = book[r].exists
      /\ led.inflight = book[r].inflight \ Expired(book[r], now)
  BY <1>3, <1>4, RolledFacts
<1> HIDE DEF led
<1>6. Owner(j) \in Owners
  BY <1>1 DEF Owner, Owners, JobTypes
<1>7. Trims(less, led, Owner(j))
  <2>1. CASE job[j].op = "block"
    <3>1. job[j].until \in Nat
      BY <1>1 DEF JobTypes
    <3>2. less = Blocked(led, job[j].until)
      BY <2>1 DEF Mutated
    <3> QED
      BY <1>5, <1>6, <3>1, <3>2, BlockedFacts
  <2>2. CASE job[j].op = "release"
    <3>1. less = Released(led, Owner(j))
      BY <2>2 DEF Mutated
    <3> QED
      BY <1>5, <1>6, <3>1, ReleasedFacts
  <2>3. CASE job[j].op \in {"settle", "rejected"}
    <3>1. job[j].sent \in Nat
      BY <1>1 DEF JobTypes
    <3>2. Actual(j) \in Nat
      BY <1>2, <2>3, <3>1 DEF Actual
    <3>3. less = Settled(led, Owner(j), Actual(j))
      BY <2>3 DEF Mutated
    <3> QED
      BY <1>5, <1>6, <3>2, <3>3, SettledFacts
  <2> QED
    BY <1>1, <2>1, <2>2, <2>3 DEF JobTypes
<1> HIDE DEF less
<1>8. b \in [Routes -> Ledgers]
  BY <1>1, <1>7 DEF Trims
<1>9. \A q \in Routes : /\ b[q].inflight \subseteq book[q].inflight
                        /\ b[q].exists = book[q].exists
  BY <1>1, <1>2, <1>5, <1>7 DEF Trims
<1>10. Within(b)
  BY <1>1, <1>8, <1>9, WithinShrinks
<1>11. ASSUME NEW q \in Routes, NEW s \in book[q].inflight,
              s.at + TTL > now, s.owner # Owner(j)
       PROVE  s \in b[q].inflight
  <2>1. CASE q # r
    BY <1>1, <2>1
  <2>2. CASE q = r
    <3>1. s.at \in Nat
      BY <1>1, <1>11 DEF Ledgers, Reservations
    <3>2. s \in led.inflight
      BY <1>5, <1>11, <2>2, <3>1, QuotaAssumption DEF Expired
    <3>3. s \in less.inflight
      BY <1>7, <1>11, <3>2 DEF Trims
    <3> QED
      BY <1>1, <1>2, <2>2, <3>3
  <2> QED
    BY <2>1, <2>2
<1> QED
  BY <1>2, <1>8, <1>10, <1>11 DEF less, led

-----------------------------------------------------------------------------
(* The invariant.                                                          *)

LEMMA BlankFacts ==
    /\ NoLedger \in Ledgers /\ NoLedger.inflight = {}
    /\ NewBook \in [Routes -> Ledgers] /\ Within(NewBook)
    /\ NewJob \in JobTypes
<1>1. NoLedger \in Ledgers /\ NoLedger.inflight = {}
  BY DEF NoLedger, Ledgers
<1>2. NewBook \in [Routes -> Ledgers]
  BY <1>1 DEF NewBook
<1>3. \A r \in Routes : NewBook[r].inflight = {}
  BY <1>1 DEF NewBook
<1>4. AllInflight(NewBook) = {}
  BY <1>3 DEF AllInflight
<1>5. Within(NewBook)
  BY <1>3, <1>4, FS_EmptySet, QuotaAssumption DEF Within, RouteWithin
<1>6. NewJob \in JobTypes
  BY <1>2 DEF NewJob, JobTypes
<1> QED
  BY <1>1, <1>2, <1>5, <1>6

LEMMA LedgerInvInit == Init => LedgerInv
<1> SUFFICES ASSUME Init PROVE LedgerInv
  OBVIOUS
<1>1. TypeOK /\ Within(book)
  BY BlankFacts DEF Init, TypeOK
<1>2. \A j \in Jobs : job[j] = NewJob
  BY DEF Init
<1>3. clock = 0
  BY DEF Init
<1>4. CallReserved
  BY <1>2 DEF CallReserved, InTime, NewJob
<1>5. \A j \in Jobs : BodyInv(j)
  BY <1>2, <1>3 DEF BodyInv, JobPlaced, BodyKeeps, BodyReserves, NewJob
<1> QED
  BY <1>1, <1>4, <1>5 DEF LedgerInv

(* Only job j steps.                                                       *)
StepOf(j) ==
    /\ job' \in [Jobs -> JobTypes]
    /\ \A k \in Jobs : k # j => job'[k] = job[k]

LEMMA StepOfOne ==
    ASSUME LedgerInv, NEW j \in Jobs, NEW rec \in JobTypes,
           job' = [job EXCEPT ![j] = rec]
    PROVE  StepOf(j) /\ job'[j] = rec
BY DEF LedgerInv, TypeOK, StepOf

LEMMA BodyKept ==
    ASSUME NEW k \in Jobs, job'[k] = job[k], UNCHANGED clock, BodyInv(k)
    PROVE  BodyInv(k)'
<1>1. JobPlaced(k)' /\ BodyKeeps(k)' /\ BodyReserves(k)'
  BY DEF BodyInv, JobPlaced, BodyKeeps, BodyReserves, Owner
<1>2. (job[k].pc = "put" => Within(job[k].body))'
  BY DEF BodyInv, Within, RouteWithin, AllInflight
<1> QED
  BY <1>1, <1>2 DEF BodyInv

(* A step of a job that leaves the ledger alone.                           *)
LEMMA LocalStep ==
    ASSUME LedgerInv, NEW j \in Jobs, StepOf(j), UNCHANGED <<clock, book, settled>>,
           BodyInv(j)',
           job'[j].pc = "call" =>
                /\ job[j].pc = "call" /\ job'[j].route = job[j].route
                /\ job'[j].uuid = job[j].uuid /\ job'[j].at = job[j].at
    PROVE  LedgerInv'
<1>1. TypeOK'
  BY DEF LedgerInv, TypeOK, StepOf
<1>2. Within(book)'
  BY DEF LedgerInv, Within, RouteWithin, AllInflight
<1>4. \A k \in Jobs : k # j => job'[k] = job[k]
  BY DEF StepOf
<1>5. CallReserved'
  <2> SUFFICES ASSUME NEW k \in Jobs, InTime(k)'
               PROVE  (\E s \in book[job[k].route].inflight :
                            s.owner = Owner(k) /\ s.at = job[k].at)'
    BY DEF CallReserved
  <2>1. /\ InTime(k) /\ job'[k].route = job[k].route
        /\ job'[k].uuid = job[k].uuid /\ job'[k].at = job[k].at
    BY <1>4 DEF InTime
  <2>2. \E s \in book[job[k].route].inflight : s.owner = Owner(k) /\ s.at = job[k].at
    BY <2>1 DEF LedgerInv, CallReserved
  <2> QED
    BY <2>1, <2>2 DEF Owner
<1>6. \A k \in Jobs : BodyInv(k)'
  <2> SUFFICES ASSUME NEW k \in Jobs, k # j PROVE BodyInv(k)'
    OBVIOUS
  <2>1. BodyInv(k)
    BY DEF LedgerInv
  <2> QED
    BY <1>4, <2>1, BodyKept
<1> QED
  BY <1>1, <1>2, <1>5, <1>6 DEF LedgerInv

(* A step of a job that writes the ledger.                                 *)
LEMMA LandStep ==
    ASSUME LedgerInv, NEW j \in Jobs, job[j].pc = "put", Lands(j),
           StepOf(j), UNCHANGED clock, BodyInv(j)',
           job'[j].pc = "call" =>
                \E s \in job[j].body[job'[j].route].inflight :
                    s.owner = <<j, job'[j].uuid>> /\ s.at = job'[j].at
    PROVE  LedgerInv'
<1>1. /\ job' \in [Jobs -> JobTypes] /\ job[j] \in JobTypes
      /\ clock \in Nat /\ book \in [Routes -> Ledgers]
  BY DEF LedgerInv, TypeOK, StepOf
<1>2. \A k \in Jobs : k # j => job'[k] = job[k]
  BY DEF StepOf
<1>3. BodyInv(j)
  BY DEF LedgerInv
<1>4. /\ job[j].seen \in [Routes -> Ledgers] /\ job[j].body \in [Routes -> Ledgers]
      /\ job[j].now \in Nat /\ job[j].sent \in Nat
  BY <1>1 DEF JobTypes
<1>5. settled' \subseteq [owner : Owners, route : Routes, at : Nat, paid : Nat]
  <2>1. settled \subseteq [owner : Owners, route : Routes, at : Nat, paid : Nat]
    BY DEF LedgerInv, TypeOK
  <2>2. CASE job[j].op \in {"settle", "rejected"}
    <3>1. job[j].route \in Routes /\ job[j].sent > 0
      BY <1>3, <2>2 DEF BodyInv, JobPlaced
    <3>2. Actual(j) \in Nat
      BY <1>4, <3>1 DEF Actual
    <3>3. Own(job[j].seen[job[j].route], Owner(j)) \subseteq Reservations
      BY <1>4, <3>1 DEF Own, Ledgers
    <3>4. Settlement(j) \subseteq [owner : Owners, route : Routes, at : Nat, paid : Nat]
      BY <3>1, <3>2, <3>3 DEF Settlement, Reservations
    <3>5. settled' = settled \cup Settlement(j)
      BY <2>2 DEF Lands
    <3> QED
      BY <2>1, <3>4, <3>5
  <2>3. CASE job[j].op \notin {"settle", "rejected"}
    BY <2>1, <2>3 DEF Lands
  <2> QED
    BY <2>2, <2>3
<1>6. book = job[j].seen /\ book' = job[j].body
  BY DEF Lands
<1>7. TypeOK'
  BY <1>1, <1>4, <1>5, <1>6 DEF TypeOK
<1>8. Within(book)'
  <2>1. Within(job[j].body)
    BY <1>3 DEF BodyInv
  <2> QED
    BY <1>6, <2>1 DEF Within, RouteWithin, AllInflight
<1>9. CallReserved'
  <2> SUFFICES ASSUME NEW k \in Jobs, InTime(k)'
               PROVE  (\E s \in book[job[k].route].inflight :
                            s.owner = Owner(k) /\ s.at = job[k].at)'
    BY DEF CallReserved
  <2>1. CASE k = j
    BY <1>1, <1>6, <2>1 DEF InTime, Owner
  <2>2. CASE k # j
    <3>1. job'[k] = job[k] /\ InTime(k)
      BY <1>2, <2>2 DEF InTime
    <3>2. PICK s \in book[job[k].route].inflight : s.owner = Owner(k) /\ s.at = job[k].at
      BY <3>1 DEF LedgerInv, CallReserved
    <3>3. job[k].route \in Routes /\ job[k].at \in Nat
      <4>1. BodyInv(k) /\ job[k] \in JobTypes
        BY DEF LedgerInv, TypeOK
      <4> QED
        BY <3>1, <4>1 DEF BodyInv, JobPlaced, InTime, JobTypes
    <3>4. job[j].now <= clock
      BY <1>3 DEF BodyInv, JobPlaced
    <3>5. s.at + TTL > job[j].now
      BY <1>1, <1>4, <3>1, <3>2, <3>3, <3>4, QuotaAssumption DEF InTime
    <3>6. s.owner # Owner(j)
      BY <2>2, <3>2 DEF Owner
    <3>7. s \in job[j].body[job[k].route].inflight
      BY <1>3, <1>6, <3>2, <3>3, <3>5, <3>6 DEF BodyInv, BodyKeeps
    <3> QED
      BY <1>6, <3>1, <3>2, <3>7 DEF Owner
  <2> QED
    BY <2>1, <2>2
<1>10. \A k \in Jobs : BodyInv(k)'
  <2> SUFFICES ASSUME NEW k \in Jobs, k # j PROVE BodyInv(k)'
    OBVIOUS
  <2>1. BodyInv(k)
    BY DEF LedgerInv
  <2> QED
    BY <1>2, <2>1, BodyKept
<1> QED
  BY <1>7, <1>8, <1>9, <1>10 DEF LedgerInv

(* The state of a job between two operations.                              *)
LEMMA AttemptFacts ==
    ASSUME LedgerInv, NEW j \in Jobs, NEW tries \in Nat,
           NEW op \in {"reserve", "block", "settle", "rejected", "release"}
    PROVE  /\ Attempt(j, op, tries) \in JobTypes
           /\ Attempt(j, op, tries).pc = "load" /\ Attempt(j, op, tries).op = op
           /\ Attempt(j, op, tries).now = clock
           /\ Attempt(j, op, tries).route = job[j].route
           /\ Attempt(j, op, tries).at = job[j].at
           /\ Attempt(j, op, tries).sent = job[j].sent
BY BlankFacts DEF LedgerInv, TypeOK, Attempt, JobTypes

(* A job that is not about to write.                                       *)
LEMMA Placed ==
    ASSUME NEW j \in Jobs, UNCHANGED clock,
           job'[j].now <= clock, job'[j].at <= clock, job'[j].pc # "put",
           job'[j].pc = "call" => job'[j].route \in Routes,
           job'[j].pc = "idle" => job'[j].route = NoRoute,
           job'[j].pc = "load" /\ job'[j].op = "reserve" => job'[j].route = NoRoute,
           job'[j].pc = "load" /\ job'[j].op # "reserve" => job'[j].route \in Routes,
           job'[j].pc = "load" /\ job'[j].op \in {"block", "settle", "rejected"} =>
                job'[j].sent > 0
    PROVE  BodyInv(j)'
BY DEF BodyInv, JobPlaced, BodyKeeps, BodyReserves

LEMMA EndedFacts ==
    /\ Ended \in JobTypes /\ Ended.pc = "done" /\ Ended.now = 0 /\ Ended.at = 0
BY BlankFacts DEF Ended, NewJob, JobTypes

LEMMA EndsStep ==
    ASSUME LedgerInv, NEW j \in Jobs, job' = [job EXCEPT ![j] = Ended], UNCHANGED clock
    PROVE  StepOf(j) /\ BodyInv(j)' /\ job'[j].pc = "done"
<1>1. StepOf(j) /\ job'[j] = Ended
  BY EndedFacts, StepOfOne
<1>2. clock \in Nat
  BY DEF LedgerInv, TypeOK
<1>3. job'[j].now <= clock /\ job'[j].at <= clock
  BY <1>1, <1>2, EndedFacts
<1> QED
  BY <1>1, <1>3, EndedFacts, Placed

(* What a job that succeeded does next.                                    *)
LEMMA ProceedsFacts ==
    ASSUME LedgerInv, NEW j \in Jobs, job[j].pc = "put", Proceeds(j), UNCHANGED clock
    PROVE  /\ StepOf(j) /\ BodyInv(j)'
           /\ job'[j].pc = "call" =>
                /\ job[j].op = "reserve" /\ job[j].route # NoRoute
                /\ job'[j].route = job[j].route /\ job'[j].uuid = job[j].uuid
                /\ job'[j].at = job[j].now
<1>1. job[j] \in JobTypes /\ clock \in Nat /\ NewJob \in JobTypes
  BY BlankFacts DEF LedgerInv, TypeOK
<1>2. JobPlaced(j)
  BY DEF LedgerInv, BodyInv
<1>3. CASE job[j].op = "reserve" /\ job[j].route # NoRoute
  <2> DEFINE rec == [NewJob EXCEPT !.pc = "call", !.route = job[j].route,
                        !.uuid = job[j].uuid, !.at = job[j].now,
                        !.round = job[j].round]
  <2>1. job' = [job EXCEPT ![j] = rec]
    BY <1>3 DEF Proceeds
  <2>2. rec \in JobTypes
    BY <1>1 DEF JobTypes
  <2>3. /\ rec.now = 0 /\ rec.at = job[j].now /\ rec.pc = "call"
        /\ rec.route = job[j].route /\ rec.uuid = job[j].uuid
    BY <1>1 DEF NewJob
  <2> HIDE DEF rec
  <2>4. StepOf(j) /\ job'[j] = rec
    BY <2>1, <2>2, StepOfOne
  <2>5. rec.now <= clock /\ rec.at <= clock /\ rec.route \in Routes
    BY <1>1, <1>2, <1>3, <2>3 DEF JobPlaced, JobTypes
  <2>6. BodyInv(j)'
    BY <2>3, <2>4, <2>5, Placed
  <2> QED
    BY <1>3, <2>3, <2>4, <2>6
<1>4. CASE job[j].op = "block"
  <2> DEFINE rec == Attempt(j, "rejected", 0)
  <2>1. job' = [job EXCEPT ![j] = rec]
    BY <1>4 DEF Proceeds
  <2>2. /\ rec \in JobTypes /\ rec.pc = "load" /\ rec.op = "rejected"
        /\ rec.now = clock /\ rec.at = job[j].at /\ rec.route = job[j].route
        /\ rec.sent = job[j].sent
    BY AttemptFacts
  <2> HIDE DEF rec
  <2>3. StepOf(j) /\ job'[j] = rec
    BY <2>1, <2>2, StepOfOne
  <2>4. rec.now <= clock /\ rec.at <= clock /\ rec.route \in Routes /\ rec.sent > 0
    BY <1>1, <1>2, <1>4, <2>2 DEF JobPlaced
  <2>5. BodyInv(j)'
    BY <2>2, <2>3, <2>4, Placed
  <2> QED
    BY <2>2, <2>3, <2>5
<1>5. CASE job[j].op = "rejected" /\ job[j].sibling /\ job[j].round < MaxRounds
  <2> DEFINE rec == [NewJob EXCEPT !.pc = "load", !.now = clock, !.uuid = job[j].uuid,
                        !.round = job[j].round + 1]
  <2>1. job' = [job EXCEPT ![j] = rec]
    BY <1>5 DEF Proceeds
  <2>2. job[j].round + 1 \in Nat /\ job[j].uuid \in Nat
    BY <1>1 DEF JobTypes
  <2>3. rec \in JobTypes
    BY <1>1, <2>2 DEF JobTypes
  <2>4. /\ rec.now = clock /\ rec.at = 0 /\ rec.pc = "load" /\ rec.op = "reserve"
        /\ rec.route = NoRoute
    BY <1>1 DEF NewJob
  <2> HIDE DEF rec
  <2>5. StepOf(j) /\ job'[j] = rec
    BY <2>1, <2>3, StepOfOne
  <2>6. rec.now <= clock /\ rec.at <= clock
    BY <1>1, <2>4
  <2>7. BodyInv(j)'
    BY <2>4, <2>5, <2>6, Placed
  <2> QED
    BY <2>4, <2>5, <2>7
<1>6. CASE /\ ~(job[j].op = "reserve" /\ job[j].route # NoRoute)
           /\ job[j].op # "block"
           /\ ~(job[j].op = "rejected" /\ job[j].sibling /\ job[j].round < MaxRounds)
  <2>1. job' = [job EXCEPT ![j] = Ended]
    BY <1>6 DEF Proceeds
  <2> QED
    BY <2>1, EndsStep
<1> QED
  BY <1>3, <1>4, <1>5, <1>6

-----------------------------------------------------------------------------
(* The steps, one lemma for each action that needs an argument.            *)

LEMMA TickStep == LedgerInv /\ Tick => LedgerInv'
<1> SUFFICES ASSUME LedgerInv, Tick PROVE LedgerInv'
  OBVIOUS
<1>1. /\ clock \in Nat /\ clock' = clock + 1 /\ job' = job /\ book' = book
      /\ settled' = settled
  BY DEF LedgerInv, TypeOK, Tick
<1>2. TypeOK'
  BY <1>1 DEF LedgerInv, TypeOK
<1>3. Within(book)'
  BY <1>1 DEF LedgerInv, Within, RouteWithin, AllInflight
<1>4. CallReserved'
  <2> SUFFICES ASSUME NEW k \in Jobs, InTime(k)'
               PROVE  (\E s \in book[job[k].route].inflight :
                            s.owner = Owner(k) /\ s.at = job[k].at)'
    BY DEF CallReserved
  <2>1. job[k].at \in Nat
    BY DEF LedgerInv, TypeOK, JobTypes
  <2>2. InTime(k)
    BY <1>1, <2>1, QuotaAssumption DEF InTime
  <2> QED
    BY <1>1, <2>2 DEF LedgerInv, CallReserved, Owner
<1>5. ASSUME NEW k \in Jobs PROVE BodyInv(k)'
  <2>1. BodyInv(k) /\ job[k].now \in Nat /\ job[k].at \in Nat
    BY DEF LedgerInv, TypeOK, JobTypes
  <2>2. JobPlaced(k)'
    BY <1>1, <2>1 DEF BodyInv, JobPlaced
  <2>3. BodyKeeps(k)' /\ BodyReserves(k)'
    BY <1>1, <2>1 DEF BodyInv, BodyKeeps, BodyReserves, Owner
  <2>4. (job[k].pc = "put" => Within(job[k].body))'
    BY <1>1, <2>1 DEF BodyInv, Within, RouteWithin, AllInflight
  <2> QED
    BY <2>2, <2>3, <2>4 DEF BodyInv
<1> QED
  BY <1>2, <1>3, <1>4, <1>5 DEF LedgerInv

LEMMA BeginStep == ASSUME LedgerInv, NEW j \in Jobs, Begin(j) PROVE LedgerInv'
<1> DEFINE rec == Attempt(j, "reserve", 0)
<1>1. /\ rec \in JobTypes /\ rec.pc = "load" /\ rec.op = "reserve"
      /\ rec.now = clock /\ rec.at = job[j].at /\ rec.route = job[j].route
  BY AttemptFacts
<1>2. job' = [job EXCEPT ![j] = rec] /\ UNCHANGED <<clock, book, settled>>
  BY DEF Begin
<1> HIDE DEF rec
<1>3. StepOf(j) /\ job'[j] = rec
  BY <1>1, <1>2, StepOfOne
<1>4. clock \in Nat /\ job[j].at <= clock /\ job[j].route = NoRoute
  BY DEF LedgerInv, TypeOK, BodyInv, JobPlaced, Begin
<1>5. job'[j].now <= clock /\ job'[j].at <= clock
  BY <1>1, <1>3, <1>4
<1>6. BodyInv(j)'
  BY <1>1, <1>2, <1>3, <1>4, <1>5, Placed
<1> QED
  BY <1>1, <1>2, <1>3, <1>6, LocalStep

LEMMA EndStep ==
    ASSUME LedgerInv, NEW j \in Jobs, job' = [job EXCEPT ![j] = Ended],
           UNCHANGED <<clock, book, settled>>
    PROVE  LedgerInv'
<1>1. StepOf(j) /\ BodyInv(j)' /\ job'[j].pc = "done"
  BY EndsStep
<1> QED
  BY <1>1, LocalStep

LEMMA AssertStep ==
    ASSUME LedgerInv, NEW j \in Jobs, NEW now \in Nat, AssertFails(j, now)
    PROVE  LedgerInv'
<1> DEFINE rec == [NewJob EXCEPT !.pc = "asserted"]
<1>1. rec \in JobTypes /\ rec.pc = "asserted" /\ rec.now = 0 /\ rec.at = 0
  BY BlankFacts DEF NewJob, JobTypes
<1>2. job' = [job EXCEPT ![j] = rec] /\ UNCHANGED <<clock, book, settled>>
  BY DEF AssertFails
<1> HIDE DEF rec
<1>3. StepOf(j) /\ job'[j] = rec
  BY <1>1, <1>2, StepOfOne
<1>4. clock \in Nat
  BY DEF LedgerInv, TypeOK
<1>5. job'[j].now <= clock /\ job'[j].at <= clock
  BY <1>1, <1>3, <1>4
<1>6. BodyInv(j)'
  BY <1>1, <1>2, <1>3, <1>5, Placed
<1> QED
  BY <1>1, <1>2, <1>3, <1>6, LocalStep

(* A job that goes on to write a body it computed from the ledger.         *)
LEMMA WritesStep ==
    ASSUME LedgerInv, NEW j \in Jobs, NEW now \in Nat, Loads(j, now),
           StepOf(j), UNCHANGED <<clock, book, settled>>,
           job'[j].pc = "put", job'[j].now = now, job'[j].at = job[j].at,
           job'[j].op = job[j].op, job'[j].sent = job[j].sent,
           job'[j].op # "reserve" => job'[j].route \in Routes,
           job'[j].seen = book,
           Within(job'[j].body),
           \A r \in Routes : \A s \in book[r].inflight :
                s.at + TTL > now /\ s.owner # <<j, job'[j].uuid>> =>
                    s \in job'[j].body[r].inflight,
           job'[j].op = "reserve" /\ job'[j].route # NoRoute =>
                \E s \in job'[j].body[job'[j].route].inflight :
                    s.owner = <<j, job'[j].uuid>> /\ s.at = now
    PROVE  LedgerInv'
<1>1. clock \in Nat /\ now <= clock /\ job[j].pc = "load"
  BY DEF LedgerInv, TypeOK, Loads, JobTypes
<1>2. JobPlaced(j)
  BY DEF LedgerInv, BodyInv
<1>3. JobPlaced(j)'
  BY <1>1, <1>2 DEF JobPlaced
<1>4. BodyKeeps(j)' /\ BodyReserves(j)'
  BY DEF BodyKeeps, BodyReserves, Owner
<1>5. Within(job[j].body)'
  BY DEF Within, RouteWithin, AllInflight
<1>6. BodyInv(j)'
  BY <1>3, <1>4, <1>5 DEF BodyInv
<1> QED
  BY <1>6, LocalStep

LEMMA SelectStep ==
    ASSUME LedgerInv, NEW j \in Jobs, NEW now \in Nat, NEW r \in Routes, Select(j, now, r)
    PROVE  LedgerInv'
<1>1. /\ Loads(j, now) /\ job[j].op = "reserve" /\ job[j] \in JobTypes
      /\ UNCHANGED <<clock, book, settled>> /\ book \in [Routes -> Ledgers]
  BY DEF Select, LedgerInv, TypeOK
<1>2. PICK f \in Avails(book, now) :
        LET b == RolledBook(book, now, f) IN
        /\ ~Asserts(b, now) /\ Available(b, r, now)
        /\ job' = [job EXCEPT ![j] =
            [Writes(j, now, [b EXCEPT ![r] = Reserved(@, <<j, job[j].uuid + 1>>, now)])
                EXCEPT !.route = r, !.uuid = @ + 1]]
  BY DEF Select
<1> DEFINE b == RolledBook(book, now, f)
           owner == <<j, job[j].uuid + 1>>
           c == [b EXCEPT ![r] = Reserved(@, owner, now)]
           writes == Writes(j, now, c)
           rec == [writes EXCEPT !.route = r, !.uuid = @ + 1]
<1>3. /\ b \in [Routes -> Ledgers] /\ Within(b)
      /\ \A q \in Routes : \A s \in book[q].inflight :
            s.at + TTL > now => s \in b[q].inflight
  BY RolledBookFacts
<1>4. Available(b, r, now) /\ job' = [job EXCEPT ![j] = rec]
  BY <1>2
<1> HIDE DEF b
<1>5. owner \in Owners
  BY <1>1 DEF Owners, JobTypes
<1> HIDE DEF owner
<1>6. c \in [Routes -> Ledgers] /\ Within(c)
  BY <1>3, <1>4, <1>5, WithinGrows
<1>7. /\ \A q \in Routes : q # r => c[q] = b[q]
      /\ c[r].inflight = b[r].inflight \cup {MkReservation(owner, now, b[r].avail)}
      /\ MkReservation(owner, now, b[r].avail).owner = owner
      /\ MkReservation(owner, now, b[r].avail).at = now
  <2>1. b[r] \in Ledgers /\ c[r] = Reserved(b[r], owner, now)
    BY <1>3
  <2>2. \A q \in Routes : q # r => c[q] = b[q]
    BY <1>3
  <2> HIDE DEF c
  <2> QED
    BY <1>5, <2>1, <2>2, ReservedFacts
<1> HIDE DEF c
<1>8. /\ rec \in JobTypes
      /\ rec.pc = "put" /\ rec.now = now /\ rec.at = job[j].at /\ rec.op = job[j].op
      /\ rec.sent = job[j].sent /\ rec.route = r /\ rec.uuid = job[j].uuid + 1
      /\ rec.seen = book /\ rec.body = c
  <2>1. /\ writes \in JobTypes /\ writes.pc = "put" /\ writes.now = now
        /\ writes.at = job[j].at /\ writes.op = job[j].op /\ writes.sent = job[j].sent
        /\ writes.uuid = job[j].uuid /\ writes.seen = book /\ writes.body = c
    BY <1>1, <1>6 DEF Writes, JobTypes
  <2>2. job[j].uuid + 1 \in Nat
    BY <1>1 DEF JobTypes
  <2> HIDE DEF writes
  <2> QED
    BY <2>1, <2>2 DEF JobTypes
<1> HIDE DEF rec
<1>9. StepOf(j) /\ job'[j] = rec
  BY <1>4, <1>8, StepOfOne
<1>10. \A q \in Routes : \A s \in book[q].inflight :
            s.at + TTL > now => s \in c[q].inflight
  BY <1>3, <1>7
<1>11. \E s \in c[r].inflight : s.owner = <<j, rec.uuid>> /\ s.at = now
  BY <1>7, <1>8 DEF owner
<1> QED
  BY <1>1, <1>6, <1>8, <1>9, <1>10, <1>11, WritesStep

LEMMA SelectNoneStep ==
    ASSUME LedgerInv, NEW j \in Jobs, NEW now \in Nat, SelectNone(j, now)
    PROVE  LedgerInv'
<1>1. /\ Loads(j, now) /\ job[j].op = "reserve" /\ job[j] \in JobTypes
      /\ UNCHANGED <<clock, book, settled>> /\ book \in [Routes -> Ledgers]
  BY DEF SelectNone, LedgerInv, TypeOK
<1>2. job[j].route = NoRoute
  BY <1>1 DEF LedgerInv, BodyInv, JobPlaced, Loads
<1>3. PICK f \in Avails(book, now) :
        job' = [job EXCEPT ![j] = Writes(j, now, RolledBook(book, now, f))]
  BY DEF SelectNone
<1> DEFINE b == RolledBook(book, now, f)
           rec == Writes(j, now, b)
<1>4. /\ b \in [Routes -> Ledgers] /\ Within(b)
      /\ \A q \in Routes : \A s \in book[q].inflight :
            s.at + TTL > now => s \in b[q].inflight
  BY RolledBookFacts
<1>5. job' = [job EXCEPT ![j] = rec]
  BY <1>3
<1> HIDE DEF b
<1>6. /\ rec \in JobTypes
      /\ rec.pc = "put" /\ rec.now = now /\ rec.at = job[j].at /\ rec.op = job[j].op
      /\ rec.sent = job[j].sent /\ rec.route = NoRoute
      /\ rec.seen = book /\ rec.body = b
  BY <1>1, <1>2, <1>4 DEF Writes, JobTypes
<1> HIDE DEF rec
<1>7. StepOf(j) /\ job'[j] = rec
  BY <1>5, <1>6, StepOfOne
<1> QED
  BY <1>1, <1>4, <1>6, <1>7, WritesStep

LEMMA MutateStep ==
    ASSUME LedgerInv, NEW j \in Jobs, NEW now \in Nat, Mutate(j, now)
    PROVE  LedgerInv'
<1>1. /\ Loads(j, now) /\ job[j].op # "reserve" /\ job[j] \in JobTypes
      /\ UNCHANGED <<clock, book, settled>> /\ book \in [Routes -> Ledgers]
      /\ job[j].pc = "load"
  BY DEF Mutate, Loads, LedgerInv, TypeOK
<1> DEFINE r == job[j].route
<1>2. PICK avail \in Restored(book[r], Expired(book[r], now)) :
        job' = [job EXCEPT ![j] = Writes(j, now,
                    [book EXCEPT ![r] = Mutated(j, Rolled(@, now, avail))])]
  BY DEF Mutate
<1> DEFINE b == [book EXCEPT ![r] = Mutated(j, Rolled(@, now, avail))]
           rec == Writes(j, now, b)
<1>3. /\ r \in Routes /\ b \in [Routes -> Ledgers] /\ Within(b)
      /\ \A q \in Routes : \A s \in book[q].inflight :
            s.at + TTL > now /\ s.owner # Owner(j) => s \in b[q].inflight
  BY <1>1, MutatedFacts
<1>4. job' = [job EXCEPT ![j] = rec]
  BY <1>2
<1> HIDE DEF b
<1>5. /\ rec \in JobTypes
      /\ rec.pc = "put" /\ rec.now = now /\ rec.at = job[j].at /\ rec.op = job[j].op
      /\ rec.sent = job[j].sent /\ rec.route = r /\ rec.uuid = job[j].uuid
      /\ rec.seen = book /\ rec.body = b
  BY <1>1, <1>3 DEF Writes, JobTypes
<1> HIDE DEF rec
<1>6. StepOf(j) /\ job'[j] = rec
  BY <1>4, <1>5, StepOfOne
<1>7. \A q \in Routes : \A s \in book[q].inflight :
            s.at + TTL > now /\ s.owner # <<j, rec.uuid>> => s \in b[q].inflight
  BY <1>3, <1>5 DEF Owner
<1> QED
  BY <1>1, <1>3, <1>5, <1>6, <1>7, WritesStep

LEMMA PutStep == ASSUME LedgerInv, NEW j \in Jobs, Put(j) PROVE LedgerInv'
<1>1. job[j].pc = "put" /\ Lands(j) /\ Proceeds(j) /\ UNCHANGED clock
  BY DEF Put
<1>2. /\ StepOf(j) /\ BodyInv(j)'
      /\ job'[j].pc = "call" =>
            /\ job[j].op = "reserve" /\ job[j].route # NoRoute
            /\ job'[j].route = job[j].route /\ job'[j].uuid = job[j].uuid
            /\ job'[j].at = job[j].now
  BY <1>1, ProceedsFacts
<1>3. BodyReserves(j)
  BY DEF LedgerInv, BodyInv
<1>4. job'[j].pc = "call" =>
            \E s \in job[j].body[job'[j].route].inflight :
                s.owner = <<j, job'[j].uuid>> /\ s.at = job'[j].at
  BY <1>1, <1>2, <1>3 DEF BodyReserves, Owner
<1> QED
  BY <1>1, <1>2, <1>4, LandStep

LEMMA PutUnneededStep ==
    ASSUME LedgerInv, NEW j \in Jobs, PutUnneeded(j) PROVE LedgerInv'
<1>1. /\ job[j].pc = "put" /\ Proceeds(j) /\ UNCHANGED <<clock, book, settled>>
      /\ job[j].route = NoRoute
  BY DEF PutUnneeded
<1>2. StepOf(j) /\ BodyInv(j)' /\ job'[j].pc # "call"
  BY <1>1, ProceedsFacts
<1> QED
  BY <1>1, <1>2, LocalStep

LEMMA PutAnswerLostStep ==
    ASSUME LedgerInv, NEW j \in Jobs, PutAnswerLost(j) PROVE LedgerInv'
<1>1. job[j].pc = "put" /\ Lands(j) /\ UNCHANGED <<clock, job>>
  BY DEF PutAnswerLost
<1>2. StepOf(j) /\ BodyInv(j) /\ job'[j] = job[j]
  BY <1>1 DEF StepOf, LedgerInv, TypeOK
<1>3. BodyInv(j)'
  BY <1>1, <1>2, BodyKept
<1>4. job'[j].pc # "call"
  BY <1>1, <1>2
<1> QED
  BY <1>1, <1>2, <1>3, <1>4, LandStep

LEMMA PutConflictStep ==
    ASSUME LedgerInv, NEW j \in Jobs, PutConflict(j) PROVE LedgerInv'
<1>1. job[j].pc = "put" /\ TriesAgain(j) /\ UNCHANGED <<clock, book, settled>>
  BY DEF PutConflict
<1>2. job[j] \in JobTypes /\ clock \in Nat /\ JobPlaced(j)
  BY DEF LedgerInv, TypeOK, BodyInv
<1>3. CASE job[j].tries + 1 < MaxTries
  <2> DEFINE att == Attempt(j, job[j].op, job[j].tries + 1)
             rec == [att EXCEPT !.route = IF job[j].op = "reserve" THEN NoRoute ELSE @]
  <2>1. job[j].tries + 1 \in Nat
        /\ job[j].op \in {"reserve", "block", "settle", "rejected", "release"}
    BY <1>2 DEF JobTypes
  <2>2. /\ att \in JobTypes /\ att.pc = "load" /\ att.op = job[j].op
        /\ att.now = clock /\ att.at = job[j].at /\ att.route = job[j].route
        /\ att.sent = job[j].sent
    BY <2>1, AttemptFacts
  <2>3. job' = [job EXCEPT ![j] = rec]
    BY <1>1, <1>3 DEF TriesAgain
  <2> HIDE DEF att
  <2>4. /\ rec \in JobTypes /\ rec.pc = "load" /\ rec.op = job[j].op
        /\ rec.now = clock /\ rec.at = job[j].at /\ rec.sent = job[j].sent
        /\ rec.route = IF job[j].op = "reserve" THEN NoRoute ELSE job[j].route
    BY <2>2 DEF JobTypes
  <2> HIDE DEF rec
  <2>5. StepOf(j) /\ job'[j] = rec
    BY <2>3, <2>4, StepOfOne
  <2>6. /\ rec.now <= clock /\ rec.at <= clock
        /\ rec.op = "reserve" => rec.route = NoRoute
        /\ rec.op # "reserve" => rec.route \in Routes
        /\ rec.op \in {"block", "settle", "rejected"} => rec.sent > 0
    BY <1>1, <1>2, <2>4 DEF JobPlaced
  <2>7. BodyInv(j)'
    BY <1>1, <2>4, <2>5, <2>6, Placed
  <2> QED
    BY <1>1, <2>4, <2>5, <2>7, LocalStep
<1>4. CASE ~(job[j].tries + 1 < MaxTries)
  BY <1>1, <1>4, EndStep DEF TriesAgain
<1> QED
  BY <1>3, <1>4

LEMMA SendStep == ASSUME LedgerInv, NEW j \in Jobs, Send(j) PROVE LedgerInv'
<1>1. /\ job[j].pc = "call" /\ UNCHANGED <<clock, book, settled>>
      /\ job' = [job EXCEPT ![j].sent = @ + 1]
  BY DEF Send
<1>2. job[j] \in JobTypes /\ JobPlaced(j)
  BY DEF LedgerInv, TypeOK, BodyInv
<1> DEFINE rec == [job[j] EXCEPT !.sent = @ + 1]
<1>3. /\ rec \in JobTypes /\ rec.pc = "call" /\ rec.now = job[j].now
      /\ rec.at = job[j].at /\ rec.route = job[j].route /\ rec.uuid = job[j].uuid
  BY <1>1, <1>2 DEF JobTypes
<1>4. job' = [job EXCEPT ![j] = rec]
  BY <1>1
<1> HIDE DEF rec
<1>5. StepOf(j) /\ job'[j] = rec
  BY <1>3, <1>4, StepOfOne
<1>6. rec.now <= clock /\ rec.at <= clock /\ rec.route \in Routes
  BY <1>1, <1>2, <1>3 DEF JobPlaced
<1>7. BodyInv(j)'
  BY <1>1, <1>3, <1>5, <1>6, Placed
<1> QED
  BY <1>1, <1>3, <1>5, <1>7, LocalStep

(* The end of a call, which goes on to settle, release or block.           *)
LEMMA HangUp ==
    ASSUME LedgerInv, NEW j \in Jobs, UNCHANGED <<clock, book, settled>>,
           job[j].pc = "call", StepOf(j), job'[j].pc = "load",
           job'[j].now = clock, job'[j].at = job[j].at, job'[j].route = job[j].route,
           job'[j].sent = job[j].sent, job'[j].op # "reserve",
           job'[j].op = "release" \/ job[j].sent > 0
    PROVE  LedgerInv'
<1>1. JobPlaced(j) /\ clock \in Nat
  BY DEF LedgerInv, TypeOK, BodyInv
<1>2. job'[j].now <= clock /\ job'[j].at <= clock /\ job'[j].route \in Routes
  BY <1>1 DEF JobPlaced
<1>3. BodyInv(j)'
  BY <1>2, Placed
<1> QED
  BY <1>3, LocalStep

LEMMA CallEndsStep == ASSUME LedgerInv, NEW j \in Jobs, CallEnds(j) PROVE LedgerInv'
<1> DEFINE op == IF job[j].sent > 0 THEN "settle" ELSE "release"
           rec == Attempt(j, op, 0)
<1>1. /\ job[j].pc = "call" /\ UNCHANGED <<clock, book, settled>>
      /\ job' = [job EXCEPT ![j] = rec]
  BY DEF CallEnds
<1>2. /\ op \in {"reserve", "block", "settle", "rejected", "release"}
      /\ op # "reserve" /\ (op = "release" \/ job[j].sent > 0)
  OBVIOUS
<1> HIDE DEF op
<1>3. /\ rec \in JobTypes /\ rec.pc = "load" /\ rec.op = op
      /\ rec.now = clock /\ rec.at = job[j].at /\ rec.route = job[j].route
      /\ rec.sent = job[j].sent
  BY <1>2, AttemptFacts
<1> HIDE DEF rec
<1>4. StepOf(j) /\ job'[j] = rec
  BY <1>1, <1>3, StepOfOne
<1> QED
  BY <1>1, <1>2, <1>3, <1>4, HangUp

LEMMA RateLimitedStep ==
    ASSUME LedgerInv, NEW j \in Jobs, RateLimited(j) PROVE LedgerInv'
<1> DEFINE att == Attempt(j, "block", 0)
<1>1. /\ job[j].pc = "call" /\ job[j].sent > 0 /\ UNCHANGED <<clock, book, settled>>
  BY DEF RateLimited
<1>2. PICK sibling \in BOOLEAN :
        job' = [job EXCEPT ![j] = [att EXCEPT !.until = clock + Cooldown,
                                              !.sibling = sibling]]
  BY DEF RateLimited
<1> DEFINE rec == [att EXCEPT !.until = clock + Cooldown, !.sibling = sibling]
<1>3. /\ att \in JobTypes /\ att.pc = "load" /\ att.op = "block"
      /\ att.now = clock /\ att.at = job[j].at /\ att.route = job[j].route
      /\ att.sent = job[j].sent
  BY AttemptFacts
<1>4. clock + Cooldown \in Nat
  BY RouteAssumption DEF LedgerInv, TypeOK
<1> HIDE DEF att
<1>5. /\ rec \in JobTypes /\ rec.pc = "load" /\ rec.op = "block"
      /\ rec.now = clock /\ rec.at = job[j].at /\ rec.route = job[j].route
      /\ rec.sent = job[j].sent
  BY <1>3, <1>4 DEF JobTypes
<1>6. job' = [job EXCEPT ![j] = rec]
  BY <1>2
<1> HIDE DEF rec
<1>7. StepOf(j) /\ job'[j] = rec
  BY <1>5, <1>6, StepOfOne
<1> QED
  BY <1>1, <1>5, <1>7, HangUp

LEMMA LedgerInvNext == LedgerInv /\ [Next]_vars => LedgerInv'
<1> SUFFICES ASSUME LedgerInv, [Next]_vars PROVE LedgerInv'
  OBVIOUS
<1>1. CASE Tick
  BY <1>1, TickStep
<1>2. ASSUME NEW j \in Jobs, NEW now \in 0..MaxClock,
             AssertFails(j, now) \/ SelectNone(j, now) \/ Mutate(j, now)
             \/ \E r \in Routes : Select(j, now, r)
      PROVE  LedgerInv'
  <2>1. now \in Nat
    BY RouteAssumption
  <2> QED
    BY <1>2, <2>1, AssertStep, SelectNoneStep, MutateStep, SelectStep
<1>3. ASSUME NEW j \in Jobs, Begin(j) PROVE LedgerInv'
  BY <1>3, BeginStep
<1>4. ASSUME NEW j \in Jobs,
             Put(j) \/ PutUnneeded(j) \/ PutAnswerLost(j) \/ PutConflict(j)
      PROVE  LedgerInv'
  BY <1>4, PutStep, PutUnneededStep, PutAnswerLostStep, PutConflictStep
<1>5. ASSUME NEW j \in Jobs, Send(j) \/ CallEnds(j) \/ RateLimited(j)
      PROVE  LedgerInv'
  BY <1>5, SendStep, CallEndsStep, RateLimitedStep
<1>6. ASSUME NEW j \in Jobs, Crash(j) PROVE LedgerInv'
  BY <1>6, EndStep DEF Crash
<1>7. CASE UNCHANGED vars
  <2>1. clock' = clock /\ book' = book /\ job' = job /\ settled' = settled
    BY <1>7 DEF vars
  <2>2. \A j \in Jobs : BodyInv(j)'
    BY <2>1, BodyKept DEF LedgerInv
  <2>3. TypeOK' /\ CallReserved'
    BY <2>1 DEF LedgerInv, TypeOK, CallReserved, InTime, Owner
  <2>4. Within(book)'
    BY <2>1 DEF LedgerInv, Within, RouteWithin, AllInflight
  <2> QED
    BY <2>2, <2>3, <2>4 DEF LedgerInv
<1> QED
  BY <1>1, <1>2, <1>3, <1>4, <1>5, <1>6, <1>7 DEF Next

-----------------------------------------------------------------------------
(* The theorems.                                                           *)

(* LedgerInv is an invariant: the ledger, and everything a job may still   *)
(* write to it, stays within the concurrency limits and keeps the          *)
(* reservations of the others (mutate_llm_budget, select_and_reserve).     *)
THEOREM LedgerInvariant == Spec => []LedgerInv
BY LedgerInvInit, LedgerInvNext, PTL DEF Spec

(* The types of the ledger, of the jobs and of the history: in particular  *)
(* no counter of LLMBudget becomes negative.                               *)
THEOREM TypeCorrect == Spec => []TypeOK
<1>1. LedgerInv => TypeOK
  BY DEF LedgerInv
<1> QED
  BY <1>1, LedgerInvariant, PTL

(* A call in time has its reservation in the ledger, whatever select,      *)
(* settle, release, block and the reaper of the other runners do.          *)
THEOREM CallsKeepReservations == Spec => []CallReserved
<1>1. LedgerInv => CallReserved
  BY DEF LedgerInv
<1> QED
  BY <1>1, LedgerInvariant, PTL

(* Calls that each have a reservation of their own among some.             *)
LEMMA CallsCounted ==
    ASSUME NEW H \in SUBSET Jobs, NEW S, IsFiniteSet(S),
           \A j \in H : \E s \in S : s.owner = Owner(j)
    PROVE  Cardinality(H) <= Cardinality(S)
<1> DEFINE f == [j \in H |-> CHOOSE s \in S : s.owner = Owner(j)]
<1>1. \A j \in H : f[j] \in S /\ f[j].owner = Owner(j)
  OBVIOUS
<1>2. ASSUME NEW i \in H, NEW k \in H, f[i] = f[k] PROVE i = k
  <2>1. Owner(i) = Owner(k)
    BY <1>1, <1>2
  <2> QED
    BY <2>1 DEF Owner
<1>3. f \in [H -> S]
  BY <1>1
<1> HIDE DEF f
<1>4. f \in Injection(H, S)
  BY <1>2, <1>3 DEF Injection, IsInjective
<1> QED
  BY <1>4, FS_Injection DEF ExistsInjection

(* No more calls in time run on a route, or at the provider, than their    *)
(* concurrency limits allow (available, select_and_reserve).               *)
THEOREM ConcurrencyLimit == Spec => []ConcurrencyKept
<1>1. ASSUME LedgerInv PROVE ConcurrencyKept
  <2> DEFINE H == {j \in Jobs : InTime(j)}
             HR(r) == {j \in Jobs : InTime(j) /\ job[j].route = r}
  <2>1. Within(book) /\ CallReserved
    BY <1>1 DEF LedgerInv
  <2>2. ASSUME NEW r \in Routes PROVE Cardinality(HR(r)) <= Concurrency
    <3>1. IsFiniteSet(book[r].inflight) /\ Cardinality(book[r].inflight) <= Concurrency
      BY <2>1 DEF Within, RouteWithin
    <3>2. HR(r) \in SUBSET Jobs
      OBVIOUS
    <3>3. \A j \in HR(r) : \E s \in book[r].inflight : s.owner = Owner(j)
      BY <2>1 DEF CallReserved
    <3>4. Cardinality(HR(r)) <= Cardinality(book[r].inflight)
      BY <3>1, <3>2, <3>3, CallsCounted
    <3>5. Cardinality(HR(r)) \in Nat /\ Cardinality(book[r].inflight) \in Nat
      BY <3>1, <3>2, FS_Subset, FS_CardinalityType, RouteAssumption
    <3> QED
      BY <3>1, <3>4, <3>5, QuotaAssumption
  <2>3. Cardinality(H) <= ProviderConcurrency
    <3>1. /\ IsFiniteSet(AllInflight(book))
          /\ Cardinality(AllInflight(book)) <= ProviderConcurrency
      BY <2>1 DEF Within
    <3>2. H \in SUBSET Jobs
      OBVIOUS
    <3>3. ASSUME NEW j \in H
          PROVE  \E s \in AllInflight(book) : s.owner = Owner(j)
      <4>1. job[j].route \in Routes
        BY <1>1 DEF LedgerInv, BodyInv, JobPlaced, InTime
      <4>2. \E s \in book[job[j].route].inflight : s.owner = Owner(j)
        BY <2>1 DEF CallReserved
      <4> QED
        BY <4>1, <4>2 DEF AllInflight
    <3>4. Cardinality(H) <= Cardinality(AllInflight(book))
      BY <3>1, <3>2, <3>3, CallsCounted
    <3>5. Cardinality(H) \in Nat /\ Cardinality(AllInflight(book)) \in Nat
      BY <3>1, <3>2, FS_Subset, FS_CardinalityType, RouteAssumption
    <3> QED
      BY <3>1, <3>4, <3>5, QuotaAssumption
  <2> QED
    BY <2>2, <2>3 DEF ConcurrencyKept
<1> QED
  BY <1>1, LedgerInvariant, PTL

=============================================================================
