------------------------- MODULE RouteQuotasProofs --------------------------
(***************************************************************************)
(* The shared route ledger implements RouteQuotas: whatever the runners    *)
(* load, compute and write, and whichever writes meet a conflict or lose   *)
(* their answer, the ledger object only ever changes by one whole          *)
(* operation of LLMBudget at a time.                                       *)
(***************************************************************************)
EXTENDS RouteHistoryProofs

-----------------------------------------------------------------------------
(* RouteQuotas has the operators of LLMBudget under names of its own.      *)

LEMMA SameDay == \A now : Quotas!Day(now) = Day(now)
BY DEF Quotas!Day, Day

LEMMA SameSchedule ==
    /\ \A v, n, now : Quotas!Schedule(v, n, now) = Schedule(v, n, now)
    /\ \A s : Quotas!After(s) = After(s)
BY DEF Quotas!After, After, Quotas!Schedule, Schedule

LEMMA SameExpired == \A led, now : Quotas!Expired(led, now) = Expired(led, now)
BY DEF Quotas!Expired, Expired

LEMMA SameTurned == \A led, now : Quotas!Turned(led, now) = Turned(led, now)
BY DEF Quotas!Turned, Turned, Quotas!Day, Day

LEMMA SameRestored ==
    \A led, gone : Quotas!Restored(led, gone) = Restored(led, gone)
BY DEF Quotas!Restored, Restored, Quotas!After, After, Quotas!Schedule, Schedule

LEMMA SameCardinality == \A S : Quotas!Cardinality(S) = Cardinality(S)
BY DEF Quotas!Cardinality, Cardinality

LEMMA SameUnwound ==
    ASSUME NEW led, NEW gone, NEW v
    PROVE  Quotas!Unwound(led, gone, v) = Unwound(led, gone, v)
<1> DEFINE G == {s \in gone : Day(s.at) = led.key}
           n == Requests * Cardinality(G)
           m == Requests * Quotas!Cardinality({s \in gone : Quotas!Day(s.at) = led.key})
<1>1. {s \in gone : Quotas!Day(s.at) = led.key} = G
  BY SameDay
<1>2. m = n
  BY <1>1, SameCardinality
<1>3. \A c, k : Quotas!Less(c, k) = Less(c, k)
  BY DEF Quotas!Less, Less
<1>4. Unwound(led, gone, v) =
        [led EXCEPT !.inflight = @ \ gone, !.avail = v, !.day = Less(@, n)]
  BY Zenon DEF Unwound
<1>5. Quotas!Unwound(led, gone, v) =
        [led EXCEPT !.inflight = @ \ gone, !.avail = v, !.day = Quotas!Less(@, m)]
  BY Zenon DEF Quotas!Unwound
<1> HIDE DEF n, m
<1> QED
  BY <1>2, <1>3, <1>4, <1>5

LEMMA SameRolled ==
    \A led, now, v : Quotas!Rolled(led, now, v) = Rolled(led, now, v)
BY SameUnwound, SameTurned, SameExpired DEF Quotas!Rolled, Rolled

LEMMA SameAvails == \A b, now : Quotas!Avails(b, now) = Avails(b, now)
<1> SUFFICES ASSUME NEW b, NEW now PROVE Quotas!Avails(b, now) = Avails(b, now)
  OBVIOUS
<1>1. \A r : Quotas!Restored(b[r], Quotas!Expired(b[r], now))
                = Restored(b[r], Expired(b[r], now))
  BY SameRestored, SameExpired
<1> QED
  BY <1>1 DEF Quotas!Avails, Avails

LEMMA SameRolledBook ==
    \A b, now, f : Quotas!RolledBook(b, now, f) = RolledBook(b, now, f)
BY SameRolled DEF Quotas!RolledBook, RolledBook

LEMMA SameAllInflight == \A b : Quotas!AllInflight(b) = AllInflight(b)
BY DEF Quotas!AllInflight, AllInflight

LEMMA SameAvailable ==
    \A b, r, now : Quotas!Available(b, r, now) = Available(b, r, now)
BY SameCardinality, SameAllInflight DEF Quotas!Available, Available

LEMMA SameReserved ==
    \A led, owner, now : Quotas!Reserved(led, owner, now) = Reserved(led, owner, now)
BY SameTurned, SameSchedule
DEF Quotas!Reserved, Reserved, Quotas!MkReservation, MkReservation

LEMMA SameCorrected ==
    \A led, s, n : Quotas!Corrected(led, s, n) = Corrected(led, s, n)
BY SameDay, SameSchedule DEF Quotas!Corrected, Corrected, Quotas!Less, Less

LEMMA SameBlocked ==
    \A led, until : Quotas!Blocked(led, until) = Blocked(led, until)
BY DEF Quotas!Blocked, Blocked

-----------------------------------------------------------------------------
(* A block ends within the cooldown.                                       *)

BlocksSoon == \A j \in Jobs : job[j].until <= clock + Cooldown

LEMMA BlocksSoonInit == Init => BlocksSoon
BY RouteAssumption DEF Init, BlocksSoon, NewJob

(* A job that keeps its cooldown, or has none.                             *)
LEMMA BlocksSoonKept ==
    ASSUME LedgerInv, BlocksSoon, NEW j \in Jobs, UNCHANGED clock,
           NEW rec, job' = [job EXCEPT ![j] = rec],
           rec.until = job[j].until \/ rec.until = 0
    PROVE  BlocksSoon'
<1>1. clock \in Nat /\ job \in [Jobs -> JobTypes]
  BY DEF LedgerInv, TypeOK
<1> QED
  BY <1>1, RouteAssumption DEF BlocksSoon

LEMMA BlocksSoonNext == LedgerInv /\ BlocksSoon /\ [Next]_vars => BlocksSoon'
<1> SUFFICES ASSUME LedgerInv, BlocksSoon, [Next]_vars PROVE BlocksSoon'
  OBVIOUS
<1>1. clock \in Nat /\ job \in [Jobs -> JobTypes]
  BY DEF LedgerInv, TypeOK
<1>2. Ended.until = 0 /\ NewJob.until = 0
  BY DEF Ended, NewJob
<1>3. ASSUME NEW j \in Jobs, NEW op, NEW tries
      PROVE  Attempt(j, op, tries).until = job[j].until
  BY <1>1 DEF Attempt, JobTypes
<1>4. CASE Tick
  BY <1>1, <1>4, RouteAssumption DEF Tick, BlocksSoon, JobTypes
<1>5. ASSUME NEW j \in Jobs, Begin(j) PROVE BlocksSoon'
  BY <1>3, <1>5, BlocksSoonKept DEF Begin
<1>6. ASSUME NEW j \in Jobs, NEW now, AssertFails(j, now) PROVE BlocksSoon'
  <2>1. [NewJob EXCEPT !.pc = "asserted"].until = 0
    BY DEF NewJob
  <2> QED
    BY <1>6, <2>1, BlocksSoonKept DEF AssertFails
<1>7. ASSUME NEW j \in Jobs, NEW now, NEW body PROVE Writes(j, now, body).until = job[j].until
  BY <1>1 DEF Writes, JobTypes
<1>8. ASSUME NEW j \in Jobs, NEW now, SelectNone(j, now) PROVE BlocksSoon'
  <2>1. PICK body : job' = [job EXCEPT ![j] = Writes(j, now, body)]
    BY <1>8 DEF SelectNone
  <2>2. UNCHANGED clock
    BY <1>8 DEF SelectNone
  <2> QED
    BY <1>7, <2>1, <2>2, BlocksSoonKept
<1>9. ASSUME NEW j \in Jobs, NEW now, Mutate(j, now) PROVE BlocksSoon'
  <2>1. PICK body : job' = [job EXCEPT ![j] = Writes(j, now, body)]
    BY <1>9 DEF Mutate
  <2>2. UNCHANGED clock
    BY <1>9 DEF Mutate
  <2> QED
    BY <1>7, <2>1, <2>2, BlocksSoonKept
<1>10. ASSUME NEW j \in Jobs, NEW now, NEW r \in Routes, Select(j, now, r)
       PROVE  BlocksSoon'
  <2>1. PICK body : job' = [job EXCEPT ![j] =
            [Writes(j, now, body) EXCEPT !.route = r, !.uuid = @ + 1]]
    BY <1>10 DEF Select
  <2>2. [Writes(j, now, body) EXCEPT !.route = r, !.uuid = @ + 1].until = job[j].until
    BY <1>1 DEF Writes, JobTypes
  <2>3. UNCHANGED clock
    BY <1>10 DEF Select
  <2> QED
    BY <2>1, <2>2, <2>3, BlocksSoonKept
<1>11. ASSUME NEW j \in Jobs, Proceeds(j), UNCHANGED clock PROVE BlocksSoon'
  <2>1. CASE job[j].op = "reserve" /\ job[j].route # NoRoute
    <3> DEFINE rec == [NewJob EXCEPT !.pc = "call", !.route = job[j].route,
                    !.uuid = job[j].uuid, !.at = job[j].now, !.round = job[j].round]
    <3>1. rec.until = 0
      BY DEF NewJob
    <3>2. job' = [job EXCEPT ![j] = rec]
      BY <2>1, <1>11 DEF Proceeds
    <3> HIDE DEF rec
    <3> QED
      BY <1>11, <3>1, <3>2, BlocksSoonKept
  <2>2. CASE job[j].op = "block"
    BY <1>3, <1>11, <2>2, BlocksSoonKept DEF Proceeds
  <2>3. CASE job[j].op = "rejected" /\ job[j].sibling /\ job[j].round < MaxRounds
    <3> DEFINE rec == [NewJob EXCEPT !.pc = "load", !.now = clock,
                    !.uuid = job[j].uuid, !.round = job[j].round + 1]
    <3>1. rec.until = 0
      BY DEF NewJob
    <3>2. job' = [job EXCEPT ![j] = rec]
      BY <2>3, <1>11 DEF Proceeds
    <3> HIDE DEF rec
    <3> QED
      BY <1>11, <3>1, <3>2, BlocksSoonKept
  <2>4. CASE /\ ~(job[j].op = "reserve" /\ job[j].route # NoRoute)
             /\ job[j].op # "block"
             /\ ~(job[j].op = "rejected" /\ job[j].sibling /\ job[j].round < MaxRounds)
    <3>1. job' = [job EXCEPT ![j] = Ended]
      BY <1>11, <2>4 DEF Proceeds
    <3> QED
      BY <1>2, <1>11, <3>1, BlocksSoonKept
  <2> QED
    BY <2>1, <2>2, <2>3, <2>4
<1>12. ASSUME NEW j \in Jobs, Put(j) \/ PutUnneeded(j) PROVE BlocksSoon'
  BY <1>11, <1>12 DEF Put, PutUnneeded
<1>13. ASSUME NEW j \in Jobs, PutAnswerLost(j) PROVE BlocksSoon'
  BY <1>13 DEF PutAnswerLost, BlocksSoon
<1>14. ASSUME NEW j \in Jobs, PutConflict(j) PROVE BlocksSoon'
  <2>1. UNCHANGED clock
    BY <1>14 DEF PutConflict
  <2>2. CASE job[j].tries + 1 < MaxTries
    <3> DEFINE att == Attempt(j, job[j].op, job[j].tries + 1)
               rec == [att EXCEPT !.route = IF job[j].op = "reserve" THEN NoRoute ELSE @]
    <3>1. job' = [job EXCEPT ![j] = rec]
      BY <1>14, <2>2 DEF PutConflict, TriesAgain
    <3>2. att.until = job[j].until
      BY <1>3
    <3> HIDE DEF att
    <3>3. rec.until = att.until
      OBVIOUS
    <3> HIDE DEF rec
    <3> QED
      BY <2>1, <3>1, <3>2, <3>3, BlocksSoonKept
  <2>3. CASE ~(job[j].tries + 1 < MaxTries)
    BY <1>2, <1>14, <2>1, <2>3, BlocksSoonKept DEF PutConflict, TriesAgain
  <2> QED
    BY <2>2, <2>3
<1>15. ASSUME NEW j \in Jobs, Send(j) PROVE BlocksSoon'
  BY <1>1, <1>15, RouteAssumption DEF Send, BlocksSoon, JobTypes
<1>16. ASSUME NEW j \in Jobs, CallEnds(j) PROVE BlocksSoon'
  BY <1>3, <1>16, BlocksSoonKept DEF CallEnds
<1>17. ASSUME NEW j \in Jobs, RateLimited(j) PROVE BlocksSoon'
  <2>1. PICK sibling \in BOOLEAN : job' = [job EXCEPT ![j] =
            [Attempt(j, "block", 0) EXCEPT !.until = clock + Cooldown, !.sibling = sibling]]
    BY <1>17 DEF RateLimited
  <2>2. job'[j].until = clock + Cooldown
    BY <1>1, <2>1 DEF Attempt, JobTypes
  <2>3. \A k \in Jobs : k # j => job'[k] = job[k]
    BY <1>1, <2>1
  <2>4. UNCHANGED clock
    BY <1>17 DEF RateLimited
  <2>5. clock + Cooldown <= clock + Cooldown
    BY <1>1, RouteAssumption
  <2> QED
    BY <2>2, <2>3, <2>4, <2>5 DEF BlocksSoon
<1>18. ASSUME NEW j \in Jobs, Crash(j) PROVE BlocksSoon'
  BY <1>2, <1>18, BlocksSoonKept DEF Crash
<1>19. CASE UNCHANGED vars
  BY <1>19 DEF vars, BlocksSoon
<1> QED
  BY <1>4, <1>5, <1>6, <1>8, <1>9, <1>10, <1>12, <1>13, <1>14, <1>15, <1>16,
     <1>17, <1>18, <1>19 DEF Next

-----------------------------------------------------------------------------
(* A write that lands is one operation of RouteQuotas.                     *)

LEMMA UnwoundNone ==
    ASSUME NEW led \in Ledgers PROVE Unwound(led, {}, led.avail) = led
<1>1. {s \in {} : Day(s.at) = led.key} = {}
  OBVIOUS
<1>2. Requests * Cardinality({}) = 0
  BY FS_EmptySet, QuotaAssumption
<1>3. Less(led.day, 0) = led.day
  BY DEF Less, Ledgers
<1>4. Unwound(led, {}, led.avail) =
        [led EXCEPT !.inflight = led.inflight \ {}, !.avail = led.avail,
                    !.day = Less(led.day, 0)]
  BY <1>1, <1>2 DEF Unwound
<1> QED
  BY <1>3, <1>4 DEF Ledgers

LEMMA LandReserves ==
    ASSUME HistoryInv, NEW j \in Jobs, job[j].pc = "put", job[j].op = "reserve",
           UNCHANGED clock, Lands(j)
    PROVE  Quotas!Next
<1> DEFINE now == job[j].now
           r == job[j].route
<1>1. /\ clock \in Nat /\ job[j] \in JobTypes /\ JobHistory(j) /\ BodyInv(j)
      /\ Owner(j) \in Owners
  BY HistoryFacts
<1>2. now \in 0..clock /\ (r \in Routes \/ r = NoRoute)
  BY <1>1 DEF JobTypes, BodyInv, JobPlaced
<1>3. book = job[j].seen /\ book' = job[j].body /\ settled' = settled
  BY DEF Lands
<1>4. PICK f \in Avails(book, now) :
        LET b == RolledBook(book, now, f)
        IN IF r = NoRoute THEN job[j].body = b
           ELSE /\ Available(b, r, now)
                /\ \A p \in Routes : Own(b[p], Owner(j)) = {}
                /\ job[j].body = [b EXCEPT ![r] = Reserved(b[r], Owner(j), now)]
  BY <1>1, <1>3 DEF JobHistory, Computed, Selected
<1>5. Unpaid(j)
  BY <1>1 DEF JobHistory
<1> HIDE DEF now
<1> DEFINE b == RolledBook(book, now, f)
<1>6. f \in Quotas!Avails(book, now) /\ Quotas!RolledBook(book, now, f) = b
  BY SameAvails, SameRolledBook
<1>7. CASE r = NoRoute
  <2>1. book' = b
    BY <1>3, <1>4, <1>7
  <2>2. Quotas!Look(now)
    BY <1>3, <1>6, <2>1 DEF Quotas!Look
  <2> QED
    BY <1>2, <2>2 DEF Quotas!Next
<1>8. CASE r # NoRoute
  <2> DEFINE s == MkReservation(Owner(j), now, b[r].avail)
  <2>1. r \in Routes
    BY <1>2, <1>8
  <2>2. /\ Available(b, r, now)
        /\ \A p \in Routes : Own(b[p], Owner(j)) = {}
        /\ book' = [b EXCEPT ![r] = Reserved(b[r], Owner(j), now)]
    BY <1>3, <1>4, <1>8
  <2>3. s.owner = Owner(j)
    BY DEF MkReservation
  <2>4. s \in book'[r].inflight
    <3>1. r \in DOMAIN b
      BY <2>1 DEF RolledBook
    <3>2. book'[r] = Reserved(b[r], Owner(j), now)
      <4> HIDE DEF b
      <4> QED
        BY <2>2, <3>1
    <3>3. /\ book \in [Routes -> Ledgers] /\ Within(book) /\ now \in Nat
      BY <1>2, HistoryFacts, <1>1
    <3>4. b[r] \in Ledgers
      BY <2>1, <3>3, HistoryFacts, RolledBookFacts
    <3> HIDE DEF b
    <3> QED
      BY <1>1, <3>2, <3>3, <3>4, ReservedFacts
  <2>5. \A t \in AllInflight(b) \cup settled : t.owner # s.owner
    <3>1. \A t \in settled : t.owner # Owner(j)
      BY <1>5, <1>8 DEF Unpaid
    <3>2. \A t \in AllInflight(b) : t.owner # Owner(j)
      <4> HIDE DEF b
      <4> QED
        BY <2>2 DEF AllInflight, Own
    <3> QED
      BY <2>3, <3>1, <3>2
  <2> HIDE DEF s
  <2>6. book' = [b EXCEPT ![r] = Quotas!Reserved(b[r], s.owner, now)]
    BY <2>2, <2>3, SameReserved
  <2>7. Quotas!Available(b, r, now) /\ Quotas!AllInflight(b) = AllInflight(b)
    BY <2>2, SameAvailable, SameAllInflight
  <2> HIDE DEF b
  <2>8. Quotas!Reserve(r, now)
    BY <1>3, <1>6, <2>4, <2>5, <2>6, <2>7 DEF Quotas!Reserve
  <2> QED
    BY <1>2, <2>1, <2>8 DEF Quotas!Next
<1> QED
  BY <1>7, <1>8

LEMMA LandChanges ==
    ASSUME HistoryInv, BlocksSoon, NEW j \in Jobs, job[j].pc = "put",
           job[j].op # "reserve", UNCHANGED clock, Lands(j)
    PROVE  Quotas!Next
<1> DEFINE now == job[j].now
           r == job[j].route
<1>1. /\ clock \in Nat /\ book \in [Routes -> Ledgers] /\ job[j] \in JobTypes
      /\ JobHistory(j) /\ BodyInv(j) /\ Owner(j) \in Owners
      /\ \A p \in Routes : Books(book[p], PaidOn(settled, p))
  BY HistoryFacts
<1>2. now \in 0..clock /\ r \in Routes
  BY <1>1 DEF JobTypes, BodyInv, JobPlaced
<1>3. book = job[j].seen /\ book' = job[j].body /\ settled' = settled \cup Paying(j)
  BY DEF Lands, Paying
<1>4. PICK v \in Restored(book[r], Expired(book[r], now)) :
        job[j].body = [book EXCEPT ![r] = Mutated(j, Rolled(book[r], now, v))]
  BY <1>1, <1>3 DEF JobHistory, Computed, Changed, Outcome, Mutated, Actual
<1> HIDE DEF now, r
<1> DEFINE led == Rolled(book[r], now, v)
           less == Mutated(j, led)
           own == Own(led, Owner(j))
<1>5. /\ Books(led, PaidOn(settled, r))
      /\ led.inflight = book[r].inflight \ Expired(book[r], now)
  <2>1. now \in Nat /\ Books(book[r], PaidOn(settled, r))
    BY <1>1, <1>2
  <2>2. Prompt => book[r].key <= Day(now)
    BY <1>1, <1>2, <1>3 DEF JobHistory, Computed, now
  <2> QED
    BY <2>1, <2>2, RolledAccounted
<1>6. led \in Quotas!Current(r, now)
  BY SameRestored, SameExpired, SameRolled DEF Quotas!Current
<1> HIDE DEF led
<1>7. Quotas!Write(r, less)
  BY <1>3, <1>4 DEF Quotas!Write, led
<1>8. /\ led \in Ledgers /\ IsFiniteSet(led.inflight)
      /\ \A s, t \in led.inflight : s.owner = t.owner => s = t
  BY <1>5 DEF Books, RouteWithin, Accounted, Unique
<1>9. own = {} \/ \E s \in led.inflight : own = {s} /\ s.owner = Owner(j)
  BY <1>8 DEF Own
<1>10. CASE job[j].op = "block"
  <2>1. less = Quotas!Blocked(led, job[j].until)
    BY <1>10, SameBlocked DEF Mutated
  <2>2. job[j].until \in 0..(clock + Cooldown)
    BY <1>1, RouteAssumption DEF BlocksSoon, JobTypes
  <2>3. settled' = settled
    BY <1>3, <1>10 DEF Paying
  <2> HIDE DEF less
  <2>4. Quotas!Block(r, now)
    BY <1>6, <1>7, <2>1, <2>2, <2>3 DEF Quotas!Block
  <2> QED
    BY <1>2, <2>4 DEF Quotas!Next
<1>11. CASE job[j].op = "release"
  <2>1. less = Released(led, Owner(j))
    BY <1>11 DEF Mutated
  <2>2. settled' = settled
    BY <1>3, <1>11 DEF Paying
  <2>3. CASE own = {}
    <3>1. less = Unwound(led, {}, led.avail)
      BY <2>1, <2>3 DEF Released
    <3>2. less = led
      BY <1>8, <3>1, UnwoundNone
    <3>3. Quotas!Reap(r, now)
      BY <1>6, <1>7, <2>2, <3>2 DEF Quotas!Reap
    <3> QED
      BY <1>2, <3>3 DEF Quotas!Next
  <2>4. ASSUME NEW s \in led.inflight, own = {s} PROVE Quotas!Next
    <3>1. less = Unwound(led, {s}, IF After(s) = led.avail THEN s.before ELSE led.avail)
      <4>1. (CHOOSE u \in {s} : TRUE) = s
        OBVIOUS
      <4>2. (\E u \in {s} : After(u) = led.avail) <=> After(s) = led.avail
        OBVIOUS
      <4> QED
        BY <2>1, <2>4, <4>1, <4>2 DEF Released
    <3>2. less = Quotas!Unwound(led, {s},
                    IF Quotas!After(s) = led.avail THEN s.before ELSE led.avail)
      BY <3>1, SameUnwound, SameSchedule
    <3> HIDE DEF less
    <3>3. Quotas!Release(r, now)
      BY <1>6, <1>7, <2>2, <3>2 DEF Quotas!Release
    <3> QED
      BY <1>2, <3>3 DEF Quotas!Next
  <2> QED
    BY <1>9, <2>3, <2>4
<1>12. CASE job[j].op \in {"settle", "rejected"}
  <2>1. less = Settled(led, Owner(j), Actual(j))
    BY <1>12 DEF Mutated
  <2>2. Actual(j) \in 0..Requests
    <3>1. job[j].sent \in Nat /\ job[j].sent <= Requests /\ job[j].sent > 0
      BY <1>1, <1>12 DEF JobTypes, JobHistory, BodyInv, JobPlaced
    <3> QED
      BY <3>1, QuotaAssumption DEF Actual
  <2>3. Paying(j) = {[owner |-> s.owner, route |-> r, at |-> s.at, paid |-> Actual(j)] :
                        s \in own}
    <3>1. \A u \in book[r].inflight : u.at \in Nat
      BY <1>1, <1>2 DEF Ledgers, Reservations
    <3>2. \A u \in book[r].inflight : u \in Expired(book[r], now) <=> ~(u.at + TTL > now)
      BY <1>2, <3>1, QuotaAssumption DEF Expired
    <3>3. own = {u \in Own(book[r], Owner(j)) : u.at + TTL > now}
      BY <1>5, <3>2 DEF Own
    <3> HIDE DEF own
    <3> QED
      BY <1>3, <1>12, <3>3 DEF Paying, Settlement, now, r
  <2>4. CASE own = {}
    <3>1. less = led
      BY <2>1, <2>4 DEF Settled
    <3>2. settled' = settled
      BY <1>3, <2>3, <2>4
    <3>3. Quotas!Reap(r, now)
      BY <1>6, <1>7, <3>1, <3>2 DEF Quotas!Reap
    <3> QED
      BY <1>2, <3>3 DEF Quotas!Next
  <2>5. ASSUME NEW s \in led.inflight, own = {s} PROVE Quotas!Next
    <3>1. less = Quotas!Corrected(led, s, Actual(j))
      <4>1. (CHOOSE u \in {s} : TRUE) = s
        OBVIOUS
      <4> QED
        BY <2>1, <2>5, <4>1, SameCorrected DEF Settled
    <3>2. settled' = settled \cup
            {[owner |-> s.owner, route |-> r, at |-> s.at, paid |-> Actual(j)]}
      BY <1>3, <2>3, <2>5
    <3> HIDE DEF less
    <3>3. Quotas!Settle(r, now)
      BY <1>6, <1>7, <2>2, <3>1, <3>2 DEF Quotas!Settle
    <3> QED
      BY <1>2, <3>3 DEF Quotas!Next
  <2> QED
    BY <1>9, <2>4, <2>5
<1> QED
  BY <1>1, <1>10, <1>11, <1>12 DEF JobTypes

-----------------------------------------------------------------------------
(* The refinement.                                                         *)

LEMMA QuotasInit == Init => Quotas!Init
BY DEF Init, Quotas!Init, NewBook, Quotas!NewBook, NoLedger, Quotas!NoLedger

LEMMA QuotasNext ==
    HistoryInv /\ BlocksSoon /\ [Next]_vars => [Quotas!Next]_(Quotas!vars)
<1> SUFFICES ASSUME HistoryInv, BlocksSoon, [Next]_vars
             PROVE  Quotas!Next \/ UNCHANGED <<clock, book, settled>>
  BY DEF Quotas!vars
<1>1. ASSUME NEW j \in Jobs, job[j].pc = "put", Lands(j), UNCHANGED clock
      PROVE  Quotas!Next
  BY <1>1, LandReserves, LandChanges
<1>2. CASE Tick
  BY <1>2 DEF Tick, Quotas!Tick, Quotas!Next
<1>3. ASSUME NEW j \in Jobs, Put(j) \/ PutAnswerLost(j) PROVE Quotas!Next
  BY <1>1, <1>3 DEF Put, PutAnswerLost
<1>4. ASSUME NEW j \in Jobs,
             \/ Begin(j) \/ PutUnneeded(j) \/ PutConflict(j)
             \/ Send(j) \/ CallEnds(j) \/ RateLimited(j) \/ Crash(j)
      PROVE  UNCHANGED <<clock, book, settled>>
  BY <1>4 DEF Begin, PutUnneeded, PutConflict, Send, CallEnds, RateLimited, Crash
<1>5. ASSUME NEW j \in Jobs, NEW now \in 0..MaxClock,
             \/ AssertFails(j, now) \/ SelectNone(j, now) \/ Mutate(j, now)
             \/ \E r \in Routes : Select(j, now, r)
      PROVE  UNCHANGED <<clock, book, settled>>
  BY <1>5 DEF AssertFails, SelectNone, Mutate, Select
<1>6. CASE UNCHANGED vars
  BY <1>6 DEF vars
<1> QED
  BY <1>2, <1>3, <1>4, <1>5, <1>6 DEF Next

(* Any number of runners that load the ledger object, compute on it and    *)
(* write it back on its ETag (mutate_llm_budget, select_and_reserve), with *)
(* conflicts, retries, lost answers and crashes, implement the ledger      *)
(* whose operations are atomic (RouteQuotas).                              *)
THEOREM ImplementsQuotas == Spec => AtomicOperations
<1>1. Init => BlocksSoon
  BY BlocksSoonInit
<1>2. HistoryInv /\ BlocksSoon /\ [Next]_vars => BlocksSoon'
  BY BlocksSoonNext DEF HistoryInv
<1>3. Spec => []BlocksSoon
  BY <1>1, <1>2, HistoryInvariant, PTL DEF Spec
<1> QED
  BY <1>3, QuotasInit, QuotasNext, HistoryInvariant, PTL
  DEF Spec, AtomicOperations, Quotas!Spec

=============================================================================
