------------------------- MODULE RouteHistoryProofs -------------------------
(***************************************************************************)
(* What the calls of a route have sent, whenever they were settled, stays  *)
(* within the daily quota and the request rate: the ledger's counter and   *)
(* its schedule account for every call that was ever settled or still has  *)
(* a reservation, for any jobs, quotas, TTL and retries.                   *)
(***************************************************************************)
EXTENDS RouteLedgersProofs, WellFoundedInduction

-----------------------------------------------------------------------------
(* The accounts of a route: its ledger, and the calls settled on it.       *)

Payments == [owner : Owners, route : Routes, at : Nat, paid : Nat]

PaidOn(h, r) == {c \in h : c.route = r}

(* A call is in the account once, and no longer once it is settled.        *)
Unique(led, C) ==
    /\ \A s, t \in led.inflight : s.owner = t.owner => s = t
    /\ \A c, d \in C : c.owner = d.owner => c = d
    /\ \A s \in led.inflight : \A c \in C : s.owner # c.owner

(* A route without a ledger has no past.                                   *)
Blank(led, C) == ~led.exists => led.avail = 0 /\ led.day = 0 /\ C = {}

(* The calls the schedule accounts for, as in Paced, and when each has had *)
(* its time of the schedule.                                               *)
PaidItems(C) ==
    {[owner |-> c.owner, at |-> c.at, paid |-> c.paid] : c \in {x \in C : x.paid > 0}}

HeldItems(led) ==
    {[owner |-> s.owner, at |-> s.at, paid |-> Requests] : s \in led.inflight}

Items(led, C) == PaidItems(C) \cup HeldItems(led)

End(x) == x.at + Interval * x.paid

(* The schedule is past the end of every call.  A reservation knows how    *)
(* the schedule was before it, when every call that is not later had       *)
(* ended, so that unwinding it sets the schedule back on none of them.     *)
OnSchedule(led, C) ==
    /\ \A s \in led.inflight : s.before <= s.at
    /\ \A x \in Items(led, C) : End(x) <= led.avail
    /\ \A x \in Items(led, C) : \A s \in led.inflight :
            x.owner # s.owner => End(x) <= s.before \/ After(s) <= x.at
    /\ \A x, y \in Items(led, C) :
            x.owner # y.owner => End(x) <= y.at \/ End(y) <= x.at

(* The requests of calls admitted on day d, one by one: those of a         *)
(* reservation in full, those of a settled call as many as it sent.        *)
Units(owner, n) == {owner} \X (1..n)

HeldOn(led, d) ==
    UNION {Units(s.owner, Requests) : s \in {t \in led.inflight : Day(t.at) = d}}

UnitsPaid(C, d) ==
    UNION {Units(c.owner, c.paid) : c \in {x \in C : Day(x.at) = d}}

Counted(led, C, d) == HeldOn(led, d) \cup UnitsPaid(C, d)

(* The counter of the day covers them all.                                 *)
WithinDay(led, C) ==
    /\ \A s \in led.inflight : Day(s.at) <= led.key
    /\ \A c \in C : Day(c.at) <= led.key
    /\ Cardinality(Counted(led, C, led.key)) <= led.day
    /\ \A d \in 0..led.key : Cardinality(Counted(led, C, d)) <= Rpd

Accounted(led, C) ==
    /\ Unique(led, C) /\ Blank(led, C)
    /\ Interval > 0 => OnSchedule(led, C)
    /\ Prompt => WithinDay(led, C)

-----------------------------------------------------------------------------
(* The invariant.                                                          *)

(* The uuids of a job's past and present owners are those it has used.     *)
Fresh(j) ==
    job[j].pc \notin {"done", "asserted"} =>
        /\ \A r \in Routes : \A s \in book[r].inflight :
                s.owner[1] = j => s.owner[2] <= job[j].uuid
        /\ \A c \in settled : c.owner[1] = j => c.owner[2] <= job[j].uuid

(* It has not paid for the call it is about to reserve.                    *)
Unpaid(j) ==
    job[j].pc = "put" /\ job[j].op = "reserve" /\ job[j].route # NoRoute =>
        \A c \in settled : c.owner # Owner(j)

(* A job writes what its operation makes of the ledger it loaded.          *)
Selected(j) ==
    \E f \in Avails(job[j].seen, job[j].now) :
        LET b == RolledBook(job[j].seen, job[j].now, f)
            r == job[j].route
        IN IF r = NoRoute THEN job[j].body = b
           ELSE /\ Available(b, r, job[j].now)
                /\ \A q \in Routes : Own(b[q], Owner(j)) = {}
                /\ job[j].body = [b EXCEPT ![r] = Reserved(b[r], Owner(j), job[j].now)]

(* Mutated, as a function of the job.                                      *)
Outcome(rec, owner, led) ==
    CASE rec.op = "block" -> Blocked(led, rec.until)
      [] rec.op = "release" -> Released(led, owner)
      [] OTHER -> Settled(led, owner, IF rec.op = "rejected" THEN rec.sent - 1 ELSE rec.sent)

Changed(j) ==
    LET led == job[j].seen[job[j].route] IN
    \E avail \in Restored(led, Expired(led, job[j].now)) :
        job[j].body = [job[j].seen EXCEPT
            ![job[j].route] = Outcome(job[j], Owner(j), Rolled(led, job[j].now, avail))]

Computed(j) ==
    job[j].pc = "put" =>
        /\ IF job[j].op = "reserve" THEN Selected(j) ELSE Changed(j)
        /\ Prompt => \A r \in Routes : job[j].seen[r].key <= Day(job[j].now)

JobHistory(j) ==
    /\ job[j].sent <= Requests
    /\ Fresh(j) /\ Unpaid(j) /\ Computed(j)

HistoryInv ==
    /\ LedgerInv
    /\ IsFiniteSet(settled)
    /\ \A r \in Routes : Accounted(book[r], PaidOn(settled, r))
    /\ Prompt => \A r \in Routes : book[r].key <= Day(clock)
    /\ \A j \in Jobs : JobHistory(j)

-----------------------------------------------------------------------------
(* Numbers.                                                                *)

LEMMA TimesNat == \A n \in Nat : Interval * n \in Nat
BY QuotaAssumption, ProductNat

LEMMA TimesMore ==
    ASSUME NEW m \in Nat, NEW n \in Nat, m <= n
    PROVE  Interval * m <= Interval * n
<1>1. n - m \in Nat /\ Interval \in Nat
  BY QuotaAssumption
<1>2. Interval * (n - m) \in Nat
  BY <1>1, TimesNat
<1>3. Interval * n = Interval * m + Interval * (n - m)
  BY <1>1
<1> QED
  BY <1>2, <1>3, TimesNat

LEMMA TimesSome ==
    ASSUME Interval > 0, NEW n \in Nat, n > 0
    PROVE  Interval * n > 0
BY QuotaAssumption

LEMMA DayMonotone ==
    ASSUME NEW a \in Nat, NEW b \in Nat, a <= b
    PROVE  Day(a) <= Day(b)
BY QuotaAssumption DEF Day

(* The latest of finitely many, by induction on the subsets of a set.      *)
LEMMA LatestExists ==
    ASSUME NEW S, IsFiniteSet(S), S # {}, NEW f \in [S -> Nat]
    PROVE  \E x \in S : \A y \in S : f[y] <= f[x]
<1> DEFINE Up(x) == {y \in S : f[y] > f[x]}
           U == {Up(x) : x \in S}
<1>1. IsWellFoundedOn(StrictSubsetOrdering(S), SUBSET S)
  BY FS_StrictSubsetOrderingWellFounded, FS_FiniteSubsetsOfFinite
<1>2. U \subseteq SUBSET S /\ U # {}
  <2>1. PICK x \in S : TRUE
    OBVIOUS
  <2>2. Up(x) \in U
    OBVIOUS
  <2>3. \A y \in S : Up(y) \in SUBSET S
    OBVIOUS
  <2> HIDE DEF Up
  <2> QED
    BY <2>2, <2>3
<1>3. PICK m \in U : \A n \in U : <<n, m>> \notin StrictSubsetOrdering(S)
  <2> HIDE DEF U
  <2> QED
    BY <1>1, <1>2, WFMin
<1>4. PICK x \in S : m = Up(x)
  OBVIOUS
<1>5. ASSUME NEW y \in S, f[y] > f[x] PROVE FALSE
  <2>1. Up(y) \subseteq Up(x)
    BY <1>5
  <2>2. y \in Up(x) /\ y \notin Up(y)
    BY <1>5
  <2>3. Up(y) \in U /\ Up(y) \in SUBSET S /\ Up(x) \in SUBSET S
    OBVIOUS
  <2> HIDE DEF Up, U
  <2>4. <<Up(y), Up(x)>> \in StrictSubsetOrdering(S)
    BY <2>1, <2>2, <2>3 DEF StrictSubsetOrdering
  <2> QED
    BY <1>3, <1>4, <2>3, <2>4
<1>6. \A y \in S : f[y] \in Nat
  OBVIOUS
<1> QED
  BY <1>5, <1>6

-----------------------------------------------------------------------------
(* The schedule.                                                           *)

LEMMA ItemFacts ==
    ASSUME NEW led \in Ledgers, NEW C \in SUBSET Payments, NEW x \in Items(led, C)
    PROVE  /\ x.owner \in Owners /\ x.at \in Nat /\ x.paid \in Nat /\ x.paid > 0
           /\ End(x) \in Nat
           /\ Interval > 0 => x.at < End(x)
<1>1. x.owner \in Owners /\ x.at \in Nat /\ x.paid \in Nat /\ x.paid > 0
  <2>1. CASE x \in PaidItems(C)
    BY <2>1 DEF PaidItems, Payments
  <2>2. CASE x \in HeldItems(led)
    BY <2>2, QuotaAssumption DEF HeldItems, Ledgers, Reservations
  <2> QED
    BY <2>1, <2>2 DEF Items
<1>2. Interval * x.paid \in Nat /\ (Interval > 0 => Interval * x.paid > 0)
  BY <1>1, TimesNat, TimesSome
<1> QED
  BY <1>1, <1>2 DEF End

(* A reservation that was made when the schedule allowed it.               *)
LEMMA AfterFacts ==
    ASSUME NEW s \in Reservations, s.before <= s.at
    PROVE  /\ After(s) = s.at + Interval * Requests /\ After(s) \in Nat
           /\ Interval > 0 => s.at < After(s)
<1>1. s.at \in Nat /\ s.before \in Nat /\ Requests \in Nat /\ Requests > 0
  BY QuotaAssumption DEF Reservations
<1>2. Interval * Requests \in Nat /\ (Interval > 0 => Interval * Requests > 0)
  BY <1>1, TimesNat, TimesSome
<1>3. After(s) = s.at + Interval * Requests
  BY <1>1 DEF After, Schedule
<1> QED
  BY <1>1, <1>2, <1>3

LEMMA HeldItem ==
    ASSUME NEW led \in Ledgers, NEW C, NEW s \in led.inflight, s.before <= s.at
    PROVE  \E x \in Items(led, C) :
                /\ x.owner = s.owner /\ x.at = s.at /\ x.paid = Requests
                /\ End(x) = After(s)
<1> DEFINE x == [owner |-> s.owner, at |-> s.at, paid |-> Requests]
<1>1. x \in Items(led, C)
  BY DEF Items, HeldItems
<1>2. x.owner = s.owner /\ x.at = s.at /\ x.paid = Requests
  OBVIOUS
<1>3. s \in Reservations
  BY DEF Ledgers
<1>4. End(x) = After(s)
  BY <1>2, <1>3, AfterFacts DEF End
<1> QED
  BY <1>1, <1>2, <1>4

(* _unwind_reservation of any of the reservations, in any order, sets the  *)
(* schedule back on nobody who is not later than all of them.              *)
LEMMA Displaced ==
    ASSUME Interval > 0, NEW led \in Ledgers, NEW gone \in SUBSET led.inflight,
           IsFiniteSet(gone), \A s \in led.inflight : s.before <= s.at,
           NEW at \in Nat, NEW end \in Nat, at < end, end <= led.avail,
           \A s \in gone : end <= s.before \/ After(s) <= at,
           NEW v \in Restored(led, gone)
    PROVE  end <= v
<1>1. \A s \in gone : /\ s.before \in Nat /\ s.at \in Nat /\ After(s) \in Nat
                      /\ s.before <= s.at /\ s.at < After(s)
  BY AfterFacts DEF Ledgers, Reservations
<1>2. led.avail \in Nat
  BY DEF Ledgers
<1>3. CASE v = led.avail
  BY <1>3
<1>4. CASE v # led.avail
  <2>1. PICK run \in (SUBSET gone) \ {{}} :
            /\ \A s \in run : \/ After(s) = led.avail
                              \/ \E u \in run : u # s /\ u.before = After(s)
            /\ \E s \in run : v = s.before
    BY <1>4 DEF Restored
  <2>2. PICK s \in run : v = s.before
    BY <2>1
  <2>3. s \in gone
    BY <2>1
  <2>4. ASSUME After(s) <= at PROVE FALSE
    <3> DEFINE S == {t \in run : After(t) <= at}
               f == [t \in S |-> After(t)]
    <3>1. IsFiniteSet(S) /\ S # {} /\ S \subseteq gone
      BY <2>1, <2>2, <2>4, FS_Subset
    <3>2. f \in [S -> Nat]
      BY <1>1, <3>1
    <3>3. PICK t \in S : \A y \in S : f[y] <= f[t]
      <4> HIDE DEF S, f
      <4> QED
        BY <3>1, <3>2, LatestExists
    <3>4. t \in run /\ t \in gone /\ After(t) <= at /\ After(t) \in Nat
      BY <1>1, <3>1
    <3>5. After(t) # led.avail
      BY <1>2, <3>4
    <3>6. PICK u \in run : u.before = After(t)
      BY <2>1, <3>4, <3>5
    <3>7. u \in gone
      BY <2>1
    <3>8. After(u) <= at
      BY <1>1, <3>4, <3>6, <3>7
    <3>9. After(u) <= After(t)
      BY <3>3, <3>8
    <3> QED
      BY <1>1, <3>4, <3>6, <3>7, <3>9
  <2> QED
    BY <2>2, <2>3, <2>4
<1> QED
  BY <1>3, <1>4

(* Fewer calls, or shorter ones, fit the schedule as well.                 *)
LEMMA ItemsShrink ==
    ASSUME NEW led \in Ledgers, NEW less \in Ledgers,
           NEW C \in SUBSET Payments, NEW D \in SUBSET Payments,
           OnSchedule(led, C), less.inflight \subseteq led.inflight,
           \A x \in Items(less, D) : End(x) <= less.avail,
           \A x \in Items(less, D) : \E y \in Items(led, C) :
                y.owner = x.owner /\ y.at = x.at /\ x.paid <= y.paid
    PROVE  OnSchedule(less, D)
<1>1. ASSUME NEW x \in Items(less, D)
      PROVE  \E y \in Items(led, C) :
                /\ y.owner = x.owner /\ y.at = x.at /\ End(x) <= End(y)
                /\ y.at \in Nat /\ End(y) \in Nat /\ End(x) \in Nat
  <2>1. PICK y \in Items(led, C) : y.owner = x.owner /\ y.at = x.at /\ x.paid <= y.paid
    OBVIOUS
  <2>2. /\ x.at \in Nat /\ x.paid \in Nat /\ End(x) \in Nat
        /\ y.at \in Nat /\ y.paid \in Nat /\ End(y) \in Nat
    BY ItemFacts
  <2>3. Interval * x.paid <= Interval * y.paid
    BY <2>1, <2>2, TimesMore
  <2>4. Interval * x.paid \in Nat /\ Interval * y.paid \in Nat
    BY <2>2, TimesNat
  <2>5. End(x) <= End(y)
    BY <2>1, <2>2, <2>3, <2>4 DEF End
  <2> QED
    BY <2>1, <2>2, <2>5
<1>2. \A s \in less.inflight : s.before <= s.at /\ s.before \in Nat /\ s.at \in Nat
  BY DEF OnSchedule, Ledgers, Reservations
<1>3. ASSUME NEW x \in Items(less, D), NEW s \in less.inflight, x.owner # s.owner
      PROVE  End(x) <= s.before \/ After(s) <= x.at
  <2>1. PICK y \in Items(led, C) : /\ y.owner = x.owner /\ y.at = x.at /\ End(x) <= End(y)
                                   /\ End(y) \in Nat /\ End(x) \in Nat
    BY <1>1
  <2>2. End(y) <= s.before \/ After(s) <= y.at
    BY <1>3, <2>1 DEF OnSchedule
  <2> QED
    BY <1>2, <2>1, <2>2
<1>4. ASSUME NEW x \in Items(less, D), NEW z \in Items(less, D), x.owner # z.owner
      PROVE  End(x) <= z.at \/ End(z) <= x.at
  <2>1. PICK y \in Items(led, C) :
            /\ y.owner = x.owner /\ y.at = x.at /\ End(x) <= End(y)
            /\ y.at \in Nat /\ End(y) \in Nat /\ End(x) \in Nat
    BY <1>1
  <2>2. PICK w \in Items(led, C) :
            /\ w.owner = z.owner /\ w.at = z.at /\ End(z) <= End(w)
            /\ w.at \in Nat /\ End(w) \in Nat /\ End(z) \in Nat
    BY <1>1
  <2>3. End(y) <= w.at \/ End(w) <= y.at
    BY <1>4, <2>1, <2>2 DEF OnSchedule
  <2> QED
    BY <2>1, <2>2, <2>3
<1> QED
  BY <1>2, <1>3, <1>4 DEF OnSchedule

(* Unwinding reservations leaves the others on schedule.                   *)
LEMMA UnwoundOnSchedule ==
    ASSUME Interval > 0, NEW led \in Ledgers, IsFiniteSet(led.inflight),
           NEW C \in SUBSET Payments, Unique(led, C), OnSchedule(led, C),
           NEW gone \in SUBSET led.inflight, NEW v \in Restored(led, gone)
    PROVE  OnSchedule(Unwound(led, gone, v), C)
<1> DEFINE less == Unwound(led, gone, v)
<1>1. v \in Nat
  BY RestoredNat
<1>2. less \in Ledgers /\ less.inflight = led.inflight \ gone
  BY <1>1, UnwoundFacts
<1>3. less.avail = v
  BY <1>1 DEF Unwound, Ledgers
<1> HIDE DEF less
<1>4. IsFiniteSet(gone)
  BY FS_Subset
<1>5. Items(less, C) \subseteq Items(led, C)
  BY <1>2 DEF Items, HeldItems
<1>6. ASSUME NEW x \in Items(less, C) PROVE End(x) <= v
  <2>1. x \in Items(led, C)
    BY <1>5
  <2>2. x.at \in Nat /\ End(x) \in Nat /\ x.at < End(x)
    BY <2>1, ItemFacts
  <2>3. End(x) <= led.avail
    BY <2>1 DEF OnSchedule
  <2>4. ASSUME NEW s \in gone PROVE x.owner # s.owner
    <3>1. CASE x \in PaidItems(C)
      BY <3>1 DEF PaidItems, Unique
    <3>2. CASE x \in HeldItems(less)
      BY <1>2, <3>2 DEF HeldItems, Unique
    <3> QED
      BY <3>1, <3>2 DEF Items
  <2>5. \A s \in gone : End(x) <= s.before \/ After(s) <= x.at
    BY <2>1, <2>4 DEF OnSchedule
  <2>6. \A s \in led.inflight : s.before <= s.at
    BY DEF OnSchedule
  <2> QED
    BY <1>4, <2>2, <2>3, <2>5, <2>6, Displaced
<1>7. \A x \in Items(less, C) : \E y \in Items(led, C) :
            y.owner = x.owner /\ y.at = x.at /\ x.paid <= y.paid
  <2> TAKE x \in Items(less, C)
  <2>1. x \in Items(led, C) /\ x.paid \in Nat
    BY <1>2, <1>5, ItemFacts
  <2>2. x.paid <= x.paid
    BY <2>1
  <2> QED
    BY <2>1, <2>2
<1>8. OnSchedule(less, C)
  BY <1>2, <1>3, <1>6, <1>7, ItemsShrink
<1> QED
  BY <1>8 DEF less

(* A reservation made when the schedule allows it.                         *)
LEMMA ReservedOnSchedule ==
    ASSUME Interval > 0, NEW led \in Ledgers, NEW C \in SUBSET Payments,
           OnSchedule(led, C), NEW owner \in Owners, NEW now \in Nat, led.avail <= now
    PROVE  OnSchedule(Reserved(led, owner, now), C)
<1> DEFINE more == Reserved(led, owner, now)
           new == MkReservation(owner, now, led.avail)
           x == [owner |-> owner, at |-> now, paid |-> Requests]
<1>1. more \in Ledgers /\ more.inflight = led.inflight \cup {new}
  BY ReservedFacts
<1>2. new.owner = owner /\ new.at = now /\ new.before = led.avail /\ led.avail \in Nat
  BY DEF MkReservation, Ledgers
<1>3. more.avail = Schedule(led.avail, Requests, now)
  BY DEF Reserved, Turned, Ledgers
<1> HIDE DEF more, new
<1>4. new \in Reservations /\ new.before <= new.at
  BY <1>1, <1>2 DEF Ledgers
<1>5. After(new) = now + Interval * Requests /\ After(new) \in Nat /\ now < After(new)
  BY <1>2, <1>4, AfterFacts
<1>6. more.avail = After(new)
  BY <1>2, <1>3 DEF After
<1>7. Items(more, C) = Items(led, C) \cup {x}
  BY <1>1, <1>2 DEF Items, HeldItems
<1>8. x.owner = owner /\ x.at = now /\ End(x) = After(new)
  BY <1>5 DEF End
<1> HIDE DEF x
<1>9. ASSUME NEW y \in Items(led, C)
      PROVE  End(y) <= led.avail /\ y.at \in Nat /\ End(y) \in Nat
  BY ItemFacts DEF OnSchedule
<1>10. \A s \in more.inflight : s.before <= s.at
  BY <1>1, <1>4 DEF OnSchedule
<1>11. \A y \in Items(more, C) : End(y) <= more.avail
  BY <1>2, <1>5, <1>6, <1>7, <1>8, <1>9
<1>12. ASSUME NEW y \in Items(more, C), NEW s \in more.inflight, y.owner # s.owner
       PROVE  End(y) <= s.before \/ After(s) <= y.at
  <2>1. CASE s = new
    BY <1>2, <1>7, <1>8, <1>9, <1>12, <2>1
  <2>2. CASE s \in led.inflight /\ y \in Items(led, C)
    BY <1>12, <2>2 DEF OnSchedule
  <2>3. CASE s \in led.inflight /\ y = x
    <3>1. s.before <= s.at
      BY <2>3 DEF OnSchedule
    <3>2. PICK z \in Items(led, C) : End(z) = After(s)
      BY <2>3, <3>1, HeldItem
    <3> QED
      BY <1>2, <1>8, <1>9, <2>3, <3>2
  <2> QED
    BY <1>1, <1>7, <2>1, <2>2, <2>3
<1>13. ASSUME NEW y \in Items(more, C), NEW z \in Items(more, C), y.owner # z.owner
       PROVE  End(y) <= z.at \/ End(z) <= y.at
  <2>1. CASE y \in Items(led, C) /\ z \in Items(led, C)
    BY <1>13, <2>1 DEF OnSchedule
  <2>2. CASE y = x /\ z \in Items(led, C)
    BY <1>2, <1>8, <1>9, <2>2
  <2>3. CASE y \in Items(led, C) /\ z = x
    BY <1>2, <1>8, <1>9, <2>3
  <2> QED
    BY <1>7, <1>13, <2>1, <2>2, <2>3
<1>14. OnSchedule(more, C)
  BY <1>10, <1>11, <1>12, <1>13 DEF OnSchedule
<1> QED
  BY <1>14 DEF more

(* settle replaces a reservation by what was sent, and sets the schedule   *)
(* back only when no later reservation has been made on it.                *)
LEMMA CorrectedOnSchedule ==
    ASSUME Interval > 0, NEW led \in Ledgers, NEW C \in SUBSET Payments,
           Unique(led, C), OnSchedule(led, C),
           NEW s \in led.inflight, NEW actual \in Nat, actual <= Requests,
           NEW c \in Payments, c.owner = s.owner, c.at = s.at, c.paid = actual
    PROVE  OnSchedule(Corrected(led, s, actual), C \cup {c})
<1> DEFINE less == Corrected(led, s, actual)
           D == C \cup {c}
<1>1. /\ s \in Reservations /\ s.owner \in Owners /\ s.at \in Nat /\ s.before \in Nat
      /\ s.before <= s.at /\ led.avail \in Nat /\ led.day \in Nat
  BY DEF Ledgers, Reservations, OnSchedule
<1>2. After(s) = s.at + Interval * Requests /\ After(s) \in Nat /\ s.at < After(s)
  BY <1>1, AfterFacts
<1>3. Schedule(s.before, actual, s.at) = s.at + Interval * actual
  BY <1>1 DEF Schedule
<1>4. /\ Interval * actual \in Nat /\ Interval * Requests \in Nat
      /\ Interval * actual <= Interval * Requests
  BY TimesNat, TimesMore, QuotaAssumption
<1>5. /\ less \in Ledgers /\ less.inflight = led.inflight \ {s}
      /\ less.avail = IF led.avail = After(s) THEN s.at + Interval * actual ELSE led.avail
  <2> DEFINE day == IF Day(s.at) = led.key THEN Less(led.day + actual, Requests) ELSE led.day
             avail == IF led.avail = After(s) THEN s.at + Interval * actual ELSE led.avail
  <2>1. led.day + actual \in Nat /\ Requests \in Nat
    BY <1>1, QuotaAssumption
  <2>2. day \in Nat
    <3>1. Less(led.day + actual, Requests) \in Nat
      BY <2>1, LessNat
    <3> QED
      BY <1>1, <3>1
  <2>3. avail \in Nat
    <3>1. s.at + Interval * actual \in Nat
      BY <1>1, <1>4
    <3> QED
      BY <1>1, <3>1
  <2>4. less = [led EXCEPT !.inflight = led.inflight \ {s}, !.day = day, !.avail = avail]
    BY <1>3 DEF Corrected
  <2> HIDE DEF less, day, avail
  <2>5. less \in Ledgers /\ less.inflight = led.inflight \ {s} /\ less.avail = avail
    BY <2>2, <2>3, <2>4 DEF Ledgers
  <2> QED
    BY <2>5 DEF avail
<1> HIDE DEF less
<1>6. PICK held \in Items(led, C) : /\ held.owner = s.owner /\ held.at = s.at
                                    /\ held.paid = Requests /\ End(held) = After(s)
  BY <1>1, HeldItem
<1>7. ASSUME NEW x \in Items(less, D)
      PROVE  \/ x \in Items(led, C) /\ x.owner # s.owner
             \/ x.owner = s.owner /\ x.at = s.at /\ x.paid = actual
  <2>1. CASE x \in HeldItems(less)
    BY <1>5, <2>1 DEF Items, HeldItems, Unique
  <2>2. CASE x \in PaidItems(D)
    <3>1. PICK d \in D : /\ d.paid > 0
                         /\ x = [owner |-> d.owner, at |-> d.at, paid |-> d.paid]
      BY <2>2 DEF PaidItems
    <3>2. CASE d = c
      BY <3>1, <3>2
    <3>3. CASE d \in C
      BY <3>1, <3>3 DEF Items, PaidItems, Unique
    <3> QED
      BY <3>2, <3>3
  <2> QED
    BY <2>1, <2>2 DEF Items
<1>8. ASSUME NEW x \in Items(less, D) PROVE End(x) <= less.avail
  <2>1. CASE x \in Items(led, C) /\ x.owner # s.owner
    <3>1. x.at \in Nat /\ End(x) \in Nat /\ x.at < End(x)
      BY <2>1, ItemFacts
    <3>2. End(x) <= led.avail /\ (End(x) <= s.before \/ After(s) <= x.at)
      BY <2>1 DEF OnSchedule
    <3>3. CASE led.avail = After(s)
      <4>1. End(x) <= s.before
        BY <1>2, <3>1, <3>2, <3>3
      <4>2. less.avail = s.at + Interval * actual
        BY <1>5, <3>3
      <4> QED
        BY <1>1, <1>4, <3>1, <4>1, <4>2
    <3> QED
      BY <1>5, <3>2, <3>3
  <2>2. CASE x.owner = s.owner /\ x.at = s.at /\ x.paid = actual
    <3>1. End(x) = s.at + Interval * actual
      BY <2>2 DEF End
    <3>2. After(s) <= led.avail
      BY <1>6 DEF OnSchedule
    <3> QED
      BY <1>1, <1>2, <1>4, <1>5, <3>1, <3>2
  <2> QED
    BY <1>7, <2>1, <2>2
<1>9. \A x \in Items(less, D) : \E y \in Items(led, C) :
            y.owner = x.owner /\ y.at = x.at /\ x.paid <= y.paid
  <2> TAKE x \in Items(less, D)
  <2>1. CASE x \in Items(led, C) /\ x.owner # s.owner
    <3>1. x.paid \in Nat
      BY <2>1, ItemFacts
    <3> QED
      BY <2>1, <3>1
  <2>2. CASE x.owner = s.owner /\ x.at = s.at /\ x.paid = actual
    BY <1>6, <2>2
  <2> QED
    BY <1>7, <2>1, <2>2
<1>10. less.inflight \subseteq led.inflight /\ D \in SUBSET Payments
  BY <1>5
<1> HIDE DEF D
<1>11. OnSchedule(less, D)
  BY <1>5, <1>8, <1>9, <1>10, ItemsShrink
<1> QED
  BY <1>11 DEF less, D

-----------------------------------------------------------------------------
(* The counter of the day.                                                 *)

LEMMA UnitsFacts ==
    ASSUME NEW owner, NEW n \in Nat
    PROVE  /\ IsFiniteSet(Units(owner, n)) /\ Cardinality(Units(owner, n)) = n
           /\ \A m \in Nat : m <= n => Units(owner, m) \subseteq Units(owner, n)
           /\ \A u \in Units(owner, n) : u[1] = owner
<1>1. IsFiniteSet({owner}) /\ Cardinality({owner}) = 1
  BY FS_Singleton
<1>2. IsFiniteSet(1..n) /\ Cardinality(1..n) = n
  <2>1. 1 \in Int /\ n \in Int
    OBVIOUS
  <2>2. IsFiniteSet(1..n) /\ Cardinality(1..n) = IF 1 > n THEN 0 ELSE n - 1 + 1
    BY <2>1, FS_Interval
  <2> QED
    BY <2>2
<1>3. /\ IsFiniteSet({owner} \X (1..n))
      /\ Cardinality({owner} \X (1..n)) = Cardinality({owner}) * Cardinality(1..n)
  BY <1>1, <1>2, FS_Product, Zenon
<1>4. Cardinality({owner} \X (1..n)) = n
  <2>1. Cardinality({owner} \X (1..n)) = 1 * n
    BY <1>1, <1>2, <1>3, Zenon
  <2> QED
    BY <2>1
<1>5. \A m \in Nat : m <= n => Units(owner, m) \subseteq Units(owner, n)
  BY DEF Units
<1>6. \A u \in Units(owner, n) : u[1] = owner
  BY DEF Units
<1> QED
  BY <1>3, <1>4, <1>5, <1>6 DEF Units

LEMMA HeldOnFacts ==
    ASSUME NEW led, NEW d, NEW u
    PROVE  u \in HeldOn(led, d) <=>
            \E s \in led.inflight : Day(s.at) = d /\ u \in Units(s.owner, Requests)
BY Zenon DEF HeldOn

LEMMA UnitsPaidFacts ==
    ASSUME NEW C, NEW d, NEW u
    PROVE  u \in UnitsPaid(C, d) <=>
            \E c \in C : Day(c.at) = d /\ u \in Units(c.owner, c.paid)
BY Zenon DEF UnitsPaid

LEMMA CountedFinite ==
    ASSUME NEW led \in Ledgers, IsFiniteSet(led.inflight),
           NEW C \in SUBSET Payments, IsFiniteSet(C), NEW d
    PROVE  /\ IsFiniteSet(HeldOn(led, d)) /\ IsFiniteSet(UnitsPaid(C, d))
           /\ IsFiniteSet(Counted(led, C, d))
           /\ Cardinality(Counted(led, C, d)) \in Nat
<1>1. IsFiniteSet(HeldOn(led, d))
  <2> DEFINE S == {t \in led.inflight : Day(t.at) = d}
             T == {Units(s.owner, Requests) : s \in S}
             g == [s \in S |-> Units(s.owner, Requests)]
  <2>1. IsFiniteSet(S)
    BY FS_Subset
  <2>2. g \in Surjection(S, T)
    BY DEF Surjection
  <2>3. \A t \in T : IsFiniteSet(t)
    BY UnitsFacts, QuotaAssumption
  <2> HIDE DEF S, T, g
  <2>4. IsFiniteSet(UNION T)
    BY <2>1, <2>2, <2>3, FS_Surjection, FS_UNION
  <2> QED
    BY <2>4 DEF HeldOn, S, T
<1>2. IsFiniteSet(UnitsPaid(C, d))
  <2> DEFINE S == {x \in C : Day(x.at) = d}
             T == {Units(c.owner, c.paid) : c \in S}
             g == [c \in S |-> Units(c.owner, c.paid)]
  <2>1. IsFiniteSet(S)
    BY FS_Subset
  <2>2. g \in Surjection(S, T)
    BY DEF Surjection
  <2>3. \A t \in T : IsFiniteSet(t)
    <3>1. \A c \in S : c.paid \in Nat
      BY DEF Payments
    <3> QED
      BY <3>1, UnitsFacts
  <2> HIDE DEF S, T, g
  <2>4. IsFiniteSet(UNION T)
    BY <2>1, <2>2, <2>3, FS_Surjection, FS_UNION
  <2> QED
    BY <2>4 DEF UnitsPaid, S, T
<1>3. IsFiniteSet(Counted(led, C, d))
  BY <1>1, <1>2, FS_Union DEF Counted
<1> QED
  BY <1>1, <1>2, <1>3, FS_CardinalityType

(* What leaves a count makes it smaller by its own size.                   *)
LEMMA CountShrinks ==
    ASSUME NEW U, IsFiniteSet(U), NEW V \in SUBSET U, NEW W \in SUBSET U,
           V \cap W = {}
    PROVE  /\ Cardinality(V) \in Nat /\ Cardinality(W) \in Nat /\ Cardinality(U) \in Nat
           /\ Cardinality(V) + Cardinality(W) <= Cardinality(U)
<1>1. IsFiniteSet(V) /\ IsFiniteSet(W)
  BY FS_Subset
<1>2. Cardinality(V) \in Nat /\ Cardinality(W) \in Nat /\ Cardinality(U) \in Nat
  BY <1>1, FS_CardinalityType
<1>3. Cardinality(V \cup W) = Cardinality(V) + Cardinality(W) - Cardinality({})
  BY <1>1, FS_Union
<1>4. Cardinality(V \cup W) <= Cardinality(U)
  <2>1. V \cup W \in SUBSET U
    OBVIOUS
  <2> QED
    BY <2>1, FS_Subset
<1> QED
  BY <1>2, <1>3, <1>4, FS_EmptySet

(* A change that counts nothing anew keeps within the day, when the        *)
(* counter of the current day gives back no more than left it.             *)
LEMMA DayShrinks ==
    ASSUME NEW led \in Ledgers, IsFiniteSet(led.inflight),
           NEW C \in SUBSET Payments, IsFiniteSet(C), WithinDay(led, C),
           NEW less \in Ledgers, NEW D \in SUBSET Payments,
           less.key = led.key, less.inflight \subseteq led.inflight,
           \A c \in D : Day(c.at) <= led.key,
           \A d \in 0..led.key : Counted(less, D, d) \subseteq Counted(led, C, d),
           NEW W \in SUBSET Counted(led, C, led.key),
           W \cap Counted(less, D, led.key) = {},
           less.day >= led.day - Cardinality(W)
    PROVE  WithinDay(less, D)
<1>1. led.key \in Nat /\ led.day \in Nat /\ less.day \in Nat /\ Rpd \in Nat
  BY QuotaAssumption DEF Ledgers
<1>2. Cardinality(Counted(less, D, less.key)) <= less.day
  <2> DEFINE U == Counted(led, C, led.key)
             V == Counted(less, D, led.key)
  <2>1. IsFiniteSet(U)
    BY CountedFinite
  <2>2. V \in SUBSET U
    BY <1>1
  <2>3. Cardinality(U) <= led.day
    BY DEF WithinDay
  <2> HIDE DEF U, V
  <2>4. V \cap W = {} /\ W \in SUBSET U
    BY DEF U, V
  <2>5. /\ Cardinality(V) \in Nat /\ Cardinality(W) \in Nat /\ Cardinality(U) \in Nat
        /\ Cardinality(V) + Cardinality(W) <= Cardinality(U)
    BY <2>1, <2>2, <2>4, CountShrinks
  <2>6. Cardinality(V) <= less.day
    BY <1>1, <2>3, <2>5
  <2> QED
    BY <2>6 DEF V
<1>3. ASSUME NEW d \in 0..less.key PROVE Cardinality(Counted(less, D, d)) <= Rpd
  <2>1. Counted(less, D, d) \in SUBSET Counted(led, C, d)
    OBVIOUS
  <2>2. IsFiniteSet(Counted(led, C, d)) /\ Cardinality(Counted(led, C, d)) \in Nat
    BY CountedFinite
  <2>3. /\ IsFiniteSet(Counted(less, D, d))
        /\ Cardinality(Counted(less, D, d)) <= Cardinality(Counted(led, C, d))
    BY <2>1, <2>2, FS_Subset
  <2>4. Cardinality(Counted(less, D, d)) \in Nat
    BY <2>3, FS_CardinalityType
  <2>5. Cardinality(Counted(led, C, d)) <= Rpd
    BY DEF WithinDay
  <2> QED
    BY <1>1, <2>2, <2>3, <2>4, <2>5
<1>4. \A s \in less.inflight : Day(s.at) <= less.key
  BY DEF WithinDay
<1> QED
  BY <1>2, <1>3, <1>4 DEF WithinDay

(* The day rolls over: nothing has been counted on the new one.            *)
LEMMA TurnedWithinDay ==
    ASSUME NEW led \in Ledgers, IsFiniteSet(led.inflight),
           NEW C \in SUBSET Payments, IsFiniteSet(C), WithinDay(led, C),
           NEW now \in Nat, led.key <= Day(now)
    PROVE  WithinDay(Turned(led, now), C)
<1>1. CASE ~(led.exists /\ led.key # Day(now))
  BY <1>1 DEF Turned
<1>2. CASE led.exists /\ led.key # Day(now)
  <2> DEFINE new == Turned(led, now)
  <2>1. /\ new \in Ledgers /\ new.inflight = led.inflight
        /\ new.key = Day(now) /\ new.day = 0
    <3>1. new \in Ledgers /\ new.inflight = led.inflight
      BY TurnedFacts
    <3>2. new = [led EXCEPT !.day = 0, !.key = Day(now)]
      BY <1>2 DEF Turned
    <3>3. new.key = Day(now) /\ new.day = 0
      BY <3>2 DEF Ledgers
    <3> QED
      BY <3>1, <3>3
  <2> HIDE DEF new
  <2>2. led.key \in Nat /\ Day(now) \in Nat /\ led.key < Day(now) /\ Rpd \in Nat
    BY <1>2, DayNat, QuotaAssumption DEF Ledgers
  <2>3. ASSUME NEW s \in led.inflight PROVE Day(s.at) \in Nat /\ Day(s.at) <= led.key
    BY DayNat DEF WithinDay, Ledgers, Reservations
  <2>4. ASSUME NEW c \in C PROVE Day(c.at) \in Nat /\ Day(c.at) <= led.key
    BY DayNat DEF WithinDay, Payments
  <2>5. \A d : Counted(new, C, d) = Counted(led, C, d)
    BY <2>1 DEF Counted, HeldOn
  <2>6. ASSUME NEW d \in (led.key + 1)..Day(now) PROVE Counted(led, C, d) = {}
    <3>1. \A s \in led.inflight : Day(s.at) # d
      BY <2>2, <2>3
    <3>2. \A c \in C : Day(c.at) # d
      BY <2>2, <2>4
    <3>3. \A u : u \notin HeldOn(led, d)
      BY <3>1, HeldOnFacts
    <3>4. \A u : u \notin UnitsPaid(C, d)
      BY <3>2, UnitsPaidFacts
    <3> QED
      BY <3>3, <3>4 DEF Counted
  <2>7. Cardinality(Counted(new, C, new.key)) <= new.day
    <3>1. Day(now) \in (led.key + 1)..Day(now)
      BY <2>2
    <3>2. Counted(new, C, new.key) = {}
      BY <2>1, <2>5, <2>6, <3>1
    <3> QED
      BY <2>1, <3>2, FS_EmptySet
  <2>8. ASSUME NEW d \in 0..new.key PROVE Cardinality(Counted(new, C, d)) <= Rpd
    <3>1. CASE d \in 0..led.key
      BY <2>5, <3>1 DEF WithinDay
    <3>2. CASE d \in (led.key + 1)..Day(now)
      BY <2>2, <2>5, <2>6, <3>2, FS_EmptySet
    <3> QED
      BY <2>1, <2>2, <3>1, <3>2
  <2>9. \A s \in new.inflight : Day(s.at) <= new.key
    BY <2>1, <2>2, <2>3
  <2>10. \A c \in C : Day(c.at) <= new.key
    BY <2>1, <2>2, <2>4
  <2>11. WithinDay(new, C)
    BY <2>7, <2>8, <2>9, <2>10 DEF WithinDay
  <2> QED
    BY <2>11 DEF new
<1> QED
  BY <1>1, <1>2

(* Unwinding gives back to the day what it counted for the reservations.   *)
LEMMA UnwoundWithinDay ==
    ASSUME NEW led \in Ledgers, IsFiniteSet(led.inflight),
           NEW C \in SUBSET Payments, IsFiniteSet(C),
           Unique(led, C), WithinDay(led, C),
           NEW gone \in SUBSET led.inflight, NEW v \in Nat
    PROVE  WithinDay(Unwound(led, gone, v), C)
<1> DEFINE less == Unwound(led, gone, v)
           back == {s \in gone : Day(s.at) = led.key}
           owners == {s.owner : s \in back}
           W == owners \X (1..Requests)
           n == Cardinality(back)
<1>1. less \in Ledgers /\ less.inflight = led.inflight \ gone
  BY UnwoundFacts
<1>2. less.key = led.key /\ less.day = Less(led.day, Requests * n)
  BY DEF Unwound, Ledgers
<1>3. IsFiniteSet(back) /\ n \in Nat
  <2>1. back \in SUBSET led.inflight
    OBVIOUS
  <2> QED
    BY <2>1, FS_Subset, FS_CardinalityType
<1>4. IsFiniteSet(owners) /\ Cardinality(owners) = n
  <2> DEFINE g == [s \in back |-> s.owner]
  <2>1. g \in [back -> owners] /\ \A o \in owners : \E s \in back : g[s] = o
    OBVIOUS
  <2>2. \A s, t \in back : g[s] = g[t] => s = t
    BY DEF Unique
  <2> HIDE DEF g, owners, back
  <2>3. g \in Bijection(back, owners)
    BY <2>1, <2>2 DEF Bijection, Injection, IsInjective, Surjection
  <2>4. ExistsBijection(back, owners)
    BY <2>3 DEF ExistsBijection
  <2> QED
    BY <1>3, <2>4, FS_Bijection DEF n
<1>5. Cardinality(W) = Requests * n
  <2>1. Requests \in Nat /\ 1 \in Int /\ Requests \in Int
    BY QuotaAssumption
  <2>2. IsFiniteSet(1..Requests) /\ Cardinality(1..Requests) = Requests
    <3>1. /\ IsFiniteSet(1..Requests)
          /\ Cardinality(1..Requests) = IF 1 > Requests THEN 0 ELSE Requests - 1 + 1
      BY <2>1, FS_Interval
    <3> QED
      BY <2>1, <3>1
  <2> HIDE DEF owners, n
  <2>3. Cardinality(W) = Cardinality(owners) * Cardinality(1..Requests)
    BY <1>4, <2>2, FS_Product, Zenon
  <2>4. Cardinality(W) = n * Requests
    BY <1>4, <2>2, <2>3, Zenon
  <2> QED
    BY <1>3, <2>1, <2>4
<1>6. \A s \in led.inflight : s \in Reservations
  BY DEF Ledgers
<1>7. W \in SUBSET Counted(led, C, led.key)
  <2> SUFFICES ASSUME NEW u \in W PROVE u \in HeldOn(led, led.key)
    BY DEF Counted
  <2>1. PICK s \in back : u \in {s.owner} \X (1..Requests)
    OBVIOUS
  <2>2. s \in led.inflight /\ Day(s.at) = led.key /\ u \in Units(s.owner, Requests)
    BY <2>1 DEF Units
  <2> QED
    BY <2>2, HeldOnFacts
<1>8. ASSUME NEW d, NEW u \in Counted(less, C, d)
      PROVE  /\ u \in Counted(led, C, d)
             /\ \A s \in gone : u[1] # s.owner
  <2>1. CASE u \in HeldOn(less, d)
    <3>1. PICK t \in less.inflight : Day(t.at) = d /\ u \in Units(t.owner, Requests)
      BY <2>1, HeldOnFacts
    <3>2. t \in led.inflight /\ t \notin gone
      BY <1>1
    <3>3. u[1] = t.owner
      BY <3>1, UnitsFacts, QuotaAssumption
    <3>4. u \in HeldOn(led, d)
      BY <3>1, <3>2, HeldOnFacts
    <3> QED
      BY <3>2, <3>3, <3>4 DEF Counted, Unique
  <2>2. CASE u \in UnitsPaid(C, d)
    <3>1. PICK c \in C : Day(c.at) = d /\ u \in Units(c.owner, c.paid)
      BY <2>2, UnitsPaidFacts
    <3>2. u[1] = c.owner
      BY <3>1, UnitsFacts DEF Payments
    <3> QED
      BY <2>2, <3>2 DEF Counted, Unique
  <2> QED
    BY <2>1, <2>2 DEF Counted
<1>9. \A d \in 0..led.key : Counted(less, C, d) \subseteq Counted(led, C, d)
  BY <1>8
<1>10. W \cap Counted(less, C, led.key) = {}
  <2> SUFFICES ASSUME NEW u \in W, u \in Counted(less, C, led.key) PROVE FALSE
    OBVIOUS
  <2>1. u[1] \in owners
    OBVIOUS
  <2>2. PICK s \in back : u[1] = s.owner
    BY <2>1
  <2> QED
    BY <1>8, <2>2
<1>11. less.day >= led.day - Cardinality(W)
  <2>1. Requests * n \in Nat /\ led.day \in Nat
    BY <1>3, ProductNat, QuotaAssumption DEF Ledgers
  <2> HIDE DEF n, W, less
  <2> QED
    BY <1>2, <1>5, <2>1 DEF Less
<1>12. /\ less.inflight \subseteq led.inflight
       /\ \A c \in C : Day(c.at) <= led.key
  BY <1>1 DEF WithinDay
<1> HIDE DEF less, W
<1>13. WithinDay(less, C)
  BY <1>1, <1>2, <1>7, <1>9, <1>10, <1>11, <1>12, DayShrinks
<1> QED
  BY <1>13 DEF less

(* settle leaves of a reservation what was sent.                           *)
LEMMA CorrectedWithinDay ==
    ASSUME NEW led \in Ledgers, IsFiniteSet(led.inflight),
           NEW C \in SUBSET Payments, IsFiniteSet(C),
           Unique(led, C), WithinDay(led, C),
           NEW s \in led.inflight, NEW actual \in Nat, actual <= Requests,
           NEW c \in Payments, c.owner = s.owner, c.at = s.at, c.paid = actual,
           Corrected(led, s, actual) \in Ledgers
    PROVE  WithinDay(Corrected(led, s, actual), C \cup {c})
<1> DEFINE less == Corrected(led, s, actual)
           D == C \cup {c}
           W == IF Day(s.at) = led.key
                THEN {s.owner} \X ((actual + 1)..Requests) ELSE {}
<1>1. Requests \in Nat /\ led.day \in Nat /\ s \in Reservations
  BY QuotaAssumption DEF Ledgers
<1>2. /\ less.inflight = led.inflight \ {s} /\ less.key = led.key
      /\ less.day = IF Day(s.at) = led.key THEN Less(led.day + actual, Requests)
                    ELSE led.day
  BY DEF Corrected, Ledgers
<1>3. ASSUME NEW d, NEW u \in Counted(less, D, d)
      PROVE  /\ u \in Counted(led, C, d)
             /\ u[1] = s.owner => u[2] <= actual
  <2>1. CASE u \in HeldOn(less, d)
    <3>1. PICK t \in less.inflight : Day(t.at) = d /\ u \in Units(t.owner, Requests)
      BY <2>1, HeldOnFacts
    <3>2. t \in led.inflight /\ t # s
      BY <1>2
    <3>3. u[1] = t.owner
      BY <1>1, <3>1, UnitsFacts
    <3>4. u \in HeldOn(led, d)
      BY <3>1, <3>2, HeldOnFacts
    <3> QED
      BY <3>2, <3>3, <3>4 DEF Counted, Unique
  <2>2. CASE u \in UnitsPaid(D, d)
    <3>1. PICK x \in D : Day(x.at) = d /\ u \in Units(x.owner, x.paid)
      BY <2>2, UnitsPaidFacts
    <3>2. CASE x \in C
      <4>1. u \in UnitsPaid(C, d)
        BY <3>1, <3>2, UnitsPaidFacts
      <4>2. u[1] = x.owner
        BY <3>1, <3>2, UnitsFacts DEF Payments
      <4> QED
        BY <3>2, <4>1, <4>2 DEF Counted, Unique
    <3>3. CASE x = c
      <4>1. u \in Units(s.owner, actual) /\ Day(s.at) = d
        BY <3>1, <3>3
      <4>2. u \in Units(s.owner, Requests)
        BY <1>1, <4>1, UnitsFacts
      <4>3. u \in HeldOn(led, d)
        BY <4>1, <4>2, HeldOnFacts
      <4>4. u[2] <= actual
        BY <4>1 DEF Units
      <4> QED
        BY <4>3, <4>4 DEF Counted
    <3> QED
      BY <3>2, <3>3
  <2> QED
    BY <2>1, <2>2 DEF Counted
<1>4. \A d \in 0..led.key : Counted(less, D, d) \subseteq Counted(led, C, d)
  BY <1>3
<1>5. W \in SUBSET Counted(led, C, led.key)
  <2> SUFFICES ASSUME NEW u \in W PROVE u \in HeldOn(led, led.key)
    BY DEF Counted
  <2>1. Day(s.at) = led.key /\ u \in {s.owner} \X ((actual + 1)..Requests)
    OBVIOUS
  <2>2. u \in Units(s.owner, Requests)
    BY <1>1, <2>1 DEF Units
  <2> QED
    BY <2>1, <2>2, HeldOnFacts
<1>6. W \cap Counted(less, D, led.key) = {}
  <2> SUFFICES ASSUME NEW u \in W, u \in Counted(less, D, led.key) PROVE FALSE
    OBVIOUS
  <2>1. u \in {s.owner} \X ((actual + 1)..Requests)
    OBVIOUS
  <2>2. u[1] = s.owner /\ u[2] \in (actual + 1)..Requests
    BY <2>1
  <2>3. u[2] <= actual
    BY <1>3, <2>2
  <2> QED
    BY <1>1, <2>2, <2>3
<1>7. less.day >= led.day - Cardinality(W)
  <2>1. CASE Day(s.at) = led.key
    <3>1. IsFiniteSet({s.owner}) /\ Cardinality({s.owner}) = 1
      BY FS_Singleton
    <3>2. /\ IsFiniteSet((actual + 1)..Requests)
          /\ Cardinality((actual + 1)..Requests) = Requests - actual
      <4>1. actual + 1 \in Int /\ Requests \in Int
        BY <1>1
      <4>2. /\ IsFiniteSet((actual + 1)..Requests)
            /\ Cardinality((actual + 1)..Requests) =
                IF actual + 1 > Requests THEN 0 ELSE Requests - (actual + 1) + 1
        BY <4>1, FS_Interval
      <4> QED
        BY <1>1, <4>2
    <3>3. Cardinality({s.owner} \X ((actual + 1)..Requests)) =
            Cardinality({s.owner}) * Cardinality((actual + 1)..Requests)
      BY <3>1, <3>2, FS_Product, Zenon
    <3>4. Cardinality({s.owner} \X ((actual + 1)..Requests)) = 1 * (Requests - actual)
      BY <3>1, <3>2, <3>3, Zenon
    <3>5. Cardinality(W) = Requests - actual
      BY <1>1, <2>1, <3>4
    <3>6. less.day = Less(led.day + actual, Requests)
      BY <1>2, <2>1
    <3> HIDE DEF W, less
    <3> QED
      BY <1>1, <3>5, <3>6 DEF Less
  <2>2. CASE Day(s.at) # led.key
    <3>1. Cardinality(W) = 0
      BY <2>2, FS_EmptySet
    <3> HIDE DEF W, less
    <3> QED
      BY <1>1, <1>2, <2>2, <3>1
  <2> QED
    BY <2>1, <2>2
<1>8. /\ less.inflight \subseteq led.inflight /\ D \in SUBSET Payments
      /\ less \in Ledgers /\ \A x \in D : Day(x.at) <= led.key
  BY <1>2 DEF WithinDay
<1> HIDE DEF less, W, D
<1>9. WithinDay(less, D)
  BY <1>2, <1>4, <1>5, <1>6, <1>7, <1>8, DayShrinks
<1> QED
  BY <1>9 DEF less, D

(* A reservation is made when the day has room for all of it.              *)
LEMMA ReservedWithinDay ==
    ASSUME NEW led \in Ledgers, IsFiniteSet(led.inflight),
           NEW C \in SUBSET Payments, IsFiniteSet(C), WithinDay(led, C),
           NEW owner \in Owners, NEW now \in Nat,
           led.key = Day(now), led.day + Requests <= Rpd
    PROVE  WithinDay(Reserved(led, owner, now), C)
<1> DEFINE more == Reserved(led, owner, now)
           new == MkReservation(owner, now, led.avail)
<1>1. /\ more \in Ledgers /\ more.inflight = led.inflight \cup {new}
      /\ new \in Reservations /\ new.owner = owner /\ new.at = now
  BY ReservedFacts
<1>2. more.key = led.key /\ more.day = led.day + Requests
  BY DEF Reserved, Turned, Ledgers
<1>3. Requests \in Nat /\ led.day \in Nat /\ led.key \in Nat /\ Rpd \in Nat
  BY QuotaAssumption DEF Ledgers
<1> HIDE DEF more, new
<1>4. ASSUME NEW d, NEW u
      PROVE  u \in Counted(more, C, d) <=>
                \/ u \in Counted(led, C, d)
                \/ d = Day(now) /\ u \in Units(owner, Requests)
  <2>1. u \in HeldOn(more, d) <=>
            \/ u \in HeldOn(led, d)
            \/ d = Day(now) /\ u \in Units(owner, Requests)
    <3>1. CASE u \in HeldOn(more, d)
      <4>1. PICK s \in more.inflight : Day(s.at) = d /\ u \in Units(s.owner, Requests)
        BY <3>1, HeldOnFacts
      <4>2. CASE s \in led.inflight
        <5>1. u \in HeldOn(led, d)
          BY <4>1, <4>2, HeldOnFacts
        <5> QED
          BY <3>1, <5>1
      <4>3. CASE s = new
        BY <1>1, <3>1, <4>1, <4>3
      <4> QED
        BY <1>1, <4>2, <4>3
    <3>2. ASSUME u \in HeldOn(led, d) PROVE u \in HeldOn(more, d)
      <4>1. PICK s \in led.inflight : Day(s.at) = d /\ u \in Units(s.owner, Requests)
        BY <3>2, HeldOnFacts
      <4>2. s \in more.inflight
        BY <1>1
      <4> QED
        BY <4>1, <4>2, HeldOnFacts
    <3>3. ASSUME d = Day(now), u \in Units(owner, Requests) PROVE u \in HeldOn(more, d)
      <4>1. new \in more.inflight
        BY <1>1
      <4> QED
        BY <1>1, <3>3, <4>1, HeldOnFacts
    <3> QED
      BY <3>1, <3>2, <3>3
  <2> QED
    BY <2>1 DEF Counted
<1>5. Cardinality(Counted(more, C, led.key)) <= led.day + Requests
  <2> DEFINE U == Counted(led, C, led.key)
             V == Units(owner, Requests)
  <2>1. IsFiniteSet(U) /\ Cardinality(U) \in Nat /\ Cardinality(U) <= led.day
    BY CountedFinite DEF WithinDay
  <2>2. IsFiniteSet(V) /\ Cardinality(V) = Requests
    BY <1>3, UnitsFacts
  <2>3. Counted(more, C, led.key) = U \cup V
    BY <1>4
  <2> HIDE DEF U, V
  <2>4. Cardinality(U \cup V) = Cardinality(U) + Cardinality(V) - Cardinality(U \cap V)
    BY <2>1, <2>2, FS_Union
  <2>5. Cardinality(U \cap V) \in Nat
    BY <2>1, FS_Intersection, FS_CardinalityType
  <2> QED
    BY <1>3, <2>1, <2>2, <2>3, <2>4, <2>5
<1>6. ASSUME NEW d \in 0..more.key PROVE Cardinality(Counted(more, C, d)) <= Rpd
  <2>1. CASE d = led.key
    <3>1. IsFiniteSet(Counted(more, C, d))
      <4>1. IsFiniteSet(more.inflight)
        BY <1>1, FS_AddElement
      <4> QED
        BY <1>1, <4>1, CountedFinite
    <3>2. Cardinality(Counted(more, C, d)) \in Nat
      BY <3>1, FS_CardinalityType
    <3> QED
      BY <1>3, <1>5, <2>1, <3>2
  <2>2. CASE d # led.key
    <3>1. Counted(more, C, d) = Counted(led, C, d)
      BY <1>4, <2>2
    <3> QED
      BY <1>2, <3>1 DEF WithinDay
  <2> QED
    BY <2>1, <2>2
<1>7. \A s \in more.inflight : Day(s.at) <= more.key
  BY <1>1, <1>2, <1>3 DEF WithinDay
<1>8. WithinDay(more, C)
  BY <1>2, <1>5, <1>6, <1>7 DEF WithinDay
<1> QED
  BY <1>8 DEF more

-----------------------------------------------------------------------------
(* The operations of LLMBudget keep the accounts.                          *)

(* A ledger that is sound by itself, with the calls settled on it.         *)
Books(led, C) ==
    /\ led \in Ledgers /\ RouteWithin(led)
    /\ C \in SUBSET Payments /\ IsFiniteSet(C)
    /\ Accounted(led, C)

LEMMA TurnedAccounted ==
    ASSUME NEW led, NEW C, Books(led, C),
           NEW now \in Nat, Prompt => led.key <= Day(now)
    PROVE  /\ Books(Turned(led, now), C)
           /\ led.exists => Turned(led, now).key = Day(now)
<1> DEFINE new == Turned(led, now)
<1>1. /\ led \in Ledgers /\ RouteWithin(led) /\ C \in SUBSET Payments
      /\ IsFiniteSet(C) /\ Accounted(led, C) /\ IsFiniteSet(led.inflight)
  BY DEF Books, RouteWithin
<1>2. /\ new \in Ledgers /\ new.inflight = led.inflight /\ new.exists = led.exists
      /\ new.avail = led.avail
  BY <1>1, TurnedFacts
<1>3. RouteWithin(new)
  BY <1>1, <1>2 DEF RouteWithin
<1>4. Unique(new, C)
  BY <1>1, <1>2 DEF Accounted, Unique
<1>5. Blank(new, C)
  <2>1. new.day = led.day \/ new.day = 0
    BY <1>1 DEF Turned, Ledgers
  <2> QED
    BY <1>1, <1>2, <2>1 DEF Accounted, Blank
<1>6. Interval > 0 => OnSchedule(new, C)
  BY <1>1, <1>2 DEF Accounted, OnSchedule, Items, HeldItems
<1>7. Prompt => WithinDay(new, C)
  BY <1>1, TurnedWithinDay DEF Accounted
<1>8. led.exists => new.key = Day(now)
  BY <1>1 DEF Turned, Ledgers
<1> HIDE DEF new
<1>9. Accounted(new, C)
  BY <1>4, <1>5, <1>6, <1>7 DEF Accounted
<1>10. Books(new, C)
  BY <1>1, <1>2, <1>3, <1>9 DEF Books
<1> QED
  BY <1>8, <1>10 DEF new

LEMMA UnwoundAccounted ==
    ASSUME NEW led, NEW C, Books(led, C),
           NEW gone \in SUBSET led.inflight, NEW v \in Restored(led, gone)
    PROVE  /\ Books(Unwound(led, gone, v), C)
           /\ Unwound(led, gone, v).inflight = led.inflight \ gone
           /\ Unwound(led, gone, v).exists = led.exists
           /\ Unwound(led, gone, v).key = led.key
<1> DEFINE less == Unwound(led, gone, v)
<1>1. /\ led \in Ledgers /\ RouteWithin(led) /\ C \in SUBSET Payments
      /\ IsFiniteSet(C) /\ Accounted(led, C) /\ IsFiniteSet(led.inflight)
  BY DEF Books, RouteWithin
<1>2. v \in Nat
  BY <1>1, RestoredNat
<1> DEFINE n == Requests * Cardinality({s \in gone : Day(s.at) = led.key})
<1>3. n \in Nat
  <2>1. IsFiniteSet({s \in gone : Day(s.at) = led.key})
    BY <1>1, FS_Subset
  <2>2. Cardinality({s \in gone : Day(s.at) = led.key}) \in Nat
    BY <2>1, FS_CardinalityType
  <2> QED
    BY <2>2, QuotaAssumption
<1>4. /\ less \in Ledgers /\ less.inflight = led.inflight \ gone
      /\ less.exists = led.exists /\ less.key = led.key /\ less.avail = v
      /\ less.day = Less(led.day, n)
  <2>1. less = [led EXCEPT !.inflight = led.inflight \ gone, !.avail = v,
                           !.day = Less(led.day, n)]
    BY DEF Unwound
  <2> HIDE DEF less, n
  <2>2. Less(led.day, n) \in Nat
    BY <1>1, <1>3, LessNat DEF Ledgers
  <2> QED
    BY <1>1, <1>2, <2>1, <2>2 DEF Ledgers
<1>5. Interval > 0 => OnSchedule(less, C)
  BY <1>1, UnwoundOnSchedule DEF Accounted
<1>6. Prompt => WithinDay(less, C)
  BY <1>1, <1>2, UnwoundWithinDay DEF Accounted
<1> HIDE DEF less
<1>7. RouteWithin(less)
  <2>1. less.inflight \subseteq led.inflight
    BY <1>4
  <2> QED
    BY <1>1, <1>4, <2>1, RouteShrinks
<1>8. Unique(less, C)
  BY <1>1, <1>4 DEF Accounted, Unique
<1>9. Blank(less, C)
  <2> SUFFICES ASSUME ~led.exists PROVE less.avail = 0 /\ less.day = 0 /\ C = {}
    BY <1>4 DEF Blank
  <2>1. led.inflight = {} /\ led.avail = 0 /\ led.day = 0 /\ C = {}
    BY <1>1 DEF RouteWithin, Accounted, Blank
  <2>2. gone = {}
    BY <2>1
  <2>3. v = led.avail
    BY <2>2 DEF Restored
  <2>4. {s \in gone : Day(s.at) = led.key} = {}
    BY <2>2
  <2>5. n = 0
    <3>1. Cardinality({s \in gone : Day(s.at) = led.key}) = 0
      BY <2>4, FS_EmptySet, Zenon
    <3>2. n = Requests * 0
      BY <3>1
    <3> HIDE DEF n
    <3> QED
      BY <3>2, QuotaAssumption
  <2> QED
    BY <1>4, <2>1, <2>3, <2>5 DEF Less
<1>10. Accounted(less, C)
  BY <1>5, <1>6, <1>8, <1>9 DEF Accounted
<1>11. Books(less, C)
  BY <1>1, <1>4, <1>7, <1>10 DEF Books
<1> QED
  BY <1>4, <1>11 DEF less

(* _ledger.                                                                *)
LEMMA RolledAccounted ==
    ASSUME NEW led, NEW C, Books(led, C),
           NEW now \in Nat, Prompt => led.key <= Day(now),
           NEW v \in Restored(led, Expired(led, now))
    PROVE  /\ Books(Rolled(led, now, v), C)
           /\ Rolled(led, now, v).inflight = led.inflight \ Expired(led, now)
           /\ Rolled(led, now, v).exists = led.exists
           /\ led.exists => Rolled(led, now, v).key = Day(now)
           /\ ~led.exists => Rolled(led, now, v).key = led.key
<1> DEFINE new == Turned(led, now)
           gone == Expired(led, now)
<1>1. led \in Ledgers
  BY DEF Books
<1>2. /\ Books(new, C) /\ (led.exists => new.key = Day(now))
      /\ new.inflight = led.inflight /\ new.exists = led.exists
      /\ new.avail = led.avail
  BY <1>1, TurnedAccounted, TurnedFacts
<1>3. ~led.exists => new.key = led.key
  BY DEF Turned
<1>4. Rolled(led, now, v) = Unwound(new, gone, v)
  BY DEF Rolled
<1> HIDE DEF new
<1>5. gone \in SUBSET new.inflight
  BY <1>2 DEF Expired
<1>6. v \in Restored(new, gone)
  BY <1>2 DEF Restored
<1> HIDE DEF gone
<1>7. /\ Books(Unwound(new, gone, v), C)
      /\ Unwound(new, gone, v).inflight = new.inflight \ gone
      /\ Unwound(new, gone, v).exists = new.exists
      /\ Unwound(new, gone, v).key = new.key
  BY <1>2, <1>5, <1>6, UnwoundAccounted
<1> QED
  BY <1>2, <1>3, <1>4, <1>7 DEF gone

(* _reserve on a route that available has accepted.                        *)
LEMMA ReservedAccounted ==
    ASSUME NEW led, NEW C, Books(led, C), NEW owner \in Owners, NEW now \in Nat,
           Own(led, owner) = {}, \A c \in C : c.owner # owner,
           RouteWithin(Reserved(led, owner, now)),
           led.exists => /\ led.key = Day(now) /\ led.avail <= now
                         /\ led.day + Requests <= Rpd
    PROVE  Books(Reserved(led, owner, now), C) /\ Reserved(led, owner, now).key = Day(now)
<1> DEFINE more == Reserved(led, owner, now)
           there == Turned([led EXCEPT !.exists = TRUE], now)
           new == MkReservation(owner, now, led.avail)
<1>1. /\ led \in Ledgers /\ RouteWithin(led) /\ C \in SUBSET Payments
      /\ IsFiniteSet(C) /\ Accounted(led, C) /\ IsFiniteSet(led.inflight)
  BY DEF Books, RouteWithin
<1>2. /\ more \in Ledgers /\ more.inflight = led.inflight \cup {new} /\ more.exists
      /\ new.owner = owner
  BY <1>1, ReservedFacts
<1>3. Unique(more, C)
  BY <1>1, <1>2 DEF Accounted, Unique, Own
<1>4. Blank(more, C)
  BY <1>2 DEF Blank
<1>5. led.avail \in Nat /\ led.avail <= now
  BY <1>1 DEF Accounted, Blank, Ledgers
<1>6. Interval > 0 => OnSchedule(more, C)
  BY <1>1, <1>5, ReservedOnSchedule DEF Accounted
<1>7. /\ there \in Ledgers /\ there.inflight = led.inflight /\ there.avail = led.avail
      /\ there.key = Day(now) /\ there.exists
      /\ there.day + Requests <= Rpd
  <2> DEFINE base == [led EXCEPT !.exists = TRUE]
  <2>1. /\ base \in Ledgers /\ base.inflight = led.inflight /\ base.avail = led.avail
        /\ base.exists /\ base.key = led.key /\ base.day = led.day
    BY <1>1 DEF Ledgers
  <2> HIDE DEF base
  <2>2. /\ Turned(base, now) \in Ledgers /\ Turned(base, now).inflight = led.inflight
        /\ Turned(base, now).avail = led.avail /\ Turned(base, now).exists
    BY <2>1, TurnedFacts
  <2>3. /\ Turned(base, now).key = Day(now)
        /\ Turned(base, now).day = IF led.key = Day(now) THEN led.day ELSE 0
    BY <2>1 DEF Turned, Ledgers
  <2>4. led.day + Requests <= Rpd \/ led.day = 0
    BY <1>1 DEF Accounted, Blank, Ledgers
  <2>5. there = Turned(base, now) /\ led.exists \in BOOLEAN
    BY <1>1 DEF base, Ledgers
  <2> HIDE DEF there
  <2> QED
    BY <1>1, <2>2, <2>3, <2>4, <2>5, QuotaAssumption
<1>8. Prompt => WithinDay(there, C)
  <2> SUFFICES ASSUME Prompt PROVE WithinDay(there, C)
    OBVIOUS
  <2>1. WithinDay(led, C)
    BY <1>1 DEF Accounted
  <2>2. CASE led.exists
    <3>1. led.exists = TRUE
      BY <1>1, <2>2 DEF Ledgers
    <3>2. [led EXCEPT !.exists = TRUE] = led
      BY <1>1, <3>1 DEF Ledgers
    <3>3. there = led
      BY <2>2, <3>2 DEF Turned
    <3> QED
      BY <2>1, <3>3
  <2>3. CASE ~led.exists
    <3>1. C = {} /\ led.inflight = {}
      BY <1>1, <2>3 DEF Accounted, Blank, RouteWithin
    <3> HIDE DEF there
    <3>2. there.inflight = {} /\ there.day \in Nat /\ there.key \in Nat
      BY <1>7, <3>1 DEF Ledgers
    <3>3. \A d, u : u \notin Counted(there, C, d)
      BY <3>1, <3>2, HeldOnFacts, UnitsPaidFacts DEF Counted
    <3>4. \A d : Counted(there, C, d) = {}
      BY <3>3
    <3> QED
      BY <3>1, <3>2, <3>4, FS_EmptySet, QuotaAssumption DEF WithinDay
  <2> QED
    BY <2>2, <2>3
<1>9. more = Reserved(there, owner, now)
  <2>1. more = [there EXCEPT !.day = there.day + Requests,
                    !.avail = Schedule(led.avail, Requests, now),
                    !.inflight = there.inflight \cup {new}]
    BY DEF Reserved
  <2> HIDE DEF there, more
  <2>2. [there EXCEPT !.exists = TRUE] = there
    BY <1>7 DEF Ledgers
  <2>3. Turned([there EXCEPT !.exists = TRUE], now) = there
    BY <1>7, <2>2 DEF Turned
  <2> QED
    BY <1>7, <2>1, <2>3 DEF Reserved
<1>10. Prompt => WithinDay(more, C)
  <2> HIDE DEF there, more
  <2>1. IsFiniteSet(there.inflight)
    BY <1>1, <1>7
  <2> QED
    BY <1>1, <1>7, <1>8, <1>9, <2>1, ReservedWithinDay
<1>11. more.key = Day(now)
  <2>1. more = [there EXCEPT !.day = there.day + Requests,
                    !.avail = Schedule(led.avail, Requests, now),
                    !.inflight = there.inflight \cup {new}]
    BY DEF Reserved
  <2> HIDE DEF there, more
  <2> QED
    BY <1>7, <2>1 DEF Ledgers
<1> HIDE DEF more
<1>12. Accounted(more, C)
  BY <1>3, <1>4, <1>6, <1>10 DEF Accounted
<1>13. Books(more, C)
  BY <1>1, <1>2, <1>12 DEF Books, more
<1> QED
  BY <1>11, <1>13 DEF more

(* settle: the reservation, if it was not reaped, becomes a payment.       *)
Receipts(led, owner, r, actual) ==
    {[owner |-> s.owner, route |-> r, at |-> s.at, paid |-> actual] :
        s \in Own(led, owner)}

LEMMA SettledAccounted ==
    ASSUME NEW led, NEW C, Books(led, C), NEW owner \in Owners,
           NEW actual \in Nat, actual <= Requests, NEW r \in Routes
    PROVE  /\ Books(Settled(led, owner, actual), C \cup Receipts(led, owner, r, actual))
           /\ Settled(led, owner, actual).key = led.key
<1> DEFINE P == Receipts(led, owner, r, actual)
<1>1. /\ led \in Ledgers /\ RouteWithin(led) /\ C \in SUBSET Payments
      /\ IsFiniteSet(C) /\ Accounted(led, C) /\ IsFiniteSet(led.inflight)
      /\ Unique(led, C)
  BY DEF Books, RouteWithin, Accounted
<1>2. CASE Own(led, owner) = {}
  <2>1. P = {} /\ Settled(led, owner, actual) = led
    BY <1>2 DEF Settled, Receipts
  <2>2. C \cup P = C
    BY <2>1
  <2> QED
    BY <2>1, <2>2
<1>3. CASE Own(led, owner) # {}
  <2> DEFINE s == CHOOSE u \in Own(led, owner) : TRUE
             c == [owner |-> s.owner, route |-> r, at |-> s.at, paid |-> actual]
             less == Settled(led, owner, actual)
  <2>1. s \in Own(led, owner)
    BY <1>3
  <2>2. less = Corrected(led, s, actual)
    BY <1>3 DEF Settled
  <2> HIDE DEF s, less
  <2>3. s \in led.inflight /\ s.owner = owner /\ s \in Reservations
    BY <1>1, <2>1 DEF Own, Ledgers
  <2>4. \A u \in Own(led, owner) : u = s
    BY <1>1, <2>3 DEF Own, Unique
  <2>5. c \in Payments /\ c.owner = s.owner /\ c.at = s.at /\ c.paid = actual
    BY <2>3 DEF Payments, Reservations
  <2>6. P = {c}
    BY <2>1, <2>4 DEF Receipts
  <2> HIDE DEF c
  <2>7. Trims(less, led, owner)
    BY <1>1, SettledFacts DEF less
  <2>8. /\ less \in Ledgers /\ less.exists = led.exists
        /\ less.inflight = led.inflight \ {s} /\ less.key = led.key
    BY <1>1, <2>2, <2>7 DEF Trims, Corrected, Ledgers
  <2>9. less.inflight \subseteq led.inflight
    BY <2>8
  <2>10. RouteWithin(less)
    BY <1>1, <2>8, <2>9, RouteShrinks
  <2>11. C \cup {c} \in SUBSET Payments /\ IsFiniteSet(C \cup {c})
    BY <1>1, <2>5, FS_AddElement
  <2>12. Unique(less, C \cup {c})
    BY <1>1, <2>3, <2>5, <2>8 DEF Unique
  <2>13. Blank(less, C \cup {c})
    <3>1. led.exists
      BY <1>1, <2>3 DEF RouteWithin
    <3> QED
      BY <2>8, <3>1 DEF Blank
  <2>14. Interval > 0 => OnSchedule(less, C \cup {c})
    BY <1>1, <2>2, <2>3, <2>5, CorrectedOnSchedule DEF Accounted
  <2>15. Prompt => WithinDay(less, C \cup {c})
    <3> SUFFICES ASSUME Prompt PROVE WithinDay(less, C \cup {c})
      OBVIOUS
    <3>1. WithinDay(led, C)
      BY <1>1 DEF Accounted
    <3>2. Corrected(led, s, actual) \in Ledgers
      BY <2>2, <2>8
    <3> QED
      BY <1>1, <2>2, <2>3, <2>5, <3>1, <3>2, CorrectedWithinDay
  <2>16. Accounted(less, C \cup {c})
    BY <2>12, <2>13, <2>14, <2>15 DEF Accounted
  <2>17. Books(less, C \cup {c})
    BY <2>8, <2>10, <2>11, <2>16 DEF Books
  <2> QED
    BY <2>6, <2>8, <2>17 DEF less
<1> QED
  BY <1>2, <1>3

(* release unwinds the caller's own reservation.                           *)
LEMMA ReleasedAccounted ==
    ASSUME NEW led, NEW C, Books(led, C), NEW owner \in Owners
    PROVE  Books(Released(led, owner), C) /\ Released(led, owner).key = led.key
<1> DEFINE gone == Own(led, owner)
           v == IF \E s \in gone : After(s) = led.avail
                THEN (CHOOSE s \in gone : TRUE).before ELSE led.avail
<1>1. led \in Ledgers /\ Unique(led, C)
  BY DEF Books, Accounted
<1>2. gone \in SUBSET led.inflight /\ \A s, t \in gone : s = t
  BY <1>1 DEF Own, Unique
<1>3. Released(led, owner) = Unwound(led, gone, v)
  BY DEF Released
<1>4. v \in Restored(led, gone)
  <2>1. CASE \E s \in gone : After(s) = led.avail
    <3>1. PICK s \in gone : After(s) = led.avail
      BY <2>1
    <3>2. (CHOOSE u \in gone : TRUE) = s
      BY <1>2
    <3>3. gone = {s} /\ v = s.before
      BY <1>2, <2>1, <3>2
    <3> HIDE DEF gone, v
    <3> DEFINE linked == {run \in (SUBSET gone) \ {{}} :
                    \A t \in run : \/ After(t) = led.avail
                                   \/ \E u \in run : u # t /\ u.before = After(t)}
               ends(run) == {t.before : t \in {u \in run :
                                \A w \in run : w # u => After(w) # u.before}}
    <3>4. {s} \in linked
      BY <3>1, <3>3
    <3>5. s.before \in ends({s})
      OBVIOUS
    <3>6. v \in UNION {ends(run) : run \in linked}
      <4> HIDE DEF ends, linked
      <4> QED
        BY <3>3, <3>4, <3>5
    <3> QED
      BY <2>1, <3>6 DEF Restored
  <2>2. CASE ~\E s \in gone : After(s) = led.avail
    BY <2>2 DEF Restored
  <2> QED
    BY <2>1, <2>2
<1> HIDE DEF gone, v
<1> QED
  BY <1>2, <1>3, <1>4, UnwoundAccounted

(* block touches no account.                                               *)
LEMMA BlockedAccounted ==
    ASSUME NEW led, NEW C, Books(led, C), NEW until \in Nat
    PROVE  Books(Blocked(led, until), C) /\ Blocked(led, until).key = led.key
<1> DEFINE new == Blocked(led, until)
<1>1. /\ led \in Ledgers /\ RouteWithin(led) /\ C \in SUBSET Payments
      /\ IsFiniteSet(C) /\ Accounted(led, C)
  BY DEF Books
<1>2. /\ new \in Ledgers /\ new.inflight = led.inflight /\ new.exists = led.exists
      /\ new.avail = led.avail /\ new.day = led.day /\ new.key = led.key
  BY <1>1 DEF Blocked, Ledgers
<1> HIDE DEF new
<1>3. RouteWithin(new)
  BY <1>1, <1>2 DEF RouteWithin
<1>4. Unique(new, C) /\ Blank(new, C)
  BY <1>1, <1>2 DEF Accounted, Unique, Blank
<1>5. Interval > 0 => OnSchedule(new, C)
  BY <1>1, <1>2 DEF Accounted, OnSchedule, Items, HeldItems
<1>6. Prompt => WithinDay(new, C)
  BY <1>1, <1>2 DEF Accounted, WithinDay, Counted, HeldOn
<1>7. Accounted(new, C)
  BY <1>4, <1>5, <1>6 DEF Accounted
<1>8. Books(new, C)
  BY <1>1, <1>2, <1>3, <1>7 DEF Books
<1> QED
  BY <1>2, <1>8 DEF new

-----------------------------------------------------------------------------
(* What a job writes.                                                      *)

Paying(j) == IF job[j].op \in {"settle", "rejected"} THEN Settlement(j) ELSE {}

LEMMA HistoryFacts ==
    ASSUME HistoryInv
    PROVE  /\ LedgerInv /\ clock \in Nat /\ book \in [Routes -> Ledgers] /\ Within(book)
           /\ job \in [Jobs -> JobTypes]
           /\ settled \in SUBSET Payments /\ IsFiniteSet(settled)
           /\ \A r \in Routes : Books(book[r], PaidOn(settled, r))
           /\ \A j \in Jobs : JobHistory(j) /\ BodyInv(j) /\ Owner(j) \in Owners
<1>1. /\ LedgerInv /\ clock \in Nat /\ book \in [Routes -> Ledgers] /\ Within(book)
      /\ job \in [Jobs -> JobTypes]
      /\ settled \in SUBSET Payments /\ IsFiniteSet(settled)
  BY DEF HistoryInv, LedgerInv, TypeOK, Payments
<1>2. ASSUME NEW r \in Routes PROVE Books(book[r], PaidOn(settled, r))
  <2>1. PaidOn(settled, r) \in SUBSET settled
    BY DEF PaidOn
  <2>2. IsFiniteSet(PaidOn(settled, r)) /\ PaidOn(settled, r) \in SUBSET Payments
    BY <1>1, <2>1, FS_Subset
  <2> QED
    BY <1>1, <2>2 DEF Books, HistoryInv, Within
<1>3. \A j \in Jobs : JobHistory(j) /\ BodyInv(j) /\ Owner(j) \in Owners
  BY <1>1 DEF HistoryInv, LedgerInv, Owner, Owners, JobTypes
<1> QED
  BY <1>1, <1>2, <1>3

(* A reservation, or none, as select_and_reserve writes it.                *)
LEMMA SelectedBooks ==
    ASSUME HistoryInv, NEW j \in Jobs, job[j].pc = "put", job[j].op = "reserve",
           book = job[j].seen, NEW q \in Routes
    PROVE  /\ Books(job[j].body[q], PaidOn(settled, q))
           /\ Prompt => job[j].body[q].key <= Day(job[j].now)
           /\ \A s \in job[j].body[q].inflight :
                \/ s \in book[q].inflight
                \/ job[j].route # NoRoute /\ s.owner = Owner(j)
<1> DEFINE now == job[j].now
           r == job[j].route
<1>1. /\ clock \in Nat /\ book \in [Routes -> Ledgers] /\ job[j] \in JobTypes
      /\ JobHistory(j) /\ BodyInv(j) /\ Owner(j) \in Owners
      /\ \A p \in Routes : Books(book[p], PaidOn(settled, p))
  BY HistoryFacts
<1>2. now \in Nat /\ (r \in Routes \/ r = NoRoute)
  BY <1>1 DEF JobTypes
<1>3. Selected(j) /\ Unpaid(j) /\ (Prompt => \A p \in Routes : book[p].key <= Day(now))
  BY <1>1 DEF JobHistory, Computed
<1>4. PICK f \in Avails(book, now) :
        LET b == RolledBook(book, now, f)
        IN IF r = NoRoute THEN job[j].body = b
           ELSE /\ Available(b, r, now)
                /\ \A p \in Routes : Own(b[p], Owner(j)) = {}
                /\ job[j].body = [b EXCEPT ![r] = Reserved(b[r], Owner(j), now)]
  BY <1>3 DEF Selected
<1> HIDE DEF now, r
<1> DEFINE b == RolledBook(book, now, f)
<1>5. ASSUME NEW p \in Routes
      PROVE  /\ Books(b[p], PaidOn(settled, p))
             /\ b[p].inflight \subseteq book[p].inflight
             /\ b[p].exists => b[p].key = Day(now)
             /\ Prompt => b[p].key <= Day(now)
  <2>1. f[p] \in Restored(book[p], Expired(book[p], now))
    BY DEF Avails
  <2>2. b[p] = Rolled(book[p], now, f[p])
    BY DEF RolledBook
  <2>3. Books(book[p], PaidOn(settled, p)) /\ (Prompt => book[p].key <= Day(now))
    BY <1>1, <1>3
  <2>4. /\ Books(Rolled(book[p], now, f[p]), PaidOn(settled, p))
        /\ Rolled(book[p], now, f[p]).inflight = book[p].inflight \ Expired(book[p], now)
        /\ Rolled(book[p], now, f[p]).exists = book[p].exists
        /\ book[p].exists => Rolled(book[p], now, f[p]).key = Day(now)
        /\ ~book[p].exists => Rolled(book[p], now, f[p]).key = book[p].key
    BY <1>2, <2>1, <2>3, RolledAccounted
  <2>5. Day(now) <= Day(now)
    BY <1>2, DayNat
  <2> HIDE DEF b
  <2> QED
    BY <2>2, <2>3, <2>4, <2>5
<1>6. DOMAIN b = Routes
  BY DEF RolledBook
<1>7. CASE r = NoRoute
  <2>1. job[j].body = b
    BY <1>4, <1>7
  <2> HIDE DEF b
  <2> QED
    BY <1>5, <2>1 DEF now
<1>8. CASE r # NoRoute
  <2>1. r \in Routes
    BY <1>2, <1>8
  <2>2. /\ Available(b, r, now) /\ Own(b[r], Owner(j)) = {}
        /\ job[j].body = [b EXCEPT ![r] = Reserved(b[r], Owner(j), now)]
    BY <1>4, <1>8, <2>1
  <2> HIDE DEF b
  <2>3. job[j].body[q] = IF q = r THEN Reserved(b[r], Owner(j), now) ELSE b[q]
    BY <1>6, <2>2
  <2>4. CASE q # r
    BY <1>5, <2>3, <2>4 DEF now
  <2>5. CASE q = r
    <3>1. Books(b[r], PaidOn(settled, r)) /\ b[r] \in Ledgers
      BY <1>5, <2>1 DEF Books
    <3>2. \A c \in PaidOn(settled, r) : c.owner # Owner(j)
      BY <1>3, <1>8 DEF Unpaid, PaidOn, r
    <3>3. RouteWithin(Reserved(b[r], Owner(j), now))
      <4>1. RouteWithin(job[j].body[r])
        BY <1>1, <2>1 DEF BodyInv, Within
      <4> QED
        BY <2>3, <2>5, <4>1
    <3>4. b[r].exists => /\ b[r].key = Day(now) /\ b[r].avail <= now
                         /\ b[r].day + Requests <= Rpd
      <4>1. b[r].avail \in Nat
        BY <3>1 DEF Ledgers
      <4> QED
        BY <1>2, <1>5, <2>1, <2>2, <4>1 DEF Available
    <3>5. /\ Books(Reserved(b[r], Owner(j), now), PaidOn(settled, r))
          /\ Reserved(b[r], Owner(j), now).key = Day(now)
      BY <1>1, <1>2, <2>2, <3>1, <3>2, <3>3, <3>4, ReservedAccounted
    <3>6. /\ Reserved(b[r], Owner(j), now).inflight =
                b[r].inflight \cup {MkReservation(Owner(j), now, b[r].avail)}
          /\ MkReservation(Owner(j), now, b[r].avail).owner = Owner(j)
      BY <1>1, <1>2, <3>1, ReservedFacts
    <3>7. Day(now) <= Day(now)
      BY <1>2, DayNat
    <3> QED
      BY <1>5, <1>8, <2>1, <2>3, <2>5, <3>5, <3>6, <3>7 DEF now, r
  <2> QED
    BY <2>4, <2>5
<1> QED
  BY <1>7, <1>8

(* Another operation; a settlement goes to the account of its route.       *)
LEMMA ChangedBooks ==
    ASSUME HistoryInv, NEW j \in Jobs, job[j].pc = "put", job[j].op # "reserve",
           book = job[j].seen, NEW q \in Routes
    PROVE  /\ Books(job[j].body[q], PaidOn(settled \cup Paying(j), q))
           /\ Prompt => job[j].body[q].key <= Day(job[j].now)
           /\ job[j].body[q].inflight \subseteq book[q].inflight
<1> DEFINE now == job[j].now
           r == job[j].route
<1>1. /\ clock \in Nat /\ book \in [Routes -> Ledgers] /\ job[j] \in JobTypes
      /\ JobHistory(j) /\ BodyInv(j) /\ Owner(j) \in Owners
      /\ \A p \in Routes : Books(book[p], PaidOn(settled, p))
  BY HistoryFacts
<1>2. now \in Nat /\ r \in Routes
  BY <1>1 DEF JobTypes, BodyInv, JobPlaced
<1>3. Changed(j) /\ (Prompt => \A p \in Routes : book[p].key <= Day(now))
  BY <1>1 DEF JobHistory, Computed
<1>4. PICK v \in Restored(book[r], Expired(book[r], now)) :
        job[j].body = [book EXCEPT ![r] = Mutated(j, Rolled(book[r], now, v))]
  BY <1>3 DEF Changed, Outcome, Mutated, Actual
<1> HIDE DEF now
<1> DEFINE led == Rolled(book[r], now, v)
           less == Mutated(j, led)
<1>5. /\ Books(led, PaidOn(settled, r))
      /\ led.inflight = book[r].inflight \ Expired(book[r], now)
      /\ led.exists = book[r].exists
      /\ Prompt => led.key <= Day(now)
  <2>1. Books(book[r], PaidOn(settled, r)) /\ (Prompt => book[r].key <= Day(now))
    BY <1>1, <1>2, <1>3
  <2>2. /\ Books(led, PaidOn(settled, r))
        /\ led.inflight = book[r].inflight \ Expired(book[r], now)
        /\ led.exists = book[r].exists
        /\ book[r].exists => led.key = Day(now)
        /\ ~book[r].exists => led.key = book[r].key
    BY <1>2, <2>1, RolledAccounted
  <2>3. Day(now) <= Day(now)
    BY <1>2, DayNat
  <2> HIDE DEF led
  <2> QED
    BY <2>1, <2>2, <2>3
<1> HIDE DEF led
<1>6. led \in Ledgers /\ RouteWithin(led)
  BY <1>5 DEF Books
<1>7. /\ Books(less, PaidOn(settled, r) \cup Paying(j)) /\ less.key = led.key
      /\ less.inflight \subseteq led.inflight
  <2>1. CASE job[j].op = "block"
    <3>1. less = Blocked(led, job[j].until) /\ job[j].until \in Nat
      BY <1>1, <2>1 DEF Mutated, JobTypes
    <3>2. Books(less, PaidOn(settled, r)) /\ less.key = led.key
      BY <1>5, <3>1, BlockedAccounted
    <3>3. Trims(less, led, Owner(j))
      BY <1>1, <1>6, <3>1, BlockedFacts
    <3>4. PaidOn(settled, r) \cup Paying(j) = PaidOn(settled, r)
      BY <2>1 DEF Paying
    <3> QED
      BY <3>2, <3>3, <3>4 DEF Trims
  <2>2. CASE job[j].op = "release"
    <3>1. less = Released(led, Owner(j))
      BY <2>2 DEF Mutated
    <3>2. Books(less, PaidOn(settled, r)) /\ less.key = led.key
      BY <1>1, <1>5, <3>1, ReleasedAccounted
    <3>3. Trims(less, led, Owner(j))
      BY <1>1, <1>6, <3>1, ReleasedFacts
    <3>4. PaidOn(settled, r) \cup Paying(j) = PaidOn(settled, r)
      BY <2>2 DEF Paying
    <3> QED
      BY <3>2, <3>3, <3>4 DEF Trims
  <2>3. CASE job[j].op \in {"settle", "rejected"}
    <3>1. less = Settled(led, Owner(j), Actual(j))
      BY <2>3 DEF Mutated
    <3>2. job[j].sent \in Nat /\ job[j].sent <= Requests /\ job[j].sent > 0
      BY <1>1, <2>3 DEF JobTypes, JobHistory, BodyInv, JobPlaced
    <3>3. Actual(j) \in Nat /\ Actual(j) <= Requests
      BY <3>2, QuotaAssumption DEF Actual
    <3>4. Paying(j) = Receipts(led, Owner(j), r, Actual(j))
      <4>1. Own(led, Owner(j)) = {u \in Own(book[r], Owner(j)) : u.at + TTL > now}
        <5>1. \A u \in book[r].inflight : u.at \in Nat
          BY <1>1, <1>2 DEF Ledgers, Reservations
        <5>2. \A u \in book[r].inflight : u \in Expired(book[r], now) <=> ~(u.at + TTL > now)
          BY <1>2, <5>1, QuotaAssumption DEF Expired
        <5> QED
          BY <1>5, <5>2 DEF Own
      <4> QED
        BY <2>3, <4>1 DEF Paying, Settlement, Receipts, now
    <3>5. Books(less, PaidOn(settled, r) \cup Paying(j)) /\ less.key = led.key
      BY <1>1, <1>2, <1>5, <3>1, <3>3, <3>4, SettledAccounted
    <3>6. Trims(less, led, Owner(j))
      BY <1>1, <1>6, <3>1, <3>3, SettledFacts
    <3> QED
      BY <3>5, <3>6 DEF Trims
  <2> QED
    BY <1>1, <2>1, <2>2, <2>3 DEF JobTypes
<1> HIDE DEF less
<1>8. \A c \in Paying(j) : c.route = r
  BY DEF Paying, Settlement
<1>9. /\ PaidOn(settled \cup Paying(j), r) = PaidOn(settled, r) \cup Paying(j)
      /\ \A p : p # r => PaidOn(settled \cup Paying(j), p) = PaidOn(settled, p)
  BY <1>8 DEF PaidOn
<1>10. job[j].body[q] = IF q = r THEN less ELSE book[q]
  BY <1>1, <1>4 DEF less, led
<1>11. CASE q = r
  BY <1>5, <1>7, <1>9, <1>10, <1>11 DEF now
<1>12. CASE q # r
  BY <1>1, <1>3, <1>9, <1>10, <1>12 DEF now
<1> QED
  BY <1>11, <1>12

-----------------------------------------------------------------------------
(* The invariant.                                                          *)

LEMMA BlankAccounted ==
    /\ Accounted(NoLedger, {}) /\ NoLedger.key = 0 /\ NoLedger.inflight = {}
<1> DEFINE n == NoLedger
<1>1. /\ n.exists = FALSE /\ n.day = 0 /\ n.key = 0 /\ n.avail = 0 /\ n.inflight = {}
  BY DEF NoLedger
<1> HIDE DEF n
<1>2. Unique(n, {}) /\ Blank(n, {})
  BY <1>1 DEF Unique, Blank
<1>3. Items(n, {}) = {}
  BY <1>1 DEF Items, HeldItems, PaidItems
<1>4. OnSchedule(n, {})
  BY <1>1, <1>3 DEF OnSchedule
<1>5. \A d, u : u \notin Counted(n, {}, d)
  BY <1>1, HeldOnFacts, UnitsPaidFacts DEF Counted
<1>6. \A d : Counted(n, {}, d) = {}
  BY <1>5
<1>7. WithinDay(n, {})
  BY <1>1, <1>6, FS_EmptySet, QuotaAssumption DEF WithinDay
<1>8. Accounted(n, {})
  BY <1>2, <1>4, <1>7 DEF Accounted
<1> QED
  BY <1>1, <1>8 DEF n

LEMMA HistoryInvInit == Init => HistoryInv
<1> SUFFICES ASSUME Init PROVE HistoryInv
  OBVIOUS
<1>1. LedgerInv /\ clock = 0 /\ settled = {} /\ book = NewBook
  BY LedgerInvInit DEF Init
<1>2. \A j \in Jobs : job[j] = NewJob
  BY DEF Init
<1>3. \A r \in Routes : book[r] = NoLedger /\ PaidOn(settled, r) = {}
  BY <1>1 DEF NewBook, PaidOn
<1>4. \A r \in Routes : Accounted(book[r], PaidOn(settled, r))
  BY <1>3, BlankAccounted
<1>5. Prompt => \A r \in Routes : book[r].key <= Day(clock)
  <2>1. Day(0) \in Nat
    BY DayNat
  <2> QED
    BY <1>1, <1>3, <2>1, BlankAccounted
<1>6. ASSUME NEW j \in Jobs PROVE JobHistory(j)
  <2>1. job[j].pc = "idle" /\ job[j].sent = 0
    BY <1>2 DEF NewJob
  <2>2. Fresh(j)
    BY <1>1, <1>3, BlankAccounted DEF Fresh
  <2> QED
    BY <2>1, <2>2, QuotaAssumption DEF JobHistory, Unpaid, Computed
<1> QED
  BY <1>1, <1>4, <1>5, <1>6, FS_EmptySet DEF HistoryInv

(* A job keeps its uuid, or takes a newer one, as long as it goes on.      *)
GoesOn(j) ==
    /\ job'[j].sent <= Requests
    /\ job'[j].pc \notin {"done", "asserted"} =>
        job[j].pc \notin {"done", "asserted"} /\ job'[j].uuid >= job[j].uuid

(* What a job that does not step knows stays true, whatever the others     *)
(* write: they never make an owner of its.                                 *)
LEMMA HistoryKept ==
    ASSUME NEW k \in Jobs, JobHistory(k), job'[k] = job[k],
           \A r \in Routes : \A s \in book'[r].inflight :
                s \in book[r].inflight \/ s.owner[1] # k,
           \A c \in settled' : c \in settled \/ c.owner[1] # k
    PROVE  JobHistory(k)'
<1>1. Fresh(k)'
  BY DEF JobHistory, Fresh
<1>2. Unpaid(k)'
  BY DEF JobHistory, Unpaid, Owner
<1>3. Computed(k)'
  BY DEF JobHistory, Computed, Selected, Changed, Owner
<1> QED
  BY <1>1, <1>2, <1>3 DEF JobHistory

(* A step of a job that leaves the ledger alone.                           *)
LEMMA LocalHistory ==
    ASSUME HistoryInv, LedgerInv', NEW j \in Jobs, StepOf(j), GoesOn(j),
           UNCHANGED <<clock, book, settled>>, Unpaid(j)', Computed(j)'
    PROVE  HistoryInv'
<1>1. \A k \in Jobs : JobHistory(k)
  BY DEF HistoryInv
<1>2. ASSUME NEW k \in Jobs, k # j PROVE JobHistory(k)'
  <2>1. job'[k] = job[k]
    BY <1>2 DEF StepOf
  <2> QED
    BY <1>1, <2>1, HistoryKept
<1>3. Fresh(j)'
  <2> SUFFICES ASSUME job'[j].pc \notin {"done", "asserted"}
               PROVE  /\ \A r \in Routes : \A s \in book[r].inflight :
                            s.owner[1] = j => s.owner[2] <= job'[j].uuid
                      /\ \A c \in settled : c.owner[1] = j => c.owner[2] <= job'[j].uuid
    BY DEF Fresh
  <2>1. job'[j].uuid >= job[j].uuid /\ job'[j].uuid \in Nat /\ job[j].uuid \in Nat
    BY DEF GoesOn, StepOf, JobTypes, HistoryInv, LedgerInv, TypeOK
  <2>2. /\ \A r \in Routes : \A s \in book[r].inflight :
                s.owner[1] = j => s.owner[2] <= job[j].uuid
        /\ \A c \in settled : c.owner[1] = j => c.owner[2] <= job[j].uuid
    BY <1>1 DEF GoesOn, JobHistory, Fresh
  <2>3. /\ \A r \in Routes : \A s \in book[r].inflight : s.owner[2] \in Nat
        /\ \A c \in settled : c.owner[2] \in Nat
    BY DEF HistoryInv, LedgerInv, TypeOK, Ledgers, Reservations, Owners
  <2> QED
    BY <2>1, <2>2, <2>3
<1>4. JobHistory(j)'
  BY <1>3 DEF JobHistory, GoesOn
<1> QED
  BY <1>2, <1>4 DEF HistoryInv

(* A step of a job that writes the ledger.                                 *)
LEMMA LandHistory ==
    ASSUME HistoryInv, LedgerInv', NEW j \in Jobs, StepOf(j), UNCHANGED clock,
           job[j].pc = "put", Lands(j),
           job'[j].sent <= Requests,
           job'[j].pc \notin {"done", "asserted"} => job'[j].uuid = job[j].uuid,
           job'[j].pc = "put" => job'[j] = job[j]
    PROVE  HistoryInv'
<1>1. /\ clock \in Nat /\ book \in [Routes -> Ledgers] /\ job[j] \in JobTypes
      /\ JobHistory(j) /\ BodyInv(j) /\ Owner(j) = <<j, job[j].uuid>>
      /\ \A k \in Jobs : JobHistory(k)
      /\ settled \in SUBSET Payments
  BY HistoryFacts DEF Owner
<1>2. book = job[j].seen /\ book' = job[j].body
  BY DEF Lands
<1>3. settled' = settled \cup Paying(j)
  BY DEF Lands, Paying
<1>4. \A c \in Paying(j) : c.owner = Owner(j) /\ job[j].op # "reserve"
  BY DEF Paying, Settlement, Own
<1>5. ASSUME NEW q \in Routes
      PROVE  /\ Books(job[j].body[q], PaidOn(settled', q))
             /\ Prompt => job[j].body[q].key <= Day(job[j].now)
             /\ \A s \in job[j].body[q].inflight :
                    s \in book[q].inflight \/ s.owner = Owner(j)
  <2>1. CASE job[j].op = "reserve"
    <3>1. settled' = settled
      BY <1>3, <2>1 DEF Paying
    <3> QED
      BY <1>2, <2>1, <3>1, SelectedBooks
  <2>2. CASE job[j].op # "reserve"
    BY <1>2, <1>3, <2>2, ChangedBooks
  <2> QED
    BY <2>1, <2>2
<1>6. \A q \in Routes : Accounted(book[q], PaidOn(settled, q))'
  BY <1>2, <1>5 DEF Books
<1>7. IsFiniteSet(settled')
  <2> DEFINE own == Own(job[j].seen[job[j].route], Owner(j))
             live == {u \in own : u.at + TTL > job[j].now}
             pay(s) == [owner |-> s.owner, route |-> job[j].route, at |-> s.at,
                        paid |-> Actual(j)]
             g == [s \in live |-> pay(s)]
  <2>1. IsFiniteSet(settled)
    BY DEF HistoryInv
  <2>2. CASE job[j].op \in {"settle", "rejected"}
    <3>1. job[j].route \in Routes
      BY <1>1, <2>2 DEF BodyInv, JobPlaced
    <3>2. IsFiniteSet(book[job[j].route].inflight)
      BY <3>1 DEF HistoryInv, LedgerInv, Within, RouteWithin
    <3>3. live \in SUBSET book[job[j].route].inflight
      BY <1>2 DEF Own
    <3>4. IsFiniteSet(live)
      BY <3>2, <3>3, FS_Subset
    <3>5. Paying(j) = {pay(s) : s \in live}
      BY <2>2 DEF Paying, Settlement
    <3>6. g \in Surjection(live, {pay(s) : s \in live})
      BY DEF Surjection
    <3>7. IsFiniteSet(Paying(j))
      <4> HIDE DEF live, pay, g
      <4> QED
        BY <3>4, <3>5, <3>6, FS_Surjection
    <3> QED
      BY <1>3, <2>1, <3>7, FS_Union
  <2>3. CASE job[j].op \notin {"settle", "rejected"}
    <3>1. settled' = settled
      BY <1>3, <2>3 DEF Paying
    <3> QED
      BY <2>1, <3>1
  <2> QED
    BY <2>2, <2>3
<1>8. Prompt => \A r \in Routes : (book[r].key <= Day(clock))'
  <2> SUFFICES ASSUME Prompt, NEW r \in Routes PROVE job[j].body[r].key <= Day(clock)
    BY <1>2
  <2>1. job[j].now \in Nat /\ job[j].now <= clock
    BY <1>1 DEF JobTypes, BodyInv, JobPlaced
  <2>2. Day(job[j].now) <= Day(clock)
    BY <1>1, <2>1, DayMonotone
  <2>3. job[j].body[r].key \in Nat
    BY <1>5 DEF Books, Ledgers
  <2> QED
    BY <1>1, <1>5, <2>1, <2>2, <2>3, DayNat
<1>9. ASSUME NEW k \in Jobs, k # j PROVE JobHistory(k)'
  <2>1. job'[k] = job[k]
    BY <1>9 DEF StepOf
  <2>2. Owner(j)[1] # k
    BY <1>1, <1>9
  <2>3. \A r \in Routes : \A s \in book'[r].inflight :
            s \in book[r].inflight \/ s.owner[1] # k
    BY <1>2, <1>5, <2>2
  <2>4. \A c \in settled' : c \in settled \/ c.owner[1] # k
    BY <1>3, <1>4, <2>2
  <2> QED
    BY <1>1, <2>1, <2>3, <2>4, HistoryKept
<1>10. JobHistory(j)'
  <2>1. Fresh(j)'
    <3> SUFFICES ASSUME job'[j].pc \notin {"done", "asserted"}
                 PROVE  /\ \A r \in Routes : \A s \in book'[r].inflight :
                              s.owner[1] = j => s.owner[2] <= job'[j].uuid
                        /\ \A c \in settled' : c.owner[1] = j => c.owner[2] <= job'[j].uuid
      BY DEF Fresh
    <3>1. job'[j].uuid = job[j].uuid /\ job[j].uuid \in Nat
      BY <1>1 DEF JobTypes
    <3>2. /\ \A r \in Routes : \A s \in book[r].inflight :
                  s.owner[1] = j => s.owner[2] <= job[j].uuid
          /\ \A c \in settled : c.owner[1] = j => c.owner[2] <= job[j].uuid
      BY <1>1 DEF JobHistory, Fresh
    <3>3. Owner(j)[2] <= job[j].uuid
      BY <1>1, <3>1
    <3> QED
      BY <1>2, <1>3, <1>4, <1>5, <3>1, <3>2, <3>3
  <2>2. Unpaid(j)'
    BY <1>1, <1>3, <1>4 DEF JobHistory, Unpaid, Owner
  <2>3. Computed(j)'
    <3>1. CASE job'[j].pc = "put"
      <4>1. job'[j] = job[j] /\ Computed(j)
        BY <1>1, <3>1 DEF JobHistory
      <4> QED
        BY <4>1 DEF Computed, Selected, Changed, Owner
    <3>2. CASE job'[j].pc # "put"
      BY <3>2 DEF Computed
    <3> QED
      BY <3>1, <3>2
  <2> QED
    BY <2>1, <2>2, <2>3 DEF JobHistory
<1>11. \A k \in Jobs : JobHistory(k)'
  BY <1>9, <1>10
<1> QED
  BY <1>6, <1>7, <1>8, <1>11 DEF HistoryInv

-----------------------------------------------------------------------------
(* The steps.                                                              *)

(* A job that is not about to write.                                       *)
LEMMA QuietHistory ==
    ASSUME HistoryInv, LedgerInv', NEW j \in Jobs, StepOf(j), GoesOn(j),
           UNCHANGED <<clock, book, settled>>, job'[j].pc # "put"
    PROVE  HistoryInv'
<1>1. Unpaid(j)' /\ Computed(j)'
  BY DEF Unpaid, Computed
<1> QED
  BY <1>1, LocalHistory

LEMMA EndHistory ==
    ASSUME HistoryInv, LedgerInv', NEW j \in Jobs, job' = [job EXCEPT ![j] = Ended],
           UNCHANGED <<clock, book, settled>>
    PROVE  HistoryInv'
<1>1. StepOf(j) /\ job'[j] = Ended
  BY EndedFacts, StepOfOne DEF HistoryInv
<1>2. Ended.pc = "done" /\ Ended.sent = 0
  BY DEF Ended, NewJob
<1> QED
  BY <1>1, <1>2, QuietHistory, QuotaAssumption DEF GoesOn

LEMMA TickHistory == ASSUME HistoryInv, LedgerInv', Tick PROVE HistoryInv'
<1>1. /\ clock \in Nat /\ clock' = clock + 1 /\ job' = job /\ book' = book
      /\ settled' = settled
  BY HistoryFacts DEF Tick
<1>2. Prompt => \A r \in Routes : (book[r].key <= Day(clock))'
  <2> SUFFICES ASSUME Prompt, NEW r \in Routes PROVE book[r].key <= Day(clock')
    BY <1>1
  <2>1. Day(clock) <= Day(clock') /\ Day(clock) \in Nat /\ Day(clock') \in Nat
    BY <1>1, DayMonotone, DayNat
  <2>2. book[r].key \in Nat /\ book[r].key <= Day(clock)
    BY HistoryFacts DEF HistoryInv, Ledgers
  <2> QED
    BY <2>1, <2>2
<1>3. ASSUME NEW k \in Jobs PROVE JobHistory(k)'
  <2>1. JobHistory(k)
    BY DEF HistoryInv
  <2> QED
    BY <1>1, <2>1, HistoryKept
<1> QED
  BY <1>1, <1>2, <1>3 DEF HistoryInv

LEMMA BeginHistory ==
    ASSUME HistoryInv, LedgerInv', NEW j \in Jobs, Begin(j) PROVE HistoryInv'
<1> DEFINE rec == Attempt(j, "reserve", 0)
<1>1. /\ LedgerInv /\ job[j] \in JobTypes /\ JobHistory(j)
  BY HistoryFacts
<1>2. /\ rec \in JobTypes /\ rec.pc = "load" /\ rec.sent = job[j].sent
      /\ rec.uuid = job[j].uuid
  <2>1. /\ rec \in JobTypes /\ rec.pc = "load" /\ rec.sent = job[j].sent
    BY <1>1, AttemptFacts
  <2>2. rec.uuid = job[j].uuid
    BY <1>1 DEF Attempt, JobTypes
  <2> QED
    BY <2>1, <2>2
<1>3. /\ job' = [job EXCEPT ![j] = rec] /\ UNCHANGED <<clock, book, settled>>
      /\ job[j].pc = "idle"
  BY DEF Begin
<1> HIDE DEF rec
<1>4. StepOf(j) /\ job'[j] = rec
  BY <1>1, <1>2, <1>3, StepOfOne
<1>5. GoesOn(j)
  BY <1>1, <1>2, <1>3, <1>4 DEF GoesOn, JobHistory, JobTypes
<1> QED
  BY <1>2, <1>3, <1>4, <1>5, QuietHistory

LEMMA AssertHistory ==
    ASSUME HistoryInv, LedgerInv', NEW j \in Jobs, NEW now \in Nat, AssertFails(j, now)
    PROVE  HistoryInv'
<1> DEFINE rec == [NewJob EXCEPT !.pc = "asserted"]
<1>1. rec \in JobTypes /\ rec.pc = "asserted" /\ rec.sent = 0
  BY BlankFacts DEF NewJob, JobTypes
<1>2. job' = [job EXCEPT ![j] = rec] /\ UNCHANGED <<clock, book, settled>>
  BY DEF AssertFails
<1> HIDE DEF rec
<1>3. StepOf(j) /\ job'[j] = rec
  BY <1>1, <1>2, StepOfOne DEF HistoryInv
<1> QED
  BY <1>1, <1>2, <1>3, QuietHistory, QuotaAssumption DEF GoesOn

(* The ledger a job loads: its clock is not behind the ledger's, provided  *)
(* no day ended meanwhile.                                                 *)
LEMMA LoadedKeys ==
    ASSUME HistoryInv, NEW j \in Jobs, NEW now \in Nat, Loads(j, now), Prompt
    PROVE  \A r \in Routes : book[r].key <= Day(now)
BY DEF HistoryInv, Loads

LEMMA SelectHistory ==
    ASSUME HistoryInv, LedgerInv', NEW j \in Jobs, NEW now \in Nat, NEW r \in Routes,
           Select(j, now, r)
    PROVE  HistoryInv'
<1>1. /\ LedgerInv /\ job[j] \in JobTypes /\ JobHistory(j) /\ book \in [Routes -> Ledgers]
      /\ Loads(j, now) /\ job[j].op = "reserve" /\ UNCHANGED <<clock, book, settled>>
  BY HistoryFacts DEF Select
<1>2. PICK f \in Avails(book, now) :
        LET b == RolledBook(book, now, f) IN
        /\ ~Asserts(b, now) /\ Available(b, r, now)
        /\ job' = [job EXCEPT ![j] =
            [Writes(j, now, [b EXCEPT ![r] = Reserved(@, <<j, job[j].uuid + 1>>, now)])
                EXCEPT !.route = r, !.uuid = @ + 1]]
  BY Zenon DEF Select
<1> DEFINE b == RolledBook(book, now, f)
           owner == <<j, job[j].uuid + 1>>
           c == [b EXCEPT ![r] = Reserved(@, owner, now)]
           writes == Writes(j, now, c)
           rec == [writes EXCEPT !.route = r, !.uuid = @ + 1]
<1>3. f \in Avails(book, now) /\ b = RolledBook(book, now, f)
  OBVIOUS
<1>4. b \in [Routes -> Ledgers] /\ Available(b, r, now)
  BY <1>1, <1>2, RolledBookFacts
<1>5. job' = [job EXCEPT ![j] = rec]
  BY <1>2
<1>6. ASSUME NEW q \in Routes PROVE b[q].inflight \subseteq book[q].inflight
  <2>1. b[q] = Rolled(book[q], now, f[q])
    BY DEF RolledBook
  <2>2. f[q] \in Restored(book[q], Expired(book[q], now))
    BY DEF Avails
  <2>3. book[q] \in Ledgers /\ RouteWithin(book[q])
    BY <1>1 DEF LedgerInv, Within
  <2>4. f[q] \in Nat
    <3>1. Expired(book[q], now) \in SUBSET book[q].inflight
      BY DEF Expired
    <3> QED
      BY <2>2, <2>3, <3>1, RestoredNat
  <2>5. Rolled(book[q], now, f[q]).inflight = book[q].inflight \ Expired(book[q], now)
    BY <2>3, <2>4, RolledFacts
  <2> HIDE DEF b
  <2> QED
    BY <2>1, <2>5
<1> HIDE DEF b
<1>7. owner \in Owners
  BY <1>1 DEF Owners, JobTypes
<1> HIDE DEF owner
<1>8. c \in [Routes -> Ledgers] /\ c = [b EXCEPT ![r] = Reserved(b[r], owner, now)]
  <2>1. Reserved(b[r], owner, now) \in Ledgers
    BY <1>4, <1>7, ReservedFacts
  <2> QED
    BY <1>4, <2>1
<1> HIDE DEF c
<1>9. /\ rec \in JobTypes /\ rec.pc = "put" /\ rec.op = "reserve" /\ rec.now = now
      /\ rec.seen = book /\ rec.body = c /\ rec.route = r /\ rec.uuid = job[j].uuid + 1
      /\ rec.sent = job[j].sent
  <2>1. /\ writes \in JobTypes /\ writes.pc = "put" /\ writes.now = now
        /\ writes.op = "reserve" /\ writes.sent = job[j].sent
        /\ writes.uuid = job[j].uuid /\ writes.seen = book /\ writes.body = c
    BY <1>1, <1>8 DEF Writes, JobTypes
  <2>2. job[j].uuid + 1 \in Nat
    BY <1>1 DEF JobTypes
  <2> HIDE DEF writes
  <2> QED
    BY <2>1, <2>2 DEF JobTypes
<1> HIDE DEF rec
<1>10. StepOf(j) /\ job'[j] = rec
  BY <1>1, <1>9, <1>5, StepOfOne
<1>11. Owner(j)' = owner
  BY <1>9, <1>10 DEF Owner, owner
<1>12. /\ job[j].uuid \in Nat
       /\ \A q \in Routes : \A s \in book[q].inflight :
                s.owner[1] = j => s.owner[2] <= job[j].uuid
       /\ \A p \in settled : p.owner[1] = j => p.owner[2] <= job[j].uuid
  BY <1>1 DEF JobTypes, JobHistory, Fresh, Loads
<1>13. \A p \in settled : p.owner # owner
  BY <1>12 DEF owner
<1>14. \A q \in Routes : Own(b[q], owner) = {}
  BY <1>6, <1>12 DEF Own, owner
<1>15. Unpaid(j)'
  BY <1>1, <1>11, <1>13 DEF Unpaid
<1>16. Selected(j)'
  <2>1. r # NoRoute
    BY RouteAssumption
  <2>2. /\ job'[j].seen = book /\ job'[j].now = now /\ job'[j].route = r
        /\ job'[j].body = [b EXCEPT ![r] = Reserved(b[r], Owner(j)', now)]
        /\ \A q \in Routes : Own(b[q], Owner(j)') = {}
    BY <1>8, <1>9, <1>10, <1>11, <1>14
  <2> SUFFICES \E g \in Avails(book, now) :
            LET a == RolledBook(book, now, g) IN
            /\ Available(a, r, now) /\ \A q \in Routes : Own(a[q], Owner(j)') = {}
            /\ job'[j].body = [a EXCEPT ![r] = Reserved(a[r], Owner(j)', now)]
    BY <2>1, <2>2 DEF Selected
  <2> QED
    BY <1>3, <1>4, <2>2
<1>17. Computed(j)'
  BY <1>1, <1>9, <1>10, <1>16, LoadedKeys DEF Computed
<1>18. GoesOn(j)
  BY <1>1, <1>9, <1>10, <1>12 DEF GoesOn, JobHistory, Loads
<1> QED
  BY <1>1, <1>10, <1>15, <1>17, <1>18, LocalHistory

LEMMA SelectNoneHistory ==
    ASSUME HistoryInv, LedgerInv', NEW j \in Jobs, NEW now \in Nat, SelectNone(j, now)
    PROVE  HistoryInv'
<1>1. /\ LedgerInv /\ job[j] \in JobTypes /\ JobHistory(j) /\ BodyInv(j)
      /\ book \in [Routes -> Ledgers]
      /\ Loads(j, now) /\ job[j].op = "reserve" /\ UNCHANGED <<clock, book, settled>>
  BY HistoryFacts DEF SelectNone
<1>2. job[j].route = NoRoute
  BY <1>1 DEF BodyInv, JobPlaced, Loads
<1>3. PICK f \in Avails(book, now) :
        job' = [job EXCEPT ![j] = Writes(j, now, RolledBook(book, now, f))]
  BY DEF SelectNone
<1> DEFINE b == RolledBook(book, now, f)
           rec == Writes(j, now, b)
<1>4. f \in Avails(book, now) /\ b = RolledBook(book, now, f)
  OBVIOUS
<1>5. b \in [Routes -> Ledgers]
  BY <1>1, RolledBookFacts
<1> HIDE DEF b
<1>6. /\ rec \in JobTypes /\ rec.pc = "put" /\ rec.op = "reserve" /\ rec.now = now
      /\ rec.seen = book /\ rec.body = b /\ rec.route = NoRoute
      /\ rec.uuid = job[j].uuid /\ rec.sent = job[j].sent
  BY <1>1, <1>2, <1>5 DEF Writes, JobTypes
<1>7. job' = [job EXCEPT ![j] = rec]
  BY <1>3 DEF b
<1> HIDE DEF rec
<1>8. StepOf(j) /\ job'[j] = rec
  BY <1>1, <1>6, <1>7, StepOfOne
<1>9. Unpaid(j)'
  BY <1>6, <1>8 DEF Unpaid
<1>10. Selected(j)'
  BY <1>4, <1>6, <1>8 DEF Selected
<1>11. Computed(j)'
  BY <1>1, <1>6, <1>8, <1>10, LoadedKeys DEF Computed
<1>12. GoesOn(j)
  BY <1>1, <1>6, <1>8 DEF GoesOn, JobHistory, Loads, JobTypes
<1> QED
  BY <1>1, <1>8, <1>9, <1>11, <1>12, LocalHistory

LEMMA MutateHistory ==
    ASSUME HistoryInv, LedgerInv', NEW j \in Jobs, NEW now \in Nat, Mutate(j, now)
    PROVE  HistoryInv'
<1>1. /\ LedgerInv /\ job[j] \in JobTypes /\ JobHistory(j) /\ book \in [Routes -> Ledgers]
      /\ Loads(j, now) /\ job[j].op # "reserve" /\ UNCHANGED <<clock, book, settled>>
      /\ job[j].pc = "load"
  BY HistoryFacts DEF Mutate, Loads
<1> DEFINE r == job[j].route
<1>2. PICK v \in Restored(book[r], Expired(book[r], now)) :
        job' = [job EXCEPT ![j] = Writes(j, now,
                    [book EXCEPT ![r] = Mutated(j, Rolled(@, now, v))])]
  BY DEF Mutate
<1> DEFINE led == Rolled(book[r], now, v)
           b == [book EXCEPT ![r] = Mutated(j, Rolled(@, now, v))]
           rec == Writes(j, now, b)
<1>3. r \in Routes /\ b \in [Routes -> Ledgers]
  BY <1>1, MutatedFacts
<1>4. b = [book EXCEPT ![r] = Mutated(j, led)]
  BY <1>1, <1>3
<1> HIDE DEF b
<1>5. /\ rec \in JobTypes /\ rec.pc = "put" /\ rec.op = job[j].op /\ rec.now = now
      /\ rec.seen = book /\ rec.body = b /\ rec.route = r
      /\ rec.uuid = job[j].uuid /\ rec.sent = job[j].sent /\ rec.until = job[j].until
  BY <1>1, <1>3 DEF Writes, JobTypes
<1>6. job' = [job EXCEPT ![j] = rec]
  BY <1>2 DEF b
<1> HIDE DEF rec
<1>7. StepOf(j) /\ job'[j] = rec
  BY <1>1, <1>5, <1>6, StepOfOne
<1>8. Unpaid(j)'
  BY <1>1, <1>5, <1>7 DEF Unpaid
<1>9. Owner(j)' = Owner(j) /\ Outcome(rec, Owner(j), led) = Mutated(j, led)
  <2> HIDE DEF led
  <2> QED
    BY <1>5, <1>7 DEF Outcome, Mutated, Actual, Owner
<1>10. Changed(j)'
  <2>1. /\ job'[j].seen = book /\ job'[j].now = now /\ job'[j].route = r
        /\ Outcome(job'[j], Owner(j)', led) = Mutated(j, led)
        /\ job'[j].body = [book EXCEPT ![r] = Outcome(job'[j], Owner(j)', led)]
    <3> HIDE DEF led
    <3> QED
      BY <1>4, <1>5, <1>7, <1>9
  <2> SUFFICES \E a \in Restored(book[r], Expired(book[r], now)) :
            job'[j].body = [book EXCEPT
                ![r] = Outcome(job'[j], Owner(j)', Rolled(book[r], now, a))]
    BY <2>1 DEF Changed
  <2> QED
    BY <1>2, <2>1
<1>11. Computed(j)'
  BY <1>1, <1>5, <1>7, <1>10, LoadedKeys DEF Computed
<1>12. GoesOn(j)
  BY <1>1, <1>5, <1>7 DEF GoesOn, JobHistory, JobTypes
<1> QED
  BY <1>1, <1>7, <1>8, <1>11, <1>12, LocalHistory

(* What a job that succeeded does next: it keeps its uuid as long as it    *)
(* goes on.                                                                *)
LEMMA ProceedsHistory ==
    ASSUME HistoryInv, NEW j \in Jobs, job[j].pc = "put", Proceeds(j), UNCHANGED clock
    PROVE  /\ StepOf(j) /\ job'[j].sent <= Requests /\ job'[j].pc # "put"
           /\ job'[j].pc \notin {"done", "asserted"} => job'[j].uuid = job[j].uuid
<1>1. /\ LedgerInv /\ job[j] \in JobTypes /\ NewJob \in JobTypes
      /\ job[j].sent <= Requests /\ job \in [Jobs -> JobTypes]
  BY HistoryFacts, BlankFacts DEF JobHistory
<1>2. StepOf(j)
  BY <1>1, ProceedsFacts
<1>3. 0 <= Requests
  BY QuotaAssumption
<1>4. CASE job[j].op = "reserve" /\ job[j].route # NoRoute
  <2> DEFINE rec == [NewJob EXCEPT !.pc = "call", !.route = job[j].route,
                        !.uuid = job[j].uuid, !.at = job[j].now,
                        !.round = job[j].round]
  <2>1. job' = [job EXCEPT ![j] = rec]
    BY <1>4 DEF Proceeds
  <2>2. rec.pc = "call" /\ rec.uuid = job[j].uuid /\ rec.sent = 0
    BY <1>1 DEF NewJob
  <2> HIDE DEF rec
  <2>3. job'[j] = rec
    BY <1>1, <2>1
  <2> QED
    BY <1>2, <1>3, <2>2, <2>3
<1>5. CASE job[j].op = "block"
  <2> DEFINE rec == Attempt(j, "rejected", 0)
  <2>1. job' = [job EXCEPT ![j] = rec]
    BY <1>5 DEF Proceeds
  <2>2. rec.pc = "load" /\ rec.uuid = job[j].uuid /\ rec.sent = job[j].sent
    BY <1>1 DEF Attempt, JobTypes
  <2> HIDE DEF rec
  <2>3. job'[j] = rec
    BY <1>1, <2>1
  <2> QED
    BY <1>1, <1>2, <2>2, <2>3
<1>6. CASE job[j].op = "rejected" /\ job[j].sibling /\ job[j].round < MaxRounds
  <2> DEFINE rec == [NewJob EXCEPT !.pc = "load", !.now = clock, !.uuid = job[j].uuid,
                        !.round = job[j].round + 1]
  <2>1. job' = [job EXCEPT ![j] = rec]
    BY <1>6 DEF Proceeds
  <2>2. rec.pc = "load" /\ rec.uuid = job[j].uuid /\ rec.sent = 0
    BY <1>1 DEF NewJob
  <2> HIDE DEF rec
  <2>3. job'[j] = rec
    BY <1>1, <2>1
  <2> QED
    BY <1>2, <1>3, <2>2, <2>3
<1>7. CASE /\ ~(job[j].op = "reserve" /\ job[j].route # NoRoute)
           /\ job[j].op # "block"
           /\ ~(job[j].op = "rejected" /\ job[j].sibling /\ job[j].round < MaxRounds)
  <2>1. job' = [job EXCEPT ![j] = Ended]
    BY <1>7 DEF Proceeds
  <2>2. Ended.pc = "done" /\ Ended.sent = 0
    BY DEF Ended, NewJob
  <2>3. job'[j] = Ended
    BY <1>1, <2>1
  <2> QED
    BY <1>2, <1>3, <2>2, <2>3
<1> QED
  BY <1>4, <1>5, <1>6, <1>7

LEMMA PutHistory ==
    ASSUME HistoryInv, LedgerInv', NEW j \in Jobs, Put(j) PROVE HistoryInv'
<1>1. job[j].pc = "put" /\ Lands(j) /\ Proceeds(j) /\ UNCHANGED clock
  BY DEF Put
<1>2. /\ StepOf(j) /\ job'[j].sent <= Requests /\ job'[j].pc # "put"
      /\ job'[j].pc \notin {"done", "asserted"} => job'[j].uuid = job[j].uuid
  BY <1>1, ProceedsHistory
<1> QED
  BY <1>1, <1>2, LandHistory

LEMMA PutUnneededHistory ==
    ASSUME HistoryInv, LedgerInv', NEW j \in Jobs, PutUnneeded(j) PROVE HistoryInv'
<1>1. job[j].pc = "put" /\ Proceeds(j) /\ UNCHANGED <<clock, book, settled>>
  BY DEF PutUnneeded
<1>2. /\ StepOf(j) /\ job'[j].sent <= Requests /\ job'[j].pc # "put"
      /\ job'[j].pc \notin {"done", "asserted"} => job'[j].uuid = job[j].uuid
  BY <1>1, ProceedsHistory
<1>3. job[j].uuid \in Nat
  BY HistoryFacts DEF JobTypes
<1>4. GoesOn(j)
  BY <1>1, <1>2, <1>3 DEF GoesOn
<1> QED
  BY <1>1, <1>2, <1>4, QuietHistory

LEMMA PutAnswerLostHistory ==
    ASSUME HistoryInv, LedgerInv', NEW j \in Jobs, PutAnswerLost(j) PROVE HistoryInv'
<1>1. job[j].pc = "put" /\ Lands(j) /\ UNCHANGED <<clock, job>>
  BY DEF PutAnswerLost
<1>2. job \in [Jobs -> JobTypes] /\ job[j].sent <= Requests
  BY HistoryFacts DEF JobHistory
<1>3. StepOf(j)
  BY <1>1, <1>2 DEF StepOf
<1> QED
  BY <1>1, <1>2, <1>3, LandHistory

LEMMA PutConflictHistory ==
    ASSUME HistoryInv, LedgerInv', NEW j \in Jobs, PutConflict(j) PROVE HistoryInv'
<1>1. /\ job[j].pc = "put" /\ TriesAgain(j) /\ UNCHANGED <<clock, book, settled>>
  BY DEF PutConflict
<1>2. CASE job[j].tries + 1 < MaxTries
  <2> DEFINE att == Attempt(j, job[j].op, job[j].tries + 1)
             rec == [att EXCEPT !.route = IF job[j].op = "reserve" THEN NoRoute ELSE @]
  <2>1. /\ LedgerInv /\ job[j] \in JobTypes /\ JobHistory(j) /\ job \in [Jobs -> JobTypes]
    BY HistoryFacts
  <2>2. /\ att \in JobTypes /\ att.pc = "load" /\ att.sent = job[j].sent
        /\ att.uuid = job[j].uuid
    <3>1. job[j].tries + 1 \in Nat /\ job[j].op \in
                {"reserve", "block", "settle", "rejected", "release"}
      BY <2>1 DEF JobTypes
    <3>2. att \in JobTypes /\ att.pc = "load" /\ att.sent = job[j].sent
      BY <2>1, <3>1, AttemptFacts
    <3>3. att.uuid = job[j].uuid
      BY <2>1 DEF Attempt, JobTypes
    <3> QED
      BY <3>2, <3>3
  <2>3. job' = [job EXCEPT ![j] = rec]
    BY <1>1, <1>2 DEF TriesAgain
  <2> HIDE DEF att
  <2>4. /\ rec \in JobTypes /\ rec.pc = "load" /\ rec.sent = job[j].sent
        /\ rec.uuid = job[j].uuid
    BY <2>2 DEF JobTypes
  <2> HIDE DEF rec
  <2>5. StepOf(j) /\ job'[j] = rec
    BY <2>1, <2>3, <2>4, StepOfOne
  <2>6. GoesOn(j)
    BY <1>1, <2>1, <2>4, <2>5 DEF GoesOn, JobHistory, JobTypes
  <2> QED
    BY <1>1, <2>4, <2>5, <2>6, QuietHistory
<1>3. CASE ~(job[j].tries + 1 < MaxTries)
  <2>1. job' = [job EXCEPT ![j] = Ended]
    BY <1>1, <1>3 DEF TriesAgain
  <2> QED
    BY <1>1, <2>1, EndHistory
<1> QED
  BY <1>2, <1>3

LEMMA SendHistory ==
    ASSUME HistoryInv, LedgerInv', NEW j \in Jobs, Send(j) PROVE HistoryInv'
<1> DEFINE rec == [job[j] EXCEPT !.sent = @ + 1]
<1>1. /\ job[j].pc = "call" /\ job[j].sent < Requests /\ UNCHANGED <<clock, book, settled>>
      /\ job' = [job EXCEPT ![j] = rec]
  BY DEF Send
<1>2. LedgerInv /\ job[j] \in JobTypes
  BY HistoryFacts
<1>3. /\ rec \in JobTypes /\ rec.pc = "call" /\ rec.uuid = job[j].uuid
      /\ rec.sent = job[j].sent + 1
  BY <1>1, <1>2 DEF JobTypes
<1> HIDE DEF rec
<1>4. StepOf(j) /\ job'[j] = rec
  BY <1>1, <1>2, <1>3, StepOfOne
<1>5. job[j].sent \in Nat /\ job[j].uuid \in Nat
  BY <1>2 DEF JobTypes
<1>6. GoesOn(j)
  BY <1>1, <1>3, <1>4, <1>5, QuotaAssumption DEF GoesOn
<1> QED
  BY <1>1, <1>3, <1>4, <1>6, QuietHistory

LEMMA CallEndsHistory ==
    ASSUME HistoryInv, LedgerInv', NEW j \in Jobs, CallEnds(j) PROVE HistoryInv'
<1> DEFINE op == IF job[j].sent > 0 THEN "settle" ELSE "release"
           rec == Attempt(j, op, 0)
<1>1. /\ job[j].pc = "call" /\ UNCHANGED <<clock, book, settled>>
      /\ job' = [job EXCEPT ![j] = rec]
  BY DEF CallEnds
<1>2. op \in {"reserve", "block", "settle", "rejected", "release"}
  OBVIOUS
<1> HIDE DEF op
<1>3. /\ LedgerInv /\ job[j] \in JobTypes /\ JobHistory(j)
  BY HistoryFacts
<1>4. /\ rec \in JobTypes /\ rec.pc = "load" /\ rec.sent = job[j].sent
      /\ rec.uuid = job[j].uuid
  <2>1. rec \in JobTypes /\ rec.pc = "load" /\ rec.sent = job[j].sent
    BY <1>2, <1>3, AttemptFacts
  <2>2. rec.uuid = job[j].uuid
    BY <1>3 DEF Attempt, JobTypes
  <2> QED
    BY <2>1, <2>2
<1> HIDE DEF rec
<1>5. StepOf(j) /\ job'[j] = rec
  BY <1>1, <1>3, <1>4, StepOfOne
<1>6. GoesOn(j)
  BY <1>1, <1>3, <1>4, <1>5 DEF GoesOn, JobHistory, JobTypes
<1> QED
  BY <1>1, <1>4, <1>5, <1>6, QuietHistory

LEMMA RateLimitedHistory ==
    ASSUME HistoryInv, LedgerInv', NEW j \in Jobs, RateLimited(j) PROVE HistoryInv'
<1> DEFINE att == Attempt(j, "block", 0)
<1>1. job[j].pc = "call" /\ UNCHANGED <<clock, book, settled>>
  BY DEF RateLimited
<1>2. PICK sibling \in BOOLEAN :
        job' = [job EXCEPT ![j] = [att EXCEPT !.until = clock + Cooldown,
                                              !.sibling = sibling]]
  BY Zenon DEF RateLimited
<1> DEFINE rec == [att EXCEPT !.until = clock + Cooldown, !.sibling = sibling]
<1>3. /\ LedgerInv /\ job[j] \in JobTypes /\ JobHistory(j)
      /\ clock + Cooldown \in Nat
  BY HistoryFacts, RouteAssumption
<1>4. /\ att \in JobTypes /\ att.pc = "load" /\ att.sent = job[j].sent
      /\ att.uuid = job[j].uuid
  <2>1. att \in JobTypes /\ att.pc = "load" /\ att.sent = job[j].sent
    BY <1>3, AttemptFacts
  <2>2. att.uuid = job[j].uuid
    BY <1>3 DEF Attempt, JobTypes
  <2> QED
    BY <2>1, <2>2
<1>5. job' = [job EXCEPT ![j] = rec]
  BY <1>2
<1> HIDE DEF att
<1>6. /\ rec \in JobTypes /\ rec.pc = "load" /\ rec.sent = job[j].sent
      /\ rec.uuid = job[j].uuid
  BY <1>3, <1>4 DEF JobTypes
<1> HIDE DEF rec
<1>7. StepOf(j) /\ job'[j] = rec
  BY <1>3, <1>5, <1>6, StepOfOne
<1>8. GoesOn(j)
  BY <1>1, <1>3, <1>6, <1>7 DEF GoesOn, JobHistory, JobTypes
<1> QED
  BY <1>1, <1>6, <1>7, <1>8, QuietHistory

LEMMA HistoryInvNext == HistoryInv /\ [Next]_vars => HistoryInv'
<1> SUFFICES ASSUME HistoryInv, [Next]_vars PROVE HistoryInv'
  OBVIOUS
<1>1. LedgerInv'
  BY LedgerInvNext DEF HistoryInv
<1>2. CASE Tick
  BY <1>1, <1>2, TickHistory
<1>3. ASSUME NEW j \in Jobs, NEW now \in 0..MaxClock,
             \/ AssertFails(j, now) \/ SelectNone(j, now) \/ Mutate(j, now)
             \/ \E r \in Routes : Select(j, now, r)
      PROVE  HistoryInv'
  <2>1. now \in Nat
    BY RouteAssumption
  <2> QED
    BY <1>1, <1>3, <2>1, AssertHistory, SelectNoneHistory, MutateHistory, SelectHistory
<1>4. ASSUME NEW j \in Jobs, Begin(j) PROVE HistoryInv'
  BY <1>1, <1>4, BeginHistory
<1>5. ASSUME NEW j \in Jobs,
             Put(j) \/ PutUnneeded(j) \/ PutAnswerLost(j) \/ PutConflict(j)
      PROVE  HistoryInv'
  BY <1>1, <1>5, PutHistory, PutUnneededHistory, PutAnswerLostHistory, PutConflictHistory
<1>6. ASSUME NEW j \in Jobs, Send(j) \/ CallEnds(j) \/ RateLimited(j)
      PROVE  HistoryInv'
  BY <1>1, <1>6, SendHistory, CallEndsHistory, RateLimitedHistory
<1>7. ASSUME NEW j \in Jobs, Crash(j) PROVE HistoryInv'
  BY <1>1, <1>7, EndHistory DEF Crash
<1>8. CASE UNCHANGED vars
  <2>1. clock' = clock /\ book' = book /\ job' = job /\ settled' = settled
    BY <1>8 DEF vars
  <2>2. ASSUME NEW k \in Jobs PROVE JobHistory(k)'
    <3>1. JobHistory(k)
      BY DEF HistoryInv
    <3> QED
      BY <2>1, <3>1, HistoryKept
  <2> QED
    BY <1>1, <2>1, <2>2 DEF HistoryInv
<1> QED
  BY <1>2, <1>3, <1>4, <1>5, <1>6, <1>7, <1>8 DEF Next

-----------------------------------------------------------------------------
(* The theorems.                                                           *)

(* The accounts of every route stay in order: whatever jobs select, settle, *)
(* release, block and reap, and whichever answers are lost, the counter and *)
(* the schedule of LLMBudget (_ledger, settle, _unwind_reservation) account *)
(* for each call that was settled or still has a reservation, once.         *)
THEOREM HistoryInvariant == Spec => []HistoryInv
BY HistoryInvInit, HistoryInvNext, PTL DEF Spec

(* The request rate: of any two calls of a route, settled or reserved, one *)
(* was admitted only after the other's share of the schedule, for any mix  *)
(* of settlements, expiries and reservations in between (available,        *)
(* _request_schedule_after, _unwind_reservation).                          *)
THEOREM AdmissionPace == Spec => []AdmissionsPaced
<1>1. ASSUME HistoryInv PROVE AdmissionsPaced
  <2> SUFFICES ASSUME NEW r \in Routes, NEW c \in Paced(r), NEW d \in Paced(r),
                      c.owner # d.owner
               PROVE  \/ d.at >= c.at + Interval * c.paid
                      \/ c.at >= d.at + Interval * d.paid
    BY DEF AdmissionsPaced
  <2>1. Books(book[r], PaidOn(settled, r))
    BY <1>1, HistoryFacts
  <2>2. Paced(r) = Items(book[r], PaidOn(settled, r))
    BY DEF Paced, Items, PaidItems, HeldItems, PaidOn
  <2>3. /\ c.at \in Nat /\ c.paid \in Nat /\ End(c) \in Nat
        /\ d.at \in Nat /\ d.paid \in Nat /\ End(d) \in Nat
    BY <2>1, <2>2, ItemFacts DEF Books
  <2>4. CASE Interval > 0
    <3>1. End(c) <= d.at \/ End(d) <= c.at
      BY <2>1, <2>2, <2>4 DEF Books, Accounted, OnSchedule
    <3>2. Interval * c.paid \in Nat /\ Interval * d.paid \in Nat
      BY <2>3, TimesNat
    <3> QED
      BY <2>3, <3>1, <3>2 DEF End
  <2>5. CASE Interval = 0
    <3>1. Interval * c.paid = 0 /\ Interval * d.paid = 0
      BY <2>3, <2>5
    <3> QED
      BY <2>3, <3>1
  <2> QED
    BY <2>4, <2>5, QuotaAssumption
<1> QED
  BY <1>1, HistoryInvariant, PTL

(* What the calls of a day sent is counted in the account of that day:     *)
(* that of a settled call in full,                                         *)
LEMMA SettledCounted ==
    ASSUME HistoryInv, NEW r \in Routes, NEW d
    PROVE  /\ Cardinality(SettledOn(r, d)) \in Nat
           /\ Cardinality(SettledOn(r, d)) <= Cardinality(UnitsPaid(PaidOn(settled, r), d))
<1> DEFINE S == SettledOn(r, d)
           T == UnitsPaid(PaidOn(settled, r), d)
           f == [u \in S |-> <<u[1].owner, u[2]>>]
<1>1. Books(book[r], PaidOn(settled, r))
  BY HistoryFacts
<1>2. ASSUME NEW u \in S
      PROVE  \E c \in PaidOn(settled, r) :
                /\ u \in {c} \X (1..c.paid) /\ Day(c.at) = d
                /\ u = <<c, u[2]>> /\ u[2] \in 1..c.paid
  <2>1. PICK c \in settled : c.route = r /\ Day(c.at) = d /\ u \in {c} \X (1..c.paid)
    BY DEF SettledOn
  <2> QED
    BY <2>1 DEF PaidOn
<1>3. ASSUME NEW u \in S PROVE <<u[1].owner, u[2]>> \in T
  <2>1. PICK c \in PaidOn(settled, r) : /\ Day(c.at) = d
                                        /\ u = <<c, u[2]>> /\ u[2] \in 1..c.paid
    BY <1>2
  <2>2. <<c.owner, u[2]>> \in Units(c.owner, c.paid)
    BY <2>1 DEF Units
  <2>3. u[1] = c
    BY <2>1
  <2> QED
    BY <2>1, <2>2, <2>3, UnitsPaidFacts
<1>4. ASSUME NEW u \in S, NEW v \in S, <<u[1].owner, u[2]>> = <<v[1].owner, v[2]>>
      PROVE  u = v
  <2>1. PICK c \in PaidOn(settled, r) : u = <<c, u[2]>>
    BY <1>2
  <2>2. PICK e \in PaidOn(settled, r) : v = <<e, v[2]>>
    BY <1>2
  <2>3. u[1] = c /\ v[1] = e
    BY <2>1, <2>2
  <2>4. c.owner = e.owner /\ u[2] = v[2]
    BY <1>4, <2>3
  <2>5. c = e
    BY <1>1, <2>4 DEF Books, Accounted, Unique
  <2> QED
    BY <2>1, <2>2, <2>4, <2>5
<1> HIDE DEF S, T
<1>5. f \in [S -> T] /\ \A u, v \in S : f[u] = f[v] => u = v
  BY <1>3, <1>4
<1> HIDE DEF f
<1>6. f \in Injection(S, T)
  BY <1>5 DEF Injection, IsInjective
<1>7. IsFiniteSet(T)
  BY <1>1, CountedFinite DEF Books, RouteWithin, T
<1> QED
  BY <1>6, <1>7, FS_Injection, FS_CardinalityType DEF S, T

(* and that of a call in time under its reservation.                       *)
LEMMA RunningCounted ==
    ASSUME HistoryInv, NEW r \in Routes, NEW d
    PROVE  /\ Cardinality(RunningOn(r, d)) \in Nat
           /\ Cardinality(RunningOn(r, d)) <= Cardinality(HeldOn(book[r], d))
<1> DEFINE S == RunningOn(r, d)
           T == HeldOn(book[r], d)
           f == [u \in S |-> <<<<u[1], job[u[1]].uuid>>, u[2]>>]
<1>1. Books(book[r], PaidOn(settled, r))
  BY HistoryFacts
<1>2. ASSUME NEW u \in S
      PROVE  /\ u[1] \in Jobs /\ InTime(u[1]) /\ job[u[1]].route = r
             /\ Day(job[u[1]].at) = d /\ u = <<u[1], u[2]>> /\ u[2] \in 1..job[u[1]].sent
  <2>1. PICK j \in Jobs : /\ InTime(j) /\ job[j].route = r /\ Day(job[j].at) = d
                          /\ u \in {j} \X (1..job[j].sent)
    BY DEF RunningOn
  <2>2. u[1] = j /\ u = <<u[1], u[2]>> /\ u[2] \in 1..job[j].sent
    BY <2>1
  <2> QED
    BY <2>1, <2>2
<1>3. ASSUME NEW u \in S PROVE <<<<u[1], job[u[1]].uuid>>, u[2]>> \in T
  <2> DEFINE j == u[1]
  <2>1. /\ j \in Jobs /\ InTime(j) /\ job[j].route = r
        /\ Day(job[j].at) = d /\ u[2] \in 1..job[j].sent
    BY <1>2
  <2> HIDE DEF j
  <2>2. PICK s \in book[r].inflight : s.owner = Owner(j) /\ s.at = job[j].at
    BY <2>1 DEF HistoryInv, LedgerInv, CallReserved
  <2>3. job[j].sent \in Nat /\ job[j].sent <= Requests
    BY <2>1, HistoryFacts DEF JobTypes, JobHistory
  <2>4. u[2] \in 1..Requests
    BY <2>1, <2>3, QuotaAssumption
  <2>5. <<Owner(j), u[2]>> \in Units(s.owner, Requests)
    BY <2>2, <2>4 DEF Units
  <2>6. <<Owner(j), u[2]>> \in T
    BY <2>1, <2>2, <2>5, HeldOnFacts
  <2> QED
    BY <2>6 DEF Owner, j
<1>4. ASSUME NEW u \in S, NEW v \in S,
             <<<<u[1], job[u[1]].uuid>>, u[2]>> = <<<<v[1], job[v[1]].uuid>>, v[2]>>
      PROVE  u = v
  <2>1. u[1] = v[1] /\ u[2] = v[2]
    BY <1>4
  <2>2. u = <<u[1], u[2]>> /\ v = <<v[1], v[2]>>
    BY <1>2
  <2> QED
    BY <2>1, <2>2, Zenon
<1> HIDE DEF S, T
<1>5. f \in [S -> T] /\ \A u, v \in S : f[u] = f[v] => u = v
  BY <1>3, <1>4
<1> HIDE DEF f
<1>6. f \in Injection(S, T)
  BY <1>5 DEF Injection, IsInjective
<1>7. IsFiniteSet(T)
  BY <1>1, CountedFinite DEF Books, RouteWithin, T
<1> QED
  BY <1>6, <1>7, FS_Injection, FS_CardinalityType DEF S, T

(* The daily quota, provided no day ends while an attempt is between its   *)
(* reading of the clock and its load of the ledger: the calls of a route   *)
(* that were admitted on a day and end in time never send more than        *)
(* requests_per_day together (available, settle, _ledger).                 *)
THEOREM DailyQuota == ASSUME Prompt PROVE Spec => []DailyLimit
<1>1. ASSUME HistoryInv PROVE DailyLimit
  <2> SUFFICES ASSUME NEW r \in Routes, NEW d \in 0..Day(clock) PROVE SentOn(r, d) <= Rpd
    BY DEF DailyLimit
  <2> DEFINE C == PaidOn(settled, r)
             led == book[r]
             H == HeldOn(led, d)
             P == UnitsPaid(C, d)
  <2>1. Books(led, C) /\ clock \in Nat
    BY <1>1, HistoryFacts
  <2>2. /\ led \in Ledgers /\ C \in SUBSET Payments /\ IsFiniteSet(C)
        /\ IsFiniteSet(led.inflight) /\ Unique(led, C) /\ WithinDay(led, C)
    BY <2>1 DEF Books, RouteWithin, Accounted
  <2>3. /\ Cardinality(SettledOn(r, d)) \in Nat /\ Cardinality(RunningOn(r, d)) \in Nat
        /\ Cardinality(SettledOn(r, d)) <= Cardinality(P)
        /\ Cardinality(RunningOn(r, d)) <= Cardinality(H)
    BY <1>1, SettledCounted, RunningCounted
  <2>4. d \in Nat /\ led.key \in Nat
    BY <2>1, <2>2, DayNat DEF Ledgers
  <2> HIDE DEF C, led
  <2>5. /\ IsFiniteSet(H) /\ IsFiniteSet(P)
        /\ Cardinality(H) \in Nat /\ Cardinality(P) \in Nat
    BY <2>2, CountedFinite, FS_CardinalityType
  <2>6. H \cap P = {}
    <3> SUFFICES ASSUME NEW u \in H, u \in P PROVE FALSE
      OBVIOUS
    <3>1. PICK s \in led.inflight : Day(s.at) = d /\ u \in Units(s.owner, Requests)
      BY HeldOnFacts
    <3>2. PICK c \in C : Day(c.at) = d /\ u \in Units(c.owner, c.paid)
      BY UnitsPaidFacts
    <3>3. u[1] = s.owner /\ u[1] = c.owner
      BY <3>1, <3>2 DEF Units
    <3> QED
      BY <2>2, <3>3 DEF Unique
  <2>7. Counted(led, C, d) = H \cup P
    BY DEF Counted
  <2>8. Cardinality(H) + Cardinality(P) = Cardinality(Counted(led, C, d))
    <3> HIDE DEF H, P
    <3>1. Cardinality(H \cup P) = Cardinality(H) + Cardinality(P) - Cardinality(H \cap P)
      BY <2>5, FS_Union
    <3>2. Cardinality(H \cap P) = 0
      BY <2>6, FS_EmptySet
    <3> QED
      BY <2>5, <2>7, <3>1, <3>2
  <2>9. Cardinality(Counted(led, C, d)) <= Rpd
    <3>1. CASE d <= led.key
      <4>1. d \in 0..led.key
        BY <2>4, <3>1
      <4> QED
        BY <2>2, <4>1 DEF WithinDay
    <3>2. CASE ~(d <= led.key)
      <4>1. \A s \in led.inflight : Day(s.at) # d
        BY <2>2, <2>4, <3>2 DEF WithinDay
      <4>2. \A c \in C : Day(c.at) # d
        BY <2>2, <2>4, <3>2 DEF WithinDay
      <4>3. \A u : u \notin H /\ u \notin P
        BY <4>1, <4>2, HeldOnFacts, UnitsPaidFacts
      <4>4. Counted(led, C, d) = {}
        <5> HIDE DEF H, P
        <5> QED
          BY <2>7, <4>3
      <4> QED
        BY <4>4, FS_EmptySet, QuotaAssumption
    <3> QED
      BY <3>1, <3>2
  <2> QED
    BY <2>3, <2>5, <2>8, <2>9, QuotaAssumption DEF SentOn
<1> QED
  BY <1>1, HistoryInvariant, PTL

=============================================================================
