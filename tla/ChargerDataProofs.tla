------------------------- MODULE ChargerDataProofs -------------------------
(* Facts about the offered schedule and the EV's profile for every departure *)
(* time, and the invariants of the contexts for every set of inputs.         *)
EXTENDS ChargerData, TLAPS, WellFoundedInduction

-----------------------------------------------------------------------------
(* Induction over the naturals is by the least counterexample.               *)

\* A nonempty set of naturals has a least element.
LEMMA LeastNatural ==
  ASSUME NEW T, T \subseteq Nat, T # {}
  PROVE  \E m \in T : \A j \in T : m <= j
<1> DEFINE R == OpToRel(<, Nat)
<1>1. PICK m \in T : \A j \in T : ~ (<< j, m >> \in R)
  BY NatLessThanWellFounded, WFMin
<1>2. \A j \in T : ~ (j < m)
  BY <1>1 DEF OpToRel
<1> QED
  BY <1>2

\* A nonempty bounded set of naturals has a greatest element.
LEMMA GreatestNatural ==
  ASSUME NEW b \in Nat, NEW T \in SUBSET (0..b), T # {}
  PROVE  \E m \in T : \A j \in T : j <= m
<1> DEFINE U == { b - j : j \in T }
<1>1. U \subseteq Nat /\ U # {}
  <2>1. \A j \in T : j \in 0..b
    OBVIOUS
  <2>2. \A j \in T : b - j \in Nat
    BY <2>1
  <2>3. U \subseteq Nat
    BY <2>2
  <2>4. PICK j \in T : TRUE
    OBVIOUS
  <2>5. b - j \in U
    BY <2>4
  <2> QED
    BY <2>3, <2>5
<1> HIDE DEF U
<1>2. PICK u \in U : \A v \in U : u <= v
  BY <1>1, LeastNatural
<1>3. PICK m \in T : u = b - m
  BY <1>2 DEF U
<1>4. ASSUME NEW j \in T
      PROVE  j <= m
  <2>1. b - m <= b - j
    BY <1>2, <1>3 DEF U
  <2> QED
    BY <2>1
<1> QED
  BY <1>4

-----------------------------------------------------------------------------
(* The schedule offered for a departure time *)

\* The time the schedule covers: a day where no departure time is given.
Wanted(departure) == IF departure = 0 THEN Day ELSE departure

\* Slots(d) days are as many as it takes to reach d, and no more.
LEMMA SlotsReach ==
  ASSUME NEW d \in Nat, d > 0
  PROVE  /\ Slots(d) \in Nat /\ Slots(d) >= 1
         /\ (Slots(d) - 1) * Day < d
         /\ d <= Slots(d) * Day
BY DEF Slots, Day

\* What get_sa_schedule_list makes, entry by entry.
LEMMA ScheduleEntries ==
  ASSUME NEW departure \in Nat
  PROVE  LET s == SaScheduleList(departure)
             d == Wanted(departure)
             n == Slots(d)
         IN /\ d \in Nat /\ d > 0 /\ n \in Nat /\ n >= 1
            /\ Len(s) = n /\ DOMAIN s = 1..n /\ s # <<>>
            /\ \A i \in 1..n :
                 /\ s[i].start = (i - 1) * Day
                 /\ s[i].power = IF i % 2 = 1 THEN 11000 ELSE 7000
                 /\ s[i].duration = IF i = n THEN d - (i - 1) * Day ELSE 0
<1> DEFINE d == Wanted(departure)
           n == Slots(d)
           s == SaScheduleList(departure)
<1>1. d \in Nat /\ d > 0
  BY DEF Wanted, Day
<1>2. n \in Nat /\ n >= 1
  BY <1>1, SlotsReach
<1>3. s = [i \in 1..n |-> [start |-> (i - 1) * Day,
                           duration |-> IF i = n THEN d - (i - 1) * Day ELSE 0,
                           power |-> IF i % 2 = 1 THEN 11000 ELSE 7000]]
  BY DEF SaScheduleList, Wanted
<1> HIDE DEF d, n, s
<1>4. \A i \in 1..n : (i - 1) * Day \in Int /\ d - (i - 1) * Day \in Int
  BY <1>1, <1>2 DEF Day
<1>5. DOMAIN s = 1..n
  BY <1>3
<1>6. s \in Seq([start : Int, duration : Int, power : Int])
  BY <1>2, <1>3, <1>4
<1>7. Len(s) = n /\ s # <<>>
  BY <1>2, <1>5, <1>6
<1>8. \A i \in 1..n :
        /\ s[i].start = (i - 1) * Day
        /\ s[i].power = IF i % 2 = 1 THEN 11000 ELSE 7000
        /\ s[i].duration = IF i = n THEN d - (i - 1) * Day ELSE 0
  BY <1>3
<1> QED
  BY <1>1, <1>2, <1>5, <1>7, <1>8 DEF d, n, s

\* When the entries end: each with the next one's start, the last one at the
\* departure.
LEMMA ScheduleEnds ==
  ASSUME NEW departure \in Nat
  PROVE  LET s == SaScheduleList(departure)
             n == Slots(Wanted(departure))
         IN \A i \in 1..n :
              EndOf(s, i) = IF i < n THEN i * Day ELSE Wanted(departure)
<1> DEFINE d == Wanted(departure)
           n == Slots(d)
           s == SaScheduleList(departure)
<1>1. /\ d \in Nat /\ n \in Nat /\ Len(s) = n
      /\ \A i \in 1..n :
           /\ s[i].start = (i - 1) * Day
           /\ s[i].duration = IF i = n THEN d - (i - 1) * Day ELSE 0
  BY ScheduleEntries
<1> HIDE DEF d, n, s
<1> SUFFICES ASSUME NEW i \in 1..n
             PROVE  EndOf(s, i) = IF i < n THEN i * Day ELSE d
  BY DEF d, n, s
<1>2. CASE i < n
  <2>1. i + 1 \in 1..n
    BY <1>1, <1>2
  <2>2. s[i + 1].start = i * Day
    BY <1>1, <2>1
  <2> QED
    BY <1>1, <1>2, <2>2 DEF EndOf
<1>3. CASE ~ (i < n)
  <2>1. i = n
    BY <1>1, <1>3
  <2>2. EndOf(s, i) = (i - 1) * Day + (d - (i - 1) * Day)
    BY <1>1, <2>1 DEF EndOf
  <2> QED
    BY <1>1, <1>3, <2>2 DEF Day
<1> QED
  BY <1>2, <1>3

\* For every departure time an EV may give, and for none, the offer runs from
\* the start to the departure without a gap ([V2G2-304], get_sa_schedule_list).
THEOREM OfferCovers ==
  ASSUME NEW departure \in Nat
  PROVE  LET s == SaScheduleList(departure)
         IN /\ s # <<>> /\ s[1].start = 0
            /\ \A i \in 1..(Len(s) - 1) :
                 s[i].start < s[i + 1].start /\ EndOf(s, i) = s[i + 1].start
            /\ s[Len(s)].start < EndOf(s, Len(s))
            /\ EndOf(s, Len(s)) = Wanted(departure)
<1> DEFINE d == Wanted(departure)
           n == Slots(d)
           s == SaScheduleList(departure)
<1>1. /\ d \in Nat /\ d > 0 /\ n \in Nat /\ n >= 1 /\ Len(s) = n /\ s # <<>>
      /\ \A i \in 1..n : s[i].start = (i - 1) * Day
  BY ScheduleEntries
<1>2. \A i \in 1..n : EndOf(s, i) = IF i < n THEN i * Day ELSE d
  BY ScheduleEnds
<1>3. (n - 1) * Day < d
  BY <1>1, SlotsReach
<1> HIDE DEF d, n, s
<1>4. s[1].start = 0
  BY <1>1 DEF Day
<1>5. \A i \in 1..(Len(s) - 1) :
        s[i].start < s[i + 1].start /\ EndOf(s, i) = s[i + 1].start
  <2> SUFFICES ASSUME NEW i \in 1..(n - 1)
               PROVE  s[i].start < s[i + 1].start /\ EndOf(s, i) = s[i + 1].start
    BY <1>1
  <2>1. i \in 1..n /\ i + 1 \in 1..n /\ i < n
    BY <1>1
  <2>2. s[i].start = (i - 1) * Day /\ s[i + 1].start = i * Day
    BY <1>1, <2>1
  <2> QED
    BY <1>2, <2>1, <2>2 DEF Day
<1>6. s[n].start < EndOf(s, n) /\ EndOf(s, n) = d
  BY <1>1, <1>2, <1>3
<1> QED
  BY <1>1, <1>4, <1>5, <1>6 DEF d, s

\* The entries of the profile this project's EV makes: the offer's, and the end.
LEMMA OwnProfileEntries ==
  ASSUME NEW departure \in Nat
  PROVE  LET s == SaScheduleList(departure)
             d == Wanted(departure)
             n == Slots(d)
             p == OwnProfile(s)
         IN /\ DOMAIN p = 1..(n + 1) /\ Len(p) = n + 1
            /\ \A i \in 1..n : p[i].start = (i - 1) * Day /\ p[i].power = s[i].power
            /\ p[n + 1].start = d /\ p[n + 1].power = 0
            /\ (n - 1) * Day < d
<1> DEFINE d == Wanted(departure)
           n == Slots(d)
           s == SaScheduleList(departure)
           p == OwnProfile(s)
<1>1. /\ d \in Nat /\ d > 0 /\ n \in Nat /\ n >= 1
      /\ Len(s) = n /\ DOMAIN s = 1..n
      /\ \A i \in 1..n :
           /\ s[i].start = (i - 1) * Day
           /\ s[i].power = IF i % 2 = 1 THEN 11000 ELSE 7000
           /\ s[i].duration = IF i = n THEN d - (i - 1) * Day ELSE 0
  BY ScheduleEntries
<1>3. (n - 1) * Day < d
  BY <1>1, SlotsReach
<1> HIDE DEF d, n, s
<1>4. s[n].duration # 0 /\ s[n].start + s[n].duration = d
  <2>1. s[n].duration = d - (n - 1) * Day /\ s[n].start = (n - 1) * Day
    BY <1>1
  <2> QED
    BY <1>1, <1>3, <2>1 DEF Day
<1>5. p = [i \in 1..(n + 1) |->
             IF i <= n THEN [start |-> s[i].start, power |-> s[i].power]
             ELSE [start |-> d, power |-> 0]]
  BY <1>1, <1>4 DEF OwnProfile
<1> HIDE DEF p
<1>6. DOMAIN p = 1..(n + 1) /\ Len(p) = n + 1
  <2>1. \A i \in 1..n : s[i].start \in Int /\ s[i].power \in Int
    BY <1>1 DEF Day
  <2>2. p \in Seq([start : Int, power : Int])
    BY <1>1, <1>5, <2>1
  <2> QED
    BY <1>1, <1>5, <2>2
<1>7. \A i \in 1..n : p[i].start = (i - 1) * Day /\ p[i].power = s[i].power
  BY <1>1, <1>5
<1>8. p[n + 1].start = d /\ p[n + 1].power = 0
  BY <1>1, <1>5
<1> QED
  BY <1>3, <1>6, <1>7, <1>8 DEF d, n, s, p

\* The profile this project's EV makes of an offer keeps to it, whatever the
\* departure time (process_sa_schedules_v2).
THEOREM OwnProfileAdheres ==
  ASSUME NEW departure \in Nat
  PROVE  LET s == SaScheduleList(departure) IN Adheres(OwnProfile(s), s)
<1> DEFINE d == Wanted(departure)
           n == Slots(d)
           s == SaScheduleList(departure)
           p == OwnProfile(s)
<1>1. /\ d \in Nat /\ d > 0 /\ n \in Nat /\ n >= 1
      /\ Len(s) = n /\ DOMAIN s = 1..n
      /\ \A i \in 1..n :
           /\ s[i].start = (i - 1) * Day
           /\ s[i].power = IF i % 2 = 1 THEN 11000 ELSE 7000
           /\ s[i].duration = IF i = n THEN d - (i - 1) * Day ELSE 0
  BY ScheduleEntries
<1>2. \A i \in 1..n : EndOf(s, i) = IF i < n THEN i * Day ELSE d
  BY ScheduleEnds
<1>3. DOMAIN p = 1..(n + 1) /\ Len(p) = n + 1
  BY OwnProfileEntries
<1>4. \A i \in 1..n : p[i].start = (i - 1) * Day /\ p[i].power = s[i].power
  BY OwnProfileEntries
<1>5. p[n + 1].start = d /\ p[n + 1].power = 0
  BY OwnProfileEntries
<1> HIDE DEF d, n, s, p
<1>6. \A j \in 1..n : s[j].power \in Nat
  BY <1>1
<1>7. ASSUME NEW i \in 1..(n + 1), NEW j \in 1..n, Overlap(p, s, i, j)
      PROVE  p[i].power <= s[j].power
  <2>1. CASE i = n + 1
    BY <1>5, <1>6, <2>1
  <2>2. CASE i <= n
    <3>1. i \in 1..n /\ i < Len(p)
      BY <1>1, <1>3, <2>2
    <3>2. (i - 1) * Day < IF j < n THEN j * Day ELSE d
      BY <1>2, <1>4, <1>7, <3>1 DEF Overlap
    <3>3. p[i + 1].start > (j - 1) * Day
      BY <1>1, <1>7, <3>1 DEF Overlap
    <3>4. i <= j
      BY <1>1, <3>1, <3>2 DEF Day
    <3>5. j <= i
      <4>1. CASE i < n
        <5>1. p[i + 1].start = i * Day
          BY <1>1, <1>4, <3>1, <4>1
        <5> QED
          BY <1>1, <3>1, <3>3, <5>1 DEF Day
      <4>2. CASE i = n
        BY <1>1, <4>2
      <4> QED
        BY <1>1, <3>1, <4>1, <4>2
    <3>6. i = j
      BY <1>1, <3>4, <3>5
    <3> QED
      BY <1>4, <1>6, <3>6
  <2>3. i = n + 1 \/ i <= n
    BY <1>1
  <2> QED
    BY <2>1, <2>2, <2>3
<1> QED
  BY <1>1, <1>3, <1>7 DEF Adheres, AdheresTo, p, s

-----------------------------------------------------------------------------
(* The SECC's check of a profile *)

\* Where the check goes on after the i-th entry of a schedule, from before.
Skips(profile, schedule, i, before) ==
  LET done == Done(profile, EndOf(schedule, i), before)
  IN  before + IF done = {} THEN 0 ELSE 1 + CHOOSE k \in done : \A j \in done : j <= k

\* c says where it is, for the first n entries.
Caches(c, profile, schedule, n) ==
  c = [i \in 1..n |-> IF i = 1 THEN 0 ELSE Skips(profile, schedule, i - 1, c[i - 1])]

\* The recursion of Cached has a solution, by induction over the entries.
LEMMA CachesExist ==
  ASSUME NEW profile, NEW schedule, NEW n \in Nat
  PROVE  \E c : Caches(c, profile, schedule, n)
<1> DEFINE Known(m) == \E c : Caches(c, profile, schedule, m)
           Step(i, before) == Skips(profile, schedule, i, before)
           T == { m \in Nat : ~ Known(m) }
<1>1. Known(0)
  <2>1. Caches([i \in 1..0 |-> 0], profile, schedule, 0)
    BY DEF Caches
  <2> QED
    BY <2>1
<1>2. ASSUME NEW m \in Nat, Known(m)
      PROVE  Known(m + 1)
  <2>1. PICK c : Caches(c, profile, schedule, m)
    BY <1>2
  <2> HIDE DEF Step
  <2>2. c = [i \in 1..m |-> IF i = 1 THEN 0 ELSE Step(i - 1, c[i - 1])]
    BY <2>1 DEF Caches, Step
  <2> DEFINE d == [i \in 1..(m + 1) |-> IF i = 1 THEN 0 ELSE Step(i - 1, c[i - 1])]
  <2>3. \A i \in 1..m : d[i] = c[i]
    BY <2>2
  <2>4. \A i \in 1..(m + 1) : i # 1 => i - 1 \in 1..m
    OBVIOUS
  <2>5. d = [i \in 1..(m + 1) |-> IF i = 1 THEN 0 ELSE Step(i - 1, d[i - 1])]
    BY <2>3, <2>4
  <2> HIDE DEF d
  <2>6. Caches(d, profile, schedule, m + 1)
    BY <2>5 DEF Caches, Step
  <2> QED
    BY <2>6
<1> HIDE DEF Known
<1>3. \A m \in Nat : Known(m)
  <2>1. SUFFICES ASSUME T # {}
                 PROVE  FALSE
    OBVIOUS
  <2>2. PICK m \in T : \A j \in T : m <= j
    BY <2>1, LeastNatural
  <2>3. m # 0 /\ m - 1 \in Nat /\ m - 1 \notin T
    BY <1>1, <2>2
  <2>4. Known((m - 1) + 1)
    BY <1>2, <2>3
  <2> QED
    BY <2>2, <2>3, <2>4
<1> QED
  BY <1>3 DEF Known

\* And Cached is one.
LEMMA CachedCaches ==
  ASSUME NEW profile, NEW schedule, Len(schedule) \in Nat
  PROVE  Caches(Cached(profile, schedule), profile, schedule, Len(schedule))
<1> DEFINE n == Len(schedule)
<1>1. PICK c : Caches(c, profile, schedule, n)
  BY CachesExist
<1>2. Cached(profile, schedule) =
        CHOOSE d : d = [i \in 1..n |-> IF i = 1 THEN 0 ELSE Skips(profile, schedule, i - 1, d[i - 1])]
  BY DEF Cached, Skips
<1> QED
  BY <1>1, <1>2 DEF Caches

\* The check lets the profile pass that this project's EV makes of an offer.
THEOREM OwnProfileIsValid ==
  ASSUME NEW departure \in Nat
  PROVE  LET s == SaScheduleList(departure) IN ProfileValid(OwnProfile(s), s)
<1> DEFINE d == Wanted(departure)
           n == Slots(d)
           s == SaScheduleList(departure)
           p == OwnProfile(s)
           c == Cached(p, s)
<1>1. /\ d \in Nat /\ d > 0 /\ n \in Nat /\ n >= 1
      /\ Len(s) = n /\ DOMAIN s = 1..n
      /\ \A i \in 1..n :
           /\ s[i].start = (i - 1) * Day
           /\ s[i].power = IF i % 2 = 1 THEN 11000 ELSE 7000
           /\ s[i].duration = IF i = n THEN d - (i - 1) * Day ELSE 0
  BY ScheduleEntries
<1>2. \A i \in 1..n : EndOf(s, i) = IF i < n THEN i * Day ELSE d
  BY ScheduleEnds
<1>3. /\ Len(p) = n + 1
      /\ \A i \in 1..n : p[i].start = (i - 1) * Day /\ p[i].power = s[i].power
      /\ p[n + 1].start = d /\ p[n + 1].power = 0
      /\ (n - 1) * Day < d
  BY OwnProfileEntries
<1>4. c = [i \in 1..n |-> IF i = 1 THEN 0 ELSE Skips(p, s, i - 1, c[i - 1])]
  BY <1>1, CachedCaches DEF Caches
<1> HIDE DEF d, n, s, p, c
<1>5. ASSUME NEW i \in 1..n, i < n
      PROVE  Visited(p, EndOf(s, i), i - 1) = { 0 }
  <2> DEFINE first == i - 1
  <2>1. p[i].start < EndOf(s, i)
    BY <1>1, <1>2, <1>3, <1>5 DEF Day
  <2>2. ~ (p[i + 1].start < EndOf(s, i)) /\ p[i + 1].start # p[Len(p)].start
    BY <1>1, <1>2, <1>3, <1>5 DEF Day
  <2>3. first + 0 + 1 = i /\ first + 1 + 1 = i + 1
    BY <1>1
  <2>4. Len(p) - first - 1 \in Nat
    BY <1>1, <1>3
  <2> HIDE DEF first
  <2>5. ASSUME NEW k \in Visited(p, EndOf(s, i), first)
        PROVE  k = 0
    BY <1>1, <2>2, <2>3, <2>4, <2>5 DEF Visited
  <2>6. 0 \in Visited(p, EndOf(s, i), first)
    BY <1>1, <2>1, <2>3, <2>4 DEF Visited
  <2> QED
    BY <2>5, <2>6 DEF first
<1>6. ASSUME NEW i \in 1..n, i < n
      PROVE  Skips(p, s, i, i - 1) = i
  <2>1. /\ p[i].start # p[Len(p)].start
        /\ p[2].start <= EndOf(s, i)
    BY <1>1, <1>2, <1>3, <1>6 DEF Day
  <2>2. Done(p, EndOf(s, i), i - 1) = { 0 }
    <3>1. (i - 1) + 0 + 1 = i /\ 0 + 2 = 2
      BY <1>1
    <3>2. Visited(p, EndOf(s, i), i - 1) = { 0 }
      BY <1>5, <1>6
    <3> QED
      BY <2>1, <3>1, <3>2, Zenon DEF Done
  <2>3. (CHOOSE k \in { 0 } : \A j \in { 0 } : j <= k) = 0
    OBVIOUS
  <2>4. Skips(p, s, i, i - 1) = (i - 1) + (1 + 0)
    BY <2>2, <2>3, Zenon DEF Skips
  <2> QED
    BY <1>1, <2>4
<1>7. \A i \in 1..n : c[i] = i - 1
  <2> DEFINE T == { i \in 1..n : c[i] # i - 1 }
  <2>1. SUFFICES ASSUME T # {}
                 PROVE  FALSE
    OBVIOUS
  <2>2. PICK i \in T : \A j \in T : i <= j
    <3>1. T \subseteq Nat
      BY <1>1
    <3> HIDE DEF T
    <3> QED
      BY <2>1, <3>1, LeastNatural
  <2>3. i \in 1..n /\ i # 1 /\ i - 1 \in 1..n /\ i - 1 < n /\ i - 1 \notin T
    <3>1. i \in 1..n /\ c[i] # i - 1
      BY <2>2
    <3>2. i # 1
      BY <1>1, <1>4, <3>1
    <3>3. i - 1 \in 1..n /\ i - 1 < n
      BY <1>1, <3>1, <3>2
    <3>4. i - 1 \notin T
      BY <2>2, <3>3
    <3> QED
      BY <3>1, <3>2, <3>3, <3>4
  <2>4. c[i - 1] = (i - 1) - 1
    BY <2>3
  <2>5. c[i] = Skips(p, s, i - 1, (i - 1) - 1)
    BY <1>4, <2>3, <2>4
  <2>6. Skips(p, s, i - 1, (i - 1) - 1) = i - 1
    BY <1>6, <2>3
  <2> QED
    BY <2>2, <2>5, <2>6
<1>8. \A i \in 1..n : s[i].power \in Nat
  BY <1>1
<1>9. ASSUME NEW i \in 1..n, NEW k \in Visited(p, EndOf(s, i), i - 1)
      PROVE  p[(i - 1) + k + 1].power <= s[i].power
  <2>1. s[i].power \in Nat
    BY <1>8
  <2>2. CASE i < n
    <3>1. k = 0
      BY <1>5, <1>9, <2>2
    <3> QED
      BY <1>1, <1>3, <2>1, <3>1
  <2>3. CASE ~ (i < n)
    <3>1. i = n
      BY <1>1, <2>3
    <3>2. k \in 0..((n + 1) - (n - 1) - 1)
      BY <1>1, <1>3, <1>9, <3>1 DEF Visited
    <3>3. k = 0 \/ k = 1
      BY <1>1, <3>2
    <3>4. (i - 1) + k + 1 = n \/ (i - 1) + k + 1 = n + 1
      BY <1>1, <3>1, <3>3
    <3>5. /\ p[n].power = s[n].power /\ p[n + 1].power = 0
          /\ s[i] = s[n]
      BY <1>1, <1>3, <3>1
    <3> QED
      BY <2>1, <3>1, <3>4, <3>5
  <2> QED
    BY <2>2, <2>3
<1>10. \A i \in DOMAIN s : \A k \in Visited(p, EndOf(s, i), c[i]) :
        p[c[i] + k + 1].power <= s[i].power
  <2> SUFFICES ASSUME NEW i \in DOMAIN s, NEW k \in Visited(p, EndOf(s, i), c[i])
               PROVE  p[c[i] + k + 1].power <= s[i].power
    OBVIOUS
  <2>1. i \in 1..n /\ c[i] = i - 1
    BY <1>1, <1>7
  <2> QED
    BY <1>9, <2>1
<1> QED
  BY <1>10 DEF ProfileValid, c, p, s


\* What an entry of a profile is.
LEMMA EntryTyped ==
  ASSUME NEW profile \in Seq(ProfileEntry), NEW i \in DOMAIN profile
  PROVE  profile[i].start \in Nat
<1>1. profile[i] \in ProfileEntry
  OBVIOUS
<1> QED
  BY <1>1 DEF ProfileEntry

\* An entry that starts before the end is looked at, unless it was skipped.
LEMMA VisitedBeforeEnd ==
  ASSUME NEW profile \in Seq(ProfileEntry), InOrder(profile), NEW end \in Int,
         NEW from \in Nat, NEW i \in DOMAIN profile, from < i, profile[i].start < end
  PROVE  i - from - 1 \in Visited(profile, end, from)
<1> DEFINE k == i - from - 1
<1>1. k \in 0..(Len(profile) - from - 1)
  OBVIOUS
<1>2. ASSUME NEW j \in 0..k
      PROVE  profile[from + j + 1].start < end
  <2>1. from + j + 1 \in DOMAIN profile /\ from + j + 1 <= i
    BY <1>1
  <2>2. profile[from + j + 1].start <= profile[i].start
    BY <2>1 DEF InOrder
  <2>3. profile[from + j + 1].start \in Nat /\ profile[i].start \in Nat
    BY <2>1, EntryTyped
  <2> QED
    BY <2>2, <2>3
<1> QED
  BY <1>1, <1>2 DEF Visited

\* A profile in order that passes the check keeps to the first two slots.
THEOREM FirstSlotsChecked ==
  ASSUME NEW profile \in Seq(ProfileEntry), InOrder(profile), NEW departure \in Nat,
         ProfileValid(profile, SaScheduleList(departure))
  PROVE  LET s == SaScheduleList(departure) IN AdheresTo(profile, s, {1, 2} \cap DOMAIN s)
<1> DEFINE d == Wanted(departure)
           n == Slots(d)
           s == SaScheduleList(departure)
           c == Cached(profile, s)
<1>1. /\ d \in Nat /\ d > 0 /\ n \in Nat /\ n >= 1
      /\ Len(s) = n /\ DOMAIN s = 1..n
      /\ \A i \in 1..n :
           /\ s[i].start = (i - 1) * Day
           /\ s[i].power = IF i % 2 = 1 THEN 11000 ELSE 7000
           /\ s[i].duration = IF i = n THEN d - (i - 1) * Day ELSE 0
  BY ScheduleEntries
<1>2. \A i \in 1..n : EndOf(s, i) = IF i < n THEN i * Day ELSE d
  BY ScheduleEnds
<1>3. c = [i \in 1..n |-> IF i = 1 THEN 0 ELSE Skips(profile, s, i - 1, c[i - 1])]
  BY <1>1, CachedCaches DEF Caches
<1>4. ProfileValid(profile, s)
  OBVIOUS
<1>5. \A i \in 1..n : \A k \in Visited(profile, EndOf(s, i), c[i]) :
        profile[c[i] + k + 1].power <= s[i].power
  BY <1>1, <1>4 DEF ProfileValid
<1> HIDE DEF d, n, s, c
<1>6. \A i \in 1..n : EndOf(s, i) \in Int
  BY <1>1, <1>2 DEF Day
<1>7. ASSUME NEW j \in 1..n, c[j] \in Nat, NEW i \in DOMAIN profile, c[j] < i,
             profile[i].start < EndOf(s, j)
      PROVE  profile[i].power <= s[j].power
  <2>1. i - c[j] - 1 \in Visited(profile, EndOf(s, j), c[j])
    BY <1>6, <1>7, VisitedBeforeEnd
  <2>2. c[j] + (i - c[j] - 1) + 1 = i
    BY <1>7
  <2> QED
    BY <1>5, <2>1, <2>2
<1>8. n >= 2 => s[2].start \in Int
  <2>1. n >= 2 => s[2].start = (2 - 1) * Day
    BY <1>1
  <2> QED
    BY <2>1 DEF Day
<1>9. c[1] = 0
  BY <1>1, <1>3
<1>10. ASSUME n >= 2
      PROVE  /\ c[2] \in Nat
             /\ \A i \in DOMAIN profile :
                  i <= c[2] => i < Len(profile) /\ profile[i + 1].start <= s[2].start
  <2> DEFINE done == Done(profile, EndOf(s, 1), 0)
             most == CHOOSE k \in done : \A j \in done : j <= k
  <2>1. c[2] = 0 + IF done = {} THEN 0 ELSE 1 + most
    <3>1. c[2] = Skips(profile, s, 1, 0)
      BY <1>1, <1>3, <1>9, <1>10
    <3> QED
      BY <3>1 DEF Skips
  <2>2. EndOf(s, 1) = s[2].start
    BY <1>1, <1>2, <1>10
  <2>3. ASSUME NEW k \in done
        PROVE  /\ k \in 0..(Len(profile) - 1) /\ k + 1 < Len(profile)
               /\ profile[k + 2].start <= s[2].start
    <3>1. /\ k \in 0..(Len(profile) - 0 - 1)
          /\ profile[0 + k + 1].start # profile[Len(profile)].start
          /\ profile[k + 2].start <= EndOf(s, 1)
      BY <2>3 DEF Done, Visited
    <3>2. k + 1 # Len(profile)
      BY <3>1
    <3> QED
      BY <2>2, <3>1, <3>2
  <2>4. CASE done = {}
    BY <2>1, <2>4
  <2>5. CASE done # {}
    <3>1. Len(profile) \in Nat /\ done \in SUBSET (0..Len(profile))
      BY <2>3
    <3> HIDE DEF done
    <3>2. \E k \in done : \A j \in done : j <= k
      BY <2>5, <3>1, GreatestNatural
    <3>3. most \in done
      BY <3>2
    <3> HIDE DEF most
    <3>4. most \in Nat /\ most + 1 < Len(profile) /\ profile[most + 2].start <= s[2].start
      BY <2>3, <3>3
    <3>5. c[2] = most + 1
      BY <2>1, <2>5, <3>4
    <3>6. ASSUME NEW i \in DOMAIN profile, i <= most + 1
          PROVE  i < Len(profile) /\ profile[i + 1].start <= s[2].start
      <4>1. i + 1 \in DOMAIN profile /\ most + 2 \in DOMAIN profile /\ i + 1 <= most + 2
        BY <3>4, <3>6
      <4>2. profile[i + 1].start <= profile[most + 2].start
        BY <4>1 DEF InOrder
      <4>3. profile[i + 1].start \in Nat /\ profile[most + 2].start \in Nat /\ s[2].start \in Int
        BY <1>8, <1>10, <4>1, EntryTyped
      <4> QED
        BY <3>4, <3>6, <4>2, <4>3
    <3> QED
      BY <3>4, <3>5, <3>6
  <2> QED
    BY <2>4, <2>5
<1>11. ASSUME NEW i \in DOMAIN profile, NEW j \in 1..n, j \in {1, 2}, Overlap(profile, s, i, j)
      PROVE  profile[i].power <= s[j].power
  <2>1. profile[i].start < EndOf(s, j) /\ (i < Len(profile) => profile[i + 1].start > s[j].start)
    BY <1>11 DEF Overlap
  <2>2. CASE j = 1
    BY <1>7, <1>9, <2>1, <2>2
  <2>3. CASE j = 2
    <3>1. n >= 2
      BY <1>1, <2>3
    <3>2. c[2] \in Nat
      BY <1>10, <3>1
    <3>3. ~ (i <= c[2])
      <4>1. SUFFICES ASSUME i <= c[2]
                     PROVE  FALSE
        OBVIOUS
      <4>2. i < Len(profile) /\ profile[i + 1].start <= s[2].start
        BY <1>10, <3>1, <4>1
      <4>3. i + 1 \in DOMAIN profile
        BY <4>2
      <4>4. profile[i + 1].start \in Nat /\ s[2].start \in Int
        BY <1>8, <3>1, <4>3, EntryTyped
      <4> QED
        BY <2>1, <2>3, <4>2, <4>4
    <3> QED
      BY <1>7, <2>1, <2>3, <3>2, <3>3
  <2> QED
    BY <1>11, <2>2, <2>3
<1>12. AdheresTo(profile, s, {1, 2} \cap DOMAIN s)
  BY <1>1, <1>11 DEF AdheresTo
<1> QED
  BY <1>12 DEF s

-----------------------------------------------------------------------------
(* Powers of ten, and a number's form in a message *)

\* f is the first powers of ten, up to the n-th.
Powers(f, n) == f = [q \in 0..n |-> IF q = 0 THEN 1 ELSE 10 * f[q - 1]]

\* The recursion of Pow10 has a solution, by induction.
LEMMA PowersExist ==
  ASSUME NEW n \in Nat
  PROVE  \E f : Powers(f, n)
<1> DEFINE Known(m) == \E f : Powers(f, m)
           T == { m \in Nat : ~ Known(m) }
<1>1. Known(0)
  <2>1. Powers([q \in 0..0 |-> 1], 0)
    BY DEF Powers
  <2> QED
    BY <2>1
<1>2. ASSUME NEW m \in Nat, Known(m)
      PROVE  Known(m + 1)
  <2>1. PICK f : f = [q \in 0..m |-> IF q = 0 THEN 1 ELSE 10 * f[q - 1]]
    BY <1>2 DEF Powers
  <2> DEFINE g == [q \in 0..(m + 1) |-> IF q = 0 THEN 1 ELSE 10 * f[q - 1]]
  <2>2. \A q \in 0..m : g[q] = f[q]
    BY <2>1
  <2>3. \A q \in 0..(m + 1) : q # 0 => q - 1 \in 0..m
    OBVIOUS
  <2>4. g = [q \in 0..(m + 1) |-> IF q = 0 THEN 1 ELSE 10 * g[q - 1]]
    BY <2>2, <2>3
  <2> HIDE DEF g
  <2>5. Powers(g, m + 1)
    BY <2>4 DEF Powers
  <2> QED
    BY <2>5
<1> HIDE DEF Known
<1>3. \A m \in Nat : Known(m)
  <2>1. SUFFICES ASSUME T # {}
                 PROVE  FALSE
    OBVIOUS
  <2>2. PICK m \in T : \A j \in T : m <= j
    BY <2>1, LeastNatural
  <2>3. m # 0 /\ m - 1 \in Nat /\ m - 1 \notin T
    BY <1>1, <2>2
  <2>4. Known((m - 1) + 1)
    BY <1>2, <2>3
  <2> QED
    BY <2>2, <2>3, <2>4
<1> QED
  BY <1>3 DEF Known

\* Solutions agree wherever both are defined.
LEMMA PowersAgree ==
  ASSUME NEW m \in Nat, NEW n \in Nat, NEW f, NEW g, Powers(f, m), Powers(g, n)
  PROVE  \A q \in Nat : q <= m /\ q <= n => f[q] = g[q]
<1> DEFINE T == { q \in Nat : q <= m /\ q <= n /\ f[q] # g[q] }
<1>1. SUFFICES ASSUME T # {}
               PROVE  FALSE
  OBVIOUS
<1>2. PICK q \in T : \A j \in T : q <= j
  <2>1. T \subseteq Nat
    OBVIOUS
  <2> HIDE DEF T
  <2> QED
    BY <1>1, <2>1, LeastNatural
<1>3. q \in Nat /\ q \in 0..m /\ q \in 0..n /\ f[q] # g[q]
  OBVIOUS
<1>4. /\ f[q] = IF q = 0 THEN 1 ELSE 10 * f[q - 1]
      /\ g[q] = IF q = 0 THEN 1 ELSE 10 * g[q - 1]
  BY <1>3 DEF Powers
<1>5. q # 0 /\ q - 1 \in Nat /\ f[q - 1] # g[q - 1]
  BY <1>3, <1>4
<1>6. q - 1 \in T
  BY <1>3, <1>5
<1> QED
  BY <1>2, <1>3, <1>6

\* What Pow10 is.
LEMMA Pow10Is ==
  /\ Pow10[0] = 1
  /\ \A q \in Nat : Pow10[q + 1] = 10 * Pow10[q]
<1> DEFINE f(n) == CHOOSE f : Powers(f, n)
           g == [q \in Nat |-> f(q)[q]]
<1>1. \A n \in Nat : Powers(f(n), n)
  BY PowersExist
<1> HIDE DEF f
<1>2. ASSUME NEW q \in Nat
      PROVE  g[q] = IF q = 0 THEN 1 ELSE 10 * g[q - 1]
  <2>1. f(q)[q] = IF q = 0 THEN 1 ELSE 10 * f(q)[q - 1]
    BY <1>1 DEF Powers
  <2>2. ASSUME q # 0
        PROVE  f(q)[q - 1] = g[q - 1]
    <3>1. q - 1 \in Nat /\ q - 1 <= q
      BY <2>2
    <3>2. f(q)[q - 1] = f(q - 1)[q - 1]
      BY <1>1, <3>1, PowersAgree
    <3> QED
      BY <3>1, <3>2
  <2> QED
    BY <2>1, <2>2
<1> HIDE DEF g
<1>3. g = [q \in Nat |-> IF q = 0 THEN 1 ELSE 10 * g[q - 1]]
  <2>1. g = [q \in Nat |-> g[q]]
    BY DEF g
  <2> QED
    BY <1>2, <2>1
<1>4. Pow10 = CHOOSE h : h = [q \in Nat |-> IF q = 0 THEN 1 ELSE 10 * h[q - 1]]
  BY DEF Pow10
<1>5. Pow10 = [q \in Nat |-> IF q = 0 THEN 1 ELSE 10 * Pow10[q - 1]]
  BY <1>3, <1>4
<1>6. ASSUME NEW q \in Nat
      PROVE  Pow10[q + 1] = 10 * Pow10[q]
  <2>1. q + 1 \in Nat /\ q + 1 # 0 /\ (q + 1) - 1 = q
    OBVIOUS
  <2>2. Pow10[q + 1] = 10 * Pow10[(q + 1) - 1]
    BY <1>5, <2>1
  <2> QED
    BY <2>1, <2>2
<1> QED
  BY <1>5, <1>6

\* A power of ten is a positive integer.
LEMMA Pow10Positive ==
  ASSUME NEW q \in Nat
  PROVE  Pow10[q] \in Nat /\ Pow10[q] > 0
<1> DEFINE T == { n \in Nat : ~ (Pow10[n] \in Nat /\ Pow10[n] > 0) }
<1>1. SUFFICES ASSUME T # {}
               PROVE  FALSE
  OBVIOUS
<1>2. PICK n \in T : \A j \in T : n <= j
  <2>1. T \subseteq Nat
    OBVIOUS
  <2> HIDE DEF T
  <2> QED
    BY <1>1, <2>1, LeastNatural
<1>3. n \in Nat /\ n # 0
  BY Pow10Is
<1>4. n - 1 \in Nat /\ n - 1 \notin T
  BY <1>2, <1>3
<1>5. Pow10[n - 1] \in Nat /\ Pow10[n - 1] > 0
  BY <1>4
<1>6. Pow10[(n - 1) + 1] = 10 * Pow10[n - 1]
  BY <1>4, Pow10Is
<1>7. (n - 1) + 1 = n
  BY <1>3
<1> QED
  BY <1>5, <1>6, <1>7

\* It is no less than its exponent.
LEMMA Pow10Reaches ==
  ASSUME NEW q \in Nat
  PROVE  Pow10[q] >= q
<1> DEFINE T == { n \in Nat : ~ (Pow10[n] >= n) }
<1>1. SUFFICES ASSUME T # {}
               PROVE  FALSE
  OBVIOUS
<1>2. PICK n \in T : \A j \in T : n <= j
  <2>1. T \subseteq Nat
    OBVIOUS
  <2> HIDE DEF T
  <2> QED
    BY <1>1, <2>1, LeastNatural
<1>3. n \in Nat /\ n # 0
  BY Pow10Is
<1>4. n - 1 \in Nat /\ n - 1 \notin T
  BY <1>2, <1>3
<1>5. Pow10[n - 1] \in Nat /\ Pow10[n - 1] > 0 /\ Pow10[n - 1] >= n - 1
  BY <1>4, Pow10Positive
<1>6. Pow10[(n - 1) + 1] = 10 * Pow10[n - 1]
  BY <1>4, Pow10Is
<1>7. (n - 1) + 1 = n
  BY <1>3
<1> QED
  BY <1>3, <1>5, <1>6, <1>7

\* Numbers of finitely many digits.
Decimal(x) == x.n \in Int /\ x.p \in Nat

\* Division cuts off.
LEMMA Divides ==
  ASSUME NEW a \in Nat, NEW d \in Nat, d > 0
  PROVE  /\ a \div d \in Nat
         /\ (a \div d) * d <= a
         /\ a < (a \div d + 1) * d
OBVIOUS

\* The first loop ends.
LEMMA MultipliedEnds ==
  ASSUME NEW x, x.p \in Nat
  PROVE  Multiplied(x) \in 0..3
<1> DEFINE Whole(k) == k = 3 \/ k >= x.p \/ x.n % Pow10[x.p - k] = 0
           Part(j) == j < x.p /\ x.n % Pow10[x.p - j] # 0
           T == { k \in 0..3 : k = 3 \/ ~ Part(k) }
<1>1. Multiplied(x) = CHOOSE k \in 0..3 : Whole(k) /\ \A j \in 0..(k - 1) : Part(j)
  BY DEF Multiplied
<1>2. \A k \in 0..3 : k = 3 \/ ~ Part(k) => Whole(k)
  OBVIOUS
<1> HIDE DEF Whole, Part
<1>3. PICK k \in T : \A j \in T : k <= j
  <2>1. T \subseteq Nat /\ 3 \in T
    OBVIOUS
  <2> HIDE DEF T
  <2> QED
    BY <2>1, LeastNatural
<1>4. k \in 0..3 /\ Whole(k)
  BY <1>2
<1>5. ASSUME NEW j \in 0..(k - 1)
      PROVE  Part(j)
  BY <1>3, <1>4
<1>6. \E i \in 0..3 : Whole(i) /\ \A j \in 0..(i - 1) : Part(j)
  BY <1>4, <1>5
<1> QED
  BY <1>1, <1>6

\* The second does, and what is left fits.
LEMMA DividedFits ==
  ASSUME NEW x, Decimal(x), NEW k \in 0..3
  PROVE  LET m == Divided(x, x.p - k)
         IN  m \in Nat /\ Fits(x, x.p - k + m)
<1> DEFINE q == x.p - k
           most == Abs(x.n) + 3
           Tried(m) == Fits(x, q + m)
           T == { m \in 0..most : Tried(m) }
<1>1. Divided(x, q) = CHOOSE m \in 0..most : Tried(m) /\ \A j \in 0..(m - 1) : ~ Tried(j)
  BY DEF Divided
<1>2. most \in Nat /\ Tried(most)
  <2> DEFINE a == Abs(x.n)
             u == Pow10[q + most]
  <2>1. a \in Nat /\ q \in Int /\ q + 3 >= 0
    BY DEF Decimal, Abs
  <2>2. q + most \in Nat /\ q + most >= a
    BY <2>1
  <2>3. u \in Nat /\ u >= a
    BY <2>1, <2>2, Pow10Positive, Pow10Reaches
  <2> HIDE DEF u
  <2>4. a <= 32767 * u /\ a <= (32767 + 1) * u
    BY <2>1, <2>3
  <2> QED
    BY <2>1, <2>2, <2>4 DEF Fits, INT_16_MAX, u
<1> HIDE DEF Tried, most
<1>3. PICK m \in T : \A j \in T : m <= j
  <2>1. T \subseteq Nat /\ most \in T
    BY <1>2
  <2> HIDE DEF T
  <2> QED
    BY <2>1, LeastNatural
<1>4. m \in 0..most /\ Tried(m)
  OBVIOUS
<1>5. ASSUME NEW j \in 0..(m - 1)
      PROVE  ~ Tried(j)
  <2>1. j \in 0..most /\ ~ (m <= j)
    BY <1>2, <1>4
  <2> QED
    BY <1>3, <2>1
<1>6. \E i \in 0..most : Tried(i) /\ \A j \in 0..(i - 1) : ~ Tried(j)
  BY <1>4, <1>5
<1>7. Divided(x, q) \in Nat /\ Tried(Divided(x, q))
  BY <1>1, <1>2, <1>6
<1> QED
  BY <1>7 DEF Tried

\* What get_exponent_value_repr makes of a number has its sign and is no
\* further from zero.
THEOREM ExponentValueKeeps ==
  ASSUME NEW x, Decimal(x)
  PROVE  LET r == ExponentValue(x)
         IN  /\ r.value \in Int /\ r.exponent \in Int
             /\ x.n >= 0 => r.value >= 0
             /\ x.n <= 0 => r.value <= 0
             /\ NotAbove(r, x)
<1> DEFINE n == x.n
           k == Multiplied(x)
           m == Divided(x, x.p - k)
           q == x.p - k + m
           value == IF q >= 0 THEN Truncated(n, Pow10[q]) ELSE n * Pow10[-q]
           e == IF k = 3 /\ value = 0 THEN 0 ELSE m - k
<1>1. ExponentValue(x) = [exponent |-> e, value |-> value]
  BY DEF ExponentValue
<1>2. n \in Int /\ x.p \in Nat
  BY DEF Decimal
<1>3. k \in 0..3 /\ m \in Nat
  BY <1>2, MultipliedEnds, DividedFits
<1> HIDE DEF k, m
<1>4. q \in Int
  BY <1>2, <1>3
<1>5. /\ value \in Int /\ (n >= 0 => value >= 0) /\ (n <= 0 => value <= 0)
      /\ q >= 0 => Abs(value) * Pow10[q] <= Abs(n)
      /\ q < 0 => value = n * Pow10[-q]
  <2>1. CASE q >= 0
    <3>1. Pow10[q] \in Nat /\ Pow10[q] > 0
      BY <1>4, <2>1, Pow10Positive
    <3> DEFINE d == Pow10[q]
               a == Abs(n)
    <3>2. a \in Nat
      BY <1>2 DEF Abs
    <3>3. a \div d \in Nat /\ (a \div d) * d <= a
      BY <3>1, <3>2, Divides
    <3>4. value = IF n < 0 THEN -(a \div d) ELSE n \div d
      BY <2>1 DEF Truncated
    <3>5. n >= 0 => n = a
      BY <1>2 DEF Abs
    <3> HIDE DEF d, a, q, value
    <3>6. Abs(value) = a \div d /\ value \in Int /\ (n >= 0 => value >= 0) /\ (n <= 0 => value <= 0)
      <4> DEFINE b == a \div d
      <4>1. b \in Nat /\ value = IF n < 0 THEN -b ELSE b
        BY <1>2, <3>3, <3>4, <3>5
      <4>2. n = 0 => b = 0
        BY <3>1, <3>5 DEF d
      <4> HIDE DEF b
      <4>3. Abs(value) = b /\ value \in Int /\ (n >= 0 => value >= 0) /\ (n <= 0 => value <= 0)
        BY <1>2, <4>1, <4>2 DEF Abs
      <4> QED
        BY <4>3 DEF b
    <3> QED
      BY <1>4, <2>1, <3>3, <3>6 DEF d, a
  <2>2. CASE q < 0
    <3>1. -q \in Nat
      BY <1>4, <2>2
    <3> DEFINE d == Pow10[-q]
    <3>2. d \in Nat /\ d > 0 /\ value = n * d
      BY <1>4, <2>2, <3>1, Pow10Positive
    <3> HIDE DEF d, q, value
    <3>3. n * d \in Int /\ (n >= 0 => n * d >= 0) /\ (n <= 0 => n * d <= 0)
      BY <1>2, <3>2
    <3> QED
      BY <1>4, <2>2, <3>2, <3>3 DEF d
  <2> QED
    BY <1>4, <2>1, <2>2
<1>6. NotAbove([exponent |-> e, value |-> value], x)
  <2>1. CASE k = 3 /\ value = 0
    <3>1. e = 0 /\ Abs(value) = 0
      BY <2>1 DEF Abs
    <3>2. Pow10[x.p] \in Nat /\ Abs(n) >= 0 /\ Abs(n) \in Int
      BY <1>2, Pow10Positive DEF Abs
    <3>3. Abs(value) * Pow10[0 + x.p] <= Abs(n)
      BY <1>2, <3>1, <3>2
    <3> HIDE DEF e, value, q
    <3> QED
      BY <1>2, <3>1, <3>3 DEF NotAbove
  <2>2. CASE ~ (k = 3 /\ value = 0)
    <3>1. e + x.p = q /\ e = m - k
      BY <1>2, <1>3, <2>2
    <3> HIDE DEF e
    <3>2. CASE q >= 0
      <4> HIDE DEF value, q
      <4> QED
        BY <1>5, <3>1, <3>2 DEF NotAbove
    <3>3. CASE q < 0
      <4>1. -q \in Nat
        BY <1>4, <3>3
      <4> DEFINE d == Pow10[-q]
      <4>2. d \in Nat
        BY <4>1, Pow10Positive
      <4>3. value = n * d
        BY <1>5, <3>3
      <4> HIDE DEF value, q, d
      <4>4. Abs(n * d) <= Abs(n) * d
        <5>1. n >= 0 => n * d >= 0
          BY <1>2, <4>2
        <5>2. n < 0 => n * d <= 0 /\ -(n * d) = (-n) * d
          BY <1>2, <4>2
        <5>3. n * d \in Int
          BY <1>2, <4>2
        <5> QED
          BY <1>2, <4>2, <5>1, <5>2, <5>3 DEF Abs
      <4> QED
        BY <1>4, <3>1, <3>3, <4>3, <4>4 DEF NotAbove, d
    <3> QED
      BY <1>4, <3>2, <3>3
  <2> QED
    BY <2>1, <2>2
<1>7. e \in Int
  <2>1. k \in Int /\ m \in Int
    BY <1>3
  <2> HIDE DEF value
  <2> QED
    BY <2>1
<1> QED
  BY <1>1, <1>5, <1>6, <1>7

\* And it is an int16.
THEOREM ExponentValueFits ==
  ASSUME NEW x, Decimal(x)
  PROVE  LET v == ExponentValue(x).value
         IN  v \in Int /\ -(INT_16_MAX + 1) <= v /\ v <= INT_16_MAX
<1> DEFINE n == x.n
           k == Multiplied(x)
           m == Divided(x, x.p - k)
           q == x.p - k + m
           value == IF q >= 0 THEN Truncated(n, Pow10[q]) ELSE n * Pow10[-q]
           limit == IF n < 0 THEN 32768 ELSE 32767
<1>1. ExponentValue(x).value = value
  BY DEF ExponentValue
<1>2. n \in Int /\ x.p \in Nat /\ INT_16_MAX = 32767
  BY DEF Decimal, INT_16_MAX
<1>3. k \in 0..3
  BY <1>2, MultipliedEnds
<1> HIDE DEF k
<1>4. m \in Nat /\ Fits(x, q)
  BY <1>3, DividedFits
<1> HIDE DEF m
<1>5. q \in Int /\ limit \in Nat
  BY <1>2, <1>3, <1>4
<1>6. IF q >= 0 THEN Abs(n) <= limit * Pow10[q] ELSE Abs(n) * Pow10[-q] <= limit
  <2> HIDE DEF q
  <2> QED
    BY <1>2, <1>4 DEF Fits
<1> HIDE DEF q, limit
<1> DEFINE a == Abs(n)
<1>7. a \in Nat /\ (n >= 0 => n = a) /\ (n < 0 => n = -a)
  BY <1>2 DEF Abs
<1>8. CASE q >= 0
  <2> DEFINE d == Pow10[q]
             b == a \div d
  <2>1. d \in Nat /\ d > 0 /\ a <= limit * d
    BY <1>5, <1>6, <1>8, Pow10Positive
  <2>2. value = IF n < 0 THEN -b ELSE b
    <3>1. value = IF n < 0 THEN -(Abs(n) \div Pow10[q]) ELSE n \div Pow10[q]
      BY <1>8 DEF Truncated
    <3>2. ~ (n < 0) => n = a
      BY <1>2, <1>7
    <3> HIDE DEF value, n
    <3> QED
      BY <3>1, <3>2
  <2> HIDE DEF a, d
  <2>3. b \in Nat /\ b * d <= a
    BY <1>7, <2>1, Divides
  <2> HIDE DEF b, value
  <2>4. b <= limit
    <3>1. SUFFICES ASSUME b >= limit + 1
                   PROVE  FALSE
      BY <1>5, <2>3
    <3>2. b * d >= (limit + 1) * d
      BY <1>5, <2>1, <2>3, <3>1
    <3>3. (limit + 1) * d = limit * d + d /\ limit * d \in Nat /\ b * d \in Nat
      BY <1>5, <2>1, <2>3
    <3> QED
      BY <1>7, <2>1, <2>3, <3>2, <3>3
  <2> HIDE DEF n
  <2>5. value \in Int /\ -32768 <= value /\ value <= 32767
    BY <1>2, <2>2, <2>3, <2>4 DEF limit
  <2> QED
    BY <1>1, <2>5 DEF INT_16_MAX
<1>9. CASE ~ (q >= 0)
  <2> DEFINE d == Pow10[-q]
  <2>1. -q \in Nat
    BY <1>5, <1>9
  <2>2. d \in Nat /\ a * d <= limit /\ value = n * d
    BY <1>6, <1>9, <2>1, Pow10Positive
  <2> HIDE DEF a, d, value
  <2>3. a * d \in Nat /\ (n >= 0 => n * d = a * d) /\ (n < 0 => n * d = -(a * d))
    BY <1>2, <1>7, <2>2
  <2> HIDE DEF n
  <2>4. value \in Int /\ -32768 <= value /\ value <= 32767
    BY <1>2, <2>2, <2>3 DEF limit
  <2> QED
    BY <1>1, <2>4 DEF INT_16_MAX
<1> QED
  BY <1>8, <1>9

-----------------------------------------------------------------------------
(* The targets of the AC loop *)

Within(limits) ==
  LET active == ExponentValue(ActivePower(limits))
      active2 == LET x == PhasePower(limits) IN IF x = None THEN NoTarget ELSE ExponentValue(x)
  IN /\ active.value * active2.value >= 0
     /\ IF Positive(limits.charge)
        THEN active.value >= 0 /\ NotAbove(active, limits.charge)
        ELSE active.value <= 0 /\ NotAbove(active, limits.discharge)

\* Numbers of one sign have a product that is not negative.
LEMMA SameSign ==
  ASSUME NEW a \in Int, NEW b \in Int, (a >= 0 /\ b >= 0) \/ (a <= 0 /\ b <= 0)
  PROVE  a * b >= 0
<1>1. CASE a >= 0 /\ b >= 0
  BY <1>1
<1>2. CASE a <= 0 /\ b <= 0
  <2>1. -a \in Nat /\ -b \in Nat /\ (-a) * (-b) >= 0
    BY <1>2
  <2>2. (-a) * (-b) = a * b
    OBVIOUS
  <2> QED
    BY <2>1, <2>2
<1> QED
  BY <1>1, <1>2

\* Limits and their negatives are numbers the conversion takes.
LEMMA Converted ==
  ASSUME NEW x, x.n \in Int, x.p \in Nat
  PROVE  /\ LET r == ExponentValue(x)
            IN  r.value \in Int /\ (x.n >= 0 => r.value >= 0) /\ NotAbove(r, x)
         /\ LET r == ExponentValue(Negative(x))
            IN  r.value \in Int /\ (x.n >= 0 => r.value <= 0) /\ NotAbove(r, x)
<1>1. Decimal(x)
  BY DEF Decimal
<1> DEFINE y == Negative(x)
<1>2. y.n = -x.n /\ y.p = x.p
  BY DEF Negative, Number
<1>3. Decimal(y) /\ Abs(y.n) = Abs(x.n) /\ (x.n >= 0 => y.n <= 0)
  BY <1>2 DEF Decimal, Abs
<1> HIDE DEF y
<1>4. LET r == ExponentValue(y)
      IN  r.value \in Int /\ (y.n <= 0 => r.value <= 0) /\ NotAbove(r, y)
  BY <1>3, ExponentValueKeeps
<1>5. NotAbove(ExponentValue(y), x)
  BY <1>2, <1>3, <1>4 DEF NotAbove
<1> QED
  BY <1>1, <1>3, <1>4, <1>5, ExponentValueKeeps DEF y

\* The targets of limits that do not raise.
LEMMA TargetsWithin ==
  ASSUME NEW limits \in AcLimits \cup {Shipped, NoLimits}, ~ Raises(limits)
  PROVE  Within(limits)
<1> DEFINE active == ExponentValue(ActivePower(limits))
           x == PhasePower(limits)
           active2 == IF x = None THEN NoTarget ELSE ExponentValue(x)
<1>1. limits \in AcLimits \cup {Shipped}
  BY DEF Raises, NoLimits
<1>2. /\ limits.charge # None /\ limits.charge.n \in Int /\ limits.charge.p \in Nat
      /\ \A y \in {limits.discharge, limits.charge2, limits.discharge2} :
           y # None => y.n \in Int /\ y.p \in Nat
      /\ limits.charge2.n >= 0 /\ limits.discharge2.n >= 0
  BY <1>1, LimitsAssumption DEF Raises
<1>3. CASE Positive(limits.charge)
  <2>1. active.value \in Int /\ active.value >= 0 /\ NotAbove(active, limits.charge)
    <3>1. ActivePower(limits) = limits.charge /\ limits.charge.n >= 0
      BY <1>2, <1>3 DEF ActivePower, Positive
    <3> QED
      BY <1>2, <3>1, Converted
  <2>2. active2.value \in Int /\ active2.value >= 0
    <3>1. x = None \/ (x = limits.charge2 /\ x # None)
      BY <1>3 DEF PhasePower, DischargeMode, Given
    <3>2. CASE x = None
      BY <3>2 DEF NoTarget
    <3>3. CASE x = limits.charge2 /\ x # None
      <4> HIDE DEF x
      <4>1. x.n \in Int /\ x.p \in Nat /\ x.n >= 0
        BY <1>2, <3>3
      <4> QED
        BY <3>3, <4>1, Converted
    <3> QED
      BY <3>1, <3>2, <3>3
  <2> HIDE DEF active, active2
  <2>3. active.value * active2.value >= 0
    BY <2>1, <2>2, SameSign
  <2> QED
    BY <1>3, <2>1, <2>3 DEF Within, active, active2
<1>4. CASE ~ Positive(limits.charge)
  <2>1. limits.discharge # None /\ limits.discharge.n \in Int /\ limits.discharge.p \in Nat
    BY <1>2, <1>4 DEF Raises
  <2>2. CASE Positive(limits.discharge)
    <3>1. active.value \in Int /\ active.value <= 0 /\ NotAbove(active, limits.discharge)
      <4>1. ActivePower(limits) = Negative(limits.discharge) /\ limits.discharge.n >= 0
        BY <1>4, <2>1, <2>2 DEF ActivePower, DischargeMode, Positive
      <4> QED
        BY <2>1, <4>1, Converted
    <3>2. active2.value \in Int /\ active2.value <= 0
      <4>1. x = None \/ (x = Negative(limits.discharge2) /\ x # None /\ limits.discharge2 # None)
        BY <1>4, <2>2 DEF PhasePower, DischargeMode, Given
      <4>2. CASE x = None
        BY <4>2 DEF NoTarget
      <4>3. CASE x = Negative(limits.discharge2) /\ x # None /\ limits.discharge2 # None
        <5> HIDE DEF x
        <5>1. limits.discharge2.n \in Int /\ limits.discharge2.p \in Nat
              /\ limits.discharge2.n >= 0
          BY <1>2, <4>3
        <5> QED
          BY <4>3, <5>1, Converted
      <4> QED
        BY <4>1, <4>2, <4>3
    <3> HIDE DEF active, active2
    <3>3. active.value * active2.value >= 0
      BY <3>1, <3>2, SameSign
    <3> QED
      BY <1>4, <3>1, <3>3 DEF Within, active, active2
  <2>3. CASE ~ Positive(limits.discharge)
    <3>1. ActivePower(limits) = Number(0, 0)
      BY <1>4, <2>3 DEF ActivePower, DischargeMode
    <3>2. active.value = 0 /\ NotAbove(active, limits.discharge)
      <4> DEFINE y == Number(0, 0)
      <4>1. y.n = 0 /\ y.p = 0
        BY DEF Number
      <4> HIDE DEF y
      <4>2. Decimal(y)
        BY <4>1 DEF Decimal
      <4>3. ExponentValue(y).value = 0
        BY <4>1, <4>2, ExponentValueKeeps
      <4>4. active.value = 0
        BY <3>1, <4>3 DEF y
      <4> HIDE DEF active
      <4>5. active.exponent \in Int
        BY <3>1, <4>2, ExponentValueKeeps DEF active, y
      <4> DEFINE s == active.exponent + limits.discharge.p
      <4>6. s \in Int
        BY <2>1, <4>5
      <4> HIDE DEF s
      <4>7. /\ s >= 0 => 0 * Pow10[s] <= Abs(limits.discharge.n)
            /\ ~ (s >= 0) => 0 <= Abs(limits.discharge.n) * Pow10[-s]
        <5>1. Abs(limits.discharge.n) \in Nat
          BY <2>1 DEF Abs
        <5>2. ASSUME s >= 0
              PROVE  0 * Pow10[s] <= Abs(limits.discharge.n)
          <6>1. Pow10[s] \in Nat
            BY <4>6, <5>2, Pow10Positive
          <6> QED
            BY <5>1, <6>1
        <5>3. ASSUME ~ (s >= 0)
              PROVE  0 <= Abs(limits.discharge.n) * Pow10[-s]
          <6>1. Pow10[-s] \in Nat
            BY <4>6, <5>3, Pow10Positive
          <6> QED
            BY <5>1, <6>1
        <5> QED
          BY <5>2, <5>3
      <4>8. Abs(active.value) = 0
        BY <4>4 DEF Abs
      <4> QED
        BY <4>4, <4>7, <4>8 DEF NotAbove, s
    <3>3. active2.value \in Int
      <4>1. x = None \/ (x = limits.charge2 /\ x # None)
        BY <2>3 DEF PhasePower, DischargeMode, Given
      <4>2. CASE x = None
        BY <4>2 DEF NoTarget
      <4>3. CASE x = limits.charge2 /\ x # None
        <5> HIDE DEF x
        <5>1. x.n \in Int /\ x.p \in Nat
          BY <1>2, <4>3
        <5> QED
          BY <4>3, <5>1, Converted
      <4> QED
        BY <4>1, <4>2, <4>3
    <3> HIDE DEF active, active2
    <3>4. active.value * active2.value >= 0
      BY <3>2, <3>3
    <3> QED
      BY <1>4, <3>2, <3>4 DEF Within, active, active2
  <2> QED
    BY <2>2, <2>3
<1> QED
  BY <1>3, <1>4

-----------------------------------------------------------------------------
(* The contexts *)

SessionType ==
  [protocol : {"DIN", "ISO2", "ISO20"}, service : Services,
   control : {"none", "Scheduled", "Dynamic"}, asked : Departures,
   exchanged : BOOLEAN, needs : BOOLEAN, started : BOOLEAN]
EvType == [departure : Departures, voltage : Stamps, current : Stamps,
           ac : Stamps, dc : Stamps]
EvseType == [type : {"none", "AC", "DC"}, ac : AcLimits \cup {Shipped, NoLimits},
             shared : BOOLEAN, discharge : BOOLEAN, needs : Stamps]

\* The services of a session's protocol.
Possible(s) ==
  /\ s.protocol = "DIN" => s.service = "DC"
  /\ s.protocol = "ISO2" => s.service \in {"AC", "DC"}

\* What the session and the contexts are.
Typed ==
  /\ phase \in {"idle", "Discovery", "Schedules", "PreCharge", "Precharged",
                "Delivery", "Loop"}
  /\ IF phase = "idle" THEN session = NoSession
     ELSE session \in SessionType /\ Possible(session)
  /\ ev \in EvType
  /\ evse \in EvseType
  /\ wanted \in AcLimits \cup {Shipped}

\* Once the parameters are discovered, both contexts are this session's: the
\* kind of current, the EV's limits of it, and the discharge limits of BPT.
Discovered ==
  /\ phase \in {"PreCharge", "Precharged"} => session.service \in {"DC", "DC_BPT"}
  /\ phase \notin {"idle", "Discovery"} =>
       IF session.service \in {"AC", "AC_BPT"} THEN ev.ac = "now" /\ evse.type = "AC"
       ELSE /\ ev.dc = "now" /\ evse.type = "DC"
            /\ session.service = "DC_BPT" => evse.discharge

\* The offer is the one for the departure time this session's EV asked for.
Offer ==
  offered # <<>> =>
    /\ phase # "idle" /\ offered = SaScheduleList(session.asked)
    /\ Encodable(offered)
\* And there is one once -2's parameters are discovered.
OfferMade ==
  session.protocol = "ISO2" /\ phase \notin {"idle", "Discovery"} => offered # <<>>

\* A profile of this project's EV keeps to what the SECC has offered.
OwnProfileKept ==
  delivery.kind = "profile" /\ delivery.own => Adheres(delivery.profile, delivery.schedule)

\* What the check of a profile has let pass and what it must not refuse.
ProfileChecked == OwnProfileAccepted /\ FirstSlotsWatched

\* What is sent is of this session (NothingStaleIsUsed) and keeps to the
\* limits in force; no DC loop raises.
Sent ==
  /\ delivery.kind \in {"none", "profile"}
  /\ out.kind \in {"none", "command", "targets", "raised"}
  /\ NothingStaleIsUsed
  /\ DischargeLimitsThere
  /\ TargetsWithinLimits

IInv ==
  /\ Typed /\ Discovered /\ Offer /\ OfferMade /\ Sent /\ NeedsOfThisSession /\ ProfileChecked

LEMMA InitInvariant == Init => IInv
<1> SUFFICES ASSUME Init PROVE IInv
  OBVIOUS
<1> USE DEF Init
<1>1. Typed
  BY DeparturesAssumption DEF Typed, EvType, EvseType, Stamps
<1>2. Discovered /\ Offer /\ OfferMade /\ NeedsOfThisSession /\ ProfileChecked
  BY DEF Discovered, Offer, OfferMade, NeedsOfThisSession, ProfileChecked, OwnProfileAccepted,
         FirstSlotsWatched, NoDelivery
<1>3. Sent
  BY DEF Sent, NothingStaleIsUsed, DischargeLimitsThere, TargetsWithinLimits, NoOutput, NoDelivery
<1> QED
  BY <1>1, <1>2, <1>3 DEF IInv

-----------------------------------------------------------------------------
(* Each step keeps the invariant. *)

LEMMA BeginStep ==
  ASSUME IInv, NEW kind \in Kinds, Begin(kind)
  PROVE  IInv'
<1> USE DEF IInv, Begin, Kinds, Aged, NoOutput, NoDelivery
<1>1. Typed'
  <2>1. kind.protocol \in {"DIN", "ISO2", "ISO20"} /\ kind.service \in Services
        /\ kind.control \in {"none", "Scheduled", "Dynamic"}
        /\ Possible(kind)
    BY DEF Services, Possible
  <2>2. session' \in SessionType /\ Possible(session')
    BY <2>1, DeparturesAssumption DEF SessionType, Possible
  <2>3. ev' \in EvType /\ evse' \in EvseType
    BY ZenonT(60) DEF Typed, EvType, EvseType, Stamps
  <2> QED
    BY <2>2, <2>3 DEF Typed
<1>2. Discovered'
  BY DEF Typed, Possible, Discovered, SessionType, EvType, EvseType, Services
<1>3. Offer' /\ OfferMade'
  BY DEF Typed, Offer, OfferMade, SessionType
<1>4. Sent'
  BY DEF Typed, Discovered, Sent, NothingStaleIsUsed, DischargeLimitsThere, TargetsWithinLimits,
         SessionType, EvType, EvseType, Stamps, Services
<1>5. NeedsOfThisSession'
  BY DEF Typed, NeedsOfThisSession, SessionType, EvseType, Stamps
<1>6. ProfileChecked'
  BY DEF ProfileChecked, OwnProfileAccepted, FirstSlotsWatched
<1> QED
  BY <1>1, <1>2, <1>3, <1>4, <1>5, <1>6

LEMMA EndStep ==
  ASSUME IInv, End
  PROVE  IInv'
<1> USE DEF IInv, End, Over, NoOutput, NoDelivery
<1>1. Typed'
  BY DEF Typed, Possible, SessionType, EvType, EvseType, Stamps, Services, NoSession
<1>2. Discovered'
  BY DEF Typed, Possible, Discovered, SessionType, EvType, EvseType, Services
<1>3. Offer' /\ OfferMade'
  BY DEF Typed, Offer, OfferMade, SessionType
<1>4. Sent'
  BY DEF Typed, Discovered, Sent, NothingStaleIsUsed, DischargeLimitsThere, TargetsWithinLimits,
         SessionType, EvType, EvseType, Stamps, Services
<1>5. NeedsOfThisSession'
  BY DEF Typed, NeedsOfThisSession, SessionType, EvseType, Stamps
<1>6. ProfileChecked'
  BY DEF ProfileChecked, OwnProfileAccepted, FirstSlotsWatched
<1> QED
  BY <1>1, <1>2, <1>3, <1>4, <1>5, <1>6

LEMMA SetLimitsStep ==
  ASSUME IInv, NEW limits \in AcLimits, SetLimits(limits)
  PROVE  IInv'
<1> USE DEF IInv, SetLimits, NoOutput, NoDelivery
<1>1. Typed'
  BY DEF Typed, Possible, SessionType, EvType, EvseType, Stamps, Services, NoSession
<1>2. Discovered'
  BY DEF Typed, Possible, Discovered, SessionType, EvType, EvseType, Services
<1>3. Offer' /\ OfferMade'
  BY DEF Typed, Offer, OfferMade, SessionType
<1>4. Sent'
  BY DEF Typed, Discovered, Sent, NothingStaleIsUsed, DischargeLimitsThere, TargetsWithinLimits,
         SessionType, EvType, EvseType, Stamps, Services
<1>5. NeedsOfThisSession'
  BY DEF Typed, NeedsOfThisSession, SessionType, EvseType, Stamps
<1>6. ProfileChecked'
  BY DEF ProfileChecked, OwnProfileAccepted, FirstSlotsWatched
<1> QED
  BY <1>1, <1>2, <1>3, <1>4, <1>5, <1>6

LEMMA DiscoverV2Step ==
  ASSUME IInv, NEW d \in Departures, DiscoverV2(d)
  PROVE  IInv'
<1> USE DEF IInv, DiscoverV2, Over, IsAC, NewDeparture, NoOutput, NoDelivery
<1>1. Typed'
  BY ZenonT(60) DEF Typed, Possible, SessionType, EvType, EvseType, Stamps, Services, NoSession
<1>2. Discovered'
  BY DEF Typed, Possible, Discovered, SessionType, EvType, EvseType, Services
<1>3. Offer' /\ OfferMade'
  <2>1. SaScheduleList(d) # <<>>
    BY DeparturesAssumption, ScheduleEntries
  <2> QED
    BY <2>1 DEF Typed, Offer, OfferMade, SessionType
<1>4. Sent'
  BY DEF Typed, Discovered, Sent, NothingStaleIsUsed, DischargeLimitsThere, TargetsWithinLimits,
         SessionType, EvType, EvseType, Stamps, Services
<1>5. NeedsOfThisSession'
  BY DEF Typed, NeedsOfThisSession, SessionType, EvseType, Stamps
<1>6. ProfileChecked'
  BY DEF ProfileChecked, OwnProfileAccepted, FirstSlotsWatched
<1> QED
  BY <1>1, <1>2, <1>3, <1>4, <1>5, <1>6

LEMMA DiscoverDINStep ==
  ASSUME IInv, DiscoverDIN
  PROVE  IInv'
<1> USE DEF IInv, DiscoverDIN, NoOutput, NoDelivery
<1>1. Typed'
  BY DEF Typed, Possible, SessionType, EvType, EvseType, Stamps, Services, NoSession
<1>2. Discovered'
  BY DEF Typed, Possible, Discovered, SessionType, EvType, EvseType, Services
<1>3. Offer' /\ OfferMade'
  BY DEF Typed, Offer, OfferMade, SessionType
<1>4. Sent'
  BY DEF Typed, Discovered, Sent, NothingStaleIsUsed, DischargeLimitsThere, TargetsWithinLimits,
         SessionType, EvType, EvseType, Stamps, Services
<1>5. NeedsOfThisSession'
  BY DEF Typed, NeedsOfThisSession, SessionType, EvseType, Stamps
<1>6. ProfileChecked'
  BY DEF ProfileChecked, OwnProfileAccepted, FirstSlotsWatched
<1> QED
  BY <1>1, <1>2, <1>3, <1>4, <1>5, <1>6

LEMMA DiscoverV20Step ==
  ASSUME IInv, DiscoverV20
  PROVE  IInv'
<1> USE DEF IInv, DiscoverV20, ReplacedLimits, NewDischarge, IsAC, IsBpt, NoOutput, NoDelivery
<1>1. Typed'
  <2>1. ev' \in EvType
    BY DEF Typed, EvType, Stamps
  <2>2. evse' \in EvseType
    <3>1. CASE session.service = "DC_BPT"
      BY <3>1 DEF Typed, EvseType
    <3>2. CASE session.service # "DC_BPT"
      <4>1. CASE session.service \in {"AC", "AC_BPT"}
        BY <4>1 DEF Typed, EvseType
      <4>2. CASE session.service \notin {"AC", "AC_BPT"}
        <5>1. ~ (session.service \in {"AC_BPT", "DC_BPT"})
          BY <3>2, <4>2
        <5> DEFINE b == session.service \in {"AC_BPT", "DC_BPT"}
        <5>2. b = FALSE
          BY <5>1, SMT
        <5> QED
          BY <4>2, <5>2 DEF Typed, EvseType
      <4> QED
        BY <4>1, <4>2
    <3> QED
      BY <3>1, <3>2
  <2> QED
    BY <2>1, <2>2 DEF Typed
<1>2. Discovered'
  BY DEF Typed, Possible, Discovered, SessionType, EvType, EvseType, Services
<1>3. Offer' /\ OfferMade'
  BY DEF Typed, Offer, OfferMade, SessionType
<1>4. Sent'
  BY DEF Typed, Discovered, Sent, NothingStaleIsUsed, DischargeLimitsThere, TargetsWithinLimits,
         SessionType, EvType, EvseType, Stamps, Services
<1>5. NeedsOfThisSession'
  BY DEF Typed, NeedsOfThisSession, SessionType, EvseType, Stamps
<1>6. ProfileChecked'
  BY DEF ProfileChecked, OwnProfileAccepted, FirstSlotsWatched
<1> QED
  BY <1>1, <1>2, <1>3, <1>4, <1>5, <1>6

LEMMA ScheduleExchangeStep ==
  ASSUME IInv, NEW d \in Departures, NEW ready \in BOOLEAN, NEW given \in BOOLEAN,
         ScheduleExchange(d, ready, given)
  PROVE  IInv'
<1> USE DEF IInv, ScheduleExchange, NeedsTaken, IsAC, NoOutput, NoDelivery
<1>1. Typed'
  BY ZenonT(60) DEF Typed, Possible, SessionType, EvType, EvseType, Stamps, Services, NoSession
<1>2. Discovered'
  BY DEF Typed, Possible, Discovered, SessionType, EvType, EvseType, Services
<1>3. Offer' /\ OfferMade'
  BY DEF Typed, Offer, OfferMade, SessionType
<1>4. Sent'
  BY DEF Typed, Discovered, Sent, NothingStaleIsUsed, DischargeLimitsThere, TargetsWithinLimits,
         SessionType, EvType, EvseType, Stamps, Services
<1>5. NeedsOfThisSession'
  BY DEF Typed, NeedsOfThisSession, SessionType, EvseType, Stamps
<1>6. ProfileChecked'
  BY DEF ProfileChecked, OwnProfileAccepted, FirstSlotsWatched
<1> QED
  BY <1>1, <1>2, <1>3, <1>4, <1>5, <1>6

LEMMA PreChargeStep ==
  ASSUME IInv, NEW tooHigh \in BOOLEAN, PreCharge(tooHigh)
  PROVE  IInv'
<1> USE DEF IInv, PreCharge, Over, Command, NoOutput, NoDelivery
<1>1. Typed'
  <2>1. ev' \in EvType
    BY DEF Typed, EvType, Stamps
  <2>2. IF phase' = "idle" THEN session' = NoSession
        ELSE session' \in SessionType /\ Possible(session')
    BY DEF Typed, NoSession
  <2> QED
    BY <2>1, <2>2 DEF Typed
<1>2. Discovered'
  BY DEF Typed, Possible, Discovered, SessionType, EvType, EvseType, Services
<1>3. Offer' /\ OfferMade'
  BY DEF Typed, Offer, OfferMade, SessionType
<1>4. Sent'
  BY DEF Typed, Discovered, Sent, NothingStaleIsUsed, DischargeLimitsThere, TargetsWithinLimits,
         SessionType, EvType, EvseType, Stamps, Services
<1>5. NeedsOfThisSession'
  BY DEF Typed, NeedsOfThisSession, SessionType, EvseType, Stamps
<1>6. ProfileChecked'
  BY DEF ProfileChecked, OwnProfileAccepted, FirstSlotsWatched
<1> QED
  BY <1>1, <1>2, <1>3, <1>4, <1>5, <1>6

LEMMA PreChargeV20Step ==
  ASSUME IInv, NEW finished \in BOOLEAN, PreChargeV20(finished)
  PROVE  IInv'
<1> USE DEF IInv, PreChargeV20, Command, IsAC, NoOutput, NoDelivery
<1>1. Typed'
  BY DEF Typed, Possible, SessionType, EvType, EvseType, Stamps, Services, NoSession
<1>2. Discovered'
  BY DEF Typed, Possible, Discovered, SessionType, EvType, EvseType, Services
<1>3. Offer' /\ OfferMade'
  BY DEF Typed, Offer, OfferMade, SessionType
<1>4. Sent'
  BY DEF Typed, Discovered, Sent, NothingStaleIsUsed, DischargeLimitsThere, TargetsWithinLimits,
         SessionType, EvType, EvseType, Stamps, Services
<1>5. NeedsOfThisSession'
  BY DEF Typed, NeedsOfThisSession, SessionType, EvseType, Stamps
<1>6. ProfileChecked'
  BY DEF ProfileChecked, OwnProfileAccepted, FirstSlotsWatched
<1> QED
  BY <1>1, <1>2, <1>3, <1>4, <1>5, <1>6

LEMMA CurrentDemandStep ==
  ASSUME IInv, CurrentDemand
  PROVE  IInv'
<1> USE DEF IInv, CurrentDemand, Command, IsAC, NoDelivery
<1>1. Typed'
  BY ZenonT(60) DEF Typed, Possible, SessionType, EvType, EvseType, Stamps, Services, NoSession
<1>2. Discovered'
  BY DEF Typed, Possible, Discovered, SessionType, EvType, EvseType, Services
<1>3. Offer' /\ OfferMade'
  BY DEF Typed, Offer, OfferMade, SessionType
<1>4. Sent'
  BY DEF Typed, Discovered, Sent, NothingStaleIsUsed, DischargeLimitsThere, TargetsWithinLimits,
         SessionType, EvType, EvseType, Stamps, Services
<1>5. NeedsOfThisSession'
  BY DEF Typed, NeedsOfThisSession, SessionType, EvseType, Stamps
<1>6. ProfileChecked'
  BY DEF ProfileChecked, OwnProfileAccepted, FirstSlotsWatched
<1> QED
  BY <1>1, <1>2, <1>3, <1>4, <1>5, <1>6

LEMMA DCChargeLoopStep ==
  ASSUME IInv, DCChargeLoop
  PROVE  IInv'
<1> USE DEF IInv, DCChargeLoop, LoopTarget, Over, Command, IsAC, IsBpt, NoDelivery
<1>1. Typed'
  BY ZenonT(60) DEF Typed, Possible, SessionType, EvType, EvseType, Stamps, Services, NoSession
<1>2. Discovered'
  BY DEF Typed, Possible, Discovered, SessionType, EvType, EvseType, Services
<1>3. Offer' /\ OfferMade'
  BY DEF Typed, Offer, OfferMade, SessionType
<1>4. Sent'
  BY DEF Typed, Discovered, Sent, NothingStaleIsUsed, DischargeLimitsThere, TargetsWithinLimits,
         SessionType, EvType, EvseType, Stamps, Services
<1>5. NeedsOfThisSession'
  BY DEF Typed, NeedsOfThisSession, SessionType, EvseType, Stamps
<1>6. ProfileChecked'
  BY DEF ProfileChecked, OwnProfileAccepted, FirstSlotsWatched
<1> QED
  BY <1>1, <1>2, <1>3, <1>4, <1>5, <1>6

LEMMA DeliverStep ==
  ASSUME IInv, Deliver
  PROVE  IInv'
<1> USE DEF IInv, Deliver, Start, Over, NoOutput, NoDelivery
<1>1. Typed'
  <2>1. phase # "idle" /\ session \in SessionType
    BY DEF Typed
  <2>2. [session EXCEPT !.started = TRUE] \in SessionType
        /\ [session EXCEPT !.started = TRUE].protocol = session.protocol
        /\ [session EXCEPT !.started = TRUE].service = session.service
    BY <2>1 DEF SessionType
  <2> QED
    BY <2>2 DEF Typed, Possible
<1>2. Discovered'
  BY DEF Typed, Possible, Discovered, SessionType, EvType, EvseType, Services
<1>3. Offer' /\ OfferMade'
  BY DEF Typed, Offer, OfferMade, SessionType
<1>4. Sent'
  BY DEF Typed, Discovered, Sent, NothingStaleIsUsed, DischargeLimitsThere, TargetsWithinLimits,
         SessionType, EvType, EvseType, Stamps, Services
<1>5. NeedsOfThisSession'
  BY DEF Typed, NeedsOfThisSession, SessionType, EvseType, Stamps
<1>6. ProfileChecked'
  BY DEF ProfileChecked, OwnProfileAccepted, FirstSlotsWatched
<1> QED
  BY <1>1, <1>2, <1>3, <1>4, <1>5, <1>6

LEMMA DeliverProfileStep ==
  ASSUME IInv, NEW profile, NEW own \in BOOLEAN, NEW progresses,
         IF own THEN profile = OwnProfile(offered) ELSE profile \in Profiles,
         DeliverProfile(profile, own, progresses)
  PROVE  IInv'
<1> USE DEF IInv, DeliverProfile, Start, Rediscover, Over, NoOutput
<1>1. Typed'
  <2>1. phase # "idle" /\ session \in SessionType
    BY DEF Typed
  <2>2. [session EXCEPT !.started = TRUE] \in SessionType
        /\ [session EXCEPT !.started = TRUE].protocol = session.protocol
        /\ [session EXCEPT !.started = TRUE].service = session.service
    BY <2>1 DEF SessionType
  <2> QED
    BY <2>2 DEF Typed, Possible
<1>2. Discovered'
  BY DEF Typed, Possible, Discovered, SessionType, EvType, EvseType, Services
<1>3. Offer' /\ OfferMade'
  BY DEF Typed, Offer, OfferMade, SessionType
<1>4. Sent'
  BY DEF Typed, Discovered, Sent, NothingStaleIsUsed, DischargeLimitsThere, TargetsWithinLimits,
         SessionType, EvType, EvseType, Stamps, Services
<1>5. NeedsOfThisSession'
  BY DEF Typed, NeedsOfThisSession, SessionType, EvseType, Stamps
<1>6. ProfileChecked'
  <2>1. session \in SessionType /\ offered = SaScheduleList(session.asked)
    BY DEF Typed, Offer, OfferMade
  <2>2. session.asked \in Nat
    BY <2>1, DeparturesAssumption DEF SessionType
  <2>3. ASSUME own
        PROVE  ProfileValid(profile, offered) /\ Adheres(profile, offered)
    BY <2>1, <2>2, <2>3, OwnProfileIsValid, OwnProfileAdheres
  <2>4. ASSUME ProfileValid(profile, offered)
        PROVE  AdheresTo(profile, offered, {1, 2} \cap DOMAIN offered)
    <3>1. CASE own
      BY <2>3, <3>1 DEF Adheres, AdheresTo
    <3>2. CASE ~ own
      <4>1. profile \in Seq(ProfileEntry) /\ InOrder(profile)
        BY <3>2, ProfilesAssumption
      <4> QED
        BY <2>1, <2>2, <2>4, <4>1, FirstSlotsChecked
    <3> QED
      BY <3>1, <3>2
  <2>5. /\ delivery'.kind = "profile" /\ delivery'.own = own /\ delivery'.profile = profile
        /\ delivery'.schedule = offered /\ delivery'.accepted = ProfileValid(profile, offered)
    OBVIOUS
  <2> QED
    BY <2>3, <2>4, <2>5 DEF ProfileChecked, OwnProfileAccepted, FirstSlotsWatched
<1> QED
  BY <1>1, <1>2, <1>3, <1>4, <1>5, <1>6

LEMMA RenegotiateStep ==
  ASSUME IInv, Renegotiate
  PROVE  IInv'
<1> USE DEF IInv, Renegotiate, Rediscover, Over, NoOutput, NoDelivery
<1>1. Typed'
  BY DEF Typed, Possible, SessionType, EvType, EvseType, Stamps, Services, NoSession
<1>2. Discovered'
  BY DEF Typed, Possible, Discovered, SessionType, EvType, EvseType, Services
<1>3. Offer' /\ OfferMade'
  BY DEF Typed, Offer, OfferMade, SessionType
<1>4. Sent'
  BY DEF Typed, Discovered, Sent, NothingStaleIsUsed, DischargeLimitsThere, TargetsWithinLimits,
         SessionType, EvType, EvseType, Stamps, Services
<1>5. NeedsOfThisSession'
  BY DEF Typed, NeedsOfThisSession, SessionType, EvseType, Stamps
<1>6. ProfileChecked'
  BY DEF ProfileChecked, OwnProfileAccepted, FirstSlotsWatched
<1> QED
  BY <1>1, <1>2, <1>3, <1>4, <1>5, <1>6

LEMMA ACChargeLoopStep ==
  ASSUME IInv, NEW d \in Departures, ACChargeLoop(d)
  PROVE  IInv'
<1> USE DEF IInv, ACChargeLoop, Over, IsAC, NoDelivery
<1>1. Typed'
  BY DEF Typed, Possible, SessionType, EvType, EvseType, Stamps, Services, NoSession
<1>2. Discovered'
  BY DEF Typed, Possible, Discovered, SessionType, EvType, EvseType, Services
<1>3. Offer' /\ OfferMade'
  BY DEF Typed, Offer, OfferMade, SessionType
<1>4. Sent'
  <2>1. TargetsWithinLimits'
    <3>1. CASE Raises(evse.ac)
      <4>1. out'.kind = "raised"
        BY <3>1
      <4> QED
        BY <4>1 DEF TargetsWithinLimits
    <3>2. CASE ~ Raises(evse.ac)
      <4>1. Within(evse.ac)
        BY <3>2, TargetsWithin DEF Typed, EvseType
      <4>2. /\ out'.active = ExponentValue(ActivePower(evse.ac)) /\ evse'.ac = evse.ac
            /\ out'.active2 = LET x == PhasePower(evse.ac)
                              IN IF x = None THEN NoTarget ELSE ExponentValue(x)
        BY <3>2
      <4> QED
        BY <4>1, <4>2 DEF TargetsWithinLimits, Within
    <3> QED
      BY <3>1, <3>2
  <2>2. NothingStaleIsUsed' /\ DischargeLimitsThere' /\ delivery'.kind \in {"none", "profile"}
        /\ out'.kind \in {"none", "command", "targets", "raised"}
    BY DEF Typed, Discovered, Sent, NothingStaleIsUsed, DischargeLimitsThere,
           SessionType, EvType, EvseType, Stamps, Services
  <2> QED
    BY <2>1, <2>2 DEF Sent
<1>5. NeedsOfThisSession'
  BY DEF Typed, NeedsOfThisSession, SessionType, EvseType, Stamps
<1>6. ProfileChecked'
  BY DEF ProfileChecked, OwnProfileAccepted, FirstSlotsWatched
<1> QED
  BY <1>1, <1>2, <1>3, <1>4, <1>5, <1>6

LEMMA NextInvariant == IInv /\ [Next]_vars => IInv'
<1> SUFFICES ASSUME IInv, [Next]_vars PROVE IInv'
  OBVIOUS
<1>1. CASE UNCHANGED vars
  <2>1. TargetsWithinLimits'
    BY <1>1 DEF vars, IInv, Sent, TargetsWithinLimits
  <2> QED
    BY <1>1, <2>1 DEF vars, IInv, Typed, Discovered, Offer, Sent, NothingStaleIsUsed,
                      DischargeLimitsThere, NeedsOfThisSession, OfferMade, ProfileChecked,
                      OwnProfileAccepted, FirstSlotsWatched
<1>2. ASSUME NEW profile \in Profiles, NEW progresses,
             DeliverProfile(profile, FALSE, progresses)
      PROVE  IInv'
  BY <1>2, DeliverProfileStep
<1>3. ASSUME DeliverOwn PROVE IInv'
  BY <1>3, DeliverProfileStep DEF DeliverOwn
<1> QED
  BY <1>1, <1>2, <1>3, BeginStep, EndStep, SetLimitsStep, DiscoverV2Step, DiscoverDINStep,
     DiscoverV20Step, ScheduleExchangeStep, PreChargeStep, PreChargeV20Step,
     CurrentDemandStep, DCChargeLoopStep, DeliverStep, RenegotiateStep, ACChargeLoopStep
     DEF Next

\* The invariant holds of every behaviour of the controller.
THEOREM ContextsInvariant == Spec => []IInv
<1>1. Init => IInv
  BY InitInvariant
<1>2. IInv /\ [Next]_vars => IInv'
  BY NextInvariant
<1> QED
  BY <1>1, <1>2, PTL DEF Spec

\* The types, and that an offer fits its messages, whatever departure times
\* the EVs give (get_sa_schedule_list and the limits of the message types).
THEOREM TypeCorrect == Spec => []TypeOK
<1>1. IInv => TypeOK
  <2> SUFFICES ASSUME IInv PROVE TypeOK
    OBVIOUS
  <2>1. Len(offered) <= MaxTariffEntries
    <3>1. CASE offered = <<>>
      <4>1. Len(offered) = 0
        BY <3>1
      <4> QED
        BY <4>1 DEF MaxTariffEntries
    <3>2. CASE offered # <<>>
      BY <3>2 DEF IInv, Offer, Encodable
    <3> QED
      BY <3>1, <3>2
  <2> QED
    BY <2>1 DEF IInv, Typed, Sent, SessionType, EvType, EvseType, TypeOK
<1> QED
  BY <1>1, ContextsInvariant, PTL

\* The offers of -2, for all departure times: see OfferFitsRequest.
THEOREM OffersFit == Spec => []OfferFitsRequest
<1>1. IInv => OfferFitsRequest
  <2> SUFFICES ASSUME IInv, offered # <<>> PROVE OfferFitsRequest
    BY DEF OfferFitsRequest
  <2>1. session \in SessionType /\ offered = SaScheduleList(session.asked)
    BY DEF IInv, Typed, Offer
  <2>2. session.asked \in Nat
    BY <2>1, DeparturesAssumption DEF SessionType
  <2>3. /\ offered[1].start = 0
        /\ \A i \in 1..(Len(offered) - 1) : offered[i].start < offered[i + 1].start
        /\ offered[Len(offered)].start < EndOf(offered, Len(offered))
        /\ EndOf(offered, Len(offered)) = Wanted(session.asked)
    BY <2>1, <2>2, OfferCovers
  <2>4. Wanted(session.asked) = IF session.asked = 0 THEN Day ELSE session.asked
    BY DEF Wanted
  <2>5. Day >= Day
    BY DEF Day
  <2> QED
    BY <2>3, <2>4, <2>5 DEF OfferFitsRequest
<1> QED
  BY <1>1, ContextsInvariant, PTL

\* What is sent to the charger is of the session being served, after any
\* number of sessions: see NothingStaleIsUsed.
THEOREM NothingStale == Spec => []NothingStaleIsUsed
<1>1. IInv => NothingStaleIsUsed
  BY DEF IInv, Sent
<1> QED
  BY <1>1, ContextsInvariant, PTL

\* No target exceeds its limit or runs against another, whatever limits are
\* set and however many digits they have: see TargetsWithinLimits.
THEOREM Targets == Spec => []TargetsWithinLimits
<1>1. IInv => TargetsWithinLimits
  BY DEF IInv, Sent
<1> QED
  BY <1>1, ContextsInvariant, PTL

\* A BPT loop finds its discharge limits: see DischargeLimitsThere.
THEOREM DischargeLimits == Spec => []DischargeLimitsThere
<1>1. IInv => DischargeLimitsThere
  BY DEF IInv, Sent
<1> QED
  BY <1>1, ContextsInvariant, PTL

\* The needs of a Dynamic loop's answer: see NeedsOfThisSession.
THEOREM Needs == Spec => []NeedsOfThisSession
<1>1. IInv => NeedsOfThisSession
  BY DEF IInv
<1> QED
  BY <1>1, ContextsInvariant, PTL

\* No profile this project's EV sends exceeds the offer it was made from.
THEOREM OwnProfilesKept == Spec => []OwnProfileKept
<1>1. IInv => OwnProfileKept
  BY DEF IInv, ProfileChecked, OwnProfileAccepted, OwnProfileKept
<1> QED
  BY <1>1, ContextsInvariant, PTL

\* The SECC accepts every profile this project's EV makes of its offer, and
\* the profile keeps to it: see OwnProfileAccepted.
THEOREM OwnProfilesAccepted == Spec => []OwnProfileAccepted
<1>1. IInv => OwnProfileAccepted
  BY DEF IInv, ProfileChecked
<1> QED
  BY <1>1, ContextsInvariant, PTL

\* Whatever profile another EV sends, the first two slots are kept when it is
\* accepted: see FirstSlotsWatched.
THEOREM FirstSlots == Spec => []FirstSlotsWatched
<1>1. IInv => FirstSlotsWatched
  BY DEF IInv, ProfileChecked
<1> QED
  BY <1>1, ContextsInvariant, PTL

\* AC limits set from outside are lost to one DC discovery of -20 at most:
\* see LimitsLostOnce.
THEOREM LostOnce == Spec => LimitsLostOnce
<1>1. IInv /\ [Next]_vars => (evse.shared /\ evse.ac = wanted => evse'.ac = wanted')
  <2> SUFFICES ASSUME Typed, [Next]_vars, evse.shared, evse.ac = wanted
               PROVE  evse'.ac = wanted'
    BY DEF IInv
  <2>1. evse \in EvseType
    BY DEF Typed
  <2>2. CASE UNCHANGED <<evse, wanted>>
    BY <2>2
  <2>3. ASSUME NEW kind \in Kinds, Begin(kind) PROVE evse'.ac = wanted'
    BY <2>1, <2>3 DEF Begin, EvseType
  <2>4. ASSUME NEW limits \in AcLimits, SetLimits(limits) PROVE evse'.ac = wanted'
    BY <2>1, <2>4 DEF SetLimits, EvseType
  <2>5. ASSUME NEW d \in Departures, DiscoverV2(d) PROVE evse'.ac = wanted'
    BY <2>1, <2>5 DEF DiscoverV2, EvseType
  <2>6. ASSUME DiscoverDIN PROVE evse'.ac = wanted'
    BY <2>1, <2>6 DEF DiscoverDIN, EvseType
  <2>7. ASSUME DiscoverV20 PROVE evse'.ac = wanted'
    BY <2>1, <2>7 DEF DiscoverV20, ReplacedLimits, EvseType
  <2>8. ASSUME NEW d \in Departures, NEW ready \in BOOLEAN, NEW given \in BOOLEAN,
               ScheduleExchange(d, ready, given)
        PROVE  evse'.ac = wanted'
    BY <2>1, <2>8 DEF ScheduleExchange, EvseType
  <2> QED
    BY <2>2, <2>3, <2>4, <2>5, <2>6, <2>7, <2>8
       DEF Next, vars, End, PreCharge, PreChargeV20, CurrentDemand, DCChargeLoop, Deliver,
           DeliverProfile, DeliverOwn, Renegotiate, ACChargeLoop
<1> QED
  BY <1>1, ContextsInvariant, PTL DEF Spec, LimitsLostOnce
============================================================================
