---------------------------- MODULE EvidenceProofs ----------------------------
(***************************************************************************)
(* Proofs about the evidence there must be before a key is typed: that the *)
(* printed reset has come (ResetAnchor), for days and weeks of any length  *)
(* and any time; and that the selected agent would read the key            *)
(* (Foreground), for every set of process numbers and every number of      *)
(* changes and inspections: no other agent, and none below screen.         *)
(***************************************************************************)
EXTENDS ResetAnchor, Foreground, FiniteSetTheorems, WellFoundedInduction, TLAPS

-----------------------------------------------------------------------------
(* When the limit is over (ResetAnchor).                                   *)

(* Of two multiples of n less than n apart neither is the larger.          *)
LEMMA SameMultiple ==
  ASSUME NEW n \in Nat \ {0}, NEW p \in Int, NEW q \in Int, n * p < n * q + n PROVE p <= q
  <1> SUFFICES ASSUME p >= q + 1 PROVE FALSE
    OBVIOUS
  <1>1. n * p >= n * (q + 1)
    OBVIOUS
  <1>2. n * (q + 1) = n * q + n
    OBVIOUS
  <1>3. QED
    BY <1>1, <1>2

LEMMA Quotient ==
  ASSUME NEW n \in Nat \ {0}, NEW a \in Int
  PROVE  /\ a \div n \in Int /\ a % n \in 0..(n - 1)
         /\ a = n * (a \div n) + (a % n)
  OBVIOUS

LEMMA QuotientIs ==
  ASSUME NEW n \in Nat \ {0}, NEW q \in Int, NEW r \in 0..(n - 1)
  PROVE  (n * q + r) \div n = q /\ (n * q + r) % n = r
  <1> DEFINE a == n * q + r
  <1>1. a \in Int
    OBVIOUS
  <1> HIDE DEF a
  <1>2. /\ a \div n \in Int /\ a % n \in 0..(n - 1)
        /\ a = n * (a \div n) + (a % n)
    BY <1>1, Quotient
  <1>3. a = n * q + r
    BY DEF a
  <1>4. n * (a \div n) < n * q + n /\ n * q < n * (a \div n) + n
    BY <1>1, <1>2, <1>3
  <1>5. a \div n = q
    BY <1>2, <1>4, SameMultiple
  <1>6. a % n = r
    BY <1>2, <1>3, <1>5
  <1>7. QED
    BY <1>5, <1>6 DEF a

LEMMA Stretch ==
  ASSUME NEW n \in Nat \ {0}, NEW p \in Int, NEW q \in Int, p <= q PROVE n * p <= n * q
  OBVIOUS

-----------------------------------------------------------------------------
(* Which instants show a time of day.                                      *)

LEMMA CandidateIs ==
  ASSUME NEW at \in 0..(Day - 1), NEW text, text.at = at, NEW t \in Nat
  PROVE  /\ t \div Day \in Int
         /\ SameDay(text, t) = Day * (t \div Day) + at
         /\ SameDay(text, t) \div Day = t \div Day
         /\ Day * (t \div Day) <= t /\ t < Day * (t \div Day) + Day
  <1>1. Day \in Nat \ {0}
    BY TimesAssumption
  <1>2. /\ t \div Day \in Int /\ t % Day \in 0..(Day - 1)
        /\ t = Day * (t \div Day) + (t % Day)
    BY <1>1, Quotient
  <1>3. SameDay(text, t) = Day * (t \div Day) + at
    BY <1>1, <1>2 DEF SameDay
  <1>4. SameDay(text, t) \div Day = t \div Day
    BY <1>1, <1>2, <1>3, QuotientIs
  <1>5. Day * (t \div Day) \in Int
    BY <1>1, <1>2
  <1>6. QED
    BY <1>1, <1>2, <1>3, <1>4, <1>5

(* A later instant that shows the time is on the same day or a later one.  *)
LEMMA LaterDay ==
  ASSUME NEW at \in 0..(Day - 1), NEW r \in Nat, NEW t \in Nat, r < t, t % Day = at
  PROVE  /\ t = Day * (t \div Day) + at
         /\ t \div Day \in Int /\ r \div Day <= t \div Day
  <1>1. Day \in Nat \ {0}
    BY TimesAssumption
  <1>2. /\ t \div Day \in Int
        /\ t = Day * (t \div Day) + at
    BY <1>1, Quotient
  <1>3. /\ r \div Day \in Int /\ r % Day \in 0..(Day - 1)
        /\ r = Day * (r \div Day) + (r % Day)
    BY <1>1, Quotient
  <1>4. Day * (r \div Day) \in Int /\ Day * (t \div Day) \in Int
    BY <1>1, <1>2, <1>3
  <1>5. Day * (r \div Day) < Day * (t \div Day) + Day
    BY <1>1, <1>2, <1>3, <1>4
  <1>6. r \div Day <= t \div Day
    BY <1>1, <1>2, <1>3, <1>5, SameMultiple
  <1>7. QED
    BY <1>2, <1>6

(* A clock alone.                                                          *)
LEMMA ClockIsNext ==
  ASSUME NEW text, text.kind = "clock", text.at \in 0..(Day - 1), NEW r \in Nat
  PROVE  LET later == {t \in (r + 1)..(r + Day * Week) : Shows(text, t)}
             next == ParseReset(text, r)
         IN  next \in later /\ \A t \in later : next <= t
  <1> DEFINE at == text.at
             occurrence == SameDay(text, r)
             next == ParseReset(text, r)
             d == r \div Day
  <1>1. Day \in Nat \ {0} /\ Week \in Nat \ {0}
    BY TimesAssumption
  <1>2. d \in Int /\ occurrence = Day * d + at /\ Day * d <= r /\ r < Day * d + Day
    BY CandidateIs
  <1>3. next = IF occurrence <= r THEN occurrence + Day ELSE occurrence
    BY DEF ParseReset
  <1>4. Day * (d + 1) = Day * d + Day /\ Day * d \in Int
    BY <1>1, <1>2
  <1>at. at \in 0..(Day - 1) /\ at \in Int
    BY <1>1
  <1>c. occurrence % Day = at
    BY <1>1, <1>2, <1>at, QuotientIs
  <1> HIDE DEF d, occurrence, next
  <1>5. next \in Int /\ r < next /\ next <= r + Day
    BY <1>1, <1>2, <1>3, <1>4
  <1>6. Day <= Day * Week
    BY <1>1, Stretch
  <1>7. next % Day = at
    <2>1. occurrence % Day = at
      BY <1>c
    <2>2. (Day * (d + 1) + at) % Day = at
      <3> DEFINE e == d + 1
      <3>1. e \in Int
        BY <1>2
      <3> HIDE DEF e
      <3>2. (Day * e + at) % Day = at
        BY <1>1, <1>at, <3>1, QuotientIs
      <3>3. QED
        BY <3>2 DEF e
    <2>3. next = occurrence \/ next = Day * (d + 1) + at
      BY <1>1, <1>2, <1>3, <1>4
    <2>4. QED
      BY <2>1, <2>2, <2>3
  <1>8. ASSUME NEW t \in (r + 1)..(r + Day * Week), t % Day = at PROVE next <= t
    <2> DEFINE q == t \div Day
    <2>1. Day * Week \in Nat
      BY <1>1
    <2>2. t \in Nat /\ r < t
      BY <2>1
    <2>3. t = Day * q + at /\ q \in Int /\ d <= q
      BY <1>8, <2>2, LaterDay DEF d
    <2> HIDE DEF q
    <2>4. CASE q = d
      BY <1>2, <1>3, <2>2, <2>3, <2>4
    <2>5. CASE d + 1 <= q
      <3>1. Day * (d + 1) <= Day * q
        BY <1>1, <1>2, <2>3, <2>5, Stretch
      <3>2. QED
        BY <1>1, <1>2, <1>3, <1>4, <2>3, <3>1
    <2>6. QED
      BY <1>2, <2>3, <2>4, <2>5
  <1>9. next \in (r + 1)..(r + Day * Week)
    BY <1>1, <1>5, <1>6
  <1>10. QED
    BY <1>7, <1>8, <1>9 DEF Shows, next

(* A clock on a weekday: as many days ahead as the weekday is, a week when  *)
(* that is today and the time has passed.                                  *)
LEMMA WeekdayIsNext ==
  ASSUME NEW text, text.kind = "weekday", text.day \in 0..(Week - 1),
         text.at \in 0..(Day - 1), NEW r \in Nat
  PROVE  LET later == {t \in (r + 1)..(r + Day * Week) : Shows(text, t)}
             next == ParseReset(text, r)
         IN  next \in later /\ \A t \in later : next <= t
  <1> DEFINE at == text.at
             day == text.day
             occurrence == SameDay(text, r)
             passed == occurrence <= r
             next == ParseReset(text, r)
             d == r \div Day
             ahead == Ahead(text, occurrence)
             m == (day - d) \div Week
             k == IF ahead = 0 /\ passed THEN Week ELSE ahead
             e == d + k
  <1>1. /\ Day \in Nat \ {0} /\ Week \in Nat \ {0} /\ Day * Week \in Nat
        /\ at \in 0..(Day - 1) /\ at \in Int /\ day \in 0..(Week - 1) /\ day \in Int
    BY TimesAssumption
  <1>2. /\ d \in Int /\ occurrence = Day * d + at /\ occurrence \div Day = d
        /\ Day * d <= r /\ r < Day * d + Day
    BY CandidateIs
  <1>3. next = occurrence + Day * k
    BY DEF ParseReset
  <1>4. m \in Int /\ ahead \in 0..(Week - 1) /\ day - d = Week * m + ahead
    <2> DEFINE a == day - d
    <2>1. a \in Int
      BY <1>1, <1>2
    <2>2. ahead = a % Week
      BY <1>2 DEF Ahead
    <2> HIDE DEF a
    <2>3. a \div Week \in Int /\ a % Week \in 0..(Week - 1)
          /\ a = Week * (a \div Week) + (a % Week)
      BY <1>1, <2>1, Quotient
    <2>4. QED
      BY <2>2, <2>3 DEF a
  <1>5. k = IF ahead = 0 /\ occurrence <= r THEN Week ELSE ahead
    OBVIOUS
  <1>6. e = d + k
    OBVIOUS
  <1> HIDE DEF at, day, occurrence, passed, next, d, ahead, m, k, e
  <1>7. k \in 0..Week /\ e \in Int
    BY <1>1, <1>2, <1>4, <1>5, <1>6
  <1>8. Day * e = Day * d + Day * k /\ Day * d \in Int /\ Day * k \in Int
    BY <1>1, <1>2, <1>6, <1>7
  <1>9. next = Day * e + at
    BY <1>1, <1>2, <1>3, <1>8
  <1>10. next % Day = at /\ next \div Day = e
    BY <1>1, <1>7, <1>9, QuotientIs
  <1>11. e % Week = day
    <2>1. CASE k = ahead
      <3> DEFINE n == -m
      <3>1. n \in Int /\ e = Week * n + day
        BY <1>1, <1>2, <1>4, <1>6, <2>1
      <3> HIDE DEF n
      <3>2. QED
        BY <1>1, <3>1, QuotientIs
    <2>2. CASE ahead = 0 /\ k = Week
      <3> DEFINE n == 1 - m
      <3>1. n \in Int /\ e = Week * n + day
        BY <1>1, <1>2, <1>4, <1>6, <2>2
      <3> HIDE DEF n
      <3>2. QED
        BY <1>1, <3>1, QuotientIs
    <2>3. QED
      BY <1>5, <2>1, <2>2
  <1>12. r < next /\ next <= r + Day * Week
    <2>1. CASE occurrence <= r
      <3>1. 1 <= k /\ k <= Week
        BY <1>1, <1>4, <1>5, <2>1
      <3>2. Day * 1 <= Day * k /\ Day * k <= Day * Week
        BY <1>1, <1>7, <3>1, Stretch
      <3>3. QED
        BY <1>1, <1>2, <1>8, <1>9, <2>1, <3>2
    <2>2. CASE r < occurrence
      <3>1. 0 <= k /\ k <= Week - 1
        BY <1>1, <1>2, <1>4, <1>5, <2>2
      <3>2. Day * 0 <= Day * k /\ Day * k <= Day * (Week - 1)
        BY <1>1, <1>7, <3>1, Stretch
      <3>3. Day * (Week - 1) = Day * Week - Day
        BY <1>1
      <3>4. QED
        BY <1>1, <1>2, <1>8, <1>9, <2>2, <3>2, <3>3
    <2>3. QED
      BY <1>1, <1>2, <1>8, <2>1, <2>2
  <1>13. ASSUME NEW t \in (r + 1)..(r + Day * Week), t % Day = at,
                (t \div Day) % Week = day
         PROVE next <= t
    <2> DEFINE q == t \div Day
               w == q \div Week
               j == w + m
    <2>1. t \in Nat /\ r < t
      BY <1>1
    <2>2. t = Day * q + at /\ q \in Int /\ d <= q
      BY <1>13, <2>1, LaterDay DEF d, at
    <2>3. q % Week = day
      BY <1>13
    <2> HIDE DEF q
    <2>4. w \in Int /\ q = Week * w + day
      BY <1>1, <2>2, <2>3, Quotient
    <2> HIDE DEF w
    <2>5. j \in Int /\ Week * j = Week * w + Week * m
      BY <1>1, <1>4, <2>4
    <2>6. q - d = Week * j + ahead
      BY <1>1, <1>2, <1>4, <2>2, <2>4, <2>5
    <2> HIDE DEF j
    <2>7. 0 <= j
      <3>1. Week * 0 < Week * j + Week
        BY <1>1, <1>2, <1>4, <2>2, <2>5, <2>6
      <3>2. QED
        BY <1>1, <2>5, <3>1, SameMultiple
    <2>8. k <= q - d
      <3>1. CASE k = ahead
        <4>1. Week * 0 <= Week * j
          BY <1>1, <2>5, <2>7, Stretch
        <4>2. QED
          BY <1>1, <1>4, <2>5, <2>6, <3>1, <4>1
      <3>2. CASE ahead = 0 /\ k = Week /\ occurrence <= r
        <4>1. q # d
          BY <1>1, <1>2, <2>1, <2>2, <3>2
        <4>2. j # 0
          BY <1>1, <1>2, <2>2, <2>6, <3>2, <4>1
        <4>3. Week * 1 <= Week * j
          BY <1>1, <2>5, <2>7, <4>2, Stretch
        <4>4. QED
          BY <1>1, <2>5, <2>6, <3>2, <4>3
      <3>3. QED
        BY <1>5, <3>1, <3>2
    <2>9. e <= q
      BY <1>2, <1>6, <1>7, <2>2, <2>8
    <2>10. Day * e <= Day * q
      BY <1>1, <1>7, <2>2, <2>9, Stretch
    <2>11. QED
      BY <1>1, <1>7, <1>9, <2>2, <2>10
  <1>14. next \in (r + 1)..(r + Day * Week)
    BY <1>1, <1>7, <1>8, <1>9, <1>12
  <1>15. QED
    BY <1>10, <1>11, <1>13, <1>14 DEF Shows, next, at, day, e

-----------------------------------------------------------------------------
(* The clock counts up from zero.                                          *)
ClockCounts == now \in Nat

(* At any time, a printed clock, on a weekday or not, is read as the next   *)
(* instant that shows it, for days and weeks of any length.                *)
THEOREM ReadingIsNext == AnchorSpec => []NextOccurrence
  <1>1. AnchorInit => ClockCounts
    BY DEF AnchorInit, ClockCounts
  <1>2. ClockCounts /\ [AnchorNext]_anchorVars => ClockCounts'
    BY DEF ClockCounts, AnchorNext, anchorVars, world, Observe, Try, Settle, Finish, Restart,
           SwitchMode, Tick, Redraw, Gauge, RunInto
  <1>3. ClockCounts => NextOccurrence
    <2> SUFFICES ASSUME now \in Nat, NEW text \in Texts, text.kind \in {"clock", "weekday"}
                 PROVE LET later == {t \in (now + 1)..(now + Day * Week) : Shows(text, t)}
                           next == ParseReset(text, now)
                       IN  next \in later /\ \A t \in later : next <= t
      BY DEF NextOccurrence, ClockCounts
    <2>1. text.at \in 0..(Day - 1) /\ (text.kind = "weekday" => text.day \in 0..(Week - 1))
      BY DEF Texts
    <2>2. CASE text.kind = "clock"
      BY <2>1, <2>2, ClockIsNext
    <2>3. CASE text.kind = "weekday"
      BY <2>1, <2>3, WeekdayIsNext
    <2>4. QED
      BY <2>2, <2>3
  <1>4. QED
    BY <1>1, <1>2, <1>3, PTL DEF AnchorSpec

-----------------------------------------------------------------------------
(* What a printed reset is read as.                                         *)

Prints(text, t) == text = Clock(t) \/ text = Date(t)

LEMMA TextTypes ==
  /\ \A t \in Nat : Clock(t) \in Texts /\ Clock(t).kind = "clock" /\ Clock(t).at = t % Day /\ t % Day \in 0..(Day - 1)
  /\ \A t \in Instants : Date(t) \in Texts
  /\ \A t \in Nat : Date(t).kind = "date" /\ Date(t).at = t
  <1>1. \A t \in Nat : t % Day \in 0..(Day - 1)
    BY TimesAssumption
  <1>2. \A t \in Nat : Clock(t) = [kind |-> "clock", day |-> 0, at |-> t % Day]
    BY DEF Clock
  <1>3. \A t \in Nat : Clock(t) \in Texts
    BY <1>1, <1>2 DEF Texts
  <1>4. \A t \in Instants : Date(t) \in Texts
    BY DEF Date, Texts
  <1>5. QED
    BY <1>1, <1>2, <1>3, <1>4 DEF Date

LEMMA DateIsExact ==
  ASSUME NEW t \in Nat, NEW reference
  PROVE  ParseReset(Date(t), reference) = t
  BY TextTypes DEF ParseReset

LEMMA ClockWithinDay ==
  ASSUME NEW t \in Nat, NEW reference \in Nat
  PROVE  /\ ParseReset(Clock(t), reference) \in (reference + 1)..(reference + Day)
         /\ Clock(ParseReset(Clock(t), reference)) = Clock(t)
  <1> DEFINE text == Clock(t)
             next == ParseReset(text, reference)
  <1>1. text.kind = "clock" /\ text.at = t % Day /\ text.at \in 0..(Day - 1) /\ Day \in Nat /\ Day >= 1
    BY TextTypes, TimesAssumption
  <1>2. next \in (reference + 1)..(reference + Day * Week) /\ next % Day = text.at
    BY <1>1, ClockIsNext DEF Shows
  <1>3. next = IF SameDay(text, reference) <= reference THEN SameDay(text, reference) + Day
               ELSE SameDay(text, reference)
    BY <1>1 DEF ParseReset
  <1>4. /\ SameDay(text, reference) = Day * (reference \div Day) + text.at
        /\ Day * (reference \div Day) <= reference /\ reference \div Day \in Int
    BY <1>1, CandidateIs
  <1>5. Day * (reference \div Day) \in Int
    BY <1>1, <1>4
  <1>6. Day * Week \in Nat
    BY TimesAssumption
  <1> HIDE DEF next
  <1>10. next \in Int /\ reference < next
    BY <1>2, <1>6
  <1>11. SameDay(text, reference) \in Int /\ SameDay(text, reference) < reference + Day
    BY <1>1, <1>4, <1>5
  <1>7. next \in (reference + 1)..(reference + Day)
    BY <1>1, <1>3, <1>10, <1>11
  <1>8. Clock(next) = text
    BY <1>1, <1>2 DEF Clock
  <1>9. QED
    BY <1>7, <1>8 DEF next

-----------------------------------------------------------------------------
(* Why a banner is never dated later: the true reset of the last limit      *)
(* bounds whatever is remembered of its text, and where a guess is later,   *)
(* nothing else bears the same text.                                        *)

LastReset == banner.resets

WorldOK ==
  /\ now \in 0..MaxTime /\ visible \in BOOLEAN /\ limits \in 0..MaxLimits
  /\ mode \in {"watch", "auto"} /\ known \in BOOLEAN
  /\ banner = [text |-> banner.text, resets |-> LastReset] /\ LastReset \in -1..(MaxTime + Day + 1)
  /\ banner = NoBanner \/ (banner.text \in Texts /\ Prints(banner.text, LastReset) /\ 1 <= LastReset)
  /\ visible => banner # NoBanner
  /\ sample = [resets |-> sample.resets, at |-> sample.at]
  /\ sample = NoSample \/ (sample.resets \in 1..LastReset /\ sample.at \in 0..now)

(* A date somebody gave the text on its first sighting.  One past the last  *)
(* reset is a guess within a day, of a bare clock.                          *)
DatedOK(text, first, reset) ==
  /\ text \in Texts /\ Prints(text, reset) /\ first \in Nat /\ reset \in Nat
  /\ first <= now \/ (first < LastReset /\ text = banner.text)
  /\ reset <= LastReset \/ (reset <= now + Day /\ text = Clock(reset))

Remembered == [text : Texts \cup {NoText}, first : Int, reset : Int, episode : Int]
MemoryOK ==
  /\ memory \in Remembered
  /\ memory = NoMemory \/ DatedOK(memory.text, memory.first, memory.reset)
  /\ memory.episode # NoTime => memory.episode \in DOMAIN episodes /\ memory.reset \in DOMAIN episodes

Episodes == [text : Texts, first : Int, confirmed : BOOLEAN, attempted : BOOLEAN,
             completed : BOOLEAN, pending : BOOLEAN]
EpisodesOK ==
  \A r \in DOMAIN episodes : episodes[r] \in Episodes /\ DatedOK(episodes[r].text, episodes[r].first, r)

(* Another date of the same text is not past the last reset.                *)
Bears(r, text) == r \in DOMAIN episodes /\ episodes[r].text = text
SameTextOK ==
  /\ \A r, s \in DOMAIN episodes : r # s /\ episodes[r].text = episodes[s].text => r <= LastReset
  /\ \A r \in DOMAIN episodes : r # memory.reset /\ episodes[r].text = memory.text => r <= LastReset /\ memory.reset <= LastReset
  /\ LastReset \in DOMAIN episodes => episodes[LastReset].text = banner.text

(* What it means to be dated rightly.                                       *)
KnownOK ==
  known =>
    /\ \A r \in DOMAIN episodes : episodes[r].text = banner.text => r <= LastReset
    /\ \/ memory.text = banner.text /\ memory.reset = LastReset
       \/ \E r \in DOMAIN episodes : episodes[r].text = banner.text
    /\ memory.text = banner.text \/ memory = NoMemory

AnchorIInv == WorldOK /\ MemoryOK /\ EpisodesOK /\ SameTextOK /\ KnownOK

LEMMA DayAndTime ==
  /\ Day \in Nat /\ Day >= 1 /\ MaxTime \in Nat /\ MaxLimits \in Nat
  BY TimesAssumption

LEMMA AnchorInitially == AnchorInit => AnchorIInv
  <1> SUFFICES ASSUME AnchorInit PROVE AnchorIInv
    OBVIOUS
  <1>1. DOMAIN episodes = {}
    BY DEF AnchorInit
  <1>2. memory = NoMemory /\ memory \in Remembered /\ memory.episode = NoTime /\ NoTime = -1
    BY DEF AnchorInit, NoMemory, Remembered, NoTime
  <1>5. 0 \in 0..MaxTime /\ 0 \in 0..MaxLimits /\ -1 \in -1..(MaxTime + Day + 1)
    BY DayAndTime
  <1>6. LastReset = -1 /\ banner = [text |-> banner.text, resets |-> LastReset]
        /\ sample = [resets |-> sample.resets, at |-> sample.at]
    BY DEF AnchorInit, NoBanner, NoSample, NoTime, LastReset
  <1>3. WorldOK
    BY <1>5, <1>6 DEF AnchorInit, WorldOK
  <1>4. QED
    BY <1>1, <1>2, <1>3 DEF AnchorInit, AnchorIInv, MemoryOK, EpisodesOK, SameTextOK, KnownOK

LEMMA NeverLateFollows == ASSUME AnchorIInv PROVE NeverLate
  <1> SUFFICES ASSUME known, memory.text = banner.text PROVE memory.reset <= banner.resets
    BY DEF NeverLate
  <1>1. CASE memory = NoMemory
    BY <1>1 DEF NoMemory, NoTime, AnchorIInv, WorldOK, LastReset
  <1>2. CASE memory # NoMemory
    <2>1. memory.reset \in Nat /\ LastReset \in Int
      BY <1>2 DEF AnchorIInv, MemoryOK, DatedOK, WorldOK
    <2>2. CASE memory.reset = LastReset
      BY <2>1, <2>2 DEF LastReset
    <2>3. ASSUME NEW r \in DOMAIN episodes, episodes[r].text = banner.text
          PROVE  memory.reset <= LastReset
      BY <2>1, <2>3 DEF AnchorIInv, SameTextOK, KnownOK
    <2>4. QED
      BY <2>2, <2>3 DEF AnchorIInv, KnownOK, LastReset
  <1>3. QED
    BY <1>1, <1>2

-----------------------------------------------------------------------------
(* The text of a banner on the screen.                                      *)
LEMMA OnScreen ==
  ASSUME AnchorIInv, visible
  PROVE  banner.text \in Texts /\ Prints(banner.text, LastReset) /\ LastReset \in Nat /\ banner.text # NoText
  BY NoTextAssumption, DayAndTime DEF AnchorIInv, WorldOK

LessThan == {pair \in Nat \X Nat : pair[1] < pair[2]}

(* FindEpisode finds an episode of the text when there is one.              *)
LEMMA FindsEpisode ==
  ASSUME AnchorIInv, NEW text
  PROVE  \/ FindEpisode(text) = NoTime /\ \A r \in DOMAIN episodes : episodes[r].text # text
         \/ FindEpisode(text) \in DOMAIN episodes /\ episodes[FindEpisode(text)].text = text
            /\ FindEpisode(text) \in Nat
  <1> DEFINE matches == {r \in DOMAIN episodes : episodes[r].text = text}
             unsettled == {r \in matches : episodes[r].pending}
             anchored == {r \in matches : episodes[r].attempted \/ episodes[r].completed \/ episodes[r].confirmed}
             chosen == IF unsettled # {} THEN unsettled ELSE IF anchored # {} THEN anchored ELSE matches
             bound == MaxTime + Day + 1
  <1>1. FindEpisode(text) = IF chosen = {} THEN NoTime ELSE CHOOSE r \in chosen : \A other \in chosen : other <= r
    BY DEF FindEpisode
  <1>2. chosen \subseteq matches /\ (chosen = {} <=> matches = {})
    OBVIOUS
  <1>3. matches \subseteq DOMAIN episodes /\ \A r \in matches : episodes[r].text = text
    OBVIOUS
  <1>4. DOMAIN episodes \subseteq 0..bound /\ bound \in Nat
    BY DayAndTime DEF AnchorIInv, EpisodesOK, DatedOK, WorldOK
  <1>5. matches = {} => \A r \in DOMAIN episodes : episodes[r].text # text
    OBVIOUS
  <1> HIDE DEF chosen, matches, bound
  <1>6. CASE chosen # {}
    <2> DEFINE ago == {bound - r : r \in chosen}
    <2>3. chosen \subseteq 0..bound
      BY <1>2, <1>3, <1>4
    <2>4. ago \subseteq Nat /\ ago # {}
      <3>1. \A r \in chosen : bound - r \in Nat
        BY <1>4, <2>3
      <3>2. QED
        BY <1>6, <3>1
    <2>5. IsWellFoundedOn(LessThan, Nat)
      BY NatLessThanWellFounded DEF OpToRel, LessThan
    <2>6. PICK least \in ago : \A a \in ago : <<a, least>> \notin LessThan
      BY <2>4, <2>5, WFMin
    <2>7. PICK last \in chosen : least = bound - last
      BY <2>6
    <2>1. \A r \in chosen : r <= last
      <3> SUFFICES ASSUME NEW r \in chosen PROVE r <= last
        OBVIOUS
      <3>1. bound - r \in ago /\ bound - r \in Nat /\ least \in Nat /\ bound \in Nat /\ r \in Nat /\ last \in Nat
        BY <1>4, <2>3, <2>4, <2>6
      <3>2. <<bound - r, least>> \notin LessThan
        BY <2>6, <3>1
      <3> HIDE DEF ago
      <3>3. ~(bound - r < least)
        <4>1. <<bound - r, least>> \in Nat \X Nat /\ <<bound - r, least>>[1] = bound - r
              /\ <<bound - r, least>>[2] = least
          BY <3>1
        <4>2. QED
          BY <3>2, <4>1 DEF LessThan
      <3>4. QED
        BY <2>7, <3>1, <3>3
    <2>2. FindEpisode(text) \in chosen
      BY <1>1, <1>6, <2>1
    <2>8. QED
      BY <1>2, <1>3, <1>4, <2>2
  <1>7. QED
    BY <1>1, <1>2, <1>5, <1>6

(* A window of the sample that the text agrees with is the text's own, and  *)
(* not past the last reset.                                                 *)
LEMMA DatedBySample ==
  ASSUME AnchorIInv, visible, Dated(banner.text)
  PROVE  /\ sample.resets \in 1..LastReset /\ sample.resets \in Nat /\ sample.resets - 1 \in Nat
         /\ Prints(banner.text, sample.resets)
         /\ ParseReset(banner.text, sample.resets - 1) = sample.resets
  <1>1. sample.resets \in 1..LastReset /\ ParseReset(banner.text, sample.resets - 1) = sample.resets /\ LastReset \in Nat
    BY OnScreen DEF Dated, AnchorIInv, WorldOK
  <1>2. sample.resets \in Nat /\ sample.resets - 1 \in Nat
    BY <1>1
  <1>3. CASE banner.text = Date(LastReset)
    BY <1>1, <1>3, DateIsExact DEF Prints
  <1>4. CASE banner.text = Clock(LastReset)
    BY <1>1, <1>2, <1>4, ClockWithinDay DEF Prints
  <1>5. QED
    BY <1>1, <1>2, <1>3, <1>4, OnScreen DEF Prints

(* What Anchored makes of the banner on the screen.                         *)
AnchorOK(m) ==
  /\ m \in Remembered /\ m.text = banner.text /\ DatedOK(m.text, m.first, m.reset)
  /\ m.episode # NoTime => m.episode \in DOMAIN episodes /\ m.reset \in DOMAIN episodes
  /\ \A r \in DOMAIN episodes : r # m.reset /\ episodes[r].text = banner.text => r <= LastReset /\ m.reset <= LastReset
  /\ known => m.reset <= LastReset
  /\ known => m.reset = LastReset \/ \E r \in DOMAIN episodes : episodes[r].text = banner.text

LEMMA AnchoredIsOK ==
  ASSUME AnchorIInv, visible
  PROVE  AnchorOK(Anchored(banner.text))
  <1> DEFINE text == banner.text
             saved == FindEpisode(text)
             m == Anchored(text)
  <1>1. text \in Texts /\ Prints(text, LastReset) /\ LastReset \in Nat /\ text # NoText
    BY OnScreen
  <1>2. NoTime = -1 /\ now \in Nat /\ Day \in Nat /\ Day >= 1
    BY DayAndTime DEF NoTime, AnchorIInv, WorldOK
  <1>3. \/ saved = NoTime /\ \A r \in DOMAIN episodes : episodes[r].text # text
        \/ saved \in DOMAIN episodes /\ episodes[saved].text = text /\ saved \in Nat
    BY FindsEpisode
  <1>4. ASSUME NEW t \in Texts, NEW f \in Int, NEW r \in Int, NEW e \in Int
        PROVE  /\ [text |-> t, first |-> f, reset |-> r, episode |-> e] \in Remembered
               /\ [text |-> t, first |-> f, reset |-> r, episode |-> e].text = t
               /\ [text |-> t, first |-> f, reset |-> r, episode |-> e].first = f
               /\ [text |-> t, first |-> f, reset |-> r, episode |-> e].reset = r
               /\ [text |-> t, first |-> f, reset |-> r, episode |-> e].episode = e
    BY DEF Remembered
  <1>5. CASE Renewed(text, saved)
    <2>1. saved \in DOMAIN episodes /\ episodes[saved].text = text /\ saved \in Nat /\ Dated(text) /\ sample.resets > saved
      BY <1>3, <1>5 DEF Renewed
    <2>2. sample.resets \in 1..LastReset /\ sample.resets \in Nat /\ Prints(text, sample.resets)
      BY <2>1, DatedBySample
    <2>3. m = [text |-> text, first |-> now, reset |-> sample.resets, episode |-> NoTime]
      BY <1>5 DEF Anchored
    <2> HIDE DEF m, text, saved
    <2>4. m \in Remembered /\ m.text = text /\ m.first = now /\ m.reset = sample.resets /\ m.episode = NoTime
      BY <1>1, <1>2, <1>4, <2>2, <2>3
    <2>5. DatedOK(text, now, sample.resets)
      BY <1>1, <1>2, <2>2 DEF DatedOK
    <2>6. \A r \in DOMAIN episodes : episodes[r].text = text => r <= LastReset
      BY <1>1, <2>1, <2>2 DEF AnchorIInv, SameTextOK
    <2>7. QED
      BY <1>1, <2>1, <2>2, <2>4, <2>5, <2>6 DEF AnchorOK, text, m
  <1>6. CASE ~Renewed(text, saved) /\ memory.text = text /\ memory.reset # NoTime
    <2>1. m = memory
      BY <1>6 DEF Anchored
    <2>2. memory # NoMemory
      BY <1>6 DEF NoMemory
    <2>3. known => memory.reset <= LastReset
      BY <1>6, NeverLateFollows DEF NeverLate, LastReset
    <2> HIDE DEF m
    <2>4. QED
      BY <1>6, <2>1, <2>2, <2>3 DEF AnchorOK, AnchorIInv, MemoryOK, SameTextOK, KnownOK, m
  <1>7. CASE ~Renewed(text, saved) /\ ~(memory.text = text /\ memory.reset # NoTime) /\ saved # NoTime
    <2>1. m = [text |-> text, first |-> episodes[saved].first, reset |-> saved, episode |-> memory.episode]
      BY <1>7 DEF Anchored
    <2>2. saved \in DOMAIN episodes /\ episodes[saved].text = text /\ saved \in Nat
      BY <1>3, <1>7
    <2>3. DatedOK(text, episodes[saved].first, saved) /\ episodes[saved].first \in Int
      BY <2>2 DEF AnchorIInv, EpisodesOK, DatedOK
    <2>4. memory.episode \in Int
      BY DEF AnchorIInv, MemoryOK, Remembered
    <2> HIDE DEF m, text, saved
    <2>5. m \in Remembered /\ m.text = text /\ m.first = episodes[saved].first /\ m.reset = saved /\ m.episode = memory.episode
      BY <1>1, <1>4, <2>1, <2>2, <2>3, <2>4
    <2>6. \A r \in DOMAIN episodes : r # saved /\ episodes[r].text = text => r <= LastReset /\ saved <= LastReset
      BY <2>2 DEF AnchorIInv, SameTextOK
    <2>7. known => saved <= LastReset
      BY <2>2 DEF AnchorIInv, KnownOK, text
    <2>8. memory.episode # NoTime => memory.episode \in DOMAIN episodes
      BY DEF AnchorIInv, MemoryOK
    <2>9. QED
      BY <2>2, <2>3, <2>5, <2>6, <2>7, <2>8 DEF AnchorOK, text, m
  <1>8. CASE ~Renewed(text, saved) /\ ~(memory.text = text /\ memory.reset # NoTime) /\ saved = NoTime
    <2> DEFINE ref == Reference(text)
    <2>1. m = [text |-> text, first |-> ref, reset |-> ParseReset(text, ref), episode |-> NoTime]
      BY <1>8 DEF Anchored
    <2>2. \A r \in DOMAIN episodes : episodes[r].text # text
      BY <1>2, <1>3, <1>8
    <2>3. memory # NoMemory => memory.text # text
      BY <1>2, <1>8 DEF AnchorIInv, MemoryOK, DatedOK
    <2>4. ~known
      BY <1>1, <1>2, <1>8, <2>2 DEF AnchorIInv, KnownOK
    <2>5. \/ ref \in Nat /\ ref <= now
          \/ ref \in Nat /\ ref < LastReset /\ ParseReset(text, ref) \in Nat /\ Prints(text, ParseReset(text, ref))
             /\ ParseReset(text, ref) <= LastReset
      <3>1. CASE memory.first # NoTime
        <4>1. memory # NoMemory
          BY <3>1 DEF NoMemory
        <4>2. memory.first \in Nat /\ memory.first <= now
          BY <2>3, <4>1 DEF AnchorIInv, MemoryOK, DatedOK
        <4>3. QED
          BY <3>1, <4>2 DEF Reference
      <3>2. CASE memory.first = NoTime /\ Dated(text)
        <4>1. ref = sample.resets - 1
          BY <3>2 DEF Reference
        <4> HIDE DEF ref
        <4>2. QED
          BY <1>1, <3>2, <4>1, DatedBySample
      <3>3. CASE memory.first = NoTime /\ ~Dated(text)
        BY <1>2, <3>3 DEF Reference
      <3>4. QED
        BY <3>1, <3>2, <3>3
    <2> DEFINE reset == ParseReset(text, ref)
    <2> HIDE DEF ref, m
    <2>6. reset \in Nat /\ Prints(text, reset) /\ (reset <= LastReset \/ (reset <= now + Day /\ text = Clock(reset)))
      <3>1. CASE text = Date(LastReset)
        BY <1>1, <3>1, DateIsExact DEF Prints
      <3>2. CASE text = Clock(LastReset) /\ ref \in Nat /\ ref <= now
        <4>1. reset \in (ref + 1)..(ref + Day) /\ Clock(reset) = text
          BY <1>1, <3>2, ClockWithinDay
        <4> HIDE DEF reset
        <4>2. reset \in Nat /\ reset <= now + Day
          BY <1>2, <3>2, <4>1
        <4>3. QED
          BY <4>1, <4>2 DEF Prints
      <3>3. CASE ref < LastReset /\ reset \in Nat /\ Prints(text, reset) /\ reset <= LastReset
        BY <3>3
      <3>4. QED
        BY <1>1, <2>5, <3>1, <3>2, <3>3 DEF Prints
    <2> HIDE DEF text, reset, saved
    <2>7. DatedOK(text, ref, reset)
      BY <1>1, <2>5, <2>6 DEF DatedOK, text
    <2>8. m \in Remembered /\ m.text = text /\ m.first = ref /\ m.reset = reset /\ m.episode = NoTime
      <3>1. ref \in Int /\ reset \in Int /\ NoTime \in Int
        BY <1>2, <2>5, <2>6
      <3>2. m = [text |-> text, first |-> ref, reset |-> reset, episode |-> NoTime]
        BY <2>1 DEF reset
      <3>3. QED
        BY <1>1, <1>4, <3>1, <3>2
    <2>9. QED
      BY <2>2, <2>4, <2>7, <2>8 DEF AnchorOK, text, m
  <1>9. QED
    BY <1>5, <1>6, <1>7, <1>8

-----------------------------------------------------------------------------
(* The steps.  What only moves the clock or the sample keeps every date.    *)
LEMMA StillDated ==
  ASSUME NEW text, NEW first, NEW reset, DatedOK(text, first, reset), WorldOK,
         now' \in Nat, now <= now', banner' = banner
  PROVE  DatedOK(text, first, reset)'
  BY DayAndTime DEF DatedOK, WorldOK, LastReset

LEMMA AnchorQuiet ==
  ASSUME AnchorIInv, WorldOK', now' \in Nat, now <= now', banner' = banner, UNCHANGED <<memory, episodes, known>>
  PROVE  AnchorIInv'
  <1>1. MemoryOK'
    BY StillDated DEF AnchorIInv, MemoryOK
  <1>2. EpisodesOK'
    BY StillDated DEF AnchorIInv, EpisodesOK
  <1>3. SameTextOK' /\ KnownOK'
    BY DEF AnchorIInv, SameTextOK, KnownOK, LastReset
  <1>4. QED
    BY <1>1, <1>2, <1>3 DEF AnchorIInv

(* Of an episode only the flags change.                                     *)
LEMMA AnchorFlags ==
  ASSUME AnchorIInv, UNCHANGED world, mode' \in {"watch", "auto"}, known' \in BOOLEAN,
         NEW e, episodes' = e, DOMAIN e = DOMAIN episodes,
         \A r \in DOMAIN e : e[r] \in Episodes /\ e[r].text = episodes[r].text /\ e[r].first = episodes[r].first,
         \/ memory' = memory /\ known' = known
         \/ memory' = NoMemory /\ known' = known /\ memory.episode # NoTime
         \/ memory' = NoMemory /\ known' = (known /\ LastReset \in DOMAIN episodes)
  PROVE  AnchorIInv'
  <1>1. LastReset' = LastReset /\ banner' = banner /\ now' = now
    BY DEF world, LastReset
  <1>2. WorldOK'
    BY <1>1 DEF AnchorIInv, WorldOK, world
  <1>3. MemoryOK'
    <2>1. NoMemory \in Remembered /\ NoMemory.episode = NoTime
      BY DEF NoMemory, Remembered, NoTime
    <2>2. CASE memory' = memory
      BY <1>1, <2>2 DEF AnchorIInv, MemoryOK, DatedOK
    <2>3. CASE memory' = NoMemory
      BY <2>1, <2>3 DEF MemoryOK
    <2>4. QED
      BY <2>2, <2>3
  <1>4. EpisodesOK'
    BY <1>1 DEF AnchorIInv, EpisodesOK, DatedOK
  <1>5. SameTextOK'
    <2>1. CASE memory' = memory
      BY <1>1, <2>1 DEF AnchorIInv, SameTextOK
    <2>2. CASE memory' = NoMemory
      <3>1. \A r \in DOMAIN episodes : episodes[r].text # NoText
        BY NoTextAssumption DEF AnchorIInv, EpisodesOK, DatedOK
      <3>2. NoMemory.text = NoText
        BY DEF NoMemory
      <3>3. QED
        BY <1>1, <2>2, <3>1, <3>2 DEF AnchorIInv, SameTextOK
    <2>3. QED
      BY <2>1, <2>2
  <1>6. KnownOK'
    <2>1. CASE known' = known /\ memory' = memory
      BY <1>1, <2>1 DEF AnchorIInv, KnownOK
    <2>2. CASE known' /\ known /\ memory' = NoMemory /\ (memory.episode # NoTime \/ LastReset \in DOMAIN episodes)
      <3>1. \E r \in DOMAIN episodes : episodes[r].text = banner.text
        <4>1. CASE LastReset \in DOMAIN episodes
          BY <4>1 DEF AnchorIInv, SameTextOK
        <4>2. CASE memory.episode # NoTime /\ memory.text = banner.text /\ memory.reset = LastReset
          BY <4>2 DEF AnchorIInv, MemoryOK, SameTextOK
        <4>3. QED
          BY <2>2, <4>1, <4>2 DEF AnchorIInv, KnownOK
      <3>2. QED
        BY <1>1, <2>2, <3>1 DEF AnchorIInv, KnownOK
    <2>3. QED
      BY <2>1, <2>2 DEF KnownOK
  <1>7. QED
    BY <1>2, <1>3, <1>4, <1>5, <1>6 DEF AnchorIInv

LEMMA AnchorTry == ASSUME AnchorIInv, Try \/ Settle PROVE AnchorIInv'
  <1>1. CASE Try
    <2> DEFINE e == [episodes EXCEPT ![memory.episode].attempted = TRUE, ![memory.episode].pending = TRUE]
    <2>1. episodes' = e /\ DOMAIN e = DOMAIN episodes /\ UNCHANGED <<world, memory, known>> /\ mode' \in {"watch", "auto"}
      BY <1>1 DEF Try, AnchorIInv, WorldOK
    <2>2. \A r \in DOMAIN e : e[r] \in Episodes /\ e[r].text = episodes[r].text /\ e[r].first = episodes[r].first
      BY DEF AnchorIInv, EpisodesOK, Episodes
    <2>3. known' \in BOOLEAN
      BY <2>1 DEF AnchorIInv, WorldOK
    <2> HIDE DEF e
    <2>4. QED
      BY <2>1, <2>2, <2>3, AnchorFlags
  <1>2. CASE Settle
    <2> DEFINE e == [episodes EXCEPT ![memory.episode].pending = FALSE]
    <2>1. episodes' = e /\ DOMAIN e = DOMAIN episodes /\ UNCHANGED <<world, memory, known>> /\ mode' \in {"watch", "auto"}
      BY <1>2 DEF Settle, AnchorIInv, WorldOK
    <2>2. \A r \in DOMAIN e : e[r] \in Episodes /\ e[r].text = episodes[r].text /\ e[r].first = episodes[r].first
      BY DEF AnchorIInv, EpisodesOK, Episodes
    <2>3. known' \in BOOLEAN
      BY <2>1 DEF AnchorIInv, WorldOK
    <2> HIDE DEF e
    <2>4. QED
      BY <2>1, <2>2, <2>3, AnchorFlags
  <1>3. QED
    BY <1>1, <1>2

LEMMA AnchorForget == ASSUME AnchorIInv, Finish \/ Restart PROVE AnchorIInv'
  <1>1. CASE Finish
    <2> DEFINE e == IF mode = "auto" THEN [episodes EXCEPT ![memory.episode].completed = TRUE, ![memory.episode].pending = FALSE]
                    ELSE episodes
    <2>1. episodes' = e /\ UNCHANGED <<world, known>> /\ mode' \in {"watch", "auto"}
          /\ memory' = NoMemory /\ memory.episode # NoTime
      BY <1>1 DEF Finish, AnchorIInv, WorldOK
    <2>2. DOMAIN e = DOMAIN episodes
      OBVIOUS
    <2>3. \A r \in DOMAIN e : e[r] \in Episodes /\ e[r].text = episodes[r].text /\ e[r].first = episodes[r].first
      <3>1. CASE mode = "auto"
        <4>1. e = [episodes EXCEPT ![memory.episode].completed = TRUE, ![memory.episode].pending = FALSE]
          BY <3>1
        <4>2. \A r \in DOMAIN episodes : episodes[r] \in Episodes
          BY DEF AnchorIInv, EpisodesOK
        <4> HIDE DEF e
        <4>3. DOMAIN e = DOMAIN episodes /\ \A r \in DOMAIN episodes : r # memory.episode => e[r] = episodes[r]
          BY <4>1
        <4>4. memory.episode \in DOMAIN episodes
              => e[memory.episode] = [episodes[memory.episode] EXCEPT !.completed = TRUE, !.pending = FALSE]
          BY <4>1
        <4>6. ASSUME memory.episode \in DOMAIN episodes
              PROVE  LET x == e[memory.episode] IN
                     x \in Episodes /\ x.text = episodes[memory.episode].text /\ x.first = episodes[memory.episode].first
          <5> DEFINE x == episodes[memory.episode]
          <5>1. x \in Episodes
            BY <4>2, <4>6
          <5>2. e[memory.episode] = [x EXCEPT !.completed = TRUE, !.pending = FALSE]
            BY <4>4, <4>6
          <5> HIDE DEF x
          <5>3. e[memory.episode] \in Episodes /\ e[memory.episode].text = x.text /\ e[memory.episode].first = x.first
            BY <5>1, <5>2 DEF Episodes
          <5>4. QED
            BY <5>3 DEF x
        <4>7. QED
          BY <4>2, <4>3, <4>6
      <3>2. CASE mode # "auto"
        BY <3>2 DEF AnchorIInv, EpisodesOK, Episodes
      <3>3. QED
        BY <3>1, <3>2
    <2>4. known' \in BOOLEAN
      BY <2>1 DEF AnchorIInv, WorldOK
    <2> HIDE DEF e
    <2>5. QED
      BY <2>1, <2>2, <2>3, <2>4, AnchorFlags
  <1>2. CASE Restart
    <2>1. UNCHANGED <<world, episodes>> /\ mode' \in {"watch", "auto"} /\ memory' = NoMemory
          /\ known' = (known /\ LastReset \in DOMAIN episodes) /\ known' \in BOOLEAN
      BY <1>2 DEF Restart, AnchorIInv, WorldOK, LastReset
    <2>2. \A r \in DOMAIN episodes : episodes[r] \in Episodes
      BY DEF AnchorIInv, EpisodesOK
    <2>3. QED
      BY <2>1, <2>2, AnchorFlags
  <1>3. QED
    BY <1>1, <1>2

(* A new limit is later than every other date.                              *)
LEMMA AnchorRunInto ==
  ASSUME AnchorIInv, NEW resets \in (now + 1)..(now + Day + 1), RunInto(resets)
  PROVE  AnchorIInv'
  <1> DEFINE text == IF resets - now <= Day THEN Clock(resets) ELSE Date(resets)
  <1>1. /\ limits < MaxLimits /\ LastReset <= now /\ visible' = TRUE /\ limits' = limits + 1 /\ known' = FALSE
        /\ banner' = [text |-> text, resets |-> resets] /\ UNCHANGED <<now, sample, mode, memory, episodes>>
    BY DEF RunInto, LastReset
  <1>2. now \in 0..MaxTime /\ LastReset \in Int /\ limits \in 0..MaxLimits /\ MaxTime \in Nat /\ Day \in Nat /\ Day >= 1 /\ MaxLimits \in Nat
    BY DayAndTime DEF AnchorIInv, WorldOK
  <1>3. resets \in Nat /\ 1 <= resets /\ resets \in Instants /\ resets <= MaxTime + Day + 1 /\ LastReset < resets
    BY <1>1, <1>2 DEF Instants
  <1>4. text \in Texts /\ Prints(text, resets)
    BY <1>3, TextTypes DEF Prints
  <1>5. resets <= now + Day => text = Clock(resets)
    BY <1>2, <1>3
  <1> HIDE DEF text
  <1>6. LastReset' = resets /\ banner'.text = text
    BY <1>1 DEF LastReset
  <1>7. WorldOK'
    <2>1. sample = NoSample \/ (sample.resets \in 1..resets /\ sample.at \in 0..now)
      BY <1>2, <1>3 DEF AnchorIInv, WorldOK
    <2>2. banner' # NoBanner
      BY <1>3, <1>6 DEF NoBanner, NoTime, LastReset
    <2>3. limits' \in 0..MaxLimits
      BY <1>1, <1>2
    <2>4. resets \in -1..(MaxTime + Day + 1)
      BY <1>2, <1>3
    <2>5. QED
      BY <1>1, <1>2, <1>3, <1>4, <1>6, <2>1, <2>2, <2>3, <2>4 DEF AnchorIInv, WorldOK
  <1>8. ASSUME NEW t, NEW first, NEW r, DatedOK(t, first, r)
        PROVE  DatedOK(t, first, r)' /\ (r <= LastReset' \/ (r <= now + Day /\ t = Clock(r)))
               /\ (r = LastReset' => t = banner'.text) /\ r \in Nat
    BY <1>1, <1>2, <1>3, <1>5, <1>6, <1>8 DEF DatedOK
  <1>9. MemoryOK'
    BY <1>1, <1>8 DEF AnchorIInv, MemoryOK
  <1>10. EpisodesOK'
    BY <1>1, <1>8 DEF AnchorIInv, EpisodesOK
  <1>11. SameTextOK'
    <2>1. \A r \in DOMAIN episodes : r \in Nat /\ (r = LastReset' => episodes[r].text = banner'.text)
      BY <1>8 DEF AnchorIInv, EpisodesOK
    <2>2. memory.reset \in Int
      BY DEF AnchorIInv, MemoryOK, Remembered
    <2>3. QED
      BY <1>1, <1>2, <1>3, <1>6, <2>1, <2>2 DEF AnchorIInv, SameTextOK
  <1>12. QED
    BY <1>1, <1>7, <1>9, <1>10, <1>11 DEF AnchorIInv, KnownOK

LEMMA AnchorWorldMoves ==
  ASSUME AnchorIInv, Tick \/ Redraw \/ Gauge \/ SwitchMode
  PROVE  AnchorIInv'
  <1>1. now \in 0..MaxTime /\ MaxTime \in Nat /\ LastReset \in Int
    BY DayAndTime DEF AnchorIInv, WorldOK
  <1>2. banner' = banner /\ UNCHANGED <<limits, memory, episodes, known>>
    BY DEF Tick, Redraw, Gauge, SwitchMode, world
  <1>3. CASE Tick
    <2>1. now' = now + 1 /\ now' \in 0..MaxTime /\ UNCHANGED <<visible, sample, mode>>
      BY <1>1, <1>3 DEF Tick
    <2>2. sample = NoSample \/ sample.at \in 0..now'
      BY <1>1, <2>1 DEF AnchorIInv, WorldOK
    <2>3. WorldOK'
      BY <1>2, <2>1, <2>2 DEF AnchorIInv, WorldOK, LastReset
    <2>4. QED
      BY <1>1, <1>2, <2>1, <2>3, AnchorQuiet
  <1>4. CASE Redraw
    <2>1. now' = now /\ visible' \in BOOLEAN /\ banner # NoBanner /\ UNCHANGED <<sample, mode>>
      BY <1>4 DEF Redraw
    <2>2. WorldOK'
      BY <1>2, <2>1 DEF AnchorIInv, WorldOK, LastReset
    <2>3. QED
      BY <1>1, <1>2, <2>1, <2>2, AnchorQuiet
  <1>5. CASE Gauge
    <2>1. now' = now /\ UNCHANGED <<visible, mode>>
      BY <1>5 DEF Gauge
    <2>2. /\ sample' = [resets |-> sample'.resets, at |-> sample'.at]
          /\ sample' = NoSample \/ (sample'.resets \in 1..LastReset /\ sample'.at \in 0..now)
      BY <1>1, <1>5 DEF Gauge, NoSample, LastReset
    <2>3. WorldOK'
      BY <1>2, <2>1, <2>2 DEF AnchorIInv, WorldOK, LastReset
    <2>4. QED
      BY <1>1, <1>2, <2>1, <2>3, AnchorQuiet
  <1>6. CASE SwitchMode
    <2>1. now' = now /\ mode' \in {"watch", "auto"} /\ UNCHANGED <<visible, sample>>
      BY <1>6 DEF SwitchMode, world
    <2>2. WorldOK'
      BY <1>2, <2>1 DEF AnchorIInv, WorldOK, LastReset
    <2>3. QED
      BY <1>1, <1>2, <2>1, <2>2, AnchorQuiet
  <1>7. QED
    BY <1>3, <1>4, <1>5, <1>6

(* Preparing an episode adds one, of the banner's text, or keeps the text   *)
(* and the sighting of the one there was.                                   *)
LEMMA PreparedIsOK ==
  ASSUME AnchorIInv, NEW m, AnchorOK(m)
  PROVE  /\ DOMAIN Prepared(m) = DOMAIN episodes \cup {m.reset}
         /\ \A r \in DOMAIN episodes :
              Prepared(m)[r].text = episodes[r].text /\ Prepared(m)[r].first = episodes[r].first
         /\ \A r \in DOMAIN Prepared(m) : Prepared(m)[r] \in Episodes
         /\ m.reset \notin DOMAIN episodes =>
              Prepared(m)[m.reset].text = m.text /\ Prepared(m)[m.reset].first = m.first
  <1> DEFINE old == IF m.reset \in DOMAIN episodes THEN episodes[m.reset] ELSE Fresh(m)
             yes == old.confirmed \/ Confirmed(m.reset)
             done == old.completed /\ old.pending
             new == [old EXCEPT !.confirmed = yes, !.completed = done]
  <1>1. Prepared(m) = [r \in DOMAIN episodes \cup {m.reset} |-> IF r = m.reset THEN new ELSE episodes[r]]
    BY DEF Prepared
  <1>2. \A r \in DOMAIN episodes : episodes[r] \in Episodes
    BY DEF AnchorIInv, EpisodesOK
  <1>3. m.text \in Texts /\ m.first \in Int
    BY DEF AnchorOK, DatedOK
  <1>4. Fresh(m) \in Episodes /\ Fresh(m).text = m.text /\ Fresh(m).first = m.first
    BY <1>3 DEF Fresh, Episodes
  <1>5. old \in Episodes
    BY <1>2, <1>4
  <1>6. yes \in BOOLEAN /\ done \in BOOLEAN
    OBVIOUS
  <1>7. /\ m.reset \in DOMAIN episodes => old.text = episodes[m.reset].text /\ old.first = episodes[m.reset].first
        /\ m.reset \notin DOMAIN episodes => old.text = m.text /\ old.first = m.first
    BY <1>4
  <1> HIDE DEF old, yes, done
  <1>8. new \in Episodes /\ new.text = old.text /\ new.first = old.first
    BY <1>5, <1>6 DEF Episodes
  <1> HIDE DEF new
  <1>9. QED
    BY <1>1, <1>2, <1>7, <1>8

LEMMA AnchorObserve == ASSUME AnchorIInv, Observe PROVE AnchorIInv'
  <1>0. PICK m : m = Anchored(banner.text)
    OBVIOUS
  <1>1. visible /\ UNCHANGED <<world, mode>> /\ known' = (known \/ memory'.reset = LastReset)
    BY DEF Observe, LastReset
  <1>2. AnchorOK(m)
    BY <1>0, <1>1, AnchoredIsOK
  <1>3. \/ memory' = m /\ episodes' = episodes
        \/ memory' = [m EXCEPT !.episode = m.reset] /\ episodes' = Prepared(m)
    BY <1>0 DEF Observe
  <1>4. m \in Remembered /\ m.text = banner.text /\ DatedOK(m.text, m.first, m.reset) /\ m.reset \in Nat
    BY <1>2 DEF AnchorOK, DatedOK
  <1>5. /\ memory' \in Remembered /\ memory'.text = m.text
        /\ memory'.first = m.first /\ memory'.reset = m.reset
    BY <1>3, <1>4 DEF Remembered
  <1>5a. \/ memory' = m /\ episodes' = episodes
         \/ memory'.episode = m.reset /\ episodes' = Prepared(m)
    BY <1>3, <1>4 DEF Remembered
  <1>6. /\ \A r \in DOMAIN episodes : /\ r \in DOMAIN episodes'
                                    /\ episodes'[r].text = episodes[r].text
                                    /\ episodes'[r].first = episodes[r].first
        /\ \A r \in DOMAIN episodes' : episodes'[r] \in Episodes
        /\ (m.reset \in DOMAIN episodes' /\ m.reset \notin DOMAIN episodes)
             => (episodes'[m.reset].text = m.text /\ episodes'[m.reset].first = m.first)
        /\ \A r \in DOMAIN episodes' : r \in DOMAIN episodes \/ r = m.reset
    <2>1. CASE episodes' = episodes
      BY <2>1 DEF AnchorIInv, EpisodesOK
    <2>2. CASE episodes' = Prepared(m)
      <3>1. /\ DOMAIN Prepared(m) = DOMAIN episodes \cup {m.reset}
            /\ \A r \in DOMAIN episodes :
                 Prepared(m)[r].text = episodes[r].text /\ Prepared(m)[r].first = episodes[r].first
            /\ \A r \in DOMAIN Prepared(m) : Prepared(m)[r] \in Episodes
            /\ m.reset \notin DOMAIN episodes =>
                 Prepared(m)[m.reset].text = m.text /\ Prepared(m)[m.reset].first = m.first
        BY <1>2, PreparedIsOK
      <3>2. QED
        BY <2>2, <3>1
    <2>3. QED
      BY <1>5a, <2>1, <2>2
  <1>7. LastReset' = LastReset /\ banner' = banner /\ now' = now
    BY <1>1 DEF world, LastReset
  <1>8. WorldOK'
    BY <1>1, <1>7 DEF AnchorIInv, WorldOK, world
  <1>9. DatedOK(m.text, m.first, m.reset)'
    BY <1>4, <1>7 DEF DatedOK
  <1>10. MemoryOK'
    <2>1. CASE memory' = m /\ episodes' = episodes
      <3>1. m.episode # NoTime => m.episode \in DOMAIN episodes /\ m.reset \in DOMAIN episodes
        BY <1>2 DEF AnchorOK
      <3>2. DatedOK(memory.text, memory.first, memory.reset)'
        BY <1>5, <1>9, <2>1 DEF DatedOK
      <3>3. QED
        BY <1>5, <2>1, <3>1, <3>2 DEF MemoryOK
    <2>2. CASE episodes' = Prepared(m) /\ memory'.episode = m.reset
      <3>1. m.reset \in DOMAIN episodes'
        BY <1>2, <2>2, PreparedIsOK
      <3>2. QED
        <4>1. DatedOK(memory.text, memory.first, memory.reset)'
          BY <1>5, <1>9, <2>2 DEF DatedOK
        <4>2. QED
          BY <1>5, <2>2, <3>1, <4>1 DEF MemoryOK
    <2>3. QED
      BY <1>5a, <2>1, <2>2
  <1>11. EpisodesOK'
    <2> SUFFICES ASSUME NEW r \in DOMAIN episodes'
                 PROVE  episodes'[r] \in Episodes /\ DatedOK(episodes[r].text, episodes[r].first, r)'
      BY DEF EpisodesOK
    <2>1. CASE r \in DOMAIN episodes
      <3>1. DatedOK(episodes[r].text, episodes[r].first, r)
        BY <2>1 DEF AnchorIInv, EpisodesOK
      <3>2. QED
        BY <1>6, <1>7, <2>1, <3>1 DEF DatedOK
    <2>2. CASE r \notin DOMAIN episodes
      BY <1>4, <1>6, <1>7, <2>2 DEF DatedOK
    <2>3. QED
      BY <2>1, <2>2
  <1>12. ASSUME NEW r \in DOMAIN episodes', episodes'[r].text = banner.text, r # m.reset
         PROVE  r <= LastReset /\ m.reset <= LastReset
    BY <1>2, <1>6, <1>12 DEF AnchorOK
  <1>13. SameTextOK'
    <2>1. ASSUME NEW r \in DOMAIN episodes', NEW q \in DOMAIN episodes', r # q, episodes'[r].text = episodes'[q].text
          PROVE  r <= LastReset
      <3>1. CASE r \in DOMAIN episodes /\ q \in DOMAIN episodes
        BY <1>6, <2>1, <3>1 DEF AnchorIInv, SameTextOK
      <3>2. CASE r \notin DOMAIN episodes
        BY <1>4, <1>6, <1>12, <2>1, <3>2
      <3>3. CASE q \notin DOMAIN episodes
        BY <1>4, <1>6, <1>12, <2>1, <3>3
      <3>4. QED
        BY <3>1, <3>2, <3>3
    <2>2. LastReset \in DOMAIN episodes' => episodes'[LastReset].text = banner.text
      BY <1>4, <1>6 DEF AnchorIInv, SameTextOK
    <2>3. QED
      BY <1>4, <1>5, <1>7, <1>12, <2>1, <2>2 DEF SameTextOK
  <1>14. KnownOK'
    <2> SUFFICES ASSUME known' PROVE /\ \A r \in DOMAIN episodes' : episodes'[r].text = banner.text => r <= LastReset
                                     /\ m.reset = LastReset \/ \E r \in DOMAIN episodes' : episodes'[r].text = banner.text
      BY <1>4, <1>5, <1>7 DEF KnownOK
    <2>1. CASE m.reset = LastReset
      BY <1>4, <1>12, <2>1
    <2>2. CASE known
      <3>1. m.reset <= LastReset /\ (m.reset = LastReset \/ \E r \in DOMAIN episodes : episodes[r].text = banner.text)
        BY <1>2, <2>2 DEF AnchorOK
      <3>2. QED
        BY <1>6, <1>12, <3>1
    <2>3. QED
      BY <1>1, <1>5, <2>1, <2>2
  <1>15. QED
    BY <1>8, <1>10, <1>11, <1>13, <1>14 DEF AnchorIInv

-----------------------------------------------------------------------------
LEMMA AnchorInv == AnchorSpec => []AnchorIInv
  <1>1. ASSUME AnchorIInv, [AnchorNext]_anchorVars PROVE AnchorIInv'
    <2>1. CASE UNCHANGED anchorVars
      <3>1. WorldOK' /\ now' \in Nat /\ now <= now' /\ banner' = banner /\ UNCHANGED <<memory, episodes, known>>
        BY <1>1, <2>1, DayAndTime DEF AnchorIInv, WorldOK, LastReset, anchorVars, world
      <3>2. QED
        BY <1>1, <3>1, AnchorQuiet
    <2>2. QED
      BY <1>1, <2>1, AnchorObserve, AnchorTry, AnchorForget, AnchorWorldMoves, AnchorRunInto DEF AnchorNext
  <1>2. QED
    BY <1>1, AnchorInitially, PTL DEF AnchorSpec

(* Every variable of the dating of a banner stays within its type.          *)
THEOREM AnchorTyped == AnchorSpec => []AnchorTypeOK
  <1>1. AnchorIInv => AnchorTypeOK
    <2> SUFFICES ASSUME AnchorIInv PROVE AnchorTypeOK
      OBVIOUS
    <2> USE DayAndTime
    <2>1. now \in 0..MaxTime /\ LastReset \in -1..(MaxTime + Day + 1)
      BY DEF AnchorIInv, WorldOK
    <2>2. ASSUME NEW text, NEW first, NEW reset, DatedOK(text, first, reset)
          PROVE  first \in Instants /\ reset \in Instants /\ first # NoTime /\ reset # NoTime /\ text # NoText
      BY <2>1, <2>2, NoTextAssumption DEF DatedOK, Instants, NoTime
    <2>3. LastReset \in Instants \cup {NoTime}
      BY <2>1 DEF Instants, NoTime
    <2>4. banner \in [text : Texts \cup {NoText}, resets : Instants \cup {NoTime}]
      <3>1. banner.text \in Texts \cup {NoText} /\ banner = [text |-> banner.text, resets |-> LastReset]
        BY DEF AnchorIInv, WorldOK, NoBanner
      <3>2. QED
        BY <2>3, <3>1
    <2>5. sample \in [resets : Instants \cup {NoTime}, at : Instants \cup {NoTime}]
      <3>1. sample.resets \in Instants \cup {NoTime} /\ sample.at \in Instants \cup {NoTime}
        BY <2>1 DEF AnchorIInv, WorldOK, NoSample, Instants, NoTime
      <3>2. sample = [resets |-> sample.resets, at |-> sample.at]
        BY DEF AnchorIInv, WorldOK
      <3>3. QED
        BY <3>1, <3>2
    <2>6. DOMAIN episodes \subseteq Instants
      BY <2>2 DEF AnchorIInv, EpisodesOK
    <2>7. ASSUME NEW r \in DOMAIN episodes
          PROVE  episodes[r] \in [text : Texts, first : Instants, confirmed : BOOLEAN,
                                  attempted : BOOLEAN, completed : BOOLEAN, pending : BOOLEAN]
      <3>1. episodes[r] \in Episodes /\ episodes[r].first \in Instants
        BY <2>2 DEF AnchorIInv, EpisodesOK
      <3>2. QED
        BY <3>1 DEF Episodes
    <2>8. memory.episode \in DOMAIN episodes \cup {NoTime}
      BY DEF AnchorIInv, MemoryOK
    <2>9. /\ (memory.text = NoText) = (memory.reset = NoTime) /\ (memory.text = NoText) = (memory.first = NoTime)
          /\ memory.first \in Instants \cup {NoTime} /\ memory.reset \in Instants \cup {NoTime}
      <3>1. CASE memory = NoMemory
        BY <3>1 DEF NoMemory
      <3>2. CASE memory # NoMemory
        BY <2>2, <3>2 DEF AnchorIInv, MemoryOK
      <3>3. QED
        BY <3>1, <3>2
    <2>10. memory \in [text : Texts \cup {NoText}, first : Instants \cup {NoTime},
                       reset : Instants \cup {NoTime}, episode : Instants \cup {NoTime}]
      BY <2>6, <2>8, <2>9 DEF AnchorIInv, MemoryOK, Remembered
    <2>11. QED
      BY <2>1, <2>4, <2>5, <2>6, <2>7, <2>8, <2>9, <2>10 DEF AnchorIInv, WorldOK, AnchorTypeOK
  <1>2. QED
    BY <1>1, AnchorInv, PTL

(* docs/USAGE.md:567-571, Supervisor._anchor_reset: a banner that was once   *)
(* dated rightly is never dated later, over midnight, redraws, trials, a    *)
(* recovery, a switch of mode and restarts that find its episode.           *)
THEOREM DatedNeverLate == AnchorSpec => []NeverLate
  BY AnchorInv, NeverLateFollows, PTL

-----------------------------------------------------------------------------
(* Who would read the key (Foreground).                                    *)

Living(image) == image.program # NoProgram
Started == {"exe", "status", "comm", "cmdline", "environ", "ancestors", "children", "verdict"}
Stages == {"idle", "stat"} \cup Started
CommRead == Started \ {"exe", "status", "comm"}
Reader == reading.info.pid

(* Types, and what the kernel's process table always is: only the terminal  *)
(* is Konsole or a multiplexer, and a parent that is gone is nobody's parent. *)
TableOK ==
  /\ program \in [All -> Programs \cup {Konsole, TmuxServer, ScreenServer, NoProgram}]
  /\ \A p \in Pids : program[p] \in Programs \cup {NoProgram}
  /\ born \in [All -> 0..MaxUptime] /\ parent \in [All -> All \cup {0}]
  /\ \A p \in All : parent[p] = 0 \/ parent[p] = Terminal \/ Alive(parent[p])
  /\ parent[Terminal] = 0
  /\ marked \in [All -> BOOLEAN] /\ front \in Pids /\ uptime \in 1..MaxUptime

Images == Programs \cup {NoProgram}
Comms == {image.comm : image \in Images}
Argvs == {image.argv : image \in Images}
Exes == {image.exe : image \in Images}
Infos ==
  [pid : Pids \cup {0}, born : 0..MaxUptime, exe : Exes, comm : Comms,
   argv : Argvs, marked : BOOLEAN, children : SUBSET Comms, blocked : BOOLEAN]
Readings ==
  [at : Stages, info : Infos, above : All \cup {0}, depth : 0..MaxDepth, for : {"none", "list", "send"}]
ReadingOK ==
  /\ reading \in Readings
  /\ reading.at # "idle" => Reader \in Pids
  /\ reading.at \notin {"ancestors", "children", "verdict"} => reading.depth = 0

WatcherOK == looks \in 0..MaxLooks /\ ticked \in BOOLEAN /\ nested \in BOOLEAN

(* What was noted of the process: every living image of one inspection is   *)
(* of the same process, and each name it read is the name of one of them.   *)
HeldOK ==
  reading.at # "idle" =>
    /\ held \subseteq [program : Images, born : 0..MaxUptime]
    /\ Image(Reader) \in held
    /\ Alive(Reader) => \A image \in held : Living(image) => image.born = born[Reader]
    /\ reading.at # "stat" => \A image \in held : Living(image) => image.born = reading.info.born
    /\ reading.at \in Started \ {"exe"} => \E image \in held : Living(image) /\ image.program.exe = reading.info.exe
    /\ reading.at \in CommRead => \E image \in held : Living(image) /\ image.program.comm = reading.info.comm
    /\ reading.at \in CommRead \ {"cmdline"} => \E image \in held : Living(image) /\ image.program.argv = reading.info.argv

(* The walk up is on every way from the process to the terminal that is     *)
(* within its reach, and not past it; it stops at a multiplexer it knows.   *)
Walking == {"comm", "cmdline", "environ", "ancestors"}
KnownAtTop == program[Terminal].comm \in NestedTerminals
ToTop(n, way) == way \in [0..n -> All] /\ WayUp(Reader, n, way) /\ way[n] = Terminal
OnEachWay ==
  \A n \in 0..MaxDepth : \A way \in [0..n -> All] :
    ToTop(n, way) => reading.depth + 1 \in 1..n /\ way[reading.depth + 1] = reading.above
WalkOK ==
  (reading.at # "idle" /\ nested) =>
    /\ UnderMultiplexer(Reader)
    /\ reading.at \in Walking => OnEachWay
    /\ reading.at \in {"children", "verdict"} /\ KnownAtTop => reading.info.blocked

-----------------------------------------------------------------------------
(* What tells the programs apart.                                           *)
LEMMA ProgramTypes ==
  /\ \A image \in Programs : image # NoProgram /\ image.comm \notin NestedTerminals
  /\ NoProgram \notin Programs /\ NoProgram.comm \notin NestedTerminals
  /\ ScreenServer.comm \in NestedTerminals
  /\ Shell \in Programs /\ Claude \in Programs /\ ClaudeLauncher \in Programs
  /\ Codex \in Programs /\ CodexShim \in Programs
  <1> USE DEF Programs, Program, Claude, ClaudeLauncher, Codex, CodexShim, Shell, Viewer, ScreenServer, NoProgram
  <1>1. \A image \in Programs : image.argv # <<>>
    <2>1. <<"claude">> # <<>> /\ <<"node", "claude">> # <<>> /\ <<"codex">> # <<>> /\ <<"node", "codex">> # <<>>
          /\ <<"zsh">> # <<>> /\ <<"less", "claude">> # <<>>
      OBVIOUS
    <2>2. QED
      BY <2>1
  <1>2. \A image \in Programs : image.comm \notin NestedTerminals
    BY DEF NestedTerminals
  <1>3. NoProgram.argv = <<>> /\ NoProgram.comm = "" /\ ScreenServer.comm = "screen"
    OBVIOUS
  <1>4. Shell \in Programs /\ Claude \in Programs /\ ClaudeLauncher \in Programs
        /\ Codex \in Programs /\ CodexShim \in Programs
    OBVIOUS
  <1> HIDE DEF Programs, Program, NoProgram, Shell, Claude, ClaudeLauncher, Codex, CodexShim, ScreenServer
  <1>5. "" \notin NestedTerminals /\ "screen" \in NestedTerminals
    BY ZenonT(20) DEF NestedTerminals
  <1>6. NoProgram.comm \notin NestedTerminals /\ ScreenServer.comm \in NestedTerminals
    BY <1>3, <1>5, Zenon
  <1>7. QED
    BY <1>1, <1>2, <1>3, <1>4, <1>6

LEMMA NamesOfClaude ==
  ASSUME NEW image \in Programs
  PROVE  /\ image.comm = "claude" => image = Claude
         /\ image.exe = "claude" => image = Claude
         /\ Len(image.argv) >= 1 /\ image.argv[1] = "claude" => image = Claude
  BY DEF Programs, Program, Claude, ClaudeLauncher, Codex, CodexShim, Shell, Viewer

LEMMA NamesOfCodex ==
  ASSUME NEW image \in Programs
  PROVE  /\ image.comm = "codex" => image = Codex
         /\ image.exe = "codex" => image = Codex
         /\ Len(image.argv) >= 1 /\ image.argv[1] = "codex" => image = Codex
         /\ Len(image.argv) >= 2 /\ image.argv[1] = "node" /\ image.argv[2] = "codex" => image = CodexShim
  BY DEF Programs, Program, Claude, ClaudeLauncher, Codex, CodexShim, Shell, Viewer

(* FirstPid is one of the process numbers.                                  *)
LEMMA FirstPidExists == FirstPid \in Pids /\ FirstPid # Terminal /\ FirstPid # 0
  BY ForegroundAssumption DEF FirstPid

-----------------------------------------------------------------------------
LEMMA Bounds ==
  /\ MaxUptime \in Nat /\ MaxUptime >= 1 /\ MinSignals \in Nat /\ MinSignals >= 2
  /\ MaxDepth \in Nat /\ MaxLooks \in Nat
  BY ForegroundAssumption

LEMMA TableInit == ForegroundInit => TableOK
  <1> SUFFICES ASSUME ForegroundInit PROVE TableOK
    OBVIOUS
  <1> USE FirstPidExists
  <1>1. program \in [All -> Programs \cup {Konsole, TmuxServer, ScreenServer, NoProgram}]
    BY ProgramTypes DEF ForegroundInit, Multiplexers
  <1>2. \A p \in Pids : program[p] \in Programs \cup {NoProgram}
    BY ProgramTypes, ForegroundAssumption DEF ForegroundInit, All
  <1>3. born \in [All -> 0..MaxUptime]
    <2>1. 1 \in 0..MaxUptime /\ 0 \in 0..MaxUptime
      BY Bounds
    <2>2. QED
      BY <2>1 DEF ForegroundInit
  <1>8. parent \in [All -> All \cup {0}]
    BY DEF ForegroundInit, All
  <1>4. \A p \in All : parent[p] = 0 \/ parent[p] = Terminal
    BY DEF ForegroundInit
  <1>5. parent[Terminal] = 0
    BY ForegroundAssumption DEF ForegroundInit, All
  <1>6. front \in Pids /\ uptime \in 1..MaxUptime
    BY Bounds DEF ForegroundInit
  <1>9. marked \in [All -> BOOLEAN]
    BY DEF ForegroundInit
  <1>7. QED
    BY <1>1, <1>2, <1>3, <1>4, <1>5, <1>6, <1>8, <1>9 DEF TableOK

LEMMA RunsSpawns ==
  ASSUME Runs
  PROVE  \E p \in Pids, new \in Programs, inFront \in BOOLEAN : Spawns(p, new, inFront)
  <1>1. PICK p \in Pids : (\E new \in Programs : Spawns(p, new, TRUE)) \/ Spawns(p, Codex, FALSE)
    BY DEF Runs
  <1>2. Codex \in Programs /\ TRUE \in BOOLEAN /\ FALSE \in BOOLEAN
    BY ProgramTypes
  <1>3. QED
    BY <1>1, <1>2, Zenon

(* The next state of the process table.                                     *)
LEMMA TableStep ==
  ASSUME TableOK, [ForegroundNext]_foregroundVars
  PROVE  TableOK'
  <1> USE DEF TableOK
  <1>1. ASSUME UNCHANGED processes PROVE TableOK'
    BY <1>1 DEF processes, Alive
  <1>2. ASSUME Runs PROVE TableOK'
    <2>1. PICK p \in Pids, new \in Programs, inFront \in BOOLEAN : Spawns(p, new, inFront) /\ uptime < MaxUptime /\ uptime' = uptime + 1
      BY <1>2, RunsSpawns DEF Runs, Passes
    <2>2. p # Terminal /\ front # p /\ Alive(front) /\ ~Alive(p) /\ front \in All /\ p \in All /\ front # 0 /\ p # 0
      BY <2>1, ForegroundAssumption DEF Spawns, All
    <2>3. program' = [program EXCEPT ![p] = new] /\ parent' = [parent EXCEPT ![p] = front]
          /\ born' = [born EXCEPT ![p] = uptime + 1] /\ front' \in Pids
      BY <2>1 DEF Spawns
    <2>4. PICK keeps \in BOOLEAN : marked' = [marked EXCEPT ![p] = marked[front] /\ keeps]
      BY <2>1 DEF Spawns
    <2>5. program' \in [All -> Programs \cup {Konsole, TmuxServer, ScreenServer, NoProgram}] /\ \A q \in Pids : program'[q] \in Programs \cup {NoProgram}
      BY <2>2, <2>3 DEF All
    <2>6. \A q \in All : Alive(q) => Alive(q)'
      BY <2>2, <2>3, ProgramTypes DEF Alive
    <2>7. \A q \in All : (parent[q] = 0 \/ parent[q] = Terminal \/ Alive(parent[q]))'
      <3> SUFFICES ASSUME NEW q \in All PROVE (parent[q] = 0 \/ parent[q] = Terminal \/ Alive(parent[q]))'
        OBVIOUS
      <3>1. CASE q = p
        BY <3>1, <2>2, <2>3, <2>6
      <3>2. CASE q # p
        BY <3>2, <2>2, <2>3, <2>6
      <3>3. QED
        BY <3>1, <3>2
    <2>8. parent' \in [All -> All \cup {0}] /\ parent'[Terminal] = 0
      BY <2>2, <2>3 DEF All
    <2>9. born' \in [All -> 0..MaxUptime] /\ uptime' \in 1..MaxUptime
      BY <2>1, <2>2, <2>3, ForegroundAssumption
    <2>10. marked' \in [All -> BOOLEAN]
      BY <2>2, <2>4
    <2>11. QED
      BY <2>3, <2>5, <2>7, <2>8, <2>9, <2>10 DEF Alive
  <1>3. ASSUME Execs PROVE TableOK'
    <2>1. PICK new \in Programs : program' = [program EXCEPT ![front] = new]
      BY <1>3 DEF Execs
    <2>2. UNCHANGED <<born, parent, marked, front>> /\ uptime' \in 1..MaxUptime
      BY <1>3, ForegroundAssumption DEF Execs, Passes
    <2>3. front \in All /\ front # Terminal
      BY ForegroundAssumption DEF All
    <2>4. \A q \in All : Alive(q) => Alive(q)'
      BY <2>1, <2>3, ProgramTypes DEF Alive
    <2>5. program' \in [All -> Programs \cup {Konsole, TmuxServer, ScreenServer, NoProgram}] /\ \A q \in Pids : program'[q] \in Programs \cup {NoProgram}
      BY <2>1, <2>3 DEF All
    <2>6. QED
      BY <2>2, <2>4, <2>5 DEF Alive
  <1>4. ASSUME NEW p \in Pids, Exits(p) PROVE TableOK'
    <2>1. /\ program' = [program EXCEPT ![p] = NoProgram] /\ born' = [born EXCEPT ![p] = 0]
          /\ marked' = [marked EXCEPT ![p] = FALSE]
          /\ parent' = [q \in DOMAIN parent |-> IF parent[q] = p THEN 0 ELSE parent[q]]
          /\ front' \in Pids /\ uptime' \in 1..MaxUptime
      BY <1>4, ForegroundAssumption DEF Exits, Passes
    <2>2. p \in All /\ p # Terminal
      BY ForegroundAssumption DEF All
    <2>3. program' \in [All -> Programs \cup {Konsole, TmuxServer, ScreenServer, NoProgram}] /\ \A q \in Pids : program'[q] \in Programs \cup {NoProgram}
      BY <2>1, <2>2 DEF All
    <2>6. \A q \in All : q # p /\ Alive(q) => Alive(q)'
      BY <2>1, <2>2 DEF Alive
    <2>7. \A q \in All : parent'[q] = IF parent[q] = p THEN 0 ELSE parent[q]
      BY <2>1
    <2>4. \A q \in All : (parent[q] = 0 \/ parent[q] = Terminal \/ Alive(parent[q]))'
      BY <2>2, <2>6, <2>7
    <2>5. QED
      BY <2>1, <2>2, <2>3, <2>4, ForegroundAssumption DEF Alive, All
  <1>5. ASSUME Switches PROVE TableOK'
    BY <1>5, ForegroundAssumption DEF Switches, Passes, Alive
  <1>6. CASE UNCHANGED foregroundVars
    BY <1>6, <1>1 DEF foregroundVars
  <1>7. ASSUME \/ Begins \/ Inspects \/ Lists \/ Toggles \/ Starts \/ Decides
        PROVE  UNCHANGED processes
    BY <1>7 DEF Begins, LookFor, Inspects, ReadStat, ReadExe, ReadStatus, ReadComm, ReadCmdline, ReadEnviron, Reads,
       WalkUp, ReadChildren, Lists, Toggles, Starts, Decides
  <1>8. QED
    BY <1>1, <1>2, <1>3, <1>4, <1>5, <1>6, <1>7 DEF ForegroundNext

-----------------------------------------------------------------------------
LEMMA BlankOK == Blank \in Infos /\ Blank.pid = 0
  <1>1. NoProgram \in Images /\ NoProgram.exe = "" /\ NoProgram.comm = "" /\ NoProgram.argv = <<>>
    BY ZenonT(30) DEF NoProgram, Program, Images
  <1>2. "" \in Exes /\ "" \in Comms /\ <<>> \in Argvs
    BY <1>1, ZenonT(30) DEF Exes, Comms, Argvs
  <1>3. ASSUME NEW e \in Exes, NEW c \in Comms, NEW v \in Argvs
        PROVE  /\ [pid |-> 0, born |-> 0, exe |-> e, comm |-> c, argv |-> v,
                   marked |-> FALSE, children |-> {}, blocked |-> FALSE] \in Infos
               /\ [pid |-> 0, born |-> 0, exe |-> e, comm |-> c, argv |-> v,
                   marked |-> FALSE, children |-> {}, blocked |-> FALSE].pid = 0
    BY Bounds DEF Infos
  <1>4. QED
    BY <1>2, <1>3, Zenon DEF Blank

LEMMA ReadingInit == ForegroundInit => ReadingOK /\ WatcherOK
  <1> SUFFICES ASSUME ForegroundInit PROVE ReadingOK /\ WatcherOK
    OBVIOUS
  <1>2. reading = Idle /\ Idle.at = "idle" /\ Idle.depth = 0
    BY DEF ForegroundInit, Idle
  <1>3. Idle \in Readings
    BY BlankOK, Bounds DEF Idle, Stages, Readings
  <1>4. ReadingOK
    BY <1>2, <1>3 DEF ReadingOK
  <1>5. looks = 0 /\ ticked = FALSE /\ nested = FALSE
    BY DEF ForegroundInit
  <1>6. 0 \in 0..MaxLooks
    BY Bounds
  <1>7. QED
    BY <1>4, <1>5, <1>6 DEF WatcherOK

(* Whatever a program shows is one of the names known.                      *)
LEMMA TypesShown ==
  ASSUME TableOK, NEW p \in Pids
  PROVE  program[p] \in Images /\ program[p].comm \in Comms /\ program[p].argv \in Argvs /\ program[p].exe \in Exes
  BY DEF TableOK, Images, Comms, Argvs, Exes

(* The effect of each read of a process that is still there.                *)
LEMMA GoesOn ==
  ASSUME ReadingOK, reading.at \notin {"idle", "ancestors", "children", "verdict"}, NEW next \in Stages \ {"idle"},
         NEW info \in Infos, info.pid = Reader, reading' = [reading EXCEPT !.at = next, !.info = info]
  PROVE  ReadingOK' /\ reading'.at = next /\ reading'.info = info /\ reading'.depth = 0 /\ reading'.above = reading.above
  <1>1. reading \in Readings /\ Reader \in Pids /\ reading.depth = 0
    BY DEF ReadingOK
  <1>2. reading'.at = next /\ reading'.info = info /\ reading'.depth = 0 /\ reading'.above = reading.above
    BY <1>1 DEF Readings
  <1>3. reading' \in Readings
    BY <1>1 DEF Readings
  <1>4. QED
    BY <1>1, <1>2, <1>3 DEF ReadingOK, Reader

LEMMA ReadStatEffect ==
  ASSUME TableOK, ReadingOK, ReadStat, Alive(Reader)
  PROVE  /\ ReadingOK' /\ reading.at = "stat" /\ reading'.at = "exe" /\ Reader \in Pids /\ Reader' = Reader
         /\ reading'.info.born = born[Reader] /\ reading'.depth = 0 /\ reading'.above = reading.above
         /\ reading'.info.exe = reading.info.exe /\ reading'.info.comm = reading.info.comm /\ reading'.info.argv = reading.info.argv
         /\ reading'.info.marked = reading.info.marked /\ reading'.info.children = reading.info.children /\ reading'.info.blocked = reading.info.blocked
  <1>1. reading.info \in Infos /\ reading.at = "stat" /\ Reader \in Pids
    BY DEF ReadingOK, ReadStat, Reads, Readings
  <1>2. born[Reader] \in 0..MaxUptime
    BY <1>1 DEF TableOK, All
  <1> DEFINE info == [reading.info EXCEPT !.born = born[Reader]]
  <1>3. /\ info \in Infos /\ info.pid = Reader /\ info.born = born[Reader]
        /\ info.exe = reading.info.exe /\ info.comm = reading.info.comm /\ info.argv = reading.info.argv /\ info.marked = reading.info.marked /\ info.children = reading.info.children /\ info.blocked = reading.info.blocked
    BY <1>1, <1>2 DEF Infos, Reader
  <1> HIDE DEF info
  <1>4. reading' = [reading EXCEPT !.at = "exe", !.info = info]
    BY DEF ReadStat, Reads, Reader, info
  <1>5. "exe" \in Stages
    BY DEF Stages, Started
  <1>6. reading.at \notin {"idle", "ancestors", "children", "verdict"} /\ "exe" \in Stages \ {"idle"}
    BY <1>1, <1>5
  <1>7. ReadingOK' /\ reading'.at = "exe" /\ reading'.info = info /\ reading'.depth = 0 /\ reading'.above = reading.above
    BY <1>3, <1>4, <1>6, GoesOn, ZenonT(30)
  <1>8. QED
    BY <1>1, <1>3, <1>7 DEF Reader

LEMMA ReadExeEffect ==
  ASSUME TableOK, ReadingOK, ReadExe, Alive(Reader)
  PROVE  /\ ReadingOK' /\ reading.at = "exe" /\ reading'.at = "status" /\ Reader \in Pids /\ Reader' = Reader
         /\ reading'.info.exe = program[Reader].exe /\ reading'.depth = 0 /\ reading'.above = reading.above
         /\ reading'.info.born = reading.info.born /\ reading'.info.comm = reading.info.comm /\ reading'.info.argv = reading.info.argv
         /\ reading'.info.marked = reading.info.marked /\ reading'.info.children = reading.info.children /\ reading'.info.blocked = reading.info.blocked
  <1>1. reading.info \in Infos /\ reading.at = "exe" /\ Reader \in Pids
    BY DEF ReadingOK, ReadExe, Reads, Readings
  <1>2. program[Reader].exe \in Exes
    BY <1>1, TypesShown DEF TableOK, All
  <1> DEFINE info == [reading.info EXCEPT !.exe = program[Reader].exe]
  <1>3. /\ info \in Infos /\ info.pid = Reader /\ info.exe = program[Reader].exe
        /\ info.born = reading.info.born /\ info.comm = reading.info.comm /\ info.argv = reading.info.argv /\ info.marked = reading.info.marked /\ info.children = reading.info.children /\ info.blocked = reading.info.blocked
    BY <1>1, <1>2 DEF Infos, Reader
  <1> HIDE DEF info
  <1>4. reading' = [reading EXCEPT !.at = "status", !.info = info]
    BY DEF ReadExe, Reads, Reader, info
  <1>5. "status" \in Stages
    BY DEF Stages, Started
  <1>6. reading.at \notin {"idle", "ancestors", "children", "verdict"} /\ "status" \in Stages \ {"idle"}
    BY <1>1, <1>5
  <1>7. ReadingOK' /\ reading'.at = "status" /\ reading'.info = info /\ reading'.depth = 0 /\ reading'.above = reading.above
    BY <1>3, <1>4, <1>6, GoesOn, ZenonT(30)
  <1>8. QED
    BY <1>1, <1>3, <1>7 DEF Reader

LEMMA ReadCommEffect ==
  ASSUME TableOK, ReadingOK, ReadComm, Alive(Reader)
  PROVE  /\ ReadingOK' /\ reading.at = "comm" /\ reading'.at = "cmdline" /\ Reader \in Pids /\ Reader' = Reader
         /\ reading'.info.comm = program[Reader].comm /\ reading'.depth = 0 /\ reading'.above = reading.above
         /\ reading'.info.born = reading.info.born /\ reading'.info.exe = reading.info.exe /\ reading'.info.argv = reading.info.argv
         /\ reading'.info.marked = reading.info.marked /\ reading'.info.children = reading.info.children /\ reading'.info.blocked = reading.info.blocked
  <1>1. reading.info \in Infos /\ reading.at = "comm" /\ Reader \in Pids
    BY DEF ReadingOK, ReadComm, Reads, Readings
  <1>2. program[Reader].comm \in Comms
    BY <1>1, TypesShown DEF TableOK, All
  <1> DEFINE info == [reading.info EXCEPT !.comm = program[Reader].comm]
  <1>3. /\ info \in Infos /\ info.pid = Reader /\ info.comm = program[Reader].comm
        /\ info.born = reading.info.born /\ info.exe = reading.info.exe /\ info.argv = reading.info.argv /\ info.marked = reading.info.marked /\ info.children = reading.info.children /\ info.blocked = reading.info.blocked
    BY <1>1, <1>2 DEF Infos, Reader
  <1> HIDE DEF info
  <1>4. reading' = [reading EXCEPT !.at = "cmdline", !.info = info]
    BY DEF ReadComm, Reads, Reader, info
  <1>5. "cmdline" \in Stages
    BY DEF Stages, Started
  <1>6. reading.at \notin {"idle", "ancestors", "children", "verdict"} /\ "cmdline" \in Stages \ {"idle"}
    BY <1>1, <1>5
  <1>7. ReadingOK' /\ reading'.at = "cmdline" /\ reading'.info = info /\ reading'.depth = 0 /\ reading'.above = reading.above
    BY <1>3, <1>4, <1>6, GoesOn, ZenonT(30)
  <1>8. QED
    BY <1>1, <1>3, <1>7 DEF Reader

LEMMA ReadCmdlineEffect ==
  ASSUME TableOK, ReadingOK, ReadCmdline, Alive(Reader)
  PROVE  /\ ReadingOK' /\ reading.at = "cmdline" /\ reading'.at = "environ" /\ Reader \in Pids /\ Reader' = Reader
         /\ reading'.info.argv = program[Reader].argv /\ reading'.depth = 0 /\ reading'.above = reading.above
         /\ reading'.info.born = reading.info.born /\ reading'.info.exe = reading.info.exe /\ reading'.info.comm = reading.info.comm
         /\ reading'.info.marked = reading.info.marked /\ reading'.info.children = reading.info.children /\ reading'.info.blocked = reading.info.blocked
  <1>1. reading.info \in Infos /\ reading.at = "cmdline" /\ Reader \in Pids
    BY DEF ReadingOK, ReadCmdline, Reads, Readings
  <1>2. program[Reader].argv \in Argvs
    BY <1>1, TypesShown DEF TableOK, All
  <1> DEFINE info == [reading.info EXCEPT !.argv = program[Reader].argv]
  <1>3. /\ info \in Infos /\ info.pid = Reader /\ info.argv = program[Reader].argv
        /\ info.born = reading.info.born /\ info.exe = reading.info.exe /\ info.comm = reading.info.comm /\ info.marked = reading.info.marked /\ info.children = reading.info.children /\ info.blocked = reading.info.blocked
    BY <1>1, <1>2 DEF Infos, Reader
  <1> HIDE DEF info
  <1>4. reading' = [reading EXCEPT !.at = "environ", !.info = info]
    BY DEF ReadCmdline, Reads, Reader, info
  <1>5. "environ" \in Stages
    BY DEF Stages, Started
  <1>6. reading.at \notin {"idle", "ancestors", "children", "verdict"} /\ "environ" \in Stages \ {"idle"}
    BY <1>1, <1>5
  <1>7. ReadingOK' /\ reading'.at = "environ" /\ reading'.info = info /\ reading'.depth = 0 /\ reading'.above = reading.above
    BY <1>3, <1>4, <1>6, GoesOn, ZenonT(30)
  <1>8. QED
    BY <1>1, <1>3, <1>7 DEF Reader

LEMMA ReadEnvironEffect ==
  ASSUME TableOK, ReadingOK, ReadEnviron, Alive(Reader)
  PROVE  /\ ReadingOK' /\ reading.at = "environ" /\ reading'.at = "ancestors" /\ Reader \in Pids /\ Reader' = Reader
         /\ reading'.info.marked = marked[Reader] /\ reading'.depth = 0 /\ reading'.above = reading.above
         /\ reading'.info.born = reading.info.born /\ reading'.info.exe = reading.info.exe /\ reading'.info.comm = reading.info.comm
         /\ reading'.info.argv = reading.info.argv /\ reading'.info.children = reading.info.children /\ reading'.info.blocked = reading.info.blocked
  <1>1. reading.info \in Infos /\ reading.at = "environ" /\ Reader \in Pids
    BY DEF ReadingOK, ReadEnviron, Reads, Readings
  <1>2. marked[Reader] \in BOOLEAN
    BY <1>1 DEF TableOK, All
  <1> DEFINE info == [reading.info EXCEPT !.marked = marked[Reader]]
  <1>3. /\ info \in Infos /\ info.pid = Reader /\ info.marked = marked[Reader]
        /\ info.born = reading.info.born /\ info.exe = reading.info.exe /\ info.comm = reading.info.comm /\ info.argv = reading.info.argv /\ info.children = reading.info.children /\ info.blocked = reading.info.blocked
    BY <1>1, <1>2 DEF Infos, Reader
  <1> HIDE DEF info
  <1>4. reading' = [reading EXCEPT !.at = "ancestors", !.info = info]
    BY DEF ReadEnviron, Reads, Reader, info
  <1>5. "ancestors" \in Stages
    BY DEF Stages, Started
  <1>6. reading.at \notin {"idle", "ancestors", "children", "verdict"} /\ "ancestors" \in Stages \ {"idle"}
    BY <1>1, <1>5
  <1>7. ReadingOK' /\ reading'.at = "ancestors" /\ reading'.info = info /\ reading'.depth = 0 /\ reading'.above = reading.above
    BY <1>3, <1>4, <1>6, GoesOn, ZenonT(30)
  <1>8. QED
    BY <1>1, <1>3, <1>7 DEF Reader

LEMMA ReadStatusEffect ==
  ASSUME TableOK, ReadingOK, ReadStatus, Alive(Reader)
  PROVE  /\ ReadingOK' /\ reading.at = "status" /\ reading'.at = "comm" /\ Reader \in Pids
         /\ reading'.info = reading.info /\ reading'.depth = 0 /\ reading'.above = parent[Reader]
  <1>1. reading \in Readings /\ reading.at = "status" /\ Reader \in Pids /\ reading.depth = 0
    BY DEF ReadingOK, ReadStatus
  <1>2. parent[Reader] \in All \cup {0}
    BY <1>1 DEF TableOK, All
  <1>3. reading' = [reading EXCEPT !.at = "comm", !.above = parent[Reader]]
    BY DEF ReadStatus, Reader
  <1>4. "comm" \in Stages
    BY DEF Stages, Started
  <1>5. reading' \in Readings /\ reading'.at = "comm" /\ reading'.info = reading.info /\ reading'.depth = 0
        /\ reading'.above = parent[Reader]
    BY <1>1, <1>2, <1>3, <1>4 DEF Readings
  <1>6. QED
    BY <1>1, <1>5 DEF ReadingOK, Reader

LEMMA WalkUpEffect ==
  ASSUME TableOK, ReadingOK, WalkUp
  PROVE  /\ ReadingOK' /\ reading.at = "ancestors" /\ Reader \in Pids /\ Reader' = Reader
         /\ \/ /\ reading'.at = "ancestors" /\ reading'.info = reading.info /\ reading.above \in Pids
               /\ reading'.depth = reading.depth + 1 /\ reading'.above = parent[reading.above]
            \/ /\ reading'.at = "children"
               /\ reading'.info = [reading.info EXCEPT !.blocked = reading'.info.blocked]
               /\ (reading.above = Terminal /\ KnownAtTop) => reading'.info.blocked
               /\ ~ /\ reading.above \in Pids /\ Alive(reading.above)
                    /\ program[reading.above].comm \notin NestedTerminals
                    /\ reading.depth + 1 < MaxDepth
  <1>1. reading \in Readings /\ reading.info \in Infos /\ reading.at = "ancestors" /\ Reader \in Pids
        /\ reading.depth \in 0..MaxDepth
    BY DEF ReadingOK, WalkUp, Readings
  <1> DEFINE gone == reading.above # 0 /\ ~Alive(reading.above)
             multiplexer == reading.above # 0 /\ program[reading.above].comm \in NestedTerminals
             goesOn == reading.above \in Pids /\ ~gone /\ ~multiplexer /\ reading.depth + 1 < MaxDepth
  <1>2. CASE goesOn
    <2>1. reading' = [reading EXCEPT !.above = parent[reading.above], !.depth = reading.depth + 1]
      BY <1>2 DEF WalkUp, NextAncestor
    <2>2. parent[reading.above] \in All \cup {0} /\ reading.depth + 1 \in 0..MaxDepth
      BY <1>1, <1>2, Bounds DEF TableOK, All
    <2>3. /\ reading' \in Readings /\ reading'.at = "ancestors" /\ reading'.info = reading.info
          /\ reading'.depth = reading.depth + 1 /\ reading'.above = parent[reading.above]
      BY <1>1, <2>1, <2>2 DEF Readings
    <2>4. QED
      BY <1>1, <1>2, <2>3 DEF ReadingOK, Reader
  <1>3. CASE ~goesOn
    <2>1. PICK blocks \in BOOLEAN :
            /\ gone \/ blocks = multiplexer
            /\ reading' = [reading EXCEPT !.at = "children", !.info.blocked = blocks]
      BY <1>3 DEF WalkUp, NextAncestor
    <2> DEFINE info == [reading.info EXCEPT !.blocked = blocks]
    <2>2. reading' = [reading EXCEPT !.at = "children", !.info = info]
      BY <2>1
    <2>3. info \in Infos /\ info.pid = Reader /\ info.blocked = blocks
      BY <1>1 DEF Infos, Reader
    <2> HIDE DEF info
    <2>4. "children" \in Stages
      BY DEF Stages, Started
    <2>5. reading' \in Readings /\ reading'.at = "children" /\ reading'.info = info
      BY <1>1, <2>2, <2>3, <2>4 DEF Readings
    <2>6. ReadingOK' /\ Reader' = Reader
      BY <1>1, <2>3, <2>5 DEF ReadingOK, Reader
    <2>7. reading'.info.blocked = blocks /\ reading'.info = [reading.info EXCEPT !.blocked = reading'.info.blocked]
      BY <2>3, <2>5 DEF info
    <2>8. ASSUME reading.above = Terminal, KnownAtTop PROVE reading'.info.blocked
      <3>1. Terminal # 0 /\ Alive(Terminal)
        BY <2>8, ProgramTypes, ForegroundAssumption DEF KnownAtTop, Alive
      <3>2. multiplexer /\ ~gone
        BY <2>8, <3>1 DEF KnownAtTop
      <3> HIDE DEF multiplexer, gone
      <3>3. blocks
        BY <2>1, <3>2, Zenon
      <3>4. QED
        BY <2>7, <3>3, Zenon
    <2>9. reading.above \in Pids => reading.above # 0
      BY ForegroundAssumption
    <2>10. QED
      BY <1>1, <1>3, <2>5, <2>6, <2>7, <2>8, <2>9
  <1>4. QED
    BY <1>2, <1>3

LEMMA ReadChildrenEffect ==
  ASSUME TableOK, ReadingOK, ReadChildren
  PROVE  /\ ReadingOK' /\ reading.at = "children" /\ reading'.at = "verdict" /\ Reader \in Pids
         /\ reading'.info = [reading.info EXCEPT !.children = reading'.info.children]
  <1>1. reading \in Readings /\ reading.info \in Infos /\ reading.at = "children" /\ Reader \in Pids
    BY DEF ReadingOK, ReadChildren, Readings
  <1> DEFINE comms == {program[q].comm : q \in Children(Reader)}
             info == [reading.info EXCEPT !.children = comms]
  <1>2. comms \in SUBSET Comms
    BY TypesShown DEF Children
  <1> HIDE DEF comms
  <1>3. info \in Infos /\ info.pid = Reader /\ info.children = comms
    BY <1>1, <1>2 DEF Infos, Reader
  <1>4. reading' = [reading EXCEPT !.at = "verdict", !.info = info]
    BY DEF ReadChildren, Reader, comms
  <1> HIDE DEF info
  <1>5. "verdict" \in Stages
    BY DEF Stages, Started
  <1>6. reading' \in Readings /\ reading'.at = "verdict" /\ reading'.info = info
    BY <1>1, <1>3, <1>4, <1>5 DEF Readings
  <1>7. reading'.info = [reading.info EXCEPT !.children = reading'.info.children]
    BY <1>3, <1>6 DEF info
  <1>8. QED
    BY <1>1, <1>3, <1>6, <1>7 DEF ReadingOK, Reader

LEMMA LookForEffect ==
  ASSUME TableOK, NEW purpose \in {"list", "send"}, LookFor(purpose)
  PROVE  /\ ReadingOK' /\ reading'.at = "stat" /\ Reader' = front /\ front \in Pids
         /\ held' = {Image(front)} /\ nested' = UnderMultiplexer(front)
  <1> DEFINE info == [Blank EXCEPT !.pid = front]
  <1>1. front \in Pids
    BY DEF TableOK
  <1>2. info \in Infos /\ info.pid = front
    BY <1>1, BlankOK DEF Infos
  <1> HIDE DEF info
  <1>3. "stat" \in Stages /\ 0 \in 0..MaxDepth
    BY Bounds DEF Stages
  <1>4. reading' = [at |-> "stat", info |-> info, above |-> 0, depth |-> 0, for |-> purpose]
    BY DEF LookFor, Idle, info
  <1>5. reading' \in Readings /\ reading'.at = "stat" /\ reading'.info = info /\ reading'.depth = 0
    BY <1>2, <1>3, <1>4 DEF Readings
  <1>6. ReadingOK' /\ Reader' = front
    BY <1>1, <1>2, <1>5 DEF ReadingOK, Reader
  <1>7. QED
    BY <1>1, <1>5, <1>6 DEF LookFor

LEMMA IdleEffect ==
  ASSUME reading' = Idle
  PROVE  ReadingOK' /\ reading'.at = "idle"
  <1>1. "idle" \in Stages /\ 0 \in 0..MaxDepth
    BY Bounds DEF Stages
  <1>2. Idle \in Readings /\ Idle.at = "idle" /\ Idle.depth = 0
    BY <1>1, BlankOK DEF Idle, Readings
  <1>3. QED
    BY <1>2 DEF ReadingOK

-----------------------------------------------------------------------------
(* What was noted of the process stays of one process.                      *)
LEMMA HeldAfterRead ==
  ASSUME HeldOK, reading.at # "idle", Reader' = Reader, UNCHANGED <<program, born, held>>,
         reading'.at \in Started,
         \A image \in held : Living(image) => image.born = reading'.info.born,
         reading'.at # "exe" => \E image \in held : Living(image) /\ image.program.exe = reading'.info.exe,
         reading'.at \in CommRead => \E image \in held : Living(image) /\ image.program.comm = reading'.info.comm,
         reading'.at \in CommRead \ {"cmdline"} => \E image \in held : Living(image) /\ image.program.argv = reading'.info.argv
  PROVE  HeldOK'
  BY DEF HeldOK, Living, Image, Alive, Started

LEMMA HeldNoted ==
  ASSUME TableOK, TableOK', ReadingOK, HeldOK, Noted, UNCHANGED reading,
         reading.at # "idle" /\ Alive(Reader)' => Alive(Reader) /\ born'[Reader] = born[Reader]
  PROVE  HeldOK'
  <1> SUFFICES ASSUME reading.at # "idle" PROVE HeldOK'
    BY DEF HeldOK
  <1> DEFINE new == [program |-> program'[Reader], born |-> born'[Reader]]
  <1>1. held' = held \cup {new} /\ Reader' = Reader /\ Reader \in Pids
    BY DEF Noted, Reader, ReadingOK
  <1>2. new \in [program : Images, born : 0..MaxUptime] /\ new = Image(Reader)' /\ Living(new) = Alive(Reader)'
        /\ new.born = born'[Reader]
    BY <1>1 DEF TableOK, All, Images, Image, Living, Alive
  <1>3. Image(Reader) \in held /\ Image(Reader).born = born[Reader] /\ Living(Image(Reader)) = Alive(Reader)
    BY DEF HeldOK, Image, Living, Alive
  <1> HIDE DEF new
  <1>4. ASSUME Living(new)
        PROVE  /\ \A image \in held : Living(image) => image.born = born'[Reader]
               /\ reading.at # "stat" => new.born = reading.info.born
    BY <1>2, <1>3, <1>4 DEF HeldOK
  <1>5. held' \subseteq [program : Images, born : 0..MaxUptime] /\ Image(Reader)' \in held'
    BY <1>1, <1>2 DEF HeldOK
  <1>6. Alive(Reader)' => \A image \in held' : Living(image) => image.born = born'[Reader]
    BY <1>1, <1>2, <1>4
  <1>7. reading.at # "stat" => \A image \in held' : Living(image) => image.born = reading.info.born
    BY <1>1, <1>4 DEF HeldOK
  <1>8. held \subseteq held'
    BY <1>1
  <1>9. QED
    BY <1>1, <1>5, <1>6, <1>7, <1>8 DEF HeldOK, Living
(* A process of the tab is not started while it is read, and an exec keeps   *)
(* the start time.                                                          *)
LEMMA NoRespawn ==
  ASSUME TableOK, ReadingOK, Runs \/ Execs \/ Switches \/ \E p \in Pids : Exits(p),
         reading.at # "idle", Alive(Reader)'
  PROVE  Alive(Reader) /\ born'[Reader] = born[Reader] /\ Reader' = Reader
  <1>1. Reader \in Pids /\ Reader' = Reader /\ Reader \in All
    BY DEF Runs, Execs, Switches, Exits, watcherVars, Reader, ReadingOK, All
  <1>2. CASE Runs
    <2>1. PICK p \in Pids, new \in Programs, inFront \in BOOLEAN : Spawns(p, new, inFront)
      BY <1>2, RunsSpawns
    <2>2. p # Reader
      BY <2>1 DEF Spawns, Reader
    <2>3. QED
      BY <1>1, <2>1, <2>2 DEF Spawns, Alive, TableOK
  <1>3. CASE Execs
    <2>1. PICK new \in Programs : program' = [program EXCEPT ![front] = new] /\ program[front] \in {ClaudeLauncher, Shell, Claude, Codex}
      BY <1>3 DEF Execs
    <2>2. Alive(front) /\ born' = born
      <3>1. program[front] \in Programs
        BY <2>1, ProgramTypes
      <3>2. QED
        BY <1>3, <3>1, ProgramTypes DEF Alive, Execs
    <2>3. QED
      BY <1>1, <2>1, <2>2 DEF Alive, TableOK
  <1>4. CASE Switches
    BY <1>1, <1>4 DEF Switches, Alive
  <1>5. ASSUME NEW p \in Pids, Exits(p)
        PROVE  Alive(Reader) /\ born'[Reader] = born[Reader]
    <2>1. program' = [program EXCEPT ![p] = NoProgram] /\ born' = [born EXCEPT ![p] = 0]
      BY <1>5 DEF Exits
    <2>2. Reader # p
      BY <1>1, <2>1 DEF Alive, TableOK, All
    <2>3. QED
      BY <1>1, <2>1, <2>2 DEF Alive, TableOK
  <1>6. QED
    BY <1>1, <1>2, <1>3, <1>4, <1>5

SameRead ==
  /\ Reader' = Reader /\ reading'.info.born = reading.info.born /\ reading'.info.exe = reading.info.exe
  /\ reading'.info.comm = reading.info.comm /\ reading'.info.argv = reading.info.argv
LEMMA HeldStep ==
  ASSUME TableOK, TableOK', ReadingOK, HeldOK, ForegroundNext
  PROVE  HeldOK'
  <1>1. ASSUME Runs \/ Execs \/ Switches \/ \E p \in Pids : Exits(p)
        PROVE  HeldOK'
    <2>1. Noted /\ UNCHANGED reading
      BY <1>1 DEF Runs, Execs, Switches, Exits, watcherVars
    <2>2. QED
      BY <1>1, <2>1, NoRespawn, HeldNoted
  <1>2. ASSUME reading' = Idle PROVE HeldOK'
    BY <1>2, IdleEffect DEF HeldOK
  <1>3. CASE Begins
    <2>1. PICK purpose \in {"list", "send"} : LookFor(purpose)
      BY <1>3 DEF Begins
    <2>2. reading'.at = "stat" /\ Reader' = front /\ front \in Pids /\ held' = {Image(front)} /\ UNCHANGED <<program, born>>
      BY <2>1, LookForEffect DEF LookFor, processes
    <2>3. Image(front) \in [program : Images, born : 0..MaxUptime] /\ Image(Reader)' = Image(front)
      BY <2>2 DEF Image, TableOK, Images, All
    <2>4. Image(front).born = born[front]
      BY DEF Image
    <2>5. QED
      BY <2>2, <2>3, <2>4 DEF HeldOK, Started, CommRead
  <1>4. CASE reading' # Idle /\ Inspects
    <2>0. UNCHANGED <<program, born, held>>
      BY <1>4 DEF Inspects, ReadStat, ReadExe, ReadStatus, ReadComm, ReadCmdline, ReadEnviron, WalkUp, ReadChildren, Reads, processes
    <2>1. ASSUME Alive(Reader), Reader \in Pids, reading.at # "idle"
          PROVE  Living(Image(Reader)) /\ Image(Reader) \in held /\ Image(Reader).program = program[Reader]
                 /\ Image(Reader).born = born[Reader]
      BY <2>1 DEF HeldOK, Living, Alive, Image
    <2> USE DEF Started, CommRead
    <2>2. CASE ReadStat
      <3>1. Alive(Reader)
        BY <1>4, <2>2 DEF ReadStat, Reads, GivesUp, Reader
      <3>2. QED
        BY <2>0, <2>2, <3>1, ReadStatEffect, HeldAfterRead DEF HeldOK
    <2>3. CASE ReadExe
      <3>1. Alive(Reader)
        BY <1>4, <2>3 DEF ReadExe, Reads, GivesUp, Reader
      <3>2. QED
        BY <2>0, <2>1, <2>3, <3>1, ReadExeEffect, HeldAfterRead DEF HeldOK
    <2>4. CASE ReadStatus
      <3>1. Alive(Reader)
        BY <1>4, <2>4 DEF ReadStatus, GivesUp, Reader
      <3>2. QED
        BY <2>0, <2>4, <3>1, ReadStatusEffect, HeldAfterRead DEF HeldOK, Reader
    <2>5. CASE ReadComm
      <3>1. Alive(Reader)
        BY <1>4, <2>5 DEF ReadComm, Reads, GivesUp, Reader
      <3>2. QED
        BY <2>0, <2>1, <2>5, <3>1, ReadCommEffect, HeldAfterRead DEF HeldOK
    <2>6. CASE ReadCmdline
      <3>1. Alive(Reader)
        BY <1>4, <2>6 DEF ReadCmdline, Reads, GivesUp, Reader
      <3>2. QED
        BY <2>0, <2>1, <2>6, <3>1, ReadCmdlineEffect, HeldAfterRead DEF HeldOK
    <2>7. CASE ReadEnviron
      <3>1. Alive(Reader)
        BY <1>4, <2>7 DEF ReadEnviron, Reads, GivesUp, Reader
      <3>2. QED
        BY <2>0, <2>7, <3>1, ReadEnvironEffect, HeldAfterRead DEF HeldOK
    <2>8. CASE WalkUp
      <3>1. /\ reading.at = "ancestors" /\ reading'.at \in {"ancestors", "children"} /\ SameRead
        BY <2>8, WalkUpEffect DEF SameRead, Reader, ReadingOK, Readings, Infos
      <3>2. QED
        BY <2>0, <3>1, HeldAfterRead DEF HeldOK, SameRead
    <2>9. CASE ReadChildren
      <3>1. /\ reading.at = "children" /\ reading'.at = "verdict" /\ SameRead
        BY <2>9, ReadChildrenEffect DEF SameRead, Reader, ReadingOK, Readings, Infos
      <3>2. QED
        BY <2>0, <3>1, HeldAfterRead DEF HeldOK, SameRead
    <2>10. QED
      BY <1>4, <2>2, <2>3, <2>4, <2>5, <2>6, <2>7, <2>8, <2>9 DEF Inspects
  <1>5. CASE Lists \/ Decides
    BY <1>2, <1>5 DEF Lists, Decides
  <1>6. CASE Toggles \/ Starts
    BY <1>6 DEF Toggles, Starts, processes, HeldOK, Reader, Image, Alive
  <1>7. QED
    BY <1>1, <1>2, <1>3, <1>4, <1>5, <1>6 DEF ForegroundNext
-----------------------------------------------------------------------------
(* A way up after a change of the tab was one before it: a process that is  *)
(* started has no child, and an orphan loses its parent.                    *)
LEMMA WaysBefore ==
  ASSUME TableOK, TableOK', ReadingOK, Runs \/ Execs \/ Switches \/ \E p \in Pids : Exits(p),
         reading.at # "idle", NEW n \in Nat, NEW way \in [0..n -> All],
         way[0] = Reader, \A k \in 0..(n - 1) : way[k + 1] = parent'[way[k]]
  PROVE  WayUp(Reader, n, way)
  <1>0. /\ \A k \in 0..(n - 1) : k \in 0..n /\ k + 1 \in 0..n
        /\ \A k \in 0..n : way[k] \in All
    OBVIOUS
  <1>1. CASE Runs
    <2>1. PICK p \in Pids, new \in Programs, inFront \in BOOLEAN : Spawns(p, new, inFront)
      BY <1>1, RunsSpawns
    <2>2. /\ p # Reader /\ p # front /\ p # Terminal /\ p # 0 /\ p \in All /\ ~Alive(p)
          /\ parent' = [parent EXCEPT ![p] = front]
      BY <2>1, ForegroundAssumption DEF Spawns, Reader, All
    <2>3. \A k \in 0..n : way[k] # p
      <3>1. \A k \in 0..(n - 1) : way[k + 1] # p
        <4> SUFFICES ASSUME NEW k \in 0..(n - 1), way[k + 1] = p PROVE FALSE
          OBVIOUS
        <4>1. parent'[way[k]] = p /\ way[k] \in All
          BY <1>0
        <4>2. CASE way[k] = p
          BY <2>2, <4>1, <4>2 DEF TableOK
        <4>3. CASE way[k] # p
          BY <2>2, <4>1, <4>3 DEF TableOK
        <4>4. QED
          BY <4>2, <4>3
      <3>2. \A k \in 0..n : k = 0 \/ (k - 1 \in 0..(n - 1) /\ k = (k - 1) + 1)
        OBVIOUS
      <3>3. QED
        BY <2>2, <3>1, <3>2
    <2>4. \A k \in 0..n : parent'[way[k]] = parent[way[k]]
      BY <1>0, <2>2, <2>3 DEF TableOK
    <2>5. QED
      BY <1>0, <2>4 DEF WayUp
  <1>2. CASE Execs \/ Switches
    BY <1>2 DEF Execs, Switches, WayUp
  <1>3. ASSUME NEW p \in Pids, Exits(p) PROVE WayUp(Reader, n, way)
    <2>1. parent' = [q \in All |-> IF parent[q] = p THEN 0 ELSE parent[q]]
      BY <1>3 DEF Exits, TableOK
    <2>2. \A k \in 0..(n - 1) : parent'[way[k]] \in All /\ way[k] \in All
      BY <1>0
    <2>3. 0 \notin All
      BY ForegroundAssumption DEF All
    <2>4. \A k \in 0..(n - 1) : parent'[way[k]] = parent[way[k]]
      BY <2>1, <2>2, <2>3
    <2>5. QED
      BY <2>4 DEF WayUp
  <1>4. QED
    BY <1>1, <1>2, <1>3

(* The program at the top of the tab never changes.                         *)
LEMMA TopStays ==
  ASSUME TableOK, Runs \/ Execs \/ Switches \/ \E p \in Pids : Exits(p)
  PROVE  program'[Terminal] = program[Terminal]
  <1>1. Terminal \in All /\ Terminal \notin Pids
    BY ForegroundAssumption DEF All
  <1>2. CASE Runs
    <2>1. PICK p \in Pids, new \in Programs, inFront \in BOOLEAN : Spawns(p, new, inFront)
      BY <1>2, RunsSpawns
    <2>2. QED
      BY <1>1, <2>1 DEF Spawns, TableOK
  <1>3. CASE Execs
    BY <1>1, <1>3 DEF Execs, TableOK
  <1>4. CASE Switches
    BY <1>4 DEF Switches
  <1>5. ASSUME NEW p \in Pids, Exits(p) PROVE program'[Terminal] = program[Terminal]
    BY <1>1, <1>5 DEF Exits, TableOK
  <1>6. QED
    BY <1>2, <1>3, <1>4, <1>5

LEMMA WalkAfterChange ==
  ASSUME TableOK, TableOK', ReadingOK, WalkOK, Runs \/ Execs \/ Switches \/ \E p \in Pids : Exits(p)
  PROVE  WalkOK'
  <1> SUFFICES ASSUME reading'.at # "idle", nested' PROVE WalkOK'
    BY DEF WalkOK
  <1>1. reading' = reading /\ Noted
    BY DEF Runs, Execs, Switches, Exits, watcherVars
  <1>2. nested /\ UnderMultiplexer(Reader)' /\ Reader' = Reader
    BY <1>1 DEF Noted, Reader
  <1>3. ASSUME reading.at \in Walking, NEW n \in 0..MaxDepth, NEW way \in [0..n -> All], ToTop(n, way)'
        PROVE  reading.depth + 1 \in 1..n /\ way[reading.depth + 1] = reading.above
    <2>1. n \in Nat
      BY Bounds
    <2>2. way[0] = Reader /\ (\A k \in 0..(n - 1) : way[k + 1] = parent'[way[k]]) /\ way[n] = Terminal
      BY <1>2, <1>3 DEF ToTop, WayUp
    <2>3. ToTop(n, way)
      BY <1>1, <2>1, <2>2, WaysBefore DEF ToTop
    <2>4. QED
      BY <1>1, <1>2, <1>3, <2>3 DEF WalkOK, OnEachWay
  <1>4. KnownAtTop' = KnownAtTop
    BY TopStays DEF KnownAtTop
  <1>5. QED
    BY <1>1, <1>2, <1>3, <1>4 DEF WalkOK, OnEachWay
LEMMA WalkAfterRead ==
  ASSUME TableOK, ReadingOK, WalkOK, Inspects, reading'.at # "idle", nested'
  PROVE  WalkOK'
  <1>1. UNCHANGED <<program, parent, nested>> /\ nested
    BY DEF Inspects, ReadStat, ReadExe, ReadStatus, ReadComm, ReadCmdline, ReadEnviron, WalkUp, ReadChildren, Reads, processes
  <1>2. reading.at # "idle" /\ UnderMultiplexer(Reader)
    BY <1>1 DEF WalkOK, Inspects, ReadStat, ReadExe, ReadStatus, ReadComm, ReadCmdline, ReadEnviron, WalkUp, ReadChildren, Reads
  <1>3. ASSUME Reader' = Reader PROVE UnderMultiplexer(Reader)'
    BY <1>1, <1>2, <1>3 DEF UnderMultiplexer, WayUp
  <1>0. KnownAtTop' = KnownAtTop
    BY <1>1 DEF KnownAtTop
  <1>4. ASSUME Reader' = Reader, reading'.depth = reading.depth, reading'.above = reading.above, OnEachWay
        PROVE  OnEachWay'
    BY <1>1, <1>4 DEF OnEachWay, ToTop, WayUp
  <1> USE DEF Walking
  <1>5. CASE ReadStat \/ ReadExe
    <2>1. Alive(Reader)
      BY <1>5, IdleEffect DEF ReadStat, ReadExe, Reads, GivesUp, Reader
    <2>2. Reader' = Reader /\ reading'.at \in {"exe", "status"}
      BY <1>5, <2>1, ReadStatEffect, ReadExeEffect
    <2>3. QED
      BY <1>3, <2>2 DEF WalkOK
  <1>6. CASE ReadComm \/ ReadCmdline \/ ReadEnviron
    <2>1. Alive(Reader)
      BY <1>6, IdleEffect DEF ReadComm, ReadCmdline, ReadEnviron, Reads, GivesUp, Reader
    <2>2. /\ Reader' = Reader /\ reading.at \in Walking /\ reading'.at \in Walking
          /\ reading.depth = 0 /\ reading'.depth = 0 /\ reading'.above = reading.above
      BY <1>6, <2>1, ReadCommEffect, ReadCmdlineEffect, ReadEnvironEffect DEF ReadingOK
    <2>3. OnEachWay
      BY <1>1, <1>2, <2>2 DEF WalkOK
    <2>4. QED
      BY <1>3, <1>4, <2>2, <2>3 DEF WalkOK
  <1>7. CASE ReadStatus
    <2>1. Alive(Reader)
      BY <1>7, IdleEffect DEF ReadStatus, GivesUp, Reader
    <2>2. Reader \in Pids /\ Reader' = Reader /\ reading'.at = "comm" /\ reading'.depth = 0 /\ reading'.above = parent[Reader]
      BY <1>7, <2>1, ReadStatusEffect DEF Reader
    <2>3. ASSUME NEW n \in 0..MaxDepth, NEW way \in [0..n -> All], ToTop(n, way)'
          PROVE  0 + 1 \in 1..n /\ way[0 + 1] = parent[Reader]
      <3>1. n \in Nat /\ way[0] = Reader /\ way[n] = Terminal /\ \A k \in 0..(n - 1) : way[k + 1] = parent[way[k]]
        BY <1>1, <2>2, <2>3, Bounds DEF ToTop, WayUp
      <3>2. n # 0
        BY <2>2, <3>1, ForegroundAssumption
      <3>3. 0 \in 0..(n - 1) /\ 0 + 1 \in 1..n
        BY <3>1, <3>2
      <3>4. QED
        BY <3>1, <3>3
    <2>4. OnEachWay'
      BY <1>1, <2>2, <2>3 DEF OnEachWay
    <2>5. QED
      BY <1>3, <2>2, <2>4 DEF WalkOK
  <1>8. CASE WalkUp
    <2>1. reading.at = "ancestors" /\ Reader \in Pids /\ Reader' = Reader /\ OnEachWay /\ reading.depth \in Nat
      BY <1>1, <1>2, <1>8, WalkUpEffect DEF WalkOK, ReadingOK, Readings
    <2>2. ASSUME NEW n \in 0..MaxDepth, NEW way \in [0..n -> All], ToTop(n, way), reading.above # Terminal
          PROVE  /\ reading.above \in Pids /\ Alive(reading.above) /\ reading.depth + 1 < MaxDepth
                 /\ reading.depth + 2 \in 1..n /\ way[reading.depth + 2] = parent[reading.above]
      <3>1. reading.depth + 1 \in 1..n /\ way[reading.depth + 1] = reading.above
        BY <2>1, <2>2 DEF OnEachWay
      <3>2. n \in Nat /\ n <= MaxDepth /\ MaxDepth \in Nat
        BY Bounds
      <3>3. way[n] = Terminal /\ way[0] = Reader /\ \A k \in 0..(n - 1) : way[k + 1] = parent[way[k]]
        BY <2>2 DEF ToTop, WayUp
      <3>4. reading.depth + 1 # n
        BY <2>2, <3>1, <3>3
      <3>5. reading.depth + 1 \in 0..(n - 1) /\ reading.depth \in 0..(n - 1) /\ reading.depth + 2 \in 1..n
            /\ reading.depth + 1 < MaxDepth /\ reading.depth + 2 = (reading.depth + 1) + 1
            /\ reading.depth \in 0..n /\ reading.depth + 2 \in 0..n
        BY <2>1, <3>1, <3>2, <3>4
      <3>6. way[reading.depth + 2] = parent[reading.above] /\ reading.above = parent[way[reading.depth]]
        BY <3>1, <3>3, <3>5
      <3>7. way[reading.depth] \in All
        BY <3>5
      <3>8. reading.above \in All /\ reading.above # 0
        <4>1. reading.above \in All
          BY <3>1, <3>5
        <4>2. QED
          BY <4>1, ForegroundAssumption DEF All
      <3>9. QED
        BY <2>2, <3>5, <3>6, <3>7, <3>8 DEF TableOK, All
    <2>3. PICK n \in 0..MaxDepth : \E way \in [0..n -> All] : ToTop(n, way)
      BY <1>2 DEF UnderMultiplexer, ToTop
    <2>4. PICK way \in [0..n -> All] : ToTop(n, way)
      BY <2>3
    <2>5. CASE reading'.at = "ancestors"
      <3>1. reading'.depth = reading.depth + 1 /\ reading'.above = parent[reading.above] /\ reading.above # Terminal
        BY <1>8, <2>5, WalkUpEffect, ForegroundAssumption
      <3>2. (reading.depth + 1) + 1 = reading.depth + 2
        BY <2>1
      <3>3. OnEachWay'
        BY <1>1, <2>1, <2>2, <3>1, <3>2 DEF OnEachWay, ToTop, WayUp
      <3>4. QED
        BY <1>3, <2>1, <2>5, <3>3 DEF WalkOK
    <2>6. CASE reading'.at = "children"
      <3>1. /\ (reading.above = Terminal /\ KnownAtTop) => reading'.info.blocked
            /\ ~ /\ reading.above \in Pids /\ Alive(reading.above)
                 /\ program[reading.above].comm \notin NestedTerminals
                 /\ reading.depth + 1 < MaxDepth
        <4>1. "children" # "ancestors"
          OBVIOUS
        <4>2. QED
          BY <1>8, <2>6, <4>1, WalkUpEffect, Zenon
      <3>2. reading.above \in Pids => program[reading.above].comm \notin NestedTerminals
        BY ProgramTypes DEF TableOK
      <3>3. reading.above = Terminal
        BY <2>2, <2>4, <3>1, <3>2
      <3>4. QED
        BY <1>0, <1>3, <2>1, <2>6, <3>1, <3>3 DEF WalkOK
    <2>7. QED
      BY <1>8, <2>5, <2>6, WalkUpEffect
  <1>9. CASE ReadChildren
    <2>1. /\ reading.at = "children" /\ reading'.at = "verdict" /\ Reader' = Reader
          /\ reading'.info.blocked = reading.info.blocked
      BY <1>9, ReadChildrenEffect DEF Reader, ReadingOK, Readings, Infos
    <2>2. QED
      BY <1>1, <1>2, <1>0, <1>3, <2>1 DEF WalkOK
  <1>10. QED
    BY <1>5, <1>6, <1>7, <1>8, <1>9 DEF Inspects

LEMMA WalkStep ==
  ASSUME TableOK, TableOK', ReadingOK, WalkOK, ForegroundNext
  PROVE  WalkOK'
  <1> SUFFICES ASSUME reading'.at # "idle", nested' PROVE WalkOK'
    BY DEF WalkOK
  <1>1. CASE Begins
    <2>1. PICK purpose \in {"list", "send"} : LookFor(purpose)
      BY <1>1 DEF Begins
    <2>2. reading'.at = "stat" /\ Reader' = front /\ UnderMultiplexer(front) /\ UNCHANGED <<program, parent>>
      BY <2>1, LookForEffect DEF LookFor, processes
    <2>3. UnderMultiplexer(Reader)'
      BY <2>2 DEF UnderMultiplexer, WayUp
    <2>4. QED
      BY <2>2, <2>3 DEF WalkOK, Walking
  <1>2. CASE Toggles \/ Starts
    <2>1. UNCHANGED <<program, parent, reading, nested>>
      BY <1>2 DEF Toggles, Starts, processes
    <2>2. UnderMultiplexer(Reader)' = UnderMultiplexer(Reader) /\ OnEachWay' = OnEachWay /\ KnownAtTop' = KnownAtTop
      BY <2>1 DEF UnderMultiplexer, OnEachWay, KnownAtTop, ToTop, WayUp, Reader
    <2>3. QED
      BY <2>1, <2>2 DEF WalkOK, Reader
  <1>3. CASE Lists \/ Decides
    BY <1>3, IdleEffect DEF Lists, Decides
  <1>4. QED
    BY <1>1, <1>2, <1>3, WalkAfterChange, WalkAfterRead DEF ForegroundNext
-----------------------------------------------------------------------------
(* Two signals are never all circumstantial: one of them is the program's   *)
(* own name.                                                                *)
LEMMA OneIsNotTwo ==
  ASSUME NEW signals, NEW name, signals \subseteq {name}
  PROVE  ~(Cardinality(signals) >= MinSignals)
  <1>1. signals = {} \/ signals = {name}
    OBVIOUS
  <1>2. Cardinality(signals) = 0 \/ Cardinality(signals) = 1
    BY <1>1, FS_EmptySet, FS_Singleton
  <1>3. QED
    BY <1>2, Bounds

LEMMA ClaudeByName ==
  ASSUME NEW info, Cardinality(ClaudeSignals(info)) >= MinSignals
  PROVE  info.comm = "claude" \/ info.exe = "claude" \/ Argument(info, 1) = "claude"
  <1> SUFFICES ASSUME info.comm # "claude", info.exe # "claude", Argument(info, 1) # "claude" PROVE FALSE
    OBVIOUS
  <1>1. ClaudeSignals(info) \subseteq {"argv1"}
    BY DEF ClaudeSignals, Signal
  <1>2. QED
    BY <1>1, OneIsNotTwo

LEMMA CodexByName ==
  ASSUME NEW info, Cardinality(CodexSignals(info)) >= MinSignals
  PROVE  \/ info.comm = "codex" \/ info.exe = "codex" \/ Argument(info, 1) = "codex"
         \/ Argument(info, 1) = "node" /\ Argument(info, 2) = "codex"
  <1> SUFFICES ASSUME info.comm # "codex", info.exe # "codex", Argument(info, 1) # "codex",
                      ~(Argument(info, 1) = "node" /\ Argument(info, 2) = "codex") PROVE FALSE
    OBVIOUS
  <1>1. CodexSignals(info) \subseteq {"child"}
    BY DEF CodexSignals, Signal
  <1>2. QED
    BY <1>1, OneIsNotTwo

(* What an automatable verdict says about the reads it was made from.       *)
LEMMA VerdictByName ==
  ASSUME NEW info, Automatable(Classify(info))
  PROVE  /\ ~info.blocked
         /\ \/ /\ Classify(info).provider = "claude"
               /\ info.comm = "claude" \/ info.exe = "claude" \/ Argument(info, 1) = "claude"
            \/ /\ Classify(info).provider = "codex"
               /\ \/ info.comm = "codex" \/ info.exe = "codex" \/ Argument(info, 1) = "codex"
                  \/ Argument(info, 1) = "node" /\ Argument(info, 2) = "codex"
  <1>1. ASSUME NEW high, NEW blocked, NEW provider
        PROVE  /\ Verdict(provider, high, blocked).provider = provider
               /\ Verdict(provider, high, blocked).high = high
               /\ Verdict(provider, high, blocked).blocked = blocked
    BY DEF Verdict
  <1>2. Classify(info) # NotAnAgent
    BY <1>1, Zenon DEF Automatable, NotAnAgent
  <1> HIDE DEF Verdict
  <1>3. CASE ClaudeSignals(info) # {}
    <2> DEFINE enough == Cardinality(ClaudeSignals(info)) >= MinSignals
    <2>1. Classify(info) = Verdict("claude", enough, info.blocked)
      BY <1>2, <1>3 DEF Classify
    <2> HIDE DEF enough
    <2>4. /\ Classify(info).provider = "claude" /\ Classify(info).high = enough
          /\ Classify(info).blocked = info.blocked
      BY <2>1 DEF Verdict
    <2> USE DEF enough
    <2>2. Classify(info).provider = "claude" /\ Cardinality(ClaudeSignals(info)) >= MinSignals /\ ~info.blocked
      BY <2>4, Zenon DEF Automatable
    <2>3. QED
      BY <2>2, ClaudeByName
  <1>4. CASE ClaudeSignals(info) = {}
    <2> DEFINE enough == Cardinality(CodexSignals(info)) >= MinSignals
    <2>1. Classify(info) = Verdict("codex", enough, info.blocked)
      BY <1>2, <1>4 DEF Classify
    <2> HIDE DEF enough
    <2>4. /\ Classify(info).provider = "codex" /\ Classify(info).high = enough
          /\ Classify(info).blocked = info.blocked
      BY <2>1 DEF Verdict
    <2> USE DEF enough
    <2>2. Classify(info).provider = "codex" /\ Cardinality(CodexSignals(info)) >= MinSignals /\ ~info.blocked
      BY <2>4, Zenon DEF Automatable
    <2>3. QED
      BY <2>2, CodexByName
  <1>5. QED
    BY <1>3, <1>4

LEMMA KeyFromReads ==
  ASSUME ReadingOK, HeldOK
  PROVE  KeyForTheAgent
  <1> SUFFICES ASSUME Sending PROVE \E image \in held : image.born = selected.identity.born /\ AgentOf(image) = selected.provider
    BY DEF KeyForTheAgent
  <1> DEFINE info == reading.info
  <1>1. reading.at = "verdict" /\ Automatable(Classify(info)) /\ Classify(info).provider = selected.provider
        /\ Identity(info) = selected.identity
    BY DEF Sending, Drifted, Found
  <1>2. selected.identity.born = info.born
    BY <1>1 DEF Identity
  <1>3. /\ \A image \in held : Living(image) => image.born = info.born
        /\ \A image \in held : Living(image) => image.program \in Programs
        /\ \E image \in held : Living(image) /\ image.program.exe = info.exe
        /\ \E image \in held : Living(image) /\ image.program.comm = info.comm
        /\ \E image \in held : Living(image) /\ image.program.argv = info.argv
    BY <1>1 DEF HeldOK, Started, CommRead, Living, Images
  <1>4. ASSUME NEW k, NEW name, name # "", Argument(info, k) = name
        PROVE  Len(info.argv) >= k /\ info.argv[k] = name
    BY <1>4, Zenon DEF Argument
  <1>5. "claude" # "" /\ "codex" # "" /\ "node" # ""
    BY Zenon
  <1> HIDE DEF info
  <1>11. Claude \notin {Codex, CodexShim}
    BY DEF Codex, CodexShim, Claude, Program
  <1>6. ASSUME NEW image \in held, Living(image), image.program = Claude
        PROVE  image.born = info.born /\ AgentOf(image) = "claude"
    BY <1>3, <1>6, <1>11 DEF AgentOf
  <1>7. ASSUME NEW image \in held, Living(image), image.program \in {Codex, CodexShim}
        PROVE  image.born = info.born /\ AgentOf(image) = "codex"
    <2>1. Codex # Claude /\ CodexShim # Claude
      BY DEF Codex, CodexShim, Claude, Program
    <2>2. QED
      BY <1>3, <1>7, <2>1 DEF AgentOf
  <1>8. CASE Classify(info).provider = "claude"
    <2>1. \E image \in held : Living(image) /\ image.program = Claude
      <3>1. info.comm = "claude" \/ info.exe = "claude" \/ (Len(info.argv) >= 1 /\ info.argv[1] = "claude")
        <4>1. info.comm = "claude" \/ info.exe = "claude" \/ Argument(info, 1) = "claude"
          BY <1>1, <1>8, VerdictByName
        <4>2. QED
          BY <1>4, <1>5, <4>1, Zenon
      <3>2. QED
        BY <1>3, <3>1, NamesOfClaude
    <2>2. QED
      BY <1>1, <1>2, <1>6, <1>8, <2>1
  <1>9. CASE Classify(info).provider = "codex"
    <2>1. \E image \in held : Living(image) /\ image.program \in {Codex, CodexShim}
      <3>1. \/ info.comm = "codex" \/ info.exe = "codex" \/ (Len(info.argv) >= 1 /\ info.argv[1] = "codex")
            \/ Len(info.argv) >= 2 /\ info.argv[1] = "node" /\ info.argv[2] = "codex"
        <4>1. \/ info.comm = "codex" \/ info.exe = "codex" \/ Argument(info, 1) = "codex"
              \/ Argument(info, 1) = "node" /\ Argument(info, 2) = "codex"
          BY <1>1, <1>9, VerdictByName
        <4>2. QED
          BY <1>4, <1>5, <4>1, Zenon
      <3>2. QED
        BY <1>3, <3>1, NamesOfCodex
    <2>2. QED
      BY <1>1, <1>2, <1>7, <1>9, <2>1
  <1>10. QED
    BY <1>1, <1>8, <1>9, VerdictByName

LEMMA WatcherStep ==
  ASSUME TableOK, ReadingOK, WatcherOK, ForegroundNext
  PROVE  WatcherOK'
  <1>1. ASSUME looks' = looks, ticked' \in BOOLEAN, nested' \in BOOLEAN PROVE WatcherOK'
    BY <1>1 DEF WatcherOK
  <1>2. CASE Begins
    <2>1. UnderMultiplexer(front) \in BOOLEAN
      BY DEF UnderMultiplexer
    <2>2. looks < MaxLooks /\ looks' = looks + 1 /\ ticked' = ticked /\ nested' = UnderMultiplexer(front)
      BY <1>2 DEF Begins, LookFor
    <2>3. looks' \in 0..MaxLooks
      BY <2>2, Bounds DEF WatcherOK
    <2>4. QED
      BY <2>1, <2>2, <2>3 DEF WatcherOK
  <1>3. CASE Runs \/ Execs \/ Switches \/ \E p \in Pids : Exits(p)
    <2>1. Noted /\ UNCHANGED <<looks, ticked>>
      BY <1>3 DEF Runs, Execs, Switches, Exits, watcherVars
    <2>2. nested' \in BOOLEAN
      BY <2>1 DEF Noted, WatcherOK
    <2>3. QED
      BY <1>1, <2>1, <2>2 DEF WatcherOK
  <1>4. CASE Inspects
    BY <1>4 DEF Inspects, ReadStat, ReadExe, ReadStatus, ReadComm, ReadCmdline, ReadEnviron, WalkUp, ReadChildren, Reads, GivesUp, WatcherOK
  <1>5. CASE Lists
    <2>1. Automatable(Found) \in BOOLEAN
      BY DEF Automatable
    <2>2. QED
      BY <1>1, <1>5, <2>1 DEF Lists, WatcherOK
  <1>6. CASE Toggles
    BY <1>6 DEF Toggles, WatcherOK
  <1>7. CASE Starts \/ Decides
    BY <1>7 DEF Starts, Decides, WatcherOK
  <1>8. QED
    BY <1>2, <1>3, <1>4, <1>5, <1>6, <1>7 DEF ForegroundNext

LEMMA ReadingStep ==
  ASSUME TableOK, ReadingOK, ForegroundNext
  PROVE  ReadingOK'
  <1>1. CASE Begins
    BY <1>1, LookForEffect DEF Begins
  <1>2. ASSUME UNCHANGED reading PROVE ReadingOK'
    BY <1>2 DEF ReadingOK, Reader
  <1>3. CASE Inspects
    <2>1. CASE reading' = Idle
      BY <2>1, IdleEffect
    <2>2. CASE WalkUp \/ ReadChildren
      BY <2>2, WalkUpEffect, ReadChildrenEffect
    <2>3. CASE ReadStatus /\ reading' # Idle
      BY <2>3, ReadStatusEffect DEF ReadStatus, GivesUp, Reader
    <2>4. CASE reading' # Idle /\ (ReadStat \/ ReadExe \/ ReadComm \/ ReadCmdline \/ ReadEnviron)
      <3>1. Alive(Reader)
        BY <2>4 DEF ReadStat, ReadExe, ReadComm, ReadCmdline, ReadEnviron, Reads, GivesUp, Reader
      <3>2. QED
        BY <2>4, <3>1, ReadStatEffect, ReadExeEffect, ReadCommEffect, ReadCmdlineEffect, ReadEnvironEffect
    <2>5. QED
      BY <1>3, <2>1, <2>2, <2>3, <2>4 DEF Inspects
  <1>4. CASE Lists \/ Decides
    BY <1>4, IdleEffect DEF Lists, Decides
  <1>5. QED
    BY <1>1, <1>2, <1>3, <1>4 DEF ForegroundNext, Toggles, Starts, Runs, Execs, Exits, Switches, watcherVars

-----------------------------------------------------------------------------
(* What holds in every reachable state: of the process table, of the        *)
(* inspection under way, and of what was noted since it began.              *)
LookedOK == TableOK /\ ReadingOK /\ WatcherOK /\ HeldOK

LEMMA LookedInv == ForegroundSpec => []LookedOK
  <1>1. ForegroundInit => LookedOK
    <2>1. ForegroundInit => HeldOK
      BY DEF ForegroundInit, HeldOK, Idle
    <2>2. QED
      BY <2>1, TableInit, ReadingInit DEF LookedOK
  <1>2. ASSUME LookedOK, [ForegroundNext]_foregroundVars PROVE LookedOK'
    <2>1. TableOK'
      BY <1>2, TableStep DEF LookedOK
    <2>2. CASE ForegroundNext
      BY <1>2, <2>1, <2>2, ReadingStep, WatcherStep, HeldStep DEF LookedOK
    <2>3. CASE UNCHANGED foregroundVars
      BY <1>2, <2>1, <2>3 DEF LookedOK, ReadingOK, WatcherOK, HeldOK, Reader, Image, Alive, foregroundVars, watcherVars, processes
    <2>4. QED
      BY <1>2, <2>2, <2>3
  <1>3. QED
    BY <1>1, <1>2, PTL DEF ForegroundSpec

(* Every variable of the tab and of its watcher stays within its type.      *)
THEOREM ForegroundTyped == ForegroundSpec => []ForegroundTypeOK
  <1>1. LookedOK => ForegroundTypeOK
    <2>1. ReadingOK => reading.depth \in 0..MaxDepth
      BY DEF ReadingOK, Readings
    <2>2. QED
      BY <2>1 DEF LookedOK, TableOK, WatcherOK, ForegroundTypeOK
  <1>2. QED
    BY <1>1, LookedInv, PTL

(* fsm.py:12-15, proc.py: a key is only sent when the selected process had  *)
(* the foreground and ran the selected agent at some moment of the          *)
(* inspection before it, whatever its reads were mixed from.                *)
THEOREM ForegroundKeyForTheAgent == ForegroundSpec => []KeyForTheAgent
  BY LookedInv, KeyFromReads, PTL DEF LookedOK

(* classify.py:194: no key goes to an agent that was below screen all       *)
(* through the inspection, within the walk's reach.                         *)
THEOREM ForegroundNeverThroughScreen == ForegroundSpec => []NeverThroughScreen
  <1>1. ForegroundInit => WalkOK
    BY DEF ForegroundInit, WalkOK, Idle
  <1>2. ASSUME LookedOK, LookedOK', WalkOK, [ForegroundNext]_foregroundVars PROVE WalkOK'
    <2>1. CASE ForegroundNext
      BY <1>2, <2>1, WalkStep DEF LookedOK
    <2>2. CASE UNCHANGED foregroundVars
      BY <1>2, <2>2 DEF WalkOK, OnEachWay, KnownAtTop, ToTop, UnderMultiplexer, WayUp, Reader, foregroundVars, watcherVars, processes
    <2>3. QED
      BY <1>2, <2>1, <2>2
  <1>3. LookedOK /\ WalkOK => NeverThroughScreen
    <2> SUFFICES ASSUME WalkOK, Sending, nested, program[Terminal] = ScreenServer PROVE FALSE
      BY DEF NeverThroughScreen
    <2>1. reading.at = "verdict" /\ Automatable(Classify(reading.info))
      BY DEF Sending, Drifted, Found
    <2>2. KnownAtTop
      BY ProgramTypes DEF KnownAtTop
    <2>3. QED
      BY <2>1, <2>2, VerdictByName DEF WalkOK
  <1>4. QED
    BY <1>1, <1>2, <1>3, LookedInv, PTL DEF ForegroundSpec
===============================================================================
