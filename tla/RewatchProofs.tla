---------------------------- MODULE RewatchProofs ---------------------------
(* What rewatch/algorithm.py and cap.ts promise of interval_days and rewatchCap, for every  *)
(* input; and what the due-list, the statistics, the cap, the top lists and the projection   *)
(* of a library promise in every reachable state of DueList.                                 *)
EXTENDS DueList, FiniteSetTheorems, TLAPS

\* The scaled ratings, that of an unrated film included.
Scale == 0..10

-----------------------------------------------------------------------------
(* Lemmas *)

\* The quotient and the remainder of a division of naturals.
LEMMA DivisionOfNaturals ==
    ASSUME NEW s \in Nat, NEW n \in Nat \ {0}
    PROVE  /\ s \div n \in Nat /\ s % n \in 0..(n - 1)
           /\ s = n * (s \div n) + (s % n)
    OBVIOUS

\* Products of naturals grow with their factors.
LEMMA ProductsGrow ==
    ASSUME NEW a \in Nat, NEW b \in Nat, NEW c \in Nat, NEW d \in Nat, a <= b, c <= d
    PROVE  a * c <= b * d
<1>1. a * c <= b * c
  <2>1. PICK k \in Nat : b = a + k
    <3>1. b - a \in Nat /\ b = a + (b - a) OBVIOUS
    <3> QED BY <3>1
  <2>2. b * c = a * c + k * c BY <2>1
  <2>3. k * c >= 0 OBVIOUS
  <2> QED BY <2>2, <2>3
<1>2. b * c <= b * d
  <2>1. PICK k \in Nat : d = c + k
    <3>1. d - c \in Nat /\ d = c + (d - c) OBVIOUS
    <3> QED BY <3>1
  <2>2. b * d = b * c + b * k BY <2>1
  <2>3. b * k >= 0 OBVIOUS
  <2> QED BY <2>2, <2>3
<1>3. a * c \in Int /\ b * c \in Int /\ b * d \in Int OBVIOUS
<1> QED BY <1>1, <1>2, <1>3

\* The reverse rating stays within 1..10 and never grows with the rating.
LEMMA ReverseRatingBounds ==
    ASSUME NEW s \in Scale, NEW t \in Scale, s <= t
    PROVE  /\ ReverseRating(s) \in 1..10
           /\ ReverseRating(t) <= ReverseRating(s)
    BY DEF ReverseRating, Scale

\* The floor is at least a year, and never grows with the rating.
LEMMA BaseDaysBounds ==
    ASSUME NEW s \in Scale, NEW t \in Scale, s <= t
    PROVE  /\ BaseDays(s) \in Nat /\ BaseDays(s) >= 365
           /\ BaseDays(t) <= BaseDays(s)
           /\ s = 0 /\ t > 0 => BaseDays(t) + 365 <= BaseDays(s)
<1>1. (s + 1) \div 2 \in 0..5 /\ (t + 1) \div 2 \in 0..5 BY DEF Scale
<1>2. (s + 1) \div 2 <= (t + 1) \div 2 BY DEF Scale
<1>3. s = 0 /\ t > 0 => (s + 1) \div 2 = 0 /\ (t + 1) \div 2 >= 1 BY DEF Scale
<1> QED BY <1>1, <1>2, <1>3 DEF BaseDays, DAYS_PER_YEAR

\* The floor by itself.
LEMMA BaseDaysType ==
    ASSUME NEW s \in Scale
    PROVE  BaseDays(s) \in Nat /\ BaseDays(s) >= 365
<1>1. s \in Int /\ s <= s BY DEF Scale
<1> QED BY <1>1, BaseDaysBounds

\* The spacing is a natural, grows with the watches and never with the rating.
LEMMA SpacingMonotone ==
    ASSUME NEW s \in Scale, NEW t \in Scale, s <= t,
           NEW c \in Nat, NEW d \in Nat, c <= d, NEW m \in Nat
    PROVE  /\ Spacing(s, c, m) \in Nat /\ Spacing(t, c, m) \in Nat /\ Spacing(s, d, m) \in Nat
           /\ Spacing(s, c, m) <= Spacing(s, d, m)
           /\ Spacing(t, c, m) <= Spacing(s, c, m)
<1> DEFINE p == ReverseRating(s)
           q == ReverseRating(t)
<1>1. p \in 1..10 /\ q \in 1..10 /\ q <= p BY ReverseRatingBounds DEF Scale
<1>2. p * m \in Nat /\ q * m \in Nat BY <1>1
<1>3. q * m <= p * m BY <1>1, ProductsGrow
<1>4. c + p \in Nat /\ c + q \in Nat /\ d + p \in Nat /\ c + q <= c + p /\ c + p <= d + p
  BY <1>1
<1> HIDE DEF p, q
<1>5. (c + q) * (q * m) <= (c + p) * (p * m) BY <1>2, <1>3, <1>4, ProductsGrow
<1>6. (c + p) * (p * m) <= (d + p) * (p * m) BY <1>2, <1>4, ProductsGrow
<1>7. (c + p) * (p * m) \in Nat /\ (c + q) * (q * m) \in Nat /\ (d + p) * (p * m) \in Nat
  BY <1>2, <1>4
<1> QED BY <1>5, <1>6, <1>7 DEF Spacing, p, q

\* The spacing by itself.
LEMMA SpacingType ==
    ASSUME NEW s \in Scale, NEW c \in Nat, NEW m \in Nat
    PROVE  Spacing(s, c, m) \in Nat
<1>1. s <= s /\ c <= c BY DEF Scale
<1> QED BY <1>1, SpacingMonotone

\* Halving keeps the order, and a year apart stays apart.
LEMMA HalvedMonotone ==
    ASSUME NEW a \in Nat, NEW b \in Nat, a <= b
    PROVE  /\ Halved(a) \in Nat /\ Halved(b) \in Nat /\ Halved(a) <= Halved(b)
           /\ a + 365 <= b => Halved(a) < Halved(b)
           /\ b >= 365 => Halved(b) >= 183
    BY DEF Halved

-----------------------------------------------------------------------------
(* Theorems *)

\* Scores between half a star and five average to between half a star and five: the average,
\* rounded to a half star, is a rating again.
THEOREM AverageIsARating ==
    ASSUME NEW item \in RewatchInput, WellRated(item), Scored(item)
    PROVE  scaled_rating(item) \in 1..10
<1> DEFINE s == item.half_stars
           n == item.rated
           q == s \div n
           r == s % n
<1>1. s \in Nat /\ n \in Nat \ {0} /\ n <= s /\ s <= 10 * n
  BY DEF RewatchInput, WellRated, Scored
<1>2. q \in Nat /\ r \in 0..(n - 1) /\ s = n * q + r BY <1>1, DivisionOfNaturals
<1>3. scaled_rating(item) = RoundHalfEven(s, n) BY DEF scaled_rating
<1>4. RoundHalfEven(s, n) = IF 2 * r < n \/ (2 * r = n /\ q % 2 = 0) THEN q ELSE q + 1
  BY DEF RoundHalfEven
<1> HIDE DEF s, n, q, r
<1>5. q >= 1
  <2>1. CASE q = 0
    <3>1. n * q = 0 BY <2>1, <1>1
    <3> QED BY <3>1, <1>1, <1>2
  <2> QED BY <2>1, <1>2
<1>6. q <= 10
  <2>1. CASE q >= 11
    <3>1. n * 11 <= n * q BY <2>1, <1>1, <1>2, ProductsGrow
    <3>2. n * q \in Nat BY <1>1, <1>2
    <3> QED BY <3>1, <3>2, <1>1, <1>2
  <2> QED BY <2>1, <1>2
<1>7. q = 10 => r = 0
  <2>1. q = 10 => n * q = n * 10 OBVIOUS
  <2> QED BY <2>1, <1>1, <1>2
<1> QED BY <1>1, <1>2, <1>3, <1>4, <1>5, <1>6, <1>7

\* "A five-star favourite can come due in six months, the one place nothing holds it to a
\* year": no interval is shorter than a year, half a year for a favourite.
THEOREM NoShorterWait ==
    ASSUME NEW s \in Scale, NEW c \in Nat, NEW m \in Nat, NEW fav \in BOOLEAN
    PROVE  Interval(s, c, m, fav) >= IF fav THEN 183 ELSE 365
<1> DEFINE total == BaseDays(s) + Spacing(s, c, m)
<1>1. BaseDays(s) \in Nat /\ BaseDays(s) >= 365 BY BaseDaysType
<1>2. Spacing(s, c, m) \in Nat BY SpacingType
<1>3. total \in Nat /\ total >= 365 BY <1>1, <1>2
<1>4. Interval(s, c, m, fav) = IF fav THEN Halved(total) ELSE total BY DEF Interval
<1> HIDE DEF total
<1>5. Halved(total) >= 183 BY <1>3, HalvedMonotone
<1> QED BY <1>3, <1>4, <1>5

\* "Each prior watch adds one step": a film watched more often never waits less.
THEOREM WatchesOnlyPostpone ==
    ASSUME NEW s \in Scale, NEW c \in Nat, NEW d \in Nat, c <= d, NEW m \in Nat,
           NEW fav \in BOOLEAN
    PROVE  Interval(s, c, m, fav) <= Interval(s, d, m, fav)
<1> DEFINE a == BaseDays(s) + Spacing(s, c, m)
           b == BaseDays(s) + Spacing(s, d, m)
<1>1. BaseDays(s) \in Nat BY BaseDaysType
<1>2. Spacing(s, c, m) \in Nat /\ Spacing(s, d, m) \in Nat /\ Spacing(s, c, m) <= Spacing(s, d, m)
  <2>1. s <= s BY DEF Scale
  <2> QED BY <2>1, SpacingMonotone
<1>3. a \in Nat /\ b \in Nat /\ a <= b BY <1>1, <1>2
<1>4. /\ Interval(s, c, m, fav) = IF fav THEN Halved(a) ELSE a
      /\ Interval(s, d, m, fav) = IF fav THEN Halved(b) ELSE b
  BY DEF Interval
<1> HIDE DEF a, b
<1> QED BY <1>3, <1>4, HalvedMonotone

\* The wait never grows with the rating, and an unrated film "waits longer than any rated
\* one" that was watched as often.
THEOREM RatingShortensTheWait ==
    ASSUME NEW s \in Scale, NEW t \in Scale, s <= t, NEW c \in Nat, NEW m \in Nat,
           NEW fav \in BOOLEAN
    PROVE  /\ Interval(t, c, m, fav) <= Interval(s, c, m, fav)
           /\ s = UNRATED_SCALED_RATING /\ t > 0
                => Interval(t, c, m, fav) < Interval(s, c, m, fav)
<1> DEFINE a == BaseDays(t) + Spacing(t, c, m)
           b == BaseDays(s) + Spacing(s, c, m)
<1>1. /\ BaseDays(s) \in Nat /\ BaseDays(t) \in Nat
      /\ BaseDays(t) <= BaseDays(s)
      /\ s = 0 /\ t > 0 => BaseDays(t) + 365 <= BaseDays(s)
  BY BaseDaysType, BaseDaysBounds
<1>2. Spacing(s, c, m) \in Nat /\ Spacing(t, c, m) \in Nat /\ Spacing(t, c, m) <= Spacing(s, c, m)
  <2>1. c <= c OBVIOUS
  <2> QED BY <2>1, SpacingMonotone
<1>3. a \in Nat /\ b \in Nat /\ a <= b /\ (s = 0 /\ t > 0 => a + 365 <= b) BY <1>1, <1>2
<1>4. /\ Interval(t, c, m, fav) = IF fav THEN Halved(a) ELSE a
      /\ Interval(s, c, m, fav) = IF fav THEN Halved(b) ELSE b
  BY DEF Interval
<1> HIDE DEF a, b
<1>5. Halved(a) <= Halved(b) /\ (a + 365 <= b => Halved(a) < Halved(b)) BY <1>3, HalvedMonotone
<1> QED BY <1>3, <1>4, <1>5 DEF UNRATED_SCALED_RATING, Scale

\* A film is not due within half a year of its last watch, nor within a year when it is no
\* favourite, whatever its scores, its runtime and its delay.
THEOREM WatchedFilmRests ==
    ASSUME NEW item \in RewatchInput, WellRated(item), NEW day \in Int, IsDue(item, day)
    PROVE  item.last_watched_date + (IF item.is_favorite THEN 183 ELSE 365) <= day
<1> DEFINE s == scaled_rating(item)
           c == item.watch_count
           m == item.runtime_minutes
           i == Interval(s, c, m, item.is_favorite)
<1>1. s \in Scale
  <2>1. CASE Scored(item) BY <2>1, AverageIsARating DEF Scale
  <2>2. CASE ~Scored(item) BY <2>2 DEF scaled_rating, UNRATED_SCALED_RATING, Scale
  <2> QED BY <2>1, <2>2
<1>2. /\ c \in Nat /\ m \in Nat /\ item.is_favorite \in BOOLEAN
      /\ item.last_watched_date \in Int /\ item.delay_days \in Nat
  BY DEF RewatchInput
<1>3. i >= IF item.is_favorite THEN 183 ELSE 365 BY <1>1, <1>2, NoShorterWait
<1>4. item.last_watched_date + i + item.delay_days <= day
  BY DEF IsDue, due_date, interval_days
<1>5. i \in Nat
  <2>1. BaseDays(s) \in Nat BY <1>1, BaseDaysType
  <2>2. Spacing(s, c, m) \in Nat BY <1>1, <1>2, SpacingType
  <2>3. BaseDays(s) + Spacing(s, c, m) \in Nat BY <2>1, <2>2
  <2>4. Halved(BaseDays(s) + Spacing(s, c, m)) \in Nat BY <2>3, HalvedMonotone
  <2> QED BY <2>3, <2>4 DEF Interval
<1> HIDE DEF i
<1> QED BY <1>2, <1>3, <1>4, <1>5

-----------------------------------------------------------------------------
(* The cap *)

\* Math.max(0, Math.ceil(a / b)) is the least natural that times b reaches a.
LEMMA WantedIsLeast ==
    ASSUME NEW a \in Int, NEW b \in Nat \ {0}
    PROVE  /\ Wanted(a, b) \in Nat
           /\ b * Wanted(a, b) >= a
           /\ Wanted(a, b) > 0 => b * (Wanted(a, b) - 1) < a
<1>1. CASE a <= 0
  <2>1. Wanted(a, b) = 0 BY <1>1 DEF Wanted
  <2> QED BY <1>1, <2>1
<1>2. CASE a > 0
  <2> DEFINE q == (-a) \div b
             r == (-a) % b
  <2>1. q \in Int /\ r \in 0..(b - 1) /\ -a = b * q + r OBVIOUS
  <2>2. Wanted(a, b) = -q BY <1>2 DEF Wanted
  <2> HIDE DEF q, r
  <2>3. q < 0
    <3>1. CASE q >= 0
      <4>1. b * q >= 0 BY <2>1, <3>1
      <4> QED BY <4>1, <1>2, <2>1
    <3> QED BY <3>1, <2>1
  <2>4. b * (-q) = -(b * q) /\ b * (-q - 1) = -(b * q) - b BY <2>1
  <2>5. b * (-q) = a + r /\ b * (-q - 1) = a + r - b
    <3>1. b * q \in Int BY <2>1
    <3> QED BY <2>1, <2>4, <3>1
  <2> QED BY <2>1, <2>2, <2>3, <2>5
<1> QED BY <1>1, <1>2

\* One more rewatch reaches b nearer to the goal, and the cap falls by exactly one.
LEMMA WantedCountsDown ==
    ASSUME NEW a \in Int, NEW b \in Nat \ {0}
    PROVE  Wanted(a - b, b) = IF Wanted(a, b) > 0 THEN Wanted(a, b) - 1 ELSE 0
<1> DEFINE k == Wanted(a, b)
           j == Wanted(a - b, b)
<1>1. k \in Nat /\ b * k >= a /\ (k > 0 => b * (k - 1) < a) BY WantedIsLeast
<1>2. j \in Nat /\ b * j >= a - b /\ (j > 0 => b * (j - 1) < a - b)
  <2>1. a - b \in Int OBVIOUS
  <2> QED BY <2>1, WantedIsLeast
<1> HIDE DEF k, j
<1>3. b * (k - 1) = b * k - b /\ b * (k - 2) = b * k - 2 * b
      /\ b * (j + 1) = b * j + b /\ b * (j - 1) = b * j - b
  BY <1>1, <1>2
<1>4. b * k \in Int /\ b * j \in Int BY <1>1, <1>2
<1>5. k <= j + 1
  <2>1. CASE k > j + 1
    <3>1. k - 1 \in Nat /\ j + 1 \in Nat /\ j + 1 <= k - 1 BY <2>1, <1>1, <1>2
    <3>2. b * (j + 1) <= b * (k - 1) BY <3>1, ProductsGrow
    <3>3. b * (k - 1) < a /\ b * (j + 1) >= a BY <2>1, <1>1, <1>2, <1>3, <1>4
    <3> QED BY <3>2, <3>3, <1>3, <1>4
  <2> QED BY <2>1, <1>1, <1>2
<1>6. j > 0 => j <= k - 1
  <2>1. CASE j > 0 /\ j > k - 1
    <3>1. k \in Nat /\ j \in Nat /\ k <= j BY <2>1, <1>1, <1>2
    <3>2. b * k <= b * j BY <3>1, ProductsGrow
    <3>3. b * j < a BY <2>1, <1>2, <1>3, <1>4
    <3> QED BY <3>2, <3>3, <1>1, <1>4
  <2> QED BY <2>1, <1>1, <1>2
<1> QED BY <1>1, <1>2, <1>5, <1>6 DEF k, j

\* "The fewest additional rewatches still needed for rewatches / watches to reach share":
\* with k more rewatches the share is reached, with fewer it is not.
THEOREM ShareCapIsFewest ==
    ASSUME NEW share \in 0..99, NEW watches \in Nat, NEW rewatches \in Nat
    PROVE  LET k == ShareCap(share, watches, rewatches)
           IN  /\ k \in Nat
               /\ 100 * (rewatches + k) >= share * (watches + k)
               /\ k > 0 => 100 * (rewatches + (k - 1)) < share * (watches + (k - 1))
<1> DEFINE a == share * watches - 100 * rewatches
           b == 100 - share
           k == ShareCap(share, watches, rewatches)
<1>1. a \in Int /\ b \in Nat \ {0} /\ share * watches \in Int OBVIOUS
<1>2. k = Wanted(a, b) BY DEF ShareCap
<1>3. k \in Nat /\ b * k >= a /\ (k > 0 => b * (k - 1) < a) BY <1>1, <1>2, WantedIsLeast
<1> HIDE DEF k
<1>4. /\ share * (watches + k) = share * watches + share * k
      /\ share * (watches + (k - 1)) = share * watches + share * (k - 1)
      /\ b * k = 100 * k - share * k
      /\ b * (k - 1) = 100 * (k - 1) - share * (k - 1)
      /\ share * k \in Int /\ share * (k - 1) \in Int
  BY <1>3
<1>5. 100 * (rewatches + k) >= share * (watches + k) BY <1>1, <1>3, <1>4
<1>6. k > 0 => 100 * (rewatches + (k - 1)) < share * (watches + (k - 1)) BY <1>1, <1>3, <1>4
<1> QED BY <1>3, <1>5, <1>6 DEF k

\* A rewatch, which is one more watch and one more rewatch, takes exactly one off the cap,
\* under the share alone and under a pace.
THEOREM RewatchTakesOneOff ==
    ASSUME NEW share \in 0..99, NEW watches \in Nat, NEW rewatches \in Nat, NEW expected \in Nat
    PROVE  LET k == ShareCap(share, watches, rewatches)
               p == PacedCap(share, rewatches, expected)
           IN  /\ ShareCap(share, watches + 1, rewatches + 1) = IF k > 0 THEN k - 1 ELSE 0
               /\ PacedCap(share, rewatches + 1, expected) = IF p > 0 THEN p - 1 ELSE 0
<1> DEFINE a == share * watches - 100 * rewatches
           b == 100 - share
           e == expected * share - 100 * rewatches
<1>1. share * watches \in Int /\ expected * share \in Int OBVIOUS
<1>2. a \in Int /\ b \in Nat \ {0} /\ e \in Int BY <1>1
<1>3. share * (watches + 1) - 100 * (rewatches + 1) = a - b
  <2>1. share * (watches + 1) = share * watches + share OBVIOUS
  <2> QED BY <1>1, <2>1
<1>4. expected * share - 100 * (rewatches + 1) = e - 100 BY <1>1
<1>5. Wanted(a - b, b) = IF Wanted(a, b) > 0 THEN Wanted(a, b) - 1 ELSE 0
  BY <1>2, WantedCountsDown
<1>6. Wanted(e - 100, 100) = IF Wanted(e, 100) > 0 THEN Wanted(e, 100) - 1 ELSE 0
  BY <1>2, WantedCountsDown
<1> QED BY <1>3, <1>4, <1>5, <1>6 DEF ShareCap, PacedCap

-----------------------------------------------------------------------------
(* Finite sums: what MapThenSumSet adds up *)

\* The sum of a function over a set, and the member the fold takes first.
SumOf(F, S) == MapThenSumSet(LAMBDA x : F[x], S)
First(S) == CHOOSE x \in S : TRUE

\* The fold's table of the sums of the subsets of S.
IsTable(F, S, table) ==
    table = [T \in SUBSET S |-> IF T = {} THEN 0 ELSE F[First(T)] + table[T \ {First(T)}]]
Table(F, S) == CHOOSE table : IsTable(F, S, table)

\* A sum is the last entry of that table.
LEMMA SumIsTable ==
    ASSUME NEW F, NEW S
    PROVE  SumOf(F, S) = Table(F, S)[S]
    BY ZenonT(60) DEF SumOf, MapThenSumSet, MapThenFoldSet, Table, IsTable, First

\* The element the fold takes first is one of the set.
LEMMA FirstIsMember ==
    ASSUME NEW S, S # {}
    PROVE  First(S) \in S
    BY DEF First

\* Induction over a finite set: a family of its subsets that holds the empty set, and each
\* set that its strict subsets are all in, holds the set itself.
LEMMA SubsetInduction ==
    ASSUME NEW S, IsFiniteSet(S), NEW Good,
           \A T \in SUBSET S : (\A U \in SUBSET T : U # T => U \in Good) => T \in Good
    PROVE  S \in Good
<1> SUFFICES ASSUME S \notin Good PROVE FALSE OBVIOUS
<1> DEFINE Bad == {T \in SUBSET S : T \notin Good}
<1>1. IsWellFoundedOn(StrictSubsetOrdering(S), FiniteSubsetsOf(S))
  BY FS_StrictSubsetOrderingWellFounded
<1>2. FiniteSubsetsOf(S) = SUBSET S BY FS_FiniteSubsetsOfFinite
<1>3. Bad \subseteq FiniteSubsetsOf(S) /\ Bad # {} BY <1>2
<1> HIDE DEF Bad
<1>4. PICK T \in Bad : \A U \in Bad : <<U, T>> \notin StrictSubsetOrdering(S)
  BY <1>1, <1>3, WFMin
<1> USE DEF Bad
<1>5. ASSUME NEW U \in SUBSET T, U # T PROVE U \in Good
  BY <1>4, <1>5 DEF StrictSubsetOrdering
<1> QED BY <1>4, <1>5

\* Every nonempty set of naturals has a least one.
LEMMA LeastNatural ==
    ASSUME NEW K \in SUBSET Nat, K # {}
    PROVE  \E k \in K : \A j \in K : k <= j
<1>1. PICK k \in K : \A j \in K : <<j, k>> \notin OpToRel(<, Nat)
  BY NatLessThanWellFounded, WFMin
<1>2. \A j \in K : ~(j < k) BY <1>1 DEF OpToRel
<1> QED BY <1>2

\* The fold of a finite set has its table: it is built level by level, on the sets of at
\* most k members.
LEMMA TableExists ==
    ASSUME NEW F, NEW S, IsFiniteSet(S)
    PROVE  IsTable(F, S, Table(F, S))
<1> DEFINE Level(k) == {T \in SUBSET S : Cardinality(T) <= k}
           Entry(g, T) == IF T = {} THEN 0 ELSE F[First(T)] + g[T \ {First(T)}]
           Reached(k) == \E g : g = [T \in Level(k) |-> Entry(g, T)]
           Missed == {k \in Nat : ~Reached(k)}
<1>1. \A T \in SUBSET S : IsFiniteSet(T) /\ Cardinality(T) \in Nat /\ Cardinality(T) <= Cardinality(S)
  BY FS_Subset, FS_CardinalityType
<1>2. \A T \in SUBSET S : T # {} =>
        /\ T \ {First(T)} \in SUBSET S
        /\ Cardinality(T \ {First(T)}) = Cardinality(T) - 1
  BY <1>1, FirstIsMember, FS_RemoveElement
<1>3. Reached(0)
  <2> DEFINE g == [T \in Level(0) |-> 0]
  <2>1. \A T \in Level(0) : T = {} BY <1>1, FS_EmptySet
  <2>2. g = [T \in Level(0) |-> Entry(g, T)] BY <2>1
  <2> QED BY <2>2
<1>4. ASSUME NEW k \in Nat, Reached(k) PROVE Reached(k + 1)
  <2>1. PICK g : g = [T \in Level(k) |-> Entry(g, T)] BY <1>4
  <2> DEFINE h == [T \in Level(k + 1) |-> Entry(g, T)]
  <2>2. \A T \in Level(k + 1) : T # {} => T \ {First(T)} \in Level(k)
    BY <1>1, <1>2
  <2>3. Level(k) \subseteq Level(k + 1) BY <1>1
  <2>4. \A T \in Level(k) : h[T] = g[T] BY <2>1, <2>3
  <2> HIDE DEF Level, h
  <2>5. ASSUME NEW T \in Level(k + 1) PROVE Entry(h, T) = Entry(g, T)
    <3>1. T # {} => h[T \ {First(T)}] = g[T \ {First(T)}] BY <2>2, <2>4
    <3> QED BY <3>1
  <2> HIDE DEF Entry
  <2>6. h = [T \in Level(k + 1) |-> Entry(h, T)] BY <2>5 DEF h
  <2> USE DEF Level, Entry
  <2> QED BY <2>6
<1> HIDE DEF Reached
<1>5. Missed = {}
  <2> SUFFICES ASSUME Missed # {} PROVE FALSE OBVIOUS
  <2>1. PICK k \in Missed : \A j \in Missed : k <= j BY LeastNatural
  <2>2. k # 0 BY <1>3
  <2>3. k - 1 \in Nat /\ k - 1 \notin Missed BY <2>1, <2>2
  <2>4. Reached((k - 1) + 1) BY <2>3, <1>4
  <2>5. (k - 1) + 1 = k OBVIOUS
  <2> QED BY <2>4, <2>5
<1>6. Reached(Cardinality(S)) BY <1>1, <1>5
<1>7. Level(Cardinality(S)) = SUBSET S BY <1>1
<1>8. \E table : IsTable(F, S, table) BY <1>6, <1>7 DEF Reached, IsTable
<1> QED BY <1>8 DEF Table

\* What the table holds.
LEMMA TableEntries ==
    ASSUME NEW F, NEW S, IsFiniteSet(S), NEW T \in SUBSET S
    PROVE  Table(F, S)[T] = IF T = {} THEN 0 ELSE F[First(T)] + Table(F, S)[T \ {First(T)}]
<1> DEFINE table == Table(F, S)
           row(U) == IF U = {} THEN 0 ELSE F[First(U)] + table[U \ {First(U)}]
<1>1. IsTable(F, S, table) BY TableExists
<1> HIDE DEF table
<1>2. table = [U \in SUBSET S |-> row(U)] BY <1>1 DEF IsTable
<1> HIDE DEF row
<1>3. table[T] = row(T) BY <1>2
<1> QED BY <1>3 DEF table, row

\* One table for all subsets: the table of a subset is that of the whole, restricted.
LEMMA TablesAgree ==
    ASSUME NEW F, NEW S, IsFiniteSet(S), NEW T \in SUBSET S
    PROVE  Table(F, T)[T] = Table(F, S)[T]
<1> DEFINE a == Table(F, T)
           b == Table(F, S)
           Good == {U \in SUBSET T : a[U] = b[U]}
<1>1. IsFiniteSet(T) BY FS_Subset
<1>2. \A U \in SUBSET T : a[U] = IF U = {} THEN 0 ELSE F[First(U)] + a[U \ {First(U)}]
  BY <1>1, TableEntries
<1>3. \A U \in SUBSET S : b[U] = IF U = {} THEN 0 ELSE F[First(U)] + b[U \ {First(U)}]
  BY TableEntries
<1> HIDE DEF a, b
<1>4. ASSUME NEW U \in SUBSET T, \A V \in SUBSET U : V # U => V \in Good
      PROVE  U \in Good
  <2>1. CASE U = {} BY <2>1, <1>2, <1>3
  <2>2. CASE U # {}
    <3>1. First(U) \in U BY <2>2, FirstIsMember
    <3>2. U \ {First(U)} \in Good BY <3>1, <1>4
    <3>3. a[U] = F[First(U)] + a[U \ {First(U)}] BY <2>2, <1>2
    <3>4. b[U] = F[First(U)] + b[U \ {First(U)}] BY <2>2, <1>3
    <3> QED BY <3>2, <3>3, <3>4
  <2> QED BY <2>1, <2>2
<1> HIDE DEF Good
<1>5. T \in Good BY <1>1, <1>4, SubsetInduction
<1> QED BY <1>5 DEF Good, a, b

\* The sum of nothing, and of a set without its first member.
LEMMA SumSteps ==
    ASSUME NEW F, NEW S, IsFiniteSet(S)
    PROVE  /\ S = {} => SumOf(F, S) = 0
           /\ S # {} => SumOf(F, S) = F[First(S)] + SumOf(F, S \ {First(S)})
<1>1. \A T \in SUBSET S : SumOf(F, T) = Table(F, S)[T]
  BY TablesAgree, SumIsTable
<1>2. Table(F, S)[S] = IF S = {} THEN 0 ELSE F[First(S)] + Table(F, S)[S \ {First(S)}]
  BY TableEntries
<1> QED BY <1>1, <1>2

\* Functions that agree on a set have the same sum.
LEMMA SumsAgree ==
    ASSUME NEW F, NEW G, NEW S, IsFiniteSet(S), \A x \in S : F[x] = G[x]
    PROVE  SumOf(F, S) = SumOf(G, S)
<1> DEFINE Good == {T \in SUBSET S : SumOf(F, T) = SumOf(G, T)}
<1>1. ASSUME NEW T \in SUBSET S, \A U \in SUBSET T : U # T => U \in Good
      PROVE  T \in Good
  <2>1. IsFiniteSet(T) BY FS_Subset
  <2>2. CASE T = {} BY <2>1, <2>2, SumSteps
  <2>3. CASE T # {}
    <3>1. First(T) \in T BY <2>3, FirstIsMember
    <3>2. T \ {First(T)} \in Good BY <3>1, <1>1
    <3> QED BY <2>1, <2>3, <3>1, <3>2, SumSteps
  <2> QED BY <2>2, <2>3
<1> HIDE DEF Good
<1>2. S \in Good BY <1>1, SubsetInduction
<1> QED BY <1>2 DEF Good

\* A sum of integers, each within bounds, lies within the bounds times the number of them.
LEMMA SumBounds ==
    ASSUME NEW F, NEW S, IsFiniteSet(S), NEW lo \in Int, NEW hi \in Int,
           \A x \in S : F[x] \in Int /\ lo <= F[x] /\ F[x] <= hi
    PROVE  /\ SumOf(F, S) \in Int
           /\ lo * Cardinality(S) <= SumOf(F, S)
           /\ SumOf(F, S) <= hi * Cardinality(S)
<1> DEFINE Bounded(T) == /\ SumOf(F, T) \in Int
                         /\ lo * Cardinality(T) <= SumOf(F, T)
                         /\ SumOf(F, T) <= hi * Cardinality(T)
           Good == {T \in SUBSET S : Bounded(T)}
<1>1. ASSUME NEW T \in SUBSET S, \A U \in SUBSET T : U # T => U \in Good
      PROVE  T \in Good
  <2>1. IsFiniteSet(T) BY FS_Subset
  <2>2. CASE T = {}
    <3>1. Cardinality(T) = 0 /\ SumOf(F, T) = 0 BY <2>1, <2>2, SumSteps, FS_EmptySet
    <3> QED BY <3>1
  <2>3. CASE T # {}
    <3> DEFINE x == First(T)
               U == T \ {x}
    <3>1. x \in T BY <2>3, FirstIsMember
    <3>2. Bounded(U) BY <3>1, <1>1
    <3>3. SumOf(F, T) = F[x] + SumOf(F, U) BY <2>1, <2>3, SumSteps
    <3>4. Cardinality(T) = Cardinality(U) + 1 /\ Cardinality(U) \in Nat
      <4>1. IsFiniteSet(U) /\ Cardinality(U) = Cardinality(T) - 1
        BY <2>1, <3>1, FS_RemoveElement
      <4>2. Cardinality(T) \in Nat /\ Cardinality(U) \in Nat BY <2>1, <4>1, FS_CardinalityType
      <4> QED BY <4>1, <4>2
    <3>5. F[x] \in Int /\ lo <= F[x] /\ F[x] <= hi BY <3>1
    <3> HIDE DEF x, U
    <3>6. \A n \in Nat : /\ lo * (n + 1) = lo * n + lo /\ lo * n \in Int
                         /\ hi * (n + 1) = hi * n + hi /\ hi * n \in Int
      OBVIOUS
    <3> QED BY <3>2, <3>3, <3>4, <3>5, <3>6
  <2> QED BY <2>2, <2>3
<1> HIDE DEF Good
<1>2. S \in Good BY <1>1, SubsetInduction
<1> QED BY <1>2 DEF Good

\* A sum of naturals is one.
LEMMA SumOfNaturals ==
    ASSUME NEW F, NEW S, IsFiniteSet(S), \A x \in S : F[x] \in Nat
    PROVE  SumOf(F, S) \in Nat
<1> DEFINE Good == {T \in SUBSET S : SumOf(F, T) \in Nat}
<1>1. ASSUME NEW T \in SUBSET S, \A U \in SUBSET T : U # T => U \in Good
      PROVE  T \in Good
  <2>1. IsFiniteSet(T) BY FS_Subset
  <2>2. CASE T = {}
    <3>1. SumOf(F, T) = 0 BY <2>1, <2>2, SumSteps
    <3> QED BY <3>1
  <2>3. CASE T # {}
    <3>1. First(T) \in T BY <2>3, FirstIsMember
    <3>2. SumOf(F, T \ {First(T)}) \in Nat BY <3>1, <1>1
    <3> QED BY <2>1, <2>3, <3>1, <3>2, SumSteps
  <2> QED BY <2>2, <2>3
<1> HIDE DEF Good
<1>2. S \in Good BY <1>1, SubsetInduction
<1> QED BY <1>2 DEF Good

\* Sums add up term by term.
LEMMA SumOfSums ==
    ASSUME NEW F, NEW G, NEW H, NEW S, IsFiniteSet(S),
           \A x \in S : F[x] \in Nat /\ G[x] \in Nat /\ H[x] = F[x] + G[x]
    PROVE  SumOf(H, S) = SumOf(F, S) + SumOf(G, S)
<1> DEFINE Good == {T \in SUBSET S : SumOf(H, T) = SumOf(F, T) + SumOf(G, T)}
<1>0. \A T \in SUBSET S : IsFiniteSet(T) /\ SumOf(F, T) \in Nat /\ SumOf(G, T) \in Nat
  BY FS_Subset, SumOfNaturals
<1>1. ASSUME NEW T \in SUBSET S, \A U \in SUBSET T : U # T => U \in Good
      PROVE  T \in Good
  <2>1. CASE T = {}
    <3>1. SumOf(F, T) = 0 /\ SumOf(G, T) = 0 /\ SumOf(H, T) = 0 BY <1>0, <2>1, SumSteps
    <3> QED BY <3>1
  <2>2. CASE T # {}
    <3> DEFINE x == First(T)
               U == T \ {x}
    <3>1. x \in T /\ U \in SUBSET T /\ U # T BY <2>2, FirstIsMember
    <3>2. /\ SumOf(F, T) = F[x] + SumOf(F, U)
          /\ SumOf(G, T) = G[x] + SumOf(G, U)
          /\ SumOf(H, T) = H[x] + SumOf(H, U)
      BY <1>0, <2>2, SumSteps
    <3> HIDE DEF x, U
    <3>3. SumOf(H, U) = SumOf(F, U) + SumOf(G, U) BY <3>1, <1>1
    <3>4. SumOf(F, U) \in Nat /\ SumOf(G, U) \in Nat BY <3>1, <1>0
    <3>5. F[x] \in Nat /\ G[x] \in Nat /\ H[x] = F[x] + G[x] BY <3>1
    <3> QED BY <3>2, <3>3, <3>4, <3>5
  <2> QED BY <2>1, <2>2
<1> HIDE DEF Good
<1>2. S \in Good BY <1>1, SubsetInduction
<1> QED BY <1>2 DEF Good

\* Any member may be taken first.
LEMMA SumWithout ==
    ASSUME NEW F, NEW S, IsFiniteSet(S), \A x \in S : F[x] \in Nat, NEW e \in S
    PROVE  SumOf(F, S) = F[e] + SumOf(F, S \ {e})
<1> DEFINE Good == {T \in SUBSET S : \A x \in T : SumOf(F, T) = F[x] + SumOf(F, T \ {x})}
<1>0. \A T \in SUBSET S : IsFiniteSet(T) /\ SumOf(F, T) \in Nat BY FS_Subset, SumOfNaturals
<1>1. ASSUME NEW T \in SUBSET S, \A U \in SUBSET T : U # T => U \in Good
      PROVE  T \in Good
  <2> SUFFICES ASSUME NEW x \in T PROVE SumOf(F, T) = F[x] + SumOf(F, T \ {x}) OBVIOUS
  <2> DEFINE f == First(T)
  <2>1. f \in T BY FirstIsMember
  <2>2. SumOf(F, T) = F[f] + SumOf(F, T \ {f}) BY <1>0, SumSteps
  <2>3. CASE x = f BY <2>2, <2>3
  <2>4. CASE x # f
    <3> HIDE DEF f
    <3>1. SumOf(F, T \ {f}) = F[x] + SumOf(F, (T \ {f}) \ {x}) BY <2>1, <2>4, <1>1
    <3>2. SumOf(F, T \ {x}) = F[f] + SumOf(F, (T \ {x}) \ {f}) BY <2>1, <2>4, <1>1
    <3>3. (T \ {f}) \ {x} = (T \ {x}) \ {f} OBVIOUS
    <3>4. F[x] \in Nat /\ F[f] \in Nat /\ SumOf(F, (T \ {f}) \ {x}) \in Nat BY <1>0, <2>1
    <3> QED BY <2>2, <3>1, <3>2, <3>3, <3>4
  <2> QED BY <2>3, <2>4
<1> HIDE DEF Good
<1>2. S \in Good BY <1>1, SubsetInduction
<1> QED BY <1>2 DEF Good

\* The sum of a set falls apart along any two parts of it.
LEMMA SumOfParts ==
    ASSUME NEW F, NEW S, IsFiniteSet(S), \A x \in S : F[x] \in Nat,
           NEW A \in SUBSET S
    PROVE  SumOf(F, S) = SumOf(F, A) + SumOf(F, S \ A)
<1> DEFINE Good == {T \in SUBSET A : SumOf(F, (S \ A) \cup T) = SumOf(F, T) + SumOf(F, S \ A)}
<1>0. \A T \in SUBSET S : IsFiniteSet(T) /\ SumOf(F, T) \in Nat BY FS_Subset, SumOfNaturals
<1>1. ASSUME NEW T \in SUBSET A, \A U \in SUBSET T : U # T => U \in Good
      PROVE  T \in Good
  <2>1. CASE T = {}
    <3>1. (S \ A) \cup T = S \ A BY <2>1
    <3>2. SumOf(F, (S \ A) \cup T) = SumOf(F, S \ A) BY <3>1
    <3>3. SumOf(F, T) = 0 BY <1>0, <2>1, SumSteps
    <3>4. SumOf(F, S \ A) \in Nat BY <1>0
    <3> QED BY <3>2, <3>3, <3>4
  <2>2. CASE T # {}
    <3>1. PICK x : x \in T BY <2>2
    <3> DEFINE U == T \ {x}
    <3>2. SumOf(F, (S \ A) \cup U) = SumOf(F, U) + SumOf(F, S \ A) BY <3>1, <1>1
    <3>3. SumOf(F, T) = F[x] + SumOf(F, U) BY <1>0, <3>1, SumWithout
    <3>4. ((S \ A) \cup T) \ {x} = (S \ A) \cup U BY <3>1
    <3>5. SumOf(F, (S \ A) \cup T) = F[x] + SumOf(F, (S \ A) \cup U)
      <4>1. (S \ A) \cup T \in SUBSET S /\ x \in (S \ A) \cup T BY <3>1
      <4> QED BY <1>0, <3>4, <4>1, SumWithout
    <3>6. F[x] \in Nat /\ SumOf(F, U) \in Nat /\ SumOf(F, S \ A) \in Nat BY <1>0, <3>1
    <3> QED BY <3>2, <3>3, <3>5, <3>6
  <2> QED BY <2>1, <2>2
<1> HIDE DEF Good
<1>2. A \in Good
  <2>1. IsFiniteSet(A) BY <1>0
  <2> QED BY <1>1, <2>1, SubsetInduction
<1>3. (S \ A) \cup A = S OBVIOUS
<1>4. SumOf(F, (S \ A) \cup A) = SumOf(F, A) + SumOf(F, S \ A) BY <1>2 DEF Good
<1> QED BY <1>3, <1>4

\* The members of S with key k.
ClassOf(key, S, k) == {x \in S : key[x] = k}

\* Sorted by a key, the sums of the classes add up to the sum of the whole.
LEMMA SumOfClasses ==
    ASSUME NEW F, NEW S, IsFiniteSet(S), \A x \in S : F[x] \in Nat,
           NEW K, IsFiniteSet(K), NEW key \in [S -> K],
           NEW G, \A k \in K : G[k] = SumOf(F, ClassOf(key, S, k))
    PROVE  SumOf(G, K) = SumOf(F, S)
<1> DEFINE Class(J) == {x \in S : key[x] \in J}
           Good == {J \in SUBSET K : SumOf(G, J) = SumOf(F, Class(J))}
<1>0. \A T \in SUBSET S : IsFiniteSet(T) /\ SumOf(F, T) \in Nat BY FS_Subset, SumOfNaturals
<1>1. ASSUME NEW J \in SUBSET K, \A I \in SUBSET J : I # J => I \in Good
      PROVE  J \in Good
  <2>0. IsFiniteSet(J) BY FS_Subset
  <2>1. CASE J = {}
    <3>1. Class(J) = {} BY <2>1
    <3>2. SumOf(F, {}) = 0 BY <1>0, SumSteps
    <3>3. SumOf(G, J) = 0 BY <2>0, <2>1, SumSteps
    <3> QED BY <3>1, <3>2, <3>3
  <2>2. CASE J # {}
    <3> DEFINE k == First(J)
               I == J \ {k}
    <3>1. k \in J BY <2>2, FirstIsMember
    <3>2. SumOf(G, J) = G[k] + SumOf(G, I) BY <2>0, <2>2, SumSteps
    <3> HIDE DEF k
    <3>3. SumOf(G, I) = SumOf(F, Class(I)) BY <3>1, <1>1
    <3>4. G[k] = SumOf(F, Class({k}))
      <4>1. Class({k}) = ClassOf(key, S, k) BY DEF ClassOf
      <4> QED BY <3>1, <4>1
    <3>5. Class({k}) \in SUBSET Class(J) /\ Class(J) \ Class({k}) = Class(I) BY <3>1
    <3>6. SumOf(F, Class(J)) = SumOf(F, Class({k})) + SumOf(F, Class(I))
      <4>1. IsFiniteSet(Class(J)) /\ \A x \in Class(J) : F[x] \in Nat BY <1>0
      <4>2. SumOf(F, Class(J)) = SumOf(F, Class({k})) + SumOf(F, Class(J) \ Class({k}))
        <5> DEFINE whole == Class(J)
                   part == Class({k})
        <5>1. IsFiniteSet(whole) /\ (\A x \in whole : F[x] \in Nat) /\ part \in SUBSET whole
          BY <3>5, <4>1
        <5> HIDE DEF whole, part
        <5>2. SumOf(F, whole) = SumOf(F, part) + SumOf(F, whole \ part) BY <5>1, SumOfParts
        <5> QED BY <5>2 DEF whole, part
      <4>3. Class(J) \ Class({k}) = Class(I) BY <3>5
      <4> HIDE DEF Class
      <4> QED BY <4>2, <4>3
    <3>7. SumOf(G, J) = SumOf(F, Class(J))
      <4> HIDE DEF Class, I
      <4> QED BY <3>2, <3>3, <3>4, <3>6
    <3> QED BY <3>7
  <2> QED BY <2>1, <2>2
<1> HIDE DEF Good
<1>2. K \in Good BY <1>1, SubsetInduction
<1>3. Class(K) = S OBVIOUS
<1> HIDE DEF Class
<1> QED BY <1>2, <1>3 DEF Good

\* A set has as many members as its classes together.
LEMMA SizeIsSum ==
    ASSUME NEW S, IsFiniteSet(S)
    PROVE  SumOf([x \in S |-> 1], S) = Cardinality(S)
<1> DEFINE F == [x \in S |-> 1]
<1>1. \A x \in S : F[x] \in Int /\ 1 <= F[x] /\ F[x] <= 1 OBVIOUS
<1>2. Cardinality(S) \in Nat BY FS_CardinalityType
<1> HIDE DEF F
<1>3. SumOf(F, S) \in Int /\ 1 * Cardinality(S) <= SumOf(F, S) /\ SumOf(F, S) <= 1 * Cardinality(S)
  BY <1>1, SumBounds
<1> QED BY <1>2, <1>3 DEF F

\* The sizes of the classes of a key add up to the size of the set.
LEMMA SizeOfClasses ==
    ASSUME NEW S, IsFiniteSet(S), NEW K, IsFiniteSet(K), NEW key \in [S -> K],
           NEW G, \A k \in K : G[k] = Cardinality(ClassOf(key, S, k))
    PROVE  SumOf(G, K) = Cardinality(S)
<1> DEFINE F == [x \in S |-> 1]
<1>1. ASSUME NEW T \in SUBSET S PROVE SumOf(F, T) = Cardinality(T)
  <2>1. IsFiniteSet(T) BY FS_Subset
  <2>2. SumOf(F, T) = SumOf([x \in T |-> 1], T) BY <2>1, SumsAgree
  <2> QED BY <2>1, <2>2, SizeIsSum
<1>2. \A x \in S : F[x] \in Nat OBVIOUS
<1> HIDE DEF F
<1>3. \A k \in K : G[k] = SumOf(F, ClassOf(key, S, k)) BY <1>1 DEF ClassOf
<1>4. SumOf(G, K) = SumOf(F, S) BY <1>2, <1>3, SumOfClasses
<1> QED BY <1>1, <1>4

-----------------------------------------------------------------------------
(* Least and greatest members, and ranks *)

\* Min of a set of naturals, or of naturals and one integer below them all, is its least.
LEMMA MinOfNaturals ==
    ASSUME NEW S \in SUBSET Nat, S # {}
    PROVE  Min(S) \in S /\ \A x \in S : Min(S) <= x
<1>1. \E x \in S : \A y \in S : x <= y BY LeastNatural
<1> QED BY <1>1 DEF Min

\* Max and Min of a finite set of integers are members of it.
LEMMA Extremes ==
    ASSUME NEW S \in SUBSET Int, IsFiniteSet(S), S # {}
    PROVE  /\ Max(S) \in S /\ \A x \in S : x <= Max(S)
           /\ Min(S) \in S /\ \A x \in S : Min(S) <= x
<1> DEFINE HasBoth(T) == /\ \E x \in T : \A y \in T : x >= y
                         /\ \E x \in T : \A y \in T : x <= y
           Good == {T \in SUBSET S : T # {} => HasBoth(T)}
<1>1. ASSUME NEW T \in SUBSET S, \A U \in SUBSET T : U # T => U \in Good
      PROVE  T \in Good
  <2> SUFFICES ASSUME T # {} PROVE HasBoth(T) OBVIOUS
  <2>1. PICK e : e \in T OBVIOUS
  <2> DEFINE U == T \ {e}
  <2>2. U \in Good BY <2>1, <1>1
  <2>3. CASE U = {}
    <3>1. T = {e} BY <2>1, <2>3
    <3> QED BY <3>1
  <2>4. CASE U # {}
    <3>1. PICK hi \in U : \A y \in U : hi >= y BY <2>2, <2>4
    <3>2. PICK lo \in U : \A y \in U : lo <= y BY <2>2, <2>4
    <3>3. e \in Int /\ hi \in Int /\ lo \in Int BY <2>1
    <3>4. \A y \in T : y \in Int /\ (y = e \/ y \in U) OBVIOUS
    <3>5. \E x \in T : \A y \in T : x >= y
      <4>1. CASE e >= hi
        <5>1. \A y \in T : e >= y BY <3>1, <3>3, <3>4, <4>1
        <5> QED BY <2>1, <5>1
      <4>2. CASE ~(e >= hi)
        <5>1. \A y \in T : hi >= y BY <3>1, <3>3, <3>4, <4>2
        <5> QED BY <3>1, <5>1
      <4> QED BY <4>1, <4>2
    <3>6. \E x \in T : \A y \in T : x <= y
      <4>1. CASE e <= lo
        <5>1. \A y \in T : e <= y BY <3>2, <3>3, <3>4, <4>1
        <5> QED BY <2>1, <5>1
      <4>2. CASE ~(e <= lo)
        <5>1. \A y \in T : lo <= y BY <3>2, <3>3, <3>4, <4>2
        <5> QED BY <3>2, <5>1
      <4> QED BY <4>1, <4>2
    <3> QED BY <3>5, <3>6
  <2> QED BY <2>3, <2>4
<1> HIDE DEF Good
<1>2. S \in Good BY <1>1, SubsetInduction
<1>3. HasBoth(S) BY <1>2 DEF Good
<1>4. Max(S) \in S /\ \A x \in S : Max(S) >= x BY <1>3 DEF Max
<1>5. Min(S) \in S /\ \A x \in S : Min(S) <= x BY <1>3 DEF Min
<1> QED BY <1>4, <1>5

\* The image of a finite set is finite.
LEMMA FiniteImage ==
    ASSUME NEW S, IsFiniteSet(S), NEW F
    PROVE  /\ IsFiniteSet({F[x] : x \in S})
           /\ Cardinality({F[x] : x \in S}) <= Cardinality(S)
<1> DEFINE T == {F[x] : x \in S}
           f == [x \in S |-> F[x]]
<1>1. f \in Surjection(S, T) BY DEF Surjection
<1> QED BY <1>1, FS_Surjection

-----------------------------------------------------------------------------
(* The order of the due-list *)

\* Each member of S has one of the first places, each of those places one member of S.
PlacesAll(S, place) ==
    /\ \A x \in S : place[x] \in 1..Cardinality(S)
    /\ \A n \in 1..Cardinality(S) : \E x \in S : place[x] = n
    /\ \A x, y \in S : place[x] = place[y] => x = y

\* The place of a member: one past the members before it.
PlaceBy(before, S) == [x \in S |-> Cardinality({y \in S : <<y, x>> \in before}) + 1]

\* Counting the members before each gives all of a finite ordered set a place, in that order.
LEMMA PlacesDiffer ==
    ASSUME NEW S, IsFiniteSet(S), NEW before,
           \A x \in S : <<x, x>> \notin before,
           \A x, y, z \in S : <<x, y>> \in before /\ <<y, z>> \in before => <<x, z>> \in before,
           \A x, y \in S : x # y => <<x, y>> \in before \/ <<y, x>> \in before
    PROVE  /\ PlacesAll(S, PlaceBy(before, S))
           /\ \A x, y \in S : <<x, y>> \in before
                              <=> PlaceBy(before, S)[x] < PlaceBy(before, S)[y]
<1> DEFINE place == PlaceBy(before, S)
           InFront(x) == {y \in S : <<y, x>> \in before}
<1>1. \A x \in S : IsFiniteSet(InFront(x)) /\ Cardinality(InFront(x)) \in Nat
  BY FS_Subset, FS_CardinalityType
<1>2. Cardinality(S) \in Nat BY FS_CardinalityType
<1>3. ASSUME NEW x \in S, NEW T \in SUBSET S, InFront(x) \subseteq T, x \in T
      PROVE  Cardinality(InFront(x)) < Cardinality(T)
  <2>1. x \notin InFront(x) OBVIOUS
  <2>2. IsFiniteSet(T) BY FS_Subset
  <2> HIDE DEF InFront
  <2>3. InFront(x) \in SUBSET T /\ T # InFront(x) BY <1>3, <2>1
  <2>4. Cardinality(InFront(x)) <= Cardinality(T) /\ Cardinality(T) # Cardinality(InFront(x))
    BY <2>2, <2>3, FS_Subset
  <2>5. Cardinality(T) \in Nat BY <2>2, FS_CardinalityType
  <2> QED BY <1>1, <2>4, <2>5
<1>4. ASSUME NEW x \in S, NEW y \in S, <<x, y>> \in before
      PROVE  Cardinality(InFront(x)) < Cardinality(InFront(y))
  <2>1. InFront(x) \subseteq InFront(y) /\ x \in InFront(y) /\ InFront(y) \in SUBSET S BY <1>4
  <2> HIDE DEF InFront
  <2> QED BY <2>1, <1>3
<1>5. place = [x \in S |-> Cardinality(InFront(x)) + 1] BY DEF PlaceBy
<1>6. \A x \in S : place[x] \in 1..Cardinality(S)
  <2> TAKE x \in S
  <2>1. InFront(x) \subseteq S OBVIOUS
  <2> HIDE DEF InFront
  <2>2. Cardinality(InFront(x)) < Cardinality(S) BY <2>1, <1>3
  <2> QED BY <2>2, <1>1, <1>2, <1>5
<1> HIDE DEF InFront, place
<1>7. ASSUME NEW x \in S, NEW y \in S, x # y PROVE place[x] # place[y]
  <2>1. <<x, y>> \in before \/ <<y, x>> \in before BY <1>7
  <2>2. Cardinality(InFront(x)) # Cardinality(InFront(y)) BY <2>1, <1>1, <1>4
  <2> QED BY <2>2, <1>1, <1>5
<1>8. place \in Injection(S, 1..Cardinality(S))
  <2>0. place = [x \in S |-> place[x]] BY <1>5
  <2>1. place \in [S -> 1..Cardinality(S)] BY <1>6, <2>0
  <2>2. DOMAIN place = S BY <2>1
  <2>3. IsInjective(place) BY <2>2, <1>7 DEF IsInjective
  <2> QED BY <2>1, <2>3 DEF Injection
<1>9. IsFiniteSet(1..Cardinality(S)) /\ Cardinality(1..Cardinality(S)) = Cardinality(S)
  BY <1>2, FS_Interval
<1>10. place \in Surjection(S, 1..Cardinality(S)) BY <1>8, <1>9, FS_Injection
<1>11. PlacesAll(S, place) BY <1>6, <1>7, <1>10 DEF Surjection, PlacesAll
<1>12. ASSUME NEW x \in S, NEW y \in S
       PROVE  <<x, y>> \in before <=> place[x] < place[y]
  <2>1. \A u, v \in S : <<u, v>> \in before => place[u] < place[v] BY <1>1, <1>4, <1>5
  <2>2. place[x] \in Int /\ place[y] \in Int BY <1>6
  <2>3. CASE <<x, y>> \in before BY <2>1, <2>3
  <2>4. CASE <<x, y>> \notin before
    <3>1. x = y \/ <<y, x>> \in before BY <2>4
    <3>2. x = y \/ place[y] < place[x] BY <2>1, <3>1
    <3> QED BY <2>2, <2>4, <3>2
  <2> QED BY <2>3, <2>4
<1> QED BY <1>11, <1>12 DEF place

\* The due-list holds films that are due, and each of them.
LEMMA DueListMembers ==
    ASSUME NEW inputs, NEW day \in Int, IsFiniteSet(DOMAIN inputs), DOMAIN inputs \subseteq Nat,
           \A f \in DOMAIN inputs : due_date(inputs[f]) \in Int
    PROVE  /\ ToSet(suggest(inputs, day)) = {f \in DOMAIN inputs : IsDue(inputs[f], day)}
           /\ suggest(inputs, day) \in Seq(DOMAIN inputs)
<1> DEFINE S == {f \in DOMAIN inputs : IsDue(inputs[f], day)}
           Before(f, g) == \/ due_date(inputs[f]) < due_date(inputs[g])
                           \/ due_date(inputs[f]) = due_date(inputs[g]) /\ f < g
           before == {fg \in S \X S : Before(fg[1], fg[2])}
           place == [x \in S |-> Cardinality({y \in S : Before(y, x)}) + 1]
           list == [i \in 1..Cardinality(S) |-> CHOOSE x \in S : place[x] = i]
<1>1. suggest(inputs, day) = list BY DEF suggest, Ranked
<1>2. IsFiniteSet(S) BY FS_Subset
<1>3. \A f \in S : f \in Nat /\ due_date(inputs[f]) \in Int OBVIOUS
<1>4. \A f, g \in S : <<f, g>> \in before <=> Before(f, g) OBVIOUS
<1>5. place = PlaceBy(before, S)
  <2>1. \A x \in S : {y \in S : Before(y, x)} = {y \in S : <<y, x>> \in before} BY <1>4
  <2> QED BY <2>1 DEF PlaceBy
<1>6. \A x \in S : ~Before(x, x) BY <1>3
<1>7. \A x, y, z \in S : Before(x, y) /\ Before(y, z) => Before(x, z) BY <1>3
<1>8. \A x, y \in S : x # y => Before(x, y) \/ Before(y, x) BY <1>3
<1> HIDE DEF Before, before, S, place
<1>9. PlacesAll(S, place)
  <2>1. \A x \in S : <<x, x>> \notin before BY <1>4, <1>6
  <2>2. \A x, y, z \in S : <<x, y>> \in before /\ <<y, z>> \in before => <<x, z>> \in before
    BY <1>4, <1>7
  <2>3. \A x, y \in S : x # y => <<x, y>> \in before \/ <<y, x>> \in before BY <1>4, <1>8
  <2> QED BY <1>2, <1>5, <2>1, <2>2, <2>3, PlacesDiffer
<1>10. \A i \in 1..Cardinality(S) : list[i] \in S /\ place[list[i]] = i BY <1>9 DEF PlacesAll
<1>11. DOMAIN list = 1..Cardinality(S) OBVIOUS
<1> HIDE DEF list
<1>12. ToSet(list) \subseteq S BY <1>10, <1>11 DEF ToSet
<1>13. S \subseteq ToSet(list)
  <2> SUFFICES ASSUME NEW x \in S PROVE x \in ToSet(list) OBVIOUS
  <2>1. ToSet(list) = {list[i] : i \in 1..Cardinality(S)} BY <1>11 DEF ToSet
  <2>2. place[x] \in 1..Cardinality(S) BY <1>9 DEF PlacesAll
  <2>3. list[place[x]] = x BY <1>9, <1>10, <2>2 DEF PlacesAll
  <2> QED BY <2>1, <2>2, <2>3
<1>14. list \in Seq(DOMAIN inputs)
  <2> DEFINE n == Cardinality(S)
  <2>1. n \in Nat BY <1>2, FS_CardinalityType
  <2>2. \A i \in 1..n : list[i] \in DOMAIN inputs BY <1>10 DEF S
  <2>3. list = [i \in 1..n |-> list[i]] BY DEF list
  <2> HIDE DEF n
  <2> QED BY <2>1, <2>2, <2>3
<1> QED BY <1>1, <1>12, <1>13, <1>14 DEF S

-----------------------------------------------------------------------------
(* The library *)

\* The days and values of watches are numbers.
LEMMA WatchesTyped ==
    ASSUME NEW w \in Watch
    PROVE  /\ w.day \in Int
           /\ w.day # EARLIER_WATCH_DATE => w.day \in Nat
           /\ w.value # Unscored => w.value \in 1..10
<1>1. w.day \in Dates \cup {EARLIER_WATCH_DATE} /\ w.value \in Scores \cup {Unscored}
  BY DEF Watch
<1>2. Dates \subseteq Nat /\ Scores \subseteq 1..10 BY DueListAssumption
<1>3. EARLIER_WATCH_DATE \in Int BY DEF EARLIER_WATCH_DATE
<1>4. w.day # EARLIER_WATCH_DATE => w.day \in Nat BY <1>1, <1>2
<1>6. w.day \in Int BY <1>3, <1>4
<1>5. w.value # Unscored => w.value \in 1..10 BY <1>1, <1>2
<1> QED BY <1>4, <1>5, <1>6

\* An append lengthens a sequence by its last element.
LEMMA Appended ==
    ASSUME NEW T, NEW s \in Seq(T), NEW x \in T
    PROVE  /\ Append(s, x) \in Seq(T) /\ Append(s, x) # <<>>
           /\ Len(Append(s, x)) = Len(s) + 1
           /\ \A i \in 1..Len(s) : Append(s, x)[i] = s[i]
           /\ Append(s, x)[Len(s) + 1] = x
    OBVIOUS

\* A removal shortens it by one.
LEMMA Removed ==
    ASSUME NEW T, NEW s \in Seq(T), NEW i \in 1..Len(s)
    PROVE  /\ RemoveAt(s, i) \in Seq(T)
           /\ Len(RemoveAt(s, i)) = Len(s) - 1
<1>1. SubSeq(s, 1, i - 1) \in Seq(T) /\ Len(SubSeq(s, 1, i - 1)) = i - 1 OBVIOUS
<1>2. SubSeq(s, i + 1, Len(s)) \in Seq(T) /\ Len(SubSeq(s, i + 1, Len(s))) = Len(s) - i OBVIOUS
<1> DEFINE a == SubSeq(s, 1, i - 1)
           b == SubSeq(s, i + 1, Len(s))
<1> HIDE DEF a, b
<1>3. a \in Seq(T) /\ b \in Seq(T) /\ Len(a) = i - 1 /\ Len(b) = Len(s) - i
  BY <1>1, <1>2 DEF a, b
<1>4. a \o b \in Seq(T) /\ Len(a \o b) = Len(a) + Len(b) BY <1>3
<1>5. RemoveAt(s, i) = a \o b BY DEF RemoveAt, a, b
<1>6. Len(s) \in Nat /\ i \in Nat OBVIOUS
<1>7. Len(a) + Len(b) = Len(s) - 1 BY <1>3, <1>6
<1> QED BY <1>4, <1>5, <1>7

\* Every step keeps the types, and the marks go with the film.
LEMMA DueListTypeStep ==
    ASSUME TypeOK, [Next]_vars
    PROVE  TypeOK'
<1> USE DEF TypeOK, Library
<1>1. CASE UNCHANGED vars BY <1>1 DEF vars
<1>2. CASE Tick BY <1>2 DEF Tick
<1>3. ASSUME NEW f \in Films, NEW w \in Watch, LogWatch(f, w) PROVE TypeOK'
  <2>1. Append(history[f], w) \in Seq(Watch) /\ Append(history[f], w) # <<>> BY Appended
  <2> QED BY <1>3, <2>1 DEF LogWatch
<1>4. ASSUME NEW f \in Films, NEW i \in DOMAIN history[f], DeleteWatch(f, i) PROVE TypeOK'
  <2>1. history[f] \in Seq(Watch) /\ i \in 1..Len(history[f]) OBVIOUS
  <2>2. /\ RemoveAt(history[f], i) \in Seq(Watch)
        /\ Len(RemoveAt(history[f], i)) = Len(history[f]) - 1
    BY <2>1, Removed
  <2>3. RemoveAt(history[f], i) = <<>> => Len(history[f]) = 1 BY <2>1, <2>2
  <2>4. history[f] # <<>> BY <2>1
  <2>5. NoMarks \in Marks BY DueListAssumption DEF NoMarks, Marks
  <2> QED BY <1>4, <2>2, <2>3, <2>4, <2>5 DEF DeleteWatch, MarksAfterDelete
<1>5. ASSUME NEW f \in Films, NEW m \in Marks, EditFilm(f, m) PROVE TypeOK'
  BY <1>5 DEF EditFilm
<1> QED BY <1>1, <1>2, <1>3, <1>4, <1>5 DEF Next

\* The empty history has its type.
LEMMA DueListTypeInit == Init => TypeOK
<1>1. Min(Dates) \in Dates BY DueListAssumption, MinOfNaturals
<1>2. NoMarks \in Marks BY DueListAssumption DEF NoMarks, Marks
<1> QED BY <1>1, <1>2 DEF Init, TypeOK, Library

\* Every watch, mark and date has its type, and what is left of a film that goes with its
\* last watch is nothing.
THEOREM DueListTyped == Spec => []TypeOK
<1>1. TypeOK /\ [Next]_vars => TypeOK' BY DueListTypeStep
<1> QED BY <1>1, DueListTypeInit, PTL DEF Spec

-----------------------------------------------------------------------------
(* What is computed from the library *)

\* The input of a film in the library is one the algorithm is defined for, and its last
\* watch is no earlier than any of its watches.
LEMMA InputTyped ==
    ASSUME TypeOK, NEW f \in Library
    PROVE  /\ collect_input(f) \in RewatchInput
           /\ WellRated(collect_input(f))
           /\ \A i \in DOMAIN history[f] : history[f][i].day <= collect_input(f).last_watched_date
<1> DEFINE h == history[f]
           days == {h[i].day : i \in DOMAIN h}
           scores == [i \in ScoredOf(h) |-> h[i].value]
           sum == MapThenSumSet(LAMBDA i : h[i].value, ScoredOf(h))
           item == collect_input(f)
<1>1. f \in Films /\ h \in Seq(Watch) /\ h # <<>> /\ marks[f] \in Marks BY DEF TypeOK, Library
<1>2. DOMAIN h = 1..Len(h) /\ Len(h) \in Nat /\ Len(h) # 0 /\ IsFiniteSet(DOMAIN h)
  <2>1. DOMAIN h = 1..Len(h) /\ Len(h) \in Nat /\ Len(h) # 0 BY <1>1
  <2> DEFINE n == Len(h)
  <2>2. n \in Int /\ 1 \in Int BY <2>1
  <2> HIDE DEF n
  <2>3. IsFiniteSet(1..n) BY <2>2, FS_Interval
  <2> QED BY <2>1, <2>3 DEF n
<1>3. \A i \in DOMAIN h : h[i] \in Watch BY <1>1
<1>4. days \in SUBSET Int /\ days # {}
  <2>1. \A i \in DOMAIN h : h[i].day \in Int BY <1>3, WatchesTyped
  <2>2. 1 \in DOMAIN h BY <1>2
  <2> QED BY <2>1, <2>2
<1>5. IsFiniteSet(days)
  <2> DEFINE F == [i \in DOMAIN h |-> h[i].day]
  <2>1. days = {F[i] : i \in DOMAIN h} OBVIOUS
  <2> HIDE DEF F
  <2>2. IsFiniteSet({F[i] : i \in DOMAIN h}) BY <1>2, FiniteImage
  <2> QED BY <2>1, <2>2
<1>6. Max(days) \in Int /\ \A d \in days : d <= Max(days)
  <2> HIDE DEF days
  <2> QED BY <1>4, <1>5, Extremes
<1>7. /\ IsFiniteSet(ScoredOf(h)) /\ Cardinality(ScoredOf(h)) \in Nat
      /\ \A i \in ScoredOf(h) : scores[i] \in 1..10
  <2>1. ScoredOf(h) \in SUBSET DOMAIN h BY DEF ScoredOf
  <2>2. \A i \in ScoredOf(h) : h[i].value \in 1..10 BY <1>3, WatchesTyped DEF ScoredOf
  <2> QED BY <2>1, <2>2, <1>2, FS_Subset, FS_CardinalityType
<1>8. sum = SumOf(scores, ScoredOf(h))
  BY ZenonT(60) DEF SumOf, MapThenSumSet, MapThenFoldSet
<1>9. /\ sum \in Int /\ 1 * Cardinality(ScoredOf(h)) <= sum
      /\ sum <= 10 * Cardinality(ScoredOf(h))
  <2> HIDE DEF scores, sum
  <2>1. \A i \in ScoredOf(h) : scores[i] \in Int /\ 1 <= scores[i] /\ scores[i] <= 10 BY <1>7
  <2> DEFINE own == ScoredOf(h)
  <2>2. IsFiniteSet(own) BY <1>7
  <2> HIDE DEF own, h
  <2>3. /\ SumOf(scores, own) \in Int /\ 1 * Cardinality(own) <= SumOf(scores, own)
        /\ SumOf(scores, own) <= 10 * Cardinality(own)
    BY <2>1, <2>2, SumBounds DEF own
  <2> QED BY <1>8, <2>3 DEF own
<1>10. item = [half_stars |-> sum, rated |-> Cardinality(ScoredOf(h)), watch_count |-> Len(h),
               last_watched_date |-> Max(days), is_favorite |-> marks[f].is_favorite,
               delay_days |-> marks[f].delay_days,
               runtime_minutes |-> FilmData[f].runtime_minutes]
  BY DEF collect_input, LastWatched
<1> HIDE DEF h, days, sum, item
<1>11. FilmData[f].runtime_minutes \in Nat /\ marks[f].delay_days \in Nat
       /\ marks[f].is_favorite \in BOOLEAN
  BY <1>1, DueListAssumption DEF Marks
<1>12. item \in RewatchInput
  <2>1. sum \in Nat BY <1>7, <1>9
  <2> QED BY <1>2, <1>6, <1>7, <1>10, <1>11, <2>1 DEF RewatchInput
<1>13. WellRated(item) BY <1>7, <1>9, <1>10 DEF WellRated
<1>14. \A i \in DOMAIN h : h[i].day <= item.last_watched_date
  BY <1>6, <1>10 DEF days
<1> QED BY <1>12, <1>13, <1>14 DEF h, item

\* The scaled rating of such an input, and the interval it leads to.
LEMMA IntervalTyped ==
    ASSUME NEW item \in RewatchInput, WellRated(item)
    PROVE  /\ scaled_rating(item) \in Scale
           /\ Scored(item) => scaled_rating(item) > 0
           /\ interval_days(item) \in Nat /\ due_date(item) \in Int
<1> DEFINE s == scaled_rating(item)
           c == item.watch_count
           m == item.runtime_minutes
           total == BaseDays(s) + Spacing(s, c, m)
<1>1. s \in Scale /\ (Scored(item) => s > 0)
  <2>1. CASE Scored(item) BY <2>1, AverageIsARating DEF Scale
  <2>2. CASE ~Scored(item) BY <2>2 DEF scaled_rating, UNRATED_SCALED_RATING, Scale
  <2> QED BY <2>1, <2>2
<1>2. /\ c \in Nat /\ m \in Nat /\ item.is_favorite \in BOOLEAN
      /\ item.last_watched_date \in Int /\ item.delay_days \in Nat
  BY DEF RewatchInput
<1> HIDE DEF s
<1>3. total \in Nat
  <2>1. BaseDays(s) \in Nat BY <1>1, BaseDaysType
  <2>2. Spacing(s, c, m) \in Nat BY <1>1, <1>2, SpacingType
  <2> QED BY <2>1, <2>2
<1>4. Halved(total) \in Nat BY <1>3, HalvedMonotone
<1>5. interval_days(item) = IF item.is_favorite THEN Halved(total) ELSE total
  BY DEF interval_days, Interval, s
<1> HIDE DEF total
<1>6. interval_days(item) \in Nat BY <1>2, <1>3, <1>4, <1>5
<1>7. due_date(item) \in Int BY <1>2, <1>6 DEF due_date
<1> QED BY <1>1, <1>6, <1>7 DEF s

\* The films of the due-list are those of the library that are due.
LEMMA DueListIsOfTheDue ==
    ASSUME TypeOK
    PROVE  ToSet(due_list) = {f \in Library : IsDue(collect_input(f), today)}
<1> DEFINE inputs == [f \in Library |-> collect_input(f)]
<1>1. IsFiniteSet(Library) /\ Library \subseteq Nat
  <2>1. Library \in SUBSET Films BY DEF Library
  <2> QED BY <2>1, DueListAssumption, FS_Subset
<1>2. today \in Int BY DueListAssumption DEF TypeOK
<1>3. \A f \in Library : due_date(inputs[f]) \in Int BY InputTyped, IntervalTyped
<1>4. DOMAIN inputs = Library /\ \A f \in Library : inputs[f] = collect_input(f) OBVIOUS
<1>5. due_list = suggest(inputs, today) BY DEF due_list, collect_inputs
<1> HIDE DEF inputs
<1>6. ToSet(suggest(inputs, today)) = {f \in DOMAIN inputs : IsDue(inputs[f], today)}
  BY <1>1, <1>2, <1>3, <1>4, DueListMembers
<1>7. {f \in DOMAIN inputs : IsDue(inputs[f], today)}
        = {f \in Library : IsDue(collect_input(f), today)}
  BY <1>4
<1> QED BY <1>5, <1>6, <1>7

\* A film of the due-list was last watched half a year ago, a year ago when it is no
\* favourite, whichever of its watches was the last and in whatever order they were logged.
LEMMA DueFilmRested ==
    ASSUME TypeOK, NEW f \in ToSet(due_list)
    PROVE  /\ f \in Library
           /\ \A i \in DOMAIN history[f] :
                history[f][i].day + (IF marks[f].is_favorite THEN 183 ELSE 365) <= today
<1>1. f \in Library /\ IsDue(collect_input(f), today) BY DueListIsOfTheDue
<1> DEFINE item == collect_input(f)
<1>2. item \in RewatchInput /\ WellRated(item) BY <1>1, InputTyped
<1>3. \A i \in DOMAIN history[f] : history[f][i].day <= item.last_watched_date BY <1>1, InputTyped
<1>4. item.is_favorite = marks[f].is_favorite BY DEF collect_input
<1>5. today \in Int BY DueListAssumption DEF TypeOK
<1>6. item.last_watched_date \in Int BY <1>2 DEF RewatchInput
<1>7. \A i \in DOMAIN history[f] : history[f][i].day \in Int
  <2>1. history[f] \in Seq(Watch) BY <1>1 DEF TypeOK, Library
  <2> QED BY <2>1, WatchesTyped
<1> HIDE DEF item
<1>8. item.last_watched_date + (IF marks[f].is_favorite THEN 183 ELSE 365) <= today
  BY <1>1, <1>2, <1>4, <1>5, WatchedFilmRests DEF item
<1> QED BY <1>1, <1>3, <1>5, <1>6, <1>7, <1>8

\* "A five-star favourite can come due in six months, the one place nothing holds it to a
\* year", of every film of every due-list.
THEOREM WatchedFilmsRest == Spec => []JustWatchedIsNotDue
<1>1. TypeOK => JustWatchedIsNotDue BY DueFilmRested DEF JustWatchedIsNotDue
<1> QED BY <1>1, DueListTyped, PTL

\* Python's round() keeps the order of quotients, ties to the even step included.
LEMMA RoundingKeepsOrder ==
    ASSUME NEW s \in Nat, NEW n \in Nat \ {0}, NEW t \in Nat, NEW m \in Nat \ {0},
           s * m <= t * n
    PROVE  RoundHalfEven(s, n) <= RoundHalfEven(t, m)
<1> DEFINE q == s \div n
           r == s % n
           p == t \div m
           u == t % m
           up == ~(2 * r < n \/ (2 * r = n /\ q % 2 = 0))
           vp == ~(2 * u < m \/ (2 * u = m /\ p % 2 = 0))
<1>1. q \in Nat /\ r \in 0..(n - 1) /\ s = n * q + r BY DivisionOfNaturals
<1>2. p \in Nat /\ u \in 0..(m - 1) /\ t = m * p + u BY DivisionOfNaturals
<1>3. RoundHalfEven(s, n) = (IF up THEN q + 1 ELSE q) BY DEF RoundHalfEven
<1>4. RoundHalfEven(t, m) = (IF vp THEN p + 1 ELSE p) BY DEF RoundHalfEven
<1> HIDE DEF q, r, p, u
<1>5. q <= p
  <2> SUFFICES ASSUME p + 1 <= q PROVE FALSE BY <1>1, <1>2
  <2>1. n * (p + 1) <= n * q BY <1>1, <1>2, ProductsGrow
  <2>2. n * (p + 1) <= s
    <3>1. n * q \in Int /\ n * (p + 1) \in Int BY <1>1, <1>2
    <3> QED BY <2>1, <3>1, <1>1
  <2>3. (n * (p + 1)) * m <= s * m
    <3>1. n * (p + 1) \in Nat BY <1>2
    <3> QED BY <2>2, <3>1, ProductsGrow
  <2>4. t + 1 <= m * (p + 1)
    <3>1. m * (p + 1) = m * p + m /\ m * p \in Nat BY <1>2
    <3> QED BY <3>1, <1>2
  <2>5. (t + 1) * n <= (m * (p + 1)) * n
    <3>1. m * (p + 1) \in Nat BY <1>2
    <3> QED BY <2>4, <3>1, ProductsGrow
  <2>6. (t + 1) * n = t * n + n OBVIOUS
  <2>7. (n * (p + 1)) * m = (m * (p + 1)) * n BY <1>2
  <2>8. t * n \in Int /\ s * m \in Int /\ (n * (p + 1)) * m \in Int BY <1>2
  <2> QED BY <2>3, <2>5, <2>6, <2>7, <2>8
<1>6. CASE q < p BY <1>1, <1>2, <1>3, <1>4, <1>6
<1>7. CASE q = p
  <2> SUFFICES ASSUME up PROVE vp BY <1>1, <1>2, <1>3, <1>4, <1>7
  <2>1. r * m <= u * n
    <3>1. s * m = (n * q) * m + r * m BY <1>1
    <3>2. t * n = (m * p) * n + u * n BY <1>2
    <3>3. (n * q) * m = (m * p) * n BY <1>1, <1>7
    <3>4. (n * q) * m \in Int /\ r * m \in Int /\ u * n \in Int BY <1>1, <1>2
    <3> QED BY <3>1, <3>2, <3>3, <3>4
  <2>2. CASE 2 * r > n
    <3>1. 2 * u > m
      <4> SUFFICES ASSUME 2 * u <= m PROVE FALSE BY <1>2
      <4>1. (2 * u) * n <= m * n
        <5>1. 2 * u \in Nat BY <1>2
        <5> QED BY <5>1, ProductsGrow
      <4>2. (n + 1) * m <= (2 * r) * m
        <5>1. 2 * r \in Nat /\ n + 1 <= 2 * r BY <1>1, <2>2
        <5> QED BY <5>1, ProductsGrow
      <4>3. (n + 1) * m = m * n + m OBVIOUS
      <4>4. (2 * r) * m = 2 * (r * m) /\ (2 * u) * n = 2 * (u * n) BY <1>1, <1>2
      <4>5. r * m \in Int /\ u * n \in Int /\ m * n \in Int BY <1>1, <1>2
      <4> QED BY <2>1, <4>1, <4>2, <4>3, <4>4, <4>5
    <3> QED BY <3>1, <1>2
  <2>3. CASE 2 * r = n
    <3>1. 2 * u >= m
      <4> SUFFICES ASSUME 2 * u + 1 <= m PROVE FALSE BY <1>2
      <4>1. (2 * u + 1) * n <= m * n
        <5>1. 2 * u + 1 \in Nat BY <1>2
        <5> QED BY <5>1, ProductsGrow
      <4>2. (2 * r) * m = m * n BY <2>3
      <4>3. (2 * u + 1) * n = 2 * (u * n) + n BY <1>2
      <4>4. (2 * r) * m = 2 * (r * m) BY <1>1
      <4>5. r * m \in Int /\ u * n \in Int /\ m * n \in Int BY <1>1, <1>2
      <4> QED BY <2>1, <4>1, <4>2, <4>3, <4>4, <4>5
    <3>2. q % 2 # 0 BY <2>3
    <3> QED BY <3>1, <3>2, <1>2, <1>7
  <2>4. r \in Int BY <1>1
  <2> QED BY <2>2, <2>3, <2>4
<1> QED BY <1>1, <1>2, <1>5, <1>6, <1>7

\* A better average is no worse a rating, and any rating is better than none.
LEMMA BetterAverageRatesBetter ==
    ASSUME NEW a \in RewatchInput, WellRated(a), Scored(a),
           NEW b \in RewatchInput, WellRated(b),
           Scored(b) => a.half_stars * b.rated >= b.half_stars * a.rated
    PROVE  scaled_rating(b) <= scaled_rating(a)
<1>1. /\ a.half_stars \in Nat /\ a.rated \in Nat \ {0}
      /\ b.half_stars \in Nat /\ b.rated \in Nat
  BY DEF RewatchInput, Scored
<1>2. CASE Scored(b)
  <2>1. b.rated \in Nat \ {0} BY <1>1, <1>2 DEF Scored
  <2>2. b.half_stars * a.rated <= a.half_stars * b.rated BY <1>1, <1>2
  <2>3. RoundHalfEven(b.half_stars, b.rated) <= RoundHalfEven(a.half_stars, a.rated)
    BY <1>1, <2>1, <2>2, RoundingKeepsOrder
  <2> QED BY <1>2, <2>3 DEF scaled_rating
<1>3. CASE ~Scored(b)
  <2>1. scaled_rating(b) = 0 BY <1>3 DEF scaled_rating, UNRATED_SCALED_RATING
  <2>2. scaled_rating(a) \in 1..10 BY AverageIsARating
  <2> QED BY <2>1, <2>2
<1> QED BY <1>2, <1>3

\* A film with the better average, or with the only one, is due no later than another that is
\* as long and was watched as often and as lately, ties of the rounding included.
LEMMA BetterRatedComesBack ==
    ASSUME TypeOK PROVE RatingOrdersTheWait
<1> SUFFICES ASSUME NEW f \in Library, NEW g \in Library,
                    marks[f] = marks[g],
                    collect_input(f).runtime_minutes = collect_input(g).runtime_minutes,
                    collect_input(f).watch_count = collect_input(g).watch_count,
                    collect_input(f).last_watched_date = collect_input(g).last_watched_date,
                    Scored(collect_input(f)),
                    Scored(collect_input(g))
                      => collect_input(f).half_stars * collect_input(g).rated
                           >= collect_input(g).half_stars * collect_input(f).rated
             PROVE  DueOn(f) <= DueOn(g)
  BY DEF RatingOrdersTheWait
<1> DEFINE a == collect_input(f)
           b == collect_input(g)
           s == scaled_rating(b)
           t == scaled_rating(a)
<1>1. /\ a.is_favorite = b.is_favorite /\ a.delay_days = b.delay_days
  BY DEF collect_input
<1>2. a \in RewatchInput /\ WellRated(a) /\ b \in RewatchInput /\ WellRated(b) BY InputTyped
<1>3. s <= t
  <2> HIDE DEF a, b
  <2>1. Scored(a) /\ (Scored(b) => a.half_stars * b.rated >= b.half_stars * a.rated) BY DEF a, b
  <2> QED BY <1>2, <2>1, BetterAverageRatesBetter
<1>4. s \in Scale /\ t \in Scale /\ interval_days(a) \in Nat /\ interval_days(b) \in Nat
  BY <1>2, IntervalTyped
<1>5. /\ a.watch_count \in Nat /\ a.runtime_minutes \in Nat /\ a.is_favorite \in BOOLEAN
      /\ a.last_watched_date \in Int /\ a.delay_days \in Nat
  BY <1>2 DEF RewatchInput
<1>6. /\ a.watch_count = b.watch_count /\ a.runtime_minutes = b.runtime_minutes
      /\ a.last_watched_date = b.last_watched_date
  OBVIOUS
<1>7. DueOn(f) = due_date(a) /\ DueOn(g) = due_date(b) BY DEF DueOn
<1> HIDE DEF a, b
<1>8. interval_days(a) <= interval_days(b)
  <2>1. Interval(t, a.watch_count, a.runtime_minutes, a.is_favorite)
          <= Interval(s, a.watch_count, a.runtime_minutes, a.is_favorite)
    <3> HIDE DEF s, t
    <3> QED BY <1>3, <1>4, <1>5, RatingShortensTheWait
  <2> QED BY <2>1, <1>1, <1>6 DEF interval_days
<1> QED BY <1>1, <1>4, <1>5, <1>6, <1>7, <1>8 DEF due_date

\* The rating orders the wait, in every library.
THEOREM BetterRatedFirst == Spec => []RatingOrdersTheWait
<1> QED BY BetterRatedComesBack, DueListTyped, PTL

-----------------------------------------------------------------------------
(* The statistics of a log *)

\* A log that can be counted: finitely many watches, a day of each, its value a score or none,
\* and a runtime of its film.
IsLog(log) ==
    /\ IsFiniteSet(log)
    /\ \A w \in log : /\ w.day \in Int
                      /\ w.day # EARLIER_WATCH_DATE => w.day \in Nat
                      /\ FilmData[w.film].runtime_minutes \in Nat

\* A part of a log is a log, and with the rest of it makes up the whole.
LEMMA PartOfLog ==
    ASSUME NEW log, IsLog(log), NEW part \in SUBSET log
    PROVE  /\ IsLog(part) /\ Cardinality(part) \in Nat
           /\ Cardinality(part) + Cardinality(log \ part) = Cardinality(log)
<1>1. IsFiniteSet(part) /\ IsFiniteSet(log) BY FS_Subset DEF IsLog
<1>2. Cardinality(part) \in Nat /\ Cardinality(log) \in Nat BY <1>1, FS_CardinalityType
<1>3. Cardinality(log \ part) = Cardinality(log) - Cardinality(log \cap part)
  BY <1>1, FS_Difference
<1>4. log \cap part = part OBVIOUS
<1>5. IsLog(part) BY <1>1 DEF IsLog
<1> QED BY <1>2, <1>3, <1>4, <1>5

\* The log of the watches h.
EntryOf(h, f, i) == [film |-> f, day |-> h[f][i].day, value |-> h[f][i].value, entry |-> i]
LogOf(h) == UNION {{EntryOf(h, f, i) : i \in DOMAIN h[f]} : f \in Films}

\* It can be counted, and holds one entry for each watch.
LEMMA LogIsOne ==
    ASSUME NEW h \in [Films -> Seq(Watch)]
    PROVE  /\ IsLog(LogOf(h))
           /\ \A w \in LogOf(h) : /\ w.film \in Films /\ w.entry \in DOMAIN h[w.film]
                                  /\ w = EntryOf(h, w.film, w.entry)
                                  /\ w.day = h[w.film][w.entry].day
           /\ \A f \in Films : \A i \in DOMAIN h[f] : EntryOf(h, f, i) \in LogOf(h)
<1> DEFINE Entries(f) == {EntryOf(h, f, i) : i \in DOMAIN h[f]}
           all == [f \in Films |-> Entries(f)]
<1>1. LogOf(h) = UNION {all[f] : f \in Films} BY DEF LogOf
<1>2. ASSUME NEW f \in Films
      PROVE  /\ h[f] \in Seq(Watch) /\ DOMAIN h[f] = 1..Len(h[f]) /\ Len(h[f]) \in Nat
  OBVIOUS
<1>3. ASSUME NEW f \in Films PROVE IsFiniteSet(Entries(f))
  <2> DEFINE own == h[f]
             F == [i \in DOMAIN own |-> EntryOf(h, f, i)]
  <2>1. IsFiniteSet(1..Len(own)) BY <1>2, FS_Interval
  <2>2. IsFiniteSet(DOMAIN own) BY <2>1, <1>2
  <2>3. Entries(f) = {F[i] : i \in DOMAIN own} OBVIOUS
  <2> HIDE DEF F, Entries
  <2> QED BY <2>2, <2>3, FiniteImage
<1>4. IsFiniteSet(LogOf(h))
  <2> HIDE DEF Entries
  <2>1. \A f \in Films : all[f] = Entries(f) OBVIOUS
  <2> HIDE DEF all
  <2>2. IsFiniteSet({all[f] : f \in Films})
    <3>1. IsFiniteSet(Films) BY DueListAssumption
    <3> QED BY <3>1, FiniteImage
  <2>3. \A T \in {all[f] : f \in Films} : IsFiniteSet(T) BY <1>3, <2>1
  <2> QED BY <1>1, <2>2, <2>3, FS_UNION
<1>5. ASSUME NEW w \in LogOf(h)
      PROVE  \E f \in Films : \E i \in DOMAIN h[f] : w = EntryOf(h, f, i)
  BY DEF LogOf
<1>6. \A f \in Films : \A i \in DOMAIN h[f] : EntryOf(h, f, i) \in LogOf(h) BY DEF LogOf
<1> HIDE DEF all, Entries
<1>7. ASSUME NEW w \in LogOf(h)
      PROVE  /\ w.film \in Films /\ w.entry \in DOMAIN h[w.film]
             /\ w = EntryOf(h, w.film, w.entry)
             /\ w.day = h[w.film][w.entry].day
             /\ h[w.film][w.entry] \in Watch
  <2>1. PICK f \in Films : \E i \in DOMAIN h[f] : w = EntryOf(h, f, i) BY <1>5
  <2>2. PICK i \in DOMAIN h[f] : w = EntryOf(h, f, i) BY <2>1
  <2>3. h[f][i] \in Watch BY <1>2
  <2>4. w.film = f /\ w.entry = i /\ w.day = h[f][i].day BY <2>2 DEF EntryOf
  <2> QED BY <2>2, <2>3, <2>4
<1>8. \A w \in LogOf(h) : /\ w.day \in Int
                          /\ w.day # EARLIER_WATCH_DATE => w.day \in Nat
                          /\ FilmData[w.film].runtime_minutes \in Nat
  <2> TAKE w \in LogOf(h)
  <2>1. w.film \in Films BY <1>7
  <2>2. FilmData[w.film].runtime_minutes \in Nat BY <2>1, DueListAssumption
  <2> QED BY <1>7, <2>2, WatchesTyped
<1>9. IsLog(LogOf(h)) BY <1>4, <1>8 DEF IsLog
<1> QED BY <1>6, <1>7, <1>9

\* The log is read from the histories, before and after a step.
LEMMA LogIsOfHistory == Log = LogOf(history) /\ Log' = LogOf(history')
  BY DEF Log, LogOf, EntryOf

\* The years of the page are finitely many naturals, and the year of every dated watch is one.
LEMMA YearsCover ==
    ASSUME NEW log, IsLog(log), NEW day \in Nat
    PROVE  /\ IsFiniteSet(years(log, day)) /\ years(log, day) \subseteq Nat
           /\ \A w \in dated(log) : YearOf(w.day) \in years(log, day)
<1> DEFINE ys == {YearOf(w.day) : w \in dated(log)}
           F == [w \in dated(log) |-> YearOf(w.day)]
           all == ys \cup {YearOf(day)}
<1>1. \A n \in Nat : YearOf(n) \in Nat BY DEF YearOf
<1>2. dated(log) \in SUBSET log /\ \A w \in dated(log) : w.day \in Nat BY DEF dated, IsLog
<1>3. CASE dated(log) = {}
  <2>1. years(log, day) = {} BY <1>3 DEF years
  <2> QED BY <2>1, <1>3, FS_EmptySet
<1>4. CASE dated(log) # {}
  <2>1. IsFiniteSet(dated(log)) BY <1>2, PartOfLog DEF IsLog
  <2>2. ys = {F[w] : w \in dated(log)} OBVIOUS
  <2>3. ys \in SUBSET Nat /\ ys # {} BY <1>1, <1>2, <1>4
  <2> HIDE DEF F
  <2>4. IsFiniteSet(ys) BY <2>1, <2>2, FiniteImage
  <2>5. \A w \in dated(log) : YearOf(w.day) \in ys OBVIOUS
  <2>6. years(log, day) = Min(ys)..Max(all) BY <1>4 DEF years, YearsOf
  <2> HIDE DEF ys
  <2>7. IsFiniteSet(all) BY <2>4, FS_AddElement
  <2>8. all \in SUBSET Int /\ ys \in SUBSET Int /\ all # {}
    <3>1. YearOf(day) \in Int BY <1>1
    <3>2. ys \subseteq Int BY <2>3
    <3>3. all # {} OBVIOUS
    <3>4. all \subseteq Int BY <3>1, <3>2
    <3> QED BY <3>2, <3>3, <3>4
  <2>9. Min(ys) \in ys /\ \A y \in ys : Min(ys) <= y BY <2>3, <2>4, <2>8, Extremes
  <2> HIDE DEF all
  <2>10. Max(all) \in all /\ \A y \in all : y <= Max(all) BY <2>7, <2>8, Extremes
  <2>11. Min(ys) \in Nat /\ Max(all) \in Int BY <2>3, <2>8, <2>9, <2>10
  <2>12. \A y \in ys : y \in Nat /\ Min(ys) <= y /\ y <= Max(all) BY <2>3, <2>9, <2>10 DEF all
  <2>13. IsFiniteSet(Min(ys)..Max(all)) BY <2>11, FS_Interval
  <2> QED BY <2>5, <2>6, <2>11, <2>12, <2>13
<1> QED BY <1>3, <1>4

\* The watches of a year are dated watches of the log, and each has exactly one.
LEMMA YearsPart ==
    ASSUME NEW log, IsLog(log), NEW y
    PROVE  /\ InYear(log, y) \in SUBSET log /\ InYear(log, y) \in SUBSET dated(log)
           /\ IsLog(InYear(log, y)) /\ Cardinality(InYear(log, y)) \in Nat
           /\ dated(log) \in SUBSET log /\ IsLog(dated(log))
           /\ \A w \in InYear(log, y) : w.day \in Nat
<1>1. InYear(log, y) \in SUBSET dated(log) /\ dated(log) \in SUBSET log BY DEF InYear, dated
<1>2. InYear(log, y) \in SUBSET log BY <1>1
<1>3. \A w \in dated(log) : w.day \in Nat BY DEF dated, IsLog
<1> QED BY <1>1, <1>2, <1>3, PartOfLog

\* The first watch of a film that has one is a dated watch of it.
LEMMA FirstIsDated ==
    ASSUME NEW log, IsLog(log), NEW f \in DOMAIN first_seen(log)
    PROVE  /\ \E w \in dated(log) : w.film = f /\ w.day = first_seen(log)[f]
           /\ \A w \in dated(log) : w.film = f => first_seen(log)[f] <= w.day
<1> DEFINE own == {v \in dated(log) : v.film = f}
           days == {w.day : w \in own}
<1>1. f \in {w.film : w \in dated(log)} BY DEF first_seen
<1>2. own # {} /\ \A w \in own : w.day \in Nat BY <1>1 DEF dated, IsLog
<1>3. days \in SUBSET Nat /\ days # {} BY <1>2
<1>4. first_seen(log)[f] = Min(days) BY <1>1 DEF first_seen, FirstDay
<1>5. Min(days) \in days /\ \A d \in days : Min(days) <= d
  <2> HIDE DEF days
  <2> QED BY <1>3, MinOfNaturals
<1> QED BY <1>4, <1>5

\* The films first seen in a year were watched in it.
LEMMA FirstsOfYear ==
    ASSUME NEW log, IsLog(log), NEW y
    PROVE  /\ first_per_year(log, y) \in Nat
           /\ first_per_year(log, y) <= distinct_films(InYear(log, y))
           /\ distinct_films(InYear(log, y)) \in Nat
           /\ distinct_films(InYear(log, y)) <= Cardinality(InYear(log, y))
           /\ films_released_that_year(InYear(log, y), y) <= distinct_films(InYear(log, y))
<1> DEFINE W == InYear(log, y)
           films == {w.film : w \in W}
           firsts == {f \in DOMAIN first_seen(log) : YearOf(first_seen(log)[f]) = y}
           released == {f \in films : FilmData[f].release_year = y}
           F == [w \in W |-> w.film]
<1>1. firsts \in SUBSET films
  <2> SUFFICES ASSUME NEW f \in firsts PROVE f \in films OBVIOUS
  <2>1. PICK w \in dated(log) : w.film = f /\ w.day = first_seen(log)[f] BY FirstIsDated
  <2>2. w \in W BY <2>1 DEF InYear
  <2> QED BY <2>1, <2>2
<1>2. IsFiniteSet(W) BY YearsPart DEF IsLog
<1>3. films = {F[w] : w \in W} OBVIOUS
<1>4. released \in SUBSET films OBVIOUS
<1> HIDE DEF F, W
<1>5. IsFiniteSet(films) /\ Cardinality(films) <= Cardinality(W) BY <1>2, <1>3, FiniteImage
<1> HIDE DEF films, firsts, released
<1>6. Cardinality(films) \in Nat BY <1>5, FS_CardinalityType
<1>7. IsFiniteSet(firsts) /\ Cardinality(firsts) <= Cardinality(films) BY <1>1, <1>5, FS_Subset
<1>8. Cardinality(firsts) \in Nat BY <1>7, FS_CardinalityType
<1>9. Cardinality(released) <= Cardinality(films) BY <1>4, <1>5, FS_Subset
<1>10. /\ first_per_year(log, y) = Cardinality(firsts)
       /\ distinct_films(W) = Cardinality(films)
       /\ films_released_that_year(W, y) = Cardinality(released)
  BY DEF first_per_year, distinct_films, films_released_that_year, films, firsts, released
<1> QED BY <1>5, <1>6, <1>7, <1>8, <1>9, <1>10 DEF W

\* The watches of one year among a part of the log.
OfYear(part, y) == {w \in part : YearOf(w.day) = y}

\* Counted year by year, the dated watches are all there, and so are those of one value.
LEMMA YearsCountWatches ==
    ASSUME NEW log, IsLog(log), NEW day \in Nat, NEW part \in SUBSET dated(log),
           NEW G, \A y \in years(log, day) : G[y] = Cardinality(OfYear(part, y))
    PROVE  SumOf(G, years(log, day)) = Cardinality(part)
<1> DEFINE K == years(log, day)
           key == [w \in part |-> YearOf(w.day)]
<1>1. IsFiniteSet(K) /\ \A w \in dated(log) : YearOf(w.day) \in K BY YearsCover
<1>2. part \in SUBSET log BY DEF dated
<1>3. IsFiniteSet(part) BY <1>2, PartOfLog DEF IsLog
<1>4. key \in [part -> K] BY <1>1
<1>5. \A y \in K : ClassOf(key, part, y) = OfYear(part, y) BY DEF ClassOf, OfYear
<1>6. \A y \in K : G[y] = Cardinality(ClassOf(key, part, y)) BY <1>5
<1> HIDE DEF key, K
<1>7. SumOf(G, K) = Cardinality(part) BY <1>1, <1>3, <1>4, <1>6, SizeOfClasses
<1> QED BY <1>7 DEF K

\* Every film with a first watch has it in one of the years.
LEMMA YearsCountFirsts ==
    ASSUME NEW log, IsLog(log), NEW day \in Nat,
           NEW G, \A y \in years(log, day) : G[y] = first_per_year(log, y)
    PROVE  /\ SumOf(G, years(log, day)) = Cardinality(DOMAIN first_seen(log))
           /\ Cardinality(DOMAIN first_seen(log)) \in Nat
<1> DEFINE K == years(log, day)
           S == DOMAIN first_seen(log)
           key == [f \in S |-> YearOf(first_seen(log)[f])]
           F == [w \in dated(log) |-> w.film]
<1>1. IsFiniteSet(K) /\ \A w \in dated(log) : YearOf(w.day) \in K BY YearsCover
<1>2. key \in [S -> K]
  <2> SUFFICES ASSUME NEW f \in S PROVE YearOf(first_seen(log)[f]) \in K OBVIOUS
  <2> QED BY <1>1, FirstIsDated
<1>3. IsFiniteSet(S) /\ Cardinality(S) \in Nat
  <2>1. dated(log) \in SUBSET log BY DEF dated
  <2>2. IsFiniteSet(dated(log)) BY <2>1, PartOfLog DEF IsLog
  <2>3. S \in SUBSET {F[w] : w \in dated(log)} BY DEF first_seen
  <2> HIDE DEF F, S
  <2>4. IsFiniteSet({F[w] : w \in dated(log)}) BY <2>2, FiniteImage
  <2> QED BY <2>3, <2>4, FS_Subset, FS_CardinalityType
<1>4. \A y \in K : ClassOf(key, S, y) = {f \in S : YearOf(first_seen(log)[f]) = y}
  BY DEF ClassOf
<1>5. \A y \in K : G[y] = Cardinality(ClassOf(key, S, y)) BY <1>4 DEF first_per_year
<1> HIDE DEF key, K, S
<1>6. SumOf(G, K) = Cardinality(S) BY <1>1, <1>2, <1>3, <1>5, SizeOfClasses
<1> QED BY <1>3, <1>6 DEF K, S

\* The minutes of the watches of a log, as a sum.
Minutes(log) == [w \in log |-> FilmData[w.film].runtime_minutes]

\* They are the minutes the statistics count.
LEMMA MinutesAreSum ==
    ASSUME NEW log, IsLog(log), NEW part \in SUBSET log
    PROVE  minutes_watched(part) = SumOf(Minutes(log), part)
<1> DEFINE F == [w \in part |-> FilmData[w.film].runtime_minutes]
<1>1. minutes_watched(part) = SumOf(F, part)
  BY ZenonT(60) DEF minutes_watched, SumOf, MapThenSumSet, MapThenFoldSet
<1>2. IsFiniteSet(part) BY PartOfLog DEF IsLog
<1>3. \A w \in part : F[w] = Minutes(log)[w] BY DEF Minutes
<1> HIDE DEF F
<1> QED BY <1>1, <1>2, <1>3, SumsAgree

\* Added up year by year, the minutes of the dated watches are all there.
LEMMA YearsCountMinutes ==
    ASSUME NEW log, IsLog(log), NEW day \in Nat,
           NEW G, \A y \in years(log, day) : G[y] = minutes_watched(InYear(log, y))
    PROVE  /\ SumOf(G, years(log, day)) + minutes_watched(log \ dated(log)) = minutes_watched(log)
<1> DEFINE K == years(log, day)
           S == dated(log)
           F == Minutes(log)
           key == [w \in S |-> YearOf(w.day)]
<1>1. IsFiniteSet(K) /\ \A w \in dated(log) : YearOf(w.day) \in K BY YearsCover
<1>2. S \in SUBSET log BY DEF dated
<1>3. IsFiniteSet(S) /\ IsFiniteSet(log) BY <1>2, PartOfLog DEF IsLog
<1>4. key \in [S -> K] BY <1>1
<1>5. \A w \in log : F[w] \in Nat BY DEF Minutes, IsLog
<1>6. \A y \in K : ClassOf(key, S, y) = InYear(log, y) BY DEF InYear, ClassOf
<1>7. \A y \in K : G[y] = SumOf(F, ClassOf(key, S, y))
  <2> TAKE y \in K
  <2>1. G[y] = minutes_watched(InYear(log, y)) OBVIOUS
  <2>2. InYear(log, y) \in SUBSET log BY YearsPart
  <2> HIDE DEF F, K, key, S
  <2>3. minutes_watched(InYear(log, y)) = SumOf(F, InYear(log, y)) BY <2>2, MinutesAreSum DEF F
  <2> QED BY <2>1, <2>3, <1>6
<1> HIDE DEF F, K, key
<1>8. SumOf(G, K) = SumOf(F, S)
  <2>1. \A w \in S : F[w] \in Nat BY <1>2, <1>5
  <2> HIDE DEF S
  <2>2. IsFiniteSet(S) /\ IsFiniteSet(K) BY <1>1, <1>3
  <2> QED BY <1>4, <1>7, <2>1, <2>2, SumOfClasses
<1>9. SumOf(F, log) = SumOf(F, S) + SumOf(F, log \ S)
  <2> HIDE DEF S
  <2> QED BY <1>2, <1>3, <1>5, SumOfParts
<1>10. minutes_watched(log) = SumOf(F, log) /\ minutes_watched(log \ S) = SumOf(F, log \ S)
  BY MinutesAreSum DEF F
<1> QED BY <1>8, <1>9, <1>10 DEF K

\* A day lies in one of the twelve months of its year.
LEMMA MonthsCover ==
    ASSUME NEW day \in Nat
    PROVE  MonthOf(day) \in 1..12
<1> DEFINE begun == {m \in 1..12 : MonthStarts[m] <= day % 365}
<1>1. IsFiniteSet(1..12) /\ Cardinality(1..12) = 12
  <2>1. 1 \in Int /\ 12 \in Int /\ ~(1 > 12) /\ 12 - 1 + 1 = 12 OBVIOUS
  <2> QED BY <2>1, FS_Interval
<1>2. MonthStarts[1] = 0 BY DEF MonthStarts
<1>3. 1 \in begun BY <1>2
<1>4. begun \in SUBSET (1..12) OBVIOUS
<1> HIDE DEF begun
<1>5. IsFiniteSet(begun) /\ Cardinality(begun) <= 12 BY <1>1, <1>4, FS_Subset
<1>6. Cardinality(begun) \in Nat /\ Cardinality(begun) # 0
  BY <1>3, <1>5, FS_CardinalityType, FS_EmptySet
<1> QED BY <1>5, <1>6 DEF begun, MonthOf

\* Counted month by month, the watches of a year are all there.
LEMMA MonthsCountWatches ==
    ASSUME NEW W, IsFiniteSet(W), \A w \in W : w.day \in Nat
    PROVE  MapThenSumSet(LAMBDA m : buckets(W)[m], 1..12) = Cardinality(W)
<1> DEFINE G == [m \in 1..12 |-> buckets(W)[m]]
           key == [w \in W |-> MonthOf(w.day)]
<1>1. MapThenSumSet(LAMBDA m : buckets(W)[m], 1..12) = SumOf(G, 1..12)
  BY ZenonT(60) DEF SumOf, MapThenSumSet, MapThenFoldSet
<1>2. key \in [W -> 1..12] BY MonthsCover
<1>3. IsFiniteSet(1..12)
  <2>1. 1 \in Int /\ 12 \in Int OBVIOUS
  <2> QED BY <2>1, FS_Interval
<1>4. \A m \in 1..12 : G[m] = Cardinality(ClassOf(key, W, m))
  <2> TAKE m \in 1..12
  <2>1. ClassOf(key, W, m) = {w \in W : MonthOf(w.day) = m} BY DEF ClassOf
  <2>2. G[m] = Cardinality({w \in W : MonthOf(w.day) = m}) BY DEF buckets
  <2> HIDE DEF G, key
  <2> QED BY <2>1, <2>2
<1> HIDE DEF G, key
<1>5. SumOf(G, 1..12) = Cardinality(W) BY <1>2, <1>3, <1>4, SizeOfClasses
<1> QED BY <1>1, <1>5

\* The year blocks hold the watches of their year and as many first watches as films were
\* first seen in it.
LEMMA YearBlock ==
    ASSUME NEW log, IsLog(log), NEW day \in Nat, NEW y \in years(log, day)
    PROVE  LET b == compute(log, day).years[y]
           IN  /\ b.watches = Cardinality(InYear(log, y))
               /\ b.rewatches = Cardinality(InYear(log, y)) - first_per_year(log, y)
               /\ b.watches \in Nat /\ b.rewatches \in Nat
<1> DEFINE n == Cardinality(InYear(log, y))
           k == first_per_year(log, y)
<1>1. /\ compute(log, day).years[y].watches = n
      /\ compute(log, day).years[y].rewatches = n - k
  BY DEF compute, block
<1>2. n \in Nat BY YearsPart
<1>3. k \in Nat /\ k <= n
  <2>1. /\ k \in Nat /\ k <= distinct_films(InYear(log, y))
        /\ distinct_films(InYear(log, y)) \in Nat /\ distinct_films(InYear(log, y)) <= n
    BY FirstsOfYear
  <2> HIDE DEF n, k
  <2> QED BY <2>1, <1>2
<1> HIDE DEF n, k
<1> QED BY <1>1, <1>2, <1>3 DEF n, k

\* The watches and the rewatches of the years, and those without a date, make up the totals.
LEMMA TotalsAddUp ==
    ASSUME NEW log, IsLog(log), NEW day \in Nat
    PROVE  LET stats == compute(log, day)
               Years == DOMAIN stats.years
               undated == log \ dated(log)
           IN  /\ stats.total.watches
                    = MapThenSumSet(LAMBDA y : stats.years[y].watches, Years) + Cardinality(undated)
               /\ stats.total.rewatches
                    = MapThenSumSet(LAMBDA y : stats.years[y].rewatches, Years)
                        + Cardinality(undated)
<1> DEFINE stats == compute(log, day)
           K == years(log, day)
           undated == log \ dated(log)
           N == [y \in K |-> stats.years[y].watches]
           R == [y \in K |-> stats.years[y].rewatches]
           P == [y \in K |-> first_per_year(log, y)]
           firsts == Cardinality(DOMAIN first_seen(log))
<1>1. DOMAIN stats.years = K BY DEF compute
<1>2. MapThenSumSet(LAMBDA y : stats.years[y].watches, DOMAIN stats.years) = SumOf(N, K)
  <2>1. MapThenSumSet(LAMBDA y : stats.years[y].watches, K) = SumOf(N, K)
    BY ZenonT(60) DEF SumOf, MapThenSumSet, MapThenFoldSet
  <2> HIDE DEF stats, K, N
  <2> QED BY <1>1, <2>1
<1>3. MapThenSumSet(LAMBDA y : stats.years[y].rewatches, DOMAIN stats.years) = SumOf(R, K)
  <2>1. MapThenSumSet(LAMBDA y : stats.years[y].rewatches, K) = SumOf(R, K)
    BY ZenonT(60) DEF SumOf, MapThenSumSet, MapThenFoldSet
  <2> HIDE DEF stats, K, R
  <2> QED BY <1>1, <2>1
<1>4. stats.total.watches = Cardinality(log)
      /\ stats.total.rewatches = Cardinality(log) - firsts
  BY DEF compute, block
<1>5. \A y \in K : /\ N[y] = Cardinality(OfYear(dated(log), y))
                   /\ P[y] = first_per_year(log, y)
                   /\ N[y] \in Nat /\ R[y] \in Nat /\ P[y] \in Nat /\ N[y] = R[y] + P[y]
  <2> TAKE y \in K
  <2>1. InYear(log, y) = OfYear(dated(log), y) BY DEF InYear, OfYear
  <2>2. /\ N[y] = Cardinality(InYear(log, y)) /\ N[y] \in Nat /\ R[y] \in Nat
        /\ R[y] = Cardinality(InYear(log, y)) - first_per_year(log, y)
    BY YearBlock
  <2>3. P[y] = first_per_year(log, y) /\ P[y] \in Nat BY FirstsOfYear
  <2> HIDE DEF N, R, P
  <2>4. N[y] = R[y] + P[y] BY <2>2, <2>3
  <2> QED BY <2>1, <2>2, <2>3, <2>4
<1>6. IsFiniteSet(K) BY YearsCover
<1>7. Cardinality(dated(log)) + Cardinality(undated) = Cardinality(log)
      /\ Cardinality(dated(log)) \in Nat /\ Cardinality(log) \in Nat /\ Cardinality(undated) \in Nat
  BY PartOfLog DEF dated
<1> HIDE DEF stats, K, N, R, P
<1>8. SumOf(N, K) = Cardinality(dated(log)) BY <1>5, YearsCountWatches DEF K
<1>9. SumOf(P, K) = firsts /\ firsts \in Nat BY <1>5, YearsCountFirsts DEF K
<1>10. SumOf(N, K) = SumOf(R, K) + SumOf(P, K) /\ SumOf(R, K) \in Nat
  <2>1. \A y \in K : R[y] \in Nat /\ P[y] \in Nat /\ N[y] = R[y] + P[y] BY <1>5
  <2>2. SumOf(N, K) = SumOf(R, K) + SumOf(P, K) BY <1>6, <2>1, SumOfSums
  <2>3. SumOf(R, K) \in Nat BY <1>6, <2>1, SumOfNaturals
  <2> QED BY <2>2, <2>3
<1> HIDE DEF firsts, undated
<1>11. stats.total.watches = SumOf(N, K) + Cardinality(undated) BY <1>4, <1>7, <1>8
<1>12. stats.total.rewatches = SumOf(R, K) + Cardinality(undated)
  BY <1>4, <1>7, <1>8, <1>9, <1>10
<1>13. stats.total.watches
         = MapThenSumSet(LAMBDA y : stats.years[y].watches, DOMAIN stats.years)
             + Cardinality(undated)
  BY <1>2, <1>11
<1>14. stats.total.rewatches
         = MapThenSumSet(LAMBDA y : stats.years[y].rewatches, DOMAIN stats.years)
             + Cardinality(undated)
  BY <1>3, <1>12
<1> QED BY <1>13, <1>14 DEF stats, undated

\* The minutes of the years, and those without a date, make up the total.
LEMMA MinutesAddUp ==
    ASSUME NEW log, IsLog(log), NEW day \in Nat
    PROVE  minutes_watched(log)
             = MapThenSumSet(LAMBDA y : minutes_watched(InYear(log, y)), years(log, day))
                 + minutes_watched(log \ dated(log))
<1> DEFINE K == years(log, day)
           G == [y \in K |-> minutes_watched(InYear(log, y))]
<1>1. MapThenSumSet(LAMBDA y : minutes_watched(InYear(log, y)), K) = SumOf(G, K)
  BY ZenonT(60) DEF SumOf, MapThenSumSet, MapThenFoldSet
<1>2. \A y \in K : G[y] = minutes_watched(InYear(log, y)) OBVIOUS
<1> HIDE DEF G
<1>3. SumOf(G, K) + minutes_watched(log \ dated(log)) = minutes_watched(log)
  BY <1>2, YearsCountMinutes
<1> QED BY <1>1, <1>3

\* So do the watches of each value.
LEMMA ValuesAddUp ==
    ASSUME NEW log, IsLog(log), NEW day \in Nat, NEW v \in RATING_VALUES
    PROVE  rating_distribution(log)[v]
             = MapThenSumSet(LAMBDA y : rating_distribution(InYear(log, y))[v], years(log, day))
                 + rating_distribution(log \ dated(log))[v]
<1> DEFINE K == years(log, day)
           G == [y \in K |-> rating_distribution(InYear(log, y))[v]]
           Valued(part) == {w \in part : w.value = v}
           all == Valued(log)
           part == Valued(dated(log))
<1>1. MapThenSumSet(LAMBDA y : rating_distribution(InYear(log, y))[v], K) = SumOf(G, K)
  BY ZenonT(60) DEF SumOf, MapThenSumSet, MapThenFoldSet
<1>2. \A W : rating_distribution(W)[v] = Cardinality(Valued(W)) BY DEF rating_distribution
<1>3. \A y \in K : G[y] = Cardinality(OfYear(part, y))
  <2> TAKE y \in K
  <2>1. Valued(InYear(log, y)) = OfYear(part, y) BY DEF InYear, OfYear
  <2>2. G[y] = Cardinality(Valued(InYear(log, y))) BY <1>2
  <2> QED BY <2>1, <2>2
<1>4. part \in SUBSET dated(log) OBVIOUS
<1> HIDE DEF G, part
<1>5. SumOf(G, K) = Cardinality(part) BY <1>3, <1>4, YearsCountWatches
<1>6. Cardinality(part) + Cardinality(Valued(log \ dated(log))) = Cardinality(all)
  <2>1. all \in SUBSET log OBVIOUS
  <2>0. dated(log) \subseteq log BY DEF dated
  <2>2. part \in SUBSET all /\ all \ part = Valued(log \ dated(log)) BY <2>0 DEF part
  <2> HIDE DEF all
  <2>3. IsLog(all) BY <2>1, PartOfLog
  <2>4. Cardinality(part) + Cardinality(all \ part) = Cardinality(all) BY <2>2, <2>3, PartOfLog
  <2> QED BY <2>2, <2>4
<1>7. rating_distribution(log)[v] = Cardinality(all)
      /\ rating_distribution(log \ dated(log))[v] = Cardinality(Valued(log \ dated(log)))
  BY <1>2
<1> HIDE DEF all, Valued
<1> QED BY <1>1, <1>5, <1>6, <1>7

\* The statistics of the library add up.
LEMMA StatisticsAddUp ==
    ASSUME TypeOK PROVE YearsAddUp
<1> DEFINE log == Log
           stats == compute(log, today)
           Years == DOMAIN stats.years
           undated == log \ dated(log)
<1>1. IsLog(log) /\ today \in Nat BY LogIsOfHistory, LogIsOne, DueListAssumption DEF TypeOK
<1>2. Years = years(log, today) BY DEF compute
<1> HIDE DEF log
<1>3. /\ stats.total.watches
           = MapThenSumSet(LAMBDA y : stats.years[y].watches, Years) + Cardinality(undated)
      /\ stats.total.rewatches
           = MapThenSumSet(LAMBDA y : stats.years[y].rewatches, Years) + Cardinality(undated)
  BY <1>1, TotalsAddUp
<1> HIDE DEF Years
<1>4. minutes_watched(log)
        = MapThenSumSet(LAMBDA y : minutes_watched(InYear(log, y)), Years)
            + minutes_watched(undated)
  <2>1. minutes_watched(log)
          = MapThenSumSet(LAMBDA y : minutes_watched(InYear(log, y)), years(log, today))
              + minutes_watched(log \ dated(log))
    BY <1>1, MinutesAddUp
  <2> QED BY <2>1, <1>2
<1>5. ASSUME NEW v \in Scores
      PROVE  rating_distribution(log)[v]
               = MapThenSumSet(LAMBDA y : rating_distribution(InYear(log, y))[v], Years)
                   + rating_distribution(undated)[v]
  <2>1. v \in RATING_VALUES BY DueListAssumption DEF RATING_VALUES
  <2>2. rating_distribution(log)[v]
          = MapThenSumSet(LAMBDA y : rating_distribution(InYear(log, y))[v], years(log, today))
              + rating_distribution(log \ dated(log))[v]
    BY <1>1, <2>1, ValuesAddUp
  <2> QED BY <2>2, <1>2
<1>6. ASSUME NEW y \in Years
      PROVE  /\ stats.years[y].rewatches >= 0
             /\ stats.years[y].watches
                  = MapThenSumSet(LAMBDA m : buckets(InYear(log, y))[m], 1..12)
             /\ distinct_films(InYear(log, y)) + stats.years[y].rewatches >= stats.years[y].watches
             /\ films_released_that_year(InYear(log, y), y) <= distinct_films(InYear(log, y))
  <2> DEFINE b == stats.years[y]
             W == InYear(log, y)
             k == first_per_year(log, y)
  <2>1. /\ b.watches = Cardinality(W) /\ b.rewatches = Cardinality(W) - k
        /\ b.watches \in Nat /\ b.rewatches \in Nat
    BY <1>1, <1>2, <1>6, YearBlock
  <2>2. /\ k \in Nat /\ k <= distinct_films(W) /\ distinct_films(W) \in Nat
        /\ films_released_that_year(W, y) <= distinct_films(W)
    BY <1>1, FirstsOfYear
  <2>3. IsFiniteSet(W) /\ \A w \in W : w.day \in Nat BY <1>1, YearsPart DEF IsLog
  <2> HIDE DEF W
  <2>4. MapThenSumSet(LAMBDA m : buckets(W)[m], 1..12) = Cardinality(W)
    BY <2>3, MonthsCountWatches
  <2> HIDE DEF k, b
  <2>5. b.rewatches >= 0 /\ distinct_films(W) + b.rewatches >= b.watches BY <2>1, <2>2
  <2>6. b.watches = MapThenSumSet(LAMBDA m : buckets(W)[m], 1..12) BY <2>1, <2>4
  <2> QED BY <2>2, <2>5, <2>6 DEF W, b
<1> QED BY <1>3, <1>4, <1>5, <1>6 DEF YearsAddUp, Years, log

\* In every library and on every day, the years and what has no date make up the all-time
\* block, and the months their year.
THEOREM StatisticsAlwaysAddUp == Spec => []YearsAddUp
<1> QED BY StatisticsAddUp, DueListTyped, PTL

-----------------------------------------------------------------------------
(* The cap of the library *)

\* The counts the cap is computed from, of a log and a day.
YearCounts(log, day) ==
    LET stats == compute(log, day)
    IN  IF YearOf(day) \in DOMAIN stats.years THEN stats.years[YearOf(day)] ELSE block({}, 0)

\* The cap counts the year of today in that log.
LEMMA ThisYearIsCounted == ThisYear = YearCounts(Log, today) /\ ThisYear' = YearCounts(Log', today')
  BY DEF ThisYear, YearCounts

\* They are those of the watches of the year, also in a year without a block.
LEMMA YearCounted ==
    ASSUME NEW log, IsLog(log), NEW day \in Nat
    PROVE  LET counts == YearCounts(log, day)
               n == Cardinality(InYear(log, YearOf(day)))
           IN  /\ counts.watches = n /\ counts.rewatches = n - first_per_year(log, YearOf(day))
               /\ counts.watches \in Nat /\ counts.rewatches \in Nat
<1> DEFINE y == YearOf(day)
           n == Cardinality(InYear(log, y))
           k == first_per_year(log, y)
           counts == YearCounts(log, day)
<1>1. DOMAIN compute(log, day).years = years(log, day) BY DEF compute
<1>2. CASE y \in years(log, day)
  <2>1. counts = compute(log, day).years[y] BY <1>1, <1>2 DEF YearCounts
  <2> HIDE DEF y, counts, n, k
  <2>2. LET b == compute(log, day).years[y]
        IN  b.watches = n /\ b.rewatches = n - k /\ b.watches \in Nat /\ b.rewatches \in Nat
    BY <1>2, YearBlock DEF n, k
  <2>3. /\ counts.watches = n /\ counts.rewatches = n - k
        /\ counts.watches \in Nat /\ counts.rewatches \in Nat
    BY <2>1, <2>2
  <2> QED BY <2>3 DEF y, counts, n, k
<1>3. CASE y \notin years(log, day)
  <2>1. counts = block({}, 0) BY <1>1, <1>3 DEF YearCounts
  <2>2. InYear(log, y) = {}
    <3>1. \A w \in dated(log) : YearOf(w.day) # y BY <1>3, YearsCover
    <3> QED BY <3>1 DEF InYear
  <2>3. n = 0 /\ Cardinality({}) = 0 BY <2>2, FS_EmptySet
  <2>4. k = 0
    <3>1. /\ k \in Nat /\ k <= distinct_films(InYear(log, y))
          /\ distinct_films(InYear(log, y)) \in Nat /\ distinct_films(InYear(log, y)) <= n
      BY FirstsOfYear
    <3> HIDE DEF k, n
    <3> QED BY <3>1, <2>3
  <2>5. counts.watches = 0 /\ counts.rewatches = 0 - 0 BY <2>1, <2>3 DEF block
  <2> HIDE DEF counts, n, k
  <2>6. /\ counts.watches = n /\ counts.rewatches = n - k
        /\ counts.watches \in Nat /\ counts.rewatches \in Nat
    BY <2>3, <2>4, <2>5
  <2> QED BY <2>6 DEF counts, n, k
<1> QED BY <1>2, <1>3

\* What the pace calls for so far.
LEMMA PaceTyped ==
    ASSUME NEW n \in Intervals, n # Off, NEW day \in Nat
    PROVE  expectedWatches(n, day) \in Nat
<1>1. n \in Nat \ {0} BY DueListAssumption
<1>2. day % 365 \in Nat BY DivisionOfNaturals
<1>3. dayOfYear(day) \in Nat BY <1>2 DEF dayOfYear
<1> QED BY <1>1, <1>3, DivisionOfNaturals DEF expectedWatches

\* The cap under a pace is the fewest rewatches that reach the share of its watches.
LEMMA PacedCapIsFewest ==
    ASSUME NEW share \in 0..99, NEW rewatches \in Nat, NEW expected \in Nat
    PROVE  LET k == PacedCap(share, rewatches, expected)
           IN  /\ k \in Nat
               /\ 100 * (rewatches + k) >= share * expected
               /\ k > 0 => 100 * (rewatches + (k - 1)) < share * expected
<1> DEFINE goal == share * expected
           a == expected * share - 100 * rewatches
           k == PacedCap(share, rewatches, expected)
<1>1. goal \in Int /\ goal = expected * share OBVIOUS
<1>2. a \in Int /\ a = goal - 100 * rewatches BY <1>1
<1>3. k = Wanted(a, 100) BY DEF PacedCap
<1> HIDE DEF a, k
<1>4. k \in Nat /\ 100 * k >= a /\ (k > 0 => 100 * (k - 1) < a) BY <1>2, <1>3, WantedIsLeast
<1> HIDE DEF goal
<1>5. /\ 100 * (rewatches + k) >= goal
      /\ k > 0 => 100 * (rewatches + (k - 1)) < goal
  BY <1>1, <1>2, <1>4
<1> QED BY <1>4, <1>5 DEF k, goal

\* With the cap's rewatches the share is reached, with fewer it is not, of whatever the
\* library holds.
LEMMA CapReachesShare ==
    ASSUME TypeOK PROVE CapIsFewest
<1> DEFINE w == ThisYear.watches
           r == ThisYear.rewatches
<1>1. today \in Nat BY DueListAssumption DEF TypeOK
<1>2. w \in Nat /\ r \in Nat
  <2>1. IsLog(Log) BY LogIsOfHistory, LogIsOne DEF TypeOK
  <2> QED BY <2>1, <1>1, ThisYearIsCounted, YearCounted
<1> HIDE DEF w, r
<1> SUFFICES ASSUME NEW s \in Shares, NEW n \in Intervals
             PROVE  LET Reached(k) == 100 * (r + k)
                                        >= s * (IF n = Off THEN w + k ELSE expectedWatches(n, today))
                        k == cap(s, n)
                    IN  Reached(k) /\ (k > 0 => ~Reached(k - 1))
  BY DEF CapIsFewest, w, r
<1>3. s \in 0..99 BY DueListAssumption
<1>4. CASE n = Off
  <2> DEFINE k == ShareCap(s, w, r)
  <2>1. cap(s, n) = k BY <1>4 DEF cap, rewatchCap, w, r
  <2>2. /\ k \in Nat /\ 100 * (r + k) >= s * (w + k)
        /\ k > 0 => 100 * (r + (k - 1)) < s * (w + (k - 1))
    BY <1>2, <1>3, ShareCapIsFewest
  <2> HIDE DEF k
  <2>3. s * (w + (k - 1)) \in Int /\ 100 * (r + (k - 1)) \in Int BY <1>2, <1>3, <2>2
  <2>4. k > 0 => ~(100 * (r + (k - 1)) >= s * (w + (k - 1)))
    <3> DEFINE a == 100 * (r + (k - 1))
               b == s * (w + (k - 1))
    <3>1. a \in Int /\ b \in Int /\ (k > 0 => a < b) BY <2>2, <2>3
    <3> HIDE DEF a, b
    <3>2. k > 0 => ~(a >= b) BY <3>1
    <3> QED BY <3>2 DEF a, b
  <2> QED BY <2>1, <2>2, <2>4, <1>4
<1>5. CASE n # Off
  <2> DEFINE e == expectedWatches(n, today)
             k == PacedCap(s, r, e)
  <2>1. cap(s, n) = k BY <1>5 DEF cap, rewatchCap, w, r
  <2>2. e \in Nat BY <1>1, <1>5, PaceTyped
  <2> HIDE DEF e
  <2>3. /\ k \in Nat /\ 100 * (r + k) >= s * e
        /\ k > 0 => 100 * (r + (k - 1)) < s * e
    BY <1>2, <1>3, <2>2, PacedCapIsFewest
  <2> HIDE DEF k
  <2>4. k > 0 => ~(100 * (r + (k - 1)) >= s * e)
    <3> DEFINE a == 100 * (r + (k - 1))
               b == s * e
    <3>1. a \in Int /\ b \in Int /\ (k > 0 => a < b) BY <1>2, <1>3, <2>2, <2>3
    <3> HIDE DEF a, b
    <3>2. k > 0 => ~(a >= b) BY <3>1
    <3> QED BY <3>2 DEF a, b
  <2> QED BY <2>1, <2>3, <2>4, <1>5 DEF e
<1> QED BY <1>4, <1>5

\* "The fewest additional rewatches still needed", of every library, share and pace.
THEOREM CapAlwaysFewest == Spec => []CapIsFewest
<1> QED BY CapReachesShare, DueListTyped, PTL

\* What one more watch e of a film that was seen before that day does to a log: the film's
\* first watch stays, and the year has one more watch.
LEMMA WatchAgain ==
    ASSUME NEW log, IsLog(log), NEW e, e \notin log, IsLog(log \cup {e}),
           e.day \in Nat,
           \E w \in log : w.film = e.film,
           \A w \in log : w.film = e.film => w.day < e.day
    PROVE  LET y == YearOf(e.day)
               more == log \cup {e}
           IN  /\ first_per_year(more, y) = first_per_year(log, y)
               /\ Cardinality(InYear(more, y)) = Cardinality(InYear(log, y)) + 1
<1> DEFINE y == YearOf(e.day)
           more == log \cup {e}
           f == e.film
           Own(l) == {v \in dated(l) : v.film = f}
           Days(l) == {w.day : w \in Own(l)}
<1>1. e.day # EARLIER_WATCH_DATE BY DEF EARLIER_WATCH_DATE
<1>2. dated(more) = dated(log) \cup {e} BY <1>1 DEF dated
<1>3. undated_films(more) = undated_films(log)
  <2>1. more \ dated(more) = log \ dated(log) BY <1>1 DEF dated
  <2> QED BY <2>1 DEF undated_films
<1>4. PICK w \in log : w.film = f OBVIOUS
<1>5. f \in undated_films(log) \/ \E v \in dated(log) : v.film = f
  BY <1>4 DEF undated_films
<1>6. DOMAIN first_seen(more) = DOMAIN first_seen(log)
  <2>1. DOMAIN first_seen(more) = {v.film : v \in dated(more)} \ undated_films(more)
    BY DEF first_seen
  <2>2. DOMAIN first_seen(log) = {v.film : v \in dated(log)} \ undated_films(log)
    BY DEF first_seen
  <2>3. {v.film : v \in dated(more)} = {v.film : v \in dated(log)} \cup {f} BY <1>2
  <2>4. CASE f \in undated_films(log) BY <2>1, <2>2, <2>3, <2>4, <1>3
  <2>5. CASE \E v \in dated(log) : v.film = f
    <3>1. f \in {v.film : v \in dated(log)} BY <2>5
    <3> QED BY <2>1, <2>2, <2>3, <3>1, <1>3
  <2> QED BY <2>4, <2>5, <1>5
<1>7. ASSUME NEW g \in DOMAIN first_seen(log)
      PROVE  first_seen(more)[g] = first_seen(log)[g]
  <2>1. /\ first_seen(more)[g] = FirstDay({v.day : v \in {u \in dated(more) : u.film = g}})
        /\ first_seen(log)[g] = FirstDay({v.day : v \in {u \in dated(log) : u.film = g}})
    BY <1>6 DEF first_seen
  <2>2. CASE g # f
    <3>1. {u \in dated(more) : u.film = g} = {u \in dated(log) : u.film = g} BY <1>2, <2>2
    <3> QED BY <2>1, <3>1
  <2>3. CASE g = f
    <3>1. first_seen(more)[g] = Min(Days(more)) /\ first_seen(log)[g] = Min(Days(log))
      BY <2>1, <2>3 DEF FirstDay
    <3>2. Days(more) = Days(log) \cup {e.day} BY <1>2
    <3>3. Days(log) # {}
      <4>1. \E v \in dated(log) : v.film = f BY <2>3, FirstIsDated
      <4> QED BY <4>1
    <3>4. /\ Days(log) \in SUBSET Nat
          /\ \A d \in Days(log) : d < e.day
      BY DEF dated, IsLog
    <3> DEFINE A == Days(log)
               B == Days(more)
    <3> HIDE DEF Days
    <3>5. Min(A) \in A /\ \A d \in A : Min(A) <= d BY <3>3, <3>4, MinOfNaturals
    <3>6. B \in SUBSET Nat /\ B # {} BY <3>2, <3>4
    <3>7. Min(B) \in B /\ \A d \in B : Min(B) <= d BY <3>6, MinOfNaturals
    <3>8. Min(A) \in B /\ Min(A) \in Nat /\ Min(B) \in Nat /\ Min(A) < e.day
      BY <3>2, <3>4, <3>5, <3>6, <3>7
    <3>9. Min(B) <= Min(A) BY <3>7, <3>8
    <3>10. Min(B) \in A
      <4> DEFINE a == Min(A)
                 b == Min(B)
      <4>1. B = A \cup {e.day} BY <3>2
      <4> HIDE DEF A, B
      <4>2. a \in Nat /\ b \in Nat /\ b <= a /\ a < e.day /\ b \in B BY <3>7, <3>8, <3>9
      <4> HIDE DEF a, b
      <4>3. b # e.day BY <4>2
      <4>4. b \in A BY <4>1, <4>2, <4>3
      <4> QED BY <4>4 DEF b
    <3>11. Min(A) <= Min(B) BY <3>5, <3>10
    <3> QED BY <3>1, <3>8, <3>9, <3>11
  <2> QED BY <2>2, <2>3
<1>8. first_per_year(more, y) = first_per_year(log, y) BY <1>6, <1>7 DEF first_per_year
<1>9. InYear(more, y) = InYear(log, y) \cup {e} BY <1>2 DEF InYear
<1>10. Cardinality(InYear(more, y)) = Cardinality(InYear(log, y)) + 1
  <2>1. IsFiniteSet(InYear(log, y)) BY YearsPart DEF IsLog
  <2>2. e \notin InYear(log, y) BY DEF InYear, dated
  <2> QED BY <1>9, <2>1, <2>2, FS_AddElement
<1> QED BY <1>8, <1>10

\* A step that lengthens the history of a film logs one watch of it, on the day of the step,
\* and adds its entry to the log.
LEMMA LoggedWatch ==
    ASSUME TypeOK, [Next]_vars, NEW f \in Library, Len(history'[f]) > Len(history[f])
    PROVE  LET e == EntryOf(history', f, Len(history[f]) + 1)
           IN  /\ today' = today
               /\ e.film = f /\ e.day = Last(history'[f]).day /\ e.value = Last(history'[f]).value
               /\ e \notin Log /\ Log' = Log \cup {e}
<1> DEFINE n == Len(history[f]) + 1
           e == EntryOf(history', f, n)
<1>1. f \in Films /\ history[f] \in Seq(Watch) /\ Len(history[f]) \in Nat BY DEF TypeOK, Library
<1>2. PICK w \in Watch : LogWatch(f, w)
  <2>1. CASE UNCHANGED vars BY <2>1, <1>1 DEF vars
  <2>2. CASE Tick BY <2>2, <1>1 DEF Tick
  <2>3. ASSUME NEW g \in Films, NEW w \in Watch, LogWatch(g, w)
        PROVE  \E v \in Watch : LogWatch(f, v)
    <3>1. CASE g = f BY <2>3, <3>1
    <3>2. CASE g # f
      <4>1. history'[f] = history[f] BY <2>3, <3>2, <1>1 DEF LogWatch, TypeOK
      <4> QED BY <4>1, <1>1
    <3> QED BY <3>1, <3>2
  <2>4. ASSUME NEW g \in Films, NEW i \in DOMAIN history[g], DeleteWatch(g, i)
        PROVE  FALSE
    <3>1. history' = [history EXCEPT ![g] = RemoveAt(history[g], i)] BY <2>4 DEF DeleteWatch
    <3>2. CASE g = f
      <4>1. i \in 1..Len(history[f]) BY <3>2, <1>1
      <4>2. history'[f] = RemoveAt(history[f], i) BY <3>1, <3>2, <1>1 DEF TypeOK
      <4>3. Len(history'[f]) = Len(history[f]) - 1 BY <4>1, <4>2, <1>1, Removed
      <4> QED BY <4>3, <1>1
    <3>3. CASE g # f
      <4>1. history'[f] = history[f] BY <3>1, <3>3, <1>1 DEF TypeOK
      <4> QED BY <4>1, <1>1
    <3> QED BY <3>2, <3>3
  <2>5. ASSUME NEW g \in Films, NEW m \in Marks, EditFilm(g, m) PROVE FALSE
    BY <2>5, <1>1 DEF EditFilm
  <2> QED BY <2>1, <2>2, <2>3, <2>4, <2>5 DEF Next
<1>3. history' = [history EXCEPT ![f] = Append(history[f], w)] /\ today' = today
  BY <1>2 DEF LogWatch
<1>4. /\ history'[f] = Append(history[f], w)
      /\ \A g \in Films : g # f => history'[g] = history[g]
  BY <1>3, <1>1 DEF TypeOK
<1>5. /\ Append(history[f], w) \in Seq(Watch) /\ Len(Append(history[f], w)) = n
      /\ \A i \in 1..Len(history[f]) : Append(history[f], w)[i] = history[f][i]
      /\ Append(history[f], w)[n] = w
  BY <1>1, Appended
<1>6. DOMAIN history[f] = 1..Len(history[f]) /\ DOMAIN history'[f] = 1..n BY <1>1, <1>4, <1>5
<1>7. e.film = f /\ e.entry = n BY DEF EntryOf
<1>8. e.day = Last(history'[f]).day /\ e.value = Last(history'[f]).value
  BY <1>4, <1>5 DEF EntryOf, Last
<1>9. e \notin Log
  <2> SUFFICES ASSUME e \in LogOf(history) PROVE FALSE BY LogIsOfHistory
  <2>1. e.entry \in DOMAIN history[e.film] BY LogIsOne DEF TypeOK
  <2> QED BY <2>1, <1>1, <1>6, <1>7
<1>10. history \in [Films -> Seq(Watch)] /\ history' \in [Films -> Seq(Watch)]
  BY DueListTypeStep DEF TypeOK
<1>11. \A g \in Films : \A i \in DOMAIN history[g] :
         i \in DOMAIN history'[g] /\ EntryOf(history', g, i) = EntryOf(history, g, i)
  <2> TAKE g \in Films
  <2> TAKE i \in DOMAIN history[g]
  <2>1. i \in DOMAIN history'[g] /\ history'[g][i] = history[g][i]
    <3>1. CASE g = f
      <4>1. i \in 1..Len(history[f]) BY <3>1, <1>6
      <4>2. i \in 1..n BY <4>1, <1>1
      <4> QED BY <3>1, <4>1, <4>2, <1>4, <1>5, <1>6
    <3>2. CASE g # f BY <3>2, <1>4
    <3> QED BY <3>1, <3>2
  <2> QED BY <2>1 DEF EntryOf
<1> HIDE DEF e
<1>12. \A x \in LogOf(history) : x \in LogOf(history')
  <2> TAKE x \in LogOf(history)
  <2>1. x.film \in Films /\ x.entry \in DOMAIN history[x.film]
        /\ x = EntryOf(history, x.film, x.entry)
    BY <1>10, LogIsOne
  <2>2. x.entry \in DOMAIN history'[x.film] /\ x = EntryOf(history', x.film, x.entry)
    BY <2>1, <1>11
  <2>3. EntryOf(history', x.film, x.entry) \in LogOf(history') BY <2>1, <2>2, <1>10, LogIsOne
  <2> QED BY <2>2, <2>3
<1>13. e \in LogOf(history')
  <2>1. n \in DOMAIN history'[f] BY <1>1, <1>6
  <2> QED BY <2>1, <1>1, <1>10, LogIsOne DEF e
<1>14. \A x \in LogOf(history') : x \in LogOf(history) \/ x = e
  <2> TAKE x \in LogOf(history')
  <2>1. x.film \in Films /\ x.entry \in DOMAIN history'[x.film]
        /\ x = EntryOf(history', x.film, x.entry)
    BY <1>10, LogIsOne
  <2>2. CASE x.entry \in DOMAIN history[x.film]
    <3>1. x = EntryOf(history, x.film, x.entry) BY <2>1, <2>2, <1>11
    <3>2. EntryOf(history, x.film, x.entry) \in LogOf(history) BY <2>1, <2>2, <1>10, LogIsOne
    <3> QED BY <3>1, <3>2
  <2>3. CASE x.entry \notin DOMAIN history[x.film]
    <3>1. x.film = f BY <2>1, <2>3, <1>4
    <3>2. x.entry \in 1..n /\ x.entry \notin 1..Len(history[f]) BY <2>1, <2>3, <3>1, <1>6
    <3>3. x.entry = n BY <3>2, <1>1
    <3> QED BY <2>1, <3>1, <3>3 DEF e
  <2> QED BY <2>2, <2>3
<1>15. LogOf(history') = LogOf(history) \cup {e} BY <1>12, <1>13, <1>14
<1> QED BY <1>3, <1>7, <1>8, <1>9, <1>15, LogIsOfHistory DEF e

\* Watching a film of the due-list today is a rewatch of the year: one more watch and one more
\* rewatch.
LEMMA DueWatchIsRewatch ==
    ASSUME TypeOK, [Next]_vars, NEW f \in Library, Len(history'[f]) > Len(history[f]),
           Last(history'[f]).day = today, f \in ToSet(due_list)
    PROVE  /\ today' = today /\ today \in Nat
           /\ ThisYear.watches \in Nat /\ ThisYear.rewatches \in Nat
           /\ ThisYear'.watches = ThisYear.watches + 1
           /\ ThisYear'.rewatches = ThisYear.rewatches + 1
<1> DEFINE e == EntryOf(history', f, Len(history[f]) + 1)
           y == YearOf(today)
<1>1. /\ today' = today /\ e.film = f /\ e.day = Last(history'[f]).day
      /\ e \notin Log /\ Log' = Log \cup {e}
  BY LoggedWatch
<1>2. today \in Nat BY DueListAssumption DEF TypeOK
<1>3. history \in [Films -> Seq(Watch)] /\ history' \in [Films -> Seq(Watch)]
  BY DueListTypeStep DEF TypeOK
<1>4. IsLog(Log) /\ IsLog(Log') BY <1>3, LogIsOfHistory, LogIsOne
<1> HIDE DEF e
<1>5. e.day = today BY <1>1
<1>6. \A w \in Log : w.film = f => w.day < today
  <2> SUFFICES ASSUME NEW w \in Log, w.film = f PROVE w.day < today OBVIOUS
  <2>1. w.entry \in DOMAIN history[f] /\ w.day = history[f][w.entry].day
    BY <1>3, LogIsOfHistory, LogIsOne
  <2>2. w.day + (IF marks[f].is_favorite THEN 183 ELSE 365) <= today
    BY <2>1, DueFilmRested
  <2>3. w.day \in Int BY <1>4 DEF IsLog
  <2> QED BY <2>2, <2>3, <1>2
<1>7. \E w \in Log : w.film = f
  <2>1. f \in Films /\ history[f] \in Seq(Watch) /\ history[f] # <<>> BY <1>3 DEF Library
  <2>2. 1 \in DOMAIN history[f] BY <2>1
  <2>3. EntryOf(history, f, 1) \in Log BY <1>3, <2>1, <2>2, LogIsOfHistory, LogIsOne
  <2>4. EntryOf(history, f, 1).film = f BY DEF EntryOf
  <2> QED BY <2>3, <2>4
<1> DEFINE log == Log
           more == Log'
<1>8. more = log \cup {e} BY <1>1
<1>9. ThisYear = YearCounts(log, today) /\ ThisYear' = YearCounts(more, today)
  BY <1>1, ThisYearIsCounted
<1> HIDE DEF log, more
<1>10. IsLog(log) /\ IsLog(more) /\ e \notin log BY <1>1, <1>4 DEF log, more
<1>11. /\ e.day \in Nat /\ e.film = f
       /\ \E w \in log : w.film = f
       /\ \A w \in log : w.film = f => w.day < e.day
  BY <1>1, <1>2, <1>5, <1>6, <1>7 DEF log
<1>12. /\ first_per_year(more, y) = first_per_year(log, y)
       /\ Cardinality(InYear(more, y)) = Cardinality(InYear(log, y)) + 1
  BY <1>5, <1>8, <1>10, <1>11, WatchAgain
<1> DEFINE n == Cardinality(InYear(log, y))
           m == Cardinality(InYear(more, y))
           k == first_per_year(log, y)
<1>13. /\ ThisYear.watches = n /\ ThisYear.rewatches = n - k
       /\ ThisYear.watches \in Nat /\ ThisYear.rewatches \in Nat
  BY <1>2, <1>9, <1>10, YearCounted
<1>14. ThisYear'.watches = m /\ ThisYear'.rewatches = m - first_per_year(more, y)
  BY <1>2, <1>9, <1>10, YearCounted
<1>15. m = n + 1 /\ first_per_year(more, y) = k BY <1>12
<1>16. k \in Nat BY <1>10, FirstsOfYear
<1> HIDE DEF n, m, k
<1>17. ThisYear'.watches = ThisYear.watches + 1 BY <1>13, <1>14, <1>15
<1>18. ThisYear'.rewatches = ThisYear.rewatches + 1
  <2>1. n \in Nat BY <1>13
  <2> QED BY <2>1, <1>13, <1>14, <1>15, <1>16
<1> QED BY <1>1, <1>2, <1>13, <1>17, <1>18

\* The cap falls by one.
LEMMA DueWatchCounts ==
    ASSUME TypeOK, [Next]_vars, NEW f \in Library, Len(history'[f]) > Len(history[f]),
           Last(history'[f]).day = today, f \in ToSet(due_list),
           NEW s \in Shares, NEW n \in Intervals
    PROVE  cap(s, n)' = IF cap(s, n) > 0 THEN cap(s, n) - 1 ELSE 0
<1> DEFINE w == ThisYear.watches
           r == ThisYear.rewatches
<1>1. /\ today' = today /\ today \in Nat /\ w \in Nat /\ r \in Nat
      /\ ThisYear'.watches = w + 1 /\ ThisYear'.rewatches = r + 1
  BY DueWatchIsRewatch
<1>2. /\ cap(s, n) = rewatchCap(s, w, r, n, today)
      /\ cap(s, n)' = rewatchCap(s, w + 1, r + 1, n, today)
  BY <1>1 DEF cap
<1> HIDE DEF w, r
<1>3. s \in 0..99 BY DueListAssumption
<1>4. CASE n = Off
  <2>1. /\ rewatchCap(s, w, r, n, today) = ShareCap(s, w, r)
        /\ rewatchCap(s, w + 1, r + 1, n, today) = ShareCap(s, w + 1, r + 1)
    BY <1>4 DEF rewatchCap
  <2>2. LET k == ShareCap(s, w, r)
        IN  ShareCap(s, w + 1, r + 1) = IF k > 0 THEN k - 1 ELSE 0
    BY <1>1, <1>3, RewatchTakesOneOff
  <2> QED BY <1>2, <2>1, <2>2
<1>5. CASE n # Off
  <2> DEFINE e == expectedWatches(n, today)
  <2>1. e \in Nat BY <1>1, <1>5, PaceTyped
  <2>2. /\ rewatchCap(s, w, r, n, today) = PacedCap(s, r, e)
        /\ rewatchCap(s, w + 1, r + 1, n, today) = PacedCap(s, r + 1, e)
    BY <1>5 DEF rewatchCap
  <2> HIDE DEF e
  <2>3. LET p == PacedCap(s, r, e)
        IN  PacedCap(s, r + 1, e) = IF p > 0 THEN p - 1 ELSE 0
    BY <1>1, <1>3, <2>1, RewatchTakesOneOff
  <2> QED BY <1>2, <2>2, <2>3
<1> QED BY <1>4, <1>5

\* Each rewatch the list asked for takes one off what it still asks for, in every library.
THEOREM CapAlwaysCountsDown == Spec => CapCountsDown
<1>1. TypeOK /\ TypeOK' /\ [Next]_vars =>
        [\A f \in Library :
           Len(history'[f]) > Len(history[f]) /\ Last(history'[f]).day = today
             /\ f \in ToSet(due_list)
           => \A s \in Shares, n \in Intervals :
                cap(s, n)' = IF cap(s, n) > 0 THEN cap(s, n) - 1 ELSE 0]_vars
  BY DueWatchCounts
<1> QED BY <1>1, DueListTyped, PTL DEF Spec, CapCountsDown

-----------------------------------------------------------------------------
(* The top lists *)

\* The standings of keys with a rated watch.
Standings == [key : Nat, watches : Nat \ {0}, half_stars : Nat \ {0}, rated : Nat \ {0}]

\* Quotients of positive numbers, compared crosswise, are in order.
LEMMA QuotientsInOrder ==
    ASSUME NEW a \in Nat \ {0}, NEW p \in Nat \ {0}, NEW b \in Nat \ {0}, NEW q \in Nat \ {0},
           NEW c \in Nat \ {0}, NEW r \in Nat \ {0},
           a * q >= b * p, b * r >= c * q
    PROVE  /\ a * r >= c * p
           /\ a * q > b * p \/ b * r > c * q => a * r > c * p
           /\ a * q = b * p /\ b * r = c * q => a * r = c * p
<1>1. \A x, y \in Int, n \in Nat \ {0} : /\ x >= y <=> n * x >= n * y
                                         /\ x > y <=> n * x > n * y
                                         /\ x = y <=> n * x = n * y
  <2> TAKE x, y \in Int, n \in Nat \ {0}
  <2>1. ASSUME NEW u \in Int, NEW v \in Int, u > v PROVE n * u > n * v
    <3>1. n * (u - v) = n * u - n * v OBVIOUS
    <3>2. n * (u - v) > 0
      <4> DEFINE d == u - v
      <4>1. d \in Nat \ {0} BY <2>1
      <4> HIDE DEF d
      <4>2. n * d > 0 BY <4>1
      <4> QED BY <4>2 DEF d
    <3>3. n * u \in Int /\ n * v \in Int OBVIOUS
    <3> QED BY <3>1, <3>2, <3>3
  <2>2. n * x \in Int /\ n * y \in Int OBVIOUS
  <2>3. x > y => n * x > n * y BY <2>1
  <2>4. y > x => n * y > n * x BY <2>1
  <2>5. x = y => n * x = n * y OBVIOUS
  <2>6. x > y \/ y > x \/ x = y OBVIOUS
  <2> QED BY <2>2, <2>3, <2>4, <2>5, <2>6
<1>2. /\ r * (a * q) = q * (a * r) /\ r * (b * p) = p * (b * r) /\ p * (c * q) = q * (c * p)
  OBVIOUS
<1>3. /\ a * q \in Int /\ b * p \in Int /\ b * r \in Int /\ c * q \in Int
      /\ a * r \in Int /\ c * p \in Int
  OBVIOUS
<1>4. q * (a * r) >= p * (b * r) /\ p * (b * r) >= q * (c * p)
  <2>1. r * (a * q) >= r * (b * p) BY <1>1, <1>3
  <2>2. p * (b * r) >= p * (c * q) BY <1>1, <1>3
  <2> QED BY <2>1, <2>2, <1>2
<1>5. a * q > b * p => q * (a * r) > p * (b * r)
  <2>1. a * q > b * p => r * (a * q) > r * (b * p) BY <1>1, <1>3
  <2> QED BY <2>1, <1>2
<1>6. b * r > c * q => p * (b * r) > q * (c * p)
  <2>1. b * r > c * q => p * (b * r) > p * (c * q) BY <1>1, <1>3
  <2> QED BY <2>1, <1>2
<1>7. a * q = b * p => q * (a * r) = p * (b * r)
  <2>1. a * q = b * p => r * (a * q) = r * (b * p) OBVIOUS
  <2> QED BY <2>1, <1>2
<1>8. b * r = c * q => p * (b * r) = q * (c * p)
  <2>1. b * r = c * q => p * (b * r) = p * (c * q) OBVIOUS
  <2> QED BY <2>1, <1>2
<1> DEFINE x == a * r
           y == c * p
           z == p * (b * r)
<1>9. x \in Int /\ y \in Int /\ z \in Int /\ q * x \in Int /\ q * y \in Int
  <2>1. x \in Int /\ y \in Int /\ z \in Int BY <1>3
  <2> HIDE DEF x, y
  <2> QED BY <2>1
<1>10. /\ q * x >= z /\ z >= q * y
       /\ a * q > b * p => q * x > z
       /\ b * r > c * q => z > q * y
       /\ a * q = b * p => q * x = z
       /\ b * r = c * q => z = q * y
  BY <1>4, <1>5, <1>6, <1>7, <1>8
<1> HIDE DEF x, y, z
<1>11. /\ q * x >= q * y => x >= y
       /\ q * x > q * y => x > y
       /\ q * x = q * y => x = y
  BY <1>1, <1>9
<1>12. /\ x >= y
       /\ a * q > b * p \/ b * r > c * q => x > y
       /\ a * q = b * p /\ b * r = c * q => x = y
  BY <1>9, <1>10, <1>11
<1> QED BY <1>12 DEF x, y

\* The score of a key over that of another, and its average over the other's, as quotients.
Weight(a) == a.watches * a.half_stars

\* The cross-multiplied scores of a ranking, and the counts they are made of.
LEMMA ScoresAreQuotients ==
    ASSUME NEW a \in Standings, NEW b \in Standings
    PROVE  /\ Score(a, b) = Weight(a) * b.rated /\ Average(a, b) = a.half_stars * b.rated
           /\ Weight(a) \in Nat \ {0} /\ a.half_stars \in Nat \ {0} /\ a.rated \in Nat \ {0}
           /\ a.key \in Nat
<1>1. /\ a.watches \in Nat \ {0} /\ a.half_stars \in Nat \ {0} /\ a.rated \in Nat \ {0}
      /\ b.rated \in Nat \ {0} /\ a.key \in Nat
  BY DEF Standings
<1>2. \A m, n \in Nat \ {0} : m * n \in Nat \ {0} OBVIOUS
<1>3. \A m, n, k \in Nat : m * (n * k) = (m * n) * k OBVIOUS
<1> QED BY <1>1, <1>2, <1>3 DEF Score, Average, Weight

\* The order of a top list is a strict one, of any standings of different keys.
LEMMA RanksAreOrdered ==
    ASSUME NEW a \in Standings, NEW b \in Standings, NEW c \in Standings
    PROVE  /\ ~RanksBefore(a, a)
           /\ RanksBefore(a, b) /\ RanksBefore(b, c) => RanksBefore(a, c)
           /\ a.key # b.key => RanksBefore(a, b) \/ RanksBefore(b, a)
<1>1. \A x, y \in {a, b, c} :
        /\ Score(x, y) = Weight(x) * y.rated /\ Average(x, y) = x.half_stars * y.rated
        /\ Weight(x) \in Nat \ {0} /\ x.half_stars \in Nat \ {0} /\ x.rated \in Nat \ {0}
        /\ x.key \in Nat
  BY ScoresAreQuotients
<1>2. \A m, n \in Nat \ {0} : m * n \in Nat OBVIOUS
<1>3. \A x, y \in {a, b, c} : Score(x, y) \in Nat /\ Average(x, y) \in Nat /\ x.key \in Nat
  BY <1>1, <1>2
<1>4. ~RanksBefore(a, a)
  <2>1. Score(a, a) \in Nat /\ Average(a, a) \in Nat /\ a.key \in Nat BY <1>3
  <2> QED BY <2>1 DEF RanksBefore
<1>5. a.key # b.key => RanksBefore(a, b) \/ RanksBefore(b, a)
  <2>1. /\ Score(a, b) \in Nat /\ Average(a, b) \in Nat /\ a.key \in Nat
        /\ Score(b, a) \in Nat /\ Average(b, a) \in Nat /\ b.key \in Nat
    BY <1>3
  <2> QED BY <2>1 DEF RanksBefore
<1>6. ASSUME RanksBefore(a, b), RanksBefore(b, c) PROVE RanksBefore(a, c)
  <2>1. /\ Score(a, b) \in Nat /\ Average(a, b) \in Nat /\ Score(b, a) \in Nat
        /\ Average(b, a) \in Nat /\ Score(b, c) \in Nat /\ Average(b, c) \in Nat
        /\ Score(c, b) \in Nat /\ Average(c, b) \in Nat /\ Score(a, c) \in Nat
        /\ Average(a, c) \in Nat /\ Score(c, a) \in Nat /\ Average(c, a) \in Nat
        /\ a.key \in Nat /\ b.key \in Nat /\ c.key \in Nat
    BY <1>3
  <2>2. /\ Score(a, b) >= Score(b, a) /\ Score(b, c) >= Score(c, b)
    BY <1>6, <2>1 DEF RanksBefore
  <2>3. /\ Score(a, c) >= Score(c, a)
        /\ Score(a, b) > Score(b, a) \/ Score(b, c) > Score(c, b) => Score(a, c) > Score(c, a)
        /\ Score(a, b) = Score(b, a) /\ Score(b, c) = Score(c, b) => Score(a, c) = Score(c, a)
    <3> DEFINE ta == Weight(a)
               tb == Weight(b)
               tc == Weight(c)
               ra == a.rated
               rb == b.rated
               rc == c.rated
    <3>1. /\ Score(a, b) = ta * rb /\ Score(b, a) = tb * ra /\ Score(b, c) = tb * rc
          /\ Score(c, b) = tc * rb /\ Score(a, c) = ta * rc /\ Score(c, a) = tc * ra
          /\ ta \in Nat \ {0} /\ tb \in Nat \ {0} /\ tc \in Nat \ {0}
          /\ ra \in Nat \ {0} /\ rb \in Nat \ {0} /\ rc \in Nat \ {0}
      BY <1>1
    <3> HIDE DEF ta, tb, tc, ra, rb, rc
    <3>2. ta * rb >= tb * ra /\ tb * rc >= tc * rb BY <2>2, <3>1
    <3>3. /\ ta * rc >= tc * ra
          /\ ta * rb > tb * ra \/ tb * rc > tc * rb => ta * rc > tc * ra
          /\ ta * rb = tb * ra /\ tb * rc = tc * rb => ta * rc = tc * ra
      BY <3>1, <3>2, QuotientsInOrder
    <3> QED BY <3>1, <3>3
  <2>4. ASSUME Average(a, b) >= Average(b, a), Average(b, c) >= Average(c, b)
        PROVE  /\ Average(a, c) >= Average(c, a)
               /\ Average(a, b) > Average(b, a) \/ Average(b, c) > Average(c, b)
                    => Average(a, c) > Average(c, a)
               /\ Average(a, b) = Average(b, a) /\ Average(b, c) = Average(c, b)
                    => Average(a, c) = Average(c, a)
    <3> DEFINE ta == a.half_stars
               tb == b.half_stars
               tc == c.half_stars
               ra == a.rated
               rb == b.rated
               rc == c.rated
    <3>1. /\ Average(a, b) = ta * rb /\ Average(b, a) = tb * ra /\ Average(b, c) = tb * rc
          /\ Average(c, b) = tc * rb /\ Average(a, c) = ta * rc /\ Average(c, a) = tc * ra
          /\ ta \in Nat \ {0} /\ tb \in Nat \ {0} /\ tc \in Nat \ {0}
          /\ ra \in Nat \ {0} /\ rb \in Nat \ {0} /\ rc \in Nat \ {0}
      BY <1>1
    <3> HIDE DEF ta, tb, tc, ra, rb, rc
    <3>2. ta * rb >= tb * ra /\ tb * rc >= tc * rb BY <2>4, <3>1
    <3>3. /\ ta * rc >= tc * ra
          /\ ta * rb > tb * ra \/ tb * rc > tc * rb => ta * rc > tc * ra
          /\ ta * rb = tb * ra /\ tb * rc = tc * rb => ta * rc = tc * ra
      BY <3>1, <3>2, QuotientsInOrder
    <3> QED BY <3>1, <3>3
  <2>5. CASE Score(a, b) > Score(b, a) \/ Score(b, c) > Score(c, b)
    BY <2>3, <2>5 DEF RanksBefore
  <2>6. CASE Score(a, b) = Score(b, a) /\ Score(b, c) = Score(c, b)
    <3>1. /\ Average(a, b) > Average(b, a)
             \/ (Average(a, b) = Average(b, a) /\ a.key < b.key)
          /\ Average(b, c) > Average(c, b)
             \/ (Average(b, c) = Average(c, b) /\ b.key < c.key)
      BY <1>6, <2>1, <2>6 DEF RanksBefore
    <3>2. Average(a, b) >= Average(b, a) /\ Average(b, c) >= Average(c, b) BY <3>1, <2>1
    <3>3. Average(a, c) > Average(c, a)
          \/ (Average(a, c) = Average(c, a) /\ a.key < c.key)
      BY <2>1, <2>4, <3>1, <3>2
    <3> QED BY <2>3, <2>6, <3>3 DEF RanksBefore
  <2> QED BY <2>1, <2>2, <2>5, <2>6
<1> QED BY <1>4, <1>5, <1>6

\* A log whose keys can be counted and ranked.
IsKeyed(log, keys) ==
    /\ IsFiniteSet(log)
    /\ \A w \in log : /\ IsFiniteSet(keys[w.film]) /\ keys[w.film] \subseteq Nat
                      /\ w.value # Unscored => w.value \in 1..10

\* The keys that have a rated watch, the watches of a key, and its standing among them.
Counted(log, keys) == UNION {keys[w.film] : w \in rated(log)}
WatchesOf(log, keys, k) == {w \in log : k \in keys[w.film]}
StandingIn(log, keys, k) == Standing(k, WatchesOf(log, keys, k))
StandingsIn(log, keys) == {StandingIn(log, keys, k) : k \in Counted(log, keys)}

\* The half stars of the watches of a log, as a sum.
HalfStars(part) == SumOf([w \in part |-> w.value], part)

\* What a standing holds is counted from the watches of its key.
LEMMA StandingFields ==
    ASSUME NEW log, NEW keys, NEW k
    PROVE  LET s == StandingIn(log, keys, k)
               own == WatchesOf(log, keys, k)
           IN  /\ s.key = k /\ s.watches = Cardinality(own)
               /\ s.rated = Cardinality(rated(own)) /\ s.half_stars = HalfStars(rated(own))
               /\ s = [key |-> k, watches |-> Cardinality(own), half_stars |-> s.half_stars,
                       rated |-> s.rated]
<1> DEFINE s == StandingIn(log, keys, k)
           own == WatchesOf(log, keys, k)
           stars == MapThenSumSet(LAMBDA w : w.value, rated(own))
<1>1. s = [key |-> k, watches |-> Cardinality(own), half_stars |-> stars,
           rated |-> Cardinality(rated(own))]
  BY DEF StandingIn, Standing, OfRated
<1>2. stars = HalfStars(rated(own))
  BY ZenonT(60) DEF HalfStars, SumOf, MapThenSumSet, MapThenFoldSet
<1> HIDE DEF own, stars, s
<1>3. /\ s.key = k /\ s.watches = Cardinality(own) /\ s.rated = Cardinality(rated(own))
      /\ s.half_stars = HalfStars(rated(own))
      /\ s = [key |-> k, watches |-> Cardinality(own), half_stars |-> s.half_stars,
              rated |-> s.rated]
  BY <1>1, <1>2
<1> QED BY <1>3 DEF s, own

\* A key with a rated watch has at least half a star for each.
LEMMA StandingTyped ==
    ASSUME NEW log, NEW keys, IsKeyed(log, keys), NEW k \in Counted(log, keys)
    PROVE  StandingIn(log, keys, k) \in Standings /\ StandingIn(log, keys, k).key = k
<1> DEFINE s == StandingIn(log, keys, k)
           own == WatchesOf(log, keys, k)
           F == [w \in rated(own) |-> w.value]
<1>1. k \in Nat
  <2>1. PICK w \in rated(log) : k \in keys[w.film] BY DEF Counted
  <2> QED BY <2>1 DEF IsKeyed, rated
<1>2. IsFiniteSet(own) /\ IsFiniteSet(rated(own))
  <2>1. own \subseteq log /\ rated(own) \subseteq log BY DEF WatchesOf, rated
  <2> HIDE DEF own
  <2> QED BY <2>1, FS_Subset DEF IsKeyed
<1>3. PICK w \in rated(own) : TRUE
  <2>1. PICK w \in rated(log) : k \in keys[w.film] BY DEF Counted
  <2>2. w \in rated(own) BY <2>1 DEF WatchesOf, rated
  <2> QED BY <2>2
<1>4. \A x \in rated(own) : x \in own BY DEF rated
<1>5. \A x \in rated(own) : F[x] \in Int /\ 1 <= F[x] /\ F[x] <= 10
  <2> TAKE x \in rated(own)
  <2>1. x \in log /\ x.value # Unscored BY DEF WatchesOf, rated
  <2>2. x.value \in 1..10 BY <2>1 DEF IsKeyed
  <2> QED BY <2>2
<1> DEFINE n == Cardinality(own)
           r == Cardinality(rated(own))
<1>6. n \in Nat /\ r \in Nat /\ n # 0 /\ r # 0
  <2>1. own # {} /\ rated(own) # {} BY <1>3, <1>4
  <2> QED BY <1>2, <2>1, FS_CardinalityType, FS_EmptySet
<1>7. s.half_stars = SumOf(F, rated(own)) BY StandingFields DEF HalfStars
<1> HIDE DEF F
<1>8. SumOf(F, rated(own)) \in Int /\ 1 * r <= SumOf(F, rated(own))
  BY <1>2, <1>5, SumBounds
<1>9. /\ s.key = k /\ s.watches = n /\ s.rated = r
      /\ s = [key |-> k, watches |-> n, half_stars |-> s.half_stars, rated |-> s.rated]
  BY StandingFields
<1> HIDE DEF s, n, r, own
<1>10. s.half_stars \in Nat \ {0} BY <1>6, <1>7, <1>8
<1>11. s \in Standings BY <1>1, <1>6, <1>9, <1>10 DEF Standings
<1> QED BY <1>9, <1>11 DEF s

\* The standings of a log have their types.
LEMMA StandingsTyped ==
    ASSUME NEW log, NEW keys, IsKeyed(log, keys), NEW x \in StandingsIn(log, keys)
    PROVE  /\ x.key \in Counted(log, keys) /\ x = StandingIn(log, keys, x.key)
           /\ x \in Standings
<1>1. PICK k \in Counted(log, keys) : x = StandingIn(log, keys, k) BY DEF StandingsIn
<1>2. x \in Standings /\ x.key = k BY <1>1, StandingTyped
<1> QED BY <1>1, <1>2

\* The first of n places, and no more than a top list has.
Shown(n) == Min({n, TOP_N})

\* As many places are shown as there are standings, up to the limit.
LEMMA ShownTyped ==
    ASSUME NEW n \in Nat
    PROVE  Shown(n) \in Nat /\ Shown(n) <= n
<1>1. {n, TOP_N} \in SUBSET Nat /\ {n, TOP_N} # {} BY DEF TOP_N
<1>2. Min({n, TOP_N}) \in {n, TOP_N} /\ \A x \in {n, TOP_N} : Min({n, TOP_N}) <= x
  BY <1>1, MinOfNaturals
<1> QED BY <1>1, <1>2 DEF Shown

\* A top list is of the standings of the counted keys: every one has a place, in the order of
\* the ranks, and the list shows the first places.
IsTop(list, S, place) ==
    /\ PlacesAll(S, place)
    /\ \A x, y \in S : RanksBefore(x, y) <=> place[x] < place[y]
    /\ DOMAIN list = 1..Shown(Cardinality(S))
    /\ \A i \in DOMAIN list : list[i] \in S /\ place[list[i]] = i

\* The list shown is the first of the ranked standings.
LEMMA TopIsRanked ==
    ASSUME NEW log, NEW keys, IsKeyed(log, keys)
    PROVE  /\ Cardinality(StandingsIn(log, keys)) \in Nat
           /\ \E place : IsTop(top_scored(log, keys), StandingsIn(log, keys), place)
<1> DEFINE S == StandingsIn(log, keys)
           before == {ab \in S \X S : RanksBefore(ab[1], ab[2])}
           place == [x \in S |-> Cardinality({y \in S : RanksBefore(y, x)}) + 1]
           ranked == [i \in 1..Cardinality(S) |-> CHOOSE x \in S : place[x] = i]
           list == top_scored(log, keys)
<1>1. list = SubSeq(ranked, 1, Min({Len(ranked), TOP_N}))
  BY DEF top_scored, Ranked, StandingsIn, StandingIn, WatchesOf, Counted
<1>2. IsFiniteSet(Counted(log, keys))
  <2> DEFINE F == [w \in rated(log) |-> keys[w.film]]
             sets == {F[w] : w \in rated(log)}
  <2>1. Counted(log, keys) = UNION sets BY DEF Counted
  <2>2. rated(log) \subseteq log BY DEF rated
  <2>3. IsFiniteSet(rated(log)) BY <2>2, FS_Subset DEF IsKeyed
  <2>4. \A w \in rated(log) : IsFiniteSet(F[w]) BY <2>2 DEF IsKeyed
  <2> HIDE DEF F
  <2>5. IsFiniteSet(sets) BY <2>3, FiniteImage
  <2>6. \A T \in sets : IsFiniteSet(T) BY <2>4
  <2> HIDE DEF sets
  <2> QED BY <2>1, <2>5, <2>6, FS_UNION
<1>3. IsFiniteSet(S)
  <2> DEFINE F == [k \in Counted(log, keys) |-> StandingIn(log, keys, k)]
  <2>1. S = {F[k] : k \in Counted(log, keys)} BY DEF StandingsIn
  <2> HIDE DEF F, S
  <2> QED BY <1>2, <2>1, FiniteImage
<1>4. \A x, y \in S : x \in Standings /\ (x.key = y.key => x = y)
  BY StandingsTyped
<1> HIDE DEF S
<1>5. \A x, y \in S : <<x, y>> \in before <=> RanksBefore(x, y) OBVIOUS
<1>6. place = PlaceBy(before, S)
  <2>1. \A x \in S : {y \in S : RanksBefore(y, x)} = {y \in S : <<y, x>> \in before} BY <1>5
  <2> QED BY <2>1 DEF PlaceBy
<1> HIDE DEF before, place
<1>7. PlacesAll(S, place) /\ \A x, y \in S : RanksBefore(x, y) <=> place[x] < place[y]
  <2>1. \A x \in S : <<x, x>> \notin before BY <1>4, <1>5, RanksAreOrdered
  <2>2. \A x, y, z \in S : <<x, y>> \in before /\ <<y, z>> \in before => <<x, z>> \in before
    BY <1>4, <1>5, RanksAreOrdered
  <2>3. \A x, y \in S : x # y => <<x, y>> \in before \/ <<y, x>> \in before
    BY <1>4, <1>5, RanksAreOrdered
  <2>4. /\ PlacesAll(S, PlaceBy(before, S))
        /\ \A x, y \in S : <<x, y>> \in before
                           <=> PlaceBy(before, S)[x] < PlaceBy(before, S)[y]
    BY <1>3, <2>1, <2>2, <2>3, PlacesDiffer
  <2> QED BY <1>5, <1>6, <2>4
<1> DEFINE n == Cardinality(S)
<1>8. n \in Nat BY <1>3, FS_CardinalityType
<1>9. \A i \in 1..n : ranked[i] \in S /\ place[ranked[i]] = i BY <1>7 DEF PlacesAll
<1>10. ranked \in Seq(S) /\ Len(ranked) = n
  <2>1. ranked \in [1..n -> S] BY <1>9
  <2> HIDE DEF ranked, n
  <2> QED BY <1>8, <2>1
<1> HIDE DEF ranked, n
<1>11. list = SubSeq(ranked, 1, Shown(n)) BY <1>1, <1>10 DEF Shown
<1>12. Shown(n) \in Nat /\ Shown(n) <= n BY <1>8, ShownTyped
<1>13. DOMAIN list = 1..Shown(n) /\ \A i \in 1..Shown(n) : list[i] = ranked[i]
  BY <1>8, <1>10, <1>11, <1>12
<1>14. \A i \in DOMAIN list : list[i] \in S /\ place[list[i]] = i
  <2> TAKE i \in DOMAIN list
  <2>1. i \in 1..n /\ list[i] = ranked[i] BY <1>8, <1>12, <1>13
  <2> QED BY <1>9, <2>1
<1>15. IsTop(list, S, place) BY <1>7, <1>13, <1>14 DEF IsTop, n
<1> QED BY <1>8, <1>15 DEF S, n

\* One more unrated watch e leaves the counted keys, and adds one watch to the standing of each
\* key of its film.
IsAnotherWatch(log, e, more) == more = log \cup {e} /\ e \notin log /\ e.value = Unscored

OneWatchMore(a, b) ==
    /\ b.key = a.key /\ b.watches = a.watches + 1
    /\ b.half_stars = a.half_stars /\ b.rated = a.rated

\* An unrated watch counts as a watch of its own keys, and changes nothing of the others.
LEMMA UnratedWatchCounts ==
    ASSUME NEW log, NEW keys, IsFiniteSet(log), NEW e, NEW more, IsAnotherWatch(log, e, more),
           NEW k \in keys[e.film], NEW m, m \notin keys[e.film]
    PROVE  /\ Counted(more, keys) = Counted(log, keys)
           /\ StandingIn(more, keys, m) = StandingIn(log, keys, m)
           /\ OneWatchMore(StandingIn(log, keys, k), StandingIn(more, keys, k))
<1> DEFINE own == WatchesOf(log, keys, k)
           a == StandingIn(log, keys, k)
           b == StandingIn(more, keys, k)
<1>1. Counted(more, keys) = Counted(log, keys)
  <2>1. rated(more) = rated(log) BY DEF rated, IsAnotherWatch
  <2> QED BY <2>1 DEF Counted
<1>2. StandingIn(more, keys, m) = StandingIn(log, keys, m)
  <2>1. WatchesOf(more, keys, m) = WatchesOf(log, keys, m) BY DEF WatchesOf, IsAnotherWatch
  <2> QED BY <2>1 DEF StandingIn
<1>3. WatchesOf(more, keys, k) = own \cup {e} BY DEF WatchesOf, IsAnotherWatch
<1>4. rated(own \cup {e}) = rated(own) BY DEF rated, IsAnotherWatch
<1>5. Cardinality(own \cup {e}) = Cardinality(own) + 1
  <2>1. own \subseteq log /\ e \notin own BY DEF WatchesOf, IsAnotherWatch
  <2> HIDE DEF own
  <2> QED BY <2>1, FS_Subset, FS_AddElement
<1> HIDE DEF own, a, b
<1>6. /\ a.key = k /\ a.watches = Cardinality(own)
      /\ a.rated = Cardinality(rated(own)) /\ a.half_stars = HalfStars(rated(own))
  BY StandingFields DEF own, a
<1>7. /\ b.key = k /\ b.watches = Cardinality(own \cup {e})
      /\ b.rated = Cardinality(rated(own \cup {e}))
      /\ b.half_stars = HalfStars(rated(own \cup {e}))
  BY <1>3, StandingFields DEF b
<1>8. OneWatchMore(a, b) BY <1>4, <1>5, <1>6, <1>7 DEF OneWatchMore
<1> QED BY <1>1, <1>2, <1>8 DEF a, b

\* It only moves such a key ahead of others.
LEMMA MoreWatchesRankHigher ==
    ASSUME NEW a \in Standings, NEW b \in Standings, NEW y \in Standings,
           b.watches = a.watches + 1, b.half_stars = a.half_stars, b.rated = a.rated,
           RanksBefore(a, y)
    PROVE  RanksBefore(b, y)
<1>1. /\ a.watches \in Nat /\ a.half_stars \in Nat \ {0} /\ a.rated \in Nat
      /\ y.watches \in Nat /\ y.half_stars \in Nat /\ y.rated \in Nat \ {0}
  BY DEF Standings
<1> DEFINE p == a.half_stars * y.rated
<1>2. p \in Nat \ {0}
  <2>1. \A m, n \in Nat \ {0} : m * n \in Nat \ {0} OBVIOUS
  <2> QED BY <1>1, <2>1
<1>3. Score(b, y) = (a.watches + 1) * p /\ Score(a, y) = a.watches * p BY DEF Score, Average
<1>4. Score(y, b) = Score(y, a) BY DEF Score, Average
<1>5. Score(y, a) \in Nat
  <2>1. \A m, n \in Nat : m * n \in Nat OBVIOUS
  <2> QED BY <1>1, <2>1 DEF Score, Average
<1> HIDE DEF p
<1>6. Score(b, y) = Score(a, y) + p /\ Score(a, y) \in Nat BY <1>1, <1>2, <1>3
<1>7. Score(a, y) >= Score(y, a) BY <1>5, <1>6, <1>2, <1>1 DEF RanksBefore
<1>8. Score(b, y) > Score(y, b) BY <1>2, <1>4, <1>5, <1>6, <1>7
<1> QED BY <1>8 DEF RanksBefore

\* The log of a library has films, and tags, that can be counted and ranked.
LEMMA LogIsKeyed ==
    ASSUME NEW h \in [Films -> Seq(Watch)]
    PROVE  IsKeyed(LogOf(h), film_keys) /\ IsKeyed(LogOf(h), tag_keys)
<1> DEFINE log == LogOf(h)
<1>1. IsFiniteSet(log) BY LogIsOne DEF IsLog
<1>2. ASSUME NEW w \in log
      PROVE  w.film \in Films /\ w.value # Unscored => w.value \in 1..10
  <2>1. w.film \in Films /\ w.entry \in DOMAIN h[w.film] /\ w = EntryOf(h, w.film, w.entry)
    BY LogIsOne
  <2>2. w.value = h[w.film][w.entry].value BY <2>1 DEF EntryOf
  <2>3. h[w.film] \in Seq(Watch) BY <2>1
  <2>4. h[w.film][w.entry] \in Watch BY <2>1, <2>3
  <2> QED BY <2>2, <2>4, WatchesTyped
<1>3. \A w \in log : w.film \in Films
  BY LogIsOne
<1> HIDE DEF log
<1>4. ASSUME NEW f \in Films
      PROVE  /\ film_keys[f] = {f} /\ IsFiniteSet(film_keys[f]) /\ film_keys[f] \subseteq Nat
             /\ IsFiniteSet(tag_keys[f]) /\ tag_keys[f] \subseteq Nat
  <2>1. f \in DOMAIN FilmData /\ f \in Nat /\ IsFiniteSet(FilmData[f].tags)
        /\ FilmData[f].tags \subseteq Nat
    BY DueListAssumption
  <2>2. film_keys[f] = {f} /\ tag_keys[f] = FilmData[f].tags BY <2>1 DEF film_keys, tag_keys
  <2> QED BY <2>1, <2>2, FS_Singleton
<1>5. IsKeyed(log, film_keys) /\ IsKeyed(log, tag_keys)
  BY <1>1, <1>2, <1>3, <1>4 DEF IsKeyed
<1> QED BY <1>5 DEF log

\* Whoever a key is ahead of, it stays ahead of when its own film is watched again unrated.
LEMMA StaysAhead ==
    ASSUME NEW log, NEW keys, IsKeyed(log, keys), NEW e, NEW more, IsKeyed(more, keys),
           IsAnotherWatch(log, e, more),
           NEW before, before = top_scored(log, keys),
           NEW after, after = top_scored(more, keys),
           NEW i \in DOMAIN before, NEW j \in DOMAIN before, i < j,
           before[i].key \in keys[e.film], before[j].key \notin keys[e.film],
           before[j].key \in {after[n].key : n \in DOMAIN after}
    PROVE  Ahead(after, before[i].key, before[j].key)
<1> DEFINE k == before[i].key
           m == before[j].key
           S == StandingsIn(log, keys)
           R == StandingsIn(more, keys)
<1>1. PICK place : IsTop(before, S, place) BY TopIsRanked
<1>2. PICK next : IsTop(after, R, next) BY TopIsRanked
<1>3. /\ Counted(more, keys) = Counted(log, keys)
      /\ StandingIn(more, keys, m) = StandingIn(log, keys, m)
      /\ OneWatchMore(StandingIn(log, keys, k), StandingIn(more, keys, k))
  <2>1. IsFiniteSet(log) BY DEF IsKeyed
  <2> HIDE DEF k, m
  <2>2. k \in keys[e.film] /\ m \notin keys[e.film] BY DEF k, m
  <2> QED BY <2>1, <2>2, UnratedWatchCounts
<1>4. \A x \in S : x.key \in Counted(log, keys) /\ x = StandingIn(log, keys, x.key)
                   /\ x \in Standings
  BY StandingsTyped
<1>5. \A x \in R : x.key \in Counted(more, keys) /\ x = StandingIn(more, keys, x.key)
                   /\ x \in Standings
  BY StandingsTyped
<1>6. before[i] \in S /\ before[j] \in S /\ place[before[i]] = i /\ place[before[j]] = j
  BY <1>1 DEF IsTop
<1>7. RanksBefore(before[i], before[j]) BY <1>1, <1>6 DEF IsTop
<1> DEFINE a == StandingIn(log, keys, k)
           b == StandingIn(more, keys, k)
           y == StandingIn(log, keys, m)
<1>8. before[i] = a /\ before[j] = y /\ k \in Counted(log, keys) /\ m \in Counted(log, keys)
  BY <1>4, <1>6
<1>9. b \in R /\ b \in Standings /\ b.key = k
  <2>1. k \in Counted(more, keys) BY <1>3, <1>8
  <2> HIDE DEF k
  <2> QED BY <2>1, StandingTyped DEF StandingsIn
<1>10. PICK n \in DOMAIN after : after[n].key = m OBVIOUS
<1>11. after[n] \in R /\ next[after[n]] = n BY <1>2 DEF IsTop
<1>12. after[n] = y BY <1>3, <1>5, <1>10, <1>11
<1>13. RanksBefore(b, y)
  <2>1. a \in Standings /\ y \in Standings BY <1>4, <1>6, <1>8
  <2>2. /\ b.watches = a.watches + 1 /\ b.half_stars = a.half_stars /\ b.rated = a.rated
        /\ RanksBefore(a, y)
    BY <1>3, <1>7, <1>8 DEF OneWatchMore
  <2> HIDE DEF a, b, y
  <2> QED BY <1>9, <2>1, <2>2, MoreWatchesRankHigher
<1> HIDE DEF a, b, y, k, m, S, R
<1>14. next[b] < n BY <1>2, <1>9, <1>11, <1>12, <1>13 DEF IsTop
<1> DEFINE p == next[b]
           size == Cardinality(R)
<1>15. p \in 1..size /\ n \in 1..Shown(size) /\ DOMAIN after = 1..Shown(size)
  BY <1>2, <1>9 DEF IsTop, PlacesAll
<1>16. size \in Nat /\ Shown(size) \in Nat
  <2>1. size \in Nat BY TopIsRanked DEF R
  <2> HIDE DEF size
  <2> QED BY <2>1, ShownTyped
<1>17. p \in DOMAIN after /\ p < n
  <2>1. p < n BY <1>14
  <2> HIDE DEF p, size
  <2> QED BY <1>15, <1>16, <2>1
<1>18. after[p] = b
  <2>1. after[p] \in R /\ next[after[p]] = next[b] BY <1>2, <1>17 DEF IsTop
  <2> QED BY <1>2, <1>9, <2>1 DEF IsTop, PlacesAll
<1>19. after[p].key = k /\ after[n].key = m BY <1>9, <1>10, <1>18
<1> HIDE DEF p
<1>20. Ahead(after, k, m) BY <1>17, <1>19 DEF Ahead
<1> QED BY <1>20 DEF k, m

\* So no key of the film watched falls behind a key that is not.
LEMMA UnratedWatchKeepsPlaces ==
    ASSUME TypeOK, [Next]_vars, NEW f \in Library, Len(history'[f]) > Len(history[f]),
           Last(history'[f]).value = Unscored
    PROVE  KeepsItsPlace(film_keys, f) /\ KeepsItsPlace(tag_keys, f)
<1> DEFINE e == EntryOf(history', f, Len(history[f]) + 1)
<1>1. e.film = f /\ e.value = Unscored /\ e \notin Log /\ Log' = Log \cup {e}
  BY LoggedWatch
<1>2. history \in [Films -> Seq(Watch)] /\ history' \in [Films -> Seq(Watch)]
  BY DueListTypeStep DEF TypeOK
<1>3. /\ IsKeyed(Log, film_keys) /\ IsKeyed(Log, tag_keys)
      /\ IsKeyed(Log', film_keys) /\ IsKeyed(Log', tag_keys)
  BY <1>2, LogIsKeyed, LogIsOfHistory
<1> HIDE DEF e
<1> DEFINE log == Log
           more == Log'
<1>4. ASSUME NEW keys, IsKeyed(log, keys), IsKeyed(more, keys)
      PROVE  LET before == top_scored(log, keys)
                 after == top_scored(more, keys)
                 own == keys[f]
             IN  \A i, j \in DOMAIN before :
                   LET k == before[i].key
                       m == before[j].key
                   IN  i < j /\ k \in own /\ m \notin own
                         /\ m \in {after[n].key : n \in DOMAIN after}
                         => Ahead(after, k, m)
  <2> DEFINE before == top_scored(log, keys)
             after == top_scored(more, keys)
  <2>1. e.film = f /\ IsAnotherWatch(log, e, more) BY <1>1 DEF IsAnotherWatch
  <2> SUFFICES ASSUME NEW i \in DOMAIN before, NEW j \in DOMAIN before, i < j,
                      before[i].key \in keys[f], before[j].key \notin keys[f],
                      before[j].key \in {after[n].key : n \in DOMAIN after}
               PROVE  Ahead(after, before[i].key, before[j].key)
    OBVIOUS
  <2>2. before = top_scored(log, keys) /\ after = top_scored(more, keys) OBVIOUS
  <2> HIDE DEF before, after, log, more
  <2>3. IsKeyed(log, keys) /\ IsKeyed(more, keys) BY <1>4
  <2>4. before[i].key \in keys[e.film] /\ before[j].key \notin keys[e.film] BY <2>1
  <2> QED BY <2>1, <2>2, <2>3, <2>4, StaysAhead
<1>5. KeepsItsPlace(film_keys, f) BY <1>3, <1>4 DEF KeepsItsPlace
<1>6. KeepsItsPlace(tag_keys, f) BY <1>3, <1>4 DEF KeepsItsPlace
<1> QED BY <1>5, <1>6

\* An unrated watch of a film puts neither the film nor one of its tags behind one it was ahead
\* of, whatever the library.
THEOREM UnratedNeverDemotes == Spec => UnratedWatchNeverDemotes
<1>1. TypeOK /\ [Next]_vars =>
        [\A f \in Library :
           Len(history'[f]) > Len(history[f]) /\ Last(history'[f]).value = Unscored
             => KeepsItsPlace(film_keys, f) /\ KeepsItsPlace(tag_keys, f)]_vars
  BY UnratedWatchKeepsPlaces
<1> QED BY <1>1, DueListTyped, PTL DEF Spec, UnratedWatchNeverDemotes

-----------------------------------------------------------------------------
(* The projection *)

\* A library the projection starts from.
IsLibrary(library) ==
    /\ IsFiniteSet(DOMAIN library) /\ DOMAIN library \subseteq Nat /\ DOMAIN library # {}
    /\ library \in [DOMAIN library -> RewatchInput]
    /\ \A f \in DOMAIN library : WellRated(library[f])

\* A run that has watched until a day: the films it has added were watched by then.
RunOk(run, library, day) ==
    /\ run \in Run
    /\ IsFiniteSet(DOMAIN run.state) /\ DOMAIN library \subseteq DOMAIN run.state
    /\ run.due \in Seq(DOMAIN run.state)
    /\ \A f \in DOMAIN run.state : WellRated(run.state[f])
    /\ \A f \in DOMAIN run.state \ DOMAIN library :
         /\ run.state[f].last_watched_date <= day /\ run.state[f].watch_count > 0

\* What is due is on the list of the day, and nothing new is watched before the list is through.
NewToday(run, library, day) ==
    \E f \in DOMAIN run.state \ DOMAIN library :
        run.state[f].last_watched_date = day /\ run.state[f].watch_count = 1
RewatchFirst(run, library, day) ==
    /\ \A f \in DOMAIN run.state : IsDue(run.state[f], day) => f \in ToSet(run.due)
    /\ NewToday(run, library, day) => run.due = <<>>

\* A film watched on a day is not due on it.
LEMMA NotDueAgain ==
    ASSUME NEW film \in RewatchInput, WellRated(film), NEW day \in Int,
           film.last_watched_date = day
    PROVE  ~IsDue(film, day)
<1> SUFFICES ASSUME IsDue(film, day) PROVE FALSE OBVIOUS
<1>1. film.last_watched_date + (IF film.is_favorite THEN 183 ELSE 365) <= day
  BY WatchedFilmRests
<1> QED BY <1>1

\* Whether it was watched again or for the first time, it is a film as before.
LEMMA WatchedToday ==
    ASSUME NEW film \in RewatchInput, WellRated(film), NEW day \in Int
    PROVE  /\ rewatched(film, day) \in RewatchInput /\ WellRated(rewatched(film, day))
           /\ rewatched(film, day).last_watched_date = day
           /\ rewatched(film, day).watch_count = film.watch_count + 1
           /\ ~IsDue(rewatched(film, day), day)
           /\ newly_watched(film, day) \in RewatchInput /\ WellRated(newly_watched(film, day))
           /\ newly_watched(film, day).last_watched_date = day
           /\ newly_watched(film, day).watch_count = 1
           /\ ~IsDue(newly_watched(film, day), day)
<1> DEFINE a == rewatched(film, day)
           b == newly_watched(film, day)
<1>1. /\ a \in RewatchInput /\ a.last_watched_date = day /\ a.watch_count = film.watch_count + 1
      /\ a.half_stars = film.half_stars /\ a.rated = film.rated
  <2>1. a = [film EXCEPT !.watch_count = film.watch_count + 1, !.last_watched_date = day]
    BY DEF rewatched
  <2>2. film.watch_count + 1 \in Nat BY DEF RewatchInput
  <2> HIDE DEF a
  <2>3. a.last_watched_date = day /\ a.watch_count = film.watch_count + 1
        /\ a.half_stars = film.half_stars /\ a.rated = film.rated
    BY <2>1 DEF RewatchInput
  <2> QED BY <2>1, <2>2, <2>3 DEF RewatchInput
<1>2. /\ b \in RewatchInput /\ b.last_watched_date = day /\ b.watch_count = 1
      /\ b.half_stars = film.half_stars /\ b.rated = film.rated
  BY DEF newly_watched, RewatchInput
<1> HIDE DEF a, b
<1>3. WellRated(a) /\ WellRated(b) BY <1>1, <1>2 DEF WellRated
<1>4. ~IsDue(a, day) /\ ~IsDue(b, day) BY <1>1, <1>2, <1>3, NotDueAgain
<1> QED BY <1>1, <1>2, <1>3, <1>4 DEF a, b

\* The films of a run.
LEMMA RunFields ==
    ASSUME NEW run \in Run
    PROVE  /\ run.state \in [DOMAIN run.state -> RewatchInput] /\ DOMAIN run.state \subseteq Nat
           /\ run.due \in Seq(Nat)
           /\ run.budget \in Nat /\ run.rewatches \in Nat /\ run.new_watches \in Nat
           /\ run.first_dry \in Int
<1>1. run.state \in UNION {[S -> RewatchInput] : S \in SUBSET Nat} BY DEF Run
<1>2. PICK S \in SUBSET Nat : run.state \in [S -> RewatchInput] BY <1>1
<1> QED BY <1>2 DEF Run

\* A record with such films, and counts of their types, is a run.
LEMMA RunMade ==
    ASSUME NEW S, S \subseteq Nat, NEW state \in [S -> RewatchInput], NEW due \in Seq(S),
           NEW budget \in Nat, NEW rewatches \in Nat, NEW new_watches \in Nat,
           NEW first_dry \in Int
    PROVE  [state |-> state, due |-> due, budget |-> budget, rewatches |-> rewatches,
            new_watches |-> new_watches, first_dry |-> first_dry] \in Run
<1>1. state \in UNION {[T -> RewatchInput] : T \in SUBSET Nat} OBVIOUS
<1>2. due \in Seq(Nat)
  <2>1. Len(due) \in Nat /\ due \in [1..Len(due) -> S] OBVIOUS
  <2>2. due \in [1..Len(due) -> Nat] BY <2>1
  <2> QED BY <2>1, <2>2
<1> QED BY <1>1, <1>2 DEF Run

\* Watching the first film of the list.
Rewatch(run, day) ==
    [run EXCEPT !.state[Head(run.due)] = rewatched(@, day), !.due = Tail(@), !.rewatches = @ + 1]

\* The list stays complete, and the film is no new one: it has been watched before.
LEMMA RewatchStep ==
    ASSUME NEW library, NEW day \in Nat, NEW run, RunOk(run, library, day),
           RewatchFirst(run, library, day), run.due # <<>>,
           NEW next, next = Rewatch(run, day)
    PROVE  /\ RunOk(next, library, day) /\ RewatchFirst(next, library, day)
           /\ next.budget = run.budget /\ next.first_dry = run.first_dry
           /\ next.rewatches + next.new_watches = run.rewatches + run.new_watches + 1
<1> DEFINE D == DOMAIN run.state
           h == Head(run.due)
           film == run.state[h]
           again == rewatched(film, day)
<1>1. run \in Run /\ run.state \in [D -> RewatchInput] /\ D \subseteq Nat
  BY RunFields DEF RunOk
<1>2. run.due \in Seq(D) /\ h \in D /\ Tail(run.due) \in Seq(D)
      /\ \A f \in ToSet(run.due) : f = h \/ f \in ToSet(Tail(run.due))
  <2> DEFINE s == run.due
  <2>1. s \in Seq(D) /\ s # <<>> BY DEF RunOk
  <2> HIDE DEF s, D
  <2>2. Head(s) \in D /\ Tail(s) \in Seq(D) /\ Len(s) \in Nat /\ Len(s) # 0 BY <2>1
  <2>3. DOMAIN s = 1..Len(s) /\ DOMAIN Tail(s) = 1..(Len(s) - 1) BY <2>1, <2>2
  <2>4. ASSUME NEW i \in DOMAIN s PROVE s[i] = Head(s) \/ s[i] \in ToSet(Tail(s))
    <3>1. CASE i = 1 BY <2>1, <3>1
    <3>2. CASE i # 1
      <4>1. i - 1 \in DOMAIN Tail(s) BY <2>2, <2>3, <3>2
      <4>2. Tail(s)[i - 1] = s[i] BY <2>1, <2>3, <3>2, <4>1
      <4> QED BY <4>1, <4>2 DEF ToSet
    <3> QED BY <3>1, <3>2
  <2>5. \A f \in ToSet(s) : f = Head(s) \/ f \in ToSet(Tail(s)) BY <2>4 DEF ToSet
  <2> QED BY <2>1, <2>2, <2>5 DEF s
<1>3. film \in RewatchInput /\ WellRated(film) BY <1>1, <1>2 DEF RunOk
<1>4. /\ again \in RewatchInput /\ WellRated(again) /\ ~IsDue(again, day)
      /\ again.last_watched_date = day /\ again.watch_count = film.watch_count + 1
  <2> HIDE DEF film
  <2> QED BY <1>3, WatchedToday
<1>5. /\ next.state = [run.state EXCEPT ![h] = again] /\ next.due = Tail(run.due)
      /\ next.rewatches = run.rewatches + 1 /\ next.new_watches = run.new_watches
      /\ next.budget = run.budget /\ next.first_dry = run.first_dry
  BY <1>1 DEF Run, Rewatch
<1>14. next = [state |-> next.state, due |-> next.due, budget |-> next.budget,
               rewatches |-> next.rewatches, new_watches |-> next.new_watches,
               first_dry |-> next.first_dry]
  BY <1>1 DEF Run, Rewatch
<1> HIDE DEF again, film, h
<1>6. /\ next.state \in [D -> RewatchInput] /\ DOMAIN next.state = D
      /\ next.state[h] = again
      /\ \A f \in D : f # h => next.state[f] = run.state[f]
  BY <1>1, <1>2, <1>4, <1>5
<1>7. next \in Run
  <2>1. /\ run.rewatches \in Nat /\ run.new_watches \in Nat /\ run.budget \in Nat
        /\ run.first_dry \in Int
    BY <1>1, RunFields
  <2> HIDE DEF D
  <2>2. /\ next.rewatches \in Nat /\ next.new_watches \in Nat /\ next.budget \in Nat
        /\ next.first_dry \in Int
    BY <1>5, <2>1
  <2>4. next.due \in Seq(D) /\ D \subseteq Nat BY <1>1, <1>2, <1>5
  <2>3. [state |-> next.state, due |-> next.due, budget |-> next.budget,
         rewatches |-> next.rewatches, new_watches |-> next.new_watches,
         first_dry |-> next.first_dry] \in Run
    BY <1>6, <2>2, <2>4, RunMade
  <2> QED BY <1>14, <2>3
<1>8. film.watch_count \in Nat BY <1>3 DEF RewatchInput
<1>9. RunOk(next, library, day)
  <2>1. IsFiniteSet(D) /\ DOMAIN library \subseteq D BY DEF RunOk
  <2>2. \A f \in D : WellRated(next.state[f]) BY <1>4, <1>6 DEF RunOk
  <2>3. \A f \in D \ DOMAIN library :
          /\ next.state[f].last_watched_date <= day /\ next.state[f].watch_count > 0
    <3> TAKE f \in D \ DOMAIN library
    <3>1. CASE f = h BY <1>4, <1>6, <1>8, <3>1
    <3>2. CASE f # h BY <1>6, <3>2 DEF RunOk
    <3> QED BY <3>1, <3>2
  <2> QED BY <1>2, <1>5, <1>6, <1>7, <2>1, <2>2, <2>3 DEF RunOk
<1>10. \A f \in D : IsDue(next.state[f], day) => f \in ToSet(next.due)
  BY <1>2, <1>4, <1>5, <1>6 DEF RewatchFirst
<1>11. ~NewToday(next, library, day)
  <2>1. ~NewToday(run, library, day) BY DEF RewatchFirst
  <2>2. ASSUME NEW f \in D \ DOMAIN library, next.state[f].last_watched_date = day,
               next.state[f].watch_count = 1
        PROVE  FALSE
    <3>1. CASE f = h
      <4>1. film.watch_count > 0 BY <3>1 DEF RunOk, film
      <4> QED BY <1>4, <1>6, <1>8, <2>2, <3>1, <4>1
    <3>2. CASE f # h BY <1>6, <2>1, <2>2, <3>2 DEF NewToday
    <3> QED BY <3>1, <3>2
  <2> QED BY <1>6, <2>2 DEF NewToday
<1>12. RewatchFirst(next, library, day) BY <1>6, <1>10, <1>11 DEF RewatchFirst
<1>13. next.rewatches + next.new_watches = run.rewatches + run.new_watches + 1
  <2>1. run.rewatches \in Nat /\ run.new_watches \in Nat BY <1>1, RunFields
  <2> QED BY <1>5, <2>1
<1> QED BY <1>5, <1>9, <1>12, <1>13

\* A new film has an id of its own.
LEMMA IdIsNew ==
    ASSUME NEW run \in Run, IsFiniteSet(DOMAIN run.state), DOMAIN run.state # {}
    PROVE  NewId(run) \in Nat /\ NewId(run) \notin DOMAIN run.state
<1> DEFINE D == DOMAIN run.state
<1>1. D \in SUBSET Int /\ D \subseteq Nat BY RunFields
<1> HIDE DEF D
<1>2. Max(D) \in D /\ \A x \in D : x <= Max(D) BY <1>1, Extremes DEF D
<1>3. NewId(run) = Max(D) + 1 BY DEF NewId, D
<1>4. Max(D) + 1 \in Nat /\ Max(D) + 1 \notin D
  <2> DEFINE m == Max(D)
  <2>1. m \in Nat /\ \A x \in D : x \in Nat /\ x <= m BY <1>1, <1>2
  <2> HIDE DEF m
  <2>2. m + 1 \in Nat /\ ~(m + 1 <= m) BY <2>1
  <2>3. m + 1 \notin D BY <2>1, <2>2
  <2> QED BY <2>2, <2>3 DEF m
<1> QED BY <1>3, <1>4 DEF D

\* The empty list is a list of anything.
LEMMA EmptyList ==
    ASSUME NEW S
    PROVE  <<>> \in Seq(S)
    OBVIOUS

\* Watching a new film, shaped like one of the library.
WatchNew(run, library, p, day) ==
    [run EXCEPT !.state = Stored(@, NewId(run), newly_watched(library[p], day)),
                !.new_watches = @ + 1, !.first_dry = IF @ = NeverDry THEN day ELSE @]

\* Nothing is due before, and the new film is not either.
LEMMA NewFilmStep ==
    ASSUME NEW library, IsLibrary(library), NEW day \in Nat, NEW run, RunOk(run, library, day),
           RewatchFirst(run, library, day), run.due = <<>>, NEW p \in DOMAIN library,
           NEW next, next = WatchNew(run, library, p, day)
    PROVE  /\ RunOk(next, library, day) /\ RewatchFirst(next, library, day)
           /\ next.budget = run.budget
           /\ next.first_dry = IF run.first_dry = NeverDry THEN day ELSE run.first_dry
           /\ next.rewatches + next.new_watches = run.rewatches + run.new_watches + 1
<1> DEFINE D == DOMAIN run.state
           id == NewId(run)
           new == newly_watched(library[p], day)
<1>1. run \in Run /\ run.state \in [D -> RewatchInput] /\ D \subseteq Nat
  BY RunFields DEF RunOk
<1>2. id \in Nat /\ id \notin D
  <2>1. D # {} BY DEF RunOk, IsLibrary
  <2> QED BY <1>1, <2>1, IdIsNew DEF RunOk
<1>3. /\ new \in RewatchInput /\ WellRated(new) /\ ~IsDue(new, day)
      /\ new.last_watched_date = day /\ new.watch_count = 1
  <2>1. library[p] \in RewatchInput /\ WellRated(library[p]) BY DEF IsLibrary
  <2> QED BY <2>1, WatchedToday
<1>4. /\ next.state = Stored(run.state, id, new) /\ next.due = run.due
      /\ next.rewatches = run.rewatches /\ next.new_watches = run.new_watches + 1
      /\ next.budget = run.budget
      /\ next.first_dry = IF run.first_dry = NeverDry THEN day ELSE run.first_dry
      /\ next = [state |-> next.state, due |-> next.due, budget |-> next.budget,
                 rewatches |-> next.rewatches, new_watches |-> next.new_watches,
                 first_dry |-> next.first_dry]
  BY <1>1 DEF Run, WatchNew
<1> HIDE DEF new, id
<1>5. /\ next.state \in [D \cup {id} -> RewatchInput] /\ DOMAIN next.state = D \cup {id}
      /\ next.state[id] = new
      /\ \A f \in D : next.state[f] = run.state[f]
  <2>1. next.state = [f \in D \cup {id} |-> IF f = id THEN new ELSE run.state[f]]
    BY <1>4 DEF Stored
  <2> QED BY <1>1, <1>2, <1>3, <2>1
<1>6. next \in Run
  <2>0. next.due = <<>> /\ <<>> \in Seq(D \cup {id}) BY <1>4, EmptyList
  <2>1. /\ run.rewatches \in Nat /\ run.new_watches \in Nat /\ run.budget \in Nat
        /\ run.first_dry \in Int
    BY <1>1, RunFields
  <2>2. /\ next.rewatches \in Nat /\ next.new_watches \in Nat /\ next.budget \in Nat
        /\ next.first_dry \in Int
    BY <1>4, <2>1
  <2>3. D \cup {id} \subseteq Nat BY <1>1, <1>2
  <2> HIDE DEF D
  <2>4. next.due \in Seq(D \cup {id}) BY <1>4, <2>0
  <2>5. [state |-> next.state, due |-> next.due, budget |-> next.budget,
         rewatches |-> next.rewatches, new_watches |-> next.new_watches,
         first_dry |-> next.first_dry] \in Run
    BY <1>5, <2>2, <2>3, <2>4, RunMade
  <2> QED BY <1>4, <2>5
<1>7. RunOk(next, library, day)
  <2>0. next.due = <<>> /\ <<>> \in Seq(D \cup {id}) BY <1>4, EmptyList
  <2>1. IsFiniteSet(D) /\ DOMAIN library \subseteq D BY DEF RunOk
  <2>2. IsFiniteSet(D \cup {id}) BY <2>1, FS_AddElement
  <2>3. \A f \in D \cup {id} : WellRated(next.state[f]) BY <1>3, <1>5 DEF RunOk
  <2>4. \A f \in (D \cup {id}) \ DOMAIN library :
          /\ next.state[f].last_watched_date <= day /\ next.state[f].watch_count > 0
    <3> TAKE f \in (D \cup {id}) \ DOMAIN library
    <3>1. CASE f = id BY <1>3, <1>5, <3>1
    <3>2. CASE f # id BY <1>5, <3>2 DEF RunOk
    <3> QED BY <3>1, <3>2
  <2>5. next.due \in Seq(D \cup {id}) BY <1>4, <2>0
  <2> QED BY <1>5, <1>6, <2>1, <2>2, <2>3, <2>4, <2>5 DEF RunOk
<1>8. RewatchFirst(next, library, day)
  <2>1. \A f \in D : ~IsDue(run.state[f], day)
    <3>1. ToSet(run.due) = {} BY DEF ToSet
    <3> QED BY <3>1 DEF RewatchFirst
  <2>2. \A f \in D \cup {id} : ~IsDue(next.state[f], day) BY <1>3, <1>5, <2>1
  <2> QED BY <1>4, <1>5, <2>2 DEF RewatchFirst
<1>9. next.rewatches + next.new_watches = run.rewatches + run.new_watches + 1
  <2>1. run.rewatches \in Nat /\ run.new_watches \in Nat BY <1>1, RunFields
  <2> QED BY <1>4, <2>1
<1> QED BY <1>4, <1>7, <1>8, <1>9

\* The list leaves no choice.
IsOne(R) == \E run : R = {run}

\* With a film on the list there is one way on.
LEMMA OneWayOn ==
    ASSUME NEW library, NEW day, NEW run, run.due # <<>>
    PROVE  IsOne(Watched(run, library, day))
<1>1. Watched(run, library, day) = {Rewatch(run, day)} BY DEF Watched, Rewatch
<1> QED BY <1>1 DEF IsOne

\* One watch of the day: whichever film it goes to, the run goes on as it must; chance enters
\* only once nothing is due, and from then on the first such day is known.
LEMMA WatchStep ==
    ASSUME NEW library, IsLibrary(library), NEW day \in Nat, NEW run, RunOk(run, library, day),
           RewatchFirst(run, library, day)
    PROVE  /\ Watched(run, library, day) # {}
           /\ \A next \in Watched(run, library, day) :
                /\ RunOk(next, library, day) /\ RewatchFirst(next, library, day)
                /\ next.budget = run.budget
                /\ next.rewatches + next.new_watches = run.rewatches + run.new_watches + 1
                /\ next.first_dry = IF run.due = <<>> /\ run.first_dry = NeverDry THEN day
                                    ELSE run.first_dry
<1>1. CASE run.due # <<>>
  <2> DEFINE next == Rewatch(run, day)
  <2>1. Watched(run, library, day) = {next} BY <1>1 DEF Watched, Rewatch
  <2>2. /\ RunOk(next, library, day) /\ RewatchFirst(next, library, day)
        /\ next.budget = run.budget /\ next.first_dry = run.first_dry
        /\ next.rewatches + next.new_watches = run.rewatches + run.new_watches + 1
    BY <1>1, RewatchStep
  <2> HIDE DEF next
  <2> QED BY <1>1, <2>1, <2>2
<1>2. CASE run.due = <<>>
  <2>1. Watched(run, library, day) = {WatchNew(run, library, p, day) : p \in DOMAIN library}
    BY <1>2 DEF Watched, WatchNew
  <2>2. ASSUME NEW p \in DOMAIN library, NEW next, next = WatchNew(run, library, p, day)
        PROVE  /\ RunOk(next, library, day) /\ RewatchFirst(next, library, day)
               /\ next.budget = run.budget
               /\ next.first_dry = IF run.first_dry = NeverDry THEN day ELSE run.first_dry
               /\ next.rewatches + next.new_watches = run.rewatches + run.new_watches + 1
    BY <1>2, <2>2, NewFilmStep
  <2>3. DOMAIN library # {} BY DEF IsLibrary
  <2> QED BY <1>2, <2>1, <2>2, <2>3
<1> QED BY <1>1, <1>2

\* A rate whose sums are within the floats.
IsRate(rate) == rate \in Nat /\ \E g \in Granules : One + rate <= g * Significand

\* Rounding to a multiple of g is off by at most half of g.
LEMMA RoundingIsNear ==
    ASSUME NEW n \in Nat, NEW g \in Nat \ {0}
    PROVE  /\ RoundHalfEven(n, g) * g \in Nat
           /\ -g <= 2 * (RoundHalfEven(n, g) * g - n) /\ 2 * (RoundHalfEven(n, g) * g - n) <= g
<1> DEFINE q == n \div g
           r == n % g
           t == RoundHalfEven(n, g)
<1>1. q \in Nat /\ r \in 0..(g - 1) /\ n = g * q + r BY DivisionOfNaturals
<1>2. \/ t = q /\ 2 * r <= g
      \/ t = q + 1 /\ 2 * r >= g
  <2>1. t = IF 2 * r < g \/ (2 * r = g /\ q % 2 = 0) THEN q ELSE q + 1 BY DEF RoundHalfEven
  <2> HIDE DEF q, r, t
  <2>2. r \in Int BY <1>1
  <2> QED BY <2>1, <2>2
<1> HIDE DEF q, r, t
<1>3. CASE t = q /\ 2 * r <= g
  <2>1. t * g = g * q /\ g * q \in Nat BY <1>1, <1>3
  <2> DEFINE a == t * g
             b == g * q
  <2>2. a = b /\ b \in Nat /\ n = b + r BY <1>1, <2>1
  <2> HIDE DEF a, b
  <2>3. a \in Nat /\ -g <= 2 * (a - n) /\ 2 * (a - n) <= g BY <1>1, <1>3, <2>2
  <2> QED BY <2>3 DEF a, t
<1>4. CASE t = q + 1 /\ 2 * r >= g
  <2>1. t * g = g * q + g /\ g * q \in Nat BY <1>1, <1>4
  <2> DEFINE a == t * g
             b == g * q
  <2>2. a = b + g /\ b \in Nat /\ n = b + r BY <1>1, <2>1
  <2> HIDE DEF a, b
  <2>3. a \in Nat /\ -g <= 2 * (a - n) /\ 2 * (a - n) <= g BY <1>1, <1>4, <2>2
  <2> QED BY <2>3 DEF a, t
<1> QED BY <1>2, <1>3, <1>4

\* The sum of a budget and a rate: the float is as near as the widest distance there allows.
LEMMA SumIsNear ==
    ASSUME NEW rate, IsRate(rate), NEW n \in Nat, n <= One + rate
    PROVE  /\ Granule(One + rate) \in Nat /\ Rounded(n) \in Nat
           /\ -Granule(One + rate) <= 2 * (Rounded(n) - n)
           /\ 2 * (Rounded(n) - n) <= Granule(One + rate)
<1> DEFINE top == One + rate
           Wide(m) == {g \in Granules : m <= g * Significand}
           fine == Granule(n)
           coarse == Granule(top)
<1>1. /\ top \in Nat /\ Granules \subseteq Nat \ {0} /\ Significand \in Nat
      /\ Wide(top) # {}
  BY FloatAssumption DEF IsRate
<1>2. Wide(top) \subseteq Wide(n)
  <2> SUFFICES ASSUME NEW g \in Wide(top) PROVE n <= g * Significand OBVIOUS
  <2> DEFINE m == g * Significand
  <2>1. m \in Nat /\ top <= m BY <1>1
  <2> HIDE DEF m
  <2>2. n <= m BY <1>1, <2>1
  <2> QED BY <2>2 DEF m
<1>3. fine = Min(Wide(n)) /\ coarse = Min(Wide(top)) BY DEF Granule
<1>4. Wide(n) \in SUBSET Nat /\ Wide(top) \in SUBSET Nat /\ Wide(n) # {} BY <1>1, <1>2
<1>5. Wide(n) \subseteq Granules /\ Wide(top) \subseteq Granules OBVIOUS
<1> HIDE DEF Wide, fine, coarse
<1>6. /\ fine \in Wide(n) /\ \A x \in Wide(n) : fine <= x
      /\ coarse \in Wide(top)
  BY <1>1, <1>3, <1>4, MinOfNaturals
<1>7. fine <= coarse /\ fine \in Nat \ {0} /\ coarse \in Nat \ {0} BY <1>1, <1>2, <1>5, <1>6
<1> DEFINE a == RoundHalfEven(n, fine) * fine
<1>8. a \in Nat /\ -fine <= 2 * (a - n) /\ 2 * (a - n) <= fine BY <1>7, RoundingIsNear
<1>9. a = Rounded(n) BY DEF Rounded, fine
<1> HIDE DEF a
<1>10. -coarse <= 2 * (a - n) /\ 2 * (a - n) <= coarse BY <1>7, <1>8
<1> QED BY <1>7, <1>8, <1>9, <1>10 DEF coarse

\* Runs at one point of a day, and runs that have first run dry on the same day: before that
\* there is only one, since nothing has been left to chance.
OnTheDay(R, library, day, budget, watches) ==
    \A run \in R : /\ RunOk(run, library, day) /\ RewatchFirst(run, library, day)
                   /\ run.budget = budget /\ run.rewatches + run.new_watches = watches
Alike(R, dry) ==
    /\ R # {} /\ \A run \in R : run.first_dry = dry
    /\ dry = NeverDry => IsOne(R)

\* One watch more in each of them.
AfterWatch(R, library, day) == UNION {Watched(run, library, day) : run \in R}

\* Runs that were alike are alike after it.
LEMMA LevelStep ==
    ASSUME NEW library, IsLibrary(library), NEW day \in Nat, NEW budget, NEW watches,
           NEW R, OnTheDay(R, library, day, budget, watches), NEW dry \in Int, Alike(R, dry),
           NEW Q, Q = AfterWatch(R, library, day)
    PROVE  /\ OnTheDay(Q, library, day, budget, watches + 1)
           /\ \E d \in Int : Alike(Q, d) /\ (dry # NeverDry => d = dry)
<1>1. ASSUME NEW next \in Q
      PROVE  \E run \in R : next \in Watched(run, library, day)
  BY DEF AfterWatch
<1>2. ASSUME NEW run \in R
      PROVE  /\ RunOk(run, library, day) /\ RewatchFirst(run, library, day)
             /\ run.budget = budget /\ run.rewatches + run.new_watches = watches
             /\ run.first_dry = dry
  BY DEF OnTheDay, Alike
<1>3. ASSUME NEW run \in R, NEW next \in Watched(run, library, day)
      PROVE  /\ RunOk(next, library, day) /\ RewatchFirst(next, library, day)
             /\ next.budget = budget /\ next.rewatches + next.new_watches = watches + 1
             /\ next.first_dry = IF run.due = <<>> /\ dry = NeverDry THEN day ELSE dry
  BY <1>2, <1>3, WatchStep
<1>4. OnTheDay(Q, library, day, budget, watches + 1) BY <1>1, <1>3 DEF OnTheDay
<1>5. Q # {}
  <2>1. PICK run \in R : TRUE BY DEF Alike
  <2>2. Watched(run, library, day) # {} BY <1>2, WatchStep
  <2> QED BY <2>1, <2>2 DEF AfterWatch
<1>6. CASE dry # NeverDry
  <2>1. \A next \in Q : next.first_dry = dry BY <1>1, <1>3, <1>6
  <2>2. Alike(Q, dry) BY <1>5, <1>6, <2>1 DEF Alike
  <2> QED BY <1>4, <2>2
<1>7. CASE dry = NeverDry
  <2>1. PICK run : R = {run} BY <1>7 DEF Alike, IsOne
  <2>2. Q = Watched(run, library, day) BY <2>1 DEF AfterWatch
  <2>3. CASE run.due = <<>>
    <3>1. \A next \in Q : next.first_dry = day BY <1>3, <1>7, <2>1, <2>2, <2>3
    <3>2. day # NeverDry BY DEF NeverDry
    <3>3. Alike(Q, day) BY <1>5, <3>1, <3>2 DEF Alike
    <3>4. day \in Int OBVIOUS
    <3>5. \E d \in Int : Alike(Q, d) BY <3>3, <3>4
    <3> QED BY <1>4, <1>7, <3>5
  <2>4. CASE run.due # <<>>
    <3>1. \A next \in Q : next.first_dry = dry BY <1>3, <2>1, <2>2, <2>4
    <3>2. IsOne(Q) BY <2>2, <2>4, OneWayOn
    <3>3. Alike(Q, dry) BY <1>5, <3>1, <3>2 DEF Alike
    <3> QED BY <1>4, <1>7, <3>3
  <2> QED BY <2>3, <2>4
<1> QED BY <1>6, <1>7

-----------------------------------------------------------------------------
(* A day of the projection *)

\* The runs after each watch of a day.
IsDayTable(table, n, first, library, day) ==
    table = [k \in 0..n |->
               IF k = 0 THEN {first}
               ELSE UNION {Watched(run, library, day) : run \in table[k - 1]}]

\* The recursive function of a day is defined for every number of watches.
LEMMA DayTableExists ==
    ASSUME NEW n \in Nat, NEW first, NEW library, NEW day
    PROVE  \E table : IsDayTable(table, n, first, library, day)
<1> DEFINE Entry(g, k) == IF k = 0 THEN {first}
                          ELSE UNION {Watched(run, library, day) : run \in g[k - 1]}
           Reached(m) == \E g : g = [k \in 0..m |-> Entry(g, k)]
           Missed == {m \in Nat : ~Reached(m)}
<1>1. Reached(0)
  <2> DEFINE g == [k \in 0..0 |-> {first}]
  <2>1. g = [k \in 0..0 |-> Entry(g, k)] OBVIOUS
  <2> QED BY <2>1
<1>2. ASSUME NEW m \in Nat, Reached(m) PROVE Reached(m + 1)
  <2>1. PICK g : g = [k \in 0..m |-> Entry(g, k)] BY <1>2
  <2> DEFINE h == [k \in 0..(m + 1) |-> Entry(g, k)]
  <2> HIDE DEF Entry
  <2>2. \A k \in 0..m : k \in 0..(m + 1) /\ h[k] = g[k]
    <3>1. \A k \in 0..m : k \in 0..(m + 1) OBVIOUS
    <3>2. \A k \in 0..(m + 1) : h[k] = Entry(g, k) OBVIOUS
    <3>3. \A k \in 0..m : g[k] = Entry(g, k) BY <2>1
    <3> QED BY <3>1, <3>2, <3>3
  <2> HIDE DEF h
  <2> USE DEF Entry
  <2>3. ASSUME NEW k \in 0..(m + 1) PROVE Entry(h, k) = Entry(g, k)
    <3>1. k # 0 => k - 1 \in 0..m OBVIOUS
    <3>2. k # 0 => h[k - 1] = g[k - 1] BY <2>2, <3>1
    <3> QED BY <3>2
  <2> HIDE DEF Entry
  <2>4. h = [k \in 0..(m + 1) |-> Entry(h, k)] BY <2>3 DEF h
  <2> QED BY <2>4
<1> HIDE DEF Reached
<1>3. Missed = {}
  <2> SUFFICES ASSUME Missed # {} PROVE FALSE OBVIOUS
  <2>1. PICK k \in Missed : \A j \in Missed : k <= j BY LeastNatural
  <2>2. k # 0 BY <1>1, <2>1
  <2>3. k - 1 \in Nat /\ k - 1 \notin Missed BY <2>1, <2>2
  <2>4. Reached((k - 1) + 1) BY <1>2, <2>3
  <2>5. (k - 1) + 1 = k BY <2>1
  <2> QED BY <2>1, <2>4, <2>5
<1>4. Reached(n) BY <1>3
<1> QED BY <1>4 DEF Reached, IsDayTable

\* A day begins with what is due on it.
Morning(run, day, left) == [run EXCEPT !.due = suggest(run.state, day), !.budget = left]

\* The list is complete, and no film has been watched for the first time yet.
LEMMA MorningHolds ==
    ASSUME NEW library, NEW day \in Nat, NEW run, RunOk(run, library, day - 1),
           NEW left \in Nat,
           NEW morning, morning = Morning(run, day, left)
    PROVE  /\ RunOk(morning, library, day) /\ RewatchFirst(morning, library, day)
           /\ morning.budget = left /\ morning.first_dry = run.first_dry
           /\ morning.rewatches + morning.new_watches = run.rewatches + run.new_watches
<1> DEFINE D == DOMAIN run.state
           due == suggest(run.state, day)
<1>1. run \in Run /\ run.state \in [D -> RewatchInput] /\ D \subseteq Nat /\ IsFiniteSet(D)
  BY RunFields DEF RunOk
<1>2. \A f \in D : run.state[f] \in RewatchInput /\ due_date(run.state[f]) \in Int
  <2> TAKE f \in D
  <2>1. run.state[f] \in RewatchInput /\ WellRated(run.state[f]) BY <1>1 DEF RunOk
  <2> QED BY <2>1, IntervalTyped
<1>3. /\ ToSet(due) = {f \in D : IsDue(run.state[f], day)} /\ due \in Seq(D)
  <2> DEFINE inputs == run.state
  <2>1. \A f \in DOMAIN inputs : due_date(inputs[f]) \in Int BY <1>2
  <2>2. IsFiniteSet(DOMAIN inputs) /\ DOMAIN inputs \subseteq Nat BY <1>1
  <2> HIDE DEF inputs
  <2>3. /\ ToSet(suggest(inputs, day)) = {f \in DOMAIN inputs : IsDue(inputs[f], day)}
        /\ suggest(inputs, day) \in Seq(DOMAIN inputs)
    BY <2>1, <2>2, DueListMembers
  <2> QED BY <2>3 DEF inputs
<1> HIDE DEF due
<1>4. /\ morning.state = run.state /\ morning.due = due /\ morning.budget = left
      /\ morning.rewatches = run.rewatches /\ morning.new_watches = run.new_watches
      /\ morning.first_dry = run.first_dry
      /\ morning = [state |-> morning.state, due |-> morning.due, budget |-> morning.budget,
                    rewatches |-> morning.rewatches, new_watches |-> morning.new_watches,
                    first_dry |-> morning.first_dry]
  BY <1>1 DEF Run, due, Morning
<1>5. morning \in Run
  <2>1. run.rewatches \in Nat /\ run.new_watches \in Nat /\ run.first_dry \in Int
    BY <1>1, RunFields
  <2> HIDE DEF D
  <2>2. /\ morning.state \in [D -> RewatchInput] /\ morning.due \in Seq(D)
        /\ morning.budget \in Nat /\ morning.rewatches \in Nat /\ morning.new_watches \in Nat
        /\ morning.first_dry \in Int
    BY <1>1, <1>3, <1>4, <2>1
  <2>3. [state |-> morning.state, due |-> morning.due, budget |-> morning.budget,
         rewatches |-> morning.rewatches, new_watches |-> morning.new_watches,
         first_dry |-> morning.first_dry] \in Run
    BY <1>1, <2>2, RunMade
  <2> QED BY <1>4, <2>3
<1>6. \A f \in D \ DOMAIN library :
        /\ run.state[f].last_watched_date \in Int
        /\ run.state[f].last_watched_date <= day - 1 /\ run.state[f].watch_count > 0
  BY <1>2 DEF RunOk, RewatchInput
<1>7. RunOk(morning, library, day)
  <2>1. \A f \in D \ DOMAIN library :
          /\ run.state[f].last_watched_date <= day /\ run.state[f].watch_count > 0
    BY <1>6
  <2>2. DOMAIN library \subseteq D /\ \A f \in D : WellRated(run.state[f]) BY DEF RunOk
  <2> QED BY <1>1, <1>3, <1>4, <1>5, <2>1, <2>2 DEF RunOk
<1>8. RewatchFirst(morning, library, day)
  <2>1. ~NewToday(morning, library, day)
    <3>1. \A f \in D \ DOMAIN library : run.state[f].last_watched_date # day BY <1>6
    <3> QED BY <1>4, <3>1 DEF NewToday
  <2>2. \A f \in D : IsDue(run.state[f], day) => f \in ToSet(due) BY <1>3
  <2> QED BY <1>4, <2>1, <2>2 DEF RewatchFirst
<1> QED BY <1>4, <1>7, <1>8

\* A day of a run: its watches are made, what is left of the budget is kept, and its runs are
\* alike.
LEMMA DayStep ==
    ASSUME NEW library, IsLibrary(library), NEW day \in Nat, NEW run,
           RunOk(run, library, day - 1), NEW rate, Rounded(run.budget + rate) \in Nat
    PROVE  LET budget == Rounded(run.budget + rate)
               R == Day(run, library, rate, day)
           IN  /\ OnTheDay(R, library, day, Kept(budget),
                           run.rewatches + run.new_watches + budget \div One)
               /\ \E d \in Int : /\ Alike(R, d)
                                 /\ run.first_dry # NeverDry => d = run.first_dry
<1> DEFINE budget == Rounded(run.budget + rate)
           n == budget \div One
           left == Kept(budget)
           morning == Morning(run, day, left)
           table == CHOOSE t : IsDayTable(t, n, morning, library, day)
           w == run.rewatches + run.new_watches
           Good(k) == /\ OnTheDay(table[k], library, day, left, w + k)
                      /\ \E d \in Int : /\ Alike(table[k], d)
                                        /\ run.first_dry # NeverDry => d = run.first_dry
<1>1. Day(run, library, rate, day) = table[n] BY DEF Day, IsDayTable, Morning
<1>2. run \in Run BY DEF RunOk
<1>3. /\ run.rewatches \in Nat /\ run.new_watches \in Nat
      /\ run.first_dry \in Int
  BY <1>2, RunFields
<1>4. w \in Nat /\ budget \in Nat /\ One \in Nat \ {0} BY <1>3, FloatAssumption
<1> HIDE DEF w, budget
<1>5. n \in Nat /\ left \in Nat
  <2>1. left \in 0..(One - 1) /\ n \in Nat BY <1>4, DivisionOfNaturals DEF Kept
  <2> HIDE DEF left, n
  <2> QED BY <1>4, <2>1
<1> HIDE DEF left
<1>6. /\ RunOk(morning, library, day) /\ RewatchFirst(morning, library, day)
      /\ morning.budget = left /\ morning.first_dry = run.first_dry
      /\ morning.rewatches + morning.new_watches = w
  BY <1>5, MorningHolds DEF w
<1> HIDE DEF morning, n
<1>7. IsDayTable(table, n, morning, library, day) BY <1>5, DayTableExists
<1> HIDE DEF table
<1>8. table[0] = {morning} BY <1>5, <1>7 DEF IsDayTable
<1>9. \A k \in 1..n : table[k] = UNION {Watched(r, library, day) : r \in table[k - 1]}
  BY <1>5, <1>7 DEF IsDayTable
<1>10. Good(0)
  <2>1. OnTheDay(table[0], library, day, left, w + 0) BY <1>4, <1>6, <1>8 DEF OnTheDay
  <2>2. Alike(table[0], run.first_dry) BY <1>6, <1>8 DEF Alike, IsOne
  <2> QED BY <1>3, <2>1, <2>2
<1>11. ASSUME NEW k \in 1..n, Good(k - 1) PROVE Good(k)
  <2> DEFINE R == table[k - 1]
             Q == table[k]
             v == w + (k - 1)
  <2>1. v + 1 = w + k BY <1>4
  <2>2. PICK d \in Int : Alike(R, d) /\ (run.first_dry # NeverDry => d = run.first_dry)
    BY <1>11
  <2>3. OnTheDay(R, library, day, left, v) BY <1>11
  <2>4. Q = AfterWatch(R, library, day) BY <1>9 DEF AfterWatch
  <2> HIDE DEF R, Q, v
  <2>5. /\ OnTheDay(Q, library, day, left, v + 1)
        /\ \E e \in Int : Alike(Q, e) /\ (d # NeverDry => e = d)
    <3>1. d \in Int /\ Alike(R, d) BY <2>2
    <3> QED BY <2>3, <2>4, <3>1, LevelStep
  <2> QED BY <2>1, <2>2, <2>5 DEF Q
<1> HIDE DEF Good
<1>12. Good(n)
  <2> DEFINE Missed == {k \in 0..n : ~Good(k)}
  <2> SUFFICES ASSUME Missed # {} PROVE FALSE BY <1>5
  <2>1. Missed \in SUBSET Nat BY <1>5
  <2>2. PICK k \in Missed : \A j \in Missed : k <= j BY <2>1, LeastNatural
  <2>3. k # 0 BY <1>10, <2>2
  <2>4. k \in 1..n /\ k - 1 \in 0..n /\ ~(k <= k - 1) BY <1>5, <2>2, <2>3
  <2>5. Good(k - 1) BY <2>2, <2>4
  <2> QED BY <1>11, <2>2, <2>4, <2>5
<1> QED BY <1>1, <1>12 DEF Good, w, n, left, budget

\* The runs at the end of a day, the n-th of the projection: the rate is kept, and the day's
\* watches went to what was due first.
OnPace(run, rate, n) == run.budget < One /\ InStep(run, rate, n)
Evening(R, library, rate, day, n) ==
    /\ \A run \in R :
         /\ RunOk(run, library, day)
         /\ OnPace(run, rate, n)
         /\ n # 0 => RewatchFirst(run, library, day)
    /\ \E dry \in Int : Alike(R, dry)

AfterDay(R, library, rate, day) == UNION {Day(run, library, rate, day) : run \in R}

\* What accrues on a day is within the floats.
LEMMA Accrued ==
    ASSUME NEW library, NEW day, NEW n, NEW rate, IsRate(rate), NEW run, RunOk(run, library, day),
           OnPace(run, rate, n)
    PROVE  /\ run.budget \in Nat /\ run.rewatches + run.new_watches \in Nat
           /\ run.budget + rate \in Nat /\ run.budget + rate <= One + rate
           /\ rate \in Nat /\ Rounded(run.budget + rate) \in Nat
<1>1. run \in Run BY DEF RunOk
<1>2. run.budget \in Nat /\ run.rewatches \in Nat /\ run.new_watches \in Nat BY <1>1, RunFields
<1>3. rate \in Nat /\ One \in Nat /\ run.budget < One BY FloatAssumption DEF IsRate, OnPace
<1>4. run.budget + rate \in Nat /\ run.budget + rate <= One + rate BY <1>2, <1>3
<1>5. Rounded(run.budget + rate) \in Nat BY <1>4, SumIsNear
<1> QED BY <1>2, <1>3, <1>4, <1>5

\* The rounding of one day is all that is added to the drift.
LEMMA DriftGrows ==
    ASSUME NEW rate, IsRate(rate), NEW n \in Nat, NEW run, NEW next,
           run.budget \in Nat, run.rewatches + run.new_watches \in Nat, OnPace(run, rate, n),
           NEW budget \in Nat, budget = Rounded(run.budget + rate),
           next.budget = Kept(budget),
           next.rewatches + next.new_watches = run.rewatches + run.new_watches + budget \div One
    PROVE  OnPace(next, rate, n + 1)
<1> DEFINE done == run.rewatches + run.new_watches
           more == budget \div One
           left == budget % One
           sum == run.budget + rate
           g == Granule(One + rate)
<1>1. One \in Nat \ {0} /\ rate \in Nat /\ run.budget < One
  BY FloatAssumption DEF IsRate, OnPace
<1>2. sum \in Nat /\ sum <= One + rate BY <1>1
<1>3. more \in Nat /\ left \in 0..(One - 1) /\ budget = One * more + left
  BY <1>1, DivisionOfNaturals
<1>4. g \in Nat /\ -g <= 2 * (budget - sum) /\ 2 * (budget - sum) <= g BY <1>2, SumIsNear
<1>5. next.budget = left /\ next.rewatches + next.new_watches = done + more BY DEF Kept
<1> DEFINE drift == done * One + run.budget - n * rate
           grown == (done + more) * One + left - (n + 1) * rate
<1>6. Drift(run, rate, n) = drift /\ Drift(next, rate, n + 1) = grown BY <1>5 DEF Drift
<1>7. -(n * g) <= 2 * drift /\ 2 * drift <= n * g BY <1>6 DEF OnPace, InStep
<1> HIDE DEF more, left, g
<1>8. grown = drift + (budget - sum) /\ drift \in Int
  <2> DEFINE a == done * One
             b == One * more
             c == n * rate
             u == run.budget
  <2>1. a \in Int /\ b \in Int /\ c \in Int /\ u \in Int BY <1>1, <1>3
  <2>2. (done + more) * One = a + b BY <1>1, <1>3
  <2>3. (n + 1) * rate = c + rate BY <1>1
  <2>4. grown = a + b + left - (c + rate) BY <2>2, <2>3
  <2>5. drift = a + u - c /\ budget = b + left /\ sum = u + rate BY <1>3
  <2>6. rate \in Int /\ left \in Int BY <1>1, <1>3
  <2> HIDE DEF a, b, c, u, sum, grown, drift
  <2> QED BY <2>1, <2>4, <2>5, <2>6
<1>9. (n + 1) * g = n * g + g /\ n * g \in Int BY <1>4
<1> DEFINE e == n * g
<1>10. -(e + g) <= 2 * grown /\ 2 * grown <= e + g
  <2>1. -e <= 2 * drift /\ 2 * drift <= e /\ e \in Int BY <1>7, <1>9
  <2> HIDE DEF e, grown, drift, sum
  <2> QED BY <1>2, <1>4, <1>8, <2>1
<1>11. InStep(next, rate, n + 1) BY <1>6, <1>9, <1>10 DEF InStep, g
<1>12. next.budget < One BY <1>1, <1>3, <1>5
<1> QED BY <1>11, <1>12 DEF OnPace

\* A day in one of the runs.
LEMMA OneDay ==
    ASSUME NEW library, IsLibrary(library), NEW day \in Nat, NEW n \in Nat,
           NEW rate, IsRate(rate), NEW run,
           RunOk(run, library, day - 1), OnPace(run, rate, n),
           NEW next \in Day(run, library, rate, day)
    PROVE  /\ RunOk(next, library, day) /\ RewatchFirst(next, library, day)
           /\ OnPace(next, rate, n + 1)
<1> DEFINE budget == Rounded(run.budget + rate)
           done == run.rewatches + run.new_watches
<1>1. budget \in Nat /\ run.budget \in Nat /\ done \in Nat BY Accrued
<1>2. OnTheDay(Day(run, library, rate, day), library, day, Kept(budget), done + budget \div One)
  BY <1>1, DayStep
<1>3. /\ RunOk(next, library, day) /\ RewatchFirst(next, library, day)
      /\ next.budget = Kept(budget) /\ next.rewatches + next.new_watches = done + budget \div One
  BY <1>2 DEF OnTheDay
<1>4. OnPace(next, rate, n + 1)
  <2> DEFINE b == budget
  <2>1. b \in Nat /\ b = Rounded(run.budget + rate) BY <1>1
  <2>2. next.budget = Kept(b) /\ next.rewatches + next.new_watches = done + b \div One BY <1>3
  <2> HIDE DEF b
  <2> QED BY <1>1, <2>1, <2>2, DriftGrows
<1> QED BY <1>3, <1>4

\* A day in all of them: as long as nothing was left to chance there is one run.
LEMMA EveningStep ==
    ASSUME NEW library, IsLibrary(library), NEW day \in Nat, NEW n \in Nat,
           NEW rate, IsRate(rate), NEW R,
           Evening(R, library, rate, day - 1, n),
           NEW Q, Q = AfterDay(R, library, rate, day)
    PROVE  Evening(Q, library, rate, day, n + 1)
<1>1. PICK dry \in Int : Alike(R, dry) BY DEF Evening
<1>2. ASSUME NEW run \in R
      PROVE  RunOk(run, library, day - 1) /\ OnPace(run, rate, n) /\ run.first_dry = dry
  BY <1>1 DEF Evening, Alike
<1>3. ASSUME NEW next \in Q
      PROVE  \E run \in R : next \in Day(run, library, rate, day)
  BY DEF AfterDay
<1>4. \A next \in Q :
        /\ RunOk(next, library, day) /\ RewatchFirst(next, library, day)
        /\ OnPace(next, rate, n + 1)
  <2> TAKE next \in Q
  <2>1. PICK run \in R : next \in Day(run, library, rate, day) BY <1>3
  <2> QED BY <1>2, <2>1, OneDay
<1>5. ASSUME NEW run \in R
      PROVE  \E d \in Int : /\ Alike(Day(run, library, rate, day), d)
                            /\ dry # NeverDry => d = dry
  <2>1. run.first_dry = dry /\ RunOk(run, library, day - 1) /\ Rounded(run.budget + rate) \in Nat
    BY <1>2, Accrued
  <2>2. \E d \in Int : /\ Alike(Day(run, library, rate, day), d)
                       /\ run.first_dry # NeverDry => d = run.first_dry
    BY <2>1, DayStep
  <2> QED BY <2>1, <2>2
<1>6. \E d \in Int : Alike(Q, d)
  <2>1. CASE dry # NeverDry
    <3>1. \A run \in R : Alike(Day(run, library, rate, day), dry) BY <1>5, <2>1
    <3>2. \A next \in Q : next.first_dry = dry BY <1>3, <3>1 DEF Alike
    <3>3. Q # {}
      <4>1. PICK run \in R : TRUE BY <1>1 DEF Alike
      <4>2. Day(run, library, rate, day) # {} BY <3>1 DEF Alike
      <4> QED BY <4>1, <4>2 DEF AfterDay
    <3> QED BY <2>1, <3>2, <3>3 DEF Alike
  <2>2. CASE dry = NeverDry
    <3>1. PICK run : R = {run} BY <1>1, <2>2 DEF Alike, IsOne
    <3>2. Q = Day(run, library, rate, day) BY <3>1 DEF AfterDay
    <3> QED BY <1>5, <3>1, <3>2
  <2> QED BY <2>1, <2>2
<1> QED BY <1>4, <1>6 DEF Evening

\* The runs at the end of each day, from the evening before the first.
IsRunTable(table, library, rate, start, final_day) ==
    table = [day \in (start - 1)..final_day |->
               IF day < start THEN {StartRun(library)}
               ELSE UNION {Day(run, library, rate, day) : run \in table[day - 1]}]

\* The recursive function of the projection is defined for every number of days.
LEMMA RunTableExists ==
    ASSUME NEW n \in Nat, NEW library, NEW rate, NEW start \in Nat
    PROVE  \E table : IsRunTable(table, library, rate, start, (start - 1) + n)
<1> DEFINE Entry(g, day) == IF day < start THEN {StartRun(library)}
                            ELSE UNION {Day(run, library, rate, day) : run \in g[day - 1]}
           Span(m) == (start - 1)..((start - 1) + m)
           Reached(m) == \E g : g = [day \in Span(m) |-> Entry(g, day)]
           Missed == {m \in Nat : ~Reached(m)}
<1>1. Reached(0)
  <2> DEFINE g == [day \in Span(0) |-> {StartRun(library)}]
  <2>1. \A day \in Span(0) : day < start OBVIOUS
  <2>2. g = [day \in Span(0) |-> Entry(g, day)] BY <2>1
  <2> QED BY <2>2
<1>2. ASSUME NEW m \in Nat, Reached(m) PROVE Reached(m + 1)
  <2>1. PICK g : g = [day \in Span(m) |-> Entry(g, day)] BY <1>2
  <2> DEFINE h == [day \in Span(m + 1) |-> Entry(g, day)]
  <2>2. \A day \in Span(m) : day \in Span(m + 1) OBVIOUS
  <2>3. \A day \in Span(m + 1) : ~(day < start) => day - 1 \in Span(m) OBVIOUS
  <2> HIDE DEF Entry, Span
  <2>4. \A day \in Span(m) : h[day] = g[day]
    <3>1. \A day \in Span(m + 1) : h[day] = Entry(g, day) OBVIOUS
    <3>2. \A day \in Span(m) : g[day] = Entry(g, day) BY <2>1
    <3> QED BY <2>2, <3>1, <3>2
  <2> HIDE DEF h
  <2> USE DEF Entry
  <2>5. ASSUME NEW day \in Span(m + 1) PROVE Entry(h, day) = Entry(g, day)
    <3>1. ~(day < start) => h[day - 1] = g[day - 1] BY <2>3, <2>4
    <3> QED BY <3>1
  <2> HIDE DEF Entry
  <2>6. h = [day \in Span(m + 1) |-> Entry(h, day)] BY <2>5 DEF h
  <2> QED BY <2>6
<1> HIDE DEF Reached
<1>3. Missed = {}
  <2> SUFFICES ASSUME Missed # {} PROVE FALSE OBVIOUS
  <2>1. PICK k \in Missed : \A j \in Missed : k <= j BY LeastNatural
  <2>2. k # 0 BY <1>1, <2>1
  <2>3. k - 1 \in Nat /\ k - 1 \notin Missed BY <2>1, <2>2
  <2>4. Reached((k - 1) + 1) BY <1>2, <2>3
  <2>5. (k - 1) + 1 = k BY <2>1
  <2> QED BY <2>1, <2>4, <2>5
<1>4. Reached(n) BY <1>3
<1> QED BY <1>4 DEF Reached, IsRunTable

\* The evening before.
LEMMA BeforeTheFirstDay ==
    ASSUME NEW library, IsLibrary(library), NEW rate, IsRate(rate),
           NEW day \in Int
    PROVE  Evening({StartRun(library)}, library, rate, day, 0)
<1> DEFINE run == StartRun(library)
           D == DOMAIN library
<1>1. /\ D \subseteq Nat /\ IsFiniteSet(D) /\ library \in [D -> RewatchInput]
      /\ \A f \in D : WellRated(library[f])
  BY DEF IsLibrary
<1>2. /\ run.state = library /\ run.due = <<>> /\ run.budget = 0 /\ run.rewatches = 0
      /\ run.new_watches = 0 /\ run.first_dry = NeverDry
      /\ run = [state |-> library, due |-> <<>>, budget |-> 0, rewatches |-> 0,
                new_watches |-> 0, first_dry |-> NeverDry]
  BY DEF StartRun
<1>3. run \in Run
  <2> HIDE DEF run, D
  <2>1. <<>> \in Seq(D) /\ NeverDry \in Int BY EmptyList DEF NeverDry
  <2>2. 0 \in Nat OBVIOUS
  <2>3. [state |-> library, due |-> <<>>, budget |-> 0, rewatches |-> 0, new_watches |-> 0,
         first_dry |-> NeverDry] \in Run
    BY <1>1, <2>1, <2>2, RunMade
  <2> QED BY <1>2, <2>3
<1> HIDE DEF run
<1>4. RunOk(run, library, day)
  <2>1. run.due \in Seq(D) BY <1>2, EmptyList
  <2> QED BY <1>1, <1>2, <1>3, <2>1 DEF RunOk
<1>5. OnPace(run, rate, 0)
  <2>1. rate \in Nat /\ One \in Nat \ {0} BY FloatAssumption DEF IsRate
  <2>2. Granule(One + rate) \in Nat
    <3>1. 0 \in Nat /\ 0 <= One + rate BY <2>1
    <3> QED BY <3>1, SumIsNear
  <2>3. 0 * One = 0 /\ 0 * rate = 0 /\ 0 * Granule(One + rate) = 0 BY <2>1, <2>2
  <2>4. Drift(run, rate, 0) = 0 BY <1>2, <2>3 DEF Drift
  <2>5. InStep(run, rate, 0) BY <2>3, <2>4 DEF InStep
  <2> QED BY <1>2, <2>1, <2>5 DEF OnPace
<1>6. Alike({run}, NeverDry) BY <1>2 DEF Alike, IsOne
<1>7. NeverDry \in Int BY DEF NeverDry
<1> QED BY <1>2, <1>4, <1>5, <1>6, <1>7 DEF Evening, run

\* The projection, day by day.
LEMMA EveningHolds ==
    ASSUME NEW library, IsLibrary(library), NEW rate, IsRate(rate),
           NEW start \in Nat, NEW n \in Nat
    PROVE  Evening(project(library, rate, start, (start - 1) + n),
                   library, rate, (start - 1) + n, n)
<1> DEFINE eve == start - 1
           last == eve + n
           table == CHOOSE t : IsRunTable(t, library, rate, start, last)
           Good(k) == Evening(table[eve + k], library, rate, eve + k, k)
<1>1. project(library, rate, start, last) = table[last] BY DEF project, IsRunTable
<1>2. IsRunTable(table, library, rate, start, last) BY RunTableExists
<1>3. eve \in Int /\ last \in Int /\ eve \in eve..last /\ eve < start OBVIOUS
<1> HIDE DEF table
<1>4. \A day \in eve..last :
        table[day] = IF day < start THEN {StartRun(library)}
                     ELSE UNION {Day(run, library, rate, day) : run \in table[day - 1]}
  BY <1>2 DEF IsRunTable
<1>5. Good(0)
  <2>1. table[eve] = {StartRun(library)} BY <1>3, <1>4
  <2>2. eve + 0 = eve BY <1>3
  <2> HIDE DEF eve
  <2> QED BY <1>3, <2>1, <2>2, BeforeTheFirstDay
<1>6. ASSUME NEW k \in 1..n, Good(k - 1) PROVE Good(k)
  <2> DEFINE day == eve + k
             m == k - 1
             R == table[day - 1]
             Q == table[day]
  <2>1. /\ day \in Nat /\ day \in eve..last /\ ~(day < start) /\ m \in Nat /\ m + 1 = k
        /\ eve + m = day - 1
    OBVIOUS
  <2>2. Q = AfterDay(R, library, rate, day) BY <1>4, <2>1 DEF AfterDay
  <2>3. Evening(R, library, rate, day - 1, m) BY <1>6, <2>1
  <2> HIDE DEF day, m, R, Q
  <2>4. Evening(Q, library, rate, day, m + 1) BY <2>1, <2>2, <2>3, EveningStep
  <2> QED BY <2>1, <2>4 DEF Q, day
<1>7. eve + n = last OBVIOUS
<1> HIDE DEF Good
<1>8. Good(n)
  <2> DEFINE Missed == {k \in 0..n : ~Good(k)}
  <2> SUFFICES ASSUME Missed # {} PROVE FALSE OBVIOUS
  <2>1. Missed \in SUBSET Nat OBVIOUS
  <2>2. PICK k \in Missed : \A j \in Missed : k <= j BY <2>1, LeastNatural
  <2>3. k # 0 BY <1>5, <2>2
  <2>4. k \in 1..n /\ k - 1 \in 0..n /\ ~(k <= k - 1) BY <2>2, <2>3
  <2>5. Good(k - 1) BY <2>2, <2>4
  <2> QED BY <1>6, <2>2, <2>4, <2>5
<1> QED BY <1>1, <1>8 DEF Good

\* Nothing is due, so the list is empty.
LEMMA NothingIsListed ==
    ASSUME NEW library, NEW day \in Int, NEW run, RunOk(run, library, day),
           \A f \in DOMAIN run.state : ~IsDue(run.state[f], day)
    PROVE  suggest(run.state, day) = <<>>
<1> DEFINE inputs == run.state
           D == DOMAIN inputs
           list == suggest(inputs, day)
<1>1. inputs \in [D -> RewatchInput] /\ D \subseteq Nat /\ IsFiniteSet(D)
  BY RunFields DEF RunOk
<1>2. \A f \in D : due_date(inputs[f]) \in Int
  <2> TAKE f \in D
  <2>1. inputs[f] \in RewatchInput /\ WellRated(inputs[f]) BY <1>1 DEF RunOk
  <2> QED BY <2>1, IntervalTyped
<1>3. {f \in D : IsDue(inputs[f], day)} = {} OBVIOUS
<1> HIDE DEF inputs
<1>4. ToSet(list) = {} /\ list \in Seq(D) BY <1>1, <1>2, <1>3, DueListMembers
<1> HIDE DEF list, D
<1>5. list = <<>>
  <2>1. DOMAIN list = {} BY <1>4 DEF ToSet
  <2>2. Len(list) \in Nat /\ DOMAIN list = 1..Len(list) BY <1>4
  <2>3. Len(list) = 0
    <3>1. Len(list) > 0 => 1 \in DOMAIN list BY <2>2
    <3> QED BY <2>1, <2>2, <3>1
  <2> QED BY <1>4, <2>3
<1> QED BY <1>5 DEF list, inputs

\* After any number of days, from any library and at any rate: the first day without anything
\* due is certain.
LEMMA OneDryDay ==
    ASSUME NEW runs, NEW library, NEW rate, NEW last, NEW n,
           Evening(runs, library, rate, last, n)
    PROVE  Cardinality({run.first_dry : run \in runs}) = 1
<1>1. PICK dry \in Int : Alike(runs, dry) BY DEF Evening
<1>2. {run.first_dry : run \in runs} = {dry} BY <1>1 DEF Alike
<1> QED BY <1>2, FS_Singleton

\* No film is first watched on a day that ends with another due.
LEMMA FaithKept ==
    ASSUME NEW library, NEW rate, NEW last \in Int, NEW n, n # 0, NEW runs,
           Evening(runs, library, rate, last, n), NEW run \in runs
    PROVE  NewToday(run, library, last) => suggest(run.state, last) = <<>>
<1>1. RunOk(run, library, last) /\ RewatchFirst(run, library, last) BY DEF Evening
<1>2. CASE NewToday(run, library, last)
  <2>1. run.due = <<>> BY <1>1, <1>2 DEF RewatchFirst
  <2>2. ToSet(run.due) = {} BY <2>1 DEF ToSet
  <2>3. \A f \in DOMAIN run.state : ~IsDue(run.state[f], last) BY <1>1, <2>2 DEF RewatchFirst
  <2>4. suggest(run.state, last) = <<>> BY <1>1, <2>3, NothingIsListed
  <2> QED BY <1>1, <2>4
<1> QED BY <1>1, <1>2

\* What the due-list's films are is where the projection starts.
LEMMA LibraryIsStart ==
    ASSUME TypeOK, Library # {}
    PROVE  IsLibrary(collect_inputs) /\ DOMAIN collect_inputs = Library
<1> DEFINE inputs == collect_inputs
<1>1. DOMAIN inputs = Library /\ \A f \in Library : inputs[f] = collect_input(f)
  BY DEF collect_inputs
<1>2. inputs = [f \in DOMAIN inputs |-> inputs[f]] BY DEF collect_inputs
<1>3. \A f \in Library : collect_input(f) \in RewatchInput /\ WellRated(collect_input(f))
  BY InputTyped
<1>4. IsFiniteSet(Library) /\ Library \subseteq Nat
  <2>1. Library \subseteq Films BY DEF Library
  <2>2. IsFiniteSet(Films) /\ Films \subseteq Nat BY DueListAssumption
  <2> QED BY <2>1, <2>2, FS_Subset
<1> HIDE DEF inputs
<1>5. inputs \in [DOMAIN inputs -> RewatchInput] BY <1>1, <1>2, <1>3
<1>6. IsLibrary(inputs) BY <1>1, <1>3, <1>4, <1>5 DEF IsLibrary
<1> QED BY <1>1, <1>6 DEF inputs

\* The runs of the projection, from what the library has come to.
LEMMA Projected ==
    ASSUME TypeOK, Library # {}, NEW rate \in Rates, NEW days \in 1..Horizon
    PROVE  /\ today + days - 1 \in Int /\ days \in Nat \ {0}
           /\ Evening(project(collect_inputs, rate, today, today + days - 1),
                      collect_inputs, rate, today + days - 1, days)
<1> DEFINE last == today + days - 1
           library == collect_inputs
<1>1. IsLibrary(library) BY LibraryIsStart
<1>2. IsRate(rate)
  <2>1. rate \in Nat /\ \E g \in Granules : One + rate <= g * Significand BY DueListAssumption
  <2> QED BY <2>1 DEF IsRate
<1>3. today \in Nat /\ days \in Nat \ {0} /\ last = (today - 1) + days
  <2>1. today \in Nat BY DueListAssumption DEF TypeOK
  <2>2. Horizon \in Nat BY DueListAssumption
  <2>3. days \in Nat \ {0} BY <2>2
  <2> QED BY <2>1, <2>3
<1> HIDE DEF last, library
<1>4. Evening(project(library, rate, today, last), library, rate, last, days)
  BY <1>1, <1>2, <1>3, EveningHolds
<1>5. last \in Int BY <1>3
<1> QED BY <1>3, <1>4, <1>5 DEF last, library

\* Whatever the library has come to: over any horizon and at any rate the projection watches
\* what is due first, and the day on which the first new film is watched does not depend on
\* which film that is.
THEOREM RewatchesAlwaysFirst == Spec => []RewatchesComeFirst
<1>1. ASSUME TypeOK PROVE RewatchesComeFirst
  <2> SUFFICES ASSUME Library # {}, NEW rate \in Rates, NEW days \in 1..Horizon
               PROVE  LET last == today + days - 1
                          runs == project(collect_inputs, rate, today, last)
                      IN  /\ Cardinality({run.first_dry : run \in runs}) = 1
                          /\ \A run \in runs :
                               (\E f \in DOMAIN run.state \ Library :
                                  /\ run.state[f].last_watched_date = last
                                  /\ run.state[f].watch_count = 1)
                                 => suggest(run.state, last) = <<>>
    BY DEF RewatchesComeFirst
  <2> DEFINE last == today + days - 1
             library == collect_inputs
             runs == project(library, rate, today, last)
  <2>1. DOMAIN library = Library BY <1>1, LibraryIsStart
  <2>2. last \in Int /\ days # 0 /\ Evening(runs, library, rate, last, days) BY <1>1, Projected
  <2> HIDE DEF last, library, runs
  <2>3. Cardinality({run.first_dry : run \in runs}) = 1
    BY <2>2, OneDryDay
  <2>4. \A run \in runs : NewToday(run, library, last) => suggest(run.state, last) = <<>>
    BY <2>2, FaithKept
  <2> QED BY <2>1, <2>3, <2>4 DEF last, library, runs, NewToday
<1> QED BY <1>1, DueListTyped, PTL

\* At any rate within the floats, and over any horizon: the watches spent stay within half the
\* distance of neighbouring floats a day of what has accrued.
THEOREM RateAlwaysKept == Spec => []RateIsKept
<1>1. ASSUME TypeOK PROVE RateIsKept
  <2> SUFFICES ASSUME Library # {}, NEW rate \in Rates, NEW days \in 1..Horizon,
                      NEW run \in project(collect_inputs, rate, today, today + days - 1)
               PROVE  run.budget < One /\ InStep(run, rate, days)
    BY DEF RateIsKept
  <2>1. Evening(project(collect_inputs, rate, today, today + days - 1),
                collect_inputs, rate, today + days - 1, days)
    BY <1>1, Projected
  <2>2. OnPace(run, rate, days) BY <2>1 DEF Evening
  <2> QED BY <2>2 DEF OnPace
<1> QED BY <1>1, DueListTyped, PTL
=============================================================================
