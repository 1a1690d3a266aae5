------------------------- MODULE BackendLists_proofs -------------------------
(***************************************************************************)
(* Proofs about the lists of the backend, for any ids, caps and bounds.    *)
(*                                                                         *)
(* About TaskSources: an occurrence makes one task and none is forgotten,  *)
(* for any rules, schedules, calendar, review requests and crashes.  About *)
(* BackendNextUp: the next-up list settles, what is done stays done, and   *)
(* what comes and goes does not shuffle the rest.                          *)
(***************************************************************************)
EXTENDS TaskSources, BackendNextUp, FiniteSetTheorems, SequenceTheorems, WellFoundedInduction, TLAPS

-----------------------------------------------------------------------------
(* Induction over the naturals, stated of a set. *)

Below == {ss \in Nat \X Nat : ss[1] < ss[2]}

LEMMA BelowIsWellFounded == IsWellFoundedOn(Below, Nat)
  BY NatLessThanWellFounded DEF OpToRel, Below

LEMMA LeastNatural ==
    ASSUME NEW T, T \subseteq Nat, T # {}
    PROVE  \E n \in T : \A k \in T : n <= k
  <1>1. PICK n \in T : \A k \in T : ~(<<k, n>> \in Below)
    BY BelowIsWellFounded, WFMin
  <1>2. ASSUME NEW k \in T PROVE n <= k
    <2>1. <<k, n>> \in Nat \X Nat
      OBVIOUS
    <2>2. ~(k < n)
      BY <1>1, <2>1 DEF Below
    <2>3. QED
      BY <2>2
  <1>3. QED
    BY <1>2

LEMMA NaturalInduction ==
    ASSUME NEW S, 0 \in S, \A n \in Nat : n \in S => n + 1 \in S
    PROVE  Nat \subseteq S
  <1> DEFINE T == Nat \ S
  <1>1. SUFFICES ASSUME T # {} PROVE FALSE
    OBVIOUS
  <1>2. PICK n \in T : \A k \in T : n <= k
    BY <1>1, LeastNatural
  <1>3. n # 0 /\ n - 1 \in Nat
    OBVIOUS
  <1>4. n - 1 \in S
    BY <1>2, <1>3
  <1>5. QED
    BY <1>3, <1>4

-----------------------------------------------------------------------------
(* The calendar. *)

Months == Len(MonthLengths)

LEMMA CalendarTypes ==
    /\ Months \in Nat \ {0} /\ DOMAIN MonthLengths = 1 .. Months
    /\ \A m \in 1 .. Months : MonthLengths[m] \in Nat \ {0}
  <1>1. MonthLengths \in Seq(Nat \ {0}) /\ MonthLengths # <<>>
    BY TaskSourcesAssumption
  <1>2. QED
    BY <1>1, EmptySeq DEF Months

LEMMA DaysInDef ==
    DaysIn = [k \in 0 .. Months |-> IF k = 0 THEN 0 ELSE DaysIn[k - 1] + MonthLengths[k]]
  <1> DEFINE FoldsTo(f, n) == f = [k \in 0 .. n |-> IF k = 0 THEN 0 ELSE f[k - 1] + MonthLengths[k]]
             S == {n \in Nat : \E f : FoldsTo(f, n)}
  <1>1. 0 \in S
    <2>1. FoldsTo([k \in 0 .. 0 |-> 0], 0)
      OBVIOUS
    <2>2. QED
      BY <2>1
  <1>2. ASSUME NEW n \in Nat, n \in S
        PROVE  n + 1 \in S
    <2>1. PICK f : FoldsTo(f, n)
      BY <1>2
    <2> DEFINE h == [k \in 0 .. n + 1 |-> IF k = n + 1 THEN f[n] + MonthLengths[n + 1] ELSE f[k]]
    <2>2. \A k \in 0 .. n : h[k] = f[k]
      OBVIOUS
    <2>3. \A k \in 0 .. n : f[k] = IF k = 0 THEN 0 ELSE f[k - 1] + MonthLengths[k]
      BY <2>1
    <2>4. ASSUME NEW k \in 0 .. n + 1
          PROVE  h[k] = IF k = 0 THEN 0 ELSE h[k - 1] + MonthLengths[k]
      <3>1. CASE k = n + 1
        BY <2>2, <3>1
      <3>2. CASE k # n + 1
        <4>1. k \in 0 .. n /\ (k # 0 => k - 1 \in 0 .. n)
          BY <3>2
        <4>2. QED
          BY <2>2, <2>3, <4>1
      <3>3. QED
        BY <3>1, <3>2
    <2>5. h = [k \in 0 .. n + 1 |-> h[k]]
      OBVIOUS
    <2> HIDE DEF h
    <2>6. FoldsTo(h, n + 1)
      BY <2>4, <2>5
    <2>7. QED
      BY <2>6
  <1> HIDE DEF S
  <1>3. Nat \subseteq S
    BY <1>1, <1>2, NaturalInduction
  <1>4. \E f : FoldsTo(f, Months)
    BY <1>3, CalendarTypes DEF S
  <1>5. QED
    BY <1>4 DEF DaysIn, Months

LEMMA DaysInFacts ==
    /\ DaysIn[0] = 0
    /\ \A k \in 1 .. Months : DaysIn[k] = DaysIn[k - 1] + MonthLengths[k]
    /\ \A k \in 0 .. Months : DaysIn[k] \in Nat
  <1>1. DaysIn[0] = 0 /\ \A k \in 1 .. Months : DaysIn[k] = DaysIn[k - 1] + MonthLengths[k]
    BY DaysInDef, CalendarTypes
  <1> DEFINE S == {n \in Nat : n <= Months => DaysIn[n] \in Nat}
  <1>2. 0 \in S
    BY <1>1
  <1>3. ASSUME NEW n \in Nat, n \in S
        PROVE  n + 1 \in S
    <2>1. SUFFICES ASSUME n + 1 <= Months PROVE DaysIn[n + 1] \in Nat
      OBVIOUS
    <2>2. DaysIn[n] \in Nat /\ n + 1 \in 1 .. Months /\ MonthLengths[n + 1] \in Nat
      BY <1>3, <2>1, CalendarTypes
    <2>3. QED
      BY <1>1, <2>2
  <1> HIDE DEF S
  <1>4. Nat \subseteq S
    BY <1>2, <1>3, NaturalInduction
  <1>5. QED
    BY <1>1, <1>4, CalendarTypes DEF S

LEMMA DaysInGrows ==
    ASSUME NEW j \in 0 .. Months, NEW k \in 0 .. Months, j <= k
    PROVE  DaysIn[j] <= DaysIn[k]
  <1> DEFINE S == {n \in Nat : j <= n /\ n <= Months => DaysIn[j] <= DaysIn[n]}
  <1>1. 0 \in S
    BY DaysInFacts
  <1>2. ASSUME NEW n \in Nat, n \in S
        PROVE  n + 1 \in S
    <2>1. SUFFICES ASSUME j <= n + 1, n + 1 <= Months PROVE DaysIn[j] <= DaysIn[n + 1]
      OBVIOUS
    <2>2. CASE j = n + 1
      BY <2>2, DaysInFacts
    <2>3. CASE j # n + 1
      <3>1. n \in 0 .. Months /\ n + 1 \in 1 .. Months /\ DaysIn[j] <= DaysIn[n]
        BY <1>2, <2>1, <2>3, CalendarTypes
      <3>2. /\ DaysIn[j] \in Nat /\ DaysIn[n] \in Nat /\ MonthLengths[n + 1] \in Nat
            /\ DaysIn[n + 1] = DaysIn[n] + MonthLengths[n + 1]
        BY <3>1, DaysInFacts, CalendarTypes
      <3>3. QED
        BY <3>1, <3>2
    <2>4. QED
      BY <2>2, <2>3
  <1> HIDE DEF S
  <1>3. Nat \subseteq S
    BY <1>1, <1>2, NaturalInduction
  <1>4. QED
    BY <1>3, CalendarTypes DEF S

(* Day d is in month m. *)
InMonth(d, m) == m \in 1 .. Months /\ DaysIn[m - 1] < d /\ d <= DaysIn[m]

LEMMA MonthsApart ==
    ASSUME NEW d \in Nat, NEW m, InMonth(d, m), NEW k, InMonth(d, k), m < k
    PROVE  FALSE
  <1>1. m \in 0 .. Months /\ k - 1 \in 0 .. Months /\ m <= k - 1
    BY CalendarTypes DEF InMonth
  <1>2. DaysIn[m] <= DaysIn[k - 1] /\ DaysIn[m] \in Nat /\ DaysIn[k - 1] \in Nat
    BY <1>1, DaysInGrows, DaysInFacts
  <1>3. d <= DaysIn[m] /\ DaysIn[k - 1] < d
    BY DEF InMonth
  <1>4. QED
    BY <1>2, <1>3

LEMMA LastDayIsNatural == LastDay \in Nat /\ Days = 1 .. DaysIn[Months] /\ LastDay = DaysIn[Months]
  BY DaysInFacts, CalendarTypes DEF LastDay, Days, Months

LEMMA SomeMonth ==
    ASSUME NEW d \in Days
    PROVE  \E m : InMonth(d, m)
  <1> DEFINE T == {m \in 0 .. Months : d <= DaysIn[m]}
  <1>1. d \in Nat \ {0} /\ d <= DaysIn[Months] /\ Months \in 0 .. Months
    BY LastDayIsNatural, CalendarTypes
  <1>2. T \subseteq Nat /\ Months \in T
    BY <1>1, CalendarTypes
  <1>3. PICK m \in T : \A k \in T : m <= k
    BY <1>2, LeastNatural
  <1>4. m # 0
    BY <1>1, <1>3, DaysInFacts
  <1>5. m \in 1 .. Months /\ m - 1 \in 0 .. Months /\ m - 1 \notin T
    BY <1>3, <1>4, CalendarTypes
  <1>6. ~(d <= DaysIn[m - 1]) /\ DaysIn[m - 1] \in Nat
    BY <1>5, DaysInFacts
  <1>7. QED
    BY <1>1, <1>3, <1>5, <1>6 DEF InMonth

LEMMA MonthFacts ==
    ASSUME NEW d \in Days
    PROVE  /\ InMonth(d, MonthOf(d))
           /\ \A m : InMonth(d, m) => m = MonthOf(d)
  <1>1. d \in Nat
    BY LastDayIsNatural
  <1>2. \A m \in 1 .. Months : DaysBefore(m) + MonthLengths[m] = DaysIn[m] /\ DaysBefore(m) = DaysIn[m - 1]
    BY DaysInFacts DEF DaysBefore
  <1>3. MonthOf(d) = CHOOSE m \in 1 .. Months : DaysIn[m - 1] < d /\ d <= DaysIn[m]
    BY <1>2, CalendarTypes DEF MonthOf
  <1>4. \E m \in 1 .. Months : DaysIn[m - 1] < d /\ d <= DaysIn[m]
    BY SomeMonth DEF InMonth
  <1>5. InMonth(d, MonthOf(d))
    BY <1>3, <1>4 DEF InMonth
  <1>6. ASSUME NEW m, InMonth(d, m) PROVE m = MonthOf(d)
    <2>1. m \in Nat /\ MonthOf(d) \in Nat
      BY <1>5, <1>6, CalendarTypes DEF InMonth
    <2>2. ~(m < MonthOf(d)) /\ ~(MonthOf(d) < m)
      BY <1>1, <1>5, <1>6, MonthsApart
    <2>3. QED
      BY <2>1, <2>2
  <1>7. QED
    BY <1>5, <1>6

LEMMA MultiplesDivide ==
    ASSUME NEW n \in Nat \ {0}, NEW k \in Nat
    PROVE  (k * n) % n = 0
  <1> DEFINE q == (k * n) \div n
             r == (k * n) % n
  <1>1. k * n \in Nat /\ q \in Int /\ r \in 0 .. n - 1 /\ k * n = q * n + r
    BY SMTT(20)
  <1> HIDE DEF q, r
  <1>2. r = (k - q) * n
    BY <1>1
  <1>3. CASE k - q >= 1
    BY <1>1, <1>2, <1>3
  <1>4. CASE k - q <= -1
    BY <1>1, <1>2, <1>4
  <1>5. CASE k - q = 0
    BY <1>1, <1>2, <1>5
  <1>6. r = 0
    BY <1>1, <1>3, <1>4, <1>5
  <1>7. QED
    BY <1>6 DEF r

(* What the calendar says is due is due by the code's arithmetic. *)
LEMMA OccurrenceIsDue ==
    ASSUME NEW r, r.n \in Nat \ {0}, r.anchor \in Nat, NEW d \in Days, Occurrence(r, d),
           NEW t, t >= r.time
    PROVE  IsRecurringTaskDue(r, d, t)
  <1>1. d \in Nat /\ LastDay \in Nat
    BY LastDayIsNatural
  <1>2. CASE r.frequency = "interval"
    <2>1. PICK k \in 0 .. LastDay : d = r.anchor + k * r.n
      BY <1>2 DEF Occurrence
    <2> DEFINE n == r.n
               a == r.anchor
    <2>2. n \in Nat \ {0} /\ a \in Nat /\ k \in Nat /\ d = a + k * n
      BY <1>1, <2>1
    <2> HIDE DEF n, a
    <2>3. k * n \in Nat
      BY <2>2
    <2>4. (k * n) % n = 0
      BY <2>2, MultiplesDivide
    <2> DEFINE p == k * n
    <2> HIDE DEF p
    <2>5. d >= a /\ d - a = p
      BY <1>1, <2>2, <2>3 DEF p
    <2>6. (d - a) % n = 0
      BY <2>4, <2>5 DEF p
    <2>7. IsRecurringIntervalDue(r, d)
      BY <2>5, <2>6 DEF IsRecurringIntervalDue, n, a
    <2>8. QED
      BY <1>2, <2>7 DEF IsRecurringTaskDue
  <1>3. CASE r.frequency = "monthly"
    <2> DEFINE m == MonthOf(d)
               b == DaysIn[m - 1]
               l == MonthLengths[m]
               early == {e \in Days : MonthOf(e) = MonthOf(d) /\ DayOfMonth(e) <= r.n}
    <2>1. d \in early /\ \A e \in early : e <= d
      BY <1>3 DEF Occurrence
    <2>2. /\ m \in 1 .. Months /\ b < d /\ d <= DaysIn[m] /\ DaysIn[m] = b + l
          /\ b \in Nat /\ l \in Nat \ {0}
      BY MonthFacts, DaysInFacts, CalendarTypes DEF InMonth
    <2>3. DayOfMonth(d) = d - b
      BY DEF DayOfMonth, DaysBefore
    <2>4. d - b <= r.n /\ d - b <= l
      BY <1>1, <2>1, <2>2, <2>3
    <2>5. ~(d - b < r.n /\ d - b < l)
      <3>1. SUFFICES ASSUME d - b < r.n, d - b < l PROVE FALSE
        OBVIOUS
      <3>2. d + 1 <= DaysIn[m] /\ DaysIn[m] <= LastDay
        <4>1. m \in 0 .. Months /\ Months \in 0 .. Months /\ m <= Months
          BY <2>2, CalendarTypes
        <4>2. DaysIn[m] <= DaysIn[Months]
          BY <4>1, DaysInGrows
        <4>3. d < b + l
          BY <1>1, <2>2, <3>1
        <4>4. QED
          BY <1>1, <2>2, <4>2, <4>3, LastDayIsNatural
      <3>3. d + 1 \in Days /\ InMonth(d + 1, m)
        BY <1>1, <2>2, <3>2, LastDayIsNatural DEF InMonth
      <3>4. MonthOf(d + 1) = m
        BY <3>3, MonthFacts
      <3>5. DayOfMonth(d + 1) = d + 1 - b
        <4>1. DayOfMonth(d + 1) = (d + 1) - DaysBefore(m)
          BY <3>4 DEF DayOfMonth
        <4>2. QED
          BY <1>1, <2>2, <4>1 DEF DaysBefore
      <3>6. d + 1 \in early
        <4>1. MonthOf(d + 1) = MonthOf(d)
          BY <3>4
        <4>2. d + 1 - b <= r.n
          BY <1>1, <2>2, <3>1
        <4>3. DayOfMonth(d + 1) <= r.n
          BY <3>5, <4>2
        <4>4. QED
          BY <3>3, <4>1, <4>3
      <3>7. QED
        BY <1>1, <2>1, <3>6
    <2>6. d - b = Smaller(r.n, l)
      BY <1>1, <2>2, <2>4, <2>5 DEF Smaller
    <2>7. IsRecurringMonthlyDue(r, d)
      BY <2>3, <2>6 DEF IsRecurringMonthlyDue
    <2>8. QED
      BY <1>3, <2>7 DEF IsRecurringTaskDue
  <1>4. CASE r.frequency \notin {"interval", "monthly"}
    BY <1>4 DEF Occurrence, IsRecurringTaskDue
  <1>5. QED
    BY <1>2, <1>3, <1>4

-----------------------------------------------------------------------------
(* Filtered: g names, in ascending order, the places of the first n of s   *)
(* whose elements are kept; q is those elements.                           *)
Picks(q, g, s, n, keep) ==
    /\ g \in [1 .. Len(q) -> 1 .. n]
    /\ \A i, j \in 1 .. Len(q) : i < j => g[i] < g[j]
    /\ \A i \in 1 .. Len(q) : q[i] = s[g[i]] /\ q[i] \in keep
    /\ \A k \in 1 .. n : s[k] \in keep => \E i \in 1 .. Len(q) : g[i] = k

LEMMA PicksMore ==
    ASSUME NEW S, NEW s \in Seq(S), NEW keep, NEW n \in Nat, n + 1 <= Len(s),
           NEW q \in Seq(S), NEW g, Picks(q, g, s, n, keep)
    PROVE  /\ s[n + 1] \in keep => \E h : Picks(Append(q, s[n + 1]), h, s, n + 1, keep)
           /\ s[n + 1] \notin keep => Picks(q, g, s, n + 1, keep)
  <1>1. Len(q) \in Nat /\ n + 1 \in 1 .. Len(s)
    OBVIOUS
  <1>2. ASSUME s[n + 1] \in keep
        PROVE  \E h : Picks(Append(q, s[n + 1]), h, s, n + 1, keep)
    <2> DEFINE L == Len(q)
               e == s[n + 1]
               p == Append(q, e)
               h == [i \in 1 .. L + 1 |-> IF i = L + 1 THEN n + 1 ELSE g[i]]
    <2>1. Len(p) = L + 1 /\ p[L + 1] = e /\ \A i \in 1 .. L : p[i] = q[i]
      BY <1>1
    <2>2. h[L + 1] = n + 1 /\ \A i \in 1 .. L : h[i] = g[i] /\ g[i] \in 1 .. n
      BY <1>1 DEF Picks
    <2>3. h \in [1 .. L + 1 -> 1 .. n + 1]
      <3>1. ASSUME NEW i \in 1 .. L + 1
            PROVE  (IF i = L + 1 THEN n + 1 ELSE g[i]) \in 1 .. n + 1
        <4>1. CASE i = L + 1
          BY <1>1, <4>1
        <4>2. CASE i # L + 1
          <5>1. i \in 1 .. L
            BY <1>1, <4>2
          <5>2. g[i] \in 1 .. n
            BY <5>1 DEF Picks
          <5>3. QED
            BY <4>2, <5>2
        <4>3. QED
          BY <4>1, <4>2
      <3>2. QED
        BY <3>1
    <2> HIDE DEF p, h
    <2>4. ASSUME NEW i \in 1 .. L + 1, NEW j \in 1 .. L + 1, i < j
          PROVE  h[i] < h[j]
      <3>1. i \in 1 .. L /\ (j = L + 1 \/ j \in 1 .. L)
        BY <1>1, <2>4
      <3>2. QED
        BY <2>2, <2>4, <3>1 DEF Picks
    <2>5. ASSUME NEW i \in 1 .. L + 1
          PROVE  p[i] = s[h[i]] /\ p[i] \in keep
      <3>1. i = L + 1 \/ i \in 1 .. L
        BY <1>1
      <3>2. QED
        BY <1>2, <2>1, <2>2, <3>1 DEF Picks
    <2>6. ASSUME NEW k \in 1 .. n + 1, s[k] \in keep
          PROVE  \E i \in 1 .. L + 1 : h[i] = k
      <3>1. CASE k = n + 1
        BY <1>1, <2>2, <3>1
      <3>2. CASE k # n + 1
        <4>1. k \in 1 .. n
          BY <3>2
        <4>2. PICK i \in 1 .. L : g[i] = k
          BY <2>6, <4>1 DEF Picks
        <4>3. QED
          BY <1>1, <2>2, <4>2
      <3>3. QED
        BY <3>1, <3>2
    <2>7. Picks(p, h, s, n + 1, keep)
      BY <2>1, <2>3, <2>4, <2>5, <2>6 DEF Picks
    <2>8. QED
      BY <2>7 DEF p
  <1>3. ASSUME s[n + 1] \notin keep
        PROVE  Picks(q, g, s, n + 1, keep)
    <2>1. \A k \in 1 .. n + 1 : k = n + 1 \/ k \in 1 .. n
      OBVIOUS
    <2>2. g \in [1 .. Len(q) -> 1 .. n + 1]
      BY <1>1 DEF Picks
    <2>3. QED
      BY <1>3, <2>1, <2>2 DEF Picks
  <1>4. QED
    BY <1>2, <1>3

LEMMA FilteredPicks ==
    ASSUME NEW S, NEW s \in Seq(S), NEW keep
    PROVE  Filtered(s, keep) \in Seq(S) /\ \E g : Picks(Filtered(s, keep), g, s, Len(s), keep)
  <1> DEFINE L == Len(s)
             Taken(q, k) == IF s[k] \in keep THEN Append(q, s[k]) ELSE q
             FoldsTo(f, n) == f = [k \in 0 .. n |-> IF k = 0 THEN <<>> ELSE Taken(f[k - 1], k)]
             F == CHOOSE f : FoldsTo(f, L)
  <1>1. L \in Nat
    OBVIOUS
  <1>2. \A n \in Nat : \E f : FoldsTo(f, n)
    <2> HIDE DEF Taken
    <2> DEFINE T == {n \in Nat : \E f : FoldsTo(f, n)}
    <2>1. 0 \in T
      <3>1. FoldsTo([k \in 0 .. 0 |-> <<>>], 0)
        OBVIOUS
      <3>2. QED
        BY <3>1
    <2>2. ASSUME NEW n \in Nat, n \in T
          PROVE  n + 1 \in T
      <3>1. PICK f : FoldsTo(f, n)
        BY <2>2
      <3> DEFINE h == [k \in 0 .. n + 1 |-> IF k = n + 1 THEN Taken(f[n], n + 1) ELSE f[k]]
      <3>2. \A k \in 0 .. n : h[k] = f[k]
        OBVIOUS
      <3>3. \A k \in 0 .. n : f[k] = IF k = 0 THEN <<>> ELSE Taken(f[k - 1], k)
        BY <3>1
      <3>4. ASSUME NEW k \in 0 .. n + 1
            PROVE  h[k] = IF k = 0 THEN <<>> ELSE Taken(h[k - 1], k)
        <4>1. CASE k = n + 1
          BY <3>2, <4>1
        <4>2. CASE k # n + 1
          <5>1. k \in 0 .. n /\ (k # 0 => k - 1 \in 0 .. n)
            BY <4>2
          <5>2. QED
            BY <3>2, <3>3, <5>1
        <4>3. QED
          BY <4>1, <4>2
      <3>5. h = [k \in 0 .. n + 1 |-> h[k]]
        OBVIOUS
      <3> HIDE DEF h
      <3>6. FoldsTo(h, n + 1)
        BY <3>4, <3>5
      <3>7. QED
        BY <3>6
    <2> HIDE DEF T
    <2>3. Nat \subseteq T
      BY <2>1, <2>2, NaturalInduction
    <2>4. QED
      BY <2>3 DEF T
  <1>3. FoldsTo(F, L)
    BY <1>1, <1>2
  <1>4. Filtered(s, keep) = F[L]
    BY DEF Filtered
  <1> HIDE DEF F
  <1>5. F[0] = <<>> /\ \A k \in 1 .. L : F[k] = Taken(F[k - 1], k)
    <2> HIDE DEF Taken, L
    <2>1. \A k \in 0 .. L : F[k] = IF k = 0 THEN <<>> ELSE Taken(F[k - 1], k)
      BY <1>3
    <2>2. 0 \in 0 .. L /\ \A k \in 1 .. L : k \in 0 .. L /\ k # 0
      BY <1>1
    <2>3. QED
      BY <2>1, <2>2
  <1> DEFINE Good(n) == F[n] \in Seq(S) /\ \E g : Picks(F[n], g, s, n, keep)
             T == {n \in Nat : n <= L => Good(n)}
  <1>6. 0 \in T
    <2>1. Picks(<<>>, [i \in 1 .. 0 |-> i], s, 0, keep)
      BY DEF Picks
    <2>2. <<>> \in Seq(S)
      OBVIOUS
    <2>3. QED
      BY <1>5, <2>1, <2>2
  <1>7. ASSUME NEW n \in Nat, n \in T
        PROVE  n + 1 \in T
    <2>1. SUFFICES ASSUME n + 1 <= L PROVE Good(n + 1)
      OBVIOUS
    <2>2. PICK g : F[n] \in Seq(S) /\ Picks(F[n], g, s, n, keep)
      BY <1>1, <1>7, <2>1
    <2>3. F[n + 1] = Taken(F[n], n + 1) /\ s[n + 1] \in S
      BY <1>1, <1>5, <2>1
    <2>4. CASE s[n + 1] \in keep
      <3>1. F[n + 1] = Append(F[n], s[n + 1]) /\ F[n + 1] \in Seq(S)
        BY <2>2, <2>3, <2>4
      <3>2. QED
        BY <2>1, <2>2, <2>4, <3>1, PicksMore
    <2>5. CASE s[n + 1] \notin keep
      <3>1. F[n + 1] = F[n]
        BY <2>3, <2>5
      <3>2. QED
        BY <2>1, <2>2, <2>5, <3>1, PicksMore
    <2>6. QED
      BY <2>4, <2>5
  <1> HIDE DEF T
  <1>8. Nat \subseteq T
    BY <1>6, <1>7, NaturalInduction
  <1>9. QED
    BY <1>1, <1>4, <1>8 DEF T

(* The same without the witness. *)
Kept(q, s, keep) ==
    /\ DOMAIN q = 1 .. Len(q) /\ Len(q) \in Nat
    /\ \A i \in DOMAIN q : \E k \in DOMAIN s : q[i] = s[k] /\ s[k] \in keep
    /\ \A k \in DOMAIN s : s[k] \in keep => \E i \in DOMAIN q : q[i] = s[k]
    /\ \A i, j \in DOMAIN q : i # j =>
          \E k, l \in DOMAIN s : k # l /\ q[i] = s[k] /\ q[j] = s[l]

LEMMA FilteredFacts ==
    ASSUME NEW S, NEW s \in Seq(S), NEW keep
    PROVE  Filtered(s, keep) \in Seq(S) /\ Kept(Filtered(s, keep), s, keep)
  <1> DEFINE q == Filtered(s, keep)
  <1> USE DEF Kept
  <1>1. PICK g : q \in Seq(S) /\ Picks(q, g, s, Len(s), keep)
    BY FilteredPicks
  <1> HIDE DEF q
  <1>2. Len(q) \in Nat /\ DOMAIN q = 1 .. Len(q) /\ DOMAIN s = 1 .. Len(s)
    BY <1>1
  <1>3. \A i \in DOMAIN q : g[i] \in DOMAIN s /\ q[i] = s[g[i]] /\ s[g[i]] \in keep
    BY <1>1, <1>2 DEF Picks
  <1>4. \A i, j \in DOMAIN q : i # j => g[i] # g[j]
    BY <1>1, <1>2 DEF Picks
  <1>5. \A k \in DOMAIN s : s[k] \in keep => \E i \in DOMAIN q : q[i] = s[k]
    <2>1. SUFFICES ASSUME NEW k \in DOMAIN s, s[k] \in keep PROVE \E i \in DOMAIN q : q[i] = s[k]
      OBVIOUS
    <2>2. PICK i \in DOMAIN q : g[i] = k
      BY <1>1, <1>2, <2>1 DEF Picks
    <2>3. QED
      BY <1>3, <2>2
  <1>6. QED
    BY <1>1, <1>2, <1>3, <1>4, <1>5 DEF q

-----------------------------------------------------------------------------
(* The inductive invariant.  Saved and Seen are what a start would load.   *)

Files == {"manual", "rules", "seen"}
Sources == Rules \cup PRs

RuleRec == [id : Rules, frequency : {s.frequency : s \in Schedules}, n : Nat \ {0},
            daysOfWeek : {s.daysOfWeek : s \in Schedules}, anchor : Nat, time : Nat,
            createdAt : Nat \X Nat, last : Nat]

Distinct(l) == \A i, j \in DOMAIN l : l[i].id = l[j].id => i = j

Saved == Loaded("rules")
Seen == Loaded("seen")

(* Memory is what the files say while the backend runs. *)
ShapeInv ==
    /\ DOMAIN mem = Files /\ DOMAIN disk = Files /\ torn \subseteq Files
    /\ day \in Days /\ minute \in Nat /\ up \in BOOLEAN
    /\ born \in [Sources \X Days -> Nat]
    /\ up => mem.rules = Saved /\ mem.seen = Seen

RulesInv ==
    /\ Saved \in Seq(RuleRec) /\ Distinct(Saved)
    /\ \A i \in DOMAIN Saved : /\ Saved[i].id \in everMade
                               /\ Saved[i].last <= day /\ Saved[i].createdAt[1] <= day
    /\ Seen \subseteq PRs

(* A rule not yet noted down for today has made nothing today. *)
MadeInv ==
    /\ \A x \in Sources \X Days : x[2] > day => born[x] = 0
    /\ \A x \in (Rules \ everMade) \X Days : born[x] = 0
    /\ \A x \in Rules \X Days : born[x] <= 1 \/ x \in cutOff
    /\ \A i \in DOMAIN Saved :
          born[<<Saved[i].id, day>>] = 0 \/ Saved[i].last = day \/ <<Saved[i].id, day>> \in cutOff

(* A request not noted as seen has made nothing. *)
PRInv ==
    \A p \in PRs : (\A d \in Days : <<p, d>> \notin cutOff) =>
        /\ p \in Seen \/ \A d \in Days : born[<<p, d>>] = 0
        /\ \A d \in Days : born[<<p, d>>] <= 1
        /\ \A d, e \in Days : born[<<p, d>>] = 1 /\ born[<<p, e>>] = 1 => d = e

(* What is noted down was made, or the rule is younger than its time. *)
NotedInv ==
    /\ \A x \in ran : x \in Rules \X Days /\ born[x] >= 1
    /\ \A p \in Seen : \E d \in Days : born[<<p, d>>] >= 1
    /\ \A i \in DOMAIN Saved : Saved[i].last = day =>
          \/ born[<<Saved[i].id, day>>] >= 1
          \/ Saved[i].createdAt[1] = day /\ Saved[i].createdAt[2] >= Saved[i].time

IInv == ShapeInv /\ RulesInv /\ MadeInv /\ PRInv /\ NotedInv

-----------------------------------------------------------------------------
(* The writes of a handler: tasks onto the list, then the note. *)

LEMMA PlanShape ==
    ASSUME NEW S, NEW sources \in Seq(S), NEW note, NEW w, w = MakeThenNote(sources, note)
    PROVE  /\ Len(sources) \in Nat /\ DOMAIN sources = 1 .. Len(sources)
           /\ Len(w) = Len(sources) + 1 /\ DOMAIN w = 1 .. Len(sources) + 1
           /\ \A k \in 1 .. Len(sources) :
                 w[k].file = "manual" /\ w[k].made = {<<sources[k], day>>}
           /\ w[Len(sources) + 1] = note
  <1> DEFINE N == Len(sources)
             st == Stores(sources)
             one(k) == Write("manual", Stored(sources, k), {<<sources[k], day>>})
             V == {one(k) : k \in 1 .. N} \cup {note}
  <1>1. N \in Nat /\ DOMAIN sources = 1 .. N
    OBVIOUS
  <1>2. st = [k \in 1 .. N |-> one(k)]
    BY <1>1 DEF Stores
  <1>3. \A k \in 1 .. N : one(k).file = "manual" /\ one(k).made = {<<sources[k], day>>}
    BY DEF Write
  <1> HIDE DEF one
  <1>4. \A k \in 1 .. N : one(k) \in V
    OBVIOUS
  <1> HIDE DEF V, N
  <1>5. st \in Seq(V) /\ Len(st) = N /\ <<note>> \in Seq(V) /\ \A k \in 1 .. N : st[k] = one(k)
    <2>1. st \in [1 .. N -> V] /\ \A k \in 1 .. N : st[k] = one(k)
      BY <1>2, <1>4
    <2>2. note \in V
      BY DEF V
    <2> HIDE DEF st
    <2>3. st \in Seq(V) /\ Len(st) = N
      BY <1>1, <2>1
    <2>4. QED
      BY <2>1, <2>2, <2>3
  <1>6. w = st \o <<note>>
    BY DEF MakeThenNote
  <1> HIDE DEF st
  <1>7. /\ w \in Seq(V) /\ Len(w) = N + 1
        /\ \A k \in 1 .. N + 1 : w[k] = IF k <= N THEN st[k] ELSE <<note>>[k - N]
    BY <1>1, <1>5, <1>6, ConcatProperties
  <1>8. w[N + 1] = note /\ \A k \in 1 .. N : w[k] = one(k)
    BY <1>1, <1>5, <1>7
  <1>9. QED
    BY <1>1, <1>3, <1>7, <1>8 DEF N

(* A lone write is such a plan with nothing to make. *)
LEMMA LoneWrite ==
    ASSUME NEW note
    PROVE  <<note>> = MakeThenNote(<<>>, note) /\ <<>> \in Seq(Sources)
  <1>1. Stores(<<>>) = <<>>
    BY DEF Stores
  <1>2. <<note>> \in Seq({note})
    OBVIOUS
  <1>3. <<>> \o <<note>> = <<note>>
    BY <1>2, ConcatEmptySeq
  <1>4. QED
    BY <1>1, <1>3 DEF MakeThenNote

LEMMA WrittenBefore ==
    ASSUME NEW writes, NEW n \in Nat, NEW f \in DOMAIN disk,
           \A k \in 1 .. n : writes[k].file # f
    PROVE  Written(writes, n)[f] = disk[f] /\ f \notin FilesOf(writes, n)
  BY DEF Written, FilesOf

LEMMA WrittenLast ==
    ASSUME NEW writes, NEW n \in Nat \ {0}, NEW f \in DOMAIN disk, writes[n].file = f
    PROVE  Written(writes, n)[f] = writes[n].val /\ f \in FilesOf(writes, n)
  <1> DEFINE ks == {k \in 1 .. n : writes[k].file = f}
             last == CHOOSE k \in ks : \A j \in ks : j <= k
  <1>1. n \in ks /\ \A k \in ks : k <= n /\ k \in Nat
    OBVIOUS
  <1> HIDE DEF ks
  <1>2. last = n
    <2>1. last \in ks /\ \A j \in ks : j <= last
      BY <1>1
    <2> HIDE DEF last
    <2>2. n <= last /\ last <= n /\ last \in Nat /\ n \in Nat
      BY <1>1, <2>1
    <2>3. QED
      BY <2>2
  <1>3. Written(writes, n)[f] = IF ks = {} THEN disk[f] ELSE writes[last].val
    BY DEF Written, ks
  <1> HIDE DEF last
  <1>4. f \in FilesOf(writes, n)
    BY <1>1 DEF FilesOf
  <1>5. QED
    BY <1>1, <1>2, <1>3, <1>4

(* The tasks of the sources in M are new today. *)
Plus(M) == [x \in Sources \X Days |-> IF x[1] \in M /\ x[2] = day THEN born[x] + 1 ELSE born[x]]
Counted(M) == born' = Plus(M)

Apart(sources) == \A i, j \in 1 .. Len(sources) : sources[i] = sources[j] => i = j
MadeBy(sources, n) == {sources[k] : k \in {j \in 1 .. Len(sources) : j <= n}}

LEMMA CountFacts ==
    ASSUME ShapeInv, NEW sources \in Seq(Sources), Apart(sources), NEW note, note.made = {},
           NEW n \in 0 .. Len(sources) + 1
    PROVE  Count(MakeThenNote(sources, note), n) = Plus(MadeBy(sources, n))
  <1> DEFINE w == MakeThenNote(sources, note)
             M == MadeBy(sources, n)
  <1> USE DEF Apart, MadeBy
  <1> DEFINE N == Len(sources)
             ks(x) == {k \in 1 .. n : x \in w[k].made}
  <1>1. /\ N \in Nat /\ w[N + 1] = note
        /\ \A k \in 1 .. N : w[k].made = {<<sources[k], day>>} /\ sources[k] \in Sources
    BY PlanShape
  <1>2. Count(w, n) = [x \in Sources \X Days |-> born[x] + Cardinality(ks(x))]
    BY DEF Count, ShapeInv
  <1> HIDE DEF w
  <1>3. ASSUME NEW x \in Sources \X Days
        PROVE  born[x] + Cardinality(ks(x)) = IF x[1] \in M /\ x[2] = day THEN born[x] + 1 ELSE born[x]
    <2>1. born[x] \in Nat
      BY DEF ShapeInv
    <2>2. \A k \in ks(x) : k \in 1 .. N /\ k <= n /\ x[1] = sources[k] /\ x[2] = day
      <3>1. SUFFICES ASSUME NEW k \in ks(x) PROVE k \in 1 .. N /\ k <= n /\ x[1] = sources[k] /\ x[2] = day
        OBVIOUS
      <3>2. k \in 1 .. N + 1 /\ k <= n
        BY <1>1
      <3>3. k # N + 1
        BY <1>1
      <3>4. k \in 1 .. N
        BY <1>1, <3>2, <3>3
      <3>5. x = <<sources[k], day>>
        BY <1>1, <3>4
      <3>6. QED
        BY <3>2, <3>4, <3>5
    <2>3. \A k \in 1 .. N : k <= n /\ x[1] = sources[k] /\ x[2] = day => k \in ks(x)
      <3>1. SUFFICES ASSUME NEW k \in 1 .. N, k <= n, x[1] = sources[k], x[2] = day PROVE k \in ks(x)
        OBVIOUS
      <3>2. k \in 1 .. n
        BY <1>1, <3>1
      <3>3. x = <<sources[k], day>>
        BY <3>1
      <3>4. QED
        BY <1>1, <3>2, <3>3
    <2> HIDE DEF ks
    <2>4. CASE x[1] \in M /\ x[2] = day
      <3>1. PICK k \in 1 .. N : k <= n /\ sources[k] = x[1]
        BY <2>4
      <3>2. ks(x) = {k}
        BY <2>2, <2>3, <2>4, <3>1
      <3>3. Cardinality({k}) = 1
        BY FS_Singleton
      <3>4. QED
        BY <2>1, <2>4, <3>2, <3>3
    <2>5. CASE ~(x[1] \in M /\ x[2] = day)
      <3>1. ks(x) = {}
        BY <2>2, <2>5
      <3>2. QED
        BY <2>1, <2>5, <3>1, FS_EmptySet
    <2>6. QED
      BY <2>4, <2>5
  <1> HIDE DEF ks
  <1>4. QED
    BY <1>2, <1>3 DEF w, Plus

(* A handler that runs to its end: its note is what a start would load,    *)
(* the other files are what they were, and each source made one task.      *)
Done(sources, note, after) ==
    /\ Counted({sources[k] : k \in 1 .. Len(sources)})
    /\ Loaded(note.file)' = note.val
    /\ \A f \in {"rules", "seen"} : f # note.file => Loaded(f)' = Loaded(f)
    /\ DOMAIN disk' = Files /\ torn' \subseteq Files
    /\ mem' = after
    /\ UNCHANGED <<day, minute, up, cutOff, crashes>>

LEMMA Completed ==
    ASSUME ShapeInv, NEW sources \in Seq(Sources), NEW note, note.made = {}, note.file \in Files,
           Apart(sources), NEW after, Complete(after, MakeThenNote(sources, note))
    PROVE  Done(sources, note, after)
  <1> DEFINE w == MakeThenNote(sources, note)
  <1> DEFINE N == Len(sources)
             M == {sources[k] : k \in 1 .. N}
  <1>1. /\ N \in Nat /\ Len(w) = N + 1 /\ w[N + 1] = note
        /\ \A k \in 1 .. N : w[k].file = "manual"
    BY PlanShape
  <1>2. Count(w, N + 1) = Plus(M)
    <2>1. N + 1 \in 0 .. N + 1 /\ M = MadeBy(sources, N + 1)
      BY <1>1 DEF MadeBy
    <2> HIDE DEF M
    <2>2. QED
      BY <2>1, CountFacts
  <1>3. /\ mem' = after /\ disk' = Written(w, N + 1) /\ torn' = torn \ FilesOf(w, N + 1)
        /\ born' = Count(w, N + 1) /\ UNCHANGED <<day, minute, up, cutOff, crashes>>
    BY <1>1 DEF Complete
  <1>4. DOMAIN disk = Files /\ torn \subseteq Files
    BY DEF ShapeInv
  <1> HIDE DEF N
  <1>5. Written(w, N + 1)[note.file] = note.val /\ note.file \in FilesOf(w, N + 1)
    BY <1>1, <1>4, WrittenLast
  <1>6. ASSUME NEW f \in {"rules", "seen"}, f # note.file
        PROVE  Written(w, N + 1)[f] = disk[f] /\ f \notin FilesOf(w, N + 1)
    <2>1. \A k \in 1 .. N + 1 : w[k].file # f
      BY <1>1, <1>6
    <2>2. f \in DOMAIN disk /\ N + 1 \in Nat
      BY <1>1, <1>4 DEF Files
    <2>3. QED
      BY <2>1, <2>2, WrittenBefore
  <1>7. DOMAIN disk' = Files
    BY <1>3, <1>4 DEF Written
  <1>8. Loaded(note.file)' = note.val
    BY <1>3, <1>5 DEF Loaded
  <1>9. \A f \in {"rules", "seen"} : f # note.file => Loaded(f)' = Loaded(f)
    BY <1>3, <1>6 DEF Loaded
  <1>10. Counted(M)
    BY <1>2, <1>3 DEF Counted
  <1>11. QED
    BY <1>3, <1>4, <1>7, <1>8, <1>9, <1>10 DEF N, Done

(* A handler cut short: what it made is among what it may not have noted   *)
(* down; a file that was torn is empty, and of the seen file the history   *)
(* says so.                                                                *)
Interrupted(M) ==
    /\ Counted(M) /\ M \subseteq Sources
    /\ cutOff \subseteq cutOff' /\ \A s \in M : <<s, day>> \in cutOff'
    /\ Saved' = Saved \/ Saved' = <<>>
    /\ Seen' = Seen \/ (Seen' = {} /\ PRs \X Days \subseteq cutOff')
    /\ DOMAIN mem' = Files /\ DOMAIN disk' = Files /\ torn' \subseteq Files
    /\ ~up' /\ up' \in BOOLEAN
    /\ UNCHANGED <<day, minute, everMade, ran>>

LEMMA CutOffIsInterrupted ==
    ASSUME ShapeInv, NEW sources \in Seq(Sources), NEW note, note.made = {}, note.file \in Files,
           Apart(sources),
           CutShort(MakeThenNote(sources, note))
    PROVE  \E M : Interrupted(M) /\ M \subseteq {sources[k] : k \in 1 .. Len(sources)}
  <1> DEFINE N == Len(sources)
             w == MakeThenNote(sources, note)
  <1>1. /\ N \in Nat /\ Len(w) = N + 1 /\ DOMAIN w = 1 .. N + 1 /\ w[N + 1] = note
        /\ \A k \in 1 .. N : w[k].file = "manual" /\ w[k].made = {<<sources[k], day>>}
        /\ \A k \in 1 .. N : sources[k] \in Sources
    BY PlanShape
  <1> HIDE DEF w
  <1> DEFINE U == cutOff \cup (UNION {v.made : v \in Range(w)})
             X == PRs \X Days
  <1>2. PICK n \in 0 .. N, tear \in BOOLEAN :
            /\ disk' = Written(w, n)
            /\ torn' = (torn \ FilesOf(w, n)) \cup (IF tear THEN {w[n + 1].file} ELSE {})
            /\ born' = Count(w, n)
            /\ cutOff' = U \cup (IF tear /\ w[n + 1].file = "seen" THEN X ELSE {})
    <2>1. Len(w) - 1 = N
      BY <1>1
    <2>2. CutShort(w)
      BY DEF w
    <2>3. QED
      BY <2>1, <2>2 DEF CutShort
  <1>3. ~up' /\ up' \in BOOLEAN /\ UNCHANGED <<day, minute, everMade, ran>>
    BY DEF CutShort
  <1> DEFINE M == MadeBy(sources, n)
  <1>4. Counted(M)
    <2>1. n \in 0 .. N + 1 /\ w = MakeThenNote(sources, note)
      BY <1>1 DEF w
    <2> HIDE DEF M
    <2>2. Count(w, n) = Plus(M)
      BY <2>1, CountFacts DEF M
    <2>3. QED
      BY <1>2, <2>2 DEF Counted
  <1>5. M \subseteq Sources /\ M \subseteq {sources[k] : k \in 1 .. N}
    BY <1>1 DEF MadeBy
  <1>6. cutOff \subseteq cutOff' /\ \A s \in M : <<s, day>> \in cutOff'
    <2>1. \A k \in 1 .. N : <<sources[k], day>> \in UNION {v.made : v \in Range(w)}
      <3>1. SUFFICES ASSUME NEW k \in 1 .. N
                     PROVE  <<sources[k], day>> \in UNION {v.made : v \in Range(w)}
        OBVIOUS
      <3>2. k \in DOMAIN w
        BY <1>1
      <3>3. w[k] \in Range(w) /\ <<sources[k], day>> \in w[k].made
        BY <1>1, <3>2 DEF Range
      <3>4. QED
        BY <3>3
    <2>2. \A s \in M : \E k \in 1 .. N : s = sources[k]
      BY DEF MadeBy
    <2> HIDE DEF M
    <2>3. QED
      BY <1>2, <2>1, <2>2
  <1>7. DOMAIN disk = Files /\ torn \subseteq Files /\ w[n + 1].file \in Files
    <2>1. n + 1 \in 1 .. N \/ n + 1 = N + 1
      BY <1>1
    <2>2. QED
      BY <1>1, <2>1 DEF ShapeInv, Files
  <1>8. DOMAIN disk' = Files /\ torn' \subseteq Files
    BY <1>2, <1>7 DEF Written
  <1>9. ASSUME NEW f \in {"rules", "seen"}
        PROVE  IF tear /\ w[n + 1].file = f THEN Loaded(f)' = Empty[f] ELSE Loaded(f)' = Loaded(f)
    <2>1. \A k \in 1 .. n : w[k].file # f
      BY <1>1
    <2>2. f \in DOMAIN disk /\ n \in Nat
      BY <1>1, <1>7 DEF Files
    <2>3. Written(w, n)[f] = disk[f] /\ f \notin FilesOf(w, n)
      BY <2>1, <2>2, WrittenBefore
    <2>4. QED
      BY <1>2, <2>3 DEF Loaded
  <1>10. Saved' = Saved \/ Saved' = <<>>
    <2>1. Empty["rules"] = <<>>
      BY DEF Empty
    <2>2. QED
      BY <1>9, <2>1 DEF Saved
  <1>11. Seen' = Seen \/ (Seen' = {} /\ PRs \X Days \subseteq cutOff')
    <2>1. Empty["seen"] = {}
      BY DEF Empty
    <2>2. CASE tear /\ w[n + 1].file = "seen"
      <3>1. PRs \X Days \subseteq cutOff'
        <4> HIDE DEF U, X
        <4>1. cutOff' = U \cup X
          BY <1>2, <2>2
        <4>2. X \subseteq cutOff'
          BY <4>1
        <4>3. QED
          BY <4>2 DEF X
      <3>2. Loaded("seen")' = Empty["seen"]
        BY <1>9, <2>2
      <3>3. QED
        BY <2>1, <3>1, <3>2 DEF Seen
    <2>3. CASE ~(tear /\ w[n + 1].file = "seen")
      <3>1. Loaded("seen")' = Loaded("seen")
        BY <1>9, <2>3
      <3>2. QED
        BY <3>1 DEF Seen
    <2>4. QED
      BY <2>2, <2>3
  <1> HIDE DEF M
  <1>12. DOMAIN mem' = Files
    BY DEF CutShort, Empty, Files
  <1>13. Interrupted(M)
    BY <1>3, <1>4, <1>5, <1>6, <1>8, <1>10, <1>11, <1>12 DEF Interrupted
  <1>14. QED
    BY <1>5, <1>13 DEF N

-----------------------------------------------------------------------------
(* What the handlers do to the invariant. *)

LEMMA DaysAreNaturals == \A d \in Days : d \in Nat /\ d # 0
  BY LastDayIsNatural, DaysInFacts, CalendarTypes

LEMMA SavedDomain ==
    ASSUME RulesInv
    PROVE  /\ Len(Saved) \in Nat /\ DOMAIN Saved = 1 .. Len(Saved)
           /\ \A i \in DOMAIN Saved : Saved[i] \in RuleRec
  <1>1. Saved \in Seq(RuleRec)
    BY DEF RulesInv
  <1> HIDE DEF Saved, RuleRec
  <1>2. QED
    BY <1>1

(* What Counted says of one source and day. *)
LEMMA CountedFacts ==
    ASSUME ShapeInv, NEW M, Counted(M)
    PROVE  /\ born' \in [Sources \X Days -> Nat]
           /\ \A x \in Sources \X Days : born'[x] >= born[x]
           /\ \A s \in Sources, d \in Days :
                 born'[<<s, d>>] = IF s \in M /\ d = day THEN born[<<s, d>>] + 1 ELSE born[<<s, d>>]
  <1>1. born \in [Sources \X Days -> Nat]
    BY DEF ShapeInv
  <1>2. ASSUME NEW x \in Sources \X Days
        PROVE  /\ born'[x] = IF x[1] \in M /\ x[2] = day THEN born[x] + 1 ELSE born[x]
               /\ born[x] \in Nat /\ born'[x] \in Nat
    BY <1>1 DEF Counted, Plus
  <1>3. born' = [x \in Sources \X Days |-> born'[x]]
    BY DEF Counted, Plus
  <1>4. born' \in [Sources \X Days -> Nat]
    BY <1>2, <1>3
  <1>5. \A x \in Sources \X Days : born'[x] >= born[x]
    BY <1>2
  <1>6. ASSUME NEW s \in Sources, NEW d \in Days
        PROVE  born'[<<s, d>>] = IF s \in M /\ d = day THEN born[<<s, d>>] + 1 ELSE born[<<s, d>>]
    <2>1. <<s, d>> \in Sources \X Days /\ <<s, d>>[1] = s /\ <<s, d>>[2] = d
      OBVIOUS
    <2>2. QED
      BY <1>2, <2>1
  <1>7. QED
    BY <1>4, <1>5, <1>6

LEMMA InterruptedKeeps ==
    ASSUME IInv, NEW M, Interrupted(M), M \cap Rules \subseteq everMade
    PROVE  IInv'
  <1>1. ShapeInv /\ RulesInv /\ MadeInv /\ PRInv /\ NotedInv
    BY DEF IInv
  <1>2. /\ Counted(M) /\ cutOff \subseteq cutOff' /\ \A s \in M : <<s, day>> \in cutOff'
        /\ Saved' = Saved \/ Saved' = <<>>
        /\ Seen' = Seen \/ (Seen' = {} /\ PRs \X Days \subseteq cutOff')
        /\ day' = day /\ minute' = minute /\ everMade' = everMade /\ ran' = ran /\ ~up'
    BY DEF Interrupted
  <1>3. /\ born' \in [Sources \X Days -> Nat]
        /\ \A x \in Sources \X Days : born'[x] >= born[x]
        /\ \A s \in Sources, d \in Days :
              born'[<<s, d>>] = IF s \in M /\ d = day THEN born[<<s, d>>] + 1 ELSE born[<<s, d>>]
    BY <1>1, <1>2, CountedFacts
  <1>4. day \in Days /\ Rules \subseteq Sources /\ PRs \subseteq Sources
    BY <1>1 DEF ShapeInv, Sources
  <1>5. ShapeInv'
    BY <1>1, <1>2, <1>3 DEF ShapeInv, Interrupted
  <1>6. RulesInv'
    <2>1. CASE Saved' = Saved
      BY <1>1, <1>2, <2>1 DEF RulesInv, Distinct
    <2>2. CASE Saved' = <<>>
      BY <1>1, <1>2, <2>2 DEF RulesInv, Distinct
    <2>3. QED
      BY <1>2, <2>1, <2>2
  <1>7. MadeInv'
    <2>1. ASSUME NEW x \in Sources \X Days, x[2] > day'
          PROVE  born'[x] = 0
      <3>1. PICK s \in Sources, d \in Days : x = <<s, d>>
        BY <2>1
      <3>2. d # day /\ x[2] > day
        BY <1>2, <1>4, <2>1, <3>1, DaysAreNaturals
      <3>3. QED
        BY <1>1, <1>3, <3>1, <3>2 DEF MadeInv
    <2>2. ASSUME NEW x \in (Rules \ everMade') \X Days
          PROVE  born'[x] = 0
      <3>1. PICK s \in Rules \ everMade, d \in Days : x = <<s, d>>
        BY <1>2, <2>2
      <3>2. s \notin M /\ born[x] = 0
        BY <1>1, <3>1 DEF MadeInv
      <3>3. QED
        BY <1>3, <1>4, <3>1, <3>2
    <2>3. ASSUME NEW x \in Rules \X Days
          PROVE  born'[x] <= 1 \/ x \in cutOff'
      <3>1. PICK s \in Rules, d \in Days : x = <<s, d>>
        BY <2>3
      <3>2. CASE s \in M /\ d = day
        BY <1>2, <3>1, <3>2
      <3>3. CASE ~(s \in M /\ d = day)
        <4>1. born'[x] = born[x]
          BY <1>3, <1>4, <3>1, <3>3
        <4>2. QED
          BY <1>1, <1>2, <4>1 DEF MadeInv
      <3>4. QED
        BY <3>2, <3>3
    <2>4. ASSUME NEW i \in DOMAIN Saved'
          PROVE  \/ born'[<<Saved'[i].id, day'>>] = 0
                 \/ Saved'[i].last = day'
                 \/ <<Saved'[i].id, day'>> \in cutOff'
      <3>1. CASE Saved' = Saved
        <4> DEFINE s == Saved[i].id
        <4>1. s \in Rules
          BY <1>1, <2>4, <3>1, SavedDomain DEF RuleRec
        <4>2. \/ born[<<s, day>>] = 0
              \/ Saved[i].last = day
              \/ <<s, day>> \in cutOff
          BY <1>1, <2>4, <3>1 DEF MadeInv
        <4>3. s \in M \/ born'[<<s, day>>] = born[<<s, day>>]
          BY <1>3, <1>4, <4>1
        <4>4. QED
          BY <1>2, <3>1, <4>2, <4>3
      <3>2. CASE Saved' = <<>>
        BY <2>4, <3>2
      <3>3. QED
        BY <1>2, <3>1, <3>2
    <2>5. QED
      BY <2>1, <2>2, <2>3, <2>4 DEF MadeInv
  <1>8. PRInv'
    <2>1. SUFFICES ASSUME NEW p \in PRs, \A d \in Days : <<p, d>> \notin cutOff'
                   PROVE  /\ p \in Seen' \/ \A d \in Days : born'[<<p, d>>] = 0
                          /\ \A d \in Days : born'[<<p, d>>] <= 1
                          /\ \A d, e \in Days : born'[<<p, d>>] = 1 /\ born'[<<p, e>>] = 1 => d = e
      BY DEF PRInv
    <2>2. p \notin M
      BY <1>2, <1>4, <2>1
    <2>3. \A d \in Days : born'[<<p, d>>] = born[<<p, d>>]
      BY <1>3, <1>4, <2>2
    <2>4. Seen' = Seen
      <3>1. <<p, day>> \in PRs \X Days /\ <<p, day>> \notin cutOff'
        BY <1>4, <2>1
      <3>2. QED
        BY <1>2, <3>1
    <2>5. \A d \in Days : <<p, d>> \notin cutOff
      BY <1>2, <2>1
    <2>6. QED
      BY <1>1, <2>3, <2>4, <2>5 DEF PRInv
  <1>9. NotedInv'
    <2>1. ASSUME NEW x \in ran'
          PROVE  x \in Rules \X Days /\ born'[x] >= 1
      <3>1. x \in Rules \X Days /\ born[x] >= 1 /\ x \in Sources \X Days
        BY <1>1, <1>2, <1>4 DEF NotedInv
      <3>2. born'[x] >= born[x] /\ born[x] \in Nat /\ born'[x] \in Nat
        BY <1>1, <1>3, <3>1 DEF ShapeInv
      <3>3. QED
        BY <3>1, <3>2
    <2>2. ASSUME NEW p \in Seen'
          PROVE  \E d \in Days : born'[<<p, d>>] >= 1
      <3>1. p \in Seen /\ p \in PRs
        BY <1>1, <1>2 DEF RulesInv
      <3>2. PICK d \in Days : born[<<p, d>>] >= 1
        BY <1>1, <3>1 DEF NotedInv
      <3>3. <<p, d>> \in Sources \X Days
        BY <1>4, <3>1
      <3>4. born'[<<p, d>>] >= born[<<p, d>>] /\ born[<<p, d>>] \in Nat /\ born'[<<p, d>>] \in Nat
        BY <1>1, <1>3, <3>3 DEF ShapeInv
      <3>5. QED
        BY <3>2, <3>4
    <2>3. ASSUME NEW i \in DOMAIN Saved', Saved'[i].last = day'
          PROVE  \/ born'[<<Saved'[i].id, day'>>] >= 1
                 \/ Saved'[i].createdAt[1] = day' /\ Saved'[i].createdAt[2] >= Saved'[i].time
      <3>1. CASE Saved' = Saved
        <4> DEFINE s == Saved[i].id
        <4>1. s \in Rules
          BY <1>1, <2>3, <3>1, SavedDomain DEF RuleRec
        <4>2. <<s, day>> \in Sources \X Days
          BY <1>4, <4>1
        <4>3. born'[<<s, day>>] >= born[<<s, day>>] /\ born[<<s, day>>] \in Nat /\ born'[<<s, day>>] \in Nat
          BY <1>1, <1>3, <4>2 DEF ShapeInv
        <4>4. \/ born[<<s, day>>] >= 1
              \/ Saved[i].createdAt[1] = day /\ Saved[i].createdAt[2] >= Saved[i].time
          BY <1>1, <1>2, <2>3, <3>1 DEF NotedInv
        <4>5. QED
          BY <1>2, <3>1, <4>3, <4>4
      <3>2. CASE Saved' = <<>>
        BY <2>3, <3>2
      <3>3. QED
        BY <1>2, <3>1, <3>2
    <2>4. QED
      BY <2>1, <2>2, <2>3 DEF NotedInv
  <1>10. QED
    BY <1>5, <1>6, <1>7, <1>8, <1>9 DEF IInv

LEMMA NothingToDo ==
    ASSUME ShapeInv
    PROVE  /\ ~CutShort(<<>>)
           /\ \A after : Complete(after, <<>>) =>
                 /\ Counted({}) /\ Saved' = Saved /\ Seen' = Seen
                 /\ DOMAIN disk' = Files /\ torn' \subseteq Files /\ mem' = after
                 /\ UNCHANGED <<day, minute, up, cutOff, crashes>>
  <1>1. ~CutShort(<<>>)
    <2>1. 0 .. Len(<<>>) - 1 = {}
      OBVIOUS
    <2>2. QED
      BY <2>1 DEF CutShort
  <1>2. ASSUME NEW after, Complete(after, <<>>)
        PROVE  /\ Counted({}) /\ Saved' = Saved /\ Seen' = Seen
               /\ DOMAIN disk' = Files /\ torn' \subseteq Files /\ mem' = after
               /\ UNCHANGED <<day, minute, up, cutOff, crashes>>
    <2>1. /\ mem' = after /\ disk' = Written(<<>>, 0) /\ torn' = torn \ FilesOf(<<>>, 0)
          /\ born' = Count(<<>>, 0) /\ UNCHANGED <<day, minute, up, cutOff, crashes>>
      BY <1>2 DEF Complete
    <2>2. DOMAIN disk = Files /\ torn \subseteq Files /\ born \in [Sources \X Days -> Nat]
      BY DEF ShapeInv
    <2>3. \A f \in Files : disk'[f] = disk[f] /\ (f \in torn' <=> f \in torn)
      <3>1. ASSUME NEW f \in Files
            PROVE  Written(<<>>, 0)[f] = disk[f] /\ f \notin FilesOf(<<>>, 0)
        BY <2>2, WrittenBefore
      <3>2. QED
        BY <2>1, <3>1
    <2>4. DOMAIN disk' = Files
      BY <2>1, <2>2 DEF Written
    <2>5. Counted({})
      <3>1. {k \in 1 .. 0 : FALSE} = {} /\ \A x : {k \in 1 .. 0 : x \in <<>>[k].made} = {}
        OBVIOUS
      <3>2. Count(<<>>, 0) = [x \in Sources \X Days |-> born[x] + 0]
        BY <2>2, <3>1, FS_EmptySet DEF Count
      <3>3. Plus({}) = [x \in Sources \X Days |-> born[x]]
        BY DEF Plus
      <3>4. \A x \in Sources \X Days : born[x] + 0 = born[x]
        BY <2>2
      <3>5. QED
        BY <2>1, <3>2, <3>3, <3>4 DEF Counted
    <2>6. Saved' = Saved /\ Seen' = Seen
      BY <2>3 DEF Saved, Seen, Loaded, Files
    <2>7. QED
      BY <2>1, <2>2, <2>4, <2>5, <2>6
  <1>3. QED
    BY <1>1, <1>2

DueNow(r) == IsRecurringTaskDue(r, day, minute) /\ r.last # day
DueIds == {Saved[i].id : i \in {j \in DOMAIN Saved : DueNow(Saved[j])}}
AfterRun == [i \in DOMAIN Saved |-> IF DueNow(Saved[i]) THEN Noted(Saved[i]) ELSE Saved[i]]

(* The rules that are due, and the ids of their tasks. *)
DueAs(sources) ==
    /\ sources \in Seq(Sources) /\ Apart(sources)
    /\ {sources[k] : k \in 1 .. Len(sources)} = DueIds
    /\ \A i \in DOMAIN Saved : Saved[i] \in Range(DueRules) <=> DueNow(Saved[i])
    /\ DueRules = <<>> => DueIds = {}

LEMMA DueFacts ==
    ASSUME IInv, up, NEW sources, sources = [n \in DOMAIN DueRules |-> DueRules[n].id]
    PROVE  DueAs(sources)
  <1> DEFINE due == DueRules
             keep == {r \in Range(mem.rules) : IsRecurringTaskDue(r, day, minute) /\ r.last # day}
  <1>1. /\ mem.rules = Saved /\ Saved \in Seq(RuleRec) /\ Distinct(Saved)
        /\ Len(Saved) \in Nat /\ DOMAIN Saved = 1 .. Len(Saved)
        /\ \A i \in DOMAIN Saved : Saved[i].id \in Sources
    BY SavedDomain DEF IInv, ShapeInv, RulesInv, RuleRec, Sources
  <1>2. due = Filtered(Saved, keep)
    BY <1>1 DEF DueRules
  <1>3. \A i \in DOMAIN Saved : Saved[i] \in keep <=> DueNow(Saved[i])
    BY <1>1 DEF DueNow, Range
  <1> HIDE DEF keep
  <1>4. /\ due \in Seq(RuleRec) /\ DOMAIN due = 1 .. Len(due) /\ Len(due) \in Nat
        /\ \A i \in DOMAIN due : \E k \in DOMAIN Saved : due[i] = Saved[k] /\ Saved[k] \in keep
        /\ \A k \in DOMAIN Saved : Saved[k] \in keep => \E i \in DOMAIN due : due[i] = Saved[k]
        /\ \A i, j \in DOMAIN due : i # j =>
              \E k, l \in DOMAIN Saved : k # l /\ due[i] = Saved[k] /\ due[j] = Saved[l]
    <2>1. Saved \in Seq(RuleRec)
      BY <1>1
    <2>2. Filtered(Saved, keep) \in Seq(RuleRec) /\ Kept(Filtered(Saved, keep), Saved, keep)
      BY <2>1, FilteredFacts
    <2>3. QED
      BY <1>2, <2>2 DEF Kept
  <1> DEFINE n == Len(due)
  <1>5. sources = [k \in 1 .. n |-> due[k].id] /\ \A k \in 1 .. n : due[k].id \in Sources
    BY <1>1, <1>4
  <1>6. sources \in Seq(Sources) /\ Len(sources) = n /\ \A k \in 1 .. n : sources[k] = due[k].id
    <2>1. sources \in [1 .. n -> Sources]
      BY <1>5
    <2>2. QED
      BY <1>4, <1>5, <2>1
  <1>7. Apart(sources)
    <2>1. SUFFICES ASSUME NEW i \in 1 .. n, NEW j \in 1 .. n, sources[i] = sources[j], i # j
                   PROVE  FALSE
      BY <1>6 DEF Apart
    <2>2. i \in DOMAIN due /\ j \in DOMAIN due
      BY <1>4
    <2>3. PICK k \in DOMAIN Saved, l \in DOMAIN Saved : k # l /\ due[i] = Saved[k] /\ due[j] = Saved[l]
      BY ONLY <1>4, <2>1, <2>2
    <2>4. Saved[k].id = Saved[l].id
      <3>1. sources[i] = Saved[k].id /\ sources[j] = Saved[l].id
        BY ONLY <1>6, <2>1, <2>3
      <3>2. QED
        BY ONLY <2>1, <3>1
    <2>5. QED
      BY ONLY <1>1, <2>3, <2>4 DEF Distinct
  <1>8. \A i \in DOMAIN Saved : Saved[i] \in Range(due) <=> DueNow(Saved[i])
    <2>1. ASSUME NEW i \in DOMAIN Saved, Saved[i] \in Range(due)
          PROVE  DueNow(Saved[i])
      <3>1. PICK k \in DOMAIN due : due[k] = Saved[i]
        BY <2>1 DEF Range
      <3>2. QED
        BY <1>3, <1>4, <3>1
    <2>2. ASSUME NEW i \in DOMAIN Saved, DueNow(Saved[i])
          PROVE  Saved[i] \in Range(due)
      <3>1. PICK k \in DOMAIN due : due[k] = Saved[i]
        BY <1>3, <1>4, <2>2
      <3>2. QED
        BY <3>1 DEF Range
    <2>3. QED
      BY <2>1, <2>2
  <1>9. {sources[k] : k \in 1 .. Len(sources)} = DueIds
    <2>1. ASSUME NEW k \in 1 .. n PROVE sources[k] \in DueIds
      <3>1. PICK i \in DOMAIN Saved : due[k] = Saved[i] /\ Saved[i] \in keep
        BY <1>4
      <3>2. QED
        BY <1>3, <1>6, <3>1 DEF DueIds
    <2>2. ASSUME NEW s \in DueIds PROVE \E k \in 1 .. n : s = sources[k]
      <3>1. PICK i \in DOMAIN Saved : s = Saved[i].id /\ DueNow(Saved[i])
        BY <2>2 DEF DueIds
      <3>2. PICK k \in DOMAIN due : due[k] = Saved[i]
        BY <1>3, <1>4, <3>1
      <3>3. QED
        BY <1>4, <1>6, <3>1, <3>2
    <2>3. QED
      BY <1>6, <2>1, <2>2
  <1>10. due = <<>> => DueIds = {}
    <2>1. SUFFICES ASSUME due = <<>> PROVE DueIds = {}
      OBVIOUS
    <2>2. n = 0
      BY <2>1
    <2>3. 1 .. Len(sources) = {}
      BY <1>6, <2>2
    <2>4. QED
      BY <1>9, <2>3
  <1>11. QED
    BY <1>6, <1>7, <1>8, <1>9, <1>10 DEF DueAs

(* A run that ends: the due rules made a task each and are noted.          *)
RunEnds ==
    /\ Counted(DueIds) /\ Saved' = AfterRun /\ Seen' = Seen
    /\ DOMAIN disk' = Files /\ torn' \subseteq Files /\ DOMAIN mem' = Files
    /\ mem'.rules = Saved' /\ mem'.seen = Seen'
    /\ ran' = ran \cup {<<r.id, day>> : r \in {q \in Range(Saved) : Expected(q)}}
    /\ UNCHANGED <<day, minute, up, cutOff, everMade>>

LEMMA RunCompletes ==
    ASSUME IInv, RunDueRecurringTasks
    PROVE  IInv' \/ RunEnds
  <1> DEFINE due == DueRules
             after == [n \in DOMAIN mem.rules |->
                          IF mem.rules[n] \in Range(due) THEN Noted(mem.rules[n]) ELSE mem.rules[n]]
  <1>1. /\ up /\ ShapeInv /\ RulesInv /\ mem.rules = Saved /\ mem.seen = Seen
    BY DEF RunDueRecurringTasks, IInv, ShapeInv
  <1>2. PICK sources, note, memory :
            /\ sources = [n \in DOMAIN due |-> due[n].id]
            /\ note = Write("rules", after, {})
            /\ memory = [mem EXCEPT !.manual = Stored(sources, Len(sources)), !.rules = after]
    OBVIOUS
  <1> DEFINE writes == IF due = <<>> THEN <<>> ELSE MakeThenNote(sources, note)
  <1>3. /\ sources \in Seq(Sources) /\ Apart(sources)
        /\ {sources[k] : k \in 1 .. Len(sources)} = DueIds
        /\ \A i \in DOMAIN Saved : Saved[i] \in Range(due) <=> DueNow(Saved[i])
        /\ due = <<>> => DueIds = {}
    <2>1. sources = [n \in DOMAIN DueRules |-> DueRules[n].id]
      BY <1>2
    <2>2. DueAs(sources)
      BY <1>1, <2>1, DueFacts
    <2>3. QED
      BY <2>2 DEF DueAs
  <1>4. after = AfterRun
    <2> HIDE DEF due
    <2>1. QED
      BY <1>1, <1>3 DEF AfterRun
  <1>5. note.file = "rules" /\ note.val = AfterRun /\ note.made = {} /\ note.file \in Files
    <2> HIDE DEF after
    <2>1. QED
      BY <1>2, <1>4 DEF Write, Files
  <1>6. memory.rules = AfterRun /\ memory.seen = Seen /\ DOMAIN memory = Files
    <2> HIDE DEF after
    <2>1. DOMAIN mem = Files
      BY <1>1 DEF ShapeInv
    <2>2. QED
      BY <1>1, <1>2, <1>4, <2>1 DEF Files
  <1>7. \/ /\ Complete(memory, writes)
           /\ ran' = ran \cup {<<r.id, day>> : r \in {q \in Range(Saved) : Expected(q)}}
           /\ everMade' = everMade
        \/ CutShort(writes)
    BY <1>1, <1>2 DEF RunDueRecurringTasks
  <1> HIDE DEF due, after
  <1>8. CASE Complete(memory, writes) /\ due = <<>>
    <2>1. Complete(memory, <<>>)
      BY <1>8
    <2>2. /\ Counted({}) /\ Saved' = Saved /\ Seen' = Seen
          /\ DOMAIN disk' = Files /\ torn' \subseteq Files /\ mem' = memory
          /\ UNCHANGED <<day, minute, up, cutOff>>
      BY <1>1, <2>1, NothingToDo
    <2>3. DueIds = {}
      BY <1>3, <1>8
    <2>4. AfterRun = Saved
      <3>1. \A i \in DOMAIN Saved : ~DueNow(Saved[i])
        BY <2>3 DEF DueIds
      <3>2. AfterRun = [i \in DOMAIN Saved |-> Saved[i]]
        BY <3>1 DEF AfterRun
      <3>3. Saved \in Seq(RuleRec)
        BY <1>1 DEF RulesInv
      <3>4. QED
        BY <3>2, <3>3
    <2>5. CutShort(writes) => FALSE
      BY <1>1, <1>8, NothingToDo
    <2>6. QED
      BY <1>6, <1>7, <2>2, <2>3, <2>4, <2>5 DEF RunEnds
  <1>9. CASE Complete(memory, writes) /\ due # <<>> /\ ~CutShort(writes)
    <2>1. Complete(memory, MakeThenNote(sources, note))
      BY <1>9
    <2>2. Done(sources, note, memory)
      BY <1>1, <1>3, <1>5, <2>1, Completed
    <2>3. Saved' = AfterRun /\ Seen' = Seen
      BY <1>5, <2>2 DEF Saved, Seen, Done
    <2>4. QED
      BY <1>3, <1>6, <1>7, <1>9, <2>2, <2>3 DEF RunEnds, Done
  <1>10. CASE CutShort(writes)
    <2>1. writes = MakeThenNote(sources, note)
      BY <1>1, <1>10, NothingToDo
    <2>2. PICK M : Interrupted(M) /\ M \subseteq DueIds
      <3>1. CutShort(MakeThenNote(sources, note))
        BY ONLY <1>10, <2>1
      <3>2. \E N : Interrupted(N) /\ N \subseteq {sources[k] : k \in 1 .. Len(sources)}
        BY <1>1, <1>3, <1>5, <3>1, CutOffIsInterrupted
      <3>3. QED
        BY <1>3, <3>2
    <2>3. M \cap Rules \subseteq everMade
      BY <1>1, <2>2 DEF DueIds, RulesInv
    <2>4. QED
      BY <2>2, <2>3, InterruptedKeeps
  <1>11. QED
    BY <1>7, <1>8, <1>9, <1>10

LEMMA RunKeeps ==
    ASSUME IInv, RunEnds
    PROVE  IInv'
  <1>1. ShapeInv /\ RulesInv /\ MadeInv /\ PRInv /\ NotedInv
    BY DEF IInv
  <1>2. /\ Counted(DueIds) /\ Saved' = AfterRun /\ Seen' = Seen
        /\ day' = day /\ cutOff' = cutOff /\ everMade' = everMade
        /\ ran' = ran \cup {<<r.id, day>> : r \in {q \in Range(Saved) : Expected(q)}}
    BY DEF RunEnds
  <1>3. /\ born' \in [Sources \X Days -> Nat]
        /\ \A x \in Sources \X Days : born'[x] >= born[x]
        /\ \A s \in Sources, d \in Days :
              born'[<<s, d>>] = IF s \in DueIds /\ d = day THEN born[<<s, d>>] + 1 ELSE born[<<s, d>>]
    BY <1>1, <1>2, CountedFacts
  <1>4. /\ day \in Days /\ day \in Nat /\ Rules \subseteq Sources /\ PRs \subseteq Sources
        /\ Rules \cap PRs = {} /\ born \in [Sources \X Days -> Nat]
    BY <1>1, DaysAreNaturals, TaskSourcesAssumption DEF ShapeInv, Sources
  <1>5. /\ Saved \in Seq(RuleRec) /\ Len(Saved) \in Nat /\ DOMAIN Saved = 1 .. Len(Saved)
        /\ \A i \in DOMAIN Saved : /\ Saved[i] \in RuleRec /\ Saved[i].id \in Rules
                                   /\ Saved[i].id \in everMade
        /\ \A i, j \in DOMAIN Saved : Saved[i].id = Saved[j].id => i = j
    BY <1>1, SavedDomain DEF RulesInv, Distinct, RuleRec
  <1>6. ASSUME NEW i \in DOMAIN Saved
        PROVE  /\ Noted(Saved[i]) \in RuleRec /\ Noted(Saved[i]).id = Saved[i].id
               /\ Noted(Saved[i]).last = day /\ Noted(Saved[i]).createdAt = Saved[i].createdAt
               /\ Noted(Saved[i]).time = Saved[i].time
    <2>1. Saved[i] \in RuleRec
      BY <1>5
    <2>2. QED
      BY <1>4, <2>1 DEF Noted, RuleRec
  <1>7. DOMAIN Saved' = DOMAIN Saved /\ Saved' \in Seq(RuleRec)
    <2>1. AfterRun \in [1 .. Len(Saved) -> RuleRec]
      BY <1>5, <1>6 DEF AfterRun
    <2>2. QED
      BY <1>2, <1>5, <2>1
  <1>8. ASSUME NEW i \in DOMAIN Saved
        PROVE  /\ Saved'[i].id = Saved[i].id /\ Saved'[i].createdAt = Saved[i].createdAt
               /\ Saved'[i].time = Saved[i].time
               /\ Saved'[i].last = IF DueNow(Saved[i]) THEN day ELSE Saved[i].last
               /\ Saved[i].id \in DueIds <=> DueNow(Saved[i])
    <2>1. Saved'[i] = IF DueNow(Saved[i]) THEN Noted(Saved[i]) ELSE Saved[i]
      BY <1>2 DEF AfterRun
    <2>2. DueNow(Saved[i]) => Saved[i].id \in DueIds
      BY DEF DueIds
    <2>3. ASSUME Saved[i].id \in DueIds PROVE DueNow(Saved[i])
      <3>1. PICK j \in DOMAIN Saved : Saved[j].id = Saved[i].id /\ DueNow(Saved[j])
        BY <2>3 DEF DueIds
      <3>2. QED
        BY <1>5, <3>1
    <2>4. QED
      BY <1>6, <2>1, <2>2, <2>3
  <1>9. DueIds \subseteq Rules /\ DueIds \subseteq everMade
    BY <1>5 DEF DueIds
  <1> HIDE DEF DueIds
  <1>10. ShapeInv'
    BY <1>1, <1>3 DEF ShapeInv, RunEnds
  <1>11. RulesInv'
    <2>1. Distinct(Saved')
      BY <1>5, <1>7, <1>8 DEF Distinct
    <2>2. ASSUME NEW i \in DOMAIN Saved'
          PROVE  /\ Saved'[i].id \in everMade' /\ Saved'[i].last <= day'
                 /\ Saved'[i].createdAt[1] <= day'
      <3>1. i \in DOMAIN Saved
        BY <1>7
      <3>2. Saved[i].last <= day /\ Saved[i].createdAt[1] <= day
        BY <1>1, <3>1 DEF RulesInv
      <3>3. QED
        BY <1>2, <1>4, <1>5, <1>8, <3>1, <3>2
    <2>3. QED
      BY <1>1, <1>2, <1>7, <2>1, <2>2 DEF RulesInv
  <1>12. MadeInv'
    <2>1. ASSUME NEW x \in Sources \X Days, x[2] > day'
          PROVE  born'[x] = 0
      <3>1. PICK s \in Sources, d \in Days : x = <<s, d>>
        BY <2>1
      <3>2. d # day /\ x[2] > day
        BY <1>2, <1>4, <2>1, <3>1, DaysAreNaturals
      <3>3. QED
        BY <1>1, <1>3, <3>1, <3>2 DEF MadeInv
    <2>2. ASSUME NEW x \in (Rules \ everMade') \X Days
          PROVE  born'[x] = 0
      <3>1. PICK s \in Rules \ everMade, d \in Days : x = <<s, d>>
        BY <1>2, <2>2
      <3>2. s \notin DueIds /\ born[x] = 0
        BY <1>1, <1>9, <3>1 DEF MadeInv
      <3>3. QED
        BY <1>3, <1>4, <3>1, <3>2
    <2>3. ASSUME NEW x \in Rules \X Days
          PROVE  born'[x] <= 1 \/ x \in cutOff'
      <3>1. PICK s \in Rules, d \in Days : x = <<s, d>>
        BY <2>3
      <3>2. CASE s \in DueIds /\ d = day
        <4>1. PICK i \in DOMAIN Saved : Saved[i].id = s /\ DueNow(Saved[i])
          BY <3>2 DEF DueIds
        <4>2. born[<<s, day>>] = 0 \/ <<s, day>> \in cutOff
          BY <1>1, <4>1 DEF MadeInv, DueNow
        <4>3. born'[<<s, day>>] = born[<<s, day>>] + 1
          BY <1>3, <1>4, <3>2
        <4>4. QED
          BY <1>2, <3>1, <3>2, <4>2, <4>3
      <3>3. CASE ~(s \in DueIds /\ d = day)
        <4>1. born'[x] = born[x]
          BY <1>3, <1>4, <3>1, <3>3
        <4>2. QED
          BY <1>1, <1>2, <4>1 DEF MadeInv
      <3>4. QED
        BY <3>2, <3>3
    <2>4. ASSUME NEW i \in DOMAIN Saved'
          PROVE  \/ born'[<<Saved'[i].id, day'>>] = 0
                 \/ Saved'[i].last = day'
                 \/ <<Saved'[i].id, day'>> \in cutOff'
      <3> DEFINE s == Saved[i].id
      <3>1. i \in DOMAIN Saved /\ s \in Rules
        BY <1>5, <1>7, <2>4
      <3>2. CASE DueNow(Saved[i])
        BY <1>2, <1>8, <3>1, <3>2
      <3>3. CASE ~DueNow(Saved[i])
        <4>1. born'[<<s, day>>] = born[<<s, day>>]
          BY <1>3, <1>4, <1>8, <3>1, <3>3
        <4>2. born[<<s, day>>] = 0 \/ Saved[i].last = day \/ <<s, day>> \in cutOff
          BY <1>1, <3>1 DEF MadeInv
        <4>3. QED
          BY <1>2, <1>8, <3>1, <3>3, <4>1, <4>2
      <3>4. QED
        BY <3>2, <3>3
    <2>5. QED
      BY <2>1, <2>2, <2>3, <2>4 DEF MadeInv
  <1>13. PRInv'
    <2>1. \A p \in PRs : \A d \in Days : born'[<<p, d>>] = born[<<p, d>>]
      BY <1>3, <1>4, <1>9
    <2>2. QED
      BY <1>1, <1>2, <2>1 DEF PRInv
  <1>14. NotedInv'
    <2>1. \A x \in Sources \X Days : born[x] >= 1 => born'[x] >= 1
      BY <1>3, <1>4
    <2>2. ASSUME NEW x \in ran'
          PROVE  x \in Rules \X Days /\ born'[x] >= 1
      <3>1. CASE x \in ran
        <4>1. x \in Rules \X Days /\ born[x] >= 1
          BY <1>1, <3>1 DEF NotedInv
        <4>2. QED
          BY <1>4, <2>1, <4>1
      <3>2. CASE x \notin ran
        <4>1. PICK i \in DOMAIN Saved : x = <<Saved[i].id, day>> /\ Expected(Saved[i])
          BY <1>2, <2>2, <3>2 DEF Range
        <4> DEFINE r == Saved[i]
        <4>2. r \in RuleRec /\ r.id \in Rules
          BY <1>5
        <4>3. IsRecurringTaskDue(r, day, minute)
          <5>1. /\ r.n \in Nat \ {0} /\ r.anchor \in Nat /\ Occurrence(r, day) /\ minute >= r.time
            BY <4>1, <4>2 DEF RuleRec, Expected
          <5>2. QED
            BY <1>4, <5>1, OccurrenceIsDue
        <4>4. CASE r.last # day
          <5>1. r.id \in DueIds
            BY <1>8, <4>3, <4>4 DEF DueNow
          <5>2. born'[<<r.id, day>>] = born[<<r.id, day>>] + 1 /\ born[<<r.id, day>>] \in Nat
            BY <1>3, <1>4, <4>2, <5>1
          <5>3. QED
            BY <1>4, <4>1, <4>2, <5>2
        <4>5. CASE r.last = day
          <5>1. \/ born[<<r.id, day>>] >= 1
                \/ r.createdAt[1] = day /\ r.createdAt[2] >= r.time
            BY <1>1, <4>5 DEF NotedInv
          <5>2. ~(r.createdAt[1] = day /\ r.createdAt[2] >= r.time)
            <6>1. r.createdAt[1] = day => r.createdAt[2] < r.time
              BY <4>1 DEF Expected
            <6>2. r.createdAt[2] \in Nat /\ r.time \in Nat
              BY <4>2 DEF RuleRec
            <6>3. QED
              BY <6>1, <6>2
          <5>3. QED
            BY <1>4, <2>1, <4>1, <4>2, <5>1, <5>2
        <4>6. QED
          BY <4>4, <4>5
      <3>3. QED
        BY <3>1, <3>2
    <2>3. ASSUME NEW p \in Seen'
          PROVE  \E d \in Days : born'[<<p, d>>] >= 1
      <3>1. p \in Seen /\ p \in PRs
        BY <1>1, <1>2 DEF RulesInv
      <3>2. PICK d \in Days : born[<<p, d>>] >= 1
        BY <1>1, <3>1 DEF NotedInv
      <3>3. QED
        BY <1>4, <2>1, <3>1, <3>2
    <2>4. ASSUME NEW i \in DOMAIN Saved', Saved'[i].last = day'
          PROVE  \/ born'[<<Saved'[i].id, day'>>] >= 1
                 \/ Saved'[i].createdAt[1] = day' /\ Saved'[i].createdAt[2] >= Saved'[i].time
      <3> DEFINE s == Saved[i].id
      <3>1. i \in DOMAIN Saved /\ s \in Rules /\ <<s, day>> \in Sources \X Days
        BY <1>4, <1>5, <1>7, <2>4
      <3>2. CASE DueNow(Saved[i])
        <4>1. born'[<<s, day>>] = born[<<s, day>>] + 1 /\ born[<<s, day>>] \in Nat
          BY <1>3, <1>4, <1>8, <3>1, <3>2
        <4>2. QED
          BY <1>2, <1>8, <3>1, <4>1
      <3>3. CASE ~DueNow(Saved[i])
        <4>1. \/ born[<<s, day>>] >= 1
              \/ Saved[i].createdAt[1] = day /\ Saved[i].createdAt[2] >= Saved[i].time
          BY <1>1, <1>2, <1>8, <2>4, <3>1, <3>3 DEF NotedInv
        <4>2. QED
          BY <1>2, <1>8, <2>1, <3>1, <4>1
      <3>4. QED
        BY <3>2, <3>3
    <2>5. QED
      BY <2>2, <2>3, <2>4 DEF NotedInv
  <1>15. QED
    BY <1>10, <1>11, <1>12, <1>13, <1>14 DEF IInv

(* A handler with a single write. *)
Alone(note, after) ==
    /\ born' = born
    /\ Loaded(note.file)' = note.val
    /\ \A f \in {"rules", "seen"} : f # note.file => Loaded(f)' = Loaded(f)
    /\ DOMAIN disk' = Files /\ torn' \subseteq Files
    /\ mem' = after
    /\ UNCHANGED <<day, minute, up, cutOff, crashes>>

LEMMA LoneDone ==
    ASSUME ShapeInv, NEW note, note.made = {}, note.file \in Files,
           NEW after, Complete(after, <<note>>)
    PROVE  Alone(note, after)
  <1>1. <<>> \in Seq(Sources) /\ <<note>> = MakeThenNote(<<>>, note) /\ Apart(<<>>)
    BY LoneWrite DEF Apart
  <1>2. Done(<<>>, note, after)
    BY <1>1, Completed
  <1>3. Counted({})
    <2>1. {<<>>[k] : k \in 1 .. Len(<<>>)} = {}
      OBVIOUS
    <2>2. QED
      BY <1>2, <2>1 DEF Done
  <1>4. born' = born
    <2>1. born \in [Sources \X Days -> Nat]
      BY DEF ShapeInv
    <2>2. QED
      BY <1>3, <2>1 DEF Counted, Plus
  <1>5. QED
    BY <1>2, <1>4 DEF Done, Alone

LEMMA LoneCut ==
    ASSUME IInv, NEW note, note.made = {}, note.file \in Files, CutShort(<<note>>)
    PROVE  IInv'
  <1>1. /\ ShapeInv /\ <<>> \in Seq(Sources) /\ <<note>> = MakeThenNote(<<>>, note) /\ Apart(<<>>)
    BY LoneWrite DEF Apart, IInv
  <1>2. PICK M : Interrupted(M) /\ M \subseteq {<<>>[k] : k \in 1 .. Len(<<>>)}
    BY <1>1, CutOffIsInterrupted
  <1>3. M \cap Rules \subseteq everMade
    BY <1>2
  <1>4. QED
    BY <1>2, <1>3, InterruptedKeeps

(* A rule made now: it has made no task, and it counts as served today     *)
(* only if its time has come.                                              *)
Fresh(r) ==
    /\ r.id \in Rules \ everMade /\ r.id \in everMade'
    /\ r.last <= day /\ r.createdAt[1] = day
    /\ r.last = day => r.createdAt[2] >= r.time

RulesChange ==
    /\ born' = born /\ Seen' = Seen
    /\ UNCHANGED <<day, cutOff, ran>> /\ everMade \subseteq everMade'
    /\ Saved' \in Seq(RuleRec) /\ Distinct(Saved')
    /\ \A i \in DOMAIN Saved' : Fresh(Saved'[i]) \/ \E j \in DOMAIN Saved : Saved'[i] = Saved[j]

LEMMA RulesChangeKeeps ==
    ASSUME IInv, RulesChange, ShapeInv'
    PROVE  IInv'
  <1>1. ShapeInv /\ RulesInv /\ MadeInv /\ PRInv /\ NotedInv
    BY DEF IInv
  <1>2. /\ born' = born /\ Seen' = Seen /\ day' = day /\ cutOff' = cutOff /\ ran' = ran
        /\ everMade \subseteq everMade' /\ Saved' \in Seq(RuleRec) /\ Distinct(Saved')
    BY DEF RulesChange
  <1>3. ASSUME NEW i \in DOMAIN Saved'
        PROVE  Fresh(Saved'[i]) \/ \E j \in DOMAIN Saved : Saved'[i] = Saved[j]
    BY DEF RulesChange
  <1>4. RulesInv'
    <2>1. ASSUME NEW i \in DOMAIN Saved'
          PROVE  /\ Saved'[i].id \in everMade' /\ Saved'[i].last <= day'
                 /\ Saved'[i].createdAt[1] <= day'
      <3>1. CASE Fresh(Saved'[i])
        <4>1. day \in Nat
          BY <1>1, DaysAreNaturals DEF ShapeInv
        <4>2. QED
          BY <1>2, <3>1, <4>1 DEF Fresh
      <3>2. CASE \E j \in DOMAIN Saved : Saved'[i] = Saved[j]
        BY <1>1, <1>2, <3>2 DEF RulesInv
      <3>3. QED
        BY <1>3, <3>1, <3>2
    <2>2. QED
      BY <1>1, <1>2, <2>1 DEF RulesInv
  <1>5. MadeInv'
    <2>1. ASSUME NEW i \in DOMAIN Saved'
          PROVE  \/ born[<<Saved'[i].id, day>>] = 0
                 \/ Saved'[i].last = day
                 \/ <<Saved'[i].id, day>> \in cutOff
      <3>1. CASE Fresh(Saved'[i])
        <4>1. <<Saved'[i].id, day>> \in (Rules \ everMade) \X Days
          BY <1>1, <3>1 DEF Fresh, ShapeInv
        <4>2. QED
          BY <1>1, <4>1 DEF MadeInv
      <3>2. CASE \E j \in DOMAIN Saved : Saved'[i] = Saved[j]
        BY <1>1, <3>2 DEF MadeInv
      <3>3. QED
        BY <1>3, <3>1, <3>2
    <2>2. \A x \in (Rules \ everMade') \X Days : born[x] = 0
      BY <1>1, <1>2 DEF MadeInv
    <2>3. QED
      BY <1>1, <1>2, <2>1, <2>2 DEF MadeInv
  <1>6. PRInv'
    BY <1>1, <1>2 DEF PRInv
  <1>7. NotedInv'
    <2>1. ASSUME NEW i \in DOMAIN Saved', Saved'[i].last = day
          PROVE  \/ born[<<Saved'[i].id, day>>] >= 1
                 \/ Saved'[i].createdAt[1] = day /\ Saved'[i].createdAt[2] >= Saved'[i].time
      <3>1. CASE Fresh(Saved'[i])
        BY <2>1, <3>1 DEF Fresh
      <3>2. CASE \E j \in DOMAIN Saved : Saved'[i] = Saved[j]
        BY <1>1, <2>1, <3>2 DEF NotedInv
      <3>3. QED
        BY <1>3, <3>1, <3>2
    <2>2. QED
      BY <1>1, <1>2, <2>1 DEF NotedInv
  <1>8. QED
    BY <1>4, <1>5, <1>6, <1>7 DEF IInv

LEMMA AloneShape ==
    ASSUME ShapeInv, NEW note, NEW after, Alone(note, after), DOMAIN after = Files,
           up => after.rules = Saved' /\ after.seen = Seen'
    PROVE  ShapeInv'
  <1>1. /\ mem' = after /\ day' = day /\ minute' = minute /\ up' = up /\ born' = born
        /\ DOMAIN disk' = Files /\ torn' \subseteq Files
    BY DEF Alone
  <1>2. QED
    BY <1>1 DEF ShapeInv

LEMMA CreateKeeps ==
    ASSUME IInv, NEW id \in Rules, CreateRecurringTask(id)
    PROVE  IInv'
  <1>1. /\ ShapeInv /\ RulesInv /\ up /\ id \notin everMade /\ mem.rules = Saved /\ mem.seen = Seen
        /\ DOMAIN mem = Files
    BY DEF CreateRecurringTask, IInv, ShapeInv
  <1>2. PICK s \in Schedules, t \in 0 .. LastMinute :
            LET r == [id |-> id, frequency |-> s.frequency, n |-> s.n, daysOfWeek |-> s.daysOfWeek,
                      anchor |-> day, time |-> t, createdAt |-> <<day, minute>>, last |-> NoDay]
                after == Upto(<<[r EXCEPT !.last = GetInitialRecurringTaskGeneratedDate(r)]>> \o mem.rules,
                              MaxRules)
                writes == <<Write("rules", after, {})>>
            IN  \/ /\ Complete([mem EXCEPT !.rules = after], writes)
                   /\ everMade' = everMade \cup {id}
                   /\ UNCHANGED <<polling, ran>>
                \/ CutShort(writes)
    BY DEF CreateRecurringTask
  <1> DEFINE fields == [id |-> id, frequency |-> s.frequency, n |-> s.n, daysOfWeek |-> s.daysOfWeek,
                        anchor |-> day, time |-> t, createdAt |-> <<day, minute>>, last |-> NoDay]
  <1>3. PICK r : r = [fields EXCEPT !.last = GetInitialRecurringTaskGeneratedDate(fields)]
    OBVIOUS
  <1>4. PICK after : after = Upto(<<r>> \o mem.rules, MaxRules)
    OBVIOUS
  <1>5. PICK note, memory : note = Write("rules", after, {}) /\ memory = [mem EXCEPT !.rules = after]
    OBVIOUS
  <1>6. \/ /\ Complete(memory, <<note>>)
           /\ everMade' = everMade \cup {id}
           /\ ran' = ran
        \/ CutShort(<<note>>)
    BY <1>2, <1>3, <1>4, <1>5
  <1>7. note.file = "rules" /\ note.val = after /\ note.made = {} /\ note.file \in Files
    BY <1>5 DEF Write, Files
  <1>8. memory.rules = after /\ memory.seen = Seen /\ DOMAIN memory = Files
    BY <1>1, <1>5 DEF Files
  <1>9. /\ day \in Days /\ day \in Nat /\ day # 0 /\ minute \in Nat
        /\ t \in Nat /\ s.n \in Nat \ {0}
    BY <1>1, DaysAreNaturals, TaskSourcesAssumption DEF ShapeInv
  <1>10. /\ r \in RuleRec /\ r.id = id /\ r.last <= day /\ r.createdAt[1] = day
         /\ r.last = day => r.createdAt[2] >= r.time
    <2>1. PICK l : l = GetInitialRecurringTaskGeneratedDate(fields)
      OBVIOUS
    <2>2. l \in {0, day} /\ (l = day => minute >= t)
      <3>1. IsRecurringTaskDue(fields, day, minute) => minute >= t
        BY DEF IsRecurringTaskDue
      <3>2. QED
        BY <1>9, <2>1, <3>1 DEF GetInitialRecurringTaskGeneratedDate, NoDay
    <2>3. r = [id |-> id, frequency |-> s.frequency, n |-> s.n, daysOfWeek |-> s.daysOfWeek,
               anchor |-> day, time |-> t, createdAt |-> <<day, minute>>, last |-> l]
      BY <1>3, <2>1
    <2>4. r \in RuleRec
      BY <1>9, <2>2, <2>3 DEF RuleRec
    <2>5. QED
      BY <1>9, <2>2, <2>3, <2>4
  <1>11. /\ after \in Seq(RuleRec)
         /\ \A i \in DOMAIN after :
               (i = 1 /\ after[i] = r) \/ (i # 1 /\ i - 1 \in DOMAIN Saved /\ after[i] = Saved[i - 1])
    <2>1. Saved \in Seq(RuleRec) /\ Len(Saved) \in Nat /\ DOMAIN Saved = 1 .. Len(Saved)
      BY <1>1, SavedDomain DEF RulesInv
    <2> DEFINE all == <<r>> \o Saved
               n == Smaller(MaxRules, Len(all))
    <2>2. <<r>> \in Seq(RuleRec)
      BY <1>10
    <2>3. /\ all \in Seq(RuleRec) /\ Len(all) = 1 + Len(Saved)
          /\ \A i \in 1 .. 1 + Len(Saved) : all[i] = IF i <= 1 THEN <<r>>[i] ELSE Saved[i - 1]
      BY <2>1, <2>2, ConcatProperties
    <2> HIDE DEF all
    <2>4. n \in Nat /\ n <= Len(all) /\ n >= 1
      BY <2>1, <2>3, TaskSourcesAssumption DEF Smaller
    <2>5. after = SubSeq(all, 1, n)
      BY <1>1, <1>4 DEF Upto, all
    <2> HIDE DEF n
    <2>6. /\ after \in Seq(RuleRec) /\ Len(after) = n
          /\ \A i \in 1 .. n : after[i] = all[i]
      <3>1. \A i \in 1 .. n : all[i] \in RuleRec
        BY <2>3, <2>4
      <3>2. /\ SubSeq(all, 1, n) \in Seq(RuleRec) /\ Len(SubSeq(all, 1, n)) = n
            /\ \A i \in 1 .. n : SubSeq(all, 1, n)[i] = all[i]
        BY <2>4, <3>1, SubSeqProperties
      <3>3. QED
        BY <2>5, <3>2
    <2>7. DOMAIN after = 1 .. n
      BY <2>6
    <2>8. ASSUME NEW i \in 1 .. n
          PROVE  (i = 1 /\ after[i] = r) \/ (i # 1 /\ i - 1 \in DOMAIN Saved /\ after[i] = Saved[i - 1])
      <3>1. CASE i = 1
        BY <2>1, <2>3, <2>6, <3>1
      <3>2. CASE i # 1
        BY <2>1, <2>3, <2>4, <2>6, <3>2
      <3>3. QED
        BY <3>1, <3>2
    <2>9. QED
      BY <2>6, <2>7, <2>8
  <1>12. CASE CutShort(<<note>>)
    BY <1>7, <1>12, LoneCut
  <1>13. CASE Complete(memory, <<note>>) /\ everMade' = everMade \cup {id} /\ ran' = ran
    <2>1. Alone(note, memory)
      BY <1>1, <1>7, <1>13, LoneDone
    <2>2. Saved' = after /\ Seen' = Seen
      BY <1>7, <2>1 DEF Saved, Seen, Alone
    <2>3. ShapeInv'
      BY <1>1, <1>8, <2>1, <2>2, AloneShape
    <2>4. Distinct(Saved')
      <3>1. ASSUME NEW i \in DOMAIN after, NEW j \in DOMAIN after, after[i].id = after[j].id
            PROVE  i = j
        <4>1. DOMAIN after = 1 .. Len(after) /\ DOMAIN Saved = 1 .. Len(Saved) /\ Len(Saved) \in Nat
          BY <1>1, <1>11, SavedDomain
        <4>2. \A k \in DOMAIN Saved : Saved[k].id # id
          BY <1>1 DEF RulesInv
        <4>3. \A k, l \in DOMAIN Saved : Saved[k].id = Saved[l].id => k = l
          BY <1>1 DEF RulesInv, Distinct
        <4>4. CASE i = 1
          BY <1>10, <1>11, <3>1, <4>2, <4>4
        <4>5. CASE i # 1
          <5>1. i - 1 \in DOMAIN Saved /\ after[i] = Saved[i - 1]
            BY <1>11, <4>5
          <5>2. j # 1 /\ j - 1 \in DOMAIN Saved /\ after[j] = Saved[j - 1]
            BY <1>10, <1>11, <3>1, <4>2, <5>1
          <5>3. i - 1 = j - 1
            BY <3>1, <4>3, <5>1, <5>2
          <5>4. QED
            BY <4>1, <5>3
        <4>6. QED
          BY <4>4, <4>5
      <3>2. QED
        BY <2>2, <3>1 DEF Distinct
    <2>5. Fresh(r)
      BY <1>1, <1>10, <1>13 DEF Fresh
    <2>6. RulesChange
      BY <1>11, <1>13, <2>1, <2>2, <2>4, <2>5 DEF RulesChange, Alone
    <2>7. QED
      BY <2>3, <2>6, RulesChangeKeeps
  <1>14. QED
    BY <1>6, <1>12, <1>13

LEMMA RemoveRecurringKeeps ==
    ASSUME IInv, NEW id \in Rules, RemoveRecurringTask(id)
    PROVE  IInv'
  <1>1. /\ ShapeInv /\ RulesInv /\ mem.rules = Saved /\ mem.seen = Seen /\ DOMAIN mem = Files
    BY DEF RemoveRecurringTask, IInv, ShapeInv
  <1> DEFINE keep == {r \in Range(mem.rules) : r.id # id}
  <1>2. PICK after : after = Filtered(mem.rules, keep)
    OBVIOUS
  <1>3. PICK note, memory : note = Write("rules", after, {}) /\ memory = [mem EXCEPT !.rules = after]
    OBVIOUS
  <1>4. \/ Complete(memory, <<note>>) /\ everMade' = everMade /\ ran' = ran
        \/ CutShort(<<note>>)
    BY <1>2, <1>3 DEF RemoveRecurringTask
  <1> HIDE DEF keep
  <1>5. note.file = "rules" /\ note.val = after /\ note.made = {} /\ note.file \in Files
    BY <1>3 DEF Write, Files
  <1>6. memory.rules = after /\ memory.seen = Seen /\ DOMAIN memory = Files
    BY <1>1, <1>3 DEF Files
  <1>7. after \in Seq(RuleRec) /\ Kept(after, Saved, keep)
    <2>1. Saved \in Seq(RuleRec)
      BY <1>1 DEF RulesInv
    <2>2. Filtered(Saved, keep) \in Seq(RuleRec) /\ Kept(Filtered(Saved, keep), Saved, keep)
      BY <2>1, FilteredFacts
    <2>3. QED
      BY <1>1, <1>2, <2>2
  <1>8. CASE CutShort(<<note>>)
    BY <1>5, <1>8, LoneCut
  <1>9. CASE Complete(memory, <<note>>) /\ everMade' = everMade /\ ran' = ran
    <2>1. Alone(note, memory)
      BY <1>1, <1>5, <1>9, LoneDone
    <2>2. Saved' = after /\ Seen' = Seen
      BY <1>5, <2>1 DEF Saved, Seen, Alone
    <2>3. ShapeInv'
      BY <1>1, <1>6, <2>1, <2>2, AloneShape
    <2>4. Distinct(after)
      <3>1. \A k, l \in DOMAIN Saved : Saved[k].id = Saved[l].id => k = l
        BY <1>1 DEF RulesInv, Distinct
      <3>2. SUFFICES ASSUME NEW i \in DOMAIN after, NEW j \in DOMAIN after, i # j
                     PROVE  after[i].id # after[j].id
        BY DEF Distinct
      <3>3. PICK k, l \in DOMAIN Saved : k # l /\ after[i] = Saved[k] /\ after[j] = Saved[l]
        BY <1>7, <3>2 DEF Kept
      <3>4. QED
        BY <3>1, <3>3
    <2>5. \A i \in DOMAIN after : \E j \in DOMAIN Saved : after[i] = Saved[j]
      BY <1>7 DEF Kept
    <2>6. RulesChange
      BY <1>7, <1>9, <2>1, <2>2, <2>4, <2>5 DEF RulesChange, Alone
    <2>7. QED
      BY <2>3, <2>6, RulesChangeKeeps
  <1>10. QED
    BY <1>4, <1>8, <1>9

LEMMA RemoveManualKeeps ==
    ASSUME IInv, NEW n \in 1 .. MaxManual, RemoveManualTask(n)
    PROVE  IInv'
  <1>1. /\ ShapeInv /\ RulesInv /\ mem.rules = Saved /\ mem.seen = Seen /\ DOMAIN mem = Files
    BY DEF RemoveManualTask, IInv, ShapeInv
  <1>2. PICK after : after = SubSeq(mem.manual, 1, n - 1) \o SubSeq(mem.manual, n + 1, Len(mem.manual))
    OBVIOUS
  <1>3. PICK note, memory : note = Write("manual", after, {}) /\ memory = [mem EXCEPT !.manual = after]
    OBVIOUS
  <1>4. \/ Complete(memory, <<note>>) /\ everMade' = everMade /\ ran' = ran
        \/ CutShort(<<note>>)
    BY <1>2, <1>3 DEF RemoveManualTask
  <1>5. note.file = "manual" /\ note.made = {} /\ note.file \in Files
    BY <1>3 DEF Write, Files
  <1>6. memory.rules = Saved /\ memory.seen = Seen /\ DOMAIN memory = Files
    BY <1>1, <1>3 DEF Files
  <1>7. CASE CutShort(<<note>>)
    BY <1>5, <1>7, LoneCut
  <1>8. CASE Complete(memory, <<note>>) /\ everMade' = everMade /\ ran' = ran
    <2>1. Alone(note, memory)
      BY <1>1, <1>5, <1>8, LoneDone
    <2>2. Saved' = Saved /\ Seen' = Seen
      BY <1>5, <2>1 DEF Saved, Seen, Alone
    <2>3. ShapeInv'
      BY <1>1, <1>6, <2>1, <2>2, AloneShape
    <2>4. RulesChange
      BY <1>1, <1>8, <2>1, <2>2 DEF RulesChange, Alone, RulesInv
    <2>5. QED
      BY <2>3, <2>4, RulesChangeKeeps
  <1>9. QED
    BY <1>4, <1>7, <1>8

(* A poll that ends: the new requests made a task each and are noted.      *)
PollCompletes(M) ==
    /\ Counted(M) /\ M \subseteq PRs /\ M \cap Seen = {}
    /\ Saved' = Saved /\ Seen' = Seen \cup M
    /\ DOMAIN disk' = Files /\ torn' \subseteq Files /\ DOMAIN mem' = Files
    /\ mem'.rules = Saved' /\ mem'.seen = Seen'
    /\ UNCHANGED <<day, minute, up, cutOff, everMade, ran>>

LEMMA PollKeeps ==
    ASSUME IInv, NEW M, PollCompletes(M)
    PROVE  IInv'
  <1>1. ShapeInv /\ RulesInv /\ MadeInv /\ PRInv /\ NotedInv
    BY DEF IInv
  <1>2. /\ Counted(M) /\ M \subseteq PRs /\ M \cap Seen = {} /\ Saved' = Saved /\ Seen' = Seen \cup M
        /\ day' = day /\ cutOff' = cutOff /\ everMade' = everMade /\ ran' = ran
    BY DEF PollCompletes
  <1>3. /\ born' \in [Sources \X Days -> Nat]
        /\ \A s \in Sources, d \in Days :
              born'[<<s, d>>] = IF s \in M /\ d = day THEN born[<<s, d>>] + 1 ELSE born[<<s, d>>]
    BY <1>1, <1>2, CountedFacts
  <1>4. /\ day \in Days /\ Rules \subseteq Sources /\ PRs \subseteq Sources
        /\ Rules \cap PRs = {} /\ born \in [Sources \X Days -> Nat]
    BY <1>1, TaskSourcesAssumption DEF ShapeInv, Sources
  <1>5. \A x \in Rules \X Days : born'[x] = born[x]
    <2>1. ASSUME NEW s \in Rules, NEW d \in Days PROVE born'[<<s, d>>] = born[<<s, d>>]
      BY <1>2, <1>3, <1>4
    <2>2. QED
      BY <2>1
  <1>6. ShapeInv'
    BY <1>1, <1>3 DEF ShapeInv, PollCompletes
  <1>7. RulesInv'
    BY <1>1, <1>2 DEF RulesInv
  <1>8. \A i \in DOMAIN Saved : <<Saved[i].id, day>> \in Rules \X Days
    BY <1>1, <1>4, SavedDomain DEF RuleRec
  <1>9. MadeInv'
    <2>1. ASSUME NEW x \in Sources \X Days, x[2] > day
          PROVE  born'[x] = 0
      <3>1. PICK s \in Sources, d \in Days : x = <<s, d>>
        BY <2>1
      <3>2. d # day /\ x[2] > day
        BY <1>4, <2>1, <3>1, DaysAreNaturals
      <3>3. QED
        BY <1>1, <1>3, <3>1, <3>2 DEF MadeInv
    <2>2. \A x \in (Rules \ everMade) \X Days : born'[x] = 0
      BY <1>1, <1>5 DEF MadeInv
    <2>3. \A x \in Rules \X Days : born'[x] <= 1 \/ x \in cutOff
      BY <1>1, <1>5 DEF MadeInv
    <2>4. \A i \in DOMAIN Saved : \/ born'[<<Saved[i].id, day>>] = 0
                                  \/ Saved[i].last = day
                                  \/ <<Saved[i].id, day>> \in cutOff
      BY <1>1, <1>5, <1>8 DEF MadeInv
    <2>5. QED
      BY <1>2, <2>1, <2>2, <2>3, <2>4 DEF MadeInv
  <1>10. PRInv'
    <2>1. SUFFICES ASSUME NEW p \in PRs, \A d \in Days : <<p, d>> \notin cutOff
                   PROVE  /\ p \in Seen \cup M \/ \A d \in Days : born'[<<p, d>>] = 0
                          /\ \A d \in Days : born'[<<p, d>>] <= 1
                          /\ \A d, e \in Days : born'[<<p, d>>] = 1 /\ born'[<<p, e>>] = 1 => d = e
      BY <1>2 DEF PRInv
    <2>2. /\ p \in Seen \/ \A d \in Days : born[<<p, d>>] = 0
          /\ \A d \in Days : born[<<p, d>>] <= 1
          /\ \A d, e \in Days : born[<<p, d>>] = 1 /\ born[<<p, e>>] = 1 => d = e
      BY <1>1, <2>1 DEF PRInv
    <2>3. CASE p \in M
      <3>1. \A d \in Days : born[<<p, d>>] = 0
        BY <1>2, <2>2, <2>3
      <3>2. \A d \in Days : born'[<<p, d>>] = IF d = day THEN 1 ELSE 0
        BY <1>3, <1>4, <2>3, <3>1
      <3>3. QED
        BY <2>3, <3>2
    <2>4. CASE p \notin M
      <3>1. \A d \in Days : born'[<<p, d>>] = born[<<p, d>>]
        BY <1>3, <1>4, <2>4
      <3>2. QED
        BY <2>2, <3>1
    <2>5. QED
      BY <2>3, <2>4
  <1>11. NotedInv'
    <2>1. \A x \in ran : x \in Rules \X Days /\ born'[x] >= 1
      BY <1>1, <1>5 DEF NotedInv
    <2>2. ASSUME NEW p \in Seen \cup M
          PROVE  \E d \in Days : born'[<<p, d>>] >= 1
      <3>1. p \in PRs
        BY <1>1, <1>2 DEF RulesInv
      <3>2. CASE p \in M
        <4>1. born'[<<p, day>>] = born[<<p, day>>] + 1 /\ born[<<p, day>>] \in Nat
          BY <1>3, <1>4, <3>1, <3>2
        <4>2. QED
          BY <1>4, <4>1
      <3>3. CASE p \notin M
        <4>1. PICK d \in Days : born[<<p, d>>] >= 1
          BY <1>1, <2>2, <3>3 DEF NotedInv
        <4>2. born'[<<p, d>>] = born[<<p, d>>]
          BY <1>3, <1>4, <3>1, <3>3
        <4>3. QED
          BY <4>1, <4>2
      <3>4. QED
        BY <3>2, <3>3
    <2>3. \A i \in DOMAIN Saved : Saved[i].last = day =>
              \/ born'[<<Saved[i].id, day>>] >= 1
              \/ Saved[i].createdAt[1] = day /\ Saved[i].createdAt[2] >= Saved[i].time
      BY <1>1, <1>5, <1>8 DEF NotedInv
    <2>4. QED
      BY <1>2, <2>1, <2>2, <2>3 DEF NotedInv
  <1>12. QED
    BY <1>6, <1>7, <1>9, <1>10, <1>11 DEF IInv

LEMMA PollEndsKeeps ==
    ASSUME IInv, PollEnds
    PROVE  IInv'
  <1>1. /\ ShapeInv /\ RulesInv /\ up /\ mem.rules = Saved /\ mem.seen = Seen /\ DOMAIN mem = Files
    BY DEF PollEnds, IInv, ShapeInv
  <1>2. PICK listing \in Listings :
            LET new == Filtered(listing, PRs \ mem.seen)
                after == mem.seen \cup Range(new)
                writes == IF new = <<>> THEN <<>> ELSE MakeThenNote(new, Write("seen", after, {}))
            IN  \/ /\ Complete([mem EXCEPT !.manual = Stored(new, Len(new)), !.seen = after], writes)
                   /\ polling' = FALSE
                   /\ UNCHANGED <<everMade, ran>>
                \/ CutShort(writes)
    BY DEF PollEnds
  <1>3. PICK new : new = Filtered(listing, PRs \ mem.seen)
    OBVIOUS
  <1>4. PICK after, note, memory :
            /\ after = mem.seen \cup Range(new)
            /\ note = Write("seen", after, {})
            /\ memory = [mem EXCEPT !.manual = Stored(new, Len(new)), !.seen = after]
    OBVIOUS
  <1> DEFINE writes == IF new = <<>> THEN <<>> ELSE MakeThenNote(new, note)
             M == Range(new)
  <1>5. \/ Complete(memory, writes) /\ everMade' = everMade /\ ran' = ran
        \/ CutShort(writes)
    BY <1>2, <1>3, <1>4
  <1>6. note.file = "seen" /\ note.val = Seen \cup M /\ note.made = {} /\ note.file \in Files
    BY <1>1, <1>4 DEF Write, Files
  <1>7. memory.rules = Saved /\ memory.seen = Seen \cup M /\ DOMAIN memory = Files
    BY <1>1, <1>4 DEF Files
  <1>8. listing \in Seq(PRs) /\ \A i, j \in DOMAIN listing : listing[i] = listing[j] => i = j
    BY DEF Listings
  <1>9. new \in Seq(PRs) /\ Kept(new, listing, PRs \ Seen)
    <2>1. /\ Filtered(listing, PRs \ Seen) \in Seq(PRs)
          /\ Kept(Filtered(listing, PRs \ Seen), listing, PRs \ Seen)
      BY <1>8, FilteredFacts
    <2>2. QED
      BY <1>1, <1>3, <2>1
  <1>10. /\ new \in Seq(Sources) /\ Apart(new) /\ M = {new[k] : k \in 1 .. Len(new)}
         /\ M \subseteq PRs /\ M \cap Seen = {}
    <2>1. PRs \subseteq Sources
      BY DEF Sources
    <2>2. new \in Seq(Sources)
      BY <1>9, <2>1, SeqMonotonic
    <2>3. Apart(new)
      BY <1>8, <1>9 DEF Kept, Apart
    <2>4. M = {new[k] : k \in 1 .. Len(new)} /\ M \subseteq PRs /\ M \cap Seen = {}
      BY <1>9 DEF Kept, Range
    <2>5. QED
      BY <2>2, <2>3, <2>4
  <1>11. new = <<>> => M = {}
    BY DEF Range
  <1> HIDE DEF M
  <1>12. CASE CutShort(writes)
    <2>1. writes = MakeThenNote(new, note)
      BY <1>1, <1>12, NothingToDo
    <2>2. PICK N : Interrupted(N) /\ N \subseteq M
      <3>1. CutShort(MakeThenNote(new, note))
        BY ONLY <1>12, <2>1
      <3>2. \E N : Interrupted(N) /\ N \subseteq {new[k] : k \in 1 .. Len(new)}
        BY <1>1, <1>6, <1>10, <3>1, CutOffIsInterrupted
      <3>3. QED
        BY <1>10, <3>2
    <2>3. N \cap Rules \subseteq everMade
      BY <1>10, <2>2, TaskSourcesAssumption
    <2>4. QED
      BY <2>2, <2>3, InterruptedKeeps
  <1>13. CASE Complete(memory, writes) /\ everMade' = everMade /\ ran' = ran
    <2>1. PollCompletes(M)
      <3>1. CASE new = <<>>
        <4>1. Complete(memory, <<>>)
          BY <1>13, <3>1
        <4>2. /\ Counted({}) /\ Saved' = Saved /\ Seen' = Seen
              /\ DOMAIN disk' = Files /\ torn' \subseteq Files /\ mem' = memory
              /\ UNCHANGED <<day, minute, up, cutOff>>
          BY <1>1, <4>1, NothingToDo
        <4>3. M = {}
          BY <1>11, <3>1
        <4>4. QED
          BY <1>7, <1>13, <4>2, <4>3 DEF PollCompletes
      <3>2. CASE new # <<>>
        <4>1. Complete(memory, MakeThenNote(new, note))
          BY <1>13, <3>2
        <4>2. Done(new, note, memory)
          BY <1>1, <1>6, <1>10, <4>1, Completed
        <4>3. Saved' = Saved /\ Seen' = Seen \cup M
          BY <1>6, <4>2 DEF Saved, Seen, Done
        <4>4. QED
          BY <1>7, <1>10, <1>13, <4>2, <4>3 DEF PollCompletes, Done
      <3>3. QED
        BY <3>1, <3>2
    <2>2. PICK N : N = M
      OBVIOUS
    <2>3. PollCompletes(N)
      BY <2>1, <2>2
    <2>4. QED
      BY <2>3, PollKeeps
  <1>14. QED
    BY <1>5, <1>12, <1>13

(* What the invariant speaks of, and nothing more. *)
watched == <<day, minute, up, mem, disk, torn, everMade, born, cutOff, ran>>

LEMMA StutterKeeps ==
    ASSUME IInv, UNCHANGED watched
    PROVE  IInv'
  <1>1. Saved' = Saved /\ Seen' = Seen
    BY DEF watched, Saved, Seen, Loaded
  <1> USE DEF watched
  <1>2. ShapeInv'
    BY <1>1 DEF IInv, ShapeInv
  <1>3. RulesInv'
    BY <1>1 DEF IInv, RulesInv
  <1>4. MadeInv'
    BY <1>1 DEF IInv, MadeInv
  <1>5. PRInv'
    BY <1>1 DEF IInv, PRInv
  <1>6. NotedInv'
    BY <1>1 DEF IInv, NotedInv
  <1>7. QED
    BY <1>2, <1>3, <1>4, <1>5, <1>6 DEF IInv

(* The process dies or starts: the files stay. *)
LEMMA ProcessKeeps ==
    ASSUME IInv, Dies \/ Starts
    PROVE  IInv'
  <1>1. /\ Saved' = Saved /\ Seen' = Seen /\ disk' = disk /\ torn' = torn
        /\ UNCHANGED <<day, minute, everMade, born, cutOff, ran>>
    BY DEF Dies, Starts, Saved, Seen, Loaded
  <1>2. ShapeInv /\ RulesInv /\ MadeInv /\ PRInv /\ NotedInv
    BY DEF IInv
  <1>3. DOMAIN Empty = Files
    BY DEF Empty, Files
  <1>4. /\ DOMAIN mem' = Files /\ up' \in BOOLEAN
        /\ up' => mem'.rules = Saved' /\ mem'.seen = Seen'
    <2>1. CASE Dies
      BY <1>3, <2>1 DEF Dies
    <2>2. CASE Starts
      <3>1. mem' = [f \in Files |-> Loaded(f)] /\ up' = TRUE
        BY <1>3, <2>2 DEF Starts
      <3>2. mem'.rules = Saved /\ mem'.seen = Seen
        BY <3>1 DEF Files, Saved, Seen
      <3>3. QED
        BY <1>1, <3>1, <3>2
    <2>3. QED
      BY <2>1, <2>2
  <1>5. ShapeInv'
    BY <1>1, <1>2, <1>4 DEF ShapeInv
  <1>6. RulesInv' /\ MadeInv' /\ PRInv' /\ NotedInv'
    BY <1>1, <1>2 DEF RulesInv, MadeInv, PRInv, NotedInv
  <1>7. QED
    BY <1>5, <1>6 DEF IInv

(* A new day: nothing is made on it yet, and nothing noted. *)
LEMMA TickKeeps ==
    ASSUME IInv, Tick
    PROVE  IInv'
  <1>1. /\ Saved' = Saved /\ Seen' = Seen
        /\ UNCHANGED <<up, mem, disk, torn, everMade, born, cutOff, ran>>
    BY DEF Tick, Saved, Seen, Loaded
  <1>2. ShapeInv /\ RulesInv /\ MadeInv /\ PRInv /\ NotedInv
    BY DEF IInv
  <1>3. day \in Nat /\ minute \in Nat /\ LastDay \in Nat /\ Days = 1 .. LastDay /\ day \in Days
    BY <1>2, LastDayIsNatural, DaysAreNaturals DEF ShapeInv
  <1>4. LastMinute \in Nat
    BY TaskSourcesAssumption
  <1>5. minute' \in Nat /\ (day' = day \/ (day' = day + 1 /\ day < LastDay))
    BY <1>3, <1>4 DEF Tick
  <1> HIDE DEF Days
  <1>6. CASE day' = day
    <2>1. ShapeInv'
      BY <1>1, <1>2, <1>5, <1>6 DEF ShapeInv
    <2>2. RulesInv' /\ MadeInv' /\ PRInv' /\ NotedInv'
      BY <1>1, <1>2, <1>6 DEF RulesInv, MadeInv, PRInv, NotedInv
    <2>3. QED
      BY <2>1, <2>2 DEF IInv
  <1>7. CASE day' = day + 1 /\ day < LastDay
    <2>1. day' \in Days
      BY <1>3, <1>7
    <2>2. ShapeInv'
      BY <1>1, <1>2, <1>5, <2>1 DEF ShapeInv
    <2>3. /\ Len(Saved) \in Nat /\ DOMAIN Saved = 1 .. Len(Saved)
          /\ \A i \in DOMAIN Saved : /\ Saved[i].id \in Rules /\ Saved[i].last \in Nat
                                     /\ Saved[i].createdAt[1] \in Nat
      BY <1>2, SavedDomain DEF RuleRec
    <2>4. \A i \in DOMAIN Saved : Saved[i].last <= day /\ Saved[i].createdAt[1] <= day
      BY <1>2 DEF RulesInv
    <2>5. \A i \in DOMAIN Saved : /\ Saved[i].last <= day' /\ Saved[i].last # day'
                                  /\ Saved[i].createdAt[1] <= day'
      BY <1>3, <1>7, <2>3, <2>4
    <2>6. RulesInv'
      <3>1. \A i \in DOMAIN Saved' : /\ Saved'[i].id \in everMade' /\ Saved'[i].last <= day'
                                    /\ Saved'[i].createdAt[1] <= day'
        BY <1>1, <1>2, <2>5 DEF RulesInv
      <3>2. Saved' \in Seq(RuleRec) /\ Distinct(Saved') /\ Seen' \subseteq PRs
        BY <1>1, <1>2 DEF RulesInv
      <3>3. QED
        BY <3>1, <3>2 DEF RulesInv
    <2>7. \A x \in Sources \X Days : x[2] > day' => born[x] = 0
      <3>1. ASSUME NEW x \in Sources \X Days, x[2] > day' PROVE born[x] = 0
        <4>1. x[2] > day
          BY <1>3, <1>7, <3>1, DaysAreNaturals
        <4>2. QED
          BY <1>2, <4>1 DEF MadeInv
      <3>2. QED
        BY <3>1
    <2>8. \A i \in DOMAIN Saved : born[<<Saved[i].id, day'>>] = 0
      <3>1. ASSUME NEW i \in DOMAIN Saved PROVE born[<<Saved[i].id, day'>>] = 0
        <4>1. <<Saved[i].id, day'>> \in Sources \X Days
          BY <2>1, <2>3 DEF Sources
        <4>2. day' > day
          BY <1>3, <1>7
        <4>3. QED
          BY <1>2, <4>1, <4>2 DEF MadeInv
      <3>2. QED
        BY <3>1
    <2>9. MadeInv'
      BY <1>1, <1>2, <2>7, <2>8 DEF MadeInv
    <2>10. PRInv'
      BY <1>1, <1>2 DEF PRInv
    <2>11. \A i \in DOMAIN Saved : Saved[i].last # day'
      BY <2>5
    <2>12. NotedInv'
      BY <1>1, <1>2, <2>11 DEF NotedInv
    <2>13. QED
      BY <2>2, <2>6, <2>9, <2>10, <2>12 DEF IInv
  <1>8. QED
    BY <1>5, <1>6, <1>7

-----------------------------------------------------------------------------

LEMMA InitIInv == Init => IInv
  <1> SUFFICES ASSUME Init PROVE IInv
    OBVIOUS
  <1>1. Saved = <<>> /\ Seen = {} /\ mem.rules = <<>> /\ mem.seen = {}
    BY DEF Init, Saved, Seen, Loaded, Empty
  <1>2. 1 \in Days /\ 1 \in Nat
    <2>1. 1 \in 1 .. Months /\ Months \in 1 .. Months
      BY CalendarTypes
    <2>2. DaysIn[1] >= 1
      <3>1. DaysIn[1] = DaysIn[0] + MonthLengths[1] /\ MonthLengths[1] \in Nat \ {0}
        BY <2>1, DaysInFacts, CalendarTypes
      <3>2. QED
        BY <3>1, DaysInFacts
    <2>3. DaysIn[1] <= DaysIn[Months]
      <3>1. 1 \in 0 .. Months /\ Months \in 0 .. Months /\ 1 <= Months
        BY CalendarTypes
      <3>2. QED
        BY <3>1, DaysInGrows
    <2>4. QED
      BY <2>1, <2>2, <2>3, LastDayIsNatural, DaysInFacts
  <1> HIDE DEF Days
  <1>3. born \in [Sources \X Days -> Nat] /\ \A x \in Sources \X Days : born[x] = 0
    BY DEF Init, Sources
  <1>4. ShapeInv
    BY <1>1, <1>2, <1>3 DEF Init, ShapeInv, Empty, Files
  <1>5. RulesInv
    BY <1>1 DEF RulesInv, Distinct
  <1>6. MadeInv
    BY <1>1, <1>3 DEF MadeInv, Sources
  <1>7. PRInv
    BY <1>3 DEF PRInv, Sources
  <1>8. NotedInv
    BY <1>1 DEF NotedInv, Init
  <1>9. QED
    BY <1>4, <1>5, <1>6, <1>7, <1>8 DEF IInv

LEMMA NextKeepsIInv == IInv /\ [Next]_vars => IInv'
  <1> SUFFICES ASSUME IInv, [Next]_vars PROVE IInv'
    OBVIOUS
  <1>1. CASE RunDueRecurringTasks
    BY <1>1, RunCompletes, RunKeeps
  <1>2. ASSUME NEW id \in Rules, CreateRecurringTask(id) \/ RemoveRecurringTask(id) PROVE IInv'
    BY <1>2, CreateKeeps, RemoveRecurringKeeps
  <1>3. ASSUME NEW n \in 1 .. MaxManual, RemoveManualTask(n) PROVE IInv'
    BY <1>3, RemoveManualKeeps
  <1>4. CASE PollBegins
    BY <1>4, StutterKeeps DEF PollBegins, watched
  <1>5. CASE PollEnds
    BY <1>5, PollEndsKeeps
  <1>6. CASE Dies \/ Starts
    BY <1>6, ProcessKeeps
  <1>7. CASE Tick
    BY <1>7, TickKeeps
  <1>8. CASE UNCHANGED vars
    BY <1>8, StutterKeeps DEF vars, watched
  <1>9. QED
    BY <1>1, <1>2, <1>3, <1>4, <1>5, <1>6, <1>7, <1>8 DEF Next

LEMMA AlwaysIInv == Spec => []IInv
  BY InitIInv, NextKeepsIInv, PTL DEF Spec

(* One task for an occurrence of a rule and one for a review request,      *)
(* however the scheduler's runs, the polls, the user's changes, crashes    *)
(* and restarts interleave, unless a process died between storing a task   *)
(* and noting it down (scheduler.ts:31-38, github-reviews/index.ts:66-74). *)
THEOREM EveryOccurrenceMakesOneTask == Spec => []OncePerOccurrence
  <1>1. IInv => OncePerOccurrence
    BY DEF IInv, MadeInv, PRInv, OncePerOccurrence
  <1>2. QED
    BY <1>1, AlwaysIInv, PTL

(* A completed run leaves a task for every rule that is due by the         *)
(* calendar, the last day of a short month and the n-th day from the       *)
(* anchor included, and every request noted as seen had a task, though     *)
(* files are torn and tasks removed.                                       *)
THEOREM NoOccurrenceIsForgotten == Spec => []NothingForgotten
  <1>1. IInv => NothingForgotten
    BY DEF IInv, NotedInv, NothingForgotten, Seen
  <1>2. QED
    BY <1>1, AlwaysIInv, PTL

-----------------------------------------------------------------------------
(* Lists, about the next-up list. *)

(* A recursive definition over 0 .. n, as a function. *)
FoldOf(f, n, V, a, G) ==
    /\ f \in [0 .. n -> V] /\ f[0] = a
    /\ \A k \in 1 .. n : f[k] = G[<<f[k - 1], k>>]

LEMMA Folded ==
    ASSUME NEW N \in Nat, NEW V, NEW a \in V, NEW G \in [V \X (1 .. N) -> V]
    PROVE  \E f : FoldOf(f, N, V, a, G)
  <1> USE DEF FoldOf
  <1> DEFINE Folds(f, n) == FoldOf(f, n, V, a, G)
             T == {n \in Nat : n <= N => \E f : Folds(f, n)}
  <1>1. 0 \in T
    <2>1. Folds([k \in 0 .. 0 |-> a], 0)
      OBVIOUS
    <2>2. QED
      BY <2>1
  <1>2. ASSUME NEW n \in Nat, n \in T
        PROVE  n + 1 \in T
    <2>1. SUFFICES ASSUME n + 1 <= N PROVE \E f : Folds(f, n + 1)
      OBVIOUS
    <2>2. PICK f : Folds(f, n)
      BY <1>2, <2>1
    <2> DEFINE e == G[<<f[n], n + 1>>]
               h == [k \in 0 .. n + 1 |-> IF k = n + 1 THEN e ELSE f[k]]
    <2>3. e \in V
      BY <2>1, <2>2
    <2>4. h[n + 1] = e /\ \A k \in 0 .. n : h[k] = f[k]
      OBVIOUS
    <2>5. h \in [0 .. n + 1 -> V] /\ h[0] = a
      BY <2>2, <2>3
    <2> HIDE DEF h
    <2>6. ASSUME NEW k \in 1 .. n + 1
          PROVE  h[k] = G[<<h[k - 1], k>>]
      <3>1. CASE k = n + 1
        BY <2>4, <3>1
      <3>2. CASE k # n + 1
        <4>1. k \in 1 .. n /\ k \in 0 .. n /\ k - 1 \in 0 .. n
          BY <3>2
        <4>2. QED
          BY <2>2, <2>4, <4>1
      <3>3. QED
        BY <3>1, <3>2
    <2>7. Folds(h, n + 1)
      BY <2>5, <2>6
    <2>8. QED
      BY <2>7
  <1> HIDE DEF T
  <1>3. Nat \subseteq T
    BY <1>1, <1>2, NaturalInduction
  <1>4. N \in T /\ N <= N
    BY <1>3
  <1> HIDE DEF FoldOf
  <1>5. QED
    BY <1>4 DEF T

LEMMA InsertAtFacts ==
    ASSUME NEW S, NEW l \in Seq(S), NEW x \in S, NEW at \in 1 .. Len(l) + 1
    PROVE  LET t == InsertAt(l, at, x)
           IN  /\ t \in Seq(S) /\ Len(t) = Len(l) + 1 /\ t[at] = x
               /\ \A n \in 1 .. at - 1 : t[n] = l[n]
               /\ \A n \in at .. Len(l) : t[n + 1] = l[n]
  <1> DEFINE p == SubSeq(l, 1, at - 1)
             q == SubSeq(l, at, Len(l))
             t == p \o <<x>> \o q
  <1>1. p \in Seq(S) /\ Len(p) = at - 1 /\ \A n \in 1 .. at - 1 : p[n] = l[n]
    OBVIOUS
  <1>2. q \in Seq(S) /\ Len(q) = Len(l) - at + 1 /\ \A n \in 1 .. Len(l) - at + 1 : q[n] = l[n + at - 1]
    OBVIOUS
  <1> DEFINE m == p \o <<x>>
  <1> HIDE DEF p, q
  <1>3. <<x>> \in Seq(S) /\ Len(<<x>>) = 1 /\ <<x>>[1] = x
    OBVIOUS
  <1>4. /\ m \in Seq(S) /\ Len(m) = at /\ m[at] = x
        /\ \A n \in 1 .. at - 1 : m[n] = l[n]
    BY <1>1, <1>3, ConcatProperties
  <1>5. t = m \o q
    OBVIOUS
  <1> HIDE DEF m, t
  <1>6. /\ t \in Seq(S) /\ Len(t) = Len(l) + 1 /\ t[at] = x
        /\ \A n \in 1 .. at - 1 : t[n] = l[n]
    BY <1>2, <1>4, <1>5, ConcatProperties
  <1>7. ASSUME NEW n \in at .. Len(l)
        PROVE  t[n + 1] = l[n]
    <2>1. n - at + 1 \in 1 .. Len(l) - at + 1 /\ q[n - at + 1] = l[n]
      BY <1>2
    <2>2. n + 1 \in 1 .. Len(m) + Len(q) /\ n + 1 > Len(m) /\ n + 1 - Len(m) = n - at + 1
      BY <1>2, <1>4
    <2>3. t[n + 1] = q[n - at + 1]
      BY <1>2, <1>4, <1>5, <2>2, ConcatProperties
    <2>4. QED
      BY <2>1, <2>3
  <1>8. t = InsertAt(l, at, x)
    BY DEF InsertAt, p, q, t
  <1>9. QED
    BY <1>6, <1>7, <1>8

LEMMA RangeOf ==
    ASSUME NEW S, NEW l \in Seq(S)
    PROVE  /\ DOMAIN l = 1 .. Len(l) /\ Len(l) \in Nat
           /\ Range(l) = {l[n] : n \in 1 .. Len(l)} /\ Range(l) \subseteq S
  BY DEF Range

(* What is put into a list disturbs nothing in it. *)
LEMMA InsertKeeps ==
    ASSUME NEW S, NEW l \in Seq(S), NEW x \in S, NEW at \in 1 .. Len(l) + 1
    PROVE  LET t == InsertAt(l, at, x)
           IN  /\ Range(t) = Range(l) \cup {x}
               /\ IsInjective(l) /\ x \notin Range(l) => IsInjective(t)
               /\ \A a, b : InOrder(l, a, b) => InOrder(t, a, b)
  <1> DEFINE t == InsertAt(l, at, x)
             to(n) == IF n < at THEN n ELSE n + 1
  <1>1. /\ t \in Seq(S) /\ Len(t) = Len(l) + 1 /\ t[at] = x
        /\ \A n \in 1 .. at - 1 : t[n] = l[n]
        /\ \A n \in at .. Len(l) : t[n + 1] = l[n]
    BY InsertAtFacts
  <1>2. /\ DOMAIN l = 1 .. Len(l) /\ Len(l) \in Nat /\ DOMAIN t = 1 .. Len(l) + 1
        /\ Range(l) = {l[n] : n \in 1 .. Len(l)} /\ Range(t) = {t[n] : n \in 1 .. Len(l) + 1}
    BY <1>1, RangeOf
  <1> HIDE DEF t
  <1>3. \A n \in 1 .. Len(l) : to(n) \in 1 .. Len(l) + 1 /\ to(n) # at /\ t[to(n)] = l[n]
    BY <1>1, <1>2
  <1>4. \A m \in 1 .. Len(l) + 1 : m # at => \E n \in 1 .. Len(l) : m = to(n)
    <2>1. SUFFICES ASSUME NEW m \in 1 .. Len(l) + 1, m # at
                   PROVE  \E n \in 1 .. Len(l) : m = to(n)
      OBVIOUS
    <2>2. CASE m < at
      BY <1>2, <2>2
    <2>3. CASE ~(m < at)
      <3>1. m - 1 \in 1 .. Len(l) /\ to(m - 1) = m
        BY <1>2, <2>1, <2>3
      <3>2. QED
        BY <3>1
    <2>4. QED
      BY <2>2, <2>3
  <1>5. \A i, j \in 1 .. Len(l) : i < j => to(i) < to(j)
    BY <1>2
  <1> HIDE DEF to
  <1>6. Range(t) = Range(l) \cup {x}
    <2>1. at \in 1 .. Len(l) + 1 /\ t[at] = x
      BY <1>1
    <2>2. x \in Range(t)
      BY <1>2, <2>1
    <2>3. ASSUME NEW n \in 1 .. Len(l)
          PROVE  l[n] \in Range(t)
      BY <1>2, <1>3, <2>3
    <2>4. ASSUME NEW m \in 1 .. Len(l) + 1, m # at
          PROVE  t[m] \in Range(l)
      <3>1. PICK n \in 1 .. Len(l) : m = to(n)
        BY <1>4, <2>4
      <3>2. QED
        BY <1>2, <1>3, <3>1
    <2>5. Range(l) \subseteq Range(t)
      BY <1>2, <2>3
    <2>6. Range(t) \subseteq Range(l) \cup {x}
      BY <1>2, <2>1, <2>4
    <2>7. QED
      BY <2>2, <2>5, <2>6
  <1>7. ASSUME IsInjective(l), x \notin Range(l)
        PROVE  IsInjective(t)
    <2>1. SUFFICES ASSUME NEW i \in 1 .. Len(l) + 1, NEW j \in 1 .. Len(l) + 1, t[i] = t[j]
                   PROVE  i = j
      BY <1>2 DEF IsInjective
    <2>2. ASSUME NEW m \in 1 .. Len(l) + 1, m # at
          PROVE  t[m] # x
      BY <1>2, <1>3, <1>4, <1>7, <2>2
    <2>3. CASE i # at /\ j # at
      <3>1. PICK m \in 1 .. Len(l) : i = to(m)
        BY <1>4, <2>3
      <3>2. PICK n \in 1 .. Len(l) : j = to(n)
        BY <1>4, <2>3
      <3>3. l[m] = l[n]
        BY <1>3, <2>1, <3>1, <3>2
      <3>4. m = n
        BY <1>2, <1>7, <3>3 DEF IsInjective
      <3>5. QED
        BY <3>1, <3>2, <3>4
    <2>4. QED
      BY <1>1, <2>1, <2>2, <2>3
  <1>8. ASSUME NEW a, NEW b, InOrder(l, a, b)
        PROVE  InOrder(t, a, b)
    <2>1. PICK i \in 1 .. Len(l), j \in 1 .. Len(l) : i < j /\ l[i] = a /\ l[j] = b
      BY <1>2, <1>8 DEF InOrder
    <2>2. QED
      BY <1>2, <1>3, <1>5, <2>1 DEF InOrder
  <1>9. QED
    BY <1>6, <1>7, <1>8 DEF t

LEMMA FirstNumbers ==
    ASSUME NEW n \in Nat
    PROVE  IsFiniteSet(1 .. n) /\ Cardinality(1 .. n) = n
  BY FS_Interval

LEMMA FilteredKeeps ==
    ASSUME NEW S, NEW l \in Seq(S), NEW keep
    PROVE  LET q == Filtered(l, keep)
           IN  /\ q \in Seq(S) /\ Range(q) = Range(l) \cap keep
               /\ IsInjective(l) => IsInjective(q)
               /\ Distinct(l) => Distinct(q)
               /\ \A a, b \in keep : InOrder(l, a, b) => InOrder(q, a, b)
  <1> DEFINE q == Filtered(l, keep)
  <1>1. PICK g : q \in Seq(S) /\ Picks(q, g, l, Len(l), keep)
    BY FilteredPicks
  <1> HIDE DEF q
  <1>2. /\ DOMAIN q = 1 .. Len(q) /\ Len(q) \in Nat /\ DOMAIN l = 1 .. Len(l) /\ Len(l) \in Nat
        /\ Range(q) = {q[n] : n \in 1 .. Len(q)} /\ Range(l) = {l[n] : n \in 1 .. Len(l)}
    BY <1>1, RangeOf
  <1>3. \A i \in 1 .. Len(q) : g[i] \in 1 .. Len(l) /\ q[i] = l[g[i]] /\ q[i] \in keep
    BY <1>1, <1>2 DEF Picks
  <1>4. \A i, j \in 1 .. Len(q) : i < j => g[i] < g[j]
    BY <1>1, <1>2 DEF Picks
  <1>5. \A k \in 1 .. Len(l) : l[k] \in keep => \E i \in 1 .. Len(q) : g[i] = k
    BY <1>1, <1>2 DEF Picks
  <1>6. Range(q) = Range(l) \cap keep
    BY <1>2, <1>3, <1>5
  <1>7. \A i, j \in 1 .. Len(q) : g[i] = g[j] => i = j
    BY <1>2, <1>3, <1>4
  <1>8. IsInjective(l) => IsInjective(q)
    BY <1>2, <1>3, <1>7 DEF IsInjective
  <1>9. Distinct(l) => Distinct(q)
    BY <1>2, <1>3, <1>7 DEF Distinct
  <1>10. ASSUME NEW a \in keep, NEW b \in keep, InOrder(l, a, b)
         PROVE  InOrder(q, a, b)
    <2>1. PICK i \in 1 .. Len(l), j \in 1 .. Len(l) : i < j /\ l[i] = a /\ l[j] = b
      BY <1>2, <1>10 DEF InOrder
    <2>2. PICK m \in 1 .. Len(q) : g[m] = i
      BY <1>5, <1>10, <2>1
    <2>3. PICK n \in 1 .. Len(q) : g[n] = j
      BY <1>5, <1>10, <2>1
    <2>4. m < n
      <3>1. m = n \/ n < m \/ m < n
        BY <1>2
      <3>2. ~(m = n) /\ ~(n < m)
        BY <1>2, <1>3, <1>4, <2>1, <2>2, <2>3
      <3>3. QED
        BY <3>1, <3>2
    <2>5. q[m] = a /\ q[n] = b
      BY <1>3, <2>1, <2>2, <2>3
    <2>6. QED
      BY <1>2, <2>4, <2>5 DEF InOrder
  <1>11. QED
    BY <1>1, <1>6, <1>8, <1>9, <1>10 DEF q

(* A filter that keeps everything. *)
LEMMA FilteredAll ==
    ASSUME NEW S, NEW l \in Seq(S), NEW keep, Range(l) \subseteq keep
    PROVE  Filtered(l, keep) = l
  <1> DEFINE q == Filtered(l, keep)
  <1>1. PICK g : q \in Seq(S) /\ Picks(q, g, l, Len(l), keep)
    BY FilteredPicks
  <1> HIDE DEF q
  <1>2. /\ DOMAIN q = 1 .. Len(q) /\ Len(q) \in Nat /\ DOMAIN l = 1 .. Len(l) /\ Len(l) \in Nat
        /\ Range(l) = {l[n] : n \in 1 .. Len(l)}
    BY <1>1, RangeOf
  <1>3. \A i \in 1 .. Len(q) : g[i] \in 1 .. Len(l) /\ q[i] = l[g[i]]
    BY <1>1, <1>2 DEF Picks
  <1>4. \A i, j \in 1 .. Len(q) : i < j => g[i] < g[j]
    BY <1>1, <1>2 DEF Picks
  <1>5. \A k \in 1 .. Len(l) : \E i \in 1 .. Len(q) : g[i] = k
    BY <1>1, <1>2 DEF Picks
  <1> DEFINE off == {i \in 1 .. Len(q) : g[i] # i}
  <1>6. ASSUME off # {}
        PROVE  FALSE
    <2>1. off \subseteq Nat
      BY <1>2
    <2> HIDE DEF off
    <2>0. PICK i \in off : \A k \in off : i <= k
      BY <1>6, <2>1, LeastNatural
    <2> USE DEF off
    <2>2. i \in 1 .. Len(q) /\ g[i] # i /\ \A k \in 1 .. Len(q) : k < i => g[k] = k
      BY <1>2, <2>0
    <2>3. g[i] > i
      <3>1. CASE i = 1
        BY <1>2, <1>3, <2>2, <3>1
      <3>2. CASE i # 1
        <4>1. i - 1 \in 1 .. Len(q) /\ i - 1 < i
          BY <1>2, <2>2, <3>2
        <4>2. g[i - 1] = i - 1 /\ g[i - 1] < g[i]
          BY <1>4, <2>2, <4>1
        <4>3. QED
          BY <1>2, <1>3, <2>2, <4>2
      <3>3. QED
        BY <3>1, <3>2
    <2>4. i \in 1 .. Len(l)
      BY <1>2, <1>3, <2>2, <2>3
    <2>5. PICK j \in 1 .. Len(q) : g[j] = i
      BY <1>5, <2>4
    <2>6. ~(j < i)
      BY <1>2, <2>2, <2>5
    <2>7. j # i /\ ~(i < j)
      BY <1>2, <1>3, <1>4, <2>2, <2>3, <2>5
    <2>8. QED
      BY <1>2, <2>2, <2>6, <2>7
  <1>7. \A i \in 1 .. Len(q) : g[i] = i
    BY <1>6
  <1>8. Len(q) = Len(l)
    <2>1. ASSUME Len(q) # Len(l)
          PROVE  FALSE
      <3>1. Len(q) <= Len(l)
        BY <1>2, <1>3, <1>7
      <3>0. Len(q) \in Nat /\ Len(l) \in Nat
        BY <1>2
      <3> HIDE DEF off
      <3>2. Len(q) + 1 \in 1 .. Len(l)
        BY <2>1, <3>1, <3>0
      <3>3. QED
        BY <1>2, <1>5, <1>7, <3>2
    <2>2. QED
      BY <2>1
  <1>9. q = l
    BY <1>1, <1>2, <1>3, <1>7, <1>8, SeqEqual
  <1>10. QED
    BY <1>9 DEF q

LEMMA FilteredNone ==
    ASSUME NEW S, NEW l \in Seq(S), NEW keep, Range(l) \cap keep = {}
    PROVE  Filtered(l, keep) = <<>>
  <1> DEFINE q == Filtered(l, keep)
  <1>1. q \in Seq(S) /\ Range(q) = {}
    BY FilteredKeeps
  <1> HIDE DEF q
  <1>2. Len(q) = 0
    <2>1. Len(q) \in Nat /\ (1 \in 1 .. Len(q) => q[1] \in Range(q))
      BY <1>1, RangeOf
    <2>2. QED
      BY <1>1, <2>1
  <1>3. q = <<>>
    BY <1>1, <1>2, EmptySeq
  <1>4. QED
    BY <1>3 DEF q

(* A list without repetitions is as long as it has elements. *)
LEMMA SizeOf ==
    ASSUME NEW S, NEW l \in Seq(S), IsInjective(l)
    PROVE  IsFiniteSet(Range(l)) /\ Cardinality(Range(l)) = Len(l)
  <1> DEFINE D == 1 .. Len(l)
             R == Range(l)
  <1>1. DOMAIN l = D /\ Len(l) \in Nat /\ R = {l[n] : n \in D}
    BY RangeOf
  <1>2. l \in [D -> R]
    BY <1>1
  <1>3. IsFiniteSet(D) /\ Cardinality(D) = Len(l)
    BY <1>1, FS_Interval
  <1>4. ExistsBijection(D, R)
    <2>1. \A i, j \in D : l[i] = l[j] => i = j
      BY <1>1 DEF IsInjective
    <2> HIDE DEF D, R
    <2>2. l \in Bijection(D, R)
      BY <1>1, <1>2, <2>1 DEF Bijection, Injection, Surjection, IsInjective
    <2>3. QED
      BY <2>2 DEF ExistsBijection
  <1> HIDE DEF D, R
  <1>5. IsFiniteSet(R) /\ Cardinality(R) = Len(l)
    BY <1>3, <1>4, FS_Bijection
  <1>6. QED
    BY <1>5 DEF R

(* Sorting loses nothing and adds nothing. *)
LEMMA OrderedFacts ==
    ASSUME NEW S, NEW items \in Seq(S), NEW before, IsInjective(items)
    PROVE  LET q == Ordered(items, before)
           IN  q \in Seq(S) /\ Range(q) = Range(items) /\ IsInjective(q)
  <1> DEFINE L == Len(items)
             V == Seq(S)
             Place(l, x) == 1 + Cardinality({i \in DOMAIN l : <<x, l[i]>> \notin before})
             Put(l, n) == InsertAt(l, Place(l, items[n]), items[n])
             FoldsTo(f) == f = [n \in 0 .. L |-> IF n = 0 THEN <<>> ELSE Put(f[n - 1], n)]
             F == CHOOSE f : FoldsTo(f)
             G == [p \in V \X (1 .. L) |-> Put(p[1], p[2])]
  <1>1. L \in Nat /\ <<>> \in V /\ \A n \in 1 .. L : items[n] \in S
    OBVIOUS
  <1>2. \A x : \A l \in V : Place(l, x) \in 1 .. Len(l) + 1
    <2>1. SUFFICES ASSUME NEW x, NEW l \in V PROVE Place(l, x) \in 1 .. Len(l) + 1
      OBVIOUS
    <2> DEFINE D == DOMAIN l
               T == {i \in D : <<x, l[i]>> \notin before}
    <2>2. D = 1 .. Len(l) /\ Len(l) \in Nat
      OBVIOUS
    <2>3. IsFiniteSet(D) /\ Cardinality(D) = Len(l)
      <3>1. Len(l) \in Nat
        BY <2>2
      <3>2. IsFiniteSet(1 .. Len(l)) /\ Cardinality(1 .. Len(l)) = Len(l)
        BY <3>1, FirstNumbers
      <3>3. QED
        BY <2>2, <3>2
    <2>4. T \in SUBSET D
      OBVIOUS
    <2> HIDE DEF T, D
    <2>5. Cardinality(T) \in Nat /\ Cardinality(T) <= Cardinality(D)
      BY <2>3, <2>4, FS_Subset, FS_CardinalityType
    <2>6. 1 + Cardinality(T) \in 1 .. Len(l) + 1
      BY <2>2, <2>3, <2>5
    <2>7. QED
      BY <2>6 DEF T, D
  <1>3. Ordered(items, before) = F[L]
    BY DEF Ordered
  <1> HIDE DEF Place
  <1>4. \A l \in V, n \in 1 .. L : Put(l, n) \in V
    BY <1>1, <1>2, InsertAtFacts
  <1>5. G \in [V \X (1 .. L) -> V] /\ \A l \in V, n \in 1 .. L : G[<<l, n>>] = Put(l, n)
    BY <1>4
  <1> HIDE DEF Put, G, V, L
  <1>6. PICK f : f \in [0 .. L -> V] /\ f[0] = <<>> /\ \A n \in 1 .. L : f[n] = G[<<f[n - 1], n>>]
    <2>1. \E f : FoldOf(f, L, V, <<>>, G)
      BY <1>1, <1>5, Folded
    <2>2. QED
      BY <2>1 DEF FoldOf
  <1>7. FoldsTo(f)
    <2>1. ASSUME NEW n \in 0 .. L
          PROVE  f[n] = IF n = 0 THEN <<>> ELSE Put(f[n - 1], n)
      <3>1. CASE n = 0
        BY <1>6, <3>1
      <3>2. CASE n # 0
        <4>1. n \in 1 .. L /\ n - 1 \in 0 .. L
          BY <1>1, <3>2
        <4>2. QED
          BY <1>5, <1>6, <3>2, <4>1
      <3>3. QED
        BY <3>1, <3>2
    <2>2. f = [n \in 0 .. L |-> f[n]]
      BY <1>6
    <2>3. QED
      BY <2>1, <2>2
  <1>8. FoldsTo(F)
    BY <1>7
  <1> HIDE DEF F
  <1>9. F[0] = <<>> /\ \A n \in 1 .. L : F[n] = Put(F[n - 1], n)
    <2>1. \A n \in 0 .. L : F[n] = IF n = 0 THEN <<>> ELSE Put(F[n - 1], n)
      BY <1>8
    <2>2. 0 \in 0 .. L /\ \A n \in 1 .. L : n \in 0 .. L /\ n # 0
      BY <1>1
    <2>3. QED
      BY <2>1, <2>2
  <1> HIDE DEF FoldsTo
  <1> DEFINE Good(n) == F[n] \in V /\ Range(F[n]) = {items[k] : k \in 1 .. n} /\ IsInjective(F[n])
             T == {n \in Nat : n <= L => Good(n)}
  <1>10. 0 \in T
    <2>1. Range(<<>>) = {} /\ IsInjective(<<>>)
      BY DEF Range, IsInjective
    <2>2. QED
      BY <1>1, <1>9, <2>1
  <1>11. ASSUME NEW n \in Nat, n \in T
         PROVE  n + 1 \in T
    <2>1. SUFFICES ASSUME n + 1 <= L PROVE Good(n + 1)
      OBVIOUS
    <2>2. Good(n) /\ n + 1 \in 1 .. L
      BY <1>1, <1>11, <2>1
    <2> DEFINE x == items[n + 1]
               at == Place(F[n], x)
    <2>3. F[n + 1] = InsertAt(F[n], at, x)
      BY <1>9, <2>2 DEF Put
    <2>4. x \in S /\ at \in 1 .. Len(F[n]) + 1 /\ F[n] \in Seq(S)
      BY <1>1, <1>2, <2>2 DEF V
    <2>5. x \notin Range(F[n])
      BY <1>1, <2>2, RangeOf DEF IsInjective, L
    <2>6. {items[k] : k \in 1 .. n + 1} = {items[k] : k \in 1 .. n} \cup {x}
      <3>1. \A k \in 1 .. n + 1 : k = n + 1 \/ k \in 1 .. n
        OBVIOUS
      <3>2. QED
        BY <3>1
    <2> HIDE DEF x, at
    <2>7. F[n + 1] \in Seq(S)
      BY <2>3, <2>4, InsertAtFacts
    <2>8. Range(F[n + 1]) = Range(F[n]) \cup {x} /\ IsInjective(F[n + 1])
      BY <2>2, <2>3, <2>4, <2>5, InsertKeeps
    <2>9. QED
      BY <2>2, <2>6, <2>7, <2>8 DEF V
  <1> HIDE DEF T
  <1>12. Nat \subseteq T
    BY <1>10, <1>11, NaturalInduction
  <1>13. Good(L)
    <2>1. L \in T /\ L <= L
      BY <1>1, <1>12
    <2> HIDE DEF Good
    <2>2. QED
      BY <2>1 DEF T
  <1>14. Range(items) = {items[k] : k \in 1 .. L}
    BY RangeOf DEF L
  <1>15. QED
    BY <1>3, <1>13, <1>14 DEF V

(* No two items of the list have the same key. *)
Unlike(l) == \A i, j \in DOMAIN l : l[i].key = l[j].key => i = j

LEMMA UnlikeKeys ==
    ASSUME NEW S, NEW all \in Seq(S), Unlike(all), NEW l \in Seq(S), IsInjective(l),
           Range(l) \subseteq Range(all), NEW K, \A i \in Range(l) : i.key \in K
    PROVE  KeysOf(l) \in Seq(K) /\ Range(KeysOf(l)) = {i.key : i \in Range(l)} /\ IsInjective(KeysOf(l))
  <1> DEFINE q == KeysOf(l)
  <1>1. /\ DOMAIN l = 1 .. Len(l) /\ Len(l) \in Nat /\ DOMAIN all = 1 .. Len(all)
        /\ Range(l) = {l[n] : n \in 1 .. Len(l)} /\ Range(all) = {all[n] : n \in 1 .. Len(all)}
    BY RangeOf
  <1>2. q = [n \in 1 .. Len(l) |-> l[n].key]
    BY <1>1 DEF KeysOf
  <1> HIDE DEF q
  <1>3. q \in Seq(K)
    BY <1>1, <1>2
  <1>4. DOMAIN q = 1 .. Len(l) /\ \A n \in 1 .. Len(l) : q[n] = l[n].key
    BY <1>2
  <1>5. Range(q) = {i.key : i \in Range(l)}
    BY <1>1, <1>4 DEF Range
  <1>6. ASSUME NEW i \in 1 .. Len(l), NEW j \in 1 .. Len(l), q[i] = q[j]
        PROVE  i = j
    <2>1. PICK m \in 1 .. Len(all) : l[i] = all[m]
      BY <1>1
    <2>2. PICK n \in 1 .. Len(all) : l[j] = all[n]
      BY <1>1
    <2>3. m = n
      BY <1>1, <1>4, <1>6, <2>1, <2>2 DEF Unlike
    <2>4. QED
      BY <1>1, <2>1, <2>2, <2>3 DEF IsInjective
  <1>7. QED
    BY <1>3, <1>4, <1>5, <1>6 DEF q, IsInjective

LEMMA UnlikeInjective ==
    ASSUME NEW l, Unlike(l)
    PROVE  IsInjective(l)
  BY DEF Unlike, IsInjective

LEMMA BuiltItems ==
    ASSUME NEW S, NEW all \in Seq(S), Unlike(all), NEW order, NEW done, NEW t
    PROVE  LET q == BuildNextUpItems(all, order, done, t)
           IN  /\ q \in Seq(S) /\ IsInjective(q)
               /\ Range(q) = {i \in Range(all) : NextUpDoneKey(i) \notin done}
  <1> DEFINE there == {i \in Range(all) : NextUpDoneKey(i) \notin done}
             some == Filtered(all, there)
             items == Ordered(some, {p \in there \X there : CompareDefault(p[1], p[2])})
             synced == SyncNextUpOrder(order, KeysOf(items))
             q == Ordered(items, {p \in there \X there : CompareOrdered(p[1], p[2], synced, t)})
  <1>1. BuildNextUpItems(all, order, done, t) = q
    BY DEF BuildNextUpItems
  <1> HIDE DEF synced
  <1>2. some \in Seq(S) /\ Range(some) = there /\ IsInjective(some)
    <2>1. there = Range(all) \cap there
      OBVIOUS
    <2> HIDE DEF there
    <2>2. QED
      BY <2>1, FilteredKeeps, UnlikeInjective
  <1> HIDE DEF some
  <1>3. items \in Seq(S) /\ Range(items) = there /\ IsInjective(items)
    BY <1>2, OrderedFacts
  <1> HIDE DEF items
  <1>4. q \in Seq(S) /\ Range(q) = there /\ IsInjective(q)
    BY <1>3, OrderedFacts
  <1> HIDE DEF q
  <1>5. QED
    BY <1>1, <1>4

(* Slack's keys in their places: rank is how many places there are up to n. *)
LEMMA RankFacts ==
    ASSUME NEW places, places \subseteq Nat \ {0}, IsFiniteSet(places)
    PROVE  /\ \A n \in places : Cardinality({p \in places : p <= n}) \in 1 .. Cardinality(places)
           /\ \A m, n \in places : m < n => Cardinality({p \in places : p <= m}) < Cardinality({p \in places : p <= n})
  <1> DEFINE upto(n) == {p \in places : p <= n}
  <1>1. \A n \in places : upto(n) \in SUBSET places /\ n \in upto(n)
    OBVIOUS
  <1>2. \A m, n \in places : m < n => upto(m) \in SUBSET upto(n) /\ n \notin upto(m)
    <2>1. SUFFICES ASSUME NEW m \in places, NEW n \in places, m < n
                   PROVE  upto(m) \in SUBSET upto(n) /\ n \notin upto(m)
      OBVIOUS
    <2>2. m \in Nat /\ n \in Nat /\ \A p \in places : p \in Nat
      OBVIOUS
    <2>3. \A p \in places : p <= m => p <= n
      BY <2>1, <2>2
    <2>4. ~(n <= m)
      BY <2>1, <2>2
    <2>5. QED
      BY <2>3, <2>4
  <1> HIDE DEF upto
  <1>3. \A n \in places : IsFiniteSet(upto(n)) /\ Cardinality(upto(n)) <= Cardinality(places)
    BY <1>1, FS_Subset
  <1>4. Cardinality(places) \in Nat /\ \A n \in places : Cardinality(upto(n)) \in Nat
    BY <1>3, FS_CardinalityType
  <1>5. \A n \in places : Cardinality(upto(n)) # 0
    BY <1>1, <1>3, FS_EmptySet
  <1>6. \A n \in places : Cardinality(upto(n)) \in 1 .. Cardinality(places)
    BY <1>3, <1>4, <1>5
  <1>7. ASSUME NEW m \in places, NEW n \in places, m < n
        PROVE  Cardinality(upto(m)) < Cardinality(upto(n))
    <2>1. upto(m) \in SUBSET upto(n) /\ upto(m) # upto(n)
      BY <1>1, <1>2, <1>7
    <2>2. Cardinality(upto(m)) <= Cardinality(upto(n)) /\ Cardinality(upto(m)) # Cardinality(upto(n))
      BY <1>3, <2>1, FS_Subset
    <2>3. QED
      BY <1>4, <2>2
  <1>8. QED
    BY <1>6, <1>7 DEF upto

LEMMA NormalFacts ==
    ASSUME NEW K, NEW order \in Seq(K), IsInjective(order), NEW keys \in Seq(K), IsInjective(keys),
           Range(order) \subseteq Range(keys)
    PROVE  LET r == NormalizeSlackNextUpOrder(order, keys)
           IN  /\ r \in Seq(K) /\ IsInjective(r) /\ Range(r) = Range(order) /\ Len(r) = Len(order)
               /\ NormalizeSlackNextUpOrder(r, keys) = r
               /\ \A a, b : a[1] # "slack" /\ b[1] # "slack" /\ InOrder(order, a, b) => InOrder(r, a, b)
  <1> DEFINE D == 1 .. Len(order)
             places == {n \in DOMAIN order : order[n][1] = "slack"}
             wanted == {k \in Range(order) : k[1] = "slack"}
             sorted == Filtered(keys, wanted)
             rank(n) == Cardinality({p \in places : p <= n})
             r == NormalizeSlackNextUpOrder(order, keys)
             again == NormalizeSlackNextUpOrder(r, keys)
  <1>1. /\ Len(order) \in Nat /\ DOMAIN order = D /\ Range(order) = {order[n] : n \in D}
        /\ \A n \in D : order[n] \in K /\ order[n] \in Range(order)
        /\ \A m, n \in D : order[m] = order[n] => m = n
    BY RangeOf DEF IsInjective
  <1>2. r = [n \in D |-> IF n \in places THEN sorted[rank(n)] ELSE order[n]]
    BY <1>1 DEF NormalizeSlackNextUpOrder
  <1>3. places \subseteq D /\ places \subseteq Nat \ {0} /\ \A n \in D : n \in places <=> order[n] \in wanted
    BY <1>1
  <1>4. wanted = {order[n] : n \in places} /\ wanted \subseteq Range(order) /\ \A k \in wanted : k[1] = "slack"
    BY <1>1
  <1>5. \A n \in D : n \in places <=> order[n][1] = "slack"
    BY <1>1
  <1>6. sorted \in Seq(K) /\ Range(sorted) = wanted /\ IsInjective(sorted)
    <2>1. wanted = Range(keys) \cap wanted
      BY <1>4
    <2> HIDE DEF wanted
    <2>2. QED
      BY <2>1, FilteredKeeps
  <1>7. r = [n \in DOMAIN order |->
                IF n \in places THEN Filtered(keys, wanted)[Cardinality({p \in places : p <= n})] ELSE order[n]]
    BY <1>1, <1>2
  <1> HIDE DEF r, places, wanted, sorted
  <1>8. IsFiniteSet(places) /\ Cardinality(places) = Len(sorted)
    <2> DEFINE f == [n \in places |-> order[n]]
    <2>1. IsFiniteSet(places)
      <3>1. IsFiniteSet(D)
        BY <1>1, FirstNumbers
      <3> HIDE DEF D
      <3>2. QED
        BY <1>3, <3>1, FS_Subset
    <2>2. f \in [places -> wanted] /\ \A m, n \in places : f[m] = f[n] => m = n
      BY <1>1, <1>3
    <2>3. \A k \in wanted : \E n \in places : f[n] = k
      BY <1>4
    <2> HIDE DEF f
    <2>4. f \in Bijection(places, wanted)
      BY <2>2, <2>3 DEF Bijection, Injection, Surjection, IsInjective
    <2>5. Cardinality(places) = Cardinality(wanted)
      BY <2>1, <2>4, FS_Bijection DEF ExistsBijection
    <2>6. QED
      BY <1>6, <2>1, <2>5, SizeOf
  <1>9. /\ \A n \in places : rank(n) \in 1 .. Len(sorted)
        /\ \A m, n \in places : m < n => rank(m) < rank(n)
    BY <1>3, <1>8, RankFacts
  <1> HIDE DEF rank
  <1>10. \A m, n \in places : rank(m) = rank(n) => m = n
    <2>1. SUFFICES ASSUME NEW m \in places, NEW n \in places, rank(m) = rank(n) PROVE m = n
      OBVIOUS
    <2>2. m \in Nat /\ n \in Nat /\ rank(m) \in Nat
      BY <1>3, <1>9
    <2>3. ~(m < n) /\ ~(n < m)
      BY <1>9, <2>1, <2>2
    <2>4. QED
      BY <2>2, <2>3
  <1>11. /\ DOMAIN sorted = 1 .. Len(sorted) /\ \A i \in 1 .. Len(sorted) : sorted[i] \in wanted
         /\ \A i, j \in 1 .. Len(sorted) : sorted[i] = sorted[j] => i = j
    BY <1>6, RangeOf DEF IsInjective
  <1>12. /\ \A n \in places : r[n] = sorted[rank(n)] /\ r[n] \in wanted
         /\ \A n \in D \ places : r[n] = order[n] /\ r[n] \notin wanted
         /\ \A n \in D : r[n] \in Range(order)
    BY <1>1, <1>2, <1>3, <1>4, <1>9, <1>11
  <1>13. r \in Seq(K) /\ Len(r) = Len(order) /\ DOMAIN r = D
    <2>1. \A n \in D : r[n] \in K
      BY <1>1, <1>12
    <2>2. r = [n \in 1 .. Len(order) |-> r[n]]
      BY <1>2
    <2>3. QED
      BY <1>1, <2>1, <2>2
  <1>14. IsInjective(r)
    <2>1. SUFFICES ASSUME NEW m \in D, NEW n \in D, r[m] = r[n] PROVE m = n
      BY <1>13 DEF IsInjective
    <2>2. CASE m \in places /\ n \in places
      BY <1>9, <1>10, <1>11, <1>12, <2>1, <2>2
    <2>3. CASE m \notin places /\ n \notin places
      BY <1>1, <1>12, <2>1, <2>3
    <2>4. QED
      BY <1>12, <2>1, <2>2, <2>3
  <1>15. Range(r) = Range(order)
    <2>1. Range(r) \in SUBSET Range(order)
      BY <1>12, <1>13, RangeOf
    <2>2. Cardinality(Range(r)) = Cardinality(Range(order)) /\ IsFiniteSet(Range(order))
      BY <1>13, <1>14, SizeOf
    <2>3. QED
      BY <2>1, <2>2, FS_Subset
  <1>16. again = r
    <2>1. {n \in DOMAIN r : r[n][1] = "slack"} = places
      <3>1. \A n \in D \ places : r[n][1] # "slack"
        BY <1>5, <1>12
      <3>2. \A n \in places : n \in D /\ r[n][1] = "slack"
        BY <1>3, <1>4, <1>12
      <3>3. QED
        BY <1>13, <3>1, <3>2
    <2>2. {k \in Range(r) : k[1] = "slack"} = wanted
      BY <1>15 DEF wanted
    <2>3. again = [n \in DOMAIN r |->
                      IF n \in places THEN Filtered(keys, wanted)[Cardinality({p \in places : p <= n})] ELSE r[n]]
      BY <2>1, <2>2 DEF NormalizeSlackNextUpOrder
    <2>4. again = [n \in D |-> IF n \in places THEN sorted[rank(n)] ELSE r[n]]
      BY <1>13, <2>3 DEF sorted, rank
    <2>5. \A n \in D : (IF n \in places THEN sorted[rank(n)] ELSE r[n]) = r[n]
      BY <1>12
    <2>6. r = [n \in D |-> r[n]]
      BY <1>2
    <2> HIDE DEF again, D
    <2>7. QED
      BY <2>4, <2>5, <2>6
  <1>17. ASSUME NEW a, NEW b, a[1] # "slack", b[1] # "slack", InOrder(order, a, b)
         PROVE  InOrder(r, a, b)
    <2>1. PICK i \in D, j \in D : i < j /\ order[i] = a /\ order[j] = b
      BY <1>1, <1>17 DEF InOrder
    <2>2. r[i] = a /\ r[j] = b
      BY <1>5, <1>12, <1>17, <2>1
    <2>3. QED
      BY <1>13, <2>1, <2>2 DEF InOrder
  <1>18. QED
    BY <1>13, <1>14, <1>15, <1>16, <1>17 DEF r

LEMMA InsertPlace ==
    ASSUME NEW K, NEW l \in Seq(K), NEW key, NEW keys
    PROVE  \E at \in 1 .. Len(l) + 1 : InsertedByDefault(l, key, keys) = InsertAt(l, at, key)
  <1> DEFINE later == {n \in DOMAIN l : Position(keys, l[n]) > Position(keys, key)}
             at == IF later = {} THEN Len(l) + 1 ELSE CHOOSE n \in later : \A k \in later : n <= k
  <1>1. InsertedByDefault(l, key, keys) = InsertAt(l, at, key)
    BY DEF InsertedByDefault
  <1>2. Len(l) \in Nat /\ later \subseteq 1 .. Len(l) /\ later \subseteq Nat
    OBVIOUS
  <1> HIDE DEF later
  <1>3. later = {} => at \in 1 .. Len(l) + 1
    BY <1>2
  <1>4. ASSUME later # {}
        PROVE  at \in 1 .. Len(l) + 1
    <2>1. \E n \in later : \A k \in later : n <= k
      BY <1>2, <1>4, LeastNatural
    <2>2. at \in later
      BY <1>4, <2>1
    <2> HIDE DEF at
    <2>3. at \in 1 .. Len(l)
      BY <1>2, <2>2
    <2>4. QED
      BY <1>2, <2>3
  <1> HIDE DEF at
  <1>5. at \in 1 .. Len(l) + 1
    BY <1>3, <1>4
  <1>6. QED
    BY <1>1, <1>5

(* What comes is put in, before the normalization. *)
Merged(kept, missing, keys) ==
    LET after[n \in 0 .. Len(missing)] ==
            IF n = 0 THEN kept ELSE InsertedByDefault(after[n - 1], missing[n], keys)
    IN  after[Len(missing)]

MergeOf(q, kept, missing, K) ==
    /\ q \in Seq(K) /\ IsInjective(q) /\ Range(q) = Range(kept) \cup Range(missing)
    /\ \A a, b : InOrder(kept, a, b) => InOrder(q, a, b)
    /\ missing = <<>> => q = kept

LEMMA MergedFacts ==
    ASSUME NEW K, NEW kept \in Seq(K), IsInjective(kept), NEW missing \in Seq(K), IsInjective(missing),
           Range(kept) \cap Range(missing) = {}, NEW keys
    PROVE  MergeOf(Merged(kept, missing, keys), kept, missing, K)
  <1> DEFINE L == Len(missing)
             V == Seq(K)
             Put(l, n) == InsertedByDefault(l, missing[n], keys)
             FoldsTo(f) == f = [n \in 0 .. L |-> IF n = 0 THEN kept ELSE Put(f[n - 1], n)]
             F == CHOOSE f : FoldsTo(f)
             G == [p \in V \X (1 .. L) |-> Put(p[1], p[2])]
  <1>1. /\ L \in Nat /\ kept \in V /\ \A n \in 1 .. L : missing[n] \in K
        /\ DOMAIN missing = 1 .. L /\ Range(missing) = {missing[n] : n \in 1 .. L}
        /\ \A m, n \in 1 .. L : missing[m] = missing[n] => m = n
    BY RangeOf DEF IsInjective
  <1>2. Merged(kept, missing, keys) = F[L]
    BY DEF Merged
  <1>3. \A l \in V, n \in 1 .. L : \E at \in 1 .. Len(l) + 1 : Put(l, n) = InsertAt(l, at, missing[n])
    BY InsertPlace
  <1>4. missing = <<>> => L = 0
    OBVIOUS
  <1> HIDE DEF Put
  <1>5. \A l \in V, n \in 1 .. L : Put(l, n) \in V
    BY <1>1, <1>3, InsertAtFacts
  <1>6. G \in [V \X (1 .. L) -> V] /\ \A l \in V, n \in 1 .. L : G[<<l, n>>] = Put(l, n)
    BY <1>5
  <1> HIDE DEF G, V, L
  <1>7. PICK f : f \in [0 .. L -> V] /\ f[0] = kept /\ \A n \in 1 .. L : f[n] = G[<<f[n - 1], n>>]
    <2>1. \E f : FoldOf(f, L, V, kept, G)
      BY <1>1, <1>6, Folded
    <2>2. QED
      BY <2>1 DEF FoldOf
  <1>8. FoldsTo(f)
    <2>1. ASSUME NEW n \in 0 .. L
          PROVE  f[n] = IF n = 0 THEN kept ELSE Put(f[n - 1], n)
      <3>1. CASE n = 0
        BY <1>7, <3>1
      <3>2. CASE n # 0
        <4>1. n \in 1 .. L /\ n - 1 \in 0 .. L
          BY <1>1, <3>2
        <4>2. QED
          BY <1>6, <1>7, <3>2, <4>1
      <3>3. QED
        BY <3>1, <3>2
    <2>2. f = [n \in 0 .. L |-> f[n]]
      BY <1>7
    <2>3. QED
      BY <2>1, <2>2
  <1>9. FoldsTo(F)
    BY <1>8
  <1> HIDE DEF F
  <1>10. F[0] = kept /\ \A n \in 1 .. L : F[n] = Put(F[n - 1], n)
    <2>1. \A n \in 0 .. L : F[n] = IF n = 0 THEN kept ELSE Put(F[n - 1], n)
      BY <1>9
    <2>2. 0 \in 0 .. L /\ \A n \in 1 .. L : n \in 0 .. L /\ n # 0
      BY <1>1
    <2>3. QED
      BY <2>1, <2>2
  <1> HIDE DEF FoldsTo
  <1> DEFINE Good(n) == /\ F[n] \in V /\ IsInjective(F[n])
                        /\ Range(F[n]) = Range(kept) \cup {missing[k] : k \in 1 .. n}
                        /\ \A a, b : InOrder(kept, a, b) => InOrder(F[n], a, b)
             T == {n \in Nat : n <= L => Good(n)}
  <1>11. 0 \in T
    BY <1>1, <1>10
  <1>12. ASSUME NEW n \in Nat, n \in T
         PROVE  n + 1 \in T
    <2>1. SUFFICES ASSUME n + 1 <= L PROVE Good(n + 1)
      OBVIOUS
    <2>2. Good(n) /\ n + 1 \in 1 .. L
      BY <1>1, <1>12, <2>1
    <2> DEFINE x == missing[n + 1]
    <2>3. PICK at \in 1 .. Len(F[n]) + 1 : F[n + 1] = InsertAt(F[n], at, x)
      <3>1. (n + 1) - 1 = n
        OBVIOUS
      <3>2. F[n + 1] = Put(F[n], n + 1)
        BY <1>10, <2>2, <3>1
      <3>3. QED
        BY <1>3, <2>2, <3>2
    <2>4. x \in K /\ F[n] \in Seq(K)
      BY <1>1, <2>2 DEF V
    <2>5. x \notin Range(F[n])
      BY <1>1, <2>2
    <2>6. {missing[k] : k \in 1 .. n + 1} = {missing[k] : k \in 1 .. n} \cup {x}
      <3>1. \A k \in 1 .. n + 1 : k = n + 1 \/ k \in 1 .. n
        OBVIOUS
      <3>2. QED
        BY <3>1
    <2> HIDE DEF x
    <2>7. F[n + 1] \in Seq(K)
      BY <2>3, <2>4, InsertAtFacts
    <2>8. /\ Range(F[n + 1]) = Range(F[n]) \cup {x} /\ IsInjective(F[n + 1])
          /\ \A a, b : InOrder(F[n], a, b) => InOrder(F[n + 1], a, b)
      BY <2>2, <2>3, <2>4, <2>5, InsertKeeps
    <2>9. QED
      BY <2>2, <2>6, <2>7, <2>8 DEF V
  <1> HIDE DEF T
  <1>13. Nat \subseteq T
    BY <1>11, <1>12, NaturalInduction
  <1>14. Good(L)
    <2>1. L \in T /\ L <= L
      BY <1>1, <1>13
    <2> HIDE DEF Good
    <2>2. QED
      BY <2>1 DEF T
  <1>15. missing = <<>> => F[L] = kept
    BY <1>4, <1>10 DEF L
  <1>16. QED
    BY <1>1, <1>2, <1>14, <1>15 DEF V, MergeOf

LEMMA SyncFacts ==
    ASSUME NEW K, NEW order \in Seq(K), IsInjective(order), NEW keys \in Seq(K), IsInjective(keys)
    PROVE  LET r == SyncNextUpOrder(order, keys)
           IN  /\ r \in Seq(K) /\ IsInjective(r) /\ Range(r) = Range(keys) /\ Len(r) = Len(keys)
               /\ SyncNextUpOrder(r, keys) = r
               /\ \A a, b \in Range(keys) :
                     a[1] # "slack" /\ b[1] # "slack" /\ InOrder(order, a, b) => InOrder(r, a, b)
  <1> DEFINE There == Range(keys)
             kept == Filtered(order, There)
             missing == Filtered(keys, There \ Range(kept))
             merged == Merged(kept, missing, keys)
             r == NormalizeSlackNextUpOrder(merged, keys)
  <1>1. SyncNextUpOrder(order, keys) = r
    BY DEF SyncNextUpOrder, Merged
  <1>2. /\ kept \in Seq(K) /\ IsInjective(kept) /\ Range(kept) \subseteq There
        /\ \A a, b \in There : InOrder(order, a, b) => InOrder(kept, a, b)
    <2> HIDE DEF There
    <2>1. QED
      BY FilteredKeeps
  <1> HIDE DEF kept
  <1>3. missing \in Seq(K) /\ IsInjective(missing) /\ Range(missing) = There \ Range(kept)
    <2>1. Range(keys) \cap (There \ Range(kept)) = There \ Range(kept)
      OBVIOUS
    <2>2. QED
      BY <2>1, FilteredKeeps
  <1> HIDE DEF missing
  <1>4. /\ merged \in Seq(K) /\ IsInjective(merged) /\ Range(merged) = There
        /\ \A a, b : InOrder(kept, a, b) => InOrder(merged, a, b)
    <2>1. Range(kept) \cap Range(missing) = {} /\ Range(kept) \cup Range(missing) = There
      BY <1>2, <1>3
    <2>2. MergeOf(Merged(kept, missing, keys), kept, missing, K)
      BY <1>2, <1>3, <2>1, MergedFacts
    <2>3. MergeOf(merged, kept, missing, K)
      BY <2>2
    <2> HIDE DEF merged
    <2>4. QED
      BY <2>1, <2>3 DEF MergeOf
  <1> HIDE DEF merged
  <1>5. /\ r \in Seq(K) /\ IsInjective(r) /\ Range(r) = There
        /\ NormalizeSlackNextUpOrder(r, keys) = r
        /\ \A a, b : a[1] # "slack" /\ b[1] # "slack" /\ InOrder(merged, a, b) => InOrder(r, a, b)
    BY <1>4, NormalFacts
  <1> HIDE DEF r
  <1>6. Len(r) = Len(keys)
    BY <1>5, SizeOf
  <1>7. SyncNextUpOrder(r, keys) = r
    <2>1. Filtered(r, There) = r
      BY <1>5, FilteredAll
    <2>2. Filtered(keys, There \ Range(r)) = <<>>
      BY <1>5, FilteredNone
    <2> DEFINE none == <<>>
    <2>3. none \in Seq(K) /\ IsInjective(none) /\ Range(none) = {}
      BY DEF IsInjective, Range
    <2>4. SyncNextUpOrder(r, keys) = NormalizeSlackNextUpOrder(Merged(r, none, keys), keys)
      BY <2>1, <2>2 DEF SyncNextUpOrder, Merged
    <2>5. Merged(r, none, keys) = r
      <3>1. Range(r) \cap Range(none) = {}
        BY <2>3
      <3> HIDE DEF none
      <3>2. MergeOf(Merged(r, none, keys), r, none, K)
        BY <1>5, <2>3, <3>1, MergedFacts
      <3>3. QED
        BY <3>2 DEF MergeOf, none
    <2>6. QED
      BY <1>5, <2>4, <2>5
  <1>8. ASSUME NEW a \in There, NEW b \in There, a[1] # "slack", b[1] # "slack", InOrder(order, a, b)
        PROVE  InOrder(r, a, b)
    BY <1>2, <1>4, <1>5, <1>8
  <1>9. QED
    BY <1>1, <1>5, <1>6, <1>7, <1>8

-----------------------------------------------------------------------------
(* What the list is made of. *)

SessionRec == [id : Sessions, status : Statuses \cup {"starting"}, lastActivity : Nat]
TaskRec == [id : Manual, createdAt : Nat, priority : {0, 1}]
NoteRec == [id : Slack, receivedAt : Nat, rank : {0, 4}]

ItemSet ==
    {SessionToNextUp(x) : x \in SessionRec} \cup {ManualTaskToNextUp(x) : x \in TaskRec}
        \cup {GoogleCalendarEventToNextUp(p[1], p[2]) : p \in Range(Events) \X Nat}
        \cup {SlackNotificationToNextUp(x) : x \in NoteRec}

KeySet ==
    {"session", "manual", "calendar", "slack"}
        \X (Sessions \cup Manual \cup Slack \cup {e.id : e \in Range(Events)})

LEMMA ItemKeys ==
    /\ \A x \in SessionRec : SessionToNextUp(x).key = <<"session", x.id>>
    /\ \A x \in TaskRec : ManualTaskToNextUp(x).key = <<"manual", x.id>>
    /\ \A t : \A e \in Range(Events) : GoogleCalendarEventToNextUp(e, t).key = <<"calendar", e.id>>
    /\ \A x \in NoteRec : SlackNotificationToNextUp(x).key = <<"slack", x.id>>
  BY DEF SessionToNextUp, ManualTaskToNextUp, GoogleCalendarEventToNextUp, SlackNotificationToNextUp, Item

LEMMA ItemHasKey ==
    ASSUME NEW i \in ItemSet
    PROVE  i.key \in KeySet
  <1> DEFINE Ids == Sessions \cup Manual \cup Slack \cup {e.id : e \in Range(Events)}
  <1>1. \A x \in Ids : \A s \in {"session", "manual", "calendar", "slack"} : <<s, x>> \in KeySet
    BY DEF KeySet
  <1> HIDE DEF Ids
  <1>2. ASSUME NEW x \in SessionRec, i = SessionToNextUp(x) PROVE i.key \in KeySet
    <2>1. x.id \in Ids
      BY DEF SessionRec, Ids
    <2>2. QED
      BY <1>1, <1>2, <2>1, ItemKeys
  <1>3. ASSUME NEW x \in TaskRec, i = ManualTaskToNextUp(x) PROVE i.key \in KeySet
    <2>1. x.id \in Ids
      BY DEF TaskRec, Ids
    <2>2. QED
      BY <1>1, <1>3, <2>1, ItemKeys
  <1>4. ASSUME NEW p \in Range(Events) \X Nat, i = GoogleCalendarEventToNextUp(p[1], p[2])
        PROVE  i.key \in KeySet
    <2>1. p[1] \in Range(Events) /\ p[1].id \in Ids
      BY DEF Ids
    <2>2. QED
      BY <1>1, <1>4, <2>1, ItemKeys
  <1>5. ASSUME NEW x \in NoteRec, i = SlackNotificationToNextUp(x) PROVE i.key \in KeySet
    <2>1. x.id \in Ids
      BY DEF NoteRec, Ids
    <2>2. QED
      BY <1>1, <1>5, <2>1, ItemKeys
  <1>6. QED
    BY <1>2, <1>3, <1>4, <1>5 DEF ItemSet

LEMMA Joined ==
    ASSUME NEW S, NEW a \in Seq(S), Unlike(a), NEW b \in Seq(S), Unlike(b),
           \A x \in Range(a), y \in Range(b) : x.key # y.key
    PROVE  a \o b \in Seq(S) /\ Unlike(a \o b) /\ Range(a \o b) = Range(a) \cup Range(b)
  <1> DEFINE q == a \o b
             m == Len(a)
             n == Len(b)
  <1>1. /\ DOMAIN a = 1 .. m /\ m \in Nat /\ DOMAIN b = 1 .. n /\ n \in Nat
        /\ Range(a) = {a[i] : i \in 1 .. m} /\ Range(b) = {b[i] : i \in 1 .. n}
    BY RangeOf
  <1>2. q \in Seq(S) /\ Len(q) = m + n
    OBVIOUS
  <1>3. (\A i \in 1 .. m : q[i] = a[i]) /\ (\A i \in 1 .. n : q[m + i] = b[i])
    OBVIOUS
  <1> HIDE DEF q, m, n
  <1>4. DOMAIN q = 1 .. m + n /\ Range(q) = {q[i] : i \in 1 .. m + n}
    BY <1>2, RangeOf
  <1>5. \A i \in 1 .. m + n : i \in 1 .. m \/ \E j \in 1 .. n : i = m + j
    <2>1. SUFFICES ASSUME NEW i \in 1 .. m + n, i \notin 1 .. m PROVE \E j \in 1 .. n : i = m + j
      OBVIOUS
    <2>2. i - m \in 1 .. n /\ i = m + (i - m)
      BY <1>1, <2>1
    <2>3. QED
      BY <2>2
  <1>6. \A i \in 1 .. m : i \in 1 .. m + n
    BY <1>1
  <1>7. \A i \in 1 .. n : m + i \in 1 .. m + n
    BY <1>1
  <1>8. Range(q) = Range(a) \cup Range(b)
    <2> DEFINE I == 1 .. m + n
               M == 1 .. m
               N == 1 .. n
    <2>1. /\ \A i \in I : i \in M \/ \E j \in N : i = m + j
          /\ \A i \in M : i \in I /\ q[i] = a[i]
          /\ \A i \in N : m + i \in I /\ q[m + i] = b[i]
          /\ Range(a) = {a[i] : i \in M} /\ Range(b) = {b[i] : i \in N} /\ Range(q) = {q[i] : i \in I}
      BY <1>1, <1>3, <1>4, <1>5, <1>6, <1>7
    <2> HIDE DEF I, M, N
    <2>2. ASSUME NEW x \in Range(q) PROVE x \in Range(a) \cup Range(b)
      <3>1. PICK i \in I : x = q[i]
        BY <2>1
      <3>2. QED
        BY <2>1, <3>1
    <2>3. ASSUME NEW x \in Range(a) \cup Range(b) PROVE x \in Range(q)
      BY <2>1
    <2>4. QED
      BY <2>2, <2>3
  <1>9. ASSUME NEW i \in 1 .. m + n, NEW j \in 1 .. m + n, q[i].key = q[j].key
        PROVE  i = j
    <2>1. CASE i \in 1 .. m /\ j \in 1 .. m
      BY <1>1, <1>3, <1>9, <2>1 DEF Unlike
    <2>2. CASE i \notin 1 .. m /\ j \notin 1 .. m
      <3>1. PICK k \in 1 .. n : i = m + k
        BY <1>5, <2>2
      <3>2. PICK l \in 1 .. n : j = m + l
        BY <1>5, <2>2
      <3>3. b[k].key = b[l].key
        BY <1>3, <1>9, <3>1, <3>2
      <3>4. k = l
        BY <1>1, <3>3 DEF Unlike
      <3>5. QED
        BY <3>1, <3>2, <3>4
    <2>3. CASE i \in 1 .. m /\ j \notin 1 .. m
      <3>1. PICK l \in 1 .. n : j = m + l
        BY <1>5, <2>3
      <3>2. q[i] \in Range(a) /\ q[j] \in Range(b)
        BY <1>1, <1>3, <2>3, <3>1
      <3>3. QED
        BY <1>9, <3>2
    <2>4. CASE i \notin 1 .. m /\ j \in 1 .. m
      <3>1. PICK l \in 1 .. n : i = m + l
        BY <1>5, <2>4
      <3>2. q[j] \in Range(a) /\ q[i] \in Range(b)
        BY <1>1, <1>3, <2>4, <3>1
      <3>3. QED
        BY <1>9, <3>2
    <2>5. QED
      BY <2>1, <2>2, <2>3, <2>4
  <1>10. Unlike(q)
    BY <1>4, <1>9 DEF Unlike
  <1>11. QED
    BY <1>2, <1>8, <1>10 DEF q

(* One source: its items' keys are <<source, id>>. *)
FromSource(m, source) == m \in Seq(ItemSet) /\ Unlike(m) /\ \A x \in Range(m) : x.key[1] = source

LEMMA OneSource ==
    ASSUME NEW R, NEW l \in Seq(R), Distinct(l), NEW source, NEW m,
           DOMAIN m = DOMAIN l, m = [n \in DOMAIN m |-> m[n]],
           \A n \in DOMAIN l : m[n] \in ItemSet /\ m[n].key = <<source, l[n].id>>
    PROVE  FromSource(m, source)
  <1>1. DOMAIN l = 1 .. Len(l) /\ Len(l) \in Nat
    BY RangeOf
  <1>2. m \in Seq(ItemSet)
    BY <1>1
  <1>3. ASSUME NEW i \in DOMAIN m, NEW j \in DOMAIN m, m[i].key = m[j].key
        PROVE  i = j
    <2>1. <<source, l[i].id>> = <<source, l[j].id>>
      BY <1>3
    <2>2. l[i].id = l[j].id
      BY <2>1
    <2>3. QED
      BY <2>2 DEF Distinct
  <1>4. \A x \in Range(m) : x.key[1] = source
    BY DEF Range
  <1>5. QED
    BY <1>2, <1>3, <1>4 DEF Unlike, FromSource

LEMMA InputFacts ==
    ASSUME now \in Nat, NEW ss \in Seq(SessionRec), Distinct(ss), NEW ms \in Seq(TaskRec), Distinct(ms),
           NEW ns \in Seq(NoteRec), Distinct(ns)
    PROVE  Input(ss, ms, ns) \in Seq(ItemSet) /\ Unlike(Input(ss, ms, ns))
  <1> DEFINE today == Filtered(Events, {e \in Range(Events) : IsCalendarEventVisibleToday(e, now)})
             a == [n \in DOMAIN ss |-> SessionToNextUp(ss[n])]
             b == [n \in DOMAIN ms |-> ManualTaskToNextUp(ms[n])]
             c == [n \in DOMAIN today |-> GoogleCalendarEventToNextUp(today[n], now)]
             d == [n \in DOMAIN ns |-> SlackNotificationToNextUp(ns[n])]
  <1>1. Input(ss, ms, ns) = (a \o b) \o (c \o d)
    BY DEF Input, Map
  <1>2. today \in Seq(Range(Events)) /\ Distinct(today)
    <2> DEFINE keep == {e \in Range(Events) : IsCalendarEventVisibleToday(e, now)}
    <2> HIDE DEF keep
    <2>1. Events \in Seq(Range(Events)) /\ Distinct(Events)
      BY BackendNextUpAssumption DEF Distinct
    <2>2. Filtered(Events, keep) \in Seq(Range(Events)) /\ Distinct(Filtered(Events, keep))
      BY <2>1, FilteredKeeps
    <2>3. QED
      BY <2>2 DEF keep
  <1> HIDE DEF today
  <1>3. FromSource(a, "session")
    <2>1. \A n \in DOMAIN ss : ss[n] \in SessionRec
      OBVIOUS
    <2>2. \A n \in DOMAIN ss : a[n] \in ItemSet /\ a[n].key = <<"session", ss[n].id>>
      BY <2>1, ItemKeys DEF ItemSet
    <2>3. DOMAIN a = DOMAIN ss /\ a = [n \in DOMAIN a |-> a[n]]
      OBVIOUS
    <2> HIDE DEF a
    <2>4. QED
      BY <2>2, <2>3, OneSource
  <1>4. FromSource(b, "manual")
    <2>1. \A n \in DOMAIN ms : ms[n] \in TaskRec
      OBVIOUS
    <2>2. \A n \in DOMAIN ms : b[n] \in ItemSet /\ b[n].key = <<"manual", ms[n].id>>
      BY <2>1, ItemKeys DEF ItemSet
    <2>3. DOMAIN b = DOMAIN ms /\ b = [n \in DOMAIN b |-> b[n]]
      OBVIOUS
    <2> HIDE DEF b
    <2>4. QED
      BY <2>2, <2>3, OneSource
  <1>5. FromSource(c, "calendar")
    <2>1. \A n \in DOMAIN today : today[n] \in Range(Events)
      BY <1>2
    <2>2. \A n \in DOMAIN today : c[n] \in ItemSet /\ c[n].key = <<"calendar", today[n].id>>
      <3>1. \A n \in DOMAIN today : <<today[n], now>> \in Range(Events) \X Nat
        BY <2>1
      <3>2. \A e \in Range(Events) : <<e, now>> \in Range(Events) \X Nat => GoogleCalendarEventToNextUp(e, now) \in ItemSet
        BY DEF ItemSet
      <3>3. QED
        BY <2>1, <3>1, <3>2, ItemKeys
    <2>3. DOMAIN c = DOMAIN today /\ c = [n \in DOMAIN c |-> c[n]]
      OBVIOUS
    <2> HIDE DEF c
    <2>4. QED
      BY <1>2, <2>2, <2>3, OneSource
  <1>6. FromSource(d, "slack")
    <2>1. \A n \in DOMAIN ns : ns[n] \in NoteRec
      OBVIOUS
    <2>2. \A n \in DOMAIN ns : d[n] \in ItemSet /\ d[n].key = <<"slack", ns[n].id>>
      BY <2>1, ItemKeys DEF ItemSet
    <2>3. DOMAIN d = DOMAIN ns /\ d = [n \in DOMAIN d |-> d[n]]
      OBVIOUS
    <2> HIDE DEF d
    <2>4. QED
      BY <2>2, <2>3, OneSource
  <1> DEFINE ab == a \o b
             cd == c \o d
             all == ab \o cd
  <1>7. Input(ss, ms, ns) = all
    BY <1>1
  <1> HIDE DEF a, b, c, d
  <1> USE DEF FromSource
  <1>8. ab \in Seq(ItemSet) /\ Unlike(ab) /\ Range(ab) = Range(a) \cup Range(b)
    <2>1. \A x \in Range(a), y \in Range(b) : x.key # y.key
      BY <1>3, <1>4
    <2>2. QED
      BY <1>3, <1>4, <2>1, Joined
  <1>9. cd \in Seq(ItemSet) /\ Unlike(cd) /\ Range(cd) = Range(c) \cup Range(d)
    <2>1. \A x \in Range(c), y \in Range(d) : x.key # y.key
      BY <1>5, <1>6
    <2>2. QED
      BY <1>5, <1>6, <2>1, Joined
  <1> HIDE DEF ab, cd
  <1>10. all \in Seq(ItemSet) /\ Unlike(all)
    <2>1. \A x \in Range(ab), y \in Range(cd) : x.key # y.key
      BY <1>3, <1>4, <1>5, <1>6, <1>8, <1>9
    <2>2. QED
      BY <1>8, <1>9, <2>1, Joined
  <1> HIDE DEF all
  <1>11. QED
    BY <1>7, <1>10

(* The state of the list that is computed from what there is. *)
StateOf(q, all, order, done, t) ==
    /\ q = [order |-> q.order, done |-> q.done]
    /\ q.order \in Seq(KeySet) /\ IsInjective(q.order) /\ Len(q.order) = Len(all)
    /\ Range(q.order) = {i.key : i \in Range(all)}
    /\ q.done = done \cap {NextUpDoneKey(i) : i \in Range(all)}
    /\ NextUpState(all, q.order, q.done, t) = q
    /\ \A a, b \in Range(q.order) :
          a[1] # "slack" /\ b[1] # "slack" /\ InOrder(order, a, b) => InOrder(q.order, a, b)

LEMMA NextUpStateFacts ==
    ASSUME NEW all \in Seq(ItemSet), Unlike(all), NEW order \in Seq(KeySet), IsInjective(order),
           NEW done, NEW t
    PROVE  StateOf(NextUpState(all, order, done, t), all, order, done, t)
  <1> DEFINE available == BuildNextUpItems(all, <<>>, {}, t)
             keys == KeysOf(available)
             marks == {NextUpDoneKey(i) : i \in Range(available)}
             o == SyncNextUpOrder(order, keys)
             q == [order |-> o, done |-> done \cap marks]
  <1>1. NextUpState(all, order, done, t) = q
    BY DEF NextUpState
  <1>2. \A x, y : NextUpState(all, x, y, t) = [order |-> SyncNextUpOrder(x, keys), done |-> y \cap marks]
    BY DEF NextUpState
  <1>3. available \in Seq(ItemSet) /\ IsInjective(available) /\ Range(available) = Range(all)
    <2> DEFINE none == {}
    <2>1. Range(all) = {i \in Range(all) : NextUpDoneKey(i) \notin none}
      OBVIOUS
    <2>2. LET r == BuildNextUpItems(all, <<>>, none, t)
          IN  /\ r \in Seq(ItemSet) /\ IsInjective(r)
              /\ Range(r) = {i \in Range(all) : NextUpDoneKey(i) \notin none}
      BY BuiltItems
    <2>3. QED
      BY <2>1, <2>2
  <1> HIDE DEF available
  <1>4. keys \in Seq(KeySet) /\ IsInjective(keys) /\ Range(keys) = {i.key : i \in Range(all)}
    <2>1. \A i \in Range(available) : i.key \in KeySet
      BY <1>3, RangeOf, ItemHasKey
    <2>2. QED
      BY <1>3, <2>1, UnlikeKeys
  <1>5. Len(keys) = Len(all)
    <2>1. Len(keys) = Len(available)
      BY <1>3 DEF KeysOf
    <2>2. Len(available) = Len(all)
      BY <1>3, SizeOf, UnlikeInjective
    <2>3. QED
      BY <2>1, <2>2
  <1>6. marks = {NextUpDoneKey(i) : i \in Range(all)}
    BY <1>3
  <1> HIDE DEF keys, marks
  <1>7. /\ o \in Seq(KeySet) /\ IsInjective(o) /\ Range(o) = Range(keys) /\ Len(o) = Len(keys)
        /\ SyncNextUpOrder(o, keys) = o
        /\ \A a, b \in Range(keys) :
              a[1] # "slack" /\ b[1] # "slack" /\ InOrder(order, a, b) => InOrder(o, a, b)
    BY <1>4, SyncFacts
  <1> HIDE DEF o
  <1>8. q.order = o /\ q.done = done \cap marks
    OBVIOUS
  <1>9. NextUpState(all, q.order, q.done, t) = q
    <2>1. (done \cap marks) \cap marks = done \cap marks
      OBVIOUS
    <2>2. QED
      BY <1>2, <1>7, <1>8, <2>1
  <1>10. q = [order |-> q.order, done |-> q.done]
    OBVIOUS
  <1> HIDE DEF q
  <1>11. StateOf(q, all, order, done, t)
    BY <1>4, <1>5, <1>6, <1>7, <1>8, <1>9, <1>10 DEF StateOf
  <1>12. QED
    BY <1>1, <1>11

-----------------------------------------------------------------------------
(* Lists in which an id occurs once. *)

LEMMA AddedLast ==
    ASSUME NEW R, NEW l \in Seq(R), Distinct(l), NEW x \in R, \A y \in Range(l) : y.id # x.id
    PROVE  Append(l, x) \in Seq(R) /\ Distinct(Append(l, x))
  <1> DEFINE q == Append(l, x)
             n == Len(l)
  <1>1. DOMAIN l = 1 .. n /\ n \in Nat /\ \A i \in 1 .. n : l[i] \in Range(l)
    BY RangeOf
  <1>2. q \in Seq(R) /\ DOMAIN q = 1 .. n + 1 /\ q[n + 1] = x /\ \A i \in 1 .. n : q[i] = l[i]
    OBVIOUS
  <1> HIDE DEF q, n
  <1>3. \A i \in 1 .. n + 1 : i \in 1 .. n \/ i = n + 1
    BY <1>1
  <1>4. \A i \in 1 .. n : q[i].id # q[n + 1].id /\ \A j \in 1 .. n : q[i].id = q[j].id => i = j
    BY <1>1, <1>2 DEF Distinct
  <1>5. Distinct(q)
    BY <1>2, <1>3, <1>4 DEF Distinct
  <1>6. QED
    BY <1>2, <1>5 DEF q

LEMMA AddedFirst ==
    ASSUME NEW R, NEW l \in Seq(R), Distinct(l), NEW x \in R, \A y \in Range(l) : y.id # x.id
    PROVE  <<x>> \o l \in Seq(R) /\ Distinct(<<x>> \o l) /\ Len(<<x>> \o l) = Len(l) + 1
  <1> DEFINE q == <<x>> \o l
             n == Len(l)
  <1>1. DOMAIN l = 1 .. n /\ n \in Nat /\ \A i \in 1 .. n : l[i] \in Range(l)
    BY RangeOf
  <1>2. <<x>> \in Seq(R) /\ Len(<<x>>) = 1 /\ <<x>>[1] = x
    OBVIOUS
  <1>3. q \in Seq(R) /\ Len(q) = n + 1
    BY <1>1, <1>2, ConcatProperties
  <1>4. DOMAIN q = 1 .. n + 1
    BY <1>3, RangeOf
  <1>5. q[1] = x /\ \A i \in 1 .. n : q[i + 1] = l[i]
    BY <1>1
  <1> HIDE DEF q, n
  <1>6. \A i \in 1 .. n + 1 : i = 1 \/ (i - 1 \in 1 .. n /\ q[i] = l[i - 1])
    <2>1. SUFFICES ASSUME NEW i \in 1 .. n + 1, i # 1 PROVE i - 1 \in 1 .. n /\ q[i] = l[i - 1]
      OBVIOUS
    <2>2. i - 1 \in 1 .. n /\ (i - 1) + 1 = i
      BY <1>1, <2>1
    <2>3. QED
      BY <1>5, <2>2
  <1>7. ASSUME NEW i \in 1 .. n + 1, NEW j \in 1 .. n + 1, q[i].id = q[j].id
        PROVE  i = j
    <2>1. CASE i = 1 /\ j = 1
      BY <2>1
    <2>2. CASE i # 1 /\ j # 1
      <3>1. i - 1 \in 1 .. n /\ j - 1 \in 1 .. n /\ l[i - 1].id = l[j - 1].id
        BY <1>6, <1>7, <2>2
      <3>2. i - 1 = j - 1
        BY <1>1, <3>1 DEF Distinct
      <3>3. QED
        BY <1>1, <3>2
    <2>3. CASE i = 1 /\ j # 1
      BY <1>1, <1>5, <1>6, <1>7, <2>3
    <2>4. CASE i # 1 /\ j = 1
      BY <1>1, <1>5, <1>6, <1>7, <2>4
    <2>5. QED
      BY <2>1, <2>2, <2>3, <2>4
  <1>8. Distinct(q)
    BY <1>4, <1>7 DEF Distinct
  <1>9. QED
    BY <1>3, <1>8 DEF q, n

LEMMA Shortened ==
    ASSUME NEW R, NEW l \in Seq(R), Distinct(l), NEW n \in 0 .. Len(l)
    PROVE  SubSeq(l, 1, n) \in Seq(R) /\ Distinct(SubSeq(l, 1, n))
  <1> DEFINE q == SubSeq(l, 1, n)
  <1>1. Len(l) \in Nat /\ n \in Nat /\ \A i \in 1 .. n : i \in 1 .. Len(l) /\ DOMAIN l = 1 .. Len(l)
    OBVIOUS
  <1>2. q \in Seq(R) /\ DOMAIN q = 1 .. n /\ \A i \in 1 .. n : q[i] = l[i]
    OBVIOUS
  <1> HIDE DEF q
  <1>3. Distinct(q)
    BY <1>1, <1>2 DEF Distinct
  <1>4. QED
    BY <1>2, <1>3 DEF q

LEMMA CutOut ==
    ASSUME NEW R, NEW l \in Seq(R), Distinct(l), NEW n \in DOMAIN l
    PROVE  LET q == SubSeq(l, 1, n - 1) \o SubSeq(l, n + 1, Len(l)) IN q \in Seq(R) /\ Distinct(q)
  <1> DEFINE a == SubSeq(l, 1, n - 1)
             b == SubSeq(l, n + 1, Len(l))
             q == a \o b
             from(i) == IF i < n THEN i ELSE i + 1
  <1>1. Len(l) \in Nat /\ n \in 1 .. Len(l) /\ DOMAIN l = 1 .. Len(l)
    OBVIOUS
  <1>2. a \in Seq(R) /\ Len(a) = n - 1 /\ \A i \in 1 .. n - 1 : a[i] = l[i]
    BY <1>1
  <1>3. b \in Seq(R) /\ Len(b) = Len(l) - n /\ \A i \in 1 .. Len(l) - n : b[i] = l[i + n]
    BY <1>1
  <1> HIDE DEF a, b
  <1>4. q \in Seq(R) /\ Len(q) = Len(l) - 1 /\ DOMAIN q = 1 .. Len(l) - 1
    <2>1. q \in Seq(R) /\ Len(q) = (n - 1) + (Len(l) - n)
      BY <1>2, <1>3, ConcatProperties
    <2>2. Len(q) = Len(l) - 1
      BY <1>1, <2>1
    <2>3. QED
      BY <2>1, <2>2, RangeOf
  <1>5. ASSUME NEW i \in 1 .. Len(l) - 1
        PROVE  from(i) \in 1 .. Len(l) /\ q[i] = l[from(i)]
    <2>1. CASE i < n
      BY <1>1, <1>2, <1>3, <2>1
    <2>2. CASE ~(i < n)
      <3>1. i - (n - 1) \in 1 .. Len(l) - n /\ (i - (n - 1)) + n = i + 1
        BY <1>1, <2>2
      <3>2. q[i] = b[i - (n - 1)]
        BY <1>1, <1>2, <1>3, <2>2, <3>1
      <3>3. b[i - (n - 1)] = l[i + 1]
        BY <1>3, <3>1
      <3>4. from(i) = i + 1 /\ i + 1 \in 1 .. Len(l)
        BY <1>1, <2>2
      <3>5. QED
        BY <3>2, <3>3, <3>4
    <2>3. QED
      BY <2>1, <2>2
  <1>6. \A i, j \in 1 .. Len(l) - 1 : from(i) = from(j) => i = j
    BY <1>1
  <1> HIDE DEF q, from
  <1>7. Distinct(q)
    BY <1>1, <1>4, <1>5, <1>6 DEF Distinct
  <1>8. QED
    BY <1>4, <1>7 DEF q, a, b

(* One entry, or all, replaced under the same id. *)
LEMMA Replaced ==
    ASSUME NEW R, NEW l \in Seq(R), Distinct(l), NEW q, q = [n \in DOMAIN l |-> q[n]],
           \A n \in DOMAIN l : q[n] \in R /\ q[n].id = l[n].id
    PROVE  q \in Seq(R) /\ Distinct(q)
  <1>1. DOMAIN l = 1 .. Len(l) /\ Len(l) \in Nat
    BY RangeOf
  <1>2. DOMAIN q = DOMAIN l
    OBVIOUS
  <1>3. q \in Seq(R)
    BY <1>1
  <1>4. QED
    BY <1>2, <1>3 DEF Distinct

-----------------------------------------------------------------------------
(* The inductive invariant of the next-up list: every list is one of what  *)
(* it should hold, an id occurs once in it, the order names a key once,    *)
(* and what the user marked is done.                                       *)

ListsInv(ss, ms, ns) ==
    /\ ss \in Seq(SessionRec) /\ Distinct(ss)
    /\ ms \in Seq(TaskRec) /\ Distinct(ms)
    /\ ns \in Seq(NoteRec) /\ Distinct(ns)

FileInv(q) ==
    q = [order |-> q.order, done |-> q.done] /\ q.order \in Seq(KeySet) /\ IsInjective(q.order)

NextUpInv ==
    /\ now \in Nat /\ enriching \subseteq NoteRec
    /\ ListsInv(sessions, manual, slack)
    /\ FileInv(file)
    /\ marked \subseteq file.done

OrderStays ==
    LET still == {k \in Range(file.order) : k[1] # "slack"} \cap Range(file'.order)
    IN  \A a, b \in still : InOrder(file.order, a, b) => InOrder(file'.order, a, b)

LEMMA Recomputed ==
    ASSUME now \in Nat, NEW ss, NEW ms, NEW ns, ListsInv(ss, ms, ns),
           NEW order \in Seq(KeySet), IsInjective(order), NEW done
    PROVE  StateOf(NextUpState(Input(ss, ms, ns), order, done, now), Input(ss, ms, ns), order, done, now)
  <1>1. Input(ss, ms, ns) \in Seq(ItemSet) /\ Unlike(Input(ss, ms, ns))
    BY InputFacts DEF ListsInv
  <1>2. QED
    BY <1>1, NextUpStateFacts

LEMMA ChangeStep ==
    ASSUME NextUpInv, now' = now, ListsInv(sessions', manual', slack'), enriching' \subseteq NoteRec,
           Refreshed, StillMarked
    PROVE  NextUpInv' /\ OrderStays
  <1> DEFINE all == Input(sessions', manual', slack')
             marks == {NextUpDoneKey(i) : i \in Range(all)}
  <1>1. StateOf(NextUpState(all, file.order, file.done, now), all, file.order, file.done, now)
    BY Recomputed DEF NextUpInv, FileInv
  <1>2. file' = NextUpState(all, file.order, file.done, now) /\ marked' = marked \cap marks
    BY DEF Refreshed, StillMarked
  <1> HIDE DEF all
  <1>3. StateOf(file', all, file.order, file.done, now)
    BY <1>1, <1>2
  <1>4. FileInv(file')
    BY <1>3 DEF FileInv, StateOf
  <1>5. marked' \subseteq file'.done
    BY <1>2, <1>3 DEF NextUpInv, StateOf
  <1>6. OrderStays
    BY <1>3 DEF StateOf, OrderStays
  <1>7. NextUpInv'
    <2>1. ListsInv(sessions, manual, slack)' /\ FileInv(file)'
      BY <1>4 DEF ListsInv, FileInv
    <2>2. QED
      BY <1>5, <2>1 DEF NextUpInv
  <1>8. QED
    BY <1>6, <1>7

LEMMA SameFile ==
    ASSUME file' = file
    PROVE  OrderStays
  BY DEF OrderStays

LEMMA SessionsStep ==
    ASSUME NextUpInv,
           \/ \E id \in Sessions : SessionReported(id)
           \/ \E n \in 1 .. Cardinality(Sessions) : SessionChanges(n) \/ SessionRemoved(n)
    PROVE  NextUpInv' /\ OrderStays
  <1>1. sessions \in Seq(SessionRec) /\ Distinct(sessions) /\ now \in Nat
    BY DEF NextUpInv, ListsInv
  <1>2. /\ UNCHANGED <<now, manual, slack, enriching>>
        /\ Refreshed /\ StillMarked
    BY DEF SessionReported, SessionChanges, SessionRemoved, Changes
  <1>3. sessions' \in Seq(SessionRec) /\ Distinct(sessions')
    <2>1. ASSUME NEW id \in Sessions, SessionReported(id)
          PROVE  sessions' \in Seq(SessionRec) /\ Distinct(sessions')
      <3>1. PICK st \in Statuses : sessions' = Append(sessions, [id |-> id, status |-> st, lastActivity |-> now])
        BY <2>1 DEF SessionReported
      <3> DEFINE x == [id |-> id, status |-> st, lastActivity |-> now]
      <3>2. x \in SessionRec /\ x.id = id
        BY <1>1 DEF SessionRec
      <3>3. \A y \in Range(sessions) : y.id # id
        BY <2>1 DEF SessionReported
      <3> HIDE DEF x
      <3>4. QED
        BY <1>1, <3>1, <3>2, <3>3, AddedLast DEF x
    <2>2. ASSUME NEW n \in 1 .. Cardinality(Sessions), SessionChanges(n)
          PROVE  sessions' \in Seq(SessionRec) /\ Distinct(sessions')
      <3>1. PICK st \in Statuses : sessions' = [sessions EXCEPT ![n].status = st, ![n].lastActivity = now]
        BY <2>2 DEF SessionChanges
      <3>2. sessions' = [k \in DOMAIN sessions |-> sessions'[k]]
        BY <3>1
      <3>3. \A k \in DOMAIN sessions : sessions[k] \in SessionRec
        BY <1>1
      <3>4. ASSUME NEW k \in DOMAIN sessions
            PROVE  sessions'[k] \in SessionRec /\ sessions'[k].id = sessions[k].id
        <4>1. CASE k = n
          <5>1. sessions'[k] = [sessions[k] EXCEPT !.status = st, !.lastActivity = now]
            BY <3>1, <4>1
          <5>2. QED
            BY <1>1, <3>3, <5>1 DEF SessionRec
        <4>2. CASE k # n
          BY <3>1, <3>3, <4>2
        <4>3. QED
          BY <4>1, <4>2
      <3>5. QED
        BY <1>1, <3>2, <3>4, Replaced
    <2>3. ASSUME NEW n \in 1 .. Cardinality(Sessions), SessionRemoved(n)
          PROVE  sessions' \in Seq(SessionRec) /\ Distinct(sessions')
      BY <1>1, <2>3, CutOut DEF SessionRemoved
    <2>4. QED
      BY <2>1, <2>2, <2>3
  <1>4. ListsInv(sessions', manual', slack') /\ enriching' \subseteq NoteRec
    BY <1>2, <1>3 DEF ListsInv, NextUpInv
  <1>5. QED
    BY <1>2, <1>4, ChangeStep

LEMMA TasksStep ==
    ASSUME NextUpInv, NEW id \in Manual, ManualTaskAdded(id) \/ ManualTaskRemoved(id)
    PROVE  NextUpInv' /\ OrderStays
  <1>1. manual \in Seq(TaskRec) /\ Distinct(manual) /\ now \in Nat
    BY DEF NextUpInv, ListsInv
  <1>2. /\ UNCHANGED <<now, sessions, slack, enriching>>
        /\ Refreshed /\ StillMarked
    BY DEF ManualTaskAdded, ManualTaskRemoved, Changes
  <1>3. manual' \in Seq(TaskRec) /\ Distinct(manual')
    <2>1. ASSUME ManualTaskAdded(id)
          PROVE  manual' \in Seq(TaskRec) /\ Distinct(manual')
      <3>1. PICK p \in {0, 1} : manual' = <<[id |-> id, createdAt |-> now, priority |-> p]>> \o manual
        BY <2>1 DEF ManualTaskAdded
      <3> DEFINE x == [id |-> id, createdAt |-> now, priority |-> p]
      <3>2. x \in TaskRec /\ x.id = id
        BY <1>1 DEF TaskRec
      <3>3. \A y \in Range(manual) : y.id # id
        BY <2>1 DEF ManualTaskAdded
      <3>4. manual' = <<x>> \o manual
        BY <3>1
      <3> HIDE DEF x
      <3>5. QED
        BY <1>1, <3>2, <3>3, <3>4, AddedFirst
    <2>2. ASSUME ManualTaskRemoved(id)
          PROVE  manual' \in Seq(TaskRec) /\ Distinct(manual')
      BY <1>1, <2>2, FilteredKeeps DEF ManualTaskRemoved
    <2>3. QED
      BY <2>1, <2>2
  <1>4. ListsInv(sessions', manual', slack') /\ enriching' \subseteq NoteRec
    BY <1>2, <1>3 DEF ListsInv, NextUpInv
  <1>5. QED
    BY <1>2, <1>4, ChangeStep

LEMMA SlackStep ==
    ASSUME NextUpInv,
           \/ \E id \in Slack : RemoveSlackNotification(id)
           \/ \E n \in enriching : StoreSlackNotification(n)
           \/ ClearSlackNotifications
    PROVE  NextUpInv' /\ OrderStays
  <1>1. slack \in Seq(NoteRec) /\ Distinct(slack) /\ enriching \subseteq NoteRec
    BY DEF NextUpInv, ListsInv
  <1>2. /\ UNCHANGED <<now, sessions, manual>> /\ enriching' \subseteq enriching
        /\ Refreshed /\ StillMarked
    BY DEF RemoveSlackNotification, StoreSlackNotification, ClearSlackNotifications, Changes
  <1>3. slack' \in Seq(NoteRec) /\ Distinct(slack')
    <2>1. ASSUME NEW id \in Slack, RemoveSlackNotification(id)
          PROVE  slack' \in Seq(NoteRec) /\ Distinct(slack')
      BY <1>1, <2>1, FilteredKeeps DEF RemoveSlackNotification
    <2>2. ASSUME NEW n \in enriching, StoreSlackNotification(n)
          PROVE  slack' \in Seq(NoteRec) /\ Distinct(slack')
      <3> DEFINE keep == {m \in Range(slack) : m.id # n.id}
                 others == Filtered(slack, keep)
                 list == <<n>> \o others
                 most == IF Len(list) < MaxSlack THEN Len(list) ELSE MaxSlack
      <3>1. slack' = SubSeq(list, 1, most)
        BY <2>2 DEF StoreSlackNotification
      <3>2. others \in Seq(NoteRec) /\ Distinct(others) /\ \A y \in Range(others) : y.id # n.id
        <4>1. \A y \in keep : y.id # n.id
          OBVIOUS
        <4> HIDE DEF keep
        <4>2. QED
          BY <1>1, <4>1, FilteredKeeps
      <3> HIDE DEF others
      <3>3. list \in Seq(NoteRec) /\ Distinct(list) /\ n \in NoteRec
        BY <1>1, <3>2, AddedFirst
      <3> HIDE DEF list
      <3>4. most \in 0 .. Len(list)
        BY <3>3, BackendNextUpAssumption
      <3> HIDE DEF most
      <3>5. QED
        BY <3>1, <3>3, <3>4, Shortened
    <2>3. ASSUME ClearSlackNotifications
          PROVE  slack' \in Seq(NoteRec) /\ Distinct(slack')
      BY <2>3 DEF ClearSlackNotifications, Distinct
    <2>4. QED
      BY <1>1, <2>1, <2>2, <2>3
  <1>4. ListsInv(sessions', manual', slack') /\ enriching' \subseteq NoteRec
    BY <1>1, <1>2, <1>3 DEF ListsInv, NextUpInv
  <1>5. QED
    BY <1>2, <1>4, ChangeStep

LEMMA UserStep ==
    ASSUME NextUpInv, steps \in Nat, SetNextUpOrder \/ MarkNextUpDone
    PROVE  NextUpInv' /\ UserActs
  <1> DEFINE all == Input(sessions, manual, slack)
             marks == {NextUpDoneKey(i) : i \in Range(all)}
  <1>1. UNCHANGED <<now, sessions, manual, slack, enriching>> /\ steps' = steps + 1
    BY DEF SetNextUpOrder, MarkNextUpDone, Step
  <1>2. UserActs
    BY <1>1 DEF UserActs
  <1>3. \A order \in Seq(KeySet) : \A done :
           IsInjective(order) => StateOf(NextUpState(all, order, done, now), all, order, done, now)
    BY Recomputed DEF NextUpInv
  <1>4. FileInv(file')  /\ marked' \subseteq file'.done
    <2>1. CASE SetNextUpOrder
      <3>1. PICK keys \in {k \in UNION {[1 .. n -> Range(file.order)] : n \in 1 .. Len(file.order)} :
                              \A i, j \in DOMAIN k : k[i] = k[j] => i = j} :
                file' = NextUpState(all, keys, file.done, now)
        BY <2>1 DEF SetNextUpOrder
      <3>2. PICK n \in 1 .. Len(file.order) : keys \in [1 .. n -> Range(file.order)]
        BY <3>1
      <3>3. Range(file.order) \subseteq KeySet /\ n \in Nat
        BY RangeOf DEF NextUpInv, FileInv
      <3>4. keys \in Seq(KeySet)
        BY <3>2, <3>3
      <3>5. IsInjective(keys)
        BY <3>1 DEF IsInjective
      <3>6. marked' = marked \cap marks
        BY <1>1, <2>1 DEF SetNextUpOrder, StillMarked
      <3> HIDE DEF all
      <3>7. StateOf(file', all, keys, file.done, now)
        BY <1>3, <3>1, <3>4, <3>5
      <3>8. QED
        BY <3>6, <3>7 DEF StateOf, FileInv, NextUpInv
    <2>2. CASE MarkNextUpDone
      <3>1. PICK i \in Range(all) :
                /\ file' = NextUpState(all, file.order, file.done \cup {NextUpDoneKey(i)}, now)
                /\ marked' = (marked \cap Available) \cup {NextUpDoneKey(i)}
        BY <2>2 DEF MarkNextUpDone
      <3>2. Available = marks
        BY DEF Available
      <3> HIDE DEF all
      <3>3. StateOf(file', all, file.order, file.done \cup {NextUpDoneKey(i)}, now)
        BY <1>3, <3>1 DEF NextUpInv, FileInv
      <3>4. NextUpDoneKey(i) \in marks
        OBVIOUS
      <3>5. QED
        BY <3>1, <3>2, <3>3, <3>4 DEF StateOf, FileInv, NextUpInv
    <2>3. QED
      BY <2>1, <2>2
  <1>5. NextUpInv'
    <2>1. ListsInv(sessions, manual, slack)' /\ FileInv(file)'
      BY <1>1, <1>4 DEF NextUpInv, ListsInv, FileInv
    <2>2. QED
      BY <1>1, <1>4, <2>1 DEF NextUpInv
  <1>6. QED
    BY <1>2, <1>5

LEMMA OtherSteps ==
    ASSUME NextUpInv,
           \/ GetNextUp \/ TimePasses \/ UNCHANGED nextUpVars
           \/ \E id \in Slack : SlackEventArrives(id)
    PROVE  NextUpInv' /\ OrderStays
  <1>1. CASE GetNextUp
    <2>1. now' = now /\ ListsInv(sessions', manual', slack') /\ enriching' \subseteq NoteRec
      BY <1>1 DEF GetNextUp, NextUpInv
    <2>2. Refreshed /\ StillMarked
      BY <1>1 DEF GetNextUp, Refreshed
    <2>3. QED
      BY <2>1, <2>2, ChangeStep
  <1>2. ASSUME now' \in Nat, enriching' \subseteq NoteRec,
               UNCHANGED <<sessions, manual, slack, file, marked>>
        PROVE  NextUpInv' /\ OrderStays
    <2>1. ListsInv(sessions, manual, slack)' /\ FileInv(file)'
      BY <1>2 DEF NextUpInv, ListsInv, FileInv
    <2>2. QED
      BY <1>2, <2>1, SameFile DEF NextUpInv
  <1>3. CASE TimePasses
    <2>1. now' \in Nat /\ UNCHANGED <<sessions, manual, slack, enriching, file, marked>>
      BY <1>3 DEF TimePasses, NextUpInv
    <2>2. QED
      BY <1>2, <2>1 DEF NextUpInv
  <1>4. CASE UNCHANGED nextUpVars
    <2>1. UNCHANGED <<now, sessions, manual, slack, enriching, file, marked>>
      BY <1>4 DEF nextUpVars
    <2>2. QED
      BY <1>2, <2>1 DEF NextUpInv
  <1>5. ASSUME NEW id \in Slack, SlackEventArrives(id)
        PROVE  NextUpInv' /\ OrderStays
    <2>1. UNCHANGED <<now, sessions, manual, slack, file, marked>>
      BY <1>5 DEF SlackEventArrives
    <2>2. PICK rank \in {0, 4} : enriching' = enriching \cup {[id |-> id, receivedAt |-> now, rank |-> rank]}
      BY <1>5 DEF SlackEventArrives
    <2>3. [id |-> id, receivedAt |-> now, rank |-> rank] \in NoteRec /\ enriching \subseteq NoteRec
      BY DEF NextUpInv, NoteRec
    <2>4. enriching' \subseteq NoteRec /\ now' \in Nat
      BY <2>1, <2>2, <2>3 DEF NextUpInv
    <2>5. QED
      BY <1>2, <2>1, <2>4
  <1>6. QED
    BY <1>1, <1>3, <1>4, <1>5

(* A restart synchronises the list with some of the sessions at a time. *)
LEMMA SomeSessions ==
    ASSUME NEW ss \in Seq(SessionRec), Distinct(ss)
    PROVE  Map(ss, SessionToNextUp) \in Seq(ItemSet) /\ Unlike(Map(ss, SessionToNextUp))
  <1> DEFINE a == [n \in DOMAIN ss |-> SessionToNextUp(ss[n])]
  <1>1. Map(ss, SessionToNextUp) = a
    BY DEF Map
  <1>2. \A n \in DOMAIN ss : ss[n] \in SessionRec
    OBVIOUS
  <1>3. \A n \in DOMAIN ss : a[n] \in ItemSet /\ a[n].key = <<"session", ss[n].id>>
    BY <1>2, ItemKeys DEF ItemSet
  <1>4. DOMAIN a = DOMAIN ss /\ a = [n \in DOMAIN a |-> a[n]]
    OBVIOUS
  <1> HIDE DEF a
  <1>5. FromSource(a, "session")
    BY <1>3, <1>4, OneSource
  <1>6. QED
    BY <1>1, <1>5 DEF FromSource

LEMMA RestartStep ==
    ASSUME NextUpInv, Restart
    PROVE  NextUpInv'
  <1> DEFINE keep == {s \in Range(sessions) : s.status \in {"stopped", "error", "detached"}}
             saved == Filtered(sessions, keep)
             restored == [n \in DOMAIN saved |-> [saved[n] EXCEPT !.status = "starting", !.lastActivity = now]]
             L == Len(restored)
             Some(n) == Map(SubSeq(restored, 1, n), SessionToNextUp)
             Again(q, n) == NextUpState(Some(n), q.order, q.done, now)
             FoldsTo(f) == f = [n \in 0 .. L |-> IF n = 0 THEN file ELSE Again(f[n - 1], n)]
             F == CHOOSE f : FoldsTo(f)
             V == [order : {o \in Seq(KeySet) : IsInjective(o)}, done : SUBSET file.done]
             G == [p \in V \X (1 .. L) |-> Again(p[1], p[2])]
  <1>1. /\ sessions' = restored /\ file' = F[L]
        /\ marked' = IF restored = <<>> THEN marked \cap Available ELSE {}
        /\ enriching' = {} /\ UNCHANGED <<now, manual, slack>>
    BY DEF Restart, Map
  <1>2. saved \in Seq(SessionRec) /\ Distinct(saved)
    <2> HIDE DEF keep
    <2>1. QED
      BY FilteredKeeps DEF NextUpInv, ListsInv
  <1> HIDE DEF saved
  <1>3. restored \in Seq(SessionRec) /\ Distinct(restored)
    <2>1. \A n \in DOMAIN saved : saved[n] \in SessionRec /\ now \in Nat
      BY <1>2 DEF NextUpInv
    <2>2. \A n \in DOMAIN saved : restored[n] = [saved[n] EXCEPT !.status = "starting", !.lastActivity = now]
      OBVIOUS
    <2>3. \A n \in DOMAIN saved : restored[n] \in SessionRec /\ restored[n].id = saved[n].id
      BY <2>1, <2>2 DEF SessionRec
    <2>4. restored = [n \in DOMAIN saved |-> restored[n]]
      OBVIOUS
    <2> HIDE DEF restored
    <2>5. QED
      BY <1>2, <2>3, <2>4, Replaced
  <1> HIDE DEF restored
  <1>4. L \in Nat /\ (restored = <<>> => L = 0)
    BY <1>3
  <1>5. \A n \in 1 .. L : Some(n) \in Seq(ItemSet) /\ Unlike(Some(n))
    <2>1. \A n \in 1 .. L : n \in 0 .. Len(restored)
      BY <1>4
    <2>2. QED
      BY <1>3, <2>1, Shortened, SomeSessions
  <1> HIDE DEF L, Some
  <1>6. ASSUME NEW q \in V, NEW n \in 1 .. L
        PROVE  Again(q, n) \in V
    <2> DEFINE r == Again(q, n)
    <2>1. q.order \in Seq(KeySet) /\ IsInjective(q.order) /\ q.done \subseteq file.done
      OBVIOUS
    <2>2. StateOf(r, Some(n), q.order, q.done, now)
      BY <1>5, <2>1, NextUpStateFacts
    <2> HIDE DEF r
    <2>3. r = [order |-> r.order, done |-> r.done] /\ r.order \in Seq(KeySet)
          /\ IsInjective(r.order) /\ r.done \subseteq file.done
      BY <2>1, <2>2 DEF StateOf
    <2>4. r \in V
      BY <2>3
    <2>5. QED
      BY <2>4 DEF r
  <1>7. file \in V
    <2>1. file = [order |-> file.order, done |-> file.done] /\ file.order \in Seq(KeySet) /\ IsInjective(file.order)
      BY DEF NextUpInv, FileInv
    <2>2. QED
      BY <2>1
  <1> HIDE DEF Again
  <1>8. G \in [V \X (1 .. L) -> V] /\ \A q \in V, n \in 1 .. L : G[<<q, n>>] = Again(q, n)
    BY <1>6
  <1> HIDE DEF G, V
  <1>9. PICK f : f \in [0 .. L -> V] /\ f[0] = file /\ \A n \in 1 .. L : f[n] = G[<<f[n - 1], n>>]
    <2>1. \E f : FoldOf(f, L, V, file, G)
      BY <1>4, <1>7, <1>8, Folded
    <2>2. QED
      BY <2>1 DEF FoldOf
  <1>10. FoldsTo(f)
    <2>1. ASSUME NEW n \in 0 .. L
          PROVE  f[n] = IF n = 0 THEN file ELSE Again(f[n - 1], n)
      <3>1. CASE n = 0
        BY <1>9, <3>1
      <3>2. CASE n # 0
        <4>1. n \in 1 .. L /\ n - 1 \in 0 .. L
          BY <1>4, <3>2
        <4>2. QED
          BY <1>8, <1>9, <3>2, <4>1
      <3>3. QED
        BY <3>1, <3>2
    <2>2. f = [n \in 0 .. L |-> f[n]]
      BY <1>9
    <2>3. QED
      BY <2>1, <2>2
  <1>11. FoldsTo(F)
    BY <1>10
  <1> HIDE DEF F
  <1>12. F[0] = file /\ \A n \in 1 .. L : F[n] = Again(F[n - 1], n)
    <2>1. \A n \in 0 .. L : F[n] = IF n = 0 THEN file ELSE Again(F[n - 1], n)
      BY <1>11
    <2>2. 0 \in 0 .. L /\ \A n \in 1 .. L : n \in 0 .. L /\ n # 0
      BY <1>4
    <2>3. QED
      BY <2>1, <2>2
  <1> HIDE DEF FoldsTo
  <1> DEFINE T == {n \in Nat : n <= L => F[n] \in V}
  <1>13. 0 \in T
    BY <1>7, <1>12
  <1>14. ASSUME NEW n \in Nat, n \in T
         PROVE  n + 1 \in T
    <2>1. SUFFICES ASSUME n + 1 <= L PROVE F[n + 1] \in V
      OBVIOUS
    <2>2. F[n] \in V /\ n + 1 \in 1 .. L
      BY <1>4, <1>14, <2>1
    <2>3. F[n + 1] = Again(F[n], n + 1)
      BY <1>12, <2>2
    <2>4. QED
      BY <1>6, <2>2, <2>3 DEF Again
  <1> HIDE DEF T
  <1>15. Nat \subseteq T
    BY <1>13, <1>14, NaturalInduction
  <1>16. file' \in V
    <2>1. L \in T /\ L <= L
      BY <1>4, <1>15
    <2>2. QED
      BY <1>1, <2>1 DEF T
  <1>17. FileInv(file')
    BY <1>16 DEF V, FileInv
  <1>18. marked' \subseteq file'.done
    <2>1. CASE restored = <<>>
      BY <1>1, <1>4, <1>12, <2>1 DEF NextUpInv
    <2>2. CASE restored # <<>>
      BY <1>1, <2>2
    <2>3. QED
      BY <2>1, <2>2
  <1>19. ListsInv(sessions', manual', slack')
    BY <1>1, <1>3 DEF NextUpInv, ListsInv
  <1>20. QED
    <2>1. ListsInv(sessions, manual, slack)' /\ FileInv(file)'
      BY <1>17, <1>19 DEF ListsInv, FileInv
    <2>2. QED
      BY <1>1, <1>18, <2>1 DEF NextUpInv

-----------------------------------------------------------------------------
NextUpCounts == steps \in Nat /\ restarts \in Nat

LEMMA NextUpStep ==
    ASSUME NextUpInv, NextUpCounts, [NextUpNext]_nextUpVars
    PROVE  /\ NextUpInv' /\ NextUpCounts'
           /\ restarts' = restarts /\ ~UserActs => OrderStays
  <1>1. ASSUME NextUpInv', OrderStays
        PROVE  NextUpInv' /\ (restarts' = restarts /\ ~UserActs => OrderStays)
    BY <1>1
  <1>2. CASE \/ \E id \in Sessions : SessionReported(id)
             \/ \E n \in 1 .. Cardinality(Sessions) : SessionChanges(n) \/ SessionRemoved(n)
    <2>1. steps' = steps + 1 /\ restarts' = restarts
      BY <1>2 DEF SessionReported, SessionChanges, SessionRemoved, Changes, Step
    <2>2. QED
      BY <1>1, <1>2, <2>1, SessionsStep DEF NextUpCounts
  <1>3. ASSUME NEW id \in Manual, ManualTaskAdded(id) \/ ManualTaskRemoved(id)
        PROVE  NextUpInv' /\ NextUpCounts' /\ OrderStays
    <2>1. steps' = steps + 1 /\ restarts' = restarts
      BY <1>3 DEF ManualTaskAdded, ManualTaskRemoved, Changes, Step
    <2>2. QED
      BY <1>3, <2>1, TasksStep DEF NextUpCounts
  <1>4. CASE \/ \E id \in Slack : RemoveSlackNotification(id)
             \/ \E n \in enriching : StoreSlackNotification(n)
             \/ ClearSlackNotifications
    <2>1. steps' \in {steps, steps + 1} /\ restarts' = restarts
      BY <1>4 DEF RemoveSlackNotification, StoreSlackNotification, ClearSlackNotifications, Changes, Step
    <2>2. NextUpCounts'
      BY <2>1 DEF NextUpCounts
    <2>3. QED
      BY <1>4, <2>2, SlackStep
  <1>5. CASE SetNextUpOrder \/ MarkNextUpDone
    <2>1. steps' = steps + 1 /\ restarts' = restarts
      BY <1>5 DEF SetNextUpOrder, MarkNextUpDone, Step
    <2>2. QED
      BY <1>5, <2>1, UserStep DEF NextUpCounts
  <1>6. CASE \/ GetNextUp \/ TimePasses \/ UNCHANGED nextUpVars
             \/ \E id \in Slack : SlackEventArrives(id)
    <2>1. steps' \in {steps, steps + 1} /\ restarts' = restarts
      BY <1>6 DEF GetNextUp, TimePasses, nextUpVars, SlackEventArrives, Step
    <2>2. NextUpCounts'
      BY <2>1 DEF NextUpCounts
    <2>3. QED
      BY <1>6, <2>2, OtherSteps
  <1>7. CASE Restart
    <2>1. steps' = steps /\ restarts' = restarts + 1
      BY <1>7 DEF Restart
    <2>2. NextUpCounts' /\ restarts' # restarts
      BY <2>1 DEF NextUpCounts
    <2>3. QED
      BY <1>7, <2>2, RestartStep
  <1>8. QED
    BY <1>2, <1>3, <1>4, <1>5, <1>6, <1>7 DEF NextUpNext

(* The list's inductive invariant holds of it. *)
LEMMA NextUpInvariance == NextUpSpec => [](NextUpInv /\ NextUpCounts)
  <1>1. NextUpInit => NextUpInv /\ NextUpCounts
    BY DEF NextUpInit, NextUpInv, NextUpCounts, ListsInv, FileInv, Distinct, IsInjective
  <1>2. NextUpInv /\ NextUpCounts /\ [NextUpNext]_nextUpVars => (NextUpInv /\ NextUpCounts)'
    BY NextUpStep
  <1>3. QED
    BY <1>1, <1>2, PTL DEF NextUpSpec

(* Whatever comes and goes in the lists and in whichever order, recomputing *)
(* the state of the next-up list changes nothing, and the order names each *)
(* item there is once (createNextUpState, saveNextUpState).                *)
THEOREM NextUpIsSettled == NextUpSpec => []Settled
  <1>1. ASSUME NextUpInv PROVE Settled
    <2> DEFINE all == Input(sessions, manual, slack)
               once == NextUpState(all, file.order, file.done, now)
    <2>1. StateOf(once, all, file.order, file.done, now)
      BY <1>1, Recomputed DEF NextUpInv, FileInv
    <2> HIDE DEF all, once
    <2>2. NextUpState(all, once.order, once.done, now) = once
      BY <2>1 DEF StateOf
    <2>3. Len(once.order) = Len(all) /\ Range(once.order) = {i.key : i \in Range(all)}
      BY <2>1 DEF StateOf
    <2>4. QED
      BY <2>2, <2>3 DEF Settled, all, once
  <1>2. QED
    BY <1>1, NextUpInvariance, PTL

(* What the user marked done is done, and is not shown, until it is marked *)
(* for something else or a restart restores a session                      *)
(* (markBackendNextUpDone, nextUpDoneKey).                                 *)
THEOREM NextUpDoneStaysDone == NextUpSpec => []DoneStaysDone
  <1>1. ASSUME NextUpInv PROVE DoneStaysDone
    <2> DEFINE all == Input(sessions, manual, slack)
               order == NextUpState(all, file.order, file.done, now).order
               shown == BuildNextUpItems(all, order, file.done, now)
    <2>1. all \in Seq(ItemSet) /\ Unlike(all)
      BY <1>1, InputFacts DEF NextUpInv, ListsInv
    <2>2. Shown = KeysOf(shown)
      BY DEF Shown
    <2> HIDE DEF all, order
    <2>3. /\ shown \in Seq(ItemSet) /\ IsInjective(shown)
          /\ Range(shown) = {i \in Range(all) : NextUpDoneKey(i) \notin file.done}
      BY <2>1, BuiltItems
    <2> HIDE DEF shown
    <2>4. Range(KeysOf(shown)) = {i.key : i \in Range(shown)}
      <3>1. \A i \in Range(shown) : i.key \in KeySet
        BY <2>3, RangeOf, ItemHasKey
      <3>2. QED
        BY <2>1, <2>3, <3>1, UnlikeKeys
    <2>5. ASSUME NEW i \in Range(all), NextUpDoneKey(i) \in marked
          PROVE  i.key \notin Range(Shown)
      <3>1. SUFFICES ASSUME NEW j \in Range(shown), j.key = i.key PROVE FALSE
        BY <2>2, <2>4
      <3>2. j \in Range(all) /\ NextUpDoneKey(j) \notin file.done
        BY <2>3
      <3>3. i = j
        BY <3>1, <3>2, <2>1, RangeOf DEF Unlike, Range
      <3>4. NextUpDoneKey(i) \in file.done
        BY <1>1, <2>5 DEF NextUpInv
      <3>5. QED
        BY <3>2, <3>3, <3>4
    <2>6. QED
      BY <1>1, <2>5 DEF DoneStaysDone, NextUpInv, all
  <1>2. QED
    BY <1>1, NextUpInvariance, PTL

(* No change but the user's own and a restart puts two keys of the order   *)
(* the other way round, Slack's apart (syncNextUpOrder).                   *)
THEOREM NextUpOrderIsKept == NextUpSpec => OrderIsKept
  <1>1. NextUpInv /\ NextUpCounts /\ [NextUpNext]_nextUpVars =>
            [restarts' = restarts /\ ~UserActs =>
                LET still == {k \in Range(file.order) : k[1] # "slack"} \cap Range(file'.order)
                IN  \A a, b \in still : InOrder(file.order, a, b) => InOrder(file'.order, a, b)
            ]_nextUpVars
    BY NextUpStep DEF OrderStays
  <1>2. QED
    BY <1>1, NextUpInvariance, PTL DEF NextUpSpec, OrderIsKept

=============================================================================
