------------------------------ MODULE WaveProofs ------------------------------
(***************************************************************************)
(* The two waveform viewers, for any file, any runs and any acts.  Both keep   *)
(* what the file says and show it: values at a time, bits of a bus, radixes   *)
(* and blocks on the canvas, with the recursive functions they are computed by   *)
(* unfolded one step at a time.  The window keeps its times in the run, takes  *)
(* over what an earlier page kept, and jumps to the nearest change.           *)
(***************************************************************************)
EXTENDS WaveViewers, SequenceProofs, SequenceTheorems, FiniteSetTheorems, WellFoundedInduction, TLAPS

-----------------------------------------------------------------------------
(* The search by halving *)

\* A series has values at natural times.
LEMMA SeriesFacts ==
  ASSUME NEW s \in Series
  PROVE  /\ s \in Seq(TimedValue) /\ Len(s) \in Nat /\ DOMAIN s = 1..Len(s)
         /\ \A i \in 1..Len(s) : /\ s[i] \in TimedValue /\ s[i].t \in Nat /\ s[i].v \in Seq(Bits)
                                /\ s[i] = [t |-> s[i].t, v |-> s[i].v]
<1>1. s \in Seq(TimedValue)
  BY DEF Series
<1>2. Len(s) \in Nat /\ DOMAIN s = 1..Len(s) /\ \A i \in 1..Len(s) : s[i] \in TimedValue
  BY <1>1, LenProperties, ElementOfSeq
<1>3. \A x \in TimedValue : x.t \in Nat /\ x.v \in Seq(Bits) /\ x = [t |-> x.t, v |-> x.v]
  BY DEF TimedValue
<1>4. QED
  BY <1>1, <1>2, <1>3

Looking == [lo : Int, hi : Int, at : Int]
AllSeen(s) == [lo |-> 1, hi |-> Len(s), at |-> 0]
Halved(s, t, l) ==
  LET mid == (l.lo + l.hi) \div 2 IN
  IF l.lo > l.hi THEN l
  ELSE IF s[mid].t <= t THEN [lo |-> mid + 1, hi |-> l.hi, at |-> mid]
  ELSE [lo |-> l.lo, hi |-> mid - 1, at |-> l.at]
LooksBy(f, s, t) ==
  f = [n \in 0..Len(s) |-> IF n = 0 THEN [lo |-> 1, hi |-> Len(s), at |-> 0]
        ELSE LET l == f[n - 1]  mid == (l.lo + l.hi) \div 2 IN
             IF l.lo > l.hi THEN l
             ELSE IF s[mid].t <= t THEN [lo |-> mid + 1, hi |-> l.hi, at |-> mid]
             ELSE [lo |-> l.lo, hi |-> mid - 1, at |-> l.at]]

LEMMA HalvedIsLooking ==
  ASSUME NEW s, NEW t, NEW l \in Looking
  PROVE  Halved(s, t, l) \in Looking
<1>1. l.lo \in Int /\ l.hi \in Int /\ l.at \in Int
  BY DEF Looking
<1>2. (l.lo + l.hi) \div 2 \in Int
  BY <1>1
<1>3. QED
  BY <1>1, <1>2 DEF Halved, Looking

\* The rounds of the search, from all the changes on.
Rounds(f, s, t) ==
  /\ IndexAt(s, t) = f[Len(s)].at
  /\ f[0] = AllSeen(s) /\ \A n \in 1..Len(s) : f[n] = Halved(s, t, f[n - 1])

LEMMA LookIsThere ==
  ASSUME NEW s, NEW t, Len(s) \in Nat
  PROVE  \E f : Rounds(f, s, t)
<1> DEFINE n == Len(s)
           x == AllSeen(s)
           Q == Looking
           G == [p \in (1..n) \X Q |-> Halved(s, t, p[2])]
<1>1. \A i \in 1..n, q \in Q : G[<<i, q>>] = Halved(s, t, q)
  OBVIOUS
<1>2. FoldsFrom(x, n, Q, G)
  <2>1. x \in Q
    BY DEF Looking, AllSeen
  <2>2. \A i \in 1..n, q \in Q : G[<<i, q>>] \in Q
    BY <1>1, HalvedIsLooking
  <2> HIDE DEF x, Q
  <2>3. QED
    BY <2>1, <2>2 DEF FoldsFrom
<1> HIDE DEF G, n, Q, x
<1>3. PICK f \in [0..n -> Q] : f[0] = x /\ \A i \in 1..n : f[i] = G[<<i, f[i - 1]>>]
  BY <1>2, Folding
<1>4. \A i \in 0..n : f[i] = IF i = 0 THEN x ELSE Halved(s, t, f[i - 1])
  <2> TAKE i \in 0..n
  <2>1. i = 0 \/ (i \in 1..n /\ f[i - 1] \in Q)
    BY DEF n
  <2>2. QED
    BY <1>1, <1>3, <2>1
<1>5. LooksBy(f, s, t)
  BY <1>4 DEF LooksBy, Halved, AllSeen, n, x
<1> DEFINE g == CHOOSE h : LooksBy(h, s, t)
<1>6. LooksBy(g, s, t)
  BY <1>5
<1>7. IndexAt(s, t) = g[Len(s)].at
  BY DEF IndexAt, LooksBy
<1> HIDE DEF g
<1>8. g[0] = AllSeen(s) /\ \A i \in 1..Len(s) : g[i] = Halved(s, t, g[i - 1])
  <2>1. \A i \in 0..Len(s) : g[i] = IF i = 0 THEN AllSeen(s) ELSE Halved(s, t, g[i - 1])
    BY <1>6 DEF LooksBy, Halved, AllSeen
  <2>2. 0 \in 0..Len(s) /\ \A i \in 1..Len(s) : i \in 0..Len(s) /\ i # 0
    OBVIOUS
  <2>3. QED
    BY <2>1, <2>2
<1>9. Rounds(g, s, t)
  BY <1>7, <1>8 DEF Rounds
<1>10. QED
  BY <1>9

\* What a round knows: the changes before lo are not after t, those behind hi are.
Narrowed(s, t, l, n) ==
  /\ l = [lo |-> l.lo, hi |-> l.hi, at |-> l.at]
  /\ l.lo \in 1..(Len(s) + 1) /\ l.hi \in 0..Len(s) /\ l.lo <= l.hi + 1 /\ l.at = l.lo - 1
  /\ l.hi - l.lo + 1 <= Len(s) - n
  /\ \A i \in 1..Len(s) : (i < l.lo => s[i].t <= t) /\ (i > l.hi => s[i].t > t)

\* A round keeps what is known and leaves fewer changes to look at.
LEMMA HalvedNarrows ==
  ASSUME NEW s \in Series, Growing(s), NEW t \in Int, NEW l, NEW n \in Nat, n < Len(s), Narrowed(s, t, l, n)
  PROVE  Narrowed(s, t, Halved(s, t, l), n + 1)
<1>1. Len(s) \in Nat /\ DOMAIN s = 1..Len(s) /\ \A i \in 1..Len(s) : s[i].t \in Nat
  BY SeriesFacts
<1>2. \A i, j \in 1..Len(s) : i < j => s[i].t < s[j].t
  BY <1>1 DEF Growing
<1> DEFINE last == Len(s)  lo == l.lo  hi == l.hi
<1>0. /\ last \in Nat /\ lo \in 1..(last + 1) /\ hi \in 0..last /\ lo <= hi + 1 /\ hi - lo + 1 <= last - n
      /\ l.at = lo - 1 /\ \A i \in 1..last : (i < lo => s[i].t <= t) /\ (i > hi => s[i].t > t)
  BY <1>1 DEF Narrowed
<1>3. CASE l.lo > l.hi
  BY <1>1, <1>3 DEF Narrowed, Halved
<1>4. CASE l.lo <= l.hi
  <2> DEFINE mid == (l.lo + l.hi) \div 2
  <2>7. lo \in Nat /\ hi \in Nat /\ last \in Nat /\ 1 <= lo /\ lo <= hi /\ hi <= last
    BY <1>0, <1>4
  <2>8. (lo + hi) \div 2 \in lo..hi /\ (lo + hi) \div 2 \in 1..last
    <3> HIDE DEF lo, hi, last
    <3>1. QED
      BY <2>7
  <2>1. mid \in l.lo..l.hi /\ mid \in 1..Len(s) /\ l.lo \in Nat /\ l.hi \in Nat /\ s[mid].t \in Nat
    <3>1. mid \in 1..Len(s)
      BY <2>8
    <3>2. s[mid].t \in Nat
      BY <1>1, <3>1
    <3>3. QED
      BY <2>7, <2>8, <3>1, <3>2
  <2>2. Halved(s, t, l) = IF s[mid].t <= t THEN [lo |-> mid + 1, hi |-> l.hi, at |-> mid]
                          ELSE [lo |-> l.lo, hi |-> mid - 1, at |-> l.at]
    BY <1>4, <2>1 DEF Halved
  <2> HIDE DEF mid
  <2>0. mid \in Int /\ lo \in Int /\ hi \in Int /\ last \in Int /\ lo <= mid /\ mid <= hi /\ hi - lo + 1 <= last - n
    BY <1>0, <2>1
  <2>6. 1 <= lo /\ hi <= last
    BY <1>0
  <2>3. CASE s[mid].t <= t
    <3> DEFINE k == [lo |-> mid + 1, hi |-> l.hi, at |-> mid]
    <3>1. \A i \in 1..Len(s) : i < mid + 1 => s[i].t <= t
      BY <1>1, <1>2, <2>1, <2>3
    <3>2. k.lo = mid + 1 /\ k.hi = hi /\ k.at = mid /\ k = [lo |-> k.lo, hi |-> k.hi, at |-> k.at]
      OBVIOUS
    <3>3. Halved(s, t, l) = k
      BY <2>2, <2>3
    <3> HIDE DEF k
    <3> HIDE DEF last, lo, hi
    <3>8. mid + 1 \in 1..(last + 1) /\ hi \in 0..last /\ mid + 1 <= hi + 1 /\ mid = (mid + 1) - 1
      BY <2>0, <2>6
    <3>4. k.lo \in 1..(last + 1) /\ k.hi \in 0..last /\ k.lo <= k.hi + 1 /\ k.at = k.lo - 1
      BY <3>2, <3>8
    <3>10. hi - (mid + 1) + 1 <= last - (n + 1)
      BY <2>0
    <3>5. k.hi - k.lo + 1 <= last - (n + 1)
      BY <3>2, <3>10
    <3>6. \A i \in 1..last : (i < k.lo => s[i].t <= t) /\ (i > k.hi => s[i].t > t)
      BY <1>0, <3>1, <3>2 DEF last
    <3>7. QED
      BY <3>2, <3>3, <3>4, <3>5, <3>6 DEF Narrowed, last
  <2>4. CASE s[mid].t > t
    <3> DEFINE k == [lo |-> l.lo, hi |-> mid - 1, at |-> l.at]
    <3>1. \A i \in 1..Len(s) : i > mid - 1 => s[i].t > t
      BY <1>1, <1>2, <2>1, <2>4
    <3>2. k.lo = lo /\ k.hi = mid - 1 /\ k.at = l.at /\ k = [lo |-> k.lo, hi |-> k.hi, at |-> k.at]
      OBVIOUS
    <3>3. Halved(s, t, l) = k
      BY <2>1, <2>2, <2>4
    <3> HIDE DEF k
    <3> HIDE DEF last, lo, hi
    <3>9. l.at = lo - 1
      BY <1>0
    <3>8. lo \in 1..(last + 1) /\ mid - 1 \in 0..last /\ lo <= (mid - 1) + 1
      BY <2>0, <2>6
    <3>4. k.lo \in 1..(last + 1) /\ k.hi \in 0..last /\ k.lo <= k.hi + 1 /\ k.at = k.lo - 1
      BY <3>2, <3>8, <3>9
    <3>10. (mid - 1) - lo + 1 <= last - (n + 1)
      BY <2>0
    <3>5. k.hi - k.lo + 1 <= last - (n + 1)
      BY <3>2, <3>10
    <3>6. \A i \in 1..last : (i < k.lo => s[i].t <= t) /\ (i > k.hi => s[i].t > t)
      BY <1>0, <3>1, <3>2 DEF last
    <3>7. QED
      BY <3>2, <3>3, <3>4, <3>5, <3>6 DEF Narrowed, last
  <2>5. QED
    BY <2>1, <2>3, <2>4
<1>5. QED
  BY <1>3, <1>4 DEF Narrowed

\* The search finds the last change at or before t, whatever the series.
LEMMA IndexFinds ==
  ASSUME NEW s \in Series, Growing(s), NEW t \in Int
  PROVE  IndexAt(s, t) \in 0..Len(s) /\ \A i \in 1..Len(s) : i <= IndexAt(s, t) <=> s[i].t <= t
<1>1. Len(s) \in Nat /\ \A i \in 1..Len(s) : s[i].t \in Nat
  BY SeriesFacts
<1>13. Len(s) \in Nat
  BY <1>1
<1>14. PICK f : Rounds(f, s, t)
  BY <1>13, LookIsThere
<1>2. /\ IndexAt(s, t) = f[Len(s)].at
      /\ f[0] = AllSeen(s) /\ \A n \in 1..Len(s) : f[n] = Halved(s, t, f[n - 1])
  BY <1>14 DEF Rounds
<1> DEFINE In == {n \in Nat : Narrowed(s, t, f[n], n)}
<1>3. 0 \in In
  <2>1. f[0].lo = 1 /\ f[0].hi = Len(s) /\ f[0].at = 0 /\ f[0] = [lo |-> f[0].lo, hi |-> f[0].hi, at |-> f[0].at]
    BY <1>2 DEF AllSeen
  <2>2. QED
    BY <1>1, <2>1 DEF Narrowed
<1>4. ASSUME NEW n \in 0..(Len(s) - 1), n \in In PROVE n + 1 \in In
  <2>1. n \in Nat /\ n < Len(s) /\ n + 1 \in 1..Len(s) /\ (n + 1) - 1 = n /\ Narrowed(s, t, f[n], n)
    BY <1>1, <1>4
  <2>2. Narrowed(s, t, Halved(s, t, f[n]), n + 1)
    BY <2>1, HalvedNarrows
  <2>3. QED
    BY <1>2, <2>1, <2>2
<1> HIDE DEF In
<1>5. Narrowed(s, t, f[Len(s)], Len(s))
  <2>1. \A i \in 0..Len(s) : i \in In
    BY <1>1, <1>3, <1>4, Climbing
  <2>2. QED
    BY <1>1, <2>1 DEF In
<1> DEFINE l == f[Len(s)]
<1>6. /\ l.hi \in 0..Len(s) /\ l.lo = l.hi + 1 /\ l.at = l.lo - 1
      /\ \A i \in 1..Len(s) : (i < l.lo => s[i].t <= t) /\ (i > l.hi => s[i].t > t)
  BY <1>1, <1>5 DEF Narrowed
<1>7. IndexAt(s, t) = l.at
  BY <1>2
<1> HIDE DEF l
<1>8. l.at = l.hi /\ l.hi \in Nat
  BY <1>1, <1>6
<1> DEFINE m == l.hi
<1>9. m \in 0..Len(s) /\ IndexAt(s, t) = m /\ l.lo = m + 1
  BY <1>6, <1>7, <1>8
<1>10. \A i \in 1..Len(s) : (i < m + 1 => s[i].t <= t) /\ (i > m => s[i].t > t)
  BY <1>6, <1>9
<1> HIDE DEF m, l
<1>11. \A i \in 1..Len(s) : i <= m <=> s[i].t <= t
  <2>1. m \in Nat
    BY <1>1, <1>9
  <2>2. QED
    BY <1>1, <1>10, <2>1
<1>12. QED
  BY <1>9, <1>11

-----------------------------------------------------------------------------
(* What a series says, and how it grows *)

\* Only one place has the changes before it at or before t.
LEMMA IndexIs ==
  ASSUME NEW s \in Series, Growing(s), NEW t \in Int, NEW k \in 0..Len(s),
         k > 0 => s[k].t <= t, k < Len(s) => s[k + 1].t > t
  PROVE  IndexAt(s, t) = k /\ ValueAt(s, t) = IF k = 0 THEN NoValue ELSE s[k].v
<1>1. Len(s) \in Nat /\ \A i \in 1..Len(s) : s[i].t \in Nat
  BY SeriesFacts
<1>2. IndexAt(s, t) \in 0..Len(s) /\ \A i \in 1..Len(s) : i <= IndexAt(s, t) <=> s[i].t <= t
  BY IndexFinds
<1> DEFINE j == IndexAt(s, t)
<1> HIDE DEF j
<1>3. j \in 0..Len(s) /\ \A i \in 1..Len(s) : i <= j <=> s[i].t <= t
  BY <1>2 DEF j
<1>4. k <= j
  BY <1>1, <1>3
<1>5. ~(k < j)
  <2> SUFFICES ASSUME k < j PROVE FALSE
    OBVIOUS
  <2>1. k + 1 \in 1..Len(s) /\ k + 1 <= j /\ k < Len(s)
    BY <1>1, <1>3
  <2>2. s[k + 1].t \in Nat /\ s[k + 1].t <= t
    BY <1>1, <1>3, <2>1
  <2>3. QED
    BY <2>1, <2>2
<1>6. j = k
  BY <1>3, <1>4, <1>5
<1>7. QED
  BY <1>6 DEF ValueAt, j

\* There is always such a place.
LEMMA IndexThere ==
  ASSUME NEW s \in Series, Growing(s), NEW t \in Int
  PROVE  \E k \in 0..Len(s) : /\ (k > 0 => s[k].t <= t) /\ (k < Len(s) => s[k + 1].t > t)
                              /\ IndexAt(s, t) = k /\ ValueAt(s, t) = IF k = 0 THEN NoValue ELSE s[k].v
<1>1. Len(s) \in Nat /\ \A i \in 1..Len(s) : s[i].t \in Nat
  BY SeriesFacts
<1> DEFINE j == IndexAt(s, t)
<1>2. j \in 0..Len(s) /\ \A i \in 1..Len(s) : i <= j <=> s[i].t <= t
  BY IndexFinds
<1> HIDE DEF j
<1>3. j > 0 => s[j].t <= t
  BY <1>1, <1>2
<1>4. j < Len(s) => s[j + 1].t > t
  <2> SUFFICES ASSUME j < Len(s) PROVE s[j + 1].t > t
    OBVIOUS
  <2>1. j + 1 \in 1..Len(s) /\ ~(j + 1 <= j) /\ s[j + 1].t \in Nat
    BY <1>1, <1>2
  <2>2. QED
    BY <1>2, <2>1
<1>5. QED
  BY <1>2, <1>3, <1>4 DEF ValueAt, j

\* A series that grew: what it says from `at` on, and before.
Heeds(s, r, at, v) ==
  /\ r \in Series /\ Growing(r) /\ \A i \in 1..Len(r) : r[i].t <= at
  /\ Len(r) > 0
  /\ \A i \in 1..Len(r) : r[i].v = v \/ \E j \in 1..Len(s) : r[i].v = s[j].v
  /\ \A i \in 1..Len(r) : r[i].t = at \/ \E j \in 1..Len(s) : r[i].t = s[j].t
  /\ \A t \in Int : ValueAt(r, t) = IF t >= at THEN v ELSE ValueAt(s, t)

\* After push a series says v from that time on, and what it said before.
LEMMA PushHeeds ==
  ASSUME NEW s \in Series, Growing(s), NEW at \in Nat, \A i \in 1..Len(s) : s[i].t <= at, NEW v \in Seq(Bits)
  PROVE  Heeds(s, Push(s, at, v), at, v)
<1> DEFINE k == Len(s)
           r == Push(s, at, v)
<1>1. /\ s \in Seq(TimedValue) /\ k \in Nat /\ k = Len(s) /\ DOMAIN s = 1..k
      /\ \A i \in 1..k : s[i] \in TimedValue /\ s[i].t \in Nat /\ s[i].v \in Seq(Bits) /\ s[i].t <= at
  BY SeriesFacts
<1> HIDE DEF k
<1>2. \A i, j \in 1..k : i < j => s[i].t < s[j].t
  BY <1>1 DEF Growing
<1>3. CASE k > 0 /\ s[k].t = at /\ k > 1 /\ s[k - 1].v = v
  <2>1. r = SubSeq(s, 1, k - 1)
    BY <1>1, <1>3 DEF Push
  <2>2. /\ r \in Seq(TimedValue) /\ Len(r) = k - 1 /\ \A i \in 1..(k - 1) : r[i] = s[i]
    BY <1>1, <1>3, <2>1, SubSeqProperties
  <2> HIDE DEF r
  <2>3. r \in Series /\ DOMAIN r = 1..(k - 1)
    BY <2>2, LenProperties DEF Series
  <2>4. Growing(r)
    <3>0. \A i \in 1..(k - 1) : i \in 1..k /\ r[i].t = s[i].t
      BY <1>1, <2>2
    <3>1. \A i, j \in 1..(k - 1) : i < j => r[i].t < r[j].t
      BY <1>2, <3>0
    <3>2. QED
      BY <2>3, <3>1 DEF Growing
  <2>5. \A i \in 1..(k - 1) : r[i].t = s[i].t /\ r[i].v = s[i].v /\ s[i].t \in Nat /\ s[i].t < at /\ i \in 1..k
    <3> TAKE i \in 1..(k - 1)
    <3>1. i \in 1..k /\ k \in 1..k /\ i < k
      BY <1>1, <1>3
    <3>2. s[i].t < s[k].t
      BY <1>2, <3>1
    <3>3. QED
      BY <1>1, <1>3, <2>2, <3>1, <3>2
  <2>6. ASSUME NEW t \in Int PROVE ValueAt(r, t) = IF t >= at THEN v ELSE ValueAt(s, t)
    <3>1. CASE t >= at
      <4>0. k - 1 \in 1..(k - 1)
        BY <1>1, <1>3
      <4>1. k - 1 \in 0..Len(r) /\ k - 1 > 0 /\ r[k - 1].t <= t /\ ~(k - 1 < Len(r)) /\ r[k - 1].v = v
        BY <1>1, <1>3, <2>2, <2>5, <3>1, <4>0
      <4>2. QED
        BY <2>3, <2>4, <3>1, <4>1, IndexIs
    <3>2. CASE t < at
      <4>1. PICK j \in 0..k : /\ (j > 0 => s[j].t <= t) /\ (j < k => s[j + 1].t > t)
                              /\ ValueAt(s, t) = IF j = 0 THEN NoValue ELSE s[j].v
        BY <1>1, IndexThere
      <4>2. j # k
        BY <1>1, <1>3, <3>2, <4>1
      <4>3. j \in 0..(k - 1) /\ (j > 0 => j \in 1..(k - 1)) /\ (j < k - 1 => j + 1 \in 1..(k - 1) /\ j < k)
        BY <1>1, <4>1, <4>2
      <4>4. j \in 0..Len(r) /\ (j > 0 => r[j].t <= t /\ r[j].v = s[j].v) /\ (j < Len(r) => r[j + 1].t > t)
        BY <2>2, <2>5, <4>1, <4>3
      <4>5. ValueAt(r, t) = IF j = 0 THEN NoValue ELSE r[j].v
        BY <2>3, <2>4, <4>4, IndexIs
      <4>6. QED
        BY <1>1, <3>2, <4>1, <4>4, <4>5
    <3>3. QED
      BY <3>1, <3>2
  <2>7. Len(r) > 0
    BY <1>1, <1>3, <2>2
  <2>8. QED
    BY <1>1, <2>2, <2>3, <2>4, <2>5, <2>6, <2>7 DEF Heeds, r
<1>4. CASE k > 0 /\ s[k].t = at /\ ~(k > 1 /\ s[k - 1].v = v)
  <2>1. r = [s EXCEPT ![k].v = v]
    BY <1>1, <1>4 DEF Push
  <2>2. s[k] = [t |-> at, v |-> s[k].v] /\ k \in 1..k
    BY <1>1, <1>4, SeriesFacts
  <2> DEFINE w == [t |-> at, v |-> v]
  <2>3. r = [s EXCEPT ![k] = w]
    <3>1. [s[k] EXCEPT !.v = v] = w
      <4>1. \A a : [[t |-> at, v |-> a] EXCEPT !.v = v] = [t |-> at, v |-> v]
        OBVIOUS
      <4>2. QED
        BY <2>2, <4>1
    <3>2. QED
      BY <2>1, <3>1
  <2>4. w \in TimedValue /\ w.t = at /\ w.v = v
    BY DEF TimedValue
  <2> HIDE DEF w
  <2>5. r \in Seq(TimedValue) /\ Len(r) = k /\ r[k] = w /\ \A i \in 1..k : i # k => r[i] = s[i]
    BY <1>1, <2>2, <2>3, <2>4, ExceptSeq
  <2> HIDE DEF r
  <2>6. r \in Series /\ DOMAIN r = 1..k
    BY <2>5, LenProperties DEF Series
  <2>7. \A i \in 1..k : r[i].t = s[i].t /\ s[i].t \in Nat /\ s[i].t <= at /\ r[i].v = IF i = k THEN v ELSE s[i].v
    BY <1>1, <1>4, <2>4, <2>5
  <2>8. Growing(r)
    BY <1>1, <1>2, <2>6, <2>7 DEF Growing
  <2>9. ASSUME NEW t \in Int PROVE ValueAt(r, t) = IF t >= at THEN v ELSE ValueAt(s, t)
    <3>1. CASE t >= at
      <4>1. k \in 0..Len(r) /\ k > 0 /\ r[k].t <= t /\ ~(k < Len(r)) /\ r[k].v = v
        BY <1>1, <1>4, <2>2, <2>5, <2>7, <3>1
      <4>2. QED
        BY <2>6, <2>8, <3>1, <4>1, IndexIs
    <3>2. CASE t < at
      <4>1. PICK j \in 0..k : /\ (j > 0 => s[j].t <= t) /\ (j < k => s[j + 1].t > t)
                              /\ ValueAt(s, t) = IF j = 0 THEN NoValue ELSE s[j].v
        BY <1>1, IndexThere
      <4>2. j # k
        BY <1>1, <1>4, <3>2, <4>1
      <4>3. (j > 0 => j \in 1..k) /\ (j < k => j + 1 \in 1..k)
        BY <1>1, <4>1
      <4>4. j \in 0..Len(r) /\ (j > 0 => r[j].t <= t /\ r[j].v = s[j].v) /\ (j < Len(r) => r[j + 1].t > t)
        BY <2>5, <2>7, <4>1, <4>2, <4>3
      <4>5. ValueAt(r, t) = IF j = 0 THEN NoValue ELSE r[j].v
        BY <2>6, <2>8, <4>4, IndexIs
      <4>6. QED
        BY <1>1, <3>2, <4>1, <4>4, <4>5
    <3>3. QED
      BY <3>1, <3>2
  <2>10. QED
    BY <1>1, <1>4, <2>5, <2>6, <2>7, <2>8, <2>9 DEF Heeds, r
<1>5. CASE k > 0 /\ s[k].t # at /\ s[k].v = v
  <2>1. r = s
    BY <1>1, <1>5 DEF Push
  <2>2. ASSUME NEW t \in Int PROVE ValueAt(s, t) = IF t >= at THEN v ELSE ValueAt(s, t)
    <3>1. CASE t >= at
      <4>1. k \in 0..Len(s) /\ k > 0 /\ s[k].t <= t /\ ~(k < Len(s))
        BY <1>1, <1>5, <3>1
      <4>2. QED
        BY <1>5, <3>1, <4>1, IndexIs
    <3>2. QED
      BY <3>1
  <2>3. QED
    BY <1>1, <1>5, <2>1, <2>2 DEF Heeds
<1>6. CASE k = 0 \/ (s[k].t # at /\ s[k].v # v)
  <2> DEFINE w == [t |-> at, v |-> v]
  <2>1. r = Append(s, w)
    <3>1. ~(k > 0 /\ s[k].t = at) /\ ~(k > 0 /\ s[k].v = v)
      BY <1>1, <1>6
    <3>2. QED
      BY <1>1, <3>1 DEF Push
  <2>2. w \in TimedValue /\ w.t = at /\ w.v = v
    BY DEF TimedValue
  <2> HIDE DEF w
  <2>3. r \in Seq(TimedValue) /\ Len(r) = k + 1 /\ r[k + 1] = w /\ \A i \in 1..k : r[i] = s[i]
    BY <1>1, <2>1, <2>2, AppendProperties
  <2> HIDE DEF r
  <2>4. r \in Series /\ DOMAIN r = 1..(k + 1)
    BY <2>3, LenProperties DEF Series
  <2>5. /\ \A i \in 1..(k + 1) : i = k + 1 \/ i \in 1..k
        /\ \A i \in 1..k : i \in 1..(k + 1) /\ r[i].t = s[i].t /\ s[i].t \in Nat /\ s[i].t < at /\ r[i].v = s[i].v
        /\ r[k + 1].t = at /\ r[k + 1].v = v
    <3>1. \A i \in 1..(k + 1) : i = k + 1 \/ i \in 1..k
      BY <1>1
    <3>2. ASSUME NEW i \in 1..k
          PROVE  i \in 1..(k + 1) /\ r[i].t = s[i].t /\ s[i].t \in Nat /\ s[i].t < at /\ r[i].v = s[i].v
      <4>1. k \in 1..k /\ k > 0 /\ s[k].t \in Nat /\ s[k].t < at
        BY <1>1, <1>6
      <4>2. s[i].t < at
        <5>1. CASE i = k
          BY <4>1, <5>1
        <5>2. CASE i < k
          <6>1. s[i].t < s[k].t
            BY <1>2, <4>1, <5>2
          <6>2. QED
            BY <1>1, <4>1, <6>1
        <5>3. QED
          BY <1>1, <5>1, <5>2
      <4>3. QED
        BY <1>1, <2>3, <4>2
    <3>3. r[k + 1].t = at /\ r[k + 1].v = v
      BY <2>2, <2>3
    <3>4. QED
      BY <3>1, <3>2, <3>3
  <2>6. Growing(r)
    <3>1. ASSUME NEW i \in 1..(k + 1), NEW j \in 1..(k + 1), i < j PROVE r[i].t < r[j].t
      <4>1. i \in 1..k
        BY <1>1, <3>1
      <4>2. CASE j = k + 1
        BY <2>5, <4>1, <4>2
      <4>3. CASE j \in 1..k
        BY <1>2, <2>5, <3>1, <4>1, <4>3
      <4>4. QED
        BY <2>5, <4>2, <4>3
    <3>2. QED
      BY <2>4, <3>1 DEF Growing
  <2>7. ASSUME NEW t \in Int PROVE ValueAt(r, t) = IF t >= at THEN v ELSE ValueAt(s, t)
    <3>1. CASE t >= at
      <4>1. k + 1 \in 0..Len(r) /\ k + 1 > 0 /\ r[k + 1].t <= t /\ ~(k + 1 < Len(r))
        BY <1>1, <2>3, <2>5, <3>1
      <4>2. QED
        BY <2>4, <2>5, <2>6, <3>1, <4>1, IndexIs
    <3>2. CASE t < at
      <4>1. PICK j \in 0..k : /\ (j > 0 => s[j].t <= t) /\ (j < k => s[j + 1].t > t)
                              /\ ValueAt(s, t) = IF j = 0 THEN NoValue ELSE s[j].v
        BY <1>1, IndexThere
      <4>2. j \in 0..Len(r) /\ (j > 0 => r[j].t <= t /\ r[j].v = s[j].v) /\ (j < Len(r) => r[j + 1].t > t)
        <5>1. j < k => j + 1 \in 1..k /\ r[j + 1].t > t
          BY <1>1, <2>5, <4>1
        <5>2. j = k => r[j + 1].t > t
          BY <2>5, <3>2
        <5>3. j > 0 => j \in 1..k /\ r[j].t <= t /\ r[j].v = s[j].v
          BY <1>1, <2>5, <4>1
        <5>4. QED
          BY <1>1, <2>3, <4>1, <5>1, <5>2, <5>3
      <4>3. ValueAt(r, t) = IF j = 0 THEN NoValue ELSE r[j].v
        BY <2>4, <2>6, <4>2, IndexIs
      <4>4. QED
        BY <3>2, <4>1, <4>2, <4>3
    <3>3. QED
      BY <3>1, <3>2
  <2>8. /\ Len(r) > 0 /\ \A i \in 1..Len(r) : r[i].t <= at
        /\ \A i \in 1..Len(r) : r[i].v = v \/ \E j \in 1..Len(s) : r[i].v = s[j].v
        /\ \A i \in 1..Len(r) : r[i].t = at \/ \E j \in 1..Len(s) : r[i].t = s[j].t
    <3>1. ASSUME NEW i \in 1..(k + 1)
          PROVE  /\ r[i].t <= at
                 /\ r[i].v = v \/ \E j \in 1..k : r[i].v = s[j].v
                 /\ r[i].t = at \/ \E j \in 1..k : r[i].t = s[j].t
      <4>1. CASE i = k + 1
        BY <2>5, <4>1
      <4>2. CASE i \in 1..k
        BY <2>5, <4>2
      <4>3. QED
        BY <2>5, <4>1, <4>2
    <3>2. Len(r) = k + 1 /\ Len(s) = k /\ Len(r) > 0
      BY <1>1, <2>3
    <3> HIDE DEF k
    <3>3. QED
      BY <3>1, <3>2
  <2>9. QED
    BY <2>4, <2>6, <2>7, <2>8 DEF Heeds, r
<1>7. QED
  BY <1>1, <1>3, <1>4, <1>5, <1>6

-----------------------------------------------------------------------------
(* The bits of a bus *)

BitStep(s, k, i, done) ==
  IF done # <<>> /\ done[Len(done)].v = <<s[i].v[k]>> THEN done
  ELSE Append(done, [t |-> s[i].t, v |-> <<s[i].v[k]>>])
BitsBy(f, s, k) ==
  f = [i \in 0..Len(s) |->
        IF i = 0 THEN <<>>
        ELSE LET done == f[i - 1] bit == <<s[i].v[k]>> IN
             IF done # <<>> /\ done[Len(done)].v = bit THEN done
             ELSE Append(done, [t |-> s[i].t, v |-> bit])]
HasBit(s, k) == \A i \in 1..Len(s) : k \in 1..Len(s[i].v)

LEMMA BitOf ==
  ASSUME NEW s \in Series, NEW k, HasBit(s, k), NEW i \in 1..Len(s)
  PROVE  s[i].t \in Nat /\ <<s[i].v[k]>> \in Seq(Bits) /\ Len(<<s[i].v[k]>>) = 1
         /\ [t |-> s[i].t, v |-> <<s[i].v[k]>>] \in TimedValue
<1>1. s[i].t \in Nat /\ s[i].v \in Seq(Bits) /\ k \in 1..Len(s[i].v)
  BY SeriesFacts DEF HasBit
<1>2. s[i].v[k] \in Bits
  BY <1>1, ElementOfSeq
<1> DEFINE bit == <<s[i].v[k]>>
<1>3. bit \in Seq(Bits) /\ Len(bit) = 1
  BY <1>2
<1> HIDE DEF bit
<1>4. [t |-> s[i].t, v |-> bit] \in TimedValue
  BY <1>1, <1>3 DEF TimedValue
<1>5. QED
  BY <1>1, <1>3, <1>4 DEF bit

\* The recursive function behind the bits of a bus.
LEMMA BitsAreThere ==
  ASSUME NEW s \in Series, NEW k, HasBit(s, k)
  PROVE  \E f : /\ BitSeries(s, k) = f[Len(s)]
                /\ f[0] = <<>> /\ \A i \in 1..Len(s) : f[i] = BitStep(s, k, i, f[i - 1])
<1> DEFINE n == Len(s)
           x == <<>>
           Q == Series
           G == [p \in (1..n) \X Q |-> BitStep(s, k, p[1], p[2])]
<1>1. \A i \in 1..n, q \in Q : G[<<i, q>>] = BitStep(s, k, i, q)
  OBVIOUS
<1>2. FoldsFrom(x, n, Q, G)
  <2>1. x \in Q /\ n \in Nat
    BY SeriesFacts, EmptySeq DEF Series
  <2>2. \A i \in 1..n, q \in Q : G[<<i, q>>] \in Q
    <3> TAKE i \in 1..n, q \in Q
    <3>1. Append(q, [t |-> s[i].t, v |-> <<s[i].v[k]>>]) \in Q
      BY BitOf, AppendProperties DEF Series
    <3>2. QED
      BY <1>1, <3>1 DEF BitStep
  <2> HIDE DEF x, Q
  <2>3. QED
    BY <2>1, <2>2 DEF FoldsFrom
<1> HIDE DEF G, n, Q, x
<1>3. PICK f \in [0..n -> Q] : f[0] = x /\ \A i \in 1..n : f[i] = G[<<i, f[i - 1]>>]
  BY <1>2, Folding
<1>4. \A i \in 0..n : f[i] = IF i = 0 THEN x ELSE BitStep(s, k, i, f[i - 1])
  <2> TAKE i \in 0..n
  <2>1. i = 0 \/ (i \in 1..n /\ f[i - 1] \in Q)
    BY DEF n
  <2>2. QED
    BY <1>1, <1>3, <2>1
<1>5. BitsBy(f, s, k)
  BY <1>4 DEF BitsBy, BitStep, n, x
<1> DEFINE g == CHOOSE h : BitsBy(h, s, k)
<1>6. BitsBy(g, s, k)
  BY <1>5
<1>7. BitSeries(s, k) = g[Len(s)]
  BY DEF BitSeries, BitsBy
<1> HIDE DEF g
<1>8. g[0] = <<>> /\ \A i \in 1..Len(s) : g[i] = BitStep(s, k, i, g[i - 1])
  <2>1. \A i \in 0..Len(s) : g[i] = IF i = 0 THEN <<>> ELSE BitStep(s, k, i, g[i - 1])
    BY <1>6 DEF BitsBy, BitStep
  <2>2. 0 \in 0..Len(s) /\ \A i \in 1..Len(s) : i \in 0..Len(s) /\ i # 0
    BY SeriesFacts
  <2>3. QED
    BY <2>1, <2>2
<1>9. QED
  BY <1>7, <1>8

\* The first i changes of the bit: what it says is what the bus says, up to then.
BitSays(s, k, i, t) ==
  LET j == Earlier(IndexAt(s, t), i) IN IF j = 0 THEN NoValue ELSE <<s[j].v[k]>>
BitsUpTo(r, s, k, i) ==
  /\ r \in Series /\ Growing(r) /\ (i > 0 => Len(r) > 0)
  /\ \A m \in 1..Len(r) : Len(r[m].v) = 1 /\ \E j \in 1..i : r[m].t = s[j].t
  /\ \A t \in Int : ValueAt(r, t) = BitSays(s, k, i, t)

LEMMA NothingYet ==
  ASSUME NEW s, s = <<>>
  PROVE  /\ s \in Series /\ Growing(s) /\ Len(s) = 0
         /\ \A t \in Int : IndexAt(s, t) = 0 /\ ValueAt(s, t) = NoValue
<1>1. s \in Series /\ Len(s) = 0 /\ DOMAIN s = {}
  BY EmptySeq DEF Series
<1>2. Growing(s)
  BY <1>1 DEF Growing
<1>3. \A t \in Int : IndexAt(s, t) = 0 /\ ValueAt(s, t) = NoValue
  <2> TAKE t \in Int
  <2>1. IndexAt(s, t) \in 0..0
    BY <1>1, <1>2, IndexFinds
  <2>2. QED
    BY <2>1 DEF ValueAt
<1>4. QED
  BY <1>1, <1>2, <1>3

\* One change more of the bus.
LEMMA OneMoreBit ==
  ASSUME NEW s \in Series, Growing(s), NEW k, HasBit(s, k), NEW i \in Nat, i + 1 \in 1..Len(s),
         NEW r, BitsUpTo(r, s, k, i)
  PROVE  BitsUpTo(BitStep(s, k, i + 1, r), s, k, i + 1)
<1> DEFINE bit == <<s[i + 1].v[k]>>
           when == s[i + 1].t
           q == BitStep(s, k, i + 1, r)
<1>1. when \in Nat /\ bit \in Seq(Bits) /\ Len(bit) = 1
  BY BitOf
<1>2. /\ Len(s) \in Nat /\ DOMAIN s = 1..Len(s) /\ Len(r) \in Nat /\ DOMAIN r = 1..Len(r)
      /\ (\A j \in 1..Len(s) : s[j].t \in Nat) /\ \A m \in 1..Len(r) : r[m].t \in Nat
  BY SeriesFacts DEF BitsUpTo
<1>3. \A j \in 1..i : j \in 1..Len(s) /\ s[j].t < when
  BY <1>2 DEF Growing
<1>4. \A m \in 1..Len(r) : r[m].t < when
  BY <1>3 DEF BitsUpTo
<1>5. q = Push(r, when, bit)
  <2>1. r # <<>> <=> Len(r) > 0
    BY <1>2, EmptySeq DEF BitsUpTo, Series
  <2>2. Len(r) > 0 => r[Len(r)].t # when
    BY <1>1, <1>2, <1>4
  <2> HIDE DEF when, bit
  <2>3. q = IF Len(r) > 0 /\ r[Len(r)].v = bit THEN r ELSE Append(r, [t |-> when, v |-> bit])
    BY <2>1 DEF BitStep, when, bit
  <2>4. QED
    BY <2>2, <2>3 DEF Push
<1> HIDE DEF when, bit, q
<1>6. \A m \in 1..Len(r) : r[m].t <= when
  BY <1>1, <1>2, <1>4
<1>7. Heeds(r, q, when, bit)
  BY <1>1, <1>5, <1>6, PushHeeds DEF BitsUpTo
<1>8. \A m \in 1..Len(q) : Len(q[m].v) = 1
  <2>1. \A m \in 1..Len(q) : q[m].v = bit \/ \E j \in 1..Len(r) : q[m].v = r[j].v
    BY <1>7 DEF Heeds
  <2>2. \A j \in 1..Len(r) : Len(r[j].v) = 1
    BY DEF BitsUpTo
  <2>3. QED
    BY <1>1, <2>1, <2>2
<1>9. \A m \in 1..Len(q) : \E j \in 1..(i + 1) : q[m].t = s[j].t
  <2> TAKE m \in 1..Len(q)
  <2>1. CASE q[m].t = when
    <3>1. i + 1 \in 1..(i + 1)
      OBVIOUS
    <3>2. QED
      BY <2>1, <3>1 DEF when
  <2>2. CASE \E l \in 1..Len(r) : q[m].t = r[l].t
    <3>1. PICK j \in 1..i : q[m].t = s[j].t
      BY <2>2 DEF BitsUpTo
    <3>2. j \in 1..(i + 1)
      OBVIOUS
    <3>3. QED
      BY <3>1, <3>2
  <2>3. QED
    BY <1>7, <2>1, <2>2 DEF Heeds
<1>10. ASSUME NEW t \in Int PROVE ValueAt(q, t) = BitSays(s, k, i + 1, t)
  <2> DEFINE j == IndexAt(s, t)
  <2>1. j \in 0..Len(s) /\ (i + 1 <= j <=> when <= t)
    BY IndexFinds DEF when
  <2>2. ValueAt(q, t) = IF t >= when THEN bit ELSE ValueAt(r, t)
    BY <1>7 DEF Heeds
  <2>3. ValueAt(r, t) = BitSays(s, k, i, t)
    BY DEF BitsUpTo
  <2> HIDE DEF j
  <2>4. CASE t >= when
    <3>1. Earlier(j, i + 1) = i + 1 /\ i + 1 # 0
      BY <1>1, <1>2, <2>1, <2>4 DEF Earlier
    <3>2. QED
      BY <2>2, <2>4, <3>1 DEF BitSays, bit, j
  <2>5. CASE t < when
    <3>1. Earlier(j, i + 1) = Earlier(j, i)
      BY <1>1, <1>2, <2>1, <2>5 DEF Earlier
    <3>2. ~(t >= when)
      BY <1>1, <2>5
    <3>3. BitSays(s, k, i + 1, t) = BitSays(s, k, i, t)
      BY <3>1 DEF BitSays, j
    <3>4. QED
      BY <2>2, <2>3, <3>2, <3>3
  <2>6. QED
    BY <1>1, <2>4, <2>5
<1>11. q \in Series /\ Growing(q) /\ Len(q) > 0
  BY <1>7 DEF Heeds
<1>12. BitsUpTo(q, s, k, i + 1)
  BY <1>8, <1>9, <1>10, <1>11 DEF BitsUpTo
<1>13. QED
  BY <1>12 DEF q

\* A bit of the bus is a series of its own, and says what that bit of the bus says.
LEMMA BitSeriesTells ==
  ASSUME NEW s \in Series, Growing(s), NEW k, HasBit(s, k)
  PROVE  BitsUpTo(BitSeries(s, k), s, k, Len(s))
<1>1. Len(s) \in Nat
  BY SeriesFacts
<1>2. PICK f : /\ BitSeries(s, k) = f[Len(s)]
               /\ f[0] = <<>> /\ \A i \in 1..Len(s) : f[i] = BitStep(s, k, i, f[i - 1])
  BY BitsAreThere
<1> DEFINE In == {i \in Nat : BitsUpTo(f[i], s, k, i)}
<1>3. 0 \in In
  <2>1. /\ f[0] \in Series /\ Growing(f[0]) /\ Len(f[0]) = 0
        /\ \A t \in Int : ValueAt(f[0], t) = NoValue
    BY <1>2, NothingYet
  <2>2. \A t \in Int : BitSays(s, k, 0, t) = NoValue
    <3> TAKE t \in Int
    <3>1. IndexAt(s, t) \in 0..Len(s)
      BY IndexFinds
    <3>2. Earlier(IndexAt(s, t), 0) = 0
      BY <1>1, <3>1 DEF Earlier
    <3>3. QED
      BY <3>2 DEF BitSays
  <2>3. BitsUpTo(f[0], s, k, 0)
    BY <2>1, <2>2 DEF BitsUpTo
  <2>4. QED
    BY <2>3
<1>4. ASSUME NEW i \in 0..(Len(s) - 1), i \in In PROVE i + 1 \in In
  <2>1. i \in Nat /\ i + 1 \in 1..Len(s) /\ (i + 1) - 1 = i /\ BitsUpTo(f[i], s, k, i)
    BY <1>1, <1>4
  <2>2. BitsUpTo(BitStep(s, k, i + 1, f[i]), s, k, i + 1)
    BY <2>1, OneMoreBit
  <2>3. QED
    BY <1>2, <2>1, <2>2
<1> HIDE DEF In
<1>5. \A i \in 0..Len(s) : i \in In
  BY <1>1, <1>3, <1>4, Climbing
<1>6. QED
  BY <1>1, <1>2, <1>5 DEF In

-----------------------------------------------------------------------------
(* Values cut or extended to a width *)

Fill(v) == IF Head(v) \in {"x", "z"} THEN Head(v) ELSE "0"

LEMMA ExtendedBits ==
  ASSUME NEW v \in Seq(Bits), v # <<>>, NEW w \in Nat \ {0}
  PROVE  /\ Extended(v, w) \in Seq(Bits) /\ Len(Extended(v, w)) = w
         /\ Len(v) >= w => \A i \in 1..w : Extended(v, w)[i] = v[Len(v) - w + i]
         /\ Len(v) < w => \A i \in 1..w :
              Extended(v, w)[i] = IF i <= w - Len(v) THEN Fill(v) ELSE v[i - (w - Len(v))]
<1>1. Len(v) \in Nat \ {0} /\ v[1] \in Bits /\ Head(v) = v[1]
  BY EmptySeq, LenProperties, ElementOfSeq, HeadTailProperties
<1>2. CASE Len(v) >= w
  <2> DEFINE from == Len(v) - w + 1
             e == SubSeq(v, from, Len(v))
  <2>1. from \in 1..Len(v) /\ Len(v) \in Int /\ Len(v) - from + 1 = w
    BY <1>1, <1>2
  <2>2. Extended(v, w) = e
    BY <1>2 DEF Extended
  <2> HIDE DEF from
  <2>3. \A i \in from..Len(v) : v[i] \in Bits
    BY <2>1, ElementOfSeq
  <2>4. e \in Seq(Bits) /\ Len(e) = w /\ \A i \in 1..(Len(v) - from + 1) : e[i] = v[from + i - 1]
    BY <2>1, <2>3, SubSeqProperties
  <2> HIDE DEF e
  <2>5. \A i \in 1..w : e[i] = v[Len(v) - w + i]
    <3> TAKE i \in 1..w
    <3>1. from + i - 1 = Len(v) - w + i
      BY <1>1 DEF from
    <3>2. i \in 1..(Len(v) - from + 1)
      BY <2>1
    <3>3. QED
      BY <2>4, <3>1, <3>2
  <2>6. ~(Len(v) < w)
    BY <1>1, <1>2
  <2>7. QED
    BY <1>2, <2>2, <2>4, <2>5, <2>6
<1>3. CASE Len(v) < w
  <2> DEFINE n == w - Len(v)
             b == Fill(v)
             a == [i \in 1..n |-> b]
  <2>1. n \in Nat /\ n + Len(v) = w
    BY <1>1, <1>3
  <2>2. b \in Bits
    BY <1>1 DEF Fill, Bits
  <2>3. Extended(v, w) = a \o v
    BY <1>1, <1>3 DEF Extended, Fill
  <2> HIDE DEF n, b
  <2>4. a \in Seq(Bits) /\ Len(a) = n /\ \A i \in 1..n : a[i] = b
    BY <2>1, <2>2
  <2> HIDE DEF a
  <2>5. a \o v \in Seq(Bits) /\ Len(a \o v) = w /\ \A i \in 1..w : (a \o v)[i] = IF i <= n THEN b ELSE v[i - n]
    <3>1. \A i \in 1..w : i <= n => i \in 1..n
      BY <2>1
    <3>2. QED
      BY <2>1, <2>4, <3>1, ConcatProperties
  <2>6. ~(Len(v) >= w)
    BY <1>1, <1>3
  <2>7. QED
    BY <1>3, <2>3, <2>5, <2>6 DEF n, b
<1>4. QED
  BY <1>1, <1>2, <1>3

\* A code's values: only known bits of a bus are cut.
Fits(v, w) ==
  /\ v \in Seq(Bits) /\ v # <<>> /\ w \in Nat \ {0}
  /\ Len(v) > w => w > 1 /\ \A i \in 1..(Len(v) - w) : v[i] \in {"0", "1"}

\* Cutting or extending keeps whether a value is unknown.
LEMMA SameUnknown ==
  ASSUME NEW v, NEW w, Fits(v, w)
  PROVE  Unknown(Extended(v, w)) <=> Unknown(v)
<1> DEFINE e == Extended(v, w)
<1>1. /\ Len(v) \in Nat \ {0} /\ DOMAIN v = 1..Len(v) /\ Head(v) = v[1] /\ w \in Nat \ {0}
      /\ v \in Seq(Bits) /\ v # <<>>
  BY EmptySeq, LenProperties, HeadTailProperties DEF Fits
<1>2. e \in Seq(Bits) /\ Len(e) = w
  BY <1>1, ExtendedBits
<1>3. DOMAIN e = 1..w
  BY <1>2, LenProperties
<1>4. CASE Len(v) >= w
  <2>1. \A i \in 1..w : e[i] = v[Len(v) - w + i] /\ Len(v) - w + i \in 1..Len(v)
    <3> TAKE i \in 1..w
    <3>1. e[i] = v[Len(v) - w + i]
      BY <1>1, <1>4, ExtendedBits
    <3>2. QED
      BY <1>1, <1>4, <3>1
  <2> HIDE DEF e
  <2>2. ASSUME NEW i \in 1..Len(v), v[i] \in {"x", "z"} PROVE \E j \in 1..w : e[j] \in {"x", "z"}
    <3>1. ~(i <= Len(v) - w)
      <4> SUFFICES ASSUME i <= Len(v) - w PROVE FALSE
        OBVIOUS
      <4>1. Len(v) > w /\ i \in 1..(Len(v) - w)
        BY <1>1
      <4>2. v[i] \in {"0", "1"}
        BY <4>1 DEF Fits
      <4>3. QED
        BY <2>2, <4>2
    <3> DEFINE j == i - (Len(v) - w)
    <3>2. j \in 1..w /\ Len(v) - w + j = i
      BY <1>1, <3>1
    <3>3. e[j] = v[i]
      BY <2>1, <3>2
    <3>4. QED
      BY <2>2, <3>2, <3>3
  <2>3. QED
    BY <1>1, <1>3, <2>1, <2>2 DEF Unknown, e
<1>5. CASE Len(v) < w
  <2>1. \A i \in 1..w : e[i] = IF i <= w - Len(v) THEN Fill(v) ELSE v[i - (w - Len(v))]
    BY <1>1, <1>5, ExtendedBits
  <2> HIDE DEF e
  <2>2. ASSUME NEW i \in 1..w, e[i] \in {"x", "z"} PROVE \E j \in 1..Len(v) : v[j] \in {"x", "z"}
    <3>1. CASE i <= w - Len(v)
      <4>1. v[1] \in {"x", "z"} /\ 1 \in 1..Len(v)
        BY <1>1, <2>1, <2>2, <3>1 DEF Fill
      <4>2. QED
        BY <4>1
    <3>2. CASE i > w - Len(v)
      <4> DEFINE j == i - (w - Len(v))
      <4>1. j \in 1..Len(v) /\ e[i] = v[j]
        BY <1>1, <2>1, <3>2
      <4>2. QED
        BY <2>2, <4>1
    <3>3. QED
      BY <1>1, <3>1, <3>2
  <2>3. ASSUME NEW j \in 1..Len(v), v[j] \in {"x", "z"} PROVE \E i \in 1..w : e[i] \in {"x", "z"}
    <3> DEFINE i == j + (w - Len(v))
    <3>1. i \in 1..w /\ ~(i <= w - Len(v)) /\ i - (w - Len(v)) = j
      BY <1>1, <1>5
    <3>2. e[i] = v[j]
      BY <2>1, <3>1
    <3>3. QED
      BY <2>3, <3>1, <3>2
  <2>4. QED
    BY <1>1, <1>3, <2>2, <2>3 DEF Unknown, e
<1>6. QED
  BY <1>1, <1>4, <1>5

\* Where the pane draws a level it is the window's, except that z is in the middle.
LEMMA SameLevel ==
  ASSUME NEW v, NEW w, Fits(v, w)
  PROVE  PaneLevel(v, w) = IF Level(Extended(v, w)) = "float" THEN "unknown" ELSE Level(Extended(v, w))
<1> DEFINE e == Extended(v, w)
<1>1. /\ Len(v) \in Nat \ {0} /\ DOMAIN v = 1..Len(v) /\ w \in Nat \ {0} /\ v \in Seq(Bits) /\ v # <<>>
  BY EmptySeq, LenProperties DEF Fits
<1>2. e \in Seq(Bits) /\ Len(e) = w
  BY <1>1, ExtendedBits
<1>3. DOMAIN e = 1..w
  BY <1>2, LenProperties
<1>4. Unknown(e) <=> Unknown(v)
  BY SameUnknown
<1>5. Floats(e) => Unknown(e)
  <2>1. 1 \in DOMAIN e
    BY <1>1, <1>3
  <2> HIDE DEF e
  <2>2. QED
    BY <2>1 DEF Floats, Unknown
<1>6. w = 1 => e = v
  <2> SUFFICES ASSUME w = 1 PROVE e = v
    OBVIOUS
  <2>1. Len(v) = 1 /\ Len(v) >= w
    BY <1>1 DEF Fits
  <2>2. \A i \in 1..1 : e[i] = v[Len(v) - 1 + i]
    <3>1. \A i \in 1..w : e[i] = v[Len(v) - w + i]
      BY <1>1, <2>1, ExtendedBits
    <3> HIDE DEF e
    <3>2. QED
      BY <3>1
  <2> HIDE DEF e
  <2>3. \A i \in 1..Len(v) : e[i] = v[i]
    BY <2>1, <2>2
  <2>4. Len(e) = Len(v)
    BY <1>2, <2>1
  <2>5. QED
    BY <1>1, <1>2, <2>3, <2>4, SeqEqual
<1>7. w # 1 => e # <<"1">> /\ e # <<"0">>
  <2>1. Len(<<"1">>) = 1 /\ Len(<<"0">>) = 1
    OBVIOUS
  <2>2. QED
    BY <1>2, <2>1
<1> HIDE DEF e
<1>8. (Floats(e) \/ Unknown(e)) <=> Unknown(v)
  BY <1>4, <1>5
<1>9. PaneLevel(v, w) = IF w = 1 /\ v = <<"1">> THEN "high" ELSE IF w = 1 /\ v = <<"0">> THEN "low"
                        ELSE IF Unknown(v) THEN "unknown" ELSE "value"
  BY DEF PaneLevel, Unknown
<1>10. Level(e) = IF w = 1 /\ v = <<"1">> THEN "high" ELSE IF w = 1 /\ v = <<"0">> THEN "low"
                  ELSE IF Floats(e) THEN "float" ELSE IF Unknown(v) THEN "unknown" ELSE "value"
  <2>1. (e = <<"1">> <=> w = 1 /\ v = <<"1">>) /\ (e = <<"0">> <=> w = 1 /\ v = <<"0">>)
    BY <1>6, <1>7
  <2>2. QED
    BY <1>4, <2>1 DEF Level
<1> DEFINE up == w = 1 /\ v = <<"1">>
           dn == w = 1 /\ v = <<"0">>
<1>11. PaneLevel(v, w) = IF up THEN "high" ELSE IF dn THEN "low" ELSE IF Unknown(v) THEN "unknown" ELSE "value"
  BY <1>9
<1>12. Level(e) = IF up THEN "high" ELSE IF dn THEN "low" ELSE IF Floats(e) THEN "float"
                  ELSE IF Unknown(v) THEN "unknown" ELSE "value"
  BY <1>10
<1> HIDE DEF up, dn
<1>13. PaneLevel(v, w) = IF Level(e) = "float" THEN "unknown" ELSE Level(e)
  BY <1>8, <1>11, <1>12
<1>14. QED
  BY <1>13 DEF e

\* Nothing known reads as x in every bit.
LEMMA ExtendedX ==
  ASSUME NEW w \in Nat \ {0}
  PROVE  Extended(<<"x">>, w) = [k \in 1..w |-> "x"]
<1> DEFINE v == <<"x">>
           e == Extended(v, w)
           all == [k \in 1..w |-> "x"]
<1>1. v \in Seq(Bits) /\ v # <<>> /\ Len(v) = 1 /\ v[1] = "x" /\ Head(v) = "x" /\ Fill(v) = "x"
  BY DEF Bits, Fill
<1>2. "x" \in Bits
  BY DEF Bits
<1> HIDE DEF v
<1>3. e \in Seq(Bits) /\ Len(e) = w
  BY <1>1, ExtendedBits
<1>4. \A i \in 1..w : e[i] = "x"
  <2>1. CASE w = 1
    <3>0. Len(v) >= w
      BY <1>1, <2>1
    <3>1. \A i \in 1..w : e[i] = v[Len(v) - w + i]
      BY <1>1, <3>0, ExtendedBits
    <3> HIDE DEF e
    <3>2. QED
      BY <1>1, <2>1, <3>1
  <2>2. CASE w > 1
    <3>1. \A i \in 1..w : e[i] = IF i <= w - Len(v) THEN Fill(v) ELSE v[i - (w - Len(v))]
      BY <1>1, <2>2, ExtendedBits
    <3> HIDE DEF e
    <3>2. \A i \in 1..w : ~(i <= w - 1) => i - (w - 1) = 1
      OBVIOUS
    <3>3. QED
      BY <1>1, <2>2, <3>1, <3>2
  <2>3. QED
    BY <2>1, <2>2
<1>5. all \in Seq(Bits) /\ Len(all) = w /\ \A i \in 1..w : all[i] = "x"
  BY <1>2
<1> HIDE DEF e, all
<1>6. e = all
  BY <1>3, <1>4, <1>5, SeqEqual
<1>7. QED
  BY <1>6 DEF e, all, v

-----------------------------------------------------------------------------
(* The changes of the pane, every one as it came *)

Steady(a) == \A i, j \in 1..Len(a) : i <= j => a[i].t <= a[j].t
PaneHas(a, t) == {i \in DOMAIN a : \A j \in 1..i : a[j].t <= t}
PaneSaid(a, t) == IF PaneHas(a, t) = {} THEN NoValue ELSE a[Cardinality(PaneHas(a, t))].v
PaneUpTo(a, t, k) == (k > 0 => a[k].t <= t) /\ (k < Len(a) => a[k + 1].t > t)

\* The recursive function of the pane's list.
LEMMA PaneIs ==
  ASSUME NEW a \in Series, Steady(a), NEW t \in Int, NEW k \in 0..Len(a), PaneUpTo(a, t, k)
  PROVE  /\ PaneHas(a, t) = 1..k /\ Cardinality(PaneHas(a, t)) = k
         /\ PaneSaid(a, t) = IF k = 0 THEN NoValue ELSE a[k].v
<1>1. Len(a) \in Nat /\ DOMAIN a = 1..Len(a) /\ \A i \in 1..Len(a) : a[i].t \in Nat
  BY SeriesFacts
<1>2. ASSUME NEW i \in 1..k PROVE i \in PaneHas(a, t)
  <2>1. \A j \in 1..i : a[j].t <= t
    <3> TAKE j \in 1..i
    <3>1. j \in 1..Len(a) /\ k \in 1..Len(a) /\ j <= k /\ k > 0
      BY <1>1
    <3>2. a[j].t <= a[k].t /\ a[k].t <= t
      BY <3>1 DEF Steady, PaneUpTo
    <3>3. QED
      BY <1>1, <3>1, <3>2
  <2>2. i \in DOMAIN a
    BY <1>1
  <2>3. QED
    BY <2>1, <2>2 DEF PaneHas
<1>3. ASSUME NEW i \in PaneHas(a, t) PROVE i \in 1..k
  <2>1. i \in 1..Len(a) /\ \A j \in 1..i : a[j].t <= t
    BY <1>1 DEF PaneHas
  <2>2. ~(i > k)
    <3> SUFFICES ASSUME i > k PROVE FALSE
      OBVIOUS
    <3>1. k + 1 \in 1..i /\ k < Len(a) /\ k + 1 \in 1..Len(a)
      BY <1>1, <2>1
    <3>2. a[k + 1].t <= t /\ a[k + 1].t > t /\ a[k + 1].t \in Nat
      BY <1>1, <2>1, <3>1 DEF PaneUpTo
    <3>3. QED
      BY <3>2
  <2>3. QED
    BY <1>1, <2>1, <2>2
<1>4. PaneHas(a, t) = 1..k
  BY <1>2, <1>3
<1>5. Cardinality(1..k) = k
  BY FS_Interval
<1>6. 1..k = {} <=> k = 0
  BY <1>1
<1>7. QED
  BY <1>4, <1>5, <1>6 DEF PaneSaid

LEMMA PaneThere ==
  ASSUME NEW a \in Series, NEW t \in Int
  PROVE  \E k \in 0..Len(a) : PaneUpTo(a, t, k)
<1>1. Len(a) \in Nat /\ \A i \in 1..Len(a) : a[i].t \in Nat
  BY SeriesFacts
<1> DEFINE Beyond == {i \in 1..Len(a) : a[i].t > t}
<1>2. CASE Beyond = {}
  <2>1. PaneUpTo(a, t, Len(a))
    BY <1>1, <1>2 DEF PaneUpTo
  <2>2. QED
    BY <1>1, <2>1
<1>3. CASE Beyond # {}
  <2>1. PICK m \in Beyond : \A i \in Beyond : m <= i
    <3>1. Beyond \in SUBSET Nat
      OBVIOUS
    <3>2. QED
      BY <1>3, <3>1, LeastOne
  <2>2. m - 1 \in 0..Len(a) /\ a[m].t > t /\ m - 1 + 1 = m
    BY <1>1, <2>1
  <2>3. m - 1 > 0 => a[m - 1].t <= t
    <3> SUFFICES ASSUME m - 1 > 0 PROVE a[m - 1].t <= t
      OBVIOUS
    <3>1. m - 1 \in 1..Len(a) /\ ~(m <= m - 1)
      BY <1>1, <2>1
    <3>2. m - 1 \notin Beyond
      BY <2>1, <3>1
    <3>3. QED
      BY <1>1, <3>1, <3>2
  <2>4. PaneUpTo(a, t, m - 1)
    BY <2>2, <2>3 DEF PaneUpTo
  <2>5. QED
    BY <2>2, <2>4
<1>4. QED
  BY <1>2, <1>3

\* The pane's changes with one more, of now.
Adds(a, b, at, v) ==
  /\ b \in Series /\ Steady(b) /\ Len(b) > 0
  /\ \A i \in 1..Len(b) : b[i].t <= at /\ (b[i].v = v \/ \E j \in 1..Len(a) : b[i].v = a[j].v)
  /\ \A t \in Int : PaneSaid(b, t) = IF t >= at THEN v ELSE PaneSaid(a, t)

LEMMA PaneMore ==
  ASSUME NEW a \in Series, Steady(a), NEW at \in Nat, \A i \in 1..Len(a) : a[i].t <= at, NEW v \in Seq(Bits),
         NEW b, b = Append(a, [t |-> at, v |-> v])
  PROVE  Adds(a, b, at, v)
<1> DEFINE x == [t |-> at, v |-> v]
           n == Len(a)
<1>1. x \in TimedValue /\ x.t = at /\ x.v = v
  BY DEF TimedValue
<1>2. n \in Nat /\ \A i \in 1..n : a[i].t \in Nat /\ a[i].t <= at
  BY SeriesFacts
<1> HIDE DEF x
<1>3. b \in Seq(TimedValue) /\ Len(b) = n + 1 /\ b[n + 1] = x /\ \A i \in 1..n : b[i] = a[i]
  BY <1>1, AppendProperties DEF Series, x
<1>4. \A i, j \in 1..n : i <= j => a[i].t <= a[j].t
  BY DEF Steady
<1> HIDE DEF n
<1>5. \A i \in 1..(n + 1) : i \in 1..n \/ i = n + 1
  BY <1>2
<1>6. Steady(b)
  <2>1. ASSUME NEW i \in 1..(n + 1), NEW j \in 1..(n + 1), i <= j PROVE b[i].t <= b[j].t
    <3>1. CASE j = n + 1
      BY <1>1, <1>2, <1>3, <1>5, <3>1
    <3>2. CASE j \in 1..n
      <4>1. i \in 1..n
        BY <1>2, <2>1, <3>2
      <4>2. QED
        BY <1>3, <1>4, <2>1, <3>2, <4>1
    <3>3. QED
      BY <1>5, <3>1, <3>2
  <2>2. QED
    BY <1>3, <2>1 DEF Steady
<1>7. ASSUME NEW i \in 1..(n + 1) PROVE b[i].t <= at /\ (b[i].v = v \/ \E j \in 1..n : b[i].v = a[j].v)
  <2>1. CASE i = n + 1
    BY <1>1, <1>2, <1>3, <2>1
  <2>2. CASE i \in 1..n
    BY <1>2, <1>3, <2>2
  <2>3. QED
    BY <1>5, <2>1, <2>2
<1>8. b \in Series
  BY <1>3 DEF Series
<1>9. ASSUME NEW t \in Int PROVE PaneSaid(b, t) = IF t >= at THEN v ELSE PaneSaid(a, t)
  <2>1. CASE t >= at
    <3>1. n + 1 \in 0..Len(b) /\ n + 1 # 0
      BY <1>2, <1>3
    <3>2. PaneUpTo(b, t, n + 1)
      BY <1>1, <1>2, <1>3, <2>1 DEF PaneUpTo
    <3>3. PaneSaid(b, t) = b[n + 1].v
      BY <1>6, <1>8, <3>1, <3>2, PaneIs
    <3>4. QED
      BY <1>1, <1>3, <2>1, <3>3
  <2>2. CASE t < at
    <3>1. PICK k \in 0..n : PaneUpTo(a, t, k)
      BY PaneThere DEF n
    <3>2. PaneSaid(a, t) = IF k = 0 THEN NoValue ELSE a[k].v
      BY <3>1, PaneIs DEF n
    <3>3. k \in 0..Len(b) /\ (k > 0 => k \in 1..n) /\ (k < n => k + 1 \in 1..n)
      BY <1>2, <1>3
    <3>4. PaneUpTo(b, t, k)
      <4>1. k > 0 => b[k].t <= t
        BY <1>3, <3>1, <3>3 DEF PaneUpTo
      <4>2. b[k + 1].t > t
        <5>1. CASE k < n
          BY <1>3, <3>1, <3>3, <5>1 DEF PaneUpTo, n
        <5>2. CASE k = n
          BY <1>1, <1>3, <2>2, <5>2
        <5>3. k < n \/ k = n
          BY <1>2
        <5>4. QED
          BY <5>1, <5>2, <5>3
      <4>3. QED
        BY <4>1, <4>2 DEF PaneUpTo
    <3>5. PaneSaid(b, t) = IF k = 0 THEN NoValue ELSE b[k].v
      BY <1>6, <1>8, <3>3, <3>4, PaneIs
    <3>6. ~(t >= at)
      BY <2>2
    <3>7. QED
      BY <1>2, <1>3, <3>2, <3>3, <3>5, <3>6
  <2>3. QED
    BY <2>1, <2>2
<1>10. Len(b) > 0
  BY <1>2, <1>3
<1>11. QED
  BY <1>3, <1>6, <1>7, <1>8, <1>9, <1>10 DEF Adds, n

-----------------------------------------------------------------------------
(* What the file says *)

Line == [t : Nat, code : Codes, v : Seq(Bits)]
PastOf(d, c, t) == {i \in DOMAIN d : d[i].code = c /\ d[i].t <= t}
Newest(S) == CHOOSE i \in S : \A j \in S : j <= i
Said(d, c, t) == IF PastOf(d, c, t) = {} THEN NoValue ELSE Extended(d[Newest(PastOf(d, c, t))].v, WidthOf[c])

LEMMA NewestIs ==
  ASSUME NEW S \in SUBSET Int, NEW m \in S, \A j \in S : j <= m
  PROVE  Newest(S) = m
<1>1. \A i \in S : (\A j \in S : j <= i) => i = m
  BY SMT
<1>2. QED
  BY <1>1 DEF Newest

LEMMA NewestThere ==
  ASSUME NEW n \in Nat, NEW S \in SUBSET (1..n), S # {}
  PROVE  Newest(S) \in S /\ \A j \in S : j <= Newest(S)
<1> DEFINE B == {k \in Nat : \A j \in S : j <= k}
<1>1. n \in B
  OBVIOUS
<1>2. PICK m \in B : \A k \in B : m <= k
  <2>1. B \in SUBSET Nat /\ B # {}
    BY <1>1
  <2> HIDE DEF B
  <2>2. QED
    BY <2>1, LeastOne
<1>3. m \in S
  <2> SUFFICES ASSUME m \notin S PROVE FALSE
    OBVIOUS
  <2>1. PICK x \in S : x \in 1..n /\ x <= m
    BY <1>2
  <2>2. m - 1 \in B
    BY <1>2, <2>1
  <2>3. QED
    BY <1>2, <2>2
<1>4. QED
  BY <1>2, <1>3, NewestIs

\* A change that the file adds is what it says of the variable from then on.
LEMMA SaidMore ==
  ASSUME NEW d \in Seq(Line), NEW at \in Nat, \A i \in 1..Len(d) : d[i].t <= at,
         NEW b \in Codes, NEW v \in Seq(Bits), NEW c \in Codes, NEW t \in Int
  PROVE  Said(Append(d, [t |-> at, code |-> b, v |-> v]), c, t) =
           IF c = b /\ t >= at THEN Extended(v, WidthOf[b]) ELSE Said(d, c, t)
<1> DEFINE x == [t |-> at, code |-> b, v |-> v]
           e == Append(d, x)
           n == Len(d)
<1>1. x \in Line /\ x.t = at /\ x.v = v /\ x.code = b
  BY DEF Line
<1>2. n \in Nat /\ DOMAIN d = 1..n /\ \A i \in 1..n : d[i] \in Line /\ d[i].t \in Nat
  <2>1. \A y \in Line : y.t \in Nat
    BY DEF Line
  <2>2. QED
    BY <2>1, LenProperties, ElementOfSeq
<1> HIDE DEF x
<1>3. e \in Seq(Line) /\ Len(e) = n + 1 /\ e[n + 1] = x /\ \A i \in 1..n : e[i] = d[i]
  BY <1>1, AppendProperties
<1>4. DOMAIN e = 1..(n + 1)
  BY <1>3, LenProperties
<1> DEFINE P == PastOf(d, c, t)
           Q == PastOf(e, c, t)
<1>5. P \subseteq 1..n /\ Q \subseteq 1..(n + 1) /\ \A i \in 1..n : i \in Q <=> i \in P
  <2> HIDE DEF e
  <2>1. \A i \in 1..n : i \in 1..(n + 1)
    BY <1>2
  <2>2. QED
    BY <1>2, <1>3, <1>4, <2>1 DEF PastOf
<1>6. n + 1 \in Q <=> c = b /\ t >= at
  <2> HIDE DEF e
  <2>1. n + 1 \in 1..(n + 1)
    BY <1>2
  <2>2. QED
    BY <1>1, <1>2, <1>3, <1>4, <2>1 DEF PastOf
<1> HIDE DEF e, P, Q, n
<1>7. CASE c = b /\ t >= at
  <2>1. Newest(Q) = n + 1 /\ Q # {}
    <3>1. Q \in SUBSET Int /\ n + 1 \in Q /\ \A j \in Q : j <= n + 1
      BY <1>2, <1>5, <1>6, <1>7
    <3>2. QED
      BY <3>1, NewestIs
  <2>2. QED
    BY <1>1, <1>3, <1>7, <2>1 DEF Said, Q, e, x
<1>8. CASE ~(c = b /\ t >= at)
  <2>1. Q = P
    <3>1. \A i \in 1..(n + 1) : i \in 1..n \/ i = n + 1
      BY <1>2
    <3>2. \A i \in 1..n : i \in 1..(n + 1)
      BY <1>2
    <3>3. QED
      BY <1>5, <1>6, <1>8, <3>1, <3>2
  <2>2. P # {} => Newest(P) \in 1..n
    BY <1>2, <1>5, NewestThere
  <2>3. Said(e, c, t) = Said(d, c, t)
    BY <1>3, <2>1, <2>2 DEF Said, P, Q
  <2>4. QED
    BY <1>8, <2>3 DEF e, x
<1>9. QED
  BY <1>7, <1>8

-----------------------------------------------------------------------------
(* Reading the file *)

\* What is kept of one code: the wave window's series s and the pane's changes a.
CodeOK(c, s, a, is, def, d, at) ==
  /\ s \in Series /\ Growing(s)
  /\ \A i \in 1..Len(s) : s[i].t <= at /\ Len(s[i].v) = WidthOf[c]
  /\ a \in Series /\ Steady(a)
  /\ \A i \in 1..Len(a) : a[i].t <= at /\ Fits(a[i].v, WidthOf[c])
  /\ (~def \/ ~is) => s = <<>> /\ a = <<>>
  /\ \A t \in Int : ValueAt(s, t) = IF is THEN Said(d, c, t) ELSE NoValue
  /\ is => \A t \in Int : Said(d, c, t) = IF PaneSaid(a, t) = NoValue THEN NoValue
                                           ELSE Extended(PaneSaid(a, t), WidthOf[c])

DumpInv ==
  /\ DumpTypeOK
  /\ ~defined => dump = <<>>
  /\ \A i \in 1..Len(dump) : dump[i].t <= now
  /\ \A c \in Codes : CodeOK(c, sigs[c], changes[c], Declared(c), defined, dump, now)

LEMMA Quiet ==
  ASSUME NEW c \in Codes, NEW is \in BOOLEAN, NEW def \in BOOLEAN, NEW at \in Nat, NEW d, d = <<>>
  PROVE  CodeOK(c, d, d, is, def, d, at)
<1>1. d \in Series /\ Growing(d) /\ Len(d) = 0 /\ \A t \in Int : ValueAt(d, t) = NoValue
  BY NothingYet
<1>2. DOMAIN d = {}
  BY EmptySeq
<1>3. Steady(d)
  BY <1>1 DEF Steady
<1>4. \A t \in Int : PaneSaid(d, t) = NoValue /\ Said(d, c, t) = NoValue
  BY <1>2 DEF PaneSaid, PaneHas, Said, PastOf
<1>5. QED
  BY <1>1, <1>3, <1>4 DEF CodeOK

\* A code that is not written stays right as time goes on.
LEMMA CodeLater ==
  ASSUME NEW c \in Codes, NEW s, NEW a, NEW is, NEW def, NEW d, NEW at \in Nat, NEW to \in Nat, at <= to,
         CodeOK(c, s, a, is, def, d, at)
  PROVE  CodeOK(c, s, a, is, def, d, to)
<1>1. (\A i \in 1..Len(s) : s[i].t \in Nat) /\ (\A i \in 1..Len(a) : a[i].t \in Nat)
  BY SeriesFacts DEF CodeOK
<1>2. (\A i \in 1..Len(s) : s[i].t <= to) /\ (\A i \in 1..Len(a) : a[i].t <= to)
  BY <1>1 DEF CodeOK
<1>3. QED
  BY <1>2 DEF CodeOK

\* A written value fits the width of its variable.
LEMMA WrittenFits ==
  ASSUME NEW c \in Codes, NEW v \in Written[c]
  PROVE  /\ Fits(v, WidthOf[c]) /\ v \in Seq(Bits) /\ WidthOf[c] \in Nat \ {0}
         /\ Extended(v, WidthOf[c]) \in Seq(Bits) /\ Len(Extended(v, WidthOf[c])) = WidthOf[c]
<1>1. Fits(v, WidthOf[c]) /\ v \in Seq(Bits) /\ WidthOf[c] \in Nat \ {0} /\ v # <<>>
  BY DumpAssumption DEF Fits
<1>2. QED
  BY <1>1, ExtendedBits

\* A change of code b, as it is kept for code c.
LEMMA CodeChanges ==
  ASSUME NEW c \in Codes, NEW b \in Codes, NEW v \in Written[b], NEW s, NEW a, NEW is \in BOOLEAN,
         NEW d \in Seq(Line), NEW at \in Nat, \A i \in 1..Len(d) : d[i].t <= at,
         CodeOK(c, s, a, is, TRUE, d, at),
         NEW q, q = IF is /\ c = b THEN Push(s, at, Extended(v, WidthOf[b])) ELSE s,
         NEW p, p = IF is /\ c = b THEN Append(a, [t |-> at, v |-> v]) ELSE a
  PROVE  CodeOK(c, q, p, is, TRUE, Append(d, [t |-> at, code |-> b, v |-> v]), at)
<1> DEFINE e == Append(d, [t |-> at, code |-> b, v |-> v])
           u == Extended(v, WidthOf[b])
<1>1. Fits(v, WidthOf[b]) /\ v \in Seq(Bits) /\ u \in Seq(Bits) /\ Len(u) = WidthOf[b] /\ v # <<>>
  BY WrittenFits DEF Fits
<1>2. \A t \in Int : Said(e, c, t) = IF c = b /\ t >= at THEN u ELSE Said(d, c, t)
  BY <1>1, SaidMore
<1> HIDE DEF e, u
<1>3. CASE ~(is /\ c = b)
  <2>1. q = s /\ p = a
    BY <1>3
  <2>2. is => \A t \in Int : Said(e, c, t) = Said(d, c, t)
    BY <1>2, <1>3
  <2>3. CodeOK(c, q, p, is, TRUE, e, at)
    BY <2>1, <2>2 DEF CodeOK
  <2>4. QED
    BY <2>3 DEF e
<1>4. CASE is /\ c = b
  <2>1. q = Push(s, at, u) /\ p = Append(a, [t |-> at, v |-> v])
    BY <1>4 DEF u
  <2>2. Heeds(s, q, at, u)
    <3>1. s \in Series /\ Growing(s) /\ \A i \in 1..Len(s) : s[i].t <= at
      BY DEF CodeOK
    <3>2. QED
      BY <1>1, <2>1, <3>1, PushHeeds
  <2>3. /\ p \in Series /\ Steady(p)
        /\ \A i \in 1..Len(p) : p[i].t <= at /\ (p[i].v = v \/ \E j \in 1..Len(a) : p[i].v = a[j].v)
        /\ \A t \in Int : PaneSaid(p, t) = IF t >= at THEN v ELSE PaneSaid(a, t)
    <3>1. a \in Series /\ Steady(a) /\ \A i \in 1..Len(a) : a[i].t <= at
      BY DEF CodeOK
    <3>2. Adds(a, p, at, v)
      BY <1>1, <2>1, <3>1, PaneMore
    <3>3. QED
      BY <3>2 DEF Adds
  <2>4. \A i \in 1..Len(q) : q[i].t <= at /\ Len(q[i].v) = WidthOf[c]
    <3>1. \A i \in 1..Len(s) : Len(s[i].v) = WidthOf[c]
      BY DEF CodeOK
    <3>2. \A i \in 1..Len(q) : q[i].t <= at /\ (q[i].v = u \/ \E j \in 1..Len(s) : q[i].v = s[j].v)
      BY <2>2 DEF Heeds
    <3>3. QED
      BY <1>1, <1>4, <3>1, <3>2
  <2>5. \A i \in 1..Len(p) : p[i].t <= at /\ Fits(p[i].v, WidthOf[c])
    BY <1>1, <1>4, <2>3 DEF CodeOK
  <2>6. \A t \in Int : ValueAt(q, t) = Said(e, c, t)
    BY <1>2, <1>4, <2>2 DEF CodeOK, Heeds
  <2>7. ASSUME NEW t \in Int
        PROVE  Said(e, c, t) = IF PaneSaid(p, t) = NoValue THEN NoValue ELSE Extended(PaneSaid(p, t), WidthOf[c])
    <3>1. CASE t >= at
      BY <1>1, <1>2, <1>4, <2>3, <3>1 DEF u, NoValue
    <3>2. CASE ~(t >= at)
      BY <1>2, <1>4, <2>3, <3>2 DEF CodeOK
    <3>3. QED
      BY <3>1, <3>2
  <2>8. CodeOK(c, q, p, is, TRUE, e, at)
    BY <1>4, <2>2, <2>3, <2>4, <2>5, <2>6, <2>7 DEF CodeOK, Heeds
  <2>9. QED
    BY <2>8 DEF e
<1>5. QED
  BY <1>3, <1>4

LEMMA DumpStarts == DumpInit => DumpInv
<1> SUFFICES ASSUME DumpInit PROVE DumpInv
  OBVIOUS
<1>1. DumpTypeOK
  <2>1. <<>> \in Series
    BY EmptySeq DEF Series
  <2>2. sigs \in [Codes -> Series] /\ changes \in [Codes -> Series]
    BY <2>1 DEF DumpInit
  <2>3. scopePath \in Seq(Modules) /\ dump \in Seq([t : Nat, code : Codes, v : Seq(Bits)])
    BY EmptySeq DEF DumpInit
  <2>4. declared \in Seq([code : Codes, path : Seq(Modules)])
    BY EmptySeq DEF DumpInit
  <2>5. now \in 0..MaxTime /\ defined \in BOOLEAN
    <3>1. MaxTime \in Nat
      BY DumpAssumption
    <3>2. now = 0 /\ defined = FALSE
      BY DEF DumpInit
    <3>3. now \in 0..MaxTime
      BY <3>1, <3>2
    <3>4. defined \in BOOLEAN
      BY <3>2
    <3>5. QED
      BY <3>3, <3>4
  <2>6. QED
    BY <2>2, <2>3, <2>4, <2>5 DEF DumpTypeOK
<1>2. ASSUME NEW c \in Codes PROVE CodeOK(c, sigs[c], changes[c], Declared(c), defined, dump, now)
  <2>1. sigs[c] = dump /\ changes[c] = dump /\ dump = <<>> /\ defined \in BOOLEAN /\ now \in Nat
    BY DEF DumpInit
  <2>2. Declared(c) \in BOOLEAN
    BY DEF Declared
  <2> DEFINE is == Declared(c)
  <2> HIDE DEF is
  <2>3. CodeOK(c, dump, dump, is, defined, dump, now)
    BY <2>1, <2>2, Quiet DEF is
  <2>4. QED
    BY <2>1, <2>3 DEF is
<1>3. Len(dump) = 0
  BY DEF DumpInit
<1>4. QED
  BY <1>1, <1>2, <1>3 DEF DumpInv, DumpInit

LEMMA CodesSame ==
  DumpInv /\ UNCHANGED <<declared, defined, now, dump, sigs, changes>> /\ scopePath' \in Seq(Modules) => DumpInv'
<1> SUFFICES ASSUME DumpInv, UNCHANGED <<declared, defined, now, dump, sigs, changes>>, scopePath' \in Seq(Modules)
             PROVE  DumpInv'
  OBVIOUS
<1>1. DumpTypeOK'
  BY DEF DumpInv, DumpTypeOK
<1>2. \A c \in Codes : Declared(c)' = Declared(c)
  BY DEF Declared
<1>3. (\A c \in Codes : CodeOK(c, sigs[c], changes[c], Declared(c), defined, dump, now))'
  BY <1>2 DEF DumpInv
<1>4. QED
  BY <1>1, <1>3 DEF DumpInv

LEMMA OpensScope == ASSUME NEW n \in Modules, DumpInv, OpenScope(n) PROVE DumpInv'
<1>1. scopePath' \in Seq(Modules)
  BY AppendProperties DEF DumpInv, DumpTypeOK, OpenScope
<1>2. UNCHANGED <<declared, defined, now, dump, sigs, changes>>
  BY DEF OpenScope
<1>3. QED
  BY <1>1, <1>2, CodesSame

LEMMA ClosesScope == DumpInv /\ CloseScope => DumpInv'
<1> SUFFICES ASSUME DumpInv, CloseScope PROVE DumpInv'
  OBVIOUS
<1>1. scopePath \in Seq(Modules)
  BY DEF DumpInv, DumpTypeOK
<1>2. scopePath # <<>> => SubSeq(scopePath, 1, Len(scopePath) - 1) \in Seq(Modules)
  <2> SUFFICES ASSUME scopePath # <<>> PROVE SubSeq(scopePath, 1, Len(scopePath) - 1) \in Seq(Modules)
    OBVIOUS
  <2> DEFINE k == Len(scopePath) - 1
  <2>1. k \in Int /\ Len(scopePath) \in Nat
    BY <1>1, LenProperties
  <2>2. \A i \in 1..k : scopePath[i] \in Modules
    BY <1>1, <2>1, ElementOfSeq
  <2> HIDE DEF k
  <2>3. SubSeq(scopePath, 1, k) \in Seq(Modules)
    BY <2>1, <2>2, SubSeqProperties
  <2>4. QED
    BY <2>3 DEF k
<1>3. scopePath' \in Seq(Modules)
  BY <1>1, <1>2 DEF CloseScope
<1>4. UNCHANGED <<declared, defined, now, dump, sigs, changes>>
  BY DEF CloseScope
<1>5. QED
  BY <1>3, <1>4, CodesSame

\* Nothing is kept while the variables are declared.
LEMMA BeforeChanges ==
  ASSUME NEW c \in Codes, NEW is \in BOOLEAN, NEW def \in BOOLEAN, DumpInv, ~defined
  PROVE  CodeOK(c, sigs[c], changes[c], is, def, dump, now)
<1>1. dump = <<>> /\ now \in Nat
  BY DEF DumpInv, DumpTypeOK
<1>2. sigs[c] = dump /\ changes[c] = dump
  BY <1>1 DEF DumpInv, CodeOK
<1>3. QED
  BY <1>1, <1>2, Quiet

LEMMA Declares == ASSUME NEW c \in Codes, DumpInv, Declare(c) PROVE DumpInv'
<1>1. DumpTypeOK'
  <2>1. [code |-> c, path |-> scopePath] \in [code : Codes, path : Seq(Modules)]
    BY DEF DumpInv, DumpTypeOK
  <2> DEFINE x == [code |-> c, path |-> scopePath]
  <2> HIDE DEF x
  <2>2. declared' = Append(declared, x) /\ x \in [code : Codes, path : Seq(Modules)]
    BY <2>1 DEF Declare, x
  <2>3. declared' \in Seq([code : Codes, path : Seq(Modules)])
    BY <2>2, AppendProperties DEF DumpInv, DumpTypeOK
  <2>4. UNCHANGED <<scopePath, defined, now, dump, sigs, changes>>
    BY DEF Declare
  <2>5. QED
    BY <2>3, <2>4 DEF DumpInv, DumpTypeOK
<1>2. ~defined /\ defined' = defined /\ UNCHANGED <<now, dump, sigs, changes>>
  BY DEF Declare
<1>3. ASSUME NEW b \in Codes PROVE CodeOK(b, sigs[b], changes[b], Declared(b), defined, dump, now)'
  <2> DEFINE is == Declared(b)'
             def == defined'
  <2>1. is \in BOOLEAN /\ def \in BOOLEAN
    BY DEF Declared, DumpInv, DumpTypeOK, Declare
  <2> HIDE DEF is, def
  <2>2. CodeOK(b, sigs[b], changes[b], is, def, dump, now)
    BY <1>2, <2>1, BeforeChanges
  <2>3. QED
    BY <1>2, <2>2 DEF is, def
<1>4. QED
  BY <1>1, <1>2, <1>3 DEF DumpInv

LEMMA EndsDefinitions == DumpInv /\ EndDefinitions => DumpInv'
<1> SUFFICES ASSUME DumpInv, EndDefinitions PROVE DumpInv'
  OBVIOUS
<1>1. ~defined /\ defined' = TRUE /\ scopePath' = <<>> /\ UNCHANGED <<declared, now, dump, sigs, changes>>
  BY DEF EndDefinitions
<1>2. DumpTypeOK'
  <2>1. scopePath' \in Seq(Modules)
    BY <1>1, EmptySeq
  <2>2. defined' \in BOOLEAN
    BY <1>1
  <2>3. QED
    BY <1>1, <2>1, <2>2 DEF DumpInv, DumpTypeOK
<1>3. ASSUME NEW b \in Codes PROVE CodeOK(b, sigs[b], changes[b], Declared(b), defined, dump, now)'
  <2> DEFINE is == Declared(b)
  <2>1. is \in BOOLEAN /\ Declared(b)' = is
    BY <1>1 DEF Declared
  <2> HIDE DEF is
  <2>2. CodeOK(b, sigs[b], changes[b], is, TRUE, dump, now)
    BY <1>1, <2>1, BeforeChanges
  <2>3. QED
    BY <1>1, <2>1, <2>2
<1>4. QED
  BY <1>1, <1>2, <1>3 DEF DumpInv

LEMMA StampsTime == ASSUME NEW t \in 1..MaxTime, DumpInv, TimeStamp(t) PROVE DumpInv'
<1>1. now' = t /\ now < t /\ defined /\ UNCHANGED <<scopePath, declared, defined, dump, sigs, changes>>
  BY DEF TimeStamp
<1>2. now \in Nat /\ t \in Nat /\ t \in 0..MaxTime
  BY DEF DumpInv, DumpTypeOK
<1>3. DumpTypeOK'
  BY <1>1, <1>2 DEF DumpInv, DumpTypeOK
<1>4. ASSUME NEW b \in Codes PROVE CodeOK(b, sigs[b], changes[b], Declared(b), defined, dump, now)'
  <2>1. Declared(b)' = Declared(b)
    BY <1>1 DEF Declared
  <2> DEFINE is == Declared(b)
             s == sigs[b]
             a == changes[b]
  <2>2. CodeOK(b, s, a, is, defined, dump, now)
    BY DEF DumpInv
  <2> HIDE DEF is, s, a
  <2>3. CodeOK(b, s, a, is, defined, dump, t)
    <3> DEFINE d == dump
               def == defined
               at == now
    <3>0. now <= t
      BY <1>1, <1>2
    <3>1. CodeOK(b, s, a, is, def, d, at) /\ at \in Nat /\ at <= t
      BY <1>2, <2>2, <3>0
    <3> HIDE DEF d, def, at
    <3>2. CodeOK(b, s, a, is, def, d, t)
      BY <1>2, <3>1, CodeLater
    <3>3. QED
      BY <3>2 DEF d, def
  <2>4. QED
    BY <1>1, <2>1, <2>3 DEF is, s, a
<1>5. \A i \in 1..Len(dump) : dump[i].t <= t
  <2>1. \A x \in [t : Nat, code : Codes, v : Seq(Bits)] : x.t \in Nat
    OBVIOUS
  <2>2. \A i \in 1..Len(dump) : dump[i].t \in Nat /\ dump[i].t <= now
    BY <2>1, ElementOfSeq DEF DumpInv, DumpTypeOK
  <2>3. QED
    BY <1>1, <1>2, <2>2
<1>6. QED
  BY <1>1, <1>3, <1>4, <1>5 DEF DumpInv

LEMMA ChangesValue == ASSUME NEW c \in Codes, NEW v \in Written[c], DumpInv, ValueChange(c, v) PROVE DumpInv'
<1> DEFINE x == [t |-> now, code |-> c, v |-> v]
           u == Extended(v, WidthOf[c])
<1>1. /\ defined = TRUE /\ now \in Nat /\ now \in 0..MaxTime /\ dump \in Seq(Line)
      /\ sigs \in [Codes -> Series] /\ changes \in [Codes -> Series]
      /\ \A i \in 1..Len(dump) : dump[i].t <= now
  BY DEF DumpInv, DumpTypeOK, ValueChange, Line
<1>2. dump' = Append(dump, x) /\ UNCHANGED <<scopePath, declared, defined, now>>
  BY DEF ValueChange
<1>3. v \in Seq(Bits) /\ x \in Line /\ x.t = now
  BY <1>1, WrittenFits DEF Line
<1>4. ASSUME NEW b \in Codes
      PROVE  /\ sigs'[b] = IF Declared(b) /\ b = c THEN Push(sigs[b], now, u) ELSE sigs[b]
             /\ changes'[b] = IF Declared(b) /\ b = c THEN Append(changes[b], [t |-> now, v |-> v]) ELSE changes[b]
  BY <1>1 DEF ValueChange
<1>5. \A b \in Codes : CodeOK(b, sigs[b], changes[b], Declared(b), TRUE, dump, now)
  BY <1>1 DEF DumpInv
<1>6. ASSUME NEW b \in Codes PROVE CodeOK(b, sigs'[b], changes'[b], Declared(b), TRUE, dump', now)
  <2> DEFINE is == Declared(b)
             s == sigs[b]
             a == changes[b]
             q == sigs'[b]
             p == changes'[b]
             d == dump
             at == now
  <2>1. is \in BOOLEAN
    BY DEF Declared
  <2>2. q = IF is /\ b = c THEN Push(s, at, u) ELSE s
    BY <1>4
  <2>3. p = IF is /\ b = c THEN Append(a, [t |-> at, v |-> v]) ELSE a
    BY <1>4
  <2>4. CodeOK(b, s, a, is, TRUE, d, at) /\ d \in Seq(Line) /\ at \in Nat /\ \A i \in 1..Len(d) : d[i].t <= at
    BY <1>1, <1>5
  <2>5. dump' = Append(d, [t |-> at, code |-> c, v |-> v])
    BY <1>2
  <2> HIDE DEF is, s, a, q, p, d, at
  <2>6. CodeOK(b, q, p, is, TRUE, Append(d, [t |-> at, code |-> c, v |-> v]), at)
    BY <2>1, <2>2, <2>3, <2>4, CodeChanges
  <2>7. CodeOK(b, q, p, is, TRUE, dump', at)
    BY <2>5, <2>6
  <2>8. QED
    BY <2>7 DEF q, p, is, at
<1>7. \A b \in Codes : Declared(b)' = Declared(b)
  BY <1>2 DEF Declared
<1>8. (\A b \in Codes : CodeOK(b, sigs[b], changes[b], Declared(b), defined, dump, now))'
  BY <1>1, <1>2, <1>6, <1>7
<1> HIDE DEF x
<1>9. dump' \in Seq(Line) /\ Len(dump') = Len(dump) + 1 /\ \A i \in 1..Len(dump') : dump'[i].t <= now
  <2>1. /\ Append(dump, x) \in Seq(Line) /\ Len(Append(dump, x)) = Len(dump) + 1
        /\ Append(dump, x)[Len(dump) + 1] = x /\ \A i \in 1..Len(dump) : Append(dump, x)[i] = dump[i]
    BY <1>1, <1>3, AppendProperties
  <2>2. Len(dump) \in Nat
    BY <1>1, LenProperties
  <2>3. \A i \in 1..(Len(dump) + 1) : i \in 1..Len(dump) \/ i = Len(dump) + 1
    BY <2>2
  <2>4. now <= now
    BY <1>1
  <2>5. QED
    BY <1>1, <1>2, <1>3, <2>1, <2>3, <2>4
<1>10. sigs' \in [Codes -> Series] /\ changes' \in [Codes -> Series]
  <2>1. (\A b \in Codes : sigs'[b] \in Series /\ changes'[b] \in Series)
    BY <1>6 DEF CodeOK
  <2>2. sigs' = [b \in Codes |-> sigs'[b]] /\ changes' = [b \in Codes |-> changes'[b]]
    BY <1>1 DEF ValueChange
  <2>3. QED
    BY <2>1, <2>2
<1>11. DumpTypeOK'
  BY <1>2, <1>9, <1>10 DEF DumpInv, DumpTypeOK, Line
<1>12. QED
  BY <1>1, <1>2, <1>8, <1>9, <1>11 DEF DumpInv

LEMMA DumpKeeps == DumpInv /\ [DumpNext]_dumpVars => DumpInv'
<1> SUFFICES ASSUME DumpInv, [DumpNext]_dumpVars PROVE DumpInv'
  OBVIOUS
<1>1. ASSUME NEW n \in Modules, OpenScope(n) PROVE DumpInv'
  BY <1>1, OpensScope
<1>2. CASE CloseScope
  BY <1>2, ClosesScope
<1>3. CASE EndDefinitions
  BY <1>3, EndsDefinitions
<1>4. ASSUME NEW c \in Codes, Declare(c) PROVE DumpInv'
  BY <1>4, Declares
<1>5. ASSUME NEW c \in Codes, NEW v \in Written[c], ValueChange(c, v) PROVE DumpInv'
  BY <1>5, ChangesValue
<1>6. ASSUME NEW t \in 1..MaxTime, TimeStamp(t) PROVE DumpInv'
  BY <1>6, StampsTime
<1>7. CASE UNCHANGED dumpVars
  BY <1>7, CodesSame DEF dumpVars, DumpInv, DumpTypeOK
<1>8. QED
  BY <1>1, <1>2, <1>3, <1>4, <1>5, <1>6, <1>7 DEF DumpNext

\* Whatever token of the file comes next, the reader keeps its invariant: what it
\* has stored of a variable are the changes the file gave it, in the order of time.
THEOREM DumpCorrect == DumpSpec => []DumpInv
  BY DumpStarts, DumpKeeps, PTL DEF DumpSpec

\* So its state stays typed: the series are lists of values with times.
THEOREM DumpTypes == DumpSpec => []DumpTypeOK
<1>1. DumpInv => DumpTypeOK
  BY DEF DumpInv
<1>2. QED
  BY <1>1, DumpCorrect, PTL

LEMMA OnceListed == DumpInv => ListedOnce
<1> SUFFICES ASSUME DumpInv, NEW i0 \in DOMAIN declared
             PROVE  Cardinality({i \in Shown : declared[i].code = declared[i0].code}) = 1
  BY DEF ListedOnce
<1> DEFINE c == declared[i0].code
           Named == {i \in DOMAIN declared : declared[i].code = c}
           Here == {i \in Shown : declared[i].code = c}
<1>1. DOMAIN declared = 1..Len(declared) /\ Len(declared) \in Nat
  BY LenProperties DEF DumpInv, DumpTypeOK
<1>2. PICK m \in Named : \A i \in Named : m <= i
  <2>1. Named \in SUBSET Nat /\ Named # {}
    BY <1>1
  <2> HIDE DEF Named
  <2>2. QED
    BY <2>1, LeastOne
<1>3. m \in Here
  <2>1. \A j \in 1..(m - 1) : declared[j].code # declared[m].code
    <3> TAKE j \in 1..(m - 1)
    <3>1. j \in DOMAIN declared /\ ~(m <= j) /\ declared[m].code = c
      BY <1>1, <1>2
    <3>2. j \notin Named
      BY <1>2, <3>1
    <3>3. QED
      BY <3>1, <3>2
  <2>2. QED
    BY <1>2, <2>1 DEF Shown
<1>4. ASSUME NEW i \in Here PROVE i = m
  <2>1. i \in DOMAIN declared /\ declared[i].code = c /\ declared[m].code = c /\ m \in DOMAIN declared
        /\ \A j \in 1..(i - 1) : declared[j].code # declared[i].code
    BY <1>2 DEF Shown
  <2>2. m <= i
    BY <1>2, <2>1
  <2>3. ~(m \in 1..(i - 1))
    BY <2>1
  <2>4. QED
    BY <1>1, <2>1, <2>2, <2>3
<1>5. Here = {m}
  BY <1>3, <1>4
<1>6. QED
  BY <1>5, FS_Singleton

\* The window's series of a code, its bits and the pane say what the file says.
LEMMA CodeTells ==
  ASSUME DumpInv, NEW c \in Codes, NEW t \in Int
  PROVE  /\ BusTells(c, t) /\ BitsTell(c, t)
         /\ Declared(c) => Told(c, t) = IF PaneSaid(changes[c], t) = NoValue THEN NoValue
                                        ELSE Extended(PaneSaid(changes[c], t), WidthOf[c])
<1>1. CodeOK(c, sigs[c], changes[c], Declared(c), defined, dump, now)
  BY DEF DumpInv
<1>2. Told(c, t) = IF Declared(c) THEN Said(dump, c, t) ELSE NoValue
  BY DEF Told, Past, Said, PastOf, Newest
<1> DEFINE s == sigs[c]
           w == WidthOf[c]
<1>3. /\ s \in Series /\ Growing(s) /\ (\A i \in 1..Len(s) : Len(s[i].v) = w)
      /\ ValueAt(s, t) = Told(c, t) /\ w \in Nat \ {0}
  BY <1>1, <1>2, DumpAssumption DEF CodeOK
<1>4. BusTells(c, t)
  BY <1>3 DEF BusTells
<1>5. \A i \in 1..Len(s) : s[i].v \in Seq(Bits)
  BY <1>3, SeriesFacts
<1> HIDE DEF s, w
<1>6. BitsTell(c, t)
  <2> SUFFICES ASSUME NEW k \in 1..w
               PROVE  ValueAt(BitSeries(s, k), t) = IF Told(c, t) = NoValue THEN NoValue ELSE <<Told(c, t)[k]>>
    BY DEF BitsTell, s, w
  <2>1. HasBit(s, k)
    BY <1>3 DEF HasBit
  <2> DEFINE j == IndexAt(s, t)
  <2>2. ValueAt(BitSeries(s, k), t) = BitSays(s, k, Len(s), t)
    BY <1>3, <2>1, BitSeriesTells DEF BitsUpTo
  <2>3. j \in 0..Len(s) /\ Len(s) \in Nat
    BY <1>3, IndexFinds, SeriesFacts
  <2>4. Earlier(j, Len(s)) = j
    BY <2>3 DEF Earlier
  <2>5. ValueAt(s, t) = IF j = 0 THEN NoValue ELSE s[j].v
    BY DEF ValueAt
  <2>6. j # 0 => s[j].v # NoValue
    <3>1. j # 0 => j \in 1..Len(s)
      BY <2>3
    <3>2. Len(NoValue) = 0
      BY EmptySeq DEF NoValue
    <3> HIDE DEF j
    <3>3. QED
      BY <1>3, <3>1, <3>2
  <2>7. BitSays(s, k, Len(s), t) = IF j = 0 THEN NoValue ELSE <<s[j].v[k]>>
    BY <2>4 DEF BitSays
  <2> HIDE DEF j
  <2>8. QED
    BY <1>3, <2>2, <2>5, <2>6, <2>7
<1>7. QED
  BY <1>1, <1>2, <1>4, <1>6 DEF CodeOK

\* What the pane shows is the last change the file gave.
LEMMA PaneShows ==
  ASSUME DumpInv, NEW c \in Codes, NEW t \in 0..MaxTime
  PROVE  PaneTells(c, t)
<1> SUFFICES ASSUME Declared(c)
             PROVE  LET none == Told(c, t) = NoValue IN
                    /\ Extended(PaneValueAt(c, t), WidthOf[c]) =
                         IF none THEN [k \in 1..WidthOf[c] |-> "x"] ELSE Told(c, t)
                    /\ \A b \in PaneBlocks(c) : (b.from <= t /\ t < b.to) =>
                         b.shows = IF none \/ Level(Told(c, t)) = "float" THEN "unknown" ELSE Level(Told(c, t))
  BY DEF PaneTells
<1> DEFINE a == changes[c]
           w == WidthOf[c]
           told == Told(c, t)
           says == PaneSaid(a, t)
<1>1. /\ a \in Series /\ Steady(a) /\ \A i \in 1..Len(a) : Fits(a[i].v, w)
      /\ w \in Nat \ {0} /\ t \in Int
  BY DumpAssumption DEF DumpInv, CodeOK
<1>2. told = IF says = NoValue THEN NoValue ELSE Extended(says, w)
  BY CodeTells
<1>3. Len(a) \in Nat /\ DOMAIN a = 1..Len(a) /\ \A i \in 1..Len(a) : a[i].t \in Nat
  BY <1>1, SeriesFacts
<1>4. PaneValueAt(c, t) = IF PaneHas(a, t) = {} THEN <<"x">> ELSE a[Cardinality(PaneHas(a, t))].v
  BY DEF PaneValueAt, PaneHas
<1>5. \A b \in PaneBlocks(c) :
        \/ \E i \in DOMAIN a : b = [from |-> a[i].t, to |-> IF i < Len(a) THEN a[i + 1].t ELSE MaxTime + 1,
                                    shows |-> PaneLevel(a[i].v, w)]
        \/ a = <<>> /\ b = [from |-> 0, to |-> MaxTime + 1, shows |-> "unknown"]
        \/ a # <<>> /\ b = [from |-> 0, to |-> a[1].t, shows |-> "unknown"]
  BY DEF PaneBlocks
<1> DEFINE blocks == PaneBlocks(c)
<1> HIDE DEF a, w, told, says, blocks
<1>6. PICK k \in 0..Len(a) : PaneUpTo(a, t, k)
  BY <1>1, PaneThere
<1>7. PaneHas(a, t) = 1..k /\ Cardinality(PaneHas(a, t)) = k /\ says = IF k = 0 THEN NoValue ELSE a[k].v
  BY <1>1, <1>6, PaneIs DEF says
<1>8. k > 0 => k \in 1..Len(a) /\ Fits(a[k].v, w) /\ a[k].v # NoValue
  BY <1>1, <1>3 DEF Fits, NoValue
<1>9. k > 0 => told = Extended(a[k].v, w) /\ told # NoValue
  <2> SUFFICES ASSUME k > 0 PROVE told = Extended(a[k].v, w) /\ told # NoValue
    OBVIOUS
  <2>1. told = Extended(a[k].v, w)
    BY <1>2, <1>7, <1>8
  <2>2. Len(Extended(a[k].v, w)) = w
    BY <1>8, ExtendedBits DEF Fits
  <2>3. Len(NoValue) = 0
    BY EmptySeq DEF NoValue
  <2>4. QED
    BY <1>1, <2>1, <2>2, <2>3
<1>10. k = 0 => told = NoValue
  BY <1>2, <1>7
<1>11. Extended(PaneValueAt(c, t), w) = IF told = NoValue THEN [i \in 1..w |-> "x"] ELSE told
  <2>1. CASE k = 0
    <3>1. PaneValueAt(c, t) = <<"x">>
      BY <1>4, <1>7, <2>1
    <3>2. QED
      BY <1>1, <1>10, <2>1, <3>1, ExtendedX
  <2>2. CASE k > 0
    <3>1. k \in 1..k
      BY <1>3, <1>8, <2>2
    <3>2. PaneValueAt(c, t) = a[k].v
      BY <1>4, <1>7, <3>1
    <3>3. QED
      BY <1>9, <2>2, <3>2
  <2>3. QED
    BY <2>1, <2>2
<1>12. ASSUME NEW b \in blocks, b.from <= t, t < b.to
       PROVE  b.shows = IF told = NoValue \/ Level(told) = "float" THEN "unknown" ELSE Level(told)
  <2>1. CASE k = 0
    <3>1. ASSUME NEW i \in DOMAIN a PROVE ~(a[i].t <= t)
      <4>1. i \in 1..Len(a) /\ 1 \in 1..Len(a) /\ 1 <= i /\ 0 < Len(a)
        BY <1>3
      <4>2. a[1].t > t /\ a[1].t <= a[i].t
        BY <1>1, <1>6, <2>1, <4>1 DEF PaneUpTo, Steady
      <4>3. QED
        BY <1>1, <1>3, <4>1, <4>2
    <3>2. b.shows = "unknown"
      BY <1>5, <1>12, <3>1 DEF blocks
    <3>3. QED
      BY <1>10, <2>1, <3>2
  <2>2. CASE k > 0
    <3>1. a # <<>> /\ a[1].t <= t /\ ~(t < a[1].t)
      <4>1. k \in 1..Len(a) /\ 1 \in 1..Len(a) /\ 1 <= k
        BY <1>8, <2>2
      <4>2. a[1].t <= a[k].t /\ a[k].t <= t
        BY <1>1, <1>6, <2>2, <4>1 DEF PaneUpTo, Steady
      <4>3. a # <<>>
        BY <4>1, EmptySeq
      <4>4. QED
        BY <1>1, <1>3, <4>1, <4>2, <4>3
    <3>2. PICK i \in DOMAIN a : b = [from |-> a[i].t, to |-> IF i < Len(a) THEN a[i + 1].t ELSE MaxTime + 1,
                                     shows |-> PaneLevel(a[i].v, w)]
      BY <1>5, <1>12, <3>1 DEF blocks
    <3>3. a[i].t <= t /\ (i < Len(a) => t < a[i + 1].t) /\ b.shows = PaneLevel(a[i].v, w)
      BY <1>12, <3>2
    <3>4. PaneUpTo(a, t, i) /\ i \in 0..Len(a)
      BY <1>1, <1>3, <3>2, <3>3 DEF PaneUpTo
    <3>5. i = k
      <4>1. Cardinality(PaneHas(a, t)) = i
        BY <1>1, <3>4, PaneIs
      <4>2. QED
        BY <1>7, <4>1
    <3>6. b.shows = PaneLevel(a[k].v, w)
      BY <3>3, <3>5
    <3>7. PaneLevel(a[k].v, w) = IF Level(told) = "float" THEN "unknown" ELSE Level(told)
      BY <1>8, <1>9, <2>2, SameLevel
    <3>8. QED
      BY <1>9, <2>2, <3>6, <3>7
  <2>3. QED
    BY <2>1, <2>2
<1>13. QED
  BY <1>11, <1>12 DEF told, w, blocks

LEMMA AsWritten == DumpInv => ValuesAsWritten
<1> SUFFICES ASSUME DumpInv, NEW c \in Codes, NEW t \in 0..MaxTime
             PROVE  BusTells(c, t) /\ BitsTell(c, t) /\ PaneTells(c, t)
  BY DEF ValuesAsWritten
<1>1. t \in Int
  OBVIOUS
<1>2. QED
  BY <1>1, CodeTells, PaneShows

-----------------------------------------------------------------------------
(* The number bits say *)

OneBit(v, i) == IF v[i] = "1" THEN 1 ELSE 0
NumbersBy(f, v) ==
  f = [i \in 0..Len(v) |-> IF i = 0 THEN 0 ELSE 2 * f[i - 1] + (IF v[i] = "1" THEN 1 ELSE 0)]
Numbers(f, v) ==
  /\ Number(v) = f[Len(v)] /\ f[0] = 0
  /\ \A i \in 1..Len(v) : f[i] = 2 * f[i - 1] + OneBit(v, i)
  /\ \A i \in 0..Len(v) : f[i] \in Nat

\* The number of bits, computed from the left.
LEMMA NumbersThere ==
  ASSUME NEW v, Len(v) \in Nat
  PROVE  \E f : Numbers(f, v)
<1> DEFINE n == Len(v)
           G == [p \in (1..n) \X Nat |-> 2 * p[2] + OneBit(v, p[1])]
<1>1. ASSUME NEW i \in 1..n, NEW q \in Nat PROVE G[<<i, q>>] = 2 * q + OneBit(v, i) /\ G[<<i, q>>] \in Nat
  <2>1. G[<<i, q>>] = 2 * q + OneBit(v, i)
    OBVIOUS
  <2>2. OneBit(v, i) \in 0..1
    BY DEF OneBit
  <2> HIDE DEF G
  <2>3. QED
    BY <2>1, <2>2
<1>2. FoldsFrom(0, n, Nat, G)
  BY <1>1 DEF FoldsFrom
<1> HIDE DEF G, n
<1>3. PICK f \in [0..n -> Nat] : f[0] = 0 /\ \A i \in 1..n : f[i] = G[<<i, f[i - 1]>>]
  BY <1>2, Folding
<1>4. \A i \in 0..n : f[i] = IF i = 0 THEN 0 ELSE 2 * f[i - 1] + OneBit(v, i)
  <2> TAKE i \in 0..n
  <2>1. i = 0 \/ (i \in 1..n /\ f[i - 1] \in Nat)
    BY DEF n
  <2>2. QED
    BY <1>1, <1>3, <2>1
<1>5. NumbersBy(f, v)
  BY <1>4 DEF NumbersBy, OneBit, n
<1> DEFINE g == CHOOSE h : NumbersBy(h, v)
<1>6. NumbersBy(g, v)
  BY <1>5
<1>7. Number(v) = g[Len(v)]
  BY DEF Number, NumbersBy
<1> HIDE DEF g
<1>8. g[0] = 0 /\ \A i \in 1..Len(v) : g[i] = 2 * g[i - 1] + OneBit(v, i)
  <2>1. \A i \in 0..Len(v) : g[i] = IF i = 0 THEN 0 ELSE 2 * g[i - 1] + OneBit(v, i)
    BY <1>6 DEF NumbersBy, OneBit
  <2>2. 0 \in 0..Len(v) /\ \A i \in 1..Len(v) : i \in 0..Len(v) /\ i # 0
    OBVIOUS
  <2>3. QED
    BY <2>1, <2>2
<1> DEFINE In == {i \in Nat : g[i] \in Nat}
<1>9. 0 \in In
  BY <1>8
<1>10. ASSUME NEW i \in 0..(Len(v) - 1), i \in In PROVE i + 1 \in In
  <2>1. i + 1 \in 1..Len(v) /\ (i + 1) - 1 = i /\ g[i] \in Nat /\ OneBit(v, i + 1) \in 0..1
    BY <1>10 DEF OneBit
  <2>2. g[i + 1] = 2 * g[i] + OneBit(v, i + 1)
    BY <1>8, <2>1
  <2>3. QED
    BY <2>1, <2>2
<1> HIDE DEF In
<1>11. \A i \in 0..Len(v) : i \in In
  BY <1>9, <1>10, Climbing
<1>12. Numbers(g, v)
  BY <1>7, <1>8, <1>11 DEF Numbers, In
<1>13. QED
  BY <1>12

PowersBy(f, w) == f = [i \in 0..w |-> IF i = 0 THEN 1 ELSE 2 * f[i - 1]]
Powers(f, w) == TwoTo(w) = f[w] /\ f[0] = 1 /\ (\A i \in 1..w : f[i] = 2 * f[i - 1]) /\ \A i \in 0..w : f[i] \in Nat \ {0}

\* The powers of two, computed one by one.
LEMMA PowersThere ==
  ASSUME NEW w \in Nat
  PROVE  \E f : Powers(f, w)
<1> DEFINE G == [p \in (1..w) \X Nat |-> 2 * p[2]]
<1>1. \A i \in 1..w, q \in Nat : G[<<i, q>>] = 2 * q /\ G[<<i, q>>] \in Nat
  OBVIOUS
<1>2. FoldsFrom(1, w, Nat, G)
  BY <1>1 DEF FoldsFrom
<1> HIDE DEF G
<1>3. PICK f \in [0..w -> Nat] : f[0] = 1 /\ \A i \in 1..w : f[i] = G[<<i, f[i - 1]>>]
  BY <1>2, Folding
<1>4. \A i \in 0..w : f[i] = IF i = 0 THEN 1 ELSE 2 * f[i - 1]
  <2> TAKE i \in 0..w
  <2>1. i = 0 \/ (i \in 1..w /\ f[i - 1] \in Nat)
    OBVIOUS
  <2>2. QED
    BY <1>1, <1>3, <2>1
<1>5. PowersBy(f, w)
  BY <1>4 DEF PowersBy
<1> DEFINE g == CHOOSE h : PowersBy(h, w)
<1>6. PowersBy(g, w)
  BY <1>5
<1>7. TwoTo(w) = g[w]
  BY DEF TwoTo, PowersBy
<1> HIDE DEF g
<1>8. g[0] = 1 /\ \A i \in 1..w : g[i] = 2 * g[i - 1]
  <2>1. \A i \in 0..w : g[i] = IF i = 0 THEN 1 ELSE 2 * g[i - 1]
    BY <1>6 DEF PowersBy
  <2>2. 0 \in 0..w /\ \A i \in 1..w : i \in 0..w /\ i # 0
    OBVIOUS
  <2>3. QED
    BY <2>1, <2>2
<1> DEFINE In == {i \in Nat : g[i] \in Nat \ {0}}
<1>9. 0 \in In
  BY <1>8
<1>10. ASSUME NEW i \in 0..(w - 1), i \in In PROVE i + 1 \in In
  <2>1. i + 1 \in 1..w /\ (i + 1) - 1 = i /\ g[i] \in Nat \ {0}
    BY <1>10
  <2>2. g[i + 1] = 2 * g[i]
    BY <1>8, <2>1
  <2>3. QED
    BY <2>1, <2>2
<1> HIDE DEF In
<1>11. \A i \in 0..w : i \in In
  BY <1>9, <1>10, Climbing
<1>12. Powers(g, w)
  BY <1>7, <1>8, <1>11 DEF Powers, In
<1>13. QED
  BY <1>12

\* A number below 2^w, and its first bit says which half it lies in.
LEMMA Halves ==
  ASSUME NEW v, Len(v) \in Nat \ {0}
  PROVE  /\ Number(v) \in Nat /\ TwoTo(Len(v)) \in Nat \ {0} /\ Number(v) < TwoTo(Len(v))
         /\ v[1] = "1" => 2 * Number(v) >= TwoTo(Len(v))
         /\ v[1] # "1" => 2 * Number(v) + 2 <= TwoTo(Len(v))
<1> DEFINE n == Len(v)
<1>1. PICK f : Numbers(f, v)
  BY NumbersThere
<1>2. PICK g : Powers(g, n)
  BY PowersThere
<1>3. /\ n \in Nat \ {0} /\ f[0] = 0 /\ g[0] = 1 /\ Number(v) = f[n] /\ TwoTo(n) = g[n]
      /\ \A i \in 1..n : f[i] = 2 * f[i - 1] + OneBit(v, i) /\ g[i] = 2 * g[i - 1]
      /\ \A i \in 0..n : f[i] \in Nat /\ g[i] \in Nat \ {0}
  BY <1>1, <1>2 DEF Numbers, Powers
<1> HIDE DEF n
<1> DEFINE Lies(i) == /\ f[i] < g[i]
                      /\ i > 0 => /\ v[1] = "1" => 2 * f[i] >= g[i]
                                  /\ v[1] # "1" => 2 * f[i] + 2 <= g[i]
           In == {i \in Nat : Lies(i)}
<1>4. 0 \in In
  BY <1>3
<1>5. ASSUME NEW i \in 0..(n - 1), i \in In PROVE i + 1 \in In
  <2>1. /\ i + 1 \in 1..n /\ i + 1 \in Nat /\ (i + 1) - 1 = i /\ OneBit(v, i + 1) \in 0..1 /\ i + 1 > 0
        /\ f[i] \in Nat /\ g[i] \in Nat \ {0} /\ Lies(i)
    BY <1>3, <1>5 DEF OneBit
  <2>2. f[i + 1] = 2 * f[i] + OneBit(v, i + 1) /\ g[i + 1] = 2 * g[i]
    BY <1>3, <2>1
  <2>3. i = 0 => OneBit(v, i + 1) = IF v[1] = "1" THEN 1 ELSE 0
    BY DEF OneBit
  <2>4. Lies(i + 1)
    <3>1. CASE i = 0
      BY <1>3, <2>1, <2>2, <2>3, <3>1
    <3>2. CASE i > 0
      BY <2>1, <2>2, <3>2
    <3>3. QED
      BY <2>1, <3>1, <3>2
  <2> HIDE DEF Lies
  <2>5. QED
    BY <2>1, <2>4
<1> HIDE DEF In
<1>6. n \in In
  <2>1. \A i \in 0..n : i \in In
    BY <1>3, <1>4, <1>5, Climbing
  <2>2. QED
    BY <1>3, <2>1
<1>7. Lies(n) /\ n > 0
  BY <1>3, <1>6 DEF In
<1>8. QED
  BY <1>3, <1>7 DEF n

\* A part of one to four bits: what it adds to the number of the bits before it.
Room(m) == IF m = 1 THEN 2 ELSE IF m = 2 THEN 4 ELSE IF m = 3 THEN 8 ELSE 16

IsPart(p, v, j, m) == j \in Nat /\ m \in 1..4 /\ j + m <= Len(v) /\ p = SubSeq(v, j + 1, j + m)
AddsOn(f, j, m, x) == x \in Nat /\ x < Room(m) /\ f[j + m] = Room(m) * f[j] + x

\* A number is the high digits times the weight of the low ones, and these.
LEMMA PartAdds ==
  ASSUME NEW v \in Seq(Bits), NEW f, Numbers(f, v), NEW m, NEW j, NEW p, IsPart(p, v, j, m)
  PROVE  AddsOn(f, j, m, Number(p))
<1>0. j \in Nat /\ m \in 1..4 /\ j + m <= Len(v) /\ p = SubSeq(v, j + 1, j + m)
  BY DEF IsPart
<1> SUFFICES Number(p) \in Nat /\ Number(p) < Room(m) /\ f[j + m] = Room(m) * f[j] + Number(p)
  BY DEF AddsOn
<1> USE <1>0
<1>1. Len(v) \in Nat /\ \A i \in 1..Len(v) : v[i] \in Bits
  BY LenProperties, ElementOfSeq
<1>2. /\ Len(p) = m /\ \A i \in 1..m : p[i] = v[j + i]
  <2> DEFINE a == j + 1
             b == j + m
  <2>1. a \in Int /\ b \in Int /\ a <= b /\ b - a + 1 = m /\ \A i \in a..b : v[i] \in Bits
    BY <1>1
  <2>2. \A i \in 1..m : a + i - 1 = j + i
    OBVIOUS
  <2>3. p = SubSeq(v, a, b)
    OBVIOUS
  <2> HIDE DEF a, b
  <2>4. Len(p) = b - a + 1 /\ \A i \in 1..(b - a + 1) : p[i] = v[a + i - 1]
    BY <2>1, <2>3, SubSeqProperties
  <2>5. QED
    BY <2>1, <2>2, <2>4
<1>3. PICK h : Numbers(h, p)
  <2>1. Len(p) \in Nat
    BY <1>2
  <2>2. QED
    BY <2>1, NumbersThere
<1>4. /\ Number(p) = h[m] /\ h[0] = 0
      /\ \A i \in 1..m : h[i] = 2 * h[i - 1] + OneBit(v, j + i)
  <2>1. \A i \in 1..m : OneBit(p, i) = OneBit(v, j + i)
    BY <1>2 DEF OneBit
  <2>2. QED
    BY <1>2, <1>3, <2>1 DEF Numbers
<1>5. f[j] \in Nat /\ \A i \in 1..m : f[j + i] = 2 * f[j + (i - 1)] + OneBit(v, j + i) /\ OneBit(v, j + i) \in 0..1
  <2>1. \A i \in 1..m : j + i \in 1..Len(v) /\ (j + i) - 1 = j + (i - 1) /\ OneBit(v, j + i) \in 0..1
    BY <1>1 DEF OneBit
  <2>2. j \in 0..Len(v)
    BY <1>1
  <2>3. QED
    BY <2>1, <2>2 DEF Numbers
<1> DEFINE x1 == OneBit(v, j + 1)
           x2 == OneBit(v, j + 2)
           x3 == OneBit(v, j + 3)
           x4 == OneBit(v, j + 4)
<1>6. f[j + 1] = 2 * f[j] + x1 /\ h[1] = x1 /\ x1 \in 0..1
  <2>1. 1 \in 1..m /\ j + (1 - 1) = j /\ 1 - 1 = 0
    OBVIOUS
  <2>2. QED
    BY <1>4, <1>5, <2>1
<1>7. m > 1 => f[j + 2] = 2 * f[j + 1] + x2 /\ h[2] = 2 * h[1] + x2 /\ x2 \in 0..1
  <2>1. m > 1 => 2 \in 1..m
    OBVIOUS
  <2>2. 2 - 1 = 1
    OBVIOUS
  <2>3. QED
    BY <1>4, <1>5, <2>1, <2>2
<1>8. m > 2 => f[j + 3] = 2 * f[j + 2] + x3 /\ h[3] = 2 * h[2] + x3 /\ x3 \in 0..1
  <2>1. m > 2 => 3 \in 1..m
    OBVIOUS
  <2>2. 3 - 1 = 2
    OBVIOUS
  <2>3. QED
    BY <1>4, <1>5, <2>1, <2>2
<1>9. m > 3 => f[j + 4] = 2 * f[j + 3] + x4 /\ h[4] = 2 * h[3] + x4 /\ x4 \in 0..1
  <2>1. m > 3 => 4 \in 1..m
    OBVIOUS
  <2>2. 4 - 1 = 3
    OBVIOUS
  <2>3. QED
    BY <1>4, <1>5, <2>1, <2>2
<1> DEFINE a == f[j]
           a1 == f[j + 1]
           a2 == f[j + 2]
           a3 == f[j + 3]
           a4 == f[j + 4]
           h1 == h[1]
           h2 == h[2]
           h3 == h[3]
           h4 == h[4]
<1> HIDE DEF x1, x2, x3, x4
<1>15. a \in Nat /\ a1 = 2 * a + x1 /\ h1 = x1 /\ x1 \in 0..1
  BY <1>5, <1>6
<1>16. m > 1 => a2 = 2 * a1 + x2 /\ h2 = 2 * h1 + x2 /\ x2 \in 0..1
  BY <1>7
<1>17. m > 2 => a3 = 2 * a2 + x3 /\ h3 = 2 * h2 + x3 /\ x3 \in 0..1
  BY <1>8
<1>18. m > 3 => a4 = 2 * a3 + x4 /\ h4 = 2 * h3 + x4 /\ x4 \in 0..1
  BY <1>9
<1>10. CASE m = 1
  BY <1>4, <1>5, <1>6, <1>10 DEF Room
<1>11. CASE m = 2
  <2>1. Number(p) = h2 /\ f[j + m] = a2 /\ Room(m) = 4 /\ f[j] = a
    BY <1>4, <1>11 DEF Room
  <2> HIDE DEF a, a1, a2, a3, a4, h1, h2, h3, h4
  <2>2. a \in Nat /\ a1 \in Nat /\ h1 \in 0..1 /\ a1 = 2 * a + h1
    BY <1>15
  <2>3. a2 \in Nat /\ h2 \in 0..3 /\ a2 = 4 * a + h2
    <3>1. a2 = 2 * a1 + x2 /\ h2 = 2 * h1 + x2 /\ x2 \in 0..1
      BY <1>11, <1>16
    <3>2. QED
      BY <2>2, <3>1
  <2>4. QED
    BY <2>1, <2>3
<1>12. CASE m = 3
  <2>1. Number(p) = h3 /\ f[j + m] = a3 /\ Room(m) = 8 /\ f[j] = a
    BY <1>4, <1>12 DEF Room
  <2> HIDE DEF a, a1, a2, a3, a4, h1, h2, h3, h4
  <2>2. a \in Nat /\ a1 \in Nat /\ h1 \in 0..1 /\ a1 = 2 * a + h1
    BY <1>15
  <2>3. a2 \in Nat /\ h2 \in 0..3 /\ a2 = 4 * a + h2
    <3>1. a2 = 2 * a1 + x2 /\ h2 = 2 * h1 + x2 /\ x2 \in 0..1
      BY <1>12, <1>16
    <3>2. QED
      BY <2>2, <3>1
  <2>4. a3 \in Nat /\ h3 \in 0..7 /\ a3 = 8 * a + h3
    <3>1. a3 = 2 * a2 + x3 /\ h3 = 2 * h2 + x3 /\ x3 \in 0..1
      BY <1>12, <1>17
    <3>2. QED
      BY <2>2, <2>3, <3>1
  <2>5. QED
    BY <2>1, <2>4
<1>13. CASE m = 4
  <2>1. Number(p) = h4 /\ f[j + m] = a4 /\ Room(m) = 16 /\ f[j] = a
    BY <1>4, <1>13 DEF Room
  <2> HIDE DEF a, a1, a2, a3, a4, h1, h2, h3, h4
  <2>2. a \in Nat /\ a1 \in Nat /\ h1 \in 0..1 /\ a1 = 2 * a + h1
    BY <1>15
  <2>3. a2 \in Nat /\ h2 \in 0..3 /\ a2 = 4 * a + h2
    <3>1. a2 = 2 * a1 + x2 /\ h2 = 2 * h1 + x2 /\ x2 \in 0..1
      BY <1>13, <1>16
    <3>2. QED
      BY <2>2, <3>1
  <2>4. a3 \in Nat /\ h3 \in 0..7 /\ a3 = 8 * a + h3
    <3>1. a3 = 2 * a2 + x3 /\ h3 = 2 * h2 + x3 /\ x3 \in 0..1
      BY <1>13, <1>17
    <3>2. QED
      BY <2>2, <2>3, <3>1
  <2>5. a4 \in Nat /\ h4 \in 0..15 /\ a4 = 16 * a + h4
    <3>1. a4 = 2 * a3 + x4 /\ h4 = 2 * h3 + x4 /\ x4 \in 0..1
      BY <1>13, <1>18
    <3>2. QED
      BY <2>2, <2>4, <3>1
  <2>6. QED
    BY <2>1, <2>5
<1>14. QED
  BY <1>10, <1>11, <1>12, <1>13

-----------------------------------------------------------------------------
(* The radixes *)

LEMMA DigitsDiffer ==
  /\ \A a, b \in 1..16 : Digits[a] = Digits[b] => a = b
  /\ \A a \in 1..16 : Digits[a] \notin {"X", "Z"}
<1>1. \A a, b \in 1..16 : Digits[a] = Digits[b] => a = b
  BY DEF Digits
<1>2. \A a \in 1..16 : Digits[a] \notin {"X", "Z"}
  BY DEF Digits
<1>3. QED
  BY <1>1, <1>2

LEMMA DigitOf ==
  ASSUME NEW size \in 1..4, NEW x \in Nat, x < Room(size)
  PROVE  (CHOOSE m \in 0..(Room(size) - 1) : Digits[m + 1] = Digits[x + 1]) = x
<1> DEFINE D == 0..(Room(size) - 1)
<1>1. x \in D /\ \A m \in D : m + 1 \in 1..16 /\ (m + 1 = x + 1 => m = x)
  BY DEF Room
<1>2. \A m \in D : Digits[m + 1] = Digits[x + 1] => m = x
  <2>1. \A m \in D : Digits[m + 1] = Digits[x + 1] => m + 1 = x + 1
    BY <1>1, DigitsDiffer
  <2>2. QED
    BY <1>1, <2>1
<1> HIDE DEF D
<1>3. (CHOOSE m \in D : Digits[m + 1] = Digits[x + 1]) = x
  BY <1>1, <1>2
<1>4. QED
  BY <1>3 DEF D

LEMMA RoomIs == \A size \in 1..4 : 2^size = Room(size)
<1>1. 2^1 = 2 /\ 2^2 = 4 /\ 2^3 = 8 /\ 2^4 = 16
  OBVIOUS
<1>2. \A size \in 1..4 : size = 1 \/ size = 2 \/ size = 3 \/ size = 4
  OBVIOUS
<1>3. Room(1) = 2 /\ Room(2) = 4 /\ Room(3) = 8 /\ Room(4) = 16
  BY DEF Room
<1>4. QED
  BY <1>1, <1>2, <1>3

\* The parts of a value, from the right, and where each ends.
Parts(v, size) == (Len(v) + size - 1) \div size
EndOf(v, size, k) == Len(v) - (Parts(v, size) - k) * size
StartOf(v, size, k) == Later(0, EndOf(v, size, k - 1))
PartOf(v, size, k) == SubSeq(v, StartOf(v, size, k) + 1, EndOf(v, size, k))

\* The groups of a value end at its last bit, each one its size further.
LEMMA PartsFit ==
  ASSUME NEW v, Len(v) \in Nat \ {0}, NEW size \in 1..4
  PROVE  LET n == Parts(v, size) IN
         /\ n \in Nat \ {0} /\ EndOf(v, size, n) = Len(v) /\ EndOf(v, size, 0) <= 0 /\ EndOf(v, size, 1) > 0
         /\ \A k \in 0..n : EndOf(v, size, k) \in Int
         /\ \A k \in 1..n : EndOf(v, size, k) = EndOf(v, size, k - 1) + size /\ EndOf(v, size, k) <= Len(v)
         /\ \A k \in 2..n : EndOf(v, size, k - 1) > 0
<1> DEFINE n == Parts(v, size)
           l == Len(v)
<1>1. n = (l + size - 1) \div size /\ l \in Nat \ {0}
  BY DEF Parts
<1>2. \A k : EndOf(v, size, k) = l - (n - k) * size
  BY DEF EndOf
<1> HIDE DEF n, l
<1> DEFINE Fine == /\ n \in Nat \ {0} /\ l - (n - n) * size = l /\ l - (n - 0) * size <= 0 /\ l - (n - 1) * size > 0
                   /\ \A k \in 0..n : l - (n - k) * size \in Int
                   /\ \A k \in 1..n : /\ l - (n - k) * size = l - (n - (k - 1)) * size + size
                                      /\ l - (n - k) * size <= l
                   /\ \A k \in 2..n : l - (n - (k - 1)) * size > 0
<1>3. CASE size = 1
  <2>1. n = l
    BY <1>1, <1>3
  <2>2. Fine
    BY <1>1, <1>3, <2>1
  <2>3. QED
    BY <1>2, <2>2 DEF n, l
<1>4. CASE size = 2
  <2>1. n \in Nat \ {0} /\ n * 2 >= l /\ n * 2 < l + 2
    BY <1>1, <1>4
  <2>2. Fine
    BY <1>1, <1>4, <2>1
  <2>3. QED
    BY <1>2, <2>2 DEF n, l
<1>5. CASE size = 3
  <2>1. n \in Nat \ {0} /\ n * 3 >= l /\ n * 3 < l + 3
    BY <1>1, <1>5
  <2>2. Fine
    BY <1>1, <1>5, <2>1
  <2>3. QED
    BY <1>2, <2>2 DEF n, l
<1>6. CASE size = 4
  <2>1. n \in Nat \ {0} /\ n * 4 >= l /\ n * 4 < l + 4
    BY <1>1, <1>6
  <2>2. Fine
    BY <1>1, <1>6, <2>1
  <2>3. QED
    BY <1>2, <2>2 DEF n, l
<1>7. QED
  BY <1>3, <1>4, <1>5, <1>6

\* The groups are the digits of the parts.
LEMMA GroupsAre ==
  ASSUME NEW v, Len(v) \in Nat \ {0}, NEW size \in 1..4
  PROVE  /\ Len(Groups(v, size)) = Parts(v, size)
         /\ \A k \in 1..Parts(v, size) : Groups(v, size)[k] = Digit(PartOf(v, size, k))
<1> DEFINE n == Parts(v, size)
           g == [k \in 1..n |-> Digit(SubSeq(v, Later(1, Len(v) - (n - k + 1) * size + 1), Len(v) - (n - k) * size))]
<1>1. Groups(v, size) = g
  BY DEF Groups, Parts
<1>2. n \in Nat /\ \A k \in 0..n : EndOf(v, size, k) \in Int
  BY PartsFit
<1>3. \A k \in 1..n : Later(1, Len(v) - (n - k + 1) * size + 1) = StartOf(v, size, k) + 1
  <2> TAKE k \in 1..n
  <2>1. n - k + 1 = n - (k - 1)
    BY <1>2
  <2> DEFINE e == Len(v) - (n - (k - 1)) * size
  <2>2. e = EndOf(v, size, k - 1) /\ e \in Int
    BY <1>2 DEF EndOf
  <2>3. Len(v) - (n - k + 1) * size + 1 = e + 1
    BY <2>1
  <2> HIDE DEF e
  <2>4. Later(1, e + 1) = Later(0, e) + 1
    BY <2>2 DEF Later
  <2>5. QED
    BY <2>2, <2>3, <2>4 DEF StartOf
<1>4. \A k \in 1..n : g[k] = Digit(PartOf(v, size, k))
  BY <1>3 DEF PartOf, EndOf
<1>5. Len(g) = n
  BY <1>2
<1>6. QED
  BY <1>1, <1>4, <1>5

Known(v) == v \in Seq(Bits) /\ v # <<>> /\ ~Unknown(v)

LEMMA KnownFacts ==
  ASSUME NEW v \in Seq(Bits), v # <<>>
  PROVE  /\ Len(v) \in Nat \ {0} /\ DOMAIN v = 1..Len(v) /\ Head(v) = v[1]
         /\ \A i \in 1..Len(v) : v[i] \in Bits
  BY EmptySeq, LenProperties, ElementOfSeq, HeadTailProperties

\* One digit of a known value: where it starts, what it says, what it adds.
LEMMA PartSays ==
  ASSUME NEW v, Known(v), NEW f, Numbers(f, v), NEW size \in 1..4, NEW k \in 1..Parts(v, size)
  PROVE  LET p == PartOf(v, size, k) IN
         /\ Number(p) \in Nat /\ Number(p) < Room(size) /\ Digit(p) = Digits[Number(p) + 1]
         /\ Later(0, EndOf(v, size, k)) \in 0..Len(v) /\ StartOf(v, size, k) \in 0..Len(v)
         /\ f[Later(0, EndOf(v, size, k))] = Room(size) * f[StartOf(v, size, k)] + Number(p)
<1> DEFINE p == PartOf(v, size, k)
           a == EndOf(v, size, k - 1)
           e == EndOf(v, size, k)
           j == StartOf(v, size, k)
           m == e - j
<1>1. Len(v) \in Nat \ {0} /\ \A i \in 1..Len(v) : v[i] \in {"0", "1"}
  <2>1. Len(v) \in Nat \ {0} /\ DOMAIN v = 1..Len(v) /\ \A i \in 1..Len(v) : v[i] \in Bits
    BY KnownFacts DEF Known
  <2>2. \A i \in 1..Len(v) : ~(v[i] \in {"x", "z"})
    BY <2>1 DEF Known, Unknown
  <2>3. QED
    BY <2>1, <2>2 DEF Bits
<1>2. /\ Parts(v, size) \in Nat \ {0} /\ a \in Int /\ e = a + size /\ e <= Len(v) /\ EndOf(v, size, 0) <= 0
      /\ EndOf(v, size, 1) > 0 /\ (k \in 2..Parts(v, size) => a > 0)
  <2>1. /\ Parts(v, size) \in Nat \ {0} /\ EndOf(v, size, 0) <= 0 /\ EndOf(v, size, 1) > 0
        /\ \A i \in 0..Parts(v, size) : EndOf(v, size, i) \in Int
        /\ \A i \in 1..Parts(v, size) : EndOf(v, size, i) = EndOf(v, size, i - 1) + size /\ EndOf(v, size, i) <= Len(v)
        /\ \A i \in 2..Parts(v, size) : EndOf(v, size, i - 1) > 0
    BY <1>1, PartsFit
  <2>2. k - 1 \in 0..Parts(v, size)
    BY <2>1
  <2>3. QED
    BY <2>1, <2>2
<1>3. k = 1 \/ k \in 2..Parts(v, size)
  BY <1>2
<1>4. j = Later(0, a)
  BY DEF StartOf
<1>5. p = SubSeq(v, j + 1, e)
  BY DEF PartOf
<1>6. k = 1 => a <= 0 /\ e > 0
  BY <1>2
<1> HIDE DEF p, a, e, j
<1>7. /\ j \in Nat /\ m \in 1..4 /\ m <= size /\ j + m = e /\ j + m <= Len(v) /\ Later(0, e) = e
      /\ (k = 1 => j = 0) /\ (k # 1 => m = size)
  <2>1. CASE k = 1
    BY <1>1, <1>2, <1>4, <1>6, <2>1 DEF Later
  <2>2. CASE k \in 2..Parts(v, size)
    BY <1>1, <1>2, <1>4, <2>2 DEF Later
  <2>3. QED
    BY <1>3, <2>1, <2>2
<1> HIDE DEF m
<1>8. /\ Number(p) \in Nat /\ Number(p) < Room(m) /\ f[e] = Room(m) * f[j] + Number(p)
  <2>1. p = SubSeq(v, j + 1, j + m) /\ v \in Seq(Bits)
    BY <1>5, <1>7 DEF Known
  <2>2. /\ Number(p) \in Nat /\ Number(p) < Room(m)
        /\ f[j + m] = Room(m) * f[j] + Number(p)
    <3>1. IsPart(p, v, j, m)
      BY <1>7, <2>1 DEF IsPart
    <3>2. AddsOn(f, j, m, Number(p))
      BY <2>1, <3>1, PartAdds
    <3>3. QED
      BY <3>2 DEF AddsOn
  <2>3. j + m = e
    BY <1>7
  <2>4. QED
    BY <2>2, <2>3
<1>9. Room(m) \in Nat /\ Room(size) \in Nat /\ Room(m) <= Room(size)
  BY <1>7 DEF Room
<1>10. f[e] = Room(size) * f[j] + Number(p) /\ Number(p) < Room(size)
  <2>1. CASE k = 1
    <3>1. f[j] = 0
      BY <1>7, <2>1 DEF Numbers
    <3>2. Room(m) * f[j] = 0 /\ Room(size) * f[j] = 0
      BY <1>9, <3>1
    <3>3. QED
      BY <1>8, <1>9, <3>2
  <2>2. CASE k # 1
    BY <1>7, <1>8, <2>2
  <2>3. QED
    BY <2>1, <2>2
<1>11. Len(p) = m /\ \A i \in 1..m : p[i] = v[j + i]
  <2> DEFINE b == j + 1
  <2>1. b \in Int /\ e \in Int /\ b <= e /\ e - b + 1 = m
    BY <1>7
  <2>2. \A i \in b..e : v[i] \in {"0", "1"}
    BY <1>1, <1>7
  <2>3. \A i \in 1..m : b + i - 1 = j + i
    BY <1>7
  <2>4. p = SubSeq(v, b, e)
    BY <1>5
  <2> HIDE DEF b
  <2>5. Len(p) = e - b + 1 /\ \A i \in 1..(e - b + 1) : p[i] = v[b + i - 1]
    BY <2>1, <2>2, <2>4, SubSeqProperties
  <2>6. QED
    BY <2>1, <2>3, <2>5
<1>12. p \in Seq({"0", "1"})
  <2> DEFINE b == j + 1
  <2>1. b \in Int /\ e \in Int
    BY <1>7
  <2>2. \A i \in b..e : v[i] \in {"0", "1"}
    BY <1>1, <1>7
  <2>3. p = SubSeq(v, b, e)
    BY <1>5
  <2> HIDE DEF b
  <2>4. QED
    BY <2>1, <2>2, <2>3, SubSeqProperties
<1>13. DOMAIN p = 1..m /\ 1 \in 1..m
  BY <1>7, <1>11, <1>12, LenProperties
<1>14. \A i \in 1..m : p[i] \in {"0", "1"}
  BY <1>11, <1>12, ElementOfSeq
<1>15. ~Floats(p) /\ ~Unknown(p)
  BY <1>13, <1>14 DEF Floats, Unknown
<1>16. Digit(p) = Digits[Number(p) + 1]
  BY <1>15 DEF Digit
<1>17. Later(0, e) \in 0..Len(v) /\ j \in 0..Len(v) /\ f[Later(0, e)] = f[e]
  BY <1>1, <1>7
<1>18. QED
  BY <1>8, <1>10, <1>16, <1>17 DEF p, e, j

WorthOf(s, size) == CHOOSE n \in 0..(2^size - 1) : Digits[n + 1] = s
WorthBy(h, g, size) ==
  h = [k \in 0..Len(g) |->
        IF k = 0 THEN 0 ELSE h[k - 1] * 2^size + (CHOOSE n \in 0..(2^size - 1) : Digits[n + 1] = g[k])]

\* The digits shown are worth the number the bits are.
LEMMA WorthIsNumber ==
  ASSUME NEW v, Known(v), NEW size \in 1..4
  PROVE  Worth(v, size) = Number(v)
<1> DEFINE n == Parts(v, size)
           g == Groups(v, size)
           r == 2^size
           number(k) == Number(PartOf(v, size, k))
<1>1. Len(v) \in Nat \ {0}
  BY KnownFacts DEF Known
<1>2. PICK f : Numbers(f, v)
  BY <1>1, NumbersThere
<1>3. r = Room(size) /\ r \in Nat
  <2>1. r = Room(size)
    BY RoomIs
  <2>2. Room(size) \in Nat
    BY DEF Room
  <2>3. QED
    BY <2>1, <2>2
<1>4. n \in Nat \ {0} /\ EndOf(v, size, n) = Len(v) /\ EndOf(v, size, 0) <= 0 /\ EndOf(v, size, 0) \in Int
  <2>1. \A i \in 0..n : EndOf(v, size, i) \in Int
    BY <1>1, PartsFit
  <2>2. n \in Nat \ {0} /\ EndOf(v, size, n) = Len(v) /\ EndOf(v, size, 0) <= 0
    BY <1>1, PartsFit
  <2>3. QED
    BY <2>1, <2>2
<1>5. Len(g) = n /\ \A k \in 1..n : g[k] = Digit(PartOf(v, size, k))
  BY <1>1, GroupsAre
<1>6. ASSUME NEW k \in 1..n
      PROVE  /\ number(k) \in Nat /\ WorthOf(g[k], size) = number(k)
             /\ f[Later(0, EndOf(v, size, k))] = r * f[Later(0, EndOf(v, size, k - 1))] + number(k)
             /\ f[Later(0, EndOf(v, size, k - 1))] \in Nat
  <2>1. /\ number(k) \in Nat /\ number(k) < Room(size) /\ Digit(PartOf(v, size, k)) = Digits[number(k) + 1]
        /\ StartOf(v, size, k) \in 0..Len(v)
        /\ f[Later(0, EndOf(v, size, k))] = Room(size) * f[StartOf(v, size, k)] + number(k)
    BY <1>2, PartSays
  <2>2. g[k] = Digits[number(k) + 1]
    BY <1>5, <2>1
  <2>3. StartOf(v, size, k) = Later(0, EndOf(v, size, k - 1))
    BY DEF StartOf
  <2>4. f[StartOf(v, size, k)] \in Nat
    BY <1>2, <2>1 DEF Numbers
  <2> HIDE DEF number, g
  <2>5. (CHOOSE m \in 0..(Room(size) - 1) : Digits[m + 1] = Digits[number(k) + 1]) = number(k)
    BY <2>1, DigitOf
  <2>6. WorthOf(g[k], size) = number(k)
    BY <1>3, <2>2, <2>5 DEF WorthOf
  <2>7. QED
    BY <1>3, <2>1, <2>3, <2>4, <2>6
<1> HIDE DEF n, g, r, number
<1> DEFINE G == [p \in (1..n) \X Nat |-> p[2] * r + number(p[1])]
<1>7. \A k \in 1..n, q \in Nat : G[<<k, q>>] = q * r + number(k) /\ G[<<k, q>>] \in Nat
  <2> TAKE k \in 1..n, q \in Nat
  <2>1. G[<<k, q>>] = q * r + number(k)
    OBVIOUS
  <2>2. q * r + number(k) \in Nat
    BY <1>3, <1>6
  <2>3. QED
    BY <2>1, <2>2
<1>8. FoldsFrom(0, n, Nat, G)
  <2>1. n \in Nat
    BY <1>4
  <2>2. QED
    BY <1>7, <2>1 DEF FoldsFrom
<1> HIDE DEF G
<1>9. PICK h \in [0..n -> Nat] : h[0] = 0 /\ \A k \in 1..n : h[k] = G[<<k, h[k - 1]>>]
  BY <1>8, Folding
<1>10. \A k \in 0..n : h[k] = IF k = 0 THEN 0 ELSE h[k - 1] * r + WorthOf(g[k], size)
  <2> TAKE k \in 0..n
  <2>1. k = 0 \/ (k \in 1..n /\ h[k - 1] \in Nat)
    BY <1>4
  <2>2. QED
    BY <1>6, <1>7, <1>9, <2>1
<1>11. WorthBy(h, g, size)
  BY <1>5, <1>10 DEF WorthBy, WorthOf, r
<1> DEFINE u == CHOOSE x : WorthBy(x, g, size)
<1>12. WorthBy(u, g, size)
  BY <1>11
<1>13. Worth(v, size) = u[Len(g)]
  BY DEF Worth, WorthBy, g
<1> HIDE DEF u
<1>14. u[0] = 0 /\ \A k \in 1..n : u[k] = u[k - 1] * r + number(k)
  <2>1. \A k \in 0..n : u[k] = IF k = 0 THEN 0 ELSE u[k - 1] * r + WorthOf(g[k], size)
    BY <1>5, <1>12 DEF WorthBy, WorthOf, r
  <2>2. 0 \in 0..n /\ \A k \in 1..n : k \in 0..n /\ k # 0
    BY <1>4
  <2>3. QED
    BY <1>6, <2>1, <2>2
<1> DEFINE e(k) == Later(0, EndOf(v, size, k))
           In == {k \in Nat : u[k] = f[e(k)]}
<1>15. 0 \in In
  <2>1. e(0) = 0
    BY <1>4 DEF Later
  <2>2. QED
    BY <1>2, <1>14, <2>1 DEF Numbers
<1>16. ASSUME NEW k \in 0..(n - 1), k \in In PROVE k + 1 \in In
  <2>1. k + 1 \in 1..n /\ (k + 1) - 1 = k /\ k + 1 \in Nat
    BY <1>4
  <2>2. u[k + 1] = u[k] * r + number(k + 1)
    BY <1>14, <2>1
  <2>3. f[e(k + 1)] = r * f[e(k)] + number(k + 1) /\ f[e(k)] \in Nat
    BY <1>6, <2>1
  <2>4. u[k] = f[e(k)]
    BY <1>16
  <2> HIDE DEF e
  <2>5. r * f[e(k)] = u[k] * r
    BY <1>3, <2>3, <2>4
  <2>6. QED
    BY <2>1, <2>2, <2>3, <2>5
<1> HIDE DEF In, e
<1>17. n \in In
  <2>1. n \in Nat
    BY <1>4
  <2>2. \A k \in 0..n : k \in In
    BY <1>15, <1>16, <2>1, Climbing
  <2>3. QED
    BY <2>1, <2>2
<1>18. e(n) = Len(v)
  BY <1>1, <1>4 DEF e, Later
<1>19. QED
  BY <1>2, <1>5, <1>13, <1>17, <1>18 DEF In, Numbers

\* The signed reading: the bits below half of 2^w say themselves, the others less 2^w.
LEMMA SignedReads ==
  ASSUME NEW v, Known(v)
  PROVE  \E n \in {Number(v), Number(v) - TwoTo(Len(v))} :
           Signed(v) = Decimal(n) /\ 2 * n \in -TwoTo(Len(v))..(TwoTo(Len(v)) - 1)
<1> DEFINE a == Number(v)
           b == TwoTo(Len(v))
<1>1. Len(v) \in Nat \ {0} /\ DOMAIN v = 1..Len(v) /\ Head(v) = v[1]
  BY KnownFacts DEF Known
<1>2. /\ a \in Nat /\ b \in Nat \ {0} /\ a < b
      /\ v[1] = "1" => 2 * a >= b
      /\ v[1] # "1" => 2 * a + 2 <= b
  BY <1>1, Halves
<1>3. ~Unknown(v) /\ ~Floats(v)
  <2>1. 1 \in DOMAIN v
    BY <1>1
  <2>2. QED
    BY <2>1 DEF Known, Unknown, Floats
<1>4. Signed(v) = Decimal(a - IF v[1] = "1" THEN b ELSE 0)
  BY <1>1, <1>3 DEF Signed
<1> HIDE DEF a, b
<1>5. CASE v[1] = "1"
  <2>1. Signed(v) = Decimal(a - b)
    BY <1>4, <1>5
  <2>2. 2 * (a - b) \in -b..(b - 1)
    BY <1>2, <1>5
  <2>3. QED
    BY <2>1, <2>2 DEF a, b
<1>6. CASE v[1] # "1"
  <2>1. a - 0 = a
    BY <1>2
  <2>2. Signed(v) = Decimal(a)
    BY <1>4, <1>6, <2>1
  <2>3. 2 * a \in -b..(b - 1)
    BY <1>2, <1>6
  <2>4. QED
    BY <2>2, <2>3 DEF a, b
<1>7. QED
  BY <1>5, <1>6

\* In binary a bit is X or Z exactly when it is not known.
LEMMA BinaryReads ==
  ASSUME NEW v \in Seq(Bits), v # <<>>, NEW i \in DOMAIN v
  PROVE  (Groups(v, 1)[i] \in {"X", "Z"}) = (v[i] \in {"x", "z"})
<1> DEFINE p == PartOf(v, 1, i)
           l == Len(v)
<1>1. l \in Nat \ {0} /\ i \in 1..l /\ v[i] \in Bits
  BY KnownFacts
<1>2. Parts(v, 1) = l
  <2>1. (l + 1 - 1) \div 1 = l
    BY <1>1
  <2>2. QED
    BY <2>1 DEF Parts
<1>3. EndOf(v, 1, i) = i /\ StartOf(v, 1, i) + 1 = i
  <2>1. \A k \in 0..l : EndOf(v, 1, k) = k
    BY <1>1, <1>2 DEF EndOf
  <2>2. i \in 0..l /\ i - 1 \in 0..l /\ Later(0, i - 1) = i - 1
    BY <1>1 DEF Later
  <2>3. QED
    BY <2>1, <2>2 DEF StartOf
<1>4. Groups(v, 1)[i] = Digit(p)
  BY <1>1, <1>2, GroupsAre
<1>5. p = SubSeq(v, i, i)
  BY <1>3 DEF PartOf
<1> HIDE DEF p, l
<1>6. p \in Seq(Bits) /\ Len(p) = 1 /\ p[1] = v[i]
  <2>1. i \in Int /\ \A j \in i..i : v[j] \in Bits
    BY <1>1
  <2> DEFINE a == i
             b == i
  <2>0. a \in Int /\ b \in Int /\ a <= b /\ (\A j \in a..b : v[j] \in Bits) /\ p = SubSeq(v, a, b)
    BY <1>5, <2>1
  <2>6. a = i /\ b = i
    OBVIOUS
  <2> HIDE DEF a, b
  <2>5. p \in Seq(Bits) /\ Len(p) = b - a + 1 /\ \A j \in 1..(b - a + 1) : p[j] = v[a + j - 1]
    BY <2>0, SubSeqProperties
  <2>2. p \in Seq(Bits) /\ Len(p) = i - i + 1 /\ \A j \in 1..(i - i + 1) : p[j] = v[i + j - 1]
    BY <2>5, <2>6
  <2>3. i - i + 1 = 1 /\ i + 1 - 1 = i
    BY <1>1
  <2>4. QED
    BY <2>2, <2>3
<1>7. DOMAIN p = {1}
  BY <1>6, LenProperties
<1>8. (Floats(p) <=> v[i] = "z") /\ (Unknown(p) <=> v[i] \in {"x", "z"})
  BY <1>6, <1>7 DEF Floats, Unknown
<1>9. CASE v[i] \in {"x", "z"}
  BY <1>4, <1>8, <1>9 DEF Digit
<1>10. CASE v[i] \notin {"x", "z"}
  <2>1. Digit(p) = Digits[Number(p) + 1]
    BY <1>8, <1>10 DEF Digit
  <2>2. PICK f : Numbers(f, p)
    BY <1>6, NumbersThere
  <2>3. Number(p) \in 0..1
    <3>1. Number(p) = f[1] /\ f[0] = 0 /\ 1 \in 1..Len(p)
      BY <1>6, <2>2 DEF Numbers
    <3>2. f[1] = 2 * f[1 - 1] + OneBit(p, 1) /\ OneBit(p, 1) \in 0..1
      BY <2>2, <3>1 DEF Numbers, OneBit
    <3>3. 1 - 1 = 0
      OBVIOUS
    <3>4. QED
      BY <3>1, <3>2, <3>3
  <2>4. Number(p) + 1 \in 1..16
    BY <2>3
  <2>5. Digit(p) \notin {"X", "Z"}
    BY <2>1, <2>4, DigitsDiffer
  <2>6. QED
    BY <1>4, <1>10, <2>5
<1>11. QED
  BY <1>9, <1>10

LEMMA EveryValueReads ==
  ASSUME NEW v \in Seq(Bits), v # <<>>
  PROVE  Reads(v)
<1>1. CASE ~Unknown(v)
  <2>1. Known(v)
    BY <1>1 DEF Known
  <2>2. \A size \in 1..4 : Worth(v, size) = Number(v)
    BY <2>1, WorthIsNumber
  <2>3. \E n \in {Number(v), Number(v) - TwoTo(Len(v))} :
          Signed(v) = Decimal(n) /\ 2 * n \in -TwoTo(Len(v))..(TwoTo(Len(v)) - 1)
    BY <2>1, SignedReads
  <2>4. QED
    BY <1>1, <2>2, <2>3 DEF Reads
<1>2. CASE Unknown(v)
  <2>1. Unsigned(v) \in {<<"X">>, <<"Z">>}
    BY <1>2 DEF Unsigned
  <2>2. \A i \in DOMAIN v : (Groups(v, 1)[i] \in {"X", "Z"}) = (v[i] \in {"x", "z"})
    BY BinaryReads
  <2>3. QED
    BY <1>2, <2>1, <2>2 DEF Reads
<1>3. QED
  BY <1>1, <1>2

LEMMA RadixesAreRead == DumpInv => RadixesRead
<1> SUFFICES ASSUME DumpInv, NEW c \in Codes, NEW i \in DOMAIN sigs[c] PROVE Reads(sigs[c][i].v)
  BY DEF RadixesRead
<1> DEFINE s == sigs[c]
           w == WidthOf[c]
           v == s[i].v
<1>1. s \in Series /\ (\A j \in 1..Len(s) : Len(s[j].v) = w) /\ w \in Nat \ {0}
  BY DumpAssumption DEF DumpInv, CodeOK
<1>2. i \in 1..Len(s) /\ v \in Seq(Bits)
  BY <1>1, SeriesFacts
<1>3. v # <<>>
  <2>1. Len(v) = w
    BY <1>1, <1>2
  <2>2. Len(<<>>) = 0
    BY EmptySeq
  <2> HIDE DEF v, w
  <2>3. QED
    BY <1>1, <2>1, <2>2
<1> HIDE DEF v
<1>4. Reads(v)
  BY <1>2, <1>3, EveryValueReads
<1>5. QED
  BY <1>4 DEF v

-----------------------------------------------------------------------------
(* The blocks on the canvas *)

Shows == {"high", "low", "float", "unknown", "value", "dense"}
Block == [from : Int, to : Int, shows : Shows]

\* One round of the drawing: `gap` ticks are dense, nothing is drawn behind `far`.
FromX(s, t0, n, clip, k) == IF clip THEN Later(t0 - 2 * n, s[k].t) ELSE s[k].t
ToX(s, end, k) == IF k < Len(s) THEN s[k + 1].t ELSE end
Hop(s, t0, n, gap, clip, k) == Later(IndexAt(s, FromX(s, t0, n, clip, k) + gap), k + 1)
DenseBlock(s, end, t0, n, gap, clip, k) ==
  LET j == Hop(s, t0, n, gap, clip, k) IN
  [from |-> FromX(s, t0, n, clip, k),
   to |-> Later(FromX(s, t0, n, clip, k) + n, IF j <= Len(s) THEN s[j].t ELSE end), shows |-> "dense"]
PlainBlock(s, end, t0, n, far, clip, k) ==
  [from |-> FromX(s, t0, n, clip, k), to |-> IF clip THEN Earlier(ToX(s, end, k), far) ELSE ToX(s, end, k),
   shows |-> Level(s[k].v)]
Dense(s, end, t0, n, gap, clip, k) == ToX(s, end, k) - FromX(s, t0, n, clip, k) < gap /\ k < Len(s)
Stops(s, t0, n, far, clip, k) == k > Len(s) \/ FromX(s, t0, n, clip, k) > far
Drawn(d, s, end, t0, n, gap, far, clip, k) ==
  IF Stops(s, t0, n, far, clip, k) THEN {}
  ELSE IF Dense(s, end, t0, n, gap, clip, k)
  THEN {DenseBlock(s, end, t0, n, gap, clip, k)} \cup d[Hop(s, t0, n, gap, clip, k)]
  ELSE {PlainBlock(s, end, t0, n, far, clip, k)} \cup d[k + 1]
DrawsBy(d, s, end, t0, n, gap, far, clip) ==
  d = [k \in 1..(Len(s) + 1) |-> Drawn(d, s, end, t0, n, gap, far, clip, k)]

BlocksBy(d, s, end, t0, n, width, dense, clip) ==
  d = [k \in 1..(Len(s) + 1) |->
        LET xa == IF clip THEN Later(t0 - 2 * n, s[k].t) ELSE s[k].t
            xb == IF k < Len(s) THEN s[k + 1].t ELSE end
            j  == Later(IndexAt(s, xa + dense * n), k + 1)
            xj == IF j <= Len(s) THEN s[j].t ELSE end
        IN IF k > Len(s) \/ xa > t0 + n * (width + 2) THEN {}
           ELSE IF xb - xa < dense * n /\ k < Len(s)
           THEN {[from |-> xa, to |-> Later(xa + n, xj), shows |-> "dense"]} \cup d[j]
           ELSE {[from |-> xa, to |-> IF clip THEN Earlier(xb, t0 + n * (width + 2)) ELSE xb,
                  shows |-> Level(s[k].v)]} \cup d[k + 1]]

LEMMA BlocksAre ==
  ASSUME NEW s, NEW end, NEW t0, NEW n, NEW width, NEW dense, NEW clip
  PROVE  \A d : BlocksBy(d, s, end, t0, n, width, dense, clip)
                  <=> DrawsBy(d, s, end, t0, n, dense * n, t0 + n * (width + 2), clip)
  BY DEF BlocksBy, DrawsBy, Drawn, Stops, Dense, DenseBlock, PlainBlock, Hop, ToX, FromX

\* What is drawn: a series, all of it in the run.
Drawable(s, end, t0, n, gap, far) ==
  /\ s \in Series /\ Growing(s) /\ \A i \in 1..Len(s) : s[i].t <= end
  /\ end \in Nat /\ t0 \in Nat /\ n \in Nat \ {0} /\ gap \in Nat /\ far \in Nat

LEMMA DrawFacts ==
  ASSUME NEW s, NEW end, NEW t0, NEW n, NEW gap, NEW far, NEW clip \in BOOLEAN,
         Drawable(s, end, t0, n, gap, far), NEW k \in 1..Len(s)
  PROVE  /\ FromX(s, t0, n, clip, k) \in Int /\ ToX(s, end, k) \in Nat
         /\ FromX(s, t0, n, clip, k) >= s[k].t /\ s[k].t \in Nat
         /\ s[k].t <= ToX(s, end, k)
         /\ Hop(s, t0, n, gap, clip, k) \in (k + 1)..(Len(s) + 1)
         /\ (k < Len(s) => Hop(s, t0, n, gap, clip, k) <= Len(s))
         /\ PlainBlock(s, end, t0, n, far, clip, k) \in Block /\ DenseBlock(s, end, t0, n, gap, clip, k) \in Block
<1>1. /\ Len(s) \in Nat /\ DOMAIN s = 1..Len(s) /\ \A i \in 1..Len(s) : s[i].t \in Nat
      /\ s \in Series /\ Growing(s)
  BY SeriesFacts DEF Drawable
<1>2. /\ end \in Nat /\ t0 \in Nat /\ n \in Nat \ {0} /\ gap \in Nat /\ far \in Nat
      /\ \A i \in 1..Len(s) : s[i].t <= end
  BY DEF Drawable
<1> DEFINE x == FromX(s, t0, n, clip, k)
           y == ToX(s, end, k)
           j == Hop(s, t0, n, gap, clip, k)
<1>3. x \in Int /\ x >= s[k].t
  BY <1>1, <1>2 DEF FromX, Later
<1>4. y \in Nat /\ s[k].t <= y
  <2>1. CASE k < Len(s)
    <3>1. k + 1 \in 1..Len(s) /\ k < k + 1
      BY <1>1, <2>1
    <3>2. s[k].t < s[k + 1].t
      BY <1>1, <3>1 DEF Growing
    <3>3. QED
      BY <1>1, <2>1, <3>1, <3>2 DEF ToX
  <2>2. CASE ~(k < Len(s))
    BY <1>2, <2>2 DEF ToX
  <2>3. QED
    BY <2>1, <2>2
<1>5. j \in (k + 1)..(Len(s) + 1) /\ (k < Len(s) => j <= Len(s))
  <2> HIDE DEF x
  <2>1. IndexAt(s, x + gap) \in 0..Len(s)
    <3>1. x + gap \in Int
      BY <1>2, <1>3
    <3>2. QED
      BY <1>1, <3>1, IndexFinds
  <2>2. j = Later(IndexAt(s, x + gap), k + 1)
    BY DEF Hop, x
  <2> HIDE DEF j
  <2>3. QED
    BY <1>1, <2>1, <2>2 DEF Later
<1>6. Level(s[k].v) \in Shows
  BY DEF Level, Shows
<1>7. PlainBlock(s, end, t0, n, far, clip, k) \in Block
  <2> DEFINE to == IF clip THEN Earlier(y, far) ELSE y
  <2>1. PlainBlock(s, end, t0, n, far, clip, k) = [from |-> x, to |-> to, shows |-> Level(s[k].v)]
    BY DEF PlainBlock
  <2> HIDE DEF x, y
  <2>2. to \in Int
    BY <1>2, <1>4 DEF Earlier
  <2> HIDE DEF to
  <2>3. QED
    BY <1>3, <1>6, <2>1, <2>2 DEF Block
<1>8. DenseBlock(s, end, t0, n, gap, clip, k) \in Block
  <2> DEFINE last == IF j <= Len(s) THEN s[j].t ELSE end
             to == Later(x + n, last)
             dense == "dense"
  <2>1. DenseBlock(s, end, t0, n, gap, clip, k) = [from |-> x, to |-> to, shows |-> dense]
    BY DEF DenseBlock
  <2>2. dense \in Shows
    BY DEF Shows
  <2> HIDE DEF x, j
  <2>3. to \in Int
    <3>1. j <= Len(s) => j \in 1..Len(s)
      BY <1>1, <1>5
    <3>2. last \in Nat
      BY <1>1, <1>2, <3>1
    <3> HIDE DEF last
    <3>3. QED
      BY <1>2, <1>3, <3>2 DEF Later
  <2> HIDE DEF to, dense
  <2>4. QED
    BY <1>3, <2>1, <2>2, <2>3 DEF Block
<1> HIDE DEF x, y, j
<1>9. QED
  BY <1>1, <1>3, <1>4, <1>5, <1>7, <1>8 DEF x, y, j

\* The recursive function behind the blocks.
LEMMA DrawIsThere ==
  ASSUME NEW s, NEW end, NEW t0, NEW n, NEW gap, NEW far, NEW clip \in BOOLEAN,
         Drawable(s, end, t0, n, gap, far)
  PROVE  \E d : DrawsBy(d, s, end, t0, n, gap, far, clip)
<1> DEFINE D == 1..(Len(s) + 1)
           T == SUBSET Block
           m == [k \in D |-> Len(s) + 1 - k]
           N == Len(s) + 1
           G == [p \in D \X [D -> T] |-> Drawn(p[2], s, end, t0, n, gap, far, clip, p[1])]
           hop(k) == Hop(s, t0, n, gap, clip, k)
<1>1. Len(s) \in Nat
  BY SeriesFacts DEF Drawable
<1>2. \A k \in D, f \in [D -> T] : G[<<k, f>>] = Drawn(f, s, end, t0, n, gap, far, clip, k)
  OBVIOUS
<1>3. ASSUME NEW k \in D, k <= Len(s)
      PROVE  /\ k \in 1..Len(s) /\ k + 1 \in D /\ hop(k) \in D /\ m[k + 1] < m[k] /\ m[hop(k)] < m[k]
             /\ PlainBlock(s, end, t0, n, far, clip, k) \in Block /\ DenseBlock(s, end, t0, n, gap, clip, k) \in Block
  <2>1. k \in 1..Len(s) /\ k + 1 \in D
    BY <1>1, <1>3
  <2>2. hop(k) \in (k + 1)..(Len(s) + 1)
    BY <2>1, DrawFacts
  <2>3. PlainBlock(s, end, t0, n, far, clip, k) \in Block /\ DenseBlock(s, end, t0, n, gap, clip, k) \in Block
    BY <2>1, DrawFacts
  <2> HIDE DEF hop
  <2>4. QED
    BY <1>1, <2>1, <2>2, <2>3
<1>4. ASSUME NEW k \in D, NEW f \in [D -> T] PROVE Drawn(f, s, end, t0, n, gap, far, clip, k) \in T
  <2>1. CASE k <= Len(s)
    <3>1. f[k + 1] \subseteq Block /\ f[hop(k)] \subseteq Block
      BY <1>3, <2>1
    <3>2. QED
      BY <1>3, <2>1, <3>1 DEF Drawn
  <2>2. CASE ~(k <= Len(s))
    <3>1. k > Len(s)
      BY <1>1, <2>2
    <3>2. QED
      BY <3>1 DEF Drawn, Stops
  <2>3. QED
    BY <2>1, <2>2
<1>5. ASSUME NEW k \in D, NEW f \in [D -> T], NEW h \in [D -> T], \A e \in D : m[e] < m[k] => f[e] = h[e]
      PROVE  G[<<k, f>>] = G[<<k, h>>]
  <2>1. CASE k <= Len(s)
    <3>1. f[k + 1] = h[k + 1] /\ f[hop(k)] = h[hop(k)]
      BY <1>3, <1>5, <2>1
    <3>2. QED
      BY <1>2, <3>1 DEF Drawn
  <2>2. CASE ~(k <= Len(s))
    <3>1. k > Len(s)
      BY <1>1, <2>2
    <3>2. QED
      BY <1>2, <3>1 DEF Drawn, Stops
  <2>3. QED
    BY <2>1, <2>2
<1>6. T # {} /\ m \in [D -> Nat] /\ N \in Nat /\ \A k \in D : m[k] < N
  <2>1. \A k \in D : m[k] = Len(s) + 1 - k /\ m[k] \in Nat /\ m[k] < N
    BY <1>1
  <2>2. m = [k \in D |-> m[k]]
    OBVIOUS
  <2>3. N \in Nat
    BY <1>1
  <2> HIDE DEF m, D
  <2>4. m \in [D -> Nat]
    BY <2>1, <2>2
  <2>5. QED
    BY <2>1, <2>3, <2>4
<1>7. G \in [D \X [D -> T] -> T]
  <2> HIDE DEF D, T
  <2>1. \A p \in D \X [D -> T] : Drawn(p[2], s, end, t0, n, gap, far, clip, p[1]) \in T
    <3> TAKE p \in D \X [D -> T]
    <3>1. p[1] \in D /\ p[2] \in [D -> T]
      OBVIOUS
    <3>2. QED
      BY <1>4, <3>1
  <2>2. QED
    BY <2>1
<1> HIDE DEF D, T, m, N, G, hop
<1>8. Backwards(D, T, m, G)
  BY <1>5 DEF Backwards
<1>9. Defines(D, T, m, N, G)
  BY <1>6, <1>7, <1>8 DEF Defines
<1>10. PICK f \in [D -> T] : \A k \in D : f[k] = G[<<k, f>>]
  BY <1>9, Recursion
<1>11. \A k \in D : f[k] = Drawn(f, s, end, t0, n, gap, far, clip, k)
  BY <1>2, <1>10
<1>12. f = [k \in D |-> Drawn(f, s, end, t0, n, gap, far, clip, k)]
  BY <1>10, <1>11
<1>13. QED
  BY <1>12 DEF DrawsBy, D

\* A block that shows a level shows the right one.
ShowsRight(bs, s) ==
  \A b \in bs : \A t \in Int : (b.from <= t /\ t < b.to /\ b.shows # "dense") => b.shows = Level(ValueAt(s, t))
\* Every time from a on, in the window, lies in a block.
Covers(bs, a, end, t0, far) ==
  \A t \in Int : (a <= t /\ t0 <= t /\ t < far /\ t <= end) =>
    \E b \in bs : b.from <= t /\ (t < b.to \/ t = end)

LEMMA PlainRight ==
  ASSUME NEW s, NEW end, NEW t0, NEW n, NEW gap, NEW far, NEW clip \in BOOLEAN,
         Drawable(s, end, t0, n, gap, far), NEW k \in 1..Len(s), NEW t \in Int,
         LET b == PlainBlock(s, end, t0, n, far, clip, k) IN b.from <= t /\ t < b.to
  PROVE  Level(s[k].v) = Level(ValueAt(s, t))
<1> DEFINE x == FromX(s, t0, n, clip, k)
           y == ToX(s, end, k)
<1>1. x <= t /\ t < IF clip THEN Earlier(y, far) ELSE y
  BY DEF PlainBlock
<1>2. /\ x \in Int /\ y \in Nat /\ x >= s[k].t /\ s[k].t \in Nat /\ far \in Nat
      /\ s \in Series /\ Growing(s)
  <2>1. x \in Int /\ y \in Nat /\ x >= s[k].t /\ s[k].t \in Nat
    BY DrawFacts
  <2>2. far \in Nat /\ s \in Series /\ Growing(s)
    BY DEF Drawable
  <2>3. QED
    BY <2>1, <2>2
<1>3. k < Len(s) => y = s[k + 1].t
  BY DEF ToX
<1> HIDE DEF x, y
<1>4. s[k].t <= t /\ t < y
  BY <1>1, <1>2 DEF Earlier
<1>5. k \in 0..Len(s) /\ k > 0 /\ Len(s) \in Nat
  BY <1>2, SeriesFacts
<1>6. k < Len(s) => s[k + 1].t > t
  BY <1>2, <1>3, <1>4
<1>7. ValueAt(s, t) = IF k = 0 THEN NoValue ELSE s[k].v
  BY <1>2, <1>4, <1>5, <1>6, IndexIs
<1>8. QED
  BY <1>5, <1>7

\* A block more shows what the series says there.
LEMMA DrawnRight ==
  ASSUME NEW s, NEW end, NEW t0, NEW n, NEW gap, NEW far, NEW clip \in BOOLEAN, NEW d,
         Drawable(s, end, t0, n, gap, far), NEW k \in 1..(Len(s) + 1),
         \A j \in (k + 1)..(Len(s) + 1) : ShowsRight(d[j], s)
  PROVE  ShowsRight(Drawn(d, s, end, t0, n, gap, far, clip, k), s)
<1> DEFINE j == Hop(s, t0, n, gap, clip, k)
           p == PlainBlock(s, end, t0, n, far, clip, k)
           q == DenseBlock(s, end, t0, n, gap, clip, k)
<1>1. Len(s) \in Nat
  BY SeriesFacts DEF Drawable
<1>2. CASE Stops(s, t0, n, far, clip, k)
  BY <1>2 DEF Drawn, ShowsRight
<1>3. CASE ~Stops(s, t0, n, far, clip, k)
  <2>1. k \in 1..Len(s)
    BY <1>1, <1>3 DEF Stops
  <2>2. j \in (k + 1)..(Len(s) + 1) /\ k + 1 \in (k + 1)..(Len(s) + 1)
    <3>1. j \in (k + 1)..(Len(s) + 1)
      BY <2>1, DrawFacts
    <3>2. k + 1 \in (k + 1)..(Len(s) + 1)
      BY <1>1, <2>1
    <3>3. QED
      BY <3>1, <3>2
  <2>3. q.shows = "dense"
    BY DEF DenseBlock
  <2>4. \A t \in Int : (p.from <= t /\ t < p.to) => p.shows = Level(ValueAt(s, t))
    <3> TAKE t \in Int
    <3> HAVE p.from <= t /\ t < p.to
    <3>1. Level(s[k].v) = Level(ValueAt(s, t))
      BY <2>1, PlainRight
    <3>2. p.shows = Level(s[k].v)
      BY DEF PlainBlock
    <3>3. QED
      BY <3>1, <3>2
  <2>5. \/ Drawn(d, s, end, t0, n, gap, far, clip, k) = {q} \cup d[j]
        \/ Drawn(d, s, end, t0, n, gap, far, clip, k) = {p} \cup d[k + 1]
    BY <1>3 DEF Drawn
  <2>6. ShowsRight(d[j], s) /\ ShowsRight(d[k + 1], s)
    BY <2>2
  <2> HIDE DEF p, q, j
  <2>7. ShowsRight({q} \cup d[j], s)
    BY <2>3, <2>6 DEF ShowsRight
  <2>8. ShowsRight({p} \cup d[k + 1], s)
    BY <2>4, <2>6 DEF ShowsRight
  <2>9. QED
    BY <2>5, <2>7, <2>8
<1>4. QED
  BY <1>2, <1>3

\* A block more leaves no time between it and the ones before.
LEMMA DrawnCovers ==
  ASSUME NEW s, NEW end, NEW t0, NEW n, NEW gap, NEW far, NEW clip \in BOOLEAN, NEW d,
         Drawable(s, end, t0, n, gap, far), NEW k \in 1..Len(s),
         \A j \in (k + 1)..Len(s) : Covers(d[j], s[j].t, end, t0, far)
  PROVE  Covers(Drawn(d, s, end, t0, n, gap, far, clip, k), s[k].t, end, t0, far)
<1> SUFFICES ASSUME NEW t \in Int, s[k].t <= t, t0 <= t, t < far, t <= end
             PROVE  \E b \in Drawn(d, s, end, t0, n, gap, far, clip, k) : b.from <= t /\ (t < b.to \/ t = end)
  BY DEF Covers
<1> DEFINE x == FromX(s, t0, n, clip, k)
           y == ToX(s, end, k)
           j == Hop(s, t0, n, gap, clip, k)
           p == PlainBlock(s, end, t0, n, far, clip, k)
           q == DenseBlock(s, end, t0, n, gap, clip, k)
           all == Drawn(d, s, end, t0, n, gap, far, clip, k)
<1>1. /\ Len(s) \in Nat /\ end \in Nat /\ t0 \in Nat /\ n \in Nat \ {0} /\ far \in Nat
      /\ \A i \in 1..Len(s) : s[i].t \in Nat
  BY SeriesFacts DEF Drawable
<1>2. /\ x \in Int /\ y \in Nat /\ j \in (k + 1)..(Len(s) + 1) /\ (k < Len(s) => j <= Len(s))
  BY DrawFacts
<1>3. x = IF clip THEN Later(t0 - 2 * n, s[k].t) ELSE s[k].t
  BY DEF FromX
<1>4. (k < Len(s) => y = s[k + 1].t) /\ (~(k < Len(s)) => y = end)
  BY DEF ToX
<1>5. p.from = x /\ p.to = IF clip THEN Earlier(y, far) ELSE y
  BY DEF PlainBlock
<1>6. q.from = x /\ q.to = Later(x + n, IF j <= Len(s) THEN s[j].t ELSE end)
  BY DEF DenseBlock
<1>7. all = IF Stops(s, t0, n, far, clip, k) THEN {}
            ELSE IF Dense(s, end, t0, n, gap, clip, k) THEN {q} \cup d[j] ELSE {p} \cup d[k + 1]
  BY DEF Drawn
<1>8. (Dense(s, end, t0, n, gap, clip, k) => k < Len(s)) /\ (Stops(s, t0, n, far, clip, k) => k > Len(s) \/ x > far)
  BY DEF Dense, Stops
<1> HIDE DEF x, y, j, p, q, all
<1>9. x <= t
  BY <1>1, <1>3 DEF Later
<1>10. ~Stops(s, t0, n, far, clip, k)
  BY <1>1, <1>2, <1>8, <1>9
<1>11. CASE Dense(s, end, t0, n, gap, clip, k)
  <2>1. j \in (k + 1)..Len(s) /\ j \in 1..Len(s)
    BY <1>1, <1>2, <1>8, <1>11
  <2>2. all = {q} \cup d[j]
    BY <1>7, <1>10, <1>11
  <2>3. CASE t < q.to
    BY <1>6, <1>9, <2>2, <2>3 DEF all
  <2>4. CASE ~(t < q.to)
    <3>1. s[j].t \in Nat /\ q.to \in Int /\ s[j].t <= q.to
      BY <1>1, <1>2, <1>6, <2>1 DEF Later
    <3>2. s[j].t <= t
      BY <2>4, <3>1
    <3>3. \E b \in d[j] : b.from <= t /\ (t < b.to \/ t = end)
      BY <2>1, <3>2 DEF Covers
    <3>4. QED
      BY <2>2, <3>3 DEF all
  <2>5. QED
    BY <2>3, <2>4
<1>12. CASE ~Dense(s, end, t0, n, gap, clip, k)
  <2>1. all = {p} \cup d[k + 1]
    BY <1>7, <1>10, <1>12
  <2>2. CASE t < p.to \/ t = end
    BY <1>5, <1>9, <2>1, <2>2 DEF all
  <2>3. CASE ~(t < p.to \/ t = end)
    <3>1. y <= t
      BY <1>1, <1>2, <1>5, <2>3 DEF Earlier
    <3>2. k < Len(s)
      BY <1>1, <1>4, <2>3, <3>1
    <3>3. k + 1 \in (k + 1)..Len(s) /\ s[k + 1].t <= t
      BY <1>1, <1>4, <3>1, <3>2
    <3>4. \E b \in d[k + 1] : b.from <= t /\ (t < b.to \/ t = end)
      BY <3>3 DEF Covers
    <3>5. QED
      BY <2>1, <3>4 DEF all
  <2>4. QED
    BY <2>2, <2>3
<1>13. QED
  BY <1>11, <1>12

\* From the last change backwards.
LEMMA AllDrawn ==
  ASSUME NEW s, NEW end, NEW t0, NEW n, NEW gap, NEW far, NEW clip \in BOOLEAN, NEW d,
         Drawable(s, end, t0, n, gap, far), DrawsBy(d, s, end, t0, n, gap, far, clip)
  PROVE  \A k \in 1..(Len(s) + 1) : ShowsRight(d[k], s) /\ (k <= Len(s) => Covers(d[k], s[k].t, end, t0, far))
<1> DEFINE l == Len(s)
           Fine(k) == ShowsRight(d[k], s) /\ (k <= l => Covers(d[k], s[k].t, end, t0, far))
           In == {i \in Nat : \A k \in 1..(l + 1) : l + 1 - k < i => Fine(k)}
<1>1. l \in Nat
  BY SeriesFacts DEF Drawable
<1>2. \A k \in 1..(l + 1) : d[k] = Drawn(d, s, end, t0, n, gap, far, clip, k)
  BY DEF DrawsBy
<1>3. 0 \in In
  <2>1. \A k \in 1..(l + 1) : ~(l + 1 - k < 0)
    BY <1>1
  <2> HIDE DEF l, Fine
  <2>2. QED
    BY <2>1
<1>4. ASSUME NEW i \in 0..((l + 1) - 1), i \in In PROVE i + 1 \in In
  <2>1. ASSUME NEW k \in 1..(l + 1), l + 1 - k < i + 1 PROVE Fine(k)
    <3>1. \A j \in (k + 1)..(l + 1) : j \in 1..(l + 1) /\ l + 1 - j < i
      BY <1>1, <1>4, <2>1
    <3>2. \A j \in (k + 1)..(l + 1) : Fine(j)
      BY <1>4, <3>1
    <3>3. \A j \in (k + 1)..(l + 1) : ShowsRight(d[j], s)
      BY <3>2
    <3>4. ShowsRight(d[k], s)
      <4>1. ShowsRight(Drawn(d, s, end, t0, n, gap, far, clip, k), s)
        BY <3>3, DrawnRight
      <4>2. QED
        BY <1>2, <4>1
    <3>5. ASSUME k <= l PROVE Covers(d[k], s[k].t, end, t0, far)
      <4>1. k \in 1..l
        BY <1>1, <3>5
      <4>2. \A j \in (k + 1)..l : Covers(d[j], s[j].t, end, t0, far)
        <5> TAKE j \in (k + 1)..l
        <5>1. j \in (k + 1)..(l + 1) /\ j <= l
          BY <1>1
        <5>2. QED
          BY <3>2, <5>1
      <4>3. Covers(Drawn(d, s, end, t0, n, gap, far, clip, k), s[k].t, end, t0, far)
        BY <4>1, <4>2, DrawnCovers
      <4>4. QED
        BY <1>2, <4>3
    <3>6. QED
      BY <3>4, <3>5
  <2>2. i + 1 \in Nat
    OBVIOUS
  <2> HIDE DEF Fine
  <2>3. QED
    BY <2>1, <2>2
<1> HIDE DEF In
<1> DEFINE last == l + 1
<1>5. last \in In
  <2>1. last \in Nat /\ \A i \in 0..(last - 1) : i \in In => i + 1 \in In
    BY <1>1, <1>4
  <2> HIDE DEF last
  <2>2. \A i \in 0..last : i \in In
    BY <1>3, <2>1, Climbing
  <2>3. QED
    BY <2>1, <2>2
<1>6. \A k \in 1..(l + 1) : l + 1 - k < last
  BY <1>1
<1>7. QED
  BY <1>5, <1>6 DEF In

LEMMA BlocksShow ==
  ASSUME NEW s, NEW end, NEW t0, NEW n, NEW width, NEW dense, NEW clip \in BOOLEAN,
         Drawable(s, end, t0, n, dense * n, t0 + n * (width + 2)), Len(s) > 0
  PROVE  /\ ShowsRight(Blocks(s, end, t0, n, width, dense, clip), s)
         /\ Covers(Blocks(s, end, t0, n, width, dense, clip), s[1].t, end, t0, t0 + n * (width + 2))
<1> DEFINE gap == dense * n
           far == t0 + n * (width + 2)
           u == CHOOSE d : BlocksBy(d, s, end, t0, n, width, dense, clip)
           k == Later(1, IndexAt(s, t0))
<1>1. Blocks(s, end, t0, n, width, dense, clip) = u[k]
  BY DEF Blocks, BlocksBy
<1>2. \A d : BlocksBy(d, s, end, t0, n, width, dense, clip) <=> DrawsBy(d, s, end, t0, n, gap, far, clip)
  BY BlocksAre
<1>3. Drawable(s, end, t0, n, gap, far)
  OBVIOUS
<1> HIDE DEF gap, far
<1>4. \E d : DrawsBy(d, s, end, t0, n, gap, far, clip)
  BY <1>3, DrawIsThere
<1>5. BlocksBy(u, s, end, t0, n, width, dense, clip)
  BY <1>2, <1>4
<1> HIDE DEF u
<1>6. DrawsBy(u, s, end, t0, n, gap, far, clip)
  BY <1>2, <1>5
<1>7. /\ s \in Series /\ Growing(s) /\ Len(s) \in Nat /\ t0 \in Int
      /\ \A i \in 1..Len(s) : s[i].t \in Nat
  <2>1. s \in Series /\ Growing(s) /\ t0 \in Int
    BY <1>3 DEF Drawable
  <2>2. QED
    BY <2>1, SeriesFacts
<1>8. IndexAt(s, t0) \in 0..Len(s) /\ \A i \in 1..Len(s) : i <= IndexAt(s, t0) <=> s[i].t <= t0
  BY <1>7, IndexFinds
<1>9. k \in 1..Len(s) /\ k \in 1..(Len(s) + 1) /\ k <= Len(s) /\ (k = 1 \/ s[k].t <= t0)
  BY <1>7, <1>8 DEF Later
<1> HIDE DEF k
<1>10. ShowsRight(u[k], s) /\ Covers(u[k], s[k].t, end, t0, far)
  BY <1>3, <1>6, <1>9, AllDrawn
<1>11. Covers(u[k], s[1].t, end, t0, far)
  <2>1. ASSUME NEW t \in Int, s[1].t <= t, t0 <= t PROVE s[k].t <= t
    BY <1>7, <1>9, <2>1
  <2>2. QED
    BY <1>10, <2>1 DEF Covers
<1>12. QED
  BY <1>1, <1>10, <1>11 DEF far

LEMMA NoTimeUndrawn == DumpInv => NothingUndrawn
<1> SUFFICES ASSUME DumpInv, NEW c \in Codes, sigs[c] # <<>>, NEW n \in 1..2, NEW t0 \in 0..1
             PROVE  LET s == sigs[c]
                        blocks == Blocks(s, MaxTime, t0, n, 2, Earlier(WidthOf[c], 2), WidthOf[c] = 1)
                    IN \A t \in Later(t0, s[1].t)..Earlier(MaxTime, t0 + 2 * n) :
                         LET here == {b \in blocks : Within(t, b)} IN
                         /\ here # {}
                         /\ \A b \in here : (t < b.to /\ b.shows # "dense") => b.shows = Level(ValueAt(s, t))
  BY DEF NothingUndrawn
<1> DEFINE s == sigs[c]
           dense == Earlier(WidthOf[c], 2)
           clip == WidthOf[c] = 1
           blocks == Blocks(s, MaxTime, t0, n, 2, dense, clip)
           far == t0 + n * (2 + 2)
<1>1. /\ s \in Series /\ Growing(s) /\ \A i \in 1..Len(s) : s[i].t <= now
      /\ now \in 0..MaxTime /\ MaxTime \in Nat /\ WidthOf[c] \in Nat \ {0}
  BY DumpAssumption DEF DumpInv, CodeOK, DumpTypeOK
<1>2. Len(s) \in Nat /\ (\A i \in 1..Len(s) : s[i].t \in Nat) /\ s \in Seq(TimedValue)
  BY <1>1, SeriesFacts
<1>3. Len(s) > 0
  BY <1>2, EmptySeq
<1>4. dense \in Nat /\ far \in Nat /\ t0 + 2 * n < far /\ clip \in BOOLEAN
  BY <1>1 DEF Earlier
<1>5. Drawable(s, MaxTime, t0, n, dense * n, far)
  <2>1. \A i \in 1..Len(s) : s[i].t <= MaxTime
    BY <1>1, <1>2
  <2>2. dense * n \in Nat /\ n \in Nat \ {0} /\ t0 \in Nat
    BY <1>4
  <2> HIDE DEF s, dense, far
  <2>3. QED
    BY <1>1, <1>4, <2>1, <2>2 DEF Drawable
<1> HIDE DEF s, dense, clip
<1>6. ShowsRight(blocks, s) /\ Covers(blocks, s[1].t, MaxTime, t0, far)
  BY <1>3, <1>4, <1>5, BlocksShow
<1> HIDE DEF blocks, far
<1>7. ASSUME NEW t \in Later(t0, s[1].t)..Earlier(MaxTime, t0 + 2 * n)
      PROVE  /\ \E b \in blocks : Within(t, b)
             /\ \A b \in blocks : (Within(t, b) /\ t < b.to /\ b.shows # "dense") => b.shows = Level(ValueAt(s, t))
  <2>1. s[1].t \in Nat
    BY <1>2, <1>3
  <2>6. t0 \in Nat /\ MaxTime \in Nat /\ t0 + 2 * n \in Int /\ far \in Int /\ t0 + 2 * n < far
    BY <1>1, <1>4
  <2> DEFINE u == s[1].t
             w == t0 + 2 * n
  <2>7. u \in Nat /\ w \in Int /\ w < far /\ t \in Later(t0, u)..Earlier(MaxTime, w)
    BY <2>1, <2>6
  <2>8. t \in Int /\ u <= t /\ t0 <= t /\ t < far /\ t <= MaxTime
    <3> HIDE DEF u, w
    <3>1. QED
      BY <2>6, <2>7 DEF Later, Earlier
  <2>2. t \in Int /\ s[1].t <= t /\ t0 <= t /\ t < far /\ t <= MaxTime
    BY <2>8
  <2>3. \E b \in blocks : b.from <= t /\ (t < b.to \/ t = MaxTime)
    BY <1>6, <2>2 DEF Covers
  <2>4. \A b \in blocks : (b.from <= t /\ t < b.to /\ b.shows # "dense") => b.shows = Level(ValueAt(s, t))
    BY <1>6, <2>2 DEF ShowsRight
  <2>5. QED
    BY <2>3, <2>4 DEF Within
<1>8. QED
  BY <1>7 DEF s, blocks, dense, clip

\* Both viewers show the file: a variable is listed once, the value at a time is the
\* one last written before it, the radices read it back, and no time stays undrawn.
THEOREM ViewersShow == DumpSpec => []ViewersShowTheFile
<1>1. DumpInv => ViewersShowTheFile
  BY OnceListed, AsWritten, RadixesAreRead, NoTimeUndrawn DEF ViewersShowTheFile
<1>2. QED
  BY <1>1, DumpCorrect, PTL

-----------------------------------------------------------------------------
(* The window.                                                             *)

EntryType == [id : Nat, v : Var, radix : Radixes \cup {"sdec", "hex"}, expanded : BOOLEAN]
FrameType == [scope : STRING, panes : BOOLEAN, wide : BOOLEAN]

\* The markers are in order.
Ordered(ms) == ms \in Seq(Nat) /\ \A i, j \in DOMAIN ms : i < j => ms[i] < ms[j]

\* No entry of the one sequence has the id of one of the other.
Apart(a, b) == \A x \in Range(a), y \in Range(b) : x.id # y.id

\* Entries of variables among vs, each with an id of its own.
Entries(es, vs) ==
  /\ es \in Seq(EntryType) /\ \A i \in DOMAIN es : es[i].v \in vs
  /\ \A i, j \in DOMAIN es : i # j => es[i].id # es[j].id

\* A zoom of a run that ends at last.
Viewport(z, last) == z \in Int \X Int /\ 0 <= z[1] /\ z[1] < z[2] /\ z[2] <= last

-----------------------------------------------------------------------------
(* Times.                                                                  *)

\* What a run of Runs is.
LEMMA RunFacts ==
  ASSUME NEW r \in Runs
  PROVE  /\ r.end \in Nat /\ LastTime(r) \in Nat /\ LastTime(r) > 0 /\ r.end <= LastTime(r)
         /\ r # NoRun /\ r.vars \in Seq(Var) /\ IsTree(r.below)
<1>1. IsRun(r)
  BY RunsAssumption
<1>2. r.end \in Nat /\ r.vars \in Seq(Var) /\ IsTree(r.below)
  BY <1>1 DEF IsRun
<1>3. NoRun.end = -1
  BY DEF NoRun
<1>4. r # NoRun
  BY <1>2, <1>3
<1>5. QED
  BY <1>2, <1>4 DEF LastTime, Later

\* What the window cuts a zoom to lies in the run, and is no shorter than what it
\* is given, up to the whole run.
LEMMA ClampedFits ==
  ASSUME run \in Runs, NEW t0 \in Int, NEW t1 \in Int
  PROVE  /\ Viewport(Clamped(t0, t1), LastTime(run))
         /\ t1 - t0 <= LastTime(run) => Clamped(t0, t1)[2] - Clamped(t0, t1)[1] >= t1 - t0
         /\ Clamped(t0, t1)[1] >= t0 \/ Clamped(t0, t1)[2] = LastTime(run)
         /\ Clamped(t0, t1)[1] <= t0 \/ Clamped(t0, t1)[1] = 0
<1> DEFINE last == LastTime(run)
           span == Earlier(Later(t1 - t0, Earlier(last, 4)), last)
           from == Later(0, Earlier(t0, last - span))
<1>1. last \in Nat /\ last > 0
  BY RunFacts
<1>2. Clamped(t0, t1) = <<from, from + span>>
  BY DEF Clamped
<1> HIDE DEF last
<1>3. span \in Int /\ span > 0 /\ span <= last /\ (t1 - t0 <= last => span >= t1 - t0)
  BY <1>1 DEF Earlier, Later
<1> HIDE DEF span
<1>4. /\ from \in Int /\ from >= 0 /\ from <= last - span /\ (from >= t0 \/ from = last - span)
      /\ (from <= t0 \/ from = 0)
  BY <1>1, <1>3 DEF Earlier, Later
<1> HIDE DEF from
<1>5. Clamped(t0, t1)[1] = from /\ Clamped(t0, t1)[2] = from + span /\ Clamped(t0, t1) \in Int \X Int
  BY <1>2, <1>3, <1>4
<1>6. Viewport(Clamped(t0, t1), last)
  BY <1>1, <1>3, <1>4, <1>5 DEF Viewport
<1>7. QED
  BY <1>1, <1>3, <1>4, <1>5, <1>6 DEF last

\* A time of the run is on screen when it has been revealed.
LEMMA RevealedFits ==
  ASSUME run \in Runs, Viewport(view, LastTime(run)), NEW t \in 0..LastTime(run)
  PROVE  Viewport(Revealed(t), LastTime(run)) /\ t \in Revealed(t)[1]..Revealed(t)[2]
<1> DEFINE last == LastTime(run)  half == Span \div 2
           z == Clamped(t - half, t - half + Span)
<1>1. last \in Nat
  BY RunFacts
<1>2. view[1] \in Int /\ view[2] \in Int /\ 0 <= view[1] /\ view[1] < view[2] /\ view[2] <= last
  BY DEF Viewport
<1>3. Span \in Int /\ Span > 0 /\ Span <= last /\ t \in Int
  BY <1>1, <1>2 DEF Span
<1>4. half \in Int /\ half >= 0 /\ half <= Span
  BY <1>3
<1>5. CASE t < view[1] \/ t > view[2]
  <2> HIDE DEF half
  <2> DEFINE a == t - half  b == t - half + Span
  <2>0. a \in Int /\ b \in Int /\ b - a = Span
    BY <1>3, <1>4
  <2> HIDE DEF a, b
  <2>1. Viewport(Clamped(a, b), LastTime(run)) /\ (b - a <= LastTime(run) => Clamped(a, b)[2] - Clamped(a, b)[1] >= b - a)
        /\ (Clamped(a, b)[1] >= a \/ Clamped(a, b)[2] = LastTime(run)) /\ (Clamped(a, b)[1] <= a \/ Clamped(a, b)[1] = 0)
    BY <2>0, ClampedFits
  <2>2. z = Clamped(a, b) /\ a = t - half
    BY DEF a, b
  <2>3. Revealed(t) = z
    BY <1>5 DEF Revealed, z, half
  <2> HIDE DEF z
  <2>4. /\ z[1] \in Int /\ z[2] \in Int /\ z[2] - z[1] >= Span /\ (z[1] >= a \/ z[2] = last) /\ (z[1] <= a \/ z[1] = 0)
        /\ Viewport(z, last)
    BY <1>3, <2>0, <2>1, <2>2 DEF Viewport, last
  <2> HIDE DEF last
  <2>5. t \in z[1]..z[2]
    <3>1. z[1] <= t
      BY <1>3, <1>4, <2>2, <2>4
    <3>2. t <= z[2]
      <4>1. CASE z[2] = last
        BY <1>1, <4>1 DEF last
      <4>2. CASE z[1] >= a
        BY <1>3, <1>4, <2>2, <2>4, <4>2
      <4>3. QED
        BY <2>4, <4>1, <4>2
    <3>3. QED
      BY <1>3, <2>4, <3>1, <3>2
  <2>6. QED
    BY <2>3, <2>4, <2>5 DEF last
<1>6. CASE ~(t < view[1] \/ t > view[2])
  BY <1>2, <1>3, <1>6 DEF Revealed
<1>7. QED
  BY <1>5, <1>6

\* A time put inside the run is one of its times.
LEMMA InsideFits ==
  ASSUME run \in Runs, NEW t \in Int
  PROVE  Inside(t) \in 0..run.end /\ (t \in 0..run.end => Inside(t) = t) /\ Inside(t) \in 0..LastTime(run)
<1>1. run.end \in Nat /\ LastTime(run) \in Nat /\ run.end <= LastTime(run)
  BY RunFacts
<1>2. QED
  BY <1>1 DEF Inside, End, Later, Earlier

\* The zoom of an earlier run is cut once.
LEMMA KeptViewFits ==
  ASSUME NEW r \in Runs, NEW z \in Nat \X Nat, z[1] < z[2]
  PROVE  /\ Viewport(KeptView(r, z), LastTime(r)) /\ KeptView(r, KeptView(r, z)) = KeptView(r, z)
         /\ z[2] <= LastTime(r) => KeptView(r, z) = z
<1>1. LastTime(r) \in Nat /\ LastTime(r) > 0
  BY RunFacts
<1>2. z = <<z[1], z[2]>> /\ z[1] \in Nat /\ z[2] \in Nat
  OBVIOUS
<1> DEFINE last == LastTime(r)  a == KeptView(r, z)
<1>3. a = IF z[1] < last THEN <<Later(0, z[1]), Earlier(z[2], last)>> ELSE <<0, last>>
  BY <1>2 DEF KeptView
<1>4. \A y \in Nat \X Nat : (y[1] < y[2] /\ y[2] <= last) => KeptView(r, y) = y
  <2> TAKE y \in Nat \X Nat
  <2> HAVE y[1] < y[2] /\ y[2] <= last
  <2>1. y = <<y[1], y[2]>> /\ y[1] \in Nat /\ y[2] \in Nat /\ y[1] < last
    BY <1>1
  <2>2. KeptView(r, y) = <<Later(0, y[1]), Earlier(y[2], last)>>
    BY <2>1 DEF KeptView
  <2>3. Later(0, y[1]) = y[1] /\ Earlier(y[2], last) = y[2]
    BY <1>1, <2>1 DEF Later, Earlier
  <2>4. QED
    BY <2>1, <2>2, <2>3
<1>5. a \in Nat \X Nat /\ a[1] < a[2] /\ a[2] <= last
  <2>0. last \in Nat /\ last > 0
    BY <1>1
  <2> HIDE DEF a, last
  <2>1. CASE z[1] < last
    <3>1. Later(0, z[1]) = z[1] /\ Earlier(z[2], last) \in Nat /\ z[1] < Earlier(z[2], last) /\ Earlier(z[2], last) <= last
      BY <1>2, <2>0, <2>1 DEF Later, Earlier
    <3>2. QED
      BY <1>2, <1>3, <2>1, <3>1
  <2>2. CASE ~(z[1] < last)
    BY <1>3, <2>0, <2>2
  <2>3. QED
    BY <2>1, <2>2
<1>6. Viewport(a, last)
  <2> HIDE DEF a, last
  <2>1. QED
    BY <1>5 DEF Viewport
<1>7. KeptView(r, a) = a
  BY <1>4, <1>5
<1>8. QED
  BY <1>4, <1>6, <1>7

-----------------------------------------------------------------------------
(* Sequences joined, cut and filtered.                                      *)

\* A function on 1..n is a sequence.
LEMMA IsSeq ==
  ASSUME NEW T, NEW n \in Nat, NEW f \in [1..n -> T]
  PROVE  f \in Seq(T) /\ Len(f) = n /\ DOMAIN f = 1..n
OBVIOUS

\* What is in two sequences, one behind the other.
LEMMA Joined ==
  ASSUME NEW T, NEW a \in Seq(T), NEW b \in Seq(T)
  PROVE  /\ a \o b \in Seq(T) /\ Len(a \o b) = Len(a) + Len(b) /\ Range(a \o b) = Range(a) \cup Range(b)
         /\ \A i \in DOMAIN (a \o b) : \/ i \in DOMAIN a /\ (a \o b)[i] = a[i]
                                       \/ i - Len(a) \in DOMAIN b /\ (a \o b)[i] = b[i - Len(a)] /\ i > Len(a)
<1> DEFINE q == a \o b
<1>1. /\ Len(a) \in Nat /\ Len(b) \in Nat /\ DOMAIN a = 1..Len(a) /\ DOMAIN b = 1..Len(b)
      /\ q \in Seq(T) /\ Len(q) = Len(a) + Len(b) /\ DOMAIN q = 1..(Len(a) + Len(b))
      /\ \A i \in 1..(Len(a) + Len(b)) : q[i] = IF i <= Len(a) THEN a[i] ELSE b[i - Len(a)]
  BY ConcatProperties, LenProperties
<1> HIDE DEF q
<1>2. \A i \in DOMAIN q : \/ i \in DOMAIN a /\ q[i] = a[i]
                          \/ i - Len(a) \in DOMAIN b /\ q[i] = b[i - Len(a)] /\ i > Len(a)
  BY <1>1
<1>3. \A i \in DOMAIN a : i \in DOMAIN q /\ q[i] = a[i]
  BY <1>1
<1>4. \A j \in DOMAIN b : Len(a) + j \in DOMAIN q /\ q[Len(a) + j] = b[j]
  BY <1>1
<1>5. Range(q) = Range(a) \cup Range(b)
  BY <1>2, <1>3, <1>4 DEF Range
<1>6. QED
  BY <1>1, <1>2, <1>5 DEF q

\* A part of a sequence, by its places.
LEMMA Cut ==
  ASSUME NEW T, NEW s \in Seq(T), NEW m \in Nat, NEW n \in Nat, m > 0, n <= Len(s)
  PROVE  /\ SubSeq(s, m, n) \in Seq(T)
         /\ \A i \in DOMAIN SubSeq(s, m, n) : i + m - 1 \in m..n /\ i + m - 1 \in DOMAIN s /\ SubSeq(s, m, n)[i] = s[i + m - 1]
<1> DEFINE q == SubSeq(s, m, n)
<1>1. Len(s) \in Nat /\ DOMAIN s = 1..Len(s) /\ \A i \in m..n : s[i] \in T
  <2>1. Len(s) \in Nat /\ DOMAIN s = 1..Len(s)
    BY LenProperties
  <2>2. \A i \in m..n : i \in 1..Len(s)
    BY <2>1
  <2>3. QED
    BY <2>1, <2>2, ElementOfSeq
<1>2. /\ q \in Seq(T) /\ Len(q) = (IF m <= n THEN n - m + 1 ELSE 0)
      /\ \A i \in 1..(n - m + 1) : q[i] = s[m + i - 1]
  BY <1>1, SubSeqProperties
<1>3. DOMAIN q = 1..Len(q)
  BY <1>2, LenProperties
<1> HIDE DEF q
<1>4. \A i \in DOMAIN q : i + m - 1 \in m..n /\ i + m - 1 \in DOMAIN s /\ i \in 1..(n - m + 1) /\ m + i - 1 = i + m - 1
  BY <1>1, <1>2, <1>3
<1>5. QED
  BY <1>2, <1>4 DEF q

\* Markers that are left are in order.
LEMMA OnlyOrdered ==
  ASSUME NEW ms, Ordered(ms), NEW S
  PROVE  Ordered(Only(ms, S)) /\ Range(Only(ms, S)) = Range(ms) \cap S
<1>1. ms \in Seq(Nat) /\ \A i, j \in DOMAIN ms : i < j => ms[i] < ms[j]
  BY DEF Ordered
<1> DEFINE q == Only(ms, S)
<1>2. q \in Seq(Nat) /\ Picks(q, ms, S, Len(ms)) /\ Range(q) = Range(ms) \cap S
  BY <1>1, OnlyPicks, OnlyRange
<1> HIDE DEF q
<1>3. PICK at : PicksBy(at, q, ms, S, Len(ms))
  BY <1>2 DEF Picks
<1>4. DOMAIN ms = 1..Len(ms) /\ DOMAIN q = 1..Len(q)
  BY <1>1, <1>2, LenProperties
<1>5. \A i, j \in DOMAIN q : i < j => q[i] < q[j]
  BY <1>1, <1>3, <1>4 DEF PicksBy
<1>6. QED
  BY <1>2, <1>5 DEF Ordered, q

\* Markers in order before markers in order.
LEMMA JoinedOrdered ==
  ASSUME NEW a, NEW b, Ordered(a), Ordered(b), \A i \in DOMAIN a, j \in DOMAIN b : a[i] < b[j]
  PROVE  Ordered(a \o b) /\ Range(a \o b) = Range(a) \cup Range(b)
<1> DEFINE q == a \o b
<1>1. a \in Seq(Nat) /\ b \in Seq(Nat)
  BY DEF Ordered
<1>2. /\ q \in Seq(Nat) /\ Range(q) = Range(a) \cup Range(b)
      /\ Len(a) \in Nat /\ DOMAIN a = 1..Len(a) /\ DOMAIN q \subseteq Int /\ DOMAIN b \subseteq Int
      /\ \A i \in DOMAIN q : \/ i \in DOMAIN a /\ q[i] = a[i]
                             \/ i - Len(a) \in DOMAIN b /\ q[i] = b[i - Len(a)] /\ i > Len(a)
  <2>1. /\ q \in Seq(Nat) /\ Range(q) = Range(a) \cup Range(b)
        /\ \A i \in DOMAIN q : \/ i \in DOMAIN a /\ q[i] = a[i]
                               \/ i - Len(a) \in DOMAIN b /\ q[i] = b[i - Len(a)] /\ i > Len(a)
    BY <1>1, Joined
  <2>2. Len(a) \in Nat /\ DOMAIN a = 1..Len(a) /\ DOMAIN q = 1..Len(q) /\ DOMAIN b = 1..Len(b)
    BY <1>1, <2>1, LenProperties
  <2> HIDE DEF q
  <2>3. QED
    BY <2>1, <2>2
<1> HIDE DEF q
<1>3. ASSUME NEW i \in DOMAIN q, NEW j \in DOMAIN q, i < j PROVE q[i] < q[j]
  <2>1. CASE i \in DOMAIN a /\ q[i] = a[i] /\ j \in DOMAIN a /\ q[j] = a[j]
    BY <1>3, <2>1 DEF Ordered
  <2>2. CASE i \in DOMAIN a /\ q[i] = a[i] /\ j - Len(a) \in DOMAIN b /\ q[j] = b[j - Len(a)]
    BY <2>2
  <2>3. CASE i > Len(a) /\ i - Len(a) \in DOMAIN b /\ q[i] = b[i - Len(a)] /\ j - Len(a) \in DOMAIN b /\ q[j] = b[j - Len(a)]
    <3>1. i - Len(a) < j - Len(a)
      BY <1>2, <1>3
    <3>2. QED
      BY <2>3, <3>1 DEF Ordered
  <2>4. QED
    BY <1>2, <1>3, <2>1, <2>2, <2>3
<1>4. QED
  BY <1>2, <1>3 DEF Ordered, q

\* A marker put between those before and those behind it.
LEMMA MarkerBetween ==
  ASSUME NEW ms, Ordered(ms), NEW c \in Nat
  PROVE  LET q == Only(ms, {m \in Range(ms) : m < c}) \o <<c>> \o Only(ms, {m \in Range(ms) : m > c})
         IN Ordered(q) /\ Range(q) \subseteq Range(ms) \cup {c}
<1> DEFINE a == Only(ms, {m \in Range(ms) : m < c})  b == Only(ms, {m \in Range(ms) : m > c})
           one == <<c>>
<1>1. /\ Ordered(a) /\ Range(a) = Range(ms) \cap {m \in Range(ms) : m < c}
      /\ Ordered(b) /\ Range(b) = Range(ms) \cap {m \in Range(ms) : m > c}
  BY OnlyOrdered
<1> HIDE DEF a, b
<1>2. one \in Seq(Nat) /\ DOMAIN one = {1} /\ one[1] = c /\ Ordered(one) /\ Range(one) = {c}
  <2>1. one \in Seq(Nat) /\ DOMAIN one = {1} /\ one[1] = c
    OBVIOUS
  <2> HIDE DEF one
  <2>2. QED
    BY <2>1 DEF Ordered, Range
<1> HIDE DEF one
<1>3. \A i \in DOMAIN a : a[i] < c
  BY <1>1 DEF Range
<1>4. \A i \in DOMAIN b : b[i] > c
  BY <1>1 DEF Range
<1>5. Range(ms) \subseteq Nat
  <2>1. ms \in Seq(Nat)
    BY DEF Ordered
  <2>2. QED
    BY <2>1, LenProperties DEF Range
<1>6. \A i \in DOMAIN a, j \in DOMAIN one : a[i] < one[j]
  BY <1>2, <1>3
<1> DEFINE ac == a \o one
<1>7. Ordered(ac) /\ Range(ac) = Range(a) \cup {c}
  BY <1>1, <1>2, <1>6, JoinedOrdered
<1> HIDE DEF ac
<1>8. ASSUME NEW i \in DOMAIN ac, NEW j \in DOMAIN b PROVE ac[i] < b[j]
  <2>1. ac[i] \in Range(a) \cup {c} /\ b[j] \in Range(b)
    BY <1>7 DEF Range
  <2>2. ac[i] \in Nat /\ b[j] \in Nat /\ ac[i] <= c /\ b[j] > c
    BY <1>1, <1>5, <2>1
  <2>3. QED
    BY <2>2
<1>9. Ordered(ac \o b) /\ Range(ac \o b) = Range(ac) \cup Range(b)
  BY <1>1, <1>7, <1>8, JoinedOrdered
<1>10. Range(ac \o b) \subseteq Range(ms) \cup {c}
  BY <1>1, <1>7, <1>9
<1>11. QED
  BY <1>9, <1>10 DEF ac, one, a, b

-----------------------------------------------------------------------------
(* Entries.                                                                *)

LEMMA NoEntries ==
  ASSUME NEW vs
  PROVE  Entries(<<>>, vs)
BY DEF Entries

\* Entries stay entries when some are left out.
LEMMA OnlyEntries ==
  ASSUME NEW es, NEW vs, Entries(es, vs), NEW S
  PROVE  Entries(Only(es, S), vs) /\ Range(Only(es, S)) = Range(es) \cap S
<1> DEFINE q == Only(es, S)
<1>0. es \in Seq(EntryType) /\ \A i, j \in DOMAIN es : i # j => es[i].id # es[j].id
  BY DEF Entries
<1>1. q \in Seq(EntryType) /\ Picks(q, es, S, Len(es)) /\ Range(q) = Range(es) \cap S
  BY <1>0, OnlyPicks, OnlyRange
<1> HIDE DEF q
<1>2. PICK at : PicksBy(at, q, es, S, Len(es))
  BY <1>1 DEF Picks
<1>3. DOMAIN es = 1..Len(es) /\ DOMAIN q = 1..Len(q) /\ Len(q) \in Nat
  BY <1>0, <1>1, LenProperties
<1>4. \A i, j \in DOMAIN q : i # j => at[i] # at[j]
  <2>1. \A i, j \in DOMAIN q : i < j => at[i] < at[j] /\ at[i] \in Int /\ at[j] \in Int
    BY <1>2, <1>3 DEF PicksBy
  <2>2. \A i, j \in DOMAIN q : i # j => i < j \/ j < i
    BY <1>3
  <2>3. QED
    BY <2>1, <2>2
<1>5. \A i \in DOMAIN q : at[i] \in DOMAIN es /\ q[i] = es[at[i]]
  BY <1>2, <1>3 DEF PicksBy
<1>6. \A i, j \in DOMAIN q : i # j => q[i].id # q[j].id
  BY <1>0, <1>4, <1>5
<1>7. \A i \in DOMAIN q : q[i].v \in vs
  BY <1>5 DEF Entries
<1>8. QED
  BY <1>1, <1>6, <1>7 DEF Entries, q

LEMMA CutEntries ==
  ASSUME NEW es, NEW vs, Entries(es, vs), NEW m \in Nat, NEW n \in Nat, m > 0, n <= Len(es)
  PROVE  Entries(SubSeq(es, m, n), vs) /\ Range(SubSeq(es, m, n)) \subseteq Range(es)
<1> DEFINE q == SubSeq(es, m, n)
<1>0. es \in Seq(EntryType) /\ \A i, j \in DOMAIN es : i # j => es[i].id # es[j].id
  BY DEF Entries
<1>1. q \in Seq(EntryType) /\ \A i \in DOMAIN q : i + m - 1 \in DOMAIN es /\ q[i] = es[i + m - 1]
  BY <1>0, Cut
<1>2. DOMAIN q \subseteq Int
  <2>1. DOMAIN q = 1..Len(q)
    BY <1>1, LenProperties
  <2> HIDE DEF q
  <2>2. QED
    BY <2>1
<1> HIDE DEF q
<1>3. \A i, j \in DOMAIN q : i # j => i + m - 1 # j + m - 1
  BY <1>2
<1>4. \A i, j \in DOMAIN q : i # j => q[i].id # q[j].id
  BY <1>0, <1>1, <1>3
<1>5. \A i \in DOMAIN q : q[i].v \in vs
  BY <1>1 DEF Entries
<1>6. Range(q) \subseteq Range(es)
  BY <1>1 DEF Range
<1>7. QED
  BY <1>1, <1>4, <1>5, <1>6 DEF Entries, q

\* The two ends of the entries have no id in common.
LEMMA CutsApart ==
  ASSUME NEW es, NEW vs, Entries(es, vs), NEW at \in 0..Len(es)
  PROVE  Apart(SubSeq(es, 1, at), SubSeq(es, at + 1, Len(es)))
<1> DEFINE a == SubSeq(es, 1, at)  b == SubSeq(es, at + 1, Len(es))  n == Len(es)
<1>0. es \in Seq(EntryType) /\ \A i, j \in DOMAIN es : i # j => es[i].id # es[j].id
  BY DEF Entries
<1>1. Len(es) \in Nat
  BY <1>0, LenProperties
<1>2. at \in Nat /\ at + 1 \in Nat /\ at + 1 > 0 /\ at <= Len(es) /\ Len(es) <= Len(es)
  BY <1>1
<1>3. /\ a \in Seq(EntryType)
      /\ \A i \in DOMAIN a : i + 1 - 1 \in 1..at /\ i + 1 - 1 \in DOMAIN es /\ a[i] = es[i + 1 - 1]
  BY <1>0, <1>2, Cut
<1> DEFINE m == at + 1
<1>4. b \in Seq(EntryType) /\ \A i \in DOMAIN b : i + m - 1 \in m..n /\ i + m - 1 \in DOMAIN es /\ b[i] = es[i + m - 1]
  <2>1. m \in Nat /\ m > 0 /\ n \in Nat /\ n <= Len(es)
    BY <1>1, <1>2
  <2> HIDE DEF m, n
  <2>2. SubSeq(es, m, n) \in Seq(EntryType) /\ \A i \in DOMAIN SubSeq(es, m, n) :
          i + m - 1 \in m..n /\ i + m - 1 \in DOMAIN es /\ SubSeq(es, m, n)[i] = es[i + m - 1]
    BY <1>0, <2>1, Cut
  <2>3. QED
    BY <2>2 DEF m, n
<1>5. \A x \in Range(a) : \E i \in DOMAIN es : i <= at /\ x = es[i]
  <2>1. \A x \in Range(a) : \E i \in DOMAIN a : x = a[i]
    BY DEF Range
  <2>2. \A i \in DOMAIN a : \E k \in DOMAIN es : k <= at /\ a[i] = es[k]
    <3> TAKE i \in DOMAIN a
    <3> DEFINE k == i + 1 - 1
    <3>1. k \in 1..at /\ k \in DOMAIN es /\ a[i] = es[k]
      BY <1>3
    <3> HIDE DEF k
    <3>2. k <= at
      BY <1>2, <3>1
    <3>3. QED
      BY <3>1, <3>2
  <2>3. QED
    BY <2>1, <2>2
<1>6. \A y \in Range(b) : \E i \in DOMAIN es : i > at /\ y = es[i]
  <2>1. \A y \in Range(b) : \E i \in DOMAIN b : y = b[i]
    BY DEF Range
  <2>2. \A i \in DOMAIN b : \E k \in DOMAIN es : k > at /\ b[i] = es[k]
    <3> TAKE i \in DOMAIN b
    <3> DEFINE k == i + m - 1
    <3>1. k \in m..n /\ k \in DOMAIN es /\ b[i] = es[k]
      BY <1>4
    <3> HIDE DEF k
    <3>2. k > at
      BY <1>1, <1>2, <3>1
    <3>3. QED
      BY <3>1, <3>2
  <2>3. QED
    BY <2>1, <2>2
<1>7. ASSUME NEW x \in Range(a), NEW y \in Range(b) PROVE x.id # y.id
  <2>1. PICK i \in DOMAIN es : i <= at /\ x = es[i]
    BY <1>5
  <2>2. PICK k \in DOMAIN es : k > at /\ y = es[k]
    BY <1>6
  <2>3. DOMAIN es = 1..Len(es)
    BY <1>0, LenProperties
  <2>4. i # k
    BY <1>1, <1>2, <2>1, <2>2, <2>3
  <2>5. QED
    BY <1>0, <2>1, <2>2, <2>4
<1>8. QED
  BY <1>7 DEF Apart

\* Entries that have no id in common can be put behind each other.
LEMMA JoinedEntries ==
  ASSUME NEW vs, NEW a, NEW b, Entries(a, vs), Entries(b, vs), Apart(a, b)
  PROVE  Entries(a \o b, vs) /\ Range(a \o b) = Range(a) \cup Range(b)
<1> DEFINE q == a \o b
<1>1. a \in Seq(EntryType) /\ b \in Seq(EntryType)
  BY DEF Entries
<1>2. /\ q \in Seq(EntryType) /\ Range(q) = Range(a) \cup Range(b)
      /\ Len(a) \in Nat /\ DOMAIN q \subseteq Int
      /\ \A i \in DOMAIN q : \/ i \in DOMAIN a /\ q[i] = a[i]
                             \/ i - Len(a) \in DOMAIN b /\ q[i] = b[i - Len(a)]
  <2>1. /\ q \in Seq(EntryType) /\ Range(q) = Range(a) \cup Range(b)
        /\ \A i \in DOMAIN q : \/ i \in DOMAIN a /\ q[i] = a[i]
                               \/ i - Len(a) \in DOMAIN b /\ q[i] = b[i - Len(a)] /\ i > Len(a)
    BY <1>1, Joined
  <2>2. Len(a) \in Nat /\ DOMAIN q = 1..Len(q)
    BY <1>1, <2>1, LenProperties
  <2> HIDE DEF q
  <2>3. QED
    BY <2>1, <2>2
<1> HIDE DEF q
<1>3. \A i \in DOMAIN a, j \in DOMAIN b : a[i].id # b[j].id /\ b[j].id # a[i].id
  BY DEF Apart, Range
<1>4. ASSUME NEW i \in DOMAIN q, NEW j \in DOMAIN q, i # j PROVE q[i].id # q[j].id
  <2>1. i - Len(a) # j - Len(a)
    BY <1>2, <1>4
  <2>2. \/ i \in DOMAIN a /\ q[i] = a[i]
        \/ i - Len(a) \in DOMAIN b /\ q[i] = b[i - Len(a)]
    BY <1>2
  <2>3. \/ j \in DOMAIN a /\ q[j] = a[j]
        \/ j - Len(a) \in DOMAIN b /\ q[j] = b[j - Len(a)]
    BY <1>2
  <2>4. /\ \A k, l \in DOMAIN a : k # l => a[k].id # a[l].id
        /\ \A k, l \in DOMAIN b : k # l => b[k].id # b[l].id
    BY DEF Entries
  <2>5. CASE i \in DOMAIN a /\ q[i] = a[i]
    <3>1. CASE j \in DOMAIN a /\ q[j] = a[j]
      BY <1>4, <2>4, <2>5, <3>1
    <3>2. CASE j - Len(a) \in DOMAIN b /\ q[j] = b[j - Len(a)]
      BY <1>3, <2>5, <3>2
    <3>3. QED
      BY <2>3, <3>1, <3>2
  <2>6. CASE i - Len(a) \in DOMAIN b /\ q[i] = b[i - Len(a)]
    <3>1. CASE j \in DOMAIN a /\ q[j] = a[j]
      BY <1>3, <2>6, <3>1
    <3>2. CASE j - Len(a) \in DOMAIN b /\ q[j] = b[j - Len(a)]
      BY <2>1, <2>4, <2>6, <3>2
    <3>3. QED
      BY <2>3, <3>1, <3>2
  <2>7. QED
    BY <2>2, <2>5, <2>6
<1>5. \A i \in DOMAIN q : q[i].v \in vs
  BY <1>2 DEF Entries
<1>6. QED
  BY <1>2, <1>4, <1>5 DEF Entries, q

\* The greatest of a set of numbers below n.
LEMMA MaxThere ==
  ASSUME NEW n \in Nat, NEW T \in SUBSET (0..n), T # {}
  PROVE  Max(T) \in T /\ \A y \in T : y <= Max(T)
<1> DEFINE S == {n - y : y \in T}
<1>1. \A y \in T : y \in Nat /\ n - y \in Nat /\ n - (n - y) = y
  OBVIOUS
<1>2. S \in SUBSET Nat /\ S # {}
  <2>1. PICK y \in T : TRUE
    OBVIOUS
  <2>2. QED
    BY <1>1, <2>1
<1>3. PICK x \in S : \A z \in S : x <= z
  BY <1>2, LeastOne
<1>4. PICK m \in T : x = n - m
  BY <1>3
<1>5. ASSUME NEW y \in T PROVE y <= m /\ m >= y
  <2>1. x <= n - y /\ x = n - m
    BY <1>3, <1>4
  <2>2. y \in Nat /\ m \in Nat
    BY <1>1
  <2>3. QED
    BY <2>1, <2>2
<1> DEFINE top == CHOOSE k \in T : \A y \in T : k >= y
<1>6. top \in T /\ \A y \in T : top >= y
  BY <1>5
<1>7. Max(T) = top
  BY DEF Max
<1> HIDE DEF top
<1>8. QED
  BY <1>1, <1>6, <1>7

\* The least of a finite set of times.
LEMMA MinThere ==
  ASSUME NEW T \in SUBSET Nat, T # {}
  PROVE  Min(T) \in T /\ \A y \in T : Min(T) <= y
<1>1. PICK m \in T : \A y \in T : m <= y
  BY LeastOne
<1> DEFINE low == CHOOSE k \in T : \A y \in T : k <= y
<1>2. low \in T /\ \A y \in T : low <= y
  BY <1>1
<1>3. Min(T) = low
  BY DEF Min
<1> HIDE DEF low
<1>4. QED
  BY <1>2, <1>3

\* The greatest id of the window's entries.
LEMMA LastIdIs ==
  ASSUME NEW es, NEW vs, Entries(es, vs)
  PROVE  LastId(es) \in Nat /\ \A x \in Range(es) : x.id <= LastId(es)
<1>0. es \in Seq(EntryType) /\ Len(es) \in Nat /\ DOMAIN es = 1..Len(es) /\ \A i \in DOMAIN es : es[i].id \in Nat
  <2>1. es \in Seq(EntryType)
    BY DEF Entries
  <2>2. Len(es) \in Nat /\ DOMAIN es = 1..Len(es)
    BY <2>1, LenProperties
  <2>3. \A i \in DOMAIN es : es[i] \in EntryType
    BY <2>1, <2>2, ElementOfSeq
  <2>4. QED
    BY <2>1, <2>2, <2>3 DEF EntryType
<1> DEFINE T == {es[i].id : i \in DOMAIN es}
           S == {k \in Nat : \E n \in Nat : \A i \in DOMAIN es : i <= k => es[i].id <= n}
<1>1. CASE es = <<>>
  BY <1>1 DEF LastId, Range
<1>2. CASE es # <<>>
  <2>1. 0 \in S
    <3>1. \A i \in DOMAIN es : ~(i <= 0)
      BY <1>0
    <3>2. QED
      BY <3>1
  <2>2. ASSUME NEW k \in 0..(Len(es) - 1), k \in S PROVE k + 1 \in S
    <3>1. PICK n \in Nat : \A i \in DOMAIN es : i <= k => es[i].id <= n
      BY <2>2
    <3>2. k + 1 \in DOMAIN es /\ es[k + 1].id \in Nat /\ k + 1 \in Nat
      BY <1>0
    <3> DEFINE u == Later(n, es[k + 1].id)
    <3>3. u \in Nat /\ n <= u /\ es[k + 1].id <= u
      BY <3>2 DEF Later
    <3> HIDE DEF u
    <3>4. \A i \in DOMAIN es : i <= k + 1 => i <= k \/ i = k + 1
      BY <1>0
    <3>5. \A i \in DOMAIN es : i <= k + 1 => es[i].id <= u
      BY <1>0, <3>1, <3>3, <3>4
    <3>6. QED
      BY <3>2, <3>3, <3>5
  <2> HIDE DEF S
  <2>3. Len(es) \in S
    <3>1. \A i \in 0..Len(es) : i \in S
      BY <1>0, <2>1, <2>2, Climbing
    <3>2. QED
      BY <1>0, <3>1
  <2>4. PICK n \in Nat : \A i \in DOMAIN es : i <= Len(es) => es[i].id <= n
    BY <2>3 DEF S
  <2>5. T \in SUBSET (0..n) /\ T # {}
    <3>1. \A i \in DOMAIN es : es[i].id \in 0..n
      BY <1>0, <2>4
    <3>2. 1 \in DOMAIN es
      BY <1>0, <1>2
    <3>3. QED
      BY <3>1, <3>2
  <2>6. LastId(es) = Max(T)
    BY <1>2 DEF LastId
  <2>7. \A i \in DOMAIN es : es[i].id \in T
    OBVIOUS
  <2> HIDE DEF T
  <2>8. Max(T) \in T /\ \A y \in T : y <= Max(T)
    BY <2>5, MaxThere
  <2>9. QED
    BY <2>5, <2>6, <2>7, <2>8 DEF Range
<1>3. QED
  BY <1>1, <1>2

\* New signals get ids of their own.
LEMMA EntryForIs ==
  ASSUME NEW v \in Var, NEW id \in Nat
  PROVE  EntryFor(v, id) \in EntryType /\ EntryFor(v, id).v = v /\ EntryFor(v, id).id = id
BY DEF EntryFor, EntryType

\* New entries have ids of their own, after the last one.
LEMMA NewEntries ==
  ASSUME NEW vs \in Seq(Var), NEW first \in Nat
  PROVE  /\ Entries(EntriesFor(vs, first), Range(vs)) /\ DOMAIN EntriesFor(vs, first) = DOMAIN vs
         /\ \A x \in Range(EntriesFor(vs, first)) : x.id > first
         /\ \A i \in DOMAIN vs : EntriesFor(vs, first)[i].id \in Nat
<1> DEFINE q == EntriesFor(vs, first)
<1>1. Len(vs) \in Nat /\ DOMAIN vs = 1..Len(vs) /\ \A i \in DOMAIN vs : vs[i] \in Var
  BY LenProperties, ElementOfSeq
<1>2. DOMAIN q = DOMAIN vs /\ \A i \in DOMAIN vs : q[i] = EntryFor(vs[i], first + i)
  BY DEF EntriesFor
<1>3. \A i \in DOMAIN vs : first + i \in Nat /\ first + i > first
  BY <1>1
<1>4. \A i \in DOMAIN vs : q[i] \in EntryType /\ q[i].v = vs[i] /\ q[i].id = first + i
  BY <1>1, <1>2, <1>3, EntryForIs
<1>5. q = [i \in 1..Len(vs) |-> q[i]]
  BY <1>1 DEF EntriesFor
<1> HIDE DEF q
<1>6. q \in Seq(EntryType)
  <2>1. q \in [1..Len(vs) -> EntryType]
    BY <1>1, <1>4, <1>5
  <2>2. QED
    BY <1>1, <2>1, IsSeq
<1>7. \A i, j \in DOMAIN q : i # j => q[i].id # q[j].id
  BY <1>1, <1>2, <1>4
<1>8. \A i \in DOMAIN q : q[i].v \in Range(vs)
  BY <1>2, <1>4 DEF Range
<1>9. \A x \in Range(q) : x.id > first
  BY <1>2, <1>3, <1>4 DEF Range
<1>10. QED
  BY <1>2, <1>3, <1>4, <1>6, <1>7, <1>8, <1>9 DEF Entries, q

-----------------------------------------------------------------------------
(* Rows.                                                                   *)

FlattensBy(f, seqs) ==
  f = [i \in 1..Len(seqs) |-> IF i = 1 THEN seqs[i] ELSE f[i - 1] \o seqs[i]]

\* What is in a flattened sequence of sequences.
LEMMA Flattened ==
  ASSUME NEW T, NEW seqs \in Seq(Seq(T))
  PROVE  FlattenSeq(seqs) \in Seq(T)
<1> DEFINE n == Len(seqs)  Q == Seq(T)
<1>1. n \in Nat /\ \A i \in 1..n : seqs[i] \in Q
  BY LenProperties, ElementOfSeq
<1>2. CASE n = 0
  <2>1. seqs = <<>>
    BY <1>2, EmptySeq
  <2>2. QED
    BY <1>2, <2>1 DEF FlattenSeq
<1>3. CASE n # 0
  <2> DEFINE G == [p \in (1..n) \X Q |-> IF p[1] = 1 THEN seqs[1] ELSE p[2] \o seqs[p[1]]]
             e == <<>>
  <2>1. 1 \in 1..n /\ n \in 1..n /\ e \in Q
    BY <1>1, <1>3
  <2>2. \A i \in 1..n, q \in Q : q \o seqs[i] \in Q
    BY <1>1, ConcatProperties
  <2> HIDE DEF n, Q, e
  <2>3. \A i \in 1..n, q \in Q : G[<<i, q>>] = IF i = 1 THEN seqs[1] ELSE q \o seqs[i]
    OBVIOUS
  <2>4. G \in [(1..n) \X Q -> Q]
    BY <1>1, <2>1, <2>2
  <2> HIDE DEF G
  <2>5. FoldsFrom(e, n, Q, G)
    BY <1>1, <2>1, <2>4 DEF FoldsFrom
  <2>6. PICK h \in [0..n -> Q] : h[0] = e /\ \A i \in 1..n : h[i] = G[<<i, h[i - 1]>>]
    BY <2>5, Folding
  <2> DEFINE f == [i \in 1..n |-> h[i]]
  <2>7. \A i \in 1..n : f[i] = IF i = 1 THEN seqs[i] ELSE f[i - 1] \o seqs[i]
    <3>1. ASSUME NEW i \in 1..n PROVE h[i] = IF i = 1 THEN seqs[1] ELSE h[i - 1] \o seqs[i]
      <4>1. h[i - 1] \in Q
        BY <1>1
      <4>2. QED
        BY <2>3, <2>6, <4>1
    <3>2. \A i \in 1..n : i # 1 => i - 1 \in 1..n
      BY <1>1
    <3>3. QED
      BY <3>1, <3>2
  <2>8. FlattensBy(f, seqs)
    BY <2>7 DEF FlattensBy, n
  <2> DEFINE g == CHOOSE d : FlattensBy(d, seqs)
  <2>9. FlattensBy(g, seqs)
    BY <2>8
  <2>10. FlattenSeq(seqs) = g[n]
    BY <1>3 DEF FlattenSeq, FlattensBy, n
  <2> HIDE DEF g
  <2>11. \A i \in 1..n : g[i] = IF i = 1 THEN seqs[i] ELSE g[i - 1] \o seqs[i]
    BY <2>9 DEF FlattensBy, n
  <2> DEFINE In == {i \in Nat : i = 0 \/ g[i] \in Q}
  <2>12. 0 \in In
    OBVIOUS
  <2>13. ASSUME NEW i \in 0..(n - 1), i \in In PROVE i + 1 \in In
    <3>1. i + 1 \in 1..n /\ i + 1 \in Nat /\ (i + 1) - 1 = i
      BY <1>1
    <3>2. g[i + 1] = IF i + 1 = 1 THEN seqs[i + 1] ELSE g[i] \o seqs[i + 1]
      BY <2>11, <3>1
    <3>3. CASE i = 0
      BY <1>1, <3>1, <3>2, <3>3
    <3>4. CASE i # 0
      <4>1. g[i] \in Q /\ i + 1 # 1
        BY <2>13, <3>1, <3>4
      <4>2. QED
        BY <2>2, <3>1, <3>2, <4>1
    <3>5. QED
      BY <3>3, <3>4
  <2> HIDE DEF In
  <2>14. \A i \in 0..n : i \in In
    BY <1>1, <2>12, <2>13, Climbing
  <2>15. g[n] \in Q
    BY <1>1, <1>3, <2>14 DEF In
  <2>16. QED
    BY <2>10, <2>15 DEF Q
<1>4. QED
  BY <1>2, <1>3

\* A row of one of vs: the whole of it, or one bit of a bus.
RowType(vs) ==
  {row \in [e : EntryType, bit : Nat] :
     /\ row.e.v \in vs
     /\ row.bit > 0 => Splits(row.e) /\ row.bit <= row.e.v.width}

\* The rows of entries are entries and bits of theirs.
LEMMA RowsTyped ==
  ASSUME NEW es, NEW vs, Entries(es, vs)
  PROVE  RowsOf(es) \in Seq(RowType(vs))
<1> DEFINE T == RowType(vs)
           bits(i) == IF es[i].expanded /\ Splits(es[i]) THEN es[i].v.width + 1 ELSE 1
           piece(i) == [k \in 1..bits(i) |-> [e |-> es[i], bit |-> k - 1]]
           all == [i \in DOMAIN es |-> piece(i)]
<1>1. es \in Seq(EntryType) /\ Len(es) \in Nat /\ DOMAIN es = 1..Len(es)
      /\ \A i \in DOMAIN es : es[i] \in EntryType /\ es[i].v \in vs
  <2>1. es \in Seq(EntryType) /\ \A i \in DOMAIN es : es[i].v \in vs
    BY DEF Entries
  <2>2. QED
    BY <2>1, LenProperties, ElementOfSeq
<1>2. ASSUME NEW i \in DOMAIN es PROVE piece(i) \in Seq(T)
  <2>1. es[i].v.width \in Nat /\ es[i].v.width > 0
    BY <1>1 DEF EntryType, Var
  <2> DEFINE b == bits(i)
  <2>2. b \in Nat /\ (b > 1 => Splits(es[i]) /\ b = es[i].v.width + 1)
    BY <2>1
  <2> HIDE DEF b
  <2>3. ASSUME NEW k \in 1..b PROVE [e |-> es[i], bit |-> k - 1] \in T
    <3> DEFINE row == [e |-> es[i], bit |-> k - 1]
    <3>1. k - 1 \in Nat /\ (k - 1 > 0 => Splits(es[i]) /\ k - 1 <= es[i].v.width)
      BY <2>1, <2>2
    <3>2. row \in [e : EntryType, bit : Nat] /\ row.e = es[i] /\ row.bit = k - 1
      BY <1>1, <3>1
    <3> HIDE DEF row
    <3>3. row \in T
      BY <1>1, <3>1, <3>2 DEF RowType
    <3>4. QED
      BY <3>3 DEF row
  <2>4. piece(i) = [k \in 1..b |-> [e |-> es[i], bit |-> k - 1]]
    BY DEF b
  <2> HIDE DEF T, piece
  <2>5. piece(i) \in [1..b -> T]
    BY <2>3, <2>4
  <2>6. QED
    BY <2>2, <2>5, IsSeq
<1>3. all \in Seq(Seq(T))
  <2> HIDE DEF piece, T
  <2>1. all \in [1..Len(es) -> Seq(T)]
    BY <1>1, <1>2
  <2> HIDE DEF all
  <2>2. QED
    BY <1>1, <2>1, IsSeq
<1>4. RowsOf(es) = FlattenSeq(all)
  BY DEF RowsOf
<1> HIDE DEF all, T
<1>5. QED
  BY <1>3, <1>4, Flattened DEF T

\* A row's key, and what is drawn of it, in a run.
LEMMA RowFacts ==
  ASSUME run \in Runs, NEW row \in RowType(Range(run.vars))
  PROVE  /\ KeyOf(row) \in Nat \X Nat
         /\ SeriesOf(row) \in Series /\ Growing(SeriesOf(row))
         /\ \A i \in DOMAIN SeriesOf(row) : SeriesOf(row)[i].t \in 0..run.end
<1>1. /\ row.e \in EntryType /\ row.bit \in Nat /\ row.e.v \in Range(run.vars)
      /\ row.bit > 0 => Splits(row.e) /\ row.bit <= row.e.v.width
  BY DEF RowType
<1>2. KeyOf(row) \in Nat \X Nat
  <2>1. row.e.id \in Nat
    BY <1>1 DEF EntryType
  <2>2. QED
    BY <1>1, <2>1 DEF KeyOf
<1> DEFINE s == run.sigs[row.e.v.code]
<1>3. /\ s \in Series /\ Growing(s) /\ \A i \in DOMAIN s : s[i].t <= run.end
      /\ row.e.v.type # "real" => \A i \in DOMAIN s : Len(s[i].v) = row.e.v.width
  <2>1. IsRun(run)
    BY RunsAssumption
  <2>2. QED
    BY <1>1, <2>1 DEF IsRun
<1> HIDE DEF s
<1>4. run.end \in Nat /\ DOMAIN s = 1..Len(s) /\ \A i \in DOMAIN s : s[i].t \in 0..run.end
  <2>1. run.end \in Nat
    BY RunFacts
  <2>2. DOMAIN s = 1..Len(s) /\ \A i \in DOMAIN s : s[i].t \in Nat
    BY <1>3, SeriesFacts
  <2>3. QED
    BY <1>3, <2>1, <2>2
<1>5. CASE row.bit = 0
  BY <1>2, <1>3, <1>4, <1>5 DEF SeriesOf, s
<1>6. CASE row.bit # 0
  <2>1. row.bit > 0 /\ row.e.v.type # "real" /\ row.bit <= row.e.v.width
    BY <1>1, <1>6 DEF Splits
  <2>2. HasBit(s, row.bit)
    BY <1>1, <1>3, <1>4, <2>1 DEF HasBit
  <2> DEFINE b == row.bit  r == BitSeries(s, b)
  <2>3. BitsUpTo(r, s, b, Len(s))
    BY <1>3, <2>2, BitSeriesTells
  <2>4. SeriesOf(row) = r
    BY <1>6 DEF SeriesOf, s
  <2> HIDE DEF r, b
  <2>5. r \in Series /\ Growing(r) /\ \A m \in 1..Len(r) : \E j \in 1..Len(s) : r[m].t = s[j].t
    BY <2>3 DEF BitsUpTo
  <2>6. \A m \in DOMAIN r : r[m].t \in 0..run.end
    BY <1>4, <2>5, SeriesFacts
  <2>7. QED
    BY <1>2, <2>4, <2>5, <2>6
<1>7. QED
  BY <1>5, <1>6

-----------------------------------------------------------------------------
(* The invariant of the window.                                            *)

\* Times of run r; rows of its variables; what is kept.
TimesFit(r, z, c, ms, sn) ==
  /\ Viewport(z, LastTime(r)) /\ c \in 0..r.end /\ sn \in BOOLEAN
  /\ Ordered(ms) /\ Range(ms) \subseteq 0..LastTime(r)
RowsFit(r, es, picked, from) ==
  Entries(es, Range(r.vars)) /\ picked \subseteq (Nat \X Nat) /\ from \in Nat
KeptConfig(c) == c \in ConfigType /\ c.view[1] < c.view[2] /\ Ordered(c.markers)
DragType == [kind : {"nothing", "row", "wave", "bar", "split"}, at : Nat]

ViewerInv ==
  /\ IF run = NoRun THEN entries = <<>> /\ sel = {} /\ anchor = 0 /\ ~timer
     ELSE run \in Runs /\ TimesFit(run, view, cursor, markers, snap) /\ RowsFit(run, entries, sel, anchor)
          /\ frame \in FrameType
  /\ timer \in BOOLEAN /\ acts \in 0..MaxActs /\ drag \in DragType
  /\ store \in {NoConfig, Refused} \/ KeptConfig(store)

\* What the invariant says of an open page.
LEMMA OpenFacts ==
  ASSUME ViewerInv, run # NoRun
  PROVE  /\ run \in Runs /\ TimesFit(run, view, cursor, markers, snap) /\ RowsFit(run, entries, sel, anchor)
         /\ frame \in FrameType /\ timer \in BOOLEAN /\ drag \in DragType
         /\ view[1] \in Int /\ view[2] \in Int /\ Span \in Int /\ cursor \in Nat /\ drag.at \in Nat
         /\ 0 <= view[1] /\ view[1] < view[2]
<1>1. /\ run \in Runs /\ TimesFit(run, view, cursor, markers, snap) /\ RowsFit(run, entries, sel, anchor)
      /\ frame \in FrameType /\ timer \in BOOLEAN /\ drag \in DragType
  BY DEF ViewerInv
<1>2. view[1] \in Int /\ view[2] \in Int /\ 0 <= view[1] /\ view[1] < view[2] /\ cursor \in Nat
  BY <1>1 DEF TimesFit, Viewport
<1>3. drag.at \in Nat
  BY <1>1 DEF DragType
<1>4. QED
  BY <1>1, <1>2, <1>3 DEF Span

\* An act that leaves times and rows in the run keeps the invariant.
LEMMA ActFits ==
  ASSUME ViewerInv, run # NoRun, Act, store' = store,
         TimesFit(run, view', cursor', markers', snap'), RowsFit(run, entries', sel', anchor'),
         timer' \in BOOLEAN, frame' \in FrameType, drag' \in DragType
  PROVE  ViewerInv'
<1>1. run' = run /\ acts' \in 0..MaxActs /\ run \in Runs
  <2>1. acts \in 0..MaxActs /\ acts < MaxActs /\ acts' = acts + 1 /\ run' = run /\ run \in Runs
    BY DEF ViewerInv, Act
  <2>2. QED
    BY <2>1, ViewerAssumption
<1>2. store' \in {NoConfig, Refused} \/ KeptConfig(store')
  BY DEF ViewerInv
<1>3. QED
  BY <1>1, <1>2 DEF ViewerInv

-----------------------------------------------------------------------------
(* Steps in time.                                                          *)

LEMMA LooksFits ==
  ASSUME ViewerInv, run # NoRun, Act, Looks, Viewport(view', LastTime(run)), cursor' \in 0..run.end, drag' = drag
  PROVE  ViewerInv'
<1>1. /\ RowsFit(run, entries, sel, anchor) /\ TimesFit(run, view, cursor, markers, snap)
      /\ frame \in FrameType /\ drag \in DragType
  BY OpenFacts
<1>2. /\ entries' = entries /\ sel' = sel /\ anchor' = anchor /\ markers' = markers /\ snap' = snap
      /\ frame' = frame /\ store' = store /\ timer' = TRUE
  BY DEF Looks, SaveLater, rowVars
<1>3. RowsFit(run, entries', sel', anchor')
  BY <1>1, <1>2
<1>4. TimesFit(run, view', cursor', markers', snap')
  BY <1>1, <1>2 DEF TimesFit
<1>5. timer' \in BOOLEAN /\ frame' \in FrameType /\ drag' \in DragType
  BY <1>1, <1>2
<1>6. QED
  BY <1>2, <1>3, <1>4, <1>5, ActFits

\* The cursor lands in the run, and on screen when it is to be shown.
LEMMA SetCursorFits ==
  ASSUME ViewerInv, run # NoRun, NEW t \in Int, NEW show, SetCursor(t, show)
  PROVE  /\ Viewport(view', LastTime(run)) /\ cursor' \in 0..run.end
         /\ show => cursor' \in view'[1]..view'[2]
         /\ t \in 0..run.end => cursor' = t
<1>1. run \in Runs /\ Viewport(view, LastTime(run))
  BY OpenFacts DEF TimesFit
<1>2. cursor' = Inside(t) /\ view' = IF show THEN Revealed(cursor') ELSE view
  BY DEF SetCursor
<1>3. cursor' \in 0..run.end /\ cursor' \in 0..LastTime(run) /\ (t \in 0..run.end => cursor' = t)
  BY <1>1, <1>2, InsideFits
<1>4. Viewport(Revealed(cursor'), LastTime(run)) /\ cursor' \in Revealed(cursor')[1]..Revealed(cursor')[2]
  <2> DEFINE c == cursor'
  <2>1. c \in 0..LastTime(run)
    BY <1>3
  <2> HIDE DEF c
  <2>2. Viewport(Revealed(c), LastTime(run)) /\ c \in Revealed(c)[1]..Revealed(c)[2]
    BY <1>1, <2>1, RevealedFits
  <2>3. QED
    BY <2>2 DEF c
<1>5. QED
  BY <1>1, <1>2, <1>3, <1>4

\* The changes of the rows a jump looks at.
ChangeTimes == {c.t : c \in UNION {Range(SeriesOf(r)) : r \in Range(JumpRows)}}

\* A jump looks at rows of the window.
LEMMA JumpRowsTyped ==
  ASSUME ViewerInv, run # NoRun
  PROVE  /\ rows \in Seq(RowType(Range(run.vars))) /\ Range(rows) \subseteq RowType(Range(run.vars))
         /\ Range(SelectedRows) \subseteq Range(rows) /\ Range(JumpRows) \subseteq RowType(Range(run.vars))
         /\ DOMAIN rows = 1..Len(rows) /\ Len(rows) \in Nat
<1> DEFINE T == RowType(Range(run.vars))
<1>1. rows \in Seq(T)
  BY OpenFacts, RowsTyped DEF RowsFit, rows
<1> HIDE DEF T
<1>2. DOMAIN rows = 1..Len(rows) /\ Len(rows) \in Nat /\ Range(rows) \subseteq T
  <2>1. DOMAIN rows = 1..Len(rows) /\ Len(rows) \in Nat
    BY <1>1, LenProperties
  <2>2. \A i \in DOMAIN rows : rows[i] \in T
    BY <1>1, <2>1, ElementOfSeq
  <2>3. QED
    BY <2>1, <2>2 DEF Range
<1>3. Range(SelectedRows) \subseteq Range(rows)
  BY <1>1, OnlyRange DEF SelectedRows
<1>4. Range(JumpRows) \subseteq T
  BY <1>2, <1>3 DEF JumpRows
<1>5. QED
  BY <1>1, <1>2, <1>3, <1>4 DEF T

\* The next change of a series: one of its changes, and none lies between.
LEMMA NextOnIs ==
  ASSUME NEW s \in Series, Growing(s), cursor \in Nat, NEW ahead \in BOOLEAN
  PROVE  /\ NextOn(s, ahead) \subseteq {s[i].t : i \in DOMAIN s}
         /\ \A t \in NextOn(s, ahead) : IF ahead THEN t > cursor ELSE t < cursor
         /\ \A i \in DOMAIN s : (IF ahead THEN s[i].t > cursor ELSE s[i].t < cursor) =>
              \E t \in NextOn(s, ahead) : IF ahead THEN t <= s[i].t ELSE t >= s[i].t
<1> DEFINE k == IndexAt(s, cursor)
<1>1. /\ k \in 0..Len(s) /\ Len(s) \in Nat /\ DOMAIN s = 1..Len(s)
      /\ \A i \in 1..Len(s) : i <= k <=> s[i].t <= cursor
      /\ \A i \in 1..Len(s) : s[i].t \in Nat
      /\ \A i, j \in 1..Len(s) : i < j => s[i].t < s[j].t
  <2>1. cursor \in Int
    OBVIOUS
  <2>2. k \in 0..Len(s) /\ \A i \in 1..Len(s) : i <= k <=> s[i].t <= cursor
    BY <2>1, IndexFinds
  <2>3. Len(s) \in Nat /\ DOMAIN s = 1..Len(s) /\ \A i \in 1..Len(s) : s[i].t \in Nat
    BY SeriesFacts
  <2>4. \A i, j \in 1..Len(s) : i < j => s[i].t < s[j].t
    BY <2>3 DEF Growing
  <2> HIDE DEF k
  <2>5. QED
    BY <2>2, <2>3, <2>4
<1>2. NextOn(s, ahead) =
        IF ahead THEN IF k < Len(s) THEN {s[k + 1].t} ELSE {}
        ELSE IF k = 0 THEN {}
        ELSE IF s[k].t < cursor THEN {s[k].t}
        ELSE IF k > 1 THEN {s[k - 1].t} ELSE {}
  BY DEF NextOn
<1> HIDE DEF k
<1>3. CASE ahead
  <2>1. CASE k < Len(s)
    <3>1. k + 1 \in 1..Len(s) /\ ~(k + 1 <= k) /\ NextOn(s, ahead) = {s[k + 1].t}
      BY <1>1, <1>2, <1>3, <2>1
    <3>2. s[k + 1].t > cursor
      BY <1>1, <3>1
    <3>3. ASSUME NEW i \in 1..Len(s), s[i].t > cursor PROVE s[k + 1].t <= s[i].t
      <4>1. i = k + 1 \/ k + 1 < i
        BY <1>1, <3>3
      <4>2. QED
        BY <1>1, <3>1, <4>1
    <3>4. QED
      BY <1>1, <1>3, <3>1, <3>2, <3>3
  <2>2. CASE ~(k < Len(s))
    <3>1. NextOn(s, ahead) = {} /\ \A i \in 1..Len(s) : ~(s[i].t > cursor)
      <4>1. \A i \in 1..Len(s) : i <= k /\ s[i].t \in Nat
        BY <1>1, <2>2
      <4>2. \A i \in 1..Len(s) : s[i].t <= cursor
        BY <1>1, <4>1
      <4>3. QED
        BY <1>2, <1>3, <2>2, <4>1, <4>2
    <3>2. QED
      BY <1>1, <1>3, <3>1
  <2>3. QED
    BY <2>1, <2>2
<1>4. CASE ~ahead
  <2>1. CASE k = 0
    <3>1. NextOn(s, ahead) = {} /\ \A i \in 1..Len(s) : ~(s[i].t <= cursor)
      BY <1>1, <1>2, <1>4, <2>1
    <3>2. QED
      BY <1>1, <1>4, <3>1
  <2>2. CASE k # 0 /\ s[k].t < cursor
    <3>1. k \in 1..Len(s) /\ NextOn(s, ahead) = {s[k].t}
      BY <1>1, <1>2, <1>4, <2>2
    <3>2. ASSUME NEW i \in 1..Len(s), s[i].t < cursor PROVE s[k].t >= s[i].t
      <4>1. i = k \/ i < k
        BY <1>1, <3>2
      <4>2. QED
        BY <1>1, <3>1, <4>1
    <3>3. QED
      BY <1>1, <1>4, <2>2, <3>1, <3>2
  <2>3. CASE k # 0 /\ ~(s[k].t < cursor)
    <3>1. k \in 1..Len(s) /\ s[k].t = cursor
      BY <1>1, <2>3
    <3>2. \A i \in 1..Len(s) : s[i].t < cursor <=> i <= k - 1
      BY <1>1, <3>1
    <3>3. CASE k > 1
      <4>1. NextOn(s, ahead) = {s[k - 1].t} /\ k - 1 \in 1..Len(s)
        BY <1>1, <1>2, <1>4, <2>3, <3>3
      <4>2. s[k - 1].t < cursor
        BY <1>1, <3>2, <4>1
      <4>3. ASSUME NEW i \in 1..Len(s), s[i].t < cursor PROVE s[k - 1].t >= s[i].t
        <5>1. i = k - 1 \/ i < k - 1
          BY <1>1, <3>2, <4>3
        <5>2. QED
          BY <1>1, <4>1, <5>1
      <4>4. QED
        BY <1>1, <1>4, <4>1, <4>2, <4>3
    <3>4. CASE ~(k > 1)
      <4>1. NextOn(s, ahead) = {}
        BY <1>2, <1>4, <2>3, <3>4
      <4>2. \A i \in 1..Len(s) : ~(s[i].t < cursor)
        BY <1>1, <3>2, <3>4
      <4>3. QED
        BY <1>1, <1>4, <4>1, <4>2
    <3>5. QED
      BY <3>3, <3>4
  <2>4. QED
    BY <2>1, <2>2, <2>3
<1>5. QED
  BY <1>3, <1>4

\* The times a jump can go to.
LEMMA ChangeTimesAre ==
  ASSUME ViewerInv, run # NoRun
  PROVE  /\ \A t \in ChangeTimes : \E r \in Range(JumpRows) : \E i \in DOMAIN SeriesOf(r) : t = SeriesOf(r)[i].t
         /\ \A r \in Range(JumpRows) : \A i \in DOMAIN SeriesOf(r) :
              SeriesOf(r)[i].t \in ChangeTimes /\ SeriesOf(r)[i].t \in 0..run.end
<1>1. run \in Runs /\ \A r \in Range(JumpRows) : r \in RowType(Range(run.vars))
  BY OpenFacts, JumpRowsTyped
<1>2. \A r \in Range(JumpRows) : \A i \in DOMAIN SeriesOf(r) : SeriesOf(r)[i].t \in 0..run.end
  BY <1>1, RowFacts
<1> DEFINE all == UNION {Range(SeriesOf(r)) : r \in Range(JumpRows)}
<1>3. \A c \in all : \E r \in Range(JumpRows) : \E i \in DOMAIN SeriesOf(r) : c = SeriesOf(r)[i]
  BY DEF Range
<1>4. \A r \in Range(JumpRows) : \A i \in DOMAIN SeriesOf(r) : SeriesOf(r)[i] \in all
  BY DEF Range
<1>5. ChangeTimes = {c.t : c \in all}
  BY DEF ChangeTimes
<1> HIDE DEF all
<1>6. ASSUME NEW t \in ChangeTimes
      PROVE  \E r \in Range(JumpRows) : \E i \in DOMAIN SeriesOf(r) : t = SeriesOf(r)[i].t
  <2>1. PICK c \in all : t = c.t
    BY <1>5
  <2>2. QED
    BY <1>3, <2>1
<1>7. ASSUME NEW r \in Range(JumpRows), NEW i \in DOMAIN SeriesOf(r)
      PROVE  SeriesOf(r)[i].t \in ChangeTimes
  BY <1>4, <1>5
<1>8. QED
  BY <1>2, <1>6, <1>7

\* What a jump does: to a change beyond the cursor, none between, and on screen.
Jumped(ahead) ==
  /\ cursor' \in ChangeTimes /\ cursor' \in view'[1]..view'[2]
  /\ IF ahead THEN cursor' > cursor ELSE cursor' < cursor
  /\ \A t \in ChangeTimes : ~(t > Earlier(cursor, cursor') /\ t < Later(cursor, cursor'))

\* A jump goes to the nearest of them.
LEMMA JumpGoesThere ==
  ASSUME ViewerInv, run # NoRun, NEW ahead \in BOOLEAN, JumpEdge(ahead)
  PROVE  Jumped(ahead) /\ ViewerInv'
<1> DEFINE Beyond(t) == IF ahead THEN t > cursor ELSE t < cursor
           edges == UNION {NextOn(SeriesOf(r), ahead) : r \in Range(JumpRows)}
           goal == IF ahead THEN Min(edges) ELSE Max(edges)
<1>1. run \in Runs /\ run.end \in Nat /\ cursor \in Nat
  BY OpenFacts, RunFacts
<1>2. ASSUME NEW r \in Range(JumpRows)
      PROVE  /\ \A t \in NextOn(SeriesOf(r), ahead) : t \in ChangeTimes /\ t \in 0..run.end /\ Beyond(t)
             /\ \A i \in DOMAIN SeriesOf(r) : Beyond(SeriesOf(r)[i].t) =>
                  \E t \in NextOn(SeriesOf(r), ahead) : IF ahead THEN t <= SeriesOf(r)[i].t ELSE t >= SeriesOf(r)[i].t
  <2> DEFINE s == SeriesOf(r)
  <2>1. s \in Series /\ Growing(s)
    <3>1. r \in RowType(Range(run.vars))
      BY JumpRowsTyped
    <3>2. QED
      BY <1>1, <3>1, RowFacts
  <2>2. \A i \in DOMAIN s : s[i].t \in ChangeTimes /\ s[i].t \in 0..run.end
    BY ChangeTimesAre
  <2> HIDE DEF s
  <2>3. /\ NextOn(s, ahead) \subseteq {s[i].t : i \in DOMAIN s}
        /\ \A t \in NextOn(s, ahead) : Beyond(t)
        /\ \A i \in DOMAIN s : Beyond(s[i].t) => \E t \in NextOn(s, ahead) : IF ahead THEN t <= s[i].t ELSE t >= s[i].t
    BY <1>1, <2>1, NextOnIs
  <2>4. \A t \in NextOn(s, ahead) : t \in ChangeTimes /\ t \in 0..run.end
    BY <2>2, <2>3
  <2>5. QED
    BY <2>3, <2>4 DEF s
<1>3. \A t \in edges : t \in ChangeTimes /\ t \in 0..run.end /\ Beyond(t)
  <2>1. \A t \in edges : \E r \in Range(JumpRows) : t \in NextOn(SeriesOf(r), ahead)
    OBVIOUS
  <2> HIDE DEF edges, Beyond
  <2>2. QED
    BY <1>2, <2>1
<1>4. ASSUME NEW t \in ChangeTimes, Beyond(t)
      PROVE  \E u \in edges : IF ahead THEN u <= t ELSE u >= t
  <2>1. PICK r \in Range(JumpRows) : \E i \in DOMAIN SeriesOf(r) : t = SeriesOf(r)[i].t
    BY ChangeTimesAre
  <2>2. PICK i \in DOMAIN SeriesOf(r) : t = SeriesOf(r)[i].t
    BY <2>1
  <2>3. PICK u \in NextOn(SeriesOf(r), ahead) : IF ahead THEN u <= t ELSE u >= t
    BY <1>2, <1>4, <2>2
  <2>4. u \in edges
    OBVIOUS
  <2>5. QED
    BY <2>3, <2>4
<1>5. Act /\ edges # {} /\ UNCHANGED drag /\ SetCursor(goal, TRUE)
  BY DEF JumpEdge
<1> HIDE DEF edges
<1>6. goal \in edges /\ \A u \in edges : IF ahead THEN goal <= u ELSE goal >= u
  <2>1. edges \in SUBSET (0..run.end) /\ edges \in SUBSET Nat
    BY <1>1, <1>3
  <2>2. Min(edges) \in edges /\ \A y \in edges : Min(edges) <= y
    BY <1>5, <2>1, MinThere
  <2>3. Max(edges) \in edges /\ \A y \in edges : y <= Max(edges)
    BY <1>1, <1>5, <2>1, MaxThere
  <2>4. \A y \in edges : y \in Nat
    BY <2>1
  <2>5. CASE ahead
    BY <2>2, <2>5
  <2>6. CASE ~ahead
    <3>1. goal = Max(edges)
      BY <2>6
    <3> HIDE DEF goal
    <3>2. \A y \in edges : goal >= y
      BY <2>3, <2>4, <3>1
    <3>3. QED
      BY <2>3, <2>6, <3>1, <3>2
  <2>7. QED
    BY <2>5, <2>6
<1> HIDE DEF goal
<1>7. goal \in 0..run.end /\ goal \in Int /\ goal \in ChangeTimes /\ Beyond(goal)
  BY <1>1, <1>3, <1>6
<1>8. Viewport(view', LastTime(run)) /\ cursor' = goal /\ cursor' \in view'[1]..view'[2]
  BY <1>5, <1>7, SetCursorFits
<1>9. \A t \in ChangeTimes : ~(t > Earlier(cursor, goal) /\ t < Later(cursor, goal))
  <2> SUFFICES ASSUME NEW t \in ChangeTimes, t > Earlier(cursor, goal), t < Later(cursor, goal)
               PROVE  FALSE
    OBVIOUS
  <2>0. t \in Nat
    BY <1>1, ChangeTimesAre
  <2>1. CASE ahead
    <3>1. Earlier(cursor, goal) = cursor /\ Later(cursor, goal) = goal
      BY <1>1, <1>7, <2>1 DEF Earlier, Later
    <3>2. PICK u \in edges : u <= t
      BY <1>4, <2>1, <3>1
    <3>3. goal <= u /\ u \in Nat
      BY <1>3, <1>6, <2>1
    <3>4. QED
      BY <1>7, <2>0, <3>1, <3>2, <3>3
  <2>2. CASE ~ahead
    <3>1. Earlier(cursor, goal) = goal /\ Later(cursor, goal) = cursor
      BY <1>1, <1>7, <2>2 DEF Earlier, Later
    <3>2. PICK u \in edges : u >= t
      BY <1>4, <2>2, <3>1
    <3>3. goal >= u /\ u \in Nat
      BY <1>3, <1>6, <2>2
    <3>4. QED
      BY <1>7, <2>0, <3>1, <3>2, <3>3
  <2>3. QED
    BY <2>1, <2>2
<1>10. Jumped(ahead)
  <2>1. cursor' \in ChangeTimes /\ cursor' \in view'[1]..view'[2]
    BY <1>7, <1>8
  <2>2. IF ahead THEN cursor' > cursor ELSE cursor' < cursor
    BY <1>7, <1>8
  <2>3. \A t \in ChangeTimes : ~(t > Earlier(cursor, cursor') /\ t < Later(cursor, cursor'))
    BY <1>8, <1>9
  <2>4. QED
    BY <2>1, <2>2, <2>3 DEF Jumped
<1>11. ViewerInv'
  <2>1. Looks
    BY <1>5 DEF SetCursor
  <2>2. QED
    BY <1>5, <1>7, <1>8, <2>1, LooksFits
<1>12. QED
  BY <1>10, <1>11

LEMMA ViewSteps ==
  ASSUME ViewerInv, run # NoRun, Act, Looks, drag' = drag, cursor' = cursor,
         NEW a \in Int, NEW b \in Int, view' = Clamped(a, b)
  PROVE  ViewerInv'
<1>1. run \in Runs /\ cursor \in 0..run.end
  BY OpenFacts DEF TimesFit
<1>2. Viewport(view', LastTime(run)) /\ cursor' \in 0..run.end
  BY <1>1, ClampedFits
<1>3. QED
  BY <1>2, LooksFits

LEMMA CursorSteps ==
  ASSUME ViewerInv, run # NoRun, Act, drag' = drag, NEW t \in Int, NEW show, SetCursor(t, show)
  PROVE  ViewerInv'
<1>1. Viewport(view', LastTime(run)) /\ cursor' \in 0..run.end
  BY SetCursorFits
<1>2. Looks
  BY DEF SetCursor
<1>3. QED
  BY <1>1, <1>2, LooksFits

LEMMA MarkerSteps ==
  ASSUME ViewerInv, run # NoRun, Act, NEW ms, SetMarkers(ms), Ordered(ms), Range(ms) \subseteq 0..LastTime(run)
  PROVE  ViewerInv'
<1>1. /\ RowsFit(run, entries, sel, anchor) /\ TimesFit(run, view, cursor, markers, snap)
      /\ frame \in FrameType /\ drag \in DragType
  BY OpenFacts
<1>2. /\ entries' = entries /\ sel' = sel /\ anchor' = anchor /\ markers' = ms /\ snap' = snap /\ view' = view
      /\ cursor' = cursor /\ frame' = frame /\ store' = store /\ timer' = TRUE /\ drag' = drag
  BY DEF SetMarkers, SaveLater, rowVars
<1>3. TimesFit(run, view', cursor', markers', snap') /\ RowsFit(run, entries', sel', anchor')
  BY <1>1, <1>2 DEF TimesFit
<1>4. timer' \in BOOLEAN /\ frame' \in FrameType /\ drag' \in DragType
  BY <1>1, <1>2
<1>5. QED
  BY <1>2, <1>3, <1>4, ActFits

LEMMA TimeStepKeeps ==
  ASSUME ViewerInv, run # NoRun, TimeStep
  PROVE  ViewerInv'
<1>0. /\ run \in Runs /\ TimesFit(run, view, cursor, markers, snap) /\ RowsFit(run, entries, sel, anchor)
      /\ frame \in FrameType /\ drag \in DragType /\ view[1] \in Int /\ view[2] \in Int /\ Span \in Int
      /\ cursor \in Nat /\ run.end \in Nat /\ LastTime(run) \in Nat /\ LastTime(run) > 0 /\ run.end <= LastTime(run)
  BY OpenFacts, RunFacts
<1>1. ASSUME NEW in \in BOOLEAN, NEW c \in {ZoomCentre, view[1]}, Zoom(c, in)
      PROVE  ViewerInv'
  <2>1. c \in Int
    BY <1>0 DEF ZoomCentre
  <2> DEFINE half1 == c - (c - view[1]) \div 2  half2 == c + (view[2] - c) \div 2
             twice1 == c - (c - view[1]) * 2    twice2 == c + (view[2] - c) * 2
  <2>2. half1 \in Int /\ half2 \in Int /\ twice1 \in Int /\ twice2 \in Int
    BY <1>0, <2>1
  <2>3. Zoomed(c, in) = IF in THEN Clamped(half1, half2) ELSE Clamped(twice1, twice2)
    BY DEF Zoomed
  <2> HIDE DEF half1, half2, twice1, twice2
  <2>4. Act /\ view' = Zoomed(c, in) /\ cursor' = cursor /\ drag' = drag /\ Looks
    BY <1>1 DEF Zoom
  <2>5. CASE in
    <3>1. view' = Clamped(half1, half2)
      BY <2>3, <2>4, <2>5
    <3>2. QED
      BY <2>2, <2>4, <3>1, ViewSteps
  <2>6. CASE ~in
    <3>1. view' = Clamped(twice1, twice2)
      BY <2>3, <2>4, <2>6
    <3>2. QED
      BY <2>2, <2>4, <3>1, ViewSteps
  <2>7. QED
    BY <2>5, <2>6
<1>2. ASSUME Fit PROVE ViewerInv'
  <2>1. Act /\ view' = <<0, LastTime(run)>> /\ cursor' = cursor /\ drag' = drag /\ Looks
    BY <1>2 DEF Fit
  <2>2. Viewport(view', LastTime(run)) /\ cursor' \in 0..run.end
    BY <1>0, <2>1 DEF Viewport, TimesFit
  <2>3. QED
    BY <2>1, <2>2, LooksFits
<1>3. ASSUME NEW d \in {-Span, Span}, Pan(d) PROVE ViewerInv'
  <2> DEFINE a == view[1] + d  b == view[2] + d
  <2>1. a \in Int /\ b \in Int
    BY <1>0
  <2>2. Act /\ view' = Clamped(a, b) /\ cursor' = cursor /\ drag' = drag /\ Looks
    BY <1>3 DEF Pan
  <2> HIDE DEF a, b
  <2>3. QED
    BY <2>1, <2>2, ViewSteps
<1>4. ASSUME ZoomTo(view[1] + 1, view[2]) PROVE ViewerInv'
  <2> DEFINE a == view[1] + 1  b == view[2]
  <2>1. a \in Int /\ b \in Int
    BY <1>0
  <2>2. Act /\ view' = Clamped(a, b) /\ cursor' = cursor /\ drag' = drag /\ Looks
    BY <1>4 DEF ZoomTo
  <2> HIDE DEF a, b
  <2>3. QED
    BY <2>1, <2>2, ViewSteps
<1>5. ASSUME NEW t \in {0, run.end, view[1]}, GoTo(t, t # view[1]) PROVE ViewerInv'
  <2>1. t \in Int
    BY <1>0
  <2>2. Act /\ SetCursor(t, t # view[1]) /\ drag' = drag
    BY <1>5 DEF GoTo
  <2>3. QED
    BY <2>1, <2>2, CursorSteps
<1>6. ASSUME NEW ahead \in BOOLEAN, JumpEdge(ahead) PROVE ViewerInv'
  BY <1>6, JumpGoesThere
<1>7. ASSUME NEW ahead \in BOOLEAN, JumpMarker(ahead) PROVE ViewerInv'
  <2> DEFINE ms == IF ahead THEN markers ELSE Reverse(markers)
             S == {m \in Range(markers) : IF ahead THEN m > cursor ELSE m < cursor}
             list == Only(ms, S)
  <2>1. Act /\ list # <<>> /\ SetCursor(Head(list), TRUE) /\ drag' = drag
    BY <1>7 DEF JumpMarker
  <2>2. markers \in Seq(Nat)
    BY <1>0 DEF TimesFit, Ordered
  <2>3. Reverse(markers) \in Seq(Nat)
    <3> DEFINE n == Len(markers)
    <3>1. n \in Nat /\ \A i \in 1..n : markers[i] \in Nat
      BY <2>2, LenProperties, ElementOfSeq
    <3>2. Reverse(markers) = [i \in 1..n |-> markers[(n - i) + 1]]
      BY DEF Reverse
    <3> HIDE DEF n
    <3>3. \A i \in 1..n : markers[(n - i) + 1] \in Nat
      BY <3>1
    <3>4. Reverse(markers) \in [1..n -> Nat]
      BY <3>2, <3>3
    <3>5. QED
      BY <3>1, <3>4, IsSeq
  <2>4. ms \in Seq(Nat)
    BY <2>2, <2>3
  <2> HIDE DEF ms, S
  <2>5. list \in Seq(Nat)
    BY <2>4, OnlyPicks
  <2> HIDE DEF list
  <2>6. Head(list) \in Int
    BY <2>1, <2>5
  <2>7. QED
    BY <2>1, <2>6, CursorSteps
<1>8. ASSUME AddMarker PROVE ViewerInv'
  <2> DEFINE q == Only(markers, {m \in Range(markers) : m < cursor}) \o <<cursor>>
                    \o Only(markers, {m \in Range(markers) : m > cursor})
  <2>1. Act /\ SetMarkers(q)
    BY <1>8 DEF AddMarker
  <2>2. Ordered(markers) /\ Range(markers) \subseteq 0..LastTime(run) /\ cursor \in 0..LastTime(run)
    BY <1>0 DEF TimesFit
  <2>3. Ordered(q) /\ Range(q) \subseteq Range(markers) \cup {cursor}
    BY <1>0, <2>2, MarkerBetween
  <2> HIDE DEF q
  <2>4. Range(q) \subseteq 0..LastTime(run)
    BY <2>2, <2>3
  <2>5. QED
    BY <2>1, <2>3, <2>4, MarkerSteps
<1>9. ASSUME ClearMarkers PROVE ViewerInv'
  <2> DEFINE q == <<>>
  <2>1. Ordered(q) /\ Range(q) = {}
    BY DEF Ordered, Range
  <2>2. Act /\ SetMarkers(q)
    BY <1>9 DEF ClearMarkers
  <2> HIDE DEF q
  <2>3. QED
    BY <2>1, <2>2, MarkerSteps
<1>10. ASSUME ToggleSnap PROVE ViewerInv'
  <2>1. /\ Act /\ snap' = ~snap /\ timer' = TRUE /\ store' = store /\ entries' = entries /\ sel' = sel /\ anchor' = anchor
        /\ view' = view /\ cursor' = cursor /\ markers' = markers /\ frame' = frame /\ drag' = drag
    BY <1>10 DEF ToggleSnap, SaveLater, rowVars
  <2>2. snap' \in BOOLEAN
    BY <1>0, <2>1 DEF TimesFit
  <2>3. TimesFit(run, view', cursor', markers', snap') /\ RowsFit(run, entries', sel', anchor')
    BY <1>0, <2>1, <2>2 DEF TimesFit
  <2>4. timer' \in BOOLEAN /\ frame' \in FrameType /\ drag' \in DragType
    BY <1>0, <2>1
  <2>5. QED
    BY <2>1, <2>3, <2>4, ActFits
<1>11. QED
  BY <1>1, <1>2, <1>3, <1>4, <1>5, <1>6, <1>7, <1>8, <1>9, <1>10 DEF TimeStep

-----------------------------------------------------------------------------
(* Steps on rows.                                                          *)

LEMMA RowsOnly ==
  ASSUME ViewerInv, run # NoRun, Act, UNCHANGED timeVars, frame' = frame, store' = store, timer' \in BOOLEAN,
         drag' \in DragType, RowsFit(run, entries', sel', anchor')
  PROVE  ViewerInv'
<1>1. TimesFit(run, view, cursor, markers, snap) /\ frame \in FrameType
  BY OpenFacts
<1>2. view' = view /\ cursor' = cursor /\ markers' = markers /\ snap' = snap
  BY DEF timeVars
<1>3. TimesFit(run, view', cursor', markers', snap') /\ frame' \in FrameType
  BY <1>1, <1>2
<1>4. QED
  BY <1>3, ActFits

LEMMA RearrangesFits ==
  ASSUME ViewerInv, run # NoRun, Act, Rearranges, drag' \in DragType, RowsFit(run, entries', sel', anchor')
  PROVE  ViewerInv'
<1>1. UNCHANGED timeVars /\ frame' = frame /\ store' = store /\ timer' \in BOOLEAN
  BY DEF Rearranges, SaveLater
<1>2. QED
  BY <1>1, RowsOnly

LEMMA KeyIs ==
  ASSUME ViewerInv, run # NoRun, NEW i \in DOMAIN rows
  PROVE  rows[i] \in RowType(Range(run.vars)) /\ KeyOf(rows[i]) \in Nat \X Nat /\ i \in Nat
<1>1. run \in Runs /\ rows[i] \in RowType(Range(run.vars))
  <2>1. rows[i] \in Range(rows)
    BY DEF Range
  <2>2. QED
    BY <2>1, OpenFacts, JumpRowsTyped
<1>2. KeyOf(rows[i]) \in Nat \X Nat
  BY <1>1, RowFacts
<1>3. i \in Nat
  BY JumpRowsTyped
<1>4. QED
  BY <1>1, <1>2, <1>3

\* A range, whatever its anchor, selects keys of rows.
LEMMA SelectRowFits ==
  ASSUME ViewerInv, run # NoRun, NEW i, NEW how, SelectRow(i, how)
  PROVE  RowsFit(run, entries', sel', anchor') /\ i \in DOMAIN rows /\ i \in Nat
<1>0. RowsFit(run, entries, sel, anchor)
  BY OpenFacts
<1>1. i \in DOMAIN rows /\ entries' = entries /\ sel' = Selected(i, how)
      /\ anchor' = IF how = "range" /\ anchor > 0 THEN anchor ELSE i
  BY DEF SelectRow
<1>2. i \in Nat /\ KeyOf(rows[i]) \in Nat \X Nat /\ i \in 1..Len(rows) /\ Len(rows) \in Nat /\ DOMAIN rows = 1..Len(rows)
  BY <1>1, KeyIs, JumpRowsTyped
<1>3. anchor' \in Nat
  BY <1>0, <1>1, <1>2 DEF RowsFit
<1> DEFINE keys == {KeyOf(rows[k]) : k \in Earlier(anchor, i)..Earlier(Later(anchor, i), Len(rows))}
           key == KeyOf(rows[i])
<1>4. anchor > 0 => keys \subseteq Nat \X Nat
  <2> SUFFICES ASSUME anchor > 0, NEW k \in Earlier(anchor, i)..Earlier(Later(anchor, i), Len(rows))
               PROVE  KeyOf(rows[k]) \in Nat \X Nat
    OBVIOUS
  <2>1. anchor \in Nat
    BY <1>0 DEF RowsFit
  <2>2. k \in 1..Len(rows)
    BY <1>2, <2>1 DEF Earlier, Later
  <2>3. QED
    BY <1>2, <2>2, KeyIs
<1>5. Selected(i, how) = IF how = "toggle" THEN IF key \in sel THEN sel \ {key} ELSE sel \cup {key}
                         ELSE IF how = "range" /\ anchor > 0 THEN keys ELSE {key}
  BY DEF Selected
<1> HIDE DEF keys, key
<1>6. key \in Nat \X Nat /\ sel \subseteq Nat \X Nat
  BY <1>0, <1>2 DEF key, RowsFit
<1>7. sel' \subseteq Nat \X Nat
  BY <1>1, <1>4, <1>5, <1>6
<1>8. QED
  BY <1>0, <1>1, <1>2, <1>3, <1>7 DEF RowsFit

\* Entries among fewer variables.
LEMMA EntriesWiden ==
  ASSUME NEW es, NEW vs, NEW ws, Entries(es, vs), vs \subseteq ws
  PROVE  Entries(es, ws)
BY DEF Entries

\* A change of radix or of the bits shown.
LEMMA ChangedEntries ==
  ASSUME NEW es, NEW vs, Entries(es, vs), NEW f, f = [k \in DOMAIN es |-> f[k]],
         \A k \in DOMAIN es : f[k] \in EntryType /\ f[k].id = es[k].id /\ f[k].v = es[k].v
  PROVE  Entries(f, vs)
<1>1. es \in Seq(EntryType) /\ Len(es) \in Nat /\ DOMAIN es = 1..Len(es)
  <2>1. es \in Seq(EntryType)
    BY DEF Entries
  <2>2. QED
    BY <2>1, LenProperties
<1>2. f \in Seq(EntryType) /\ DOMAIN f = DOMAIN es
  <2> DEFINE n == Len(es)
  <2>1. n \in Nat /\ DOMAIN es = 1..n
    BY <1>1
  <2> HIDE DEF n
  <2>2. f \in [1..n -> EntryType]
    BY <2>1
  <2>3. QED
    BY <2>1, <2>2, IsSeq
<1>3. QED
  BY <1>2 DEF Entries

LEMMA ScopeVars ==
  ASSUME NEW r \in Runs, NEW s
  PROVE  /\ VarsOf(r, s) \in Seq(Var) /\ Range(VarsOf(r, s)) \subseteq Range(r.vars)
         /\ Addable(r, s) \in Seq(Var) /\ Range(Addable(r, s)) \subseteq Range(r.vars)
<1>1. r.vars \in Seq(Var)
  BY RunFacts
<1>2. VarsOf(r, s) \in Seq(Var) /\ Range(VarsOf(r, s)) \subseteq Range(r.vars)
  BY <1>1, OnlyPicks, OnlyRange DEF VarsOf
<1> DEFINE q == VarsOf(r, s)
<1>3. q \in Seq(Var)
  BY <1>2
<1> DEFINE S == {v \in Range(r.vars) : v.type # "parameter" /\ ~TestOnly(r, v)}
<1>4. Addable(r, s) = Only(q, S)
  BY DEF Addable
<1> HIDE DEF q, S
<1>5. Only(q, S) \in Seq(Var) /\ Range(Only(q, S)) \subseteq Range(q)
  BY <1>3, OnlyPicks, OnlyRange
<1>6. QED
  BY <1>2, <1>4, <1>5 DEF q

LEMMA AddVarsFits ==
  ASSUME ViewerInv, run # NoRun, NEW vs \in Seq(Var), Range(vs) \subseteq Range(run.vars),
         NEW at \in 0..Len(entries), AddVars(vs, at)
  PROVE  ViewerInv'
<1> DEFINE new == EntriesFor(vs, LastId(entries))
           V == Range(run.vars)
           a == SubSeq(entries, 1, at)  b == SubSeq(entries, at + 1, Len(entries))
<1>1. Entries(entries, V) /\ anchor \in Nat /\ drag \in DragType
  BY OpenFacts DEF RowsFit
<1>2. /\ Act /\ entries' = a \o new \o b /\ sel' = {<<new[i].id, 0>> : i \in DOMAIN new}
      /\ anchor' = anchor /\ drag' = drag /\ Rearranges
  BY DEF AddVars
<1>3. LastId(entries) \in Nat /\ \A x \in Range(entries) : x.id <= LastId(entries) /\ x.id \in Nat
  <2>1. LastId(entries) \in Nat /\ \A x \in Range(entries) : x.id <= LastId(entries)
    BY <1>1, LastIdIs
  <2>2. \A x \in Range(entries) : x \in EntryType
    BY <1>1, LenProperties DEF Entries, Range
  <2>3. QED
    BY <2>1, <2>2 DEF EntryType
<1>4. Entries(new, V) /\ DOMAIN new = DOMAIN vs /\ (\A x \in Range(new) : x.id > LastId(entries))
      /\ \A i \in DOMAIN new : new[i].id \in Nat
  <2> DEFINE n == LastId(entries)
  <2>1. n \in Nat
    BY <1>3
  <2> HIDE DEF n
  <2>2. Entries(EntriesFor(vs, n), Range(vs)) /\ DOMAIN EntriesFor(vs, n) = DOMAIN vs
        /\ (\A x \in Range(EntriesFor(vs, n)) : x.id > n)
        /\ \A i \in DOMAIN vs : EntriesFor(vs, n)[i].id \in Nat
    BY <2>1, NewEntries
  <2>3. Entries(EntriesFor(vs, n), V)
    BY <2>2, EntriesWiden
  <2>4. QED
    BY <2>2, <2>3 DEF n
<1>5. Len(entries) \in Nat
  BY <1>1, LenProperties DEF Entries
<1>6. Entries(a, V) /\ Range(a) \subseteq Range(entries)
  BY <1>1, <1>5, CutEntries
<1>7. Entries(b, V) /\ Range(b) \subseteq Range(entries)
  <2> DEFINE m == at + 1  n == Len(entries)
  <2>1. m \in Nat /\ m > 0 /\ n \in Nat /\ n <= Len(entries)
    BY <1>5
  <2> HIDE DEF m, n
  <2>2. Entries(SubSeq(entries, m, n), V) /\ Range(SubSeq(entries, m, n)) \subseteq Range(entries)
    BY <1>1, <2>1, CutEntries
  <2>3. QED
    BY <2>2 DEF m, n
<1>8. Apart(a, b)
  BY <1>1, CutsApart
<1> HIDE DEF new, a, b, V
<1>9. Apart(a, new) /\ Apart(new, b)
  <2>1. \A x \in Range(entries), y \in Range(new) : x.id # y.id
    <3> SUFFICES ASSUME NEW x \in Range(entries), NEW y \in Range(new), x.id = y.id PROVE FALSE
      OBVIOUS
    <3>1. x.id <= LastId(entries) /\ x.id \in Nat /\ x.id > LastId(entries)
      BY <1>3, <1>4
    <3>2. QED
      BY <1>3, <3>1
  <2>2. QED
    BY <1>6, <1>7, <2>1 DEF Apart
<1>10. Entries(a \o new, V) /\ Range(a \o new) = Range(a) \cup Range(new)
  <2>1. Entries(a, V) /\ Entries(new, V) /\ Apart(a, new)
    BY <1>4, <1>6, <1>9
  <2>2. Entries(a \o new, V)
    BY <2>1, JoinedEntries
  <2>3. Range(a \o new) = Range(a) \cup Range(new)
    BY <2>1, Joined DEF Entries
  <2>4. QED
    BY <2>2, <2>3
<1>11. Apart(a \o new, b)
  BY <1>8, <1>9, <1>10 DEF Apart
<1> DEFINE c == a \o new
<1>12. Entries(c, V) /\ Apart(c, b)
  BY <1>10, <1>11
<1> HIDE DEF c
<1>13. Entries(c \o b, V)
  BY <1>7, <1>12, JoinedEntries
<1>14. sel' \subseteq Nat \X Nat
  BY <1>2, <1>4
<1>15. RowsFit(run, entries', sel', anchor') /\ drag' \in DragType
  BY <1>1, <1>2, <1>13, <1>14 DEF RowsFit, c, V
<1>16. QED
  BY <1>2, <1>15, RearrangesFits

\* A drop moves entries and loses none of their ids.
LEMMA DropRowsFits ==
  ASSUME ViewerInv, run # NoRun, NEW at \in 0..Len(entries), DropRows(at)
  PROVE  ViewerInv'
<1> DEFINE moving == SelectedIds(FALSE)
           V == Range(run.vars)
           left == SubSeq(entries, 1, at)  right == SubSeq(entries, at + 1, Len(entries))
           a == Only(left, {e \in Range(left) : e.id \notin moving})
           b == Only(entries, {e \in Range(entries) : e.id \in moving})
           c == Only(right, {e \in Range(right) : e.id \notin moving})
<1>1. Entries(entries, V) /\ anchor \in Nat /\ sel \subseteq Nat \X Nat
  BY OpenFacts DEF RowsFit
<1>2. Act /\ entries' = a \o b \o c /\ sel' = sel /\ anchor' = anchor /\ drag' = Nothing /\ Rearranges
  BY DEF DropRows
<1>3. Len(entries) \in Nat
  BY <1>1, LenProperties DEF Entries
<1>4. Entries(left, V)
  BY <1>1, <1>3, CutEntries
<1>5. Entries(right, V)
  <2> DEFINE m == at + 1  n == Len(entries)
  <2>1. m \in Nat /\ m > 0 /\ n \in Nat /\ n <= Len(entries)
    BY <1>3
  <2> HIDE DEF m, n
  <2>2. Entries(SubSeq(entries, m, n), V)
    BY <1>1, <2>1, CutEntries
  <2>3. QED
    BY <2>2 DEF m, n
<1>6. Apart(left, right)
  BY <1>1, CutsApart
<1> HIDE DEF left, right, moving, V
<1>7. Entries(a, V) /\ Range(a) = Range(left) \cap {e \in Range(left) : e.id \notin moving}
  BY <1>4, OnlyEntries
<1>8. Entries(b, V) /\ Range(b) = Range(entries) \cap {e \in Range(entries) : e.id \in moving}
  BY <1>1, OnlyEntries
<1>9. Entries(c, V) /\ Range(c) = Range(right) \cap {e \in Range(right) : e.id \notin moving}
  BY <1>5, OnlyEntries
<1> HIDE DEF a, b, c
<1>10. Apart(a, b) /\ Apart(b, c) /\ Apart(a, c)
  BY <1>6, <1>7, <1>8, <1>9 DEF Apart
<1> DEFINE d == a \o b
<1>11. Entries(d, V) /\ Range(d) = Range(a) \cup Range(b)
  <2>1. Entries(a, V) /\ Entries(b, V) /\ Apart(a, b)
    BY <1>7, <1>8, <1>10
  <2>2. Entries(d, V)
    BY <2>1, JoinedEntries
  <2>3. Range(d) = Range(a) \cup Range(b)
    BY <2>1, Joined DEF Entries
  <2>4. QED
    BY <2>2, <2>3
<1> HIDE DEF d
<1>12. Apart(d, c)
  BY <1>10, <1>11 DEF Apart
<1>13. Entries(d \o c, V)
  BY <1>9, <1>11, <1>12, JoinedEntries
<1>14. RowsFit(run, entries', sel', anchor')
  BY <1>1, <1>2, <1>13 DEF RowsFit, d, V
<1>15. drag' \in DragType
  BY <1>2 DEF Nothing, DragType
<1>16. QED
  BY <1>2, <1>14, <1>15, RearrangesFits

LEMMA ToggleExpandFits ==
  ASSUME ViewerInv, run # NoRun, NEW i \in DOMAIN entries, ToggleExpand(i)
  PROVE  ViewerInv'
<1> DEFINE V == Range(run.vars)
<1>1. Entries(entries, V) /\ anchor \in Nat /\ sel \subseteq Nat \X Nat /\ drag \in DragType
  BY OpenFacts DEF RowsFit
<1>2. /\ Act /\ entries' = [entries EXCEPT ![i].expanded = ~@] /\ sel' = sel /\ anchor' = anchor /\ drag' = drag
      /\ Rearranges
  BY DEF ToggleExpand
<1>3. \A k \in DOMAIN entries : entries[k] \in EntryType
  BY <1>1, LenProperties DEF Entries
<1>4. \A k \in DOMAIN entries : entries'[k] \in EntryType /\ entries'[k].id = entries[k].id /\ entries'[k].v = entries[k].v
  BY <1>2, <1>3 DEF EntryType
<1>5. entries' = [k \in DOMAIN entries |-> entries'[k]]
  BY <1>2
<1> DEFINE f == entries'
<1> HIDE DEF V, f
<1>6. Entries(f, V)
  BY <1>1, <1>4, <1>5, ChangedEntries DEF f
<1>7. RowsFit(run, entries', sel', anchor') /\ drag' \in DragType
  BY <1>1, <1>2, <1>6 DEF RowsFit, f, V
<1>8. QED
  BY <1>2, <1>7, RearrangesFits

LEMMA SetRadixFits ==
  ASSUME ViewerInv, run # NoRun, NEW i \in DOMAIN rows, NEW radix \in Radixes, SetRadix(i, radix)
  PROVE  ViewerInv'
<1> DEFINE V == Range(run.vars)
           ids == IF KeyOf(rows[i]) \in sel THEN SelectedIds(FALSE) ELSE {rows[i].e.id}
<1>1. Entries(entries, V) /\ anchor \in Nat /\ sel \subseteq Nat \X Nat /\ drag \in DragType
  BY OpenFacts DEF RowsFit
<1>2. /\ Act /\ drag' = drag /\ Rearranges
      /\ entries' = [k \in DOMAIN entries |->
                  IF entries[k].id \in ids THEN [entries[k] EXCEPT !.radix = radix] ELSE entries[k]]
      /\ IF KeyOf(rows[i]) \in sel THEN UNCHANGED <<sel, anchor>> ELSE sel' = {KeyOf(rows[i])} /\ anchor' = i
  BY DEF SetRadix
<1>3. KeyOf(rows[i]) \in Nat \X Nat /\ i \in Nat
  BY KeyIs
<1>4. sel' \subseteq Nat \X Nat /\ anchor' \in Nat
  BY <1>1, <1>2, <1>3
<1> HIDE DEF ids, V
<1>5. \A k \in DOMAIN entries : entries[k] \in EntryType
  BY <1>1, LenProperties DEF Entries
<1>6. \A k \in DOMAIN entries : entries'[k] \in EntryType /\ entries'[k].id = entries[k].id /\ entries'[k].v = entries[k].v
  BY <1>2, <1>5 DEF EntryType
<1>7. entries' = [k \in DOMAIN entries |-> entries'[k]]
  BY <1>2
<1> DEFINE f == entries'
<1> HIDE DEF f
<1>8. Entries(f, V)
  BY <1>1, <1>6, <1>7, ChangedEntries DEF f
<1>9. RowsFit(run, entries', sel', anchor') /\ drag' \in DragType
  BY <1>1, <1>2, <1>4, <1>8 DEF RowsFit, f, V
<1>10. QED
  BY <1>2, <1>9, RearrangesFits

LEMMA RemoveSelectedFits ==
  ASSUME ViewerInv, run # NoRun, RemoveSelected
  PROVE  ViewerInv'
<1> DEFINE S == {e \in Range(entries) : e.id \notin SelectedIds(TRUE)}
<1>1. Entries(entries, Range(run.vars)) /\ anchor \in Nat /\ drag \in DragType
  BY OpenFacts DEF RowsFit
<1>2. Act /\ entries' = Only(entries, S) /\ sel' = {} /\ anchor' = anchor /\ drag' = drag /\ Rearranges
  BY DEF RemoveSelected
<1> HIDE DEF S
<1>3. Entries(Only(entries, S), Range(run.vars))
  BY <1>1, OnlyEntries
<1>4. RowsFit(run, entries', sel', anchor') /\ drag' \in DragType
  BY <1>1, <1>2, <1>3 DEF RowsFit
<1>5. QED
  BY <1>2, <1>4, RearrangesFits

\* The nearest of two changes.
LEMMA NearestOfTwo ==
  ASSUME NEW k \in Int, NEW near \in SUBSET {k, k + 1}, near # {}, NEW off, \A j \in near : off[j] \in Int
  PROVE  \E j \in near : \A i \in near : off[j] < off[i] \/ (off[j] = off[i] /\ j <= i)
<1>1. CASE near = {k}
  BY <1>1
<1>2. CASE near = {k + 1}
  BY <1>2
<1>3. CASE near = {k, k + 1}
  <2>1. off[k] \in Int /\ off[k + 1] \in Int /\ k <= k /\ k <= k + 1
    BY <1>3
  <2>2. CASE off[k] <= off[k + 1]
    BY <1>3, <2>1, <2>2
  <2>3. CASE off[k + 1] < off[k]
    BY <1>3, <2>1, <2>3
  <2>4. QED
    BY <2>1, <2>2, <2>3
<1>4. near = {k} \/ near = {k + 1} \/ near = {k, k + 1}
  OBVIOUS
<1>5. QED
  BY <1>1, <1>2, <1>3, <1>4

\* The pointer snaps to a time.
LEMMA SnappedIs ==
  ASSUME ViewerInv, run # NoRun, NEW row \in RowType(Range(run.vars)), NEW t \in Int
  PROVE  Snapped(row, t) \in Int
<1> DEFINE s == SeriesOf(row)
           k == IndexAt(s, t)
           near == {j \in {k, k + 1} \cap DOMAIN s : ((s[j].t - t) * Pixels) \in (-7 * Span + 1)..(7 * Span - 1)}
           off(j) == IF s[j].t < t THEN t - s[j].t ELSE s[j].t - t
           pick == CHOOSE j \in near : \A i \in near : off(j) < off(i) \/ (off(j) = off(i) /\ j <= i)
<1>1. s \in Series /\ Growing(s)
  BY OpenFacts, RowFacts
<1>2. k \in Int /\ \A j \in DOMAIN s : s[j].t \in Nat
  <2> HIDE DEF s
  <2>1. IndexAt(s, t) \in 0..Len(s)
    BY <1>1, IndexFinds
  <2>2. Len(s) \in Nat /\ \A j \in DOMAIN s : s[j].t \in Nat
    BY <1>1, SeriesFacts
  <2>3. QED
    BY <2>1, <2>2
<1>3. Snapped(row, t) = IF ~snap \/ near = {} THEN t ELSE s[pick].t
  BY DEF Snapped
<1> HIDE DEF k, s
<1>4. near \subseteq {k, k + 1} /\ near \subseteq DOMAIN s
  OBVIOUS
<1> HIDE DEF near
<1>5. CASE near # {}
  <2> DEFINE far == [j \in near |-> off(j)]
  <2>1. \A j \in near : s[j].t \in Nat
    BY <1>2, <1>4
  <2>2. \A j \in near : far[j] = off(j) /\ far[j] \in Int
    BY <2>1
  <2> HIDE DEF far
  <2>3. \E j \in near : \A i \in near : far[j] < far[i] \/ (far[j] = far[i] /\ j <= i)
    BY <1>2, <1>4, <1>5, <2>2, NearestOfTwo
  <2> HIDE DEF off
  <2>4. \E j \in near : \A i \in near : off(j) < off(i) \/ (off(j) = off(i) /\ j <= i)
    BY <2>2, <2>3
  <2>5. pick \in near
    BY <2>4
  <2> HIDE DEF pick
  <2>6. QED
    BY <1>3, <2>1, <2>5
<1>6. CASE near = {}
  BY <1>3, <1>6
<1>7. QED
  BY <1>5, <1>6

LEMMA RowStepKeeps ==
  ASSUME ViewerInv, run # NoRun, RowStep
  PROVE  ViewerInv'
<1>0. /\ run \in Runs /\ TimesFit(run, view, cursor, markers, snap) /\ RowsFit(run, entries, sel, anchor)
      /\ frame \in FrameType /\ timer \in BOOLEAN /\ drag \in DragType /\ view[1] \in Int /\ view[2] \in Int
  BY OpenFacts
<1>1. ASSUME NEW at \in 0..Len(entries), AddObject(at)
      PROVE  ViewerInv'
  <2>1. PICK v \in Range(VarsOf(run, frame.scope)) : AddVars(<<v>>, at)
    BY <1>1 DEF AddObject
  <2>2. v \in Range(run.vars)
    BY <1>0, ScopeVars
  <2>3. v \in Var
    <3>1. run.vars \in Seq(Var)
      BY <1>0, RunFacts
    <3>2. QED
      BY <2>2, <3>1, LenProperties DEF Range
  <2> DEFINE one == <<v>>
  <2>4. one \in Seq(Var) /\ Range(one) \subseteq Range(run.vars)
    <3>1. one \in Seq(Var) /\ DOMAIN one = {1} /\ one[1] = v
      BY <2>3
    <3> HIDE DEF one
    <3>2. \A x \in Range(one) : x = v
      BY <3>1 DEF Range
    <3>3. QED
      BY <2>2, <3>1, <3>2
  <2> HIDE DEF one
  <2>5. AddVars(one, at)
    BY <2>1 DEF one
  <2>6. QED
    BY <2>4, <2>5, AddVarsFits
<1>2. ASSUME NEW at \in 0..Len(entries), DropRows(at)
      PROVE  ViewerInv'
  BY <1>2, DropRowsFits
<1>3. ASSUME AddScope
      PROVE  ViewerInv'
  <2>1. PICK s : AddVars(Addable(run, s), Len(entries))
    BY <1>3 DEF AddScope
  <2> DEFINE vs == Addable(run, s)  at == Len(entries)
  <2>2. vs \in Seq(Var) /\ Range(vs) \subseteq Range(run.vars)
    BY <1>0, ScopeVars
  <2>3. at \in 0..Len(entries)
    BY <1>0, LenProperties DEF RowsFit, Entries
  <2>4. AddVars(vs, at)
    BY <2>1
  <2> HIDE DEF vs, at
  <2>5. QED
    BY <2>2, <2>3, <2>4, AddVarsFits
<1>4. ASSUME NEW i \in DOMAIN rows, NEW how \in {"plain", "toggle", "range"}, PressRow(i, how)
      PROVE  ViewerInv'
  <2>1. /\ Act /\ UNCHANGED timeVars /\ frame' = frame /\ timer' = timer /\ store' = store
        /\ drag' = drag \/ drag' = [kind |-> "row", at |-> i]
        /\ SelectRow(i, how) \/ UNCHANGED rowVars
    BY <1>4 DEF PressRow, saveVars
  <2>2. i \in Nat
    BY KeyIs
  <2>3. drag' \in DragType
    BY <1>0, <2>1, <2>2 DEF DragType
  <2>4. RowsFit(run, entries', sel', anchor')
    <3>1. CASE SelectRow(i, how)
      BY <3>1, SelectRowFits
    <3>2. CASE UNCHANGED rowVars
      BY <1>0, <3>2 DEF rowVars
    <3>3. QED
      BY <2>1, <3>1, <3>2
  <2>5. QED
    BY <1>0, <2>1, <2>3, <2>4, RowsOnly
<1>5. ASSUME NEW i \in DOMAIN rows, NEW held \in BOOLEAN, ReleaseRow(i, held)
      PROVE  ViewerInv'
  <2>1. /\ Act /\ UNCHANGED timeVars /\ frame' = frame /\ timer' = timer /\ store' = store /\ drag' = Nothing
        /\ SelectRow(i, "plain") \/ UNCHANGED rowVars
    BY <1>5 DEF ReleaseRow, saveVars
  <2>2. drag' \in DragType
    BY <2>1 DEF DragType, Nothing
  <2>3. RowsFit(run, entries', sel', anchor')
    <3>1. CASE SelectRow(i, "plain")
      BY <3>1, SelectRowFits
    <3>2. CASE UNCHANGED rowVars
      BY <1>0, <3>2 DEF rowVars
    <3>3. QED
      BY <2>1, <3>1, <3>2
  <2>4. QED
    BY <1>0, <2>1, <2>2, <2>3, RowsOnly
<1>6. ASSUME NEW i \in DOMAIN rows, NEW radix \in Radixes, SetRadix(i, radix)
      PROVE  ViewerInv'
  BY <1>6, SetRadixFits
<1>7. ASSUME NEW i \in DOMAIN rows, NEW how \in {"plain", "range"}, PressWave(i, how, view[1] + 1)
      PROVE  ViewerInv'
  <2> DEFINE at == view[1] + 1
  <2>1. at \in Int
    BY <1>0
  <2>2. PressWave(i, how, at)
    BY <1>7
  <2> HIDE DEF at
  <2>3. /\ Act /\ SelectRow(i, how) /\ view' = view /\ markers' = markers /\ snap' = snap /\ frame' = frame
        /\ drag' = drag \/ drag' = [kind |-> "wave", at |-> i]
        /\ \/ cursor' = cursor /\ timer' = timer /\ store' = store
           \/ cursor' = Inside(Snapped(rows[i], at)) /\ timer' = TRUE /\ store' = store
    BY <2>2 DEF PressWave, SaveLater, saveVars
  <2>4. RowsFit(run, entries', sel', anchor')
    BY <2>3, SelectRowFits
  <2>5. i \in Nat /\ Snapped(rows[i], at) \in Int
    BY <2>1, KeyIs, SnappedIs
  <2>6. Inside(Snapped(rows[i], at)) \in 0..run.end
    BY <1>0, <2>5, InsideFits
  <2>7. TimesFit(run, view', cursor', markers', snap')
    BY <1>0, <2>3, <2>6 DEF TimesFit
  <2>8. drag' \in DragType
    BY <1>0, <2>3, <2>5 DEF DragType
  <2>9. timer' \in BOOLEAN /\ store' = store /\ frame' \in FrameType
    BY <1>0, <2>3
  <2>10. QED
    BY <2>3, <2>4, <2>7, <2>8, <2>9, ActFits
<1>8. ASSUME NEW i \in DOMAIN entries, ToggleExpand(i)
      PROVE  ViewerInv'
  BY <1>8, ToggleExpandFits
<1>9. ASSUME RemoveSelected
      PROVE  ViewerInv'
  BY <1>9, RemoveSelectedFits
<1>10. ASSUME NEW down \in BOOLEAN, NEW shift \in BOOLEAN, ArrowKey(down, shift)
       PROVE  ViewerInv'
  <2>1. PICK to, how : SelectRow(to, how)
    BY <1>10 DEF ArrowKey
  <2>2. Act /\ UNCHANGED timeVars /\ frame' = frame /\ timer' = timer /\ store' = store /\ drag' = drag
    BY <1>10 DEF ArrowKey, saveVars
  <2>3. RowsFit(run, entries', sel', anchor')
    BY <2>1, SelectRowFits
  <2>4. QED
    BY <1>0, <2>2, <2>3, RowsOnly
<1>11. ASSUME NEW all \in BOOLEAN, SelectAllOrNone(all)
       PROVE  ViewerInv'
  <2> DEFINE keys == {KeyOf(r) : r \in Range(rows)}
  <2>1. /\ Act /\ UNCHANGED timeVars /\ frame' = frame /\ timer' = timer /\ store' = store /\ drag' = drag
        /\ entries' = entries /\ anchor' = anchor /\ sel' = IF all THEN keys ELSE {}
    BY <1>11 DEF SelectAllOrNone, saveVars
  <2>2. keys \subseteq Nat \X Nat
    <3>1. \A r \in Range(rows) : KeyOf(r) \in Nat \X Nat
      BY <1>0, JumpRowsTyped, RowFacts
    <3>2. QED
      BY <3>1
  <2> HIDE DEF keys
  <2>3. RowsFit(run, entries', sel', anchor')
    BY <1>0, <2>1, <2>2 DEF RowsFit
  <2>4. QED
    BY <1>0, <2>1, <2>3, RowsOnly
<1>12. ASSUME DragWave(view[2] - 1)
       PROVE  ViewerInv'
  <2> DEFINE at == view[2] - 1
             t == IF drag.at \in DOMAIN rows THEN Snapped(rows[drag.at], at) ELSE at
  <2>1. at \in Int
    BY <1>0
  <2>2. Act /\ drag' = drag /\ SetCursor(t, FALSE)
    BY <1>12 DEF DragWave
  <2> HIDE DEF at
  <2>3. t \in Int
    BY <2>1, KeyIs, SnappedIs
  <2> HIDE DEF t
  <2>4. QED
    BY <2>2, <2>3, CursorSteps
<1>13. QED
  BY <1>1, <1>2, <1>3, <1>4, <1>5, <1>6, <1>7, <1>8, <1>9, <1>10, <1>11, <1>12 DEF RowStep

LEMMA FrameStepKeeps ==
  ASSUME ViewerInv, run # NoRun, FrameStep
  PROVE  ViewerInv'
<1>0. /\ run \in Runs /\ TimesFit(run, view, cursor, markers, snap) /\ RowsFit(run, entries, sel, anchor)
      /\ frame \in FrameType /\ timer \in BOOLEAN /\ drag \in DragType /\ view[1] \in Int /\ view[2] \in Int
      /\ 0 <= view[1] /\ drag.at \in Nat /\ Span \in Int
  BY OpenFacts
<1>1. ASSUME NEW s \in DOMAIN run.below, ClickScope(s)
      PROVE  ViewerInv'
  <2>1. s \in STRING
    BY <1>0, RunFacts DEF IsTree
  <2>2. /\ Act /\ frame' = [frame EXCEPT !.scope = s] /\ timer' = TRUE /\ store' = store
        /\ UNCHANGED timeVars /\ UNCHANGED rowVars /\ drag' = drag
    BY <1>1 DEF ClickScope, SaveLater
  <2>3. frame' \in FrameType
    BY <1>0, <2>1, <2>2 DEF FrameType
  <2>4. RowsFit(run, entries', sel', anchor') /\ TimesFit(run, view', cursor', markers', snap')
    BY <1>0, <2>2 DEF rowVars, timeVars
  <2>5. QED
    BY <1>0, <2>2, <2>3, <2>4, ActFits
<1>2. ASSUME TogglePanes
      PROVE  ViewerInv'
  <2>1. /\ Act /\ frame' = [frame EXCEPT !.panes = ~@] /\ timer' = TRUE /\ store' = store
        /\ UNCHANGED timeVars /\ UNCHANGED rowVars /\ drag' = drag
    BY <1>2 DEF TogglePanes, SaveLater
  <2>2. frame' \in FrameType
    BY <1>0, <2>1 DEF FrameType
  <2>3. RowsFit(run, entries', sel', anchor') /\ TimesFit(run, view', cursor', markers', snap')
    BY <1>0, <2>1 DEF rowVars, timeVars
  <2>4. QED
    BY <1>0, <2>1, <2>2, <2>3, ActFits
<1>3. ASSUME NEW kind \in {"bar", "split"}, Grab(kind)
      PROVE  ViewerInv'
  <2>1. /\ Act /\ drag' = [kind |-> kind, at |-> view[1]] /\ timer' = timer /\ store' = store
        /\ UNCHANGED timeVars /\ UNCHANGED rowVars /\ frame' = frame
    BY <1>3 DEF Grab, saveVars
  <2>2. drag' \in DragType
    <3>1. view[1] \in Nat
      BY <1>0
    <3>2. QED
      BY <2>1, <3>1 DEF DragType
  <2>3. RowsFit(run, entries', sel', anchor')
    BY <1>0, <2>1 DEF rowVars
  <2>4. QED
    BY <1>0, <2>1, <2>2, <2>3, RowsOnly
<1>4. ASSUME NEW d \in {-1, 1}, DragBar(d)
      PROVE  ViewerInv'
  <2> DEFINE a == drag.at + d  b == drag.at + d + Span
  <2>1. a \in Int /\ b \in Int
    BY <1>0
  <2>2. /\ Act /\ view' = Clamped(a, b) /\ cursor' = cursor /\ markers' = markers /\ snap' = snap
        /\ UNCHANGED rowVars /\ frame' = frame /\ drag' = drag /\ timer' = timer /\ store' = store
    BY <1>4 DEF DragBar, saveVars
  <2> HIDE DEF a, b
  <2>3. Viewport(view', LastTime(run))
    BY <1>0, <2>1, <2>2, ClampedFits
  <2>4. RowsFit(run, entries', sel', anchor') /\ TimesFit(run, view', cursor', markers', snap')
    BY <1>0, <2>2, <2>3 DEF rowVars, TimesFit
  <2>5. QED
    BY <1>0, <2>2, <2>4, ActFits
<1>5. ASSUME DragSplit
      PROVE  ViewerInv'
  <2>1. /\ Act /\ frame' = [frame EXCEPT !.wide = ~@] /\ timer' = timer /\ store' = store
        /\ UNCHANGED timeVars /\ UNCHANGED rowVars /\ drag' = drag
    BY <1>5 DEF DragSplit, saveVars
  <2>2. frame' \in FrameType
    BY <1>0, <2>1 DEF FrameType
  <2>3. RowsFit(run, entries', sel', anchor') /\ TimesFit(run, view', cursor', markers', snap')
    BY <1>0, <2>1 DEF rowVars, timeVars
  <2>4. QED
    BY <1>0, <2>1, <2>2, <2>3, ActFits
<1>6. ASSUME LetGo
      PROVE  ViewerInv'
  <2>1. /\ Act /\ drag' = Nothing /\ timer' \in {timer, TRUE} /\ store' = store
        /\ UNCHANGED timeVars /\ UNCHANGED rowVars /\ frame' = frame
    BY <1>6 DEF LetGo, saveVars, SaveLater
  <2>2. drag' \in DragType
    BY <2>1 DEF DragType, Nothing
  <2>3. RowsFit(run, entries', sel', anchor')
    BY <1>0, <2>1 DEF rowVars
  <2>4. timer' \in BOOLEAN
    BY <1>0, <2>1
  <2>5. QED
    BY <2>1, <2>2, <2>3, <2>4, RowsOnly
<1>7. QED
  BY <1>1, <1>2, <1>3, <1>4, <1>5, <1>6 DEF FrameStep

-----------------------------------------------------------------------------
(* Opening, saving, closing.                                                *)

\* What a new page makes of the rows that were kept.
LEMMA KeptEntries ==
  ASSUME NEW r \in Runs, NEW keep, KeptConfig(keep)
  PROVE  LET known == Only(keep.rows, {k \in Range(keep.rows) : \E v \in Range(r.vars) : v.path = k.path})
             es == Kept(r, keep)
         IN /\ Entries(es, Range(r.vars))
            /\ known \in Seq([path : STRING, radix : Radixes \cup {"sdec", "hex"}, expanded : BOOLEAN])
            /\ DOMAIN es = DOMAIN known /\ (es = <<>> <=> known = <<>>)
            /\ \A i \in DOMAIN known : /\ es[i].v.path = known[i].path /\ es[i].radix = known[i].radix
                                       /\ es[i].expanded = known[i].expanded
<1> DEFINE RowKept == [path : STRING, radix : Radixes \cup {"sdec", "hex"}, expanded : BOOLEAN]
           S == {k \in Range(keep.rows) : \E i \in DOMAIN r.vars : r.vars[i].path = k.path}
           known == Only(keep.rows, S)
           at(p) == {i \in DOMAIN r.vars : r.vars[i].path = p}
           var(p) == r.vars[Max(at(p))]
           es == Kept(r, keep)
<1>1. S = {k \in Range(keep.rows) : \E v \in Range(r.vars) : v.path = k.path}
  BY DEF Range
<1>2. keep.rows \in Seq(RowKept)
  BY DEF KeptConfig, ConfigType
<1>3. known \in Seq(RowKept) /\ Range(known) \subseteq S
  <2> HIDE DEF S
  <2>1. QED
    BY <1>2, OnlyPicks, OnlyRange
<1>4. es = [i \in DOMAIN known |-> [EntryFor(var(known[i].path), i) EXCEPT
              !.radix = known[i].radix, !.expanded = known[i].expanded]]
  BY DEF Kept
<1>5. Len(r.vars) \in Nat /\ DOMAIN r.vars = 1..Len(r.vars) /\ \A i \in DOMAIN r.vars : r.vars[i] \in Var
  <2>1. r.vars \in Seq(Var)
    BY RunFacts
  <2>2. QED
    BY <2>1, LenProperties, ElementOfSeq
<1>6. ASSUME NEW i \in DOMAIN known
      PROVE  /\ var(known[i].path) \in Var /\ var(known[i].path) \in Range(r.vars)
             /\ var(known[i].path).path = known[i].path
  <2> DEFINE p == known[i].path  T == at(p)
  <2>1. known[i] \in S
    BY <1>3 DEF Range
  <2>2. T # {} /\ T \subseteq DOMAIN r.vars
    BY <2>1
  <2> DEFINE n == Len(r.vars)
  <2>3. n \in Nat /\ T \in SUBSET (0..n)
    BY <1>5, <2>2
  <2>4. \A j \in T : r.vars[j].path = p
    OBVIOUS
  <2> HIDE DEF T, n, p
  <2>5. Max(T) \in T
    BY <2>2, <2>3, MaxThere
  <2>6. r.vars[Max(T)] \in Var /\ r.vars[Max(T)] \in Range(r.vars) /\ r.vars[Max(T)].path = p
    BY <1>5, <2>2, <2>4, <2>5 DEF Range
  <2>7. QED
    BY <2>6 DEF T, p
<1> HIDE DEF S, var
<1>7. Len(known) \in Nat /\ DOMAIN known = 1..Len(known) /\ \A i \in DOMAIN known : known[i] \in RowKept
  <2> HIDE DEF known, RowKept
  <2>1. QED
    BY <1>3, LenProperties, ElementOfSeq
<1> HIDE DEF known, es
<1>8. DOMAIN es = DOMAIN known
  BY <1>4
<1>9. ASSUME NEW i \in DOMAIN known
      PROVE  /\ es[i] \in EntryType /\ es[i].id = i /\ es[i].v = var(known[i].path)
             /\ es[i].radix = known[i].radix /\ es[i].expanded = known[i].expanded
  <2> DEFINE v == var(known[i].path)
  <2>1. v \in Var
    BY <1>6
  <2>2. i \in Nat /\ known[i].radix \in Radixes \cup {"sdec", "hex"} /\ known[i].expanded \in BOOLEAN
    BY <1>7
  <2>3. es[i] = [EntryFor(v, i) EXCEPT !.radix = known[i].radix, !.expanded = known[i].expanded]
    BY <1>4
  <2> HIDE DEF v
  <2>4. es[i] = [id |-> i, v |-> v, radix |-> known[i].radix, expanded |-> known[i].expanded]
    BY <2>3 DEF EntryFor
  <2>5. QED
    BY <2>1, <2>2, <2>4 DEF EntryType, v
<1>10. es \in Seq(EntryType)
  <2> DEFINE n == Len(known)
  <2>1. n \in Nat /\ DOMAIN known = 1..n
    BY <1>7
  <2> HIDE DEF n
  <2>2. es \in [1..n -> EntryType]
    BY <1>4, <1>9, <2>1
  <2>3. QED
    BY <2>1, <2>2, IsSeq
<1>11. Entries(es, Range(r.vars))
  <2>1. \A i \in DOMAIN es : es[i].v \in Range(r.vars)
    BY <1>6, <1>8, <1>9
  <2>2. \A i, j \in DOMAIN es : i # j => es[i].id # es[j].id
    BY <1>8, <1>9
  <2>3. QED
    BY <1>10, <2>1, <2>2 DEF Entries
<1>12. es = <<>> <=> known = <<>>
  <2>1. es = <<>> <=> DOMAIN es = {}
    BY <1>10
  <2>2. known = <<>> <=> DOMAIN known = {}
    BY <1>3
  <2>3. QED
    BY <1>8, <2>1, <2>2
<1>13. \A i \in DOMAIN known : /\ es[i].v.path = known[i].path /\ es[i].radix = known[i].radix
                               /\ es[i].expanded = known[i].expanded
  BY <1>6, <1>9
<1>14. QED
  BY <1>1, <1>3, <1>8, <1>11, <1>12, <1>13 DEF known, es

-----------------------------------------------------------------------------
(* The way down the scopes.                                                 *)

Ends(r, s) == VarsOf(r, s) # <<>> \/ r.below[s] = <<>>

\* The scopes on the way, from root.
DownBy(f, r, root) ==
  f = [n \in 0..Cardinality(DOMAIN r.below) |->
        IF n = 0 THEN root
        ELSE LET s == f[n - 1] IN
             IF VarsOf(r, s) # <<>> \/ r.below[s] = <<>> THEN s ELSE Below(r, s)]

\* The next scope lies deeper.
LEMMA BelowIs ==
  ASSUME NEW r \in Runs, NEW s \in DOMAIN r.below, r.below[s] # <<>>
  PROVE  Below(r, s) \in Range(r.below[s]) /\ Below(r, s) \in DOMAIN r.below
<1> DEFINE D == DOMAIN r.below  cs == r.below[s]
           S == {c \in Range(cs) : VarsOf(r, c) # <<>>}
           with == Only(cs, S)
<1>1. cs \in Seq(D) /\ cs # <<>>
  BY RunFacts DEF IsTree
<1>2. Below(r, s) = IF with # <<>> THEN Head(with) ELSE Head(cs)
  BY DEF Below
<1> HIDE DEF D, cs, S
<1>3. with \in Seq(D) /\ Range(with) \subseteq Range(cs)
  BY <1>1, OnlyPicks, OnlyRange
<1> HIDE DEF with
<1>4. Head(cs) \in Range(cs)
  <2>1. 1 \in DOMAIN cs /\ Head(cs) = cs[1]
    BY <1>1
  <2>2. QED
    BY <2>1 DEF Range
<1>5. with # <<>> => Head(with) \in Range(with)
  <2> SUFFICES ASSUME with # <<>> PROVE Head(with) \in Range(with)
    OBVIOUS
  <2>1. 1 \in DOMAIN with /\ Head(with) = with[1]
    BY <1>3
  <2>2. QED
    BY <2>1 DEF Range
<1>6. Range(cs) \subseteq D
  BY <1>1, LenProperties DEF Range
<1>7. Below(r, s) \in Range(cs)
  BY <1>2, <1>3, <1>4, <1>5
<1>8. QED
  BY <1>6, <1>7 DEF cs, D

\* The way down the scopes, one step at a time.
LEMMA DownIs ==
  ASSUME NEW r \in Runs, NEW root \in DOMAIN r.below, NEW g, DownBy(g, r, root)
  PROVE  LET n == Cardinality(DOMAIN r.below) IN g[n] \in DOMAIN r.below /\ Ends(r, g[n])
<1> DEFINE N == Cardinality(DOMAIN r.below)  D == DOMAIN r.below
<1>1. /\ N \in Nat /\ r.below \in [D -> Seq(D)]
      /\ \E depth \in [D -> 0..(N - 1)] : \A p \in D : \A c \in Range(r.below[p]) : depth[p] < depth[c]
  <2>1. IsTree(r.below)
    BY RunFacts
  <2>2. IsFiniteSet(D) /\ r.below \in [D -> Seq(D)]
    BY <2>1 DEF IsTree
  <2>3. N \in Nat
    BY <2>2, FS_CardinalityType
  <2>4. QED
    BY <2>1, <2>2, <2>3 DEF IsTree
<1>2. PICK depth \in [D -> 0..(N - 1)] : \A p \in D : \A c \in Range(r.below[p]) : depth[p] < depth[c]
  BY <1>1
<1>3. \A n \in 0..N : g[n] = IF n = 0 THEN root ELSE IF Ends(r, g[n - 1]) THEN g[n - 1] ELSE Below(r, g[n - 1])
  BY DEF DownBy, Ends
<1> HIDE DEF N, D
<1> DEFINE In == {n \in Nat : g[n] \in D /\ (Ends(r, g[n]) \/ depth[g[n]] >= n)}
<1>4. 0 \in In
  <2>1. g[0] = root /\ root \in D
    BY <1>1, <1>3 DEF D
  <2>2. depth[root] \in 0..(N - 1)
    BY <2>1
  <2>3. depth[root] >= 0
    BY <1>1, <2>2
  <2>4. QED
    BY <2>1, <2>3
<1>5. ASSUME NEW n \in 0..(N - 1), n \in In PROVE n + 1 \in In
  <2>1. n + 1 \in 0..N /\ n + 1 # 0 /\ (n + 1) - 1 = n /\ n + 1 \in Nat /\ n \in Nat
    BY <1>1
  <2>2. g[n + 1] = IF Ends(r, g[n]) THEN g[n] ELSE Below(r, g[n])
    BY <1>3, <2>1
  <2>3. g[n] \in D /\ (Ends(r, g[n]) \/ depth[g[n]] >= n)
    BY <1>5
  <2>4. CASE Ends(r, g[n])
    BY <2>1, <2>2, <2>3, <2>4
  <2>5. CASE ~Ends(r, g[n])
    <3> DEFINE s == g[n]  c == Below(r, s)
    <3>1. s \in D /\ r.below[s] # <<>> /\ depth[s] >= n
      BY <2>3, <2>5 DEF Ends
    <3>2. c \in Range(r.below[s]) /\ c \in D
      BY <3>1, BelowIs DEF D
    <3>3. depth[s] < depth[c] /\ depth[s] \in 0..(N - 1) /\ depth[c] \in 0..(N - 1)
      BY <1>2, <3>1, <3>2
    <3>4. g[n + 1] = c
      BY <2>2, <2>5
    <3> HIDE DEF s, c
    <3>5. depth[c] >= n + 1
      BY <1>1, <2>1, <3>1, <3>3
    <3>6. QED
      BY <2>1, <3>2, <3>4, <3>5
  <2>6. QED
    BY <2>4, <2>5
<1> HIDE DEF In
<1>6. N \in In
  <2>1. \A i \in 0..N : i \in In
    BY <1>1, <1>4, <1>5, Climbing
  <2>2. QED
    BY <1>1, <2>1
<1>7. g[N] \in D /\ Ends(r, g[N])
  <2>1. g[N] \in D /\ (Ends(r, g[N]) \/ depth[g[N]] >= N)
    BY <1>6 DEF In
  <2>2. depth[g[N]] \in 0..(N - 1)
    BY <2>1
  <2>3. ~(depth[g[N]] >= N)
    BY <1>1, <2>2
  <2>4. QED
    BY <2>1, <2>3
<1>8. QED
  BY <1>7 DEF N, D

LEMMA DownIsThere ==
  ASSUME NEW r \in Runs, NEW root \in DOMAIN r.below
  PROVE  \E g : DownBy(g, r, root)
<1> DEFINE N == Cardinality(DOMAIN r.below)  D == DOMAIN r.below
<1>1. N \in Nat
  <2>1. IsFiniteSet(D)
    BY RunFacts DEF IsTree
  <2>2. QED
    BY <2>1, FS_CardinalityType
<1>2. ASSUME NEW s \in D PROVE (IF Ends(r, s) THEN s ELSE Below(r, s)) \in D
  BY <1>2, BelowIs DEF Ends
<1> HIDE DEF N, D
<1> DEFINE G == [p \in (1..N) \X D |-> IF Ends(r, p[2]) THEN p[2] ELSE Below(r, p[2])]
<1>3. \A i \in 1..N, s \in D : G[<<i, s>>] = IF Ends(r, s) THEN s ELSE Below(r, s)
  OBVIOUS
<1>4. G \in [(1..N) \X D -> D]
  BY <1>2
<1> HIDE DEF G
<1>5. FoldsFrom(root, N, D, G)
  BY <1>1, <1>4 DEF FoldsFrom, D
<1>6. PICK f \in [0..N -> D] : f[0] = root /\ \A i \in 1..N : f[i] = G[<<i, f[i - 1]>>]
  BY <1>5, Folding
<1>7. \A i \in 1..N : f[i] = IF Ends(r, f[i - 1]) THEN f[i - 1] ELSE Below(r, f[i - 1])
  <2> TAKE i \in 1..N
  <2>1. f[i - 1] \in D
    BY <1>1
  <2>2. QED
    BY <1>3, <1>6, <2>1
<1>8. \A n \in 0..N : f[n] = IF n = 0 THEN root ELSE IF Ends(r, f[n - 1]) THEN f[n - 1] ELSE Below(r, f[n - 1])
  <2>1. \A n \in 0..N : n = 0 \/ n \in 1..N
    BY <1>1
  <2>2. QED
    BY <1>6, <1>7, <2>1
<1>9. DownBy(f, r, root)
  BY <1>8 DEF DownBy, Ends, N
<1>10. QED
  BY <1>9

\* The objects a new page lists are those of a scope where the way down ends.
LEMMA StartScopeIs ==
  ASSUME NEW r \in Runs
  PROVE  StartScope(r) \in DOMAIN r.below /\ StartScope(r) \in STRING /\ Ends(r, StartScope(r))
<1> DEFINE root == ""  g == CHOOSE f : DownBy(f, r, root)  n == Cardinality(DOMAIN r.below)
<1>1. StartScope(r) = g[n]
  BY DEF StartScope, DownBy
<1>2. root \in DOMAIN r.below /\ DOMAIN r.below \subseteq STRING
  BY RunFacts DEF IsTree
<1> HIDE DEF root
<1>3. DownBy(g, r, root)
  BY <1>2, DownIsThere
<1> HIDE DEF g
<1>4. g[n] \in DOMAIN r.below /\ Ends(r, g[n])
  BY <1>2, <1>3, DownIs
<1>5. QED
  BY <1>1, <1>2, <1>4

\* And it is empty only when that scope is.
LEMMA StartVarsAre ==
  ASSUME NEW r \in Runs
  PROVE  /\ StartVars(r) \in Seq(Var) /\ Range(StartVars(r)) \subseteq Range(r.vars)
         /\ StartVars(r) = <<>> => VarsOf(r, StartScope(r)) = <<>> /\ r.below[StartScope(r)] = <<>>
<1> DEFINE s == StartScope(r)
<1>1. Ends(r, s)
  BY StartScopeIs
<1>2. StartVars(r) = IF Addable(r, s) # <<>> THEN Addable(r, s) ELSE VarsOf(r, s)
  BY DEF StartVars
<1> HIDE DEF s
<1>3. /\ VarsOf(r, s) \in Seq(Var) /\ Range(VarsOf(r, s)) \subseteq Range(r.vars)
      /\ Addable(r, s) \in Seq(Var) /\ Range(Addable(r, s)) \subseteq Range(r.vars)
  BY ScopeVars
<1>4. StartVars(r) = <<>> => VarsOf(r, s) = <<>>
  BY <1>2
<1>5. StartVars(r) \in Seq(Var) /\ Range(StartVars(r)) \subseteq Range(r.vars)
  BY <1>2, <1>3
<1>6. QED
  BY <1>1, <1>4, <1>5 DEF Ends, s

\* What a new page shows of what an earlier one kept.
TakesOver(r) ==
  LET kept == Only(store.rows, {k \in Range(store.rows) : \E v \in Range(r.vars) : v.path = k.path})
  IN /\ kept # <<>> => Config'.rows = kept
     /\ kept = <<>> /\ entries' = <<>> =>
          r.below[StartScope(r)] = <<>> /\ VarsOf(r, StartScope(r)) = <<>>
     /\ Range(markers') = {m \in Range(store.markers) : m <= LastTime(r)}
     /\ store.view[2] <= LastTime(r) => view' = store.view
     /\ store.cursor <= r.end => cursor' = store.cursor
     /\ KeptView(r, view') = view'

\* What a new page shows lies in its run.
LEMMA NewPageFits ==
  ASSUME ViewerInv, NEW r \in Runs, NEW narrow \in BOOLEAN, Open(r, narrow), entries' \in Seq(EntryType),
         TimesFit(r, view', cursor', markers', snap'), Entries(entries', Range(r.vars)), frame' \in FrameType
  PROVE  ViewerInv'
<1>1. run' = r /\ drag' = Nothing /\ sel' = {} /\ anchor' = 0 /\ timer' = TRUE /\ store' = store /\ acts' = acts
  BY DEF Open, SaveLater
<1>2. r # NoRun
  BY RunFacts
<1>3. RowsFit(run', entries', sel', anchor')
  BY <1>1 DEF RowsFit
<1>4. TimesFit(run', view', cursor', markers', snap')
  BY <1>1
<1>5. drag' \in DragType
  BY <1>1 DEF Nothing, DragType
<1>6. acts' \in 0..MaxActs /\ (store' \in {NoConfig, Refused} \/ KeptConfig(store'))
  BY <1>1 DEF ViewerInv
<1>7. QED
  BY <1>1, <1>2, <1>3, <1>4, <1>5, <1>6 DEF ViewerInv

\* A page that finds nothing kept.
LEMMA FirstPage ==
  ASSUME ViewerInv, NEW r \in Runs, NEW narrow \in BOOLEAN, Open(r, narrow), store \in {NoConfig, Refused}
  PROVE  ViewerInv'
<1> DEFINE fresh == EntriesFor(StartVars(r), 0)  none == <<>>
<1>1. /\ entries' = fresh /\ markers' = none /\ view' = <<0, LastTime(r)>> /\ cursor' = r.end /\ snap' = TRUE
      /\ frame' = [scope |-> StartScope(r), panes |-> ~narrow, wide |-> ~narrow]
  BY DEF Open
<1>2. Entries(fresh, Range(r.vars))
  <2> DEFINE vs == StartVars(r)
  <2>1. vs \in Seq(Var) /\ Range(vs) \subseteq Range(r.vars)
    BY StartVarsAre
  <2> HIDE DEF vs
  <2>2. Entries(EntriesFor(vs, 0), Range(vs))
    BY <2>1, NewEntries
  <2>3. QED
    BY <2>1, <2>2, EntriesWiden DEF vs
<1>3. Ordered(none) /\ Range(none) = {}
  BY DEF Ordered, Range
<1>4. r.end \in Nat /\ LastTime(r) \in Nat /\ LastTime(r) > 0 /\ StartScope(r) \in STRING
  BY RunFacts, StartScopeIs
<1> HIDE DEF fresh, none
<1>5. TimesFit(r, view', cursor', markers', snap')
  BY <1>1, <1>3, <1>4 DEF TimesFit, Viewport
<1>6. frame' \in FrameType
  BY <1>1, <1>4 DEF FrameType
<1>7. entries' \in Seq(EntryType) /\ Entries(entries', Range(r.vars))
  BY <1>1, <1>2 DEF Entries
<1>8. QED
  BY <1>5, <1>6, <1>7, NewPageFits

\* A page that finds something kept.
LEMMA NextPage ==
  ASSUME ViewerInv, NEW r \in Runs, NEW narrow \in BOOLEAN, Open(r, narrow), store \notin {NoConfig, Refused}
  PROVE  ViewerInv' /\ TakesOver(r)
<1> DEFINE kept == Only(store.rows, {k \in Range(store.rows) : \E v \in Range(r.vars) : v.path = k.path})
           es == Kept(r, store)
           fresh == EntriesFor(StartVars(r), 0)
           RowKept == [path : STRING, radix : Radixes \cup {"sdec", "hex"}, expanded : BOOLEAN]
           ms == Only(store.markers, 0..LastTime(r))
           z == KeptView(r, store.view)
<1>0. KeptConfig(store)
  BY DEF ViewerInv
<1>1. /\ entries' = (IF es # <<>> THEN es ELSE fresh) /\ markers' = ms /\ view' = z
      /\ cursor' = (IF store.cursor <= r.end THEN store.cursor ELSE r.end) /\ snap' = store.snap
      /\ frame' = [store.frame EXCEPT !.scope = IF @ \in DOMAIN r.below THEN @ ELSE StartScope(r)]
  <2>1. ~(store \in {NoConfig, Refused})
    OBVIOUS
  <2>2. store.snap \in BOOLEAN
    BY <1>0 DEF KeptConfig, ConfigType
  <2>3. entries' = (IF es # <<>> THEN es ELSE fresh)
    BY <2>1 DEF Open
  <2>4. markers' = ms /\ view' = z
    BY <2>1 DEF Open
  <2>5. cursor' = (IF store.cursor <= r.end THEN store.cursor ELSE r.end)
    BY <2>1 DEF Open
  <2>6. snap' = store.snap
    BY <2>1, <2>2 DEF Open
  <2>7. frame' = [store.frame EXCEPT !.scope = IF @ \in DOMAIN r.below THEN @ ELSE StartScope(r)]
    BY <2>1 DEF Open
  <2>8. QED
    BY <2>3, <2>4, <2>5, <2>6, <2>7
<1>2. KeptConfig(store)
  BY DEF ViewerInv
<1>3. /\ store.view \in Nat \X Nat /\ store.view[1] < store.view[2] /\ store.cursor \in Nat /\ store.snap \in BOOLEAN
      /\ Ordered(store.markers) /\ store.frame \in FrameType
  BY <1>2 DEF KeptConfig, ConfigType, FrameType
<1>4. r.end \in Nat /\ LastTime(r) \in Nat /\ r.end <= LastTime(r) /\ StartScope(r) \in STRING
  BY RunFacts, StartScopeIs
<1>5. /\ Entries(es, Range(r.vars)) /\ kept \in Seq(RowKept)
      /\ DOMAIN es = DOMAIN kept /\ (es = <<>> <=> kept = <<>>)
      /\ \A i \in DOMAIN kept : /\ es[i].v.path = kept[i].path /\ es[i].radix = kept[i].radix
                                /\ es[i].expanded = kept[i].expanded
  BY <1>2, KeptEntries
<1>6. Entries(fresh, Range(r.vars)) /\ (fresh = <<>> => StartVars(r) = <<>>)
  <2> DEFINE vs == StartVars(r)
  <2>1. vs \in Seq(Var) /\ Range(vs) \subseteq Range(r.vars)
    BY StartVarsAre
  <2> HIDE DEF vs
  <2>2. Entries(EntriesFor(vs, 0), Range(vs)) /\ DOMAIN EntriesFor(vs, 0) = DOMAIN vs
    BY <2>1, NewEntries
  <2>3. Entries(EntriesFor(vs, 0), Range(r.vars))
    BY <2>1, <2>2, EntriesWiden
  <2>4. EntriesFor(vs, 0) = <<>> => vs = <<>>
    BY <2>1, <2>2
  <2>5. QED
    BY <2>3, <2>4 DEF vs
<1>7. Ordered(ms) /\ Range(ms) = Range(store.markers) \cap 0..LastTime(r)
  BY <1>3, OnlyOrdered
<1>8. /\ Viewport(z, LastTime(r)) /\ KeptView(r, z) = z
      /\ store.view[2] <= LastTime(r) => z = store.view
  <2> DEFINE y == store.view
  <2>1. y \in Nat \X Nat /\ y[1] < y[2]
    BY <1>3
  <2> HIDE DEF y
  <2>2. Viewport(KeptView(r, y), LastTime(r)) /\ KeptView(r, KeptView(r, y)) = KeptView(r, y)
        /\ (y[2] <= LastTime(r) => KeptView(r, y) = y)
    BY <2>1, KeptViewFits
  <2>3. QED
    BY <2>2 DEF y
<1>9. Range(markers') = {m \in Range(store.markers) : m <= LastTime(r)}
  <2>1. \A m \in Range(store.markers) : m \in Nat
    BY <1>3, LenProperties DEF Ordered, Range
  <2> HIDE DEF ms
  <2>2. QED
    BY <1>1, <1>4, <1>7, <2>1
<1>10. kept # <<>> => Config'.rows = kept
  <2> SUFFICES ASSUME kept # <<>> PROVE Config'.rows = kept
    OBVIOUS
  <2> DEFINE shown == [i \in DOMAIN entries' |->
                        [path |-> entries'[i].v.path, radix |-> entries'[i].radix, expanded |-> entries'[i].expanded]]
  <2>1. Config'.rows = shown
    BY DEF Config
  <2> HIDE DEF kept, es, RowKept
  <2>2. entries' = es
    BY <1>1, <1>5
  <2>3. \A i \in DOMAIN kept : kept[i] \in RowKept
    BY <1>5, LenProperties, ElementOfSeq
  <2>4. \A i \in DOMAIN kept : kept[i] = [path |-> kept[i].path, radix |-> kept[i].radix, expanded |-> kept[i].expanded]
    BY <2>3 DEF RowKept
  <2>5. \A i \in DOMAIN kept : shown[i] = kept[i]
    BY <1>5, <2>2, <2>4
  <2>6. DOMAIN shown = DOMAIN kept /\ shown = [i \in DOMAIN kept |-> shown[i]]
    BY <1>5, <2>2
  <2>7. kept = [i \in DOMAIN kept |-> kept[i]]
    BY <1>5
  <2> HIDE DEF shown
  <2>8. QED
    BY <2>1, <2>5, <2>6, <2>7
<1>11. kept = <<>> /\ entries' = <<>> => r.below[StartScope(r)] = <<>> /\ VarsOf(r, StartScope(r)) = <<>>
  <2> HIDE DEF kept, es, fresh
  <2>1. kept = <<>> /\ entries' = <<>> => StartVars(r) = <<>>
    BY <1>1, <1>5, <1>6
  <2>2. QED
    BY <2>1, StartVarsAre
<1>12. TakesOver(r)
  <2>1. store.view[2] <= LastTime(r) => view' = store.view
    BY <1>1, <1>8
  <2>2. store.cursor <= r.end => cursor' = store.cursor
    BY <1>1
  <2>3. KeptView(r, view') = view'
    BY <1>1, <1>8
  <2>4. QED
    BY <1>9, <1>10, <1>11, <2>1, <2>2, <2>3 DEF TakesOver
<1> HIDE DEF kept, es, fresh, RowKept, ms, z
<1>13. TimesFit(r, view', cursor', markers', snap')
  <2>1. cursor' \in 0..r.end
    BY <1>1, <1>3, <1>4
  <2>2. Range(markers') \subseteq 0..LastTime(r)
    BY <1>1, <1>7
  <2>3. QED
    BY <1>1, <1>3, <1>7, <1>8, <2>1, <2>2 DEF TimesFit
<1>14. frame' \in FrameType
  BY <1>1, <1>3, <1>4 DEF FrameType
<1>15. entries' \in Seq(EntryType) /\ Entries(entries', Range(r.vars))
  BY <1>1, <1>5, <1>6 DEF Entries
<1>16. ViewerInv'
  BY <1>13, <1>14, <1>15, NewPageFits
<1>17. QED
  BY <1>12, <1>16

LEMMA SaveKeeps ==
  ASSUME ViewerInv, Save
  PROVE  ViewerInv'
<1>1. /\ timer /\ timer' = FALSE /\ store' = (IF store = Refused THEN Refused ELSE Config)
      /\ run' = run /\ UNCHANGED timeVars /\ UNCHANGED rowVars /\ frame' = frame /\ drag' = drag /\ acts' = acts
  BY DEF Save
<1>2. run # NoRun
  BY <1>1 DEF ViewerInv
<1>3. /\ run \in Runs /\ TimesFit(run, view, cursor, markers, snap) /\ RowsFit(run, entries, sel, anchor)
      /\ frame \in FrameType /\ drag \in DragType
  BY <1>2, OpenFacts
<1>4. KeptConfig(Config)
  <2> DEFINE RowKept == [path : STRING, radix : Radixes \cup {"sdec", "hex"}, expanded : BOOLEAN]
             kept == [i \in DOMAIN entries |->
                      [path |-> entries[i].v.path, radix |-> entries[i].radix, expanded |-> entries[i].expanded]]
  <2>1. entries \in Seq(EntryType)
    BY <1>3 DEF RowsFit, Entries
  <2>2. Len(entries) \in Nat /\ DOMAIN entries = 1..Len(entries) /\ \A i \in DOMAIN entries : entries[i] \in EntryType
    BY <2>1, LenProperties, ElementOfSeq
  <2>3. \A i \in DOMAIN entries : kept[i] \in RowKept
    BY <2>2 DEF EntryType, Var
  <2>4. kept \in Seq(RowKept)
    <3> DEFINE n == Len(entries)
    <3>1. n \in Nat /\ DOMAIN entries = 1..n /\ kept = [i \in 1..n |-> kept[i]]
      BY <2>2
    <3> HIDE DEF n, kept, RowKept
    <3>2. kept \in [1..n -> RowKept]
      BY <2>3, <3>1
    <3>3. QED
      BY <3>1, <3>2, IsSeq
  <2> HIDE DEF kept
  <2>5. Config = [rows |-> kept, markers |-> markers, view |-> view, cursor |-> cursor, snap |-> snap, frame |-> frame]
    BY DEF Config, kept
  <2>6. /\ markers \in Seq(Nat) /\ Ordered(markers) /\ view \in Nat \X Nat /\ view[1] < view[2]
        /\ snap \in BOOLEAN
    BY <1>3 DEF TimesFit, Viewport, Ordered
  <2>7. cursor \in Nat
    BY <1>2, OpenFacts
  <2>8. Config \in ConfigType
    BY <1>3, <2>4, <2>5, <2>6, <2>7 DEF ConfigType, FrameType
  <2>9. Config.view = view /\ Config.markers = markers
    BY <2>5
  <2>10. QED
    BY <2>6, <2>8, <2>9 DEF KeptConfig
<1>5. store' \in {NoConfig, Refused} \/ KeptConfig(store')
  BY <1>1, <1>4
<1>6. TimesFit(run', view', cursor', markers', snap') /\ RowsFit(run', entries', sel', anchor')
  BY <1>1, <1>3 DEF timeVars, rowVars
<1>7. acts \in 0..MaxActs
  BY DEF ViewerInv
<1>8. QED
  BY <1>1, <1>2, <1>3, <1>5, <1>6, <1>7 DEF ViewerInv

LEMMA ViewerStarts ==
  ASSUME ViewerInit
  PROVE  ViewerInv
<1>1. /\ run = NoRun /\ timer = FALSE /\ drag = Nothing /\ acts = 0
      /\ entries = <<>> /\ sel = {} /\ anchor = 0 /\ store \in {NoConfig, Refused}
  BY Zenon DEF ViewerInit
<1>2. acts \in 0..MaxActs
  BY <1>1, ViewerAssumption
<1>3. drag \in DragType
  BY <1>1 DEF Nothing, DragType
<1>4. QED
  BY <1>1, <1>2, <1>3 DEF ViewerInv

LEMMA CloseKeeps ==
  ASSUME ViewerInv, Close
  PROVE  ViewerInv'
<1>1. /\ run' = NoRun /\ timer' = FALSE /\ drag' = Nothing /\ acts' = acts
      /\ entries' = <<>> /\ sel' = {} /\ anchor' = 0 /\ store' = store
  BY Zenon DEF Close
<1>2. drag' \in DragType
  BY <1>1 DEF Nothing, DragType
<1>3. acts' \in 0..MaxActs /\ (store' \in {NoConfig, Refused} \/ KeptConfig(store'))
  BY <1>1 DEF ViewerInv
<1>4. QED
  BY <1>1, <1>2, <1>3 DEF ViewerInv

LEMMA ViewerKeeps ==
  ASSUME ViewerInv, [ViewerNext]_viewerVars
  PROVE  ViewerInv'
<1>1. CASE UNCHANGED viewerVars
  BY <1>1 DEF viewerVars, ViewerInv
<1>2. CASE ViewerNext
  <2>1. ASSUME NEW r \in Runs, NEW narrow \in BOOLEAN, Open(r, narrow) PROVE ViewerInv'
    BY <2>1, FirstPage, NextPage
  <2>2. CASE Save
    BY <2>2, SaveKeeps
  <2>3. CASE Close
    BY <2>3, CloseKeeps
  <2>4. ASSUME run # NoRun, TimeStep \/ RowStep \/ FrameStep PROVE ViewerInv'
    BY <2>4, TimeStepKeeps, RowStepKeeps, FrameStepKeeps
  <2>5. QED
    BY <1>2, <2>1, <2>2, <2>3, <2>4 DEF ViewerNext
<1>3. QED
  BY <1>1, <1>2

LEMMA ViewerTyped ==
  ASSUME ViewerInv
  PROVE  ViewerTypeOK
<1>1. /\ acts \in 0..MaxActs /\ drag \in [kind : {"nothing", "row", "wave", "bar", "split"}, at : Nat]
      /\ store \in {NoConfig, Refused} \/ store \in ConfigType
  BY DEF ViewerInv, KeptConfig, DragType
<1>2. CASE run = NoRun
  <2>1. entries = <<>> /\ sel = {} /\ anchor = 0
    BY <1>2 DEF ViewerInv
  <2>2. QED
    BY <1>1, <1>2, <2>1 DEF ViewerTypeOK
<1>3. CASE run # NoRun
  <2>1. run \in Runs /\ TimesFit(run, view, cursor, markers, snap) /\ RowsFit(run, entries, sel, anchor)
    BY <1>3, OpenFacts
  <2>2. entries \in Seq([id : Nat, v : Var, radix : Radixes \cup {"sdec", "hex"}, expanded : BOOLEAN])
    BY <2>1 DEF RowsFit, Entries, EntryType
  <2>3. /\ \A i, j \in DOMAIN entries : i # j => entries[i].id # entries[j].id
        /\ sel \subseteq (Nat \X Nat) /\ anchor \in Nat
        /\ \A i \in DOMAIN entries : entries[i].v \in Range(run.vars)
    BY <2>1 DEF RowsFit, Entries
  <2>4. 0 <= view[1] /\ view[1] < view[2] /\ view[2] <= LastTime(run) /\ cursor \in 0..End
    BY <2>1 DEF TimesFit, Viewport, End
  <2>5. \A i \in DOMAIN markers : markers[i] \in 0..LastTime(run) /\ (i > 1 => markers[i - 1] < markers[i])
    <3>1. markers \in Seq(Nat) /\ Range(markers) \subseteq 0..LastTime(run)
          /\ \A i, j \in DOMAIN markers : i < j => markers[i] < markers[j]
      BY <2>1 DEF TimesFit, Ordered
    <3>2. DOMAIN markers = 1..Len(markers) /\ Len(markers) \in Nat
      BY <3>1, LenProperties
    <3>3. \A i \in DOMAIN markers : markers[i] \in 0..LastTime(run)
      BY <3>1 DEF Range
    <3>4. \A i \in DOMAIN markers : i > 1 => i - 1 \in DOMAIN markers /\ i - 1 < i
      BY <3>2
    <3>5. QED
      BY <3>1, <3>3, <3>4
  <2>6. QED
    BY <1>1, <2>1, <2>2, <2>3, <2>4, <2>5 DEF ViewerTypeOK
<1>4. QED
  BY <1>2, <1>3

\* The step of a new page.
LEMMA PageTakesOver ==
  ASSUME ViewerInv, NEW r \in Runs, NEW narrow \in BOOLEAN, Open(r, narrow), store \notin {NoConfig, Refused}
  PROVE  LET kept == Only(store.rows, {k \in Range(store.rows) : \E v \in Range(r.vars) : v.path = k.path})
         IN /\ kept # <<>> => Config'.rows = kept
            /\ kept = <<>> /\ entries' = <<>> =>
                 r.below[StartScope(r)] = <<>> /\ VarsOf(r, StartScope(r)) = <<>>
            /\ Range(markers') = {m \in Range(store.markers) : m <= LastTime(r)}
            /\ store.view[2] <= LastTime(r) => view' = store.view
            /\ store.cursor <= r.end => cursor' = store.cursor
            /\ KeptView(r, view') = view'
<1>1. TakesOver(r)
  BY NextPage
<1>2. QED
  BY <1>1 DEF TakesOver

LEMMA JumpIsNearest ==
  ASSUME ViewerInv, NEW ahead \in BOOLEAN, JumpEdge(ahead)
  PROVE  LET at == {c.t : c \in UNION {Range(SeriesOf(r)) : r \in Range(JumpRows)}}
         IN /\ cursor' \in at /\ cursor' \in view'[1]..view'[2]
            /\ IF ahead THEN cursor' > cursor ELSE cursor' < cursor
            /\ \A t \in at : ~(t > Earlier(cursor, cursor') /\ t < Later(cursor, cursor'))
<1>1. run # NoRun
  BY DEF JumpEdge, Act
<1>2. Jumped(ahead)
  BY <1>1, JumpGoesThere
<1>3. QED
  BY <1>2 DEF Jumped, ChangeTimes

-----------------------------------------------------------------------------
(* The specifications.                                                     *)

\* Whatever is opened, added, dragged, saved and closed, the invariant holds.
THEOREM ViewerCorrect == ViewerSpec => []ViewerInv
<1>1. ViewerInit => ViewerInv
  BY ViewerStarts
<1>2. ViewerInv /\ [ViewerNext]_viewerVars => ViewerInv'
  BY ViewerKeeps
<1>3. QED
  BY <1>1, <1>2, PTL DEF ViewerSpec

\* The window's state stays typed, and its times lie in the run it shows, also when
\* they were kept from a longer or a shorter run.
THEOREM ViewerTypes == ViewerSpec => []ViewerTypeOK
<1>1. ViewerInv => ViewerTypeOK
  BY ViewerTyped
<1>2. QED
  BY <1>1, ViewerCorrect, PTL

\* A new page takes over what an earlier one kept, as far as its run goes.
THEOREM ViewerTakesOver == ViewerSpec => NewRunKeepsWaves
<1> DEFINE TakenOver ==
      \A r \in Runs, narrow \in BOOLEAN :
        (Open(r, narrow) /\ store \notin {NoConfig, Refused}) =>
          LET kept == Only(store.rows, {k \in Range(store.rows) : \E v \in Range(r.vars) : v.path = k.path})
          IN /\ kept # <<>> => Config'.rows = kept
             /\ kept = <<>> /\ entries' = <<>> =>
                  r.below[StartScope(r)] = <<>> /\ VarsOf(r, StartScope(r)) = <<>>
             /\ Range(markers') = {m \in Range(store.markers) : m <= LastTime(r)}
             /\ store.view[2] <= LastTime(r) => view' = store.view
             /\ store.cursor <= r.end => cursor' = store.cursor
             /\ KeptView(r, view') = view'
<1>1. ViewerInv => TakenOver
  BY PageTakesOver
<1> HIDE DEF TakenOver
<1>2. ViewerSpec => [][TakenOver]_viewerVars
  BY <1>1, ViewerCorrect, PTL
<1>3. QED
  BY <1>2, PTL DEF NewRunKeepsWaves, TakenOver

\* A jump ends at the nearest change of the chosen rows, and shows it.
THEOREM ViewerJumps == ViewerSpec => JumpsToNearestChange
<1> DEFINE Nearest ==
      \A ahead \in BOOLEAN :
        JumpEdge(ahead) =>
          LET at == {c.t : c \in UNION {Range(SeriesOf(r)) : r \in Range(JumpRows)}}
          IN /\ cursor' \in at /\ cursor' \in view'[1]..view'[2]
             /\ IF ahead THEN cursor' > cursor ELSE cursor' < cursor
             /\ \A t \in at : ~(t > Earlier(cursor, cursor') /\ t < Later(cursor, cursor'))
<1>1. ViewerInv => Nearest
  BY JumpIsNearest
<1> HIDE DEF Nearest
<1>2. ViewerSpec => [][Nearest]_viewerVars
  BY <1>1, ViewerCorrect, PTL
<1>3. QED
  BY <1>2 DEF JumpsToNearestChange, Nearest

\* Only one of the two moves, and as its own specification lets it.
THEOREM SideBySide == Spec => DumpSpec /\ ViewerSpec
<1>1. Init => DumpInit /\ ViewerInit
  BY DEF Init
<1>2. [Next]_<<dumpVars, viewerVars, part>> => [DumpNext]_dumpVars /\ [ViewerNext]_viewerVars
  <2>1. ASSUME [Next]_<<dumpVars, viewerVars, part>> PROVE [DumpNext]_dumpVars /\ [ViewerNext]_viewerVars
    <3>1. CASE UNCHANGED <<dumpVars, viewerVars, part>>
      BY <3>1
    <3>2. CASE Next
      BY <3>2 DEF Next
    <3>3. QED
      BY <2>1, <3>1, <3>2
  <2>2. QED
    BY <2>1
<1>3. QED
  BY <1>1, <1>2, PTL DEF Spec, DumpSpec, ViewerSpec

\* Both keep their types.
THEOREM WavesTypes == Spec => []WavesTypeOK
<1>1. DumpTypeOK /\ ViewerTypeOK => WavesTypeOK
  BY DEF WavesTypeOK
<1>2. QED
  BY <1>1, SideBySide, DumpTypes, ViewerTypes, PTL

\* The file is shown as it was written, whatever happens in the window.
THEOREM ViewersShowFiles == Spec => []ViewersShowTheFile
BY SideBySide, ViewersShow, PTL

\* The page of a new run keeps the waves, whatever file is read meanwhile.
THEOREM KeepsWaves == Spec => NewRunKeepsWaves
BY SideBySide, ViewerTakesOver, PTL

\* Jumps go to the nearest change, whatever file is read meanwhile.
THEOREM JumpsNearest == Spec => JumpsToNearestChange
BY SideBySide, ViewerJumps, PTL

-----------------------------------------------------------------------------
(* What the browser keeps of the window *)

\* What a handler leaves of the configuration.
SameConfig == UNCHANGED <<entries, view, cursor, markers, snap, frame>>

\* A step saves later, or leaves the configuration alone, or drags a bar or a column:
\* a save clears the timer only with the present configuration in the store.
LEMMA StoreCatches ==
  ASSUME StoreCatchesUp, [ViewerNext]_viewerVars
  PROVE  StoreCatchesUp'
<1>1. ASSUME SameConfig PROVE Config' = Config
  BY <1>1 DEF SameConfig, Config
<1>2. ASSUME timer' = TRUE PROVE StoreCatchesUp'
  BY <1>2 DEF StoreCatchesUp
<1>3. ASSUME run' = run, timer' = timer, store' = store, SameConfig,
             drag.kind \in {"bar", "split"} => drag'.kind \in {"bar", "split"}
      PROVE StoreCatchesUp'
  BY <1>1, <1>3 DEF StoreCatchesUp
<1>4. ASSUME drag'.kind \in {"bar", "split"} PROVE StoreCatchesUp'
  BY <1>4 DEF StoreCatchesUp
<1>5. CASE \E r \in Runs, narrow \in BOOLEAN : Open(r, narrow)
  BY <1>2, <1>5 DEF Open, SaveLater
<1>6. CASE Save
  <2>1. SameConfig /\ run' = run /\ (store' = Refused \/ store' = Config)
    BY <1>6 DEF Save, SameConfig, timeVars, rowVars
  <2>2. QED
    BY <1>1, <2>1 DEF StoreCatchesUp
<1>7. CASE Close
  BY <1>7 DEF Close, StoreCatchesUp
<1>8. CASE run # NoRun /\ TimeStep
  <2>1. SaveLater
    BY <1>8, Zenon DEF TimeStep, Zoom, Fit, Pan, ZoomTo, GoTo, JumpEdge, JumpMarker, AddMarker, ClearMarkers, ToggleSnap, Looks, SetCursor, SetMarkers
  <2>2. QED
    BY <1>2, <2>1 DEF SaveLater
<1>9. CASE run # NoRun /\ RowStep
  <2>1. CASE \E at \in 0..Len(entries) : AddObject(at) \/ DropRows(at)
    BY <1>2, <2>1 DEF AddObject, AddVars, DropRows, Rearranges, SaveLater
  <2>2. CASE AddScope \/ RemoveSelected \/ (\E i \in DOMAIN entries : ToggleExpand(i)) \/ DragWave(view[2] - 1)
    BY <1>2, <2>2 DEF AddScope, AddVars, RemoveSelected, ToggleExpand, DragWave, SetCursor, Looks, Rearranges, SaveLater
  <2>3. ASSUME NEW i \in DOMAIN rows, NEW how, PressRow(i, how) PROVE StoreCatchesUp'
    BY <1>3, <2>3 DEF PressRow, SelectRow, Act, timeVars, saveVars, rowVars, SameConfig, Nothing
  <2>4. ASSUME NEW i \in DOMAIN rows, NEW held, ReleaseRow(i, held) PROVE StoreCatchesUp'
    BY <1>3, <2>4 DEF ReleaseRow, SelectRow, Act, timeVars, saveVars, rowVars, SameConfig
  <2>5. ASSUME NEW i \in DOMAIN rows, NEW radix, SetRadix(i, radix) PROVE StoreCatchesUp'
    BY <1>2, <2>5 DEF SetRadix, Rearranges, SaveLater
  <2>6. ASSUME NEW i \in DOMAIN rows, NEW how, NEW t, PressWave(i, how, t) PROVE StoreCatchesUp'
    <3>1. CASE Fails(i, how)
      BY <1>3, <2>6, <3>1 DEF PressWave, SelectRow, Act, saveVars, SameConfig, Nothing
    <3>2. CASE ~Fails(i, how)
      BY <1>2, <2>6, <3>2 DEF PressWave, SaveLater
    <3>3. QED
      BY <3>1, <3>2
  <2>7. ASSUME NEW down, NEW shift, ArrowKey(down, shift) PROVE StoreCatchesUp'
    BY <1>3, <2>7 DEF ArrowKey, SelectRow, Act, timeVars, saveVars, SameConfig
  <2>8. ASSUME NEW all, SelectAllOrNone(all) PROVE StoreCatchesUp'
    BY <1>3, <2>8 DEF SelectAllOrNone, Act, timeVars, saveVars, SameConfig
  <2>9. QED
    BY <1>9, <2>1, <2>2, <2>3, <2>4, <2>5, <2>6, <2>7, <2>8 DEF RowStep
<1>10. CASE run # NoRun /\ FrameStep
  <2>1. ASSUME NEW kind \in {"bar", "split"}, Grab(kind) PROVE StoreCatchesUp'
    BY <1>4, <2>1 DEF Grab
  <2>2. ASSUME NEW d, DragBar(d) PROVE StoreCatchesUp'
    BY <1>4, <2>2 DEF DragBar
  <2>3. CASE DragSplit
    BY <1>4, <2>3 DEF DragSplit
  <2>4. CASE LetGo
    <3>1. CASE drag.kind = "wave"
      BY <1>3, <2>4, <3>1 DEF LetGo, Act, timeVars, rowVars, saveVars, SameConfig
    <3>2. CASE drag.kind # "wave"
      BY <1>2, <2>4, <3>2 DEF LetGo, SaveLater
    <3>3. QED
      BY <3>1, <3>2
  <2>5. CASE TogglePanes \/ \E s \in DOMAIN run.below : s # "" /\ ClickScope(s)
    BY <1>2, <2>5 DEF TogglePanes, ClickScope, SaveLater
  <2>6. QED
    BY <1>10, <2>1, <2>2, <2>3, <2>4, <2>5 DEF FrameStep
<1>11. CASE UNCHANGED viewerVars
  BY <1>3, <1>11 DEF viewerVars, SameConfig
<1>12. QED
  BY <1>5, <1>6, <1>7, <1>8, <1>9, <1>10, <1>11 DEF ViewerNext

(* No handler of the waveform window changes a part of the configuration and  *)
(* forgets to save it: with no save due and nothing dragged the browser keeps *)
(* what the window shows, for any runs, windows and number of acts.          *)
THEOREM StoreCatchesUpHolds == ViewerSpec => []StoreCatchesUp
<1>1. ViewerInit => StoreCatchesUp
  BY DEF ViewerInit, StoreCatchesUp
<1>2. QED
  BY <1>1, StoreCatches, PTL DEF ViewerSpec
=============================================================================
