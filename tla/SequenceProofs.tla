---------------------------- MODULE SequenceProofs -----------------------------
(***************************************************************************)
(* What the other proofs need of numbers and sequences: induction from the    *)
(* least counterexample, that a recursive function exists and unfolds, what   *)
(* Only keeps of a sequence, and what a cut leaves of one.                   *)
(***************************************************************************)
EXTENDS Filtered, Functions, SequenceTheorems, WellFoundedInduction, TLAPS

-----------------------------------------------------------------------------
(* Induction and recursion, from the least number at which something fails.  *)

\* The least number of a set.
LEMMA LeastOne ==
  ASSUME NEW S \in SUBSET Nat, S # {}
  PROVE  \E m \in S : \A n \in S : m <= n
<1> DEFINE R == OpToRel(<, Nat)
<1>1. \A x, y \in Nat : <<y, x>> \in R <=> y < x
  BY DEF OpToRel
<1>2. IsWellFoundedOn(R, Nat)
  BY NatLessThanWellFounded
<1> HIDE DEF R
<1>3. PICK m \in S : \A n \in S : ~(<<n, m>> \in R)
  BY <1>2, WFMin
<1>4. \A n \in S : ~(n < m) /\ n \in Nat /\ m \in Nat
  BY <1>1, <1>3
<1>5. QED
  BY <1>4

\* A set of numbers with 0 and every successor below n holds 0..n.
LEMMA Climbing ==
  ASSUME NEW n \in Nat, NEW S, 0 \in S, \A i \in 0..(n - 1) : i \in S => i + 1 \in S
  PROVE  \A i \in 0..n : i \in S
<1> DEFINE Bad == {i \in 0..n : i \notin S}
<1>1. SUFFICES ASSUME Bad # {} PROVE FALSE
  OBVIOUS
<1>2. PICK m \in Bad : \A i \in Bad : m <= i
  <2>1. Bad \in SUBSET Nat
    OBVIOUS
  <2>2. QED
    BY <1>1, <2>1, LeastOne
<1>3. m # 0 /\ m \in 0..n /\ m \notin S
  BY <1>2
<1>4. m - 1 \in 0..(n - 1) /\ m - 1 \notin Bad
  BY <1>2, <1>3
<1>5. m - 1 \in S
  BY <1>4
<1>6. QED
  BY <1>3, <1>4, <1>5

\* G says what a function on D is at d in terms of its values at lesser measures.
Backwards(D, T, m, G) ==
  \A d \in D : \A g, h \in [D -> T] :
    (\A e \in D : m[e] < m[d] => g[e] = h[e]) => G[<<d, g>>] = G[<<d, h>>]
Defines(D, T, m, N, G) ==
  /\ T # {} /\ m \in [D -> Nat] /\ N \in Nat /\ \A d \in D : m[d] < N
  /\ G \in [D \X [D -> T] -> T] /\ Backwards(D, T, m, G)

\* A recursive definition that looks at smaller arguments only has a function.
LEMMA Recursion ==
  ASSUME NEW D, NEW T, NEW m, NEW N, NEW G, Defines(D, T, m, N, G)
  PROVE  \E f \in [D -> T] : \A d \in D : f[d] = G[<<d, f>>]
<1>0. /\ T # {} /\ m \in [D -> Nat] /\ N \in Nat /\ \A d \in D : m[d] < N
      /\ G \in [D \X [D -> T] -> T] /\ Backwards(D, T, m, G)
  BY DEF Defines
<1> DEFINE UpTo(f, n) == \A d \in D : m[d] < n => f[d] = G[<<d, f>>]
           S == {n \in Nat : \E f \in [D -> T] : UpTo(f, n)}
<1>1. 0 \in S
  <2>1. PICK x \in T : TRUE
    BY <1>0
  <2>2. [d \in D |-> x] \in [D -> T] /\ UpTo([d \in D |-> x], 0)
    BY <1>0
  <2>3. QED
    BY <2>2
<1>2. ASSUME NEW n \in 0..(N - 1), n \in S PROVE n + 1 \in S
  <2>1. PICK f \in [D -> T] : UpTo(f, n)
    BY <1>2
  <2> DEFINE h == [d \in D |-> IF m[d] = n THEN G[<<d, f>>] ELSE f[d]]
  <2>2. h \in [D -> T]
    BY <1>0
  <2>3. ASSUME NEW d \in D, m[d] < n + 1 PROVE h[d] = G[<<d, h>>]
    <3>1. \A e \in D : m[e] < m[d] => f[e] = h[e]
      BY <1>0, <2>3
    <3>2. G[<<d, f>>] = G[<<d, h>>]
      BY <1>0, <2>2, <3>1 DEF Backwards
    <3>3. CASE m[d] = n
      BY <3>2, <3>3
    <3>4. CASE m[d] # n
      <4>1. m[d] \in Nat /\ m[d] < n
        BY <1>0, <2>3, <3>4
      <4>2. QED
        BY <2>1, <3>2, <3>4, <4>1
    <3>5. QED
      BY <3>3, <3>4
  <2>4. n + 1 \in Nat
    BY <1>0
  <2> HIDE DEF h
  <2>5. QED
    BY <2>2, <2>3, <2>4
<1> HIDE DEF S
<1>3. N \in S
  <2>1. \A i \in 0..N : i \in S
    BY <1>0, <1>1, <1>2, Climbing
  <2>2. QED
    BY <1>0, <2>1
<1>4. PICK f \in [D -> T] : UpTo(f, N)
  BY <1>3 DEF S
<1>5. QED
  BY <1>0, <1>4

\* A sequence of values, each made from the one before it.
FoldsFrom(x, n, T, G) == n \in Nat /\ x \in T /\ G \in [(1..n) \X T -> T]

\* A function computed from its predecessor, from 0 to n.
LEMMA Folding ==
  ASSUME NEW n, NEW T, NEW x, NEW G, FoldsFrom(x, n, T, G)
  PROVE  \E f \in [0..n -> T] : f[0] = x /\ \A i \in 1..n : f[i] = G[<<i, f[i - 1]>>]
<1> DEFINE D == 0..n
           m == [d \in D |-> d]
           H == [p \in D \X [D -> T] |-> IF p[1] = 0 THEN x ELSE G[<<p[1], p[2][p[1] - 1]>>]]
<1>0. n \in Nat /\ x \in T /\ G \in [(1..n) \X T -> T]
  BY DEF FoldsFrom
<1>1. \A d \in D, g \in [D -> T] : H[<<d, g>>] = IF d = 0 THEN x ELSE G[<<d, g[d - 1]>>]
  OBVIOUS
<1>2. H \in [D \X [D -> T] -> T]
  <2>1. \A d \in D, g \in [D -> T] : H[<<d, g>>] \in T
    <3> TAKE d \in D, g \in [D -> T]
    <3>1. d # 0 => d \in 1..n /\ d - 1 \in D /\ g[d - 1] \in T
      BY <1>0
    <3>2. QED
      BY <1>0, <1>1, <3>1
  <2>2. QED
    BY <2>1
<1>3. m \in [D -> Nat] /\ \A d \in D : m[d] = d /\ m[d] < n + 1
  BY <1>0
<1>4. Backwards(D, T, m, H)
  <2>1. ASSUME NEW d \in D, NEW g \in [D -> T], NEW h \in [D -> T], \A e \in D : m[e] < m[d] => g[e] = h[e]
        PROVE  H[<<d, g>>] = H[<<d, h>>]
    <3>1. d # 0 => d - 1 \in D /\ g[d - 1] = h[d - 1]
      BY <1>0, <1>3, <2>1
    <3>2. QED
      BY <1>1, <3>1
  <2> HIDE DEF H, m, D
  <2>2. QED
    BY <2>1 DEF Backwards
<1> DEFINE N == n + 1
<1> HIDE DEF H, m
<1>5. PICK f \in [D -> T] : \A d \in D : f[d] = H[<<d, f>>]
  <2>1. T # {} /\ N \in Nat /\ \A d \in D : m[d] < N
    BY <1>0, <1>3
  <2>2. Defines(D, T, m, N, H)
    BY <1>2, <1>3, <1>4, <2>1 DEF Defines
  <2> HIDE DEF D, N
  <2>3. QED
    BY <2>2, Recursion
<1>6. \A d \in D : f[d] = IF d = 0 THEN x ELSE G[<<d, f[d - 1]>>]
  BY <1>1, <1>5
<1>7. f[0] = x /\ \A i \in 1..n : f[i] = G[<<i, f[i - 1]>>]
  <2>1. 0 \in D /\ \A i \in 1..n : i \in D /\ i # 0
    BY <1>0
  <2>2. QED
    BY <1>6, <2>1
<1>8. QED
  BY <1>5, <1>7

-----------------------------------------------------------------------------
(* Only: what is left of a sequence *)

OnlyBy(f, s, S) ==
  f = [i \in 0..Len(s) |-> IF i = 0 THEN <<>> ELSE IF s[i] \in S THEN Append(f[i - 1], s[i]) ELSE f[i - 1]]

\* The recursive function behind Only.
LEMMA OnlyIsThere ==
  ASSUME NEW T, NEW s \in Seq(T), NEW S
  PROVE  \E f \in [0..Len(s) -> Seq(T)] : OnlyBy(f, s, S) /\ Only(s, S) = f[Len(s)]
<1> DEFINE n == Len(s)
           Q == Seq(T)
           e == <<>>
           G == [p \in (1..n) \X Q |-> IF s[p[1]] \in S THEN Append(p[2], s[p[1]]) ELSE p[2]]
<1>1. n \in Nat /\ e \in Q /\ \A i \in 1..n : s[i] \in T
  BY LenProperties, ElementOfSeq, EmptySeq
<1>2. \A i \in 1..n, q \in Q : G[<<i, q>>] = IF s[i] \in S THEN Append(q, s[i]) ELSE q
  OBVIOUS
<1>3. \A i \in 1..n, q \in Q : G[<<i, q>>] \in Q
  BY <1>1, <1>2, AppendProperties
<1>4. FoldsFrom(e, n, Q, G)
  BY <1>1, <1>3 DEF FoldsFrom
<1> HIDE DEF G, n, Q, e
<1>5. PICK f \in [0..n -> Q] : f[0] = e /\ \A i \in 1..n : f[i] = G[<<i, f[i - 1]>>]
  BY <1>4, Folding
<1>6. \A i \in 1..n : f[i] = IF s[i] \in S THEN Append(f[i - 1], s[i]) ELSE f[i - 1]
  <2> TAKE i \in 1..n
  <2>1. f[i - 1] \in Q
    BY <1>1
  <2>2. QED
    BY <1>2, <1>5, <2>1
<1>7. \A i \in 0..n : f[i] = IF i = 0 THEN e ELSE IF s[i] \in S THEN Append(f[i - 1], s[i]) ELSE f[i - 1]
  <2>1. \A i \in 0..n : i = 0 \/ i \in 1..n
    BY <1>1
  <2>2. QED
    BY <1>5, <1>6, <2>1
<1>8. OnlyBy(f, s, S)
  BY <1>7 DEF OnlyBy, n, e
<1> DEFINE g == CHOOSE h : OnlyBy(h, s, S)
<1>9. OnlyBy(g, s, S)
  BY <1>8
<1>10. Only(s, S) = g[Len(s)]
  BY DEF Only, OnlyBy
<1> HIDE DEF g
<1>11. g \in [0..n -> Q]
  <2>0. \A i \in 0..n : g[i] = IF i = 0 THEN e ELSE IF s[i] \in S THEN Append(g[i - 1], s[i]) ELSE g[i - 1]
    BY <1>9 DEF OnlyBy, n, e
  <2> DEFINE In == {i \in Nat : g[i] \in Q}
  <2>1. 0 \in In
    BY <1>1, <2>0
  <2>2. ASSUME NEW i \in 0..(n - 1), i \in In PROVE i + 1 \in In
    <3>1. i + 1 \in 1..n /\ i + 1 \in 0..n /\ (i + 1) - 1 = i /\ s[i + 1] \in T
      BY <1>1
    <3>2. Append(g[i], s[i + 1]) \in Q
      BY <2>2, <3>1, AppendProperties DEF Q
    <3>3. QED
      BY <2>0, <2>2, <3>1, <3>2
  <2>3. \A i \in 0..n : g[i] \in Q
    <3> HIDE DEF In
    <3>1. \A i \in 0..n : i \in In
      BY <1>1, <2>1, <2>2, Climbing
    <3>2. QED
      BY <3>1 DEF In
  <2>4. g = [i \in 0..n |-> g[i]]
    BY <1>9 DEF OnlyBy, n
  <2>5. QED
    BY <2>3, <2>4
<1>12. QED
  BY <1>9, <1>10, <1>11 DEF n, Q

\* q is what is left of the first n elements of s: `at` says where each comes from.
PicksBy(at, q, s, S, n) ==
  /\ at \in [1..Len(q) -> 1..n]
  /\ \A j, k \in 1..Len(q) : j < k => at[j] < at[k]
  /\ \A k \in 1..Len(q) : q[k] = s[at[k]] /\ s[at[k]] \in S
  /\ \A i \in 1..n : s[i] \in S => \E k \in 1..Len(q) : at[k] = i
Picks(q, s, S, n) == \E at : PicksBy(at, q, s, S, n)

\* One element more of the sequence is kept or left out.
LEMMA PicksOneMore ==
  ASSUME NEW T, NEW s \in Seq(T), NEW S, NEW n \in Nat, n + 1 \in 1..Len(s), NEW q \in Seq(T), Picks(q, s, S, n)
  PROVE  Picks(IF s[n + 1] \in S THEN Append(q, s[n + 1]) ELSE q, s, S, n + 1)
<1>1. PICK at : PicksBy(at, q, s, S, n)
  BY DEF Picks
<1>2. Len(q) \in Nat /\ Len(s) \in Nat /\ s[n + 1] \in T
  BY LenProperties, ElementOfSeq
<1>3. CASE s[n + 1] \notin S
  <2>1. PicksBy(at, q, s, S, n + 1)
    <3>1. at \in [1..Len(q) -> 1..(n + 1)]
      BY <1>1 DEF PicksBy
    <3>2. \A i \in 1..(n + 1) : s[i] \in S => \E k \in 1..Len(q) : at[k] = i
      <4>1. \A i \in 1..(n + 1) : i \in 1..n \/ i = n + 1
        OBVIOUS
      <4>2. QED
        BY <1>1, <1>3, <4>1 DEF PicksBy
    <3>3. QED
      BY <1>1, <3>1, <3>2 DEF PicksBy
  <2>2. QED
    BY <1>3, <2>1 DEF Picks
<1>4. CASE s[n + 1] \in S
  <2> DEFINE r == Append(q, s[n + 1])
             to == [k \in 1..(Len(q) + 1) |-> IF k = Len(q) + 1 THEN n + 1 ELSE at[k]]
  <2>1. Len(r) = Len(q) + 1 /\ r[Len(q) + 1] = s[n + 1] /\ \A k \in 1..Len(q) : r[k] = q[k]
    BY <1>2, AppendProperties
  <2>2. to[Len(q) + 1] = n + 1 /\ \A k \in 1..Len(q) : to[k] = at[k] /\ at[k] \in 1..n
    BY <1>1, <1>2 DEF PicksBy
  <2>3. \A k \in 1..(Len(q) + 1) : k \in 1..Len(q) \/ k = Len(q) + 1
    BY <1>2
  <2>4. PicksBy(to, r, s, S, n + 1)
    <3>1. to \in [1..Len(r) -> 1..(n + 1)]
      <4>1. ASSUME NEW k \in 1..(Len(q) + 1) PROVE to[k] \in 1..(n + 1)
        <5>1. CASE k = Len(q) + 1
          BY <1>2, <5>1
        <5>2. CASE k \in 1..Len(q)
          <6>1. to[k] = at[k] /\ at[k] \in 1..n
            BY <2>2, <5>2
          <6> HIDE DEF to
          <6>2. QED
            BY <6>1
        <5>3. QED
          BY <2>3, <5>1, <5>2
      <4>2. QED
        BY <2>1, <4>1
    <3> HIDE DEF to, r
    <3>2. \A j, k \in 1..Len(r) : j < k => to[j] < to[k]
      <4> SUFFICES ASSUME NEW j \in 1..Len(r), NEW k \in 1..Len(r), j < k PROVE to[j] < to[k]
        OBVIOUS
      <4>1. j \in 1..Len(q)
        BY <1>2, <2>1
      <4>2. CASE k \in 1..Len(q)
        BY <1>1, <2>2, <4>1, <4>2 DEF PicksBy
      <4>3. CASE k = Len(q) + 1
        BY <2>2, <4>1, <4>3
      <4>4. QED
        BY <2>1, <2>3, <4>2, <4>3
    <3>3. \A k \in 1..Len(r) : r[k] = s[to[k]] /\ s[to[k]] \in S
      BY <1>1, <1>4, <2>1, <2>2, <2>3 DEF PicksBy
    <3>4. \A i \in 1..(n + 1) : s[i] \in S => \E k \in 1..Len(r) : to[k] = i
      <4> SUFFICES ASSUME NEW i \in 1..(n + 1), s[i] \in S PROVE \E k \in 1..Len(r) : to[k] = i
        OBVIOUS
      <4>1. CASE i = n + 1
        BY <1>2, <2>1, <2>2, <4>1
      <4>2. CASE i \in 1..n
        <5>1. PICK k \in 1..Len(q) : at[k] = i
          BY <1>1, <4>2 DEF PicksBy
        <5>2. k \in 1..Len(r) /\ to[k] = i
          BY <1>2, <2>1, <2>2, <5>1
        <5>3. QED
          BY <5>2
      <4>3. QED
        BY <4>1, <4>2
    <3>5. QED
      BY <3>1, <3>2, <3>3, <3>4 DEF PicksBy
  <2> HIDE DEF to, r
  <2>5. Picks(r, s, S, n + 1)
    BY <2>4 DEF Picks
  <2>6. QED
    BY <1>4, <2>5 DEF r
<1>5. QED
  BY <1>3, <1>4

\* What Only keeps: the elements of S, in their order.
LEMMA OnlyPicks ==
  ASSUME NEW T, NEW s \in Seq(T), NEW S
  PROVE  Only(s, S) \in Seq(T) /\ Picks(Only(s, S), s, S, Len(s))
<1>1. PICK f \in [0..Len(s) -> Seq(T)] : OnlyBy(f, s, S) /\ Only(s, S) = f[Len(s)]
  BY OnlyIsThere
<1>2. Len(s) \in Nat
  BY LenProperties
<1>3. f[0] = <<>> /\ \A i \in 0..(Len(s) - 1) : f[i + 1] = IF s[i + 1] \in S THEN Append(f[i], s[i + 1]) ELSE f[i]
  <2>1. \A i \in 0..Len(s) : f[i] = IF i = 0 THEN <<>> ELSE IF s[i] \in S THEN Append(f[i - 1], s[i]) ELSE f[i - 1]
    BY <1>1 DEF OnlyBy
  <2>2. f[0] = <<>>
    BY <1>2, <2>1
  <2>3. ASSUME NEW i \in 0..(Len(s) - 1)
        PROVE  f[i + 1] = IF s[i + 1] \in S THEN Append(f[i], s[i + 1]) ELSE f[i]
    <3>1. i + 1 \in 0..Len(s) /\ i + 1 # 0 /\ (i + 1) - 1 = i
      BY <1>2
    <3>2. QED
      BY <2>1, <3>1
  <2>4. QED
    BY <2>2, <2>3
<1> DEFINE In == {n \in Nat : Picks(f[n], s, S, n)}
<1>4. 0 \in In
  <2>1. Len(f[0]) = 0
    BY <1>3, EmptySeq
  <2>2. PicksBy([k \in 1..0 |-> k], f[0], s, S, 0)
    BY <2>1 DEF PicksBy
  <2>3. QED
    BY <2>2 DEF Picks
<1>5. ASSUME NEW n \in 0..(Len(s) - 1), n \in In PROVE n + 1 \in In
  <2>1. n \in Nat /\ n + 1 \in 1..Len(s) /\ f[n] \in Seq(T) /\ Picks(f[n], s, S, n)
    BY <1>2, <1>5
  <2>2. Picks(IF s[n + 1] \in S THEN Append(f[n], s[n + 1]) ELSE f[n], s, S, n + 1)
    BY <2>1, PicksOneMore
  <2>3. QED
    BY <1>3, <2>1, <2>2
<1> HIDE DEF In
<1>6. Len(s) \in In
  <2>1. \A i \in 0..Len(s) : i \in In
    BY <1>2, <1>4, <1>5, Climbing
  <2>2. QED
    BY <1>2, <2>1
<1>7. f[Len(s)] \in Seq(T)
  BY <1>2
<1>8. QED
  BY <1>1, <1>6, <1>7 DEF In

LEMMA OnlyRange ==
  ASSUME NEW T, NEW s \in Seq(T), NEW S
  PROVE  Range(Only(s, S)) = Range(s) \cap S
<1>1. Only(s, S) \in Seq(T) /\ Picks(Only(s, S), s, S, Len(s))
  BY OnlyPicks
<1> DEFINE q == Only(s, S)
<1>2. PICK at : PicksBy(at, q, s, S, Len(s))
  BY <1>1 DEF Picks
<1>3. DOMAIN s = 1..Len(s) /\ DOMAIN q = 1..Len(q)
  BY <1>1, LenProperties
<1> HIDE DEF q
<1>4. ASSUME NEW x \in Range(q) PROVE x \in Range(s) \cap S
  BY <1>2, <1>3 DEF Range, PicksBy
<1>5. ASSUME NEW x \in Range(s), x \in S PROVE x \in Range(q)
  <2>1. PICK i \in 1..Len(s) : x = s[i]
    BY <1>3 DEF Range
  <2>2. PICK k \in 1..Len(q) : at[k] = i
    BY <1>2, <1>5, <2>1 DEF PicksBy
  <2>3. QED
    BY <1>2, <1>3, <2>1, <2>2 DEF Range, PicksBy
<1>6. QED
  BY <1>4, <1>5 DEF q

-----------------------------------------------------------------------------
(* Cuts *)

\* What is cut out of a sequence.
LEMMA CutKeeps ==
  ASSUME NEW S, NEW s \in Seq(S), NEW m \in 1..Len(s) + 1, NEW n \in 0..Len(s), m <= n + 1
  PROVE  /\ SubSeq(s, m, n) \in Seq(S) /\ Len(SubSeq(s, m, n)) = n - m + 1
         /\ \A j \in 1..n - m + 1 : SubSeq(s, m, n)[j] = s[m + j - 1]
<1>1. m \in Int /\ n \in Int /\ Len(s) \in Nat
  BY LenProperties
<1>2. \A j \in m..n : s[j] \in S
  <2>1. \A j \in 1..Len(s) : s[j] \in S
    BY ElementOfSeq
  <2>2. m..n \subseteq 1..Len(s)
    BY <1>1
  <2>3. QED
    BY <2>1, <2>2
<1>3. /\ SubSeq(s, m, n) \in Seq(S)
      /\ Len(SubSeq(s, m, n)) = IF m <= n THEN n - m + 1 ELSE 0
      /\ \A j \in 1..n - m + 1 : SubSeq(s, m, n)[j] = s[m + j - 1]
  BY <1>1, <1>2, SubSeqProperties
<1>4. Len(SubSeq(s, m, n)) = n - m + 1
  BY <1>1, <1>3
<1>5. QED
  BY <1>3, <1>4
=============================================================================
