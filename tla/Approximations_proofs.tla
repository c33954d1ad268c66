------------------------ MODULE Approximations_proofs ------------------------
(* Theorems about Remez fits, cosine_minimax and sign_minimax, for any        *)
(* instances, curves, numbers of rounds, degrees and depths.  What the        *)
(* operators of a fit compute comes first, then the invariants of a fit and   *)
(* of a continuation; then what the search for a sign composite enumerates,   *)
(* and its invariant; at last what the selection of references costs.         *)
EXTENDS Approximations, FiniteSetTheorems, SequenceTheorems, WellFoundedInduction, TLAPS

-----------------------------------------------------------------------------
(* Sequences, whatever their elements. *)

IsSequence(s) == s \in Seq(Range(s))

LEMMA SequenceIs ==
    ASSUME NEW s, IsSequence(s)
    PROVE  Len(s) \in Nat /\ DOMAIN s = 1..Len(s) /\ s = [i \in 1..Len(s) |-> s[i]]
  BY LenProperties DEF IsSequence

LEMMA MakesSequence ==
    ASSUME NEW n \in Nat, NEW s, s = [i \in 1..n |-> s[i]]
    PROVE  IsSequence(s) /\ Len(s) = n
  <1>1. s \in [1..n -> Range(s)]
    BY DEF Range
  <1>2. s \in Seq(Range(s))
    BY <1>1, SeqDef
  <1> QED
    BY <1>1, <1>2, LenProperties DEF IsSequence

LEMMA LeastNat ==
    ASSUME NEW T \in SUBSET Nat, T # {}
    PROVE  \E n \in T : \A m \in T : n <= m
  <1>1. IsWellFoundedOn(OpToRel(<, Nat), Nat)
    BY NatLessThanWellFounded
  <1>2. PICK n \in T : \A m \in T : ~(<<m, n>> \in OpToRel(<, Nat))
    BY <1>1, WFMin
  <1>3. \A m \in T : ~(m < n)
    BY <1>2 DEF OpToRel
  <1> QED
    BY <1>3

LEMMA NatSetInduction ==
    ASSUME NEW T, 0 \in T, \A n \in Nat : n \in T => n + 1 \in T
    PROVE  Nat \subseteq T
  <1>1. SUFFICES ASSUME Nat \ T # {} PROVE FALSE
    OBVIOUS
  <1>2. PICK n \in Nat \ T : \A m \in Nat \ T : n <= m
    BY <1>1, LeastNat
  <1>3. n # 0 /\ n - 1 \in Nat
    BY <1>2
  <1>4. n - 1 \in T
    BY <1>2, <1>3
  <1> QED
    BY <1>2, <1>3, <1>4

\* A set of places has a last and a first.
LEMMA EndsOfPlaces ==
    ASSUME NEW m \in Nat, NEW places \in SUBSET (1..m), places # {}
    PROVE  Rightmost(places) \in places /\ Leftmost(places) \in places
  <1>1. places \in SUBSET Nat
    OBVIOUS
  <1>2. \E i \in places : \A j \in places : i <= j
    BY <1>1, LeastNat
  <1>3. \E i \in places : \A j \in places : j <= i
    <2> DEFINE T == {m - i : i \in places}
    <2>1. T \in SUBSET Nat /\ T # {}
      <3>1. \A i \in places : m - i \in Nat
        OBVIOUS
      <3>2. T # {}
        OBVIOUS
      <3> QED
        BY <3>1, <3>2
    <2> HIDE DEF T
    <2>2. PICK n \in T : \A k \in T : n <= k
      BY <2>1, LeastNat
    <2>3. PICK i \in places : n = m - i
      BY <2>2 DEF T
    <2>4. ASSUME NEW j \in places PROVE j <= i
      <3>1. n <= m - j
        BY <2>2 DEF T
      <3> QED
        BY <2>3, <3>1
    <2> QED
      BY <2>4
  <1> QED
    BY <1>2, <1>3 DEF Rightmost, Leftmost

-----------------------------------------------------------------------------
(* Choosing points by their places. *)

\* Integers in order, none of them twice.
Rising(s) ==
    /\ IsSequence(s) /\ \A i \in DOMAIN s : s[i] \in Int
    /\ \A i, j \in DOMAIN s : i < j => s[i] < s[j]

Below(places, x) == {y \in places : y < x}

LEMMA RanksAre ==
    ASSUME NEW places, IsFiniteSet(places), places \subseteq Int
    PROVE  /\ \A x \in places : Cardinality(Below(places, x)) \in 0..(Cardinality(places) - 1)
           /\ \A x, y \in places : x < y => Cardinality(Below(places, x)) < Cardinality(Below(places, y))
           /\ \A k \in 0..(Cardinality(places) - 1) : \E x \in places : Cardinality(Below(places, x)) = k
  <1> DEFINE n == Cardinality(places)
             rank(x) == Cardinality(Below(places, x))
  <1>1. n \in Nat
    BY FS_CardinalityType
  <1>2. ASSUME NEW x \in places
        PROVE  IsFiniteSet(Below(places, x)) /\ rank(x) \in Nat /\ rank(x) < n
    <2>1. Below(places, x) \in SUBSET places
      BY DEF Below
    <2>2. IsFiniteSet(Below(places, x)) /\ rank(x) <= n /\ (n = rank(x) => places = Below(places, x))
      BY <2>1, FS_Subset
    <2>3. x \notin Below(places, x)
      BY DEF Below
    <2>4. rank(x) \in Nat
      BY <2>2, FS_CardinalityType
    <2>5. rank(x) # n
      BY <2>2, <2>3
    <2> HIDE DEF rank, n
    <2> QED
      BY <1>1, <2>2, <2>4, <2>5
  <1>3. ASSUME NEW x \in places, NEW y \in places, x < y
        PROVE  rank(x) < rank(y)
    <2>1. Below(places, x) \in SUBSET Below(places, y)
      <3>1. \A z \in places : z < x => z < y
        BY <1>3
      <3> QED
        BY <3>1 DEF Below
    <2>2. x \in Below(places, y) /\ x \notin Below(places, x)
      BY <1>3 DEF Below
    <2>3. IsFiniteSet(Below(places, y)) /\ rank(x) \in Nat /\ rank(y) \in Nat
      BY <1>2
    <2>4. rank(x) <= rank(y) /\ rank(x) # rank(y)
      BY <2>1, <2>2, <2>3, FS_Subset
    <2> HIDE DEF rank
    <2> QED
      BY <2>3, <2>4
  <1>4. ASSUME NEW k \in 0..(n - 1) PROVE \E x \in places : rank(x) = k
    <2> DEFINE T == 0..(n - 1)
               f == [x \in places |-> rank(x)]
    <2>1. \A x \in places : f[x] = rank(x)
      OBVIOUS
    <2>2. \A x \in places : rank(x) \in T
      <3> HIDE DEF rank, n
      <3> QED
        BY <1>1, <1>2
    <2>3. f \in [places -> T]
      BY <2>2
    <2>4. \A x, y \in places : x # y => rank(x) # rank(y)
      <3>1. SUFFICES ASSUME NEW x \in places, NEW y \in places, x # y
                     PROVE  rank(x) # rank(y)
        OBVIOUS
      <3>2. x \in Int /\ y \in Int
        OBVIOUS
      <3>3. rank(x) \in Nat /\ rank(y) \in Nat
        BY <1>2
      <3>4. CASE x < y
        <4>1. rank(x) < rank(y)
          BY <3>4, <1>3
        <4> HIDE DEF rank
        <4> QED
          BY <3>3, <4>1
      <3>5. CASE y < x
        <4>1. rank(y) < rank(x)
          BY <3>5, <1>3
        <4> HIDE DEF rank
        <4> QED
          BY <3>3, <4>1
      <3> HIDE DEF rank
      <3> QED
        BY <3>1, <3>2, <3>4, <3>5
    <2>5. f \in Injection(places, T)
      BY <2>1, <2>3, <2>4 DEF Injection, IsInjective
    <2>6. IsFiniteSet(T) /\ Cardinality(T) = n
      <3>1. 0 \in Int /\ n - 1 \in Int
        BY <1>1
      <3>2. IsFiniteSet(T) /\ Cardinality(T) = IF 0 > n - 1 THEN 0 ELSE n - 1 - 0 + 1
        BY <3>1, FS_Interval
      <3> HIDE DEF T, n
      <3> QED
        BY <1>1, <3>2
    <2>7. f \in Surjection(places, T)
      BY <2>5, <2>6, FS_Injection
    <2>8. \E x \in places : f[x] = k
      BY <2>7 DEF Surjection
    <2> QED
      BY <2>1, <2>8
  <1> HIDE DEF rank, n
  <1>5. \A x \in places : rank(x) \in 0..(n - 1)
    BY <1>1, <1>2
  <1>6. \A x, y \in places : x < y => rank(x) < rank(y)
    BY <1>3
  <1> QED
    BY <1>4, <1>5, <1>6 DEF rank, n

LEMMA AscendingIs ==
    ASSUME NEW places, IsFiniteSet(places), places \subseteq Int
    PROVE  LET s == Ascending(places) IN
           /\ Rising(s) /\ Len(s) = Cardinality(places)
           /\ \A k \in DOMAIN s : s[k] \in places
           /\ \A x \in places : \E k \in DOMAIN s : s[k] = x
  <1> DEFINE s == Ascending(places)
             n == Cardinality(places)
             rank(x) == Cardinality(Below(places, x))
  <1>1. n \in Nat
    BY FS_CardinalityType
  <1>2. s = [k \in 1..n |-> CHOOSE x \in places : rank(x) = k - 1]
    BY DEF Ascending, Below
  <1>3. IsSequence(s) /\ Len(s) = n
    <2>1. s = [k \in 1..n |-> s[k]]
      BY <1>2
    <2> HIDE DEF s, n
    <2> QED
      BY <1>1, <2>1, MakesSequence
  <1>4. /\ \A x \in places : rank(x) \in 0..(n - 1)
        /\ \A x, y \in places : x < y => rank(x) < rank(y)
        /\ \A k \in 0..(n - 1) : \E x \in places : rank(x) = k
    BY RanksAre
  <1> HIDE DEF s, n, rank
  <1>5. DOMAIN s = 1..n
    BY <1>2
  <1>6. ASSUME NEW k \in 1..n PROVE s[k] \in places /\ rank(s[k]) = k - 1
    <2>1. k - 1 \in 0..(n - 1)
      BY <1>1
    <2>2. \E x \in places : rank(x) = k - 1
      BY <1>4, <2>1
    <2>3. s[k] = CHOOSE x \in places : rank(x) = k - 1
      BY <1>2
    <2> QED
      BY <2>2, <2>3
  <1>7. ASSUME NEW i \in 1..n, NEW j \in 1..n, i < j PROVE s[i] < s[j]
    <2>1. s[i] \in places /\ s[j] \in places /\ rank(s[i]) = i - 1 /\ rank(s[j]) = j - 1
      BY <1>6
    <2>2. s[i] \in Int /\ s[j] \in Int
      BY <2>1
    <2>3. s[i] # s[j]
      BY <1>1, <1>7, <2>1
    <2>4. ~(s[j] < s[i])
      <3>1. s[j] < s[i] => j - 1 < i - 1
        BY <1>4, <2>1
      <3> QED
        BY <1>1, <1>7, <3>1
    <2> QED
      BY <2>2, <2>3, <2>4
  <1>8. ASSUME NEW x \in places PROVE \E k \in 1..n : s[k] = x
    <2>1. rank(x) \in 0..(n - 1) /\ x \in Int
      BY <1>4
    <2> DEFINE k == rank(x) + 1
    <2>2. k \in 1..n /\ k - 1 = rank(x)
      BY <1>1, <2>1
    <2> HIDE DEF k
    <2>3. s[k] \in places /\ rank(s[k]) = rank(x)
      BY <1>6, <2>2
    <2>4. s[k] \in Int
      BY <2>3
    <2>5. ~(s[k] < x) /\ ~(x < s[k])
      <3>1. s[k] < x => rank(s[k]) < rank(x)
        BY <1>4, <2>3
      <3>2. x < s[k] => rank(x) < rank(s[k])
        BY <1>4, <2>3
      <3> QED
        BY <2>1, <2>3, <3>1, <3>2
    <2>6. s[k] = x
      BY <2>1, <2>4, <2>5
    <2> QED
      BY <2>2, <2>6
  <1>9. Rising(s)
    <2>1. \A k \in 1..n : s[k] \in Int
      BY <1>6
    <2> QED
      BY <1>3, <1>5, <1>7, <2>1 DEF Rising
  <1> QED
    BY <1>3, <1>5, <1>6, <1>8, <1>9 DEF s, n

\* The points are picked in their order.
LEMMA PickedIs ==
    ASSUME NEW points, IsSequence(points), NEW places \in SUBSET DOMAIN points
    PROVE  LET s == Ascending(places)
               t == Picked(points, places)
           IN  /\ IsSequence(t) /\ Len(t) = Cardinality(places) /\ DOMAIN t = DOMAIN s
               /\ \A k \in DOMAIN t : s[k] \in places /\ t[k] = points[s[k]]
               /\ \A i, j \in DOMAIN t : i < j => s[i] < s[j]
               /\ \A x \in places : \E k \in DOMAIN t : t[k] = points[x]
  <1> DEFINE s == Ascending(places)
             t == Picked(points, places)
             n == Cardinality(places)
  <1>1. DOMAIN points = 1..Len(points) /\ Len(points) \in Nat
    BY SequenceIs
  <1>2. IsFiniteSet(places) /\ places \subseteq Int
    <2>1. 1 \in Int /\ Len(points) \in Int
      BY <1>1
    <2>2. IsFiniteSet(1..Len(points))
      BY <2>1, FS_Interval
    <2> QED
      BY <1>1, <2>2, FS_Subset
  <1>3. /\ Rising(s) /\ Len(s) = n
        /\ \A k \in DOMAIN s : s[k] \in places
        /\ \A x \in places : \E k \in DOMAIN s : s[k] = x
    BY <1>2, AscendingIs
  <1>4. n \in Nat
    BY <1>2, FS_CardinalityType
  <1>5. t = [k \in 1..n |-> points[s[k]]]
    BY DEF Picked
  <1> HIDE DEF s, t, n
  <1>6. DOMAIN s = 1..n
    BY <1>3, SequenceIs DEF Rising
  <1>7. t = [k \in 1..n |-> t[k]]
    BY <1>5
  <1>8. IsSequence(t) /\ Len(t) = n
    BY <1>4, <1>7, MakesSequence
  <1>9. DOMAIN t = 1..n /\ \A k \in 1..n : t[k] = points[s[k]]
    BY <1>5
  <1>10. \A x \in places : \E k \in DOMAIN t : t[k] = points[x]
    <2>1. SUFFICES ASSUME NEW x \in places PROVE \E k \in DOMAIN t : t[k] = points[x]
      OBVIOUS
    <2>2. PICK k \in DOMAIN s : s[k] = x
      BY <1>3
    <2> QED
      BY <1>6, <1>9, <2>2
  <1> QED
    BY <1>3, <1>6, <1>8, <1>9, <1>10 DEF s, t, n, Rising

\* Points of a curve, in order and a sample apart.
Chain(points) ==
    /\ IsSequence(points) /\ \A i \in DOMAIN points : points[i].u \in Int
    /\ \A i, j \in DOMAIN points : i < j => points[i].u + Scale <= points[j].u

LEMMA PickedChain ==
    ASSUME NEW points, Chain(points), NEW places \in SUBSET DOMAIN points
    PROVE  Chain(Picked(points, places))
  <1> DEFINE s == Ascending(places)
             t == Picked(points, places)
  <1>1. /\ IsSequence(t)
        /\ \A k \in DOMAIN t : s[k] \in places /\ t[k] = points[s[k]]
        /\ \A i, j \in DOMAIN t : i < j => s[i] < s[j]
    BY PickedIs DEF Chain
  <1> HIDE DEF s, t
  <1>2. \A k \in DOMAIN t : s[k] \in DOMAIN points
    BY <1>1
  <1>3. \A k \in DOMAIN t : t[k].u \in Int
    BY <1>1, <1>2 DEF Chain
  <1>4. ASSUME NEW i \in DOMAIN t, NEW j \in DOMAIN t, i < j PROVE t[i].u + Scale <= t[j].u
    <2>1. s[i] \in DOMAIN points /\ s[j] \in DOMAIN points /\ s[i] < s[j]
      BY <1>1, <1>2, <1>4
    <2>2. points[s[i]].u + Scale <= points[s[j]].u
      BY <2>1 DEF Chain
    <2> QED
      BY <1>1, <2>2
  <1>5. Chain(t)
    BY <1>1, <1>3, <1>4 DEF Chain
  <1> QED
    BY <1>5 DEF t

-----------------------------------------------------------------------------
(* What the references are chosen from: points of a curve in their order. *)

LEMMA Multiples ==
    ASSUME NEW a \in Nat, NEW i \in Int, NEW j \in Int, i < j
    PROVE  i * a \in Int /\ j * a \in Int /\ i * a + a <= j * a
  <1>1. i * a \in Int /\ j * a \in Int /\ (j - i - 1) * a \in Int
    OBVIOUS
  <1>2. (j - i - 1) * a >= 0
    <2>1. j - i - 1 \in Nat
      OBVIOUS
    <2> QED
      BY <2>1
  <1>3. (j - i - 1) * a = j * a - i * a - a
    OBVIOUS
  <1> QED
    BY <1>1, <1>2, <1>3

\* The curves a solve yields.
IsCurve(c) == c \in Seq([1..Grid -> Int])

LEMMA SamplesChain == ASSUME NEW c, IsCurve(c) PROVE Chain(Samples(c))
  <1> DEFINE s == Samples(c)
             n == Grid * Len(c)
  <1>1. Grid \in Nat /\ Scale \in Nat /\ Len(c) \in Nat
    BY RemezAssumption, LenProperties DEF IsCurve
  <1>2. n \in Nat
    BY <1>1
  <1>3. DOMAIN s = 1..n /\ \A i \in 1..n : s[i].u = i * Scale
    BY DEF Samples
  <1>4. s = [i \in 1..n |-> s[i]]
    BY DEF Samples
  <1> HIDE DEF s, n
  <1>5. IsSequence(s)
    BY <1>2, <1>4, MakesSequence
  <1>6. \A i \in 1..n : s[i].u \in Int
    BY <1>1, <1>2, <1>3
  <1>7. ASSUME NEW i \in 1..n, NEW j \in 1..n, i < j PROVE s[i].u + Scale <= s[j].u
    <2>1. i * Scale + Scale <= j * Scale
      BY <1>1, <1>2, <1>7, Multiples
    <2> QED
      BY <1>3, <2>1
  <1>8. Chain(s)
    BY <1>3, <1>5, <1>6, <1>7 DEF Chain
  <1> QED
    BY <1>8 DEF s

LEMMA ExtremaChain == ASSUME NEW c, IsCurve(c) PROVE Chain(Extrema(c))
  <1> DEFINE all == Samples(c)
             places == {i \in DOMAIN all : all[i].mu # 0}
  <1>1. Chain(all)
    BY SamplesChain
  <1>2. places \in SUBSET DOMAIN all
    OBVIOUS
  <1>3. Extrema(c) = Picked(all, places)
    BY DEF Extrema
  <1> HIDE DEF all, places
  <1> QED
    BY <1>1, <1>2, <1>3, PickedChain

LEMMA LoudChain == ASSUME NEW c, IsCurve(c), NEW floor PROVE Chain(Loud(c, floor))
  <1> DEFINE all == Extrema(c)
             places == {i \in DOMAIN all : Tall(all[i]) >= floor}
  <1>1. Chain(all)
    BY ExtremaChain
  <1>2. places \in SUBSET DOMAIN all
    OBVIOUS
  <1>3. Loud(c, floor) = Picked(all, places)
    BY DEF Loud
  <1> HIDE DEF all, places
  <1> QED
    BY <1>1, <1>2, <1>3, PickedChain

LEMMA CollapsedChain ==
    ASSUME NEW points, Chain(points), NEW side
    PROVE  Chain(Collapsed(points, side))
  <1> DEFINE sameRun(i, j) == \A k \in (i..j) \cup (j..i) : side[k] = side[i]
             kept(i) == \A j \in DOMAIN points : sameRun(i, j) /\ j # i =>
                           IF j < i THEN Tall(points[j]) < Tall(points[i])
                           ELSE Tall(points[j]) <= Tall(points[i])
             places == {i \in DOMAIN points : kept(i)}
  <1>1. Collapsed(points, side) = Picked(points, places)
    BY DEF Collapsed
  <1> HIDE DEF kept
  <1>2. places \in SUBSET DOMAIN points
    OBVIOUS
  <1> HIDE DEF places
  <1> QED
    BY <1>1, <1>2, PickedChain

LEMMA RunsChain == ASSUME NEW all, Chain(all) PROVE Chain(Runs(all))
  <1> DEFINE places == {i \in DOMAIN all : all[i].r # 0}
             points == Picked(all, places)
  <1>1. Chain(all)
    OBVIOUS
  <1>2. places \in SUBSET DOMAIN all
    OBVIOUS
  <1>3. Runs(all) = Collapsed(points, [i \in DOMAIN points |-> points[i].r > 0])
    BY DEF Runs
  <1> HIDE DEF places
  <1>4. Chain(points)
    BY <1>1, <1>2, PickedChain
  <1> HIDE DEF points
  <1> QED
    BY <1>3, <1>4, CollapsedChain

LEMMA SkeletonChain == ASSUME NEW all, Chain(all), NEW e, NEW n PROVE Chain(Skeleton(all, e, n))
  <1> DEFINE places(f) == {i \in DOMAIN all : all[i].mu * all[i].r * f[2] >= e * f[1]}
             above(f) == Alternating(Picked(all, places(f)))
             enough == {k \in DOMAIN Fractions : Len(above(Fractions[k])) >= n}
             k0 == CHOOSE k \in enough : \A j \in enough : k <= j
  <1>1. Chain(all)
    OBVIOUS
  <1>2. Skeleton(all, e, n) = IF enough = {} THEN Alternating(all) ELSE above(Fractions[k0])
    BY DEF Skeleton
  <1>3. ASSUME NEW f PROVE Chain(above(f))
    <2>1. places(f) \in SUBSET DOMAIN all
      OBVIOUS
    <2> HIDE DEF places
    <2>2. Chain(Picked(all, places(f)))
      BY <1>1, <2>1, PickedChain
    <2> QED
      BY <2>2, CollapsedChain DEF Alternating
  <1>4. Chain(Alternating(all))
    BY <1>1, CollapsedChain DEF Alternating
  <1> HIDE DEF above, enough, k0
  <1> QED
    BY <1>2, <1>3, <1>4

LEMMA AlternationChain ==
    ASSUME NEW f, NEW all, Chain(all), NEW e
    PROVE  Chain(Alternation(f, all, e))
  BY RunsChain, SkeletonChain DEF Alternation

LEMMA PaddedChain == ASSUME NEW points, NEW all, Chain(all), NEW n PROVE Chain(Padded(points, all, n))
  <1> DEFINE left == {i \in DOMAIN all : ~Contains(points, all[i])}
             before(i) == {j \in left : Tall(all[j]) > Tall(all[i]) \/ (Tall(all[j]) = Tall(all[i]) /\ j < i)}
             filling == {i \in left : Cardinality(before(i)) < n - Len(points)}
             places == (DOMAIN all \ left) \cup filling
  <1>1. Chain(all)
    OBVIOUS
  <1>2. Padded(points, all, n) = Picked(all, places)
    BY DEF Padded
  <1>3. places \in SUBSET DOMAIN all
    <2>1. left \subseteq DOMAIN all
      OBVIOUS
    <2> HIDE DEF left, before
    <2> QED
      BY <2>1
  <1> HIDE DEF places
  <1> QED
    BY <1>1, <1>2, <1>3, PickedChain

\* Taking references away keeps them in their order.
LEMMA EndsAreSequences ==
    ASSUME NEW points, IsSequence(points), Len(points) > 1
    PROVE  IsSequence(Front(points)) /\ IsSequence(Tail(points))
  <1> DEFINE m == Len(points)
  <1>1. points \in Seq(Range(points)) /\ m \in Nat /\ m > 1 /\ DOMAIN points = 1..m
    BY SequenceIs DEF IsSequence
  <1>2. SubSeq(points, 1, m - 1) \in Seq(Range(points))
    BY <1>1
  <1>3. points # <<>>
    BY <1>1
  <1>4. Tail(points) \in Seq(Range(points))
    BY <1>1, <1>3, HeadTailProperties
  <1> QED
    BY <1>2, <1>4, SeqOfRange DEF IsSequence, Front

LEMMA WithoutAnEndIsSequence ==
    ASSUME NEW points, IsSequence(points), Len(points) > 1, NEW protect
    PROVE  IsSequence(WithoutAnEnd(points, protect))
  BY EndsAreSequences DEF WithoutAnEnd

LEMMA WithoutAnEndChain ==
    ASSUME NEW points, Chain(points), Len(points) > 1, NEW protect
    PROVE  Chain(WithoutAnEnd(points, protect))
  <1> DEFINE m == Len(points)
             front == Front(points)
             tail == Tail(points)
  <1>1. points \in Seq(Range(points)) /\ m \in Nat /\ m - 1 \in Nat /\ m > 1 /\ DOMAIN points = 1..m
    BY SequenceIs DEF Chain, IsSequence
  <1>2. IsSequence(front) /\ Len(front) = m - 1 /\ \A i \in 1..(m - 1) : front[i] = points[i]
    <2>1. /\ SubSeq(points, 1, m - 1) \in Seq(Range(points)) /\ Len(SubSeq(points, 1, m - 1)) = m - 1
          /\ \A i \in 1..(m - 1) : SubSeq(points, 1, m - 1)[i] = points[i]
      BY <1>1
    <2> QED
      BY <2>1, SeqOfRange DEF IsSequence, Front
  <1>3. IsSequence(tail) /\ Len(tail) = m - 1 /\ \A i \in 1..(m - 1) : tail[i] = points[i + 1]
    <2>1. points # <<>>
      BY <1>1
    <2>2. tail \in Seq(Range(points)) /\ Len(tail) = m - 1 /\ \A i \in 1..(m - 1) : tail[i] = points[i + 1]
      BY <1>1, <2>1, HeadTailProperties
    <2> QED
      BY <2>2, SeqOfRange DEF IsSequence
  <1>4. \A i, j \in 1..m : points[i].u \in Int /\ (i < j => points[i].u + Scale <= points[j].u)
    BY <1>1 DEF Chain
  <1> HIDE DEF m, front, tail
  <1>5. Chain(front)
    <2>1. DOMAIN front = 1..(m - 1)
      BY <1>2, SequenceIs
    <2>2. \A i \in 1..(m - 1) : i \in 1..m
      BY <1>1
    <2> QED
      BY <1>2, <1>4, <2>1, <2>2 DEF Chain
  <1>6. Chain(tail)
    <2>1. DOMAIN tail = 1..(m - 1)
      BY <1>3, SequenceIs
    <2>2. \A i \in 1..(m - 1) : i + 1 \in 1..m
      BY <1>1
    <2>3. \A i \in 1..(m - 1) : tail[i].u \in Int
      BY <1>3, <1>4, <2>2
    <2>4. ASSUME NEW i \in 1..(m - 1), NEW j \in 1..(m - 1), i < j PROVE tail[i].u + Scale <= tail[j].u
      <3>1. i + 1 \in 1..m /\ j + 1 \in 1..m /\ i + 1 < j + 1
        BY <1>1, <2>4
      <3>2. points[i + 1].u + Scale <= points[j + 1].u
        BY <1>4, <3>1
      <3> QED
        BY <1>3, <3>2
    <2> QED
      BY <1>3, <2>1, <2>3, <2>4 DEF Chain
  <1> QED
    BY <1>5, <1>6 DEF WithoutAnEnd, front, tail

LEMMA WithoutAPairChain ==
    ASSUME NEW points, Chain(points), NEW protect
    PROVE  Chain(WithoutAPair(points, protect))
  <1> DEFINE m == Len(points)
             spared == {k \in Pairs(m) : \A i \in Gone(m, k) : points[i].u # protect}
             pair == CHOOSE k \in spared : \A j \in spared :
                        PairSum(points, k) < PairSum(points, j)
                        \/ (PairSum(points, k) = PairSum(points, j) /\ k <= j)
  <1>1. WithoutAPair(points, protect) = Picked(points, 1..m \ Gone(m, pair))
    BY DEF WithoutAPair
  <1> HIDE DEF spared, pair
  <1>2. 1..m \ Gone(m, pair) \in SUBSET DOMAIN points
    BY SequenceIs DEF Chain
  <1> HIDE DEF m
  <1> QED
    BY <1>1, <1>2, PickedChain

LEMMA TrimmedChain ==
    ASSUME NEW f, NEW points, Chain(points), Len(points) > 1
    PROVE  Chain(Trimmed(f, points))
  <1> DEFINE protect == IF f.general THEN Protected(points) ELSE None
  <1>1. Trimmed(f, points) = IF f.general /\ Len(points) > f.n + 1 THEN WithoutAPair(points, protect)
                             ELSE WithoutAnEnd(points, protect)
    BY DEF Trimmed
  <1> HIDE DEF protect
  <1> QED
    BY <1>1, WithoutAnEndChain, WithoutAPairChain

-----------------------------------------------------------------------------
(* Filling references up. *)

\* n reference points in order, a sample or more from end to end.
References(s, n) == Rising(s) /\ Len(s) = n /\ s[n] - s[1] >= Scale

Contained(s, t) == \A i \in DOMAIN s : \E j \in DOMAIN t : t[j] = s[i]

LEMMA PositionsAreSequence ==
    ASSUME NEW points, IsSequence(points)
    PROVE  IsSequence(Positions(points)) /\ Len(Positions(points)) = Len(points)
  <1>1. Len(points) \in Nat /\ DOMAIN points = 1..Len(points)
    BY SequenceIs
  <1>2. Positions(points) = [i \in 1..Len(points) |-> points[i].u]
    BY <1>1 DEF Positions
  <1> QED
    BY <1>1, <1>2, MakesSequence

LEMMA PositionsAreReferences ==
    ASSUME NEW points, Chain(points), Len(points) > 1
    PROVE  References(Positions(points), Len(points))
  <1> DEFINE m == Len(points)
             s == Positions(points)
  <1>1. m \in Nat /\ m > 1 /\ DOMAIN points = 1..m /\ Scale \in Nat \ {0}
    BY SequenceIs, RemezAssumption DEF Chain
  <1>2. s = [i \in 1..m |-> points[i].u]
    BY <1>1 DEF Positions
  <1> HIDE DEF s, m
  <1>3. DOMAIN s = 1..m /\ s = [i \in 1..m |-> s[i]] /\ \A i \in 1..m : s[i] = points[i].u
    BY <1>2
  <1>4. IsSequence(s) /\ Len(s) = m
    BY <1>1, <1>3, MakesSequence
  <1>5. \A i \in 1..m : s[i] \in Int
    BY <1>1, <1>3 DEF Chain
  <1>6. ASSUME NEW i \in 1..m, NEW j \in 1..m, i < j PROVE s[i] + Scale <= s[j]
    <2>1. points[i].u + Scale <= points[j].u
      BY <1>1, <1>6 DEF Chain
    <2> QED
      BY <1>3, <2>1
  <1>7. \A i, j \in 1..m : i < j => s[i] < s[j]
    BY <1>1, <1>5, <1>6
  <1>8. s[m] - s[1] >= Scale
    <2>1. 1 \in 1..m /\ m \in 1..m /\ 1 < m
      BY <1>1
    <2>2. s[1] + Scale <= s[m] /\ s[1] \in Int /\ s[m] \in Int
      BY <1>5, <1>6, <2>1
    <2> QED
      BY <1>1, <2>2
  <1>9. References(s, m)
    BY <1>3, <1>4, <1>5, <1>7, <1>8 DEF References, Rising
  <1> QED
    BY <1>9 DEF s, m

\* Fewer points than there are places leave room between two neighbours.
LEMMA RoomIsLeft ==
    ASSUME NEW s, NEW m \in Nat, m > 1, m <= Scale, References(s, m)
    PROVE  \E i \in 1..(m - 1) : s[i + 1] - s[i] >= 2
  <1>1. SUFFICES ASSUME \A i \in 1..(m - 1) : ~(s[i + 1] - s[i] >= 2) PROVE FALSE
    OBVIOUS
  <1>2. Scale \in Nat /\ DOMAIN s = 1..m /\ (\A i \in 1..m : s[i] \in Int) /\ s[m] - s[1] >= Scale
    BY SequenceIs, RemezAssumption DEF References, Rising
  <1> DEFINE T == {k \in Nat : k < m => s[k + 1] <= s[1] + k}
  <1>3. 0 \in T
    <2>1. s[0 + 1] = s[1] /\ s[1] \in Int
      BY <1>2
    <2> QED
      BY <2>1
  <1>4. ASSUME NEW k \in Nat, k \in T PROVE k + 1 \in T
    <2>1. SUFFICES ASSUME k + 1 < m PROVE s[k + 1 + 1] <= s[1] + (k + 1)
      OBVIOUS
    <2>2. k + 1 \in 1..(m - 1) /\ k + 1 \in 1..m /\ k + 1 + 1 \in 1..m /\ 1 \in 1..m
      BY <2>1
    <2>3. s[k + 1] <= s[1] + k
      BY <1>4, <2>1
    <2>4. ~(s[k + 1 + 1] - s[k + 1] >= 2)
      BY <1>1, <2>2
    <2>5. s[k + 1] \in Int /\ s[k + 1 + 1] \in Int /\ s[1] \in Int
      BY <1>2, <2>2
    <2> QED
      BY <2>3, <2>4, <2>5
  <1>5. Nat \subseteq T
    <2> HIDE DEF T
    <2> QED
      BY <1>3, <1>4, NatSetInduction
  <1>6. m - 1 \in Nat /\ m - 1 < m /\ m - 1 + 1 = m /\ 1 \in 1..m /\ m \in 1..m
    OBVIOUS
  <1>7. s[m] <= s[1] + (m - 1)
    <2>1. s[m - 1 + 1] <= s[1] + (m - 1)
      BY <1>5, <1>6
    <2> QED
      BY <1>6, <2>1
  <1>8. s[m] \in Int /\ s[1] \in Int
    BY <1>2, <1>6
  <1> QED
    BY <1>2, <1>7, <1>8

\* There is a widest gap, and it has room.
LEMMA WidestHasRoom ==
    ASSUME NEW s, NEW m \in Nat, m > 1, m <= Scale, References(s, m)
    PROVE  /\ Widest(s) \in SUBSET (1..(m - 1)) /\ Widest(s) # {}
           /\ \A k \in Widest(s) : s[k + 1] - s[k] >= 2
  <1> DEFINE gap(i) == s[i + 1] - s[i]
             T == {s[m] - s[1] - gap(i) : i \in 1..(m - 1)}
  <1>1. /\ DOMAIN s = 1..m /\ \A i \in 1..m : s[i] \in Int
        /\ Len(s) = m /\ \A i, j \in 1..m : i < j => s[i] < s[j]
    BY SequenceIs DEF References, Rising
  <1>2. Widest(s) = {i \in 1..(m - 1) : \A j \in 1..(m - 1) : gap(i) >= gap(j)}
    BY <1>1 DEF Widest
  <1>3. \A i \in 1..(m - 1) : i \in 1..m /\ i + 1 \in 1..m /\ 1 \in 1..m /\ m \in 1..m
    OBVIOUS
  <1>4. \A i \in 1..(m - 1) : gap(i) \in Int
    BY <1>1, <1>3
  <1>5. ASSUME NEW i \in 1..(m - 1) PROVE s[m] - s[1] - gap(i) \in Nat
    <2>1. s[i] \in Int /\ s[i + 1] \in Int /\ s[1] \in Int /\ s[m] \in Int
      BY <1>1, <1>3
    <2>2. s[1] <= s[i]
      BY <1>1, <1>3, <2>1
    <2>3. s[i + 1] <= s[m]
      BY <1>1, <1>3, <2>1
    <2> QED
      BY <2>1, <2>2, <2>3
  <1>6. T \in SUBSET Nat /\ T # {}
    <2>1. T # {}
      <3>1. 1 \in 1..(m - 1)
        OBVIOUS
      <3> HIDE DEF gap
      <3> QED
        BY <3>1
    <2>2. \A x \in T : x \in Nat
      <3> HIDE DEF gap
      <3> QED
        BY <1>5
    <2> HIDE DEF T
    <2> QED
      BY <2>1, <2>2
  <1> HIDE DEF T
  <1>7. PICK x \in T : \A y \in T : x <= y
    BY <1>6, LeastNat
  <1> HIDE DEF gap
  <1>8. PICK i \in 1..(m - 1) : x = s[m] - s[1] - gap(i)
    BY DEF T
  <1>9. ASSUME NEW j \in 1..(m - 1) PROVE gap(i) >= gap(j)
    <2>1. x <= s[m] - s[1] - gap(j)
      BY <1>7 DEF T
    <2>2. gap(i) \in Int /\ gap(j) \in Int /\ s[m] \in Int /\ s[1] \in Int
      BY <1>1, <1>3, <1>4
    <2> QED
      BY <1>8, <2>1, <2>2
  <1>10. i \in Widest(s)
    BY <1>2, <1>9
  <1>11. PICK r \in 1..(m - 1) : gap(r) >= 2
    BY RoomIsLeft DEF gap
  <1>12. ASSUME NEW k \in Widest(s) PROVE gap(k) >= 2
    <2>1. k \in 1..(m - 1) /\ gap(k) >= gap(r)
      BY <1>2
    <2>2. gap(k) \in Int /\ gap(r) \in Int
      BY <1>4, <2>1
    <2> QED
      BY <1>11, <2>1, <2>2
  <1>13. Widest(s) \in SUBSET (1..(m - 1))
    BY <1>2
  <1> QED
    BY <1>10, <1>12, <1>13 DEF gap

LEMMA InsertedIs ==
    ASSUME NEW s, IsSequence(s), NEW k \in 1..(Len(s) - 1), NEW e
    PROVE  LET t == InsertAt(s, k + 1, e) IN
           /\ IsSequence(t) /\ Len(t) = Len(s) + 1
           /\ \A i \in 1..k : t[i] = s[i]
           /\ t[k + 1] = e
           /\ \A i \in (k + 1)..Len(s) : t[i + 1] = s[i]
  <1> DEFINE m == Len(s)
             S == Range(s) \cup {e}
             a == SubSeq(s, 1, k)
             b == SubSeq(s, k + 1, m)
             c == a \o <<e>>
             t == c \o b
  <1>1. m \in Nat /\ k \in Nat /\ k >= 1 /\ k < m
    BY SequenceIs
  <1>2. s \in Seq(S) /\ e \in S
    BY SeqMonotonic DEF IsSequence
  <1>3. InsertAt(s, k + 1, e) = t
    <2>1. k + 1 - 1 = k
      BY <1>1
    <2> QED
      BY <2>1 DEF InsertAt
  <1> HIDE DEF S, m
  <1>4. a \in Seq(S) /\ Len(a) = k /\ \A i \in 1..k : a[i] = s[i]
    <2>1. 1 \in 1..(m + 1) /\ k \in 0..m /\ 1 <= k /\ k - 1 + 1 = k
      BY <1>1
    <2>2. \A i \in 1..k : 1 + i - 1 = i
      OBVIOUS
    <2>3. /\ a \in Seq(S) /\ Len(a) = IF 1 <= k THEN k - 1 + 1 ELSE 0
          /\ \A i \in 1..(k - 1 + 1) : a[i] = s[1 + i - 1]
      BY <1>2, <2>1, SubSeqProperties DEF m
    <2> HIDE DEF a
    <2> QED
      BY <2>1, <2>2, <2>3
  <1>5. b \in Seq(S) /\ Len(b) = m - k /\ \A i \in 1..(m - k) : b[i] = s[k + i]
    <2>1. k + 1 \in 1..(m + 1) /\ m \in k..m /\ k + 1 <= m /\ m - (k + 1) + 1 = m - k
      BY <1>1
    <2>2. \A i \in 1..(m - k) : k + 1 + i - 1 = k + i
      BY <1>1
    <2>3. m \in (k + 1 - 1)..m
      BY <1>1
    <2>4. /\ b \in Seq(S) /\ Len(b) = IF k + 1 <= m THEN m - (k + 1) + 1 ELSE 0
          /\ \A i \in 1..(m - (k + 1) + 1) : b[i] = s[k + 1 + i - 1]
      BY <1>2, <2>1, <2>3, SubSeqProperties DEF m
    <2> HIDE DEF b
    <2> QED
      BY <2>1, <2>2, <2>4
  <1> HIDE DEF a, b
  <1>6. <<e>> \in Seq(S) /\ Len(<<e>>) = 1 /\ <<e>>[1] = e
    BY <1>2
  <1>7. c \in Seq(S) /\ Len(c) = k + 1 /\ (\A i \in 1..k : c[i] = s[i]) /\ c[k + 1] = e
    <2>1. /\ c \in Seq(S) /\ Len(c) = Len(a) + Len(<<e>>)
          /\ \A i \in 1..(Len(a) + Len(<<e>>)) : c[i] = IF i <= Len(a) THEN a[i] ELSE <<e>>[i - Len(a)]
      BY <1>4, <1>6, ConcatProperties
    <2>2. \A i \in 1..k : i \in 1..(k + 1) /\ i <= k
      BY <1>1
    <2>3. k + 1 \in 1..(k + 1) /\ ~(k + 1 <= k) /\ k + 1 - k = 1
      BY <1>1
    <2> HIDE DEF c
    <2>4. c[k + 1] = e
      BY <1>4, <1>6, <2>1, <2>3
    <2>5. \A i \in 1..k : c[i] = s[i]
      BY <1>4, <1>6, <2>1, <2>2
    <2> QED
      BY <1>4, <1>6, <2>1, <2>4, <2>5
  <1> HIDE DEF c
  <1>8. /\ t \in Seq(S) /\ Len(t) = m + 1
        /\ \A i \in 1..(m + 1) : t[i] = IF i <= k + 1 THEN c[i] ELSE b[i - (k + 1)]
    <2>1. /\ t \in Seq(S) /\ Len(t) = Len(c) + Len(b)
          /\ \A i \in 1..(Len(c) + Len(b)) : t[i] = IF i <= Len(c) THEN c[i] ELSE b[i - Len(c)]
      BY <1>5, <1>7, ConcatProperties
    <2>2. k + 1 + (m - k) = m + 1
      BY <1>1
    <2> HIDE DEF t
    <2> QED
      BY <1>5, <1>7, <2>1, <2>2
  <1> HIDE DEF t
  <1>9. IsSequence(t)
    BY <1>8, SeqOfRange DEF IsSequence
  <1>10. \A i \in 1..k : t[i] = s[i]
    <2>1. \A i \in 1..k : i \in 1..(m + 1) /\ i <= k + 1
      BY <1>1
    <2> QED
      BY <1>7, <1>8, <2>1
  <1>11. t[k + 1] = e
    <2>1. k + 1 \in 1..(m + 1) /\ k + 1 <= k + 1
      BY <1>1
    <2> QED
      BY <1>7, <1>8, <2>1
  <1>12. ASSUME NEW i \in (k + 1)..m PROVE t[i + 1] = s[i]
    <2>1. i + 1 \in 1..(m + 1) /\ ~(i + 1 <= k + 1) /\ i + 1 - (k + 1) = i - k /\ i - k \in 1..(m - k) /\ k + (i - k) = i
      BY <1>1
    <2>2. t[i + 1] = b[i - k]
      BY <1>8, <2>1
    <2>3. b[i - k] = s[k + (i - k)]
      BY <1>5, <2>1
    <2> QED
      BY <2>1, <2>2, <2>3
  <1> QED
    BY <1>3, <1>8, <1>9, <1>10, <1>11, <1>12 DEF m

\* Halving the widest gap adds a point, and moves none.
LEMMA HalvedIs ==
    ASSUME NEW s, NEW m \in Nat, m > 1, m <= Scale, References(s, m), NEW last \in BOOLEAN
    PROVE  References(Halved(s, last), m + 1) /\ Contained(s, Halved(s, last))
  <1> DEFINE k == IF last THEN Rightmost(Widest(s)) ELSE Leftmost(Widest(s))
             e == (s[k] + s[k + 1]) \div 2
             t == InsertAt(s, k + 1, e)
  <1>1. Halved(s, last) = t
    BY DEF Halved
  <1>2. /\ IsSequence(s) /\ Len(s) = m /\ DOMAIN s = 1..m
        /\ \A i \in 1..m : s[i] \in Int
        /\ \A i, j \in 1..m : i < j => s[i] < s[j]
        /\ s[m] - s[1] >= Scale
    BY SequenceIs DEF References, Rising
  <1>3. k \in 1..(m - 1) /\ s[k + 1] - s[k] >= 2
    <2>1. /\ Widest(s) \in SUBSET (1..(m - 1)) /\ Widest(s) # {}
          /\ \A i \in Widest(s) : s[i + 1] - s[i] >= 2
      BY WidestHasRoom
    <2>2. m - 1 \in Nat
      OBVIOUS
    <2>3. Rightmost(Widest(s)) \in Widest(s) /\ Leftmost(Widest(s)) \in Widest(s)
      BY <2>1, <2>2, EndsOfPlaces
    <2>4. k \in Widest(s)
      BY <2>3
    <2> HIDE DEF k
    <2> QED
      BY <2>1, <2>4
  <1> HIDE DEF k
  <1>4. e \in Int /\ s[k] < e /\ e < s[k + 1]
    <2>1. k \in 1..m /\ k + 1 \in 1..m
      BY <1>3
    <2>2. s[k] \in Int /\ s[k + 1] \in Int
      BY <1>2, <2>1
    <2> QED
      BY <1>3, <2>2
  <1> HIDE DEF e
  <1>5. /\ IsSequence(t) /\ Len(t) = m + 1
        /\ \A i \in 1..k : t[i] = s[i]
        /\ t[k + 1] = e
        /\ \A i \in (k + 1)..m : t[i + 1] = s[i]
    <2>1. IsSequence(s) /\ k \in 1..(Len(s) - 1) /\ Len(s) = m
      BY <1>2, <1>3
    <2>2. /\ IsSequence(t) /\ Len(t) = Len(s) + 1
          /\ \A i \in 1..k : t[i] = s[i]
          /\ t[k + 1] = e
          /\ \A i \in (k + 1)..Len(s) : t[i + 1] = s[i]
      BY <2>1, InsertedIs, SMTT(30)
    <2> QED
      BY <2>1, <2>2
  <1> HIDE DEF t
  <1>6. DOMAIN t = 1..(m + 1)
    BY <1>5, SequenceIs
  \* Each point is an old one or the new one.
  <1>7. ASSUME NEW i \in 1..(m + 1)
        PROVE  \/ i \in 1..k /\ t[i] = s[i] /\ i \in 1..m
               \/ i = k + 1 /\ t[i] = e
               \/ i - 1 \in (k + 1)..m /\ t[i] = s[i - 1] /\ i - 1 \in 1..m
    <2>1. CASE i <= k
      <3>1. i \in 1..k /\ i \in 1..m
        BY <1>3, <2>1
      <3> QED
        BY <1>5, <3>1
    <2>2. CASE i = k + 1
      BY <1>5, <2>2
    <2>3. CASE i > k + 1
      <3>1. i - 1 \in (k + 1)..m /\ i - 1 + 1 = i /\ i - 1 \in 1..m
        BY <1>3, <2>3
      <3>2. t[i - 1 + 1] = s[i - 1]
        BY <1>5, <3>1
      <3> QED
        BY <3>1, <3>2
    <2> QED
      BY <1>3, <2>1, <2>2, <2>3
  <1>8. \A i \in 1..(m + 1) : t[i] \in Int
    BY <1>2, <1>4, <1>7
  <1>9. \A i \in 1..k : s[i] <= s[k]
    <2>1. SUFFICES ASSUME NEW i \in 1..k PROVE s[i] <= s[k]
      OBVIOUS
    <2>2. i \in 1..m /\ k \in 1..m /\ (i < k \/ i = k)
      BY <1>3
    <2>3. s[i] \in Int /\ s[k] \in Int /\ (i < k => s[i] < s[k])
      BY <1>2, <2>2
    <2> QED
      BY <2>2, <2>3
  <1>10. \A i \in (k + 1)..m : s[k + 1] <= s[i]
    <2>1. SUFFICES ASSUME NEW i \in (k + 1)..m PROVE s[k + 1] <= s[i]
      OBVIOUS
    <2>2. i \in 1..m /\ k + 1 \in 1..m /\ (k + 1 < i \/ i = k + 1)
      BY <1>3
    <2>3. s[i] \in Int /\ s[k + 1] \in Int /\ (k + 1 < i => s[k + 1] < s[i])
      BY <1>2, <2>2
    <2> QED
      BY <2>2, <2>3
  <1>11. s[k] \in Int /\ s[k + 1] \in Int
    <2>1. k \in 1..m /\ k + 1 \in 1..m
      BY <1>3
    <2> QED
      BY <1>2, <2>1
  <1>12. ASSUME NEW i \in 1..(m + 1), NEW j \in 1..(m + 1), i < j PROVE t[i] < t[j]
    <2>1. CASE i \in 1..k /\ t[i] = s[i] /\ i \in 1..m
      <3>1. CASE j \in 1..k /\ t[j] = s[j] /\ j \in 1..m
        BY <1>2, <1>12, <2>1, <3>1
      <3>2. CASE j = k + 1 /\ t[j] = e
        <4>1. s[i] <= s[k] /\ s[i] \in Int
          BY <1>2, <1>9, <2>1
        <4> QED
          BY <1>4, <1>11, <2>1, <3>2, <4>1
      <3>3. CASE j - 1 \in (k + 1)..m /\ t[j] = s[j - 1] /\ j - 1 \in 1..m
        <4>1. i < j - 1
          BY <1>3, <2>1, <3>3
        <4> QED
          BY <1>2, <2>1, <3>3, <4>1
      <3> QED
        BY <1>7, <3>1, <3>2, <3>3
    <2>2. CASE i = k + 1 /\ t[i] = e
      <3>1. j - 1 \in (k + 1)..m /\ t[j] = s[j - 1] /\ j - 1 \in 1..m
        <4>1. ~(j \in 1..k) /\ j # k + 1
          BY <1>3, <1>12, <2>2
        <4> QED
          BY <1>7, <4>1
      <3>2. s[k + 1] <= s[j - 1] /\ s[j - 1] \in Int
        BY <1>2, <1>10, <3>1
      <3> QED
        BY <1>4, <1>11, <2>2, <3>1, <3>2
    <2>3. CASE i - 1 \in (k + 1)..m /\ t[i] = s[i - 1] /\ i - 1 \in 1..m
      <3>1. j - 1 \in (k + 1)..m /\ t[j] = s[j - 1] /\ j - 1 \in 1..m
        <4>1. ~(j \in 1..k) /\ j # k + 1
          BY <1>3, <1>12, <2>3
        <4> QED
          BY <1>7, <4>1
      <3>2. i - 1 < j - 1
        BY <1>12
      <3> QED
        BY <1>2, <2>3, <3>1, <3>2
    <2> QED
      BY <1>7, <2>1, <2>2, <2>3
  <1>13. t[m + 1] - t[1] >= Scale
    <2>1. 1 \in 1..k /\ m \in (k + 1)..m
      BY <1>3
    <2>2. t[1] = s[1] /\ t[m + 1] = s[m]
      BY <1>5, <2>1
    <2> QED
      BY <1>2, <2>2
  <1>14. References(t, m + 1)
    <2>1. Rising(t)
      BY <1>5, <1>6, <1>8, <1>12 DEF Rising
    <2> QED
      BY <1>5, <1>13, <2>1 DEF References
  <1>15. Contained(s, t)
    <2>1. SUFFICES ASSUME NEW i \in 1..m PROVE \E j \in 1..(m + 1) : t[j] = s[i]
      BY <1>2, <1>6 DEF Contained
    <2>2. CASE i <= k
      <3>1. i \in 1..k /\ i \in 1..(m + 1)
        BY <1>3, <2>2
      <3> QED
        BY <1>5, <3>1
    <2>3. CASE ~(i <= k)
      <3>1. i \in (k + 1)..m /\ i + 1 \in 1..(m + 1)
        BY <1>3, <2>3
      <3> QED
        BY <1>5, <3>1
    <2> QED
      BY <2>2, <2>3
  <1> QED
    BY <1>1, <1>14, <1>15

\* Filled(points, n, last) is the last of the sequences made one by one.
LEMMA FilledSteps ==
    ASSUME NEW points, IsSequence(points), NEW n \in Nat, NEW last
    PROVE  \E g : /\ \A k \in 0..n : g[k] = IF k <= Len(points) THEN points ELSE Halved(g[k - 1], last)
                  /\ Filled(points, n, last) = g[n]
  <1> DEFINE Makes(g, k0) == g = [k \in 0..k0 |-> IF k <= Len(points) THEN points ELSE Halved(g[k - 1], last)]
             K == {k0 \in Nat : \E g : Makes(g, k0)}
             filled == CHOOSE g : Makes(g, n)
  <1>1. Len(points) \in Nat
    BY SequenceIs
  <1>2. 0 \in K
    <2> DEFINE g == [k \in 0..0 |-> points]
    <2>1. \A k \in 0..0 : k <= Len(points)
      BY <1>1
    <2>2. Makes(g, 0)
      BY <2>1
    <2> QED
      BY <2>2
  <1>3. ASSUME NEW k0 \in Nat, k0 \in K PROVE k0 + 1 \in K
    <2>1. PICK f : Makes(f, k0)
      BY <1>3
    <2> DEFINE g == [k \in 0..(k0 + 1) |->
                        IF k <= k0 THEN f[k]
                        ELSE IF k <= Len(points) THEN points ELSE Halved(f[k - 1], last)]
    <2>2. ASSUME NEW k \in 0..(k0 + 1)
          PROVE  g[k] = IF k <= Len(points) THEN points ELSE Halved(g[k - 1], last)
      <3>1. k > Len(points) => k - 1 \in 0..(k0 + 1) /\ k - 1 <= k0 /\ g[k - 1] = f[k - 1]
        BY <1>1
      <3>2. CASE k <= k0
        <4>1. k \in 0..k0 /\ g[k] = f[k]
          BY <3>2
        <4>2. f[k] = IF k <= Len(points) THEN points ELSE Halved(f[k - 1], last)
          BY <2>1, <4>1
        <4> HIDE DEF g
        <4> QED
          BY <1>1, <3>1, <4>1, <4>2
      <3>3. CASE ~(k <= k0)
        <4>1. g[k] = IF k <= Len(points) THEN points ELSE Halved(f[k - 1], last)
          BY <3>3
        <4> HIDE DEF g
        <4> QED
          BY <1>1, <3>1, <4>1
      <3> QED
        BY <3>2, <3>3
    <2>3. g = [k \in 0..(k0 + 1) |-> IF k <= Len(points) THEN points ELSE Halved(g[k - 1], last)]
      <3>1. g = [k \in 0..(k0 + 1) |-> g[k]]
        OBVIOUS
      <3> HIDE DEF g
      <3> QED
        BY <2>2, <3>1
    <2>4. Makes(g, k0 + 1)
      <3> HIDE DEF g
      <3> QED
        BY <2>3
    <2> HIDE DEF g, Makes
    <2>5. k0 + 1 \in Nat
      OBVIOUS
    <2> QED
      BY <2>4, <2>5
  <1>4. Makes(filled, n)
    <2> HIDE DEF Makes
    <2>1. Nat \subseteq K
      <3> HIDE DEF K
      <3> QED
        BY <1>2, <1>3, NatSetInduction
    <2> QED
      BY <2>1
  <1>5. Filled(points, n, last) = filled[n]
    BY DEF Filled
  <1> HIDE DEF filled
  <1>6. \A k \in 0..n : filled[k] = IF k <= Len(points) THEN points ELSE Halved(filled[k - 1], last)
    BY <1>4
  <1> QED
    BY <1>5, <1>6

\* Filling up gives as many references as asked for and keeps those there are.
LEMMA FilledIs ==
    ASSUME NEW points, NEW m \in Nat, m > 1, References(points, m),
           NEW n \in Nat, m <= n, n <= Scale, NEW last \in BOOLEAN
    PROVE  References(Filled(points, n, last), n) /\ Contained(points, Filled(points, n, last))
  <1>1. IsSequence(points) /\ Len(points) = m
    BY DEF References, Rising
  <1>2. PICK g : /\ \A k \in 0..n : g[k] = IF k <= m THEN points ELSE Halved(g[k - 1], last)
                 /\ Filled(points, n, last) = g[n]
    BY <1>1, FilledSteps
  <1>3. Scale \in Nat
    BY RemezAssumption
  <1> DEFINE T == {k \in Nat : k + m <= n => References(g[k + m], k + m) /\ Contained(points, g[k + m])}
  <1>4. 0 \in T
    <2>1. 0 + m = m /\ m \in 0..n
      OBVIOUS
    <2>2. g[m] = points
      BY <1>2, <2>1
    <2>3. Contained(points, points)
      BY DEF Contained
    <2>4. References(g[0 + m], 0 + m) /\ Contained(points, g[0 + m])
      BY <2>1, <2>2, <2>3
    <2> QED
      BY <2>4
  <1>5. ASSUME NEW k \in Nat, k \in T PROVE k + 1 \in T
    <2> DEFINE j == k + m
    <2>1. SUFFICES ASSUME j + 1 <= n PROVE References(g[j + 1], j + 1) /\ Contained(points, g[j + 1])
      <3>1. k + 1 + m = j + 1 /\ k + 1 \in Nat
        OBVIOUS
      <3> HIDE DEF j
      <3> QED
        BY <2>1, <3>1
    <2>2. References(g[j], j) /\ Contained(points, g[j])
      BY <1>5, <2>1
    <2>3. j \in Nat /\ j > 1 /\ j <= Scale /\ j + 1 \in 0..n /\ ~(j + 1 <= m) /\ j + 1 - 1 = j
      BY <1>3, <2>1
    <2> HIDE DEF j, T
    <2>4. g[j + 1] = Halved(g[j], last)
      BY <1>2, <2>3
    <2>5. References(Halved(g[j], last), j + 1) /\ Contained(g[j], Halved(g[j], last))
      BY <2>2, <2>3, HalvedIs
    <2>6. Contained(points, Halved(g[j], last))
      BY <2>2, <2>5 DEF Contained
    <2> QED
      BY <2>4, <2>5, <2>6
  <1>6. Nat \subseteq T
    <2> HIDE DEF T
    <2> QED
      BY <1>4, <1>5, NatSetInduction
  <1>7. n - m \in Nat /\ n - m + m = n
    OBVIOUS
  <1>8. n - m + m <= n => References(g[n - m + m], n - m + m) /\ Contained(points, g[n - m + m])
    BY <1>6, <1>7
  <1> QED
    BY <1>2, <1>7, <1>8

-----------------------------------------------------------------------------
(* The first reference points. *)

LEMMA QuotientIs ==
    ASSUME NEW a \in Int, NEW b \in Nat, b > 0
    PROVE  /\ a \div b \in Int /\ a % b \in Int
           /\ a = b * (a \div b) + (a % b)
           /\ 0 <= a % b /\ a % b < b
  <1>1. a \div b \in Int /\ a % b \in Int
    OBVIOUS
  <1>2. a = b * (a \div b) + (a % b)
    OBVIOUS
  <1>3. 0 <= a % b
    OBVIOUS
  <1>4. a % b < b
    OBVIOUS
  <1> QED
    BY <1>1, <1>2, <1>3, <1>4

\* Factors in order give products in order.
LEMMA Products ==
    ASSUME NEW a \in Nat, NEW x \in Int, NEW y \in Int, x <= y
    PROVE  x * a \in Int /\ y * a \in Int /\ x * a <= y * a
  <1>1. x = y => x * a = y * a
    OBVIOUS
  <1>2. x < y => x * a + a <= y * a
    BY Multiples
  <1>3. x * a \in Int /\ y * a \in Int
    OBVIOUS
  <1> QED
    BY <1>1, <1>2, <1>3

\* Half a unit at most is rounded off.
LEMMA RoundedIs ==
    ASSUME NEW a \in Int, NEW b \in Nat, b > 0
    PROVE  LET r == Rounded(a, b) IN
           r \in Int /\ 2 * (r * b) - b <= 2 * a /\ 2 * a <= 2 * (r * b) + b
  <1> DEFINE q == a \div b
             p == a % b
             r == IF 2 * p > b \/ (2 * p = b /\ q % 2 = 1) THEN q + 1 ELSE q
  <1>1. q \in Int /\ p \in Int /\ a = b * q + p /\ 0 <= p /\ p < b
    BY QuotientIs
  <1>2. Rounded(a, b) = r
    BY DEF Rounded
  <1> HIDE DEF q, p
  <1>3. q * b \in Int /\ (q + 1) * b = q * b + b /\ b * q = q * b
    BY <1>1
  <1>4. \/ r = q + 1 /\ 2 * p >= b
        \/ r = q /\ 2 * p <= b
    BY <1>1
  <1> HIDE DEF r
  <1>5. CASE r = q + 1 /\ 2 * p >= b
    <2>1. r \in Int /\ r * b = q * b + b
      BY <1>1, <1>3, <1>5
    <2> DEFINE x == q * b
               y == r * b
    <2>2. a = x + p /\ y = x + b /\ x \in Int /\ y \in Int
      BY <1>1, <1>3, <2>1
    <2> HIDE DEF x, y
    <2>3. 2 * y - b <= 2 * a /\ 2 * a <= 2 * y + b
      BY <1>1, <1>5, <2>2
    <2> QED
      BY <1>2, <2>1, <2>3 DEF y
  <1>6. CASE r = q /\ 2 * p <= b
    <2> DEFINE y == r * b
    <2>1. r \in Int /\ y \in Int /\ a = y + p
      BY <1>1, <1>3, <1>6
    <2> HIDE DEF y
    <2>2. 2 * y - b <= 2 * a /\ 2 * a <= 2 * y + b
      BY <1>1, <1>6, <2>1
    <2> QED
      BY <1>2, <2>1, <2>2 DEF y
  <1> QED
    BY <1>4, <1>5, <1>6

\* Points more than a step apart are not rounded to one.
LEMMA RoundedRises ==
    ASSUME NEW a \in Int, NEW c \in Int, NEW b \in Nat, b > 0, a + b < c
    PROVE  Rounded(a, b) < Rounded(c, b)
  <1> DEFINE r == Rounded(a, b)
             s == Rounded(c, b)
  <1>1. r \in Int /\ 2 * a <= 2 * (r * b) + b /\ 2 * (r * b) - b <= 2 * a
    BY RoundedIs
  <1>2. s \in Int /\ 2 * (s * b) - b <= 2 * c /\ 2 * c <= 2 * (s * b) + b
    BY RoundedIs
  <1> HIDE DEF r, s
  <1>3. r * b \in Int /\ s * b \in Int
    BY <1>1, <1>2
  <1>4. r * b < s * b
    <2> DEFINE x == r * b
               y == s * b
    <2>1. x \in Int /\ y \in Int /\ 2 * x - b <= 2 * a /\ 2 * c <= 2 * y + b
      BY <1>1, <1>2, <1>3
    <2> HIDE DEF x, y
    <2>2. x < y
      BY <2>1
    <2> QED
      BY <2>2 DEF x, y
  <1>5. ~(s <= r)
    <2>1. s <= r => s * b <= r * b
      BY <1>1, <1>2, Products
    <2> QED
      BY <1>3, <1>4, <2>1
  <1>6. r < s
    BY <1>1, <1>2, <1>5
  <1> QED
    BY <1>6 DEF r, s

LEMMA ExactQuotient ==
    ASSUME NEW k \in Int, NEW b \in Nat, b > 0
    PROVE  (k * b) \div b = k /\ (k * b) % b = 0
  <1> DEFINE a == k * b
             q == a \div b
             p == a % b
  <1>1. a \in Int
    OBVIOUS
  <1> HIDE DEF a
  <1>2. q \in Int /\ p \in Int /\ a = b * q + p /\ 0 <= p /\ p < b
    BY <1>1, QuotientIs
  <1> HIDE DEF q, p
  <1>3. p = (k - q) * b
    BY <1>2 DEF a
  <1>4. k = q
    <2>1. ~(k > q)
      <3>1. k > q => 1 * b <= (k - q) * b
        <4>1. k > q => 1 <= k - q
          BY <1>2
        <4> QED
          BY <1>2, <4>1, Products
      <3> QED
        BY <1>2, <1>3, <3>1
    <2>2. ~(k < q)
      <3>1. k < q => (k - q) * b <= (0 - 1) * b
        <4>1. k < q => k - q <= 0 - 1
          BY <1>2
        <4> QED
          BY <1>2, <4>1, Products
      <3>2. (0 - 1) * b = 0 - b
        OBVIOUS
      <3> QED
        BY <1>2, <1>3, <3>1, <3>2
    <2> QED
      BY <1>2, <2>1, <2>2
  <1>5. p = 0
    BY <1>2, <1>3, <1>4
  <1> QED
    BY <1>4, <1>5 DEF p, q, a

LEMMA RoundedExact ==
    ASSUME NEW k \in Int, NEW b \in Nat, b > 0
    PROVE  Rounded(k * b, b) = k
  <1> DEFINE a == k * b
  <1>1. a \div b = k /\ a % b = 0
    BY ExactQuotient
  <1> HIDE DEF a
  <1>2. Rounded(a, b) = k
    <2>1. ~(2 * (a % b) > b) /\ ~(2 * (a % b) = b)
      BY <1>1
    <2> QED
      BY <1>1, <2>1 DEF Rounded
  <1> QED
    BY <1>2 DEF a

\* Points thinned out are points, the first and the last among them.
LEMMA ThinnedIs ==
    ASSUME NEW s, NEW l \in Nat, l > 1, References(s, l), NEW n \in Nat, n > 1
    PROVE  IF l > n THEN References(Thinned(s, n), n) ELSE Thinned(s, n) = s
  <1> DEFINE at(i) == Rounded((i - 1) * (l - 1), n - 1) + 1
             t == [i \in 1..n |-> s[at(i)]]
  <1>1. /\ IsSequence(s) /\ Len(s) = l /\ DOMAIN s = 1..l
        /\ \A i \in 1..l : s[i] \in Int
        /\ \A i, j \in 1..l : i < j => s[i] < s[j]
        /\ s[l] - s[1] >= Scale
    BY SequenceIs DEF References, Rising
  <1>2. CASE ~(l > n)
    BY <1>1, <1>2 DEF Thinned
  <1>3. CASE l > n
    <2>1. Thinned(s, n) = t
      BY <1>1, <1>3 DEF Thinned
    <2>2. n - 1 \in Nat /\ n - 1 > 0 /\ l - 1 \in Nat /\ n - 1 < l - 1
      BY <1>3
    <2>3. ASSUME NEW i \in 1..n, NEW j \in 1..n, i < j PROVE at(i) < at(j)
      <3> DEFINE a == (i - 1) * (l - 1)
                 c == (j - 1) * (l - 1)
      <3>1. a \in Int /\ c \in Int /\ a + (l - 1) <= c
        <4>1. i - 1 \in Int /\ j - 1 \in Int /\ i - 1 < j - 1
          BY <2>3
        <4> QED
          BY <2>2, <4>1, Multiples
      <3> HIDE DEF a, c
      <3>2. a + (n - 1) < c
        BY <2>2, <3>1
      <3>3. Rounded(a, n - 1) < Rounded(c, n - 1)
        BY <2>2, <3>1, <3>2, RoundedRises
      <3>4. Rounded(a, n - 1) \in Int /\ Rounded(c, n - 1) \in Int
        BY <2>2, <3>1, RoundedIs
      <3>5. at(i) = Rounded(a, n - 1) + 1 /\ at(j) = Rounded(c, n - 1) + 1
        BY DEF a, c
      <3> QED
        BY <3>3, <3>4, <3>5
    <2>4. at(1) = 1
      <3>1. (1 - 1) * (l - 1) = 0 * (n - 1)
        BY <2>2
      <3>2. Rounded(0 * (n - 1), n - 1) = 0
        BY <2>2, RoundedExact
      <3> QED
        BY <3>1, <3>2
    <2>5. at(n) = l
      <3>1. (n - 1) * (l - 1) = (l - 1) * (n - 1)
        BY <2>2
      <3>2. Rounded((l - 1) * (n - 1), n - 1) = l - 1
        BY <2>2, RoundedExact
      <3> QED
        BY <2>2, <3>1, <3>2
    <2>6. ASSUME NEW i \in 1..n PROVE at(i) \in 1..l
      <3>1. at(i) \in Int
        <4>1. (i - 1) * (l - 1) \in Int
          BY <2>2
        <4>2. Rounded((i - 1) * (l - 1), n - 1) \in Int
          BY <2>2, <4>1, RoundedIs
        <4> QED
          BY <4>2
      <3>2. 1 \in 1..n /\ n \in 1..n
        BY <2>2
      <3> HIDE DEF at
      <3>3. i = 1 \/ 1 < at(i)
        <4>1. 1 < i => at(1) < at(i)
          BY <2>3, <3>2
        <4> QED
          BY <2>4, <4>1
      <3>4. i = n \/ at(i) < l
        <4>1. i < n => at(i) < at(n)
          BY <2>3, <3>2
        <4> QED
          BY <2>5, <4>1
      <3> QED
        BY <2>2, <2>4, <2>5, <3>1, <3>3, <3>4
    <2> HIDE DEF at
    <2>7. DOMAIN t = 1..n /\ t = [i \in 1..n |-> t[i]] /\ \A i \in 1..n : t[i] = s[at(i)]
      OBVIOUS
    <2> HIDE DEF t
    <2>8. IsSequence(t) /\ Len(t) = n
      BY <2>7, MakesSequence
    <2>9. \A i \in 1..n : t[i] \in Int
      BY <1>1, <2>6, <2>7
    <2>10. ASSUME NEW i \in 1..n, NEW j \in 1..n, i < j PROVE t[i] < t[j]
      <3>1. at(i) \in 1..l /\ at(j) \in 1..l /\ at(i) < at(j)
        BY <2>3, <2>6, <2>10
      <3>2. s[at(i)] < s[at(j)]
        BY <1>1, <3>1
      <3> QED
        BY <2>7, <3>2
    <2>11. t[n] - t[1] >= Scale
      <3>1. 1 \in 1..n /\ n \in 1..n
        BY <2>2
      <3>2. t[1] = s[1] /\ t[n] = s[l]
        BY <2>4, <2>5, <2>7, <3>1
      <3> QED
        BY <1>1, <3>2
    <2>12. References(t, n)
      BY <2>7, <2>8, <2>9, <2>10, <2>11 DEF References, Rising
    <2> QED
      BY <1>3, <2>1, <2>12
  <1> QED
    BY <1>2, <1>3

\* The points of a part of the axis, its ends among them.
LEMMA LobattoIs ==
    ASSUME NEW f \in Instances
    PROVE  /\ IsFiniteSet(Lobatto(f)) /\ Lobatto(f) \subseteq Int
           /\ \E x, y \in Lobatto(f) : x + Width = y
  <1> DEFINE subs == f.subdomains
             from(s) == ((s - 1) * Grid + 1) * Scale
             part(s) == {from(s) + (Width * j) \div (Share(f, s) - 1) : j \in 0..(Share(f, s) - 1)}
             high == (subs * Grid + 1) * Scale
  <1>1. subs \in Nat /\ subs > 0 /\ f.n \in Nat
    BY DEF Instances
  <1>2. Grid \in Nat /\ Grid > 1 /\ Scale \in Nat /\ Scale > 0 /\ Grid - 1 \in Nat
    BY RemezAssumption
  <1>3. Width \in Nat
    BY <1>2 DEF Width
  <1>4. Lobatto(f) = UNION {part(s) : s \in 1..subs}
    BY DEF Lobatto
  <1> HIDE DEF subs
  <1>5. ASSUME NEW s \in 1..subs PROVE from(s) \in Nat /\ from(s) <= high
    <2>1. s - 1 \in Nat /\ s - 1 <= subs
      BY <1>1
    <2>3. (s - 1) * Grid + 1 \in Nat /\ subs * Grid + 1 \in Nat /\ (s - 1) * Grid + 1 <= subs * Grid + 1
      <3>1. (s - 1) * Grid \in Nat /\ subs * Grid \in Nat
        BY <1>1, <1>2, <2>1
      <3>2. (s - 1) * Grid <= subs * Grid
        BY <1>1, <1>2, <2>1, Products
      <3> QED
        BY <3>1, <3>2
    <2> DEFINE u == (s - 1) * Grid + 1
               v == subs * Grid + 1
    <2>4. u * Scale \in Nat /\ v * Scale \in Nat /\ u * Scale <= v * Scale
      <3>1. u \in Nat /\ v \in Nat /\ u <= v
        BY <2>3
      <3> HIDE DEF u, v
      <3>2. u * Scale \in Nat /\ v * Scale \in Nat
        BY <1>2, <3>1
      <3> QED
        BY <1>2, <3>1, <3>2, Products
    <2> QED
      BY <2>4
  <1> HIDE DEF from, high
  <1>6. ASSUME NEW s \in 1..subs PROVE Share(f, s) - 1 \in Nat /\ Share(f, s) - 1 > 0
    <2> DEFINE share == (f.n \div f.subdomains) + IF s <= f.n % f.subdomains THEN 1 ELSE 0
    <2>1. share \in Int
      BY <1>1, QuotientIs DEF subs
    <2>2. Share(f, s) = IF share < 2 THEN 2 ELSE share
      BY DEF Share
    <2> HIDE DEF share
    <2> QED
      BY <2>1, <2>2
  <1>7. ASSUME NEW s \in 1..subs, NEW j \in 0..(Share(f, s) - 1)
        PROVE  (Width * j) \div (Share(f, s) - 1) \in 0..Width
    <2> DEFINE d == Share(f, s) - 1
               a == Width * j
               q == a \div d
               p == a % d
    <2>1. d \in Nat /\ d > 0 /\ j \in Nat /\ j <= d
      BY <1>6
    <2>2. a \in Nat /\ a <= d * Width
      <3>1. j * Width <= d * Width
        BY <1>3, <2>1, Products
      <3>2. j * Width = Width * j /\ Width * j \in Nat
        BY <1>3, <2>1
      <3> QED
        BY <3>1, <3>2
    <2> HIDE DEF d, a
    <2>3. q \in Int /\ p \in Int /\ a = d * q + p /\ 0 <= p /\ p < d
      BY <2>1, <2>2, QuotientIs
    <2> HIDE DEF q, p
    <2>4. ~(q < 0)
      <3>1. q < 0 => q * d + d <= 0 * d
        BY <2>1, <2>3, Multiples
      <3>2. q * d = d * q /\ 0 * d = 0 /\ d * q \in Int
        BY <2>1, <2>3
      <3> QED
        BY <2>1, <2>2, <2>3, <3>1, <3>2
    <2>5. ~(Width < q)
      <3>1. Width < q => Width * d + d <= q * d
        BY <1>3, <2>1, <2>3, Multiples
      <3>2. q * d = d * q /\ Width * d = d * Width /\ d * q \in Int /\ d * Width \in Int
        BY <1>3, <2>1, <2>3
      <3> QED
        BY <2>1, <2>2, <2>3, <3>1, <3>2
    <2>6. q \in 0..Width
      BY <1>3, <2>3, <2>4, <2>5
    <2> QED
      BY <2>6 DEF q, a, d
  <1>8. high \in Nat
    <2>1. 1 \in 1..subs
      BY <1>1
    <2>2. subs * Grid + 1 \in Nat
      BY <1>1, <1>2
    <2>3. (subs * Grid + 1) * Scale \in Nat
      BY <1>2, <2>2
    <2> QED
      BY <2>3 DEF high
  <1>9. ASSUME NEW x \in Lobatto(f) PROVE x \in 0..(high + Width)
    <2>1. PICK s \in 1..subs : x \in part(s)
      BY <1>4
    <2>2. PICK j \in 0..(Share(f, s) - 1) : x = from(s) + (Width * j) \div (Share(f, s) - 1)
      BY <2>1
    <2> DEFINE q == (Width * j) \div (Share(f, s) - 1)
    <2>3. q \in 0..Width /\ from(s) \in Nat /\ from(s) <= high /\ x = from(s) + q
      BY <1>5, <1>7, <2>2
    <2> HIDE DEF q
    <2> QED
      BY <1>3, <1>8, <2>3
  <1>10. IsFiniteSet(Lobatto(f))
    <2>1. Lobatto(f) \in SUBSET (0..(high + Width))
      BY <1>9
    <2>2. 0 \in Int /\ high + Width \in Int
      BY <1>3, <1>8
    <2>3. IsFiniteSet(0..(high + Width))
      BY <2>2, FS_Interval
    <2> QED
      BY <2>1, <2>3, FS_Subset
  <1>11. Lobatto(f) \subseteq Int
    BY <1>9
  <1>12. from(1) \in Lobatto(f) /\ from(1) + Width \in Lobatto(f)
    <2> DEFINE d == Share(f, 1) - 1
    <2>1. 1 \in 1..subs
      BY <1>1
    <2>2. d \in Nat /\ d > 0
      BY <1>6, <2>1
    <2>3. (Width * 0) \div d = 0
      <3>1. Width * 0 = 0 * d
        BY <1>3, <2>2
      <3>2. (0 * d) \div d = 0
        BY <2>2, ExactQuotient
      <3> QED
        BY <3>1, <3>2
    <2>4. (Width * d) \div d = Width
      BY <1>3, <2>2, ExactQuotient
    <2>5. 0 \in 0..d /\ d \in 0..d
      BY <2>2
    <2> HIDE DEF d
    <2>6. part(1) = {from(1) + (Width * j) \div d : j \in 0..d}
      BY DEF d
    <2>7. from(1) \in Nat
      BY <1>5, <2>1
    <2>8. from(1) + 0 = from(1)
      BY <2>7
    <2>9. from(1) \in part(1)
      BY <2>3, <2>5, <2>6, <2>8
    <2>10. from(1) + Width \in part(1)
      BY <2>4, <2>5, <2>6
    <2> HIDE DEF part
    <2> QED
      BY <1>4, <2>1, <2>9, <2>10
  <1> QED
    BY <1>10, <1>11, <1>12

\* A solve starts from as many references as there are unknowns.
LEMMA InitialNodesAre ==
    ASSUME NEW f \in Instances, f.n > 1, f.n <= Scale
    PROVE  References(InitialNodes(f), f.n)
  <1> DEFINE places == Lobatto(f)
             s == Ascending(places)
             l == Cardinality(places)
             t == Thinned(s, f.n)
  <1>1. f.n \in Nat /\ Scale \in Nat /\ Grid - 1 \in Nat /\ Grid - 1 >= 1
    BY RemezAssumption DEF Instances
  <1>2. IsFiniteSet(places) /\ places \subseteq Int /\ \E x, y \in places : x + Width = y
    BY LobattoIs
  <1>3. Width \in Nat /\ Width >= Scale /\ Width > 0
    <2>1. 1 * Scale <= (Grid - 1) * Scale /\ (Grid - 1) * Scale \in Int
      BY <1>1, Products
    <2>2. 1 * Scale = Scale
      BY <1>1
    <2> QED
      BY <1>1, <2>1, <2>2, RemezAssumption DEF Width
  <1>4. /\ Rising(s) /\ Len(s) = l
        /\ \A x \in places : \E k \in DOMAIN s : s[k] = x
    BY <1>2, AscendingIs
  <1>5. InitialNodes(f) = Filled(t, f.n, TRUE)
    BY DEF InitialNodes
  <1> HIDE DEF t, s, places, l
  <1>6. l \in Nat /\ DOMAIN s = 1..l /\ \A i \in 1..l : s[i] \in Int
    BY <1>4, SequenceIs DEF Rising
  <1>7. PICK x \in places, y \in places : x + Width = y
    BY <1>2
  <1>8. PICK i \in 1..l : s[i] = x
    BY <1>4, <1>6
  <1>9. PICK j \in 1..l : s[j] = y
    BY <1>4, <1>6
  <1>10. x \in Int /\ y \in Int /\ x + Scale <= y
    <2>1. x \in Int /\ y \in Int
      BY <1>2
    <2> QED
      BY <1>1, <1>3, <1>7, <2>1
  <1>11. l > 1
    <2>1. i # j
      BY <1>3, <1>7, <1>8, <1>9, <1>10
    <2> QED
      BY <1>6, <2>1
  <1>12. s[l] - s[1] >= Scale
    <2>1. 1 \in 1..l /\ l \in 1..l /\ s[1] \in Int /\ s[l] \in Int
      BY <1>6, <1>11
    <2>2. s[1] <= x
      <3>1. 1 < i \/ 1 = i
        BY <1>6
      <3>2. 1 < i => s[1] < s[i]
        BY <1>4, <1>6, <2>1 DEF Rising
      <3> QED
        BY <1>8, <1>10, <2>1, <3>1, <3>2
    <2>3. y <= s[l]
      <3>1. j < l \/ j = l
        BY <1>6
      <3>2. j < l => s[j] < s[l]
        BY <1>4, <1>6, <2>1 DEF Rising
      <3> QED
        BY <1>9, <1>10, <2>1, <3>1, <3>2
    <2> QED
      BY <1>1, <1>10, <2>1, <2>2, <2>3
  <1>13. References(s, l)
    BY <1>4, <1>12 DEF References
  <1>14. IF l > f.n THEN References(t, f.n) ELSE t = s
    BY <1>1, <1>6, <1>11, <1>13, ThinnedIs DEF t
  <1>15. CASE l > f.n
    <2> DEFINE n == f.n
    <2>1. n \in Nat /\ n > 1 /\ n <= n /\ n <= Scale /\ TRUE \in BOOLEAN
      BY <1>1
    <2>2. References(t, n)
      BY <1>14, <1>15
    <2> HIDE DEF n
    <2>3. References(Filled(t, n, TRUE), n)
      BY <2>1, <2>2, FilledIs
    <2> QED
      BY <1>5, <2>3 DEF n
  <1>16. CASE ~(l > f.n)
    <2>1. l <= f.n /\ t = s
      BY <1>1, <1>6, <1>14, <1>16
    <2> QED
      BY <1>1, <1>5, <1>6, <1>11, <1>13, <2>1, FilledIs
  <1> QED
    BY <1>15, <1>16

-----------------------------------------------------------------------------
(* Choosing alternating references. *)

\* The first of the largest values.
LEMMA FirstLargest ==
    ASSUME NEW m \in Nat, NEW h \in [1..m -> Int], NEW places \in SUBSET (1..m), places # {}
    PROVE  \E i \in places : \A j \in places : h[j] < h[i] \/ (h[j] = h[i] /\ i <= j)
  <1> DEFINE First(pl) == \E i \in pl : \A j \in pl : h[j] < h[i] \/ (h[j] = h[i] /\ i <= j)
             T == {k \in Nat : k <= m => \A pl \in SUBSET (1..k) : pl # {} => First(pl)}
  <1>1. 0 \in T
    <2>1. \A pl \in SUBSET (1..0) : pl = {}
      OBVIOUS
    <2> HIDE DEF First
    <2> QED
      BY <2>1
  <1>2. ASSUME NEW k \in Nat, k \in T PROVE k + 1 \in T
    <2>1. SUFFICES ASSUME k + 1 <= m, NEW pl \in SUBSET (1..(k + 1)), pl # {} PROVE First(pl)
      <3> HIDE DEF First
      <3> QED
        BY <2>1
    <2> DEFINE low == pl \ {k + 1}
    <2>2. low \in SUBSET (1..k) /\ k <= m
      BY <2>1
    <2>3. \A j \in 1..(k + 1) : h[j] \in Int
      BY <2>1
    <2>4. CASE k + 1 \notin pl
      <3>1. pl \in SUBSET (1..k)
        BY <2>4
      <3> HIDE DEF First
      <3> QED
        BY <1>2, <2>1, <2>2, <3>1
    <2>5. CASE k + 1 \in pl /\ low = {}
      <3>1. pl = {k + 1}
        BY <2>5
      <3> QED
        BY <2>3, <3>1
    <2>6. CASE k + 1 \in pl /\ low # {}
      <3>1. First(low)
        <4> HIDE DEF First, low
        <4> QED
          BY <1>2, <2>2, <2>6
      <3>2. PICK i \in low : \A j \in low : h[j] < h[i] \/ (h[j] = h[i] /\ i <= j)
        BY <3>1
      <3>3. i \in pl /\ i <= k /\ h[i] \in Int /\ h[k + 1] \in Int /\ i \in Nat
        BY <2>2, <2>3
      <3>4. \A j \in pl : j \in low \/ j = k + 1
        OBVIOUS
      <3>5. \A j \in low : h[j] \in Int /\ j \in Nat /\ j <= k
        BY <2>2, <2>3
      <3> HIDE DEF low
      <3>6. CASE h[k + 1] > h[i]
        <4>1. \A j \in pl : h[j] < h[k + 1] \/ (h[j] = h[k + 1] /\ k + 1 <= j)
          BY <3>2, <3>3, <3>4, <3>5, <3>6
        <4> QED
          BY <2>6, <4>1
      <3>7. CASE ~(h[k + 1] > h[i])
        <4>1. \A j \in pl : h[j] < h[i] \/ (h[j] = h[i] /\ i <= j)
          BY <3>2, <3>3, <3>4, <3>5, <3>7
        <4> QED
          BY <3>3, <4>1
      <3> QED
        BY <3>6, <3>7
    <2> HIDE DEF First
    <2> QED
      BY <2>4, <2>5, <2>6
  <1>3. m \in T
    <2> HIDE DEF T
    <2>1. Nat \subseteq T
      BY <1>1, <1>2, NatSetInduction
    <2> QED
      BY <2>1
  <1> HIDE DEF First
  <1>4. First(places)
    BY <1>3
  <1> QED
    BY <1>4 DEF First

\* Between the places of neighbours nothing is picked.
LEMMA PickedNeighbours ==
    ASSUME NEW points, IsSequence(points), NEW places \in SUBSET DOMAIN points,
           NEW k \in 1..(Len(Picked(points, places)) - 1)
    PROVE  LET s == Ascending(places)
               t == Picked(points, places)
           IN  /\ s[k] \in places /\ s[k + 1] \in places /\ s[k] < s[k + 1]
               /\ t[k] = points[s[k]] /\ t[k + 1] = points[s[k + 1]]
               /\ \A x \in places : ~(s[k] < x /\ x < s[k + 1])
  <1> DEFINE s == Ascending(places)
             t == Picked(points, places)
             l == Len(t)
  <1>1. /\ IsSequence(t) /\ Len(t) = Cardinality(places) /\ DOMAIN t = DOMAIN s
        /\ \A i \in DOMAIN t : s[i] \in places /\ t[i] = points[s[i]]
        /\ \A i, j \in DOMAIN t : i < j => s[i] < s[j]
    BY PickedIs
  <1>2. DOMAIN points = 1..Len(points) /\ Len(points) \in Nat
    BY SequenceIs
  <1>3. IsFiniteSet(places) /\ places \subseteq Int
    <2>1. 1 \in Int /\ Len(points) \in Int
      BY <1>2
    <2>2. IsFiniteSet(1..Len(points))
      BY <2>1, FS_Interval
    <2> QED
      BY <1>2, <2>2, FS_Subset
  <1>4. \A x \in places : \E i \in DOMAIN s : s[i] = x
    BY <1>3, AscendingIs
  <1> HIDE DEF s, t
  <1>5. DOMAIN t = 1..l /\ l \in Nat
    BY <1>1, SequenceIs
  <1>6. k \in 1..(l - 1)
    BY DEF t, l
  <1> HIDE DEF l
  <1>7. k \in 1..l /\ k + 1 \in 1..l /\ k < k + 1
    BY <1>5, <1>6
  <1>8. /\ s[k] \in places /\ s[k + 1] \in places /\ s[k] < s[k + 1]
        /\ t[k] = points[s[k]] /\ t[k + 1] = points[s[k + 1]]
    BY <1>1, <1>5, <1>7
  <1>9. ASSUME NEW x \in places, s[k] < x, x < s[k + 1] PROVE FALSE
    <2>1. PICK i \in 1..l : s[i] = x
      BY <1>1, <1>4, <1>5
    <2>2. s[i] \in Int /\ s[k] \in Int /\ s[k + 1] \in Int
      BY <1>3, <1>8, <2>1
    <2>3. ~(i < k) /\ i # k
      <3>1. i < k => s[i] < s[k]
        BY <1>1, <1>5, <1>7
      <3> QED
        BY <1>9, <2>1, <2>2, <3>1
    <2>4. ~(k + 1 < i) /\ i # k + 1
      <3>1. k + 1 < i => s[k + 1] < s[i]
        BY <1>1, <1>5, <1>7
      <3> QED
        BY <1>9, <2>1, <2>2, <3>1
    <2> QED
      BY <1>7, <2>3, <2>4
  <1> QED
    BY <1>8, <1>9 DEF s, t

\* Points of a curve, extrema all of them.
Extremes(points) == \A i \in DOMAIN points : Extreme(points[i])

Among(points, all) == \A i \in DOMAIN points : \E x \in DOMAIN all : points[i] = all[x]

LEMMA TallIs == \A p : Extreme(p) => Tall(p) \in Nat
  <1>1. \A x \in Int : Magnitude(x) \in Nat
    BY DEF Magnitude
  <1> QED
    BY <1>1 DEF Extreme, Tall

LEMMA PickedAmong ==
    ASSUME NEW points, IsSequence(points), NEW places \in SUBSET DOMAIN points
    PROVE  Among(Picked(points, places), points)
  <1> DEFINE s == Ascending(places)
             t == Picked(points, places)
  <1>1. \A k \in DOMAIN t : s[k] \in places /\ t[k] = points[s[k]]
    BY PickedIs
  <1> HIDE DEF s, t
  <1>2. Among(t, points)
    BY <1>1 DEF Among
  <1> QED
    BY <1>2 DEF t

LEMMA AmongAll ==
    ASSUME NEW s, NEW t, NEW all, Among(s, t), Among(t, all)
    PROVE  Among(s, all)
  BY DEF Among

\* Runs of one side.
SameRun(side, i, j) == \A k \in (i..j) \cup (j..i) : side[k] = side[i]
KeptOf(points, side) ==
    {i \in DOMAIN points :
        \A j \in DOMAIN points : SameRun(side, i, j) /\ j # i =>
            IF j < i THEN Tall(points[j]) < Tall(points[i])
            ELSE Tall(points[j]) <= Tall(points[i])}

LEMMA CollapsedAre == \A points, side : Collapsed(points, side) = Picked(points, KeptOf(points, side))
  BY DEF Collapsed, KeptOf, SameRun

LEMMA SameRunOn ==
    ASSUME NEW side, NEW i \in Int, NEW j \in Int, NEW k \in Int, SameRun(side, i, j), SameRun(side, j, k)
    PROVE  SameRun(side, i, k)
  <1>1. side[j] = side[i]
    <2>1. j \in (i..j) \cup (j..i)
      OBVIOUS
    <2> QED
      BY <2>1 DEF SameRun
  <1>2. ASSUME NEW x \in (i..k) \cup (k..i) PROVE side[x] = side[i]
    <2>1. x \in (i..j) \cup (j..i) \/ x \in (j..k) \cup (k..j)
      OBVIOUS
    <2> QED
      BY <1>1, <2>1 DEF SameRun
  <1> QED
    BY <1>2 DEF SameRun

\* Every run keeps its tallest point.
LEMMA RunIsKept ==
    ASSUME NEW points, IsSequence(points), Extremes(points), NEW side, NEW i \in DOMAIN points
    PROVE  \E k \in KeptOf(points, side) : SameRun(side, i, k) /\ Tall(points[i]) <= Tall(points[k])
  <1> DEFINE m == Len(points)
             h == [x \in 1..m |-> Tall(points[x])]
             run == {x \in 1..m : SameRun(side, i, x)}
  <1>1. m \in Nat /\ DOMAIN points = 1..m
    BY SequenceIs
  <1>2. \A x \in 1..m : Tall(points[x]) \in Nat
    BY <1>1, TallIs DEF Extremes
  <1>3. h \in [1..m -> Int] /\ \A x \in 1..m : h[x] = Tall(points[x])
    BY <1>2
  <1>4. SameRun(side, i, i)
    <2>1. \A x \in (i..i) \cup (i..i) : x = i
      BY <1>1
    <2> QED
      BY <2>1 DEF SameRun
  <1>5. run \in SUBSET (1..m) /\ run # {} /\ i \in run
    BY <1>1, <1>4
  <1> HIDE DEF h
  <1>6. PICK k \in run : \A j \in run : h[j] < h[k] \/ (h[j] = h[k] /\ k <= j)
    <2> HIDE DEF run, m
    <2> QED
      BY <1>1, <1>3, <1>5, FirstLargest
  <1>7. k \in 1..m /\ SameRun(side, i, k)
    OBVIOUS
  <1>8. k \in KeptOf(points, side)
    <2>1. SUFFICES ASSUME NEW j \in 1..m, SameRun(side, k, j), j # k
                   PROVE  IF j < k THEN Tall(points[j]) < Tall(points[k])
                          ELSE Tall(points[j]) <= Tall(points[k])
      BY <1>1, <1>7 DEF KeptOf
    <2>2. j \in Int /\ k \in Int /\ i \in Int
      BY <1>1, <1>7
    <2>3. j \in run
      BY <1>7, <2>1, <2>2, SameRunOn
    <2>4. h[j] < h[k] \/ (h[j] = h[k] /\ k <= j)
      BY <1>6, <2>3
    <2> QED
      BY <1>2, <1>3, <1>7, <2>1, <2>2, <2>4
  <1>9. Tall(points[i]) <= Tall(points[k])
    BY <1>1, <1>2, <1>3, <1>5, <1>6, <1>7
  <1> QED
    BY <1>7, <1>8, <1>9

\* Neighbours left are of different sides.
LEMMA CollapsedAlternates ==
    ASSUME NEW points, IsSequence(points), Extremes(points), NEW side,
           NEW k \in 1..(Len(Collapsed(points, side)) - 1)
    PROVE  \E a, b \in DOMAIN points :
               /\ Collapsed(points, side)[k] = points[a] /\ Collapsed(points, side)[k + 1] = points[b]
               /\ side[a] # side[b]
  <1> DEFINE places == KeptOf(points, side)
             s == Ascending(places)
             t == Picked(points, places)
             a == s[k]
             b == s[k + 1]
  <1>1. t = Collapsed(points, side)
    BY CollapsedAre
  <1>2. places \in SUBSET DOMAIN points
    BY DEF KeptOf
  <1>3. k \in 1..(Len(t) - 1)
    BY <1>1
  <1> HIDE DEF places
  <1>4. /\ s[k] \in places /\ s[k + 1] \in places /\ s[k] < s[k + 1]
        /\ t[k] = points[s[k]] /\ t[k + 1] = points[s[k + 1]]
        /\ \A x \in places : ~(s[k] < x /\ x < s[k + 1])
    BY <1>2, <1>3, PickedNeighbours
  <1> HIDE DEF s, t
  <1>9. /\ a \in places /\ b \in places /\ a < b /\ t[k] = points[a] /\ t[k + 1] = points[b]
         /\ \A x \in places : ~(a < x /\ x < b)
    BY <1>4
  <1> HIDE DEF a, b
  <1>5. DOMAIN points = 1..Len(points) /\ Len(points) \in Nat
    BY SequenceIs
  <1>6. a \in DOMAIN points /\ b \in DOMAIN points /\ a \in Int /\ b \in Int
    BY <1>2, <1>9, <1>5
  <1>7. ~SameRun(side, a, b)
    <2>1. SUFFICES ASSUME SameRun(side, a, b) PROVE FALSE
      OBVIOUS
    <2>2. Tall(points[a]) \in Nat /\ Tall(points[b]) \in Nat
      BY <1>6, TallIs DEF Extremes
    <2>3. SameRun(side, b, a)
      <3>1. side[b] = side[a]
        <4>1. b \in (a..b) \cup (b..a)
          BY <1>6
        <4> QED
          BY <2>1, <4>1 DEF SameRun
      <3> QED
        BY <2>1, <3>1 DEF SameRun
    <2>4. Tall(points[b]) <= Tall(points[a])
      <3>1. ~(b < a) /\ b # a
        BY <1>9, <1>6
      <3> QED
        BY <1>9, <1>6, <2>1, <3>1 DEF places, KeptOf
    <2>5. Tall(points[a]) < Tall(points[b])
      <3>1. a < b /\ a # b
        BY <1>9, <1>6
      <3> QED
        BY <1>9, <1>6, <2>3, <3>1 DEF places, KeptOf
    <2> QED
      BY <2>2, <2>4, <2>5
  <1>8. side[a] # side[b]
    <2>1. SUFFICES ASSUME side[a] = side[b] PROVE FALSE
      OBVIOUS
    <2>2. PICK c \in (a..b) \cup (b..a) : side[c] # side[a]
      BY <1>7 DEF SameRun
    <2>3. c \in Int /\ a < c /\ c < b /\ c \in DOMAIN points
      <3>1. c \in Int /\ a <= c /\ c <= b /\ c # a /\ c # b
        BY <1>9, <1>6, <2>1, <2>2
      <3> QED
        BY <1>5, <1>6, <3>1
    <2>4. PICK x \in places : SameRun(side, c, x)
      BY <2>3, RunIsKept DEF places
    <2>5. x \in Int
      BY <1>2, <1>5
    <2>6. a < x
      <3>1. SUFFICES ASSUME x <= a PROVE FALSE
        BY <1>6, <2>5
      <3>2. a \in (c..x) \cup (x..c)
        BY <1>6, <2>3, <2>5, <3>1
      <3> QED
        BY <2>2, <2>4, <3>2 DEF SameRun
    <2>7. x < b
      <3>1. SUFFICES ASSUME b <= x PROVE FALSE
        BY <1>6, <2>5
      <3>2. b \in (c..x) \cup (x..c)
        BY <1>6, <2>3, <2>5, <3>1
      <3> QED
        BY <2>1, <2>2, <2>4, <3>2 DEF SameRun
    <2> QED
      BY <1>9, <2>6, <2>7
  <1> QED
    BY <1>1, <1>9, <1>6, <1>8

\* Two chains of the same points are one.
LEMMA PrefixOfChain ==
    ASSUME NEW s, NEW t, Chain(s), Chain(t), Among(s, t), Among(t, s)
    PROVE  Len(s) <= Len(t) /\ \A i \in 1..Len(s) : s[i] = t[i]
  <1> DEFINE m == Len(s)
             n == Len(t)
  <1>1. m \in Nat /\ n \in Nat /\ DOMAIN s = 1..m /\ DOMAIN t = 1..n
    BY SequenceIs DEF Chain
  <1>2. Scale \in Nat /\ Scale > 0
    BY RemezAssumption
  <1>3. /\ \A i \in 1..m : s[i].u \in Int
        /\ \A i \in 1..n : t[i].u \in Int
    BY <1>1 DEF Chain
  <1>4. \A i, j \in 1..m : i < j => s[i].u < s[j].u
    <2>1. \A i, j \in 1..m : i < j => s[i].u + Scale <= s[j].u
      BY <1>1 DEF Chain
    <2> QED
      BY <1>2, <1>3, <2>1
  <1>5. \A i, j \in 1..n : i < j => t[i].u < t[j].u
    <2>1. \A i, j \in 1..n : i < j => t[i].u + Scale <= t[j].u
      BY <1>1 DEF Chain
    <2> QED
      BY <1>2, <1>3, <2>1
  <1>6. /\ \A i \in 1..m : \E x \in 1..n : s[i] = t[x]
        /\ \A i \in 1..n : \E x \in 1..m : t[i] = s[x]
    BY <1>1 DEF Among
  <1> HIDE DEF m, n
  <1> DEFINE T == {k \in Nat : k <= m => k <= n /\ \A i \in 1..k : s[i] = t[i]}
  <1>7. 0 \in T
    BY <1>1
  <1>8. ASSUME NEW k \in Nat, k \in T PROVE k + 1 \in T
    <2>1. SUFFICES ASSUME k + 1 <= m PROVE k + 1 <= n /\ \A i \in 1..(k + 1) : s[i] = t[i]
      OBVIOUS
    <2>2. k <= n /\ \A i \in 1..k : s[i] = t[i]
      BY <1>1, <1>8, <2>1
    <2>3. k + 1 \in 1..m /\ \A i \in 1..k : i \in 1..m /\ i \in 1..n /\ i < k + 1
      BY <1>1, <2>1, <2>2
    <2>4. PICK x \in 1..n : s[k + 1] = t[x]
      BY <1>6, <2>3
    <2>5. ~(x <= k)
      <3>1. x <= k => x \in 1..k
        OBVIOUS
      <3>2. x \in 1..k => s[x].u < s[k + 1].u /\ s[x] = t[x] /\ s[x].u \in Int /\ s[k + 1].u \in Int
        BY <1>3, <1>4, <2>2, <2>3
      <3> QED
        BY <2>4, <3>1, <3>2
    <2>6. k + 1 <= n /\ k + 1 \in 1..n
      BY <1>1, <2>5
    <2>7. PICK y \in 1..m : t[k + 1] = s[y]
      BY <1>6, <2>6
    <2>8. ~(y <= k)
      <3>1. y <= k => y \in 1..k
        OBVIOUS
      <3>2. y \in 1..k => t[y].u < t[k + 1].u /\ s[y] = t[y] /\ t[y].u \in Int /\ t[k + 1].u \in Int
        BY <1>3, <1>5, <2>2, <2>3, <2>6
      <3> QED
        BY <2>7, <3>1, <3>2
    <2>9. x = k + 1
      <3>1. SUFFICES ASSUME x > k + 1 PROVE FALSE
        BY <2>5
      <3>2. t[k + 1].u < t[x].u
        BY <1>5, <2>6, <3>1
      <3>3. y = k + 1 \/ y > k + 1
        BY <2>8
      <3>4. y > k + 1 => s[k + 1].u < s[y].u
        BY <1>4, <2>3
      <3>5. t[k + 1].u \in Int /\ t[x].u \in Int /\ s[k + 1].u \in Int /\ s[y].u \in Int
        BY <1>3, <2>3, <2>6
      <3> QED
        BY <2>4, <2>7, <3>2, <3>3, <3>4, <3>5
    <2>10. \A i \in 1..(k + 1) : i \in 1..k \/ i = k + 1
      OBVIOUS
    <2> QED
      BY <2>2, <2>4, <2>6, <2>9, <2>10
  <1>9. Nat \subseteq T
    <2> HIDE DEF T
    <2> QED
      BY <1>7, <1>8, NatSetInduction
  <1>10. m \in T
    <2> HIDE DEF T
    <2> QED
      BY <1>1, <1>9
  <1>11. m <= n /\ \A i \in 1..m : s[i] = t[i]
    BY <1>1, <1>10
  <1> QED
    BY <1>11 DEF m, n

LEMMA SameChain ==
    ASSUME NEW s, NEW t, Chain(s), Chain(t), Among(s, t), Among(t, s)
    PROVE  s = t
  <1>1. /\ Len(s) <= Len(t) /\ \A i \in 1..Len(s) : s[i] = t[i]
        /\ Len(t) <= Len(s)
    BY PrefixOfChain
  <1>2. s = [i \in 1..Len(s) |-> s[i]] /\ t = [i \in 1..Len(t) |-> t[i]]
    BY SequenceIs DEF Chain
  <1>3. Len(s) = Len(t)
    <2>1. Len(s) \in Nat /\ Len(t) \in Nat
      BY SequenceIs DEF Chain
    <2> QED
      BY <1>1, <2>1
  <1> QED
    BY <1>1, <1>2, <1>3

\* A curve has extrema, and its peak is the tallest.
LEMMA SampleIs ==
    ASSUME NEW c, IsCurve(c), NEW i \in 1..(Grid * Len(c))
    PROVE  LET s == ((i - 1) \div Grid) + 1
               j == ((i - 1) % Grid) + 1
           IN  /\ s \in DOMAIN c /\ j \in 1..Grid /\ i = (s - 1) * Grid + j
               /\ Samples(c)[i] = [u |-> i * Scale, r |-> c[s][j], mu |-> Mu(c[s], j)]
  <1> DEFINE q == (i - 1) \div Grid
             p == (i - 1) % Grid
             n == Len(c)
  <1>1. Grid \in Nat /\ Grid > 1 /\ n \in Nat /\ DOMAIN c = 1..n
    BY RemezAssumption, LenProperties DEF IsCurve
  <1>2. Samples(c)[i] = [u |-> i * Scale, r |-> c[q + 1][p + 1], mu |-> Mu(c[q + 1], p + 1)]
    BY DEF Samples
  <1>3. q \in Int /\ p \in Int /\ i - 1 = Grid * q + p /\ 0 <= p /\ p < Grid
    <2>1. i - 1 \in Int /\ Grid > 0
      BY <1>1
    <2> QED
      BY <1>1, <2>1, QuotientIs
  <1>4. Grid * n \in Int /\ i \in Int /\ 1 <= i /\ i <= Grid * n
    BY <1>1
  <1> HIDE DEF q, p, n
  <1>5. ~(q < 0)
    <2>1. q < 0 => q * Grid + Grid <= 0 * Grid
      BY <1>1, <1>3, Multiples
    <2>2. q * Grid = Grid * q /\ 0 * Grid = 0 /\ Grid * q \in Int
      BY <1>1, <1>3
    <2> QED
      BY <1>1, <1>3, <1>4, <2>1, <2>2
  <1>6. q < n
    <2>1. n <= q => n * Grid <= q * Grid
      BY <1>1, <1>3, Products
    <2>2. q * Grid = Grid * q /\ n * Grid = Grid * n /\ Grid * q \in Int
      BY <1>1, <1>3
    <2> QED
      BY <1>1, <1>3, <1>4, <2>1, <2>2
  <1>7. q + 1 \in 1..n /\ p + 1 \in 1..Grid
    BY <1>1, <1>3, <1>5, <1>6
  <1>8. i = (q + 1 - 1) * Grid + (p + 1)
    <2>1. q + 1 - 1 = q /\ q * Grid = Grid * q /\ Grid * q \in Int
      BY <1>1, <1>3
    <2> QED
      BY <1>3, <1>4, <2>1
  <1> QED
    BY <1>1, <1>2, <1>7, <1>8 DEF q, p

LEMMA SamplesAre ==
    ASSUME NEW c, IsCurve(c)
    PROVE  /\ DOMAIN Samples(c) = 1..(Grid * Len(c))
           /\ \A s \in DOMAIN c, j \in 1..Grid :
                /\ (s - 1) * Grid + j \in DOMAIN Samples(c)
                /\ Samples(c)[(s - 1) * Grid + j].r = c[s][j]
                /\ Samples(c)[(s - 1) * Grid + j].mu = Mu(c[s], j)
  <1>1. DOMAIN Samples(c) = 1..(Grid * Len(c))
    BY DEF Samples
  <1>2. Grid \in Nat /\ Grid > 1 /\ Len(c) \in Nat /\ DOMAIN c = 1..Len(c)
    BY RemezAssumption, LenProperties DEF IsCurve
  <1>3. ASSUME NEW s \in DOMAIN c, NEW j \in 1..Grid
        PROVE  /\ (s - 1) * Grid + j \in DOMAIN Samples(c)
               /\ Samples(c)[(s - 1) * Grid + j].r = c[s][j]
               /\ Samples(c)[(s - 1) * Grid + j].mu = Mu(c[s], j)
    <2> DEFINE q == s - 1
               i == q * Grid + j
               n == Len(c)
    <2>1. q \in Nat /\ q < n /\ n \in Nat /\ j \in Int /\ 1 <= j /\ j <= Grid /\ s \in Int
      BY <1>2
    <2> HIDE DEF q, n
    <2>2. i \in 1..(Grid * n)
      <3>1. q * Grid + Grid <= n * Grid /\ q * Grid \in Nat
        BY <1>2, <2>1, Multiples
      <3>2. n * Grid = Grid * n /\ n * Grid \in Int
        BY <1>2, <2>1
      <3> DEFINE x == q * Grid
                 y == n * Grid
      <3>3. x \in Nat /\ y \in Int /\ x + Grid <= y /\ i = x + j
        BY <3>1, <3>2
      <3> HIDE DEF x, y, i
      <3>4. i \in 1..y
        BY <1>2, <2>1, <3>3
      <3> QED
        BY <3>2, <3>4 DEF y
    <2> HIDE DEF i
    <2> DEFINE s1 == ((i - 1) \div Grid) + 1
               j1 == ((i - 1) % Grid) + 1
    <2>3. /\ s1 \in DOMAIN c /\ j1 \in 1..Grid /\ i = (s1 - 1) * Grid + j1
          /\ Samples(c)[i] = [u |-> i * Scale, r |-> c[s1][j1], mu |-> Mu(c[s1], j1)]
      BY <2>2, SampleIs DEF n
    <2> HIDE DEF s1, j1
    <2>4. s1 \in Int /\ j1 \in Int /\ 1 <= j1 /\ j1 <= Grid
      BY <1>2, <2>3
    <2>5. i = q * Grid + j /\ q * Grid \in Int
      BY <1>2, <2>1 DEF i
    <2>6. s1 - 1 = q
      <3> DEFINE q1 == s1 - 1
      <3>1. q1 \in Int /\ i = q1 * Grid + j1 /\ q1 * Grid \in Int
        BY <1>2, <2>3, <2>4
      <3> HIDE DEF q1
      <3>2. ~(q1 < q)
        <4>1. q1 < q => q1 * Grid + Grid <= q * Grid
          BY <1>2, <2>1, <3>1, Multiples
        <4> QED
          BY <1>2, <2>1, <2>4, <2>5, <3>1, <4>1
      <3>3. ~(q < q1)
        <4>1. q < q1 => q * Grid + Grid <= q1 * Grid
          BY <1>2, <2>1, <3>1, Multiples
        <4> QED
          BY <1>2, <2>1, <2>4, <2>5, <3>1, <4>1
      <3>4. q1 = q
        BY <2>1, <3>1, <3>2, <3>3
      <3> QED
        BY <3>4 DEF q1
    <2>7. s1 = s
      BY <2>1, <2>4, <2>6 DEF q
    <2>8. j1 = j
      BY <2>1, <2>3, <2>4, <2>5, <2>6
    <2>9. Samples(c)[i].r = c[s][j] /\ Samples(c)[i].mu = Mu(c[s], j)
      BY <2>3, <2>7, <2>8
    <2> QED
      BY <1>1, <2>2, <2>9 DEF i, q, n
  <1> QED
    BY <1>1, <1>3

LEMMA MuIs == \A v, j : Mu(v, j) \in {-1, 0, 1} /\ (j \in {1, Len(v)} => Mu(v, j) # 0)
  BY DEF Mu

LEMMA ExtremaAre ==
    ASSUME NEW c, IsCurve(c)
    PROVE  /\ Extremes(Extrema(c)) /\ Among(Extrema(c), Samples(c))
           /\ \A i \in DOMAIN Samples(c) : Samples(c)[i].mu # 0 =>
                  \E k \in DOMAIN Extrema(c) : Extrema(c)[k] = Samples(c)[i]
  <1> DEFINE all == Samples(c)
             places == {i \in DOMAIN all : all[i].mu # 0}
             t == Picked(all, places)
             s == Ascending(places)
  <1>1. Extrema(c) = t
    BY DEF Extrema
  <1>2. IsSequence(all)
    BY SamplesChain DEF Chain
  <1>3. places \in SUBSET DOMAIN all
    OBVIOUS
  <1>4. \A i \in DOMAIN all : all[i].u \in Nat /\ all[i].r \in Int /\ all[i].mu \in {-1, 0, 1}
    <2>1. SUFFICES ASSUME NEW i \in 1..(Grid * Len(c))
                   PROVE  all[i].u \in Nat /\ all[i].r \in Int /\ all[i].mu \in {-1, 0, 1}
      BY SamplesAre
    <2> DEFINE q == ((i - 1) \div Grid) + 1
               j == ((i - 1) % Grid) + 1
    <2>2. q \in DOMAIN c /\ j \in 1..Grid /\ all[i] = [u |-> i * Scale, r |-> c[q][j], mu |-> Mu(c[q], j)]
      BY SampleIs
    <2> HIDE DEF q, j
    <2>3. c[q][j] \in Int
      <3>1. c[q] \in [1..Grid -> Int]
        BY <2>2, LenProperties, ElementOfSeq DEF IsCurve
      <3> QED
        BY <2>2, <3>1
    <2>4. i * Scale \in Nat
      <3>1. i \in Nat /\ Scale \in Nat
        <4>1. Grid \in Nat /\ Len(c) \in Nat
          BY RemezAssumption, LenProperties DEF IsCurve
        <4>2. Grid * Len(c) \in Nat
          BY <4>1
        <4> QED
          BY <4>2, RemezAssumption
      <3> QED
        BY <3>1
    <2> QED
      BY <2>2, <2>3, <2>4, MuIs
  <1> HIDE DEF all
  <1>5. \A i \in places : Extreme(all[i])
    BY <1>4 DEF Extreme
  <1> HIDE DEF places
  <1>6. /\ \A k \in DOMAIN t : s[k] \in places /\ t[k] = all[s[k]]
        /\ \A x \in places : \E k \in DOMAIN t : t[k] = all[x]
    BY <1>2, <1>3, PickedIs
  <1>7. Among(t, all)
    BY <1>2, <1>3, PickedAmong
  <1> HIDE DEF s, t
  <1>8. Extremes(t)
    BY <1>5, <1>6 DEF Extremes
  <1> QED
    BY <1>1, <1>6, <1>7, <1>8 DEF all, places

LEMMA TallestIs ==
    ASSUME NEW points, IsSequence(points), Extremes(points), DOMAIN points # {}
    PROVE  /\ Tallest(points) \in Nat
           /\ \E i \in DOMAIN points : Tall(points[i]) = Tallest(points)
           /\ \A i \in DOMAIN points : Tall(points[i]) <= Tallest(points)
  <1> DEFINE m == Len(points)
             h == [x \in 1..m |-> Tall(points[x])]
             H == {Tall(points[i]) : i \in DOMAIN points}
  <1>1. m \in Nat /\ DOMAIN points = 1..m
    BY SequenceIs
  <1>2. \A x \in 1..m : Tall(points[x]) \in Nat
    BY <1>1, TallIs DEF Extremes
  <1>3. h \in [1..m -> Int] /\ \A x \in 1..m : h[x] = Tall(points[x])
    BY <1>2
  <1> HIDE DEF h, m
  <1>4. PICK k \in 1..m : \A j \in 1..m : h[j] < h[k] \/ (h[j] = h[k] /\ k <= j)
    <2>1. 1..m \in SUBSET (1..m) /\ 1..m # {}
      BY <1>1
    <2> QED
      BY <1>1, <1>3, <2>1, FirstLargest
  <1>5. \A j \in 1..m : Tall(points[j]) <= Tall(points[k])
    BY <1>2, <1>3, <1>4
  <1>6. \E x \in H : \A i \in DOMAIN points : Tall(points[i]) <= x
    BY <1>1, <1>5
  <1>7. Tallest(points) \in H /\ \A i \in DOMAIN points : Tall(points[i]) <= Tallest(points)
    BY <1>6 DEF Tallest
  <1>8. PICK i \in 1..m : Tall(points[i]) = Tallest(points)
    BY <1>1, <1>7
  <1> QED
    BY <1>1, <1>2, <1>7, <1>8

\* A tallest extremum is a peak above or a valley below.
Outward(p) == p.mu * p.r > 0

LEMMA PeakIs ==
    ASSUME NEW c, IsCurve(c), c # <<>>
    PROVE  /\ DOMAIN Extrema(c) # {} /\ Peak(c) \in Nat
           /\ \A i \in DOMAIN Extrema(c) : Tall(Extrema(c)[i]) <= Peak(c)
  <1>1. 1 \in DOMAIN c /\ 1 \in 1..Grid
    <2>1. Len(c) \in Nat /\ DOMAIN c = 1..Len(c) /\ Len(c) # 0
      BY LenProperties, EmptySeq DEF IsCurve
    <2> QED
      BY <2>1, RemezAssumption
  <1> DEFINE i == (1 - 1) * Grid + 1
  <1>2. i \in DOMAIN Samples(c) /\ Samples(c)[i].mu = Mu(c[1], 1)
    BY <1>1, SamplesAre
  <1> HIDE DEF i
  <1>3. DOMAIN Extrema(c) # {}
    <2>1. Samples(c)[i].mu # 0
      BY <1>2, MuIs
    <2> QED
      BY <1>2, <2>1, ExtremaAre
  <1>4. IsSequence(Extrema(c)) /\ Extremes(Extrema(c))
    BY ExtremaAre, ExtremaChain DEF Chain
  <1> QED
    BY <1>3, <1>4, TallestIs DEF Peak

NoFlatValley(c) ==
    \A s \in DOMAIN c : (\A i, j \in 1..Grid : c[s][i] = c[s][j]) => c[s][1] >= 0

Beside(a, b) == b = a + 1 \/ a = b + 1
Uneven(n, v) == \E i, j \in 1..n : v[i] # v[j]
EdgeOf(n, v, k) == \E a, b \in 1..n : v[a] = v[k] /\ v[b] # v[a] /\ Beside(a, b)

\* Somewhere the largest values meet another.
LEMMA EdgeOfPlateau ==
    ASSUME NEW n \in Nat, NEW v \in [1..n -> Int], NEW k \in 1..n,
           Uneven(n, v)
    PROVE  EdgeOf(n, v, k)
  <1>1. SUFFICES ASSUME \A a, b \in 1..n : v[a] = v[k] /\ Beside(a, b) => v[b] = v[a] PROVE FALSE
    BY DEF EdgeOf
  <1> DEFINE T == {d \in Nat : /\ k + d \in 1..n => v[k + d] = v[k]
                               /\ k - d \in 1..n => v[k - d] = v[k]}
  <1>2. 0 \in T
    <2>1. k + 0 = k /\ k - 0 = k
      OBVIOUS
    <2> QED
      BY <2>1
  <1>3. ASSUME NEW d \in Nat, d \in T PROVE d + 1 \in T
    <2>1. k + (d + 1) \in 1..n => v[k + (d + 1)] = v[k]
      <3>1. SUFFICES ASSUME k + (d + 1) \in 1..n PROVE v[k + (d + 1)] = v[k]
        OBVIOUS
      <3>2. k + d \in 1..n /\ k + (d + 1) = k + d + 1
        BY <3>1
      <3>3. v[k + d] = v[k]
        BY <1>3, <3>2
      <3> QED
        BY <1>1, <3>1, <3>2, <3>3 DEF Beside
    <2>2. k - (d + 1) \in 1..n => v[k - (d + 1)] = v[k]
      <3>1. SUFFICES ASSUME k - (d + 1) \in 1..n PROVE v[k - (d + 1)] = v[k]
        OBVIOUS
      <3>2. k - d \in 1..n /\ k - d = k - (d + 1) + 1
        BY <3>1
      <3>3. v[k - d] = v[k]
        BY <1>3, <3>2
      <3> QED
        BY <1>1, <3>1, <3>2, <3>3 DEF Beside
    <2>3. d + 1 \in Nat
      OBVIOUS
    <2> QED
      BY <2>1, <2>2, <2>3
  <1>4. Nat \subseteq T
    <2> HIDE DEF T
    <2> QED
      BY <1>2, <1>3, NatSetInduction
  <1>5. ASSUME NEW i \in 1..n PROVE v[i] = v[k]
    <2>1. CASE i >= k
      <3>1. i - k \in Nat /\ k + (i - k) = i
        BY <2>1
      <3>2. i - k \in T
        BY <1>4, <3>1
      <3> QED
        BY <3>1, <3>2
    <2>2. CASE i < k
      <3>1. k - i \in Nat /\ k - (k - i) = i
        BY <2>2
      <3>2. k - i \in T
        BY <1>4, <3>1
      <3> QED
        BY <3>1, <3>2
    <2> QED
      BY <2>1, <2>2
  <1> QED
    BY <1>5 DEF Uneven

\* The end of a plateau of largest error is a peak above or a valley below.
LEMMA MuOfEdge ==
    ASSUME NEW v \in [1..Grid -> Int], NEW a \in 1..Grid, NEW b \in 1..Grid,
           Beside(a, b), v[b] # v[a],
           \A j \in 1..Grid : Magnitude(v[j]) <= Magnitude(v[a])
    PROVE  Mu(v, a) * v[a] > 0 /\ Mu(v, a) # 0
  <1> DEFINE beside == {v[j] : j \in {a - 1, a + 1} \cap DOMAIN v}
             x == v[a]
             y == v[b]
  <1>1. DOMAIN v = 1..Grid /\ Grid \in Nat /\ a \in Int /\ b \in Int
    BY RemezAssumption
  <1>2. x \in Int /\ y \in Int /\ x # y
    OBVIOUS
  <1>3. y \in beside
    <2>1. b \in {a - 1, a + 1} \cap DOMAIN v
      BY <1>1 DEF Beside
    <2> QED
      BY <2>1
  <1>4. \A z \in beside : z \in Int /\ Magnitude(z) <= Magnitude(x)
    OBVIOUS
  <1>5. Mu(v, a) = IF a \in {1, Len(v)} THEN IF \A z \in beside : x >= z THEN 1 ELSE -1
                   ELSE IF (\A z \in beside : x >= z) /\ (\E z \in beside : x > z) THEN 1
                   ELSE IF (\A z \in beside : x <= z) /\ (\E z \in beside : x < z) THEN -1
                   ELSE 0
    BY DEF Mu
  <1> HIDE DEF x, y, beside
  <1>6. CASE x > 0
    <2>1. \A z \in beside : x >= z
      BY <1>2, <1>4, <1>6 DEF Magnitude
    <2>2. x > y
      BY <1>2, <1>3, <2>1
    <2>3. Mu(v, a) = 1
      BY <1>3, <1>5, <2>1, <2>2
    <2>4. 1 * x > 0
      BY <1>2, <1>6
    <2> QED
      BY <2>3, <2>4 DEF x
  <1>7. CASE x < 0
    <2>1. \A z \in beside : x <= z
      BY <1>2, <1>4, <1>7 DEF Magnitude
    <2>2. x < y /\ ~(x >= y)
      BY <1>2, <1>3, <2>1
    <2>3. Mu(v, a) = -1
      BY <1>3, <1>5, <2>1, <2>2
    <2>4. -1 * x > 0
      BY <1>2, <1>7
    <2> QED
      BY <2>3, <2>4 DEF x
  <1>8. x # 0
    <2>1. SUFFICES ASSUME x = 0 PROVE FALSE
      OBVIOUS
    <2>2. Magnitude(y) <= Magnitude(x)
      BY <1>3, <1>4
    <2> QED
      BY <1>2, <2>1, <2>2 DEF Magnitude
  <1> QED
    BY <1>2, <1>6, <1>7, <1>8

LEMMA OutwardPeak ==
    ASSUME NEW c, IsCurve(c), c # <<>>, NoFlatValley(c), Peak(c) > 0
    PROVE  \E i \in DOMAIN Extrema(c) : Tall(Extrema(c)[i]) = Peak(c) /\ Outward(Extrema(c)[i])
  <1> DEFINE all == Extrema(c)
  <1>1. /\ IsSequence(all) /\ Extremes(all) /\ DOMAIN all # {} /\ Among(all, Samples(c))
        /\ Peak(c) \in Nat /\ \A i \in DOMAIN all : Tall(all[i]) <= Peak(c)
    BY ExtremaAre, ExtremaChain, PeakIs DEF Chain
  <1>2. PICK x \in DOMAIN all : Tall(all[x]) = Peak(c)
    BY <1>1, TallestIs DEF Peak
  <1>3. PICK i \in DOMAIN Samples(c) : all[x] = Samples(c)[i]
    BY <1>1 DEF Among
  <1> HIDE DEF all
  <1> DEFINE s == ((i - 1) \div Grid) + 1
             j == ((i - 1) % Grid) + 1
  <1>4. s \in DOMAIN c /\ j \in 1..Grid /\ Samples(c)[i].r = c[s][j]
    <2>1. i \in 1..(Grid * Len(c))
      BY SamplesAre
    <2>2. s \in DOMAIN c /\ j \in 1..Grid /\ Samples(c)[i] = [u |-> i * Scale, r |-> c[s][j], mu |-> Mu(c[s], j)]
      BY <2>1, SampleIs
    <2> HIDE DEF s, j
    <2> QED
      BY <2>2
  <1> HIDE DEF s, j
  <1> DEFINE v == c[s]
             h == [k \in 1..Grid |-> Magnitude(v[k])]
  <1>5. Grid \in Nat /\ v \in [1..Grid -> Int]
    BY <1>4, RemezAssumption, LenProperties, ElementOfSeq DEF IsCurve
  <1>6. Magnitude(v[j]) = Peak(c) /\ v[j] # 0
    <2>1. Magnitude(v[j]) = Peak(c)
      BY <1>2, <1>3, <1>4 DEF Tall
    <2> QED
      BY <1>1, <2>1 DEF Magnitude
  <1>7. (\A p, q \in 1..Grid : v[p] = v[q]) => v[1] >= 0
    BY <1>4 DEF NoFlatValley
  <1> HIDE DEF v
  <1>8. \A k \in 1..Grid : v[k] \in Int /\ Magnitude(v[k]) \in Nat
    <2>1. \A y \in Int : Magnitude(y) \in Nat
      BY DEF Magnitude
    <2> QED
      BY <1>5, <2>1
  <1>9. h \in [1..Grid -> Int] /\ \A k \in 1..Grid : h[k] = Magnitude(v[k])
    BY <1>8
  <1> HIDE DEF h
  <1> DEFINE Edge(a) == Mu(v, a) * v[a] > 0 /\ Mu(v, a) # 0 /\ Magnitude(v[j]) <= Magnitude(v[a])
  <1>10. ASSUME NEW p0 \in 1..Grid, NEW q0 \in 1..Grid, v[p0] # v[q0]
         PROVE  \E a \in 1..Grid : Edge(a)
    <2>1. PICK k \in 1..Grid : \A p \in 1..Grid : h[p] < h[k] \/ (h[p] = h[k] /\ k <= p)
      <3>1. 1..Grid \in SUBSET (1..Grid) /\ 1..Grid # {}
        BY <1>4
      <3> QED
        BY <1>5, <1>9, <3>1, FirstLargest
    <2>2. \A p \in 1..Grid : Magnitude(v[p]) <= Magnitude(v[k])
      BY <1>8, <1>9, <2>1
    <2>3. PICK a \in 1..Grid, b \in 1..Grid : v[a] = v[k] /\ v[b] # v[a] /\ Beside(a, b)
      <3>1. v \in [1..Grid -> Int] /\ k \in 1..Grid /\ Uneven(Grid, v)
        BY <1>5, <1>10, <2>1 DEF Uneven
      <3>2. Grid \in Nat
        BY <1>5
      <3>3. EdgeOf(Grid, v, k)
        BY ONLY <3>1, <3>2, EdgeOfPlateau
      <3> QED
        BY <3>3 DEF EdgeOf
    <2>4. Mu(v, a) * v[a] > 0 /\ Mu(v, a) # 0
      <3>1. \A p \in 1..Grid : Magnitude(v[p]) <= Magnitude(v[a])
        BY <2>2, <2>3
      <3> QED
        BY <1>5, <2>3, <3>1, MuOfEdge
    <2>5. Magnitude(v[j]) <= Magnitude(v[a])
      BY <1>4, <2>2, <2>3
    <2> QED
      BY <2>4, <2>5
  <1>11. ASSUME \A p, q \in 1..Grid : v[p] = v[q] PROVE Edge(1)
    <2>1. 1 \in 1..Grid /\ v[1] \in Int /\ v[j] = v[1]
      <3>1. 1 \in 1..Grid
        BY RemezAssumption
      <3> QED
        BY <1>4, <1>8, <1>11, <3>1
    <2>2. v[1] > 0
      <3>1. v[1] >= 0
        BY <1>7, <1>11, Zenon
      <3>2. v[1] # 0
        BY <1>6, <2>1
      <3> QED
        BY <2>1, <3>1, <3>2
    <2>3. \A z \in {v[y] : y \in {1 - 1, 1 + 1} \cap DOMAIN v} : v[1] >= z
      <3>1. DOMAIN v = 1..Grid
        BY <1>5
      <3> QED
        BY <1>11, <2>1, <3>1
    <2>4. Mu(v, 1) = 1
      BY <2>3 DEF Mu
    <2>5. 1 * v[1] > 0
      BY <2>1, <2>2
    <2>6. Magnitude(v[j]) <= Magnitude(v[1])
      BY <1>8, <2>1
    <2> QED
      BY <2>4, <2>5, <2>6
  <1>12. PICK a \in 1..Grid : Edge(a)
    <2>1. 1 \in 1..Grid
      BY RemezAssumption
    <2> HIDE DEF Edge
    <2> QED
      BY <1>10, <1>11, <2>1, Zenon
  <1> DEFINE e == (s - 1) * Grid + a
             p == Samples(c)[e]
  <1>13. e \in DOMAIN Samples(c) /\ p.r = v[a] /\ p.mu = Mu(v, a)
    BY <1>4, SamplesAre DEF v
  <1> HIDE DEF e
  <1>14. PICK y \in DOMAIN all : all[y] = p
    <2>1. p.mu # 0
      BY <1>12, <1>13
    <2> HIDE DEF p
    <2> QED
      BY <1>13, <2>1, ExtremaAre DEF all, p
  <1> HIDE DEF p
  <1>15. Outward(p)
    BY <1>12, <1>13 DEF Outward
  <1>16. Tall(p) = Magnitude(v[a]) /\ Magnitude(v[j]) <= Magnitude(v[a])
    BY <1>12, <1>13 DEF Tall
  <1>17. Tall(p) <= Peak(c)
    BY <1>1, <1>14
  <1>18. Tall(p) = Peak(c)
    BY <1>1, <1>6, <1>8, <1>16, <1>17
  <1> QED
    BY <1>14, <1>15, <1>18 DEF all

-----------------------------------------------------------------------------
(* The references of a solve alternate and hold its peak. *)

\* Neighbours are of different sides.
Sided(points, general) ==
    \A i \in 1..(Len(points) - 1) :
        IF general THEN points[i].mu # points[i + 1].mu
        ELSE (points[i].r > 0) # (points[i + 1].r > 0)

\* A point as tall as any.
HoldsTop(points, top) == \E i \in DOMAIN points : Tall(points[i]) = top
Bounded(points, top) == \A i \in DOMAIN points : Tall(points[i]) <= top

LEMMA AmongExtremes ==
    ASSUME NEW s, NEW t, Among(s, t), Extremes(t), NEW top, Bounded(t, top)
    PROVE  Extremes(s) /\ Bounded(s, top)
  BY DEF Among, Extremes, Bounded

LEMMA CollapsedIs ==
    ASSUME NEW points, IsSequence(points), Extremes(points), NEW top \in Nat, Bounded(points, top), NEW side
    PROVE  /\ Among(Collapsed(points, side), points)
           /\ HoldsTop(points, top) => HoldsTop(Collapsed(points, side), top)
  <1> DEFINE places == KeptOf(points, side)
             t == Picked(points, places)
  <1>1. t = Collapsed(points, side)
    BY CollapsedAre
  <1>2. places \in SUBSET DOMAIN points
    BY DEF KeptOf
  <1>3. Among(t, points)
    BY <1>2, PickedAmong
  <1>4. ASSUME HoldsTop(points, top) PROVE HoldsTop(t, top)
    <2>1. PICK i \in DOMAIN points : Tall(points[i]) = top
      BY <1>4 DEF HoldsTop
    <2>2. PICK k \in places : Tall(points[i]) <= Tall(points[k])
      BY RunIsKept
    <2>3. Tall(points[k]) \in Nat /\ Tall(points[k]) <= top
      BY <1>2, TallIs DEF Extremes, Bounded
    <2>4. Tall(points[k]) = top
      BY <2>1, <2>2, <2>3
    <2>5. PICK x \in DOMAIN t : t[x] = points[k]
      BY <1>2, PickedIs
    <2> QED
      BY <2>4, <2>5 DEF HoldsTop
  <1> QED
    BY <1>1, <1>3, <1>4

LEMMA AlternatingIs ==
    ASSUME NEW points, IsSequence(points), Extremes(points)
    PROVE  Sided(Alternating(points), TRUE)
  <1> DEFINE side == [i \in DOMAIN points |-> points[i].mu]
             t == Collapsed(points, side)
  <1>1. t = Alternating(points)
    BY DEF Alternating
  <1>2. \A i \in DOMAIN points : side[i] = points[i].mu
    OBVIOUS
  <1> HIDE DEF side
  <1>3. ASSUME NEW k \in 1..(Len(t) - 1) PROVE t[k].mu # t[k + 1].mu
    <2>1. PICK a \in DOMAIN points, b \in DOMAIN points :
              t[k] = points[a] /\ t[k + 1] = points[b] /\ side[a] # side[b]
      BY CollapsedAlternates
    <2> QED
      BY <1>2, <2>1
  <1> HIDE DEF t
  <1> QED
    BY <1>1, <1>3 DEF Sided

\* An extremum picks the side of its error in the sign path.
LEMMA RunsAre ==
    ASSUME NEW all, IsSequence(all), Extremes(all), NEW top \in Nat, Bounded(all, top)
    PROVE  /\ IsSequence(Runs(all)) /\ Among(Runs(all), all) /\ Sided(Runs(all), FALSE)
           /\ top > 0 /\ HoldsTop(all, top) => HoldsTop(Runs(all), top)
  <1> DEFINE places == {i \in DOMAIN all : all[i].r # 0}
             points == Picked(all, places)
             side == [i \in DOMAIN points |-> points[i].r > 0]
             t == Collapsed(points, side)
  <1>1. t = Runs(all)
    BY DEF Runs
  <1>3. places \in SUBSET DOMAIN all
    OBVIOUS
  <1>4. top > 0 /\ HoldsTop(all, top) => \E i \in places : Tall(all[i]) = top
    <2>1. SUFFICES ASSUME top > 0, HoldsTop(all, top) PROVE \E i \in places : Tall(all[i]) = top
      OBVIOUS
    <2>2. PICK i \in DOMAIN all : Tall(all[i]) = top
      BY <2>1 DEF HoldsTop
    <2>3. all[i].r # 0
      BY <2>1, <2>2 DEF Tall, Magnitude, Extremes, Extreme
    <2> QED
      BY <2>2, <2>3
  <1> HIDE DEF places
  <1>5. IsSequence(points) /\ Among(points, all)
    BY <1>3, PickedIs, PickedAmong
  <1>6. top > 0 /\ HoldsTop(all, top) => HoldsTop(points, top)
    <2>1. \A x \in places : \E k \in DOMAIN points : points[k] = all[x]
      BY <1>3, PickedIs
    <2> HIDE DEF points
    <2> QED
      BY <1>4, <2>1 DEF HoldsTop
  <1>7. Extremes(points) /\ Bounded(points, top)
    BY <1>5, AmongExtremes
  <1> HIDE DEF points
  <1>8. \A i \in DOMAIN points : side[i] = (points[i].r > 0)
    OBVIOUS
  <1> HIDE DEF side
  <1>9. Among(t, points) /\ (HoldsTop(points, top) => HoldsTop(t, top))
    BY <1>5, <1>7, CollapsedIs
  <1>10. Among(t, all)
    BY <1>5, <1>9, AmongAll
  <1>11. Sided(t, FALSE)
    <2>1. ASSUME NEW k \in 1..(Len(t) - 1) PROVE (t[k].r > 0) # (t[k + 1].r > 0)
      <3>1. PICK a \in DOMAIN points, b \in DOMAIN points :
                t[k] = points[a] /\ t[k + 1] = points[b] /\ side[a] # side[b]
        <4>1. k \in 1..(Len(Collapsed(points, side)) - 1)
          OBVIOUS
        <4>2. \E a \in DOMAIN points, b \in DOMAIN points :
                /\ Collapsed(points, side)[k] = points[a] /\ Collapsed(points, side)[k + 1] = points[b]
                /\ side[a] # side[b]
          BY ONLY <1>5, <1>7, <4>1, CollapsedAlternates
        <4> QED
          BY <4>2
      <3> QED
        BY <1>8, <3>1
    <2> HIDE DEF t
    <2> QED
      BY <2>1 DEF Sided
  <1>12. IsSequence(t)
    <2>1. KeptOf(points, side) \in SUBSET DOMAIN points /\ t = Picked(points, KeptOf(points, side))
      BY CollapsedAre DEF KeptOf
    <2> QED
      BY <1>5, <2>1, PickedIs
  <1> QED
    BY <1>1, <1>6, <1>9, <1>10, <1>11, <1>12

\* Points no lower than a part of the level.
Above(all, e, f) == Picked(all, {i \in DOMAIN all : all[i].mu * all[i].r * f[2] >= e * f[1]})

LEMMA OutwardIs == \A p : Extreme(p) /\ Outward(p) => p.mu * p.r = Tall(p)
  <1> SUFFICES ASSUME NEW p, Extreme(p), Outward(p) PROVE p.mu * p.r = Tall(p)
    OBVIOUS
  <1>1. p.r \in Int /\ p.mu * p.r > 0
    BY DEF Extreme, Outward
  <1>2. CASE p.mu = 1
    <2>1. p.mu * p.r = p.r
      BY <1>1, <1>2
    <2> QED
      BY <1>1, <2>1 DEF Tall, Magnitude
  <1>3. CASE p.mu = -1
    <2>1. p.mu * p.r = -p.r
      BY <1>1, <1>3
    <2> QED
      BY <1>1, <2>1 DEF Tall, Magnitude
  <1> QED
    BY <1>2, <1>3 DEF Extreme

\* The top passes every threshold.
LEMMA TopPasses ==
    ASSUME NEW top \in Nat, NEW e \in 0..top, NEW k \in DOMAIN Fractions
    PROVE  top * Fractions[k][2] >= e * Fractions[k][1]
  <1>1. DOMAIN Fractions = 1..5
    BY DEF Fractions
  <1>2. /\ Fractions[1] = <<1, 1>> /\ Fractions[2] = <<1, 2>> /\ Fractions[3] = <<1, 4>>
        /\ Fractions[4] = <<1, 10>> /\ Fractions[5] = <<0, 1>>
    BY DEF Fractions
  <1>3. CASE k = 1
    BY <1>2, <1>3
  <1>4. CASE k = 2
    BY <1>2, <1>4
  <1>5. CASE k = 3
    BY <1>2, <1>5
  <1>6. CASE k = 4
    BY <1>2, <1>6
  <1>7. CASE k = 5
    BY <1>2, <1>7
  <1> QED
    BY <1>1, <1>3, <1>4, <1>5, <1>6, <1>7

LEMMA AboveIs ==
    ASSUME NEW all, IsSequence(all), Extremes(all), NEW top \in Nat, Bounded(all, top),
           \E i \in DOMAIN all : Tall(all[i]) = top /\ Outward(all[i]),
           NEW e \in 0..top, NEW k \in DOMAIN Fractions
    PROVE  LET t == Above(all, e, Fractions[k])
           IN  IsSequence(t) /\ Among(t, all) /\ HoldsTop(t, top)
  <1> DEFINE f == Fractions[k]
             places == {i \in DOMAIN all : all[i].mu * all[i].r * f[2] >= e * f[1]}
             t == Picked(all, places)
  <1>1. t = Above(all, e, f)
    BY DEF Above
  <1>2. places \in SUBSET DOMAIN all
    OBVIOUS
  <1>3. PICK i \in DOMAIN all : Tall(all[i]) = top /\ Outward(all[i])
    OBVIOUS
  <1>4. i \in places
    <2>1. all[i].mu * all[i].r = top
      BY <1>3, OutwardIs DEF Extremes
    <2>2. top * f[2] >= e * f[1]
      BY TopPasses
    <2> QED
      BY <2>1, <2>2
  <1> HIDE DEF places
  <1>5. IsSequence(t) /\ Among(t, all) /\ \A x \in places : \E j \in DOMAIN t : t[j] = all[x]
    BY <1>2, PickedIs, PickedAmong
  <1> HIDE DEF t, f
  <1>6. HoldsTop(t, top)
    BY <1>3, <1>4, <1>5 DEF HoldsTop
  <1> QED
    BY <1>1, <1>5, <1>6 DEF f

\* Extrema to select from: none, or one of them as tall as the top; and it is a
\* peak above or a valley below.
Topped(all, top) == Extremes(all) /\ Bounded(all, top) /\ (DOMAIN all # {} => HoldsTop(all, top))
Led(all, top) == top > 0 /\ DOMAIN all # {} => \E i \in DOMAIN all : Tall(all[i]) = top /\ Outward(all[i])

LEMMA SkeletonIs ==
    ASSUME NEW all, IsSequence(all), NEW top \in Nat, Topped(all, top), Led(all, top), NEW e \in 0..top, NEW n
    PROVE  /\ Among(Skeleton(all, e, n), all) /\ Sided(Skeleton(all, e, n), TRUE)
           /\ top > 0 /\ DOMAIN all # {} => HoldsTop(Skeleton(all, e, n), top)
  <1> DEFINE above(f) == Alternating(Picked(all, {i \in DOMAIN all : all[i].mu * all[i].r * f[2] >= e * f[1]}))
             enough == {k \in DOMAIN Fractions : Len(above(Fractions[k])) >= n}
             k0 == CHOOSE k \in enough : \A j \in enough : k <= j
  <1>1. Skeleton(all, e, n) = IF enough = {} THEN Alternating(all) ELSE above(Fractions[k0])
    BY DEF Skeleton
  <1>2. Extremes(all) /\ Bounded(all, top) /\ (DOMAIN all # {} => HoldsTop(all, top))
    BY DEF Topped
  <1>3. top > 0 /\ DOMAIN all # {} => \E i \in DOMAIN all : Tall(all[i]) = top /\ Outward(all[i])
    BY DEF Led
  <1>4. \A f : above(f) = Alternating(Above(all, e, f))
    BY DEF Above
  <1>5. enough # {} => k0 \in DOMAIN Fractions
    <2>1. enough \in SUBSET Nat
      BY DEF Fractions
    <2> HIDE DEF enough
    <2>2. enough # {} => \E k \in enough : \A j \in enough : k <= j
      BY <2>1, LeastNat
    <2>3. enough # {} => k0 \in enough
      BY <2>2
    <2> QED
      BY <2>3 DEF enough
  <1> HIDE DEF k0, enough
  <1>6. Skeleton(all, e, n) = Alternating(all) \/ \E k \in DOMAIN Fractions : Skeleton(all, e, n) = Alternating(Above(all, e, Fractions[k]))
    BY <1>1, <1>4, <1>5
  <1> HIDE DEF above
  <1> DEFINE Fine(t) == Among(t, all) /\ Sided(t, TRUE) /\ (top > 0 /\ DOMAIN all # {} => HoldsTop(t, top))
  <1>7. ASSUME NEW t, IsSequence(t), Among(t, all), top > 0 /\ DOMAIN all # {} => HoldsTop(t, top)
        PROVE  Fine(Alternating(t))
    <2>1. Extremes(t) /\ Bounded(t, top)
      BY <1>2, <1>7, AmongExtremes
    <2>2. Sided(Alternating(t), TRUE)
      BY <1>7, <2>1, AlternatingIs
    <2> DEFINE side == [i \in DOMAIN t |-> t[i].mu]
    <2>3. Alternating(t) = Collapsed(t, side)
      BY DEF Alternating
    <2> HIDE DEF side
    <2>4. Among(Collapsed(t, side), t) /\ (HoldsTop(t, top) => HoldsTop(Collapsed(t, side), top))
      BY <1>7, <2>1, CollapsedIs
    <2>5. Among(Collapsed(t, side), all)
      BY <1>7, <2>4, AmongAll
    <2> QED
      BY <1>7, <2>2, <2>3, <2>4, <2>5
  <1>8. Fine(Alternating(all))
    <2>1. Among(all, all)
      BY DEF Among
    <2> HIDE DEF Fine
    <2> QED
      BY <1>2, <1>7, <2>1
  <1>9. ASSUME NEW k \in DOMAIN Fractions PROVE Fine(Alternating(Above(all, e, Fractions[k])))
    <2> DEFINE t == Above(all, e, Fractions[k])
    <2>1. IsSequence(t) /\ Among(t, all)
      <3> DEFINE f == Fractions[k]
                 places == {i \in DOMAIN all : all[i].mu * all[i].r * f[2] >= e * f[1]}
      <3>1. places \in SUBSET DOMAIN all
        OBVIOUS
      <3>2. t = Picked(all, places)
        BY DEF Above
      <3> HIDE DEF places, t
      <3> QED
        BY <3>1, <3>2, PickedIs, PickedAmong
    <2>2. top > 0 /\ DOMAIN all # {} => HoldsTop(t, top)
      BY <1>2, <1>3, AboveIs
    <2> HIDE DEF t, Fine
    <2>3. Fine(Alternating(t))
      BY <1>7, <2>1, <2>2
    <2> QED
      BY <2>3 DEF t
  <1>10. Fine(Skeleton(all, e, n))
    <2> HIDE DEF Fine
    <2> QED
      BY <1>6, <1>8, <1>9
  <1> QED
    BY <1>10

\* A skeleton that is long enough is taken as it is, another one is filled up.
LEMMA PaddedIs ==
    ASSUME NEW all, Chain(all), NEW points, Chain(points), Among(points, all), NEW n \in Nat
    PROVE  /\ Among(Padded(points, all, n), all) /\ Among(points, Padded(points, all, n))
           /\ Len(points) >= n => Padded(points, all, n) = points
  <1> DEFINE left == {i \in DOMAIN all : ~Contains(points, all[i])}
             before(i) == {j \in left : Tall(all[j]) > Tall(all[i]) \/ (Tall(all[j]) = Tall(all[i]) /\ j < i)}
             filling == {i \in left : Cardinality(before(i)) < n - Len(points)}
             places == (DOMAIN all \ left) \cup filling
             t == Picked(all, places)
  <1>1. Padded(points, all, n) = t
    BY DEF Padded
  <1>2. Chain(t)
    BY <1>1, PaddedChain
  <1>3. DOMAIN points = 1..Len(points) /\ Len(points) \in Nat
    BY SequenceIs DEF Chain
  <1>4. IsSequence(all) /\ IsFiniteSet(DOMAIN all)
    <2>1. IsSequence(all)
      BY DEF Chain
    <2>2. DOMAIN all = 1..Len(all) /\ Len(all) \in Nat
      BY <2>1, SequenceIs
    <2>3. IsFiniteSet(1..Len(all))
      BY <2>2, FS_Interval
    <2> QED
      BY <2>1, <2>2, <2>3
  <1>5. Len(points) >= n => filling = {}
    <2>1. ASSUME NEW i PROVE Cardinality(before(i)) \in Nat
      <3>1. before(i) \in SUBSET DOMAIN all
        OBVIOUS
      <3> HIDE DEF before
      <3>2. IsFiniteSet(before(i))
        BY <1>4, <3>1, FS_Subset
      <3> QED
        BY <3>2, FS_CardinalityType
    <2> HIDE DEF before, left
    <2> QED
      BY <1>3, <2>1
  <1>6. places \in SUBSET DOMAIN all /\ \A x \in places : x \in filling \/ Contains(points, all[x])
    <2>1. left \subseteq DOMAIN all /\ \A x \in DOMAIN all \ left : Contains(points, all[x])
      OBVIOUS
    <2> HIDE DEF before, left
    <2> QED
      BY <2>1
  <1>7. \A x \in DOMAIN all : Contains(points, all[x]) => x \in places
    <2>1. \A x \in DOMAIN all : Contains(points, all[x]) => x \notin left
      OBVIOUS
    <2> HIDE DEF left, filling
    <2> QED
      BY <2>1
  <1> HIDE DEF filling, places
  <1>8. /\ Among(t, all)
        /\ \A k \in DOMAIN t : \E x \in places : t[k] = all[x]
        /\ \A x \in places : \E k \in DOMAIN t : t[k] = all[x]
    <2>1. Among(t, all)
      BY <1>4, <1>6, PickedAmong
    <2>2. /\ \A k \in DOMAIN t : Ascending(places)[k] \in places /\ t[k] = all[Ascending(places)[k]]
          /\ \A x \in places : \E k \in DOMAIN t : t[k] = all[x]
      BY <1>4, <1>6, PickedIs
    <2> HIDE DEF t
    <2> QED
      BY <2>1, <2>2
  <1> HIDE DEF t
  <1>9. Among(points, t)
    <2>1. SUFFICES ASSUME NEW i \in DOMAIN points PROVE \E k \in DOMAIN t : points[i] = t[k]
      BY DEF Among
    <2>2. PICK x \in DOMAIN all : points[i] = all[x]
      BY DEF Among
    <2>3. Contains(points, all[x])
      BY <1>3, <2>2 DEF Contains
    <2> QED
      BY <1>7, <1>8, <2>2, <2>3
  <1>10. ASSUME Len(points) >= n PROVE t = points
    <2>1. Among(t, points)
      <3>1. SUFFICES ASSUME NEW k \in DOMAIN t PROVE \E i \in DOMAIN points : t[k] = points[i]
        BY DEF Among
      <3>2. PICK x \in places : t[k] = all[x]
        BY <1>8
      <3>3. Contains(points, all[x])
        BY <1>5, <1>6, <1>10
      <3> QED
        BY <1>3, <3>2, <3>3 DEF Contains
    <2> QED
      BY <1>2, <1>9, <2>1, SameChain
  <1> QED
    BY <1>1, <1>8, <1>9, <1>10

\* What the general path selects from, and the sign path in float64.
LEMMA LoudIs ==
    ASSUME NEW c, IsCurve(c), c # <<>>, NoFlatValley(c), NEW floor \in Nat
    PROVE  /\ Topped(Loud(c, floor), Peak(c)) /\ Led(Loud(c, floor), Peak(c))
           /\ Peak(c) >= floor => DOMAIN Loud(c, floor) # {}
  <1> DEFINE all == Extrema(c)
             places == {i \in DOMAIN all : Tall(all[i]) >= floor}
             t == Picked(all, places)
             top == Peak(c)
  <1>1. t = Loud(c, floor)
    BY DEF Loud
  <1>2. IsSequence(all) /\ Extremes(all) /\ top \in Nat /\ Bounded(all, top) /\ HoldsTop(all, top)
    <2>1. IsSequence(all) /\ Extremes(all)
      BY ExtremaAre, ExtremaChain DEF Chain
    <2>2. DOMAIN all # {} /\ top \in Nat /\ Bounded(all, top)
      BY PeakIs DEF Bounded
    <2>3. HoldsTop(all, top)
      BY <2>1, <2>2, TallestIs DEF HoldsTop, Peak
    <2> QED
      BY <2>1, <2>2, <2>3
  <1>3. top > 0 => \E i \in DOMAIN all : Tall(all[i]) = top /\ Outward(all[i])
    BY OutwardPeak
  <1> HIDE DEF all, top
  <1>4. places \in SUBSET DOMAIN all
    OBVIOUS
  <1>5. \A i \in DOMAIN all : Tall(all[i]) = top /\ top >= floor => i \in places
    OBVIOUS
  <1>6. \A x \in places : Tall(all[x]) >= floor /\ Tall(all[x]) <= top /\ Tall(all[x]) \in Nat
    BY <1>2, TallIs DEF Bounded, Extremes
  <1> HIDE DEF places
  <1>7. /\ IsSequence(t) /\ \A k \in DOMAIN t : \E x \in places : t[k] = all[x]
        /\ \A x \in places : \E k \in DOMAIN t : t[k] = all[x]
    BY <1>2, <1>4, PickedIs
  <1>8. Among(t, all)
    BY <1>2, <1>4, PickedAmong
  <1> HIDE DEF t
  <1>9. DOMAIN t # {} => top >= floor
    <2>1. SUFFICES ASSUME NEW k \in DOMAIN t PROVE top >= floor
      OBVIOUS
    <2>2. PICK x \in places : t[k] = all[x]
      BY <1>7
    <2> QED
      BY <1>2, <1>6, <2>2
  <1>10. top >= floor => HoldsTop(t, top)
    <2>1. SUFFICES ASSUME top >= floor PROVE HoldsTop(t, top)
      OBVIOUS
    <2>2. PICK i \in DOMAIN all : Tall(all[i]) = top
      BY <1>2 DEF HoldsTop
    <2>3. PICK k \in DOMAIN t : t[k] = all[i]
      BY <1>5, <1>7, <2>1, <2>2
    <2> QED
      BY <2>2, <2>3 DEF HoldsTop
  <1>11. Topped(t, top)
    BY <1>2, <1>8, <1>9, <1>10, AmongExtremes DEF Topped
  <1>12. Led(t, top)
    <2>1. SUFFICES ASSUME top > 0, DOMAIN t # {} PROVE \E i \in DOMAIN t : Tall(t[i]) = top /\ Outward(t[i])
      BY DEF Led
    <2>2. PICK i \in DOMAIN all : Tall(all[i]) = top /\ Outward(all[i])
      BY <1>3, <2>1
    <2>3. PICK k \in DOMAIN t : t[k] = all[i]
      BY <1>5, <1>7, <1>9, <2>1, <2>2
    <2> QED
      BY <2>2, <2>3
  <1>13. top >= floor => DOMAIN t # {}
    BY <1>10 DEF HoldsTop
  <1> QED
    BY <1>1, <1>11, <1>12, <1>13 DEF top

\* What the sign path's polish selects from.
LEMMA MovedIs ==
    ASSUME NEW c, IsCurve(c), c # <<>>, NEW all \in Moved(c)
    PROVE  IsSequence(all) /\ \E top \in Nat : Topped(all, top)
  <1> DEFINE given == Extrema(c)
             ends == {i \in DOMAIN given : AtEnd(given[i])}
             comeTo == Strays \cup {given[i] : i \in DOMAIN given}
  <1>1. IsSequence(given) /\ Extremes(given) /\ DOMAIN given # {}
    BY ExtremaAre, ExtremaChain, PeakIs DEF Chain
  <1>2. \E to \in [ends -> comeTo] : all = [i \in DOMAIN given |-> IF i \in ends THEN to[i] ELSE given[i]]
    BY DEF Moved
  <1>3. \A p \in comeTo : Extreme(p)
    BY <1>1, RemezAssumption DEF Extremes
  <1>4. ends \subseteq DOMAIN given
    OBVIOUS
  <1> HIDE DEF given, ends, comeTo
  <1>5. PICK to \in [ends -> comeTo] : all = [i \in DOMAIN given |-> IF i \in ends THEN to[i] ELSE given[i]]
    BY <1>2
  <1>6. DOMAIN all = 1..Len(given) /\ Len(given) \in Nat /\ DOMAIN all = DOMAIN given
    BY <1>1, <1>5, SequenceIs
  <1>7. all = [i \in 1..Len(given) |-> all[i]]
    BY <1>5, <1>6
  <1>8. IsSequence(all)
    BY <1>6, <1>7, MakesSequence
  <1>9. Extremes(all)
    <2>1. SUFFICES ASSUME NEW i \in DOMAIN given PROVE Extreme(all[i])
      BY <1>6 DEF Extremes
    <2>2. all[i] = IF i \in ends THEN to[i] ELSE given[i]
      BY <1>5
    <2> QED
      BY <1>1, <1>3, <2>2 DEF Extremes
  <1>10. Topped(all, Tallest(all)) /\ Tallest(all) \in Nat
    BY <1>1, <1>6, <1>8, <1>9, TallestIs DEF Topped, Bounded, HoldsTop
  <1> QED
    BY <1>8, <1>10

\* What a fit selects its references from: extrema, a tallest of them one,
\* alternating if there are enough that do.
Selection(points, f, all, bones, top) ==
    /\ IsSequence(points) /\ Among(points, all)
    /\ (f.general => Len(bones) >= f.n) => Sided(points, f.general)
    /\ top > 0 /\ DOMAIN all # {} => HoldsTop(points, top)

LEMMA SelectionBegins ==
    ASSUME NEW f, f.n \in Nat, f.general \in BOOLEAN,
           NEW all, IsSequence(all), NEW top \in Nat, Topped(all, top), NEW e,
           f.general => Chain(all) /\ Led(all, top) /\ e \in 0..top
    PROVE  LET bones == Alternation(f, all, e)
               points == IF f.general THEN Padded(bones, all, f.n) ELSE bones
           IN  Selection(points, f, all, bones, top)
  <1> DEFINE bones == Alternation(f, all, e)
             points == IF f.general THEN Padded(bones, all, f.n) ELSE bones
  <1>1. CASE ~f.general
    <2>1. bones = Runs(all) /\ points = bones
      BY <1>1 DEF Alternation
    <2>2. IsSequence(bones) /\ Among(bones, all) /\ Sided(bones, FALSE) /\ (top > 0 /\ HoldsTop(all, top) => HoldsTop(bones, top))
      BY <2>1, RunsAre DEF Topped
    <2> HIDE DEF bones, points
    <2>3. f.general = FALSE
      BY <1>1
    <2>4. Selection(points, f, all, bones, top)
      BY <2>1, <2>2, <2>3 DEF Selection, Topped
    <2> QED
      BY <2>4 DEF points, bones
  <1>2. CASE f.general
    <2>1. bones = Skeleton(all, e, f.n) /\ points = Padded(bones, all, f.n)
      BY <1>2 DEF Alternation
    <2>2. Among(bones, all) /\ Sided(bones, TRUE) /\ (top > 0 /\ DOMAIN all # {} => HoldsTop(bones, top)) /\ Chain(bones)
      BY <1>2, <2>1, SkeletonIs, SkeletonChain
    <2> HIDE DEF bones, points
    <2>3. /\ Among(points, all) /\ Among(bones, points) /\ IsSequence(points)
          /\ Len(bones) >= f.n => points = bones
      BY <1>2, <2>1, <2>2, PaddedIs, PaddedChain DEF Chain
    <2>4. top > 0 /\ DOMAIN all # {} => HoldsTop(points, top)
      BY <2>2, <2>3 DEF HoldsTop, Among
    <2>5. f.general = TRUE
      BY <1>2
    <2>6. Selection(points, f, all, bones, top)
      BY <2>2, <2>3, <2>4, <2>5 DEF Selection
    <2> QED
      BY <2>6 DEF points, bones
  <1> QED
    BY <1>1, <1>2

-----------------------------------------------------------------------------
(* Trimming keeps the references alternating and the peak among them. *)

LEMMA EndsAre ==
    ASSUME NEW points, IsSequence(points), Len(points) > 1
    PROVE  LET m == Len(points)
               front == Front(points)
               tail == Tail(points)
           IN  /\ Len(front) = m - 1 /\ DOMAIN front = 1..(m - 1) /\ \A i \in 1..(m - 1) : front[i] = points[i]
               /\ Len(tail) = m - 1 /\ DOMAIN tail = 1..(m - 1) /\ \A i \in 1..(m - 1) : tail[i] = points[i + 1]
  <1> DEFINE m == Len(points)
  <1>1. points \in Seq(Range(points)) /\ m \in Nat /\ m - 1 \in Nat /\ m > 1 /\ DOMAIN points = 1..m
    BY SequenceIs DEF IsSequence
  <1>2. /\ SubSeq(points, 1, m - 1) \in Seq(Range(points)) /\ Len(SubSeq(points, 1, m - 1)) = m - 1
        /\ \A i \in 1..(m - 1) : SubSeq(points, 1, m - 1)[i] = points[i]
    BY <1>1
  <1>3. points # <<>>
    BY <1>1
  <1>4. Tail(points) \in Seq(Range(points)) /\ Len(Tail(points)) = m - 1 /\ \A i \in 1..(m - 1) : Tail(points)[i] = points[i + 1]
    BY <1>1, <1>3, HeadTailProperties
  <1>5. DOMAIN SubSeq(points, 1, m - 1) = 1..(m - 1) /\ DOMAIN Tail(points) = 1..(m - 1)
    BY <1>2, <1>4, LenProperties
  <1> QED
    BY <1>2, <1>4, <1>5 DEF Front

LEMMA PlacesApart ==
    ASSUME NEW points, Chain(points), NEW i \in DOMAIN points, NEW j \in DOMAIN points, i # j
    PROVE  points[i].u # points[j].u
  <1>1. Scale \in Nat /\ Scale > 0
    BY RemezAssumption
  <1>2. i \in Int /\ j \in Int
    BY SequenceIs DEF Chain
  <1>3. points[i].u \in Int /\ points[j].u \in Int
    BY DEF Chain
  <1>4. i < j => points[i].u + Scale <= points[j].u
    BY DEF Chain
  <1>5. j < i => points[j].u + Scale <= points[i].u
    BY DEF Chain
  <1> QED
    BY <1>1, <1>2, <1>3, <1>4, <1>5

\* The protected place is that of a tallest point.
LEMMA ProtectedIs ==
    ASSUME NEW points, IsSequence(points), Extremes(points), NEW top \in Nat,
           Bounded(points, top), HoldsTop(points, top)
    PROVE  \E q \in DOMAIN points : Protected(points) = points[q].u /\ Tall(points[q]) = top
  <1> DEFINE m == Len(points)
             h == [x \in 1..m |-> Tall(points[x])]
             First(i) == \A j \in DOMAIN points :
                            Tall(points[i]) > Tall(points[j]) \/ (Tall(points[i]) = Tall(points[j]) /\ i <= j)
             q == CHOOSE i \in DOMAIN points : First(i)
  <1>1. m \in Nat /\ DOMAIN points = 1..m
    BY SequenceIs
  <1>2. \A x \in 1..m : Tall(points[x]) \in Nat
    BY <1>1, TallIs DEF Extremes
  <1>3. h \in [1..m -> Int] /\ \A x \in 1..m : h[x] = Tall(points[x])
    BY <1>2
  <1>4. PICK t \in 1..m : Tall(points[t]) = top
    BY <1>1 DEF HoldsTop
  <1>5. Protected(points) = points[q].u
    BY DEF Protected
  <1> HIDE DEF h, m
  <1>6. PICK k \in 1..m : \A j \in 1..m : h[j] < h[k] \/ (h[j] = h[k] /\ k <= j)
    <2>1. 1..m \in SUBSET (1..m) /\ 1..m # {}
      BY <1>4
    <2> QED
      BY <1>1, <1>3, <2>1, FirstLargest
  <1>7. First(k)
    BY <1>1, <1>2, <1>3, <1>6
  <1>8. q \in DOMAIN points /\ First(q)
    <2> HIDE DEF First
    <2> QED
      BY <1>1, <1>7
  <1> HIDE DEF q
  <1>9. Tall(points[q]) >= top
    BY <1>1, <1>2, <1>4, <1>8
  <1>10. Tall(points[q]) <= top /\ Tall(points[q]) \in Nat
    BY <1>1, <1>2, <1>8 DEF Bounded
  <1> QED
    BY <1>5, <1>8, <1>9, <1>10

\* What is left of the references, an end or a pair gone.
LEMMA WithoutAnEndIs ==
    ASSUME NEW points, IsSequence(points), Extremes(points), Len(points) > 1,
           NEW top \in Nat, Bounded(points, top), NEW protect,
           \/ \A i \in DOMAIN points : points[i].u # protect
           \/ Chain(points) /\ \E q \in DOMAIN points : points[q].u = protect /\ Tall(points[q]) = top,
           NEW general
    PROVE  LET t == WithoutAnEnd(points, protect)
           IN  /\ Among(t, points) /\ (Sided(points, general) => Sided(t, general))
               /\ HoldsTop(points, top) => HoldsTop(t, top)
  <1> DEFINE m == Len(points)
             front == Front(points)
             tail == Tail(points)
             t == WithoutAnEnd(points, protect)
  <1>1. /\ Len(front) = m - 1 /\ DOMAIN front = 1..(m - 1) /\ \A i \in 1..(m - 1) : front[i] = points[i]
        /\ Len(tail) = m - 1 /\ DOMAIN tail = 1..(m - 1) /\ \A i \in 1..(m - 1) : tail[i] = points[i + 1]
    BY EndsAre
  <1>2. m \in Nat /\ m > 1 /\ DOMAIN points = 1..m
    BY SequenceIs
  <1>3. Last(points) = points[m]
    BY DEF Last
  <1>4. t = IF points[1].u = protect THEN front ELSE IF points[m].u = protect THEN tail
            ELSE IF Tall(points[1]) <= Tall(points[m]) THEN tail ELSE front
    BY <1>3 DEF WithoutAnEnd
  <1> HIDE DEF front, tail, m, t
  <1>5. Among(front, points) /\ Among(tail, points)
    <2>1. \A i \in 1..(m - 1) : i \in 1..m /\ i + 1 \in 1..m
      BY <1>2
    <2> QED
      BY <1>1, <1>2, <2>1 DEF Among
  <1>6. ASSUME Sided(points, general) PROVE Sided(front, general) /\ Sided(tail, general)
    <2>1. \A i \in 1..(m - 1) : IF general THEN points[i].mu # points[i + 1].mu
                                ELSE (points[i].r > 0) # (points[i + 1].r > 0)
      BY <1>6 DEF Sided, m
    <2>2. \A i \in 1..((m - 1) - 1) :
              /\ i \in 1..(m - 1) /\ i + 1 \in 1..(m - 1)
              /\ front[i] = points[i] /\ front[i + 1] = points[i + 1]
              /\ tail[i] = points[i + 1] /\ tail[i + 1] = points[(i + 1) + 1]
      BY <1>1, <1>2
    <2> QED
      BY <1>1, <2>1, <2>2 DEF Sided
  <1>7. ASSUME HoldsTop(points, top) PROVE HoldsTop(t, top)
    <2>1. 1 \in 1..m /\ m \in 1..m /\ Tall(points[1]) \in Nat /\ Tall(points[m]) \in Nat
      BY <1>2, TallIs DEF Extremes
    <2>2. Tall(points[1]) <= top /\ Tall(points[m]) <= top
      BY <1>2, <2>1 DEF Bounded
    <2>3. ASSUME NEW q \in 1..m, Tall(points[q]) = top, q # m PROVE HoldsTop(front, top)
      <3>1. q \in 1..(m - 1)
        BY <1>2, <2>3
      <3> QED
        BY <1>1, <2>3, <3>1 DEF HoldsTop
    <2>4. ASSUME NEW q \in 1..m, Tall(points[q]) = top, q # 1 PROVE HoldsTop(tail, top)
      <3>1. q - 1 \in 1..(m - 1) /\ (q - 1) + 1 = q
        BY <1>2, <2>4
      <3> QED
        BY <1>1, <2>4, <3>1 DEF HoldsTop
    <2>5. CASE Chain(points) /\ \E q \in 1..m : points[q].u = protect /\ Tall(points[q]) = top
      <3>1. PICK q \in 1..m : points[q].u = protect /\ Tall(points[q]) = top
        BY <2>5
      <3>2. \A i \in 1..m : points[i].u = protect => i = q
        BY <1>2, <2>5, <3>1, PlacesApart
      <3>3. CASE q = 1
        BY <1>2, <1>4, <2>3, <3>1, <3>3
      <3>4. CASE q = m /\ q # 1
        BY <1>4, <2>1, <2>4, <3>1, <3>2, <3>4
      <3>5. CASE q # 1 /\ q # m
        BY <1>4, <2>3, <2>4, <3>1, <3>5
      <3> QED
        BY <3>3, <3>4, <3>5
    <2>6. CASE \A i \in 1..m : points[i].u # protect
      <3>1. t = IF Tall(points[1]) <= Tall(points[m]) THEN tail ELSE front
        BY <1>4, <2>1, <2>6
      <3>2. PICK q \in 1..m : Tall(points[q]) = top
        BY <1>2, <1>7 DEF HoldsTop
      <3>3. CASE Tall(points[1]) <= Tall(points[m])
        <4>1. m # 1
          BY <1>2
        <4>2. q = 1 => Tall(points[m]) = top
          BY <2>1, <2>2, <3>2, <3>3
        <4> QED
          BY <2>1, <2>4, <3>1, <3>2, <3>3, <4>1, <4>2
      <3>4. CASE ~(Tall(points[1]) <= Tall(points[m]))
        <4>1. q # m
          BY <2>1, <2>2, <3>2, <3>4
        <4> QED
          BY <2>3, <3>1, <3>2, <3>4, <4>1
      <3> QED
        BY <3>3, <3>4
    <2> QED
      BY <1>2, <2>5, <2>6
  <1>8. t = front \/ t = tail
    BY <1>4
  <1> QED
    BY <1>5, <1>6, <1>7, <1>8 DEF t

LEMMA SparedIs ==
    ASSUME NEW points, Chain(points), NEW m, m = Len(points), m > 3,
           NEW q \in DOMAIN points
    PROVE  \E k \in Pairs(m) : \A i \in Gone(m, k) : i \in 1..m /\ points[i].u # points[q].u
  <1>1. m \in Nat /\ DOMAIN points = 1..m
    BY SequenceIs DEF Chain
  <1>2. CASE q = 1
    <2>1. m - 1 \in Pairs(m) /\ Gone(m, m - 1) = {m} /\ m \in 1..m /\ m # q
      BY <1>1, <1>2 DEF Pairs, Gone
    <2> QED
      BY <1>1, <2>1, PlacesApart
  <1>3. CASE q # 1
    <2>1. 1 \in Pairs(m) /\ Gone(m, 1) = {1} /\ 1 \in 1..m
      BY <1>1 DEF Pairs, Gone
    <2> QED
      BY <1>1, <1>3, <2>1, PlacesApart
  <1> QED
    BY <1>2, <1>3

\* Of the pairs that may go one is the least.
LEMMA LeastPair ==
    ASSUME NEW points, IsSequence(points), Extremes(points), NEW m, m = Len(points), m > 3,
           NEW spared \in SUBSET Pairs(m), spared # {}
    PROVE  \E k \in spared : \A j \in spared :
               PairSum(points, k) < PairSum(points, j)
               \/ (PairSum(points, k) = PairSum(points, j) /\ k <= j)
  <1>1. m \in Nat /\ DOMAIN points = 1..m
    BY SequenceIs
  <1>2. \A x \in 1..m : Tall(points[x]) \in Nat
    BY <1>1, TallIs DEF Extremes
  <1>3. ASSUME NEW k \in Pairs(m) PROVE PairSum(points, k) \in Nat
    <2>1. k = 0 \/ (k \in 1..m /\ k + 1 \in 1..m)
      BY <1>1 DEF Pairs
    <2>2. 1 \in 1..m /\ m \in 1..m
      BY <1>1
    <2>3. Last(points) = points[m]
      BY DEF Last
    <2> QED
      BY <1>2, <2>1, <2>2, <2>3 DEF PairSum
  <1> DEFINE h == [x \in 1..m |-> -PairSum(points, x - 1)]
             places == {x \in 1..m : x - 1 \in spared}
  <1>4. \A k \in spared : k \in Int /\ k + 1 \in 1..m /\ (k + 1) - 1 = k /\ k \in Pairs(m)
    BY <1>1 DEF Pairs
  <1>5. \A x \in 1..m : x - 1 \in Pairs(m)
    BY <1>1 DEF Pairs
  <1>6. h \in [1..m -> Int] /\ \A x \in 1..m : h[x] = -PairSum(points, x - 1)
    <2>1. \A x \in 1..m : -PairSum(points, x - 1) \in Int
      BY <1>3, <1>5
    <2> QED
      BY <2>1
  <1> HIDE DEF h
  <1>7. places \in SUBSET (1..m) /\ places # {}
    BY <1>4
  <1>8. \A k \in spared : k + 1 \in places /\ h[k + 1] = -PairSum(points, k)
    BY <1>4, <1>6
  <1>9. PICK x \in places : \A y \in places : h[y] < h[x] \/ (h[y] = h[x] /\ x <= y)
    <2> HIDE DEF places
    <2>1. m \in Nat
      BY <1>1
    <2>2. h \in [1..m -> Int]
      BY <1>6
    <2> QED
      BY ONLY <2>1, <2>2, <1>7, FirstLargest
  <1> DEFINE k == x - 1
  <1>10. k \in spared /\ k \in Int /\ x = k + 1 /\ h[x] = -PairSum(points, k)
    BY <1>6, <1>9
  <1> HIDE DEF k
  <1>11. ASSUME NEW j \in spared
         PROVE  PairSum(points, k) < PairSum(points, j)
                \/ (PairSum(points, k) = PairSum(points, j) /\ k <= j)
    <2>1. h[j + 1] < h[x] \/ (h[j + 1] = h[x] /\ x <= j + 1)
      BY <1>8, <1>9
    <2>2. PairSum(points, j) \in Nat /\ PairSum(points, k) \in Nat /\ j \in Int
      BY <1>3, <1>4, <1>10
    <2>3. h[j + 1] = -PairSum(points, j)
      BY <1>8
    <2> HIDE DEF places
    <2> QED
      BY <1>10, <2>1, <2>2, <2>3
  <1> QED
    BY <1>10, <1>11

\* Neighbours of what is left were neighbours, or had the pair between them.
LEMMA GapOfGone ==
    ASSUME NEW m \in Nat, m > 3, NEW k \in Pairs(m), NEW a \in 1..m \ Gone(m, k), NEW b \in 1..m \ Gone(m, k),
           a < b, \A x \in 1..m \ Gone(m, k) : ~(a < x /\ x < b)
    PROVE  b = a + 1 \/ (b = a + 3 /\ a + 1 \in 1..m /\ a + 2 \in 1..m)
  <1>1. \A x \in 1..m : a < x /\ x < b => x \in Gone(m, k)
    OBVIOUS
  <1>2. a \notin Gone(m, k) /\ b \notin Gone(m, k) /\ a \in 1..m /\ b \in 1..m
    OBVIOUS
  <1>3. k \in Int
    BY DEF Pairs
  <1>4. SUFFICES ASSUME b # a + 1
                 PROVE  b = a + 3 /\ a + 1 \in 1..m /\ a + 2 \in 1..m
    OBVIOUS
  <1>5. a + 1 \in 1..m /\ b - 1 \in 1..m /\ a < a + 1 /\ a + 1 < b /\ a < b - 1 /\ b - 1 < b
    BY <1>2, <1>4
  <1>6. a + 1 \in Gone(m, k) /\ b - 1 \in Gone(m, k)
    BY <1>1, <1>5
  <1>7. a + 1 # 1 /\ a + 1 # m /\ b - 1 # 1 /\ b - 1 # m
    BY <1>2, <1>5
  <1>8. Gone(m, k) = {k, k + 1}
    BY <1>6, <1>7 DEF Gone
  <1> QED
    BY <1>2, <1>3, <1>5, <1>6, <1>8

LEMMA WithoutAPairIs ==
    ASSUME NEW points, Chain(points), Extremes(points), Len(points) > 3, NEW q \in DOMAIN points
    PROVE  LET t == WithoutAPair(points, points[q].u)
           IN  /\ Among(t, points) /\ (Sided(points, TRUE) => Sided(t, TRUE))
               /\ \E i \in DOMAIN t : t[i] = points[q]
  <1> DEFINE m == Len(points)
             protect == points[q].u
             spared == {k \in Pairs(m) : \A i \in Gone(m, k) : points[i].u # protect}
             pair == CHOOSE k \in spared : \A j \in spared :
                        PairSum(points, k) < PairSum(points, j)
                        \/ (PairSum(points, k) = PairSum(points, j) /\ k <= j)
             places == 1..m \ Gone(m, pair)
             t == Picked(points, places)
             s == Ascending(places)
  <1>1. WithoutAPair(points, protect) = t
    BY DEF WithoutAPair
  <1>2. m \in Nat /\ m > 3 /\ DOMAIN points = 1..m /\ IsSequence(points)
    BY SequenceIs DEF Chain
  <1>3. spared \in SUBSET Pairs(m) /\ spared # {}
    <2>1. \E k \in Pairs(m) : \A i \in Gone(m, k) : i \in 1..m /\ points[i].u # points[q].u
      BY SparedIs
    <2> QED
      BY <2>1
  <1>4. pair \in spared
    <2>1. \E k \in spared : \A j \in spared :
              PairSum(points, k) < PairSum(points, j)
              \/ (PairSum(points, k) = PairSum(points, j) /\ k <= j)
      <3> HIDE DEF spared
      <3> QED
        BY <1>2, <1>3, LeastPair
    <2> HIDE DEF spared
    <2> QED
      BY <2>1
  <1> HIDE DEF pair
  <1>5. pair \in Pairs(m) /\ \A i \in Gone(m, pair) : points[i].u # protect
    BY <1>4
  <1>6. q \in places
    BY <1>2, <1>5
  <1>7. places \in SUBSET DOMAIN points
    BY <1>2
  <1> HIDE DEF places, spared, m
  <1>8. Among(t, points) /\ \A x \in places : \E k \in DOMAIN t : t[k] = points[x]
    BY <1>2, <1>7, PickedAmong, PickedIs
  <1>9. ASSUME Sided(points, TRUE) PROVE Sided(t, TRUE)
    <2>1. SUFFICES ASSUME NEW k \in 1..(Len(t) - 1) PROVE t[k].mu # t[k + 1].mu
      <3> HIDE DEF t
      <3> QED
        BY <2>1 DEF Sided
    <2>2. /\ s[k] \in places /\ s[k + 1] \in places /\ s[k] < s[k + 1]
          /\ t[k] = points[s[k]] /\ t[k + 1] = points[s[k + 1]]
          /\ \A x \in places : ~(s[k] < x /\ x < s[k + 1])
      BY <1>2, <1>7, <2>1, PickedNeighbours
    <2> DEFINE a == s[k]
               b == s[k + 1]
    <2>3. /\ a \in places /\ b \in places /\ a < b /\ t[k] = points[a] /\ t[k + 1] = points[b]
          /\ \A x \in places : ~(a < x /\ x < b)
      BY <2>2
    <2> HIDE DEF a, b, s, t
    <2>4. b = a + 1 \/ (b = a + 3 /\ a + 1 \in 1..m /\ a + 2 \in 1..m)
      BY <1>2, <1>5, <2>3, GapOfGone DEF places
    <2>5. a \in 1..m /\ b \in 1..m
      BY <1>2, <1>7, <2>3
    <2>6. \A i \in 1..(m - 1) : points[i].mu # points[i + 1].mu
      BY <1>9 DEF Sided, m
    <2>7. \A i \in 1..m : points[i].mu \in {-1, 1}
      BY <1>2 DEF Extremes, Extreme
    <2>8. CASE b = a + 1
      <3>1. a \in 1..(m - 1)
        BY <1>2, <2>5, <2>8
      <3> QED
        BY <2>3, <2>6, <2>8, <3>1
    <2>9. CASE b = a + 3
      <3>1. /\ a \in 1..(m - 1) /\ a + 1 \in 1..(m - 1) /\ a + 2 \in 1..(m - 1)
            /\ (a + 1) + 1 = a + 2 /\ (a + 2) + 1 = b
        BY <1>2, <2>5, <2>9
      <3>2. points[a].mu # points[a + 1].mu /\ points[a + 1].mu # points[a + 2].mu /\ points[a + 2].mu # points[b].mu
        BY <2>6, <3>1
      <3>3. a + 1 \in 1..m /\ a + 2 \in 1..m
        BY <1>2, <2>5, <2>9
      <3>4. points[a].mu \in {-1, 1} /\ points[a + 1].mu \in {-1, 1} /\ points[a + 2].mu \in {-1, 1} /\ points[b].mu \in {-1, 1}
        BY <2>5, <2>7, <3>3
      <3> QED
        BY <2>3, <3>2, <3>4
    <2> QED
      BY <2>4, <2>8, <2>9
  <1>10. \E i \in DOMAIN t : t[i] = points[q]
    BY <1>6, <1>8
  <1> QED
    BY <1>1, <1>8, <1>9, <1>10

LEMMA SelectionTrimmed ==
    ASSUME NEW f, f.n \in Nat, f.n > 1, f.general \in BOOLEAN,
           NEW all, NEW top \in Nat, Topped(all, top), NEW bones,
           NEW points, Selection(points, f, all, bones, top), Len(points) > f.n, f.general => Chain(points)
    PROVE  Selection(Trimmed(f, points), f, all, bones, top)
  <1> DEFINE protect == IF f.general THEN Protected(points) ELSE None
             t == Trimmed(f, points)
             m == Len(points)
  <1>1. /\ IsSequence(points) /\ Among(points, all) /\ (top > 0 /\ DOMAIN all # {} => HoldsTop(points, top))
        /\ (f.general => Len(bones) >= f.n) => Sided(points, f.general)
    BY DEF Selection
  <1>2. m \in Nat /\ m > 1 /\ f.n \in Nat /\ m > f.n /\ DOMAIN points = 1..m /\ IsSequence(points)
    BY <1>1, SequenceIs
  <1>3. Extremes(points) /\ Bounded(points, top) /\ DOMAIN all # {}
    <2>1. Extremes(all) /\ Bounded(all, top)
      BY DEF Topped
    <2>2. 1 \in DOMAIN points
      BY <1>2
    <2> QED
      BY <1>1, <2>1, <2>2, AmongExtremes DEF Among
  <1>4. IsSequence(t)
    <2>1. CASE f.general
      BY <1>2, <2>1, TrimmedChain DEF Chain
    <2>2. CASE ~f.general
      <3>1. t = WithoutAnEnd(points, protect) /\ Len(points) > 1
        BY <1>2, <2>2 DEF Trimmed
      <3> HIDE DEF protect, t
      <3> QED
        BY <1>1, <3>1, WithoutAnEndIsSequence
    <2> QED
      BY <2>1, <2>2
  <1>5. HoldsTop(points, top)
    <2>1. 1 \in DOMAIN points
      BY <1>2
    <2>2. Tall(points[1]) \in Nat /\ Tall(points[1]) <= top
      BY <1>3, <2>1, TallIs DEF Extremes, Bounded
    <2>3. top = 0 => Tall(points[1]) = top
      BY <2>2
    <2> QED
      BY <1>1, <1>3, <2>1, <2>3 DEF HoldsTop
  <1>6. t = IF f.general /\ m > f.n + 1 THEN WithoutAPair(points, protect) ELSE WithoutAnEnd(points, protect)
    BY DEF Trimmed
  <1>7. f.general => \E q \in DOMAIN points : protect = points[q].u /\ Tall(points[q]) = top
    BY <1>2, <1>3, <1>5, ProtectedIs
  <1>8. ~f.general => \A i \in DOMAIN points : points[i].u # protect
    <2>1. \A i \in DOMAIN points : points[i].u \in Nat
      BY <1>3 DEF Extremes, Extreme
    <2> QED
      BY <2>1, RemezAssumption
  <1> HIDE DEF protect, t, m
  <1>9. Among(t, points) /\ (Sided(points, f.general) => Sided(t, f.general)) /\ HoldsTop(t, top)
    <2>1. CASE f.general /\ m > f.n + 1
      <3>1. PICK q \in DOMAIN points : protect = points[q].u /\ Tall(points[q]) = top
        BY <1>7, <2>1
      <3>2. t = WithoutAPair(points, points[q].u) /\ Len(points) > 3
        BY <1>2, <1>6, <2>1, <3>1 DEF m
      <3>3. /\ Among(t, points) /\ (Sided(points, TRUE) => Sided(t, TRUE))
            /\ \E i \in DOMAIN t : t[i] = points[q]
        BY <1>3, <2>1, <3>2, WithoutAPairIs
      <3>4. HoldsTop(t, top)
        BY <3>1, <3>3 DEF HoldsTop
      <3>5. f.general = TRUE
        BY <2>1
      <3> QED
        BY <3>3, <3>4, <3>5
    <2>2. CASE ~(f.general /\ m > f.n + 1)
      <3>1. t = WithoutAnEnd(points, protect) /\ Len(points) > 1
        BY <1>2, <1>6, <2>2 DEF m
      <3>2. \/ \A i \in DOMAIN points : points[i].u # protect
            \/ Chain(points) /\ \E q \in DOMAIN points : points[q].u = protect /\ Tall(points[q]) = top
        BY <1>7, <1>8
      <3>3. /\ Among(t, points) /\ (Sided(points, f.general) => Sided(t, f.general))
            /\ HoldsTop(points, top) => HoldsTop(t, top)
        BY <1>1, <1>3, <3>1, <3>2, WithoutAnEndIs
      <3> QED
        BY <1>5, <3>3
    <2> QED
      BY <2>1, <2>2
  <1>10. Among(t, all)
    BY <1>1, <1>9, AmongAll
  <1> QED
    BY <1>1, <1>4, <1>9, <1>10 DEF Selection, t

-----------------------------------------------------------------------------
(* One fit *)

\* An iterate's peak is that of its curve.
Kept(x) == x.peak = Peak(x.curve) /\ x.peak \in Nat
Engines == {"float64", "mpmath"}

\* Until the fit is stored, the best iterate has the smallest peak the engine
\* has seen, and so has what the float64 engine returned unless it is even.
GeneralInv ==
    /\ best.peak = least[engine] /\ (best.peak # None => Kept(best))
    /\ engine = "float64" => float = Unfit /\ least["mpmath"] = None
    /\ float # Unfit => Kept(float) /\ (float.even \/ float.peak = least["float64"])

FitInv ==
    /\ engine \in Engines
    /\ least \in [Engines -> Nat \cup {None}]
    /\ stage \in {"idle", "solve", "trim", "exchange", "done"}
    /\ stage # "idle" => fit \in Instances
    /\ stage \in {"trim", "exchange"} => Peak(curve) \in Nat /\ level \in 0..Peak(curve)
    /\ stage \in {"solve", "trim", "exchange"} /\ fit.general => GeneralInv
    /\ NeverWorse

LEMMA NoFitInv == NoFit => FitInv
  BY DEF NoFit, FitInv, NoLeast, Engines, NeverWorse

LEMMA BeginInv ==
  ASSUME NEW f \in Instances, NEW seed, NEW eng \in Engines, Begin(f, seed, eng)
  PROVE  FitInv' /\ fit' = f /\ engine' = eng /\ stage' = "solve"
  BY RemezAssumption DEF Begin, FitInv, GeneralInv, Kept, NoLeast, Engines, NeverWorse, Unfit, Iterate

LEMMA ClearInv == Clear => FitInv'
  BY DEF Clear, FitInv, NoLeast, Engines, NeverWorse

LEMMA SolveInv == ASSUME FitInv, Solve PROVE FitInv'
<1>1. PICK c \in Curves[fit.target] : \E e \in Levels(c), all \in Selectable(c) : curve' = c /\ level' = e  BY DEF Solve
<1>2. fit.target \in DOMAIN Curves  BY DEF Solve, FitInv, Instances
<1>3. Peak(curve') \in Nat /\ level' \in 0..Peak(curve')
  <2>1. IsCurve(curve') /\ curve' # <<>>  BY <1>1, <1>2, CurvesAssumption DEF IsCurve
  <2>2. Peak(curve') \in Nat  BY <2>1, PeakIs
  <2> QED  BY <1>1, <2>2 DEF Levels
<1>4. /\ stage = "solve" /\ stage' = "trim"
      /\ UNCHANGED <<fit, engine, best, float, result, least>>
  BY DEF Solve
<1> QED  BY <1>3, <1>4 DEF FitInv, GeneralInv, NeverWorse

LEMMA TrimInv == ASSUME FitInv, Trim PROVE FitInv'
  BY DEF Trim, FitInv, GeneralInv, NeverWorse

LEMMA BlowUpInv == ASSUME FitInv, BlowUp PROVE FitInv'
<1>1. /\ stage = "solve" /\ engine = "float64" /\ ~fit.general
      /\ UNCHANGED <<fit, curve, level, least>>
  BY DEF BlowUp
<1>2. stage' \in {"solve", "done"} /\ engine' \in Engines
  BY <1>1 DEF BlowUp, FloatReturns, Engines
<1> QED  BY <1>1, <1>2 DEF FitInv, NeverWorse

\* What the references of an exchange make of the best iterate.
LEMMA BestKept ==
  ASSUME FitInv, stage = "exchange", fit.general,
         least' = [least EXCEPT ![engine] = IF @ = None \/ Peak(curve) < @ THEN Peak(curve) ELSE @]
  PROVE  /\ Kept(This) /\ This.level = level
         /\ Kept(Best(This)) /\ Best(This).peak = least'[engine]
         /\ least' \in [Engines -> Nat \cup {None}]
         /\ \A g \in Engines \ {engine} : least'[g] = least[g]
<1>1. Kept(This) /\ This.peak = Peak(curve) /\ This.level = level  BY DEF FitInv, Kept, This, Iterate
<1>2. GeneralInv /\ engine \in Engines /\ least \in [Engines -> Nat \cup {None}] /\ Peak(curve) \in Nat
  BY DEF FitInv
<1>3. least'[engine] = IF least[engine] = None \/ Peak(curve) < least[engine] THEN Peak(curve) ELSE least[engine]
  BY <1>2
<1>4. best.peak = least[engine] /\ (best.peak # None => Kept(best))  BY <1>2 DEF GeneralInv
<1>5. Kept(Best(This)) /\ Best(This).peak = least'[engine]
  BY <1>1, <1>3, <1>4 DEF Best, Smaller
<1> QED  BY <1>1, <1>2, <1>5

LEMMA NotUnfit == \A x : x.peak \in Nat => x # Unfit
  BY RemezAssumption DEF Unfit, Iterate

\* What the float64 engine returns is stored, or polished.
LEMMA FloatReturnsInv ==
  ASSUME FitInv, stage = "exchange", fit.general, engine = "float64",
         NEW x, Kept(x), x.even \/ x.peak = least'["float64"],
         FloatReturns(x), fit' = fit, least' \in [Engines -> Nat \cup {None}],
         least'["mpmath"] = least["mpmath"]
  PROVE  FitInv'
<1>1. GeneralInv /\ fit \in Instances  BY DEF FitInv
<1>2. x # Unfit /\ x.peak \in Nat  BY NotUnfit DEF Kept
<1>3. float' = x  BY DEF FloatReturns
<1>4. CASE fit.precision
  <2>1. engine' = "mpmath" /\ best' = Unfit /\ stage' = "solve"  BY <1>4 DEF FloatReturns
  <2>2. GeneralInv'
    BY <1>1, <1>3, <2>1 DEF GeneralInv, Kept, Unfit, Iterate
  <2>3. NeverWorse'  BY <2>1 DEF NeverWorse
  <2> QED  BY <1>1, <2>1, <2>2, <2>3 DEF FitInv, Engines
<1>5. CASE ~fit.precision
  <2>1. stage' = "done" /\ result' = x /\ engine' = engine  BY <1>5 DEF FloatReturns
  <2>2. NeverWorse'  BY <1>2, <1>3, <2>1 DEF NeverWorse
  <2> QED  BY <1>1, <2>1, <2>2 DEF FitInv
<1> QED  BY <1>4, <1>5

\* What a polish returns is stored only if it is an improvement.
LEMMA MpReturnsInv ==
  ASSUME FitInv, stage = "exchange", fit.general, engine = "mpmath",
         NEW x, x.peak \in Nat, x.even \/ x.peak = least'["mpmath"],
         MpReturns(x), fit' = fit, least' \in [Engines -> Nat \cup {None}],
         least'["float64"] = least["float64"]
  PROVE  FitInv'
<1>1. GeneralInv /\ fit \in Instances  BY DEF FitInv
<1>2. x # Unfit  BY NotUnfit
<1>3. float' = float /\ stage' = "done" /\ result' = Polished(x) /\ engine' = engine
  BY DEF MpReturns
<1>4. float # Unfit => /\ float.peak = Peak(float.curve) /\ float.peak \in Nat
                       /\ float.even \/ float.peak = least'["float64"]
  BY <1>1 DEF GeneralInv, Kept
<1>5. NeverWorse'
  <2>1. CASE float = Unfit
    <3>1. result' = x  BY <1>3, <2>1 DEF Polished
    <3> QED  BY <1>2, <1>3, <2>1, <3>1 DEF NeverWorse
  <2>2. CASE float # Unfit /\ x.peak < float.peak
    <3>1. result' = x  BY <1>3, <1>4, <2>2 DEF Polished
    <3>2. x # float  BY <1>4, <2>2
    <3>3. x.peak <= float.peak  BY <1>4, <2>2
    <3> QED  BY <1>3, <3>1, <3>2, <3>3 DEF NeverWorse
  <2>3. CASE float # Unfit /\ ~(x.peak < float.peak)
    <3>1. result' = float  BY <1>3, <1>4, <2>3 DEF Polished
    <3> QED  BY <1>3, <1>4, <2>3, <3>1 DEF NeverWorse
  <2> QED  BY <2>1, <2>2, <2>3
<1> QED  BY <1>1, <1>3, <1>5 DEF FitInv

\* Another round.
LEMMA AgainInv ==
  ASSUME FitInv, stage = "exchange", NEW b, Again(b), fit' = fit,
         least' \in [Engines -> Nat \cup {None}],
         fit.general => /\ Kept(b) /\ b.peak = least'[engine]
                        /\ \A g \in Engines \ {engine} : least'[g] = least[g]
  PROVE  FitInv'
<1>1. stage' = "solve" /\ best' = b /\ engine' = engine /\ float' = float /\ engine \in Engines
  BY DEF Again, FitInv
<1>2. fit \in Instances /\ (fit.general => GeneralInv)  BY DEF FitInv
<1>3. fit.general => GeneralInv'
  <2>1. SUFFICES ASSUME fit.general  PROVE GeneralInv'  OBVIOUS
  <2>2. CASE engine = "float64"
    <3>1. float' = Unfit /\ least'["mpmath"] = None  BY <1>1, <1>2, <2>1, <2>2 DEF GeneralInv, Engines
    <3> QED  BY <1>1, <2>1, <2>2, <3>1 DEF GeneralInv, Kept
  <2>3. CASE engine = "mpmath"
    <3>1. least'["float64"] = least["float64"]  BY <2>1, <2>3 DEF Engines
    <3> QED  BY <1>1, <1>2, <2>1, <2>3, <3>1 DEF GeneralInv, Kept
  <2> QED  BY <1>1, <2>2, <2>3 DEF Engines
<1>4. NeverWorse'  BY <1>1 DEF NeverWorse
<1> QED  BY <1>1, <1>2, <1>3, <1>4 DEF FitInv

LEMMA ExchangeInv == ASSUME FitInv, Exchange PROVE FitInv'
<1>1. /\ stage = "exchange" /\ fit' = fit
      /\ least' = [least EXCEPT ![engine] = IF @ = None \/ Peak(curve) < @ THEN Peak(curve) ELSE @]
  BY DEF Exchange
<1>2. Peak(curve) \in Nat /\ level \in 0..Peak(curve) /\ engine \in Engines
  BY <1>1 DEF FitInv
<1>3. least' \in [Engines -> Nat \cup {None}]  BY <1>1, <1>2 DEF FitInv
<1>4. CASE ExchangeGeneral
  <2>1. engine = "float64" /\ fit.general  BY <1>4 DEF ExchangeGeneral
  <2>2. /\ Kept(This) /\ Kept(Best(This)) /\ Best(This).peak = least'["float64"]
        /\ \A g \in Engines \ {engine} : least'[g] = least[g]
    BY <1>1, <2>1, BestKept
  <2>3. least'["mpmath"] = least["mpmath"]  BY <2>1, <2>2 DEF Engines
  <2>4. CASE This.even /\ FloatReturns(This)
    BY <1>1, <1>3, <2>1, <2>2, <2>3, <2>4, FloatReturnsInv
  <2>5. CASE FloatReturns(Best(This))
    BY <1>1, <1>3, <2>1, <2>2, <2>3, <2>5, FloatReturnsInv
  <2>6. CASE Again(Best(This))
    BY <1>1, <1>3, <2>1, <2>2, <2>6, AgainInv
  <2> QED  BY <1>4, <2>4, <2>5, <2>6 DEF ExchangeGeneral
<1>5. CASE PolishGeneral
  <2>1. engine = "mpmath" /\ fit.general  BY <1>5 DEF PolishGeneral
  <2>2. /\ Kept(Best(This)) /\ Best(This).peak = least'["mpmath"]
        /\ \A g \in Engines \ {engine} : least'[g] = least[g]
    BY <1>1, <2>1, BestKept
  <2>3. least'["float64"] = least["float64"]  BY <2>1, <2>2 DEF Engines
  <2>4. CASE This.even /\ MpReturns([This EXCEPT !.peak = level])
    <3> DEFINE x == [This EXCEPT !.peak = level]
    <3>1. x.peak \in Nat /\ x.even = This.even  BY <1>2 DEF This, Iterate
    <3> HIDE DEF x
    <3> QED  BY <1>1, <1>3, <2>1, <2>3, <2>4, <3>1, MpReturnsInv DEF x
  <2>5. CASE MpReturns(Best(This))
    BY <1>1, <1>3, <2>1, <2>2, <2>3, <2>5, MpReturnsInv DEF Kept
  <2>6. CASE Again(Best(This))
    BY <1>1, <1>3, <2>1, <2>2, <2>6, AgainInv
  <2> QED  BY <1>5, <2>4, <2>5, <2>6 DEF PolishGeneral
<1>6. CASE ~fit.general /\ (ExchangeSign \/ PolishSign)
  <2>1. stage' \in {"solve", "done"} /\ engine' \in Engines
    BY <1>2, <1>6 DEF ExchangeSign, PolishSign, FloatReturns, MpReturns, Again, Engines
  <2>2. NeverWorse'  BY <1>1, <1>6 DEF NeverWorse
  <2> QED  BY <1>1, <1>3, <1>6, <2>1, <2>2 DEF FitInv
<1> QED  BY <1>4, <1>5, <1>6 DEF Exchange, ExchangeSign, PolishSign, Polishing

-----------------------------------------------------------------------------
(* cosine_minimax *)

\* The last converged fit: of a degree gone through, and converged unless it is
\* the first.
LastInv(last) ==
    /\ last.degree \in Int /\ Start <= last.degree /\ last.degree < task.degree + Step
    /\ last.good \/ last.degree = Start

CosineInv ==
    /\ task.degree \in Nat /\ Start < task.degree
    /\ Start <= Degree /\ Degree < task.degree + Step

TaskInv ==
    /\ phase \in {"idle", "fit", "float64", "mpmath", "done"}
    /\ phase \in {"fit", "float64", "mpmath"} => stage # "idle"
    /\ phase = "fit" => task \in Fits \/ Degree <= Start
    /\ phase \in {"float64", "mpmath"} => CosineInv
    /\ phase = "float64" /\ Degree # Start => LastInv(lastGood)
    /\ phase = "mpmath" => engine = "mpmath"
    /\ OutcomeAsAsked

AllInv == FitInv /\ TaskInv

LEMMA InstanceIsOne ==
  ASSUME NEW d \in Int, d + 2 \in Nat, NEW p \in BOOLEAN
  PROVE  Instance(d, p) \in Instances /\ Instance(d, p).n = d + 2
  BY CosineAssumption DEF Instance, Instances

\* A fit of the next degree.
LEMMA RaiseInv ==
  ASSUME AllInv, NEW d \in Nat, NEW refs, NEW eng \in Engines, Raise(d, refs, eng),
         task' = task, task.degree \in Nat, Start < task.degree, Start <= d, d < task.degree + Step,
         eng = "float64" /\ d # Start => LastInv(lastGood)'
  PROVE  AllInv'
<1>1. Instance(d, FALSE) \in Instances /\ Instance(d, FALSE).n = d + 2
  <2>1. d \in Int /\ d + 2 \in Nat /\ FALSE \in BOOLEAN  OBVIOUS
  <2> HIDE DEF Instances
  <2> QED  BY <2>1, InstanceIsOne
<1>2. Begin(Instance(d, FALSE), Seed(refs, d + 2), eng) /\ phase' = eng  BY DEF Raise
<1>3. FitInv' /\ fit' = Instance(d, FALSE) /\ engine' = eng /\ stage' = "solve"
  <2> HIDE DEF Seed
  <2> QED  BY <1>1, <1>2, BeginInv
<1>4. Degree' = d
  <2>1. fit'.n = d + 2  BY <1>1, <1>3
  <2> QED  BY <2>1 DEF Degree
<1>5. CosineInv'  BY <1>4 DEF CosineInv
<1>6. OutcomeAsAsked'  BY <1>2 DEF OutcomeAsAsked, Engines
<1> QED  BY <1>2, <1>3, <1>4, <1>5, <1>6 DEF AllInv, TaskInv, Engines

\* A fit is returned.
LEMMA ReturnInv ==
  ASSUME AllInv, NEW r, Return(r), task' = task,
         r.degree > Start =>
             task \in Fits \/ (/\ r.degree \in task.degree..(task.degree + Step - 1)
                               /\ task.precision => r.good \/ r.engine = "mpmath")
  PROVE  AllInv'
<1>1. phase' = "done" /\ outcome' = r /\ UNCHANGED fitVars  BY DEF Return
<1>2. FitInv'  BY <1>1 DEF fitVars, AllInv, FitInv, GeneralInv, NeverWorse
<1>3. TaskInv'  BY <1>1 DEF TaskInv, OutcomeAsAsked
<1> QED  BY <1>2, <1>3 DEF AllInv

LEMMA AllInvInit == Init => AllInv
  BY NoFitInv DEF Init, AllInv, TaskInv, OutcomeAsAsked, NoFit

LEMMA AllInvStep == ASSUME AllInv, [Next]_vars PROVE AllInv'
<1> USE RemezAssumption, CosineAssumption
<1>1. CASE Fit
  <2>1. PICK f \in Fits : task' = f /\ BeginAfresh(f)  BY <1>1 DEF Fit
  <2>2. f \in Instances  OBVIOUS
  <2>3. FitInv' /\ stage' = "solve"  BY <2>1, <2>2, BeginInv DEF BeginAfresh, Engines
  <2>4. phase' = "fit" /\ task' \in Fits  BY <1>1, <2>1 DEF Fit
  <2>5. TaskInv'  BY <2>3, <2>4 DEF TaskInv, OutcomeAsAsked
  <2> QED  BY <2>3, <2>5 DEF AllInv
<1>2. CASE CallCosine
  <2>1. PICK d \in Asked, precise \in BOOLEAN :
          /\ task' = [degree |-> d, precision |-> precise]
          /\ IF d <= Start
             THEN phase' = "fit" /\ BeginAfresh(Instance(d, precise))
             ELSE phase' = "float64" /\ BeginAfresh(Instance(Start, FALSE))
    BY <1>2 DEF CallCosine
  <2>2. d \in Nat /\ d + 2 \in Nat /\ Start + 2 \in Nat  OBVIOUS
  <2>3. CASE d <= Start
    <3>1. Instance(d, precise) \in Instances /\ Instance(d, precise).n = d + 2
      <4>1. d \in Int /\ precise \in BOOLEAN  BY <2>2
      <4> QED  BY ONLY <2>2, <4>1, InstanceIsOne
    <3>2. FitInv' /\ stage' = "solve" /\ fit' = Instance(d, precise)
      BY <2>1, <2>3, <3>1, BeginInv DEF BeginAfresh, Engines
    <3>3. phase' = "fit" /\ Degree' = d  BY <2>1, <2>2, <2>3, <3>1, <3>2 DEF Degree
    <3>4. TaskInv'  BY <2>3, <3>2, <3>3 DEF TaskInv, OutcomeAsAsked
    <3> QED  BY <3>2, <3>4 DEF AllInv
  <2>4. CASE ~(d <= Start)
    <3>1. Instance(Start, FALSE) \in Instances /\ Instance(Start, FALSE).n = Start + 2
      <4>1. Start \in Int /\ FALSE \in BOOLEAN  OBVIOUS
      <4> QED  BY <2>2, <4>1, InstanceIsOne
    <3>2. FitInv' /\ stage' = "solve" /\ fit' = Instance(Start, FALSE)
      BY <2>1, <2>4, <3>1, BeginInv DEF BeginAfresh, Engines
    <3>3. phase' = "float64" /\ Degree' = Start /\ task'.degree = d
      <4>1. fit'.n = Start + 2  BY <3>1, <3>2
      <4>2. Degree' = Start  BY <4>1 DEF Degree
      <4> QED  BY <2>1, <2>4, <4>2
    <3>4. CosineInv'  BY <2>2, <2>4, <3>3 DEF CosineInv
    <3>5. TaskInv'  BY <3>2, <3>3, <3>4 DEF TaskInv, OutcomeAsAsked
    <3> QED  BY <3>2, <3>5 DEF AllInv
  <2> QED  BY <2>3, <2>4
<1>3. CASE FitReturns
  <2> DEFINE r == Record(result.even)
  <2>1. phase = "fit" /\ Return(r) /\ task' = task  BY <1>3 DEF FitReturns
  <2>2. r.degree = Degree  BY DEF Record
  <2>3. r.degree > Start => task \in Fits
    <3>1. Degree \in Int  BY <2>1 DEF AllInv, TaskInv, FitInv, Instances, Degree
    <3> QED  BY <2>1, <2>2, <3>1 DEF AllInv, TaskInv
  <2> HIDE DEF r
  <2> QED  BY <2>1, <2>3, ReturnInv
<1>4. CASE RaiseFloat64
  <2>1. PICK good \in {result.even, TRUE} :
          LET r == Record(good)
          IN  /\ lastGood' = IF good \/ r.degree = Start THEN r ELSE lastGood
              /\ IF MayRaise(r) THEN Raise(r.degree + Step, r.refs, "float64")
                 ELSE IF lastGood'.degree >= task.degree THEN Return(lastGood')
                 ELSE IF ~task.precision THEN Return(r)
                 ELSE LET from == TakenOver(lastGood', r) IN Raise(from.degree + Step, from.refs, "mpmath")
    BY <1>4 DEF RaiseFloat64
  <2> DEFINE r == Record(good)
  <2>2. r.degree = Degree /\ r.good = good  BY DEF Record
  <2>3. phase = "float64" /\ task' = task  BY <1>4 DEF RaiseFloat64
  <2>4. /\ task.degree \in Nat /\ Start < task.degree
        /\ r.degree \in Int /\ Start <= r.degree /\ r.degree < task.degree + Step
    <3>1. Degree \in Int  BY <2>3 DEF AllInv, TaskInv, FitInv, Instances, Degree
    <3> QED  BY <2>2, <2>3, <3>1 DEF AllInv, TaskInv, CosineInv
  <2> HIDE DEF r
  <2>5. lastGood' = IF good \/ r.degree = Start THEN r ELSE lastGood  BY <2>1 DEF r
  <2>6. LastInv(lastGood')
    <3>1. CASE good \/ r.degree = Start  BY <2>2, <2>4, <2>5, <3>1 DEF LastInv
    <3>2. CASE ~good /\ r.degree # Start  BY <2>2, <2>3, <2>5, <3>2 DEF AllInv, TaskInv
    <3> QED  BY <3>1, <3>2
  <2>7. LastInv(lastGood)'  BY <2>3, <2>6 DEF LastInv
  <2>8. CASE MayRaise(r)
    <3>1. Raise(r.degree + Step, r.refs, "float64")  BY <2>1, <2>8 DEF r
    <3>2. r.degree < task.degree  BY <2>8 DEF MayRaise
    <3>3. r.degree + Step \in Nat /\ Start <= r.degree + Step /\ r.degree + Step < task.degree + Step
      BY <2>4, <3>2
    <3> QED  BY <2>3, <2>4, <2>7, <3>1, <3>3, RaiseInv DEF Engines
  <2>9. CASE ~MayRaise(r) /\ lastGood'.degree >= task.degree
    <3>1. Return(lastGood')  BY <2>1, <2>9 DEF r
    <3>2. lastGood'.good /\ lastGood'.degree \in task.degree..(task.degree + Step - 1)
      BY <2>4, <2>6, <2>9 DEF LastInv
    <3> QED  BY <2>3, <3>1, <3>2, ReturnInv
  <2>10. CASE ~MayRaise(r) /\ ~(lastGood'.degree >= task.degree) /\ ~task.precision
    <3>1. Return(r)  BY <2>1, <2>10 DEF r
    <3>2. r.degree \in task.degree..(task.degree + Step - 1)  BY <2>4, <2>10 DEF MayRaise
    <3> QED  BY <2>3, <2>10, <3>1, <3>2, ReturnInv
  <2>11. CASE ~MayRaise(r) /\ ~(lastGood'.degree >= task.degree) /\ task.precision
    <3>1. Raise(lastGood'.degree + Step, lastGood'.refs, "mpmath")
      BY <2>1, <2>11 DEF r, TakenOver
    <3>2. /\ lastGood'.degree + Step \in Nat /\ Start <= lastGood'.degree + Step
          /\ lastGood'.degree + Step < task.degree + Step
      BY <2>4, <2>6, <2>11 DEF LastInv
    <3> QED  BY <2>3, <2>4, <3>1, <3>2, RaiseInv DEF Engines
  <2> QED  BY <2>8, <2>9, <2>10, <2>11
<1>5. CASE RaiseMpmath
  <2> DEFINE r == Record(result.even)
  <2>1. phase = "mpmath" /\ task' = task /\ lastGood' = lastGood /\ engine = "mpmath"
        /\ IF r.degree < task.degree THEN Raise(r.degree + Step, r.refs, "mpmath") ELSE Return(r)
    BY <1>5 DEF RaiseMpmath, AllInv, TaskInv
  <2>2. r.degree = Degree /\ r.engine = engine  BY DEF Record
  <2>3. /\ task.degree \in Nat /\ Start < task.degree
        /\ r.degree \in Int /\ Start <= r.degree /\ r.degree < task.degree + Step
    <3>1. Degree \in Int  BY <2>1 DEF AllInv, TaskInv, FitInv, Instances, Degree
    <3> QED  BY <2>1, <2>2, <3>1 DEF AllInv, TaskInv, CosineInv
  <2> HIDE DEF r
  <2>4. CASE r.degree < task.degree
    <3>1. r.degree + Step \in Nat /\ Start <= r.degree + Step /\ r.degree + Step < task.degree + Step
      BY <2>3, <2>4
    <3> QED  BY <2>1, <2>3, <2>4, <3>1, RaiseInv DEF Engines
  <2>5. CASE ~(r.degree < task.degree)
    <3>1. r.degree \in task.degree..(task.degree + Step - 1)  BY <2>3, <2>5
    <3> QED  BY <2>1, <2>2, <2>5, <3>1, ReturnInv
  <2> QED  BY <2>4, <2>5
<1>6. CASE Exchanging
  <2>1. FitStep /\ UNCHANGED <<task, phase, lastGood, outcome>>  BY <1>6 DEF Exchanging
  <2>2. FitInv'  BY <2>1, SolveInv, BlowUpInv, TrimInv, ExchangeInv DEF FitStep, AllInv
  <2>3. fit' = fit /\ stage' # "idle" /\ (engine = "mpmath" => engine' = "mpmath")
    BY <2>1 DEF FitStep, Solve, BlowUp, Trim, Exchange, ExchangeGeneral, PolishGeneral,
       ExchangeSign, PolishSign, FloatReturns, MpReturns, Again
  <2>4. Degree' = Degree  BY <2>3 DEF Degree
  <2>5. TaskInv'
    BY <2>1, <2>3, <2>4 DEF AllInv, TaskInv, CosineInv, LastInv, OutcomeAsAsked
  <2> QED  BY <2>2, <2>5 DEF AllInv
<1>7. CASE Take
  BY <1>7, ClearInv DEF Take, AllInv, TaskInv, OutcomeAsAsked
<1>8. CASE UNCHANGED vars
  <2>1. FitInv'  BY <1>8 DEF vars, fitVars, AllInv, FitInv, GeneralInv, NeverWorse
  <2>2. TaskInv'
    BY <1>8 DEF vars, fitVars, AllInv, TaskInv, CosineInv, LastInv, Degree, OutcomeAsAsked
  <2> QED  BY <2>1, <2>2 DEF AllInv
<1> QED  BY <1>1, <1>2, <1>3, <1>4, <1>5, <1>6, <1>7, <1>8 DEF Next

\* Whatever else is approximated, a fit is changed by its own steps only.
LEMMA AllIsInvariant == AllSpec => []AllInv
<1>1. AllInit => AllInv  BY AllInvInit DEF AllInit
<1>2. AllInv /\ [AllNext]_allVars => AllInv'
  <2>1. [AllNext]_allVars => [Next]_vars  BY DEF AllNext, Fitting, SearchingSign, allVars
  <2> QED  BY <2>1, AllInvStep
<1> QED  BY <1>1, <1>2, PTL DEF AllSpec

\* What a fit stores is no worse than any iterate of the engine it is from, and
\* a polish never makes it worse (_fit_general_float64, _fit_general_mpmath).
THEOREM FitNeverWorse == AllSpec => []NeverWorse
<1>1. AllInv => NeverWorse  BY DEF AllInv, FitInv
<1> QED  BY <1>1, AllIsInvariant, PTL

\* A continuation ends less than a step above the degree asked for, and with
\* precision never with a float64 fit that did not converge (cosine_minimax).
THEOREM ContinuationAsAsked == AllSpec => []OutcomeAsAsked
<1>1. AllInv => OutcomeAsAsked  BY DEF AllInv, TaskInv
<1> QED  BY <1>1, AllIsInvariant, PTL

-----------------------------------------------------------------------------
(* References through a fit *)

\* An iterate that is one has references to go on from: in order and apart, but
\* for those the later rounds of the sign path's polish are on, whose extrema
\* have moved.  That polish ends with those the float64 engine ended with.
NodesInv ==
    /\ stage # "idle" => fit \in Instances /\ fit.n > 1 /\ fit.n <= Scale
    /\ stage \in {"solve", "trim", "exchange"} =>
         /\ IsSequence(nodes) /\ Len(nodes) = fit.n /\ iter \in Nat
         /\ ~(Polishing /\ iter > 0) => References(nodes, fit.n)
         /\ best.peak # None => References(best.refs, fit.n)
         /\ float # Unfit => References(float.refs, fit.n)
         /\ Polishing => float # Unfit
    /\ stage \in {"trim", "exchange"} => IsSequence(alt) /\ (~Polishing => Chain(alt))
    /\ stage = "done" => References(result.refs, fit.n)

LEMMA ReferencesAre == ASSUME NEW s, NEW n, References(s, n) PROVE IsSequence(s) /\ Len(s) = n
  BY DEF References, Rising

LEMMA BeginNodes ==
    ASSUME NEW f \in Instances, f.n > 1, f.n <= Scale, NEW seed, References(seed, f.n),
           NEW eng, Begin(f, seed, eng), eng = "mpmath" => f.general
    PROVE  NodesInv'
  <1>1. /\ fit' = f /\ stage' = "solve" /\ engine' = eng /\ iter' = 0 /\ nodes' = seed
        /\ best' = Unfit /\ float' = Unfit
    BY DEF Begin
  <1>2. best'.peak = None /\ ~Polishing'
    BY <1>1 DEF Unfit, Iterate, Polishing
  <1>3. IsSequence(seed) /\ Len(seed) = f.n
    BY ReferencesAre
  <1> QED
    BY <1>1, <1>2, <1>3 DEF NodesInv

\* What a solve selects from, and how tall it is.
LEMMA SolveIs ==
    ASSUME FitInv, NodesInv, Solve
    PROVE  \E c, e, all : \E top \in Nat :
               /\ IsCurve(c) /\ c # <<>> /\ NoFlatValley(c) /\ e \in 0..Peak(c)
               /\ curve' = c /\ extrema' = all /\ skeleton' = Alternation(fit, all, e)
               /\ alt' = IF fit.general THEN Padded(skeleton', all, fit.n) ELSE skeleton'
               /\ IsSequence(all) /\ Topped(all, top)
               /\ ~Polishing => /\ Chain(all) /\ Led(all, top) /\ top = Peak(c)
                                /\ Peak(c) >= Floor(fit, engine) => DOMAIN all # {}
  <1>1. PICK c \in Curves[fit.target] : \E e \in Levels(c), all \in Selectable(c) :
            /\ curve' = c /\ level' = e /\ extrema' = all
            /\ skeleton' = Alternation(fit, all, e)
            /\ alt' = IF fit.general THEN Padded(skeleton', all, fit.n) ELSE skeleton'
    BY DEF Solve
  <1>2. PICK e \in Levels(c), all \in Selectable(c) :
            /\ curve' = c /\ extrema' = all
            /\ skeleton' = Alternation(fit, all, e)
            /\ alt' = IF fit.general THEN Padded(skeleton', all, fit.n) ELSE skeleton'
    BY <1>1
  <1>3. fit \in Instances /\ fit.target \in DOMAIN Curves
    BY DEF Solve, NodesInv, Instances
  <1>4. IsCurve(c) /\ c # <<>> /\ NoFlatValley(c)
    BY <1>3, CurvesAssumption DEF IsCurve, NoFlatValley
  <1>5. Peak(c) \in Nat /\ e \in 0..Peak(c)
    <2>1. Peak(c) \in Nat
      BY <1>4, PeakIs
    <2> QED
      BY <2>1 DEF Levels
  <1>6. CASE Polishing
    <2>1. all \in Moved(c)
      BY <1>6 DEF Selectable
    <2>2. IsSequence(all) /\ \E top \in Nat : Topped(all, top)
      BY <1>4, <2>1, MovedIs
    <2> QED
      BY <1>2, <1>4, <1>5, <1>6, <2>2
  <1>7. CASE ~Polishing
    <2> DEFINE floor == Floor(fit, engine)
    <2>1. all = Loud(c, floor)
      BY <1>7 DEF Selectable
    <2>2. floor \in Nat
      BY RemezAssumption DEF Floor, FitInv, Engines, Solve
    <2> HIDE DEF floor
    <2>3. Chain(all) /\ IsSequence(all)
      BY <1>4, <2>1, LoudChain DEF Chain
    <2>4. Topped(all, Peak(c)) /\ Led(all, Peak(c)) /\ (Peak(c) >= floor => DOMAIN all # {})
      BY <1>4, <2>1, <2>2, LoudIs
    <2> QED
      BY <1>2, <1>4, <1>5, <2>3, <2>4 DEF floor
  <1> QED
    BY <1>6, <1>7

LEMMA SolveNodes == ASSUME FitInv, NodesInv, Solve PROVE NodesInv'
  <1>1. PICK c, e, all : \E top \in Nat :
            /\ skeleton' = Alternation(fit, all, e)
            /\ alt' = IF fit.general THEN Padded(skeleton', all, fit.n) ELSE skeleton'
            /\ IsSequence(all) /\ Topped(all, top) /\ (~Polishing => Chain(all))
    BY SolveIs
  <1>2. PICK top \in Nat : Topped(all, top)
    BY <1>1
  <1>3. stage = "solve" /\ stage' = "trim" /\ UNCHANGED <<fit, engine, iter, nodes, best, float, result>>
    BY DEF Solve
  <1>4. IsSequence(alt') /\ (~Polishing => Chain(alt'))
    <2>1. CASE Polishing
      <3>1. alt' = Runs(all)
        BY <1>1, <2>1 DEF Polishing, Alternation
      <3> QED
        BY <1>1, <1>2, <2>1, <3>1, RunsAre DEF Topped
    <2>2. CASE ~Polishing
      <3>1. Chain(alt')
        BY <1>1, <2>2, AlternationChain, PaddedChain
      <3> QED
        BY <3>1 DEF Chain
    <2> QED
      BY <2>1, <2>2
  <1>5. Polishing' = Polishing
    BY <1>3 DEF Polishing
  <1> QED
    BY <1>3, <1>4, <1>5 DEF NodesInv

LEMMA TrimNodes == ASSUME NodesInv, Trim PROVE NodesInv'
  <1>1. /\ stage = "trim" /\ stage' \in {"trim", "exchange"}
        /\ UNCHANGED <<fit, engine, iter, nodes, best, float, result>>
    BY DEF Trim
  <1>2. IsSequence(alt) /\ (~Polishing => Chain(alt)) /\ fit.n \in Nat /\ fit.n > 1
    BY <1>1 DEF NodesInv, Instances
  <1>3. IsSequence(alt') /\ (~Polishing => Chain(alt'))
    <2>1. CASE Len(alt) > fit.n
      <3>1. alt' = Trimmed(fit, alt)
        BY <2>1 DEF Trim
      <3>2. Len(alt) > 1
        BY <1>2, <2>1, SequenceIs
      <3>3. CASE Polishing
        <4>1. alt' = WithoutAnEnd(alt, None)
          BY <3>1, <3>3 DEF Polishing, Trimmed
        <4> QED
          BY <1>2, <3>2, <3>3, <4>1, WithoutAnEndIsSequence
      <3>4. CASE ~Polishing
        BY <1>2, <3>1, <3>2, <3>4, TrimmedChain DEF Chain
      <3> QED
        BY <3>3, <3>4
    <2>2. CASE ~(Len(alt) > fit.n)
      <3>1. alt' = alt
        BY <2>2 DEF Trim
      <3> QED
        BY <1>2, <3>1
    <2> QED
      BY <2>1, <2>2
  <1>4. Polishing' = Polishing
    BY <1>1 DEF Polishing
  <1> QED
    BY <1>1, <1>3, <1>4 DEF NodesInv

\* What the float64 engine returns has references, and so have a polish of it
\* and what is stored.
LEMMA FloatReturnsNodes ==
    ASSUME NodesInv, stage \in {"solve", "exchange"}, fit' = fit, engine = "float64",
           NEW x, References(x.refs, fit.n), x.peak # None, FloatReturns(x)
    PROVE  NodesInv'
  <1>1. fit \in Instances /\ fit.n > 1 /\ fit.n <= Scale
    BY DEF NodesInv
  <1>2. float' = x /\ x # Unfit /\ IsSequence(x.refs) /\ Len(x.refs) = fit.n
    BY ReferencesAre DEF FloatReturns, Unfit, Iterate
  <1>3. CASE fit.precision
    <2>1. best' = Unfit /\ stage' = "solve" /\ nodes' = x.refs /\ iter' = 0
      BY <1>3 DEF FloatReturns
    <2>2. best'.peak = None
      BY <2>1 DEF Unfit, Iterate
    <2> QED
      BY <1>1, <1>2, <2>1, <2>2 DEF NodesInv
  <1>4. CASE ~fit.precision
    <2>1. stage' = "done" /\ result' = x
      BY <1>4 DEF FloatReturns
    <2> QED
      BY <1>1, <2>1 DEF NodesInv
  <1> QED
    BY <1>3, <1>4

\* What a polish ends with: in the sign path the float64 engine's references.
LEMMA MpReturnsNodes ==
    ASSUME NodesInv, stage = "exchange", fit' = fit, engine = "mpmath",
           NEW x, fit.general => References(x.refs, fit.n),
           ~fit.general => [x EXCEPT !.refs = float.refs].refs = float.refs, MpReturns(x)
    PROVE  NodesInv'
  <1>1. /\ fit \in Instances /\ fit.n > 1 /\ fit.n <= Scale /\ (float # Unfit => References(float.refs, fit.n))
        /\ ~fit.general => float # Unfit
    BY DEF NodesInv, Polishing
  <1>2. stage' = "done" /\ result' = Polished(x)
    BY DEF MpReturns
  <1>3. References(Polished(x).refs, fit.n)
    BY <1>1 DEF Polished
  <1> QED
    BY <1>1, <1>2, <1>3 DEF NodesInv

LEMMA AgainNodes ==
    ASSUME NodesInv, stage = "exchange", fit' = fit,
           IsSequence(This.refs), Len(This.refs) = fit.n, ~Polishing => References(This.refs, fit.n),
           NEW b, b.peak # None => References(b.refs, fit.n), Again(b)
    PROVE  NodesInv'
  <1>1. /\ stage' = "solve" /\ iter' = iter + 1 /\ best' = b /\ nodes' = This.refs
        /\ engine' = engine /\ float' = float
    BY DEF Again
  <1>2. Polishing' = Polishing
    BY <1>1 DEF Polishing
  <1>3. iter \in Nat /\ iter' \in Nat /\ iter' > 0
    <2>1. iter \in Nat
      BY DEF NodesInv
    <2> QED
      BY <1>1, <2>1
  <1>4. /\ fit \in Instances /\ fit.n > 1 /\ fit.n <= Scale
        /\ float # Unfit => References(float.refs, fit.n)
        /\ Polishing => float # Unfit
    BY DEF NodesInv
  <1> QED
    BY <1>1, <1>2, <1>3, <1>4 DEF NodesInv

\* The references an exchange chooses are as many, or are those it had.
LEMMA ThisNodes ==
    ASSUME NodesInv, stage = "exchange"
    PROVE  /\ IsSequence(This.refs) /\ Len(This.refs) = fit.n
           /\ ~Polishing => References(This.refs, fit.n) /\ References(Best(This).refs, fit.n)
           /\ [This EXCEPT !.refs = float.refs].refs = float.refs
           /\ [This EXCEPT !.peak = level].refs = This.refs
           /\ This.peak = Peak(curve) /\ (This.peak # None => Best(This).peak # None)
  <1>1. This = [curve |-> curve, peak |-> Peak(curve), refs |-> Refs(fit, alt), level |-> level, even |-> Even(fit, alt)]
    BY DEF This, Iterate
  <1> DEFINE refs == Refs(fit, alt)
             peak == Peak(curve)
             even == Even(fit, alt)
  <1>2. This = [curve |-> curve, peak |-> peak, refs |-> refs, level |-> level, even |-> even]
    BY <1>1
  <1>3. IsSequence(refs) /\ Len(refs) = fit.n /\ (~Polishing => References(refs, fit.n))
    <2>1. CASE Len(alt) = fit.n
      <3>1. IsSequence(alt) /\ (~Polishing => Chain(alt)) /\ Len(alt) > 1
        BY <2>1 DEF NodesInv
      <3>2. refs = Positions(alt)
        BY <2>1 DEF Refs
      <3>3. IsSequence(refs) /\ Len(refs) = fit.n
        BY <2>1, <3>1, <3>2, PositionsAreSequence
      <3>4. ~Polishing => References(refs, fit.n)
        BY <2>1, <3>1, <3>2, PositionsAreReferences
      <3> QED
        BY <3>3, <3>4
    <2>2. CASE Len(alt) # fit.n
      <3>1. refs = nodes
        BY <2>2 DEF Refs
      <3>2. iter \in Nat /\ IsSequence(nodes) /\ Len(nodes) = fit.n /\ (~Polishing => References(nodes, fit.n))
        BY DEF NodesInv
      <3> QED
        BY <3>1, <3>2
    <2> QED
      BY <2>1, <2>2
  <1> HIDE DEF refs, peak, even
  <1>4. /\ This.refs = refs /\ [This EXCEPT !.refs = float.refs].refs = float.refs
        /\ [This EXCEPT !.peak = level].refs = This.refs /\ This.peak = peak
    BY <1>2
  <1>5. Best(This) = This \/ (Best(This) = best /\ best.peak # None)
    BY DEF Best, Smaller
  <1>6. ~Polishing => References(Best(This).refs, fit.n)
    BY <1>3, <1>4, <1>5 DEF NodesInv
  <1> QED
    BY <1>3, <1>4, <1>5, <1>6 DEF peak

LEMMA ExchangeNodes == ASSUME FitInv, NodesInv, Exchange PROVE NodesInv'
  <1>1. stage = "exchange" /\ fit' = fit
    BY DEF Exchange
  <1>2. /\ IsSequence(This.refs) /\ Len(This.refs) = fit.n
        /\ ~Polishing => References(This.refs, fit.n) /\ References(Best(This).refs, fit.n)
        /\ [This EXCEPT !.refs = float.refs].refs = float.refs
        /\ [This EXCEPT !.peak = level].refs = This.refs
        /\ This.peak # None /\ Best(This).peak # None
    <2>1. Peak(curve) # None
      BY <1>1, RemezAssumption DEF FitInv
    <2> QED
      BY <1>1, <2>1, ThisNodes
  <1>3. best.peak # None => References(best.refs, fit.n)
    BY <1>1 DEF NodesInv
  <1>4. CASE engine = "float64" /\ \E x \in {This, Best(This)} : FloatReturns(x)
    <2>1. ~Polishing
      BY <1>4 DEF Polishing
    <2> QED
      BY <1>1, <1>2, <1>4, <2>1, FloatReturnsNodes
  <1>5. CASE engine = "mpmath" /\ fit.general /\ MpReturns([This EXCEPT !.peak = level])
    <2> DEFINE x == [This EXCEPT !.peak = level]
    <2>1. References(x.refs, fit.n) /\ MpReturns(x) /\ fit.general
      BY <1>2, <1>5 DEF Polishing
    <2> HIDE DEF x
    <2> QED
      BY <1>1, <1>5, <2>1, MpReturnsNodes
  <1>6. CASE engine = "mpmath" /\ fit.general /\ MpReturns(Best(This))
    <2>1. ~Polishing
      BY <1>6 DEF Polishing
    <2> QED
      BY <1>1, <1>2, <1>6, <2>1, MpReturnsNodes
  <1>7. CASE engine = "mpmath" /\ ~fit.general /\ MpReturns(This)
    BY <1>1, <1>2, <1>7, MpReturnsNodes
  <1>8. CASE Again(best)
    BY <1>1, <1>2, <1>3, <1>8, AgainNodes
  <1>9. CASE fit.general /\ Again(Best(This))
    <2>1. ~Polishing
      BY <1>9 DEF Polishing
    <2> QED
      BY <1>1, <1>2, <1>9, <2>1, AgainNodes
  <1>10. \/ engine = "float64" /\ \E x \in {This, Best(This)} : FloatReturns(x)
         \/ engine = "mpmath" /\ fit.general /\ MpReturns([This EXCEPT !.peak = level])
         \/ engine = "mpmath" /\ fit.general /\ MpReturns(Best(This))
         \/ engine = "mpmath" /\ ~fit.general /\ MpReturns(This)
         \/ Again(best)
         \/ fit.general /\ Again(Best(This))
    BY DEF Exchange, ExchangeGeneral, PolishGeneral, ExchangeSign, PolishSign, Polishing
  <1> QED
    BY <1>4, <1>5, <1>6, <1>7, <1>8, <1>9, <1>10

LEMMA FitStepNodes == ASSUME FitInv, NodesInv, FitStep PROVE NodesInv'
  <1>1. CASE BlowUp
    <2>1. stage = "solve" /\ fit' = fit /\ engine = "float64" /\ fit.target \in DOMAIN Curves
      BY <1>1 DEF BlowUp, NodesInv, Instances
    <2>2. PICK c \in Curves[fit.target] : \E e \in Levels(c) : FloatReturns(Iterate(c, Peak(c), nodes, e, FALSE))
      BY <1>1 DEF BlowUp
    <2>3. PICK e \in Levels(c) : FloatReturns(Iterate(c, Peak(c), nodes, e, FALSE))
      BY <2>2
    <2> DEFINE x == Iterate(c, Peak(c), nodes, e, FALSE)
    <2>4. x.refs = nodes /\ x.peak = Peak(c)
      BY DEF Iterate
    <2>5. References(nodes, fit.n)
      BY <2>1 DEF NodesInv, Polishing
    <2>6. Peak(c) # None
      <3>1. IsCurve(c) /\ c # <<>>
        BY <2>1, CurvesAssumption DEF IsCurve
      <3>2. Peak(c) \in Nat
        BY <3>1, PeakIs
      <3> QED
        BY <3>2, RemezAssumption
    <2>7. FloatReturns(x)
      BY <2>3
    <2> HIDE DEF x
    <2> QED
      BY <2>1, <2>4, <2>5, <2>6, <2>7, FloatReturnsNodes
  <1> QED
    BY <1>1, SolveNodes, TrimNodes, ExchangeNodes DEF FitStep

-----------------------------------------------------------------------------
(* References through a continuation *)

\* The last converged fit has the references of its degree.
SeedInv ==
    /\ phase \in {"float64", "mpmath"} => task.degree \in Asked
    /\ phase = "float64" /\ Degree # Start => References(lastGood.refs, lastGood.degree + 2)

AllNodes == AllInv /\ NodesInv /\ SeedInv

\* A fit of a higher degree is seeded with all the references of a lower one.
LEMMA SeedIs ==
    ASSUME NEW d \in Int, d >= 0, NEW refs, References(refs, d + 2),
           NEW top \in Asked, d < top
    PROVE  /\ References(Seed(refs, d + Step + 2), d + Step + 2)
           /\ Contained(refs, Seed(refs, d + Step + 2))
           /\ d + Step + 2 > 1 /\ d + Step + 2 <= Scale
  <1>1. /\ Step \in Nat /\ Step > 0 /\ top \in Nat /\ Scale \in Nat /\ top + Step < Scale
    BY CosineAssumption, RemezAssumption
  <1> DEFINE m == d + 2
             n == d + Step + 2
  <1>2. m \in Nat /\ m > 1 /\ n \in Nat /\ m <= n /\ n <= Scale /\ n > 1 /\ FALSE \in BOOLEAN
    BY <1>1
  <1>3. References(refs, m)
    OBVIOUS
  <1> HIDE DEF m, n
  <1>4. References(Filled(refs, n, FALSE), n) /\ Contained(refs, Filled(refs, n, FALSE))
    BY <1>2, <1>3, FilledIs
  <1> QED
    BY <1>2, <1>4 DEF Seed, n

\* Raising the degree d of some references.
LEMMA RaiseNodes ==
    ASSUME AllNodes, NEW d \in Int, d >= 0, NEW refs, References(refs, d + 2), d < task.degree,
           phase \in {"float64", "mpmath"}, task' = task,
           NEW eng \in Engines, Raise(d + Step, refs, eng),
           eng = "float64" => References(lastGood'.refs, lastGood'.degree + 2)
    PROVE  NodesInv' /\ SeedInv' /\ Degree' = d + Step /\ Contained(refs, nodes')
  <1> DEFINE e == d + Step
             f == Instance(e, FALSE)
             seed == Seed(refs, e + 2)
  <1>1. Step \in Nat /\ Step > 0
    BY CosineAssumption
  <1>2. task.degree \in Asked
    BY DEF AllNodes, SeedInv
  <1>3. References(seed, e + 2) /\ Contained(refs, seed) /\ e + 2 > 1 /\ e + 2 <= Scale
    BY <1>2, SeedIs
  <1>4. Begin(f, seed, eng) /\ phase' = eng
    BY DEF Raise
  <1>5. f \in Instances /\ f.n = e + 2 /\ f.general
    <2>1. e \in Int /\ e + 2 \in Nat /\ FALSE \in BOOLEAN
      BY <1>1
    <2> HIDE DEF e
    <2>2. f \in Instances /\ f.n = e + 2
      BY <2>1, InstanceIsOne
    <2>3. f.general
      BY CosineAssumption DEF Instance, Instances
    <2> QED
      BY <2>2, <2>3
  <1> HIDE DEF f, seed
  <1>6. NodesInv'
    <2>1. f.n > 1 /\ f.n <= Scale /\ References(seed, f.n)
      BY <1>3, <1>5
    <2> QED
      BY <1>4, <1>5, <2>1, BeginNodes
  <1>7. fit' = f /\ nodes' = seed
    BY <1>4 DEF Begin
  <1>8. Degree' = e
    <2>1. e \in Int
      BY <1>1
    <2> HIDE DEF e
    <2> QED
      BY <1>5, <1>7, <2>1 DEF Degree
  <1>9. SeedInv'
    BY <1>2, <1>4 DEF SeedInv, Engines
  <1> QED
    BY <1>3, <1>6, <1>7, <1>8, <1>9

\* A fit that is done has the references of its degree.
LEMMA DoneNodes ==
    ASSUME AllNodes, phase \in {"float64", "mpmath"}, stage = "done"
    PROVE  Degree \in Int /\ Degree >= 0 /\ References(result.refs, Degree + 2)
  <1>1. fit.n \in Nat /\ fit.n > 1 /\ References(result.refs, fit.n)
    BY DEF AllNodes, NodesInv, Instances
  <1>2. Degree \in Int /\ Degree >= 0 /\ Degree + 2 = fit.n
    BY <1>1 DEF Degree
  <1> QED
    BY <1>1, <1>2

LEMMA AllNodesInit == Init => AllNodes
  BY AllInvInit DEF Init, NoFit, AllNodes, NodesInv, SeedInv, Unfit, Iterate

\* What phase 1 makes of a fit that is done.
LEMMA RaisedFloat64 ==
    ASSUME AllNodes, RaiseFloat64
    PROVE  /\ phase = "float64" /\ task' = task
           /\ LastInv(lastGood') /\ References(lastGood'.refs, lastGood'.degree + 2)
           /\ \/ Degree < task.degree /\ Raise(Degree + Step, result.refs, "float64")
              \/ \E r : Return(r)
              \/ lastGood'.degree < task.degree /\ Raise(lastGood'.degree + Step, lastGood'.refs, "mpmath")
  <1>1. PICK good \in {result.even, TRUE} :
          LET r == Record(good)
          IN  /\ lastGood' = IF good \/ r.degree = Start THEN r ELSE lastGood
              /\ IF MayRaise(r) THEN Raise(r.degree + Step, r.refs, "float64")
                 ELSE IF lastGood'.degree >= task.degree THEN Return(lastGood')
                 ELSE IF ~task.precision THEN Return(r)
                 ELSE LET from == TakenOver(lastGood', r) IN Raise(from.degree + Step, from.refs, "mpmath")
    BY DEF RaiseFloat64
  <1> DEFINE r == Record(good)
  <1>2. r.degree = Degree /\ r.good = good /\ r.refs = result.refs
    BY DEF Record
  <1>3. phase = "float64" /\ stage = "done" /\ task' = task
    BY DEF RaiseFloat64
  <1>4. /\ task.degree \in Nat /\ Start < task.degree /\ Start \in Nat
        /\ Degree \in Int /\ Start <= Degree /\ Degree < task.degree + Step
        /\ fit.n = Degree + 2
    <2>1. fit.n \in Nat
      BY <1>3 DEF AllNodes, NodesInv, Instances
    <2>2. Degree \in Int /\ fit.n = Degree + 2
      BY <2>1 DEF Degree
    <2> QED
      BY <1>3, <2>2, CosineAssumption DEF AllNodes, AllInv, TaskInv, CosineInv
  <1>5. References(result.refs, Degree + 2)
    BY <1>3, <1>4 DEF AllNodes, NodesInv
  <1> HIDE DEF r
  <1>6. lastGood' = IF good \/ r.degree = Start THEN r ELSE lastGood
    BY <1>1 DEF r
  <1>7. LastInv(lastGood') /\ References(lastGood'.refs, lastGood'.degree + 2)
    <2>1. CASE good \/ r.degree = Start
      BY <1>2, <1>4, <1>5, <1>6, <2>1 DEF LastInv
    <2>2. CASE ~good /\ r.degree # Start
      BY <1>2, <1>3, <1>6, <2>2 DEF AllNodes, AllInv, TaskInv, SeedInv
    <2> QED
      BY <2>1, <2>2
  <1>8. CASE MayRaise(r)
    <2>1. Raise(r.degree + Step, r.refs, "float64") /\ r.degree < task.degree
      BY <1>1, <1>8 DEF r, MayRaise
    <2> QED
      BY <1>2, <1>3, <1>7, <2>1
  <1>9. CASE ~MayRaise(r) /\ lastGood'.degree < task.degree /\ task.precision
    <2>1. ~(lastGood'.degree >= task.degree)
      BY <1>4, <1>7, <1>9 DEF LastInv
    <2>2. Raise(lastGood'.degree + Step, lastGood'.refs, "mpmath")
      BY <1>1, <1>9, <2>1 DEF r, TakenOver
    <2> QED
      BY <1>3, <1>7, <1>9, <2>2
  <1>10. CASE ~MayRaise(r) /\ ~(lastGood'.degree < task.degree /\ task.precision)
    <2>1. lastGood'.degree >= task.degree \/ ~task.precision
      BY <1>4, <1>7, <1>10 DEF LastInv
    <2>2. \E x : Return(x)
      BY <1>1, <1>10, <2>1 DEF r
    <2> QED
      BY <1>3, <1>7, <2>2
  <1> QED
    BY <1>8, <1>9, <1>10

LEMMA ReturnNodes ==
    ASSUME NodesInv, NEW r, Return(r)
    PROVE  NodesInv' /\ SeedInv'
  BY DEF Return, fitVars, NodesInv, SeedInv, Polishing

LEMMA AllNodesStep == ASSUME AllNodes, [Next]_vars PROVE AllNodes'
  <1>1. AllInv'
    BY AllInvStep DEF AllNodes
  <1>2. CASE Fit
    <2>1. PICK f \in Fits : Begin(f, InitialNodes(f), "float64")
      BY <1>2 DEF Fit, BeginAfresh
    <2>2. f \in Instances /\ f.n > 1 /\ f.n <= Scale
      BY RemezAssumption, FineAssumption
    <2>3. NodesInv'
      BY <2>1, <2>2, InitialNodesAre, BeginNodes
    <2>4. SeedInv'
      BY <1>2 DEF Fit, SeedInv
    <2> QED
      BY <1>1, <2>3, <2>4 DEF AllNodes
  <1>3. CASE CallCosine
    <2>1. PICK d \in Asked, precise \in BOOLEAN :
            /\ task' = [degree |-> d, precision |-> precise]
            /\ IF d <= Start
               THEN phase' = "fit" /\ BeginAfresh(Instance(d, precise))
               ELSE phase' = "float64" /\ BeginAfresh(Instance(Start, FALSE))
      BY <1>3 DEF CallCosine
    <2> DEFINE e == IF d <= Start THEN d ELSE Start
               p == IF d <= Start THEN precise ELSE FALSE
               f == Instance(e, p)
    <2>2. /\ d \in Nat /\ Start \in Nat /\ Step \in Nat /\ Step > 0
          /\ Scale \in Nat /\ d + Step < Scale
      BY CosineAssumption, RemezAssumption
    <2>3. e \in Int /\ e + 2 \in Nat /\ p \in BOOLEAN /\ e + 2 > 1 /\ e + 2 <= Scale
      <3>1. p \in BOOLEAN
        OBVIOUS
      <3>2. e \in Int /\ e + 2 \in Nat /\ e + 2 > 1 /\ e + 2 <= Scale
        BY <2>2
      <3> QED
        BY <3>1, <3>2
    <2>4. Begin(f, InitialNodes(f), "float64")
      BY <2>1 DEF BeginAfresh
    <2>5. d > Start => e = Start
      BY <2>2
    <2> HIDE DEF e, p
    <2>6. f \in Instances /\ f.n = e + 2
      BY <2>3, InstanceIsOne
    <2> HIDE DEF f
    <2>7. f.n > 1 /\ f.n <= Scale
      BY <2>3, <2>6
    <2>8. NodesInv' /\ fit' = f
      <3>1. References(InitialNodes(f), f.n)
        BY <2>6, <2>7, InitialNodesAre
      <3>2. NodesInv'
        BY <2>4, <2>6, <2>7, <3>1, BeginNodes
      <3> QED
        BY <2>4, <3>2 DEF Begin
    <2>9. SeedInv'
      <3>1. CASE d <= Start
        BY <2>1, <3>1 DEF SeedInv
      <3>2. CASE ~(d <= Start)
        <4>1. phase' = "float64" /\ task'.degree = d
          BY <2>1, <3>2
        <4>2. Degree' = Start
          BY <2>2, <2>5, <2>6, <2>8, <3>2 DEF Degree
        <4> QED
          BY <4>1, <4>2 DEF SeedInv
      <3> QED
        BY <3>1, <3>2
    <2> QED
      BY <1>1, <2>8, <2>9 DEF AllNodes
  <1>4. CASE FitReturns
    BY <1>1, <1>4, ReturnNodes DEF FitReturns, AllNodes
  <1>5. CASE RaiseFloat64
    <2>1. /\ phase = "float64" /\ task' = task
          /\ LastInv(lastGood') /\ References(lastGood'.refs, lastGood'.degree + 2)
          /\ \/ Degree < task.degree /\ Raise(Degree + Step, result.refs, "float64")
             \/ \E r : Return(r)
             \/ lastGood'.degree < task.degree /\ Raise(lastGood'.degree + Step, lastGood'.refs, "mpmath")
      BY <1>5, RaisedFloat64
    <2>2. "float64" \in Engines /\ "mpmath" \in Engines /\ "mpmath" # "float64"
      BY DEF Engines
    <2>3. CASE Degree < task.degree /\ Raise(Degree + Step, result.refs, "float64")
      <3>1. Degree \in Int /\ Degree >= 0 /\ References(result.refs, Degree + 2)
        BY <1>5, DoneNodes DEF RaiseFloat64
      <3>2. NodesInv' /\ SeedInv'
        BY <2>1, <2>2, <2>3, <3>1, RaiseNodes
      <3> QED
        BY <1>1, <3>2 DEF AllNodes
    <2>4. CASE \E r : Return(r)
      BY <1>1, <2>4, ReturnNodes DEF AllNodes
    <2>5. CASE lastGood'.degree < task.degree /\ Raise(lastGood'.degree + Step, lastGood'.refs, "mpmath")
      <3>1. lastGood'.degree \in Int /\ lastGood'.degree >= 0
        BY <2>1, CosineAssumption DEF LastInv
      <3>2. NodesInv' /\ SeedInv'
        BY <2>1, <2>2, <2>5, <3>1, RaiseNodes
      <3> QED
        BY <1>1, <3>2 DEF AllNodes
    <2> QED
      BY <2>1, <2>3, <2>4, <2>5
  <1>6. CASE RaiseMpmath
    <2> DEFINE r == Record(result.even)
    <2>1. /\ phase = "mpmath" /\ stage = "done" /\ task' = task
          /\ IF r.degree < task.degree THEN Raise(r.degree + Step, r.refs, "mpmath") ELSE Return(r)
      BY <1>6 DEF RaiseMpmath
    <2>2. r.degree = Degree /\ r.refs = result.refs
      BY DEF Record
    <2> HIDE DEF r
    <2>3. CASE Degree < task.degree
      <3>1. Raise(Degree + Step, result.refs, "mpmath")
        BY <2>1, <2>2, <2>3
      <3>2. Degree \in Int /\ Degree >= 0 /\ References(result.refs, Degree + 2)
        BY <2>1, DoneNodes
      <3>3. "mpmath" \in Engines /\ "mpmath" # "float64"
        BY DEF Engines
      <3>4. NodesInv' /\ SeedInv'
        BY <2>1, <2>3, <3>1, <3>2, <3>3, RaiseNodes
      <3> QED
        BY <1>1, <3>4 DEF AllNodes
    <2>4. CASE ~(Degree < task.degree)
      BY <1>1, <2>1, <2>2, <2>4, ReturnNodes DEF AllNodes
    <2> QED
      BY <2>3, <2>4
  <1>7. CASE Exchanging
    <2>1. FitStep /\ UNCHANGED <<task, phase, lastGood, outcome>> /\ fit' = fit
      BY <1>7 DEF Exchanging, FitStep, Solve, BlowUp, Trim, Exchange
    <2>2. NodesInv'
      BY <2>1, FitStepNodes DEF AllNodes, AllInv
    <2>3. SeedInv'
      BY <2>1 DEF AllNodes, SeedInv, Degree
    <2> QED
      BY <1>1, <2>2, <2>3 DEF AllNodes
  <1>8. CASE Take
    <2>1. stage' = "idle" /\ phase' = "idle"
      BY <1>8 DEF Take, Clear
    <2> QED
      BY <1>1, <2>1 DEF AllNodes, NodesInv, SeedInv
  <1>9. CASE UNCHANGED vars
    BY <1>1, <1>9 DEF vars, fitVars, AllNodes, NodesInv, SeedInv, Degree, Polishing
  <1> QED
    BY <1>2, <1>3, <1>4, <1>5, <1>6, <1>7, <1>8, <1>9 DEF Next

LEMMA AllNodesInvariant == AllSpec => []AllNodes
  <1>1. AllInit => AllNodes
    BY AllNodesInit DEF AllInit
  <1>2. AllNodes /\ [AllNext]_allVars => AllNodes'
    <2>1. [AllNext]_allVars => [Next]_vars
      BY DEF AllNext, Fitting, SearchingSign, allVars
    <2> QED
      BY <2>1, AllNodesStep
  <1> QED
    BY <1>1, <1>2, PTL DEF AllSpec

\* Every linear system is square and no two of its reference points fall
\* together, however they were spread, thinned out, filled up, selected, padded
\* or handed from one fit to the next (_initial_nodes, _select_references, pad);
\* they are distinct but in the later rounds of the sign path's polish.
THEOREM SystemsAreSolvable == AllSpec => []SystemSolvable
  <1>1. AllNodes => SystemSolvable
    <2>1. SUFFICES ASSUME AllNodes, stage = "solve" PROVE SystemSolvable
      BY DEF SystemSolvable
    <2>2. fit.n \in Nat /\ fit.n > 1 /\ Len(nodes) = fit.n /\ (~(Polishing /\ iter > 0) => References(nodes, fit.n))
      BY <2>1 DEF AllNodes, NodesInv, Instances
    <2>3. ASSUME References(nodes, fit.n) PROVE \A i \in 1..(fit.n - 1) : nodes[i] < nodes[i + 1]
      <3>1. DOMAIN nodes = 1..fit.n /\ \A i, j \in 1..fit.n : i < j => nodes[i] < nodes[j]
        BY <2>3, SequenceIs DEF References, Rising
      <3>2. \A i \in 1..(fit.n - 1) : i \in 1..fit.n /\ i + 1 \in 1..fit.n /\ i < i + 1
        BY <2>2
      <3> QED
        BY <3>1, <3>2
    <2> QED
      BY <2>2, <2>3 DEF SystemSolvable
  <1> QED
    BY <1>1, AllNodesInvariant, PTL

\* mpmath takes over from the references of the last converged degree, all of
\* them, and not from those of the fit that failed (cosine_minimax, phase 2).
THEOREM TakesOverFromConverged == AllSpec => TakesOverConverged
  <1> DEFINE A == phase = "float64" /\ phase' = "mpmath" =>
                    /\ lastGood'.good \/ lastGood'.degree = Start
                    /\ fit'.n - 2 = lastGood'.degree + Step
                    /\ {lastGood'.refs[i] : i \in DOMAIN lastGood'.refs} \subseteq {nodes'[i] : i \in DOMAIN nodes'}
  <1>1. AllNodes /\ [AllNext]_allVars => [A]_vars
    <2>1. SUFFICES ASSUME AllNodes, Next, phase = "float64", phase' = "mpmath"
                   PROVE  /\ lastGood'.good \/ lastGood'.degree = Start
                          /\ fit'.n - 2 = lastGood'.degree + Step
                          /\ {lastGood'.refs[i] : i \in DOMAIN lastGood'.refs} \subseteq {nodes'[i] : i \in DOMAIN nodes'}
      BY DEF AllNext, Fitting, SearchingSign, allVars
    <2>2. RaiseFloat64
      BY <2>1 DEF Next, Fit, CallCosine, FitReturns, RaiseMpmath, Exchanging, Take
    <2>3. /\ task' = task
          /\ LastInv(lastGood') /\ References(lastGood'.refs, lastGood'.degree + 2)
          /\ lastGood'.degree < task.degree /\ Raise(lastGood'.degree + Step, lastGood'.refs, "mpmath")
      <3>1. ~Raise(Degree + Step, result.refs, "float64") /\ ~\E r : Return(r)
        BY <2>1 DEF Raise, Return
      <3> QED
        BY <2>1, <2>2, <3>1, RaisedFloat64
    <2>4. lastGood'.degree \in Int /\ lastGood'.degree >= 0 /\ (lastGood'.good \/ lastGood'.degree = Start)
      BY <2>3, CosineAssumption DEF LastInv
    <2>5. "mpmath" \in Engines /\ "mpmath" # "float64"
      BY DEF Engines
    <2>6. Degree' = lastGood'.degree + Step /\ Contained(lastGood'.refs, nodes')
      BY <2>1, <2>3, <2>4, <2>5, RaiseNodes
    <2>7. fit'.n - 2 = lastGood'.degree + Step
      BY <2>6 DEF Degree
    <2> QED
      BY <2>4, <2>6, <2>7 DEF Contained
  <1> QED
    BY <1>1, AllNodesInvariant, PTL DEF AllSpec, TakesOverConverged

-----------------------------------------------------------------------------
(* The references of every round alternate and hold the tallest extremum. *)

SelectInv ==
    stage \in {"trim", "exchange"} =>
        \E top \in Nat :
            /\ Topped(extrema, top) /\ Selection(alt, fit, extrema, skeleton, top)
            /\ ~Polishing => /\ top = Peak(curve)
                             /\ Peak(curve) >= Floor(fit, engine) => DOMAIN extrema # {}

LEMMA SolveSelects == ASSUME FitInv, NodesInv, Solve PROVE SelectInv'
  <1>1. PICK c, e, all : \E top \in Nat :
            /\ IsCurve(c) /\ c # <<>> /\ NoFlatValley(c) /\ e \in 0..Peak(c)
            /\ curve' = c /\ extrema' = all /\ skeleton' = Alternation(fit, all, e)
            /\ alt' = IF fit.general THEN Padded(skeleton', all, fit.n) ELSE skeleton'
            /\ IsSequence(all) /\ Topped(all, top)
            /\ ~Polishing => /\ Chain(all) /\ Led(all, top) /\ top = Peak(c)
                             /\ Peak(c) >= Floor(fit, engine) => DOMAIN all # {}
    BY SolveIs
  <1>2. PICK top \in Nat :
            /\ Topped(all, top)
            /\ ~Polishing => /\ Chain(all) /\ Led(all, top) /\ top = Peak(c)
                             /\ Peak(c) >= Floor(fit, engine) => DOMAIN all # {}
    BY <1>1
  <1>3. stage = "solve" /\ fit' = fit /\ engine' = engine
    BY DEF Solve
  <1>4. fit.n \in Nat /\ fit.general \in BOOLEAN
    BY <1>3 DEF NodesInv, Instances
  <1>5. Selection(alt', fit, all, skeleton', top)
    <2>1. fit.general => Chain(all) /\ Led(all, top) /\ e \in 0..top
      BY <1>1, <1>2 DEF Polishing
    <2> QED
      BY <1>1, <1>2, <1>4, <2>1, SelectionBegins
  <1>6. Polishing' = Polishing /\ Floor(fit', engine') = Floor(fit, engine)
    BY <1>3 DEF Polishing
  <1>7. extrema' = all /\ curve' = c
    BY <1>1
  <1> QED
    BY <1>2, <1>3, <1>5, <1>6, <1>7 DEF SelectInv

LEMMA TrimSelects == ASSUME NodesInv, SelectInv, Trim PROVE SelectInv'
  <1>1. stage = "trim" /\ UNCHANGED <<fit, engine, curve, extrema, skeleton>>
    BY DEF Trim
  <1>2. fit.n \in Nat /\ fit.n > 1 /\ fit.general \in BOOLEAN
    BY <1>1 DEF NodesInv, Instances
  <1>3. PICK top \in Nat :
            /\ Topped(extrema, top) /\ Selection(alt, fit, extrema, skeleton, top)
            /\ ~Polishing => /\ top = Peak(curve)
                             /\ Peak(curve) >= Floor(fit, engine) => DOMAIN extrema # {}
    BY <1>1 DEF SelectInv
  <1>4. Selection(alt', fit, extrema, skeleton, top)
    <2>1. CASE Len(alt) > fit.n
      <3>1. alt' = Trimmed(fit, alt)
        BY <2>1 DEF Trim
      <3>2. fit.general => Chain(alt)
        BY <1>1 DEF NodesInv, Polishing
      <3> QED
        BY <1>2, <1>3, <2>1, <3>1, <3>2, SelectionTrimmed
    <2>2. CASE ~(Len(alt) > fit.n)
      BY <1>3, <2>2 DEF Trim
    <2> QED
      BY <2>1, <2>2
  <1>5. Polishing' = Polishing /\ Floor(fit', engine') = Floor(fit, engine)
    BY <1>1 DEF Polishing
  <1> QED
    BY <1>1, <1>3, <1>4, <1>5 DEF SelectInv

\* What may happen to a fit.
LEMMA FitMoves ==
    ASSUME AllNodes, [Next]_vars
    PROVE  \/ Solve \/ Trim \/ BlowUp \/ Exchange \/ Take \/ UNCHANGED fitVars
           \/ \E f, seed, eng : Begin(f, seed, eng)
  <1>1. CASE Fit \/ CallCosine
    BY <1>1 DEF Fit, CallCosine, BeginAfresh
  <1>2. CASE FitReturns
    BY <1>2 DEF FitReturns, Return
  <1>3. CASE RaiseFloat64
    BY <1>3, RaisedFloat64 DEF Raise, Return
  <1>4. CASE RaiseMpmath
    BY <1>4 DEF RaiseMpmath, Raise, Return
  <1>5. CASE Exchanging
    BY <1>5 DEF Exchanging, FitStep
  <1>6. CASE UNCHANGED vars
    BY <1>6 DEF vars
  <1> QED
    BY <1>1, <1>2, <1>3, <1>4, <1>5, <1>6 DEF Next

LEMMA SelectStep == ASSUME AllNodes, SelectInv, [Next]_vars PROVE SelectInv'
  <1>1. CASE Solve
    BY <1>1, SolveSelects DEF AllNodes, AllInv
  <1>2. CASE Trim
    BY <1>2, TrimSelects DEF AllNodes
  <1>3. CASE BlowUp
    BY <1>3 DEF BlowUp, FloatReturns, SelectInv
  <1>4. CASE Exchange
    BY <1>4 DEF Exchange, ExchangeGeneral, PolishGeneral, ExchangeSign, PolishSign,
                FloatReturns, MpReturns, Again, SelectInv
  <1>5. CASE \E f, seed, eng : Begin(f, seed, eng)
    BY <1>5 DEF Begin, SelectInv
  <1>6. CASE Take
    BY <1>6 DEF Take, Clear, SelectInv
  <1>7. CASE UNCHANGED fitVars
    BY <1>7 DEF fitVars, SelectInv, Polishing
  <1> QED
    BY <1>1, <1>2, <1>3, <1>4, <1>5, <1>6, <1>7, FitMoves

LEMMA SelectInvariant == AllSpec => []SelectInv
  <1>1. AllInit => SelectInv
    BY DEF AllInit, Init, NoFit, SelectInv
  <1>2. AllNodes /\ SelectInv /\ [AllNext]_allVars => SelectInv'
    <2>1. [AllNext]_allVars => [Next]_vars
      BY DEF AllNext, Fitting, SearchingSign, allVars
    <2> QED
      BY <2>1, SelectStep
  <1> QED
    BY <1>1, <1>2, AllNodesInvariant, PTL DEF AllSpec

LEMMA SelectionSound ==
    ASSUME AllNodes, SelectInv
    PROVE  ReferencesAlternate /\ PeakKept
  <1>1. SUFFICES ASSUME stage \in {"trim", "exchange"}
                 PROVE  ReferencesAlternate /\ PeakKept
    BY DEF ReferencesAlternate, PeakKept, InSelection
  <1>2. PICK top \in Nat :
            /\ Topped(extrema, top) /\ Selection(alt, fit, extrema, skeleton, top)
            /\ ~Polishing => /\ top = Peak(curve)
                             /\ Peak(curve) >= Floor(fit, engine) => DOMAIN extrema # {}
    BY <1>1 DEF SelectInv
  <1>3. /\ (fit.general => Len(skeleton) >= fit.n) => Sided(alt, fit.general)
        /\ top > 0 /\ DOMAIN extrema # {} => HoldsTop(alt, top)
    BY <1>2 DEF Selection
  <1>4. ReferencesAlternate
    <2>1. SUFFICES ASSUME NEW i \in 1..(Len(alt) - 1)
                   PROVE  /\ ~Polishing => alt[i].u < alt[i + 1].u
                          /\ fit.general /\ Len(skeleton) >= fit.n => alt[i].mu # alt[i + 1].mu
                          /\ ~fit.general => (alt[i].r > 0) # (alt[i + 1].r > 0)
      BY DEF ReferencesAlternate, Neighbours
    <2>2. ASSUME ~Polishing PROVE alt[i].u < alt[i + 1].u
      <3>1. Chain(alt)
        BY <1>1, <2>2 DEF AllNodes, NodesInv
      <3>2. DOMAIN alt = 1..Len(alt) /\ Len(alt) \in Nat
        BY <3>1, SequenceIs DEF Chain
      <3>3. i \in DOMAIN alt /\ i + 1 \in DOMAIN alt /\ i < i + 1
        BY <3>2
      <3>4. alt[i].u + Scale <= alt[i + 1].u /\ alt[i].u \in Int /\ alt[i + 1].u \in Int
        BY <3>1, <3>3 DEF Chain
      <3> QED
        BY <3>4, RemezAssumption
    <2> QED
      BY <1>3, <2>2 DEF Sided
  <1>5. ASSUME NEW i \in DOMAIN extrema, extrema[i].r # 0
        PROVE  \E j \in DOMAIN alt : Tall(alt[j]) >= Tall(extrema[i])
    <2>1. Extreme(extrema[i]) /\ Tall(extrema[i]) <= top
      BY <1>2 DEF Topped, Extremes, Bounded
    <2>2. Tall(extrema[i]) \in Nat /\ Tall(extrema[i]) > 0
      BY <1>5, <2>1 DEF Extreme, Tall, Magnitude
    <2>3. top > 0
      BY <2>1, <2>2
    <2>4. PICK j \in DOMAIN alt : Tall(alt[j]) = top
      BY <1>3, <2>3 DEF HoldsTop
    <2> QED
      BY <2>1, <2>2, <2>4
  <1>6. Peak(curve) > 0 /\ Peak(curve) >= Floor(fit, engine) /\ ~Polishing =>
            \E i \in DOMAIN alt : Tall(alt[i]) = Peak(curve)
    BY <1>2, <1>3 DEF HoldsTop
  <1>7. PeakKept
    BY <1>5, <1>6 DEF PeakKept
  <1> QED
    BY <1>4, <1>7

\* Every linear system is square and no two of its reference points fall
\* together, however they were spread, thinned out, filled up, selected, padded
\* or handed from one fit to the next; and through every removal the references
\* alternate if there were enough that do, and hold the tallest extremum there
\* was to select from, which is the peak of the error unless that is below the
\* floor of the arithmetic.  The sign path's polish moves its extrema: of its
\* references no more is said than that they are as many as they have to be,
\* alternate in sign and hold the tallest of what it moved (_initial_nodes,
\* _select_references, _pick_alternating, pad).
THEOREM ExchangeIsSound == AllSpec => []ExchangeSound
  <1>1. AllNodes /\ SelectInv => ReferencesAlternate /\ PeakKept
    BY SelectionSound
  <1>2. SystemSolvable /\ ReferencesAlternate /\ PeakKept => ExchangeSound
    BY DEF ExchangeSound
  <1> QED
    BY <1>1, <1>2, SystemsAreSolvable, SelectInvariant, AllNodesInvariant, PTL

-----------------------------------------------------------------------------
(* Recursion over places, whatever it makes of the places before. *)

LooksBack(G, D, T) ==
    /\ T # {} /\ D \in SUBSET Nat /\ G \in [[D -> T] -> [D -> T]]
    /\ \A g, h \in [D -> T] : \A k \in D :
           (\A j \in D : j < k => g[j] = h[j]) => G[g][k] = G[h][k]

LEMMA RecursionExists ==
    ASSUME NEW T, NEW D, NEW G, LooksBack(G, D, T)
    PROVE  \E h \in [D -> T] : G[h] = h
  <1> USE DEF LooksBack
  <1> DEFINE Upto(h, m) == \A k \in D : k < m => G[h][k] = h[k]
             K == {m \in Nat : \E h \in [D -> T] : Upto(h, m)}
  <1>1. 0 \in K
    <2>1. PICK t \in T : TRUE
      OBVIOUS
    <2>2. [k \in D |-> t] \in [D -> T]
      OBVIOUS
    <2>3. Upto([k \in D |-> t], 0)
      OBVIOUS
    <2> HIDE DEF Upto
    <2> QED
      BY <2>2, <2>3
  <1>2. ASSUME NEW m \in Nat, m \in K PROVE m + 1 \in K
    <2>1. PICK h \in [D -> T] : Upto(h, m)
      BY <1>2
    <2> DEFINE g == G[h]
    <2>2. g \in [D -> T]
      OBVIOUS
    <2>3. \A k \in D : k < m => g[k] = h[k]
      BY <2>1
    <2>4. ASSUME NEW k \in D, k < m + 1 PROVE G[g][k] = g[k]
      <3>1. \A j \in D : j < k => g[j] = h[j]
        BY <2>3, <2>4
      <3> HIDE DEF g
      <3>2. G[g][k] = G[h][k]
        BY <2>2, <3>1
      <3> QED
        BY <3>2 DEF g
    <2>5. Upto(g, m + 1)
      <3> HIDE DEF g
      <3> QED
        BY <2>4
    <2> HIDE DEF g, Upto
    <2> QED
      BY <2>2, <2>5
  <1>3. Nat \subseteq K
    <2> HIDE DEF K
    <2> QED
      BY <1>1, <1>2, NatSetInduction
  <1> DEFINE R(m) == CHOOSE h \in [D -> T] : Upto(h, m)
  <1>4. ASSUME NEW m \in Nat PROVE R(m) \in [D -> T] /\ Upto(R(m), m)
    <2>1. m \in K
      BY <1>3
    <2> HIDE DEF Upto
    <2> QED
      BY <2>1
  <1>5. ASSUME NEW l \in Nat, NEW m \in Nat, l <= m PROVE \A k \in D : k < l => R(l)[k] = R(m)[k]
    <2> DEFINE B == {k \in D : k < l /\ R(l)[k] # R(m)[k]}
    <2>1. SUFFICES ASSUME B # {} PROVE FALSE
      <3> HIDE DEF R
      <3> QED
        OBVIOUS
    <2>2. PICK k \in B : \A j \in B : k <= j
      <3>1. B \in SUBSET Nat
        OBVIOUS
      <3> HIDE DEF B
      <3> QED
        BY <2>1, <3>1, LeastNat
    <2> HIDE DEF R
    <2>3. k \in D /\ k < l /\ k < m /\ R(l)[k] # R(m)[k]
      BY <1>5, <2>2
    <2>4. \A j \in D : j < k => R(l)[j] = R(m)[j]
      BY <2>2
    <2>5. G[R(l)][k] = G[R(m)][k]
      BY <1>4, <2>3, <2>4
    <2>6. G[R(l)][k] = R(l)[k] /\ G[R(m)][k] = R(m)[k]
      BY <1>4, <2>3
    <2> QED
      BY <2>3, <2>5, <2>6
  <1> DEFINE h == [k \in D |-> R(k + 1)[k]]
  <1> HIDE DEF R
  <1>6. h \in [D -> T]
    <2>1. \A k \in D : k + 1 \in Nat /\ R(k + 1) \in [D -> T]
      BY <1>4
    <2> QED
      BY <2>1
  <1>7. ASSUME NEW k \in D PROVE G[h][k] = h[k]
    <2>1. k + 1 \in Nat /\ k < k + 1 /\ R(k + 1) \in [D -> T]
      BY <1>4
    <2>2. \A j \in D : j < k => h[j] = R(k + 1)[j]
      <3>1. \A j \in D : j < k => j + 1 \in Nat /\ j + 1 <= k + 1 /\ j < j + 1
        OBVIOUS
      <3> QED
        BY <1>5, <2>1, <3>1
    <2>3. h[k] = R(k + 1)[k]
      OBVIOUS
    <2> HIDE DEF h
    <2>4. G[h][k] = G[R(k + 1)][k]
      BY <1>6, <2>1, <2>2
    <2>5. G[R(k + 1)][k] = R(k + 1)[k]
      BY <1>4, <2>1
    <2> QED
      BY <2>3, <2>4, <2>5
  <1> HIDE DEF h
  <1>8. G[h] = [k \in D |-> G[h][k]] /\ h = [k \in D |-> h[k]]
    BY <1>6
  <1> QED
    BY <1>6, <1>7, <1>8

\* Steps that stay in a set when those before did all stay in it.
LEMMA RecursionTyped ==
    ASSUME NEW T, NEW D \in SUBSET Nat, NEW h,
           \A k \in D : (\A j \in D : j < k => h[j] \in T) => h[k] \in T
    PROVE  \A k \in D : h[k] \in T
  <1> SUFFICES ASSUME NEW k \in D, h[k] \notin T PROVE FALSE
    OBVIOUS
  <1> DEFINE B == {j \in D : h[j] \notin T}
  <1>1. B # {} /\ B \in SUBSET Nat
    OBVIOUS
  <1>2. PICK j \in B : \A i \in B : j <= i
    <2> HIDE DEF B
    <2> QED
      BY <1>1, LeastNat
  <1> QED
    BY <1>2

-----------------------------------------------------------------------------
(* Sums *)

\* A sum takes in one element at a time.
LEMMA SumSteps ==
    ASSUME NEW s \in Seq(Int)
    PROVE  \E g \in [0..Len(s) -> Int] :
              /\ g[0] = 0 /\ \A k \in 1..Len(s) : g[k] = g[k - 1] + s[k]
              /\ SumOf(s) = g[Len(s)]
  <1> DEFINE T == Int
             n == Len(s)
             D == 0..n
             Body(h, k) == IF k = 0 THEN 0 ELSE h[k - 1] + s[k]
             IsIt(h) == h = [k \in 0..Len(s) |-> IF k = 0 THEN 0 ELSE h[k - 1] + s[k]]
             G == [h \in [D -> T] |-> [k \in D |-> Body(h, k)]]
             it == CHOOSE h : IsIt(h)
  <1>1. n \in Nat /\ \A k \in 1..n : s[k] \in Int
    BY LenProperties, ElementOfSeq
  <1>2. ASSUME NEW k \in D PROVE k = 0 \/ (k \in 1..n /\ k - 1 \in D /\ k - 1 < k)
    BY <1>1
  <1>3. ASSUME NEW h, NEW k \in D, \A j \in D : j < k => h[j] \in T
        PROVE  Body(h, k) \in T
    <2> HIDE DEF D, n
    <2> QED
      BY <1>1, <1>2, <1>3
  <1>4. G \in [[D -> T] -> [D -> T]]
    <2>1. ASSUME NEW h \in [D -> T] PROVE [k \in D |-> Body(h, k)] \in [D -> T]
      <3>1. \A k \in D : Body(h, k) \in T
        <4> HIDE DEF Body, D
        <4> QED
          BY <1>3
      <3> HIDE DEF Body, D
      <3> QED
        BY <3>1
    <2> HIDE DEF Body, D
    <2> QED
      BY <2>1
  <1>5. ASSUME NEW g \in [D -> T], NEW h \in [D -> T], NEW k \in D, \A j \in D : j < k => g[j] = h[j]
        PROVE  G[g][k] = G[h][k]
    <2>1. Body(g, k) = Body(h, k)
      <3> HIDE DEF D, n
      <3> QED
        BY <1>2, <1>5
    <2> HIDE DEF Body, D
    <2> QED
      BY <2>1
  <1>6. \E h \in [D -> T] : G[h] = h
    <2>1. D \in SUBSET Nat
      BY <1>1
    <2>2. T # {}
      OBVIOUS
    <2> HIDE DEF T, G, D, n
    <2>3. \A g, h \in [D -> T] : \A k \in D :
              (\A j \in D : j < k => g[j] = h[j]) => G[g][k] = G[h][k]
      BY <1>5
    <2>4. LooksBack(G, D, T)
      BY <1>4, <2>1, <2>2, <2>3 DEF LooksBack
    <2> QED
      BY <2>4, RecursionExists
  <1>7. IsIt(it)
    <2>1. \E h : IsIt(h)
      BY <1>6
    <2> HIDE DEF IsIt
    <2> QED
      BY <2>1
  <1>8. \A k \in D : it[k] = Body(it, k)
    <2> HIDE DEF it
    <2> QED
      BY <1>7
  <1>9. \A k \in D : it[k] \in T
    <2>1. D \in SUBSET Nat
      BY <1>1
    <2>2. ASSUME NEW k \in D, \A j \in D : j < k => it[j] \in T PROVE it[k] \in T
      <3> HIDE DEF it, Body, D
      <3> QED
        BY <1>3, <1>8, <2>2
    <2> HIDE DEF T, it, D, IsIt
    <2> QED
      BY <2>1, <2>2, RecursionTyped
  <1>10. it \in [0..Len(s) -> Int]
    <2>1. it = [k \in 0..Len(s) |-> it[k]]
      <3> HIDE DEF it
      <3> QED
        BY <1>7
    <2> HIDE DEF it
    <2> QED
      BY <1>9, <2>1
  <1>11. it[0] = 0 /\ \A k \in 1..Len(s) : it[k] = it[k - 1] + s[k]
    <2> HIDE DEF it
    <2> QED
      BY <1>1, <1>8
  <1>12. SumOf(s) = it[Len(s)]
    BY DEF SumOf
  <1> HIDE DEF it
  <1> QED
    BY <1>10, <1>11, <1>12

\* A sum of nothing, of one more in front, and of natural numbers.
LEMMA SumOfEmpty == SumOf(<<>>) = 0
  <1>1. <<>> \in Seq(Int) /\ Len(<<>>) = 0
    BY EmptySeq
  <1> QED
    BY <1>1, SumSteps

LEMMA SumOfMore ==
    ASSUME NEW s \in Seq(Int), NEW t \in Seq(Int), Len(t) = Len(s) + 1,
           \A k \in 1..Len(s) : t[k + 1] = s[k]
    PROVE  SumOf(s) \in Int /\ SumOf(t) = t[1] + SumOf(s)
  <1>1. PICK g \in [0..Len(s) -> Int] :
            g[0] = 0 /\ (\A k \in 1..Len(s) : g[k] = g[k - 1] + s[k]) /\ SumOf(s) = g[Len(s)]
    BY SumSteps
  <1>2. PICK h \in [0..Len(t) -> Int] :
            h[0] = 0 /\ (\A k \in 1..Len(t) : h[k] = h[k - 1] + t[k]) /\ SumOf(t) = h[Len(t)]
    BY SumSteps
  <1>3. Len(s) \in Nat /\ (\A k \in 1..Len(s) : s[k] \in Int) /\ t[1] \in Int
    <2>1. Len(s) \in Nat /\ 1 \in 1..Len(t)
      BY LenProperties
    <2> QED
      BY <2>1, ElementOfSeq
  <1> DEFINE K == {m \in Nat : m <= Len(s) => h[m + 1] = t[1] + g[m]}
  <1>4. 0 \in K
    <2>1. 1 \in 1..Len(t) /\ 1 - 1 = 0 /\ 0 + 1 = 1
      BY <1>3
    <2>2. h[1] = h[0] + t[1]
      BY <1>2, <2>1
    <2> QED
      BY <1>1, <1>2, <1>3, <2>1, <2>2
  <1>5. ASSUME NEW m \in Nat, m \in K PROVE m + 1 \in K
    <2> SUFFICES ASSUME m + 1 <= Len(s) PROVE h[(m + 1) + 1] = t[1] + g[m + 1]
      OBVIOUS
    <2>1. m + 1 \in 1..Len(s) /\ (m + 1) + 1 \in 1..Len(t) /\ m \in 0..Len(s) /\ m + 1 \in 0..Len(t)
      BY <1>3
    <2>2. g[m + 1] = g[m] + s[m + 1]
      <3>1. (m + 1) - 1 = m
        OBVIOUS
      <3> QED
        BY <1>1, <2>1, <3>1
    <2>3. h[(m + 1) + 1] = h[m + 1] + t[(m + 1) + 1]
      <3>1. ((m + 1) + 1) - 1 = m + 1
        OBVIOUS
      <3> QED
        BY <1>2, <2>1, <3>1
    <2>4. h[m + 1] = t[1] + g[m]
      BY <1>3, <1>5
    <2>5. t[(m + 1) + 1] = s[m + 1]
      BY <2>1
    <2>6. g[m] \in Int /\ s[m + 1] \in Int
      BY <1>3, <2>1
    <2> HIDE DEF K
    <2> QED
      BY <1>3, <2>2, <2>3, <2>4, <2>5, <2>6, SMTT(30)
  <1>6. Len(s) \in K
    <2> HIDE DEF K
    <2> QED
      BY <1>3, <1>4, <1>5, NatSetInduction
  <1> QED
    BY <1>1, <1>2, <1>3, <1>6

LEMMA SumOfNats ==
    ASSUME NEW s \in Seq(Nat)
    PROVE  SumOf(s) \in Nat /\ \A k \in 1..Len(s) : s[k] <= SumOf(s)
  <1>1. s \in Seq(Int) /\ Len(s) \in Nat /\ \A k \in 1..Len(s) : s[k] \in Nat
    <2>1. Len(s) \in Nat /\ s \in [1..Len(s) -> Nat]
      BY LenProperties
    <2> QED
      BY <2>1
  <1>2. PICK g \in [0..Len(s) -> Int] :
            g[0] = 0 /\ (\A k \in 1..Len(s) : g[k] = g[k - 1] + s[k]) /\ SumOf(s) = g[Len(s)]
    BY <1>1, SumSteps
  <1> DEFINE K == {m \in Nat : m <= Len(s) => g[m] >= 0 /\ \A k \in 1..m : s[k] <= g[m]}
  <1>3. 0 \in K
    <2>1. \A k \in 1..0 : FALSE
      OBVIOUS
    <2> QED
      BY <1>2, <2>1
  <1>4. ASSUME NEW m \in Nat, m \in K PROVE m + 1 \in K
    <2> SUFFICES ASSUME m + 1 <= Len(s) PROVE g[m + 1] >= 0 /\ \A k \in 1..(m + 1) : s[k] <= g[m + 1]
      OBVIOUS
    <2>1. m + 1 \in 1..Len(s) /\ m \in 0..Len(s) /\ (m + 1) - 1 = m
      BY <1>1
    <2>2. g[m + 1] = g[m] + s[m + 1] /\ g[m] \in Int /\ s[m + 1] \in Nat
      BY <1>1, <1>2, <2>1
    <2>3. g[m] >= 0 /\ \A k \in 1..m : s[k] <= g[m]
      BY <1>1, <1>4
    <2>4. \A k \in 1..(m + 1) : k = m + 1 \/ (k \in 1..m /\ s[k] \in Nat)
      BY <1>1, <2>1
    <2> HIDE DEF K
    <2> QED
      BY <2>2, <2>3, <2>4
  <1>5. Len(s) \in K
    <2> HIDE DEF K
    <2> QED
      BY <1>1, <1>3, <1>4, NatSetInduction
  <1> QED
    BY <1>1, <1>2, <1>5

\* The factor of a tail is a number.
LEMMA FactorIs ==
    ASSUME NEW combo \in Seq(Nat)
    PROVE  RefineFactor(combo) \in Nat
  <1> DEFINE T == Nat
             D == 0..Len(combo)
             Body(h, k) == IF k = 0 THEN 1 ELSE h[k - 1] * (combo[k] + 1)
             IsIt(h) == h = [k \in 0..Len(combo) |-> IF k = 0 THEN 1 ELSE h[k - 1] * (combo[k] + 1)]
             G == [h \in [D -> T] |-> [k \in D |-> Body(h, k)]]
             it == CHOOSE h : IsIt(h)
  <1>1. Len(combo) \in Nat /\ \A k \in 1..Len(combo) : combo[k] \in Nat
    BY LenProperties, ElementOfSeq
  <1>2. ASSUME NEW k \in D PROVE k = 0 \/ (k \in 1..Len(combo) /\ k - 1 \in D /\ k - 1 < k)
    BY <1>1
  <1>3. ASSUME NEW h, NEW k \in D, \A j \in D : j < k => h[j] \in T
        PROVE  Body(h, k) \in T
    <2>1. CASE k = 0
      BY <2>1
    <2>2. CASE k # 0
      <3>1. k - 1 \in D /\ k - 1 < k /\ combo[k] \in Nat
        BY <1>1, <1>2, <2>2
      <3>2. h[k - 1] \in Nat
        BY <1>3, <3>1
      <3>3. \A x, y \in Nat : x * (y + 1) \in Nat
        OBVIOUS
      <3> HIDE DEF D
      <3> QED
        BY <2>2, <3>1, <3>2, <3>3
    <2> QED
      BY <2>1, <2>2
  <1>4. G \in [[D -> T] -> [D -> T]]
    <2>1. ASSUME NEW h \in [D -> T] PROVE [k \in D |-> Body(h, k)] \in [D -> T]
      <3>1. \A k \in D : Body(h, k) \in T
        <4> HIDE DEF T, Body, D
        <4> QED
          BY <1>3
      <3> HIDE DEF T, Body, D
      <3> QED
        BY <3>1
    <2> HIDE DEF T, Body, D
    <2> QED
      BY <2>1
  <1>5. ASSUME NEW g \in [D -> T], NEW h \in [D -> T], NEW k \in D, \A j \in D : j < k => g[j] = h[j]
        PROVE  G[g][k] = G[h][k]
    <2>1. Body(g, k) = Body(h, k)
      <3>1. k # 0 => g[k - 1] = h[k - 1]
        BY <1>2, <1>5
      <3> HIDE DEF D, T
      <3> QED
        BY <3>1
    <2> HIDE DEF T, Body, D
    <2> QED
      BY <2>1
  <1>6. \E h \in [D -> T] : G[h] = h
    <2>1. D \in SUBSET Nat /\ T # {}
      <3>1. D \in SUBSET Nat
        BY <1>1
      <3>2. T # {}
        OBVIOUS
      <3> QED
        BY <3>1, <3>2
    <2> HIDE DEF T, G, D
    <2>2. LooksBack(G, D, T)
      BY <1>4, <1>5, <2>1 DEF LooksBack
    <2> QED
      BY <2>2, RecursionExists
  <1>7. IsIt(it)
    <2>1. \E h : IsIt(h)
      <3>1. PICK h \in [D -> T] : G[h] = h
        BY <1>6
      <3>2. h = [k \in D |-> Body(h, k)]
        <4> HIDE DEF T, D, Body
        <4> QED
          BY <3>1
      <3>3. IsIt(h)
        BY <3>2
      <3> HIDE DEF IsIt
      <3> QED
        BY <3>3
    <2> HIDE DEF IsIt
    <2> QED
      BY <2>1
  <1>8. \A k \in D : it[k] = Body(it, k)
    <2> HIDE DEF it
    <2>1. it = [k \in D |-> Body(it, k)]
      BY <1>7
    <2> HIDE DEF Body, D, T
    <2> QED
      BY <2>1
  <1>9. \A k \in D : it[k] \in T
    <2>1. D \in SUBSET Nat
      BY <1>1
    <2>2. ASSUME NEW k \in D, \A j \in D : j < k => it[j] \in T PROVE it[k] \in T
      <3> HIDE DEF T, it, Body, D
      <3> QED
        BY <1>3, <1>8, <2>2
    <2> HIDE DEF T, it, D, IsIt
    <2> QED
      BY <2>1, <2>2, RecursionTyped
  <1>10. it \in [D -> T]
    <2> HIDE DEF it
    <2>1. it = [k \in D |-> Body(it, k)]
      BY <1>7
    <2> HIDE DEF T, Body, D
    <2> QED
      BY <1>8, <1>9, <2>1
  <1>11. RefineFactor(combo) = it[Len(combo)]
    BY DEF RefineFactor
  <1> HIDE DEF it
  <1> QED
    BY <1>1, <1>10, <1>11

-----------------------------------------------------------------------------
(* Flattened sequences *)

\* Flattening takes in one sequence at a time.
LEMMA FlattenSteps ==
    ASSUME NEW S, NEW ss \in Seq(Seq(S)), ss # <<>>
    PROVE  \E g \in [1..Len(ss) -> Seq(S)] :
              /\ g[1] = ss[1] /\ \A k \in 2..Len(ss) : g[k] = g[k - 1] \o ss[k]
              /\ FlattenSeq(ss) = g[Len(ss)]
  <1> DEFINE T == Seq(S)
             D == 1..Len(ss)
             Body(h, k) == IF k = 1 THEN ss[k] ELSE h[k - 1] \o ss[k]
             IsIt(h) == h = [k \in 1..Len(ss) |-> IF k = 1 THEN ss[k] ELSE h[k - 1] \o ss[k]]
             G == [h \in [D -> T] |-> [k \in D |-> Body(h, k)]]
             it == CHOOSE h : IsIt(h)
  <1>1. Len(ss) \in Nat /\ Len(ss) > 0 /\ \A k \in 1..Len(ss) : ss[k] \in Seq(S)
    BY LenProperties, ElementOfSeq, EmptySeq
  <1>2. ASSUME NEW k \in D PROVE k = 1 \/ (k - 1 \in D /\ k - 1 < k)
    BY <1>1
  <1>3. ASSUME NEW h, NEW k \in D, \A j \in D : j < k => h[j] \in T
        PROVE  Body(h, k) \in T
    <2>1. CASE k = 1
      BY <1>1, <2>1
    <2>2. CASE k # 1
      <3>1. k - 1 \in D /\ k - 1 < k /\ ss[k] \in Seq(S)
        BY <1>1, <1>2, <2>2
      <3>2. h[k - 1] \in Seq(S)
        BY <1>3, <3>1
      <3>3. h[k - 1] \o ss[k] \in Seq(S)
        BY <3>1, <3>2, ConcatProperties
      <3> QED
        BY <2>2, <3>3
    <2> QED
      BY <2>1, <2>2
  <1>4. G \in [[D -> T] -> [D -> T]]
    <2>1. ASSUME NEW h \in [D -> T] PROVE [k \in D |-> Body(h, k)] \in [D -> T]
      <3>1. \A k \in D : Body(h, k) \in T
        <4> HIDE DEF T, Body, D
        <4> QED
          BY <1>3
      <3> HIDE DEF T, Body, D
      <3> QED
        BY <3>1
    <2> HIDE DEF T, Body, D
    <2> QED
      BY <2>1
  <1>5. ASSUME NEW g \in [D -> T], NEW h \in [D -> T], NEW k \in D, \A j \in D : j < k => g[j] = h[j]
        PROVE  G[g][k] = G[h][k]
    <2>1. Body(g, k) = Body(h, k)
      <3>1. k # 1 => g[k - 1] = h[k - 1]
        BY <1>2, <1>5
      <3> HIDE DEF D, T
      <3> QED
        BY <3>1
    <2> HIDE DEF T, Body, D
    <2> QED
      BY <2>1
  <1>6. \E h \in [D -> T] : G[h] = h
    <2>1. D \in SUBSET Nat /\ T # {}
      <3>1. D \in SUBSET Nat
        BY <1>1
      <3>2. T # {}
        OBVIOUS
      <3> QED
        BY <3>1, <3>2
    <2> HIDE DEF T, G, D
    <2>2. LooksBack(G, D, T)
      BY <1>4, <1>5, <2>1 DEF LooksBack
    <2> QED
      BY <2>2, RecursionExists
  <1>7. IsIt(it)
    <2>1. \E h : IsIt(h)
      <3>1. PICK h \in [D -> T] : G[h] = h
        BY <1>6
      <3>2. h = [k \in D |-> Body(h, k)]
        <4> HIDE DEF T, D, Body
        <4> QED
          BY <3>1
      <3>3. IsIt(h)
        BY <3>2
      <3> HIDE DEF IsIt
      <3> QED
        BY <3>3
    <2> HIDE DEF IsIt
    <2> QED
      BY <2>1
  <1>8. \A k \in D : it[k] = Body(it, k)
    <2> HIDE DEF it
    <2>1. it = [k \in D |-> Body(it, k)]
      BY <1>7
    <2> HIDE DEF Body, D, T
    <2> QED
      BY <2>1
  <1>9. \A k \in D : it[k] \in T
    <2>1. D \in SUBSET Nat
      BY <1>1
    <2>2. ASSUME NEW k \in D, \A j \in D : j < k => it[j] \in T PROVE it[k] \in T
      <3> HIDE DEF T, it, Body, D
      <3> QED
        BY <1>3, <1>8, <2>2
    <2> HIDE DEF T, it, D, IsIt
    <2> QED
      BY <2>1, <2>2, RecursionTyped
  <1>10. it \in [D -> T]
    <2> HIDE DEF it
    <2>1. it = [k \in D |-> Body(it, k)]
      BY <1>7
    <2> HIDE DEF T, Body, D
    <2> QED
      BY <1>8, <1>9, <2>1
  <1>11. it[1] = ss[1] /\ \A k \in 2..Len(ss) : it[k] = it[k - 1] \o ss[k]
    <2>1. 1 \in D /\ \A k \in 2..Len(ss) : k \in D /\ k # 1
      BY <1>1
    <2> HIDE DEF it, D
    <2> QED
      BY <1>8, <2>1
  <1>12. FlattenSeq(ss) = it[Len(ss)]
    <2>1. Len(ss) # 0
      BY <1>1
    <2> QED
      BY <2>1 DEF FlattenSeq
  <1> HIDE DEF it
  <1> QED
    BY <1>10, <1>11, <1>12

\* What a flattened sequence holds is what its parts hold.
LEMMA FlattenIs ==
    ASSUME NEW S, NEW ss \in Seq(Seq(S))
    PROVE  /\ FlattenSeq(ss) \in Seq(S)
           /\ \A x : x \in Range(FlattenSeq(ss)) <=> \E k \in 1..Len(ss) : x \in Range(ss[k])
  <1>1. CASE ss = <<>>
    <2>1. Len(ss) = 0 /\ FlattenSeq(ss) = <<>>
      BY <1>1 DEF FlattenSeq
    <2>2. Range(<<>>) = {}
      BY DEF Range
    <2>3. <<>> \in Seq(S)
      BY EmptySeq
    <2>4. 1..0 = {}
      OBVIOUS
    <2>5. \A x : ~(x \in Range(FlattenSeq(ss))) /\ ~(\E k \in 1..Len(ss) : x \in Range(ss[k]))
      BY <2>1, <2>2, <2>4
    <2> QED
      BY <2>1, <2>3, <2>5
  <1>2. CASE ss # <<>>
    <2>1. PICK g \in [1..Len(ss) -> Seq(S)] :
              /\ g[1] = ss[1] /\ \A k \in 2..Len(ss) : g[k] = g[k - 1] \o ss[k]
              /\ FlattenSeq(ss) = g[Len(ss)]
      BY <1>2, FlattenSteps
    <2>2. Len(ss) \in Nat /\ Len(ss) > 0 /\ \A k \in 1..Len(ss) : ss[k] \in Seq(S)
      BY <1>2, LenProperties, ElementOfSeq, EmptySeq
    <2> DEFINE K == {m \in Nat : m + 1 <= Len(ss) =>
                        \A x : x \in Range(g[m + 1]) <=> \E k \in 1..(m + 1) : x \in Range(ss[k])}
    <2>3. 0 \in K
      <3>1. \A k \in 1..(0 + 1) : k = 1
        OBVIOUS
      <3>2. 1 \in 1..(0 + 1) /\ 0 + 1 = 1
        OBVIOUS
      <3> QED
        BY <2>1, <3>1, <3>2
    <2>4. ASSUME NEW m \in Nat, m \in K PROVE m + 1 \in K
      <3> SUFFICES ASSUME m + 2 <= Len(ss)
                   PROVE  \A x : x \in Range(g[m + 2]) <=> \E k \in 1..(m + 2) : x \in Range(ss[k])
        <4>1. (m + 1) + 1 = m + 2
          OBVIOUS
        <4> QED
          BY <4>1
      <3>1. m + 1 \in 1..Len(ss) /\ m + 2 \in 1..Len(ss) /\ m + 2 \in 2..Len(ss) /\ (m + 2) - 1 = m + 1
        BY <2>2
      <3>2. g[m + 2] = g[m + 1] \o ss[m + 2]
        BY <2>1, <3>1
      <3>3. g[m + 1] \in Seq(S) /\ ss[m + 2] \in Seq(S)
        BY <2>1, <2>2, <3>1
      <3>4. Range(g[m + 2]) = Range(g[m + 1]) \cup Range(ss[m + 2])
        BY <3>2, <3>3, RangeConcatenation
      <3>5. \A x : x \in Range(g[m + 1]) <=> \E k \in 1..(m + 1) : x \in Range(ss[k])
        BY <2>2, <2>4
      <3>6. \A k \in 1..(m + 2) : k \in 1..(m + 1) \/ k = m + 2
        OBVIOUS
      <3>7. m + 2 \in 1..(m + 2) /\ \A k \in 1..(m + 1) : k \in 1..(m + 2)
        OBVIOUS
      <3> QED
        BY <3>4, <3>5, <3>6, <3>7
    <2>5. Len(ss) - 1 \in Nat /\ (Len(ss) - 1) + 1 = Len(ss)
      BY <2>2
    <2>6. Len(ss) - 1 \in K
      <3> HIDE DEF K
      <3> QED
        BY <2>3, <2>4, <2>5, NatSetInduction
    <2>7. FlattenSeq(ss) \in Seq(S)
      <3>1. Len(ss) \in 1..Len(ss)
        BY <2>2
      <3>2. g[Len(ss)] \in Seq(S)
        BY <2>1, <3>1
      <3> QED
        BY <2>1, <3>2
    <2> QED
      BY <2>1, <2>2, <2>5, <2>6, <2>7
  <1> QED
    BY <1>1, <1>2

-----------------------------------------------------------------------------
(* The search space of sign_minimax *)

Degrees == {DegreeOf[d] : d \in 3..8}

\* A supported degree stands for its depth, and larger ones for larger depths;
\* up to 255 there is one.
LEMMA DegreesAre ==
    /\ \A d \in 3..8 : DegreeOf[d] \in 0..255 /\ BucketDepth(DegreeOf[d]) = d
    /\ \A d, e \in 3..8 : d <= e <=> DegreeOf[d] <= DegreeOf[e]
    /\ \A x \in 0..255 : BucketDepth(x) \in 3..8
  <1>1. /\ DegreeOf[3] = 7 /\ DegreeOf[4] = 15 /\ DegreeOf[5] = 31
        /\ DegreeOf[6] = 63 /\ DegreeOf[7] = 127 /\ DegreeOf[8] = 255
    <2>1. /\ <<7, 15, 31, 63, 127, 255>>[3 - 2] = 7 /\ <<7, 15, 31, 63, 127, 255>>[4 - 2] = 15
          /\ <<7, 15, 31, 63, 127, 255>>[5 - 2] = 31 /\ <<7, 15, 31, 63, 127, 255>>[6 - 2] = 63
          /\ <<7, 15, 31, 63, 127, 255>>[7 - 2] = 127 /\ <<7, 15, 31, 63, 127, 255>>[8 - 2] = 255
      OBVIOUS
    <2>2. 3 \in 3..8 /\ 4 \in 3..8 /\ 5 \in 3..8 /\ 6 \in 3..8 /\ 7 \in 3..8 /\ 8 \in 3..8
      OBVIOUS
    <2> QED
      BY <2>1, <2>2 DEF DegreeOf
  <1>2. \A d \in 3..8 : d = 3 \/ d = 4 \/ d = 5 \/ d = 6 \/ d = 7 \/ d = 8
    OBVIOUS
  <1>3. \A d, e \in 3..8 : d <= e <=> DegreeOf[d] <= DegreeOf[e]
    BY <1>1, <1>2
  <1> DEFINE Reaches(x, d) == x <= DegreeOf[d] /\ \A e \in 3..(d - 1) : x > DegreeOf[e]
  <1>4. ASSUME NEW x \in 0..255 PROVE \E d \in 3..8 : Reaches(x, d)
    <2> DEFINE B == {d \in 3..8 : x <= DegreeOf[d]}
    <2>1. B \in SUBSET Nat /\ 8 \in B
      BY <1>1
    <2>2. PICK d \in B : \A e \in B : d <= e
      <3> HIDE DEF B
      <3> QED
        BY <2>1, LeastNat
    <2>3. ASSUME NEW e \in 3..(d - 1) PROVE x > DegreeOf[e]
      <3>1. d \in 3..8 /\ e \in 3..8 /\ e < d
        OBVIOUS
      <3>2. e \notin B
        BY <2>2, <3>1
      <3>3. DegreeOf[e] \in Nat
        BY <1>1, <1>2, <3>1
      <3> QED
        BY <3>1, <3>2, <3>3
    <2> QED
      BY <2>2, <2>3
  <1>5. ASSUME NEW x \in 0..255 PROVE BucketDepth(x) \in 3..8 /\ Reaches(x, BucketDepth(x))
    <2>1. BucketDepth(x) = CHOOSE d \in 3..8 : Reaches(x, d)
      BY DEF BucketDepth
    <2> HIDE DEF Reaches
    <2> QED
      BY <1>4, <2>1
  <1>6. ASSUME NEW d \in 3..8 PROVE DegreeOf[d] \in 0..255 /\ BucketDepth(DegreeOf[d]) = d
    <2>1. DegreeOf[d] \in 0..255
      BY <1>1, <1>2, SMTT(30)
    <2>2. BucketDepth(DegreeOf[d]) \in 3..8 /\ Reaches(DegreeOf[d], BucketDepth(DegreeOf[d]))
      BY <1>5, <2>1
    <2>3. d <= BucketDepth(DegreeOf[d])
      BY <1>3, <2>2
    <2>4. ~(d < BucketDepth(DegreeOf[d]))
      <3>1. SUFFICES ASSUME d < BucketDepth(DegreeOf[d]) PROVE FALSE
        OBVIOUS
      <3>2. d \in 3..(BucketDepth(DegreeOf[d]) - 1)
        BY <2>2, <3>1
      <3> QED
        BY <2>1, <2>2, <3>2
    <2> QED
      BY <2>1, <2>2, <2>3, <2>4
  <1> QED
    BY <1>3, <1>5, <1>6

LEMMA DegreeIsNat == \A d \in 3..8 : DegreeOf[d] \in Nat
  <1> SUFFICES ASSUME NEW d \in 3..8 PROVE DegreeOf[d] \in Nat
    OBVIOUS
  <1>1. DegreeOf[d] \in 0..255
    BY DegreesAre
  <1> QED
    BY <1>1

\* The depths of one more degree in front, and of none.
LEMMA DepthsAre ==
    ASSUME NEW t \in Seq(0..255)
    PROVE  /\ [i \in DOMAIN t |-> BucketDepth(t[i])] \in Seq(Nat)
           /\ Len([i \in DOMAIN t |-> BucketDepth(t[i])]) = Len(t)
           /\ \A i \in 1..Len(t) : [j \in DOMAIN t |-> BucketDepth(t[j])][i] = BucketDepth(t[i])
  <1>1. Len(t) \in Nat /\ DOMAIN t = 1..Len(t) /\ \A i \in 1..Len(t) : t[i] \in 0..255
    BY LenProperties, ElementOfSeq
  <1>2. \A i \in 1..Len(t) : BucketDepth(t[i]) \in Nat
    <2>1. \A i \in 1..Len(t) : BucketDepth(t[i]) \in 3..8
      BY <1>1, DegreesAre
    <2> QED
      BY <2>1
  <1> QED
    BY <1>1, <1>2

LEMMA DepthOfEmpty == DepthOf(<<>>) = 0
  <1>1. [i \in DOMAIN <<>> |-> BucketDepth(<<>>[i])] = <<>>
    OBVIOUS
  <1> QED
    BY <1>1, SumOfEmpty DEF DepthOf

LEMMA InFront ==
    ASSUME NEW S, NEW x \in S, NEW t \in Seq(S)
    PROVE  /\ <<x>> \o t \in Seq(S) /\ Len(<<x>> \o t) = Len(t) + 1
           /\ (<<x>> \o t)[1] = x /\ \A i \in 1..Len(t) : (<<x>> \o t)[i + 1] = t[i]
  <1>1. <<x>> \in Seq(S) /\ Len(<<x>>) = 1 /\ <<x>>[1] = x /\ Len(t) \in Nat
    BY LenProperties
  <1>2. /\ <<x>> \o t \in Seq(S) /\ Len(<<x>> \o t) = Len(<<x>>) + Len(t)
        /\ \A i \in 1..(Len(<<x>>) + Len(t)) :
              (<<x>> \o t)[i] = IF i <= Len(<<x>>) THEN <<x>>[i] ELSE t[i - Len(<<x>>)]
    BY <1>1, ConcatProperties
  <1>3. \A i \in 1..(1 + Len(t)) : (<<x>> \o t)[i] = IF i <= 1 THEN <<x>>[i] ELSE t[i - 1]
    BY <1>1, <1>2
  <1>4. 1 \in 1..(1 + Len(t)) /\ \A i \in 1..Len(t) : i + 1 \in 1..(1 + Len(t)) /\ ~(i + 1 <= 1) /\ (i + 1) - 1 = i
    BY <1>1
  <1> QED
    BY <1>1, <1>2, <1>3, <1>4

LEMMA DepthOfMore ==
    ASSUME NEW x \in 0..255, NEW t \in Seq(0..255)
    PROVE  DepthOf(t) \in Nat /\ DepthOf(<<x>> \o t) = BucketDepth(x) + DepthOf(t)
  <1> DEFINE u == <<x>> \o t
             a == [i \in DOMAIN t |-> BucketDepth(t[i])]
             b == [i \in DOMAIN u |-> BucketDepth(u[i])]
  <1>1. u \in Seq(0..255) /\ Len(u) = Len(t) + 1 /\ u[1] = x /\ \A i \in 1..Len(t) : u[i + 1] = t[i]
    BY InFront
  <1>2. a \in Seq(Nat) /\ Len(a) = Len(t) /\ \A i \in 1..Len(t) : a[i] = BucketDepth(t[i])
    BY DepthsAre
  <1> HIDE DEF u
  <1>3. b \in Seq(Nat) /\ Len(b) = Len(u) /\ \A i \in 1..Len(u) : b[i] = BucketDepth(u[i])
    BY <1>1, DepthsAre
  <1> HIDE DEF a, b
  <1>4. Len(t) \in Nat
    BY LenProperties
  <1>5. a \in Seq(Int) /\ b \in Seq(Int)
    BY <1>2, <1>3, SeqMonotonic
  <1>6. \A i \in 1..Len(a) : b[i + 1] = a[i]
    <2>1. \A i \in 1..Len(t) : i + 1 \in 1..Len(u)
      BY <1>1, <1>4
    <2> QED
      BY <1>1, <1>2, <1>3, <2>1
  <1>7. b[1] = BucketDepth(x)
    <2>1. 1 \in 1..Len(u)
      BY <1>1, <1>4
    <2> QED
      BY <1>1, <1>3, <2>1
  <1>8. SumOf(b) = b[1] + SumOf(a)
    <2>1. Len(b) = Len(a) + 1
      BY <1>1, <1>2, <1>3
    <2> QED
      BY <1>5, <1>6, <2>1, SumOfMore
  <1>9. SumOf(a) \in Nat
    BY <1>2, SumOfNats
  <1>10. DepthOf(t) = SumOf(a) /\ DepthOf(u) = SumOf(b)
    BY DEF DepthOf, a, b
  <1> QED
    BY <1>7, <1>8, <1>9, <1>10 DEF u

\* The lists of a depth whose degrees do not fall and are no smaller than one.
Lists(d, low) ==
    {t \in Seq(Degrees) : /\ \A i, j \in 1..Len(t) : i <= j => t[i] <= t[j]
                          /\ \A i \in 1..Len(t) : DegreeOf[low] <= t[i]
                          /\ DepthOf(t) = d}

LEMMA WiderSequence ==
    ASSUME NEW S, NEW T, S \subseteq T, NEW t \in Seq(S)
    PROVE t \in Seq(T)
  BY SeqMonotonic

LEMMA DegreesSmall == Degrees \subseteq 0..255 /\ Degrees \subseteq Nat /\ \A t \in Seq(Degrees) : t \in Seq(0..255) /\ t \in Seq(Nat)
  <1> DEFINE Byte == 0..255
  <1>1. Degrees \subseteq Byte
    BY DegreesAre DEF Degrees
  <1>2. Degrees \subseteq Nat
    BY <1>1
  <1> HIDE DEF Byte
  <1>3. ASSUME NEW t \in Seq(Degrees) PROVE t \in Seq(Byte)
    BY ONLY <1>1, <1>3, WiderSequence
  <1>4. ASSUME NEW t \in Seq(Degrees) PROVE t \in Seq(Nat)
    BY ONLY <1>2, <1>4, WiderSequence
  <1> QED
    BY ONLY <1>1, <1>2, <1>3, <1>4 DEF Byte

LEMMA ListsBegin == \A low \in 3..8 : Lists(0, low) = {<<>>}
  <1> SUFFICES ASSUME NEW low \in 3..8 PROVE Lists(0, low) = {<<>>}
    OBVIOUS
  <1>1. <<>> \in Lists(0, low)
    <2>1. <<>> \in Seq(Degrees) /\ Len(<<>>) = 0 /\ 1..0 = {}
      BY EmptySeq
    <2> QED
      BY <2>1, DepthOfEmpty DEF Lists
  <1>2. ASSUME NEW t \in Lists(0, low), t # <<>> PROVE FALSE
    <2>1. t \in Seq(0..255) /\ t \in Seq(Degrees) /\ DepthOf(t) = 0
      BY DegreesSmall DEF Lists
    <2>2. 1 \in 1..Len(t) /\ t[1] \in 0..255
      <3>1. Len(t) \in Nat \ {0}
        BY <1>2, <2>1, EmptySeq
      <3>2. 1 \in 1..Len(t)
        BY <3>1
      <3> QED
        BY <2>1, <3>2, ElementOfSeq
    <2> DEFINE a == [i \in DOMAIN t |-> BucketDepth(t[i])]
    <2>3. a \in Seq(Nat) /\ Len(a) = Len(t) /\ a[1] = BucketDepth(t[1])
      BY <2>1, <2>2, DepthsAre
    <2>4. DepthOf(t) = SumOf(a)
      BY DEF DepthOf
    <2> HIDE DEF a
    <2>5. a[1] <= SumOf(a)
      BY <2>2, <2>3, SumOfNats
    <2>6. BucketDepth(t[1]) \in 3..8
      BY <2>2, DegreesAre
    <2> QED
      BY <2>1, <2>3, <2>4, <2>5, <2>6
  <1> QED
    BY <1>1, <1>2

\* A part, and a list of the depth left over that is no smaller.
Grown(t, d, low) == \E p \in low..8 : p <= d /\ \E u \in Lists(d - p, p) : t = <<DegreeOf[p]>> \o u

LEMMA ListsGrow ==
    ASSUME NEW d \in Nat, d > 0, NEW low \in 3..8, NEW t
    PROVE  t \in Lists(d, low) <=> Grown(t, d, low)
  <1>1. ASSUME t \in Lists(d, low)
        PROVE  Grown(t, d, low)
    <2> DEFINE u == Tail(t)
    <2>1. /\ t \in Seq(Degrees) /\ DepthOf(t) = d
          /\ \A i, j \in 1..Len(t) : i <= j => t[i] <= t[j]
          /\ \A i \in 1..Len(t) : DegreeOf[low] <= t[i]
      BY <1>1 DEF Lists
    <2>2. t # <<>>
      BY <2>1, DepthOfEmpty
    <2>3. Len(t) \in Nat /\ Len(t) > 0 /\ 1 \in 1..Len(t)
      <3>1. Len(t) \in Nat \ {0}
        BY <2>1, <2>2, EmptySeq
      <3> QED
        BY <3>1
    <2>4. t[1] \in Degrees
      BY <2>1, <2>3, ElementOfSeq
    <2>5. PICK p \in 3..8 : t[1] = DegreeOf[p]
      BY <2>4 DEF Degrees
    <2>6. p \in low..8
      <3>1. low <= p
        BY <2>1, <2>3, <2>5, DegreesAre
      <3> QED
        BY <3>1
    <2>7. u \in Seq(Degrees) /\ Len(u) = Len(t) - 1 /\ \A i \in 1..Len(u) : u[i] = t[i + 1]
      BY <2>1, <2>2, HeadTailProperties
    <2> HIDE DEF u
    <2>8. t = <<DegreeOf[p]>> \o u
      <3>1. DegreeOf[p] \in Degrees
        BY DEF Degrees
      <3> DEFINE v == <<DegreeOf[p]>> \o u
      <3>2. v \in Seq(Degrees) /\ Len(v) = Len(u) + 1 /\ v[1] = DegreeOf[p] /\ \A i \in 1..Len(u) : v[i + 1] = u[i]
        BY <2>7, <3>1, InFront
      <3> HIDE DEF v
      <3>3. \A i \in 1..Len(t) : i = 1 \/ (i - 1 \in 1..Len(u) /\ (i - 1) + 1 = i)
        BY <2>3, <2>7
      <3>4. \A i \in 1..Len(t) : v[i] = t[i]
        BY <2>5, <2>7, <3>2, <3>3
      <3>5. Len(v) = Len(t)
        BY <2>3, <2>7, <3>2
      <3>6. v = t
        BY <2>1, <3>2, <3>4, <3>5, SeqEqual
      <3> QED
        BY <3>6 DEF v
    <2>9. DepthOf(u) \in Nat /\ DepthOf(t) = p + DepthOf(u)
      <3>1. DegreeOf[p] \in 0..255 /\ BucketDepth(DegreeOf[p]) = p
        BY DegreesAre
      <3>2. u \in Seq(0..255)
        BY <2>7, DegreesSmall
      <3> QED
        BY <2>8, <3>1, <3>2, DepthOfMore
    <2>10. u \in Lists(d - p, p)
      <3>1. \A i \in 1..Len(u) : i + 1 \in 1..Len(t) /\ 1 <= i + 1
        BY <2>3, <2>7
      <3>2. \A i, j \in 1..Len(u) : i <= j => i + 1 <= j + 1
        BY <2>3, <2>7
      <3>3. \A i, j \in 1..Len(u) : i <= j => u[i] <= u[j]
        BY <2>1, <2>7, <3>1, <3>2
      <3>4. \A i \in 1..Len(u) : DegreeOf[p] <= u[i]
        BY <2>1, <2>3, <2>5, <2>7, <3>1
      <3>5. DepthOf(u) = d - p
        BY <2>1, <2>9
      <3> QED
        BY <2>7, <3>3, <3>4, <3>5 DEF Lists
    <2>11. p <= d
      BY <2>1, <2>9
    <2> QED
      BY <2>6, <2>8, <2>10, <2>11 DEF Grown
  <1>2. ASSUME NEW p \in low..8, p <= d, NEW u \in Lists(d - p, p), t = <<DegreeOf[p]>> \o u
        PROVE  t \in Lists(d, low)
    <2>1. /\ u \in Seq(Degrees) /\ DepthOf(u) = d - p
          /\ \A i, j \in 1..Len(u) : i <= j => u[i] <= u[j]
          /\ \A i \in 1..Len(u) : DegreeOf[p] <= u[i]
      BY DEF Lists
    <2>2. p \in 3..8 /\ low <= p
      OBVIOUS
    <2>3. DegreeOf[p] \in Degrees /\ DegreeOf[p] \in 0..255 /\ BucketDepth(DegreeOf[p]) = p
      BY <2>2, DegreesAre DEF Degrees
    <2>4. t \in Seq(Degrees) /\ Len(t) = Len(u) + 1 /\ t[1] = DegreeOf[p] /\ \A i \in 1..Len(u) : t[i + 1] = u[i]
      BY <1>2, <2>1, <2>3, InFront
    <2>5. DepthOf(t) = d
      <3>1. u \in Seq(0..255)
        BY <2>1, DegreesSmall
      <3>2. DepthOf(u) \in Nat /\ DepthOf(t) = p + DepthOf(u)
        BY <1>2, <2>3, <3>1, DepthOfMore
      <3> QED
        BY <2>1, <2>2, <3>2
    <2>6. Len(u) \in Nat /\ \A i \in 1..Len(u) : u[i] \in Nat
      <3>1. u \in Seq(Nat)
        BY <2>1, DegreesSmall
      <3> QED
        BY <3>1, LenProperties, ElementOfSeq
    <2>7. \A i \in 1..Len(t) : i = 1 \/ (i - 1 \in 1..Len(u) /\ t[i] = u[i - 1])
      <3>1. \A i \in 1..Len(t) : i = 1 \/ (i - 1 \in 1..Len(u) /\ (i - 1) + 1 = i)
        BY <2>4, <2>6
      <3> QED
        BY <2>4, <3>1
    <2>7a. DegreeOf[p] \in Nat /\ DegreeOf[p] <= DegreeOf[p]
      BY <2>3
    <2>8. \A i \in 1..Len(t) : t[i] \in Nat /\ DegreeOf[p] <= t[i]
      <3> SUFFICES ASSUME NEW i \in 1..Len(t) PROVE t[i] \in Nat /\ DegreeOf[p] <= t[i]
        OBVIOUS
      <3>1. CASE i = 1
        BY <2>4, <2>7a, <3>1
      <3>2. CASE i # 1
        BY <2>1, <2>6, <2>7, <3>2
      <3> QED
        BY <3>1, <3>2
    <2>9. \A i \in 1..Len(t) : DegreeOf[low] <= t[i]
      <3>1. DegreeOf[low] <= DegreeOf[p]
        BY <2>2, DegreesAre
      <3>2. DegreeOf[low] \in 0..255
        BY DegreesAre
      <3>3. DegreeOf[low] \in Nat
        BY <3>2
      <3> HIDE DEF DegreeOf
      <3> QED
        BY <2>7a, <2>8, <3>1, <3>3
    <2>10. ASSUME NEW i \in 1..Len(t), NEW j \in 1..Len(t), i <= j PROVE t[i] <= t[j]
      <3>1. CASE i = 1
        BY <2>4, <2>8, <3>1
      <3>2. CASE i # 1
        <4>1. j # 1
          BY <2>10, <3>2
        <4>2. i - 1 \in 1..Len(u) /\ j - 1 \in 1..Len(u) /\ i - 1 <= j - 1 /\ t[i] = u[i - 1] /\ t[j] = u[j - 1]
          BY <2>7, <2>10, <3>2, <4>1, SMTT(30)
        <4> QED
          BY <2>1, <4>2
      <3> QED
        BY <3>1, <3>2
    <2> QED
      BY <2>4, <2>5, <2>9, <2>10 DEF Lists
  <1> QED
    BY <1>1, <1>2 DEF Grown

\* Each of some sequences with one more element in front.
LEMMA BeforeIs ==
    ASSUME NEW S, NEW x \in S, NEW tails \in Seq(Seq(S))
    PROVE  /\ Before(x, tails) \in Seq(Seq(S))
           /\ \A y : y \in Range(Before(x, tails)) <=> \E u \in Range(tails) : y = <<x>> \o u
  <1>1. Len(tails) \in Nat /\ DOMAIN tails = 1..Len(tails) /\ \A i \in 1..Len(tails) : tails[i] \in Seq(S)
    BY LenProperties, ElementOfSeq
  <1>2. \A i \in 1..Len(tails) : <<x>> \o tails[i] \in Seq(S)
    BY <1>1, InFront
  <1>3. Before(x, tails) = [i \in 1..Len(tails) |-> <<x>> \o tails[i]]
    BY <1>1 DEF Before
  <1>4. Before(x, tails) \in Seq(Seq(S))
    BY <1>1, <1>2, <1>3
  <1>5. ASSUME NEW y PROVE y \in Range(Before(x, tails)) <=> \E u \in Range(tails) : y = <<x>> \o u
    <2>1. y \in Range(Before(x, tails)) <=> \E i \in 1..Len(tails) : y = <<x>> \o tails[i]
      BY <1>3 DEF Range
    <2>2. \A u : u \in Range(tails) <=> \E i \in 1..Len(tails) : u = tails[i]
      BY <1>1 DEF Range
    <2> QED
      BY <2>1, <2>2
  <1> QED
    BY <1>4, <1>5

Parts(d, low) == {part \in low..8 : part <= d}
\* The lists of a depth with a first part from low on, given those of smaller depths.
Rows(h, d, low) ==
    [i \in 1..Cardinality(Parts(d, low)) |->
        Before(DegreeOf[low + i - 1], h[d - (low + i - 1)][low + i - 1])]

LEMMA PartsAre ==
    ASSUME NEW d \in Nat, NEW low \in 3..8
    PROVE  /\ Cardinality(Parts(d, low)) \in Nat
           /\ \A i \in 1..Cardinality(Parts(d, low)) : low + i - 1 \in low..8 /\ low + i - 1 <= d
           /\ \A p \in low..8 : p <= d => p - low + 1 \in 1..Cardinality(Parts(d, low)) /\ low + (p - low + 1) - 1 = p
  <1> DEFINE high == IF d < 8 THEN d ELSE 8
  <1>1. high \in Nat /\ high <= 8 /\ high <= d /\ (high = 8 \/ high = d)
    OBVIOUS
  <1>2. Parts(d, low) = low..high
    BY DEF Parts
  <1> HIDE DEF high
  <1>3. Cardinality(low..high) = IF low > high THEN 0 ELSE high - low + 1
    BY <1>1, FS_Interval
  <1>4. CASE low > high
    <2>1. Cardinality(Parts(d, low)) = 0
      BY <1>2, <1>3, <1>4
    <2>2. \A p \in low..8 : ~(p <= d)
      BY <1>1, <1>4
    <2> QED
      BY <2>1, <2>2
  <1>5. CASE ~(low > high)
    <2>1. Cardinality(Parts(d, low)) = high - low + 1
      BY <1>2, <1>3, <1>5
    <2>2. \A p \in low..8 : p <= d => p <= high
      BY <1>1
    <2> QED
      BY <1>1, <1>5, <2>1, <2>2
  <1> QED
    BY <1>4, <1>5

LEMMA PartBelow ==
    ASSUME NEW d \in 0..MaxTotalDepth, NEW low \in 3..8, NEW p \in low..8, p <= d
    PROVE  d - p \in 0..MaxTotalDepth /\ d - p < d /\ p \in 3..8 /\ d \in Nat
  <1>1. MaxTotalDepth \in Nat
    BY SearchAssumption
  <1> QED
    BY <1>1

ListedBelow(h, d) == \A e \in 0..MaxTotalDepth : e < d => h[e] \in [3..8 -> Seq(Seq(Nat))]

Stacked(t, h, d, low) ==
    \E p \in low..8 : p <= d /\ \E u \in Range(h[d - p][p]) : t = <<DegreeOf[p]>> \o u

LEMMA RowsAre ==
    ASSUME NEW h, NEW d \in 0..MaxTotalDepth, d # 0, NEW low \in 3..8, ListedBelow(h, d)
    PROVE  /\ Rows(h, d, low) \in Seq(Seq(Seq(Nat)))
           /\ \A t : (\E i \in 1..Len(Rows(h, d, low)) : t \in Range(Rows(h, d, low)[i])) <=>
                     Stacked(t, h, d, low)
  <1> DEFINE n == Cardinality(Parts(d, low))
  <1>1. d \in Nat
    BY SearchAssumption
  <1>2. /\ n \in Nat
        /\ \A i \in 1..n : low + i - 1 \in low..8 /\ low + i - 1 <= d
        /\ \A p \in low..8 : p <= d => p - low + 1 \in 1..n /\ low + (p - low + 1) - 1 = p
    BY <1>1, PartsAre
  <1> HIDE DEF n
  <1>3. ASSUME NEW p \in low..8, p <= d
        PROVE  /\ Before(DegreeOf[p], h[d - p][p]) \in Seq(Seq(Nat))
               /\ \A t : t \in Range(Before(DegreeOf[p], h[d - p][p])) <=>
                         \E u \in Range(h[d - p][p]) : t = <<DegreeOf[p]>> \o u
    <2>1. d - p \in 0..MaxTotalDepth /\ d - p < d /\ p \in 3..8
      BY <1>3, PartBelow
    <2>2. h[d - p][p] \in Seq(Seq(Nat))
      BY <2>1 DEF ListedBelow
    <2>3. DegreeOf[p] \in Nat
      BY <2>1, DegreeIsNat
    <2> DEFINE N == Nat
               x == DegreeOf[p]
               tails == h[d - p][p]
    <2>4. x \in N /\ tails \in Seq(Seq(N))
      BY <2>2, <2>3
    <2>5. /\ Before(x, tails) \in Seq(Seq(N))
          /\ \A t : t \in Range(Before(x, tails)) <=> \E u \in Range(tails) : t = <<x>> \o u
      <3> HIDE DEF N, x, tails
      <3> QED
        BY <2>4, BeforeIs
    <2> QED
      BY <2>5
  <1>4. Rows(h, d, low) = [i \in 1..n |-> Before(DegreeOf[low + i - 1], h[d - (low + i - 1)][low + i - 1])]
    BY DEF Rows, n
  <1>5. \A i \in 1..n : Before(DegreeOf[low + i - 1], h[d - (low + i - 1)][low + i - 1]) \in Seq(Seq(Nat))
    BY <1>2, <1>3
  <1>6. Rows(h, d, low) \in Seq(Seq(Seq(Nat))) /\ Len(Rows(h, d, low)) = n
    BY <1>2, <1>4, <1>5
  <1>7. \A i \in 1..n : Rows(h, d, low)[i] = Before(DegreeOf[low + i - 1], h[d - (low + i - 1)][low + i - 1])
    BY <1>4
  <1>8. ASSUME NEW t, NEW i \in 1..n, t \in Range(Rows(h, d, low)[i])
        PROVE  \E p \in low..8 : p <= d /\ \E u \in Range(h[d - p][p]) : t = <<DegreeOf[p]>> \o u
    <2> DEFINE p == low + i - 1
    <2>1. p \in low..8 /\ p <= d
      BY <1>2
    <2>2. t \in Range(Before(DegreeOf[p], h[d - p][p]))
      BY <1>7, <1>8
    <2> HIDE DEF p
    <2>3. \E u \in Range(h[d - p][p]) : t = <<DegreeOf[p]>> \o u
      BY <1>3, <2>1, <2>2
    <2> QED
      BY <2>1, <2>3
  <1>9. ASSUME NEW t, NEW p \in low..8, p <= d, NEW u \in Range(h[d - p][p]), t = <<DegreeOf[p]>> \o u
        PROVE  \E i \in 1..n : t \in Range(Rows(h, d, low)[i])
    <2> DEFINE i == p - low + 1
    <2>1. i \in 1..n /\ low + i - 1 = p
      BY <1>2, <1>9
    <2> HIDE DEF i
    <2>2. t \in Range(Before(DegreeOf[p], h[d - p][p]))
      BY <1>3, <1>9
    <2>3. Rows(h, d, low)[i] = Before(DegreeOf[p], h[d - p][p])
      BY <1>7, <2>1
    <2> QED
      BY <2>1, <2>2, <2>3
  <1> QED
    BY <1>6, <1>8, <1>9 DEF Stacked

\* The lists of a depth follow from those of smaller ones.
LEMMA DegreeListsSteps ==
    \E g \in [0..MaxTotalDepth -> [3..8 -> Seq(Seq(Nat))]] :
              /\ \A d \in 0..MaxTotalDepth, low \in 3..8 :
                    g[d][low] = IF d = 0 THEN << <<>> >> ELSE FlattenSeq(Rows(g, d, low))
              /\ DegreeLists = [d \in 0..MaxTotalDepth |-> g[d][3]]
  <1> DEFINE T == [3..8 -> Seq(Seq(Nat))]
             D == 0..MaxTotalDepth
             Body(h, k) == [low \in 3..8 |-> IF k = 0 THEN << <<>> >> ELSE FlattenSeq(Rows(h, k, low))]
             IsIt(h) == h = [k \in 0..MaxTotalDepth |-> [low \in 3..8 |->
            IF k = 0 THEN << <<>> >>
            ELSE LET parts == {part \in low..8 : part <= k}
                 IN  FlattenSeq([i \in 1..Cardinality(parts) |->
                        LET part == low + i - 1 IN Before(DegreeOf[part], h[k - part][part])])]]
             G == [h \in [D -> T] |-> [k \in D |-> Body(h, k)]]
             it == CHOOSE h : IsIt(h)
  <1>1. MaxTotalDepth \in Nat /\ [low \in 3..8 |-> <<>>] \in T
    BY SearchAssumption
  <1>2. \A k \in D : k \in Nat
    BY <1>1
  <1>3. ASSUME NEW h, NEW k \in D, \A j \in D : j < k => h[j] \in T
        PROVE  Body(h, k) \in T
    <2>1. ASSUME NEW low \in 3..8
          PROVE  (IF k = 0 THEN << <<>> >> ELSE FlattenSeq(Rows(h, k, low))) \in Seq(Seq(Nat))
      <3>1. << <<>> >> \in Seq(Seq(Nat))
        OBVIOUS
      <3>2. CASE k # 0
        <4>1. ListedBelow(h, k)
          BY <1>3 DEF ListedBelow
        <4>1a. Rows(h, k, low) \in Seq(Seq(Seq(Nat)))
          BY <3>2, <4>1, RowsAre
        <4>2. FlattenSeq(Rows(h, k, low)) \in Seq(Seq(Nat))
          BY <4>1a, FlattenIs
        <4> QED
          BY <3>2, <4>2
      <3> QED
        BY <3>1, <3>2
    <2> QED
      BY <2>1
  <1>4. G \in [[D -> T] -> [D -> T]]
    <2>1. ASSUME NEW h \in [D -> T] PROVE [k \in D |-> Body(h, k)] \in [D -> T]
      <3>1. \A k \in D : Body(h, k) \in T
        <4> HIDE DEF T, Body, D
        <4> QED
          BY <1>3
      <3> HIDE DEF T, Body, D
      <3> QED
        BY <3>1
    <2> HIDE DEF T, Body, D
    <2> QED
      BY <2>1
  <1>5. ASSUME NEW g \in [D -> T], NEW h \in [D -> T], NEW k \in D, \A j \in D : j < k => g[j] = h[j]
        PROVE  G[g][k] = G[h][k]
    <2>1. Body(g, k) = Body(h, k)
      <3>1. ASSUME NEW low \in 3..8, k # 0 PROVE Rows(g, k, low) = Rows(h, k, low)
        <4>1. ASSUME NEW i \in 1..Cardinality(Parts(k, low))
              PROVE  g[k - (low + i - 1)] = h[k - (low + i - 1)]
          <5>0. k \in Nat
            BY <1>2
          <5>1. low + i - 1 \in low..8 /\ low + i - 1 <= k
            BY <5>0, PartsAre
          <5>2. k - (low + i - 1) \in D /\ k - (low + i - 1) < k
            BY <5>1, PartBelow
          <5> HIDE DEF D
          <5> QED
            BY <1>5, <5>2
        <4> HIDE DEF D, T
        <4> QED
          BY <4>1 DEF Rows
      <3> HIDE DEF D, T
      <3> QED
        BY <3>1
    <2> HIDE DEF T, Body, D
    <2> QED
      BY <2>1
  <1>6. \E h \in [D -> T] : G[h] = h
    <2>1. D \in SUBSET Nat /\ T # {}
      <3>1. D \in SUBSET Nat
        BY <1>1
      <3>2. T # {}
        BY <1>1
      <3> QED
        BY <3>1, <3>2
    <2> HIDE DEF T, G, D
    <2>2. LooksBack(G, D, T)
      BY <1>4, <1>5, <2>1 DEF LooksBack
    <2> QED
      BY <2>2, RecursionExists
  <1>7. IsIt(it)
    <2>1. \E h : IsIt(h)
      <3>1. PICK h \in [D -> T] : G[h] = h
        BY <1>6
      <3>2. h = [k \in D |-> Body(h, k)]
        <4> HIDE DEF T, D, Body
        <4> QED
          BY <3>1
      <3>3. IsIt(h)
        BY <3>2 DEF Rows, Parts
      <3> HIDE DEF IsIt
      <3> QED
        BY <3>3
    <2> HIDE DEF IsIt
    <2> QED
      BY <2>1
  <1>8. \A k \in D : it[k] = Body(it, k)
    <2> HIDE DEF it
    <2>1. it = [k \in D |-> Body(it, k)]
      BY <1>7 DEF Rows, Parts
    <2> HIDE DEF Body, D, T
    <2> QED
      BY <2>1, SMTT(30)
  <1>9. \A k \in D : it[k] \in T
    <2>1. D \in SUBSET Nat
      BY <1>1
    <2>2. ASSUME NEW k \in D, \A j \in D : j < k => it[j] \in T PROVE it[k] \in T
      <3> HIDE DEF T, it, Body, D
      <3> QED
        BY <1>3, <1>8, <2>2
    <2> HIDE DEF T, it, D, IsIt
    <2> QED
      BY <2>1, <2>2, RecursionTyped
  <1>10. it \in [D -> T]
    <2> HIDE DEF it
    <2>1. it = [k \in D |-> Body(it, k)]
      BY <1>7 DEF Rows, Parts
    <2> HIDE DEF T, Body, D
    <2> QED
      BY <1>8, <1>9, <2>1
  <1>11. \A d \in 0..MaxTotalDepth, low \in 3..8 :
             it[d][low] = IF d = 0 THEN << <<>> >> ELSE FlattenSeq(Rows(it, d, low))
    <2> HIDE DEF it
    <2> QED
      BY <1>8
  <1>12. DegreeLists = [d \in 0..MaxTotalDepth |-> it[d][3]]
    BY DEF DegreeLists
  <1> HIDE DEF it
  <1> QED
    BY <1>10, <1>11, <1>12

LEMMA DegreeListsAre ==
    ASSUME NEW d \in 0..MaxTotalDepth
    PROVE  DegreeLists[d] \in Seq(Seq(Nat)) /\ Range(DegreeLists[d]) = Lists(d, 3)
  <1>1. PICK g \in [0..MaxTotalDepth -> [3..8 -> Seq(Seq(Nat))]] :
            /\ \A e \in 0..MaxTotalDepth, low \in 3..8 :
                  g[e][low] = IF e = 0 THEN << <<>> >> ELSE FlattenSeq(Rows(g, e, low))
            /\ DegreeLists = [e \in 0..MaxTotalDepth |-> g[e][3]]
    BY DegreeListsSteps
  <1> DEFINE Right(e) == \A low \in 3..8 : \A t : t \in Range(g[e][low]) <=> t \in Lists(e, low)
             B == {e \in 0..MaxTotalDepth : ~Right(e)}
  <1>2. MaxTotalDepth \in Nat /\ 3 \in 3..8
    BY SearchAssumption
  <1>3. SUFFICES B = {}
    <2>1. DegreeLists[d] = g[d][3]
      BY <1>1
    <2>2. g[d][3] \in Seq(Seq(Nat))
      BY <1>1, <1>2
    <2>3. B = {} => Right(d)
      OBVIOUS
    <2>4. Right(d) => Range(g[d][3]) = Lists(d, 3)
      BY <1>2
    <2> QED
      BY <2>1, <2>2, <2>3, <2>4
  <1>4. SUFFICES ASSUME B # {} PROVE FALSE
    OBVIOUS
  <1>5. PICK e \in B : \A x \in B : e <= x
    <2>1. B \in SUBSET Nat
      BY <1>2
    <2> HIDE DEF B
    <2> QED
      BY <1>4, <2>1, LeastNat
  <1>6. e \in 0..MaxTotalDepth /\ ~Right(e)
    BY <1>5
  <1>6a. e \in 0..MaxTotalDepth /\ e \in Nat
    BY <1>2, <1>5
  <1>7. \A x \in 0..MaxTotalDepth : x < e => Right(x)
    <2> HIDE DEF Right
    <2>1. ASSUME NEW x \in 0..MaxTotalDepth, x < e, ~Right(x) PROVE FALSE
      <3>1. x \in B /\ x \in Nat
        BY <1>2, <2>1
      <3> HIDE DEF B
      <3>2. e <= x
        BY <1>5, <3>1
      <3> QED
        BY <1>6a, <2>1, <3>1, <3>2
    <2> QED
      BY <2>1
  <1> HIDE DEF B
  <1>8. CASE e = 0
    <2>1. ASSUME NEW low \in 3..8 PROVE Range(g[e][low]) = {<<>>}
      <3>1. g[e][low] = << <<>> >>
        BY <1>1, <1>6, <1>8
      <3>2. Range(<< <<>> >>) = {<<>>}
        BY DEF Range
      <3> QED
        BY <3>1, <3>2
    <2>2. Right(e)
      BY <1>8, <2>1, ListsBegin
    <2> HIDE DEF Right
    <2> QED
      BY <1>6, <2>2
  <1>9. CASE e # 0
    <2>0. ListedBelow(g, e)
      BY <1>1 DEF ListedBelow
    <2>1. ASSUME NEW low \in 3..8, NEW t PROVE t \in Range(g[e][low]) <=> t \in Lists(e, low)
      <3>1. g[e][low] = FlattenSeq(Rows(g, e, low))
        BY <1>1, <1>6, <1>9
      <3>2. /\ Rows(g, e, low) \in Seq(Seq(Seq(Nat)))
            /\ \A x : (\E i \in 1..Len(Rows(g, e, low)) : x \in Range(Rows(g, e, low)[i])) <=>
                      Stacked(x, g, e, low)
        BY <1>6a, <1>9, <2>0, RowsAre
      <3>3. t \in Range(g[e][low]) <=> Stacked(t, g, e, low)
        BY <3>1, <3>2, FlattenIs
      <3>4. ASSUME NEW p \in low..8, p <= e PROVE \A u : u \in Range(g[e - p][p]) <=> u \in Lists(e - p, p)
        <4>1. e - p \in 0..MaxTotalDepth /\ e - p < e /\ p \in 3..8
          BY <1>6a, <3>4, PartBelow
        <4> QED
          BY <1>7, <4>1
      <3>5. t \in Lists(e, low) <=> Grown(t, e, low)
        <4>1. e > 0
          BY <1>6a, <1>9
        <4> QED
          BY <1>6a, <4>1, ListsGrow
      <3> HIDE DEF Right
      <3> QED
        BY <3>3, <3>4, <3>5 DEF Stacked, Grown
    <2>2. Right(e)
      BY <2>1
    <2> HIDE DEF Right
    <2> QED
      BY <1>6, <2>2
  <1> QED
    BY <1>8, <1>9

\* Tails of a length whose orders are those from a place on and do not fall.
From(first) == {Orders[j] : j \in first..Len(Orders)}
TailsOf(n, first) ==
    {t \in Seq(From(first)) : Len(t) = n /\ \A i, j \in 1..Len(t) : i <= j => t[i] <= t[j]}

LEMMA OrdersAre ==
    /\ Len(Orders) \in Nat /\ DOMAIN Orders = 1..Len(Orders)
    /\ \A j \in 1..Len(Orders) : Orders[j] \in Nat /\ 2 * Orders[j] + 1 \in 0..255
    /\ \A i, j \in 1..Len(Orders) : Orders[i] <= Orders[j] => i <= j
    /\ \A i, j \in 1..Len(Orders) : i <= j => Orders[i] <= Orders[j]
  <1>1. Len(Orders) \in Nat /\ DOMAIN Orders = 1..Len(Orders) /\ \A j \in 1..Len(Orders) : Orders[j] \in 0..127
    BY SearchAssumption, LenProperties, ElementOfSeq
  <1>2. \A j \in 1..Len(Orders) : Orders[j] \in Nat /\ 2 * Orders[j] + 1 \in 0..255
    <2>1. \A x \in 0..127 : x \in Nat /\ 2 * x + 1 \in 0..255
      OBVIOUS
    <2> QED
      BY <1>1, <2>1
  <1>3. \A i, j \in 1..Len(Orders) : i < j => Orders[i] < Orders[j]
    BY <1>1, SearchAssumption
  <1>4. ASSUME NEW i \in 1..Len(Orders), NEW j \in 1..Len(Orders)
        PROVE  (Orders[i] <= Orders[j] => i <= j) /\ (i <= j => Orders[i] <= Orders[j])
    <2>1. CASE i < j
      BY <1>2, <1>3, <2>1
    <2>2. CASE i = j
      BY <1>2, <2>2
    <2>3. CASE j < i
      BY <1>2, <1>3, <2>3
    <2> QED
      BY <1>1, <2>1, <2>2, <2>3
  <1> QED
    BY <1>1, <1>2, <1>4

LEMMA FromIs ==
    ASSUME NEW first \in 1..(Len(Orders) + 1)
    PROVE  /\ From(first) \subseteq Nat
           /\ \A j \in first..Len(Orders) : From(j) \subseteq From(first)
  <1>1. \A j \in first..Len(Orders) : j \in 1..Len(Orders) /\ \A i \in j..Len(Orders) : i \in first..Len(Orders)
    BY OrdersAre
  <1> QED
    BY <1>1, OrdersAre DEF From

\* An order, and a tail one shorter of orders no smaller.
Lengthened(t, n, first) ==
    \E j \in first..Len(Orders) : \E u \in TailsOf(n - 1, j) : t = <<Orders[j]>> \o u

LEMMA TailsGrow ==
    ASSUME NEW n \in Nat, n > 0, NEW first \in 1..(Len(Orders) + 1), NEW t
    PROVE  t \in TailsOf(n, first) <=> Lengthened(t, n, first)
  <1>1. ASSUME t \in TailsOf(n, first) PROVE Lengthened(t, n, first)
    <2> DEFINE u == Tail(t)
    <2>1. t \in Seq(From(first)) /\ Len(t) = n /\ \A i, j \in 1..Len(t) : i <= j => t[i] <= t[j]
      BY <1>1 DEF TailsOf
    <2>2. t # <<>> /\ 1 \in 1..Len(t)
      BY <2>1, EmptySeq
    <2>3. \A i \in 1..Len(t) : \E j \in first..Len(Orders) : t[i] = Orders[j]
      <3>1. \A i \in 1..Len(t) : t[i] \in From(first)
        BY <2>1, ElementOfSeq
      <3> QED
        BY <3>1 DEF From
    <2>4. PICK j \in first..Len(Orders) : t[1] = Orders[j]
      BY <2>2, <2>3
    <2>5. u \in Seq(From(first)) /\ Len(u) = n - 1 /\ \A i \in 1..Len(u) : u[i] = t[i + 1]
      BY <2>1, <2>2, HeadTailProperties
    <2> HIDE DEF u
    <2>6. \A i \in 1..Len(u) : i + 1 \in 1..Len(t) /\ 1 <= i + 1
      BY <2>1, <2>5
    <2>7. ASSUME NEW i \in 1..Len(u) PROVE u[i] \in From(j)
      <3>1. PICK k \in first..Len(Orders) : t[i + 1] = Orders[k]
        BY <2>3, <2>6
      <3>2. j \in 1..Len(Orders) /\ k \in 1..Len(Orders)
        BY OrdersAre
      <3>3. Orders[j] <= Orders[k]
        BY <2>1, <2>2, <2>4, <2>6, <3>1
      <3>4. j <= k
        BY <3>2, <3>3, OrdersAre
      <3>5. k \in j..Len(Orders)
        BY <3>2, <3>4
      <3> QED
        BY <2>5, <3>1, <3>5 DEF From
    <2>8. u \in Seq(From(j))
      <3>1. u \in [1..(n - 1) -> From(first)] /\ n - 1 \in Nat
        BY <2>5, LenProperties
      <3>2. u \in [1..(n - 1) -> From(j)]
        BY <2>5, <2>7, <3>1
      <3> QED
        BY <3>1, <3>2, SeqDef
    <2>9. u \in TailsOf(n - 1, j)
      <3>1. \A i, k \in 1..Len(u) : i <= k => i + 1 <= k + 1
        BY <2>5
      <3>2. \A i, k \in 1..Len(u) : i <= k => u[i] <= u[k]
        BY <2>1, <2>5, <2>6, <3>1
      <3> QED
        BY <2>5, <2>8, <3>2 DEF TailsOf
    <2>10. t = <<Orders[j]>> \o u
      <3>1. Orders[j] \in From(first)
        BY DEF From
      <3> DEFINE v == <<Orders[j]>> \o u
      <3>2. v \in Seq(From(first)) /\ Len(v) = Len(u) + 1 /\ v[1] = Orders[j] /\ \A i \in 1..Len(u) : v[i + 1] = u[i]
        BY <2>5, <3>1, InFront
      <3> HIDE DEF v
      <3>3. \A i \in 1..Len(t) : i = 1 \/ (i - 1 \in 1..Len(u) /\ (i - 1) + 1 = i)
        BY <2>1, <2>5
      <3>4. \A i \in 1..Len(t) : v[i] = t[i]
        BY <2>4, <2>5, <3>2, <3>3
      <3>5. Len(v) = Len(t)
        BY <2>1, <2>5, <3>2
      <3>6. v = t
        BY <2>1, <3>2, <3>4, <3>5, SeqEqual
      <3> QED
        BY <3>6 DEF v
    <2> QED
      BY <2>9, <2>10 DEF Lengthened
  <1>2. ASSUME NEW j \in first..Len(Orders), NEW u \in TailsOf(n - 1, j), t = <<Orders[j]>> \o u
        PROVE  t \in TailsOf(n, first)
    <2>1. u \in Seq(From(j)) /\ Len(u) = n - 1 /\ \A i, k \in 1..Len(u) : i <= k => u[i] <= u[k]
      BY DEF TailsOf
    <2>2. j \in 1..Len(Orders) /\ Orders[j] \in Nat /\ Orders[j] \in From(first)
      BY OrdersAre DEF From
    <2>3. u \in Seq(From(first))
      <3>1. From(j) \subseteq From(first)
        BY FromIs
      <3> QED
        BY <2>1, <3>1, SeqMonotonic
    <2>4. t \in Seq(From(first)) /\ Len(t) = Len(u) + 1 /\ t[1] = Orders[j] /\ \A i \in 1..Len(u) : t[i + 1] = u[i]
      BY <1>2, <2>2, <2>3, InFront
    <2>5. ASSUME NEW i \in 1..Len(u) PROVE u[i] \in Nat /\ Orders[j] <= u[i]
      <3>1. u[i] \in From(j)
        BY <2>1, ElementOfSeq
      <3>2. PICK k \in j..Len(Orders) : u[i] = Orders[k]
        BY <3>1 DEF From
      <3>3. k \in 1..Len(Orders) /\ j <= k
        BY <2>2, OrdersAre
      <3> QED
        BY <2>2, <3>2, <3>3, OrdersAre
    <2>6. \A i \in 1..Len(t) : i = 1 \/ (i - 1 \in 1..Len(u) /\ t[i] = u[i - 1])
      <3>1. \A i \in 1..Len(t) : i = 1 \/ (i - 1 \in 1..Len(u) /\ (i - 1) + 1 = i)
        BY <2>1, <2>4
      <3> QED
        BY <2>4, <3>1
    <2>7. ASSUME NEW i \in 1..Len(t), NEW k \in 1..Len(t), i <= k PROVE t[i] <= t[k]
      <3>1. CASE i = 1
        <4>1. CASE k = 1
          BY <2>2, <2>4, <3>1, <4>1
        <4>2. CASE k # 1
          BY <2>4, <2>5, <2>6, <3>1, <4>2
        <4> QED
          BY <4>1, <4>2
      <3>2. CASE i # 1
        <4>1. k # 1
          BY <2>7, <3>2
        <4>2. i - 1 \in 1..Len(u) /\ k - 1 \in 1..Len(u) /\ i - 1 <= k - 1 /\ t[i] = u[i - 1] /\ t[k] = u[k - 1]
          BY <2>6, <2>7, <3>2, <4>1
        <4> QED
          BY <2>1, <4>2
      <3> QED
        BY <3>1, <3>2
    <2>8. Len(t) = n
      BY <2>1, <2>4
    <2> QED
      BY <2>4, <2>7, <2>8 DEF TailsOf
  <1> QED
    BY <1>1, <1>2 DEF Lengthened

LEMMA TailsBegin == \A first \in 1..(Len(Orders) + 1) : TailsOf(0, first) = {<<>>}
  <1> SUFFICES ASSUME NEW first \in 1..(Len(Orders) + 1) PROVE TailsOf(0, first) = {<<>>}
    OBVIOUS
  <1>1. <<>> \in Seq(From(first)) /\ Len(<<>>) = 0 /\ 1..0 = {}
    BY EmptySeq
  <1>2. <<>> \in TailsOf(0, first)
    BY <1>1 DEF TailsOf
  <1>3. ASSUME NEW t \in TailsOf(0, first) PROVE t = <<>>
    <2>1. t \in Seq(From(first)) /\ Len(t) = 0
      BY DEF TailsOf
    <2> QED
      BY <2>1, EmptySeq
  <1> QED
    BY <1>2, <1>3

\* The tails of a length from an order on, given those one shorter.
Lengthen(h, n, first) ==
    [k \in 1..(Len(Orders) - first + 1) |-> Before(Orders[first + k - 1], h[n - 1][first + k - 1])]

Headed(t, h, n, first) ==
    \E j \in first..Len(Orders) : \E u \in Range(h[n - 1][j]) : t = <<Orders[j]>> \o u

LEMMA LengthenIs ==
    ASSUME NEW h, NEW n, h[n - 1] \in [1..(Len(Orders) + 1) -> Seq(Seq(Nat))],
           NEW first \in 1..(Len(Orders) + 1)
    PROVE  /\ Lengthen(h, n, first) \in Seq(Seq(Seq(Nat)))
           /\ \A t : (\E i \in 1..Len(Lengthen(h, n, first)) : t \in Range(Lengthen(h, n, first)[i])) <=>
                     Headed(t, h, n, first)
  <1> DEFINE m == Len(Orders) - first + 1
  <1>1. /\ m \in Nat
        /\ \A i \in 1..m : first + i - 1 \in first..Len(Orders)
        /\ \A j \in first..Len(Orders) : j - first + 1 \in 1..m /\ first + (j - first + 1) - 1 = j
    BY OrdersAre, SMTT(30)
  <1> HIDE DEF m
  <1>2. ASSUME NEW j \in first..Len(Orders)
        PROVE  /\ Before(Orders[j], h[n - 1][j]) \in Seq(Seq(Nat))
               /\ \A t : t \in Range(Before(Orders[j], h[n - 1][j])) <=>
                         \E u \in Range(h[n - 1][j]) : t = <<Orders[j]>> \o u
    <2>1. j \in 1..Len(Orders) /\ j \in 1..(Len(Orders) + 1)
      BY OrdersAre
    <2> DEFINE N == Nat
               x == Orders[j]
               tails == h[n - 1][j]
    <2>2. x \in N /\ tails \in Seq(Seq(N))
      BY <2>1, OrdersAre
    <2>3. /\ Before(x, tails) \in Seq(Seq(N))
          /\ \A t : t \in Range(Before(x, tails)) <=> \E u \in Range(tails) : t = <<x>> \o u
      <3> HIDE DEF N, x, tails
      <3> QED
        BY ONLY <2>2, BeforeIs
    <2> QED
      BY <2>3
  <1>3. Lengthen(h, n, first) = [i \in 1..m |-> Before(Orders[first + i - 1], h[n - 1][first + i - 1])]
    BY DEF Lengthen, m
  <1>4. \A i \in 1..m : Before(Orders[first + i - 1], h[n - 1][first + i - 1]) \in Seq(Seq(Nat))
    BY <1>1, <1>2
  <1>5. Lengthen(h, n, first) \in Seq(Seq(Seq(Nat))) /\ Len(Lengthen(h, n, first)) = m
    BY <1>1, <1>3, <1>4
  <1>6. \A i \in 1..m : Lengthen(h, n, first)[i] = Before(Orders[first + i - 1], h[n - 1][first + i - 1])
    BY <1>3
  <1>7. ASSUME NEW t, NEW i \in 1..m, t \in Range(Lengthen(h, n, first)[i])
        PROVE  Headed(t, h, n, first)
    <2> DEFINE j == first + i - 1
    <2>1. j \in first..Len(Orders)
      BY <1>1
    <2>2. t \in Range(Before(Orders[j], h[n - 1][j]))
      BY <1>6, <1>7
    <2> HIDE DEF j
    <2>3. \E u \in Range(h[n - 1][j]) : t = <<Orders[j]>> \o u
      BY <1>2, <2>1, <2>2
    <2> QED
      BY <2>1, <2>3 DEF Headed
  <1>8. ASSUME NEW t, NEW j \in first..Len(Orders), NEW u \in Range(h[n - 1][j]), t = <<Orders[j]>> \o u
        PROVE  \E i \in 1..m : t \in Range(Lengthen(h, n, first)[i])
    <2> DEFINE i == j - first + 1
    <2>1. i \in 1..m /\ first + i - 1 = j
      BY <1>1
    <2> HIDE DEF i
    <2>2. t \in Range(Before(Orders[j], h[n - 1][j]))
      BY <1>2, <1>8
    <2>3. Lengthen(h, n, first)[i] = Before(Orders[j], h[n - 1][j])
      BY <1>6, <2>1
    <2> QED
      BY <2>1, <2>2, <2>3
  <1> QED
    BY <1>5, <1>7, <1>8 DEF Headed

\* The tails of a length follow from those one shorter.
LEMMA CombosSteps ==
    \E g \in [0..MaxRefinements -> [1..(Len(Orders) + 1) -> Seq(Seq(Nat))]] :
              /\ \A n \in 0..MaxRefinements, first \in 1..(Len(Orders) + 1) :
                    g[n][first] = IF n = 0 THEN << <<>> >> ELSE FlattenSeq(Lengthen(g, n, first))
              /\ Combos = << <<>> >> \o FlattenSeq([n \in 1..MaxRefinements |-> g[n][1]])
  <1> DEFINE T == [1..(Len(Orders) + 1) -> Seq(Seq(Nat))]
             D == 0..MaxRefinements
             Body(h, k) == [first \in 1..(Len(Orders) + 1) |-> IF k = 0 THEN << <<>> >> ELSE FlattenSeq(Lengthen(h, k, first))]
             IsIt(h) == h = [k \in 0..MaxRefinements |-> [first \in 1..(Len(Orders) + 1) |->
            IF k = 0 THEN << <<>> >>
            ELSE FlattenSeq([i \in 1..(Len(Orders) - first + 1) |->
                     Before(Orders[first + i - 1], h[k - 1][first + i - 1])])]]
             G == [h \in [D -> T] |-> [k \in D |-> Body(h, k)]]
             it == CHOOSE h : IsIt(h)
  <1>1. MaxRefinements \in Nat /\ [first \in 1..(Len(Orders) + 1) |-> <<>>] \in T
    BY SearchAssumption
  <1>2. ASSUME NEW k \in D PROVE k = 0 \/ (k - 1 \in D /\ k - 1 < k)
    BY <1>1
  <1>3. ASSUME NEW h, NEW k \in D, \A j \in D : j < k => h[j] \in T
        PROVE  Body(h, k) \in T
    <2>1. ASSUME NEW first \in 1..(Len(Orders) + 1)
          PROVE  (IF k = 0 THEN << <<>> >> ELSE FlattenSeq(Lengthen(h, k, first))) \in Seq(Seq(Nat))
      <3>1. << <<>> >> \in Seq(Seq(Nat))
        OBVIOUS
      <3>2. CASE k # 0
        <4>1. h[k - 1] \in T
          <5> HIDE DEF T, D
          <5> QED
            BY <1>2, <1>3, <3>2
        <4>2. Lengthen(h, k, first) \in Seq(Seq(Seq(Nat)))
          BY <4>1, LengthenIs
        <4>3. FlattenSeq(Lengthen(h, k, first)) \in Seq(Seq(Nat))
          BY <4>2, FlattenIs
        <4> QED
          BY <3>2, <4>3
      <3> QED
        BY <3>1, <3>2
    <2> QED
      BY <2>1
  <1>4. G \in [[D -> T] -> [D -> T]]
    <2>1. ASSUME NEW h \in [D -> T] PROVE [k \in D |-> Body(h, k)] \in [D -> T]
      <3>1. \A k \in D : Body(h, k) \in T
        <4> HIDE DEF T, Body, D
        <4> QED
          BY <1>3
      <3> HIDE DEF T, Body, D
      <3> QED
        BY <3>1
    <2> HIDE DEF T, Body, D
    <2> QED
      BY <2>1
  <1>5. ASSUME NEW g \in [D -> T], NEW h \in [D -> T], NEW k \in D, \A j \in D : j < k => g[j] = h[j]
        PROVE  G[g][k] = G[h][k]
    <2>1. Body(g, k) = Body(h, k)
      <3>1. ASSUME k # 0 PROVE g[k - 1] = h[k - 1]
        <4> HIDE DEF D, T
        <4> QED
          BY <1>2, <1>5, <3>1
      <3>2. ASSUME NEW first \in 1..(Len(Orders) + 1), k # 0 PROVE Lengthen(g, k, first) = Lengthen(h, k, first)
        <4> HIDE DEF D, T
        <4> QED
          BY <3>1, <3>2 DEF Lengthen
      <3> HIDE DEF D, T
      <3> QED
        BY <3>2
    <2> HIDE DEF T, Body, D
    <2> QED
      BY <2>1
  <1>6. \E h \in [D -> T] : G[h] = h
    <2>1. D \in SUBSET Nat /\ T # {}
      <3>1. D \in SUBSET Nat
        BY <1>1
      <3>2. T # {}
        BY <1>1
      <3> QED
        BY <3>1, <3>2
    <2> HIDE DEF T, G, D
    <2>2. LooksBack(G, D, T)
      BY <1>4, <1>5, <2>1 DEF LooksBack
    <2> QED
      BY <2>2, RecursionExists
  <1>7. IsIt(it)
    <2>1. \E h : IsIt(h)
      <3>1. PICK h \in [D -> T] : G[h] = h
        BY <1>6
      <3>2. h = [k \in D |-> Body(h, k)]
        <4> HIDE DEF T, D, Body
        <4> QED
          BY <3>1
      <3>3. IsIt(h)
        BY <3>2 DEF Lengthen
      <3> HIDE DEF IsIt
      <3> QED
        BY <3>3
    <2> HIDE DEF IsIt
    <2> QED
      BY <2>1
  <1>8. \A k \in D : it[k] = Body(it, k)
    <2> HIDE DEF it
    <2>1. it = [k \in D |-> Body(it, k)]
      BY <1>7 DEF Lengthen
    <2> HIDE DEF Body, D, T
    <2> QED
      BY <2>1
  <1>9. \A k \in D : it[k] \in T
    <2>1. D \in SUBSET Nat
      BY <1>1
    <2>2. ASSUME NEW k \in D, \A j \in D : j < k => it[j] \in T PROVE it[k] \in T
      <3> HIDE DEF T, it, Body, D
      <3> QED
        BY <1>3, <1>8, <2>2
    <2> HIDE DEF T, it, D, IsIt
    <2> QED
      BY <2>1, <2>2, RecursionTyped
  <1>10. it \in [D -> T]
    <2> HIDE DEF it
    <2>1. it = [k \in D |-> Body(it, k)]
      BY <1>7 DEF Lengthen
    <2> HIDE DEF T, Body, D
    <2> QED
      BY <1>8, <1>9, <2>1
  <1>11. \A n \in 0..MaxRefinements, first \in 1..(Len(Orders) + 1) :
             it[n][first] = IF n = 0 THEN << <<>> >> ELSE FlattenSeq(Lengthen(it, n, first))
    <2> HIDE DEF it
    <2> QED
      BY <1>8
  <1>12. Combos = << <<>> >> \o FlattenSeq([n \in 1..MaxRefinements |-> it[n][1]])
    BY DEF Combos
  <1> HIDE DEF it
  <1> QED
    BY <1>10, <1>11, <1>12

\* All tails.
TailSpace == UNION {TailsOf(n, 1) : n \in 0..MaxRefinements}

LEMMA CombosAre == Combos \in Seq(Seq(Nat)) /\ Range(Combos) = TailSpace
  <1>1. PICK g \in [0..MaxRefinements -> [1..(Len(Orders) + 1) -> Seq(Seq(Nat))]] :
            /\ \A n \in 0..MaxRefinements, first \in 1..(Len(Orders) + 1) :
                  g[n][first] = IF n = 0 THEN << <<>> >> ELSE FlattenSeq(Lengthen(g, n, first))
            /\ Combos = << <<>> >> \o FlattenSeq([n \in 1..MaxRefinements |-> g[n][1]])
    BY CombosSteps
  <1>2. MaxRefinements \in Nat /\ 1 \in 1..(Len(Orders) + 1)
    BY SearchAssumption, OrdersAre
  <1> DEFINE Right(n) == \A first \in 1..(Len(Orders) + 1) : \A t : t \in Range(g[n][first]) <=> t \in TailsOf(n, first)
             K == {n \in Nat : n <= MaxRefinements => Right(n)}
  <1>3. 0 \in K
    <2>1. ASSUME NEW first \in 1..(Len(Orders) + 1) PROVE Range(g[0][first]) = {<<>>}
      <3>1. g[0][first] = << <<>> >>
        BY <1>1, <1>2
      <3>2. Range(<< <<>> >>) = {<<>>}
        BY DEF Range
      <3> QED
        BY <3>1, <3>2
    <2>2. Right(0)
      BY <2>1, TailsBegin
    <2> HIDE DEF Right
    <2> QED
      BY <2>2
  <1>4. ASSUME NEW m \in Nat, m \in K PROVE m + 1 \in K
    <2> SUFFICES ASSUME m + 1 <= MaxRefinements PROVE Right(m + 1)
      <3> HIDE DEF Right
      <3> QED
        OBVIOUS
    <2> DEFINE n == m + 1
    <2>1. n \in Nat /\ n > 0 /\ n \in 0..MaxRefinements /\ n - 1 = m /\ m \in 0..MaxRefinements /\ n # 0
      BY <1>2
    <2>2. Right(m)
      <3> HIDE DEF Right
      <3> QED
        BY <1>2, <1>4
    <2> HIDE DEF n
    <2>3. ASSUME NEW first \in 1..(Len(Orders) + 1), NEW t PROVE t \in Range(g[n][first]) <=> t \in TailsOf(n, first)
      <3>1. g[n][first] = FlattenSeq(Lengthen(g, n, first))
        BY <1>1, <2>1
      <3>2. g[n - 1] \in [1..(Len(Orders) + 1) -> Seq(Seq(Nat))]
        BY <1>1, <2>1
      <3>3. /\ Lengthen(g, n, first) \in Seq(Seq(Seq(Nat)))
            /\ \A x : (\E i \in 1..Len(Lengthen(g, n, first)) : x \in Range(Lengthen(g, n, first)[i])) <=>
                      Headed(x, g, n, first)
        BY <3>2, LengthenIs
      <3>4. t \in Range(g[n][first]) <=> Headed(t, g, n, first)
        BY <3>1, <3>3, FlattenIs
      <3>5. t \in TailsOf(n, first) <=> Lengthened(t, n, first)
        BY <2>1, TailsGrow
      <3>6. ASSUME NEW j \in first..Len(Orders) PROVE \A u : u \in Range(g[n - 1][j]) <=> u \in TailsOf(n - 1, j)
        <4>1. j \in 1..(Len(Orders) + 1)
          BY OrdersAre
        <4> QED
          BY <2>1, <2>2, <4>1
      <3> HIDE DEF Right
      <3> QED
        BY <3>4, <3>5, <3>6 DEF Headed, Lengthened
    <2>4. Right(n)
      BY <2>3
    <2> HIDE DEF Right
    <2> QED
      BY <2>4 DEF n
  <1>5. ASSUME NEW n \in 0..MaxRefinements PROVE Right(n)
    <2>1. n \in Nat /\ n <= MaxRefinements
      BY <1>2
    <2> HIDE DEF Right
    <2>2. Nat \subseteq K
      <3> HIDE DEF K
      <3> QED
        BY <1>3, <1>4, NatSetInduction
    <2> QED
      BY <2>1, <2>2
  <1> DEFINE rows == [n \in 1..MaxRefinements |-> g[n][1]]
  <1>6. \A n \in 1..MaxRefinements : n \in 0..MaxRefinements
    BY <1>2
  <1>7. rows \in Seq(Seq(Seq(Nat))) /\ Len(rows) = MaxRefinements /\ \A n \in 1..MaxRefinements : rows[n] = g[n][1]
    <2>1. \A n \in 1..MaxRefinements : g[n][1] \in Seq(Seq(Nat))
      BY <1>1, <1>2, <1>6
    <2> QED
      BY <1>2, <2>1
  <1> HIDE DEF rows
  <1>8. /\ FlattenSeq(rows) \in Seq(Seq(Nat))
        /\ \A t : t \in Range(FlattenSeq(rows)) <=> \E n \in 1..MaxRefinements : t \in Range(rows[n])
    BY <1>7, FlattenIs
  <1>9. << <<>> >> \in Seq(Seq(Nat)) /\ Range(<< <<>> >>) = {<<>>}
    BY DEF Range
  <1>10. Combos = << <<>> >> \o FlattenSeq(rows)
    BY <1>1 DEF rows
  <1>11. Combos \in Seq(Seq(Nat)) /\ Range(Combos) = {<<>>} \cup Range(FlattenSeq(rows))
    <2> DEFINE S == Seq(Nat)
               a == << <<>> >>
               b == FlattenSeq(rows)
    <2>1. a \in Seq(S) /\ b \in Seq(S)
      BY <1>8, <1>9
    <2>2. a \o b \in Seq(S) /\ Range(a \o b) = Range(a) \cup Range(b)
      <3> HIDE DEF a, b, S
      <3> QED
        BY <2>1, ConcatProperties, RangeConcatenation
    <2> QED
      BY <1>9, <1>10, <2>2
  <1>12. ASSUME NEW t PROVE t \in Range(Combos) <=> t \in TailSpace
    <2>1. t \in Range(Combos) <=> t = <<>> \/ \E n \in 1..MaxRefinements : t \in TailsOf(n, 1)
      <3>1. \A n \in 1..MaxRefinements : t \in Range(rows[n]) <=> t \in TailsOf(n, 1)
        BY <1>2, <1>5, <1>6, <1>7
      <3> HIDE DEF Right
      <3> QED
        BY <1>8, <1>11, <3>1
    <2>2. t = <<>> <=> t \in TailsOf(0, 1)
      BY <1>2, TailsBegin
    <2>3. \A n : n \in 0..MaxRefinements <=> n = 0 \/ n \in 1..MaxRefinements
      BY <1>2
    <2> HIDE DEF Right
    <2> QED
      BY <2>1, <2>2, <2>3 DEF TailSpace
  <1> HIDE DEF Right
  <1> QED
    BY <1>11, <1>12

Candidature == [combo : Seq(Nat), degrees : Seq(Nat)]
TailLists(cs) == cs \in Seq(Seq(Nat)) /\ Range(cs) \subseteq TailSpace

LEMMA DepthOfIs ==
    ASSUME NEW t \in Seq(0..255)
    PROVE  DepthOf(t) \in Nat /\ \A i \in 1..Len(t) : BucketDepth(t[i]) <= DepthOf(t)
  <1> DEFINE a == [i \in DOMAIN t |-> BucketDepth(t[i])]
  <1>1. a \in Seq(Nat) /\ Len(a) = Len(t) /\ \A i \in 1..Len(t) : a[i] = BucketDepth(t[i])
    BY DepthsAre
  <1>2. DepthOf(t) = SumOf(a)
    BY DEF DepthOf
  <1> HIDE DEF a
  <1>3. SumOf(a) \in Nat /\ \A i \in 1..Len(a) : a[i] <= SumOf(a)
    BY <1>1, SumOfNats
  <1> QED
    BY <1>1, <1>2, <1>3

LEMMA RefineDepthIs == \A t \in TailSpace : t \in Seq(Nat) /\ RefineDepth(t) \in Nat
  <1> SUFFICES ASSUME NEW n \in 0..MaxRefinements, NEW t \in TailsOf(n, 1)
               PROVE  t \in Seq(Nat) /\ RefineDepth(t) \in Nat
    BY DEF TailSpace
  <1>1. t \in Seq(From(1)) /\ 1 \in 1..(Len(Orders) + 1)
    BY OrdersAre DEF TailsOf
  <1>2. t \in Seq(Nat)
    BY <1>1, FromIs, SeqMonotonic
  <1>3. Len(t) \in Nat /\ DOMAIN t = 1..Len(t) /\ \A i \in 1..Len(t) : t[i] \in From(1)
    BY <1>1, LenProperties, ElementOfSeq
  <1> DEFINE u == [i \in DOMAIN t |-> 2 * t[i] + 1]
  <1>4. ASSUME NEW i \in 1..Len(t) PROVE 2 * t[i] + 1 \in 0..255
    <2>1. PICK j \in 1..Len(Orders) : t[i] = Orders[j]
      BY <1>3 DEF From
    <2> QED
      BY <2>1, OrdersAre
  <1>5. u \in Seq(0..255)
    <2>1. u = [i \in 1..Len(t) |-> 2 * t[i] + 1]
      BY <1>3
    <2>2. u \in [1..Len(t) -> 0..255]
      BY <1>4, <2>1, ZenonT(40)
    <2> DEFINE S == 0..255
               l == Len(t)
    <2>3. u \in [1..l -> S] /\ l \in Nat
      BY <1>3, <2>2
    <2>4. u \in Seq(S)
      <3> HIDE DEF u, S, l
      <3> QED
        BY <2>3, SeqDef
    <2> QED
      BY <2>4
  <1>6. RefineDepth(t) = DepthOf(u)
    BY DEF RefineDepth
  <1> HIDE DEF u
  <1> QED
    BY <1>2, <1>5, <1>6, DepthOfIs

\* What the two loops go through at a depth.
Charged(c, d, cs) ==
    /\ c \in Candidature /\ c.combo \in Range(cs)
    /\ d - RefineDepth(c.combo) >= 3 /\ c.degrees \in Lists(d - RefineDepth(c.combo), 3)

\* The candidates with one tail.
Tailed(d, tail) ==
    LET left == d - RefineDepth(tail)
        lists == IF StageFits(left) THEN DegreeLists[left] ELSE <<>>
    IN  [i \in DOMAIN lists |-> [combo |-> tail, degrees |-> lists[i]]]

LEMMA TailedAre ==
    ASSUME NEW d \in Nat, d <= 2 \/ d <= MaxTotalDepth, NEW tail \in TailSpace
    PROVE  /\ Tailed(d, tail) \in Seq(Candidature)
           /\ \A c : c \in Range(Tailed(d, tail)) <=>
                     /\ c \in Candidature /\ c.combo = tail
                     /\ d - RefineDepth(tail) >= 3 /\ c.degrees \in Lists(d - RefineDepth(tail), 3)
  <1> DEFINE left == d - RefineDepth(tail)
             lists == IF left >= 3 THEN DegreeLists[left] ELSE <<>>
  <1>1. tail \in Seq(Nat) /\ RefineDepth(tail) \in Nat
    BY RefineDepthIs
  <1>2. left \in Int /\ (left >= 3 => left \in 0..MaxTotalDepth)
    BY <1>1, SearchAssumption
  <1>3. lists \in Seq(Seq(Nat)) /\ \A u : u \in Range(lists) <=> left >= 3 /\ u \in Lists(left, 3)
    <2> HIDE DEF left
    <2>1. CASE left >= 3
      BY <1>2, <2>1, DegreeListsAre
    <2>2. CASE ~(left >= 3)
      <3>1. lists = <<>> /\ <<>> \in Seq(Seq(Nat)) /\ Range(<<>>) = {}
        BY <2>2 DEF Range
      <3> QED
        BY <2>2, <3>1
    <2> QED
      BY <2>1, <2>2
  <1>4. Tailed(d, tail) = [i \in DOMAIN lists |-> [combo |-> tail, degrees |-> lists[i]]]
    BY DEF Tailed, StageFits
  <1> HIDE DEF lists
  <1>5. Len(lists) \in Nat /\ DOMAIN lists = 1..Len(lists) /\ \A i \in 1..Len(lists) : lists[i] \in Seq(Nat)
    BY <1>3, LenProperties, ElementOfSeq
  <1>6. \A i \in 1..Len(lists) : [combo |-> tail, degrees |-> lists[i]] \in Candidature
    BY <1>1, <1>5 DEF Candidature
  <1>7. Tailed(d, tail) = [i \in 1..Len(lists) |-> [combo |-> tail, degrees |-> lists[i]]]
    BY <1>4, <1>5
  <1>8. Tailed(d, tail) \in Seq(Candidature)
    BY <1>5, <1>6, <1>7
  <1>9. \A c : c \in Range(Tailed(d, tail)) <=> \E i \in 1..Len(lists) : c = [combo |-> tail, degrees |-> lists[i]]
    BY <1>7 DEF Range
  <1>10. \A u : u \in Range(lists) <=> \E i \in 1..Len(lists) : u = lists[i]
    BY <1>5 DEF Range
  <1>11. ASSUME NEW c, c \in Range(Tailed(d, tail))
         PROVE  c \in Candidature /\ c.combo = tail /\ left >= 3 /\ c.degrees \in Lists(left, 3)
    <2>1. PICK i \in 1..Len(lists) : c = [combo |-> tail, degrees |-> lists[i]]
      BY <1>9, <1>11
    <2>2. c.combo = tail /\ c.degrees = lists[i]
      BY <2>1
    <2>3. c.degrees \in Range(lists)
      BY <1>10, <2>2
    <2> HIDE DEF left
    <2> QED
      BY <1>3, <1>6, <2>1, <2>2, <2>3
  <1>12. ASSUME NEW c \in Candidature, c.combo = tail, left >= 3, c.degrees \in Lists(left, 3)
         PROVE  c \in Range(Tailed(d, tail))
    <2> HIDE DEF left
    <2>1. PICK i \in 1..Len(lists) : c.degrees = lists[i]
      BY <1>3, <1>10, <1>12
    <2>2. c = [combo |-> tail, degrees |-> lists[i]]
      BY <1>12, <2>1 DEF Candidature
    <2> QED
      BY <1>9, <2>2
  <1> QED
    BY <1>8, <1>11, <1>12

LEMMA CandidatesAre ==
    ASSUME NEW d \in Nat, d <= 2 \/ d <= MaxTotalDepth, NEW cs, TailLists(cs)
    PROVE  /\ Candidates(d, cs) \in Seq(Candidature)
           /\ \A c : c \in Range(Candidates(d, cs)) <=> Charged(c, d, cs)
  <1>1. cs \in Seq(Seq(Nat)) /\ Range(cs) \subseteq TailSpace
    BY DEF TailLists
  <1>2. Len(cs) \in Nat /\ DOMAIN cs = 1..Len(cs) /\ \A k \in 1..Len(cs) : cs[k] \in TailSpace
    BY <1>1, LenProperties DEF Range
  <1>2a. \A tail : tail \in Range(cs) <=> \E k \in 1..Len(cs) : tail = cs[k]
    BY <1>2 DEF Range
  <1> DEFINE rows == [k \in 1..Len(cs) |-> Tailed(d, cs[k])]
  <1>3. Candidates(d, cs) = FlattenSeq(rows)
    BY <1>2 DEF Candidates, Tailed
  <1>4. rows \in Seq(Seq(Candidature)) /\ Len(rows) = Len(cs) /\ \A k \in 1..Len(cs) : rows[k] = Tailed(d, cs[k])
    <2>1. \A k \in 1..Len(cs) : Tailed(d, cs[k]) \in Seq(Candidature)
      BY <1>2, TailedAre
    <2> QED
      BY <1>2, <2>1
  <1> HIDE DEF rows
  <1>5. /\ FlattenSeq(rows) \in Seq(Candidature)
        /\ \A c : c \in Range(FlattenSeq(rows)) <=> \E k \in 1..Len(cs) : c \in Range(Tailed(d, cs[k]))
    BY <1>4, FlattenIs
  <1>6. ASSUME NEW c PROVE (\E k \in 1..Len(cs) : c \in Range(Tailed(d, cs[k]))) <=> Charged(c, d, cs)
    <2>1. \A k \in 1..Len(cs) : c \in Range(Tailed(d, cs[k])) <=>
              /\ c \in Candidature /\ c.combo = cs[k]
              /\ d - RefineDepth(cs[k]) >= 3 /\ c.degrees \in Lists(d - RefineDepth(cs[k]), 3)
      BY <1>2, TailedAre
    <2> QED
      BY <1>2a, <2>1 DEF Charged
  <1> QED
    BY <1>3, <1>5, <1>6

LEMMA ChargedDepth ==
    ASSUME NEW d \in Nat, NEW cs, TailLists(cs), NEW c, Charged(c, d, cs)
    PROVE  Depth(c) = d /\ c \in Candidature
  <1>1. c.combo \in TailSpace /\ c.degrees \in Lists(d - RefineDepth(c.combo), 3)
    BY DEF Charged, TailLists
  <1>2. RefineDepth(c.combo) \in Nat /\ DepthOf(c.degrees) = d - RefineDepth(c.combo)
    BY <1>1, RefineDepthIs DEF Lists
  <1>3. Depth(c) = DepthOf(c.degrees) + RefineDepth(c.combo)
    BY DEF Depth
  <1> QED
    BY <1>2, <1>3 DEF Charged

\* Every composite there is comes up at its depth.
LEMMA SpaceIsCharged ==
    ASSUME NEW c \in Space, NEW cs, TailLists(cs), c.combo \in Range(cs)
    PROVE  Depth(c) \in Nat /\ Depth(c) <= MaxTotalDepth /\ Charged(c, Depth(c), cs)
  <1>1. /\ \E n \in 1..(MaxTotalDepth \div 3) : c.degrees \in NonDecreasing(Degrees, n)
        /\ c = [combo |-> c.combo, degrees |-> c.degrees] /\ Depth(c) <= MaxTotalDepth
    <2>1. Degrees = {DegreeOf[d] : d \in DOMAIN DegreeOf}
      BY DEF Degrees, DegreeOf
    <2> QED
      BY <2>1 DEF Space
  <1>2. PICK n \in Nat : n > 0 /\ c.degrees \in NonDecreasing(Degrees, n)
    <2>1. MaxTotalDepth \div 3 \in Int
      BY SearchAssumption
    <2>2. \A k \in 1..(MaxTotalDepth \div 3) : k \in Nat /\ k > 0
      BY <2>1
    <2> QED
      BY <1>1, <2>2
  <1> DEFINE t == c.degrees
  <1>3. t \in [1..n -> Degrees] /\ \A i, j \in 1..n : i <= j => t[i] <= t[j]
    BY <1>2 DEF NonDecreasing
  <1> HIDE DEF t
  <1>4. t \in Seq(Degrees) /\ Len(t) = n /\ t \in Seq(0..255) /\ t \in Seq(Nat)
    <2>1. t \in Seq(Degrees) /\ Len(t) = n
      BY <1>2, <1>3
    <2> QED
      BY <2>1, DegreesSmall
  <1>5. DepthOf(t) \in Nat /\ DepthOf(t) >= 3
    <2>1. 1 \in 1..Len(t)
      BY <1>2, <1>4
    <2>2. t[1] \in 0..255
      BY <1>4, <2>1, ElementOfSeq
    <2>3. BucketDepth(t[1]) \in 3..8
      BY <2>2, DegreesAre
    <2>4. DepthOf(t) \in Nat /\ BucketDepth(t[1]) <= DepthOf(t)
      BY <1>4, <2>1, DepthOfIs
    <2> QED
      BY <2>3, <2>4
  <1>6. t \in Lists(DepthOf(t), 3)
    <2>1. \A i \in 1..Len(t) : DegreeOf[3] <= t[i]
      <3> SUFFICES ASSUME NEW i \in 1..Len(t) PROVE DegreeOf[3] <= t[i]
        OBVIOUS
      <3>1. PICK d \in 3..8 : t[i] = DegreeOf[d]
        BY <1>3, <1>4 DEF Degrees
      <3>2. 3 <= d /\ 3 \in 3..8
        OBVIOUS
      <3> QED
        BY <3>1, <3>2, DegreesAre
    <2> QED
      BY <1>3, <1>4, <2>1 DEF Lists
  <1>7. c.combo \in TailSpace
    BY DEF TailLists
  <1>8. c.combo \in Seq(Nat) /\ RefineDepth(c.combo) \in Nat
    BY <1>7, RefineDepthIs
  <1>9. Depth(c) = DepthOf(t) + RefineDepth(c.combo)
    BY DEF Depth, t
  <1>10. Depth(c) \in Nat /\ Depth(c) - RefineDepth(c.combo) = DepthOf(t)
    BY <1>5, <1>8, <1>9
  <1>11. c \in Candidature
    <2>1. c.degrees \in Seq(Nat)
      BY <1>4 DEF t
    <2>2. [combo |-> c.combo, degrees |-> c.degrees] \in Candidature
      BY <1>8, <2>1 DEF Candidature
    <2> QED
      BY <1>1, <2>2
  <1>12. Charged(c, Depth(c), cs)
    <2>1. Depth(c) - RefineDepth(c.combo) >= 3
      BY <1>5, <1>10
    <2>2. t = c.degrees
      BY DEF t
    <2> QED
      BY <1>6, <1>10, <1>11, <2>1, <2>2 DEF Charged
  <1> QED
    BY <1>1, <1>10, <1>12

-----------------------------------------------------------------------------
(* The search for a sign composite *)

Rejected(c) == c.degrees \in DOMAIN bits /\ ~Passes(c)
Qualified(c) == c.degrees \in DOMAIN bits /\ Passes(c)

\* Below the depth everything was rejected, and so was at the depth all that
\* neither waits nor passed.
Underway ==
    /\ combos \in {<< <<>> >>, Combos}
    /\ depth \in Nat /\ (depth = 2 \/ (depth > 2 /\ depth <= MaxTotalDepth))
    /\ queue \in Seq(Candidature) /\ \A i \in 1..Len(queue) : Charged(queue[i], depth, combos)
    /\ passing \in Seq(Candidature)
    /\ \A i \in 1..Len(passing) : Charged(passing[i], depth, combos) /\ Qualified(passing[i])
    /\ \A d \in Nat, c \in Candidature : d < depth /\ Charged(c, d, combos) => Rejected(c)
    /\ \A c \in Candidature : Charged(c, depth, combos) =>
           Rejected(c) \/ c \in Range(queue) \/ c \in Range(passing)

Concluded ==
    found # Nothing =>
        /\ queue = <<>>
        /\ found = Unreachable => passing = <<>> /\ depth >= MaxTotalDepth
        /\ found # Unreachable =>
               found \in Range(passing) /\ \A i \in 1..Len(passing) : ~Better(passing[i], found)

SearchInv ==
    /\ accuracy \in Nat \cup {Nothing}
    /\ \A t \in DOMAIN bits : bits[t] \in Nat \cup {Nothing}
    /\ accuracy = Nothing => queue = <<>> /\ passing = <<>> /\ found = Nothing
    /\ accuracy # Nothing => Underway /\ Concluded

LEMMA TailsGiven == \A cs \in {<< <<>> >>, Combos} : TailLists(cs) /\ <<>> \in Range(cs)
  <1>1. <<>> \in TailSpace
    <2>1. 0 \in 0..MaxRefinements /\ 1 \in 1..(Len(Orders) + 1)
      BY SearchAssumption, OrdersAre
    <2> QED
      BY <2>1, TailsBegin DEF TailSpace
  <1>2. << <<>> >> \in Seq(Seq(Nat)) /\ Range(<< <<>> >>) = {<<>>}
    BY DEF Range
  <1> QED
    BY <1>1, <1>2, CombosAre DEF TailLists

LEMMA NothingShallow ==
    ASSUME NEW cs, TailLists(cs), NEW d \in Nat, d <= 2, NEW c PROVE ~Charged(c, d, cs)
  <1> SUFFICES ASSUME Charged(c, d, cs) PROVE FALSE
    OBVIOUS
  <1>1. c.combo \in TailSpace /\ d - RefineDepth(c.combo) >= 3
    BY DEF Charged, TailLists
  <1>2. RefineDepth(c.combo) \in Nat
    BY <1>1, RefineDepthIs
  <1> QED
    BY <1>1, <1>2

\* The first of the best among those that passed.
LEMMA BestExists ==
    ASSUME SearchInv, accuracy # Nothing, passing # <<>>
    PROVE  \E i \in DOMAIN passing : \A j \in DOMAIN passing :
               ~Better(passing[j], passing[i]) /\ (j < i => Better(passing[i], passing[j]))
  <1> DEFINE n == Len(passing)
             few == [i \in 1..n |-> -Polynomials(passing[i])]
             far == [i \in 1..n |-> Accuracy(passing[i])]
  <1>1. passing \in Seq(Candidature) /\ \A i \in 1..n : Qualified(passing[i])
    BY DEF SearchInv, Underway
  <1>2. n \in Nat /\ n > 0 /\ DOMAIN passing = 1..n /\ \A i \in 1..n : passing[i] \in Candidature
    BY <1>1, LenProperties, ElementOfSeq, EmptySeq
  <1>3. ASSUME NEW i \in 1..n PROVE Polynomials(passing[i]) \in Int /\ Accuracy(passing[i]) \in Int
    <2>1. passing[i].combo \in Seq(Nat) /\ passing[i].degrees \in Seq(Nat)
      BY <1>2 DEF Candidature
    <2>2. Len(passing[i].combo) \in Nat /\ Len(passing[i].degrees) \in Nat
      BY <2>1, LenProperties
    <2>3. RefineFactor(passing[i].combo) \in Nat
      BY <2>1, FactorIs
    <2>4. bits[passing[i].degrees] \in Nat
      BY <1>1 DEF Qualified, Passes, SearchInv
    <2>5. \A x, y \in Nat : x * y \in Int
      OBVIOUS
    <2> QED
      BY <2>2, <2>3, <2>4, <2>5 DEF Polynomials, Accuracy
  <1>4. few \in [1..n -> Int] /\ far \in [1..n -> Int]
    BY <1>3
  <1>5. PICK a \in 1..n : \A j \in 1..n : few[j] < few[a] \/ (few[j] = few[a] /\ a <= j)
    <2>1. (1..n) \in SUBSET (1..n) /\ (1..n) # {}
      BY <1>2
    <2> HIDE DEF n, few
    <2> QED
      BY <1>2, <1>4, <2>1, FirstLargest
  <1> DEFINE equals == {j \in 1..n : few[j] = few[a]}
  <1>6. PICK b \in equals : \A j \in equals : far[j] < far[b] \/ (far[j] = far[b] /\ b <= j)
    <2>1. equals \in SUBSET (1..n) /\ equals # {}
      OBVIOUS
    <2> HIDE DEF n, far, equals
    <2> QED
      BY <1>2, <1>4, <2>1, FirstLargest
  <1>7. b \in 1..n /\ few[b] = few[a]
    OBVIOUS
  <1>8. ASSUME NEW j \in 1..n
        PROVE  ~Better(passing[j], passing[b]) /\ (j < b => Better(passing[b], passing[j]))
    <2> DEFINE p == Polynomials(passing[j])
               q == Polynomials(passing[b])
               x == Accuracy(passing[j])
               y == Accuracy(passing[b])
    <2>1. p \in Int /\ q \in Int /\ x \in Int /\ y \in Int
      BY <1>3, <1>7
    <2>2. few[j] = -p /\ few[b] = -q /\ far[j] = x /\ far[b] = y
      BY <1>7
    <2>3. j \in Int /\ b \in Int
      BY <1>2, <1>7
    <2>4. few[j] < few[b] \/ (few[j] = few[b] /\ (x < y \/ (x = y /\ b <= j)))
      <3>1. CASE few[j] = few[a]
        <4>1. j \in equals
          BY <3>1
        <4> HIDE DEF equals, few, far, p, q, x, y
        <4> QED
          BY <1>6, <1>7, <2>2, <3>1, <4>1
      <3>2. CASE few[j] # few[a]
        <4> HIDE DEF equals, few, far, p, q, x, y
        <4> QED
          BY <1>5, <1>7, <3>2
      <3> QED
        BY <3>1, <3>2
    <2>5. Better(passing[j], passing[b]) <=> p < q \/ (p = q /\ x > y)
      BY DEF Better
    <2>6. Better(passing[b], passing[j]) <=> q < p \/ (q = p /\ y > x)
      BY DEF Better
    <2> HIDE DEF few, far, equals, p, q, x, y
    <2> QED
      BY <2>1, <2>2, <2>3, <2>4, <2>5, <2>6
  <1> QED
    BY <1>2, <1>7, <1>8

LEMMA CallSearches == ASSUME SearchInv, CallSign PROVE SearchInv'
  <1>1. /\ accuracy = Nothing /\ accuracy' \in Nat /\ accuracy' # Nothing
        /\ combos' \in {<< <<>> >>, Combos} /\ depth' = 2
        /\ queue' = <<>> /\ passing' = <<>> /\ found' = Nothing /\ bits' = bits
    BY SearchAssumption DEF CallSign, SearchInv
  <1>2. TailLists(combos')
    BY <1>1, TailsGiven
  <1>3. \A d \in Nat : \A c : d <= 2 => ~Charged(c, d, combos')
    BY <1>2, NothingShallow
  <1>4. <<>> \in Seq(Candidature) /\ Len(<<>>) = 0 /\ \A i \in 1..0 : FALSE
    BY EmptySeq
  <1>5. Underway'
    <2>1. \A d \in Nat : d < 2 => d <= 2
      OBVIOUS
    <2>2. 2 \in Nat /\ 2 <= 2
      OBVIOUS
    <2> QED
      BY <1>1, <1>3, <1>4, <2>1, <2>2 DEF Underway
  <1>6. Concluded'
    BY <1>1 DEF Concluded
  <1> QED
    BY <1>1, <1>5, <1>6 DEF SearchInv

\* What is known of a degree list stays.
LEMMA KnownStays ==
    ASSUME UNCHANGED accuracy, DOMAIN bits \subseteq DOMAIN bits',
           \A t \in DOMAIN bits : bits'[t] = bits[t]
    PROVE  \A c : (Rejected(c) => Rejected(c)') /\ (Qualified(c) => Qualified(c)')
  BY DEF Rejected, Qualified, Passes, Accuracy

LEMMA MeasureSearches == ASSUME SearchInv, Measure PROVE SearchInv'
  <1>1. /\ UNCHANGED <<accuracy, combos, depth, queue, passing, found>>
        /\ found = Nothing /\ queue # <<>>
        /\ \E b \in Nat \cup {Nothing} : bits' = Keep(bits, Candidate.degrees, b)
        /\ Candidate.degrees \notin DOMAIN bits
    BY SearchAssumption DEF Measure, Searching
  <1>2. PICK b \in Nat \cup {Nothing} : bits' = Keep(bits, Candidate.degrees, b)
    BY <1>1
  <1>3. DOMAIN bits \subseteq DOMAIN bits' /\ \A t \in DOMAIN bits : bits'[t] = bits[t]
    BY <1>1, <1>2 DEF Keep
  <1>4. \A t \in DOMAIN bits' : bits'[t] \in Nat \cup {Nothing}
    BY <1>2 DEF Keep, SearchInv
  <1>5. \A c : (Rejected(c) => Rejected(c)') /\ (Qualified(c) => Qualified(c)')
    BY <1>1, <1>3, KnownStays
  <1>6. accuracy # Nothing /\ Underway
    BY <1>1 DEF SearchInv
  <1>7. Underway'
    BY <1>1, <1>5, <1>6 DEF Underway
  <1>8. Concluded'
    BY <1>1 DEF Concluded
  <1> QED
    BY <1>1, <1>4, <1>6, <1>7, <1>8 DEF SearchInv

LEMMA JudgeSearches == ASSUME SearchInv, Judge PROVE SearchInv'
  <1>1. /\ UNCHANGED <<accuracy, combos, depth, bits, found>>
        /\ found = Nothing /\ queue # <<>> /\ queue' = Tail(queue)
        /\ passing' = IF Passes(Candidate) THEN Append(passing, Candidate) ELSE passing
        /\ Candidate.degrees \in DOMAIN bits
    BY DEF Judge, Searching
  <1>2. accuracy # Nothing /\ Underway
    BY <1>1 DEF SearchInv
  <1>3. queue \in Seq(Candidature) /\ \A i \in 1..Len(queue) : Charged(queue[i], depth, combos)
    BY <1>2 DEF Underway
  <1>4. /\ passing \in Seq(Candidature)
        /\ \A i \in 1..Len(passing) : Charged(passing[i], depth, combos) /\ Qualified(passing[i])
    BY <1>2 DEF Underway
  <1>5. Len(queue) \in Nat /\ 1 \in 1..Len(queue) /\ Candidate \in Candidature /\ Charged(Candidate, depth, combos)
    <2>1. Len(queue) \in Nat \ {0}
      BY <1>1, <1>3, EmptySeq
    <2>2. 1 \in 1..Len(queue)
      BY <2>1
    <2> QED
      BY <1>3, <2>1, <2>2, ElementOfSeq DEF Candidate
  <1>6. queue' \in Seq(Candidature) /\ Len(queue') = Len(queue) - 1 /\ \A i \in 1..Len(queue') : queue'[i] = queue[i + 1]
    BY <1>1, <1>3, HeadTailProperties
  <1>7. \A i \in 1..Len(queue') : Charged(queue'[i], depth, combos)
    <2>1. \A i \in 1..Len(queue') : i + 1 \in 1..Len(queue)
      BY <1>5, <1>6
    <2> QED
      BY <1>3, <1>6, <2>1
  <1>8. \A c : c \in Range(queue) => c = Candidate \/ c \in Range(queue')
    <2>1. DOMAIN queue = 1..Len(queue) /\ DOMAIN queue' = 1..Len(queue')
      BY <1>3, <1>6, LenProperties
    <2>2. \A i \in 1..Len(queue) : i = 1 \/ (i - 1 \in 1..Len(queue') /\ (i - 1) + 1 = i)
      BY <1>5, <1>6
    <2>3. \A i \in 1..Len(queue) : queue[i] = Candidate \/ \E k \in 1..Len(queue') : queue[i] = queue'[k]
      BY <1>6, <2>2 DEF Candidate
    <2> QED
      BY <2>1, <2>3 DEF Range
  <1>9. /\ passing' \in Seq(Candidature)
        /\ \A i \in 1..Len(passing') : Charged(passing'[i], depth, combos) /\ Qualified(passing'[i])
        /\ \A c : c \in Range(passing) => c \in Range(passing')
        /\ Passes(Candidate) => Candidate \in Range(passing')
    <2>1. CASE ~Passes(Candidate)
      BY <1>1, <1>4, <2>1
    <2>2. CASE Passes(Candidate)
      <3>1. passing' = Append(passing, Candidate)
        BY <1>1, <2>2
      <3>2. Len(passing) \in Nat
        BY <1>4, LenProperties
      <3>3. /\ passing' \in Seq(Candidature) /\ Len(passing') = Len(passing) + 1
            /\ \A i \in 1..Len(passing) : passing'[i] = passing[i]
            /\ passing'[Len(passing) + 1] = Candidate
        BY <1>4, <1>5, <3>1, AppendProperties
      <3>4. DOMAIN passing = 1..Len(passing) /\ DOMAIN passing' = 1..(Len(passing) + 1)
        BY <1>4, <3>3, LenProperties
      <3>5. /\ \A i \in 1..(Len(passing) + 1) : i \in 1..Len(passing) \/ i = Len(passing) + 1
            /\ \A i \in 1..Len(passing) : i \in 1..(Len(passing) + 1)
            /\ Len(passing) + 1 \in 1..(Len(passing) + 1)
        BY <3>2
      <3>6. Qualified(Candidate)
        BY <1>1, <2>2 DEF Qualified
      <3>7. \A i \in 1..Len(passing') : Charged(passing'[i], depth, combos) /\ Qualified(passing'[i])
        BY <1>4, <1>5, <3>3, <3>5, <3>6
      <3>8. \A c : c \in Range(passing) => c \in Range(passing')
        BY <3>3, <3>4, <3>5 DEF Range
      <3>9. Candidate \in Range(passing')
        BY <3>3, <3>4, <3>5 DEF Range
      <3> QED
        BY <3>3, <3>7, <3>8, <3>9
    <2> QED
      BY <2>1, <2>2
  <1>10. \A c : (Rejected(c) <=> Rejected(c)') /\ (Qualified(c) <=> Qualified(c)')
    BY <1>1 DEF Rejected, Qualified, Passes, Accuracy
  <1>11. \A c \in Candidature : Charged(c, depth, combos) => Rejected(c) \/ c \in Range(queue') \/ c \in Range(passing')
    <2>1. ~Passes(Candidate) => Rejected(Candidate)
      BY <1>1 DEF Rejected
    <2>2. \A c \in Candidature : Charged(c, depth, combos) => Rejected(c) \/ c \in Range(queue) \/ c \in Range(passing)
      BY <1>2 DEF Underway
    <2> QED
      BY <1>8, <1>9, <2>1, <2>2
  <1>12. Underway'
    <2>1. /\ combos \in {<< <<>> >>, Combos}
          /\ depth \in Nat /\ (depth = 2 \/ (depth > 2 /\ depth <= MaxTotalDepth))
          /\ \A d \in Nat, c \in Candidature : d < depth /\ Charged(c, d, combos) => Rejected(c)
      BY <1>2 DEF Underway
    <2> QED
      BY <1>1, <1>6, <1>7, <1>9, <1>10, <1>11, <2>1 DEF Underway
  <1>13. Concluded'
    BY <1>1 DEF Concluded
  <1> QED
    BY <1>1, <1>2, <1>12, <1>13 DEF SearchInv

LEMMA ChooseSearches == ASSUME SearchInv, Choose PROVE SearchInv'
  <1>1. /\ UNCHANGED <<accuracy, combos, depth, queue, bits, passing>>
        /\ queue = <<>> /\ passing # <<>> /\ found' = Chosen
    BY DEF Choose
  <1>2. accuracy # Nothing /\ Underway
    BY <1>1 DEF SearchInv
  <1>3. passing \in Seq(Candidature)
    BY <1>2 DEF Underway
  <1>4. DOMAIN passing = 1..Len(passing)
    BY <1>3, LenProperties
  <1> DEFINE BestOne(i) == \A j \in DOMAIN passing : ~Better(passing[j], passing[i]) /\ (j < i => Better(passing[i], passing[j]))
             i == CHOOSE i \in DOMAIN passing : BestOne(i)
  <1>5. i \in DOMAIN passing /\ BestOne(i)
    <2>1. \E x \in DOMAIN passing : BestOne(x)
      BY <1>1, <1>2, BestExists
    <2> HIDE DEF BestOne
    <2> QED
      BY <2>1
  <1>6. found' = passing[i]
    BY <1>1 DEF Chosen
  <1> HIDE DEF i
  <1>7. found' \in Candidature /\ found' \in Range(passing)
    BY <1>3, <1>4, <1>5, <1>6, ElementOfSeq DEF Range
  <1>8. found' # Unreachable
    BY <1>7, SearchAssumption DEF Candidature
  <1>9. \A k \in 1..Len(passing) : ~Better(passing[k], found')
    BY <1>4, <1>5, <1>6
  <1>10. Concluded'
    <2>1. \A c, e : Better(c, e)' <=> IF TRUE THEN Better(c, e) ELSE FALSE
      BY <1>1 DEF Better, Accuracy, Polynomials
    <2> QED
      BY <1>1, <1>7, <1>8, <1>9, <2>1 DEF Concluded
  <1>11. Underway'
    BY <1>1, <1>2 DEF Underway, Rejected, Qualified, Passes, Accuracy
  <1> QED
    BY <1>1, <1>2, <1>10, <1>11 DEF SearchInv

LEMMA DeeperSearches == ASSUME SearchInv, Deeper PROVE SearchInv'
  <1>1. /\ UNCHANGED <<accuracy, combos, bits, passing>>
        /\ accuracy # Nothing /\ found = Nothing /\ queue = <<>> /\ passing = <<>>
        /\ IF depth < MaxTotalDepth
           THEN depth' = depth + 1 /\ queue' = Candidates(depth + 1, combos) /\ UNCHANGED found
           ELSE found' = Unreachable /\ UNCHANGED <<depth, queue>>
    BY DEF Deeper
  <1>2. Underway
    BY <1>1 DEF SearchInv
  <1>3. /\ combos \in {<< <<>> >>, Combos}
        /\ depth \in Nat /\ (depth = 2 \/ (depth > 2 /\ depth <= MaxTotalDepth))
        /\ \A d \in Nat, c \in Candidature : d < depth /\ Charged(c, d, combos) => Rejected(c)
    BY <1>2 DEF Underway
  <1>4. \A c \in Candidature : Charged(c, depth, combos) => Rejected(c)
    <2>1. Range(<<>>) = {}
      BY DEF Range
    <2> QED
      BY <1>1, <1>2, <2>1 DEF Underway
  <1>5. \A c : Rejected(c) <=> Rejected(c)'
    BY <1>1 DEF Rejected, Passes, Accuracy
  <1>6. MaxTotalDepth \in Nat
    BY SearchAssumption
  <1>7. CASE depth < MaxTotalDepth
    <2>1. depth' = depth + 1 /\ queue' = Candidates(depth + 1, combos) /\ found' = Nothing
      BY <1>1, <1>7
    <2>2. depth' \in Nat /\ depth' > 2 /\ depth' <= MaxTotalDepth
      BY <1>3, <1>6, <1>7, <2>1
    <2>3. TailLists(combos)
      BY <1>3, TailsGiven
    <2>4. /\ Candidates(depth + 1, combos) \in Seq(Candidature)
          /\ \A c : c \in Range(Candidates(depth + 1, combos)) <=> Charged(c, depth + 1, combos)
      BY <2>1, <2>2, <2>3, CandidatesAre
    <2>5. queue' \in Seq(Candidature) /\ \A c : c \in Range(queue') <=> Charged(c, depth', combos)
      BY <2>1, <2>4
    <2>6. \A i \in 1..Len(queue') : Charged(queue'[i], depth', combos)
      <3>1. \A i \in 1..Len(queue') : queue'[i] \in Range(queue')
        BY <2>5, LenProperties DEF Range
      <3> QED
        BY <2>5, <3>1
    <2>7. \A d \in Nat, c \in Candidature : d < depth' /\ Charged(c, d, combos) => Rejected(c)
      <3>1. \A d \in Nat : d < depth' => d < depth \/ d = depth
        BY <1>3, <2>1
      <3> QED
        BY <1>3, <1>4, <3>1
    <2>8. <<>> \in Seq(Candidature) /\ Len(<<>>) = 0 /\ \A i \in 1..0 : FALSE
      BY EmptySeq
    <2>9. Underway'
      BY <1>1, <1>3, <1>5, <2>2, <2>5, <2>6, <2>7, <2>8 DEF Underway
    <2>10. Concluded'
      BY <2>1 DEF Concluded
    <2> QED
      BY <1>1, <2>9, <2>10 DEF SearchInv
  <1>8. CASE ~(depth < MaxTotalDepth)
    <2>1. found' = Unreachable /\ depth' = depth /\ queue' = queue
      BY <1>1, <1>8
    <2>2. depth >= MaxTotalDepth
      BY <1>3, <1>6, <1>8
    <2>3. Underway'
      BY <1>1, <1>2, <2>1 DEF Underway, Rejected, Qualified, Passes, Accuracy
    <2>4. Concluded'
      BY <1>1, <2>1, <2>2 DEF Concluded
    <2> QED
      BY <1>1, <2>3, <2>4 DEF SearchInv
  <1> QED
    BY <1>7, <1>8

LEMMA SearchStep == ASSUME SearchInv, [AllNext]_allVars PROVE SearchInv'
  <1>1. CASE CallSign
    BY <1>1, CallSearches
  <1>2. CASE FitStage
    BY <1>2 DEF FitStage, SearchInv, Underway, Concluded, Rejected, Qualified, Passes, Accuracy, Better, Polynomials
  <1>3. CASE Measure
    BY <1>3, MeasureSearches
  <1>4. CASE Judge
    BY <1>4, JudgeSearches
  <1>5. CASE Choose
    BY <1>5, ChooseSearches
  <1>6. CASE Deeper
    BY <1>6, DeeperSearches
  <1>7. CASE TakeComposite
    BY <1>7 DEF TakeComposite, SearchInv
  <1>8. CASE UNCHANGED searchVars
    BY <1>8 DEF searchVars, SearchInv, Underway, Concluded, Rejected, Qualified, Passes, Accuracy, Better, Polynomials
  <1>9. SearchNext \/ UNCHANGED searchVars
    BY DEF AllNext, Fitting, SearchingSign, allVars
  <1> QED
    BY <1>1, <1>2, <1>3, <1>4, <1>5, <1>6, <1>7, <1>8, <1>9 DEF SearchNext

LEMMA SearchBegins == AllInit => SearchInv
  BY DEF AllInit, SearchInit, SearchInv

LEMMA SearchInvariant == AllSpec => []SearchInv
  <1> QED
    BY SearchBegins, SearchStep, PTL DEF AllSpec

LEMMA SearchFindsBest == ASSUME SearchInv PROVE SmallestDepth
  <1>1. SUFFICES ASSUME found # Nothing PROVE SmallestDepth
    BY SearchAssumption DEF SmallestDepth
  <1>2. accuracy # Nothing /\ Underway /\ Concluded
    BY <1>1 DEF SearchInv
  <1>3. /\ combos \in {<< <<>> >>, Combos} /\ depth \in Nat
        /\ \A d \in Nat, c \in Candidature : d < depth /\ Charged(c, d, combos) => Rejected(c)
        /\ \A c \in Candidature : Charged(c, depth, combos) => Rejected(c) \/ c \in Range(queue) \/ c \in Range(passing)
    BY <1>2 DEF Underway
  <1>4. TailLists(combos) /\ <<>> \in Range(combos)
    BY <1>3, TailsGiven
  <1>5. queue = <<>> /\ Range(<<>>) = {}
    BY <1>1, <1>2 DEF Concluded, Range
  <1>6. ASSUME NEW d, NEW c \in Within(d)
        PROVE  /\ c \in Candidature /\ Depth(c) \in Nat /\ Depth(c) <= MaxTotalDepth /\ Depth(c) <= d
               /\ Charged(c, Depth(c), combos)
    <2>1. c \in Space /\ Depth(c) <= d /\ (c.combo = <<>> \/ Len(combos) > 1)
      BY DEF Within
    <2>2. c.combo \in Range(combos)
      <3>1. CASE Len(combos) > 1
        <4>1. Len(<< <<>> >>) = 1
          OBVIOUS
        <4>2. combos = Combos
          <5>1. SUFFICES ASSUME combos = << <<>> >> PROVE FALSE
            BY <1>3
          <5>2. Len(combos) = 1
            BY <4>1, <5>1
          <5> QED
            BY <3>1, <5>2
        <4>3. c.combo \in TailSpace
          <5>1. PICK n \in 0..MaxRefinements : c.combo \in NonDecreasing({Orders[i] : i \in DOMAIN Orders}, n)
            BY <2>1 DEF Space
          <5>2. From(1) = {Orders[i] : i \in DOMAIN Orders} /\ n \in Nat
            BY OrdersAre, SearchAssumption DEF From
          <5>3. c.combo \in [1..n -> From(1)] /\ \A i, j \in 1..n : i <= j => c.combo[i] <= c.combo[j]
            BY <5>1, <5>2 DEF NonDecreasing
          <5>4. c.combo \in Seq(From(1)) /\ Len(c.combo) = n
            BY <5>2, <5>3
          <5> QED
            BY <5>3, <5>4 DEF TailsOf, TailSpace
        <4> QED
          BY <4>2, <4>3, CombosAre
      <3> QED
        BY <1>4, <2>1, <3>1
    <2> QED
      BY <1>4, <2>1, <2>2, SpaceIsCharged DEF Charged
  <1>7. CASE found = Unreachable
    <2>1. passing = <<>> /\ depth >= MaxTotalDepth /\ MaxTotalDepth \in Nat
      BY <1>1, <1>2, <1>7, SearchAssumption DEF Concluded
    <2>2. ASSUME NEW c \in Within(MaxTotalDepth) PROVE Rejected(c)
      <3>1. c \in Candidature /\ Depth(c) \in Nat /\ Depth(c) <= MaxTotalDepth /\ Charged(c, Depth(c), combos)
        BY <1>6
      <3>2. Depth(c) < depth \/ Depth(c) = depth
        BY <1>3, <2>1, <3>1
      <3> QED
        BY <1>3, <1>5, <2>1, <3>1, <3>2
    <2> QED
      BY <1>7, <2>2 DEF SmallestDepth, Rejected
  <1>8. CASE found # Unreachable
    <2>1. found \in Range(passing) /\ \A i \in 1..Len(passing) : ~Better(passing[i], found)
      BY <1>1, <1>2, <1>8 DEF Concluded
    <2>2. /\ DOMAIN passing = 1..Len(passing)
          /\ \A i \in 1..Len(passing) : Charged(passing[i], depth, combos) /\ Qualified(passing[i])
      BY <1>2, LenProperties DEF Underway
    <2>3. \A c \in Range(passing) : Charged(c, depth, combos) /\ Qualified(c) /\ ~Better(c, found)
      BY <2>1, <2>2 DEF Range
    <2>4. Depth(found) = depth /\ Passes(found)
      BY <1>3, <1>4, <2>1, <2>3, ChargedDepth DEF Qualified
    <2>5. ASSUME NEW c \in Within(depth)
          PROVE  c.degrees \in DOMAIN bits /\ (Passes(c) => Depth(c) = depth /\ ~Better(c, found))
      <3>1. c \in Candidature /\ Depth(c) \in Nat /\ Depth(c) <= depth /\ Charged(c, Depth(c), combos)
        BY <1>6
      <3>2. CASE Depth(c) < depth
        BY <1>3, <3>1, <3>2 DEF Rejected
      <3>3. CASE Depth(c) = depth
        <4>1. Rejected(c) \/ c \in Range(passing)
          BY <1>3, <1>5, <3>1, <3>3
        <4> QED
          BY <2>3, <3>3, <4>1 DEF Rejected, Qualified
      <3> QED
        BY <1>3, <3>1, <3>2, <3>3
    <2> QED
      BY <1>8, <2>4, <2>5 DEF SmallestDepth
  <1> QED
    BY <1>7, <1>8

\* The composite found has the smallest depth, fewest polynomials and most
\* accuracy of all (sign_minimax).
THEOREM FindsSmallestDepth == AllSpec => []SmallestDepth
  BY SearchInvariant, SearchFindsBest, PTL

-----------------------------------------------------------------------------
(* The sum of the errors at some of the points. *)

\* The errors at some places, nothing at the others.
Heights(points, places) == [i \in DOMAIN points |-> IF i \in places THEN Tall(points[i]) ELSE 0]
Over(points, places) == SumOf(Heights(points, places))

LEMMA HeightsAre ==
    ASSUME NEW points, IsSequence(points), Extremes(points), NEW places
    PROVE  LET h == Heights(points, places) IN
           /\ h \in Seq(Int) /\ Len(h) = Len(points)
           /\ \A i \in 1..Len(points) : h[i] = IF i \in places THEN Tall(points[i]) ELSE 0
  <1> DEFINE m == Len(points)
             h == Heights(points, places)
  <1>1. m \in Nat /\ DOMAIN points = 1..m
    BY SequenceIs
  <1>2. \A i \in 1..m : Tall(points[i]) \in Nat
    BY <1>1, TallIs DEF Extremes
  <1>3. h = [i \in 1..m |-> IF i \in places THEN Tall(points[i]) ELSE 0]
    BY <1>1 DEF Heights
  <1>4. \A i \in 1..m : (IF i \in places THEN Tall(points[i]) ELSE 0) \in Int
    BY <1>2
  <1> HIDE DEF h, m
  <1>5. h \in [1..m -> Int] /\ \A i \in 1..m : h[i] = IF i \in places THEN Tall(points[i]) ELSE 0
    BY <1>3, <1>4
  <1>6. h \in Seq(Int)
    BY <1>1, <1>5, SeqDef
  <1>7. Len(h) = m
    BY <1>1, <1>5, <1>6, LenProperties
  <1> QED
    BY <1>5, <1>6, <1>7 DEF h, m

LEMMA TotalIsOver ==
    ASSUME NEW points, IsSequence(points), Extremes(points)
    PROVE  Total(points) = Over(points, 1..Len(points)) /\ Total(points) \in Int
  <1> DEFINE h == Heights(points, 1..Len(points))
  <1>1. DOMAIN points = 1..Len(points)
    BY SequenceIs
  <1>2. h = [i \in DOMAIN points |-> Tall(points[i])]
    BY <1>1 DEF Heights
  <1>3. Total(points) = SumOf(h)
    BY <1>2 DEF Total
  <1>4. h \in Seq(Int)
    BY HeightsAre
  <1>5. SumOf(h) \in Int
    <2> HIDE DEF h
    <2>1. Len(h) \in Nat
      BY <1>4, LenProperties
    <2>2. PICK g \in [0..Len(h) -> Int] : SumOf(h) = g[Len(h)]
      BY <1>4, SumSteps
    <2>3. Len(h) \in 0..Len(h)
      BY <2>1
    <2> QED
      BY <2>2, <2>3
  <1> QED
    BY <1>3, <1>5 DEF Over

\* What a sum comes to without one of its places.
LEMMA OverWithout ==
    ASSUME NEW points, IsSequence(points), Extremes(points), NEW places, NEW x \in places, x \in 1..Len(points)
    PROVE  Over(points, places \ {x}) = Over(points, places) - Tall(points[x])
  <1> DEFINE m == Len(points)
             a == Heights(points, places)
             b == Heights(points, places \ {x})
             top == Tall(points[x])
  <1>1. /\ a \in Seq(Int) /\ Len(a) = m /\ b \in Seq(Int) /\ Len(b) = m
        /\ \A i \in 1..m : a[i] = IF i \in places THEN Tall(points[i]) ELSE 0
        /\ \A i \in 1..m : b[i] = IF i \in places \ {x} THEN Tall(points[i]) ELSE 0
    BY HeightsAre
  <1>2. m \in Nat /\ DOMAIN points = 1..m /\ x \in 1..m
    BY SequenceIs
  <1>3. top \in Nat
    BY <1>2, TallIs DEF Extremes
  <1>4. /\ a[x] = top /\ b[x] = 0 /\ \A i \in 1..m : i # x => a[i] = b[i]
        /\ \A i \in 1..m : a[i] \in Int
    <2>1. \A i \in 1..m : a[i] \in Int
      BY <1>1, ElementOfSeq
    <2> QED
      BY <1>1, <1>2, <2>1
  <1> HIDE DEF a, b, m, top
  <1>5. PICK g \in [0..m -> Int] : g[0] = 0 /\ (\A k \in 1..m : g[k] = g[k - 1] + a[k]) /\ SumOf(a) = g[m]
    BY <1>1, SumSteps
  <1>6. PICK h \in [0..m -> Int] : h[0] = 0 /\ (\A k \in 1..m : h[k] = h[k - 1] + b[k]) /\ SumOf(b) = h[m]
    BY <1>1, SumSteps
  <1> DEFINE K == {k \in Nat : k <= m => h[k] = IF k < x THEN g[k] ELSE g[k] - top}
  <1>7. 0 \in K
    BY <1>2, <1>5, <1>6
  <1>8. ASSUME NEW k \in Nat, k \in K PROVE k + 1 \in K
    <2>1. SUFFICES ASSUME k + 1 <= m PROVE h[k + 1] = IF k + 1 < x THEN g[k + 1] ELSE g[k + 1] - top
      OBVIOUS
    <2>2. k + 1 \in 1..m /\ k \in 0..m /\ k + 1 \in 0..m /\ (k + 1) - 1 = k
      BY <1>2, <2>1
    <2>3. g[k + 1] = g[k] + a[k + 1] /\ h[k + 1] = h[k] + b[k + 1]
      BY <1>5, <1>6, <2>2
    <2>4. h[k] = IF k < x THEN g[k] ELSE g[k] - top
      BY <1>8, <1>2, <2>1
    <2>5. g[k] \in Int /\ a[k + 1] \in Int
      BY <1>4, <2>2
    <2> HIDE DEF K
    <2>6. CASE k + 1 = x
      <3>1. a[k + 1] = top /\ b[k + 1] = 0
        BY <1>4, <2>6
      <3>2. k < x /\ ~(k + 1 < x)
        BY <2>6, <1>2
      <3> QED
        BY <1>3, <2>3, <2>4, <2>5, <3>1, <3>2
    <2>7. CASE k + 1 # x
      <3>1. a[k + 1] = b[k + 1]
        BY <1>4, <2>2, <2>7
      <3>2. k < x <=> k + 1 < x
        BY <1>2, <2>7
      <3> QED
        BY <1>3, <2>3, <2>4, <2>5, <3>1, <3>2
    <2> QED
      BY <2>6, <2>7
  <1>9. m \in K
    <2> HIDE DEF K
    <2>1. Nat \subseteq K
      BY <1>7, <1>8, NatSetInduction
    <2> QED
      BY <1>2, <2>1
  <1>10. h[m] = g[m] - top
    BY <1>2, <1>9
  <1> QED
    BY <1>5, <1>6, <1>10 DEF Over, a, b, top

LEMMA TotalWithout ==
    ASSUME NEW points, IsSequence(points), Extremes(points), NEW x \in 1..Len(points)
    PROVE  /\ Over(points, 1..Len(points) \ {x}) = Total(points) - Tall(points[x])
           /\ \A y \in 1..Len(points) : y # x =>
                  Over(points, 1..Len(points) \ {x, y}) = Total(points) - (Tall(points[x]) + Tall(points[y]))
  <1> DEFINE P == 1..Len(points)
  <1>1. Over(points, P) = Total(points) /\ Total(points) \in Int
    BY TotalIsOver
  <1>2. Over(points, P \ {x}) = Total(points) - Tall(points[x])
    BY <1>1, OverWithout
  <1>3. ASSUME NEW y \in P, y # x
        PROVE  Over(points, P \ {x, y}) = Total(points) - (Tall(points[x]) + Tall(points[y]))
    <2>1. y \in P \ {x} /\ (P \ {x}) \ {y} = P \ {x, y}
      BY <1>3
    <2>2. Over(points, (P \ {x}) \ {y}) = Over(points, P \ {x}) - Tall(points[y])
      BY <2>1, OverWithout
    <2>3. Tall(points[x]) \in Nat /\ Tall(points[y]) \in Nat
      BY SequenceIs, TallIs DEF Extremes
    <2>4. Over(points, P \ {x, y}) = Over(points, (P \ {x}) \ {y})
      BY ONLY <2>1
    <2> HIDE DEF P
    <2> QED
      BY ONLY <1>1, <1>2, <2>2, <2>3, <2>4
  <1> QED
    BY <1>2, <1>3

\* A place not picked leaves the number of those before, a place picked is next.
RankNext(places, k) ==
    LET c == Cardinality(Below(places, k))
        d == Cardinality(Below(places, k + 1))
    IN  /\ c \in 0..Cardinality(places)
        /\ k \notin places => d = c
        /\ k \in places => d = c + 1 /\ c + 1 \in 1..Cardinality(places) /\ Ascending(places)[c + 1] = k

LEMMA RankOfNext ==
    ASSUME NEW m \in Nat, NEW places \in SUBSET (1..m), NEW k \in 1..m
    PROVE  RankNext(places, k)
  <1> DEFINE c == Cardinality(Below(places, k))
             n == Cardinality(places)
  <1>1. IsFiniteSet(places) /\ places \subseteq Int
    <2>1. IsFiniteSet(1..m)
      BY FS_Interval
    <2>2. IsFiniteSet(places)
      BY <2>1, FS_Subset
    <2> QED
      BY <2>2
  <1>2. n \in Nat
    BY <1>1, FS_CardinalityType
  <1>3. Below(places, k) \in SUBSET places /\ IsFiniteSet(Below(places, k)) /\ c <= n /\ c \in Nat
    <2>1. Below(places, k) \in SUBSET places
      BY DEF Below
    <2> QED
      BY <1>1, <2>1, FS_Subset, FS_CardinalityType
  <1>4. ASSUME k \notin places PROVE Below(places, k + 1) = Below(places, k)
    <2>1. \A y \in places : y \in Int /\ y # k
      BY <1>1, <1>4
    <2>2. \A y \in places : y < k + 1 <=> y < k
      BY <2>1
    <2> QED
      BY <2>2 DEF Below
  <1>5. ASSUME k \in places
        PROVE  Cardinality(Below(places, k + 1)) = c + 1 /\ c + 1 \in 1..n /\ Ascending(places)[c + 1] = k
    <2>1. Below(places, k + 1) = Below(places, k) \cup {k} /\ k \notin Below(places, k)
      <3>1. \A y \in places : y < k + 1 <=> (y < k \/ y = k)
        BY <1>1
      <3>2. {y \in places : y < k + 1} = {y \in places : y < k} \cup {k}
        BY <1>5, <3>1
      <3>3. ~(k < k)
        OBVIOUS
      <3> QED
        BY <3>2, <3>3 DEF Below
    <2>2. Cardinality(Below(places, k + 1)) = c + 1
      BY <1>3, <2>1, FS_AddElement
    <2>3. /\ \A x \in places : Cardinality(Below(places, x)) \in 0..(n - 1)
          /\ \A x, y \in places : x < y => Cardinality(Below(places, x)) < Cardinality(Below(places, y))
      BY <1>1, RanksAre
    <2>4. c + 1 \in 1..n
      <3>1. c \in 0..(n - 1)
        BY <1>5, <2>3
      <3> HIDE DEF c, n
      <3> QED
        BY <1>2, <3>1
    <2> DEFINE z == CHOOSE x \in places : Cardinality(Below(places, x)) = (c + 1) - 1
    <2>5. Ascending(places)[c + 1] = z
      BY <2>4 DEF Ascending, Below
    <2>6. (c + 1) - 1 = c
      BY <1>3
    <2>7. z \in places /\ Cardinality(Below(places, z)) = c
      BY <1>5, <2>6
    <2> HIDE DEF z
    <2>8. z = k
      <3>1. z \in Int /\ k \in Int
        BY <1>1, <2>7
      <3>2. ~(z < k) /\ ~(k < z)
        <4>1. z < k => c < c
          BY <1>5, <2>3, <2>7
        <4>2. k < z => c < c
          BY <1>5, <2>3, <2>7
        <4> HIDE DEF c
        <4> QED
          BY <1>3, <4>1, <4>2
      <3> QED
        BY <3>1, <3>2
    <2> QED
      BY <2>2, <2>4, <2>5, <2>8
  <1>6. c \in 0..n
    <2> HIDE DEF c, n
    <2> QED
      BY <1>2, <1>3
  <1>7. k \notin places => Cardinality(Below(places, k + 1)) = c
    BY <1>4
  <1> QED
    BY <1>5, <1>6, <1>7 DEF RankNext

\* The sum of the points picked is that over their places.
LEMMA TotalPicked ==
    ASSUME NEW points, IsSequence(points), Extremes(points), NEW places \in SUBSET (1..Len(points))
    PROVE  Total(Picked(points, places)) = Over(points, places)
  <1> DEFINE m == Len(points)
             n == Cardinality(places)
             t == Picked(points, places)
             s == Ascending(places)
             a == Heights(points, places)
             b == Heights(t, 1..Len(t))
             c(k) == Cardinality(Below(places, k))
  <1>1. m \in Nat /\ DOMAIN points = 1..m /\ places \in SUBSET (1..m)
    BY SequenceIs
  <1>2. /\ IsSequence(t) /\ Len(t) = n /\ \A k \in 1..n : s[k] \in places /\ t[k] = points[s[k]]
    <2>1. /\ IsSequence(t) /\ Len(t) = n
          /\ \A k \in DOMAIN t : s[k] \in places /\ t[k] = points[s[k]]
      <3>1. places \in SUBSET DOMAIN points
        BY <1>1
      <3> QED
        BY <3>1, PickedIs
    <2>2. DOMAIN t = 1..n
      BY <2>1, SequenceIs
    <2> HIDE DEF t, s, n
    <2> QED
      BY <2>1, <2>2
  <1>3. Extremes(t)
    <2> HIDE DEF t, s, n
    <2>1. DOMAIN t = 1..n
      BY <1>2, SequenceIs
    <2> QED
      BY <1>1, <1>2, <2>1 DEF Extremes
  <1>4. n \in Nat
    BY <1>2, SequenceIs
  <1>5. Total(t) = SumOf(b)
    BY <1>2, <1>3, TotalIsOver DEF Over
  <1>6. /\ a \in Seq(Int) /\ Len(a) = m
        /\ \A i \in 1..m : a[i] = IF i \in places THEN Tall(points[i]) ELSE 0
    BY HeightsAre
  <1>7. /\ b \in Seq(Int) /\ Len(b) = n
        /\ \A i \in 1..n : b[i] = Tall(t[i])
    BY <1>2, <1>3, HeightsAre
  <1>8. \A i \in 1..m : a[i] \in Int
    BY <1>6, ElementOfSeq
  <1>9. ASSUME NEW k \in 1..m
        PROVE  /\ c(k) \in 0..n
               /\ k \notin places => c(k + 1) = c(k) /\ a[k] = 0
               /\ k \in places => c(k + 1) = c(k) + 1 /\ c(k) + 1 \in 1..n /\ b[c(k) + 1] = a[k]
    <2>1. /\ c(k) \in 0..n
          /\ k \notin places => c(k + 1) = c(k)
          /\ k \in places => c(k + 1) = c(k) + 1 /\ c(k) + 1 \in 1..n /\ s[c(k) + 1] = k
      <3> HIDE DEF m
      <3>1. m \in Nat /\ places \in SUBSET (1..m) /\ k \in 1..m
        BY <1>1
      <3>2. RankNext(places, k)
        <4> HIDE DEF c, n, s
        <4> QED
          BY ONLY <3>1, RankOfNext
      <3> QED
        BY ONLY <3>2 DEF RankNext
    <2> HIDE DEF a, b, c, t, s, n, m
    <2>2. k \notin places => a[k] = 0
      BY <1>6
    <2>3. k \in places => b[c(k) + 1] = a[k]
      BY <1>2, <1>6, <1>7, <2>1, ZenonT(40)
    <2> QED
      BY <2>1, <2>2, <2>3
  <1>10. c(1) = 0 /\ c(m + 1) = n
    <2>1. \A y \in places : y \in 1..m
      BY <1>1
    <2>2. \A y \in places : ~(y < 1) /\ y < m + 1
      BY <1>1, <2>1
    <2>3. Below(places, 1) = {} /\ Below(places, m + 1) = places
      BY <2>2 DEF Below
    <2> QED
      BY <2>3, FS_EmptySet
  <1> HIDE DEF a, b, c, t, s, n, m
  <1>11. PICK g \in [0..m -> Int] : g[0] = 0 /\ (\A k \in 1..m : g[k] = g[k - 1] + a[k]) /\ SumOf(a) = g[m]
    BY <1>6, SumSteps
  <1>12. PICK h \in [0..n -> Int] : h[0] = 0 /\ (\A k \in 1..n : h[k] = h[k - 1] + b[k]) /\ SumOf(b) = h[n]
    BY <1>7, SumSteps
  <1> DEFINE K == {k \in Nat : k <= m => c(k + 1) \in 0..n /\ h[c(k + 1)] = g[k]}
  <1>13. 0 \in K
    <2>1. 0 + 1 = 1
      OBVIOUS
    <2> QED
      BY <1>4, <1>10, <1>11, <1>12, <2>1
  <1>14. ASSUME NEW k \in Nat, k \in K PROVE k + 1 \in K
    <2>1. SUFFICES ASSUME k + 1 <= m PROVE c((k + 1) + 1) \in 0..n /\ h[c((k + 1) + 1)] = g[k + 1]
      OBVIOUS
    <2> DEFINE d == k + 1
    <2>2. d \in 1..m /\ k \in 0..m /\ d - 1 = k
      BY <1>1, <2>1
    <2>3. c(d) \in 0..n /\ h[c(d)] = g[k]
      BY <1>14, <1>1, <2>1
    <2>4. g[d] = g[k] + a[d] /\ g[k] \in Int /\ a[d] \in Int
      BY <1>8, <1>11, <2>2
    <2> HIDE DEF K, d
    <2>5. CASE d \notin places
      <3>1. c(d + 1) = c(d) /\ a[d] = 0
        BY <1>9, <2>2, <2>5
      <3>2. c(d + 1) \in 0..n /\ h[c(d + 1)] = g[d]
        BY <2>3, <2>4, <3>1
      <3> QED
        BY <3>2 DEF d
    <2>6. CASE d \in places
      <3>1. c(d + 1) = c(d) + 1 /\ c(d) + 1 \in 1..n /\ b[c(d) + 1] = a[d]
        BY <1>9, <2>2, <2>6
      <3> DEFINE e == c(d) + 1
      <3>2. e - 1 = c(d)
        BY <1>4, <2>3
      <3>3. e \in 1..n /\ e \in 0..n /\ b[e] = a[d] /\ c(d + 1) = e
        BY <1>4, <3>1
      <3> HIDE DEF e
      <3>4. h[e] = h[c(d)] + b[e]
        BY <1>12, <3>2, <3>3
      <3>5. h[e] = g[d]
        BY <2>3, <2>4, <3>3, <3>4
      <3>6. c(d + 1) \in 0..n /\ h[c(d + 1)] = g[d]
        BY <3>3, <3>5
      <3> QED
        BY <3>6 DEF d
    <2> QED
      BY <2>5, <2>6
  <1>15. m \in K
    <2> HIDE DEF K
    <2>1. Nat \subseteq K
      BY <1>13, <1>14, NatSetInduction
    <2> QED
      BY <1>1, <2>1
  <1>16. h[n] = g[m]
    BY <1>1, <1>10, <1>15
  <1> QED
    BY <1>5, <1>11, <1>12, <1>16 DEF Over, a, t

-----------------------------------------------------------------------------
(* What trimming leaves of the sum. *)

\* Each from the place after.
Shifted(t, s, n) == \A i \in 1..n : t[i] = s[i + 1]

LEMMA SumOfEnds ==
    ASSUME NEW n \in Nat, NEW s \in Seq(Int), NEW t \in Seq(Int), Len(s) = n + 1, Len(t) = n
    PROVE  /\ (\A i \in 1..n : t[i] = s[i]) => SumOf(t) = SumOf(s) - s[n + 1]
           /\ Shifted(t, s, n) => SumOf(t) = SumOf(s) - s[1]
  <1>1. PICK g \in [0..(n + 1) -> Int] :
            g[0] = 0 /\ (\A k \in 1..(n + 1) : g[k] = g[k - 1] + s[k]) /\ SumOf(s) = g[n + 1]
    BY SumSteps
  <1>2. PICK h \in [0..n -> Int] : h[0] = 0 /\ (\A k \in 1..n : h[k] = h[k - 1] + t[k]) /\ SumOf(t) = h[n]
    BY SumSteps
  <1>3. \A i \in 1..(n + 1) : s[i] \in Int
    BY ElementOfSeq
  <1>4. ASSUME NEW k \in Nat, k + 1 <= n
        PROVE  /\ k \in 0..n /\ k \in 0..(n + 1) /\ k + 1 \in 1..n /\ k + 1 \in 0..(n + 1) /\ (k + 1) + 1 \in 1..(n + 1)
               /\ h[k + 1] = h[k] + t[k + 1] /\ g[k + 1] = g[k] + s[k + 1]
               /\ g[(k + 1) + 1] = g[k + 1] + s[(k + 1) + 1]
               /\ g[k] \in Int /\ g[k + 1] \in Int /\ s[k + 1] \in Int /\ s[(k + 1) + 1] \in Int
    <2>1. /\ k \in 0..n /\ k \in 0..(n + 1) /\ k + 1 \in 1..n /\ k + 1 \in 1..(n + 1) /\ k + 1 \in 0..(n + 1)
          /\ (k + 1) + 1 \in 1..(n + 1)
          /\ (k + 1) - 1 = k /\ ((k + 1) + 1) - 1 = k + 1
      BY <1>4
    <2> QED
      BY <1>1, <1>2, <1>3, <2>1
  <1>5. ASSUME \A i \in 1..n : t[i] = s[i] PROVE SumOf(t) = SumOf(s) - s[n + 1]
    <2> DEFINE K == {k \in Nat : k <= n => h[k] = g[k]}
    <2>1. 0 \in K
      BY <1>1, <1>2
    <2>2. ASSUME NEW k \in Nat, k \in K PROVE k + 1 \in K
      BY <1>4, <1>5, <2>2
    <2>3. n \in K
      <3> HIDE DEF K
      <3>1. Nat \subseteq K
        BY <2>1, <2>2, NatSetInduction
      <3> QED
        BY <3>1
    <2>4. h[n] = g[n] /\ n + 1 \in 1..(n + 1) /\ (n + 1) - 1 = n /\ n \in 0..(n + 1)
      BY <2>3
    <2>5. g[n + 1] = g[n] + s[n + 1] /\ g[n] \in Int /\ s[n + 1] \in Int
      BY <1>1, <1>3, <2>4
    <2> QED
      BY <1>1, <1>2, <2>4, <2>5
  <1>6. ASSUME Shifted(t, s, n) PROVE SumOf(t) = SumOf(s) - s[1]
    <2> DEFINE K == {k \in Nat : k <= n => h[k] = g[k + 1] - s[1]}
    <2>1. 1 \in 1..(n + 1) /\ 1 - 1 = 0 /\ 0 + 1 = 1
      OBVIOUS
    <2>2. g[1] = s[1] /\ s[1] \in Int
      BY <1>1, <1>3, <2>1
    <2>3. 0 \in K
      BY <1>2, <2>1, <2>2
    <2>4. ASSUME NEW k \in Nat, k \in K PROVE k + 1 \in K
      <3>1. SUFFICES ASSUME k + 1 <= n PROVE h[k + 1] = g[(k + 1) + 1] - s[1]
        OBVIOUS
      <3>2. h[k] = g[k + 1] - s[1]
        BY <2>4, <3>1
      <3>3. t[k + 1] = s[(k + 1) + 1]
        BY <1>4, <1>6, <3>1 DEF Shifted
      <3>4. /\ h[k + 1] = h[k] + t[k + 1] /\ g[(k + 1) + 1] = g[k + 1] + s[(k + 1) + 1]
            /\ g[k + 1] \in Int /\ s[(k + 1) + 1] \in Int
        BY <1>4, <3>1
      <3> HIDE DEF K
      <3> DEFINE d == k + 1
                 x == d + 1
      <3>5. /\ h[d] = h[k] + t[d] /\ g[x] = g[d] + s[x] /\ g[d] \in Int /\ s[x] \in Int
            /\ t[d] = s[x] /\ h[k] = g[d] - s[1]
        BY <3>2, <3>3, <3>4
      <3> HIDE DEF d, x
      <3>6. h[d] = (g[d] - s[1]) + s[x]
        BY ONLY <3>5
      <3>7. (g[d] - s[1]) + s[x] = (g[d] + s[x]) - s[1]
        <4>1. \A a, b, c \in Int : (a - b) + c = (a + c) - b
          OBVIOUS
        <4> QED
          BY ONLY <2>2, <3>5, <4>1
      <3>8. h[d] = g[x] - s[1]
        BY ONLY <3>5, <3>6, <3>7
      <3> QED
        BY <3>8 DEF d, x
    <2>5. n \in K
      <3> HIDE DEF K
      <3>1. Nat \subseteq K
        BY <2>3, <2>4, NatSetInduction
      <3> QED
        BY <3>1
    <2> QED
      BY <1>1, <1>2, <2>5
  <1> QED
    BY <1>5, <1>6

LEMMA EndsTotal ==
    ASSUME NEW points, IsSequence(points), Extremes(points), Len(points) > 1
    PROVE  /\ Total(Tail(points)) = Total(points) - Tall(points[1])
           /\ Total(Front(points)) = Total(points) - Tall(points[Len(points)])
  <1> DEFINE m == Len(points)
             n == m - 1
             front == Front(points)
             tail == Tail(points)
  <1>1. /\ Len(front) = n /\ DOMAIN front = 1..n /\ \A i \in 1..n : front[i] = points[i]
        /\ Len(tail) = n /\ DOMAIN tail = 1..n /\ \A i \in 1..n : tail[i] = points[i + 1]
    BY EndsAre
  <1>2. m \in Nat /\ n \in Nat /\ m = n + 1 /\ DOMAIN points = 1..m /\ m > 1
    BY SequenceIs
  <1>3. IsSequence(front) /\ IsSequence(tail)
    <2>1. points \in Seq(Range(points)) /\ points # <<>>
      BY <1>2 DEF IsSequence
    <2>2. SubSeq(points, 1, m - 1) \in Seq(Range(points)) /\ Tail(points) \in Seq(Range(points))
      BY <1>2, <2>1
    <2>3. front \in Seq(Range(points)) /\ tail \in Seq(Range(points))
      BY <2>2 DEF Front
    <2>4. ASSUME NEW s \in Seq(Range(points)) PROVE IsSequence(s)
      <3>1. Len(s) \in Nat /\ s = [i \in 1..Len(s) |-> s[i]]
        BY LenProperties
      <3> QED
        BY <3>1, MakesSequence
    <2> QED
      BY <2>3, <2>4
  <1> HIDE DEF front, tail, n, m
  <1>4. \A i \in 1..n : i \in 1..m /\ i + 1 \in 1..m
    BY <1>2
  <1>5. Extremes(front) /\ Extremes(tail)
    BY <1>1, <1>2, <1>4 DEF Extremes
  <1> DEFINE a == Heights(points, 1..m)
             b == Heights(front, 1..n)
             c == Heights(tail, 1..n)
  <1>6. Total(points) = SumOf(a) /\ Total(front) = SumOf(b) /\ Total(tail) = SumOf(c)
    BY <1>1, <1>3, <1>5, TotalIsOver DEF Over, m
  <1>7. a \in Seq(Int) /\ Len(a) = m /\ \A i \in 1..m : a[i] = Tall(points[i])
    BY HeightsAre DEF m
  <1>8. b \in Seq(Int) /\ Len(b) = n /\ \A i \in 1..n : b[i] = Tall(points[i])
    <2>1. b \in Seq(Int) /\ Len(b) = n /\ \A i \in 1..n : b[i] = Tall(front[i])
      BY <1>1, <1>3, <1>5, HeightsAre
    <2> QED
      BY <1>1, <2>1
  <1>9. c \in Seq(Int) /\ Len(c) = n /\ \A i \in 1..n : c[i] = Tall(points[i + 1])
    <2>1. c \in Seq(Int) /\ Len(c) = n /\ \A i \in 1..n : c[i] = Tall(tail[i])
      BY <1>1, <1>3, <1>5, HeightsAre
    <2> QED
      BY <1>1, <2>1
  <1> HIDE DEF a, b, c
  <1>10. SumOf(b) = SumOf(a) - a[n + 1]
    <2>1. \A i \in 1..n : b[i] = a[i]
      BY <1>4, <1>7, <1>8
    <2> QED
      BY <1>2, <1>7, <1>8, <2>1, SumOfEnds
  <1>11. SumOf(c) = SumOf(a) - a[1]
    <2>1. \A i \in 1..n : c[i] = a[i + 1]
      BY <1>4, <1>7, <1>9
    <2>2. Shifted(c, a, n)
      BY <2>1 DEF Shifted
    <2> QED
      BY <1>2, <1>7, <1>9, <2>2, SumOfEnds
  <1>12. a[n + 1] = Tall(points[m]) /\ a[1] = Tall(points[1])
    <2>1. 1 \in 1..m /\ m \in 1..m
      BY <1>2
    <2> QED
      BY <1>2, <1>7, <2>1
  <1> QED
    BY <1>6, <1>10, <1>11, <1>12 DEF front, tail, m

\* The end that goes is the lower one: the tallest is never an end that goes.
LEMMA LowerEndGoes ==
    ASSUME NEW points, Chain(points), Extremes(points), Len(points) > 1,
           NEW top \in Nat, Bounded(points, top), HoldsTop(points, top)
    PROVE  LET t == WithoutAnEnd(points, Protected(points))
           IN  /\ Len(t) = Len(points) - 1
               /\ Total(t) >= Total(points) - Tall(points[1])
               /\ Total(t) >= Total(points) - Tall(points[Len(points)])
  <1> DEFINE m == Len(points)
             front == Front(points)
             tail == Tail(points)
             protect == Protected(points)
             t == WithoutAnEnd(points, protect)
             sum == Total(points)
             a == Tall(points[1])
             b == Tall(points[m])
  <1>1. IsSequence(points) /\ m \in Nat /\ m > 1 /\ DOMAIN points = 1..m /\ 1 \in 1..m /\ m \in 1..m
    BY SequenceIs DEF Chain
  <1>2. Last(points) = points[m]
    BY DEF Last
  <1>3. t = IF points[1].u = protect THEN front ELSE IF points[m].u = protect THEN tail
            ELSE IF a <= b THEN tail ELSE front
    BY <1>2, SMTT(30) DEF WithoutAnEnd
  <1>4. Len(front) = m - 1 /\ Len(tail) = m - 1
    BY <1>1, EndsAre
  <1>5. Total(tail) = sum - a /\ Total(front) = sum - b /\ sum \in Int
    BY <1>1, EndsTotal, TotalIsOver
  <1>6. PICK q \in 1..m : protect = points[q].u /\ Tall(points[q]) = top
    BY <1>1, ProtectedIs
  <1>7. a \in Nat /\ b \in Nat /\ a <= top /\ b <= top
    BY <1>1, TallIs DEF Extremes, Bounded
  <1>8. points[1].u = protect => a = top
    <2>1. points[1].u = points[q].u => q = 1
      BY <1>1, PlacesApart
    <2> QED
      BY <1>6, <2>1
  <1>9. points[m].u = protect => b = top
    <2>1. points[m].u = points[q].u => q = m
      BY <1>1, PlacesApart
    <2> QED
      BY <1>6, <2>1, SMTT(30)
  <1> HIDE DEF t, front, tail, protect, sum, a, b, m
  <1>10. (t = front /\ b <= a) \/ (t = tail /\ a <= b)
    BY <1>3, <1>7, <1>8, <1>9
  <1>11. Len(t) = m - 1 /\ Total(t) >= sum - a /\ Total(t) >= sum - b
    <2>1. CASE t = front /\ b <= a
      BY <1>4, <1>5, <1>7, <2>1
    <2>2. CASE t = tail /\ a <= b
      BY <1>4, <1>5, <1>7, <2>2
    <2> QED
      BY <1>10, <2>1, <2>2
  <1> QED
    BY <1>11 DEF t, protect, sum, a, b, m

\* No pair has a smaller sum than some pair that spares the tallest.
LEMMA SparedIsLess ==
    ASSUME NEW points, Chain(points), Extremes(points), NEW m, m = Len(points), m > 3,
           NEW top, Bounded(points, top), NEW q \in DOMAIN points, Tall(points[q]) = top,
           NEW j \in Pairs(m)
    PROVE  \E k \in Pairs(m) : (\A i \in Gone(m, k) : points[i].u # points[q].u) /\ PairSum(points, k) <= PairSum(points, j)
  <1>1. m \in Nat /\ DOMAIN points = 1..m /\ q \in 1..m /\ 1 \in 1..m /\ m \in 1..m /\ m - 1 \in 1..m
    BY SequenceIs DEF Chain
  <1>2. \A i \in 1..m : Tall(points[i]) \in Nat /\ Tall(points[i]) <= top
    BY <1>1, TallIs DEF Extremes, Bounded
  <1>3. \A i \in 1..m : i # q => points[i].u # points[q].u
    BY <1>1, PlacesApart
  <1>4. Last(points) = points[m]
    BY DEF Last
  <1>5. j \in Int /\ j >= 0 /\ j <= m - 1
    BY <1>1 DEF Pairs
  <1>6. PairSum(points, 0) = Tall(points[1]) + Tall(points[m])
    BY <1>4 DEF PairSum
  <1>7. ASSUME NEW k \in 1..(m - 1) PROVE PairSum(points, k) = Tall(points[k]) + Tall(points[k + 1]) /\ k \in 1..m /\ k + 1 \in 1..m
    BY <1>1 DEF PairSum
  <1>8. Gone(m, 1) = {1} /\ Gone(m, m - 1) = {m} /\ Gone(m, 0) = {1, m}
    BY <1>1 DEF Gone
  <1>9. ASSUME NEW k \in 2..(m - 2) PROVE Gone(m, k) = {k, k + 1} /\ k \in 1..(m - 1)
    BY <1>1 DEF Gone
  <1>10. CASE q \notin Gone(m, j)
    <2>1. \A i \in Gone(m, j) : i \in 1..m
      <3>1. j = 0 \/ j = 1 \/ j = m - 1 \/ j \in 2..(m - 2)
        BY <1>1, <1>5
      <3>2. CASE j \in 2..(m - 2)
        BY <1>1, <1>9, <3>2
      <3> QED
        BY <1>1, <1>8, <3>1, <3>2
    <2>2. PairSum(points, j) <= PairSum(points, j)
      <3>1. PairSum(points, j) \in Int
        <4>1. CASE j = 0
          BY <1>1, <1>2, <1>6, <4>1
        <4>2. CASE j \in 1..(m - 1)
          BY <1>2, <1>7, <4>2
        <4> QED
          BY <1>1, <1>5, <4>1, <4>2
      <3> QED
        BY <3>1
    <2> QED
      BY <1>3, <1>10, <2>1, <2>2
  <1>11. ASSUME NEW k \in Pairs(m), \A i \in Gone(m, k) : i \in 1..m /\ i # q, PairSum(points, k) <= PairSum(points, j)
         PROVE  \E x \in Pairs(m) : (\A i \in Gone(m, x) : points[i].u # points[q].u) /\ PairSum(points, x) <= PairSum(points, j)
    BY <1>3, <1>11
  <1>12. 1 \in Pairs(m) /\ m - 1 \in Pairs(m) /\ \A k \in 1..(m - 1) : k \in Pairs(m)
    BY <1>1 DEF Pairs
  <1>13. CASE j = 0 /\ q = 1
    <2>1. PairSum(points, m - 1) <= PairSum(points, j)
      <3>1. m - 1 \in 1..(m - 1) /\ (m - 1) + 1 = m
        BY <1>1
      <3>2. PairSum(points, m - 1) = Tall(points[m - 1]) + Tall(points[m])
        BY <1>7, <3>1
      <3>3. Tall(points[m - 1]) <= Tall(points[1]) /\ Tall(points[m - 1]) \in Nat /\ Tall(points[1]) \in Nat /\ Tall(points[m]) \in Nat
        BY <1>1, <1>2, <1>13
      <3> QED
        BY <1>6, <1>13, <3>2, <3>3
    <2>2. \A i \in Gone(m, m - 1) : i \in 1..m /\ i # q
      BY <1>1, <1>8, <1>13
    <2> QED
      BY <1>11, <1>12, <2>1, <2>2
  <1>14. CASE j = 0 /\ q = m
    <2>1. PairSum(points, 1) <= PairSum(points, j)
      <3>1. 1 \in 1..(m - 1) /\ 1 + 1 = 2 /\ 2 \in 1..m
        BY <1>1
      <3>2. PairSum(points, 1) = Tall(points[1]) + Tall(points[2])
        BY <1>7, <3>1
      <3>3. Tall(points[2]) <= Tall(points[m]) /\ Tall(points[2]) \in Nat /\ Tall(points[1]) \in Nat /\ Tall(points[m]) \in Nat
        BY <1>1, <1>2, <1>14, <3>1
      <3> QED
        BY <1>6, <1>14, <3>2, <3>3
    <2>2. \A i \in Gone(m, 1) : i \in 1..m /\ i # q
      BY <1>1, <1>8, <1>14
    <2> QED
      BY <1>11, <1>12, <2>1, <2>2
  \* The next pair, or the one before, has its other point in place of the tallest.
  <1>15. ASSUME j \in 1..(m - 2), q = j PROVE \E x \in Pairs(m) : (\A i \in Gone(m, x) : points[i].u # points[q].u) /\ PairSum(points, x) <= PairSum(points, j)
    <2> DEFINE k == j + 1
    <2>1. k \in 1..(m - 1) /\ j \in 1..(m - 1) /\ k # q
      BY <1>1, <1>15
    <2>2. PairSum(points, k) = Tall(points[k]) + Tall(points[k + 1]) /\ PairSum(points, j) = Tall(points[j]) + Tall(points[k])
          /\ k \in 1..m /\ k + 1 \in 1..m
      BY <1>7, <2>1
    <2> HIDE DEF k
    <2>3. Tall(points[k + 1]) <= Tall(points[j]) /\ Tall(points[k + 1]) \in Nat /\ Tall(points[j]) \in Nat /\ Tall(points[k]) \in Nat
      BY <1>1, <1>2, <1>15, <2>2
    <2>4. PairSum(points, k) <= PairSum(points, j)
      BY <2>2, <2>3
    <2>5. \A i \in Gone(m, k) : i \in 1..m /\ i # q
      <3>1. CASE k = m - 1
        BY <1>1, <1>8, <1>15, <3>1
      <3>2. CASE k \in 2..(m - 2)
        <4>1. k + 1 # q
          BY <1>15, <2>1 DEF k
        <4> QED
          BY <1>9, <2>1, <2>2, <3>2, <4>1
      <3>3. k = m - 1 \/ k \in 2..(m - 2)
        BY <1>1, <1>15, <2>1 DEF k
      <3> QED
        BY <3>1, <3>2, <3>3
    <2> QED
      BY <1>11, <1>12, <2>1, <2>4, <2>5
  <1>16. ASSUME j \in 2..(m - 1), q = j + 1 PROVE \E x \in Pairs(m) : (\A i \in Gone(m, x) : points[i].u # points[q].u) /\ PairSum(points, x) <= PairSum(points, j)
    <2> DEFINE k == j - 1
    <2>1. k \in 1..(m - 1) /\ j \in 1..(m - 1) /\ k + 1 = j /\ k # q /\ k + 1 # q /\ k <= m - 2
      BY <1>1, <1>16
    <2>2. PairSum(points, k) = Tall(points[k]) + Tall(points[j]) /\ PairSum(points, j) = Tall(points[j]) + Tall(points[q])
          /\ k \in 1..m /\ k + 1 \in 1..m /\ j \in 1..m
      BY <1>7, <1>16, <2>1
    <2> HIDE DEF k
    <2>3. Tall(points[k]) <= Tall(points[q]) /\ Tall(points[q]) \in Nat /\ Tall(points[j]) \in Nat /\ Tall(points[k]) \in Nat
      BY <1>1, <1>2, <2>2
    <2>4. PairSum(points, k) <= PairSum(points, j)
      BY <2>2, <2>3
    <2>5. \A i \in Gone(m, k) : i \in 1..m /\ i # q
      <3>1. CASE k = 1
        BY <1>1, <1>8, <2>1, <3>1
      <3>2. CASE k \in 2..(m - 2)
        BY <1>9, <2>1, <2>2, <3>2
      <3>3. k = 1 \/ k \in 2..(m - 2)
        BY <1>1, <2>1
      <3> QED
        BY <3>1, <3>2, <3>3
    <2> QED
      BY <1>11, <1>12, <2>1, <2>4, <2>5
  <1>17. CASE q \in Gone(m, j)
    <2>1. CASE j = 0
      BY <1>8, <1>13, <1>14, <1>17, <2>1
    <2>2. CASE j = 1
      <3>1. q = j /\ j \in 1..(m - 2)
        BY <1>1, <1>8, <1>17, <2>2
      <3> QED
        BY <1>15, <3>1
    <2>3. CASE j = m - 1
      <3>1. q = j + 1 /\ j \in 2..(m - 1)
        BY <1>1, <1>8, <1>17, <2>3
      <3> QED
        BY <1>16, <3>1
    <2>4. CASE j \in 2..(m - 2)
      <3>1. q = j \/ q = j + 1
        BY <1>9, <1>17, <2>4
      <3>2. j \in 1..(m - 2) /\ j \in 2..(m - 1)
        BY <1>1, <2>4
      <3> QED
        BY <1>15, <1>16, <3>1, <3>2
    <2> QED
      BY <1>1, <1>5, <2>1, <2>2, <2>3, <2>4
  <1> QED
    BY <1>10, <1>17

-----------------------------------------------------------------------------
(* The places left out of an alternating choice are those trimming may free. *)

LEMMA LeastPairGoes ==
    ASSUME NEW points, Chain(points), Extremes(points), NEW m, m = Len(points), m > 3,
           NEW top \in Nat, Bounded(points, top), HoldsTop(points, top)
    PROVE  \E k \in Pairs(m) :
              /\ WithoutAPair(points, Protected(points)) = Picked(points, 1..m \ Gone(m, k))
              /\ \A j \in Pairs(m) : PairSum(points, k) <= PairSum(points, j)
  <1> DEFINE protect == Protected(points)
             spared == {k \in Pairs(m) : \A i \in Gone(m, k) : points[i].u # protect}
             Least(k) == \A j \in spared : PairSum(points, k) < PairSum(points, j)
                                           \/ (PairSum(points, k) = PairSum(points, j) /\ k <= j)
             pair == CHOOSE k \in spared : Least(k)
  <1>1. IsSequence(points) /\ m \in Nat /\ DOMAIN points = 1..m /\ 0 \in Pairs(m)
    BY SequenceIs DEF Chain, Pairs
  <1>2. PICK q \in 1..m : protect = points[q].u /\ Tall(points[q]) = top
    BY <1>1, ProtectedIs
  <1>3. ASSUME NEW j \in Pairs(m) PROVE \E k \in spared : PairSum(points, k) <= PairSum(points, j)
    <2>1. \E k \in Pairs(m) : (\A i \in Gone(m, k) : points[i].u # points[q].u) /\ PairSum(points, k) <= PairSum(points, j)
      BY <1>1, <1>2, SparedIsLess
    <2> QED
      BY <1>2, <2>1
  <1>4. spared \in SUBSET Pairs(m)
    OBVIOUS
  <1>5. spared # {}
    BY <1>1, <1>3
  <1>6. WithoutAPair(points, protect) = Picked(points, 1..m \ Gone(m, pair))
    BY DEF WithoutAPair
  <1> HIDE DEF spared
  <1>7. pair \in spared /\ Least(pair)
    <2>1. \E k \in spared : Least(k)
      BY <1>1, <1>4, <1>5, LeastPair
    <2> HIDE DEF Least
    <2> QED
      BY <2>1
  <1> HIDE DEF pair
  <1>8. \A k \in Pairs(m) : PairSum(points, k) \in Int
    <2>1. \A i \in 1..m : Tall(points[i]) \in Nat
      BY <1>1, TallIs DEF Extremes
    <2>2. \A k \in Pairs(m) : k = 0 \/ (k \in 1..m /\ k + 1 \in 1..m)
      BY <1>1 DEF Pairs
    <2>3. 1 \in 1..m /\ m \in 1..m /\ Last(points) = points[m]
      BY <1>1 DEF Last
    <2> QED
      BY <2>1, <2>2, <2>3 DEF PairSum
  <1>9. ASSUME NEW j \in Pairs(m) PROVE PairSum(points, pair) <= PairSum(points, j)
    <2>1. PICK k \in spared : PairSum(points, k) <= PairSum(points, j)
      BY <1>3
    <2>2. PairSum(points, pair) <= PairSum(points, k)
      <3>1. PairSum(points, pair) \in Int /\ PairSum(points, k) \in Int
        BY <1>4, <1>7, <1>8
      <3> QED
        BY <1>7, <3>1
    <2>3. PairSum(points, pair) \in Int /\ PairSum(points, k) \in Int /\ PairSum(points, j) \in Int
      BY <1>4, <1>7, <1>8
    <2> QED
      BY <2>1, <2>2, <2>3
  <1> QED
    BY <1>4, <1>6, <1>7, <1>9

LEMMA WithoutOne ==
    ASSUME NEW m \in Nat, NEW x \in 1..m
    PROVE  /\ Cardinality(1..m \ {x}) = m - 1
           /\ \A y \in 1..m : y # x => Cardinality(1..m \ {x, y}) = m - 2
  <1>1. IsFiniteSet(1..m) /\ Cardinality(1..m) = m
    <2>1. 1 \in Int /\ m \in Int
      OBVIOUS
    <2>2. IsFiniteSet(1..m) /\ Cardinality(1..m) = IF 1 > m THEN 0 ELSE m - 1 + 1
      BY <2>1, FS_Interval
    <2> QED
      BY <2>2
  <1>2. IsFiniteSet(1..m \ {x}) /\ Cardinality(1..m \ {x}) = m - 1
    BY <1>1, FS_RemoveElement
  <1>3. ASSUME NEW y \in 1..m, y # x PROVE Cardinality(1..m \ {x, y}) = m - 2
    <2>1. (1..m \ {x}) \ {y} = 1..m \ {x, y} /\ y \in 1..m \ {x}
      BY <1>3
    <2>2. Cardinality((1..m \ {x}) \ {y}) = Cardinality(1..m \ {x}) - 1
      BY <1>2, <2>1, FS_RemoveElement
    <2>3. Cardinality(1..m \ {x, y}) = Cardinality((1..m \ {x}) \ {y})
      BY ONLY <2>1
    <2> QED
      BY ONLY <1>2, <2>2, <2>3, m \in Nat
  <1> QED
    BY <1>2, <1>3

\* A pair goes, or its end does and leaves the other point for an end.
LEMMA PairGone ==
    ASSUME NEW points, Chain(points), Extremes(points), NEW m, m = Len(points), m > 3, NEW k \in Pairs(m)
    PROVE  LET t == Picked(points, 1..m \ Gone(m, k)) IN
           \/ Len(t) = m - 2 /\ Total(t) = Total(points) - PairSum(points, k)
           \/ /\ Len(t) = m - 1
              /\ \E e \in {1, m - 1} : Total(t) - Tall(t[e]) = Total(points) - PairSum(points, k)
  <1> DEFINE places == 1..m \ Gone(m, k)
             t == Picked(points, places)
             s == Ascending(places)
             sum == Total(points)
  <1>1. IsSequence(points) /\ m \in Nat /\ DOMAIN points = 1..m /\ k \in Int /\ k >= 0 /\ k <= m - 1
    BY SequenceIs DEF Chain, Pairs
  <1>2. places \in SUBSET (1..m) /\ sum \in Int
    BY <1>1, TotalIsOver
  <1>3. Last(points) = points[m]
    BY DEF Last
  <1>4. /\ Len(t) = Cardinality(places) /\ \A i \in 1..Len(t) : t[i] = points[s[i]]
        /\ Total(t) = Over(points, places)
    <2>1. /\ IsSequence(t) /\ Len(t) = Cardinality(places) /\ \A i \in DOMAIN t : t[i] = points[s[i]]
      BY <1>1, <1>2, PickedIs
    <2>2. Total(t) = Over(points, places)
      BY <1>1, <1>2, TotalPicked
    <2> HIDE DEF t
    <2> QED
      BY <2>1, <2>2, SequenceIs
  <1>5. \A x \in 1..m : Tall(points[x]) \in Nat
    BY <1>1, TallIs DEF Extremes
  <1> HIDE DEF t, s, sum
  <1>6. ASSUME NEW x \in 1..m, NEW y \in 1..m, y # x, Gone(m, k) = {x, y},
               PairSum(points, k) = Tall(points[x]) + Tall(points[y])
        PROVE  Len(t) = m - 2 /\ Total(t) = sum - PairSum(points, k)
    <2>1. Cardinality(1..m \ {x, y}) = m - 2
      BY <1>1, <1>6, WithoutOne
    <2>2. Over(points, 1..m \ {x, y}) = sum - (Tall(points[x]) + Tall(points[y]))
      BY <1>1, <1>6, TotalWithout DEF sum
    <2>3. places = 1..m \ {x, y}
      BY <1>6
    <2> QED
      BY <1>4, <1>6, <2>1, <2>2, <2>3
  <1>7. ASSUME NEW x \in 1..m, Gone(m, k) = {x}
        PROVE  Len(t) = m - 1 /\ Total(t) = sum - Tall(points[x]) /\ places = 1..m \ {x}
    <2>1. Cardinality(1..m \ {x}) = m - 1
      BY <1>1, WithoutOne
    <2>2. Over(points, 1..m \ {x}) = sum - Tall(points[x])
      BY <1>1, TotalWithout DEF sum
    <2>3. places = 1..m \ {x}
      BY <1>7
    <2> QED
      BY <1>4, <2>1, <2>2, <2>3
  <1>8. ASSUME NEW x \in 1..m, NEW y \in 1..m, NEW e \in {1, m - 1}, Gone(m, k) = {x}, s[e] = y,
               PairSum(points, k) = Tall(points[x]) + Tall(points[y])
        PROVE  /\ Len(t) = m - 1
               /\ \E z \in {1, m - 1} : Total(t) - Tall(t[z]) = sum - PairSum(points, k)
    <2>1. Len(t) = m - 1 /\ Total(t) = sum - Tall(points[x])
      BY <1>7, <1>8
    <2>2. e \in 1..Len(t)
      BY <1>1, <1>8, <2>1
    <2>3. t[e] = points[y]
      BY <1>4, <1>8, <2>2
    <2>4. Total(t) - Tall(t[e]) = sum - PairSum(points, k)
      <3>1. Tall(points[x]) \in Nat /\ Tall(points[y]) \in Nat /\ sum \in Int
        BY <1>2, <1>5 DEF sum
      <3> QED
        BY <1>8, <2>1, <2>3, <3>1
    <2> QED
      BY <2>1, <2>4
  <1>9. CASE k = 0
    <2>1. Gone(m, k) = {1, m} /\ PairSum(points, k) = Tall(points[1]) + Tall(points[m]) /\ 1 \in 1..m /\ m \in 1..m /\ m # 1
      BY <1>1, <1>3, <1>9 DEF Gone, PairSum
    <2> QED
      BY <1>6, <2>1 DEF t, sum
  <1>10. CASE k \in 2..(m - 2)
    <2>1. Gone(m, k) = {k, k + 1} /\ PairSum(points, k) = Tall(points[k]) + Tall(points[k + 1])
          /\ k \in 1..m /\ k + 1 \in 1..m /\ k + 1 # k
      BY <1>1, <1>10 DEF Gone, PairSum
    <2> QED
      BY <1>6, <2>1 DEF t, sum
  <1>11. CASE k = 1
    <2>1. Gone(m, k) = {1} /\ PairSum(points, k) = Tall(points[1]) + Tall(points[2]) /\ 1 \in 1..m /\ 2 \in 1..m
      BY <1>1, <1>11 DEF Gone, PairSum
    <2>2. s[1] = 2
      <3>1. 2 \in places
        BY <2>1
      <3>2. Below(places, 2) = {}
        <4>1. \A y \in places : y \in 1..m /\ y # 1
          BY <2>1
        <4>2. \A y \in places : ~(y < 2)
          BY <1>1, <4>1
        <4> QED
          BY <4>2 DEF Below
      <3>3. Cardinality(Below(places, 2)) = 0
        BY <3>2, FS_EmptySet
      <3> HIDE DEF places
      <3>4. RankNext(places, 2)
        BY <1>1, <1>2, <2>1, RankOfNext
      <3>5. Ascending(places)[0 + 1] = 2
        BY <3>1, <3>3, <3>4 DEF RankNext
      <3> QED
        BY <3>5 DEF s
    <2> QED
      BY <1>8, <2>1, <2>2 DEF t, sum
  <1>12. CASE k = m - 1
    <2>1. Gone(m, k) = {m} /\ PairSum(points, k) = Tall(points[m - 1]) + Tall(points[m]) /\ m \in 1..m /\ m - 1 \in 1..m
      <3>1. (m - 1) + 1 = m /\ m - 1 # 0 /\ m - 1 # 1
        BY <1>1
      <3> QED
        BY <1>1, <1>12, <3>1 DEF Gone, PairSum
    <2>2. s[m - 1] = m - 1
      <3>1. m - 1 \in places
        BY <1>1, <2>1
      <3>2. Below(places, (m - 1) + 1) = places
        <4>1. \A y \in places : y \in 1..m /\ y # m
          BY <2>1
        <4>2. \A y \in places : y < (m - 1) + 1
          BY <1>1, <4>1
        <4> QED
          BY <4>2 DEF Below
      <3>3. Cardinality(places) = m - 1
        <4>1. places = 1..m \ {m}
          BY <2>1
        <4> QED
          BY <1>1, <2>1, <4>1, WithoutOne
      <3> HIDE DEF places
      <3>4. RankNext(places, m - 1)
        BY <1>1, <1>2, <2>1, RankOfNext
      <3> DEFINE c == Cardinality(Below(places, m - 1))
      <3>5. m - 1 = c + 1 /\ Ascending(places)[c + 1] = m - 1
        BY <3>1, <3>2, <3>3, <3>4 DEF RankNext
      <3> QED
        BY <3>5 DEF s
    <2>3. PairSum(points, k) = Tall(points[m]) + Tall(points[m - 1])
      BY <1>5, <2>1
    <2> QED
      BY <1>8, <2>1, <2>2, <2>3 DEF t, sum
  <1> QED
    BY <1>1, <1>9, <1>10, <1>11, <1>12

\* Places next to each other in a choice are an odd number apart.
OddGaps(I) == \A i, j \in I : i < j /\ (\A k \in I : k <= i \/ k >= j) => (j - i) % 2 = 1

PairOf(m, k) == IF k = 0 THEN {1, m} ELSE {k, k + 1}

LEMMA OneBetween ==
    ASSUME NEW m \in Nat, NEW I \in SUBSET (1..m), OddGaps(I), NEW x \in (1..m) \ I, x - 1 \in I
    PROVE  x + 1 \notin I
  <1>1. SUFFICES ASSUME x + 1 \in I PROVE FALSE
    OBVIOUS
  <1>2. \A k \in I : k <= x - 1 \/ k >= x + 1
    <2>1. \A k \in I : k \in Int /\ k # x
      OBVIOUS
    <2> QED
      BY <2>1
  <1>3. ((x + 1) - (x - 1)) % 2 = 1
    <2>1. x - 1 < x + 1
      OBVIOUS
    <2> QED
      BY <1>1, <1>2, <2>1 DEF OddGaps
  <1>4. (x + 1) - (x - 1) = 2
    OBVIOUS
  <1> QED
    BY <1>3, <1>4

LEMMA LeftOut ==
    ASSUME NEW m \in Nat, NEW I \in SUBSET (1..m), OddGaps(I), NEW n \in Nat, Cardinality(I) = n, n > 1
    PROVE  /\ m = n + 1 => \E e \in {1, m} : I = 1..m \ {e}
           /\ m = n + 2 => \E k \in Pairs(m) : I = 1..m \ PairOf(m, k)
  <1> DEFINE C == (1..m) \ I
  <1>1. IsFiniteSet(C) /\ Cardinality(C) = m - n
    <2>1. IsFiniteSet(1..m) /\ Cardinality(1..m) = m
      <3>1. 1 \in Int /\ m \in Int
        OBVIOUS
      <3>2. IsFiniteSet(1..m) /\ Cardinality(1..m) = IF 1 > m THEN 0 ELSE m - 1 + 1
        BY <3>1, FS_Interval
      <3> QED
        BY <3>2
    <2>2. IsFiniteSet(C) /\ Cardinality(C) = Cardinality(1..m) - Cardinality((1..m) \cap I)
      BY <2>1, FS_Difference
    <2>3. (1..m) \cap I = I
      OBVIOUS
    <2> HIDE DEF C
    <2> QED
      BY <2>1, <2>2, <2>3
  <1>2. I = (1..m) \ C /\ C \in SUBSET (1..m)
    OBVIOUS
  <1>3. ASSUME NEW x \in C, x # 1, x # m PROVE x - 1 \in C \/ x + 1 \in C
    <2>1. x \in (1..m) \ I /\ x - 1 \in 1..m /\ x + 1 \in 1..m
      BY <1>3
    <2>2. x - 1 \notin I \/ x + 1 \notin I
      BY <2>1, OneBetween
    <2> QED
      BY <2>1, <2>2
  <1> HIDE DEF C
  <1>4. ASSUME m = n + 1 PROVE \E e \in {1, m} : I = 1..m \ {e}
    <2>1. Cardinality(C) = 1
      BY <1>1, <1>4
    <2>2. PICK e : C = {e}
      BY <1>1, <2>1, FS_Singleton
    <2>3. e \in 1..m /\ e - 1 # e /\ e + 1 # e
      BY <1>2, <2>2
    <2>4. e \in {1, m}
      BY <1>3, <2>2, <2>3
    <2> QED
      BY <1>2, <2>2, <2>4
  <1>5. ASSUME m = n + 2 PROVE \E k \in Pairs(m) : I = 1..m \ PairOf(m, k)
    <2>1. Cardinality(C) = 2
      BY <1>1, <1>5
    <2>2. C # {}
      BY <2>1, FS_EmptySet
    <2>3. PICK x \in C : TRUE
      BY <2>2
    <2>4. IsFiniteSet(C \ {x}) /\ Cardinality(C \ {x}) = 1
      BY <1>1, <2>1, <2>3, FS_RemoveElement
    <2>5. PICK y : C \ {x} = {y}
      BY <2>4, FS_Singleton
    <2>6. C = {x, y} /\ x # y /\ x \in 1..m /\ y \in 1..m
      BY <1>2, <2>3, <2>5
    <2>7. ASSUME NEW a \in 1..m, NEW b \in 1..m, a < b, C = {a, b}
          PROVE  \E k \in Pairs(m) : I = 1..m \ PairOf(m, k)
      <3>1. CASE b = a + 1
        <4>1. a \in Pairs(m) /\ a # 0
          BY <2>7, <3>1 DEF Pairs
        <4>2. PairOf(m, a) = C
          BY <2>7, <3>1, <4>1 DEF PairOf
        <4> QED
          BY <1>2, <4>1, <4>2
      <3>2. CASE b # a + 1
        <4>1. a - 1 # a /\ a - 1 # b /\ a + 1 # a /\ b - 1 # a /\ b - 1 # b /\ b + 1 # a /\ b + 1 # b /\ a # m /\ b # 1
          BY <2>7, <3>2
        <4>2. a = 1
          BY <1>3, <2>7, <3>2, <4>1
        <4>3. b = m
          BY <1>3, <2>7, <3>2, <4>1
        <4>4. 0 \in Pairs(m) /\ PairOf(m, 0) = C
          BY <2>7, <4>2, <4>3 DEF Pairs, PairOf
        <4> QED
          BY <1>2, <4>4
      <3> QED
        BY <3>1, <3>2
    <2>8. x < y \/ y < x
      BY <2>6
    <2>9. C = {y, x}
      BY <2>6
    <2> QED
      BY <2>6, <2>7, <2>8, <2>9
  <1> QED
    BY <1>4, <1>5

-----------------------------------------------------------------------------
(* Of one or two extrema too many those removed are the least. *)

\* References trimmed from a skeleton have lost no more than any alternating
\* choice of as many has, or are about to.
Cheapest(points, bones, n) ==
    \/ points = bones
    \/ /\ Len(bones) = n + 2 /\ Len(points) = n + 1
       /\ \E e \in {1, n + 1} : \A j \in Pairs(n + 2) : Total(points) - Tall(points[e]) >= Total(bones) - PairSum(bones, j)
    \/ /\ Len(points) = n
       /\ Len(bones) = n + 1 => \A e \in {1, n + 1} : Total(points) >= Total(bones) - Tall(bones[e])
       /\ Len(bones) = n + 2 => \A j \in Pairs(n + 2) : Total(points) >= Total(bones) - PairSum(bones, j)

LEMMA LengthOf ==
    ASSUME NEW points, Chain(points), NEW n \in Nat, Len(points) - n \in 1..2
    PROVE  Len(points) \in Nat /\ (Len(points) = n + 1 \/ Len(points) = n + 2)
  <1>1. Len(points) \in Nat
    BY SequenceIs DEF Chain
  <1> QED
    BY <1>1

LEMMA CheapestTrimmed ==
    ASSUME NEW f, NEW n \in Nat, f.n = n, n > 1, f.general,
           NEW points, Chain(points), Extremes(points), NEW m \in Nat, m = Len(points), m > n,
           NEW bones, Chain(bones), Extremes(bones), NEW p \in Nat, p = Len(bones), p = n + 1 \/ p = n + 2,
           NEW top \in Nat, Bounded(points, top), HoldsTop(points, top), Cheapest(points, bones, n)
    PROVE  Cheapest(Trimmed(f, points), bones, n)
  <1> DEFINE protect == Protected(points)
             t == Trimmed(f, points)
             sum == Total(bones)
  <1>1. IsSequence(points) /\ DOMAIN points = 1..m /\ IsSequence(bones) /\ DOMAIN bones = 1..p
    BY SequenceIs DEF Chain
  <1>2. t = IF m > n + 1 THEN WithoutAPair(points, protect) ELSE WithoutAnEnd(points, protect)
    BY DEF Trimmed
  <1>3. sum \in Int /\ \A i \in 1..p : Tall(bones[i]) \in Nat
    BY <1>1, TotalIsOver, TallIs DEF Extremes
  <1>4. ASSUME NEW j \in Pairs(n + 2), p = n + 2 PROVE PairSum(bones, j) \in Int
    <2>1. j = 0 \/ (j \in 1..(n + 2) /\ j + 1 \in 1..(n + 2))
      BY <1>1 DEF Pairs
    <2>2. 1 \in 1..(n + 2) /\ n + 2 \in 1..(n + 2) /\ Last(bones) = bones[n + 2]
      BY <1>1, <1>4 DEF Last
    <2>3. CASE j = 0
      <3>1. Tall(bones[1]) \in Nat /\ Tall(bones[n + 2]) \in Nat
        BY <1>3, <1>4, <2>2
      <3> QED
        BY <2>2, <2>3, <3>1 DEF PairSum
    <2>4. CASE j # 0
      <3>1. Tall(bones[j]) \in Nat /\ Tall(bones[j + 1]) \in Nat
        BY <1>3, <1>4, <2>1, <2>4
      <3> QED
        BY <2>4, <3>1 DEF PairSum
    <2> QED
      BY <2>3, <2>4
  <1> HIDE DEF t, protect, sum
  <1>5. CASE m = n + 1
    <2> DEFINE a == Tall(points[1])
               b == Tall(points[m])
               total == Total(points)
    <2>1. t = WithoutAnEnd(points, protect)
      BY <1>1, <1>2, <1>5
    <2>2. Len(t) = m - 1 /\ Total(t) >= total - a /\ Total(t) >= total - b
      BY <1>1, <2>1, LowerEndGoes DEF protect
    <2>3. IsSequence(t) /\ Extremes(t)
      <3>1. \E q \in DOMAIN points : points[q].u = protect /\ Tall(points[q]) = top
        BY <1>1, ProtectedIs DEF protect
      <3>2. Among(t, points)
        BY <1>1, <2>1, <3>1, WithoutAnEndIs
      <3>3. Chain(t)
        BY <1>1, TrimmedChain DEF t
      <3> QED
        BY <3>2, <3>3, AmongExtremes DEF Chain
    <2>4. Total(t) \in Int /\ total \in Int /\ a \in Nat /\ b \in Nat
      <3>1. 1 \in 1..m /\ m \in 1..m
        BY <1>1
      <3> QED
        BY <1>1, <2>3, <3>1, TotalIsOver, TallIs DEF Extremes
    <2>5. Len(t) = n
      BY <1>1, <1>5, <2>2
    <2>6. CASE points = bones
      <3>1. \A e \in {1, n + 1} : Total(t) >= sum - Tall(bones[e])
        BY <1>5, <2>2, <2>6 DEF sum
      <3>2. p # n + 2
        BY <1>1, <1>5, <2>6
      <3> QED
        BY <2>5, <3>1, <3>2 DEF Cheapest, t, sum
    <2>7. CASE points # bones
      <3>1. /\ p = n + 2
            /\ \E e \in {1, n + 1} : \A j \in Pairs(n + 2) : total - Tall(points[e]) >= sum - PairSum(bones, j)
        BY <1>1, <1>5, <2>7 DEF Cheapest, sum
      <3>2. PICK e \in {1, n + 1} : \A j \in Pairs(n + 2) : total - Tall(points[e]) >= sum - PairSum(bones, j)
        BY <3>1
      <3>3. Tall(points[e]) = a \/ Tall(points[e]) = b
        BY <1>5
      <3> HIDE DEF a, b, total
      <3>4. ASSUME NEW j \in Pairs(n + 2) PROVE Total(t) >= sum - PairSum(bones, j)
        <4>1. total - Tall(points[e]) >= sum - PairSum(bones, j)
          BY <3>2
        <4>2. PairSum(bones, j) \in Int
          BY <1>4, <3>1
        <4> QED
          BY <1>3, <2>2, <2>4, <3>3, <4>1, <4>2, SMTT(30)
      <3>5. p # n + 1
        BY <1>1, <3>1
      <3> QED
        BY <2>5, <3>4, <3>5 DEF Cheapest, t, sum
    <2> QED
      BY <2>6, <2>7
  <1>6. CASE m # n + 1
    <2>1. m > n + 1 /\ t = WithoutAPair(points, protect)
      BY <1>1, <1>2, <1>6
    <2>2. points = bones /\ m = n + 2 /\ m > 3
      BY <1>1, <2>1 DEF Cheapest
    <2>3. PICK k \in Pairs(m) :
              /\ t = Picked(points, 1..m \ Gone(m, k))
              /\ \A j \in Pairs(m) : PairSum(points, k) <= PairSum(points, j)
      BY <2>1, <2>2, LeastPairGoes DEF protect
    <2>4. \/ Len(t) = m - 2 /\ Total(t) = Total(points) - PairSum(points, k)
          \/ /\ Len(t) = m - 1
             /\ \E e \in {1, m - 1} : Total(t) - Tall(t[e]) = Total(points) - PairSum(points, k)
      BY <2>2, <2>3, PairGone
    <2>5. ASSUME NEW j \in Pairs(n + 2) PROVE sum - PairSum(points, k) >= sum - PairSum(bones, j)
      <3>1. PairSum(points, k) <= PairSum(bones, j) /\ PairSum(points, k) \in Int /\ PairSum(bones, j) \in Int
        BY <1>4, <2>2, <2>3
      <3> QED
        BY <1>3, <3>1
    <2>6. m - 2 = n /\ m - 1 = n + 1 /\ p = n + 2 /\ p # n + 1
      BY <1>1, <2>2
    <2>7. CASE Len(t) = m - 2 /\ Total(t) = Total(points) - PairSum(points, k)
      <3>1. Len(t) = n /\ Total(t) = sum - PairSum(points, k)
        BY <2>2, <2>6, <2>7 DEF sum
      <3> QED
        BY <2>5, <2>6, <3>1 DEF Cheapest, t, sum
    <2>8. CASE /\ Len(t) = m - 1
               /\ \E e \in {1, m - 1} : Total(t) - Tall(t[e]) = Total(points) - PairSum(points, k)
      <3>1. Len(t) = n + 1
        BY <2>6, <2>8
      <3>2. PICK e \in {1, n + 1} : Total(t) - Tall(t[e]) = sum - PairSum(points, k)
        BY <2>2, <2>6, <2>8 DEF sum
      <3>3. \A j \in Pairs(n + 2) : Total(t) - Tall(t[e]) >= sum - PairSum(bones, j)
        BY <2>5, <3>2
      <3> QED
        BY <2>6, <3>1, <3>3 DEF Cheapest, t, sum
    <2> QED
      BY <2>4, <2>7, <2>8
  <1> QED
    BY <1>5, <1>6

\* No alternating choice of as many has a larger sum.
LEMMA CheapestIsLargest ==
    ASSUME NEW n \in Nat, n > 1, NEW bones, Chain(bones), Extremes(bones),
           NEW m \in Nat, m = Len(bones), m = n + 1 \/ m = n + 2,
           NEW points, Len(points) \in Nat, Len(points) <= n, Cheapest(points, bones, n),
           NEW I \in SUBSET DOMAIN bones, Cardinality(I) = n, OddGaps(I)
    PROVE  Total(Picked(bones, I)) <= Total(points)
  <1> DEFINE sum == Total(bones)
  <1>1. IsSequence(bones) /\ DOMAIN bones = 1..m
    BY SequenceIs DEF Chain
  <1>2. /\ m = n + 1 => \A e \in {1, n + 1} : Total(points) >= sum - Tall(bones[e])
        /\ m = n + 2 => \A j \in Pairs(n + 2) : Total(points) >= sum - PairSum(bones, j)
    <2>1. points # bones
      BY <1>1
    <2>2. Len(points) # n + 1
      <3>1. Len(points) = n + 1 => n + 1 <= n
        OBVIOUS
      <3> QED
        BY <3>1
    <2> QED
      BY <2>1, <2>2 DEF Cheapest
  <1>3. sum \in Int /\ Total(Picked(bones, I)) = Over(bones, I)
    BY <1>1, TotalIsOver, TotalPicked
  <1>4. CASE m = n + 1
    <2>1. PICK e \in {1, m} : I = 1..m \ {e}
      BY <1>1, <1>4, LeftOut
    <2>2. e \in 1..m
      BY <1>1, <1>4, <2>1
    <2>3. Over(bones, 1..m \ {e}) = sum - Tall(bones[e])
      BY <1>1, <2>2, TotalWithout
    <2>4. Total(Picked(bones, I)) = sum - Tall(bones[e])
      BY <1>3, <2>1, <2>3
    <2>5. Total(points) >= sum - Tall(bones[e])
      BY <1>2, <1>4, <2>1
    <2> QED
      BY <2>4, <2>5
  <1>5. CASE m = n + 2
    <2>1. PICK k \in Pairs(m) : I = 1..m \ PairOf(m, k)
      BY <1>1, <1>5, LeftOut
    <2>2. Over(bones, 1..m \ PairOf(m, k)) = sum - PairSum(bones, k)
      <3>1. \A x, y \in 1..m : y # x => Over(bones, 1..m \ {x, y}) = sum - (Tall(bones[x]) + Tall(bones[y]))
        BY <1>1, TotalWithout
      <3>2. CASE k = 0
        <4>1. 1 \in 1..m /\ m \in 1..m /\ m # 1
          BY <1>1, <1>5
        <4>2. PairOf(m, k) = {1, m} /\ PairSum(bones, k) = Tall(bones[1]) + Tall(bones[m])
          BY <3>2 DEF PairOf, PairSum, Last
        <4> QED
          BY <3>1, <4>1, <4>2
      <3>3. CASE k # 0
        <4>1. k \in 1..m /\ k + 1 \in 1..m /\ k + 1 # k
          BY <1>1, <3>3 DEF Pairs
        <4>2. PairOf(m, k) = {k, k + 1} /\ PairSum(bones, k) = Tall(bones[k]) + Tall(bones[k + 1])
          BY <3>3 DEF PairOf, PairSum
        <4> QED
          BY <3>1, <4>1, <4>2
      <3> QED
        BY <3>2, <3>3
    <2>3. Total(points) >= sum - PairSum(bones, k)
      BY <1>2, <1>5, <2>1
    <2> QED
      BY <1>3, <2>1, <2>2, <2>3
  <1> QED
    BY <1>4, <1>5

\* Of a skeleton one or two too long, while references are selected.
TrimInvariant ==
    stage \in {"trim", "exchange"} /\ fit.general /\ Len(skeleton) - fit.n \in 1..2 =>
        /\ Chain(skeleton) /\ Extremes(skeleton) /\ Cheapest(alt, skeleton, fit.n)
        /\ stage = "exchange" => Len(alt) <= fit.n

LEMMA SolveCheapest == ASSUME FitInv, NodesInv, Solve PROVE TrimInvariant'
  <1>1. PICK c, e, all : \E top \in Nat :
            /\ IsCurve(c) /\ c # <<>> /\ NoFlatValley(c) /\ e \in 0..Peak(c)
            /\ curve' = c /\ extrema' = all /\ skeleton' = Alternation(fit, all, e)
            /\ alt' = IF fit.general THEN Padded(skeleton', all, fit.n) ELSE skeleton'
            /\ IsSequence(all) /\ Topped(all, top)
            /\ ~Polishing => /\ Chain(all) /\ Led(all, top) /\ top = Peak(c)
                             /\ Peak(c) >= Floor(fit, engine) => DOMAIN all # {}
    BY SolveIs
  <1>2. PICK top \in Nat :
            /\ Topped(all, top)
            /\ ~Polishing => Chain(all) /\ Led(all, top) /\ top = Peak(c)
    BY <1>1
  <1>3. stage = "solve" /\ stage' = "trim" /\ fit' = fit
    BY DEF Solve
  <1>4. fit.n \in Nat /\ fit.general \in BOOLEAN
    BY <1>3 DEF NodesInv, Instances
  <1> SUFFICES ASSUME fit.general, Len(skeleton') - fit.n \in 1..2
               PROVE  Chain(skeleton') /\ Extremes(skeleton') /\ Cheapest(alt', skeleton', fit.n)
    BY <1>3 DEF TrimInvariant
  <1>5. Chain(all) /\ IsSequence(all) /\ Led(all, top) /\ e \in 0..top
    BY <1>1, <1>2 DEF Polishing
  <1>6. skeleton' = Skeleton(all, e, fit.n) /\ alt' = Padded(skeleton', all, fit.n)
    BY <1>1 DEF Alternation
  <1>7. Chain(skeleton') /\ Among(skeleton', all)
    BY <1>2, <1>5, <1>6, SkeletonChain, SkeletonIs
  <1>8. Extremes(skeleton')
    BY <1>2, <1>7 DEF Topped, Among, Extremes
  <1>9. Len(skeleton') >= fit.n
    <2>1. Len(skeleton') \in Nat
      BY <1>7, SequenceIs DEF Chain
    <2> QED
      BY <1>4, <2>1
  <1>10. alt' = skeleton'
    BY <1>4, <1>5, <1>6, <1>7, <1>9, PaddedIs
  <1> QED
    BY <1>7, <1>8, <1>10 DEF Cheapest

LEMMA TrimCheapest == ASSUME NodesInv, SelectInv, TrimInvariant, Trim PROVE TrimInvariant'
  <1>1. stage = "trim" /\ UNCHANGED <<fit, skeleton>>
    BY DEF Trim
  <1> SUFFICES ASSUME fit.general, Len(skeleton) - fit.n \in 1..2
               PROVE  /\ Chain(skeleton) /\ Extremes(skeleton) /\ Cheapest(alt', skeleton, fit.n)
                      /\ stage' = "exchange" => Len(alt') <= fit.n
    BY <1>1 DEF TrimInvariant
  <1>2. fit.n \in Nat /\ fit.n > 1
    BY <1>1 DEF NodesInv, Instances
  <1>3. Chain(skeleton) /\ Extremes(skeleton) /\ Cheapest(alt, skeleton, fit.n)
    BY <1>1 DEF TrimInvariant
  <1>4. PICK top \in Nat : Topped(extrema, top) /\ Selection(alt, fit, extrema, skeleton, top)
    BY <1>1 DEF SelectInv
  <1>5. Chain(alt) /\ Among(alt, extrema) /\ (top > 0 /\ DOMAIN extrema # {} => HoldsTop(alt, top))
    <2>1. Chain(alt)
      BY <1>1 DEF NodesInv, Polishing
    <2> QED
      BY <1>4, <2>1 DEF Selection
  <1>6. Len(alt) \in Nat /\ DOMAIN alt = 1..Len(alt)
    BY <1>5, SequenceIs DEF Chain
  <1>9. Len(skeleton) \in Nat /\ (Len(skeleton) = fit.n + 1 \/ Len(skeleton) = fit.n + 2)
    BY <1>2, <1>3, LengthOf
  <1>7. CASE Len(alt) > fit.n
    <2>1. alt' = Trimmed(fit, alt) /\ stage' = "trim"
      BY <1>1, <1>7 DEF Trim
    <2>2. top \in Nat /\ Bounded(extrema, top) /\ Extremes(extrema)
      BY <1>4 DEF Topped
    <2>3. Extremes(alt) /\ Bounded(alt, top)
      BY <1>5, <2>2, AmongExtremes
    <2>4. HoldsTop(alt, top)
      <3>1. 1 \in DOMAIN alt
        BY <1>2, <1>6, <1>7
      <3>2. Tall(alt[1]) \in Nat /\ Tall(alt[1]) <= top
        BY <2>3, <3>1, TallIs DEF Extremes, Bounded
      <3>3. top = 0 => Tall(alt[1]) = top
        BY <3>2
      <3> QED
        BY <1>5, <2>2, <3>1, <3>3 DEF HoldsTop, Among
    <2>5. Cheapest(Trimmed(fit, alt), skeleton, fit.n)
      BY <1>2, <1>3, <1>6, <1>9, <1>5, <1>7, <2>2, <2>3, <2>4, CheapestTrimmed
    <2> QED
      BY <1>3, <2>1, <2>5
  <1>8. CASE ~(Len(alt) > fit.n)
    <2>1. alt' = alt
      BY <1>8 DEF Trim
    <2>2. Len(alt) <= fit.n
      BY <1>2, <1>6, <1>8
    <2> QED
      BY <1>3, <2>1, <2>2
  <1> QED
    BY <1>7, <1>8

LEMMA CheapestStep == ASSUME AllNodes, SelectInv, TrimInvariant, [Next]_vars PROVE TrimInvariant'
  <1>1. CASE Solve
    BY <1>1, SolveCheapest DEF AllNodes, AllInv
  <1>2. CASE Trim
    BY <1>2, TrimCheapest DEF AllNodes
  <1>3. CASE BlowUp
    BY <1>3 DEF BlowUp, FloatReturns, TrimInvariant
  <1>4. CASE Exchange
    BY <1>4 DEF Exchange, ExchangeGeneral, PolishGeneral, ExchangeSign, PolishSign,
                FloatReturns, MpReturns, Again, TrimInvariant
  <1>5. CASE \E f, seed, eng : Begin(f, seed, eng)
    BY <1>5 DEF Begin, TrimInvariant
  <1>6. CASE Take
    BY <1>6 DEF Take, Clear, TrimInvariant
  <1>7. CASE UNCHANGED fitVars
    BY <1>7 DEF fitVars, TrimInvariant
  <1> QED
    BY <1>1, <1>2, <1>3, <1>4, <1>5, <1>6, <1>7, FitMoves

LEMMA CheapestInvariant == AllSpec => []TrimInvariant
  <1>1. AllInit => TrimInvariant
    BY DEF AllInit, Init, NoFit, TrimInvariant
  <1>2. AllNodes /\ SelectInv /\ TrimInvariant /\ [AllNext]_allVars => TrimInvariant'
    <2>1. [AllNext]_allVars => [Next]_vars
      BY DEF AllNext, Fitting, SearchingSign, allVars
    <2> QED
      BY <2>1, CheapestStep
  <1> QED
    BY <1>1, <1>2, AllNodesInvariant, SelectInvariant, PTL DEF AllSpec

LEMMA CheapestSum == ASSUME AllNodes, SelectInv, TrimInvariant PROVE LargestSum
  <1> DEFINE alternating(I) == \A i, j \in I : i < j /\ (\A k \in I : k <= i \/ k >= j) => (j - i) % 2 = 1
  <1>1. SUFFICES ASSUME stage = "exchange", fit.general, Len(skeleton) - fit.n \in 1..2,
                        NEW I \in SUBSET DOMAIN skeleton, Cardinality(I) = fit.n, alternating(I)
                 PROVE  Total(Picked(skeleton, I)) <= Total(alt)
    BY DEF LargestSum
  <1>2. fit.n \in Nat /\ fit.n > 1
    BY <1>1 DEF AllNodes, NodesInv, Instances
  <1>3. OddGaps(I)
    BY <1>1 DEF OddGaps
  <1>4. Chain(skeleton) /\ Extremes(skeleton) /\ Cheapest(alt, skeleton, fit.n) /\ Len(alt) <= fit.n
    BY <1>1 DEF TrimInvariant
  <1>5. /\ Len(skeleton) \in Nat /\ (Len(skeleton) = fit.n + 1 \/ Len(skeleton) = fit.n + 2)
    BY <1>1, <1>2, <1>4, LengthOf
  <1>6. Len(alt) \in Nat
    BY <1>1, SequenceIs DEF AllNodes, NodesInv
  <1> QED
    BY <1>1, <1>2, <1>3, <1>4, <1>5, <1>6, CheapestIsLargest

\* Of one or two extrema too many a fit removes those that cost the least of the
\* sum of the errors, end by end or pair by pair, and the sign search returns
\* the composite of the smallest depth of all that exist, raising when none
\* does (_select_references, sign_minimax).
THEOREM ChoicesBest == AllSpec => []ChoicesAreBest
  <1>1. AllNodes /\ SelectInv /\ TrimInvariant => LargestSum
    BY CheapestSum
  <1>2. LargestSum /\ SmallestDepth => ChoicesAreBest
    BY DEF ChoicesAreBest
  <1> QED
    BY <1>1, <1>2, AllNodesInvariant, SelectInvariant, CheapestInvariant, FindsSmallestDepth, PTL

=============================================================================
