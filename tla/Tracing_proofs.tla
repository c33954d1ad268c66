------------------------- MODULE Tracing_proofs -------------------------
(* Theorems about the tracing of levels (LevelTracing), for chains of any    *)
(* size, any budgets and any number of custom inputs, and about the tracing  *)
(* of shapes (ShapeTracing), for tensors of any rank and any sizes.          *)
EXTENDS LevelTracing, ShapeTracing, FiniteSetTheorems, SequenceTheorems, WellFoundedInduction, TLAPS

-----------------------------------------------------------------------------
(* Levels: lists of rows. *)

LEMMA RemoveAtFacts ==
    ASSUME NEW T, NEW s \in Seq(T), NEW i \in 1..Len(s)
    PROVE  /\ RemoveAt(s, i) \in Seq(T) /\ Len(RemoveAt(s, i)) = Len(s) - 1
           /\ \A j \in 1..(Len(s) - 1) : RemoveAt(s, i)[j] = IF j < i THEN s[j] ELSE s[j + 1]
  <1> DEFINE front == SubSeq(s, 1, i - 1)
             back == SubSeq(s, i + 1, Len(s))
  <1>1. /\ front \in Seq(T) /\ Len(front) = i - 1
        /\ \A j \in 1..(i - 1) : front[j] = s[j]
    OBVIOUS
  <1>2. /\ back \in Seq(T) /\ Len(back) = Len(s) - i
        /\ \A j \in 1..(Len(s) - i) : back[j] = s[i + j]
    OBVIOUS
  <1>3. /\ front \o back \in Seq(T) /\ Len(front \o back) = Len(front) + Len(back)
        /\ \A j \in 1..(Len(front) + Len(back)) :
               (front \o back)[j] = IF j <= Len(front) THEN front[j] ELSE back[j - Len(front)]
    BY <1>1, <1>2, ConcatProperties
  <1> HIDE DEF front, back
  <1>4. RemoveAt(s, i) = front \o back
    BY DEF RemoveAt, front, back
  <1>5. Len(s) \in Nat
    BY LenProperties
  <1>6. ASSUME NEW j \in 1..(Len(s) - 1)
        PROVE  (front \o back)[j] = IF j < i THEN s[j] ELSE s[j + 1]
    <2>1. CASE j < i
      BY <1>1, <1>2, <1>3, <1>5, <2>1
    <2>2. CASE ~(j < i)
      <3>1. (front \o back)[j] = back[j - (i - 1)] /\ j - (i - 1) \in 1..(Len(s) - i)
        BY <1>1, <1>2, <1>3, <1>5, <2>2
      <3> QED
        BY <1>2, <1>5, <2>2, <3>1
    <2> QED
      BY <1>5, <2>1, <2>2
  <1> QED
    BY <1>1, <1>2, <1>3, <1>4, <1>5, <1>6

LEMMA ConsecutiveFacts ==
    ASSUME NEW a \in Nat, NEW n \in Nat, a + n <= P + S + 1
    PROVE  /\ Consecutive(a, n) \in Seq(Row) /\ Len(Consecutive(a, n)) = n
           /\ \A i \in 1..n : Consecutive(a, n)[i] = a + i - 1
  <1>1. Consecutive(a, n) \in [1..n -> Row]
    BY LevelAssumption DEF Consecutive, Row
  <1>2. \A i \in 1..n : Consecutive(a, n)[i] = a + i - 1
    BY DEF Consecutive
  <1> QED
    BY <1>1, <1>2

LEMMA FullLevelFacts ==
    ASSUME NEW rows \in Seq(Row)
    PROVE  FullLevel(rows) \in Level /\ FullLevel(rows).rows = rows
  BY LevelAssumption DEF FullLevel, Level

LEMMA OrderedRows ==
    ASSUME NEW rows \in Seq(Row),
           \A i, j \in 1..Len(rows) : i < j =>
               rows[i] < rows[j] \/ (slim /\ rows[i] = Base /\ rows[j] \in StC)
    PROVE  FullLevel(rows) \in Level /\ Ordered(FullLevel(rows))
  <1>1. DOMAIN rows = 1..Len(rows)
    BY LenProperties
  <1> QED
    BY <1>1, FullLevelFacts DEF Ordered

LEMMA BaseRow == <<Base>> \in Seq(Row) /\ Len(<<Base>>) = 1 /\ <<Base>>[1] = Base
  <1>1. Base \in Row
    BY LevelAssumption DEF Base, Row
  <1> QED
    BY <1>1

LEMMA InitRowsFacts ==
    ASSUME slim \in BOOLEAN, NEW k, NEW n \in {None} \cup 0..P
    PROVE  FullLevel(InitRows(k, n)) \in Level /\ Ordered(FullLevel(InitRows(k, n)))
  <1>1. CASE k = "plain"
    <2>1. InitRows(k, n) = Consecutive(0, P)
      BY <1>1 DEF InitRows
    <2>2. /\ Consecutive(0, P) \in Seq(Row) /\ Len(Consecutive(0, P)) = P
          /\ \A i \in 1..P : Consecutive(0, P)[i] = i - 1
      <3>1. 0 \in Nat /\ P \in Nat /\ 0 + P <= P + S + 1 /\ \A i \in 1..P : 0 + i - 1 = i - 1
        BY LevelAssumption
      <3>2. /\ Consecutive(0, P) \in Seq(Row) /\ Len(Consecutive(0, P)) = P
            /\ \A i \in 1..P : Consecutive(0, P)[i] = 0 + i - 1
        BY <3>1, ConsecutiveFacts
      <3> QED
        BY <3>1, <3>2
    <2> QED
      <3>1. \A i, j \in 1..Len(Consecutive(0, P)) : i < j => Consecutive(0, P)[i] < Consecutive(0, P)[j]
        BY <2>2, LevelAssumption
      <3> QED
        BY <2>1, <2>2, <3>1, OrderedRows
  <1>2. CASE k # "plain"
    <2> DEFINE m == IF n = None THEN P ELSE n
               low == Consecutive(P - m, m)
               up == IF slim THEN Consecutive(P, S) ELSE <<>>
    <2>1. m \in 0..P
      BY LevelAssumption
    <2>2. /\ low \in Seq(Row) /\ Len(low) = m
          /\ \A i \in 1..m : low[i] = P - m + i - 1
      <3>1. P - m \in Nat /\ m \in Nat /\ P - m + m <= P + S + 1
        BY <2>1, LevelAssumption
      <3> QED
        BY <3>1, ConsecutiveFacts
    <2>3. /\ up \in Seq(Row) /\ Len(up) = IF slim THEN S ELSE 0
          /\ \A i \in 1..Len(up) : slim /\ up[i] = P + i - 1
      BY ConsecutiveFacts, EmptySeq, LevelAssumption
    <2> DEFINE body == low \o <<Base>>
               rows == body \o up
    <2> HIDE DEF low, up, m
    <2>3a. /\ body \in Seq(Row) /\ Len(body) = m + 1
           /\ \A i \in 1..m : body[i] = low[i]
           /\ body[m + 1] = Base
      BY <2>1, <2>2, BaseRow, ConcatProperties
    <2> HIDE DEF body
    <2>4. /\ rows \in Seq(Row) /\ Len(rows) = m + 1 + Len(up) /\ Len(up) \in Nat
          /\ \A i \in 1..Len(rows) : rows[i] = IF i <= m + 1 THEN body[i] ELSE up[i - (m + 1)]
      <3>1. m \in Nat /\ Len(up) \in Nat
        BY <2>1, <2>3, LenProperties, LevelAssumption
      <3>2. /\ rows \in Seq(Row) /\ Len(rows) = Len(body) + Len(up)
            /\ \A i \in 1..(Len(body) + Len(up)) : rows[i] = IF i <= Len(body) THEN body[i] ELSE up[i - Len(body)]
        BY <2>3, <2>3a, ConcatProperties
      <3> QED
        BY <2>3a, <3>1, <3>2
    <2>5. InitRows(k, n) = rows
      BY <1>2 DEF InitRows, low, up, m, body
    <2> HIDE DEF rows
    <2>6. \A i, j \in 1..Len(rows) : i < j =>
              rows[i] < rows[j] \/ (slim /\ rows[i] = Base /\ rows[j] \in StC)
      <3> SUFFICES ASSUME NEW i \in 1..Len(rows), NEW j \in 1..Len(rows), i < j
                   PROVE  rows[i] < rows[j] \/ (slim /\ rows[i] = Base /\ rows[j] \in StC)
        OBVIOUS
      <3>1. m \in Nat /\ m <= P /\ i \in Nat /\ j \in Nat /\ 1 <= i /\ j <= m + 1 + Len(up)
        BY <2>1, <2>4, LevelAssumption
      <3>2. ASSUME NEW h \in 1..Len(rows), h <= m
            PROVE  rows[h] = P - m + h - 1 /\ rows[h] < P
        BY <2>2, <2>3a, <2>4, <3>1, <3>2, LevelAssumption
      <3>3. ASSUME NEW h \in 1..Len(rows), h = m + 1
            PROVE  rows[h] = P + S
        BY <2>3a, <2>4, <3>1, <3>3, LevelAssumption DEF Base
      <3>4. ASSUME NEW h \in 1..Len(rows), h > m + 1
            PROVE  slim /\ rows[h] = P + (h - (m + 1)) - 1 /\ rows[h] \in StC
        <4>1. h - (m + 1) \in 1..Len(up) /\ rows[h] = up[h - (m + 1)]
          BY <2>4, <3>1, <3>4
        <4> QED
          <5>1. slim /\ Len(up) = S /\ rows[h] = P + (h - (m + 1)) - 1
            BY <2>3, <4>1
          <5> QED
            BY <3>1, <4>1, <5>1, LevelAssumption DEF StC
      <3>5. CASE i <= m
        <4>1. rows[i] = P - m + i - 1 /\ rows[i] < P
          BY <3>2, <3>5
        <4>2. CASE j <= m
          BY <3>1, <3>2, <4>1, <4>2, LevelAssumption
        <4>3. CASE j = m + 1
          BY <3>1, <3>3, <4>1, <4>3, LevelAssumption
        <4>4. CASE j > m + 1
          BY <3>1, <3>4, <4>1, <4>4, LevelAssumption
        <4> QED
          BY <3>1, <4>2, <4>3, <4>4
      <3>6. CASE i = m + 1
        BY <3>1, <3>3, <3>4, <3>6 DEF Base
      <3>7. CASE i > m + 1
        BY <3>1, <3>4, <3>7, LevelAssumption
      <3> QED
        BY <3>1, <3>5, <3>6, <3>7
    <2> QED
      BY <2>4, <2>5, <2>6, OrderedRows
  <1> QED
    BY <1>1, <1>2

LEMMA RefreshedFacts ==
    ASSUME slim \in BOOLEAN
    PROVE  Refreshed \in Level /\ Ordered(Refreshed)
  <1> DEFINE up == IF slim THEN Consecutive(P, S) ELSE <<>>
             low == Consecutive(0, P)
             body == low \o up
             rows == body \o <<Base>>
  <1>1. /\ low \in Seq(Row) /\ Len(low) = P /\ \A i \in 1..P : low[i] = i - 1
    BY ConsecutiveFacts, LevelAssumption
  <1>2. /\ up \in Seq(Row) /\ Len(up) \in {0, S}
        /\ \A i \in 1..Len(up) : up[i] = P + i - 1
    BY ConsecutiveFacts, EmptySeq, LevelAssumption
  <1> HIDE DEF low, up
  <1>3. /\ body \in Seq(Row) /\ Len(body) = P + Len(up) /\ Len(up) \in Nat
        /\ \A i \in 1..Len(body) : body[i] = i - 1
    <2>1. /\ body \in Seq(Row) /\ Len(body) = P + Len(up) /\ Len(up) \in Nat
          /\ \A i \in 1..(P + Len(up)) : body[i] = IF i <= P THEN low[i] ELSE up[i - P]
      BY <1>1, <1>2, ConcatProperties, LenProperties
    <2>2. ASSUME NEW i \in 1..Len(body)
          PROVE  body[i] = i - 1
      <3>1. CASE i <= P
        BY <1>1, <2>1, <3>1, LevelAssumption
      <3>2. CASE ~(i <= P)
        <4>1. body[i] = up[i - P] /\ i - P \in 1..Len(up)
          BY <2>1, <3>2, LevelAssumption
        <4> QED
          BY <1>2, <2>1, <4>1, LevelAssumption
      <3> QED
        BY <3>1, <3>2
    <2> QED
      BY <2>1, <2>2
  <1> HIDE DEF body
  <1>4. /\ rows \in Seq(Row) /\ Len(rows) = Len(body) + 1
        /\ \A i \in 1..Len(body) : rows[i] = body[i]
        /\ rows[Len(body) + 1] = Base
    BY <1>3, BaseRow, ConcatProperties, LevelAssumption
  <1> HIDE DEF rows
  <1>5. Refreshed = FullLevel(rows)
    BY DEF Refreshed, rows, body, low, up
  <1>6. \A i, j \in 1..Len(rows) : i < j => rows[i] < rows[j]
    <2> SUFFICES ASSUME NEW i \in 1..Len(rows), NEW j \in 1..Len(rows), i < j
                 PROVE  rows[i] < rows[j]
      OBVIOUS
    <2>1. i \in 1..Len(body) /\ rows[i] = i - 1 /\ i - 1 < P + Len(up)
      <3>1. Len(body) \in Nat /\ i \in 1..Len(body)
        BY <1>3, <1>4, LevelAssumption
      <3> QED
        BY <1>3, <1>4, <3>1, LevelAssumption
    <2>2. CASE j <= Len(body)
      BY <1>3, <1>4, <2>1, <2>2, LevelAssumption
    <2>3. CASE ~(j <= Len(body))
      <3>1. rows[j] = Base /\ Base >= P + Len(up)
        <4>1. Len(body) \in Nat /\ j = Len(body) + 1
          BY <1>3, <1>4, <2>3, LevelAssumption
        <4> QED
          BY <1>2, <1>3, <1>4, <4>1, LevelAssumption DEF Base
      <3> QED
        BY <1>3, <2>1, <3>1, LevelAssumption DEF Base
    <2> QED
      BY <2>2, <2>3
  <1> QED
    BY <1>4, <1>5, <1>6, OrderedRows

-----------------------------------------------------------------------------
(* Drops. *)

LEMMA LevelFacts ==
    ASSUME NEW v \in Level
    PROVE  /\ v.rows \in Seq(Row) /\ Len(v.rows) \in Nat /\ DOMAIN v.rows = 1..Len(v.rows)
           /\ \A i \in DOMAIN v.rows : v.rows[i] \in Row
           /\ Rows(v) \subseteq Row
           /\ \A r \in Row : v.cols[r] \subseteq 1..Width[r]
  <1>1. /\ v.rows \in Seq(Row) /\ \A r \in Row : v.cols[r] \subseteq 1..Width[r]
    BY DEF Level
  <1>2. Len(v.rows) \in Nat /\ v.rows \in [1..Len(v.rows) -> Row] /\ DOMAIN v.rows = 1..Len(v.rows)
    BY <1>1, LenProperties
  <1> QED
    BY <1>1, <1>2 DEF Rows

LEMMA DroppedIsActive ==
    ASSUME NEW v, NEW i, NEW n
    PROVE  Dropped(v, i, n) \subseteq v.cols[v.rows[i]]
  BY DEF Dropped, Lowest

\* A drop takes rows and columns away and leaves the rest in its order.
LEMMA DropFacts ==
    ASSUME NEW v \in Level, NEW i \in DOMAIN v.rows, NEW n
    PROVE  /\ AfterDrop(v, i, n) \in Level
           /\ Rows(AfterDrop(v, i, n)) \subseteq Rows(v)
           /\ Active(AfterDrop(v, i, n)) \subseteq Active(v)
           /\ Ordered(v) => Ordered(AfterDrop(v, i, n))
  <1> DEFINE w == AfterDrop(v, i, n)
             r == v.rows[i]
  <1>1. i \in 1..Len(v.rows) /\ Len(v.rows) \in Nat /\ v.rows \in Seq(Row) /\ r \in Row
    BY LevelFacts
  <1>2. /\ RemoveAt(v.rows, i) \in Seq(Row) /\ Len(RemoveAt(v.rows, i)) = Len(v.rows) - 1
        /\ DOMAIN RemoveAt(v.rows, i) = 1..(Len(v.rows) - 1)
        /\ \A j \in 1..(Len(v.rows) - 1) :
               RemoveAt(v.rows, i)[j] = IF j < i THEN v.rows[j] ELSE v.rows[j + 1]
    <2>1. /\ RemoveAt(v.rows, i) \in Seq(Row) /\ Len(RemoveAt(v.rows, i)) = Len(v.rows) - 1
          /\ \A j \in 1..(Len(v.rows) - 1) :
               RemoveAt(v.rows, i)[j] = IF j < i THEN v.rows[j] ELSE v.rows[j + 1]
      BY <1>1, RemoveAtFacts
    <2> QED
      BY <2>1, LenProperties
  <1>3. /\ w.rows = IF WholeRow(v, i, n) THEN RemoveAt(v.rows, i) ELSE v.rows
        /\ w.cols = [v.cols EXCEPT ![r] = @ \ Dropped(v, i, n)]
    BY DEF AfterDrop
  <1>4. w \in Level
    <2>1. v.cols \in [Row -> SUBSET Nat] /\ \A q \in Row : v.cols[q] \subseteq 1..Width[q]
      BY DEF Level
    <2>2. w.cols \in [Row -> SUBSET Nat] /\ \A q \in Row : w.cols[q] \subseteq 1..Width[q]
      BY <1>1, <1>3, <2>1
    <2>3. w.rows \in Seq(Row)
      BY <1>1, <1>2, <1>3
    <2>4. w = [rows |-> w.rows, cols |-> w.cols]
      BY DEF AfterDrop
    <2> QED
      BY <2>2, <2>3, <2>4 DEF Level
  <1>5. \A j \in DOMAIN w.rows : \E h \in DOMAIN v.rows : w.rows[j] = v.rows[h]
    <2>1. CASE WholeRow(v, i, n)
      <3>1. DOMAIN v.rows = 1..Len(v.rows) /\ w.rows = RemoveAt(v.rows, i)
        BY <1>3, <2>1, LevelFacts
      <3>2. \A j \in 1..(Len(v.rows) - 1) : j \in 1..Len(v.rows) /\ j + 1 \in 1..Len(v.rows)
        BY <1>1
      <3> HIDE DEF w
      <3> QED
        BY <1>2, <3>1, <3>2
    <2>2. CASE ~WholeRow(v, i, n)
      BY <1>3, <2>2
    <2> QED
      BY <2>1, <2>2
  <1>6. Rows(w) \subseteq Rows(v)
    BY <1>5 DEF Rows
  <1>7. \A q \in Row : w.cols[q] \subseteq v.cols[q]
    <2>1. v.cols \in [Row -> SUBSET Nat]
      BY DEF Level
    <2> QED
      BY <1>3, <2>1
  <1>8. Active(w) \subseteq Active(v)
    <2>1. Rows(v) \subseteq Row
      BY LevelFacts
    <2> QED
      BY <1>6, <1>7, <2>1 DEF Active
  <1>9. ASSUME Ordered(v)  PROVE Ordered(w)
    <2>1. CASE WholeRow(v, i, n)
      <3> SUFFICES ASSUME NEW a \in 1..(Len(v.rows) - 1), NEW b \in 1..(Len(v.rows) - 1), a < b
                   PROVE  w.rows[a] < w.rows[b] \/ (slim /\ w.rows[a] = Base /\ w.rows[b] \in StC)
        BY <1>2, <1>3, <2>1 DEF Ordered
      <3> DEFINE c == IF a < i THEN a ELSE a + 1
                 d == IF b < i THEN b ELSE b + 1
      <3>1. c \in DOMAIN v.rows /\ d \in DOMAIN v.rows /\ c < d
        BY <1>1, LevelFacts
      <3>2. w.rows[a] = v.rows[c] /\ w.rows[b] = v.rows[d]
        BY <1>2, <1>3, <2>1
      <3> QED
        BY <1>9, <3>1, <3>2 DEF Ordered
    <2>2. CASE ~WholeRow(v, i, n)
      BY <1>3, <1>9, <2>2 DEF Ordered
    <2> QED
      BY <2>1, <2>2
  <1> QED
    BY <1>4, <1>6, <1>8, <1>9

-----------------------------------------------------------------------------
(* The row whose factors are used. *)

\* Of two rows, the later one has more rows below it.
LEMMA RankGrows ==
    ASSUME NEW R \in SUBSET Row, NEW x \in R, NEW y \in R, x < y
    PROVE  Cardinality({q \in R : q < x}) # Cardinality({q \in R : q < y})
  <1> DEFINE A == {q \in R : q < x}
             B == {q \in R : q < y}
  <1>1. IsFiniteSet(B)
    <2>1. IsFiniteSet(Row)
      BY FS_Interval, LevelAssumption DEF Row
    <2>2. B \in SUBSET Row
      OBVIOUS
    <2> QED
      BY <2>1, <2>2, FS_Subset
  <1>2. A \in SUBSET B
    <2>1. \A q \in R : q \in Nat
      BY LevelAssumption DEF Row
    <2> QED
      BY <2>1
  <1>3. x \in B /\ x \notin A
    BY LevelAssumption DEF Row
  <1> QED
    BY <1>1, <1>2, <1>3, FS_Subset

\* A row that is preceded by just the rows below it is found at its position.
LEMMA FactorRowFound ==
    ASSUME NEW v \in Level, NEW i \in DOMAIN v.rows,
           \A j \in DOMAIN v.rows : v.rows[j] < v.rows[i] <=> j < i,
           \A j, h \in 1..(i - 1) : v.rows[j] = v.rows[h] => j = h
    PROVE  FactorRow(v, i) = v.rows[i]
  <1> DEFINE r == v.rows[i]
             below == {q \in Rows(v) : q < r}
             f == [j \in 1..(i - 1) |-> v.rows[j]]
  <1>1. i \in 1..Len(v.rows) /\ Len(v.rows) \in Nat /\ DOMAIN v.rows = 1..Len(v.rows)
        /\ Rows(v) \in SUBSET Row /\ r \in Rows(v)
    BY LevelFacts DEF Rows
  <1>2. f \in Bijection(1..(i - 1), below)
    <2>1. f \in [1..(i - 1) -> below]
      BY <1>1 DEF Rows
    <2>2. \A q \in below : \E j \in 1..(i - 1) : f[j] = q
      BY <1>1 DEF Rows
    <2>3. \A j, h \in 1..(i - 1) : f[j] = f[h] => j = h
      OBVIOUS
    <2> QED
      BY <2>1, <2>2, <2>3 DEF Bijection, Injection, Surjection, IsInjective
  <1>3. Cardinality(below) = i - 1
    BY <1>1, <1>2, FS_CountingElements DEF ExistsBijection
  <1>4. ASSUME NEW q \in Rows(v), Cardinality({p \in Rows(v) : p < q}) = i - 1
        PROVE  q = r
    <2>1. q \in Nat /\ r \in Nat
      BY <1>1, LevelAssumption DEF Row
    <2>2. ~(q < r) /\ ~(r < q)
      BY <1>1, <1>3, <1>4, RankGrows
    <2> QED
      BY <2>1, <2>2
  <1> QED
    BY <1>1, <1>3, <1>4 DEF FactorRow

LEMMA FactorsMatch ==
    ASSUME NEW v \in Level, Ordered(v), NEW i \in DOMAIN v.rows,
           ~slim \/ v.rows[i] \in Pipeline
    PROVE  FactorRow(v, i) = v.rows[i]
  <1>1. /\ i \in 1..Len(v.rows) /\ Len(v.rows) \in Nat /\ DOMAIN v.rows = 1..Len(v.rows)
        /\ \A j \in DOMAIN v.rows : v.rows[j] \in Nat
    BY LevelFacts, LevelAssumption DEF Row
  <1>2. ASSUME NEW j \in DOMAIN v.rows, NEW h \in DOMAIN v.rows, j < h, ~slim \/ v.rows[h] \in Pipeline
        PROVE  v.rows[j] < v.rows[h]
    BY <1>2, LevelAssumption DEF Ordered, Pipeline, StC
  <1>3. ASSUME NEW j \in DOMAIN v.rows, i < j  PROVE ~(v.rows[j] < v.rows[i])
    BY <1>1, <1>3, LevelAssumption DEF Ordered, Pipeline, StC, Base
  <1>4. \A j \in DOMAIN v.rows : v.rows[j] < v.rows[i] <=> j < i
    BY <1>1, <1>2, <1>3
  <1>5. \A j \in 1..(i - 1) : ~slim \/ v.rows[j] \in Pipeline
    BY <1>1, <1>2, LevelAssumption DEF Pipeline
  <1>6. \A j, h \in 1..(i - 1) : v.rows[j] = v.rows[h] => j = h
    <2> SUFFICES ASSUME NEW j \in 1..(i - 1), NEW h \in 1..(i - 1), v.rows[j] = v.rows[h] PROVE j = h
      OBVIOUS
    <2>1. j \in DOMAIN v.rows /\ h \in DOMAIN v.rows /\ j \in Int /\ h \in Int
      BY <1>1
    <2>2. v.rows[j] \in Nat /\ v.rows[h] \in Nat /\ ~(v.rows[j] < v.rows[h]) /\ ~(v.rows[h] < v.rows[j])
      BY <1>1, <2>1
    <2>3. ~(j < h) /\ ~(h < j)
      BY <1>2, <1>5, <2>1, <2>2
    <2> QED
      BY <2>1, <2>3
  <1> QED
    BY <1>4, <1>6, FactorRowFound

-----------------------------------------------------------------------------
(* Operands. *)

\* What the tracer knows of custom inputs agrees with how they were used.
Remembers(k, u) ==
    /\ k \in [Custom -> Level \cup {None}] /\ u \subseteq Custom \X Level
    /\ \A c \in Custom : k[c] # None => Ordered(k[c])
    /\ \A e \in u : k[e[1]] = e[2]

LEMMA InvRemembers == IInv => Remembers(known, uses)
  BY DEF IInv, TypeOK, Remembers

LEMMA LevelsInUse ==
    ASSUME IInv, NEW v \in Levels
    PROVE  v \in Level /\ Ordered(v)
  <1>1. InitLevel \in Level /\ Ordered(InitLevel)
    BY InitRowsFacts DEF IInv, TypeOK, InitLevel
  <1> QED
    BY <1>1 DEF IInv, TypeOK, Levels

LEMMA LearnKeeps ==
    ASSUME NEW k, NEW u, Remembers(k, u), NEW x, x.custom \in Custom \cup {None},
           NEW v \in Level, Ordered(v),
           x.custom # None => k[x.custom] \in {None, v}
    PROVE  Remembers(Learn(k, x, v), u \cup Used(x, v))
  <1>1. CASE x.custom = None
    BY <1>1 DEF Learn, Used
  <1>2. CASE x.custom # None
    <2> DEFINE c == x.custom
               k2 == [k EXCEPT ![c] = v]
    <2>1. /\ c \in Custom /\ Learn(k, x, v) = k2 /\ Used(x, v) = {<<c, v>>}
          /\ k \in [Custom -> Level \cup {None}] /\ k2 \in [Custom -> Level \cup {None}]
      BY <1>2 DEF Learn, Used, Remembers
    <2>2. \A d \in Custom : k2[d] # None => Ordered(k2[d])
      BY <2>1 DEF Remembers
    <2>3. ASSUME NEW e \in u \cup {<<c, v>>}  PROVE k2[e[1]] = e[2]
      <3>1. CASE e = <<c, v>>
        BY <2>1, <3>1
      <3>2. CASE e \in u /\ e[1] # c
        BY <2>1, <3>2 DEF Remembers
      <3>3. CASE e \in u /\ e[1] = c
        BY <2>1, <3>3, <1>2, LevelAssumption DEF Remembers
      <3> QED
        BY <2>3, <3>1, <3>2, <3>3
    <2>4. u \cup {<<c, v>>} \subseteq Custom \X Level
      BY <2>1 DEF Remembers
    <2> QED
      BY <2>1, <2>2, <2>3, <2>4 DEF Remembers
  <1> QED
    BY <1>1, <1>2

LEMMA OperandCustom ==
    ASSUME NEW x \in Operand
    PROVE  x.custom \in Custom \cup {None}
  BY DEF Operand, HandedOn

LEMMA UnaryKeeps ==
    ASSUME IInv, NEW x \in Operand, NEW v \in Levels, Unary(x, v)
    PROVE  v \in Level /\ Ordered(v) /\ Remembers(known', uses')
  <1>1. v \in Level /\ Ordered(v)
    BY LevelsInUse
  <1>2. x.custom # None => known[x.custom] \in {None, v}
    BY DEF Unary, Resolved
  <1> QED
    BY <1>1, <1>2, InvRemembers, OperandCustom, LearnKeeps DEF Unary

LEMMA BinaryKeeps ==
    ASSUME IInv, NEW x \in Operand, NEW y \in Operand, NEW v \in Levels, NEW w \in Levels,
           Binary(x, y, v, w)
    PROVE  /\ v \in Level /\ Ordered(v) /\ w \in Level /\ Ordered(w)
           /\ Remembers(known', uses')
  <1> DEFINE seen == Learn(known, x, v)
             used == uses \cup Used(x, v)
  <1>1. v \in Level /\ Ordered(v) /\ w \in Level /\ Ordered(w)
    BY LevelsInUse
  <1>2. x.custom # None => known[x.custom] \in {None, v}
    BY DEF Binary, Resolved
  <1>3. Remembers(seen, used)
    BY <1>1, <1>2, InvRemembers, OperandCustom, LearnKeeps
  <1>4. y.custom # None => seen[y.custom] \in {None, w}
    BY DEF Binary, Resolved
  <1>5. known' = Learn(seen, y, w) /\ uses' = used \cup Used(y, w)
    BY DEF Binary
  <1> HIDE DEF seen, used
  <1> QED
    BY <1>1, <1>3, <1>4, <1>5, OperandCustom, LearnKeeps

LEMMA AdjustedFacts ==
    ASSUME NEW v \in Level, NEW w \in Level, Ordered(v), Ordered(w), Fits(v, w) \/ Fits(w, v)
    PROVE  /\ Adjusted(v, w) \in Level /\ Ordered(Adjusted(v, w))
           /\ Active(Adjusted(v, w)) \subseteq Active(v) /\ Active(Adjusted(v, w)) \subseteq Active(w)
  <1>1. ASSUME NEW a \in Level, NEW b \in Level, Fits(a, b)  PROVE Active(a) \subseteq Active(b)
    BY <1>1 DEF Active, Fits
  <1> QED
    BY <1>1 DEF Adjusted

-----------------------------------------------------------------------------
(* The invariant. *)

Inv == IInv /\ DropsAreExact /\ PipelineFirst /\ NoPrimeReturns

LEMMA RecordKeeps ==
    ASSUME Inv, Tracing, NEW op, NEW ins \in Seq(Level), NEW out \in Level, Ordered(out), NEW drop,
           drop.row \in Row \cup {None}, drop.removed \subseteq Row \X Nat,
           drop = NoDrop \/ drop.row \in Row,
           (~slim \/ drop.row \in Pipeline) => drop.by = drop.removed,
           op \in {"mul", "const_mul"} /\ drop.row \in Row \ Pipeline
               => Rows(out) \cap Pipeline \cap drop.budget = {},
           op # "refresh" => \A i \in DOMAIN ins : Active(out) \subseteq Active(ins[i]),
           Remembers(known', uses'), Record(op, ins, out, drop)
    PROVE  Inv'
  <1>1. last'.op = op /\ last'.ins = ins /\ last'.out = out /\ last'.drop = drop
        /\ slim' = slim /\ numInit' = numInit /\ kind' = kind
        /\ values' = values \cup {out} /\ ops' = ops + 1
        /\ dropOrder' = IF drop = NoDrop THEN dropOrder ELSE Append(dropOrder, drop.row)
    BY DEF Record
  <1>2. TypeOK'
    <2>1. dropOrder' \in Seq(Row)
      BY <1>1 DEF Inv, IInv, TypeOK
    <2>2. ops' \in 0..MaxOps
      BY <1>1, LevelAssumption DEF Inv, IInv, TypeOK, Tracing
    <2> QED
      BY <1>1, <2>1, <2>2 DEF Inv, IInv, TypeOK, Remembers
  <1>3. \A v : Ordered(v) => Ordered(v)'
    BY <1>1 DEF Ordered
  <1>4. IInv'
    BY <1>1, <1>2, <1>3 DEF Inv, IInv, Remembers, Ordered
  <1>5. DropsAreExact'
    BY <1>1 DEF DropsAreExact
  <1>6. PipelineFirst'
    BY <1>1 DEF PipelineFirst
  <1>7. NoPrimeReturns'
    BY <1>1 DEF NoPrimeReturns
  <1> QED
    BY <1>4, <1>5, <1>6, <1>7 DEF Inv

\* What a drop records is typed, and exact where the rows are in order.
LEMMA DropRecordFacts ==
    ASSUME NEW v \in Level, Ordered(v), NEW i \in DOMAIN v.rows, NEW n, NEW budget
    PROVE  LET d == DropRecord(v, i, n, budget) IN
           /\ d.row = v.rows[i] /\ d.row \in Row /\ d.budget = budget /\ d.removed \subseteq Row \X Nat
           /\ (~slim \/ d.row \in Pipeline) => d.by = d.removed
  <1> DEFINE d == DropRecord(v, i, n, budget)
             r == v.rows[i]
  <1>1. r \in Row /\ Dropped(v, i, n) \subseteq v.cols[r] /\ v.cols[r] \subseteq 1..Width[r]
    BY LevelFacts, DroppedIsActive
  <1>2. d.row = r /\ d.budget = budget /\ d.removed = {<<r, c>> : c \in Dropped(v, i, n)}
        /\ d.by = {<<FactorRow(v, i), c>> : c \in Dropped(v, i, n) \cap 1..Width[FactorRow(v, i)]}
    BY DEF DropRecord
  <1>3. d.removed \subseteq Row \X Nat
    BY <1>1, <1>2
  <1>4. ASSUME ~slim \/ r \in Pipeline  PROVE d.by = d.removed
    <2>1. FactorRow(v, i) = r
      BY <1>4, FactorsMatch
    <2> QED
      BY <1>1, <1>2, <2>1
  <1> HIDE DEF d
  <1> QED
    BY <1>1, <1>2, <1>3, <1>4 DEF d

\* The first row of the budget is behind the pipeline's only if the budget has
\* none of them left.
LEMMA FirstIsPipeline ==
    ASSUME NEW v \in Level, Ordered(v), NEW i, NEW budget, FirstInBudget(v, budget, i),
           v.rows[i] \notin Pipeline
    PROVE  Rows(v) \cap Pipeline \cap budget = {}
  <1>1. i \in DOMAIN v.rows /\ \A j \in 1..(i - 1) : v.rows[j] \notin budget
    BY DEF FirstInBudget
  <1>2. i \in Nat /\ DOMAIN v.rows \subseteq Nat \ {0} /\ v.rows[i] \in Row
    BY <1>1, LevelFacts
  <1>3. ASSUME NEW j \in DOMAIN v.rows, v.rows[j] \in Pipeline, v.rows[j] \in budget  PROVE FALSE
    <2>1. CASE j < i
      BY <1>1, <1>2, <1>3, <2>1
    <2>2. CASE j = i
      BY <1>3, <2>2
    <2>3. CASE i < j
      <3>1. v.rows[j] \in 0..(P - 1) /\ v.rows[j] \notin StC
        BY <1>3, LevelAssumption DEF Pipeline, StC
      <3>2. v.rows[i] < v.rows[j]
        BY <1>1, <2>3, <3>1 DEF Ordered
      <3> QED
        BY <1>2, <3>1, <3>2, LevelAssumption DEF Pipeline, Row
    <2> QED
      BY <1>2, <2>1, <2>2, <2>3
  <1> QED
    BY <1>3 DEF Rows

LEMMA NoDropFacts ==
    /\ NoDrop.row = None /\ NoDrop.by = NoDrop.removed /\ NoDrop.removed \subseteq Row \X Nat
    /\ None \notin Row
  BY LevelAssumption DEF NoDrop, Row

LEMMA RescaleKeeps ==
    ASSUME Inv, Tracing, NEW op \in {"mul", "const_mul"}, NEW ins \in Seq(Level), NEW v \in Level, Ordered(v),
           \A i \in DOMAIN ins : Active(v) \subseteq Active(ins[i]),
           NEW rescales \in BOOLEAN, NEW budget, Rescale(op, ins, v, rescales, budget),
           Remembers(known', uses')
    PROVE  Inv'
  <1>1. CASE Record(op, ins, v, NoDrop)
    BY <1>1, NoDropFacts, RecordKeeps
  <1>2. ASSUME NEW i \in DOMAIN v.rows, FirstInBudget(v, budget, i),
               Record(op, ins, AfterDrop(v, i, 1), DropRecord(v, i, 1, budget))
        PROVE  Inv'
    <2> DEFINE d == DropRecord(v, i, 1, budget)
               w == AfterDrop(v, i, 1)
    <2>1. /\ w \in Level /\ Ordered(w) /\ Rows(w) \subseteq Rows(v)
          /\ \A j \in DOMAIN ins : Active(w) \subseteq Active(ins[j])
      BY DropFacts
    <2>2. /\ d.row = v.rows[i] /\ d.row \in Row /\ d.budget = budget /\ d.removed \subseteq Row \X Nat
          /\ (~slim \/ d.row \in Pipeline) => d.by = d.removed
      BY DropRecordFacts
    <2>3. d.row \in Row \ Pipeline => Rows(w) \cap Pipeline \cap d.budget = {}
      BY <1>2, <2>1, <2>2, FirstIsPipeline
    <2> HIDE DEF d, w
    <2>4. Record(op, ins, w, d)
      BY <1>2 DEF d, w
    <2> QED
      BY <2>1, <2>2, <2>3, <2>4, RecordKeeps
  <1> QED
    BY <1>1, <1>2 DEF Rescale

LEMMA NextKeepsInv ==
    ASSUME Inv, [Next]_vars
    PROVE  Inv'
  <1> USE DEF Inv
  <1>1. ASSUME NEW k \in {"plain", "boot", "ring"}, Serialize(k)  PROVE Inv'
    <2>1. /\ slim' = slim /\ slim \in BOOLEAN /\ numInit' \in {None} \cup 0..P
          /\ kind' = k /\ ops' = 0 /\ uses' = {} /\ dropOrder' = <<>>
          /\ known' = [c \in Custom |-> None] /\ last' = Nothing
          /\ values' = {FullLevel(InitRows(k, numInit'))}
      BY <1>1, LevelAssumption DEF Serialize, IInv, TypeOK
    <2>2. FullLevel(InitRows(k, numInit')) \in Level /\ Ordered(FullLevel(InitRows(k, numInit')))
      BY <2>1, InitRowsFacts
    <2>3. \A v : Ordered(v) => Ordered(v)'
      BY <2>1 DEF Ordered
    <2>4. last'.op = "none" /\ last'.ins = <<>> /\ last'.out = None /\ last'.drop = NoDrop
      BY <2>1 DEF Nothing
    <2>5. TypeOK'
      BY <2>1, <2>2, <2>4, NoDropFacts, EmptySeq, LevelAssumption DEF IInv, TypeOK
    <2>6. IInv'
      BY <2>1, <2>2, <2>3, <2>5 DEF IInv
    <2> QED
      BY <2>4, <2>6, NoDropFacts DEF DropsAreExact, PipelineFirst, NoPrimeReturns
  <1>2. ASSUME NEW x \in Operand, NEW rescales \in BOOLEAN, NEW budget \in Budget,
               HomConstMul(x, rescales, budget)
        PROVE  Inv'
    <2>1. PICK v \in Levels : Unary(x, v) /\ Rescale("const_mul", <<v>>, v, rescales, budget)
      BY <1>2 DEF HomConstMul
    <2>2. v \in Level /\ Ordered(v) /\ Remembers(known', uses')
      BY <2>1, UnaryKeeps
    <2>3. <<v>> \in Seq(Level) /\ \A i \in DOMAIN <<v>> : Active(v) \subseteq Active(<<v>>[i])
      BY <2>2
    <2> QED
      BY <1>2, <2>1, <2>2, <2>3, RescaleKeeps DEF HomConstMul
  <1>3. ASSUME NEW x \in Operand, NEW y \in Operand, NEW rescales \in BOOLEAN, NEW budget \in Budget,
               HomMul(x, y, rescales, budget)
        PROVE  Inv'
    <2>1. PICK v \in Levels, w \in Levels :
              /\ Binary(x, y, v, w) /\ (Fits(v, w) \/ Fits(w, v))
              /\ Rescale("mul", <<v, w>>, Adjusted(v, w), rescales, budget)
      BY <1>3 DEF HomMul
    <2>2. v \in Level /\ Ordered(v) /\ w \in Level /\ Ordered(w) /\ Remembers(known', uses')
      BY <2>1, BinaryKeeps
    <2>3. /\ Adjusted(v, w) \in Level /\ Ordered(Adjusted(v, w))
          /\ Active(Adjusted(v, w)) \subseteq Active(v) /\ Active(Adjusted(v, w)) \subseteq Active(w)
      BY <2>1, <2>2, AdjustedFacts
    <2>4. <<v, w>> \in Seq(Level) /\ \A i \in DOMAIN <<v, w>> : Active(Adjusted(v, w)) \subseteq Active(<<v, w>>[i])
      BY <2>2, <2>3
    <2> QED
      BY <1>3, <2>1, <2>2, <2>3, <2>4, RescaleKeeps DEF HomMul
  <1>4. ASSUME NEW x \in Operand, NEW y \in Operand, HomAdd(x, y)  PROVE Inv'
    <2>1. PICK v \in Levels, w \in Levels :
              /\ Binary(x, y, v, w) /\ (Fits(v, w) \/ Fits(w, v))
              /\ Record("add", <<v, w>>, Adjusted(v, w), NoDrop)
      BY <1>4 DEF HomAdd
    <2>2. v \in Level /\ Ordered(v) /\ w \in Level /\ Ordered(w) /\ Remembers(known', uses')
      BY <2>1, BinaryKeeps
    <2>3. /\ Adjusted(v, w) \in Level /\ Ordered(Adjusted(v, w))
          /\ Active(Adjusted(v, w)) \subseteq Active(v) /\ Active(Adjusted(v, w)) \subseteq Active(w)
      BY <2>1, <2>2, AdjustedFacts
    <2>4. <<v, w>> \in Seq(Level) /\ \A i \in DOMAIN <<v, w>> : Active(Adjusted(v, w)) \subseteq Active(<<v, w>>[i])
      BY <2>2, <2>3
    <2>5. Tracing
      BY <1>4 DEF HomAdd
    <2> QED
      BY <2>1, <2>2, <2>3, <2>4, <2>5, NoDropFacts, RecordKeeps
  <1>5. ASSUME NEW x \in Operand, HomModSwitch(x)  PROVE Inv'
    <2>1. Tracing /\ \E v \in Levels : Unary(x, v) /\ \E i \in DOMAIN v.rows : \E n \in Counts(v, i) :
              Record("mod_switch", <<v>>, AfterDrop(v, i, n), DropRecord(v, i, n, Row))
      BY <1>5 DEF HomModSwitch
    <2>2. PICK v \in Levels : Unary(x, v) /\ \E i \in DOMAIN v.rows : \E n \in Counts(v, i) :
              Record("mod_switch", <<v>>, AfterDrop(v, i, n), DropRecord(v, i, n, Row))
      BY <2>1
    <2>2a. PICK i \in DOMAIN v.rows : \E n \in Counts(v, i) :
              Record("mod_switch", <<v>>, AfterDrop(v, i, n), DropRecord(v, i, n, Row))
      BY <2>2
    <2>3. PICK n \in Counts(v, i) :
              Record("mod_switch", <<v>>, AfterDrop(v, i, n), DropRecord(v, i, n, Row))
      BY <2>2a
    <2> DEFINE d == DropRecord(v, i, n, Row)
               w == AfterDrop(v, i, n)
    <2>4. v \in Level /\ Ordered(v) /\ Remembers(known', uses')
      BY <2>2, UnaryKeeps
    <2>5. w \in Level /\ Ordered(w) /\ Active(w) \subseteq Active(v)
      BY <2>4, DropFacts
    <2>6. /\ d.row \in Row /\ d.removed \subseteq Row \X Nat
          /\ (~slim \/ d.row \in Pipeline) => d.by = d.removed
      BY <2>4, DropRecordFacts
    <2>7. <<v>> \in Seq(Level) /\ \A j \in DOMAIN <<v>> : Active(w) \subseteq Active(<<v>>[j])
      BY <2>4, <2>5
    <2> HIDE DEF d, w
    <2>8. Record("mod_switch", <<v>>, w, d)
      BY <2>3 DEF d, w
    <2> QED
      BY <2>1, <2>4, <2>5, <2>6, <2>7, <2>8, RecordKeeps
  <1>6. ASSUME NEW x \in Operand, Refresh(x)  PROVE Inv'
    <2>1. PICK v \in Levels : Unary(x, v) /\ Record("refresh", <<v>>, Refreshed, NoDrop)
      BY <1>6 DEF Refresh
    <2>2. v \in Level /\ Remembers(known', uses')
      BY <2>1, UnaryKeeps
    <2>3. Refreshed \in Level /\ Ordered(Refreshed)
      BY RefreshedFacts DEF IInv, TypeOK
    <2>4. Tracing /\ <<v>> \in Seq(Level)
      BY <1>6, <2>2 DEF Refresh
    <2> QED
      BY <2>1, <2>2, <2>3, <2>4, NoDropFacts, RecordKeeps
  <1>7. ASSUME UNCHANGED <<slim, numInit, values, known, uses, dropOrder, last, ops>>,
               kind' \in {"none", "plain", "boot", "ring", "done"}
        PROVE  Inv'
    <2>1. IInv'
      BY <1>7 DEF IInv, TypeOK, Ordered
    <2> QED
      BY <1>7, <2>1 DEF DropsAreExact, PipelineFirst, NoPrimeReturns
  <1>8. CASE Finish
    BY <1>7, <1>8 DEF Finish
  <1>9. CASE Abort
    BY <1>7, <1>9 DEF Abort, IInv, TypeOK
  <1>10. CASE UNCHANGED vars
    BY <1>7, <1>10 DEF vars, IInv, TypeOK
  <1> QED
    BY <1>1, <1>2, <1>3, <1>4, <1>5, <1>6, <1>8, <1>9, <1>10 DEF Next

LEMMA InitInv == Init => Inv
  <1> SUFFICES ASSUME Init PROVE Inv
    OBVIOUS
  <1>1. last.op = "none" /\ last.ins = <<>> /\ last.out = None /\ last.drop = NoDrop
    BY DEF Init, Nothing
  <1>2. TypeOK
    BY <1>1, NoDropFacts, EmptySeq, LevelAssumption DEF Init, TypeOK
  <1>3. IInv
    BY <1>2 DEF Init, IInv
  <1> QED
    BY <1>1, <1>3, NoDropFacts DEF Inv, DropsAreExact, PipelineFirst, NoPrimeReturns

\* Levels are ordered, custom inputs known as used, and every operation so far
\* dropped what it divided by, from the pipeline first, and gave nothing back.
THEOREM Invariance == Spec => []Inv
  <1>1. Init => Inv
    BY InitInv
  <1>2. Inv /\ [Next]_vars => Inv'
    BY NextKeepsInv
  <1> QED
    BY <1>1, <1>2, PTL DEF Spec

\* Every variable has its type (level_and_scale_tracing.py, hom_op_tracer.py).
THEOREM LevelTypes == Spec => []TypeOK
  <1>1. Inv => TypeOK
    BY DEF Inv, IInv
  <1> QED
    BY <1>1, Invariance, PTL

\* The factor taken by position is that of the row dropped (_get_drop_row_config).
THEOREM ExactDrops == Spec => []DropsAreExact
  <1>1. Inv => DropsAreExact
    BY DEF Inv
  <1> QED
    BY <1>1, Invariance, PTL

\* The bootstrap's rows go last (_get_config_for_row_or_col).
THEOREM BootstrapRowsLast == Spec => []PipelineFirst
  <1>1. Inv => PipelineFirst
    BY DEF Inv
  <1> QED
    BY <1>1, Invariance, PTL

\* Only a bootstrap gives primes back (infer_adjust_levels_and_scale).
THEOREM LevelsOnlyFall == Spec => []NoPrimeReturns
  <1>1. Inv => NoPrimeReturns
    BY DEF Inv
  <1> QED
    BY <1>1, Invariance, PTL

\* A custom input has one level for all its uses under its reference
\* (_serialize_leaf_op); those of what a nested operator hands on are not among them.
THEOREM CustomInputsAgree == Spec => []OneStatePerReference
  <1>1. Inv => OneStatePerReference
    BY DEF Inv, IInv, OneStatePerReference
  <1> QED
    BY <1>1, Invariance, PTL

-----------------------------------------------------------------------------
(* The order of consumption: a fold of the rows as they were dropped. *)

LEMMA LeastNat ==
    ASSUME NEW T \in SUBSET Nat, T # {}
    PROVE  \E n \in T : \A m \in T : n <= m
  <1>1. IsWellFoundedOn(OpToRel(<, Nat), Nat)
    BY NatLessThanWellFounded
  <1>2. PICK n \in T : \A m \in T : ~(<<m, n>> \in OpToRel(<, Nat))
    BY <1>1, WFMin
  <1>3. \A m \in T : ~(m < n)
    BY <1>2 DEF OpToRel
  <1> QED
    BY <1>3

\* Induction, over a set: the induction theorems of the library are about operators.
LEMMA NatSetInduction ==
    ASSUME NEW T, 0 \in T, \A n \in Nat : n \in T => n + 1 \in T
    PROVE  Nat \subseteq T
  <1>1. SUFFICES ASSUME Nat \ T # {} PROVE FALSE
    OBVIOUS
  <1>2. PICK n \in Nat \ T : \A m \in Nat \ T : n <= m
    BY <1>1, LeastNat
  <1>3. n # 0 /\ n - 1 \in Nat
    BY <1>2
  <1>4. n - 1 \in T
    BY <1>2, <1>3
  <1> QED
    BY <1>2, <1>3, <1>4

\* The greatest of some of 1..k.
LEMMA MaxOfSome ==
    ASSUME NEW k \in Nat, NEW t \in SUBSET (1..k), t # {}
    PROVE  Max(t) \in t /\ \A x \in t : x <= Max(t)
  <1> DEFINE T == {n \in Nat : k - n \in t}
  <1>1. PICK x \in t : TRUE
    OBVIOUS
  <1>2. x \in 1..k /\ k - x \in Nat /\ k - (k - x) = x
    OBVIOUS
  <1>3. k - x \in T
    BY <1>1, <1>2
  <1>4. PICK n \in T : \A m \in T : n <= m
    <2>1. T \in SUBSET Nat /\ T # {}
      BY <1>3
    <2> HIDE DEF T
    <2> QED
      BY <2>1, LeastNat
  <1>5. k - n \in t
    BY <1>4
  <1>6. ASSUME NEW y \in t PROVE y <= k - n
    <2>1. y \in 1..k /\ k - y \in Nat /\ k - (k - y) = y /\ n \in Nat
      BY <1>4
    <2>2. k - y \in T
      BY <2>1
    <2> QED
      BY <1>4, <2>1, <2>2
  <1> QED
    BY <1>5, <1>6 DEF Max

\* The rows of s listed behind those of base, and the lists in between.
AllListed(base, s) == FoldLeft(Listed, base, s)
Steps(g, base, s) == g[0] = base /\ \A k \in 1..Len(s) : g[k] = Listed(g[k - 1], s[k])

\* The fold goes through the rows one by one.
LEMMA FoldSteps ==
    ASSUME NEW s \in Seq(Row), NEW base
    PROVE  \E g : Steps(g, base, s) /\ g[Len(s)] = AllListed(base, s)
  <1> DEFINE n == Len(s)
             Iter(f, k) == f = [t \in SUBSET (1..k) |->
                 IF t = {} THEN base ELSE Listed(f[t \ {Max(t)}], s[Max(t)])]
             K == {k \in Nat : \E f : Iter(f, k)}
             iter == CHOOSE f : Iter(f, n)
  <1>0. n \in Nat /\ DOMAIN s = 1..n
    BY LenProperties
  <1>1. 0 \in K
    <2> DEFINE f == [t \in SUBSET (1..0) |-> base]
    <2>1. \A t \in SUBSET (1..0) : t = {}
      OBVIOUS
    <2>2. Iter(f, 0)
      BY <2>1
    <2> QED
      BY <2>2
  <1>2. ASSUME NEW k \in Nat, k \in K PROVE k + 1 \in K
    <2>1. PICK f : Iter(f, k)
      BY <1>2
    <2> DEFINE g == [t \in SUBSET (1..(k + 1)) |->
                        IF k + 1 \in t THEN Listed(f[t \ {k + 1}], s[k + 1]) ELSE f[t]]
    <2>2. ASSUME NEW t \in SUBSET (1..(k + 1))
          PROVE  g[t] = IF t = {} THEN base ELSE Listed(g[t \ {Max(t)}], s[Max(t)])
      <3>1. CASE k + 1 \in t
        <4>1. Max(t) = k + 1
          <5>1. k + 1 \in Nat /\ t # {} /\ \A x \in t : x <= k + 1
            BY <3>1
          <5>2. Max(t) \in t /\ \A x \in t : x <= Max(t)
            BY <5>1, MaxOfSome
          <5>3. Max(t) \in 1..(k + 1)
            BY <5>2
          <5> QED
            BY <3>1, <5>1, <5>2, <5>3
        <4>2. t \ {k + 1} \in SUBSET (1..(k + 1)) /\ k + 1 \notin t \ {k + 1}
          OBVIOUS
        <4>3. g[t \ {k + 1}] = f[t \ {k + 1}]
          BY <4>2
        <4> QED
          BY <3>1, <4>1, <4>3
      <3>2. CASE k + 1 \notin t
        <4>1. t \in SUBSET (1..k)
          BY <3>2
        <4>2. f[t] = IF t = {} THEN base ELSE Listed(f[t \ {Max(t)}], s[Max(t)])
          BY <2>1, <4>1
        <4>3. g[t] = f[t] /\ g[t \ {Max(t)}] = f[t \ {Max(t)}]
          <5>1. t \ {Max(t)} \in SUBSET (1..(k + 1)) /\ k + 1 \notin t \ {Max(t)}
            BY <3>2
          <5> QED
            BY <3>2, <5>1
        <4> HIDE DEF g
        <4> QED
          BY <4>2, <4>3
      <3> QED
        BY <3>1, <3>2
    <2>3. g = [t \in SUBSET (1..(k + 1)) |-> IF t = {} THEN base ELSE Listed(g[t \ {Max(t)}], s[Max(t)])]
      <3>1. g = [t \in SUBSET (1..(k + 1)) |-> g[t]]
        OBVIOUS
      <3> HIDE DEF g
      <3> QED
        BY <2>2, <3>1
    <2>4. Iter(g, k + 1)
      <3> HIDE DEF g
      <3> QED
        BY <2>3
    <2> HIDE DEF g, Iter
    <2>5. k + 1 \in Nat
      OBVIOUS
    <2> QED
      BY <2>4, <2>5
  <1>3. Iter(iter, n)
    <2> HIDE DEF Iter, n
    <2>1. Nat \subseteq K
      <3> HIDE DEF K
      <3> QED
        BY <1>1, <1>2, NatSetInduction
    <2> QED
      BY <1>0, <2>1
  <1>4. AllListed(base, s) = iter[1..n]
    BY <1>0 DEF AllListed, FoldLeft, MapThenFoldSet
  <1> DEFINE g == [k \in 0..n |-> iter[1..k]]
  <1> HIDE DEF iter, n
  <1>5. g[0] = base
    <2>1. 1..0 = {} /\ {} \in SUBSET (1..n) /\ 0 \in 0..n
      BY <1>0
    <2>2. iter[{}] = base
      BY <1>3, <2>1
    <2> QED
      BY <2>1, <2>2
  <1>6. ASSUME NEW k \in 1..n PROVE g[k] = Listed(g[k - 1], s[k])
    <2>1. 1..k \in SUBSET (1..n) /\ 1..k # {} /\ k \in 1..k /\ \A x \in 1..k : x <= k
      BY <1>0
    <2>2. Max(1..k) = k
      <3>1. Max(1..k) \in 1..k /\ \A x \in 1..k : x <= Max(1..k)
        BY <1>0, <2>1, MaxOfSome
      <3> QED
        BY <1>0, <2>1, <3>1
    <2>3. (1..k) \ {k} = 1..(k - 1)
      BY <1>0
    <2>4. iter[1..k] = Listed(iter[1..(k - 1)], s[k])
      BY <1>3, <2>1, <2>2, <2>3
    <2> QED
      BY <1>0, <2>4
  <1>7. g[n] = AllListed(base, s)
    BY <1>0, <1>4
  <1>8. Steps(g, base, s)
    <2> HIDE DEF g
    <2> QED
      BY <1>5, <1>6 DEF Steps, n
  <1> HIDE DEF g
  <1> QED
    BY <1>7, <1>8 DEF n

Occurs(s, k, r) == \E i \in 1..k : s[i] = r
\* x is among the first k of s, before every y.
Leads(s, k, x, y) == \E i \in 1..k : s[i] = x /\ \A j \in 1..k : s[j] = y => i < j

\* A list of the pipeline's rows, none of them twice.
IsList(l) ==
    /\ l \in Seq(Pipeline) /\ \A a, b \in 1..Len(l) : a # b => l[a] # l[b]

\* The list after the first k rows of s: base, and behind it their new ones in order.
Grown(l, base, s, k) ==
    /\ IsList(l) /\ Len(base) <= Len(l) /\ \A a \in 1..Len(base) : l[a] = base[a]
    /\ \A r : Occurs(l, Len(l), r) <=> Occurs(base, Len(base), r) \/ (r \in Pipeline /\ Occurs(s, k, r))
    /\ \A a, b \in (Len(base) + 1)..Len(l) : a < b => Leads(s, k, l[a], l[b])

LEMMA GrownBy ==
    ASSUME NEW base, IsList(base), NEW s \in Seq(Row), NEW k \in Nat, k + 1 <= Len(s),
           NEW l, Grown(l, base, s, k)
    PROVE  Grown(Listed(l, s[k + 1]), base, s, k + 1)
  <1> DEFINE e == s[k + 1]
             m == Len(l)
  <1>1. k + 1 \in 1..Len(s) /\ e \in Row /\ m \in Nat /\ Len(base) \in Nat /\ l \in Seq(Pipeline)
    BY LenProperties DEF Grown, IsList
  <1>2. \A r : r \in ToSet(l) <=> Occurs(l, m, r)
    BY <1>1, LenProperties DEF ToSet, Occurs
  <1>3. \A r : Occurs(s, k + 1, r) <=> Occurs(s, k, r) \/ r = e
    <2>1. \A i \in 1..(k + 1) : i \in 1..k \/ i = k + 1
      OBVIOUS
    <2>2. \A i \in 1..k : i \in 1..(k + 1)
      OBVIOUS
    <2> QED
      BY <2>1, <2>2 DEF Occurs
  <1>4. \A x, y : Leads(s, k, x, y) => Leads(s, k + 1, x, y)
    BY DEF Leads
  <1>5. CASE e \in Pipeline /\ e \notin ToSet(l)
    <2> DEFINE new == Append(l, e)
    <2>1. Listed(l, e) = new
      BY <1>5 DEF Listed
    <2>2. /\ new \in Seq(Pipeline) /\ Len(new) = m + 1 /\ new[m + 1] = e
          /\ \A a \in 1..m : new[a] = l[a]
      BY <1>1, <1>5
    <2> HIDE DEF new, e, m
    <2>3. IsList(new)
      <3>1. \A a \in 1..(m + 1) : a \in 1..m \/ a = m + 1
        BY <1>1
      <3>2. \A a \in 1..m : l[a] # e
        BY <1>2, <1>5 DEF Occurs
      <3>3. \A a, b \in 1..m : a # b => l[a] # l[b]
        BY DEF Grown, IsList, m
      <3> QED
        BY <2>2, <3>1, <3>2, <3>3 DEF IsList
    <2>4. Len(base) <= Len(new) /\ \A a \in 1..Len(base) : new[a] = base[a]
      <3>1. Len(base) <= m /\ \A a \in 1..Len(base) : l[a] = base[a]
        BY DEF Grown, m
      <3>2. \A a \in 1..Len(base) : a \in 1..m
        BY <1>1, <3>1
      <3>3. Len(base) <= Len(new)
        BY ONLY <1>1, <2>2, <3>1
      <3>4. ASSUME NEW a \in 1..Len(base) PROVE new[a] = base[a]
        <4>1. new[a] = l[a]
          BY ONLY <2>2, <3>2, <3>4
        <4>2. l[a] = base[a]
          BY ONLY <3>1, <3>4
        <4> QED
          BY ONLY <4>1, <4>2
      <3> QED
        BY ONLY <3>3, <3>4
    <2>5. \A r : Occurs(new, Len(new), r) <=> Occurs(l, m, r) \/ r = e
      <3>1. \A a \in 1..(m + 1) : a \in 1..m \/ a = m + 1
        BY <1>1
      <3>2. m + 1 \in 1..(m + 1) /\ \A a \in 1..m : a \in 1..(m + 1)
        BY <1>1
      <3> QED
        BY <2>2, <3>1, <3>2 DEF Occurs
    <2>6. \A r : Occurs(new, Len(new), r)
                   <=> Occurs(base, Len(base), r) \/ (r \in Pipeline /\ Occurs(s, k + 1, r))
      BY <1>3, <1>5, <2>5 DEF Grown, m
    <2>7. ASSUME NEW a \in (Len(base) + 1)..Len(new), NEW b \in (Len(base) + 1)..Len(new), a < b
          PROVE  Leads(s, k + 1, new[a], new[b])
      <3>1. a \in 1..m /\ a \in (Len(base) + 1)..m /\ new[a] = l[a]
        BY <1>1, <2>2, <2>7
      <3>2. CASE b <= m
        <4>1. b \in (Len(base) + 1)..m /\ b \in 1..m
          BY <1>1, <3>2
        <4> QED
          BY <1>4, <2>2, <2>7, <3>1, <4>1 DEF Grown, m
      <3>3. CASE ~(b <= m)
        <4>1. new[b] = e
          BY <1>1, <2>2, <3>3
        <4>2. \A r : Occurs(base, Len(base), r) => Occurs(l, m, r)
          BY DEF Grown, m
        <4>3. Occurs(l, m, l[a]) /\ ~Occurs(base, Len(base), l[a])
          <5>1. \A c \in 1..Len(base) : c \in 1..m /\ c # a /\ l[c] = base[c]
            BY <1>1, <3>1 DEF Grown, m
          <5>2. \A c \in 1..m : c # a => l[c] # l[a]
            BY <3>1 DEF Grown, IsList, m
          <5> QED
            BY <3>1, <5>1, <5>2 DEF Occurs
        <4>4. PICK i \in 1..k : s[i] = l[a]
          BY <4>3 DEF Grown, Occurs, m
        <4>5. \A j \in 1..k : s[j] # e
          BY <1>2, <1>5 DEF Grown, Occurs, m
        <4>6. i \in 1..(k + 1) /\ \A j \in 1..(k + 1) : j \in 1..k \/ i < j
          OBVIOUS
        <4> QED
          BY <3>1, <4>1, <4>4, <4>5, <4>6 DEF Leads
      <3> QED
        BY <3>2, <3>3
    <2> QED
      BY <2>1, <2>3, <2>4, <2>6, <2>7 DEF Grown, e
  <1>6. CASE ~(e \in Pipeline /\ e \notin ToSet(l))
    <2>1. Listed(l, e) = l
      BY <1>6 DEF Listed
    <2>2. \A r : Occurs(l, m, r)
                   <=> Occurs(base, Len(base), r) \/ (r \in Pipeline /\ Occurs(s, k + 1, r))
      BY <1>2, <1>3, <1>6 DEF Grown
    <2> QED
      BY <1>4, <2>1, <2>2 DEF Grown
  <1> QED
    BY <1>5, <1>6

LEMMA AllListedGrown ==
    ASSUME NEW base, IsList(base), NEW s \in Seq(Row)
    PROVE  Grown(AllListed(base, s), base, s, Len(s))
  <1>1. PICK g : Steps(g, base, s) /\ g[Len(s)] = AllListed(base, s)
    BY FoldSteps
  <1> DEFINE K == {k \in Nat : k <= Len(s) => Grown(g[k], base, s, k)}
  <1>2. 0 \in K
    <2>1. Len(base) \in Nat
      BY LenProperties DEF IsList
    <2>2. \A a \in (Len(base) + 1)..Len(base) : FALSE
      BY <2>1
    <2>3. Grown(base, base, s, 0)
      BY <2>1, <2>2 DEF Grown, Occurs
    <2> QED
      BY <1>1, <2>3 DEF Steps
  <1>3. ASSUME NEW k \in Nat, k \in K PROVE k + 1 \in K
    <2>1. CASE k + 1 <= Len(s)
      <3>1. k <= Len(s) /\ k + 1 \in 1..Len(s) /\ (k + 1) - 1 = k /\ Len(s) \in Nat
        BY <2>1, LenProperties
      <3>2. g[k + 1] = Listed(g[k], s[k + 1])
        BY <1>1, <3>1 DEF Steps
      <3> QED
        BY <1>3, <2>1, <3>1, <3>2, GrownBy
    <2>2. CASE ~(k + 1 <= Len(s))
      BY <2>2
    <2> QED
      BY <2>1, <2>2
  <1>4. Len(s) \in K
    <2> HIDE DEF K
    <2>1. Nat \subseteq K
      BY <1>2, <1>3, NatSetInduction
    <2> QED
      BY <2>1, LenProperties
  <1> QED
    BY <1>1, <1>4, LenProperties

LEMMA ReverseFacts ==
    ASSUME NEW T, NEW s \in Seq(T)
    PROVE  /\ Reverse(s) \in Seq(T) /\ Len(Reverse(s)) = Len(s) /\ Len(s) \in Nat
           /\ \A i \in 1..Len(s) : Len(s) - i + 1 \in 1..Len(s) /\ Reverse(s)[i] = s[Len(s) - i + 1]
  <1>1. Len(s) \in Nat /\ \A i \in 1..Len(s) : Len(s) - i + 1 \in 1..Len(s) /\ s[Len(s) - i + 1] \in T
    BY LenProperties, ElementOfSeq
  <1>2. Reverse(s) \in [1..Len(s) -> T]
    BY <1>1 DEF Reverse
  <1> QED
    BY <1>1, <1>2 DEF Reverse

\* The last drop of a row.
LEMMA LastDropFacts ==
    ASSUME dropOrder \in Seq(Row), NEW r
    PROVE  /\ LastDrop(dropOrder, r) \in 0..Len(dropOrder) /\ Len(dropOrder) \in Nat
           /\ LastDrop(dropOrder, r) = 0 \/ dropOrder[LastDrop(dropOrder, r)] = r
           /\ \A j \in 1..Len(dropOrder) : dropOrder[j] = r => j <= LastDrop(dropOrder, r)
           /\ LastDrop(dropOrder, r) = 0 <=> ~Occurs(dropOrder, Len(dropOrder), r)
  <1> DEFINE n == Len(dropOrder)
             D == {j \in 1..n : dropOrder[j] = r}
             IsLast(i) == /\ i = 0 \/ dropOrder[i] = r
                          /\ \A j \in 1..n : dropOrder[j] = r => j <= i
  <1>1. n \in Nat
    BY LenProperties
  <1>2. \E i \in 0..n : IsLast(i)
    <2>1. CASE D = {}
      BY <1>1, <2>1
    <2>2. CASE D # {}
      <3>1. Max(D) \in D /\ \A x \in D : x <= Max(D)
        <4>1. D \in SUBSET (1..n)
          OBVIOUS
        <4> HIDE DEF D, n
        <4> QED
          BY <1>1, <2>2, <4>1, MaxOfSome
      <3>2. Max(D) \in 0..n /\ dropOrder[Max(D)] = r
        BY <1>1, <3>1
      <3>3. \A j \in 1..n : dropOrder[j] = r => j <= Max(D)
        BY <3>1
      <3> QED
        BY <3>2, <3>3
    <2> QED
      BY <2>1, <2>2
  <1>3. LastDrop(dropOrder, r) \in 0..n /\ IsLast(LastDrop(dropOrder, r))
    BY <1>2 DEF LastDrop
  <1>4. LastDrop(dropOrder, r) = 0 <=> ~Occurs(dropOrder, n, r)
    BY <1>1, <1>3 DEF Occurs
  <1> QED
    BY <1>1, <1>3, <1>4

\* The list has all rows of the pipeline: it is as long as the pipeline.
LEMMA WholeList ==
    ASSUME NEW l, IsList(l), \A r \in Pipeline : Occurs(l, Len(l), r)
    PROVE  Len(l) = P /\ ToSet(l) = Pipeline
  <1>1. Len(l) \in Nat /\ DOMAIN l = 1..Len(l) /\ l \in [1..Len(l) -> Pipeline]
    BY LenProperties DEF IsList
  <1>2. ToSet(l) = Pipeline
    BY <1>1 DEF ToSet, Occurs
  <1>3. l \in Bijection(1..Len(l), Pipeline)
    BY <1>1 DEF Bijection, Injection, Surjection, IsInjective, IsList, Occurs
  <1>4. IsFiniteSet(1..Len(l)) /\ Cardinality(1..Len(l)) = Len(l)
    <2> DEFINE n == Len(l)
    <2>1. n \in Nat
      BY <1>1
    <2> HIDE DEF n
    <2>2. IsFiniteSet(1..n) /\ Cardinality(1..n) = IF 1 > n THEN 0 ELSE n - 1 + 1
      BY <2>1, FS_Interval
    <2> QED
      BY <2>1, <2>2 DEF n
  <1>5. Cardinality(Pipeline) = P
    BY LevelAssumption, FS_Interval DEF Pipeline
  <1>6. Cardinality(Pipeline) = Cardinality(1..Len(l))
    BY <1>3, <1>4, FS_Bijection DEF ExistsBijection
  <1> QED
    BY <1>2, <1>4, <1>5, <1>6

LEMMA TracedOrderFacts ==
    ASSUME dropOrder \in Seq(Row)
    PROVE  ByLastDrop(TracedOrder, dropOrder)
  <1> DEFINE n == Len(dropOrder)
             s == Reverse(dropOrder)
             l == AllListed(<<>>, s)
             dropped == Reverse(l)
             rows == Consecutive(0, P)
             o == AllListed(dropped, rows)
             m == Len(l)
  <1>1. TracedOrder = o
    BY DEF TracedOrder, AllListed
  <1>2. /\ s \in Seq(Row) /\ Len(s) = n /\ n \in Nat
        /\ \A i \in 1..n : n - i + 1 \in 1..n /\ s[i] = dropOrder[n - i + 1]
    BY ReverseFacts
  <1>3. \A r : Occurs(s, n, r) <=> Occurs(dropOrder, n, r)
    <2>1. \A i \in 1..n : n - (n - i + 1) + 1 = i
      BY <1>2
    <2> HIDE DEF s, n
    <2>2. ASSUME NEW r, NEW i \in 1..n, dropOrder[i] = r PROVE Occurs(s, n, r)
      <3>1. n - i + 1 \in 1..n /\ s[n - i + 1] = r
        BY <1>2, <2>1, <2>2
      <3> QED
        BY <3>1 DEF Occurs
    <2> QED
      BY <1>2, <2>2 DEF Occurs
  <1>4. IsList(<<>>) /\ Len(<<>>) = 0
    BY EmptySeq DEF IsList
  <1>5. /\ IsList(l)
        /\ \A r : Occurs(l, m, r) <=> r \in Pipeline /\ Occurs(s, n, r)
        /\ \A a, b \in 1..m : a < b => Leads(s, n, l[a], l[b])
    <2> HIDE DEF s, n
    <2>1. Grown(l, <<>>, s, n)
      BY <1>2, <1>4, AllListedGrown
    <2> HIDE DEF l
    <2> QED
      BY <1>4, <2>1 DEF Grown, Occurs
  <1> HIDE DEF s, n, l, m
  <1>6. /\ dropped \in Seq(Pipeline) /\ Len(dropped) = m /\ m \in Nat
        /\ \A i \in 1..m : m - i + 1 \in 1..m /\ dropped[i] = l[m - i + 1]
    BY <1>5, ReverseFacts DEF IsList, m
  <1>7. IsList(dropped)
    <2>1. \A a, b \in 1..m : l[a] = l[b] => a = b
      BY <1>5 DEF IsList, m
    <2>2. \A a, b \in 1..m : m - a + 1 = m - b + 1 => a = b
      BY <1>6
    <2> HIDE DEF dropped
    <2> QED
      BY <1>6, <2>1, <2>2 DEF IsList
  <1>8. \A r : Occurs(dropped, m, r) => r \in Pipeline /\ Occurs(dropOrder, n, r)
    <2>1. \A r : Occurs(dropped, m, r) => Occurs(l, m, r)
      BY <1>6 DEF Occurs
    <2> QED
      BY <1>3, <1>5, <2>1
  <1>9. \A r : r \in Pipeline /\ Occurs(dropOrder, n, r) => Occurs(dropped, m, r)
    <2>1. ASSUME NEW i \in 1..m PROVE Occurs(dropped, m, l[i])
      <3>1. m - i + 1 \in 1..m /\ m - (m - i + 1) + 1 = i
        BY <1>6
      <3> QED
        BY <1>6, <3>1 DEF Occurs
    <2>2. \A r : Occurs(l, m, r) => Occurs(dropped, m, r)
      BY <2>1 DEF Occurs
    <2> QED
      BY <1>3, <1>5, <2>2
  <1>10. /\ rows \in Seq(Row) /\ Len(rows) = P /\ P \in Nat
         /\ \A i \in 1..P : rows[i] = i - 1
    BY ConsecutiveFacts, LevelAssumption
  <1>11. Grown(o, dropped, rows, P)
    <2> HIDE DEF dropped, rows
    <2> QED
      BY <1>7, <1>10, AllListedGrown
  <1> HIDE DEF dropped, rows, o
  <1>12. \A r \in Pipeline : Occurs(rows, P, r)
    <2>1. \A r \in Pipeline : r + 1 \in 1..P /\ (r + 1) - 1 = r
      BY <1>10 DEF Pipeline
    <2> QED
      BY <1>10, <2>1 DEF Occurs
  <1>13. Len(o) = P /\ ToSet(o) = Pipeline
    BY <1>11, <1>12, WholeList DEF Grown
  <1>14. m <= P /\ \A i \in 1..m : o[i] = dropped[i]
    BY <1>6, <1>11, <1>13 DEF Grown
  <1>15. \A i \in 1..P : o[i] \in Pipeline
    BY <1>11, <1>13, ElementOfSeq DEF Grown, IsList
  <1>16. ASSUME NEW i \in 1..m PROVE 0 < LastDrop(dropOrder, o[i])
    <2>1. Occurs(dropOrder, n, o[i])
      BY <1>8, <1>14 DEF Occurs
    <2> QED
      BY <2>1, LastDropFacts DEF n
  <1>17. ASSUME NEW i \in (m + 1)..P PROVE LastDrop(dropOrder, o[i]) = 0
    <2>1. i \in 1..P /\ \A c \in 1..m : c \in 1..P /\ c # i
      BY <1>6, <1>10, <1>14
    <2>2. \A c \in 1..m : dropped[c] # o[i]
      BY <1>11, <1>13, <1>14, <2>1 DEF Grown, IsList
    <2>3. ~Occurs(dropOrder, n, o[i])
      BY <1>9, <1>15, <2>1, <2>2 DEF Occurs
    <2> QED
      BY <2>3, LastDropFacts DEF n
  <1>18. ASSUME NEW i \in 1..m, NEW j \in 1..m, i < j PROVE LastDrop(dropOrder, o[i]) < LastDrop(dropOrder, o[j])
    <2> DEFINE x == o[i]
               y == o[j]
    <2>1. /\ m - j + 1 \in 1..m /\ m - i + 1 \in 1..m /\ m - j + 1 < m - i + 1
          /\ y = l[m - j + 1] /\ x = l[m - i + 1]
      <3>1. m - j + 1 < m - i + 1
        BY <1>6, <1>18
      <3> QED
        BY <1>6, <1>14, <3>1
    <2> HIDE DEF x, y
    <2>2. Leads(s, n, y, x)
      BY <1>5, <2>1
    <2>3. PICK p \in 1..n : s[p] = y /\ \A q \in 1..n : s[q] = x => p < q
      BY <2>2 DEF Leads
    <2>4. n - p + 1 \in 1..n /\ dropOrder[n - p + 1] = y
      BY <1>2, <2>3
    <2>5. n - p + 1 <= LastDrop(dropOrder, y)
      BY <2>4, LastDropFacts DEF n
    <2>6. /\ LastDrop(dropOrder, x) \in 1..n /\ dropOrder[LastDrop(dropOrder, x)] = x
      <3>1. 0 < LastDrop(dropOrder, x)
        BY <1>16 DEF x
      <3> QED
        BY <3>1, LastDropFacts DEF n
    <2>7. n - LastDrop(dropOrder, x) + 1 \in 1..n /\ n - (n - LastDrop(dropOrder, x) + 1) + 1 = LastDrop(dropOrder, x)
      BY <1>2, <2>6
    <2>8. s[n - LastDrop(dropOrder, x) + 1] = x
      BY <1>2, <2>6, <2>7
    <2>9. p < n - LastDrop(dropOrder, x) + 1
      BY <2>3, <2>7, <2>8
    <2>10. LastDrop(dropOrder, y) \in Nat
      BY LastDropFacts
    <2> QED
      BY <1>2, <2>3, <2>5, <2>6, <2>9, <2>10 DEF x, y
  <1>19. ASSUME NEW i \in (m + 1)..P, NEW j \in (m + 1)..P, i < j PROVE o[i] < o[j]
    <2>1. Leads(rows, P, o[i], o[j])
      BY <1>6, <1>11, <1>13, <1>19 DEF Grown
    <2>2. PICK a \in 1..P : rows[a] = o[i] /\ \A b \in 1..P : rows[b] = o[j] => a < b
      BY <2>1 DEF Leads
    <2>3. o[j] \in Pipeline
      BY <1>6, <1>15
    <2>4. PICK b \in 1..P : rows[b] = o[j]
      BY <1>12, <2>3 DEF Occurs
    <2> QED
      BY <1>10, <2>2, <2>4
  <1>20. ASSUME NEW i \in 1..P, NEW j \in 1..P, i < j
         PROVE  LET a == LastDrop(dropOrder, o[i]) b == LastDrop(dropOrder, o[j]) IN
                \/ 0 < a /\ a < b
                \/ 0 < a /\ b = 0
                \/ a = 0 /\ b = 0 /\ o[i] < o[j]
    <2>1. CASE j <= m
      <3>1. i \in 1..m /\ j \in 1..m
        BY <1>6, <1>20, <2>1
      <3> QED
        BY <1>16, <1>18, <1>20, <3>1
    <2>2. CASE i <= m /\ ~(j <= m)
      <3>1. i \in 1..m /\ j \in (m + 1)..P
        BY <1>6, <2>2
      <3> QED
        BY <1>16, <1>17, <3>1
    <2>3. CASE ~(i <= m)
      <3>1. i \in (m + 1)..P /\ j \in (m + 1)..P
        BY <1>6, <1>20, <2>3
      <3> QED
        BY <1>17, <1>19, <1>20, <3>1
    <2> QED
      BY <1>6, <1>20, <2>1, <2>2, <2>3
  <1> QED
    BY <1>1, <1>13, <1>20 DEF ByLastDrop

\* A finished serialization reports the order of its drops: they stay as they
\* were until the next one starts.
LEMMA OrderKept == TypeOK /\ OrderIsConsumption /\ [Next]_vars => OrderIsConsumption'
  <1> SUFFICES ASSUME TypeOK, OrderIsConsumption, [Next]_vars, kind' = "done"
               PROVE  OrderIsConsumption'
    BY DEF OrderIsConsumption
  <1>1. CASE Finish
    <2>1. order' = TracedOrder /\ dropOrder' = dropOrder
      BY <1>1 DEF Finish
    <2>2. ByLastDrop(TracedOrder, dropOrder)
      BY TracedOrderFacts DEF TypeOK
    <2> QED
      BY <2>1, <2>2 DEF OrderIsConsumption
  <1>2. CASE UNCHANGED vars
    BY <1>2 DEF vars, OrderIsConsumption
  <1>3. ASSUME NEW k \in {"plain", "boot", "ring"}, Serialize(k) PROVE FALSE
    BY <1>3 DEF Serialize
  <1>4. CASE Abort
    BY <1>4 DEF Abort
  <1>5. ASSUME Tracing, kind' = kind PROVE FALSE
    BY <1>5 DEF Tracing
  <1>6. \A op, ins, out, drop : Record(op, ins, out, drop) => kind' = kind
    BY DEF Record
  <1>7. \A op, ins, v, rescales, budget : Rescale(op, ins, v, rescales, budget) => kind' = kind
    BY <1>6 DEF Rescale
  <1>8. ASSUME NEW x \in Operand, NEW rescales \in BOOLEAN, NEW budget \in Budget,
               HomConstMul(x, rescales, budget) \/ \E y \in Operand : HomMul(x, y, rescales, budget)
        PROVE  FALSE
    BY <1>5, <1>7, <1>8 DEF HomConstMul, HomMul
  <1>9. ASSUME NEW x \in Operand, NEW y \in Operand, HomAdd(x, y) PROVE FALSE
    BY <1>5, <1>6, <1>9 DEF HomAdd
  <1>10. ASSUME NEW x \in Operand, HomModSwitch(x) \/ Refresh(x) PROVE FALSE
    BY <1>5, <1>6, <1>10 DEF HomModSwitch, Refresh
  <1> QED
    BY <1>1, <1>2, <1>3, <1>4, <1>8, <1>9, <1>10 DEF Next

\* What serialize reports is the order in which the rows are used up, whatever
\* was dropped and how often (traced_consumption_order).
THEOREM ConsumptionByLastDrop == Spec => []OrderIsConsumption
  <1>1. Init => OrderIsConsumption
    BY DEF Init, OrderIsConsumption
  <1> QED
    BY <1>1, OrderKept, LevelTypes, PTL DEF Spec

-----------------------------------------------------------------------------
(* Shapes: products, indices and positions, each computed axis by axis. *)

TensorShape == Seq(Nat \ {0})

\* A function given by recursion over 0..n exists.
LEMMA RecursionExists ==
    ASSUME NEW T, NEW base \in T, NEW n \in Nat, NEW F \in [1..n -> [T -> T]]
    PROVE  \E g \in [0..n -> T] : g[0] = base /\ \A k \in 1..n : g[k] = F[k][g[k - 1]]
  <1> DEFINE Made(g, m) == /\ g \in [0..m -> T] /\ g[0] = base
                           /\ \A k \in 1..m : g[k] = F[k][g[k - 1]]
             K == {m \in Nat : m <= n => \E g : Made(g, m)}
  <1>1. 0 \in K
    <2>1. Made([k \in 0..0 |-> base], 0)
      OBVIOUS
    <2> QED
      BY <2>1
  <1>2. ASSUME NEW m \in Nat, m \in K PROVE m + 1 \in K
    <2> SUFFICES ASSUME m + 1 <= n PROVE \E g : Made(g, m + 1)
      <3> HIDE DEF Made
      <3> QED
        BY <1>2
    <2>1. PICK f : Made(f, m)
      <3> HIDE DEF Made
      <3> QED
        BY <1>2
    <2> DEFINE g == [k \in 0..(m + 1) |-> IF k <= m THEN f[k] ELSE F[m + 1][f[m]]]
    <2>2. m + 1 \in 1..n /\ f[m] \in T /\ F[m + 1][f[m]] \in T
      BY <2>1
    <2>3. g \in [0..(m + 1) -> T] /\ g[0] = base
      <3>1. \A k \in 0..(m + 1) : k <= m => k \in 0..m
        OBVIOUS
      <3>2. \A k \in 0..(m + 1) : (IF k <= m THEN f[k] ELSE F[m + 1][f[m]]) \in T
        BY <2>1, <2>2, <3>1
      <3>3. 0 \in 0..(m + 1) /\ 0 <= m /\ f[0] = base
        BY <2>1
      <3> QED
        BY <3>2, <3>3
    <2>4. ASSUME NEW k \in 1..(m + 1) PROVE g[k] = F[k][g[k - 1]]
      <3>1. k - 1 \in 0..(m + 1) /\ g[k - 1] = f[k - 1]
        OBVIOUS
      <3>2. CASE k <= m
        <4>1. k \in 1..m /\ g[k] = f[k]
          BY <3>2
        <4> HIDE DEF g
        <4> QED
          BY <2>1, <3>1, <4>1
      <3>3. CASE ~(k <= m)
        <4>1. k = m + 1 /\ g[k] = F[m + 1][f[m]]
          BY <3>3
        <4> HIDE DEF g
        <4> QED
          BY <3>1, <4>1
      <3> QED
        BY <3>2, <3>3
    <2>5. Made(g, m + 1)
      <3> HIDE DEF g
      <3> QED
        BY <2>3, <2>4
    <2> HIDE DEF g, Made
    <2> QED
      BY <2>5
  <1>3. n \in K
    <2> HIDE DEF K
    <2> QED
      BY <1>1, <1>2, NatSetInduction
  <1>4. PICK g : Made(g, n)
    BY <1>3
  <1> QED
    BY <1>4

\* What follows a recursion stays in the set that its steps stay in.
LEMMA RecursionTyped ==
    ASSUME NEW T, NEW n \in Nat, NEW h, h[0] \in T,
           \A k \in 1..n : h[k - 1] \in T => h[k] \in T
    PROVE  \A k \in 0..n : h[k] \in T
  <1> DEFINE K == {m \in Nat : m <= n => h[m] \in T}
  <1>1. 0 \in K
    OBVIOUS
  <1>2. ASSUME NEW m \in Nat, m \in K PROVE m + 1 \in K
    <2>1. m + 1 <= n => m + 1 \in 1..n /\ h[m] \in T
      BY <1>2
    <2>2. m + 1 <= n => h[m + 1] \in T
      BY <2>1
    <2> QED
      BY <2>2
  <1>3. Nat \subseteq K
    <2> HIDE DEF K
    <2> QED
      BY <1>1, <1>2, NatSetInduction
  <1> QED
    BY <1>3

LEMMA ShapeTypes ==
    ASSUME NEW shape \in TensorShape
    PROVE  /\ Len(shape) \in Nat /\ DOMAIN shape = 1..Len(shape)
           /\ \A d \in 1..Len(shape) : shape[d] \in Nat /\ shape[d] > 0
  BY DEF TensorShape

\* The product of a shape grows by one size at a time.
LEMMA ProductSteps ==
    ASSUME NEW shape \in TensorShape
    PROVE  \E g \in [0..Len(shape) -> Nat \ {0}] :
              /\ g[0] = 1 /\ \A n \in 1..Len(shape) : g[n] = g[n - 1] * shape[n]
              /\ Product(shape) = g[Len(shape)]
  <1> DEFINE T == Nat \ {0}
             F == [k \in 1..Len(shape) |-> [x \in T |-> x * shape[k]]]
             IsIt(g) == g = [n \in 0..Len(shape) |-> IF n = 0 THEN 1 ELSE g[n - 1] * shape[n]]
             it == CHOOSE g : IsIt(g)
  <1>1. ASSUME NEW k \in 1..Len(shape), NEW x \in T PROVE x * shape[k] \in T
    <2>1. x \in Nat /\ x > 0 /\ shape[k] \in Nat /\ shape[k] > 0
      BY ShapeTypes
    <2>2. \A y, z \in Nat : y > 0 /\ z > 0 => y * z \in Nat /\ y * z > 0
      OBVIOUS
    <2> QED
      BY <2>1, <2>2
  <1>2. F \in [1..Len(shape) -> [T -> T]]
    BY <1>1
  <1>3. PICK g \in [0..Len(shape) -> T] :
            g[0] = 1 /\ \A k \in 1..Len(shape) : g[k] = F[k][g[k - 1]]
    <2> DEFINE one == 1
               size == Len(shape)
    <2>1. one \in T /\ size \in Nat
      BY ShapeTypes
    <2>2. F \in [1..size -> [T -> T]]
      BY <1>2
    <2>3. \E g \in [0..size -> T] : g[0] = one /\ \A k \in 1..size : g[k] = F[k][g[k - 1]]
      <3> HIDE DEF F, T, one, size
      <3> QED
        BY ONLY <2>1, <2>2, RecursionExists
    <2> QED
      BY <2>3
  <1>4. ASSUME NEW k \in 1..Len(shape) PROVE F[k][g[k - 1]] = g[k - 1] * shape[k]
    <2>1. g[k - 1] \in T
      BY ShapeTypes
    <2> QED
      BY <2>1
  <1>5. IsIt(g)
    <2>1. \A k \in 0..Len(shape) : k = 0 \/ k \in 1..Len(shape)
      BY ShapeTypes
    <2>2. \A k \in 0..Len(shape) : g[k] = IF k = 0 THEN 1 ELSE g[k - 1] * shape[k]
      <3> HIDE DEF F
      <3> QED
        BY <1>3, <1>4, <2>1
    <2>3. g = [k \in 0..Len(shape) |-> g[k]]
      BY <1>3
    <2> QED
      BY <2>2, <2>3
  <1>6. IsIt(it)
    <2> HIDE DEF IsIt
    <2> QED
      BY <1>5
  <1>7. Product(shape) = it[Len(shape)]
    BY DEF Product
  <1>8. ASSUME NEW h, IsIt(h)
        PROVE  h[0] = 1 /\ \A n \in 1..Len(shape) : h[n] = h[n - 1] * shape[n]
    <2>1. \A n \in 0..Len(shape) : h[n] = IF n = 0 THEN 1 ELSE h[n - 1] * shape[n]
      BY <1>8
    <2> HIDE DEF IsIt
    <2> QED
      BY <2>1, ShapeTypes
  <1>9. it \in [0..Len(shape) -> T]
    <2> HIDE DEF it
    <2>1. \A k \in 1..Len(shape) : it[k - 1] \in T => it[k] \in T
      <3> HIDE DEF T, IsIt
      <3> QED
        BY <1>1, <1>6, <1>8
    <2>2. it[0] \in T
      <3> HIDE DEF IsIt
      <3> QED
        BY <1>6, <1>8
    <2>3. \A k \in 0..Len(shape) : it[k] \in T
      <3> HIDE DEF T, IsIt
      <3> QED
        BY <2>1, <2>2, ShapeTypes, RecursionTyped
    <2>4. it = [n \in 0..Len(shape) |-> it[n]]
      BY <1>6
    <2> HIDE DEF IsIt
    <2> QED
      BY <2>3, <2>4
  <1> HIDE DEF it, IsIt
  <1> QED
    BY <1>6, <1>7, <1>8, <1>9

\* The entries of a tensor: all coordinates below the sizes.
Box(shape, n) == {i \in [1..n -> Nat] : \A d \in 1..n : i[d] < shape[d]}

Longer(shape, n, I) == {Append(i, j) : i \in I, j \in 0..(shape[n] - 1)}

LEMMA SequencesAre ==
    ASSUME NEW T, NEW n \in Nat, NEW x
    PROVE  x \in [1..n -> T] <=> x \in Seq(T) /\ Len(x) = n
  <1>1. x \in [1..n -> T] => x \in Seq(T) /\ Len(x) = n
    OBVIOUS
  <1>2. ASSUME x \in Seq(T), Len(x) = n PROVE x \in [1..n -> T]
    BY <1>2, LenProperties
  <1> QED
    BY <1>1, <1>2

LEMMA BoxGrows ==
    ASSUME NEW shape \in TensorShape, NEW n \in 1..Len(shape)
    PROVE  Box(shape, n) = Longer(shape, n, Box(shape, n - 1))
  <1>1. n \in Nat /\ n >= 1 /\ shape[n] \in Nat
    BY ShapeTypes
  <1>2. ASSUME NEW i \in Box(shape, n - 1), NEW j \in 0..(shape[n] - 1)
        PROVE  Append(i, j) \in Box(shape, n)
    <2>1. i \in [1..(n - 1) -> Nat] /\ j \in Nat /\ j < shape[n] /\ \A d \in 1..(n - 1) : i[d] < shape[d]
      BY <1>1 DEF Box
    <2>2. i \in Seq(Nat) /\ Len(i) = n - 1
      BY <1>1, <2>1
    <2>3. /\ Append(i, j) \in Seq(Nat) /\ Len(Append(i, j)) = n
          /\ \A d \in 1..(n - 1) : Append(i, j)[d] = i[d]
          /\ Append(i, j)[n] = j
      BY <1>1, <2>1, <2>2, AppendProperties
    <2>4. Append(i, j) \in [1..n -> Nat]
      BY <1>1, <2>3, SequencesAre
    <2>5. \A d \in 1..n : d \in 1..(n - 1) \/ d = n
      BY <1>1
    <2>6. \A d \in 1..n : Append(i, j)[d] < shape[d]
      BY <2>1, <2>3, <2>5
    <2> QED
      BY <2>4, <2>6 DEF Box
  <1>3. ASSUME NEW x \in Box(shape, n)
        PROVE  \E i \in Box(shape, n - 1), j \in 0..(shape[n] - 1) : x = Append(i, j)
    <2> DEFINE i == [d \in 1..(n - 1) |-> x[d]]
    <2>1. x \in [1..n -> Nat] /\ \A d \in 1..n : x[d] < shape[d]
      BY DEF Box
    <2>2. n \in 1..n /\ \A d \in 1..(n - 1) : d \in 1..n
      BY <1>1
    <2>3. i \in Box(shape, n - 1)
      BY <2>1, <2>2 DEF Box
    <2>4. x[n] \in 0..(shape[n] - 1)
      BY <1>1, <2>1, <2>2
    <2>5. i \in Seq(Nat) /\ Len(i) = n - 1
      BY <1>1, <2>1, <2>2
    <2>6. \A d \in 1..(n - 1) : i[d] = x[d]
      OBVIOUS
    <2>7. /\ Append(i, x[n]) \in Seq(Nat) /\ Len(Append(i, x[n])) = n
          /\ \A d \in 1..(n - 1) : Append(i, x[n])[d] = x[d]
          /\ Append(i, x[n])[n] = x[n]
      <3> HIDE DEF i
      <3>1. x[n] \in Nat
        BY <2>1, <2>2
      <3> QED
        BY <1>1, <2>5, <2>6, <3>1, AppendProperties
    <2>8. Append(i, x[n]) \in [1..n -> Nat]
      <3> HIDE DEF i
      <3> QED
        BY <1>1, <2>7, SequencesAre
    <2>9. \A d \in 1..n : d \in 1..(n - 1) \/ d = n
      BY <1>1
    <2>10. \A d \in 1..n : Append(i, x[n])[d] = x[d]
      <3> HIDE DEF i
      <3> QED
        BY <2>7, <2>9
    <2>11. x = Append(i, x[n])
      <3> HIDE DEF i
      <3> QED
        BY <2>1, <2>8, <2>10
    <2> HIDE DEF i
    <2> QED
      BY <2>3, <2>4, <2>11
  <1>4. Longer(shape, n, Box(shape, n - 1)) \subseteq Box(shape, n)
    <2>1. ASSUME NEW x \in Longer(shape, n, Box(shape, n - 1)) PROVE x \in Box(shape, n)
      <3>1. PICK i \in Box(shape, n - 1), j \in 0..(shape[n] - 1) : x = Append(i, j)
        BY DEF Longer
      <3> QED
        BY <1>2, <3>1
    <2> QED
      BY <2>1
  <1>5. Box(shape, n) \subseteq Longer(shape, n, Box(shape, n - 1))
    BY <1>3 DEF Longer
  <1> QED
    BY <1>4, <1>5

LEMMA IndicesAre ==
    ASSUME NEW shape \in TensorShape
    PROVE  Indices(shape) = Box(shape, Len(shape))
  <1> DEFINE IsIt(g) == g = [n \in 0..Len(shape) |->
                 IF n = 0 THEN {<<>>} ELSE Longer(shape, n, g[n - 1])]
             it == CHOOSE g : IsIt(g)
             g0 == [n \in 0..Len(shape) |-> Box(shape, n)]
  <1>0. Len(shape) \in Nat
    BY ShapeTypes
  <1>1. Box(shape, 0) = {<<>>}
    <2>1. \A i : i \in [1..0 -> Nat] <=> i \in Seq(Nat) /\ Len(i) = 0
      BY SequencesAre
    <2>2. \A i : i \in [1..0 -> Nat] <=> i = <<>>
      BY <2>1, EmptySeq
    <2> QED
      BY <2>2 DEF Box
  <1>2. IsIt(g0)
    <2>1. ASSUME NEW n \in 0..Len(shape)
          PROVE  g0[n] = IF n = 0 THEN {<<>>} ELSE Longer(shape, n, g0[n - 1])
      <3>1. CASE n = 0
        BY <1>1, <3>1
      <3>2. CASE n # 0
        <4>1. n \in 1..Len(shape) /\ n - 1 \in 0..Len(shape)
          BY <1>0, <3>2
        <4>2. g0[n] = Box(shape, n) /\ g0[n - 1] = Box(shape, n - 1)
          BY <4>1
        <4> HIDE DEF g0
        <4> QED
          BY <3>2, <4>1, <4>2, BoxGrows
      <3> QED
        BY <3>1, <3>2
    <2>2. g0 = [n \in 0..Len(shape) |-> g0[n]]
      OBVIOUS
    <2> HIDE DEF g0
    <2> QED
      BY <2>1, <2>2
  <1>3. IsIt(it)
    <2> HIDE DEF IsIt, g0
    <2> QED
      BY <1>2
  <1>4. \A n \in 0..Len(shape) :
            it[n] = IF n = 0 THEN {<<>>} ELSE Longer(shape, n, it[n - 1])
    <2> HIDE DEF it
    <2> QED
      BY <1>3
  <1>5. Indices(shape) = it[Len(shape)]
    BY DEF Indices, Longer
  <1> HIDE DEF it, IsIt, g0
  <1> DEFINE K == {n \in Nat : n <= Len(shape) => it[n] = Box(shape, n)}
  <1>6. 0 \in K
    <2>1. it[0] = {<<>>}
      BY <1>0, <1>4
    <2> QED
      BY <1>1, <2>1
  <1>7. ASSUME NEW n \in Nat, n \in K PROVE n + 1 \in K
    <2> SUFFICES ASSUME n + 1 <= Len(shape) PROVE it[n + 1] = Box(shape, n + 1)
      OBVIOUS
    <2>1. n + 1 \in 1..Len(shape) /\ n + 1 \in 0..Len(shape) /\ n + 1 # 0 /\ (n + 1) - 1 = n /\ it[n] = Box(shape, n)
      BY <1>0, <1>7
    <2>2. it[n + 1] = Longer(shape, n + 1, it[(n + 1) - 1])
      BY <1>4, <2>1
    <2>3. Box(shape, n + 1) = Longer(shape, n + 1, Box(shape, (n + 1) - 1))
      BY <2>1, BoxGrows
    <2> QED
      BY <2>1, <2>2, <2>3
  <1>8. Nat \subseteq K
    <2> HIDE DEF K
    <2> QED
      BY <1>6, <1>7, NatSetInduction
  <1> QED
    BY <1>0, <1>5, <1>8

\* An entry, by its coordinates.
LEMMA IndexIs ==
    ASSUME NEW shape \in TensorShape
    PROVE  \A i : i \in Indices(shape) <=>
               i \in Seq(Nat) /\ Len(i) = Len(shape) /\ \A d \in 1..Len(shape) : i[d] < shape[d]
  <1>1. \A i : i \in Indices(shape) <=> i \in [1..Len(shape) -> Nat] /\ \A d \in 1..Len(shape) : i[d] < shape[d]
    BY IndicesAre DEF Box
  <1>2. \A i : i \in [1..Len(shape) -> Nat] <=> i \in Seq(Nat) /\ Len(i) = Len(shape)
    BY ShapeTypes
  <1> QED
    BY <1>1, <1>2

-----------------------------------------------------------------------------
(* Positions in memory. *)

LEMMA Multiples ==
    ASSUME NEW a \in Nat, NEW i \in Int, NEW j \in Int, i < j
    PROVE  i * a \in Int /\ j * a \in Int /\ i * a + a <= j * a
  <1>1. i * a \in Int /\ j * a \in Int /\ (j - i - 1) * a \in Int
    OBVIOUS
  <1>2. (j - i - 1) * a >= 0
    <2>1. j - i - 1 \in Nat
      OBVIOUS
    <2> QED
      BY <2>1
  <1>3. (j - i - 1) * a = j * a - i * a - a
    OBVIOUS
  <1> QED
    BY <1>1, <1>2, <1>3

LEMMA QuotientOf ==
    ASSUME NEW q \in Nat, NEW b \in Nat, b > 0, NEW r \in 0..(b - 1)
    PROVE  (q * b + r) \div b = q /\ (q * b + r) % b = r
  <1> DEFINE x == q * b + r
             d == x \div b
             m == x % b
  <1>1. x \in Nat
    OBVIOUS
  <1>2. d \in Int /\ m \in Int /\ x = b * d + m /\ 0 <= m /\ m < b
    BY <1>1
  <1>3. x = q * b + r /\ q * b \in Int
    OBVIOUS
  <1> HIDE DEF x, d, m
  <1>4. b * d = d * b /\ d * b \in Int
    BY <1>2
  <1>5. ~(d < q)
    <2>1. d < q => d * b + b <= q * b
      BY <1>2, Multiples
    <2> QED
      BY <1>2, <1>3, <1>4, <2>1
  <1>6. ~(q < d)
    <2>1. q < d => q * b + b <= d * b
      BY <1>2, Multiples
    <2> QED
      BY <1>2, <1>3, <1>4, <2>1
  <1>7. d = q
    BY <1>2, <1>5, <1>6
  <1>8. m = r
    BY <1>2, <1>3, <1>4, <1>7
  <1> QED
    BY <1>7, <1>8 DEF x, d, m

\* The position of an entry grows axis by axis.
LEMMA PositionSteps ==
    ASSUME NEW shape \in TensorShape, NEW index \in Indices(shape)
    PROVE  \E g \in [0..Len(shape) -> Nat] :
              /\ g[0] = 0 /\ \A n \in 1..Len(shape) : g[n] = g[n - 1] * shape[n] + index[n]
              /\ Position(shape, index) = g[Len(shape)]
  <1> DEFINE F == [k \in 1..Len(shape) |-> [x \in Nat |-> x * shape[k] + index[k]]]
             IsIt(g) == g = [n \in 0..Len(shape) |-> IF n = 0 THEN 0 ELSE g[n - 1] * shape[n] + index[n]]
             it == CHOOSE g : IsIt(g)
  <1>0. \A k \in 1..Len(shape) : shape[k] \in Nat /\ index[k] \in Nat
    BY ShapeTypes, IndexIs
  <1>1. ASSUME NEW k \in 1..Len(shape), NEW x \in Nat PROVE x * shape[k] + index[k] \in Nat
    <2>1. shape[k] \in Nat /\ index[k] \in Nat
      BY <1>0
    <2> QED
      BY <2>1
  <1>2. F \in [1..Len(shape) -> [Nat -> Nat]]
    BY <1>1
  <1>3. PICK g \in [0..Len(shape) -> Nat] :
            g[0] = 0 /\ \A k \in 1..Len(shape) : g[k] = F[k][g[k - 1]]
    <2> DEFINE zero == 0
               size == Len(shape)
               T == Nat
    <2>1. zero \in T /\ size \in Nat
      BY ShapeTypes
    <2>2. F \in [1..size -> [T -> T]]
      BY <1>2
    <2>3. \E g \in [0..size -> T] : g[0] = zero /\ \A k \in 1..size : g[k] = F[k][g[k - 1]]
      <3> HIDE DEF F, zero, size, T
      <3> QED
        BY ONLY <2>1, <2>2, RecursionExists
    <2> QED
      BY <2>3
  <1>4. ASSUME NEW k \in 1..Len(shape) PROVE F[k][g[k - 1]] = g[k - 1] * shape[k] + index[k]
    <2>1. g[k - 1] \in Nat
      BY ShapeTypes
    <2> QED
      BY <2>1
  <1>5. IsIt(g)
    <2>1. \A k \in 0..Len(shape) : k = 0 \/ k \in 1..Len(shape)
      BY ShapeTypes
    <2>2. \A k \in 0..Len(shape) : g[k] = IF k = 0 THEN 0 ELSE g[k - 1] * shape[k] + index[k]
      <3> HIDE DEF F
      <3> QED
        BY <1>3, <1>4, <2>1
    <2>3. g = [k \in 0..Len(shape) |-> g[k]]
      BY <1>3
    <2> QED
      BY <2>2, <2>3
  <1>6. IsIt(it)
    <2> HIDE DEF IsIt
    <2> QED
      BY <1>5
  <1>7. Position(shape, index) = it[Len(shape)]
    BY DEF Position
  <1>8. ASSUME NEW h, IsIt(h)
        PROVE  h[0] = 0 /\ \A n \in 1..Len(shape) : h[n] = h[n - 1] * shape[n] + index[n]
    <2>1. \A n \in 0..Len(shape) : h[n] = IF n = 0 THEN 0 ELSE h[n - 1] * shape[n] + index[n]
      BY <1>8
    <2> HIDE DEF IsIt
    <2> QED
      BY <2>1, ShapeTypes
  <1>9. it \in [0..Len(shape) -> Nat]
    <2> HIDE DEF it
    <2>1. \A k \in 1..Len(shape) : it[k - 1] \in Nat => it[k] \in Nat
      <3> HIDE DEF IsIt
      <3> QED
        BY <1>1, <1>6, <1>8
    <2>2. it[0] \in Nat
      <3> HIDE DEF IsIt
      <3> QED
        BY <1>6, <1>8
    <2>3. \A k \in 0..Len(shape) : it[k] \in Nat
      <3> HIDE DEF IsIt
      <3> QED
        BY <2>1, <2>2, ShapeTypes, RecursionTyped
    <2>4. it = [n \in 0..Len(shape) |-> it[n]]
      BY <1>6
    <2> HIDE DEF IsIt
    <2> QED
      BY <2>3, <2>4
  <1> HIDE DEF it, IsIt
  <1> QED
    BY <1>6, <1>7, <1>8, <1>9

LEMMA RestOf ==
    ASSUME NEW T, NEW s \in Seq(T), NEW a \in 1..Len(s)
    PROVE  LET rest == SubSeq(s, a + 1, Len(s)) IN
           /\ rest \in Seq(T) /\ Len(rest) = Len(s) - a
           /\ \A n \in 1..(Len(s) - a) : rest[n] = s[a + n]
  OBVIOUS

\* A coordinate is what is left of the position when the axes after it are
\* divided out.
LEMMA CoordinateOfPosition ==
    ASSUME NEW shape \in TensorShape, NEW i \in Indices(shape), NEW a \in 1..Len(shape)
    PROVE  /\ Position(shape, i) \in Nat
           /\ Product(After(shape, a - 1)) \in Nat /\ Product(After(shape, a - 1)) > 0
           /\ (Position(shape, i) \div Product(After(shape, a - 1))) % shape[a] = i[a]
  <1> DEFINE t == After(shape, a - 1)
             m == Len(shape) - a
  <1>0. Len(shape) \in Nat /\ a \in Nat /\ m \in Nat /\ a + m = Len(shape) /\ a >= 1
    BY ShapeTypes
  <1>1. t \in TensorShape /\ Len(t) = m /\ \A n \in 1..m : t[n] = shape[a + n]
    <2>1. t = SubSeq(shape, a + 1, Len(shape))
      BY <1>0 DEF After
    <2> QED
      BY <1>0, <2>1, RestOf DEF TensorShape
  <1>2. \A d \in 1..Len(shape) : i[d] \in Nat /\ i[d] < shape[d] /\ shape[d] \in Nat
    BY IndexIs, ShapeTypes
  <1>3. PICK g \in [0..Len(shape) -> Nat] :
            /\ g[0] = 0 /\ \A n \in 1..Len(shape) : g[n] = g[n - 1] * shape[n] + i[n]
            /\ Position(shape, i) = g[Len(shape)]
    BY PositionSteps
  <1>4. PICK p \in [0..Len(t) -> Nat \ {0}] :
            /\ p[0] = 1 /\ \A n \in 1..Len(t) : p[n] = p[n - 1] * t[n]
            /\ Product(t) = p[Len(t)]
    <2> HIDE DEF t
    <2> QED
      BY <1>1, ProductSteps
  <1> HIDE DEF t, m
  <1>20. \A n \in 0..Len(shape) : g[n] \in Nat
    BY <1>3
  <1>21. \A n \in 0..m : p[n] \in Nat /\ p[n] > 0
    <2>1. p \in [0..m -> Nat \ {0}]
      BY <1>1, <1>4
    <2>2. \A n \in 0..m : p[n] \in Nat \ {0}
      BY <2>1
    <2> QED
      BY <2>2
  <1> DEFINE Rest(n) == \E r \in 0..(p[n] - 1) : g[a + n] = g[a] * p[n] + r
             K == {n \in Nat : n <= m => Rest(n)}
  <1>5. 0 \in K
    <2>1. g[a] \in Nat /\ p[0] = 1
      BY <1>0, <1>4, <1>20
    <2>2. g[a] = g[a] * 1 + 0
      BY <2>1
    <2>3. 0 \in 0..(p[0] - 1) /\ g[a + 0] = g[a] * p[0] + 0
      BY <1>0, <2>1, <2>2
    <2> QED
      BY <2>3
  <1>6. ASSUME NEW n \in Nat, n \in K PROVE n + 1 \in K
    <2> SUFFICES ASSUME n + 1 <= m PROVE Rest(n + 1)
      OBVIOUS
    <2>1. PICK r \in 0..(p[n] - 1) : g[a + n] = g[a] * p[n] + r
      BY <1>0, <1>6
    <2> DEFINE x == g[a]
               y == p[n]
               d == shape[a + n + 1]
               j == i[a + n + 1]
    <2>2. /\ x \in Nat /\ y \in Nat /\ y > 0 /\ d \in Nat /\ j \in Nat /\ j < d
      <3>1. a \in 0..Len(shape) /\ a + n + 1 \in 1..Len(shape) /\ n \in 0..m
        BY <1>0
      <3> QED
        BY <1>2, <1>20, <1>21, <3>1
    <2>3. g[a + n + 1] = g[a + n] * d + j /\ p[n + 1] = y * d
      <3>1. a + n + 1 \in 1..Len(shape) /\ n + 1 \in 1..Len(t) /\ (a + n + 1) - 1 = a + n /\ (n + 1) - 1 = n
        BY <1>0, <1>1
      <3>2. t[n + 1] = shape[a + n + 1]
        BY <1>0, <1>1, <3>1
      <3> QED
        BY <1>3, <1>4, <3>1, <3>2
    <2>4. g[a + n] = x * y + r /\ r \in Nat /\ r < y
      BY <2>1, <2>2
    <2> HIDE DEF x, y, d, j
    <2>5. (x * y + r) * d + j = x * (y * d) + (r * d + j)
      BY <2>2, <2>4
    <2>6. r * d + j \in 0..(y * d - 1)
      <3>1. r * d + d <= y * d /\ r * d \in Nat /\ y * d \in Nat
        BY <2>2, <2>4, Multiples
      <3> QED
        BY <2>2, <3>1
    <2>7. r * d + j \in 0..(p[n + 1] - 1) /\ g[a + n + 1] = x * p[n + 1] + (r * d + j)
      BY <2>3, <2>4, <2>5, <2>6
    <2>8. g[a + (n + 1)] = g[a + n + 1]
      BY <1>0
    <2> QED
      BY <2>7, <2>8 DEF x
  <1>7. Nat \subseteq K
    <2> HIDE DEF K
    <2> QED
      BY <1>5, <1>6, NatSetInduction
  <1>8. PICK r \in 0..(p[m] - 1) : g[a + m] = g[a] * p[m] + r
    BY <1>0, <1>7
  <1>9. Product(t) = p[m] /\ p[m] \in Nat /\ p[m] > 0
    <2>1. m \in 0..m
      BY <1>0
    <2> QED
      BY <1>1, <1>4, <1>21, <2>1
  <1>10. Position(shape, i) = g[a] * p[m] + r /\ g[a] \in Nat /\ Position(shape, i) \in Nat
    <2>1. g[a] \in Nat
      BY <1>0, <1>20
    <2>2. Position(shape, i) = g[a] * p[m] + r
      BY <1>0, <1>3, <1>8
    <2>3. r \in Nat
      BY <1>9
    <2>4. g[a] * p[m] \in Nat
      BY <1>9, <2>1
    <2> QED
      BY <2>1, <2>2, <2>3, <2>4
  <1>11. Position(shape, i) \div Product(t) = g[a]
    <2> DEFINE q == g[a]
               b == p[m]
    <2>1. q \in Nat /\ b \in Nat /\ b > 0 /\ r \in 0..(b - 1)
      BY <1>9, <1>10
    <2>2. (q * b + r) \div b = q
      <3> HIDE DEF q, b
      <3> QED
        BY <2>1, QuotientOf
    <2> QED
      BY <1>9, <1>10, <2>2
  <1>12. g[a] = g[a - 1] * shape[a] + i[a] /\ g[a - 1] \in Nat
    <2>1. g[a - 1] \in Nat
      BY <1>0, <1>20
    <2> QED
      BY <1>3, <2>1
  <1>13. shape[a] \in Nat /\ shape[a] > 0 /\ i[a] \in 0..(shape[a] - 1)
    BY <1>2, ShapeTypes
  <1>14. g[a] % shape[a] = i[a]
    <2> DEFINE q == g[a - 1]
               b == shape[a]
               j == i[a]
    <2>1. q \in Nat /\ b \in Nat /\ b > 0 /\ j \in 0..(b - 1)
      BY <1>12, <1>13
    <2>2. (q * b + j) % b = j
      <3> HIDE DEF q, b, j
      <3> QED
        BY <2>1, QuotientOf
    <2> QED
      BY <1>12, <2>2
  <1> QED
    BY <1>9, <1>10, <1>11, <1>14 DEF t

-----------------------------------------------------------------------------
(* Axes inserted and removed. *)

LEMMA InsertAtFacts ==
    ASSUME NEW T, NEW s \in Seq(T), NEW k \in 1..(Len(s) + 1), NEW e \in T
    PROVE  /\ InsertAt(s, k, e) \in Seq(T) /\ Len(InsertAt(s, k, e)) = Len(s) + 1
           /\ \A j \in 1..(Len(s) + 1) :
                  InsertAt(s, k, e)[j] = IF j < k THEN s[j] ELSE IF j = k THEN e ELSE s[j - 1]
  <1> DEFINE front == SubSeq(s, 1, k - 1)
             back == SubSeq(s, k, Len(s))
             mid == <<e>>
             all == front \o mid
  <1>0. Len(s) \in Nat
    BY LenProperties
  <1>1. /\ front \in Seq(T) /\ Len(front) = k - 1
        /\ \A j \in 1..(k - 1) : front[j] = s[j]
    OBVIOUS
  <1>2. /\ back \in Seq(T) /\ Len(back) = Len(s) - k + 1
        /\ \A j \in 1..(Len(s) - k + 1) : back[j] = s[k + j - 1]
    OBVIOUS
  <1>3. mid \in Seq(T) /\ Len(mid) = 1 /\ mid[1] = e
    OBVIOUS
  <1> HIDE DEF front, back, mid
  <1>4. /\ all \in Seq(T) /\ Len(all) = k
        /\ \A j \in 1..k : all[j] = IF j < k THEN s[j] ELSE e
    <2>1. /\ all \in Seq(T) /\ Len(all) = Len(front) + Len(mid)
          /\ \A j \in 1..(Len(front) + Len(mid)) :
                 all[j] = IF j <= Len(front) THEN front[j] ELSE mid[j - Len(front)]
      BY <1>1, <1>3, ConcatProperties
    <2> QED
      BY <1>1, <1>3, <2>1
  <1> HIDE DEF all
  <1>5. /\ all \o back \in Seq(T) /\ Len(all \o back) = Len(all) + Len(back)
        /\ \A j \in 1..(Len(all) + Len(back)) :
               (all \o back)[j] = IF j <= Len(all) THEN all[j] ELSE back[j - Len(all)]
    BY <1>2, <1>4, ConcatProperties
  <1>6. InsertAt(s, k, e) = all \o back
    BY DEF InsertAt, all, front, mid, back
  <1>7. ASSUME NEW j \in 1..(Len(s) + 1)
        PROVE  (all \o back)[j] = IF j < k THEN s[j] ELSE IF j = k THEN e ELSE s[j - 1]
    <2>1. CASE j <= k
      <3>1. j \in 1..k /\ j \in 1..(Len(all) + Len(back)) /\ j <= Len(all)
        BY <1>0, <1>2, <1>4, <2>1
      <3> QED
        BY <1>4, <1>5, <2>1, <3>1
    <2>2. CASE ~(j <= k)
      <3>1. j \in 1..(Len(all) + Len(back)) /\ ~(j <= Len(all)) /\ j - k \in 1..(Len(s) - k + 1) /\ k + (j - k) - 1 = j - 1
        BY <1>0, <1>2, <1>4, <2>2
      <3>2. (all \o back)[j] = back[j - k]
        BY <1>4, <1>5, <3>1
      <3>3. back[j - k] = s[j - 1]
        BY <1>2, <3>1
      <3> QED
        BY <2>2, <3>2, <3>3
    <2> QED
      BY <2>1, <2>2
  <1> QED
    BY <1>0, <1>2, <1>4, <1>5, <1>6, <1>7

LEMMA WithoutIs ==
    ASSUME NEW shape \in TensorShape, NEW a \in 0..(Len(shape) - 1)
    PROVE  /\ Without(shape, a) = RemoveAt(shape, a + 1)
           /\ Without(shape, a) \in TensorShape /\ Len(Without(shape, a)) = Len(shape) - 1
           /\ \A j \in 1..(Len(shape) - 1) : Without(shape, a)[j] = IF j < a + 1 THEN shape[j] ELSE shape[j + 1]
  <1>1. a + 1 \in 1..Len(shape) /\ (a + 1) - 1 = a /\ (a + 1) + 1 = a + 2
    BY ShapeTypes
  <1>2. Without(shape, a) = RemoveAt(shape, a + 1)
    BY <1>1 DEF Without, Before, After, RemoveAt
  <1> DEFINE N == Nat \ {0}
             k == a + 1
             shorter == RemoveAt(shape, k)
  <1>3. shape \in Seq(N) /\ k \in 1..Len(shape)
    BY <1>1 DEF TensorShape
  <1> HIDE DEF N, k
  <1>4. /\ shorter \in Seq(N) /\ Len(shorter) = Len(shape) - 1
        /\ \A j \in 1..(Len(shape) - 1) : shorter[j] = IF j < k THEN shape[j] ELSE shape[j + 1]
    BY <1>3, RemoveAtFacts
  <1> HIDE DEF shorter
  <1> QED
    BY <1>2, <1>4 DEF TensorShape, N, k, shorter

\* A coordinate put in where the axis was.
LEMMA IndexInserted ==
    ASSUME NEW shape \in TensorShape, NEW a \in 0..(Len(shape) - 1),
           NEW i \in Indices(Without(shape, a)), NEW j \in 0..(shape[a + 1] - 1)
    PROVE  /\ InsertAt(i, a + 1, j) \in Indices(shape)
           /\ \A b \in 0..(Len(shape) - 1) : b # a =>
                  InsertAt(i, a + 1, j)[b + 1] = i[(IF a < b THEN b - 1 ELSE b) + 1]
  <1>1. /\ i \in Seq(Nat) /\ Len(i) = Len(shape) - 1
        /\ \A d \in 1..(Len(shape) - 1) : i[d] < Without(shape, a)[d]
    BY WithoutIs, IndexIs
  <1>2. Len(shape) \in Nat /\ a + 1 \in 1..(Len(i) + 1) /\ j \in Nat /\ j < shape[a + 1]
    BY <1>1, ShapeTypes
  <1> DEFINE x == InsertAt(i, a + 1, j)
  <1>3. /\ x \in Seq(Nat) /\ Len(x) = Len(i) + 1
        /\ \A d \in 1..(Len(i) + 1) : x[d] = IF d < a + 1 THEN i[d] ELSE IF d = a + 1 THEN j ELSE i[d - 1]
    <2> DEFINE N == Nat
    <2>1. i \in Seq(N) /\ j \in N /\ a + 1 \in 1..(Len(i) + 1)
      BY <1>1, <1>2
    <2> HIDE DEF N
    <2>2. /\ InsertAt(i, a + 1, j) \in Seq(N) /\ Len(InsertAt(i, a + 1, j)) = Len(i) + 1
          /\ \A d \in 1..(Len(i) + 1) :
                 InsertAt(i, a + 1, j)[d] = IF d < a + 1 THEN i[d] ELSE IF d = a + 1 THEN j ELSE i[d - 1]
      BY <2>1, InsertAtFacts
    <2> QED
      BY <2>2 DEF N
  <1> HIDE DEF x
  <1>4. \A d \in 1..Len(shape) : x[d] = IF d < a + 1 THEN i[d] ELSE IF d = a + 1 THEN j ELSE i[d - 1]
    BY <1>1, <1>2, <1>3
  <1>5. ASSUME NEW d \in 1..Len(shape) PROVE x[d] < shape[d]
    <2>1. CASE d < a + 1
      <3>1. d \in 1..(Len(shape) - 1)
        BY <1>2, <2>1
      <3> QED
        BY <1>1, <1>4, <2>1, <3>1, WithoutIs
    <2>2. CASE d = a + 1
      BY <1>2, <1>4, <2>2
    <2>3. CASE d > a + 1
      <3>1. d - 1 \in 1..(Len(shape) - 1) /\ ~(d - 1 < a + 1) /\ (d - 1) + 1 = d /\ ~(d < a + 1) /\ d # a + 1
        BY <1>2, <2>3
      <3>2. i[d - 1] < Without(shape, a)[d - 1] /\ Without(shape, a)[d - 1] = shape[d]
        BY <1>1, <3>1, WithoutIs
      <3>3. x[d] = i[d - 1]
        BY <1>4, <3>1
      <3> QED
        BY <3>2, <3>3
    <2> QED
      BY <1>2, <2>1, <2>2, <2>3
  <1>6. x \in Indices(shape)
    <2>1. x \in Seq(Nat) /\ Len(x) = Len(shape)
      BY <1>1, <1>2, <1>3
    <2> QED
      BY <1>5, <2>1, IndexIs
  <1>7. ASSUME NEW b \in 0..(Len(shape) - 1), b # a PROVE x[b + 1] = i[(IF a < b THEN b - 1 ELSE b) + 1]
    <2>1. b + 1 \in 1..Len(shape) /\ b + 1 # a + 1 /\ (b + 1) - 1 = b /\ (b - 1) + 1 = b /\ (a < b <=> ~(b + 1 < a + 1))
      BY <1>2, <1>7
    <2> QED
      BY <1>4, <2>1
  <1> QED
    BY <1>6, <1>7 DEF x

\* The coordinate of an axis left out.
LEMMA IndexRemoved ==
    ASSUME NEW shape \in TensorShape, NEW a \in 0..Len(shape), NEW n \in Nat \ {0},
           NEW i \in Indices(InsertAt(shape, a + 1, n))
    PROVE  /\ RemoveAt(i, a + 1) \in Indices(shape)
           /\ \A b \in 0..(Len(shape) - 1) :
                  RemoveAt(i, a + 1)[b + 1] = i[(IF a <= b THEN b + 1 ELSE b) + 1]
  <1> DEFINE longer == InsertAt(shape, a + 1, n)
  <1>0. Len(shape) \in Nat /\ a + 1 \in 1..(Len(shape) + 1)
    BY ShapeTypes
  <1>1. /\ longer \in TensorShape /\ Len(longer) = Len(shape) + 1
        /\ \A j \in 1..(Len(shape) + 1) :
               longer[j] = IF j < a + 1 THEN shape[j] ELSE IF j = a + 1 THEN n ELSE shape[j - 1]
    <2> DEFINE N == Nat \ {0}
    <2>1. shape \in Seq(N) /\ n \in N /\ a + 1 \in 1..(Len(shape) + 1)
      BY <1>0 DEF TensorShape
    <2> HIDE DEF N
    <2>2. /\ InsertAt(shape, a + 1, n) \in Seq(N) /\ Len(InsertAt(shape, a + 1, n)) = Len(shape) + 1
          /\ \A j \in 1..(Len(shape) + 1) :
                 InsertAt(shape, a + 1, n)[j] = IF j < a + 1 THEN shape[j] ELSE IF j = a + 1 THEN n ELSE shape[j - 1]
      BY <2>1, InsertAtFacts
    <2> QED
      BY <2>2 DEF N, TensorShape
  <1> HIDE DEF longer
  <1>2. i \in Indices(longer)
    BY DEF longer
  <1>3. i \in Seq(Nat) /\ Len(i) = Len(shape) + 1 /\ \A d \in 1..(Len(shape) + 1) : i[d] < longer[d]
    BY <1>1, <1>2, IndexIs
  <1> DEFINE x == RemoveAt(i, a + 1)
  <1>4. /\ x \in Seq(Nat) /\ Len(x) = Len(i) - 1
        /\ \A d \in 1..(Len(i) - 1) : x[d] = IF d < a + 1 THEN i[d] ELSE i[d + 1]
    <2>1. i \in Seq(Nat) /\ a + 1 \in 1..Len(i)
      BY <1>0, <1>3
    <2>2. /\ RemoveAt(i, a + 1) \in Seq(Nat) /\ Len(RemoveAt(i, a + 1)) = Len(i) - 1
          /\ \A d \in 1..(Len(i) - 1) : RemoveAt(i, a + 1)[d] = IF d < a + 1 THEN i[d] ELSE i[d + 1]
      BY <2>1, RemoveAtFacts
    <2> QED
      BY <2>2
  <1> HIDE DEF x
  <1>5. Len(x) = Len(shape) /\ \A d \in 1..Len(shape) : x[d] = IF d < a + 1 THEN i[d] ELSE i[d + 1]
    BY <1>0, <1>3, <1>4
  <1>6. ASSUME NEW d \in 1..Len(shape) PROVE x[d] < shape[d]
    <2>1. d \in 1..(Len(shape) + 1) /\ d + 1 \in 1..(Len(shape) + 1) /\ (d + 1) - 1 = d
      BY <1>0
    <2>2. CASE d < a + 1
      BY <1>1, <1>3, <1>5, <2>1, <2>2
    <2>3. CASE ~(d < a + 1)
      <3>1. ~(d + 1 < a + 1) /\ d + 1 # a + 1
        BY <1>0, <2>3
      <3>2. longer[d + 1] = shape[d]
        BY <1>1, <2>1, <3>1
      <3> QED
        BY <1>3, <1>5, <2>1, <2>3, <3>2
    <2> QED
      BY <2>2, <2>3
  <1>7. x \in Indices(shape)
    BY <1>4, <1>5, <1>6, IndexIs
  <1>8. ASSUME NEW b \in 0..(Len(shape) - 1) PROVE x[b + 1] = i[(IF a <= b THEN b + 1 ELSE b) + 1]
    <2>1. b + 1 \in 1..Len(shape) /\ (a <= b <=> ~(b + 1 < a + 1))
      BY <1>0
    <2> QED
      BY <1>5, <2>1
  <1> QED
    BY <1>7, <1>8 DEF x

-----------------------------------------------------------------------------
(* A trace that is true of a tensor: its shape, and the slot of every entry. *)

LiesAlong(clear, shape, a) == \A i \in Indices(shape) : clear.slot[i] = i[a + 1]

Faithful(trace, clear) ==
    /\ trace.shape \in TensorShape /\ clear.shape = trace.shape /\ DOMAIN clear.slot = Indices(trace.shape)
    /\ trace.axis # Absent =>
           trace.axis \in 0..(Len(trace.shape) - 1) /\ LiesAlong(clear, trace.shape, trace.axis)

LEMMA NoAxisIsNone == \A x \in Int : x # Absent
  BY ShapeAssumption

LEMMA TracedAt ==
    ASSUME NEW shape, NEW a \in Nat
    PROVE  Traced(shape, a) = [shape |-> shape, axis |-> a] /\ Traced(shape, Absent) = [shape |-> shape, axis |-> Absent]
  BY NoAxisIsNone DEF Traced, ToPos

LEMMA FaithfulTo ==
    ASSUME NEW shape \in TensorShape, NEW a \in 0..(Len(shape) - 1), NEW clear,
           clear.shape = shape, DOMAIN clear.slot = Indices(shape), LiesAlong(clear, shape, a)
    PROVE  Faithful(Traced(shape, a), clear)
  <1>1. a \in Nat
    BY ShapeTypes
  <1> QED
    BY <1>1, TracedAt DEF Faithful

LEMMA FaithfulUnpacked ==
    ASSUME NEW shape \in TensorShape, NEW clear, clear.shape = shape, DOMAIN clear.slot = Indices(shape)
    PROVE  Faithful(Traced(shape, Absent), clear)
  BY TracedAt DEF Faithful

LEMMA PackedFaithful ==
    ASSUME NEW shape \in TensorShape, NEW a \in 0..(Len(shape) - 1)
    PROVE  Faithful(Traced(shape, a), Packed(shape, a)) /\ Faithful(Traced(shape, Absent), Packed(shape, Absent))
  <1>1. a \in Int
    BY ShapeTypes
  <1>2. /\ Packed(shape, a).shape = shape /\ DOMAIN Packed(shape, a).slot = Indices(shape)
        /\ \A i \in Indices(shape) : Packed(shape, a).slot[i] = i[a + 1]
    BY <1>1, NoAxisIsNone DEF Packed, At
  <1>3. Packed(shape, Absent).shape = shape /\ DOMAIN Packed(shape, Absent).slot = Indices(shape)
    BY DEF Packed
  <1> QED
    BY <1>2, <1>3, FaithfulTo, FaithfulUnpacked DEF LiesAlong

\* An axis put in, of any size (infer_insert_axis_output_shape).
LEMMA InsertFaithful ==
    ASSUME NEW t, NEW c, Faithful(t, c), NEW a \in 0..Len(t.shape), NEW n \in Nat \ {0}
    PROVE  Faithful(InferInsert(t, a, n), Unsqueezed(c, a, n))
  <1> DEFINE shape == t.shape
             longer == InsertAt(shape, a + 1, n)
             out == Unsqueezed(c, a, n)
  <1>0. shape \in TensorShape /\ Len(shape) \in Nat /\ a \in Nat
    BY ShapeTypes DEF Faithful
  <1>1. Cut(a, t.shape) = a
    BY <1>0 DEF Cut
  <1>2. longer \in TensorShape /\ Len(longer) = Len(shape) + 1
    <2> DEFINE N == Nat \ {0}
    <2>1. shape \in Seq(N) /\ n \in N /\ a + 1 \in 1..(Len(shape) + 1)
      BY <1>0 DEF TensorShape
    <2> HIDE DEF N, shape
    <2>2. longer \in Seq(N) /\ Len(longer) = Len(shape) + 1
      BY <2>1, InsertAtFacts
    <2> QED
      BY <2>2 DEF N, TensorShape
  <1>3. /\ out.shape = longer /\ DOMAIN out.slot = Indices(longer)
        /\ \A i \in Indices(longer) : out.slot[i] = c.slot[RemoveAt(i, a + 1)]
    BY DEF Unsqueezed, Gather, Faithful
  <1>4. CASE t.axis = Absent
    <2>1. InferInsert(t, a, n) = Traced(longer, Absent)
      BY <1>1, <1>4 DEF InferInsert
    <2> HIDE DEF longer, out
    <2>2. Faithful(Traced(longer, Absent), out)
      BY <1>2, <1>3, FaithfulUnpacked
    <2> QED
      BY <2>1, <2>2 DEF out
  <1>5. CASE t.axis # Absent
    <2> DEFINE b == t.axis
               b1 == b + (IF a <= b THEN 1 ELSE 0)
    <2>1. b \in 0..(Len(shape) - 1) /\ LiesAlong(c, shape, b)
      BY <1>5 DEF Faithful
    <2>2. InferInsert(t, a, n) = Traced(longer, b1)
      BY <1>1, <1>5 DEF InferInsert
    <2>3. b1 \in 0..(Len(longer) - 1) /\ b1 = IF a <= b THEN b + 1 ELSE b
      BY <1>0, <1>2, <2>1
    <2>4. ASSUME NEW i \in Indices(longer) PROVE out.slot[i] = i[b1 + 1]
      <3>1. RemoveAt(i, a + 1) \in Indices(shape) /\ RemoveAt(i, a + 1)[b + 1] = i[b1 + 1]
        <4>1. i \in Indices(InsertAt(shape, a + 1, n))
          OBVIOUS
        <4>2. RemoveAt(i, a + 1) \in Indices(shape)
          BY <1>0, <4>1, IndexRemoved
        <4>3. RemoveAt(i, a + 1)[b + 1] = i[(IF a <= b THEN b + 1 ELSE b) + 1]
          BY <1>0, <2>1, <4>1, IndexRemoved
        <4> HIDE DEF b1
        <4> QED
          BY <2>3, <4>2, <4>3
      <3> QED
        BY <1>3, <2>1, <3>1 DEF LiesAlong
    <2> HIDE DEF longer, out, b1
    <2>5. Faithful(Traced(longer, b1), out)
      BY <1>2, <1>3, <2>3, <2>4, FaithfulTo DEF LiesAlong
    <2> QED
      BY <2>2, <2>5 DEF out
  <1> QED
    BY <1>4, <1>5

\* The trace without an axis (infer_remove_axis_output_shape).
LEMMA RemovedTrace ==
    ASSUME NEW t, NEW c, Faithful(t, c), NEW dim \in AxesOf(t.shape), Removable(t, dim)
    PROVE  LET a == ToPos(dim, t.shape)
               b == IF a < t.axis THEN t.axis - 1 ELSE t.axis
           IN  /\ a \in 0..(Len(t.shape) - 1) /\ a # t.axis
               /\ t.axis = Absent => InferRemove(t, dim) = Traced(Without(t.shape, a), Absent)
               /\ t.axis # Absent => /\ InferRemove(t, dim) = Traced(Without(t.shape, a), b)
                                     /\ b \in 0..(Len(t.shape) - 2)
  <1> DEFINE a == ToPos(dim, t.shape)
             b == IF a < t.axis THEN t.axis - 1 ELSE t.axis
  <1>0. Len(t.shape) \in Nat
    BY ShapeTypes DEF Faithful
  <1>1. a \in 0..(Len(t.shape) - 1) /\ a # t.axis
    BY <1>0 DEF AxesOf, ToPos, Removable
  <1> HIDE DEF a
  <1>2. t.axis = Absent => InferRemove(t, dim) = Traced(Without(t.shape, a), Absent)
    BY DEF InferRemove, a
  <1>3. ASSUME t.axis # Absent
        PROVE  InferRemove(t, dim) = Traced(Without(t.shape, a), b) /\ b \in 0..(Len(t.shape) - 2)
    <2>1. t.axis \in 0..(Len(t.shape) - 1)
      BY <1>3 DEF Faithful
    <2>2. b = t.axis - (IF a < t.axis THEN 1 ELSE 0)
      BY <1>0, <2>1
    <2>3. InferRemove(t, dim) = Traced(Without(t.shape, a), t.axis - (IF a < t.axis THEN 1 ELSE 0))
      BY <1>3 DEF InferRemove, a
    <2> QED
      BY <1>0, <1>1, <2>1, <2>2, <2>3
  <1> QED
    BY <1>1, <1>2, <1>3 DEF a

\* The entries at one coordinate of another axis (HomSlice, HomSqueeze).
LEMMA SelectFaithful ==
    ASSUME NEW t, NEW c, Faithful(t, c), NEW dim \in AxesOf(t.shape), Removable(t, dim),
           NEW j \in 0..(At(t.shape, ToPos(dim, t.shape)) - 1)
    PROVE  Faithful(InferRemove(t, dim), Selected(c, ToPos(dim, t.shape), j))
  <1> DEFINE a == ToPos(dim, t.shape)
             shape == Without(t.shape, a)
             out == Selected(c, a, j)
             b == IF a < t.axis THEN t.axis - 1 ELSE t.axis
  <1>0. t.shape \in TensorShape /\ Len(t.shape) \in Nat
    BY ShapeTypes DEF Faithful
  <1>1. /\ a \in 0..(Len(t.shape) - 1) /\ a # t.axis
        /\ t.axis = Absent => InferRemove(t, dim) = Traced(shape, Absent)
        /\ t.axis # Absent => InferRemove(t, dim) = Traced(shape, b) /\ b \in 0..(Len(t.shape) - 2)
    BY RemovedTrace
  <1>2. j \in 0..(t.shape[a + 1] - 1)
    BY DEF At
  <1>3. /\ out.shape = shape /\ DOMAIN out.slot = Indices(shape)
        /\ \A i \in Indices(shape) : out.slot[i] = c.slot[InsertAt(i, a + 1, j)]
    BY DEF Selected, Gather, Faithful
  <1>4. shape \in TensorShape /\ Len(shape) = Len(t.shape) - 1
    BY <1>0, <1>1, WithoutIs
  <1> HIDE DEF a, out
  <1>5. CASE t.axis = Absent
    <2> HIDE DEF shape
    <2> QED
      BY <1>1, <1>3, <1>4, <1>5, FaithfulUnpacked DEF a, out
  <1>6. CASE t.axis # Absent
    <2>1. t.axis \in 0..(Len(t.shape) - 1) /\ LiesAlong(c, t.shape, t.axis)
      BY <1>6 DEF Faithful
    <2>2. ASSUME NEW i \in Indices(shape) PROVE out.slot[i] = i[b + 1]
      <3>1. /\ InsertAt(i, a + 1, j) \in Indices(t.shape)
            /\ InsertAt(i, a + 1, j)[t.axis + 1] = i[b + 1]
        BY <1>0, <1>1, <1>2, <2>1, <2>2, IndexInserted
      <3> QED
        BY <1>3, <2>1, <3>1 DEF LiesAlong
    <2>3. b \in 0..(Len(shape) - 1)
      BY <1>0, <1>1, <1>4, <1>6
    <2> HIDE DEF shape, b
    <2> QED
      BY <1>1, <1>3, <1>4, <1>6, <2>2, <2>3, FaithfulTo DEF LiesAlong, a, out
  <1> QED
    BY <1>5, <1>6

LEMMA CombinedOne == ASSUME NEW slots, NEW x \in slots, \A y \in slots : y = x PROVE Combined(slots) = x
  <1>1. slots = {x}
    OBVIOUS
  <1> QED
    BY <1>1 DEF Combined

\* A sum along another axis than the packed one stays in the slots.
LEMMA SumFaithful ==
    ASSUME NEW t, NEW c, Faithful(t, c), NEW dim \in AxesOf(t.shape), Removable(t, dim)
    PROVE  Faithful(InferRemove(t, dim), Summed(c, ToPos(dim, t.shape), FALSE))
  <1> DEFINE a == ToPos(dim, t.shape)
             shape == Without(t.shape, a)
             out == Summed(c, a, FALSE)
             b == IF a < t.axis THEN t.axis - 1 ELSE t.axis
             Column(i) == {c.slot[InsertAt(i, a + 1, j)] : j \in 0..(t.shape[a + 1] - 1)}
  <1>0. t.shape \in TensorShape /\ Len(t.shape) \in Nat
    BY ShapeTypes DEF Faithful
  <1>1. /\ a \in 0..(Len(t.shape) - 1) /\ a # t.axis
        /\ t.axis = Absent => InferRemove(t, dim) = Traced(shape, Absent)
        /\ t.axis # Absent => InferRemove(t, dim) = Traced(shape, b) /\ b \in 0..(Len(t.shape) - 2)
    BY RemovedTrace
  <1>2. t.shape[a + 1] \in Nat /\ t.shape[a + 1] > 0
    BY <1>0, <1>1, ShapeTypes
  <1>3. /\ out.shape = shape /\ DOMAIN out.slot = Indices(shape)
        /\ \A i \in Indices(shape) : out.slot[i] = Combined(Column(i))
    BY DEF Summed, Faithful, At
  <1>4. shape \in TensorShape /\ Len(shape) = Len(t.shape) - 1
    BY <1>0, <1>1, WithoutIs
  <1> HIDE DEF a, out
  <1>5. CASE t.axis = Absent
    <2> HIDE DEF shape
    <2> QED
      BY <1>1, <1>3, <1>4, <1>5, FaithfulUnpacked DEF a, out
  <1>6. CASE t.axis # Absent
    <2>1. t.axis \in 0..(Len(t.shape) - 1) /\ LiesAlong(c, t.shape, t.axis)
      BY <1>6 DEF Faithful
    <2>2. ASSUME NEW i \in Indices(shape) PROVE out.slot[i] = i[b + 1]
      <3>1. ASSUME NEW j \in 0..(t.shape[a + 1] - 1) PROVE c.slot[InsertAt(i, a + 1, j)] = i[b + 1]
        <4>1. /\ InsertAt(i, a + 1, j) \in Indices(t.shape)
              /\ InsertAt(i, a + 1, j)[t.axis + 1] = i[b + 1]
          BY <1>0, <1>1, <2>1, <2>2, IndexInserted
        <4> QED
          BY <2>1, <4>1 DEF LiesAlong
      <3>2. 0 \in 0..(t.shape[a + 1] - 1)
        BY <1>2
      <3> DEFINE x == i[b + 1]
      <3>3. x \in Column(i) /\ \A y \in Column(i) : y = x
        BY <3>1, <3>2
      <3>4. Combined(Column(i)) = x
        <4> HIDE DEF Column, x
        <4> QED
          BY <3>3, CombinedOne
      <3> QED
        BY <1>3, <3>4
    <2>3. b \in 0..(Len(shape) - 1)
      BY <1>0, <1>1, <1>4, <1>6
    <2> HIDE DEF shape, b
    <2>4. Faithful(Traced(shape, b), out)
      BY <1>3, <1>4, <2>2, <2>3, FaithfulTo DEF LiesAlong
    <2> QED
      BY <1>1, <1>6, <2>4 DEF a, out
  <1> QED
    BY <1>5, <1>6

\* The reduced axis kept, where it is counted from the front.
LEMMA ReduceFaithful ==
    ASSUME NEW t, NEW c, Faithful(t, c), NEW dim \in AxesOf(t.shape), Removable(t, dim),
           NEW keep \in BOOLEAN, keep => dim >= 0
    PROVE  Faithful(InferReduce(t, dim, keep), Summed(c, ToPos(dim, t.shape), keep))
  <1> DEFINE a == ToPos(dim, t.shape)
             t1 == InferRemove(t, dim)
             c1 == Summed(c, a, FALSE)
  <1>1. Faithful(t1, c1)
    BY SumFaithful
  <1>2. CASE ~keep
    BY <1>1, <1>2 DEF InferReduce
  <1>3. CASE keep
    <2>1. a = dim /\ dim \in 0..(Len(t.shape) - 1) /\ Len(t.shape) \in Nat
      BY <1>3, ShapeTypes DEF ToPos, AxesOf, Faithful
    <2>2. Len(t1.shape) = Len(t.shape) - 1
      <3>1. t1.shape = Without(t.shape, a)
        BY DEF InferRemove, Traced
      <3> QED
        BY <2>1, <3>1, WithoutIs DEF Faithful
    <2>3. InferReduce(t, dim, keep) = InferInsert(t1, a, 1)
      BY <1>3, <2>1 DEF InferReduce
    <2>4. Summed(c, a, keep) = Unsqueezed(c1, a, 1)
      BY <1>3 DEF Summed
    <2>5. a \in 0..Len(t1.shape) /\ 1 \in Nat \ {0}
      BY <2>1, <2>2
    <2> HIDE DEF t1, c1, a
    <2>6. Faithful(InferInsert(t1, a, 1), Unsqueezed(c1, a, 1))
      BY <1>1, <2>5, InsertFaithful
    <2> QED
      BY <2>3, <2>4, <2>6 DEF a
  <1> QED
    BY <1>2, <1>3

-----------------------------------------------------------------------------
(* Reshapes and slices. *)

LEMMA LeastOfIs == ASSUME NEW axes \in SUBSET Nat, axes # {} PROVE LeastOf(axes) \in axes /\ \A b \in axes : LeastOf(axes) <= b
  <1>1. \E a \in axes : \A b \in axes : a <= b
    BY LeastNat
  <1> QED
    BY <1>1 DEF LeastOf

\* Entries keep their place in memory, and the axes after the packed one their
\* product: its coordinates stay what they are (HomReshape).
LEMMA ReshapeFaithful ==
    ASSUME NEW t, NEW c, Faithful(t, c), NEW dims \in TensorShape,
           t.axis # Absent => PackedPlaces(t, dims) # {}
    PROVE  Faithful(InferReshape(t, dims), Reshaped(c, dims))
  <1> DEFINE out == Reshaped(c, dims)
             from(i) == Index(t.shape, Position(dims, i))
  <1>0. t.shape \in TensorShape /\ Len(t.shape) \in Nat /\ Len(dims) \in Nat
    BY ShapeTypes DEF Faithful
  <1>1. /\ out.shape = dims /\ DOMAIN out.slot = Indices(dims)
        /\ \A i \in Indices(dims) : out.slot[i] = c.slot[from(i)]
    BY DEF Reshaped, Gather, Faithful
  <1>2. CASE t.axis = Absent
    <2>1. InferReshape(t, dims) = Traced(dims, Absent)
      BY <1>2 DEF InferReshape
    <2> HIDE DEF out
    <2>2. Faithful(Traced(dims, Absent), out)
      BY <1>1, FaithfulUnpacked
    <2> QED
      BY <2>1, <2>2 DEF out
  <1>3. CASE t.axis # Absent
    <2> DEFINE a == LeastOf(PackedPlaces(t, dims))
               b == t.axis
    <2>1. b \in 0..(Len(t.shape) - 1) /\ LiesAlong(c, t.shape, b)
      BY <1>3 DEF Faithful
    <2>2. PackedPlaces(t, dims) \in SUBSET Nat /\ PackedPlaces(t, dims) # {}
      BY <1>0, <1>3 DEF PackedPlaces
    <2>3. a \in PackedPlaces(t, dims)
      BY <2>2, LeastOfIs
    <2>4. /\ a \in 0..(Len(dims) - 1) /\ dims[a + 1] = t.shape[b + 1]
          /\ Product(After(dims, a)) = Product(After(t.shape, b))
      BY <2>3 DEF PackedPlaces, At
    <2>5. InferReshape(t, dims) = Traced(dims, a)
      BY <1>3 DEF InferReshape
    <2> HIDE DEF a
    <2>6. ASSUME NEW i \in Indices(dims) PROVE out.slot[i] = i[a + 1]
      <3> DEFINE x == Position(dims, i)
                 Behind(d) == Product(After(t.shape, d - 1))
      <3>1. /\ a + 1 \in 1..Len(dims) /\ (a + 1) - 1 = a /\ b + 1 \in 1..Len(t.shape) /\ (b + 1) - 1 = b
        BY <1>0, <2>1, <2>4
      <3>2. x \in Nat /\ (x \div Product(After(dims, a))) % dims[a + 1] = i[a + 1]
        BY <3>1, CoordinateOfPosition
      <3>3. Index(t.shape, x) = [d \in 1..Len(t.shape) |-> (x \div Behind(d)) % t.shape[d]]
        BY <1>0, ShapeTypes DEF Index
      <3>4. ASSUME NEW d \in 1..Len(t.shape)
            PROVE  (x \div Behind(d)) % t.shape[d] \in Nat /\ (x \div Behind(d)) % t.shape[d] < t.shape[d]
        <4>1. t.shape[d] \in Nat /\ t.shape[d] > 0
          BY <1>0, ShapeTypes
        <4>2. Behind(d) \in Nat /\ Behind(d) > 0
          <5>1. After(t.shape, d - 1) \in TensorShape
            <6>1. After(t.shape, d - 1) = SubSeq(t.shape, d + 1, Len(t.shape))
              BY <1>0 DEF After
            <6> QED
              BY <1>0, <6>1, RestOf DEF TensorShape
          <5>2. PICK g \in [0..Len(After(t.shape, d - 1)) -> Nat \ {0}] :
                     Product(After(t.shape, d - 1)) = g[Len(After(t.shape, d - 1))]
            BY <5>1, ProductSteps
          <5>3. Len(After(t.shape, d - 1)) \in 0..Len(After(t.shape, d - 1))
            BY <5>1, ShapeTypes
          <5>4. g[Len(After(t.shape, d - 1))] \in Nat \ {0}
            BY <5>2, <5>3
          <5> QED
            BY <5>2, <5>4
        <4> DEFINE y == x \div Behind(d)
        <4>3. y \in Int
          <5> HIDE DEF x, Behind
          <5> QED
            BY <3>2, <4>2
        <4> HIDE DEF y
        <4>4. y % t.shape[d] \in Nat /\ y % t.shape[d] < t.shape[d]
          BY <4>1, <4>3
        <4> QED
          BY <4>4 DEF y
      <3> HIDE DEF x, Behind
      <3>5. Index(t.shape, x) \in Indices(t.shape)
        <4>1. Index(t.shape, x) \in [1..Len(t.shape) -> Nat]
          BY <3>3, <3>4
        <4>2. Index(t.shape, x) \in Seq(Nat) /\ Len(Index(t.shape, x)) = Len(t.shape)
          BY <1>0, <4>1, SequencesAre
        <4>3. \A d \in 1..Len(t.shape) : Index(t.shape, x)[d] < t.shape[d]
          BY <3>3, <3>4
        <4> QED
          BY <1>0, <4>2, <4>3, IndexIs
      <3>6. Index(t.shape, x)[b + 1] = (x \div Product(After(t.shape, b))) % t.shape[b + 1]
        BY <3>1, <3>3 DEF Behind
      <3>7. c.slot[Index(t.shape, x)] = i[a + 1]
        BY <2>1, <2>4, <3>2, <3>5, <3>6 DEF LiesAlong
      <3> QED
        BY <1>1, <3>7 DEF x
    <2> HIDE DEF out
    <2>7. Faithful(Traced(dims, a), out)
      BY <1>1, <2>4, <2>6, FaithfulTo DEF LiesAlong
    <2> QED
      BY <2>5, <2>7 DEF out
  <1> QED
    BY <1>2, <1>3

\* A slice takes coordinates of the axis.
LEMMA TakenFacts ==
    ASSUME NEW size \in Nat, NEW start \in Int, NEW end \in Int \cup {Absent}, NEW step \in {1, 2}
    PROVE  Taken(size, start, end, step) \in Seq(0..(size - 1))
  <1> DEFINE within(i) == IF i < 0 THEN Larger(0, i + size) ELSE IF i > size THEN size ELSE i
             stop == IF end = Absent THEN size ELSE within(end)
             first == within(start)
             count == IF stop <= first THEN 0 ELSE (stop - first + step - 1) \div step
  <1>1. \A i \in Int : within(i) \in 0..size
    BY DEF Larger
  <1>2. first \in 0..size /\ stop \in 0..size
    <2> HIDE DEF within
    <2> QED
      BY <1>1
  <1>3. Taken(size, start, end, step) = [n \in 1..count |-> first + (n - 1) * step]
    BY DEF Taken
  <1> HIDE DEF within, stop, first
  <1>4. count \in Nat
    BY <1>2
  <1>5. ASSUME NEW n \in 1..count PROVE first + (n - 1) * step \in 0..(size - 1)
    <2>1. ~(stop <= first) /\ n >= 1 /\ n <= (stop - first + step - 1) \div step
      BY <1>2
    <2>2. CASE step = 1
      <3>1. (stop - first + step - 1) \div step = stop - first
        BY <1>2, <2>2
      <3> QED
        BY <1>2, <2>1, <2>2, <3>1
    <2>3. CASE step = 2
      <3>1. 2 * ((stop - first + 1) \div 2) <= stop - first + 1 /\ (stop - first + 1) \div 2 \in Int
        BY <1>2
      <3>2. stop - first + step - 1 = stop - first + 1
        BY <1>2, <2>3
      <3> QED
        BY <1>2, <2>1, <2>3, <3>1, <3>2
    <2> QED
      BY <2>2, <2>3
  <1> HIDE DEF count
  <1> DEFINE T == 0..(size - 1)
  <1>6. [n \in 1..count |-> first + (n - 1) * step] \in [1..count -> T]
    BY <1>5
  <1>7. [n \in 1..count |-> first + (n - 1) * step] \in Seq(T)
    <2> HIDE DEF T
    <2> QED
      BY <1>4, <1>6
  <1> QED
    BY <1>3, <1>7

\* Some coordinates of another axis than the packed one (HomSlice).
LEMMA SliceFaithful ==
    ASSUME NEW t, NEW c, Faithful(t, c), NEW a \in 0..(Len(t.shape) - 1), a # t.axis,
           NEW taken \in Seq(0..(At(t.shape, a) - 1)), taken # <<>>
    PROVE  Faithful(Traced([t.shape EXCEPT ![a + 1] = Len(taken)], t.axis), Sliced(c, a, taken))
  <1> DEFINE n == Len(taken)
             shape == [t.shape EXCEPT ![a + 1] = n]
             out == Sliced(c, a, taken)
             from(i) == [i EXCEPT ![a + 1] = taken[@ + 1]]
  <1>0. t.shape \in TensorShape /\ Len(t.shape) \in Nat /\ a + 1 \in 1..Len(t.shape)
    BY ShapeTypes DEF Faithful
  <1>1. n \in Nat /\ n > 0 /\ \A k \in 1..n : taken[k] \in Nat /\ taken[k] < t.shape[a + 1]
    <2>1. n \in Nat /\ n # 0
      BY EmptySeq
    <2> DEFINE T == 0..(At(t.shape, a) - 1)
    <2>3. \A k \in 1..n : taken[k] \in T
      <3> HIDE DEF T
      <3>1. taken \in Seq(T)
        BY DEF T
      <3> QED
        BY <3>1, ElementOfSeq
    <2>2. \A k \in 1..n : taken[k] \in 0..(t.shape[a + 1] - 1)
      BY <2>3 DEF At
    <2> QED
      BY <1>0, <2>1, <2>2, ShapeTypes
  <1> HIDE DEF n
  <1>2. /\ shape \in TensorShape /\ Len(shape) = Len(t.shape)
        /\ shape[a + 1] = n /\ \A d \in 1..Len(t.shape) : d # a + 1 => shape[d] = t.shape[d]
    <2>1. t.shape \in Seq(Nat \ {0}) /\ n \in Nat \ {0}
      BY <1>0, <1>1 DEF TensorShape
    <2>2. t.shape \in [1..Len(t.shape) -> Nat \ {0}]
      BY <1>0, <2>1, SequencesAre
    <2>3. shape \in [1..Len(t.shape) -> Nat \ {0}]
      BY <2>1, <2>2
    <2> QED
      BY <1>0, <2>2, <2>3, SequencesAre DEF TensorShape
  <1>3. /\ out.shape = shape /\ DOMAIN out.slot = Indices(shape)
        /\ \A i \in Indices(shape) : out.slot[i] = c.slot[from(i)]
    BY DEF Sliced, Gather, Faithful, n
  <1> HIDE DEF shape, out
  <1>4. CASE t.axis = Absent
    BY <1>2, <1>3, <1>4, FaithfulUnpacked DEF shape, out, n
  <1>5. CASE t.axis # Absent
    <2>1. t.axis \in 0..(Len(t.shape) - 1) /\ LiesAlong(c, t.shape, t.axis)
      BY <1>5 DEF Faithful
    <2>2. ASSUME NEW i \in Indices(shape) PROVE out.slot[i] = i[t.axis + 1]
      <3>1. i \in Seq(Nat) /\ Len(i) = Len(t.shape) /\ \A d \in 1..Len(t.shape) : i[d] < shape[d]
        BY <1>2, IndexIs
      <3>2. i \in [1..Len(t.shape) -> Nat]
        BY <1>0, <3>1, SequencesAre
      <3>3. i[a + 1] + 1 \in 1..n
        BY <1>0, <1>1, <1>2, <3>1, <3>2
      <3>4. /\ from(i) \in [1..Len(t.shape) -> Nat]
            /\ from(i)[a + 1] < t.shape[a + 1]
            /\ \A d \in 1..Len(t.shape) : d # a + 1 => from(i)[d] = i[d]
        BY <1>0, <1>1, <3>2, <3>3
      <3> DEFINE x == from(i)
      <3> HIDE DEF x
      <3>5. /\ x \in [1..Len(t.shape) -> Nat] /\ x[a + 1] < t.shape[a + 1]
            /\ \A d \in 1..Len(t.shape) : d # a + 1 => x[d] = i[d]
        BY <3>4 DEF x
      <3>6. \A d \in 1..Len(t.shape) : x[d] < t.shape[d]
        BY <1>2, <3>1, <3>5
      <3>7. x \in Indices(t.shape)
        <4>1. x \in Seq(Nat) /\ Len(x) = Len(t.shape)
          BY <1>0, <3>5, SequencesAre
        <4> QED
          BY <1>0, <3>6, <4>1, IndexIs
      <3>8. t.axis + 1 \in 1..Len(t.shape) /\ t.axis + 1 # a + 1
        BY <1>0, <2>1
      <3>9. c.slot[x] = i[t.axis + 1]
        BY <2>1, <3>5, <3>7, <3>8 DEF LiesAlong
      <3> QED
        BY <1>3, <3>9 DEF x
    <2>3. Faithful(Traced(shape, t.axis), out)
      <3>1. t.axis \in 0..(Len(shape) - 1) /\ LiesAlong(out, shape, t.axis)
        BY <1>2, <2>1, <2>2 DEF LiesAlong
      <3> QED
        BY <1>2, <1>3, <3>1, FaithfulTo
    <2> QED
      BY <2>3 DEF shape, out, n
  <1> QED
    BY <1>4, <1>5

-----------------------------------------------------------------------------
(* Shapes that are broadcast. *)

LEMMA PaddedIs ==
    ASSUME NEW s \in TensorShape, NEW r \in Nat, Len(s) <= r
    PROVE  \A i \in 1..r : Padded(s, r)[i] = IF i <= r - Len(s) THEN 1 ELSE s[i - (r - Len(s))]
  <1> DEFINE n == r - Len(s)
             N == Nat \ {0}
             ones == Ones(n)
  <1>1. n \in Nat /\ Len(s) \in Nat /\ r = n + Len(s)
    BY ShapeTypes
  <1> HIDE DEF n
  <1>2. ones \in Seq(N) /\ Len(ones) = n /\ \A i \in 1..n : ones[i] = 1
    <2>1. ones \in [1..n -> N]
      BY DEF Ones
    <2>2. \A i \in 1..n : ones[i] = 1
      BY DEF Ones
    <2> HIDE DEF ones, N
    <2> QED
      BY <1>1, <2>1, <2>2, SequencesAre
  <1>3. s \in Seq(N)
    BY DEF TensorShape
  <1> HIDE DEF ones, N
  <1>4. \A i \in 1..(n + Len(s)) : (ones \o s)[i] = IF i <= n THEN ones[i] ELSE s[i - n]
    BY <1>2, <1>3, ConcatProperties
  <1>5. Padded(s, r) = ones \o s
    BY DEF Padded, ones, n
  <1>6. \A i \in 1..r : Padded(s, r)[i] = IF i <= n THEN 1 ELSE s[i - n]
    BY <1>1, <1>2, <1>4, <1>5
  <1> QED
    BY <1>6 DEF n

\* Every axis of s is in out, or has size 1: what broadcasting promises.
Spreads(s, out) ==
    /\ out \in TensorShape /\ Len(s) <= Len(out)
    /\ \A d \in 1..Len(s) : s[d] = 1 \/ out[d + Len(out) - Len(s)] = s[d]

LEMMA BroadcastSpreads ==
    ASSUME NEW s \in TensorShape, NEW t \in TensorShape, Compatible(s, t)
    PROVE  Spreads(s, BroadcastShapes(s, t)) /\ Spreads(t, BroadcastShapes(s, t))
  <1> DEFINE r == Larger(Len(s), Len(t))
             p == Padded(s, r)
             q == Padded(t, r)
             out == BroadcastShapes(s, t)
  <1>1. Len(s) \in Nat /\ Len(t) \in Nat /\ r \in Nat /\ Len(s) <= r /\ Len(t) <= r
    BY ShapeTypes DEF Larger
  <1>2. out = [i \in 1..r |-> Larger(p[i], q[i])]
    BY DEF BroadcastShapes
  <1>3. \A i \in 1..r : p[i] = q[i] \/ p[i] = 1 \/ q[i] = 1
    BY DEF Compatible
  <1> HIDE DEF r
  <1>4. \A i \in 1..r : p[i] = IF i <= r - Len(s) THEN 1 ELSE s[i - (r - Len(s))]
    BY <1>1, PaddedIs
  <1>5. \A i \in 1..r : q[i] = IF i <= r - Len(t) THEN 1 ELSE t[i - (r - Len(t))]
    BY <1>1, PaddedIs
  <1> HIDE DEF p, q, out
  <1>6. \A i \in 1..r : p[i] \in Nat \ {0} /\ q[i] \in Nat \ {0}
    <2>1. \A i \in 1..r : ~(i <= r - Len(s)) => i - (r - Len(s)) \in 1..Len(s)
      BY <1>1
    <2>2. \A i \in 1..r : ~(i <= r - Len(t)) => i - (r - Len(t)) \in 1..Len(t)
      BY <1>1
    <2>3. \A i \in 1..r : p[i] \in Nat \ {0}
      BY <1>4, <2>1, ShapeTypes
    <2>4. \A i \in 1..r : q[i] \in Nat \ {0}
      BY <1>5, <2>2, ShapeTypes
    <2> QED
      BY <2>3, <2>4
  <1>7. \A i \in 1..r : out[i] = Larger(p[i], q[i])
    BY <1>2
  <1>8. \A i \in 1..r : out[i] \in Nat \ {0} /\ (p[i] = 1 \/ out[i] = p[i]) /\ (q[i] = 1 \/ out[i] = q[i])
    BY <1>3, <1>6, <1>7 DEF Larger
  <1>9. out \in TensorShape /\ Len(out) = r
    <2> DEFINE N == Nat \ {0}
    <2>1. out \in [1..r -> N]
      BY <1>2, <1>8
    <2> HIDE DEF N
    <2>2. out \in Seq(N) /\ Len(out) = r
      BY <1>1, <2>1, SequencesAre
    <2> QED
      BY <2>2 DEF TensorShape, N
  <1>10. \A d \in 1..Len(s) : s[d] = 1 \/ out[d + r - Len(s)] = s[d]
    <2>1. \A d \in 1..Len(s) : d + r - Len(s) \in 1..r /\ p[d + r - Len(s)] = s[d]
      <3> SUFFICES ASSUME NEW d \in 1..Len(s) PROVE d + r - Len(s) \in 1..r /\ p[d + r - Len(s)] = s[d]
        OBVIOUS
      <3>1. d + r - Len(s) \in 1..r /\ ~(d + r - Len(s) <= r - Len(s)) /\ (d + r - Len(s)) - (r - Len(s)) = d
        BY <1>1
      <3> QED
        BY <1>4, <3>1
    <2> QED
      BY <1>8, <2>1
  <1>11. \A d \in 1..Len(t) : t[d] = 1 \/ out[d + r - Len(t)] = t[d]
    <2>1. \A d \in 1..Len(t) : d + r - Len(t) \in 1..r /\ q[d + r - Len(t)] = t[d]
      <3> SUFFICES ASSUME NEW d \in 1..Len(t) PROVE d + r - Len(t) \in 1..r /\ q[d + r - Len(t)] = t[d]
        OBVIOUS
      <3>1. d + r - Len(t) \in 1..r /\ ~(d + r - Len(t) <= r - Len(t)) /\ (d + r - Len(t)) - (r - Len(t)) = d
        BY <1>1
      <3> QED
        BY <1>5, <3>1
    <2> QED
      BY <1>8, <2>1
  <1> QED
    BY <1>1, <1>9, <1>10, <1>11 DEF Spreads, out

\* Where the packed axis is after broadcasting.
Moved(t, out) == IF t.axis = Absent THEN Absent ELSE t.axis + Len(out) - Len(t.shape)

LEMMA MovedTrace ==
    ASSUME NEW t, NEW c, Faithful(t, c), NEW out, Spreads(t.shape, out)
    PROVE  /\ t.axis # Absent =>
                 /\ Moved(t, out) \in 0..(Len(out) - 1)
                 /\ ToPos(ToNeg(t.axis, t.shape), out) = Moved(t, out)
                 /\ Traced(out, ToNeg(t.axis, t.shape)) = Traced(out, Moved(t, out))
  <1> SUFFICES ASSUME t.axis # Absent
               PROVE  /\ Moved(t, out) \in 0..(Len(out) - 1)
                      /\ ToPos(ToNeg(t.axis, t.shape), out) = Moved(t, out)
                      /\ Traced(out, ToNeg(t.axis, t.shape)) = Traced(out, Moved(t, out))
    OBVIOUS
  <1>1. Len(out) \in Nat /\ Len(t.shape) \in Nat /\ Len(t.shape) <= Len(out)
    BY ShapeTypes DEF Faithful, Spreads
  <1>2. t.axis \in 0..(Len(t.shape) - 1)
    BY DEF Faithful
  <1>3. ToNeg(t.axis, t.shape) = t.axis - Len(t.shape)
    BY <1>1, <1>2 DEF ToNeg
  <1>4. Moved(t, out) = t.axis + Len(out) - Len(t.shape)
    BY DEF Moved
  <1>5. Moved(t, out) \in 0..(Len(out) - 1) /\ ToPos(ToNeg(t.axis, t.shape), out) = Moved(t, out)
    BY <1>1, <1>2, <1>3, <1>4 DEF ToPos
  <1>6. ToNeg(t.axis, t.shape) # Absent /\ Moved(t, out) # Absent /\ ToPos(Moved(t, out), out) = Moved(t, out)
    BY <1>1, <1>2, <1>3, <1>5, NoAxisIsNone DEF ToPos
  <1> QED
    BY <1>5, <1>6 DEF Traced

\* Broadcasting keeps the packed axis, counted from the end, and spreads it
\* over the slots when its size was 1 (infer_broadcast_output_shape).
LEMMA BroadcastFaithful ==
    ASSUME NEW t, NEW c, Faithful(t, c), NEW out, Spreads(t.shape, out)
    PROVE  /\ Faithful(Traced(out, IF t.axis = Absent THEN Absent ELSE ToNeg(t.axis, t.shape)), Broadcast(t, c, out))
           /\ Faithful(Traced(out, Moved(t, out)), Broadcast(t, c, out))
  <1> DEFINE x == Broadcast(t, c, out)
             s == t.shape
             from(i) == [j \in DOMAIN s |-> IF s[j] = 1 THEN 0 ELSE i[j + Len(out) - Len(s)]]
  <1>0. /\ s \in TensorShape /\ Len(s) \in Nat /\ out \in TensorShape /\ Len(out) \in Nat /\ Len(s) <= Len(out)
        /\ c.shape = s /\ DOMAIN s = 1..Len(s)
    BY ShapeTypes DEF Faithful, Spreads
  <1>1. SUFFICES Faithful(Traced(out, Moved(t, out)), x)
    BY MovedTrace DEF Moved
  <1>2. CASE t.axis # Absent /\ s[t.axis + 1] = 1
    <2>1. x = Packed(out, ToPos(ToNeg(t.axis, s), out))
      BY <1>0, <1>2 DEF Broadcast, At
    <2>2. ToPos(ToNeg(t.axis, s), out) = Moved(t, out) /\ Moved(t, out) \in 0..(Len(out) - 1)
      BY <1>2, MovedTrace
    <2> HIDE DEF x, s
    <2> QED
      BY <1>0, <2>1, <2>2, PackedFaithful
  <1>3. CASE ~(t.axis # Absent /\ s[t.axis + 1] = 1)
    <2>1. ~(t.axis # Absent /\ At(c.shape, t.axis) = 1)
      BY <1>0, <1>3 DEF At
    <2>2. /\ x.shape = out /\ DOMAIN x.slot = Indices(out)
          /\ \A i \in Indices(out) : x.slot[i] = c.slot[from(i)]
      <3>1. x = Gather(c, out, LAMBDA i : [j \in DOMAIN c.shape |->
                    IF c.shape[j] = 1 THEN 0 ELSE i[j + Len(out) - Len(c.shape)]])
        BY <2>1, Zenon DEF Broadcast
      <3>2. \A i : from(i) = [j \in DOMAIN c.shape |-> IF c.shape[j] = 1 THEN 0 ELSE i[j + Len(out) - Len(c.shape)]]
        BY <1>0
      <3> HIDE DEF x
      <3> QED
        BY <3>1, <3>2 DEF Gather
    <2> HIDE DEF x
    <2>3. CASE t.axis = Absent
      BY <1>0, <2>2, <2>3, FaithfulUnpacked DEF Moved
    <2>4. CASE t.axis # Absent
      <3> DEFINE b == Moved(t, out)
      <3>1. t.axis \in 0..(Len(s) - 1) /\ LiesAlong(c, s, t.axis) /\ s[t.axis + 1] # 1
        BY <1>3, <2>4 DEF Faithful
      <3>2. b \in 0..(Len(out) - 1) /\ b = t.axis + Len(out) - Len(s)
        BY <2>4, MovedTrace DEF Moved
      <3>3. ASSUME NEW i \in Indices(out) PROVE x.slot[i] = i[b + 1]
        <4>1. \A d \in 1..Len(out) : i[d] \in Nat /\ i[d] < out[d]
          BY <1>0, IndexIs
        <4>2. ASSUME NEW j \in 1..Len(s)
              PROVE  /\ (IF s[j] = 1 THEN 0 ELSE i[j + Len(out) - Len(s)]) \in Nat
                     /\ (IF s[j] = 1 THEN 0 ELSE i[j + Len(out) - Len(s)]) < s[j]
          <5>1. j + Len(out) - Len(s) \in 1..Len(out)
            BY <1>0
          <5>2. s[j] = 1 \/ out[j + Len(out) - Len(s)] = s[j]
            BY DEF Spreads
          <5>3. i[j + Len(out) - Len(s)] \in Nat /\ i[j + Len(out) - Len(s)] < out[j + Len(out) - Len(s)]
            BY <4>1, <5>1
          <5>4. s[j] \in Nat \ {0}
            BY <1>0, ShapeTypes
          <5>5. CASE s[j] = 1
            BY <5>5
          <5>6. CASE s[j] # 1
            BY <5>2, <5>3, <5>6
          <5> QED
            BY <5>5, <5>6
        <4> DEFINE y == from(i)
        <4>3. y \in [1..Len(s) -> Nat] /\ (\A j \in 1..Len(s) : y[j] < s[j])
              /\ \A j \in 1..Len(s) : y[j] = IF s[j] = 1 THEN 0 ELSE i[j + Len(out) - Len(s)]
          BY <1>0, <4>2
        <4> HIDE DEF y
        <4>4. y \in Indices(s)
          <5>1. y \in Seq(Nat) /\ Len(y) = Len(s)
            BY <1>0, <4>3, SequencesAre
          <5> QED
            BY <1>0, <4>3, <5>1, IndexIs
        <4>5. t.axis + 1 \in 1..Len(s) /\ (t.axis + 1) + Len(out) - Len(s) = b + 1
          <5>1. Len(s) \in Nat /\ Len(out) \in Nat /\ t.axis \in 0..(Len(s) - 1) /\ b = t.axis + Len(out) - Len(s)
            BY <1>0, <3>1, <3>2
          <5> HIDE DEF s, b
          <5> QED
            BY ONLY <5>1
        <4>6. y[t.axis + 1] = i[b + 1]
          BY <3>1, <4>3, <4>5
        <4>7. c.slot[y] = y[t.axis + 1]
          BY <3>1, <4>4 DEF LiesAlong
        <4> QED
          BY <2>2, <4>6, <4>7 DEF y
      <3>4. LiesAlong(x, out, b)
        BY <3>3 DEF LiesAlong
      <3> QED
        BY <1>0, <2>2, <3>2, <3>4, FaithfulTo
    <2> QED
      BY <2>3, <2>4
  <1> QED
    BY <1>2, <1>3

\* Two inputs packed along one axis, counted from the end, with one size lie
\* in the same slots: their entries combine slot by slot (HomAdd, HomMul).
LEMMA OfBothFaithful ==
    ASSUME NEW first, NEW second, Faithful(first.trace, first.clear), Faithful(second.trace, second.clear),
           Aligned(first, second)
    PROVE  Faithful(OfBoth(first, second).trace, OfBoth(first, second).clear)
  <1> DEFINE v == first.trace
             w == second.trace
             out == BroadcastShapes(v.shape, w.shape)
             one == Broadcast(v, first.clear, out)
             other == Broadcast(w, second.clear, out)
             both == Elementwise(one, other)
  <1>1. Spreads(v.shape, out) /\ Spreads(w.shape, out)
    BY BroadcastSpreads DEF Faithful, Aligned
  <1>2. /\ Faithful(Traced(out, IF v.axis = Absent THEN Absent ELSE ToNeg(v.axis, v.shape)), one)
        /\ Faithful(Traced(out, Moved(v, out)), one)
    BY <1>1, BroadcastFaithful
  <1>3. Faithful(Traced(out, Moved(w, out)), other)
    BY <1>1, BroadcastFaithful
  <1>4. /\ OfBoth(first, second).trace = Traced(out, IF v.axis = Absent THEN Absent ELSE ToNeg(v.axis, v.shape))
        /\ OfBoth(first, second).clear = IF v.axis = Absent THEN one ELSE both
    BY DEF OfBoth, InferBroadcast
  <1> HIDE DEF one, other, both
  <1>5. CASE v.axis = Absent
    BY <1>2, <1>4, <1>5
  <1>6. CASE v.axis # Absent
    <2>1. w.axis # Absent /\ ToNeg(w.axis, w.shape) = ToNeg(v.axis, v.shape)
      BY <1>6 DEF Aligned, SameSlots
    <2> DEFINE b == Moved(v, out)
    <2>2. b \in 0..(Len(out) - 1) /\ Moved(w, out) = b
          /\ Traced(out, ToNeg(v.axis, v.shape)) = Traced(out, b)
      BY <1>1, <1>6, <2>1, MovedTrace
    <2>3. Len(out) \in Nat /\ out \in TensorShape
      BY <1>1, ShapeTypes DEF Spreads
    <2> HIDE DEF out, b
    <2>4. b \in Nat /\ b # Absent
      BY <2>2, <2>3, NoAxisIsNone
    <2>5. Traced(out, b).shape = out /\ Traced(out, b).axis = b
      BY <2>4, TracedAt
    <2>6. one.shape = out /\ LiesAlong(one, out, b)
      BY <1>2, <2>4, <2>5 DEF Faithful, b
    <2>7. LiesAlong(other, out, b)
      BY <1>3, <2>2, <2>4, <2>5 DEF Faithful
    <2>8. both.shape = out /\ DOMAIN both.slot = Indices(out)
          /\ \A i \in Indices(out) : both.slot[i] = Combined({one.slot[i], other.slot[i]})
      BY <2>6 DEF both, Elementwise
    <2>9. ASSUME NEW i \in Indices(out) PROVE both.slot[i] = i[b + 1]
      <3>1. one.slot[i] = i[b + 1] /\ other.slot[i] = i[b + 1]
        BY <2>6, <2>7 DEF LiesAlong
      <3>2. Combined({one.slot[i], other.slot[i]}) = i[b + 1]
        <4> DEFINE slots == {one.slot[i], other.slot[i]}
        <4>1. i[b + 1] \in slots /\ \A y \in slots : y = i[b + 1]
          BY <3>1
        <4> HIDE DEF slots
        <4>2. Combined(slots) = i[b + 1]
          BY <4>1, CombinedOne
        <4> QED
          BY <4>2 DEF slots
      <3> QED
        BY <2>8, <3>2
    <2>10. Faithful(Traced(out, b), both)
      BY <2>2, <2>3, <2>8, <2>9, FaithfulTo DEF LiesAlong
    <2> QED
      BY <1>4, <1>6, <2>2, <2>10
  <1> QED
    BY <1>5, <1>6

-----------------------------------------------------------------------------
(* The best of some axes, the first of equals. *)

BestIn(f, D, a) == \A b \in D : f[b] <= f[a] /\ (b < a => f[b] < f[a])

LEMMA BestExists ==
    ASSUME NEW n \in Nat, NEW f, \A d \in 1..n : f[d] \in Int, NEW D \in SUBSET (1..n), D # {}
    PROVE  \E a \in D : BestIn(f, D, a)
  <1> DEFINE K == {k \in Nat : k <= n => \A E \in SUBSET (1..k) : E # {} => \E a \in E : BestIn(f, E, a)}
  <1>1. 0 \in K
    <2>1. 1..0 = {}
      OBVIOUS
    <2> QED
      BY <2>1
  <1>2. ASSUME NEW k \in K PROVE k + 1 \in K
    <2>0. k \in Nat /\ k + 1 \in Nat
          /\ (k <= n => \A F \in SUBSET (1..k) : F # {} => \E a \in F : BestIn(f, F, a))
      BY <1>2
    <2> SUFFICES ASSUME k + 1 <= n, NEW E \in SUBSET (1..(k + 1)), E # {}
                 PROVE  \E a \in E : BestIn(f, E, a)
      BY <2>0, Zenon
    <2>1. k \in Nat /\ \A F \in SUBSET (1..k) : F # {} => \E a \in F : BestIn(f, F, a)
      BY <2>0
    <2> DEFINE F == E \ {k + 1}
    <2>2. F \in SUBSET (1..k) /\ k + 1 \in 1..n /\ \A a \in E : a \in 1..n
      BY <2>1
    <2>3. CASE F = {}
      <3>1. E = {k + 1}
        BY <2>3
      <3> QED
        BY <2>1, <2>2, <3>1 DEF BestIn
    <2>4. CASE F # {}
      <3>1. PICK a \in F : BestIn(f, F, a)
        BY <2>1, <2>2, <2>4
      <3>2. a \in E /\ a \in 1..k
        BY <2>2
      <3>3. \A b \in E : f[b] \in Int
        BY <2>2
      <3>4. CASE k + 1 \in E /\ f[k + 1] > f[a]
        <4>1. \A b \in E : b = k + 1 \/ (b \in F /\ f[b] <= f[a])
          BY <3>1 DEF BestIn
        <4>2. BestIn(f, E, k + 1)
          BY <2>1, <3>2, <3>3, <3>4, <4>1 DEF BestIn
        <4> QED
          BY <3>4, <4>2
      <3>5. CASE k + 1 \in E /\ ~(f[k + 1] > f[a])
        <4>1. \A b \in F : f[b] <= f[a] /\ (b < a => f[b] < f[a])
          BY <3>1 DEF BestIn
        <4>2. f[k + 1] <= f[a] /\ ~(k + 1 < a)
          BY <2>1, <3>2, <3>3, <3>5
        <4>3. BestIn(f, E, a)
          BY <4>1, <4>2 DEF BestIn
        <4> QED
          BY <3>2, <4>3
      <3>6. CASE k + 1 \notin E
        <4>1. F = E
          BY <3>6
        <4> QED
          BY <3>1, <4>1
      <3> QED
        BY <3>4, <3>5, <3>6
    <2> QED
      BY <2>3, <2>4
  <1>3. n \in K
    <2> HIDE DEF K
    <2> QED
      BY <1>1, <1>2, NatSetInduction
  <1> QED
    BY <1>3

LEMMA LargestIs ==
    ASSUME NEW out \in TensorShape, NEW axes \in SUBSET (-Len(out)..-1), axes # {}
    PROVE  Largest(axes, out) \in axes
  <1> DEFINE n == Len(out)
             D == {d \in 1..n : d - n - 1 \in axes}
  <1>1. n \in Nat /\ \A d \in 1..n : out[d] \in Int
    BY ShapeTypes
  <1>2. \A a \in axes : a + n + 1 \in 1..n /\ (a + n + 1) - n - 1 = a /\ At(out, ToPos(a, out)) = out[a + n + 1]
    BY <1>1 DEF At, ToPos
  <1>3. \A a \in axes : a + n + 1 \in D
    BY <1>2
  <1>4. D # {}
    BY <1>3
  <1>5. PICK d \in D : BestIn(out, D, d)
    <2> HIDE DEF n, D
    <2> QED
      BY <1>1, <1>4, BestExists DEF D
  <1> DEFINE a == d - n - 1
  <1>6. a \in axes /\ a + n + 1 = d
    BY <1>1
  <1>7. \A b \in axes : out[b + n + 1] <= out[d] /\ (b + n + 1 < d => out[b + n + 1] < out[d])
    BY <1>3, <1>5 DEF BestIn
  <1>8. \A b \in axes : b < a => b + n + 1 < d
    BY <1>1
  <1> HIDE DEF a
  <1>9. \A b \in axes : /\ At(out, ToPos(b, out)) <= At(out, ToPos(a, out))
                        /\ b < a => At(out, ToPos(b, out)) < At(out, ToPos(a, out))
    BY <1>2, <1>6, <1>7, <1>8
  <1> QED
    BY <1>6, <1>9 DEF Largest

\* The packed axis an input is given is one of its axes (resolve_n_axis).
LEMMA InputFaithful ==
    ASSUME NEW shape \in TensorShape, NEW internalN \in (Nat \ {0}) \cup {Absent},
           NEW axis \in Declarable(shape, internalN)
    PROVE  Faithful(Input(shape, axis, internalN).trace, Input(shape, axis, internalN).clear)
  <1> DEFINE packed == ResolveNAxis(shape, axis, internalN)
             n == Len(shape)
  <1>1. n \in Nat /\ \A d \in 1..n : shape[d] \in Nat
    BY ShapeTypes
  <1>2. axis = Absent \/ axis \in -n..(n - 1)
    BY DEF Declarable, AxesOf
  <1>3. packed = Absent \/ packed \in 0..(n - 1)
    <2>1. CASE axis # Absent
      BY <1>1, <1>2, <2>1 DEF ResolveNAxis, ToPos
    <2>2. CASE axis = Absent /\ internalN = Absent
      BY <2>2 DEF ResolveNAxis
    <2>3. CASE axis = Absent /\ internalN # Absent
      <3> DEFINE f == [d \in 1..n |-> -((internalN - shape[d]) % internalN)]
                 padding(a) == (internalN - At(shape, a)) % internalN
                 axes == 0..(n - 1)
      <3>1. internalN \in Nat \ {0} /\ n > 0
        <4>1. axis \notin -n..(n - 1)
          BY <1>1, <2>3, NoAxisIsNone
        <4>2. shape # <<>>
          BY <2>3, <4>1 DEF Declarable, AxesOf
        <4> QED
          BY <1>1, <2>3, <4>2, EmptySeq DEF TensorShape
      <3>2. \A d \in 1..n : (internalN - shape[d]) % internalN \in Int
        <4>1. \A x \in Int, y \in Nat \ {0} : x % y \in Int
          OBVIOUS
        <4>2. \A d \in 1..n : internalN - shape[d] \in Int
          BY <1>1, <3>1
        <4> QED
          BY <3>1, <4>1, <4>2
      <3>3. \A d \in 1..n : f[d] \in Int /\ f[d] = -((internalN - shape[d]) % internalN)
        BY <3>2
      <3> HIDE DEF f
      <3>4. 1..n # {}
        <4>1. 1 \in 1..n
          BY <1>1, <3>1
        <4> QED
          BY <4>1
      <3>5. PICK d \in 1..n : BestIn(f, 1..n, d)
        BY <1>1, <3>3, <3>4, BestExists
      <3> DEFINE a == d - 1
      <3>6. a \in axes /\ a + 1 = d
        BY <1>1
      <3>7. \A b \in axes : b + 1 \in 1..n /\ (b < a => b + 1 < d)
        BY <1>1
      <3>8. \A b \in axes : padding(b) = -f[b + 1] /\ f[b + 1] \in Int
        BY <3>2, <3>3, <3>7 DEF At
      <3> HIDE DEF a, padding
      <3>9. \A b \in axes : f[b + 1] <= f[a + 1] /\ (b < a => f[b + 1] < f[a + 1])
        BY <3>5, <3>6, <3>7 DEF BestIn
      <3>10. \A b \in axes : padding(a) <= padding(b) /\ (b < a => padding(b) > padding(a))
        BY <3>6, <3>8, <3>9
      <3>11. (CHOOSE x \in axes : \A b \in axes : padding(x) <= padding(b) /\ (b < x => padding(b) > padding(x))) \in axes
        BY <3>6, <3>10
      <3> QED
        BY <2>3, <3>11 DEF ResolveNAxis, padding
    <2> QED
      BY <2>1, <2>2, <2>3
  <1> HIDE DEF packed
  <1>4. Input(shape, axis, internalN) = [trace |-> Traced(shape, packed), clear |-> Packed(shape, packed)]
    BY DEF Input, packed
  <1>5. CASE packed = Absent
    <2>1. Packed(shape, Absent).shape = shape /\ DOMAIN Packed(shape, Absent).slot = Indices(shape)
      BY DEF Packed
    <2> QED
      BY <1>4, <1>5, <2>1, FaithfulUnpacked
  <1>6. CASE packed \in 0..(n - 1)
    BY <1>4, <1>6, PackedFaithful
  <1> QED
    BY <1>3, <1>5, <1>6

-----------------------------------------------------------------------------
(* The matrix product. *)

LEMMA CandidatesSurvive ==
    ASSUME NEW v, NEW dims, NEW mul, NEW new
    PROVE  Candidates(v, dims, mul, new) \subseteq Surviving(v, dims, mul)
  <1>1. InDims(v, dims, mul) \subseteq Surviving(v, dims, mul)
    BY DEF InDims
  <1> DEFINE out == BroadcastShapes(v.shape, dims)
             wide(axes) == {a \in axes : At(out, ToPos(a, out)) > 1}
             diags == wide(InDims(v, dims, mul))
             degenerate == InDims(v, dims, mul) \ diags
  <1>2. diags \subseteq Surviving(v, dims, mul) /\ degenerate \subseteq Surviving(v, dims, mul)
    BY <1>1
  <1>3. Candidates(v, dims, mul, new) =
            IF (new = Absent /\ diags # {}) \/ new \in diags THEN diags
            ELSE IF wide(Surviving(v, dims, mul)) = {} /\ degenerate # {} THEN degenerate
            ELSE Surviving(v, dims, mul)
    BY DEF Candidates
  <1> HIDE DEF wide, diags, degenerate
  <1> QED
    BY <1>2, <1>3

\* When the packed axis is summed away the product is packed along another
\* axis of the broadcast shape (_choose_matmul_new_n_axis).
LEMMA ChosenSurvives ==
    ASSUME NEW v, NEW c, Faithful(v, c), v.axis # Absent, NEW dims \in TensorShape,
           Compatible(v.shape, dims), NEW mul \in AxesOf(BroadcastShapes(v.shape, dims)),
           NEW new \in Int \cup {Absent}, MatMulAllowed(v, dims, mul, new)
    PROVE  LET out == BroadcastShapes(v.shape, dims)
               chosen == ChosenAxis(v, dims, mul, new)
           IN  chosen \in 0..(Len(out) - 1) /\ chosen # ToPos(mul, out)
  <1> DEFINE out == BroadcastShapes(v.shape, dims)
             n == Len(out)
             axis == ToPos(mul, out)
             packed == ToPos(ToNeg(v.axis, v.shape), out)
             chosen == ChosenAxis(v, dims, mul, new)
             normal == Normal(new, out)
  <1>1. Spreads(v.shape, out) /\ out \in TensorShape /\ n \in Nat
    BY BroadcastSpreads, ShapeTypes DEF Faithful, Spreads
  <1>2. packed \in 0..(n - 1)
    BY <1>1, MovedTrace
  <1>3. mul \in -n..(n - 1)
    BY DEF AxesOf
  <1>4. /\ chosen = IF packed # axis THEN packed ELSE IF new # Absent THEN ToPos(normal, out)
                    ELSE ToPos(Largest(Candidates(v, dims, mul, Absent), out), out)
        /\ packed = axis => LET candidates == Candidates(v, dims, mul, normal)
                            IN  candidates # {} /\ (new # Absent => normal \in candidates)
    BY DEF ChosenAxis, MatMulAllowed
  <1>5. \A a \in Surviving(v, dims, mul) : a \in -n..-1 /\ a # ToNeg(mul, out)
    BY DEF Surviving
  <1>6. new = Absent => normal = Absent
    BY DEF Normal
  <1> HIDE DEF chosen, normal, out
  <1>7. \A a \in Surviving(v, dims, mul) : ToPos(a, out) \in 0..(n - 1) /\ ToPos(a, out) # axis
    BY <1>1, <1>3, <1>5 DEF ToPos, ToNeg
  <1>8. CASE packed # axis
    BY <1>2, <1>4, <1>8 DEF chosen, out
  <1>9. CASE packed = axis /\ new # Absent
    <2>1. normal \in Surviving(v, dims, mul)
      BY <1>4, <1>9, CandidatesSurvive
    <2>2. chosen = ToPos(normal, out)
      BY <1>4, <1>9
    <2> QED
      BY <1>7, <2>1, <2>2 DEF chosen, out
  <1>10. CASE packed = axis /\ new = Absent
    <2> DEFINE axes == Candidates(v, dims, mul, Absent)
    <2>1. axes # {} /\ axes \subseteq Surviving(v, dims, mul)
      BY <1>4, <1>6, <1>10, CandidatesSurvive
    <2>2. axes \in SUBSET (-n..-1)
      BY <1>5, <2>1
    <2>3. chosen = ToPos(Largest(axes, out), out)
      BY <1>4, <1>10
    <2> HIDE DEF axes
    <2>4. Largest(axes, out) \in axes
      BY <1>1, <2>1, <2>2, LargestIs
    <2> QED
      BY <1>7, <2>1, <2>3, <2>4 DEF chosen, out
  <1> QED
    BY <1>8, <1>9, <1>10

LEMMA MultipliedFaithful ==
    ASSUME NEW dims \in TensorShape, NEW mul, NEW new \in Int \cup {Absent},
           Faithful(traced, tensor), Multipliable(dims, mul, new)
    PROVE  Faithful(Multiplied(dims, mul, new).trace, Multiplied(dims, mul, new).clear)
  <1> DEFINE v == traced
             out == BroadcastShapes(v.shape, dims)
             axis == ToPos(mul, out)
             packed == ToPos(ToNeg(v.axis, v.shape), out)
             chosen == ChosenAxis(v, dims, mul, new)
             spread == Broadcast(v, tensor, out)
             moved == IF v.axis # Absent /\ packed = axis THEN Packed(out, chosen) ELSE spread
             plain == InferBroadcast(v, dims)
             t == Traced(out, chosen)
  <1>1. /\ Compatible(v.shape, dims) /\ mul \in AxesOf(out)
        /\ v.axis # Absent => MatMulAllowed(v, dims, mul, new)
    BY DEF Multipliable
  <1>2. Spreads(v.shape, out) /\ out \in TensorShape /\ Len(out) \in Nat
    BY <1>1, BroadcastSpreads, ShapeTypes DEF Faithful, Spreads
  <1>3. /\ Multiplied(dims, mul, new).trace = IF v.axis = Absent THEN InferRemove(plain, mul)
                                              ELSE InferMatMul(v, dims, mul, new)
        /\ Multiplied(dims, mul, new).clear = Summed(moved, axis, FALSE)
    BY DEF Multiplied
  <1>4. axis \in 0..(Len(out) - 1)
    BY <1>1, <1>2 DEF AxesOf, ToPos
  <1>5. CASE v.axis = Absent
    <2>1. plain = Traced(out, Absent) /\ moved = spread
      BY <1>5 DEF InferBroadcast
    <2>2. Faithful(plain, spread)
      BY <1>2, <1>5, <2>1, BroadcastFaithful
    <2>3. plain.shape = out /\ plain.axis = Absent
      BY <2>1 DEF Traced
    <2> HIDE DEF plain, out, moved, spread
    <2>4. mul \in AxesOf(plain.shape) /\ Removable(plain, mul) /\ ToPos(mul, plain.shape) = axis
      BY <1>1, <1>2, <1>4, <2>3, NoAxisIsNone DEF Removable
    <2>5. Faithful(InferRemove(plain, mul), Summed(spread, axis, FALSE))
      BY <2>2, <2>4, SumFaithful
    <2> QED
      BY <1>3, <1>5, <2>1, <2>5
  <1>6. CASE v.axis # Absent
    <2>1. chosen \in 0..(Len(out) - 1) /\ chosen # axis
      BY <1>1, <1>6, ChosenSurvives
    <2>2. packed = Moved(v, out)
      BY <1>2, <1>6, MovedTrace
    <2>3. packed # axis => chosen = packed
      BY DEF ChosenAxis
    <2>4. Faithful(Traced(out, Moved(v, out)), spread)
      BY <1>2, BroadcastFaithful
    <2>5. InferMatMul(v, dims, mul, new) = Traced(Without(out, axis), chosen - (IF axis < chosen THEN 1 ELSE 0))
      BY DEF InferMatMul
    <2>6. moved = IF packed = axis THEN Packed(out, chosen) ELSE spread
      BY <1>6
    <2> HIDE DEF out, chosen, spread, moved, packed
    <2>7. chosen \in Nat /\ chosen # Absent
      BY <1>2, <2>1, NoAxisIsNone
    <2>8. t = [shape |-> out, axis |-> chosen]
      BY <2>7, TracedAt
    <2>9. Faithful(t, moved)
      <3>1. CASE packed = axis
        BY <1>2, <2>1, <2>6, <3>1, PackedFaithful
      <3>2. CASE packed # axis
        BY <2>2, <2>3, <2>4, <2>6, <3>2
      <3> QED
        BY <3>1, <3>2
    <2>10. t.shape = out /\ t.axis = chosen
      BY <2>8
    <2> HIDE DEF t
    <2>11. mul \in AxesOf(t.shape) /\ Removable(t, mul) /\ ToPos(mul, t.shape) = axis
      BY <1>1, <2>1, <2>10 DEF Removable
    <2>12. InferRemove(t, mul) = InferMatMul(v, dims, mul, new)
      BY <2>5, <2>7, <2>10 DEF InferRemove
    <2>13. Faithful(InferRemove(t, mul), Summed(moved, axis, FALSE))
      BY <2>9, <2>11, SumFaithful
    <2> QED
      BY <1>3, <1>6, <2>12, <2>13
  <1> QED
    BY <1>5, <1>6

-----------------------------------------------------------------------------
(* Indexers. *)

Entry == {"full", "dots", "at"}

LEMMA PlacesAre ==
    ASSUME NEW key \in Seq(Entry), NEW rank \in Nat, KeyAllowed(key, rank)
    PROVE  \E p \in 1..Len(key) :
              /\ Places(key, "at") = {p}
              /\ \/ Places(key, "dots") = {} /\ Len(key) <= rank
                 \/ \E d \in 1..Len(key) : Places(key, "dots") = {d} /\ Len(key) - 1 <= rank
  <1> DEFINE ats == Places(key, "at")
             dots == Places(key, "dots")
  <1>1. Len(key) \in Nat /\ DOMAIN key = 1..Len(key)
    OBVIOUS
  <1>2. ats \subseteq 1..Len(key) /\ dots \subseteq 1..Len(key)
    BY <1>1 DEF Places
  <1>3. IsFiniteSet(1..Len(key))
    BY <1>1, FS_Interval
  <1>4. IsFiniteSet(ats) /\ IsFiniteSet(dots)
    BY <1>2, <1>3, FS_Subset
  <1>5. Cardinality(dots) \in Nat /\ (Cardinality(dots) = 0 <=> dots = {})
    BY <1>4, FS_CardinalityType, FS_EmptySet
  <1>6. Cardinality(ats) = 1 /\ Cardinality(dots) <= 1 /\ Len(key) - Cardinality(dots) <= rank
    BY DEF KeyAllowed
  <1> HIDE DEF ats, dots
  <1>7. PICK p : ats = {p}
    BY <1>4, <1>6, FS_Singleton
  <1>8. p \in 1..Len(key)
    BY <1>2, <1>7
  <1>9. CASE Cardinality(dots) = 0
    <2>1. dots = {} /\ Len(key) <= rank
      BY <1>1, <1>5, <1>6, <1>9
    <2> QED
      BY <1>7, <1>8, <2>1 DEF ats, dots
  <1>10. CASE Cardinality(dots) = 1
    <2>1. PICK d : dots = {d}
      BY <1>4, <1>10, FS_Singleton
    <2>2. d \in 1..Len(key) /\ Len(key) - 1 <= rank
      BY <1>2, <1>6, <1>10, <2>1
    <2> QED
      BY <1>7, <1>8, <2>1, <2>2 DEF ats, dots
  <1> QED
    BY <1>5, <1>6, <1>9, <1>10

LEMMA FullIs ==
    ASSUME NEW n \in Nat
    PROVE  Full(n) \in Seq(Entry) /\ Len(Full(n)) = n /\ \A j \in 1..n : Full(n)[j] = "full"
  <1> DEFINE T == Entry
             full == Full(n)
  <1>1. full \in [1..n -> T] /\ \A j \in 1..n : full[j] = "full"
    BY DEF Full, Entry
  <1> HIDE DEF full, T
  <1>2. full \in Seq(T) /\ Len(full) = n
    BY <1>1, SequencesAre
  <1> QED
    BY <1>1, <1>2 DEF T, full

\* Expanding "..." leaves the indexed axis where torch has it.
LEMMA ActiveIsIndexed ==
    ASSUME NEW key \in Seq(Entry), NEW rank \in Nat, KeyAllowed(key, rank)
    PROVE  ActiveAxis(key, rank) = IndexedAxis(key, rank) /\ ActiveAxis(key, rank) \in 0..(rank - 1)
  <1> DEFINE n == Len(key)
             x == Expanded(key, rank)
  <1>1. n \in Nat /\ DOMAIN key = 1..n
    OBVIOUS
  <1>2. PICK p \in 1..n : /\ Places(key, "at") = {p}
                          /\ \/ Places(key, "dots") = {} /\ n <= rank
                             \/ \E d \in 1..n : Places(key, "dots") = {d} /\ n - 1 <= rank
    BY PlacesAre
  <1>3. \A i \in 1..n : key[i] = "at" <=> i = p
    BY <1>1, <1>2 DEF Places
  <1>4. IndexedAxis(key, rank) = IF \E i \in 1..p : key[i] = "dots" THEN rank - (n - p) - 1 ELSE p - 1
    BY <1>2 DEF IndexedAxis
  <1>5. ASSUME NEW q \in 1..rank, x \in Seq(Entry), Len(x) = rank, \A j \in 1..rank : x[j] = "at" <=> j = q
        PROVE  ActiveAxis(key, rank) = q - 1
    <2>1. Places(x, "at") = {q}
      BY <1>5 DEF Places
    <2> QED
      BY <2>1 DEF ActiveAxis
  <1>6. CASE Places(key, "dots") = {} /\ n <= rank
    <2> DEFINE full == Full(rank - n)
    <2>1. rank - n \in Nat
      BY <1>1, <1>6
    <2>2. full \in Seq(Entry) /\ Len(full) = rank - n /\ \A j \in 1..(rank - n) : full[j] = "full"
      BY <2>1, FullIs
    <2>3. x = key \o full
      BY <1>6 DEF Expanded
    <2> HIDE DEF x, full
    <2>4. /\ x \in Seq(Entry) /\ Len(x) = n + (rank - n)
          /\ \A j \in 1..(n + (rank - n)) : x[j] = IF j <= n THEN key[j] ELSE full[j - n]
      <3>1. /\ key \o full \in Seq(Entry) /\ Len(key \o full) = Len(key) + Len(full)
            /\ \A j \in 1..(Len(key) + Len(full)) :
                   (key \o full)[j] = IF j <= Len(key) THEN key[j] ELSE full[j - Len(key)]
        BY <2>2, ConcatProperties
      <3> QED
        BY <2>2, <2>3, <3>1
    <2>5. n + (rank - n) = rank /\ p \in 1..rank
      BY <1>1, <1>6
    <2>6. \A j \in 1..rank : x[j] = "at" <=> j = p
      <3> SUFFICES ASSUME NEW j \in 1..rank PROVE x[j] = "at" <=> j = p
        OBVIOUS
      <3>1. CASE j <= n
        BY <1>3, <2>4, <2>5, <3>1
      <3>2. CASE ~(j <= n)
        <4>1. j - n \in 1..(rank - n) /\ j # p
          BY <1>1, <2>1, <3>2
        <4>2. x[j] = "full"
          BY <2>2, <2>4, <2>5, <3>2, <4>1
        <4> QED
          BY <4>1, <4>2
      <3> QED
        BY <3>1, <3>2
    <2>7. ActiveAxis(key, rank) = p - 1
      BY <1>5, <2>4, <2>5, <2>6
    <2>8. \A i \in 1..p : key[i] # "dots"
      BY <1>1, <1>6 DEF Places
    <2>9. IndexedAxis(key, rank) = p - 1
      BY <1>4, <2>8
    <2> QED
      BY <2>5, <2>7, <2>9
  <1>7. CASE \E d \in 1..n : Places(key, "dots") = {d} /\ n - 1 <= rank
    <2>1. PICK d \in 1..n : Places(key, "dots") = {d} /\ n - 1 <= rank
      BY <1>7
    <2>2. \A i \in 1..n : key[i] = "dots" <=> i = d
      BY <1>1, <2>1 DEF Places
    <2>3. p # d
      BY <1>3, <2>2
    <2> DEFINE m == rank - (n - 1)
               front == SubSeq(key, 1, d - 1)
               full == Full(m)
               back == SubSeq(key, d + 1, n)
               start == front \o full
    <2>4. m \in Nat /\ (d - 1) + m + (n - d) = rank
      BY <1>1, <2>1
    <2>5. front \in Seq(Entry) /\ Len(front) = d - 1 /\ \A j \in 1..(d - 1) : front[j] = key[j]
      OBVIOUS
    <2>6. back \in Seq(Entry) /\ Len(back) = n - d /\ \A j \in 1..(n - d) : back[j] = key[d + j]
      OBVIOUS
    <2>7. full \in Seq(Entry) /\ Len(full) = m /\ \A j \in 1..m : full[j] = "full"
      BY <2>4, FullIs
    <2>8. x = start \o back
      BY <2>1 DEF Expanded
    <2> HIDE DEF front, back, full, m
    <2>9. /\ start \in Seq(Entry) /\ Len(start) = (d - 1) + m
          /\ \A j \in 1..((d - 1) + m) : start[j] = IF j <= d - 1 THEN front[j] ELSE full[j - (d - 1)]
      <3>1. /\ front \o full \in Seq(Entry) /\ Len(front \o full) = Len(front) + Len(full)
            /\ \A j \in 1..(Len(front) + Len(full)) :
                   (front \o full)[j] = IF j <= Len(front) THEN front[j] ELSE full[j - Len(front)]
        BY <2>5, <2>7, ConcatProperties
      <3> QED
        BY <2>5, <2>7, <3>1
    <2> HIDE DEF start, x
    <2>10. /\ x \in Seq(Entry) /\ Len(x) = (d - 1) + m + (n - d)
           /\ \A j \in 1..((d - 1) + m + (n - d)) :
                  x[j] = IF j <= (d - 1) + m THEN start[j] ELSE back[j - ((d - 1) + m)]
      <3>1. /\ start \o back \in Seq(Entry) /\ Len(start \o back) = Len(start) + Len(back)
            /\ \A j \in 1..(Len(start) + Len(back)) :
                   (start \o back)[j] = IF j <= Len(start) THEN start[j] ELSE back[j - Len(start)]
        BY <2>6, <2>9, ConcatProperties
      <3> QED
        BY <2>6, <2>8, <2>9, <3>1
    <2>11. \A j \in 1..rank : /\ j <= d - 1 => x[j] = key[j]
                              /\ j > d - 1 /\ j <= (d - 1) + m => x[j] = "full"
                              /\ j > (d - 1) + m => x[j] = key[j - m + 1] /\ j - m + 1 \in (d + 1)..n
      <3> SUFFICES ASSUME NEW j \in 1..rank
                   PROVE  /\ j <= d - 1 => x[j] = key[j]
                          /\ j > d - 1 /\ j <= (d - 1) + m => x[j] = "full"
                          /\ j > (d - 1) + m => x[j] = key[j - m + 1] /\ j - m + 1 \in (d + 1)..n
        OBVIOUS
      <3>0. x[j] = IF j <= (d - 1) + m THEN start[j] ELSE back[j - ((d - 1) + m)]
        BY <2>4, <2>10
      <3>1. CASE j <= d - 1
        <4>1. j \in 1..(d - 1) /\ j \in 1..((d - 1) + m) /\ j <= (d - 1) + m
          BY <1>1, <2>4, <3>1
        <4> QED
          BY <2>5, <2>9, <3>0, <3>1, <4>1
      <3>2. CASE j > d - 1 /\ j <= (d - 1) + m
        <4>1. j \in 1..((d - 1) + m) /\ ~(j <= d - 1) /\ j - (d - 1) \in 1..m
          BY <1>1, <2>4, <3>2
        <4> QED
          BY <2>7, <2>9, <3>0, <3>2, <4>1
      <3>3. CASE j > (d - 1) + m
        <4> DEFINE k == j - ((d - 1) + m)
        <4>1. k \in 1..(n - d) /\ ~(j <= (d - 1) + m) /\ d + k = j - m + 1 /\ j - m + 1 \in (d + 1)..n /\ ~(j <= d - 1)
          BY <1>1, <2>4, <3>3
        <4>2. x[j] = back[k]
          BY <3>0, <4>1
        <4> HIDE DEF k
        <4>3. x[j] = key[j - m + 1]
          BY <2>6, <4>1, <4>2
        <4> QED
          BY <3>3, <4>1, <4>3
      <3> QED
        BY <1>1, <2>4, <3>1, <3>2, <3>3
    <2>12. CASE p < d
      <3>1. p \in 1..rank /\ p <= d - 1
        BY <1>1, <2>1, <2>12
      <3>2. \A j \in 1..rank : x[j] = "at" <=> j = p
        <4> SUFFICES ASSUME NEW j \in 1..rank PROVE x[j] = "at" <=> j = p
          OBVIOUS
        <4>1. CASE j <= d - 1
          BY <1>1, <1>3, <2>11, <4>1
        <4>2. CASE j > d - 1 /\ j <= (d - 1) + m
          BY <2>11, <3>1, <4>2
        <4>3. CASE j > (d - 1) + m
          <5>1. x[j] = key[j - m + 1] /\ j - m + 1 \in 1..n /\ j - m + 1 # p /\ j # p
            BY <1>1, <2>4, <2>11, <2>12, <4>3
          <5> QED
            BY <1>3, <5>1
        <4> QED
          BY <2>4, <4>1, <4>2, <4>3
      <3>3. ActiveAxis(key, rank) = p - 1
        BY <1>5, <2>4, <2>10, <3>1, <3>2
      <3>4. \A i \in 1..p : key[i] # "dots"
        BY <1>1, <2>2, <2>12
      <3>5. IndexedAxis(key, rank) = p - 1
        BY <1>4, <3>4
      <3> QED
        BY <3>1, <3>3, <3>5
    <2>13. CASE p > d
      <3> DEFINE q == p + m - 1
      <3>1. q \in 1..rank /\ q > (d - 1) + m /\ q - m + 1 = p /\ q - 1 = rank - (n - p) - 1
        BY <1>1, <2>1, <2>4, <2>13 DEF m
      <3>2. \A j \in 1..rank : x[j] = "at" <=> j = q
        <4> SUFFICES ASSUME NEW j \in 1..rank PROVE x[j] = "at" <=> j = q
          OBVIOUS
        <4>1. CASE j <= d - 1
          <5>1. j \in 1..n /\ j # p /\ j # q
            BY <1>1, <2>4, <2>13, <3>1, <4>1
          <5> QED
            BY <1>3, <2>11, <4>1, <5>1
        <4>2. CASE j > d - 1 /\ j <= (d - 1) + m
          BY <2>4, <2>11, <3>1, <4>2
        <4>3. CASE j > (d - 1) + m
          <5>1. x[j] = key[j - m + 1] /\ j - m + 1 \in 1..n /\ (j - m + 1 = p <=> j = q)
            BY <1>1, <2>4, <2>11, <4>3
          <5> QED
            BY <1>3, <5>1
        <4> QED
          BY <2>4, <4>1, <4>2, <4>3
      <3> HIDE DEF q
      <3>3. ActiveAxis(key, rank) = q - 1
        BY <1>5, <2>4, <2>10, <3>1, <3>2
      <3>4. d \in 1..p /\ key[d] = "dots"
        BY <1>1, <2>2, <2>13
      <3>5. IndexedAxis(key, rank) = rank - (n - p) - 1
        BY <1>4, <3>4
      <3> QED
        BY <3>1, <3>3, <3>5
    <2> QED
      BY <2>3, <2>12, <2>13
  <1> QED
    BY <1>2, <1>6, <1>7

-----------------------------------------------------------------------------
(* Every operator keeps the trace true. *)

ShapeInv == Faithful(value.trace, value.clear) /\ Faithful(param.trace, param.clear)

LEMMA BecomesFaithful ==
    ASSUME ShapeInv, NEW trace, NEW clear, Faithful(trace, clear), Becomes(trace, clear)
    PROVE  ShapeInv'
  <1>1. value'.trace = trace /\ value'.clear = clear /\ param' = param
    BY DEF Becomes
  <1> QED
    BY <1>1 DEF ShapeInv

LEMMA DeclaredShapes ==
    /\ \A dims \in Admitted : dims \in TensorShape
    /\ \A dims \in Inputs \cup Others \cup Weights : dims \in TensorShape
  <1>1. ASSUME NEW dims \in Admitted PROVE dims \in TensorShape
    <2> DEFINE N == Nat \ {0}
    <2>1. PICK r \in 0..MaxRank : dims \in [1..r -> Sizes]
      BY DEF Admitted
    <2>2. r \in Nat /\ Sizes \subseteq N
      BY ShapeAssumption
    <2>3. dims \in [1..r -> N]
      BY <2>1, <2>2
    <2> HIDE DEF N
    <2>4. dims \in Seq(N)
      BY <2>2, <2>3, SequencesAre
    <2> QED
      BY <2>4 DEF TensorShape, N
  <1> QED
    BY <1>1, ShapeAssumption DEF TensorShape

LEMMA ReshapeKeeps == ASSUME ShapeInv, NEW dims \in Admitted, Reshape(dims) PROVE ShapeInv'
  <1>1. /\ traced.axis # Absent => PackedPlaces(traced, dims) # {}
        /\ Becomes(InferReshape(traced, dims), Reshaped(tensor, dims))
    BY DEF Reshape
  <1>2. Faithful(traced, tensor) /\ dims \in TensorShape
    BY DeclaredShapes DEF ShapeInv, traced, tensor
  <1>3. Faithful(InferReshape(traced, dims), Reshaped(tensor, dims))
    BY <1>1, <1>2, ReshapeFaithful
  <1> QED
    BY <1>1, <1>3, BecomesFaithful

LEMMA UnsqueezeKeeps == ASSUME ShapeInv, NEW dim, Unsqueeze(dim) PROVE ShapeInv'
  <1> DEFINE longer == Append(traced.shape, 1)
             axis == ToPos(dim, longer)
  <1>1. dim \in AxesOf(longer) /\ Becomes(InferInsert(traced, axis, 1), Unsqueezed(tensor, axis, 1))
    BY DEF Unsqueeze
  <1>2. Faithful(traced, tensor)
    BY DEF ShapeInv, traced, tensor
  <1>3. Len(longer) = Len(traced.shape) + 1 /\ Len(traced.shape) \in Nat
    BY <1>2, ShapeTypes DEF Faithful, TensorShape
  <1> HIDE DEF longer
  <1>4. axis \in 0..Len(traced.shape)
    BY <1>1, <1>3 DEF AxesOf, ToPos
  <1>5. 1 \in Nat \ {0}
    OBVIOUS
  <1> HIDE DEF axis
  <1>6. Faithful(InferInsert(traced, axis, 1), Unsqueezed(tensor, axis, 1))
    BY <1>2, <1>4, <1>5, InsertFaithful
  <1> QED
    BY <1>1, <1>6, BecomesFaithful

LEMMA SqueezeKeeps == ASSUME ShapeInv, NEW dim, Squeeze(dim) PROVE ShapeInv'
  <1>1. Faithful(traced, tensor) /\ tensor.shape = traced.shape
    BY DEF ShapeInv, traced, tensor, Faithful
  <1>2. /\ dim \in AxesOf(traced.shape) /\ At(traced.shape, ToPos(dim, traced.shape)) = 1 /\ Removable(traced, dim)
        /\ Becomes(InferRemove(traced, dim), Selected(tensor, ToPos(dim, traced.shape), 0))
    BY <1>1 DEF Squeeze
  <1>3. 0 \in 0..(At(traced.shape, ToPos(dim, traced.shape)) - 1)
    BY <1>2
  <1>4. Faithful(InferRemove(traced, dim), Selected(tensor, ToPos(dim, traced.shape), 0))
    BY <1>1, <1>2, <1>3, SelectFaithful
  <1> QED
    BY <1>2, <1>4, BecomesFaithful

LEMMA AxisSumKeeps ==
    ASSUME ShapeInv, NEW dim, NEW keep \in BOOLEAN, keep => dim >= 0, AxisSum(dim, keep) PROVE ShapeInv'
  <1>1. Faithful(traced, tensor) /\ tensor.shape = traced.shape
    BY DEF ShapeInv, traced, tensor, Faithful
  <1>2. /\ dim \in AxesOf(traced.shape) /\ Removable(traced, dim)
        /\ Becomes(InferReduce(traced, dim, keep), Summed(tensor, ToPos(dim, traced.shape), keep))
    BY <1>1 DEF AxisSum
  <1>3. Faithful(InferReduce(traced, dim, keep), Summed(tensor, ToPos(dim, traced.shape), keep))
    BY <1>1, <1>2, ReduceFaithful
  <1> QED
    BY <1>2, <1>3, BecomesFaithful

LEMMA SelectKeeps ==
    ASSUME ShapeInv, NEW axis \in 0..(Len(traced.shape) - 1), NEW start, Select(axis, axis, start) PROVE ShapeInv'
  <1> DEFINE j == IF start >= 0 THEN start ELSE start + At(traced.shape, axis)
  <1>1. Faithful(traced, tensor) /\ Len(traced.shape) \in Nat
    BY ShapeTypes DEF ShapeInv, traced, tensor, Faithful
  <1>2. ToPos(axis, traced.shape) = axis /\ axis \in AxesOf(traced.shape)
    BY <1>1 DEF ToPos, AxesOf
  <1>3. /\ axis # traced.axis /\ j \in 0..(At(traced.shape, axis) - 1)
        /\ Becomes(InferRemove(traced, axis), Selected(tensor, axis, j))
    BY <1>2 DEF Select
  <1> HIDE DEF j
  <1>4. Removable(traced, axis) /\ j \in 0..(At(traced.shape, ToPos(axis, traced.shape)) - 1)
    BY <1>2, <1>3 DEF Removable
  <1>5. Faithful(InferRemove(traced, axis), Selected(tensor, ToPos(axis, traced.shape), j))
    BY <1>1, <1>2, <1>4, SelectFaithful
  <1> QED
    BY <1>2, <1>3, <1>5, BecomesFaithful

LEMMA SliceKeeps ==
    ASSUME ShapeInv, NEW axis \in 0..(Len(traced.shape) - 1), NEW start \in Int, NEW end \in Int \cup {Absent},
           NEW step \in {1, 2}, Slice(axis, axis, start, end, step)
    PROVE  ShapeInv'
  <1> DEFINE size == At(traced.shape, axis)
             taken == Taken(size, start, end, step)
             trace == Traced([traced.shape EXCEPT ![axis + 1] = Len(taken)], traced.axis)
  <1>1. Faithful(traced, tensor) /\ Len(traced.shape) \in Nat /\ traced.shape \in TensorShape
    BY ShapeTypes DEF ShapeInv, traced, tensor, Faithful
  <1>2. ToPos(axis, traced.shape) = axis /\ axis + 1 \in 1..Len(traced.shape)
    BY <1>1 DEF ToPos
  <1>3. /\ axis # traced.axis /\ taken # <<>>
        /\ Becomes(trace, Sliced(tensor, axis, taken))
    BY <1>2 DEF Slice
  <1>4. size \in Nat
    BY <1>1, <1>2, ShapeTypes DEF At
  <1>5. taken \in Seq(0..(size - 1))
    BY <1>4, TakenFacts
  <1> HIDE DEF taken
  <1>6. Faithful(trace, Sliced(tensor, axis, taken))
    BY <1>1, <1>3, <1>5, SliceFaithful
  <1> QED
    BY <1>3, <1>6, BecomesFaithful

LEMMA GetItemKeeps == ASSUME ShapeInv, NEW key \in Keys, GetItem(key) PROVE ShapeInv'
  <1> DEFINE rank == Len(traced.shape)
             dim == ActiveAxis(key, rank)
  <1>1. tensor.shape = traced.shape /\ rank \in Nat
    BY ShapeTypes DEF ShapeInv, traced, tensor, Faithful
  <1>2. key \in Seq(Entry)
    BY ShapeAssumption DEF Entry
  <1>3. KeyAllowed(key, rank)
    BY DEF GetItem
  <1>4. dim = IndexedAxis(key, rank) /\ dim \in 0..(rank - 1)
    BY <1>1, <1>2, <1>3, ActiveIsIndexed
  <1>5. \/ \E start \in {-2, 0, 1} : Select(dim, dim, start)
        \/ \E start \in {-2, 0, 1}, end \in {Absent, -1, 2}, step \in {1, 2} : Slice(dim, dim, start, end, step)
    BY <1>1, <1>4 DEF GetItem
  <1> HIDE DEF dim
  <1>6. ASSUME NEW start \in {-2, 0, 1}, Select(dim, dim, start) PROVE ShapeInv'
    BY <1>4, <1>6, SelectKeeps
  <1>7. ASSUME NEW start \in {-2, 0, 1}, NEW end \in {Absent, -1, 2}, NEW step \in {1, 2}, Slice(dim, dim, start, end, step)
        PROVE  ShapeInv'
    <2>1. start \in Int /\ end \in Int \cup {Absent}
      OBVIOUS
    <2> QED
      BY <1>4, <1>7, <2>1, SliceKeeps
  <1> QED
    BY <1>5, <1>6, <1>7

LEMMA ConstKeeps == ASSUME ShapeInv, NEW dims \in Weights, Const(dims) PROVE ShapeInv'
  <1> DEFINE out == BroadcastShapes(traced.shape, dims)
  <1>1. Faithful(traced, tensor) /\ tensor.shape = traced.shape /\ dims \in TensorShape
    BY DeclaredShapes DEF ShapeInv, traced, tensor, Faithful
  <1>2. Compatible(traced.shape, dims) /\ Becomes(InferBroadcast(traced, dims), Broadcast(traced, tensor, out))
    BY <1>1 DEF Const
  <1>3. Spreads(traced.shape, out)
    BY <1>1, <1>2, BroadcastSpreads DEF Faithful
  <1>4. Faithful(InferBroadcast(traced, dims), Broadcast(traced, tensor, out))
    BY <1>1, <1>3, BroadcastFaithful DEF InferBroadcast
  <1> QED
    BY <1>2, <1>4, BecomesFaithful

LEMMA AddKeeps ==
    ASSUME ShapeInv, NEW first, NEW second, Faithful(first.trace, first.clear),
           Faithful(second.trace, second.clear), Add(first, second)
    PROVE  ShapeInv'
  <1>1. Aligned(first, second) /\ Becomes(OfBoth(first, second).trace, OfBoth(first, second).clear)
    BY DEF Add
  <1>2. Faithful(OfBoth(first, second).trace, OfBoth(first, second).clear)
    BY <1>1, OfBothFaithful
  <1> QED
    BY <1>1, <1>2, BecomesFaithful

LEMMA MulSumKeeps ==
    ASSUME ShapeInv, NEW dim, NEW keep \in BOOLEAN, keep => dim >= 0, MulSum(value, param, dim, keep)
    PROVE  ShapeInv'
  <1> DEFINE product == OfBoth(value, param)
  <1>1. /\ Aligned(value, param) /\ dim \in AxesOf(product.trace.shape) /\ Removable(product.trace, dim)
        /\ Becomes(InferReduce(product.trace, dim, keep),
                   Summed(product.clear, ToPos(dim, product.clear.shape), keep))
    BY DEF MulSum
  <1>2. Faithful(product.trace, product.clear)
    BY <1>1, OfBothFaithful DEF ShapeInv
  <1>3. product.clear.shape = product.trace.shape
    BY <1>2 DEF Faithful
  <1> HIDE DEF product
  <1>4. Faithful(InferReduce(product.trace, dim, keep), Summed(product.clear, ToPos(dim, product.trace.shape), keep))
    BY <1>1, <1>2, ReduceFaithful
  <1> QED
    BY <1>1, <1>3, <1>4, BecomesFaithful

LEMMA RotateSumKeeps == ASSUME ShapeInv, NEW sum \in BOOLEAN, RotateSum(2, sum) PROVE ShapeInv'
  <1>1. Faithful(traced, tensor) /\ Len(traced.shape) \in Nat
    BY ShapeTypes DEF ShapeInv, traced, tensor, Faithful
  <1>2. CASE sum
    <2>1. Becomes(traced, tensor)
      BY <1>2 DEF RotateSum
    <2> QED
      BY <1>1, <2>1, BecomesFaithful
  <1>3. CASE ~sum
    <2>1. Becomes(InferInsert(traced, 0, 2), Unsqueezed(tensor, 0, 2))
      BY <1>3 DEF RotateSum
    <2>2. 0 \in 0..Len(traced.shape) /\ 2 \in Nat \ {0}
      BY <1>1
    <2>3. Faithful(InferInsert(traced, 0, 2), Unsqueezed(tensor, 0, 2))
      BY <1>1, <2>2, InsertFaithful
    <2> QED
      BY <2>1, <2>3, BecomesFaithful
  <1> QED
    BY <1>2, <1>3

LEMMA MatMulKeeps ==
    ASSUME ShapeInv, NEW dims \in Weights, NEW mul, NEW new \in NewAxes, MatMul(dims, mul, new) PROVE ShapeInv'
  <1>1. /\ Multipliable(dims, mul, new)
        /\ Becomes(Multiplied(dims, mul, new).trace, Multiplied(dims, mul, new).clear)
    BY DEF MatMul
  <1>2. Faithful(traced, tensor) /\ dims \in TensorShape /\ new \in Int \cup {Absent}
    BY DeclaredShapes, ShapeAssumption DEF ShapeInv, traced, tensor
  <1>3. Faithful(Multiplied(dims, mul, new).trace, Multiplied(dims, mul, new).clear)
    BY <1>1, <1>2, MultipliedFaithful
  <1> QED
    BY <1>1, <1>3, BecomesFaithful

LEMMA LinearKeeps == ASSUME ShapeInv, NEW dims \in Weights, NEW mul, Linear(dims, mul) PROVE ShapeInv'
  <1> DEFINE a == ToPos(mul, dims)
             bias == Without(dims, a)
             product == Multiplied(dims, mul, Absent)
             t == product.trace
             out == BroadcastShapes(t.shape, bias)
  <1>1. /\ mul \in AxesOf(dims) /\ Multipliable(dims, mul, Absent) /\ Compatible(t.shape, bias)
        /\ Becomes(InferBroadcast(t, bias), Broadcast(t, product.clear, BroadcastShapes(product.clear.shape, bias)))
    BY DEF Linear
  <1>2. Faithful(traced, tensor) /\ dims \in TensorShape /\ Len(dims) \in Nat
    BY DeclaredShapes, ShapeTypes DEF ShapeInv, traced, tensor
  <1>3. Faithful(t, product.clear)
    BY <1>1, <1>2, MultipliedFaithful
  <1>4. a \in 0..(Len(dims) - 1)
    BY <1>1, <1>2 DEF AxesOf, ToPos
  <1> HIDE DEF product, a
  <1>5. bias \in TensorShape
    BY <1>2, <1>4, WithoutIs
  <1>6. product.clear.shape = t.shape /\ t.shape \in TensorShape
    BY <1>3 DEF Faithful
  <1> HIDE DEF t, bias
  <1>7. Spreads(t.shape, out)
    BY <1>1, <1>5, <1>6, BroadcastSpreads
  <1>8. Faithful(InferBroadcast(t, bias), Broadcast(t, product.clear, out))
    BY <1>3, <1>7, BroadcastFaithful DEF InferBroadcast
  <1> QED
    BY <1>1, <1>6, <1>8, BecomesFaithful

LEMMA ConvKeeps ==
    ASSUME ShapeInv, ConvAxes \subseteq {1},
           NEW channels \in 1..2, NEW kernel \in {1, 3}, NEW side \in 1..2, Conv(channels, kernel, side)
    PROVE  ShapeInv'
  <1> DEFINE out == OutputSize(side, kernel, 1, SamePadding(kernel))
             n == traced.shape[2]
             pixels == (tensor.shape[2] \div (side * side)) * out * out
             shape == <<channels, n>>
  <1>1. /\ Len(traced.shape) = 2 /\ n % (side * side) = 0
        /\ Becomes(Traced(<<channels, n>>, -1), Packed(<<channels, pixels>>, 1))
    BY DEF Conv, Convolved
  <1>2. tensor.shape = traced.shape /\ n \in Nat /\ n > 0
    BY <1>1, ShapeTypes DEF ShapeInv, traced, tensor, Faithful
  <1>3. out = side
    <2>1. SamePadding(kernel) = IF kernel = 1 THEN 0 ELSE 1
      BY DEF SamePadding
    <2>2. \A x \in Int : x \div 1 = x
      OBVIOUS
    <2>3. side + 2 * SamePadding(kernel) - (kernel - 1) - 1 = side - 1
      BY <2>1
    <2> QED
      BY <2>2, <2>3 DEF OutputSize
  <1> HIDE DEF n, out
  <1>4. (n \div (side * side)) * side * side = n
    <2>1. CASE side = 1
      BY <1>1, <1>2, <2>1
    <2>2. CASE side = 2
      <3>1. n % 4 = 0
        BY <1>1, <2>2
      <3>2. (n \div 4) * 2 * 2 = n
        BY <1>2, <3>1
      <3> QED
        BY <2>2, <3>2
    <2> QED
      BY <2>1, <2>2
  <1>5. pixels = n
    BY <1>2, <1>3, <1>4 DEF n
  <1> HIDE DEF pixels
  <1>6. shape \in TensorShape /\ Len(shape) = 2 /\ 1 \in 0..(Len(shape) - 1)
    BY <1>2 DEF TensorShape
  <1> HIDE DEF shape
  <1>7. Faithful(Traced(shape, 1), Packed(shape, 1))
    BY <1>6, PackedFaithful
  <1>8. Traced(shape, -1) = Traced(shape, 1)
    BY <1>6, NoAxisIsNone DEF Traced, ToPos
  <1>9. Becomes(Traced(shape, 1), Packed(shape, 1))
    BY <1>1, <1>5, <1>8 DEF shape
  <1> QED
    BY <1>7, <1>9, BecomesFaithful

\* However operators are chained on whatever inputs, the shape and the packed
\* axis that are traced are those of the tensor the operators compute
\* (shape_tracing.py), as long as the axes reduced with keep_dim are counted
\* from the front, as infer_reduce_axis_output_shape puts a negative one back at
\* another place, and what is convolved is packed along its pixels, as
\* HomConv.infer_output_shape makes any packed axis the last one.
THEOREM TraceTrue ==
    KeptAxes \subseteq Nat /\ ConvAxes \subseteq {1} => (ShapeSpec => []TraceIsTrue)
  <1> SUFFICES ASSUME KeptAxes \subseteq Nat, ConvAxes \subseteq {1} PROVE ShapeSpec => []TraceIsTrue
    OBVIOUS
  <1>1. ASSUME ShapeInit PROVE ShapeInv
    <2>1. PICK s \in Inputs, t \in Others, n \in InternalNs :
              \E a \in Declarable(s, n), b \in Declarable(t, n) : value = Input(s, a, n) /\ param = Input(t, b, n)
      BY <1>1 DEF ShapeInit
    <2>2. PICK a \in Declarable(s, n), b \in Declarable(t, n) : value = Input(s, a, n) /\ param = Input(t, b, n)
      BY <2>1
    <2>3. s \in TensorShape /\ t \in TensorShape /\ n \in (Nat \ {0}) \cup {Absent}
      BY DeclaredShapes, ShapeAssumption
    <2>4. /\ Faithful(Input(s, a, n).trace, Input(s, a, n).clear)
          /\ Faithful(Input(t, b, n).trace, Input(t, b, n).clear)
      BY <2>3, InputFaithful
    <2> QED
      BY <2>2, <2>4 DEF ShapeInv
  <1>2. ASSUME ShapeInv, [ShapeNext]_shapeVars PROVE ShapeInv'
    <2>1. CASE UNCHANGED shapeVars
      BY <1>2, <2>1 DEF ShapeInv, shapeVars
    <2>2. ASSUME NEW dims \in Admitted, Reshape(dims) PROVE ShapeInv'
      BY <1>2, <2>2, ReshapeKeeps
    <2>3. ASSUME NEW dim, Unsqueeze(dim) \/ Squeeze(dim) \/ AxisSum(dim, FALSE) PROVE ShapeInv'
      BY <1>2, <2>3, UnsqueezeKeeps, SqueezeKeeps, AxisSumKeeps
    <2>4. ASSUME NEW dim \in KeptAxes, AxisSum(dim, TRUE) PROVE ShapeInv'
      <3>1. dim >= 0
        OBVIOUS
      <3> QED
        BY <1>2, <2>4, <3>1, AxisSumKeeps
    <2>5. ASSUME NEW key \in Keys, GetItem(key) PROVE ShapeInv'
      BY <1>2, <2>5, GetItemKeeps
    <2>6. ASSUME NEW dims \in Weights, Const(dims) PROVE ShapeInv'
      BY <1>2, <2>6, ConstKeeps
    <2>7. CASE Add(value, param) \/ Add(param, value)
      <3>1. Faithful(value.trace, value.clear) /\ Faithful(param.trace, param.clear)
        BY <1>2 DEF ShapeInv
      <3> QED
        BY <1>2, <2>7, <3>1, AddKeeps
    <2>8. ASSUME NEW dim, MulSum(value, param, dim, FALSE) PROVE ShapeInv'
      BY <1>2, <2>8, MulSumKeeps
    <2>9. ASSUME NEW dim \in KeptAxes, MulSum(value, param, dim, TRUE) PROVE ShapeInv'
      <3>1. dim >= 0
        OBVIOUS
      <3> QED
        BY <1>2, <2>9, <3>1, MulSumKeeps
    <2>10. ASSUME NEW sum \in BOOLEAN, RotateSum(2, sum) PROVE ShapeInv'
      BY <1>2, <2>10, RotateSumKeeps
    <2>11. ASSUME NEW dims \in Weights, NEW mul, NEW new \in NewAxes, MatMul(dims, mul, new) PROVE ShapeInv'
      BY <1>2, <2>11, MatMulKeeps
    <2>12. ASSUME NEW dims \in Weights, NEW mul, Linear(dims, mul) PROVE ShapeInv'
      BY <1>2, <2>12, LinearKeeps
    <2>13. ASSUME NEW channels \in 1..2, NEW kernel \in {1, 3}, NEW side \in 1..2, Conv(channels, kernel, side)
           PROVE  ShapeInv'
      BY <1>2, <2>13, ConvKeeps
    <2> QED
      BY <1>2, <2>1, <2>2, <2>3, <2>4, <2>5, <2>6, <2>7, <2>8, <2>9, <2>10, <2>11, <2>12, <2>13 DEF ShapeNext
  <1>3. ASSUME ShapeInv PROVE TraceIsTrue
    <2>1. Faithful(traced, tensor)
      BY <1>3 DEF ShapeInv, traced, tensor
    <2> QED
      BY <2>1 DEF TraceIsTrue, Faithful, LiesAlong, At
  <1> QED
    BY <1>1, <1>2, <1>3, PTL DEF ShapeSpec
=============================================================================
