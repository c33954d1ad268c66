----------------------- MODULE PipelineGraph_proofs ------------------------
(* Theorems about PipelineGraph, for any application.                        *)
EXTENDS PipelineGraph, FiniteSetTheorems, SequenceTheorems, WellFoundedInduction, TLAPS

-----------------------------------------------------------------------------
(* Sequences, whatever their elements. *)

IsSequence(s) == s \in Seq(Range(s))

LEMMA SequenceIs ==
    ASSUME NEW s, IsSequence(s)
    PROVE  Len(s) \in Nat /\ DOMAIN s = 1..Len(s) /\ s = [i \in 1..Len(s) |-> s[i]]
  BY LenProperties DEF IsSequence

LEMMA MakesSequence ==
    ASSUME NEW n \in Nat, NEW s, s = [i \in 1..n |-> s[i]]
    PROVE  IsSequence(s) /\ Len(s) = n
  <1>1. s \in [1..n -> Range(s)]
    BY DEF Range
  <1>2. s \in Seq(Range(s))
    BY <1>1, SeqDef
  <1> QED
    BY <1>1, <1>2, LenProperties DEF IsSequence

LEMMA Appended ==
    ASSUME NEW s, IsSequence(s), NEW e
    PROVE  LET t == Append(s, e) IN
           /\ IsSequence(t) /\ Len(t) = Len(s) + 1
           /\ \A i \in 1..Len(s) : t[i] = s[i]
           /\ t[Len(s) + 1] = e
  <1> DEFINE S == Range(s) \cup {e}
  <1>1. s \in Seq(S) /\ e \in S
    BY SeqMonotonic DEF IsSequence
  <1> HIDE DEF S
  <1>2. Append(s, e) \in Seq(S)
    BY <1>1, AppendProperties
  <1>3. /\ Len(Append(s, e)) = Len(s) + 1
        /\ \A i \in 1..Len(s) : Append(s, e)[i] = s[i]
        /\ Append(s, e)[Len(s) + 1] = e
    BY <1>1, AppendProperties
  <1>4. IsSequence(Append(s, e))
    BY <1>2, SeqOfRange DEF IsSequence
  <1> QED
    BY <1>3, <1>4

LEMMA Shortened ==
    ASSUME NEW s, IsSequence(s), NEW n \in Nat, n <= Len(s)
    PROVE  LET t == SubSeq(s, 1, n) IN
           IsSequence(t) /\ Len(t) = n /\ \A i \in 1..n : t[i] = s[i]
  <1>1. s \in Seq(Range(s))
    BY DEF IsSequence
  <1>2. /\ SubSeq(s, 1, n) \in Seq(Range(s)) /\ Len(SubSeq(s, 1, n)) = n
        /\ \A i \in 1..n : SubSeq(s, 1, n)[i] = s[i]
    BY <1>1
  <1> QED
    BY <1>2, SeqOfRange DEF IsSequence

LEMMA Updated ==
    ASSUME NEW s, IsSequence(s), NEW k, NEW e
    PROVE  LET t == [s EXCEPT ![k] = e] IN
           /\ IsSequence(t) /\ Len(t) = Len(s)
           /\ \A i \in 1..Len(s) : t[i] = IF i = k THEN e ELSE s[i]
  <1> DEFINE t == [s EXCEPT ![k] = e]
  <1>1. Len(s) \in Nat /\ s = [i \in 1..Len(s) |-> s[i]]
    BY SequenceIs
  <1>2. t = [i \in 1..Len(s) |-> t[i]] /\ \A i \in 1..Len(s) : t[i] = IF i = k THEN e ELSE s[i]
    BY <1>1
  <1> HIDE DEF t
  <1>3. IsSequence(t) /\ Len(t) = Len(s)
    BY <1>1, <1>2, MakesSequence
  <1> QED
    BY <1>2, <1>3 DEF t

LEMMA SingleSequence ==
    ASSUME NEW e
    PROVE  IsSequence(<<e>>) /\ Len(<<e>>) = 1 /\ <<e>>[1] = e
  <1>1. <<e>> = [i \in 1..1 |-> <<e>>[i]]
    OBVIOUS
  <1> QED
    BY <1>1, MakesSequence

LEMMA EmptySequence == IsSequence(<<>>) /\ Len(<<>>) = 0
  BY EmptySeq DEF IsSequence

LEMMA LeastNat ==
    ASSUME NEW T \in SUBSET Nat, T # {}
    PROVE  \E n \in T : \A m \in T : n <= m
  <1>1. IsWellFoundedOn(OpToRel(<, Nat), Nat)
    BY NatLessThanWellFounded
  <1>2. PICK n \in T : \A m \in T : ~(<<m, n>> \in OpToRel(<, Nat))
    BY <1>1, WFMin
  <1>3. \A m \in T : ~(m < n)
    BY <1>2 DEF OpToRel
  <1> QED
    BY <1>3

\* Induction, over a set: the induction theorems of the library are about operators.
LEMMA NatSetInduction ==
    ASSUME NEW T, 0 \in T, \A n \in Nat : n \in T => n + 1 \in T
    PROVE  Nat \subseteq T
  <1>1. SUFFICES ASSUME Nat \ T # {} PROVE FALSE
    OBVIOUS
  <1>2. PICK n \in Nat \ T : \A m \in Nat \ T : n <= m
    BY <1>1, LeastNat
  <1>3. n # 0 /\ n - 1 \in Nat
    BY <1>2
  <1>4. n - 1 \in T
    BY <1>2, <1>3
  <1> QED
    BY <1>2, <1>3, <1>4

\* The greatest of some of 1..k.
LEMMA MaxOfSome ==
    ASSUME NEW k \in Nat, NEW t \in SUBSET (1..k), t # {}
    PROVE  Max(t) \in t /\ \A x \in t : x <= Max(t)
  <1> DEFINE T == {n \in Nat : k - n \in t}
  <1>1. PICK x \in t : TRUE
    OBVIOUS
  <1>2. x \in 1..k /\ k - x \in Nat /\ k - (k - x) = x
    OBVIOUS
  <1>3. k - x \in T
    BY <1>1, <1>2
  <1>4. PICK n \in T : \A m \in T : n <= m
    <2>1. T \in SUBSET Nat /\ T # {}
      BY <1>3
    <2> HIDE DEF T
    <2> QED
      BY <2>1, LeastNat
  <1>5. k - n \in t
    BY <1>4
  <1>6. ASSUME NEW y \in t PROVE y <= k - n
    <2>1. y \in 1..k /\ k - y \in Nat /\ k - (k - y) = y /\ n \in Nat
      BY <1>4
    <2>2. k - y \in T
      BY <2>1
    <2> QED
      BY <1>4, <2>1, <2>2
  <1> QED
    BY <1>5, <1>6 DEF Max

\* The first place of a value in a sequence.
Position(s, e) == SelectInSeq(s, LAMBDA x : x = e)

LEMMA PositionIs ==
    ASSUME NEW s, IsSequence(s), NEW e, NEW k \in 1..Len(s), s[k] = e
    PROVE  Position(s, e) \in 1..Len(s) /\ s[Position(s, e)] = e
  <1> DEFINE I == {i \in 1..Len(s) : s[i] = e}
  <1>1. I \in SUBSET Nat /\ I # {}
    BY SequenceIs
  <1>2. PICK n \in I : \A i \in I : n <= i
    <2> HIDE DEF I
    <2> QED
      BY <1>1, LeastNat
  <1>3. Position(s, e) = Min(I)
    BY <1>1 DEF Position, SelectInSeq
  <1>4. Min(I) \in I
    BY <1>2 DEF Min
  <1> QED
    BY <1>3, <1>4

-----------------------------------------------------------------------------
(* The tensor registry. *)

\* A fold by Kept goes through the tensors one by one.
AllKept(reg, ts) == FoldLeft(Kept, reg, ts)
Steps(g, reg, ts) == g[0] = reg /\ \A k \in 1..Len(ts) : g[k] = Kept(g[k - 1], ts[k])

LEMMA FoldSteps ==
    ASSUME NEW s, IsSequence(s), NEW base
    PROVE  \E g : Steps(g, base, s) /\ g[Len(s)] = AllKept(base, s)
  <1> DEFINE n == Len(s)
             Iter(f, k) == f = [t \in SUBSET (1..k) |->
                 IF t = {} THEN base ELSE Kept(f[t \ {Max(t)}], s[Max(t)])]
             K == {k \in Nat : \E f : Iter(f, k)}
             iter == CHOOSE f : Iter(f, n)
  <1>0. n \in Nat /\ DOMAIN s = 1..n
    BY SequenceIs
  <1>1. 0 \in K
    <2> DEFINE f == [t \in SUBSET (1..0) |-> base]
    <2>1. \A t \in SUBSET (1..0) : t = {}
      OBVIOUS
    <2>2. Iter(f, 0)
      BY <2>1
    <2> QED
      BY <2>2
  <1>2. ASSUME NEW k \in Nat, k \in K PROVE k + 1 \in K
    <2>1. PICK f : Iter(f, k)
      BY <1>2
    <2> DEFINE g == [t \in SUBSET (1..(k + 1)) |->
                        IF k + 1 \in t THEN Kept(f[t \ {k + 1}], s[k + 1]) ELSE f[t]]
    <2>2. ASSUME NEW t \in SUBSET (1..(k + 1))
          PROVE  g[t] = IF t = {} THEN base ELSE Kept(g[t \ {Max(t)}], s[Max(t)])
      <3>1. CASE k + 1 \in t
        <4>1. Max(t) = k + 1
          <5>1. k + 1 \in Nat /\ t # {} /\ \A x \in t : x <= k + 1
            BY <3>1
          <5>2. Max(t) \in t /\ \A x \in t : x <= Max(t)
            BY <5>1, MaxOfSome
          <5>3. Max(t) \in 1..(k + 1)
            BY <5>2
          <5> QED
            BY <3>1, <5>1, <5>2, <5>3
        <4>2. t \ {k + 1} \in SUBSET (1..(k + 1)) /\ k + 1 \notin t \ {k + 1}
          OBVIOUS
        <4>3. g[t \ {k + 1}] = f[t \ {k + 1}]
          BY <4>2
        <4> QED
          BY <3>1, <4>1, <4>3
      <3>2. CASE k + 1 \notin t
        <4>1. t \in SUBSET (1..k)
          BY <3>2
        <4>2. f[t] = IF t = {} THEN base ELSE Kept(f[t \ {Max(t)}], s[Max(t)])
          BY <2>1, <4>1
        <4>3. g[t] = f[t] /\ g[t \ {Max(t)}] = f[t \ {Max(t)}]
          <5>1. t \ {Max(t)} \in SUBSET (1..(k + 1)) /\ k + 1 \notin t \ {Max(t)}
            BY <3>2
          <5> QED
            BY <3>2, <5>1
        <4> HIDE DEF g
        <4> QED
          BY <4>2, <4>3
      <3> QED
        BY <3>1, <3>2
    <2>3. g = [t \in SUBSET (1..(k + 1)) |-> IF t = {} THEN base ELSE Kept(g[t \ {Max(t)}], s[Max(t)])]
      <3>1. g = [t \in SUBSET (1..(k + 1)) |-> g[t]]
        OBVIOUS
      <3> HIDE DEF g
      <3> QED
        BY <2>2, <3>1
    <2>4. Iter(g, k + 1)
      <3> HIDE DEF g
      <3> QED
        BY <2>3
    <2> HIDE DEF g, Iter
    <2>5. k + 1 \in Nat
      OBVIOUS
    <2> QED
      BY <2>4, <2>5
  <1>3. Iter(iter, n)
    <2> HIDE DEF Iter, n
    <2>1. Nat \subseteq K
      <3> HIDE DEF K
      <3> QED
        BY <1>1, <1>2, NatSetInduction
    <2> QED
      BY <1>0, <2>1
  <1>4. AllKept(base, s) = iter[1..n]
    BY <1>0 DEF AllKept, FoldLeft, MapThenFoldSet
  <1> DEFINE g == [k \in 0..n |-> iter[1..k]]
  <1> HIDE DEF iter, n
  <1>5. g[0] = base
    <2>1. 1..0 = {} /\ {} \in SUBSET (1..n) /\ 0 \in 0..n
      BY <1>0
    <2>2. iter = [t \in SUBSET (1..n) |-> IF t = {} THEN base ELSE Kept(iter[t \ {Max(t)}], s[Max(t)])]
      BY <1>3
    <2>3. iter[1..0] = base
      BY <2>1, <2>2
    <2> QED
      BY <2>1, <2>3
  <1>6. ASSUME NEW k \in 1..n PROVE g[k] = Kept(g[k - 1], s[k])
    <2>0. n \in Nat
      BY <1>0
    <2>1. 1..k \in SUBSET (1..n) /\ 1..k # {} /\ k \in 1..k /\ \A x \in 1..k : x <= k
      BY <2>0
    <2>2. Max(1..k) = k
      <3>1. Max(1..k) \in 1..k /\ \A x \in 1..k : x <= Max(1..k)
        BY <1>0, <2>1, MaxOfSome
      <3> QED
        BY <1>0, <2>1, <3>1
    <2>3. (1..k) \ {k} = 1..(k - 1)
      BY <1>0
    <2>4. iter[1..k] = Kept(iter[1..(k - 1)], s[k])
      BY <1>3, <2>1, <2>2, <2>3
    <2> QED
      BY <1>0, <2>4
  <1>7. g[n] = AllKept(base, s)
    BY <1>0, <1>4
  <1>8. Steps(g, base, s)
    <2> HIDE DEF g
    <2> QED
      BY <1>5, <1>6 DEF Steps, n
  <1> HIDE DEF g
  <1> QED
    BY <1>7, <1>8 DEF n


\* The tensor of a leaf: its i-th one, in memory of its own or that it was given in.
Tensor(l, i) ==
    [op |-> l, item |-> i, memory |-> IF Data[l][i] \in Wide THEN <<Data[l][i]>> ELSE <<l, i>>]
IsTensor(t) == \E l \in Leaf : \E i \in DOMAIN Data[l] : t = Tensor(l, i)

\* Tensors, none of them twice.
Registry(reg) ==
    /\ IsSequence(reg) /\ \A i \in 1..Len(reg) : IsTensor(reg[i])
    /\ \A i, j \in 1..Len(reg) : i # j => reg[i] # reg[j]

\* What is stored keeps its ref.
Extends(reg, more) == Len(reg) <= Len(more) /\ \A i \in 1..Len(reg) : more[i] = reg[i]

LEMMA KeptIsStored ==
    ASSUME NEW reg, Registry(reg), NEW t, IsTensor(t)
    PROVE  Registry(Kept(reg, t)) /\ Extends(reg, Kept(reg, t)) /\ Contains(Kept(reg, t), t)
  <1>1. Len(reg) \in Nat
    BY SequenceIs DEF Registry
  <1>2. CASE Contains(reg, t)
    BY <1>1, <1>2 DEF Kept, Extends
  <1>3. CASE ~Contains(reg, t)
    <2> DEFINE new == Append(reg, t)
    <2>1. /\ IsSequence(new) /\ Len(new) = Len(reg) + 1 /\ new[Len(reg) + 1] = t
          /\ \A i \in 1..Len(reg) : new[i] = reg[i]
      BY Appended DEF Registry
    <2> HIDE DEF new
    <2>2. \A i \in 1..Len(new) : i \in 1..Len(reg) \/ i = Len(reg) + 1
      BY <1>1, <2>1
    <2>3. Registry(new)
      BY <1>3, <2>1, <2>2 DEF Registry, Contains
    <2>4. Extends(reg, new)
      BY <1>1, <2>1 DEF Extends
    <2>5. Contains(new, t)
      BY <1>1, <2>1 DEF Contains
    <2> QED
      BY <1>3, <2>3, <2>4, <2>5 DEF Kept, new
  <1> QED
    BY <1>2, <1>3

LEMMA ExtendsOn ==
    ASSUME NEW a, NEW b, NEW c, Registry(a), Registry(b), Registry(c), Extends(a, b), Extends(b, c)
    PROVE  Extends(a, c)
  <1>1. Len(a) \in Nat /\ Len(b) \in Nat /\ Len(c) \in Nat
    BY SequenceIs DEF Registry
  <1> QED
    BY <1>1 DEF Extends

LEMMA ExtendsContains ==
    ASSUME NEW a, NEW b, Registry(a), Registry(b), Extends(a, b), NEW t, Contains(a, t)
    PROVE  Contains(b, t)
  <1>1. Len(a) \in Nat /\ Len(b) \in Nat
    BY SequenceIs DEF Registry
  <1> QED
    BY <1>1 DEF Extends, Contains

LEMMA AllAreStored ==
    ASSUME NEW reg, Registry(reg), NEW ts, IsSequence(ts), \A i \in 1..Len(ts) : IsTensor(ts[i])
    PROVE  LET new == AllKept(reg, ts) IN
           Registry(new) /\ Extends(reg, new) /\ \A i \in 1..Len(ts) : Contains(new, ts[i])
  <1>1. PICK g : Steps(g, reg, ts) /\ g[Len(ts)] = AllKept(reg, ts)
    BY FoldSteps
  <1>2. g[0] = reg /\ \A k \in 1..Len(ts) : g[k] = Kept(g[k - 1], ts[k])
    BY <1>1 DEF Steps
  <1>3. Len(ts) \in Nat
    BY SequenceIs
  <1> DEFINE K == {k \in Nat : k <= Len(ts) =>
                       /\ Registry(g[k]) /\ Extends(reg, g[k])
                       /\ \A i \in 1..k : Contains(g[k], ts[i])}
  <1>4. 0 \in K
    <2>1. Extends(reg, reg)
      BY SequenceIs DEF Registry, Extends
    <2> QED
      BY <1>2, <2>1
  <1>5. ASSUME NEW k \in Nat, k \in K PROVE k + 1 \in K
    <2>1. CASE k + 1 <= Len(ts)
      <3>1. k <= Len(ts) /\ k + 1 \in 1..Len(ts) /\ (k + 1) - 1 = k
        BY <1>3, <2>1
      <3>2. Registry(g[k]) /\ Extends(reg, g[k]) /\ \A i \in 1..k : Contains(g[k], ts[i])
        BY <1>5, <3>1
      <3>3. g[k + 1] = Kept(g[k], ts[k + 1]) /\ IsTensor(ts[k + 1])
        BY <1>2, <3>1
      <3>4. Registry(g[k + 1]) /\ Extends(g[k], g[k + 1]) /\ Contains(g[k + 1], ts[k + 1])
        BY <3>2, <3>3, KeptIsStored
      <3>5. Extends(reg, g[k + 1])
        BY <3>2, <3>4, ExtendsOn
      <3>6. \A i \in 1..k : Contains(g[k + 1], ts[i])
        BY <3>2, <3>4, ExtendsContains
      <3>7. \A i \in 1..(k + 1) : i \in 1..k \/ i = k + 1
        OBVIOUS
      <3> QED
        BY <3>4, <3>5, <3>6, <3>7
    <2>2. CASE ~(k + 1 <= Len(ts))
      BY <2>2
    <2> QED
      BY <2>1, <2>2
  <1>6. Len(ts) \in K
    <2> HIDE DEF K
    <2>1. Nat \subseteq K
      BY <1>4, <1>5, NatSetInduction
    <2> QED
      BY <1>3, <2>1
  <1> QED
    BY <1>1, <1>3, <1>6

LEMMA ConvertedIs ==
    ASSUME NEW l \in Leaf
    PROVE  /\ IsSequence(Converted(l)) /\ DOMAIN Converted(l) = DOMAIN Data[l]
           /\ \A i \in DOMAIN Data[l] : Converted(l)[i] = Tensor(l, i)
           /\ DOMAIN Data[l] = 1..Len(Converted(l))
  <1> DEFINE n == Len(Data[l])
  <1>1. n \in Nat /\ DOMAIN Data[l] = 1..n
    BY GraphAssumption, LenProperties
  <1>2. Converted(l) = [i \in 1..n |-> Tensor(l, i)]
    BY <1>1 DEF Converted, Tensor
  <1>3. Converted(l) = [i \in 1..n |-> Converted(l)[i]]
    BY <1>2
  <1>4. IsSequence(Converted(l)) /\ Len(Converted(l)) = n
    BY <1>1, <1>3, MakesSequence
  <1> QED
    BY <1>1, <1>2, <1>4

\* The tensors of a leaf are stored, and their refs find them.
LEMMA LeafStored ==
    ASSUME Registry(stored), NEW l \in Leaf
    PROVE  LET new == Registered(Converted(l)) IN
           /\ Registry(new) /\ Extends(stored, new)
           /\ \A i \in DOMAIN Data[l] :
                  Ref(new, Converted(l)[i]) \in 1..Len(new) /\ new[Ref(new, Converted(l)[i])] = Tensor(l, i)
  <1> DEFINE ts == Converted(l)
             new == Registered(ts)
  <1>1. \A i \in 1..Len(ts) : IsTensor(ts[i])
    BY ConvertedIs DEF IsTensor
  <1>2. new = AllKept(stored, ts)
    BY DEF Registered, AllKept
  <1>3. Registry(new) /\ Extends(stored, new) /\ \A i \in 1..Len(ts) : Contains(new, ts[i])
    BY <1>1, <1>2, ConvertedIs, AllAreStored
  <1> HIDE DEF new
  <1>4. ASSUME NEW i \in DOMAIN Data[l]
        PROVE  Ref(new, ts[i]) \in 1..Len(new) /\ new[Ref(new, ts[i])] = Tensor(l, i)
    <2>1. i \in 1..Len(ts) /\ ts[i] = Tensor(l, i)
      BY ConvertedIs
    <2> HIDE DEF ts
    <2>2. PICK k \in 1..Len(new) : new[k] = ts[i]
      BY <1>3, <2>1 DEF Contains
    <2>3. Position(new, ts[i]) \in 1..Len(new) /\ new[Position(new, ts[i])] = ts[i]
      BY <1>3, <2>2, PositionIs DEF Registry
    <2> QED
      BY <2>1, <2>3 DEF Ref, Position
  <1> QED
    BY <1>3, <1>4 DEF new

LEMMA StepRegisters == ASSUME Registry(stored), [Next]_vars PROVE Registry(stored)'
  <1>1. CASE CallLeaf
    <2>1. stored' = stored \/ \E l \in Leaf : stored' = Registered(Converted(l))
      BY <1>1 DEF CallLeaf
    <2> QED
      BY <2>1, LeafStored
  <1>2. CASE UNCHANGED stored
    BY <1>2
  <1> QED
    BY <1>1, <1>2 DEF Next, vars, CallBlock, ReturnBlock, ReturnSection, Run, InRun, RunLeaf, RunBlock,
       RunReturn, PrintHeader, PrintSections, InPrint, PrintLeaf, PrintBlock, PrintBlockEnd, PrintSectionEnd

\* A tensor that needs no conversion is given to one operator, and once.
TensorsApart ==
    \A l, m \in Leaf : \A i \in DOMAIN Data[l], j \in DOMAIN Data[m] :
        Data[l][i] \in Wide /\ Data[l][i] = Data[m][j] => l = m /\ i = j

\* The registry has every tensor once: no entries share memory, however often and
\* in however many sections the operators of a tensor are applied, unless the
\* application gives two of them one float64 or complex128 tensor
\* (hom_op_tracer.py: _register_tensor; hom_op.py: _set_data_here).
THEOREM OneEntryPerMemory == ASSUME TensorsApart PROVE Spec => []NoSharedMemory
  <1>1. Init => Registry(stored)
    BY EmptySequence DEF Init, Registry
  <1>2. Registry(stored) /\ [Next]_vars => Registry(stored)'
    BY StepRegisters
  <1>3. Registry(stored) => NoSharedMemory
    <2>1. SUFFICES ASSUME Registry(stored), NEW i \in DOMAIN stored, NEW j \in DOMAIN stored, i # j
                   PROVE  stored[i].memory # stored[j].memory
      BY DEF NoSharedMemory
    <2>2. i \in 1..Len(stored) /\ j \in 1..Len(stored)
      BY <2>1, SequenceIs DEF Registry
    <2>3. PICK l \in Leaf : \E p \in DOMAIN Data[l] : stored[i] = Tensor(l, p)
      BY <2>1, <2>2 DEF Registry, IsTensor
    <2>4. PICK p \in DOMAIN Data[l] : stored[i] = Tensor(l, p)
      BY <2>3
    <2>5. PICK m \in Leaf : \E q \in DOMAIN Data[m] : stored[j] = Tensor(m, q)
      BY <2>1, <2>2 DEF Registry, IsTensor
    <2>6. PICK q \in DOMAIN Data[m] : stored[j] = Tensor(m, q)
      BY <2>5
    <2>7. ~(l = m /\ p = q)
      BY <2>1, <2>2, <2>4, <2>6 DEF Registry
    <2>8. CASE Data[l][p] \in Wide /\ Data[m][q] \in Wide
      BY <2>4, <2>6, <2>7, <2>8 DEF Tensor, TensorsApart
    <2>9. CASE Data[l][p] \notin Wide /\ Data[m][q] \notin Wide
      BY <2>4, <2>6, <2>7, <2>9 DEF Tensor
    <2>10. \A x, y, z : <<x>> # <<y, z>>
      OBVIOUS
    <2>11. CASE (Data[l][p] \in Wide) # (Data[m][q] \in Wide)
      BY <2>4, <2>6, <2>10, <2>11 DEF Tensor
    <2> QED
      BY <2>8, <2>9, <2>11
  <1> QED
    BY <1>1, <1>2, <1>3, PTL DEF Spec

-----------------------------------------------------------------------------
(* Operations and the values of their scopes. *)

IsValue(v) == v = Value(v.id, v.term, v.maker)

LEMMA ValueFields ==
    ASSUME NEW id, NEW term, NEW maker
    PROVE  LET v == Value(id, term, maker) IN
           v.id = id /\ v.term = term /\ v.maker = maker /\ IsValue(v)
  BY DEF Value, IsValue

IsOp(o) ==
    o = [op |-> o.op, data |-> o.data, given |-> o.given, inputs |-> o.inputs, output |-> o.output,
         names |-> o.names, body |-> o.body, ops |-> o.ops, last |-> o.last]

\* The values of a scope: what its operator was given under the scope's names,
\* and what its operations put out.
Size(o) == Len(o.given) + Len(o.ops)
IdAt(o, i) == IF i <= Len(o.given) THEN o.names[i] ELSE o.ops[i - Len(o.given)].output.id
TermAt(o, i) == IF i <= Len(o.given) THEN o.given[i].term ELSE o.ops[i - Len(o.given)].output.term
MakerAt(o, path, i) ==
    IF i <= Len(o.given) THEN o.given[i].maker ELSE Append(path, i - Len(o.given) - 1)
ValueAt(o, path, i) == Value(IdAt(o, i), TermAt(o, i), MakerAt(o, path, i))

\* A recorded leaf: its refs find its tensors, its output is what it computes.
LeafIs(c, reg) ==
    /\ c.op \in Leaf /\ DOMAIN c.data = DOMAIN Data[c.op]
    /\ \A i \in DOMAIN c.data :
           c.data[i] \in 1..Len(reg) /\ reg[c.data[i]].op = c.op /\ reg[c.data[i]].item = i
    /\ c.output.term = <<c.op, Data[c.op], Terms(c.given)>>

\* Without the flags it gets when its scope is closed.
Bare(o) == [o EXCEPT !.last = <<>>]

\* The j-th operation of a scope was called on values that were there before; the
\* nested operators and their places are in G.
Recorded(o, path, j, reg, G) ==
    LET c == o.ops[j] IN
    /\ IsOp(c) /\ IsSequence(c.given) /\ c.inputs = Ids(c.given)
    /\ \E n \in DOMAIN Local : c.output = [id |-> Local[n], term |-> c.output.term]
    /\ \A p \in 1..Len(c.given) :
           \E i \in 1..(Len(o.given) + j - 1) : c.given[p] = ValueAt(o, path, i)
    /\ c.op # None => LeafIs(c, reg)
    /\ c.op = None => c.output.term = c.body.term /\ <<Bare(c), Append(path, j - 1)>> \in G

\* No two values of a scope have one id.
Scoped(o, path, reg, G) ==
    /\ IsSequence(o.names) /\ IsSequence(o.given) /\ IsSequence(o.ops)
    /\ Len(o.names) = Len(o.given) /\ 0 < Len(o.given)
    /\ \A i \in 1..Len(o.given) : IsValue(o.given[i])
    /\ \A i, j \in 1..Size(o) : i # j => IdAt(o, i) # IdAt(o, j)
    /\ \A j \in 1..Len(o.ops) : Recorded(o, path, j, reg, G)

\* A nested operator that is recorded whole.
Good(o, path, reg, G) ==
    /\ IsOp(o) /\ o.op = None /\ Scoped(o, path, reg, G)
    /\ \E i \in 1..Size(o) : o.body = Info(ValueAt(o, path, i))
    /\ \A j \in 1..Len(o.ops) : o.ops[j].last = LastUses(o.ops)[j]

\* The operators of G are recorded whole, to any depth: their own are in G.
Closed(G, reg) == \A o, path : <<o, path>> \in G => Good(o, path, reg, G)

LEMMA NatSum ==
    ASSUME NEW a \in Nat, NEW b \in Nat
    PROVE  /\ a + b \in Nat /\ (0 < a => a \in Nat \ {0} /\ a + b \in Nat \ {0})
           /\ a \in Nat \ {0} => a + b \in Nat \ {0}
  OBVIOUS

LEMMA ScopedLengths ==
    ASSUME NEW o, NEW path, NEW reg, NEW G, Scoped(o, path, reg, G)
    PROVE  Len(o.given) \in Nat \ {0} /\ Len(o.ops) \in Nat /\ Size(o) \in Nat
  <1>1. Len(o.given) \in Nat /\ Len(o.ops) \in Nat /\ 0 < Len(o.given)
    BY SequenceIs DEF Scoped
  <1> QED
    BY <1>1, NatSum DEF Size

\* More is stored and more operators are recorded.
LEMMA LeafStays ==
    ASSUME NEW c, NEW reg, NEW more, Registry(reg), Registry(more), Extends(reg, more), LeafIs(c, reg)
    PROVE  LeafIs(c, more)
  <1>1. Len(reg) \in Nat /\ Len(more) \in Nat
    BY SequenceIs DEF Registry
  <1> QED
    BY <1>1 DEF LeafIs, Extends

LEMMA ScopedStays ==
    ASSUME NEW o, NEW path, NEW reg, NEW more, NEW G, NEW H, Scoped(o, path, reg, G),
           Registry(reg), Registry(more), Extends(reg, more), G \subseteq H
    PROVE  Scoped(o, path, more, H)
  <1>1. ASSUME NEW j \in 1..Len(o.ops) PROVE Recorded(o, path, j, more, H)
    <2>1. Recorded(o, path, j, reg, G)
      BY DEF Scoped
    <2> QED
      BY <2>1, LeafStays DEF Recorded
  <1> QED
    BY <1>1 DEF Scoped

LEMMA GoodStays ==
    ASSUME NEW o, NEW path, NEW reg, NEW more, NEW G, NEW H, Good(o, path, reg, G),
           Registry(reg), Registry(more), Extends(reg, more), G \subseteq H
    PROVE  Good(o, path, more, H)
  <1>1. Scoped(o, path, more, H)
    BY ScopedStays DEF Good
  <1> QED
    BY <1>1 DEF Good

LEMMA ExtendsSelf == ASSUME NEW reg, Registry(reg) PROVE Extends(reg, reg)
  BY SequenceIs DEF Registry, Extends

-----------------------------------------------------------------------------
(* A scope that is traced. *)

IsFrame(f) == f = [block |-> f.block, path |-> f.path, given |-> f.given, ops |-> f.ops, vals |-> f.vals]

\* The operation a frame has recorded so far.
AsOp(f) ==
    [op |-> None, data |-> <<>>, given |-> f.given, inputs |-> Ids(f.given), output |-> None,
     names |-> Params[f.block], body |-> None, ops |-> f.ops, last |-> <<>>]

FrameGood(f, reg, G) ==
    /\ IsFrame(f) /\ f.block \in Block /\ Scoped(AsOp(f), f.path, reg, G)
    /\ f.vals = [i \in 1..Size(AsOp(f)) |-> ValueAt(AsOp(f), f.path, i)]
    /\ \A j \in 1..Len(f.ops) : f.ops[j].output.id = Local[j - 1]

\* The values a scope may call an operator on or return.
IsOf(v, f) == \E i \in 1..Len(f.vals) : v = f.vals[i]

LEMMA FrameFacts ==
    ASSUME NEW f, NEW reg, NEW G, FrameGood(f, reg, G)
    PROVE  /\ AsOp(f).given = f.given /\ AsOp(f).ops = f.ops /\ AsOp(f).names = Params[f.block]
           /\ IsSequence(f.given) /\ Len(f.given) \in Nat \ {0}
           /\ IsSequence(f.ops) /\ Len(f.ops) \in Nat
           /\ IsSequence(f.vals) /\ Len(f.vals) = Len(f.given) + Len(f.ops)
           /\ Size(AsOp(f)) = Len(f.vals) /\ Len(f.vals) \in Nat \ {0} /\ DOMAIN f.vals = 1..Len(f.vals)
           /\ \A i \in 1..Len(f.vals) : f.vals[i] = ValueAt(AsOp(f), f.path, i) /\ IsValue(f.vals[i])
  <1> DEFINE n == Size(AsOp(f))
  <1>1. AsOp(f).given = f.given /\ AsOp(f).ops = f.ops /\ AsOp(f).names = Params[f.block]
    BY DEF AsOp
  <1>2. /\ IsSequence(f.given) /\ Len(f.given) \in Nat \ {0}
        /\ IsSequence(f.ops) /\ Len(f.ops) \in Nat /\ n \in Nat /\ n = Len(f.given) + Len(f.ops)
    BY <1>1, ScopedLengths DEF FrameGood, Scoped, Size
  <1>3. f.vals = [i \in 1..n |-> ValueAt(AsOp(f), f.path, i)]
    BY DEF FrameGood
  <1>4. f.vals = [i \in 1..n |-> f.vals[i]] /\ \A i \in 1..n : f.vals[i] = ValueAt(AsOp(f), f.path, i)
    BY <1>3
  <1>5. IsSequence(f.vals) /\ Len(f.vals) = n
    BY <1>2, <1>4, MakesSequence
  <1>6. \A i \in 1..n : IsValue(f.vals[i])
    BY <1>4, ValueFields DEF ValueAt
  <1> HIDE DEF n
  <1>7. n = Size(AsOp(f))
    BY DEF n
  <1>8. Size(AsOp(f)) = Len(f.vals) /\ Len(f.vals) \in Nat \ {0} /\ DOMAIN f.vals = 1..Len(f.vals)
    <2>1. Len(f.given) + Len(f.ops) \in Nat \ {0}
      BY <1>2, NatSum
    <2> QED
      BY <1>2, <1>5, <1>7, <2>1, SequenceIs
  <1> QED
    BY <1>1, <1>2, <1>4, <1>5, <1>6, <1>7, <1>8

LEMMA NewFrame ==
    ASSUME NEW b \in Block, NEW path, NEW given, IsSequence(given), Len(given) = Len(Params[b]),
           \A i \in 1..Len(given) : IsValue(given[i]), NEW reg, NEW G
    PROVE  FrameGood(Frame(b, path, given), reg, G)
  <1> DEFINE f == Frame(b, path, given)
             o == AsOp(f)
             n == Len(given)
  <1>1. /\ f.block = b /\ f.path = path /\ f.given = given /\ f.ops = <<>> /\ IsFrame(f)
        /\ f.vals = [i \in DOMAIN given |-> Renamed(given[i], Params[b][i])]
    BY DEF Frame, IsFrame
  <1> HIDE DEF f
  <1>2. o.given = given /\ o.ops = <<>> /\ o.names = Params[b]
    BY <1>1 DEF AsOp
  <1>3. n \in Nat /\ 0 < n /\ DOMAIN given = 1..n /\ Len(<<>>) = 0
    BY SequenceIs, GraphAssumption, EmptySequence
  <1>4. IsSequence(Params[b])
    BY GraphAssumption, SeqOfRange DEF IsSequence
  <1> HIDE DEF o, n
  <1>5. Size(o) = n /\ n = Len(given)
    BY <1>2, <1>3 DEF Size, n
  <1>6. \A i \in 1..n : IdAt(o, i) = Params[b][i] /\ TermAt(o, i) = given[i].term
                        /\ MakerAt(o, path, i) = given[i].maker
    BY <1>2, <1>3, <1>5 DEF IdAt, TermAt, MakerAt
  <1>7. \A i \in 1..n : Renamed(given[i], Params[b][i]) = ValueAt(o, path, i)
    <2>1. SUFFICES ASSUME NEW i \in 1..n PROVE Renamed(given[i], Params[b][i]) = ValueAt(o, path, i)
      OBVIOUS
    <2>2. given[i] = [id |-> given[i].id, term |-> given[i].term, maker |-> given[i].maker]
      BY <1>5 DEF IsValue, Value
    <2> QED
      BY <1>6, <2>2 DEF Renamed, ValueAt, Value
  <1>8. DOMAIN Params[b] = 1..n
    BY <1>4, <1>5, SequenceIs
  <1>9. \A i, j \in 1..n : i # j => IdAt(o, i) # IdAt(o, j)
    <2>1. \A i, j \in 1..n : Params[b][i] = Params[b][j] => i = j
      BY <1>8, NamesAssumption
    <2> QED
      BY <1>6, <2>1
  <1>10. Scoped(o, path, reg, G)
    BY <1>2, <1>3, <1>4, <1>5, <1>9, EmptySequence DEF Scoped
  <1>11. f.vals = [i \in 1..Size(o) |-> ValueAt(o, path, i)]
    BY <1>1, <1>3, <1>5, <1>7
  <1> QED
    <2>1. \A j \in 1..Len(f.ops) : FALSE
      BY <1>1, <1>3
    <2>2. FrameGood(f, reg, G)
      BY <1>1, <1>10, <1>11, <2>1 DEF FrameGood, o
    <2> QED
      BY <2>2 DEF f

\* What an operation adds to its scope.
LEMMA CalledGood ==
    ASSUME NEW f, NEW reg, NEW G, FrameGood(f, reg, G), Len(f.ops) <= MaxOps,
           NEW c, IsOp(c), IsSequence(c.given), c.inputs = Ids(c.given),
           \A p \in 1..Len(c.given) : IsOf(c.given[p], f),
           NEW term, c.output = Info(Allocated(f, term)),
           c.op # None => LeafIs(c, reg),
           c.op = None => c.output.term = c.body.term /\ <<Bare(c), Place(f)>> \in G
    PROVE  FrameGood(Called(f, c, Allocated(f, term)), reg, G)
  <1> DEFINE out == Allocated(f, term)
             h == Called(f, c, out)
             o == AsOp(f)
             q == AsOp(h)
             m == Len(f.ops)
             n == Len(f.given)
  <1>1. out.id = Local[m] /\ out.term = term /\ out.maker = Append(f.path, m) /\ IsValue(out)
    BY DEF Allocated, Place, Value, IsValue
  <1>2. f = [block |-> f.block, path |-> f.path, given |-> f.given, ops |-> f.ops, vals |-> f.vals]
    BY DEF FrameGood, IsFrame
  <1>3. c.output.id = Local[m] /\ c.output.term = term
    BY <1>1 DEF Info
  <1> HIDE DEF out
  <1>4. /\ h.block = f.block /\ h.path = f.path /\ h.given = f.given
        /\ h.ops = Append(f.ops, c) /\ h.vals = Append(f.vals, out) /\ IsFrame(h)
    <2> DEFINE ops == Append(f.ops, c)
               h1 == [f EXCEPT !.ops = ops]
    <2>1. h1 = [block |-> f.block, path |-> f.path, given |-> f.given, ops |-> ops, vals |-> f.vals]
      <3> HIDE DEF ops
      <3> QED
        BY <1>2
    <2>2. h = [h1 EXCEPT !.vals = Append(f.vals, out)]
      BY <1>2 DEF Called
    <2> HIDE DEF h1
    <2>3. h = [block |-> f.block, path |-> f.path, given |-> f.given,
               ops |-> Append(f.ops, c), vals |-> Append(f.vals, out)]
      BY <2>1, <2>2
    <2> QED
      BY <2>3 DEF IsFrame
  <1> HIDE DEF h
  <1>5. /\ o.given = f.given /\ o.ops = f.ops /\ o.names = Params[f.block]
        /\ q.given = f.given /\ q.ops = h.ops /\ q.names = Params[f.block]
    BY <1>4 DEF AsOp
  <1>6. /\ n \in Nat \ {0} /\ m \in Nat /\ Size(o) = n + m /\ Len(f.vals) = n + m
        /\ IsSequence(f.ops) /\ IsSequence(f.vals)
        /\ \A i \in 1..(n + m) : f.vals[i] = ValueAt(o, f.path, i)
    BY FrameFacts
  <1>7. /\ IsSequence(h.ops) /\ Len(h.ops) = m + 1 /\ h.ops[m + 1] = c
        /\ \A j \in 1..m : h.ops[j] = f.ops[j]
        /\ IsSequence(h.vals) /\ Len(h.vals) = n + m + 1 /\ h.vals[n + m + 1] = out
        /\ \A j \in 1..(n + m) : h.vals[j] = f.vals[j]
    <2>1. m = Len(f.ops) /\ n + m = Len(f.vals)
      BY <1>6
    <2> HIDE DEF m, n
    <2> QED
      BY SMTT(30), <1>4, <1>6, <2>1, Appended
  <1>8. Size(q) = n + m + 1
    <2>1. n = Len(q.given) /\ m + 1 = Len(q.ops)
      BY <1>5, <1>7
    <2>2. Size(q) = n + (m + 1)
      BY <2>1 DEF Size
    <2> HIDE DEF m, n
    <2> QED
      BY <1>6, <2>2
  <1>9. \A i \in 1..(n + m) : IdAt(q, i) = IdAt(o, i) /\ ValueAt(q, f.path, i) = ValueAt(o, f.path, i)
    <2>1. SUFFICES ASSUME NEW i \in 1..(n + m)
                   PROVE  /\ IdAt(q, i) = IdAt(o, i) /\ TermAt(q, i) = TermAt(o, i)
                          /\ MakerAt(q, f.path, i) = MakerAt(o, f.path, i)
      BY DEF ValueAt
    <2>2. CASE i <= n
      BY <1>5, <2>2 DEF IdAt, TermAt, MakerAt
    <2>3. CASE ~(i <= n)
      <3>1. i - n \in 1..m
        <4> HIDE DEF m, n
        <4> QED
          BY <1>6, <2>3
      <3>2. q.ops[i - n] = o.ops[i - n]
        BY <1>5, <1>7, <3>1
      <3> HIDE DEF q, o, n
      <3>3. n = Len(q.given) /\ n = Len(o.given)
        BY <1>5 DEF n
      <3> QED
        BY <2>3, <3>2, <3>3 DEF IdAt, TermAt, MakerAt
    <2> QED
      BY <2>2, <2>3
  <1> HIDE DEF o, q, m, n
  <1>10. /\ IdAt(q, n + m + 1) = Local[m] /\ TermAt(q, n + m + 1) = term
         /\ MakerAt(q, f.path, n + m + 1) = Append(f.path, m)
    <2>1. ~(n + m + 1 <= n) /\ (n + m + 1) - n = m + 1 /\ (m + 1) - 1 = m /\ n = Len(q.given)
      BY <1>5, <1>6 DEF n
    <2>2. q.ops[(n + m + 1) - n].output = c.output
      BY <1>5, <1>7, <2>1
    <2> QED
      BY <1>3, <2>1, <2>2 DEF IdAt, TermAt, MakerAt
  <1>11. ValueAt(q, f.path, n + m + 1) = out
    BY <1>1, <1>10 DEF ValueAt, IsValue
  <1>12. h.vals = [i \in 1..Size(q) |-> ValueAt(q, f.path, i)]
    <2>1. \A i \in 1..(n + m + 1) : i \in 1..(n + m) \/ i = n + m + 1
      BY <1>6
    <2>2. \A i \in 1..(n + m + 1) : h.vals[i] = ValueAt(q, f.path, i)
      BY <1>6, <1>7, <1>9, <1>11, <2>1
    <2>3. h.vals = [i \in 1..(n + m + 1) |-> h.vals[i]]
      BY <1>7, SequenceIs
    <2> QED
      BY <1>8, <2>2, <2>3
  <1>13. \A j \in 1..(m + 1) : h.ops[j].output.id = Local[j - 1]
    <2>1. \A j \in 1..m : f.ops[j].output.id = Local[j - 1]
      BY DEF FrameGood, m
    <2>2. \A j \in 1..(m + 1) : j \in 1..m \/ (j = m + 1 /\ j - 1 = m)
      BY <1>6
    <2> QED
      BY <1>3, <1>7, <2>1, <2>2
  <1>14. Scoped(o, f.path, reg, G)
    BY DEF FrameGood, o
  <1>15. \A i, j \in 1..(n + m + 1) : i # j => IdAt(q, i) # IdAt(q, j)
    <2>1. ASSUME NEW i \in 1..(n + m) PROVE IdAt(q, i) # Local[m]
      <3>1. CASE i <= n
        <4>1. IdAt(q, i) = Params[f.block][i]
          BY <1>5, <3>1 DEF IdAt, n
        <4>2. i \in DOMAIN Params[f.block]
          <5>1. Len(Params[f.block]) = n /\ IsSequence(Params[f.block])
            BY <1>5, <1>14 DEF Scoped, n
          <5> QED
            BY <1>6, <3>1, <5>1, SequenceIs
        <4>3. m \in DOMAIN Local /\ f.block \in Block
          BY <1>6, GraphAssumption DEF FrameGood, m
        <4> QED
          BY <4>1, <4>2, <4>3, NamesAssumption
      <3>2. CASE ~(i <= n)
        <4>1. i - n \in 1..m /\ i - n - 1 \in 0..(m - 1)
          BY <1>6, <3>2
        <4>2. IdAt(q, i) = h.ops[i - n].output.id
          BY <1>5, <3>2 DEF IdAt, n
        <4>3. h.ops[i - n].output.id = Local[i - n - 1]
          BY <1>6, <1>13, <4>1
        <4>4. m \in DOMAIN Local /\ i - n - 1 \in DOMAIN Local /\ i - n - 1 # m
          BY <1>6, <4>1, GraphAssumption DEF m
        <4> QED
          BY <4>2, <4>3, <4>4, NamesAssumption
      <3> QED
        BY <3>1, <3>2
    <2>2. \A i, j \in 1..(n + m) : i # j => IdAt(q, i) # IdAt(q, j)
      BY <1>6, <1>9, <1>14 DEF Scoped
    <2>3. \A i \in 1..(n + m + 1) : i \in 1..(n + m) \/ i = n + m + 1
      BY <1>6
    <2> QED
      BY <1>10, <2>1, <2>2, <2>3
  <1>16. ASSUME NEW j \in 1..(m + 1) PROVE Recorded(q, f.path, j, reg, G)
    <2>1. CASE j \in 1..m
      <3>1. Recorded(o, f.path, j, reg, G)
        BY <1>5, <1>14, <2>1 DEF Scoped, m
      <3>2. q.ops[j] = o.ops[j] /\ Len(q.given) = Len(o.given)
        BY <1>5, <1>7, <2>1
      <3>3. \A i \in 1..(Len(o.given) + j - 1) : i \in 1..(n + m)
        BY <1>5, <1>6, <2>1 DEF n
      <3> QED
        BY <1>9, <3>1, <3>2, <3>3 DEF Recorded
    <2>2. CASE j \notin 1..m
      <3>1. j = m + 1 /\ j - 1 = m /\ q.ops[j] = c
        BY <1>5, <1>6, <1>7, <2>2
      <3>2. n + j - 1 = n + m /\ n = Len(q.given)
        BY <1>5, <1>6, <3>1 DEF n
      <3>3. \A p \in 1..Len(c.given) : \E i \in 1..(n + m) : c.given[p] = ValueAt(q, f.path, i)
        BY <1>6, <1>9 DEF IsOf
      <3>4. Place(f) = Append(f.path, m)
        BY DEF Place, m
      <3>5. \E x \in DOMAIN Local : c.output = [id |-> Local[x], term |-> c.output.term]
        <4>1. m \in DOMAIN Local
          BY <1>6, GraphAssumption DEF m
        <4> QED
          BY <1>3, <4>1 DEF Info
      <3> QED
        BY <3>1, <3>2, <3>3, <3>4, <3>5 DEF Recorded
    <2> QED
      BY <2>1, <2>2
  <1>17. Scoped(q, f.path, reg, G)
    <2>1. /\ IsSequence(q.names) /\ IsSequence(q.given) /\ Len(q.names) = Len(q.given) /\ 0 < Len(q.given)
          /\ \A i \in 1..Len(q.given) : IsValue(q.given[i])
      BY <1>5, <1>14 DEF Scoped
    <2> QED
      BY <1>5, <1>7, <1>8, <1>15, <1>16, <2>1 DEF Scoped
  <1> QED
    BY <1>4, <1>7, <1>12, <1>13, <1>17 DEF FrameGood, q, h, out

LEMMA BareIs ==
    ASSUME NEW o, IsOp(o)
    PROVE  LET b == Bare(o) IN
           /\ IsOp(b) /\ b.op = o.op /\ b.data = o.data /\ b.given = o.given /\ b.inputs = o.inputs
           /\ b.output = o.output /\ b.names = o.names /\ b.body = o.body /\ b.ops = o.ops
           /\ o.last = <<>> => b = o
  <1>1. Bare(o) = [op |-> o.op, data |-> o.data, given |-> o.given, inputs |-> o.inputs, output |-> o.output,
                   names |-> o.names, body |-> o.body, ops |-> o.ops, last |-> <<>>]
    BY DEF IsOp, Bare
  <1> QED
    BY <1>1 DEF IsOp

LEMMA BareGood ==
    ASSUME NEW o, IsOp(o), NEW path, NEW reg, NEW G
    PROVE  Good(Bare(o), path, reg, G) <=> Good(o, path, reg, G)
  <1> DEFINE b == Bare(o)
  <1>1. /\ IsOp(b) /\ b.op = o.op /\ b.given = o.given /\ b.names = o.names
        /\ b.body = o.body /\ b.ops = o.ops
    BY BareIs
  <1> HIDE DEF b
  <1>2. Size(b) = Size(o) /\ \A i : IdAt(b, i) = IdAt(o, i) /\ ValueAt(b, path, i) = ValueAt(o, path, i)
    BY <1>1 DEF Size, IdAt, ValueAt, TermAt, MakerAt
  <1>3. ASSUME NEW j PROVE Recorded(b, path, j, reg, G) <=> Recorded(o, path, j, reg, G)
    <2> DEFINE c == o.ops[j]
               R == 1..(Len(o.given) + j - 1)
    <2>1. b.ops[j] = c /\ 1..(Len(b.given) + j - 1) = R
      BY <1>1
    <2>2. \A i : ValueAt(b, path, i) = ValueAt(o, path, i)
      BY <1>2
    <2>3. Recorded(o, path, j, reg, G) <=>
            /\ IsOp(c) /\ IsSequence(c.given) /\ c.inputs = Ids(c.given)
            /\ \E n \in DOMAIN Local : c.output = [id |-> Local[n], term |-> c.output.term]
            /\ \A p \in 1..Len(c.given) : \E i \in R : c.given[p] = ValueAt(o, path, i)
            /\ c.op # None => LeafIs(c, reg)
            /\ c.op = None => c.output.term = c.body.term /\ <<Bare(c), Append(path, j - 1)>> \in G
      BY DEF Recorded
    <2>4. Recorded(b, path, j, reg, G) <=>
            /\ IsOp(c) /\ IsSequence(c.given) /\ c.inputs = Ids(c.given)
            /\ \E n \in DOMAIN Local : c.output = [id |-> Local[n], term |-> c.output.term]
            /\ \A p \in 1..Len(c.given) : \E i \in R : c.given[p] = ValueAt(b, path, i)
            /\ c.op # None => LeafIs(c, reg)
            /\ c.op = None => c.output.term = c.body.term /\ <<Bare(c), Append(path, j - 1)>> \in G
      <3> HIDE DEF c, R
      <3> QED
        BY <2>1 DEF Recorded
    <2> HIDE DEF c, R
    <2> QED
      BY ONLY <2>2, <2>3, <2>4
  <1>4. Scoped(b, path, reg, G) <=> Scoped(o, path, reg, G)
    BY <1>1, <1>2, <1>3 DEF Scoped
  <1> QED
    BY <1>1, <1>2, <1>4 DEF Good, b

\* A scope is closed when its operator returns: its operations get their flags.
LEMMA CompositeGood ==
    ASSUME NEW f, NEW reg, NEW G, FrameGood(f, reg, G), NEW v, IsOf(v, f), NEW out
    PROVE  LET o == Composite(f, v, out) IN
           /\ IsOp(o) /\ o.op = None /\ o.given = f.given /\ o.inputs = Ids(f.given)
           /\ o.output = out /\ o.names = Params[f.block] /\ o.body = Info(v)
           /\ o.last = <<>> /\ Good(o, f.path, reg, G)
  <1> DEFINE o == Composite(f, v, out)
             a == AsOp(f)
             m == Len(f.ops)
             flagged == [i \in DOMAIN f.ops |-> [f.ops[i] EXCEPT !.last = LastUses(f.ops)[i]]]
  <1>1. o = [op |-> None, data |-> <<>>, given |-> f.given, inputs |-> Ids(f.given), output |-> out,
             names |-> Params[f.block], body |-> Info(v), ops |-> flagged, last |-> <<>>]
    <2> DEFINE o1 == Operation(None, <<>>, f.given, out)
    <2>1. o1 = [op |-> None, data |-> <<>>, given |-> f.given, inputs |-> Ids(f.given), output |-> out,
                names |-> <<>>, body |-> None, ops |-> <<>>, last |-> <<>>]
      BY DEF Operation
    <2>2. o = [o1 EXCEPT !.names = Params[f.block], !.body = Info(v), !.ops = flagged]
      BY DEF Composite
    <2> HIDE DEF o1, flagged, o
    <2> QED
      BY <2>1, <2>2
  <1>2. /\ a.given = f.given /\ a.ops = f.ops /\ a.names = Params[f.block]
        /\ IsSequence(f.ops) /\ m \in Nat /\ IsSequence(f.vals) /\ DOMAIN f.vals = 1..Len(f.vals)
        /\ Size(a) = Len(f.vals)
        /\ \A i \in 1..Len(f.vals) : f.vals[i] = ValueAt(a, f.path, i)
    BY FrameFacts
  <1>3. DOMAIN f.ops = 1..m
    BY <1>2, SequenceIs
  <1>4. Scoped(a, f.path, reg, G)
    BY DEF FrameGood
  <1>5. \A j \in 1..m : IsOp(f.ops[j])
    BY <1>2, <1>4 DEF Scoped, Recorded
  <1>6. /\ IsSequence(flagged) /\ Len(flagged) = m
        /\ \A j \in 1..m : /\ IsOp(flagged[j]) /\ Bare(flagged[j]) = Bare(f.ops[j])
                           /\ flagged[j].op = f.ops[j].op /\ flagged[j].data = f.ops[j].data
                           /\ flagged[j].given = f.ops[j].given /\ flagged[j].inputs = f.ops[j].inputs
                           /\ flagged[j].output = f.ops[j].output /\ flagged[j].body = f.ops[j].body
                           /\ flagged[j].last = LastUses(f.ops)[j]
    <2>1. flagged = [i \in 1..m |-> flagged[i]]
      BY <1>3
    <2>2. ASSUME NEW c, IsOp(c), NEW l, NEW d, d = [c EXCEPT !.last = l]
          PROVE  /\ IsOp(d) /\ Bare(d) = Bare(c) /\ d.op = c.op /\ d.data = c.data /\ d.given = c.given
                 /\ d.inputs = c.inputs /\ d.output = c.output /\ d.body = c.body /\ d.last = l
      <3>1. d = [op |-> c.op, data |-> c.data, given |-> c.given, inputs |-> c.inputs, output |-> c.output,
                 names |-> c.names, body |-> c.body, ops |-> c.ops, last |-> l]
        BY <2>2 DEF IsOp
      <3>2. IsOp(d)
        BY <3>1 DEF IsOp
      <3>3. Bare(d) = Bare(c)
        BY <3>1, <2>2 DEF Bare, IsOp
      <3> QED
        BY <3>1, <3>2, <3>3
    <2>3. \A j \in 1..m : flagged[j] = [f.ops[j] EXCEPT !.last = LastUses(f.ops)[j]]
      BY <1>3
    <2> HIDE DEF flagged, m
    <2>4. IsSequence(flagged) /\ Len(flagged) = m
      BY <1>2, <2>1, MakesSequence
    <2>5. ASSUME NEW j \in 1..m
          PROVE  /\ IsOp(flagged[j]) /\ Bare(flagged[j]) = Bare(f.ops[j])
                 /\ flagged[j].op = f.ops[j].op /\ flagged[j].data = f.ops[j].data
                 /\ flagged[j].given = f.ops[j].given /\ flagged[j].inputs = f.ops[j].inputs
                 /\ flagged[j].output = f.ops[j].output /\ flagged[j].body = f.ops[j].body
                 /\ flagged[j].last = LastUses(f.ops)[j]
      <3> DEFINE c == f.ops[j]
                 d == flagged[j]
                 l == LastUses(f.ops)[j]
      <3>1. IsOp(c) /\ d = [c EXCEPT !.last = l]
        BY <1>5, <2>3
      <3> HIDE DEF c, d, l
      <3>2. /\ IsOp(d) /\ Bare(d) = Bare(c) /\ d.op = c.op /\ d.data = c.data /\ d.given = c.given
            /\ d.inputs = c.inputs /\ d.output = c.output /\ d.body = c.body /\ d.last = l
        BY <2>2, <3>1
      <3> QED
        BY <3>2 DEF c, d, l
    <2> QED
      BY <2>4, <2>5
  <1>7. LastUses(flagged) = LastUses(f.ops)
    <2>1. DOMAIN flagged = 1..m /\ Len(flagged) = Len(f.ops) /\ DOMAIN f.ops = 1..m
      BY <1>3, <1>6
    <2>2. \A i \in 1..m : \A j \in (i + 1)..Len(f.ops) : j \in 1..m
      BY <1>2
    <2>3. \A j \in 1..m : flagged[j].inputs = f.ops[j].inputs
      BY <1>6
    <2> HIDE DEF flagged, m
    <2> QED
      BY SMTT(30), <2>1, <2>2, <2>3 DEF LastUses
  <1> HIDE DEF flagged
  <1>8. /\ o.op = None /\ o.given = f.given /\ o.names = Params[f.block] /\ o.ops = flagged
        /\ o.body = Info(v) /\ o.output = out /\ o.inputs = Ids(f.given) /\ o.last = <<>> /\ IsOp(o)
    BY <1>1 DEF IsOp
  <1> HIDE DEF o
  <1>9. Len(a.given) = Len(o.given) /\ Len(a.given) \in Nat \ {0} /\ Len(o.ops) = m /\ Len(a.ops) = m
    BY <1>2, <1>4, <1>6, <1>8, ScopedLengths
  <1>10. Size(o) = Size(a)
    BY <1>9 DEF Size
  <1>11. \A i \in 1..Size(a) : IdAt(o, i) = IdAt(a, i) /\ ValueAt(o, f.path, i) = ValueAt(a, f.path, i)
    <2>1. SUFFICES ASSUME NEW i \in 1..Size(a)
                   PROVE  IdAt(o, i) = IdAt(a, i) /\ TermAt(o, i) = TermAt(a, i)
                          /\ MakerAt(o, f.path, i) = MakerAt(a, f.path, i)
      BY DEF ValueAt
    <2>2. CASE i <= Len(a.given)
      BY <1>2, <1>8, <1>9, <2>2 DEF IdAt, TermAt, MakerAt
    <2>3. CASE ~(i <= Len(a.given))
      <3>1. i - Len(a.given) \in 1..m
        <4>1. i \in 1..(Len(a.given) + Len(a.ops))
          BY DEF Size
        <4>2. \A x \in Nat \ {0}, y \in Nat : \A k \in 1..(x + y) : ~(k <= x) => k - x \in 1..y
          OBVIOUS
        <4> QED
          BY <1>2, <1>9, <2>3, <4>1, <4>2
      <3>2. o.ops[i - Len(a.given)].output = a.ops[i - Len(a.given)].output
        BY <1>2, <1>6, <1>8, <3>1
      <3> QED
        BY <1>9, <2>3, <3>2 DEF IdAt, TermAt, MakerAt
    <2> QED
      BY <2>2, <2>3
  <1>12. ASSUME NEW j \in 1..m PROVE Recorded(o, f.path, j, reg, G)
    <2>1. Recorded(a, f.path, j, reg, G)
      BY <1>4, <1>9 DEF Scoped
    <2>2. \A i \in 1..(Len(a.given) + j - 1) : i \in 1..Size(a)
      <3>1. \A x \in Nat \ {0}, y \in Nat : \A z \in 1..y : \A i \in 1..(x + z - 1) : i \in 1..(x + y)
        OBVIOUS
      <3> QED
        BY <1>2, <1>9, <3>1 DEF Size
    <2> DEFINE c == a.ops[j]
               d == o.ops[j]
    <2>3. /\ IsOp(d) /\ Bare(d) = Bare(c) /\ d.op = c.op /\ d.data = c.data /\ d.given = c.given
          /\ d.inputs = c.inputs /\ d.output = c.output /\ d.body = c.body
      BY <1>2, <1>6, <1>8
    <2>4. LeafIs(c, reg) => LeafIs(d, reg)
      BY <2>3 DEF LeafIs
    <2>5. /\ IsOp(c) /\ IsSequence(c.given) /\ c.inputs = Ids(c.given)
          /\ \E n \in DOMAIN Local : c.output = [id |-> Local[n], term |-> c.output.term]
          /\ \A p \in 1..Len(c.given) :
                 \E i \in 1..(Len(a.given) + j - 1) : c.given[p] = ValueAt(a, f.path, i)
          /\ c.op # None => LeafIs(c, reg)
          /\ c.op = None => c.output.term = c.body.term /\ <<Bare(c), Append(f.path, j - 1)>> \in G
      BY <2>1 DEF Recorded
    <2>6. /\ IsOp(d) /\ IsSequence(d.given) /\ d.inputs = Ids(d.given)
          /\ \E n \in DOMAIN Local : d.output = [id |-> Local[n], term |-> d.output.term]
          /\ \A p \in 1..Len(d.given) :
                 \E i \in 1..(Len(o.given) + j - 1) : d.given[p] = ValueAt(o, f.path, i)
          /\ d.op # None => LeafIs(d, reg)
          /\ d.op = None => d.output.term = d.body.term /\ <<Bare(d), Append(f.path, j - 1)>> \in G
      <3> HIDE DEF c, d
      <3> QED
        BY <1>9, <1>11, <2>2, <2>3, <2>4, <2>5
    <2> QED
      BY <2>6 DEF Recorded
  <1>13. Scoped(o, f.path, reg, G)
    <2>1. /\ IsSequence(a.names) /\ IsSequence(a.given) /\ Len(a.names) = Len(a.given) /\ 0 < Len(a.given)
          /\ \A i \in 1..Len(a.given) : IsValue(a.given[i])
          /\ \A i, j \in 1..Size(a) : i # j => IdAt(a, i) # IdAt(a, j)
      BY <1>4 DEF Scoped
    <2>2. /\ IsSequence(o.names) /\ IsSequence(o.given) /\ Len(o.names) = Len(o.given) /\ 0 < Len(o.given)
          /\ \A i \in 1..Len(o.given) : IsValue(o.given[i]) /\ IsSequence(o.ops)
      BY <1>2, <1>6, <1>8, <2>1
    <2>3. \A i, j \in 1..Size(o) : i # j => IdAt(o, i) # IdAt(o, j)
      BY <1>10, <1>11, <2>1
    <2> QED
      BY <1>9, <1>12, <2>2, <2>3 DEF Scoped
  <1>14. \E i \in 1..Size(o) : o.body = Info(ValueAt(o, f.path, i))
    <2>1. PICK i \in 1..Len(f.vals) : v = f.vals[i]
      BY DEF IsOf
    <2> QED
      BY <1>2, <1>8, <1>10, <1>11, <2>1
  <1>15. \A j \in 1..Len(o.ops) : o.ops[j].last = LastUses(o.ops)[j]
    BY <1>6, <1>7, <1>8, <1>9
  <1>16. Good(o, f.path, reg, G)
    BY <1>8, <1>13, <1>14, <1>15 DEF Good
  <1> QED
    BY <1>8, <1>16 DEF o

\* With it, the operators recorded are closed again.
LEMMA ClosedWith ==
    ASSUME NEW G, NEW reg, Registry(reg), Closed(G, reg), NEW o, IsOp(o), NEW path, Good(o, path, reg, G)
    PROVE  Closed(G \cup {<<Bare(o), path>>}, reg)
  <1>1. Good(Bare(o), path, reg, G)
    BY BareGood
  <1>2. SUFFICES ASSUME NEW q, NEW place, <<q, place>> \in G \cup {<<Bare(o), path>>}
                 PROVE  Good(q, place, reg, G)
    BY ExtendsSelf, GoodStays DEF Closed
  <1>3. CASE <<q, place>> \in G
    BY <1>3 DEF Closed
  <1>4. CASE q = Bare(o) /\ place = path
    BY <1>1, <1>4
  <1> QED
    BY <1>2, <1>3, <1>4

LEMMA ClosedStays ==
    ASSUME NEW G, NEW reg, NEW more, Registry(reg), Registry(more), Extends(reg, more), Closed(G, reg)
    PROVE  Closed(G, more)
  BY GoodStays DEF Closed

LEMMA FrameStays ==
    ASSUME NEW f, NEW reg, NEW more, NEW G, NEW H, FrameGood(f, reg, G),
           Registry(reg), Registry(more), Extends(reg, more), G \subseteq H
    PROVE  FrameGood(f, more, H)
  BY ScopedStays DEF FrameGood

-----------------------------------------------------------------------------
(* The scopes entered, innermost last. *)

Stacked(fs, reg, G, n) ==
    /\ IsSequence(fs) /\ 0 < Len(fs) /\ n \in 0..MaxOps
    /\ \A i \in 1..Len(fs) : FrameGood(fs[i], reg, G) /\ Len(fs[i].ops) + (Len(fs) - i) <= n
    /\ \A i \in 1..(Len(fs) - 1) : /\ fs[i + 1].path = Place(fs[i])
                                   /\ \A p \in 1..Len(fs[i + 1].given) : IsOf(fs[i + 1].given[p], fs[i])

RootOf(fs, b, given) == fs[1].block = b /\ fs[1].path = <<0>> /\ fs[1].given = given

\* The j-th scope goes on, those above it are left.
LEMMA StackGoesOn ==
    ASSUME NEW fs, NEW reg, NEW G, NEW n, Stacked(fs, reg, G, n),
           NEW more, NEW H, Registry(reg), Registry(more), Extends(reg, more), G \subseteq H,
           NEW j \in 1..Len(fs), NEW h, FrameGood(h, more, H),
           h.block = fs[j].block, h.path = fs[j].path, h.given = fs[j].given,
           NEW m \in n..MaxOps, Len(h.ops) <= m, NEW b, NEW given, RootOf(fs, b, given)
    PROVE  LET new == Append(SubSeq(fs, 1, j - 1), h) IN
           Stacked(new, more, H, m) /\ RootOf(new, b, given)
  <1> DEFINE l == j - 1
             low == SubSeq(fs, 1, l)
             new == Append(low, h)
  <1>1. /\ IsSequence(fs) /\ Len(fs) \in Nat /\ n \in Nat /\ n <= MaxOps /\ MaxOps \in Nat
        /\ l \in Nat /\ l <= Len(fs) /\ j = l + 1 /\ m \in Nat /\ m <= MaxOps /\ n <= m
    BY SequenceIs, GraphAssumption DEF Stacked
  <1>2. IsSequence(low) /\ Len(low) = l /\ \A i \in 1..l : low[i] = fs[i]
    <2> HIDE DEF l
    <2> QED
      BY <1>1, Shortened
  <1>3. IsSequence(new) /\ Len(new) = l + 1 /\ new[l + 1] = h /\ \A i \in 1..l : new[i] = fs[i]
    <2> HIDE DEF l, low
    <2> QED
      BY <1>2, Appended
  <1> HIDE DEF l, low, new
  <1>4. ASSUME NEW i \in 1..(l + 1)
        PROVE  FrameGood(new[i], more, H) /\ Len(new[i].ops) + (Len(new) - i) <= m
    <2>1. CASE i \in 1..l
      <3>1. i \in 1..Len(fs) /\ new[i] = fs[i]
        BY <1>1, <1>3, <2>1
      <3>2. FrameGood(fs[i], reg, G) /\ Len(fs[i].ops) + (Len(fs) - i) <= n
        BY <3>1 DEF Stacked
      <3>3. Len(fs[i].ops) \in Nat
        BY <3>2, FrameFacts
      <3>4. l + 1 <= Len(fs)
        BY <1>1
      <3> DEFINE x == Len(fs[i].ops)
                 y == Len(fs)
      <3>5. x \in Nat /\ y \in Nat /\ x + (y - i) <= n /\ l + 1 <= y
        BY <1>1, <3>2, <3>3, <3>4
      <3> HIDE DEF x, y
      <3>6. x + ((l + 1) - i) <= m
        BY <1>1, <2>1, <3>5
      <3> QED
        BY <1>3, <3>1, <3>2, <3>6, FrameStays DEF x
    <2>2. CASE i = l + 1
      <3>1. Len(h.ops) \in Nat
        BY FrameFacts
      <3> DEFINE x == Len(h.ops)
      <3>2. x \in Nat /\ x <= m
        BY <3>1
      <3> HIDE DEF x
      <3>3. x + ((l + 1) - i) <= m
        BY <1>1, <2>2, <3>2
      <3> QED
        BY <1>3, <2>2, <3>3 DEF x
    <2> QED
      BY <1>1, <2>1, <2>2
  <1>5. ASSUME NEW i \in 1..l
        PROVE  /\ new[i + 1].path = Place(new[i])
               /\ \A p \in 1..Len(new[i + 1].given) : IsOf(new[i + 1].given[p], new[i])
    <2>1. i \in 1..(Len(fs) - 1) /\ new[i] = fs[i]
      BY <1>1, <1>3
    <2>2. /\ fs[i + 1].path = Place(fs[i])
          /\ \A p \in 1..Len(fs[i + 1].given) : IsOf(fs[i + 1].given[p], fs[i])
      BY <2>1 DEF Stacked
    <2>3. new[i + 1].path = fs[i + 1].path /\ new[i + 1].given = fs[i + 1].given
      <3>1. CASE i + 1 \in 1..l
        BY <1>3, <3>1
      <3>2. CASE i + 1 = l + 1
        BY <1>1, <1>3, <3>2
      <3> QED
        BY <1>1, <3>1, <3>2
    <2> QED
      BY <2>1, <2>2, <2>3
  <1>6. Stacked(new, more, H, m)
    <2>1. Len(new) - 1 = l /\ 0 < Len(new) /\ m \in 0..MaxOps
      BY <1>1, <1>3
    <2> QED
      BY <1>3, <1>4, <1>5, <2>1 DEF Stacked
  <1>7. RootOf(new, b, given)
    <2>1. CASE l = 0
      BY <1>1, <1>3, <2>1 DEF RootOf
    <2>2. CASE l # 0
      BY <1>1, <1>3, <2>2 DEF RootOf
    <2> QED
      BY <2>1, <2>2
  <1> QED
    BY <1>6, <1>7 DEF new, low, l

\* An operator called in the innermost one gets a scope of its own.
LEMMA StackEnters ==
    ASSUME NEW fs, NEW reg, NEW G, NEW n, Stacked(fs, reg, G, n), n < MaxOps,
           NEW h, FrameGood(h, reg, G), Len(h.ops) = 0, h.path = Place(fs[Len(fs)]),
           \A p \in 1..Len(h.given) : IsOf(h.given[p], fs[Len(fs)]),
           NEW b, NEW given, RootOf(fs, b, given)
    PROVE  Stacked(Append(fs, h), reg, G, n + 1) /\ RootOf(Append(fs, h), b, given)
  <1> DEFINE new == Append(fs, h)
             l == Len(fs)
  <1>1. IsSequence(fs) /\ l \in Nat /\ 0 < l /\ n \in Nat /\ n + 1 \in 0..MaxOps
    BY SequenceIs, GraphAssumption DEF Stacked
  <1>2. IsSequence(new) /\ Len(new) = l + 1 /\ new[l + 1] = h /\ \A i \in 1..l : new[i] = fs[i]
    BY <1>1, Appended
  <1>3. /\ h.path = Place(fs[l]) /\ \A p \in 1..Len(h.given) : IsOf(h.given[p], fs[l])
        /\ \A i \in 1..l : FrameGood(fs[i], reg, G) /\ Len(fs[i].ops) + (l - i) <= n
        /\ \A i \in 1..(l - 1) : /\ fs[i + 1].path = Place(fs[i])
                                 /\ \A p \in 1..Len(fs[i + 1].given) : IsOf(fs[i + 1].given[p], fs[i])
    BY DEF Stacked
  <1> HIDE DEF new, l
  <1>4. ASSUME NEW i \in 1..(l + 1)
        PROVE  FrameGood(new[i], reg, G) /\ Len(new[i].ops) + (Len(new) - i) <= n + 1
    <2>1. CASE i \in 1..l
      <3> DEFINE x == Len(fs[i].ops)
      <3>1. FrameGood(fs[i], reg, G) /\ x + (l - i) <= n
        BY <1>3, <2>1
      <3>2. x \in Nat
        BY <3>1, FrameFacts
      <3> HIDE DEF x
      <3>3. x + ((l + 1) - i) <= n + 1
        BY <1>1, <2>1, <3>1, <3>2
      <3> QED
        BY <1>2, <2>1, <3>1, <3>3 DEF x
    <2>2. CASE i = l + 1
      BY <1>1, <1>2, <2>2
    <2> QED
      BY <1>1, <2>1, <2>2
  <1>5. ASSUME NEW i \in 1..l
        PROVE  /\ new[i + 1].path = Place(new[i])
               /\ \A p \in 1..Len(new[i + 1].given) : IsOf(new[i + 1].given[p], new[i])
    <2>1. CASE i + 1 \in 1..l
      <3>1. i \in 1..(l - 1)
        BY <1>1, <2>1
      <3> QED
        BY <1>2, <1>3, <2>1, <3>1
    <2>2. CASE i = l
      BY <1>2, <1>3, <2>2
    <2> QED
      BY <1>1, <2>1, <2>2
  <1>6. Stacked(new, reg, G, n + 1)
    <2>1. Len(new) - 1 = l /\ 0 < Len(new)
      BY <1>1, <1>2
    <2> QED
      BY <1>1, <1>2, <1>4, <1>5, <2>1 DEF Stacked
  <1>7. RootOf(new, b, given)
    BY <1>1, <1>2 DEF RootOf
  <1> QED
    BY <1>6, <1>7 DEF new

LEMMA StackBegins ==
    ASSUME NEW b \in Block, NEW given, IsSequence(given), Len(given) = Len(Params[b]),
           \A i \in 1..Len(given) : IsValue(given[i]), NEW reg, NEW G, NEW n \in 0..MaxOps
    PROVE  LET fs == <<Frame(b, <<0>>, given)>> IN Stacked(fs, reg, G, n) /\ RootOf(fs, b, given)
  <1> DEFINE f == Frame(b, <<0>>, given)
             fs == <<f>>
  <1>1. FrameGood(f, reg, G)
    BY NewFrame
  <1>2. f.block = b /\ f.path = <<0>> /\ f.given = given /\ f.ops = <<>>
    BY DEF Frame
  <1> HIDE DEF f
  <1>3. IsSequence(fs) /\ Len(fs) = 1 /\ fs[1] = f /\ Len(f.ops) = 0
    BY <1>2, SingleSequence, EmptySequence
  <1>4. 0 <= n /\ n \in Nat
    BY GraphAssumption
  <1> HIDE DEF fs
  <1>5. Stacked(fs, reg, G, n)
    BY <1>1, <1>3, <1>4 DEF Stacked
  <1> QED
    BY <1>2, <1>3, <1>5 DEF RootOf, fs, f

\* What an operator may be called on in a scope, and what the scope may return.
LEMMA ArgumentsAre ==
    ASSUME NEW f, NEW reg, NEW G, FrameGood(f, reg, G), NEW n \in Nat, NEW given \in Arguments(f, n)
    PROVE  /\ IsSequence(given) /\ Len(given) = n
           /\ \A p \in 1..Len(given) : IsOf(given[p], f) /\ IsValue(given[p])
  <1>1. /\ DOMAIN f.vals = 1..Len(f.vals) /\ Len(f.vals) \in 1..Len(f.vals)
        /\ \A i \in 1..Len(f.vals) : IsValue(f.vals[i])
    <2>1. Len(f.vals) \in Nat \ {0} /\ DOMAIN f.vals = 1..Len(f.vals)
          /\ \A i \in 1..Len(f.vals) : IsValue(f.vals[i])
      BY FrameFacts
    <2>2. \A x \in Nat \ {0} : x \in 1..x
      OBVIOUS
    <2> QED
      BY <2>1, <2>2
  <1>2. CASE f.block = Chain
    <2>1. n = 1 /\ given = <<f.vals[Len(f.vals)]>>
      BY <1>2 DEF Arguments
    <2>2. IsSequence(given) /\ Len(given) = 1 /\ given[1] = f.vals[Len(f.vals)]
      BY <2>1, SingleSequence
    <2>3. \A p \in 1..Len(given) : p = 1
      BY <2>2
    <2> QED
      BY <1>1, <2>1, <2>2, <2>3 DEF IsOf
  <1>3. CASE f.block # Chain
    <2>1. given \in [1..n -> {f.vals[i] : i \in DOMAIN f.vals}]
      BY <1>3 DEF Arguments
    <2>2. given = [p \in 1..n |-> given[p]]
      BY <2>1
    <2>3. IsSequence(given) /\ Len(given) = n
      BY <2>2, MakesSequence
    <2> QED
      BY <1>1, <2>1, <2>3 DEF IsOf
  <1> QED
    BY <1>2, <1>3

LEMMA ReturnsAre ==
    ASSUME NEW f, NEW reg, NEW G, FrameGood(f, reg, G), NEW v \in Returns(f)
    PROVE  IsOf(v, f) /\ IsValue(v)
  <1>1. Len(f.vals) \in Nat \ {0} /\ DOMAIN f.vals = 1..Len(f.vals)
        /\ \A i \in 1..Len(f.vals) : IsValue(f.vals[i])
    BY FrameFacts
  <1>2. \A x \in Nat \ {0} : x \in 1..x
    OBVIOUS
  <1> QED
    BY <1>1, <1>2 DEF Returns, IsOf

-----------------------------------------------------------------------------
(* The sections. *)

LEMMA SectionIs ==
    ASSUME has \in Pipelines
    PROVE  /\ "hom" \in has /\ has \subseteq Section /\ First(has) \in has
           /\ \A s \in has : Root[s] \in Block /\ After(s) \subseteq has
  BY GraphAssumption DEF Section, First, After, Root

LEMMA InputsAre ==
    ASSUME has \in Pipelines, NEW s \in has, NEW v, IsValue(v) \/ s = First(has)
    PROVE  LET given == SectionInputs(s, v) IN
           /\ IsSequence(given) /\ Len(given) = Len(Params[Root[s]])
           /\ \A i \in 1..Len(given) : IsValue(given[i])
  <1> DEFINE n == Len(Params[Hom])
  <1>1. n \in Nat /\ DOMAIN Params[Hom] = 1..n /\ 0 < n
    BY GraphAssumption, LenProperties
  <1>2. /\ Given = [i \in 1..n |-> Given[i]]
        /\ \A i \in 1..n : Given[i] = Value(Params[Hom][i], <<Params[Hom][i]>>, None)
    BY <1>1 DEF Given
  <1> HIDE DEF n
  <1>3. IsSequence(Given) /\ Len(Given) = n /\ \A i \in 1..n : IsValue(Given[i])
    <2>1. IsSequence(Given) /\ Len(Given) = n
      BY <1>1, <1>2, MakesSequence
    <2>2. \A i \in 1..n : IsValue(Value(Params[Hom][i], <<Params[Hom][i]>>, None))
      BY ValueFields
    <2> QED
      BY <1>2, <2>1, <2>2
  <1>4. IsValue(Given[1])
    BY <1>1, <1>3
  <1>5. CASE s = "client_pre"
    <2>1. SectionInputs(s, v) = <<Given[1]>> /\ Root[s] = Chain
      BY <1>5 DEF SectionInputs, Root, Section
    <2> QED
      BY <1>4, <2>1, SingleSequence, GraphAssumption
  <1>6. CASE s = "hom" /\ "client_pre" \notin has
    <2>1. SectionInputs(s, v) = Given /\ Root[s] = Hom
      BY <1>6 DEF SectionInputs, Root, Section
    <2> QED
      BY <1>3, <2>1 DEF n
  <1>7. CASE s = "hom" /\ "client_pre" \in has
    <2> DEFINE given == [Given EXCEPT ![1] = v]
    <2>1. SectionInputs(s, v) = given /\ Root[s] = Hom /\ IsValue(v)
      BY <1>7 DEF SectionInputs, Root, Section, First
    <2>2. given = [i \in 1..n |-> given[i]] /\ \A i \in 1..n : given[i] = IF i = 1 THEN v ELSE Given[i]
      BY <1>2
    <2>3. IsSequence(given) /\ Len(given) = n
      <3> HIDE DEF given
      <3> QED
        BY <1>1, <2>2, MakesSequence
    <2> HIDE DEF given
    <2> QED
      BY <1>3, <2>1, <2>2, <2>3 DEF n
  <1>8. CASE s = "client_post"
    <2>1. SectionInputs(s, v) = <<v>> /\ Root[s] = Chain /\ IsValue(v)
      BY <1>8 DEF SectionInputs, Root, Section, First
    <2> QED
      BY <2>1, SingleSequence, GraphAssumption
  <1> QED
    BY <1>5, <1>6, <1>7, <1>8, SectionIs DEF Section

\* What a section returned is passed to the next one.
Result(gr, s) == Value(gr[s].body.id, gr[s].body.term, <<0>>)
Passed(gr, s) == Result(gr, IF s = "client_post" THEN "hom" ELSE "client_pre")

Whole(gr, s, G) ==
    /\ IsOp(gr[s]) /\ <<Bare(gr[s]), <<0>>>> \in G
    /\ gr[s].output = Nothing /\ gr[s].names = Params[Root[s]]
    /\ gr[s].given = SectionInputs(s, Passed(gr, s)) /\ gr[s].inputs = Ids(gr[s].given)

Before(s) ==
    IF s = "client_pre" THEN {} ELSE IF s = "hom" THEN has \cap {"client_pre"} ELSE has \ {"client_post"}
LastSection == IF "client_post" \in has THEN "client_post" ELSE "hom"

\* The sections traced so far are recorded whole, and so is what the scopes of
\* the one being traced have recorded.
TraceInv(G) ==
    /\ has \in Pipelines /\ section \in has /\ DOMAIN graph = Section
    /\ Registry(stored) /\ Closed(G, stored)
    /\ stage = "trace" => /\ \A s \in Before(section) : Whole(graph, s, G)
                          /\ Stacked(frames, stored, G, calls)
                          /\ RootOf(frames, Root[section], SectionInputs(section, Passed(graph, section)))
    /\ stage \notin {"trace", "refused"} => /\ \A s \in has : Whole(graph, s, G)
                                            /\ traced = Result(graph, LastSection)

LEMMA WholeStays ==
    ASSUME NEW gr, NEW s, NEW G, NEW H, G \subseteq H, Whole(gr, s, G)
    PROVE  Whole(gr, s, H)
  BY DEF Whole

LEMMA InitTraces == ASSUME Init PROVE TraceInv({})
  <1>1. has \in Pipelines /\ section = First(has) /\ section \in has /\ Root[section] \in Block
    BY SectionIs DEF Init
  <1>2. Before(section) = {} /\ SectionInputs(section, Passed(graph, section)) = SectionInputs(section, None)
    BY <1>1 DEF Before, First, SectionInputs
  <1>3. Registry(stored) /\ Closed({}, stored)
    BY EmptySequence DEF Init, Registry, Closed
  <1>4. /\ frames = <<Frame(Root[section], <<0>>, SectionInputs(section, None))>>
        /\ calls = 0 /\ stage = "trace" /\ DOMAIN graph = Section
    BY DEF Init
  <1>5. Stacked(frames, stored, {}, calls) /\ RootOf(frames, Root[section], SectionInputs(section, None))
    <2> DEFINE given == SectionInputs(section, None)
    <2>1. /\ IsSequence(given) /\ Len(given) = Len(Params[Root[section]])
          /\ \A i \in 1..Len(given) : IsValue(given[i])
      BY <1>1, InputsAre
    <2>2. 0 \in 0..MaxOps
      BY GraphAssumption
    <2> HIDE DEF given
    <2>3. LET fs == <<Frame(Root[section], <<0>>, given)>> IN
          Stacked(fs, stored, {}, 0) /\ RootOf(fs, Root[section], given)
      BY <1>1, <2>1, <2>2, StackBegins
    <2> QED
      BY <1>4, <2>3 DEF given
  <1> QED
    BY <1>1, <1>2, <1>3, <1>4, <1>5 DEF TraceInv

LEMMA StackTop ==
    ASSUME NEW fs, NEW reg, NEW G, NEW n, Stacked(fs, reg, G, n)
    PROVE  /\ Len(fs) \in Nat \ {0} /\ Len(fs) \in 1..Len(fs) /\ n \in Nat
           /\ FrameGood(fs[Len(fs)], reg, G)
           /\ Len(fs[Len(fs)].ops) \in Nat /\ Len(fs[Len(fs)].ops) <= n
  <1>1. Len(fs) \in Nat \ {0} /\ Len(fs) \in 1..Len(fs) /\ n \in Nat
    BY SequenceIs, GraphAssumption DEF Stacked
  <1> DEFINE l == Len(fs)
             x == Len(fs[l].ops)
  <1>2. FrameGood(fs[l], reg, G) /\ x + (l - l) <= n
    BY <1>1 DEF Stacked
  <1>3. x \in Nat
    BY <1>2, FrameFacts
  <1>4. l \in Nat
    BY <1>1
  <1> HIDE DEF x, l
  <1>5. x <= n
    BY <1>1, <1>2, <1>3, <1>4
  <1> QED
    BY <1>1, <1>2, <1>3, <1>5 DEF x, l

LEMMA LeafCalled ==
    ASSUME NEW G, TraceInv(G), CallLeaf PROVE TraceInv(G)'
  <1>1. /\ stage = "trace" /\ UNCHANGED <<has, runs, output, prints, scope, lines>>
        /\ calls < MaxOps /\ calls' = calls + 1
    BY DEF CallLeaf, Tracing
  <1>2. PICK leaf \in Leaf : \E given \in Arguments(Top, Arity[leaf]) :
          IF Allowed(leaf)
          THEN LET data == Converted(leaf)
                   reg == Registered(data)
                   refs == [i \in DOMAIN data |-> Ref(reg, data[i])]
                   out == Allocated(Top, <<leaf, Data[leaf], Terms(given)>>)
               IN  /\ stored' = reg
                   /\ frames' = Append(Beneath(1), Called(Top, Operation(leaf, refs, given, Info(out)), out))
                   /\ UNCHANGED <<stage, section, graph, traced>>
          ELSE /\ stage' = "refused"
               /\ UNCHANGED <<section, frames, stored, graph, traced>>
    BY DEF CallLeaf
  <1>3. PICK given \in Arguments(Top, Arity[leaf]) :
          IF Allowed(leaf)
          THEN LET data == Converted(leaf)
                   reg == Registered(data)
                   refs == [i \in DOMAIN data |-> Ref(reg, data[i])]
                   out == Allocated(Top, <<leaf, Data[leaf], Terms(given)>>)
               IN  /\ stored' = reg
                   /\ frames' = Append(Beneath(1), Called(Top, Operation(leaf, refs, given, Info(out)), out))
                   /\ UNCHANGED <<stage, section, graph, traced>>
          ELSE /\ stage' = "refused"
               /\ UNCHANGED <<section, frames, stored, graph, traced>>
    BY <1>2
  <1>4. CASE ~Allowed(leaf)
    BY <1>1, <1>3, <1>4 DEF TraceInv
  <1>5. CASE Allowed(leaf)
    <2> DEFINE data == Converted(leaf)
               reg == Registered(data)
               refs == [i \in DOMAIN data |-> Ref(reg, data[i])]
               term == <<leaf, Data[leaf], Terms(given)>>
               out == Allocated(Top, term)
               c == Operation(leaf, refs, given, Info(out))
               h == Called(Top, c, out)
    <2>1. /\ stored' = reg /\ frames' = Append(Beneath(1), h)
          /\ UNCHANGED <<stage, section, graph, traced>>
      BY <1>3, <1>5
    <2>2. /\ Registry(reg) /\ Extends(stored, reg)
          /\ \A i \in DOMAIN Data[leaf] : Ref(reg, data[i]) \in 1..Len(reg) /\ reg[Ref(reg, data[i])] = Tensor(leaf, i)
      BY LeafStored DEF TraceInv
    <2>3. DOMAIN data = DOMAIN Data[leaf]
      BY ConvertedIs
    <2>4. /\ Stacked(frames, stored, G, calls) /\ Registry(stored) /\ Closed(G, stored)
          /\ RootOf(frames, Root[section], SectionInputs(section, Passed(graph, section)))
      BY <1>1 DEF TraceInv
    <2>5. /\ Len(frames) \in Nat \ {0} /\ Len(frames) \in 1..Len(frames) /\ calls \in Nat
          /\ FrameGood(Top, stored, G) /\ Len(Top.ops) \in Nat /\ Len(Top.ops) <= calls
      BY <2>4, StackTop DEF Top
    <2>6. FrameGood(Top, reg, G)
      BY <2>2, <2>4, <2>5, FrameStays
    <2>7. IsSequence(given) /\ \A p \in 1..Len(given) : IsOf(given[p], Top)
      <3>1. Arity[leaf] \in Nat
        BY GraphAssumption
      <3> QED
        BY <2>5, <3>1, ArgumentsAre
    <2> HIDE DEF reg, data
    <2>8. /\ c.op = leaf /\ c.data = refs /\ c.given = given /\ c.inputs = Ids(given)
          /\ c.output = Info(out) /\ IsOp(c)
      BY DEF Operation, IsOp
    <2>9. c.output.term = term
      BY <2>8 DEF Allocated, Value, Info
    <2>10. LeafIs(c, reg)
      <3>1. DOMAIN c.data = DOMAIN Data[leaf]
        BY <2>3, <2>8
      <3>2. ASSUME NEW i \in DOMAIN c.data
            PROVE  c.data[i] \in 1..Len(reg) /\ reg[c.data[i]].op = leaf /\ reg[c.data[i]].item = i
        <4>1. c.data[i] = Ref(reg, data[i])
          BY <2>3, <2>8, <3>1
        <4>2. i \in DOMAIN Data[leaf]
          BY <3>1
        <4> HIDE DEF c, refs
        <4>3. c.data[i] \in 1..Len(reg) /\ reg[c.data[i]] = Tensor(leaf, i)
          BY <2>2, <4>1, <4>2
        <4>4. Tensor(leaf, i).op = leaf /\ Tensor(leaf, i).item = i
          BY DEF Tensor
        <4> QED
          BY <4>3, <4>4
      <3> HIDE DEF c
      <3> QED
        BY <2>8, <2>9, <3>1, <3>2 DEF LeafIs
    <2>11. c.op # None
      BY <2>8, GraphAssumption
    <2>12. Len(Top.ops) <= MaxOps
      BY <1>1, <2>5, GraphAssumption
    <2> HIDE DEF c, term
    <2>13. FrameGood(h, reg, G)
      BY <2>6, <2>7, <2>8, <2>10, <2>11, <2>12, CalledGood
    <2>14. /\ h.block = Top.block /\ h.path = Top.path /\ h.given = Top.given
           /\ h.ops = Append(Top.ops, c)
      <3>1. IsFrame(Top)
        BY <2>5 DEF FrameGood
      <3> QED
        BY <3>1 DEF IsFrame, Called
    <2>15. Len(h.ops) <= calls + 1 /\ calls + 1 \in calls..MaxOps
      <3>1. Len(h.ops) = Len(Top.ops) + 1
        BY <2>5, <2>14, Appended, FrameFacts
      <3> QED
        BY <1>1, <2>5, <3>1, GraphAssumption
    <2> HIDE DEF h, out
    <2>16. LET new == Append(SubSeq(frames, 1, Len(frames) - 1), h) IN
           /\ Stacked(new, reg, G, calls + 1)
           /\ RootOf(new, Root[section], SectionInputs(section, Passed(graph, section)))
      BY <2>2, <2>4, <2>5, <2>13, <2>14, <2>15, StackGoesOn DEF Top
    <2>17. /\ Stacked(frames', stored', G, calls')
           /\ RootOf(frames', Root[section], SectionInputs(section, Passed(graph, section)))
      BY <1>1, <2>1, <2>16 DEF Beneath
    <2>18. Registry(stored') /\ Closed(G, stored')
      BY <2>1, <2>2, <2>4, ClosedStays
    <2> QED
      BY <1>1, <2>1, <2>17, <2>18 DEF TraceInv, Before, SectionInputs, Given, Whole
  <1> QED
    BY <1>4, <1>5

LEMMA BlockCalled ==
    ASSUME NEW G, TraceInv(G), CallBlock PROVE TraceInv(G)'
  <1>1. /\ stage = "trace" /\ UNCHANGED <<has, runs, output, prints, scope, lines>>
        /\ calls < MaxOps /\ calls' = calls + 1 /\ UNCHANGED <<stage, section, stored, graph, traced>>
    BY DEF CallBlock, Tracing
  <1>2. PICK b \in Nested : \E given \in Arguments(Top, Len(Params[b])) :
            frames' = Append(frames, Frame(b, Place(Top), given))
    BY DEF CallBlock
  <1>3. PICK given \in Arguments(Top, Len(Params[b])) :
            frames' = Append(frames, Frame(b, Place(Top), given))
    BY <1>2
  <1>4. /\ Stacked(frames, stored, G, calls)
        /\ RootOf(frames, Root[section], SectionInputs(section, Passed(graph, section)))
    BY <1>1 DEF TraceInv
  <1>5. FrameGood(Top, stored, G)
    BY <1>4, StackTop DEF Top
  <1>6. b \in Block /\ Len(Params[b]) \in Nat
    BY GraphAssumption, LenProperties
  <1>7. /\ IsSequence(given) /\ Len(given) = Len(Params[b])
        /\ \A p \in 1..Len(given) : IsOf(given[p], Top) /\ IsValue(given[p])
    BY <1>5, <1>6, ArgumentsAre
  <1> DEFINE h == Frame(b, Place(Top), given)
  <1>8. h.given = given /\ h.path = Place(Top) /\ h.ops = <<>>
    BY DEF Frame
  <1>9. FrameGood(h, stored, G)
    BY <1>6, <1>7, NewFrame
  <1> HIDE DEF h
  <1>10. Len(h.ops) = 0
    BY <1>8, EmptySequence
  <1>11. /\ Stacked(Append(frames, h), stored, G, calls + 1)
         /\ RootOf(Append(frames, h), Root[section], SectionInputs(section, Passed(graph, section)))
    BY <1>1, <1>4, <1>7, <1>8, <1>9, <1>10, StackEnters DEF Top
  <1>12. /\ Stacked(frames', stored', G, calls')
         /\ RootOf(frames', Root[section], SectionInputs(section, Passed(graph, section)))
    BY <1>1, <1>3, <1>11 DEF h
  <1> QED
    BY <1>1, <1>12 DEF TraceInv, Before, SectionInputs, Given, Whole

LEMMA BlockReturned ==
    ASSUME NEW G, TraceInv(G), ReturnBlock PROVE \E H : TraceInv(H)'
  <1>1. /\ stage = "trace" /\ UNCHANGED <<has, runs, output, prints, scope, lines>>
        /\ Len(frames) > 1 /\ UNCHANGED <<stage, section, stored, graph, calls, traced>>
    BY DEF ReturnBlock, Tracing
  <1>2. PICK v \in Returns(Top) :
            LET out == Allocated(Below, v.term)
            IN  frames' = Append(Beneath(2), Called(Below, Composite(Top, v, Info(out)), out))
    BY DEF ReturnBlock
  <1>3. /\ Stacked(frames, stored, G, calls) /\ Registry(stored) /\ Closed(G, stored)
        /\ RootOf(frames, Root[section], SectionInputs(section, Passed(graph, section)))
    BY <1>1 DEF TraceInv
  <1> DEFINE k == Len(frames) - 1
             l == Len(frames)
             out == Allocated(Below, v.term)
             c == Composite(Top, v, Info(out))
             h == Called(Below, c, out)
  <1>4. /\ l \in Nat \ {0} /\ k \in 1..l /\ l = k + 1 /\ k \in 1..(l - 1) /\ calls \in Nat
        /\ FrameGood(Top, stored, G) /\ calls <= MaxOps /\ MaxOps \in Nat
    BY <1>1, <1>3, StackTop, GraphAssumption DEF Top, Stacked
  <1>5. /\ FrameGood(Below, stored, G) /\ Len(Below.ops) + (l - k) <= calls
        /\ Top.path = Place(Below) /\ \A p \in 1..Len(Top.given) : IsOf(Top.given[p], Below)
    <2>1. Top = frames[l] /\ Below = frames[k]
      BY DEF Top, Below
    <2> HIDE DEF l, k
    <2>2. l = Len(frames)
      BY DEF l
    <2> QED
      BY <1>3, <1>4, <2>1, <2>2 DEF Stacked
  <1>6. Len(Below.ops) \in Nat /\ Len(Below.ops) + 1 <= calls
    <2> DEFINE x == Len(Below.ops)
    <2>1. x \in Nat /\ x + (l - k) <= calls
      BY <1>5, FrameFacts
    <2> HIDE DEF x, l, k
    <2>2. x + 1 <= calls
      BY <1>4, <2>1
    <2> QED
      BY <2>1, <2>2 DEF x
  <1>7. IsOf(v, Top) /\ IsSequence(Top.given)
    BY <1>4, ReturnsAre, FrameFacts
  <1>8. /\ IsOp(c) /\ c.op = None /\ c.given = Top.given /\ c.inputs = Ids(c.given)
        /\ c.output = Info(out) /\ c.body = Info(v) /\ c.last = <<>> /\ Good(c, Top.path, stored, G)
    BY <1>4, <1>7, CompositeGood
  <1> HIDE DEF c, k, l
  <1>9. c.output.term = c.body.term
    BY <1>8 DEF Allocated, Value, Info
  <1>10. PICK H : H = G \cup {<<Bare(c), Place(Below)>>}
    OBVIOUS
  <1>11. Closed(H, stored) /\ G \subseteq H /\ Extends(stored, stored) /\ <<Bare(c), Place(Below)>> \in H
    BY <1>3, <1>5, <1>8, <1>10, ClosedWith, ExtendsSelf
  <1>12. FrameGood(Below, stored, H)
    BY <1>3, <1>5, <1>11, FrameStays
  <1>13. Len(Below.ops) <= MaxOps
    BY <1>4, <1>6
  <1>14. FrameGood(h, stored, H)
    BY <1>5, <1>7, <1>8, <1>9, <1>11, <1>12, <1>13, CalledGood
  <1>15. /\ h.block = Below.block /\ h.path = Below.path /\ h.given = Below.given
         /\ h.ops = Append(Below.ops, c)
    BY <1>5 DEF FrameGood, IsFrame, Called
  <1>16. Len(h.ops) <= calls /\ calls \in calls..MaxOps
    <2>1. Len(h.ops) = Len(Below.ops) + 1
      BY <1>5, <1>15, Appended, FrameFacts
    <2> QED
      BY <1>4, <1>6, <2>1
  <1> HIDE DEF h, out
  <1>17. LET new == Append(SubSeq(frames, 1, k - 1), h) IN
         /\ Stacked(new, stored, H, calls)
         /\ RootOf(new, Root[section], SectionInputs(section, Passed(graph, section)))
    <2>1. k \in 1..Len(frames) /\ Below = frames[k]
      BY <1>4 DEF k, l, Below
    <2> QED
      BY <1>3, <1>11, <1>14, <1>15, <1>16, <2>1, StackGoesOn
  <1>18. /\ Stacked(frames', stored', H, calls')
         /\ RootOf(frames', Root[section], SectionInputs(section, Passed(graph, section)))
    <2>1. k - 1 = Len(frames) - 2
      BY <1>4 DEF k, l
    <2>2. frames' = Append(SubSeq(frames, 1, k - 1), h)
      BY <1>2, <2>1 DEF Beneath, h, c, out
    <2> QED
      BY <1>1, <1>17, <2>2
  <1>19. \A s \in Before(section) : Whole(graph, s, H)
    BY <1>1, <1>11, WholeStays DEF TraceInv
  <1>20. TraceInv(H)'
    BY <1>1, <1>3, <1>11, <1>18, <1>19 DEF TraceInv, Before, SectionInputs, Given, Whole
  <1> QED
    BY <1>20

LEMMA SectionReturned ==
    ASSUME NEW G, TraceInv(G), ReturnSection PROVE \E H : TraceInv(H)'
  <1>1. /\ stage = "trace" /\ UNCHANGED <<has, stored, calls>> /\ Len(frames) = 1
    BY DEF ReturnSection, Tracing
  <1>2. PICK v \in Returns(Top) :
            /\ graph' = [graph EXCEPT ![section] = Composite(Top, v, Nothing)]
            /\ traced' = [v EXCEPT !.maker = <<0>>]
    BY DEF ReturnSection
  <1>3. /\ has \in Pipelines /\ section \in has /\ DOMAIN graph = Section
        /\ Stacked(frames, stored, G, calls) /\ Registry(stored) /\ Closed(G, stored)
        /\ RootOf(frames, Root[section], SectionInputs(section, Passed(graph, section)))
        /\ \A s \in Before(section) : Whole(graph, s, G)
    BY <1>1 DEF TraceInv
  <1>4. "hom" \in has /\ has \subseteq Section /\ section \in Section /\ After(section) \subseteq has
    BY <1>3, SectionIs
  <1> DEFINE o == Composite(Top, v, Nothing)
             gr == [graph EXCEPT ![section] = o]
  <1>5. FrameGood(Top, stored, G) /\ IsOf(v, Top) /\ IsValue(v) /\ Top = frames[1]
    BY <1>1, <1>3, StackTop, ReturnsAre DEF Top
  <1>6. /\ IsOp(o) /\ o.output = Nothing /\ o.given = Top.given /\ o.inputs = Ids(Top.given)
        /\ o.names = Params[Top.block] /\ o.body = Info(v) /\ Good(o, Top.path, stored, G)
    BY <1>5, CompositeGood
  <1> HIDE DEF o
  <1>7. /\ Top.path = <<0>> /\ Top.block = Root[section]
        /\ Top.given = SectionInputs(section, Passed(graph, section))
    BY <1>3, <1>5 DEF RootOf
  <1>8. PICK H : H = G \cup {<<Bare(o), <<0>>>>}
    OBVIOUS
  <1>9. Closed(H, stored) /\ G \subseteq H /\ <<Bare(o), <<0>>>> \in H
    BY <1>3, <1>6, <1>7, <1>8, ClosedWith
  <1>10. /\ DOMAIN gr = Section /\ gr[section] = o
         /\ \A s \in Section : s # section => gr[s] = graph[s]
    BY <1>3, <1>4
  <1> HIDE DEF gr
  <1>11. traced' = Result(gr, section)
    <2>1. v = [id |-> v.id, term |-> v.term, maker |-> v.maker]
      BY <1>5 DEF IsValue, Value
    <2>2. [v EXCEPT !.maker = <<0>>] = [id |-> v.id, term |-> v.term, maker |-> <<0>>]
      BY <2>1
    <2>3. o.body.id = v.id /\ o.body.term = v.term
      BY <1>6 DEF Info
    <2> QED
      BY <1>2, <1>10, <2>2, <2>3 DEF Result, Value
  <1>12. ASSUME NEW s \in Before(section) \cup {section}
         PROVE  SectionInputs(s, Passed(gr, s)) = SectionInputs(s, Passed(graph, s))
    <2>1. CASE s = "client_pre"
      BY <2>1 DEF SectionInputs
    <2>2. CASE s = "hom"
      <3>1. section # "client_pre"
        BY <2>2 DEF Before
      <3> QED
        BY <1>10, <2>2, <3>1 DEF Passed, Result, Section
    <2>3. CASE s = "client_post"
      <3>1. section # "hom"
        BY <2>3 DEF Before
      <3> QED
        BY <1>10, <2>3, <3>1 DEF Passed, Result, Section
    <2> QED
      BY <1>4, <2>1, <2>2, <2>3 DEF Before, Section
  <1>13. \A s \in Before(section) \cup {section} : Whole(gr, s, H)
    <2>1. Whole(gr, section, H)
      BY <1>6, <1>7, <1>9, <1>10, <1>12 DEF Whole
    <2>2. ASSUME NEW s \in Before(section), s # section PROVE Whole(gr, s, H)
      <3>1. Whole(graph, s, H) /\ s \in Section
        BY <1>3, <1>4, <1>9, WholeStays DEF Before, Section
      <3>2. gr[s] = graph[s]
        BY <1>10, <2>2, <3>1
      <3> QED
        BY <1>12, <3>1, <3>2 DEF Whole
    <2> QED
      BY <2>1, <2>2
  <1>14. CASE After(section) = {}
    <2>1. stage' = "built" /\ section' = section
      BY <1>14 DEF ReturnSection
    <2>2. has = Before(section) \cup {section} /\ section = LastSection
      BY <1>3, <1>4, <1>14 DEF After, Before, LastSection, Section
    <2>3. \A s \in has : Whole(graph', s, H)
      BY <1>2, <1>13, <2>2 DEF gr, o
    <2>4. traced' = Result(graph', LastSection)
      BY <1>2, <1>11, <2>2 DEF gr, o
    <2>5. DOMAIN graph' = Section
      BY <1>2, <1>10 DEF gr, o
    <2>6. TraceInv(H)'
      BY ZenonT(30), <1>1, <1>3, <1>9, <2>1, <2>3, <2>4, <2>5 DEF TraceInv, Whole, SectionInputs, Given, LastSection
    <2> QED
      BY <2>6
  <1>15. CASE After(section) # {}
    <2>1. /\ section' \in After(section) /\ stage' = stage
          /\ frames' = <<Frame(Root[section'], <<0>>, SectionInputs(section', traced'))>>
      BY <1>15 DEF ReturnSection
    <2>2. PICK t \in After(section) : t = section'
      BY <2>1
    <2>3. /\ t \in has /\ Root[t] \in Block
          /\ Before(t) \subseteq Before(section) \cup {section}
      BY <1>3, <1>4, SectionIs DEF After, Before, Section
    <2>4. Passed(gr, t) = Result(gr, section)
      BY DEF Passed, After
    <2> DEFINE w == Result(gr, section)
               given == SectionInputs(t, w)
    <2>5. IsValue(w)
      BY ValueFields DEF Result
    <2> HIDE DEF w
    <2>6. /\ IsSequence(given) /\ Len(given) = Len(Params[Root[t]])
          /\ \A i \in 1..Len(given) : IsValue(given[i])
      BY <1>3, <2>3, <2>5, InputsAre
    <2> HIDE DEF given
    <2>7. calls \in 0..MaxOps
      BY <1>3 DEF Stacked
    <2>8. LET fs == <<Frame(Root[t], <<0>>, given)>> IN
          Stacked(fs, stored, H, calls) /\ RootOf(fs, Root[t], given)
      BY <2>3, <2>6, <2>7, StackBegins
    <2>9. frames' = <<Frame(Root[t], <<0>>, given)>>
      <3>1. SectionInputs(section', traced') = given
        BY <1>11, <2>2 DEF given, w
      <3> QED
        BY <2>1, <2>2, <3>1
    <2>10. Stacked(frames', stored', H, calls') /\ RootOf(frames', Root[t], given)
      BY <1>1, <2>8, <2>9
    <2>11. given = SectionInputs(t, Passed(gr, t))
      BY <2>4 DEF given, w
    <2>12. \A s \in Before(t) : Whole(gr, s, H)
      BY <1>13, <2>3
    <2>13. DOMAIN gr = Section /\ graph' = gr
      BY <1>2, <1>10 DEF gr, o
    <2>14. TraceInv(H)'
      BY ZenonT(30), <1>1, <1>3, <1>9, <2>1, <2>2, <2>3, <2>10, <2>11, <2>12, <2>13
         DEF TraceInv, Whole, SectionInputs, Given, Before
    <2> QED
      BY <2>14
  <1> QED
    BY <1>14, <1>15

-----------------------------------------------------------------------------
(* The reads of a recorded operator's operations, and the counts of them. *)

AllReads(o) == UNION {{i} \X DOMAIN o.ops[i].inputs : i \in DOMAIN o.ops}
Name(o, u) == o.ops[u[1]].inputs[u[2]]

\* The reads of n after the k-th operation, and the interpreter's count then.
Left(o, k, n) == {u \in AllReads(o) : u[1] > k /\ Name(o, u) = n}
Count(o, k, n) == Cardinality(Left(o, k, n)) + IF n = o.body.id THEN 1 ELSE 0

Read(o, a, b) == UNION {ToSet(o.ops[i].inputs) : i \in a..b}
Made(o, k) == ToSet(o.names) \cup {o.ops[i].output.id : i \in 1..k}
HeldAt(o, k) == Made(o, k) \ (Read(o, 1, k) \ (Read(o, k + 1, Len(o.ops)) \cup {o.body.id}))

\* What a recorded operation reads are values of its scope that were there.
LEMMA ReadsAre ==
    ASSUME NEW o, NEW path, NEW reg, NEW G, Good(o, path, reg, G), NEW j \in 1..Len(o.ops)
    PROVE  LET c == o.ops[j] IN
           /\ IsOp(c) /\ c.inputs = Ids(c.given) /\ IsSequence(c.given)
           /\ DOMAIN c.inputs = 1..Len(c.given) /\ DOMAIN c.given = 1..Len(c.given)
           /\ Len(c.given) \in Nat /\ Len(c.inputs) = Len(c.given)
           /\ \A p \in 1..Len(c.given) :
                  \E i \in 1..(Len(o.given) + j - 1) :
                      /\ c.inputs[p] = IdAt(o, i) /\ c.given[p] = ValueAt(o, path, i)
                      /\ c.given[p].term = TermAt(o, i) /\ c.given[p].id = IdAt(o, i)
                      /\ c.given[p].maker = MakerAt(o, path, i)
  <1> DEFINE c == o.ops[j]
  <1>1. Recorded(o, path, j, reg, G)
    BY DEF Good, Scoped
  <1>2. /\ IsOp(c) /\ IsSequence(c.given) /\ c.inputs = Ids(c.given)
        /\ \A p \in 1..Len(c.given) : \E i \in 1..(Len(o.given) + j - 1) : c.given[p] = ValueAt(o, path, i)
    BY <1>1 DEF Recorded
  <1>3. DOMAIN c.given = 1..Len(c.given) /\ Len(c.given) \in Nat
    BY <1>2, SequenceIs
  <1> HIDE DEF c
  <1>4. /\ c.inputs = [p \in 1..Len(c.given) |-> c.inputs[p]]
        /\ \A p \in 1..Len(c.given) : c.inputs[p] = c.given[p].id
    BY <1>2, <1>3 DEF Ids
  <1>5. DOMAIN c.inputs = 1..Len(c.given) /\ Len(c.inputs) = Len(c.given)
    <2> DEFINE m == Len(c.given)
               s == c.inputs
    <2>1. m \in Nat /\ s = [p \in 1..m |-> s[p]]
      BY <1>3, <1>4
    <2> HIDE DEF m, s
    <2>2. DOMAIN s = 1..m /\ Len(s) = m
      BY <2>1, MakesSequence
    <2> QED
      BY <2>2 DEF m, s
  <1>6. ASSUME NEW p \in 1..Len(c.given)
        PROVE  \E i \in 1..(Len(o.given) + j - 1) :
                   /\ c.inputs[p] = IdAt(o, i) /\ c.given[p] = ValueAt(o, path, i)
                   /\ c.given[p].term = TermAt(o, i) /\ c.given[p].id = IdAt(o, i)
                   /\ c.given[p].maker = MakerAt(o, path, i)
    <2>1. PICK i \in 1..(Len(o.given) + j - 1) : c.given[p] = ValueAt(o, path, i)
      BY <1>2
    <2>2. /\ ValueAt(o, path, i).id = IdAt(o, i) /\ ValueAt(o, path, i).term = TermAt(o, i)
          /\ ValueAt(o, path, i).maker = MakerAt(o, path, i)
      BY ValueFields DEF ValueAt
    <2> QED
      BY <1>4, <2>1, <2>2
  <1> QED
    BY <1>2, <1>3, <1>5, <1>6 DEF c

LEMMA PrefixFinite == ASSUME NEW n \in Nat PROVE IsFiniteSet(1..n)
  <1>1. 1 \in Int /\ n \in Int
    OBVIOUS
  <1> QED
    BY <1>1, FS_Interval

LEMMA ReadsFinite ==
    ASSUME NEW o, NEW path, NEW reg, NEW G, Good(o, path, reg, G)
    PROVE  /\ IsFiniteSet(AllReads(o)) /\ DOMAIN o.ops = 1..Len(o.ops) /\ Len(o.ops) \in Nat
           /\ \A i \in 1..Len(o.ops) : DOMAIN o.ops[i].inputs = 1..Len(o.ops[i].given)
  <1> DEFINE n == Len(o.ops)
             f == [i \in 1..n |-> {i} \X DOMAIN o.ops[i].inputs]
             S == {{i} \X DOMAIN o.ops[i].inputs : i \in 1..n}
  <1>1. n \in Nat /\ DOMAIN o.ops = 1..n
    BY SequenceIs DEF Good, Scoped
  <1>2. \A i \in 1..n : Len(o.ops[i].given) \in Nat /\ DOMAIN o.ops[i].inputs = 1..Len(o.ops[i].given)
    BY ReadsAre
  <1>3. AllReads(o) = UNION S
    BY <1>1 DEF AllReads
  <1>4. ASSUME NEW i \in 1..n PROVE IsFiniteSet({i} \X DOMAIN o.ops[i].inputs)
    <2>1. IsFiniteSet({i})
      BY FS_Singleton
    <2>2. IsFiniteSet(1..Len(o.ops[i].given))
      BY <1>2, PrefixFinite
    <2> QED
      BY <1>2, <2>1, <2>2, FS_Product
  <1>5. IsFiniteSet(S)
    <2>1. IsFiniteSet(1..n)
      BY <1>1, PrefixFinite
    <2>2. f \in Surjection(1..n, S)
      BY DEF Surjection
    <2> HIDE DEF f, S, n
    <2> QED
      BY <2>1, <2>2, FS_Surjection
  <1>6. \A T \in S : IsFiniteSet(T)
    BY <1>4
  <1> HIDE DEF S
  <1>7. IsFiniteSet(UNION S)
    BY <1>5, <1>6, FS_UNION
  <1> QED
    BY <1>1, <1>2, <1>3, <1>7

\* The count of a value is zero when nothing is left to read it.
LEMMA CountIs ==
    ASSUME NEW o, NEW path, NEW reg, NEW G, Good(o, path, reg, G), NEW k \in Nat, NEW n
    PROVE  /\ Count(o, k, n) \in Nat
           /\ Count(o, k, n) = 0 <=> n \notin Read(o, k + 1, Len(o.ops)) /\ n # o.body.id
  <1>1. IsFiniteSet(AllReads(o)) /\ DOMAIN o.ops = 1..Len(o.ops) /\ Len(o.ops) \in Nat
    BY ReadsFinite
  <1>2. IsFiniteSet(Left(o, k, n))
    <2>1. Left(o, k, n) \in SUBSET AllReads(o)
      BY DEF Left
    <2> QED
      BY <1>1, <2>1, FS_Subset
  <1>3. Cardinality(Left(o, k, n)) \in Nat /\ (Cardinality(Left(o, k, n)) = 0 <=> Left(o, k, n) = {})
    BY <1>2, FS_CardinalityType, FS_EmptySet
  <1>4. Left(o, k, n) = {} <=> n \notin Read(o, k + 1, Len(o.ops))
    <2>1. ASSUME NEW u \in Left(o, k, n) PROVE n \in Read(o, k + 1, Len(o.ops))
      <3>1. PICK i \in DOMAIN o.ops : u \in {i} \X DOMAIN o.ops[i].inputs
        BY DEF Left, AllReads
      <3>2. u[1] = i /\ u[2] \in DOMAIN o.ops[i].inputs /\ i > k /\ o.ops[i].inputs[u[2]] = n
        BY <3>1 DEF Left, Name
      <3>3. i \in (k + 1)..Len(o.ops)
        BY <1>1, <3>2
      <3> QED
        BY <3>2, <3>3 DEF Read, ToSet
    <2>2. ASSUME n \in Read(o, k + 1, Len(o.ops)) PROVE Left(o, k, n) # {}
      <3>1. PICK i \in (k + 1)..Len(o.ops) : n \in ToSet(o.ops[i].inputs)
        BY <2>2 DEF Read
      <3>2. PICK p \in DOMAIN o.ops[i].inputs : o.ops[i].inputs[p] = n
        BY <3>1 DEF ToSet
      <3>3. i \in DOMAIN o.ops /\ i > k
        BY <1>1
      <3>4. <<i, p>> \in AllReads(o)
        BY <3>3 DEF AllReads
      <3>5. <<i, p>> \in Left(o, k, n)
        BY <3>2, <3>3, <3>4 DEF Left, Name
      <3> QED
        BY <3>5
    <2> QED
      BY <2>1, <2>2
  <1> QED
    BY <1>3, <1>4 DEF Count

\* An operation takes its own reads off the count.
LEMMA CountStep ==
    ASSUME NEW o, NEW path, NEW reg, NEW G, Good(o, path, reg, G), NEW k \in Nat, k < Len(o.ops), NEW n
    PROVE  LET c == o.ops[k + 1] IN
           Count(o, k + 1, n) = Count(o, k, n) - Cardinality({p \in DOMAIN c.inputs : c.inputs[p] = n})
  <1> DEFINE c == o.ops[k + 1]
             P == {p \in DOMAIN c.inputs : c.inputs[p] = n}
             T == {k + 1} \X P
             S == Left(o, k + 1, n)
  <1>1. IsFiniteSet(AllReads(o)) /\ DOMAIN o.ops = 1..Len(o.ops) /\ Len(o.ops) \in Nat
    BY ReadsFinite
  <1>2. k + 1 \in DOMAIN o.ops
    BY <1>1
  <1>3. Left(o, k, n) = S \cup T /\ S \cap T = {}
    <2>1. ASSUME NEW u \in Left(o, k, n) PROVE u \in S \cup T
      <3>1. PICK i \in DOMAIN o.ops : u \in {i} \X DOMAIN o.ops[i].inputs
        BY DEF Left, AllReads
      <3>2. u[1] = i /\ u = <<i, u[2]>> /\ u[2] \in DOMAIN o.ops[i].inputs /\ i > k /\ o.ops[i].inputs[u[2]] = n
        BY <3>1 DEF Left, Name
      <3>3. i = k + 1 \/ i > k + 1
        BY <1>1, <3>2
      <3>4. CASE i = k + 1
        BY <3>2, <3>4
      <3>5. CASE i > k + 1
        BY <3>2, <3>5 DEF Left
      <3> QED
        BY <3>3, <3>4, <3>5
    <2>2. ASSUME NEW u \in S PROVE u \in Left(o, k, n) /\ u[1] > k + 1
      <3>1. PICK i \in DOMAIN o.ops : u \in {i} \X DOMAIN o.ops[i].inputs
        BY DEF Left, AllReads
      <3>2. u[1] = i /\ i > k + 1 /\ i \in Nat
        BY <1>1, <3>1 DEF Left
      <3> QED
        BY <3>2 DEF Left
    <2>3. ASSUME NEW u \in T PROVE u \in Left(o, k, n) /\ u[1] = k + 1
      <3>1. u[1] = k + 1 /\ u = <<k + 1, u[2]>> /\ u[2] \in DOMAIN c.inputs /\ c.inputs[u[2]] = n
        OBVIOUS
      <3>2. u \in AllReads(o)
        BY <1>2, <3>1 DEF AllReads
      <3>3. Name(o, u) = n
        BY <3>1 DEF Name
      <3> QED
        BY <3>1, <3>2, <3>3 DEF Left
    <2>4. \A u : ~(u[1] > k + 1 /\ u[1] = k + 1)
      <3>1. \A x : x = k + 1 => ~(x > k + 1)
        OBVIOUS
      <3> QED
        BY <3>1
    <2> HIDE DEF S, T
    <2> QED
      BY <2>1, <2>2, <2>3, <2>4
  <1>4. IsFiniteSet(S) /\ IsFiniteSet(P)
    <2>1. S \in SUBSET AllReads(o)
      BY DEF Left
    <2>2. DOMAIN c.inputs = 1..Len(c.given) /\ Len(c.given) \in Nat
      BY <1>1, <1>2, ReadsAre
    <2>3. IsFiniteSet(DOMAIN c.inputs) /\ P \in SUBSET DOMAIN c.inputs
      BY <2>2, PrefixFinite
    <2> HIDE DEF S, P, c
    <2> QED
      BY <1>1, <2>1, <2>3, FS_Subset
  <1>5. IsFiniteSet(T) /\ Cardinality(T) = Cardinality(P)
    <2>1. IsFiniteSet({k + 1}) /\ Cardinality({k + 1}) = 1
      BY FS_Singleton
    <2> HIDE DEF P
    <2>2. IsFiniteSet(T) /\ Cardinality(T) = 1 * Cardinality(P)
      BY <1>4, <2>1, FS_Product
    <2>3. Cardinality(P) \in Nat
      BY <1>4, FS_CardinalityType
    <2> QED
      BY <2>2, <2>3
  <1> HIDE DEF S, T, P
  <1>6. Cardinality(Left(o, k, n)) = Cardinality(S) + Cardinality(P)
    <2>1. Cardinality(S \cup T) = Cardinality(S) + Cardinality(T) - Cardinality(S \cap T)
      BY <1>4, <1>5, FS_Union
    <2>2. Cardinality(S \cap T) = 0 /\ Cardinality(S) \in Nat /\ Cardinality(P) \in Nat
      BY <1>3, <1>4, FS_EmptySet, FS_CardinalityType
    <2> QED
      BY <1>3, <1>5, <2>1, <2>2
  <1>7. Cardinality(S) \in Nat /\ Cardinality(P) \in Nat
    BY <1>4, FS_CardinalityType
  <1>8. Count(o, k + 1, n) = Count(o, k, n) - Cardinality(P)
    BY <1>6, <1>7 DEF Count, S
  <1> QED
    BY <1>8 DEF P

-----------------------------------------------------------------------------
(* A scope that runs. *)

RunGood(f, path, G) ==
    /\ f = [op |-> f.op, k |-> f.k, uses |-> f.uses, env |-> f.env]
    /\ IsOp(f.op) /\ <<Bare(f.op), path>> \in G /\ f.k \in 0..Len(f.op.ops)
    /\ DOMAIN f.uses = DOMAIN Uses(f.op) /\ \A n \in DOMAIN f.uses : f.uses[n] = Count(f.op, f.k, n)
    /\ DOMAIN f.env = HeldAt(f.op, f.k)
    /\ \A i \in 1..(Len(f.op.given) + f.k) :
           IdAt(f.op, i) \in DOMAIN f.env => f.env[IdAt(f.op, i)] = TermAt(f.op, i)

LEMMA GoodIs ==
    ASSUME NEW o, NEW path, NEW reg, NEW G, Good(o, path, reg, G)
    PROVE  /\ Len(o.given) \in Nat \ {0} /\ Len(o.ops) \in Nat /\ Len(o.names) = Len(o.given)
           /\ Size(o) = Len(o.given) + Len(o.ops)
           /\ IsSequence(o.names) /\ IsSequence(o.given) /\ IsSequence(o.ops)
           /\ DOMAIN o.names = 1..Len(o.given) /\ DOMAIN o.given = 1..Len(o.given)
           /\ DOMAIN o.ops = 1..Len(o.ops)
           /\ \A i, j \in 1..(Len(o.given) + Len(o.ops)) : IdAt(o, i) = IdAt(o, j) => i = j
           /\ \A i \in 1..Len(o.given) : /\ IdAt(o, i) = o.names[i] /\ TermAt(o, i) = o.given[i].term
                                         /\ MakerAt(o, path, i) = o.given[i].maker
           /\ \A j \in 1..Len(o.ops) : /\ IdAt(o, Len(o.given) + j) = o.ops[j].output.id
                                       /\ TermAt(o, Len(o.given) + j) = o.ops[j].output.term
                                       /\ MakerAt(o, path, Len(o.given) + j) = Append(path, j - 1)
           /\ \E i \in 1..(Len(o.given) + Len(o.ops)) :
                  o.body.id = IdAt(o, i) /\ o.body.term = TermAt(o, i) /\ o.body = Info(ValueAt(o, path, i))
  <1> DEFINE n == Len(o.given)
             m == Len(o.ops)
  <1>1. Scoped(o, path, reg, G)
    BY DEF Good
  <1>2. /\ n \in Nat \ {0} /\ m \in Nat /\ Size(o) = n + m /\ Len(o.names) = n
        /\ IsSequence(o.names) /\ IsSequence(o.given) /\ IsSequence(o.ops)
    BY <1>1, ScopedLengths DEF Scoped, Size
  <1>3. DOMAIN o.names = 1..n /\ DOMAIN o.given = 1..n /\ DOMAIN o.ops = 1..m
    BY <1>2, SequenceIs
  <1>4. \A i, j \in 1..(n + m) : IdAt(o, i) = IdAt(o, j) => i = j
    BY <1>1, <1>2 DEF Scoped
  <1>5. \A i \in 1..n : /\ IdAt(o, i) = o.names[i] /\ TermAt(o, i) = o.given[i].term
                        /\ MakerAt(o, path, i) = o.given[i].maker
    BY <1>2 DEF IdAt, TermAt, MakerAt
  <1>6. ASSUME NEW j \in 1..m
        PROVE  /\ IdAt(o, n + j) = o.ops[j].output.id /\ TermAt(o, n + j) = o.ops[j].output.term
               /\ MakerAt(o, path, n + j) = Append(path, j - 1)
    <2>1. n = Len(o.given)
      OBVIOUS
    <2> HIDE DEF n, m
    <2>2. ~(n + j <= n) /\ (n + j) - n = j
      BY <1>2
    <2> QED
      BY <2>1, <2>2 DEF IdAt, TermAt, MakerAt
  <1>7. \E i \in 1..(n + m) : o.body.id = IdAt(o, i) /\ o.body.term = TermAt(o, i) /\ o.body = Info(ValueAt(o, path, i))
    <2>1. PICK i \in 1..Size(o) : o.body = Info(ValueAt(o, path, i))
      BY DEF Good
    <2>2. Info(ValueAt(o, path, i)).id = IdAt(o, i) /\ Info(ValueAt(o, path, i)).term = TermAt(o, i)
      BY DEF Info, ValueAt, Value
    <2> HIDE DEF n, m
    <2>3. i \in 1..(n + m)
      BY <1>2
    <2> QED
      BY <2>1, <2>2, <2>3
  <1> QED
    BY <1>2, <1>3, <1>4, <1>5, <1>6, <1>7

\* The values there are after k operations.
LEMMA MadeIs ==
    ASSUME NEW o, NEW path, NEW reg, NEW G, Good(o, path, reg, G), NEW k \in 0..Len(o.ops)
    PROVE  Made(o, k) = {IdAt(o, i) : i \in 1..(Len(o.given) + k)}
  <1> DEFINE n == Len(o.given)
             m == Len(o.ops)
  <1>1. /\ n \in Nat \ {0} /\ m \in Nat /\ DOMAIN o.names = 1..n
        /\ \A i \in 1..n : IdAt(o, i) = o.names[i]
        /\ \A j \in 1..m : IdAt(o, n + j) = o.ops[j].output.id
    BY GoodIs
  <1> HIDE DEF n, m
  <1>2. k \in 0..m
    BY DEF m
  <1>3. ASSUME NEW x \in Made(o, k) PROVE \E i \in 1..(n + k) : x = IdAt(o, i)
    <2>1. CASE x \in ToSet(o.names)
      <3>1. PICK i \in 1..n : x = o.names[i]
        BY <1>1, <2>1 DEF ToSet
      <3>2. i \in 1..(n + k)
        BY <1>1, <1>2
      <3> QED
        BY <1>1, <3>1, <3>2
    <2>2. CASE x \in {o.ops[i].output.id : i \in 1..k}
      <3>1. PICK i \in 1..k : x = o.ops[i].output.id
        BY <2>2
      <3>2. i \in 1..m /\ n + i \in 1..(n + k)
        BY <1>1, <1>2
      <3> QED
        BY <1>1, <3>1, <3>2
    <2> QED
      BY <2>1, <2>2 DEF Made
  <1>4. ASSUME NEW i \in 1..(n + k) PROVE IdAt(o, i) \in Made(o, k)
    <2>1. CASE i <= n
      BY <1>1, <2>1 DEF Made, ToSet
    <2>2. CASE ~(i <= n)
      <3>1. i - n \in 1..k /\ i - n \in 1..m /\ n + (i - n) = i
        BY <1>1, <1>2, <2>2
      <3>2. IdAt(o, n + (i - n)) = o.ops[i - n].output.id
        BY <1>1, <3>1
      <3>3. IdAt(o, i) = o.ops[i - n].output.id
        BY <3>1, <3>2
      <3> QED
        BY <3>1, <3>3 DEF Made
    <2> QED
      BY <2>1, <2>2
  <1> QED
    BY <1>3, <1>4 DEF n

LEMMA RunBegins ==
    ASSUME NEW o, IsOp(o), NEW path, NEW reg, NEW G, Good(o, path, reg, G), <<Bare(o), path>> \in G
    PROVE  RunGood(RunFrame(o, Terms(o.given)), path, G)
  <1> DEFINE f == RunFrame(o, Terms(o.given))
             n == Len(o.given)
  <1>1. /\ f.op = o /\ f.k = 0 /\ f.uses = Uses(o)
        /\ f = [op |-> f.op, k |-> f.k, uses |-> f.uses, env |-> f.env]
        /\ f.env = [x \in ToSet(o.names) |-> Terms(o.given)[Position(o.names, x)]]
    BY DEF RunFrame, Position
  <1> HIDE DEF f
  <1>2. /\ n \in Nat \ {0} /\ Len(o.ops) \in Nat /\ Len(o.names) = n /\ IsSequence(o.names)
        /\ DOMAIN o.names = 1..n /\ DOMAIN o.given = 1..n
        /\ \A i \in 1..n : IdAt(o, i) = o.names[i] /\ TermAt(o, i) = o.given[i].term
    BY GoodIs
  <1>3. \A i, j \in 1..n : IdAt(o, i) = IdAt(o, j) => i = j
    <2>1. \A i, j \in 1..(n + Len(o.ops)) : IdAt(o, i) = IdAt(o, j) => i = j
      BY GoodIs
    <2>2. \A x, y \in Nat : \A i \in 1..x : i \in 1..(x + y)
      OBVIOUS
    <2> QED
      BY <1>2, <2>1, <2>2
  <1>4. f.k \in 0..Len(f.op.ops)
    BY <1>1, <1>2
  <1>5. \A x \in DOMAIN f.uses : f.uses[x] = Count(f.op, f.k, x)
    <2>1. DOMAIN o.ops = 1..Len(o.ops)
      BY ReadsFinite
    <2>2. \A u \in AllReads(o) : u[1] > 0
      BY <2>1 DEF AllReads
    <2>3. \A x : Left(o, 0, x) = {u \in AllReads(o) : Name(o, u) = x}
      BY <2>2 DEF Left
    <2>4. \A x \in DOMAIN Uses(o) :
              Uses(o)[x] = Cardinality({u \in AllReads(o) : Name(o, u) = x}) + IF x = o.body.id THEN 1 ELSE 0
      BY DEF Uses, AllReads, Name
    <2> QED
      BY <1>1, <2>3, <2>4 DEF Count
  <1>6. DOMAIN f.env = HeldAt(f.op, f.k)
    <2>1. 1..0 = {}
      OBVIOUS
    <2> QED
      BY <1>1, <2>1 DEF HeldAt, Made, Read
  <1>7. \A i \in 1..(Len(f.op.given) + f.k) : f.env[IdAt(f.op, i)] = TermAt(f.op, i)
    <2>1. ASSUME NEW i \in 1..n PROVE f.env[IdAt(o, i)] = TermAt(o, i)
      <3>1. IdAt(o, i) = o.names[i] /\ o.names[i] \in ToSet(o.names)
        BY <1>2 DEF ToSet
      <3> DEFINE q == Position(o.names, o.names[i])
      <3>2. q \in 1..n /\ o.names[q] = o.names[i]
        BY <1>2, PositionIs
      <3>3. q = i
        BY <1>2, <1>3, <3>2
      <3>4. Terms(o.given)[i] = o.given[i].term
        BY <1>2 DEF Terms
      <3>5. f.env[o.names[i]] = Terms(o.given)[q]
        BY <1>1, <3>1
      <3> QED
        BY <1>2, <3>1, <3>3, <3>4, <3>5
    <2>2. Len(f.op.given) + f.k = n
      BY <1>1, <1>2
    <2> QED
      BY <1>1, <2>1, <2>2
  <1> QED
    BY <1>1, <1>4, <1>5, <1>6, <1>7 DEF RunGood, f

\* What the next operation reads is there, with the values it was recorded on.
LEMMA RunReads ==
    ASSUME NEW f, NEW path, NEW reg, NEW G, RunGood(f, path, G), Good(f.op, path, reg, G),
           f.k < Len(f.op.ops)
    PROVE  /\ f.k \in Nat /\ f.k + 1 \in 1..Len(f.op.ops)
           /\ ToSet(Child(f).inputs) \subseteq DOMAIN f.env
           /\ ToSet(Child(f).inputs) \subseteq DOMAIN f.uses
           /\ Values(f) = Terms(Child(f).given)
  <1> DEFINE o == f.op
             k == f.k
             n == Len(o.given)
             c == Child(f)
  <1>1. k \in Nat /\ k \in 0..Len(o.ops) /\ k + 1 \in 1..Len(o.ops) /\ (k + 1) - 1 = k /\ c = o.ops[k + 1]
        /\ Len(o.ops) \in Nat /\ n \in Nat
    <2>1. k \in 0..Len(o.ops) /\ Len(o.ops) \in Nat /\ n \in Nat
      BY GoodIs DEF RunGood
    <2> QED
      BY <2>1 DEF Child
  <1>2. /\ DOMAIN c.inputs = 1..Len(c.given) /\ DOMAIN c.given = 1..Len(c.given)
        /\ \A p \in 1..Len(c.given) :
               \E i \in 1..(n + (k + 1) - 1) : c.inputs[p] = IdAt(o, i) /\ c.given[p].term = TermAt(o, i)
    <2>1. PICK j \in 1..Len(o.ops) : j = k + 1
      BY <1>1
    <2> DEFINE d == o.ops[j]
    <2>2. /\ DOMAIN d.inputs = 1..Len(d.given) /\ DOMAIN d.given = 1..Len(d.given)
          /\ \A p \in 1..Len(d.given) :
                 \E i \in 1..(n + j - 1) : d.inputs[p] = IdAt(o, i) /\ d.given[p].term = TermAt(o, i)
      <3>1. /\ DOMAIN d.inputs = 1..Len(d.given) /\ DOMAIN d.given = 1..Len(d.given)
            /\ \A p \in 1..Len(d.given) :
                   \E i \in 1..(Len(o.given) + j - 1) :
                       /\ d.inputs[p] = IdAt(o, i) /\ d.given[p] = ValueAt(o, path, i)
                       /\ d.given[p].term = TermAt(o, i) /\ d.given[p].id = IdAt(o, i)
                       /\ d.given[p].maker = MakerAt(o, path, i)
        <4>1. Good(o, path, reg, G)
          OBVIOUS
        <4> HIDE DEF o
        <4> QED
          BY <4>1, ReadsAre
      <3> HIDE DEF d, o
      <3> QED
        BY <3>1
    <2>3. d = c
      BY <1>1, <2>1
    <2> HIDE DEF c, d, n
    <2> QED
      BY <2>1, <2>2, <2>3
  <1>3. n + (k + 1) - 1 = n + k
    BY <1>1
  <1>4. Made(o, k) = {IdAt(o, i) : i \in 1..(n + k)}
    BY <1>1, MadeIs
  <1>5. ASSUME NEW p \in 1..Len(c.given)
        PROVE  /\ c.inputs[p] \in DOMAIN f.env /\ c.inputs[p] \in DOMAIN f.uses
               /\ f.env[c.inputs[p]] = c.given[p].term
    <2>1. PICK i \in 1..(n + k) : c.inputs[p] = IdAt(o, i) /\ c.given[p].term = TermAt(o, i)
      BY <1>2, <1>3
    <2>2. c.inputs[p] \in Made(o, k)
      BY <1>4, <2>1
    <2>3. c.inputs[p] \in Read(o, k + 1, Len(o.ops))
      <3>1. k + 1 \in (k + 1)..Len(o.ops) /\ c.inputs[p] \in ToSet(o.ops[k + 1].inputs)
        <4>1. k + 1 \in (k + 1)..Len(o.ops)
          BY <1>1
        <4> HIDE DEF c, k, o
        <4>2. c.inputs[p] \in ToSet(c.inputs)
          BY <1>2 DEF ToSet
        <4> QED
          BY <1>1, <4>1, <4>2
      <3> QED
        BY <3>1 DEF Read
    <2>4. c.inputs[p] \in DOMAIN f.env
      BY <2>2, <2>3 DEF RunGood, HeldAt
    <2>5. f.env[c.inputs[p]] = TermAt(o, i)
      BY <2>1, <2>4 DEF RunGood
    <2>6. c.inputs[p] \in DOMAIN f.uses
      <3>1. k + 1 \in DOMAIN o.ops
        BY <1>1, GoodIs
      <3>2. <<k + 1, p>> \in AllReads(o) /\ Name(o, <<k + 1, p>>) = c.inputs[p]
        <4> HIDE DEF c, k, o
        <4>1. <<k + 1, p>> \in {k + 1} \X DOMAIN o.ops[k + 1].inputs
          BY <1>1, <1>2
        <4> QED
          BY <1>1, <3>1, <4>1 DEF AllReads, Name
      <3>3. DOMAIN Uses(o) = {Name(o, u) : u \in AllReads(o)} \cup {o.body.id}
        BY DEF Uses, AllReads, Name
      <3>4. c.inputs[p] \in DOMAIN Uses(o)
        BY <3>2, <3>3
      <3> QED
        BY <3>4 DEF RunGood
    <2> QED
      BY <2>1, <2>4, <2>5, <2>6
  <1>6. Values(f) = Terms(c.given)
    BY <1>2, <1>5 DEF Values, Terms
  <1> QED
    BY <1>1, <1>2, <1>5, <1>6 DEF ToSet

LEMMA LeftIs ==
    ASSUME NEW f, NEW path, NEW reg, NEW G, RunGood(f, path, G), Good(f.op, path, reg, G),
           f.k < Len(f.op.ops)
    PROVE  /\ DOMAIN LeftAfter(f) = DOMAIN Uses(f.op)
           /\ \A n \in DOMAIN Uses(f.op) :
                  /\ LeftAfter(f)[n] = Count(f.op, f.k + 1, n)
                  /\ LeftAfter(f)[n] = 0 <=> n \notin Read(f.op, f.k + 2, Len(f.op.ops)) /\ n # f.op.body.id
  <1> DEFINE o == f.op
             k == f.k
             c == o.ops[k + 1]
  <1>1. k \in Nat /\ Good(o, path, reg, G) /\ k < Len(o.ops) /\ k + 1 \in Nat /\ (k + 1) + 1 = k + 2
    <2>1. k \in Nat
      BY RunReads
    <2>2. k + 1 \in Nat /\ (k + 1) + 1 = k + 2
      <3> HIDE DEF k
      <3> QED
        BY <2>1
    <2> QED
      BY <2>1, <2>2
  <1>2. /\ DOMAIN f.uses = DOMAIN Uses(o) /\ \A n \in DOMAIN f.uses : f.uses[n] = Count(o, k, n)
    BY DEF RunGood
  <1>3. LeftAfter(f) = [n \in DOMAIN f.uses |-> f.uses[n] - Cardinality({p \in DOMAIN c.inputs : c.inputs[p] = n})]
    BY DEF LeftAfter, Child
  <1>4. \A n : Count(o, k + 1, n) = Count(o, k, n) - Cardinality({p \in DOMAIN c.inputs : c.inputs[p] = n})
    <2> HIDE DEF o, k
    <2> QED
      BY <1>1, CountStep
  <1>5. \A n : Count(o, k + 1, n) = 0 <=> n \notin Read(o, (k + 1) + 1, Len(o.ops)) /\ n # o.body.id
    <2> HIDE DEF o, k
    <2> QED
      BY <1>1, CountIs
  <1> HIDE DEF c
  <1>6. \A n \in DOMAIN f.uses : LeftAfter(f)[n] = Count(o, k + 1, n)
    BY <1>2, <1>3, <1>4
  <1> QED
    BY <1>1, <1>2, <1>3, <1>5, <1>6

\* What is read is held, what is put out is new.
LEMMA HeldStep ==
    ASSUME NEW o, NEW path, NEW reg, NEW G, Good(o, path, reg, G), NEW k \in Nat, k < Len(o.ops),
           NEW gone, gone = {n \in ToSet(o.ops[k + 1].inputs) :
                                 n \notin Read(o, k + 2, Len(o.ops)) /\ n # o.body.id}
    PROVE  /\ HeldAt(o, k + 1) = (HeldAt(o, k) \cup {o.ops[k + 1].output.id}) \ gone
           /\ o.ops[k + 1].output.id \notin Made(o, k)
  <1> DEFINE n == Len(o.given)
             m == Len(o.ops)
             c == o.ops[k + 1]
             new == c.output.id
             now == ToSet(c.inputs)
  <1>1. /\ n \in Nat \ {0} /\ m \in Nat /\ k + 1 \in 1..m /\ k \in 0..m /\ k + 1 \in 0..m
        /\ \A i, j \in 1..(n + m) : IdAt(o, i) = IdAt(o, j) => i = j
        /\ \A j \in 1..m : IdAt(o, n + j) = o.ops[j].output.id
    <2>1. /\ n \in Nat \ {0} /\ m \in Nat
          /\ \A i, j \in 1..(n + m) : IdAt(o, i) = IdAt(o, j) => i = j
          /\ \A j \in 1..m : IdAt(o, n + j) = o.ops[j].output.id
      BY GoodIs
    <2>2. k < m
      OBVIOUS
    <2> HIDE DEF m, n
    <2>3. k + 1 \in 1..m /\ k \in 0..m /\ k + 1 \in 0..m
      BY <2>1, <2>2
    <2> QED
      BY <2>1, <2>3
  <1>2. Made(o, k) = {IdAt(o, i) : i \in 1..(n + k)}
    <2>1. k \in 0..Len(o.ops) /\ Made(o, k) = Made(o, k)
      BY <1>1
    <2>2. Made(o, k) = {IdAt(o, i) : i \in 1..(Len(o.given) + k)}
      BY ONLY <2>1, MadeIs, Good(o, path, reg, G)
    <2> QED
      BY <2>2
  <1>3. ASSUME NEW j \in 1..(k + 1) PROVE ToSet(o.ops[j].inputs) \subseteq Made(o, k)
    <2> DEFINE d == o.ops[j]
    <2>1. j \in 1..m
      BY <1>1
    <2>2. /\ DOMAIN d.inputs = 1..Len(d.given)
          /\ \A p \in 1..Len(d.given) : \E i \in 1..(n + j - 1) : d.inputs[p] = IdAt(o, i)
      BY <2>1, ReadsAre
    <2> HIDE DEF d, n
    <2>3. \A i \in 1..(n + j - 1) : i \in 1..(n + k)
      BY <1>1
    <2> QED
      BY <1>2, <2>2, <2>3 DEF ToSet, d, n
  <1> HIDE DEF n, m
  <1>4. new \notin Made(o, k)
    <2>1. new = IdAt(o, n + (k + 1)) /\ n + (k + 1) \in 1..(n + m)
      BY <1>1
    <2>2. \A i \in 1..(n + k) : i \in 1..(n + m) /\ i # n + (k + 1)
      BY <1>1
    <2>3. Made(o, k) = {IdAt(o, i) : i \in 1..(n + k)}
      BY <1>2 DEF n
    <2> HIDE DEF new
    <2> QED
      BY <1>1, <2>1, <2>2, <2>3
  <1>5. Read(o, 1, k) \subseteq Made(o, k) /\ now \subseteq Made(o, k)
    <2>1. \A j \in 1..k : j \in 1..(k + 1)
      BY <1>1
    <2>2. k + 1 \in 1..(k + 1)
      BY <1>1
    <2> QED
      BY <1>3, <2>1, <2>2 DEF Read
  <1>6. Read(o, 1, k + 1) = Read(o, 1, k) \cup now
    <2>1. 1..(k + 1) = 1..k \cup {k + 1}
      BY <1>1
    <2> QED
      BY <2>1 DEF Read
  <1>7. Read(o, k + 1, m) = Read(o, k + 2, m) \cup now
    <2>1. (k + 1)..m = (k + 2)..m \cup {k + 1}
      BY <1>1
    <2> QED
      BY <2>1 DEF Read
  <1>8. Made(o, k + 1) = Made(o, k) \cup {new}
    <2>1. 1..(k + 1) = 1..k \cup {k + 1}
      BY <1>1
    <2> QED
      BY <2>1 DEF Made
  <1>9. (k + 1) + 1 = k + 2 /\ m = Len(o.ops)
    BY DEF m
  <1>10. gone = {x \in now : x \notin Read(o, k + 2, m) /\ x # o.body.id}
    BY DEF m
  <1> HIDE DEF new, now, c
  <1>11. HeldAt(o, k) = Made(o, k) \ (Read(o, 1, k) \ (Read(o, k + 1, m) \cup {o.body.id}))
    BY <1>9 DEF HeldAt
  <1>12. HeldAt(o, k + 1) = Made(o, k + 1) \ (Read(o, 1, k + 1) \ (Read(o, k + 2, m) \cup {o.body.id}))
    BY <1>9 DEF HeldAt
  <1>13. HeldAt(o, k + 1) = (HeldAt(o, k) \cup {new}) \ gone
    <2> DEFINE M == Made(o, k)
               R == Read(o, 1, k)
               L == Read(o, k + 2, m)
               b == o.body.id
    <2>1. /\ HeldAt(o, k) = M \ (R \ (L \cup now \cup {b}))
          /\ HeldAt(o, k + 1) = (M \cup {new}) \ ((R \cup now) \ (L \cup {b}))
          /\ R \subseteq M /\ now \subseteq M /\ new \notin M
          /\ gone = {x \in now : x \notin L /\ x # b}
      BY <1>4, <1>5, <1>6, <1>7, <1>8, <1>10, <1>11, <1>12
    <2> HIDE DEF M, R, L, b
    <2> QED
      BY <2>1
  <1> QED
    BY <1>4, <1>13 DEF new, c

\* An operation that yields the value it was recorded with leaves the scope as it
\* should be after it.
LEMMA RunSteps ==
    ASSUME NEW f, NEW path, NEW reg, NEW G, RunGood(f, path, G), Good(f.op, path, reg, G),
           f.k < Len(f.op.ops), NEW value, value = Child(f).output.term
    PROVE  LET h == Yielded(f, value) IN RunGood(h, path, G) /\ h.op = f.op /\ h.k = f.k + 1
  <1> DEFINE o == f.op
             k == f.k
             n == Len(o.given)
             c == o.ops[k + 1]
             new == c.output.id
             left == LeftAfter(f)
             gone == {x \in ToSet(c.inputs) : left[x] = 0}
             held == (DOMAIN f.env \cup {new}) \ gone
             env == [x \in held |-> IF x = new THEN value ELSE f.env[x]]
             h == Yielded(f, value)
  <1>1. k \in Nat /\ k + 1 \in 1..Len(o.ops) /\ ToSet(c.inputs) \subseteq DOMAIN Uses(o) /\ Good(o, path, reg, G)
        /\ k < Len(o.ops)
    BY RunReads DEF Child, RunGood
  <1>2. /\ h.op = o /\ h.k = k + 1 /\ h.uses = left /\ h.env = env
        /\ h = [op |-> h.op, k |-> h.k, uses |-> h.uses, env |-> h.env]
    <2>1. c = Child(f)
      BY DEF Child
    <2>2. h = [f EXCEPT !.k = k + 1, !.uses = left, !.env = env]
      BY <2>1 DEF Yielded
    <2>3. f = [op |-> f.op, k |-> f.k, uses |-> f.uses, env |-> f.env]
      BY DEF RunGood
    <2> HIDE DEF h, env, left, c
    <2>4. h = [op |-> f.op, k |-> k + 1, uses |-> left, env |-> env]
      BY <2>2, <2>3
    <2> QED
      BY <2>4
  <1> HIDE DEF h
  <1>3. /\ DOMAIN left = DOMAIN Uses(o)
        /\ \A x \in DOMAIN Uses(o) :
               /\ left[x] = Count(o, k + 1, x)
               /\ left[x] = 0 <=> x \notin Read(o, k + 2, Len(o.ops)) /\ x # o.body.id
    BY LeftIs
  <1> HIDE DEF left
  <1>4. gone = {x \in ToSet(c.inputs) : x \notin Read(o, k + 2, Len(o.ops)) /\ x # o.body.id}
    BY <1>1, <1>3
  <1> HIDE DEF gone
  <1>5. HeldAt(o, k + 1) = (HeldAt(o, k) \cup {new}) \ gone /\ new \notin Made(o, k)
    <2> HIDE DEF o, k
    <2> QED
      BY <1>1, <1>4, HeldStep
  <1>6. DOMAIN f.env = HeldAt(o, k)
    BY DEF RunGood
  <1>7. DOMAIN env = HeldAt(o, k + 1)
    BY <1>5, <1>6
  <1>8. /\ n \in Nat \ {0} /\ Made(o, k) = {IdAt(o, i) : i \in 1..(n + k)}
        /\ IdAt(o, n + (k + 1)) = new /\ TermAt(o, n + (k + 1)) = value /\ k \in 0..Len(o.ops)
    <2>1. Len(o.ops) \in Nat /\ k \in 0..Len(o.ops)
      BY DEF RunGood
    <2>2. value = c.output.term
      BY DEF Child
    <2>3. Made(o, k) = {IdAt(o, i) : i \in 1..(n + k)}
      <3>1. Good(o, path, reg, G)
        BY <1>1
      <3> HIDE DEF o, k
      <3> QED
        BY <2>1, <3>1, MadeIs DEF n
    <2>4. n \in Nat \ {0} /\ \A j \in 1..Len(o.ops) : IdAt(o, n + j) = o.ops[j].output.id
                                                  /\ TermAt(o, n + j) = o.ops[j].output.term
      <3>1. Good(o, path, reg, G)
        BY <1>1
      <3> HIDE DEF o
      <3> QED
        BY <3>1, GoodIs DEF n
    <2> QED
      BY <1>1, <2>1, <2>2, <2>3, <2>4
  <1>9. ASSUME NEW i \in 1..(n + (k + 1)), IdAt(o, i) \in DOMAIN env
        PROVE  env[IdAt(o, i)] = TermAt(o, i)
    <2>1. CASE i = n + (k + 1)
      <3>1. IdAt(o, i) = new /\ TermAt(o, i) = value
        BY <1>8, <2>1
      <3> HIDE DEF new
      <3> QED
        BY <1>9, <3>1
    <2>2. CASE i # n + (k + 1)
      <3>1. i \in 1..(n + k)
        <4> HIDE DEF n, k
        <4>0. k \in Nat /\ n \in Nat
          BY <1>1, <1>8
        <4> QED
          BY <2>2, <4>0
      <3>2. IdAt(o, i) \in Made(o, k)
        BY <1>8, <3>1
      <3>3. IdAt(o, i) # new
        BY <1>5, <3>2
      <3>4. IdAt(o, i) \in DOMAIN f.env
        BY <1>9, <3>3
      <3>5. f.env[IdAt(o, i)] = TermAt(o, i)
        BY <3>1, <3>4 DEF RunGood
      <3> QED
        BY <1>9, <3>3, <3>5
    <2> QED
      BY <2>1, <2>2
  <1> HIDE DEF env
  <1>10. RunGood(h, path, G)
    <2>1. IsOp(o) /\ <<Bare(o), path>> \in G /\ k + 1 \in 0..Len(o.ops)
      BY <1>1, <1>8 DEF RunGood
    <2> HIDE DEF o, k
    <2> QED
      BY <1>2, <1>3, <1>7, <1>9, <2>1 DEF RunGood, n
  <1> QED
    BY <1>2, <1>10 DEF h

-----------------------------------------------------------------------------
(* What a running scope holds. *)

\* The flags of an operation are about the reads that are left.
LEMMA FlagsAre ==
    ASSUME NEW o, NEW path, NEW reg, NEW G, Good(o, path, reg, G), NEW k \in Nat, k < Len(o.ops)
    PROVE  LET c == o.ops[k + 1]
               flagged == {c.inputs[p] : p \in {q \in DOMAIN c.inputs : c.last[q]}}
           IN  /\ {n \in ToSet(c.inputs) : n \notin Read(o, k + 2, Len(o.ops))} = flagged
               /\ \A p, q \in DOMAIN c.inputs : c.last[p] /\ c.last[q] /\ p # q => c.inputs[p] # c.inputs[q]
  <1> DEFINE m == Len(o.ops)
             c == o.ops[k + 1]
             l == Len(c.given)
  <1>1. m \in Nat /\ k + 1 \in 1..m /\ DOMAIN o.ops = 1..m /\ c.last = LastUses(o.ops)[k + 1]
    BY GoodIs DEF Good
  <1>2. /\ DOMAIN c.inputs = 1..l /\ Len(c.inputs) = l /\ l \in Nat
        /\ \A j \in 1..m : DOMAIN o.ops[j].inputs = 1..Len(o.ops[j].inputs)
    BY <1>1, ReadsAre
  <1> HIDE DEF m, l
  <1>3. ASSUME NEW p \in 1..l
        PROVE  c.last[p] <=> /\ c.inputs[p] \notin Read(o, k + 2, m)
                             /\ \A q \in (p + 1)..l : c.inputs[q] # c.inputs[p]
    <2>1. c.last[p] = (/\ \A j \in ((k + 1) + 1)..Len(o.ops) : ~Contains(o.ops[j].inputs, c.inputs[p])
                       /\ \A q \in (p + 1)..Len(c.inputs) : c.inputs[q] # c.inputs[p])
      BY <1>1, <1>2 DEF LastUses
    <2>2. (k + 1) + 1 = k + 2 /\ Len(o.ops) = m /\ \A j \in (k + 2)..m : j \in 1..m
      BY <1>1 DEF m
    <2>3. \A j \in (k + 2)..m : \A x : Contains(o.ops[j].inputs, x) <=> x \in ToSet(o.ops[j].inputs)
      BY <1>2, <2>2 DEF Contains, ToSet
    <2>4. (\A j \in (k + 2)..m : ~Contains(o.ops[j].inputs, c.inputs[p])) <=> c.inputs[p] \notin Read(o, k + 2, m)
      BY <2>3 DEF Read
    <2>5. c.last[p] = (/\ \A j \in (k + 2)..m : ~Contains(o.ops[j].inputs, c.inputs[p])
                       /\ \A q \in (p + 1)..l : c.inputs[q] # c.inputs[p])
      BY <1>2, <2>1, <2>2
    <2> QED
      BY <2>4, <2>5
  <1>4. ASSUME NEW x \in ToSet(c.inputs), x \notin Read(o, k + 2, m)
        PROVE  \E p \in 1..l : c.last[p] /\ c.inputs[p] = x
    <2> DEFINE t == {p \in 1..l : c.inputs[p] = x}
    <2>1. t \in SUBSET (1..l) /\ t # {}
      BY <1>2 DEF ToSet
    <2>2. PICK p \in 1..l : p \in t /\ \A q \in t : q <= p
      <3> HIDE DEF t
      <3>1. Max(t) \in t /\ \A q \in t : q <= Max(t)
        BY <1>2, <2>1, MaxOfSome
      <3> QED
        BY <2>1, <3>1
    <2>3. \A q \in (p + 1)..l : q \in 1..l /\ ~(q <= p)
      BY <1>2
    <2>4. \A q \in (p + 1)..l : c.inputs[q] # c.inputs[p]
      BY <2>2, <2>3
    <2> QED
      BY <1>3, <1>4, <2>2, <2>4
  <1> DEFINE flagged == {c.inputs[p] : p \in {q \in DOMAIN c.inputs : c.last[q]}}
  <1>5. {x \in ToSet(c.inputs) : x \notin Read(o, k + 2, m)} = flagged
    <2> HIDE DEF c
    <2>1. \A x \in flagged : x \in ToSet(c.inputs) /\ x \notin Read(o, k + 2, m)
      BY <1>2, <1>3 DEF ToSet
    <2> QED
      BY <1>2, <1>4, <2>1
  <1>6. ASSUME NEW p \in DOMAIN c.inputs, NEW q \in DOMAIN c.inputs, c.last[p], c.last[q], p # q
        PROVE  c.inputs[p] # c.inputs[q]
    <2>1. p \in 1..l /\ q \in 1..l
      BY <1>2
    <2>2. q \in (p + 1)..l \/ p \in (q + 1)..l
      BY <1>2, <1>6, <2>1
    <2> HIDE DEF c
    <2> QED
      BY <1>3, <1>6, <2>1, <2>2
  <1> QED
    BY <1>5, <1>6 DEF m

-----------------------------------------------------------------------------
(* The scopes that run, innermost last. *)

RunStacked(rs, o, G) ==
    /\ IsSequence(rs) /\ 0 < Len(rs) /\ rs[1].op = o
    /\ \A i \in 1..Len(rs) : \E path : RunGood(rs[i], path, G)
    /\ \A i \in 1..(Len(rs) - 1) : /\ rs[i].k < Len(rs[i].op.ops)
                                   /\ rs[i + 1].op = Child(rs[i]) /\ Child(rs[i]).op = None

LEMMA RunsGoOn ==
    ASSUME NEW rs, NEW o, NEW G, RunStacked(rs, o, G), NEW j \in 1..Len(rs),
           NEW h, NEW path, RunGood(h, path, G), h.op = rs[j].op
    PROVE  RunStacked(Append(SubSeq(rs, 1, j - 1), h), o, G)
  <1> DEFINE l == j - 1
             low == SubSeq(rs, 1, l)
             new == Append(low, h)
  <1>1. IsSequence(rs) /\ Len(rs) \in Nat /\ l \in Nat /\ l <= Len(rs) /\ l + 1 <= Len(rs) /\ j = l + 1
    BY SequenceIs DEF RunStacked
  <1>2. IsSequence(low) /\ Len(low) = l /\ \A i \in 1..l : low[i] = rs[i]
    <2> HIDE DEF l
    <2> QED
      BY <1>1, Shortened
  <1>3. IsSequence(new) /\ Len(new) = l + 1 /\ new[l + 1] = h /\ \A i \in 1..l : new[i] = rs[i]
    <2> HIDE DEF l, low
    <2> QED
      BY <1>2, Appended
  <1> HIDE DEF l, low, new
  <1>4. ASSUME NEW i \in 1..(l + 1) PROVE \E place : RunGood(new[i], place, G)
    <2>1. CASE i \in 1..l
      <3>1. i \in 1..Len(rs) /\ new[i] = rs[i]
        BY <1>1, <1>3, <2>1
      <3> QED
        BY <3>1 DEF RunStacked
    <2>2. CASE i = l + 1
      BY <1>3, <2>2
    <2> QED
      BY <1>1, <2>1, <2>2
  <1>5. ASSUME NEW i \in 1..l
        PROVE  /\ new[i].k < Len(new[i].op.ops) /\ new[i + 1].op = Child(new[i]) /\ Child(new[i]).op = None
    <2>1. i \in 1..(Len(rs) - 1) /\ new[i] = rs[i]
      BY <1>1, <1>3
    <2>2. /\ rs[i].k < Len(rs[i].op.ops) /\ rs[i + 1].op = Child(rs[i]) /\ Child(rs[i]).op = None
      BY <2>1 DEF RunStacked
    <2>3. new[i + 1].op = rs[i + 1].op
      <3>1. CASE i + 1 \in 1..l
        BY <1>3, <3>1
      <3>2. CASE i + 1 = l + 1
        BY <1>1, <1>3, <3>2
      <3> QED
        BY <1>1, <3>1, <3>2
    <2> QED
      BY <2>1, <2>2, <2>3
  <1>6. new[1].op = o
    <2>1. rs[1].op = o
      BY DEF RunStacked
    <2>2. CASE l = 0
      BY <1>1, <1>3, <2>1, <2>2
    <2>3. CASE l # 0
      BY <1>1, <1>3, <2>1, <2>3
    <2> QED
      BY <2>2, <2>3
  <1>7. Len(new) - 1 = l /\ 0 < Len(new)
    BY <1>1, <1>3
  <1> QED
    BY <1>3, <1>4, <1>5, <1>6, <1>7 DEF RunStacked, new, low, l

LEMMA RunsEnter ==
    ASSUME NEW rs, NEW o, NEW G, RunStacked(rs, o, G),
           rs[Len(rs)].k < Len(rs[Len(rs)].op.ops), Child(rs[Len(rs)]).op = None,
           NEW h, NEW path, RunGood(h, path, G), h.op = Child(rs[Len(rs)])
    PROVE  RunStacked(Append(rs, h), o, G)
  <1> DEFINE new == Append(rs, h)
             l == Len(rs)
  <1>1. IsSequence(rs) /\ l \in Nat /\ 0 < l /\ rs[1].op = o
    BY SequenceIs DEF RunStacked
  <1>2. IsSequence(new) /\ Len(new) = l + 1 /\ new[l + 1] = h /\ \A i \in 1..l : new[i] = rs[i]
    BY <1>1, Appended
  <1>3. /\ \A i \in 1..l : \E place : RunGood(rs[i], place, G)
        /\ \A i \in 1..(l - 1) : /\ rs[i].k < Len(rs[i].op.ops)
                                 /\ rs[i + 1].op = Child(rs[i]) /\ Child(rs[i]).op = None
        /\ rs[l].k < Len(rs[l].op.ops) /\ h.op = Child(rs[l]) /\ Child(rs[l]).op = None
    BY DEF RunStacked
  <1> HIDE DEF new, l
  <1>4. \A i \in 1..(l + 1) : i \in 1..l \/ i = l + 1
    BY <1>1
  <1>5. \A i \in 1..l : (i \in 1..(l - 1) /\ i + 1 \in 1..l) \/ i = l
    BY <1>1
  <1>6. Len(new) - 1 = l /\ 0 < Len(new) /\ 1 \in 1..l
    BY <1>1, <1>2
  <1>7. \A i \in 1..Len(new) : \E place : RunGood(new[i], place, G)
    BY <1>2, <1>3, <1>4
  <1>8. ASSUME NEW i \in 1..l
        PROVE  /\ new[i].k < Len(new[i].op.ops) /\ new[i + 1].op = Child(new[i]) /\ Child(new[i]).op = None
    <2>1. CASE i \in 1..(l - 1) /\ i + 1 \in 1..l
      BY <1>2, <1>3, <2>1
    <2>2. CASE i = l
      BY <1>2, <1>3, <2>2
    <2> QED
      BY <1>5, <2>1, <2>2
  <1> QED
    BY <1>1, <1>2, <1>6, <1>7, <1>8 DEF RunStacked, new

LEMMA RunsBegin ==
    ASSUME NEW o, NEW path, NEW G, RunGood(RunFrame(o, Terms(o.given)), path, G)
    PROVE  RunStacked(<<RunFrame(o, Terms(o.given))>>, o, G)
  <1> DEFINE f == RunFrame(o, Terms(o.given))
             rs == <<f>>
  <1>1. f.op = o
    BY DEF RunFrame
  <1> HIDE DEF f
  <1>2. IsSequence(rs) /\ Len(rs) = 1 /\ rs[1] = f
    BY SingleSequence
  <1> HIDE DEF rs
  <1>3. RunGood(f, path, G)
    BY DEF f
  <1>4. RunStacked(rs, o, G)
    BY <1>1, <1>2, <1>3 DEF RunStacked
  <1> QED
    BY <1>4 DEF rs, f

\* The innermost scope, and the operator it runs.
LEMMA RunTop ==
    ASSUME NEW rs, NEW o, NEW G, RunStacked(rs, o, G), NEW reg, Closed(G, reg), NEW i \in 1..Len(rs)
    PROVE  \E path : RunGood(rs[i], path, G) /\ Good(rs[i].op, path, reg, G)
  <1>1. PICK path : RunGood(rs[i], path, G)
    BY DEF RunStacked
  <1>2. IsOp(rs[i].op) /\ <<Bare(rs[i].op), path>> \in G
    BY <1>1 DEF RunGood
  <1>3. Good(rs[i].op, path, reg, G)
    BY <1>2, BareGood DEF Closed
  <1> QED
    BY <1>1, <1>3

\* What a leaf computes from its tensors and the values recorded.
LEMMA LeafValueIs ==
    ASSUME NEW c, LeafIs(c, stored)
    PROVE  LeafValue(c, Terms(c.given)) = c.output.term
  <1> DEFINE data == [i \in DOMAIN c.data |-> Data[stored[c.data[i]].op][stored[c.data[i]].item]]
  <1>1. c.op \in Leaf /\ DOMAIN c.data = DOMAIN Data[c.op]
    BY DEF LeafIs
  <1>2. \A i \in DOMAIN c.data : stored[c.data[i]].op = c.op /\ stored[c.data[i]].item = i
    BY DEF LeafIs
  <1>3. Data[c.op] \in Seq(ToSet(Data[c.op]))
    BY <1>1, GraphAssumption
  <1>4. Data[c.op] = [i \in DOMAIN Data[c.op] |-> Data[c.op][i]]
    BY <1>3, LenProperties
  <1>5. data = Data[c.op]
    BY <1>1, <1>2, <1>4
  <1> HIDE DEF data
  <1>6. LeafValue(c, Terms(c.given)) = <<c.op, data, Terms(c.given)>>
    BY DEF LeafValue, data
  <1> QED
    BY <1>5, <1>6 DEF LeafIs

\* The tensors a section is run on are those of the values it was traced on.
LEMMA RunInputsAre ==
    ASSUME has \in Pipelines, NEW s \in has, NEW v, NEW term, term = v.term \/ s = First(has)
    PROVE  RunInputs(s, term) = Terms(SectionInputs(s, v))
  <1>1. CASE s = "client_pre"
    BY <1>1 DEF RunInputs, SectionInputs
  <1>2. CASE s = "hom" /\ "client_pre" \notin has
    BY <1>2 DEF RunInputs, SectionInputs
  <1>3. CASE s = "hom" /\ "client_pre" \in has
    <2>1. term = v.term
      BY <1>3 DEF First
    <2>2. RunInputs(s, term) = [Terms(Given) EXCEPT ![1] = term]
      BY <1>3 DEF RunInputs
    <2>3. SectionInputs(s, v) = [Given EXCEPT ![1] = v]
      BY <1>3 DEF SectionInputs
    <2>4. Given = [i \in DOMAIN Given |-> Given[i]]
      BY DEF Given
    <2>5. [Terms(Given) EXCEPT ![1] = v.term] = Terms([Given EXCEPT ![1] = v])
      BY <2>4 DEF Terms
    <2> QED
      BY <2>1, <2>2, <2>3, <2>5
  <1>4. CASE s = "client_post"
    <2>1. term = v.term
      BY <1>4 DEF First
    <2>2. RunInputs(s, term) = <<term>> /\ SectionInputs(s, v) = <<v>>
      BY <1>4 DEF RunInputs, SectionInputs
    <2>3. Terms(<<v>>) = <<v.term>>
      BY DEF Terms
    <2> QED
      BY <2>1, <2>2, <2>3
  <1> QED
    BY <1>1, <1>2, <1>3, <1>4, SectionIs DEF Section

\* The section that is run, and the result once the last one has.
RunInv(G) ==
    /\ stage = "run" => RunStacked(runs, graph[section], G)
    /\ stage # "run" => runs = <<>>
    /\ stage \notin {"run", "done"} => output = None
    /\ stage = "done" => output = None \/ output = traced.term

\* A section starts on what the one before it returned.
LEMMA SectionRuns ==
    ASSUME NEW G, TraceInv(G), stage \notin {"trace", "refused"}, NEW s \in has, NEW term,
           s = First(has) \/ term = Passed(graph, s).term
    PROVE  RunStacked(<<RunFrame(graph[s], RunInputs(s, term))>>, graph[s], G)
  <1>1. /\ has \in Pipelines /\ Closed(G, stored) /\ Whole(graph, s, G)
    BY DEF TraceInv
  <1> DEFINE o == graph[s]
  <1>2. IsOp(o) /\ <<Bare(o), <<0>>>> \in G /\ o.given = SectionInputs(s, Passed(graph, s))
    BY <1>1 DEF Whole
  <1>3. Good(o, <<0>>, stored, G)
    BY <1>1, <1>2, BareGood DEF Closed
  <1>4. RunInputs(s, term) = Terms(o.given)
    BY <1>1, <1>2, RunInputsAre
  <1> HIDE DEF o
  <1>5. RunGood(RunFrame(o, Terms(o.given)), <<0>>, G)
    BY <1>2, <1>3, RunBegins
  <1> QED
    BY <1>4, <1>5, RunsBegin DEF o

LEMMA LeafRuns ==
    ASSUME NEW G, TraceInv(G), RunInv(G), RunLeaf PROVE RunInv(G)'
  <1>1. /\ stage = "run" /\ Pending /\ Readable(Running) /\ Child(Running).op # None
        /\ runs' = [runs EXCEPT ![Len(runs)] = Yielded(@, LeafValue(Child(@), Values(@)))]
        /\ UNCHANGED <<has, frames, stored, graph, calls, traced, stage, section, output>>
    BY DEF RunLeaf, InRun
  <1>2. RunStacked(runs, graph[section], G) /\ Closed(G, stored)
    BY <1>1 DEF RunInv, TraceInv
  <1> DEFINE n == Len(runs)
             f == runs[n]
             c == Child(f)
             value == LeafValue(c, Values(f))
             h == Yielded(f, value)
  <1>3. IsSequence(runs) /\ n \in Nat /\ n \in 1..n /\ n - 1 \in Nat
    <2>1. IsSequence(runs) /\ n \in Nat /\ 0 < n
      BY <1>2, SequenceIs DEF RunStacked
    <2> HIDE DEF n
    <2>2. n \in 1..n /\ n - 1 \in Nat
      BY <2>1
    <2> QED
      BY <2>1, <2>2
  <1>4. PICK path : RunGood(f, path, G) /\ Good(f.op, path, stored, G)
    BY <1>2, <1>3, RunTop
  <1>5. f.k < Len(f.op.ops) /\ c.op # None
    BY <1>1 DEF Pending, Running
  <1> HIDE DEF f
  <1>6. Values(f) = Terms(c.given) /\ f.k \in Nat /\ f.k + 1 \in 1..Len(f.op.ops)
    BY <1>4, <1>5, RunReads
  <1>7. LeafIs(c, stored)
    <2>1. Recorded(f.op, path, f.k + 1, stored, G)
      BY <1>4, <1>6 DEF Good, Scoped
    <2> QED
      BY <1>5, <2>1 DEF Recorded, Child
  <1>8. value = c.output.term
    <2> HIDE DEF c
    <2> QED
      BY <1>6, <1>7, LeafValueIs
  <1> HIDE DEF value
  <1>9. RunGood(h, path, G) /\ h.op = f.op
    BY <1>4, <1>5, <1>8, RunSteps
  <1> HIDE DEF h
  <1>10. RunStacked(Append(SubSeq(runs, 1, n - 1), h), graph[section], G)
    BY <1>2, <1>3, <1>9, RunsGoOn DEF f
  <1>11. runs' = Append(SubSeq(runs, 1, n - 1), h)
    <2> DEFINE s == [runs EXCEPT ![n] = h]
               low == SubSeq(runs, 1, n - 1)
               t == Append(low, h)
    <2>1. runs' = s
      BY <1>1 DEF h, value, c, f
    <2>2. runs = [i \in 1..n |-> runs[i]]
      BY <1>3, SequenceIs
    <2>3. s = [i \in 1..n |-> IF i = n THEN h ELSE runs[i]]
      BY <2>2
    <2> HIDE DEF n
    <2>4. n - 1 <= Len(runs) /\ (n - 1) + 1 = n
      BY <1>3 DEF n
    <2>5. IsSequence(low) /\ Len(low) = n - 1 /\ \A i \in 1..(n - 1) : low[i] = runs[i]
      BY <1>3, <2>4, Shortened
    <2> HIDE DEF low
    <2>6. IsSequence(t) /\ Len(t) = n /\ t[n] = h /\ \A i \in 1..(n - 1) : t[i] = runs[i]
      BY <2>4, <2>5, Appended
    <2> HIDE DEF t
    <2>7. t = [i \in 1..n |-> t[i]]
      BY <2>6, SequenceIs
    <2>8. \A i \in 1..n : t[i] = IF i = n THEN h ELSE runs[i]
      <3>1. \A i \in 1..n : i \in 1..(n - 1) \/ i = n
        BY <1>3
      <3> QED
        BY <2>6, <3>1
    <2>9. t = s
      BY <2>3, <2>7, <2>8
    <2> QED
      BY <2>1, <2>9 DEF t, low
  <1> QED
    BY <1>1, <1>10, <1>11 DEF RunInv

LEMMA BlockRuns ==
    ASSUME NEW G, TraceInv(G), RunInv(G), RunBlock PROVE RunInv(G)'
  <1>1. /\ stage = "run" /\ Pending /\ Readable(Running) /\ Child(Running).op = None
        /\ runs' = Append(runs, RunFrame(Child(Running), Values(Running)))
        /\ UNCHANGED <<has, frames, stored, graph, calls, traced, stage, section, output>>
    BY DEF RunBlock, InRun
  <1>2. RunStacked(runs, graph[section], G) /\ Closed(G, stored)
    BY <1>1 DEF RunInv, TraceInv
  <1> DEFINE n == Len(runs)
             f == runs[n]
             c == Child(f)
             h == RunFrame(c, Terms(c.given))
  <1>3. n \in 1..n
    <2>1. n \in Nat /\ 0 < n
      BY <1>2, SequenceIs DEF RunStacked
    <2> HIDE DEF n
    <2> QED
      BY <2>1
  <1>4. PICK path : RunGood(f, path, G) /\ Good(f.op, path, stored, G)
    BY <1>2, <1>3, RunTop
  <1>5. f.k < Len(f.op.ops) /\ c.op = None
    BY <1>1 DEF Pending, Running
  <1>6. f = Running
    BY DEF Running
  <1> HIDE DEF f
  <1>7. Values(f) = Terms(c.given) /\ f.k \in Nat /\ f.k + 1 \in 1..Len(f.op.ops)
    BY <1>4, <1>5, RunReads
  <1> DEFINE place == Append(path, (f.k + 1) - 1)
  <1>8. IsOp(c) /\ <<Bare(c), place>> \in G
    <2>1. Recorded(f.op, path, f.k + 1, stored, G)
      BY <1>4, <1>7 DEF Good, Scoped
    <2> QED
      BY <1>5, <2>1 DEF Recorded, Child
  <1> HIDE DEF c, place
  <1>9. Good(c, place, stored, G)
    BY <1>2, <1>8, BareGood DEF Closed
  <1>10. RunGood(h, place, G)
    BY <1>8, <1>9, RunBegins
  <1>11. h.op = c
    BY DEF RunFrame
  <1> HIDE DEF h
  <1>12. RunStacked(Append(runs, h), graph[section], G)
    BY <1>2, <1>5, <1>10, <1>11, RunsEnter DEF f, c
  <1>13. runs' = Append(runs, h)
    BY <1>1, <1>6, <1>7 DEF h, c
  <1> QED
    BY <1>1, <1>12, <1>13 DEF RunInv

\* A scope that is done returns the value it was recorded to return.
LEMMA ReturnedIs ==
    ASSUME NEW f, NEW path, NEW reg, NEW G, RunGood(f, path, G), Good(f.op, path, reg, G),
           ~(f.k < Len(f.op.ops)), f.op.body.id \in DOMAIN f.env
    PROVE  f.env[f.op.body.id] = f.op.body.term
  <1> DEFINE o == f.op
             n == Len(o.given)
             m == Len(o.ops)
  <1>1. PICK i \in 1..(n + m) : o.body.id = IdAt(o, i) /\ o.body.term = TermAt(o, i)
    BY GoodIs
  <1>2. f.k = m
    <2>1. m \in Nat /\ f.k \in 0..m /\ ~(f.k < m)
      BY GoodIs DEF RunGood
    <2> HIDE DEF m
    <2> QED
      BY <2>1
  <1> QED
    BY <1>1, <1>2 DEF RunGood

LEMMA ReturnRuns ==
    ASSUME NEW G, TraceInv(G), RunInv(G), RunReturn PROVE RunInv(G)'
  <1>1. /\ stage = "run" /\ ~Pending /\ Running.op.body.id \in DOMAIN Running.env
        /\ UNCHANGED <<has, frames, stored, graph, calls, traced>>
    BY DEF RunReturn, InRun
  <1>2. /\ RunStacked(runs, graph[section], G) /\ Closed(G, stored)
        /\ has \in Pipelines /\ section \in has /\ traced = Result(graph, LastSection)
    BY <1>1 DEF RunInv, TraceInv
  <1> DEFINE n == Len(runs)
             f == runs[n]
             value == f.env[f.op.body.id]
  <1>3. n \in Nat /\ n \in 1..n
    <2>1. n \in Nat /\ 0 < n
      BY <1>2, SequenceIs DEF RunStacked
    <2> HIDE DEF n
    <2> QED
      BY <2>1
  <1>4. PICK path : RunGood(f, path, G) /\ Good(f.op, path, stored, G)
    BY <1>2, <1>3, RunTop
  <1>5. value = f.op.body.term
    BY <1>1, <1>4, ReturnedIs DEF Pending, Running
  <1> HIDE DEF value
  <1>6. CASE n > 1
    <2> DEFINE k == n - 1
               g == runs[k]
               h == Yielded(g, value)
    <2>1. /\ runs' = Append(SubSeq(runs, 1, k - 1), h)
          /\ UNCHANGED <<stage, section, output>>
      <3>1. /\ runs' = Append(SubSeq(runs, 1, n - 2), Yielded(Caller, value))
            /\ UNCHANGED <<stage, section, output>>
        BY <1>6 DEF RunReturn, Running, value
      <3>2. n - 2 = k - 1 /\ Caller = g
        BY <1>3, <1>6 DEF Caller
      <3> QED
        BY <3>1, <3>2
    <2>2. k \in 1..n /\ k \in 1..(n - 1) /\ k + 1 = n
      BY <1>3, <1>6
    <2>3. g.k < Len(g.op.ops) /\ f.op = Child(g) /\ Child(g).op = None
      <3> HIDE DEF k
      <3> QED
        BY <1>2, <2>2 DEF RunStacked
    <2>4. PICK place : RunGood(g, place, G) /\ Good(g.op, place, stored, G)
      BY <1>2, <2>2, RunTop
    <2> HIDE DEF g, f
    <2>5. g.k + 1 \in 1..Len(g.op.ops)
      BY <2>3, <2>4, RunReads
    <2>6. Child(g).output.term = Child(g).body.term
      <3>1. Recorded(g.op, place, g.k + 1, stored, G)
        BY <2>4, <2>5 DEF Good, Scoped
      <3> QED
        BY <2>3, <3>1 DEF Recorded, Child
    <2>7. value = Child(g).output.term
      BY <1>5, <2>3, <2>6
    <2>8. RunGood(h, place, G) /\ h.op = g.op
      BY <2>3, <2>4, <2>7, RunSteps
    <2> HIDE DEF h
    <2>9. RunStacked(Append(SubSeq(runs, 1, k - 1), h), graph[section], G)
      BY <1>2, <2>2, <2>8, RunsGoOn DEF g
    <2> QED
      BY <1>1, <2>1, <2>9 DEF RunInv
  <1>7. CASE ~(n > 1)
    <2>1. /\ output' = value
          /\ IF After(section) = {}
             THEN stage' = "done" /\ runs' = <<>> /\ UNCHANGED section
             ELSE /\ section' \in After(section)
                  /\ runs' = <<RunFrame(graph[section'], RunInputs(section', value))>>
                  /\ UNCHANGED stage
      BY <1>7 DEF RunReturn, Running, value
    <2>2. value = Result(graph, section).term
      <3>1. f.op = graph[section]
        <4>1. n = 1
          <5> HIDE DEF n
          <5> QED
            BY <1>3, <1>7
        <4> QED
          BY <1>2, <4>1 DEF RunStacked
      <3> QED
        BY <1>5, <3>1 DEF Result, Value
    <2>3. CASE After(section) = {}
      <3>1. section = LastSection
        BY <1>2, <2>3, SectionIs DEF After, LastSection, Section
      <3> QED
        BY <1>1, <1>2, <2>1, <2>2, <2>3, <3>1 DEF RunInv
    <2>4. CASE After(section) # {}
      <3>1. PICK t \in After(section) : t = section'
        BY <2>1, <2>4
      <3>2. t \in has
        BY <1>2, SectionIs
      <3>3. Passed(graph, t) = Result(graph, section)
        BY DEF Passed, After
      <3>4. RunStacked(<<RunFrame(graph[t], RunInputs(t, value))>>, graph[t], G)
        BY <1>1, <2>2, <3>2, <3>3, SectionRuns
      <3>5. RunStacked(runs', graph'[section'], G)
        BY <1>1, <2>1, <2>4, <3>1, <3>4
      <3> QED
        BY <1>1, <2>1, <2>4, <3>5 DEF RunInv
    <2> QED
      BY <2>3, <2>4
  <1> QED
    BY <1>6, <1>7

\* What tracing and running keep.
GraphInv == \E G : TraceInv(G) /\ RunInv(G)

\* Nothing but tracing changes what is recorded.
LEMMA QuietTraces ==
    ASSUME NEW G, TraceInv(G), UNCHANGED <<has, stored, graph, traced>>, section' \in has,
           stage \notin {"trace", "refused"}, stage' \notin {"trace", "refused"}
    PROVE  TraceInv(G)'
  BY DEF TraceInv, Whole, SectionInputs, Given, LastSection

LEMMA GraphInit == ASSUME Init PROVE GraphInv
  <1>1. TraceInv({})
    BY InitTraces
  <1>2. RunInv({})
    BY DEF Init, RunInv
  <1> QED
    BY <1>1, <1>2 DEF GraphInv

Tracers == CallLeaf \/ CallBlock \/ ReturnBlock \/ ReturnSection
Printers == PrintHeader \/ PrintSections \/ PrintLeaf \/ PrintBlock \/ PrintBlockEnd \/ PrintSectionEnd

LEMMA GraphTraced == ASSUME NEW G, TraceInv(G), RunInv(G), Tracers PROVE GraphInv'
  <1>1. PICK H : TraceInv(H)'
    BY LeafCalled, BlockCalled, BlockReturned, SectionReturned DEF Tracers
  <1>2. stage = "trace" /\ UNCHANGED <<runs, output>> /\ stage' \in {"trace", "refused", "built"}
    BY DEF Tracers, CallLeaf, CallBlock, ReturnBlock, ReturnSection, Tracing
  <1>3. RunInv(H)'
    BY <1>2 DEF RunInv
  <1> QED
    BY <1>1, <1>3 DEF GraphInv

LEMMA GraphRuns ==
    ASSUME NEW G, TraceInv(G), RunInv(G), Run \/ RunLeaf \/ RunBlock \/ RunReturn
    PROVE  TraceInv(G)' /\ RunInv(G)'
  <1>1. has \in Pipelines /\ section \in has
    BY DEF TraceInv
  <1>2. \A s \in has : After(s) \subseteq has
    BY <1>1, SectionIs
  <1>3. CASE Run
    <2>1. /\ stage = "built" /\ stage' = "run" /\ section' = First(has) /\ section' \in has
          /\ runs' = <<RunFrame(graph[section'], RunInputs(section', None))>>
          /\ UNCHANGED <<has, stored, graph, traced>>
      BY <1>1, <1>3, SectionIs DEF Run
    <2>2. PICK s \in has : s = section'
      BY <2>1
    <2>3. RunStacked(<<RunFrame(graph[s], RunInputs(s, None))>>, graph[s], G)
      BY <2>1, <2>2, SectionRuns
    <2>4. RunStacked(runs', graph'[section'], G)
      BY <2>1, <2>2, <2>3
    <2> QED
      BY <2>1, <2>4, QuietTraces DEF RunInv
  <1>4. CASE RunLeaf
    <2>1. UNCHANGED <<has, stored, graph, traced, section, stage>> /\ stage = "run"
      BY <1>4 DEF RunLeaf, InRun
    <2> QED
      BY <1>1, <1>4, <2>1, LeafRuns, QuietTraces
  <1>5. CASE RunBlock
    <2>1. UNCHANGED <<has, stored, graph, traced, section, stage>> /\ stage = "run"
      BY <1>5 DEF RunBlock, InRun
    <2> QED
      BY <1>1, <1>5, <2>1, BlockRuns, QuietTraces
  <1>6. CASE RunReturn
    <2>1. UNCHANGED <<has, stored, graph, traced>> /\ stage = "run"
      BY <1>6 DEF RunReturn, InRun
    <2>2. section' \in has /\ stage' \in {"run", "done"}
      BY <1>1, <1>2, <1>6, <2>1 DEF RunReturn
    <2> QED
      BY <1>6, <2>1, <2>2, ReturnRuns, QuietTraces
  <1> QED
    BY <1>3, <1>4, <1>5, <1>6

LEMMA GraphPrints == ASSUME NEW G, TraceInv(G), RunInv(G), Printers PROVE TraceInv(G)' /\ RunInv(G)'
  <1>1. has \in Pipelines /\ section \in has /\ First(has) \in has /\ \A s \in has : After(s) \subseteq has
    BY SectionIs DEF TraceInv
  <1>2. /\ UNCHANGED <<has, stored, graph, traced, runs, output>> /\ section' \in has
        /\ stage \in {"built", "header", "print"} /\ stage' \in {"header", "print", "done"}
    BY <1>1 DEF Printers, PrintHeader, PrintSections, InPrint, PrintLeaf, PrintBlock, PrintBlockEnd,
       PrintSectionEnd, Entered
  <1> QED
    BY <1>2, QuietTraces DEF RunInv

LEMMA GraphSteps == ASSUME GraphInv, [Next]_vars PROVE GraphInv'
  <1>1. PICK G : TraceInv(G) /\ RunInv(G)
    BY DEF GraphInv
  <1>2. CASE Next
    <2>1. Tracers \/ (Run \/ RunLeaf \/ RunBlock \/ RunReturn) \/ Printers
      BY <1>2 DEF Next, Tracers, Printers
    <2> QED
      BY <1>1, <2>1, GraphTraced, GraphRuns, GraphPrints DEF GraphInv
  <1>3. CASE UNCHANGED vars
    <2>1. TraceInv(G)' /\ RunInv(G)'
      BY <1>1, <1>3 DEF vars, TraceInv, RunInv, Before, LastSection, Whole, SectionInputs, Given
    <2> QED
      BY <2>1 DEF GraphInv
  <1> QED
    BY <1>2, <1>3

\* The recorded graph of any application, run with its intermediates released and
\* its tensors found by ref, returns what the operators themselves would
\* (clear_execution.py: run_clear_section against hom_pipeline.py: forward_clear).
THEOREM RunComputesDirectly == Spec => []RunIsDirect
  <1>1. Init => GraphInv
    BY GraphInit
  <1>2. GraphInv /\ [Next]_vars => GraphInv'
    BY GraphSteps
  <1>3. GraphInv => RunIsDirect
    BY DEF GraphInv, RunInv, RunIsDirect
  <1> QED
    BY <1>1, <1>2, <1>3, PTL DEF Spec

LEMMA HeldExactlyHere == ASSUME GraphInv PROVE HeldExactly
  <1>1. PICK G : TraceInv(G) /\ RunInv(G)
    BY DEF GraphInv
  <1>2. ASSUME NEW f \in ToSet(runs)
        PROVE  \E path : RunGood(f, path, G) /\ Good(f.op, path, stored, G)
    <2>1. CASE stage = "run"
      <3>1. RunStacked(runs, graph[section], G) /\ Closed(G, stored)
        BY <1>1, <2>1 DEF RunInv, TraceInv
      <3>2. PICK i \in 1..Len(runs) : f = runs[i]
        BY <3>1, SequenceIs DEF RunStacked, ToSet
      <3> QED
        BY <3>1, <3>2, RunTop
    <2>2. CASE stage # "run"
      BY <1>1, <2>2 DEF RunInv, ToSet
    <2> QED
      BY <2>1, <2>2
  <1>3. NothingElseHeld
    <2>1. SUFFICES ASSUME NEW f \in ToSet(runs)
                   PROVE  DOMAIN f.env = HeldAt(f.op, f.k)
      BY DEF NothingElseHeld, HeldAt, Made, Read
    <2> QED
      BY <1>2 DEF RunGood
  <1>4. FlagsAgree
    <2>1. SUFFICES ASSUME NEW f \in ToSet(runs), f.k < Len(f.op.ops)
                   PROVE  LET c == f.op.ops[f.k + 1]
                              flagged == {c.inputs[p] : p \in {q \in DOMAIN c.inputs : c.last[q]}}
                          IN  /\ {n \in ToSet(c.inputs) : LeftAfter(f)[n] = 0} = flagged \ {f.op.body.id}
                              /\ \A p, q \in DOMAIN c.inputs :
                                     c.last[p] /\ c.last[q] /\ p # q => c.inputs[p] # c.inputs[q]
      BY DEF FlagsAgree
    <2> DEFINE o == f.op
               k == f.k
               c == o.ops[k + 1]
               flagged == {c.inputs[p] : p \in {q \in DOMAIN c.inputs : c.last[q]}}
    <2>2. PICK path : RunGood(f, path, G) /\ Good(o, path, stored, G)
      BY <1>2
    <2>3. k \in Nat /\ k < Len(o.ops)
      BY <2>1, <2>2, RunReads
    <2>4. ToSet(c.inputs) \subseteq DOMAIN Uses(o)
      BY <2>1, <2>2, RunReads DEF Child, RunGood
    <2>5. \A n \in DOMAIN Uses(o) :
              LeftAfter(f)[n] = 0 <=> n \notin Read(o, k + 2, Len(o.ops)) /\ n # o.body.id
      BY <2>1, <2>2, LeftIs
    <2>6. /\ {n \in ToSet(c.inputs) : n \notin Read(o, k + 2, Len(o.ops))} = flagged
          /\ \A p, q \in DOMAIN c.inputs : c.last[p] /\ c.last[q] /\ p # q => c.inputs[p] # c.inputs[q]
      <3> HIDE DEF o, k
      <3> QED
        BY <2>2, <2>3, FlagsAre
    <2> HIDE DEF flagged, c
    <2>7. {n \in ToSet(c.inputs) : LeftAfter(f)[n] = 0} = flagged \ {o.body.id}
      BY <2>4, <2>5, <2>6
    <2> QED
      BY <2>6, <2>7 DEF flagged, c
  <1> QED
    BY <1>3, <1>4 DEF HeldExactly

\* Whatever the application, a running scope holds a value exactly as long as the
\* recorded graph has a use of it, and the interpreter's counts and the tracer's
\* flags agree on the last one (clear_execution.py: run_clear_section;
\* hom_op_tracer.py: finalize).
THEOREM HeldWhileUsed == Spec => []HeldExactly
  <1>1. Init => GraphInv
    BY GraphInit
  <1>2. GraphInv /\ [Next]_vars => GraphInv'
    BY GraphSteps
  <1>3. GraphInv => HeldExactly
    BY HeldExactlyHere
  <1> QED
    BY <1>1, <1>2, <1>3, PTL DEF Spec

-----------------------------------------------------------------------------
(* The scopes of the printer. *)

IsScope(sc) == sc = [values |-> sc.values, producers |-> sc.producers]

\* A scope shows a value under an id, with the place of its producer.
Shows(sc, id, term, maker) ==
    /\ id \in DOMAIN sc.values /\ \E i : sc.values[id] = [id |-> i, term |-> term]
    /\ Get(sc.producers, id) = maker

\* The first n values of a recorded operator.
ScopeGood(sc, o, place, n) ==
    IsScope(sc) /\ \A i \in 1..n : Shows(sc, IdAt(o, i), TermAt(o, i), MakerAt(o, place, i))

LinesShow(ls) == \A i \in DOMAIN ls : ls[i].shown = ls[i].true /\ ls[i].producer = ls[i].maker

LEMMA LinesAre ==
    ASSUME NEW sc, NEW names, NEW given,
           \A i \in DOMAIN names : Shows(sc, names[i], given[i].term, given[i].maker)
    PROVE  LinesShow(InputLines(sc, names, given))
  <1> DEFINE ls == InputLines(sc, names, given)
  <1>1. DOMAIN ls = DOMAIN names /\ \A i \in DOMAIN names : ls[i] = Line(sc, names[i], given[i])
    BY DEF InputLines
  <1> HIDE DEF ls
  <1>2. ASSUME NEW i \in DOMAIN names PROVE ls[i].shown = ls[i].true /\ ls[i].producer = ls[i].maker
    <2> DEFINE x == names[i]
               v == given[i]
    <2>1. /\ x \in DOMAIN sc.values /\ Get(sc.producers, x) = v.maker
          /\ \E n : sc.values[x] = [id |-> n, term |-> v.term]
      BY DEF Shows
    <2>2. sc.values[x].term = v.term
      BY <2>1
    <2>3. ls[i] = Line(sc, x, v)
      BY <1>1
    <2> HIDE DEF x, v
    <2>4. /\ ls[i].shown = sc.values[x].term /\ ls[i].true = v.term
          /\ ls[i].producer = Get(sc.producers, x) /\ ls[i].maker = v.maker
      BY <2>1, <2>3 DEF Line
    <2> QED
      BY <2>1, <2>2, <2>4
  <1> QED
    BY <1>1, <1>2 DEF LinesShow, ls

\* A nested operator's scope shows what its caller's does, under its own names.
LEMMA LocalScopeGood ==
    ASSUME NEW o, NEW place, NEW reg, NEW G, Good(o, place, reg, G), o.inputs = Ids(o.given), NEW parent,
           \A i \in 1..Len(o.given) : Shows(parent, o.given[i].id, o.given[i].term, o.given[i].maker)
    PROVE  ScopeGood(LocalScope(o, parent), o, place, Len(o.given))
  <1> DEFINE n == Len(o.given)
             sc == LocalScope(o, parent)
             caller(x) == o.inputs[Position(o.names, x)]
  <1>1. /\ sc.values = [x \in {m \in ToSet(o.names) : caller(m) \in DOMAIN parent.values} |->
                            [parent.values[caller(x)] EXCEPT !.id = x]]
        /\ sc.producers = [x \in {m \in ToSet(o.names) : /\ caller(m) \in DOMAIN parent.values
                                                         /\ caller(m) \in DOMAIN parent.producers} |->
                               parent.producers[caller(x)]]
        /\ IsScope(sc)
    BY DEF LocalScope, IsScope, Position
  <1> HIDE DEF sc
  <1>2. /\ n \in Nat \ {0} /\ Len(o.ops) \in Nat /\ Len(o.names) = n /\ IsSequence(o.names)
        /\ DOMAIN o.names = 1..n /\ DOMAIN o.given = 1..n
        /\ \A i \in 1..n : IdAt(o, i) = o.names[i] /\ TermAt(o, i) = o.given[i].term
                           /\ MakerAt(o, place, i) = o.given[i].maker
    BY ZenonT(30), GoodIs
  <1>3. \A i, j \in 1..n : IdAt(o, i) = IdAt(o, j) => i = j
    <2>1. \A i, j \in 1..(n + Len(o.ops)) : IdAt(o, i) = IdAt(o, j) => i = j
      BY GoodIs
    <2>2. \A x, y \in Nat : \A i \in 1..x : i \in 1..(x + y)
      OBVIOUS
    <2> QED
      BY <1>2, <2>1, <2>2
  <1>4. ASSUME NEW i \in 1..n PROVE Shows(sc, IdAt(o, i), TermAt(o, i), MakerAt(o, place, i))
    <2> DEFINE x == o.names[i]
               v == o.given[i]
               q == Position(o.names, x)
    <2>1. q \in 1..n /\ o.names[q] = x
      BY <1>2, PositionIs
    <2>2. q = i
      BY <1>2, <1>3, <2>1
    <2>3. caller(x) = v.id /\ x \in ToSet(o.names)
      <3>1. o.inputs[i] = v.id
        BY <1>2 DEF Ids
      <3> QED
        BY <1>2, <2>2, <3>1 DEF ToSet
    <2>4. Shows(parent, v.id, v.term, v.maker)
      OBVIOUS
    <2> HIDE DEF x, v, q
    <2>5. v.id \in DOMAIN parent.values /\ Get(parent.producers, v.id) = v.maker
      BY <2>4 DEF Shows
    <2>6. PICK k : parent.values[v.id] = [id |-> k, term |-> v.term]
      BY <2>4 DEF Shows
    <2>7. x \in DOMAIN sc.values /\ sc.values[x] = [parent.values[v.id] EXCEPT !.id = x]
      BY SMTT(30), <1>1, <2>3, <2>5
    <2>8. sc.values[x] = [id |-> x, term |-> v.term]
      BY <2>6, <2>7
    <2>9. Get(sc.producers, x) = v.maker
      <3>1. CASE v.id \in DOMAIN parent.producers
        <4>1. x \in DOMAIN sc.producers /\ sc.producers[x] = parent.producers[v.id]
          BY <1>1, <2>3, <2>5, <3>1
        <4> QED
          BY <2>5, <3>1, <4>1 DEF Get
      <3>2. CASE v.id \notin DOMAIN parent.producers
        <4>1. x \notin DOMAIN sc.producers
          BY <1>1, <2>3, <3>2
        <4> QED
          BY <2>5, <3>2, <4>1 DEF Get
      <3> QED
        BY <3>1, <3>2
    <2>10. Shows(sc, x, v.term, v.maker)
      BY <2>7, <2>8, <2>9 DEF Shows
    <2> QED
      BY <1>2, <2>10 DEF x, v
  <1> QED
    BY <1>1, <1>4 DEF ScopeGood, sc, n

\* An operation adds its output to the scope it is in.
LEMMA ProducedGood ==
    ASSUME NEW o, NEW place, NEW reg, NEW G, Good(o, place, reg, G), NEW k \in Nat, k < Len(o.ops),
           NEW sc, ScopeGood(sc, o, place, Len(o.given) + k)
    PROVE  ScopeGood(Produced(sc, o.ops[k + 1], Append(place, k)), o, place, Len(o.given) + (k + 1))
  <1> DEFINE n == Len(o.given)
  <1>1. /\ n \in Nat \ {0} /\ Len(o.ops) \in Nat
        /\ \A i, j \in 1..(n + Len(o.ops)) : IdAt(o, i) = IdAt(o, j) => i = j
    BY GoodIs
  <1> DEFINE c == o.ops[k + 1]
             new == Produced(sc, c, Append(place, k))
             id == c.output.id
  <1>2. k + 1 \in 1..Len(o.ops) /\ (k + 1) - 1 = k
    BY <1>1
  <1>3. Recorded(o, place, k + 1, reg, G)
    BY <1>2 DEF Good, Scoped
  <1>4. c.output = [id |-> id, term |-> c.output.term]
    <2>1. PICK x \in DOMAIN Local : c.output = [id |-> Local[x], term |-> c.output.term]
      BY <1>3 DEF Recorded
    <2> HIDE DEF c
    <2>2. id = Local[x]
      BY <2>1
    <2> QED
      BY <2>1, <2>2
  <1>5. Shown(c) = c.output
    <2>1. \A a, b : [id |-> a, term |-> b] # <<>>
      OBVIOUS
    <2> HIDE DEF c, id
    <2>2. c.output # Nothing
      BY <1>4, <2>1 DEF Nothing
    <2> QED
      BY <2>2 DEF Shown
  <1>6. /\ new.values = Put(sc.values, id, c.output) /\ new.producers = Put(sc.producers, id, Append(place, k))
        /\ IsScope(new)
    BY <1>5 DEF Produced, IsScope
  <1> HIDE DEF new
  <1>7. /\ DOMAIN new.values = DOMAIN sc.values \cup {id} /\ DOMAIN new.producers = DOMAIN sc.producers \cup {id}
        /\ new.values[id] = c.output /\ new.producers[id] = Append(place, k)
        /\ \A x \in DOMAIN sc.values : x # id => new.values[x] = sc.values[x]
        /\ \A x \in DOMAIN sc.producers : x # id => new.producers[x] = sc.producers[x]
    BY <1>6 DEF Put
  <1>8. IdAt(o, n + (k + 1)) = id /\ TermAt(o, n + (k + 1)) = c.output.term
        /\ MakerAt(o, place, n + (k + 1)) = Append(place, k)
    <2> DEFINE x == n + (k + 1)
    <2>1. ~(x <= n) /\ x - n = k + 1 /\ x - n - 1 = k
      <3> HIDE DEF n
      <3> QED
        BY <1>1
    <2>2. IdAt(o, x) = o.ops[x - n].output.id /\ TermAt(o, x) = o.ops[x - n].output.term
          /\ MakerAt(o, place, x) = Append(place, x - n - 1)
      BY <2>1 DEF IdAt, TermAt, MakerAt
    <2> QED
      BY <2>1, <2>2
  <1> HIDE DEF n, c, id
  <1>9. ASSUME NEW i \in 1..(n + (k + 1)) PROVE Shows(new, IdAt(o, i), TermAt(o, i), MakerAt(o, place, i))
    <2>1. CASE i = n + (k + 1)
      <3>1. Get(new.producers, id) = Append(place, k) /\ id \in DOMAIN new.values
        BY <1>7 DEF Get
      <3> QED
        BY <1>4, <1>7, <1>8, <2>1, <3>1 DEF Shows
    <2>2. CASE i # n + (k + 1)
      <3>1. i \in 1..(n + k) /\ i \in 1..(n + Len(o.ops)) /\ n + (k + 1) \in 1..(n + Len(o.ops))
        BY <1>1, <1>2, <2>2
      <3>2. IdAt(o, i) # id
        BY <1>1, <1>8, <2>2, <3>1
      <3> DEFINE x == IdAt(o, i)
      <3>3. Shows(sc, x, TermAt(o, i), MakerAt(o, place, i))
        BY <3>1 DEF ScopeGood, n
      <3> HIDE DEF x
      <3>4. x # id
        BY <3>2 DEF x
      <3>5. x \in DOMAIN new.values /\ new.values[x] = sc.values[x]
        BY <1>7, <3>3, <3>4 DEF Shows
      <3>6. Get(new.producers, x) = Get(sc.producers, x)
        BY <1>7, <3>4 DEF Get
      <3>7. Shows(new, x, TermAt(o, i), MakerAt(o, place, i))
        BY <3>3, <3>5, <3>6 DEF Shows
      <3> QED
        BY <3>7 DEF x
    <2> QED
      BY <2>1, <2>2
  <1> QED
    BY <1>6, <1>9 DEF ScopeGood, new, n, c

\* No two inputs of a section are under one id or name.
KeysApart(o) ==
    \A k : \A i, j \in 1..Len(o.given) :
        k \in {o.given[i].id, o.names[i]} /\ k \in {o.given[j].id, o.names[j]} => i = j

LEMMA SeededIs ==
    ASSUME NEW o, NEW place, NEW reg, NEW G, Good(o, place, reg, G), KeysApart(o), NEW sc, IsScope(sc)
    PROVE  /\ IsScope(Seeded(sc, o)) /\ Seeded(sc, o).producers = sc.producers
           /\ \A i \in 1..Len(o.given) : \A k \in {o.given[i].id, o.names[i]} :
                  /\ k \in DOMAIN Seeded(sc, o).values
                  /\ Seeded(sc, o).values[k] = [id |-> k, term |-> o.given[i].term]
  <1> DEFINE new == Seeded(sc, o)
             n == Len(o.given)
             under(k) == {i \in DOMAIN o.given : k \in {o.given[i].id, o.names[i]}}
             values == [k \in DOMAIN sc.values \cup ToSet(Ids(o.given)) \cup ToSet(o.names) |->
                           IF under(k) = {} THEN sc.values[k]
                           ELSE [id |-> k, term |-> o.given[Max(under(k))].term]]
  <1>1. new = [values |-> values, producers |-> sc.producers]
    <2>1. new = [sc EXCEPT !.values = values]
      BY DEF Seeded
    <2> HIDE DEF new, values
    <2> QED
      BY <2>1 DEF IsScope
  <1>2. new.values = values /\ new.producers = sc.producers /\ IsScope(new)
    BY <1>1 DEF IsScope
  <1>3. n \in Nat /\ DOMAIN o.names = 1..n /\ DOMAIN o.given = 1..n
    BY GoodIs
  <1> HIDE DEF new
  <1>4. ASSUME NEW i \in 1..n, NEW k \in {o.given[i].id, o.names[i]}
        PROVE  k \in DOMAIN values /\ values[k] = [id |-> k, term |-> o.given[i].term]
    <2>1. k \in ToSet(Ids(o.given)) \cup ToSet(o.names)
      BY <1>3 DEF ToSet, Ids
    <2>2. i \in under(k) /\ under(k) \in SUBSET (1..n)
      BY <1>3
    <2>3. Max(under(k)) \in under(k)
      <3> DEFINE t == under(k)
      <3>1. t \in SUBSET (1..n) /\ t # {}
        BY <2>2
      <3> HIDE DEF t
      <3>2. Max(t) \in t
        BY <1>3, <3>1, MaxOfSome
      <3> QED
        BY <3>2 DEF t
    <2>4. \A j \in under(k) : j = i
      BY <1>3 DEF KeysApart
    <2>5. Max(under(k)) = i /\ under(k) # {}
      BY <2>2, <2>3, <2>4
    <2> HIDE DEF under
    <2> QED
      BY <2>1, <2>5
  <1> HIDE DEF values, n
  <1>5. \A i \in 1..n : \A k \in {o.given[i].id, o.names[i]} :
            k \in DOMAIN new.values /\ new.values[k] = [id |-> k, term |-> o.given[i].term]
    BY <1>2, <1>4
  <1> QED
    BY <1>2, <1>5 DEF new, n

-----------------------------------------------------------------------------
(* The operators that are printed, innermost last. *)

PrintGood(f, G) ==
    /\ f = [op |-> f.op, place |-> f.place, k |-> f.k, scope |-> f.scope]
    /\ IsOp(f.op) /\ <<Bare(f.op), f.place>> \in G
    /\ f.k \in Nat /\ f.k <= Len(f.op.ops)
    /\ ScopeGood(f.scope, f.op, f.place, Len(f.op.given) + f.k)

PrintStacked(ps, o, G) ==
    /\ IsSequence(ps) /\ 0 < Len(ps) /\ ps[1].op = o /\ ps[1].place = <<0>>
    /\ \A i \in 1..Len(ps) : PrintGood(ps[i], G)
    /\ \A i \in 1..(Len(ps) - 1) : /\ ps[i].k < Len(ps[i].op.ops)
                                   /\ ps[i + 1].op = ps[i].op.ops[ps[i].k + 1]
                                   /\ ps[i + 1].place = Append(ps[i].place, ps[i].k)

\* The j-th operator goes on, those above it are printed.
LEMMA PrintsGoOn ==
    ASSUME NEW ps, NEW o, NEW G, PrintStacked(ps, o, G), NEW j \in 1..Len(ps),
           NEW h, PrintGood(h, G), h.op = ps[j].op, h.place = ps[j].place
    PROVE  PrintStacked(Append(SubSeq(ps, 1, j - 1), h), o, G)
  <1> DEFINE l == j - 1
             low == SubSeq(ps, 1, l)
             new == Append(low, h)
  <1>1. /\ IsSequence(ps) /\ Len(ps) \in Nat /\ l \in Nat /\ l <= Len(ps) /\ j = l + 1
        /\ j \in Nat /\ 0 < j /\ j <= Len(ps)
    BY SequenceIs DEF PrintStacked
  <1>2. IsSequence(low) /\ Len(low) = l /\ \A i \in 1..l : low[i] = ps[i]
    <2> HIDE DEF l
    <2> QED
      BY <1>1, Shortened
  <1>3. IsSequence(new) /\ Len(new) = j /\ new[j] = h /\ \A i \in 1..(j - 1) : new[i] = ps[i]
    <2>1. IsSequence(new) /\ Len(new) = l + 1 /\ new[l + 1] = h /\ \A i \in 1..l : new[i] = ps[i]
      <3> HIDE DEF l, low
      <3> QED
        BY <1>2, Appended
    <2> QED
      BY <1>1, <2>1
  <1> HIDE DEF l, low, new
  <1>4. \A i \in 1..j : i \in 1..(j - 1) \/ i = j
    BY <1>1
  <1>5. \A i \in 1..j : new[i].op = ps[i].op /\ new[i].place = ps[i].place
    BY <1>4, <1>3
  <1>6. \A i \in 1..j : PrintGood(new[i], G)
    <2>1. \A i \in 1..j : i \in 1..Len(ps)
      BY <1>1
    <2> QED
      BY <1>4, <1>3, <2>1 DEF PrintStacked
  <1>7. ASSUME NEW i \in 1..(j - 1)
        PROVE  /\ new[i].k < Len(new[i].op.ops) /\ new[i + 1].op = new[i].op.ops[new[i].k + 1]
               /\ new[i + 1].place = Append(new[i].place, new[i].k)
    <2>1. i \in 1..(Len(ps) - 1) /\ i + 1 \in 1..j
      BY <1>1
    <2>2. /\ ps[i].k < Len(ps[i].op.ops) /\ ps[i + 1].op = ps[i].op.ops[ps[i].k + 1]
          /\ ps[i + 1].place = Append(ps[i].place, ps[i].k)
      BY <2>1 DEF PrintStacked
    <2> QED
      BY <1>5, <1>3, <2>1, <2>2
  <1>8. new[1].op = o /\ new[1].place = <<0>>
    <2>1. 1 \in 1..j /\ ps[1].op = o /\ ps[1].place = <<0>>
      BY <1>1 DEF PrintStacked
    <2> QED
      BY <1>5, <2>1
  <1> QED
    BY <1>1, <1>3, <1>6, <1>7, <1>8 DEF PrintStacked, new, low, l

\* A nested operator is entered.
LEMMA PrintsEnter ==
    ASSUME NEW ps, NEW o, NEW G, PrintStacked(ps, o, G),
           ps[Len(ps)].k < Len(ps[Len(ps)].op.ops),
           NEW h, PrintGood(h, G), h.op = ps[Len(ps)].op.ops[ps[Len(ps)].k + 1],
           h.place = Append(ps[Len(ps)].place, ps[Len(ps)].k)
    PROVE  PrintStacked(Append(ps, h), o, G)
  <1> DEFINE new == Append(ps, h)
             l == Len(ps)
  <1>1. IsSequence(ps) /\ l \in Nat /\ 0 < l /\ ps[1].op = o /\ ps[1].place = <<0>>
    BY SequenceIs DEF PrintStacked
  <1>2. IsSequence(new) /\ Len(new) = l + 1 /\ new[l + 1] = h /\ \A i \in 1..l : new[i] = ps[i]
    BY <1>1, Appended
  <1>3. /\ \A i \in 1..l : PrintGood(ps[i], G)
        /\ \A i \in 1..(l - 1) : /\ ps[i].k < Len(ps[i].op.ops)
                                 /\ ps[i + 1].op = ps[i].op.ops[ps[i].k + 1]
                                 /\ ps[i + 1].place = Append(ps[i].place, ps[i].k)
        /\ ps[l].k < Len(ps[l].op.ops) /\ h.op = ps[l].op.ops[ps[l].k + 1]
        /\ h.place = Append(ps[l].place, ps[l].k)
    BY DEF PrintStacked
  <1> HIDE DEF new, l
  <1>4. \A i \in 1..(l + 1) : i \in 1..l \/ i = l + 1
    BY <1>1
  <1>5. \A i \in 1..l : (i \in 1..(l - 1) /\ i + 1 \in 1..l) \/ i = l
    BY <1>1
  <1>6. Len(new) - 1 = l /\ 0 < Len(new) /\ 1 \in 1..l
    BY <1>1, <1>2
  <1>7. \A i \in 1..Len(new) : PrintGood(new[i], G)
    BY <1>2, <1>3, <1>4
  <1>8. ASSUME NEW i \in 1..l
        PROVE  /\ new[i].k < Len(new[i].op.ops) /\ new[i + 1].op = new[i].op.ops[new[i].k + 1]
               /\ new[i + 1].place = Append(new[i].place, new[i].k)
    <2>1. CASE i \in 1..(l - 1) /\ i + 1 \in 1..l
      BY <1>2, <1>3, <2>1
    <2>2. CASE i = l
      BY <1>2, <1>3, <2>2
    <2> QED
      BY <1>5, <2>1, <2>2
  <1> QED
    BY <1>1, <1>2, <1>6, <1>7, <1>8 DEF PrintStacked, new

\* The operator printed is recorded whole.
LEMMA PrintedIs ==
    ASSUME NEW f, NEW G, PrintGood(f, G), NEW reg, Closed(G, reg)
    PROVE  Good(f.op, f.place, reg, G)
  BY BareGood DEF PrintGood, Closed

\* An operation of it is printed, or the nested operator it is has been.
LEMMA OpPrinted ==
    ASSUME NEW f, NEW G, PrintGood(f, G), NEW reg, Closed(G, reg), f.k < Len(f.op.ops)
    PROVE  LET h == Past(f, f.op.ops[f.k + 1], Append(f.place, f.k))
           IN  PrintGood(h, G) /\ h.op = f.op /\ h.place = f.place
  <1> DEFINE o == f.op
             place == f.place
             k == f.k
             sc == Produced(f.scope, o.ops[k + 1], Append(place, k))
             h == Past(f, f.op.ops[f.k + 1], Append(f.place, f.k))
  <1>1. /\ f = [op |-> o, place |-> place, k |-> k, scope |-> f.scope]
        /\ IsOp(o) /\ <<Bare(o), place>> \in G /\ k \in Nat /\ k < Len(o.ops)
        /\ ScopeGood(f.scope, o, place, Len(o.given) + k)
    BY DEF PrintGood
  <1>2. Good(o, place, reg, G)
    BY PrintedIs
  <1>3. ScopeGood(sc, o, place, Len(o.given) + (k + 1))
    <2> HIDE DEF o, place, k
    <2> QED
      BY <1>1, <1>2, ProducedGood
  <1>4. Len(o.ops) \in Nat
    BY <1>2, GoodIs
  <1>5. h = [f EXCEPT !.k = k + 1, !.scope = sc]
    BY DEF Past
  <1> HIDE DEF h, sc
  <1>6. h = [op |-> o, place |-> place, k |-> k + 1, scope |-> sc]
    <2>1. f = [op |-> f.op, place |-> f.place, k |-> f.k, scope |-> f.scope]
      BY DEF PrintGood
    <2> QED
      BY <1>5, <2>1
  <1> HIDE DEF o, place, k
  <1>7. k + 1 \in Nat /\ k + 1 <= Len(o.ops)
    BY <1>1, <1>4
  <1>8. PrintGood(h, G)
    BY <1>1, <1>3, <1>6, <1>7 DEF PrintGood
  <1> QED
    BY <1>6, <1>8 DEF h, o, place

\* A nested operator is entered where its arguments are shown.
LEMMA FrameEntered ==
    ASSUME NEW o, NEW place, NEW G, IsOp(o), <<Bare(o), place>> \in G, NEW reg, Closed(G, reg),
           o.inputs = Ids(o.given), NEW parent,
           \A i \in 1..Len(o.given) : Shows(parent, o.given[i].id, o.given[i].term, o.given[i].maker)
    PROVE  LET frame == PrintFrame(o, place, parent)
           IN  /\ PrintGood(frame, G) /\ frame.op = o /\ frame.place = place
               /\ LinesShow(InputLines(frame.scope, o.names, o.given))
  <1> DEFINE frame == PrintFrame(o, place, parent)
             sc == LocalScope(o, parent)
             n == Len(o.given)
  <1>1. Good(o, place, reg, G)
    BY BareGood DEF Closed
  <1>2. ScopeGood(sc, o, place, n)
    BY <1>1, LocalScopeGood
  <1>3. /\ n \in Nat /\ Len(o.ops) \in Nat /\ DOMAIN o.names = 1..n
        /\ \A i \in 1..n : IdAt(o, i) = o.names[i] /\ TermAt(o, i) = o.given[i].term
                           /\ MakerAt(o, place, i) = o.given[i].maker
    BY <1>1, GoodIs
  <1>4. frame = [op |-> o, place |-> place, k |-> 0, scope |-> sc]
    BY DEF PrintFrame
  <1> HIDE DEF frame, sc
  <1>5. PrintGood(frame, G)
    <2>1. n + 0 = n
      <3> HIDE DEF n
      <3> QED
        BY <1>3
    <2>2. ScopeGood(sc, o, place, n + 0)
      BY <1>2, <2>1
    <2>3. 0 <= Len(o.ops)
      BY <1>3
    <2> HIDE DEF n
    <2>4. ScopeGood(frame.scope, frame.op, frame.place, Len(frame.op.given) + frame.k)
      BY <1>4, <2>2 DEF n
    <2> QED
      BY <1>4, <2>3, <2>4 DEF PrintGood
  <1>6. \A i \in DOMAIN o.names : Shows(sc, o.names[i], o.given[i].term, o.given[i].maker)
    BY <1>2, <1>3 DEF ScopeGood
  <1>7. LinesShow(InputLines(sc, o.names, o.given))
    BY <1>6, LinesAre
  <1> QED
    BY <1>4, <1>5, <1>7 DEF frame

\* The next operation's arguments are shown by the scope it is in.
LEMMA NextShown ==
    ASSUME NEW f, NEW G, PrintGood(f, G), NEW reg, Closed(G, reg), f.k < Len(f.op.ops)
    PROVE  LET c == f.op.ops[f.k + 1]
           IN  /\ IsOp(c) /\ c.inputs = Ids(c.given) /\ DOMAIN c.inputs = 1..Len(c.given)
               /\ \A p \in 1..Len(c.given) : Shows(f.scope, c.given[p].id, c.given[p].term, c.given[p].maker)
               /\ c.op = None => <<Bare(c), Append(f.place, f.k)>> \in G
  <1> DEFINE o == f.op
             place == f.place
             k == f.k
             c == o.ops[k + 1]
             n == Len(o.given)
  <1>1. Good(o, place, reg, G)
    BY PrintedIs
  <1>2. n \in Nat \ {0} /\ Len(o.ops) \in Nat /\ k \in Nat /\ k < Len(o.ops) /\ ScopeGood(f.scope, o, place, n + k)
    BY <1>1, GoodIs DEF PrintGood
  <1>3. k + 1 \in 1..Len(o.ops) /\ (k + 1) - 1 = k
    BY <1>2
  <1>4. Recorded(o, place, k + 1, reg, G)
    BY <1>1, <1>3 DEF Good, Scoped
  <1>5. /\ IsOp(c) /\ IsSequence(c.given) /\ c.inputs = Ids(c.given)
        /\ c.op = None => <<Bare(c), Append(place, (k + 1) - 1)>> \in G
        /\ \A p \in 1..Len(c.given) : \E i \in 1..(n + (k + 1) - 1) : c.given[p] = ValueAt(o, place, i)
    BY <1>4 DEF Recorded
  <1>6. n + (k + 1) - 1 = n + k
    <2> HIDE DEF n, k
    <2> QED
      BY <1>2
  <1>7. ASSUME NEW p \in 1..Len(c.given)
        PROVE  Shows(f.scope, c.given[p].id, c.given[p].term, c.given[p].maker)
    <2>1. PICK i \in 1..(n + k) : c.given[p] = ValueAt(o, place, i)
      BY <1>5, <1>6
    <2> HIDE DEF n, k, c, o, place
    <2>2. /\ c.given[p].id = IdAt(o, i) /\ c.given[p].term = TermAt(o, i)
          /\ c.given[p].maker = MakerAt(o, place, i)
      BY <2>1, ValueFields DEF ValueAt
    <2>3. Shows(f.scope, IdAt(o, i), TermAt(o, i), MakerAt(o, place, i))
      BY <1>2 DEF ScopeGood
    <2> QED
      BY <2>2, <2>3
  <1> HIDE DEF c
  <1>8. DOMAIN c.inputs = 1..Len(c.given)
    BY <1>5, SequenceIs DEF Ids
  <1> QED
    BY <1>3, <1>5, <1>7, <1>8 DEF c

-----------------------------------------------------------------------------
(* The sections that are printed. *)

LEMMA SectionKeys ==
    ASSUME NEW G, TraceInv(G), stage \notin {"trace", "refused"}, NEW s \in has
    PROVE  KeysApart(graph[s])
  <1> DEFINE o == graph[s]
             n == Len(Params[Hom])
             v == Passed(graph, s)
  <1>1. has \in Pipelines /\ Closed(G, stored) /\ Whole(graph, s, G) /\ s \in Section
    BY SectionIs DEF TraceInv
  <1>2. o.names = Params[Root[s]] /\ o.given = SectionInputs(s, v)
    BY <1>1 DEF Whole
  <1>3. n \in Nat /\ DOMAIN Params[Hom] = 1..n /\ 0 < n /\ Hom \in Block
    BY GraphAssumption, LenProperties
  <1>4. /\ Given = [i \in 1..n |-> Given[i]] /\ \A i \in 1..n : Given[i].id = Params[Hom][i]
    BY <1>3, ValueFields DEF Given
  <1>5. \A i, j \in 1..n : Params[Hom][i] = Params[Hom][j] => i = j
    BY <1>3, NamesAssumption
  <1> HIDE DEF n, v
  <1>6. CASE s # "hom"
    <2>1. \E w : o.given = <<w>>
      BY <1>1, <1>2, <1>6 DEF SectionInputs, Section
    <2>2. Len(o.given) = 1
      BY <2>1, SingleSequence
    <2> QED
      BY <2>2 DEF KeysApart
  <1>7. CASE s = "hom" /\ "client_pre" \notin has
    <2>1. o.given = Given /\ o.names = Params[Hom]
      BY <1>2, <1>7 DEF SectionInputs, Root, Section
    <2>2. Len(o.given) = n
      BY <1>3, <1>4, <2>1, MakesSequence
    <2>3. \A i \in 1..n : o.given[i].id = Params[Hom][i] /\ o.names[i] = Params[Hom][i]
      BY <1>4, <2>1
    <2> HIDE DEF o
    <2>4. KeysApart(o)
      BY <1>5, <2>2, <2>3 DEF KeysApart
    <2> QED
      BY <2>4 DEF o
  <1>8. CASE s = "hom" /\ "client_pre" \in has
    <2> DEFINE given == [Given EXCEPT ![1] = v]
               p == graph["client_pre"]
    <2>1. o.given = given /\ o.names = Params[Hom]
      BY <1>2, <1>8 DEF SectionInputs, Root, Section
    <2>2. given = [i \in 1..n |-> given[i]] /\ \A i \in 1..n : given[i] = IF i = 1 THEN v ELSE Given[i]
      BY <1>4
    <2> HIDE DEF given
    <2>3. Len(given) = n
      BY <1>3, <2>2, MakesSequence
    <2>4. v.id = p.body.id
      BY <1>8, ValueFields DEF v, Passed, Result
    <2>5. Good(p, <<0>>, stored, G) /\ p.names = Params[Chain]
      <3>1. Whole(graph, "client_pre", G)
        BY <1>8 DEF TraceInv
      <3> QED
        BY <1>1, <3>1, BareGood DEF Whole, Closed, Root, Section
    <2>6. v.id \in Names(Chain) \/ \E x \in DOMAIN Local : v.id = Local[x]
      <3> DEFINE a == Len(p.given)
                 b == Len(p.ops)
      <3>1. a \in Nat /\ b \in Nat /\ DOMAIN p.names = 1..a
        BY <2>5, GoodIs
      <3>2. PICK i \in 1..(a + b) : p.body.id = IdAt(p, i)
        BY <2>5, GoodIs
      <3> HIDE DEF a, b, p
      <3>3. CASE i <= a
        <4>1. IdAt(p, i) = p.names[i] /\ i \in DOMAIN p.names
          BY <3>1, <3>3 DEF IdAt, a
        <4> QED
          BY <2>4, <2>5, <3>2, <4>1 DEF Names
      <3>4. CASE ~(i <= a)
        <4>1. IdAt(p, i) = p.ops[i - a].output.id /\ i - a \in 1..b
          BY <3>1, <3>4 DEF IdAt, a
        <4>2. Recorded(p, <<0>>, i - a, stored, G)
          BY <2>5, <4>1 DEF Good, Scoped, b
        <4>3. PICK x \in DOMAIN Local : p.ops[i - a].output = [id |-> Local[x], term |-> p.ops[i - a].output.term]
          BY <4>2 DEF Recorded
        <4> DEFINE out == p.ops[i - a].output
        <4>4. out = [id |-> Local[x], term |-> out.term]
          BY <4>3
        <4> HIDE DEF out
        <4>5. out.id = Local[x]
          BY <4>4
        <4> QED
          BY <2>4, <3>2, <4>1, <4>5 DEF out
      <3> QED
        BY <3>3, <3>4
    <2>7. \A i \in 1..n : v.id # Params[Hom][i]
      <3>1. ASSUME NEW i \in 1..n PROVE Params[Hom][i] \in Input /\ \A x \in DOMAIN Local : Params[Hom][i] # Local[x]
        BY <1>3, NamesAssumption DEF Input, Names
      <3>2. \A y \in Names(Chain) : y \notin Input
        BY NamesAssumption
      <3> QED
        BY <2>6, <3>1, <3>2
    <2>8. \A i \in 1..n : o.names[i] = Params[Hom][i] /\ (o.given[i].id = IF i = 1 THEN v.id ELSE Params[Hom][i])
      BY <1>4, <2>1, <2>2
    <2>9. Len(o.given) = n
      BY <2>1, <2>3
    <2> HIDE DEF o
    <2>10. KeysApart(o)
      BY <1>5, <2>7, <2>8, <2>9 DEF KeysApart
    <2> QED
      BY <2>10 DEF o
  <1> QED
    BY <1>6, <1>7, <1>8

\* The producers a section needs to find: those of the values it is called with.
Fed(sc, o) == \A i \in 1..Len(o.given) : Get(sc.producers, o.given[i].id) = o.given[i].maker

LEMMA SectionEnters ==
    ASSUME NEW G, TraceInv(G), stage \notin {"trace", "refused"}, NEW s \in has,
           NEW sc, IsScope(sc), Fed(sc, graph[s])
    PROVE  LET new == Seeded(sc, graph[s])
               frame == PrintFrame(graph[s], <<0>>, new)
           IN  /\ IsScope(new) /\ new.producers = sc.producers /\ PrintStacked(<<frame>>, graph[s], G)
               /\ LinesShow(InputLines(frame.scope, graph[s].names, graph[s].given))
  <1> DEFINE o == graph[s]
             new == Seeded(sc, o)
             frame == PrintFrame(o, <<0>>, new)
  <1>1. Closed(G, stored) /\ Whole(graph, s, G)
    BY DEF TraceInv
  <1>2. IsOp(o) /\ <<Bare(o), <<0>>>> \in G /\ o.inputs = Ids(o.given)
    BY <1>1 DEF Whole
  <1>3. KeysApart(o)
    BY SectionKeys
  <1>4. Fed(sc, o)
    OBVIOUS
  <1> HIDE DEF o
  <1>5. Good(o, <<0>>, stored, G)
    BY <1>1, <1>2, BareGood DEF Closed
  <1>6. /\ IsScope(new) /\ new.producers = sc.producers
        /\ \A i \in 1..Len(o.given) : \A k \in {o.given[i].id, o.names[i]} :
               k \in DOMAIN new.values /\ new.values[k] = [id |-> k, term |-> o.given[i].term]
    BY <1>3, <1>5, SeededIs
  <1> HIDE DEF new
  <1>7. \A i \in 1..Len(o.given) : Shows(new, o.given[i].id, o.given[i].term, o.given[i].maker)
    BY <1>4, <1>6 DEF Shows, Fed
  <1>8. /\ PrintGood(frame, G) /\ frame.op = o /\ frame.place = <<0>>
        /\ LinesShow(InputLines(frame.scope, o.names, o.given))
    BY <1>1, <1>2, <1>7, FrameEntered
  <1>9. PrintStacked(<<frame>>, o, G)
    <2> DEFINE ps == <<frame>>
    <2> HIDE DEF frame
    <2>1. IsSequence(ps) /\ Len(ps) = 1 /\ ps[1] = frame
      BY SingleSequence
    <2> HIDE DEF ps
    <2>2. PrintStacked(ps, o, G)
      BY <1>8, <2>1 DEF PrintStacked
    <2> QED
      BY <2>2 DEF ps
  <1> QED
    BY <1>6, <1>8, <1>9 DEF new, o

\* The first section's values come from nowhere, the next one's from the one before.
LEMMA FirstFed ==
    ASSUME NEW G, TraceInv(G), stage \notin {"trace", "refused"}, NEW sc, sc.producers = <<>>
    PROVE  Fed(sc, graph[First(has)])
  <1> DEFINE s == First(has)
             o == graph[s]
             n == Len(Params[Hom])
  <1>1. has \in Pipelines /\ s \in has /\ Whole(graph, s, G)
    BY SectionIs DEF TraceInv
  <1>2. n \in Nat /\ DOMAIN Params[Hom] = 1..n /\ 0 < n
    BY GraphAssumption, LenProperties
  <1>3. Given = [i \in 1..n |-> Given[i]] /\ \A i \in 1..n : Given[i].maker = None
    BY <1>2, ValueFields DEF Given
  <1>4. \A x : Get(sc.producers, x) = None
    <2>1. DOMAIN sc.producers = {}
      OBVIOUS
    <2> QED
      BY <2>1 DEF Get
  <1>5. o.given = Given \/ o.given = <<Given[1]>>
    BY <1>1 DEF Whole, SectionInputs, First
  <1> HIDE DEF n, o
  <1>6. CASE o.given = Given
    <2>1. Len(o.given) = n
      BY <1>2, <1>3, <1>6, MakesSequence
    <2> QED
      BY <1>3, <1>4, <1>6, <2>1 DEF Fed, o
  <1>7. CASE o.given = <<Given[1]>>
    <2>1. Len(o.given) = 1 /\ o.given[1] = Given[1] /\ 1 \in 1..n
      BY <1>2, <1>7, SingleSequence
    <2> QED
      BY <1>3, <1>4, <2>1 DEF Fed, o
  <1> QED
    BY <1>5, <1>6, <1>7

LEMMA NextFed ==
    ASSUME NEW G, TraceInv(G), stage \notin {"trace", "refused"}, NEW s \in After(section), NEW sc, IsScope(sc),
           section = First(has) => sc.producers = <<>>
    PROVE  LET new == Produced(sc, graph[section], <<0>>) IN IsScope(new) /\ Fed(new, graph[s])
  <1> DEFINE p == graph[section]
             o == graph[s]
             new == Produced(sc, p, <<0>>)
             n == Len(Params[Hom])
             v == Passed(graph, s)
  <1>1. /\ has \in Pipelines /\ section \in has /\ s \in has /\ Whole(graph, section, G) /\ Whole(graph, s, G)
    BY SectionIs DEF TraceInv
  <1>2. p.output = Nothing /\ o.given = SectionInputs(s, v)
    BY <1>1 DEF Whole
  <1>3. new.producers = Put(sc.producers, p.body.id, <<0>>) /\ IsScope(new)
    BY <1>2 DEF Produced, Shown, IsScope
  <1>4. (section = "client_pre" /\ s = "hom") \/ (section = "hom" /\ s = "client_post")
    BY <1>1, SectionIs DEF After, Section
  <1>5. v = Value(p.body.id, p.body.term, <<0>>)
    BY <1>4 DEF Passed, Result
  <1>6. v.id = p.body.id /\ v.maker = <<0>>
    BY <1>5, ValueFields
  <1> HIDE DEF v, p, new
  <1>7. Get(new.producers, v.id) = v.maker
    BY <1>3, <1>6 DEF Put, Get
  <1>8. CASE s = "client_post"
    <2>1. o.given = <<v>>
      BY <1>2, <1>8 DEF SectionInputs
    <2>2. Len(o.given) = 1 /\ o.given[1] = v
      BY <2>1, SingleSequence
    <2> HIDE DEF o
    <2> QED
      BY <1>3, <1>7, <2>2 DEF Fed, new, p, o
  <1>9. CASE section = "client_pre" /\ s = "hom"
    <2> DEFINE given == [Given EXCEPT ![1] = v]
    <2>1. section = First(has) /\ o.given = given
      BY <1>1, <1>2, <1>9 DEF SectionInputs, First
    <2>2. n \in Nat /\ DOMAIN Params[Hom] = 1..n /\ 0 < n
      BY GraphAssumption, LenProperties
    <2> HIDE DEF n
    <2>3. Given = [i \in 1..n |-> Given[i]] /\ \A i \in 1..n : Given[i].maker = None
      BY <2>2, ValueFields DEF Given
    <2>4. given = [i \in 1..n |-> given[i]] /\ \A i \in 1..n : given[i] = IF i = 1 THEN v ELSE Given[i]
      BY <2>3
    <2> HIDE DEF given
    <2>5. Len(given) = n
      BY <2>2, <2>4, MakesSequence
    <2>6. KeysApart(o)
      BY <1>1, SectionKeys
    <2>7. DOMAIN new.producers = {v.id}
      <3>1. DOMAIN sc.producers = {}
        BY <2>1
      <3> QED
        BY <1>3, <1>6, <3>1 DEF Put
    <2>8. ASSUME NEW i \in 1..n PROVE Get(new.producers, o.given[i].id) = o.given[i].maker
      <3>1. CASE i = 1
        BY <1>7, <2>1, <2>4, <3>1
      <3>2. CASE i # 1
        <4>1. 1 \in 1..n /\ o.given[1].id = v.id /\ o.given[i] = Given[i]
          BY <2>1, <2>2, <2>4, <3>2
        <4>2. o.given[i].id # v.id
          BY <2>1, <2>5, <2>6, <3>2, <4>1 DEF KeysApart
        <4>3. Get(new.producers, o.given[i].id) = None
          BY <2>7, <4>2 DEF Get
        <4> QED
          BY <2>3, <4>1, <4>3
      <3> QED
        BY <3>1, <3>2
    <2> QED
      BY <1>3, <2>1, <2>5, <2>8 DEF Fed, new, p
  <1> QED
    BY <1>4, <1>8, <1>9

PrintInv(G) ==
    /\ stage \in {"header", "print"} => IsScope(scope)
    /\ stage = "header" => scope.producers = <<>>
    /\ stage = "print" => /\ PrintStacked(prints, graph[section], G)
                          /\ section = First(has) => scope.producers = <<>>
    /\ PrintsWhatFlows

LEMMA LinesFlow ==
    ASSUME LinesShow(lines') \/ lines' = <<>> PROVE PrintsWhatFlows'
  <1>1. DOMAIN <<>> = {}
    OBVIOUS
  <1> QED
    BY <1>1 DEF LinesShow, PrintsWhatFlows

\* The header of the pipeline shows the inputs of its homomorphic section.
LEMMA HeaderPrints ==
    ASSUME NEW G, TraceInv(G), PrintInv(G), PrintHeader PROVE PrintInv(G)'
  <1> DEFINE o == graph["hom"]
             new == Seeded(EmptyScope, o)
  <1>1. /\ stage = "built" /\ stage' = "header" /\ scope' = new
        /\ lines' = InputLines(new, o.names, o.given)
    BY DEF PrintHeader
  <1>2. "hom" \in has /\ Closed(G, stored) /\ Whole(graph, "hom", G)
    BY <1>1, SectionIs DEF TraceInv
  <1>3. Good(o, <<0>>, stored, G) /\ KeysApart(o)
    BY <1>1, <1>2, BareGood, SectionKeys DEF Whole, Closed
  <1>4. IsScope(EmptyScope) /\ EmptyScope.producers = <<>>
    BY DEF IsScope, EmptyScope
  <1> HIDE DEF o
  <1>5. /\ IsScope(new) /\ new.producers = <<>>
        /\ \A i \in 1..Len(o.given) : new.values[o.names[i]] = [id |-> o.names[i], term |-> o.given[i].term]
                                      /\ o.names[i] \in DOMAIN new.values
    BY ZenonT(30), <1>3, <1>4, SeededIs
  <1>6. DOMAIN o.names = 1..Len(o.given)
    BY <1>3, GoodIs
  <1> HIDE DEF new
  <1> DEFINE ls == InputLines(new, o.names, o.given)
  <1>7. \A i \in DOMAIN ls : ls[i].shown = ls[i].true
    <2>1. DOMAIN ls = DOMAIN o.names /\ \A i \in DOMAIN o.names : ls[i] = Line(new, o.names[i], o.given[i])
      BY DEF InputLines
    <2> HIDE DEF ls
    <2>2. ASSUME NEW i \in DOMAIN o.names PROVE ls[i].shown = ls[i].true
      <3> DEFINE x == o.names[i]
                 v == o.given[i]
                 t == v.term
      <3>1. x \in DOMAIN new.values /\ new.values[x] = [id |-> x, term |-> t]
        BY <1>5, <1>6
      <3>2. new.values[x].term = t
        BY <3>1
      <3>3. ls[i] = Line(new, x, v)
        BY <2>1
      <3> HIDE DEF x, v
      <3>4. ls[i].shown = new.values[x].term /\ ls[i].true = v.term
        BY <3>1, <3>3 DEF Line
      <3> QED
        BY <3>2, <3>4
    <2> QED
      BY <2>1, <2>2
  <1>8. PrintsWhatFlows'
    BY <1>1, <1>7 DEF PrintsWhatFlows
  <1> QED
    BY <1>1, <1>5, <1>8 DEF PrintInv

\* A section begins.
LEMMA SectionPrints ==
    ASSUME NEW G, TraceInv(G), stage \notin {"trace", "refused"}, UNCHANGED <<graph, has>>, stage' = "print",
           section' \in has, NEW sc, IsScope(sc), Fed(sc, graph[section']), Entered(section', sc),
           section' = First(has) => sc.producers = <<>>
    PROVE  PrintInv(G)'
  <1>1. PICK s \in has : s = section'
    OBVIOUS
  <1> DEFINE o == graph[s]
             new == Seeded(sc, o)
             frame == PrintFrame(o, <<0>>, new)
  <1>2. /\ scope' = new /\ prints' = <<frame>> /\ lines' = InputLines(frame.scope, o.names, o.given)
    BY <1>1 DEF Entered
  <1>3. /\ IsScope(new) /\ new.producers = sc.producers /\ PrintStacked(<<frame>>, o, G)
        /\ LinesShow(InputLines(frame.scope, o.names, o.given))
    BY <1>1, SectionEnters
  <1>4. graph'[section'] = o /\ First(has)' = First(has)
    BY <1>1 DEF First
  <1> HIDE DEF o, new, frame
  <1>5. PrintsWhatFlows'
    BY <1>2, <1>3, LinesFlow
  <1> QED
    BY <1>1, <1>2, <1>3, <1>4, <1>5 DEF PrintInv

LEMMA SectionsPrint ==
    ASSUME NEW G, TraceInv(G), PrintInv(G), PrintSections PROVE PrintInv(G)'
  <1>1. /\ stage = "header" /\ stage' = "print" /\ section' = First(has) /\ Entered(section', scope)
        /\ UNCHANGED <<graph, has>>
    BY DEF PrintSections
  <1>2. IsScope(scope) /\ scope.producers = <<>>
    BY <1>1 DEF PrintInv
  <1>3. section' \in has
    BY <1>1, SectionIs DEF TraceInv
  <1>4. Fed(scope, graph[section'])
    BY <1>1, <1>2, FirstFed
  <1> QED
    BY <1>1, <1>2, <1>3, <1>4, SectionPrints

\* The scope of the innermost operator.
LEMMA PrintTop ==
    ASSUME NEW G, TraceInv(G), PrintInv(G), stage = "print"
    PROVE  /\ PrintStacked(prints, graph[section], G) /\ Closed(G, stored) /\ IsScope(scope)
           /\ Len(prints) \in Nat /\ 0 < Len(prints) /\ \A i \in 1..Len(prints) : PrintGood(prints[i], G)
  BY SequenceIs DEF PrintInv, TraceInv, PrintStacked

LEMMA LeafPrints ==
    ASSUME NEW G, TraceInv(G), PrintInv(G), PrintLeaf PROVE PrintInv(G)'
  <1> DEFINE l == Len(prints)
             f == prints[l]
             c == f.op.ops[f.k + 1]
             h == Past(f, c, Append(f.place, f.k))
  <1>1. /\ stage = "print" /\ f.k < Len(f.op.ops)
        /\ lines' = InputLines(f.scope, c.inputs, c.given)
        /\ prints' = Append(SubSeq(prints, 1, l - 1), h)
        /\ UNCHANGED <<stage, section, scope, graph, has>>
    BY DEF PrintLeaf, InPrint, ToPrint, Printed, NextOp, NextPlace
  <1>2. PrintStacked(prints, graph[section], G) /\ Closed(G, stored) /\ l \in 1..Len(prints) /\ PrintGood(f, G)
    <2>1. stage = "print"
      BY <1>1
    <2>2. /\ PrintStacked(prints, graph[section], G) /\ Closed(G, stored)
          /\ Len(prints) \in Nat /\ 0 < Len(prints) /\ \A i \in 1..Len(prints) : PrintGood(prints[i], G)
      BY <2>1, PrintTop
    <2> HIDE DEF PrintGood, PrintStacked, Closed
    <2>3. Len(prints) \in 1..Len(prints)
      BY <2>2
    <2> QED
      BY <2>2, <2>3 DEF f, l
  <1> HIDE DEF f
  <1>3. /\ DOMAIN c.inputs = 1..Len(c.given) /\ c.inputs = Ids(c.given)
        /\ \A p \in 1..Len(c.given) : Shows(f.scope, c.given[p].id, c.given[p].term, c.given[p].maker)
    BY <1>1, <1>2, NextShown
  <1>4. PrintGood(h, G) /\ h.op = f.op /\ h.place = f.place
    BY <1>1, <1>2, OpPrinted
  <1> HIDE DEF c, h
  <1>5. LinesShow(InputLines(f.scope, c.inputs, c.given))
    <2>1. \A p \in DOMAIN c.inputs : Shows(f.scope, c.inputs[p], c.given[p].term, c.given[p].maker)
      BY <1>3 DEF Ids
    <2> QED
      BY <2>1, LinesAre
  <1>6. PrintStacked(Append(SubSeq(prints, 1, l - 1), h), graph[section], G)
    <2>1. h.op = prints[l].op /\ h.place = prints[l].place
      BY <1>4 DEF f
    <2> HIDE DEF l
    <2> QED
      BY <1>2, <1>4, <2>1, PrintsGoOn
  <1>7. PrintsWhatFlows'
    BY <1>1, <1>5, LinesFlow
  <1> HIDE DEF l
  <1> QED
    BY <1>1, <1>6, <1>7 DEF PrintInv, First

LEMMA BlockPrints ==
    ASSUME NEW G, TraceInv(G), PrintInv(G), PrintBlock PROVE PrintInv(G)'
  <1> DEFINE l == Len(prints)
             f == prints[l]
             c == f.op.ops[f.k + 1]
             h == PrintFrame(c, Append(f.place, f.k), f.scope)
  <1>1. /\ stage = "print" /\ f.k < Len(f.op.ops) /\ c.op = None
        /\ lines' = InputLines(h.scope, c.names, c.given)
        /\ prints' = Append(prints, h)
        /\ UNCHANGED <<stage, section, scope, graph, has>>
    BY DEF PrintBlock, InPrint, ToPrint, Printed, NextOp, NextPlace
  <1>2. PrintStacked(prints, graph[section], G) /\ Closed(G, stored) /\ PrintGood(f, G)
    <2>1. stage = "print"
      BY <1>1
    <2>2. /\ PrintStacked(prints, graph[section], G) /\ Closed(G, stored)
          /\ Len(prints) \in Nat /\ 0 < Len(prints) /\ \A i \in 1..Len(prints) : PrintGood(prints[i], G)
      BY <2>1, PrintTop
    <2> HIDE DEF PrintGood, PrintStacked, Closed
    <2>3. Len(prints) \in 1..Len(prints)
      BY <2>2
    <2> QED
      BY <2>2, <2>3 DEF f, l
  <1> HIDE DEF f
  <1>3. /\ IsOp(c) /\ c.inputs = Ids(c.given) /\ <<Bare(c), Append(f.place, f.k)>> \in G
        /\ \A p \in 1..Len(c.given) : Shows(f.scope, c.given[p].id, c.given[p].term, c.given[p].maker)
    BY <1>1, <1>2, NextShown
  <1> HIDE DEF c
  <1>4. /\ PrintGood(h, G) /\ h.op = c /\ h.place = Append(f.place, f.k)
        /\ LinesShow(InputLines(h.scope, c.names, c.given))
    BY <1>2, <1>3, FrameEntered
  <1> HIDE DEF h
  <1>5. PrintStacked(Append(prints, h), graph[section], G)
    <2>1. /\ prints[Len(prints)].k < Len(prints[Len(prints)].op.ops)
          /\ h.op = prints[Len(prints)].op.ops[prints[Len(prints)].k + 1]
          /\ h.place = Append(prints[Len(prints)].place, prints[Len(prints)].k)
      BY <1>1, <1>4 DEF f, c
    <2> QED
      BY <1>2, <1>4, <2>1, PrintsEnter
  <1>6. PrintsWhatFlows'
    BY <1>1, <1>4, LinesFlow
  <1> HIDE DEF l
  <1> QED
    BY <1>1, <1>5, <1>6 DEF PrintInv, First

LEMMA BlockEndPrints ==
    ASSUME NEW G, TraceInv(G), PrintInv(G), PrintBlockEnd PROVE PrintInv(G)'
  <1> DEFINE l == Len(prints)
             j == l - 1
             f == prints[j]
             h == Past(f, prints[l].op, prints[l].place)
  <1>1. /\ stage = "print" /\ l > 1 /\ lines' = <<>>
        /\ prints' = Append(SubSeq(prints, 1, l - 2), h)
        /\ UNCHANGED <<stage, section, scope, graph, has>>
    BY DEF PrintBlockEnd, InPrint, Printed
  <1>2. /\ PrintStacked(prints, graph[section], G) /\ Closed(G, stored) /\ l \in Nat
        /\ \A i \in 1..l : PrintGood(prints[i], G)
    BY <1>1, PrintTop
  <1>3. \A i \in 1..(l - 1) : /\ prints[i].k < Len(prints[i].op.ops)
                              /\ prints[i + 1].op = prints[i].op.ops[prints[i].k + 1]
                              /\ prints[i + 1].place = Append(prints[i].place, prints[i].k)
    BY <1>2 DEF PrintStacked
  <1>4. j \in 1..(l - 1) /\ j \in 1..l /\ j + 1 = l /\ j - 1 = l - 2
    <2> HIDE DEF l
    <2> QED
      BY <1>1, <1>2
  <1> HIDE DEF j
  <1>5. /\ PrintGood(f, G) /\ f.k < Len(f.op.ops)
        /\ prints[l].op = f.op.ops[f.k + 1] /\ prints[l].place = Append(f.place, f.k)
    BY <1>2, <1>3, <1>4
  <1> HIDE DEF f
  <1>6. h = Past(f, f.op.ops[f.k + 1], Append(f.place, f.k))
    BY <1>5
  <1> HIDE DEF h
  <1>7. PrintGood(h, G) /\ h.op = f.op /\ h.place = f.place
    BY <1>2, <1>5, <1>6, OpPrinted
  <1>8. PrintStacked(Append(SubSeq(prints, 1, j - 1), h), graph[section], G)
    <2>1. h.op = prints[j].op /\ h.place = prints[j].place
      BY <1>7 DEF f
    <2> QED
      BY <1>2, <1>4, <1>7, <2>1, PrintsGoOn
  <1>9. PrintsWhatFlows'
    BY <1>1, LinesFlow
  <1> HIDE DEF l
  <1> QED
    BY <1>1, <1>4, <1>8, <1>9 DEF PrintInv, First

LEMMA SectionEndPrints ==
    ASSUME NEW G, TraceInv(G), PrintInv(G), PrintSectionEnd PROVE PrintInv(G)'
  <1>1. stage = "print" /\ Len(prints) = 1 /\ UNCHANGED <<graph, has>>
    BY DEF PrintSectionEnd, InPrint
  <1>2. PrintStacked(prints, graph[section], G) /\ IsScope(scope)
    BY <1>1, PrintTop
  <1>3. Printed.op = graph[section] /\ Printed.place = <<0>>
    BY <1>1, <1>2 DEF PrintStacked, Printed
  <1>4. CASE After(section) = {}
    <2>1. stage' = "done" /\ lines' = <<>>
      BY <1>4 DEF PrintSectionEnd
    <2> QED
      BY <2>1, LinesFlow DEF PrintInv
  <1>5. CASE After(section) # {}
    <2> DEFINE sc == Produced(scope, graph[section], <<0>>)
    <2>1. section' \in After(section) /\ Entered(section', sc) /\ stage' = "print"
      BY <1>1, <1>3, <1>5 DEF PrintSectionEnd
    <2>2. section = First(has) => scope.producers = <<>>
      BY <1>1 DEF PrintInv
    <2>3. PICK s \in After(section) : s = section'
      BY <2>1
    <2>4. IsScope(sc) /\ Fed(sc, graph[s])
      BY <1>1, <1>2, <2>2, NextFed
    <2>5. section' \in has /\ section' # First(has)
      BY <2>1, SectionIs DEF TraceInv, After, First, Section
    <2> HIDE DEF sc
    <2> QED
      BY <1>1, <2>1, <2>3, <2>4, <2>5, SectionPrints
  <1> QED
    BY <1>4, <1>5

\* What tracing, running and printing keep.
PrintedInv == \E G : TraceInv(G) /\ RunInv(G) /\ PrintInv(G)

LEMMA PrintedInit == ASSUME Init PROVE PrintedInv
  <1>1. TraceInv({}) /\ RunInv({})
    BY InitTraces DEF Init, RunInv
  <1>2. DOMAIN <<>> = {}
    OBVIOUS
  <1>3. PrintInv({})
    BY <1>2 DEF Init, PrintInv, PrintsWhatFlows
  <1> QED
    BY <1>1, <1>3 DEF PrintedInv

LEMMA PrintedSteps == ASSUME PrintedInv, [Next]_vars PROVE PrintedInv'
  <1>1. PICK G : TraceInv(G) /\ RunInv(G) /\ PrintInv(G)
    BY DEF PrintedInv
  <1>2. CASE Tracers
    <2>1. PICK H : TraceInv(H)' /\ RunInv(H)'
      BY <1>1, <1>2, GraphTraced DEF GraphInv
    <2>2. lines' = lines /\ stage' \in {"trace", "refused", "built"}
      BY <1>2 DEF Tracers, CallLeaf, CallBlock, ReturnBlock, ReturnSection, Tracing
    <2>3. PrintInv(H)'
      BY <1>1, <2>2 DEF PrintInv, PrintsWhatFlows
    <2> QED
      BY <2>1, <2>3 DEF PrintedInv
  <1>3. CASE Run \/ RunLeaf \/ RunBlock \/ RunReturn
    <2>1. TraceInv(G)' /\ RunInv(G)'
      BY <1>1, <1>3, GraphRuns
    <2>2. lines' = lines /\ stage' \in {"run", "done"}
      BY <1>3 DEF Run, RunLeaf, RunBlock, RunReturn, InRun
    <2>3. PrintInv(G)'
      BY <1>1, <2>2 DEF PrintInv, PrintsWhatFlows
    <2> QED
      BY <2>1, <2>3 DEF PrintedInv
  <1>4. CASE Printers
    <2>1. TraceInv(G)' /\ RunInv(G)'
      BY <1>1, <1>4, GraphPrints
    <2>2. PrintInv(G)'
      BY <1>1, <1>4, HeaderPrints, SectionsPrint, LeafPrints, BlockPrints, BlockEndPrints, SectionEndPrints
         DEF Printers
    <2> QED
      BY <2>1, <2>2 DEF PrintedInv
  <1>5. CASE UNCHANGED vars
    <2>1. TraceInv(G)' /\ RunInv(G)'
      BY <1>1, <1>5 DEF vars, TraceInv, RunInv, Before, LastSection, Whole, SectionInputs, Given
    <2>2. PrintInv(G)'
      BY <1>1, <1>5 DEF vars, PrintInv, PrintsWhatFlows, First
    <2> QED
      BY <2>1, <2>2 DEF PrintedInv
  <1> QED
    BY <1>2, <1>3, <1>4, <1>5 DEF Next, Tracers, Printers

\* Whatever the application, every input line printed shows the value the
\* operation was called with and the operation that made it, through nested scopes
\* and from one section to the next (print_graph_structure.py: _print_input).
THEOREM PrintedAsRecorded == Spec => []PrintsWhatFlows
  <1>1. Init => PrintedInv
    BY PrintedInit
  <1>2. PrintedInv /\ [Next]_vars => PrintedInv'
    BY PrintedSteps
  <1>3. PrintedInv => PrintsWhatFlows
    BY DEF PrintedInv, PrintInv
  <1> QED
    BY <1>1, <1>2, <1>3, PTL DEF Spec
=============================================================================
