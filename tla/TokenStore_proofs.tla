-------------------------- MODULE TokenStore_proofs --------------------------
(* Theorems about TokenStore and the operations its calls report to, for any  *)
(* number of tokens, names, blocks and messages.                              *)
EXTENDS TokenStore, SequenceTheorems, WellFoundedInduction, TLAPS

-----------------------------------------------------------------------------
(* Sequences, whatever their elements. *)

IsSequence(s) == s \in Seq(Range(s))

LEMMA Appended ==
  ASSUME NEW s, IsSequence(s), NEW e
  PROVE  LET t == Append(s, e) IN
         /\ IsSequence(t) /\ Len(t) = Len(s) + 1
         /\ \A i \in 1..Len(s) : t[i] = s[i]
         /\ t[Len(s) + 1] = e
<1> DEFINE S == Range(s) \cup {e}
<1>1. s \in Seq(S) /\ e \in S  BY SeqMonotonic DEF IsSequence
<1>2. Append(s, e) \in Seq(S)  BY <1>1, AppendProperties
<1>3. /\ Len(Append(s, e)) = Len(s) + 1
      /\ \A i \in 1..Len(s) : Append(s, e)[i] = s[i]
      /\ Append(s, e)[Len(s) + 1] = e
  <2> HIDE DEF S
  <2> QED  BY <1>1, AppendProperties
<1>4. IsSequence(Append(s, e))
  <2> HIDE DEF S
  <2> QED  BY <1>2, SeqOfRange DEF IsSequence
<1> QED  BY <1>3, <1>4

LEMMA Shortened ==
  ASSUME NEW s, IsSequence(s), s # <<>>
  PROVE  LET t == Front(s) IN
         /\ IsSequence(t) /\ Len(t) = Len(s) - 1 /\ Len(s) \in Nat \ {0}
         /\ \A i \in 1..Len(t) : t[i] = s[i]
<1>1. Len(s) \in Nat /\ 1 <= Len(s)
  <2>1. Len(s) \in Nat \ {0}  BY EmptySeq DEF IsSequence
  <2> QED  BY <2>1
<1>2. \A i \in 1..(Len(s) - 1) : s[i] \in Range(s)  BY <1>1, ElementOfSeq DEF IsSequence
<1>3. /\ SubSeq(s, 1, Len(s) - 1) \in Seq(Range(s))
      /\ Len(SubSeq(s, 1, Len(s) - 1)) = IF 1 <= Len(s) - 1 THEN (Len(s) - 1) - 1 + 1 ELSE 0
      /\ \A i \in 1..((Len(s) - 1) - 1 + 1) : SubSeq(s, 1, Len(s) - 1)[i] = s[1 + i - 1]
  BY <1>1, <1>2, SubSeqProperties
<1>4. IsSequence(Front(s))  BY <1>3, SeqOfRange DEF IsSequence, Front
<1> HIDE DEF IsSequence
<1>5. Len(Front(s)) = Len(s) - 1
  <2> DEFINE n == Len(s)
             m == Len(SubSeq(s, 1, n - 1))
  <2>1. n \in Nat /\ 1 <= n /\ m = IF 1 <= n - 1 THEN (n - 1) - 1 + 1 ELSE 0  BY <1>1, <1>3
  <2>2. m = n - 1
    <3> HIDE DEF n, m
    <3> QED  BY <2>1
  <2> QED  BY <2>2 DEF Front
<1>6. \A i \in 1..(Len(s) - 1) : Front(s)[i] = s[i]  BY <1>1, <1>3 DEF Front
<1> QED  BY <1>1, <1>4, <1>5, <1>6

LEMMA Updated ==
  ASSUME NEW s, IsSequence(s), NEW k, NEW e
  PROVE  LET t == [s EXCEPT ![k] = e] IN
         /\ IsSequence(t) /\ Len(t) = Len(s)
         /\ \A i \in 1..Len(s) : t[i] = IF i = k THEN e ELSE s[i]
<1> DEFINE S == Range(s) \cup {e}
           t == [s EXCEPT ![k] = e]
<1>1. s \in Seq(S) /\ e \in S  BY SeqMonotonic DEF IsSequence
<1>2. /\ t \in Seq(S) /\ Len(t) = Len(s)
      /\ \A i \in 1..Len(s) : t[i] = IF i = k THEN e ELSE s[i]
  <2>1. CASE k \in 1..Len(s)  BY <1>1, <2>1, ExceptSeq
  <2>2. CASE k \notin 1..Len(s)
    <3>1. DOMAIN s = 1..Len(s) /\ s = [i \in 1..Len(s) |-> s[i]]  BY <1>1, LenProperties
    <3>2. t = s  BY <2>2, <3>1
    <3> QED  BY <1>1, <2>2, <3>2
  <2> QED  BY <2>1, <2>2
<1> QED  BY <1>2, SeqOfRange DEF IsSequence

-----------------------------------------------------------------------------
(* The blocks and the thread: the thread is there only while the outermost    *)
(* operation is drawn.                                                        *)

Fields == {"kind", "config", "infos", "ending", "error"}
Stack(bs) == IsSequence(bs) /\ \A i \in 1..Len(bs) : Fields \subseteq DOMAIN bs[i]

RootAt(bs, i) == IsOperation(bs[i]) /\ bs[i].config = "drawn" /\ \A j \in 1..(i - 1) : ~IsOperation(bs[j])
DrawnRoot(bs) == \E i \in 1..Len(bs) : RootAt(bs, i)

LogInv ==
    /\ Stack(blocks)
    /\ thread \in {"off", "check", "draw"}
    /\ thread # "off" => DrawnRoot(blocks)

\* Blocks of the same kinds and configurations.
Alike(bs, cs) ==
    Len(bs) = Len(cs) /\ \A i \in 1..Len(bs) : cs[i].kind = bs[i].kind /\ cs[i].config = bs[i].config

LEMMA StackLength == ASSUME NEW bs, Stack(bs) PROVE Len(bs) \in Nat /\ DOMAIN bs = 1..Len(bs)
  BY LenProperties DEF Stack, IsSequence

LEMMA AlikeKeepsRoot ==
  ASSUME NEW bs, Stack(bs), NEW cs, Alike(bs, cs), DrawnRoot(bs)
  PROVE  DrawnRoot(cs)
  BY StackLength DEF Alike, DrawnRoot, RootAt, IsOperation

\* A block is replaced by one that differs in what it was told or how it ended.
LEMMA BlockChanged ==
  ASSUME NEW bs, Stack(bs), NEW k, NEW e,
         k \in 1..Len(bs) => /\ DOMAIN e = DOMAIN bs[k]
                             /\ e.kind = bs[k].kind /\ e.config = bs[k].config
  PROVE  Stack([bs EXCEPT ![k] = e]) /\ Alike(bs, [bs EXCEPT ![k] = e])
<1> DEFINE cs == [bs EXCEPT ![k] = e]
<1>1. IsSequence(cs) /\ Len(cs) = Len(bs) /\ \A i \in 1..Len(bs) : cs[i] = IF i = k THEN e ELSE bs[i]
  <2>1. IsSequence(bs)  BY DEF Stack
  <2> HIDE DEF IsSequence
  <2> QED  BY <2>1, Updated
<1> HIDE DEF cs
<1>2. \A i \in 1..Len(cs) : Fields \subseteq DOMAIN cs[i]  BY <1>1 DEF Stack
<1>3. Stack(cs)  BY <1>1, <1>2 DEF Stack
<1>4. Alike(bs, cs)  BY <1>1 DEF Alike
<1> QED  BY <1>3, <1>4 DEF cs

LEMMA InfosAdded ==
  ASSUME NEW bs, Stack(bs), NEW messages
  PROVE  Stack(WithInfos(bs, messages)) /\ Alike(bs, WithInfos(bs, messages))
<1> DEFINE add(list, m) == IF Contains(list, m) THEN list ELSE Append(list, m)
           k == Collector(bs)
           e == [bs[k] EXCEPT !.infos = FoldLeft(add, bs[k].infos, messages)]
<1>1. WithInfos(bs, messages) = [bs EXCEPT ![k] = e]  BY DEF WithInfos
<1>2. k \in 1..Len(bs) => /\ DOMAIN e = DOMAIN bs[k]
                          /\ e.kind = bs[k].kind /\ e.config = bs[k].config
  BY DEF Stack, Fields
<1> HIDE DEF k, e
<1>3. Stack([bs EXCEPT ![k] = e]) /\ Alike(bs, [bs EXCEPT ![k] = e])
  <2> HIDE DEF Stack, Alike
  <2> QED  BY <1>2, BlockChanged
<1> QED  BY <1>1, <1>3

LEMMA BlockPushed ==
  ASSUME NEW bs, Stack(bs), NEW b, Fields \subseteq DOMAIN b
  PROVE  /\ Stack(Append(bs, b)) /\ (DrawnRoot(bs) => DrawnRoot(Append(bs, b)))
         /\ IsOperation(b) /\ b.config = "drawn" /\ (\A i \in 1..Len(bs) : ~IsOperation(bs[i]))
              => DrawnRoot(Append(bs, b))
<1> DEFINE cs == Append(bs, b)
<1>1. /\ IsSequence(cs) /\ Len(cs) = Len(bs) + 1
      /\ \A i \in 1..Len(bs) : cs[i] = bs[i]
      /\ cs[Len(bs) + 1] = b
  BY Appended DEF Stack
<1>2. Len(bs) \in Nat  BY StackLength
<1> HIDE DEF cs
<1>3. \A i \in 1..Len(cs) : i \in 1..Len(bs) \/ i = Len(bs) + 1  BY <1>1, <1>2
<1>4. Stack(cs)  BY <1>1, <1>3 DEF Stack
<1>5. ASSUME NEW i \in 1..Len(bs), RootAt(bs, i)  PROVE DrawnRoot(cs)
  <2>1. i \in 1..Len(cs) /\ \A j \in 1..(i - 1) : j \in 1..Len(bs)  BY <1>1, <1>2
  <2> QED  BY <1>1, <1>5, <2>1 DEF DrawnRoot, RootAt, IsOperation
<1>6. ASSUME IsOperation(b), b.config = "drawn", \A i \in 1..Len(bs) : ~IsOperation(bs[i])
      PROVE  DrawnRoot(cs)
  <2>1. Len(cs) \in 1..Len(cs) /\ \A j \in 1..(Len(cs) - 1) : j \in 1..Len(bs)  BY <1>1, <1>2
  <2>2. RootAt(cs, Len(cs))  BY <1>1, <1>6, <2>1 DEF RootAt, IsOperation
  <2> QED  BY <2>1, <2>2 DEF DrawnRoot
<1> QED  BY <1>4, <1>5, <1>6 DEF cs, DrawnRoot

LEMMA BlockPopped ==
  ASSUME NEW bs, Stack(bs), bs # <<>>
  PROVE  /\ Stack(Front(bs)) /\ Len(bs) \in 1..Len(bs)
         /\ \A i \in 1..Len(bs) : RootAt(bs, i) /\ i # Len(bs) => DrawnRoot(Front(bs))
<1> DEFINE cs == Front(bs)
<1>1. /\ IsSequence(cs) /\ Len(cs) = Len(bs) - 1 /\ Len(bs) \in Nat \ {0}
      /\ \A i \in 1..Len(cs) : cs[i] = bs[i]
  BY Shortened DEF Stack
<1> HIDE DEF cs
<1>2. Stack(cs)  BY <1>1 DEF Stack
<1>3. ASSUME NEW i \in 1..Len(bs), RootAt(bs, i), i # Len(bs)  PROVE DrawnRoot(cs)
  <2>1. i \in 1..Len(cs) /\ \A j \in 1..(i - 1) : j \in 1..Len(cs)  BY <1>1, <1>3
  <2> QED  BY <1>1, <1>3, <2>1 DEF DrawnRoot, RootAt, IsOperation
<1> QED  BY <1>1, <1>2, <1>3 DEF cs

\* The steps blocks and thread take.
LogStep ==
    \/ EnterContext \/ ExitContext \/ Stopped
    \/ \E op : Start(op)
    \/ \E error \in BOOLEAN : Stop(error)
    \/ \E messages : IsSequence(messages) /\ LogInfo(messages)
    \/ Check \/ Draw \/ UNCHANGED logVars

LEMMA ListIsSequence ==
  ASSUME NEW a, NEW b
  PROVE  IsSequence(<<>>) /\ IsSequence(<<a>>) /\ IsSequence(<<a, b>>)
<1>1. <<>> \in Seq({a, b}) /\ <<a>> \in Seq({a, b}) /\ <<a, b>> \in Seq({a, b})  OBVIOUS
<1> QED  BY <1>1, SeqOfRange DEF IsSequence

LEMMA NextIsLogStep == ASSUME [Next]_vars PROVE LogStep
<1>1. CASE Blocks  BY <1>1 DEF Blocks, LogStep
<1>2. CASE Create \/ Answered \/ Created  BY <1>2 DEF Create, Answered, Created, LogStep
<1>3. CASE Save \/ SaveReplace \/ OtherReplace \/ Cleanup \/ Stat \/ Return \/ UNCHANGED vars
  BY <1>3 DEF Save, SaveReplace, OtherReplace, Cleanup, Stat, Return, vars, LogStep
<1>4. CASE SaveWrite
  <2>1. IsSequence(<< <<"saving">>, <<"path">> >>)  BY ListIsSequence
  <2> QED  BY <1>4, <2>1 DEF SaveWrite, LogStep
<1>5. CASE Load
  <2>1. IsSequence(<< <<"selecting">> >>)  BY ListIsSequence
  <2> QED  BY <1>5, <2>1 DEF Load, LogStep
<1>6. CASE Read
  <2>1. /\ IsSequence(<<>>) /\ IsSequence(<< <<"path">> >>)
        /\ IsSequence(<< <<"path">>, <<"loaded">> >>)
    BY ListIsSequence
  <2>2. PICK kind \in {"none", "invalid", "token"} :
          LogInfo(CASE kind = "none" -> <<>>
                    [] kind = "invalid" -> << <<"path">> >>
                    [] kind = "token" -> << <<"path">>, <<"loaded">> >>)
    BY <1>6 DEF Read
  <2>3. LogInfo(<<>>) \/ LogInfo(<< <<"path">> >>) \/ LogInfo(<< <<"path">>, <<"loaded">> >>)
    BY <2>2
  <2> QED  BY <2>1, <2>3 DEF LogStep
<1> QED  BY <1>1, <1>2, <1>3, <1>4, <1>5, <1>6 DEF Next

LEMMA NewBlock ==
  ASSUME NEW kind, NEW op, NEW config
  PROVE  LET b == Block(kind, op, config) IN
         Fields \subseteq DOMAIN b /\ b.kind = kind /\ b.config = config
  BY DEF Block, Fields

LEMMA OnlyOne == ASSUME Stack(blocks), Outermost, NEW i \in 1..Len(blocks), IsOperation(blocks[i])
                 PROVE  i = Len(blocks)
  BY StackLength DEF Outermost, Operations

LEMMA LogStepInv == ASSUME LogInv, LogStep PROVE LogInv'
<1> USE DEF LogInv
<1>1. CASE EnterContext
  <2>1. PICK c \in Config : blocks' = Append(blocks, Block("context", None, c))  BY <1>1 DEF EnterContext
  <2>2. Stack(blocks)' /\ (DrawnRoot(blocks) => DrawnRoot(blocks)')  BY <2>1, NewBlock, BlockPushed
  <2> QED  BY <1>1, <2>2 DEF EnterContext
<1>2. CASE ExitContext
  <2>1. blocks # <<>> /\ blocks' = Front(blocks) /\ ~IsOperation(blocks[Len(blocks)]) /\ thread' = thread
    BY <1>2 DEF ExitContext, Last, IsOperation
  <2>2. Stack(blocks)'  BY <2>1, BlockPopped
  <2>3. DrawnRoot(blocks) => DrawnRoot(blocks)'  BY <2>1, BlockPopped DEF DrawnRoot, RootAt
  <2> QED  BY <2>1, <2>2, <2>3
<1>3. CASE Stopped
  <2>1. blocks # <<>> /\ IsOperation(blocks[Len(blocks)]) /\ Joined /\ thread' = thread
    BY <1>3 DEF Stopped, Last
  <2>2. Stack(Front(blocks)) /\ Len(blocks) \in 1..Len(blocks)  BY <2>1, BlockPopped
  <2>3. CASE Outermost
    <3>1. blocks' = Front(blocks)  BY <1>3, <2>3 DEF Stopped
    <3>2. thread = "off"  BY <2>1, <2>3 DEF Joined
    <3> QED  BY <2>1, <2>2, <3>1, <3>2
  <2>4. CASE ~Outermost
    <3>1. PICK d \in Duration : blocks' = WithInfos(Front(blocks), Report(Last(blocks), d))
      BY <1>3, <2>4 DEF Stopped
    <3>2. Stack(blocks)' /\ Alike(Front(blocks), blocks')  BY <2>2, <3>1, InfosAdded
    <3>3. ASSUME NEW i \in 1..Len(blocks), RootAt(blocks, i)  PROVE DrawnRoot(Front(blocks))
      <4>1. i # Len(blocks)
        <5>1. SUFFICES ASSUME i = Len(blocks)  PROVE FALSE  OBVIOUS
        <5>2. \A j \in DOMAIN blocks : IsOperation(blocks[j]) => j = Len(blocks)
          BY <3>3, <5>1, StackLength DEF RootAt
        <5>3. Operations = {Len(blocks)}
          BY <2>1, <2>2, <5>2, StackLength DEF Operations
        <5> QED  BY <2>4, <5>3 DEF Outermost
      <4> QED  BY <2>1, <3>3, <4>1, BlockPopped
    <3>4. DrawnRoot(blocks) => DrawnRoot(blocks')  BY <2>2, <3>2, <3>3, AlikeKeepsRoot DEF DrawnRoot
    <3> QED  BY <2>1, <3>2, <3>4
  <2> QED  BY <2>3, <2>4
<1>4. ASSUME NEW op, Start(op)  PROVE LogInv'
  <2> DEFINE b == Block("operation", op, InForce)
  <2>1. blocks' = Append(blocks, b)  BY <1>4 DEF Start
  <2>2. Fields \subseteq DOMAIN b /\ b.kind = "operation" /\ b.config = InForce  BY NewBlock
  <2> HIDE DEF b
  <2>3. Stack(blocks)' /\ (DrawnRoot(blocks) => DrawnRoot(blocks)')  BY <2>1, <2>2, BlockPushed
  <2>4. CASE Operations = {}
    <3>1. \A i \in 1..Len(blocks) : ~IsOperation(blocks[i])  BY <2>4, StackLength DEF Operations
    <3>2. thread' = (IF InForce = "drawn" THEN "check" ELSE "off")  BY <1>4, <2>4 DEF Start
    <3>3. InForce = "drawn" => DrawnRoot(blocks)'
      BY <2>1, <2>2, <3>1, BlockPushed DEF IsOperation
    <3> QED  BY <2>3, <3>2, <3>3
  <2>5. CASE Operations # {}  BY <1>4, <2>3, <2>5 DEF Start
  <2> QED  BY <2>4, <2>5
<1>5. ASSUME NEW error \in BOOLEAN, Stop(error)  PROVE LogInv'
  <2> DEFINE k == Len(blocks)
             b == [blocks[k] EXCEPT !.ending = TRUE]
             e == [b EXCEPT !.error = error]
  <2>1. k \in 1..Len(blocks)
    <3>1. IsSequence(blocks) /\ blocks # <<>>  BY <1>5 DEF Stop, Stack
    <3> QED  BY <3>1, Shortened
  <2>2. DOMAIN blocks = 1..Len(blocks)  BY StackLength
  <2>3. blocks' = [blocks EXCEPT ![k] = e]  BY <1>5, <2>1, <2>2 DEF Stop
  <2>4. DOMAIN e = DOMAIN blocks[k] /\ e.kind = blocks[k].kind /\ e.config = blocks[k].config
    BY <2>1 DEF Stack, Fields
  <2>5. Stack(blocks)' /\ Alike(blocks, blocks')
    <3> HIDE DEF k, e, Stack, Alike
    <3> QED  BY <2>3, <2>4, BlockChanged
  <2>6. DrawnRoot(blocks) => DrawnRoot(blocks')  BY <2>5, AlikeKeepsRoot
  <2> QED  BY <1>5, <2>5, <2>6 DEF Stop
<1>6. ASSUME NEW messages, LogInfo(messages)  PROVE LogInv'
  <2>1. CASE Operations # {}
    <3>1. blocks' = WithInfos(blocks, messages) /\ thread' = thread  BY <1>6, <2>1 DEF LogInfo
    <3>2. Stack(blocks)' /\ Alike(blocks, blocks')  BY <3>1, InfosAdded
    <3> QED  BY <3>1, <3>2, AlikeKeepsRoot
  <2>2. CASE Operations = {}  BY <1>6, <2>2 DEF LogInfo
  <2> QED  BY <2>1, <2>2
<1>7. CASE Check \/ Draw \/ UNCHANGED logVars  BY <1>7 DEF Check, Draw, logVars
<1> QED  BY <1>1, <1>2, <1>3, <1>4, <1>5, <1>6, <1>7 DEF LogStep

LEMMA RootIsDrawn ==
  ASSUME Stack(blocks), DrawnRoot(blocks)
  PROVE  Operations # {} /\ blocks[Root].config = "drawn"
<1>1. PICK i \in 1..Len(blocks) : RootAt(blocks, i)  BY DEF DrawnRoot
<1>2. Len(blocks) \in Nat /\ DOMAIN blocks = 1..Len(blocks)  BY StackLength
<1>3. i \in Operations  BY <1>1, <1>2 DEF Operations, RootAt
<1>4. \A j \in Operations : j \in 1..Len(blocks) /\ i <= j  BY <1>1, <1>2 DEF Operations, RootAt
<1>5. Root = i
  <2>1. Root \in Operations /\ \A j \in Operations : Root <= j  BY <1>3, <1>4 DEF Root
  <2> QED  BY <1>1, <1>2, <1>3, <1>4, <2>1
<1> QED  BY <1>1, <1>3, <1>5 DEF RootAt

\* A frame is written only while the outermost operation, which it shows, is
\* running and drawn (logging.py: OperationLog.stop, _run).
THEOREM FramesOnlyBefore == Spec => NoFrameAfter
<1>1. Init => LogInv
  <2>1. IsSequence(<<>>)  BY EmptySeq DEF IsSequence
  <2> QED  BY <2>1 DEF Init, InitLog, LogInv, Stack
<1>2. LogInv /\ [Next]_vars => LogInv'  BY NextIsLogStep, LogStepInv
<1>3. LogInv => [thread = "draw" /\ thread' = "check" =>
                   Operations # {} /\ blocks[Root].config = "drawn"]_logVars
  BY RootIsDrawn DEF LogInv
<1> QED  BY <1>1, <1>2, <1>3, PTL DEF Spec, NoFrameAfter

-----------------------------------------------------------------------------
(* What is reported: the outermost operation keeps a digest of it. *)

LEMMA LeastNat ==
  ASSUME NEW S \in SUBSET Nat, S # {}
  PROVE  \E n \in S : \A m \in S : n <= m
<1>1. IsWellFoundedOn(OpToRel(<, Nat), Nat)  BY NatLessThanWellFounded
<1>2. PICK n \in S : \A m \in S : ~(<<m, n>> \in OpToRel(<, Nat))  BY <1>1, WFMin
<1>3. \A m \in S : ~(m < n)  BY <1>2 DEF OpToRel
<1> QED  BY <1>3

\* Induction, over a set: the induction theorems of the library are about operators.
LEMMA NatSetInduction ==
  ASSUME NEW S, 0 \in S, \A n \in Nat : n \in S => n + 1 \in S
  PROVE  Nat \subseteq S
<1>1. SUFFICES ASSUME Nat \ S # {}  PROVE FALSE  OBVIOUS
<1>2. PICK n \in Nat \ S : \A m \in Nat \ S : n <= m  BY <1>1, LeastNat
<1>3. n # 0 /\ n - 1 \in Nat  BY <1>2
<1>4. n - 1 \in S  BY <1>2, <1>3
<1> QED  BY <1>2, <1>3, <1>4

\* add of add_info, and its fold.
add(list, m) == IF Contains(list, m) THEN list ELSE Append(list, m)
Folded(base, s) == FoldLeft(add, base, s)
Steps(g, base, s, n) == g[0] = base /\ \A k \in 1..n : g[k] = add(g[k - 1], s[k])

\* The greatest of some of 1..k.
LEMMA MaxOfSome ==
  ASSUME NEW k \in Nat, NEW t \in SUBSET (1..k), t # {}
  PROVE  Max(t) \in t /\ \A x \in t : x <= Max(t)
<1> DEFINE S == {n \in Nat : k - n \in t}
<1>1. PICK x \in t : TRUE  OBVIOUS
<1>2. x \in 1..k /\ k - x \in Nat /\ k - (k - x) = x  OBVIOUS
<1>3. k - x \in S  BY <1>1, <1>2
<1>4. PICK n \in S : \A m \in S : n <= m
  <2>1. S \in SUBSET Nat /\ S # {}  BY <1>3
  <2> HIDE DEF S
  <2> QED  BY <2>1, LeastNat
<1>5. k - n \in t  BY <1>4
<1>6. ASSUME NEW y \in t  PROVE y <= k - n
  <2>1. y \in 1..k /\ k - y \in Nat /\ k - (k - y) = y /\ n \in Nat  BY <1>4
  <2>2. k - y \in S  BY <2>1
  <2> QED  BY <1>4, <2>1, <2>2
<1> QED  BY <1>5, <1>6 DEF Max

\* A fold by add goes through the elements one by one.
LEMMA FoldAdd ==
  ASSUME NEW s, NEW n \in Nat, DOMAIN s = 1..n, NEW base
  PROVE  \E g : Steps(g, base, s, n) /\ g[n] = Folded(base, s)
<1> DEFINE Iter(f, k) == f = [t \in SUBSET (1..k) |-> IF t = {} THEN base ELSE add(f[t \ {Max(t)}], s[Max(t)])]
           K == {k \in Nat : \E f : Iter(f, k)}
           iter == CHOOSE f : Iter(f, n)
<1>1. 0 \in K
  <2> DEFINE f == [t \in SUBSET (1..0) |-> base]
  <2>1. \A t \in SUBSET (1..0) : t = {}  OBVIOUS
  <2>2. Iter(f, 0)  BY <2>1
  <2> QED  BY <2>2
<1>2. ASSUME NEW k \in Nat, k \in K  PROVE k + 1 \in K
  <2>1. PICK f : Iter(f, k)  BY <1>2
  <2> DEFINE g == [t \in SUBSET (1..(k + 1)) |-> IF k + 1 \in t THEN add(f[t \ {k + 1}], s[k + 1]) ELSE f[t]]
  <2>2. ASSUME NEW t \in SUBSET (1..(k + 1))
        PROVE  g[t] = IF t = {} THEN base ELSE add(g[t \ {Max(t)}], s[Max(t)])
    <3>1. CASE k + 1 \in t
      <4>1. Max(t) = k + 1
        <5>1. k + 1 \in Nat /\ t # {} /\ \A x \in t : x <= k + 1  BY <3>1
        <5>2. Max(t) \in t /\ \A x \in t : x <= Max(t)  BY <5>1, MaxOfSome
        <5>3. Max(t) \in 1..(k + 1)  BY <5>2
        <5> QED  BY <3>1, <5>1, <5>2, <5>3
      <4>2. t \ {k + 1} \in SUBSET (1..(k + 1)) /\ k + 1 \notin t \ {k + 1}  OBVIOUS
      <4>3. g[t \ {k + 1}] = f[t \ {k + 1}]  BY <4>2
      <4> HIDE DEF add
      <4> QED  BY <3>1, <4>1, <4>3
    <3>2. CASE k + 1 \notin t
      <4>1. t \in SUBSET (1..k)  BY <3>2
      <4>2. f[t] = IF t = {} THEN base ELSE add(f[t \ {Max(t)}], s[Max(t)])
        <5> HIDE DEF add
        <5> QED  BY <2>1, <4>1
      <4>3. g[t] = f[t] /\ g[t \ {Max(t)}] = f[t \ {Max(t)}]
        <5>1. t \ {Max(t)} \in SUBSET (1..(k + 1)) /\ k + 1 \notin t \ {Max(t)}  BY <3>2
        <5> QED  BY <3>2, <5>1
      <4> HIDE DEF g, add
      <4> QED  BY <4>2, <4>3
    <3> QED  BY <3>1, <3>2
  <2>3. g = [t \in SUBSET (1..(k + 1)) |-> IF t = {} THEN base ELSE add(g[t \ {Max(t)}], s[Max(t)])]
    <3>1. g = [t \in SUBSET (1..(k + 1)) |-> g[t]]  OBVIOUS
    <3> HIDE DEF g, add
    <3> QED  BY <2>2, <3>1
  <2>4. Iter(g, k + 1)
    <3> HIDE DEF g, add
    <3> QED  BY <2>3
  <2> HIDE DEF g, Iter
  <2>5. k + 1 \in Nat  OBVIOUS
  <2> QED  BY <2>4, <2>5
<1>3. Iter(iter, n)
  <2> HIDE DEF Iter
  <2>1. Nat \subseteq K
    <3> HIDE DEF K
    <3> QED  BY <1>1, <1>2, NatSetInduction
  <2> QED  BY <2>1
<1>4. Folded(base, s) = iter[1..n]  BY DEF Folded, FoldLeft, MapThenFoldSet
<1> DEFINE g == [k \in 0..n |-> iter[1..k]]
<1> HIDE DEF iter, add
<1>5. g[0] = base
  <2>1. 1..0 = {} /\ {} \in SUBSET (1..n) /\ 0 \in 0..n  OBVIOUS
  <2>2. iter[{}] = base  BY <1>3, <2>1
  <2> QED  BY <2>1, <2>2
<1>6. ASSUME NEW k \in 1..n  PROVE g[k] = add(g[k - 1], s[k])
  <2>1. 1..k \in SUBSET (1..n) /\ 1..k # {} /\ k \in 1..k /\ \A x \in 1..k : x <= k  OBVIOUS
  <2>2. Max(1..k) = k
    <3>1. Max(1..k) \in 1..k /\ \A x \in 1..k : x <= Max(1..k)  BY <2>1, MaxOfSome
    <3> QED  BY <2>1, <3>1
  <2>3. (1..k) \ {k} = 1..(k - 1)  OBVIOUS
  <2>4. iter[1..k] = add(iter[1..(k - 1)], s[k])  BY <1>3, <2>1, <2>2, <2>3
  <2> QED  BY <2>4
<1>7. g[n] = Folded(base, s)  BY <1>4
<1>8. Steps(g, base, s, n)
  <2> HIDE DEF g
  <2> QED  BY <1>5, <1>6 DEF Steps
<1> HIDE DEF g
<1> QED  BY <1>7, <1>8

First(all, m) == SelectInSeq(all, LAMBDA x : x = m)

LEMMA FirstFacts ==
  ASSUME NEW all, IsSequence(all), NEW m, Contains(all, m)
  PROVE  /\ First(all, m) \in 1..Len(all) /\ all[First(all, m)] = m
         /\ \A i \in 1..Len(all) : all[i] = m => First(all, m) <= i
<1> DEFINE I == {i \in 1..Len(all) : all[i] = m}
<1>1. Len(all) \in Nat  BY LenProperties DEF IsSequence
<1>2. I \in SUBSET Nat /\ I # {}  BY <1>1 DEF Contains
<1>3. PICK n \in I : \A i \in I : n <= i
  <2> HIDE DEF I
  <2> QED  BY <1>2, LeastNat
<1>4. First(all, m) = Min(I)  BY <1>2 DEF First, SelectInSeq
<1>5. Min(I) \in I /\ \A i \in I : Min(I) <= i  BY <1>3 DEF Min
<1> QED  BY <1>4, <1>5

\* One more is reported: what was there keeps its place.
LEMMA FirstAppended ==
  ASSUME NEW all, IsSequence(all), NEW e, NEW m
  PROVE  /\ Contains(all, m) => First(Append(all, e), m) = First(all, m)
         /\ ~Contains(all, e) => First(Append(all, e), e) = Len(all) + 1
         /\ Contains(Append(all, e), m) <=> Contains(all, m) \/ m = e
<1> DEFINE new == Append(all, e)
<1>1. /\ IsSequence(new) /\ Len(new) = Len(all) + 1 /\ new[Len(all) + 1] = e
      /\ \A i \in 1..Len(all) : new[i] = all[i]
  BY Appended
<1>2. Len(all) \in Nat  BY LenProperties DEF IsSequence
<1> HIDE DEF new
<1>3. \A x : Contains(new, x) <=> Contains(all, x) \/ x = e
  <2>1. \A i \in 1..Len(new) : i \in 1..Len(all) \/ i = Len(all) + 1  BY <1>1, <1>2
  <2>2. \A i \in 1..Len(all) : i \in 1..Len(new)  BY <1>1, <1>2
  <2>3. Len(all) + 1 \in 1..Len(new)  BY <1>1, <1>2
  <2> QED  BY <1>1, <2>1, <2>2, <2>3 DEF Contains
<1>4. ASSUME Contains(all, m)  PROVE First(new, m) = First(all, m)
  <2>1. /\ First(all, m) \in 1..Len(all) /\ all[First(all, m)] = m
        /\ \A i \in 1..Len(all) : all[i] = m => First(all, m) <= i
    BY <1>4, FirstFacts
  <2>2. /\ First(new, m) \in 1..Len(new) /\ new[First(new, m)] = m
        /\ \A i \in 1..Len(new) : new[i] = m => First(new, m) <= i
    BY <1>1, <1>3, <1>4, FirstFacts
  <2> QED  BY <1>1, <1>2, <2>1, <2>2
<1>5. ASSUME ~Contains(all, e)  PROVE First(new, e) = Len(all) + 1
  <2>1. First(new, e) \in 1..Len(new) /\ new[First(new, e)] = e  BY <1>1, <1>3, FirstFacts
  <2>2. First(new, e) \notin 1..Len(all)  BY <1>1, <1>5, <2>1 DEF Contains
  <2> QED  BY <1>1, <1>2, <2>1, <2>2
<1> QED  BY <1>3, <1>4, <1>5 DEF new

\* Digest, with the places named.
LEMMA DigestIs ==
  ASSUME NEW list, NEW all
  PROVE  Digest(list, all) <=>
           /\ \A m \in ToSet(all) : Contains(list, m)
           /\ ToSet(list) \subseteq ToSet(all)
           /\ \A i, j \in DOMAIN list : i < j => First(all, list[i]) < First(all, list[j])
  BY DEF Digest, First

LEMMA SequenceSet ==
  ASSUME NEW s, IsSequence(s)
  PROVE  DOMAIN s = 1..Len(s) /\ Len(s) \in Nat /\ \A m : m \in ToSet(s) <=> Contains(s, m)
  BY LenProperties DEF IsSequence, ToSet, Contains

LEMMA DigestAdd ==
  ASSUME NEW list, IsSequence(list), NEW all, IsSequence(all), Digest(list, all), NEW e
  PROVE  IsSequence(add(list, e)) /\ Digest(add(list, e), Append(all, e))
<1> DEFINE new == Append(all, e)
           long == Append(list, e)
<1>1. IsSequence(new) /\ IsSequence(long)  BY Appended
<1>2. /\ \A m : Contains(new, m) <=> Contains(all, m) \/ m = e
      /\ \A m : Contains(all, m) => First(new, m) = First(all, m)
      /\ ~Contains(all, e) => First(new, e) = Len(all) + 1
  BY FirstAppended
<1>3. \A m : Contains(list, m) <=> Contains(all, m)  BY SequenceSet, DigestIs
<1>4. \A i, j \in DOMAIN list : i < j => First(all, list[i]) < First(all, list[j])  BY DigestIs
<1>5. /\ DOMAIN list = 1..Len(list) /\ Len(list) \in Nat
      /\ \A m : m \in ToSet(list) <=> Contains(list, m)
  BY SequenceSet
<1>6. \A m : m \in ToSet(new) <=> Contains(new, m)  BY <1>1, SequenceSet
<1>7. \A i \in DOMAIN list : Contains(all, list[i])  BY <1>3, <1>5 DEF Contains
<1>8. CASE Contains(list, e)
  <2>1. add(list, e) = list  BY <1>8 DEF add
  <2>2. \A i, j \in DOMAIN list : i < j => First(new, list[i]) < First(new, list[j])
    BY <1>2, <1>4, <1>7
  <2>3. Digest(list, new)
    <3> HIDE DEF new
    <3> QED  BY <1>2, <1>3, <1>5, <1>6, <1>8, <2>2, DigestIs
  <2> QED  BY <2>1, <2>3
<1>9. CASE ~Contains(list, e)
  <2>1. add(list, e) = long  BY <1>9 DEF add
  <2>2. \A m : Contains(long, m) <=> Contains(list, m) \/ m = e  BY FirstAppended
  <2>3. /\ DOMAIN long = 1..Len(long) /\ Len(long) = Len(list) + 1 /\ long[Len(list) + 1] = e
        /\ \A i \in 1..Len(list) : long[i] = list[i]
        /\ \A m : m \in ToSet(long) <=> Contains(long, m)
    BY <1>1, SequenceSet, Appended
  <2>4. First(new, e) = Len(all) + 1  BY <1>2, <1>3, <1>9
  <2>5. ASSUME NEW i \in DOMAIN long, NEW j \in DOMAIN long, i < j
        PROVE  First(new, long[i]) < First(new, long[j])
    <3>1. i \in DOMAIN list /\ long[i] = list[i]  BY <1>5, <2>3, <2>5
    <3>2. First(new, list[i]) = First(all, list[i]) /\ First(all, list[i]) \in 1..Len(all)
      BY <1>2, <1>7, <3>1, FirstFacts
    <3>3. CASE j \in DOMAIN list
      BY <1>2, <1>4, <1>5, <1>7, <2>3, <2>5, <3>1, <3>2, <3>3
    <3>4. CASE j \notin DOMAIN list
      <4>1. long[j] = e  BY <1>5, <2>3, <3>4
      <4>2. Len(all) \in Nat  BY SequenceSet
      <4> QED  BY <2>4, <3>1, <3>2, <4>1, <4>2
    <3> QED  BY <3>3, <3>4
  <2>6. Digest(long, new)
    <3> HIDE DEF new, long
    <3> QED  BY <1>2, <1>3, <1>6, <2>2, <2>3, <2>5, DigestIs
  <2> QED  BY <1>1, <2>1, <2>6
<1> QED  BY <1>8, <1>9

\* All the messages of a report.
LEMMA DigestFold ==
  ASSUME NEW list, IsSequence(list), NEW all, IsSequence(all), Digest(list, all),
         NEW s, IsSequence(s)
  PROVE  LET new == Folded(list, s) IN
         IsSequence(new) /\ Digest(new, all \o s) /\ IsSequence(all \o s)
<1> DEFINE n == Len(s)
           c == all \o s
           upto(k) == [i \in 1..(Len(all) + k) |-> c[i]]
<1>1. DOMAIN s = 1..n /\ n \in Nat /\ Len(all) \in Nat /\ all = [i \in 1..Len(all) |-> all[i]]
  BY SequenceSet, LenProperties DEF IsSequence
<1>2. /\ c = [i \in 1..(Len(all) + n) |-> c[i]]
      /\ \A i \in 1..Len(all) : c[i] = all[i]
      /\ \A k \in 1..n : c[Len(all) + k] = s[k]
  <2> DEFINE S == Range(all) \cup Range(s)
  <2>1. all \in Seq(S) /\ s \in Seq(S)  BY SeqMonotonic DEF IsSequence
  <2>2. c \in Seq(S) /\ Len(c) = Len(all) + n
        /\ \A i \in 1..(Len(all) + n) : c[i] = IF i <= Len(all) THEN all[i] ELSE s[i - Len(all)]
    <3> HIDE DEF S
    <3> QED  BY <2>1, ConcatProperties
  <2>3. c = [i \in 1..Len(c) |-> c[i]]
    <3> HIDE DEF c, S
    <3> QED  BY <2>2, LenProperties
  <2>4. \A k \in 1..n : Len(all) + k \in 1..(Len(all) + n) /\ ~(Len(all) + k <= Len(all)) /\ Len(all) + k - Len(all) = k
    BY <1>1
  <2>5. \A i \in 1..Len(all) : i \in 1..(Len(all) + n) /\ i <= Len(all)  BY <1>1
  <2> HIDE DEF c
  <2> QED  BY <2>2, <2>3, <2>4, <2>5
<1> HIDE DEF c
<1>3. upto(0) = all /\ upto(n) = c
  <2>1. 1..(Len(all) + 0) = 1..Len(all)  BY <1>1
  <2>2. \A i \in 1..Len(all) : c[i] = all[i]  BY <1>2
  <2>3. upto(0) = [i \in 1..Len(all) |-> all[i]]  BY ONLY <2>1, <2>2
  <2> QED  BY <1>1, <1>2, <2>3
<1>4. ASSUME NEW k \in Nat  PROVE IsSequence(upto(k))
  <2> DEFINE u == upto(k)
             m == Len(all) + k
  <2>1. u \in [1..m -> Range(u)] /\ m \in Nat  BY <1>1 DEF Range
  <2> HIDE DEF u, m
  <2>2. u \in Seq(Range(u))  BY <2>1, SeqDef
  <2> QED  BY <2>2 DEF IsSequence, u
<1>5. ASSUME NEW k \in 0..(n - 1)  PROVE Append(upto(k), s[k + 1]) = upto(k + 1)
  <2>1. k \in Nat /\ k + 1 \in 1..n /\ Len(upto(k)) = Len(all) + k
    <3>1. k \in Nat /\ k + 1 \in 1..n /\ Len(all) + k \in Nat
      <4> HIDE DEF n
      <4> QED  BY <1>1
    <3>2. DOMAIN upto(k) = 1..(Len(all) + k)  OBVIOUS
    <3> HIDE DEF upto
    <3> QED  BY <1>4, <3>1, <3>2, LenProperties DEF IsSequence
  <2>2. Append(upto(k), s[k + 1]) = [i \in 1..(Len(upto(k)) + 1) |-> IF i = Len(upto(k)) + 1 THEN s[k + 1] ELSE upto(k)[i]]
    OBVIOUS
  <2>3. c[Len(all) + (k + 1)] = s[k + 1]  BY <1>2, <2>1
  <2> QED  BY <1>1, <2>1, <2>2, <2>3
<1>6. PICK g : Steps(g, list, s, n) /\ g[n] = Folded(list, s)
  BY <1>1, FoldAdd
<1>6a. g[0] = list /\ \A k \in 1..n : g[k] = add(g[k - 1], s[k])
  BY <1>6 DEF Steps
<1> DEFINE K == {k \in Nat : k <= n => IsSequence(g[k]) /\ Digest(g[k], upto(k))}
<1>7. 0 \in K  BY <1>3, <1>6a
<1>8. ASSUME NEW k \in Nat, k \in K  PROVE k + 1 \in K
  <2>1. CASE k + 1 <= n
    <3>1. k <= n /\ k \in 0..(n - 1) /\ k + 1 \in 1..n /\ (k + 1) - 1 = k  BY <1>1, <2>1
    <3>2. IsSequence(g[k]) /\ Digest(g[k], upto(k)) /\ IsSequence(upto(k))  BY <1>4, <1>8, <3>1
    <3>3. g[k + 1] = add(g[k], s[k + 1])  BY <1>6a, <3>1
    <3>4. Append(upto(k), s[k + 1]) = upto(k + 1)  BY <1>5, <3>1
    <3> HIDE DEF upto
    <3>5. IsSequence(g[k + 1]) /\ Digest(g[k + 1], upto(k + 1))  BY <3>2, <3>3, <3>4, DigestAdd
    <3> QED  BY <3>5
  <2>2. CASE ~(k + 1 <= n)  BY <2>2
  <2> QED  BY <2>1, <2>2
<1>9. n \in K
  <2> HIDE DEF K
  <2>1. Nat \subseteq K  BY <1>7, <1>8, NatSetInduction
  <2> QED  BY <1>1, <2>1
<1>10. n <= n  BY <1>1
<1>11. IsSequence(g[n]) /\ Digest(g[n], upto(n)) /\ IsSequence(upto(n))
  <2> HIDE DEF upto
  <2> QED  BY <1>1, <1>4, <1>9, <1>10
<1> HIDE DEF upto
<1> QED  BY <1>3, <1>6, <1>11 DEF c

-----------------------------------------------------------------------------
(* The outermost operation and its messages *)

NoneRuns(bs) == \A i \in 1..Len(bs) : ~IsOperation(bs[i])
IsRoot(bs, i) == i \in 1..Len(bs) /\ IsOperation(bs[i]) /\ \A j \in 1..(i - 1) : ~IsOperation(bs[j])

\* The outermost operation has a digest of all that was reported.
Gathered(bs, all) ==
    /\ IsSequence(all) /\ (NoneRuns(bs) => all = <<>>)
    /\ \A i \in 1..Len(bs) : IsRoot(bs, i) => IsSequence(bs[i].infos) /\ Digest(bs[i].infos, all)

GatherInv == LogInv /\ Gathered(blocks, said) /\ AllIsShown

LEMMA RootExists ==
  ASSUME NEW bs, Stack(bs), ~NoneRuns(bs)
  PROVE  \E i \in 1..Len(bs) : IsRoot(bs, i)
<1> DEFINE S == {i \in 1..Len(bs) : IsOperation(bs[i])}
<1>1. Len(bs) \in Nat  BY StackLength
<1>2. S \in SUBSET Nat /\ S # {}  BY <1>1 DEF NoneRuns
<1>3. PICK i \in S : \A j \in S : i <= j
  <2> HIDE DEF S
  <2> QED  BY <1>2, LeastNat
<1>4. \A j \in 1..(i - 1) : j \in 1..Len(bs) /\ ~(i <= j)  BY <1>1, <1>3
<1> QED  BY <1>3, <1>4 DEF IsRoot

LEMMA RootIsOne ==
  ASSUME NEW bs, Stack(bs), NEW i, IsRoot(bs, i)
  PROVE  /\ \A j \in 1..Len(bs) : IsRoot(bs, j) => j = i
         /\ Collector(bs) = i
<1>1. Len(bs) \in Nat /\ DOMAIN bs = 1..Len(bs)  BY StackLength
<1>2. \A j \in 1..Len(bs) : IsRoot(bs, j) => j = i  BY <1>1 DEF IsRoot
<1>3. Collector(bs) \in DOMAIN bs /\ IsOperation(bs[Collector(bs)])
      /\ \A j \in 1..(Collector(bs) - 1) : ~IsOperation(bs[j])
  BY <1>1 DEF Collector, IsRoot
<1>4. IsRoot(bs, Collector(bs))  BY <1>1, <1>3 DEF IsRoot
<1> QED  BY <1>1, <1>2, <1>3, <1>4

\* Blocks that differ in how they ended at most.
LEMMA GatheredAlike ==
  ASSUME NEW bs, Stack(bs), NEW cs, Alike(bs, cs), NEW all, Gathered(bs, all),
         \A i \in 1..Len(bs) : cs[i].infos = bs[i].infos
  PROVE  Gathered(cs, all)
<1>1. \A i : IsRoot(cs, i) <=> IsRoot(bs, i)  BY StackLength DEF Alike, IsRoot, IsOperation
<1>2. NoneRuns(cs) <=> NoneRuns(bs)  BY DEF Alike, NoneRuns, IsOperation
<1>3. Len(cs) = Len(bs)  BY DEF Alike
<1> QED  BY <1>1, <1>2, <1>3 DEF Gathered

LEMMA GatheredPushed ==
  ASSUME NEW bs, Stack(bs), NEW b, NEW all, Gathered(bs, all), IsOperation(b) => b.infos = <<>>
  PROVE  Gathered(Append(bs, b), all)
<1> DEFINE cs == Append(bs, b)
<1>1. /\ Len(cs) = Len(bs) + 1 /\ cs[Len(bs) + 1] = b /\ Len(bs) \in Nat
      /\ \A i \in 1..Len(bs) : cs[i] = bs[i]
  BY Appended, StackLength DEF Stack
<1> HIDE DEF cs
<1>2. \A i \in 1..Len(bs) : i \in 1..Len(cs)  BY <1>1
<1>3. NoneRuns(cs) => NoneRuns(bs)  BY <1>1, <1>2 DEF NoneRuns
<1>4. ASSUME NEW i \in 1..Len(cs), IsRoot(cs, i)
      PROVE  IsSequence(cs[i].infos) /\ Digest(cs[i].infos, all)
  <2>1. CASE i \in 1..Len(bs)
    <3>1. \A j \in 1..(i - 1) : j \in 1..Len(bs)  BY <1>1, <2>1
    <3>2. IsRoot(bs, i)  BY <1>1, <1>4, <2>1, <3>1 DEF IsRoot, IsOperation
    <3> QED  BY <1>1, <2>1, <3>2 DEF Gathered
  <2>2. CASE i \notin 1..Len(bs)
    <3>1. i = Len(bs) + 1 /\ i - 1 = Len(bs)  BY <1>1, <2>2
    <3>2. NoneRuns(bs)  BY <1>1, <1>4, <3>1 DEF IsRoot, NoneRuns
    <3>3. all = <<>> /\ cs[i].infos = <<>>  BY <1>1, <1>4, <3>1, <3>2 DEF Gathered, IsRoot
    <3>4. IsSequence(<<>>)  BY EmptySeq DEF IsSequence
    <3>5. DOMAIN <<>> = {}  OBVIOUS
    <3>6. Digest(<<>>, <<>>)  BY <3>5 DEF Digest, ToSet
    <3> QED  BY <3>3, <3>4, <3>6
  <2> QED  BY <2>1, <2>2
<1> QED  BY <1>3, <1>4 DEF Gathered, cs

\* The last block is left while another operation runs, or it was none.
LEMMA GatheredPopped ==
  ASSUME NEW bs, Stack(bs), bs # <<>>, NEW all, Gathered(bs, all), ~IsRoot(bs, Len(bs))
  PROVE  /\ Gathered(Front(bs), all)
         /\ IsOperation(bs[Len(bs)]) => ~NoneRuns(Front(bs))
<1> DEFINE cs == Front(bs)
<1>1. /\ Len(cs) = Len(bs) - 1 /\ Len(bs) \in Nat \ {0}
      /\ \A i \in 1..Len(cs) : cs[i] = bs[i]
  BY Shortened DEF Stack
<1> HIDE DEF cs
<1>2. \A i \in 1..Len(cs) : i \in 1..Len(bs) /\ \A j \in 1..(i - 1) : j \in 1..Len(cs)  BY <1>1
<1>3. \A i \in 1..Len(cs) : IsRoot(cs, i) => IsRoot(bs, i)  BY <1>1, <1>2 DEF IsRoot, IsOperation
<1>4. NoneRuns(cs) => NoneRuns(bs) /\ ~IsOperation(bs[Len(bs)])
  <2>1. SUFFICES ASSUME NoneRuns(cs)  PROVE NoneRuns(bs) /\ ~IsOperation(bs[Len(bs)])  OBVIOUS
  <2>2. \A i \in 1..(Len(bs) - 1) : ~IsOperation(bs[i])  BY <1>1, <2>1 DEF NoneRuns
  <2>3. ~IsOperation(bs[Len(bs)])  BY <1>1, <2>2 DEF IsRoot
  <2>4. \A i \in 1..Len(bs) : i \in 1..(Len(bs) - 1) \/ i = Len(bs)  BY <1>1
  <2> QED  BY <2>2, <2>3, <2>4 DEF NoneRuns
<1>5. Gathered(cs, all)  BY <1>1, <1>2, <1>3, <1>4 DEF Gathered
<1> QED  BY <1>4, <1>5 DEF cs

LEMMA GatheredReport ==
  ASSUME NEW bs, Stack(bs), NEW all, Gathered(bs, all), ~NoneRuns(bs),
         NEW messages, IsSequence(messages)
  PROVE  Gathered(WithInfos(bs, messages), all \o messages)
<1>1. PICK k \in 1..Len(bs) : IsRoot(bs, k)  BY RootExists
<1>2. Collector(bs) = k /\ \A j \in 1..Len(bs) : IsRoot(bs, j) => j = k  BY <1>1, RootIsOne
<1> DEFINE list == bs[k].infos
           e == [bs[k] EXCEPT !.infos = Folded(list, messages)]
           cs == WithInfos(bs, messages)
<1>3. cs = [bs EXCEPT ![k] = e]  BY <1>2 DEF WithInfos, Folded, FoldLeft, MapThenFoldSet, add
<1>4. e.kind = bs[k].kind /\ e.infos = Folded(list, messages)  BY DEF Stack, Fields
<1>5. /\ Len(cs) = Len(bs) /\ Len(bs) \in Nat
      /\ \A i \in 1..Len(bs) : cs[i] = IF i = k THEN e ELSE bs[i]
  <2> HIDE DEF e, cs, IsSequence
  <2> QED  BY <1>3, Updated, StackLength DEF Stack
<1>6. IsSequence(all) /\ IsSequence(list) /\ Digest(list, all)  BY <1>1 DEF Gathered
<1>7. IsSequence(e.infos) /\ Digest(e.infos, all \o messages) /\ IsSequence(all \o messages)
  <2> HIDE DEF list, e, IsSequence
  <2> QED  BY <1>4, <1>6, DigestFold
<1> HIDE DEF e, cs, list
<1>8. \A i \in 1..Len(bs) : IsOperation(cs[i]) <=> IsOperation(bs[i])  BY <1>4, <1>5 DEF IsOperation
<1>9. \A i \in 1..Len(bs) : IsRoot(cs, i) => i = k
  <2>1. \A i \in 1..Len(bs) : \A j \in 1..(i - 1) : j \in 1..Len(bs)  BY <1>5
  <2> QED  BY <1>2, <1>5, <1>8, <2>1 DEF IsRoot
<1>10. ~NoneRuns(cs)  BY <1>1, <1>5, <1>8 DEF NoneRuns, IsRoot
<1> QED  BY <1>5, <1>7, <1>9, <1>10 DEF Gathered, cs

LEMMA RunsIffOperations == ASSUME Stack(blocks) PROVE NoneRuns(blocks) <=> Operations = {}
  BY StackLength DEF NoneRuns, Operations

LEMMA PlacesBefore ==
  ASSUME NEW n \in Nat
  PROVE  /\ \A j \in 1..(n - 1) : j \in 1..n /\ j # n
         /\ \A j \in 1..n : j \in 1..(n - 1) \/ j = n
  OBVIOUS

LEMMA OutermostIsRoot ==
  ASSUME Stack(blocks), blocks # <<>>, IsOperation(blocks[Len(blocks)])
  PROVE  Outermost <=> IsRoot(blocks, Len(blocks))
<1>1. Len(blocks) \in 1..Len(blocks) /\ Len(blocks) \in Nat /\ DOMAIN blocks = 1..Len(blocks)
  BY BlockPopped, StackLength
<1>2. ASSUME Outermost  PROVE IsRoot(blocks, Len(blocks))
  <2>1. \A j \in 1..(Len(blocks) - 1) : j \in 1..Len(blocks) /\ j # Len(blocks)  BY <1>1, PlacesBefore
  <2> QED  BY <1>1, <1>2, <2>1, OnlyOne DEF IsRoot
<1>3. ASSUME IsRoot(blocks, Len(blocks))  PROVE Outermost
  <2>1. \A j \in 1..Len(blocks) : j \in 1..(Len(blocks) - 1) \/ j = Len(blocks)  BY <1>1, PlacesBefore
  <2> QED  BY <1>1, <1>3, <2>1 DEF IsRoot, Outermost, Operations
<1> QED  BY <1>2, <1>3

LEMMA ReportIsSequence == ASSUME NEW b, NEW d PROVE IsSequence(Report(b, d))
<1> DEFINE S == {<<b.op, d>>, <<b.op, "error">>}
<1>1. Report(b, d) \in Seq(S)  BY DEF Report
<1> HIDE DEF S
<1> QED  BY <1>1, SeqOfRange DEF IsSequence

\* What is told whatever the output settings is told whatever was hushed.
LEMMA DigestIsWhole ==
  ASSUME NEW list, IsSequence(list), NEW all, IsSequence(all), Digest(list, all), NEW silent
  PROVE  Whole(list, all, silent)
<1>1. /\ \A m : m \in ToSet(all) <=> Contains(all, m)
      /\ \A m : m \in ToSet(list) <=> Contains(list, m)
  BY SequenceSet
<1>2. \A k \in DOMAIN all \ silent : Contains(list, all[k])  BY DEF Digest, ToSet
<1>3. ASSUME NEW i \in DOMAIN list, NEW j \in DOMAIN list, i < j
      PROVE  list[i] # list[j] /\ First(all, list[i]) < First(all, list[j])
  <2>1. First(all, list[i]) < First(all, list[j])  BY <1>3, DigestIs
  <2>2. Contains(all, list[i])  BY <1>1 DEF Digest, ToSet
  <2>3. First(all, list[i]) \in 1..Len(all)  BY <2>2, FirstFacts
  <2>4. ~(First(all, list[i]) < First(all, list[i]))  BY <2>3, SequenceSet
  <2> QED  BY <2>1, <2>4
<1> QED  BY <1>2, <1>3 DEF Whole, Digest, First

LEMMA GatherStep == ASSUME GatherInv, LogStep PROVE GatherInv'
<1> USE DEF GatherInv
<1>0. LogInv' /\ Stack(blocks)  BY LogStepInv DEF LogInv
<1>1. CASE EnterContext
  <2>1. PICK c \in Config : blocks' = Append(blocks, Block("context", None, c))  BY <1>1 DEF EnterContext
  <2>2. ~IsOperation(Block("context", None, c))  BY NewBlock DEF IsOperation
  <2>3. said' = said /\ shown' = None  BY <1>1 DEF EnterContext
  <2>4. Gathered(blocks', said)  BY <1>0, <2>1, <2>2, GatheredPushed
  <2> QED  BY <1>0, <2>3, <2>4 DEF AllIsShown
<1>2. CASE ExitContext
  <2>1. blocks # <<>> /\ blocks' = Front(blocks) /\ ~IsOperation(blocks[Len(blocks)])
        /\ said' = said /\ shown' = None
    BY <1>2 DEF ExitContext, Last, IsOperation
  <2>2. Gathered(blocks', said)  BY <1>0, <2>1, GatheredPopped DEF IsRoot
  <2> QED  BY <1>0, <2>1, <2>2 DEF AllIsShown
<1>3. CASE Stopped
  <2>1. blocks # <<>> /\ IsOperation(blocks[Len(blocks)]) /\ Last(blocks) = blocks[Len(blocks)]
    BY <1>3 DEF Stopped, Last
  <2>2. Len(blocks) \in 1..Len(blocks)  BY <1>0, <2>1, BlockPopped
  <2>3. CASE Outermost
    <3> DEFINE b == blocks[Len(blocks)]
    <3>1. /\ blocks' = Front(blocks) /\ said' = <<>>
          /\ shown' # None => shown' = [messages |-> b.infos, said |-> said, hushed |-> hushed]
      BY <1>3, <2>1, <2>3 DEF Stopped
    <3>2. IsRoot(blocks, Len(blocks))  BY <1>0, <2>1, <2>3, OutermostIsRoot
    <3>3. Whole(b.infos, said, hushed)  BY <2>2, <3>2, DigestIsWhole DEF Gathered
    <3>4. AllIsShown'
      <4> HIDE DEF b
      <4> QED  BY <3>1, <3>3 DEF AllIsShown
    <3>5. /\ Len(Front(blocks)) = Len(blocks) - 1 /\ Len(blocks) \in Nat \ {0}
          /\ \A i \in 1..Len(Front(blocks)) : Front(blocks)[i] = blocks[i]
      BY <1>0, <2>1, Shortened DEF Stack
    <3>6. \A i \in 1..Len(Front(blocks)) : ~IsOperation(Front(blocks)[i])  BY <3>2, <3>5 DEF IsRoot
    <3>7. IsSequence(<<>>)  BY EmptySeq DEF IsSequence
    <3>8. Gathered(blocks', said')  BY <3>1, <3>6, <3>7 DEF Gathered, IsRoot
    <3> QED  BY <1>0, <3>4, <3>8
  <2>4. CASE ~Outermost
    <3>1. PICK d \in Duration :
            /\ blocks' = WithInfos(Front(blocks), Report(Last(blocks), d))
            /\ said' = said \o Report(Last(blocks), d) /\ shown' = None
      BY <1>3, <2>4 DEF Stopped
    <3>2. ~IsRoot(blocks, Len(blocks))  BY <1>0, <2>1, <2>4, OutermostIsRoot
    <3>3. Gathered(Front(blocks), said) /\ ~NoneRuns(Front(blocks)) /\ Stack(Front(blocks))
      BY <1>0, <2>1, <3>2, GatheredPopped, BlockPopped
    <3>4. Gathered(blocks', said')  BY <3>1, <3>3, ReportIsSequence, GatheredReport
    <3> QED  BY <1>0, <3>1, <3>4 DEF AllIsShown
  <2> QED  BY <2>3, <2>4
<1>4. ASSUME NEW op, Start(op)  PROVE GatherInv'
  <2>1. blocks' = Append(blocks, Block("operation", op, InForce)) /\ said' = said /\ shown' = None
    BY <1>4 DEF Start
  <2>2. Block("operation", op, InForce).infos = <<>>  BY DEF Block
  <2>3. Gathered(blocks', said)  BY <1>0, <2>1, <2>2, GatheredPushed
  <2> QED  BY <1>0, <2>1, <2>3 DEF AllIsShown
<1>5. ASSUME NEW error \in BOOLEAN, Stop(error)  PROVE GatherInv'
  <2> DEFINE k == Len(blocks)
             b == [blocks[k] EXCEPT !.ending = TRUE]
             e == [b EXCEPT !.error = error]
  <2>1. k \in 1..Len(blocks) /\ DOMAIN blocks = 1..Len(blocks)
    BY <1>0, <1>5, BlockPopped, StackLength DEF Stop
  <2>2. blocks' = [blocks EXCEPT ![k] = e] /\ said' = said /\ shown' = None  BY <1>5, <2>1 DEF Stop
  <2>3. DOMAIN e = DOMAIN blocks[k] /\ e.kind = blocks[k].kind /\ e.config = blocks[k].config
        /\ e.infos = blocks[k].infos
    BY <1>0, <2>1 DEF Stack, Fields
  <2> HIDE DEF e
  <2>4. Alike(blocks, blocks')
    <3> HIDE DEF k, Stack, Alike
    <3> QED  BY <1>0, <2>2, <2>3, BlockChanged
  <2>5. \A i \in 1..Len(blocks) : blocks'[i].infos = blocks[i].infos
    <3>1. \A i \in 1..Len(blocks) : blocks'[i] = IF i = k THEN e ELSE blocks[i]
      <4> HIDE DEF k, IsSequence
      <4> QED  BY <1>0, <2>2, Updated DEF Stack
    <3> QED  BY <2>3, <3>1
  <2>6. Gathered(blocks', said)  BY <1>0, <2>4, <2>5, GatheredAlike
  <2> QED  BY <1>0, <2>2, <2>6 DEF AllIsShown
<1>6. ASSUME NEW messages, IsSequence(messages), LogInfo(messages)  PROVE GatherInv'
  <2>1. CASE Operations # {}
    <3>1. blocks' = WithInfos(blocks, messages) /\ said' = said \o messages /\ shown' = None
      BY <1>6, <2>1 DEF LogInfo
    <3>2. ~NoneRuns(blocks)  BY <1>0, <2>1, RunsIffOperations
    <3>3. Gathered(blocks', said')  BY <1>0, <1>6, <3>1, <3>2, GatheredReport
    <3> QED  BY <1>0, <3>1, <3>3 DEF AllIsShown
  <2>2. CASE Operations = {}  BY <1>0, <1>6, <2>2 DEF LogInfo, AllIsShown
  <2> QED  BY <2>1, <2>2
<1>7. CASE Check \/ Draw \/ UNCHANGED logVars
  BY <1>0, <1>7 DEF Check, Draw, logVars, AllIsShown
<1> QED  BY <1>1, <1>2, <1>3, <1>4, <1>5, <1>6, <1>7 DEF LogStep

LEMMA GatherImplies == GatherInv => CollectInv
<1>1. SUFFICES ASSUME GatherInv  PROVE CollectInv  OBVIOUS
<1>2. Stack(blocks) /\ Gathered(blocks, said) /\ AllIsShown  BY <1>1 DEF GatherInv, LogInv
<1>3. CASE Operations = {}  BY <1>2, <1>3, RunsIffOperations DEF Gathered, CollectInv
<1>4. CASE Operations # {}
  <2>1. PICK i \in 1..Len(blocks) : IsRoot(blocks, i)  BY <1>2, <1>4, RunsIffOperations, RootExists
  <2>2. Len(blocks) \in Nat /\ DOMAIN blocks = 1..Len(blocks)  BY <1>2, StackLength
  <2>3. i \in Operations /\ \A j \in Operations : j \in 1..Len(blocks) /\ i <= j
    BY <2>1, <2>2 DEF Operations, IsRoot
  <2>4. Root \in Operations /\ \A j \in Operations : Root <= j  BY <2>3 DEF Root
  <2>5. Root = i  BY <2>2, <2>3, <2>4
  <2> QED  BY <1>2, <1>4, <2>1, <2>5 DEF Gathered, CollectInv
<1> QED  BY <1>3, <1>4

\* An operation that completes shows all that was reported while it ran and output was
\* enabled, at any depth, each message once and in order (logging.py: add_info, stop).
THEOREM CompletionIsWhole == Spec => []AllIsShown
<1>1. ASSUME Init  PROVE GatherInv
  <2>1. blocks = <<>> /\ thread = "off" /\ said = <<>> /\ shown = None  BY <1>1 DEF Init, InitLog
  <2>2. IsSequence(<<>>) /\ Len(<<>>) = 0  BY EmptySeq DEF IsSequence
  <2>3. Stack(blocks)  BY <2>1, <2>2 DEF Stack
  <2>4. Gathered(blocks, said)  BY <2>1, <2>2 DEF Gathered
  <2> QED  BY <2>1, <2>3, <2>4 DEF GatherInv, LogInv, AllIsShown
<1>2. GatherInv /\ [Next]_vars => GatherInv'  BY NextIsLogStep, GatherStep
<1>3. GatherInv => AllIsShown  BY DEF GatherInv
<1> QED  BY <1>1, <1>2, <1>3, PTL DEF Spec

-----------------------------------------------------------------------------
(* Loading *)

Kinds == {"idle", "request", "answered", "save", "replace", "stat", "return"}
TokenNames == {NameOf[t] : t \in Token} \cup {None}
FoundFile == [token : Token, time : Nat]
Jobs == [kind : Kinds, token : Token \cup {None}, save : BOOLEAN, own : BOOLEAN,
         name : TokenNames, todo : SUBSET Token, newest : FoundFile \cup {None}]

StoreTypes ==
    /\ held \subseteq Token
    /\ files \in [Token -> Nat \cup {None}]
    /\ job \in Jobs /\ (job.kind \in {"request", "answered", "save", "replace"} => job.token \in Token)
    /\ steady \subseteq Token /\ \A t \in steady : files[t] # None

\* Of the candidates looked at, none that was there all the time is newer than
\* the newest one found, whose time is still its file's unless that was touched.
LoadInv ==
    job.kind = "stat" =>
        LET f == job.newest IN
        /\ f = None => steady \subseteq job.todo
        /\ f # None =>
              /\ job.name # None => NameOf[f.token] = job.name
              /\ f.token \in steady => files[f.token] = f.time
              /\ \A t \in steady \ job.todo :
                    files[t] < f.time \/ (files[t] = f.time /\ t <= f.token)
        /\ job.name # None => \A t \in job.todo : NameOf[t] = job.name

StoreInv == StoreTypes /\ LoadInv /\ LoadsNewest

LEMMA IdleJob == Idle \in Jobs /\ Idle.kind = "idle"
  BY DEF Idle, Jobs, Kinds, TokenNames

LEMMA StoreInit == Init => StoreInv
  BY TokenAssumption, IdleJob DEF Init, StoreInv, StoreTypes, LoadInv, LoadsNewest

\* A file put in its place, or removed, while a load is going on.
LEMMA FileTouched ==
  ASSUME StoreInv, NEW t \in Token, NEW time \in Nat \cup {None},
         files' = [files EXCEPT ![t] = time], steady' = steady \ {t},
         held' = held, answer' = answer, job' \in {job, Idle}
  PROVE  StoreInv'
<1>1. \A u \in steady' : u \in steady /\ u \in Token /\ files'[u] = files[u]
  BY DEF StoreInv, StoreTypes
<1>2. files' \in [Token -> Nat \cup {None}]  BY DEF StoreInv, StoreTypes
<1>3. StoreTypes'  BY <1>1, <1>2, IdleJob DEF StoreInv, StoreTypes
<1>4. LoadInv'
  <2>1. CASE job' = job  BY <1>1, <2>1 DEF StoreInv, LoadInv
  <2>2. CASE job' = Idle  BY <2>2, IdleJob DEF LoadInv
  <2> QED  BY <2>1, <2>2
<1>5. LoadsNewest'  BY DEF StoreInv, LoadsNewest
<1> QED  BY <1>3, <1>4, <1>5 DEF StoreInv

\* Steps that leave the files and the answer alone and make no load.
LEMMA NoLoad ==
  ASSUME StoreInv, files' = files, steady' = steady, answer' = answer, held' \subseteq Token,
         job' \in Jobs, job'.kind # "stat",
         job'.kind \in {"request", "answered", "save", "replace"} => job'.token \in Token
  PROVE  StoreInv'
<1>1. StoreTypes'  BY DEF StoreInv, StoreTypes
<1>2. LoadInv'  BY DEF LoadInv
<1>3. LoadsNewest'  BY DEF StoreInv, LoadsNewest
<1> QED  BY <1>1, <1>2, <1>3 DEF StoreInv

LEMMA StoreStep == ASSUME StoreInv, [Next]_vars PROVE StoreInv'
<1>0. job \in Jobs /\ held \subseteq Token /\ (job.kind \in {"request", "answered", "save", "replace"} => job.token \in Token)
  BY DEF StoreInv, StoreTypes
<1>1. CASE UNCHANGED <<held, files, job, steady, answer>>
  BY <1>1 DEF StoreInv, StoreTypes, LoadInv, LoadsNewest
<1>2. CASE Create
  <2>1. PICK t \in Token \ held, save \in BOOLEAN, own \in BOOLEAN :
          job' = [Idle EXCEPT !.kind = "request", !.token = t, !.save = save, !.own = own]
    BY <1>2 DEF Create
  <2>2. job' \in Jobs /\ job'.kind = "request" /\ job'.token \in Token
    BY <2>1 DEF Jobs, Idle, Kinds, TokenNames
  <2> QED  BY <1>0, <1>2, <2>2, NoLoad DEF Create, StoreVars
<1>3. CASE Answered
  <2>1. PICK failed \in BOOLEAN :
          /\ held' = IF failed THEN held ELSE held \cup {job.token}
          /\ job' = [job EXCEPT !.kind = "answered", !.save = @ /\ ~failed]
    BY <1>3 DEF Answered
  <2>2. job.kind = "request" /\ job.token \in Token  BY <1>0, <1>3 DEF Answered
  <2>3. job.save \in BOOLEAN  BY <1>0 DEF Jobs
  <2>4. (job.save /\ ~failed) \in BOOLEAN  OBVIOUS
  <2>5. job' \in Jobs /\ job'.kind = "answered" /\ job'.token = job.token
    BY <1>0, <2>1, <2>4 DEF Jobs, Kinds
  <2>6. held' \subseteq Token  BY <1>0, <2>1, <2>2
  <2> QED  BY <1>3, <2>2, <2>5, <2>6, NoLoad DEF Answered
<1>4. CASE Created
  <2>1. job' \in Jobs /\ job'.kind \in {"save", "idle"} /\ (job'.kind = "save" => job'.token \in Token)
    BY <1>0, <1>4, IdleJob DEF Created, Jobs, Kinds
  <2> QED  BY <1>0, <1>4, <2>1, NoLoad DEF Created, StoreVars
<1>5. CASE Save
  <2>1. PICK t \in held : job' = [Idle EXCEPT !.kind = "save", !.token = t]  BY <1>5 DEF Save
  <2>2. job' \in Jobs /\ job'.kind = "save" /\ job'.token \in Token
    BY <1>0, <2>1 DEF Jobs, Idle, Kinds, TokenNames
  <2> QED  BY <1>0, <1>5, <2>2, NoLoad DEF Save, StoreVars
<1>6. CASE SaveWrite
  <2>1. job' \in Jobs /\ job'.kind = "replace" /\ job'.token \in Token
    BY <1>0, <1>6 DEF SaveWrite, Jobs, Kinds
  <2> QED  BY <1>0, <1>6, <2>1, NoLoad DEF SaveWrite, StoreVars
<1>7. CASE SaveReplace
  <2>1. job' = Idle /\ job.token \in Token /\ held' = held /\ answer' = answer
    BY <1>0, <1>7 DEF SaveReplace
  <2>2. CASE files' = files /\ steady' = steady  BY <1>0, <2>1, <2>2, IdleJob, NoLoad
  <2>3. CASE Put(job.token)
    <3>1. PICK time \in 0..MaxTime : files' = [files EXCEPT ![job.token] = time]  BY <2>3 DEF Put
    <3>2. time \in Nat \cup {None}  BY TokenAssumption
    <3>3. steady' = steady \ {job.token}  BY <2>3 DEF Put
    <3> QED  BY <2>1, <3>1, <3>2, <3>3, FileTouched
  <2> QED  BY <1>7, <2>2, <2>3 DEF SaveReplace
<1>8. CASE OtherReplace
  <2>1. PICK t \in held : Put(t)  BY <1>8 DEF OtherReplace
  <2>2. PICK time \in 0..MaxTime : files' = [files EXCEPT ![t] = time]  BY <2>1 DEF Put
  <2>3. t \in Token /\ time \in Nat \cup {None}  BY <1>0, TokenAssumption
  <2>4. steady' = steady \ {t}  BY <2>1 DEF Put
  <2> QED  BY <1>8, <2>2, <2>3, <2>4, FileTouched DEF OtherReplace
<1>9. CASE Cleanup
  BY <1>9, FileTouched DEF Cleanup
<1>10. CASE Load
  <2>1. PICK name \in TokenNames :
          /\ job' = [Idle EXCEPT !.kind = "stat", !.name = name, !.todo = Named(name)]
          /\ steady' = Saved(name)
    BY <1>10 DEF Load, TokenNames
  <2>2. held' = held /\ files' = files /\ answer' = answer  BY <1>10 DEF Load
  <2>3. Named(name) \subseteq Token /\ Saved(name) \subseteq Named(name)
        /\ \A t \in Saved(name) : files[t] # None
    BY DEF Named, Saved
  <2>4. /\ job' \in Jobs /\ job'.kind = "stat" /\ job'.newest = None
        /\ job'.todo = Named(name) /\ job'.name = name
    BY <2>1, <2>3 DEF Jobs, Idle, Kinds, TokenNames
  <2>5. StoreTypes'  BY <2>1, <2>2, <2>3, <2>4 DEF StoreInv, StoreTypes
  <2>6. LoadInv'  BY <2>1, <2>3, <2>4 DEF LoadInv, Named
  <2>7. LoadsNewest'  BY <2>2 DEF StoreInv, LoadsNewest
  <2> QED  BY <2>5, <2>6, <2>7 DEF StoreInv
<1>11. CASE Stat
  <2>1. PICK t \in job.todo, missed \in BOOLEAN :
          /\ job.kind = "stat" /\ (missed => t \notin steady)
          /\ job' = [job EXCEPT !.todo = @ \ {t},
                !.newest = IF ~missed /\ files[t] # None /\ (@ = None \/ Later(Found(t), @))
                           THEN Found(t) ELSE @]
    BY <1>11 DEF Stat
  <2>2. held' = held /\ files' = files /\ steady' = steady /\ answer' = answer
    BY <1>11 DEF Stat, StoreVars
  <2>3. t \in Token /\ files[t] \in Nat \cup {None}  BY <1>0 DEF StoreInv, StoreTypes, Jobs
  <2> DEFINE f == job.newest
             g == job'.newest
             new == Found(t)
  <2>4. files[t] # None =>
          new \in FoundFile /\ new # None /\ new.token = t /\ new.time = files[t]
    BY <2>3, TokenAssumption DEF Found, FoundFile
  <2>5. f \in FoundFile \cup {None} /\ job.todo \in SUBSET Token  BY <1>0 DEF Jobs
  <2>6. /\ job'.name = job.name /\ job'.todo = job.todo \ {t} /\ job'.kind = "stat"
        /\ g = IF ~missed /\ files[t] # None /\ (f = None \/ Later(new, f)) THEN new ELSE f
    BY <1>0, <2>1 DEF Jobs
  <2>7. g \in FoundFile \cup {None}  BY <2>4, <2>5, <2>6
  <2>8. job' \in Jobs
    <3>1. job' = [job EXCEPT !.todo = job.todo \ {t}, !.newest = g]
      BY <1>0, <2>1, <2>6 DEF Jobs
    <3> QED  BY <1>0, <2>5, <2>7, <3>1 DEF Jobs
  <2>9. StoreTypes'  BY <2>2, <2>6, <2>8 DEF StoreInv, StoreTypes
  <2>10. LoadInv'
    <3> HIDE DEF f, g, new
    <3>1. /\ f = None => steady \subseteq job.todo
          /\ f # None =>
                /\ job.name # None => NameOf[f.token] = job.name
                /\ f.token \in steady => files[f.token] = f.time
                /\ \A u \in steady \ job.todo : files[u] < f.time \/ (files[u] = f.time /\ u <= f.token)
          /\ job.name # None => NameOf[t] = job.name
          /\ job.name # None => \A u \in job.todo : NameOf[u] = job.name
      BY <2>1 DEF StoreInv, LoadInv, f
    <3>2. \A u \in steady : u \in Nat /\ files[u] \in Nat /\ u \in Token
      BY TokenAssumption DEF StoreInv, StoreTypes
    <3>3. g = None => f = None /\ t \notin steady
      BY <2>1, <2>4, <2>6, <3>2, TokenAssumption
    <3>4. CASE g = None
      <4>1. steady \subseteq job'.todo  BY <2>6, <3>1, <3>3, <3>4
      <4> QED  BY <2>2, <2>6, <3>1, <3>4, <4>1 DEF LoadInv, g
    <3>5. CASE g # None /\ g = new /\ files[t] # None /\ (f = None \/ Later(new, f))
      <4>1. /\ job.name # None => NameOf[g.token] = job.name
            /\ g.token \in steady => files[g.token] = g.time
        BY <2>4, <3>1, <3>5
      <4>2. ASSUME NEW u \in steady \ job'.todo
            PROVE  files[u] < g.time \/ (files[u] = g.time /\ u <= g.token)
        <5>1. CASE u = t  BY <2>4, <3>2, <3>5, <5>1
        <5>2. CASE u # t
          <6>1. u \in steady \ job.todo  BY <2>6, <5>2
          <6>2. f # None /\ f.time \in Nat /\ f.token \in Nat
            BY <2>5, <3>1, <6>1, TokenAssumption DEF FoundFile
          <6>3. files[u] < f.time \/ (files[u] = f.time /\ u <= f.token)  BY <3>1, <6>1, <6>2
          <6>4. new.time \in Nat /\ new.token \in Nat  BY <2>3, <2>4, <3>5, TokenAssumption DEF FoundFile
          <6>5. new.time > f.time \/ (new.time = f.time /\ new.token > f.token)
            BY <3>5, <6>2 DEF Later
          <6> QED  BY <3>2, <3>5, <6>2, <6>3, <6>4, <6>5
        <5> QED  BY <5>1, <5>2
      <4> QED  BY <2>2, <2>6, <3>1, <3>5, <4>1, <4>2 DEF LoadInv, g
    <3>6. CASE g # None /\ g = f /\ (missed \/ files[t] = None \/ ~Later(new, f))
      <4>1. ASSUME NEW u \in steady \ job'.todo
            PROVE  files[u] < g.time \/ (files[u] = g.time /\ u <= g.token)
        <5>1. CASE u = t
          <6>1. ~Later(new, f) /\ files[t] # None  BY <2>1, <3>2, <3>6, <5>1, TokenAssumption
          <6>2. f.time \in Nat /\ f.token \in Nat  BY <2>5, <3>6, TokenAssumption DEF FoundFile
          <6>3. ~(files[t] > f.time \/ (files[t] = f.time /\ t > f.token))
            BY <2>4, <6>1 DEF Later
          <6> QED  BY <3>2, <3>6, <5>1, <6>2, <6>3
        <5>2. CASE u # t  BY <2>6, <3>1, <3>6, <5>2
        <5> QED  BY <5>1, <5>2
      <4> QED  BY <2>2, <2>6, <3>1, <3>6, <4>1 DEF LoadInv, g
    <3> QED  BY <2>6, <3>4, <3>5, <3>6
  <2>11. LoadsNewest'  BY <2>2 DEF StoreInv, LoadsNewest
  <2> QED  BY <2>9, <2>10, <2>11 DEF StoreInv
<1>12. CASE Read
  <2>1. /\ job.kind = "stat" /\ job.todo = {} /\ job' = [Idle EXCEPT !.kind = "return"]
        /\ held' = held /\ files' = files /\ steady' = steady
    BY <1>12 DEF Read
  <2>2. job' \in Jobs /\ job'.kind = "return"  BY <2>1, IdleJob DEF Jobs, Idle, Kinds, TokenNames
  <2>3. StoreTypes' /\ LoadInv'  BY <2>1, <2>2 DEF StoreInv, StoreTypes, LoadInv
  <2> DEFINE f == job.newest
  <2>4. PICK kind : /\ answer' = Answer(kind)
                    /\ kind = IF f = None THEN "none" ELSE IF files[f.token] = None THEN "invalid" ELSE "token"
    BY <1>12 DEF Read
  <2>5. /\ answer'.kind = kind /\ answer'.name = job.name /\ answer'.found = f
        /\ DOMAIN answer'.steady = steady /\ \A t \in steady : answer'.steady[t] = files[t]
    BY <2>4 DEF Answer
  <2>6. /\ f = None => steady = {}
        /\ f # None =>
              /\ job.name # None => NameOf[f.token] = job.name
              /\ \A t \in steady : files[t] < f.time \/ (files[t] = f.time /\ t <= f.token)
        /\ \A t \in steady : files[t] # None
    BY <2>1 DEF StoreInv, StoreTypes, LoadInv
  <2> HIDE DEF f
  <2>7. LoadsNewest'  BY <2>4, <2>5, <2>6 DEF LoadsNewest
  <2> QED  BY <2>3, <2>7 DEF StoreInv
<1>13. CASE Return
  <2>1. job' = Idle /\ held' = held /\ files' = files /\ steady' = {} /\ answer' = None
    BY <1>13 DEF Return
  <2>2. StoreTypes' /\ LoadInv'  BY <2>1, IdleJob DEF StoreInv, StoreTypes, LoadInv
  <2>3. LoadsNewest'  BY <2>1 DEF LoadsNewest
  <2> QED  BY <2>2, <2>3 DEF StoreInv
<1> QED  BY <1>1, <1>2, <1>3, <1>4, <1>5, <1>6, <1>7, <1>8, <1>9, <1>10, <1>11, <1>12, <1>13
     DEF Next, Blocks, StoreVars, vars

\* A load returns a newest token of its name, whatever other processes save and
\* remove meanwhile (token_store.py: load_query_token, _newest).
THEOREM NewestIsLoaded == Spec => []LoadsNewest
<1>1. Init => StoreInv  BY StoreInit
<1>2. StoreInv /\ [Next]_vars => StoreInv'  BY StoreStep
<1>3. StoreInv => LoadsNewest  BY DEF StoreInv
<1> QED  BY <1>1, <1>2, <1>3, PTL DEF Spec

=============================================================================
