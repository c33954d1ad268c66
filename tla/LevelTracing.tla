---------------------------- MODULE LevelTracing ----------------------------
(* The levels of the traced values (build params/level_and_scale_tracing.py,  *)
(* base_classes/hom_op_tracer.py): which rows and columns of the modulus      *)
(* chain each value still has, what an operation drops and the factor its     *)
(* scale is divided by, the state a custom input gets, and the order in which *)
(* the pipeline consumes the rows.                                            *)
(*                                                                            *)
(* The chain is the pipeline's rows, then (with a bootstrap) the rows of StC  *)
(* and the base row; those of CtS and EvalMod and the special primes are      *)
(* never active.  A prime is a pair <<row, column>>.  An operation that drops *)
(* several levels does so one by one, like as many operations in a row.       *)
EXTENDS Naturals, FiniteSets, Sequences, SequencesExt

CONSTANTS
    P, S,           \* rows of the pipeline and of StC
    Width,          \* columns of each row
    Custom,         \* the custom inputs
    Budget,         \* the rows_budgets of the operations; Row is no budget
    None,
    MaxOps          \* bound: operations in a pipeline

Pipeline == 0..(P - 1)
StC == P..(P + S - 1)
Base == P + S
Row == 0..(P + S)

\* active_rows in the order they are kept in, and the active columns of each row.
Level == {v \in [rows : Seq(Row), cols : [Row -> SUBSET Nat]] :
             \A r \in Row : v.cols[r] \subseteq 1..Width[r]}

ASSUME LevelAssumption ==
    /\ P \in Nat \ {0} /\ S \in Nat /\ MaxOps \in Nat
    /\ Width \in [Row -> Nat \ {0}] /\ Budget \subseteq SUBSET Row
    /\ None \notin Custom \cup Level \cup Nat

VARIABLES
    slim,       \* HomParams.slim_boot
    numInit,    \* HomParams.num_init_rows
    kind,       \* the chain: none, plain, boot or ring; done after serialize
    values,     \* levels of the values traced so far
    known,      \* Tracer.custom_input_values
    uses,       \* <<c, v>>: an operation got c, under its reference, at level v
    dropOrder,  \* ModulusChain.drop_order
    last,       \* the last operation: levels of its inputs and output, its drop
    order,      \* HomParams.consumption_order
    ops

vars == <<slim, numInit, kind, values, known, uses, dropOrder, last, order, ops>>

-----------------------------------------------------------------------------
(* Levels *)

Rows(v) == {v.rows[i] : i \in DOMAIN v.rows}
Active(v) == UNION {{r} \X v.cols[r] : r \in Rows(v)}

FullLevel(rows) ==
    [rows |-> rows,
     cols |-> [r \in Row |-> IF \E i \in DOMAIN rows : rows[i] = r THEN 1..Width[r] ELSE {}]]

Consecutive(first, n) == [i \in 1..n |-> first + i - 1]

\* A fresh ciphertext: with a bootstrap, the last of the pipeline's rows and the base.
InitRows(k, n) ==
    IF k = "plain" THEN Consecutive(0, P)
    ELSE LET m == IF n = None THEN P ELSE n IN
         Consecutive(P - m, m) \o <<Base>> \o (IF slim THEN Consecutive(P, S) ELSE <<>>)

InitLevel == FullLevel(InitRows(kind, numInit))

\* (Slip: the base first, in the order the primes are drawn in.)
RefreshedBaseFirst ==
    FullLevel(<<Base>> \o Consecutive(0, P) \o (IF slim THEN Consecutive(P, S) ELSE <<>>))

Refreshed ==
    FullLevel(Consecutive(0, P) \o (IF slim THEN Consecutive(P, S) ELSE <<>>) \o <<Base>>)

-----------------------------------------------------------------------------
(* Drops *)

\* (Slip: the position taken for the row of the chain.)
FactorRowAbsolute(v, i) == i - 1

\* factors_of_active_rows[i]: the i-th active row in the order of the chain,
\* whatever the order of v.rows.
FactorRow(v, i) ==
    CHOOSE r \in Rows(v) : Cardinality({q \in Rows(v) : q < r}) = i - 1

Lowest(cols, n) == {c \in cols : Cardinality({d \in cols : d < c}) < n}

\* The columns that go when n are asked of the i-th row: all of them, and the row
\* with them, or the n lowest.
Dropped(v, i, n) ==
    LET active == v.cols[v.rows[i]] IN
    IF Cardinality(active) = n THEN active ELSE Lowest(active, n)

WholeRow(v, i, n) == Cardinality(v.cols[v.rows[i]]) = n

\* A column of the factors that is not there raises, unless the whole row goes.
MayDrop(v, i, n) == WholeRow(v, i, n) \/ Dropped(v, i, n) \subseteq 1..Width[FactorRow(v, i)]

AfterDrop(v, i, n) ==
    [rows |-> IF WholeRow(v, i, n) THEN RemoveAt(v.rows, i) ELSE v.rows,
     cols |-> [v.cols EXCEPT ![v.rows[i]] = @ \ Dropped(v, i, n)]]

DropRecord(v, i, n, budget) ==
    [row |-> v.rows[i], budget |-> budget,
     by |-> {<<FactorRow(v, i), c>> : c \in Dropped(v, i, n) \cap 1..Width[FactorRow(v, i)]},
     removed |-> {<<v.rows[i], c>> : c \in Dropped(v, i, n)}]

\* The first active row of the budget.
FirstInBudget(v, budget, i) ==
    /\ i \in DOMAIN v.rows /\ v.rows[i] \in budget
    /\ \A j \in 1..(i - 1) : v.rows[j] \notin budget

-----------------------------------------------------------------------------
(* Operands *)

\* A nested operator's body has a custom input under the body's name for it, with the
\* reference; returned unchanged, it leaves the body at the level it came with and
\* without the reference: from then on it is a value like any other.
HandedOn == [custom |-> None, level |-> InitLevel]

Operand ==
    {[custom |-> None, level |-> v] : v \in values}
        \cup {[custom |-> c, level |-> InitLevel] : c \in Custom}
        \cup {HandedOn}

\* (Slip: a custom input's first use is not looked up.)
ResolvedAfresh(k, x, other) == IF x.custom = None THEN x.level ELSE other

\* The level an operand has in the operation: under a custom input's reference that
\* of its first use, which takes the other operand's.
Resolved(k, x, other) ==
    IF x.custom = None THEN x.level
    ELSE IF k[x.custom] # None THEN k[x.custom] ELSE other

Learn(k, x, v) == IF x.custom = None THEN k ELSE [k EXCEPT ![x.custom] = v]

Used(x, v) == IF x.custom = None THEN {} ELSE {<<x.custom, v>>}

Fits(v, w) == Rows(v) \subseteq Rows(w) /\ \A r \in Rows(v) : v.cols[r] \subseteq w.cols[r]

\* (Slip: the first operand's level, as for equal ones.)
AdjustedFirst(v, w) == v

Adjusted(v, w) == IF Fits(v, w) THEN v ELSE w

NoDrop == [row |-> None, budget |-> {}, by |-> {}, removed |-> {}]

Record(op, ins, out, drop) ==
    /\ values' = values \cup {out} /\ ops' = ops + 1
    /\ last' = [op |-> op, ins |-> ins, out |-> out, drop |-> drop]
    /\ dropOrder' = IF drop = NoDrop THEN dropOrder ELSE Append(dropOrder, drop.row)
    /\ UNCHANGED <<slim, numInit, kind, order>>

\* The operation with its optional rescale: none, or one prime of the budget.
Rescale(op, ins, v, rescales, budget) ==
    \/ ~rescales /\ Record(op, ins, v, NoDrop)
    \/ /\ rescales
       /\ \E i \in DOMAIN v.rows :
              /\ FirstInBudget(v, budget, i) /\ MayDrop(v, i, 1)
              /\ Record(op, ins, AfterDrop(v, i, 1), DropRecord(v, i, 1, budget))

-----------------------------------------------------------------------------
Nothing == [op |-> "none", ins |-> <<>>, out |-> None, drop |-> NoDrop]

Init ==
    /\ slim \in BOOLEAN /\ numInit \in {None} \cup 0..P
    /\ kind = "none" /\ values = {} /\ known = [c \in Custom |-> None] /\ uses = {}
    /\ dropOrder = <<>> /\ last = Nothing /\ order = None /\ ops = 0

\* serialize builds the chain the pipeline's operations call for, and a tracer.
Serialize(k) ==
    /\ kind \in {"none", "done"} /\ kind' = k
    /\ numInit' = IF k = "ring" THEN 0 ELSE numInit
    /\ values' = {FullLevel(InitRows(k, numInit'))}
    /\ known' = [c \in Custom |-> None] /\ uses' = {} /\ dropOrder' = <<>>
    /\ last' = Nothing /\ ops' = 0
    /\ UNCHANGED <<slim, order>>

Tracing == kind \in {"plain", "boot", "ring"} /\ ops < MaxOps

Unary(x, v) ==
    /\ v = Resolved(known, x, x.level)
    /\ known' = Learn(known, x, v) /\ uses' = uses \cup Used(x, v)

\* The second operand's level is the resolved one of the first; the first sees
\* the second as it was passed.
Binary(x, y, v, w) ==
    LET seen == Learn(known, x, v) IN
    /\ v = Resolved(known, x, y.level) /\ w = Resolved(seen, y, v)
    /\ known' = Learn(seen, y, w) /\ uses' = uses \cup Used(x, v) \cup Used(y, w)

Levels == values \cup {InitLevel} \cup ({known[c] : c \in Custom} \ {None})

HomConstMul(x, rescales, budget) ==
    /\ Tracing
    /\ \E v \in Levels : Unary(x, v) /\ Rescale("const_mul", <<v>>, v, rescales, budget)

HomMul(x, y, rescales, budget) ==
    /\ Tracing
    /\ \E v, w \in Levels :
           /\ Binary(x, y, v, w) /\ (Fits(v, w) \/ Fits(w, v))
           /\ Rescale("mul", <<v, w>>, Adjusted(v, w), rescales, budget)

HomAdd(x, y) ==
    /\ Tracing
    /\ \E v, w \in Levels :
           /\ Binary(x, y, v, w) /\ (Fits(v, w) \/ Fits(w, v))
           /\ Record("add", <<v, w>>, Adjusted(v, w), NoDrop)

\* As many columns as cols_to_drop has, or the whole row, be it without columns.
Counts(v, i) == 1..Width[v.rows[i]] \cup {Cardinality(v.cols[v.rows[i]])}

\* n columns of a row, the lowest whichever cols_to_drop names, or all of it.
HomModSwitch(x) ==
    /\ Tracing
    /\ \E v \in Levels :
           /\ Unary(x, v)
           /\ \E i \in DOMAIN v.rows : \E n \in Counts(v, i) :
                  /\ MayDrop(v, i, n)
                  /\ Record("mod_switch", <<v>>, AfterDrop(v, i, n), DropRecord(v, i, n, Row))

\* Bootstrap, and RingSwitch, which bootstraps as well.
Refresh(x) ==
    /\ Tracing /\ kind # "plain"
    /\ \E v \in Levels : Unary(x, v) /\ Record("refresh", <<v>>, Refreshed, NoDrop)

\* A row of the pipeline that is not listed yet.
Listed(list, r) ==
    IF r \in Pipeline /\ r \notin ToSet(list) THEN Append(list, r) ELSE list

\* (Slip: ordered by the first drop.)
TracedOrderByFirst ==
    LET dropped == FoldLeft(Listed, <<>>, dropOrder)
    IN  FoldLeft(Listed, dropped, Consecutive(0, P))

\* The pipeline's rows by their last drop, then those never dropped.
TracedOrder ==
    LET dropped == Reverse(FoldLeft(Listed, <<>>, Reverse(dropOrder)))
    IN  FoldLeft(Listed, dropped, Consecutive(0, P))

Finish ==
    /\ kind \in {"plain", "boot", "ring"} /\ kind' = "done"
    /\ order' = TracedOrder
    /\ UNCHANGED <<slim, numInit, values, known, uses, dropOrder, last, ops>>

\* Any operation may raise; the parameters keep what serialize wrote to them.
Abort ==
    /\ kind \in {"plain", "boot", "ring"} /\ kind' = "none"
    /\ UNCHANGED <<slim, numInit, values, known, uses, dropOrder, last, order, ops>>

Next ==
    \/ \E k \in {"plain", "boot", "ring"} : Serialize(k)
    \/ \E x \in Operand, rescales \in BOOLEAN, budget \in Budget :
           HomConstMul(x, rescales, budget) \/ \E y \in Operand : HomMul(x, y, rescales, budget)
    \/ \E x, y \in Operand : HomAdd(x, y)
    \/ \E x \in Operand : HomModSwitch(x) \/ Refresh(x)
    \/ Finish \/ Abort

Spec == Init /\ [][Next]_vars

-----------------------------------------------------------------------------
(* Properties *)

\* Every variable has its type; order is the subject of OrderIsConsumption.
TypeOK ==
    /\ slim \in BOOLEAN /\ numInit \in {None} \cup 0..P
    /\ kind \in {"none", "plain", "boot", "ring", "done"}
    /\ values \subseteq Level /\ known \in [Custom -> Level \cup {None}]
    /\ uses \subseteq Custom \X Level /\ dropOrder \in Seq(Row)
    /\ last.ins \in Seq(Level) /\ last.out \in Level \cup {None}
    /\ last.drop.row \in Row \cup {None} /\ last.drop.removed \subseteq Row \X Nat
    /\ ops \in 0..MaxOps

\* An operation divides the scale by exactly the primes it takes from the value,
\* although the factors are looked up by position in another order than the rows
\* are kept in.  With StC first the rows behind the pipeline's are out of order,
\* so there this is about the pipeline's rows.
DropsAreExact ==
    (~slim \/ last.drop.row \in Pipeline) => last.drop.by = last.drop.removed

\* A rescale touches the rows the bootstrap needs only when its budget has no row
\* of the pipeline left, in a fresh value and after a bootstrap alike.
PipelineFirst ==
    last.op \in {"mul", "const_mul"} /\ last.drop.row \in Row \ Pipeline
        => Rows(last.out) \cap Pipeline \cap last.drop.budget = {}

\* Only a bootstrap gives a value a prime that one of its inputs does not have.
NoPrimeReturns ==
    last.op \in {"mul", "const_mul", "add", "mod_switch"}
        => \A i \in DOMAIN last.ins : Active(last.out) \subseteq Active(last.ins[i])

\* All operations that get a custom input under its reference, inside a nested
\* operator or not, see it at one level, whichever is first and whatever they drop
\* afterwards.  Nothing is claimed of one that a nested operator has handed on: it
\* is the same ciphertext, at a level of its own (HandedOn).
OneStatePerReference ==
    \A u1, u2 \in uses : u1[1] = u2[1] => u1[2] = u2[2]

\* The rows of a value are in the order of the chain, but a fresh ciphertext of a
\* slim bootstrap has the base row before those of StC.
Ordered(v) ==
    \A i, j \in DOMAIN v.rows : i < j =>
        v.rows[i] < v.rows[j] \/ (slim /\ v.rows[i] = Base /\ v.rows[j] \in StC)

\* The inductive invariant: all levels in use are ordered, and a custom input is
\* known at the level its reference was used at.
IInv ==
    /\ TypeOK
    /\ \A v \in values : Ordered(v)
    /\ \A c \in Custom : known[c] # None => Ordered(known[c])
    /\ \A u \in uses : known[u[1]] = u[2]

\* The position of a row's last drop, 0 when it was never dropped.
LastDrop(drops, r) ==
    CHOOSE i \in 0..Len(drops) :
        /\ i = 0 \/ drops[i] = r
        /\ \A j \in 1..Len(drops) : drops[j] = r => j <= i

\* Every row of the pipeline once, ordered by the last drop of each, the rows
\* never dropped behind them in the order of the chain.
ByLastDrop(rows, drops) ==
    /\ Len(rows) = P /\ ToSet(rows) = Pipeline
    /\ \A i, j \in 1..P : i < j =>
           LET a == LastDrop(drops, rows[i])
               b == LastDrop(drops, rows[j])
           IN  \/ 0 < a /\ a < b
               \/ 0 < a /\ b = 0
               \/ a = 0 /\ b = 0 /\ rows[i] < rows[j]

\* What serialize reports is the order in which the rows are used up.
OrderIsConsumption == kind = "done" => ByLastDrop(order, dropOrder)

=============================================================================
