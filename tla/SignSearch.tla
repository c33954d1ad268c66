----------------------------- MODULE SignSearch ------------------------------
(* sign_minimax (build operators/polynomials/remez_utils.py): the search for  *)
(* the composite sign polynomial of the smallest depth that is accurate       *)
(* enough.  Depth by depth it goes through the refinement tails and, before   *)
(* them, the degree lists of the depth that is left; fitted prefixes, failed  *)
(* ones too, and measured accuracies are kept for the lists to come.          *)
(*                                                                            *)
(* What a fit yields and what a composite measures is any of a few outcomes;  *)
(* the fit itself is Remez.  The tolerance accuracy_epsilon is part of the    *)
(* accuracy asked for.                                                        *)
EXTENDS Integers, FiniteSets, Sequences, SequencesExt, Sums

CONSTANTS
    Orders,         \* refinement_orders, ascending
    MaxRefinements,
    MaxTotalDepth,
    Bits,           \* what a composite may measure
    Accuracies,     \* accuracies asked for
    Nothing,        \* a composite that measures as broken; no search
    Unreachable     \* the search gave up

\* POLY_EVAL_DEG by depth.
DegreeOf == [depth \in 3..8 |-> <<7, 15, 31, 63, 127, 255>>[depth - 2]]

\* Refinements of a higher order have no supported degree: _bucket_depth raises.
ASSUME SearchAssumption ==
    /\ Orders \in Seq(0..127) /\ \A i, j \in DOMAIN Orders : i < j => Orders[i] < Orders[j]
    /\ MaxRefinements \in Nat /\ MaxTotalDepth \in Nat
    /\ Bits \subseteq Nat /\ Accuracies \subseteq Nat /\ Nothing \notin Nat
    /\ {Nothing, Unreachable} \cap [combo : Seq(Nat), degrees : Seq(Nat)] = {} /\ Nothing # Unreachable

\* _bucket_depth: the depth of the smallest supported degree that is enough.
BucketDepth(degree) ==
    CHOOSE depth \in 3..8 : degree <= DegreeOf[depth] /\ \A d \in 3..(depth - 1) : degree > DegreeOf[d]

-----------------------------------------------------------------------------
(* The search space *)

Before(x, tails) == [i \in DOMAIN tails |-> <<x>> \o tails[i]]

\* enumerate_degree_lists: partitions of a depth, parts not decreasing.
DegreeLists ==
    LET lists[depth \in 0..MaxTotalDepth] == [least \in 3..8 |->
            IF depth = 0 THEN << <<>> >>
            ELSE LET parts == {part \in least..8 : part <= depth}
                 IN  FlattenSeq([k \in 1..Cardinality(parts) |->
                        LET part == least + k - 1 IN Before(DegreeOf[part], lists[depth - part][part])])]
    IN  [depth \in 0..MaxTotalDepth |-> lists[depth][3]]

\* _refinement_combos: all tails of at most MaxRefinements orders, none before
\* a smaller one; those of a length from the first-th order on, if there is one.
Combos ==
    LET combos[n \in 0..MaxRefinements] == [first \in 1..(Len(Orders) + 1) |->
            IF n = 0 THEN << <<>> >>
            ELSE FlattenSeq([k \in 1..(Len(Orders) - first + 1) |->
                     Before(Orders[first + k - 1], combos[n - 1][first + k - 1])])]
    IN  << <<>> >> \o FlattenSeq([n \in 1..MaxRefinements |-> combos[n][1]])

DepthOf(degrees) == SumOf([i \in DOMAIN degrees |-> BucketDepth(degrees[i])])
RefineDepth(combo) == DepthOf([i \in DOMAIN combo |-> 2 * combo[i] + 1])
RefineFactor(combo) ==
    LET factor[k \in 0..Len(combo)] == IF k = 0 THEN 1 ELSE factor[k - 1] * (combo[k] + 1)
    IN  factor[Len(combo)]

\* (Slip: room for a whole stage has to be left over.)
StageFitsStrictly(left) == left > 3
\* A tail needs room for a stage before it.
StageFits(left) == left >= 3

\* The candidates of a depth, in the order of the two loops.
Candidates(depth, combos) ==
    FlattenSeq([k \in DOMAIN combos |->
        LET left == depth - RefineDepth(combos[k])
            lists == IF StageFits(left) THEN DegreeLists[left] ELSE <<>>
        IN  [i \in DOMAIN lists |-> [combo |-> combos[k], degrees |-> lists[i]]]])

-----------------------------------------------------------------------------

VARIABLES
    accuracy, combos,   \* the accuracy asked for, and the tails it may use
    depth,          \* total_depth
    queue,          \* the candidates of that depth still to be looked at
    cache,          \* stage_cache: whether the stages of a degree list fit
    bits,           \* base_bits_cache
    passing,        \* the candidates of that depth accurate enough
    found           \* the candidate returned, unreachable, or Nothing as yet

searchVars == <<accuracy, combos, depth, queue, cache, bits, passing, found>>

SearchInit ==
    /\ accuracy = Nothing /\ combos = <<>> /\ depth = 0 /\ queue = <<>>
    /\ cache = [t \in {<<>>} |-> TRUE] /\ bits = [t \in {} |-> Nothing]
    /\ passing = <<>> /\ found = Nothing

\* sign_minimax: the caches are those of the call.
CallSign ==
    /\ accuracy = Nothing /\ accuracy' \in Accuracies
    /\ combos' \in {<< <<>> >>, Combos}
    /\ depth' = 2
    /\ UNCHANGED <<queue, cache, bits, passing, found>>

Keep(fn, key, value) == [k \in DOMAIN fn \cup {key} |-> IF k = key THEN value ELSE fn[k]]

Candidate == queue[1]
Searching == found = Nothing /\ queue # <<>>

Missing == {t \in Prefixes(Candidate.degrees) : t \notin DOMAIN cache}

\* records_for: the shortest prefix without a record is fit on the interval its
\* own prefix leaves; it may raise or blow up.  After a prefix that failed it
\* fails without a fit.
FitStage ==
    /\ Searching /\ Candidate.degrees \notin DOMAIN bits /\ Missing # {}
    /\ LET tuple == CHOOSE t \in Missing : \A u \in Missing : Len(t) <= Len(u)
       IN  IF cache[Front(tuple)]
           THEN \E fitted \in BOOLEAN : cache' = Keep(cache, tuple, fitted)
           ELSE cache' = Keep(cache, tuple, FALSE)
    /\ UNCHANGED <<accuracy, combos, depth, queue, bits, passing, found>>

\* base_bits_for, its prefix being there.
Measure ==
    /\ Searching /\ Candidate.degrees \notin DOMAIN bits /\ Missing = {}
    /\ \E b \in IF cache[Candidate.degrees] THEN Bits \cup {Nothing} ELSE {Nothing} :
          bits' = Keep(bits, Candidate.degrees, b)
    /\ UNCHANGED <<accuracy, combos, depth, queue, cache, passing, found>>

Accuracy(c) == bits[c.degrees] * RefineFactor(c.combo)
Passes(c) == bits[c.degrees] # Nothing /\ Accuracy(c) >= accuracy
Polynomials(c) == Len(c.degrees) + Len(c.combo)

Judge ==
    /\ Searching /\ Candidate.degrees \in DOMAIN bits
    /\ passing' = IF Passes(Candidate) THEN Append(passing, Candidate) ELSE passing
    /\ queue' = Tail(queue)
    /\ UNCHANGED <<accuracy, combos, depth, cache, bits, found>>

\* Fewest polynomials, then most bits.
Better(c, d) ==
    Polynomials(c) < Polynomials(d) \/ (Polynomials(c) = Polynomials(d) /\ Accuracy(c) > Accuracy(d))

\* The first of the best, as the sort is stable.
Chosen ==
    passing[CHOOSE i \in DOMAIN passing : \A j \in DOMAIN passing :
                ~Better(passing[j], passing[i]) /\ (j < i => Better(passing[i], passing[j]))]

Choose ==
    /\ found = Nothing /\ queue = <<>> /\ passing # <<>>
    /\ found' = Chosen
    /\ UNCHANGED <<accuracy, combos, depth, queue, cache, bits, passing>>

Deeper ==
    /\ accuracy # Nothing /\ found = Nothing /\ queue = <<>> /\ passing = <<>>
    /\ IF depth < MaxTotalDepth
       THEN depth' = depth + 1 /\ queue' = Candidates(depth + 1, combos) /\ UNCHANGED found
       ELSE found' = Unreachable /\ UNCHANGED <<depth, queue>>
    /\ UNCHANGED <<accuracy, combos, cache, bits, passing>>

\* The application takes what was found, or the exception.
TakeComposite ==
    /\ found # Nothing
    /\ accuracy' = Nothing /\ combos' = <<>> /\ depth' = 0 /\ queue' = <<>>
    /\ cache' = [t \in {<<>>} |-> TRUE] /\ bits' = [t \in {} |-> Nothing]
    /\ passing' = <<>> /\ found' = Nothing

SearchNext == CallSign \/ FitStage \/ Measure \/ Judge \/ Choose \/ Deeper \/ TakeComposite

-----------------------------------------------------------------------------
(* Properties *)

\* The search space as the docstring has it, without the enumeration: lists of
\* supported degrees and tails of orders, neither decreasing.
NonDecreasing(S, n) == {s \in [1..n -> S] : \A i, j \in 1..n : i <= j => s[i] <= s[j]}
Depth(c) == DepthOf(c.degrees) + RefineDepth(c.combo)
Space ==
    LET degrees == {DegreeOf[d] : d \in DOMAIN DegreeOf}
        tails == UNION {NonDecreasing({Orders[i] : i \in DOMAIN Orders}, n) : n \in 0..MaxRefinements}
        lists == UNION {NonDecreasing(degrees, n) : n \in 1..(MaxTotalDepth \div 3)}
    IN  {c \in [combo : tails, degrees : lists] : Depth(c) <= MaxTotalDepth}
Within(d) == {c \in Space : Depth(c) <= d /\ (c.combo = <<>> \/ Len(combos) > 1)}

\* What is returned has the depth it is charged with, no candidate is less deep
\* and accurate enough, none as deep has fewer polynomials, or as many and more
\* accuracy; and nothing is reachable when the search gives up
\* (remez_utils.py: sign_minimax, enumerate_degree_lists, Polynomial.depth).
SmallestDepth ==
    /\ found = Unreachable => \A c \in Within(MaxTotalDepth) : c.degrees \in DOMAIN bits /\ ~Passes(c)
    /\ found \notin {Nothing, Unreachable} =>
        /\ Depth(found) = depth /\ Passes(found)
        /\ \A c \in Within(depth) :
              /\ c.degrees \in DOMAIN bits
              /\ Passes(c) => Depth(c) = depth /\ ~Better(c, found)

=============================================================================
