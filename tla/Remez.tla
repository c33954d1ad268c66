-------------------------------- MODULE Remez --------------------------------
(* One Remez fit (build operators/polynomials/remez_utils.py, class Remez):   *)
(* the exchange of reference points in float64, the polish in mpmath and      *)
(* which polynomial fit() keeps.                                              *)
(*                                                                            *)
(* Numbers are abstracted: a solve yields a level |E| and an error curve,     *)
(* the error sampled on the scan grid of every subdomain in small integers,   *)
(* whose extrema are what the code looks at.  What depends on their order and *)
(* size alone (thresholds, collapse, padding, trimming, best iterate, stall)  *)
(* is the code's; a spread below the tolerance is one of zero, and the        *)
(* Chebyshev spacing of the first nodes is an even one.  Subdomains are apart,*)
(* as those are that the callers ask for.                                     *)
EXTENDS Integers, FiniteSets, Sequences, SequencesExt, Sums

CONSTANTS
    Fits,       \* the instances: records of n reference points, max_iter,
                \* general, precision, target and the number of its subdomains
    Curves,     \* the error curves a solve for a target may have
    Grid,       \* samples of a subdomain
    Scale,      \* distance of two of them
    Noise,      \* of each engine: a smaller error is taken for rounding
    Strays,     \* points out of the subdomains that a polish may come to
    None

Instances ==
    [n : Nat, maxIter : Nat \ {0}, general : BOOLEAN, precision : BOOLEAN,
     subdomains : Nat \ {0}, target : DOMAIN Curves]

\* An extremum of the error: its place, the error, a peak (1) or a valley (-1).
Extreme(p) == p.u \in Nat /\ p.r \in Int /\ p.mu \in {-1, 1}

ASSUME RemezAssumption ==
    /\ Grid \in Nat \ {0, 1} /\ Scale \in Nat \ {0}
    /\ Noise \in [{"float64", "mpmath"} -> Nat] /\ \A p \in Strays : Extreme(p)
    /\ Fits \subseteq Instances /\ \A f \in Fits : f.n > 1
    /\ None \notin Fits \cup Nat

\* Positions are as fine as it takes to halve a gap of the references.
ASSUME FineAssumption == \A f \in Fits : f.n <= Scale

VARIABLES
    fit,        \* the instance being fit
    stage,      \* idle, then solve, trim, exchange in turns, then done
    engine,     \* float64, then mpmath when precision asks for it
    iter,       \* iterations of the engine so far
    nodes,      \* the reference points to solve on
    curve,      \* the error of the last solve
    level,      \* its |E|
    extrema,    \* the extrema the references are selected from
    skeleton,   \* its alternating extrema
    alt,        \* the references being selected among them
    best,       \* the iterate of the smallest peak (general)
    stall,      \* iterations without a smaller spread, and that spread (sign)
    float,      \* what the float64 engine returned
    result,     \* what fit() stored
    least       \* history: the smallest peak of each engine's iterates

fitVars == <<fit, stage, engine, iter, nodes, curve, level, extrema, skeleton, alt, best, stall, float, result, least>>

Magnitude(x) == IF x < 0 THEN -x ELSE x
Tall(p) == Magnitude(p.r)
Positions(points) == [i \in DOMAIN points |-> points[i].u]

\* The points at some places, in their order.
Ascending(places) ==
    [k \in 1..Cardinality(places) |-> CHOOSE x \in places : Cardinality({y \in places : y < x}) = k - 1]
Picked(points, places) == [k \in 1..Cardinality(places) |-> points[Ascending(places)[k]]]

Tallest(points) == CHOOSE h \in {Tall(points[i]) : i \in DOMAIN points} :
                       \A i \in DOMAIN points : Tall(points[i]) <= h
Lowest(points) == CHOOSE h \in {Tall(points[i]) : i \in DOMAIN points} :
                      \A i \in DOMAIN points : Tall(points[i]) >= h

-----------------------------------------------------------------------------
(* The extrema of an error curve *)

\* 1 for a peak, -1 for a valley, 0 for neither; an end is one-sided.
Mu(v, i) ==
    LET beside == {v[j] : j \in {i - 1, i + 1} \cap DOMAIN v}
    IN  IF i \in {1, Len(v)} THEN IF \A x \in beside : v[i] >= x THEN 1 ELSE -1
        ELSE IF (\A x \in beside : v[i] >= x) /\ (\E x \in beside : v[i] > x) THEN 1
        ELSE IF (\A x \in beside : v[i] <= x) /\ (\E x \in beside : v[i] < x) THEN -1
        ELSE 0

Samples(c) ==
    [i \in 1..(Grid * Len(c)) |->
        LET v == c[((i - 1) \div Grid) + 1]
            j == ((i - 1) % Grid) + 1
        IN  [u |-> i * Scale, r |-> v[j], mu |-> Mu(v, j)]]

\* _general_extrema, _error_extrema: in the order of their positions.
Extrema(c) == LET all == Samples(c) IN Picked(all, {i \in DOMAIN all : all[i].mu # 0})

Peak(c) == Tallest(Extrema(c))

\* Extrema below the floor of the arithmetic are left out of a selection, but in
\* the sign path and in a float64 fit of one subdomain there is no floor.
Floor(f, eng) == IF f.general /\ (eng = "mpmath" \/ f.subdomains > 1) THEN Noise[eng] ELSE 0
Loud(c, floor) == LET all == Extrema(c) IN Picked(all, {i \in DOMAIN all : Tall(all[i]) >= floor})

\* The polish of the sign path takes every extremum to a zero of the derivative
\* by Newton's steps: those inside are one; an end of a subdomain comes to one of
\* them or out of the subdomains, or stays, and all keep their turn.
AtEnd(p) == (p.u \div Scale) % Grid \in {0, 1}
Moved(c) ==
    LET all == Extrema(c)
        ends == {i \in DOMAIN all : AtEnd(all[i])}
    IN  {[i \in DOMAIN all |-> IF i \in ends THEN to[i] ELSE all[i]] :
             to \in [ends -> Strays \cup {all[i] : i \in DOMAIN all}]}

\* There is a subdomain, and the error of none is the same all over and below
\* zero: its ends would count as peaks.
ASSUME CurvesAssumption ==
    \A t \in DOMAIN Curves : \A c \in Curves[t] :
        /\ c \in Seq([1..Grid -> Int]) /\ c # <<>>
        /\ \A s \in DOMAIN c : (\A i, j \in 1..Grid : c[s][i] = c[s][j]) => c[s][1] >= 0

ASSUME SubdomainsAssumption == \A f \in Fits : \A c \in Curves[f.target] : Len(c) = f.subdomains

\* The first tallest of each maximal run of points on one side.
Collapsed(points, side) ==
    LET sameRun(i, j) == \A k \in (i..j) \cup (j..i) : side[k] = side[i]
        kept(i) == \A j \in DOMAIN points : sameRun(i, j) /\ j # i =>
                       IF j < i THEN Tall(points[j]) < Tall(points[i])
                       ELSE Tall(points[j]) <= Tall(points[i])
    IN  Picked(points, {i \in DOMAIN points : kept(i)})

\* What the references are trimmed from in the sign path: extrema of no error
\* are skipped, then runs of one sign are collapsed.
Runs(all) ==
    LET points == Picked(all, {i \in DOMAIN all : all[i].r # 0})
    IN  Collapsed(points, [i \in DOMAIN points |-> points[i].r > 0])

\* The thresholds of the local-extreme-value condition, parts of the level.
Fractions == <<<<1, 1>>, <<1, 2>>, <<1, 4>>, <<1, 10>>, <<0, 1>>>>

Alternating(points) == Collapsed(points, [i \in DOMAIN points |-> points[i].mu])

\* The alternating skeleton of the general path: of the first threshold that
\* leaves enough, of all extrema if none does.
Skeleton(all, e, n) ==
    LET above(f) == Alternating(Picked(all, {i \in DOMAIN all : all[i].mu * all[i].r * f[2] >= e * f[1]}))
        enough == {k \in DOMAIN Fractions : Len(above(Fractions[k])) >= n}
    IN  IF enough = {} THEN Alternating(all)
        ELSE above(Fractions[CHOOSE k \in enough : \A j \in enough : k <= j])

\* A skeleton too short is filled up with the tallest extrema left over.
Padded(points, all, n) ==
    LET left == {i \in DOMAIN all : ~Contains(points, all[i])}
        before(i) == {j \in left : Tall(all[j]) > Tall(all[i]) \/ (Tall(all[j]) = Tall(all[i]) /\ j < i)}
        filling == {i \in left : Cardinality(before(i)) < n - Len(points)}
    IN  Picked(all, (DOMAIN all \ left) \cup filling)

Alternation(f, all, e) == IF f.general THEN Skeleton(all, e, f.n) ELSE Runs(all)

-----------------------------------------------------------------------------
(* Trimming the references *)

\* (Slip: errors are compared with their sign.)
ProtectedSigned(points) ==
    points[CHOOSE i \in DOMAIN points : \A j \in DOMAIN points : points[i].r >= points[j].r].u

\* The global peak, by its place.
Protected(points) ==
    points[CHOOSE i \in DOMAIN points : \A j \in DOMAIN points :
               Tall(points[i]) > Tall(points[j]) \/ (Tall(points[i]) = Tall(points[j]) /\ i <= j)].u

\* One point too many, or the sign path: an end goes, the left one on a tie.
WithoutAnEnd(points, protect) ==
    IF points[1].u = protect THEN Front(points)
    ELSE IF Last(points).u = protect THEN Tail(points)
    ELSE IF Tall(points[1]) <= Tall(Last(points)) THEN Tail(points) ELSE Front(points)

\* The ways to remove more: pair k of neighbours k and k + 1, or 0, both ends.
\* Of a pair with an end only the end goes.  (Slip: of every pair one goes.)
GoneSingly(m, k) == IF k = 0 THEN {1, m} ELSE {k}
Gone(m, k) == IF k = 0 THEN {1, m} ELSE IF k = 1 THEN {1} ELSE IF k = m - 1 THEN {m} ELSE {k, k + 1}
PairSum(points, k) ==
    IF k = 0 THEN Tall(points[1]) + Tall(Last(points)) ELSE Tall(points[k]) + Tall(points[k + 1])

\* (Slip: the two ends are no pair.)
PairsInside(m) == 1..(m - 1)
Pairs(m) == 0..(m - 1)

\* The pair of the smallest sum whose removal spares the global peak.
WithoutAPair(points, protect) ==
    LET m == Len(points)
        spared == {k \in Pairs(m) : \A i \in Gone(m, k) : points[i].u # protect}
        pair == CHOOSE k \in spared : \A j \in spared :
                    PairSum(points, k) < PairSum(points, j)
                    \/ (PairSum(points, k) = PairSum(points, j) /\ k <= j)
    IN  Picked(points, 1..m \ Gone(m, pair))

Trimmed(f, points) ==
    LET protect == IF f.general THEN Protected(points) ELSE None
    IN  IF f.general /\ Len(points) > f.n + 1 THEN WithoutAPair(points, protect)
        ELSE WithoutAnEnd(points, protect)

-----------------------------------------------------------------------------
(* The first reference points *)

\* round() of a / b, halves to the even neighbour.
Rounded(a, b) ==
    LET q == a \div b
    IN  IF 2 * (a % b) > b \/ (2 * (a % b) = b /\ q % 2 = 1) THEN q + 1 ELSE q

Width == (Grid - 1) * Scale

\* Every subdomain gets its share, two points at least.
Share(f, s) ==
    LET share == (f.n \div f.subdomains) + IF s <= f.n % f.subdomains THEN 1 ELSE 0
    IN  IF share < 2 THEN 2 ELSE share
Lobatto(f) ==
    LET from(s) == ((s - 1) * Grid + 1) * Scale
    IN  UNION {{from(s) + (Width * j) \div (Share(f, s) - 1) : j \in 0..(Share(f, s) - 1)} : s \in 1..f.subdomains}

\* Too many are thinned out evenly.
Thinned(points, n) ==
    IF Len(points) > n
    THEN [i \in 1..n |-> points[Rounded((i - 1) * (Len(points) - 1), n - 1) + 1]]
    ELSE points

Rightmost(places) == CHOOSE i \in places : \A j \in places : j <= i
Leftmost(places) == CHOOSE i \in places : \A j \in places : i <= j

\* Too few are filled up, each halving the widest gap, the last or first of several.
Widest(points) ==
    LET gap(i) == points[i + 1] - points[i]
        gaps == 1..(Len(points) - 1)
    IN  {i \in gaps : \A j \in gaps : gap(i) >= gap(j)}
Halved(points, last) ==
    LET k == IF last THEN Rightmost(Widest(points)) ELSE Leftmost(Widest(points))
    IN  InsertAt(points, k + 1, (points[k] + points[k + 1]) \div 2)
Filled(points, n, last) ==
    LET filled[k \in 0..n] == IF k <= Len(points) THEN points ELSE Halved(filled[k - 1], last)
    IN  filled[n]

InitialNodes(f) == Filled(Thinned(Ascending(Lobatto(f)), f.n), f.n, TRUE)

-----------------------------------------------------------------------------
(* fit() *)

\* An iterate; its peak is infinite before the first.
Iterate(c, peak, refs, e, even) == [curve |-> c, peak |-> peak, refs |-> refs, level |-> e, even |-> even]
Unfit == Iterate(None, None, <<>>, 0, FALSE)
Smaller(x, y) == y.peak = None \/ x.peak < y.peak

\* The level of a solve is at most the peak of its error, and is the peak when
\* the extrema are even already.
Levels(c) == IF Tallest(Extrema(c)) = Lowest(Extrema(c)) THEN {Peak(c)} ELSE 0..Peak(c)

\* The relative spread of the references, none of them (no error at all) being
\* even in the sign path; as numerator and denominator.
Spread(f, points) ==
    IF points = <<>> THEN <<IF f.general THEN 1 ELSE 0, 1>>
    ELSE IF Tallest(points) = 0 THEN <<1, 1>>
    ELSE <<Tallest(points) - Lowest(points), Tallest(points)>>
Even(f, points) == Spread(f, points)[1] = 0
Narrower(s, t) == s[1] * t[2] < t[1] * s[2]

\* (Slip: the references are taken over however many there are.)
RefsUnchecked(f, points) == Positions(points)
Refs(f, points) == IF Len(points) = f.n THEN Positions(points) ELSE nodes

NoStall == [spread |-> None, since |-> 0]

NoLeast == [g \in {"float64", "mpmath"} |-> None]

NoFit ==
    /\ stage = "idle" /\ engine = "float64" /\ iter = 0 /\ nodes = <<>>
    /\ fit = None /\ curve = None /\ level = 0 /\ extrema = <<>> /\ skeleton = <<>> /\ alt = <<>>
    /\ best = Unfit /\ stall = NoStall /\ float = Unfit /\ result = Unfit
    /\ least = NoLeast

Clear ==
    /\ stage' = "idle" /\ engine' = "float64" /\ iter' = 0 /\ nodes' = <<>>
    /\ fit' = None /\ curve' = None /\ level' = 0 /\ extrema' = <<>> /\ skeleton' = <<>> /\ alt' = <<>>
    /\ best' = Unfit /\ stall' = NoStall /\ float' = Unfit /\ result' = Unfit
    /\ least' = NoLeast

Begin(f, seed, eng) ==
    /\ fit' = f /\ stage' = "solve" /\ engine' = eng /\ iter' = 0
    /\ nodes' = seed
    /\ curve' = None /\ level' = 0 /\ extrema' = <<>> /\ skeleton' = <<>> /\ alt' = <<>>
    /\ best' = Unfit /\ stall' = NoStall /\ float' = Unfit /\ result' = Unfit
    /\ least' = NoLeast

\* The float64 engine returns x: it is polished, or stored.
FloatReturns(x) ==
    /\ float' = x
    /\ IF fit.precision
       THEN /\ engine' = "mpmath" /\ iter' = 0 /\ best' = Unfit /\ stage' = "solve"
            /\ nodes' = x.refs /\ UNCHANGED result
       ELSE /\ stage' = "done" /\ result' = x /\ UNCHANGED <<engine, iter, best, nodes>>

\* What a polish returned is kept when its peak is smaller, or nothing precedes
\* it; the sign path keeps it anyway, with the float64 engine's references.
Polished(x) ==
    IF float = Unfit THEN x
    ELSE IF ~fit.general THEN [x EXCEPT !.refs = float.refs]
    ELSE IF x.peak < Peak(float.curve) THEN x ELSE float

MpReturns(x) ==
    /\ stage' = "done" /\ result' = Polished(x)
    /\ UNCHANGED <<engine, iter, best, nodes, float>>

\* The sign path in mpmath, whose extrema move.
Polishing == engine = "mpmath" /\ ~fit.general
Selectable(c) == IF Polishing THEN Moved(c) ELSE {Loud(c, Floor(fit, engine))}

\* One linear solve, on the nodes in order, and the extrema to choose from.
Solve ==
    /\ stage = "solve" /\ stage' = "trim"
    /\ \E c \in Curves[fit.target] : \E e \in Levels(c), all \in Selectable(c) :
          /\ curve' = c /\ level' = e /\ extrema' = all
          /\ skeleton' = Alternation(fit, all, e)
          /\ alt' = IF fit.general THEN Padded(skeleton', all, fit.n) ELSE skeleton'
    /\ UNCHANGED <<fit, engine, iter, nodes, best, stall, float, result, least>>

\* Coefficients beyond COEFF_LIMIT end the float64 engine of the sign path.
BlowUp ==
    /\ stage = "solve" /\ engine = "float64" /\ ~fit.general
    /\ \E c \in Curves[fit.target] : \E e \in Levels(c) :
          FloatReturns(Iterate(c, Peak(c), nodes, e, FALSE))
    /\ UNCHANGED <<fit, curve, level, extrema, skeleton, alt, stall, least>>

Trim ==
    /\ stage = "trim"
    /\ IF Len(alt) > fit.n
       THEN alt' = Trimmed(fit, alt) /\ UNCHANGED stage
       ELSE stage' = "exchange" /\ UNCHANGED alt
    /\ UNCHANGED <<fit, engine, iter, nodes, curve, level, extrema, skeleton, best, stall, float, result, least>>

This == Iterate(curve, Peak(curve), Refs(fit, alt), level, Even(fit, alt))

\* (Slip: the last iterate is kept.)
BestIsLast(x) == x
Best(x) == IF Smaller(x, best) THEN x ELSE best

\* Another round on the references just chosen.
Again(b) ==
    /\ stage' = "solve" /\ iter' = iter + 1 /\ best' = b
    /\ nodes' = This.refs
    /\ UNCHANGED <<engine, float, result>>

LastRound == iter + 1 = fit.maxIter

\* _fit_general_float64: even references end it with the last iterate, the
\* limit with the best.
ExchangeGeneral ==
    /\ engine = "float64" /\ fit.general
    /\ IF This.even THEN FloatReturns(This)
       ELSE IF LastRound THEN FloatReturns(Best(This))
       ELSE Again(Best(This))
    /\ UNCHANGED stall

\* _fit_general_mpmath: even references end it with the level for the peak.
PolishGeneral ==
    /\ engine = "mpmath" /\ fit.general
    /\ IF This.even THEN MpReturns([This EXCEPT !.peak = level])
       ELSE IF LastRound THEN MpReturns(Best(This))
       ELSE Again(Best(This))
    /\ UNCHANGED stall

\* _fit_float64: also ends when the spread has not fallen for four rounds.
ExchangeSign ==
    /\ engine = "float64" /\ ~fit.general
    /\ LET spread == Spread(fit, alt)
           fell == stall.spread = None \/ Narrower(spread, stall.spread)
       IN  IF ~This.even /\ fell
           THEN stall' = [spread |-> spread, since |-> 0]
           ELSE stall' = [stall EXCEPT !.since = IF This.even THEN @ ELSE @ + 1]
    /\ IF This.even \/ stall'.since = 4 \/ LastRound THEN FloatReturns(This) ELSE Again(best)

\* _fit_mpmath
PolishSign ==
    /\ Polishing
    /\ IF This.even \/ LastRound THEN MpReturns(This) ELSE Again(best)
    /\ UNCHANGED stall

Exchange ==
    /\ stage = "exchange"
    /\ ExchangeGeneral \/ PolishGeneral \/ ExchangeSign \/ PolishSign
    /\ least' = [least EXCEPT ![engine] = IF @ = None \/ Peak(curve) < @ THEN Peak(curve) ELSE @]
    /\ UNCHANGED <<fit, curve, level, extrema, skeleton, alt>>

FitStep == Solve \/ BlowUp \/ Trim \/ Exchange

-----------------------------------------------------------------------------
(* Properties *)

\* Every linear system is square: there are exactly as many reference points as
\* unknowns; and no two fall together, however they were spread, thinned out,
\* filled up, selected or padded (remez_utils.py: _initial_nodes,
\* _select_references, cosine_minimax's pad).  That they are distinct is not said
\* of the later rounds of the sign path's polish, whose candidates _fit_mpmath
\* moves, one onto another if it comes to that.
SystemSolvable ==
    stage = "solve" =>
        /\ Len(nodes) = fit.n
        /\ ~(Polishing /\ iter > 0) => \A i \in 1..(fit.n - 1) : nodes[i] < nodes[i + 1]

InSelection == stage \in {"trim", "exchange"}
Neighbours == {<<alt[i], alt[i + 1]>> : i \in 1..(Len(alt) - 1)}

\* References alternate between peaks and valleys (in the sign path, its polish
\* too, between signs of the error) through every removal, unless there were too
\* few alternating extrema, and stay in the order of their places, unless that
\* polish moved them (_select_references, _pick_alternating).
ReferencesAlternate ==
    InSelection => \A p \in Neighbours :
        /\ ~Polishing => p[1].u < p[2].u
        /\ fit.general /\ Len(skeleton) >= fit.n => p[1].mu # p[2].mu
        /\ ~fit.general => (p[1].r > 0) # (p[2].r > 0)

\* No extremum to select from is taller than all of the references selected
\* (_select_references: never the global peak; _pick_alternating); and so the
\* peak of the error is among them, unless it is below the floor of the
\* arithmetic or the sign path's polish moved it.
PeakKept ==
    InSelection =>
        /\ \A i \in DOMAIN extrema : extrema[i].r # 0 => \E j \in DOMAIN alt : Tall(alt[j]) >= Tall(extrema[i])
        /\ Peak(curve) > 0 /\ Peak(curve) >= Floor(fit, engine) /\ ~Polishing =>
               \E i \in DOMAIN alt : Tall(alt[i]) = Peak(curve)

Total(points) == SumOf([i \in DOMAIN points |-> Tall(points[i])])

\* Of one or two extrema too many those removed one pair at a time are the
\* least: no other alternating choice has a larger sum (_select_references, the
\* maximum-absolute-sum condition).
LargestSum ==
    stage = "exchange" /\ fit.general =>
        LET alternating(I) == \A i, j \in I : i < j /\ (\A k \in I : k <= i \/ k >= j) => (j - i) % 2 = 1
        IN  Len(skeleton) - fit.n \in 1..2 =>
                \A I \in SUBSET DOMAIN skeleton : Cardinality(I) = fit.n /\ alternating(I) =>
                    Total(Picked(skeleton, I)) <= Total(alt)

\* What fit() stores is no worse than any iterate of the engine it is from,
\* unless that ended with even references, and a polish never makes it worse
\* (remez_utils.py: _fit_general_float64, _fit_general_mpmath, fit).
NeverWorse ==
    stage = "done" /\ fit.general =>
        /\ result.even \/ result.peak = least[IF result = float THEN "float64" ELSE "mpmath"]
        /\ float # Unfit => result.peak <= float.peak

\* The exchange solves square systems on distinct points, and its references
\* alternate and hold the tallest extremum, with the exceptions named above.
ExchangeSound == SystemSolvable /\ ReferencesAlternate /\ PeakKept

=============================================================================
