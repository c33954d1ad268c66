---------------------------- MODULE CosineMinimax ----------------------------
(* The fits the application asks for (build                                   *)
(* operators/polynomials/remez_utils.py): Remez(...).fit() itself, as         *)
(* arcsin_minimax and the stages of the sign composite do, and                *)
(* cosine_minimax, which raises the degree step by step, each fit seeded with *)
(* the references of the one before, in float64 and from the last converged   *)
(* degree on in mpmath.                                                       *)
EXTENDS Remez

CONSTANTS
    Cosine,         \* the instance cosine_minimax fits, but for n and precision
    Asked,          \* the degrees asked for
    Start, Step     \* s0, the first degree of the continuation, and its step

ASSUME CosineAssumption ==
    /\ Start \in Nat /\ Step \in Nat \ {0} /\ Asked \subseteq Nat
    /\ Cosine \in Instances /\ Cosine.general
    /\ \A c \in Curves[Cosine.target] : Len(c) = Cosine.subdomains
    /\ \A d \in Asked : d + Step < Scale

VARIABLES
    task,       \* what is asked: a fit, or a degree and whether with precision
    phase,      \* fit, or the phases of cosine_minimax: float64, mpmath; done
    lastGood,   \* the last fit that converged
    outcome     \* the fit returned

vars == <<fitVars, task, phase, lastGood, outcome>>

\* A general fit of degree d has d + 1 coefficients and a level to solve for.
Instance(d, precision) == [Cosine EXCEPT !.n = d + 2, !.precision = precision]
Degree == fit.n - 2

Init ==
    /\ NoFit
    /\ phase = "idle" /\ task = None /\ lastGood = None /\ outcome = None

BeginAfresh(f) == Begin(f, InitialNodes(f), "float64")

\* Remez(...).fit()
Fit ==
    /\ phase = "idle" /\ phase' = "fit"
    /\ \E f \in Fits : task' = f /\ BeginAfresh(f)
    /\ UNCHANGED <<lastGood, outcome>>

\* cosine_minimax: a degree up to s0 is fit at once.
CallCosine ==
    /\ phase = "idle"
    /\ \E d \in Asked, precise \in BOOLEAN :
          /\ task' = [degree |-> d, precision |-> precise]
          /\ IF d <= Start
             THEN phase' = "fit" /\ BeginAfresh(Instance(d, precise))
             ELSE phase' = "float64" /\ BeginAfresh(Instance(Start, FALSE))
    /\ UNCHANGED <<lastGood, outcome>>

\* pad: the widest gaps are halved.
Seed(refs, n) == Filled(refs, n, FALSE)

Record(good) == [degree |-> Degree, refs |-> result.refs, good |-> good, engine |-> engine]

\* The application takes what it asked for.
Take ==
    /\ phase = "done" /\ phase' = "idle"
    /\ task' = None /\ lastGood' = None /\ outcome' = None
    /\ Clear

Return(r) ==
    /\ phase' = "done" /\ outcome' = r
    /\ UNCHANGED fitVars

FitReturns ==
    /\ phase = "fit" /\ stage = "done"
    /\ Return(Record(result.even))
    /\ UNCHANGED <<task, lastGood>>

Raise(d, refs, eng) ==
    Begin(Instance(d, FALSE), Seed(refs, d + 2), eng) /\ phase' = eng /\ UNCHANGED outcome

\* (Slip: a fit that did not converge ends phase 1 whether or not mpmath is to
\* take over.)
MayRaiseImpatient(r) == r.degree < task.degree /\ (r.good \/ r.degree = Start)
\* Phase 1 goes on unless a fit beyond the first leaves the rest to mpmath.
MayRaise(r) == r.degree < task.degree /\ ~(task.precision /\ ~r.good /\ r.degree > Start)

\* (Slip: mpmath goes on from the fit that failed.)
TakenOverLatest(last, r) == r
TakenOver(last, r) == last

\* Phase 1: a fit has been raised to the next degree.  It converged when its
\* spread is below 1e-2, which an uneven one's may be.
RaiseFloat64 ==
    /\ phase = "float64" /\ stage = "done"
    /\ \E good \in {result.even, TRUE} :
          LET r == Record(good)
          IN  /\ lastGood' = IF good \/ r.degree = Start THEN r ELSE lastGood
              /\ IF MayRaise(r) THEN Raise(r.degree + Step, r.refs, "float64")
                 ELSE IF lastGood'.degree >= task.degree THEN Return(lastGood')
                 ELSE IF ~task.precision THEN Return(r)
                 ELSE LET from == TakenOver(lastGood', r) IN Raise(from.degree + Step, from.refs, "mpmath")
    /\ UNCHANGED task

\* Phase 2, whose fits are taken as they come.
RaiseMpmath ==
    /\ phase = "mpmath" /\ stage = "done"
    /\ LET r == Record(result.even)
       IN  IF r.degree < task.degree THEN Raise(r.degree + Step, r.refs, "mpmath") ELSE Return(r)
    /\ UNCHANGED <<task, lastGood>>

Exchanging == FitStep /\ UNCHANGED <<task, phase, lastGood, outcome>>

Next == Fit \/ CallCosine \/ FitReturns \/ RaiseFloat64 \/ RaiseMpmath \/ Exchanging \/ Take

Spec == Init /\ [][Next]_vars

-----------------------------------------------------------------------------
(* Properties *)

\* A continuation ends at the degree asked for, or less than a step above, and
\* with precision never with a float64 fit that did not converge
\* (remez_utils.py: cosine_minimax).
OutcomeAsAsked ==
    phase = "done" /\ outcome.degree > Start =>
        task \in Fits \/ (/\ outcome.degree \in task.degree..(task.degree + Step - 1)
                          /\ task.precision => outcome.good \/ outcome.engine = "mpmath")

\* mpmath takes over from the references of the last converged degree, not from
\* those of the fit that failed (cosine_minimax, phase 2).
TakesOverConverged ==
    [][phase = "float64" /\ phase' = "mpmath" =>
        /\ lastGood'.good \/ lastGood'.degree = Start
        /\ fit'.n - 2 = lastGood'.degree + Step
        /\ {lastGood'.refs[i] : i \in DOMAIN lastGood'.refs} \subseteq {nodes'[i] : i \in DOMAIN nodes'}]_vars

=============================================================================
