--------------------------- MODULE Approximations ----------------------------
(* The polynomials a build asks for, one call after the other: plain fits and *)
(* cosines (eval_mod_minimax, arcsin_minimax) and sign composites             *)
(* (sign_minimax) of build operators/polynomials/remez_utils.py.              *)
EXTENDS CosineMinimax, SignSearch

allVars == <<vars, searchVars>>

AllInit == Init /\ SearchInit

Fitting == accuracy = Nothing /\ Next /\ UNCHANGED searchVars
SearchingSign == phase = "idle" /\ SearchNext /\ UNCHANGED vars

AllNext == Fitting \/ SearchingSign

AllSpec == AllInit /\ [][AllNext]_allVars

\* What is chosen is the best there is: the references among the alternating
\* extrema, one or two of them too many, and the sign composite among all
\* candidates (remez_utils.py: _select_references, sign_minimax).
ChoicesAreBest == LargestSum /\ SmallestDepth

=============================================================================
