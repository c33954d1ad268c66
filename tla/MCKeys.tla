------------------------------- MODULE MCKeys -------------------------------
(* Small instances of Keys for TLC: clients, paths, tokens and revisions are *)
(* model values; which client has which token is fixed here.                 *)
EXTENDS Keys, TLC

CONSTANTS c1, c2, t1, t2

OneToken == [c \in Client |-> t1]
TwoTokens == (c1 :> t1) @@ (c2 :> t2)
Revisions == Permutations(Revision)
=============================================================================
