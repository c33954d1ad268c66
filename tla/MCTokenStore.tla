---------------------------- MODULE MCTokenStore -----------------------------
(* Two tokens of different names.                                             *)
EXTENDS TokenStore

MCName == [t \in Token |-> IF t = 1 THEN "a" ELSE "b"]
=============================================================================
