-------------------------------- MODULE Sums ---------------------------------
(* sum() of Python, from the first element on.                                *)
EXTENDS Integers, Sequences

SumOf(s) ==
    LET sum[k \in 0..Len(s)] == IF k = 0 THEN 0 ELSE sum[k - 1] + s[k]
    IN  sum[Len(s)]

=============================================================================
