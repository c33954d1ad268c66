--------------------------- MODULE MCLevelTracing ---------------------------
(* Small instances of LevelTracing for TLC.                                   *)
EXTENDS LevelTracing, TLC

\* Two columns in the first row, one in the others.
Widths == [r \in Row |-> IF r = 0 THEN 2 ELSE 1]
\* No budget, and one row.
Budgets == {Row, {1}}
=============================================================================
