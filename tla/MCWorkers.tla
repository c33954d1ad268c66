------------------------------- MODULE MCWorkers -------------------------------
(* Small instances of Workers for TLC.                                         *)
EXTENDS Workers, TLC

CONSTANTS c1, c2

AllCalls == [c \in Client |-> Operation]
\* c1 always looks for a worker before it starts one, c2 need not.
OneLooks == (c1 :> Operation \ {"start"}) @@ (c2 :> Operation)
=============================================================================
