--------------------------- MODULE MCPipelineGraph ---------------------------
(* A small application: a unary leaf and a binary one given the same weight, *)
(* a client operator, a nested operator of one parameter, SequentialHomOp     *)
(* and a homomorphic section with a primary and a custom input.               *)
EXTENDS PipelineGraph

MCLeaf == {"mul", "add", "clamp"}
MCArity == [l \in MCLeaf |-> IF l = "add" THEN 2 ELSE 1]
MCData == [l \in MCLeaf |-> IF l = "mul" THEN <<"w">> ELSE IF l = "add" THEN <<"u", "w">> ELSE <<>>]
MCClient == {"clamp"}
MCBlock == {"sequential", "model", "block"}
MCParams == [b \in MCBlock |->
    IF b = "sequential" THEN <<"x">> ELSE IF b = "model" THEN <<"p", "y">> ELSE <<"a">>]
MCPipelines == {{"hom"}, {"client_pre", "hom", "client_post"}}
MCLocal == [n \in 0..MaxOps |-> "v" \o ToString(n)]
=============================================================================
