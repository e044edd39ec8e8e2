-------------------------- MODULE MCModelExchange --------------------------
(* Instances of ModelExchange for TLC. *)
EXTENDS ModelExchange, TLC

\* Three turns, four requests, two retries.
Allowance == [r \in Resource |->
    CASE r = "managerTurns" -> 3
      [] r = "modelCalls"   -> 4
      [] r = "retries"      -> 2
      [] r = "toolCalls"    -> 3
      [] r = "inputTokens"  -> 4
      [] OTHER              -> 1]

\* Nothing tells the tools apart.
ToolSymmetry == Permutations(Tool)
=============================================================================
