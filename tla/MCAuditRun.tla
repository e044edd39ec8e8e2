----------------------------- MODULE MCAuditRun -----------------------------
(***************************************************************************)
(* Small instances of AuditRun for TLC.                                    *)
(***************************************************************************)
EXTENDS AuditRun

AsIs     == {"as_is"}
TwoWays  == {"as_is", "shifted"}

\* A limit for every resource; the token and cost limits are out of the way.
Limits(manager, falsifier, tools, executions, retries) ==
    [r \in Resource |->
        CASE r = "managerTurns"   -> manager
          [] r = "falsifierTurns" -> falsifier
          [] r = "modelCalls"     -> manager + falsifier + retries
          [] r = "toolCalls"      -> tools
          [] r = "executions"     -> executions
          [] r = "retries"        -> retries
          [] OTHER                -> 9]

TwoRounds    == Limits(8, 5, 11, 3, 0)
SingleAgent  == Limits(7, 0, 7, 3, 0)
Depleting    == Limits(5, 3, 6, 2, 1)

PerActor(manager, falsifier) ==
    [a \in Actor |-> IF a = Manager THEN manager ELSE falsifier]

Free     == {[input |-> 0, output |-> 0, cost |-> 0]}
Metered  == {[input |-> 1, output |-> 0, cost |-> 0],
             [input |-> 4, output |-> 0, cost |-> 0]}

OneEach == PerActor(1, 1)
OneAndTwo == PerActor(1, 2)
TwoEach == PerActor(2, 2)
FourEach == PerActor(4, 4)
=============================================================================
