---------------------------- MODULE AgentBudget ----------------------------
(***************************************************************************)
(* The usage ledger of one agent run (agent_budget.py, AgentBudgetLedger). *)
(*                                                                         *)
(* Every method of the ledger takes its lock, reads the clock, computes    *)
(* the usage it would reach, raises AgentBudgetExceeded if any limit would *)
(* be passed, and only then commits all counters together.  A charge is    *)
(* therefore one atomic step that happens completely or not at all; the    *)
(* operators below are composed into the steps of the modules that use the *)
(* ledger.  usage[r] is the counter of resource r, elapsed the reading of  *)
(* the monotonic clock since the run started.                              *)
(***************************************************************************)
EXTENDS Integers

CONSTANTS Limit,          \* AgentRuntimeLimits: a limit for every resource
          ElapsedLimit    \* elapsed_time_limit_seconds

VARIABLES usage, elapsed

budgetVars == <<usage, elapsed>>

Manager   == "audit-manager"
Falsifier == "falsifier"
Actor     == {Manager, Falsifier}

Resource == {"managerTurns", "falsifierTurns", "modelCalls", "toolCalls",
             "inputTokens", "outputTokens", "executions", "retries", "cost"}

ASSUME LimitAssumption == Limit \in [Resource -> Nat] /\ ElapsedLimit \in Nat

TurnResource(a) == IF a = Manager THEN "managerTurns" ELSE "falsifierTurns"

BudgetInit == /\ usage = [r \in Resource |-> 0]
              /\ elapsed = 0

---------------------------------------------------------------------------
(* The amounts the methods of the ledger charge. *)

NoCharge == [r \in Resource |-> 0]

\* Mutant of ModelCall: the answer is used, the call is never recorded.
UnrecordedModelCall(a, input, output, cost, retries) == NoCharge

\* record_model_call: one logical turn, 1 + retries physical attempts.
ModelCall(a, input, output, cost, retries) ==
    [NoCharge EXCEPT ![TurnResource(a)] = 1,
                     !["modelCalls"]    = 1 + retries,
                     !["inputTokens"]   = input,
                     !["outputTokens"]  = output,
                     !["cost"]          = cost,
                     !["retries"]       = retries]

\* charge_tool_calls()
ToolCall == [NoCharge EXCEPT !["toolCalls"] = 1]

\* n calls of charge_workbook_executions()
Executions(n) == [NoCharge EXCEPT !["executions"] = n]

Plus(c, d) == [r \in Resource |-> c[r] + d[r]]

Expired == elapsed > ElapsedLimit

\* The charge that would raise AgentBudgetExceeded.
Exceeded(charge) == \/ Expired
                    \/ \E r \in Resource : usage[r] + charge[r] > Limit[r]

\* Mutant of Charge: the counters are committed before they are checked.
ChargeUnchecked(charge) == /\ ~Expired
                           /\ usage' = Plus(usage, charge)
                           /\ UNCHANGED elapsed

Charge(charge) == /\ ~Exceeded(charge)
                  /\ usage' = Plus(usage, charge)
                  /\ UNCHANGED elapsed

Remaining(r) == Limit[r] - usage[r]

\* The wall clock: it only moves forward, and once it has passed the limit
\* nothing distinguishes later readings.
Tick == /\ ~Expired
        /\ elapsed' = elapsed + 1
        /\ UNCHANGED usage

BudgetTypeOK == /\ usage \in [Resource -> Nat]
                /\ elapsed \in 0 .. ElapsedLimit + 1

\* No counter of the ledger ever passes its limit.
WithinLimits == \A r \in Resource : usage[r] <= Limit[r]
=============================================================================
