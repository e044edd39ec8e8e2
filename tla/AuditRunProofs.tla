--------------------------- MODULE AuditRunProofs ---------------------------
(***************************************************************************)
(* What holds of an agent run for every number of proposals and designs,   *)
(* every limit, every reserve and both comparison modes: its type          *)
(* invariant, the authority of a repair, the finality of a decision, and   *)
(* that the run implements AuditAuthority.                                 *)
(***************************************************************************)
EXTENDS AuditRun, FiniteSetTheorems, TLAPS

---------------------------------------------------------------------------
(* The ledger. *)

\* Every charge the run makes is a natural number of every resource.
LEMMA ChargesAreNatural ==
    /\ ToolCall \in [Resource -> Nat]
    /\ \A n \in Nat : /\ Executions(n) \in [Resource -> Nat]
                      /\ Plus(ToolCall, Executions(n)) \in [Resource -> Nat]
    /\ \A a \in Actor, input, output, cost, retries \in Nat :
          ModelCall(a, input, output, cost, retries) \in [Resource -> Nat]
BY DEF ToolCall, Executions, Plus, ModelCall, NoCharge, Resource, TurnResource, Actor

\* A charge keeps every counter a natural number within its limit.
LEMMA ChargeKeepsLimits ==
    ASSUME NEW charge \in [Resource -> Nat], BudgetTypeOK, WithinLimits,
           Charge(charge)
    PROVE  (BudgetTypeOK /\ WithinLimits)'
<1>1. usage' \in [Resource -> Nat] /\ elapsed' = elapsed
  BY DEF Charge, Plus, BudgetTypeOK
<1>2. \A r \in Resource : usage[r] + charge[r] <= Limit[r]
  BY LimitAssumption DEF Charge, Exceeded, BudgetTypeOK
<1>3. QED
  BY <1>1, <1>2 DEF Charge, Plus, BudgetTypeOK, WithinLimits

---------------------------------------------------------------------------
(* The tools of a turn. *)

\* Every phase offers an actor only tools of its own registry.
LEMMA OfferedAreOwn ==
    ASSUME NEW a \in Actor, NEW scope \in BOOLEAN
    PROVE  RequestTools(a, scope) \subseteq Tools(a)
<1>1. TerminalTools(a) \subseteq Tools(a)
  BY DEF TerminalTools, Tools, Actor, Manager, Falsifier
<1>2. a = Manager /\ UseFalsifier => CandidatePhase \subseteq Tools(a)
  BY DEF CandidatePhase, Tools, ReadTools, Manager, Falsifier
<1>3. CoordinationTools(a) \subseteq Tools(a)
  BY DEF CoordinationTools
<1>4. {"inspect_dependencies", "run_experiment"} \subseteq Tools(a)
  BY DEF Tools, ReadTools
<1>5. CandidateRetryRequired(a) => {"stage_candidate"} \subseteq Tools(a)
  BY DEF CandidateRetryRequired, Tools, Manager, Falsifier
<1>6. QED
  BY <1>1, <1>2, <1>3, <1>4, <1>5 DEF RequestTools

LEMMA OwnAreTools == \A a \in Actor : Tools(a) \subseteq Tool
BY DEF Tools, Tool, Actor

---------------------------------------------------------------------------
(* Type correctness. *)

\* What the budget aside a step must keep well-typed.
StateTypeOK == /\ citations \in Nat
               /\ experiments \subseteq Experiment
               /\ candidate \in Proposal \cup {None}
               /\ verdict \in Verdict \cup {None}
               /\ decision \in Decision \cup {None}

LoopTypeOK == /\ running \in Actor
              /\ step \in {"turn", "tools"}
              /\ loop \in [Actor -> Loop]
              /\ memory \in [staged : BOOLEAN, stageFailures : 0 .. 2,
                             finishAttempts : 0 .. 2, unrecorded : BOOLEAN]

LEMMA TypeParts ==
    TypeOK <=> BudgetTypeOK /\ WithinLimits /\ StateTypeOK /\ LoopTypeOK
BY DEF TypeOK, StateTypeOK, LoopTypeOK

\* The results of handlers have the types of the records they are stored in.
LEMMA AbstentionsAreDecisions ==
    ASSUME TypeOK,
           NEW reason \in {"HUMAN_REVIEW", "SAFETY_LIMIT_REACHED", "REPAIR_REJECTED",
                           "FALSIFIER_INCONCLUSIVE", "MODEL_UNAVAILABLE",
                           "RUNTIME_FAILURE"}
    PROVE  Abstain(reason) \in Decision
BY DEF TypeOK, Abstain, Decision

LEMMA InconclusiveIsVerdict ==
    ASSUME TypeOK, candidate # None
    PROVE  Inconclusive \in Verdict
BY DEF TypeOK, Inconclusive, Verdict

\* A loop with one call less, or one more tool in its cache, is a loop that
\* offers what it did.
LEMMA LoopsStayLoops ==
    ASSUME TypeOK, loop[running].pending > 0
    PROVE  /\ Done \in [Actor -> Loop]
           /\ \A t \in {"read", "inspect_dependencies"} : Cached(t) \in [Actor -> Loop]
           /\ \A a \in Actor : Done[a].offered = loop[a].offered
           /\ \A t \in {"read", "inspect_dependencies"}, a \in Actor :
                 Cached(t)[a].offered = loop[a].offered
<1>1. loop[running].pending \in 0 .. Parallel /\ Parallel \in Nat
  BY RunAssumption DEF TypeOK, Loop
<1>2. Done \in [Actor -> Loop]
  BY <1>1 DEF TypeOK, Loop, Done
<1>3. ASSUME NEW t \in {"read", "inspect_dependencies"}
      PROVE  Cached(t) \in [Actor -> Loop]
  BY <1>2, <1>3 DEF Cached, Loop, TypeOK
<1>4. \A a \in Actor : Done[a].offered = loop[a].offered
  BY DEF Done, TypeOK, Loop
<1>5. \A t \in {"read", "inspect_dependencies"}, a \in Actor :
         Cached(t)[a].offered = Done[a].offered
  BY <1>2 DEF Cached, TypeOK, Loop
<1>6. QED
  BY <1>2, <1>3, <1>4, <1>5

LEMMA FreshLoopIsLoop == FreshLoop \in Loop
BY RunAssumption DEF FreshLoop, Loop

---------------------------------------------------------------------------
(* The inductive invariant. *)

OwnTools == \A a \in Actor : loop[a].offered \subseteq Tools(a)

\* The falsifier has control only over a staged candidate of an open run.
FalsifierIsAsked == running = Falsifier => candidate # None /\ decision = None

\* A verdict is about the staged candidate, and a surviving one rests on
\* passing experiments of the falsifier on exactly that candidate.
VerdictStands ==
    verdict # None =>
        /\ candidate # None
        /\ verdict.proposal = candidate
        /\ verdict.status = "SURVIVED" =>
              /\ verdict.cited # {}
              /\ \A e \in verdict.cited : /\ e \in experiments
                                          /\ e.actor = Falsifier
                                          /\ e.bound = candidate
                                          /\ e.comparisons = "pass"

\* No experiment is bound to a candidate before one is staged.
BoundAfterStaging ==
    candidate = None => \A e \in experiments : e.bound = None

IInv == /\ TypeOK
        /\ OwnTools
        /\ FalsifierIsAsked
        /\ VerdictStands
        /\ BoundAfterStaging
        /\ RepairAuthorized

\* The controller acts only while the run is open.
LEMMA ControllerNeedsOpenRun ==
    ASSUME IInv, Controller
    PROVE  decision = None
<1>1. running \in Actor
  BY DEF IInv, TypeOK
<1>2. CASE running = Falsifier
  BY <1>2 DEF IInv, FalsifierIsAsked
<1>3. CASE running = Manager
  <2>1. OpenLoop => decision = None
    BY <1>3 DEF OpenLoop
  <2>2. CASE TurnStep
    BY <2>1, <2>2 DEF TurnStep, PreflightStops, NoToolOffered, AskModel, ModelOverruns,
                      ModelFails, EndTurn, Ready
  <2>3. CASE EvidenceStep
    BY <2>1, <2>3 DEF EvidenceStep, Read, InspectDependencies, CachedRead,
                      RunExperiment, RunExperimentFails, Called
  <2>4. CASE DecisionStep
    BY <2>1, <2>4 DEF DecisionStep, StageCandidate, StageCandidateFails,
                      FalsifyCandidate, SubmitRepair, FinishNoChange, RequestHuman,
                      CallRefused, ToolBudgetStops, Called
  <2>5. CASE FalsifierStep
    BY <1>3, <2>1, <2>5 DEF FalsifierStep, ReportFalsification, FalsifierReturns,
                            FalsifierUnrecorded, Called, Manager, Falsifier
  <2>6. QED
    BY <2>2, <2>3, <2>4, <2>5 DEF Controller
<1>4. QED
  BY <1>1, <1>2, <1>3 DEF Actor

---------------------------------------------------------------------------
(* The budget is kept by every step. *)

LEMMA BudgetStep ==
    ASSUME TypeOK, Next
    PROVE  (BudgetTypeOK /\ WithinLimits)'
<1>1. BudgetTypeOK /\ WithinLimits
  BY DEF TypeOK
<1>2. ASSUME UNCHANGED budgetVars
      PROVE  (BudgetTypeOK /\ WithinLimits)'
  BY <1>1, <1>2 DEF budgetVars, BudgetTypeOK, WithinLimits
<1>3. ASSUME NEW charge \in [Resource -> Nat], Charge(charge)
      PROVE  (BudgetTypeOK /\ WithinLimits)'
  BY <1>1, <1>3, ChargeKeepsLimits
<1>4. ASSUME Charge(ToolCall)
      PROVE  (BudgetTypeOK /\ WithinLimits)'
  BY <1>3, <1>4, ChargesAreNatural
<1>5. ASSUME NEW n \in Nat, Charge(Plus(ToolCall, Executions(n)))
      PROVE  (BudgetTypeOK /\ WithinLimits)'
  BY <1>3, <1>5, ChargesAreNatural
<1>6. CASE TurnStep
  <2>1. CASE AskModel
    <3>1. PICK c \in Charges, retries \in RetriesAllowed :
            Charge(ModelCall(running, c.input, c.output, c.cost, retries))
      BY <2>1 DEF AskModel
    <3>2. c.input \in Nat /\ c.output \in Nat /\ c.cost \in Nat /\ retries \in Nat
      BY RunAssumption DEF RetriesAllowed
    <3>3. running \in Actor
      BY DEF TypeOK
    <3>4. QED
      BY <1>3, <3>1, <3>2, <3>3, ChargesAreNatural
  <2>2. CASE ModelFails
    <3>1. PICK retries \in RetriesAllowed :
            Charge(ModelCall(running, 0, 0, 0, retries))
      BY <2>2 DEF ModelFails
    <3>2. retries \in Nat /\ running \in Actor
      BY DEF RetriesAllowed, TypeOK
    <3>3. QED
      BY <1>3, <3>1, <3>2, ChargesAreNatural
  <2>3. CASE PreflightStops \/ NoToolOffered \/ ModelOverruns \/ EndTurn
    BY <1>2, <2>3 DEF PreflightStops, NoToolOffered, ModelOverruns, EndTurn
  <2>4. QED
    BY <1>6, <2>1, <2>2, <2>3 DEF TurnStep
<1>7. CASE EvidenceStep
  <2>1. CASE Read \/ InspectDependencies
    BY <1>4, <2>1 DEF Read, InspectDependencies
  <2>2. CASE CachedRead
    BY <1>2, <2>2 DEF CachedRead
  <2>3. CASE RunExperiment
    BY <1>5, <2>3 DEF RunExperiment
  <2>4. CASE RunExperimentFails
    BY <1>5, <2>4 DEF RunExperimentFails
  <2>5. QED
    BY <1>7, <2>1, <2>2, <2>3, <2>4 DEF EvidenceStep
<1>8. CASE DecisionStep
  <2>1. ASSUME NEW n \in 0 .. Cardinality(Expecting),
               Charge(Plus(ToolCall, Executions(n)))
        PROVE  (BudgetTypeOK /\ WithinLimits)'
    BY <1>5, <2>1
  <2>2. CASE \E p \in Proposal : StageCandidate(p)
    BY <2>1, <2>2 DEF StageCandidate
  <2>3. CASE StageCandidateFails
    BY <2>1, <2>3 DEF StageCandidateFails
  <2>4. CASE FalsifyCandidate \/ SubmitRepair \/ FinishNoChange \/ RequestHuman
    BY <1>4, <2>4 DEF FalsifyCandidate, SubmitRepair, FinishNoChange, RequestHuman
  <2>5. CASE \E t \in Refusable : CallRefused(t)
    BY <1>4, <2>5 DEF CallRefused
  <2>6. CASE ToolBudgetStops
    BY <1>2, <2>6 DEF ToolBudgetStops
  <2>7. QED
    BY <1>8, <2>2, <2>3, <2>4, <2>5, <2>6 DEF DecisionStep
<1>9. CASE FalsifierStep
  BY <1>2, <1>4, <1>9 DEF FalsifierStep, ReportFalsification, FalsifierReturns,
         FalsifierUnrecorded
<1>10. CASE Clock
  BY <1>1, <1>10, LimitAssumption DEF Clock, Tick, Expired, BudgetTypeOK, WithinLimits
<1>11. QED
  BY <1>6, <1>7, <1>8, <1>9, <1>10 DEF Next, Controller

---------------------------------------------------------------------------
(* Every step leaves two well-typed loops that offer their own tools. *)

LoopsOK == loop \in [Actor -> Loop] /\ OwnTools

\* A change of one loop that leaves its offer alone.
LEMMA LoopChange ==
    ASSUME OwnTools, loop \in [Actor -> Loop],
           NEW f \in [Actor -> Loop], NEW a \in Actor, NEW l \in Loop,
           \A b \in Actor : f[b].offered = loop[b].offered,
           l.offered = loop[a].offered,
           loop' = [f EXCEPT ![a] = l]
    PROVE  LoopsOK'
BY DEF LoopsOK, OwnTools

LEMMA LoopSteps ==
    ASSUME TypeOK, OwnTools
    PROVE  /\ UNCHANGED loop => LoopsOK'
           /\ loop' = [loop EXCEPT ![Falsifier] = FreshLoop] => LoopsOK'
           /\ loop[running].pending > 0 /\ loop' = Done => LoopsOK'
           /\ loop[running].pending > 0 /\ loop' = [Done EXCEPT ![Falsifier] = FreshLoop]
              => LoopsOK'
           /\ \A t \in {"read", "inspect_dependencies"} :
                 loop[running].pending > 0 /\ loop' = Cached(t) => LoopsOK'
<1>1. loop \in [Actor -> Loop] /\ running \in Actor
  BY DEF TypeOK
<1>2. FreshLoop \in Loop /\ FreshLoop.offered = {}
  BY FreshLoopIsLoop DEF FreshLoop
<1>3. UNCHANGED loop => LoopsOK'
  BY <1>1 DEF LoopsOK, OwnTools
<1>4. loop' = [loop EXCEPT ![Falsifier] = FreshLoop] => LoopsOK'
  BY <1>1, <1>2 DEF LoopsOK, OwnTools
<1>5. loop[running].pending > 0 /\ loop' = Done => LoopsOK'
  BY LoopsStayLoops DEF LoopsOK, OwnTools
<1>6. loop[running].pending > 0 /\ loop' = [Done EXCEPT ![Falsifier] = FreshLoop]
      => LoopsOK'
  <2>1. SUFFICES ASSUME loop[running].pending > 0,
                        loop' = [Done EXCEPT ![Falsifier] = FreshLoop]
                 PROVE  LoopsOK'
    OBVIOUS
  <2>2. Done \in [Actor -> Loop] /\ \A a \in Actor : Done[a].offered = loop[a].offered
    BY <2>1, LoopsStayLoops
  <2>3. loop' \in [Actor -> Loop]
    BY <1>2, <2>1, <2>2
  <2>4. \A a \in Actor : loop'[a].offered \subseteq loop[a].offered
    BY <1>2, <2>1, <2>2
  <2>5. QED
    BY <2>3, <2>4 DEF LoopsOK, OwnTools
<1>7. \A t \in {"read", "inspect_dependencies"} :
         loop[running].pending > 0 /\ loop' = Cached(t) => LoopsOK'
  BY LoopsStayLoops DEF LoopsOK, OwnTools
<1>8. QED
  BY <1>3, <1>4, <1>5, <1>6, <1>7

LEMMA LoopStep ==
    ASSUME TypeOK, OwnTools, Next
    PROVE  LoopsOK'
<1>1. loop \in [Actor -> Loop] /\ running \in Actor
  BY DEF TypeOK
<1>2. \A t : Called(t) => loop[running].pending > 0
  BY DEF Called
<1>3. \A reason : Raise(reason) => LoopsOK'
  BY LoopSteps DEF Raise
<1>4. CASE PreflightStops \/ NoToolOffered \/ ModelOverruns \/ ModelFails \/ ToolBudgetStops
  BY <1>3, <1>4 DEF PreflightStops, NoToolOffered, ModelOverruns, ModelFails,
                    ToolBudgetStops
<1>5. CASE AskModel
  <2>1. PICK scope \in BOOLEAN, c \in Charges, calls \in 1 .. Parallel :
          /\ loop' = [loop EXCEPT
                ![running].offered   = RequestTools(running, scope),
                ![running].pending   = calls,
                ![running].final     = FinalTurn(running),
                ![running].last      = LastTurn(running),
                ![running].lastInput = c.input]
    <3>1. PICK scope \in BOOLEAN, c \in Charges, most \in {1, Parallel} :
            \E calls \in 1 .. most :
              loop' = [loop EXCEPT
                ![running].offered   = RequestTools(running, scope),
                ![running].pending   = calls,
                ![running].final     = FinalTurn(running),
                ![running].last      = LastTurn(running),
                ![running].lastInput = c.input]
      BY <1>5, Zenon DEF AskModel
    <3>2. 1 .. most \subseteq 1 .. Parallel
      BY RunAssumption
    <3>3. QED
      BY <3>1, <3>2, Zenon
  <2>2. /\ c.input \in Nat
        /\ calls \in 0 .. Parallel
        /\ FinalTurn(running) \in BOOLEAN
        /\ LastTurn(running) \in BOOLEAN
    BY RunAssumption DEF FinalTurn, LastTurn
  <2>3. /\ RequestTools(running, scope) \subseteq Tools(running)
        /\ RequestTools(running, scope) \subseteq Tool
    BY <1>1, OfferedAreOwn, OwnAreTools
  <2>4. DEFINE asked == [loop[running] EXCEPT
                            !.offered   = RequestTools(running, scope),
                            !.pending   = calls,
                            !.final     = FinalTurn(running),
                            !.last      = LastTurn(running),
                            !.lastInput = c.input]
  <2>5. loop' = [loop EXCEPT ![running] = asked]
    BY <1>1, <2>1
  <2>6. asked \in Loop /\ asked.offered = RequestTools(running, scope)
    BY <1>1, <2>2, <2>3 DEF Loop
  <2>7. QED
    BY <1>1, <2>3, <2>5, <2>6 DEF LoopsOK, OwnTools
<1>6. CASE EndTurn
  <2>1. loop' = [loop EXCEPT ![running].offered = {}, ![running].final = FALSE,
                             ![running].last = FALSE]
    BY <1>6 DEF EndTurn
  <2>2. DEFINE l == [loop[running] EXCEPT !.offered = {}, !.final = FALSE,
                                          !.last = FALSE]
  <2>3. loop' = [loop EXCEPT ![running] = l]
    BY <1>1, <2>1
  <2>4. l \in Loop /\ l.offered = {}
    BY <1>1 DEF Loop
  <2>5. QED
    BY <1>1, <2>3, <2>4 DEF LoopsOK, OwnTools
<1>7. CASE Read
  BY <1>2, <1>7, LoopSteps DEF Read
<1>8. CASE InspectDependencies
  <2>1. PICK named \in BOOLEAN :
          \/ loop' = Done
          \/ loop' = [Cached("inspect_dependencies") EXCEPT
                         ![running].recovery = @ /\ ~named]
    BY <1>8 DEF InspectDependencies
  <2>2. loop[running].pending > 0
    BY <1>2, <1>8 DEF InspectDependencies
  <2>3. DEFINE c == Cached("inspect_dependencies")
  <2>4. DEFINE l == [c[running] EXCEPT !.recovery = @ /\ ~named]
  <2>5. /\ c \in [Actor -> Loop]
        /\ \A a \in Actor : c[a].offered = loop[a].offered
    BY <2>2, LoopsStayLoops
  <2>6. l \in Loop /\ l.offered = c[running].offered
    BY <1>1, <2>5 DEF Loop
  <2>7. CASE loop' = Done
    BY <2>2, <2>7, LoopSteps
  <2>8. CASE loop' = [c EXCEPT ![running].recovery = @ /\ ~named]
    <3>1. loop' = [c EXCEPT ![running] = l]
      BY <2>8
    <3>2. QED
      BY <1>1, <2>5, <2>6, <3>1, LoopChange
  <2>9. QED
    BY <2>1, <2>7, <2>8
<1>9. CASE CachedRead
  <2>1. PICK t \in {"read", "inspect_dependencies"}, named \in BOOLEAN :
          loop' = [Done EXCEPT ![running].recovery =
                                 @ /\ ~(t = "inspect_dependencies" /\ named)]
    BY <1>9, Zenon DEF CachedRead
  <2>2. loop[running].pending > 0
    BY <1>2, <1>9 DEF CachedRead
  <2>3. DEFINE l == [Done[running] EXCEPT
                        !.recovery = @ /\ ~(t = "inspect_dependencies" /\ named)]
  <2>4. Done[running] \in Loop /\ Done[running].recovery \in BOOLEAN
    BY <1>1, <2>2, LoopsStayLoops DEF Loop
  <2>5. l \in Loop /\ l.offered = Done[running].offered
    BY <2>4 DEF Loop
  <2>6. loop' = [Done EXCEPT ![running] = l]
    BY <2>1
  <2>7. QED
    BY <1>1, <2>2, <2>5, <2>6, LoopsStayLoops, LoopChange
<1>10. CASE RunExperiment \/ RunExperimentFails
  <2>1. PICK recovery \in BOOLEAN :
          loop' = [Done EXCEPT ![running].attempts = @ + 1,
                               ![running].recovery = recovery]
    BY <1>10 DEF RunExperiment, RunExperimentFails
  <2>2. loop[running].pending > 0
    BY <1>2, <1>10 DEF RunExperiment, RunExperimentFails
  <2>3. DEFINE l == [Done[running] EXCEPT !.attempts = @ + 1,
                                            !.recovery = recovery]
  <2>4. Done[running] \in Loop /\ Done[running].attempts + 1 \in Nat
    BY <1>1, <2>2, LoopsStayLoops DEF Loop
  <2>5. l \in Loop /\ l.offered = Done[running].offered
    BY <2>4 DEF Loop
  <2>6. loop' = [Done EXCEPT ![running] = l]
    BY <1>1, <2>1, <2>2, LoopsStayLoops
  <2>7. QED
    BY <1>1, <2>2, <2>5, <2>6, LoopsStayLoops, LoopChange
<1>11. CASE DecisionStep /\ ~ToolBudgetStops
  BY <1>2, <1>11, LoopSteps
     DEF DecisionStep, StageCandidate, StageCandidateFails, FalsifyCandidate,
         SubmitRepair, FinishNoChange, RequestHuman, CallRefused
<1>12. CASE FalsifierStep
  BY <1>2, <1>12, LoopSteps DEF FalsifierStep, ReportFalsification, FalsifierReturns,
         FalsifierUnrecorded
<1>13. CASE Clock
  BY <1>13, LoopSteps DEF Clock, loopVars
<1>14. QED
  BY <1>4, <1>5, <1>6, <1>7, <1>8, <1>9, <1>10, <1>11, <1>12, <1>13
     DEF Next, Controller, TurnStep, EvidenceStep, DecisionStep

---------------------------------------------------------------------------
(* Every step keeps the run state well-typed and its authority intact. *)

Memory == [staged : BOOLEAN, stageFailures : 0 .. 2, finishAttempts : 0 .. 2,
           unrecorded : BOOLEAN]

ControlTypeOK == /\ running \in Actor
                 /\ step \in {"turn", "tools"}
                 /\ memory \in Memory

RunOK == /\ StateTypeOK
         /\ ControlTypeOK
         /\ FalsifierIsAsked
         /\ VerdictStands
         /\ BoundAfterStaging
         /\ RepairAuthorized

LEMMA RunOKNow ==
    ASSUME IInv
    PROVE  RunOK
BY DEF IInv, RunOK, TypeOK, StateTypeOK, ControlTypeOK, Memory

LEMMA MemoryCounts ==
    ASSUME memory \in Memory
    PROVE  /\ [memory EXCEPT !.stageFailures = 0] \in Memory
           /\ [memory EXCEPT !.staged = TRUE, !.stageFailures = 0] \in Memory
           /\ [memory EXCEPT !.staged = TRUE, !.stageFailures = Again(@)] \in Memory
           /\ [memory EXCEPT !.finishAttempts = Again(@)] \in Memory
           /\ \A b \in BOOLEAN : [memory EXCEPT !.unrecorded = b] \in Memory
<1>1. \A n \in 0 .. 2 : Again(n) \in 0 .. 2
  BY DEF Again
<1>2. Again(memory.stageFailures) \in 0 .. 2 /\ Again(memory.finishAttempts) \in 0 .. 2
  BY <1>1 DEF Memory
<1>3. [memory EXCEPT !.stageFailures = 0] \in Memory
  BY DEF Memory
<1>4. [memory EXCEPT !.staged = TRUE, !.stageFailures = 0] \in Memory
  <2>1. ASSUME NEW n \in 0 .. 2
        PROVE  [memory EXCEPT !.staged = TRUE, !.stageFailures = n] \in Memory
    BY DEF Memory
  <2>2. 0 \in 0 .. 2
    OBVIOUS
  <2>3. QED
    BY <2>1, <2>2, Zenon
<1>5. [memory EXCEPT !.staged = TRUE, !.stageFailures = Again(@)] \in Memory
  BY <1>2 DEF Memory
<1>6. [memory EXCEPT !.finishAttempts = Again(@)] \in Memory
  BY <1>2 DEF Memory
<1>7. \A b \in BOOLEAN : [memory EXCEPT !.unrecorded = b] \in Memory
  BY DEF Memory
<1>8. QED
  BY <1>3, <1>4, <1>5, <1>6, <1>7

\* Steps that touch no state of the run but the loops and the ledger.
LEMMA QuietStep ==
    ASSUME RunOK, UNCHANGED <<stateVars, running>>, ControlTypeOK'
    PROVE  RunOK'
BY DEF RunOK, stateVars, StateTypeOK, FalsifierIsAsked, VerdictStands,
       BoundAfterStaging, RepairAuthorized

\* An exception closes the run with an abstention, the falsification with an
\* inconclusive verdict, or only the falsifier's loop.
LEMMA RaiseStep ==
    ASSUME IInv, decision = None,
           NEW reason \in {"SAFETY_LIMIT_REACHED", "MODEL_UNAVAILABLE", "RUNTIME_FAILURE"},
           Raise(reason)
    PROVE  RunOK'
<1>1. RunOK
  BY RunOKNow
<1>2. UNCHANGED <<citations, experiments, candidate, memory>>
  BY DEF Raise
<1>3. CASE running = Manager /\ decision' = Abstain(reason) /\ UNCHANGED <<verdict, running, step, loop>>
  <2>1. Abstain(reason) \in Decision /\ Abstain(reason).outcome = "ABSTAIN"
    BY AbstentionsAreDecisions DEF IInv, Abstain
  <2>2. QED
    BY <1>1, <1>2, <1>3, <2>1
       DEF RunOK, StateTypeOK, ControlTypeOK, FalsifierIsAsked, VerdictStands,
           BoundAfterStaging, RepairAuthorized, Manager, Falsifier
<1>4. CASE running = Falsifier /\ verdict' = Inconclusive /\ UNCHANGED <<decision, running, step, loop>>
  <2>1. candidate # None
    BY <1>4 DEF IInv, FalsifierIsAsked
  <2>2. Inconclusive \in Verdict /\ Inconclusive.proposal = candidate
        /\ Inconclusive.status = "INCONCLUSIVE"
    BY <2>1, InconclusiveIsVerdict DEF IInv, Inconclusive
  <2>3. QED
    BY <1>1, <1>2, <1>4, <2>1, <2>2
       DEF RunOK, StateTypeOK, ControlTypeOK, FalsifierIsAsked, VerdictStands,
           BoundAfterStaging, RepairAuthorized
<1>5. CASE running' = Manager /\ step' = "tools" /\ UNCHANGED <<verdict, decision>>
  BY <1>1, <1>2, <1>5
     DEF RunOK, StateTypeOK, ControlTypeOK, FalsifierIsAsked, VerdictStands,
         BoundAfterStaging, RepairAuthorized, Manager, Falsifier, Actor
<1>6. QED
  BY <1>3, <1>4, <1>5 DEF Raise

\* A decision that is no repair closes the run.
LEMMA ClosingStep ==
    ASSUME RunOK, running = Manager,
           decision' \in Decision, decision'.outcome # "REPAIR",
           UNCHANGED <<citations, experiments, candidate, verdict, running, memory>>,
           step' \in {"turn", "tools"}
    PROVE  RunOK'
BY DEF RunOK, StateTypeOK, ControlTypeOK, FalsifierIsAsked, VerdictStands,
       BoundAfterStaging, RepairAuthorized, Manager, Falsifier

\* A tool of one actor's registry is never called by the other.
LEMMA CallsAreOwn ==
    ASSUME IInv, NEW t, Called(t)
    PROVE  t \in Tools(running) /\ running \in Actor
BY DEF IInv, TypeOK, OwnTools, Called

LEMMA ManagersTools ==
    \A a \in Actor, t \in {"submit_repair", "finish_no_change", "request_human"} :
        t \in Tools(a) => a = Manager
BY DEF Tools, ReadTools, Actor, Manager, Falsifier

LEMMA FalsifiersTool ==
    \A a \in Actor : "report_falsification" \in Tools(a) => a = Falsifier
BY DEF Tools, ReadTools, Actor, Manager, Falsifier

LEMMA TurnStepOK ==
    ASSUME IInv, decision = None, TurnStep
    PROVE  RunOK'
<1>1. RunOK
  BY RunOKNow
<1>2. CASE PreflightStops \/ NoToolOffered \/ ModelOverruns \/ ModelFails
  BY <1>2, RaiseStep DEF PreflightStops, NoToolOffered, ModelOverruns, ModelFails
<1>3. CASE AskModel
  BY <1>1, <1>3, QuietStep DEF AskModel, RunOK, ControlTypeOK
<1>4. CASE EndTurn
  <2>1. /\ UNCHANGED <<citations, experiments, candidate, running, memory>>
        /\ step' = "turn"
    BY <1>4 DEF EndTurn
  <2>2. CASE UNCHANGED <<verdict, decision>>
    BY <1>1, <2>1, <2>2, QuietStep DEF stateVars, RunOK, ControlTypeOK
  <2>3. CASE /\ running = Manager
             /\ decision' \in {Abstain("REPAIR_REJECTED"), Abstain("SAFETY_LIMIT_REACHED")}
             /\ UNCHANGED verdict
    <3>1. decision' \in Decision /\ decision'.outcome # "REPAIR"
      BY <2>3, AbstentionsAreDecisions DEF IInv, Abstain
    <3>2. QED
      BY <1>1, <2>1, <2>3, <3>1, ClosingStep
  <2>4. CASE running # Manager /\ verdict' = Inconclusive /\ UNCHANGED decision
    <3>1. candidate # None
      BY <2>4 DEF IInv, FalsifierIsAsked, TypeOK, Actor
    <3>2. /\ Inconclusive \in Verdict
          /\ Inconclusive.proposal = candidate
          /\ Inconclusive.status = "INCONCLUSIVE"
      BY <3>1, InconclusiveIsVerdict DEF IInv, Inconclusive
    <3>3. QED
      BY <1>1, <2>1, <2>4, <3>1, <3>2
         DEF RunOK, StateTypeOK, ControlTypeOK, FalsifierIsAsked, VerdictStands,
             BoundAfterStaging, RepairAuthorized
  <2>5. QED
    BY <1>4, <2>2, <2>3, <2>4 DEF EndTurn
<1>5. QED
  BY <1>2, <1>3, <1>4 DEF TurnStep

LEMMA EvidenceStepOK ==
    ASSUME IInv, decision = None, EvidenceStep
    PROVE  RunOK'
<1>1. RunOK
  BY RunOKNow
<1>2. CASE Read
  <2>1. citations' \in Nat
    BY <1>1, <1>2, RunAssumption DEF Read, RunOK, StateTypeOK
  <2>2. QED
    BY <1>1, <1>2, <2>1
       DEF Read, RunOK, StateTypeOK, ControlTypeOK, FalsifierIsAsked, VerdictStands,
           BoundAfterStaging, RepairAuthorized
<1>3. CASE InspectDependencies \/ CachedRead \/ RunExperimentFails
  BY <1>1, <1>3, QuietStep
     DEF InspectDependencies, CachedRead, RunExperimentFails, RunOK, ControlTypeOK
<1>4. CASE RunExperiment
  <2>1. PICK d \in Design, o \in Proposal \cup {None}, b \in {None, candidate},
             c \in Comparison :
          experiments' = experiments \cup {[actor |-> running, design |-> d,
                                            overrides |-> o, bound |-> b,
                                            comparisons |-> c]}
    BY <1>4 DEF RunExperiment
  <2>2. DEFINE e == [actor |-> running, design |-> d, overrides |-> o,
                     bound |-> b, comparisons |-> c]
  <2>3. e \in Experiment /\ (candidate = None => e.bound = None)
    BY <1>1 DEF RunOK, StateTypeOK, ControlTypeOK, Experiment
  <2>4. memory' \in Memory
    BY <1>1, <1>4, MemoryCounts DEF RunExperiment, RunOK, ControlTypeOK
  <2>5. UNCHANGED <<citations, candidate, verdict, decision, running, step>>
    BY <1>4 DEF RunExperiment
  <2>6. QED
    BY <1>1, <2>1, <2>3, <2>4, <2>5
       DEF RunOK, StateTypeOK, ControlTypeOK, FalsifierIsAsked, VerdictStands,
           BoundAfterStaging, RepairAuthorized
<1>5. QED
  BY <1>2, <1>3, <1>4 DEF EvidenceStep

\* A submitted repair is the staged candidate, on the evidence it needs.
LEMMA RepairIsDecision ==
    ASSUME IInv, SubmitRepair
    PROVE  /\ decision' \in Decision
           /\ decision'.outcome = "REPAIR"
           /\ decision'.proposal = candidate
           /\ candidate # None
           /\ decision'.cited # {}
           /\ \A e \in decision'.cited :
                 /\ e \in experiments
                 /\ e.actor = IF UseFalsifier THEN Falsifier ELSE Manager
                 /\ e.bound = candidate
                 /\ e.comparisons = "pass"
<1>1. RepairSupported /\ candidate # None
  BY DEF SubmitRepair, RepairSupported
<1>2. DEFINE cited == IF UseFalsifier THEN verdict.cited ELSE Validations
<1>3. decision' = [outcome |-> "REPAIR", proposal |-> candidate, reason |-> None,
                   cited |-> cited]
  BY DEF SubmitRepair
<1>4. /\ cited # {}
      /\ \A e \in cited : /\ e \in experiments
                          /\ e.actor = IF UseFalsifier THEN Falsifier ELSE Manager
                          /\ e.bound = candidate
                          /\ e.comparisons = "pass"
  <2>1. CASE UseFalsifier
    BY <1>1, <2>1 DEF RepairSupported, IInv, VerdictStands
  <2>2. CASE ~UseFalsifier
    BY <1>1, <2>2 DEF RepairSupported, Validations, ExperimentsOf
  <2>3. QED
    BY <2>1, <2>2
<1>5. cited \in SUBSET Experiment
  BY <1>4 DEF IInv, TypeOK
<1>6. decision' \in Decision
  BY <1>1, <1>3, <1>5 DEF Decision, IInv, TypeOK
<1>7. QED
  BY <1>1, <1>3, <1>4, <1>6

LEMMA NoChangeIsDecision ==
    ASSUME IInv, FinishNoChange
    PROVE  decision' \in Decision /\ decision'.outcome = "NO_CHANGE"
<1>1. PICK cited \in SUBSET experiments :
        decision' = [outcome |-> "NO_CHANGE", proposal |-> None, cited |-> cited,
                     reason |-> None]
  BY DEF FinishNoChange
<1>2. QED
  BY <1>1 DEF Decision, IInv, TypeOK

LEMMA DecisionStepOK ==
    ASSUME IInv, decision = None, DecisionStep
    PROVE  RunOK'
<1>1. RunOK
  BY RunOKNow
<1>2. CASE \E p \in Proposal : StageCandidate(p)
  <2>1. PICK p \in Proposal : StageCandidate(p)
    BY <1>2
  <2>2. candidate' = p /\ p # None /\ verdict' = None
    BY <2>1, RunAssumption DEF StageCandidate, Restage
  <2>3. memory' \in Memory
    BY <1>1, <2>1, MemoryCounts DEF StageCandidate, RunOK, ControlTypeOK
  <2>4. UNCHANGED <<citations, experiments, decision, running, step>>
    BY <2>1 DEF StageCandidate
  <2>5. QED
    BY <1>1, <2>2, <2>3, <2>4
       DEF RunOK, StateTypeOK, ControlTypeOK, FalsifierIsAsked, VerdictStands,
           BoundAfterStaging, RepairAuthorized
<1>3. CASE StageCandidateFails
  <2>1. memory' \in Memory
    BY <1>1, <1>3, MemoryCounts DEF StageCandidateFails, RunOK, ControlTypeOK
  <2>2. QED
    BY <1>1, <1>3, <2>1, QuietStep DEF StageCandidateFails, RunOK, ControlTypeOK
<1>4. CASE FalsifyCandidate
  BY <1>1, <1>4
     DEF FalsifyCandidate, RunOK, StateTypeOK, ControlTypeOK, FalsifierIsAsked,
         VerdictStands, BoundAfterStaging, RepairAuthorized, Actor
<1>5. CASE SubmitRepair
  <2>1. running = Manager
    BY <1>5, CallsAreOwn, ManagersTools DEF SubmitRepair
  <2>2. decision' \in Decision
    BY <1>5, RepairIsDecision
  <2>3. UNCHANGED <<citations, experiments, candidate, verdict, running,
                    step, memory>>
    BY <1>5 DEF SubmitRepair
  <2>4. RepairAuthorized'
    BY <1>5, <2>3, RepairIsDecision DEF RepairAuthorized
  <2>5. QED
    BY <1>1, <2>1, <2>2, <2>3, <2>4
       DEF RunOK, StateTypeOK, ControlTypeOK, FalsifierIsAsked, VerdictStands,
           BoundAfterStaging, Manager, Falsifier
<1>6. CASE FinishNoChange
  <2>1. running = Manager
    BY <1>6, CallsAreOwn, ManagersTools DEF FinishNoChange
  <2>2. decision' \in Decision /\ decision'.outcome # "REPAIR"
    BY <1>6, NoChangeIsDecision
  <2>3. QED
    BY <1>1, <1>6, <2>1, <2>2, ClosingStep DEF FinishNoChange, RunOK, ControlTypeOK
<1>7. CASE RequestHuman
  <2>1. running = Manager
    BY <1>7, CallsAreOwn, ManagersTools DEF RequestHuman
  <2>2. decision' \in Decision /\ decision'.outcome # "REPAIR"
    BY <1>7, AbstentionsAreDecisions DEF RequestHuman, IInv, Abstain
  <2>3. QED
    BY <1>1, <1>7, <2>1, <2>2, ClosingStep DEF RequestHuman, RunOK, ControlTypeOK
<1>8. CASE \E t \in Refusable : CallRefused(t)
  <2>1. memory' \in Memory
    BY <1>1, <1>8, MemoryCounts DEF CallRefused, RunOK, ControlTypeOK
  <2>2. QED
    BY <1>1, <1>8, <2>1, QuietStep DEF CallRefused, RunOK, ControlTypeOK
<1>9. CASE ToolBudgetStops
  BY <1>9, RaiseStep DEF ToolBudgetStops
<1>10. QED
  BY <1>2, <1>3, <1>4, <1>5, <1>6, <1>7, <1>8, <1>9 DEF DecisionStep

LEMMA FalsifierStepOK ==
    ASSUME IInv, decision = None, FalsifierStep
    PROVE  RunOK'
<1>1. RunOK
  BY RunOKNow
<1>2. ASSUME NEW s \in {"BROKEN", "SURVIVED", "INCONCLUSIVE"}, ReportFalsification(s)
      PROVE  RunOK'
  <2>1. running = Falsifier /\ candidate # None /\ candidate \in Proposal
    BY <1>1, <1>2, CallsAreOwn, FalsifiersTool
       DEF ReportFalsification, RunOK, StateTypeOK, FalsifierIsAsked
  <2>2. /\ UNCHANGED <<citations, experiments, candidate, decision, running, step, memory>>
    BY <1>1, <1>2, <2>1 DEF ReportFalsification, RunOK, StateTypeOK
  <2>3. CASE verdict' = Inconclusive
    <3>1. /\ Inconclusive \in Verdict
          /\ Inconclusive.proposal = candidate
          /\ Inconclusive.status = "INCONCLUSIVE"
      BY <2>1, InconclusiveIsVerdict DEF IInv, Inconclusive
    <3>2. QED
      BY <1>1, <2>1, <2>2, <2>3, <3>1
         DEF RunOK, StateTypeOK, ControlTypeOK, FalsifierIsAsked, VerdictStands,
             BoundAfterStaging, RepairAuthorized
  <2>4. CASE s # "INCONCLUSIVE"
    <3>1. PICK cited \in SUBSET CandidateTests :
            /\ Conclusive(s, cited)
            /\ verdict' = [status |-> s, proposal |-> candidate, cited |-> cited]
      BY <1>2, <2>4 DEF ReportFalsification
    <3>2. \A e \in cited : /\ e \in experiments
                           /\ e.actor = Falsifier
                           /\ e.bound = candidate
      BY <3>1 DEF CandidateTests, ExperimentsOf
    <3>3. verdict' \in Verdict
      BY <1>1, <2>1, <3>1, <3>2 DEF Verdict, RunOK, StateTypeOK
    <3>4. VerdictStands'
      BY <2>1, <2>2, <3>1, <3>2 DEF VerdictStands, Conclusive
    <3>5. QED
      BY <1>1, <2>1, <2>2, <3>3, <3>4
         DEF RunOK, StateTypeOK, ControlTypeOK, FalsifierIsAsked,
             BoundAfterStaging, RepairAuthorized
  <2>5. QED
    BY <1>2, <2>3, <2>4 DEF ReportFalsification
<1>3. CASE FalsifierReturns
  <2>1. decision' = decision \/ decision' = Abstain("FALSIFIER_INCONCLUSIVE")
    BY <1>3 DEF FalsifierReturns
  <2>2. decision' \in Decision \cup {None}
    BY <1>1, <2>1, AbstentionsAreDecisions DEF IInv, RunOK, StateTypeOK
  <2>3. decision' # None => decision'.outcome = "ABSTAIN"
    BY <2>1 DEF Abstain
  <2>4. /\ UNCHANGED <<citations, experiments, candidate, verdict>>
        /\ running' = Manager /\ step' = "tools"
    BY <1>3 DEF FalsifierReturns
  <2>5. memory' \in Memory
    BY <1>1, <1>3, MemoryCounts DEF FalsifierReturns, RunOK, ControlTypeOK
  <2>6. QED
    BY <1>1, <2>2, <2>3, <2>4, <2>5
       DEF RunOK, StateTypeOK, ControlTypeOK, FalsifierIsAsked, VerdictStands,
           BoundAfterStaging, RepairAuthorized, Actor, Manager, Falsifier
<1>4. CASE FalsifierUnrecorded
  <2>1. UNCHANGED stateVars /\ running' = Manager /\ step' = "tools"
    BY <1>4 DEF FalsifierUnrecorded
  <2>2. memory' \in Memory
    BY <1>1, <1>4, MemoryCounts DEF FalsifierUnrecorded, RunOK, ControlTypeOK
  <2>3. QED
    BY <1>1, <2>1, <2>2
       DEF RunOK, StateTypeOK, ControlTypeOK, FalsifierIsAsked, VerdictStands,
           BoundAfterStaging, RepairAuthorized, Actor, Manager, Falsifier, stateVars
<1>5. QED
  BY <1>2, <1>3, <1>4 DEF FalsifierStep

---------------------------------------------------------------------------
(* The invariant is inductive. *)

LEMMA InitEstablishes == Init => IInv
<1>1. SUFFICES ASSUME Init
               PROVE  IInv
  OBVIOUS
<1>2. BudgetTypeOK /\ WithinLimits
  BY <1>1, LimitAssumption DEF Init, BudgetInit, BudgetTypeOK, WithinLimits
<1>3. loop \in [Actor -> Loop] /\ \A a \in Actor : loop[a].offered = {}
  BY <1>1, FreshLoopIsLoop DEF Init, FreshLoop
<1>4. StateTypeOK /\ LoopTypeOK
  BY <1>1, <1>3 DEF Init, StateTypeOK, LoopTypeOK, Actor
<1>5. FalsifierIsAsked /\ VerdictStands /\ BoundAfterStaging /\ RepairAuthorized
  BY <1>1 DEF Init, FalsifierIsAsked, VerdictStands, BoundAfterStaging,
              RepairAuthorized, Manager, Falsifier
<1>6. QED
  BY <1>2, <1>3, <1>4, <1>5, TypeParts DEF IInv, OwnTools

LEMMA StepKeeps == IInv /\ [Next]_vars => IInv'
<1>1. SUFFICES ASSUME IInv, [Next]_vars
               PROVE  IInv'
  OBVIOUS
<1>2. TypeOK /\ OwnTools
  BY <1>1 DEF IInv
<1>3. CASE Next
  <2>1. (BudgetTypeOK /\ WithinLimits)'
    BY <1>2, <1>3, BudgetStep
  <2>2. LoopsOK'
    BY <1>2, <1>3, LoopStep
  <2>3. RunOK'
    <3>1. CASE Controller
      <4>1. decision = None
        BY <1>1, <3>1, ControllerNeedsOpenRun
      <4>2. QED
        BY <1>1, <3>1, <4>1, TurnStepOK, EvidenceStepOK, DecisionStepOK, FalsifierStepOK
           DEF Controller
    <3>2. CASE Clock
      BY <1>1, <3>2, RunOKNow, QuietStep DEF Clock, stateVars, loopVars, RunOK, ControlTypeOK
    <3>3. QED
      BY <1>3, <3>1, <3>2 DEF Next
  <2>4. (StateTypeOK /\ LoopTypeOK)'
    BY <2>2, <2>3 DEF LoopsOK, RunOK, ControlTypeOK, Memory, LoopTypeOK
  <2>5. TypeOK'
    BY <2>1, <2>4, TypeParts
       DEF TypeOK, StateTypeOK, LoopTypeOK
  <2>6. QED
    BY <2>2, <2>3, <2>5 DEF IInv, LoopsOK, RunOK
<1>4. CASE UNCHANGED vars
  BY <1>1, <1>4 DEF vars, budgetVars, stateVars, loopVars, IInv, TypeOK, BudgetTypeOK,
              WithinLimits, OwnTools, FalsifierIsAsked, VerdictStands,
              BoundAfterStaging, RepairAuthorized
<1>5. QED
  BY <1>1, <1>3, <1>4

LEMMA Invariance == Spec => []IInv
<1>1. Init => IInv
  BY InitEstablishes
<1>2. IInv /\ [Next]_vars => IInv'
  BY StepKeeps
<1>3. QED
  BY <1>1, <1>2, PTL DEF Spec

---------------------------------------------------------------------------
(* The theorems. *)

\* Every reachable state is well-typed, and no counter of the ledger ever
\* passes its limit (AgentBudgetLedger._require_within_limits).
THEOREM TypeCorrect == Spec => []TypeOK
<1>1. IInv => TypeOK
  BY DEF IInv
<1>2. QED
  BY <1>1, Invariance, PTL

\* A run closes with a repair only for the staged candidate, on passing
\* experiments that applied exactly that candidate (_submit_repair).
THEOREM RepairIsAuthorized == Spec => []RepairAuthorized
<1>1. IInv => RepairAuthorized
  BY DEF IInv
<1>2. QED
  BY <1>1, Invariance, PTL

\* After a run is decided neither its state nor its ledger changes: the calls
\* left over of a response are never executed (ToolCallingAgent.run).
THEOREM DecisionIsFinal == Spec => DecisionFinal
<1>1. IInv /\ [Next]_vars => [decision # None => UNCHANGED <<stateVars, usage>>]_vars
  <2>1. SUFFICES ASSUME IInv, [Next]_vars, decision # None
                 PROVE  UNCHANGED <<stateVars, usage>>
    OBVIOUS
  <2>2. CASE Next
    <3>1. Clock
      BY <2>1, <2>2, ControllerNeedsOpenRun DEF Next
    <3>2. QED
      BY <3>1 DEF Clock, Tick
  <2>3. CASE UNCHANGED vars
    BY <2>3 DEF vars, budgetVars
  <2>4. QED
    BY <2>1, <2>2, <2>3
<1>2. QED
  BY <1>1, Invariance, PTL DEF Spec, DecisionFinal

---------------------------------------------------------------------------
(* The run implements AuditAuthority: every step of the program stages,    *)
(* tests, repairs, declines, or is invisible to the specification.         *)

\* A step of the specification or a stutter.
AuthorityStep == [Authority!AuthorityNext]_(Authority!authorityVars)

\* Experiments and verdicts are tests of the staged proposal; while nothing is
\* staged they are invisible.
LEMMA TestImplements ==
    ASSUME IInv, IInv', decision = None, UNCHANGED <<candidate, decision>>
    PROVE  AuthorityStep
<1>1. TestResult' \in Authority!Result
  BY DEF TestResult, Authority!Result
<1>2. CASE candidate # None
  <2>1. Authority!Test(TestResult')
    BY <1>2 DEF Authority!Test
  <2>2. QED
    BY <1>1, <2>1 DEF AuthorityStep, Authority!AuthorityNext
<1>3. CASE candidate = None
  <2>1. verdict = None /\ verdict' = None
    BY <1>3 DEF IInv, VerdictStands
  <2>2. Validations = {} /\ Validations' = {}
    BY <1>3 DEF Validations
  <2>3. UNCHANGED TestResult
    BY <2>1, <2>2 DEF TestResult
  <2>4. QED
    BY <2>3 DEF AuthorityStep, Authority!authorityVars
<1>4. QED
  BY <1>2, <1>3

LEMMA StageImplements ==
    ASSUME IInv, decision = None, NEW p \in Proposal, StageCandidate(p)
    PROVE  AuthorityStep
<1>1. candidate' = p /\ p # None /\ verdict' = None /\ UNCHANGED <<experiments, decision>>
  BY RunAssumption DEF StageCandidate, Restage
<1>2. ~UseFalsifier => Validations' = {}
  <2>1. SUFFICES ASSUME ~UseFalsifier
                 PROVE  \A e \in experiments : e.bound # candidate'
    BY <1>1 DEF Validations, ExperimentsOf
  <2>2. candidate = None
    BY <2>1 DEF StageCandidate
  <2>3. QED
    BY <1>1, <2>2 DEF IInv, BoundAfterStaging
<1>3. TestResult' = "untested"
  BY <1>1, <1>2 DEF TestResult
<1>4. Authority!Stage(p)
  BY <1>1, <1>3 DEF Authority!Stage
<1>5. QED
  BY <1>4 DEF AuthorityStep, Authority!AuthorityNext

LEMMA RepairImplements ==
    ASSUME IInv, decision = None, SubmitRepair
    PROVE  AuthorityStep
<1>1. TestResult = "survived"
  BY DEF SubmitRepair, RepairSupported, TestResult
<1>2. UNCHANGED <<candidate, verdict, experiments>>
  BY DEF SubmitRepair
<1>3. UNCHANGED TestResult
  BY <1>2 DEF TestResult, Validations, ExperimentsOf
<1>4. decision' # None /\ decision'.outcome = "REPAIR"
  BY RepairIsDecision, NoneAssumption
<1>5. Authority!Repair
  BY <1>1, <1>2, <1>3, <1>4 DEF Authority!Repair
<1>6. QED
  BY <1>5 DEF AuthorityStep, Authority!AuthorityNext

\* A decision that is no repair declines.
LEMMA DeclineImplements ==
    ASSUME decision = None, decision' \in Decision,
           decision'.outcome \in {"NO_CHANGE", "ABSTAIN"},
           UNCHANGED <<candidate, verdict, experiments>>
    PROVE  AuthorityStep
<1>1. UNCHANGED TestResult
  BY DEF TestResult, Validations, ExperimentsOf
<1>2. Authority!Decline
  BY <1>1, NoneAssumption DEF Authority!Decline
<1>3. QED
  BY <1>2 DEF AuthorityStep, Authority!AuthorityNext

LEMMA AbstainImplements ==
    ASSUME IInv, decision = None,
           NEW reason \in {"HUMAN_REVIEW", "SAFETY_LIMIT_REACHED", "REPAIR_REJECTED",
                           "FALSIFIER_INCONCLUSIVE", "MODEL_UNAVAILABLE",
                           "RUNTIME_FAILURE"},
           decision' = Abstain(reason),
           UNCHANGED <<candidate, verdict, experiments>>
    PROVE  AuthorityStep
<1>1. decision' \in Decision /\ decision'.outcome = "ABSTAIN"
  BY AbstentionsAreDecisions DEF IInv, Abstain
<1>2. QED
  BY <1>1, DeclineImplements

LEMMA RaiseImplements ==
    ASSUME IInv, IInv', decision = None,
           NEW reason \in {"SAFETY_LIMIT_REACHED", "MODEL_UNAVAILABLE", "RUNTIME_FAILURE"},
           Raise(reason)
    PROVE  AuthorityStep
<1>1. UNCHANGED <<candidate, experiments>>
  BY DEF Raise
<1>2. CASE decision' = Abstain(reason) /\ UNCHANGED verdict
  BY <1>1, <1>2, AbstainImplements
<1>3. CASE UNCHANGED decision
  BY <1>1, <1>3, TestImplements
<1>4. QED
  BY <1>2, <1>3 DEF Raise

LEMMA StepImplements ==
    ASSUME IInv, IInv', [Next]_vars
    PROVE  AuthorityStep
<1>1. CASE Controller
  <2>1. decision = None
    BY <1>1, ControllerNeedsOpenRun
  <2>2. CASE TurnStep
    <3>1. CASE PreflightStops \/ NoToolOffered \/ ModelOverruns \/ ModelFails
      BY <2>1, <3>1, RaiseImplements
         DEF PreflightStops, NoToolOffered, ModelOverruns, ModelFails
    <3>2. CASE AskModel
      BY <2>1, <3>2, TestImplements DEF AskModel, stateVars
    <3>3. CASE EndTurn
      <4>1. UNCHANGED <<candidate, experiments>>
        BY <3>3 DEF EndTurn
      <4>2. CASE UNCHANGED decision
        BY <2>1, <4>1, <4>2, TestImplements
      <4>3. CASE /\ decision' \in {Abstain("REPAIR_REJECTED"),
                                   Abstain("SAFETY_LIMIT_REACHED")}
                 /\ UNCHANGED verdict
        BY <2>1, <4>1, <4>3, AbstainImplements
      <4>4. QED
        BY <3>3, <4>2, <4>3 DEF EndTurn
    <3>4. QED
      BY <2>2, <3>1, <3>2, <3>3 DEF TurnStep
  <2>3. CASE EvidenceStep
    BY <2>1, <2>3, TestImplements
       DEF EvidenceStep, Read, InspectDependencies, CachedRead, RunExperiment,
           RunExperimentFails, stateVars
  <2>4. CASE DecisionStep
    <3>1. CASE \E p \in Proposal : StageCandidate(p)
      BY <2>1, <3>1, StageImplements
    <3>2. CASE StageCandidateFails \/ FalsifyCandidate \/ \E t \in Refusable : CallRefused(t)
      BY <2>1, <3>2, TestImplements
         DEF StageCandidateFails, FalsifyCandidate, CallRefused, stateVars
    <3>3. CASE SubmitRepair
      BY <2>1, <3>3, RepairImplements
    <3>4. CASE FinishNoChange
      BY <2>1, <3>4, NoChangeIsDecision, DeclineImplements DEF FinishNoChange
    <3>5. CASE RequestHuman
      BY <2>1, <3>5, AbstainImplements DEF RequestHuman
    <3>6. CASE ToolBudgetStops
      BY <2>1, <3>6, RaiseImplements DEF ToolBudgetStops
    <3>7. QED
      BY <2>4, <3>1, <3>2, <3>3, <3>4, <3>5, <3>6 DEF DecisionStep
  <2>5. CASE FalsifierStep
    <3>1. CASE \E s \in {"BROKEN", "SURVIVED", "INCONCLUSIVE"} : ReportFalsification(s)
      BY <2>1, <3>1, TestImplements DEF ReportFalsification
    <3>2. CASE FalsifierReturns
      <4>1. UNCHANGED <<candidate, verdict, experiments>>
        BY <3>2 DEF FalsifierReturns
      <4>2. decision' = Abstain("FALSIFIER_INCONCLUSIVE") \/ UNCHANGED decision
        BY <3>2 DEF FalsifierReturns
      <4>3. QED
        BY <2>1, <4>1, <4>2, AbstainImplements, TestImplements
    <3>3. CASE FalsifierUnrecorded
      BY <2>1, <3>3, TestImplements DEF FalsifierUnrecorded, stateVars
    <3>4. QED
      BY <2>5, <3>1, <3>2, <3>3 DEF FalsifierStep
  <2>6. QED
    BY <1>1, <2>2, <2>3, <2>4, <2>5 DEF Controller
<1>2. CASE Clock \/ UNCHANGED vars
  <2>1. UNCHANGED <<candidate, verdict, experiments, decision>>
    BY <1>2 DEF Clock, vars, stateVars
  <2>2. UNCHANGED TestResult
    BY <2>1 DEF TestResult, Validations, ExperimentsOf
  <2>3. QED
    BY <2>1, <2>2 DEF AuthorityStep, Authority!authorityVars
<1>3. QED
  BY <1>1, <1>2 DEF Next

\* The run stages, tests, repairs and declines as AuditAuthority allows: in
\* particular no result of a test outlives the proposal it was a test of.
THEOREM RunImplementsAuthority == Spec => ImplementsAuthority
<1>1. Init => Authority!AuthorityInit
  BY DEF Init, Authority!AuthorityInit, TestResult, Validations
<1>2. IInv /\ IInv' /\ [Next]_vars => AuthorityStep
  BY StepImplements
<1>3. QED
  BY <1>1, <1>2, Invariance, PTL
     DEF Spec, ImplementsAuthority, Authority!AuthoritySpec, AuthorityStep

---------------------------------------------------------------------------
(* The falsifier's loop is confined to its own experiments and verdict. *)

LEMMA ManagersCalls ==
    \A a \in Actor, t \in {"stage_candidate", "falsify_candidate", "submit_repair",
                           "finish_no_change", "request_human"} :
        t \in Tools(a) => a = Manager
BY DEF Tools, ReadTools, Actor, Manager, Falsifier

LEMMA StepConfines ==
    ASSUME IInv, [Next]_vars, running = Falsifier
    PROVE  /\ candidate' = candidate
           /\ ExperimentsOf(Manager)' = ExperimentsOf(Manager)
           /\ decision' = decision \/ decision'.outcome = "ABSTAIN"
<1> DEFINE Confined == /\ candidate' = candidate
                       /\ ExperimentsOf(Manager)' = ExperimentsOf(Manager)
                       /\ decision' = decision \/ decision'.outcome = "ABSTAIN"
<1>1. UNCHANGED <<candidate, experiments, decision>> => Confined
  BY DEF ExperimentsOf
<1>2. running # Manager
  BY DEF Manager, Falsifier
<1>3. ASSUME NEW t \in {"stage_candidate", "falsify_candidate", "submit_repair",
                        "finish_no_change", "request_human"}, Called(t)
      PROVE  FALSE
  BY <1>2, <1>3, CallsAreOwn, ManagersCalls
<1>4. ASSUME NEW reason, Raise(reason)
      PROVE  Confined
  BY <1>1, <1>2, <1>4 DEF Raise
<1>5. CASE TurnStep
  <2>1. CASE EndTurn
    BY <1>1, <1>2, <2>1 DEF EndTurn
  <2>2. CASE AskModel
    BY <1>1, <2>2 DEF AskModel, stateVars
  <2>3. CASE PreflightStops \/ NoToolOffered \/ ModelOverruns \/ ModelFails
    BY <1>4, <2>3 DEF PreflightStops, NoToolOffered, ModelOverruns, ModelFails
  <2>4. QED
    BY <1>5, <2>1, <2>2, <2>3 DEF TurnStep
<1>6. CASE EvidenceStep
  <2>1. CASE RunExperiment
    <3>1. PICK e : experiments' = experiments \cup {e} /\ e.actor = running
      BY <2>1 DEF RunExperiment
    <3>2. ExperimentsOf(Manager)' = ExperimentsOf(Manager)
      BY <1>2, <3>1 DEF ExperimentsOf
    <3>3. UNCHANGED <<candidate, decision>>
      BY <2>1 DEF RunExperiment
    <3>4. QED
      BY <3>2, <3>3
  <2>2. CASE Read \/ InspectDependencies \/ CachedRead \/ RunExperimentFails
    BY <1>1, <2>2 DEF Read, InspectDependencies, CachedRead, RunExperimentFails, stateVars
  <2>3. QED
    BY <1>6, <2>1, <2>2 DEF EvidenceStep
<1>7. CASE DecisionStep
  <2>1. CASE \E t \in Refusable : CallRefused(t)
    BY <1>1, <2>1 DEF CallRefused, stateVars
  <2>2. CASE ToolBudgetStops
    BY <1>4, <2>2 DEF ToolBudgetStops
  <2>3. CASE StageCandidateFails
    BY <1>1, <2>3 DEF StageCandidateFails, stateVars
  <2>4. QED
    BY <1>3, <1>7, <2>1, <2>2, <2>3
       DEF DecisionStep, StageCandidate, FalsifyCandidate, SubmitRepair,
           FinishNoChange, RequestHuman
<1>8. CASE FalsifierStep
  <2>1. CASE \E s \in {"BROKEN", "SURVIVED", "INCONCLUSIVE"} : ReportFalsification(s)
    BY <1>1, <2>1 DEF ReportFalsification
  <2>2. CASE FalsifierReturns
    <3>1. UNCHANGED <<candidate, experiments>>
      BY <2>2 DEF FalsifierReturns
    <3>2. decision' = decision \/ decision' = Abstain("FALSIFIER_INCONCLUSIVE")
      BY <2>2 DEF FalsifierReturns
    <3>3. QED
      BY <3>1, <3>2 DEF ExperimentsOf, Abstain
  <2>3. CASE FalsifierUnrecorded
    BY <1>1, <2>3 DEF FalsifierUnrecorded, stateVars
  <2>4. QED
    BY <1>8, <2>1, <2>2, <2>3 DEF FalsifierStep
<1>9. CASE Clock \/ UNCHANGED vars
  BY <1>1, <1>9 DEF Clock, vars, stateVars
<1>10. QED
  BY <1>5, <1>6, <1>7, <1>8, <1>9 DEF Next, Controller

\* While the falsifier has control the proposal it was asked about stays what
\* it is, the manager's evidence is untouched, and nothing is decided but that
\* the run abstains (the falsifier's registry, FalsifierAgent.run).
THEOREM FalsifierIsConfined == Spec => FalsifierConfined
<1>1. IInv /\ [Next]_vars =>
        [running = Falsifier =>
           /\ candidate' = candidate
           /\ ExperimentsOf(Manager)' = ExperimentsOf(Manager)
           /\ decision' = decision \/ decision'.outcome = "ABSTAIN"]_vars
  BY StepConfines
<1>2. QED
  BY <1>1, Invariance, PTL DEF Spec, FalsifierConfined

---------------------------------------------------------------------------
(* What a step leaves of the manager's loop.                               *)

\* The manager asks its model or ends its turn.
ManagersTurn == running = Manager /\ (AskModel \/ EndTurn)

\* The manager's loop offers what it did, is as final as it was, and has no
\* more calls to execute.
Kept(f) == /\ f[Manager].offered = loop[Manager].offered
           /\ f[Manager].final = loop[Manager].final
           /\ f[Manager].last = loop[Manager].last
           /\ f[Manager].pending \in Nat
           /\ f[Manager].pending <= loop[Manager].pending

LEMMA ManagersLoopStays ==
    ASSUME TypeOK, Next, ~ManagersTurn
    PROVE  Kept(loop')
<1>1. /\ loop \in [Actor -> Loop] /\ running \in Actor
      /\ Manager \in Actor /\ Falsifier \in Actor /\ Manager # Falsifier
      /\ \A a \in Actor : loop[a].pending \in 0 .. Parallel /\ Parallel \in Nat
  BY RunAssumption DEF TypeOK, Loop, Actor, Manager, Falsifier
<1>2. \A t : Called(t) => loop[running].pending > 0
  BY DEF Called
<1>3. Kept(loop)
  BY <1>1 DEF Kept
<1>4. ASSUME loop[running].pending > 0
      PROVE  Kept(Done) /\ Done \in [Actor -> Loop]
  <2>1. Done \in [Actor -> Loop]
    BY <1>4, LoopsStayLoops
  <2>2. \A a \in Actor : /\ Done[a].offered = loop[a].offered
                         /\ Done[a].final = loop[a].final
                         /\ Done[a].last = loop[a].last
    BY <1>1 DEF Done, Loop
  <2>3. Done[running].pending = loop[running].pending - 1
    BY <1>1 DEF Done, Loop
  <2>4. running # Manager => Done[Manager] = loop[Manager]
    BY <1>1 DEF Done
  <2>5. Done[Manager].pending \in Nat /\ Done[Manager].pending <= loop[Manager].pending
    BY <1>1, <1>4, <2>3, <2>4
  <2>6. QED
    BY <1>1, <2>1, <2>2, <2>5 DEF Kept
<1>5. ASSUME NEW f \in [Actor -> Loop], Kept(f), NEW a \in Actor, NEW l \in Loop,
             l.offered = f[a].offered, l.final = f[a].final, l.last = f[a].last,
             l.pending = f[a].pending
      PROVE  Kept([f EXCEPT ![a] = l])
  BY <1>1, <1>5 DEF Kept
<1>6. ASSUME NEW f \in [Actor -> Loop], Kept(f), NEW l
      PROVE  Kept([f EXCEPT ![Falsifier] = l])
  BY <1>1, <1>6 DEF Kept
<1>7. \A reason : Raise(reason) => Kept(loop')
  BY <1>1, <1>3, <1>6 DEF Raise
<1>8. CASE PreflightStops \/ NoToolOffered \/ ModelOverruns \/ ModelFails \/ ToolBudgetStops
  BY <1>7, <1>8 DEF PreflightStops, NoToolOffered, ModelOverruns, ModelFails,
                    ToolBudgetStops
<1>9. CASE AskModel \/ EndTurn
  <2>1. running = Falsifier
    BY <1>1, <1>9 DEF ManagersTurn, Actor
  <2>2. loop'[Manager] = loop[Manager]
    BY <1>1, <1>9, <2>1 DEF AskModel, EndTurn
  <2>3. QED
    BY <1>3, <2>2 DEF Kept
<1>10. CASE Read \/ InspectDependencies \/ CachedRead \/ RunExperiment \/ RunExperimentFails
  <2>1. loop[running].pending > 0
    BY <1>2, <1>10 DEF Read, InspectDependencies, CachedRead, RunExperiment,
                       RunExperimentFails
  <2>2. Kept(Done) /\ Done \in [Actor -> Loop]
    BY <1>4, <2>1
  <2>3. \A a \in Actor : /\ loop'[a].offered = Done[a].offered
                         /\ loop'[a].final = Done[a].final
                         /\ loop'[a].last = Done[a].last
                         /\ loop'[a].pending = Done[a].pending
    <3>1. PICK f \in [Actor -> Loop] : f = Done
      BY <2>2
    <3>2. ASSUME NEW t, NEW a \in Actor
          PROVE  /\ Cached(t)[a].offered = f[a].offered
                 /\ Cached(t)[a].final = f[a].final
                 /\ Cached(t)[a].last = f[a].last
                 /\ Cached(t)[a].pending = f[a].pending
      BY <1>1, <3>1 DEF Cached, Loop
    <3>3. \A t \in {"read", "inspect_dependencies"} : Cached(t) \in [Actor -> Loop]
      BY <2>1, LoopsStayLoops
    <3>4. CASE Read
      BY <3>1, <3>2, <3>4 DEF Read
    <3>5. CASE InspectDependencies
      <4>1. PICK c \in [Actor -> Loop] : c = Cached("inspect_dependencies")
        BY <3>3
      <4>2. PICK named \in BOOLEAN :
              loop' = f \/ loop' = [c EXCEPT ![running].recovery = @ /\ ~named]
        BY <3>1, <3>5, <4>1 DEF InspectDependencies
      <4>3. QED
        BY <1>1, <3>1, <3>2, <4>1, <4>2 DEF Loop
    <3>6. CASE CachedRead
      <4>1. PICK t \in {"read", "inspect_dependencies"}, named \in BOOLEAN :
              loop' = [f EXCEPT ![running].recovery =
                                  @ /\ ~(t = "inspect_dependencies" /\ named)]
        BY <3>1, <3>6, Zenon DEF CachedRead
      <4>2. DEFINE l == [f[running] EXCEPT
                            !.recovery = @ /\ ~(t = "inspect_dependencies" /\ named)]
      <4>3. loop' = [f EXCEPT ![running] = l]
        BY <4>1
      <4>4. f[running] \in Loop
        BY <1>1
      <4>5. /\ l.offered = f[running].offered /\ l.final = f[running].final
            /\ l.last = f[running].last /\ l.pending = f[running].pending
        BY <4>4 DEF Loop
      <4> HIDE DEF l
      <4>6. QED
        BY <1>1, <3>1, <4>3, <4>5
    <3>7. CASE RunExperiment \/ RunExperimentFails
      <4>1. PICK recovery \in BOOLEAN :
              loop' = [f EXCEPT ![running].attempts = @ + 1, ![running].recovery = recovery]
        BY <3>1, <3>7 DEF RunExperiment, RunExperimentFails
      <4>2. QED
        BY <1>1, <3>1, <4>1 DEF Loop
    <3>8. QED
      BY <1>10, <3>4, <3>5, <3>6, <3>7
  <2>4. QED
    BY <1>1, <2>2, <2>3 DEF Kept
<1>11. CASE DecisionStep /\ ~ToolBudgetStops
  <2>1. /\ loop[running].pending > 0
        /\ loop' = Done \/ loop' = [Done EXCEPT ![Falsifier] = FreshLoop]
    BY <1>2, <1>11 DEF DecisionStep, StageCandidate, StageCandidateFails, FalsifyCandidate,
                       SubmitRepair, FinishNoChange, RequestHuman, CallRefused
  <2>2. QED
    BY <1>4, <1>6, <2>1
<1>12. CASE FalsifierStep
  <2>1. \/ loop[running].pending > 0 /\ loop' = Done
        \/ loop' = [loop EXCEPT ![Falsifier] = FreshLoop]
    BY <1>2, <1>12 DEF FalsifierStep, ReportFalsification, FalsifierReturns,
         FalsifierUnrecorded
  <2>2. QED
    BY <1>1, <1>3, <1>4, <1>6, <2>1
<1>13. CASE Clock
  BY <1>3, <1>13 DEF Clock, loopVars, Kept
<1>14. QED
  BY <1>8, <1>9, <1>10, <1>11, <1>12, <1>13
     DEF Next, Controller, TurnStep, EvidenceStep, DecisionStep

---------------------------------------------------------------------------
(* The manager's last turn. *)

LEMMA MinOfThree ==
    ASSUME NEW a \in Int, NEW b \in Int, NEW c \in Int
    PROVE  Min({a, b, c}) \in Int /\ Min({a, b, c}) <= a
BY DEF Min

\* Only the manager's own model calls are its turns.
LEMMA TurnCharges ==
    /\ ToolCall["managerTurns"] = 0
    /\ \A n \in Nat : Plus(ToolCall, Executions(n))["managerTurns"] = 0
    /\ \A input, output, cost, retries \in Nat :
          /\ ModelCall(Falsifier, input, output, cost, retries)["managerTurns"] = 0
          /\ ModelCall(Manager, input, output, cost, retries)["managerTurns"] = 1
BY DEF ToolCall, Executions, Plus, ModelCall, NoCharge, Resource, TurnResource, Manager, Falsifier

LEMMA TurnsAfter ==
    ASSUME BudgetTypeOK, NEW charge, Charge(charge)
    PROVE  usage'["managerTurns"] = usage["managerTurns"] + charge["managerTurns"]
BY DEF Charge, Plus, Resource

\* A turn of the manager is charged when it asks its model, or fails to.
LEMMA TurnsStay ==
    ASSUME TypeOK, Next, running = Manager => ~AskModel /\ ~ModelFails
    PROVE  usage'["managerTurns"] = usage["managerTurns"]
<1>1. BudgetTypeOK /\ usage["managerTurns"] \in Nat /\ running \in Actor
  BY DEF TypeOK, BudgetTypeOK, Resource
<1>2. UNCHANGED usage => usage'["managerTurns"] = usage["managerTurns"]
  OBVIOUS
<1>3. ASSUME NEW charge, Charge(charge), charge["managerTurns"] = 0
      PROVE  usage'["managerTurns"] = usage["managerTurns"]
  BY <1>1, <1>3, TurnsAfter
<1>4. Charge(ToolCall) => usage'["managerTurns"] = usage["managerTurns"]
  BY <1>3, TurnCharges
<1>5. \A n \in Nat : Charge(Plus(ToolCall, Executions(n)))
                      => usage'["managerTurns"] = usage["managerTurns"]
  BY <1>3, TurnCharges
<1>6. CASE TurnStep
  <2>1. CASE AskModel \/ ModelFails
    <3>1. running = Falsifier
      BY <1>1, <2>1 DEF Actor
    <3>2. PICK input, output, cost, retries \in Nat :
             Charge(ModelCall(Falsifier, input, output, cost, retries))
      <4>1. CASE AskModel
        <5>1. PICK c \in Charges, retries \in RetriesAllowed :
                Charge(ModelCall(Falsifier, c.input, c.output, c.cost, retries))
          BY <3>1, <4>1 DEF AskModel
        <5>2. c.input \in Nat /\ c.output \in Nat /\ c.cost \in Nat /\ retries \in Nat
          BY RunAssumption DEF RetriesAllowed
        <5>3. QED
          BY <5>1, <5>2
      <4>2. CASE ModelFails
        <5>1. PICK retries \in RetriesAllowed :
                Charge(ModelCall(Falsifier, 0, 0, 0, retries))
          BY <3>1, <4>2 DEF ModelFails
        <5>2. retries \in Nat
          BY DEF RetriesAllowed
        <5>3. QED
          BY <5>1, <5>2
      <4>3. QED
        BY <2>1, <4>1, <4>2
    <3>3. QED
      BY <1>3, <3>2, TurnCharges
  <2>2. CASE PreflightStops \/ NoToolOffered \/ ModelOverruns \/ EndTurn
    BY <1>2, <2>2 DEF PreflightStops, NoToolOffered, ModelOverruns, EndTurn, budgetVars
  <2>3. QED
    BY <1>6, <2>1, <2>2 DEF TurnStep
<1>7. CASE EvidenceStep
  BY <1>2, <1>4, <1>5, <1>7 DEF EvidenceStep, Read, InspectDependencies, CachedRead,
                              RunExperiment, RunExperimentFails, budgetVars
<1>8. CASE DecisionStep
  <2>1. ASSUME NEW n \in 0 .. Cardinality(Expecting),
               Charge(Plus(ToolCall, Executions(n)))
        PROVE  usage'["managerTurns"] = usage["managerTurns"]
    BY <1>5, <2>1
  <2>2. CASE \E p \in Proposal : StageCandidate(p)
    BY <2>1, <2>2 DEF StageCandidate
  <2>3. CASE StageCandidateFails
    BY <2>1, <2>3 DEF StageCandidateFails
  <2>4. CASE FalsifyCandidate \/ SubmitRepair \/ FinishNoChange \/ RequestHuman
    BY <1>4, <2>4 DEF FalsifyCandidate, SubmitRepair, FinishNoChange, RequestHuman
  <2>5. CASE \E t \in Refusable : CallRefused(t)
    BY <1>4, <2>5 DEF CallRefused
  <2>6. CASE ToolBudgetStops
    BY <1>2, <2>6 DEF ToolBudgetStops, budgetVars
  <2>7. QED
    BY <1>8, <2>2, <2>3, <2>4, <2>5, <2>6 DEF DecisionStep
<1>9. CASE FalsifierStep
  BY <1>2, <1>4, <1>9 DEF FalsifierStep, ReportFalsification, FalsifierReturns,
                        FalsifierUnrecorded, budgetVars
<1>10. CASE Clock
  BY <1>2, <1>10 DEF Clock, Tick
<1>11. QED
  BY <1>6, <1>7, <1>8, <1>9, <1>10 DEF Next, Controller

\* While a manager whose turns are used up has not decided, it is in its last
\* turn and knows it; the falsifier may have control meanwhile.
LastTurnIsMarked ==
    /\ Limit["managerTurns"] > 0
    /\ decision = None
    /\ Remaining("managerTurns") <= 0
    => /\ running = Manager => step = "tools"
       /\ loop[Manager].final
       /\ loop[Manager].last

LEMMA MarkStays ==
    ASSUME IInv, LastTurnIsMarked, Next, ~ManagersTurn, decision = None
    PROVE  LastTurnIsMarked'
<1>1. TypeOK /\ running \in Actor /\ Manager # Falsifier
  BY DEF IInv, TypeOK, Manager, Falsifier
<1>2. Kept(loop')
  BY <1>1, ManagersLoopStays
<1>3. CASE running = Manager /\ ModelFails
  BY <1>1, <1>3, AbstentionsAreDecisions, NoneAssumption
     DEF ModelFails, Raise, LastTurnIsMarked
<1>4. CASE running = Manager => ~ModelFails
  <2>1. Remaining("managerTurns")' = Remaining("managerTurns")
    BY <1>1, <1>4, TurnsStay DEF ManagersTurn, Remaining
  <2>2. running' = Manager /\ step' = "turn" => running = Manager /\ step = "turn"
    <3>1. \A reason : Raise(reason) => (running' = Manager /\ step' = "turn"
                                          => running = Manager /\ step = "turn")
      BY <1>1 DEF Raise
    <3>2. CASE TurnStep
      BY <1>1, <3>1, <3>2 DEF TurnStep, PreflightStops, NoToolOffered, AskModel, ModelOverruns,
                        ModelFails, EndTurn, ManagersTurn
    <3>3. CASE EvidenceStep
      BY <3>3 DEF EvidenceStep, Read, InspectDependencies, CachedRead, RunExperiment,
                  RunExperimentFails
    <3>4. CASE DecisionStep
      BY <1>1, <3>1, <3>4
         DEF DecisionStep, StageCandidate, StageCandidateFails, FalsifyCandidate,
             SubmitRepair, FinishNoChange, RequestHuman, CallRefused, ToolBudgetStops
    <3>5. CASE FalsifierStep
      BY <3>5 DEF FalsifierStep, ReportFalsification, FalsifierReturns,
         FalsifierUnrecorded
    <3>6. CASE Clock
      BY <3>6 DEF Clock, loopVars
    <3>7. QED
      BY <3>2, <3>3, <3>4, <3>5, <3>6 DEF Next, Controller
  <2>3. step' \in {"turn", "tools"}
    BY StepKeeps DEF IInv, TypeOK
  <2>4. QED
    BY <1>2, <2>1, <2>2, <2>3 DEF LastTurnIsMarked, Kept
<1>5. QED
  BY <1>3, <1>4

LEMMA ManagersTurnMarks ==
    ASSUME IInv, LastTurnIsMarked, ManagersTurn, decision = None
    PROVE  LastTurnIsMarked'
<1>1. /\ running = Manager /\ loop \in [Actor -> Loop] /\ Manager \in Actor
      /\ usage \in [Resource -> Nat] /\ BudgetTypeOK /\ WithinLimits
  BY DEF ManagersTurn, IInv, TypeOK, BudgetTypeOK, Actor
<1>2. CASE EndTurn
  <2>1. Remaining("managerTurns")' = Remaining("managerTurns")
    BY <1>2 DEF EndTurn, budgetVars, Remaining
  <2>2. CASE loop[Manager].final /\ loop[Manager].last
    <3>1. decision' # None
      BY <1>1, <1>2, <2>2, AbstentionsAreDecisions, NoneAssumption DEF EndTurn, IInv
    <3>2. QED
      BY <3>1 DEF LastTurnIsMarked
  <2>3. CASE ~(loop[Manager].final /\ loop[Manager].last)
    BY <2>1, <2>3 DEF LastTurnIsMarked
  <2>4. QED
    BY <2>2, <2>3
<1>3. CASE AskModel
  <2>1. PICK c \in Charges, retries \in RetriesAllowed :
          Charge(ModelCall(Manager, c.input, c.output, c.cost, retries))
    BY <1>1, <1>3 DEF AskModel
  <2>2. c.input \in Nat /\ c.output \in Nat /\ c.cost \in Nat /\ retries \in Nat
    BY RunAssumption DEF RetriesAllowed
  <2>3. usage'["managerTurns"] = usage["managerTurns"] + 1
    <3>1. PICK charge :
            charge = ModelCall(Manager, c.input, c.output, c.cost, retries)
      OBVIOUS
    <3>2. charge["managerTurns"] = 1
      BY <2>2, <3>1, TurnCharges
    <3>3. QED
      BY <1>1, <2>1, <3>1, <3>2, TurnsAfter
  <2>4. PICK turns \in Int, calls \in Int, tools \in Int :
          /\ turns = Remaining("managerTurns") /\ calls = Remaining("modelCalls")
          /\ tools = Remaining("toolCalls")
    BY <1>1, LimitAssumption DEF Remaining, Resource
  <2>5. TurnsRemaining(Manager) \in Int /\ TurnsRemaining(Manager) <= turns
    BY <2>4, MinOfThree, Zenon DEF TurnsRemaining, TurnResource
  <2>6. Remaining("managerTurns")' = turns - 1
    BY <1>1, <2>3, <2>4, LimitAssumption DEF Remaining, Resource
  <2>7. turns - 1 <= 0 => FinalTurn(Manager) /\ LastTurn(Manager)
    BY <2>5 DEF FinalTurn, LastTurn, TerminalTurnReserve
  <2>8. /\ loop'[Manager].final = FinalTurn(Manager)
        /\ loop'[Manager].last = LastTurn(Manager)
        /\ step' = "tools"
    BY <1>1, <1>3 DEF AskModel, Loop
  <2>9. QED
    BY <2>6, <2>7, <2>8 DEF LastTurnIsMarked
<1>4. QED
  BY <1>2, <1>3 DEF ManagersTurn

LEMMA MarkStep ==
    ASSUME IInv, LastTurnIsMarked, [Next]_vars
    PROVE  LastTurnIsMarked'
<1>1. CASE Controller
  BY <1>1, ControllerNeedsOpenRun, MarkStays, ManagersTurnMarks DEF Next
<1>2. CASE Clock \/ UNCHANGED vars
  BY <1>2 DEF Clock, Tick, vars, budgetVars, stateVars, loopVars, LastTurnIsMarked, Remaining
<1>3. QED
  BY <1>1, <1>2 DEF Next

\* The turn that uses up the manager's limit is its last, and closes the run:
\* the manager never waits to ask with no turn left (ToolCallingAgent.run).
THEOREM LastTurnAlwaysDecides == Spec => []LastTurnDecides
<1>1. Init => LastTurnIsMarked
  BY LimitAssumption DEF Init, BudgetInit, LastTurnIsMarked, Remaining, Resource
<1>2. LastTurnIsMarked /\ IInv => LastTurnDecides
  BY LimitAssumption DEF LastTurnIsMarked, LastTurnDecides, IInv, TypeOK, BudgetTypeOK, Remaining, Resource
<1>3. QED
  BY <1>1, <1>2, MarkStep, Invariance, PTL DEF Spec

---------------------------------------------------------------------------
(* An inconclusive verdict ends the run.                                   *)

Recorded == IsFiniteSet(experiments)

\* The evidence only grows, so that what was too long a list stays one; and a
\* verdict that is new leaves the falsifier, or takes control to it.
LEMMA StopsStay ==
    ASSUME TypeOK, Recorded, InconclusiveStops,
           citations' \in Nat, citations <= citations',
           Recorded', experiments \subseteq experiments',
           \/ /\ decision = None /\ running = Manager
              /\ verdict' = verdict /\ memory'.unrecorded = memory.unrecorded
           \/ verdict' = None \/ running' = Falsifier \/ decision' # None
    PROVE  InconclusiveStops'
<1>1. Cardinality(experiments) \in Nat /\ Cardinality(experiments') \in Nat
      /\ Cardinality(experiments) <= Cardinality(experiments')
  BY FS_Subset, FS_CardinalityType DEF Recorded
<1>2. citations \in Nat /\ EvidenceLimit \in Nat
  BY RunAssumption DEF TypeOK
<1>3. CASE /\ decision = None /\ running = Manager
           /\ verdict' = verdict /\ memory'.unrecorded = memory.unrecorded
  BY <1>1, <1>2, <1>3 DEF InconclusiveStops
<1>4. CASE verdict' = None \/ running' = Falsifier \/ decision' # None
  BY <1>4 DEF InconclusiveStops, Manager, Falsifier
<1>5. QED
  BY <1>3, <1>4

LEMMA SameEvidence ==
    ASSUME TypeOK, Recorded, InconclusiveStops, UNCHANGED <<citations, experiments>>,
           \/ /\ decision = None /\ running = Manager
              /\ verdict' = verdict /\ memory'.unrecorded = memory.unrecorded
           \/ verdict' = None \/ running' = Falsifier \/ decision' # None
    PROVE  Recorded' /\ InconclusiveStops'
<1>1. /\ citations' \in Nat /\ citations <= citations'
      /\ Recorded' /\ experiments \subseteq experiments'
  BY DEF TypeOK, Recorded
<1>2. QED
  BY <1>1, StopsStay

LEMMA RaiseStops ==
    ASSUME IInv, Recorded, InconclusiveStops, decision = None, OpenLoop,
           NEW reason \in {"SAFETY_LIMIT_REACHED", "MODEL_UNAVAILABLE", "RUNTIME_FAILURE"},
           Raise(reason)
    PROVE  Recorded' /\ InconclusiveStops'
<1>1. TypeOK /\ UNCHANGED <<citations, experiments>>
  BY DEF IInv, Raise
<1>2. running = Falsifier => verdict = None
  BY DEF OpenLoop, Manager, Falsifier
<1>3. Abstain(reason) # None
  BY <1>1, AbstentionsAreDecisions, NoneAssumption
<1>4. verdict' = None \/ running' = Falsifier \/ decision' # None
  BY <1>2, <1>3 DEF Raise
<1>5. QED
  BY <1>1, <1>4, SameEvidence

LEMMA StopStep ==
    ASSUME IInv, Recorded, InconclusiveStops, Controller, decision = None
    PROVE  Recorded' /\ InconclusiveStops'
<1>1. TypeOK /\ running \in Actor /\ citations \in Nat /\ Manager # Falsifier
  BY DEF IInv, TypeOK, Manager, Falsifier
<1>2. OpenLoop /\ running = Falsifier => verdict = None
  BY DEF OpenLoop, Manager, Falsifier
<1>3. ASSUME OpenLoop, UNCHANGED <<citations, experiments, verdict, running>>,
             memory'.unrecorded = memory.unrecorded
      PROVE  Recorded' /\ InconclusiveStops'
  BY <1>1, <1>2, <1>3, SameEvidence DEF Actor
<1>4. CASE TurnStep
  <2>1. CASE PreflightStops \/ NoToolOffered \/ ModelOverruns \/ ModelFails
    BY <2>1, RaiseStops DEF PreflightStops, NoToolOffered, ModelOverruns, ModelFails, Ready
  <2>2. CASE AskModel
    BY <1>3, <2>2 DEF AskModel, Ready, stateVars
  <2>3. CASE EndTurn
    <3>1. /\ OpenLoop /\ UNCHANGED <<citations, experiments, running, memory>>
          /\ UNCHANGED verdict \/ running = Falsifier
      BY <1>1, <2>3 DEF EndTurn, Actor
    <3>2. QED
      BY <1>1, <1>3, <3>1, SameEvidence
  <2>4. QED
    BY <1>4, <2>1, <2>2, <2>3 DEF TurnStep
<1>5. CASE EvidenceStep
  <2>1. CASE Read
    <3>1. /\ OpenLoop /\ citations' \in citations .. PassageCount
          /\ UNCHANGED <<experiments, verdict, running, memory>>
      BY <2>1 DEF Read, Called
    <3>2. /\ citations' \in Nat /\ citations <= citations'
          /\ Recorded' /\ experiments \subseteq experiments'
      BY <1>1, <3>1, RunAssumption DEF Recorded
    <3>3. QED
      BY <1>1, <1>2, <3>1, <3>2, StopsStay DEF Actor
  <2>2. CASE InspectDependencies \/ CachedRead \/ RunExperimentFails
    BY <1>3, <2>2 DEF InspectDependencies, CachedRead, RunExperimentFails, Called, stateVars
  <2>3. CASE RunExperiment
    <3>1. PICK e : experiments' = experiments \cup {e}
      BY <2>3 DEF RunExperiment
    <3>2. /\ OpenLoop /\ UNCHANGED <<citations, verdict, running>>
          /\ memory'.unrecorded = memory.unrecorded
      BY <1>1, <2>3 DEF RunExperiment, Called, TypeOK
    <3>3. Recorded' /\ experiments \subseteq experiments'
      BY <3>1, FS_AddElement DEF Recorded
    <3>4. citations' \in Nat /\ citations <= citations'
      BY <1>1, <3>2
    <3>5. QED
      BY <1>1, <1>2, <3>2, <3>3, <3>4, StopsStay DEF Actor
  <2>4. QED
    BY <1>5, <2>1, <2>2, <2>3 DEF EvidenceStep
<1>6. CASE DecisionStep
  <2>1. CASE \E p \in Proposal : StageCandidate(p)
    BY <1>1, <2>1, SameEvidence DEF StageCandidate, Restage
  <2>2. CASE FalsifyCandidate
    BY <1>1, <2>2, SameEvidence DEF FalsifyCandidate
  <2>3. CASE StageCandidateFails \/ SubmitRepair \/ FinishNoChange \/ RequestHuman
             \/ \E t \in Refusable : CallRefused(t)
    <3>1. memory'.unrecorded = memory.unrecorded
      BY <1>1, <2>3 DEF StageCandidateFails, SubmitRepair, FinishNoChange, RequestHuman,
                        CallRefused, TypeOK
    <3>2. QED
      BY <1>3, <2>3, <3>1 DEF StageCandidateFails, SubmitRepair, FinishNoChange,
                              RequestHuman, CallRefused, Called, stateVars
  <2>4. CASE ToolBudgetStops
    BY <2>4, RaiseStops DEF ToolBudgetStops, Called
  <2>5. QED
    BY <1>6, <2>1, <2>2, <2>3, <2>4 DEF DecisionStep
<1>7. CASE \E s \in {"BROKEN", "SURVIVED", "INCONCLUSIVE"} : ReportFalsification(s)
  <2>1. PICK s \in {"BROKEN", "SURVIVED", "INCONCLUSIVE"} : ReportFalsification(s)
    BY <1>7
  <2>2. running = Falsifier
    BY <2>1, CallsAreOwn, FalsifiersTool DEF ReportFalsification
  <2>3. UNCHANGED <<citations, experiments, running>>
    BY <2>1 DEF ReportFalsification
  <2>4. QED
    BY <1>1, <2>2, <2>3, SameEvidence
<1>8. CASE FalsifierReturns
  <2>1. UNCHANGED <<citations, experiments, verdict>>
    BY <1>8 DEF FalsifierReturns
  <2>2. Recorded'
    BY <2>1 DEF Recorded
  <2>3. CASE verdict.status = "INCONCLUSIVE"
    <3>1. PICK cited \in 1 .. citations :
            decision' = IF EvidenceFits(cited)
                        THEN Abstain("FALSIFIER_INCONCLUSIVE") ELSE decision
      BY <1>8, <2>3 DEF FalsifierReturns
    <3>2. CASE EvidenceFits(cited)
      <4>1. decision' # None
        BY <1>1, <3>1, <3>2, AbstentionsAreDecisions, NoneAssumption
      <4>2. QED
        BY <2>2, <4>1 DEF InconclusiveStops
    <3>3. CASE ~EvidenceFits(cited)
      <4>1. Cardinality(experiments) \in Nat /\ EvidenceLimit \in Nat
        BY FS_CardinalityType, RunAssumption DEF Recorded
      <4>2. citations + Cardinality(experiments) > EvidenceLimit
        BY <1>1, <3>3, <4>1 DEF EvidenceFits
      <4>3. QED
        BY <2>1, <2>2, <4>2 DEF InconclusiveStops
    <3>4. QED
      BY <3>2, <3>3
  <2>4. CASE verdict.status # "INCONCLUSIVE"
    BY <2>1, <2>2, <2>4 DEF InconclusiveStops
  <2>5. QED
    BY <2>3, <2>4
<1>9. CASE FalsifierUnrecorded
  <2>1. UNCHANGED <<citations, experiments>> /\ memory'.unrecorded
    BY <1>1, <1>9 DEF FalsifierUnrecorded, stateVars, TypeOK
  <2>2. QED
    BY <2>1 DEF Recorded, InconclusiveStops
<1>10. QED
  BY <1>4, <1>5, <1>6, <1>7, <1>8, <1>9 DEF Controller, FalsifierStep

\* An inconclusive falsification closes the run, unless its evidence is longer
\* than a decision may list or its end could not be recorded (_falsify_candidate).
THEOREM InconclusiveEnds == Spec => []InconclusiveStops
<1>1. Init => Recorded /\ InconclusiveStops
  BY FS_EmptySet DEF Init, Recorded, InconclusiveStops
<1>2. IInv /\ Recorded /\ InconclusiveStops /\ [Next]_vars
      => (Recorded /\ InconclusiveStops)'
  <2> SUFFICES ASSUME IInv, Recorded, InconclusiveStops, [Next]_vars
               PROVE  (Recorded /\ InconclusiveStops)'
    OBVIOUS
  <2>1. CASE Controller
    BY <2>1, ControllerNeedsOpenRun, StopStep
  <2>2. CASE Clock \/ UNCHANGED vars
    BY <2>2 DEF Clock, vars, stateVars, loopVars, Recorded, InconclusiveStops
  <2>3. QED
    BY <2>1, <2>2 DEF Next
<1>3. QED
  BY <1>1, <1>2, Invariance, PTL DEF Spec

---------------------------------------------------------------------------
(* What is offered once a candidate is staged. *)

\* With a falsifier, every phase of a manager with a staged candidate leaves
\* out finishing without change.
LEMMA StagedIsTested ==
    ASSUME UseFalsifier, candidate # None, NEW scope \in BOOLEAN
    PROVE  "finish_no_change" \notin RequestTools(Manager, scope)
<1>1. "finish_no_change" \notin TerminalTools(Manager)
  BY DEF TerminalTools, Manager, Falsifier
<1>2. "finish_no_change" \notin CandidatePhase
  BY DEF CandidatePhase
<1>3. QED
  BY <1>1, <1>2 DEF RequestTools

\* And a supported repair is never left out.
LEMMA SupportedIsOffered ==
    ASSUME UseFalsifier, RepairSupported, NEW scope \in BOOLEAN
    PROVE  "submit_repair" \in RequestTools(Manager, scope)
<1>1. candidate # None /\ verdict # None /\ verdict.status = "SURVIVED"
  BY DEF RepairSupported
<1>2. "submit_repair" \in TerminalTools(Manager)
  BY <1>1 DEF TerminalTools, Unavailable, Manager, Falsifier
<1>3. CandidatePhase \ SpentExperiments(Manager) = {"submit_repair"}
  BY <1>1 DEF CandidatePhase, SpentExperiments
<1>4. ~ExperimentRequired(Manager, scope)
  BY <1>1 DEF ExperimentRequired, ExceptionScopeRequired
<1>5. QED
  BY <1>1, <1>2, <1>3, <1>4 DEF RequestTools

\* A manager that is asked is offered what its tool request computes.
LEMMA ManagerIsOffered ==
    ASSUME IInv, running = Manager, AskModel
    PROVE  \E scope \in BOOLEAN :
             loop'[Manager].offered = RequestTools(Manager, scope)
<1>1. Manager # Falsifier /\ Manager \in Actor /\ loop \in [Actor -> Loop]
  BY DEF IInv, TypeOK, Actor, Manager, Falsifier
<1>2. QED
  BY <1>1 DEF AskModel, Loop

\* Asked while its repair is supported, a manager that has a falsifier can
\* submit it (ToolCallingAgent._request_tools).
THEOREM SupportedRepairIsOffered ==
    ASSUME UseFalsifier
    PROVE  Spec => SupportedRepairOffered
<1>1. IInv /\ [Next]_vars =>
        [/\ running = Manager /\ running' = Manager
         /\ step = "turn" /\ step' = "tools"
         /\ RepairSupported
         => "submit_repair" \in loop'[Manager].offered]_vars
  <2> SUFFICES ASSUME IInv, Next, running = Manager, running' = Manager,
                      step = "turn", step' = "tools", RepairSupported
               PROVE  "submit_repair" \in loop'[Manager].offered
    OBVIOUS
  <2>1. Manager # Falsifier /\ Manager \in Actor /\ loop \in [Actor -> Loop]
    BY DEF IInv, TypeOK, Actor, Manager, Falsifier
  <2>2. CASE AskModel
    <3>1. PICK scope \in BOOLEAN :
            loop'[Manager].offered = RequestTools(Manager, scope)
      BY <2>2, ManagerIsOffered
    <3>2. QED
      BY <3>1, SupportedIsOffered
  <2>3. CASE ~AskModel
    <3>1. \A reason : Raise(reason) => step' = step
      BY <2>1 DEF Raise
    <3>2. \A t : ~Called(t)
      BY DEF Called
    <3>3. QED
      BY <2>1, <2>3, <3>1, <3>2
         DEF Next, Controller, TurnStep, PreflightStops, NoToolOffered, ModelOverruns,
             ModelFails, EndTurn, EvidenceStep, Read, InspectDependencies, CachedRead,
             RunExperiment, RunExperimentFails, DecisionStep, StageCandidate,
             StageCandidateFails, FalsifyCandidate, SubmitRepair, FinishNoChange,
             RequestHuman, CallRefused, ToolBudgetStops, FalsifierStep,
             ReportFalsification, FalsifierReturns, FalsifierUnrecorded, Clock, loopVars
  <2>4. QED
    BY <2>2, <2>3
<1>2. QED
  BY <1>1, Invariance, PTL DEF Spec, SupportedRepairOffered

\* A manager that is offered to finish without change has no verdict, cannot get
\* one with the calls of the same response, and has a staged candidate only if
\* one of those calls staged it.
UntestedIfDeclinable ==
    UseFalsifier /\ "finish_no_change" \in loop[Manager].offered =>
        /\ running = Manager
        /\ verdict = None
        /\ "falsify_candidate" \notin loop[Manager].offered
        /\ candidate # None => "stage_candidate" \in loop[Manager].offered

\* Without a candidate there is nothing to falsify.
LEMMA DeclinableIsUntestable ==
    ASSUME candidate = None, NEW scope \in BOOLEAN,
           "finish_no_change" \in RequestTools(Manager, scope)
    PROVE  "falsify_candidate" \notin RequestTools(Manager, scope)
<1>1. "falsify_candidate" \in Unavailable(Manager)
  BY DEF Unavailable
<1>2. "falsify_candidate" \notin TerminalTools(Manager)
  BY DEF TerminalTools, Manager, Falsifier
<1>3. "falsify_candidate" \notin CoordinationTools(Manager)
  BY <1>1 DEF CoordinationTools
<1>4. QED
  BY <1>1, <1>2, <1>3 DEF RequestTools

LEMMA DeclinableStep ==
    ASSUME IInv, UntestedIfDeclinable, [Next]_vars
    PROVE  UntestedIfDeclinable'
<1>1. TypeOK /\ Manager # Falsifier /\ Manager \in Actor /\ loop \in [Actor -> Loop]
  BY DEF IInv, TypeOK, Actor, Manager, Falsifier
<1> SUFFICES ASSUME UseFalsifier
             PROVE  UntestedIfDeclinable'
  BY DEF UntestedIfDeclinable
<1>2. CASE ManagersTurn /\ AskModel
  <2>1. PICK scope \in BOOLEAN :
          loop'[Manager].offered = RequestTools(Manager, scope)
    BY <1>2, ManagerIsOffered DEF ManagersTurn
  <2>2. UNCHANGED <<candidate, verdict, running>> /\ running = Manager
    BY <1>2 DEF AskModel, ManagersTurn, stateVars
  <2>3. CASE candidate = None
    <3>1. verdict = None
      BY <2>3 DEF IInv, VerdictStands
    <3>2. QED
      BY <2>1, <2>2, <2>3, <3>1, DeclinableIsUntestable DEF UntestedIfDeclinable
  <2>4. CASE candidate # None
    BY <2>1, <2>4, StagedIsTested DEF UntestedIfDeclinable
  <2>5. QED
    BY <2>3, <2>4
<1>3. CASE ManagersTurn /\ EndTurn
  <2>1. loop'[Manager].offered = {}
    BY <1>1, <1>3 DEF ManagersTurn, EndTurn, Loop
  <2>2. QED
    BY <2>1 DEF UntestedIfDeclinable
<1>4. CASE Next /\ ~ManagersTurn
  <2>1. loop'[Manager].offered = loop[Manager].offered
    BY <1>1, <1>4, ManagersLoopStays DEF Kept
  <2>2. SUFFICES ASSUME "finish_no_change" \in loop[Manager].offered
                 PROVE  /\ running' = Manager
                        /\ verdict' = None
                        /\ candidate' # None => "stage_candidate" \in loop[Manager].offered
    BY <2>1 DEF UntestedIfDeclinable
  <2>3. /\ running = Manager /\ verdict = None
        /\ "falsify_candidate" \notin loop[Manager].offered
        /\ candidate # None => "stage_candidate" \in loop[Manager].offered
    BY <2>2 DEF UntestedIfDeclinable
  <2>4. CASE \E p \in Proposal : StageCandidate(p)
    BY <2>3, <2>4 DEF StageCandidate, Called, Restage
  <2>5. ~FalsifyCandidate
    BY <2>3 DEF FalsifyCandidate, Called
  <2>6. ~FalsifierStep
    BY <1>1, <2>3, CallsAreOwn, FalsifiersTool
       DEF FalsifierStep, ReportFalsification, FalsifierReturns, FalsifierUnrecorded
  <2>7. CASE ~\E p \in Proposal : StageCandidate(p)
    <3>1. UNCHANGED <<candidate, verdict, running>>
      BY <1>1, <1>4, <2>3, <2>5, <2>6, <2>7
         DEF Next, Controller, TurnStep, PreflightStops, NoToolOffered, AskModel,
             ModelOverruns, ModelFails, EndTurn, ManagersTurn, EvidenceStep, Read,
             InspectDependencies, CachedRead, RunExperiment, RunExperimentFails,
             DecisionStep, StageCandidateFails, SubmitRepair, FinishNoChange,
             RequestHuman, CallRefused, ToolBudgetStops, Clock, Raise, stateVars,
             loopVars
    <3>2. QED
      BY <2>3, <3>1
  <2>8. QED
    BY <2>4, <2>7
<1>5. CASE UNCHANGED vars
  BY <1>5 DEF vars, stateVars, loopVars, UntestedIfDeclinable
<1>6. QED
  BY <1>2, <1>3, <1>4, <1>5 DEF ManagersTurn

LEMMA NoChangeStep ==
    ASSUME IInv, UntestedIfDeclinable, TestedRepairNotDeclined, [Next]_vars
    PROVE  TestedRepairNotDeclined'
<1>1. CASE decision # None
  <2>1. UNCHANGED <<candidate, verdict, decision, loop>>
    BY <1>1, ControllerNeedsOpenRun DEF Next, Clock, vars, stateVars, loopVars
  <2>2. QED
    BY <2>1 DEF TestedRepairNotDeclined
<1>2. CASE FinishNoChange
  <2>1. running = Manager /\ loop[running].pending > 0 /\ loop' = Done
    BY <1>2, CallsAreOwn, ManagersTools DEF FinishNoChange, Called
  <2>2. loop'[Manager].offered = loop[Manager].offered
    BY <2>1, LoopsStayLoops DEF IInv, Actor
  <2>3. "finish_no_change" \in loop[Manager].offered /\ UNCHANGED <<candidate, verdict>>
    BY <1>2, <2>1 DEF FinishNoChange, Called
  <2>4. QED
    BY <2>2, <2>3 DEF UntestedIfDeclinable, TestedRepairNotDeclined
<1>3. CASE decision = None /\ ~FinishNoChange
  <2> DEFINE Other == decision' = None \/ decision'.outcome # "NO_CHANGE"
  <2> SUFFICES Other
    BY DEF TestedRepairNotDeclined
  <2>1. \A reason : Abstain(reason).outcome = "ABSTAIN"
    BY DEF Abstain
  <2>2. \A reason : Raise(reason) => Other
    BY <1>3, <2>1, Zenon DEF Raise
  <2>3. CASE TurnStep
    BY <1>3, <2>1, <2>2, <2>3
       DEF TurnStep, PreflightStops, NoToolOffered, AskModel, ModelOverruns, ModelFails,
           EndTurn, stateVars
  <2>4. CASE EvidenceStep
    BY <1>3, <2>2, <2>4
       DEF EvidenceStep, Read, InspectDependencies, CachedRead, RunExperiment,
           RunExperimentFails, stateVars
  <2>5. CASE DecisionStep
    <3>1. CASE SubmitRepair
      BY <3>1 DEF SubmitRepair
    <3>2. CASE RequestHuman
      BY <2>1, <3>2 DEF RequestHuman
    <3>3. QED
      BY <1>3, <2>2, <2>5, <3>1, <3>2
         DEF DecisionStep, StageCandidate, StageCandidateFails, FalsifyCandidate,
             CallRefused, ToolBudgetStops, stateVars
  <2>6. CASE FalsifierStep
    <3>1. CASE FalsifierReturns
      BY <1>3, <2>1, <3>1 DEF FalsifierReturns
    <3>2. QED
      BY <1>3, <2>6, <3>1
         DEF FalsifierStep, ReportFalsification, FalsifierUnrecorded, stateVars
  <2>7. CASE Clock \/ UNCHANGED vars
    BY <1>3, <2>7 DEF Clock, vars, stateVars
  <2>8. QED
    BY <2>3, <2>4, <2>5, <2>6, <2>7 DEF Next, Controller
<1>4. QED
  BY <1>1, <1>2, <1>3

\* However many calls a response carries, a run never finds that there is nothing
\* to change once its falsifier has judged the staged repair, and it drops an
\* untested one only with a response whose tools were chosen before that repair
\* was staged (ToolCallingAgent._request_tools).
THEOREM TestedRepairIsNotDeclined == Spec => []TestedRepairNotDeclined
<1>1. Init => UntestedIfDeclinable /\ TestedRepairNotDeclined
  BY DEF Init, UntestedIfDeclinable, TestedRepairNotDeclined, FreshLoop, Actor
<1>2. IInv /\ UntestedIfDeclinable /\ TestedRepairNotDeclined /\ [Next]_vars
      => (UntestedIfDeclinable /\ TestedRepairNotDeclined)'
  BY DeclinableStep, NoChangeStep
<1>3. QED
  BY <1>1, <1>2, Invariance, PTL DEF Spec
=============================================================================
