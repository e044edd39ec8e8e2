------------------------------ MODULE AuditRun ------------------------------
(***************************************************************************)
(* One agent run (agentic.py run_agentic): the tool loop of the audit      *)
(* manager, the falsifier's loop nested inside one of its tool calls, and  *)
(* the handlers of the tools, over the shared run state and the shared     *)
(* usage ledger.                                                           *)
(*                                                                         *)
(* The models are the environment: a response carries any number of calls  *)
(* to the offered tools with any arguments.  A handler that refuses its    *)
(* arguments is an observation, never the end of the loop.  A loop ends    *)
(* when its actor's terminal condition holds, or by an exception.          *)
(***************************************************************************)
EXTENDS AgentBudget, FiniteSets, FiniteSetsExt

CONSTANTS
    Proposal,       \* candidate contents; proposal_id is the hash of one
    Design,         \* the sets of input overrides an experiment can apply
    Baseline,       \* the design without overrides
    None,
    UseFalsifier,   \* comparison_mode = "manager-falsifier"
    Parallel,       \* calls one response may carry; 1: parallel_tool_calls off
    PassageCount,   \* distinct citations the policy can yield
    EvidenceLimit,  \* max_length of AgentDecision.evidence_ids
    Charges,        \* [input, output, cost] a response may report
    AttemptLimit,          \* experiment_attempt_limit, per actor
    ForceExperimentAfter,  \* require_experiment_after_turns, per actor
    EvidenceTurnReserve,   \* max(minimum, ceil(0.6 * turn limit)), per actor
    TerminalToolReserve,     \* terminal_tool_call_reserve, per actor
    CoordinationToolReserve  \* coordination_tool_call_reserve, per actor

ASSUME RunAssumption ==
    /\ Baseline \in Design
    /\ None \notin Proposal
    /\ UseFalsifier \in BOOLEAN
    /\ Parallel \in Nat \ {0}
    /\ PassageCount \in Nat
    /\ EvidenceLimit \in Nat
    /\ Charges \subseteq [input : Nat, output : Nat, cost : Nat]
    /\ {AttemptLimit, ForceExperimentAfter, EvidenceTurnReserve,
        TerminalToolReserve, CoordinationToolReserve} \subseteq [Actor -> Nat]

VARIABLES
    citations,    \* how many policy citations are registered
    experiments,  \* the registered experiments of both actors
    candidate,    \* the staged proposal; it is replaced, never withdrawn, so
                  \* it is None exactly while candidate_history is empty
    verdict,      \* the falsifier's verdict on the candidate
    decision,     \* how the run ended
    running,      \* the actor whose loop has control
    step,         \* "turn": about to ask the model; "tools": executing calls
    loop,         \* per actor, the state of its ToolCallingAgent
    memory        \* the manager loop's counters of failed attempts

stateVars == <<citations, experiments, candidate, verdict, decision>>
loopVars  == <<running, step, loop, memory>>
vars      == <<budgetVars, stateVars, loopVars>>

Comparison == {"none", "pass", "fail"}   \* of outcomes with expectations

Experiment == [actor : Actor, design : Design, overrides : Proposal \cup {None},
               bound : Proposal \cup {None}, comparisons : Comparison]

Verdict == [status : {"BROKEN", "SURVIVED", "INCONCLUSIVE"},
            proposal : Proposal, cited : SUBSET Experiment]

\* cited: for a repair the experiments that authorize it, for a no-change those
\* it rests on.
Decision == [outcome : {"REPAIR", "NO_CHANGE", "ABSTAIN"},
             proposal : Proposal \cup {None},
             cited : SUBSET Experiment,
             reason : {None, "HUMAN_REVIEW", "SAFETY_LIMIT_REACHED",
                       "REPAIR_REJECTED", "FALSIFIER_INCONCLUSIVE",
                       "MODEL_UNAVAILABLE", "RUNTIME_FAILURE"}]

ASSUME NoneAssumption == None \notin Decision

\* read: the manifests, policy search and reading, regions and formula lists.
ReadTools == {"read", "inspect_dependencies", "run_experiment"}

\* Mutant of Tools: the falsifier gets the manager's tools too.
UnseparatedTools(a) == ReadTools \cup {"report_falsification", "stage_candidate",
    "falsify_candidate", "submit_repair", "finish_no_change", "request_human"}

Tools(a) ==
    ReadTools \cup
    IF a = Falsifier THEN {"report_falsification"}
    ELSE {"stage_candidate", "submit_repair", "finish_no_change",
          "request_human"}
         \cup (IF UseFalsifier THEN {"falsify_candidate"} ELSE {})
Tool == Tools(Manager) \cup Tools(Falsifier) \cup {"falsify_candidate"}

TerminalTurnReserve == 2

FreshLoop == [offered |-> {}, pending |-> 0, final |-> FALSE, last |-> FALSE,
              attempts |-> 0, recovery |-> FALSE, cached |-> {},
              lastInput |-> None]

Init == /\ BudgetInit
        /\ citations = 0
        /\ experiments = {}
        /\ candidate = None
        /\ verdict = None
        /\ decision = None
        /\ running = Manager
        /\ step = "turn"
        /\ loop = [a \in Actor |-> FreshLoop]
        /\ memory = [staged |-> FALSE, stageFailures |-> 0, finishAttempts |-> 0,
                      unrecorded |-> FALSE]

ExperimentsOf(a) == {e \in experiments : e.actor = a}

Abstain(reason) == [outcome |-> "ABSTAIN", cited |-> {}, reason |-> reason,
                    proposal |-> IF reason = "HUMAN_REVIEW" THEN None ELSE candidate]

\* What an inconclusive verdict cites is read by nothing.
Inconclusive == [status |-> "INCONCLUSIVE", proposal |-> candidate, cited |-> {}]

---------------------------------------------------------------------------
(* ToolCallingAgent: what a turn offers the model. *)

TurnsRemaining(a) ==
    Min({Remaining(TurnResource(a)), Remaining("modelCalls"),
         Remaining("toolCalls")})

\* The next request is assumed to cost half as much again as the last one.
InputBudgetRequiresTerminal(a) ==
    LET last == loop[a].lastInput
    IN  /\ last # None
        /\ \/ Remaining("inputTokens") <= 1
           \/ Remaining("inputTokens") <= (3 * last + 1) \div 2

ToolBudgetRequiresTerminal(a) == Remaining("toolCalls") <= TerminalToolReserve[a]

FinalTurn(a) == \/ TurnsRemaining(a) <= TerminalTurnReserve
                \/ InputBudgetRequiresTerminal(a)
                \/ ToolBudgetRequiresTerminal(a)

\* Mutant of LastTurn: off by one.
LastTurnTooLate(a) == TurnsRemaining(a) < 1

\* When this turn is over the loop may not be able to ask again.
LastTurn(a) == TurnsRemaining(a) <= 1

AttemptLimitReached(a) == loop[a].attempts >= AttemptLimit[a]

\* Whether a cited exception of the policy still lacks an experiment that
\* crosses it is a matter of wording: scope is that unknown.
ExceptionScopeRequired(a, scope) ==
    /\ scope
    /\ a = Manager
    /\ candidate = None
    /\ citations > 0
    /\ loop[a].attempts >= 3
    /\ usage["managerTurns"] >= ForceExperimentAfter[a]

ExperimentRequired(a, scope) ==
    /\ ~AttemptLimitReached(a)
    /\ \/ ExceptionScopeRequired(a, scope)
       \/ /\ a = Manager => candidate = None
          /\ ExperimentsOf(a) = {}
          /\ citations > 0
          /\ usage[TurnResource(a)] >= ForceExperimentAfter[a]

CoordinationRequired(a) ==
    LET remaining == Remaining("toolCalls")
    IN  \/ /\ ExperimentsOf(a) # {}
           /\ TurnsRemaining(a) <= EvidenceTurnReserve[a]
        \/ a = Manager /\ candidate # None
        \/ /\ remaining <= CoordinationToolReserve[a]
           /\ \/ ExperimentsOf(a) # {}
              \/ candidate # None
              \/ remaining <= TerminalToolReserve[a] + 2

\* Manager tools whose mechanical preconditions do not exist yet.
Unavailable(a) ==
    IF a # Manager \/ candidate # None THEN {}
    ELSE LET evidence == ExperimentsOf(Manager)
             ready    == citations > 0 /\ evidence # {}
         IN  {"falsify_candidate", "submit_repair"}
             \cup (IF ready THEN {} ELSE {"stage_candidate", "request_human"})
             \cup (IF ready /\ memory.stageFailures < 2 THEN {}
                   ELSE {"stage_candidate"})
             \cup (IF /\ citations > 0
                      /\ Cardinality(evidence) >= 3
                      /\ memory.finishAttempts < 2
                   THEN {} ELSE {"finish_no_change"})

SpentExperiments(a) == IF AttemptLimitReached(a) THEN {"run_experiment"} ELSE {}

\* A staged candidate goes through falsification before anything else.
CandidatePhase ==
    IF verdict = None THEN {"falsify_candidate"}
    ELSE IF verdict.status = "SURVIVED" THEN {"submit_repair"}
    ELSE {"run_experiment", "stage_candidate", "request_human"}

\* The controller distinguishes no, one and two or more failures.
Again(n) == IF n < 2 THEN n + 1 ELSE 2

CandidateRetryRequired(a) == /\ a = Manager
                             /\ memory.staged
                             /\ candidate = None
                             /\ citations > 0
                             /\ experiments # {}
                             /\ memory.stageFailures < 2

CandidateEvidenceRequired(a) == /\ a = Manager
                                /\ memory.stageFailures >= 2
                                /\ candidate = None
                                /\ ~AttemptLimitReached(a)

\* Mutants of TerminalTools: a staged candidate does not narrow the choice, and
\* the verdict on it is not looked at.
TerminalToolsUnnarrowed(a) ==
    IF a = Falsifier THEN {"report_falsification"}
    ELSE {"submit_repair", "finish_no_change", "request_human"} \ Unavailable(a)
TerminalToolsBlind(a) ==
    IF a = Falsifier THEN {"report_falsification"} ELSE {"request_human"}

TerminalTools(a) ==
    IF a = Falsifier THEN {"report_falsification"}
    ELSE LET possible ==
               IF candidate = None
               THEN {"submit_repair", "finish_no_change", "request_human"}
               ELSE IF verdict # None /\ verdict.status = "SURVIVED"
                    THEN {"submit_repair"} ELSE {"request_human"}
         IN  IF possible \subseteq Unavailable(a) THEN possible
             ELSE possible \ Unavailable(a)

CoordinationTools(a) ==
    (Tools(a) \ {"read", "inspect_dependencies"})
    \ (Unavailable(a) \cup SpentExperiments(a))

\* _request_tools
RequestTools(a, scope) ==
    LET final == FinalTurn(a)
    IN  IF ~final /\ ExperimentRequired(a, scope)
        THEN {IF loop[a].recovery THEN "inspect_dependencies" ELSE "run_experiment"}
        ELSE IF final THEN TerminalTools(a)
        ELSE IF a = Manager /\ UseFalsifier /\ candidate # None
        THEN CandidatePhase \ SpentExperiments(a)
        ELSE IF CandidateRetryRequired(a) THEN {"stage_candidate"}
        ELSE IF CandidateEvidenceRequired(a) THEN {"run_experiment"}
        ELSE IF CoordinationRequired(a) THEN CoordinationTools(a)
        ELSE Tools(a) \ (Unavailable(a) \cup SpentExperiments(a))

---------------------------------------------------------------------------
(* ToolCallingAgent.run: a turn of the loop that has control. *)

\* Mutant of OpenLoop: the rest of a response is executed after a terminal call.
OpenLoopIgnored == TRUE

OpenLoop == IF running = Manager THEN decision = None ELSE verdict = None

\* An exception leaves the running loop.  Out of the manager's loop it ends
\* the run; the falsifier turns an exhausted budget into an inconclusive
\* verdict, and any other exception of its loop reaches the manager as the
\* observation of a failed falsify_candidate call.
Raise(reason) ==
    /\ \/ /\ running = Manager
          /\ decision' = Abstain(reason)
          /\ UNCHANGED <<verdict, running, step, loop>>
       \/ /\ running = Falsifier
          /\ reason = "SAFETY_LIMIT_REACHED"
          /\ verdict' = Inconclusive
          /\ UNCHANGED <<decision, running, step, loop>>
       \/ /\ running = Falsifier
          /\ reason # "SAFETY_LIMIT_REACHED"
          /\ running' = Manager
          /\ step' = "tools"
          /\ loop' = [loop EXCEPT ![Falsifier] = FreshLoop]
          /\ UNCHANGED <<verdict, decision>>
    /\ UNCHANGED <<citations, experiments, candidate, memory>>

PreflightFails ==
    \/ Expired
    \/ \E r \in {TurnResource(running), "modelCalls", "inputTokens", "outputTokens"} :
           usage[r] >= Limit[r]

PreflightStops == /\ step = "turn" /\ OpenLoop
                  /\ PreflightFails
                  /\ Raise("SAFETY_LIMIT_REACHED")
                  /\ UNCHANGED budgetVars

Ready == step = "turn" /\ OpenLoop /\ ~PreflightFails

\* _request_tools raises when a phase leaves no tool.
NoToolOffered == /\ Ready
                 /\ RequestTools(running, FALSE) = {}
                 /\ Raise("RUNTIME_FAILURE")
                 /\ UNCHANGED budgetVars

\* attempt_limit of the request: the retries it allows.
RetriesAllowed == {n \in 0 .. 5 : /\ n < Remaining("modelCalls")
                                  /\ n <= Remaining("retries")}

Serial(a, scope) == \/ FinalTurn(a)
                    \/ ExperimentRequired(a, scope)
                    \/ CoordinationRequired(a)

AskModel ==
    /\ Ready
    /\ \E scope \in BOOLEAN, c \in Charges, retries \in RetriesAllowed :
         LET tools == RequestTools(running, scope)
             most  == IF Serial(running, scope) \/ Cardinality(tools) = 1
                      THEN 1 ELSE Parallel
         IN  /\ tools # {}
             /\ Charge(ModelCall(running, c.input, c.output, c.cost, retries))
             /\ \E calls \in 1 .. most :
                  loop' = [loop EXCEPT
                      ![running].offered   = tools,
                      ![running].pending   = calls,
                      ![running].final     = FinalTurn(running),
                      ![running].last      = LastTurn(running),
                      ![running].lastInput = c.input]
    /\ step' = "tools"
    /\ UNCHANGED <<stateVars, running, memory>>

\* A response the ledger refuses is not charged at all.
ModelOverruns ==
    /\ Ready
    /\ \E c \in Charges, retries \in RetriesAllowed :
           Exceeded(ModelCall(running, c.input, c.output, c.cost, retries))
    /\ Raise("SAFETY_LIMIT_REACHED")
    /\ UNCHANGED budgetVars

\* The provider is unreachable, or its answer has no call to an offered tool.
ModelFails ==
    /\ Ready
    /\ \E retries \in RetriesAllowed :
           Charge(ModelCall(running, 0, 0, 0, retries))
    /\ Raise("MODEL_UNAVAILABLE")

\* The calls of the response are done.  On the last turn of a depleted budget
\* the loop then takes its fallback instead of asking again.
EndTurn ==
    /\ step = "tools" /\ OpenLoop
    /\ loop[running].pending = 0
    /\ IF loop[running].final /\ loop[running].last
       THEN IF running = Manager
            THEN /\ decision' = Abstain(IF verdict # None /\ verdict.status = "BROKEN"
                                        THEN "REPAIR_REJECTED"
                                        ELSE "SAFETY_LIMIT_REACHED")
                 /\ UNCHANGED verdict
            ELSE verdict' = Inconclusive /\ UNCHANGED decision
       ELSE UNCHANGED <<verdict, decision>>
    /\ step' = "turn"
    /\ loop' = [loop EXCEPT ![running].offered = {}, ![running].final = FALSE,
                            ![running].last = FALSE]
    /\ UNCHANGED <<budgetVars, citations, experiments, candidate,
                   running, memory>>

---------------------------------------------------------------------------
(* The tools.  A call is executed only while its loop is not terminal, and *)
(* charged before it is dispatched unless it is served from the cache.     *)

Called(t) == /\ step = "tools" /\ OpenLoop
             /\ loop[running].pending > 0
             /\ t \in loop[running].offered

Done == [loop EXCEPT ![running].pending = @ - 1]

\* A successful read-only call is served from the cache when it is repeated.
Cached(t) == [Done EXCEPT ![running].cached = @ \cup {t}]

ToolBudgetStops == /\ \E t \in Tool : Called(t)
                   /\ Exceeded(ToolCall)
                   /\ Raise("SAFETY_LIMIT_REACHED")
                   /\ UNCHANGED budgetVars

\* Searching and reading the policy register the passages they return, even
\* when the result is then too large to hand over.
Read == /\ Called("read")
        /\ Charge(ToolCall)
        /\ citations' \in citations .. PassageCount
        /\ \E ok \in BOOLEAN :
             loop' = IF ok THEN Cached("read") ELSE Done
        /\ UNCHANGED <<experiments, candidate, verdict, decision,
                       running, step, memory>>

\* Inspecting the cell a refused override named lifts the recovery phase.
InspectDependencies ==
    /\ Called("inspect_dependencies")
    /\ Charge(ToolCall)
    /\ \E ok \in BOOLEAN, named \in BOOLEAN :
         loop' = IF ok THEN [Cached("inspect_dependencies") EXCEPT
                                 ![running].recovery = @ /\ ~named]
                 ELSE Done
    /\ UNCHANGED <<stateVars, running, step, memory>>

CachedRead == \E t \in {"read", "inspect_dependencies"}, named \in BOOLEAN :
    /\ Called(t)
    /\ t \in loop[running].cached
    /\ loop' = [Done EXCEPT
                  ![running].recovery = @ /\ ~(t = "inspect_dependencies" /\ named)]
    /\ UNCHANGED <<budgetVars, stateVars, running, step, memory>>

SameDesign(e, f) == /\ e.actor = f.actor
                    /\ e.design = f.design
                    /\ e.overrides = f.overrides
                    /\ e.comparisons = f.comparisons

\* The falsifier's experiments apply every edit of the candidate and state
\* expectations; the manager's are free, but only its first one may change
\* and predict nothing.
Permitted(e) ==
    /\ \A f \in experiments : ~SameDesign(e, f)
    /\ IF e.actor = Falsifier
       THEN e.overrides = candidate /\ e.comparisons # "none"
       ELSE \/ ExperimentsOf(Manager) = {}
            \/ <<e.design, e.overrides, e.comparisons>> # <<Baseline, None, "none">>

\* _bind_candidate_experiment: bound if exactly the candidate's edits were
\* applied and every one of them affected an observation.
Binding(e) ==
    \/ e.bound = candidate /\ candidate # None /\ e.overrides = candidate
    \/ e.bound = None /\ e.actor = Manager

\* The evidence is registered before the size of the result is checked.
RunExperiment ==
    /\ Called("run_experiment")
    /\ \E d \in Design, o \in Proposal \cup {None}, b \in {None, candidate},
          c \in Comparison, ok \in BOOLEAN :
         LET e == [actor |-> running, design |-> d, overrides |-> o,
                   bound |-> b, comparisons |-> c]
         IN  /\ Permitted(e)
             /\ Binding(e)
             /\ experiments' = experiments \cup {e}
             /\ memory' = IF running = Manager /\ ok
                          THEN [memory EXCEPT !.stageFailures = 0] ELSE memory
    /\ Charge(Plus(ToolCall, Executions(1)))
    /\ loop' = [Done EXCEPT ![running].attempts = @ + 1,
                            ![running].recovery = FALSE]
    /\ UNCHANGED <<citations, candidate, verdict, decision, running, step>>

\* Refused before or after its execution was charged; an override that hits
\* a formula cell starts the recovery phase.
RunExperimentFails ==
    /\ Called("run_experiment")
    /\ \E n \in 0 .. 1 : Charge(Plus(ToolCall, Executions(n)))
    /\ \E formulaHit \in BOOLEAN :
         loop' = [Done EXCEPT
            ![running].attempts = @ + 1,
            ![running].recovery =
                formulaHit /\ loop[running].attempts + 1 < AttemptLimit[running]]
    /\ UNCHANGED <<stateVars, running, step, memory>>

---------------------------------------------------------------------------
(* The manager's own tools. *)

\* The manager's experiments whose expectations a draft is replayed against.
Expecting == {e \in ExperimentsOf(Manager) : e.comparisons # "none"}

\* Replaying exactly the formulas an experiment already refuted fails again.
Contradicted(p) == \E e \in Expecting : e.overrides = p /\ e.comparisons = "fail"

\* Mutant of Restage: the verdict on the previous candidate stays.
RestageOnly(p) == candidate' = p /\ UNCHANGED verdict

Restage(p) == candidate' = p /\ verdict' = None

StageCandidate(p) ==
    /\ Called("stage_candidate")
    /\ UseFalsifier \/ candidate = None
    /\ citations > 0
    /\ ~Contradicted(p)
    /\ \E n \in 0 .. Cardinality(Expecting) : Charge(Plus(ToolCall, Executions(n)))
    /\ Restage(p)
    /\ memory' = [memory EXCEPT !.staged = TRUE, !.stageFailures = 0]
    /\ loop' = Done
    /\ UNCHANGED <<citations, experiments, decision, running, step>>

StageCandidateFails ==
    /\ Called("stage_candidate")
    /\ \E n \in 0 .. Cardinality(Expecting) : Charge(Plus(ToolCall, Executions(n)))
    /\ memory' = [memory EXCEPT !.staged = TRUE,
                                !.stageFailures = Again(@)]
    /\ loop' = Done
    /\ UNCHANGED <<stateVars, running, step>>

\* The manager's call stays open while the falsifier's own loop runs.
FalsifyCandidate ==
    /\ Called("falsify_candidate")
    /\ candidate # None
    /\ Charge(ToolCall)
    /\ verdict' = None
    /\ running' = Falsifier
    /\ step' = "turn"
    /\ loop' = [Done EXCEPT ![Falsifier] = FreshLoop]
    /\ UNCHANGED <<citations, experiments, candidate, decision, memory>>

\* Mutant of Validations: passing experiments that did not apply the candidate.
ValidationsOfAnything == {e \in ExperimentsOf(Manager) : e.comparisons = "pass"}

\* _candidate_validation_experiments, for the single-agent comparison.
Validations == {e \in ExperimentsOf(Manager) :
                    /\ e.bound = candidate /\ candidate # None
                    /\ e.comparisons = "pass"}

\* Mutant of RepairSupported: the single agent submits what it has staged.
RepairSupportedIfStaged == candidate # None /\ citations > 0

RepairSupported ==
    /\ candidate # None
    /\ citations > 0
    /\ IF UseFalsifier
       THEN /\ verdict # None
            /\ verdict.proposal = candidate
            /\ verdict.status = "SURVIVED"
       ELSE Validations # {}

SubmitRepair ==
    /\ Called("submit_repair")
    /\ RepairSupported
    /\ Charge(ToolCall)
    /\ decision' = [outcome |-> "REPAIR", proposal |-> candidate, reason |-> None,
                    cited |-> IF UseFalsifier THEN verdict.cited ELSE Validations]
    /\ loop' = Done
    /\ UNCHANGED <<citations, experiments, candidate, verdict,
                   running, step, memory>>

Intervention(e) == <<e.design, e.overrides>>

\* The experiments a no-change decision cites.  It must list three of them, but
\* the same one may be listed more than once.
SupportsNoChange(cited) ==
    /\ Cardinality({Intervention(e) : e \in cited} \ {<<Baseline, None>>}) >= 2
    /\ \E e \in cited : e.comparisons = "pass"
    /\ \A e \in cited : e.comparisons # "fail"

FinishNoChange ==
    /\ Called("finish_no_change")
    /\ citations > 0
    /\ \E cited \in SUBSET experiments :
         /\ SupportsNoChange(cited)
         /\ decision' = [outcome |-> "NO_CHANGE", proposal |-> None, cited |-> cited,
                         reason |-> None]
    /\ Charge(ToolCall)
    /\ loop' = Done
    /\ UNCHANGED <<citations, experiments, candidate, verdict,
                   running, step, memory>>

\* Mutant of EvidenceFits: off by one.
EvidenceFitsBelow(cited) == cited + Cardinality(experiments) < EvidenceLimit

\* A decision lists so many citations and every experiment.
EvidenceFits(cited) == cited + Cardinality(experiments) <= EvidenceLimit

\* Every registered citation and experiment is attached to the escalation.
RequestHuman ==
    /\ Called("request_human")
    /\ citations > 0
    /\ experiments # {}
    /\ EvidenceFits(citations)
    /\ Charge(ToolCall)
    /\ decision' = Abstain("HUMAN_REVIEW")
    /\ loop' = Done
    /\ UNCHANGED <<citations, experiments, candidate, verdict,
                   running, step, memory>>

\* A call whose arguments or evidence a handler refuses.
CallRefused(t) ==
    /\ Called(t)
    /\ Charge(ToolCall)
    /\ loop' = Done
    /\ memory' = IF t = "finish_no_change"
                 THEN [memory EXCEPT !.finishAttempts = Again(@)]
                 ELSE memory
    /\ UNCHANGED <<stateVars, running, step>>

Refusable == {"falsify_candidate", "submit_repair", "finish_no_change",
              "request_human", "report_falsification"}

---------------------------------------------------------------------------
(* The falsifier's verdict. *)

\* Mutant of CandidateTests: experiments on an earlier candidate still count.
CandidateTestsEver == ExperimentsOf(Falsifier)

CandidateTests == {e \in ExperimentsOf(Falsifier) : e.bound = candidate}

Conclusive(status, cited) ==
    /\ cited # {}
    /\ IF status = "SURVIVED"
       THEN \A e \in cited : e.comparisons = "pass"
       ELSE \E e \in cited : e.comparisons # "pass"

ReportFalsification(status) ==
    /\ Called("report_falsification")
    /\ Charge(ToolCall)
    /\ IF status = "INCONCLUSIVE"
       THEN verdict' = Inconclusive
       ELSE \E cited \in SUBSET CandidateTests :
              /\ Conclusive(status, cited)
              /\ verdict' = [status |-> status, proposal |-> candidate,
                             cited |-> cited]
    /\ loop' = Done
    /\ UNCHANGED <<citations, experiments, candidate, decision, running, step,
                   memory>>

\* _falsify_candidate goes on when the falsifier's loop has its verdict.  An
\* inconclusive one closes the run, unless the evidence of the candidate and
\* of all experiments is too long a list for a decision.
FalsifierReturns ==
    /\ running = Falsifier
    /\ verdict # None
    /\ IF verdict.status = "INCONCLUSIVE"
       THEN \E cited \in 1 .. citations :
              decision' = IF EvidenceFits(cited)
                          THEN Abstain("FALSIFIER_INCONCLUSIVE") ELSE decision
       ELSE UNCHANGED decision
    /\ running' = Manager
    /\ step' = "tools"
    /\ loop' = [loop EXCEPT ![Falsifier] = FreshLoop]
    /\ memory' = [memory EXCEPT !.unrecorded = FALSE]
    /\ UNCHANGED <<budgetVars, citations, experiments, candidate, verdict>>

\* The end of the falsification cannot be written to the trail: the manager
\* observes a failed call, and the verdict stays.  unrecorded remembers that.
FalsifierUnrecorded ==
    /\ running = Falsifier
    /\ verdict # None
    /\ running' = Manager
    /\ step' = "tools"
    /\ loop' = [loop EXCEPT ![Falsifier] = FreshLoop]
    /\ memory' = [memory EXCEPT !.unrecorded = TRUE]
    /\ UNCHANGED <<budgetVars, stateVars>>

---------------------------------------------------------------------------
TurnStep == \/ PreflightStops
            \/ NoToolOffered
            \/ AskModel
            \/ ModelOverruns
            \/ ModelFails
            \/ EndTurn

EvidenceStep == \/ Read
                \/ InspectDependencies
                \/ CachedRead
                \/ RunExperiment
                \/ RunExperimentFails

DecisionStep == \/ \E p \in Proposal : StageCandidate(p)
                \/ StageCandidateFails
                \/ FalsifyCandidate
                \/ SubmitRepair
                \/ FinishNoChange
                \/ RequestHuman
                \/ \E t \in Refusable : CallRefused(t)
                \/ ToolBudgetStops

FalsifierStep == \/ \E s \in {"BROKEN", "SURVIVED", "INCONCLUSIVE"} :
                        ReportFalsification(s)
                 \/ FalsifierReturns
                 \/ FalsifierUnrecorded

Controller == TurnStep \/ EvidenceStep \/ DecisionStep \/ FalsifierStep

Clock == Tick /\ UNCHANGED <<stateVars, loopVars>>

Next == Controller \/ Clock

\* The controller is one thread that always goes on: a model call returns or
\* fails after a bounded time, and so does every handler.
Spec == Init /\ [][Next]_vars /\ WF_vars(Controller)

---------------------------------------------------------------------------
(* Properties. *)

Loop == [offered : SUBSET Tool, pending : 0 .. Parallel, final : BOOLEAN,
         last : BOOLEAN, attempts : Nat, recovery : BOOLEAN,
         cached : SUBSET {"read", "inspect_dependencies"},
         lastInput : Nat \cup {None}]

\* Every variable has its type, and no counter of the ledger passes its limit.
TypeOK ==
    /\ BudgetTypeOK
    /\ WithinLimits
    /\ citations \in Nat
    /\ experiments \subseteq Experiment
    /\ candidate \in Proposal \cup {None}
    /\ verdict \in Verdict \cup {None}
    /\ decision \in Decision \cup {None}
    /\ running \in Actor
    /\ step \in {"turn", "tools"}
    /\ loop \in [Actor -> Loop]
    /\ memory \in [staged : BOOLEAN, stageFailures : 0 .. 2, finishAttempts : 0 .. 2,
                  unrecorded : BOOLEAN]

\* A run proposes a repair only for the candidate that is staged when it ends,
\* supported by at least one experiment on exactly that candidate, all of whose
\* expectations passed: the falsifier's in the manager-falsifier comparison, the
\* manager's own in the single-agent one.  A verdict or an experiment about an
\* earlier candidate never carries over.
RepairAuthorized ==
    decision # None /\ decision.outcome = "REPAIR" =>
        /\ candidate # None
        /\ decision.proposal = candidate
        /\ decision.cited # {}
        /\ \A e \in decision.cited :
              /\ e \in experiments
              /\ e.actor = IF UseFalsifier THEN Falsifier ELSE Manager
              /\ e.bound = candidate
              /\ e.comparisons = "pass"

\* When the manager has control again after an inconclusive falsification, the
\* run is over; the exceptions are evidence a decision cannot list and a
\* falsification whose end could not be recorded.
InconclusiveStops ==
    /\ running = Manager
    /\ verdict # None
    /\ verdict.status = "INCONCLUSIVE"
    /\ decision = None
    /\ ~memory.unrecorded
    => citations + Cardinality(experiments) > EvidenceLimit

\* The manager always gets to answer while it still has a turn of its own: the
\* turn that uses up its limit closes the run with a decision, so that limit
\* alone never cuts an investigation off.
LastTurnDecides ==
    /\ Limit["managerTurns"] > 0
    /\ running = Manager
    /\ step = "turn"
    /\ decision = None
    => Remaining("managerTurns") > 0

\* A run never concludes that there is nothing to change over a repair that its
\* falsifier has judged.  An untested one it can drop only with a response whose
\* tools were chosen before that repair was staged.
TestedRepairNotDeclined ==
    UseFalsifier /\ decision # None /\ decision.outcome = "NO_CHANGE" =>
        /\ verdict = None
        /\ candidate # None => "stage_candidate" \in loop[Manager].offered

\* agent_loop.py:675 calls the falsification of a staged candidate mandatory: no
\* run concludes before the candidate it has staged has been judged.  A response
\* that stages a repair and finishes without change breaks this.
FalsificationMandatory ==
    /\ UseFalsifier
    /\ candidate # None
    /\ decision # None
    /\ decision.outcome # "ABSTAIN"
    => verdict # None

\* Nothing that a decided run has recorded changes any more.
DecisionFinal == [][decision # None => UNCHANGED <<stateVars, usage>>]_vars

\* While the falsifier has control the candidate stays what it was asked about,
\* and no repair or no-change is decided.
FalsifierConfined ==
    [][running = Falsifier =>
         /\ candidate' = candidate
         /\ ExperimentsOf(Manager)' = ExperimentsOf(Manager)
         /\ decision' = decision \/ decision'.outcome = "ABSTAIN"]_vars

\* A manager that is asked while its repair is supported can submit it.
SupportedRepairOffered ==
    [][/\ running = Manager /\ running' = Manager
       /\ step = "turn" /\ step' = "tools"
       /\ RepairSupported
       => "submit_repair" \in loop'[Manager].offered]_vars

\* Every run ends with a decision, whatever the models answer.
Termination == <>(decision # None)

\* The program implements the specification of its authority.
TestResult == IF UseFalsifier
              THEN IF verdict = None THEN "untested"
                   ELSE IF verdict.status = "SURVIVED" THEN "survived"
                   ELSE IF verdict.status = "BROKEN" THEN "broken"
                   ELSE "inconclusive"
              ELSE IF Validations = {} THEN "untested" ELSE "survived"

Authority == INSTANCE AuditAuthority WITH
    staged  <- candidate,
    tested  <- TestResult,
    outcome <- IF decision = None THEN "open" ELSE decision.outcome

ImplementsAuthority == Authority!AuthoritySpec
=============================================================================
