# ClauseGrid in TLA+

Models, model checks and proofs of ClauseGrid, the program under `src/src/formulawitness/`
that compares the formulas of a workbook with the rules of a policy document. ClauseGrid
lets language models drive an audit, so almost everything that matters about it is control:
which tools a model is offered, which evidence a decision may rest on, who may publish a
repair, and what happens when a budget, a process or a provider gives out half way. That
control is what the modules describe. Every definition is translated from the Python
source; `PROJECT.json` names the lines.

Paths below such as `agent_loop.py:587` are under `src/src/formulawitness/`.

## 1. The system

### Components

| Component | Source | State it keeps | Operations |
|---|---|---|---|
| Agent run | `agentic.py`, `agent_loop.py`, `agent_tools.py`, `falsifier.py`, `agent_state.py` | `AgentRunState`: registered citations, experiments, the candidate and its history, the falsifier's verdict, the decision; per loop the offered tools, attempt counters, result cache, recovery phase | a turn (preflight, phase, model request, calls, fallback); 14 tools; the nested falsifier run |
| Usage ledger | `agent_budget.py` | nine counters and a start time, shared by both agents | preflight, record a model call, charge tool calls and executions, remaining |
| Approval transaction | `agentic.py` (`approve_agentic_proposal`), `artifacts.py` | files of the run directory: proposal, report, repaired workbook, `approval.json`; `.approval.lock` | lock, check, snapshot, patch and replay, seal, publish three files, clean up |
| Review server: downloads | `ui.py` | the current session | validate the three files, send one |
| Review server: uploads, jobs, reaper | `ui.py`, `uploaded_inputs.py` | prepared and retained uploads, reservations, directories to clean, jobs, the operation lock | stage workbook or policy, claim for an audit, retain, approve, expire, clean up |
| Rate limiter | `ui.py` | sliding windows per client and route | allow or refuse with a delay |
| Model client | `model_client.py`, `anthropic_transport.py`, `providers.py`, `agent_types.py` | pacing clock, attempt count, tokens of the answers sent back | one exchange with retries and protocol repairs |
| Trajectory | `trace.py` | sequence number, hash of the last event, the file | record, resume, verify |
| Policy pack and oracle | `policy_pack.py`, `policy_pack_runtime.py`, `policy_oracle.py` | the pack in the server's memory | materialize, validate, verify a workbook; evaluate the rules |
| Deterministic workflow | `advanced.py`, `baseline.py`, `budget.py` | trail, proposal, report, repaired workbook and approval of a run directory; the ledger of case executions | audit with repair search, direct edit, approve, resume |
| Evaluation harness | `agent_evaluation.py`, `evaluation.py`, `benchmark.py` | per-case runs, the sealed keys | run, approve, score |
| Formula interpreter | `formula.py` | none across calls; a graph, a walk and the values found so far inside one | parse, check, edit, order, evaluate |
| Sandboxed workers | `runner.py`, `worker.py`, `experiment_worker.py`, `path_guard.py` and others | none across calls | run one computation in a process with a time limit |
| File formats | `ooxml.py`, `policy_text.py`, `workbook_tools.py`, `models.py` | none | parse and rewrite packages |
| Shell | `cli.py`, `deploy.py`, `ui_page.py` | none | arguments, a page |

### How they interact

- `run_agentic` builds one `AgentRunState` and one ledger and gives both to the manager's
  loop and tools. The call `falsify_candidate` constructs a second set of tools and a second
  loop over **the same** state and ledger and runs it to its end inside the manager's call.
- A loop asks the model client for one response, then executes its calls one after the
  other. `AgentToolRegistry.execute` turns every exception of a handler into an observation,
  so a refused call never ends a run; only the ledger, the model client and the loop's own
  checks do.
- The loop keeps the conversation and cuts it to the context it is allowed; the client keeps
  the attempts of one exchange and hands back one turn, or an error, with what it cost.
- Every workflow writes its events to a trajectory while it runs and verifies the file before
  it publishes a result. The trail and the artifacts lie in one directory, which the
  deterministic workflow names after its inputs, so that later sessions meet earlier ones.
- An experiment, an upload and a verification run the same interpreter in a worker: on one
  sheet with overrides, over all sheets, and on the inputs of every test of a pack.
- A finished run writes its artifacts into its run directory. `approve-agent` (another
  process) and the review server (a request thread) run the approval over that directory
  under a file lock. The server's downloads read the same files without the lock.
- The server runs one operation at a time under `operation_lock`: an audit, which a worker
  thread continues after the request has been answered, or an approval. A reaper thread
  expires uploads meanwhile.

### What is hard

| Behaviour | Where | What must hold |
|---|---|---|
| Evidence outlives the proposal it was about | `agent_tools.py:815`, `:1142`, `:1018` | no verdict or experiment of an earlier candidate supports a repair |
| Two loops over one state, one inside a call of the other | `falsifier.py:65` | the falsifier moves nothing of the manager's |
| Phases are computed once per turn, calls change the state between | `agent_loop.py:272`, `:579` | a decided run does nothing more; a tested proposal is not dropped |
| Ten budgets, any of which may end first | `agent_budget.py:152`, `agent_loop.py:254` | all-or-nothing charges; the last turn still closes the run; every run ends |
| Failures inside a tool call become observations | `agent_tools.py:364` | a decision that could not be recorded must not look recorded |
| Crash, failure or second reviewer in the middle of an approval | `agentic.py:844`–`1098` | nothing or one whole release from the reviewed inputs; a retry succeeds |
| Files are checked one by one without the lock and read again to be sent | `ui.py:311` | only the committed release is served |
| Run and approval write the same report | `agentic.py:813` | the committed release stays committed |
| A provider fails, repeats, breaks its contract, bills for what is thrown away | `model_client.py:193` | each attempt and each token reaches the ledger once |
| Messages are dropped to fit the context | `agent_loop.py:403` | each call stays with its result |
| A write of the trail fails or its process dies, and the run goes on | `trace.py:88` | no result is published beside a trail with a gap |
| Workbook, code and pack change during a verification | `policy_pack_runtime.py:52`, `:165` | a verdict is true of what it names |
| Two walks over one graph with two ways to name a cell | `formula.py:349`, `:675` | what the check passed evaluates, to what was meant |
| Uploads are claimed, retained, expired and deleted by four threads | `ui.py:483`–`541`, `:1079`–`:1235` | no directory is forgotten or deleted under its user |

`PROJECT.json` lists each at its line under `hazards`, with the property that covers it or
the reason none does yet.

## 2. The modules

    AgentBudget          the ledger: charges, limits, clock
      AuditRun           the run: both loops, every tool, over the ledger
        MCAuditRun       small instances for TLC
        AuditRunProofs   theorems
    AuditAuthority       what a run promises; AuditRun implements it
    ApprovalTransaction  run artifacts, reviewers, the server's downloads
      ApprovalTransactionProofs
    ApprovalRegister     what the files promise; ApprovalTransaction implements it
    UploadServer         uploads, operation lock, worker, reaper and removals
      MCUploadServer     symmetry of its handlers and uploads for TLC
      UploadServerProofs
    UploadLifecycle      what the server promises each upload; UploadServer implements it
    ModelExchange        the conversation of a loop, the model client, over AgentBudget
      MCModelExchange    a small allowance, symmetry of tools
      ModelExchangeProofs
    ModelTurns           what a loop takes an exchange to be; ModelExchange implements it
    Trajectory           the event file: append, chain, failing writes, verification
    RepairSearch         failing cases, localization, the choice of a patch
      TracedAudit        the three workflows that keep a trail, over both
        MCTracedAudit    six workbooks of four cells
        TracedAuditProofs
    PolicyOracle         the policy twice: interpreted, and as formulas; the generated tests
      PackVerification   releases, the server's pack, verify_with_policy_pack
        MCPackVerification  a suite, careless releases
        PackVerificationProofs
    FormulaLanguage      syntax trees: subset, references, evaluation
      FormulaText        tokens: parser, structural edit, rendering
        FormulaLanguageProofs  theorems about both
      WorkbookExperiment the experiment worker and the preflight of an upload
        WorkbookExperimentProofs
        WorkbookEdits    the worker, given the text of edits
          MCWorkbookExperiment  workbooks of two sheets, requests

### AgentBudget

`usage[r]` is the counter of resource `r`, `elapsed` the reading of the monotonic clock.
Every method of `AgentBudgetLedger` holds its lock while it computes the usage it would
reach, compares every limit and commits, so a charge is one atomic step (`Charge`) or none
(`Exceeded`). The clock may move between any two steps. The module has operators and no
specification of its own: `AuditRun` composes them into its steps.

### AuditRun

| Variable | Code |
|---|---|
| `citations` | `len(state.citations)`: how many distinct passages have been registered |
| `experiments` | `state.experiments`, each by its actor, design, applied formula overrides, bound candidate and the outcome of its comparisons |
| `candidate`, `verdict`, `decision` | the fields of `AgentRunState`; a candidate is its content because `proposal_id` is a hash of it |
| `running`, `step` | which loop has control, and whether it is about to ask or executing calls |
| `loop[a]` | the loop's locals: offered tools, calls left of this response, `final_turn`, whether the budget allows another turn, experiment attempts, recovery phase, successful cacheable calls, last input size |
| `memory` | the controller's view of earlier staging and finishing attempts; `unrecorded` is a history variable, set while a verdict stands whose falsification could not be recorded |

The models are the environment. A response holds between one and `Parallel` calls to tools
that were offered; arguments are chosen by `\E`, so every order of calls and every choice of
cited evidence is explored. `ModelClient` guarantees at least one call to an offered tool or
an error, so a response without calls is `ModelFails`.

The actions follow the code in the order it takes:

- `PreflightStops`, `NoToolOffered`, `AskModel`, `ModelOverruns`, `ModelFails`, `EndTurn`:
  one iteration of `ToolCallingAgent.run`. `RequestTools` is `_request_tools` with all its
  phases (terminal, forced experiment, recovery, candidate, retry, evidence, coordination).
- `Read`, `InspectDependencies`, `CachedRead`, `RunExperiment`, `RunExperimentFails`: the
  evidence tools of both actors. Passages and experiments are registered before the size of
  a result is checked, so they are kept when the call itself is refused.
- `StageCandidate`, `StageCandidateFails`, `FalsifyCandidate`, `SubmitRepair`,
  `FinishNoChange`, `RequestHuman`, `CallRefused`, `ToolBudgetStops`: the manager's tools.
- `ReportFalsification`, `FalsifierReturns`, `FalsifierUnrecorded`: the falsifier's verdict,
  what `_falsify_candidate` does when the nested loop is over, and the same when the end of
  the loop cannot be written to the trail: the call fails and the verdict stays.
- `Raise` is an exception that leaves a loop: it ends a manager's run as an abstention,
  becomes an inconclusive verdict when the falsifier runs out of budget, and an observation
  of the manager's call when the falsifier fails otherwise.

What is abstracted: prompts, passages, cell contents and money. An experiment keeps the
facts later code reads (who ran it, which design, which edits it applied, whether it was
bound, whether its expectations held). Whether a policy exception still needs coverage is a
matter of wording and is nondeterministic (`scope`). Read-only tools that differ only in
what they print are one tool, `read`.

### AuditAuthority

A proposal is staged, which forgets earlier tests; it is tested; the run closes with
REPAIR only if the staged proposal survived, or declines. The refinement maps a
manager-falsifier run's verdict, or a single-agent run's own passing experiments on the
staged edits, to `tested`.

### ApprovalTransaction

`files` are the three published artifacts, `proposal` whether `proposal.json` exists, `run`
what the run writes next. `approver[a]` is reviewer `a`'s transaction: its place, its input
snapshot, the sealed approval and the next file to publish; snapshots and pending files
carry a fresh transaction id in the code, so they are fields of that record. `lock` is
`.approval.lock`. `download` is the server's request: the marker and report it has read so
far; `served` what it last sent. Contents are compared instead of hashes.

`Acquire`, `Check`, `CopySnapshot`, `Seal`, `Publish` (once per file), `Leave` are the steps
of `approve_agentic_proposal`; `StepFails` is any exception before the `finally`,
`ReviewerDies` the death of the process, which only releases the lock. `EditInputs` is the
user editing the workbook or the policy at any moment. `FindFiles`, `ReadApproval`,
`ReadReport`, `CompareHashes`, `Send` are `_valid_approval_commit` and the read of the file
that is sent.

`AwaitReport` says that reviewers act after the run has returned. The server guarantees it,
since it knows a session only then; the command line does not, which is what
`approval_during_run` shows.

### ApprovalRegister

A register that is written at most once. The refinement shows it a release when the three
files are there and belong together, and nothing otherwise.

### UploadServer

| Variable | Code |
|---|---|
| `uploads` | `uploads`: a `StagedWorkbook` is "staged", an `UploadedAuditInput` is "ready" |
| `retained`, `pending` | `retained_uploads`, `cleanup_pending_uploads`; an upload has one run and at any time one cleanup key, so the upload stands for both |
| `processing` | `upload_processing`, by the handler that holds the reservation |
| `locked` | `operation_lock.locked()` |
| `disk` | the directory of an upload: never made, with its files, emptied, or removed |
| `thread` | what each handler, the worker and the reaper do: the request, the place in it, the upload, the directories a cleanup still has to try, the removal under way |

Every request first runs `reap_expired_uploads` (`Arrive`), and an audit of an upload runs it
again (`ReapAgain`). `Reap` is its part under `uploads_lock`; its removals follow one by one
without the lock (`NextRemoval`, `Unlink`, `RemoveDirectory`, `RemovalFails`, `Cleaned`), so
threads may remove one directory at once. Then the branches of `do_POST`: `Reserve`,
`BodyRefused`, `ReceiveWorkbook`, `ReceivePolicy`, `Accept`, `Reject`, `Rejected`,
`ReleaseProcessing` for the two uploads; `FindUpload`, `Acquire`, `Claim`, `StartWorker`,
`StartFails`, `Unstarted` for an audit, continued by `_run_audit` (`Retain`, `Discard`,
`Discarded`, `FinishAudit`); `TakeRetained`, `Approve`, `Approved` for an approval, whose
inside is `ApprovalTransaction`. `FinishOperation` and `Refuse` are the answers that end an
operation or a request early.

Time is not counted: whenever expiry is checked, any set of the tracked uploads may have
become too old. The two files of an upload are one content. `VanishedChildRaises` says what
`shutil.rmtree` does about a file that another thread has unlinked: it raises up to Python
3.12 and goes on from 3.13. It is `TRUE` in every run, as on the versions the repository
ships (`Dockerfile`: 3.12) and tests (3.11); the theorems hold for both. `failures` counts the
failing operations and has two history variables: `early`, the uploads a thread has reported
as removed while their directory was there, and `stuck`, those a thread has given up.

### UploadLifecycle

An upload is absent, prepared in two steps, audited, kept for review and gone, in this
direction and never back; from each of the phases in between it may be given up. The
refinement reads the phase off the tables, the directory and the thread that uses it.

### ModelExchange and ModelTurns

| Variable | Code |
|---|---|
| `messages` | the loop's `messages`, each by its role, the identifiers it calls or answers, and its size |
| `phase`, `request` | where the loop stands; the `ModelRequest` under way |
| `wire` | what the client sends: the bounded messages and the corrections it added |
| `attempt`, `owed`, `pause`, `sinceStart` | locals of `complete`: the attempt, the tokens of answers that were sent back, what is left of a delay, the time since the last start |
| `pending`, `ended` | calls of the turn not yet executed; how the loop ended |
| `meter` | the provider's own count of requests and tokens (external) |

`Ask` is one preflight, bounding (`Bounded`, with `GroupStarts` and `Previews` for what may
be cut away) and the notice; `Pace`, `Send` and `TimePasses` are `_pace_request` and the
attempt; then the provider answers, fails for a while or for good, answers nothing or
something malformed, ignores the tool choice, or calls an undeclared tool. `BrokenContract` sends the
answer back with a correction if it is `Repairable`, `TryAgain` waits (`RetryDelay`).
`ReceiveTurn` charges the whole exchange at once (`TurnCharge`) and `ExecuteCall` appends the
results. `AnthropicTurns` is what `anthropic_transport.py` makes of the messages.

`ModelTurns` is the contract `AuditRun` rests on: an exchange is one step that hands over
calls to offered tools and charges what it cost, or fails and charges its attempts.

### Trajectory, RepairSearch, TracedAudit

A hash commits to all events up to its own, and is modelled as that sequence. A line of the
file is the sequence of pieces found between two newlines, so that a cut event and one glued
to the next can be told from a whole one. `Added`, `Numbered` and `Chained` are `record`;
`Failures` are what a write that raised may have left; `Verifies` is `verify_trajectory`.

`RepairSearch` has the operators of the search: which cells the failing outputs are computed
from (`Localized`), which of them differ from the compiled policy (`Candidates`), the best
strict improvement (`Best`). A candidate is the set of patched cells.

`TracedAudit` runs sessions over one directory. `StartRun`, `Stage`, `Execute`,
`SearchRound`, `DirectEdit`, `WriteProposal`, `WriteEvidence`, `WriteReport` are the stages
of `run_advanced` and `run_baseline`; `Turn`, `TurnsEnd`, `TurnFails`, `VerifyTrail` those of
`run_agentic`; `StartApproval`, `Approve`, `PatchWorkbook`, `WriteSignedReport`,
`WriteManifest` are `_apply_approval`; `ReuseApproved` is `_load_approved_run`. Every write
may fail (`RecordFails`) and every session may die (`SessionDies`). A failed write ends an
advanced or baseline session and is survived by an agent run.

### PolicyOracle and PackVerification

`PolicyOracle` writes the policy twice, as the code does: `EvaluateRuleIR` is the
interpreter, one operator per operation, and `Sheet` the compiled formulas, with any set of
`Defects`: the twelve of `scripts/build_workbooks.mjs` and three missing guards. `GeneratedCases`
are the tests `_generated_cases` derives from the thresholds.

| Variable | Code |
|---|---|
| `code`, `config` | the checked-out version (`_implementation_hashes`) and the pack file beside it |
| `workbook` | the content on disk, as the set of its defects |
| `pack` | `pack_cache` of the running server |
| `run` | the locals of `verify_with_policy_pack`, by the step it has reached |
| `verdicts` | the evidence returned so far |

`Start` and `Stop` are the server's, `Deploy`, `EditWorkbook` and `AlterPack` the world's;
`Begin`, `Inspect`, `CopyWorkbook` or `CopyTorn`, `CheckCopy`, `Batch` or `BatchFails` with
`RunSingle` and `SingleFails`, `CheckSource` and `Judge` are the verification, in its order.
The worker is a new process that runs the code on disk, so with other code, or on a torn copy,
it may answer anything.

### FormulaLanguage, FormulaText and WorkbookExperiment

`FormulaLanguage` starts from syntax trees: `KindOf` is the subset check, `References` what a
formula reads, `Evaluate` the interpreter with its ranks, empty cells and errors. `Trees` are
the trees the parser may make (`Formed`), with the trees in them; `Height` is how deep one is
nested. A sheet has one row, so a range is an interval of columns. `FormulaText` starts from
tokens: `Parse` is the recursive descent of `Parser`, `Render` and `Unwrap` the structural
edit.

`WorkbookExperiment` is one request to a worker: `CheckRequest` and `ApplyEdit` for an
experiment or `Preflight` for an upload; `BuildGraph`, `VisitFormula`, `GraphWalked` for
`validate_formula_dependency_graph`; `EvaluateFormula`, `Evaluated` for `evaluate_cells`;
`Observe` for the response; `WorkerKilled` for the time limit, or for a response that cannot
be written. A workbook's own formulas need not be in the subset: `Preflight` checks those of
an upload and `Guarded` those of an edit, but `run_agentic` and the worker check no base
formula of a workbook from the command line or a benchmark (`agentic.py:551`,
`experiment_worker.py:117`). So the evaluation is that of every form the parser makes, with
the lists that ranges give and the errors of forms it does not know (`Malformed`). The code pops from lists it
filled from sets: every order of a set is taken. The check names cells with their sheet, the
evaluation of an experiment names those of its sheet without it; both are kept.

## 3. What the runs check

| Run | Instance | States | Shows |
|---|---|---|---|
| `two_rounds` | 2 proposals, 1 design, budget for two falsifications, one call per response, at most 3 entries in a decision | 1.6 M | `TypeOK`, `RepairAuthorized`, `InconclusiveStops`, `FalsifierConfined`, `ImplementsAuthority`, `SupportedRepairOffered` |
| `single_agent` | no falsifier, 2 designs, up to 2 calls per response | 1.0 M | `RepairAuthorized`, `ImplementsAuthority` |
| `depleting` | 1 proposal, 2 designs, one falsification, up to 2 calls per response, retries, metered tokens, a clock that runs out | 1.1 M | `LastTurnDecides`, `TestedRepairNotDeclined`, `DecisionFinal`, `Termination` |
| `approval` | 3 reviewers, one with a wrong hash, 3 faults, 2 edits | 34 k | `TypeOK`, `ServedIsApproved`, `ImplementsRegister`, `InterruptedApprovalCompletes` |
| `uploads` | 2 uploads, 2 handlers, worker and reaper, room for one upload and one reservation, 1 failing file operation, 1 worker that does not start | 605 k | `TypeOK`, `UsersKeepTheirFiles`, `LockHandedOver`, `ImplementsLifecycle` |
| `uploads_bounded` | 3 uploads, 1 handler, worker and reaper, room for one, 4 failing file operations, 1 worker that does not start | 1.0 M | `NoUploadLost`, `UploadsBounded` |
| `uploads_deleted` | 2 uploads, 1 handler, worker and reaper, room for one, 4 failing file operations, 1 worker that does not start | 227 k | `EveryUploadDeleted` |
| `exchange` | 2 tools, 3 attempts, 3 turns, 4 requests, 2 retries, 4 tokens, contexts of 3 and 6 messages | 148 k | `TypeOK`, `ConversationsWellFormed`, `AttemptsAccounted`, `ImplementsTurns` |
| `legacy` | 3 workflows, 6 workbooks of 4 cells, 3 cases, 3 sessions, 2 failures | 72 k | `TypeOK`, `PublishedTrailComplete`, `CommitMarkerLast`, `DecisionEarned` |
| `policy_pack` | 4 generated tests and 1 regression, 3 contents and a torn one, 1 deployment, 2 edits, 4 failing workers, 8 careless releases | 185 k | `TypeOK`, `VerdictIsTrue`, `EveryTestAccounted`, `ServedPackAttested`, `SuiteSeparates` |
| `formulas` | workbooks of 2 sheets with 3 formulas on one and 1 on the other, in the subset or not, 8 requests, depth 3 | 215 k | `TypeOK`, `GraphCheckIsExact`, `ValuesAreMeant`, `EditKeepsMeaning` |

One run looks for the violation of something the repository says of itself:

| Run | Says | What happens |
|---|---|---|
| `approval_during_run` | `agentic.py:1085`: the manifest is the commit marker, published last | the run's own report, written after its proposal, overwrites an approved one for good |

### Behaviour worth knowing

These follow from the same handlers. The first three can be reproduced with a configuration
changed as said.

- One response with the calls `stage_candidate` and `finish_no_change` stages a candidate and
  ends the run as NO_CHANGE: the tools are narrowed between turns only (`agent_loop.py:272`), and
  neither `_finish_no_change` nor the loop looks at the candidate, although `agent_loop.py:675`
  calls its falsification mandatory. Parallel calls are the default (`agent_types.py:124`).
  `depleting` shows it with `INVARIANTS FalsificationMandatory` and no other property, the values
  `Free` for `Charges` and `TwoEach` for `EvidenceTurnReserve`, and `Depleting` defined as
  `Limits(6, 2, 8, 3, 0)`: three experiments have to come first.
- Two threads that remove one upload can lose it: the one that has unlinked its file gives up
  and leaves it in the queue, the other takes the missing file for a missing directory
  (`uploaded_inputs.py:214`) and empties the queue (`ui.py:541`). `SECURITY.md:46` says that a
  failed deletion is queued for retries. It takes the `rmtree` of Python up to 3.12, and the
  directory goes with the server's runtime directory when the server ends. `uploads_bounded` with
  `INVARIANTS FailedDeletionsQueued` shows it.
- On its final turns a single-agent run is offered only `request_human`, although its
  validated repair would be accepted (`agent_loop.py:587`; the comment at `:584` says that a
  model is not to spend its last turn on an invalid outcome). `single_agent` with
  `PROPERTIES SupportedRepairOffered` shows it.
- A workbook that was not uploaded is never checked for the formula subset: `SUM`, or `MAX` of
  a range, passes the graph check and is refused when it is evaluated. A bare range is not: its
  formula has a list for a value, which the worker cannot write as JSON if that cell is observed.
- The falsifier's inconclusive verdict stays when the end of its run cannot be written to the
  trail (`falsifier.py:126`), but the manager goes on with an observation of a failed call
  instead of the abstention: the second exception in `InconclusiveStops`.
- The three experiments a no-change must cite (`agent_tools.py:1054`) are counted with
  repetitions, and one expectation suffices (`agent_tools.py:1053`).
- A proposal with a BROKEN verdict may be staged again unchanged; staging clears the verdict,
  and other experiments may then support SURVIVED (`agent_tools.py:780`; the flowchart says
  "Revise or abstain").
- A single-agent run may validate its candidate more than once and any one pass supports the
  repair (`agent_tools.py:1018`; `METRIC.md:35` speaks of one validation experiment).
- In the coordination phase a manager with experiments but no citation, whose experiment
  attempts are spent, has every tool hidden: the run ends by the `RuntimeError` of
  `agent_loop.py:605`, which `PROGRESS.md:74` ("reserve a final fail-closed verdict/decision
  turn") does not expect.
- The abstention that closes an inconclusive run is not recorded when its evidence is longer
  than a decision may list (`agent_tools.py:957`): the exception in `InconclusiveStops`.
- A deterministic run that is repeated empties the trail of the one before (`trace.py:60`),
  and the baseline overwrites its artifacts; the baseline also writes `approval.json` before
  it records its APPROVE event. `CommitMarkerLast` therefore speaks of the baseline's first
  session and takes its report for the marker.
- An event that lost only its newline to a crash passes the verification on resuming; the
  next event is glued to it, and the trail no longer verifies: the exception in
  `CommitMarkerLast`.
- A search whose cost exceeds the budget of case executions ends the run by a `RuntimeError`
  (`budget.py:24`), not by an abstention.
- The report of a NO_CHANGE run names a `repaired.xlsx` that does not exist (`advanced.py:600`).
- The suite generated from the rules misses one defect of the benchmark, the scope of the
  waiver (M10); the regression test of the released pack catches it. `SuiteSeparates` has
  that exception.

### The properties

- `RepairAuthorized`: a repair names the proposal staged at the end, and rests on at least
  one passing experiment on exactly it, of the right actor.
- `FalsifierConfined`: nothing of the manager's moves while the falsifier has control.
- `InconclusiveStops`: an inconclusive verdict ends the run, unless the abstention would list
  too much evidence or the trail has refused the end of the falsification.
- `LastTurnDecides`: the manager never waits at the start of a turn with its turn budget
  used up; the turn that used it closed the run.
- `TestedRepairNotDeclined`: a run never concludes NO_CHANGE over a repair its falsifier has
  judged. An untested one it can drop only with a response whose tools were chosen
  before it was staged, as the
  first point under "Behaviour worth knowing" does.
- `FalsificationMandatory`: no run concludes, other than by an abstention, with a staged
  candidate that has no verdict. It fails, and no run has it: see the same point.
- `SupportedRepairOffered`: a manager that is asked while its repair is supported is offered
  `submit_repair`. It holds with a falsifier and fails without.
- `DecisionFinal`: after the decision nothing is recorded or charged.
- `Termination`: every run ends with a decision.
- `ServedIsApproved`: what was sent is still part of the one committed release.
- `ImplementsRegister`: nothing, or one whole release from the reviewed inputs, and never
  another.
- `InterruptedApprovalCompletes`: if the proposal exists and the inputs are eventually the
  reviewed ones for good, a release is eventually committed.
- `UsersKeepTheirFiles`: who stages, audits or approves an upload is alone with it and finds
  its files, although the reaper decides about them without knowing who will use them next.
- `NoUploadLost`: each directory on disk is in a table or in the hands of a thread, unless one
  thread has given its removal up and another has taken it for removed too early.
- `FailedDeletionsQueued`: the same without the exception, for what was given up. It
  fails, and no run has it: see the second point there.
- `LockHandedOver`: the operation lock is taken exactly while one thread works under it, also
  between the handler of an audit and its worker.
- `UploadsBounded`: the directories on disk exceed the limit by one at most, the one of the
  running audit, and by one for each audit whose worker did not start. One reported as removed
  too early is not counted; its thread's table has forgotten it.
- `EveryUploadDeleted`: each directory is deleted in the end, with the exception of
  `NoUploadLost`.
- `ImplementsLifecycle`: an upload is audited once at most, reviewed only after its audit, and
  not used again once it has been given up.
- `ConversationsWellFormed`: whatever was compacted, repaired or interrupted, a request
  carries a conversation that both kinds of provider accept: each call directly followed by
  its results, and for Anthropic turns that alternate and begin with the user.
- `AttemptsAccounted`: the attempts under way fit what the ledger has left, and when a loop
  goes on the ledger holds every request the provider saw and every token it billed. The tokens
  of an exchange that fails for good are not charged (`agent_loop.py:206`); that loop ends
  there, and a falsifier's becomes an observation of the manager.
- `ImplementsTurns`: an exchange is the one step of `ModelTurns`.
- `PublishedTrailComplete`: no result is published beside a trail that lacks an event the
  session recorded, or has it twice, cut or out of order.
- `CommitMarkerLast`: an approval stands only with the whole copy, the report and the
  proposal it agrees with, and behind its own event.
- `DecisionEarned`: each patch makes more cases pass, a REPAIR passes all of them, and the
  search gives up only where no further cell, localized or not, would help.
- `VerdictIsTrue`: what the evidence says of a test is what that test gives on the workbook
  it names, whatever was edited, checked out or altered meanwhile.
- `EveryTestAccounted`: no test of the release is lost from the evidence; one is skipped only
  behind three failures in a row; PASS needs all of them.
- `ServedPackAttested`: a server that answers serves a release two different persons signed.
- `SuiteSeparates`: interpreter and formulas agree on a grid around the thresholds, and the
  suite catches each workbook with one or two defects. The waivers of the grid are Y and N: the
  interpreter strips blanks around one (`policy_oracle.py:128`), a formula does not.
- `GraphCheckIsExact`: the graph check refuses exactly the graphs that cannot be laid in
  `MaxDepth` layers of one sheet, in whatever order it walks. What it passes meets no cycle and
  no cell that is not evaluated yet; it is refused for a form only if the workbook was not
  uploaded and a formula of it is outside the subset.
- `ValuesAreMeant`: edits that follow each other are accepted, and every value is the one the
  formulas define under the last edit and the last override, however they name a cell.
- `EditKeepsMeaning`: a rendered formula reads as the tree it came from, and the branch kept by
  the structural edit has the value the whole formula had when its condition takes it.

### Bounds, and why they are enough

The production limits (30 manager turns, 14 falsifier turns, 50 model calls, 60 tool calls,
30 executions, 8 retries, reserves of 8 and 10–20 calls) only set where the phases begin.
The instances scale limits and reserves down together and keep their order (terminal
reserve below coordination reserve below limit), so that every phase and every fallback is
reached: a run has time to read, experiment, stage, be falsified, be broken, stage again and
submit, and each budget runs out first in some behaviour. Two proposals are enough for
evidence of one to reach the other; two designs give experiments that differ; one passage is
enough because only whether one exists, and the length of the list, is read
(`EvidenceLimit` is 3 instead of 100 in `two_rounds`, so that it is met). `scope` and all
outcomes stay nondeterministic.

A response may hold several calls by default. `single_agent` and `depleting` have up to two,
so that a call is executed against a state that an earlier one of the same response changed.
`two_rounds` spends its states on a second proposal and a second round instead and has one
call per response; five of its six properties are theorems for every `Parallel`, and
`SupportedRepairOffered` is one wherever there is a falsifier.

In `approval`, two informed reviewers compete while a third is refused, three faults allow
a crash of each in turn or three in one, two edits change the inputs and change them back
between any two steps. The proofs cover every other size.

In `uploads`, two requests, the worker and the reaper meet on one upload while another is
prepared; the limits (20 uploads, 2 reservations in the code) are one so that they bind. The two
runs about removals have one handler instead and more failures: it, the worker and the reaper can
still remove one directory at once, a removal is given up after one or two failures, and four let
two of them be given up, of one directory or of two. The bound needs a third upload (one prepared,
one audited, one refused), which `uploads_bounded` has. `FilesAreKept`, `DirectoriesAreKnown` and
`DirectoriesAreBounded` hold for any number of each.

In `exchange`, three attempts give a failure, a broken contract and its repair in one
exchange, and retries of the run run out before those of a request; a context of three
messages never fits a second turn whole, one of six always does, so that each way of cutting is
taken; one second of interval, delay and time suffices because only whether a pause is left is read.

In `legacy`, three sessions are a run that dies, one that completes or resumes, and an
approval; two failures are one in each. The six workbooks are a clean one, one that three
patches repair, one with more wrong cells than patches, one that no single patch improves any further,
one whose defects hide each other and one seen only far downstream. The depth of four cells is that of an
output over sums over inputs; `CaseLimit` is reached by the largest of them.

In `policy_pack`, one version is deployed over another, so that code, pack file and cache
can each be of either; two edits change a workbook and change it back between any two steps;
four failures are a failed batch and three in a row, and the suite of five is long enough for a
row that a success breaks. `SuiteSeparates` evaluates the whole generated suite, not the four
tests of the instance.

In `formulas`, three formulas on one sheet and one on the other give chains as long as
`MaxDepth` and longer, diamonds, cycles with and without the edited cell, and edges between
sheets; `MaxDependencies` is met and exceeded. `MaxDepth` is 3 for 200, `RangeLimit` 3 for
10 000: only the comparison is read. The workbooks have formulas outside the subset too, on
either sheet, for experiments and for preflights.

`CHECK_DEADLOCK FALSE` stands in the configurations of `AuditRun`, `ModelExchange`,
`TracedAudit`, `PackVerification` and `WorkbookExperiment`: a decided run, an ended loop, a
directory whose sessions are used up, a verification whose bounds are used up and an answered
request stop.

### Fairness

- `AuditRun`: `WF(Controller)`. The controller is one thread; a model call returns or fails
  after its timeouts, and a handler is a bounded computation. Nothing is assumed of the
  models' choices.
- `ApprovalTransaction`: weak fairness of each live reviewer's next step and of the run;
  strong fairness of *some informed reviewer acquiring the lock*. The lock is not waited
  for, so a refused reviewer has to try again: that people do, and that they are not always
  refused, is an assumption about them and used for `InterruptedApprovalCompletes` only.
- `UploadServer`: weak fairness of every handler that has begun a request, of the worker and
  of the reaper, which are threads whose operations end by themselves or by time limits; no
  request has to arrive. Strong fairness of the reaper expiring each upload it could: a
  tracked upload is too old after 30 minutes, and the reaper looks every 30 seconds. For one
  kept for review this also says that not every look meets a running operation
  (`ui.py:527`); a server that is always busy then keeps its reviewed inputs, whatever
  `SECURITY.md:45` says about 30 minutes. Only `EveryUploadDeleted` uses it.

## 4. What is proved

The theorems hold for every value of the constants that the named `ASSUME`s admit, and for
runs of any length. Almost all those assumptions say what kind of values the constants are:
limits are naturals, `None` is none of the things it stands beside, threads differ from each
other. `SearchAssumption` also says what a dependency graph means: a cell is computed from
its cone. TLC evaluates each on the values of a run. Where a theorem needs more, it says so
in an `ASSUME` of its own, which the tables give as its condition.

### AuditRunProofs

From `LimitAssumption`, `RunAssumption`, `NoneAssumption`:

| Theorem | | Condition |
|---|---|---|
| `TypeCorrect` | `Spec => []TypeOK`, with it that no counter passes its limit | |
| `RepairIsAuthorized` | `Spec => []RepairAuthorized` | |
| `DecisionIsFinal` | `Spec => DecisionFinal` | |
| `FalsifierIsConfined` | `Spec => FalsifierConfined` | |
| `RunImplementsAuthority` | `Spec => ImplementsAuthority` | |
| `LastTurnAlwaysDecides` | `Spec => []LastTurnDecides` | |
| `InconclusiveEnds` | `Spec => []InconclusiveStops` | |
| `SupportedRepairIsOffered` | `Spec => SupportedRepairOffered` | `UseFalsifier` |
| `TestedRepairIsNotDeclined` | `Spec => []TestedRepairNotDeclined` | |

`RepairAuthorized` is not inductive: submitting reads a verdict recorded earlier. The
inductive invariant adds `OwnTools` (a loop is offered only its own registry, without which
the falsifier could stage), `FalsifierIsAsked` (the falsifier has control only over a staged
candidate of an open run), `VerdictStands` (a surviving verdict is about the staged
candidate and cites passing experiments of the falsifier bound to it) and
`BoundAfterStaging` (an experiment is bound only if something has been staged, which is what
makes a single-agent run's first staging start untested). `OfferedAreOwn` goes through every
phase of `RequestTools`; one lemma per group of actions shows the invariant preserved.

Three more invariants rest on that one. `LastTurnIsMarked`: as long as a manager without a
turn left has not decided, it is executing the calls of its last turn and its loop's locals
say so, also while the falsifier has control in between. `Recorded` with `InconclusiveStops`:
the evidence only grows, so that a list too long for a decision stays too long, and a
falsification that was not recorded stays so while its verdict stands.
`UntestedIfDeclinable`: as long as the tools offered to the manager under a falsifier contain
`finish_no_change`, it has control, there is no verdict, `falsify_candidate` is not among them,
and if a candidate is staged `stage_candidate` is. Tools are chosen once per response and the
calls of a response change the state, so this cannot say that no candidate is staged: only that
one was staged by this very response, which can then not test it (`DeclinableStep`). Without a
falsifier the final turns hide the repair, which is why `SupportedRepairIsOffered` has a
condition.

### ApprovalTransactionProofs

From `ApprovalAssumption`, `MarkerAssumption`:

| Theorem | | Condition |
|---|---|---|
| `TypeCorrect` | `Spec => []TypeOK`: in particular a finished transaction leaves no temporary | `AwaitReport` |
| `ServedOnlyApproved` | `Spec => []ServedIsApproved` | `AwaitReport` |
| `ApprovalImplementsRegister` | `Spec => ImplementsRegister` | `AwaitReport` |

The inductive invariant says that only the holder of the lock is inside (`Guarded`), that it
publishes only while nothing is approved (`Fresh`), that what it has published so far is its
own sealed release from the reviewed inputs (`SealedOK`, `Published`), that the marker is
there only with the two files it binds (`MarkerOK`), and that a request that has passed a
check holds that very marker (`Requested`). From these a committed release is never touched
again, which is both `ServedIsApproved` and the step condition of the register. Without
`AwaitReport` the register is not implemented: `approval_during_run` violates
`MarkerCommits`.

### UploadServerProofs

From `ServerAssumption`:

| Theorem | |
|---|---|
| `TypeCorrectness` | `Spec => []TypeOK` |
| `LockIsHandedOver` | `Spec => []LockHandedOver` |
| `FilesAreKept` | `Spec => []UsersKeepTheirFiles` |
| `LifecycleIsImplemented` | `Spec => ImplementsLifecycle` |
| `DirectoriesAreKnown` | `Spec => []NoUploadLost` |
| `DirectoriesAreBounded` | `Spec => []UploadsBounded` |

An upload passes from the handler that stages it to the table, to an audit, to the worker, to
the retained ones and to whoever removes it, under two locks, and no variable says whose it
is. The invariant does (`Ownership`): what is
prepared is in no other table and has its files; a thread that stages, has claimed or audits
an upload (`Exclusive`) has it alone, with its files and out of every table; what is retained
has its files unless the approval that removed it is about to take it out; a thread removes
only what is in no table, except that one approval, and never what another has exclusively.
`ShapeOK` says for each place in the code what a thread holds there. `ReadyOnce` is about the
time between finding an upload and claiming it, when `uploads_lock` is free: one that has been
seen ready is never staged again, so that what is claimed is what was found, or nothing.

`Kept` adds that what no thread has reported as removed is known (`NoneForgotten`), because a
cleanup queues whatever it could not remove. That leaves what was reported and is still there.
`Watched` follows it: a directory that has lost its files has a thread about to remove it, or one
that gave it up; and only such a directory, or one already gone, is ever reported early. A
thread that is about to remove a directory holds it. So a directory nobody knows was reported by
one thread and given up by another, which is the exception `NoUploadLost` makes. None of this asks
what `rmtree` does about a file that is gone.

`UploadsBounded` counts: `Room`, the uploads that are tracked or held by a thread, and
`Awaiting`, the reservations whose workbook has not come yet, are together at most
`MaxUploads + 1` and one per worker that did not start; by `Kept` they are all directories but
those reported early. The phases of `UploadLifecycle` depend
on an upload's table entry, its directory and on which thread prepares, audits or ends it
(`SameRoles`); each step moves at most one upload along one edge.

### ModelExchangeProofs

From `LimitAssumption`, `ExchangeAssumption`:

| Theorem | |
|---|---|
| `TypeCorrectness` | `Spec => []TypeOK` |
| `AttemptsAreAccounted` | `Spec => []AttemptsAccounted` |
| `TurnsAreImplemented` | `Spec => ImplementsTurns` |
| `ConversationsAreWellFormed` | `Spec => []ConversationsWellFormed` |

The ledger learns of an exchange when it is over, the provider while it runs. `Account` says
what is between the two: during an exchange the provider has seen `attempt` requests and
billed `owed` tokens more than the ledger (`Metered`), and what the exchange may still need
fits what is left (`Exchange`). That gives both `AttemptsAccounted` and the one atomic charge
of `ModelTurns`. `Conversing` says of the messages, followed by the results still owed for
pending calls, that every call is followed by its results (`Paired`); cutting a conversation
at the start of a group, shortening previews, interrupting a turn and appending a correction
each preserve that. What the Anthropic transport makes of a conversation is computed message by
message (`TurnsAfter`); `Turned` says of the turns after any number of messages that they
alternate, that every turn begins with the results of the one before it (`Replied`), and how
many results the last calls have so far (`Awaits`). A conversation may be of any length: the
proof takes the shortest beginning for which `Turned` fails (`TurnedAlways`).

### TracedAuditProofs

From `SearchAssumption`, `TracedAssumption`:

| Theorem | |
|---|---|
| `TypeCorrectness` | `Spec => []TypeOK` |
| `DecisionsAreEarned` | `Spec => []DecisionEarned` |
| `TrailIsComplete` | `Spec => []PublishedTrailComplete` |
| `MarkerComesLast` | `Spec => []CommitMarkerLast` |

`Searched` follows the search: the patches made so far each reduced the failing cases
(`Earned`), and where the search gave up no single candidate reduces them (`Exhausted`). That
`Best` finds an improvement if there is one needs a minimum of a strict order on finite sets
of cases (`BestImproves`), and that cells outside the localized ones are hopeless follows from
`SearchAssumption` (`OutsideIsHopeless`).

The trail is proved complete twice, because the workflows treat a failed write differently.
The deterministic ones end with it, so wherever they go on the file is exactly what they asked
for, chained (`Followed`, and `Traced` through the approval). The agents' goes on after one:
`AgentTraced` says that every piece in the file carries the type asked under its number and
that the writer's number counts what was asked; when the verification then accepts a file
whose last number is that count, nothing can be missing in between. `Marked` and
`BaselineMarked` follow the approval file by file, through sessions that die between any two.

### PackVerificationProofs

From `PackAssumption`:

| Theorem | |
|---|---|
| `TypeCorrectness` | `Spec => []TypeOK` |
| `EvidenceIsTrue` | `Spec => []VerdictIsTrue` |
| `EvidenceIsComplete` | `Spec => []EveryTestAccounted` |
| `ReleaseIsAttested` | `Spec => []ServedPackAttested` |

A verification reads the workbook, the code and the pack at different times. The invariant
(`Running`) says that its pack is a released one whose tests nobody has altered (`Frozen`),
that the tests run on the content the evidence will name (`OneSource`), that results come in
the order of the tests, skipped only behind three failures (`InOrder`), and that as long as
the code on disk is the release's, every result is what its test gives (`Genuine`). Versions
only grow, so that the last check before the evidence is written means the code was the
release's all along.

### FormulaLanguageProofs, WorkbookExperimentProofs

From `TreeAssumption` (a tree is of one of the forms the parser makes, and the trees in it are
nested less deep) and `WorkbookAssumption` (a workbook has finitely many formulas, each with the
tree the parser makes of it, in the subset or not; its values and those of a request are single
values and no errors):

| Theorem | |
|---|---|
| `ReadsDecide` | the value of any formula depends on no cell but those in `References` |
| `SubsetAnswers` | a formula of the subset gives a value or an error of its data, never `Malformed` or `Unresolved`, if the cells it reads give single values |
| `EvaluationIsMade` | any formula evaluated from values gives an error of its data or its form, or a value, and a list it gives lists only values of its cells |
| `ParseOfRender` | what is rendered from any tree without an unreadable part or an oversized range is read back as that tree |
| `WorkerInvariant` | `Spec => []IInv` |
| `TypesOfWorker` | `Spec => []TypeOK` |
| `GraphCheckExact` | `Spec => []GraphCheckIsExact` |
| `AnswersAsMeant` | `Spec => []ValuesAreMeant` |
| `EditsKeepMeaning` | `Spec => []EditKeepsMeaning` |

What a formula is, reads and evaluates to is defined by recursion over trees, and what a cell
means by recursion over a graph. That such a function is what its recursion says has to be
proved first: solutions for the trees below each height exist and agree (`KindUnfolds`,
`ReadUnfolds`, `ValueUnfolds`; `MeaningUnfolds` for the graphs that have layers). What holds
of every tree then follows from one of least height for which it fails.

The invariant follows one walk through the graph twice. `Stage` says of a walk that has left
some nodes behind that these need only each other, that each count is the number of needs not
yet behind, and that what is ready are exactly the nodes whose needs are all behind. `Deep`
says that the depths noted so far exceed those of the needs behind, and are at most those of
*any* layers the graph has: so a graph with `MaxDepth` layers is never refused for its depth,
and the depths of a finished walk are layers themselves. A walk that is stuck has nodes left that all
need one another, of which the lowest in any layers would be ready. The second walk names the
same cells in another way; `FormulasMeant` and the layers of the accepted graph carry over to
it, so that it ends as well. `EditedTo(n)` says that after `n` edits each formula is the last
one they wrote; `MemoMeans` that what was evaluated has its meaning, which by `ReadsDecide` and
the stage of the walk extends to the next formula; `MemoMade` that it is made of the given values,
and is one value each as long as all formulas are in the subset. So nothing evaluated is ever an
unresolved cell (`EvaluationIsMade`), and only a formula outside the subset can be refused for
its form (`SubsetAnswers`), which `GraphCheckExact` needs.

The parser is a recursive function too, of a rule and a position. It is what its rules say
(`ReadingUnfolds`) because every rule asks others only for what begins further right, or at the
same position for a rule of a lower level: `Rank` counts both, and `Progress` (an expression
that is read has at least one token) keeps the positions moving. `ParseOfRender` is then an
induction over trees, of a statement that does not begin at the first token: wherever the text
of a tree stands, if no colon follows it, the rule of a unary operand reads the tree and stops
behind its text (`ReadsBack`). This is where the parentheses of the rendering are needed: they
make an operation an operand again. Two more inductions, over the arguments of a call, say that
each stands in its place in the text (`ListStands`) and that they are read one after the other
from the last to the first (`ListReadsBack`); and no legible tree is written with a closing
parenthesis in front (`Written`), which the parser would take for an empty list of arguments.

`EditKeepsMeaning` speaks of the state after an evaluation as well, also of one that was
refused. `Grounded` is inductive together with the invariant and says that whatever was evaluated
was evaluated from needs that were. So the value a formula has is the one its cells give it
now, and `UnwrapKeepsValue` compares it with that of the branch as it is read from its text.

### Only model-checked

- `Termination`, `InterruptedApprovalCompletes`, `EveryUploadDeleted`: liveness under fairness.
- `SuiteSeparates`: about one generated suite and one set of defects, all of them values of
  the module; it quantifies over nothing a proof could leave open, and TLC evaluates it.

## 5. Not modelled, and why

- Parsing and rewriting of workbook packages and PDF files, the tokenizer's characters,
  fractions and dates inside formulas, hashes: pure functions of contents. Equal hashes stand
  for equal contents.
- The rate limiter of the public demonstration and the evaluation harness: planned, see below.
- A rollback to code that was checked out before, during one verification: versions only
  grow in `PackVerification`.
- Two approvals of one deterministic run at the same time, and an edit of its workbook between
  its last check and the copy (`advanced.py:207`): that workflow has no lock and is used by one
  person at the command line.
- Pacing is modelled, but no property is about it: one thread keeps one clock.
- Process isolation of the workers: an execution is its charge and its outcome.
- Reordering of renames by a file system that loses power, and torn copies of an input that
  is written while it is copied: both below the level of the source; the second is caught by
  the comparison of hashes.
- The table of jobs (`ui.py:1136`) holds answers and no upload; one job runs at a time and is
  the newest, so that the eviction of the oldest of a hundred never meets it.
- The end of the server, which removes the whole runtime directory.
- Command line, deployment, page.

## 6. Plan

What is left is to model more:

1. `SealedEvaluation` (`agent_evaluation.py`): run, approval and sealed scoring in order, with
   its types and the order of scoring as theorems.
2. `RateLimiter` (`ui.py`): windows and the delay a refused client is told.
