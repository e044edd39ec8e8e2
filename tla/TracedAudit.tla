---------------------------- MODULE TracedAudit ----------------------------
(***************************************************************************)
(* The workflows that keep a hash-chained trajectory next to the artifacts *)
(* they release, and what is left of both when a session dies or a write   *)
(* fails:                                                                  *)
(*   - "advanced" (advanced.py) traces each stage, freezes a proposal and  *)
(*     approves it, in the same session or in a later one; its directory   *)
(*     is named after its inputs, so every run of the same inputs meets    *)
(*     what the earlier ones left;                                         *)
(*   - "baseline" (baseline.py) makes one direct edit, in one session;     *)
(*   - "agent" (agentic.py) traces the agents' turns into a fresh          *)
(*     directory and survives a failed write.                              *)
(* One run directory, one workbook and one policy; sessions follow each    *)
(* other (the command line is used by one person at a time).               *)
(***************************************************************************)
EXTENDS RepairSearch, Trajectory

CONSTANTS
  Methods,      \* the workflows to explore
  Reviewer,     \* names given with --reviewer
  None,
  MaxSessions,  \* bound: sessions on the directory
  MaxFailures,  \* bound: writes that fail, or processes that die
  MaxTurns      \* bound: events of the agents' turns

VARIABLES
  method,     \* the workflow of this directory
  workbook,   \* the workbook the directory is named after
  ambiguous,  \* whether the policy has a rule the ambiguity gate refuses
  trail,      \* trajectory.jsonl
  dir,        \* proposal.json, report.json, repaired.xlsx and approval.json
  at,         \* what the running session does next, "idle" when none runs
  writer,     \* its Trajectory object
  asked,      \* the events it was asked to record, in the trail it continues
  reviewer,   \* its reviewer, or None
  patches,    \* the cells it patched, in order
  used,       \* BudgetLedger.workbook_case_executions_used
  started, failures \* how often each bounded thing happened

inputs == <<method, workbook, ambiguous>>
files  == <<trail, dir>>
memory == <<writer, asked, reviewer, patches, used>>
vars   == <<inputs, files, at, memory, started, failures>>

Copy(cells, whole) == [patches |-> cells, whole |-> whole]
EmptyDir == [proposal |-> None, report |-> None, repaired |-> None, approval |-> None]

Approvals == [actor : Reviewer, patches : Seq(Cell), repaired : {None} \cup
               [patches : Seq(Cell), whole : BOOLEAN]]
Results == [decision : {"REPAIR", "NO_CHANGE", "ABSTAIN"}, patches : Seq(Cell),
            approval : {None} \cup Approvals]

ASSUME TracedAssumption ==
  /\ None \notin Results
  /\ None \notin Approvals
  /\ None \notin [patches : Seq(Cell), whole : BOOLEAN]

Init ==
  /\ method \in Methods
  /\ workbook \in Workbook
  /\ ambiguous \in IF method = "advanced" THEN BOOLEAN ELSE {FALSE}
  /\ trail = EmptyTrail /\ dir = EmptyDir
  /\ at = "idle"
  /\ writer = FreshWriter /\ asked = <<>> /\ reviewer = None
  /\ patches = <<>> /\ used = 0
  /\ started = 0 /\ failures = 0

Patched == {patches[i] : i \in DOMAIN patches}
TheDecision == IF ambiguous THEN "ABSTAIN" ELSE Decision(workbook, Patched)
Result(approval) == [decision |-> TheDecision, patches |-> patches, approval |-> approval]

-----------------------------------------------------------------------------
(* Sessions begin and end. *)

Leave == at' = "idle"
Idle(limit) == at = "idle" /\ started < limit /\ started' = started + 1

(* _load_approved_run: what an approved directory must still agree on. *)
Reusable ==
  /\ dir.report # None /\ dir.repaired # None
  /\ dir.approval.patches = dir.report.patches
  /\ dir.approval.repaired = dir.repaired
  /\ dir.report.approval = dir.approval

Approved == method = "advanced" /\ ~ambiguous /\ dir.approval # None

(* A directory without an approval is audited again, whatever it holds. *)
RunsAgain == ~Approved

(* A run of the same inputs, once approved: answered from the directory, or refused. *)
ReuseApproved ==
  /\ method = "advanced" /\ ~RunsAgain
  /\ Idle(MaxSessions)
  /\ UNCHANGED <<inputs, files, at, memory, failures>>

(* run_advanced, run_baseline: the trail is emptied first. *)
StartRun ==
  /\ method \in {"advanced", "baseline"} /\ RunsAgain
  /\ Idle(MaxSessions)
  /\ reviewer' \in Reviewer \cup {None}
  /\ trail' = EmptyTrail /\ writer' = FreshWriter /\ asked' = <<>>
  /\ patches' = <<>> /\ used' = 0
  /\ at' = "ingest"
  /\ UNCHANGED <<inputs, dir, failures>>

(* run_agentic refuses a directory that is not empty. *)
StartAgent ==
  /\ method = "agent" /\ Idle(1)
  /\ trail' = EmptyTrail /\ writer' = FreshWriter /\ asked' = <<>>
  /\ at' = "guardrail"
  /\ UNCHANGED <<inputs, dir, reviewer, patches, used, failures>>

-----------------------------------------------------------------------------
(* Trajectory.record and record_agent_event. *)

Record(type) ==
  /\ trail' = Added(trail, EventOf(writer, type), TRUE)
  /\ writer' = Chained(writer, type)
  /\ asked' = Append(asked, type)

RecordFails(type) ==
  /\ failures < MaxFailures /\ failures' = failures + 1
  /\ trail' \in Failures(trail, EventOf(writer, type))
  /\ writer' = Numbered(writer)
  /\ asked' = Append(asked, type)

(* What each stage records, and the stage after it. *)
Stages ==
  [ingest    |-> [advanced |-> <<"INGEST", "rules">>, baseline |-> <<"INGEST", "execute">>],
   rules     |-> [advanced |-> <<"EXTRACT_RULES", IF ambiguous THEN "gate" ELSE "execute">>],
   gate      |-> [advanced |-> <<"AMBIGUITY_GATE", "evidence">>],
   executed  |-> [advanced |-> <<"EXECUTE_COUNTEREXAMPLES", "localize">>,
                  baseline |-> <<"EXECUTE_VISIBLE_CASES", "edit">>],
   localize  |-> [advanced |-> <<"LOCALIZE", "search">>],
   propose   |-> [advanced |-> <<"PROPOSE_MINIMAL_PATCH", "evidence">>],
   direct    |-> [baseline |-> <<"DIRECT_REPAIR", "evidence">>],
   sign      |-> [advanced |-> <<"APPROVE", "signed_report">>,
                  baseline |-> <<"APPROVE", "report">>],
   guardrail |-> [agent |-> <<"GUARDRAIL", "turns">>],
   stopped   |-> [agent |-> <<"GUARDRAIL", "final">>],
   final     |-> [agent |-> <<"FINAL_STATE", "verify">>]]
Traces == at \in DOMAIN Stages /\ method \in DOMAIN Stages[at]
Stage == Stages[at][method]

RecordStage ==
  /\ Traces
  /\ Record(Stage[1]) /\ at' = Stage[2]
  /\ UNCHANGED <<inputs, dir, reviewer, patches, used, started, failures>>

-----------------------------------------------------------------------------
(* The audit itself. *)

(* BudgetLedger.charge_cases. *)
(* Mutant of Affordable: the ledger compares what is used, not what is asked. *)
AffordableUntilSpent(count) == used <= CaseLimit
Affordable(count) == used + count <= CaseLimit

(* Every visible case is run in the sandbox; the ledger may refuse. *)
Execute ==
  /\ at = "execute"
  /\ IF Affordable(Cardinality(Case))
     THEN at' = "executed" /\ used' = used + Cardinality(Case)
     ELSE Leave /\ UNCHANGED used
  /\ UNCHANGED <<inputs, files, writer, asked, reviewer, patches, started, failures>>

(* One round of the search: charge the candidates, keep the best improvement. *)
SearchRound ==
  /\ at = "search"
  /\ LET cost == RoundCost(workbook, Patched)
     IN  IF ~Affordable(cost)
         THEN Leave /\ UNCHANGED <<patches, used>>
         ELSE /\ used' = used + cost
              /\ IF Improving(workbook, Patched) = {}
                 THEN at' = "propose" /\ UNCHANGED patches
                 ELSE LET best == Best(workbook, Patched)
                      IN  /\ patches' = Append(patches, best)
                          /\ at' = IF \/ Len(patches) + 1 = 3
                                      \/ Failing(workbook, Patched \cup {best}) = {}
                                   THEN "propose" ELSE "search"
  /\ UNCHANGED <<inputs, files, writer, asked, reviewer, started, failures>>

(* The baseline's single edit, kept only when more visible cases pass. *)
DirectEdit ==
  /\ at = "edit"
  /\ \/ patches' = <<>> /\ UNCHANGED used /\ at' = "direct"
     \/ IF ~Affordable(Cardinality(Case))
        THEN Leave /\ UNCHANGED <<patches, used>>
        ELSE /\ used' = used + Cardinality(Case)
             /\ at' = "direct"
             /\ \E x \in Faulty[workbook] : \* a wrong edit may pass no more cases
                  patches' \in IF Passing(workbook, {x}) > Passing(workbook, {})
                               THEN {<<>>, <<x>>} ELSE {<<>>}
  /\ UNCHANGED <<inputs, files, writer, asked, reviewer, started, failures>>

(* An event of the agents' turns: a request, a response, a tool call, ... *)
Turn ==
  /\ at = "turns" /\ Len(asked) < MaxTurns
  /\ Record("TURN")
  /\ UNCHANGED <<inputs, dir, at, reviewer, patches, used, started, failures>>

(* The manager stops: with a decision, or with an error the controller records. *)
TurnsEnd ==
  /\ at = "turns"
  /\ at' \in {"final", "stopped"}
  /\ UNCHANGED <<inputs, files, memory, started, failures>>

(* A turn's event cannot be written: a tool turns the error into its observation *)
(* and the agents go on, or the controller catches it.                            *)
TurnFails ==
  /\ at = "turns" /\ Len(asked) < MaxTurns
  /\ RecordFails("TURN")
  /\ at' \in {"turns", "stopped"}
  /\ UNCHANGED <<inputs, dir, reviewer, patches, used, started>>

(* The agent's proposal is bound to the trail, which must verify. *)
VerifyTrail ==
  /\ at = "verify"
  /\ at' = IF Verifies(trail) THEN "evidence" ELSE "idle"
  /\ UNCHANGED <<inputs, files, memory, started, failures>>

-----------------------------------------------------------------------------
(* Artifacts.  write_json replaces a file as a whole or not at all. *)

(* rules.yaml, formula-diff.json, ...: derived files nothing reads back. *)
WriteEvidence ==
  /\ at = "evidence"
  /\ at' = CASE method = "baseline" /\ patches # <<>> /\ reviewer # None -> "patch"
             [] method = "baseline" /\ (patches = <<>> \/ reviewer = None) -> "report"
             [] OTHER -> "proposal"
  /\ UNCHANGED <<inputs, files, memory, started, failures>>

WriteProposal ==
  /\ at = "proposal"
  /\ dir' = [dir EXCEPT !.proposal = Result(None)]
  /\ at' = "report"
  /\ UNCHANGED <<inputs, trail, memory, started, failures>>

WriteReport ==
  /\ at = "report"
  /\ dir' = [dir EXCEPT !.report =
               IF method = "baseline"
               THEN [decision |-> IF patches = <<>> THEN "NO_CHANGE" ELSE "REPAIR",
                     patches |-> patches,
                     approval |-> IF patches # <<>> /\ reviewer # None
                                  THEN dir.approval ELSE None]
               ELSE Result(None)]
  /\ at' = IF method = "advanced" /\ TheDecision = "REPAIR" /\ reviewer # None
           THEN "approve" ELSE "idle"
  /\ UNCHANGED <<inputs, trail, memory, started, failures>>

-----------------------------------------------------------------------------
(* Approval of the frozen proposal. *)

(* approve_advanced_proposal called on its own: the result is read back. *)
StartApproval ==
  /\ method = "advanced" /\ ~ambiguous
  /\ Idle(MaxSessions)
  /\ dir.proposal # None
  /\ reviewer' \in Reviewer
  /\ patches' = dir.proposal.patches
  /\ at' = "approve"
  /\ UNCHANGED <<inputs, files, writer, asked, used, failures>>

(* A copy an earlier approval left is never written over. *)
MayApply == dir.approval = None /\ TheDecision = "REPAIR" /\ dir.repaired = None

(* The trail is resumed, then the decision and the output are checked. *)
Approve ==
  /\ at = "approve"
  /\ MayApply /\ Resumes(trail)
  /\ writer' = ResumedWriter(trail) /\ asked' = TypesIn(trail)
  /\ at' = "patch"
  /\ UNCHANGED <<inputs, files, reviewer, patches, used, started, failures>>

ApprovalRefused ==
  /\ at = "approve"
  /\ ~(MayApply /\ Resumes(trail))
  /\ Leave
  /\ UNCHANGED <<inputs, files, memory, started, failures>>

(* patch_workbook writes the copy in place. *)
PatchWorkbook ==
  /\ at = "patch"
  /\ dir' = [dir EXCEPT !.repaired = Copy(patches, TRUE)]
  /\ at' = IF method = "advanced" THEN "sign" ELSE "manifest"
  /\ UNCHANGED <<inputs, trail, memory, started, failures>>

Manifest == [actor |-> reviewer, patches |-> patches, repaired |-> dir.repaired]

(* Mutant of Written: the manifest is released before the report agrees with it. *)
WrittenTooEarly(file) ==
  IF file = "report"
  THEN [dir EXCEPT !.approval = Manifest]
  ELSE [dir EXCEPT !.report = Result(Manifest)]
Written(file) ==
  IF file = "report"
  THEN [dir EXCEPT !.report = Result(Manifest)]
  ELSE [dir EXCEPT !.approval = Manifest]

WriteSignedReport ==
  /\ at = "signed_report"
  /\ dir' = Written("report")
  /\ at' = "manifest"
  /\ UNCHANGED <<inputs, trail, memory, started, failures>>

WriteManifest ==
  /\ at = "manifest"
  /\ dir' = Written("approval")
  /\ at' = IF method = "advanced" THEN "idle" ELSE "sign"
  /\ UNCHANGED <<inputs, trail, memory, started, failures>>

-----------------------------------------------------------------------------
(* The session dies, or a write raises: an event may be written in part, the *)
(* copy is left incomplete, a JSON artifact is not replaced.                 *)
SessionDies ==
  /\ at # "idle" /\ failures < MaxFailures
  /\ failures' = failures + 1
  /\ trail' \in IF Traces THEN Failures(trail, EventOf(writer, Stage[1])) ELSE {trail}
  /\ dir' \in IF at = "patch"
              THEN {dir, [dir EXCEPT !.repaired = Copy(<<>>, FALSE)]}
              ELSE {dir}
  /\ Leave
  /\ UNCHANGED <<inputs, memory, started>>

Next ==
  \/ ReuseApproved \/ StartRun \/ StartAgent \/ StartApproval
  \/ RecordStage \/ Execute \/ SearchRound \/ DirectEdit
  \/ Turn \/ TurnsEnd \/ TurnFails \/ VerifyTrail
  \/ WriteEvidence \/ WriteProposal \/ WriteReport
  \/ Approve \/ ApprovalRefused \/ PatchWorkbook \/ WriteSignedReport \/ WriteManifest
  \/ SessionDies

Spec == Init /\ [][Next]_vars

-----------------------------------------------------------------------------
(* Properties *)

EventType == {"INGEST", "EXTRACT_RULES", "AMBIGUITY_GATE", "EXECUTE_COUNTEREXAMPLES",
              "LOCALIZE", "PROPOSE_MINIMAL_PATCH", "APPROVE", "EXECUTE_VISIBLE_CASES",
              "DIRECT_REPAIR", "GUARDRAIL", "FINAL_STATE", "TURN"}

(* Types of the state, and its bounds: at most three patches, and the ledger  *)
(* never above its limit.                                                     *)
TypeOK ==
  /\ method \in Methods /\ workbook \in Workbook /\ ambiguous \in BOOLEAN
  /\ trail.open \in BOOLEAN /\ trail.lines = <<>> => ~trail.open
  /\ dir.proposal \in {None} \cup Results /\ dir.report \in {None} \cup Results
  /\ dir.approval \in {None} \cup Approvals
  /\ dir.repaired \in {None} \cup [patches : Seq(Cell), whole : BOOLEAN]
  /\ writer.sequence \in Nat
  /\ writer.previous \in Seq([sequence : Nat, type : EventType])
  /\ reviewer \in Reviewer \cup {None}
  /\ patches \in Seq(Cell) /\ Len(patches) <= 3
  /\ used \in 0..CaseLimit

(* No proposal is published next to a trail that lacks an event the session   *)
(* was asked to record, has it twice, cut or out of order: a write that       *)
(* failed and was survived leaves a gap in the numbers or a broken chain, and *)
(* the verification before the proposal finds it (trace.py:88, agentic.py:788). *)
PublishedTrailComplete ==
  (\/ at = "report" /\ method = "advanced"
   \/ method = "agent" /\ dir.proposal # None)
  => Verifies(trail) /\ TypesIn(trail) = asked

(* The commit marker comes last.  Whatever session died where, an approval.json *)
(* of the advanced workflow stands next to a whole copy, a report and a         *)
(* proposal that agree with it, and behind its own APPROVE event: the checks of *)
(* _load_approved_run never refuse what approve left.  Only an event that lost  *)
(* its newline to a crash may be glued to that APPROVE event.  The baseline's   *)
(* marker is its report, in the fresh directory the evaluation gives it.        *)
CommitMarkerLast ==
  /\ (method = "advanced" /\ dir.approval # None) =>
       /\ Reusable /\ dir.repaired.whole
       /\ dir.proposal.patches = dir.approval.patches
       /\ <<"APPROVE">> = LastEvent(trail)
       /\ (\A i \in DOMAIN trail.lines : Len(trail.lines[i]) = 1) => Verifies(trail)
  /\ (/\ method = "baseline" /\ started = 1
      /\ dir.report # None /\ dir.report.approval # None) =>
       /\ dir.approval = dir.report.approval
       /\ dir.repaired = dir.approval.repaired /\ dir.repaired.whole
       /\ Verifies(trail) /\ <<"APPROVE">> = LastEvent(trail)

(* Every patch earned its place: taken in the order they were found, each one   *)
(* makes strictly more visible cases pass, of a cell that differs from the      *)
(* policy; a REPAIR passes all of them and a NO_CHANGE has no patch.  And the   *)
(* search gives up only where it is stuck: an ABSTAIN with fewer than three     *)
(* patches means that recompiling no further cell, inside or outside the        *)
(* localized ones, would make more visible cases pass, so restricting the       *)
(* candidates to the dependency cones of the failing outputs loses nothing      *)
(* (advanced.py:136-183, 505-540).                                              *)
DecisionEarned ==
  LET before(i) == {patches[j] : j \in 1..(i - 1)}
      chosen == {dir.proposal.patches[i] : i \in DOMAIN dir.proposal.patches}
  IN  method = "advanced" =>
      /\ \A i \in DOMAIN patches :
           /\ patches[i] \in Faulty[workbook] \ before(i)
           /\ Passing(workbook, before(i) \cup {patches[i]}) > Passing(workbook, before(i))
      /\ dir.proposal # None =>
           CASE dir.proposal.decision = "REPAIR" -> Failing(workbook, chosen) = {}
             [] dir.proposal.decision = "NO_CHANGE" -> chosen = {}
             [] OTHER ->
                  \/ ambiguous \/ Cardinality(chosen) = 3
                  \/ \A x \in Faulty[workbook] :
                       Passing(workbook, chosen \cup {x}) <= Passing(workbook, chosen)
=============================================================================
