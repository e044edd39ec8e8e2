-------------------------- MODULE PackVerification --------------------------
(***************************************************************************)
(* Verification against an approved policy pack: the server materializes   *)
(* the pack of the checked-out release when it starts, keeps it in memory, *)
(* and verifies a workbook with the frozen suite and no model              *)
(* (policy_pack.py, policy_pack_runtime.py, ui.py, cli.py).                *)
(*                                                                         *)
(* The workbook, the checked-out code and the pack in memory may change at *)
(* any moment.  A hash is its content.  A content of the workbook is the   *)
(* set of its defects.  The worker is a new process that runs the code on  *)
(* disk: what code other than the pack's answers is unknown.               *)
(***************************************************************************)
EXTENDS PolicyOracle, SequencesExt

CONSTANTS
  Generated,         \* the generated tests, in order: [id, inputs, rules]
  RuleIds,           \* the rules of the policy
  Contents,          \* the contents the workbook may have
  Torn,              \* the content of a copy taken during an edit
  Configs(_),        \* the pack files that may come with a version of the code
  Casefold(_),       \* the spelling of a reviewer's name that is compared
  MaxDeploys, MaxEdits, MaxRuns, MaxWorkerFailures

(* What is torn is no content of a workbook.  A pack has generated tests, and the
   regression tests of its file come behind them. *)
ASSUME PackAssumption ==
  /\ Torn \notin Contents
  /\ Generated # <<>> /\ Generated \in Seq(ToSet(Generated))
  /\ \A version \in 1..(MaxDeploys + 1) : \A file \in Configs(version) :
       file.regressions \in Seq(ToSet(file.regressions))
  /\ {MaxDeploys, MaxEdits, MaxRuns, MaxWorkerFailures} \subseteq Nat

VARIABLES
  code,              \* the version of the code on disk
  config,            \* the pack file on disk
  workbook,          \* the content of the workbook on disk
  pack,              \* pack_cache of the running server, or Down
  run,               \* the verification under way, or Idle
  verdicts,          \* the evidence returned so far
  runs, edits, failures  \* counters of the bounds

vars == <<code, config, workbook, pack, run, verdicts, runs, edits, failures>>

Down == [up |-> FALSE]
Idle == [stage |-> "idle"]
Roles == {"POLICY_OWNER", "CONTROLS_REVIEWER"}

Tests(file) == Generated \o file.regressions
Release(version, file) == [code |-> version, tests |-> Tests(file)]

-----------------------------------------------------------------------------
(* The release. *)

(* Mutant of Quorum: names are compared as they are written. *)
QuorumAsWritten(approvals) ==
  /\ {approvals[i].role : i \in DOMAIN approvals} = Roles
  /\ IsInjective([i \in DOMAIN approvals |-> approvals[i].reviewer])
Quorum(approvals) ==
  /\ {approvals[i].role : i \in DOMAIN approvals} = Roles
  /\ IsInjective([i \in DOMAIN approvals |-> Casefold(approvals[i].reviewer)])

Distinct(tests) ==
  /\ IsInjective([i \in DOMAIN tests |-> tests[i].id])
  /\ IsInjective([i \in DOMAIN tests |-> tests[i].inputs])

Attested(approvals, release) ==
  \A i \in DOMAIN approvals : approvals[i].attests = release

(* materialize_policy_pack returns a pack. *)
Materializes(version, file) ==
  LET tests == Tests(file)
      ids == {tests[i].id : i \in DOMAIN tests}
  IN  /\ Quorum(file.approvals)
      /\ Distinct(tests)
      /\ \A i \in DOMAIN tests : tests[i].rules \subseteq RuleIds
      /\ \A i \in DOMAIN file.approvals : file.approvals[i].reviewed \subseteq ids
      /\ file.release = Release(version, file)
      /\ Attested(file.approvals, file.release)

(* validate_materialized_policy_pack: the hashes are computed again, those of
   the implementation from the code on disk. *)
Validates(held) ==
  LET release == [code |-> code, tests |-> held.tests]
  IN  /\ release = held.release
      /\ held.config.release = held.release
      /\ Attested(held.config.approvals, held.release)

(* The server starts. *)
Start ==
  /\ pack = Down
  /\ Materializes(code, config)
  /\ pack' = [up |-> TRUE, config |-> config, tests |-> Tests(config),
              release |-> Release(code, config)]
  /\ UNCHANGED <<code, config, workbook, run, verdicts, runs, edits, failures>>

(* The server stops; the verification it had under way is lost. *)
Stop ==
  /\ pack # Down
  /\ pack' = Down
  /\ run' = Idle
  /\ UNCHANGED <<code, config, workbook, verdicts, runs, edits, failures>>

(* A later version is checked out over the running one; none comes back.  The checks at
   both ends of a verification cannot tell a version that came and went in between. *)
Deploy ==
  /\ code <= MaxDeploys
  /\ code' = code + 1
  /\ \E file \in Configs(code + 1) : config' = file
  /\ UNCHANGED <<workbook, pack, run, verdicts, runs, edits, failures>>

EditWorkbook ==
  /\ edits < MaxEdits
  /\ \E content \in Contents \ {workbook} : workbook' = content
  /\ edits' = edits + 1
  /\ UNCHANGED <<code, config, pack, run, verdicts, runs, failures>>

(* The inputs of a test are a dict of the frozen pack, and can be changed in place. *)
Altered(tests) == [tests EXCEPT ![1].inputs = DefaultInputs]
AlterPack ==
  /\ pack # Down
  /\ pack.tests = pack.release.tests
  /\ pack' = [pack EXCEPT !.tests = Altered(@)]
  /\ UNCHANGED <<code, config, workbook, run, verdicts, runs, edits, failures>>

-----------------------------------------------------------------------------
(* verify_with_policy_pack, under the lock of operations. *)

Continue(fields) == run' = fields /\ UNCHANGED <<verdicts, runs>>
Unchanging == UNCHANGED <<code, config, pack, edits>>
Abort == Continue(Idle)

(* approved_pack, the deep copy and its validation; without them there is no run. *)
Begin ==
  /\ run = Idle
  /\ pack # Down
  /\ runs < MaxRuns
  /\ Validates(pack)
  /\ runs' = runs + 1
  /\ run' = [stage |-> "inspect", pack |-> pack]
  /\ Unchanging /\ UNCHANGED <<workbook, verdicts, failures>>

(* inspect_safety: the hash the evidence will name. *)
Inspect ==
  /\ run.stage = "inspect"
  /\ Continue([stage |-> "copy", pack |-> run.pack, seen |-> workbook])
  /\ Unchanging /\ UNCHANGED <<workbook, failures>>

Copied(content) ==
  Continue([stage |-> "copied", pack |-> run.pack, seen |-> run.seen, snapshot |-> content])

CopyWorkbook ==
  /\ run.stage = "copy"
  /\ Copied(workbook)
  /\ Unchanging /\ UNCHANGED <<workbook, failures>>

(* The workbook is edited while it is copied. *)
CopyTorn ==
  /\ run.stage = "copy"
  /\ edits < MaxEdits
  /\ Copied(Torn)
  /\ \E content \in Contents \ {workbook} : workbook' = content
  /\ edits' = edits + 1
  /\ UNCHANGED <<code, config, pack, failures>>

(* Mutant of SameSource: the copy is not compared. *)
SameSourceUnread == workbook = run.seen
SameSource == workbook = run.seen /\ run.snapshot = run.seen

CheckCopy ==
  /\ run.stage = "copied"
  /\ IF SameSource
     THEN Continue([stage |-> "batch", pack |-> run.pack, seen |-> run.seen,
                    snapshot |-> run.snapshot, results |-> <<>>, streak |-> 0])
     ELSE Abort
  /\ Unchanging /\ UNCHANGED <<workbook, failures>>

(* What a worker reports for one test, when it is not cut short. *)
Answers(test) ==
  IF code # run.pack.release.code \/ run.snapshot = Torn THEN {"PASS", "FAIL", "ERROR"}
  ELSE {Status(test.inputs, run.snapshot)}

Executed(results) == [run EXCEPT !.stage = "executed", !.results = results]

(* execute_batch on the whole suite: every test has an answer, or none. *)
Batch ==
  /\ run.stage = "batch"
  /\ \E results \in [DOMAIN run.pack.tests -> {"PASS", "FAIL"}] :
       /\ \A i \in DOMAIN results : results[i] \in Answers(run.pack.tests[i])
       /\ Continue(Executed(results))
  /\ Unchanging /\ UNCHANGED <<workbook, failures>>

(* A failed worker: of one of the tests, or of the machine. *)
BatchFails ==
  /\ run.stage = "batch"
  /\ \/ /\ \E i \in DOMAIN run.pack.tests : "ERROR" \in Answers(run.pack.tests[i])
        /\ UNCHANGED failures
     \/ /\ failures < MaxWorkerFailures
        /\ failures' = failures + 1
  /\ Continue([run EXCEPT !.stage = "singles"])
  /\ Unchanging /\ UNCHANGED workbook

(* The tests are run one by one; three failures in a row skip the others. *)

(* Mutant of Remaining: the test that is running is counted. *)
RemainingWithThis == Len(run.pack.tests) - Len(run.results)
Remaining == Len(run.pack.tests) - Len(run.results) - 1

(* Mutant of Streak: a success does not end the row of failures. *)
StreakKept(status) == IF status = "ERROR" THEN run.streak + 1 ELSE run.streak
Streak(status) == IF status = "ERROR" THEN run.streak + 1 ELSE 0

Single(status) ==
  LET results == Append(run.results, status)
  IN  IF Streak(status) >= 3
      THEN Continue(Executed(results \o [i \in 1..Remaining |-> "SKIPPED"]))
      ELSE Continue([run EXCEPT !.stage = IF Remaining = 0 THEN "executed" ELSE "singles",
                                !.results = results, !.streak = Streak(status)])

RunSingle ==
  /\ run.stage = "singles"
  /\ \E status \in Answers(run.pack.tests[Len(run.results) + 1]) : Single(status)
  /\ Unchanging /\ UNCHANGED <<workbook, failures>>

SingleFails ==
  /\ run.stage = "singles"
  /\ failures < MaxWorkerFailures
  /\ failures' = failures + 1
  /\ Single("ERROR")
  /\ Unchanging /\ UNCHANGED workbook

CheckSource ==
  /\ run.stage = "executed"
  /\ IF SameSource THEN Continue([run EXCEPT !.stage = "judge"]) ELSE Abort
  /\ Unchanging /\ UNCHANGED <<workbook, failures>>

Decision(results) ==
  LET seen == ToSet(results)
  IN  IF "FAIL" \in seen THEN "FAIL" ELSE IF seen = {"PASS"} THEN "PASS" ELSE "INCONCLUSIVE"

(* Mutant of StillApproved: the pack is validated only when the run begins. *)
StillApprovedAtBegin == run.pack.release = run.pack.config.release
StillApproved == Validates(run.pack)

(* The evidence, unless the pack no longer validates. *)
Judge ==
  /\ run.stage = "judge"
  /\ verdicts' = IF StillApproved
                 THEN verdicts \cup {[workbook |-> run.seen, release |-> run.pack.release,
                                      results |-> run.results, decision |-> Decision(run.results)]}
                 ELSE verdicts
  /\ run' = Idle
  /\ UNCHANGED runs
  /\ Unchanging /\ UNCHANGED <<workbook, failures>>

-----------------------------------------------------------------------------
Init ==
  /\ code = 1
  /\ config \in Configs(1)
  /\ workbook \in Contents
  /\ pack = Down
  /\ run = Idle
  /\ verdicts = {}
  /\ runs = 0 /\ edits = 0 /\ failures = 0

Verify ==
  \/ Begin \/ Inspect \/ CopyWorkbook \/ CopyTorn \/ CheckCopy \/ Batch \/ BatchFails
  \/ RunSingle \/ SingleFails \/ CheckSource \/ Judge

Next == Start \/ Stop \/ Deploy \/ EditWorkbook \/ AlterPack \/ Verify

Spec == Init /\ [][Next]_vars

-----------------------------------------------------------------------------
(* The states have their type: a run that goes test by test has a test left,
   and one that was executed has a result for each (policy_pack_runtime.py:62). *)
TypeOK ==
  /\ code \in 1..(MaxDeploys + 1)
  /\ workbook \in Contents
  /\ pack = Down \/ (pack.up /\ pack.release.code \in 1..code)
  /\ run # Idle => run.stage \in {"inspect", "copy", "copied", "batch", "singles",
                                  "executed", "judge"}
  /\ run.stage = "singles" => Len(run.results) < Len(run.pack.tests)
  /\ run.stage \in {"executed", "judge"} => Len(run.results) = Len(run.pack.tests)
  /\ runs <= MaxRuns /\ edits <= MaxEdits /\ failures <= MaxWorkerFailures

(* What the evidence says of a test is what that test gives on the content the
   evidence names, with the worker the release approved, although it may have been
   edited or altered meanwhile, or a later version checked out (a version that is
   checked out and taken back within one run is not modelled: see Deploy;
   policy_pack_runtime.py:45-171). *)
VerdictIsTrue ==
  \A v \in verdicts : \A i \in DOMAIN v.results :
    v.results[i] \in {"PASS", "FAIL"} =>
      Status(v.release.tests[i].inputs, v.workbook) = v.results[i]

(* No test of the approved release is lost from the evidence.  A test is skipped
   only behind three failures in a row, nothing runs behind them, and a workbook
   passes only if every test ran (policy_pack_runtime.py:62-92, 143-150). *)
EveryTestAccounted ==
  \A v \in verdicts :
    LET cut(i) == i > 3 /\ \E j \in 3..(i - 1) : \A k \in (j - 2)..j : v.results[k] = "ERROR"
    IN  /\ Len(v.results) = Len(v.release.tests)
        /\ \A i \in DOMAIN v.results : v.results[i] = "SKIPPED" <=> cut(i)
        /\ v.decision = "PASS" <=> \A i \in DOMAIN v.results : v.results[i] = "PASS"
        /\ v.decision = "FAIL" <=> \E i \in DOMAIN v.results : v.results[i] = "FAIL"

(* A server that answers serves a release that two different persons attested, one
   for the policy and one for the controls, whose tests all have inputs of
   their own (policy_pack.py:141-152, 550-562, 621-628). *)
ServedPackAttested ==
  pack # Down =>
    /\ \E i, j \in DOMAIN pack.config.approvals :
         LET a == pack.config.approvals[i]
             b == pack.config.approvals[j]
         IN  /\ a.role = "POLICY_OWNER" /\ b.role = "CONTROLS_REVIEWER"
             /\ Casefold(a.reviewer) # Casefold(b.reviewer)
             /\ a.attests = pack.release /\ b.attests = pack.release
    /\ Cardinality({pack.release.tests[i].inputs : i \in DOMAIN pack.release.tests})
         = Len(pack.release.tests)

(* Small variations around every threshold of the policy. *)
Grid ==
  [start : {1}, end : {1, 90}, contract : {-1, 1, 2, 91, 92}, gross : {0, 99, 100, 250, 600},
   returns : {0, 15}, passThrough : {0, 5}, onTime : {9499, 9500}, defects : {200, 201},
   incidents : {0, 1}, waiver : {"Y", "N"}]

(* What a run begins with separates right workbooks from wrong ones.  The compiled
   formulas and the rule interpreter, written apart, agree: on a workbook without a
   defect every input of Grid passes, not only the tests.  (Grid has the boundaries of
   the rules; a waiver with blanks around it, which the interpreter strips and a formula
   does not, is not in it.)  And the suite catches every workbook that has one defect of
   the benchmark, or two, though one may hide the other; only the waiver defect alone
   needs the regression test of the released pack
   (policy_oracle.py:58-202, policy.py:387-417, policy_pack.py:280-408, 567-580). *)
SuiteSeparates ==
  run # Idle /\ run.stage = "inspect" =>
    LET regressions == run.pack.config.regressions
        cases == GeneratedCases \cup {regressions[i].inputs : i \in DOMAIN regressions}
    IN  /\ workbook = {} => \A in \in Grid \cup cases : Status(in, workbook) = "PASS"
        /\ \A a, b \in Defects :
             \/ Detecting({a, b}, cases) # {}
             \/ {a, b} = {"M10"} /\ WaiverScope \notin cases
=============================================================================
