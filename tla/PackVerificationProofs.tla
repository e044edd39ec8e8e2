------------------------ MODULE PackVerificationProofs ------------------------
(***************************************************************************)
(* What the evidence of a verification says, for every pack, every content *)
(* of the workbook, every code checked out meanwhile and any number of     *)
(* failing workers.                                                        *)
(***************************************************************************)
EXTENDS PackVerification, FiniteSetTheorems, TLAPS

---------------------------------------------------------------------------
(* Results. *)

Outcome == {"PASS", "FAIL", "ERROR", "SKIPPED"}

\* Three failures in a row that end at j.
Broken(results, j) == \A k \in (j - 2) .. j : results[k] = "ERROR"

\* The tests behind three failures in a row, which are skipped, and no other.
Accounted(results) ==
    \A i \in DOMAIN results :
       results[i] = "SKIPPED" <=> i > 3 /\ \E j \in 3 .. (i - 1) : Broken(results, j)

\* What ran so far: nothing was skipped, and nothing had to be.
Unbroken(results) ==
    /\ \A i \in DOMAIN results : results[i] # "SKIPPED"
    /\ \A j \in 3 .. Len(results) : ~Broken(results, j)

\* n counts the failures at the end.
Counts(n, results) ==
    /\ n \in 0 .. 2 /\ n <= Len(results)
    /\ \A k \in (Len(results) - n + 1) .. Len(results) : results[k] = "ERROR"
    /\ n < Len(results) => results[Len(results) - n] # "ERROR"

LEMMA UnbrokenIsAccounted ==
    ASSUME NEW results \in Seq(Outcome), Unbroken(results)
    PROVE  Accounted(results)
BY DEF Unbroken, Accounted, Broken

LEMMA NoErrorIsUnbroken ==
    ASSUME NEW n \in Nat, NEW results \in [1 .. n -> {"PASS", "FAIL"}]
    PROVE  /\ results \in Seq(Outcome) /\ Len(results) = n
           /\ Unbroken(results)
<1>1. results \in Seq({"PASS", "FAIL"}) /\ Len(results) = n /\ DOMAIN results = 1 .. n
  OBVIOUS
<1>2. results \in Seq(Outcome)
  BY <1>1 DEF Outcome
<1>3. \A i \in 1 .. n : results[i] \in {"PASS", "FAIL"}
  OBVIOUS
<1>4. \A j \in 3 .. n : ~Broken(results, j)
  <2>1. SUFFICES ASSUME NEW j \in 3 .. n, Broken(results, j)
                 PROVE  FALSE
    OBVIOUS
  <2>2. results[j] = "ERROR" /\ j \in 1 .. n
    BY <2>1 DEF Broken
  <2>3. QED
    BY <1>3, <2>2
<1>5. QED
  BY <1>1, <1>2, <1>3, <1>4 DEF Unbroken

LEMMA Appended ==
    ASSUME NEW results \in Seq(Outcome), NEW status \in Outcome
    PROVE  /\ Append(results, status) \in Seq(Outcome)
           /\ Len(Append(results, status)) = Len(results) + 1
           /\ \A i \in 1 .. Len(results) : Append(results, status)[i] = results[i]
           /\ Append(results, status)[Len(results) + 1] = status
OBVIOUS

\* One more test ran, and the row of failures is shorter than three.
LEMMA StaysUnbroken ==
    ASSUME NEW results \in Seq(Outcome), NEW status \in Outcome \ {"SKIPPED"},
           NEW n, Unbroken(results), Counts(n, results),
           NEW m \in 0 .. 2, m = IF status = "ERROR" THEN n + 1 ELSE 0
    PROVE  Unbroken(Append(results, status)) /\ Counts(m, Append(results, status))
<1> DEFINE longer == Append(results, status)
           len == Len(results)
<1>1. /\ len \in Nat /\ Len(longer) = len + 1 /\ DOMAIN longer = 1 .. (len + 1)
      /\ \A i \in 1 .. len : longer[i] = results[i]
      /\ longer[len + 1] = status
      /\ DOMAIN results = 1 .. len
  BY Appended
<1> HIDE DEF longer
<1>2. Counts(m, longer)
  <2>1. CASE status = "ERROR"
    <3>1. m = n + 1 /\ n \in 0 .. 1
      BY <2>1 DEF Counts
    <3>2. ASSUME NEW k \in (Len(longer) - m + 1) .. Len(longer)
          PROVE  longer[k] = "ERROR"
      BY <1>1, <2>1, <3>1 DEF Counts
    <3>3. m < Len(longer) => longer[Len(longer) - m] # "ERROR"
      BY <1>1, <3>1 DEF Counts
    <3>4. QED
      BY <1>1, <3>1, <3>2, <3>3 DEF Counts
  <2>2. CASE status # "ERROR"
    BY <1>1, <2>2 DEF Counts
  <2>3. QED
    BY <2>1, <2>2
<1>3. ASSUME NEW j \in 3 .. Len(longer), Broken(longer, j)
      PROVE  FALSE
  <2>1. CASE j <= len
    <3>1. Broken(results, j)
      BY <1>1, <1>3, <2>1 DEF Broken
    <3>2. QED
      BY <1>1, <2>1, <3>1 DEF Unbroken
  <2>2. CASE j = len + 1
    <3>1. longer[j] = "ERROR" /\ longer[j - 1] = "ERROR" /\ longer[j - 2] = "ERROR"
      BY <1>1, <1>3 DEF Broken
    <3>2. results[len] = "ERROR" /\ results[len - 1] = "ERROR"
      BY <1>1, <2>2, <3>1
    <3>3. m = n + 1 /\ n \in 0 .. 1
      BY <1>1, <2>2, <3>1 DEF Counts
    <3>4. QED
      BY <1>1, <2>2, <3>2, <3>3 DEF Counts
  <2>3. QED
    BY <1>1, <2>1, <2>2
<1>4. \A i \in DOMAIN longer : longer[i] # "SKIPPED"
  BY <1>1 DEF Unbroken
<1>5. QED
  BY <1>2, <1>3, <1>4 DEF Unbroken, longer

\* The third failure in a row skips what remains.
LEMMA SkipsTheRest ==
    ASSUME NEW results \in Seq(Outcome), Unbroken(results), Counts(2, results), NEW rest \in Nat
    PROVE  LET all == Append(results, "ERROR") \o [i \in 1 .. rest |-> "SKIPPED"]
           IN  /\ all \in Seq(Outcome)
               /\ Len(all) = Len(results) + 1 + rest
               /\ Accounted(all)
               /\ \A i \in 1 .. Len(results) : all[i] = results[i]
               /\ \A i \in (Len(results) + 1) .. Len(all) : all[i] \in {"ERROR", "SKIPPED"}
<1> DEFINE len == Len(results)
           first == Append(results, "ERROR")
           last == [i \in 1 .. rest |-> "SKIPPED"]
           joined == first \o last
<1>1. /\ len \in Nat /\ first \in Seq(Outcome) /\ Len(first) = len + 1
      /\ \A i \in 1 .. len : first[i] = results[i]
      /\ first[len + 1] = "ERROR"
  BY Appended DEF Outcome
<1>2. last \in Seq(Outcome) /\ Len(last) = rest /\ \A i \in 1 .. rest : last[i] = "SKIPPED"
  BY DEF Outcome
<1> HIDE DEF first, last
<1>3. /\ joined \in Seq(Outcome) /\ Len(joined) = len + 1 + rest /\ DOMAIN joined = 1 .. (len + 1 + rest)
      /\ \A i \in 1 .. (len + 1) : joined[i] = first[i]
      /\ \A i \in (len + 2) .. (len + 1 + rest) : joined[i] = last[i - len - 1]
  BY <1>1, <1>2
<1> HIDE DEF joined
<1>4. /\ \A i \in 1 .. len : joined[i] = results[i] /\ results[i] # "SKIPPED"
      /\ joined[len + 1] = "ERROR"
      /\ \A i \in (len + 2) .. (len + 1 + rest) : joined[i] = "SKIPPED"
  BY <1>1, <1>2, <1>3 DEF Unbroken
<1>5. Broken(joined, len + 1) /\ len + 1 >= 3
  BY <1>1, <1>4 DEF Broken, Counts
<1>6. ASSUME NEW i \in 1 .. (len + 1)
      PROVE  ~\E j \in 3 .. (i - 1) : Broken(joined, j)
  <2>1. SUFFICES ASSUME NEW j \in 3 .. (i - 1), Broken(joined, j)
                 PROVE  FALSE
    OBVIOUS
  <2>2. j \in 3 .. len
    BY <1>1
  <2>3. Broken(results, j)
    BY <1>1, <1>4, <2>1, <2>2 DEF Broken
  <2>4. QED
    BY <2>2, <2>3 DEF Unbroken
<1>7. Accounted(joined)
  <2>1. ASSUME NEW i \in 1 .. (len + 1)
        PROVE  joined[i] # "SKIPPED" /\ ~(i > 3 /\ \E j \in 3 .. (i - 1) : Broken(joined, j))
    BY <1>1, <1>4, <1>6
  <2>2. ASSUME NEW i \in (len + 2) .. (len + 1 + rest)
        PROVE  joined[i] = "SKIPPED" /\ i > 3 /\ \E j \in 3 .. (i - 1) : Broken(joined, j)
    <3>1. len + 1 \in 3 .. (i - 1)
      BY <1>1, <1>5
    <3>2. QED
      BY <1>1, <1>4, <1>5, <3>1
  <2>3. QED
    BY <1>1, <1>3, <2>1, <2>2 DEF Accounted
<1>8. \A i \in (len + 1) .. Len(joined) : joined[i] \in {"ERROR", "SKIPPED"}
  BY <1>1, <1>3, <1>4
<1>9. QED
  BY <1>3, <1>4, <1>7, <1>8 DEF joined, first, last

---------------------------------------------------------------------------
(* The pack that is served, and the pack of a verification. *)

Files == UNION {Configs(version) : version \in 1 .. (MaxDeploys + 1)}

\* The release of p is one that its file attests, and materializes.
Released(p) ==
    /\ p.config \in Files
    /\ p.release = Release(p.release.code, p.config)
    /\ p.release.code \in 1 .. code
    /\ Quorum(p.config.approvals)
    /\ Attested(p.config.approvals, p.release)
    /\ Distinct(p.release.tests)

Served ==
    pack # Down =>
       /\ pack = [up |-> TRUE, config |-> pack.config, tests |-> pack.tests,
                  release |-> pack.release]
       /\ Released(pack)

Frozen(p) == Released(p) /\ p.tests = p.release.tests

---------------------------------------------------------------------------
(* The verification under way. *)

Testing == {"batch", "singles", "executed", "judge"}

Shaped ==
    \/ run = Idle
    \/ run = [stage |-> "inspect", pack |-> run.pack]
    \/ run = [stage |-> "copy", pack |-> run.pack, seen |-> run.seen]
    \/ run = [stage |-> "copied", pack |-> run.pack, seen |-> run.seen,
              snapshot |-> run.snapshot]
    \/ /\ run.stage \in Testing
       /\ run = [stage |-> run.stage, pack |-> run.pack, seen |-> run.seen,
                 snapshot |-> run.snapshot, results |-> run.results, streak |-> run.streak]

\* The tests run on the content the evidence will name.
OneSource ==
    /\ run.stage \in {"copy", "copied"} \cup Testing => run.seen \in Contents
    /\ run.stage \in Testing => run.snapshot = run.seen

\* What a run holds of the tests, by its stage.
InOrder ==
    /\ run.stage \in Testing => run.results \in Seq(Outcome)
    /\ run.stage = "batch" => run.results = <<>> /\ run.streak = 0
    /\ run.stage = "singles" => /\ Len(run.results) < Len(run.pack.tests)
                                /\ Unbroken(run.results)
                                /\ Counts(run.streak, run.results)
    /\ run.stage \in {"executed", "judge"} => /\ Len(run.results) = Len(run.pack.tests)
                                              /\ Accounted(run.results)

\* The result of a test is what that test gives on the snapshot.
IsTrue(result, test) ==
    result \in {"PASS", "FAIL"} => Status(test.inputs, run.snapshot) = result

\* As long as the code is that of the release, its workers gave every result.
Genuine ==
    run.stage \in Testing /\ code = run.pack.release.code =>
       \A i \in DOMAIN run.results : IsTrue(run.results[i], run.pack.tests[i])

Counters ==
    /\ code \in 1 .. (MaxDeploys + 1)
    /\ config \in Files
    /\ workbook \in Contents
    /\ runs \in 0 .. MaxRuns
    /\ edits \in 0 .. MaxEdits
    /\ failures \in 0 .. MaxWorkerFailures

Running ==
    /\ Shaped
    /\ run # Idle => Frozen(run.pack)
    /\ OneSource
    /\ InOrder
    /\ Genuine

IInv == Counters /\ Served /\ Running /\ VerdictIsTrue /\ EveryTestAccounted

---------------------------------------------------------------------------
(* Packs. *)

\* The tests of a file are a sequence, and there are some.
LEMMA TestsOfAFile ==
    ASSUME NEW file \in Files
    PROVE  \E n \in Nat \ {0} : DOMAIN Tests(file) = 1 .. n /\ Len(Tests(file)) = n
<1> DEFINE all == ToSet(Generated) \cup ToSet(file.regressions)
<1>1. Generated \in Seq(all) /\ file.regressions \in Seq(all)
  BY PackAssumption DEF Files
<1>2. Tests(file) \in Seq(all) /\ Len(Tests(file)) = Len(Generated) + Len(file.regressions)
  BY <1>1 DEF Tests
<1>3. Len(Generated) # 0 /\ Len(Generated) \in Nat /\ Len(file.regressions) \in Nat
  BY <1>1, PackAssumption
<1>4. QED
  BY <1>2, <1>3

LEMMA TestsOfAPack ==
    ASSUME NEW p, Frozen(p)
    PROVE  \E n \in Nat \ {0} : /\ DOMAIN p.tests = 1 .. n /\ Len(p.tests) = n
                                /\ DOMAIN p.release.tests = 1 .. n /\ Len(p.release.tests) = n
<1>1. p.config \in Files /\ p.tests = Tests(p.config) /\ p.release.tests = Tests(p.config)
  BY DEF Frozen, Released, Release
<1>2. QED
  BY <1>1, TestsOfAFile

\* A pack stays what it is while the code goes on.
LEMMA StaysReleased ==
    ASSUME NEW p, Released(p), code \in Nat, code' \in Nat, code <= code'
    PROVE  Released(p)'
BY DEF Released, Quorum, Attested, Distinct, Release

LEMMA StatusIsOutcome ==
    ASSUME NEW in, NEW wrong
    PROVE  Status(in, wrong) \in Outcome \ {"SKIPPED"}
BY DEF Status, Outcome

LEMMA AnswersAreOutcomes ==
    ASSUME NEW test
    PROVE  Answers(test) \subseteq Outcome \ {"SKIPPED"}
BY StatusIsOutcome DEF Answers, Outcome

\* Only the code of the release, on a content of the workbook, binds the answer.
LEMMA AnswerIsTrue ==
    ASSUME NEW test, NEW result \in Answers(test), run.snapshot \in Contents,
           code = run.pack.release.code
    PROVE  IsTrue(result, test)
BY PackAssumption DEF Answers, IsTrue

LEMMA Idles ==
    ASSUME run' = Idle
    PROVE  (Shaped /\ OneSource /\ InOrder /\ Genuine)' /\ (run # Idle => Frozen(run.pack))'
BY DEF Idle, Shaped, OneSource, InOrder, Genuine, Testing

---------------------------------------------------------------------------
(* The counters and the pack. *)

LEMMA CountersStart == Init => Counters
BY PackAssumption DEF Init, Counters, Files

LEMMA CountersStep ==
    ASSUME Counters, [Next]_vars
    PROVE  Counters' /\ code <= code' /\ (code' # code => UNCHANGED <<pack, run, verdicts>>)
<1> USE PackAssumption DEF Counters
<1>1. CASE Deploy
  <2>1. code' = code + 1 /\ code + 1 \in 1 .. (MaxDeploys + 1) /\ config' \in Configs(code + 1)
    BY <1>1 DEF Deploy
  <2>2. config' \in Files
    BY <2>1 DEF Files
  <2>3. QED
    BY <1>1, <2>1, <2>2 DEF Deploy
<1>2. CASE Start
  BY <1>2 DEF Start
<1>3. CASE Stop
  BY <1>3 DEF Stop
<1>4. CASE EditWorkbook
  BY <1>4 DEF EditWorkbook
<1>5. CASE AlterPack
  BY <1>5 DEF AlterPack
<1> USE DEF Unchanging, Continue, Abort
<1>6. CASE Begin
  BY <1>6 DEF Begin
<1>7. CASE Inspect
  BY <1>7 DEF Inspect
<1>8. CASE CopyWorkbook
  BY <1>8 DEF CopyWorkbook, Copied
<1>9. CASE CopyTorn
  BY <1>9 DEF CopyTorn, Copied
<1>10. CASE CheckCopy
  BY <1>10 DEF CheckCopy
<1>11. CASE Batch
  BY <1>11 DEF Batch
<1>12. CASE BatchFails
  BY <1>12 DEF BatchFails
<1>13. CASE RunSingle
  BY <1>13 DEF RunSingle, Single
<1>14. CASE SingleFails
  BY <1>14 DEF SingleFails, Single
<1>15. CASE CheckSource
  BY <1>15 DEF CheckSource
<1>16. CASE Judge
  BY <1>16 DEF Judge
<1>17. CASE UNCHANGED vars
  BY <1>17 DEF vars
<1>18. QED
  BY <1>1, <1>2, <1>3, <1>4, <1>5, <1>6, <1>7, <1>8, <1>9, <1>10, <1>11, <1>12, <1>13,
     <1>14, <1>15, <1>16, <1>17 DEF Next, Verify

\* Only three steps change the pack in memory.
LEMMA PackSteps ==
    ASSUME [Next]_vars
    PROVE  Start \/ Stop \/ AlterPack \/ UNCHANGED pack
BY DEF Next, Verify, Deploy, EditWorkbook, Begin, Inspect, CopyWorkbook, CopyTorn, CheckCopy,
       Batch, BatchFails, RunSingle, SingleFails, CheckSource, Judge, Unchanging, vars

LEMMA ServedStep ==
    ASSUME Counters, Served, [Next]_vars
    PROVE  Served'
<1>1. CASE Start
  <2>1. pack' = [up |-> TRUE, config |-> config, tests |-> Tests(config),
                 release |-> Release(code, config)]
    BY <1>1 DEF Start
  <2>2. Materializes(code, config) /\ code' = code
    BY <1>1 DEF Start
  <2>3. config.release = Release(code, config)
    BY <2>2 DEF Materializes
  <2>4. Quorum(config.approvals) /\ Distinct(Tests(config))
        /\ Attested(config.approvals, Release(code, config))
    BY <2>2, <2>3 DEF Materializes
  <2>5. /\ pack'.config = config /\ pack'.tests = Tests(config) /\ pack'.up = TRUE
        /\ pack'.release = Release(code, config)
    BY <2>1
  <2>6. Release(code, config).code = code /\ Release(code, config).tests = Tests(config)
    BY DEF Release
  <2>7. Released(pack)'
    BY <2>2, <2>4, <2>5, <2>6 DEF Released, Counters
  <2>8. QED
    BY <2>1, <2>5, <2>7 DEF Served
<1>2. CASE Stop
  BY <1>2 DEF Stop, Served
<1>3. CASE AlterPack
  <2>1. pack # Down /\ pack' = [pack EXCEPT !.tests = Altered(pack.tests)] /\ code' = code
    BY <1>3 DEF AlterPack
  <2>2. pack = [up |-> TRUE, config |-> pack.config, tests |-> pack.tests,
                release |-> pack.release] /\ Released(pack)
    BY <2>1 DEF Served
  <2>3. pack' = [up |-> TRUE, config |-> pack.config, tests |-> Altered(pack.tests),
                 release |-> pack.release]
    <3>1. PICK p, up, file, tests, release, altered :
             /\ p = pack /\ up = TRUE /\ file = pack.config /\ tests = pack.tests
             /\ release = pack.release /\ altered = Altered(pack.tests)
      OBVIOUS
    <3>2. p = [up |-> up, config |-> file, tests |-> tests, release |-> release]
      BY <2>2, <3>1, Zenon
    <3>3. [p EXCEPT !.tests = altered]
             = [up |-> up, config |-> file, tests |-> altered, release |-> release]
      BY ONLY <3>2
    <3>4. pack' = [p EXCEPT !.tests = altered]
      BY <2>1, <3>1, Zenon
    <3>5. QED
      BY <3>1, <3>3, <3>4, Zenon
  <2>4. /\ pack'.config = pack.config /\ pack'.release = pack.release
        /\ pack'.tests = Altered(pack.tests)
    BY <2>3
  <2>5. Released(pack)'
    BY <2>1, <2>2, <2>4 DEF Released
  <2>6. QED
    BY <2>3, <2>4, <2>5 DEF Served
<1>4. CASE UNCHANGED pack
  <2>1. ASSUME pack # Down
        PROVE  Released(pack)'
    <3>1. PICK p : p = pack
      OBVIOUS
    <3>2. Released(p)'
      BY <2>1, <3>1, CountersStep, StaysReleased DEF Served, Counters
    <3>3. QED
      BY <1>4, <3>1, <3>2
  <2>2. QED
    BY <1>4, <2>1 DEF Served
<1>5. QED
  BY <1>1, <1>2, <1>3, <1>4, PackSteps

---------------------------------------------------------------------------
(* The steps of a verification. *)

LEMMA Stages ==
    ASSUME Shaped, run # Idle
    PROVE  /\ run.stage \in {"inspect", "copy", "copied"} \cup Testing
           /\ run.stage # "idle"
BY DEF Shaped, Testing

\* The fields of a run whose tests are under way.
LEMMA TestingShape ==
    ASSUME Shaped, run.stage \in Testing
    PROVE  /\ run # Idle
           /\ run = [stage |-> run.stage, pack |-> run.pack, seen |-> run.seen,
                     snapshot |-> run.snapshot, results |-> run.results,
                     streak |-> run.streak]
BY DEF Shaped, Testing, Idle

\* A run that goes on with its tests is as it should be.
LEMMA GoesOn ==
    ASSUME Running, UNCHANGED code,
           run.stage \in {"copied"} \cup Testing, run.snapshot = run.seen,
           NEW stage \in Testing, NEW results \in Seq(Outcome), NEW streak,
           run' = [stage |-> stage, pack |-> run.pack, seen |-> run.seen,
                   snapshot |-> run.snapshot, results |-> results, streak |-> streak],
           stage = "batch" => results = <<>> /\ streak = 0,
           stage = "singles" => /\ Len(results) < Len(run.pack.tests)
                                /\ Unbroken(results) /\ Counts(streak, results),
           stage \in {"executed", "judge"} => /\ Len(results) = Len(run.pack.tests)
                                              /\ Accounted(results),
           code = run.pack.release.code =>
              \A i \in DOMAIN results : IsTrue(results[i], run.pack.tests[i])
    PROVE  Running'
<1>1. /\ run'.stage = stage /\ run'.pack = run.pack /\ run'.seen = run.seen
      /\ run'.snapshot = run.snapshot /\ run'.results = results /\ run'.streak = streak
  OBVIOUS
<1>2. run # Idle /\ Frozen(run.pack) /\ run.seen \in Contents
  BY DEF Running, OneSource, Testing, Idle
<1>3. Shaped'
  BY <1>1 DEF Shaped
<1>4. Frozen(run.pack)'
  BY <1>1, <1>2 DEF Frozen, Released
<1>5. OneSource'
  BY <1>1, <1>2 DEF OneSource
<1>6. InOrder'
  BY <1>1 DEF InOrder
<1>7. Genuine'
  BY <1>1 DEF Genuine, IsTrue
<1>8. QED
  BY <1>3, <1>4, <1>5, <1>6, <1>7 DEF Running

\* A run with new results; every field keeps its name.
LEMMA RunUpdated ==
    ASSUME Shaped, run.stage \in Testing, NEW stage, NEW results, NEW streak
    PROVE  /\ [run EXCEPT !.stage = stage]
                 = [stage |-> stage, pack |-> run.pack, seen |-> run.seen,
                    snapshot |-> run.snapshot, results |-> run.results, streak |-> run.streak]
           /\ [run EXCEPT !.stage = stage, !.results = results]
                 = [stage |-> stage, pack |-> run.pack, seen |-> run.seen,
                    snapshot |-> run.snapshot, results |-> results, streak |-> run.streak]
           /\ [run EXCEPT !.stage = stage, !.results = results, !.streak = streak]
                 = [stage |-> stage, pack |-> run.pack, seen |-> run.seen,
                    snapshot |-> run.snapshot, results |-> results, streak |-> streak]
<1>1. PICK r, old, held, seen, snapshot, first, count :
         /\ r = run /\ old = run.stage /\ held = run.pack /\ seen = run.seen
         /\ snapshot = run.snapshot /\ first = run.results /\ count = run.streak
  OBVIOUS
<1> DEFINE Fields == {"stage", "pack", "seen", "snapshot", "results", "streak"}
           With(res, n) == [stage |-> stage, pack |-> held, seen |-> seen, snapshot |-> snapshot,
                            results |-> res, streak |-> n]
<1>2. r = [stage |-> old, pack |-> held, seen |-> seen, snapshot |-> snapshot,
           results |-> first, streak |-> count]
  BY <1>1, TestingShape, Zenon
<1>3. [r EXCEPT !.stage = stage] = With(first, count)
  BY ONLY <1>2
<1>4. [r EXCEPT !.stage = stage, !.results = results] = With(results, count)
  <2> DEFINE next == [r EXCEPT !.stage = stage, !.results = results]
  <2>1. DOMAIN next = Fields
    BY ONLY <1>2
  <2>2. /\ next.stage = stage /\ next.pack = held /\ next.seen = seen
        /\ next.snapshot = snapshot /\ next.results = results /\ next.streak = count
    BY ONLY <1>2
  <2>3. next = [field \in Fields |-> next[field]]
    BY ONLY <2>1
  <2> HIDE DEF next
  <2>4. next = With(results, count)
    BY ONLY <2>2, <2>3
  <2>5. QED
    BY ONLY <2>4 DEF next
<1>5. [r EXCEPT !.stage = stage, !.results = results, !.streak = streak] = With(results, streak)
  <2> DEFINE next == [r EXCEPT !.stage = stage, !.results = results, !.streak = streak]
  <2>1. DOMAIN next = Fields
    BY ONLY <1>2
  <2>2. /\ next.stage = stage /\ next.pack = held /\ next.seen = seen
        /\ next.snapshot = snapshot /\ next.results = results /\ next.streak = streak
    BY ONLY <1>2
  <2>3. next = [field \in Fields |-> next[field]]
    BY ONLY <2>1
  <2> HIDE DEF next
  <2>4. next = With(results, streak)
    BY ONLY <2>2, <2>3
  <2>5. QED
    BY ONLY <2>4 DEF next
<1>6. QED
  BY <1>1, <1>3, <1>4, <1>5, Zenon

LEMMA RunStays ==
    ASSUME Counters, Running, [Next]_vars, UNCHANGED run
    PROVE  Running'
<1>1. code <= code' /\ code \in Nat /\ code' \in Nat
  BY CountersStep DEF Counters
<1>2. ASSUME run # Idle
      PROVE  Frozen(run.pack)'
  <2>1. PICK p : p = run.pack
    OBVIOUS
  <2>2. Released(p)'
    BY <1>1, <1>2, <2>1, StaysReleased DEF Running, Frozen
  <2>3. QED
    BY <1>2, <2>1, <2>2 DEF Running, Frozen
<1>3. ASSUME run.stage \in Testing, code' = run.pack.release.code
      PROVE  code = run.pack.release.code
  BY <1>1, <1>3, TestingShape DEF Running, Frozen, Released
<1>4. Genuine'
  BY <1>3 DEF Running, Genuine, IsTrue
<1>5. QED
  BY <1>2, <1>4 DEF Running, Shaped, OneSource, InOrder

LEMMA BeginStep ==
    ASSUME Served, Running, Begin
    PROVE  Running'
<1>1. run' = [stage |-> "inspect", pack |-> pack] /\ code' = code /\ pack # Down
      /\ Validates(pack)
  BY DEF Begin, Unchanging
<1>2. run'.stage = "inspect" /\ run'.pack = pack
  BY <1>1
<1>3. pack.tests = pack.release.tests
  BY <1>1 DEF Validates
<1>4. Frozen(run.pack)'
  BY <1>1, <1>2, <1>3 DEF Served, Frozen, Released
<1>5. QED
  BY <1>1, <1>2, <1>4 DEF Running, Shaped, OneSource, InOrder, Genuine, Testing

LEMMA InspectStep ==
    ASSUME Counters, Running, Inspect
    PROVE  Running'
<1>1. run' = [stage |-> "copy", pack |-> run.pack, seen |-> workbook] /\ code' = code
      /\ run # Idle
  BY DEF Inspect, Continue, Unchanging, Idle
<1>2. run'.stage = "copy" /\ run'.pack = run.pack /\ run'.seen = workbook
  BY <1>1
<1>3. Frozen(run.pack)'
  BY <1>1, <1>2 DEF Running, Frozen, Released
<1>4. Shaped' /\ OneSource' /\ InOrder' /\ Genuine'
  BY <1>1, <1>2 DEF Shaped, OneSource, InOrder, Genuine, Testing, Counters
<1>5. QED
  BY <1>3, <1>4 DEF Running

LEMMA CopiedStep ==
    ASSUME Running, run.stage = "copy", NEW content, Copied(content), UNCHANGED code
    PROVE  Running'
<1>1. run' = [stage |-> "copied", pack |-> run.pack, seen |-> run.seen, snapshot |-> content]
      /\ run # Idle
  BY DEF Copied, Continue, Idle
<1>2. run'.stage = "copied" /\ run'.pack = run.pack /\ run'.seen = run.seen
      /\ run'.snapshot = content
  BY <1>1
<1>3. Frozen(run.pack)'
  BY <1>1, <1>2 DEF Running, Frozen, Released
<1>4. Shaped' /\ OneSource' /\ InOrder' /\ Genuine'
  BY <1>1, <1>2 DEF Running, Shaped, OneSource, InOrder, Genuine, Testing
<1>5. QED
  BY <1>3, <1>4 DEF Running

LEMMA AbortStep ==
    ASSUME run' = Idle
    PROVE  Running'
BY Idles DEF Running

LEMMA CheckCopyStep ==
    ASSUME Running, CheckCopy
    PROVE  Running'
<1>1. CASE run' = Idle
  BY <1>1, AbortStep
<1>2. CASE SameSource
  <2>1. run' = [stage |-> "batch", pack |-> run.pack, seen |-> run.seen,
                snapshot |-> run.snapshot, results |-> <<>>, streak |-> 0]
        /\ code' = code /\ run.stage = "copied" /\ run.snapshot = run.seen
    BY <1>2 DEF CheckCopy, Continue, Unchanging, SameSource
  <2>2. "batch" \in Testing /\ <<>> \in Seq(Outcome) /\ DOMAIN <<>> = {}
    BY DEF Testing
  <2>3. QED
    BY <2>1, <2>2, GoesOn
<1>3. QED
  BY <1>1, <1>2 DEF CheckCopy, Abort, Continue

LEMMA BatchStep ==
    ASSUME Running, Batch
    PROVE  Running'
<1>1. PICK results \in [DOMAIN run.pack.tests -> {"PASS", "FAIL"}] :
         /\ \A i \in DOMAIN results : results[i] \in Answers(run.pack.tests[i])
         /\ run' = Executed(results)
  BY DEF Batch, Continue
<1>2. run.stage = "batch" /\ run.stage \in Testing /\ code' = code
  BY DEF Batch, Unchanging, Testing
<1>3. run.snapshot = run.seen /\ run.seen \in Contents /\ Frozen(run.pack)
  BY <1>2, TestingShape DEF Running, OneSource
<1>4. PICK n \in Nat \ {0} : DOMAIN run.pack.tests = 1 .. n /\ Len(run.pack.tests) = n
  BY <1>3, TestsOfAPack
<1>5. results \in Seq(Outcome) /\ Len(results) = n /\ Accounted(results)
  BY <1>1, <1>4, NoErrorIsUnbroken, UnbrokenIsAccounted
<1>6. run' = [stage |-> "executed", pack |-> run.pack, seen |-> run.seen,
              snapshot |-> run.snapshot, results |-> results, streak |-> run.streak]
  BY <1>1, <1>2, RunUpdated DEF Executed, Running
<1>7. code = run.pack.release.code =>
         \A i \in DOMAIN results : IsTrue(results[i], run.pack.tests[i])
  BY <1>1, <1>3, AnswerIsTrue
<1>8. QED
  BY <1>2, <1>3, <1>4, <1>5, <1>6, <1>7, GoesOn DEF Testing

LEMMA BatchFailsStep ==
    ASSUME Running, BatchFails
    PROVE  Running'
<1>1. run' = [run EXCEPT !.stage = "singles"] /\ run.stage = "batch" /\ code' = code
      /\ run.stage \in Testing
  BY DEF BatchFails, Continue, Unchanging, Testing
<1>2. run.snapshot = run.seen /\ Frozen(run.pack) /\ run.results = <<>> /\ run.streak = 0
  BY <1>1, TestingShape DEF Running, OneSource, InOrder
<1>3. PICK n \in Nat \ {0} : DOMAIN run.pack.tests = 1 .. n /\ Len(run.pack.tests) = n
  BY <1>2, TestsOfAPack
<1>4. run' = [stage |-> "singles", pack |-> run.pack, seen |-> run.seen,
              snapshot |-> run.snapshot, results |-> <<>>, streak |-> 0]
  BY <1>1, <1>2, RunUpdated DEF Running
<1>5. <<>> \in Seq(Outcome) /\ Unbroken(<<>>) /\ Counts(0, <<>>) /\ Len(<<>>) = 0
      /\ DOMAIN <<>> = {}
  BY DEF Unbroken, Counts
<1>6. "singles" \in Testing /\ Len(<<>>) < Len(run.pack.tests)
  BY <1>3, <1>5 DEF Testing
<1>7. \A i \in DOMAIN <<>> : IsTrue(<<>>[i], run.pack.tests[i])
  BY <1>5
<1>8. QED
  BY <1>1, <1>2, <1>4, <1>5, <1>6, <1>7, GoesOn

LEMMA SingleStep ==
    ASSUME Running, run.stage = "singles", UNCHANGED code,
           NEW status \in Outcome \ {"SKIPPED"}, Single(status),
           code = run.pack.release.code =>
              IsTrue(status, run.pack.tests[Len(run.results) + 1])
    PROVE  Running'
<1> DEFINE results == run.results
           longer == Append(results, status)
           all == Append(results, "ERROR") \o [i \in 1 .. Remaining |-> "SKIPPED"]
<1>1. run.stage \in Testing /\ run.snapshot = run.seen /\ Frozen(run.pack)
  BY TestingShape DEF Running, OneSource, Testing
<1>2. PICK n \in Nat \ {0} : DOMAIN run.pack.tests = 1 .. n /\ Len(run.pack.tests) = n
  BY <1>1, TestsOfAPack
<1>3. /\ results \in Seq(Outcome) /\ Len(results) < n /\ Len(results) \in Nat
      /\ Unbroken(results) /\ Counts(run.streak, results)
      /\ run.streak \in 0 .. 2
  BY <1>1, <1>2 DEF Running, InOrder, Counts
<1>4. Remaining = n - Len(results) - 1 /\ Remaining \in Nat
  BY <1>2, <1>3 DEF Remaining
<1>5. code = run.pack.release.code =>
         \A i \in 1 .. Len(results) : IsTrue(results[i], run.pack.tests[i])
  BY <1>1, <1>3 DEF Running, Genuine
<1>6. CASE Streak(status) >= 3
  <2>1. status = "ERROR" /\ run.streak = 2
    BY <1>3, <1>6 DEF Streak
  <2>2. Counts(2, results)
    BY <1>3, <2>1
  <2>3. /\ all \in Seq(Outcome) /\ Len(all) = n /\ Accounted(all)
        /\ \A i \in 1 .. Len(results) : all[i] = results[i]
        /\ \A i \in (Len(results) + 1) .. n : all[i] \in {"ERROR", "SKIPPED"}
    <3>1. /\ all \in Seq(Outcome) /\ Accounted(all)
          /\ Len(all) = Len(results) + 1 + Remaining
          /\ \A i \in 1 .. Len(results) : all[i] = results[i]
          /\ \A i \in (Len(results) + 1) .. Len(all) : all[i] \in {"ERROR", "SKIPPED"}
      <4>1. PICK ran, rest : ran = results /\ rest = Remaining
        OBVIOUS
      <4> DEFINE joined == Append(ran, "ERROR") \o [i \in 1 .. rest |-> "SKIPPED"]
      <4>2. ran \in Seq(Outcome) /\ Unbroken(ran) /\ Counts(2, ran) /\ rest \in Nat
        BY <1>3, <1>4, <2>2, <4>1
      <4>3. /\ joined \in Seq(Outcome)
            /\ Len(joined) = Len(ran) + 1 + rest
            /\ Accounted(joined)
            /\ \A i \in 1 .. Len(ran) : joined[i] = ran[i]
            /\ \A i \in (Len(ran) + 1) .. Len(joined) : joined[i] \in {"ERROR", "SKIPPED"}
        BY ONLY <4>2, SkipsTheRest
      <4>4. all = joined
        BY <4>1, Zenon
      <4> HIDE DEF all, results, joined
      <4>5. QED
        BY <4>1, <4>3, <4>4
    <3> HIDE DEF all, results
    <3>2. Len(all) = n
      BY <1>3, <1>4, <3>1
    <3>3. QED
      BY <3>1, <3>2
  <2>4. run' = Executed(all)
    BY <1>6, <2>1 DEF Single, Continue
  <2>5. run' = [stage |-> "executed", pack |-> run.pack, seen |-> run.seen,
                snapshot |-> run.snapshot, results |-> all, streak |-> run.streak]
    BY <1>1, <2>4, RunUpdated DEF Executed, Running
  <2>6. code = run.pack.release.code =>
           \A i \in DOMAIN all : IsTrue(all[i], run.pack.tests[i])
    <3> HIDE DEF all, results
    <3>1. DOMAIN all = 1 .. n
      BY <2>3
    <3>2. QED
      BY <1>3, <1>5, <2>3, <3>1 DEF IsTrue
  <2>7. "executed" \in Testing
    BY DEF Testing
  <2> HIDE DEF all, results
  <2>8. QED
    BY <1>1, <1>2, <2>3, <2>5, <2>6, <2>7, GoesOn
<1>7. CASE ~(Streak(status) >= 3)
  <2> DEFINE stage == IF Remaining = 0 THEN "executed" ELSE "singles"
             streak == Streak(status)
  <2>1. /\ streak \in 0 .. 2
        /\ streak = IF status = "ERROR" THEN run.streak + 1 ELSE 0
    BY <1>3, <1>7 DEF Streak
  <2>2. Unbroken(longer) /\ Counts(streak, longer)
    <3> HIDE DEF streak
    <3>1. QED
      BY <1>3, <2>1, StaysUnbroken
  <2>3. /\ longer \in Seq(Outcome) /\ Len(longer) = Len(results) + 1
        /\ \A i \in 1 .. Len(results) : longer[i] = results[i]
        /\ longer[Len(results) + 1] = status
    BY <1>3, Appended
  <2>4. Accounted(longer)
    BY <2>2, <2>3, UnbrokenIsAccounted
  <2>5. run' = [run EXCEPT !.stage = stage, !.results = longer, !.streak = streak]
    BY <1>7 DEF Single, Continue
  <2> HIDE DEF streak
  <2>6. stage \in Testing /\ stage \in {"executed", "singles"}
        /\ (stage = "executed" => Len(longer) = n) /\ (stage = "singles" => Len(longer) < n)
    BY <1>2, <1>3, <1>4, <2>3 DEF Testing
  <2> HIDE DEF stage, longer
  <2>7. run' = [stage |-> stage, pack |-> run.pack, seen |-> run.seen,
                snapshot |-> run.snapshot, results |-> longer, streak |-> streak]
    BY <1>1, <2>5, RunUpdated DEF Running
  <2>8. code = run.pack.release.code =>
           \A i \in DOMAIN longer : IsTrue(longer[i], run.pack.tests[i])
    <3> HIDE DEF results
    <3>1. DOMAIN longer = 1 .. (Len(results) + 1)
      BY <2>3
    <3>2. code = run.pack.release.code =>
             IsTrue(longer[Len(results) + 1], run.pack.tests[Len(results) + 1])
      BY <2>3 DEF results
    <3>3. code = run.pack.release.code =>
             \A i \in 1 .. Len(results) : IsTrue(longer[i], run.pack.tests[i])
      BY <1>5, <2>3
    <3>4. QED
      BY <1>3, <3>1, <3>2, <3>3
  <2>9. /\ stage = "batch" => longer = <<>> /\ streak = 0
        /\ stage = "singles" => /\ Len(longer) < Len(run.pack.tests)
                                /\ Unbroken(longer) /\ Counts(streak, longer)
        /\ stage \in {"executed", "judge"} => /\ Len(longer) = Len(run.pack.tests)
                                              /\ Accounted(longer)
    BY <1>2, <2>2, <2>4, <2>6
  <2>10. QED
    BY <1>1, <2>3, <2>6, <2>7, <2>8, <2>9, GoesOn
<1>8. QED
  BY <1>6, <1>7

LEMMA RunSingleStep ==
    ASSUME Running, RunSingle
    PROVE  Running'
<1>1. PICK status \in Answers(run.pack.tests[Len(run.results) + 1]) : Single(status)
  BY DEF RunSingle
<1>2. run.stage = "singles" /\ code' = code /\ run.snapshot \in Contents
  BY DEF RunSingle, Unchanging, Running, OneSource, Testing
<1>3. status \in Outcome \ {"SKIPPED"}
  BY <1>1, AnswersAreOutcomes
<1>4. code = run.pack.release.code =>
         IsTrue(status, run.pack.tests[Len(run.results) + 1])
  BY <1>1, <1>2, AnswerIsTrue
<1>5. QED
  BY <1>1, <1>2, <1>3, <1>4, SingleStep

LEMMA SingleFailsStep ==
    ASSUME Running, SingleFails
    PROVE  Running'
<1>1. run.stage = "singles" /\ code' = code /\ Single("ERROR")
      /\ "ERROR" \in Outcome \ {"SKIPPED"}
  BY DEF SingleFails, Unchanging, Outcome
<1>2. IsTrue("ERROR", run.pack.tests[Len(run.results) + 1])
  BY DEF IsTrue
<1>3. QED
  BY <1>1, <1>2, SingleStep

LEMMA CheckSourceStep ==
    ASSUME Running, CheckSource
    PROVE  Running'
<1>1. CASE run' = Idle
  BY <1>1, AbortStep
<1>2. CASE SameSource
  <2>1. run' = [run EXCEPT !.stage = "judge"] /\ code' = code /\ run.stage = "executed"
        /\ run.stage \in Testing /\ run.snapshot = run.seen
    BY <1>2 DEF CheckSource, Continue, Unchanging, SameSource, Testing
  <2>2. run' = [stage |-> "judge", pack |-> run.pack, seen |-> run.seen,
                snapshot |-> run.snapshot, results |-> run.results, streak |-> run.streak]
    BY <2>1, RunUpdated DEF Running
  <2>3. /\ run.results \in Seq(Outcome) /\ Len(run.results) = Len(run.pack.tests)
        /\ Accounted(run.results)
        /\ code = run.pack.release.code =>
              \A i \in DOMAIN run.results : IsTrue(run.results[i], run.pack.tests[i])
    BY <2>1 DEF Running, InOrder, Genuine
  <2>4. "judge" \in Testing
    BY DEF Testing
  <2>5. QED
    BY <2>1, <2>2, <2>3, <2>4, GoesOn
<1>3. QED
  BY <1>1, <1>2 DEF CheckSource, Abort, Continue

LEMMA RunningStep ==
    ASSUME Counters, Served, Running, [Next]_vars
    PROVE  Running'
<1>1. CASE UNCHANGED run
  BY <1>1, RunStays
<1>2. CASE run' = Idle
  BY <1>2, AbortStep
<1>3. CASE Begin
  BY <1>3, BeginStep
<1>4. CASE Inspect
  BY <1>4, InspectStep
<1>5. CASE CopyWorkbook \/ CopyTorn
  BY <1>5, CopiedStep DEF CopyWorkbook, CopyTorn, Unchanging
<1>6. CASE CheckCopy
  BY <1>6, CheckCopyStep
<1>7. CASE Batch
  BY <1>7, BatchStep
<1>8. CASE BatchFails
  BY <1>8, BatchFailsStep
<1>9. CASE RunSingle
  BY <1>9, RunSingleStep
<1>10. CASE SingleFails
  BY <1>10, SingleFailsStep
<1>11. CASE CheckSource
  BY <1>11, CheckSourceStep
<1>12. QED
  BY <1>1, <1>2, <1>3, <1>4, <1>5, <1>6, <1>7, <1>8, <1>9, <1>10, <1>11
     DEF Next, Verify, Start, Stop, Deploy, EditWorkbook, AlterPack, Judge, vars

---------------------------------------------------------------------------
(* The evidence. *)

VerdictTrue(v) ==
    \A i \in DOMAIN v.results :
       v.results[i] \in {"PASS", "FAIL"} =>
          Status(v.release.tests[i].inputs, v.workbook) = v.results[i]

VerdictComplete(v) ==
    /\ Len(v.results) = Len(v.release.tests)
    /\ Accounted(v.results)
    /\ v.decision = "PASS" <=> \A i \in DOMAIN v.results : v.results[i] = "PASS"
    /\ v.decision = "FAIL" <=> \E i \in DOMAIN v.results : v.results[i] = "FAIL"

LEMMA Verdicts ==
    /\ VerdictIsTrue <=> \A v \in verdicts : VerdictTrue(v)
    /\ EveryTestAccounted <=> \A v \in verdicts : VerdictComplete(v)
BY DEF VerdictIsTrue, VerdictTrue, EveryTestAccounted, VerdictComplete, Accounted, Broken

\* Only the judgement changes the evidence.
LEMMA VerdictSteps ==
    ASSUME [Next]_vars
    PROVE  Judge \/ UNCHANGED verdicts
BY DEF Next, Verify, Start, Stop, Deploy, EditWorkbook, AlterPack, Begin, Inspect,
       CopyWorkbook, CopyTorn, Copied, CheckCopy, Batch, BatchFails, RunSingle, SingleFails,
       Single, CheckSource, Abort, Continue, vars

LEMMA DecisionOfResults ==
    ASSUME NEW results \in Seq(Outcome), Len(results) # 0
    PROVE  /\ Decision(results) = "PASS" <=> \A i \in DOMAIN results : results[i] = "PASS"
           /\ Decision(results) = "FAIL" <=> \E i \in DOMAIN results : results[i] = "FAIL"
<1>1. DOMAIN results = 1 .. Len(results) /\ Len(results) \in Nat /\ 1 \in DOMAIN results
  OBVIOUS
<1>2. ToSet(results) = {results[i] : i \in DOMAIN results}
  BY DEF ToSet
<1>3. "FAIL" \in ToSet(results) <=> \E i \in DOMAIN results : results[i] = "FAIL"
  BY <1>2
<1>4. ToSet(results) = {"PASS"} <=> \A i \in DOMAIN results : results[i] = "PASS"
  BY <1>1, <1>2
<1> DEFINE seen == ToSet(results)
<1>5. Decision(results) = IF "FAIL" \in seen THEN "FAIL"
                          ELSE IF seen = {"PASS"} THEN "PASS" ELSE "INCONCLUSIVE"
  BY DEF Decision
<1> HIDE DEF seen
<1>6. /\ Decision(results) = "PASS" <=> ("FAIL" \notin seen /\ seen = {"PASS"})
      /\ Decision(results) = "FAIL" <=> "FAIL" \in seen
  BY <1>5
<1>7. seen = {"PASS"} => "FAIL" \notin seen
  OBVIOUS
<1>8. QED
  BY <1>3, <1>4, <1>6, <1>7 DEF seen

\* What a judgement adds is true and complete.
LEMMA JudgeStep ==
    ASSUME Running, Judge, NEW v \in verdicts' \ verdicts
    PROVE  VerdictTrue(v) /\ VerdictComplete(v)
<1>1. /\ run.stage = "judge" /\ run.stage \in Testing /\ Validates(run.pack)
      /\ v = [workbook |-> run.seen, release |-> run.pack.release, results |-> run.results,
              decision |-> Decision(run.results)]
  BY DEF Judge, StillApproved, Testing
<1>2. /\ v.workbook = run.seen /\ v.release = run.pack.release /\ v.results = run.results
      /\ v.decision = Decision(run.results)
  BY <1>1
<1>3. /\ Frozen(run.pack) /\ run.snapshot = run.seen /\ run.results \in Seq(Outcome)
      /\ Len(run.results) = Len(run.pack.tests) /\ Accounted(run.results)
  BY <1>1, TestingShape DEF Running, OneSource, InOrder
<1>4. run.pack.release.code = code /\ run.pack.tests = run.pack.release.tests
  BY <1>1 DEF Validates
<1>5. \A i \in DOMAIN run.results : IsTrue(run.results[i], run.pack.tests[i])
  BY <1>1, <1>4 DEF Running, Genuine
<1>6. Len(run.results) # 0
  BY <1>3, TestsOfAPack
<1>7. VerdictTrue(v)
  BY <1>2, <1>3, <1>4, <1>5 DEF VerdictTrue, IsTrue
<1>8. VerdictComplete(v)
  BY <1>2, <1>3, <1>4, <1>6, DecisionOfResults DEF VerdictComplete
<1>9. QED
  BY <1>7, <1>8

LEMMA VerdictStep ==
    ASSUME Running, VerdictIsTrue, EveryTestAccounted, [Next]_vars
    PROVE  VerdictIsTrue' /\ EveryTestAccounted'
<1>1. \A v \in verdicts : VerdictTrue(v) /\ VerdictComplete(v)
  BY Verdicts
<1>2. \A v \in verdicts' \ verdicts : VerdictTrue(v) /\ VerdictComplete(v)
  <2>1. CASE Judge
    BY <2>1, JudgeStep
  <2>2. CASE UNCHANGED verdicts
    BY <2>2
  <2>3. QED
    BY <2>1, <2>2, VerdictSteps
<1>3. \A v \in verdicts' : VerdictTrue(v) /\ VerdictComplete(v)
  BY <1>1, <1>2
<1>4. QED
  BY <1>3 DEF VerdictIsTrue, VerdictTrue, EveryTestAccounted, VerdictComplete, Accounted, Broken

---------------------------------------------------------------------------
(* The theorems. *)

LEMMA Invariant == Spec => []IInv
<1>1. Init => IInv
  <2>1. SUFFICES ASSUME Init
                 PROVE  IInv
    OBVIOUS
  <2>2. Counters
    BY <2>1, CountersStart
  <2>3. Served
    BY <2>1 DEF Init, Served
  <2>4. Running
    BY <2>1 DEF Init, Running, Shaped, OneSource, InOrder, Genuine, Testing, Idle
  <2>5. VerdictIsTrue /\ EveryTestAccounted
    BY <2>1 DEF Init, VerdictIsTrue, EveryTestAccounted
  <2>6. QED
    BY <2>2, <2>3, <2>4, <2>5 DEF IInv
<1>2. IInv /\ [Next]_vars => IInv'
  <2>1. SUFFICES ASSUME IInv, [Next]_vars
                 PROVE  IInv'
    OBVIOUS
  <2>2. Counters /\ Served /\ Running /\ VerdictIsTrue /\ EveryTestAccounted
    BY <2>1 DEF IInv
  <2>3. Counters' /\ Served' /\ Running'
    BY <2>1, <2>2, CountersStep, ServedStep, RunningStep
  <2>4. VerdictIsTrue' /\ EveryTestAccounted'
    BY <2>1, <2>2, VerdictStep
  <2>5. QED
    BY <2>3, <2>4 DEF IInv
<1>3. QED
  BY <1>1, <1>2, PTL DEF Spec

(* Every state has its type: a run that goes test by test has a test left, and
   one that was executed has a result for each (policy_pack_runtime.py:62). *)
THEOREM TypeCorrectness == Spec => []TypeOK
<1>1. IInv => TypeOK
  <2>1. SUFFICES ASSUME IInv
                 PROVE  TypeOK
    OBVIOUS
  <2>2. pack = Down \/ (pack.up /\ pack.release.code \in 1..code)
    BY <2>1 DEF IInv, Served, Released
  <2>3. run # Idle => run.stage \in {"inspect", "copy", "copied", "batch", "singles",
                                     "executed", "judge"}
    BY <2>1, Stages DEF IInv, Running, Testing
  <2>4. /\ run.stage = "singles" => Len(run.results) < Len(run.pack.tests)
        /\ run.stage \in {"executed", "judge"} => Len(run.results) = Len(run.pack.tests)
    BY <2>1 DEF IInv, Running, InOrder
  <2>5. /\ code \in 1..(MaxDeploys + 1) /\ workbook \in Contents
        /\ runs <= MaxRuns /\ edits <= MaxEdits /\ failures <= MaxWorkerFailures
    BY <2>1, PackAssumption DEF IInv, Counters
  <2>6. QED
    BY <2>2, <2>3, <2>4, <2>5 DEF TypeOK
<1>2. QED
  BY <1>1, Invariant, PTL

(* What the evidence says of a test is what that test gives on the content the
   evidence names, with the worker the release approved: whatever was edited,
   checked out or altered meanwhile (policy_pack_runtime.py:45-171). *)
THEOREM EvidenceIsTrue == Spec => []VerdictIsTrue
<1>1. IInv => VerdictIsTrue
  BY DEF IInv
<1>2. QED
  BY <1>1, Invariant, PTL

(* No test of the approved release is lost from the evidence: a test is skipped
   only behind three failures in a row, nothing runs behind them, and a workbook
   passes only if every test ran (policy_pack_runtime.py:62-92, 143-150). *)
THEOREM EvidenceIsComplete == Spec => []EveryTestAccounted
<1>1. IInv => EveryTestAccounted
  BY DEF IInv
<1>2. QED
  BY <1>1, Invariant, PTL

\* As many different values as tests.
LEMMA AsManyAsTests ==
    ASSUME NEW n \in Nat, NEW f, DOMAIN f = 1 .. n, IsInjective(f)
    PROVE  Cardinality({f[i] : i \in 1 .. n}) = n
<1> DEFINE S == {f[i] : i \in 1 .. n}
           g == [i \in 1 .. n |-> f[i]]
<1>1. g \in Injection(1 .. n, S)
  BY DEF Injection, IsInjective
<1>2. g \in Surjection(1 .. n, S)
  BY DEF Surjection
<1>3. IsFiniteSet(1 .. n) /\ Cardinality(1 .. n) = n
  BY FS_Interval
<1>4. Cardinality(S) = Cardinality(1 .. n)
  <2> HIDE DEF S, g
  <2>1. QED
    BY ONLY <1>1, <1>2, <1>3, FS_Surjection
<1>5. QED
  BY <1>3, <1>4

(* A server that answers serves a release that two different persons attested, one
   for the policy and one for the controls, whose tests all have inputs of
   their own (policy_pack.py:141-152, 550-562, 621-628). *)
THEOREM ReleaseIsAttested == Spec => []ServedPackAttested
<1>1. IInv => ServedPackAttested
  <2> SUFFICES ASSUME IInv, pack # Down
               PROVE  ServedPackAttested
    BY DEF ServedPackAttested
  <2> DEFINE approvals == pack.config.approvals
             tests == pack.release.tests
  <2>1. /\ Quorum(approvals) /\ Attested(approvals, pack.release) /\ Distinct(tests)
        /\ pack.config \in Files /\ tests = Tests(pack.config)
    BY DEF IInv, Served, Released, Release
  <2>2. PICK i \in DOMAIN approvals : approvals[i].role = "POLICY_OWNER"
    BY <2>1 DEF Quorum, Roles
  <2>3. PICK j \in DOMAIN approvals : approvals[j].role = "CONTROLS_REVIEWER"
    BY <2>1 DEF Quorum, Roles
  <2>4. Casefold(approvals[i].reviewer) # Casefold(approvals[j].reviewer)
    BY <2>1, <2>2, <2>3 DEF Quorum, IsInjective
  <2>5. approvals[i].attests = pack.release /\ approvals[j].attests = pack.release
    BY <2>1 DEF Attested
  <2>6. PICK n \in Nat : DOMAIN tests = 1 .. n /\ Len(tests) = n
    BY <2>1, TestsOfAFile
  <2>7. Cardinality({tests[k].inputs : k \in DOMAIN tests}) = Len(tests)
    <3> DEFINE inputs == [k \in DOMAIN tests |-> tests[k].inputs]
    <3>1. DOMAIN inputs = 1 .. n /\ IsInjective(inputs)
      BY <2>1, <2>6 DEF Distinct
    <3>2. Cardinality({inputs[k] : k \in 1 .. n}) = n
      BY <3>1, AsManyAsTests
    <3>3. {inputs[k] : k \in 1 .. n} = {tests[k].inputs : k \in DOMAIN tests}
      BY <2>6
    <3>4. QED
      BY <2>6, <3>2, <3>3
  <2>8. QED
    BY <2>2, <2>3, <2>4, <2>5, <2>7 DEF ServedPackAttested
<1>2. QED
  BY <1>1, Invariant, PTL
===============================================================================
