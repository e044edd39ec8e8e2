------------------------- MODULE TracedAuditProofs -------------------------
(***************************************************************************)
(* Theorems about the workflows that keep a trail, for every set of        *)
(* workbooks, cells and cases, every dependency graph, any case limit and  *)
(* any number of sessions, failures and turns:                             *)
(*   - TypeCorrectness: the types, the bounds on patches and on the ledger;*)
(*   - DecisionsAreEarned: every patch improved on the ones before it, and *)
(*     an abstention is one no single further cell would have improved;    *)
(*   - TrailIsComplete: a proposal is published next to a trail that holds *)
(*     exactly the events its session was asked to record;                 *)
(*   - MarkerComesLast: an approval stands next to the files it signs.     *)
(***************************************************************************)
EXTENDS TracedAudit, FiniteSetTheorems, WellFoundedInduction, TLAPS

-----------------------------------------------------------------------------
(* RepairSearch: what the search computes. *)

LEMMA CountsAreNatural ==
  ASSUME NEW w \in Workbook, NEW P
  PROVE  /\ Failing(w, P) \in SUBSET Case
         /\ Passing(w, P) \in 0..Cardinality(Case)
         /\ Passing(w, P) = Cardinality(Case) => Failing(w, P) = {}
<1>1. IsFiniteSet(Case) /\ Cardinality(Case) \in Nat
  BY SearchAssumption, FS_CardinalityType
<1>2. Failing(w, P) \in SUBSET Case
  BY DEF Failing
<1> DEFINE S == Case \ Failing(w, P)
<1>3. IsFiniteSet(S) /\ Cardinality(S) <= Cardinality(Case)
      /\ (Cardinality(Case) = Cardinality(S) => Case = S)
  BY <1>1, FS_Subset
<1>4. Cardinality(S) \in Nat
  BY <1>3, FS_CardinalityType
<1>5. QED
  BY <1>1, <1>2, <1>3, <1>4 DEF Passing

LEMMA CandidatesAreFaulty ==
  ASSUME NEW w \in Workbook, NEW P
  PROVE  /\ Candidates(w, P) \subseteq Faulty[w] \ P
         /\ Candidates(w, P) \subseteq Cell
         /\ Faulty[w] \subseteq Cell
         /\ RoundCost(w, P) \in Nat
<1>1. Candidates(w, P) \subseteq Faulty[w] \ P /\ Faulty[w] \subseteq Cell
  BY SearchAssumption DEF Candidates
<1>2. IsFiniteSet(Candidates(w, P))
  BY <1>1, SearchAssumption, FS_Subset
<1>3. Cardinality(Candidates(w, P)) \in Nat /\ Cardinality(Case) \in Nat
  BY <1>2, SearchAssumption, FS_CardinalityType
<1>4. \A a, b \in Nat : a * b \in Nat
  OBVIOUS
<1>5. QED
  BY <1>1, <1>3, <1>4 DEF RoundCost

\* Fewer failing cases, more passing ones.
LEMMA PassingIsMonotone ==
  ASSUME NEW w \in Workbook, NEW P, NEW Q, Failing(w, P) \subseteq Failing(w, Q)
  PROVE  Passing(w, Q) <= Passing(w, P)
<1>1. IsFiniteSet(Case \ Failing(w, P))
  BY SearchAssumption, FS_Subset
<1>2. Case \ Failing(w, Q) \in SUBSET (Case \ Failing(w, P))
  OBVIOUS
<1>3. QED
  BY <1>1, <1>2, FS_Subset DEF Passing

\* Better of two improvements: score first, then cell.
Better(w, P, y, x) ==
  \/ Passing(w, P \cup {y}) > Passing(w, P \cup {x})
  \/ Passing(w, P \cup {y}) = Passing(w, P \cup {x}) /\ y > x

\* There is a best improvement, and the search takes it.  (A finite set has a
\* minimal element for the number of elements that are better, counted by
\* strict inclusion.)
LEMMA BestImproves ==
  ASSUME NEW w \in Workbook, NEW P, Improving(w, P) # {}
  PROVE  Best(w, P) \in Improving(w, P)
<1> DEFINE S == Improving(w, P)
           Score(x) == Passing(w, P \cup {x})
           Ahead(x) == {y \in S : Better(w, P, y, x)}
           T == {Ahead(x) : x \in S}
<1>1. S \subseteq Cell /\ S \subseteq Nat /\ IsFiniteSet(S)
  BY CandidatesAreFaulty, SearchAssumption, FS_Subset DEF Improving
<1>2. \A x : Score(x) \in Nat
  BY CountsAreNatural, SearchAssumption, FS_CardinalityType
<1>3. T \subseteq FiniteSubsetsOf(S) /\ T # {}
  <2>1. FiniteSubsetsOf(S) = SUBSET S
    BY <1>1, FS_FiniteSubsetsOfFinite
  <2>2. \A x \in S : Ahead(x) \in SUBSET S
    OBVIOUS
  <2>3. PICK x \in S : TRUE
    OBVIOUS
  <2>4. Ahead(x) \in T
    BY <2>3
  <2>5. T \subseteq SUBSET S
    <3> HIDE DEF S, Ahead
    <3>1. QED
      BY <2>2, Zenon
  <2>6. QED
    BY <2>1, <2>4, <2>5, Zenon
<1>4. PICK A \in T : \A B \in T : ~ (<<B, A>> \in StrictSubsetOrdering(S))
  <2>1. IsWellFoundedOn(StrictSubsetOrdering(S), FiniteSubsetsOf(S))
    BY FS_StrictSubsetOrderingWellFounded
  <2> HIDE DEF S, T
  <2>2. QED
    BY <1>3, <2>1, WFMin
<1>5. PICK x \in S : A = Ahead(x)
  OBVIOUS
<1>6. A = {}
  <2> SUFFICES ASSUME NEW y \in A PROVE FALSE
    OBVIOUS
  <2>1. y \in S /\ Better(w, P, y, x)
    BY <1>5
  <2>2. ~Better(w, P, y, y)
    <3>1. Score(y) \in Nat /\ y \in Nat
      BY <1>1, <1>2, <2>1
    <3>2. QED
      BY <3>1 DEF Better
  <2>3. ASSUME NEW z \in S, Better(w, P, z, y)
        PROVE  Better(w, P, z, x)
    <3>1. Score(x) \in Nat /\ Score(y) \in Nat /\ Score(z) \in Nat
      BY <1>2
    <3>2. x \in Nat /\ y \in Nat /\ z \in Nat
      BY <1>1, <2>1
    <3>3. QED
      BY <2>1, <2>3, <3>1, <3>2 DEF Better
  <2>4. Ahead(y) \subseteq A /\ Ahead(y) # A
    BY <1>5, <2>1, <2>2, <2>3
  <2>5. Ahead(y) \in T /\ Ahead(y) \subseteq S /\ A \subseteq S
    BY <1>5, <2>1
  <2>6. QED
    BY <1>4, <2>4, <2>5 DEF StrictSubsetOrdering
<1>7. ASSUME NEW y \in S \ {x}
      PROVE  Score(x) > Score(y) \/ (Score(x) = Score(y) /\ x > y)
  <2>1. Score(x) \in Nat /\ Score(y) \in Nat /\ x \in Nat /\ y \in Nat
    BY <1>1, <1>2
  <2>2. ~Better(w, P, y, x)
    BY <1>5, <1>6
  <2>3. QED
    BY <2>1, <2>2 DEF Better
<1>8. QED
  BY <1>7, <1>5, Zenon DEF Best

\* Where no candidate improves, no cell that still is wrong would: one outside
\* the cones of the failing outputs leaves them failing.
LEMMA OutsideIsHopeless ==
  ASSUME NEW w \in Workbook, NEW P \in SUBSET Cell, Improving(w, P) = {},
         NEW x \in Faulty[w]
  PROVE  Passing(w, P \cup {x}) <= Passing(w, P)
<1>1. Passing(w, P \cup {x}) \in Nat /\ Passing(w, P) \in Nat
  BY CountsAreNatural, SearchAssumption, FS_CardinalityType
<1>2. CASE x \in P
  <2>1. P \cup {x} = P
    BY <1>2
  <2>2. QED
    BY <1>1, <2>1
<1>3. CASE x \in Candidates(w, P)
  BY <1>1, <1>3 DEF Improving
<1>4. CASE x \notin Localized(w, P)
  <2> SUFFICES ASSUME NEW case \in Failing(w, P)
               PROVE  case \in Failing(w, P \cup {x})
    BY PassingIsMonotone
  <2>1. PICK o \in Outcome(w, case, P) : TRUE
    BY DEF Failing
  <2>2. case \in Case /\ o \in Cell /\ x \in Cell /\ Mismatch(w, case, o, P)
    BY <2>1, CandidatesAreFaulty DEF Failing, Outcome
  <2>3. x \notin Cone(o)
    BY <1>4, <2>1, <2>2 DEF Localized
  <2>4. P \cap Cone(o) = (P \cup {x}) \cap Cone(o)
    BY <2>3
  <2>5. /\ Mismatch(w, case, o, P) <=> Mismatch(w, case, o, P \cap Cone(o))
        /\ Mismatch(w, case, o, P \cup {x})
           <=> Mismatch(w, case, o, (P \cup {x}) \cap Cone(o))
    <3>1. \A patched \in SUBSET Cell :
            Mismatch(w, case, o, patched) <=> Mismatch(w, case, o, patched \cap Cone(o))
      BY <2>2, SearchAssumption, Zenon
    <3>2. P \cup {x} \in SUBSET Cell
      BY <2>2
    <3>3. QED
      BY <3>1, <3>2, Zenon
  <2>6. Mismatch(w, case, o, P \cup {x})
    BY <2>2, <2>4, <2>5, Zenon
  <2>7. QED
    BY <2>2, <2>6 DEF Failing, Outcome
<1>5. QED
  BY <1>2, <1>3, <1>4 DEF Candidates

-----------------------------------------------------------------------------
(* Trajectory: the types of a trail, its pieces and its writer. *)

Event  == [sequence : Nat, type : EventType]
Piece  == [event : Event, prior : Seq(Event), hash : Seq(Event), cut : BOOLEAN]
Line   == Seq(Piece) \ {<<>>}
Trail  == {t \in [lines : Seq(Line), open : BOOLEAN] : t.lines = <<>> => ~t.open}
Writer == [sequence : Nat, previous : Seq(Event)]

LEMMA FreshIsTyped == EmptyTrail \in Trail /\ FreshWriter \in Writer
BY DEF EmptyTrail, FreshWriter, Trail, Writer

LEMMA EventIsTyped ==
  ASSUME NEW w \in Writer, NEW type \in EventType
  PROVE  /\ EventOf(w, type) \in Piece
         /\ EventOf(w, type).event.sequence = w.sequence + 1
         /\ EventOf(w, type).event.type = type
         /\ EventOf(w, type).prior = w.previous
         /\ ~EventOf(w, type).cut
         /\ Chained(w, type) \in Writer
         /\ Chained(w, type).sequence = w.sequence + 1
         /\ Chained(w, type).previous = EventOf(w, type).hash
         /\ Numbered(w) \in Writer
         /\ Numbered(w).sequence = w.sequence + 1
<1> DEFINE e == [sequence |-> w.sequence + 1, type |-> type]
           h == Append(w.previous, e)
<1>1. e \in Event /\ e.sequence = w.sequence + 1 /\ e.type = type
  BY DEF Event, Writer
<1>2. h \in Seq(Event)
  BY <1>1 DEF Writer
<1>3. EventOf(w, type) = [event |-> e, prior |-> w.previous, hash |-> h, cut |-> FALSE]
  BY DEF EventOf
<1> HIDE DEF e, h
<1>4. QED
  BY <1>1, <1>2, <1>3 DEF Piece, Writer, Chained, Numbered

\* What is added to a trail is a line of its own, or the end of the last one.
LEMMA AddedPiece ==
  ASSUME NEW t \in Trail, NEW p \in Piece, NEW newline \in BOOLEAN
  PROVE  LET u == Added(t, p, newline)
             n == Len(t.lines)
         IN  /\ u \in Trail
             /\ u.open = ~newline
             /\ u.lines # <<>>
             /\ Last(Last(u.lines)) = p
             /\ ~t.open => u.lines = Append(t.lines, <<p>>)
             /\ t.open => /\ n > 0 /\ Len(u.lines) = n
                          /\ \A i \in 1..(n - 1) : u.lines[i] = t.lines[i]
                          /\ u.lines[n] = Append(t.lines[n], p)
<1> DEFINE n == Len(t.lines)
           u == Added(t, p, newline)
<1>1. /\ t.lines \in Seq(Line) /\ t.open \in BOOLEAN /\ n \in Nat
      /\ t.lines = <<>> => ~t.open
  BY DEF Trail
<1>2. CASE ~t.open
  <2>1. u = [lines |-> Append(t.lines, <<p>>), open |-> ~newline]
    BY <1>2 DEF Added
  <2>2. <<p>> \in Line
    BY DEF Line
  <2>3. QED
    BY <1>1, <1>2, <2>1, <2>2 DEF Trail, Last
<1>3. CASE t.open
  <2> DEFINE last == Append(t.lines[n], p)
             front == SubSeq(t.lines, 1, n - 1)
  <2>1. u = [lines |-> Append(front, last), open |-> ~newline]
    BY <1>3 DEF Added, Front, Last
  <2>2. n > 0 /\ t.lines[n] \in Line
    BY <1>1, <1>3
  <2>3. last \in Line /\ last[Len(last)] = p
    BY <2>2 DEF Line
  <2>4. /\ front \in Seq(Line) /\ Len(front) = n - 1
        /\ \A i \in 1..(n - 1) : front[i] = t.lines[i]
    BY <1>1, <2>2
  <2> HIDE DEF last, front
  <2>5. /\ Append(front, last) \in Seq(Line) /\ Len(Append(front, last)) = n
        /\ Append(front, last)[n] = last
        /\ \A i \in 1..(n - 1) : Append(front, last)[i] = t.lines[i]
    BY <1>1, <2>2, <2>3, <2>4
  <2>6. u.lines = Append(front, last) /\ u.open = ~newline /\ u \in Trail
    BY <2>1, <2>2, <2>5 DEF Trail
  <2>7. Last(Last(u.lines)) = p
    BY <2>3, <2>5, <2>6 DEF Last
  <2>8. last = Append(t.lines[n], p)
    BY DEF last
  <2>9. /\ Len(u.lines) = n /\ u.lines[n] = Append(t.lines[n], p) /\ u.lines # <<>>
        /\ \A i \in 1..(n - 1) : u.lines[i] = t.lines[i]
    <3>1. PICK g : g = Append(front, last) /\ u.lines = g
      BY <2>6
    <3>2. /\ g \in Seq(Line) /\ Len(g) = n /\ g[n] = Append(t.lines[n], p)
          /\ \A i \in 1..(n - 1) : g[i] = t.lines[i]
      BY <2>5, <2>8, <3>1
    <3>3. g # <<>>
      BY <2>2, <3>2
    <3>4. QED
      BY <3>1, <3>2, <3>3, Zenon
  <2>10. QED
    BY <1>3, <2>2, <2>6, <2>7, <2>9
<1>4. QED
  BY <1>1, <1>2, <1>3

LEMMA FailuresAreTyped ==
  ASSUME NEW t \in Trail, NEW p \in Piece, NEW u \in Failures(t, p)
  PROVE  u \in Trail
<1>1. PICK c \in Piece : c = [p EXCEPT !.cut = TRUE]
  BY DEF Piece
<1>2. \/ u = t
      \/ u = Added(t, c, FALSE)
      \/ u = Added(t, p, FALSE)
      \/ u = Added(t, p, TRUE)
  BY <1>1 DEF Failures
<1>3. QED
  BY <1>2, AddedPiece

\* A trail that is resumed gives the writer of its last event.
LEMMA ResumedIsTyped ==
  ASSUME NEW t \in Trail, Resumes(t)
  PROVE  ResumedWriter(t) \in Writer /\ TypesIn(t) \in Seq(EventType)
<1>1. /\ t.lines \in Seq(Line) /\ Len(t.lines) \in Nat
      /\ \A i \in DOMAIN t.lines : t.lines[i][1] \in Piece
  BY DEF Trail, Line
<1>2. TypesIn(t) \in Seq(EventType)
  BY <1>1 DEF TypesIn, Piece, Event
<1>3. CASE t.lines = <<>>
  BY <1>2, <1>3, FreshIsTyped DEF ResumedWriter
<1>4. CASE t.lines # <<>>
  <2>1. t.lines[Len(t.lines)][1] \in Piece
    BY <1>1, <1>4
  <2>2. QED
    BY <1>2, <1>4, <2>1 DEF ResumedWriter, Last, Writer, Piece, Event
<1>5. QED
  BY <1>3, <1>4

-----------------------------------------------------------------------------
(* TracedAudit: which step of which workflow a session is at. *)

\* The steps of a run of the advanced workflow, and those of its approval.
RunStep == {"ingest", "rules", "gate", "execute", "executed", "localize", "search",
            "propose", "evidence", "proposal", "report"}
ApprovalStep == {"approve", "patch", "sign", "signed_report", "manifest"}
BaselineStep == {"ingest", "execute", "executed", "edit", "direct", "evidence",
                 "patch", "manifest", "sign", "report"}
AgentStep == {"guardrail", "turns", "stopped", "final", "verify",
              "evidence", "proposal", "report"}

Located ==
  /\ at \in RunStep \cup ApprovalStep \cup BaselineStep \cup AgentStep \cup {"idle"}
  /\ at # "idle" =>
       \/ method = "advanced" /\ at \in RunStep \cup ApprovalStep
       \/ method = "baseline" /\ at \in BaselineStep
       \/ method = "agent" /\ at \in AgentStep

Records(workflow, step, type, next) ==
  method = workflow /\ at = step /\ Stage[1] = type /\ Stage[2] = next

LEMMA StageCases ==
  ASSUME Traces
  PROVE  \/ Records("advanced", "ingest", "INGEST", "rules")
         \/ Records("advanced", "rules", "EXTRACT_RULES", "gate") /\ ambiguous
         \/ Records("advanced", "rules", "EXTRACT_RULES", "execute") /\ ~ambiguous
         \/ Records("advanced", "gate", "AMBIGUITY_GATE", "evidence")
         \/ Records("advanced", "executed", "EXECUTE_COUNTEREXAMPLES", "localize")
         \/ Records("advanced", "localize", "LOCALIZE", "search")
         \/ Records("advanced", "propose", "PROPOSE_MINIMAL_PATCH", "evidence")
         \/ Records("advanced", "sign", "APPROVE", "signed_report")
         \/ Records("baseline", "ingest", "INGEST", "execute")
         \/ Records("baseline", "executed", "EXECUTE_VISIBLE_CASES", "edit")
         \/ Records("baseline", "direct", "DIRECT_REPAIR", "evidence")
         \/ Records("baseline", "sign", "APPROVE", "report")
         \/ Records("agent", "guardrail", "GUARDRAIL", "turns")
         \/ Records("agent", "stopped", "GUARDRAIL", "final")
         \/ Records("agent", "final", "FINAL_STATE", "verify")
<1>1. at \in {"ingest", "rules", "gate", "executed", "localize", "propose", "direct",
             "sign", "guardrail", "stopped", "final"}
  BY DEF Traces, Stages
<1>2. CASE at = "ingest"
  BY <1>2 DEF Traces, Stage, Stages, Records
<1>3. CASE at = "rules"
  BY <1>3 DEF Traces, Stage, Stages, Records
<1>4. CASE at = "gate"
  BY <1>4 DEF Traces, Stage, Stages, Records
<1>5. CASE at = "executed"
  BY <1>5 DEF Traces, Stage, Stages, Records
<1>6. CASE at = "localize"
  BY <1>6 DEF Traces, Stage, Stages, Records
<1>7. CASE at = "propose"
  BY <1>7 DEF Traces, Stage, Stages, Records
<1>8. CASE at = "direct"
  BY <1>8 DEF Traces, Stage, Stages, Records
<1>9. CASE at = "sign"
  BY <1>9 DEF Traces, Stage, Stages, Records
<1>10. CASE at \in {"guardrail", "stopped", "final"}
  BY <1>10 DEF Traces, Stage, Stages, Records
<1>11. QED
  BY <1>1, <1>2, <1>3, <1>4, <1>5, <1>6, <1>7, <1>8, <1>9, <1>10

-----------------------------------------------------------------------------
(* The types of the state. *)

Copies == [patches : Seq(Cell), whole : BOOLEAN]
Dir == [proposal : {None} \cup {r \in Results : Len(r.patches) <= 3},
        report   : {None} \cup Results,
        repaired : {None} \cup Copies,
        approval : {None} \cup Approvals]

TrailTyped ==
  /\ trail \in Trail /\ writer \in Writer /\ asked \in Seq(EventType)

DirTyped ==
  /\ dir \in Dir
  /\ reviewer \in Reviewer \cup {None}
  /\ at \in ApprovalStep => reviewer \in Reviewer

SearchTyped ==
  /\ method \in Methods /\ workbook \in Workbook /\ ambiguous \in BOOLEAN
  /\ patches \in Seq(Cell) /\ Len(patches) <= 3
  /\ at = "search" => Len(patches) < 3
  /\ at \in {"ingest", "rules", "gate", "execute", "executed", "localize", "edit"}
       => patches = <<>>
  /\ used \in 0..CaseLimit
  /\ started \in Nat

Typed == Located /\ TrailTyped /\ DirTyped /\ SearchTyped

LEMMA TypedInit == Init => Typed
<1> SUFFICES ASSUME Init PROVE Typed
  OBVIOUS
<1>1. Located
  BY DEF Init, Located
<1>2. TrailTyped
  BY FreshIsTyped DEF Init, TrailTyped
<1>3. DirTyped
  BY DEF Init, DirTyped, EmptyDir, Dir, ApprovalStep
<1>4. SearchTyped
  <2>1. ambiguous \in BOOLEAN
    BY Zenon DEF Init
  <2>2. QED
    BY <2>1, SearchAssumption DEF Init, SearchTyped
<1>5. QED
  BY <1>1, <1>2, <1>3, <1>4 DEF Typed

LEMMA TypedGivesTypeOK == Typed => TypeOK
<1> SUFFICES ASSUME Typed PROVE TypeOK
  OBVIOUS
<1>1. writer.previous \in Seq([sequence : Nat, type : EventType]) /\ writer.sequence \in Nat
  BY DEF Typed, TrailTyped, Writer, Event
<1>2. QED
  BY <1>1 DEF Typed, TrailTyped, DirTyped, SearchTyped, TypeOK, Trail, Dir, Copies

LEMMA LocatedStep ==
  ASSUME Typed, [Next]_vars
  PROVE  Located'
<1> USE DEF Located, RunStep, ApprovalStep, BaselineStep, AgentStep
<1>1. Located
  BY DEF Typed
<1>2. CASE RecordStage
  BY <1>1, <1>2, StageCases DEF RecordStage, Records, inputs
<1>3. CASE ReuseApproved \/ StartRun \/ StartAgent \/ StartApproval
  BY <1>1, <1>3 DEF ReuseApproved, StartRun, StartAgent, StartApproval, inputs, Idle
<1>4. CASE Execute \/ SearchRound \/ DirectEdit
  BY <1>1, <1>4 DEF Execute, SearchRound, DirectEdit, Leave, inputs
<1>5. CASE Turn \/ TurnsEnd \/ TurnFails \/ VerifyTrail
  BY <1>1, <1>5 DEF Turn, TurnsEnd, TurnFails, VerifyTrail, inputs
<1>6. CASE WriteEvidence \/ WriteProposal \/ WriteReport
  BY <1>1, <1>6 DEF WriteEvidence, WriteProposal, WriteReport, inputs
<1>7. CASE Approve \/ ApprovalRefused \/ PatchWorkbook \/ WriteSignedReport \/ WriteManifest
  BY <1>1, <1>7
     DEF Approve, ApprovalRefused, PatchWorkbook, WriteSignedReport, WriteManifest,
         Leave, inputs
<1>8. CASE SessionDies \/ UNCHANGED vars
  BY <1>1, <1>8 DEF SessionDies, Leave, inputs, vars
<1>9. QED
  BY <1>2, <1>3, <1>4, <1>5, <1>6, <1>7, <1>8 DEF Next

\* The event a writer is asked to record.
Asked(e, type) ==
  /\ e \in Piece /\ ~e.cut
  /\ e.event.sequence = writer.sequence + 1 /\ e.event.type = type
  /\ e.prior = writer.previous

LEMMA RecordWrites ==
  ASSUME TrailTyped, NEW type \in EventType, Record(type)
  PROVE  \E e : /\ Asked(e, type)
                /\ trail' = Added(trail, e, TRUE)
                /\ writer'.sequence = writer.sequence + 1
                /\ writer'.previous = e.hash
                /\ asked' = Append(asked, type)
                /\ TrailTyped'
<1>1. trail \in Trail /\ writer \in Writer /\ asked \in Seq(EventType)
  BY DEF TrailTyped
<1>2. PICK e : e = EventOf(writer, type)
  OBVIOUS
<1>3. Asked(e, type)
  BY <1>1, <1>2, EventIsTyped DEF Asked
<1>4. trail' = Added(trail, e, TRUE) /\ asked' = Append(asked, type)
  BY <1>2 DEF Record
<1>5. /\ writer' \in Writer /\ writer'.sequence = writer.sequence + 1
      /\ writer'.previous = e.hash
  BY <1>1, <1>2, EventIsTyped DEF Record
<1>6. trail' \in Trail
  BY <1>1, <1>3, <1>4, AddedPiece DEF Asked
<1>7. asked' \in Seq(EventType)
  BY <1>1, <1>4
<1>8. TrailTyped'
  BY <1>5, <1>6, <1>7 DEF TrailTyped
<1>9. QED
  BY <1>3, <1>4, <1>5, <1>8, Zenon

LEMMA FailedRecordWrites ==
  ASSUME TrailTyped, NEW type \in EventType, RecordFails(type)
  PROVE  \E e : /\ Asked(e, type)
                /\ trail' \in Failures(trail, e)
                /\ writer'.sequence = writer.sequence + 1
                /\ asked' = Append(asked, type)
                /\ TrailTyped'
<1>1. trail \in Trail /\ writer \in Writer /\ asked \in Seq(EventType)
  BY DEF TrailTyped
<1>2. PICK e : e = EventOf(writer, type)
  OBVIOUS
<1>3. Asked(e, type)
  BY <1>1, <1>2, EventIsTyped DEF Asked
<1>4. trail' \in Failures(trail, e) /\ asked' = Append(asked, type)
  BY <1>2 DEF RecordFails
<1>5. writer' \in Writer /\ writer'.sequence = writer.sequence + 1
  BY <1>1, EventIsTyped DEF RecordFails
<1>6. trail' \in Trail
  BY <1>1, <1>3, <1>4, FailuresAreTyped DEF Asked
<1>7. asked' \in Seq(EventType)
  BY <1>1, <1>4
<1>8. TrailTyped'
  BY <1>5, <1>6, <1>7 DEF TrailTyped
<1>9. QED
  BY <1>3, <1>4, <1>5, <1>8, Zenon

LEMMA TrailTypedStep ==
  ASSUME Typed, [Next]_vars
  PROVE  TrailTyped'
<1>1. trail \in Trail /\ writer \in Writer /\ asked \in Seq(EventType) /\ TrailTyped
  BY DEF Typed, TrailTyped
<1>4. Traces => Stage[1] \in EventType
  BY StageCases DEF Records, EventType
<1>5. CASE RecordStage
  <2>1. PICK type \in EventType : Record(type)
    BY <1>4, <1>5 DEF RecordStage
  <2>2. QED
    BY <1>1, <2>1, RecordWrites, Zenon
<1>6. CASE Turn \/ TurnFails
  <2>1. PICK type \in EventType : Record(type) \/ RecordFails(type)
    <3>1. "TURN" \in EventType
      BY DEF EventType
    <3>2. QED
      BY <1>6, <3>1, Zenon DEF Turn, TurnFails
  <2>2. QED
    BY <1>1, <2>1, RecordWrites, FailedRecordWrites, Zenon
<1>7. CASE StartRun \/ StartAgent
  <2>1. trail' = EmptyTrail /\ writer' = FreshWriter /\ asked' = <<>>
    BY <1>7 DEF StartRun, StartAgent
  <2>2. QED
    BY <2>1, FreshIsTyped DEF TrailTyped
<1>8. CASE Approve
  BY <1>1, <1>8, ResumedIsTyped DEF Approve, files, TrailTyped
<1>9. CASE SessionDies
  <2>1. trail' \in Trail
    BY <1>1, <1>4, <1>9, EventIsTyped, FailuresAreTyped DEF SessionDies
  <2>2. QED
    BY <1>1, <1>9, <2>1 DEF SessionDies, memory, TrailTyped
<1>10. CASE ReuseApproved \/ StartApproval \/ Execute \/ SearchRound \/ DirectEdit \/ TurnsEnd
            \/ VerifyTrail
  BY <1>1, <1>10
     DEF ReuseApproved, StartApproval, Execute, SearchRound, DirectEdit, TurnsEnd,
         VerifyTrail, files, memory, TrailTyped
<1>11. CASE WriteEvidence \/ WriteProposal \/ WriteReport \/ ApprovalRefused \/ PatchWorkbook
            \/ WriteSignedReport \/ WriteManifest \/ UNCHANGED vars
  BY <1>1, <1>11
     DEF WriteEvidence, WriteProposal, WriteReport, ApprovalRefused, PatchWorkbook,
         WriteSignedReport, WriteManifest, vars, files, memory, TrailTyped
<1>12. QED
  BY <1>5, <1>6, <1>7, <1>8, <1>9, <1>10, <1>11 DEF Next

LEMMA DirTypedStep ==
  ASSUME Typed, [Next]_vars
  PROVE  DirTyped'
<1>1. /\ dir \in Dir /\ reviewer \in Reviewer \cup {None} /\ patches \in Seq(Cell)
      /\ at \in ApprovalStep => reviewer \in Reviewer
      /\ Len(patches) <= 3
  BY DEF Typed, DirTyped, SearchTyped
<1>2. /\ dir.proposal \in {None} \cup {r \in Results : Len(r.patches) <= 3}
      /\ dir.report \in {None} \cup Results
      /\ dir.repaired \in {None} \cup Copies
      /\ dir.approval \in {None} \cup Approvals
  BY <1>1 DEF Dir
<1>3. TheDecision \in {"REPAIR", "NO_CHANGE", "ABSTAIN"}
  BY DEF TheDecision, Decision
<1>4. ASSUME NEW a \in {None} \cup Approvals
      PROVE  Result(a) \in Results /\ Result(a).patches = patches
  BY <1>1, <1>3 DEF Result, Results
<1>5. reviewer \in Reviewer => Manifest \in Approvals
  BY <1>1, <1>2 DEF Manifest, Approvals, Copies
<1>6. ASSUME UNCHANGED dir,
             \/ UNCHANGED reviewer /\ (at' \in ApprovalStep => at \in ApprovalStep)
             \/ reviewer' \in Reviewer
             \/ reviewer' \in Reviewer \cup {None} /\ at' \notin ApprovalStep
      PROVE  DirTyped'
  BY <1>1, <1>6 DEF DirTyped
<1>7. CASE StartRun \/ StartAgent \/ StartApproval \/ ReuseApproved
  BY <1>6, <1>7
     DEF StartRun, StartAgent, StartApproval, ReuseApproved, files, memory, ApprovalStep
<1>8. CASE RecordStage
  BY <1>6, <1>8, StageCases DEF RecordStage, Records, ApprovalStep
<1>9. CASE Execute \/ SearchRound \/ DirectEdit \/ Turn \/ TurnsEnd \/ TurnFails \/ VerifyTrail
  BY <1>6, <1>9
     DEF Execute, SearchRound, DirectEdit, Turn, TurnsEnd, TurnFails, VerifyTrail, Leave,
         files, memory, ApprovalStep
<1>10. CASE WriteEvidence
  BY <1>1, <1>10 DEF WriteEvidence, files, memory, ApprovalStep, DirTyped
<1>11. CASE WriteProposal
  <2>1. PICK r \in {r \in Results : Len(r.patches) <= 3} : r = Result(None)
    BY <1>1, <1>4
  <2>2. dir' = [dir EXCEPT !.proposal = r] /\ reviewer' = reviewer /\ at' = "report"
    BY <1>11, <2>1 DEF WriteProposal, memory
  <2>3. QED
    BY <1>1, <1>2, <2>1, <2>2 DEF Dir, DirTyped, ApprovalStep
<1>12. CASE WriteReport
  <2>1. PICK r \in Results : dir' = [dir EXCEPT !.report = r]
    BY <1>1, <1>2, <1>4, <1>12 DEF WriteReport, Results
  <2>2. dir' \in Dir
    BY <1>1, <1>2, <2>1 DEF Dir
  <2>3. QED
    BY <1>1, <1>12, <2>2 DEF WriteReport, memory, DirTyped, ApprovalStep
<1>13. CASE Approve \/ ApprovalRefused
  BY <1>6, <1>13 DEF Approve, ApprovalRefused, Leave, files, memory, ApprovalStep
<1>14. CASE PatchWorkbook
  <2>1. PICK c \in Copies : c = Copy(patches, TRUE)
    BY <1>1 DEF Copy, Copies
  <2>2. dir' = [dir EXCEPT !.repaired = c]
    BY <1>14, <2>1 DEF PatchWorkbook
  <2>3. dir' \in Dir
    BY <1>1, <1>2, <2>1, <2>2 DEF Dir
  <2>4. QED
    BY <1>1, <1>14, <2>3 DEF PatchWorkbook, memory, DirTyped, ApprovalStep
<1>15. CASE WriteSignedReport
  <2>1. PICK r \in Results : r = Result(Manifest)
    BY <1>1, <1>4, <1>5, <1>15 DEF WriteSignedReport, ApprovalStep
  <2>2. dir' = [dir EXCEPT !.report = r]
    BY <1>15, <2>1 DEF WriteSignedReport, Written
  <2>3. dir' \in Dir
    BY <1>1, <1>2, <2>1, <2>2 DEF Dir
  <2>4. QED
    BY <1>1, <1>15, <2>3 DEF WriteSignedReport, memory, DirTyped, ApprovalStep
<1>16. CASE WriteManifest
  <2>1. PICK m \in Approvals : m = Manifest
    BY <1>1, <1>5, <1>16 DEF WriteManifest, ApprovalStep
  <2>2. dir' = [dir EXCEPT !.approval = m]
    BY <1>16, <2>1 DEF WriteManifest, Written
  <2>3. dir' \in Dir
    BY <1>1, <1>2, <2>1, <2>2 DEF Dir
  <2>4. QED
    BY <1>1, <1>16, <2>3 DEF WriteManifest, memory, DirTyped, ApprovalStep
<1>17. CASE SessionDies
  <2>1. PICK c \in Copies : c = Copy(<<>>, FALSE)
    <3>1. PICK s \in Seq(Cell) : s = <<>>
      <4>1. <<>> \in Seq(Cell)
        OBVIOUS
      <4>2. QED
        BY <4>1, Zenon
    <3>2. Copy(s, FALSE) \in Copies
      BY DEF Copy, Copies
    <3>3. QED
      BY <3>1, <3>2
  <2>2. dir' \in {dir, [dir EXCEPT !.repaired = c]}
    BY <1>17, <2>1 DEF SessionDies
  <2>3. dir' \in Dir
    BY <1>1, <1>2, <2>1, <2>2 DEF Dir
  <2>4. QED
    BY <1>1, <1>17, <2>3 DEF SessionDies, Leave, memory, DirTyped, ApprovalStep
<1>18. CASE UNCHANGED vars
  BY <1>6, <1>18 DEF vars, files, memory
<1>19. QED
  BY <1>7, <1>8, <1>9, <1>10, <1>11, <1>12, <1>13, <1>14, <1>15, <1>16, <1>17, <1>18 DEF Next

LEMMA SearchTypedStep ==
  ASSUME Typed, [Next]_vars
  PROVE  SearchTyped'
<1> DEFINE Before == {"ingest", "rules", "gate", "execute", "executed", "localize", "edit"}
<1>1. /\ method \in Methods /\ workbook \in Workbook /\ ambiguous \in BOOLEAN
      /\ patches \in Seq(Cell) /\ Len(patches) \in Nat /\ Len(patches) <= 3
      /\ at = "search" => Len(patches) < 3
      /\ at \in Before => patches = <<>>
      /\ used \in Nat /\ used <= CaseLimit /\ started \in Nat /\ CaseLimit \in Nat
  BY SearchAssumption DEF Typed, SearchTyped
<1>2. UNCHANGED inputs
  BY DEF Next, ReuseApproved, StartRun, StartAgent, StartApproval, RecordStage, Execute,
         SearchRound, DirectEdit, Turn, TurnsEnd, TurnFails, VerifyTrail, WriteEvidence,
         WriteProposal, WriteReport, Approve, ApprovalRefused, PatchWorkbook,
         WriteSignedReport, WriteManifest, SessionDies, vars
<1>3. ASSUME UNCHANGED <<patches, used>>, started' \in Nat,
             at' \in Before => patches = <<>>, at' = "search" => Len(patches) < 3
      PROVE  SearchTyped'
  BY <1>1, <1>2, <1>3 DEF SearchTyped, inputs
<1>4. CASE StartRun
  BY <1>1, <1>2, <1>4 DEF StartRun, Idle, SearchTyped, inputs
<1>5. CASE StartAgent \/ ReuseApproved
  BY <1>1, <1>3, <1>5 DEF StartAgent, ReuseApproved, Idle, memory
<1>6. CASE StartApproval
  <2>1. dir.proposal \in {r \in Results : Len(r.patches) <= 3}
    BY <1>6 DEF Typed, DirTyped, Dir, StartApproval
  <2>2. dir.proposal.patches \in Seq(Cell) /\ Len(dir.proposal.patches) <= 3
    BY <2>1 DEF Results
  <2>3. QED
    BY <1>1, <1>2, <1>6, <2>2 DEF StartApproval, Idle, SearchTyped, inputs
<1>7. CASE RecordStage
  BY <1>1, <1>3, <1>7, StageCases DEF RecordStage, Records
<1>8. CASE Execute
  <2>1. Cardinality(Case) \in Nat
    BY SearchAssumption, FS_CardinalityType
  <2>2. QED
    BY <1>1, <1>2, <1>8, <2>1 DEF Execute, Affordable, Leave, SearchTyped, inputs
<1>9. CASE SearchRound
  <2> DEFINE cost == RoundCost(workbook, Patched)
             best == Best(workbook, Patched)
  <2>1. cost \in Nat
    BY <1>1, CandidatesAreFaulty
  <2>2. Improving(workbook, Patched) # {} => best \in Cell
    BY <1>1, BestImproves, CandidatesAreFaulty DEF Improving
  <2>3. \/ at' = "idle" /\ UNCHANGED <<patches, used>>
        \/ /\ used' = used + cost /\ used + cost <= CaseLimit
           /\ \/ at' = "propose" /\ UNCHANGED patches
              \/ /\ best \in Cell /\ patches' = Append(patches, best)
                 /\ at' = "propose" \/ (at' = "search" /\ Len(patches) + 1 # 3)
    BY <1>9, <2>2 DEF SearchRound, Affordable, Leave
  <2>4. at = "search" /\ started' = started
    BY <1>9 DEF SearchRound
  <2> HIDE DEF cost, best
  <2>5. CASE at' = "idle" /\ UNCHANGED <<patches, used>>
    BY <1>1, <1>3, <2>4, <2>5
  <2>6. CASE /\ used' = used + cost /\ used + cost <= CaseLimit
             /\ at' = "propose" /\ UNCHANGED patches
    BY <1>1, <1>2, <2>1, <2>4, <2>6 DEF SearchTyped, inputs
  <2>7. CASE /\ used' = used + cost /\ used + cost <= CaseLimit
             /\ best \in Cell /\ patches' = Append(patches, best)
             /\ at' = "propose" \/ (at' = "search" /\ Len(patches) + 1 # 3)
    <3>1. patches' \in Seq(Cell) /\ Len(patches') = Len(patches) + 1
      BY <1>1, <2>7
    <3>2. QED
      BY <1>1, <1>2, <2>1, <2>4, <2>7, <3>1 DEF SearchTyped, inputs
  <2>8. QED
    BY <2>3, <2>5, <2>6, <2>7
<1>10. CASE DirectEdit
  <2>1. Cardinality(Case) \in Nat
    BY SearchAssumption, FS_CardinalityType
  <2>2. Faulty[workbook] \subseteq Cell
    BY <1>1, SearchAssumption
  <2>3. at' \in {"direct", "idle"} /\ started' = started
        /\ (patches' = patches \/ \E x \in Cell : patches' \in {<<>>, <<x>>})
    BY <1>1, <1>10, <2>2 DEF DirectEdit, Leave
  <2>4. patches' \in Seq(Cell) /\ Len(patches') <= 3
    <3>1. \A x \in Cell : <<x>> \in Seq(Cell) /\ Len(<<x>>) <= 3
      OBVIOUS
    <3>2. <<>> \in Seq(Cell) /\ Len(<<>>) <= 3
      OBVIOUS
    <3>3. QED
      BY <1>1, <2>3, <3>1, <3>2
  <2>5. used' \in 0..CaseLimit
    BY <1>1, <1>10, <2>1 DEF DirectEdit, Affordable
  <2>6. QED
    BY <1>1, <1>2, <2>3, <2>4, <2>5 DEF SearchTyped, inputs
<1>11. CASE Turn \/ TurnsEnd \/ TurnFails \/ VerifyTrail
  BY <1>1, <1>3, <1>11 DEF Turn, TurnsEnd, TurnFails, VerifyTrail, memory
<1>12. CASE WriteEvidence \/ WriteProposal \/ WriteReport \/ Approve \/ ApprovalRefused
  BY <1>1, <1>3, <1>12
     DEF WriteEvidence, WriteProposal, WriteReport, Approve, ApprovalRefused, Leave, memory
<1>13. CASE PatchWorkbook \/ WriteSignedReport \/ WriteManifest \/ SessionDies
  BY <1>1, <1>3, <1>13
     DEF PatchWorkbook, WriteSignedReport, WriteManifest, SessionDies, Leave, memory
<1>14. CASE UNCHANGED vars
  BY <1>1, <1>3, <1>14 DEF vars, memory
<1>15. QED
  BY <1>4, <1>5, <1>6, <1>7, <1>8, <1>9, <1>10, <1>11, <1>12, <1>13, <1>14 DEF Next

LEMMA TypedStep == Typed /\ [Next]_vars => Typed'
BY LocatedStep, TrailTypedStep, DirTypedStep, SearchTypedStep DEF Typed

\* Every variable has its type, no more than three cells are ever patched and
\* the ledger is never above its limit (advanced.py, budget.py).
THEOREM TypeCorrectness == Spec => []TypeOK
<1>1. QED
  BY TypedInit, TypedStep, TypedGivesTypeOK, PTL DEF Spec

-----------------------------------------------------------------------------
(* The search: what its patches and its decision rest on. *)

SetOf(s) == {s[i] : i \in DOMAIN s}
Prefix(s, i) == {s[j] : j \in 1..(i - 1)}

\* Each patch is of a formula that still was wrong, and more cases pass with it.
Earned(s) ==
  \A i \in DOMAIN s :
    /\ s[i] \in Faulty[workbook] \ Prefix(s, i)
    /\ Passing(workbook, Prefix(s, i) \cup {s[i]}) > Passing(workbook, Prefix(s, i))

\* The search ended where it may.
Exhausted(s) ==
  \/ Failing(workbook, SetOf(s)) = {}
  \/ Len(s) = 3
  \/ Improving(workbook, SetOf(s)) = {}

\* What a decision says of the patches it comes with.
Justified(r) ==
  CASE r.decision = "REPAIR" -> Failing(workbook, SetOf(r.patches)) = {}
    [] r.decision = "NO_CHANGE" -> SetOf(r.patches) = {}
    [] OTHER ->
         \/ ambiguous \/ Cardinality(SetOf(r.patches)) = 3
         \/ \A x \in Faulty[workbook] :
              Passing(workbook, SetOf(r.patches) \cup {x})
                <= Passing(workbook, SetOf(r.patches))

Searched ==
  method = "advanced" =>
    /\ Earned(patches)
    /\ at = "gate" => ambiguous
    /\ at \in {"propose", "evidence", "proposal"} => ambiguous \/ Exhausted(patches)
    /\ dir.proposal # None => Earned(dir.proposal.patches) /\ Justified(dir.proposal)

LEMMA EarnedAppend ==
  ASSUME NEW s \in Seq(Cell), Earned(s), NEW x \in Faulty[workbook] \ SetOf(s),
         Passing(workbook, SetOf(s) \cup {x}) > Passing(workbook, SetOf(s))
  PROVE  Earned(Append(s, x))
<1> DEFINE t == Append(s, x)
           n == Len(s)
<1>1. /\ n \in Nat /\ DOMAIN s = 1..n /\ DOMAIN t = 1..(n + 1) /\ t[n + 1] = x
      /\ \A i \in 1..n : t[i] = s[i]
  OBVIOUS
<1> HIDE DEF t, n
<1>2. \A i \in 1..n : Prefix(t, i) = Prefix(s, i)
  BY <1>1 DEF Prefix
<1>3. Prefix(t, n + 1) = SetOf(s)
  BY <1>1 DEF Prefix, SetOf
<1>4. ASSUME NEW i \in DOMAIN t
      PROVE  /\ t[i] \in Faulty[workbook] \ Prefix(t, i)
             /\ Passing(workbook, Prefix(t, i) \cup {t[i]}) > Passing(workbook, Prefix(t, i))
  <2>1. CASE i \in 1..n
    <3>1. t[i] = s[i] /\ Prefix(t, i) = Prefix(s, i) /\ i \in DOMAIN s
      BY <1>1, <1>2, <2>1
    <3>2. QED
      BY <3>1, Zenon DEF Earned
  <2>2. CASE i = n + 1
    <3>1. t[i] = x /\ Prefix(t, i) = SetOf(s)
      BY <1>1, <1>3, <2>2
    <3>2. QED
      BY <3>1
  <2>3. QED
    BY <1>1, <2>1, <2>2
<1>5. Earned(t)
  BY <1>4 DEF Earned
<1>6. QED
  BY <1>5 DEF t

LEMMA ThreeEarned ==
  ASSUME NEW s \in Seq(Cell), Earned(s), Len(s) = 3
  PROVE  Cardinality(SetOf(s)) = 3
<1>1. SetOf(s) = {s[1], s[2], s[3]}
  BY DEF SetOf
<1>2. s[2] \notin {s[1]} /\ s[3] \notin {s[1], s[2]}
  <2>1. 2 \in DOMAIN s /\ 3 \in DOMAIN s
    OBVIOUS
  <2>2. s[2] \notin Prefix(s, 2) /\ s[3] \notin Prefix(s, 3)
    BY <2>1 DEF Earned
  <2>3. s[1] \in Prefix(s, 2) /\ s[1] \in Prefix(s, 3) /\ s[2] \in Prefix(s, 3)
    BY DEF Prefix
  <2>4. QED
    BY <2>2, <2>3
<1>3. PICK a, b, c : a = s[1] /\ b = s[2] /\ c = s[3]
  OBVIOUS
<1>4. PICK A : A = {a} /\ IsFiniteSet(A) /\ Cardinality(A) = 1
  BY FS_Singleton
<1>5. PICK S : S = A \cup {b}
  OBVIOUS
<1> DEFINE More(T, x) == /\ IsFiniteSet(T \cup {x})
                         /\ Cardinality(T \cup {x}) = Cardinality(T) + 1
<1>6. ASSUME NEW T, NEW x, IsFiniteSet(T), x \notin T
      PROVE  More(T, x)
  BY <1>6, FS_AddElement
<1>7. IsFiniteSet(S) /\ Cardinality(S) = 2
  <2>1. b \notin A
    BY <1>2, <1>3, <1>4
  <2>2. More(A, b)
    BY <1>4, <1>6, <2>1, Zenon
  <2>3. IsFiniteSet(S) /\ Cardinality(S) = Cardinality(A) + 1
    BY <1>5, <2>2, Zenon
  <2>4. QED
    BY <1>4, <2>3
<1>8. Cardinality(S \cup {c}) = 3
  <2>1. c \notin S
    BY <1>2, <1>3, <1>4, <1>5
  <2>2. More(S, c)
    BY <1>6, <1>7, <2>1, Zenon
  <2>3. QED
    BY <1>7, <2>2
<1>9. SetOf(s) = S \cup {c}
  BY <1>1, <1>3, <1>4, <1>5
<1>10. QED
  BY <1>8, <1>9

\* A workbook no case fails on is not patched.
LEMMA NothingToEarn ==
  ASSUME NEW s \in Seq(Cell), Earned(s), workbook \in Workbook,
         Failing(workbook, {}) = {}
  PROVE  SetOf(s) = {}
<1>1. Passing(workbook, {}) = Cardinality(Case) /\ Cardinality(Case) \in Nat
  BY SearchAssumption, FS_CardinalityType DEF Passing
<1>2. ASSUME s # <<>> PROVE FALSE
  <2>1. 1 \in DOMAIN s /\ Prefix(s, 1) = {}
    BY <1>2 DEF Prefix
  <2>2. Passing(workbook, Prefix(s, 1) \cup {s[1]}) > Passing(workbook, {})
    BY <2>1 DEF Earned
  <2>3. PICK P : P = Prefix(s, 1) \cup {s[1]}
    OBVIOUS
  <2>4. Passing(workbook, P) \in 0..Cardinality(Case)
    BY CountsAreNatural
  <2>5. QED
    BY <1>1, <2>2, <2>3, <2>4
<1>3. QED
  BY <1>2 DEF SetOf

LEMMA ResultIsJustified ==
  ASSUME SearchTyped, Earned(patches), ambiguous \/ Exhausted(patches)
  PROVE  Justified(Result(None))
<1>1. patches \in Seq(Cell) /\ workbook \in Workbook /\ ambiguous \in BOOLEAN
  BY DEF SearchTyped
<1>2. Patched = SetOf(patches) /\ SetOf(patches) \in SUBSET Cell
  BY <1>1 DEF Patched, SetOf
<1>3. PICK r : r = Result(None)
  OBVIOUS
<1>4. r.decision = TheDecision /\ r.patches = patches
  BY <1>3 DEF Result
<1>5. CASE ambiguous
  <2>1. r.decision = "ABSTAIN"
    BY <1>4, <1>5 DEF TheDecision
  <2>2. QED
    BY <1>3, <1>5, <2>1 DEF Justified
<1>6. CASE ~ambiguous
  <2>1. r.decision = Decision(workbook, SetOf(patches))
    BY <1>2, <1>4, <1>6 DEF TheDecision
  <2>2. CASE Failing(workbook, {}) = {}
    <3>1. r.decision = "NO_CHANGE" /\ SetOf(patches) = {}
      BY <1>1, <2>1, <2>2, NothingToEarn DEF Decision
    <3>2. QED
      BY <1>3, <1>4, <3>1 DEF Justified
  <2>3. CASE Failing(workbook, {}) # {} /\ Failing(workbook, SetOf(patches)) = {}
    <3>1. r.decision = "REPAIR"
      BY <2>1, <2>3 DEF Decision
    <3>2. QED
      BY <1>3, <1>4, <2>3, <3>1 DEF Justified
  <2>4. CASE Failing(workbook, {}) # {} /\ Failing(workbook, SetOf(patches)) # {}
    <3>1. r.decision = "ABSTAIN"
      BY <2>1, <2>4 DEF Decision
    <3>2. \/ Cardinality(SetOf(patches)) = 3
          \/ \A x \in Faulty[workbook] :
               Passing(workbook, SetOf(patches) \cup {x}) <= Passing(workbook, SetOf(patches))
      BY <1>1, <1>2, <1>6, <2>4, ThreeEarned, OutsideIsHopeless DEF Exhausted
    <3>3. QED
      BY <1>3, <1>4, <3>1, <3>2, Zenon DEF Justified
  <2>5. QED
    BY <2>2, <2>3, <2>4
<1>7. QED
  BY <1>1, <1>5, <1>6

LEMMA SearchedStep ==
  ASSUME Typed, Searched, [Next]_vars
  PROVE  Searched'
<1>1. /\ workbook \in Workbook /\ ambiguous \in BOOLEAN
      /\ patches \in Seq(Cell) /\ SearchTyped /\ Located
  BY DEF Typed, SearchTyped
<1>2. UNCHANGED inputs
  BY DEF Next, ReuseApproved, StartRun, StartAgent, StartApproval, RecordStage, Execute,
         SearchRound, DirectEdit, Turn, TurnsEnd, TurnFails, VerifyTrail, WriteEvidence,
         WriteProposal, WriteReport, Approve, ApprovalRefused, PatchWorkbook,
         WriteSignedReport, WriteManifest, SessionDies, vars
<1>3. /\ method' = method /\ workbook' = workbook /\ ambiguous' = ambiguous
      /\ \A s : Earned(s)' <=> Earned(s)
      /\ \A s : Exhausted(s)' <=> Exhausted(s)
      /\ \A r : Justified(r)' <=> Justified(r)
  BY <1>2 DEF inputs, Earned, Exhausted, Justified
<1>4. CASE method # "advanced"
  BY <1>3, <1>4 DEF Searched
<1> SUFFICES ASSUME method = "advanced"
             PROVE  /\ Earned(patches')
                    /\ at' = "gate" => ambiguous
                    /\ at' \in {"propose", "evidence", "proposal"}
                         => ambiguous \/ Exhausted(patches')
                    /\ dir'.proposal # None
                         => Earned(dir'.proposal.patches) /\ Justified(dir'.proposal)
  BY <1>3, <1>4, Zenon DEF Searched
<1>5. /\ Earned(patches)
      /\ at = "gate" => ambiguous
      /\ at \in {"propose", "evidence", "proposal"} => ambiguous \/ Exhausted(patches)
      /\ dir.proposal # None => Earned(dir.proposal.patches) /\ Justified(dir.proposal)
  BY DEF Searched
<1>6. Earned(<<>>)
  BY DEF Earned
<1> DEFINE Resting == at' \notin {"gate", "propose", "evidence", "proposal"}
<1>7. CASE StartRun
  BY <1>5, <1>6, <1>7 DEF StartRun
<1>8. CASE StartAgent \/ ReuseApproved
  BY <1>5, <1>8 DEF StartAgent, ReuseApproved, files, memory
<1>9. CASE StartApproval
  BY <1>5, <1>9 DEF StartApproval, files
<1>10. CASE RecordStage
  BY <1>5, <1>10, StageCases DEF RecordStage, Records
<1>11. CASE SearchRound
  <2> DEFINE best == Best(workbook, SetOf(patches))
             P == SetOf(patches)
  <2>1. Patched = P
    BY DEF Patched, SetOf
  <2>2. dir' = dir /\ at' \in {"idle", "propose", "search"}
    BY <1>11 DEF SearchRound, Leave, files
  <2>3. \/ at' = "idle" /\ patches' = patches
        \/ Improving(workbook, P) = {} /\ patches' = patches
        \/ /\ Improving(workbook, P) # {} /\ patches' = Append(patches, best)
           /\ at' = "propose" => \/ Len(patches) + 1 = 3
                                 \/ Failing(workbook, P \cup {best}) = {}
    BY <1>11, <2>1 DEF SearchRound, Leave
  <2>4. CASE at' = "idle" /\ patches' = patches
    BY <1>5, <2>2, <2>4
  <2>5. CASE Improving(workbook, P) = {} /\ patches' = patches
    BY <1>5, <2>2, <2>5 DEF Exhausted
  <2>6. CASE /\ Improving(workbook, P) # {} /\ patches' = Append(patches, best)
             /\ at' = "propose" => \/ Len(patches) + 1 = 3
                                   \/ Failing(workbook, P \cup {best}) = {}
    <3>1. best \in Improving(workbook, P)
      BY <1>1, <2>6, BestImproves
    <3>2. /\ best \in Faulty[workbook] \ P /\ best \in Cell
          /\ Passing(workbook, P \cup {best}) > Passing(workbook, P)
      BY <1>1, <3>1, CandidatesAreFaulty DEF Improving
    <3> HIDE DEF best
    <3>3. Earned(patches')
      BY <1>1, <1>5, <2>6, <3>2, EarnedAppend
    <3>4. Len(patches') = Len(patches) + 1 /\ SetOf(patches') = P \cup {best}
      BY <1>1, <2>6, <3>2 DEF SetOf
    <3>5. at' = "propose" => Exhausted(patches')
      BY <2>6, <3>4 DEF Exhausted
    <3>6. QED
      BY <1>5, <2>2, <3>3, <3>5
  <2>7. QED
    BY <2>3, <2>4, <2>5, <2>6
<1>12. CASE WriteEvidence
  BY <1>5, <1>12 DEF WriteEvidence, files, memory
<1>13. CASE WriteProposal
  <2>1. patches' = patches /\ at' = "report" /\ dir' = [dir EXCEPT !.proposal = Result(None)]
    BY <1>13 DEF WriteProposal, memory
  <2>2. Justified(Result(None)) /\ Result(None).patches = patches
    BY <1>1, <1>5, <1>13, ResultIsJustified DEF WriteProposal, Result
  <2>3. dir'.proposal = Result(None)
    BY <2>1 DEF Typed, DirTyped, Dir
  <2>4. QED
    BY <1>5, <2>1, <2>2, <2>3
<1>14. CASE WriteReport \/ PatchWorkbook \/ WriteSignedReport \/ WriteManifest \/ SessionDies
  <2>1. dir'.proposal = dir.proposal /\ patches' = patches /\ Resting
    BY <1>14
       DEF WriteReport, PatchWorkbook, WriteSignedReport, WriteManifest, SessionDies, Leave,
           Written, memory, Typed, DirTyped, Dir
  <2>2. QED
    BY <1>5, <2>1
<1>15. CASE Execute \/ Approve \/ ApprovalRefused
  BY <1>5, <1>15 DEF Execute, Approve, ApprovalRefused, Leave, files, memory
<1>16. CASE DirectEdit \/ Turn \/ TurnsEnd \/ TurnFails \/ VerifyTrail
  BY <1>1, <1>16
     DEF DirectEdit, Turn, TurnsEnd, TurnFails, VerifyTrail, Located, RunStep, ApprovalStep
<1>17. CASE UNCHANGED vars
  BY <1>5, <1>17 DEF vars, memory, files
<1>18. QED
  BY <1>7, <1>8, <1>9, <1>10, <1>11, <1>12, <1>13, <1>14, <1>15, <1>16, <1>17 DEF Next

LEMMA SearchedInit == Init => Searched
BY DEF Init, EmptyDir, Searched, Earned

LEMMA SearchedIsEarned == Typed /\ Searched => DecisionEarned
BY DEF Searched, Earned, Justified, Prefix, SetOf, DecisionEarned

\* Every patch makes more visible cases pass than the ones before it, a REPAIR
\* passes all of them, a NO_CHANGE has no patch, and an ABSTAIN with fewer than
\* three patches is stuck whatever further cell were recompiled: looking only
\* at the cones of the failing outputs loses nothing (advanced.py, _localize
\* and run_advanced).
THEOREM DecisionsAreEarned == Spec => []DecisionEarned
<1>1. QED
  BY TypedInit, TypedStep, SearchedInit, SearchedStep, SearchedIsEarned, PTL DEF Spec

-----------------------------------------------------------------------------
(* The trail of the deterministic workflows: never a failure survived. *)

Linked(t) ==
  \A i \in DOMAIN t.lines :
    /\ Len(t.lines[i]) = 1 /\ ~t.lines[i][1].cut
    /\ t.lines[i][1].event.sequence = i
    /\ t.lines[i][1].prior = IF i = 1 THEN <<>> ELSE t.lines[i - 1][1].hash

\* The writer stands at the end of a trail that verifies.
Followed ==
  /\ Linked(trail)
  /\ writer.sequence = Len(trail.lines)
  /\ writer.previous = IF trail.lines = <<>> THEN <<>>
                       ELSE trail.lines[Len(trail.lines)][1].hash
  /\ asked = TypesIn(trail)

\* What an approval leaves: its event, in a trail that verifies unless its line
\* was glued to the one before.
Signed(t) ==
  /\ LastEvent(t) = <<"APPROVE">>
  /\ (\A i \in DOMAIN t.lines : Len(t.lines[i]) = 1) => Verifies(t)

LEMMA LinkedVerifies ==
  ASSUME NEW t
  PROVE  Verifies(t) <=> (t.lines # <<>> /\ Linked(t))
BY DEF Verifies, Linked

LEMMA LinkedAppend ==
  ASSUME NEW t \in Trail, Linked(t), NEW p \in Piece, ~p.cut,
         p.event.sequence = Len(t.lines) + 1,
         p.prior = IF t.lines = <<>> THEN <<>> ELSE t.lines[Len(t.lines)][1].hash,
         NEW u, u.lines = Append(t.lines, <<p>>)
  PROVE  /\ Linked(u)
         /\ Len(u.lines) = Len(t.lines) + 1
         /\ u.lines[Len(u.lines)][1] = p
         /\ TypesIn(u) = Append(TypesIn(t), p.event.type)
<1> DEFINE n == Len(t.lines)
<1>1. t.lines \in Seq(Line) /\ n \in Nat /\ DOMAIN t.lines = 1..n
  BY DEF Trail
<1>2. PICK g : g = u.lines
  OBVIOUS
<1>3. /\ Len(g) = n + 1 /\ DOMAIN g = 1..(n + 1) /\ g[n + 1] = <<p>>
      /\ \A i \in 1..n : g[i] = t.lines[i]
  BY <1>1, <1>2
<1>4. g[n + 1][1] = p /\ Len(g[n + 1]) = 1
  BY <1>3
<1>5. ASSUME NEW i \in 1..(n + 1)
      PROVE  /\ Len(g[i]) = 1 /\ ~g[i][1].cut /\ g[i][1].event.sequence = i
             /\ g[i][1].prior = IF i = 1 THEN <<>> ELSE g[i - 1][1].hash
  <2>1. CASE i \in 1..n
    <3>1. g[i] = t.lines[i] /\ (i # 1 => g[i - 1] = t.lines[i - 1])
      BY <1>3, <2>1
    <3>2. QED
      BY <1>1, <2>1, <3>1 DEF Linked
  <2>2. CASE i = n + 1
    <3>1. t.lines = <<>> <=> i = 1
      BY <1>1, <2>2
    <3>2. i # 1 => g[i - 1] = t.lines[n]
      BY <1>1, <1>3, <2>2
    <3>3. QED
      BY <1>4, <2>2, <3>1, <3>2
  <2>3. QED
    BY <1>1, <2>1, <2>2
<1>6. Linked(u)
  BY <1>2, <1>3, <1>5 DEF Linked
<1>7. TypesIn(u) = Append(TypesIn(t), p.event.type)
  <2>1. TypesIn(u) = [i \in 1..(n + 1) |-> g[i][1].event.type]
    BY <1>2, <1>3 DEF TypesIn
  <2>2. TypesIn(t) = [i \in 1..n |-> t.lines[i][1].event.type]
    BY <1>1 DEF TypesIn
  <2>3. \A i \in 1..n : g[i][1].event.type = t.lines[i][1].event.type
    BY <1>3
  <2>4. QED
    BY <1>1, <1>4, <2>1, <2>2, <2>3
<1>8. QED
  BY <1>2, <1>3, <1>4, <1>6, <1>7

LEMMA RecordFollows ==
  ASSUME TrailTyped, Followed, NEW type \in EventType, Record(type)
  PROVE  /\ trail'.lines # <<>> /\ ~trail'.open
         /\ LastEvent(trail') = <<type>>
         /\ ~trail.open => Followed'
         /\ (\A i \in DOMAIN trail'.lines : Len(trail'.lines[i]) = 1) => Verifies(trail')
<1>1. trail \in Trail /\ writer \in Writer
  BY DEF TrailTyped
<1>2. PICK e : /\ Asked(e, type)
               /\ trail' = Added(trail, e, TRUE)
               /\ writer'.sequence = writer.sequence + 1
               /\ writer'.previous = e.hash
               /\ asked' = Append(asked, type)
  BY RecordWrites
<1>3. e \in Piece /\ ~e.cut /\ e.event.type = type
  BY <1>2 DEF Asked
<1> DEFINE n == Len(trail.lines)
<1>4. /\ trail'.open = FALSE /\ trail'.lines # <<>>
      /\ Last(Last(trail'.lines)) = e
      /\ ~trail.open => trail'.lines = Append(trail.lines, <<e>>)
      /\ trail.open => /\ n > 0 /\ Len(trail'.lines) = n
                       /\ trail'.lines[n] = Append(trail.lines[n], e)
  BY <1>1, <1>2, <1>3, AddedPiece
<1>5. LastEvent(trail') = <<type>>
  BY <1>3, <1>4 DEF LastEvent
<1>6. CASE ~trail.open
  <2>1. /\ Linked(trail')
        /\ Len(trail'.lines) = n + 1
        /\ trail'.lines[Len(trail'.lines)][1] = e
        /\ TypesIn(trail') = Append(TypesIn(trail), e.event.type)
    <3>1. /\ Linked(trail) /\ e.event.sequence = n + 1
          /\ e.prior = IF trail.lines = <<>> THEN <<>> ELSE trail.lines[n][1].hash
      BY <1>2 DEF Followed, Asked
    <3>2. PICK u : u = trail'
      OBVIOUS
    <3>3. u.lines = Append(trail.lines, <<e>>)
      BY <1>4, <1>6, <3>2
    <3>4. QED
      BY <1>1, <1>3, <3>1, <3>2, <3>3, LinkedAppend
  <2>2. Followed'
    BY <1>2, <1>3, <1>4, <2>1 DEF Followed
  <2>3. Verifies(trail')
    BY <1>4, <2>1, LinkedVerifies
  <2>4. QED
    BY <1>4, <1>5, <2>2, <2>3
<1>7. CASE trail.open
  <2>1. trail.lines[n] \in Seq(Piece) /\ Len(trail.lines[n]) = 1
    BY <1>1, <1>4, <1>7 DEF Trail, Line, Followed, Linked
  <2>2. Len(trail'.lines[n]) = 2
    <3>1. PICK line \in Seq(Piece) : line = trail.lines[n] /\ Len(line) = 1
      BY <2>1
    <3>2. \A s \in Seq(Piece), x \in Piece : Len(Append(s, x)) = Len(s) + 1
      OBVIOUS
    <3>3. Len(Append(line, e)) = Len(line) + 1
      BY <1>3, <3>2, Zenon
    <3>4. Len(Append(line, e)) = 2
      BY <3>1, <3>3
    <3>5. QED
      BY <1>4, <1>7, <3>1, <3>4, Zenon
  <2>3. trail' \in Trail
    BY <1>1, <1>2, <1>3, AddedPiece
  <2>4. n \in DOMAIN trail'.lines
    BY <1>1, <1>4, <1>7, <2>3 DEF Trail
  <2>5. ~\A i \in DOMAIN trail'.lines : Len(trail'.lines[i]) = 1
    BY <2>2, <2>4
  <2>6. QED
    BY <1>4, <1>5, <1>7, <2>5, Zenon
<1>8. QED
  BY <1>1, <1>6, <1>7 DEF Trail

LEMMA ResumedFollows ==
  ASSUME trail \in Trail, Resumes(trail), UNCHANGED trail,
         writer' = ResumedWriter(trail), asked' = TypesIn(trail)
  PROVE  Followed'
<1>1. trail.lines \in Seq(Line) /\ Len(trail.lines) \in Nat
  BY DEF Trail
<1>2. Linked(trail)
  BY LinkedVerifies DEF Resumes, Linked
<1>3. CASE trail.lines = <<>>
  <2>1. writer' = FreshWriter
    BY <1>3 DEF ResumedWriter
  <2>2. QED
    BY <1>2, <1>3, <2>1 DEF FreshWriter, Followed
<1>4. CASE trail.lines # <<>>
  <2>1. Len(trail.lines) \in DOMAIN trail.lines
    BY <1>1, <1>4
  <2>2. /\ writer'.sequence = trail.lines[Len(trail.lines)][1].event.sequence
        /\ writer'.previous = trail.lines[Len(trail.lines)][1].hash
    BY <1>4 DEF ResumedWriter, Last
  <2>3. writer'.sequence = Len(trail.lines)
    BY <1>2, <2>1, <2>2 DEF Linked
  <2>4. QED
    BY <1>2, <1>4, <2>2, <2>3 DEF Followed
<1>5. QED
  BY <1>3, <1>4

-----------------------------------------------------------------------------
(* The directory and its trail, step by step. *)

\* Where a session goes on, its trail is all that was asked of it.
Traced ==
  /\ method = "advanced" /\ at \in RunStep =>
       Followed /\ ~trail.open /\ (at # "ingest" => trail.lines # <<>>)
  /\ method = "baseline" /\ at # "idle" =>
       Followed /\ ~trail.open /\ (at # "ingest" => trail.lines # <<>>)
  /\ method = "advanced" /\ at \in {"patch", "sign"} => Followed
  /\ method = "advanced" /\ at \in {"signed_report", "manifest"} => Signed(trail)

\* The approval of a proposal goes file by file, and what it leaves stays.
Marked ==
  method = "advanced" =>
    /\ ambiguous => dir.approval = None /\ at \notin ApprovalStep
    /\ at \in RunStep \cup {"patch", "sign", "signed_report", "manifest"}
         => dir.approval = None
    /\ at \in {"report"} \cup ApprovalStep
         => dir.proposal # None /\ dir.proposal.patches = patches
    /\ at \in {"sign", "signed_report", "manifest"} => dir.repaired = Copy(patches, TRUE)
    /\ at = "manifest" => dir.report = Result(Manifest)
    /\ dir.approval # None =>
         /\ Reusable /\ dir.repaired.whole
         /\ dir.proposal # None /\ dir.proposal.patches = dir.approval.patches
         /\ Signed(trail)

\* The baseline's report is its marker.
Signs == patches # <<>> /\ reviewer # None

BaselineMarked ==
  /\ started = 0 => dir = EmptyDir /\ at = "idle"
  /\ method = "baseline" /\ started = 1 =>
       /\ at \in {"patch", "manifest", "sign"} => Signs
       /\ at \in {"manifest", "sign"} \/ (at = "report" /\ Signs)
            => dir.repaired = Copy(patches, TRUE)
       /\ at = "sign" \/ (at = "report" /\ Signs) => dir.approval = Manifest
       /\ at = "report" /\ Signs => Verifies(trail) /\ LastEvent(trail) = <<"APPROVE">>
       /\ dir.report # None =>
            /\ at = "idle"
            /\ dir.report.approval # None =>
                 /\ dir.approval = dir.report.approval
                 /\ dir.repaired = dir.approval.repaired /\ dir.repaired.whole
                 /\ Verifies(trail) /\ LastEvent(trail) = <<"APPROVE">>

-----------------------------------------------------------------------------
(* The trail of the agents, which survives a failed write. *)

\* Every piece is labelled with the event that was asked under its number.
Labelled(t, events) ==
  \A i \in DOMAIN t.lines : \A j \in DOMAIN t.lines[i] :
    LET event == t.lines[i][j].event
    IN  event.sequence \in DOMAIN events /\ event.type = events[event.sequence]

AgentTraced ==
  method = "agent" =>
    /\ at \in {"guardrail", "turns", "stopped", "final", "verify"} =>
         /\ dir.proposal = None
         /\ writer.sequence = Len(asked)
         /\ Labelled(trail, asked)
    /\ at = "verify" =>
         /\ trail.lines # <<>>
         /\ Last(Last(trail.lines)).event.sequence = Len(asked)
    /\ at \in {"evidence", "proposal", "report"} \/ dir.proposal # None =>
         Verifies(trail) /\ TypesIn(trail) = asked

-----------------------------------------------------------------------------
(* These hold at every step. *)

LEMMA RestInit == Init => Traced /\ Marked /\ BaselineMarked /\ AgentTraced
BY DEF Init, EmptyDir, Traced, RunStep, Marked, ApprovalStep, BaselineMarked, AgentTraced

LEMMA InputsStay == [Next]_vars => UNCHANGED inputs
BY DEF Next, ReuseApproved, StartRun, StartAgent, StartApproval, RecordStage, Execute,
       SearchRound, DirectEdit, Turn, TurnsEnd, TurnFails, VerifyTrail, WriteEvidence,
       WriteProposal, WriteReport, Approve, ApprovalRefused, PatchWorkbook,
       WriteSignedReport, WriteManifest, SessionDies, vars

LEMMA TracedStep ==
  ASSUME Typed, Traced, [Next]_vars
  PROVE  Traced'
<1>1. method' = method
  BY InputsStay DEF inputs
<1>2. Located /\ trail \in Trail /\ TrailTyped
  BY DEF Typed, TrailTyped
<1>3. ASSUME UNCHANGED <<trail, writer, asked>>
      PROVE  (Followed' <=> Followed) /\ (Signed(trail)' <=> Signed(trail))
  BY <1>3 DEF Followed, Signed
<1> DEFINE Late == {"signed_report", "manifest"}
<1>4. ASSUME UNCHANGED <<trail, writer, asked>>, at # "ingest",
             method = "advanced" /\ at' \in RunStep => at \in RunStep,
             method = "baseline" /\ at' # "idle" => at # "idle",
             method = "advanced" /\ at' \in {"patch", "sign"} => at \in {"patch", "sign"},
             method = "advanced" /\ at' \in Late => at \in Late
      PROVE  Traced'
  BY <1>1, <1>3, <1>4 DEF Traced
<1>5. CASE StartRun
  <2>1. trail' = EmptyTrail /\ writer' = FreshWriter /\ asked' = <<>> /\ at' = "ingest"
    BY <1>5 DEF StartRun
  <2>2. Followed' /\ ~trail'.open
    BY <2>1 DEF EmptyTrail, FreshWriter, Followed, Linked, TypesIn
  <2>3. QED
    BY <2>1, <2>2 DEF Traced, RunStep
<1>6. CASE StartAgent
  BY <1>1, <1>6 DEF StartAgent, Traced
<1>7. CASE ReuseApproved \/ StartApproval
  BY <1>4, <1>7 DEF ReuseApproved, StartApproval, Idle, files, memory, RunStep
<1>8. CASE RecordStage
  <2>1. PICK type \in EventType : type = Stage[1]
    BY <1>8, StageCases DEF RecordStage, Records, EventType
  <2>2. Record(type) /\ at' = Stage[2]
    BY <1>8, <2>1 DEF RecordStage
  <2>3. Followed => /\ trail'.lines # <<>> /\ ~trail'.open
                    /\ LastEvent(trail') = <<type>>
                    /\ ~trail.open => Followed'
                    /\ (\A i \in DOMAIN trail'.lines : Len(trail'.lines[i]) = 1)
                       => Verifies(trail')
    BY <1>2, <2>1, <2>2, RecordFollows
  <2>4. CASE method = "agent"
    BY <1>1, <2>4 DEF Traced
  <2>5. CASE at = "sign" /\ method = "advanced"
    <3>1. type = "APPROVE" /\ at' = "signed_report" /\ Followed
      BY <1>8, <2>1, <2>2, <2>5, StageCases DEF RecordStage, Records, Traced
    <3>2. Signed(trail')
      BY <2>3, <3>1 DEF Signed
    <3>3. QED
      BY <1>1, <2>5, <3>1, <3>2 DEF Traced, RunStep
  <2>6. CASE method = "baseline" \/ (method = "advanced" /\ at # "sign")
    <3>1. /\ at # "idle" /\ Followed /\ ~trail.open
          /\ at' # "ingest" /\ (method = "advanced" => at' \in RunStep)
      BY <1>8, <2>2, <2>6, StageCases DEF RecordStage, Records, Traced, RunStep
    <3>2. QED
      BY <1>1, <2>3, <2>6, <3>1 DEF Traced, RunStep
  <2>7. QED
    BY <1>8, <2>4, <2>5, <2>6, StageCases DEF RecordStage, Records
<1>9. CASE Execute \/ SearchRound \/ DirectEdit
  BY <1>4, <1>9 DEF Execute, SearchRound, DirectEdit, Leave, files, memory, RunStep
<1>10. CASE Turn \/ TurnFails \/ TurnsEnd \/ VerifyTrail
  <2>1. method = "agent"
    BY <1>2, <1>10
       DEF Turn, TurnFails, TurnsEnd, VerifyTrail, Located, RunStep, ApprovalStep,
           BaselineStep
  <2>2. QED
    BY <1>1, <2>1 DEF Traced
<1>11. CASE WriteEvidence \/ WriteProposal \/ WriteReport
  BY <1>4, <1>11 DEF WriteEvidence, WriteProposal, WriteReport, files, memory, RunStep
<1>12. CASE Approve
  <2>1. /\ Resumes(trail) /\ trail' = trail /\ at' = "patch"
        /\ writer' = ResumedWriter(trail) /\ asked' = TypesIn(trail)
    BY <1>12 DEF Approve, files
  <2>2. Followed'
    BY <1>2, <2>1, ResumedFollows
  <2>3. method # "baseline"
    BY <1>2, <1>12 DEF Approve, Located, BaselineStep
  <2>4. QED
    BY <1>1, <2>1, <2>2, <2>3 DEF Traced, RunStep
<1>13. CASE ApprovalRefused \/ PatchWorkbook \/ WriteSignedReport \/ WriteManifest
  BY <1>2, <1>4, <1>13
     DEF ApprovalRefused, PatchWorkbook, WriteSignedReport, WriteManifest, Leave, files,
         memory, RunStep, Located, BaselineStep, ApprovalStep
<1>14. CASE SessionDies
  BY <1>1, <1>14 DEF SessionDies, Leave, Traced, RunStep
<1>15. CASE UNCHANGED vars
  BY <1>1, <1>3, <1>15 DEF vars, files, memory, Traced
<1>16. QED
  BY <1>5, <1>6, <1>7, <1>8, <1>9, <1>10, <1>11, <1>12, <1>13, <1>14, <1>15 DEF Next

LEMMA LabelledAdded ==
  ASSUME NEW t \in Trail, NEW events \in Seq(EventType), Labelled(t, events),
         NEW p \in Piece, p.event.sequence \in DOMAIN events,
         p.event.type = events[p.event.sequence], NEW newline \in BOOLEAN
  PROVE  Labelled(Added(t, p, newline), events)
<1> DEFINE n == Len(t.lines)
<1>1. PICK u : u = Added(t, p, newline)
  OBVIOUS
<1>2. /\ u \in Trail
      /\ ~t.open => u.lines = Append(t.lines, <<p>>)
      /\ t.open => /\ n > 0 /\ Len(u.lines) = n
                   /\ \A i \in 1..(n - 1) : u.lines[i] = t.lines[i]
                   /\ u.lines[n] = Append(t.lines[n], p)
  BY <1>1, AddedPiece
<1>3. /\ t.lines \in Seq(Line) /\ n \in Nat /\ DOMAIN t.lines = 1..n
      /\ t.open \in BOOLEAN /\ u.lines \in Seq(Line)
  BY <1>2 DEF Trail
<1>4. PICK g \in Seq(Line) : g = u.lines
  BY <1>3
<1>5. ASSUME NEW i \in DOMAIN g, NEW j \in DOMAIN g[i]
      PROVE  g[i][j] = p \/ (/\ i \in DOMAIN t.lines /\ j \in DOMAIN t.lines[i]
                            /\ g[i][j] = t.lines[i][j])
  <2>1. CASE ~t.open
    <3>1. g = Append(t.lines, <<p>>)
      BY <1>2, <1>4, <2>1
    <3>2. CASE i \in 1..n
      BY <1>3, <3>1, <3>2
    <3>3. CASE i = n + 1
      <4>1. g[i] = <<p>>
        BY <1>3, <3>1, <3>3
      <4>2. QED
        BY <1>5, <4>1
    <3>4. QED
      BY <1>3, <3>1, <3>2, <3>3
  <2>2. CASE t.open
    <3>1. n > 0 /\ Len(g) = n /\ (\A k \in 1..(n - 1) : g[k] = t.lines[k])
          /\ g[n] = Append(t.lines[n], p)
      BY <1>2, <1>4, <2>2
    <3>2. CASE i # n
      BY <1>3, <1>5, <3>1, <3>2
    <3>3. CASE i = n
      <4>1. PICK line \in Seq(Piece) : line = t.lines[n]
        BY <1>3, <3>1 DEF Line
      <4>2. g[i] = Append(line, p)
        BY <3>1, <3>3, <4>1
      <4>3. j = Len(line) + 1 \/ j \in 1..Len(line)
        BY <1>5, <4>2
      <4>4. QED
        BY <1>3, <3>1, <3>3, <4>1, <4>2, <4>3
    <3>4. QED
      BY <3>2, <3>3
  <2>3. QED
    BY <1>3, <2>1, <2>2
<1>6. Labelled(u, events)
  BY <1>4, <1>5 DEF Labelled
<1>7. QED
  BY <1>1, <1>6

\* What a write leaves, in full or not, is labelled with what was asked.
LEMMA LabelledFailures ==
  ASSUME NEW t \in Trail, NEW events \in Seq(EventType), Labelled(t, events),
         NEW type \in EventType, NEW p \in Piece,
         p.event.sequence = Len(events) + 1, p.event.type = type,
         NEW u \in Failures(t, p)
  PROVE  Labelled(u, Append(events, type))
<1>1. PICK more \in Seq(EventType) : more = Append(events, type)
  <2>1. Append(events, type) \in Seq(EventType)
    OBVIOUS
  <2>2. QED
    BY <2>1, Zenon
<1>2. /\ DOMAIN more = 1..(Len(events) + 1) /\ more[Len(events) + 1] = type
      /\ \A k \in DOMAIN events : k \in DOMAIN more /\ more[k] = events[k]
  BY <1>1
<1>3. Labelled(t, more)
  BY <1>2 DEF Labelled
<1>4. p.event.sequence \in DOMAIN more /\ p.event.type = more[p.event.sequence]
  BY <1>2
<1>5. PICK c \in Piece : c = [p EXCEPT !.cut = TRUE] /\ c.event = p.event
  <2>1. [p EXCEPT !.cut = TRUE] \in Piece /\ [p EXCEPT !.cut = TRUE].event = p.event
    BY DEF Piece
  <2>2. QED
    BY <2>1, Zenon
<1>6. \/ u = t \/ u = Added(t, c, FALSE) \/ u = Added(t, p, FALSE) \/ u = Added(t, p, TRUE)
  BY <1>5 DEF Failures
<1>7. Labelled(u, more)
  BY <1>3, <1>4, <1>5, <1>6, LabelledAdded
<1>8. QED
  BY <1>1, <1>7

\* A labelled trail that verifies and ends with the last event holds them all.
LEMMA LabelledIsComplete ==
  ASSUME NEW t \in Trail, NEW events \in Seq(EventType), Labelled(t, events),
         Verifies(t), Last(Last(t.lines)).event.sequence = Len(events)
  PROVE  TypesIn(t) = events
<1> DEFINE n == Len(t.lines)
<1>1. t.lines \in Seq(Line) /\ n \in Nat /\ DOMAIN t.lines = 1..n /\ t.lines # <<>>
  BY DEF Trail, Verifies
<1>2. n \in 1..n
  BY <1>1
<1>3. \A i \in 1..n : Len(t.lines[i]) = 1 /\ t.lines[i][1].event.sequence = i
  BY <1>1 DEF Verifies
<1>4. Last(Last(t.lines)) = t.lines[n][1]
  BY <1>2, <1>3 DEF Last
<1>5. n = Len(events) /\ DOMAIN events = 1..n
  BY <1>2, <1>3, <1>4
<1>6. ASSUME NEW i \in 1..n
      PROVE  t.lines[i][1].event.type = events[i]
  <2>1. t.lines[i] \in Seq(Piece) /\ 1 \in DOMAIN t.lines[i]
    BY <1>1, <1>3 DEF Line
  <2>2. t.lines[i][1].event.type = events[t.lines[i][1].event.sequence]
    BY <1>1, <2>1, Zenon DEF Labelled
  <2>3. QED
    BY <1>3, <2>2
<1>7. QED
  BY <1>1, <1>5, <1>6 DEF TypesIn

LEMMA RecordLabels ==
  ASSUME TrailTyped, writer.sequence = Len(asked), Labelled(trail, asked),
         NEW type \in EventType, Record(type) \/ RecordFails(type)
  PROVE  /\ writer'.sequence = Len(asked') /\ Labelled(trail', asked')
         /\ Record(type) => /\ trail'.lines # <<>>
                            /\ Last(Last(trail'.lines)).event.sequence = Len(asked')
<1>1. trail \in Trail /\ writer \in Writer /\ asked \in Seq(EventType)
  BY DEF TrailTyped
<1>2. Len(Append(asked, type)) = Len(asked) + 1
  BY <1>1
<1>3. CASE Record(type)
  <2>1. PICK e : /\ Asked(e, type) /\ trail' = Added(trail, e, TRUE)
                 /\ writer'.sequence = writer.sequence + 1
                 /\ asked' = Append(asked, type)
    BY <1>3, RecordWrites
  <2>2. e \in Piece /\ e.event.sequence = Len(asked) + 1 /\ e.event.type = type
    BY <2>1 DEF Asked
  <2>3. trail' \in Failures(trail, e)
    BY <2>1 DEF Failures
  <2>4. Labelled(trail', asked')
    BY <1>1, <2>1, <2>2, <2>3, LabelledFailures
  <2>5. trail'.lines # <<>> /\ Last(Last(trail'.lines)) = e
    BY <1>1, <2>1, <2>2, AddedPiece
  <2>6. QED
    BY <1>2, <2>1, <2>2, <2>4, <2>5
<1>4. CASE RecordFails(type) /\ ~Record(type)
  <2>1. PICK e : /\ Asked(e, type) /\ trail' \in Failures(trail, e)
                 /\ writer'.sequence = writer.sequence + 1
                 /\ asked' = Append(asked, type)
    BY <1>4, FailedRecordWrites
  <2>2. e \in Piece /\ e.event.sequence = Len(asked) + 1 /\ e.event.type = type
    BY <2>1 DEF Asked
  <2>3. Labelled(trail', asked')
    BY <1>1, <2>1, <2>2, LabelledFailures
  <2>4. QED
    BY <1>2, <1>4, <2>1, <2>3
<1>5. QED
  BY <1>3, <1>4

LEMMA AgentTracedStep ==
  ASSUME Typed, AgentTraced, BaselineMarked, [Next]_vars
  PROVE  AgentTraced'
<1>1. /\ method' = method /\ Located /\ TrailTyped /\ trail \in Trail
      /\ asked \in Seq(EventType) /\ started \in Nat
  BY InputsStay DEF Typed, TrailTyped, SearchTyped, inputs
<1> SUFFICES ASSUME method = "agent" PROVE AgentTraced'
  BY <1>1 DEF AgentTraced
<1> DEFINE Asking == {"guardrail", "turns", "stopped", "final", "verify"}
           Closing == {"evidence", "proposal", "report"}
<1>2. at \in {"idle"} \cup Asking \cup Closing
  BY <1>1 DEF Located, AgentStep
<1>3. ASSUME UNCHANGED <<trail, writer, asked>>, dir'.proposal = dir.proposal,
             at' \in Asking \ {"verify"} => at \in Asking,
             at' # "verify", at' \in Closing => at \in Closing
      PROVE  AgentTraced'
  BY <1>1, <1>2, <1>3 DEF AgentTraced
<1>4. CASE StartAgent
  <2>1. started = 0 /\ trail' = EmptyTrail /\ writer' = FreshWriter /\ asked' = <<>>
        /\ at' = "guardrail" /\ dir' = dir
    BY <1>1, <1>4 DEF StartAgent, Idle
  <2>2. dir'.proposal = None
    BY <2>1 DEF BaselineMarked, EmptyDir
  <2>3. QED
    BY <2>1, <2>2 DEF AgentTraced, EmptyTrail, FreshWriter, Labelled
<1>5. CASE RecordStage \/ Turn \/ TurnFails
  <2>1. PICK type \in EventType : Record(type) \/ RecordFails(type)
    <3>1. "TURN" \in EventType
      BY DEF EventType
    <3>2. Traces => Stage[1] \in EventType
      BY StageCases DEF Records, EventType
    <3>3. QED
      BY <1>5, <3>1, <3>2, Zenon DEF RecordStage, Turn, TurnFails
  <2>2. /\ at \in {"guardrail", "turns", "stopped", "final"} /\ dir' = dir
        /\ at' \in Asking
        /\ at' = "verify" => RecordStage
    BY <1>5, StageCases DEF RecordStage, Records, Turn, TurnFails
  <2>3. dir.proposal = None /\ writer.sequence = Len(asked) /\ Labelled(trail, asked)
    BY <2>2 DEF AgentTraced
  <2>4. writer'.sequence = Len(asked') /\ Labelled(trail', asked')
    BY <1>1, <2>1, <2>3, RecordLabels
  <2>5. at' = "verify" => /\ trail'.lines # <<>>
                          /\ Last(Last(trail'.lines)).event.sequence = Len(asked')
    <3>1. ASSUME RecordStage
          PROVE  /\ trail'.lines # <<>>
                 /\ Last(Last(trail'.lines)).event.sequence = Len(asked')
      <4>1. PICK kind \in EventType : Record(kind)
        BY <3>1, StageCases DEF RecordStage, Records, EventType
      <4>2. QED
        BY <1>1, <2>3, <4>1, RecordLabels
    <3>2. QED
      BY <2>2, <3>1
  <2>6. QED
    BY <2>2, <2>3, <2>4, <2>5 DEF AgentTraced
<1>6. CASE TurnsEnd
  BY <1>3, <1>6 DEF TurnsEnd, files, memory
<1>7. CASE VerifyTrail
  <2>1. /\ UNCHANGED <<trail, writer, asked, dir>> /\ at = "verify"
        /\ at' = "idle" \/ (at' = "evidence" /\ Verifies(trail))
    BY <1>7 DEF VerifyTrail, files, memory
  <2>2. /\ dir.proposal = None /\ Labelled(trail, asked)
        /\ Last(Last(trail.lines)).event.sequence = Len(asked)
    BY <2>1 DEF AgentTraced
  <2>3. Verifies(trail) => TypesIn(trail) = asked
    BY <1>1, <2>2, LabelledIsComplete
  <2>4. QED
    BY <2>1, <2>2, <2>3 DEF AgentTraced
<1>8. CASE WriteEvidence \/ WriteReport
  <2>1. UNCHANGED <<trail, writer, asked>> /\ dir'.proposal = dir.proposal
    BY <1>8 DEF WriteEvidence, WriteReport, files, memory, Typed, DirTyped, Dir
  <2>2. QED
    BY <1>3, <1>8, <2>1 DEF WriteEvidence, WriteReport
<1>9. CASE WriteProposal
  <2>1. /\ UNCHANGED <<trail, writer, asked>> /\ at = "proposal" /\ at' = "report"
    BY <1>9 DEF WriteProposal, memory
  <2>2. QED
    BY <1>1, <2>1 DEF AgentTraced
<1>10. CASE SessionDies
  <2>1. /\ at' = "idle" /\ dir'.proposal = dir.proposal
        /\ UNCHANGED <<writer, asked>>
    BY <1>10 DEF SessionDies, Leave, memory, Typed, DirTyped, Dir
  <2>2. at \in Asking \/ trail' = trail
    BY <1>2, <1>10, StageCases DEF SessionDies, Traces, Stages
  <2>3. QED
    BY <1>1, <2>1, <2>2 DEF AgentTraced
<1>11. CASE Execute \/ SearchRound \/ DirectEdit \/ Approve \/ ApprovalRefused \/ PatchWorkbook
            \/ WriteSignedReport \/ WriteManifest
  BY <1>2, <1>11
     DEF Execute, SearchRound, DirectEdit, Approve, ApprovalRefused, PatchWorkbook,
         WriteSignedReport, WriteManifest
<1>12. CASE ReuseApproved \/ StartRun \/ StartApproval
  BY <1>12 DEF ReuseApproved, StartRun, StartApproval
<1>13. CASE UNCHANGED vars
  BY <1>1, <1>13 DEF vars, files, memory, AgentTraced
<1>14. QED
  BY <1>4, <1>5, <1>6, <1>7, <1>8, <1>9, <1>10, <1>11, <1>12, <1>13 DEF Next

\* What is written over one file leaves the others.
LEMMA FilesWritten ==
  ASSUME DirTyped
  PROVE  /\ \A r : LET d == [dir EXCEPT !.proposal = r]
                  IN  /\ d.proposal = r /\ d.report = dir.report
                      /\ d.repaired = dir.repaired /\ d.approval = dir.approval
         /\ \A r : LET d == [dir EXCEPT !.report = r]
                  IN  /\ d.report = r /\ d.proposal = dir.proposal
                      /\ d.repaired = dir.repaired /\ d.approval = dir.approval
         /\ \A r : LET d == [dir EXCEPT !.repaired = r]
                  IN  /\ d.repaired = r /\ d.proposal = dir.proposal
                      /\ d.report = dir.report /\ d.approval = dir.approval
         /\ \A r : LET d == [dir EXCEPT !.approval = r]
                  IN  /\ d.approval = r /\ d.proposal = dir.proposal
                      /\ d.report = dir.report /\ d.repaired = dir.repaired
BY DEF DirTyped, Dir

\* A copy cut short, or none at all, leaves the other files.
LEMMA CopyWritten ==
  ASSUME DirTyped, NEW c, dir' = dir \/ dir' = [dir EXCEPT !.repaired = c]
  PROVE  /\ dir'.proposal = dir.proposal /\ dir'.report = dir.report
         /\ dir'.approval = dir.approval
<1>1. CASE dir' = dir
  BY <1>1
<1>2. CASE dir' = [dir EXCEPT !.repaired = c]
  BY <1>2, FilesWritten
<1>3. QED
  BY <1>1, <1>2

\* A result and a manifest are never taken for a missing file.
LEMMA WrittenIsSomething ==
  ASSUME Typed
  PROVE  /\ Result(None) # None /\ Result(None).patches = patches
         /\ reviewer \in Reviewer =>
              /\ Manifest # None /\ Result(Manifest) # None
              /\ Manifest.patches = patches /\ Manifest.repaired = dir.repaired
              /\ Result(Manifest).patches = patches /\ Result(Manifest).approval = Manifest
         /\ Copy(patches, TRUE) # None /\ Copy(patches, TRUE).whole
<1>1. /\ patches \in Seq(Cell) /\ dir.repaired \in {None} \cup Copies
  BY DEF Typed, SearchTyped, DirTyped, Dir
<1>2. TheDecision \in {"REPAIR", "NO_CHANGE", "ABSTAIN"}
  BY DEF TheDecision, Decision
<1>3. reviewer \in Reviewer => Manifest \in Approvals
  BY <1>1 DEF Manifest, Approvals, Copies
<1>4. \A a \in {None} \cup Approvals : Result(a) \in Results
  BY <1>1, <1>2 DEF Result, Results
<1>5. Copy(patches, TRUE) \in Copies
  BY <1>1 DEF Copy, Copies
<1>6. /\ Result(None) # None /\ Copy(patches, TRUE) # None
      /\ reviewer \in Reviewer => Manifest # None /\ Result(Manifest) # None
  BY <1>3, <1>4, <1>5, TracedAssumption DEF Copies
<1>7. QED
  BY <1>6 DEF Result, Manifest, Copy

LEMMA MarkedStep ==
  ASSUME Typed, Traced, Marked, [Next]_vars
  PROVE  Marked'
<1>1. /\ UNCHANGED inputs /\ method' = method /\ ambiguous' = ambiguous
      /\ Located /\ DirTyped /\ TrailTyped
      /\ at \in ApprovalStep => reviewer \in Reviewer
  BY InputsStay DEF Typed, DirTyped, inputs
<1> SUFFICES ASSUME method = "advanced" PROVE Marked'
  BY <1>1 DEF Marked
<1> DEFINE Writing == {"patch", "sign", "signed_report", "manifest"}
           Copied == {"sign", "signed_report", "manifest"}
<1>2. /\ ambiguous => dir.approval = None /\ at \notin ApprovalStep
      /\ at \in RunStep \cup Writing => dir.approval = None
      /\ at \in {"report"} \cup ApprovalStep
           => dir.proposal # None /\ dir.proposal.patches = patches
      /\ at \in Copied => dir.repaired = Copy(patches, TRUE)
      /\ at = "manifest" => dir.report = Result(Manifest)
      /\ dir.approval # None =>
           /\ Reusable /\ dir.repaired.whole
           /\ dir.proposal # None /\ dir.proposal.patches = dir.approval.patches
           /\ Signed(trail)
  BY DEF Marked
<1>3. at \in {"idle"} \cup RunStep \cup ApprovalStep
  BY <1>1 DEF Located
\* A session that leaves the files alone.
<1>4. ASSUME dir' = dir,
             trail' = trail \/ dir.approval = None,
             ambiguous => at' \notin ApprovalStep,
             at' \in RunStep \cup Writing => dir.approval = None,
             at' \in {"report"} \cup ApprovalStep
               => dir.proposal # None /\ dir.proposal.patches = patches',
             at' \in Copied => at \in Copied /\ patches' = patches,
             at' # "manifest"
      PROVE  Marked'
  BY <1>1, <1>2, <1>4 DEF Marked, Reusable, Signed
<1>5. CASE StartRun
  BY <1>1, <1>2, <1>4, <1>5
     DEF StartRun, RunsAgain, Approved, RunStep, ApprovalStep
<1>6. CASE StartAgent
  BY <1>6 DEF StartAgent
<1>7. CASE ReuseApproved
  BY <1>2, <1>4, <1>7 DEF ReuseApproved, Idle, files, memory, RunStep, ApprovalStep
<1>8. CASE StartApproval
  BY <1>2, <1>4, <1>8 DEF StartApproval, Idle, files, RunStep, ApprovalStep
<1>9. CASE RecordStage
  <2>1. dir' = dir /\ patches' = patches /\ reviewer' = reviewer
    BY <1>9 DEF RecordStage
  <2>2. \/ at = "sign" /\ at' = "signed_report"
        \/ at \in RunStep /\ at' \in RunStep \ {"report"}
    BY <1>3, <1>9, StageCases DEF RecordStage, Records, RunStep
  <2>3. QED
    BY <1>2, <1>4, <2>1, <2>2 DEF RunStep, ApprovalStep
<1>10. CASE Execute \/ SearchRound
  BY <1>2, <1>4, <1>10 DEF Execute, SearchRound, Leave, files, RunStep, ApprovalStep
<1>11. CASE DirectEdit \/ Turn \/ TurnsEnd \/ TurnFails \/ VerifyTrail
  BY <1>3, <1>11
     DEF DirectEdit, Turn, TurnsEnd, TurnFails, VerifyTrail, RunStep, ApprovalStep
<1>12. CASE WriteEvidence
  BY <1>2, <1>4, <1>12 DEF WriteEvidence, files, memory, RunStep, ApprovalStep
<1>13. CASE WriteProposal
  <2>1. /\ dir'.proposal = Result(None) /\ dir'.approval = dir.approval
        /\ patches' = patches /\ at = "proposal" /\ at' = "report"
    BY <1>1, <1>13, FilesWritten DEF WriteProposal, memory
  <2>2. Result(None) # None /\ Result(None).patches = patches
    BY WrittenIsSomething
  <2>3. dir.approval = None
    BY <1>2, <2>1 DEF RunStep
  <2>4. QED
    BY <1>1, <2>1, <2>2, <2>3 DEF Marked, ApprovalStep
<1>14. CASE WriteReport
  <2>1. /\ dir'.proposal = dir.proposal /\ dir'.approval = dir.approval
        /\ patches' = patches /\ at = "report" /\ at' \in {"approve", "idle"}
        /\ at' = "approve" => ~ambiguous
    BY <1>1, <1>14, FilesWritten DEF WriteReport, memory, TheDecision
  <2>2. dir.approval = None
    BY <1>2, <2>1 DEF RunStep
  <2>3. QED
    BY <1>1, <1>2, <2>1, <2>2 DEF Marked, RunStep, ApprovalStep
<1>15. CASE Approve \/ ApprovalRefused
  BY <1>2, <1>4, <1>15
     DEF Approve, ApprovalRefused, MayApply, Leave, files, memory, RunStep, ApprovalStep
<1>16. CASE PatchWorkbook
  <2>1. /\ dir'.proposal = dir.proposal /\ dir'.approval = dir.approval
        /\ dir'.repaired = Copy(patches, TRUE)
        /\ patches' = patches /\ at = "patch" /\ at' = "sign"
    BY <1>1, <1>16, FilesWritten DEF PatchWorkbook, memory
  <2>2. QED
    BY <1>1, <1>2, <2>1 DEF Marked, RunStep, ApprovalStep, Copy
<1>17. CASE WriteSignedReport
  <2>1. /\ dir'.report = Result(Manifest)
        /\ dir'.proposal = dir.proposal /\ dir'.approval = dir.approval
        /\ dir'.repaired = dir.repaired
        /\ patches' = patches /\ reviewer' = reviewer
        /\ at = "signed_report" /\ at' = "manifest"
    BY <1>1, <1>17, FilesWritten DEF WriteSignedReport, Written, memory
  <2>2. Result(Manifest)' = Result(Manifest)
    BY <1>1, <2>1 DEF Result, Manifest, TheDecision, Patched, inputs
  <2>3. Copy(patches, TRUE)' = Copy(patches, TRUE)
    BY <2>1 DEF Copy
  <2>4. QED
    BY <1>1, <1>2, <2>1, <2>2, <2>3 DEF Marked, RunStep, ApprovalStep
<1>18. CASE WriteManifest
  <2>1. /\ dir'.approval = Manifest
        /\ dir'.proposal = dir.proposal /\ dir'.report = dir.report
        /\ dir'.repaired = dir.repaired /\ trail' = trail
        /\ patches' = patches /\ at = "manifest" /\ at' = "idle"
    BY <1>1, <1>18, FilesWritten DEF WriteManifest, Written, memory
  <2>2. /\ dir.report = Result(Manifest) /\ dir.repaired = Copy(patches, TRUE)
        /\ dir.proposal # None /\ dir.proposal.patches = patches /\ ~ambiguous
    BY <1>2, <2>1 DEF ApprovalStep
  <2>3. Signed(trail)
    BY <2>1 DEF Traced
  <2>4. reviewer \in Reviewer
    BY <1>1, <2>1 DEF ApprovalStep
  <2>5. Reusable'
    BY <2>1, <2>2, <2>4, WrittenIsSomething DEF Reusable
  <2>6. dir'.repaired.whole /\ dir'.proposal.patches = dir'.approval.patches
    BY <2>1, <2>2, <2>4, WrittenIsSomething
  <2>7. QED
    BY <1>1, <2>1, <2>2, <2>3, <2>5, <2>6 DEF Marked, RunStep, ApprovalStep, Signed
<1>19. CASE SessionDies
  <2>1. at' = "idle" /\ at # "idle"
        /\ dir'.proposal = dir.proposal /\ dir'.approval = dir.approval
    <3>1. PICK c : dir' = dir \/ dir' = [dir EXCEPT !.repaired = c]
      BY <1>19 DEF SessionDies
    <3>2. dir'.proposal = dir.proposal /\ dir'.approval = dir.approval
      BY <1>1, <3>1, CopyWritten
    <3>3. QED
      BY <1>19, <3>2 DEF SessionDies, Leave
  <2>2. CASE dir.approval = None
    BY <1>1, <2>1, <2>2 DEF Marked, RunStep, ApprovalStep
  <2>3. CASE dir.approval # None
    <3>1. at = "approve"
      BY <1>2, <1>3, <2>1, <2>3 DEF ApprovalStep
    <3>2. dir' = dir /\ trail' = trail
      BY <1>19, <3>1 DEF SessionDies, Traces, Stages
    <3>3. QED
      BY <1>4, <2>1, <3>2 DEF RunStep, ApprovalStep
  <2>4. QED
    BY <2>2, <2>3
<1>20. CASE UNCHANGED vars
  BY <1>2, <1>20
     DEF vars, inputs, files, memory, Marked, Reusable, Signed, Result, Manifest, Copy,
         TheDecision, Patched
<1>21. QED
  BY <1>5, <1>6, <1>7, <1>8, <1>9, <1>10, <1>11, <1>12, <1>13, <1>14, <1>15, <1>16, <1>17,
     <1>18, <1>19, <1>20 DEF Next

LEMMA BaselineMarkedStep ==
  ASSUME Typed, Traced, BaselineMarked, [Next]_vars
  PROVE  BaselineMarked'
<1>1. /\ method' = method /\ Located /\ DirTyped /\ TrailTyped /\ started \in Nat
      /\ reviewer \in Reviewer \cup {None}
  BY InputsStay DEF Typed, DirTyped, SearchTyped, inputs
<1>2. started = 0 => dir = EmptyDir /\ at = "idle"
  BY DEF BaselineMarked
\* Before the first session nothing but a start is possible.
<1>3. CASE started' # started
  <2>1. ReuseApproved \/ StartRun \/ StartAgent \/ StartApproval
    BY <1>3
       DEF Next, RecordStage, Execute, SearchRound, DirectEdit, Turn, TurnsEnd, TurnFails,
           VerifyTrail, WriteEvidence, WriteProposal, WriteReport, Approve, ApprovalRefused,
           PatchWorkbook, WriteSignedReport, WriteManifest, SessionDies, vars
  <2>2. started' = started + 1 /\ dir' = dir /\ (method = "baseline" => at' = "ingest")
    BY <2>1 DEF ReuseApproved, StartRun, StartAgent, StartApproval, Idle, files
  <2>3. started' # 0 /\ (started' = 1 => dir.report = None)
    BY <1>1, <1>2, <2>2 DEF EmptyDir
  <2>4. QED
    BY <1>1, <2>2, <2>3 DEF BaselineMarked
<1>4. CASE UNCHANGED vars
  BY <1>1, <1>4
     DEF vars, inputs, files, memory, BaselineMarked, Signs, Manifest, Copy
<1>5. CASE started = 0
  <2>1. at = "idle" /\ dir.proposal = None
    BY <1>2, <1>5 DEF EmptyDir
  <2>2. QED
    BY <1>1, <1>3, <1>4, <2>1
       DEF Next, ReuseApproved, StartRun, StartAgent, StartApproval, Idle, RecordStage,
           Traces, Stages, Execute, SearchRound, DirectEdit, Turn, TurnsEnd, TurnFails,
           VerifyTrail, WriteEvidence, WriteProposal, WriteReport, Approve,
           ApprovalRefused, PatchWorkbook, WriteSignedReport, WriteManifest, SessionDies
<1> SUFFICES ASSUME Next, method = "baseline", started = 1, started' = 1
             PROVE  BaselineMarked'
  BY <1>1, <1>3, <1>4, <1>5 DEF BaselineMarked
<1> DEFINE Copied == at \in {"manifest", "sign"} \/ (at = "report" /\ Signs)
           Listed == at = "sign" \/ (at = "report" /\ Signs)
           Closed(t) == Verifies(t) /\ LastEvent(t) = <<"APPROVE">>
<1>6. /\ at \in {"patch", "manifest", "sign"} => Signs
      /\ Copied => dir.repaired = Copy(patches, TRUE)
      /\ Listed => dir.approval = Manifest
      /\ at = "report" /\ Signs => Closed(trail)
      /\ dir.report # None =>
           /\ at = "idle"
           /\ dir.report.approval # None =>
                /\ dir.approval = dir.report.approval
                /\ dir.repaired = dir.approval.repaired /\ dir.repaired.whole
                /\ Closed(trail)
  BY DEF BaselineMarked
\* A session on its way to its first artifact.
<1>7. ASSUME dir' = dir, at # "idle", at' \notin {"patch", "manifest", "sign", "report"}
      PROVE  BaselineMarked'
  BY <1>1, <1>6, <1>7 DEF BaselineMarked
<1>8. CASE ReuseApproved \/ StartRun \/ StartAgent \/ StartApproval
  BY <1>8 DEF ReuseApproved, StartRun, StartAgent, StartApproval, Idle
<1>9. CASE RecordStage
  <2>1. CASE at # "sign"
    BY <1>7, <1>9, <2>1, StageCases DEF RecordStage, Records
  <2>2. CASE at = "sign"
    <3>1. /\ Record("APPROVE") /\ at' = "report" /\ dir' = dir
          /\ patches' = patches /\ reviewer' = reviewer
      BY <1>9, <2>2, StageCases DEF RecordStage, Records
    <3>2. Followed /\ ~trail.open /\ "APPROVE" \in EventType
      BY <2>2 DEF Traced, EventType
    <3>3. PICK type \in EventType : type = "APPROVE" /\ Record(type)
      BY <3>1, <3>2
    <3>4. Followed' /\ trail'.lines # <<>> /\ LastEvent(trail') = <<type>>
      BY <1>1, <3>2, <3>3, RecordFollows
    <3>5. Linked(trail')
      BY <3>4 DEF Followed
    <3>6. Closed(trail')
      BY <3>3, <3>4, <3>5, LinkedVerifies
    <3>7. Copy(patches, TRUE)' = Copy(patches, TRUE) /\ Manifest' = Manifest
      BY <3>1 DEF Copy, Manifest
    <3>8. QED
      BY <1>1, <1>6, <2>2, <3>1, <3>6, <3>7 DEF BaselineMarked
  <2>3. QED
    BY <2>1, <2>2
<1>10. CASE Execute \/ SearchRound \/ DirectEdit
  BY <1>7, <1>10 DEF Execute, SearchRound, DirectEdit, Leave, files
<1>11. CASE Turn \/ TurnsEnd \/ TurnFails \/ VerifyTrail
  BY <1>1, <1>11
     DEF Turn, TurnsEnd, TurnFails, VerifyTrail, Located, RunStep, ApprovalStep, BaselineStep
<1>12. CASE WriteEvidence
  <2>1. /\ dir' = dir /\ patches' = patches /\ reviewer' = reviewer /\ trail' = trail
        /\ at = "evidence" /\ at' \in {"patch", "report"}
        /\ at' = "patch" <=> Signs
    BY <1>12 DEF WriteEvidence, files, memory, Signs
  <2>2. QED
    BY <1>1, <1>6, <2>1 DEF BaselineMarked, Signs
<1>13. CASE WriteProposal
  BY <1>1, <1>13 DEF WriteProposal, Located, BaselineStep
<1>14. CASE WriteReport
  <2>1. PICK r : /\ dir' = [dir EXCEPT !.report = r]
                 /\ r.approval = IF Signs THEN dir.approval ELSE None
    <3> DEFINE r == [decision |-> IF patches = <<>> THEN "NO_CHANGE" ELSE "REPAIR",
                     patches |-> patches,
                     approval |-> IF patches # <<>> /\ reviewer # None
                                  THEN dir.approval ELSE None]
    <3>1. dir' = [dir EXCEPT !.report = r]
      BY <1>14 DEF WriteReport
    <3>2. r.approval = IF Signs THEN dir.approval ELSE None
      BY DEF Signs
    <3> HIDE DEF r
    <3>3. QED
      BY <3>1, <3>2
  <2>2. /\ dir'.report = r /\ dir'.repaired = dir.repaired /\ dir'.approval = dir.approval
        /\ trail' = trail /\ at = "report" /\ at' = "idle"
    <3>1. /\ dir'.report = r /\ dir'.repaired = dir.repaired
          /\ dir'.approval = dir.approval
      BY <1>1, <2>1, FilesWritten
    <3>2. QED
      BY <1>14, <3>1 DEF WriteReport
  <2>3. Signs => /\ dir.approval = Manifest /\ dir.repaired = Copy(patches, TRUE)
                 /\ reviewer \in Reviewer
    BY <1>1, <1>6, <2>2 DEF Signs
  <2>4. Signs => dir.approval.repaired = dir.repaired /\ dir.repaired.whole
    BY <2>3, WrittenIsSomething
  <2>5. QED
    BY <1>1, <1>6, <2>1, <2>2, <2>3, <2>4 DEF BaselineMarked
<1>15. CASE Approve \/ ApprovalRefused
  BY <1>1, <1>15 DEF Approve, ApprovalRefused, Located, BaselineStep
<1>16. CASE PatchWorkbook
  <2>1. /\ dir'.repaired = Copy(patches, TRUE) /\ dir'.report = dir.report
        /\ patches' = patches /\ reviewer' = reviewer
        /\ at = "patch" /\ at' = "manifest"
    BY <1>1, <1>16, FilesWritten DEF PatchWorkbook, memory
  <2>2. Copy(patches, TRUE)' = Copy(patches, TRUE)
    BY <2>1 DEF Copy
  <2>3. QED
    BY <1>1, <1>6, <2>1, <2>2 DEF BaselineMarked, Signs
<1>17. CASE WriteSignedReport
  BY <1>1, <1>17 DEF WriteSignedReport, Located, BaselineStep
<1>18. CASE WriteManifest
  <2>1. /\ dir'.approval = Manifest /\ dir'.report = dir.report
        /\ dir'.repaired = dir.repaired
        /\ patches' = patches /\ reviewer' = reviewer
        /\ at = "manifest" /\ at' = "sign"
    BY <1>1, <1>18, FilesWritten DEF WriteManifest, Written, memory
  <2>2. Copy(patches, TRUE)' = Copy(patches, TRUE) /\ Manifest' = Manifest
    BY <2>1 DEF Copy, Manifest
  <2>3. QED
    BY <1>1, <1>6, <2>1, <2>2 DEF BaselineMarked, Signs
<1>19. CASE SessionDies
  <2>1. PICK c : dir' = dir \/ dir' = [dir EXCEPT !.repaired = c]
    BY <1>19 DEF SessionDies
  <2>2. dir'.report = dir.report /\ at # "idle" /\ at' = "idle"
    <3>1. dir'.report = dir.report
      BY <1>1, <2>1, CopyWritten
    <3>2. QED
      BY <1>19, <3>1 DEF SessionDies, Leave
  <2>3. QED
    BY <1>1, <1>6, <2>2 DEF BaselineMarked
<1>20. QED
  BY <1>8, <1>9, <1>10, <1>11, <1>12, <1>13, <1>14, <1>15, <1>16, <1>17, <1>18, <1>19 DEF Next

-----------------------------------------------------------------------------
(* The theorems about the trail and the directory. *)

IInv == Typed /\ Traced /\ Marked /\ BaselineMarked /\ AgentTraced

THEOREM Invariance == Spec => []IInv
<1>1. Init => IInv
  BY TypedInit, RestInit DEF IInv
<1>2. IInv /\ [Next]_vars => IInv'
  BY TypedStep, TracedStep, MarkedStep, BaselineMarkedStep, AgentTracedStep DEF IInv
<1>3. QED
  BY <1>1, <1>2, PTL DEF Spec

\* Next to a published proposal the trail has every event the session was
\* asked to record, once and in order: a write that failed and was survived
\* leaves a number the verification misses (trace.py, agentic.py).
THEOREM TrailIsComplete == Spec => []PublishedTrailComplete
<1>1. IInv => PublishedTrailComplete
  <2> SUFFICES ASSUME IInv PROVE PublishedTrailComplete
    OBVIOUS
  <2>1. method = "advanced" /\ at = "report" => Verifies(trail) /\ TypesIn(trail) = asked
    BY LinkedVerifies DEF IInv, Traced, RunStep, Followed
  <2>2. method = "agent" /\ dir.proposal # None => Verifies(trail) /\ TypesIn(trail) = asked
    BY DEF IInv, AgentTraced
  <2>3. QED
    BY <2>1, <2>2 DEF PublishedTrailComplete
<1>2. QED
  BY <1>1, Invariance, PTL

\* An approval stands behind its own event, next to a whole copy, a report and
\* a proposal that agree with it, whatever session died where (advanced.py,
\* approve_advanced_proposal and _load_approved_run; baseline.py).
THEOREM MarkerComesLast == Spec => []CommitMarkerLast
<1>1. IInv => CommitMarkerLast
  BY DEF IInv, Marked, BaselineMarked, Signed, CommitMarkerLast
<1>2. QED
  BY <1>1, Invariance, PTL

=============================================================================
