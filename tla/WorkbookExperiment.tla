------------------------- MODULE WorkbookExperiment -------------------------
(***************************************************************************)
(* The worker that evaluates a workbook: an experiment on one sheet, with  *)
(* values overridden and formulas replaced (experiment_worker.py,          *)
(* runner.py), or the preflight of an upload, over every sheet             *)
(* (uploaded_inputs.py).  Both check the formula graph and evaluate it in  *)
(* the order of Kahn (formula.py).                                         *)
(*                                                                         *)
(* The sets the code iterates over have no order: every order is taken.    *)
(* The keys of an experiment are those of the code: a cell of its sheet is *)
(* named without the sheet.                                                *)
(***************************************************************************)
EXTENDS FormulaLanguage

CONSTANTS Sheets,           \* the sheets of the workbook
          Workbooks,        \* [formulas, values] by qualified cell; values holds stored results too
          Requests,         \* [sheet, overrides, edits, observed]; sheet "" is the preflight
          MaxDependencies, MaxDepth

(* The cells of the workbook. *)
Grid == [sheet : Sheets, col : Columns]

(* Every sheet has a name.  A workbook has finitely many formulas, each with the tree
   the parser makes of its text, in the subset or not: only an upload is checked.  Its
   values and those of the overrides are neither errors nor lists.  A preflight asks
   for nothing. *)
ASSUME WorkbookAssumption ==
  /\ "" \notin Sheets /\ MaxDepth \in Nat \ {0}
  /\ \A book \in Workbooks :
       /\ DOMAIN book.formulas \subseteq Grid /\ IsFiniteSet(DOMAIN book.formulas)
       /\ \A ref \in DOMAIN book.formulas : book.formulas[ref].ast \in Trees
       /\ DOMAIN book.values \subseteq Grid
       /\ \A ref \in DOMAIN book.values : Plain(book.values[ref])
  /\ \A asked \in Requests :
       /\ asked.overrides \in Seq(ToSet(asked.overrides)) /\ asked.edits \in Seq(ToSet(asked.edits))
       /\ \A i \in DOMAIN asked.overrides :
            LET set == asked.overrides[i]
            IN  set.ref = Ref(set.ref.sheet, set.ref.col) /\ Plain(set.value)
       /\ \A i \in DOMAIN asked.edits : asked.edits[i].new.ast \in Trees
       /\ asked.sheet = "" => asked.overrides = <<>> /\ asked.edits = <<>>

VARIABLES
  workbook, request,
  phase,             \* where the worker is
  reason,            \* why it refused
  todo,              \* the formula overrides that remain
  formulas,          \* staged_formulas, or workbook_formulas: key to formula
  walk,              \* the topological walk: what a node needs, what is left, what is ready
  memo,              \* the evaluated formulas
  response           \* the observed values

vars == <<workbook, request, phase, reason, todo, formulas, walk, memo, response>>

NoWalk == [needs |-> <<>>, remaining |-> <<>>, depth |-> <<>>, ready |-> <<>>, visited |-> 0]
Preflighting == request.sheet = ""

Refuse(why) ==
  /\ phase' = "refused"
  /\ reason' = why
  /\ UNCHANGED <<workbook, request, todo, formulas, walk, memo, response>>

-----------------------------------------------------------------------------
(* The request. *)

(* _override_reference: a cell of the active sheet loses its sheet. *)
LocalKey(ref) == IF ref.sheet = request.sheet THEN Ref("", ref.col) ELSE ref
Global(key, sheet) == IF key.sheet = "" THEN Ref(sheet, key.col) ELSE key

OverrideKeys == {LocalKey(request.overrides[i].ref) : i \in DOMAIN request.overrides}
(* The last override of a cell holds. *)
OverrideOf(key) ==
  LET of == {i \in DOMAIN request.overrides : LocalKey(request.overrides[i].ref) = key}
  IN  request.overrides[Max(of)].value

CheckRequest ==
  /\ phase = "request"
  /\ ~Preflighting
  /\ IF /\ request.sheet \in Sheets
        /\ \A key \in OverrideKeys :
             /\ Global(key, request.sheet) \in DOMAIN workbook.values
             /\ Global(key, request.sheet) \notin DOMAIN workbook.formulas
     THEN /\ phase' = "edit"
          /\ todo' = request.edits
          /\ formulas' = [key \in {Ref("", ref.col) : ref \in {f \in DOMAIN workbook.formulas :
                                                                 f.sheet = request.sheet}} |->
                            workbook.formulas[Global(key, request.sheet)]]
          /\ UNCHANGED <<workbook, request, reason, walk, memo, response>>
     ELSE Refuse("request")

(* _validate_formula_profile, up to the graph. *)
Preflight ==
  /\ phase = "request"
  /\ Preflighting
  /\ IF \A ref \in DOMAIN workbook.formulas : InSubset(workbook.formulas[ref])
     THEN /\ phase' = "graph"
          /\ formulas' = workbook.formulas
          /\ UNCHANGED <<workbook, request, reason, todo, walk, memo, response>>
     ELSE Refuse("subset")

(* Mutant of Guarded: an edit is compared with the workbook, not with the edits before it. *)
GuardedByWorkbook(edit) ==
  /\ Ref("", edit.col) \in DOMAIN formulas
  /\ workbook.formulas[Ref(request.sheet, edit.col)] = edit.old
  /\ InSubset(edit.new)
Guarded(edit) ==
  /\ Ref("", edit.col) \in DOMAIN formulas
  /\ formulas[Ref("", edit.col)] = edit.old
  /\ InSubset(edit.new)

ApplyEdit ==
  /\ phase = "edit"
  /\ todo # <<>>
  /\ IF Guarded(Head(todo))
     THEN /\ formulas' = [formulas EXCEPT ![Ref("", Head(todo).col)] = Head(todo).new]
          /\ todo' = Tail(todo)
          /\ UNCHANGED <<workbook, request, phase, reason, walk, memo, response>>
     ELSE Refuse("edit")

EditsDone ==
  /\ phase = "edit"
  /\ todo = <<>>
  /\ phase' = "graph"
  /\ UNCHANGED <<workbook, request, reason, todo, formulas, walk, memo, response>>

-----------------------------------------------------------------------------
(* The walk both the graph check and the evaluation take. *)

(* Mutant of Free: a formula with one need is taken for free. *)
FreeLoosely(needs) == {n \in DOMAIN needs : Cardinality(needs[n]) <= 1}
Free(needs) == {n \in DOMAIN needs : needs[n] = {}}
Starting(needs) ==
  \E order \in SetToSeqs(Free(needs)) :
    walk' = [needs |-> needs, remaining |-> [n \in DOMAIN needs |-> Cardinality(needs[n])],
             depth |-> [n \in DOMAIN needs |-> 1], ready |-> order, visited |-> 0]

Dependents(node) == {n \in DOMAIN walk.needs : node \in walk.needs[n]}

(* The depth of a node behind this one. *)
DepthBehind(n, node) == Max({walk.depth[n], walk.depth[node] + 1})

Leaving(node) ==
  LET remaining == [n \in DOMAIN walk.needs |->
                      IF n \in Dependents(node) THEN walk.remaining[n] - 1 ELSE walk.remaining[n]]
  IN  \E order \in SetToSeqs({n \in Dependents(node) : remaining[n] = 0}) :
        walk' = [walk EXCEPT !.remaining = remaining,
                             !.depth = [n \in DOMAIN @ |-> IF n \in Dependents(node)
                                                           THEN DepthBehind(n, node) ELSE @[n]],
                             !.ready = Front(@) \o order,
                             !.visited = @ + 1]

(* validate_formula_dependency_graph *)

(* candidate_workbook_formulas: every formula, with the staged ones. *)
Candidate ==
  [ref \in DOMAIN workbook.formulas |->
     IF ref \in DOMAIN formulas THEN formulas[ref]
     ELSE IF ref.sheet = request.sheet THEN formulas[Ref("", ref.col)] ELSE workbook.formulas[ref]]
Reads(ref) == {Global(r, ref.sheet) : r \in References[Candidate[ref].ast]}
Needs(ref) == Reads(ref) \cap DOMAIN Candidate
ReferenceCount(candidate) ==
  MapThenSumSet(LAMBDA ref : Cardinality(References[candidate[ref].ast]), DOMAIN candidate)

(* Mutant of Drawable: a formula may read a formula of another sheet. *)
DrawableAcrossSheets ==
  /\ ReferenceCount(Candidate) <= MaxDependencies
  /\ \A ref \in DOMAIN Candidate :
       /\ Legible[Candidate[ref].ast]
       /\ \A read \in Reads(ref) : read.sheet \in Sheets
Drawable ==
  /\ ReferenceCount(Candidate) <= MaxDependencies
  /\ \A ref \in DOMAIN Candidate :
       /\ Legible[Candidate[ref].ast]
       /\ \A read \in Reads(ref) : read.sheet \in Sheets
       /\ \A need \in Needs(ref) : need.sheet = ref.sheet

BuildGraph ==
  /\ phase = "graph"
  /\ IF Drawable
     THEN /\ phase' = "check"
          /\ Starting([ref \in DOMAIN Candidate |-> Needs(ref)])
          /\ UNCHANGED <<workbook, request, reason, todo, formulas, memo, response>>
     ELSE Refuse("graph")

(* Mutant of TooDeep: the last level is counted as too deep. *)
TooDeepByOne(node) == \E n \in Dependents(node) : DepthBehind(n, node) >= MaxDepth
TooDeep(node) == \E n \in Dependents(node) : DepthBehind(n, node) > MaxDepth

VisitFormula ==
  /\ phase = "check"
  /\ walk.ready # <<>>
  /\ IF TooDeep(Last(walk.ready))
     THEN Refuse("graph")
     ELSE /\ Leaving(Last(walk.ready))
          /\ UNCHANGED <<workbook, request, phase, reason, todo, formulas, memo, response>>

-----------------------------------------------------------------------------
(* evaluate_cells *)

(* Mutant of KeyOf: a cell that names its own sheet keeps the name. *)
KeyOfVerbatim(ref, source) == IF Preflighting THEN Global(ref, source.sheet) ELSE ref
KeyOf(ref, source) == IF Preflighting THEN Global(ref, source.sheet) ELSE LocalKey(ref)

EvaluationNeeds(key) ==
  {KeyOf(ref, key) : ref \in References[formulas[key].ast]} \cap DOMAIN formulas

(* The graph is walked, and the formulas are taken up again. *)
GraphWalked ==
  /\ phase = "check"
  /\ walk.ready = <<>>
  /\ IF walk.visited = Cardinality(DOMAIN walk.needs)
     THEN /\ phase' = "evaluate"
          /\ Starting([key \in DOMAIN formulas |-> EvaluationNeeds(key)])
          /\ UNCHANGED <<workbook, request, reason, todo, formulas, memo, response>>
     ELSE Refuse("graph")

Stored(key) ==
  LET ref == Global(key, request.sheet)
  IN  IF key \in OverrideKeys THEN OverrideOf(key)
      ELSE IF ref \in DOMAIN workbook.values THEN workbook.values[ref] ELSE Empty

Resolve(key) ==
  IF key \in DOMAIN memo THEN memo[key]
  ELSE IF key \in DOMAIN formulas THEN Unresolved ELSE Stored(key)

(* The names a formula may use; resolve answers for each. *)
Names == [sheet : Sheets \cup {""}, col : Columns]
Value(key) == Evaluate(formulas[key].ast, [ref \in Names |-> Resolve(KeyOf(ref, key))])

EvaluateFormula ==
  /\ phase = "evaluate"
  /\ walk.ready # <<>>
  /\ LET key == Last(walk.ready)
     IN  IF IsError(Value(key))
         THEN Refuse(Value(key).t)
         ELSE /\ memo' = [k \in DOMAIN memo \cup {key} |-> IF k = key THEN Value(key) ELSE memo[k]]
              /\ Leaving(key)
              /\ UNCHANGED <<workbook, request, phase, reason, todo, formulas, response>>

Evaluated ==
  /\ phase = "evaluate"
  /\ walk.ready = <<>>
  /\ IF DOMAIN memo = DOMAIN formulas
     THEN /\ phase' = IF Preflighting THEN "done" ELSE "observe"
          /\ walk' = NoWalk
          /\ UNCHANGED <<workbook, request, reason, todo, formulas, memo, response>>
     ELSE Refuse("circular")

(* Mutant of Observed: the stored value comes before the override. *)
ObservedAsStored(key) ==
  IF key \in DOMAIN memo THEN memo[key] ELSE workbook.values[Global(key, request.sheet)]
Observed(key) == IF key \in DOMAIN memo THEN memo[key] ELSE Stored(key)

Observe ==
  /\ phase = "observe"
  /\ IF \A col \in request.observed :
          Ref(request.sheet, col) \in DOMAIN workbook.values \cup DOMAIN workbook.formulas
     THEN /\ response' = [col \in request.observed |-> Observed(Ref("", col))]
          /\ phase' = "done"
          /\ UNCHANGED <<workbook, request, reason, todo, formulas, walk, memo>>
     ELSE Refuse("observation")

(* The worker exceeds its time, or dies; the caller has no response. *)
WorkerKilled ==
  /\ phase \notin {"done", "refused"}
  /\ Refuse("killed")

-----------------------------------------------------------------------------
Init ==
  /\ workbook \in Workbooks
  /\ request \in Requests
  /\ phase = "request" /\ reason = "none"
  /\ todo = <<>> /\ formulas = <<>> /\ walk = NoWalk /\ memo = <<>> /\ response = <<>>

Next ==
  \/ CheckRequest \/ Preflight \/ ApplyEdit \/ EditsDone \/ BuildGraph \/ VisitFormula
  \/ GraphWalked \/ EvaluateFormula \/ Evaluated \/ Observe \/ WorkerKilled

Spec == Init /\ [][Next]_vars

-----------------------------------------------------------------------------
(* The states have their type; the walk never counts below zero, and what is ready
   needs nothing any more (formula.py:349-362, 675-709). *)
TypeOK ==
  /\ phase \in {"request", "edit", "graph", "check", "evaluate", "observe", "done", "refused"}
  /\ reason \in {"none", "request", "subset", "edit", "graph", "data", "observation", "killed",
                 "malformed", "unresolved", "circular"}
  /\ phase = "refused" <=> reason # "none"
  /\ DOMAIN memo \subseteq DOMAIN formulas
  /\ \A n \in DOMAIN walk.remaining :
       walk.remaining[n] >= 0 /\ (n \in ToSet(walk.ready) => walk.remaining[n] = 0)

(* What a formula graph must be: every formula can be read, every sheet exists, the
   references are few enough, no formula reads a formula of another sheet, and the
   formulas can be laid in at most MaxDepth layers, each reading only lower ones (so
   there is no cycle). *)
Acceptable ==
  /\ Drawable
  /\ \A ref \in DOMAIN Candidate : \A need \in Needs(ref) : need.sheet = ref.sheet
  /\ \E layer \in [DOMAIN Candidate -> 1..MaxDepth] :
       \A ref \in DOMAIN Candidate : \A need \in Needs(ref) : layer[need] < layer[ref]

(* The graph check refuses exactly the graphs that are not acceptable, in whatever
   order it visits the formulas.  The evaluation of what passed it meets no cycle and no
   formula that is not evaluated yet, although it names the cells in another way than
   the check; and it meets a form it does not know only if a formula is outside the
   subset, which no formula of an upload or of an edit is, but one of a workbook that
   was never uploaded may be (formula.py:289-367, 471-563, 653-711, agentic.py:551). *)
GraphCheckIsExact ==
  /\ reason = "graph" => ~Acceptable
  /\ phase = "evaluate" => Acceptable
  /\ reason \notin {"unresolved", "circular"}
  /\ reason = "malformed" => /\ ~Preflighting
                             /\ \E key \in DOMAIN formulas : ~InSubset(formulas[key])

(* The formula a request means a cell to have: its last edit, or the workbook's. *)
Meant(book, asked, ref) ==
  LET by == {i \in DOMAIN asked.edits : Ref(asked.sheet, asked.edits[i].col) = ref}
  IN  IF by = {} THEN book.formulas[ref] ELSE asked.edits[Max(by)].new

(* The value of a cell by definition: formulas are followed across the whole workbook,
   no stored result of a formula is read, and an override holds however it is named. *)
MeaningBy(meaning, book, asked, ref) ==
  IF ref \in DOMAIN book.formulas
  THEN LET ast == Meant(book, asked, ref).ast
       IN  Evaluate(ast, [r \in References[ast] |-> meaning[Global(r, ref.sheet)]])
  ELSE LET by == {i \in DOMAIN asked.overrides : Global(asked.overrides[i].ref, asked.sheet) = ref}
       IN  IF by # {} THEN asked.overrides[Max(by)].value
           ELSE IF ref \in DOMAIN book.values THEN book.values[ref] ELSE Empty
MeaningIn(book, asked) ==
  LET meaning[ref \in Grid] == MeaningBy(meaning, book, asked, ref) IN meaning
Meaning == MeaningIn(workbook, request)

(* An edit of a formula of the sheet, written against the formula that the edits before
   it left, and inside the subset. *)
SoundEdit(i) ==
  LET edits == request.edits
      earlier == {j \in 1..(i - 1) : edits[j].col = edits[i].col}
      before == IF earlier = {} THEN workbook.formulas[Ref(request.sheet, edits[i].col)]
                ELSE edits[Max(earlier)].new
  IN  /\ Ref(request.sheet, edits[i].col) \in DOMAIN workbook.formulas
      /\ before = edits[i].old
      /\ InSubset(edits[i].new)

(* What an experiment answers is what it was asked for.  Edits that are each written
   against the formula the edit before them left are not refused; every evaluated
   formula has the value it has by definition, under the last edit and the last
   override of each cell; an evaluation is refused for an error only if a formula means
   that error; and every observed cell is answered with its value
   (formula.py:632-713, ooxml.py:426-439, experiment_worker.py:117-158). *)
ValuesAreMeant ==
  /\ reason = "edit" => \E i \in DOMAIN request.edits : ~SoundEdit(i)
  /\ \A key \in DOMAIN memo : memo[key] = Meaning[Global(key, request.sheet)]
  /\ reason \in {"data", "malformed"} =>
       \E key \in DOMAIN formulas : Meaning[Global(key, request.sheet)].t = reason
  /\ phase = "done" /\ ~Preflighting =>
       response = [col \in request.observed |-> Meaning[Ref(request.sheet, col)]]
=============================================================================
