---------------------------- MODULE RepairSearch ----------------------------
(***************************************************************************)
(* The search of the deterministic workflow (advanced.py): which cells the *)
(* failing cases point at, which of them are worth recompiling from the    *)
(* policy, and which single cell is patched next.                          *)
(*                                                                         *)
(* Formulas are told apart only by whether they still are the workbook's   *)
(* (faulty, when they differ from the policy) or have been replaced by the *)
(* compiled ones; a candidate is therefore the set of cells patched.       *)
(***************************************************************************)
EXTENDS Naturals, Sequences, FiniteSets, FiniteSetsExt, Functions

CONSTANTS
  Workbook,        \* the workbooks a run may be asked about
  Case,            \* visible_cases()
  Cell,            \* CORE_OUTPUTS, in the order of their names
  Depends,         \* [Cell -> SUBSET Cell]: the cells a formula refers to
  Faulty,          \* [Workbook -> SUBSET Cell]: formulas that are not the policy's
  Mismatch(_, _, _, _), \* whether a cell of a workbook with some cells patched differs in a case
  CaseLimit        \* RunBudget.workbook_case_execution_limit

Outcome(w, case, patched) == {x \in Cell : Mismatch(w, case, x, patched)}
Failing(w, patched) == {case \in Case : Outcome(w, case, patched) # {}}
Passing(w, patched) == Cardinality(Case \ Failing(w, patched))

(* The backward dependency cone of an output: everything it is computed from. *)
Cone(output) ==
  LET closed == {S \in SUBSET Cell : output \in S /\ \A x \in S : Depends[x] \subseteq S}
  IN  {x \in Cell : \A S \in closed : x \in S}

ASSUME SearchAssumption ==
  /\ Cell \subseteq Nat /\ IsFiniteSet(Cell) /\ IsFiniteSet(Case)
  /\ Depends \in [Cell -> SUBSET Cell]
  /\ Faulty \in [Workbook -> SUBSET Cell]
  /\ CaseLimit \in Nat
  \* A cell is computed from its cone: a patch elsewhere cannot change it.
  /\ \A w \in Workbook, case \in Case, x \in Cell : \A patched \in SUBSET Cell :
       Mismatch(w, case, x, patched) <=> Mismatch(w, case, x, patched \cap Cone(x))

(* Mutant of Localized: the cones are not followed beyond direct references. *)
LocalizedDirectly(w, patched) ==
  {x \in Cell : \E case \in Failing(w, patched) :
                  \E output \in Outcome(w, case, patched) : x \in {output} \cup Depends[output]}
(* _localize: the cells some failing output depends on. *)
Localized(w, patched) ==
  {x \in Cell : \E case \in Failing(w, patched) :
                  \E output \in Outcome(w, case, patched) : x \in Cone(output)}

(* The candidates of a round: localized cells whose formula is not compiled yet. *)
Candidates(w, patched) == (Localized(w, patched) \cap Faulty[w]) \ patched

(* The case executions a round charges: every candidate replays every case. *)
RoundCost(w, patched) == Cardinality(Candidates(w, patched)) * Cardinality(Case)

(* Strict visible improvements, and the best of them: score first, then cell. *)
(* Mutant of Improving: a patch that changes nothing visible is an improvement. *)
NotWorsening(w, patched) ==
  {x \in Candidates(w, patched) : Passing(w, patched \cup {x}) >= Passing(w, patched)}
Improving(w, patched) ==
  {x \in Candidates(w, patched) : Passing(w, patched \cup {x}) > Passing(w, patched)}
Best(w, patched) ==
  CHOOSE x \in Improving(w, patched) :
    \A y \in Improving(w, patched) \ {x} :
      \/ Passing(w, patched \cup {x}) > Passing(w, patched \cup {y})
      \/ /\ Passing(w, patched \cup {x}) = Passing(w, patched \cup {y})
         /\ x > y

(* The decision after the search. *)
Decision(w, patched) ==
  CASE Failing(w, {}) = {}      -> "NO_CHANGE"
    [] Failing(w, {}) # {} /\ Failing(w, patched) = {} -> "REPAIR"
    [] OTHER                    -> "ABSTAIN"
=============================================================================
