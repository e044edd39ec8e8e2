---------------------------- MODULE WorkbookEdits ----------------------------
(***************************************************************************)
(* The worker and the text of the formulas it is given: an edit is written *)
(* by rendering a tree (agent_tools.py, formula.py) and read back by the   *)
(* parser of the worker.                                                   *)
(***************************************************************************)
EXTENDS WorkbookExperiment, FormulaText

(* The text an edit writes means what the tree it was made from means.  A rendered
   formula reads as the formula it was rendered from, and the structural edit of an
   outer IF keeps the value when its condition takes the branch that is kept
   (formula.py:140-212, 373-416, agent_tools.py:207-214). *)
EditKeepsMeaning ==
  /\ phase = "evaluate" =>
       \A key \in DOMAIN formulas : Parse(Render[formulas[key].ast]) = formulas[key].ast
  /\ \A key \in DOMAIN memo :
       LET ast == formulas[key].ast
           env == [ref \in Names |-> Resolve(KeyOf(ref, key))]
       IN  OuterIf(ast) =>
             memo[key] = Evaluate(Parse(Unwrap(formulas[key], Truthy(Evaluate(ast.args[1], env)))), env)
=============================================================================
