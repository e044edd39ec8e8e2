--------------------------- MODULE MCTracedAudit ---------------------------
(* Instances of TracedAudit for TLC. *)
EXTENDS TracedAudit

Cells == 1..4
\* Cell 4 is computed from 3, which is computed from 1 and 2.
References == <<{}, {}, {1, 2}, {3}>>
WrongCells == [clean |-> {}, three |-> {1, 2, 4}, many |-> {1, 2, 3, 4},
               stuck |-> {1, 2, 3}, masked |-> {1, 2}, deep |-> {1}]

\* The wrong formulas a case runs through.
Exposed(w, case) ==
  CASE w \in {"clean", "masked", "deep"} -> WrongCells[w]
    [] w = "three" -> [low |-> {1}, mid |-> {2}, high |-> {4}][case]
    [] w = "many"  -> [low |-> {1}, mid |-> {2}, high |-> {3, 4}][case]
    [] w = "stuck" -> [low |-> {1}, mid |-> {2, 3}, high |-> {2, 3}][case]

\* A wrong formula shows in its cell and in all that is computed from it,
\* except that in "masked" the two wrong cells hide each other downstream and
\* in "deep" the first is seen only in the last.
Differs(w, case, x, patched) ==
  LET up == Cone(x) \cap (Exposed(w, case) \ patched)
  IN  CASE w = "masked" /\ x \in {3, 4} -> Cardinality(up) = 1
        [] w = "deep" /\ x # 4 -> FALSE
        [] OTHER -> up # {}
=============================================================================
