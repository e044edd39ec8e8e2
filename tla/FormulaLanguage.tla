-------------------------- MODULE FormulaLanguage --------------------------
(***************************************************************************)
(* The formula subset of formula.py, from syntax trees on: the validation  *)
(* of the subset, the cells a formula reads, and its evaluation.  The text *)
(* of a formula, its parser and its rendering are in FormulaText.          *)
(*                                                                         *)
(* A cell is a sheet ("" when it is not named) and a column of the one row *)
(* a sheet has here.  A value is a kind and a number, or the list of the   *)
(* values of a range.  Texts are numbered in their casefolded order, the   *)
(* empty text is 0, and no text reads as a number or a pattern.  Numbers   *)
(* are integers, and the quotients of the instances exact.                 *)
(***************************************************************************)
EXTENDS Integers, SequencesExt

CONSTANTS Columns,     \* the columns of the grid, 1..n
          RangeLimit,  \* MAX_RANGE_CELLS
          Trees,       \* the syntax trees the parser may make, and the trees in them
          Height(_)    \* how deep a tree is nested

Num(n) == [t |-> "number", v |-> n]
Text(n) == [t |-> "text", v |-> n]
Bool(b) == [t |-> "boolean", v |-> IF b THEN 1 ELSE 0]
Empty == [t |-> "empty", v |-> 0]
Plain(x) == x.t \in {"number", "text", "boolean", "empty"}
List(xs) == [t |-> "list", v |-> 1, cells |-> xs]

(* The kinds of a FormulaError: of the data, of the formula, of the order of evaluation. *)
Data == [t |-> "data", v |-> 0]
Malformed == [t |-> "malformed", v |-> 0]
Unresolved == [t |-> "unresolved", v |-> 0]
IsError(x) == x.t \in {"data", "malformed", "unresolved"}

Ref(sheet, col) == [sheet |-> sheet, col |-> col]
Literal(x) == [kind |-> "literal", value |-> x]
Cell(ref) == [kind |-> "cell", ref |-> ref]
Range2(first, last) == [kind |-> "range", first |-> first, last |-> last]
Unary(op, arg) == [kind |-> "unary", op |-> op, arg |-> arg]
Binary(op, left, right) == [kind |-> "binary", op |-> op, left |-> left, right |-> right]
Call(name, args) == [kind |-> "call", name |-> name, args |-> args]
Unparsed == [kind |-> "unparsed"]

Comparators == {"=", "<>", "<", ">", "<=", ">="}

OnGrid(ref) == ref.col \in Columns

(* The trees directly in a tree. *)
Below(ast) ==
  CASE ast.kind = "unary" -> {ast.arg}
    [] ast.kind = "binary" -> {ast.left, ast.right}
    [] ast.kind = "call" -> ToSet(ast.args)
    [] OTHER -> {}

(* What the parser makes of each form. *)
Formed(ast) ==
  \/ ast.kind = "unparsed"
  \/ ast.kind = "literal" /\ ast = Literal(ast.value) /\ Plain(ast.value)
  \/ ast.kind = "cell" /\ ast = Cell(Ref(ast.ref.sheet, ast.ref.col)) /\ OnGrid(ast.ref)
  \/ /\ ast.kind = "range"
     /\ ast = Range2(Ref(ast.first.sheet, ast.first.col), Ref(ast.last.sheet, ast.last.col))
     /\ OnGrid(ast.first) /\ OnGrid(ast.last)
  \/ ast.kind = "unary" /\ ast = Unary(ast.op, ast.arg) /\ ast.op \in {"+", "-"}
  \/ /\ ast.kind = "binary" /\ ast = Binary(ast.op, ast.left, ast.right)
     /\ ast.op \in Comparators \cup {"+", "-", "*", "/"}
  \/ /\ ast.kind = "call" /\ ast = Call(ast.name, ast.args) /\ ast.args \in Seq(Trees)
     /\ ast.name \notin Comparators \cup {"+", "-", "*", "/", "(", ")", ",", ":"}

(* The columns have no gap; a tree is made of trees that are nested less deep. *)
ASSUME TreeAssumption ==
  /\ Columns \subseteq Int /\ \A a, b \in Columns : a .. b \subseteq Columns
  /\ \A ast \in Trees :
       /\ Formed(ast)
       /\ Height(ast) \in Nat
       /\ \A sub \in Below(ast) : sub \in Trees /\ Height(sub) < Height(ast)

-----------------------------------------------------------------------------
(* validate_formula_subset: the kind of an AST, "refused" outside the subset. *)

Width(range) == range.last.col - range.first.col + 1
Expandable(range) ==
  /\ range.first.sheet = range.last.sheet
  /\ Width(range) \in 1..RangeLimit
Expand(range) ==
  [i \in 1..Width(range) |-> Ref(range.first.sheet, range.first.col + i - 1)]

Arity(name) ==
  CASE name \in {"IF", "LOOKUP"} -> {3}
    [] name \in {"ROUND", "COUNTIF"} -> {2}
    [] name \in {"AND", "OR", "MAX", "MIN"} -> Nat \ {0}
    [] OTHER -> {}

(* Mutant of Fits: the shapes of the two ranges of a LOOKUP are not compared. *)
FitsLoosely(name, args, kinds) ==
  CASE name = "LOOKUP" -> kinds = <<"scalar", "range", "range">>
    [] name = "COUNTIF" -> kinds = <<"range", "scalar">> /\ args[2].kind = "literal"
    [] OTHER -> \A i \in DOMAIN kinds : kinds[i] = "scalar"
Fits(name, args, kinds) ==
  CASE name = "LOOKUP" -> kinds = <<"scalar", "range", "range">> /\ Width(args[2]) = Width(args[3])
    [] name = "COUNTIF" -> kinds = <<"range", "scalar">> /\ args[2].kind = "literal"
    [] OTHER -> \A i \in DOMAIN kinds : kinds[i] = "scalar"

(* The kind of a tree, when kind gives that of the trees in it. *)
KindBy(kind, ast) ==
  CASE ast.kind = "unparsed" -> "refused"
    [] ast.kind \in {"literal", "cell"} -> "scalar"
    [] ast.kind = "range" -> IF Expandable(ast) THEN "range" ELSE "refused"
    [] ast.kind = "unary" -> IF kind[ast.arg] = "scalar" THEN "scalar" ELSE "refused"
    [] ast.kind = "binary" ->
         IF kind[ast.left] = "scalar" /\ kind[ast.right] = "scalar" THEN "scalar" ELSE "refused"
    [] ast.kind = "call" ->
         IF /\ Len(ast.args) \in Arity(ast.name)
            /\ Fits(ast.name, ast.args, [i \in DOMAIN ast.args |-> kind[ast.args[i]]])
         THEN "scalar" ELSE "refused"
KindOf[ast \in Trees] == KindBy(KindOf, ast)

InSubset(formula) == KindOf[formula.ast] = "scalar"

(* Mutant of ReadInCall: the condition of an IF is not followed. *)
ReadInBranches(read, args) == UNION {read[args[i]] : i \in DOMAIN args \ {1}}
ReadInCall(read, args) == UNION {read[args[i]] : i \in DOMAIN args}

(* referenced_cells; read gives the cells that the trees in a tree read. *)
ReadBy(read, ast) ==
  CASE ast.kind \in {"literal", "unparsed"} -> {}
    [] ast.kind = "cell" -> {ast.ref}
    [] ast.kind = "range" -> IF Expandable(ast) THEN ToSet(Expand(ast)) ELSE {}
    [] ast.kind = "unary" -> read[ast.arg]
    [] ast.kind = "binary" -> read[ast.left] \cup read[ast.right]
    [] ast.kind = "call" -> ReadInCall(read, ast.args)
References[ast \in Trees] == ReadBy(References, ast)

(* referenced_cells raises at a text without a tree and at a range it cannot expand. *)
LegibleBy(legible, ast) ==
  CASE ast.kind = "unparsed" -> FALSE
    [] ast.kind = "range" -> Expandable(ast)
    [] OTHER -> \A sub \in Below(ast) : legible[sub]
Legible[ast \in Trees] == LegibleBy(Legible, ast)

-----------------------------------------------------------------------------
(* evaluate_ast; env gives the value of every cell the formula reads. *)

FirstError(xs) == xs[Min({i \in DOMAIN xs : IsError(xs[i])})]

(* _number *)
Numeric(x) == x.t \in {"number", "boolean", "empty"} \/ x = Text(0)
(* The error of a value that is no number: the list of a range is none in any data. *)
NoNumbers(xs) == IF \E i \in DOMAIN xs : xs[i].t = "list" THEN Malformed ELSE Data
OfNumbers(xs, result) ==
  IF \E i \in DOMAIN xs : IsError(xs[i]) THEN FirstError(xs)
  ELSE IF \A i \in DOMAIN xs : Numeric(xs[i]) THEN result ELSE NoNumbers(xs)

Truthy(x) == x.v # 0
RankOf(x) == CASE x.t = "boolean" -> 2 [] x.t = "text" -> 1 [] OTHER -> 0

(* _comparison_result: an empty cell takes the kind of the other side. *)
Compared(left, op, right) ==
  LET l == IF left = Empty /\ right.t # "number" THEN [right EXCEPT !.v = 0] ELSE left
      r == IF right = Empty /\ left.t # "number" THEN [left EXCEPT !.v = 0] ELSE right
      a == IF RankOf(l) = RankOf(r) THEN l.v ELSE RankOf(l)
      b == IF RankOf(l) = RankOf(r) THEN r.v ELSE RankOf(r)
  IN  IF RankOf(l) = RankOf(r) /\ "list" \in {l.t, r.t} THEN Malformed
      ELSE Bool(CASE op = "=" -> a = b [] op = "<>" -> a # b [] op = "<" -> a < b
                  [] op = ">" -> a > b [] op = "<=" -> a <= b [] op = ">=" -> a >= b)

Calculated(left, op, right) ==
  IF IsError(left) \/ IsError(right) THEN FirstError(<<left, right>>)
  ELSE IF op \in Comparators THEN Compared(left, op, right)
  ELSE OfNumbers(<<left, right>>,
         CASE op = "+" -> Num(left.v + right.v)
           [] op = "-" -> Num(left.v - right.v)
           [] op = "*" -> Num(left.v * right.v)
           [] op = "/" -> IF right.v = 0 THEN Data ELSE Num(left.v \div right.v))

(* LOOKUP: the last bound that is not above the value. *)
LookedUp(x, bounds, results) ==
  LET eligible == {i \in DOMAIN bounds : bounds[i].v <= x.v}
      ordered == \A i \in 1..(Len(bounds) - 1) : bounds[i].v <= bounds[i + 1].v
  IN  IF Len(bounds) # Len(results) THEN Malformed
      ELSE OfNumbers(<<x>> \o bounds,
             IF ordered /\ eligible # {} THEN results[Max(eligible)] ELSE Data)

(* COUNTIF: an empty cell counts as the empty text and as zero. *)
Matches(x, criterion) ==
  IF criterion.t = "text" THEN x.t \in {"text", "empty"} /\ x.v = criterion.v
  ELSE x.t \notin {"text", "list"} /\ x.v = criterion.v
Counted(range, criterion) ==
  IF IsError(range) \/ IsError(criterion) THEN FirstError(<<range, criterion>>)
  ELSE IF criterion.t = "list" THEN Malformed
  ELSE Num(Quantify(DOMAIN range.cells, LAMBDA i : Matches(range.cells[i], criterion)))

(* ROUND, half away from zero; whole numbers have only places before the point. *)
RoundedTo(x, digits) ==
  LET unit == IF digits >= 0 THEN 1 ELSE 10 ^ (-digits)
      half == (((IF x >= 0 THEN x ELSE -x) + (unit \div 2)) \div unit) * unit
  IN  IF x >= 0 THEN half ELSE -half

Applied(name, xs) ==
  IF \E i \in DOMAIN xs : IsError(xs[i]) THEN FirstError(xs)
  ELSE CASE name = "AND" -> Bool(\A i \in DOMAIN xs : Truthy(xs[i]))
         [] name = "OR" -> Bool(\E i \in DOMAIN xs : Truthy(xs[i]))
         [] name = "MAX" /\ Len(xs) > 0 -> OfNumbers(xs, Num(Max({xs[i].v : i \in DOMAIN xs})))
         [] name = "MIN" /\ Len(xs) > 0 -> OfNumbers(xs, Num(Min({xs[i].v : i \in DOMAIN xs})))
         [] name = "ROUND" /\ Len(xs) = 2 -> OfNumbers(xs, Num(RoundedTo(xs[1].v, xs[2].v)))
         [] name = "LOOKUP" /\ Len(xs) = 3 /\ xs[2].t = "list" /\ xs[3].t = "list" ->
              LookedUp(xs[1], xs[2].cells, xs[3].cells)
         [] OTHER -> Malformed

(* A call, and any tree, when value gives the values of the trees in it. *)
EvaluateCall(value, name, args) ==
  LET xs == [i \in DOMAIN args |-> value[args[i]]]
  IN  CASE name = "IF" ->
             IF Len(args) # 3 THEN Malformed
             ELSE IF IsError(xs[1]) THEN xs[1] ELSE xs[IF Truthy(xs[1]) THEN 2 ELSE 3]
        [] name = "COUNTIF" ->
             IF Len(args) = 2 /\ args[1].kind = "range" /\ args[2].kind # "range"
             THEN Counted(xs[1], xs[2]) ELSE Malformed
        [] OTHER -> Applied(name, xs)

(* The values of the cells of a range, in their order. *)
Cells(range, env) == [i \in 1..Width(range) |-> env[Expand(range)[i]]]
ListOf(xs) == IF \E i \in DOMAIN xs : IsError(xs[i]) THEN FirstError(xs) ELSE List(xs)

ValueBy(value, ast, env) ==
  CASE ast.kind = "literal" -> ast.value
    [] ast.kind = "cell" -> env[ast.ref]
    [] ast.kind = "range" -> IF Expandable(ast) THEN ListOf(Cells(ast, env)) ELSE Malformed
    [] ast.kind = "unary" ->
         LET x == value[ast.arg]
         IN  OfNumbers(<<x>>, IF ast.op = "+" THEN Num(x.v) ELSE Num(-x.v))
    [] ast.kind = "binary" -> Calculated(value[ast.left], ast.op, value[ast.right])
    [] ast.kind = "call" -> EvaluateCall(value, ast.name, ast.args)
    [] OTHER -> Malformed
ValueUnder(env) == LET value[ast \in Trees] == ValueBy(value, ast, env) IN value
Evaluate(ast, env) == ValueUnder(env)[ast]
=============================================================================
