---------------------------- MODULE FormulaText ----------------------------
(***************************************************************************)
(* The text of a formula, as the tokens of formula.py: the parser, the     *)
(* structural edit of an outer IF, and the rendering of what it leaves.    *)
(***************************************************************************)
EXTENDS FormulaLanguage

Op(text) == [kind |-> "op", text |-> text]
Ident(text) == [kind |-> "ident", text |-> text]
(* Of a cell or a literal, and of the end, no rule reads the text. *)
Atom(ast) == [kind |-> "atom", text |-> "atom", ast |-> ast]
Eof == [kind |-> "eof", text |-> "eof"]

-----------------------------------------------------------------------------
(* Parser: each rule reads from position i of the tokens ts, and gives what it has
   read and the position behind it; read gives what the rules read elsewhere. *)

Rules == {"comparison", "additive", "terms", "multiplicative", "factors", "unary", "primary",
          "arguments"}

Read(ast, next) == [ast |-> ast, next |-> next]
Stuck(r) == r.ast = Unparsed
Join(left, term) ==
  IF left = Unparsed \/ term.ast = Unparsed THEN Unparsed ELSE Binary(term.op, left, term.ast)

Comparison(read, ts, i) ==
  LET left == read[<<"additive", i>>]
      right == read[<<"additive", left.next + 1>>]
  IN  IF ~Stuck(left) /\ ts[left.next].text \in Comparators
      THEN Read(Join(left.ast, [op |-> ts[left.next].text, ast |-> right.ast]), right.next)
      ELSE left

(* The operators of a loop that follow from i on, each with its operand; nothing is read
   behind an operand that cannot be read. *)
Terms(read, ts, i, ops, operand, more) ==
  LET right == read[<<operand, i + 1>>]
      rest == IF Stuck(right) THEN Read(<<>>, right.next) ELSE read[<<more, right.next>>]
  IN  IF ts[i].text \in ops
      THEN Read(<<[op |-> ts[i].text, ast |-> right.ast]>> \o rest.ast, rest.next)
      ELSE Read(<<>>, i)
(* The first operand of a loop, joined with those that follow. *)
Joined(read, i, operand, more) ==
  LET left == read[<<operand, i>>]
      terms == read[<<more, left.next>>]
  IN  IF Stuck(left) THEN left ELSE Read(FoldLeft(Join, left.ast, terms.ast), terms.next)

UnaryAt(read, ts, i) ==
  IF ts[i].text \in {"+", "-"}
  THEN LET arg == read[<<"unary", i + 1>>]
       IN  IF Stuck(arg) THEN arg ELSE Read(Unary(ts[i].text, arg.ast), arg.next)
  ELSE read[<<"primary", i>>]

CellAt(token) == token.kind = "atom" /\ token.ast.kind = "cell" /\ OnGrid(token.ast.ref)

Inherited(first, last) == IF last.sheet = "" THEN [last EXCEPT !.sheet = first.sheet] ELSE last

Primary(read, ts, i) ==
  CASE ts[i].kind = "atom" /\ ts[i].ast.kind = "literal" -> Read(ts[i].ast, i + 1)
    [] CellAt(ts[i]) /\ ts[i + 1].text # ":" -> Read(ts[i].ast, i + 1)
    [] CellAt(ts[i]) /\ ts[i + 1].text = ":" ->
         IF CellAt(ts[i + 2])
         THEN Read(Range2(ts[i].ast.ref, Inherited(ts[i].ast.ref, ts[i + 2].ast.ref)), i + 3)
         ELSE Read(Unparsed, i)
    [] ts[i].kind = "ident" ->
         IF ts[i + 1].text # "(" THEN Read(Unparsed, i)
         ELSE LET r == IF ts[i + 2].text = ")" THEN Read(<<>>, i + 2) ELSE read[<<"arguments", i + 2>>]
              IN  IF ts[r.next].text = ")" THEN Read(Call(ts[i].text, r.ast), r.next + 1)
                  ELSE Read(Unparsed, i)
    [] ts[i] = Op("(") ->
         LET r == read[<<"comparison", i + 1>>]
         IN  IF ~Stuck(r) /\ ts[r.next].text = ")" THEN Read(r.ast, r.next + 1)
             ELSE Read(Unparsed, i)
    [] OTHER -> Read(Unparsed, i)

(* The arguments; the position of a token that is no ")" when they cannot be read. *)
Arguments(read, ts, i) ==
  LET r == read[<<"comparison", i>>]
      rest == read[<<"arguments", r.next + 1>>]
  IN  IF Stuck(r) THEN Read(<<>>, Len(ts))
      ELSE IF ts[r.next].text = "," THEN Read(<<r.ast>> \o rest.ast, rest.next)
           ELSE Read(<<r.ast>>, r.next)

ReadRule(read, ts, rule, i) ==
  CASE rule = "comparison" -> Comparison(read, ts, i)
    [] rule = "additive" -> Joined(read, i, "multiplicative", "terms")
    [] rule = "terms" -> Terms(read, ts, i, {"+", "-"}, "multiplicative", "terms")
    [] rule = "multiplicative" -> Joined(read, i, "unary", "factors")
    [] rule = "factors" -> Terms(read, ts, i, {"*", "/"}, "unary", "factors")
    [] rule = "unary" -> UnaryAt(read, ts, i)
    [] rule = "primary" -> Primary(read, ts, i)
    [] rule = "arguments" -> Arguments(read, ts, i)
Reading(ts) ==
  LET read[at \in Rules \X (1..Len(ts))] == ReadRule(read, ts, at[1], at[2]) IN read

Parse(formula) ==
  LET ts == Append(formula, Eof)
      r == Reading(ts)[<<"comparison", 1>>]
  IN  IF ~Stuck(r) /\ ts[r.next].kind = "eof" THEN r.ast ELSE Unparsed

(* A formula and what the parser makes of it, wherever it is read. *)
Formula(text) == [text |-> text, ast |-> Parse(text)]

-----------------------------------------------------------------------------
(* transform_formula and its rendering; render gives the text of the trees in a tree. *)

Listed(render, args) ==
  FlattenSeq([i \in DOMAIN args |-> (IF i = 1 THEN <<>> ELSE <<Op(",")>>) \o render[args[i]]])

(* Mutant of RenderBinary: the operation is written without parentheses. *)
RenderBinaryBare(render, ast) == render[ast.left] \o <<Op(ast.op)>> \o render[ast.right]
RenderBinary(render, ast) ==
  <<Op("(")>> \o render[ast.left] \o <<Op(ast.op)>> \o render[ast.right] \o <<Op(")")>>

RenderBy(render, ast) ==
  CASE ast.kind \in {"literal", "cell"} -> <<Atom(ast)>>
    [] ast.kind = "range" ->
         <<Atom(Cell(ast.first)), Op(":"), Atom(Cell([ast.last EXCEPT !.sheet = ""]))>>
    [] ast.kind = "unary" -> <<Op(ast.op), Op("(")>> \o render[ast.arg] \o <<Op(")")>>
    [] ast.kind = "binary" -> RenderBinary(render, ast)
    [] ast.kind = "call" -> <<Ident(ast.name), Op("(")>> \o Listed(render, ast.args) \o <<Op(")")>>
    [] OTHER -> <<>>
Render[ast \in Trees] == RenderBy(Render, ast)

OuterIf(ast) == ast.kind = "call" /\ ast.name = "IF" /\ Len(ast.args) = 3

(* Mutant of Branch: the branches are counted from the condition. *)
BranchFromZero(ast, taken) == ast.args[IF taken THEN 1 ELSE 2]
Branch(ast, taken) == ast.args[IF taken THEN 2 ELSE 3]

(* The formula of one branch of an outer IF. *)
Unwrap(formula, taken) == Render[Branch(formula.ast, taken)]
=============================================================================
