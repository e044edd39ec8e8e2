------------------------ MODULE MCWorkbookExperiment ------------------------
(***************************************************************************)
(* Two sheets: S has values in columns 1 and 2 and formulas in 3 to 5, T   *)
(* a value in column 1 and a formula in column 2.  Every formula is one of *)
(* a few, so that the graphs have chains, diamonds, cycles and edges to    *)
(* the other sheet, and forms outside the subset, which no upload passes:  *)
(* a text that is no formula, a range too wide, a range where one value    *)
(* belongs, a list taken for a number, a function that is not known.  The  *)
(* requests try each kind of override and edit.                            *)
(***************************************************************************)
EXTENDS WorkbookEdits

C(col) == <<Atom(Cell(Ref("", col)))>>
On(sheet, col) == <<Atom(Cell(Ref(sheet, col)))>>
N(n) == <<Atom(Literal(Num(n)))>>
Plus(a, b) == a \o <<Op("+")>> \o b
Minus(a, b) == a \o <<Op("-")>> \o b
Times(a, b) == a \o <<Op("*")>> \o b
Above(a, b) == a \o <<Op(">")>> \o b
Paren(a) == <<Op("(")>> \o a \o <<Op(")")>>
To(a, b) == a \o <<Op(":")>> \o b
Fn(name, args) ==
  <<Ident(name), Op("(")>> \o
  FlattenSeq([i \in DOMAIN args |-> (IF i = 1 THEN <<>> ELSE <<Op(",")>>) \o args[i]]) \o <<Op(")")>>

Outer == Fn("IF", <<Above(C(1), C(2)), Times(Paren(Minus(C(1), C(2))), C(2)), Plus(C(1), N(1))>>)
(* What Unwrap makes of it. *)
Then == Paren(Times(Paren(Minus(C(1), C(2))), C(2)))
Else == Paren(Plus(C(1), N(1)))
Third == {Outer, Times(Plus(C(1), N(1)), N(2)), Times(On("S", 1), C(2)), On("T", 2),
          Fn("COUNTIF", <<To(C(1), C(2)), N(0)>>), C(5), To(C(1), C(2)), <<Op("(")>>,
          Fn("MAX", <<C(2), Minus(C(1), On("T", 1))>>),
          Fn("ROUND", <<Times(C(1), N(6)), <<Op("-")>> \o N(1)>>)}
Fourth == {Fn("IF", <<Above(C(3), N(1)), N(1) \o <<Op("/")>> \o N(1), N(1) \o <<Op("/")>> \o C(3)>>),
           Fn("LOOKUP", <<C(3), To(C(1), C(2)), To(C(2), C(3))>>), <<Op("-")>> \o C(1), C(5),
           Fn("LOOKUP", <<C(1), C(3), C(3)>>), Fn("MAX", <<To(C(1), C(2))>>)}
Fifth == {Minus(C(4), Minus(C(3), N(1))), Fn("AND", <<Above(C(4), N(0)), C(2)>>), On("T", 1),
          Fn("SUM", <<C(1)>>), Fn("COUNTIF", <<To(C(1), C(2)), C(4)>>),
          Fn("IF", <<C(4), Above(C(3), C(4)), Fn("OR", <<C(1), C(3)>>)>>), Plus(On("S", 3), On("S", 4))}
OtherSheet == {Plus(C(1), On("S", 1)), On("R", 1), To(C(1), C(4))}

Uneven == Fn("LOOKUP", <<C(1), To(C(1), C(2)), To(C(1), C(1))>>)
Edited == {Then, Else, C(2), C(4), Uneven, Fn("SUM", <<C(1)>>)}

Values == {<<Num(1), Num(2)>>, <<Num(3), Empty>>, <<Num(2), Text(1)>>}
Workbook(f3, f4, f5, t2, v) ==
  [formulas |-> (Ref("S", 3) :> Formula(f3)) @@ (Ref("S", 4) :> Formula(f4))
                @@ (Ref("S", 5) :> Formula(f5)) @@ (Ref("T", 2) :> Formula(t2)),
   values |-> (Ref("S", 1) :> v[1]) @@ (Ref("S", 2) :> v[2]) @@ (Ref("T", 1) :> Num(4))
              @@ [ref \in {Ref("S", 3), Ref("S", 4), Ref("S", 5), Ref("T", 2)} |-> Num(7)]]
MCWorkbooks ==
  {Workbook(f3, f4, f5, t2, v) : f3 \in Third, f4 \in Fourth, f5 \in Fifth, t2 \in OtherSheet, v \in Values}

Set(ref, value) == [ref |-> ref, value |-> value]
Edit(col, old, new) == [col |-> col, old |-> Formula(old), new |-> Formula(new)]
Ask(overrides, edits, observed) ==
  [sheet |-> "S", overrides |-> overrides, edits |-> edits, observed |-> observed]

MCRequests ==
  {[sheet |-> "", overrides |-> <<>>, edits |-> <<>>, observed |-> {}],
   Ask(<<Set(Ref("", 1), Num(5)), Set(Ref("S", 1), Num(4)), Set(Ref("T", 1), Num(2))>>, <<>>, {1, 5}),
   Ask(<<Set(Ref("", 3), Num(5))>>, <<>>, {5}),
   Ask(<<>>, <<Edit(3, Outer, Then), Edit(3, Then, C(2))>>, {3, 4}),
   Ask(<<>>, <<Edit(3, Outer, Else), Edit(3, Outer, C(4))>>, {3}),
   Ask(<<>>, <<Edit(3, Outer, C(4))>>, {9}),
   Ask(<<>>, <<Edit(3, Outer, Uneven)>>, {3}),
   Ask(<<>>, <<Edit(3, Outer, Fn("SUM", <<C(1)>>))>>, {3})}

(* The trees of the formulas and of the edits, and the trees in them. *)
RECURSIVE MCHeight(_), Subtrees(_)
MCHeight(ast) == 1 + Max({0} \cup {MCHeight(sub) : sub \in Below(ast)})
Subtrees(ast) == {ast} \cup UNION {Subtrees(sub) : sub \in Below(ast)}
MCTrees ==
  UNION {Subtrees(Parse(text)) : text \in Third \cup Fourth \cup Fifth \cup OtherSheet \cup Edited}
=============================================================================
