----------------------- MODULE FormulaLanguageProofs -----------------------
(***************************************************************************)
(* What holds of every formula: the recursive definitions say what they    *)
(* are meant to say, a formula is evaluated from the cells it is known to  *)
(* read, no formula that passed the validation is refused for its form,    *)
(* and one that is rendered is read again.                                 *)
(*                                                                         *)
(* A recursive function is what its recursion says when a function that    *)
(* solves it exists.  One is built here from those that solve it for the   *)
(* trees below a height: any two of them agree where both are defined.     *)
(* For the parser, which recurs over rules and positions, the height is    *)
(* the rank of both.                                                       *)
(***************************************************************************)
EXTENDS FormulaText, FiniteSetTheorems, SequenceTheorems, WellFoundedInduction, TLAPS

\* A set of numbers has a least one.
LEMMA LeastOf ==
    ASSUME NEW S, S \subseteq Nat, S # {}
    PROVE  \E x \in S : \A y \in S : x <= y
<1>1. PICK x \in S : \A y \in S : ~(<<y, x>> \in OpToRel(<, Nat))
  BY WFMin, NatLessThanWellFounded
<1>2. ASSUME NEW y \in S, y < x
      PROVE  FALSE
  <2>1. <<y, x>> \in Nat \X Nat /\ <<y, x>>[1] = y /\ <<y, x>>[2] = x
    OBVIOUS
  <2>2. <<y, x>> \in {pair \in Nat \X Nat : pair[1] < pair[2]}
    BY <1>2, <2>1
  <2>3. <<y, x>> \in OpToRel(<, Nat)
    BY <2>2, Zenon DEF OpToRel
  <2>4. QED
    BY <1>1, <2>3, Zenon
<1>3. QED
  BY <1>2

\* What holds of a tree when it holds of the trees in it holds of every tree.
LEMMA TreesInduct ==
    ASSUME NEW S, \A ast \in Trees : Below(ast) \subseteq S => ast \in S
    PROVE  Trees \subseteq S
<1> DEFINE Outside == {ast \in Trees : ast \notin S}
           Heights == {Height(ast) : ast \in Outside}
<1>1. SUFFICES ASSUME Outside # {}
               PROVE  FALSE
  OBVIOUS
<1>2. Heights \subseteq Nat /\ Heights # {}
  BY <1>1, TreeAssumption
<1>3. PICK h \in Heights : \A k \in Heights : h <= k
  BY <1>2, LeastOf
<1>4. PICK ast \in Outside : h = Height(ast)
  BY <1>3
<1>5. ASSUME NEW sub \in Below(ast)
      PROVE  sub \in S
  <2>1. sub \in Trees /\ Height(sub) \in Nat /\ Height(sub) < h /\ h \in Nat
    BY <1>4, TreeAssumption
  <2>2. sub \notin Outside
    BY <1>3, <2>1
  <2>3. QED
    BY <2>1, <2>2
<1>6. QED
  BY <1>4, <1>5

\* The kind of a tree depends on those of the trees in it.
LEMMA KindLocal ==
    ASSUME NEW f, NEW g, NEW ast \in Trees, \A sub \in Below(ast) : f[sub] = g[sub]
    PROVE  KindBy(f, ast) = KindBy(g, ast)
<1>1. CASE ast.kind = "unary"
  BY <1>1 DEF KindBy, Below
<1>2. CASE ast.kind = "binary"
  BY <1>2 DEF KindBy, Below
<1>3. CASE ast.kind = "call"
  <2>1. ToSet(ast.args) = Below(ast)
    BY <1>3 DEF Below
  <2>2. \A i \in DOMAIN ast.args : f[ast.args[i]] = g[ast.args[i]]
    BY <2>1 DEF ToSet
  <2>3. [i \in DOMAIN ast.args |-> f[ast.args[i]]] = [i \in DOMAIN ast.args |-> g[ast.args[i]]]
    BY <2>2
  <2>4. QED
    BY <1>3, <2>3 DEF KindBy
<1>4. QED
  BY <1>1, <1>2, <1>3 DEF KindBy

\* KindOf is what its recursion says.
LEMMA KindUnfolds ==
    \A ast \in Trees : KindOf[ast] = KindBy(KindOf, ast)
<1> DEFINE Solves(f, n) == \A ast \in Trees : Height(ast) < n => f[ast] = KindBy(f, ast)
           Is(f) == f = [ast \in Trees |-> KindBy(f, ast)]
           Unsolved == {n \in Nat : ~ \E f : Solves(f, n)}
           First(ast) == CHOOSE f : Solves(f, Height(ast) + 1)
           All == [ast \in Trees |-> First(ast)[ast]]
<1>1. \A ast \in Trees : /\ Height(ast) \in Nat
                          /\ \A sub \in Below(ast) : sub \in Trees /\ Height(sub) < Height(ast)
  BY TreeAssumption
<1>2. ASSUME NEW f, NEW g, NEW n \in Nat, NEW m \in Nat, Solves(f, n), Solves(g, m)
      PROVE  \A ast \in Trees : Height(ast) < n /\ Height(ast) < m => f[ast] = g[ast]
  <2> DEFINE Differ == {ast \in Trees : Height(ast) < n /\ Height(ast) < m /\ f[ast] # g[ast]}
             Heights == {Height(ast) : ast \in Differ}
  <2>1. SUFFICES ASSUME Differ # {}
                 PROVE  FALSE
    OBVIOUS
  <2>2. Heights \subseteq Nat /\ Heights # {}
    BY <1>1, <2>1
  <2>3. PICK h \in Heights : \A k \in Heights : h <= k
    BY <2>2, LeastOf
  <2>4. PICK ast \in Differ : h = Height(ast)
    BY <2>3
  <2>5. ASSUME NEW sub \in Below(ast)
        PROVE  f[sub] = g[sub]
    <3>1. sub \in Trees /\ Height(sub) \in Nat /\ Height(sub) < h /\ h \in Nat
      BY <1>1, <2>4
    <3>2. sub \notin Differ
      BY <2>3, <3>1
    <3>3. QED
      BY <2>4, <3>1, <3>2
  <2>6. KindBy(f, ast) = KindBy(g, ast)
    BY <2>5, KindLocal
  <2>7. QED
    BY <1>2, <2>4, <2>6
<1>3. ASSUME NEW n \in Nat, NEW f, Solves(f, n)
      PROVE  \E g : Solves(g, n + 1)
  <2> DEFINE g == [ast \in Trees |-> KindBy(f, ast)]
  <2>1. ASSUME NEW ast \in Trees, Height(ast) < n + 1
        PROVE  g[ast] = KindBy(g, ast)
    <3>1. ASSUME NEW sub \in Below(ast)
          PROVE  f[sub] = g[sub]
      <4>1. sub \in Trees /\ Height(sub) < n
        BY <1>1, <2>1
      <4>2. f[sub] = KindBy(f, sub)
        BY <1>3, <4>1
      <4>3. QED
        BY <4>1, <4>2
    <3>2. KindBy(f, ast) = KindBy(g, ast)
      BY <3>1, KindLocal
    <3>3. QED
      BY <2>1, <3>2
  <2>2. Solves(g, n + 1)
    BY <2>1
  <2>3. QED
    BY <2>2
<1>4. Unsolved = {}
  <2>1. SUFFICES ASSUME Unsolved # {}
                 PROVE  FALSE
    OBVIOUS
  <2>2. PICK n \in Unsolved : \A m \in Unsolved : n <= m
    BY <2>1, LeastOf
  <2>3. CASE n = 0
    <3>1. Solves([ast \in Trees |-> ast], 0)
      BY <1>1
    <3>2. QED
      BY <2>2, <2>3, <3>1
  <2>4. CASE n # 0
    <3>1. n - 1 \in Nat /\ n - 1 \notin Unsolved /\ (n - 1) + 1 = n
      BY <2>2, <2>4
    <3>2. PICK f : Solves(f, n - 1)
      BY <3>1
    <3>3. \E g : Solves(g, n)
      BY <1>3, <3>1, <3>2
    <3>4. QED
      BY <2>2, <3>3
  <2>5. QED
    BY <2>3, <2>4
<1>5. ASSUME NEW ast \in Trees
      PROVE  Solves(First(ast), Height(ast) + 1)
  <2>1. Height(ast) + 1 \in Nat
    BY <1>1
  <2>2. \E f : Solves(f, Height(ast) + 1)
    BY <1>4, <2>1
  <2> HIDE DEF Solves
  <2>3. QED
    BY <2>2
<1>6. ASSUME NEW ast \in Trees
      PROVE  All[ast] = KindBy(All, ast)
  <2> DEFINE f == First(ast)
  <2>1. Height(ast) \in Nat /\ Solves(f, Height(ast) + 1)
    BY <1>1, <1>5
  <2>2. f[ast] = KindBy(f, ast)
    BY <2>1
  <2>3. ASSUME NEW sub \in Below(ast)
        PROVE  f[sub] = All[sub]
    <3>1. /\ sub \in Trees /\ Height(sub) \in Nat /\ Height(sub) < Height(ast)
          /\ Solves(First(sub), Height(sub) + 1)
      BY <1>1, <1>5
    <3> DEFINE a == First(sub)
    <3> HIDE DEF f, a, Solves, First
    <3>2. /\ Height(ast) + 1 \in Nat /\ Height(sub) + 1 \in Nat
          /\ Height(sub) < Height(ast) + 1 /\ Height(sub) < Height(sub) + 1
      BY <2>1, <3>1
    <3>3. f[sub] = First(sub)[sub]
      BY <1>2, <2>1, <3>1, <3>2
    <3>4. QED
      BY <3>1, <3>3
  <2> HIDE DEF f, First, Solves
  <2>4. KindBy(f, ast) = KindBy(All, ast)
    BY <2>3, KindLocal
  <2>5. All[ast] = f[ast]
    BY DEF f
  <2>6. QED
    BY <2>2, <2>4, <2>5
<1> HIDE DEF First, Solves
<1>7. Is(All)
  <2>1. [ast \in Trees |-> All[ast]] = [ast \in Trees |-> KindBy(All, ast)]
    BY <1>6
  <2>2. QED
    BY <2>1
<1> HIDE DEF All
<1>8. KindOf = CHOOSE f : Is(f)
  BY DEF KindOf
<1>9. Is(KindOf)
  BY <1>7, <1>8
<1>10. QED
  BY <1>9

\* Whether a tree can be read depends on the trees in it.
LEMMA LegibleLocal ==
    ASSUME NEW f, NEW g, NEW ast \in Trees, \A sub \in Below(ast) : f[sub] = g[sub]
    PROVE  LegibleBy(f, ast) = LegibleBy(g, ast)
BY DEF LegibleBy

\* Legible is what its recursion says.
LEMMA LegibleUnfolds ==
    \A ast \in Trees : Legible[ast] = LegibleBy(Legible, ast)
<1> DEFINE Solves(f, n) == \A ast \in Trees : Height(ast) < n => f[ast] = LegibleBy(f, ast)
           Is(f) == f = [ast \in Trees |-> LegibleBy(f, ast)]
           Unsolved == {n \in Nat : ~ \E f : Solves(f, n)}
           First(ast) == CHOOSE f : Solves(f, Height(ast) + 1)
           All == [ast \in Trees |-> First(ast)[ast]]
<1>1. \A ast \in Trees : /\ Height(ast) \in Nat
                          /\ \A sub \in Below(ast) : sub \in Trees /\ Height(sub) < Height(ast)
  BY TreeAssumption
<1>2. ASSUME NEW f, NEW g, NEW n \in Nat, NEW m \in Nat, Solves(f, n), Solves(g, m)
      PROVE  \A ast \in Trees : Height(ast) < n /\ Height(ast) < m => f[ast] = g[ast]
  <2> DEFINE Differ == {ast \in Trees : Height(ast) < n /\ Height(ast) < m /\ f[ast] # g[ast]}
             Heights == {Height(ast) : ast \in Differ}
  <2>1. SUFFICES ASSUME Differ # {}
                 PROVE  FALSE
    OBVIOUS
  <2>2. Heights \subseteq Nat /\ Heights # {}
    BY <1>1, <2>1
  <2>3. PICK h \in Heights : \A k \in Heights : h <= k
    BY <2>2, LeastOf
  <2>4. PICK ast \in Differ : h = Height(ast)
    BY <2>3
  <2>5. ASSUME NEW sub \in Below(ast)
        PROVE  f[sub] = g[sub]
    <3>1. sub \in Trees /\ Height(sub) \in Nat /\ Height(sub) < h /\ h \in Nat
      BY <1>1, <2>4
    <3>2. sub \notin Differ
      BY <2>3, <3>1
    <3>3. QED
      BY <2>4, <3>1, <3>2
  <2>6. LegibleBy(f, ast) = LegibleBy(g, ast)
    BY <2>5, LegibleLocal
  <2>7. QED
    BY <1>2, <2>4, <2>6
<1>3. ASSUME NEW n \in Nat, NEW f, Solves(f, n)
      PROVE  \E g : Solves(g, n + 1)
  <2> DEFINE g == [ast \in Trees |-> LegibleBy(f, ast)]
  <2>1. ASSUME NEW ast \in Trees, Height(ast) < n + 1
        PROVE  g[ast] = LegibleBy(g, ast)
    <3>1. ASSUME NEW sub \in Below(ast)
          PROVE  f[sub] = g[sub]
      <4>1. sub \in Trees /\ Height(sub) < n
        BY <1>1, <2>1
      <4>2. f[sub] = LegibleBy(f, sub)
        BY <1>3, <4>1
      <4>3. QED
        BY <4>1, <4>2
    <3>2. LegibleBy(f, ast) = LegibleBy(g, ast)
      BY <3>1, LegibleLocal
    <3>3. QED
      BY <2>1, <3>2
  <2>2. Solves(g, n + 1)
    BY <2>1
  <2>3. QED
    BY <2>2
<1>4. Unsolved = {}
  <2>1. SUFFICES ASSUME Unsolved # {}
                 PROVE  FALSE
    OBVIOUS
  <2>2. PICK n \in Unsolved : \A m \in Unsolved : n <= m
    BY <2>1, LeastOf
  <2>3. CASE n = 0
    <3>1. Solves([ast \in Trees |-> ast], 0)
      BY <1>1
    <3>2. QED
      BY <2>2, <2>3, <3>1
  <2>4. CASE n # 0
    <3>1. n - 1 \in Nat /\ n - 1 \notin Unsolved /\ (n - 1) + 1 = n
      BY <2>2, <2>4
    <3>2. PICK f : Solves(f, n - 1)
      BY <3>1
    <3>3. \E g : Solves(g, n)
      BY <1>3, <3>1, <3>2
    <3>4. QED
      BY <2>2, <3>3
  <2>5. QED
    BY <2>3, <2>4
<1>5. ASSUME NEW ast \in Trees
      PROVE  Solves(First(ast), Height(ast) + 1)
  <2>1. Height(ast) + 1 \in Nat
    BY <1>1
  <2>2. \E f : Solves(f, Height(ast) + 1)
    BY <1>4, <2>1
  <2> HIDE DEF Solves
  <2>3. QED
    BY <2>2
<1>6. ASSUME NEW ast \in Trees
      PROVE  All[ast] = LegibleBy(All, ast)
  <2> DEFINE f == First(ast)
  <2>1. Height(ast) \in Nat /\ Solves(f, Height(ast) + 1)
    BY <1>1, <1>5
  <2>2. f[ast] = LegibleBy(f, ast)
    BY <2>1
  <2>3. ASSUME NEW sub \in Below(ast)
        PROVE  f[sub] = All[sub]
    <3>1. /\ sub \in Trees /\ Height(sub) \in Nat /\ Height(sub) < Height(ast)
          /\ Solves(First(sub), Height(sub) + 1)
      BY <1>1, <1>5
    <3> DEFINE a == First(sub)
    <3> HIDE DEF f, a, Solves, First
    <3>2. /\ Height(ast) + 1 \in Nat /\ Height(sub) + 1 \in Nat
          /\ Height(sub) < Height(ast) + 1 /\ Height(sub) < Height(sub) + 1
      BY <2>1, <3>1
    <3>3. f[sub] = First(sub)[sub]
      BY <1>2, <2>1, <3>1, <3>2
    <3>4. QED
      BY <3>1, <3>3
  <2> HIDE DEF f, First, Solves
  <2>4. LegibleBy(f, ast) = LegibleBy(All, ast)
    BY <2>3, LegibleLocal
  <2>5. All[ast] = f[ast]
    BY DEF f
  <2>6. QED
    BY <2>2, <2>4, <2>5
<1> HIDE DEF First, Solves
<1>7. Is(All)
  <2>1. [ast \in Trees |-> All[ast]] = [ast \in Trees |-> LegibleBy(All, ast)]
    BY <1>6
  <2>2. QED
    BY <2>1
<1> HIDE DEF All
<1>8. Legible = CHOOSE f : Is(f)
  BY DEF Legible
<1>9. Is(Legible)
  BY <1>7, <1>8
<1>10. QED
  BY <1>9

\* The cells a tree reads depend on those that the trees in it read.
LEMMA ReadLocal ==
    ASSUME NEW f, NEW g, NEW ast \in Trees, \A sub \in Below(ast) : f[sub] = g[sub]
    PROVE  ReadBy(f, ast) = ReadBy(g, ast)
<1>1. CASE ast.kind = "unary"
  BY <1>1 DEF ReadBy, Below
<1>2. CASE ast.kind = "binary"
  BY <1>2 DEF ReadBy, Below
<1>3. CASE ast.kind = "call"
  <2>1. ToSet(ast.args) = Below(ast)
    BY <1>3 DEF Below
  <2>2. \A i \in DOMAIN ast.args : f[ast.args[i]] = g[ast.args[i]]
    BY <2>1 DEF ToSet
  <2>3. {f[ast.args[i]] : i \in DOMAIN ast.args} = {g[ast.args[i]] : i \in DOMAIN ast.args}
    BY <2>2
  <2>4. QED
    BY <1>3, <2>3 DEF ReadBy, ReadInCall
<1>4. QED
  BY <1>1, <1>2, <1>3 DEF ReadBy

\* References is what its recursion says.
LEMMA ReadUnfolds ==
    \A ast \in Trees : References[ast] = ReadBy(References, ast)
<1> DEFINE Solves(f, n) == \A ast \in Trees : Height(ast) < n => f[ast] = ReadBy(f, ast)
           Is(f) == f = [ast \in Trees |-> ReadBy(f, ast)]
           Unsolved == {n \in Nat : ~ \E f : Solves(f, n)}
           First(ast) == CHOOSE f : Solves(f, Height(ast) + 1)
           All == [ast \in Trees |-> First(ast)[ast]]
<1>1. \A ast \in Trees : /\ Height(ast) \in Nat
                          /\ \A sub \in Below(ast) : sub \in Trees /\ Height(sub) < Height(ast)
  BY TreeAssumption
<1>2. ASSUME NEW f, NEW g, NEW n \in Nat, NEW m \in Nat, Solves(f, n), Solves(g, m)
      PROVE  \A ast \in Trees : Height(ast) < n /\ Height(ast) < m => f[ast] = g[ast]
  <2> DEFINE Differ == {ast \in Trees : Height(ast) < n /\ Height(ast) < m /\ f[ast] # g[ast]}
             Heights == {Height(ast) : ast \in Differ}
  <2>1. SUFFICES ASSUME Differ # {}
                 PROVE  FALSE
    OBVIOUS
  <2>2. Heights \subseteq Nat /\ Heights # {}
    BY <1>1, <2>1
  <2>3. PICK h \in Heights : \A k \in Heights : h <= k
    BY <2>2, LeastOf
  <2>4. PICK ast \in Differ : h = Height(ast)
    BY <2>3
  <2>5. ASSUME NEW sub \in Below(ast)
        PROVE  f[sub] = g[sub]
    <3>1. sub \in Trees /\ Height(sub) \in Nat /\ Height(sub) < h /\ h \in Nat
      BY <1>1, <2>4
    <3>2. sub \notin Differ
      BY <2>3, <3>1
    <3>3. QED
      BY <2>4, <3>1, <3>2
  <2>6. ReadBy(f, ast) = ReadBy(g, ast)
    BY <2>5, ReadLocal
  <2>7. QED
    BY <1>2, <2>4, <2>6
<1>3. ASSUME NEW n \in Nat, NEW f, Solves(f, n)
      PROVE  \E g : Solves(g, n + 1)
  <2> DEFINE g == [ast \in Trees |-> ReadBy(f, ast)]
  <2>1. ASSUME NEW ast \in Trees, Height(ast) < n + 1
        PROVE  g[ast] = ReadBy(g, ast)
    <3>1. ASSUME NEW sub \in Below(ast)
          PROVE  f[sub] = g[sub]
      <4>1. sub \in Trees /\ Height(sub) < n
        BY <1>1, <2>1
      <4>2. f[sub] = ReadBy(f, sub)
        BY <1>3, <4>1
      <4>3. QED
        BY <4>1, <4>2
    <3>2. ReadBy(f, ast) = ReadBy(g, ast)
      BY <3>1, ReadLocal
    <3>3. QED
      BY <2>1, <3>2
  <2>2. Solves(g, n + 1)
    BY <2>1
  <2>3. QED
    BY <2>2
<1>4. Unsolved = {}
  <2>1. SUFFICES ASSUME Unsolved # {}
                 PROVE  FALSE
    OBVIOUS
  <2>2. PICK n \in Unsolved : \A m \in Unsolved : n <= m
    BY <2>1, LeastOf
  <2>3. CASE n = 0
    <3>1. Solves([ast \in Trees |-> ast], 0)
      BY <1>1
    <3>2. QED
      BY <2>2, <2>3, <3>1
  <2>4. CASE n # 0
    <3>1. n - 1 \in Nat /\ n - 1 \notin Unsolved /\ (n - 1) + 1 = n
      BY <2>2, <2>4
    <3>2. PICK f : Solves(f, n - 1)
      BY <3>1
    <3>3. \E g : Solves(g, n)
      BY <1>3, <3>1, <3>2
    <3>4. QED
      BY <2>2, <3>3
  <2>5. QED
    BY <2>3, <2>4
<1>5. ASSUME NEW ast \in Trees
      PROVE  Solves(First(ast), Height(ast) + 1)
  <2>1. Height(ast) + 1 \in Nat
    BY <1>1
  <2>2. \E f : Solves(f, Height(ast) + 1)
    BY <1>4, <2>1
  <2> HIDE DEF Solves
  <2>3. QED
    BY <2>2
<1>6. ASSUME NEW ast \in Trees
      PROVE  All[ast] = ReadBy(All, ast)
  <2> DEFINE f == First(ast)
  <2>1. Height(ast) \in Nat /\ Solves(f, Height(ast) + 1)
    BY <1>1, <1>5
  <2>2. f[ast] = ReadBy(f, ast)
    BY <2>1
  <2>3. ASSUME NEW sub \in Below(ast)
        PROVE  f[sub] = All[sub]
    <3>1. /\ sub \in Trees /\ Height(sub) \in Nat /\ Height(sub) < Height(ast)
          /\ Solves(First(sub), Height(sub) + 1)
      BY <1>1, <1>5
    <3> DEFINE a == First(sub)
    <3> HIDE DEF f, a, Solves, First
    <3>2. /\ Height(ast) + 1 \in Nat /\ Height(sub) + 1 \in Nat
          /\ Height(sub) < Height(ast) + 1 /\ Height(sub) < Height(sub) + 1
      BY <2>1, <3>1
    <3>3. f[sub] = First(sub)[sub]
      BY <1>2, <2>1, <3>1, <3>2
    <3>4. QED
      BY <3>1, <3>3
  <2> HIDE DEF f, First, Solves
  <2>4. ReadBy(f, ast) = ReadBy(All, ast)
    BY <2>3, ReadLocal
  <2>5. All[ast] = f[ast]
    BY DEF f
  <2>6. QED
    BY <2>2, <2>4, <2>5
<1> HIDE DEF First, Solves
<1>7. Is(All)
  <2>1. [ast \in Trees |-> All[ast]] = [ast \in Trees |-> ReadBy(All, ast)]
    BY <1>6
  <2>2. QED
    BY <2>1
<1> HIDE DEF All
<1>8. References = CHOOSE f : Is(f)
  BY DEF References
<1>9. Is(References)
  BY <1>7, <1>8
<1>10. QED
  BY <1>9

\* The value of a tree depends on those of the trees in it.
LEMMA ValueLocal ==
    ASSUME NEW f, NEW g, NEW env, NEW ast \in Trees, \A sub \in Below(ast) : f[sub] = g[sub]
    PROVE  ValueBy(f, ast, env) = ValueBy(g, ast, env)
<1>1. CASE ast.kind = "unary"
  BY <1>1 DEF ValueBy, Below
<1>2. CASE ast.kind = "binary"
  BY <1>2 DEF ValueBy, Below
<1>3. CASE ast.kind = "call"
  <2>1. ToSet(ast.args) = Below(ast)
    BY <1>3 DEF Below
  <2>2. \A i \in DOMAIN ast.args : f[ast.args[i]] = g[ast.args[i]]
    BY <2>1 DEF ToSet
  <2>3. [i \in DOMAIN ast.args |-> f[ast.args[i]]] = [i \in DOMAIN ast.args |-> g[ast.args[i]]]
    BY <2>2
  <2>4. EvaluateCall(f, ast.name, ast.args) = EvaluateCall(g, ast.name, ast.args)
    BY <2>3 DEF EvaluateCall
  <2>5. QED
    BY <1>3, <2>4 DEF ValueBy
<1>4. QED
  BY <1>1, <1>2, <1>3 DEF ValueBy

\* ValueUnder is what its recursion says.
LEMMA ValueUnfolds ==
    ASSUME NEW env
    PROVE  \A ast \in Trees : ValueUnder(env)[ast] = ValueBy(ValueUnder(env), ast, env)
<1> DEFINE Solves(f, n) == \A ast \in Trees : Height(ast) < n => f[ast] = ValueBy(f, ast, env)
           Is(f) == f = [ast \in Trees |-> ValueBy(f, ast, env)]
           Unsolved == {n \in Nat : ~ \E f : Solves(f, n)}
           First(ast) == CHOOSE f : Solves(f, Height(ast) + 1)
           All == [ast \in Trees |-> First(ast)[ast]]
<1>1. \A ast \in Trees : /\ Height(ast) \in Nat
                          /\ \A sub \in Below(ast) : sub \in Trees /\ Height(sub) < Height(ast)
  BY TreeAssumption
<1>2. ASSUME NEW f, NEW g, NEW n \in Nat, NEW m \in Nat, Solves(f, n), Solves(g, m)
      PROVE  \A ast \in Trees : Height(ast) < n /\ Height(ast) < m => f[ast] = g[ast]
  <2> DEFINE Differ == {ast \in Trees : Height(ast) < n /\ Height(ast) < m /\ f[ast] # g[ast]}
             Heights == {Height(ast) : ast \in Differ}
  <2>1. SUFFICES ASSUME Differ # {}
                 PROVE  FALSE
    OBVIOUS
  <2>2. Heights \subseteq Nat /\ Heights # {}
    BY <1>1, <2>1
  <2>3. PICK h \in Heights : \A k \in Heights : h <= k
    BY <2>2, LeastOf
  <2>4. PICK ast \in Differ : h = Height(ast)
    BY <2>3
  <2>5. ASSUME NEW sub \in Below(ast)
        PROVE  f[sub] = g[sub]
    <3>1. sub \in Trees /\ Height(sub) \in Nat /\ Height(sub) < h /\ h \in Nat
      BY <1>1, <2>4
    <3>2. sub \notin Differ
      BY <2>3, <3>1
    <3>3. QED
      BY <2>4, <3>1, <3>2
  <2>6. ValueBy(f, ast, env) = ValueBy(g, ast, env)
    BY <2>5, ValueLocal
  <2>7. QED
    BY <1>2, <2>4, <2>6
<1>3. ASSUME NEW n \in Nat, NEW f, Solves(f, n)
      PROVE  \E g : Solves(g, n + 1)
  <2> DEFINE g == [ast \in Trees |-> ValueBy(f, ast, env)]
  <2>1. ASSUME NEW ast \in Trees, Height(ast) < n + 1
        PROVE  g[ast] = ValueBy(g, ast, env)
    <3>1. ASSUME NEW sub \in Below(ast)
          PROVE  f[sub] = g[sub]
      <4>1. sub \in Trees /\ Height(sub) < n
        BY <1>1, <2>1
      <4>2. f[sub] = ValueBy(f, sub, env)
        BY <1>3, <4>1
      <4>3. QED
        BY <4>1, <4>2
    <3>2. ValueBy(f, ast, env) = ValueBy(g, ast, env)
      BY <3>1, ValueLocal
    <3>3. QED
      BY <2>1, <3>2
  <2>2. Solves(g, n + 1)
    BY <2>1
  <2>3. QED
    BY <2>2
<1>4. Unsolved = {}
  <2>1. SUFFICES ASSUME Unsolved # {}
                 PROVE  FALSE
    OBVIOUS
  <2>2. PICK n \in Unsolved : \A m \in Unsolved : n <= m
    BY <2>1, LeastOf
  <2>3. CASE n = 0
    <3>1. Solves([ast \in Trees |-> ast], 0)
      BY <1>1
    <3>2. QED
      BY <2>2, <2>3, <3>1
  <2>4. CASE n # 0
    <3>1. n - 1 \in Nat /\ n - 1 \notin Unsolved /\ (n - 1) + 1 = n
      BY <2>2, <2>4
    <3>2. PICK f : Solves(f, n - 1)
      BY <3>1
    <3>3. \E g : Solves(g, n)
      BY <1>3, <3>1, <3>2
    <3>4. QED
      BY <2>2, <3>3
  <2>5. QED
    BY <2>3, <2>4
<1>5. ASSUME NEW ast \in Trees
      PROVE  Solves(First(ast), Height(ast) + 1)
  <2>1. Height(ast) + 1 \in Nat
    BY <1>1
  <2>2. \E f : Solves(f, Height(ast) + 1)
    BY <1>4, <2>1
  <2> HIDE DEF Solves
  <2>3. QED
    BY <2>2
<1>6. ASSUME NEW ast \in Trees
      PROVE  All[ast] = ValueBy(All, ast, env)
  <2> DEFINE f == First(ast)
  <2>1. Height(ast) \in Nat /\ Solves(f, Height(ast) + 1)
    BY <1>1, <1>5
  <2>2. f[ast] = ValueBy(f, ast, env)
    BY <2>1
  <2>3. ASSUME NEW sub \in Below(ast)
        PROVE  f[sub] = All[sub]
    <3>1. /\ sub \in Trees /\ Height(sub) \in Nat /\ Height(sub) < Height(ast)
          /\ Solves(First(sub), Height(sub) + 1)
      BY <1>1, <1>5
    <3> DEFINE a == First(sub)
    <3> HIDE DEF f, a, Solves, First
    <3>2. /\ Height(ast) + 1 \in Nat /\ Height(sub) + 1 \in Nat
          /\ Height(sub) < Height(ast) + 1 /\ Height(sub) < Height(sub) + 1
      BY <2>1, <3>1
    <3>3. f[sub] = First(sub)[sub]
      BY <1>2, <2>1, <3>1, <3>2
    <3>4. QED
      BY <3>1, <3>3
  <2> HIDE DEF f, First, Solves
  <2>4. ValueBy(f, ast, env) = ValueBy(All, ast, env)
    BY <2>3, ValueLocal
  <2>5. All[ast] = f[ast]
    BY DEF f
  <2>6. QED
    BY <2>2, <2>4, <2>5
<1> HIDE DEF First, Solves
<1>7. Is(All)
  <2>1. [ast \in Trees |-> All[ast]] = [ast \in Trees |-> ValueBy(All, ast, env)]
    BY <1>6
  <2>2. QED
    BY <2>1
<1> HIDE DEF All
<1>8. ValueUnder(env) = CHOOSE f : Is(f)
  BY DEF ValueUnder
<1>9. Is(ValueUnder(env))
  BY <1>7, <1>8
<1>10. QED
  BY <1>9

\* The maximum of a bounded set of numbers is its largest.
LEMMA MaxIsMember ==
    ASSUME NEW n \in Nat, NEW S, S \subseteq 1 .. n, S # {}
    PROVE  Max(S) \in S /\ \A y \in S : y <= Max(S)
<1> DEFINE T == {n - x : x \in S}
<1>1. T \subseteq Nat /\ T # {}
  OBVIOUS
<1>2. PICK t \in T : \A y \in T : t <= y
  BY <1>1, LeastOf
<1>3. PICK x \in S : t = n - x
  BY <1>2
<1>4. ASSUME NEW y \in S
      PROVE  x >= y
  <2>1. n - y \in T
    OBVIOUS
  <2>2. t <= n - y
    BY <1>2, <2>1
  <2>3. QED
    BY <1>3, <2>2
<1>5. \E x_1 \in S : \A y \in S : x_1 >= y
  BY <1>4
<1>6. Max(S) \in S /\ \A y \in S : Max(S) >= y
  BY <1>5 DEF Max
<1>7. QED
  BY <1>6

---------------------------------------------------------------------------
(* The subset. *)

\* A tree of the subset is of one of these forms.
Scalar(ast) == KindOf[ast] = "scalar"

ScalarCall(ast) ==
    \/ ast.name \in {"IF", "ROUND", "AND", "OR", "MAX", "MIN"}
       /\ \A i \in DOMAIN ast.args : Scalar(ast.args[i])
    \/ ast.name = "LOOKUP" /\ Scalar(ast.args[1]) /\ Width(ast.args[2]) = Width(ast.args[3])
       /\ \A i \in 2 .. 3 : ast.args[i].kind = "range" /\ Expandable(ast.args[i])
    \/ ast.name = "COUNTIF" /\ ast.args[1].kind = "range" /\ Expandable(ast.args[1])
       /\ ast.args[2].kind = "literal"

ScalarForm(ast) ==
    \/ ast.kind \in {"literal", "cell"}
    \/ ast.kind = "unary" /\ Scalar(ast.arg)
    \/ ast.kind = "binary" /\ Scalar(ast.left) /\ Scalar(ast.right)
    \/ ast.kind = "call" /\ Len(ast.args) \in Arity(ast.name) /\ ScalarCall(ast)

\* The arguments of a call are trees, and as many as its arity says.
LEMMA CallArguments ==
    ASSUME NEW ast \in Trees, ast.kind = "call"
    PROVE  /\ Len(ast.args) \in Nat /\ DOMAIN ast.args = 1 .. Len(ast.args)
           /\ \A i \in DOMAIN ast.args : ast.args[i] \in Below(ast) /\ ast.args[i] \in Trees
<1>1. ast.args \in Seq(Trees)
  BY TreeAssumption DEF Formed
<1>2. \A i \in DOMAIN ast.args : ast.args[i] \in Below(ast)
  BY DEF Below, ToSet
<1>3. QED
  BY <1>1, <1>2

\* What is of the kind of a range is a range that can be expanded.
LEMMA RangeKind ==
    ASSUME NEW ast \in Trees, KindOf[ast] = "range"
    PROVE  ast.kind = "range" /\ Expandable(ast)
<1>1. KindBy(KindOf, ast) = "range"
  BY KindUnfolds
<1>2. Formed(ast)
  BY TreeAssumption
<1>3. QED
  BY <1>1, <1>2 DEF KindBy, Formed

\* A tree of the subset has one of the forms that the validation admits.
LEMMA ScalarForms ==
    ASSUME NEW ast \in Trees, Scalar(ast)
    PROVE  ScalarForm(ast)
<1>1. KindBy(KindOf, ast) = "scalar"
  BY KindUnfolds DEF Scalar
<1>2. Formed(ast)
  BY TreeAssumption
<1>3. CASE ast.kind = "call"
  <2> DEFINE kinds == [i \in DOMAIN ast.args |-> KindOf[ast.args[i]]]
  <2>1. Len(ast.args) \in Arity(ast.name) /\ Fits(ast.name, ast.args, kinds)
    BY <1>1, <1>3 DEF KindBy
  <2>2. /\ Len(ast.args) \in Nat /\ DOMAIN ast.args = 1 .. Len(ast.args)
        /\ \A i \in DOMAIN ast.args : ast.args[i] \in Trees
    BY <1>3, CallArguments
  <2>3. \A i \in DOMAIN ast.args : kinds[i] = KindOf[ast.args[i]]
    OBVIOUS
  <2> HIDE DEF kinds
  <2>4. CASE ast.name = "LOOKUP"
    <3>1. kinds = <<"scalar", "range", "range">> /\ Width(ast.args[2]) = Width(ast.args[3])
      BY <2>1, <2>4 DEF Fits
    <3>2. Len(ast.args) = 3
      BY <2>1, <2>4 DEF Arity
    <3>3. /\ KindOf[ast.args[1]] = "scalar" /\ KindOf[ast.args[2]] = "range"
          /\ KindOf[ast.args[3]] = "range"
      BY <2>2, <2>3, <3>1, <3>2
    <3>4. \A i \in 2 .. 3 : ast.args[i].kind = "range" /\ Expandable(ast.args[i])
      <4>1. TAKE i \in 2 .. 3
      <4>2. i = 2 \/ i = 3
        OBVIOUS
      <4>3. ast.args[i] \in Trees /\ KindOf[ast.args[i]] = "range"
        BY <2>2, <3>2, <3>3, <4>2
      <4>4. QED
        BY <4>3, RangeKind
    <3>5. QED
      BY <1>3, <2>1, <2>4, <3>1, <3>3, <3>4 DEF ScalarForm, ScalarCall, Scalar
  <2>5. CASE ast.name = "COUNTIF"
    <3>1. kinds = <<"range", "scalar">> /\ ast.args[2].kind = "literal"
      BY <2>1, <2>5 DEF Fits
    <3>2. Len(ast.args) = 2
      BY <2>1, <2>5 DEF Arity
    <3>3. KindOf[ast.args[1]] = "range" /\ ast.args[1] \in Trees
      BY <2>2, <2>3, <3>1, <3>2
    <3>4. ast.args[1].kind = "range" /\ Expandable(ast.args[1])
      BY <3>3, RangeKind
    <3>5. QED
      BY <1>3, <2>1, <2>5, <3>1, <3>4 DEF ScalarForm, ScalarCall
  <2>6. CASE ast.name \notin {"LOOKUP", "COUNTIF"}
    <3>1. \A i \in DOMAIN kinds : kinds[i] = "scalar"
      BY <2>1, <2>6 DEF Fits
    <3>2. DOMAIN kinds = DOMAIN ast.args
      BY DEF kinds
    <3>3. \A i \in DOMAIN ast.args : Scalar(ast.args[i])
      BY <2>3, <3>1, <3>2 DEF Scalar
    <3>4. ast.name \in {"IF", "ROUND", "AND", "OR", "MAX", "MIN"}
      BY <2>1, <2>6 DEF Arity
    <3>5. QED
      BY <1>3, <2>1, <3>3, <3>4 DEF ScalarForm, ScalarCall
  <2>7. QED
    BY <2>4, <2>5, <2>6
<1>4. QED
  BY <1>1, <1>2, <1>3 DEF KindBy, Formed, ScalarForm, Scalar

---------------------------------------------------------------------------
(* The cells a tree reads. *)

\* A tree reads what the trees in it read.
LEMMA BelowIsRead ==
    ASSUME NEW ast \in Trees, NEW sub \in Below(ast)
    PROVE  References[sub] \subseteq References[ast]
<1>1. References[ast] = ReadBy(References, ast)
  BY ReadUnfolds
<1>2. CASE ast.kind = "call"
  <2>1. PICK i \in DOMAIN ast.args : sub = ast.args[i]
    BY <1>2 DEF Below, ToSet
  <2>2. QED
    BY <1>1, <1>2, <2>1 DEF ReadBy, ReadInCall
<1>3. QED
  BY <1>1, <1>2 DEF ReadBy, Below

\* The cells of a range that can be expanded, in their order.
LEMMA RangeIsRead ==
    ASSUME NEW ast \in Trees, ast.kind = "range", Expandable(ast)
    PROVE  /\ Width(ast) \in Nat
           /\ \A i \in 1 .. Width(ast) : Expand(ast)[i] \in References[ast]
<1>1. References[ast] = ToSet(Expand(ast))
  BY ReadUnfolds DEF ReadBy
<1>2. Width(ast) \in Nat
  BY TreeAssumption DEF Expandable
<1>3. QED
  BY <1>1, <1>2 DEF ToSet, Expand

\* Every cell that is read lies on the grid.
LEMMA ReadsOnGrid ==
    ASSUME NEW ast \in Trees
    PROVE  \A ref \in References[ast] : ref = Ref(ref.sheet, ref.col) /\ ref.col \in Columns
<1> DEFINE Bad == {a \in Trees : \E ref \in References[a] :
                                    ~ (ref = Ref(ref.sheet, ref.col) /\ ref.col \in Columns)}
           Heights == {Height(a) : a \in Bad}
<1>1. SUFFICES ASSUME Bad # {}
               PROVE  FALSE
  OBVIOUS
<1>2. Heights \subseteq Nat /\ Heights # {}
  BY <1>1, TreeAssumption
<1>3. PICK h \in Heights : \A k \in Heights : h <= k
  BY <1>2, LeastOf
<1>4. PICK a \in Bad : h = Height(a)
  BY <1>3
<1>5. PICK ref \in References[a] : ~ (ref = Ref(ref.sheet, ref.col) /\ ref.col \in Columns)
  BY <1>4
<1>6. ASSUME NEW sub \in Below(a)
      PROVE  ref \notin References[sub]
  <2>1. sub \in Trees /\ Height(sub) \in Nat /\ Height(a) \in Nat /\ Height(sub) < Height(a)
    BY <1>4, TreeAssumption
  <2>2. sub \notin Bad
    BY <1>3, <1>4, <2>1
  <2>3. QED
    BY <1>5, <2>1, <2>2
<1>7. References[a] = ReadBy(References, a) /\ Formed(a)
  BY <1>4, ReadUnfolds, TreeAssumption
<1>8. CASE a.kind = "cell"
  <2>1. ref = a.ref
    BY <1>5, <1>7, <1>8 DEF ReadBy
  <2>2. a = Cell(Ref(a.ref.sheet, a.ref.col)) /\ OnGrid(a.ref)
    BY <1>7, <1>8 DEF Formed
  <2>3. a.ref = Ref(a.ref.sheet, a.ref.col)
    BY <2>2 DEF Cell, Ref
  <2>4. QED
    BY <1>5, <2>1, <2>2, <2>3 DEF OnGrid
<1>9. CASE a.kind = "range"
  <2>1. Expandable(a) /\ ref \in ToSet(Expand(a))
    BY <1>5, <1>7, <1>9 DEF ReadBy
  <2>2. a.first.col \in Columns /\ a.last.col \in Columns
    BY <1>7, <1>9 DEF Formed, OnGrid
  <2>3. PICK i \in 1 .. Width(a) : ref = Ref(a.first.sheet, a.first.col + i - 1)
    BY <2>1 DEF ToSet, Expand
  <2>4. a.first.col \in Int /\ a.last.col \in Int
    BY <2>2, TreeAssumption
  <2>5. a.first.col + i - 1 \in a.first.col .. a.last.col
    BY <2>4, <2>3 DEF Width
  <2>6. a.first.col + i - 1 \in Columns
    BY <2>2, <2>5, TreeAssumption
  <2>7. QED
    BY <1>5, <2>3, <2>6 DEF Ref
<1>10. CASE a.kind = "call"
  <2>1. PICK i \in DOMAIN a.args : ref \in References[a.args[i]]
    BY <1>5, <1>7, <1>10 DEF ReadBy, ReadInCall
  <2>2. a.args[i] \in Below(a)
    BY <1>4, <1>10, CallArguments
  <2>3. QED
    BY <1>6, <2>1, <2>2
<1>11. QED
  BY <1>5, <1>6, <1>7, <1>8, <1>9, <1>10 DEF ReadBy, Below, Formed

---------------------------------------------------------------------------
(* The value of a tree. *)

\* A formula is evaluated from the cells it reads, and from no other.
THEOREM ReadsDecide ==
    ASSUME NEW env, NEW other, NEW ast \in Trees,
           \A ref \in References[ast] : env[ref] = other[ref]
    PROVE  Evaluate(ast, env) = Evaluate(ast, other)
<1> DEFINE A == ValueUnder(env)
           B == ValueUnder(other)
           S == {a \in Trees : (\A ref \in References[a] : env[ref] = other[ref]) => A[a] = B[a]}
<1>1. ASSUME NEW a \in Trees, Below(a) \subseteq S
      PROVE  a \in S
  <2>1. SUFFICES ASSUME \A ref \in References[a] : env[ref] = other[ref]
                 PROVE  A[a] = B[a]
    OBVIOUS
  <2>2. \A sub \in Below(a) : A[sub] = B[sub]
    BY <1>1, <2>1, BelowIsRead
  <2>3. A[a] = ValueBy(A, a, env) /\ B[a] = ValueBy(B, a, other)
    BY ValueUnfolds
  <2>4. ValueBy(A, a, env) = ValueBy(B, a, env)
    BY <2>2, ValueLocal
  <2> HIDE DEF A, B
  <2>5. a.kind = "cell" => env[a.ref] = other[a.ref]
    BY <2>1, ReadUnfolds DEF ReadBy
  <2>6. a.kind = "range" /\ Expandable(a) => Cells(a, env) = Cells(a, other)
    BY <2>1, RangeIsRead DEF Cells
  <2>7. ValueBy(B, a, env) = ValueBy(B, a, other)
    BY <2>5, <2>6 DEF ValueBy
  <2>8. QED
    BY <2>3, <2>4, <2>7
<1> HIDE DEF S
<1>2. Trees \subseteq S
  BY <1>1, TreesInduct
<1>3. QED
  BY <1>2 DEF S, Evaluate

\* An answer is one value or the error of the data.
Answer(x) == Plain(x) \/ x = Data

\* The first error is one of the values.
LEMMA FirstErrorIsElement ==
    ASSUME NEW xs, NEW n \in Nat, DOMAIN xs = 1 .. n, \E i \in DOMAIN xs : IsError(xs[i])
    PROVE  \E i \in DOMAIN xs : FirstError(xs) = xs[i]
<1> DEFINE S == {i \in DOMAIN xs : IsError(xs[i])}
<1>1. S \subseteq Nat /\ S # {}
  OBVIOUS
<1>2. \E x \in S : \A y \in S : x <= y
  BY <1>1, LeastOf
<1>3. Min(S) \in S
  BY <1>2 DEF Min
<1>4. QED
  BY <1>3 DEF FirstError

\* An answer is one value unless it is an error.
LEMMA AnswerIsPlain ==
    ASSUME NEW x, Answer(x)
    PROVE  IsError(x) <=> ~Plain(x)
BY DEF Answer, Plain, IsError, Data

\* A number of numbers is an answer, if each of them is.
LEMMA NumbersAnswer ==
    ASSUME NEW xs, NEW n \in Nat, DOMAIN xs = 1 .. n, \A i \in DOMAIN xs : Answer(xs[i]),
           NEW result, (\A i \in DOMAIN xs : Plain(xs[i])) => Answer(result)
    PROVE  Answer(OfNumbers(xs, result))
<1>1. CASE \E i \in DOMAIN xs : IsError(xs[i])
  BY <1>1, FirstErrorIsElement DEF OfNumbers
<1>2. CASE ~ \E i \in DOMAIN xs : IsError(xs[i])
  <2>1. \A i \in DOMAIN xs : Plain(xs[i])
    BY <1>2, AnswerIsPlain
  <2>2. NoNumbers(xs) = Data
    BY <2>1 DEF NoNumbers, Plain
  <2>3. QED
    BY <1>2, <2>1, <2>2 DEF OfNumbers, Answer
<1>3. QED
  BY <1>1, <1>2

\* An operation on answers is an answer.
LEMMA CalculatedAnswer ==
    ASSUME NEW x, NEW y, NEW op \in Comparators \cup {"+", "-", "*", "/"}, Answer(x), Answer(y)
    PROVE  Answer(Calculated(x, op, y))
<1>1. DOMAIN <<x, y>> = 1 .. 2 /\ \A i \in DOMAIN <<x, y>> : Answer(<<x, y>>[i])
  OBVIOUS
<1>2. CASE IsError(x) \/ IsError(y)
  <2>1. \E i \in DOMAIN <<x, y>> : IsError(<<x, y>>[i])
    BY <1>2
  <2>2. QED
    BY <1>1, <1>2, <2>1, FirstErrorIsElement DEF Calculated
<1>3. CASE ~(IsError(x) \/ IsError(y)) /\ op \in Comparators
  <2>1. Plain(x) /\ Plain(y)
    BY <1>3, AnswerIsPlain
  <2>2. \E b : Compared(x, op, y) = Bool(b)
    BY <2>1 DEF Compared, Plain, Empty
  <2>3. QED
    BY <1>3, <2>2 DEF Calculated, Bool, Answer, Plain
<1>4. CASE ~(IsError(x) \/ IsError(y)) /\ op \notin Comparators
  <2> DEFINE r == CASE op = "+" -> Num(x.v + y.v)
                    [] op = "-" -> Num(x.v - y.v)
                    [] op = "*" -> Num(x.v * y.v)
                    [] op = "/" -> IF y.v = 0 THEN Data ELSE Num(x.v \div y.v)
  <2>1. op \in {"+", "-", "*", "/"}
    BY <1>4
  <2>2. Answer(r)
    BY <2>1 DEF Num, Answer, Plain
  <2>3. Calculated(x, op, y) = OfNumbers(<<x, y>>, r)
    BY <1>4 DEF Calculated
  <2> HIDE DEF r
  <2>4. QED
    BY <1>1, <2>2, <2>3, NumbersAnswer
<1>5. QED
  BY <1>2, <1>3, <1>4

\* A LOOKUP in the values of two ranges of the same length is an answer.
LEMMA LookedUpAnswer ==
    ASSUME NEW n \in Nat, NEW bounds, DOMAIN bounds = 1 .. n, NEW results, DOMAIN results = 1 .. n,
           \A i \in 1 .. n : Plain(bounds[i]) /\ Plain(results[i]),
           NEW x, Plain(x), Len(bounds) = n, Len(results) = n,
           \A i \in DOMAIN (<<x>> \o bounds) :
             (<<x>> \o bounds)[i] \in {x} \cup {bounds[j] : j \in 1 .. n},
           DOMAIN (<<x>> \o bounds) = 1 .. (n + 1)
    PROVE  Answer(LookedUp(x, bounds, results))
<1> DEFINE eligible == {i \in DOMAIN bounds : bounds[i].v <= x.v}
           ordered == \A i \in 1..(Len(bounds) - 1) : bounds[i].v <= bounds[i + 1].v
           result == IF ordered /\ eligible # {} THEN results[Max(eligible)] ELSE Data
<1>1. LookedUp(x, bounds, results) = OfNumbers(<<x>> \o bounds, result)
  BY DEF LookedUp
<1>2. Answer(result)
  <2>1. CASE ordered /\ eligible # {}
    <3>1. Max(eligible) \in eligible
      BY <2>1, MaxIsMember
    <3>2. Plain(results[Max(eligible)])
      BY <3>1
    <3>3. QED
      BY <2>1, <3>2 DEF Answer
  <2>2. CASE ~(ordered /\ eligible # {})
    BY <2>2 DEF Answer
  <2>3. QED
    BY <2>1, <2>2
<1> HIDE DEF result
<1>3. \A i \in DOMAIN (<<x>> \o bounds) : Answer((<<x>> \o bounds)[i])
  <2>1. TAKE i \in DOMAIN (<<x>> \o bounds)
  <2>2. Plain((<<x>> \o bounds)[i])
    OBVIOUS
  <2>3. QED
    BY <2>2 DEF Answer
<1>4. n + 1 \in Nat
  OBVIOUS
<1>5. Answer(OfNumbers(<<x>> \o bounds, result))
  BY <1>2, <1>3, <1>4, NumbersAnswer, Zenon
<1>6. QED
  BY <1>1, <1>5

\* A function of the first numbers is a sequence of its values.
LEMMA SequenceOf ==
    ASSUME NEW n \in Nat, NEW f, f = [i \in 1 .. n |-> f[i]],
           NEW V, \A i \in 1 .. n : f[i] \in V
    PROVE  f \in Seq(V) /\ Len(f) = n
<1>1. f \in [1 .. n -> V]
  OBVIOUS
<1>2. f \in Seq(V)
  BY <1>1
<1>3. Len(f) \in Nat /\ DOMAIN f = 1 .. Len(f) /\ DOMAIN f = 1 .. n
  BY <1>1, <1>2
<1>4. QED
  BY <1>2, <1>3

\* The values of the arguments of a call.
LEMMA ArgumentValues ==
    ASSUME NEW ast \in Trees, ast.kind = "call", NEW A, NEW xs,
           xs = [i \in DOMAIN ast.args |-> A[ast.args[i]]]
    PROVE  /\ Len(xs) = Len(ast.args) /\ DOMAIN xs = 1 .. Len(xs) /\ Len(xs) \in Nat
           /\ DOMAIN xs = DOMAIN ast.args
           /\ \A i \in DOMAIN xs : xs[i] = A[ast.args[i]]
<1> DEFINE n == Len(ast.args)
<1>1. n \in Nat /\ DOMAIN ast.args = 1 .. n
  BY CallArguments
<1> HIDE DEF n
<1>2. xs = [i \in 1 .. n |-> xs[i]] /\ \A i \in 1 .. n : xs[i] = A[ast.args[i]]
  BY <1>1
<1>3. \A i \in 1 .. n : xs[i] \in {xs[j] : j \in 1 .. n}
  OBVIOUS
<1>4. Len(xs) = n
  BY <1>1, <1>2, <1>3, SequenceOf
<1>5. QED
  BY <1>1, <1>2, <1>4 DEF n

\* The cells of a range, as a sequence.
LEMMA CellsOfRange ==
    ASSUME NEW range, NEW env, Width(range) \in Nat
    PROVE  /\ Cells(range, env) \in Seq({env[Expand(range)[i]] : i \in 1 .. Width(range)})
           /\ Len(Cells(range, env)) = Width(range)
           /\ DOMAIN Cells(range, env) = 1 .. Width(range)
           /\ \A i \in 1 .. Width(range) : Cells(range, env)[i] = env[Expand(range)[i]]
<1> DEFINE V == {env[Expand(range)[i]] : i \in 1 .. Width(range)}
           cells == Cells(range, env)
<1>1. /\ cells = [i \in 1 .. Width(range) |-> cells[i]]
      /\ \A i \in 1 .. Width(range) : cells[i] = env[Expand(range)[i]] /\ cells[i] \in V
  BY DEF Cells
<1> HIDE DEF V, cells
<1>2. cells \in Seq(V) /\ Len(cells) = Width(range)
  BY <1>1, SequenceOf
<1>3. QED
  BY <1>1, <1>2 DEF V, cells

\* The evaluation of a formula of the subset from values, each one value, gives one value
\* or an error of the data: the validation leaves no form that the evaluation refuses.
THEOREM SubsetAnswers ==
    ASSUME NEW env, NEW ast \in Trees, Scalar(ast),
           \A ref \in References[ast] : Plain(env[ref])
    PROVE  Answer(Evaluate(ast, env))
<1> DEFINE A == ValueUnder(env)
           S == {a \in Trees : Scalar(a) /\ (\A ref \in References[a] : Plain(env[ref]))
                                 => Answer(A[a])}
<1>1. ASSUME NEW a \in Trees, Below(a) \subseteq S, Scalar(a),
             \A ref \in References[a] : Plain(env[ref])
      PROVE  Answer(A[a])
  <2>1. \A sub \in Below(a) : Scalar(sub) => Answer(A[sub])
    BY <1>1, BelowIsRead
  <2>2. A[a] = ValueBy(A, a, env) /\ Formed(a)
    BY ValueUnfolds, TreeAssumption
  <2>3. ScalarForm(a)
    BY <1>1, ScalarForms
  <2>4. ASSUME NEW range \in Below(a), range.kind = "range", Expandable(range)
        PROVE  LET cells == Cells(range, env)
               IN  /\ A[range] = List(cells) /\ ~IsError(A[range])
                   /\ Width(range) \in Nat /\ Len(cells) = Width(range)
                   /\ DOMAIN cells = 1 .. Width(range)
                   /\ cells \in Seq({env[Expand(range)[i]] : i \in 1 .. Width(range)})
                   /\ \A i \in 1 .. Width(range) : Plain(cells[i])
    <3> DEFINE cells == Cells(range, env)
    <3>1. range \in Trees
      BY TreeAssumption
    <3>2. Width(range) \in Nat /\ \A i \in 1 .. Width(range) : Expand(range)[i] \in References[range]
      BY <2>4, <3>1, RangeIsRead
    <3>3. \A i \in 1 .. Width(range) : Plain(env[Expand(range)[i]])
      BY <1>1, <3>2, BelowIsRead
    <3>4. /\ Cells(range, env) \in Seq({env[Expand(range)[i]] : i \in 1 .. Width(range)})
          /\ Len(Cells(range, env)) = Width(range)
          /\ DOMAIN Cells(range, env) = 1 .. Width(range)
          /\ \A i \in 1 .. Width(range) : Cells(range, env)[i] = env[Expand(range)[i]]
      BY <3>2, CellsOfRange
    <3>5. A[range] = ListOf(cells)
      BY <2>4, <3>1, ValueUnfolds DEF ValueBy
    <3> HIDE DEF cells, A
    <3>6. \A i \in DOMAIN cells : Plain(cells[i])
      BY <3>3, <3>4 DEF cells
    <3>7. A[range] = List(cells)
      BY <3>5, <3>6 DEF ListOf, Plain, IsError
    <3>8. ~IsError(A[range])
      BY <3>7 DEF List, IsError
    <3>9. QED
      BY <3>2, <3>4, <3>6, <3>7, <3>8 DEF cells
  <2> HIDE DEF A
  <2>5. CASE a.kind = "literal"
    BY <2>2, <2>5 DEF ValueBy, Formed, Answer
  <2>6. CASE a.kind = "cell"
    <3>1. a.ref \in References[a]
      BY <2>6, ReadUnfolds DEF ReadBy
    <3>2. QED
      BY <1>1, <2>2, <2>6, <3>1 DEF ValueBy, Answer
  <2>7. CASE a.kind = "unary"
    <3>1. Answer(A[a.arg])
      BY <2>1, <2>3, <2>7 DEF ScalarForm, Below
    <3> DEFINE x == A[a.arg]
               r == IF a.op = "+" THEN Num(x.v) ELSE Num(-x.v)
    <3>2. Answer(r)
      BY DEF Num, Answer, Plain
    <3>3. DOMAIN <<x>> = 1 .. 1 /\ \A i \in DOMAIN <<x>> : <<x>>[i] = x
      OBVIOUS
    <3>4. A[a] = OfNumbers(<<x>>, r)
      BY <2>2, <2>7 DEF ValueBy
    <3> HIDE DEF r, x
    <3>5. QED
      BY <3>1, <3>2, <3>3, <3>4, NumbersAnswer DEF x
  <2>8. CASE a.kind = "binary"
    <3>1. Answer(A[a.left]) /\ Answer(A[a.right])
      BY <2>1, <2>3, <2>8 DEF ScalarForm, Below
    <3>2. a.op \in Comparators \cup {"+", "-", "*", "/"}
      BY <2>2, <2>8 DEF Formed
    <3>3. QED
      BY <2>2, <2>8, <3>1, <3>2, CalculatedAnswer DEF ValueBy
  <2>9. CASE a.kind = "call"
    <3> DEFINE args == a.args
               xs == [i \in DOMAIN args |-> A[args[i]]]
    <3>1. \A i \in DOMAIN args : args[i] \in Below(a)
      BY <2>9, CallArguments
    <3>2. Len(args) \in Arity(a.name) /\ ScalarCall(a)
      BY <2>3, <2>9 DEF ScalarForm
    <3>3. A[a] = EvaluateCall(A, a.name, args)
      BY <2>2, <2>9 DEF ValueBy
    <3>4. /\ Len(xs) = Len(args) /\ DOMAIN xs = 1 .. Len(xs) /\ Len(xs) \in Nat
          /\ DOMAIN xs = DOMAIN args
          /\ \A i \in DOMAIN xs : xs[i] = A[args[i]]
      BY <2>9, ArgumentValues
    <3>5. EvaluateCall(A, a.name, args) =
            CASE a.name = "IF" ->
                   IF Len(args) # 3 THEN Malformed
                   ELSE IF IsError(xs[1]) THEN xs[1] ELSE xs[IF Truthy(xs[1]) THEN 2 ELSE 3]
              [] a.name = "COUNTIF" ->
                   IF Len(args) = 2 /\ args[1].kind = "range" /\ args[2].kind # "range"
                   THEN Counted(xs[1], xs[2]) ELSE Malformed
              [] OTHER -> Applied(a.name, xs)
      BY DEF EvaluateCall
    <3> HIDE DEF xs
    <3>6. CASE a.name = "IF"
      <4>1. Len(args) = 3
        BY <3>2, <3>6 DEF Arity
      <4>2. \A i \in 1 .. 3 : Answer(xs[i])
        BY <2>1, <3>1, <3>2, <3>4, <3>6, <4>1 DEF ScalarCall
      <4>3. QED
        BY <3>3, <3>5, <3>6, <4>1, <4>2
    <3>7. CASE a.name \in {"ROUND", "AND", "OR", "MAX", "MIN"}
      <4>1. \A i \in DOMAIN xs : Answer(xs[i])
        BY <2>1, <3>1, <3>2, <3>4, <3>7 DEF ScalarCall
      <4>2. A[a] = Applied(a.name, xs)
        BY <3>3, <3>5, <3>7
      <4>3. Len(xs) > 0 /\ (a.name = "ROUND" => Len(xs) = 2)
        <5>1. CASE a.name = "ROUND"
          <6>1. Len(args) = 2
            BY <3>2, <5>1 DEF Arity
          <6>2. QED
            BY <3>4, <6>1
        <5>2. CASE a.name \in {"AND", "OR", "MAX", "MIN"}
          <6>1. Len(args) \in Nat \ {0}
            BY <3>2, <5>2 DEF Arity
          <6>2. QED
            BY <3>4, <5>2, <6>1
        <5>3. QED
          BY <3>7, <5>1, <5>2
      <4>4. CASE \E i \in DOMAIN xs : IsError(xs[i])
        <5>1. \E i \in DOMAIN xs : FirstError(xs) = xs[i]
          BY <3>4, <4>4, FirstErrorIsElement
        <5>2. Applied(a.name, xs) = FirstError(xs)
          BY <4>4 DEF Applied
        <5>3. QED
          BY <4>1, <4>2, <5>1, <5>2
      <4>5. CASE ~ \E i \in DOMAIN xs : IsError(xs[i])
        <5>1. ASSUME NEW r
              PROVE  Answer(OfNumbers(xs, Num(r)))
          <6>1. Answer(Num(r))
            BY DEF Num, Answer, Plain
          <6>2. QED
            BY <3>4, <4>1, <6>1, NumbersAnswer
        <5>2. \A b : Answer(Bool(b))
          BY DEF Bool, Answer, Plain
        <5>3. CASE a.name = "AND"
          BY <4>2, <4>5, <5>2, <5>3 DEF Applied
        <5>4. CASE a.name = "OR"
          BY <4>2, <4>5, <5>2, <5>4 DEF Applied
        <5>5. CASE a.name = "MAX"
          BY <4>2, <4>3, <4>5, <5>1, <5>5 DEF Applied
        <5>6. CASE a.name = "MIN"
          BY <4>2, <4>3, <4>5, <5>1, <5>6 DEF Applied
        <5>7. CASE a.name = "ROUND"
          BY <4>2, <4>3, <4>5, <5>1, <5>7 DEF Applied
        <5>8. QED
          BY <3>7, <5>3, <5>4, <5>5, <5>6, <5>7
      <4>6. QED
        BY <4>4, <4>5
    <3>8. CASE a.name = "LOOKUP"
      <4> DEFINE x == xs[1]
                 bounds == Cells(args[2], env)
                 results == Cells(args[3], env)
                 w == Width(args[2])
                 V == {env[Expand(args[2])[i]] : i \in 1 .. w}
      <4>1. Len(xs) = 3 /\ DOMAIN xs = 1 .. 3
        BY <3>2, <3>4, <3>8 DEF Arity
      <4>2. Answer(x)
        BY <2>1, <3>1, <3>2, <3>4, <3>8, <4>1 DEF ScalarCall
      <4>3. \A i \in 2 .. 3 : args[i] \in Below(a) /\ args[i].kind = "range" /\ Expandable(args[i])
        BY <3>1, <3>2, <3>4, <3>8, <4>1 DEF ScalarCall
      <4>4. 2 \in 2 .. 3 /\ 3 \in 2 .. 3 /\ Width(args[3]) = w
            /\ xs[2] = A[args[2]] /\ xs[3] = A[args[3]]
        BY <3>2, <3>4, <3>8, <4>1 DEF ScalarCall
      <4>5. /\ w \in Nat /\ Len(bounds) = w /\ Len(results) = w
            /\ DOMAIN bounds = 1 .. w /\ DOMAIN results = 1 .. w
            /\ bounds \in Seq(V)
            /\ \A i \in 1 .. w : Plain(bounds[i])
            /\ \A i \in 1 .. w : Plain(results[i])
            /\ xs[2] = List(bounds) /\ ~IsError(xs[2])
            /\ xs[3] = List(results) /\ ~IsError(xs[3])
        BY <2>4, <4>3, <4>4, Zenon
      <4>6. A[a] = Applied("LOOKUP", xs)
        BY <3>3, <3>5, <3>8
      <4> HIDE DEF bounds, results, w, V
      <4>7. CASE IsError(x)
        <5>1. PICK i \in 1 .. 3 : FirstError(xs) = xs[i] /\ IsError(xs[i])
          <6>1. DEFINE E == {i \in DOMAIN xs : IsError(xs[i])}
          <6>2. E \subseteq Nat /\ 1 \in E
            BY <4>1, <4>7
          <6>3. \E i \in E : \A j \in E : i <= j
            BY <6>2, LeastOf
          <6>4. Min(E) \in E
            BY <6>3 DEF Min
          <6>5. QED
            BY <4>1, <6>4 DEF FirstError
        <5>2. i = 1
          BY <4>5, <5>1
        <5>3. Applied("LOOKUP", xs) = FirstError(xs)
          BY <4>1, <4>7 DEF Applied
        <5>4. QED
          BY <4>2, <4>6, <5>1, <5>2, <5>3
      <4>8. CASE ~IsError(x)
        <5> DEFINE cat == <<x>> \o bounds
        <5>1. \A i \in DOMAIN cat : cat[i] \in {x} \cup {bounds[j] : j \in 1 .. w}
          BY <4>5
        <5>2. DOMAIN cat = 1 .. (w + 1)
          BY <4>5
        <5>3. \A i \in 1 .. w : Plain(bounds[i]) /\ Plain(results[i])
          BY <4>5
        <5>4. Plain(x)
          BY <4>2, <4>8, AnswerIsPlain
        <5> HIDE DEF x
        <5>5. Answer(LookedUp(x, bounds, results))
          BY <4>5, <5>1, <5>2, <5>3, <5>4, LookedUpAnswer, Zenon
        <5>6. ~ \E i \in DOMAIN xs : IsError(xs[i])
          BY <4>1, <4>5, <4>8 DEF x
        <5>7. /\ xs[2].t = "list" /\ xs[3].t = "list"
              /\ xs[2].cells = bounds /\ xs[3].cells = results
          BY <4>5 DEF List
        <5>8. Applied("LOOKUP", xs) = LookedUp(x, bounds, results)
          BY <4>1, <5>6, <5>7 DEF Applied, x
        <5>9. QED
          BY <4>6, <5>5, <5>8
      <4>9. QED
        BY <4>7, <4>8
    <3>9. CASE a.name = "COUNTIF"
      <4>1. Len(args) = 2 /\ DOMAIN xs = 1 .. 2
        BY <3>2, <3>4, <3>9 DEF Arity
      <4>2. args[1] \in Below(a) /\ args[1].kind = "range" /\ Expandable(args[1])
            /\ args[2].kind = "literal" /\ args[2] \in Below(a) /\ args[2] \in Trees
        BY <3>1, <3>2, <3>4, <3>9, <4>1, TreeAssumption DEF ScalarCall
      <4>3. ~IsError(xs[1])
        <5>1. ~IsError(A[args[1]])
          BY <2>4, <4>2, Zenon
        <5>2. QED
          BY <3>4, <4>1, <5>1
      <4>4. Plain(xs[2])
        <5>1. A[args[2]] = ValueBy(A, args[2], env) /\ Formed(args[2])
          BY <4>2, ValueUnfolds, TreeAssumption DEF A
        <5>2. QED
          BY <3>4, <4>1, <4>2, <5>1 DEF ValueBy, Formed
      <4>5. A[a] = Counted(xs[1], xs[2])
        BY <3>3, <3>5, <3>9, <4>1, <4>2
      <4>6. ~IsError(xs[2]) /\ xs[2].t # "list"
        BY <4>4 DEF Plain, IsError
      <4>7. \E n : Counted(xs[1], xs[2]) = Num(n)
        BY <4>3, <4>6 DEF Counted
      <4>8. QED
        BY <4>5, <4>7 DEF Num, Answer, Plain
    <3>10. QED
      BY <3>2, <3>6, <3>7, <3>8, <3>9 DEF ScalarCall
  <2>10. QED
    BY <2>3, <2>5, <2>6, <2>7, <2>8, <2>9 DEF ScalarForm
<1>2. ASSUME NEW a \in Trees, Below(a) \subseteq S
      PROVE  a \in S
  BY <1>1, <1>2
<1> HIDE DEF S
<1>3. Trees \subseteq S
  BY <1>2, TreesInduct
<1>4. QED
  BY <1>3 DEF S, Evaluate

---------------------------------------------------------------------------
(* The values of any formula, in the subset or not. *)

\* A value is made of the values V: it says of none that it is not evaluated yet, and what
\* it lists is among V.
Made(x, V) == x.t # "unresolved" /\ (x.t = "list" => x.cells \in Seq(V))
\* The values of V are no errors, and made of themselves.
Closed(V) == \A x \in V : ~IsError(x) /\ Made(x, V)

\* What the operators answer for themselves is made of any values.
LEMMA MadeAlone ==
    ASSUME NEW V
    PROVE  /\ Made(Data, V) /\ Made(Malformed, V)
           /\ \A n : Made(Num(n), V)
           /\ \A b : Made(Bool(b), V)
BY DEF Made, Data, Malformed, Num, Bool

\* A number of values is made of what they are made of.
LEMMA NumbersMade ==
    ASSUME NEW V, NEW xs, NEW n \in Nat, DOMAIN xs = 1 .. n, \A i \in DOMAIN xs : Made(xs[i], V),
           NEW result, Made(result, V)
    PROVE  Made(OfNumbers(xs, result), V)
<1>1. CASE \E i \in DOMAIN xs : IsError(xs[i])
  BY <1>1, FirstErrorIsElement DEF OfNumbers
<1>2. CASE ~ \E i \in DOMAIN xs : IsError(xs[i])
  BY <1>2, MadeAlone DEF OfNumbers, NoNumbers
<1>3. QED
  BY <1>1, <1>2

\* So is an operation on two values.
LEMMA CalculatedMade ==
    ASSUME NEW V, NEW x, NEW y, NEW op \in Comparators \cup {"+", "-", "*", "/"},
           Made(x, V), Made(y, V)
    PROVE  Made(Calculated(x, op, y), V)
<1>1. DOMAIN <<x, y>> = 1 .. 2 /\ \A i \in DOMAIN <<x, y>> : Made(<<x, y>>[i], V)
  OBVIOUS
<1>2. CASE IsError(x) \/ IsError(y)
  <2>1. \E i \in DOMAIN <<x, y>> : IsError(<<x, y>>[i])
    BY <1>2
  <2>2. QED
    BY <1>1, <1>2, <2>1, FirstErrorIsElement DEF Calculated
<1>3. CASE ~(IsError(x) \/ IsError(y)) /\ op \in Comparators
  <2>1. Compared(x, op, y) = Malformed \/ \E b : Compared(x, op, y) = Bool(b)
    BY DEF Compared
  <2>2. QED
    BY <1>3, <2>1, MadeAlone DEF Calculated
<1>4. CASE ~(IsError(x) \/ IsError(y)) /\ op \notin Comparators
  <2> DEFINE r == CASE op = "+" -> Num(x.v + y.v)
                    [] op = "-" -> Num(x.v - y.v)
                    [] op = "*" -> Num(x.v * y.v)
                    [] op = "/" -> IF y.v = 0 THEN Data ELSE Num(x.v \div y.v)
  <2>1. op \in {"+", "-", "*", "/"}
    BY <1>4
  <2>2. Made(r, V)
    BY <2>1, MadeAlone
  <2>3. Calculated(x, op, y) = OfNumbers(<<x, y>>, r)
    BY <1>4 DEF Calculated
  <2> HIDE DEF r
  <2>4. QED
    BY <1>1, <2>2, <2>3, NumbersMade
<1>5. QED
  BY <1>2, <1>3, <1>4

\* A LOOKUP answers with a result, or on its own.
LEMMA LookedUpMade ==
    ASSUME NEW V, Closed(V), NEW bounds \in Seq(V), NEW results \in Seq(V), NEW x, Made(x, V)
    PROVE  Made(LookedUp(x, bounds, results), V)
<1> DEFINE eligible == {i \in DOMAIN bounds : bounds[i].v <= x.v}
           ordered == \A i \in 1..(Len(bounds) - 1) : bounds[i].v <= bounds[i + 1].v
           result == IF ordered /\ eligible # {} THEN results[Max(eligible)] ELSE Data
           cat == <<x>> \o bounds
<1>1. LookedUp(x, bounds, results) =
        IF Len(bounds) # Len(results) THEN Malformed ELSE OfNumbers(cat, result)
  BY DEF LookedUp
<1>2. CASE Len(bounds) # Len(results)
  BY <1>1, <1>2, MadeAlone
<1>3. CASE Len(bounds) = Len(results)
  <2>1. Made(result, V)
    <3>1. CASE ordered /\ eligible # {}
      <4>1. Len(bounds) \in Nat /\ eligible \subseteq 1 .. Len(bounds) /\ eligible # {}
        BY <3>1
      <4> HIDE DEF eligible
      <4>2. Max(eligible) \in eligible
        BY <4>1, MaxIsMember
      <4>3. Max(eligible) \in 1 .. Len(results)
        BY <1>3, <4>1, <4>2
      <4>4. results[Max(eligible)] \in V
        BY <4>3
      <4>5. QED
        BY <3>1, <4>4 DEF Closed
    <3>2. CASE ~(ordered /\ eligible # {})
      BY <3>2, MadeAlone
    <3>3. QED
      BY <3>1, <3>2
  <2> HIDE DEF result
  <2>2. DOMAIN cat = 1 .. (Len(bounds) + 1) /\ Len(bounds) + 1 \in Nat
    OBVIOUS
  <2>3. \A i \in DOMAIN cat : cat[i] = x \/ cat[i] \in V
    OBVIOUS
  <2> HIDE DEF cat
  <2>4. \A i \in DOMAIN cat : Made(cat[i], V)
    BY <2>3 DEF Closed
  <2>5. Made(OfNumbers(cat, result), V)
    BY <2>1, <2>2, <2>4, NumbersMade, Zenon
  <2>6. QED
    BY <1>1, <1>3, <2>5
<1>4. QED
  BY <1>2, <1>3

\* So is what a function makes of its arguments.
LEMMA AppliedMade ==
    ASSUME NEW V, Closed(V), NEW xs, Len(xs) \in Nat, DOMAIN xs = 1 .. Len(xs),
           \A i \in DOMAIN xs : Made(xs[i], V), NEW name
    PROVE  Made(Applied(name, xs), V)
<1>1. CASE \E i \in DOMAIN xs : IsError(xs[i])
  <2>1. \E i \in DOMAIN xs : FirstError(xs) = xs[i]
    BY <1>1, FirstErrorIsElement
  <2>2. Applied(name, xs) = FirstError(xs)
    BY <1>1 DEF Applied
  <2>3. QED
    BY <2>1, <2>2
<1>2. CASE ~ \E i \in DOMAIN xs : IsError(xs[i])
  <2>1. \A r : Made(OfNumbers(xs, Num(r)), V)
    BY MadeAlone, NumbersMade
  <2>2. ASSUME Len(xs) = 3, xs[2].t = "list", xs[3].t = "list"
        PROVE  Made(LookedUp(xs[1], xs[2].cells, xs[3].cells), V)
    <3>1. Made(xs[1], V) /\ Made(xs[2], V) /\ Made(xs[3], V)
      BY <2>2
    <3>2. xs[2].cells \in Seq(V) /\ xs[3].cells \in Seq(V)
      BY <2>2, <3>1 DEF Made
    <3>3. QED
      BY <3>1, <3>2, LookedUpMade
  <2>3. CASE name = "AND"
    BY <1>2, <2>3, MadeAlone DEF Applied
  <2>4. CASE name = "OR"
    BY <1>2, <2>4, MadeAlone DEF Applied
  <2>5. CASE name = "MAX"
    BY <1>2, <2>1, <2>5, MadeAlone DEF Applied
  <2>6. CASE name = "MIN"
    BY <1>2, <2>1, <2>6, MadeAlone DEF Applied
  <2>7. CASE name = "ROUND"
    BY <1>2, <2>1, <2>7, MadeAlone DEF Applied
  <2>8. CASE name = "LOOKUP"
    BY <1>2, <2>2, <2>8, MadeAlone DEF Applied
  <2>9. CASE name \notin {"AND", "OR", "MAX", "MIN", "ROUND", "LOOKUP"}
    BY <1>2, <2>9, MadeAlone DEF Applied
  <2>10. QED
    BY <2>3, <2>4, <2>5, <2>6, <2>7, <2>8, <2>9
<1>3. QED
  BY <1>1, <1>2

\* A formula, in the subset or not, that is evaluated from values of V gives an error of
\* the data or of its form, or a value that lists nothing but values of V.
THEOREM EvaluationIsMade ==
    ASSUME NEW V, Closed(V), NEW env, NEW ast \in Trees,
           \A ref \in References[ast] : env[ref] \in V
    PROVE  Made(Evaluate(ast, env), V)
<1> DEFINE A == ValueUnder(env)
           S == {a \in Trees : (\A ref \in References[a] : env[ref] \in V) => Made(A[a], V)}
<1>1. ASSUME NEW a \in Trees, Below(a) \subseteq S, \A ref \in References[a] : env[ref] \in V
      PROVE  Made(A[a], V)
  <2>1. \A sub \in Below(a) : Made(A[sub], V)
    BY <1>1, BelowIsRead
  <2>2. A[a] = ValueBy(A, a, env) /\ Formed(a)
    BY ValueUnfolds, TreeAssumption
  <2> HIDE DEF A
  <2>3. CASE a.kind = "literal"
    BY <2>2, <2>3 DEF ValueBy, Formed, Plain, Made
  <2>4. CASE a.kind = "cell"
    <3>1. a.ref \in References[a]
      BY <2>4, ReadUnfolds DEF ReadBy
    <3>2. QED
      BY <1>1, <2>2, <2>4, <3>1 DEF ValueBy, Closed
  <2>5. CASE a.kind = "range"
    <3>1. CASE ~Expandable(a)
      BY <2>2, <2>5, <3>1, MadeAlone DEF ValueBy
    <3>2. CASE Expandable(a)
      <4>1. Width(a) \in Nat /\ \A i \in 1 .. Width(a) : env[Expand(a)[i]] \in V
        BY <1>1, <2>5, <3>2, RangeIsRead
      <4> DEFINE cells == Cells(a, env)
      <4>2. cells = [i \in 1 .. Width(a) |-> cells[i]] /\ \A i \in 1 .. Width(a) : cells[i] \in V
        BY <4>1 DEF Cells
      <4>3. A[a] = ListOf(cells)
        BY <2>2, <2>5, <3>2 DEF ValueBy
      <4> HIDE DEF cells
      <4>4. cells \in Seq(V)
        BY <4>1, <4>2, SequenceOf
      <4>5. \A i \in DOMAIN cells : ~IsError(cells[i])
        BY <4>2, <4>4 DEF Closed
      <4>6. A[a] = List(cells)
        BY <4>3, <4>5 DEF ListOf
      <4>7. QED
        BY <4>4, <4>6 DEF List, Made
    <3>3. QED
      BY <3>1, <3>2
  <2>6. CASE a.kind = "unary"
    <3>1. Made(A[a.arg], V)
      BY <2>1, <2>6 DEF Below
    <3> DEFINE x == A[a.arg]
               r == IF a.op = "+" THEN Num(x.v) ELSE Num(-x.v)
    <3>2. Made(r, V)
      BY MadeAlone
    <3>3. DOMAIN <<x>> = 1 .. 1 /\ \A i \in DOMAIN <<x>> : <<x>>[i] = x
      OBVIOUS
    <3>4. A[a] = OfNumbers(<<x>>, r)
      BY <2>2, <2>6 DEF ValueBy
    <3> HIDE DEF r, x
    <3>5. QED
      BY <3>1, <3>2, <3>3, <3>4, NumbersMade DEF x
  <2>7. CASE a.kind = "binary"
    <3>1. Made(A[a.left], V) /\ Made(A[a.right], V)
      BY <2>1, <2>7 DEF Below
    <3>2. a.op \in Comparators \cup {"+", "-", "*", "/"}
      BY <2>2, <2>7 DEF Formed
    <3>3. QED
      BY <2>2, <2>7, <3>1, <3>2, CalculatedMade DEF ValueBy
  <2>8. CASE a.kind = "call"
    <3> DEFINE args == a.args
               xs == [i \in DOMAIN args |-> A[args[i]]]
    <3>1. \A i \in DOMAIN args : args[i] \in Below(a)
      BY <2>8, CallArguments
    <3>2. /\ Len(xs) = Len(args) /\ DOMAIN xs = 1 .. Len(xs) /\ Len(xs) \in Nat
          /\ DOMAIN xs = DOMAIN args
          /\ \A i \in DOMAIN xs : xs[i] = A[args[i]]
      BY <2>8, ArgumentValues
    <3>3. A[a] = EvaluateCall(A, a.name, args)
      BY <2>2, <2>8 DEF ValueBy
    <3>4. EvaluateCall(A, a.name, args) =
            CASE a.name = "IF" ->
                   IF Len(args) # 3 THEN Malformed
                   ELSE IF IsError(xs[1]) THEN xs[1] ELSE xs[IF Truthy(xs[1]) THEN 2 ELSE 3]
              [] a.name = "COUNTIF" ->
                   IF Len(args) = 2 /\ args[1].kind = "range" /\ args[2].kind # "range"
                   THEN Counted(xs[1], xs[2]) ELSE Malformed
              [] OTHER -> Applied(a.name, xs)
      BY DEF EvaluateCall
    <3>5. \A i \in DOMAIN xs : Made(xs[i], V)
      BY <2>1, <3>1, <3>2
    <3> HIDE DEF xs
    <3>6. CASE a.name = "IF"
      <4>1. CASE Len(args) = 3
        <5>1. Made(xs[1], V) /\ Made(xs[2], V) /\ Made(xs[3], V)
          BY <3>2, <3>5, <4>1
        <5>2. QED
          BY <3>3, <3>4, <3>6, <4>1, <5>1
      <4>2. CASE Len(args) # 3
        BY <3>3, <3>4, <3>6, <4>2, MadeAlone
      <4>3. QED
        BY <4>1, <4>2
    <3>7. CASE a.name = "COUNTIF"
      <4>1. CASE Len(args) = 2
        <5> DEFINE x == xs[1]
                   y == xs[2]
        <5>1. Made(x, V) /\ Made(y, V)
          BY <3>2, <3>5, <4>1
        <5>2. A[a] \in {Malformed, Counted(x, y)}
          BY <3>3, <3>4, <3>7
        <5> HIDE DEF x, y
        <5>3. CASE IsError(x) \/ IsError(y)
          <6>1. DOMAIN <<x, y>> = 1 .. 2 /\ \A i \in DOMAIN <<x, y>> : Made(<<x, y>>[i], V)
            BY <5>1
          <6>2. \E i \in DOMAIN <<x, y>> : IsError(<<x, y>>[i])
            BY <5>3
          <6>3. Counted(x, y) = FirstError(<<x, y>>)
            BY <5>3 DEF Counted
          <6>4. Made(Counted(x, y), V)
            BY <6>1, <6>2, <6>3, FirstErrorIsElement
          <6>5. QED
            BY <5>2, <6>4, MadeAlone
        <5>4. CASE ~(IsError(x) \/ IsError(y))
          <6>1. Counted(x, y) = Malformed \/ \E n : Counted(x, y) = Num(n)
            BY <5>4 DEF Counted
          <6>2. QED
            BY <5>2, <6>1, MadeAlone
        <5>5. QED
          BY <5>3, <5>4
      <4>2. CASE Len(args) # 2
        BY <3>3, <3>4, <3>7, <4>2, MadeAlone
      <4>3. QED
        BY <4>1, <4>2
    <3>8. CASE a.name \notin {"IF", "COUNTIF"}
      <4>1. Made(Applied(a.name, xs), V)
        BY <3>2, <3>5, AppliedMade
      <4>2. QED
        BY <3>3, <3>4, <3>8, <4>1
    <3>9. QED
      BY <3>6, <3>7, <3>8
  <2>9. CASE a.kind \notin {"literal", "cell", "range", "unary", "binary", "call"}
    BY <2>2, <2>9, MadeAlone DEF ValueBy
  <2>10. QED
    BY <2>3, <2>4, <2>5, <2>6, <2>7, <2>8, <2>9
<1>2. ASSUME NEW a \in Trees, Below(a) \subseteq S
      PROVE  a \in S
  BY <1>1, <1>2
<1> HIDE DEF S
<1>3. Trees \subseteq S
  BY <1>2, TreesInduct
<1>4. QED
  BY <1>3 DEF S, Evaluate

---------------------------------------------------------------------------
(* The parser. *)

\* A sequence of whatever.
IsSeq(s) == \E S : s \in Seq(S)

\* The tokens of a text, with the end of it.
Tokens(ts) == IsSeq(ts) /\ Len(ts) > 0 /\ ts[Len(ts)] = Eof

\* A rule reads on from where it begins, and an expression that is read has a token.
Progress(ts, rule, i, r) ==
    /\ r.next \in i .. Len(ts)
    /\ rule \notin {"terms", "factors", "arguments"} /\ ~Stuck(r) => r.next > i

\* Two readings agree on what a rule reads from i on.
Agree(f, g, ts, rule, i) ==
    f[<<rule, i>>] = g[<<rule, i>>] /\ Progress(ts, rule, i, f[<<rule, i>>])

\* They agree on all that is read behind i.
AgreeBehind(f, g, ts, i) ==
    \A rule \in Rules, j \in 1 .. Len(ts) : j > i => Agree(f, g, ts, rule, j)

\* The tokens of a text have a last one, its end.
LEMMA TokensLength ==
    ASSUME NEW ts, Tokens(ts)
    PROVE  /\ Len(ts) \in Nat \ {0} /\ ts[Len(ts)].text = "eof" /\ ts[Len(ts)].kind = "eof"
           /\ DOMAIN ts = 1 .. Len(ts)
BY DEF Tokens, IsSeq, Eof

\* The rule of a comparison reads nothing but what the other rules read from there on.
LEMMA ComparisonLocal ==
    ASSUME NEW ts, Tokens(ts), NEW i \in 1 .. Len(ts), NEW f, NEW g,
           Agree(f, g, ts, "additive", i), AgreeBehind(f, g, ts, i)
    PROVE  /\ Comparison(f, ts, i) = Comparison(g, ts, i)
           /\ Progress(ts, "comparison", i, Comparison(f, ts, i))
<1> DEFINE left == f[<<"additive", i>>]
           right == f[<<"additive", left.next + 1>>]
<1>1. /\ Len(ts) \in Nat \ {0} /\ ts[Len(ts)].text = "eof"
  BY TokensLength
<1>2. left = g[<<"additive", i>>] /\ left.next \in i .. Len(ts) /\ (~Stuck(left) => left.next > i)
  BY DEF Agree, Progress
<1>3. CASE ~Stuck(left) /\ ts[left.next].text \in Comparators
  <2>1. left.next + 1 \in 1 .. Len(ts) /\ left.next + 1 > i
    BY <1>1, <1>2, <1>3 DEF Comparators
  <2>2. right = g[<<"additive", left.next + 1>>] /\ right.next \in (left.next + 1) .. Len(ts)
    BY <2>1 DEF AgreeBehind, Agree, Progress, Rules
  <2> DEFINE joined == Join(left.ast, [op |-> ts[left.next].text, ast |-> right.ast])
  <2>3. Comparison(f, ts, i) = Read(joined, right.next)
      /\ Comparison(g, ts, i) = Read(joined, right.next)
    BY <1>2, <1>3, <2>2 DEF Comparison
  <2>4. QED
    BY <1>1, <1>2, <2>1, <2>2, <2>3 DEF Progress, Read
<1>4. CASE ~(~Stuck(left) /\ ts[left.next].text \in Comparators)
  <2>1. Comparison(f, ts, i) = left /\ Comparison(g, ts, i) = left
    BY <1>2, <1>4 DEF Comparison
  <2>2. QED
    BY <1>2, <2>1 DEF Progress
<1>5. QED
  BY <1>3, <1>4

\* A loop reads nothing but what the other rules read further on.
LEMMA TermsLocal ==
    ASSUME NEW ts, Tokens(ts), NEW i \in 1 .. Len(ts), NEW f, NEW g, AgreeBehind(f, g, ts, i),
           NEW ops, "eof" \notin ops, NEW operand \in {"multiplicative", "unary"},
           NEW more \in {"terms", "factors"}
    PROVE  /\ Terms(f, ts, i, ops, operand, more) = Terms(g, ts, i, ops, operand, more)
           /\ Progress(ts, more, i, Terms(f, ts, i, ops, operand, more))
<1>1. /\ Len(ts) \in Nat \ {0} /\ ts[Len(ts)].text = "eof"
  BY TokensLength
<1>2. CASE ts[i].text \in ops
  <2> DEFINE right == f[<<operand, i + 1>>]
             rest == IF Stuck(right) THEN Read(<<>>, right.next) ELSE f[<<more, right.next>>]
             other == IF Stuck(right) THEN Read(<<>>, right.next) ELSE g[<<more, right.next>>]
  <2>1. i + 1 \in 1 .. Len(ts)
    BY <1>1, <1>2
  <2>2. right = g[<<operand, i + 1>>] /\ right.next \in (i + 1) .. Len(ts)
    BY <2>1 DEF AgreeBehind, Agree, Progress, Rules
  <2>3. rest = other /\ rest.next \in right.next .. Len(ts)
    <3>1. CASE Stuck(right)
      BY <1>1, <2>1, <2>2, <3>1 DEF Read
    <3>2. CASE ~Stuck(right)
      <4>1. right.next \in 1 .. Len(ts) /\ right.next > i
        BY <2>1, <2>2
      <4>2. QED
        BY <3>2, <4>1 DEF AgreeBehind, Agree, Progress, Rules
    <3>3. QED
      BY <3>1, <3>2
  <2> DEFINE terms == <<[op |-> ts[i].text, ast |-> right.ast]>> \o rest.ast
  <2>4. /\ Terms(f, ts, i, ops, operand, more) = Read(terms, rest.next)
        /\ Terms(g, ts, i, ops, operand, more) = Read(terms, rest.next)
    BY <1>2, <2>2, <2>3 DEF Terms
  <2>5. rest.next \in i .. Len(ts)
    BY <1>1, <2>1, <2>2, <2>3
  <2> HIDE DEF terms, rest
  <2>6. QED
    BY <2>4, <2>5 DEF Progress, Read
<1>3. CASE ts[i].text \notin ops
  BY <1>1, <1>3 DEF Terms, Progress, Read
<1>4. QED
  BY <1>2, <1>3

\* An operand and its loop are read from what the other rules read from there on.
LEMMA JoinedLocal ==
    ASSUME NEW ts, Tokens(ts), NEW i \in 1 .. Len(ts), NEW f, NEW g, AgreeBehind(f, g, ts, i),
           NEW operand \in {"multiplicative", "unary"}, NEW more \in {"terms", "factors"},
           NEW rule \in {"additive", "multiplicative"}, Agree(f, g, ts, operand, i)
    PROVE  /\ Joined(f, i, operand, more) = Joined(g, i, operand, more)
           /\ Progress(ts, rule, i, Joined(f, i, operand, more))
<1> DEFINE left == f[<<operand, i>>]
           terms == f[<<more, left.next>>]
<1>1. Len(ts) \in Nat \ {0}
  BY TokensLength
<1>2. left = g[<<operand, i>>] /\ left.next \in i .. Len(ts) /\ (~Stuck(left) => left.next > i)
  BY DEF Agree, Progress
<1>3. CASE Stuck(left)
  <2>1. Joined(f, i, operand, more) = left /\ Joined(g, i, operand, more) = left
    BY <1>2, <1>3 DEF Joined
  <2>2. QED
    BY <1>2, <1>3, <2>1 DEF Progress
<1>4. CASE ~Stuck(left)
  <2>1. left.next \in 1 .. Len(ts) /\ left.next > i
    BY <1>1, <1>2, <1>4
  <2>2. terms = g[<<more, left.next>>] /\ terms.next \in left.next .. Len(ts)
    BY <2>1 DEF AgreeBehind, Agree, Progress, Rules
  <2> DEFINE joined == FoldLeft(Join, left.ast, terms.ast)
  <2>3. /\ Joined(f, i, operand, more) = Read(joined, terms.next)
        /\ Joined(g, i, operand, more) = Read(joined, terms.next)
    BY <1>2, <1>4, <2>2 DEF Joined
  <2>4. terms.next \in i .. Len(ts) /\ terms.next > i
    BY <1>1, <2>1, <2>2
  <2> HIDE DEF joined
  <2>5. QED
    BY <2>3, <2>4 DEF Progress, Read
<1>5. QED
  BY <1>3, <1>4

\* A sign is read from what the other rules read from there on.
LEMMA UnaryLocal ==
    ASSUME NEW ts, Tokens(ts), NEW i \in 1 .. Len(ts), NEW f, NEW g,
           Agree(f, g, ts, "primary", i), AgreeBehind(f, g, ts, i)
    PROVE  /\ UnaryAt(f, ts, i) = UnaryAt(g, ts, i)
           /\ Progress(ts, "unary", i, UnaryAt(f, ts, i))
<1>1. Len(ts) \in Nat \ {0} /\ ts[Len(ts)].text = "eof"
  BY TokensLength
<1>2. CASE ts[i].text \in {"+", "-"}
  <2> DEFINE arg == f[<<"unary", i + 1>>]
  <2>1. i + 1 \in 1 .. Len(ts)
    BY <1>1, <1>2
  <2>2. arg = g[<<"unary", i + 1>>] /\ arg.next \in (i + 1) .. Len(ts)
    BY <2>1 DEF AgreeBehind, Agree, Progress, Rules
  <2>3. arg.next \in i .. Len(ts) /\ arg.next > i
    BY <1>1, <2>1, <2>2
  <2>4. CASE Stuck(arg)
    <3>1. UnaryAt(f, ts, i) = arg /\ UnaryAt(g, ts, i) = arg
      BY <1>2, <2>2, <2>4 DEF UnaryAt
    <3>2. QED
      BY <2>3, <3>1 DEF Progress
  <2>5. CASE ~Stuck(arg)
    <3> DEFINE r == Read(Unary(ts[i].text, arg.ast), arg.next)
    <3>1. UnaryAt(f, ts, i) = r /\ UnaryAt(g, ts, i) = r
      BY <1>2, <2>2, <2>5 DEF UnaryAt
    <3>2. QED
      BY <2>3, <3>1 DEF Progress, Read
  <2>6. QED
    BY <2>4, <2>5
<1>3. CASE ts[i].text \notin {"+", "-"}
  <2>1. UnaryAt(f, ts, i) = f[<<"primary", i>>] /\ UnaryAt(g, ts, i) = g[<<"primary", i>>]
    BY <1>3 DEF UnaryAt
  <2>2. QED
    BY <2>1 DEF Agree, Progress
<1>4. QED
  BY <1>2, <1>3

\* Arguments are read from what the other rules read from there on.
LEMMA ArgumentsLocal ==
    ASSUME NEW ts, Tokens(ts), NEW i \in 1 .. Len(ts), NEW f, NEW g,
           Agree(f, g, ts, "comparison", i), AgreeBehind(f, g, ts, i)
    PROVE  /\ Arguments(f, ts, i) = Arguments(g, ts, i)
           /\ Progress(ts, "arguments", i, Arguments(f, ts, i))
<1> DEFINE r == f[<<"comparison", i>>]
           rest == f[<<"arguments", r.next + 1>>]
<1>1. Len(ts) \in Nat \ {0} /\ ts[Len(ts)].text = "eof"
  BY TokensLength
<1>2. r = g[<<"comparison", i>>] /\ r.next \in i .. Len(ts) /\ (~Stuck(r) => r.next > i)
  BY DEF Agree, Progress
<1>3. CASE Stuck(r)
  <2>1. Arguments(f, ts, i) = Read(<<>>, Len(ts)) /\ Arguments(g, ts, i) = Read(<<>>, Len(ts))
    BY <1>2, <1>3 DEF Arguments
  <2>2. QED
    BY <1>1, <2>1 DEF Progress, Read
<1>4. CASE ~Stuck(r) /\ ts[r.next].text = ","
  <2>1. r.next + 1 \in 1 .. Len(ts) /\ r.next + 1 > i
    <3>1. r.next # Len(ts)
      BY <1>1, <1>4
    <3>2. QED
      BY <1>1, <1>2, <3>1
  <2>2. rest = g[<<"arguments", r.next + 1>>] /\ rest.next \in (r.next + 1) .. Len(ts)
    BY <2>1 DEF AgreeBehind, Agree, Progress, Rules
  <2>3. /\ Arguments(f, ts, i) = Read(<<r.ast>> \o rest.ast, rest.next)
        /\ Arguments(g, ts, i) = Read(<<r.ast>> \o rest.ast, rest.next)
    BY <1>2, <1>4, <2>2 DEF Arguments
  <2>4. rest.next \in i .. Len(ts)
    BY <1>1, <1>2, <2>1, <2>2
  <2> DEFINE args == <<r.ast>> \o rest.ast
  <2> HIDE DEF args, rest
  <2>5. Arguments(f, ts, i) = Read(args, rest.next) /\ Arguments(g, ts, i) = Read(args, rest.next)
    BY <2>3 DEF args
  <2>6. QED
    BY <2>4, <2>5 DEF Progress, Read
<1>5. CASE ~Stuck(r) /\ ts[r.next].text # ","
  <2>1. Arguments(f, ts, i) = Read(<<r.ast>>, r.next) /\ Arguments(g, ts, i) = Read(<<r.ast>>, r.next)
    BY <1>2, <1>5 DEF Arguments
  <2>2. QED
    BY <1>2, <2>1 DEF Progress, Read
<1>6. QED
  BY <1>3, <1>4, <1>5

\* A primary expression is read from what the other rules read further on.
LEMMA PrimaryLocal ==
    ASSUME NEW ts, Tokens(ts), NEW i \in 1 .. Len(ts), NEW f, NEW g, AgreeBehind(f, g, ts, i)
    PROVE  /\ Primary(f, ts, i) = Primary(g, ts, i)
           /\ Progress(ts, "primary", i, Primary(f, ts, i))
<1> DEFINE Fine(r) == Progress(ts, "primary", i, r)
<1>1. /\ Len(ts) \in Nat \ {0} /\ ts[Len(ts)].text = "eof" /\ ts[Len(ts)].kind = "eof"
  BY TokensLength
<1>2. ASSUME NEW ast, NEW j \in (i + 1) .. Len(ts)
      PROVE  Fine(Read(ast, j))
  BY <1>1, <1>2 DEF Progress, Read
<1>3. Fine(Read(Unparsed, i))
  BY <1>1 DEF Progress, Read, Stuck
<1>12. ts[i] = Op("(") => ts[i].kind = "op" /\ ts[i].text = "("
  BY DEF Op
<1>4. i # Len(ts) => i + 1 \in (i + 1) .. Len(ts) /\ i + 1 \in 1 .. Len(ts)
  BY <1>1
<1> HIDE DEF Fine
<1>5. CASE ts[i].kind = "atom" /\ ts[i].ast.kind = "literal"
  <2>1. Primary(f, ts, i) = Read(ts[i].ast, i + 1) /\ Primary(g, ts, i) = Read(ts[i].ast, i + 1)
    <3>1. ~CellAt(ts[i]) /\ ts[i].kind # "ident" /\ ts[i] # Op("(")
      BY <1>5, <1>12 DEF CellAt
    <3>2. QED
      BY <1>5, <3>1 DEF Primary
  <2>2. i # Len(ts)
    BY <1>1, <1>5
  <2>3. QED
    BY <1>2, <1>4, <2>1, <2>2 DEF Fine
<1>6. CASE CellAt(ts[i]) /\ ts[i + 1].text # ":"
  <2>1. ts[i].kind = "atom" /\ ts[i].ast.kind = "cell" /\ ts[i] # Op("(")
    BY <1>6, <1>12 DEF CellAt
  <2>2. Primary(f, ts, i) = Read(ts[i].ast, i + 1) /\ Primary(g, ts, i) = Read(ts[i].ast, i + 1)
    BY <1>6, <2>1 DEF Primary
  <2>3. i # Len(ts)
    BY <1>1, <2>1
  <2>4. QED
    BY <1>2, <1>4, <2>2, <2>3 DEF Fine
<1>7. CASE CellAt(ts[i]) /\ ts[i + 1].text = ":"
  <2> DEFINE range == Range2(ts[i].ast.ref, Inherited(ts[i].ast.ref, ts[i + 2].ast.ref))
             r == IF CellAt(ts[i + 2]) THEN Read(range, i + 3) ELSE Read(Unparsed, i)
  <2>1. ts[i].kind = "atom" /\ ts[i].ast.kind = "cell" /\ ts[i] # Op("(")
    BY <1>7, <1>12 DEF CellAt
  <2>2. Primary(f, ts, i) = r /\ Primary(g, ts, i) = r
    BY <1>7, <2>1 DEF Primary
  <2>3. i # Len(ts) /\ i + 1 # Len(ts)
    BY <1>1, <1>7, <2>1
  <2>4. CellAt(ts[i + 2]) => i + 2 # Len(ts)
    BY <1>1 DEF CellAt
  <2>5. CellAt(ts[i + 2]) => i + 3 \in (i + 1) .. Len(ts)
    BY <1>1, <2>3, <2>4
  <2> HIDE DEF range
  <2>6. Fine(r)
    BY <1>2, <1>3, <2>5
  <2>7. QED
    BY <2>2, <2>6 DEF Fine
<1>8. CASE ts[i].kind = "ident"
  <2>1. ts[i].kind # "atom" /\ ~CellAt(ts[i]) /\ ts[i] # Op("(")
    BY <1>8, <1>12 DEF CellAt
  <2>2. CASE ts[i + 1].text # "("
    <3>1. Primary(f, ts, i) = Read(Unparsed, i) /\ Primary(g, ts, i) = Read(Unparsed, i)
      BY <1>8, <2>1, <2>2 DEF Primary
    <3>2. QED
      BY <1>3, <3>1 DEF Fine
  <2>3. CASE ts[i + 1].text = "("
    <3> DEFINE r == IF ts[i + 2].text = ")" THEN Read(<<>>, i + 2) ELSE f[<<"arguments", i + 2>>]
               other == IF ts[i + 2].text = ")" THEN Read(<<>>, i + 2) ELSE g[<<"arguments", i + 2>>]
               all == IF ts[r.next].text = ")" THEN Read(Call(ts[i].text, r.ast), r.next + 1)
                      ELSE Read(Unparsed, i)
    <3>1. i # Len(ts) /\ i + 1 # Len(ts)
      BY <1>1, <1>8, <2>3
    <3>2. i + 2 \in 1 .. Len(ts) /\ i + 2 > i
      BY <1>1, <3>1
    <3>3. r = other /\ r.next \in (i + 2) .. Len(ts)
      <4>1. /\ f[<<"arguments", i + 2>>] = g[<<"arguments", i + 2>>]
            /\ f[<<"arguments", i + 2>>].next \in (i + 2) .. Len(ts)
        BY <3>2 DEF AgreeBehind, Agree, Progress, Rules
      <4>2. CASE ts[i + 2].text = ")"
        BY <1>1, <3>2, <4>2 DEF Read
      <4>3. CASE ts[i + 2].text # ")"
        BY <4>1, <4>3
      <4>4. QED
        BY <4>2, <4>3
    <3>4. Primary(f, ts, i) = all
      BY <1>8, <2>1, <2>3 DEF Primary
    <3>5. Primary(g, ts, i) = IF ts[other.next].text = ")"
                              THEN Read(Call(ts[i].text, other.ast), other.next + 1)
                              ELSE Read(Unparsed, i)
      BY <1>8, <2>1, <2>3 DEF Primary
    <3> HIDE DEF r, other
    <3>6. ts[r.next].text = ")" => r.next # Len(ts)
      BY <1>1
    <3>7. ts[r.next].text = ")" => r.next + 1 \in (i + 1) .. Len(ts)
      BY <1>1, <3>2, <3>3, <3>6
    <3>8. Fine(all)
      BY <1>2, <1>3, <3>7
    <3>9. QED
      BY <3>3, <3>4, <3>5, <3>8 DEF Fine
  <2>4. QED
    BY <2>2, <2>3
<1>9. CASE /\ ~(ts[i].kind = "atom" /\ ts[i].ast.kind = "literal") /\ ~CellAt(ts[i])
           /\ ts[i].kind # "ident" /\ ts[i] = Op("(")
  <2> DEFINE r == f[<<"comparison", i + 1>>]
             all == IF ~Stuck(r) /\ ts[r.next].text = ")" THEN Read(r.ast, r.next + 1)
                    ELSE Read(Unparsed, i)
  <2>2. i + 1 \in 1 .. Len(ts) /\ i + 1 > i
    <3>1. i # Len(ts)
      BY <1>1, <1>9, <1>12
    <3>2. QED
      BY <1>1, <3>1
  <2>3. r = g[<<"comparison", i + 1>>] /\ r.next \in (i + 1) .. Len(ts)
    BY <2>2 DEF AgreeBehind, Agree, Progress, Rules
  <2>4. Primary(f, ts, i) = all /\ Primary(g, ts, i) = all
    BY <1>9, <2>3 DEF Primary
  <2> HIDE DEF r
  <2>5. ts[r.next].text = ")" => r.next # Len(ts)
    BY <1>1
  <2>6. ts[r.next].text = ")" => r.next + 1 \in (i + 1) .. Len(ts)
    BY <1>1, <2>2, <2>3, <2>5
  <2>7. Fine(all)
    BY <1>2, <1>3, <2>6
  <2>8. QED
    BY <2>4, <2>7 DEF Fine
<1>10. CASE /\ ~(ts[i].kind = "atom" /\ ts[i].ast.kind = "literal") /\ ~CellAt(ts[i])
            /\ ts[i].kind # "ident" /\ ts[i] # Op("(")
  <2>1. Primary(f, ts, i) = Read(Unparsed, i) /\ Primary(g, ts, i) = Read(Unparsed, i)
    BY <1>10 DEF Primary
  <2>2. QED
    BY <1>3, <2>1 DEF Fine
<1>11. QED
  BY <1>5, <1>6, <1>7, <1>8, <1>9, <1>10

---------------------------------------------------------------------------
(* The parser is what its rules say. *)

\* Where a rule may read.
Places(ts) == Rules \X (1 .. Len(ts))

\* A rule reads what begins further right, and at one place a rule of a lower level.
Level(rule) ==
    CASE rule \in {"terms", "factors", "primary"} -> 1
      [] rule = "unary" -> 2
      [] rule = "multiplicative" -> 3
      [] rule = "additive" -> 4
      [] rule = "comparison" -> 5
      [] rule = "arguments" -> 6
\* What a reading still has before it.
Rank(ts, at) == 8 * (Len(ts) - at[2]) + Level(at[1])

\* There is no reading with less than nothing before it.
LEMMA RankIsNatural ==
    ASSUME NEW ts, Tokens(ts), NEW at \in Places(ts)
    PROVE  Rank(ts, at) \in Nat
<1>1. Len(ts) \in Nat \ {0} /\ at[1] \in Rules /\ at[2] \in 1 .. Len(ts)
  BY TokensLength DEF Places
<1>2. Level(at[1]) \in 1 .. 6
  BY <1>1 DEF Level, Rules
<1>3. QED
  BY <1>1, <1>2 DEF Rank

\* What a rule reads depends on what the rules of a lower rank read.
LEMMA RuleLocal ==
    ASSUME NEW ts, Tokens(ts), NEW at \in Places(ts), NEW f, NEW g,
           \A b \in Places(ts) : Rank(ts, b) < Rank(ts, at) => Agree(f, g, ts, b[1], b[2])
    PROVE  /\ ReadRule(f, ts, at[1], at[2]) = ReadRule(g, ts, at[1], at[2])
           /\ Progress(ts, at[1], at[2], ReadRule(f, ts, at[1], at[2]))
<1> DEFINE rule == at[1]
           i == at[2]
<1>1. Len(ts) \in Nat \ {0} /\ rule \in Rules /\ i \in 1 .. Len(ts) /\ at = <<rule, i>>
  BY TokensLength DEF Places
<1>2. "eof" \notin {"+", "-"} /\ "eof" \notin {"*", "/"}
  OBVIOUS
<1> HIDE DEF rule, i
<1>3. ASSUME NEW lower \in Rules, NEW j \in 1 .. Len(ts),
             (j > i) \/ (j = i /\ Level(lower) < Level(rule))
      PROVE  Agree(f, g, ts, lower, j)
  <2>1. <<lower, j>> \in Places(ts) /\ <<lower, j>>[1] = lower /\ <<lower, j>>[2] = j
    BY DEF Places
  <2>2. Level(lower) \in 1 .. 6 /\ Level(rule) \in 1 .. 6
    BY <1>1 DEF Level, Rules
  <2>3. Rank(ts, <<lower, j>>) < Rank(ts, at)
    <3>1. /\ Rank(ts, <<lower, j>>) = 8 * (Len(ts) - j) + Level(lower)
          /\ Rank(ts, at) = 8 * (Len(ts) - i) + Level(rule)
      BY <2>1 DEF Rank, rule, i
    <3> DEFINE l == Level(lower)
               m == Level(rule)
               n == Len(ts)
    <3>2. l \in 1 .. 6 /\ m \in 1 .. 6 /\ n \in Nat /\ i \in Int /\ j \in Int
        /\ ((j > i) \/ (j = i /\ l < m))
      BY <1>1, <1>3, <2>2
    <3> HIDE DEF l, m, n
    <3>3. 8 * (n - j) + l < 8 * (n - i) + m
      BY <3>2
    <3>4. QED
      BY <3>1, <3>3 DEF l, m, n
  <2>4. QED
    BY <2>1, <2>3
<1>4. AgreeBehind(f, g, ts, i)
  <2>1. ASSUME NEW lower \in Rules, NEW j \in 1 .. Len(ts), j > i
        PROVE  Agree(f, g, ts, lower, j)
    <3>1. (j > i) \/ (j = i /\ Level(lower) < Level(rule))
      BY <2>1
    <3>2. QED
      BY <1>3, <3>1, Zenon
  <2>2. QED
    BY <2>1 DEF AgreeBehind
<1>5. CASE rule = "comparison"
  <2>1. Agree(f, g, ts, "additive", i)
    BY <1>1, <1>3, <1>5 DEF Level, Rules
  <2>2. ReadRule(f, ts, rule, i) = Comparison(f, ts, i)
      /\ ReadRule(g, ts, rule, i) = Comparison(g, ts, i)
    BY <1>5 DEF ReadRule
  <2>3. QED
    BY <1>1, <1>4, <1>5, <2>1, <2>2, ComparisonLocal DEF rule, i
<1>6. CASE rule = "additive"
  <2>1. Agree(f, g, ts, "multiplicative", i)
    BY <1>1, <1>3, <1>6 DEF Level, Rules
  <2>2. /\ ReadRule(f, ts, rule, i) = Joined(f, i, "multiplicative", "terms")
        /\ ReadRule(g, ts, rule, i) = Joined(g, i, "multiplicative", "terms")
    BY <1>6 DEF ReadRule
  <2>3. QED
    BY <1>1, <1>4, <1>6, <2>1, <2>2, JoinedLocal DEF rule, i
<1>7. CASE rule = "multiplicative"
  <2>1. Agree(f, g, ts, "unary", i)
    BY <1>1, <1>3, <1>7 DEF Level, Rules
  <2>2. /\ ReadRule(f, ts, rule, i) = Joined(f, i, "unary", "factors")
        /\ ReadRule(g, ts, rule, i) = Joined(g, i, "unary", "factors")
    BY <1>7 DEF ReadRule
  <2>3. QED
    BY <1>1, <1>4, <1>7, <2>1, <2>2, JoinedLocal DEF rule, i
<1>8. CASE rule = "terms"
  <2>1. /\ ReadRule(f, ts, rule, i) = Terms(f, ts, i, {"+", "-"}, "multiplicative", "terms")
        /\ ReadRule(g, ts, rule, i) = Terms(g, ts, i, {"+", "-"}, "multiplicative", "terms")
    BY <1>8 DEF ReadRule
  <2>2. QED
    BY <1>1, <1>2, <1>4, <1>8, <2>1, TermsLocal DEF rule, i
<1>9. CASE rule = "factors"
  <2>1. /\ ReadRule(f, ts, rule, i) = Terms(f, ts, i, {"*", "/"}, "unary", "factors")
        /\ ReadRule(g, ts, rule, i) = Terms(g, ts, i, {"*", "/"}, "unary", "factors")
    BY <1>9 DEF ReadRule
  <2>2. QED
    BY <1>1, <1>2, <1>4, <1>9, <2>1, TermsLocal DEF rule, i
<1>10. CASE rule = "unary"
  <2>1. Agree(f, g, ts, "primary", i)
    BY <1>1, <1>3, <1>10 DEF Level, Rules
  <2>2. ReadRule(f, ts, rule, i) = UnaryAt(f, ts, i) /\ ReadRule(g, ts, rule, i) = UnaryAt(g, ts, i)
    BY <1>10 DEF ReadRule
  <2>3. QED
    BY <1>1, <1>4, <1>10, <2>1, <2>2, UnaryLocal DEF rule, i
<1>11. CASE rule = "primary"
  <2>1. ReadRule(f, ts, rule, i) = Primary(f, ts, i) /\ ReadRule(g, ts, rule, i) = Primary(g, ts, i)
    BY <1>11 DEF ReadRule
  <2>2. QED
    BY <1>1, <1>4, <1>11, <2>1, PrimaryLocal DEF rule, i
<1>12. CASE rule = "arguments"
  <2>1. Agree(f, g, ts, "comparison", i)
    BY <1>1, <1>3, <1>12 DEF Level, Rules
  <2>2. ReadRule(f, ts, rule, i) = Arguments(f, ts, i)
      /\ ReadRule(g, ts, rule, i) = Arguments(g, ts, i)
    BY <1>12 DEF ReadRule
  <2>3. QED
    BY <1>1, <1>4, <1>12, <2>1, <2>2, ArgumentsLocal DEF rule, i
<1>13. QED
  BY <1>1, <1>5, <1>6, <1>7, <1>8, <1>9, <1>10, <1>11, <1>12 DEF Rules

\* Every rule reads what it says from what the other rules read, and reads on.
LEMMA ReadingUnfolds ==
    ASSUME NEW ts, Tokens(ts)
    PROVE  \A at \in Places(ts) :
             /\ Reading(ts)[at] = ReadRule(Reading(ts), ts, at[1], at[2])
             /\ Progress(ts, at[1], at[2], Reading(ts)[at])
<1> DEFINE By(f, at) == ReadRule(f, ts, at[1], at[2])
           Fine(f, at) == f[at] = By(f, at) /\ Progress(ts, at[1], at[2], f[at])
           Solves(f, n) == \A at \in Places(ts) : Rank(ts, at) < n => Fine(f, at)
           Is(f) == f = [at \in Places(ts) |-> By(f, at)]
           Unsolved == {n \in Nat : ~ \E f : Solves(f, n)}
           First(at) == CHOOSE f : Solves(f, Rank(ts, at) + 1)
           All == [at \in Places(ts) |-> First(at)[at]]
<1>1. ASSUME NEW at \in Places(ts)
      PROVE  Rank(ts, at) \in Nat /\ at = <<at[1], at[2]>>
  <2>1. at = <<at[1], at[2]>>
    BY DEF Places
  <2>2. QED
    BY <2>1, RankIsNatural
<1>2. ASSUME NEW at \in Places(ts), NEW f, NEW g,
             \A b \in Places(ts) : Rank(ts, b) < Rank(ts, at) =>
                 f[b] = g[b] /\ Progress(ts, b[1], b[2], f[b])
      PROVE  By(f, at) = By(g, at) /\ Progress(ts, at[1], at[2], By(f, at))
  <2>1. ASSUME NEW b \in Places(ts), Rank(ts, b) < Rank(ts, at)
        PROVE  Agree(f, g, ts, b[1], b[2])
    <3>1. <<b[1], b[2]>> = b
      BY <1>1
    <3>2. f[b] = g[b] /\ Progress(ts, b[1], b[2], f[b])
      BY <1>2, <2>1
    <3>3. QED
      BY <3>1, <3>2 DEF Agree
  <2>2. QED
    BY <2>1, RuleLocal
<1> HIDE DEF By
<1>3. ASSUME NEW f, NEW g, NEW n \in Nat, NEW m \in Nat, Solves(f, n), Solves(g, m)
      PROVE  \A at \in Places(ts) : Rank(ts, at) < n /\ Rank(ts, at) < m => f[at] = g[at]
  <2> DEFINE Differ == {at \in Places(ts) : Rank(ts, at) < n /\ Rank(ts, at) < m /\ f[at] # g[at]}
             Ranks == {Rank(ts, at) : at \in Differ}
  <2>1. SUFFICES ASSUME Differ # {}
                 PROVE  FALSE
    OBVIOUS
  <2>2. Ranks \subseteq Nat /\ Ranks # {}
    BY <1>1, <2>1
  <2>3. PICK h \in Ranks : \A k \in Ranks : h <= k
    BY <2>2, LeastOf
  <2>4. PICK at \in Differ : h = Rank(ts, at)
    BY <2>3
  <2>5. ASSUME NEW b \in Places(ts), Rank(ts, b) < Rank(ts, at)
        PROVE  f[b] = g[b] /\ Progress(ts, b[1], b[2], f[b])
    <3>1. Rank(ts, b) \in Nat /\ h \in Nat /\ Rank(ts, b) < h /\ Rank(ts, b) < n /\ Rank(ts, b) < m
      BY <1>1, <2>4, <2>5
    <3>2. b \notin Differ
      BY <2>3, <3>1
    <3>3. QED
      BY <1>3, <3>1, <3>2
  <2>6. By(f, at) = By(g, at)
    BY <1>2, <2>5
  <2>7. QED
    BY <1>3, <2>4, <2>6
<1>4. ASSUME NEW n \in Nat, NEW f, Solves(f, n)
      PROVE  \E g : Solves(g, n + 1)
  <2> DEFINE g == [at \in Places(ts) |-> By(f, at)]
  <2>1. ASSUME NEW at \in Places(ts), Rank(ts, at) < n + 1
        PROVE  Fine(g, at)
    <3>1. ASSUME NEW b \in Places(ts), Rank(ts, b) < Rank(ts, at)
          PROVE  f[b] = g[b] /\ Progress(ts, b[1], b[2], f[b])
      <4>1. Rank(ts, b) < n
        BY <1>1, <2>1, <3>1
      <4>2. QED
        BY <1>4, <4>1
    <3>2. By(f, at) = By(g, at) /\ Progress(ts, at[1], at[2], By(f, at))
      BY <1>2, <3>1
    <3>3. g[at] = By(f, at)
      OBVIOUS
    <3> HIDE DEF g
    <3>4. QED
      BY <3>2, <3>3
  <2>2. Solves(g, n + 1)
    BY <2>1
  <2>3. QED
    BY <2>2
<1>5. Unsolved = {}
  <2>1. SUFFICES ASSUME Unsolved # {}
                 PROVE  FALSE
    OBVIOUS
  <2>2. PICK n \in Unsolved : \A m \in Unsolved : n <= m
    BY <2>1, LeastOf
  <2>3. CASE n = 0
    <3>1. Solves(<<>>, 0)
      BY <1>1
    <3>2. QED
      BY <2>2, <2>3, <3>1
  <2>4. CASE n # 0
    <3>1. n - 1 \in Nat /\ n - 1 \notin Unsolved /\ (n - 1) + 1 = n
      BY <2>2, <2>4
    <3> HIDE DEF Solves
    <3>2. PICK f : Solves(f, n - 1)
      BY <3>1
    <3>3. \E g : Solves(g, n)
      BY <1>4, <3>1, <3>2
    <3>4. QED
      BY <2>2, <3>3
  <2>5. QED
    BY <2>3, <2>4
<1>6. ASSUME NEW at \in Places(ts)
      PROVE  Solves(First(at), Rank(ts, at) + 1)
  <2>1. Rank(ts, at) + 1 \in Nat
    BY <1>1
  <2> HIDE DEF Solves
  <2>2. \E f : Solves(f, Rank(ts, at) + 1)
    BY <1>5, <2>1
  <2>3. QED
    BY <2>2
<1>7. ASSUME NEW at \in Places(ts)
      PROVE  Fine(All, at)
  <2> DEFINE f == First(at)
  <2>1. Rank(ts, at) \in Nat /\ Solves(f, Rank(ts, at) + 1)
    BY <1>1, <1>6
  <2>2. Fine(f, at)
    BY <2>1
  <2>3. ASSUME NEW b \in Places(ts), Rank(ts, b) < Rank(ts, at)
        PROVE  f[b] = All[b] /\ Progress(ts, b[1], b[2], f[b])
    <3>1. Rank(ts, b) \in Nat /\ Solves(First(b), Rank(ts, b) + 1)
      BY <1>1, <1>6
    <3>2. Progress(ts, b[1], b[2], f[b])
      <4>1. Rank(ts, b) < Rank(ts, at) + 1
        BY <2>1, <2>3, <3>1
      <4> HIDE DEF f
      <4>2. QED
        BY <2>1, <4>1
    <3> DEFINE a == First(b)
    <3> HIDE DEF f, a, Solves, First
    <3>3. /\ Rank(ts, at) + 1 \in Nat /\ Rank(ts, b) + 1 \in Nat
          /\ Rank(ts, b) < Rank(ts, at) + 1 /\ Rank(ts, b) < Rank(ts, b) + 1
      BY <2>1, <2>3, <3>1
    <3>4. f[b] = First(b)[b]
      BY <1>3, <2>1, <3>1, <3>3
    <3>5. QED
      BY <3>2, <3>4
  <2> HIDE DEF f, First, Solves
  <2>4. By(f, at) = By(All, at)
    BY <1>2, <2>3
  <2>5. All[at] = f[at]
    BY DEF f
  <2> HIDE DEF All
  <2>6. QED
    BY <2>2, <2>4, <2>5
<1> HIDE DEF First, Solves
<1>8. Is(All)
  <2>1. [at \in Places(ts) |-> All[at]] = [at \in Places(ts) |-> By(All, at)]
    BY <1>7
  <2>2. QED
    BY <2>1
<1> HIDE DEF All
<1>9. Reading(ts) = CHOOSE f : Is(f)
  BY DEF Reading, By, Places
<1>10. Is(Reading(ts))
  BY <1>8, <1>9
<1>11. \A at \in Places(ts) : Reading(ts)[at] = By(Reading(ts), at)
  BY <1>10
<1>12. ASSUME NEW at \in Places(ts), ~Progress(ts, at[1], at[2], Reading(ts)[at])
       PROVE  FALSE
  <2> DEFINE Lost == {b \in Places(ts) : ~Progress(ts, b[1], b[2], Reading(ts)[b])}
             Ranks == {Rank(ts, b) : b \in Lost}
  <2>1. Ranks \subseteq Nat /\ Ranks # {}
    BY <1>1, <1>12
  <2>2. PICK h \in Ranks : \A k \in Ranks : h <= k
    BY <2>1, LeastOf
  <2>3. PICK b \in Lost : h = Rank(ts, b)
    BY <2>2
  <2>4. ASSUME NEW c \in Places(ts), Rank(ts, c) < Rank(ts, b)
        PROVE  Progress(ts, c[1], c[2], Reading(ts)[c])
    <3>1. Rank(ts, c) \in Nat /\ h \in Nat /\ Rank(ts, c) < h
      BY <1>1, <2>3, <2>4
    <3>2. c \notin Lost
      BY <2>2, <3>1
    <3>3. QED
      BY <3>2
  <2>5. Progress(ts, b[1], b[2], By(Reading(ts), b))
    BY <1>2, <2>4
  <2>6. QED
    BY <1>11, <2>3, <2>5
<1>13. QED
  BY <1>11, <1>12 DEF By

---------------------------------------------------------------------------
(* The loops of the parser. *)

\* Nothing is joined when no term follows.
LEMMA JoinNone ==
    ASSUME NEW left
    PROVE  FoldLeft(Join, left, <<>>) = left
<1> DEFINE Is(f) == f = [s \in SUBSET (DOMAIN <<>>) |->
                           IF s = {} THEN left ELSE Join(f[s \ {Max(s)}], <<>>[Max(s)])]
           all == [s \in SUBSET (DOMAIN <<>>) |-> left]
<1>1. FoldLeft(Join, left, <<>>) = (CHOOSE f : Is(f))[DOMAIN <<>>]
  BY DEF FoldLeft, MapThenFoldSet
<1>2. DOMAIN <<>> = {}
  OBVIOUS
<1>3. Is(all)
  BY <1>2
<1>4. Is(CHOOSE f : Is(f))
  BY <1>3
<1>5. QED
  BY <1>1, <1>2, <1>4

\* One term that follows is joined once.
LEMMA JoinOne ==
    ASSUME NEW left, NEW term
    PROVE  FoldLeft(Join, left, <<term>>) = Join(left, term)
<1> DEFINE Is(f) == f = [s \in SUBSET (DOMAIN <<term>>) |->
                           IF s = {} THEN left ELSE Join(f[s \ {Max(s)}], <<term>>[Max(s)])]
           all == [s \in SUBSET {1} |-> IF s = {} THEN left ELSE Join(left, term)]
<1>1. FoldLeft(Join, left, <<term>>) = (CHOOSE f : Is(f))[DOMAIN <<term>>]
  BY DEF FoldLeft, MapThenFoldSet
<1>2. DOMAIN <<term>> = {1} /\ <<term>>[1] = term
  OBVIOUS
<1>3. Max({1}) = 1 /\ {1} \ {1} = {} /\ {1} \in SUBSET {1} /\ {} \in SUBSET {1} /\ {1} # {}
  BY DEF Max
<1>4. \A s \in SUBSET {1} : s = {} \/ s = {1}
  OBVIOUS
<1> DEFINE joined == Join(left, term)
<1> HIDE DEF joined
<1>5. Is(all)
  <2>1. all[{}] = left
    BY <1>3
  <2>2. \A s \in SUBSET {1} : all[s] = IF s = {} THEN left ELSE Join(all[s \ {Max(s)}], <<term>>[Max(s)])
    <3>1. SUFFICES ASSUME NEW s \in SUBSET {1}, s # {}
                   PROVE  all[s] = Join(all[s \ {Max(s)}], <<term>>[Max(s)])
      OBVIOUS
    <3>2. s = {1} /\ s \ {Max(s)} = {} /\ <<term>>[Max(s)] = term
      BY <1>2, <1>3, <1>4, <3>1
    <3>3. all[s] = Join(left, term)
      BY <3>1 DEF joined
    <3> HIDE DEF all
    <3>4. QED
      BY <2>1, <3>2, <3>3
  <2>3. all = [s \in SUBSET {1} |-> all[s]]
    OBVIOUS
  <2> HIDE DEF all
  <2>4. [s \in SUBSET {1} |-> all[s]] =
        [s \in SUBSET {1} |-> IF s = {} THEN left ELSE Join(all[s \ {Max(s)}], <<term>>[Max(s)])]
    BY <2>2
  <2>5. QED
    BY <1>2, <2>3, <2>4
<1>6. \A f : Is(f) => f[{1}] = Join(left, term)
  <2>1. SUFFICES ASSUME NEW f, Is(f)
                 PROVE  f[{1}] = Join(left, term)
    OBVIOUS
  <2>2. \A s \in SUBSET {1} : f[s] = IF s = {} THEN left ELSE Join(f[s \ {Max(s)}], <<term>>[Max(s)])
    BY <1>2, <2>1
  <2>3. f[{}] = left
    BY <1>3, <2>2
  <2>4. f[{1}] = Join(f[{1} \ {Max({1})}], <<term>>[Max({1})])
    BY <1>3, <2>2
  <2>5. QED
    BY <1>2, <1>3, <2>3, <2>4
<1>7. Is(CHOOSE f : Is(f))
  BY <1>5
<1> HIDE DEF Is
<1>8. QED
  BY <1>1, <1>2, <1>6, <1>7

\* The parser reads a tree from i on, and goes on at j.
ReadsAs(ts, rule, i, ast, j) == Reading(ts)[<<rule, i>>] = Read(ast, j)

\* The two rules that join what a loop reads.
Loop(rule, operand, more, ops) ==
    \/ rule = "additive" /\ operand = "multiplicative" /\ more = "terms" /\ ops = {"+", "-"}
    \/ rule = "multiplicative" /\ operand = "unary" /\ more = "factors" /\ ops = {"*", "/"}

\* A rule reads what it says, and never behind the end.
LEMMA RuleReads ==
    ASSUME NEW ts, Tokens(ts), NEW rule \in Rules, NEW i \in 1 .. Len(ts)
    PROVE  /\ Reading(ts)[<<rule, i>>] = ReadRule(Reading(ts), ts, rule, i)
           /\ \A ast, j : ReadsAs(ts, rule, i, ast, j) => j \in i .. Len(ts) /\ j \in 1 .. Len(ts)
<1>1. <<rule, i>> \in Places(ts) /\ <<rule, i>>[1] = rule /\ <<rule, i>>[2] = i
  BY DEF Places
<1>2. /\ Reading(ts)[<<rule, i>>] = ReadRule(Reading(ts), ts, rule, i)
      /\ Progress(ts, rule, i, Reading(ts)[<<rule, i>>])
  BY <1>1, ReadingUnfolds
<1>3. ASSUME NEW ast, NEW j, ReadsAs(ts, rule, i, ast, j)
      PROVE  j \in i .. Len(ts) /\ j \in 1 .. Len(ts)
  <2>1. Read(ast, j).next \in i .. Len(ts)
    BY <1>2, <1>3 DEF ReadsAs, Progress
  <2>2. Len(ts) \in Nat
    BY TokensLength
  <2>3. QED
    BY <2>1, <2>2 DEF Read
<1>4. QED
  BY <1>2, <1>3

\* A loop and its operand are rules.
LEMMA LoopRules ==
    ASSUME NEW rule, NEW operand, NEW more, NEW ops, Loop(rule, operand, more, ops)
    PROVE  rule \in Rules /\ operand \in Rules /\ more \in Rules
BY DEF Loop, Rules

\* The first operand of a loop is joined with those that follow.
LEMMA LoopReads ==
    ASSUME NEW ts, Tokens(ts), NEW rule, NEW operand, NEW more, NEW ops,
           Loop(rule, operand, more, ops),
           NEW i \in 1 .. Len(ts)
    PROVE  Reading(ts)[<<rule, i>>] = Joined(Reading(ts), i, operand, more)
<1>1. Reading(ts)[<<rule, i>>] = ReadRule(Reading(ts), ts, rule, i)
  BY LoopRules, RuleReads
<1>2. CASE rule = "additive"
  <2>1. operand = "multiplicative" /\ more = "terms"
    BY <1>2 DEF Loop
  <2>2. QED
    BY <1>1, <1>2, <2>1 DEF ReadRule
<1>3. CASE rule = "multiplicative"
  <2>1. operand = "unary" /\ more = "factors"
    BY <1>3 DEF Loop
  <2>2. QED
    BY <1>1, <1>3, <2>1 DEF ReadRule
<1>4. QED
  BY <1>2, <1>3 DEF Loop

\* What follows the first operand is read by the rule of the loop.
LEMMA LoopFollows ==
    ASSUME NEW ts, Tokens(ts), NEW rule, NEW operand, NEW more, NEW ops,
           Loop(rule, operand, more, ops),
           NEW i \in 1 .. Len(ts)
    PROVE  Reading(ts)[<<more, i>>] = Terms(Reading(ts), ts, i, ops, operand, more)
<1>1. Reading(ts)[<<more, i>>] = ReadRule(Reading(ts), ts, more, i)
  BY LoopRules, RuleReads
<1>2. CASE more = "terms"
  <2>1. operand = "multiplicative" /\ ops = {"+", "-"}
    BY <1>2 DEF Loop
  <2>2. QED
    BY <1>1, <1>2, <2>1 DEF ReadRule
<1>3. CASE more = "factors"
  <2>1. operand = "unary" /\ ops = {"*", "/"}
    BY <1>3 DEF Loop
  <2>2. QED
    BY <1>1, <1>3, <2>1 DEF ReadRule
<1>4. QED
  BY <1>2, <1>3 DEF Loop

\* An operand that no operator of the loop follows.
LEMMA LoopOfNone ==
    ASSUME NEW ts, Tokens(ts), NEW rule, NEW operand, NEW more, NEW ops,
           Loop(rule, operand, more, ops),
           NEW i \in 1 .. Len(ts), NEW ast, ast # Unparsed, NEW j,
           ReadsAs(ts, operand, i, ast, j), ts[j].text \notin ops
    PROVE  ReadsAs(ts, rule, i, ast, j)
<1> DEFINE f == Reading(ts)
<1>1. j \in 1 .. Len(ts)
  BY LoopRules, RuleReads
<1>2. f[<<operand, i>>] = Read(ast, j) /\ Read(ast, j).ast = ast /\ Read(ast, j).next = j
  BY DEF ReadsAs, Read
<1>3. f[<<more, j>>] = Terms(f, ts, j, ops, operand, more)
  BY <1>1, LoopFollows
<1> HIDE DEF f
<1>4. f[<<more, j>>] = Read(<<>>, j)
  BY <1>3 DEF Terms
<1>5. Joined(f, i, operand, more) = Read(FoldLeft(Join, ast, <<>>), j)
  <2> DEFINE fold(x) == FoldLeft(Join, ast, x)
  <2>1. Read(<<>>, j).ast = <<>> /\ Read(<<>>, j).next = j
    BY DEF Read
  <2>2. Joined(f, i, operand, more) = Read(fold(Read(<<>>, j).ast), Read(<<>>, j).next)
    BY <1>2, <1>4 DEF Joined, Stuck
  <2> HIDE DEF fold
  <2>3. Joined(f, i, operand, more) = Read(fold(<<>>), j)
    BY <2>1, <2>2
  <2>4. QED
    BY <2>3 DEF fold
<1>6. Joined(f, i, operand, more) = Read(ast, j)
  BY <1>5, JoinNone
<1>7. QED
  BY <1>6, LoopReads DEF f, ReadsAs

\* An operand, an operator of the loop, and an operand that none follows.
LEMMA LoopOfOne ==
    ASSUME NEW ts, Tokens(ts), NEW rule, NEW operand, NEW more, NEW ops,
           Loop(rule, operand, more, ops),
           NEW i \in 1 .. Len(ts), NEW left, left # Unparsed, NEW j, ReadsAs(ts, operand, i, left, j),
           ts[j].text \in ops, NEW right, right # Unparsed, NEW k,
           ReadsAs(ts, operand, j + 1, right, k),
           ts[k].text \notin ops
    PROVE  ReadsAs(ts, rule, i, Binary(ts[j].text, left, right), k)
<1> DEFINE f == Reading(ts)
           term == [op |-> ts[j].text, ast |-> right]
<1>1. j \in 1 .. Len(ts) /\ j + 1 \in 1 .. Len(ts)
  <2>1. j \in 1 .. Len(ts)
    BY LoopRules, RuleReads
  <2>2. ts[j].text # "eof"
    BY DEF Loop
  <2>3. QED
    BY <2>1, <2>2, TokensLength
<1>2. k \in 1 .. Len(ts)
  BY <1>1, LoopRules, RuleReads
<1>3. /\ f[<<operand, i>>] = Read(left, j) /\ Read(left, j).ast = left /\ Read(left, j).next = j
      /\ f[<<operand, j + 1>>] = Read(right, k) /\ Read(right, k).ast = right
      /\ Read(right, k).next = k
  BY DEF ReadsAs, Read
<1>4. /\ f[<<more, j>>] = Terms(f, ts, j, ops, operand, more)
      /\ f[<<more, k>>] = Terms(f, ts, k, ops, operand, more)
  BY <1>1, <1>2, LoopFollows
<1> HIDE DEF f
<1>5. f[<<more, k>>] = Read(<<>>, k)
  BY <1>4 DEF Terms
<1>6. f[<<more, j>>] = Read(<<term>>, k)
  <2>1. Read(<<>>, k).ast = <<>> /\ Read(<<>>, k).next = k
    BY DEF Read
  <2>2. f[<<more, j>>] = Read(<<term>> \o <<>>, k)
    BY <1>3, <1>4, <1>5, <2>1 DEF Terms, Stuck
  <2>3. <<term>> \o <<>> = <<term>>
    OBVIOUS
  <2>4. QED
    BY <2>2, <2>3
<1>7. Joined(f, i, operand, more) = Read(FoldLeft(Join, left, <<term>>), k)
  <2> DEFINE fold(x) == FoldLeft(Join, left, x)
  <2>1. Read(<<term>>, k).ast = <<term>> /\ Read(<<term>>, k).next = k
    BY DEF Read
  <2> HIDE DEF term
  <2>2. Joined(f, i, operand, more) = Read(fold(Read(<<term>>, k).ast), Read(<<term>>, k).next)
    BY <1>3, <1>6 DEF Joined, Stuck
  <2> HIDE DEF fold
  <2>3. Joined(f, i, operand, more) = Read(fold(<<term>>), k)
    BY <2>1, <2>2
  <2>4. QED
    BY <2>3 DEF fold
<1>8. Join(left, term) = Binary(ts[j].text, left, right)
  BY DEF Join
<1> HIDE DEF term
<1>9. Joined(f, i, operand, more) = Read(Binary(ts[j].text, left, right), k)
  BY <1>7, <1>8, JoinOne
<1>10. QED
  BY <1>9, LoopReads DEF f, ReadsAs

\* A comparison with one operand, and one with two.
LEMMA ComparisonReads ==
    ASSUME NEW ts, Tokens(ts), NEW i \in 1 .. Len(ts), NEW left, left # Unparsed, NEW j,
           ReadsAs(ts, "additive", i, left, j)
    PROVE  /\ ts[j].text \notin Comparators => ReadsAs(ts, "comparison", i, left, j)
           /\ \A right, k :
                ts[j].text \in Comparators /\ right # Unparsed /\ ReadsAs(ts, "additive", j + 1, right, k)
                => ReadsAs(ts, "comparison", i, Binary(ts[j].text, left, right), k)
<1> DEFINE f == Reading(ts)
<1>1. f[<<"comparison", i>>] = Comparison(f, ts, i)
  <2>1. "comparison" \in Rules /\ ReadRule(f, ts, "comparison", i) = Comparison(f, ts, i)
    BY DEF Rules, ReadRule
  <2>2. QED
    BY <2>1, RuleReads
<1>2. f[<<"additive", i>>] = Read(left, j) /\ Read(left, j).ast = left /\ Read(left, j).next = j
  BY DEF ReadsAs, Read
<1> HIDE DEF f
<1>3. ASSUME ts[j].text \notin Comparators
      PROVE  f[<<"comparison", i>>] = Read(left, j)
  BY <1>1, <1>2, <1>3 DEF Comparison
<1>4. ASSUME NEW right, NEW k, ts[j].text \in Comparators, right # Unparsed,
             f[<<"additive", j + 1>>] = Read(right, k)
      PROVE  f[<<"comparison", i>>] = Read(Binary(ts[j].text, left, right), k)
  <2>1. Read(right, k).ast = right /\ Read(right, k).next = k
    BY DEF Read
  <2>2. f[<<"comparison", i>>] = Read(Join(left, [op |-> ts[j].text, ast |-> right]), k)
    BY <1>1, <1>2, <1>4, <2>1 DEF Comparison, Stuck
  <2>3. Join(left, [op |-> ts[j].text, ast |-> right]) = Binary(ts[j].text, left, right)
    BY <1>4 DEF Join
  <2>4. QED
    BY <2>2, <2>3
<1>5. QED
  BY <1>3, <1>4 DEF ReadsAs, f

---------------------------------------------------------------------------
(* The text of a tree. *)

\* The text of a tree depends on those of the trees in it.
LEMMA RenderLocal ==
    ASSUME NEW f, NEW g, NEW ast \in Trees, \A sub \in Below(ast) : f[sub] = g[sub]
    PROVE  RenderBy(f, ast) = RenderBy(g, ast)
<1>1. CASE ast.kind = "unary"
  BY <1>1 DEF RenderBy, Below
<1>2. CASE ast.kind = "binary"
  BY <1>2 DEF RenderBy, RenderBinary, Below
<1>3. CASE ast.kind = "call"
  <2> DEFINE comma(i) == IF i = 1 THEN <<>> ELSE <<Op(",")>>
             texts(h) == [i \in DOMAIN ast.args |-> comma(i) \o h[ast.args[i]]]
  <2>1. ToSet(ast.args) = Below(ast)
    BY <1>3 DEF Below
  <2>2. \A i \in DOMAIN ast.args : f[ast.args[i]] = g[ast.args[i]]
    BY <2>1 DEF ToSet
  <2> HIDE DEF comma
  <2>3. texts(f) = texts(g)
    BY <2>2
  <2>4. Listed(f, ast.args) = FlattenSeq(texts(f)) /\ Listed(g, ast.args) = FlattenSeq(texts(g))
    BY DEF Listed, comma
  <2> HIDE DEF texts
  <2>5. Listed(f, ast.args) = Listed(g, ast.args)
    BY <2>3, <2>4
  <2>6. QED
    BY <1>3, <2>5 DEF RenderBy
<1>4. QED
  BY <1>1, <1>2, <1>3 DEF RenderBy

\* Render is what its recursion says.
LEMMA RenderUnfolds ==
    \A ast \in Trees : Render[ast] = RenderBy(Render, ast)
<1> DEFINE Solves(f, n) == \A ast \in Trees : Height(ast) < n => f[ast] = RenderBy(f, ast)
           Is(f) == f = [ast \in Trees |-> RenderBy(f, ast)]
           Unsolved == {n \in Nat : ~ \E f : Solves(f, n)}
           First(ast) == CHOOSE f : Solves(f, Height(ast) + 1)
           All == [ast \in Trees |-> First(ast)[ast]]
<1>1. \A ast \in Trees : /\ Height(ast) \in Nat
                          /\ \A sub \in Below(ast) : sub \in Trees /\ Height(sub) < Height(ast)
  BY TreeAssumption
<1>2. ASSUME NEW f, NEW g, NEW n \in Nat, NEW m \in Nat, Solves(f, n), Solves(g, m)
      PROVE  \A ast \in Trees : Height(ast) < n /\ Height(ast) < m => f[ast] = g[ast]
  <2> DEFINE Differ == {ast \in Trees : Height(ast) < n /\ Height(ast) < m /\ f[ast] # g[ast]}
             Heights == {Height(ast) : ast \in Differ}
  <2>1. SUFFICES ASSUME Differ # {}
                 PROVE  FALSE
    OBVIOUS
  <2>2. Heights \subseteq Nat /\ Heights # {}
    BY <1>1, <2>1
  <2>3. PICK h \in Heights : \A k \in Heights : h <= k
    BY <2>2, LeastOf
  <2>4. PICK ast \in Differ : h = Height(ast)
    BY <2>3
  <2>5. ASSUME NEW sub \in Below(ast)
        PROVE  f[sub] = g[sub]
    <3>1. sub \in Trees /\ Height(sub) \in Nat /\ Height(sub) < h /\ h \in Nat
      BY <1>1, <2>4
    <3>2. sub \notin Differ
      BY <2>3, <3>1
    <3>3. QED
      BY <2>4, <3>1, <3>2
  <2>6. RenderBy(f, ast) = RenderBy(g, ast)
    BY <2>5, RenderLocal
  <2>7. QED
    BY <1>2, <2>4, <2>6
<1>3. ASSUME NEW n \in Nat, NEW f, Solves(f, n)
      PROVE  \E g : Solves(g, n + 1)
  <2> DEFINE g == [ast \in Trees |-> RenderBy(f, ast)]
  <2>1. ASSUME NEW ast \in Trees, Height(ast) < n + 1
        PROVE  g[ast] = RenderBy(g, ast)
    <3>1. ASSUME NEW sub \in Below(ast)
          PROVE  f[sub] = g[sub]
      <4>1. sub \in Trees /\ Height(sub) < n
        BY <1>1, <2>1
      <4>2. f[sub] = RenderBy(f, sub)
        BY <1>3, <4>1
      <4>3. QED
        BY <4>1, <4>2
    <3>2. RenderBy(f, ast) = RenderBy(g, ast)
      BY <3>1, RenderLocal
    <3>3. QED
      BY <2>1, <3>2
  <2>2. Solves(g, n + 1)
    BY <2>1
  <2>3. QED
    BY <2>2
<1>4. Unsolved = {}
  <2>1. SUFFICES ASSUME Unsolved # {}
                 PROVE  FALSE
    OBVIOUS
  <2>2. PICK n \in Unsolved : \A m \in Unsolved : n <= m
    BY <2>1, LeastOf
  <2>3. CASE n = 0
    <3>1. Solves([ast \in Trees |-> ast], 0)
      BY <1>1
    <3>2. QED
      BY <2>2, <2>3, <3>1
  <2>4. CASE n # 0
    <3>1. n - 1 \in Nat /\ n - 1 \notin Unsolved /\ (n - 1) + 1 = n
      BY <2>2, <2>4
    <3>2. PICK f : Solves(f, n - 1)
      BY <3>1
    <3>3. \E g : Solves(g, n)
      BY <1>3, <3>1, <3>2
    <3>4. QED
      BY <2>2, <3>3
  <2>5. QED
    BY <2>3, <2>4
<1>5. ASSUME NEW ast \in Trees
      PROVE  Solves(First(ast), Height(ast) + 1)
  <2>1. Height(ast) + 1 \in Nat
    BY <1>1
  <2>2. \E f : Solves(f, Height(ast) + 1)
    BY <1>4, <2>1
  <2> HIDE DEF Solves
  <2>3. QED
    BY <2>2
<1>6. ASSUME NEW ast \in Trees
      PROVE  All[ast] = RenderBy(All, ast)
  <2> DEFINE f == First(ast)
  <2>1. Height(ast) \in Nat /\ Solves(f, Height(ast) + 1)
    BY <1>1, <1>5
  <2>2. f[ast] = RenderBy(f, ast)
    BY <2>1
  <2>3. ASSUME NEW sub \in Below(ast)
        PROVE  f[sub] = All[sub]
    <3>1. /\ sub \in Trees /\ Height(sub) \in Nat /\ Height(sub) < Height(ast)
          /\ Solves(First(sub), Height(sub) + 1)
      BY <1>1, <1>5
    <3> DEFINE a == First(sub)
    <3> HIDE DEF f, a, Solves, First
    <3>2. /\ Height(ast) + 1 \in Nat /\ Height(sub) + 1 \in Nat
          /\ Height(sub) < Height(ast) + 1 /\ Height(sub) < Height(sub) + 1
      BY <2>1, <3>1
    <3>3. f[sub] = First(sub)[sub]
      BY <1>2, <2>1, <3>1, <3>2
    <3>4. QED
      BY <3>1, <3>3
  <2> HIDE DEF f, First, Solves
  <2>4. RenderBy(f, ast) = RenderBy(All, ast)
    BY <2>3, RenderLocal
  <2>5. All[ast] = f[ast]
    BY DEF f
  <2>6. QED
    BY <2>2, <2>4, <2>5
<1> HIDE DEF First, Solves
<1>7. Is(All)
  <2>1. [ast \in Trees |-> All[ast]] = [ast \in Trees |-> RenderBy(All, ast)]
    BY <1>6
  <2>2. QED
    BY <2>1
<1> HIDE DEF All
<1>8. Render = CHOOSE f : Is(f)
  BY DEF Render
<1>9. Is(Render)
  BY <1>7, <1>8
<1>10. QED
  BY <1>9

\* Texts that are written one behind the other.
LEMMA TextsJoined ==
    ASSUME NEW s, NEW t, IsSeq(s), IsSeq(t)
    PROVE  /\ IsSeq(s \o t) /\ Len(s) \in Nat /\ Len(t) \in Nat /\ Len(s \o t) = Len(s) + Len(t)
           /\ \A k \in 1 .. Len(s) : (s \o t)[k] = s[k]
           /\ \A k \in 1 .. Len(t) : (s \o t)[Len(s) + k] = t[k]
<1>1. PICK S : s \in Seq(S)
  BY DEF IsSeq
<1>2. PICK T : t \in Seq(T)
  BY DEF IsSeq
<1> DEFINE U == S \cup T
<1>3. s \in Seq(U) /\ t \in Seq(U)
  BY <1>1, <1>2
<1> HIDE DEF U
<1>4. s \o t \in Seq(U) /\ Len(s \o t) = Len(s) + Len(t) /\ Len(s) \in Nat /\ Len(t) \in Nat
  BY <1>3
<1>5. \A i \in 1 .. Len(s) + Len(t) : (s \o t)[i] = IF i <= Len(s) THEN s[i] ELSE t[i - Len(s)]
  BY <1>3, ConcatProperties
<1>6. \A k \in 1 .. Len(s) : (s \o t)[k] = s[k]
  BY <1>4, <1>5
<1>7. ASSUME NEW k \in 1 .. Len(t)
      PROVE  (s \o t)[Len(s) + k] = t[k]
  <2>1. Len(s) + k \in 1 .. Len(s) + Len(t) /\ ~(Len(s) + k <= Len(s)) /\ (Len(s) + k) - Len(s) = k
    BY <1>4
  <2>2. QED
    BY <1>5, <2>1
<1>8. QED
  BY <1>4, <1>6, <1>7 DEF IsSeq

\* A text is written at a place among the tokens, and a token follows it.
Stands(ts, i, s) == i + Len(s) <= Len(ts) /\ \A k \in 1 .. Len(s) : ts[i + k - 1] = s[k]

\* Of two texts that stand together each stands in its place.
LEMMA StandJoined ==
    ASSUME NEW ts, Tokens(ts), NEW i \in Nat, i > 0, NEW s, NEW t, IsSeq(s), IsSeq(t),
           Stands(ts, i, s \o t)
    PROVE  /\ Stands(ts, i, s) /\ Stands(ts, i + Len(s), t)
           /\ i + Len(s) \in Nat /\ i + Len(s) > 0 /\ i + Len(s) + Len(t) = i + Len(s \o t)
<1> DEFINE u == s \o t
<1>1. /\ Len(s) \in Nat /\ Len(t) \in Nat /\ Len(u) = Len(s) + Len(t)
      /\ \A k \in 1 .. Len(s) : u[k] = s[k]
      /\ \A k \in 1 .. Len(t) : u[Len(s) + k] = t[k]
  BY TextsJoined
<1>2. Len(ts) \in Nat
  BY TokensLength
<1> HIDE DEF u
<1>3. i + Len(u) <= Len(ts) /\ \A k \in 1 .. Len(u) : ts[i + k - 1] = u[k]
  BY DEF Stands, u
<1>4. Stands(ts, i, s)
  <2>1. i + Len(s) <= Len(ts)
    BY <1>1, <1>2, <1>3
  <2>2. ASSUME NEW k \in 1 .. Len(s)
        PROVE  ts[i + k - 1] = s[k]
    BY <1>1, <1>3
  <2>3. QED
    BY <2>1, <2>2 DEF Stands
<1>5. Stands(ts, i + Len(s), t)
  <2>1. i + Len(s) + Len(t) <= Len(ts)
    BY <1>1, <1>2, <1>3
  <2>2. ASSUME NEW k \in 1 .. Len(t)
        PROVE  ts[i + Len(s) + k - 1] = t[k]
    <3>1. Len(s) + k \in 1 .. Len(u) /\ i + (Len(s) + k) - 1 = i + Len(s) + k - 1
      BY <1>1
    <3>2. ts[i + (Len(s) + k) - 1] = u[Len(s) + k]
      BY <1>3, <3>1
    <3>3. QED
      BY <1>1, <3>1, <3>2
  <2>3. QED
    BY <2>1, <2>2 DEF Stands
<1>6. QED
  BY <1>1, <1>4, <1>5 DEF u

\* A token and what follows it.
LEMMA StandOne ==
    ASSUME NEW ts, NEW i \in Nat, i > 0, NEW x, Stands(ts, i, <<x>>), Tokens(ts)
    PROVE  ts[i] = x /\ i \in 1 .. Len(ts) /\ i + 1 \in 1 .. Len(ts)
<1>1. Len(<<x>>) = 1 /\ <<x>>[1] = x /\ Len(ts) \in Nat /\ i + 1 - 1 = i
  BY TokensLength
<1>2. i + 1 <= Len(ts) /\ ts[i + 1 - 1] = x
  BY <1>1 DEF Stands
<1>3. QED
  BY <1>1, <1>2

\* One token is a text.
LEMMA OneIsSeq ==
    ASSUME NEW x
    PROVE  IsSeq(<<x>>) /\ Len(<<x>>) = 1
<1>1. <<x>> \in Seq({x})
  OBVIOUS
<1>2. QED
  BY <1>1 DEF IsSeq

\* A flattened sequence is built up one text after the other.
LEMMA FlatUnfolds ==
    ASSUME NEW seqs, Len(seqs) \in Nat, Len(seqs) > 0
    PROVE  \E flat : /\ FlattenSeq(seqs) = flat[Len(seqs)]
                     /\ flat[1] = seqs[1]
                     /\ \A k \in 2 .. Len(seqs) : flat[k] = flat[k - 1] \o seqs[k]
<1> DEFINE N == Len(seqs)
           Step(f, k) == IF k = 1 THEN seqs[k] ELSE f[k - 1] \o seqs[k]
           Solves(f, n) == \A k \in 1 .. N : k <= n => f[k] = Step(f, k)
           Is(f) == f = [k \in 1 .. N |-> Step(f, k)]
           Unsolved == {n \in Nat : ~ \E f : Solves(f, n)}
<1>1. FlattenSeq(seqs) = (CHOOSE g : Is(g))[N]
  BY DEF FlattenSeq
<1> HIDE DEF N
<1>2. N \in Nat /\ N > 0
  BY DEF N
<1>3. ASSUME NEW n \in Nat, NEW f, Solves(f, n)
      PROVE  \E g : Solves(g, n + 1)
  <2> DEFINE g == [k \in 1 .. N |-> IF k <= n THEN f[k] ELSE Step(f, k)]
  <2>1. ASSUME NEW k \in 1 .. N, k <= n + 1
        PROVE  g[k] = Step(g, k)
    <3>1. g[k] = Step(f, k)
      BY <1>3
    <3>2. k # 1 => k - 1 \in 1 .. N /\ k - 1 <= n
      BY <1>2, <2>1
    <3>3. k # 1 => g[k - 1] = f[k - 1]
      BY <3>2
    <3> HIDE DEF g
    <3>4. Step(f, k) = Step(g, k)
      BY <3>3
    <3>5. QED
      BY <3>1, <3>4
  <2>2. Solves(g, n + 1)
    BY <2>1
  <2>3. QED
    BY <2>2
<1>4. Unsolved = {}
  <2>1. SUFFICES ASSUME Unsolved # {}
                 PROVE  FALSE
    OBVIOUS
  <2>2. PICK n \in Unsolved : \A m \in Unsolved : n <= m
    BY <2>1, LeastOf
  <2>3. CASE n = 0
    <3>1. Solves(<<>>, 0)
      BY <1>2
    <3>2. QED
      BY <2>2, <2>3, <3>1
  <2>4. CASE n # 0
    <3> HIDE DEF Solves
    <3>1. n - 1 \in Nat /\ n - 1 \notin Unsolved /\ (n - 1) + 1 = n
      <4>1. n \in Nat /\ n - 1 \in Nat /\ (n - 1) + 1 = n /\ ~(n <= n - 1)
        BY <2>2, <2>4
      <4> HIDE DEF Unsolved
      <4>2. QED
        BY <2>2, <4>1
    <3>2. PICK f : Solves(f, n - 1)
      BY <3>1
    <3>3. \E g : Solves(g, n)
      BY <1>3, <3>1, <3>2
    <3>4. QED
      BY <2>2, <3>3
  <2>5. QED
    BY <2>3, <2>4
<1>5. PICK f : Solves(f, N)
  <2> HIDE DEF Solves
  <2>1. QED
    BY <1>2, <1>4
<1> DEFINE all == [k \in 1 .. N |-> f[k]]
<1>6. Is(all)
  <2>1. ASSUME NEW k \in 1 .. N
        PROVE  all[k] = Step(all, k)
    <3>1. f[k] = Step(f, k)
      BY <1>2, <1>5
    <3>2. k # 1 => k - 1 \in 1 .. N
      BY <1>2
    <3>3. k # 1 => all[k - 1] = f[k - 1]
      BY <3>2
    <3>4. all[k] = f[k]
      OBVIOUS
    <3> HIDE DEF all
    <3>5. QED
      BY <3>1, <3>3, <3>4
  <2>2. all = [k \in 1 .. N |-> all[k]]
    OBVIOUS
  <2> HIDE DEF all, Step
  <2>3. [k \in 1 .. N |-> all[k]] = [k \in 1 .. N |-> Step(all, k)]
    BY <2>1
  <2>4. QED
    BY <2>2, <2>3
<1> DEFINE flat == CHOOSE g : Is(g)
<1> HIDE DEF all
<1>7. Is(flat)
  <2> HIDE DEF Is
  <2>1. QED
    BY <1>6
<1> HIDE DEF flat, Step
<1>8. \A k \in 1 .. N : flat[k] = Step(flat, k)
  BY <1>7
<1> USE DEF Step
<1>9. flat[1] = seqs[1]
  BY <1>2, <1>8
<1>10. ASSUME NEW k \in 2 .. N
       PROVE  flat[k] = flat[k - 1] \o seqs[k]
  <2>1. k \in 1 .. N /\ k # 1
    BY <1>2
  <2>2. flat[k] = Step(flat, k)
    BY <1>8, <2>1
  <2>3. QED
    BY <2>1, <2>2
<1>11. FlattenSeq(seqs) = flat[N]
  BY <1>1 DEF flat
<1>12. QED
  BY <1>9, <1>10, <1>11 DEF N

---------------------------------------------------------------------------
(* What the text of each form reads as. *)

\* The operators between two operands.
Operators == Comparators \cup {"+", "-", "*", "/"}

\* An operand that no operator follows is a comparison, and one that an operator follows.
LEMMA AsComparison ==
    ASSUME NEW ts, Tokens(ts), NEW i \in 1 .. Len(ts), NEW ast, ast # Unparsed, NEW j,
           ReadsAs(ts, "unary", i, ast, j), ts[j].text \notin Operators
    PROVE  ReadsAs(ts, "comparison", i, ast, j)
<1>1. Loop("multiplicative", "unary", "factors", {"*", "/"})
  BY DEF Loop
<1>2. Loop("additive", "multiplicative", "terms", {"+", "-"})
  BY DEF Loop
<1>3. ts[j].text \notin {"*", "/"} /\ ts[j].text \notin {"+", "-"} /\ ts[j].text \notin Comparators
  BY DEF Operators
<1>4. ReadsAs(ts, "multiplicative", i, ast, j)
  BY <1>1, <1>3, LoopOfNone
<1>5. ReadsAs(ts, "additive", i, ast, j)
  BY <1>2, <1>3, <1>4, LoopOfNone
<1>6. QED
  BY <1>3, <1>5, ComparisonReads

\* Two operands with an operator between them are one operation.
LEMMA AsOperation ==
    ASSUME NEW ts, Tokens(ts), NEW i \in 1 .. Len(ts), NEW left, left # Unparsed, NEW j,
           ReadsAs(ts, "unary", i, left, j), ts[j].text \in Operators,
           NEW right, right # Unparsed, NEW k, ReadsAs(ts, "unary", j + 1, right, k),
           ts[k].text \notin Operators
    PROVE  ReadsAs(ts, "comparison", i, Binary(ts[j].text, left, right), k)
<1> DEFINE both == Binary(ts[j].text, left, right)
<1>1. Loop("multiplicative", "unary", "factors", {"*", "/"})
  BY DEF Loop
<1>2. Loop("additive", "multiplicative", "terms", {"+", "-"})
  BY DEF Loop
<1>3. ts[k].text \notin {"*", "/"} /\ ts[k].text \notin {"+", "-"} /\ ts[k].text \notin Comparators
  BY DEF Operators
<1>4. both # Unparsed
  BY DEF Binary, Unparsed
<1>5. j + 1 \in 1 .. Len(ts)
  <2>1. j \in 1 .. Len(ts)
    BY RuleReads DEF Rules
  <2>2. ts[j].text # "eof"
    BY DEF Operators, Comparators
  <2>3. QED
    BY <2>1, <2>2, TokensLength
<1>6. CASE ts[j].text \in {"*", "/"}
  <2>1. ReadsAs(ts, "multiplicative", i, both, k)
    BY <1>1, <1>3, <1>6, LoopOfOne
  <2> HIDE DEF both
  <2>2. ReadsAs(ts, "additive", i, both, k)
    BY <1>2, <1>3, <1>4, <2>1, LoopOfNone
  <2>3. ReadsAs(ts, "comparison", i, both, k)
    BY <1>3, <1>4, <2>2, ComparisonReads
  <2>4. QED
    BY <2>3 DEF both
<1>7. CASE ts[j].text \notin {"*", "/"}
  <2>1. ReadsAs(ts, "multiplicative", i, left, j)
    BY <1>1, <1>7, LoopOfNone
  <2>2. ReadsAs(ts, "multiplicative", j + 1, right, k)
    BY <1>1, <1>3, <1>5, LoopOfNone
  <2>3. CASE ts[j].text \in {"+", "-"}
    <3>1. ReadsAs(ts, "additive", i, both, k)
      BY <1>2, <1>3, <2>1, <2>2, <2>3, LoopOfOne
    <3> HIDE DEF both
    <3>2. ReadsAs(ts, "comparison", i, both, k)
      BY <1>3, <1>4, <3>1, ComparisonReads
    <3>3. QED
      BY <3>2 DEF both
  <2>4. CASE ts[j].text \notin {"+", "-"}
    <3>1. ReadsAs(ts, "additive", i, left, j)
      BY <1>2, <2>1, <2>4, LoopOfNone
    <3>2. ReadsAs(ts, "additive", j + 1, right, k)
      BY <1>2, <1>3, <1>5, <2>2, LoopOfNone
    <3>3. ts[j].text \in Comparators
      BY <1>7, <2>4 DEF Operators
    <3>4. QED
      BY <3>1, <3>2, <3>3, ComparisonReads
  <2>5. QED
    BY <2>3, <2>4
<1>8. QED
  BY <1>6, <1>7

\* What stands without a sign is read by the rule of a primary.
LEMMA UnsignedReads ==
    ASSUME NEW ts, Tokens(ts), NEW i \in 1 .. Len(ts), ts[i].text \notin {"+", "-"}
    PROVE  Reading(ts)[<<"unary", i>>] = Primary(Reading(ts), ts, i)
<1> DEFINE f == Reading(ts)
<1>1. "unary" \in Rules /\ "primary" \in Rules
  BY DEF Rules
<1>2. ReadRule(f, ts, "unary", i) = UnaryAt(f, ts, i)
    /\ ReadRule(f, ts, "primary", i) = Primary(f, ts, i)
  BY DEF ReadRule
<1>3. f[<<"unary", i>>] = UnaryAt(f, ts, i) /\ f[<<"primary", i>>] = Primary(f, ts, i)
  BY <1>1, <1>2, RuleReads
<1> HIDE DEF f
<1>4. UnaryAt(f, ts, i) = f[<<"primary", i>>]
  BY DEF UnaryAt
<1>5. QED
  BY <1>3, <1>4 DEF f

\* A sign is read with the operand behind it.
LEMMA SignReads ==
    ASSUME NEW ts, Tokens(ts), NEW i \in 1 .. Len(ts), ts[i].text \in {"+", "-"},
           NEW arg, arg # Unparsed, NEW j, ReadsAs(ts, "unary", i + 1, arg, j)
    PROVE  ReadsAs(ts, "unary", i, Unary(ts[i].text, arg), j)
<1> DEFINE f == Reading(ts)
<1>1. "unary" \in Rules /\ ReadRule(f, ts, "unary", i) = UnaryAt(f, ts, i)
  BY DEF Rules, ReadRule
<1>2. f[<<"unary", i>>] = UnaryAt(f, ts, i)
  BY <1>1, RuleReads
<1>3. f[<<"unary", i + 1>>] = Read(arg, j) /\ Read(arg, j).ast = arg /\ Read(arg, j).next = j
  BY DEF ReadsAs, Read
<1> HIDE DEF f
<1>4. UnaryAt(f, ts, i) = Read(Unary(ts[i].text, arg), j)
  BY <1>3 DEF UnaryAt, Stuck
<1>5. QED
  BY <1>2, <1>4 DEF f, ReadsAs

\* What stands in parentheses is read as if it stood alone.
LEMMA ParenthesesRead ==
    ASSUME NEW ts, Tokens(ts), NEW i \in 1 .. Len(ts), ts[i] = Op("("),
           NEW ast, ast # Unparsed, NEW j, ReadsAs(ts, "comparison", i + 1, ast, j), ts[j].text = ")"
    PROVE  ReadsAs(ts, "unary", i, ast, j + 1)
<1> DEFINE f == Reading(ts)
<1>1. ts[i].kind = "op" /\ ts[i].text = "(" /\ ~CellAt(ts[i])
  BY DEF Op, CellAt
<1>2. f[<<"unary", i>>] = Primary(f, ts, i)
  BY <1>1, UnsignedReads
<1>3. f[<<"comparison", i + 1>>] = Read(ast, j) /\ Read(ast, j).ast = ast /\ Read(ast, j).next = j
  BY DEF ReadsAs, Read
<1> HIDE DEF f
<1>4. Primary(f, ts, i) = Read(ast, j + 1)
  BY <1>1, <1>3 DEF Primary, Stuck
<1>5. QED
  BY <1>2, <1>4 DEF f, ReadsAs

\* A literal, or a cell that no range begins with, is read as it is.
LEMMA AtomReads ==
    ASSUME NEW ts, Tokens(ts), NEW i \in 1 .. Len(ts), NEW ast, ts[i] = Atom(ast),
           \/ ast.kind = "literal"
           \/ ast.kind = "cell" /\ OnGrid(ast.ref) /\ ts[i + 1].text # ":"
    PROVE  ReadsAs(ts, "unary", i, ast, i + 1)
<1> DEFINE f == Reading(ts)
<1>1. ts[i].kind = "atom" /\ ts[i].text = "atom" /\ ts[i].ast = ast /\ ts[i] # Op("(")
  BY DEF Atom, Op
<1>2. f[<<"unary", i>>] = Primary(f, ts, i)
  BY <1>1, UnsignedReads
<1> HIDE DEF f
<1>3. CASE ast.kind = "literal"
  <2>1. ~CellAt(ts[i])
    BY <1>1, <1>3 DEF CellAt
  <2>2. Primary(f, ts, i) = Read(ast, i + 1)
    BY <1>1, <1>3, <2>1 DEF Primary
  <2>3. QED
    BY <1>2, <2>2 DEF f, ReadsAs
<1>4. CASE ast.kind = "cell" /\ OnGrid(ast.ref) /\ ts[i + 1].text # ":"
  <2>1. CellAt(ts[i])
    BY <1>1, <1>4 DEF CellAt
  <2>2. Primary(f, ts, i) = Read(ast, i + 1)
    BY <1>1, <1>4, <2>1 DEF Primary
  <2>3. QED
    BY <1>2, <2>2 DEF f, ReadsAs
<1>5. QED
  BY <1>3, <1>4

\* A range is read from its two corners; the second inherits the sheet of the first.
LEMMA RangeReads ==
    ASSUME NEW ts, Tokens(ts), NEW i \in 1 .. Len(ts), NEW first, NEW last, OnGrid(first),
           OnGrid(last),
           ts[i] = Atom(Cell(first)), ts[i + 1] = Op(":"), ts[i + 2] = Atom(Cell(last))
    PROVE  ReadsAs(ts, "unary", i, Range2(first, Inherited(first, last)), i + 3)
<1> DEFINE f == Reading(ts)
<1>1. /\ ts[i].kind = "atom" /\ ts[i].text = "atom" /\ ts[i].ast.kind = "cell"
      /\ ts[i].ast.ref = first
      /\ ts[i + 2].kind = "atom" /\ ts[i + 2].ast.kind = "cell" /\ ts[i + 2].ast.ref = last
      /\ ts[i + 1].text = ":" /\ ts[i] # Op("(")
  BY DEF Atom, Op, Cell
<1>2. f[<<"unary", i>>] = Primary(f, ts, i)
  BY <1>1, UnsignedReads
<1> HIDE DEF f
<1>3. CellAt(ts[i]) /\ CellAt(ts[i + 2])
  BY <1>1 DEF CellAt
<1>4. Primary(f, ts, i) = Read(Range2(first, Inherited(first, last)), i + 3)
  BY <1>1, <1>3 DEF Primary
<1>5. QED
  BY <1>2, <1>4 DEF f, ReadsAs

\* A call is read from its name and its arguments.
LEMMA CallReads ==
    ASSUME NEW ts, Tokens(ts), NEW i \in 1 .. Len(ts), NEW name, name \notin {"+", "-"},
           ts[i] = Ident(name), ts[i + 1].text = "(", ts[i + 2].text # ")",
           NEW args, NEW j, ReadsAs(ts, "arguments", i + 2, args, j), ts[j].text = ")"
    PROVE  ReadsAs(ts, "unary", i, Call(name, args), j + 1)
<1> DEFINE f == Reading(ts)
<1>1. ts[i].kind = "ident" /\ ts[i].text = name /\ ts[i] # Op("(") /\ ~CellAt(ts[i])
  BY DEF Ident, Op, CellAt
<1>2. f[<<"unary", i>>] = Primary(f, ts, i)
  BY <1>1, UnsignedReads
<1>3. f[<<"arguments", i + 2>>] = Read(args, j) /\ Read(args, j).ast = args /\ Read(args, j).next = j
  BY DEF ReadsAs, Read
<1> HIDE DEF f
<1>4. Primary(f, ts, i) = Read(Call(name, args), j + 1)
  BY <1>1, <1>3 DEF Primary
<1>5. QED
  BY <1>2, <1>4 DEF f, ReadsAs

\* A call without arguments is read from its name.
LEMMA EmptyCallReads ==
    ASSUME NEW ts, Tokens(ts), NEW i \in 1 .. Len(ts), NEW name, name \notin {"+", "-"},
           ts[i] = Ident(name), ts[i + 1].text = "(", ts[i + 2].text = ")"
    PROVE  ReadsAs(ts, "unary", i, Call(name, <<>>), (i + 2) + 1)
<1> DEFINE f == Reading(ts)
<1>1. ts[i].kind = "ident" /\ ts[i].text = name /\ ts[i] # Op("(") /\ ~CellAt(ts[i])
  BY DEF Ident, Op, CellAt
<1>2. f[<<"unary", i>>] = Primary(f, ts, i)
  BY <1>1, UnsignedReads
<1> HIDE DEF f
<1>3. Primary(f, ts, i) = Read(Call(name, <<>>), (i + 2) + 1)
  <2>1. Read(<<>>, i + 2).ast = <<>> /\ Read(<<>>, i + 2).next = i + 2
    BY DEF Read
  <2>2. QED
    BY <1>1, <2>1 DEF Primary
<1>4. QED
  BY <1>2, <1>3 DEF f, ReadsAs

---------------------------------------------------------------------------
(* Inductions. *)

\* What holds of 1, and with each number of the next, holds up to the bound.
LEMMA UpTo ==
    ASSUME NEW n \in Nat, NEW S, n > 0 => 1 \in S,
           \A k \in 1 .. n : k + 1 \in 1 .. n /\ k \in S => k + 1 \in S
    PROVE  1 .. n \subseteq S
<1> DEFINE Outside == {k \in 1 .. n : k \notin S}
<1>1. SUFFICES ASSUME Outside # {}
               PROVE  FALSE
  OBVIOUS
<1>2. PICK k \in Outside : \A j \in Outside : k <= j
  <2>1. Outside \subseteq Nat
    OBVIOUS
  <2> HIDE DEF Outside
  <2>2. QED
    BY <1>1, <2>1, LeastOf
<1>3. k # 1
  BY <1>2
<1>4. k - 1 \in 1 .. n /\ (k - 1) + 1 = k /\ ~(k <= k - 1)
  BY <1>2, <1>3
<1>5. k - 1 \in S
  BY <1>2, <1>4
<1>6. QED
  BY <1>2, <1>4, <1>5

\* What holds of the bound, and with each number of the one before, holds down to 1.
LEMMA DownFrom ==
    ASSUME NEW n \in Nat, NEW S, n > 0 => n \in S,
           \A k \in 1 .. n : k + 1 \in 1 .. n /\ k + 1 \in S => k \in S
    PROVE  1 .. n \subseteq S
<1> DEFINE T == {k \in 1 .. n : n + 1 - k \in S}
<1>1. n > 0 => 1 \in T
  BY Z3
<1>2. ASSUME NEW k \in 1 .. n, k + 1 \in 1 .. n, k \in T
      PROVE  k + 1 \in T
  <2> DEFINE j == n + 1 - (k + 1)
  <2>1. j \in 1 .. n /\ j + 1 \in 1 .. n /\ j + 1 = n + 1 - k
    BY <1>2
  <2> HIDE DEF j
  <2>2. j \in S
    BY <1>2, <2>1
  <2>3. QED
    BY <1>2, <2>2 DEF j
<1> HIDE DEF T
<1>3. 1 .. n \subseteq T
  BY <1>1, <1>2, UpTo
<1>4. ASSUME NEW k \in 1 .. n
      PROVE  k \in S
  <2>1. n + 1 - k \in 1 .. n /\ n + 1 - (n + 1 - k) = k
    OBVIOUS
  <2>2. n + 1 - k \in T
    BY <1>3, <2>1
  <2>3. QED
    BY <2>1, <2>2 DEF T
<1>5. QED
  BY <1>4

\* The last argument, and one that a comma follows.
LEMMA ArgumentsRead ==
    ASSUME NEW ts, Tokens(ts), NEW i \in 1 .. Len(ts), NEW ast, ast # Unparsed, NEW j,
           ReadsAs(ts, "comparison", i, ast, j)
    PROVE  /\ ts[j].text # "," => ReadsAs(ts, "arguments", i, <<ast>>, j)
           /\ \A rest, k : ts[j].text = "," /\ ReadsAs(ts, "arguments", j + 1, rest, k) =>
                ReadsAs(ts, "arguments", i, <<ast>> \o rest, k)
<1> DEFINE f == Reading(ts)
<1>1. "arguments" \in Rules /\ ReadRule(f, ts, "arguments", i) = Arguments(f, ts, i)
  BY DEF Rules, ReadRule
<1>2. f[<<"arguments", i>>] = Arguments(f, ts, i)
  BY <1>1, RuleReads
<1>3. f[<<"comparison", i>>] = Read(ast, j) /\ Read(ast, j).ast = ast /\ Read(ast, j).next = j
  BY DEF ReadsAs, Read
<1> HIDE DEF f
<1>4. ASSUME ts[j].text # ","
      PROVE  f[<<"arguments", i>>] = Read(<<ast>>, j)
  BY <1>2, <1>3, <1>4 DEF Arguments, Stuck
<1>5. ASSUME NEW rest, NEW k, ts[j].text = ",", f[<<"arguments", j + 1>>] = Read(rest, k)
      PROVE  f[<<"arguments", i>>] = Read(<<ast>> \o rest, k)
  <2>1. Read(rest, k).ast = rest /\ Read(rest, k).next = k
    BY DEF Read
  <2>2. QED
    BY <1>2, <1>3, <1>5, <2>1 DEF Arguments, Stuck
<1>6. QED
  BY <1>4, <1>5 DEF ReadsAs, f

\* A sequence has a length.
LEMMA LengthOfSeq ==
    ASSUME NEW s, IsSeq(s)
    PROVE  Len(s) \in Nat
BY DEF IsSeq

\* The text of the arguments is built up one argument after the other.
LEMMA Listing ==
    ASSUME NEW args, NEW n \in Nat, n > 0, Len(args) = n, DOMAIN args = 1 .. n,
           \A k \in 1 .. n : IsSeq(Render[args[k]])
    PROVE  \E flat : /\ Listed(Render, args) = flat[n]
                     /\ flat[1] = Render[args[1]]
                     /\ \A k \in 2 .. n : flat[k] = flat[k - 1] \o (<<Op(",")>> \o Render[args[k]])
                     /\ \A k \in 1 .. n : IsSeq(flat[k])
<1> DEFINE comma(k) == IF k = 1 THEN <<>> ELSE <<Op(",")>>
           texts == [k \in DOMAIN args |-> comma(k) \o Render[args[k]]]
<1>1. Listed(Render, args) = FlattenSeq(texts)
  BY DEF Listed
<1>2. \A k \in 1 .. n : texts[k] = comma(k) \o Render[args[k]]
  OBVIOUS
<1>3. Len(texts) = n
  OBVIOUS
<1> HIDE DEF texts
<1>4. PICK flat : /\ FlattenSeq(texts) = flat[n]
                  /\ flat[1] = texts[1]
                  /\ \A k \in 2 .. n : flat[k] = flat[k - 1] \o texts[k]
  <2>1. \E flat : /\ FlattenSeq(texts) = flat[Len(texts)]
                  /\ flat[1] = texts[1]
                  /\ \A k \in 2 .. Len(texts) : flat[k] = flat[k - 1] \o texts[k]
    <3>1. Len(texts) \in Nat /\ Len(texts) > 0
      BY <1>3
    <3>2. QED
      BY <3>1, FlatUnfolds
  <2>2. QED
    BY <1>3, <2>1
<1>5. texts[1] = Render[args[1]]
  <2>1. texts[1] = <<>> \o Render[args[1]] /\ IsSeq(Render[args[1]])
    <3>1. 1 \in 1 .. n
      OBVIOUS
    <3>2. texts[1] = comma(1) \o Render[args[1]] /\ IsSeq(Render[args[1]])
      BY <1>2, <3>1
    <3>3. comma(1) = <<>>
      OBVIOUS
    <3>4. QED
      BY <3>2, <3>3
  <2>2. QED
    BY <2>1, ConcatEmptySeq DEF IsSeq
<1>6. ASSUME NEW k \in 2 .. n
      PROVE  flat[k] = flat[k - 1] \o (<<Op(",")>> \o Render[args[k]])
  <2>1. texts[k] = <<Op(",")>> \o Render[args[k]]
    <3>1. k \in 1 .. n /\ k # 1
      OBVIOUS
    <3>2. texts[k] = comma(k) \o Render[args[k]]
      BY <1>2, <3>1
    <3>3. comma(k) = <<Op(",")>>
      BY <3>1
    <3>4. QED
      BY <3>2, <3>3
  <2>2. QED
    BY <1>4, <2>1
<1> DEFINE S == {k \in 1 .. n : IsSeq(flat[k])}
<1>7. 1 \in S
  BY <1>4, <1>5
<1>8. ASSUME NEW k \in 1 .. n, k + 1 \in 1 .. n, k \in S
      PROVE  k + 1 \in S
  <2>1. k + 1 \in 2 .. n /\ (k + 1) - 1 = k
    BY <1>8
  <2>2. flat[k + 1] = flat[k] \o (<<Op(",")>> \o Render[args[k + 1]])
    BY <1>6, <2>1
  <2>3. IsSeq(<<Op(",")>> \o Render[args[k + 1]])
    BY <1>8, OneIsSeq, TextsJoined
  <2> DEFINE more == <<Op(",")>> \o Render[args[k + 1]]
  <2> HIDE DEF more
  <2>4. IsSeq(flat[k + 1])
    <3>1. flat[k + 1] = flat[k] \o more /\ IsSeq(more) /\ IsSeq(flat[k])
      BY <1>8, <2>2, <2>3 DEF more
    <3>2. QED
      BY <3>1, TextsJoined
  <2>5. QED
    BY <1>8, <2>4
<1> HIDE DEF S
<1>9. 1 .. n \subseteq S
  BY <1>7, <1>8, UpTo
<1>10. QED
  BY <1>1, <1>4, <1>5, <1>6, <1>9 DEF S

\* No arguments, no text.
LEMMA NoListing ==
    ASSUME NEW args, Len(args) = 0, DOMAIN args = 1 .. 0
    PROVE  Listed(Render, args) = <<>>
<1> DEFINE comma(k) == IF k = 1 THEN <<>> ELSE <<Op(",")>>
           texts == [k \in DOMAIN args |-> comma(k) \o Render[args[k]]]
<1>1. Listed(Render, args) = FlattenSeq(texts)
  BY DEF Listed
<1>2. texts = <<>>
  OBVIOUS
<1> HIDE DEF texts
<1>3. Len(texts) = 0
  BY <1>2
<1>4. QED
  BY <1>1, <1>2, <1>3 DEF FlattenSeq

\* The text of the arguments is a text.
LEMMA ListingIsSeq ==
    ASSUME NEW args, NEW n \in Nat, Len(args) = n, DOMAIN args = 1 .. n,
           \A k \in 1 .. n : IsSeq(Render[args[k]])
    PROVE  IsSeq(Listed(Render, args))
<1>1. CASE n = 0
  <2>1. <<>> \in Seq({})
    OBVIOUS
  <2>2. QED
    BY <1>1, <2>1, NoListing DEF IsSeq
<1>2. CASE n > 0
  <2>1. PICK flat : Listed(Render, args) = flat[n] /\ \A k \in 1 .. n : IsSeq(flat[k])
    BY <1>2, Listing
  <2>2. QED
    BY <1>2, <2>1
<1>3. QED
  BY <1>1, <1>2

\* Where the arguments stand: each is followed by a comma, and the last by what follows them.
Placed(ts, i, args, n, from, to) ==
    /\ from[1] = i /\ to[n] = i + Len(Listed(Render, args))
    /\ \A k \in 1 .. n : /\ from[k] \in Nat /\ from[k] > 0 /\ Stands(ts, from[k], Render[args[k]])
                         /\ to[k] = from[k] + Len(Render[args[k]])
    /\ \A k \in 1 .. n : k + 1 \in 1 .. n => ts[to[k]] = Op(",") /\ from[k + 1] = to[k] + 1

\* In the text of the arguments each argument stands in its place.
LEMMA ListStands ==
    ASSUME NEW ts, Tokens(ts), NEW i \in Nat, i > 0, NEW args, NEW n \in Nat, n > 0,
           Len(args) = n, DOMAIN args = 1 .. n, \A k \in 1 .. n : IsSeq(Render[args[k]]),
           Stands(ts, i, Listed(Render, args))
    PROVE  \E from, to : Placed(ts, i, args, n, from, to)
<1>1. PICK flat : /\ Listed(Render, args) = flat[n]
                  /\ flat[1] = Render[args[1]]
                  /\ \A k \in 2 .. n : flat[k] = flat[k - 1] \o (<<Op(",")>> \o Render[args[k]])
                  /\ \A k \in 1 .. n : IsSeq(flat[k])
  BY Listing
<1> DEFINE starts == [k \in 1 .. n |-> IF k = 1 THEN i ELSE i + Len(flat[k - 1]) + 1]
           stops == [k \in 1 .. n |-> i + Len(flat[k])]
           S == {k \in 1 .. n : Stands(ts, i, flat[k])}
<1>2. ASSUME NEW k \in 1 .. n, k + 1 \in 1 .. n, Stands(ts, i, flat[k + 1])
      PROVE  /\ Stands(ts, i, flat[k]) /\ i + Len(flat[k]) \in Nat /\ ts[i + Len(flat[k])] = Op(",")
             /\ Stands(ts, i + Len(flat[k]) + 1, Render[args[k + 1]])
             /\ i + Len(flat[k + 1]) = i + Len(flat[k]) + 1 + Len(Render[args[k + 1]])
  <2> DEFINE text == Render[args[k + 1]]
             more == <<Op(",")>> \o text
             j == i + Len(flat[k])
  <2>1. k + 1 \in 2 .. n /\ (k + 1) - 1 = k
    BY <1>2
  <2>2. flat[k + 1] = flat[k] \o more
    BY <1>1, <2>1
  <2>3. IsSeq(<<Op(",")>>) /\ Len(<<Op(",")>>) = 1 /\ IsSeq(text)
    BY <1>2, OneIsSeq
  <2> HIDE DEF text
  <2>4. IsSeq(more) /\ Len(more) = 1 + Len(text) /\ Len(text) \in Nat
    BY <2>3, TextsJoined, LengthOfSeq
  <2>5. /\ Stands(ts, i, flat[k]) /\ Stands(ts, j, more) /\ j \in Nat /\ j > 0
        /\ j + Len(more) = i + Len(flat[k + 1])
    <3> HIDE DEF more
    <3>1. IsSeq(flat[k]) /\ Stands(ts, i, flat[k] \o more)
      BY <1>1, <1>2, <2>2
    <3>2. Stands(ts, i, flat[k]) /\ Stands(ts, i + Len(flat[k]), more)
      BY <2>4, <3>1, StandJoined
    <3>3. /\ i + Len(flat[k]) \in Nat /\ i + Len(flat[k]) > 0
          /\ i + Len(flat[k]) + Len(more) = i + Len(flat[k] \o more)
      <4>1. /\ Len(flat[k]) \in Nat /\ Len(more) \in Nat
            /\ Len(flat[k] \o more) = Len(flat[k]) + Len(more)
        BY <2>4, <3>1, TextsJoined
      <4> DEFINE a == Len(flat[k])
                 b == Len(more)
                 c == Len(flat[k] \o more)
      <4> HIDE DEF a, b, c
      <4>2. a \in Nat /\ b \in Nat /\ c = a + b
        BY <4>1 DEF a, b, c
      <4>3. i + a \in Nat /\ i + a > 0 /\ i + a + b = i + c
        BY <4>2
      <4>4. QED
        BY <4>3 DEF a, b, c
    <3>4. Len(flat[k] \o more) = Len(flat[k + 1])
      BY <2>2
    <3>5. QED
      BY <3>2, <3>3, <3>4
  <2> HIDE DEF j
  <2>6. Stands(ts, j, <<Op(",")>>) /\ Stands(ts, j + 1, text)
    BY <2>3, <2>5, StandJoined
  <2>7. ts[j] = Op(",")
    BY <2>5, <2>6, StandOne
  <2>8. j + Len(more) = j + 1 + Len(text)
    <3> DEFINE m == Len(more)
               l == Len(text)
    <3>1. l \in Nat /\ j \in Nat /\ m = 1 + l
      BY <2>4, <2>5
    <3> HIDE DEF m, l
    <3>2. j + m = j + 1 + l
      BY <3>1
    <3>3. QED
      BY <3>2 DEF m, l
  <2>9. /\ Stands(ts, i, flat[k]) /\ j \in Nat /\ ts[j] = Op(",") /\ Stands(ts, j + 1, text)
        /\ i + Len(flat[k + 1]) = j + 1 + Len(text)
    <3> HIDE DEF more
    <3>1. QED
      BY <2>5, <2>6, <2>7, <2>8
  <2>10. QED
    BY <2>9 DEF j, text
<1>3. n \in S
  <2>1. Stands(ts, i, flat[n])
    BY <1>1
  <2>2. QED
    BY <2>1
<1>4. ASSUME NEW k \in 1 .. n, k + 1 \in 1 .. n, k + 1 \in S
      PROVE  k \in S
  BY <1>2, <1>4
<1> HIDE DEF S
<1>5. 1 .. n \subseteq S
  BY <1>3, <1>4, DownFrom
<1>6. \A k \in 1 .. n : Stands(ts, i, flat[k])
  BY <1>5 DEF S
<1>7. starts[1] = i /\ stops[n] = i + Len(Listed(Render, args))
  <2>1. 1 \in 1 .. n /\ n \in 1 .. n
    OBVIOUS
  <2>2. starts[1] = i /\ stops[n] = i + Len(flat[n])
    BY <2>1
  <2>3. QED
    BY <1>1, <2>2
<1>8. \A k \in 1 .. n : stops[k] = i + Len(flat[k])
  OBVIOUS
<1>9. \A k \in 1 .. n : k + 1 \in 1 .. n => starts[k + 1] = i + Len(flat[k]) + 1
  <2>1. TAKE k \in 1 .. n
  <2>2. HAVE k + 1 \in 1 .. n
  <2>3. k + 1 # 1 /\ (k + 1) - 1 = k
    OBVIOUS
  <2>4. starts[k + 1] = i + Len(flat[(k + 1) - 1]) + 1
    BY <2>2, <2>3
  <2>5. QED
    BY <2>3, <2>4
<1> HIDE DEF starts, stops
<1>10. ASSUME NEW k \in 1 .. n, k + 1 \in 1 .. n
       PROVE  ts[stops[k]] = Op(",") /\ starts[k + 1] = stops[k] + 1
  BY <1>2, <1>6, <1>8, <1>9, <1>10
<1>11. ASSUME NEW k \in 1 .. n
       PROVE  /\ starts[k] \in Nat /\ starts[k] > 0 /\ Stands(ts, starts[k], Render[args[k]])
              /\ stops[k] = starts[k] + Len(Render[args[k]])
  <2>1. CASE k = 1
    BY <1>1, <1>6, <1>7, <1>8, <2>1
  <2>2. CASE k # 1
    <3> DEFINE j == k - 1
    <3>1. j \in 1 .. n /\ j + 1 \in 1 .. n /\ j + 1 = k
      BY <2>2
    <3> HIDE DEF j
    <3>2. /\ i + Len(flat[j]) \in Nat
          /\ Stands(ts, i + Len(flat[j]) + 1, Render[args[j + 1]])
          /\ i + Len(flat[j + 1]) = i + Len(flat[j]) + 1 + Len(Render[args[j + 1]])
      BY <1>2, <1>6, <3>1
    <3>3. starts[k] = i + Len(flat[j]) + 1 /\ stops[k] = i + Len(flat[j + 1])
      BY <1>8, <1>9, <3>1
    <3>4. /\ starts[k] \in Nat /\ starts[k] > 0 /\ Stands(ts, starts[k], Render[args[k]])
      BY <3>1, <3>2, <3>3
    <3>5. stops[k] = starts[k] + Len(Render[args[k]])
      BY <3>1, <3>2, <3>3
    <3>6. QED
      BY <3>4, <3>5
  <2>3. QED
    BY <2>1, <2>2
<1>12. Placed(ts, i, args, n, starts, stops)
  BY <1>7, <1>10, <1>11 DEF Placed
<1>13. QED
  BY <1>12

---------------------------------------------------------------------------
(* The trees that can be read, and their texts. *)

\* What can be read is made of what can be read.
LEMMA LegibleForms ==
    ASSUME NEW ast \in Trees, Legible[ast]
    PROVE  /\ Formed(ast) /\ ast.kind # "unparsed"
           /\ ast.kind = "range" => Expandable(ast)
           /\ ast.kind = "unary" => Legible[ast.arg]
           /\ ast.kind = "binary" => Legible[ast.left] /\ Legible[ast.right]
           /\ ast.kind = "call" => /\ Len(ast.args) \in Nat
                                   /\ DOMAIN ast.args = 1 .. Len(ast.args)
                                   /\ ast.name \notin {"+", "-", ")"}
                                   /\ \A i \in 1 .. Len(ast.args) : Legible[ast.args[i]]
<1>1. Formed(ast) /\ LegibleBy(Legible, ast)
  BY LegibleUnfolds, TreeAssumption
<1>2. ASSUME ast.kind = "call"
      PROVE  /\ Len(ast.args) \in Nat /\ DOMAIN ast.args = 1 .. Len(ast.args)
             /\ ast.name \notin {"+", "-", ")"}
             /\ \A i \in 1 .. Len(ast.args) : Legible[ast.args[i]]
  <2>1. ast.name \notin {"+", "-", ")"}
    BY <1>1, <1>2 DEF Formed
  <2>2. \A sub \in Below(ast) : Legible[sub]
    BY <1>1, <1>2 DEF LegibleBy
  <2>3. QED
    BY <1>2, <2>1, <2>2, CallArguments
<1>3. QED
  BY <1>1, <1>2 DEF LegibleBy, Below

\* A text with its first token.
Written(s) == IsSeq(s) /\ Len(s) > 0 /\ s[1].text # ")"

\* A text that begins as it should may be continued.
LEMMA WrittenMore ==
    ASSUME NEW s, NEW t, Written(s), IsSeq(t)
    PROVE  Written(s \o t)
<1>1. IsSeq(s) /\ Len(s) > 0 /\ s[1].text # ")"
  BY DEF Written
<1>2. /\ IsSeq(s \o t) /\ Len(s) \in Nat /\ Len(t) \in Nat /\ Len(s \o t) = Len(s) + Len(t)
      /\ \A k \in 1 .. Len(s) : (s \o t)[k] = s[k]
  BY <1>1, TextsJoined
<1> DEFINE u == s \o t
<1> HIDE DEF u
<1>3. u[1] = s[1]
  BY <1>1, <1>2 DEF u
<1>4. Len(u) > 0
  <2> DEFINE a == Len(s)
             b == Len(t)
             c == Len(u)
  <2>1. a \in Nat /\ b \in Nat /\ a > 0 /\ c = a + b
    BY <1>1, <1>2 DEF u
  <2> HIDE DEF a, b, c
  <2>2. c > 0
    BY <2>1
  <2>3. QED
    BY <2>2 DEF c
<1>5. IsSeq(u) /\ u[1].text # ")"
  BY <1>1, <1>2, <1>3 DEF u
<1>6. QED
  BY <1>4, <1>5 DEF Written, u

\* One token other than a closing parenthesis.
LEMMA WrittenOne ==
    ASSUME NEW x, x.text # ")"
    PROVE  Written(<<x>>)
<1>1. IsSeq(<<x>>) /\ Len(<<x>>) = 1 /\ <<x>>[1] = x
  BY OneIsSeq
<1>2. QED
  BY <1>1 DEF Written

\* Two or three tokens that begin with another than a closing parenthesis.
LEMMA WrittenFew ==
    ASSUME NEW a, NEW b, NEW c, a.text # ")"
    PROVE  Written(<<a, b>>) /\ Written(<<a, b, c>>)
<1> DEFINE two == <<a, b>>
           three == <<a, b, c>>
<1>1. two \in Seq({a, b}) /\ Len(two) = 2 /\ two[1] = a
  OBVIOUS
<1>2. three \in Seq({a, b, c}) /\ Len(three) = 3 /\ three[1] = a
  OBVIOUS
<1> HIDE DEF two, three
<1>3. IsSeq(two) /\ IsSeq(three)
  BY <1>1, <1>2 DEF IsSeq
<1>4. Written(two) /\ Written(three)
  BY <1>1, <1>2, <1>3 DEF Written
<1>5. QED
  BY <1>4 DEF two, three

\* What can be read is written as a text that does not begin with a closing parenthesis.
LEMMA RenderIsWritten ==
    ASSUME NEW ast \in Trees, Legible[ast],
           \A sub \in Below(ast) : Legible[sub] => Written(Render[sub])
    PROVE  Written(Render[ast])
<1>1. Render[ast] = RenderBy(Render, ast)
  BY RenderUnfolds
<1>2. Formed(ast) /\ ast.kind # "unparsed"
  BY LegibleForms
<1>3. /\ \A a : Written(<<Atom(a)>>)
      /\ \A text : IsSeq(<<Op(text)>>) /\ (text # ")" => Written(<<Op(text)>>))
      /\ \A text : text # ")" => Written(<<Ident(text)>>)
  <2>1. \A a : Atom(a).text # ")"
    BY DEF Atom
  <2>2. \A text : Op(text).text = text /\ Ident(text).text = text
    BY DEF Op, Ident
  <2>3. QED
    BY <2>1, <2>2, OneIsSeq, WrittenOne
<1>4. \A s : Written(s) => IsSeq(s)
  BY DEF Written
<1>5. CASE ast.kind \in {"literal", "cell"}
  <2>1. Render[ast] = <<Atom(ast)>>
    BY <1>1, <1>5 DEF RenderBy
  <2>2. QED
    BY <1>3, <2>1
<1>6. CASE ast.kind = "range"
  <2> DEFINE a == Atom(Cell(ast.first))
             b == Op(":")
             c == Atom(Cell([ast.last EXCEPT !.sheet = ""]))
  <2>1. Render[ast] = <<a, b, c>>
    BY <1>1, <1>6 DEF RenderBy
  <2>2. a.text # ")"
    BY DEF Atom
  <2> HIDE DEF a, b, c
  <2>3. QED
    BY <2>1, <2>2, WrittenFew
<1>7. CASE ast.kind = "unary"
  <2> DEFINE text == Render[ast.arg]
  <2>1. Written(text)
    BY <1>7, LegibleForms DEF Below
  <2>2. Render[ast] = <<Op(ast.op), Op("(")>> \o text \o <<Op(")")>>
    BY <1>1, <1>7 DEF RenderBy
  <2>3. Written(<<Op(ast.op), Op("(")>>)
    <3>1. ast.op # ")"
      BY <1>2, <1>7 DEF Formed
    <3> DEFINE a == Op(ast.op)
               b == Op("(")
    <3>2. a.text # ")"
      BY <3>1 DEF Op
    <3> HIDE DEF a, b
    <3>3. Written(<<a, b>>)
      BY <3>2, WrittenFew
    <3>4. QED
      BY <3>3 DEF a, b
  <2> HIDE DEF text
  <2>4. Written(<<Op(ast.op), Op("(")>> \o text)
    BY <1>4, <2>1, <2>3, WrittenMore
  <2>5. QED
    BY <1>3, <2>2, <2>4, WrittenMore
<1>8. CASE ast.kind = "binary"
  <2> DEFINE left == Render[ast.left]
             right == Render[ast.right]
  <2>1. Written(left) /\ Written(right)
    BY <1>8, LegibleForms DEF Below
  <2>2. Render[ast] = <<Op("(")>> \o left \o <<Op(ast.op)>> \o right \o <<Op(")")>>
    BY <1>1, <1>8 DEF RenderBy, RenderBinary
  <2> HIDE DEF left, right
  <2>3. Written(<<Op("(")>> \o left)
    BY <1>3, <1>4, <2>1, WrittenMore
  <2>4. Written(<<Op("(")>> \o left \o <<Op(ast.op)>>)
    BY <1>3, <2>3, WrittenMore
  <2>5. Written(<<Op("(")>> \o left \o <<Op(ast.op)>> \o right)
    BY <1>4, <2>1, <2>4, WrittenMore
  <2>6. QED
    BY <1>3, <2>2, <2>5, WrittenMore
<1>9. CASE ast.kind = "call"
  <2> DEFINE n == Len(ast.args)
             all == Listed(Render, ast.args)
  <2>1. /\ n \in Nat /\ DOMAIN ast.args = 1 .. n /\ ast.name # ")"
        /\ \A i \in 1 .. n : Legible[ast.args[i]]
    BY <1>9, LegibleForms
  <2>2. \A i \in 1 .. n : IsSeq(Render[ast.args[i]])
    <3>1. \A i \in 1 .. n : ast.args[i] \in Below(ast)
      BY <1>9, <2>1, CallArguments
    <3>2. QED
      BY <1>4, <2>1, <3>1
  <2>3. IsSeq(all)
    BY <2>1, <2>2, ListingIsSeq
  <2>4. Render[ast] = <<Ident(ast.name), Op("(")>> \o all \o <<Op(")")>>
    BY <1>1, <1>9 DEF RenderBy
  <2>5. Written(<<Ident(ast.name), Op("(")>>)
    <3> DEFINE a == Ident(ast.name)
               b == Op("(")
    <3>1. a.text # ")"
      BY <2>1 DEF Ident
    <3> HIDE DEF a, b
    <3>2. Written(<<a, b>>)
      BY <3>1, WrittenFew
    <3>3. QED
      BY <3>2 DEF a, b
  <2> HIDE DEF all
  <2>6. Written(<<Ident(ast.name), Op("(")>> \o all)
    BY <2>3, <2>5, WrittenMore
  <2>7. QED
    BY <1>3, <2>4, <2>6, WrittenMore
<1>10. QED
  BY <1>2, <1>5, <1>6, <1>7, <1>8, <1>9 DEF Formed

\* What can be read is written as a text.
LEMMA RendersAreWritten ==
    ASSUME NEW ast \in Trees, Legible[ast]
    PROVE  Written(Render[ast])
<1> DEFINE S == {a \in Trees : Legible[a] => Written(Render[a])}
<1>1. ASSUME NEW a \in Trees, Below(a) \subseteq S
      PROVE  a \in S
  BY <1>1, RenderIsWritten
<1> HIDE DEF S
<1>2. Trees \subseteq S
  BY <1>1, TreesInduct
<1>3. QED
  BY <1>2 DEF S

---------------------------------------------------------------------------
(* Trees read back. *)

\* What is rendered from a tree reads as the tree, wherever it stands and no colon follows it.
ReadsBack(ast) ==
    \A ts, i : /\ Tokens(ts) /\ i \in Nat /\ i > 0
               /\ Stands(ts, i, Render[ast]) /\ ts[i + Len(Render[ast])].text # ":"
               => ReadsAs(ts, "unary", i, ast, i + Len(Render[ast]))

\* What can be read was parsed.
LEMMA LegibleIsParsed ==
    ASSUME NEW ast \in Trees, Legible[ast]
    PROVE  ast # Unparsed
BY LegibleForms DEF Unparsed

\* A text that stands in another ends before its end.
LEMMA StandsInText ==
    ASSUME NEW ts, Tokens(ts), NEW i \in Nat, i > 0, NEW s, IsSeq(s), Stands(ts, i, s)
    PROVE  i + Len(s) \in 1 .. Len(ts) /\ i \in 1 .. Len(ts)
<1>1. Len(ts) \in Nat /\ Len(s) \in Nat
  BY TokensLength, LengthOfSeq
<1>2. i + Len(s) <= Len(ts)
  BY DEF Stands
<1>3. QED
  BY <1>1, <1>2

\* A literal or a cell reads as what it was rendered from.
LEMMA AtomReadsBack ==
    ASSUME NEW ast \in Trees, Legible[ast], ast.kind \in {"literal", "cell"}
    PROVE  ReadsBack(ast)
<1>1. Render[ast] = <<Atom(ast)>> /\ Len(<<Atom(ast)>>) = 1
  BY RenderUnfolds, OneIsSeq DEF RenderBy
<1>2. Formed(ast)
  BY LegibleForms
<1>3. ast.kind = "cell" => OnGrid(ast.ref)
  BY <1>2 DEF Formed
<1>4. ASSUME NEW ts, NEW i \in Nat, Tokens(ts), i > 0, Stands(ts, i, <<Atom(ast)>>),
             ts[i + 1].text # ":"
      PROVE  ReadsAs(ts, "unary", i, ast, i + 1)
  <2>1. ts[i] = Atom(ast) /\ i \in 1 .. Len(ts)
    BY <1>4, StandOne
  <2>2. QED
    BY <1>3, <1>4, <2>1, AtomReads
<1>5. QED
  BY <1>1, <1>4 DEF ReadsBack

\* So does a range, though only its first corner is written with the sheet.
LEMMA RangeReadsBack ==
    ASSUME NEW ast \in Trees, Legible[ast], ast.kind = "range"
    PROVE  ReadsBack(ast)
<1> DEFINE bare == [ast.last EXCEPT !.sheet = ""]
           a == Atom(Cell(ast.first))
           b == Op(":")
           c == Atom(Cell(bare))
<1>1. Render[ast] = <<a, b, c>>
  BY RenderUnfolds DEF RenderBy
<1>2. Formed(ast) /\ Expandable(ast)
  BY LegibleForms
<1>3. /\ ast = Range2(ast.first, ast.last) /\ OnGrid(ast.first) /\ OnGrid(ast.last)
      /\ ast.last = Ref(ast.last.sheet, ast.last.col) /\ ast.first.sheet = ast.last.sheet
  <2>1. /\ ast = Range2(Ref(ast.first.sheet, ast.first.col), Ref(ast.last.sheet, ast.last.col))
        /\ OnGrid(ast.first) /\ OnGrid(ast.last)
    BY <1>2 DEF Formed
  <2>2. /\ ast.first = Ref(ast.first.sheet, ast.first.col)
        /\ ast.last = Ref(ast.last.sheet, ast.last.col)
    BY <2>1 DEF Range2
  <2>3. QED
    BY <1>2, <2>1, <2>2 DEF Expandable
<1>4. bare.sheet = "" /\ bare.col = ast.last.col /\ [bare EXCEPT !.sheet = ast.first.sheet] = ast.last
  BY <1>3 DEF Ref
<1>5. OnGrid(bare) /\ Inherited(ast.first, bare) = ast.last
  BY <1>3, <1>4 DEF OnGrid, Inherited
<1> HIDE DEF bare
<1>6. Len(<<a, b, c>>) = 3 /\ <<a, b, c>>[1] = a /\ <<a, b, c>>[2] = b /\ <<a, b, c>>[3] = c
  OBVIOUS
<1>7. IsSeq(<<a, b, c>>)
  <2> HIDE DEF a, b, c
  <2>1. <<a, b, c>> \in Seq({a, b, c})
    OBVIOUS
  <2>2. QED
    BY <2>1 DEF IsSeq
<1>8. ASSUME NEW ts, NEW i \in Nat, Tokens(ts), i > 0, Stands(ts, i, <<a, b, c>>)
      PROVE  ReadsAs(ts, "unary", i, ast, i + 3)
  <2>1. i \in 1 .. Len(ts) /\ \A k \in 1 .. 3 : ts[i + k - 1] = <<a, b, c>>[k]
    <3> DEFINE text == <<a, b, c>>
    <3>1. IsSeq(text) /\ Len(text) = 3 /\ Stands(ts, i, text) /\ Tokens(ts) /\ i > 0
      BY <1>6, <1>7, <1>8
    <3> HIDE DEF text
    <3>2. i \in 1 .. Len(ts)
      BY <3>1, StandsInText
    <3>3. \A k \in 1 .. Len(text) : ts[i + k - 1] = text[k]
      BY <3>1 DEF Stands
    <3>4. QED
      BY <3>1, <3>2, <3>3 DEF text
  <2>2. ts[i] = a /\ ts[i + 1] = b /\ ts[i + 2] = c
    <3> HIDE DEF a, b, c
    <3>1. i + 1 - 1 = i /\ i + 2 - 1 = i + 1 /\ i + 3 - 1 = i + 2 /\ 1 \in 1 .. 3
        /\ 2 \in 1 .. 3 /\ 3 \in 1 .. 3
      OBVIOUS
    <3>2. ts[i + 1 - 1] = a /\ ts[i + 2 - 1] = b /\ ts[i + 3 - 1] = c
      BY <1>6, <2>1, <3>1
    <3>3. QED
      BY <3>1, <3>2
  <2>3. ReadsAs(ts, "unary", i, Range2(ast.first, Inherited(ast.first, bare)), i + 3)
    BY <1>3, <1>5, <1>8, <2>1, <2>2, RangeReads
  <2>4. QED
    BY <1>3, <1>5, <2>3
<1> HIDE DEF a, b, c
<1>9. QED
  BY <1>1, <1>6, <1>8 DEF ReadsBack

\* Two tokens and their places.
LEMMA StandTwo ==
    ASSUME NEW ts, Tokens(ts), NEW i \in Nat, i > 0, NEW a, NEW b, Stands(ts, i, <<a, b>>)
    PROVE  /\ ts[i] = a /\ ts[i + 1] = b
           /\ i \in 1 .. Len(ts) /\ i + 1 \in 1 .. Len(ts) /\ i + 2 \in 1 .. Len(ts)
<1> DEFINE two == <<a, b>>
<1>1. Len(two) = 2 /\ two[1] = a /\ two[2] = b /\ Len(ts) \in Nat
  BY TokensLength
<1>2. Stands(ts, i, two)
  OBVIOUS
<1> HIDE DEF two
<1>3. i + 2 <= Len(ts) /\ \A k \in 1 .. 2 : ts[i + k - 1] = two[k]
  BY <1>1, <1>2 DEF Stands
<1>4. i + 1 - 1 = i /\ i + 2 - 1 = i + 1 /\ 1 \in 1 .. 2 /\ 2 \in 1 .. 2
  OBVIOUS
<1>5. ts[i + 1 - 1] = two[1] /\ ts[i + 2 - 1] = two[2]
  BY <1>3, <1>4
<1>6. ts[i] = a /\ ts[i + 1] = b
  BY <1>1, <1>4, <1>5
<1>7. i \in 1 .. Len(ts) /\ i + 1 \in 1 .. Len(ts) /\ i + 2 \in 1 .. Len(ts)
  BY <1>1, <1>3
<1>8. QED
  BY <1>6, <1>7

\* Two tokens are a text.
LEMMA TwoIsSeq ==
    ASSUME NEW a, NEW b
    PROVE  IsSeq(<<a, b>>) /\ Len(<<a, b>>) = 2
<1>1. <<a, b>> \in Seq({a, b}) /\ Len(<<a, b>>) = 2
  OBVIOUS
<1>2. QED
  BY <1>1 DEF IsSeq

\* What stands behind a text and a token that closes it.
LEMMA StandClosed ==
    ASSUME NEW ts, Tokens(ts), NEW i \in Nat, i > 0, NEW s, NEW x, IsSeq(s), Stands(ts, i, s \o <<x>>)
    PROVE  /\ Stands(ts, i, s) /\ ts[i + Len(s)] = x
           /\ i + Len(s) \in Nat /\ i + Len(s) > 0 /\ i + Len(s) + 1 = i + Len(s \o <<x>>)
           /\ i + Len(s) \in 1 .. Len(ts) /\ i + Len(s) + 1 \in 1 .. Len(ts)
<1>1. IsSeq(<<x>>) /\ Len(<<x>>) = 1
  BY OneIsSeq
<1>2. Stands(ts, i, s) /\ Stands(ts, i + Len(s), <<x>>)
  BY <1>1, StandJoined
<1>3. /\ i + Len(s) \in Nat /\ i + Len(s) > 0
      /\ i + Len(s) + Len(<<x>>) = i + Len(s \o <<x>>)
  BY <1>1, StandJoined
<1> DEFINE j == i + Len(s)
<1> HIDE DEF j
<1>4. j \in Nat /\ j > 0 /\ Stands(ts, j, <<x>>)
  BY <1>2, <1>3 DEF j
<1>5. ts[j] = x /\ j \in 1 .. Len(ts) /\ j + 1 \in 1 .. Len(ts)
  BY <1>4, StandOne
<1>6. QED
  BY <1>1, <1>2, <1>3, <1>5 DEF j

\* A sign with its operand in parentheses reads as what it was rendered from.
LEMMA UnaryReadsBack ==
    ASSUME NEW ast \in Trees, Legible[ast], ast.kind = "unary", ReadsBack(ast.arg)
    PROVE  ReadsBack(ast)
<1> DEFINE text == Render[ast.arg]
           open == <<Op(ast.op), Op("(")>>
           all == open \o text \o <<Op(")")>>
<1>1. Render[ast] = all
  BY RenderUnfolds DEF RenderBy
<1>2. /\ ast = Unary(ast.op, ast.arg) /\ ast.op \in {"+", "-"} /\ ast.arg \in Trees
      /\ Legible[ast.arg]
  BY LegibleForms, TreeAssumption DEF Formed, Below
<1>3. ast.arg # Unparsed /\ IsSeq(text) /\ IsSeq(open) /\ Len(open) = 2
  BY <1>2, LegibleIsParsed, RendersAreWritten, TwoIsSeq DEF Written
<1>4. Op(")").text = ")" /\ Op(ast.op).text = ast.op /\ ")" # ":" /\ ")" \notin Operators
  BY DEF Op, Operators, Comparators
<1>5. ASSUME NEW ts, NEW i \in Nat, Tokens(ts), i > 0, Stands(ts, i, all)
      PROVE  ReadsAs(ts, "unary", i, ast, i + Len(all))
  <2> HIDE DEF text, open
  <2>1. IsSeq(open \o text) /\ Len(open \o text) = 2 + Len(text) /\ Len(text) \in Nat
    <3>1. IsSeq(open \o text) /\ Len(open \o text) = Len(open) + Len(text)
      BY <1>3, TextsJoined
    <3>2. Len(text) \in Nat /\ Len(open) = 2
      BY <1>3, LengthOfSeq
    <3>3. QED
      BY <3>1, <3>2
  <2> DEFINE most == open \o text
  <2> HIDE DEF most
  <2>2. Stands(ts, i, most \o <<Op(")")>>) /\ IsSeq(most)
    BY <1>5, <2>1 DEF most
  <2>3. Stands(ts, i, most) /\ ts[i + Len(most)] = Op(")")
      /\ i + Len(most) + 1 = i + Len(most \o <<Op(")")>>)
    BY <1>5, <2>2, StandClosed
  <2>4. Stands(ts, i, open) /\ Stands(ts, i + Len(open), text)
    BY <1>3, <1>5, <2>3, StandJoined DEF most
  <2>5. /\ ts[i] = Op(ast.op) /\ ts[i + 1] = Op("(")
        /\ i \in 1 .. Len(ts) /\ i + 1 \in 1 .. Len(ts) /\ i + 2 \in 1 .. Len(ts)
    BY <1>5, <2>4, StandTwo DEF open
  <2> DEFINE j == i + 2 + Len(text)
  <2>6. j = i + Len(most) /\ i + 2 \in Nat /\ i + 2 > 0 /\ i + 1 + 1 = i + 2
    BY <2>1 DEF most
  <2>7. ts[j] = Op(")") /\ Stands(ts, i + 2, text)
    BY <1>3, <2>3, <2>4, <2>6
  <2>8. ReadsAs(ts, "unary", i + 2, ast.arg, j)
    <3>1. ts[i + 2 + Len(text)].text # ":"
      BY <1>4, <2>7
    <3>2. QED
      BY <1>5, <2>6, <2>7, <3>1 DEF ReadsBack, text
  <2> HIDE DEF j
  <2>9. ReadsAs(ts, "comparison", i + 2, ast.arg, j)
    BY <1>3, <1>4, <1>5, <2>5, <2>7, <2>8, AsComparison
  <2>10. ReadsAs(ts, "unary", i + 1, ast.arg, j + 1)
    BY <1>3, <1>4, <1>5, <2>5, <2>6, <2>7, <2>9, ParenthesesRead
  <2>11. ts[i].text = ast.op
    BY <1>4, <2>5
  <2>12. ReadsAs(ts, "unary", i, Unary(ts[i].text, ast.arg), j + 1)
    BY <1>2, <1>3, <1>5, <2>5, <2>10, <2>11, SignReads
  <2>13. j + 1 = i + Len(all)
    BY <2>3, <2>6 DEF most
  <2>14. QED
    BY <1>2, <2>11, <2>12, <2>13
<1> HIDE DEF all
<1>6. QED
  BY <1>1, <1>5 DEF ReadsBack

\* An operation in its parentheses reads as what it was rendered from.
LEMMA BinaryReadsBack ==
    ASSUME NEW ast \in Trees, Legible[ast], ast.kind = "binary", ReadsBack(ast.left),
           ReadsBack(ast.right)
    PROVE  ReadsBack(ast)
<1> DEFINE left == Render[ast.left]
           right == Render[ast.right]
           open == <<Op("(")>>
           sign == <<Op(ast.op)>>
           all == open \o left \o sign \o right \o <<Op(")")>>
<1>1. Render[ast] = all
  BY RenderUnfolds DEF RenderBy, RenderBinary
<1>2. /\ ast = Binary(ast.op, ast.left, ast.right) /\ ast.op \in Operators
      /\ ast.left \in Trees /\ Legible[ast.left] /\ ast.right \in Trees /\ Legible[ast.right]
  BY LegibleForms, TreeAssumption DEF Formed, Below, Operators
<1>3. /\ ast.left # Unparsed /\ ast.right # Unparsed
      /\ IsSeq(left) /\ IsSeq(right) /\ IsSeq(open) /\ Len(open) = 1 /\ IsSeq(sign) /\ Len(sign) = 1
  BY <1>2, LegibleIsParsed, RendersAreWritten, OneIsSeq DEF Written
<1>4. /\ Op(")").text = ")" /\ Op(ast.op).text = ast.op /\ ")" # ":" /\ ")" \notin Operators
      /\ ast.op # ":"
  BY <1>2 DEF Op, Operators, Comparators
<1>5. ASSUME NEW ts, NEW i \in Nat, Tokens(ts), i > 0, Stands(ts, i, all)
      PROVE  ReadsAs(ts, "unary", i, ast, i + Len(all))
  <2> HIDE DEF left, right, open
  <2> DEFINE one == open \o left
             two == one \o sign
             three == two \o right
  <2>1. IsSeq(one) /\ IsSeq(two) /\ IsSeq(three)
    <3>1. IsSeq(one)
      BY <1>3, TextsJoined
    <3> HIDE DEF one
    <3>2. IsSeq(two)
      BY <1>3, <3>1, TextsJoined
    <3> HIDE DEF two
    <3>3. IsSeq(three)
      BY <1>3, <3>2, TextsJoined
    <3>4. QED
      BY <3>1, <3>2, <3>3
  <2> HIDE DEF three
  <2>2. Stands(ts, i, three \o <<Op(")")>>) /\ all = three \o <<Op(")")>>
    BY <1>5 DEF three
  <2>3. /\ Stands(ts, i, three) /\ ts[i + Len(three)] = Op(")")
        /\ i + Len(three) + 1 = i + Len(three \o <<Op(")")>>)
    BY <1>5, <2>1, <2>2, StandClosed
  <2> HIDE DEF two
  <2>4. Stands(ts, i, two) /\ Stands(ts, i + Len(two), right)
      /\ i + Len(two) + Len(right) = i + Len(three)
    BY <1>3, <1>5, <2>1, <2>3, StandJoined DEF three
  <2> HIDE DEF one
  <2>5. /\ Stands(ts, i, one) /\ ts[i + Len(one)] = Op(ast.op) /\ i + Len(one) + 1 = i + Len(two)
    BY <1>5, <2>1, <2>4, StandClosed DEF two
  <2>6. /\ Stands(ts, i, open) /\ Stands(ts, i + Len(open), left)
        /\ i + Len(open) + Len(left) = i + Len(one)
    <3>1. Stands(ts, i, open \o left) /\ IsSeq(open) /\ IsSeq(left) /\ Tokens(ts) /\ i > 0
      BY <1>3, <1>5, <2>5 DEF one
    <3>2. Stands(ts, i, open) /\ Stands(ts, i + Len(open), left)
      BY <3>1, StandJoined
    <3>3. i + Len(open) + Len(left) = i + Len(open \o left)
      BY <3>1, StandJoined
    <3>4. QED
      BY <3>2, <3>3 DEF one
  <2>7. ts[i] = Op("(") /\ i \in 1 .. Len(ts) /\ i + 1 \in 1 .. Len(ts)
    BY <1>5, <2>6, StandOne DEF open
  <2> DEFINE j == i + 1 + Len(left)
             k == j + 1 + Len(right)
  <2>8. Len(left) \in Nat /\ Len(right) \in Nat
    BY <1>3, LengthOfSeq
  <2>9. j \in Nat /\ j > 0 /\ j + 1 \in Nat /\ j + 1 > 0
    BY <2>8
  <2>10. j = i + Len(one) /\ j + 1 = i + Len(two) /\ k = i + Len(three) /\ k + 1 = i + Len(all)
    <3> HIDE DEF all
    <3>1. j = i + Len(one)
      BY <1>3, <2>6
    <3>2. j + 1 = i + Len(two)
      BY <2>5, <3>1
    <3>3. k = i + Len(three)
      BY <2>4, <3>2
    <3>4. k + 1 = i + Len(all)
      BY <2>2, <2>3, <3>3
    <3>5. QED
      BY <3>1, <3>2, <3>3, <3>4
  <2>11. /\ ts[j] = Op(ast.op) /\ ts[k] = Op(")")
         /\ Stands(ts, i + 1, left) /\ Stands(ts, j + 1, right)
    BY <1>3, <2>3, <2>4, <2>5, <2>6, <2>10
  <2>12. ReadsAs(ts, "unary", i + 1, ast.left, j)
    <3>1. ts[i + 1 + Len(left)].text # ":"
      BY <1>4, <2>11
    <3>2. QED
      BY <1>5, <2>11, <3>1 DEF ReadsBack, left
  <2>13. ReadsAs(ts, "unary", j + 1, ast.right, k)
    <3>1. ts[j + 1 + Len(right)].text # ":"
      BY <1>4, <2>11
    <3> HIDE DEF j
    <3>2. QED
      BY <1>5, <2>9, <2>11, <3>1 DEF ReadsBack, right
  <2> HIDE DEF j, k, all
  <2>14. ts[j].text = ast.op /\ ts[k].text = ")"
    BY <1>4, <2>11
  <2>15. ReadsAs(ts, "comparison", i + 1, Binary(ts[j].text, ast.left, ast.right), k)
    <3>1. ts[j].text \in Operators /\ ts[k].text \notin Operators
      BY <1>2, <1>4, <2>14
    <3>2. QED
      BY <1>3, <1>5, <2>7, <2>12, <2>13, <3>1, AsOperation
  <2>16. ReadsAs(ts, "comparison", i + 1, ast, k)
    BY <1>2, <2>14, <2>15
  <2>17. ReadsAs(ts, "unary", i, ast, k + 1)
    BY <1>5, <2>7, <2>14, <2>16, LegibleIsParsed, ParenthesesRead
  <2>18. QED
    BY <2>10, <2>17
<1> HIDE DEF all
<1>6. QED
  BY <1>1, <1>5 DEF ReadsBack

\* A sequence from one place on is its element there and the sequence behind it.
LEMMA TailOfArguments ==
    ASSUME NEW S, NEW s \in Seq(S), NEW k \in 1 .. Len(s)
    PROVE  /\ SubSeq(s, k, k) = <<s[k]>> /\ SubSeq(s, 1, Len(s)) = s
           /\ k + 1 \in 1 .. Len(s) => SubSeq(s, k, Len(s)) = <<s[k]>> \o SubSeq(s, k + 1, Len(s))
<1>1. Len(s) \in Nat /\ s[k] \in S
  BY ElementOfSeq
<1>2. SubSeq(s, k, k) = <<s[k]>>
  <2>1. SubSeq(s, k, k) = <<s[k]>> \o SubSeq(s, k + 1, k)
    BY <1>1, SubSeqRecursiveFirst
  <2>2. SubSeq(s, k + 1, k) = <<>>
    BY SubSeqEmpty
  <2>3. <<s[k]>> \o <<>> = <<s[k]>>
    OBVIOUS
  <2>4. QED
    BY <2>1, <2>2, <2>3
<1>3. SubSeq(s, 1, Len(s)) = s
  BY SubSeqFull
<1>4. k + 1 \in 1 .. Len(s) => SubSeq(s, k, Len(s)) = <<s[k]>> \o SubSeq(s, k + 1, Len(s))
  BY <1>1, SubSeqRecursiveFirst
<1>5. QED
  BY <1>2, <1>3, <1>4

\* The arguments read back, from the last to the first.
LEMMA ListReadsBack ==
    ASSUME NEW args \in Seq(Trees), NEW n \in Nat, n > 0, Len(args) = n, DOMAIN args = 1 .. n,
           \A k \in 1 .. n : Legible[args[k]] /\ args[k] \in Trees /\ ReadsBack(args[k]),
           NEW ts, Tokens(ts), NEW i \in Nat, i > 0, Stands(ts, i, Listed(Render, args)),
           ts[i + Len(Listed(Render, args))] = Op(")")
    PROVE  ReadsAs(ts, "arguments", i, args, i + Len(Listed(Render, args))) /\ ts[i].text # ")"
<1> DEFINE last == i + Len(Listed(Render, args))
<1>1. ASSUME NEW k \in 1 .. n
      PROVE  Written(Render[args[k]]) /\ IsSeq(Render[args[k]]) /\ args[k] # Unparsed
  <2>1. args[k] \in Trees /\ Legible[args[k]]
    OBVIOUS
  <2>2. QED
    BY <2>1, RendersAreWritten, LegibleIsParsed DEF Written
<1>2. PICK from, to : Placed(ts, i, args, n, from, to)
  BY <1>1, ListStands
<1> HIDE DEF last
<1>3. from[1] = i /\ to[n] = last
  BY <1>2 DEF Placed, last
<1>4. \A k \in 1 .. n : /\ from[k] \in Nat /\ from[k] > 0 /\ Stands(ts, from[k], Render[args[k]])
                        /\ to[k] = from[k] + Len(Render[args[k]])
  BY <1>2 DEF Placed
<1>5. \A k \in 1 .. n : k + 1 \in 1 .. n => ts[to[k]] = Op(",") /\ from[k + 1] = to[k] + 1
  BY <1>2 DEF Placed
<1>6. /\ Op(",").text = "," /\ Op(")").text = ")"
      /\ \A x \in {",", ")"} : x # ":" /\ x \notin Operators
  BY DEF Op, Operators, Comparators
<1>7. ASSUME NEW k \in 1 .. n
      PROVE  /\ k # n => k + 1 \in 1 .. n
             /\ ts[to[k]].text = IF k = n THEN ")" ELSE ","
  <2>1. k # n => k + 1 \in 1 .. n
    OBVIOUS
  <2>2. CASE k = n
    BY <1>3, <1>6, <2>2 DEF last
  <2>3. CASE k # n
    BY <1>5, <1>6, <2>1, <2>3
  <2>4. QED
    BY <2>1, <2>2, <2>3
<1>8. ASSUME NEW k \in 1 .. n
      PROVE  ReadsAs(ts, "comparison", from[k], args[k], to[k]) /\ from[k] \in 1 .. Len(ts)
  <2>1. ts[to[k]].text # ":" /\ ts[to[k]].text \notin Operators
    BY <1>6, <1>7
  <2>2. ReadsAs(ts, "unary", from[k], args[k], to[k])
    <3>1. /\ from[k] \in Nat /\ from[k] > 0 /\ Stands(ts, from[k], Render[args[k]])
          /\ to[k] = from[k] + Len(Render[args[k]])
      BY <1>4
    <3>2. ReadsBack(args[k])
      OBVIOUS
    <3>3. ts[from[k] + Len(Render[args[k]])].text # ":"
      BY <2>1, <3>1
    <3>4. QED
      BY <3>1, <3>2, <3>3 DEF ReadsBack
  <2>3. from[k] \in 1 .. Len(ts)
    BY <1>1, <1>4, StandsInText
  <2>4. QED
    BY <1>1, <2>1, <2>2, <2>3, AsComparison
<1> DEFINE S == {k \in 1 .. n : ReadsAs(ts, "arguments", from[k], SubSeq(args, k, n), last)}
<1>9. n \in S
  <2>1. n \in 1 .. n /\ ts[to[n]].text # ","
    <3>1. n \in 1 .. n
      OBVIOUS
    <3>2. ts[to[n]].text = ")"
      BY <1>7, <3>1
    <3>3. QED
      BY <3>1, <3>2
  <2>2. ReadsAs(ts, "arguments", from[n], <<args[n]>>, to[n])
    BY <1>1, <1>8, <2>1, ArgumentsRead
  <2>3. <<args[n]>> = SubSeq(args, n, n)
    BY <2>1, TailOfArguments
  <2>4. QED
    BY <1>3, <2>1, <2>2, <2>3
<1>10. ASSUME NEW k \in 1 .. n, k + 1 \in 1 .. n, k + 1 \in S
       PROVE  k \in S
  <2> DEFINE rest == SubSeq(args, k + 1, n)
  <2>1. ts[to[k]].text = "," /\ from[k + 1] = to[k] + 1
    BY <1>5, <1>6, <1>10
  <2>2. ReadsAs(ts, "arguments", to[k] + 1, rest, last)
    BY <1>10, <2>1
  <2> HIDE DEF rest
  <2>3. ReadsAs(ts, "arguments", from[k], <<args[k]>> \o rest, last)
    BY <1>1, <1>8, <2>1, <2>2, ArgumentsRead
  <2>4. SubSeq(args, k, n) = <<args[k]>> \o rest
    BY <1>10, TailOfArguments DEF rest
  <2>5. ReadsAs(ts, "arguments", from[k], SubSeq(args, k, n), last)
    BY <2>3, <2>4
  <2>6. QED
    BY <2>5
<1> HIDE DEF S
<1>11. 1 .. n \subseteq S
  BY <1>9, <1>10, DownFrom
<1>12. 1 \in 1 .. n /\ SubSeq(args, 1, n) = args
  BY TailOfArguments
<1>13. ReadsAs(ts, "arguments", i, args, last)
  <2>1. 1 \in S
    BY <1>11, <1>12
  <2>2. ReadsAs(ts, "arguments", from[1], SubSeq(args, 1, n), last)
    BY <2>1 DEF S
  <2>3. QED
    BY <1>3, <1>12, <2>2
<1>14. ts[i].text # ")"
  <2> DEFINE text == Render[args[1]]
  <2>1. Written(text) /\ Stands(ts, i, text)
    BY <1>1, <1>3, <1>4, <1>12
  <2> HIDE DEF text
  <2>2. Len(text) > 0 /\ Len(text) \in Nat /\ text[1].text # ")"
    BY <2>1, LengthOfSeq DEF Written
  <2>3. 1 \in 1 .. Len(text) /\ i + 1 - 1 = i
    BY <2>2
  <2>4. ts[i + 1 - 1] = text[1]
    BY <2>1, <2>3 DEF Stands
  <2>5. QED
    BY <2>2, <2>3, <2>4
<1>15. QED
  BY <1>13, <1>14 DEF last

\* A call with its arguments reads as what it was rendered from.
LEMMA CallReadsBack ==
    ASSUME NEW ast \in Trees, Legible[ast], ast.kind = "call",
           \A sub \in Below(ast) : Legible[sub] => ReadsBack(sub)
    PROVE  ReadsBack(ast)
<1> DEFINE n == Len(ast.args)
           args == ast.args
           text == Listed(Render, ast.args)
           open == <<Ident(ast.name), Op("(")>>
           all == open \o text \o <<Op(")")>>
<1>1. Render[ast] = all
  BY RenderUnfolds DEF RenderBy
<1>2. /\ ast = Call(ast.name, args) /\ args \in Seq(Trees) /\ ast.name \notin {"+", "-", ")"}
      /\ n \in Nat /\ DOMAIN args = 1 .. n
      /\ \A k \in 1 .. n : Legible[args[k]]
  BY LegibleForms DEF Formed
<1>3. \A k \in 1 .. n : Legible[args[k]] /\ args[k] \in Trees /\ ReadsBack(args[k])
  <2>1. \A k \in 1 .. n : args[k] \in Below(ast) /\ args[k] \in Trees
    BY <1>2, CallArguments
  <2>2. QED
    BY <1>2, <2>1
<1>4. IsSeq(text) /\ Len(text) \in Nat /\ IsSeq(open) /\ Len(open) = 2
  <2>1. \A k \in 1 .. n : IsSeq(Render[args[k]])
    BY <1>3, RendersAreWritten DEF Written
  <2>2. IsSeq(text)
    BY <1>2, <2>1, ListingIsSeq
  <2> HIDE DEF text
  <2>3. QED
    BY <2>2, LengthOfSeq, TwoIsSeq
<1>5. Op(")").text = ")" /\ Op("(").text = "("
  BY DEF Op
<1>6. ASSUME NEW ts, NEW i \in Nat, Tokens(ts), i > 0, Stands(ts, i, all)
      PROVE  ReadsAs(ts, "unary", i, ast, i + Len(all))
  <2> HIDE DEF text, open
  <2> DEFINE most == open \o text
             j == i + 2
  <2>1. IsSeq(most) /\ Len(most) = 2 + Len(text)
    <3>1. IsSeq(open \o text) /\ Len(open \o text) = Len(open) + Len(text)
      BY <1>4, TextsJoined
    <3>2. QED
      BY <1>4, <3>1
  <2> HIDE DEF most
  <2>2. Stands(ts, i, most \o <<Op(")")>>) /\ IsSeq(most)
    BY <1>6, <2>1 DEF most
  <2>3. Stands(ts, i, most) /\ ts[i + Len(most)] = Op(")")
      /\ i + Len(most) + 1 = i + Len(most \o <<Op(")")>>)
    BY <1>6, <2>2, StandClosed
  <2>4. Stands(ts, i, open) /\ Stands(ts, i + Len(open), text)
    BY <1>4, <1>6, <2>3, StandJoined DEF most
  <2>5. ts[i] = Ident(ast.name) /\ ts[i + 1] = Op("(") /\ i \in 1 .. Len(ts)
    BY <1>6, <2>4, StandTwo DEF open
  <2>6. j + Len(text) = i + Len(most) /\ j \in Nat /\ j > 0 /\ Stands(ts, j, text)
    BY <1>4, <2>1, <2>4
  <2>7. ts[j + Len(text)] = Op(")")
    BY <2>3, <2>6
  <2>8. ReadsAs(ts, "unary", i, Call(ast.name, args), j + Len(text) + 1)
    <3> DEFINE e == j + Len(text)
    <3>1. ts[e].text = ")" /\ ts[i + 1].text = "(" /\ j = i + 2
      BY <1>5, <2>5, <2>7
    <3>2. CASE n = 0
      <4>1. text = <<>> /\ args = <<>>
        BY <1>2, <3>2, NoListing DEF text
      <4>2. e = i + 2
        BY <4>1
      <4> HIDE DEF e
      <4>3. ReadsAs(ts, "unary", i, Call(ast.name, <<>>), e + 1)
        BY <1>2, <1>6, <2>5, <3>1, <4>2, EmptyCallReads
      <4>4. QED
        BY <4>1, <4>3 DEF e
    <3>3. CASE n > 0
      <4>1. ReadsAs(ts, "arguments", j, args, j + Len(text)) /\ ts[j].text # ")"
        <5> HIDE DEF j, args, n
        <5>1. Stands(ts, j, Listed(Render, args)) /\ ts[j + Len(Listed(Render, args))] = Op(")")
          BY <2>6, <2>7 DEF text, args
        <5>2. ReadsAs(ts, "arguments", j, args, j + Len(Listed(Render, args))) /\ ts[j].text # ")"
          <6>1. Len(args) = n
            BY DEF n, args
          <6>2. QED
            BY <1>2, <1>3, <1>6, <2>6, <3>3, <5>1, <6>1, ListReadsBack
        <5>3. QED
          BY <5>2 DEF text, args
      <4>2. ReadsAs(ts, "arguments", i + 2, args, e) /\ ts[i + 2].text # ")"
        BY <3>1, <4>1
      <4> HIDE DEF e
      <4>3. ReadsAs(ts, "unary", i, Call(ast.name, args), e + 1)
        BY <1>2, <1>6, <2>5, <3>1, <4>2, CallReads
      <4>4. QED
        BY <4>3 DEF e
    <3>4. QED
      BY <1>2, <3>2, <3>3
  <2>9. j + Len(text) + 1 = i + Len(all)
    BY <2>3, <2>6 DEF most
  <2>10. QED
    BY <1>2, <2>8, <2>9
<1> HIDE DEF all
<1>7. QED
  BY <1>1, <1>6 DEF ReadsBack

\* Every tree that can be read reads as what it was rendered from, by induction over the trees.
LEMMA TreesReadBack ==
    ASSUME NEW ast \in Trees, Legible[ast]
    PROVE  ReadsBack(ast)
<1> DEFINE S == {a \in Trees : Legible[a] => ReadsBack(a)}
<1>1. ASSUME NEW a \in Trees, Below(a) \subseteq S, Legible[a]
      PROVE  ReadsBack(a)
  <2>1. Formed(a) /\ a.kind # "unparsed"
    BY <1>1, LegibleForms
  <2>2. \A sub \in Below(a) : Legible[sub] => ReadsBack(sub)
    BY <1>1
  <2>3. CASE a.kind \in {"literal", "cell"}
    BY <1>1, <2>3, AtomReadsBack
  <2>4. CASE a.kind = "range"
    BY <1>1, <2>4, RangeReadsBack
  <2>5. CASE a.kind = "unary"
    <3>1. Legible[a.arg] /\ a.arg \in Below(a)
      BY <1>1, <2>5, LegibleForms DEF Below
    <3>2. QED
      BY <1>1, <2>2, <2>5, <3>1, UnaryReadsBack
  <2>6. CASE a.kind = "binary"
    <3>1. Legible[a.left] /\ a.left \in Below(a) /\ Legible[a.right] /\ a.right \in Below(a)
      BY <1>1, <2>6, LegibleForms DEF Below
    <3>2. QED
      BY <1>1, <2>2, <2>6, <3>1, BinaryReadsBack
  <2>7. CASE a.kind = "call"
    BY <1>1, <2>2, <2>7, CallReadsBack
  <2>8. QED
    BY <2>1, <2>3, <2>4, <2>5, <2>6, <2>7 DEF Formed
<1>2. ASSUME NEW a \in Trees, Below(a) \subseteq S
      PROVE  a \in S
  BY <1>1, <1>2
<1> HIDE DEF S
<1>3. Trees \subseteq S
  BY <1>2, TreesInduct
<1>4. QED
  BY <1>3 DEF S

\* A rendered formula reads as the formula it was rendered from, for every tree
\* that can be read (formula.py:140-212, 373-416).
THEOREM ParseOfRender ==
    ASSUME NEW ast \in Trees, Legible[ast]
    PROVE  Parse(Render[ast]) = ast
<1> DEFINE text == Render[ast]
           ts == Append(text, Eof)
<1>1. IsSeq(text) /\ Len(text) > 0 /\ ast # Unparsed
  BY RendersAreWritten, LegibleIsParsed DEF Written
<1>2. ReadsBack(ast)
  BY TreesReadBack
<1> HIDE DEF text
<1>3. Tokens(ts) /\ Len(ts) = Len(text) + 1 /\ \A k \in 1 .. Len(text) : ts[k] = text[k]
  <2>1. PICK S : text \in Seq(S)
    BY <1>1 DEF IsSeq
  <2>2. text \in Seq(S \cup {Eof}) /\ Eof \in S \cup {Eof} /\ Len(text) \in Nat
    BY <2>1
  <2>3. ts \in Seq(S \cup {Eof}) /\ Len(ts) = Len(text) + 1
    BY <2>2
  <2>4. \A k \in 1 .. Len(text) : ts[k] = text[k]
    BY <2>2
  <2>5. ts[Len(ts)] = Eof
    BY <2>2, <2>3
  <2> HIDE DEF ts
  <2>6. QED
    BY <2>2, <2>3, <2>4, <2>5 DEF Tokens, IsSeq
<1>4. Parse(text) = LET r == Reading(ts)[<<"comparison", 1>>]
                    IN  IF ~Stuck(r) /\ ts[r.next].kind = "eof" THEN r.ast ELSE Unparsed
  BY DEF Parse
<1> HIDE DEF ts
<1> DEFINE e == 1 + Len(text)
<1>5. Len(text) \in Nat /\ 1 \in 1 .. Len(ts) /\ e = Len(ts)
  BY <1>1, <1>3, LengthOfSeq
<1>6. ts[e].text = "eof" /\ ts[e].kind = "eof"
  BY <1>3, <1>5, TokensLength
<1>7. Stands(ts, 1, text)
  <2>1. 1 + Len(text) <= Len(ts)
    BY <1>3, <1>5
  <2>2. ASSUME NEW k \in 1 .. Len(text)
        PROVE  ts[1 + k - 1] = text[k]
    BY <1>3
  <2>3. QED
    BY <2>1, <2>2 DEF Stands
<1>8. ReadsAs(ts, "unary", 1, ast, e)
  <2>1. ts[1 + Len(text)].text # ":"
    BY <1>6
  <2>2. Stands(ts, 1, Render[ast]) /\ ts[1 + Len(Render[ast])].text # ":" /\ Tokens(ts)
    BY <1>3, <1>7, <2>1 DEF text
  <2>3. 1 \in Nat /\ 1 > 0
    OBVIOUS
  <2>4. ReadsAs(ts, "unary", 1, ast, 1 + Len(Render[ast]))
    BY <1>2, <2>2, <2>3 DEF ReadsBack
  <2>5. QED
    BY <2>4 DEF text
<1> HIDE DEF e
<1>9. ReadsAs(ts, "comparison", 1, ast, e)
  <2>1. ts[e].text \notin Operators
    BY <1>6 DEF Operators, Comparators
  <2>2. QED
    BY <1>1, <1>3, <1>5, <1>8, <2>1, AsComparison
<1>10. /\ Reading(ts)[<<"comparison", 1>>] = Read(ast, e)
       /\ Read(ast, e).ast = ast /\ Read(ast, e).next = e
  BY <1>9 DEF ReadsAs, Read
<1>11. Parse(text) = ast
  BY <1>1, <1>4, <1>6, <1>10 DEF Stuck
<1>12. QED
  BY <1>11 DEF text
=============================================================================
