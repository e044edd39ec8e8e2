---------------------- MODULE WorkbookExperimentProofs ----------------------
(***************************************************************************)
(* The graph check of the worker is exact, in whatever order it visits the *)
(* formulas, what an experiment answers is what it was asked for, and an   *)
(* edit keeps its meaning when it is written as text.                      *)
(***************************************************************************)
EXTENDS WorkbookEdits, FormulaLanguageProofs, SequenceTheorems

---------------------------------------------------------------------------
(* The request, and the formulas it leaves. *)

\* A cell by its full name.
Whole(key) == Global(key, request.sheet)

\* The worker has a workbook and a request.
Asked == workbook \in Workbooks /\ request \in Requests

\* The names under which the worker keeps the formulas.
Keys == IF Preflighting THEN DOMAIN workbook.formulas
        ELSE {Ref("", ref.col) : ref \in {f \in DOMAIN workbook.formulas : f.sheet = request.sheet}}

\* The request was taken up: the overrides are of values, and the formulas of an upload
\* are in the subset.
Taken ==
    /\ ~Preflighting =>
         /\ request.sheet \in Sheets
         /\ \A key \in OverrideKeys : /\ Whole(key) \in DOMAIN workbook.values
                                      /\ Whole(key) \notin DOMAIN workbook.formulas
    /\ DOMAIN formulas = Keys
    /\ \A key \in Keys : formulas[key].ast \in Trees
    /\ Preflighting => \A key \in Keys : InSubset(formulas[key])

\* After the first n edits, a formula is the last one they wrote.
EditsOf(n, key) == {i \in 1 .. n : request.edits[i].col = key.col}

EditedTo(n) ==
    /\ n \in 0 .. Len(request.edits)
    /\ todo = [i \in 1 .. (Len(request.edits) - n) |-> request.edits[i + n]]
    /\ \A key \in Keys :
         formulas[key] = IF EditsOf(n, key) = {} THEN workbook.formulas[Whole(key)]
                         ELSE request.edits[Max(EditsOf(n, key))].new

FormulasMeant == \A key \in Keys : formulas[key] = Meant(workbook, request, Whole(key))

---------------------------------------------------------------------------
(* A walk. *)

\* A graph is finite and its needs are nodes.
IsGraph(needs) ==
    /\ IsFiniteSet(DOMAIN needs)
    /\ \A n \in DOMAIN needs : needs[n] \subseteq DOMAIN needs

\* A walk w that has left the nodes seen behind.
Stage(w, needs, seen) ==
    /\ w = [needs |-> needs, remaining |-> w.remaining, depth |-> w.depth,
            ready |-> w.ready, visited |-> w.visited]
    /\ seen \subseteq DOMAIN needs
    /\ \A n \in seen : needs[n] \subseteq seen
    /\ DOMAIN w.remaining = DOMAIN needs
    /\ \A n \in DOMAIN needs : w.remaining[n] = Cardinality(needs[n] \ seen)
    /\ w.ready \in Seq(DOMAIN needs) /\ IsInjective(w.ready)
    /\ ToSet(w.ready) = {n \in DOMAIN needs \ seen : needs[n] \subseteq seen}
    /\ w.visited = Cardinality(seen)

\* Layers of a graph: every node reads lower ones.
Layered(layer, needs) ==
    /\ layer \in [DOMAIN needs -> 1 .. MaxDepth]
    /\ \A n \in DOMAIN needs : \A m \in needs[n] : layer[m] < layer[n]

\* The depths of a walk: within the limit, above those of the nodes left behind, and
\* no deeper than any layers of the graph.
Deep(w, needs, seen) ==
    /\ w.depth \in [DOMAIN needs -> 1 .. MaxDepth]
    /\ \A n \in DOMAIN needs : \A m \in needs[n] \cap seen : w.depth[m] < w.depth[n]
    /\ \A layer \in [DOMAIN needs -> 1 .. MaxDepth] :
         Layered(layer, needs) => \A n \in DOMAIN needs : w.depth[n] <= layer[n]

\* The graph that is checked, and the one the formulas are taken up in again.
GraphNeeds == [ref \in DOMAIN Candidate |-> Needs(ref)]
WalkNeeds == [key \in DOMAIN formulas |-> EvaluationNeeds(key)]

---------------------------------------------------------------------------
(* The inductive invariant. *)

\* The evaluated formulas have their meaning.
MemoMeans ==
    \A key \in DOMAIN memo : /\ key \in DOMAIN formulas
                             /\ memo[key] = Meaning[Whole(key)] /\ ~IsError(memo[key])

\* The values V have those that are stored and those that are asked for.
Given(V) ==
    /\ Empty \in V
    /\ \A ref \in DOMAIN workbook.values : workbook.values[ref] \in V
    /\ \A i \in DOMAIN request.overrides : request.overrides[i].value \in V

\* All formulas are in the subset.
AllInSubset == \A key \in DOMAIN formulas : InSubset(formulas[key])
AllPlain == \A key \in DOMAIN memo : Plain(memo[key])

\* The evaluated values are made of each other and of the given ones, and each is one
\* value as long as all formulas are in the subset.
MemoMade ==
    /\ \E V : Closed(V) /\ Given(V) /\ \A key \in DOMAIN memo : memo[key] \in V
    /\ AllInSubset => AllPlain

\* The graph is accepted from here on.
Accepted == {"evaluate", "observe", "done"}

\* The reasons are those the worker can have, and the walk counts what is left.
PhaseOK ==
    /\ phase \in {"request", "edit", "graph", "check", "refused"} \cup Accepted
    /\ reason \in {"none", "request", "subset", "edit", "graph", "data", "observation", "killed",
                   "malformed"}
    /\ phase = "refused" <=> reason # "none"
    /\ \A n \in DOMAIN walk.remaining :
         walk.remaining[n] >= 0 /\ (n \in ToSet(walk.ready) => walk.remaining[n] = 0)

\* The formulas are those the request means, as far as it was taken.
FormulasOK ==
    /\ phase \in {"request", "edit", "graph", "check"} => memo = <<>>
    /\ phase = "edit" => ~Preflighting /\ Taken /\ \E n \in 0 .. Len(request.edits) : EditedTo(n)
    /\ phase \in {"graph", "check"} \cup Accepted => Taken /\ FormulasMeant

\* The walks are at a stage of their graphs, and the accepted graph is acceptable.
WalkOK ==
    /\ phase = "check" => Drawable /\ \E seen \in SUBSET DOMAIN GraphNeeds :
                                         Stage(walk, GraphNeeds, seen) /\ Deep(walk, GraphNeeds, seen)
    /\ phase \in Accepted => Acceptable
    /\ phase = "evaluate" => Stage(walk, WalkNeeds, DOMAIN memo)

\* What is answered is what was asked for.
AnswerOK ==
    /\ MemoMeans /\ MemoMade
    /\ phase \in {"observe", "done"} => DOMAIN memo = DOMAIN formulas
    /\ phase = "done" /\ ~Preflighting =>
         response = [col \in request.observed |-> Meaning[Ref(request.sheet, col)]]

\* What is refused had its reason.
ReasonOK ==
    /\ reason = "edit" => \E i \in DOMAIN request.edits : ~SoundEdit(i)
    /\ reason = "graph" => ~Acceptable
    /\ reason \in {"data", "malformed"} => \E key \in DOMAIN formulas : Meaning[Whole(key)].t = reason
    /\ reason = "malformed" => ~Preflighting /\ ~AllInSubset

IInv == Asked /\ PhaseOK /\ FormulasOK /\ WalkOK /\ AnswerOK /\ ReasonOK

---------------------------------------------------------------------------
(* The steps of a walk. *)

\* An order of a finite set names each of its elements once.
LEMMA OrderOfSet ==
    ASSUME NEW S, IsFiniteSet(S), NEW order \in SetToSeqs(S)
    PROVE  order \in Seq(S) /\ IsInjective(order) /\ ToSet(order) = S
<1> DEFINE n == Cardinality(S)
           D == 1 .. n
<1>1. n \in Nat
  BY FS_CardinalityType
<1>2. order \in [D -> S] /\ \A i, j \in D : i # j => order[i] # order[j]
  BY DEF SetToSeqs
<1>3. order \in Injection(D, S)
  BY <1>2 DEF Injection, IsInjective
<1>4. Cardinality(D) = n
  BY <1>1, FS_Interval
<1>5. order \in Surjection(D, S)
  BY <1>3, <1>4, FS_Injection
<1>6. order \in Seq(S)
  BY <1>1, <1>2
<1>7. DOMAIN order = D
  BY <1>2
<1>8. ToSet(order) = S
  BY <1>2, <1>5, <1>7 DEF ToSet, Surjection
<1>9. IsInjective(order)
  BY <1>2, <1>7 DEF IsInjective
<1>10. QED
  BY <1>6, <1>8, <1>9

\* A walk starts with the nodes that need nothing, and with nothing left behind.
LEMMA WalkStarts ==
    ASSUME NEW needs, IsGraph(needs), Starting(needs)
    PROVE  Stage(walk', needs, {}) /\ Deep(walk', needs, {})
<1> DEFINE D == DOMAIN needs
<1>1. PICK order \in SetToSeqs(Free(needs)) :
        walk' = [needs |-> needs, remaining |-> [n \in D |-> Cardinality(needs[n])],
                 depth |-> [n \in D |-> 1], ready |-> order, visited |-> 0]
  BY DEF Starting
<1>2. Free(needs) = {n \in D : needs[n] = {}} /\ Free(needs) \in SUBSET D
  BY DEF Free
<1>3. IsFiniteSet(Free(needs))
  BY <1>2, FS_Subset DEF IsGraph
<1>4. order \in Seq(Free(needs)) /\ IsInjective(order) /\ ToSet(order) = Free(needs)
  BY <1>1, <1>3, OrderOfSet
<1>5. order \in Seq(D)
  BY <1>2, <1>4
<1>6. Cardinality({}) = 0
  BY FS_EmptySet
<1>7. \A n \in D : needs[n] \ {} = needs[n]
  OBVIOUS
<1>8. MaxDepth \in Nat \ {0}
  BY WorkbookAssumption
<1>9. Stage(walk', needs, {})
  <2> DEFINE w == walk'
  <2>1. /\ w.needs = needs /\ w.remaining = [n \in D |-> Cardinality(needs[n])]
        /\ w.depth = [n \in D |-> 1] /\ w.ready = order /\ w.visited = 0
    BY <1>1
  <2>2. w = [needs |-> needs, remaining |-> w.remaining, depth |-> w.depth,
             ready |-> w.ready, visited |-> w.visited]
    BY <1>1
  <2>3. DOMAIN w.remaining = D /\ \A n \in D : w.remaining[n] = Cardinality(needs[n] \ {})
    BY <1>7, <2>1
  <2>4. Free(needs) = {n \in D \ {} : needs[n] \subseteq {}}
    BY <1>2
  <2>5. ToSet(w.ready) = {n \in D \ {} : needs[n] \subseteq {}}
    BY <1>4, <2>1, <2>4
  <2>6. w.ready \in Seq(D) /\ IsInjective(w.ready) /\ w.visited = Cardinality({})
    BY <1>4, <1>5, <1>6, <2>1
  <2> HIDE DEF w
  <2>7. Stage(w, needs, {})
    BY <2>2, <2>3, <2>5, <2>6 DEF Stage
  <2>8. QED
    BY <2>7 DEF w
<1>10. ASSUME NEW layer \in [D -> 1 .. MaxDepth], NEW n \in D
       PROVE  1 <= layer[n]
  <2>1. layer[n] \in 1 .. MaxDepth /\ MaxDepth \in Nat
    BY <1>8
  <2>2. QED
    BY <2>1
<1>11. Deep(walk', needs, {})
  <2>1. walk'.depth = [n \in D |-> 1]
    BY <1>1
  <2>2. walk'.depth \in [D -> 1 .. MaxDepth]
    <3>1. 1 \in 1 .. MaxDepth
      BY <1>8
    <3>2. QED
      BY <2>1, <3>1
  <2>3. \A n \in D : walk'.depth[n] = 1
    BY <2>1
  <2>4. QED
    BY <1>10, <2>2, <2>3 DEF Deep
<1>12. QED
  BY <1>9, <1>11

\* The formula that is visited needs only what was left behind.
LEMMA ReadyNode ==
    ASSUME NEW w, NEW needs, NEW seen, Stage(w, needs, seen), w.ready # <<>>
    PROVE  /\ Last(w.ready) \in DOMAIN needs \ seen /\ needs[Last(w.ready)] \subseteq seen
           /\ Len(w.ready) \in Nat \ {0} /\ Last(w.ready) = w.ready[Len(w.ready)]
           /\ DOMAIN w.ready = 1 .. Len(w.ready)
<1>1. w.ready \in Seq(DOMAIN needs)
  BY DEF Stage
<1>2. Len(w.ready) \in Nat \ {0} /\ DOMAIN w.ready = 1 .. Len(w.ready)
  BY <1>1
<1>3. Last(w.ready) = w.ready[Len(w.ready)]
  BY DEF Last
<1>4. Last(w.ready) \in ToSet(w.ready)
  BY <1>2, <1>3 DEF ToSet
<1>5. ToSet(w.ready) = {n \in DOMAIN needs \ seen : needs[n] \subseteq seen}
  BY DEF Stage
<1>6. QED
  BY <1>2, <1>3, <1>4, <1>5

\* The last is taken from a sequence without repetitions, and others are put behind.
LEMMA ReadyTogether ==
    ASSUME NEW D, NEW s \in Seq(D), s # <<>>, IsInjective(s), NEW o \in Seq(D), IsInjective(o),
           ToSet(o) \cap ToSet(s) = {}
    PROVE  LET t == Front(s) \o o
           IN  t \in Seq(D) /\ IsInjective(t) /\ ToSet(t) = (ToSet(s) \ {Last(s)}) \cup ToSet(o)
<1> DEFINE n == Len(s)
           k == Len(o)
           f == Front(s)
           t == f \o o
<1>1. n \in Nat \ {0} /\ k \in Nat /\ DOMAIN s = 1 .. n /\ DOMAIN o = 1 .. k
  OBVIOUS
<1>2. f \in Seq(D) /\ Len(f) = n - 1 /\ \A i \in 1 .. (n - 1) : f[i] = s[i]
  BY <1>1 DEF Front
<1>3. /\ t \in Seq(D) /\ Len(t) = n - 1 + k /\ DOMAIN t = 1 .. (n - 1 + k)
      /\ \A i \in 1 .. (n - 1) : t[i] = s[i]
      /\ \A i \in n .. (n - 1 + k) : t[i] = o[i - (n - 1)]
  <2> HIDE DEF f
  <2>1. t \in Seq(D) /\ Len(t) = Len(f) + Len(o)
    BY <1>2, ConcatProperties
  <2>2. Len(t) = n - 1 + k /\ DOMAIN t = 1 .. Len(t)
    BY <1>2, <2>1
  <2>3. ASSUME NEW i \in 1 .. (n - 1)
        PROVE  t[i] = s[i]
    <3>1. i \in 1 .. Len(f)
      BY <1>2
    <3>2. t[i] = f[i]
      BY <1>2, <3>1
    <3>3. QED
      BY <1>2, <3>2
  <2>4. ASSUME NEW i \in n .. (n - 1 + k)
        PROVE  t[i] = o[i - (n - 1)]
    <3>1. i \in (Len(f) + 1) .. (Len(f) + Len(o))
      BY <1>1, <1>2
    <3>2. t[i] = o[i - Len(f)]
      BY <1>2, <3>1
    <3>3. QED
      BY <1>2, <3>2
  <2>5. QED
    BY <2>1, <2>2, <2>3, <2>4
<1>4. Last(s) = s[n]
  BY DEF Last
<1>5. \A i, j \in 1 .. n : s[i] = s[j] => i = j
  BY <1>1 DEF IsInjective
<1>6. \A i, j \in 1 .. k : o[i] = o[j] => i = j
  BY <1>1 DEF IsInjective
<1>7. \A i \in 1 .. n : s[i] \in ToSet(s)
  BY <1>1 DEF ToSet
<1>8. \A i \in 1 .. k : o[i] \in ToSet(o)
  BY <1>1 DEF ToSet
<1> HIDE DEF n, k, f, t
<1>9. IsInjective(t)
  <2>1. SUFFICES ASSUME NEW i \in 1 .. (n - 1 + k), NEW j \in 1 .. (n - 1 + k), t[i] = t[j]
                 PROVE  i = j
    BY <1>3 DEF IsInjective
  <2>2. CASE i <= n - 1 /\ j <= n - 1
    BY <1>1, <1>3, <1>5, <2>1, <2>2
  <2>3. CASE i >= n /\ j >= n
    <3>1. i - (n - 1) \in 1 .. k /\ j - (n - 1) \in 1 .. k
      BY <1>1, <2>3
    <3>2. o[i - (n - 1)] = o[j - (n - 1)]
      BY <1>1, <1>3, <2>1, <2>3
    <3>3. QED
      BY <1>1, <1>6, <3>1, <3>2
  <2>4. CASE i <= n - 1 /\ j >= n
    <3>1. j - (n - 1) \in 1 .. k /\ i \in 1 .. n
      BY <1>1, <2>4
    <3>2. s[i] = o[j - (n - 1)]
      BY <1>1, <1>3, <2>1, <2>4
    <3>3. QED
      BY <1>7, <1>8, <3>1, <3>2
  <2>5. CASE j <= n - 1 /\ i >= n
    <3>1. i - (n - 1) \in 1 .. k /\ j \in 1 .. n
      BY <1>1, <2>5
    <3>2. s[j] = o[i - (n - 1)]
      BY <1>1, <1>3, <2>1, <2>5
    <3>3. QED
      BY <1>7, <1>8, <3>1, <3>2
  <2>6. QED
    BY <1>1, <2>2, <2>3, <2>4, <2>5
<1>10. ASSUME NEW x
       PROVE  x \in ToSet(t) => x \in (ToSet(s) \ {s[n]}) \cup ToSet(o)
  <2>1. SUFFICES ASSUME x \in ToSet(t)
                 PROVE  x \in (ToSet(s) \ {s[n]}) \cup ToSet(o)
    OBVIOUS
  <2>2. PICK i \in 1 .. (n - 1 + k) : x = t[i]
    BY <1>3, <2>1 DEF ToSet
  <2>3. CASE i <= n - 1
    <3>1. i \in 1 .. n /\ n \in 1 .. n /\ i # n /\ x = s[i]
      BY <1>1, <1>3, <2>2, <2>3
    <3>2. QED
      BY <1>5, <1>7, <3>1
  <2>4. CASE i >= n
    <3>1. i - (n - 1) \in 1 .. k /\ x = o[i - (n - 1)]
      BY <1>1, <1>3, <2>2, <2>4
    <3>2. QED
      BY <1>8, <3>1
  <2>5. QED
    BY <1>1, <2>3, <2>4
<1>11. ASSUME NEW x
       PROVE  x \in (ToSet(s) \ {s[n]}) \cup ToSet(o) => x \in ToSet(t)
  <2>1. ASSUME x \in ToSet(s) \ {s[n]}
        PROVE  x \in ToSet(t)
    <3>1. PICK i \in 1 .. n : x = s[i]
      BY <1>1, <2>1 DEF ToSet
    <3>2. i \in 1 .. (n - 1) /\ i \in 1 .. (n - 1 + k)
      BY <1>1, <2>1, <3>1
    <3>3. QED
      BY <1>3, <3>1, <3>2 DEF ToSet
  <2>2. ASSUME x \in ToSet(o)
        PROVE  x \in ToSet(t)
    <3>1. PICK i \in 1 .. k : x = o[i]
      BY <1>1, <2>2 DEF ToSet
    <3> DEFINE j == i + (n - 1)
    <3>2. j \in 1 .. (n - 1 + k) /\ j \in n .. (n - 1 + k) /\ j - (n - 1) = i
      BY <1>1
    <3>3. t[j] = x
      BY <1>3, <3>1, <3>2
    <3>4. QED
      BY <1>3, <3>2, <3>3 DEF ToSet
  <2>3. QED
    BY <2>1, <2>2
<1>12. ToSet(t) = (ToSet(s) \ {Last(s)}) \cup ToSet(o)
  BY <1>4, <1>10, <1>11
<1>13. QED
  BY <1>3, <1>9, <1>12 DEF t, f

\* Of a number and another.
LEMMA MaxOfTwo ==
    ASSUME NEW a \in Int, NEW b \in Int
    PROVE  Max({a, b}) = IF a >= b THEN a ELSE b
<1>1. \E x \in {a, b} : \A y \in {a, b} : x >= y
  OBVIOUS
<1>2. Max({a, b}) \in {a, b} /\ \A y \in {a, b} : Max({a, b}) >= y
  BY <1>1 DEF Max
<1>3. QED
  BY <1>2

\* Leaving a ready node is a stage on: what its dependents need shrinks by it, and
\* those that need nothing more become ready.
LEMMA WalkLeaves ==
    ASSUME NEW needs, NEW seen, IsGraph(needs), Stage(walk, needs, seen), walk.ready # <<>>,
           Leaving(Last(walk.ready))
    PROVE  Stage(walk', needs, seen \cup {Last(walk.ready)})
<1> DEFINE D == DOMAIN needs
           node == Last(walk.ready)
           all == seen \cup {node}
           dependents == {n \in D : node \in needs[n]}
           remaining == [n \in D |-> IF n \in dependents THEN walk.remaining[n] - 1
                                     ELSE walk.remaining[n]]
           free == {n \in dependents : remaining[n] = 0}
<1>1. /\ walk.needs = needs /\ seen \subseteq D /\ DOMAIN walk.remaining = D
      /\ walk.ready \in Seq(D) /\ IsInjective(walk.ready)
      /\ ToSet(walk.ready) = {n \in D \ seen : needs[n] \subseteq seen}
      /\ walk.visited = Cardinality(seen)
      /\ \A n \in seen : needs[n] \subseteq seen
      /\ \A n \in D : walk.remaining[n] = Cardinality(needs[n] \ seen)
  BY DEF Stage
<1>2. /\ walk = [needs |-> needs, remaining |-> walk.remaining, depth |-> walk.depth,
                 ready |-> walk.ready, visited |-> walk.visited]
  BY DEF Stage
<1>3. Dependents(node) = dependents
  BY <1>1 DEF Dependents
<1> DEFINE deeper == [n \in DOMAIN walk.depth |-> IF n \in dependents THEN DepthBehind(n, node)
                                                ELSE walk.depth[n]]
<1>4. PICK order \in SetToSeqs(free) :
        walk' = [walk EXCEPT !.remaining = remaining, !.depth = deeper,
                             !.ready = Front(walk.ready) \o order, !.visited = walk.visited + 1]
  <2>1. PICK order \in SetToSeqs({n \in Dependents(node) :
               [m \in DOMAIN walk.needs |-> IF m \in Dependents(node) THEN walk.remaining[m] - 1
                                            ELSE walk.remaining[m]][n] = 0}) :
          walk' = [walk EXCEPT
            !.remaining = [m \in DOMAIN walk.needs |->
                             IF m \in Dependents(node) THEN walk.remaining[m] - 1 ELSE walk.remaining[m]],
            !.depth = [n \in DOMAIN @ |-> IF n \in Dependents(node) THEN DepthBehind(n, node) ELSE @[n]],
            !.ready = Front(@) \o order, !.visited = @ + 1]
    BY DEF Leaving
  <2> HIDE DEF node
  <2>2. QED
    BY <1>1, <1>3, <2>1
<1>5. node \in D \ seen /\ needs[node] \subseteq seen
  BY ReadyNode
<1> HIDE DEF node, deeper
<1>6. \A n \in D : needs[n] \subseteq D /\ IsFiniteSet(needs[n] \ seen)
  BY FS_Subset DEF IsGraph
<1>7. ASSUME NEW n \in D
      PROVE  remaining[n] = Cardinality(needs[n] \ all)
  <2>1. CASE n \in dependents
    <3>1. needs[n] \ all = (needs[n] \ seen) \ {node} /\ node \in needs[n] \ seen
      BY <1>5, <2>1
    <3>2. Cardinality(needs[n] \ all) = Cardinality(needs[n] \ seen) - 1
      BY <1>6, <3>1, FS_RemoveElement
    <3>3. QED
      BY <1>1, <2>1, <3>2
  <2>2. CASE n \notin dependents
    <3>1. needs[n] \ all = needs[n] \ seen
      BY <2>2
    <3>2. QED
      BY <1>1, <2>2, <3>1
  <2>3. QED
    BY <2>1, <2>2
<1>8. ASSUME NEW n \in D
      PROVE  remaining[n] = 0 <=> needs[n] \subseteq all
  <2>1. IsFiniteSet(needs[n] \ all)
    <3>1. needs[n] \ all \in SUBSET (needs[n] \ seen)
      OBVIOUS
    <3>2. QED
      BY <1>6, <3>1, FS_Subset
  <2>2. Cardinality(needs[n] \ all) = 0 <=> needs[n] \ all = {}
    BY <2>1, FS_EmptySet
  <2>3. QED
    BY <1>7, <2>2
<1> HIDE DEF remaining
<1>9. free = {n \in D : node \in needs[n] /\ needs[n] \subseteq all}
  BY <1>8
<1>10. free \in SUBSET D /\ IsFiniteSet(free)
  <2>1. free \in SUBSET D
    OBVIOUS
  <2>2. QED
    BY <2>1, FS_Subset DEF IsGraph
<1> HIDE DEF free
<1>11. order \in Seq(free) /\ IsInjective(order) /\ ToSet(order) = free
  BY <1>4, <1>10, OrderOfSet
<1>12. order \in Seq(D)
  BY <1>10, <1>11
<1>13. ToSet(order) \cap ToSet(walk.ready) = {}
  BY <1>1, <1>5, <1>9, <1>11
<1> DEFINE ready == Front(walk.ready) \o order
<1>14. ready \in Seq(D) /\ IsInjective(ready) /\ ToSet(ready) = (ToSet(walk.ready) \ {node}) \cup free
  BY <1>1, <1>11, <1>12, <1>13, ReadyTogether DEF node
<1>15. ToSet(ready) = {n \in D \ all : needs[n] \subseteq all}
  BY <1>1, <1>5, <1>9, <1>14
<1>16. walk.visited + 1 = Cardinality(all)
  <2>1. IsFiniteSet(seen)
    BY <1>1, FS_Subset DEF IsGraph
  <2>2. QED
    BY <1>1, <1>5, <2>1, FS_AddElement
<1>17. \A n \in all : needs[n] \subseteq all
  BY <1>1, <1>5
<1>18. all \subseteq D
  BY <1>1, <1>5
<1> HIDE DEF ready, all
<1>19. walk' = [needs |-> needs, remaining |-> remaining, depth |-> deeper,
                ready |-> ready, visited |-> walk.visited + 1]
  <2> DEFINE count == walk.visited + 1
  <2>1. walk' = [walk EXCEPT !.remaining = remaining, !.depth = deeper, !.ready = ready,
                             !.visited = count]
    BY <1>4 DEF ready
  <2> HIDE DEF count
  <2>2. PICK r, d, s, v : walk = [needs |-> needs, remaining |-> r, depth |-> d, ready |-> s,
                                  visited |-> v]
    BY <1>2
  <2>3. walk' = [needs |-> needs, remaining |-> remaining, depth |-> deeper, ready |-> ready,
                 visited |-> count]
    BY <2>1, <2>2
  <2>4. QED
    BY <2>3 DEF count
<1>20. DOMAIN remaining = D
  BY DEF remaining
<1>21. Stage(walk', needs, all)
  <2> DEFINE w == walk'
  <2>1. /\ w.remaining = remaining /\ w.ready = ready /\ w.visited = walk.visited + 1
        /\ w = [needs |-> needs, remaining |-> w.remaining, depth |-> w.depth,
                ready |-> w.ready, visited |-> w.visited]
    BY <1>19
  <2> HIDE DEF w
  <2>2. Stage(w, needs, all)
    BY <1>7, <1>14, <1>15, <1>16, <1>17, <1>18, <1>20, <2>1 DEF Stage
  <2>3. QED
    BY <2>2 DEF w
<1>22. QED
  BY <1>21 DEF all, node

\* The depths stay below those of every layering, as long as no dependent is too deep.
LEMMA DeepLeaves ==
    ASSUME NEW needs, NEW seen, IsGraph(needs), Stage(walk, needs, seen), Deep(walk, needs, seen),
           walk.ready # <<>>, ~TooDeep(Last(walk.ready)), Leaving(Last(walk.ready))
    PROVE  Deep(walk', needs, seen \cup {Last(walk.ready)})
<1> DEFINE D == DOMAIN needs
           node == Last(walk.ready)
           dependents == {n \in D : node \in needs[n]}
           behind(n) == IF walk.depth[n] >= walk.depth[node] + 1 THEN walk.depth[n]
                        ELSE walk.depth[node] + 1
<1>1. walk.needs = needs /\ \A n \in seen : needs[n] \subseteq seen
  BY DEF Stage
<1>2. /\ walk.depth \in [D -> 1 .. MaxDepth]
      /\ \A n \in D : \A m \in needs[n] \cap seen : walk.depth[m] < walk.depth[n]
      /\ \A layer \in [D -> 1 .. MaxDepth] :
           Layered(layer, needs) => \A n \in D : walk.depth[n] <= layer[n]
  BY DEF Deep
<1>3. Dependents(node) = dependents
  BY <1>1 DEF Dependents
<1>4. node \in D \ seen /\ needs[node] \subseteq seen
  BY ReadyNode
<1>5. walk'.depth = [n \in D |-> IF n \in dependents THEN DepthBehind(n, node) ELSE walk.depth[n]]
  <2>1. PICK rest, order :
          walk' = [walk EXCEPT !.remaining = rest,
            !.depth = [n \in DOMAIN @ |-> IF n \in Dependents(node) THEN DepthBehind(n, node) ELSE @[n]],
            !.ready = Front(@) \o order, !.visited = @ + 1]
    BY DEF Leaving
  <2>2. DOMAIN walk.depth = D
    BY <1>2
  <2>3. walk = [needs |-> needs, remaining |-> walk.remaining, depth |-> walk.depth,
                ready |-> walk.ready, visited |-> walk.visited]
    BY DEF Stage
  <2>4. "depth" \in DOMAIN walk
    BY <2>3
  <2> HIDE DEF node
  <2>5. walk'.depth = [n \in DOMAIN walk.depth |->
                         IF n \in Dependents(node) THEN DepthBehind(n, node) ELSE walk.depth[n]]
    BY <2>1, <2>4
  <2>6. QED
    BY <1>3, <2>2, <2>5
<1> HIDE DEF node
<1>6. MaxDepth \in Nat
  BY WorkbookAssumption
<1>7. \A n \in D : walk.depth[n] \in 1 .. MaxDepth /\ walk.depth[n] \in Int
  BY <1>2, <1>6
<1>8. \A n \in D : DepthBehind(n, node) = behind(n)
  BY <1>4, <1>7, MaxOfTwo DEF DepthBehind
<1>9. \A n \in dependents : DepthBehind(n, node) <= MaxDepth
  BY <1>3, <1>4, <1>6, <1>7, <1>8 DEF TooDeep, node
<1>10. \A n \in D : walk'.depth[n] = IF n \in dependents THEN behind(n) ELSE walk.depth[n]
  BY <1>5, <1>8
<1>11. walk'.depth \in [D -> 1 .. MaxDepth]
  <2>1. \A n \in D : walk'.depth[n] \in 1 .. MaxDepth
    BY <1>4, <1>6, <1>7, <1>8, <1>9, <1>10
  <2>2. QED
    BY <1>5, <2>1
<1>12. ASSUME NEW n \in D, NEW m \in needs[n] \cap (seen \cup {node})
       PROVE  walk'.depth[m] < walk'.depth[n]
  <2>1. m \in D /\ node \notin needs[m]
    BY <1>1, <1>4 DEF IsGraph
  <2>2. walk'.depth[m] = walk.depth[m]
    BY <1>10, <2>1
  <2>3. walk'.depth[n] >= walk.depth[n]
    BY <1>4, <1>7, <1>10
  <2>4. CASE m \in seen
    BY <1>2, <1>7, <1>11, <2>1, <2>2, <2>3, <2>4
  <2>5. CASE m = node
    <3>1. walk'.depth[n] >= walk.depth[node] + 1
      BY <1>4, <1>7, <1>10, <2>5
    <3>2. QED
      BY <1>4, <1>7, <1>11, <2>2, <2>5, <3>1
  <2>6. QED
    BY <2>4, <2>5
<1>13. ASSUME NEW layer \in [D -> 1 .. MaxDepth], Layered(layer, needs), NEW n \in D
       PROVE  walk'.depth[n] <= layer[n]
  <2>1. \A d \in D : walk.depth[d] <= layer[d] /\ layer[d] \in Int
    BY <1>2, <1>13, <1>6
  <2>2. n \in dependents => layer[node] < layer[n]
    BY <1>13 DEF Layered
  <2>3. QED
    BY <1>4, <1>7, <1>10, <2>1, <2>2
<1>14. QED
  BY <1>11, <1>12, <1>13 DEF Deep, node

\* A graph with a dependent that would be too deep has no layers.
LEMMA TooDeepHasNoLayers ==
    ASSUME NEW needs, NEW seen, Stage(walk, needs, seen), Deep(walk, needs, seen),
           walk.ready # <<>>, TooDeep(Last(walk.ready)), NEW layer
    PROVE  ~Layered(layer, needs)
<1> DEFINE D == DOMAIN needs
           node == Last(walk.ready)
<1>1. SUFFICES ASSUME Layered(layer, needs)
               PROVE  FALSE
  OBVIOUS
<1>2. layer \in [D -> 1 .. MaxDepth] /\ \A n \in D : \A m \in needs[n] : layer[m] < layer[n]
  BY <1>1 DEF Layered
<1>3. MaxDepth \in Nat
  BY WorkbookAssumption
<1>4. \A n \in D : walk.depth[n] \in Int /\ walk.depth[n] <= layer[n] /\ layer[n] \in 1 .. MaxDepth
  BY <1>1, <1>2, <1>3 DEF Deep
<1>5. walk.needs = needs
  BY DEF Stage
<1>6. PICK n \in D : node \in needs[n] /\ DepthBehind(n, node) > MaxDepth
  BY <1>5 DEF TooDeep, Dependents
<1>7. node \in D
  BY ReadyNode
<1> HIDE DEF node
<1>8. DepthBehind(n, node) \in {walk.depth[n], walk.depth[node] + 1}
  BY <1>4, <1>7, MaxOfTwo DEF DepthBehind
<1>9. layer[node] < layer[n]
  BY <1>2, <1>6
<1>10. QED
  BY <1>3, <1>4, <1>6, <1>7, <1>8, <1>9

\* When nothing is ready, a graph with layers was left behind as a whole.
LEMMA LayersAreWalked ==
    ASSUME NEW w, NEW needs, NEW seen, IsGraph(needs), Stage(w, needs, seen), w.ready = <<>>,
           NEW layer, Layered(layer, needs)
    PROVE  seen = DOMAIN needs
<1> DEFINE D == DOMAIN needs
           left == D \ seen
           layers == {layer[n] : n \in left}
<1>1. /\ seen \subseteq D /\ \A n \in left : ~(needs[n] \subseteq seen)
  <2>1. ToSet(w.ready) = {}
    BY DEF ToSet
  <2>2. QED
    BY <2>1 DEF Stage
<1>2. \A n \in D : layer[n] \in Nat
  <2>1. MaxDepth \in Nat
    BY WorkbookAssumption
  <2>2. layer \in [D -> 1 .. MaxDepth]
    BY DEF Layered
  <2>3. QED
    BY <2>1, <2>2
<1>3. SUFFICES ASSUME left # {}
               PROVE  FALSE
  BY <1>1
<1>4. layers \subseteq Nat /\ layers # {}
  BY <1>2, <1>3
<1>5. PICK low \in layers : \A l \in layers : low <= l
  BY <1>4, LeastOf
<1>6. PICK n \in left : low = layer[n]
  BY <1>5
<1>7. PICK m \in needs[n] : m \notin seen
  BY <1>1
<1>8. m \in left /\ layer[m] < layer[n]
  BY <1>7 DEF IsGraph, Layered
<1>9. layer[m] \in layers
  BY <1>8
<1>10. layer[m] \in Nat /\ layer[n] \in Nat
  BY <1>1, <1>2, <1>8
<1> HIDE DEF left, layers
<1>11. low <= layer[m] /\ low = layer[n] /\ layer[m] < layer[n]
  BY <1>5, <1>6, <1>8, <1>9
<1>12. QED
  BY <1>10, <1>11

\* The count of the visited nodes tells whether all of them were.
LEMMA VisitedCounts ==
    ASSUME NEW w, NEW needs, NEW seen, IsGraph(needs), Stage(w, needs, seen)
    PROVE  w.visited = Cardinality(DOMAIN needs) <=> seen = DOMAIN needs
<1>1. seen \in SUBSET DOMAIN needs /\ w.visited = Cardinality(seen)
  BY DEF Stage
<1>2. QED
  BY <1>1, FS_Subset DEF IsGraph

\* The depths of a complete walk are layers.
LEMMA DepthsAreLayers ==
    ASSUME NEW w, NEW needs, IsGraph(needs), Deep(w, needs, DOMAIN needs)
    PROVE  Layered(w.depth, needs)
BY DEF Deep, Layered, IsGraph

---------------------------------------------------------------------------
(* The names of the cells, and the formulas of the candidate. *)

\* A cell of the grid has a sheet and a column.
LEMMA GridCell ==
    ASSUME NEW ref \in Grid
    PROVE  ref = Ref(ref.sheet, ref.col) /\ ref.sheet \in Sheets /\ ref.col \in Columns /\ ref.sheet # ""
BY WorkbookAssumption DEF Grid, Ref

\* What is assumed of the workbook and of the request.
LEMMA AskedOf ==
    ASSUME Asked
    PROVE  /\ DOMAIN workbook.formulas \subseteq Grid /\ IsFiniteSet(DOMAIN workbook.formulas)
           /\ \A ref \in DOMAIN workbook.formulas : workbook.formulas[ref].ast \in Trees
           /\ DOMAIN workbook.values \subseteq Grid
           /\ \A ref \in DOMAIN workbook.values : Plain(workbook.values[ref])
           /\ request.overrides \in Seq(ToSet(request.overrides))
           /\ request.edits \in Seq(ToSet(request.edits))
           /\ \A i \in DOMAIN request.overrides :
                /\ request.overrides[i].ref = Ref(request.overrides[i].ref.sheet, request.overrides[i].ref.col)
                /\ Plain(request.overrides[i].value)
           /\ \A i \in DOMAIN request.edits : request.edits[i].new.ast \in Trees
           /\ Preflighting => request.overrides = <<>> /\ request.edits = <<>>
BY WorkbookAssumption DEF Asked, Preflighting

\* The keys of the formulas, by their full names.
LEMMA KeyWhole ==
    ASSUME Asked, NEW key \in Keys
    PROVE  /\ Whole(key) \in DOMAIN workbook.formulas
           /\ Preflighting => Whole(key) = key
           /\ ~Preflighting => key = Ref("", key.col) /\ Whole(key) = Ref(request.sheet, key.col)
<1>1. DOMAIN workbook.formulas \subseteq Grid
  BY AskedOf
<1>2. CASE Preflighting
  <2>1. key \in DOMAIN workbook.formulas /\ key.sheet # ""
    BY <1>1, <1>2, GridCell DEF Keys
  <2>2. QED
    BY <1>2, <2>1 DEF Whole, Global
<1>3. CASE ~Preflighting
  <2>1. PICK ref \in DOMAIN workbook.formulas : ref.sheet = request.sheet /\ key = Ref("", ref.col)
    BY <1>3 DEF Keys
  <2>2. ref = Ref(ref.sheet, ref.col)
    BY <1>1, <2>1, GridCell
  <2>3. key.sheet = "" /\ key.col = ref.col
    BY <2>1 DEF Ref
  <2>4. QED
    BY <1>3, <2>1, <2>2, <2>3 DEF Whole, Global
<1>4. QED
  BY <1>2, <1>3

\* A formula of the workbook is kept under its name, or under that of its column.
LEMMA WholeKey ==
    ASSUME Asked, NEW ref \in DOMAIN workbook.formulas
    PROVE  /\ Preflighting => ref \in Keys
           /\ ~Preflighting => ref \notin Keys
           /\ ~Preflighting /\ ref.sheet = request.sheet =>
                Ref("", ref.col) \in Keys /\ Whole(Ref("", ref.col)) = ref
<1>1. ref = Ref(ref.sheet, ref.col) /\ ref.sheet # ""
  BY AskedOf, GridCell
<1>2. Preflighting => ref \in Keys
  BY DEF Keys
<1>3. ASSUME ~Preflighting, ref \in Keys
      PROVE  FALSE
  <2>1. PICK f \in DOMAIN workbook.formulas : ref = Ref("", f.col)
    BY <1>3 DEF Keys
  <2>2. ref.sheet = ""
    BY <2>1 DEF Ref
  <2>3. QED
    BY <1>1, <2>2
<1>4. ASSUME ~Preflighting, ref.sheet = request.sheet
      PROVE  Ref("", ref.col) \in Keys /\ Whole(Ref("", ref.col)) = ref
  <2>1. Ref("", ref.col) \in Keys
    BY <1>4 DEF Keys
  <2>2. Ref("", ref.col).sheet = "" /\ Ref("", ref.col).col = ref.col
    BY DEF Ref
  <2>3. QED
    BY <1>1, <1>4, <2>1, <2>2 DEF Whole, Global
<1>5. QED
  BY <1>2, <1>3, <1>4

\* The candidate has the formulas the request means.
LEMMA CandidateMeant ==
    ASSUME Asked, Taken, FormulasMeant
    PROVE  /\ DOMAIN Candidate = DOMAIN workbook.formulas
           /\ \A ref \in DOMAIN workbook.formulas :
                /\ Candidate[ref] = Meant(workbook, request, ref)
                /\ Candidate[ref].ast \in Trees
           /\ \A key \in Keys : Candidate[Whole(key)] = formulas[key]
<1>1. DOMAIN Candidate = DOMAIN workbook.formulas
  BY DEF Candidate
<1>2. ASSUME NEW ref \in DOMAIN workbook.formulas
      PROVE  Candidate[ref] = IF ref \in DOMAIN formulas THEN formulas[ref]
               ELSE IF ref.sheet = request.sheet THEN formulas[Ref("", ref.col)] ELSE workbook.formulas[ref]
  BY DEF Candidate
<1>3. DOMAIN formulas = Keys /\ \A key \in Keys : formulas[key].ast \in Trees
  BY DEF Taken
<1>4. \A key \in Keys : formulas[key] = Meant(workbook, request, Whole(key))
  BY DEF FormulasMeant
<1>5. ASSUME NEW ref \in DOMAIN workbook.formulas, ~Preflighting, ref.sheet # request.sheet
      PROVE  /\ Meant(workbook, request, ref) = workbook.formulas[ref]
             /\ workbook.formulas[ref].ast \in Trees
  <2>1. \A i \in DOMAIN request.edits : Ref(request.sheet, request.edits[i].col) # ref
    BY <1>5 DEF Ref
  <2>2. Meant(workbook, request, ref) = workbook.formulas[ref]
    BY <2>1 DEF Meant
  <2>3. QED
    BY <1>5, <2>2, AskedOf
<1>6. ASSUME NEW ref \in DOMAIN workbook.formulas
      PROVE  /\ Candidate[ref] = Meant(workbook, request, ref)
             /\ Candidate[ref].ast \in Trees
  <2>1. CASE Preflighting
    <3>1. ref \in Keys
      BY <2>1, WholeKey
    <3>2. Whole(ref) = ref
      BY <2>1, <3>1, KeyWhole
    <3>3. QED
      BY <1>2, <1>3, <1>4, <3>1, <3>2
  <2>2. CASE ~Preflighting /\ ref.sheet = request.sheet
    <3>1. ref \notin Keys /\ Ref("", ref.col) \in Keys /\ Whole(Ref("", ref.col)) = ref
      BY <2>2, WholeKey
    <3>2. QED
      BY <1>2, <1>3, <1>4, <2>2, <3>1
  <2>3. CASE ~Preflighting /\ ref.sheet # request.sheet
    <3>1. ref \notin Keys
      BY <2>3, WholeKey
    <3>2. Candidate[ref] = workbook.formulas[ref]
      BY <1>2, <1>3, <2>3, <3>1
    <3>3. QED
      BY <1>5, <2>3, <3>2
  <2>4. QED
    BY <2>1, <2>2, <2>3
<1>7. ASSUME NEW key \in Keys
      PROVE  Candidate[Whole(key)] = formulas[key]
  <2>1. Whole(key) \in DOMAIN workbook.formulas
    BY KeyWhole
  <2>2. QED
    BY <1>4, <1>6, <2>1
<1>8. QED
  BY <1>1, <1>6, <1>7

---------------------------------------------------------------------------
(* The two graphs. *)

\* The graph that is checked.
LEMMA CheckedGraph ==
    ASSUME Asked
    PROVE  /\ IsGraph(GraphNeeds) /\ DOMAIN GraphNeeds = DOMAIN workbook.formulas
           /\ \A ref \in DOMAIN workbook.formulas : GraphNeeds[ref] = Needs(ref)
<1>1. DOMAIN GraphNeeds = DOMAIN Candidate /\ DOMAIN Candidate = DOMAIN workbook.formulas
  BY DEF GraphNeeds, Candidate
<1>2. \A ref \in DOMAIN workbook.formulas : GraphNeeds[ref] = Needs(ref)
  BY <1>1 DEF GraphNeeds
<1>3. \A ref : Needs(ref) \subseteq DOMAIN Candidate
  BY DEF Needs
<1>4. QED
  BY <1>1, <1>2, <1>3, AskedOf DEF IsGraph

\* A graph is acceptable if it can be drawn and has layers.
LEMMA AcceptableLayers ==
    ASSUME Asked
    PROVE  Acceptable <=> Drawable /\ \E layer : Layered(layer, GraphNeeds)
<1>1. /\ DOMAIN GraphNeeds = DOMAIN Candidate
      /\ \A ref \in DOMAIN Candidate : GraphNeeds[ref] = Needs(ref)
  BY DEF GraphNeeds
<1>2. Drawable => \A ref \in DOMAIN Candidate : \A need \in Needs(ref) : need.sheet = ref.sheet
  BY DEF Drawable
<1>3. ASSUME NEW layer
      PROVE  Layered(layer, GraphNeeds) <=>
               /\ layer \in [DOMAIN Candidate -> 1..MaxDepth]
               /\ \A ref \in DOMAIN Candidate : \A need \in Needs(ref) : layer[need] < layer[ref]
  BY <1>1 DEF Layered
<1>4. QED
  BY <1>2, <1>3 DEF Acceptable

\* A cell that a formula names is the same cell by either of the two names.
LEMMA NamesAgree ==
    ASSUME Asked, Taken, NEW key \in Keys, NEW r, r = Ref(r.sheet, r.col)
    PROVE  Whole(KeyOf(r, key)) = Global(r, Whole(key).sheet)
<1>1. Whole(key) \in Grid
  BY KeyWhole, AskedOf
<1>2. Whole(key).sheet # ""
  BY <1>1, GridCell
<1>3. \A s, c : Ref(s, c).sheet = s /\ Ref(s, c).col = c
  BY DEF Ref
<1>4. CASE Preflighting
  <2>1. Whole(key) = key /\ request.sheet = ""
    BY <1>4, KeyWhole DEF Preflighting
  <2>2. KeyOf(r, key) = Global(r, key.sheet)
    BY <1>4 DEF KeyOf
  <2>3. Global(r, key.sheet).sheet # ""
    BY <1>2, <1>3, <2>1 DEF Global
  <2>4. QED
    BY <2>1, <2>2, <2>3 DEF Whole, Global
<1>5. CASE ~Preflighting
  <2>1. Whole(key).sheet = request.sheet
    BY <1>3, <1>5, KeyWhole
  <2>2. KeyOf(r, key) = LocalKey(r)
    BY <1>5 DEF KeyOf
  <2>3. CASE r.sheet = request.sheet
    <3>1. LocalKey(r) = Ref("", r.col)
      BY <2>3 DEF LocalKey
    <3>2. Whole(LocalKey(r)) = Ref(request.sheet, r.col)
      <4> DEFINE k == LocalKey(r)
                 c == r.col
      <4>1. k = Ref("", c)
        BY <3>1
      <4> HIDE DEF k, c
      <4>2. k.sheet = "" /\ k.col = c
        BY <4>1 DEF Ref
      <4>3. Whole(k) = Ref(request.sheet, c)
        BY <4>2 DEF Whole, Global
      <4>4. QED
        BY <4>3 DEF k, c
    <3>3. Global(r, Whole(key).sheet) = r
      BY <1>2, <2>1, <2>3 DEF Global
    <3>4. QED
      BY <2>2, <2>3, <3>2, <3>3
  <2>4. CASE r.sheet # request.sheet
    BY <2>1, <2>2, <2>4 DEF LocalKey, Whole
  <2>5. QED
    BY <2>3, <2>4
<1>6. QED
  BY <1>4, <1>5

\* The formulas are taken up again as a graph whose needs are needs of the checked one.
LEMMA WalkedGraph ==
    ASSUME Asked, Taken, FormulasMeant
    PROVE  /\ IsGraph(WalkNeeds) /\ DOMAIN WalkNeeds = Keys
           /\ \A key \in Keys : \A m \in WalkNeeds[key] : Whole(m) \in GraphNeeds[Whole(key)]
<1>1. DOMAIN formulas = Keys /\ DOMAIN WalkNeeds = Keys
  BY DEF Taken, WalkNeeds
<1>2. \A key \in Keys : WalkNeeds[key] = EvaluationNeeds(key) /\ WalkNeeds[key] \subseteq Keys
  BY <1>1 DEF WalkNeeds, EvaluationNeeds
<1>3. IsFiniteSet(Keys)
  <2>1. CASE Preflighting
    BY <2>1, AskedOf DEF Keys
  <2>2. CASE ~Preflighting
    <3> DEFINE S == {f \in DOMAIN workbook.formulas : f.sheet = request.sheet}
               name == [ref \in S |-> Ref("", ref.col)]
    <3>1. S \in SUBSET DOMAIN workbook.formulas
      OBVIOUS
    <3>2. IsFiniteSet(S)
      BY <3>1, AskedOf, FS_Subset
    <3>3. Keys = {Ref("", ref.col) : ref \in S}
      BY <2>2 DEF Keys
    <3> HIDE DEF S
    <3>4. name \in Surjection(S, Keys)
      BY <3>3 DEF Surjection
    <3> HIDE DEF name
    <3>5. QED
      BY <3>2, <3>4, FS_Surjection
  <2>3. QED
    BY <2>1, <2>2
<1>4. ASSUME NEW key \in Keys, NEW m \in WalkNeeds[key]
      PROVE  Whole(m) \in GraphNeeds[Whole(key)]
  <2>1. PICK r \in References[formulas[key].ast] : m = KeyOf(r, key)
    BY <1>2 DEF EvaluationNeeds
  <2>2. m \in Keys /\ formulas[key].ast \in Trees
    BY <1>2 DEF Taken
  <2>3. r = Ref(r.sheet, r.col)
    BY <2>1, <2>2, ReadsOnGrid
  <2>4. Whole(m) = Global(r, Whole(key).sheet)
    BY <2>1, <2>3, NamesAgree
  <2>5. Whole(m) \in DOMAIN workbook.formulas /\ Whole(key) \in DOMAIN workbook.formulas
    BY <2>2, KeyWhole
  <2>6. Candidate[Whole(key)] = formulas[key] /\ DOMAIN Candidate = DOMAIN workbook.formulas
    BY CandidateMeant
  <2>7. Whole(m) \in Reads(Whole(key))
    BY <2>1, <2>4, <2>6 DEF Reads
  <2>8. QED
    BY <2>5, <2>6, <2>7, CheckedGraph DEF Needs
<1>5. QED
  BY <1>1, <1>2, <1>3, <1>4 DEF IsGraph

\* The layers of the checked graph are layers of the walked one.
LEMMA LayersTransfer ==
    ASSUME Asked, Taken, FormulasMeant, NEW layer, Layered(layer, GraphNeeds)
    PROVE  Layered([key \in Keys |-> layer[Whole(key)]], WalkNeeds)
<1> DEFINE low == [key \in Keys |-> layer[Whole(key)]]
<1>1. layer \in [DOMAIN workbook.formulas -> 1 .. MaxDepth]
  BY CheckedGraph DEF Layered
<1>2. \A key \in Keys : Whole(key) \in DOMAIN workbook.formulas
  BY KeyWhole
<1>3. low \in [Keys -> 1 .. MaxDepth]
  BY <1>1, <1>2
<1>4. DOMAIN WalkNeeds = Keys
  BY WalkedGraph
<1>5. ASSUME NEW key \in Keys, NEW m \in WalkNeeds[key]
      PROVE  low[m] < low[key]
  <2>1. m \in Keys
    BY <1>4, WalkedGraph DEF IsGraph
  <2>2. Whole(m) \in GraphNeeds[Whole(key)]
    BY WalkedGraph
  <2>3. layer[Whole(m)] < layer[Whole(key)]
    BY <1>2, <2>2, CheckedGraph DEF Layered
  <2>4. QED
    BY <2>1, <2>3
<1>6. QED
  BY <1>3, <1>4, <1>5 DEF Layered

---------------------------------------------------------------------------
(* The meaning of a cell. *)

\* The cells whose meaning a cell takes.
Under(book, asked, ref) ==
    IF ref \in DOMAIN book.formulas
    THEN {Global(r, ref.sheet) : r \in References[Meant(book, asked, ref).ast]} ELSE {}

\* The meaning of a cell is made of that of the cells under it.
LEMMA MeaningLocal ==
    ASSUME NEW f, NEW g, NEW book, NEW asked, NEW ref \in Grid,
           \A sub \in Under(book, asked, ref) : f[sub] = g[sub]
    PROVE  MeaningBy(f, book, asked, ref) = MeaningBy(g, book, asked, ref)
<1>1. CASE ref \in DOMAIN book.formulas
  <2> DEFINE R == References[Meant(book, asked, ref).ast]
  <2>1. \A r \in R : f[Global(r, ref.sheet)] = g[Global(r, ref.sheet)]
    BY <1>1 DEF Under
  <2> HIDE DEF R
  <2>2. [r \in R |-> f[Global(r, ref.sheet)]] = [r \in R |-> g[Global(r, ref.sheet)]]
    BY <2>1
  <2>3. QED
    BY <1>1, <2>2 DEF MeaningBy, R
<1>2. CASE ref \notin DOMAIN book.formulas
  BY <1>2 DEF MeaningBy
<1>3. QED
  BY <1>1, <1>2

\* Where the cells are laid in layers, the meaning of each is what its definition says.
LEMMA MeaningUnfolds ==
    ASSUME NEW book, NEW asked, NEW height,
           \A ref \in Grid : /\ height[ref] \in Nat
                             /\ \A sub \in Under(book, asked, ref) :
                                  sub \in Grid /\ height[sub] < height[ref]
    PROVE  \A ref \in Grid : MeaningIn(book, asked)[ref] = MeaningBy(MeaningIn(book, asked), book, asked, ref)
<1> DEFINE Solves(f, n) == \A ref \in Grid : height[ref] < n => f[ref] = MeaningBy(f, book, asked, ref)
           Is(f) == f = [ref \in Grid |-> MeaningBy(f, book, asked, ref)]
           Unsolved == {n \in Nat : ~ \E f : Solves(f, n)}
           First(ref) == CHOOSE f : Solves(f, height[ref] + 1)
           All == [ref \in Grid |-> First(ref)[ref]]
<1>1. \A ref \in Grid : /\ height[ref] \in Nat
                          /\ \A sub \in Under(book, asked, ref) : sub \in Grid /\ height[sub] < height[ref]
  OBVIOUS
<1>2. ASSUME NEW f, NEW g, NEW n \in Nat, NEW m \in Nat, Solves(f, n), Solves(g, m)
      PROVE  \A ref \in Grid : height[ref] < n /\ height[ref] < m => f[ref] = g[ref]
  <2> DEFINE Differ == {ref \in Grid : height[ref] < n /\ height[ref] < m /\ f[ref] # g[ref]}
             Heights == {height[ref] : ref \in Differ}
  <2>1. SUFFICES ASSUME Differ # {}
                 PROVE  FALSE
    OBVIOUS
  <2>2. Heights \subseteq Nat /\ Heights # {}
    BY <1>1, <2>1
  <2>3. PICK h \in Heights : \A k \in Heights : h <= k
    BY <2>2, LeastOf
  <2>4. PICK ref \in Differ : h = height[ref]
    BY <2>3
  <2>5. ASSUME NEW sub \in Under(book, asked, ref)
        PROVE  f[sub] = g[sub]
    <3>1. sub \in Grid /\ height[sub] \in Nat /\ height[sub] < h /\ h \in Nat
      BY <1>1, <2>4
    <3>2. height[sub] < n /\ height[sub] < m
      <4>1. h < n /\ h < m
        BY <2>4
      <4>2. QED
        BY <3>1, <4>1
    <3>3. sub \notin Differ
      <4>1. SUFFICES ASSUME sub \in Differ
                     PROVE  FALSE
        OBVIOUS
      <4>2. height[sub] \in Heights
        BY <4>1
      <4> HIDE DEF Heights, Differ
      <4>3. h <= height[sub]
        BY <2>3, <4>2
      <4>4. QED
        BY <3>1, <4>3
    <3>4. \A x \in Grid : x \notin Differ => ~(height[x] < n /\ height[x] < m /\ f[x] # g[x])
      OBVIOUS
    <3> HIDE DEF Differ
    <3>5. QED
      BY <3>1, <3>2, <3>3, <3>4
  <2>6. MeaningBy(f, book, asked, ref) = MeaningBy(g, book, asked, ref)
    BY <2>5, MeaningLocal
  <2>7. QED
    BY <1>2, <2>4, <2>6
<1>3. ASSUME NEW n \in Nat, NEW f, Solves(f, n)
      PROVE  \E g : Solves(g, n + 1)
  <2> DEFINE g == [ref \in Grid |-> MeaningBy(f, book, asked, ref)]
  <2>1. ASSUME NEW ref \in Grid, height[ref] < n + 1
        PROVE  g[ref] = MeaningBy(g, book, asked, ref)
    <3>1. ASSUME NEW sub \in Under(book, asked, ref)
          PROVE  f[sub] = g[sub]
      <4>1. sub \in Grid /\ height[sub] < n
        BY <1>1, <2>1
      <4>2. f[sub] = MeaningBy(f, book, asked, sub)
        BY <1>3, <4>1
      <4>3. QED
        BY <4>1, <4>2
    <3>2. MeaningBy(f, book, asked, ref) = MeaningBy(g, book, asked, ref)
      BY <3>1, MeaningLocal
    <3>3. QED
      BY <2>1, <3>2
  <2>2. Solves(g, n + 1)
    BY <2>1
  <2>3. QED
    BY <2>2
<1>4. Unsolved = {}
  <2>1. SUFFICES ASSUME Unsolved # {}
                 PROVE  FALSE
    OBVIOUS
  <2>2. PICK n \in Unsolved : \A m \in Unsolved : n <= m
    BY <2>1, LeastOf
  <2>3. CASE n = 0
    <3>1. Solves([ref \in Grid |-> ref], 0)
      BY <1>1
    <3>2. QED
      BY <2>2, <2>3, <3>1
  <2>4. CASE n # 0
    <3>1. n - 1 \in Nat /\ n - 1 \notin Unsolved /\ (n - 1) + 1 = n
      BY <2>2, <2>4
    <3>2. PICK f : Solves(f, n - 1)
      BY <3>1
    <3>3. \E g : Solves(g, n)
      BY <1>3, <3>1, <3>2
    <3>4. QED
      BY <2>2, <3>3
  <2>5. QED
    BY <2>3, <2>4
<1>5. ASSUME NEW ref \in Grid
      PROVE  Solves(First(ref), height[ref] + 1)
  <2>1. height[ref] + 1 \in Nat
    BY <1>1
  <2>2. \E f : Solves(f, height[ref] + 1)
    BY <1>4, <2>1
  <2> HIDE DEF Solves
  <2>3. QED
    BY <2>2
<1>6. ASSUME NEW ref \in Grid
      PROVE  All[ref] = MeaningBy(All, book, asked, ref)
  <2> DEFINE f == First(ref)
  <2>1. height[ref] \in Nat /\ Solves(f, height[ref] + 1)
    BY <1>1, <1>5
  <2>2. f[ref] = MeaningBy(f, book, asked, ref)
    BY <2>1
  <2>3. ASSUME NEW sub \in Under(book, asked, ref)
        PROVE  f[sub] = All[sub]
    <3>1. /\ sub \in Grid /\ height[sub] \in Nat /\ height[sub] < height[ref]
          /\ Solves(First(sub), height[sub] + 1)
      BY <1>1, <1>5
    <3> DEFINE a == First(sub)
    <3> HIDE DEF f, a, Solves, First
    <3>2. /\ height[ref] + 1 \in Nat /\ height[sub] + 1 \in Nat
          /\ height[sub] < height[ref] + 1 /\ height[sub] < height[sub] + 1
      BY <2>1, <3>1
    <3>3. f[sub] = First(sub)[sub]
      BY <1>2, <2>1, <3>1, <3>2
    <3>4. QED
      BY <3>1, <3>3
  <2> HIDE DEF f, First, Solves
  <2>4. MeaningBy(f, book, asked, ref) = MeaningBy(All, book, asked, ref)
    BY <2>3, MeaningLocal
  <2>5. All[ref] = f[ref]
    BY DEF f
  <2>6. QED
    BY <2>2, <2>4, <2>5
<1> HIDE DEF First, Solves
<1>7. Is(All)
  <2>1. [ref \in Grid |-> All[ref]] = [ref \in Grid |-> MeaningBy(All, book, asked, ref)]
    BY <1>6
  <2>2. QED
    BY <2>1
<1> HIDE DEF All
<1>8. MeaningIn(book, asked) = CHOOSE f : Is(f)
  BY DEF MeaningIn
<1>9. Is(MeaningIn(book, asked))
  BY <1>7, <1>8
<1>10. QED
  BY <1>9

\* Both parts of a name can be read off.
LEMMA RefParts ==
    ASSUME NEW s, NEW c
    PROVE  Ref(s, c).sheet = s /\ Ref(s, c).col = c
BY DEF Ref

\* What a formula of a drawable graph reads lies in the workbook.
LEMMA ReadsInGrid ==
    ASSUME Asked, Taken, FormulasMeant, Drawable, NEW ref \in DOMAIN workbook.formulas,
           NEW r \in References[Candidate[ref].ast]
    PROVE  /\ r = Ref(r.sheet, r.col) /\ r \in Names
           /\ Global(r, ref.sheet) \in Grid /\ Global(r, ref.sheet) \in Reads(ref)
<1>1. Candidate[ref].ast \in Trees /\ DOMAIN Candidate = DOMAIN workbook.formulas
  BY CandidateMeant
<1>2. r = Ref(r.sheet, r.col) /\ r.col \in Columns
  BY <1>1, ReadsOnGrid
<1> DEFINE g == Global(r, ref.sheet)
<1>3. g \in Reads(ref)
  BY DEF Reads
<1>4. g.sheet \in Sheets
  BY <1>1, <1>3 DEF Drawable
<1>5. g = Ref(g.sheet, r.col) /\ (r.sheet = "" \/ g = r)
  <2>1. CASE r.sheet = ""
    <3> DEFINE s == ref.sheet
               c == r.col
    <3>1. g = Ref(s, c)
      BY <2>1 DEF Global
    <3> HIDE DEF g, s, c
    <3>2. g = Ref(g.sheet, c)
      BY <3>1, RefParts
    <3>3. QED
      BY <2>1, <3>2 DEF c
  <2>2. CASE r.sheet # ""
    <3>1. g = r
      BY <2>2 DEF Global
    <3>2. QED
      BY <1>2, <3>1
  <2>3. QED
    BY <2>1, <2>2
<1>6. g \in Grid
  <2> HIDE DEF g
  <2>1. g = [sheet |-> g.sheet, col |-> r.col]
    BY <1>5 DEF Ref
  <2>2. QED
    BY <1>2, <1>4, <2>1 DEF Grid
<1>7. r \in Names
  <2>1. r.sheet \in Sheets \cup {""}
    BY <1>4, <1>5
  <2>2. r = [sheet |-> r.sheet, col |-> r.col]
    BY <1>2 DEF Ref
  <2>3. QED
    BY <1>2, <2>1, <2>2 DEF Names
<1>8. QED
  BY <1>2, <1>3, <1>6, <1>7

\* In an acceptable workbook every cell has a meaning.
LEMMA MeaningOf ==
    ASSUME Asked, Taken, FormulasMeant, Acceptable
    PROVE  \A ref \in Grid : Meaning[ref] = MeaningBy(Meaning, workbook, request, ref)
<1>1. Drawable /\ \E layer : Layered(layer, GraphNeeds)
  BY AcceptableLayers
<1>2. PICK layer : Layered(layer, GraphNeeds)
  BY <1>1
<1> DEFINE F == DOMAIN workbook.formulas
           height == [ref \in Grid |-> IF ref \in F THEN layer[ref] ELSE 0]
<1>3. MaxDepth \in Nat
  BY WorkbookAssumption
<1>4. /\ layer \in [F -> 1 .. MaxDepth]
      /\ \A ref \in F : \A need \in Needs(ref) : layer[need] < layer[ref]
  BY <1>2, CheckedGraph DEF Layered
<1>5. \A ref \in F : layer[ref] \in Nat /\ 0 < layer[ref]
  BY <1>3, <1>4
<1>6. ASSUME NEW ref \in Grid, NEW sub \in Under(workbook, request, ref)
      PROVE  sub \in Grid /\ height[sub] < height[ref]
  <2>1. ref \in F
    BY DEF Under
  <2>2. Candidate[ref] = Meant(workbook, request, ref) /\ DOMAIN Candidate = F
    BY <2>1, CandidateMeant
  <2>3. PICK r \in References[Candidate[ref].ast] : sub = Global(r, ref.sheet)
    BY <2>1, <2>2 DEF Under
  <2>4. sub \in Grid /\ sub \in Reads(ref)
    BY <1>1, <2>1, <2>3, ReadsInGrid
  <2>5. CASE sub \in F
    <3>1. layer[sub] < layer[ref]
      BY <1>4, <2>1, <2>2, <2>4, <2>5 DEF Needs
    <3>2. QED
      BY <2>1, <2>4, <2>5, <3>1
  <2>6. CASE sub \notin F
    <3>1. height[sub] = 0 /\ height[ref] = layer[ref]
      BY <2>1, <2>4, <2>6
    <3>2. QED
      BY <1>5, <2>1, <2>4, <3>1
  <2>7. QED
    BY <2>5, <2>6
<1>7. \A ref \in Grid : height[ref] \in Nat
  BY <1>5
<1> HIDE DEF height
<1>8. \A ref \in Grid : /\ height[ref] \in Nat
                        /\ \A sub \in Under(workbook, request, ref) :
                             sub \in Grid /\ height[sub] < height[ref]
  BY <1>6, <1>7
<1>9. \A ref \in Grid : MeaningIn(workbook, request)[ref] =
                          MeaningBy(MeaningIn(workbook, request), workbook, request, ref)
  BY <1>8, MeaningUnfolds
<1>10. QED
  BY <1>9 DEF Meaning

\* Two names are of the same cell under either of the two ways to name it.
LEMMA SameCell ==
    ASSUME request.sheet # "", NEW x, x = Ref(x.sheet, x.col), NEW r, r = Ref(r.sheet, r.col)
    PROVE  LocalKey(x) = LocalKey(r) <=> Global(x, request.sheet) = Whole(LocalKey(r))
<1> DEFINE s == request.sheet
           of(y) == IF y.sheet = "" THEN s ELSE y.sheet
<1>1. ASSUME NEW y, y = Ref(y.sheet, y.col)
      PROVE  /\ Global(y, s) = Ref(of(y), y.col) /\ Whole(LocalKey(y)) = Ref(of(y), y.col)
             /\ LocalKey(y) = IF of(y) = s THEN Ref("", y.col) ELSE Ref(of(y), y.col)
  <2>1. Global(y, s) = Ref(of(y), y.col)
    BY <1>1 DEF Global
  <2>2. CASE y.sheet = s
    <3> DEFINE k == LocalKey(y)
               c == y.col
    <3>1. k = Ref("", c) /\ of(y) = s
      BY <2>2 DEF LocalKey
    <3> HIDE DEF k, c
    <3>2. k.sheet = "" /\ k.col = c
      BY <3>1 DEF Ref
    <3>3. Whole(k) = Ref(s, c)
      BY <3>2 DEF Whole, Global
    <3>4. QED
      BY <2>1, <3>1, <3>3 DEF k, c
  <2>3. CASE y.sheet # s
    <3>1. LocalKey(y) = y
      BY <2>3 DEF LocalKey
    <3>2. Whole(LocalKey(y)) = Ref(of(y), y.col)
      BY <2>1, <3>1 DEF Whole
    <3>3. CASE y.sheet = ""
      BY <1>1, <2>1, <3>1, <3>2, <3>3
    <3>4. CASE y.sheet # ""
      BY <1>1, <2>1, <2>3, <3>1, <3>2, <3>4
    <3>5. QED
      BY <3>3, <3>4
  <2>4. QED
    BY <2>2, <2>3
<1>2. of(x) # "" /\ of(r) # ""
  OBVIOUS
<1> HIDE DEF of
<1>4. /\ Global(x, s) = Ref(of(x), x.col) /\ Whole(LocalKey(r)) = Ref(of(r), r.col)
      /\ LocalKey(x) = IF of(x) = s THEN Ref("", x.col) ELSE Ref(of(x), x.col)
      /\ LocalKey(r) = IF of(r) = s THEN Ref("", r.col) ELSE Ref(of(r), r.col)
  BY <1>1
<1> DEFINE a == of(x)
           b == x.col
           c == of(r)
           d == r.col
           p == IF a = s THEN Ref("", b) ELSE Ref(a, b)
           q == IF c = s THEN Ref("", d) ELSE Ref(c, d)
<1>5. p = q <=> Ref(a, b) = Ref(c, d)
  <2>1. a # "" /\ c # ""
    BY <1>2
  <2> HIDE DEF a, b, c, d, s
  <2>2. CASE a = s /\ c = s
    BY <2>2 DEF Ref
  <2>3. CASE a # s /\ c # s
    BY <2>3
  <2>4. CASE (a = s /\ c # s) \/ (a # s /\ c = s)
    BY <2>1, <2>4 DEF Ref
  <2>5. QED
    BY <2>2, <2>3, <2>4
<1>6. /\ Global(x, s) = Ref(a, b) /\ Whole(LocalKey(r)) = Ref(c, d)
      /\ LocalKey(x) = p /\ LocalKey(r) = q
  BY <1>4
<1> HIDE DEF a, b, c, d, p, q
<1>7. QED
  BY <1>5, <1>6

\* A cell without a formula has the value of its last override, or the stored one.
LEMMA StoredMeans ==
    ASSUME Asked, Taken, FormulasMeant, Acceptable, NEW k, Whole(k) \in Grid,
           Whole(k) \notin DOMAIN workbook.formulas,
           ~Preflighting => \E r : r = Ref(r.sheet, r.col) /\ k = LocalKey(r)
    PROVE  /\ Stored(k) = Meaning[Whole(k)] /\ Plain(Stored(k))
           /\ \A V : Given(V) => Stored(k) \in V
<1> DEFINE by == {i \in DOMAIN request.overrides : Global(request.overrides[i].ref, request.sheet) = Whole(k)}
           of == {i \in DOMAIN request.overrides : LocalKey(request.overrides[i].ref) = k}
           n == Len(request.overrides)
<1>1. DOMAIN request.overrides = 1 .. n /\ n \in Nat
  BY AskedOf
<1>2. by = of
  <2>1. CASE Preflighting
    <3>1. DOMAIN request.overrides = {}
      BY <2>1, AskedOf
    <3>2. QED
      BY <3>1
  <2>2. CASE ~Preflighting
    <3>1. request.sheet # ""
      BY <2>2 DEF Preflighting
    <3>2. PICK r : r = Ref(r.sheet, r.col) /\ k = LocalKey(r)
      BY <2>2
    <3>3. ASSUME NEW i \in DOMAIN request.overrides
          PROVE  LocalKey(request.overrides[i].ref) = k <=>
                   Global(request.overrides[i].ref, request.sheet) = Whole(k)
      <4> DEFINE x == request.overrides[i].ref
      <4>1. x = Ref(x.sheet, x.col)
        BY AskedOf
      <4> HIDE DEF x
      <4>2. LocalKey(x) = k <=> Global(x, request.sheet) = Whole(k)
        BY <3>1, <3>2, <4>1, SameCell
      <4>3. QED
        BY <4>2 DEF x
    <3>4. QED
      BY <3>3
  <2>3. QED
    BY <2>1, <2>2
<1>3. k \in OverrideKeys <=> of # {}
  BY DEF OverrideKeys
<1>4. k \in OverrideKeys => OverrideOf(k) = request.overrides[Max(of)].value
  BY DEF OverrideOf
<1>5. Meaning[Whole(k)] = MeaningBy(Meaning, workbook, request, Whole(k))
  BY MeaningOf
<1>6. Meaning[Whole(k)] =
        IF by # {} THEN request.overrides[Max(by)].value
        ELSE IF Whole(k) \in DOMAIN workbook.values THEN workbook.values[Whole(k)] ELSE Empty
  BY <1>5 DEF MeaningBy
<1>7. of \subseteq 1 .. n
  BY <1>1
<1> HIDE DEF by, of
<1>8. Stored(k) = IF of # {} THEN request.overrides[Max(of)].value
                  ELSE IF Whole(k) \in DOMAIN workbook.values THEN workbook.values[Whole(k)] ELSE Empty
  BY <1>3, <1>4 DEF Stored, Whole
<1>9. of # {} => Max(of) \in DOMAIN request.overrides
  BY <1>1, <1>7, MaxIsMember
<1>10. Plain(Empty)
  BY DEF Plain, Empty
<1>11. Plain(Stored(k))
  BY <1>8, <1>9, <1>10, AskedOf
<1>12. ASSUME NEW V, Given(V)
       PROVE  Stored(k) \in V
  BY <1>8, <1>9, <1>12 DEF Given
<1>13. QED
  BY <1>2, <1>6, <1>8, <1>11, <1>12

\* A formula finds the meaning of each cell it names, once those it needs are evaluated.
LEMMA ResolveMeans ==
    ASSUME Asked, Taken, FormulasMeant, Acceptable, MemoMeans, NEW key \in Keys,
           WalkNeeds[key] \subseteq DOMAIN memo, NEW r \in References[formulas[key].ast]
    PROVE  /\ r \in Names
           /\ Resolve(KeyOf(r, key)) = Meaning[Global(r, Whole(key).sheet)]
           /\ AllPlain => Plain(Resolve(KeyOf(r, key)))
           /\ \A V : Given(V) /\ (\A k \in DOMAIN memo : memo[k] \in V) => Resolve(KeyOf(r, key)) \in V
<1> DEFINE k == KeyOf(r, key)
           ref == Whole(key)
<1>1. ref \in DOMAIN workbook.formulas /\ Candidate[ref] = formulas[key]
  BY KeyWhole, CandidateMeant
<1>2. Drawable
  BY DEF Acceptable
<1>3. /\ r = Ref(r.sheet, r.col) /\ r \in Names
      /\ Global(r, ref.sheet) \in Grid /\ Global(r, ref.sheet) \in Reads(ref)
  BY <1>1, <1>2, ReadsInGrid
<1>4. Whole(k) = Global(r, ref.sheet)
  BY <1>3, NamesAgree
<1>5. DOMAIN formulas = Keys
  BY DEF Taken
<1>6. CASE k \in Keys
  <2>1. k \in WalkNeeds[key]
    BY <1>5, <1>6 DEF WalkNeeds, EvaluationNeeds
  <2>2. k \in DOMAIN memo
    BY <2>1
  <2>3. Resolve(k) = memo[k] /\ memo[k] = Meaning[Whole(k)]
    BY <2>2 DEF Resolve, MemoMeans
  <2> HIDE DEF k
  <2>4. AllPlain => Plain(Resolve(k))
    BY <2>2, <2>3 DEF AllPlain
  <2>5. \A V : Given(V) /\ (\A l \in DOMAIN memo : memo[l] \in V) => Resolve(k) \in V
    BY <2>2, <2>3
  <2>6. QED
    BY <1>3, <1>4, <2>3, <2>4, <2>5 DEF k
<1>7. CASE k \notin Keys
  <2>1. k \notin DOMAIN memo
    BY <1>5, <1>7 DEF MemoMeans
  <2>2. Resolve(k) = Stored(k)
    BY <1>5, <1>7, <2>1 DEF Resolve
  <2>3. Whole(k) \notin DOMAIN workbook.formulas
    <3>1. SUFFICES ASSUME Whole(k) \in DOMAIN workbook.formulas
                   PROVE  FALSE
      OBVIOUS
    <3>2. Whole(k) \in Needs(ref) /\ ref \in DOMAIN Candidate
      BY <1>1, <1>3, <1>4, <3>1, CandidateMeant DEF Needs
    <3>3. Whole(k).sheet = ref.sheet
      BY <1>2, <3>2 DEF Drawable
    <3>4. CASE Preflighting
      <4>1. ref = key /\ k = Global(r, key.sheet)
        BY <3>4, KeyWhole DEF KeyOf
      <4>2. Whole(k) = k
        BY <1>4, <4>1
      <4>3. QED
        BY <1>7, <3>1, <3>4, <4>2, WholeKey
    <3>5. CASE ~Preflighting
      <4>1. ref.sheet = request.sheet
        <5>1. ref = Ref(request.sheet, key.col)
          BY <3>5, KeyWhole
        <5> HIDE DEF ref
        <5>2. QED
          BY <5>1 DEF Ref
      <4>2. Global(r, ref.sheet).sheet = ref.sheet /\ request.sheet # ""
        BY <1>4, <3>3, <3>5 DEF Preflighting
      <4>3. k = LocalKey(r)
        BY <3>5 DEF KeyOf
      <4>4. Ref("", Whole(k).col) \in Keys
        BY <3>1, <3>3, <3>5, <4>1, WholeKey
      <4>5. CASE r.sheet = request.sheet
        <5>1. Whole(k) = r /\ k = Ref("", r.col)
          BY <1>4, <4>2, <4>3, <4>5 DEF LocalKey, Global
        <5>2. QED
          BY <1>7, <4>4, <5>1
      <4>6. CASE r.sheet # request.sheet
        <5>1. r.sheet = ""
          BY <4>1, <4>2, <4>6 DEF Global
        <5>2. k = r /\ Whole(k) = Ref(ref.sheet, r.col)
          BY <1>4, <4>3, <4>6, <5>1 DEF LocalKey, Global
        <5>3. Whole(k).col = r.col
          BY <5>2, RefParts
        <5>4. QED
          BY <1>3, <1>7, <4>4, <5>1, <5>2, <5>3
      <4>7. QED
        BY <4>5, <4>6
    <3>6. QED
      BY <3>4, <3>5
  <2>4. ~Preflighting => \E x : x = Ref(x.sheet, x.col) /\ k = LocalKey(x)
    BY <1>3 DEF KeyOf
  <2>5. Whole(k) \in Grid
    BY <1>3, <1>4
  <2> HIDE DEF k
  <2>6. Stored(k) = Meaning[Whole(k)] /\ Plain(Stored(k)) /\ \A V : Given(V) => Stored(k) \in V
    BY <2>3, <2>4, <2>5, StoredMeans
  <2>7. QED
    BY <1>3, <1>4, <2>2, <2>6 DEF k
<1>8. QED
  BY <1>6, <1>7

\* So its value is the one it has by definition.  It is made of the values there are; and
\* if it is of the subset, and so are those before it, it can fail on its data only.
LEMMA ValueMeans ==
    ASSUME Asked, Taken, FormulasMeant, Acceptable, MemoMeans, NEW key \in Keys,
           WalkNeeds[key] \subseteq DOMAIN memo
    PROVE  /\ Value(key) = Meaning[Whole(key)]
           /\ InSubset(formulas[key]) /\ AllPlain => Answer(Value(key))
           /\ \A V : Closed(V) /\ Given(V) /\ (\A k \in DOMAIN memo : memo[k] \in V) => Made(Value(key), V)
<1> DEFINE ast == formulas[key].ast
           env == [r \in Names |-> Resolve(KeyOf(r, key))]
           meant == [r \in References[ast] |-> Meaning[Global(r, Whole(key).sheet)]]
<1>1. ast \in Trees /\ (InSubset(formulas[key]) => Scalar(ast))
  BY DEF Taken, InSubset, Scalar
<1>2. \A r \in References[ast] : r \in Names /\ env[r] = meant[r] /\ (AllPlain => Plain(env[r]))
  BY ResolveMeans
<1>3. ASSUME NEW V, Given(V), \A k \in DOMAIN memo : memo[k] \in V
      PROVE  \A r \in References[ast] : env[r] \in V
  <2>1. TAKE r \in References[ast]
  <2>2. r \in Names /\ Resolve(KeyOf(r, key)) \in V
    BY <1>3, ResolveMeans
  <2>3. QED
    BY <2>2
<1>4. Value(key) = Evaluate(ast, env)
  BY DEF Value
<1>5. Whole(key) \in DOMAIN workbook.formulas /\ Whole(key) \in Grid
  BY KeyWhole, AskedOf
<1>6. Meant(workbook, request, Whole(key)).ast = ast
  BY DEF FormulasMeant
<1>7. Meaning[Whole(key)] = MeaningBy(Meaning, workbook, request, Whole(key))
  BY <1>5, MeaningOf
<1>8. Meaning[Whole(key)] = Evaluate(ast, meant)
  BY <1>5, <1>6, <1>7 DEF MeaningBy
<1> HIDE DEF ast, env, meant
<1>9. Evaluate(ast, env) = Evaluate(ast, meant)
  <2>1. \A r \in References[ast] : env[r] = meant[r]
    BY <1>2
  <2>2. QED
    BY <1>1, <2>1, ReadsDecide
<1>10. ASSUME InSubset(formulas[key]), AllPlain
       PROVE  Answer(Evaluate(ast, env))
  <2>1. \A r \in References[ast] : Plain(env[r])
    BY <1>2, <1>10
  <2>2. ast \in Trees /\ Scalar(ast)
    BY <1>1, <1>10
  <2>3. QED
    BY <2>1, <2>2, SubsetAnswers
<1>11. ASSUME NEW V, Closed(V), Given(V), \A k \in DOMAIN memo : memo[k] \in V
       PROVE  Made(Evaluate(ast, env), V)
  BY <1>1, <1>3, <1>11, EvaluationIsMade
<1>12. QED
  BY <1>4, <1>8, <1>9, <1>10, <1>11

\* An observed cell is answered with its meaning.
LEMMA ObservedMeans ==
    ASSUME Asked, Taken, FormulasMeant, Acceptable, MemoMeans, ~Preflighting,
           DOMAIN memo = DOMAIN formulas, NEW col,
           Ref(request.sheet, col) \in DOMAIN workbook.values \cup DOMAIN workbook.formulas
    PROVE  Observed(Ref("", col)) = Meaning[Ref(request.sheet, col)]
<1> DEFINE k == Ref("", col)
           ref == Ref(request.sheet, col)
<1>1. k.sheet = "" /\ k.col = col /\ ref.sheet = request.sheet /\ ref.col = col
  BY RefParts
<1>2. Whole(k) = ref /\ LocalKey(ref) = k /\ ref = Ref(ref.sheet, ref.col)
  BY <1>1 DEF Whole, Global, LocalKey
<1>3. ref \in Grid
  BY AskedOf
<1>4. CASE k \in DOMAIN memo
  BY <1>2, <1>4 DEF Observed, MemoMeans
<1>5. CASE k \notin DOMAIN memo
  <2>1. k \notin Keys
    BY <1>5 DEF Taken
  <2>2. ref \notin DOMAIN workbook.formulas
    BY <1>1, <2>1, WholeKey
  <2>3. Stored(k) = Meaning[Whole(k)]
    <3> HIDE DEF k, ref
    <3>1. QED
      BY <1>2, <1>3, <2>2, StoredMeans
  <2>4. QED
    BY <1>2, <1>5, <2>3 DEF Observed
<1>6. QED
  BY <1>4, <1>5

---------------------------------------------------------------------------
(* The steps of the worker. *)

\* What depends on the workbook and the request alone.
LEMMA SameRequest ==
    ASSUME UNCHANGED <<workbook, request>>
    PROVE  /\ Asked' <=> Asked
           /\ Preflighting' <=> Preflighting
           /\ Keys' = Keys /\ Meaning' = Meaning
           /\ \A key : Whole(key)' = Whole(key)
           /\ \A i : SoundEdit(i)' <=> SoundEdit(i)
           /\ \A V : Given(V)' <=> Given(V)
<1>1. Preflighting' <=> Preflighting
  BY DEF Preflighting
<1>2. Asked' <=> Asked
  BY <1>1 DEF Asked
<1>3. Keys' = Keys
  BY <1>1 DEF Keys
<1>4. Meaning' = Meaning
  BY DEF Meaning
<1>5. \A key : Whole(key)' = Whole(key)
  BY DEF Whole
<1>6. \A i : SoundEdit(i)' <=> SoundEdit(i)
  BY DEF SoundEdit
<1>7. \A V : Given(V)' <=> Given(V)
  BY DEF Given
<1>8. QED
  BY <1>1, <1>2, <1>3, <1>4, <1>5, <1>6, <1>7

\* What depends on the formulas too.
LEMMA SameGraph ==
    ASSUME UNCHANGED <<workbook, request, formulas>>
    PROVE  /\ Taken' <=> Taken
           /\ FormulasMeant' <=> FormulasMeant
           /\ Drawable' <=> Drawable
           /\ Acceptable' <=> Acceptable
           /\ GraphNeeds' = GraphNeeds /\ WalkNeeds' = WalkNeeds
<1>1. /\ Preflighting' <=> Preflighting
      /\ Keys' = Keys /\ \A key : Whole(key)' = Whole(key)
  BY SameRequest
<1>2. OverrideKeys' = OverrideKeys
  BY DEF OverrideKeys, LocalKey
<1>3. Taken' <=> Taken
  BY <1>1, <1>2 DEF Taken
<1>4. FormulasMeant' <=> FormulasMeant
  BY <1>1 DEF FormulasMeant
<1>5. Candidate' = Candidate
  BY DEF Candidate
<1>6. \A ref : Reads(ref)' = Reads(ref)
  BY <1>5 DEF Reads
<1>7. \A ref : Needs(ref)' = Needs(ref)
  BY <1>5, <1>6 DEF Needs
<1>8. Drawable' <=> Drawable
  BY <1>5, <1>6, <1>7 DEF Drawable
<1>9. GraphNeeds' = GraphNeeds
  BY <1>5, <1>7 DEF GraphNeeds
<1>10. Acceptable' <=> Acceptable
  BY <1>5, <1>7, <1>8 DEF Acceptable
<1>11. \A r, s : KeyOf(r, s)' = KeyOf(r, s)
  BY <1>1 DEF KeyOf, LocalKey
<1>12. \A key : EvaluationNeeds(key)' = EvaluationNeeds(key)
  BY <1>11 DEF EvaluationNeeds
<1>13. WalkNeeds' = WalkNeeds
  BY <1>12 DEF WalkNeeds
<1>14. QED
  BY <1>3, <1>4, <1>8, <1>9, <1>10, <1>13

\* What depends on the evaluated formulas too.
LEMMA SameMemo ==
    ASSUME UNCHANGED <<workbook, request, formulas, memo>>, MemoMade
    PROVE  MemoMade'
<1>1. \A V : Given(V)' <=> Given(V)
  BY SameRequest
<1>2. (AllInSubset' <=> AllInSubset) /\ (AllPlain' <=> AllPlain)
  BY DEF AllInSubset, AllPlain
<1>3. QED
  BY <1>1, <1>2 DEF MemoMade

\* What is given can be closed.
LEMMA GivenIsClosed ==
    ASSUME Asked
    PROVE  \E V : Closed(V) /\ Given(V)
<1> DEFINE V == {Empty} \cup {workbook.values[ref] : ref \in DOMAIN workbook.values}
                 \cup {request.overrides[i].value : i \in DOMAIN request.overrides}
<1>1. Given(V)
  BY DEF Given
<1>2. \A x \in V : Plain(x)
  BY AskedOf DEF Plain, Empty
<1>3. Closed(V)
  BY <1>2 DEF Closed, Plain, IsError, Made
<1>4. QED
  BY <1>1, <1>3

---------------------------------------------------------------------------
(* The request, step by step. *)

\* A request that is taken up has its formulas from the workbook.
LEMMA RequestTaken ==
    ASSUME Asked, CheckRequest, phase' = "edit"
    PROVE  ~Preflighting /\ Taken' /\ EditedTo(0)'
<1>1. /\ ~Preflighting /\ UNCHANGED <<workbook, request>>
      /\ request.sheet \in Sheets
      /\ \A key \in OverrideKeys : /\ Whole(key) \in DOMAIN workbook.values
                                   /\ Whole(key) \notin DOMAIN workbook.formulas
      /\ todo' = request.edits
      /\ formulas' = [key \in {Ref("", ref.col) : ref \in {f \in DOMAIN workbook.formulas :
                                                               f.sheet = request.sheet}} |->
                        workbook.formulas[Whole(key)]]
  BY DEF CheckRequest, Refuse, Whole
<1>2. formulas' = [key \in Keys |-> workbook.formulas[Whole(key)]]
  BY <1>1 DEF Keys
<1>3. /\ Preflighting' <=> Preflighting
      /\ Keys' = Keys /\ \A key : Whole(key)' = Whole(key)
  BY <1>1, SameRequest
<1>4. \A key \in Keys : /\ formulas'[key] = workbook.formulas[Whole(key)]
                        /\ formulas'[key].ast \in Trees
  BY <1>1, <1>2, KeyWhole, AskedOf
<1>5. Taken'
  <2>1. OverrideKeys' = OverrideKeys
    BY <1>1 DEF OverrideKeys, LocalKey
  <2>2. DOMAIN formulas' = Keys
    BY <1>2
  <2>3. QED
    BY <1>1, <1>3, <1>4, <2>1, <2>2 DEF Taken
<1>6. EditedTo(0)'
  <2> DEFINE n == Len(request.edits)
  <2>1. request.edits \in Seq(ToSet(request.edits)) /\ n \in Nat
    BY AskedOf
  <2>2. request.edits = [i \in 1 .. n |-> request.edits[i]]
    BY <2>1
  <2>3. [i \in 1 .. (n - 0) |-> request.edits[i + 0]] = [i \in 1 .. n |-> request.edits[i]]
    BY <2>1
  <2>4. \A key : EditsOf(0, key) = {} /\ EditsOf(0, key)' = {}
    <3>1. 1 .. 0 = {}
      OBVIOUS
    <3>2. QED
      BY <3>1 DEF EditsOf
  <2>5. 0 \in 0 .. n
    BY <2>1
  <2>6. \A key \in Keys : formulas'[key] = workbook.formulas[Whole(key)]
    BY <1>4
  <2>7. todo' = [i \in 1 .. (n - 0) |-> request.edits[i + 0]]
    BY <1>1, <2>2, <2>3
  <2>8. QED
    BY <1>1, <1>3, <2>4, <2>5, <2>6, <2>7 DEF EditedTo
<1>7. QED
  BY <1>1, <1>5, <1>6

\* The edit that is next.
LEMMA NextEdit ==
    ASSUME Asked, NEW n, EditedTo(n), todo # <<>>
    PROVE  /\ n + 1 \in 0 .. Len(request.edits) /\ n \in Nat /\ n + 1 \in DOMAIN request.edits
           /\ Head(todo) = request.edits[n + 1]
           /\ Tail(todo) = [i \in 1 .. (Len(request.edits) - (n + 1)) |-> request.edits[i + (n + 1)]]
<1> DEFINE l == Len(request.edits)
           k == l - n
           f == [i \in 1 .. k |-> request.edits[i + n]]
<1>1. l \in Nat /\ DOMAIN request.edits = 1 .. l
  BY AskedOf
<1>2. n \in 0 .. l /\ todo = f
  BY DEF EditedTo
<1>3. k \in Nat /\ n \in Nat
  BY <1>1, <1>2
<1>4. k # 0
  <2>1. SUFFICES ASSUME k = 0
                 PROVE  FALSE
    OBVIOUS
  <2>2. 1 .. k = {}
    BY <2>1
  <2>3. f = <<>>
    BY <2>2
  <2>4. QED
    BY <1>2, <2>3
<1>5. /\ f \in Seq({f[i] : i \in 1 .. k}) /\ Len(f) = k
      /\ Head(f) = f[1] /\ Tail(f) = [i \in 1 .. (Len(f) - 1) |-> f[i + 1]]
  <2> DEFINE V == {f[i] : i \in 1 .. k}
  <2>1. f \in [1 .. k -> V]
    OBVIOUS
  <2> HIDE DEF V, f, k
  <2>2. f \in Seq(V) /\ Len(f) = k
    BY <1>3, <2>1
  <2>3. f # <<>>
    BY <1>4, <2>2
  <2>4. Head(f) = f[1]
    BY <2>2, <2>3
  <2>5. Tail(f) = [i \in 1 .. (Len(f) - 1) |-> f[i + 1]]
    <3> DEFINE t == Tail(f)
    <3>1. t \in Seq(V) /\ Len(t) = Len(f) - 1 /\ \A i \in 1 .. Len(t) : t[i] = f[i + 1]
      BY <2>2, <2>3, HeadTailProperties
    <3> HIDE DEF t
    <3>2. t = [i \in 1 .. Len(t) |-> t[i]]
      BY <3>1
    <3>3. t = [i \in 1 .. (Len(f) - 1) |-> f[i + 1]]
      BY <3>1, <3>2
    <3>4. QED
      BY <3>3 DEF t
  <2>6. QED
    BY <2>2, <2>4, <2>5 DEF V
<1>7. 1 \in 1 .. k /\ 1 + n = n + 1
  BY <1>3, <1>4
<1>8. Head(f) = request.edits[n + 1]
  BY <1>5, <1>7
<1>9. [i \in 1 .. (k - 1) |-> f[i + 1]] = [i \in 1 .. (l - (n + 1)) |-> request.edits[i + (n + 1)]]
  <2>1. k - 1 = l - (n + 1)
    BY <1>1, <1>3
  <2>2. \A i \in 1 .. (k - 1) : i + 1 \in 1 .. k /\ (i + 1) + n = i + (n + 1)
    BY <1>3
  <2>3. \A i \in 1 .. (k - 1) : f[i + 1] = request.edits[i + (n + 1)]
    BY <2>2
  <2> HIDE DEF k, l, f
  <2>4. QED
    BY <2>1, <2>3
<1>10. n + 1 \in 0 .. l /\ n + 1 \in 1 .. l
  BY <1>1, <1>2, <1>3, <1>4
<1>11. QED
  BY <1>1, <1>2, <1>3, <1>5, <1>8, <1>9, <1>10

\* The edits of a formula before the next one, and with it.
LEMMA EditsOfNext ==
    ASSUME NEW n \in Nat, NEW key
    PROVE  /\ request.edits[n + 1].col = key.col =>
                EditsOf(n + 1, key) # {} /\ Max(EditsOf(n + 1, key)) = n + 1
           /\ request.edits[n + 1].col # key.col => EditsOf(n + 1, key) = EditsOf(n, key)
<1> DEFINE S == EditsOf(n + 1, key)
<1>1. ASSUME request.edits[n + 1].col = key.col
      PROVE  S # {} /\ Max(S) = n + 1
  <2>1. n + 1 \in S /\ S \subseteq 1 .. (n + 1)
    BY <1>1 DEF EditsOf
  <2> HIDE DEF S
  <2>2. Max(S) \in S /\ \A y \in S : y <= Max(S)
    <3>1. n + 1 \in Nat
      OBVIOUS
    <3>2. QED
      BY <2>1, <3>1, MaxIsMember
  <2>3. Max(S) \in 1 .. (n + 1) /\ n + 1 <= Max(S)
    BY <2>1, <2>2
  <2>4. QED
    BY <2>1, <2>3
<1>2. ASSUME request.edits[n + 1].col # key.col
      PROVE  S = EditsOf(n, key)
  <2>1. 1 .. (n + 1) = (1 .. n) \cup {n + 1}
    OBVIOUS
  <2>2. QED
    BY <1>2, <2>1 DEF EditsOf
<1>3. QED
  BY <1>1, <1>2

\* A guarded edit is taken.
LEMMA EditTaken ==
    ASSUME Asked, Taken, ~Preflighting, NEW n, EditedTo(n), ApplyEdit, Guarded(Head(todo))
    PROVE  Taken' /\ EditedTo(n + 1)'
<1> DEFINE e == request.edits[n + 1]
           k == Ref("", e.col)
<1>1. /\ n + 1 \in 0 .. Len(request.edits) /\ n \in Nat /\ n + 1 \in DOMAIN request.edits
      /\ Head(todo) = e
      /\ Tail(todo) = [i \in 1 .. (Len(request.edits) - (n + 1)) |-> request.edits[i + (n + 1)]]
  BY NextEdit DEF ApplyEdit
<1>2. /\ formulas' = [formulas EXCEPT ![k] = e.new] /\ todo' = Tail(todo)
      /\ UNCHANGED <<workbook, request>>
  BY <1>1 DEF ApplyEdit
<1>3. k \in DOMAIN formulas /\ InSubset(e.new)
  BY <1>1 DEF Guarded
<1>4. e.new.ast \in Trees
  BY <1>1, AskedOf
<1>5. /\ Preflighting' <=> Preflighting
      /\ Keys' = Keys /\ \A key : Whole(key)' = Whole(key)
  BY <1>2, SameRequest
<1>6. DOMAIN formulas = Keys /\ \A key \in Keys : formulas[key].ast \in Trees
  BY DEF Taken
<1>7. DOMAIN formulas' = Keys
  BY <1>2, <1>6
<1>8. \A key \in Keys : formulas'[key] = IF key.col = e.col THEN e.new ELSE formulas[key]
  <2>1. ASSUME NEW key \in Keys
        PROVE  key = k <=> key.col = e.col
    <3>1. key = Ref("", key.col)
      BY KeyWhole
    <3>2. k.col = e.col
      BY RefParts
    <3>3. QED
      BY <3>1, <3>2
  <2> HIDE DEF k, e
  <2>2. QED
    BY <1>2, <1>6, <2>1
<1>9. Taken'
  <2>1. OverrideKeys' = OverrideKeys
    BY <1>2 DEF OverrideKeys, LocalKey
  <2>2. \A key \in Keys : formulas'[key].ast \in Trees
    BY <1>3, <1>4, <1>6, <1>8
  <2>3. QED
    BY <1>2, <1>5, <1>7, <2>1, <2>2 DEF Taken
<1>10. ASSUME NEW key \in Keys
       PROVE  formulas'[key] = IF EditsOf(n + 1, key) = {} THEN workbook.formulas[Whole(key)]
                               ELSE request.edits[Max(EditsOf(n + 1, key))].new
  <2>1. formulas[key] = IF EditsOf(n, key) = {} THEN workbook.formulas[Whole(key)]
                        ELSE request.edits[Max(EditsOf(n, key))].new
    BY DEF EditedTo
  <2>2. CASE key.col = e.col
    <3>1. EditsOf(n + 1, key) # {} /\ Max(EditsOf(n + 1, key)) = n + 1
      BY <1>1, <2>2, EditsOfNext
    <3>2. QED
      BY <1>8, <2>2, <3>1
  <2>3. CASE key.col # e.col
    <3>1. EditsOf(n + 1, key) = EditsOf(n, key)
      BY <1>1, <2>3, EditsOfNext
    <3>2. QED
      BY <1>8, <2>1, <2>3, <3>1
  <2>4. QED
    BY <2>2, <2>3
<1>11. \A m, key : EditsOf(m, key)' = EditsOf(m, key)
  BY <1>2 DEF EditsOf
<1>12. EditedTo(n + 1)'
  BY <1>1, <1>2, <1>5, <1>10, <1>11 DEF EditedTo
<1>13. QED
  BY <1>9, <1>12

\* An edit that is refused was not sound.
LEMMA EditRefused ==
    ASSUME Asked, Taken, ~Preflighting, NEW n, EditedTo(n), todo # <<>>, ~Guarded(Head(todo))
    PROVE  \E i \in DOMAIN request.edits : ~SoundEdit(i)
<1> DEFINE e == request.edits[n + 1]
           k == Ref("", e.col)
           earlier == {j \in 1 .. ((n + 1) - 1) : request.edits[j].col = e.col}
<1>1. n \in Nat /\ n + 1 \in DOMAIN request.edits /\ Head(todo) = e
  BY NextEdit
<1>2. SUFFICES ASSUME SoundEdit(n + 1)
               PROVE  FALSE
  BY <1>1
<1>3. /\ Ref(request.sheet, e.col) \in DOMAIN workbook.formulas
      /\ e.old = IF earlier = {} THEN workbook.formulas[Ref(request.sheet, e.col)]
                 ELSE request.edits[Max(earlier)].new
      /\ InSubset(e.new)
  BY <1>2 DEF SoundEdit
<1>4. k \in Keys /\ Whole(k) = Ref(request.sheet, e.col)
  <2> DEFINE ref == Ref(request.sheet, e.col)
  <2>1. ref.sheet = request.sheet /\ ref.col = e.col
    BY RefParts
  <2>2. QED
    BY <1>3, <2>1, WholeKey
<1>5. earlier = EditsOf(n, k)
  <2> DEFINE c == e.col
  <2>1. (n + 1) - 1 = n /\ k.col = c
    <3>1. (n + 1) - 1 = n
      BY <1>1
    <3> HIDE DEF c
    <3>2. Ref("", c).col = c
      BY DEF Ref
    <3>3. QED
      BY <3>1, <3>2 DEF c
  <2>2. earlier = {j \in 1 .. n : request.edits[j].col = c}
    BY <2>1
  <2> HIDE DEF earlier, e, k, c
  <2>3. EditsOf(n, k) = {j \in 1 .. n : request.edits[j].col = c}
    BY <2>1 DEF EditsOf, c
  <2>4. QED
    BY <2>2, <2>3
<1>6. formulas[k] = e.old
  BY <1>3, <1>4, <1>5 DEF EditedTo
<1>7. k \in DOMAIN formulas
  BY <1>4 DEF Taken
<1>8. Guarded(e)
  BY <1>3, <1>6, <1>7 DEF Guarded
<1>9. QED
  BY <1>1, <1>8

\* When all edits are taken, the formulas are those the request means.
LEMMA EditsTaken ==
    ASSUME Asked, ~Preflighting, NEW n, EditedTo(n), todo = <<>>
    PROVE  FormulasMeant
<1> DEFINE l == Len(request.edits)
<1>1. l \in Nat /\ DOMAIN request.edits = 1 .. l
  BY AskedOf
<1>2. n \in 0 .. l /\ todo = [i \in 1 .. (l - n) |-> request.edits[i + n]]
  BY DEF EditedTo
<1>3. n = l
  <2>1. DOMAIN todo = 1 .. (l - n) /\ DOMAIN todo = {}
    BY <1>2
  <2>2. 1 \notin 1 .. (l - n)
    BY <2>1
  <2>3. QED
    BY <1>1, <1>2, <2>2
<1>4. ASSUME NEW key \in Keys
      PROVE  formulas[key] = Meant(workbook, request, Whole(key))
  <2> DEFINE by == {i \in DOMAIN request.edits : Ref(request.sheet, request.edits[i].col) = Whole(key)}
  <2>1. Whole(key) = Ref(request.sheet, key.col)
    BY KeyWhole
  <2>2. \A i : Ref(request.sheet, request.edits[i].col) = Whole(key) <=> request.edits[i].col = key.col
    BY <2>1 DEF Ref
  <2>3. by = EditsOf(n, key)
    BY <1>1, <1>3, <2>2 DEF EditsOf
  <2>4. Meant(workbook, request, Whole(key)) =
          IF by = {} THEN workbook.formulas[Whole(key)] ELSE request.edits[Max(by)].new
    BY DEF Meant
  <2>5. formulas[key] = IF EditsOf(n, key) = {} THEN workbook.formulas[Whole(key)]
                        ELSE request.edits[Max(EditsOf(n, key))].new
    BY DEF EditedTo
  <2> HIDE DEF by
  <2>6. QED
    BY <2>3, <2>4, <2>5
<1>5. QED
  BY <1>4 DEF FormulasMeant

\* The preflight takes the workbook as it is.
LEMMA PreflightTaken ==
    ASSUME Asked, Preflight, phase' = "graph"
    PROVE  Taken' /\ FormulasMeant'
<1>1. /\ Preflighting /\ UNCHANGED <<workbook, request>> /\ formulas' = workbook.formulas
      /\ \A ref \in DOMAIN workbook.formulas : InSubset(workbook.formulas[ref])
  BY DEF Preflight, Refuse
<1>2. /\ Preflighting' <=> Preflighting
      /\ Keys' = Keys /\ \A key : Whole(key)' = Whole(key)
  BY <1>1, SameRequest
<1>3. Keys = DOMAIN workbook.formulas
  BY <1>1 DEF Keys
<1>4. Taken'
  BY <1>1, <1>2, <1>3, AskedOf DEF Taken
<1>5. ASSUME NEW key \in Keys
      PROVE  workbook.formulas[key] = Meant(workbook, request, Whole(key))
  <2>1. Whole(key) = key /\ request.edits = <<>>
    BY <1>1, KeyWhole, AskedOf
  <2>2. {i \in DOMAIN request.edits : Ref(request.sheet, request.edits[i].col) = Whole(key)} = {}
    BY <2>1
  <2>3. QED
    BY <2>1, <2>2 DEF Meant
<1>6. FormulasMeant'
  BY <1>1, <1>2, <1>5 DEF FormulasMeant
<1>7. QED
  BY <1>4, <1>6

---------------------------------------------------------------------------
(* Every step keeps the invariant. *)

\* At any stage the counts are those of what is left.
LEMMA StageCounts ==
    ASSUME NEW w, NEW needs, NEW seen, IsGraph(needs), Stage(w, needs, seen)
    PROVE  \A n \in DOMAIN w.remaining :
             w.remaining[n] >= 0 /\ (n \in ToSet(w.ready) => w.remaining[n] = 0)
<1>1. SUFFICES ASSUME NEW n \in DOMAIN w.remaining
               PROVE  w.remaining[n] >= 0 /\ (n \in ToSet(w.ready) => w.remaining[n] = 0)
  OBVIOUS
<1>2. n \in DOMAIN needs /\ w.remaining[n] = Cardinality(needs[n] \ seen)
  BY DEF Stage
<1>3. needs[n] \ seen \in SUBSET DOMAIN needs
  BY <1>2 DEF IsGraph
<1>4. IsFiniteSet(needs[n] \ seen)
  BY <1>3, FS_Subset DEF IsGraph
<1>5. Cardinality(needs[n] \ seen) \in Nat
  BY <1>4, FS_CardinalityType
<1>6. n \in ToSet(w.ready) => needs[n] \ seen = {}
  BY <1>2 DEF Stage
<1>7. QED
  BY <1>2, <1>5, <1>6, FS_EmptySet

\* The first states satisfy the invariant.
LEMMA FirstInvariant ==
    ASSUME Init
    PROVE  IInv
<1>1. DOMAIN <<>> = {}
  OBVIOUS
<1>2. Asked
  BY DEF Init, Asked
<1>3. PhaseOK
  BY <1>1 DEF Init, PhaseOK, NoWalk
<1>4. FormulasOK /\ WalkOK /\ ReasonOK
  BY DEF Init, FormulasOK, WalkOK, ReasonOK, Accepted
<1>5. AnswerOK
  <2>1. MemoMade
    BY <1>1, <1>2, GivenIsClosed DEF Init, MemoMade, AllPlain
  <2>2. QED
    BY <1>1, <2>1 DEF Init, AnswerOK, MemoMeans
<1>6. QED
  BY <1>2, <1>3, <1>4, <1>5 DEF IInv

\* A refusal for a reason that holds keeps the invariant.
LEMMA RefuseKeeps ==
    ASSUME IInv, NEW why, Refuse(why),
           why \in {"request", "subset", "edit", "graph", "data", "observation", "killed", "malformed"},
           why = "edit" => \E i \in DOMAIN request.edits : ~SoundEdit(i),
           why = "graph" => ~Acceptable,
           why \in {"data", "malformed"} => \E key \in DOMAIN formulas : Meaning[Whole(key)].t = why,
           why = "malformed" => ~Preflighting /\ ~AllInSubset
    PROVE  IInv'
<1>1. /\ phase' = "refused" /\ reason' = why
      /\ workbook' = workbook /\ request' = request /\ todo' = todo /\ formulas' = formulas
      /\ walk' = walk /\ memo' = memo /\ response' = response
  BY DEF Refuse
<1>2. /\ Asked' /\ Meaning' = Meaning /\ \A key : Whole(key)' = Whole(key)
      /\ \A i : SoundEdit(i)' <=> SoundEdit(i)
      /\ Preflighting' <=> Preflighting
  BY <1>1, SameRequest DEF IInv
<1>3. (Acceptable' <=> Acceptable) /\ (AllInSubset' <=> AllInSubset)
  BY <1>1, SameGraph DEF AllInSubset
<1>4. PhaseOK'
  BY <1>1 DEF IInv, PhaseOK
<1>5. FormulasOK' /\ WalkOK'
  BY <1>1 DEF FormulasOK, WalkOK, Accepted
<1>6. AnswerOK'
  <2>1. MemoMade'
    BY <1>1, SameMemo DEF IInv, AnswerOK
  <2>2. QED
    BY <1>1, <1>2, <2>1 DEF IInv, AnswerOK, MemoMeans
<1>7. ReasonOK'
  BY <1>1, <1>2, <1>3 DEF ReasonOK
<1>8. QED
  BY <1>2, <1>4, <1>5, <1>6, <1>7 DEF IInv

\* Before a phase is accepted or refused, what is evaluated, answered or refused is
\* nothing yet.
LEMMA NothingYet ==
    ASSUME IInv, phase \in {"request", "edit", "graph", "check"},
           phase' \in {"edit", "graph", "check", "evaluate"},
           UNCHANGED <<workbook, request, reason, memo>>
    PROVE  AnswerOK' /\ ReasonOK' /\ reason = "none" /\ memo = <<>>
<1>1. memo = <<>> /\ reason = "none"
  BY DEF IInv, FormulasOK, PhaseOK
<1>2. DOMAIN memo = {}
  BY <1>1
<1>3. AnswerOK'
  <2>1. \E V : Closed(V) /\ Given(V)'
    BY SameRequest, GivenIsClosed DEF IInv
  <2>2. MemoMade'
    BY <1>2, <2>1 DEF MemoMade, AllPlain
  <2>3. QED
    BY <1>2, <2>2 DEF AnswerOK, MemoMeans
<1>4. ReasonOK'
  BY <1>1 DEF ReasonOK
<1>5. QED
  BY <1>1, <1>3, <1>4

\* A request is taken up with the formulas of its sheet, or refused.
LEMMA CheckRequestKeeps ==
    ASSUME IInv, CheckRequest
    PROVE  IInv'
<1>1. phase = "request"
  BY DEF CheckRequest
<1>2. CASE Refuse("request")
  BY <1>2, RefuseKeeps
<1>3. CASE ~Refuse("request")
  <2>1. phase' = "edit" /\ UNCHANGED <<workbook, request, reason, walk, memo, response>>
    BY <1>3 DEF CheckRequest
  <2>2. ~Preflighting /\ Taken' /\ EditedTo(0)'
    BY <2>1, RequestTaken DEF IInv
  <2>3. Asked' /\ (Preflighting' <=> Preflighting)
    BY <2>1, SameRequest DEF IInv
  <2>4. AnswerOK' /\ ReasonOK' /\ reason = "none" /\ memo = <<>>
    BY <1>1, <2>1, NothingYet
  <2>5. PhaseOK'
    BY <2>1, <2>4 DEF IInv, PhaseOK
  <2>6. FormulasOK'
    <3>1. 0 \in 0 .. Len(request'.edits)
      BY <2>2 DEF EditedTo
    <3>2. QED
      BY <2>1, <2>2, <2>3, <2>4, <3>1 DEF FormulasOK, Accepted
  <2>7. WalkOK'
    BY <2>1 DEF WalkOK, Accepted
  <2>8. QED
    BY <2>3, <2>4, <2>5, <2>6, <2>7 DEF IInv
<1>4. QED
  BY <1>2, <1>3

\* An upload is taken up with all its formulas, or refused.
LEMMA PreflightKeeps ==
    ASSUME IInv, Preflight
    PROVE  IInv'
<1>1. phase = "request"
  BY DEF Preflight
<1>2. CASE Refuse("subset")
  BY <1>2, RefuseKeeps
<1>3. CASE ~Refuse("subset")
  <2>1. phase' = "graph" /\ UNCHANGED <<workbook, request, reason, todo, walk, memo, response>>
    BY <1>3 DEF Preflight
  <2>2. Taken' /\ FormulasMeant'
    BY <2>1, PreflightTaken DEF IInv
  <2>3. Asked'
    BY <2>1, SameRequest DEF IInv
  <2>4. AnswerOK' /\ ReasonOK' /\ reason = "none" /\ memo = <<>>
    BY <1>1, <2>1, NothingYet
  <2>5. PhaseOK'
    BY <2>1, <2>4 DEF IInv, PhaseOK
  <2>6. FormulasOK'
    BY <2>1, <2>2, <2>4 DEF FormulasOK
  <2>7. WalkOK'
    BY <2>1 DEF WalkOK, Accepted
  <2>8. QED
    BY <2>3, <2>4, <2>5, <2>6, <2>7 DEF IInv
<1>4. QED
  BY <1>2, <1>3

\* An edit that is guarded is taken; a refused one was not sound.
LEMMA ApplyEditKeeps ==
    ASSUME IInv, ApplyEdit
    PROVE  IInv'
<1>1. phase = "edit" /\ todo # <<>>
  BY DEF ApplyEdit
<1>2. ~Preflighting /\ Taken /\ Asked
  BY <1>1 DEF IInv, FormulasOK
<1>3. PICK n \in 0 .. Len(request.edits) : EditedTo(n)
  BY <1>1 DEF IInv, FormulasOK
<1>4. CASE ~Guarded(Head(todo))
  <2>1. Refuse("edit")
    BY <1>4 DEF ApplyEdit
  <2>2. \E i \in DOMAIN request.edits : ~SoundEdit(i)
    BY <1>1, <1>2, <1>3, <1>4, EditRefused
  <2>3. QED
    BY <2>1, <2>2, RefuseKeeps
<1>5. CASE Guarded(Head(todo))
  <2>1. UNCHANGED <<workbook, request, phase, reason, walk, memo, response>>
    BY <1>5 DEF ApplyEdit
  <2>2. Taken' /\ EditedTo(n + 1)'
    BY <1>2, <1>3, <1>5, EditTaken
  <2>3. Asked' /\ (Preflighting' <=> Preflighting)
    BY <2>1, SameRequest DEF IInv
  <2>4. AnswerOK' /\ ReasonOK' /\ reason = "none" /\ memo = <<>>
    BY <1>1, <2>1, NothingYet
  <2>5. PhaseOK'
    BY <2>1, <2>4 DEF IInv, PhaseOK
  <2>6. FormulasOK'
    <3>1. n + 1 \in 0 .. Len(request'.edits)
      BY <2>2 DEF EditedTo
    <3>2. \E m \in 0 .. Len(request'.edits) : EditedTo(m)'
      BY <2>2, <3>1
    <3>3. QED
      BY <1>1, <1>2, <2>1, <2>2, <2>3, <2>4, <3>2 DEF FormulasOK, Accepted
  <2>7. WalkOK'
    BY <1>1, <2>1 DEF WalkOK, Accepted
  <2>8. QED
    BY <2>3, <2>4, <2>5, <2>6, <2>7 DEF IInv
<1>6. QED
  BY <1>4, <1>5

\* With the last edit, the formulas are those the request means.
LEMMA EditsDoneKeeps ==
    ASSUME IInv, EditsDone
    PROVE  IInv'
<1>1. /\ phase = "edit" /\ todo = <<>> /\ phase' = "graph"
      /\ UNCHANGED <<workbook, request, reason, todo, formulas, walk, memo, response>>
  BY DEF EditsDone
<1>2. ~Preflighting /\ Taken /\ Asked
  BY <1>1 DEF IInv, FormulasOK
<1>3. PICK n \in 0 .. Len(request.edits) : EditedTo(n)
  BY <1>1 DEF IInv, FormulasOK
<1>4. FormulasMeant
  BY <1>1, <1>2, <1>3, EditsTaken
<1>5. Taken' /\ FormulasMeant'
  BY <1>1, <1>2, <1>4, SameGraph
<1>6. Asked'
  BY <1>1, SameRequest DEF IInv
<1>7. AnswerOK' /\ ReasonOK' /\ reason = "none" /\ memo = <<>>
  BY <1>1, NothingYet
<1>8. PhaseOK'
  BY <1>1, <1>7 DEF IInv, PhaseOK
<1>9. FormulasOK'
  BY <1>1, <1>5, <1>7 DEF FormulasOK
<1>10. WalkOK'
  BY <1>1 DEF WalkOK, Accepted
<1>11. QED
  BY <1>6, <1>7, <1>8, <1>9, <1>10 DEF IInv

\* A graph that cannot be drawn is not acceptable; one that can is walked from its start.
LEMMA BuildGraphKeeps ==
    ASSUME IInv, BuildGraph
    PROVE  IInv'
<1>1. phase = "graph"
  BY DEF BuildGraph
<1>2. Asked /\ Taken /\ FormulasMeant
  BY <1>1 DEF IInv, FormulasOK
<1>3. CASE ~Drawable
  <2>1. Refuse("graph")
    BY <1>3 DEF BuildGraph
  <2>2. ~Acceptable
    BY <1>3 DEF Acceptable
  <2>3. QED
    BY <2>1, <2>2, RefuseKeeps
<1>4. CASE Drawable
  <2>1. /\ phase' = "check" /\ Starting(GraphNeeds)
        /\ UNCHANGED <<workbook, request, reason, todo, formulas, memo, response>>
    BY <1>4 DEF BuildGraph, GraphNeeds
  <2>2. IsGraph(GraphNeeds)
    BY <1>2, CheckedGraph
  <2>3. Stage(walk', GraphNeeds, {}) /\ Deep(walk', GraphNeeds, {})
    BY <2>1, <2>2, WalkStarts
  <2>4. /\ Taken' /\ FormulasMeant' /\ Drawable' /\ GraphNeeds' = GraphNeeds
    BY <1>2, <1>4, <2>1, SameGraph
  <2>5. Asked'
    BY <2>1, SameRequest DEF IInv
  <2>6. AnswerOK' /\ ReasonOK' /\ reason = "none" /\ memo = <<>>
    BY <1>1, <2>1, NothingYet
  <2>7. PhaseOK'
    <3>1. \A n \in DOMAIN walk'.remaining :
            walk'.remaining[n] >= 0 /\ (n \in ToSet(walk'.ready) => walk'.remaining[n] = 0)
      BY <2>2, <2>3, StageCounts
    <3>2. QED
      BY <2>1, <2>6, <3>1 DEF PhaseOK
  <2>8. FormulasOK'
    BY <2>1, <2>4, <2>6 DEF FormulasOK
  <2>9. WalkOK'
    <3>1. {} \in SUBSET DOMAIN GraphNeeds'
      OBVIOUS
    <3>2. \E seen \in SUBSET DOMAIN GraphNeeds' :
            Stage(walk', GraphNeeds', seen) /\ Deep(walk', GraphNeeds', seen)
      BY <2>3, <2>4, <3>1
    <3>3. QED
      BY <2>1, <2>4, <3>2 DEF WalkOK, Accepted
  <2>10. QED
    BY <2>5, <2>6, <2>7, <2>8, <2>9 DEF IInv
<1>5. QED
  BY <1>3, <1>4

\* A visit is a stage on, unless the graph has no layers.
LEMMA VisitFormulaKeeps ==
    ASSUME IInv, VisitFormula
    PROVE  IInv'
<1> DEFINE node == Last(walk.ready)
<1>1. phase = "check" /\ walk.ready # <<>>
  BY DEF VisitFormula
<1>2. Asked /\ Taken /\ FormulasMeant /\ Drawable
  BY <1>1 DEF IInv, FormulasOK, WalkOK
<1>3. PICK seen \in SUBSET DOMAIN GraphNeeds :
        Stage(walk, GraphNeeds, seen) /\ Deep(walk, GraphNeeds, seen)
  BY <1>1 DEF IInv, WalkOK
<1>4. IsGraph(GraphNeeds)
  BY <1>2, CheckedGraph
<1>5. CASE TooDeep(node)
  <2>1. Refuse("graph")
    BY <1>5 DEF VisitFormula
  <2>2. \A layer : ~Layered(layer, GraphNeeds)
    BY <1>1, <1>3, <1>5, TooDeepHasNoLayers
  <2>3. ~Acceptable
    BY <1>2, <2>2, AcceptableLayers
  <2>4. QED
    BY <2>1, <2>3, RefuseKeeps
<1>6. CASE ~TooDeep(node)
  <2>1. /\ Leaving(node)
        /\ UNCHANGED <<workbook, request, phase, reason, todo, formulas, memo, response>>
    BY <1>6 DEF VisitFormula
  <2> DEFINE all == seen \cup {node}
  <2>2. Stage(walk', GraphNeeds, all)
    BY <1>1, <1>3, <1>4, <2>1, WalkLeaves
  <2>3. Deep(walk', GraphNeeds, all)
    BY <1>1, <1>3, <1>4, <1>6, <2>1, DeepLeaves
  <2>4. all \in SUBSET DOMAIN GraphNeeds
    BY <2>2 DEF Stage
  <2> HIDE DEF all
  <2>5. Taken' /\ FormulasMeant' /\ Drawable' /\ GraphNeeds' = GraphNeeds
    BY <1>2, <2>1, SameGraph
  <2>6. Asked'
    BY <2>1, SameRequest DEF IInv
  <2>7. AnswerOK' /\ ReasonOK' /\ reason = "none" /\ memo = <<>>
    BY <1>1, <2>1, NothingYet
  <2>8. PhaseOK'
    <3>1. \A n \in DOMAIN walk'.remaining :
            walk'.remaining[n] >= 0 /\ (n \in ToSet(walk'.ready) => walk'.remaining[n] = 0)
      BY <1>4, <2>2, StageCounts
    <3>2. QED
      BY <1>1, <2>1, <2>7, <3>1 DEF PhaseOK
  <2>9. FormulasOK'
    BY <1>1, <2>1, <2>5, <2>7 DEF FormulasOK
  <2>10. WalkOK'
    <3>1. \E s \in SUBSET DOMAIN GraphNeeds' :
            Stage(walk', GraphNeeds', s) /\ Deep(walk', GraphNeeds', s)
      BY <2>2, <2>3, <2>4, <2>5
    <3>2. QED
      BY <1>1, <2>1, <2>5, <3>1 DEF WalkOK, Accepted
  <2>11. QED
    BY <2>6, <2>7, <2>8, <2>9, <2>10 DEF IInv
<1>7. QED
  BY <1>5, <1>6

\* A walked graph has the depths for its layers; one with nodes left has none.
LEMMA GraphWalkedKeeps ==
    ASSUME IInv, GraphWalked
    PROVE  IInv'
<1>1. phase = "check" /\ walk.ready = <<>>
  BY DEF GraphWalked
<1>2. Asked /\ Taken /\ FormulasMeant /\ Drawable
  BY <1>1 DEF IInv, FormulasOK, WalkOK
<1>3. PICK seen \in SUBSET DOMAIN GraphNeeds :
        Stage(walk, GraphNeeds, seen) /\ Deep(walk, GraphNeeds, seen)
  BY <1>1 DEF IInv, WalkOK
<1>4. IsGraph(GraphNeeds) /\ walk.needs = GraphNeeds
  BY <1>2, <1>3, CheckedGraph DEF Stage
<1>5. walk.visited = Cardinality(DOMAIN walk.needs) <=> seen = DOMAIN GraphNeeds
  BY <1>3, <1>4, VisitedCounts
<1>6. CASE seen # DOMAIN GraphNeeds
  <2>1. Refuse("graph")
    BY <1>5, <1>6 DEF GraphWalked
  <2>2. \A layer : ~Layered(layer, GraphNeeds)
    BY <1>1, <1>3, <1>4, <1>6, LayersAreWalked
  <2>3. ~Acceptable
    BY <1>2, <2>2, AcceptableLayers
  <2>4. QED
    BY <2>1, <2>3, RefuseKeeps
<1>7. CASE seen = DOMAIN GraphNeeds
  <2>1. /\ phase' = "evaluate" /\ Starting(WalkNeeds)
        /\ UNCHANGED <<workbook, request, reason, todo, formulas, memo, response>>
    BY <1>5, <1>7 DEF GraphWalked, WalkNeeds
  <2>2. Acceptable
    <3>1. Layered(walk.depth, GraphNeeds)
      BY <1>3, <1>4, <1>7, DepthsAreLayers
    <3>2. QED
      BY <1>2, <3>1, AcceptableLayers
  <2>3. IsGraph(WalkNeeds)
    BY <1>2, WalkedGraph
  <2>4. Stage(walk', WalkNeeds, {})
    BY <2>1, <2>3, WalkStarts
  <2>5. Taken' /\ FormulasMeant' /\ Acceptable' /\ WalkNeeds' = WalkNeeds
    BY <1>2, <2>1, <2>2, SameGraph
  <2>6. Asked'
    BY <2>1, SameRequest DEF IInv
  <2>7. AnswerOK' /\ ReasonOK' /\ reason = "none" /\ memo = <<>>
    BY <1>1, <2>1, NothingYet
  <2>8. PhaseOK'
    <3>1. \A n \in DOMAIN walk'.remaining :
            walk'.remaining[n] >= 0 /\ (n \in ToSet(walk'.ready) => walk'.remaining[n] = 0)
      BY <2>3, <2>4, StageCounts
    <3>2. QED
      BY <2>1, <2>7, <3>1 DEF PhaseOK, Accepted
  <2>9. FormulasOK'
    BY <2>1, <2>5 DEF FormulasOK
  <2>10. WalkOK'
    <3>1. DOMAIN memo' = {}
      BY <2>1, <2>7
    <3>2. QED
      BY <2>1, <2>4, <2>5, <3>1 DEF WalkOK
  <2>11. QED
    BY <2>6, <2>7, <2>8, <2>9, <2>10 DEF IInv
<1>8. QED
  BY <1>6, <1>7

\* A value that is made of others can be added to them.
LEMMA MadeMore ==
    ASSUME NEW V, Closed(V), NEW v, Made(v, V), ~IsError(v)
    PROVE  Closed(V \cup {v})
<1> DEFINE W == V \cup {v}
<1>1. Seq(V) \subseteq Seq(W)
  OBVIOUS
<1>2. ASSUME NEW x \in W
      PROVE  ~IsError(x) /\ Made(x, V)
  BY <1>2 DEF Closed
<1> HIDE DEF W
<1>3. QED
  BY <1>1, <1>2 DEF Closed, Made, W

\* An evaluated formula has its meaning; one that fails means its failure.
LEMMA EvaluateFormulaKeeps ==
    ASSUME IInv, EvaluateFormula
    PROVE  IInv'
<1> DEFINE key == Last(walk.ready)
           v == Value(key)
<1>1. phase = "evaluate" /\ walk.ready # <<>>
  BY DEF EvaluateFormula
<1>2. /\ Asked /\ Taken /\ FormulasMeant /\ Acceptable /\ MemoMeans /\ MemoMade
      /\ Stage(walk, WalkNeeds, DOMAIN memo)
  BY <1>1 DEF IInv, FormulasOK, WalkOK, AnswerOK, Accepted
<1>3. IsGraph(WalkNeeds) /\ DOMAIN WalkNeeds = Keys /\ DOMAIN formulas = Keys
  BY <1>2, WalkedGraph DEF Taken
<1>4. key \in Keys /\ WalkNeeds[key] \subseteq DOMAIN memo
  BY <1>1, <1>2, <1>3, ReadyNode
<1>5. v = Meaning[Whole(key)]
  BY <1>2, <1>4, ValueMeans
<1>6. AllInSubset => Answer(v)
  <2>1. AllInSubset => AllPlain /\ InSubset(formulas[key])
    BY <1>2, <1>3, <1>4 DEF MemoMade, AllInSubset
  <2>2. QED
    BY <1>2, <1>4, <2>1, ValueMeans
<1>7. PICK V : /\ Closed(V) /\ Given(V) /\ \A k \in DOMAIN memo : memo[k] \in V
               /\ Made(v, V)
  <2>1. PICK V : Closed(V) /\ Given(V) /\ \A k \in DOMAIN memo : memo[k] \in V
    BY <1>2 DEF MemoMade
  <2>2. Made(v, V)
    BY <1>2, <1>4, <2>1, ValueMeans
  <2>3. QED
    BY <2>1, <2>2
<1>8. CASE IsError(v)
  <2>1. Refuse(v.t)
    BY <1>8 DEF EvaluateFormula
  <2> HIDE DEF key, v
  <2>2. v.t \in {"data", "malformed"}
    BY <1>7, <1>8 DEF IsError, Made
  <2>3. \E k \in DOMAIN formulas : Meaning[Whole(k)].t = v.t
    BY <1>3, <1>4, <1>5
  <2>4. v.t = "malformed" => ~AllInSubset
    BY <1>6 DEF Answer, Plain, Data
  <2>5. Preflighting => AllInSubset
    BY <1>2, <1>3 DEF Taken, AllInSubset
  <2>6. QED
    BY <2>1, <2>2, <2>3, <2>4, <2>5, RefuseKeeps
<1>9. CASE ~IsError(v)
  <2>1. /\ memo' = [k \in DOMAIN memo \cup {key} |-> IF k = key THEN v ELSE memo[k]]
        /\ Leaving(key)
        /\ UNCHANGED <<workbook, request, phase, reason, todo, formulas, response>>
    BY <1>9 DEF EvaluateFormula
  <2>2. Stage(walk', WalkNeeds, DOMAIN memo \cup {key})
    BY <1>1, <1>2, <1>3, <2>1, WalkLeaves
  <2> HIDE DEF key, v
  <2>3. /\ DOMAIN memo' = DOMAIN memo \cup {key}
        /\ \A k \in DOMAIN memo' : memo'[k] = IF k = key THEN v ELSE memo[k]
    BY <2>1
  <2>4. /\ Taken' /\ FormulasMeant' /\ Acceptable' /\ WalkNeeds' = WalkNeeds
    BY <1>2, <2>1, SameGraph
  <2>5. /\ Asked' /\ Meaning' = Meaning /\ \A k : Whole(k)' = Whole(k)
    BY <2>1, SameRequest DEF IInv
  <2>6. MemoMeans'
    <3>1. ASSUME NEW k \in DOMAIN memo'
          PROVE  k \in DOMAIN formulas /\ memo'[k] = Meaning[Whole(k)] /\ ~IsError(memo'[k])
      <4>1. CASE k # key
        BY <1>2, <2>3, <4>1 DEF MemoMeans
      <4>2. CASE k = key
        BY <1>3, <1>4, <1>5, <1>9, <2>3, <4>2
      <4>3. QED
        BY <4>1, <4>2
    <3>2. QED
      BY <2>1, <2>5, <3>1 DEF MemoMeans
  <2>7. MemoMade'
    <3>1. PICK W : W = V \cup {v}
      OBVIOUS
    <3>2. Closed(W)
      BY <1>7, <1>9, <3>1, MadeMore
    <3>3. Given(W)'
      BY <1>7, <2>1, <3>1 DEF Given
    <3>4. \A k \in DOMAIN memo' : memo'[k] \in W
      BY <1>7, <2>3, <3>1
    <3>5. AllInSubset' <=> AllInSubset
      BY <2>1 DEF AllInSubset
    <3>6. AllInSubset => Plain(v)
      BY <1>6, <1>9, AnswerIsPlain
    <3>7. AllInSubset => AllPlain'
      BY <1>2, <2>3, <3>6 DEF MemoMade, AllPlain
    <3>8. QED
      BY <3>2, <3>3, <3>4, <3>5, <3>7 DEF MemoMade
  <2>8. reason = "none"
    BY <1>1 DEF IInv, PhaseOK
  <2>9. AnswerOK' /\ ReasonOK'
    BY <1>1, <2>1, <2>6, <2>7, <2>8 DEF AnswerOK, ReasonOK
  <2>10. PhaseOK'
    <3>1. \A n \in DOMAIN walk'.remaining :
            walk'.remaining[n] >= 0 /\ (n \in ToSet(walk'.ready) => walk'.remaining[n] = 0)
      BY <1>3, <2>2, StageCounts
    <3>2. QED
      BY <1>1, <2>1, <2>8, <3>1 DEF PhaseOK, Accepted
  <2>11. FormulasOK'
    BY <1>1, <2>1, <2>4 DEF FormulasOK
  <2>12. WalkOK'
    BY <1>1, <2>1, <2>2, <2>3, <2>4 DEF WalkOK
  <2>13. QED
    BY <2>5, <2>9, <2>10, <2>11, <2>12 DEF IInv
<1>10. QED
  BY <1>8, <1>9

\* Every formula is evaluated when nothing is ready: an accepted graph has no cycle.
LEMMA EvaluatedKeeps ==
    ASSUME IInv, Evaluated
    PROVE  IInv'
<1>1. phase = "evaluate" /\ walk.ready = <<>>
  BY DEF Evaluated
<1>2. Asked /\ Taken /\ FormulasMeant /\ Acceptable /\ MemoMeans /\ Stage(walk, WalkNeeds, DOMAIN memo)
  BY <1>1 DEF IInv, FormulasOK, WalkOK, AnswerOK, Accepted
<1>3. IsGraph(WalkNeeds) /\ DOMAIN WalkNeeds = Keys /\ DOMAIN formulas = Keys
  BY <1>2, WalkedGraph DEF Taken
<1>4. PICK layer : Layered(layer, GraphNeeds)
  BY <1>2, AcceptableLayers
<1>5. Layered([key \in Keys |-> layer[Whole(key)]], WalkNeeds)
  BY <1>2, <1>4, LayersTransfer
<1>6. DOMAIN memo = DOMAIN formulas
  BY <1>1, <1>2, <1>3, <1>5, LayersAreWalked
<1>7. /\ phase' = IF Preflighting THEN "done" ELSE "observe"
      /\ walk' = NoWalk /\ UNCHANGED <<workbook, request, reason, todo, formulas, memo, response>>
  BY <1>6 DEF Evaluated
<1>8. Taken' /\ FormulasMeant' /\ Acceptable'
  BY <1>2, <1>7, SameGraph
<1>9. /\ Asked' /\ Meaning' = Meaning /\ (Preflighting' <=> Preflighting) /\ \A k : Whole(k)' = Whole(k)
  BY <1>7, SameRequest DEF IInv
<1>10. reason = "none"
  BY <1>1 DEF IInv, PhaseOK
<1>11. PhaseOK'
  <2>1. DOMAIN walk'.remaining = {}
    BY <1>7 DEF NoWalk
  <2>2. QED
    BY <1>7, <1>10, <2>1 DEF PhaseOK, Accepted
<1>12. FormulasOK'
  BY <1>7, <1>8 DEF FormulasOK
<1>13. WalkOK'
  BY <1>7, <1>8 DEF WalkOK
<1>14. AnswerOK'
  <2>1. MemoMade'
    BY <1>7, SameMemo DEF IInv, AnswerOK
  <2>2. QED
    BY <1>2, <1>6, <1>7, <1>9, <2>1 DEF AnswerOK, MemoMeans
<1>15. ReasonOK'
  BY <1>7, <1>10 DEF ReasonOK
<1>16. QED
  BY <1>9, <1>11, <1>12, <1>13, <1>14, <1>15 DEF IInv

\* The observed cells are answered with their meaning.
LEMMA ObserveKeeps ==
    ASSUME IInv, Observe
    PROVE  IInv'
<1>1. phase = "observe"
  BY DEF Observe
<1>2. Asked /\ Taken /\ FormulasMeant /\ Acceptable /\ MemoMeans /\ DOMAIN memo = DOMAIN formulas
  BY <1>1 DEF IInv, FormulasOK, WalkOK, AnswerOK, Accepted
<1>3. CASE Refuse("observation")
  BY <1>3, RefuseKeeps
<1>4. CASE ~Refuse("observation")
  <2>1. /\ \A col \in request.observed :
             Ref(request.sheet, col) \in DOMAIN workbook.values \cup DOMAIN workbook.formulas
        /\ response' = [col \in request.observed |-> Observed(Ref("", col))] /\ phase' = "done"
        /\ UNCHANGED <<workbook, request, reason, todo, formulas, walk, memo>>
    BY <1>4 DEF Observe
  <2>2. Taken' /\ FormulasMeant' /\ Acceptable'
    BY <1>2, <2>1, SameGraph
  <2>3. /\ Asked' /\ Meaning' = Meaning /\ (Preflighting' <=> Preflighting) /\ \A k : Whole(k)' = Whole(k)
    BY <2>1, SameRequest DEF IInv
  <2>4. reason = "none"
    BY <1>1 DEF IInv, PhaseOK
  <2>5. PhaseOK'
    BY <2>1, <2>4 DEF IInv, PhaseOK, Accepted
  <2>6. FormulasOK' /\ WalkOK' /\ ReasonOK'
    BY <2>1, <2>2, <2>4 DEF FormulasOK, WalkOK, ReasonOK
  <2>7. ~Preflighting => response' = [col \in request.observed |-> Meaning[Ref(request.sheet, col)]]
    <3>1. SUFFICES ASSUME ~Preflighting
                   PROVE  response' = [col \in request.observed |-> Meaning[Ref(request.sheet, col)]]
      OBVIOUS
    <3>2. \A col \in request.observed : Observed(Ref("", col)) = Meaning[Ref(request.sheet, col)]
      BY <1>2, <2>1, <3>1, ObservedMeans
    <3>3. QED
      BY <2>1, <3>2
  <2>8. AnswerOK'
    <3>1. MemoMeans' /\ DOMAIN memo' = DOMAIN formulas'
      BY <1>2, <2>1, <2>3 DEF MemoMeans
    <3>2. MemoMade'
      BY <2>1, SameMemo DEF IInv, AnswerOK
    <3>3. QED
      BY <2>1, <2>3, <2>7, <3>1, <3>2 DEF AnswerOK
  <2>9. QED
    BY <2>3, <2>5, <2>6, <2>8 DEF IInv
<1>5. QED
  BY <1>3, <1>4

\* Nothing happens.
LEMMA StutterKeeps ==
    ASSUME IInv, UNCHANGED vars
    PROVE  IInv'
<1>1. /\ UNCHANGED <<workbook, request, formulas>> /\ phase' = phase /\ reason' = reason
      /\ todo' = todo /\ walk' = walk /\ memo' = memo /\ response' = response
  BY DEF vars
<1>2. /\ Asked' /\ Meaning' = Meaning /\ (Preflighting' <=> Preflighting)
      /\ Keys' = Keys /\ \A k : Whole(k)' = Whole(k)
      /\ \A i : SoundEdit(i)' <=> SoundEdit(i)
  BY <1>1, SameRequest DEF IInv
<1>3. /\ Taken' <=> Taken
      /\ FormulasMeant' <=> FormulasMeant
      /\ Drawable' <=> Drawable
      /\ Acceptable' <=> Acceptable
      /\ GraphNeeds' = GraphNeeds /\ WalkNeeds' = WalkNeeds
  BY <1>1, SameGraph
<1>4. \A n : EditedTo(n)' <=> EditedTo(n)
  <2>1. \A n, key : EditsOf(n, key)' = EditsOf(n, key)
    BY <1>1 DEF EditsOf
  <2>2. QED
    BY <1>1, <1>2, <2>1 DEF EditedTo
<1>5. PhaseOK'
  BY <1>1 DEF IInv, PhaseOK
<1>6. FormulasOK'
  BY <1>1, <1>2, <1>3, <1>4 DEF IInv, FormulasOK
<1>7. WalkOK'
  BY <1>1, <1>3 DEF IInv, WalkOK
<1>8. AnswerOK'
  <2>1. MemoMade'
    BY <1>1, SameMemo DEF IInv, AnswerOK
  <2>2. QED
    BY <1>1, <1>2, <2>1 DEF IInv, AnswerOK, MemoMeans
<1>9. ReasonOK'
  BY <1>1, <1>2, <1>3 DEF IInv, ReasonOK, AllInSubset
<1>10. QED
  BY <1>2, <1>5, <1>6, <1>7, <1>8, <1>9 DEF IInv

\* The worker keeps the invariant in every step.
LEMMA WorkerKeeps ==
    IInv /\ [Next]_vars => IInv'
<1>1. SUFFICES ASSUME IInv, [Next]_vars
               PROVE  IInv'
  OBVIOUS
<1>2. CASE CheckRequest
  BY <1>1, <1>2, CheckRequestKeeps
<1>3. CASE Preflight
  BY <1>1, <1>3, PreflightKeeps
<1>4. CASE ApplyEdit
  BY <1>1, <1>4, ApplyEditKeeps
<1>5. CASE EditsDone
  BY <1>1, <1>5, EditsDoneKeeps
<1>6. CASE BuildGraph
  BY <1>1, <1>6, BuildGraphKeeps
<1>7. CASE VisitFormula
  BY <1>1, <1>7, VisitFormulaKeeps
<1>8. CASE GraphWalked
  BY <1>1, <1>8, GraphWalkedKeeps
<1>9. CASE EvaluateFormula
  BY <1>1, <1>9, EvaluateFormulaKeeps
<1>10. CASE Evaluated
  BY <1>1, <1>10, EvaluatedKeeps
<1>11. CASE Observe
  BY <1>1, <1>11, ObserveKeeps
<1>12. CASE WorkerKilled
  <2>1. Refuse("killed")
    BY <1>12 DEF WorkerKilled
  <2>2. QED
    BY <1>1, <2>1, RefuseKeeps
<1>13. CASE UNCHANGED vars
  BY <1>1, <1>13, StutterKeeps
<1>14. QED
  BY <1>1, <1>2, <1>3, <1>4, <1>5, <1>6, <1>7, <1>8, <1>9, <1>10, <1>11, <1>12, <1>13 DEF Next

\* The invariant holds for every workbook and every request.
THEOREM WorkerInvariant == Spec => []IInv
<1>1. Init => IInv
  BY FirstInvariant
<1>2. IInv /\ [Next]_vars => IInv'
  BY WorkerKeeps
<1>3. QED
  BY <1>1, <1>2, PTL DEF Spec

\* The states of the worker have their type, and the walk never counts below zero.
THEOREM TypesOfWorker == Spec => []TypeOK
<1>1. IInv => TypeOK
  <2>1. SUFFICES ASSUME IInv
                 PROVE  TypeOK
    OBVIOUS
  <2>2. DOMAIN memo \subseteq DOMAIN formulas
    BY <2>1 DEF IInv, AnswerOK, MemoMeans
  <2>3. QED
    BY <2>1, <2>2 DEF IInv, PhaseOK, TypeOK, Accepted
<1>2. QED
  BY <1>1, WorkerInvariant, PTL

\* The graph check refuses exactly the unacceptable graphs, for every workbook, every
\* request and every order of the visits.  What passed it meets no cycle and nothing that
\* is not evaluated yet; it fails on a form only if a formula of a workbook that was never
\* uploaded is outside the subset, and else on its data.
THEOREM GraphCheckExact == Spec => []GraphCheckIsExact
<1>1. IInv => GraphCheckIsExact
  BY DEF IInv, PhaseOK, WalkOK, ReasonOK, Accepted, AllInSubset, GraphCheckIsExact
<1>2. QED
  BY <1>1, WorkerInvariant, PTL

\* What an experiment answers is what it was asked for, for every workbook and request.
THEOREM AnswersAsMeant == Spec => []ValuesAreMeant
<1>1. IInv => ValuesAreMeant
  BY DEF IInv, AnswerOK, ReasonOK, MemoMeans, Whole, ValuesAreMeant
<1>2. QED
  BY <1>1, WorkerInvariant, PTL

---------------------------------------------------------------------------
(* Edits are written as text. *)

\* What an evaluated formula needs was evaluated, from the formulas that were meant;
\* this stays so after a refusal.
Grounded ==
    DOMAIN memo # {} => /\ Taken /\ FormulasMeant /\ Acceptable
                        /\ \A key \in DOMAIN memo : WalkNeeds[key] \subseteq DOMAIN memo

\* A step keeps the evaluated formulas grounded.
LEMMA GroundedKeeps ==
    IInv /\ Grounded /\ [Next]_vars => Grounded'
<1>1. SUFFICES ASSUME IInv, Grounded, [Next]_vars
               PROVE  Grounded'
  OBVIOUS
<1>2. DOMAIN <<>> = {}
  OBVIOUS
<1>3. ASSUME UNCHANGED <<workbook, request, formulas>>, memo' = memo
      PROVE  Grounded'
  <2>1. /\ Taken' <=> Taken
        /\ FormulasMeant' <=> FormulasMeant
        /\ Acceptable' <=> Acceptable
        /\ WalkNeeds' = WalkNeeds
    BY <1>3, SameGraph
  <2>2. QED
    BY <1>1, <1>3, <2>1 DEF Grounded
<1>4. ASSUME phase \in {"request", "edit"}, memo' = memo
      PROVE  Grounded'
  <2>1. phase = "edit" => memo = <<>>
    BY <1>1 DEF IInv, FormulasOK
  <2>2. memo = <<>>
    BY <1>1, <1>4, <2>1 DEF IInv, FormulasOK
  <2>3. QED
    BY <1>2, <1>4, <2>2 DEF Grounded
<1>5. CASE EvaluateFormula
  <2> DEFINE key == Last(walk.ready)
  <2>1. phase = "evaluate" /\ walk.ready # <<>>
    BY <1>5 DEF EvaluateFormula
  <2>2. Asked /\ Taken /\ FormulasMeant /\ Acceptable /\ Stage(walk, WalkNeeds, DOMAIN memo)
    BY <1>1, <2>1 DEF IInv, FormulasOK, WalkOK, Accepted
  <2>3. WalkNeeds[key] \subseteq DOMAIN memo
    BY <2>1, <2>2, ReadyNode
  <2>4. \A k \in DOMAIN memo : WalkNeeds[k] \subseteq DOMAIN memo
    BY <2>2 DEF Stage
  <2>5. UNCHANGED <<workbook, request, formulas>>
    BY <1>5 DEF EvaluateFormula, Refuse
  <2>6. memo' = memo \/ DOMAIN memo' = DOMAIN memo \cup {key}
    BY <1>5 DEF EvaluateFormula, Refuse
  <2>7. Taken' /\ FormulasMeant' /\ Acceptable' /\ WalkNeeds' = WalkNeeds
    BY <2>2, <2>5, SameGraph
  <2> HIDE DEF key
  <2>8. \A k \in DOMAIN memo' : WalkNeeds'[k] \subseteq DOMAIN memo'
    BY <2>3, <2>4, <2>6, <2>7
  <2>9. QED
    BY <2>7, <2>8 DEF Grounded
<1>6. CASE CheckRequest \/ Preflight \/ ApplyEdit
  <2>1. phase \in {"request", "edit"} /\ memo' = memo
    BY <1>6 DEF CheckRequest, Preflight, ApplyEdit, Refuse
  <2>2. QED
    BY <1>4, <2>1
<1>7. CASE EditsDone \/ BuildGraph \/ VisitFormula \/ GraphWalked \/ Evaluated \/ Observe
             \/ WorkerKilled \/ UNCHANGED vars
  <2>1. UNCHANGED <<workbook, request, formulas>> /\ memo' = memo
    BY <1>7 DEF EditsDone, BuildGraph, VisitFormula, GraphWalked, Evaluated, Observe, WorkerKilled,
                Refuse, vars
  <2>2. QED
    BY <1>3, <2>1
<1>8. QED
  BY <1>1, <1>5, <1>6, <1>7 DEF Next

\* An outer IF has the value of the branch its condition takes, unless the condition
\* fails; and the branch reads back from its text.
LEMMA UnwrapKeepsValue ==
    ASSUME NEW formula, formula.ast \in Trees, Legible[formula.ast], OuterIf(formula.ast), NEW env,
           ~IsError(Evaluate(formula.ast, env))
    PROVE  Evaluate(formula.ast, env) =
             Evaluate(Parse(Unwrap(formula, Truthy(Evaluate(formula.ast.args[1], env)))), env)
<1> DEFINE ast == formula.ast
           args == ast.args
           value == ValueUnder(env)
           condition == value[args[1]]
           taken == args[IF Truthy(condition) THEN 2 ELSE 3]
<1>1. ast \in Trees /\ Legible[ast] /\ ast.kind = "call" /\ ast.name = "IF" /\ Len(args) = 3
  BY DEF OuterIf
<1>2. /\ DOMAIN args = 1 .. 3
      /\ \A i \in 1 .. 3 : args[i] \in Trees /\ Legible[args[i]]
  <2>1. DOMAIN args = 1 .. 3 /\ \A i \in 1 .. 3 : Legible[args[i]]
    BY <1>1, LegibleForms
  <2>2. \A i \in DOMAIN args : args[i] \in Trees
    BY <1>1, CallArguments
  <2> HIDE DEF args
  <2>3. QED
    BY <2>1, <2>2
<1>3. value[ast] = EvaluateCall(value, "IF", args)
  <2>1. value[ast] = ValueBy(value, ast, env)
    BY <1>1, ValueUnfolds
  <2> HIDE DEF value
  <2>2. QED
    BY <1>1, <2>1 DEF ValueBy
<1>4. value[ast] = IF IsError(condition) THEN condition ELSE value[taken]
  <2> DEFINE xs == [i \in DOMAIN args |-> value[args[i]]]
  <2>1. xs[1] = condition /\ xs[2] = value[args[2]] /\ xs[3] = value[args[3]]
    BY <1>2
  <2>2. value[ast] = IF IsError(xs[1]) THEN xs[1] ELSE xs[IF Truthy(xs[1]) THEN 2 ELSE 3]
    <3> HIDE DEF value
    <3>1. QED
      BY <1>1, <1>3 DEF EvaluateCall
  <2> HIDE DEF xs, value
  <2>3. QED
    BY <2>1, <2>2
<1>5. Evaluate(ast, env) = value[ast] /\ Evaluate(args[1], env) = condition
  BY DEF Evaluate
<1>6. value[ast] = value[taken]
  BY <1>4, <1>5
<1>7. taken \in Trees /\ Legible[taken]
  BY <1>2
<1>8. Parse(Render[taken]) = taken
  BY <1>7, ParseOfRender
<1>9. Unwrap(formula, Truthy(condition)) = Render[taken]
  BY DEF Unwrap, Branch
<1>10. Evaluate(taken, env) = value[taken]
  BY DEF Evaluate
<1> HIDE DEF value
<1>11. QED
  BY <1>5, <1>6, <1>8, <1>9, <1>10

\* The formulas of an acceptable graph can be read.
LEMMA FormulasLegible ==
    ASSUME Asked, Taken, FormulasMeant, Acceptable, NEW key \in Keys
    PROVE  formulas[key].ast \in Trees /\ Legible[formulas[key].ast]
<1>1. Whole(key) \in DOMAIN Candidate /\ Candidate[Whole(key)] = formulas[key]
  BY KeyWhole, CandidateMeant
<1>2. Legible[Candidate[Whole(key)].ast]
  BY <1>1 DEF Acceptable, Drawable
<1>3. QED
  BY <1>1, <1>2 DEF Taken

\* The text an edit writes means what the tree it was made from means, for every workbook
\* and request: what is rendered reads as it was, and the structural edit of an outer IF
\* keeps the value when the condition takes the branch that is kept.
THEOREM EditsKeepMeaning == Spec => []EditKeepsMeaning
<1>1. Init => Grounded
  <2>1. DOMAIN <<>> = {}
    OBVIOUS
  <2>2. QED
    BY <2>1 DEF Init, Grounded
<1>2. IInv /\ Grounded => EditKeepsMeaning
  <2>1. SUFFICES ASSUME IInv, Grounded
                 PROVE  EditKeepsMeaning
    OBVIOUS
  <2>2. ASSUME phase = "evaluate", NEW key \in DOMAIN formulas
        PROVE  Parse(Render[formulas[key].ast]) = formulas[key].ast
    <3>1. Asked /\ Taken /\ FormulasMeant /\ Acceptable
      BY <2>1, <2>2 DEF IInv, FormulasOK, WalkOK, Accepted
    <3>2. key \in Keys
      BY <2>2, <3>1 DEF Taken
    <3>3. formulas[key].ast \in Trees /\ Legible[formulas[key].ast]
      BY <3>1, <3>2, FormulasLegible
    <3>4. QED
      BY <3>3, ParseOfRender
  <2>3. ASSUME NEW key \in DOMAIN memo, OuterIf(formulas[key].ast)
        PROVE  LET ast == formulas[key].ast
                   env == [ref \in Names |-> Resolve(KeyOf(ref, key))]
               IN  memo[key] =
                     Evaluate(Parse(Unwrap(formulas[key], Truthy(Evaluate(ast.args[1], env)))), env)
    <3> DEFINE env == [ref \in Names |-> Resolve(KeyOf(ref, key))]
    <3>1. Asked /\ MemoMeans /\ Taken /\ FormulasMeant /\ Acceptable /\ WalkNeeds[key] \subseteq DOMAIN memo
      BY <2>1, <2>3 DEF IInv, AnswerOK, Grounded
    <3>2. key \in Keys /\ memo[key] = Meaning[Whole(key)] /\ ~IsError(memo[key])
      BY <2>3, <3>1 DEF MemoMeans, Taken
    <3>3. Value(key) = Meaning[Whole(key)]
      BY <3>1, <3>2, ValueMeans
    <3>4. Value(key) = Evaluate(formulas[key].ast, env)
      BY DEF Value
    <3>5. formulas[key].ast \in Trees /\ Legible[formulas[key].ast]
      BY <3>1, <3>2, FormulasLegible
    <3> HIDE DEF env
    <3>6. Evaluate(formulas[key].ast, env) =
            Evaluate(Parse(Unwrap(formulas[key], Truthy(Evaluate(formulas[key].ast.args[1], env)))), env)
      BY <2>3, <3>2, <3>3, <3>4, <3>5, UnwrapKeepsValue
    <3>7. QED
      BY <3>2, <3>3, <3>4, <3>6 DEF env
  <2>4. QED
    BY <2>2, <2>3 DEF EditKeepsMeaning
<1>3. QED
  BY <1>1, <1>2, GroundedKeeps, WorkerInvariant, PTL DEF Spec
=============================================================================
