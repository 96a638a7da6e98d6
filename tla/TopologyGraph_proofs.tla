------------------------ MODULE TopologyGraph_proofs ------------------------
(***************************************************************************)
(* What holds of the topology page for every infrastructure, every order   *)
(* of the keys of an answer and every bound.  updateGraph is a loop, so    *)
(* the proofs need induction: it is derived below from the fact that every *)
(* non-empty set of natural numbers has a least element.                   *)
(***************************************************************************)
EXTENDS TopologyGraph, TLAPS, WellFoundedInduction

-----------------------------------------------------------------------------
(* Induction over the steps of a loop *)

\* A non-empty set of natural numbers has a least element.
LEMMA LeastElement ==
    ASSUME NEW T, T \subseteq Nat, T # {}
    PROVE  \E x \in T : \A y \in T : x <= y
<1>1. PICK x \in T : \A y \in T : <<y, x>> \notin OpToRel(<, Nat)
  BY NatLessThanWellFounded, WFMin
<1>2. \A y \in T : ~(y < x)
  BY <1>1 DEF OpToRel
<1> QED
  BY <1>2

\* What holds before the first step and is kept by each of n steps holds
\* after each of them.
LEMMA StepInduction ==
    ASSUME NEW n \in Nat, NEW A,
           0 \in A,
           \A i \in 1..n : i - 1 \in A => i \in A
    PROVE  \A i \in 0..n : i \in A
<1> DEFINE Bad == {i \in 0..n : i \notin A}
<1> SUFFICES ASSUME Bad # {} PROVE FALSE
  OBVIOUS
<1>1. PICK k \in Bad : \A y \in Bad : k <= y
  <2>1. Bad \subseteq Nat
    OBVIOUS
  <2> HIDE DEF Bad
  <2> QED
    BY <2>1, LeastElement
<1>2. k \in 1..n /\ k - 1 \in 0..n /\ k - 1 \notin Bad
  BY <1>1
<1> QED
  BY <1>2

\* g records the n steps of a loop that starts with base.
IsTrace(g, n, S, base, step) ==
    /\ g \in [0..n -> S]
    /\ g[0] = base
    /\ \A i \in 1..n : g[i] = step[<<g[i - 1], i>>]

\* A loop of n steps that each turn an element of S into another has a trace.
LEMMA LoopTrace ==
    ASSUME NEW n \in Nat, NEW S, NEW base \in S, NEW step \in [S \X (1..n) -> S]
    PROVE  \E g : IsTrace(g, n, S, base, step)
<1> DEFINE Trace(g, k) == g[0] = base /\ \A i \in 1..k : g[i] = step[<<g[i - 1], i>>]
           Good == {k \in 0..n : \E g \in [0..k -> S] : Trace(g, k)}
<1>1. 0 \in Good
  <2> DEFINE g == [i \in 0..0 |-> base]
  <2>1. g \in [0..0 -> S] /\ g[0] = base
    OBVIOUS
  <2>2. Trace(g, 0)
    BY <2>1
  <2> HIDE DEF g, Trace
  <2> QED
    BY <2>1, <2>2
<1>2. ASSUME NEW k \in 1..n, k - 1 \in Good
      PROVE  k \in Good
  <2>1. PICK g \in [0..(k - 1) -> S] : Trace(g, k - 1)
    BY <1>2
  <2>2. g[k - 1] \in S
    OBVIOUS
  <2> DEFINE last == step[<<g[k - 1], k>>]
             h == [i \in 0..k |-> IF i = k THEN last ELSE g[i]]
  <2>3. last \in S
    BY <2>2
  <2>4. \A i \in 0..(k - 1) : h[i] = g[i]
    OBVIOUS
  <2>5. h[k] = last
    OBVIOUS
  <2>6. h \in [0..k -> S]
    <3>1. \A i \in 0..k : i # k => g[i] \in S
      OBVIOUS
    <3> QED
      BY <2>3, <3>1
  <2>7. ASSUME NEW i \in 1..k
        PROVE  h[i] = step[<<h[i - 1], i>>]
    <3> HIDE DEF h
    <3>1. CASE i = k
      BY <2>4, <2>5, <3>1
    <3>2. CASE i # k
      <4>1. i \in 1..(k - 1) /\ i - 1 \in 0..(k - 1) /\ i \in 0..(k - 1)
        BY <3>2
      <4>2. g[i] = step[<<g[i - 1], i>>]
        BY <4>1, <2>1
      <4> QED
        BY <4>1, <4>2, <2>4
    <3> QED
      BY <3>1, <3>2
  <2>8. Trace(h, k)
    <3>1. h[0] = base
      BY <2>1, <2>4
    <3> HIDE DEF h
    <3> QED
      BY <3>1, <2>7
  <2> HIDE DEF h, Trace
  <2> QED
    BY <2>6, <2>8
<1> HIDE DEF Good
<1>3. n \in Good
  BY <1>1, <1>2, StepInduction
<1> QED
  BY <1>3 DEF Good, IsTrace

-----------------------------------------------------------------------------
(* The loop of updateGraph *)

Picture == [drawn : SUBSET Node, combos : SUBSET Node]

\* One step of the loop, as a function of the picture before it.
StepOf(g, i, add, remove, expanded) ==
    IF Meets(i, add, remove)
    THEN ProcessUpdate(g, Parent[NodeAt(i)], add, remove, expanded)
    ELSE g

\* The loop has a step for each key of either answer.
LEMMA StepsType ==
    /\ Len(Keys) \in Nat /\ DOMAIN Keys = 1..Len(Keys)
    /\ Steps \in Nat
    /\ \A i \in 1..Steps : NodeAt(i) \in Node /\ Parent[NodeAt(i)] \in Node \cup {Root}
<1>1. Len(Keys) \in Nat /\ DOMAIN Keys = 1..Len(Keys) /\ \A i \in 1..Len(Keys) : Keys[i] \in Node
  BY TopologyAssumption
<1>2. Steps \in Nat
  BY <1>1 DEF Steps
<1>3. ASSUME NEW i \in 1..Steps PROVE NodeAt(i) \in Node
  BY <1>1 DEF Steps, NodeAt
<1> QED
  BY <1>1, <1>2, <1>3, TopologyAssumption

\* processNodeUpdate turns a picture into a picture.
LEMMA ProcessUpdateType ==
    ASSUME NEW g \in Picture, NEW p \in Node \cup {Root}, NEW expanded,
           NEW add \in SUBSET Node, NEW remove \in SUBSET Node
    PROVE  ProcessUpdate(g, p, add, remove, expanded) \in Picture
<1>1. RemainingCombos(p, g, g.drawn \ ChildrenIn(p, remove)) \in SUBSET Node
  BY DEF RemainingCombos, Picture
<1>2. ChildrenIn(p, add) \in SUBSET Node
  BY DEF ChildrenIn
<1> HIDE DEF ChildrenIn
<1> QED
  BY <1>1, <1>2, TopologyAssumption DEF ProcessUpdate, Picture

\* P records the picture before the loop and after each of its steps.
Records(P, add, remove, expanded) ==
    /\ P \in [0..Steps -> Picture]
    /\ P[0] = [drawn |-> drawn, combos |-> combos]
    /\ \A i \in 1..Steps : P[i] = StepOf(P[i - 1], i, add, remove, expanded)

\* The recursive definition of Pictures has the solution it is meant to have.
LEMMA PicturesTrace ==
    ASSUME NEW add \in SUBSET Node, NEW remove \in SUBSET Node, NEW expanded,
           drawn \in SUBSET Node, combos \in SUBSET Node
    PROVE  Records(Pictures(add, remove, expanded), add, remove, expanded)
<1> DEFINE base == [drawn |-> drawn, combos |-> combos]
           after(g, i) == StepOf(g, i, add, remove, expanded)
           step == [x \in Picture \X (1..Steps) |-> after(x[1], x[2])]
           Rec(g) == g = [i \in 0..Steps |-> IF i = 0 THEN base ELSE after(g[i - 1], i)]
           P == Pictures(add, remove, expanded)
<1>1. base \in Picture
  BY DEF Picture
<1>2. ASSUME NEW g \in Picture, NEW i \in 1..Steps PROVE after(g, i) \in Picture
  <2>1. Parent[NodeAt(i)] \in Node \cup {Root}
    BY StepsType
  <2>2. ProcessUpdate(g, Parent[NodeAt(i)], add, remove, expanded) \in Picture
    BY <2>1, ProcessUpdateType
  <2> QED
    BY <2>2 DEF StepOf
<1>3. \E g : Rec(g)
  <2> HIDE DEF base, after
  <2>1. step \in [Picture \X (1..Steps) -> Picture]
    BY <1>2
  <2>2. \A g \in Picture, i \in 1..Steps : step[<<g, i>>] = after(g, i)
    OBVIOUS
  <2> HIDE DEF step
  <2>3. PICK g : IsTrace(g, Steps, Picture, base, step)
    <3>1. Steps \in Nat
      BY StepsType
    <3> QED
      BY <1>1, <2>1, <3>1, LoopTrace, Zenon
  <2>4. ASSUME NEW i \in 0..Steps
        PROVE  g[i] = IF i = 0 THEN base ELSE after(g[i - 1], i)
    <3>1. CASE i = 0
      BY <2>3, <3>1 DEF IsTrace
    <3>2. CASE i # 0
      <4>1. i \in 1..Steps /\ i - 1 \in 0..Steps
        BY <3>2, StepsType
      <4> QED
        BY <3>2, <4>1, <2>2, <2>3 DEF IsTrace
    <3> QED
      BY <3>1, <3>2
  <2>5. Rec(g)
    BY <2>3, <2>4 DEF IsTrace
  <2> QED
    BY <2>5
<1>4. P = CHOOSE g : Rec(g)
  BY DEF Pictures, StepOf
<1>5. Rec(P)
  <2> HIDE DEF Rec, P
  <2> QED
    BY <1>3, <1>4, Zenon
<1> HIDE DEF P, base
<1>6. P[0] = base
  BY <1>5, StepsType
<1>7. \A i \in 1..Steps : P[i] = after(P[i - 1], i)
  <2> HIDE DEF after
  <2> QED
    BY <1>5, StepsType
<1>8. P \in [0..Steps -> Picture]
  <2> DEFINE A == {i \in 0..Steps : P[i] \in Picture}
  <2> HIDE DEF after
  <2>1. 0 \in A
    BY <1>1, <1>6, StepsType
  <2>2. \A i \in 1..Steps : i - 1 \in A => i \in A
    BY <1>2, <1>7, StepsType
  <2> HIDE DEF A
  <2>3. \A i \in 0..Steps : i \in A
    BY <2>1, <2>2, StepsType, StepInduction
  <2>4. \A i \in 0..Steps : P[i] \in Picture
    BY <2>3 DEF A
  <2>5. P = [i \in 0..Steps |-> P[i]]
    BY <1>5
  <2> QED
    BY <2>4, <2>5
<1> QED
  BY <1>6, <1>7, <1>8 DEF P, base, Records

\* A combo is drawn around something.
CombosFilled(g) == \A n \in g.combos : ChildrenIn(n, g.drawn) # {}

\* What processNodeUpdate may do to picture g: it draws only nodes that were
\* added, takes away only nodes that were removed, and of those all that have
\* parent p; no combo is left empty; only what expands as a combo gets one; and
\* the children of a node that is being expanded are all drawn.
Updates(g, h, p, add, remove, expanded) ==
    /\ h.drawn \subseteq g.drawn \cup add
    /\ g.drawn \ remove \subseteq h.drawn
    /\ \A m \in remove \cap h.drawn : m \in g.drawn /\ Parent[m] # p
    /\ CombosFilled(g) => CombosFilled(h)
    /\ \A n \in h.combos : n \in g.combos \/ (n \in Node /\ ExpandsAsCombo(n))
    /\ p \in g.drawn \ remove /\ p = expanded => ChildrenIn(p, add) \subseteq h.drawn

\* processNodeUpdate does that.
LEMMA ProcessUpdateEffect ==
    ASSUME NEW g \in Picture, NEW p \in Node \cup {Root}, NEW expanded,
           NEW add \in SUBSET Node, NEW remove \in SUBSET Node,
           add \cap remove = {}
    PROVE  Updates(g, ProcessUpdate(g, p, add, remove, expanded), p, add, remove, expanded)
<1> DEFINE h == ProcessUpdate(g, p, add, remove, expanded)
           left  == g.drawn \ ChildrenIn(p, remove)
           some  == ChildrenIn(p, add) # {}
           kept  == RemainingCombos(p, g, left)
           combo == p # Root /\ ExpandsAsCombo(p)
           made  == IF some /\ combo /\ p \in left /\ p = expanded THEN kept \cup {p} ELSE kept
           fits  == p = Root \/ (p \in left /\ (combo => p \in made))
<1>1. /\ h.drawn = IF fits THEN left \cup ChildrenIn(p, add) ELSE left
      /\ h.combos = made
  BY DEF ProcessUpdate
<1> HIDE DEF h
<1>2. g.drawn \in SUBSET Node /\ g.combos \in SUBSET Node
  BY DEF Picture
<1>3. kept \subseteq g.combos
  BY DEF RemainingCombos
<1>4. h.drawn \subseteq g.drawn \cup add /\ g.drawn \ remove \subseteq h.drawn
  <2> HIDE DEF fits
  <2> QED
    BY <1>1 DEF ChildrenIn
<1>5. \A m \in remove \cap h.drawn : m \in g.drawn /\ Parent[m] # p
  <2> HIDE DEF fits
  <2> QED
    BY <1>1 DEF ChildrenIn
<1>6. ASSUME CombosFilled(g), NEW n \in h.combos
      PROVE  ChildrenIn(n, h.drawn) # {}
  <2>1. CASE n # p
    <3>1. n \in g.combos
      BY <2>1, <1>1, <1>3
    <3>2. PICK m \in g.drawn : Parent[m] = n
      BY <3>1, <1>6 DEF CombosFilled, ChildrenIn
    <3>3. m \in left
      BY <3>2, <2>1 DEF ChildrenIn
    <3>4. m \in h.drawn
      <4> HIDE DEF fits
      <4> QED
        BY <3>3, <1>1
    <3> QED
      BY <3>2, <3>4 DEF ChildrenIn
  <2>2. CASE n = p /\ n \in kept
    <3>1. ChildrenIn(p, left) # {}
      <4>1. CASE left = g.drawn
        BY <4>1, <2>2, <1>3, <1>6 DEF CombosFilled
      <4>2. CASE left # g.drawn
        BY <4>2, <2>2 DEF RemainingCombos
      <4> QED
        BY <4>1, <4>2
    <3>2. left \subseteq h.drawn
      <4> HIDE DEF fits, left
      <4> QED
        BY <1>1
    <3> HIDE DEF left
    <3> QED
      BY <3>1, <3>2, <2>2 DEF ChildrenIn
  <2>3. CASE n = p /\ n \notin kept
    <3>1. some /\ combo /\ p \in left /\ p \in made
      <4> HIDE DEF some, combo, left, kept
      <4> QED
        BY <2>3, <1>1
    <3>2. h.drawn = left \cup ChildrenIn(p, add)
      BY <3>1, <1>1
    <3>3. \A m \in ChildrenIn(p, add) : m \in h.drawn /\ Parent[m] = p
      BY <3>2 DEF ChildrenIn
    <3> QED
      BY <3>1, <3>3, <2>3 DEF ChildrenIn
  <2> QED
    BY <2>1, <2>2, <2>3
<1>7. \A n \in h.combos : n \in g.combos \/ (n \in Node /\ ExpandsAsCombo(n))
  <2> HIDE DEF kept, left
  <2> QED
    BY <1>1, <1>3
<1>8. ASSUME p \in g.drawn \ remove, p = expanded
      PROVE  ChildrenIn(p, add) \subseteq h.drawn
  <2>1. CASE ~some
    BY <2>1
  <2>2. CASE some
    <3>1. p \in left
      BY <1>8 DEF ChildrenIn
    <3>2. fits
      <4> HIDE DEF left, kept, some, combo
      <4> QED
        BY <3>1, <2>2, <1>8
    <3> QED
      BY <3>2, <1>1
  <2> QED
    BY <2>1, <2>2
<1> QED
  BY <1>4, <1>5, <1>6, <1>7, <1>8 DEF h, Updates, CombosFilled

\* The parent of every node that is added, or removed from the picture, is met
\* in one of the steps, and processed there.
LEMMA EveryParentMet ==
    ASSUME NEW add \in SUBSET Node, NEW remove \in SUBSET Node,
           NEW m \in add \cup (remove \cap drawn)
    PROVE  \E j \in 1..Steps : Meets(j, add, remove) /\ Parent[NodeAt(j)] = Parent[m]
<1>1. PICK k \in 1..Len(Keys) : Keys[k] = m
  BY StepsType, TopologyAssumption
<1>2. PICK i \in 1..Steps : Noted(i, add, remove) /\ NodeAt(i) = m
  <2>1. CASE m \in add
    <3>1. k \in 1..Steps /\ k <= Len(Keys)
      BY StepsType DEF Steps
    <3> QED
      BY <2>1, <3>1, <1>1 DEF Noted, NodeAt
  <2>2. CASE m \in remove \cap drawn
    <3> DEFINE i == Len(Keys) + k
    <3>1. i \in 1..Steps /\ ~(i <= Len(Keys)) /\ i - Len(Keys) = k
      BY StepsType DEF Steps
    <3> HIDE DEF i
    <3>2. NodeAt(i) = m
      BY <3>1, <1>1 DEF NodeAt
    <3>3. Noted(i, add, remove)
      BY <3>1, <3>2, <2>2 DEF Noted
    <3> QED
      BY <3>1, <3>2, <3>3
  <2> QED
    BY <2>1, <2>2
<1> DEFINE T == {j \in 1..Steps : Noted(j, add, remove) /\ Parent[NodeAt(j)] = Parent[m]}
<1>3. PICK j \in T : \A y \in T : j <= y
  <2>1. T \subseteq Nat /\ T # {}
    BY <1>2, StepsType
  <2> HIDE DEF T
  <2> QED
    BY <2>1, LeastElement
<1>4. ASSUME NEW y \in 1..(j - 1), Noted(y, add, remove)
      PROVE  Parent[NodeAt(y)] # Parent[NodeAt(j)]
  <2>1. y \in 1..Steps /\ ~(j <= y)
    BY StepsType
  <2> QED
    BY <2>1, <1>3, <1>4
<1>5. Meets(j, add, remove)
  BY <1>4 DEF Meets
<1> QED
  BY <1>5

\* The picture g a whole update may end with.
Redraws(g, add, remove, expanded) ==
    /\ g \in Picture
    /\ g.drawn \subseteq (drawn \cup add) \ remove
    /\ CombosFilled([drawn |-> drawn, combos |-> combos]) => CombosFilled(g)
    /\ \A n \in g.combos : n \in combos \/ (n \in Node /\ ExpandsAsCombo(n))
    /\ expanded \in drawn \ remove => ChildrenIn(expanded, add) \subseteq g.drawn

\* updateGraph ends with such a picture, whatever the order of the keys.
LEMMA UpdatedPicture ==
    ASSUME NEW add \in SUBSET Node, NEW remove \in SUBSET Node, NEW expanded,
           add \cap remove = {},
           drawn \in SUBSET Node, combos \in SUBSET Node
    PROVE  Redraws(Pictures(add, remove, expanded)[Steps], add, remove, expanded)
<1> DEFINE g == Pictures(add, remove, expanded)[Steps]
           P == Pictures(add, remove, expanded)
           base == [drawn |-> drawn, combos |-> combos]
           Met(i, p) == \E j \in 1..i : Meets(j, add, remove) /\ Parent[NodeAt(j)] = p
           Sound(i) ==
             /\ P[i].drawn \subseteq drawn \cup add
             /\ drawn \ remove \subseteq P[i].drawn
             /\ \A m \in remove \cap P[i].drawn : ~Met(i, Parent[m])
             /\ CombosFilled(base) => CombosFilled(P[i])
             /\ \A n \in P[i].combos : n \in combos \/ (n \in Node /\ ExpandsAsCombo(n))
             /\ expanded \in drawn \ remove /\ Met(i, expanded)
                  => ChildrenIn(expanded, add) \subseteq P[i].drawn
           A == {i \in 0..Steps : Sound(i)}
<1>1. /\ P \in [0..Steps -> Picture]
      /\ P[0] = base
      /\ \A i \in 1..Steps : P[i] = StepOf(P[i - 1], i, add, remove, expanded)
  <2>1. Records(P, add, remove, expanded)
    BY PicturesTrace
  <2> HIDE DEF P
  <2> QED
    BY <2>1 DEF Records
<1> HIDE DEF P
<1>2. Sound(0)
  <2>1. P[0].drawn = drawn /\ P[0].combos = combos
    BY <1>1
  <2>2. \A p : ~Met(0, p)
    OBVIOUS
  <2> HIDE DEF Met, base
  <2> QED
    BY <1>1, <2>1, <2>2
<1>3. ASSUME NEW i \in 1..Steps, Sound(i - 1)
      PROVE  Sound(i)
  <2> DEFINE f == P[i - 1]
             h == P[i]
             q == Parent[NodeAt(i)]
  <2>1. f \in Picture /\ h = StepOf(f, i, add, remove, expanded)
    <3>1. i - 1 \in 0..Steps
      BY StepsType
    <3>2. h = StepOf(f, i, add, remove, expanded)
      BY <1>1, Zenon
    <3> QED
      BY <1>1, <3>1, <3>2, Zenon
  <2>2. q \in Node \cup {Root}
    BY StepsType
  <2>3. \A p : Met(i, p) <=> Met(i - 1, p) \/ (Meets(i, add, remove) /\ q = p)
    <3>1. \A j : j \in 1..i <=> j \in 1..(i - 1) \/ j = i
      BY StepsType
    <3> HIDE DEF q
    <3> QED
      BY <3>1 DEF q
  <2>4. CASE ~Meets(i, add, remove)
    <3>1. h = f
      BY <2>1, <2>4 DEF StepOf
    <3>2. \A p : Met(i, p) <=> Met(i - 1, p)
      BY <2>3, <2>4
    <3> HIDE DEF Met, base
    <3> QED
      BY <3>1, <3>2, <1>3
  <2>5. CASE Meets(i, add, remove)
    <3>1. h = ProcessUpdate(f, q, add, remove, expanded)
      BY <2>1, <2>5 DEF StepOf
    <3> HIDE DEF f, h, q
    <3>2. Updates(f, h, q, add, remove, expanded)
      BY <2>1, <2>2, <3>1, ProcessUpdateEffect
    <3>3. \A p : Met(i, p) <=> Met(i - 1, p) \/ q = p
      BY <2>3, <2>5
    <3> HIDE DEF Met, base
    <3>4. /\ f.drawn \subseteq drawn \cup add
          /\ drawn \ remove \subseteq f.drawn
          /\ \A m \in remove \cap f.drawn : ~Met(i - 1, Parent[m])
          /\ CombosFilled(base) => CombosFilled(f)
          /\ \A n \in f.combos : n \in combos \/ (n \in Node /\ ExpandsAsCombo(n))
          /\ expanded \in drawn \ remove /\ Met(i - 1, expanded)
               => ChildrenIn(expanded, add) \subseteq f.drawn
      BY <1>3 DEF f
    <3>5. /\ h.drawn \subseteq drawn \cup add
          /\ drawn \ remove \subseteq h.drawn
      BY <3>2, <3>4 DEF Updates
    <3>6. \A m \in remove \cap h.drawn : ~Met(i, Parent[m])
      BY <3>2, <3>3, <3>4 DEF Updates
    <3>7. \A n \in h.combos : n \in combos \/ (n \in Node /\ ExpandsAsCombo(n))
      BY <3>2, <3>4 DEF Updates
    <3>8. ASSUME expanded \in drawn \ remove, Met(i, expanded)
          PROVE  ChildrenIn(expanded, add) \subseteq h.drawn
      <4>1. CASE q = expanded
        BY <4>1, <3>2, <3>4, <3>8 DEF Updates
      <4>2. CASE Met(i - 1, expanded)
        <5>1. ChildrenIn(expanded, add) \subseteq f.drawn \ remove
          BY <4>2, <3>4, <3>8 DEF ChildrenIn
        <5> QED
          BY <5>1, <3>2 DEF Updates
      <4> QED
        BY <4>1, <4>2, <3>3, <3>8
    <3> QED
      BY <3>2, <3>4, <3>5, <3>6, <3>7, <3>8 DEF h, Updates
  <2> QED
    BY <2>4, <2>5
<1>4. Sound(Steps)
  <2>1. 0 \in A /\ \A i \in 1..Steps : i - 1 \in A => i \in A
    <3> HIDE DEF Sound
    <3> QED
      BY <1>2, <1>3, StepsType
  <2> HIDE DEF A
  <2>2. \A i \in 0..Steps : i \in A
    BY <2>1, StepsType, StepInduction
  <2>3. Steps \in A
    BY <2>2, StepsType
  <2> HIDE DEF Sound
  <2> QED
    BY <2>3 DEF A
<1>5. g \in Picture /\ g = P[Steps]
  BY <1>1, StepsType DEF P
<1> HIDE DEF g
<1>6. \A m \in add \cup (remove \cap drawn) : Met(Steps, Parent[m])
  BY EveryParentMet
<1>7. ASSUME NEW m \in remove \cap g.drawn
      PROVE  FALSE
  <2> HIDE DEF Met
  <2> QED
    BY <1>4, <1>5, <1>6, <1>7
<1>8. ASSUME expanded \in drawn \ remove
      PROVE  ChildrenIn(expanded, add) \subseteq g.drawn
  <2>1. CASE ChildrenIn(expanded, add) = {}
    BY <2>1
  <2>2. CASE ChildrenIn(expanded, add) # {}
    <3>1. Met(Steps, expanded)
      <4>1. PICK m \in add : Parent[m] = expanded
        BY <2>2 DEF ChildrenIn
      <4> HIDE DEF Met
      <4> QED
        BY <4>1, <1>6
    <3> HIDE DEF Met
    <3> QED
      BY <3>1, <1>4, <1>5, <1>8
  <2> QED
    BY <2>1, <2>2
<1> HIDE DEF Met
<1>9. Redraws(g, add, remove, expanded)
  BY <1>4, <1>5, <1>7, <1>8 DEF Redraws
<1> QED
  BY <1>9 DEF g

-----------------------------------------------------------------------------
(* The actions *)

\* An answer that is not accepted leaves all but the notice as it was.
Refused == UNCHANGED <<filters, data, drawn, combos, links>>

\* What an accepted answer does to the page.
Accepted ==
    /\ data' \in [nodes : SUBSET Node, edges : SUBSET Edge]
    /\ filters' = FiltersFromApiData(data')
    /\ drawn' \in SUBSET Node
    /\ drawn' \subseteq (drawn \cup (data'.nodes \ data.nodes)) \ (data.nodes \ data'.nodes)
    /\ (\A n \in combos : ChildrenIn(n, drawn) # {})
         => \A n \in combos' : ChildrenIn(n, drawn') # {}
    /\ \A n \in combos' : n \in combos \/ (n \in Node /\ ExpandsAsCombo(n))
    /\ \A e \in links' : e \in data'.edges /\ e[1] \in drawn' /\ e[2] \in drawn'
    /\ \A n \in Node :
          /\ action = [type |-> "expandNode", node |-> n]
          /\ n \in drawn /\ n \in data'.nodes
          => ChildrenIn(n, data'.nodes \ data.nodes) \subseteq drawn'

\* An answer is refused as a whole or has the effect above.
LEMMA AnswerEffect ==
    ASSUME TypeOK, Answer
    PROVE  Refused \/ Accepted
<1> DEFINE new(es) == [nodes |-> AnswerNodes(url.filters), edges |-> es]
<1>1. PICK es \in SUBSET Edge :
         \/ /\ data' = new(es)
            /\ filters' = FiltersFromApiData(new(es))
            /\ UpdateGraph(data, new(es), action)
         \/ Refused
  BY DEF Answer, Refused, picture
<1> SUFFICES ASSUME data' = new(es),
                    filters' = FiltersFromApiData(new(es)),
                    UpdateGraph(data, new(es), action)
             PROVE  Accepted
  BY <1>1
<1>2. data' \in [nodes : SUBSET Node, edges : SUBSET Edge]
  BY DEF TypeOK, AnswerNodes
<1> HIDE DEF new
<1> DEFINE expanded == IF action.type = "expandNode" THEN action.node ELSE Root
           add      == data'.nodes \ data.nodes
           remove   == data.nodes \ data'.nodes
           g        == Pictures(add, remove, expanded)[Steps]
           anchored(es2) == {e \in es2 : e[1] \in g.drawn /\ e[2] \in g.drawn}
<1>3. /\ drawn' = g.drawn
      /\ combos' = g.combos
      /\ links' = anchored(links \cap data'.edges) \cup anchored(data'.edges \ data.edges)
  BY DEF UpdateGraph
<1>4. /\ add \in SUBSET Node /\ remove \in SUBSET Node /\ add \cap remove = {}
      /\ drawn \in SUBSET Node /\ combos \in SUBSET Node
  BY <1>2 DEF TypeOK
<1>5. Redraws(g, add, remove, expanded)
  <2> HIDE DEF add, remove, expanded
  <2> QED
    BY <1>4, UpdatedPicture
<1> HIDE DEF g
<1>6. drawn' \in SUBSET Node
  BY <1>3, <1>5 DEF Redraws, Picture
<1>7. ASSUME \A n \in combos : ChildrenIn(n, drawn) # {}
      PROVE  \A n \in combos' : ChildrenIn(n, drawn') # {}
  BY <1>3, <1>5, <1>7 DEF Redraws, CombosFilled
<1>8. \A e \in links' : e \in data'.edges /\ e[1] \in drawn' /\ e[2] \in drawn'
  BY <1>3
<1>9. ASSUME NEW n \in Node,
             action = [type |-> "expandNode", node |-> n],
             n \in drawn, n \in data'.nodes
      PROVE  ChildrenIn(n, add) \subseteq drawn'
  <2>2. expanded = n
    BY <1>9
  <2> HIDE DEF expanded
  <2> QED
    BY <2>2, <1>3, <1>5, <1>9 DEF Redraws
<1>10. filters' = FiltersFromApiData(data')
  OBVIOUS
<1> QED
  BY <1>2, <1>3, <1>5, <1>6, <1>7, <1>8, <1>9, <1>10 DEF Accepted, Redraws

-----------------------------------------------------------------------------
(* The theorems *)

\* A load has the types of an URL and of two actions.
LEMMA LoadType ==
    ASSUME TypeOK, NEW u \in [type : ActionType, node : Node \cup {Root}, filters : SUBSET Node],
           Load(u)
    PROVE  /\ url' \in [type : ActionType, node : Node \cup {Root}, filters : SUBSET Node]
           /\ loading' \in BOOLEAN
           /\ lastAction' \in [type : ActionType, node : Node \cup {Root}]
           /\ action' \in [type : ActionType, node : Node \cup {Root}]
<1>1. /\ ActionOf(u) \in [type : ActionType, node : Node \cup {Root}]
      /\ Refresh \in [type : ActionType, node : Node \cup {Root}]
  BY DEF ActionOf, Refresh, ActionType
<1>2. QED
  BY <1>1 DEF Load

\* A step of any action keeps the types, the combos of providers and regions
\* included.
LEMMA TypeStep == TypeOK /\ [Next]_vars => TypeOK'
<1> SUFFICES ASSUME TypeOK, [Next]_vars PROVE TypeOK'
  OBVIOUS
<1>1. ASSUME NEW n \in Node, Click(n) PROVE TypeOK'
  <2>1. \A f \in SUBSET Node : [type |-> "expandNode", node |-> n, filters |-> f]
           \in [type : ActionType, node : Node \cup {Root}, filters : SUBSET Node]
    BY DEF ActionType
  <2>2. \A f \in SUBSET Node : [type |-> "collapseNode", node |-> n, filters |-> f]
           \in [type : ActionType, node : Node \cup {Root}, filters : SUBSET Node]
    BY DEF ActionType
  <2>3. filters' \in SUBSET Node
    BY <1>1 DEF Click, TypeOK
  <2>4. PICK u \in [type : ActionType, node : Node \cup {Root}, filters : SUBSET Node] :
          Load(u)
    <3>1. \/ Load([type |-> "expandNode", node |-> n, filters |-> filters'])
          \/ Load([type |-> "collapseNode", node |-> n, filters |-> filters'])
      BY <1>1 DEF Click
    <3> QED
      BY <3>1, <2>1, <2>2, <2>3
  <2>5. awaited' \in Node \cup {Root} /\ UNCHANGED <<alive, data, exceeded, picture, changes>>
    BY <1>1 DEF Click
  <2> QED
    BY <2>3, <2>4, <2>5, LoadType DEF picture, TypeOK
<1>2. ASSUME NEW n \in Node, Change(n) PROVE TypeOK'
  BY <1>2, TopologyAssumption DEF Change, page, picture, TypeOK
<1>3. CASE Revalidate
  <2>1. url \in [type : ActionType, node : Node \cup {Root}, filters : SUBSET Node]
    BY DEF TypeOK
  <2>2. Load(url) /\ awaited' = Root /\ UNCHANGED <<alive, filters, data, exceeded, picture, changes>>
    BY <1>3 DEF Revalidate
  <2> QED
    BY <2>1, <2>2, LoadType DEF picture, TypeOK
<1>4. CASE Answer
  <2>1. /\ alive' \subseteq Node
        /\ url' \in [type : ActionType, node : Node \cup {Root}, filters : SUBSET Node]
        /\ loading' \in BOOLEAN
        /\ changes' \in 0..MaxChanges
        /\ awaited' \in Node \cup {Root}
    BY <1>4 DEF Answer, TypeOK
  <2>2. /\ lastAction' \in [type : ActionType, node : Node \cup {Root}]
        /\ action' \in [type : ActionType, node : Node \cup {Root}]
    BY <1>4 DEF Answer, TypeOK
  <2>3. exceeded' \in BOOLEAN
    BY <1>4 DEF Answer
  <2>4. CASE Refused
    BY <2>1, <2>2, <2>3, <2>4 DEF Refused, TypeOK
  <2>5. CASE Accepted
    <3>1. filters' \subseteq Node
      BY <2>5 DEF Accepted, FiltersFromApiData, TypeOK
    <3>2. links' \subseteq Edge
      BY <2>5 DEF Accepted
    <3>3. combos' \subseteq {n \in Node : Kind[n] \notin {"cloud_provider", "cloud_region"}}
      BY <2>5 DEF Accepted, ExpandsAsCombo, TypeOK
    <3> QED
      BY <2>1, <2>2, <2>3, <2>5, <3>1, <3>2, <3>3 DEF Accepted, TypeOK
  <2> QED
    BY <1>4, <2>4, <2>5, AnswerEffect
<1>5. CASE Remount
  BY <1>5 DEF Remount, TypeOK, FirstLoad, Refresh, NoData, ActionType
<1>6. CASE UNCHANGED vars
  BY <1>6 DEF vars, page, picture, TypeOK
<1> QED
  BY <1>1, <1>2, <1>3, <1>4, <1>5, <1>6 DEF Next

\* Every variable of the page keeps its type, for every infrastructure: in
\* particular only what itemExpandsAsCombo says ever gets a combo.
THEOREM TypeCorrect == Spec => []TypeOK
<1>1. ASSUME Init PROVE TypeOK
  <2>1. url \in [type : ActionType, node : Node \cup {Root}, filters : SUBSET Node]
    BY <1>1 DEF Init, FirstLoad, ActionType
  <2>2. /\ lastAction \in [type : ActionType, node : Node \cup {Root}]
        /\ action \in [type : ActionType, node : Node \cup {Root}]
    BY <1>1 DEF Init, Refresh, ActionType
  <2>3. data \in [nodes : SUBSET Node, edges : SUBSET Edge]
    BY <1>1 DEF Init, NoData
  <2>4. changes \in 0..MaxChanges
    BY <1>1, TopologyAssumption DEF Init
  <2> QED
    BY <1>1, <2>1, <2>2, <2>3, <2>4 DEF Init, TypeOK
<1> QED
  BY <1>1, TypeStep, PTL DEF Spec

\* A step of any action keeps the picture within the last answer.
LEMMA NoGhostsStep == TypeOK /\ NoGhosts /\ [Next]_vars => NoGhosts'
<1> SUFFICES ASSUME TypeOK, NoGhosts, [Next]_vars PROVE NoGhosts'
  OBVIOUS
<1>1. CASE UNCHANGED <<data, drawn, combos, links>>
  BY <1>1 DEF NoGhosts, ChildrenIn
<1>2. CASE Remount
  BY <1>2 DEF Remount, NoGhosts, NoData
<1>3. CASE Answer
  <2>1. CASE Refused
    BY <2>1, <1>1 DEF Refused
  <2>2. CASE Accepted
    <3>1. drawn' \subseteq data'.nodes
      BY <2>2 DEF Accepted, NoGhosts
    <3>2. \A n \in combos' : ChildrenIn(n, drawn') # {}
      BY <2>2 DEF Accepted, NoGhosts
    <3>3. \A e \in links' : e \in data'.edges /\ e[1] \in drawn' /\ e[2] \in drawn'
      BY <2>2 DEF Accepted
    <3> QED
      BY <3>1, <3>2, <3>3 DEF NoGhosts, ChildrenIn
  <2> QED
    BY <1>3, <2>1, <2>2, AnswerEffect
<1> QED
  BY <1>1, <1>2, <1>3 DEF Next, Click, Change, Revalidate, page, picture, vars

\* The picture never shows a node, a connection or a combo that the last answer
\* does not account for, whatever the hierarchy, the order of the keys and the
\* changes of the infrastructure between two answers.
THEOREM NoGhostsHolds == Spec => []NoGhosts
<1>1. Init => NoGhosts
  BY DEF Init, NoGhosts, NoData
<1> QED
  BY <1>1, NoGhostsStep, TypeCorrect, PTL DEF Spec

\* A node that is filtered upon and missing in an answer leaves the filters.
LEMMA MissingCollapse ==
    ASSUME NEW new, NEW n \in filters, n \in data.nodes, n \notin new.nodes
    PROVE  n \notin FiltersFromApiData(new)
<1>1. n \in Collapsed(n, filters, new.nodes)
  BY DEF Collapsed
<1> QED
  BY <1>1 DEF FiltersFromApiData

\* The filters stay within the last answer: what the user can expand is in the
\* picture, hence in the answer, and what leaves the answer leaves the filters.
THEOREM FiltersFollowDataHolds == Spec => []FiltersFollowData
<1>1. Init => FiltersFollowData
  BY DEF Init, FiltersFollowData
<1>2. TypeOK /\ NoGhosts /\ FiltersFollowData /\ [Next]_vars => FiltersFollowData'
  <2> SUFFICES ASSUME TypeOK, NoGhosts, FiltersFollowData, [Next]_vars
               PROVE  FiltersFollowData'
    OBVIOUS
  <2>1. CASE UNCHANGED <<filters, data>>
    BY <2>1 DEF FiltersFollowData
  <2>2. ASSUME NEW n \in Node, Click(n) PROVE FiltersFollowData'
    BY <2>2 DEF Click, NoGhosts, FiltersFollowData
  <2>3. CASE Remount
    BY <2>3 DEF Remount, FiltersFollowData
  <2>4. CASE Answer
    <3>1. CASE Refused
      BY <3>1, <2>1 DEF Refused
    <3>2. CASE Accepted
      <4>1. filters' = FiltersFromApiData(data') /\ filters' \subseteq filters
        BY <3>2 DEF Accepted, FiltersFromApiData
      <4>2. ASSUME NEW n \in filters' PROVE n \in data'.nodes
        BY <4>1, MissingCollapse DEF FiltersFollowData
      <4> QED
        BY <4>2 DEF FiltersFollowData
    <3> QED
      BY <2>4, <3>1, <3>2, AnswerEffect
  <2> QED
    BY <2>1, <2>2, <2>3, <2>4 DEF Next, Change, Revalidate, page, picture, vars
<1> QED
  BY <1>1, <1>2, TypeCorrect, NoGhostsHolds, PTL DEF Spec

\* The load of an expansion that ExpandDraws speaks of carries its action: no
\* load before or after the click makes it a refresh.
AwaitedLoads == awaited # Root => action = [type |-> "expandNode", node |-> awaited]

\* A click gives its load the action, and a revalidation gives up.
LEMMA AwaitedStep == AwaitedLoads /\ [Next]_vars => AwaitedLoads'
<1> SUFFICES ASSUME AwaitedLoads, [Next]_vars PROVE AwaitedLoads'
  OBVIOUS
<1>1. ASSUME NEW n \in Node, Click(n) PROVE AwaitedLoads'
  <2>1. CASE awaited' = Root
    BY <2>1 DEF AwaitedLoads
  <2>2. CASE awaited' # Root
    <3> DEFINE u == [type |-> "expandNode", node |-> n, filters |-> filters']
    <3>1. Load(u) /\ ActionOf(u) # lastAction /\ awaited' = n
      BY <1>1, <2>2 DEF Click
    <3>2. QED
      BY <3>1 DEF Load, Repeated, ActionOf, AwaitedLoads
  <2>3. QED
    BY <2>1, <2>2
<1>2. CASE awaited' = Root
  BY <1>2 DEF AwaitedLoads
<1>3. CASE UNCHANGED <<awaited, action>>
  BY <1>3 DEF AwaitedLoads
<1>4. QED
  BY <1>1, <1>2, <1>3 DEF Next, Revalidate, Answer, Remount, Change, page, vars

\* What ExpandDraws says of one step.
ExpandDrawsStep ==
    \A n \in Node :
       (/\ awaited = n /\ loading /\ ~loading' /\ ~exceeded'
        /\ n \in drawn /\ n \in data'.nodes
        /\ ChildrenIn(n, data.nodes) = {})
       => ChildrenIn(n, data'.nodes) \subseteq drawn'

\* An expansion whose load is not started anew by a revalidation draws the
\* children its answer brings, wherever their keys stand among those of the
\* nodes that change at the same time, and whichever loads came before.
THEOREM ExpandDrawsHolds == Spec => ExpandDraws
<1>1. Init => AwaitedLoads
  BY DEF Init, AwaitedLoads
<1>2. TypeOK /\ AwaitedLoads /\ [Next]_vars => [ExpandDrawsStep]_vars
  <2> SUFFICES ASSUME TypeOK, AwaitedLoads, Next, NEW n \in Node,
                      awaited = n, loading, ~loading', ~exceeded',
                      n \in drawn, n \in data'.nodes,
                      ChildrenIn(n, data.nodes) = {}
               PROVE  ChildrenIn(n, data'.nodes) \subseteq drawn'
    BY DEF ExpandDrawsStep
  <2>1. Answer
    BY DEF Next, Click, Change, Revalidate, Load, Remount, page
  <2>2. action = [type |-> "expandNode", node |-> n]
    BY TopologyAssumption DEF AwaitedLoads
  <2>3. CASE Accepted
    <3>1. ChildrenIn(n, data'.nodes) = ChildrenIn(n, data'.nodes \ data.nodes)
      BY DEF ChildrenIn
    <3> QED
      BY <2>2, <2>3, <3>1 DEF Accepted
  <2>4. CASE Refused
    BY <2>4 DEF Refused, ChildrenIn
  <2> QED
    BY <2>1, <2>3, <2>4, AnswerEffect
<1>3. ExpandDraws <=> [][ExpandDrawsStep]_vars
  BY DEF ExpandDraws, ExpandDrawsStep
<1> QED
  BY <1>1, <1>2, <1>3, AwaitedStep, TypeCorrect, PTL DEF Spec
=============================================================================
