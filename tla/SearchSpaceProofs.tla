-------------------------- MODULE SearchSpaceProofs --------------------------
(***************************************************************************)
(* Facts about the costs in SearchSpace that the proofs about the searches *)
(* share: CostToGo satisfies the equations it is defined by, and there is  *)
(* a path to a goal along which it decreases by the costs of the edges.    *)
(*                                                                         *)
(* Induction is by a least counterexample: the naturals are well founded,  *)
(* so a set of counterexamples that is not empty has a least member.       *)
(***************************************************************************)
EXTENDS SearchSpace, FiniteSetTheorems, WellFoundedInduction, TLAPS

\* The well-ordering principle.
LEMMA LeastNatural ==
  ASSUME NEW T \in SUBSET Nat, T # {}
  PROVE  \E m \in T : \A k \in T : m <= k
<1> DEFINE R == {p \in Nat \X Nat : p[1] < p[2]}
<1>1. R = OpToRel(<, Nat)
  BY Zenon DEF OpToRel
<1>2. IsWellFoundedOn(R, Nat)
  BY <1>1, NatLessThanWellFounded
<1>3. PICK m \in T : \A y \in T : ~(<<y, m>> \in R)
  <2> HIDE DEF R
  <2>1. QED
    BY <1>2, WFMin
<1>4. ASSUME NEW k \in T PROVE m <= k
  <2>1. k \in Nat /\ m \in Nat /\ <<k, m>> \notin R
    BY <1>3
  <2>2. <<k, m>> \in Nat \X Nat /\ <<k, m>>[1] = k /\ <<k, m>>[2] = m
    BY <2>1
  <2>3. QED
    BY <2>1, <2>2
<1>5. QED
  BY <1>4

\* The operator Min of the community modules is the least of some numbers.
LEMMA MinIsLeast ==
  ASSUME NEW S \in SUBSET Nat, S # {}
  PROVE  Min(S) \in S /\ \A x \in S : Min(S) <= x
<1>1. PICK m \in S : \A x \in S : m <= x
  BY LeastNatural
<1>2. QED
  BY <1>1 DEF Min

-----------------------------------------------------------------------------
(***************************************************************************)
(* The recursive function ToGoal                                            *)
(***************************************************************************)

\* The costs of paths of at most k edges, from those of one edge less.
Longer(f, k) ==
  [s \in States |->
     IF s \in Goals THEN 0
     ELSE IF k = 0 THEN Infinity
     ELSE Min({Infinity} \cup {e.cost + f[k - 1][e.to] : e \in Edges[s]})]

LEMMA LongerType ==
  ASSUME NEW k \in Nat, NEW f, k # 0 => f[k - 1] \in [States -> Nat]
  PROVE  Longer(f, k) \in [States -> Nat]
<1> SUFFICES ASSUME NEW s \in States, s \notin Goals, k # 0
             PROVE  Min({Infinity} \cup {e.cost + f[k - 1][e.to] : e \in Edges[s]})
                      \in Nat
  BY SpaceAssumption DEF Longer
<1>1. {Infinity} \cup {e.cost + f[k - 1][e.to] : e \in Edges[s]} \in SUBSET Nat
  BY SpaceAssumption
<1>2. QED
  BY <1>1, MinIsLeast

HasTable(n) ==
  \E f \in [0..n -> [States -> Nat]] : \A k \in 0..n : f[k] = Longer(f, k)

\* For every n there is a table of such costs.
LEMMA TableExists == \A n \in Nat : HasTable(n)
<1> DEFINE T == {n \in Nat : ~HasTable(n)}
<1> SUFFICES ASSUME T # {} PROVE FALSE
  OBVIOUS
<1>1. PICK m \in T : \A i \in T : m <= i
  BY LeastNatural
<1>2. m \in Nat /\ ~HasTable(m) /\ \A i \in Nat : ~HasTable(i) => m <= i
  BY <1>1
<1> HIDE DEF T
<1>3. CASE m = 0
  <2> DEFINE h == [k \in 0..0 |-> Longer(<<>>, 0)]
  <2>1. h \in [0..0 -> [States -> Nat]]
    BY LongerType
  <2>2. \A k \in 0..0 : h[k] = Longer(h, k)
    BY DEF Longer
  <2>3. QED
    BY <1>2, <1>3, <2>1, <2>2 DEF HasTable
<1>4. CASE m # 0
  <2>1. m - 1 \in Nat /\ ~(m <= m - 1)
    BY <1>2, <1>4
  <2>2. HasTable(m - 1)
    BY <1>2, <2>1
  <2>3. PICK f \in [0..(m - 1) -> [States -> Nat]] :
          \A k \in 0..(m - 1) : f[k] = Longer(f, k)
    BY <2>2 DEF HasTable
  <2> DEFINE h == [k \in 0..m |-> IF k < m THEN f[k] ELSE Longer(f, m)]
  <2>4. Longer(f, m) \in [States -> Nat]
    <3>1. f[m - 1] \in [States -> Nat]
      BY <2>1
    <3>2. QED
      BY <1>2, <3>1, LongerType
  <2>5. \A k \in 0..m : k < m => k \in 0..(m - 1)
    BY <1>2
  <2>6. h \in [0..m -> [States -> Nat]]
    BY <2>4, <2>5
  <2>7. ASSUME NEW k \in 0..m PROVE h[k] = Longer(h, k)
    <3>1. k # 0 => h[k - 1] = f[k - 1]
      BY <1>2
    <3>2. Longer(h, k) = Longer(f, k)
      <4> HIDE DEF h
      <4>1. QED
        BY <3>1 DEF Longer
    <3>3. CASE k < m
      <4>1. k \in 0..(m - 1) /\ h[k] = f[k]
        BY <2>5, <3>3
      <4>2. QED
        BY <2>3, <3>2, <4>1
    <3>4. CASE k = m
      BY <3>2, <3>4
    <3>5. QED
      BY <1>2, <3>3, <3>4
  <2>8. QED
    BY <1>2, <2>6, <2>7 DEF HasTable
<1>5. QED
  BY <1>3, <1>4

\* The number of states.
NStates == Cardinality(States)

\* ToGoal satisfies its definition.
LEMMA ToGoalDef ==
  /\ NStates \in Nat
  /\ ToGoal \in [0..NStates -> [States -> Nat]]
  /\ \A k \in 0..NStates : ToGoal[k] = Longer(ToGoal, k)
<1>1. NStates \in Nat
  BY SpaceAssumption, FS_CardinalityType DEF NStates
<1>2. PICK f \in [0..NStates -> [States -> Nat]] :
        \A k \in 0..NStates : f[k] = Longer(f, k)
  BY <1>1, TableExists DEF HasTable
<1> DEFINE Body(F) == [k \in 0..NStates |-> Longer(F, k)]
<1>3. ToGoal = CHOOSE F : F = Body(F)
  BY DEF ToGoal, Longer, NStates
<1>4. f = Body(f)
  BY <1>2
<1>5. ToGoal = Body(ToGoal)
  BY <1>3, <1>4
<1>6. \A k \in 0..NStates : ToGoal[k] = Longer(ToGoal, k)
  BY <1>5
<1> DEFINE T == {k \in 0..NStates : ToGoal[k] \notin [States -> Nat]}
<1>7. T = {}
  <2> SUFFICES ASSUME T # {} PROVE FALSE
    OBVIOUS
  <2>1. T \in SUBSET Nat
    BY <1>1
  <2>2. PICK m \in T : \A i \in T : m <= i
    BY <2>1, LeastNatural
  <2>3. m \in 0..NStates /\ m \in Nat /\ ToGoal[m] \notin [States -> Nat]
    BY <1>1
  <2> HIDE DEF T
  <2>4. ASSUME m # 0 PROVE ToGoal[m - 1] \in [States -> Nat]
    <3>1. m - 1 \in 0..NStates /\ ~(m <= m - 1)
      BY <1>1, <2>3, <2>4
    <3>2. m - 1 \notin T
      BY <2>2, <3>1
    <3>3. QED
      BY <3>1, <3>2 DEF T
  <2>5. ToGoal[m] = Longer(ToGoal, m)
    BY <1>6, <2>3
  <2>6. QED
    BY <2>3, <2>4, <2>5, LongerType
<1>8. QED
  BY <1>1, <1>5, <1>6, <1>7
-----------------------------------------------------------------------------
(***************************************************************************)
(* Cheapest paths                                                          *)
(***************************************************************************)

\* The costs a path from s of at most k edges is chosen from.
PathCosts(s, k) == {Infinity} \cup {e.cost + ToGoal[k - 1][e.to] : e \in Edges[s]}

LEMMA ToGoalStep ==
  ASSUME NEW k \in 0..NStates, NEW s \in States
  PROVE  /\ ToGoal[k][s] \in Nat
         /\ s \in Goals => ToGoal[k][s] = 0
         /\ s \notin Goals /\ k = 0 => ToGoal[k][s] = Infinity
         /\ s \notin Goals /\ k # 0 =>
              /\ ToGoal[k][s] \in PathCosts(s, k)
              /\ \A c \in PathCosts(s, k) : ToGoal[k][s] <= c
<1>1. /\ ToGoal[k] \in [States -> Nat]
      /\ ToGoal[k] = Longer(ToGoal, k)
  BY ToGoalDef
<1>2. CASE s \notin Goals /\ k # 0
  <2>1. ToGoal[k - 1] \in [States -> Nat]
    BY <1>2, ToGoalDef
  <2>2. PathCosts(s, k) \in SUBSET Nat /\ PathCosts(s, k) # {}
    BY <2>1, SpaceAssumption DEF PathCosts
  <2>3. ToGoal[k][s] = Min(PathCosts(s, k))
    BY <1>1, <1>2 DEF Longer, PathCosts
  <2>4. QED
    BY <1>1, <1>2, <2>2, <2>3, MinIsLeast
<1>3. CASE s \in Goals \/ k = 0
  BY <1>1, <1>3 DEF Longer
<1>4. QED
  BY <1>2, <1>3

\* A cheapest path that is not at a goal yet has a next edge.
LEMMA NextEdge ==
  ASSUME NEW k \in 0..NStates, NEW s \in States, s \notin Goals,
         ToGoal[k][s] < Infinity
  PROVE  /\ k - 1 \in 0..NStates
         /\ \E e \in Edges[s] : ToGoal[k][s] = e.cost + ToGoal[k - 1][e.to]
<1>1. ToGoal[k][s] # Infinity
  BY ToGoalStep, SpaceAssumption
<1>2. k # 0 /\ ToGoal[k][s] \in PathCosts(s, k)
  BY <1>1, ToGoalStep
<1>3. k - 1 \in 0..NStates
  BY <1>2, ToGoalDef
<1>4. QED
  BY <1>1, <1>2, <1>3 DEF PathCosts

\* No path is cheaper than an edge and a path from its end.
LEMMA EdgeBound ==
  ASSUME NEW k \in 0..NStates, k # 0, NEW s \in States, NEW e \in Edges[s]
  PROVE  ToGoal[k][s] <= e.cost + ToGoal[k - 1][e.to]
<1>1. e.to \in States /\ e.cost \in Nat /\ k - 1 \in 0..NStates
  BY SpaceAssumption, ToGoalDef
<1>2. ToGoal[k - 1][e.to] \in Nat
  BY <1>1, ToGoalStep
<1>3. CASE s \in Goals
  BY <1>1, <1>2, <1>3, ToGoalStep
<1>4. CASE s \notin Goals
  BY <1>4, ToGoalStep DEF PathCosts
<1>5. QED
  BY <1>3, <1>4

\* More edges do not make the cheapest path dearer.
LEMMA LongerIsCheaper ==
  \A k \in 0..NStates : k # 0 =>
    \A s \in States : ToGoal[k][s] <= ToGoal[k - 1][s]
<1> DEFINE T == {k \in 0..NStates : k # 0 /\ \E s \in States :
                                      ~(ToGoal[k][s] <= ToGoal[k - 1][s])}
<1> SUFFICES ASSUME T # {} PROVE FALSE
  OBVIOUS
<1>1. T \in SUBSET Nat /\ NStates \in Nat
  BY ToGoalDef
<1>2. PICK k \in T : \A i \in T : k <= i
  BY <1>1, LeastNatural
<1>3. PICK s \in States : ~(ToGoal[k][s] <= ToGoal[k - 1][s])
  OBVIOUS
<1>4. k \in 0..NStates /\ k # 0 /\ k \in Nat
  BY <1>1
<1>5. /\ k - 1 \in 0..NStates
      /\ \A x \in States : ToGoal[k][x] \in Nat /\ ToGoal[k - 1][x] \in Nat
  BY <1>1, <1>4, ToGoalStep
<1>6. s \notin Goals
  BY <1>3, <1>4, <1>5, ToGoalStep
<1>7. ToGoal[k - 1][s] < Infinity
  <2>1. Infinity \in PathCosts(s, k)
    BY DEF PathCosts
  <2>2. ToGoal[k][s] <= Infinity
    BY <1>4, <1>6, <2>1, ToGoalStep
  <2>3. QED
    BY <1>3, <1>5, <2>2, SpaceAssumption
<1>8. PICK e \in Edges[s] : ToGoal[k - 1][s] = e.cost + ToGoal[k - 1 - 1][e.to]
  BY <1>5, <1>6, <1>7, NextEdge
<1>9. k - 1 - 1 \in 0..NStates
  BY <1>5, <1>6, <1>7, NextEdge
<1>10. ToGoal[k][s] <= e.cost + ToGoal[k - 1][e.to]
  BY <1>4, EdgeBound
<1>11. e.to \in States /\ e.cost \in Nat
  BY SpaceAssumption
<1>12. ToGoal[k - 1][e.to] <= ToGoal[k - 1 - 1][e.to]
  <2>1. k - 1 \notin T
    BY <1>2, <1>4
  <2>2. QED
    BY <1>5, <1>9, <1>11, <2>1
<1>13. ToGoal[k - 1 - 1][e.to] \in Nat /\ ToGoal[k - 1][e.to] \in Nat
  BY <1>5, <1>9, <1>11, ToGoalStep
<1>14. QED
  BY <1>3, <1>5, <1>8, <1>10, <1>11, <1>12, <1>13

LEMMA CostToGoType == CostToGo \in [States -> Nat]
BY ToGoalDef DEF CostToGo, NStates

\* CostToGo is the least of all.
LEMMA CostToGoIsLeast ==
  \A k \in 0..NStates : \A s \in States : CostToGo[s] <= ToGoal[k][s]
<1> DEFINE T == {d \in Nat : /\ NStates - d \in 0..NStates
                             /\ \E s \in States :
                                  ~(CostToGo[s] <= ToGoal[NStates - d][s])}
<1>1. T = {}
  <2> SUFFICES ASSUME T # {} PROVE FALSE
    OBVIOUS
  <2>1. PICK d \in T : \A i \in T : d <= i
    BY LeastNatural
  <2>2. d \in Nat /\ NStates - d \in 0..NStates /\ NStates \in Nat
    BY ToGoalDef
  <2>3. PICK s \in States : ~(CostToGo[s] <= ToGoal[NStates - d][s])
    OBVIOUS
  <2>4. /\ NStates \in 0..NStates
        /\ CostToGo[s] = ToGoal[NStates][s] /\ CostToGo[s] \in Nat
    BY <2>2, ToGoalStep DEF CostToGo, NStates
  <2>5. d # 0
    <3>1. d = 0 => NStates - d = NStates
      BY <2>2
    <3>2. QED
      BY <2>3, <2>4, <3>1
  <2>6. d - 1 \in Nat /\ NStates - (d - 1) \in 0..NStates /\ d - 1 \notin T
    BY <2>1, <2>2, <2>5
  <2>7. CostToGo[s] <= ToGoal[NStates - (d - 1)][s]
    BY <2>6
  <2>8. NStates - (d - 1) # 0 /\ NStates - (d - 1) - 1 = NStates - d
    BY <2>2
  <2>9. ToGoal[NStates - (d - 1)][s] <= ToGoal[NStates - d][s]
    BY <2>6, <2>8, LongerIsCheaper
  <2>10. ToGoal[NStates - (d - 1)][s] \in Nat /\ ToGoal[NStates - d][s] \in Nat
    BY <2>2, <2>6, ToGoalStep
  <2>11. QED
    BY <2>3, <2>4, <2>7, <2>9, <2>10
<1>2. ASSUME NEW k \in 0..NStates PROVE \A s \in States : CostToGo[s] <= ToGoal[k][s]
  <2>1. NStates - k \in Nat /\ NStates - (NStates - k) = k
    BY ToGoalDef
  <2>2. NStates - k \notin T
    BY <1>1
  <2>3. QED
    BY <2>1, <2>2
<1>3. QED
  BY <1>2

(***************************************************************************)
(* A cheapest path visits no state twice, so that NStates edges are more   *)
(* than it has.  If the k-th edge helps s, then it helps the next state to *)
(* have one edge less, and so on: k other states are as cheap as s.        *)
(***************************************************************************)
Improves(k, s) == k # 0 => ToGoal[k][s] < ToGoal[k - 1][s]

AsCheap(k, s) == {a \in States : ToGoal[k][a] <= ToGoal[k][s]}

\* The end of the first edge of s improves with one edge less.
LEMMA NextImproves ==
  ASSUME NEW k \in 0..NStates, k # 0, NEW s \in States, Improves(k, s)
  PROVE  \E x \in States : Improves(k - 1, x) /\ ToGoal[k - 1][x] <= ToGoal[k][s]
<1>1. k - 1 \in 0..NStates /\ k \in Nat
  BY ToGoalDef
<1>2. /\ \A x \in States : ToGoal[k][x] \in Nat /\ ToGoal[k - 1][x] \in Nat
      /\ ToGoal[k][s] < ToGoal[k - 1][s]
  BY <1>1, ToGoalStep DEF Improves
<1>3. s \notin Goals
  BY <1>1, <1>2, ToGoalStep
<1>4. ToGoal[k - 1][s] <= Infinity /\ Infinity \in Nat
  BY <1>1, <1>3, ToGoalStep, SpaceAssumption DEF PathCosts
<1>5. ToGoal[k][s] < Infinity
  BY <1>2, <1>4
<1>6. PICK e \in Edges[s] : ToGoal[k][s] = e.cost + ToGoal[k - 1][e.to]
  BY <1>3, <1>5, NextEdge
<1>7. e.to \in States /\ e.cost \in Nat
  BY SpaceAssumption
<1>8. ToGoal[k - 1][e.to] <= ToGoal[k][s]
  BY <1>2, <1>6, <1>7
<1>9. Improves(k - 1, e.to)
  <2> SUFFICES ASSUME k - 1 # 0
               PROVE  ToGoal[k - 1][e.to] < ToGoal[k - 1 - 1][e.to]
    BY DEF Improves
  <2>1. ToGoal[k - 1][s] <= e.cost + ToGoal[k - 1 - 1][e.to]
    BY <1>1, EdgeBound
  <2>2. k - 1 - 1 \in 0..NStates
    BY <1>1, ToGoalDef
  <2>3. ToGoal[k - 1 - 1][e.to] \in Nat
    BY <1>7, <2>2, ToGoalStep
  <2>4. QED
    BY <1>2, <1>6, <1>7, <2>1, <2>3
<1>10. QED
  BY <1>7, <1>8, <1>9

LEMMA ManyAsCheap ==
  \A k \in 0..NStates : \A s \in States :
    Improves(k, s) => k < Cardinality(AsCheap(k, s))
<1> DEFINE T == {k \in 0..NStates : \E s \in States :
                   Improves(k, s) /\ ~(k < Cardinality(AsCheap(k, s)))}
<1> SUFFICES ASSUME T # {} PROVE FALSE
  OBVIOUS
<1>1. T \in SUBSET Nat /\ NStates \in Nat
  BY ToGoalDef
<1>2. PICK k \in T : \A i \in T : k <= i
  BY <1>1, LeastNatural
<1>3. PICK s \in States : Improves(k, s) /\ ~(k < Cardinality(AsCheap(k, s)))
  OBVIOUS
<1>4. k \in 0..NStates /\ k \in Nat
  BY <1>1
<1>5. \A i \in 0..NStates : \A x \in States :
        /\ IsFiniteSet(AsCheap(i, x)) /\ Cardinality(AsCheap(i, x)) \in Nat
        /\ x \in AsCheap(i, x)
  <2> SUFFICES ASSUME NEW i \in 0..NStates, NEW x \in States
               PROVE  /\ IsFiniteSet(AsCheap(i, x))
                      /\ Cardinality(AsCheap(i, x)) \in Nat
                      /\ x \in AsCheap(i, x)
    OBVIOUS
  <2>1. ToGoal[i][x] \in Nat
    BY ToGoalStep
  <2>2. IsFiniteSet(AsCheap(i, x))
    BY FS_Subset, SpaceAssumption DEF AsCheap
  <2>3. QED
    BY <2>1, <2>2, FS_CardinalityType DEF AsCheap
<1> HIDE DEF T
<1>6. CASE k = 0
  <2>1. AsCheap(k, s) # {}
    BY <1>4, <1>5
  <2>2. Cardinality(AsCheap(k, s)) # 0
    BY <1>4, <1>5, <2>1, FS_EmptySet
  <2>3. QED
    BY <1>3, <1>4, <1>5, <1>6, <2>2
<1>7. CASE k # 0
  <2>1. PICK x \in States : Improves(k - 1, x) /\ ToGoal[k - 1][x] <= ToGoal[k][s]
    BY <1>3, <1>4, <1>7, NextImproves
  <2>2. k - 1 \in 0..NStates /\ ~(k <= k - 1)
    BY <1>1, <1>4, <1>7
  <2>3. k - 1 < Cardinality(AsCheap(k - 1, x))
    BY <1>2, <2>1, <2>2 DEF T
  <2>4. \A a \in States : ToGoal[k][a] \in Nat /\ ToGoal[k - 1][a] \in Nat
    BY <1>4, <2>2, ToGoalStep
  <2>5. ToGoal[k][s] < ToGoal[k - 1][s]
    BY <1>3, <1>7 DEF Improves
  <2>6. s \notin AsCheap(k - 1, x)
    BY <2>1, <2>4, <2>5 DEF AsCheap
  <2>7. AsCheap(k - 1, x) \cup {s} \subseteq AsCheap(k, s)
    <3> SUFFICES ASSUME NEW a \in States, ToGoal[k - 1][a] <= ToGoal[k - 1][x]
                 PROVE  ToGoal[k][a] <= ToGoal[k][s]
      BY <1>4, <1>5 DEF AsCheap
    <3>1. ToGoal[k][a] <= ToGoal[k - 1][a]
      BY <1>4, <1>7, LongerIsCheaper
    <3>2. QED
      BY <2>1, <2>4, <3>1
  <2>8. Cardinality(AsCheap(k - 1, x) \cup {s}) = Cardinality(AsCheap(k - 1, x)) + 1
    BY <1>5, <2>2, <2>6, FS_AddElement
  <2>9. Cardinality(AsCheap(k - 1, x) \cup {s}) <= Cardinality(AsCheap(k, s))
    BY <1>4, <1>5, <2>7, FS_Subset
  <2>10. Cardinality(AsCheap(k - 1, x)) \in Nat /\ Cardinality(AsCheap(k, s)) \in Nat
    BY <1>4, <1>5, <2>2
  <2>11. QED
    BY <1>3, <1>4, <2>3, <2>8, <2>9, <2>10
<1>8. QED
  BY <1>6, <1>7

\* No path is cheaper than an edge and a path from its end.
LEMMA CostToGoEdge ==
  ASSUME NEW s \in States, NEW e \in Edges[s]
  PROVE  CostToGo[s] <= e.cost + CostToGo[e.to]
<1>1. e.to \in States /\ e.cost \in Nat /\ NStates \in Nat
  BY SpaceAssumption, ToGoalDef
<1>2. NStates # 0
  BY SpaceAssumption, FS_EmptySet DEF NStates
<1>3. NStates \in 0..NStates /\ NStates - 1 \in 0..NStates
  BY <1>1, <1>2
<1>4. CostToGo[s] <= e.cost + ToGoal[NStates - 1][e.to]
  BY <1>2, <1>3, EdgeBound DEF CostToGo, NStates
<1>5. ~Improves(NStates, e.to)
  <2>1. AsCheap(NStates, e.to) \subseteq States
    BY DEF AsCheap
  <2>2. /\ Cardinality(AsCheap(NStates, e.to)) <= NStates
        /\ Cardinality(AsCheap(NStates, e.to)) \in Nat
    BY <2>1, FS_Subset, FS_CardinalityType, SpaceAssumption DEF NStates
  <2>3. QED
    BY <1>1, <1>3, <2>2, ManyAsCheap
<1>6. ~(ToGoal[NStates][e.to] < ToGoal[NStates - 1][e.to])
  BY <1>2, <1>5 DEF Improves
<1>7. /\ ToGoal[NStates][e.to] = CostToGo[e.to]
      /\ CostToGo[e.to] \in Nat /\ CostToGo[s] \in Nat
      /\ ToGoal[NStates - 1][e.to] \in Nat
  BY <1>1, <1>3, ToGoalStep, CostToGoType DEF CostToGo, NStates
<1>8. QED
  BY <1>1, <1>4, <1>6, <1>7

\* No path costs more than Infinity, and a goal nothing.
LEMMA CostToGoBound ==
  /\ \A s \in States : CostToGo[s] <= Infinity
  /\ \A s \in Goals : CostToGo[s] = 0
<1>1. NStates \in 0..NStates /\ CostToGo = ToGoal[NStates]
  BY ToGoalDef DEF CostToGo, NStates
<1>2. ASSUME NEW s \in States PROVE CostToGo[s] <= Infinity
  BY <1>1, ToGoalStep, SpaceAssumption DEF PathCosts
<1>3. QED
  BY <1>1, <1>2, ToGoalStep, SpaceAssumption

-----------------------------------------------------------------------------
(***************************************************************************)
(* Nodes worth having                                                      *)
(***************************************************************************)

\* A path to s that costs v can be continued to one as cheap as any.
Promises(s, v) == \E k \in 0..NStates : v + ToGoal[k][s] <= CostToGo[Start]

\* A cheaper node promises no less.
LEMMA PromisesMore ==
  ASSUME NEW s \in States, NEW v \in Nat, NEW w \in Nat, w <= v, Promises(s, v)
  PROVE  Promises(s, w)
<1>1. PICK k \in 0..NStates : v + ToGoal[k][s] <= CostToGo[Start]
  BY DEF Promises
<1>2. ToGoal[k][s] \in Nat /\ CostToGo[Start] \in Nat
  BY ToGoalStep, CostToGoType, SpaceAssumption
<1>3. w + ToGoal[k][s] <= CostToGo[Start]
  BY <1>1, <1>2
<1>4. QED
  BY <1>3 DEF Promises

\* A path to s that costs v is not cheaper than one to the goals can be.
LEMMA PromisesCost ==
  ASSUME NEW s \in States, NEW v \in Nat, Promises(s, v)
  PROVE  v + CostToGo[s] <= CostToGo[Start]
<1>1. PICK k \in 0..NStates : v + ToGoal[k][s] <= CostToGo[Start]
  BY DEF Promises
<1>2. /\ CostToGo[s] <= ToGoal[k][s] /\ CostToGo[s] \in Nat
      /\ ToGoal[k][s] \in Nat /\ CostToGo[Start] \in Nat
  BY CostToGoIsLeast, CostToGoType, ToGoalStep, SpaceAssumption
<1>3. QED
  BY <1>1, <1>2

\* A path to s that costs v promises a solution if no cheaper one is known.
LEMMA CostPromises ==
  ASSUME NEW s \in States, NEW v \in Nat, v + CostToGo[s] <= CostToGo[Start]
  PROVE  Promises(s, v)
<1>1. NStates \in 0..NStates /\ CostToGo[s] = ToGoal[NStates][s]
  BY ToGoalDef DEF CostToGo, NStates
<1>2. QED
  BY <1>1 DEF Promises

\* The initial node promises a solution.
LEMMA StartPromises == Promises(Start, 0)
<1>1. NStates \in 0..NStates /\ CostToGo[Start] \in Nat
  BY ToGoalDef, CostToGoType, SpaceAssumption
<1>2. 0 + ToGoal[NStates][Start] <= CostToGo[Start]
  BY <1>1 DEF CostToGo, NStates
<1>3. QED
  BY <1>1, <1>2 DEF Promises

\* The f of a node that promises a solution is at most the solution's cost.
LEMMA PromisesBound ==
  ASSUME Admissible, NEW s \in States, NEW v \in Nat, Promises(s, v)
  PROVE  v + H[s] <= CostToGo[Start]
<1>1. PICK k \in 0..NStates : v + ToGoal[k][s] <= CostToGo[Start]
  BY DEF Promises
<1>2. H[s] <= CostToGo[s] /\ CostToGo[s] <= ToGoal[k][s]
  BY CostToGoIsLeast DEF Admissible
<1>3. /\ {H[s], CostToGo[s], ToGoal[k][s], CostToGo[Start]} \subseteq Nat
  BY ToGoalStep, CostToGoType, SpaceAssumption
<1>4. QED
  BY <1>1, <1>2, <1>3

(***************************************************************************)
(* Where there is a solution, and every node that promises one has its     *)
(* children in the table G with their costs from there, the table has a    *)
(* goal that promises, and is, a cheapest solution.                        *)
(***************************************************************************)
LEMMA PromiseKept ==
  ASSUME NEW G \in [States -> Nat], CostToGo[Start] < Infinity, G[Start] = 0,
         \A s \in States : Promises(s, G[s]) /\ s \notin Goals =>
           \A e \in Edges[s] :
             Promises(e.to, G[s] + e.cost) => G[e.to] <= G[s] + e.cost
  PROVE  \E s \in Goals : Promises(s, G[s])
<1> DEFINE T == {k \in 0..NStates :
                   \E s \in States : G[s] + ToGoal[k][s] <= CostToGo[Start]}
<1>1. T \in SUBSET Nat
  BY ToGoalDef
<1>2. T # {}
  BY StartPromises, SpaceAssumption DEF Promises
<1>3. PICK k \in T : \A i \in T : k <= i
  BY <1>1, <1>2, LeastNatural
<1>4. k \in 0..NStates /\ k \in Nat
  BY <1>1
<1>5. PICK s \in States : G[s] + ToGoal[k][s] <= CostToGo[Start]
  OBVIOUS
<1>6. Promises(s, G[s])
  BY <1>4, <1>5 DEF Promises
<1>7. s \in Goals
  <2> SUFFICES ASSUME s \notin Goals PROVE FALSE
    OBVIOUS
  <2>1. /\ G[s] \in Nat /\ ToGoal[k][s] \in Nat
        /\ CostToGo[Start] \in Nat /\ Infinity \in Nat
    BY <1>4, ToGoalStep, CostToGoType, SpaceAssumption
  <2>2. ToGoal[k][s] < Infinity
    BY <1>5, <2>1
  <2>3. k - 1 \in 0..NStates
    BY <1>4, <2>2, NextEdge
  <2>4. PICK e \in Edges[s] : ToGoal[k][s] = e.cost + ToGoal[k - 1][e.to]
    BY <1>4, <2>2, NextEdge
  <2>5. e.to \in States /\ e.cost \in Nat /\ G[e.to] \in Nat
    BY SpaceAssumption
  <2>6. ToGoal[k - 1][e.to] \in Nat
    BY <2>3, <2>5, ToGoalStep
  <2>7. (G[s] + e.cost) + ToGoal[k - 1][e.to] <= CostToGo[Start]
    BY <1>5, <2>1, <2>4, <2>5, <2>6
  <2>8. Promises(e.to, G[s] + e.cost)
    BY <2>3, <2>7 DEF Promises
  <2>9. G[e.to] <= G[s] + e.cost
    BY <1>6, <2>8
  <2>10. G[e.to] + ToGoal[k - 1][e.to] <= CostToGo[Start]
    BY <2>1, <2>5, <2>6, <2>7, <2>9
  <2>11. k - 1 \in T
    BY <2>3, <2>5, <2>10
  <2>12. k <= k - 1
    BY <1>3, <2>11
  <2>13. QED
    BY <1>4, <2>12
<1>8. QED
  BY <1>6, <1>7
=============================================================================
