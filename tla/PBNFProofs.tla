------------------------------ MODULE PBNFProofs ------------------------------
(***************************************************************************)
(* Proofs about PBNF and WPBNF for any number of threads, any finite       *)
(* domain and any projection of it: the threads share the open and closed  *)
(* lists without a lock and without a conflict, and what they end with is  *)
(* an optimal solution, or one within the weight.                          *)
(*                                                                         *)
(* The graph's invariant is that of NBlockGraphProofs, with the best value *)
(* of a block computed from its nodes (P below).  On top of it, every node *)
(* that promises a solution is in an open list, or has been expanded and   *)
(* its promising children are known, unless a good solution is found.      *)
(*                                                                         *)
(* The last part is about the steps of set_path, which Incumbent has.      *)
(***************************************************************************)
EXTENDS WPBNFSearch, SearchSpaceProofs, Incumbent

P == INSTANCE NBlockGraphProofs WITH
       best <- Best, work <- 0, MaxWork <- 0, SpuriousWakeups <- FALSE,
       InitBlock <- Project[Start], InitVal <- HWeight * H[Start]

Variants == {"pbnf", "wpbnf", "wpbnfdd"}

\* How much dearer than a cheapest solution the result may be.
Factor == IF variant = "pbnf" THEN 1 ELSE HWeight

\* The test against the incumbent: nodes with this f are not expanded.
TooDear(f) == Factor * f >= bound

Child == [to : States, from : States, g : Nat]

NodeTypes ==
  /\ variant \in Variants /\ search_done \in BOOLEAN
  /\ g \in [States -> Nat] /\ g[Start] = 0 /\ open \subseteq States
  /\ kids \in [Threads -> SUBSET Child]
  /\ sol \in [Threads -> Nat] /\ solution \in 0..Infinity

\* The children a thread has still to look at are those of one node of its
\* block, and their costs are up to date.
KidsExact ==
  \A t \in Threads : \A k \in kids[t] :
    /\ pc[t] = "expand" /\ Project[k.from] = cur[t]
    /\ \E e \in Edges[k.from] : k.to = e.to /\ k.g = g[k.from] + e.cost
    /\ \A l \in kids[t] : l.from = k.from

\* The g of a node is the cost of a path, and so is a solution: neither is
\* better than what is possible.
CostsReal ==
  /\ \A s \in States : CostToGo[Start] <= g[s] + CostToGo[s]
  /\ \A t \in Threads : pc[t] \in {"see", "cas"} => CostToGo[Start] <= sol[t]
  /\ CostToGo[Start] <= solution

\* The bound does not fall below the cost of the best path in the stream.
BoundJustified ==
  /\ solution <= bound
  /\ \A t \in Threads : pc[t] = "cas" => solution <= sol[t]

\* A good solution is in the stream, or on its way there.
Found ==
  \/ solution <= Factor * CostToGo[Start]
  \/ \E t \in Threads : pc[t] = "see" /\ sol[t] <= Factor * CostToGo[Start]

\* The child at the end of e, of a node that has been taken from its open
\* list, is as good as known.
Known(s, e) ==
  \/ g[e.to] <= g[s] + e.cost
  \/ \E t \in Threads : \E k \in kids[t] :
       k.from = s /\ k.to = e.to /\ k.g = g[s] + e.cost

Expanded(s) ==
  s \notin Goals /\ \A e \in Edges[s] : Promises(e.to, g[s] + e.cost) => Known(s, e)

\* Until a good solution is found, every node that promises one is in its
\* open list, or its promising children are known.
NothingForgotten ==
  variant # "wpbnfdd" /\ ~Found =>
    \A s \in States : Promises(s, g[s]) => s \in open \/ Expanded(s)

EndSeen == search_done => done

\* What holds whatever the heuristic, and what needs a good one
\* (NothingForgotten) is proved apart.
SInv ==
  /\ NodeTypes
  /\ KidsExact
  /\ CostsReal
  /\ BoundJustified
  /\ EndSeen

\* The graph's part of the invariant.
GInv == P!IInv /\ P!NothingLeft

Inv == GInv /\ SInv

-----------------------------------------------------------------------------
(***************************************************************************)
(* The graph under the search                                              *)
(***************************************************************************)

LEMMA FiniteSame ==
  /\ \A S : IsFiniteSet(S) <=> P!IsFiniteSet(S)
  /\ \A S : Cardinality(S) = P!Cardinality(S)
<1>1. \A S : IsFiniteSet(S) <=> P!IsFiniteSet(S)
  BY DEF IsFiniteSet, P!IsFiniteSet
<1>2. \A S : Cardinality(S) = P!Cardinality(S)
  BY DEF Cardinality, P!Cardinality
<1>3. QED
  BY <1>1, <1>2

\* The constants of the search fit the graph: this is the assumption under
\* which the lemmas of NBlockGraphProofs hold.
LEMMA GraphAssumption ==
  /\ P!IsFiniteSet(Threads) /\ Threads # {} /\ NoThread \notin Threads
  /\ P!IsFiniteSet(NBlocks) /\ NoBlock \notin NBlocks
  /\ Succs \in [NBlocks -> SUBSET NBlocks]
  /\ Project[Start] \in NBlocks
  /\ Infinity \in Nat /\ HWeight * H[Start] \in 0..(Infinity - 1)
  /\ Weight \in Nat \ {0}
  /\ DetectLivelocks \in BOOLEAN /\ FALSE \in BOOLEAN
  /\ MinExpansions \in Nat /\ 0 \in Nat
<1>1. P!IsFiniteSet(Threads) /\ P!IsFiniteSet(NBlocks)
  BY SearchAssumption, FiniteSame
<1>2. H[Start] \in Nat /\ Infinity \in Nat \ {0}
  BY SpaceAssumption
<1>3. HWeight * H[Start] \in Nat
  BY <1>2, SearchAssumption
<1>4. QED
  BY <1>1, <1>2, <1>3, SpaceAssumption, SearchAssumption

\* The graph steps of the model are those the lemmas are about.
LEMMA SameGraph ==
  ASSUME NEW t \in Threads
  PROVE  /\ G!GraphStep(t) => P!GraphStep(t)
         /\ G!LeaveEmpty(t) => P!LeaveEmpty(t)
         /\ G!ShouldSwitch(t) => P!ShouldSwitch(t)
         /\ G!WantHot(t) => P!WantHot(t)
BY DEF G!GraphStep, P!GraphStep, G!LeaveEmpty, P!LeaveEmpty, G!ShouldSwitch,
  P!ShouldSwitch, G!WantHot, P!WantHot, G!LockNext, P!LockNext, G!TryLockNext,
  P!TryLockNext, G!Release, P!Release, G!Finish, P!Finish, G!Wait, P!Wait,
  G!Wake, P!Wake, G!SeeDone, P!SeeDone, G!Prune, P!Prune, G!Take, P!Take,
  G!TrySetHot, P!TrySetHot, G!SetHot, P!SetHot, G!TryWontRelease,
  P!TryWontRelease, G!WontRelease, P!WontRelease, G!Exit, P!Exit,
  G!Preds, P!Preds, G!Interferes, P!Interferes, G!graphVars, P!graphVars,
  G!Empty, P!Empty, G!IsFree, P!IsFree, G!Goto, P!Goto, G!EnterSearch,
  P!EnterSearch, G!Lock, P!Lock, G!Unlock, P!Unlock, G!ScopeSigmas,
  P!ScopeSigmas, G!AllInterferers, P!AllInterferers, G!CooledSigmaHot,
  P!CooledSigmaHot, G!HotAmong, P!HotAmong, G!Unavailable, P!Unavailable,
  G!Get, P!Get, G!NothingToDo, P!NothingToDo, G!Broadcast, P!Broadcast,
  G!Signal, P!Signal, G!MayHeat, P!MayHeat, G!Freed, P!Freed, G!Front, P!Front,
  G!Hopeless, P!Hopeless, G!AtWait, P!AtWait, G!NoWant, P!NoWant,
  G!Cardinality, P!Cardinality

LEMMA SameInit == G!Init => P!Init
BY DEF G!Init, P!Init, G!NoWant, P!NoWant, G!Cardinality, P!Cardinality

LEMMA SameIsolation == G!NoIsolatedBlock => P!NoIsolatedBlock
BY DEF G!NoIsolatedBlock, P!NoIsolatedBlock, G!Interferes, P!Interferes,
       G!Preds, P!Preds

-----------------------------------------------------------------------------
(***************************************************************************)
(* The best values of the blocks                                           *)
(***************************************************************************)

\* The values in the open list of a block, and what an empty one counts as.
Vals(b) == {Infinity} \cup {GetFPrime(s) : s \in {o \in open : Project[o] = b}}

LEMMA FPrimeType ==
  ASSUME NodeTypes, NEW s \in States
  PROVE  /\ GetFPrime(s) \in Nat /\ GetF(s) \in Nat
         /\ GetFPrime(s) <= HWeight * GetF(s)
<1>1. /\ g[s] \in Nat /\ H[s] \in Nat /\ HWeight \in Nat \ {0}
  BY SpaceAssumption, SearchAssumption DEF NodeTypes
<1>2. /\ HWeight * H[s] \in Nat /\ 1 * g[s] <= HWeight * g[s]
      /\ HWeight * (g[s] + H[s]) = HWeight * g[s] + HWeight * H[s]
  BY <1>1
<1>3. QED
  BY <1>1, <1>2 DEF GetFPrime, GetF

\* Best is the least value of a node in the block's open list.
LEMMA BestIsLeast ==
  ASSUME NodeTypes
  PROVE  /\ Best \in [NBlocks -> 0..Infinity]
         /\ \A b \in NBlocks : Best[b] \in Vals(b)
         /\ \A s \in open : Best[Project[s]] <= GetFPrime(s)
<1>1. \A b \in NBlocks : Best[b] = Min(Vals(b))
  BY DEF Best, Vals
<1>2. \A b \in NBlocks : Vals(b) \in SUBSET Nat /\ Infinity \in Vals(b)
  BY FPrimeType, SpaceAssumption DEF Vals, NodeTypes
<1>3. \A b \in NBlocks : Best[b] \in Vals(b) /\ \A x \in Vals(b) : Best[b] <= x
  BY <1>1, <1>2, MinIsLeast
<1>4. \A b \in NBlocks : Best[b] \in 0..Infinity
  BY <1>2, <1>3, SpaceAssumption
<1>5. Best \in [NBlocks -> 0..Infinity]
  BY <1>4 DEF Best
<1>6. ASSUME NEW s \in open PROVE Best[Project[s]] <= GetFPrime(s)
  <2>1. s \in States /\ Project[s] \in NBlocks
    BY SearchAssumption DEF NodeTypes
  <2>2. GetFPrime(s) \in Vals(Project[s])
    BY DEF Vals
  <2>3. QED
    BY <1>3, <2>1, <2>2
<1>7. QED
  BY <1>3, <1>5, <1>6

\* A step changes the best values of those blocks only whose nodes it
\* changes.
LEMMA BestIsLocal ==
  ASSUME NodeTypes, NodeTypes', NEW b \in NBlocks,
         \A s \in States : Project[s] = b =>
           g'[s] = g[s] /\ (s \in open' <=> s \in open)
  PROVE  Best'[b] = Best[b]
<1>1. Vals(b)' = Vals(b)
  BY DEF Vals, NodeTypes, GetFPrime
<1>2. Best[b] = Min(Vals(b)) /\ Best'[b] = Min(Vals(b)')
  BY DEF Best, Vals
<1>3. QED
  BY <1>1, <1>2

-----------------------------------------------------------------------------
(***************************************************************************)
(* What the graph's invariant means for the search                         *)
(***************************************************************************)

\* A thread that searches owns a block, whose scope it shares with nobody.
LEMMA OwnerFacts ==
  ASSUME GInv, NEW t \in Threads,
         pc[t] \in {"body", "expand", "loop", "see", "get", "cas"}
  PROVE  /\ cur[t] \in NBlocks /\ cur[t] # NoBlock /\ ~done
         /\ \A u \in Threads : u # t => cur[u] # cur[t]
         /\ \A u \in Threads : \A b \in NBlocks :
              u # t /\ cur[u] = b => b \notin P!Scope(cur[t])
<1>1. pc[t] \in P!Owning
  BY DEF P!Owning
<1>2. cur[t] \in NBlocks /\ cur[t] # NoBlock /\ cur[t] \in inuse
  BY <1>1 DEF GInv, P!IInv, P!Ownership, P!TypeOK
<1>3. ~done
  BY <1>1, GraphAssumption, P!ClientIsNotDone DEF GInv
<1>4. ASSUME NEW u \in Threads, NEW b \in NBlocks, u # t, cur[u] = b
      PROVE  b # cur[t] /\ b \notin P!Scope(cur[t])
  <2>1. b # NoBlock /\ b \in inuse
    BY <1>4, SearchAssumption DEF GInv, P!IInv, P!Ownership
  <2>2. b # cur[t]
    BY <1>2, <1>4, <2>1 DEF GInv, P!IInv, P!Ownership
  <2>3. b \notin P!Interferes[cur[t]]
    BY <1>2, <2>1 DEF GInv, P!IInv, P!Exclusion
  <2>4. P!Scope(cur[t]) \subseteq {cur[t]} \cup P!Interferes[cur[t]]
    BY <1>2, GraphAssumption, P!ScopeInterferes
  <2>5. QED
    BY <2>2, <2>3, <2>4
<1>5. \A u \in Threads : u # t => cur[u] # cur[t]
  BY <1>2, <1>4
<1>6. QED
  BY <1>2, <1>3, <1>4, <1>5

-----------------------------------------------------------------------------
(***************************************************************************)
(* The steps of both searches, by what they do to the nodes                *)
(***************************************************************************)

\* What no step on nodes changes.
graphSide ==
  <<graphVars, done, mutex, waiting, cur, want, variant, search_done>>

\* A step of the graph, or the decision whether to switch.
GraphMove(t) ==
  /\ \/ P!GraphStep(t) \/ P!LeaveEmpty(t) \/ P!ShouldSwitch(t) \/ P!WantHot(t)
  /\ UNCHANGED <<nodeVars, kids, sol, solution, variant>>
  /\ search_done' \in BOOLEAN /\ (search_done' => search_done \/ done')

\* Nodes that are as bad as the incumbent are dropped.
DropNodes(t) ==
  /\ pc[t] = "body"
  /\ \E p \in {"loop", "next"} : Leave(t, p)
  /\ \E D \in SUBSET open :
       /\ open' = open \ D
       /\ \A s \in D : Project[s] = cur[t] /\ TooDear(GetF(s))
  /\ UNCHANGED <<g, kids, sol, solution, bound, graphSide>>

FindGoal(t) ==
  /\ pc[t] = "body"
  /\ \E s \in open \cap Goals :
       Project[s] = cur[t] /\ open' = open \ {s} /\ ReturnPath(t, g[s])
  /\ UNCHANGED <<g, kids, solution, bound, graphSide>>

ExpandNode(t) ==
  /\ pc[t] = "body" /\ Leave(t, "expand")
  /\ \E s \in open \ Goals :
       /\ Project[s] = cur[t] /\ ~TooDear(GetF(s))
       /\ open' = open \ {s}
       /\ kids' = [kids EXCEPT ![t] =
                     {[to |-> e.to, from |-> s, g |-> g[s] + e.cost] :
                        e \in Edges[s]}]
  /\ UNCHANGED <<g, sol, solution, bound, graphSide>>

DropChild(t) ==
  /\ pc[t] = "expand"
  /\ \E k \in kids[t] :
       /\ TooDear(k.g + H[k.to]) \/ g[k.to] <= k.g
       /\ kids' = [kids EXCEPT ![t] = @ \ {k}]
  /\ UNCHANGED <<pc, sol, nodeVars, solution, bound, graphSide>>

FindGoalChild(t) ==
  /\ pc[t] = "expand"
  /\ \E k \in kids[t] :
       /\ k.to \in Goals /\ ~TooDear(k.g + H[k.to]) /\ k.g < g[k.to]
       /\ g' = [g EXCEPT ![k.to] = k.g]
       /\ ReturnPath(t, k.g)
  /\ kids' = [kids EXCEPT ![t] = {}]
  /\ UNCHANGED <<open, solution, bound, graphSide>>

KeepChild(t) ==
  /\ pc[t] = "expand"
  /\ \E k \in kids[t] :
       /\ ~TooDear(k.g + H[k.to]) /\ k.g < g[k.to]
       /\ g' = [g EXCEPT ![k.to] = k.g]
       /\ \/ open' = open \cup {k.to}
          \/ variant = "wpbnfdd" /\ open' = open
       /\ kids' = [kids EXCEPT ![t] = @ \ {k}]
  /\ UNCHANGED <<pc, sol, solution, bound, graphSide>>

PathStep(t) ==
  /\ EndExpand(t) \/ SeeSolution(t) \/ GetBestPath(t) \/ SetBound(t)
  /\ UNCHANGED <<variant, search_done>>

NodeStep(t) ==
  \/ DropNodes(t) \/ FindGoal(t) \/ ExpandNode(t) \/ DropChild(t)
  \/ FindGoalChild(t) \/ KeepChild(t) \/ PathStep(t)

LEMMA FactorType ==
  ASSUME NodeTypes, NEW f \in Nat
  PROVE  /\ Factor \in Nat \ {0} /\ Factor * f \in Nat /\ f <= Factor * f
         /\ variant = "pbnf" => (TooDear(f) <=> f >= bound)
         /\ variant # "pbnf" => (TooDear(f) <=> HWeight * f >= bound)
<1>1. Factor \in Nat \ {0}
  BY SearchAssumption DEF Factor
<1>2. Factor * f \in Nat /\ 1 * f <= Factor * f
  BY <1>1
<1>3. QED
  BY <1>1, <1>2 DEF TooDear, Factor

\* What is not too dear has a finite cost.
LEMMA NotTooDear ==
  ASSUME GInv, NodeTypes, NEW f \in Nat, ~TooDear(f)
  PROVE  f < Infinity
<1>1. bound \in 0..Infinity
  BY DEF GInv, P!IInv, P!TypeOK, P!F
<1>2. f <= Factor * f /\ Factor * f \in Nat
  BY FactorType
<1>3. QED
  BY <1>1, <1>2, SpaceAssumption DEF TooDear

LEMMA ChildType ==
  ASSUME NodeTypes, NEW t \in Threads, NEW k \in kids[t]
  PROVE  /\ k.to \in States /\ k.from \in States /\ k.g \in Nat
         /\ g[k.to] \in Nat /\ H[k.to] \in Nat /\ k.g + H[k.to] \in Nat
         /\ k.g <= k.g + H[k.to]
<1>1. k \in Child
  BY DEF NodeTypes
<1>2. k.to \in States /\ k.from \in States /\ k.g \in Nat
  BY <1>1 DEF Child
<1>3. QED
  BY <1>2, SpaceAssumption DEF NodeTypes

\* PBNF's steps, and those of the two kinds of WPBNF.
LEMMA TakeKinds ==
  ASSUME Inv, NEW t \in Threads,
         \/ variant = "pbnf" /\ TakeNode(t)
         \/ variant # "pbnf" /\ WTakeNode(t),
         UNCHANGED <<variant, search_done>>
  PROVE  DropNodes(t) \/ FindGoal(t) \/ ExpandNode(t)
<1> USE DEF Inv, SInv
<1>1. CASE variant = "pbnf" /\ TakeNode(t)
  <2>1. PICK s \in open :
          /\ Project[s] = cur[t] /\ open' = open \ {s}
          /\ \/ /\ GetF(s) >= bound
                /\ Leave(t, "loop") /\ UNCHANGED <<kids, sol>>
             \/ /\ GetF(s) < bound /\ s \in Goals
                /\ ReturnPath(t, g[s]) /\ UNCHANGED kids
             \/ /\ GetF(s) < bound /\ s \notin Goals
                /\ kids' = [kids EXCEPT ![t] =
                              {[to |-> e.to, from |-> s, g |-> g[s] + e.cost] :
                                 e \in Edges[s]}]
                /\ Leave(t, "expand") /\ UNCHANGED sol
    BY <1>1 DEF TakeNode
  <2>2. /\ pc[t] = "body"
        /\ UNCHANGED <<g, solution, bound, graphSide>>
    BY <1>1 DEF TakeNode, graphSide
  <2>3. /\ s \in States /\ GetF(s) \in Nat /\ bound \in Nat
        /\ TooDear(GetF(s)) <=> GetF(s) >= bound
    BY <1>1, FPrimeType, FactorType
    DEF NodeTypes, GInv, P!IInv, P!TypeOK, P!F
  <2>4. CASE GetF(s) >= bound /\ Leave(t, "loop") /\ UNCHANGED <<kids, sol>>
    <3>1. TooDear(GetF(s))
      BY <2>3, <2>4
    <3>2. /\ {s} \in SUBSET open /\ open' = open \ {s}
          /\ \A o \in {s} : Project[o] = cur[t] /\ TooDear(GetF(o))
      BY <2>1, <3>1
    <3>3. UNCHANGED <<g, kids, sol, solution, bound, graphSide>>
      BY <2>2, <2>4
    <3>4. QED
      BY <2>2, <2>4, <3>2, <3>3 DEF DropNodes
  <2>5. CASE s \in Goals /\ ReturnPath(t, g[s]) /\ UNCHANGED kids
    BY <2>1, <2>2, <2>5 DEF FindGoal
  <2>6. CASE /\ GetF(s) < bound /\ s \notin Goals
             /\ kids' = [kids EXCEPT ![t] =
                           {[to |-> e.to, from |-> s, g |-> g[s] + e.cost] :
                              e \in Edges[s]}]
             /\ Leave(t, "expand") /\ UNCHANGED sol
    <3>1. ~TooDear(GetF(s))
      BY <2>3, <2>6
    <3>2. s \in open \ Goals
      BY <2>6
    <3>3. UNCHANGED <<g, sol, solution, bound, graphSide>>
      BY <2>2, <2>6
    <3>4. QED
      BY <2>1, <2>2, <2>6, <3>1, <3>2, <3>3 DEF ExpandNode
  <2>7. QED
    BY <2>1, <2>4, <2>5, <2>6
<1>2. CASE variant # "pbnf" /\ WTakeNode(t)
  <2>1. PICK s \in open :
          /\ Project[s] = cur[t] /\ GetFPrime(s) = Best[cur[t]]
          /\ PruneAll(t, s) \/ PruneNode(t, s) \/ Expand(t, s)
    BY <1>2 DEF WTakeNode
  <2>2. /\ pc[t] = "body"
        /\ UNCHANGED <<g, solution, bound, graphSide>>
    BY <1>2 DEF WTakeNode, graphSide
  <2>3. bound \in Nat /\ s \in States
    BY SpaceAssumption DEF NodeTypes, GInv, P!IInv, P!TypeOK, P!F
  <2>4. \A o \in States : /\ GetF(o) \in Nat /\ GetFPrime(o) \in Nat
                          /\ HWeight * GetF(o) \in Nat
                          /\ GetFPrime(o) <= HWeight * GetF(o)
                          /\ TooDear(GetF(o)) <=> HWeight * GetF(o) >= bound
    <3>1. HWeight \in Nat
      BY SearchAssumption
    <3>2. QED
      BY <1>2, <3>1, FPrimeType, FactorType
  <2>5. CASE PruneAll(t, s)
    <3> DEFINE D == {o \in open : Project[o] = cur[t]}
    <3>1. open' = open \ D
      BY <2>5 DEF PruneAll
    <3>2. ASSUME NEW o \in D PROVE TooDear(GetF(o))
      <4>1. o \in States /\ GetFPrime(s) <= GetFPrime(o)
        BY <2>1, BestIsLeast DEF NodeTypes
      <4>2. GetFPrime(s) >= bound
        BY <2>5 DEF PruneAll
      <4>3. QED
        BY <2>3, <2>4, <4>1, <4>2
    <3>3. QED
      BY <2>2, <2>5, <3>1, <3>2 DEF PruneAll, DropNodes
  <2>6. CASE PruneNode(t, s)
    <3>1. TooDear(GetF(s))
      BY <2>3, <2>4, <2>6 DEF PruneNode
    <3>2. /\ {s} \in SUBSET open /\ open' = open \ {s}
          /\ \A o \in {s} : Project[o] = cur[t] /\ TooDear(GetF(o))
      BY <2>1, <2>6, <3>1 DEF PruneNode
    <3>3. QED
      BY <2>2, <2>6, <3>2 DEF PruneNode, DropNodes
  <2>7. CASE Expand(t, s)
    <3>1. ~TooDear(GetF(s))
      BY <2>3, <2>4, <2>7 DEF Expand
    <3>2. CASE s \in Goals
      BY <2>1, <2>2, <2>7, <3>2 DEF Expand, FindGoal
    <3>3. CASE s \notin Goals
      <4>1. s \in open \ Goals
        BY <3>3
      <4>2. QED
        BY <2>1, <2>2, <2>7, <3>1, <3>3, <4>1 DEF Expand, ExpandNode
    <3>4. QED
      BY <3>2, <3>3
  <2>8. QED
    BY <2>1, <2>5, <2>6, <2>7
<1>3. QED
  BY <1>1, <1>2

LEMMA ChildKinds ==
  ASSUME Inv, NEW t \in Threads,
         \/ variant = "pbnf" /\ AddChild(t)
         \/ variant # "pbnf" /\ WAddChild(t),
         UNCHANGED <<variant, search_done>>
  PROVE  DropChild(t) \/ FindGoalChild(t) \/ KeepChild(t)
<1>1. bound \in Nat /\ Infinity \in Nat
  BY SpaceAssumption DEF Inv, GInv, P!IInv, P!TypeOK, P!F
<1>2. NodeTypes
  BY DEF Inv, SInv
<1>3. pc[t] = "expand" /\ UNCHANGED <<solution, bound, graphSide>>
  BY DEF AddChild, WAddChild, graphSide
<1>4. \A k \in kids[t] :
        /\ k.to \in States /\ k.g \in Nat /\ g[k.to] \in Nat
        /\ k.g + H[k.to] \in Nat /\ k.g <= k.g + H[k.to]
        /\ ~TooDear(k.g + H[k.to]) => k.g + H[k.to] < Infinity
        /\ variant = "pbnf" =>
             (TooDear(k.g + H[k.to]) <=> k.g + H[k.to] >= bound)
        /\ variant # "pbnf" =>
             (TooDear(k.g + H[k.to]) <=> HWeight * (k.g + H[k.to]) >= bound)
  BY <1>2, ChildType, FactorType, NotTooDear DEF Inv
<1>5. \A f \in Nat : HWeight * f \in Nat
  BY SearchAssumption
<1>6. PICK k \in kids[t] :
        \/ /\ TooDear(k.g + H[k.to]) \/ g[k.to] <= k.g
           /\ kids' = [kids EXCEPT ![t] = @ \ {k}]
           /\ UNCHANGED <<pc, sol, nodeVars>>
        \/ /\ ~TooDear(k.g + H[k.to])
           /\ \/ NewNode(t, k)
              \/ variant = "pbnf" /\ CheaperPath(t, k)
              \/ variant # "pbnf" /\ WCheaperPath(t, k)
  <2>1. CASE variant = "pbnf" /\ AddChild(t)
    <3>1. PICK k \in kids[t] :
            \/ Drop(t, k)
            \/ k.g + H[k.to] < bound /\ (NewNode(t, k) \/ CheaperPath(t, k))
      BY <2>1 DEF AddChild
    <3>2. TooDear(k.g + H[k.to]) <=> k.g + H[k.to] >= bound
      BY <1>4, <2>1
    <3>3. CASE Drop(t, k)
      BY <3>2, <3>3 DEF Drop
    <3>4. CASE k.g + H[k.to] < bound /\ (NewNode(t, k) \/ CheaperPath(t, k))
      <4>1. ~TooDear(k.g + H[k.to])
        BY <1>1, <1>4, <3>2, <3>4
      <4>2. QED
        BY <2>1, <3>4, <4>1
    <3>5. QED
      BY <3>1, <3>3, <3>4
  <2>2. CASE variant # "pbnf" /\ WAddChild(t)
    <3>1. PICK k \in kids[t] :
            \/ WDrop(t, k)
            \/ /\ HWeight * (k.g + H[k.to]) < bound
               /\ NewNode(t, k) \/ WCheaperPath(t, k)
      BY <2>2 DEF WAddChild
    <3>2. /\ TooDear(k.g + H[k.to]) <=> HWeight * (k.g + H[k.to]) >= bound
          /\ HWeight * (k.g + H[k.to]) \in Nat
      BY <1>4, <1>5, <2>2
    <3>3. CASE WDrop(t, k)
      BY <3>2, <3>3 DEF WDrop
    <3>4. CASE /\ HWeight * (k.g + H[k.to]) < bound
               /\ NewNode(t, k) \/ WCheaperPath(t, k)
      <4>1. ~TooDear(k.g + H[k.to])
        BY <1>1, <3>2, <3>4
      <4>2. QED
        BY <2>2, <3>4, <4>1
    <3>5. QED
      BY <3>1, <3>3, <3>4
  <2>3. QED
    BY <2>1, <2>2
<1>7. CASE /\ TooDear(k.g + H[k.to]) \/ g[k.to] <= k.g
           /\ kids' = [kids EXCEPT ![t] = @ \ {k}]
           /\ UNCHANGED <<pc, sol, nodeVars>>
  BY <1>3, <1>6, <1>7 DEF DropChild
<1>8. CASE ~TooDear(k.g + H[k.to]) /\ NewNode(t, k)
  <2>1. k.g < g[k.to]
    BY <1>1, <1>4, <1>8 DEF NewNode
  <2>2. CASE k.to \in Goals
    <3>1. /\ g' = [g EXCEPT ![k.to] = k.g] /\ ReturnPath(t, k.g)
          /\ kids' = [kids EXCEPT ![t] = {}] /\ UNCHANGED open
      BY <1>8, <2>2 DEF NewNode
    <3>2. QED
      BY <1>3, <1>6, <1>8, <2>1, <2>2, <3>1 DEF FindGoalChild
  <2>3. CASE k.to \notin Goals
    BY <1>3, <1>6, <1>8, <2>1, <2>3 DEF NewNode, KeepChild
  <2>4. QED
    BY <2>2, <2>3
<1>9. CASE /\ ~TooDear(k.g + H[k.to])
           /\ \/ variant = "pbnf" /\ CheaperPath(t, k)
              \/ variant # "pbnf" /\ WCheaperPath(t, k)
  <2>1. k.g < g[k.to]
    BY <1>4, <1>6, <1>9 DEF CheaperPath, WCheaperPath
  <2>2. \/ open' = open \cup {k.to}
        \/ variant = "wpbnfdd" /\ open' = open
    BY <1>2, <1>9
    DEF CheaperPath, WCheaperPath, WorthReopening, NodeTypes, Variants
  <2>3. /\ g' = [g EXCEPT ![k.to] = k.g]
        /\ kids' = [kids EXCEPT ![t] = @ \ {k}]
        /\ UNCHANGED <<pc, sol>>
    BY <1>9 DEF CheaperPath, WCheaperPath
  <2>4. QED
    BY <1>3, <1>6, <1>9, <2>1, <2>2, <2>3 DEF KeepChild
<1>10. QED
  BY <1>6, <1>7, <1>8, <1>9

\* search_done adds nothing to the graph's done: it is raised after it, when
\* nobody owns a block.
LEMMA SearchDoneIsLate ==
  ASSUME Inv, search_done
  PROVE  \A t \in Threads : cur[t] = NoBlock /\ pc[t] # "loop"
<1>1. done /\ inuse = {}
  BY DEF Inv, SInv, EndSeen, GInv, P!NothingLeft
<1>2. QED
  BY <1>1 DEF Inv, GInv, P!IInv, P!Ownership, P!Owning

LEMMA GraphKinds ==
  ASSUME Inv, NEW t \in Threads,
         \/ GraphStep(t) /\ UNCHANGED search_done
         \/ WGraphStep(t) \/ SetDone(t),
         UNCHANGED variant
  PROVE  GraphMove(t)
<1>1. search_done \in BOOLEAN /\ UNCHANGED <<nodeVars, kids, sol, solution>>
  BY DEF Inv, SInv, NodeTypes, GraphStep, WGraphStep, SetDone
<1>2. UNCHANGED Best
  BY <1>1 DEF Best, GetFPrime, nodeVars
<1>3. CASE GraphStep(t) /\ UNCHANGED search_done
  BY <1>1, <1>3, SameGraph DEF GraphStep, GraphMove
<1>4. CASE SetDone(t)
  <2>1. G!GraphStep(t) /\ search_done' = TRUE /\ done' = TRUE
    BY <1>4 DEF SetDone, G!GraphStep, G!Exit
  <2>2. QED
    BY <1>1, <2>1, SameGraph DEF GraphMove
<1>5. CASE WGraphStep(t)
  <2>1. \/ G!GraphStep(t) \/ G!LeaveEmpty(t) \/ G!ShouldSwitch(t) \/ G!WantHot(t)
    <3>1. CASE NextNBlock(t)
      BY <3>1, SearchDoneIsLate DEF NextNBlock, G!GraphStep
    <3>2. CASE Release(t) \/ Acquire(t) \/ SetHot(t) \/ WontRelease(t)
      BY <3>2 DEF Release, Acquire, SetHot, WontRelease, G!GraphStep
    <3>3. CASE LeaveLoop(t)
      <4>1. ~search_done
        BY <3>3, SearchDoneIsLate DEF LeaveLoop
      <4>2. QED
        BY <1>2, <3>3, <4>1
        DEF LeaveLoop, Leave, G!LeaveEmpty, G!Goto, G!graphVars, graphVars
    <3>4. CASE ShouldSwitch(t) \/ BestInScope(t)
      BY <3>4 DEF ShouldSwitch, BestInScope
    <3>5. QED
      BY <1>5, <3>1, <3>2, <3>3, <3>4 DEF WGraphStep
  <2>2. UNCHANGED search_done
    BY <1>5 DEF WGraphStep
  <2>3. QED
    BY <1>1, <2>1, <2>2, SameGraph DEF GraphMove
<1>6. QED
  BY <1>3, <1>4, <1>5

\* A step is a step of the graph, or on nodes, or none.
LEMMA SearchStepKinds ==
  ASSUME Inv, [WNext]_wvars
  PROVE  \/ \E t \in Threads : GraphMove(t) \/ NodeStep(t)
         \/ UNCHANGED wvars
<1>1. ASSUME NEW t \in Threads, WStep(t)
      PROVE  GraphMove(t) \/ NodeStep(t)
  <2>1. UNCHANGED variant
    BY <1>1 DEF WStep
  <2>2. CASE \/ variant = "pbnf" /\ GraphStep(t) /\ UNCHANGED search_done
             \/ variant # "pbnf" /\ (WGraphStep(t) \/ SetDone(t))
    BY <2>1, <2>2, GraphKinds
  <2>3. CASE /\ \/ variant = "pbnf" /\ SearchStep(t)
                \/ variant # "pbnf" /\ WSearchStep(t)
             /\ UNCHANGED search_done
    <3>1. \/ variant = "pbnf" /\ TakeNode(t)
          \/ variant # "pbnf" /\ WTakeNode(t)
          \/ variant = "pbnf" /\ AddChild(t)
          \/ variant # "pbnf" /\ WAddChild(t)
          \/ EndExpand(t) \/ SeeSolution(t) \/ GetBestPath(t) \/ SetBound(t)
      BY <2>3 DEF SearchStep, WSearchStep, SetPath
    <3>2. QED
      BY <2>1, <2>3, <3>1, TakeKinds, ChildKinds DEF NodeStep, PathStep
  <2>4. QED
    BY <1>1, <2>2, <2>3 DEF WStep, WSearchStep
<1>2. QED
  BY <1>1 DEF WNext

-----------------------------------------------------------------------------
(***************************************************************************)
(* Steps of the graph                                                      *)
(***************************************************************************)

\* Where a thread holds children or a path.
Holding == {"expand", "see", "get", "cas"}

\* The nodes, the paths and the bound stay, and so does everyone who holds
\* children or a path.
Bystander ==
  /\ UNCHANGED <<g, open, kids, sol, solution, bound, variant>>
  /\ \A u \in Threads :
       \/ pc'[u] = pc[u] /\ cur'[u] = cur[u]
       \/ pc[u] \notin Holding /\ pc'[u] \notin Holding

LEMMA GraphIsBystander ==
  ASSUME Inv, NEW t \in Threads, GraphMove(t)
  PROVE  Bystander
<1>1. P!TypeOK /\ UNCHANGED <<g, open, kids, sol, solution, variant>>
  BY DEF Inv, GInv, P!IInv, GraphMove, nodeVars
<1>2. P!GraphStep(t) \/ P!LeaveEmpty(t) \/ P!ShouldSwitch(t) \/ P!WantHot(t)
  BY DEF GraphMove
<1>3. /\ bound' = bound
      /\ \A u \in Threads : u # t => pc'[u] = pc[u] /\ cur'[u] = cur[u]
      /\ {pc[t], pc'[t]} \cap {"expand", "see", "get", "cas"} = {}
  BY <1>1, <1>2, GraphAssumption, P!GraphFrame
<1>4. pc[t] \notin Holding /\ pc'[t] \notin Holding
  BY <1>3 DEF Holding
<1>5. QED
  BY <1>1, <1>3, <1>4 DEF Bystander

LEMMA BystanderKeeps ==
  ASSUME SInv, Bystander
  PROVE  /\ KidsExact' /\ CostsReal' /\ BoundJustified'
         /\ (search_done' \in BOOLEAN => NodeTypes')
         /\ Found' = Found
<1> USE DEF SInv, Bystander
<1>1. KidsExact'
  BY DEF KidsExact, Holding
<1>2. CostsReal' /\ BoundJustified'
  BY DEF CostsReal, BoundJustified, Holding
<1>3. search_done' \in BOOLEAN => NodeTypes'
  BY DEF NodeTypes
<1>4. Found' = Found
  BY DEF Found, Factor, Holding
<1>5. QED
  BY <1>1, <1>2, <1>3, <1>4

LEMMA GraphMoveInvariant ==
  ASSUME G!NoIsolatedBlock, Inv, NEW t \in Threads, GraphMove(t)
  PROVE  Inv' /\ P!Next
<1>1. P!Next
  BY DEF GraphMove, P!Next, P!SearchStep
<1>2. P!NoIsolatedBlock
  BY SameIsolation
<1>3. P!IInv' /\ P!NothingLeft'
  BY <1>1, <1>2, GraphAssumption, P!NextInvariant, P!NothingLeftStep DEF Inv, GInv
<1>4. search_done' \in BOOLEAN /\ (search_done' => search_done \/ done')
  BY DEF GraphMove
<1>5. EndSeen'
  <2>1. done => done'
    BY <1>1, GraphAssumption, P!DoneSteps DEF Inv, GInv
  <2>2. QED
    BY <1>4, <2>1 DEF Inv, SInv, EndSeen
<1>6. NodeTypes' /\ KidsExact' /\ CostsReal' /\ BoundJustified'
  BY <1>4, GraphIsBystander, BystanderKeeps DEF Inv
<1>7. QED
  BY <1>1, <1>3, <1>5, <1>6 DEF Inv, GInv, SInv

-----------------------------------------------------------------------------
(***************************************************************************)
(* Steps on nodes, for the graph: they are a client's                      *)
(***************************************************************************)

\* What all of them have in common.
NodeFrame(t) ==
  /\ pc[t] \in P!Outside
  /\ \E l \in P!Outside \cup {"next"} : pc' = [pc EXCEPT ![t] = l]
  /\ NodeTypes'
  /\ bound' \in 0..Infinity /\ bound' <= bound
  /\ UNCHANGED graphSide
  /\ \A s \in States : Project[s] \notin P!Scope(cur[t]) =>
       g'[s] = g[s] /\ (s \in open' <=> s \in open)
  /\ \A u \in Threads : u # t => kids'[u] = kids[u] /\ sol'[u] = sol[u]
  /\ UNCHANGED <<g, open>> \/ UNCHANGED bound

\* The block of a child is in the scope.
LEMMA ChildInScope ==
  ASSUME Inv, NEW t \in Threads, NEW k \in kids[t]
  PROVE  /\ Project[k.to] \in P!Scope(cur[t]) /\ pc[t] = "expand"
         /\ k.from \in States /\ k.to \in States
         /\ \E e \in Edges[k.from] : k.to = e.to /\ k.g = g[k.from] + e.cost
<1>1. /\ Project[k.from] = cur[t] /\ pc[t] = "expand"
      /\ \E e \in Edges[k.from] : k.to = e.to /\ k.g = g[k.from] + e.cost
  BY DEF Inv, SInv, KidsExact
<1>2. k.from \in States /\ k.to \in States
  BY ChildType DEF Inv, SInv
<1>3. Project[k.to] \in {cur[t]} \cup Succs[cur[t]]
  BY <1>1, <1>2, SearchAssumption
<1>4. QED
  BY <1>1, <1>2, <1>3 DEF P!Scope

LEMMA NodeStepFrame ==
  ASSUME Inv, NEW t \in Threads, NodeStep(t)
  PROVE  NodeFrame(t)
<1> USE DEF Inv, SInv
<1>1. /\ bound \in 0..Infinity /\ bound \in Nat
      /\ pc \in [Threads -> P!PCs] /\ bound <= bound
  BY SpaceAssumption DEF GInv, P!IInv, P!TypeOK, P!F
<1>2. NodeTypes
  BY DEF SInv
<1>3. cur[t] \in P!Scope(cur[t])
  BY DEF P!Scope
<1>4. CASE DropNodes(t)
  <2>1. NodeTypes'
    BY <1>2, <1>4 DEF DropNodes, NodeTypes, graphSide
  <2>2. PICK D \in SUBSET open : /\ open' = open \ D
                                 /\ \A s \in D : Project[s] = cur[t]
    BY <1>4 DEF DropNodes
  <2>3. \A s \in States : Project[s] \notin P!Scope(cur[t]) =>
          (s \in open' <=> s \in open)
    BY <1>3, <2>2
  <2>4. /\ pc[t] \in P!Outside
        /\ \E l \in P!Outside \cup {"next"} : pc' = [pc EXCEPT ![t] = l]
    BY <1>4 DEF DropNodes, P!Outside, Leave
  <2>5. UNCHANGED <<g, kids, sol, bound, graphSide>>
    BY <1>4 DEF DropNodes
  <2>6. QED
    BY <1>1, <2>1, <2>3, <2>4, <2>5 DEF NodeFrame
<1>5. CASE FindGoal(t)
  <2>1. PICK s \in open : /\ Project[s] = cur[t] /\ open' = open \ {s}
                          /\ ReturnPath(t, g[s])
    BY <1>5 DEF FindGoal
  <2>2. s \in States /\ g[s] \in Nat
    BY <1>2 DEF NodeTypes
  <2>3. NodeTypes'
    BY <1>2, <1>5, <2>1, <2>2 DEF FindGoal, NodeTypes, graphSide, ReturnPath
  <2>4. QED
    BY <1>1, <1>2, <1>3, <1>5, <2>1, <2>3
    DEF FindGoal, NodeFrame, P!Outside, Leave, ReturnPath, NodeTypes
<1>6. CASE ExpandNode(t)
  <2>1. PICK s \in open :
          /\ Project[s] = cur[t] /\ open' = open \ {s}
          /\ kids' = [kids EXCEPT ![t] =
                        {[to |-> e.to, from |-> s, g |-> g[s] + e.cost] :
                           e \in Edges[s]}]
    BY <1>6 DEF ExpandNode
  <2>2. s \in States /\ g[s] \in Nat
    BY <1>2 DEF NodeTypes
  <2>3. {[to |-> e.to, from |-> s, g |-> g[s] + e.cost] : e \in Edges[s]}
          \in SUBSET Child
    BY <2>2, SpaceAssumption DEF Child
  <2>4. NodeTypes'
    BY <1>2, <1>6, <2>1, <2>3 DEF ExpandNode, NodeTypes, graphSide
  <2>5. QED
    BY <1>1, <1>2, <1>3, <1>6, <2>1, <2>4
    DEF ExpandNode, NodeFrame, P!Outside, Leave, NodeTypes
<1>7. CASE DropChild(t)
  <2>1. UNCHANGED <<g, open, pc, sol, solution, bound, graphSide>>
    BY <1>7 DEF DropChild, nodeVars
  <2>2. PICK k \in kids[t] : kids' = [kids EXCEPT ![t] = @ \ {k}]
    BY <1>7 DEF DropChild
  <2>3. NodeTypes'
    BY <1>2, <2>1, <2>2 DEF NodeTypes, graphSide
  <2>4. pc[t] = "expand" /\ pc' = [pc EXCEPT ![t] = "expand"]
    BY <1>1, <1>7, <2>1 DEF DropChild
  <2>5. QED
    BY <1>1, <1>2, <2>1, <2>2, <2>3, <2>4 DEF NodeFrame, P!Outside, NodeTypes
<1>8. CASE FindGoalChild(t) \/ KeepChild(t)
  <2>1. PICK k \in kids[t] :
          /\ k.g < g[k.to] /\ g' = [g EXCEPT ![k.to] = k.g]
          /\ \/ pc' = pc /\ sol' = sol
             \/ ReturnPath(t, k.g)
          /\ open' = open \/ open' = open \cup {k.to}
    BY <1>8 DEF FindGoalChild, KeepChild
  <2>2. \/ kids' = [kids EXCEPT ![t] = {}]
        \/ \E k2 \in kids[t] : kids' = [kids EXCEPT ![t] = @ \ {k2}]
    BY <1>8 DEF FindGoalChild, KeepChild
  <2>3. pc[t] = "expand" /\ UNCHANGED <<solution, bound, graphSide>>
    BY <1>8 DEF FindGoalChild, KeepChild
  <2>4. /\ k.to \in States /\ k.g \in Nat /\ Project[k.to] \in P!Scope(cur[t])
    BY ChildType, ChildInScope
  <2>5. kids' \in [Threads -> SUBSET Child] /\ \A u \in Threads : u # t => kids'[u] = kids[u]
    BY <1>2, <2>2 DEF NodeTypes
  <2>6. sol' \in [Threads -> Nat] /\ \A u \in Threads : u # t => sol'[u] = sol[u]
    BY <1>2, <2>1, <2>4 DEF NodeTypes, ReturnPath
  <2>7. /\ g' \in [States -> Nat] /\ open' \subseteq States /\ g'[Start] = 0
        /\ \A s \in States : s # k.to => g'[s] = g[s] /\ (s \in open' <=> s \in open)
    BY <1>2, <2>1, <2>4, SpaceAssumption DEF NodeTypes
  <2>8. NodeTypes'
    BY <1>2, <2>3, <2>5, <2>6, <2>7 DEF NodeTypes, graphSide
  <2>9. \E l \in P!Outside \cup {"next"} : pc' = [pc EXCEPT ![t] = l]
    <3>1. pc' = [pc EXCEPT ![t] = "expand"] \/ pc' = [pc EXCEPT ![t] = "see"]
      BY <1>1, <2>1, <2>3 DEF ReturnPath, Leave
    <3>2. QED
      BY <3>1 DEF P!Outside
  <2>10. pc[t] \in P!Outside
    BY <2>3 DEF P!Outside
  <2>11. \A s \in States : Project[s] \notin P!Scope(cur[t]) =>
           g'[s] = g[s] /\ (s \in open' <=> s \in open)
    BY <2>4, <2>7
  <2>12. /\ bound' \in 0..Infinity /\ bound' <= bound /\ UNCHANGED bound
         /\ UNCHANGED graphSide
    BY <1>1, <2>3
  <2>13. QED
    BY <2>5, <2>6, <2>8, <2>9, <2>10, <2>11, <2>12 DEF NodeFrame
<1>9. CASE PathStep(t)
  <2>1. /\ UNCHANGED <<g, open, kids, variant, search_done>>
        /\ UNCHANGED <<graphVars, done, mutex, waiting, cur, want>>
    BY <1>9 DEF PathStep, EndExpand, SeeSolution, GetBestPath, SetBound, nodeVars
  <2>2. UNCHANGED graphSide
    BY <2>1 DEF graphSide
  <2>3. /\ pc[t] \in P!Outside
        /\ \E l \in P!Outside \cup {"next"} : pc' = [pc EXCEPT ![t] = l]
    BY <1>9 DEF PathStep, EndExpand, SeeSolution, GetBestPath, SetBound, Leave,
                P!Outside
  <2>4. /\ solution \in 0..Infinity /\ Infinity \in Nat /\ sol[t] \in Nat
        /\ sol \in [Threads -> Nat]
    BY <1>2, SpaceAssumption DEF NodeTypes
  <2>5. /\ Min({solution, sol[t]}) \in 0..Infinity
        /\ Min({bound, sol[t]}) \in 0..Infinity /\ Min({bound, sol[t]}) <= bound
    <3>1. \A x, y \in Nat : Min({x, y}) \in {x, y} /\ Min({x, y}) <= x
      BY MinIsLeast
    <3>2. Min({solution, sol[t]}) \in Nat /\ Min({solution, sol[t]}) <= solution
      BY <2>4, <3>1
    <3>3. Min({bound, sol[t]}) \in Nat /\ Min({bound, sol[t]}) <= bound
      BY <1>1, <2>4, <3>1
    <3>4. QED
      BY <1>1, <2>4, <3>2, <3>3
  <2>6. /\ bound' \in 0..Infinity /\ bound' <= bound
        /\ solution' \in 0..Infinity
        /\ sol' \in [Threads -> Nat]
        /\ \A u \in Threads : u # t => sol'[u] = sol[u]
    BY <1>1, <1>9, <2>4, <2>5
    DEF PathStep, EndExpand, SeeSolution, GetBestPath, SetBound
  <2>7. NodeTypes'
    BY <1>2, <2>1, <2>6 DEF NodeTypes
  <2>8. QED
    BY <2>1, <2>2, <2>3, <2>6, <2>7 DEF NodeFrame
<1>10. QED
  BY <1>4, <1>5, <1>6, <1>7, <1>8, <1>9 DEF NodeStep

\* The best values as a function of the nodes, of now and of the next state.
BestOf(gs, os) ==
  [b \in NBlocks |->
     Min({Infinity} \cup {gs[s] + HWeight * H[s] : s \in {o \in os : Project[o] = b}})]

LEMMA BestOfType ==
  ASSUME NEW gs \in [States -> Nat], NEW os \in SUBSET States
  PROVE  BestOf(gs, os) \in [NBlocks -> 0..Infinity]
<1> SUFFICES ASSUME NEW b \in NBlocks
             PROVE  Min({Infinity} \cup {gs[s] + HWeight * H[s] :
                                           s \in {o \in os : Project[o] = b}})
                      \in 0..Infinity
  BY DEF BestOf
<1>1. \A s \in States : gs[s] + HWeight * H[s] \in Nat
  BY SpaceAssumption, SearchAssumption
<1> DEFINE V == {Infinity} \cup {gs[s] + HWeight * H[s] :
                                   s \in {o \in os : Project[o] = b}}
<1>2. V \in SUBSET Nat /\ Infinity \in V
  BY <1>1, SpaceAssumption
<1> HIDE DEF V
<1>3. Min(V) \in Nat /\ Min(V) <= Infinity
  BY <1>2, MinIsLeast
<1>4. QED
  BY <1>3, SpaceAssumption DEF V

LEMMA NodeStepIsClient ==
  ASSUME Inv, NEW t \in Threads, NodeStep(t)
  PROVE  P!ClientStep(t) /\ (UNCHANGED Best \/ UNCHANGED bound)
<1>1. NodeFrame(t) /\ NodeTypes /\ NodeTypes'
  BY NodeStepFrame DEF NodeFrame, Inv, SInv
<1>2. Best' \in [NBlocks -> P!F]
  <2>1. Best' = BestOf(g', open')
    BY DEF Best, BestOf, GetFPrime
  <2>2. QED
    BY <1>1, <2>1, BestOfType DEF NodeTypes, P!F
<1>3. ASSUME NEW b \in NBlocks, Best'[b] # Best[b]
      PROVE  b \in P!Scope(cur[t])
  BY <1>1, <1>3, BestIsLocal DEF NodeFrame
<1>4. UNCHANGED <<g, open>> => UNCHANGED Best
  BY DEF Best, GetFPrime
<1>5. UNCHANGED <<P!graphVars, done, mutex, waiting, 0, cur, want>>
  BY <1>1 DEF NodeFrame, graphSide, graphVars, P!graphVars
<1>6. QED
  BY <1>1, <1>2, <1>3, <1>4, <1>5 DEF NodeFrame, P!ClientStep, P!F

-----------------------------------------------------------------------------
(***************************************************************************)
(* Steps on nodes, for the search                                          *)
(***************************************************************************)

\* g changes in one way only: a child is a cheaper node of its state, and
\* the node that it is a child of is another one.
Cheaper(t) ==
  \E k \in kids[t] :
    /\ pc[t] = "expand" /\ k.to # k.from
    /\ k.g < g[k.to] /\ g' = [g EXCEPT ![k.to] = k.g]

LEMMA CostSteps ==
  ASSUME Inv, NEW t \in Threads, NodeStep(t)
  PROVE  UNCHANGED g \/ Cheaper(t)
<1>1. CASE FindGoalChild(t) \/ KeepChild(t)
  <2>1. PICK k \in kids[t] :
          k.g < g[k.to] /\ g' = [g EXCEPT ![k.to] = k.g]
    BY <1>1 DEF FindGoalChild, KeepChild
  <2>2. PICK e \in Edges[k.from] : k.to = e.to /\ k.g = g[k.from] + e.cost
    BY ChildInScope
  <2>3. pc[t] = "expand" /\ k.from \in States /\ k.to \in States
    BY ChildInScope
  <2>4. e.cost \in Nat /\ g[k.from] \in Nat
    BY <2>3, SpaceAssumption DEF Inv, SInv, NodeTypes
  <2>5. k.to # k.from
    BY <2>1, <2>2, <2>4
  <2>6. QED
    BY <2>1, <2>3, <2>5 DEF Cheaper
<1>2. CASE UNCHANGED g
  BY <1>2
<1>3. QED
  BY <1>1, <1>2
  DEF NodeStep, DropNodes, FindGoal, ExpandNode, DropChild, PathStep,
      EndExpand, SeeSolution, GetBestPath, SetBound, nodeVars

\* The costs of the nodes only fall.
LEMMA CostsFall ==
  ASSUME Inv, NEW t \in Threads, NodeStep(t), NEW s \in States
  PROVE  g'[s] \in Nat /\ g'[s] <= g[s]
<1>1. g \in [States -> Nat]
  BY DEF Inv, SInv, NodeTypes
<1>2. CASE UNCHANGED g
  BY <1>1, <1>2
<1>3. CASE Cheaper(t)
  <2>1. PICK k \in kids[t] : k.g < g[k.to] /\ g' = [g EXCEPT ![k.to] = k.g]
    BY <1>3 DEF Cheaper
  <2>2. k.to \in States /\ k.g \in Nat /\ g[k.to] \in Nat
    BY ChildType DEF Inv, SInv
  <2>3. QED
    BY <1>1, <2>1, <2>2
<1>4. QED
  BY <1>2, <1>3, CostSteps

\* What a step on nodes does to the children of its own thread.
LEMMA OwnKids ==
  ASSUME Inv, NEW t \in Threads, NodeStep(t)
  PROVE  \/ /\ kids'[t] = {}
         \/ /\ kids'[t] \subseteq kids[t] /\ pc[t] = "expand" /\ pc'[t] = "expand"
         \/ /\ pc'[t] = "expand" /\ UNCHANGED g
            /\ \E s \in States :
                 /\ Project[s] = cur[t]
                 /\ kids'[t] = {[to |-> e.to, from |-> s, g |-> g[s] + e.cost] :
                                  e \in Edges[s]}
<1> USE DEF Inv, SInv
<1>1. pc[t] # "expand" => kids[t] = {}
  BY DEF KidsExact
<1>2. /\ kids \in [Threads -> SUBSET Child] /\ open \subseteq States
      /\ pc \in [Threads -> P!PCs]
  BY DEF NodeTypes, GInv, P!IInv, P!TypeOK
<1>3. CASE DropNodes(t) \/ FindGoal(t)
  BY <1>1, <1>3 DEF DropNodes, FindGoal
<1>4. CASE ExpandNode(t)
  BY <1>2, <1>4 DEF ExpandNode, Leave
<1>5. CASE DropChild(t) \/ KeepChild(t)
  BY <1>2, <1>5 DEF DropChild, KeepChild
<1>6. CASE FindGoalChild(t)
  BY <1>2, <1>6 DEF FindGoalChild
<1>7. CASE PathStep(t)
  BY <1>1, <1>7 DEF PathStep, EndExpand, SeeSolution, GetBestPath, SetBound
<1>8. QED
  BY <1>3, <1>4, <1>5, <1>6, <1>7 DEF NodeStep

LEMMA OthersKeep ==
  ASSUME Inv, NEW t \in Threads, NodeStep(t), NEW u \in Threads, u # t
  PROVE  pc'[u] = pc[u] /\ cur'[u] = cur[u] /\ kids'[u] = kids[u] /\ sol'[u] = sol[u]
<1>1. NodeFrame(t)
  BY NodeStepFrame
<1>2. pc \in [Threads -> P!PCs]
  BY DEF Inv, GInv, P!IInv, P!TypeOK
<1>3. QED
  BY <1>1, <1>2 DEF NodeFrame, graphSide

LEMMA KidsStayExact ==
  ASSUME Inv, NEW t \in Threads, NodeStep(t)
  PROVE  KidsExact'
<1> USE DEF Inv, SInv
<1>1. NodeFrame(t) /\ cur' = cur
  BY NodeStepFrame DEF NodeFrame, graphSide
<1>2. ASSUME NEW u \in Threads, u # t, NEW k \in kids'[u]
      PROVE  /\ pc'[u] = "expand" /\ Project[k.from] = cur'[u]
             /\ \E e \in Edges[k.from] : k.to = e.to /\ k.g = g'[k.from] + e.cost
             /\ \A l \in kids'[u] : l.from = k.from
  <2>1. /\ pc'[u] = pc[u] /\ kids'[u] = kids[u]
    BY <1>2, OthersKeep
  <2>2. /\ pc[u] = "expand" /\ Project[k.from] = cur[u]
        /\ \E e \in Edges[k.from] : k.to = e.to /\ k.g = g[k.from] + e.cost
        /\ \A l \in kids[u] : l.from = k.from
    BY <1>2, <2>1 DEF KidsExact
  <2>3. k.from \in States
    BY <1>2, <2>1, ChildType
  <2>4. cur[u] \in NBlocks
    BY <2>2, <2>3, SearchAssumption
  <2>5. pc[t] \in {"body", "expand", "loop", "see", "get", "cas"}
    BY <1>1 DEF NodeFrame, P!Outside
  <2>6. cur[u] \notin P!Scope(cur[t])
    BY <1>2, <2>4, <2>5, OwnerFacts
  <2>7. g'[k.from] = g[k.from]
    BY <1>1, <2>2, <2>3, <2>6 DEF NodeFrame
  <2>8. QED
    BY <1>1, <2>1, <2>2, <2>7
<1>3. ASSUME NEW k \in kids'[t]
      PROVE  /\ pc'[t] = "expand" /\ Project[k.from] = cur'[t]
             /\ \E e \in Edges[k.from] : k.to = e.to /\ k.g = g'[k.from] + e.cost
             /\ \A l \in kids'[t] : l.from = k.from
  <2>1. CASE kids'[t] \subseteq kids[t] /\ pc[t] = "expand" /\ pc'[t] = "expand"
    <3>1. /\ k \in kids[t] /\ Project[k.from] = cur[t]
          /\ \E e \in Edges[k.from] : k.to = e.to /\ k.g = g[k.from] + e.cost
          /\ \A l \in kids'[t] : l.from = k.from
      BY <1>3, <2>1 DEF KidsExact
    <3>2. g'[k.from] = g[k.from]
      <4>1. CASE Cheaper(t)
        <5>1. PICK c \in kids[t] :
                c.to # c.from /\ g' = [g EXCEPT ![c.to] = c.g]
          BY <4>1 DEF Cheaper
        <5>2. c.from = k.from
          BY <3>1, <5>1 DEF KidsExact
        <5>3. QED
          BY <5>1, <5>2 DEF NodeTypes
      <4>2. QED
        BY <4>1, CostSteps
    <3>3. QED
      BY <1>1, <2>1, <3>1, <3>2
  <2>2. ASSUME pc'[t] = "expand", UNCHANGED g, NEW s \in States, Project[s] = cur[t],
               kids'[t] = {[to |-> e.to, from |-> s, g |-> g[s] + e.cost] :
                             e \in Edges[s]}
        PROVE  /\ Project[k.from] = cur'[t]
               /\ \E e \in Edges[k.from] : k.to = e.to /\ k.g = g'[k.from] + e.cost
               /\ \A l \in kids'[t] : l.from = k.from
    BY <1>1, <1>3, <2>2
  <2>3. QED
    BY <1>3, <2>1, <2>2, OwnKids
<1>4. QED
  BY <1>2, <1>3 DEF KidsExact

\* A child is a continued path, which is not better than what is possible.
LEMMA ChildIsReal ==
  ASSUME Inv, NEW t \in Threads, NEW k \in kids[t]
  PROVE  CostToGo[Start] <= k.g + CostToGo[k.to]
<1>1. k.from \in States /\ k.to \in States
  BY ChildInScope
<1>2. PICK e \in Edges[k.from] : k.to = e.to /\ k.g = g[k.from] + e.cost
  BY ChildInScope
<1>3. CostToGo[k.from] <= e.cost + CostToGo[k.to]
  BY <1>1, <1>2, CostToGoEdge
<1>4. CostToGo[Start] <= g[k.from] + CostToGo[k.from]
  BY <1>1 DEF Inv, SInv, CostsReal
<1>5. /\ CostToGo[Start] \in Nat /\ CostToGo[k.from] \in Nat
      /\ CostToGo[k.to] \in Nat /\ e.cost \in Nat /\ g[k.from] \in Nat
  BY <1>1, CostToGoType, SpaceAssumption DEF Inv, SInv, NodeTypes
<1>6. QED
  BY <1>2, <1>3, <1>4, <1>5

LEMMA MinOfTwo ==
  ASSUME NEW x \in Nat, NEW y \in Nat
  PROVE  Min({x, y}) \in {x, y} /\ Min({x, y}) <= x /\ Min({x, y}) <= y
BY MinIsLeast

\* What the steps of publishing do to the path of their thread, and to the
\* stream.
LEMMA PathSteps ==
  ASSUME Inv, NEW t \in Threads, NodeStep(t)
  PROVE  \/ /\ pc'[t] \notin {"see", "cas"} /\ pc[t] # "see"
            /\ UNCHANGED solution /\ UNCHANGED bound
         \/ /\ pc[t] = "cas" /\ pc'[t] \notin {"see", "cas"}
            /\ UNCHANGED solution /\ bound' \in {bound, sol[t]}
         \/ /\ pc[t] = "see" /\ pc'[t] = "get" /\ UNCHANGED bound
            /\ solution' \in {solution, sol[t]}
            /\ solution' <= solution /\ solution' <= sol[t]
         \/ /\ pc[t] = "get" /\ pc'[t] = "cas" /\ UNCHANGED <<solution, bound>>
            /\ sol'[t] = solution
         \/ /\ pc[t] \in {"body", "expand"} /\ pc'[t] = "see"
            /\ UNCHANGED <<solution, bound>>
            /\ \/ \E s \in Goals : sol'[t] = g[s]
               \/ \E k \in kids[t] : k.to \in Goals /\ sol'[t] = k.g
<1>1. /\ pc \in [Threads -> P!PCs] /\ bound \in Nat
      /\ sol \in [Threads -> Nat] /\ solution \in Nat
  BY SpaceAssumption DEF Inv, SInv, NodeTypes, GInv, P!IInv, P!TypeOK, P!F
<1>2. CASE DropNodes(t) \/ ExpandNode(t) \/ DropChild(t) \/ KeepChild(t)
  BY <1>1, <1>2 DEF DropNodes, ExpandNode, DropChild, KeepChild, Leave
<1>3. CASE FindGoal(t) \/ FindGoalChild(t)
  BY <1>1, <1>3 DEF FindGoal, FindGoalChild, ReturnPath, Leave
<1>4. CASE EndExpand(t) \/ GetBestPath(t)
  BY <1>1, <1>4 DEF EndExpand, GetBestPath, Leave
<1>5. CASE SeeSolution(t)
  BY <1>1, <1>5, MinOfTwo DEF SeeSolution, Leave
<1>6. CASE SetBound(t)
  BY <1>1, <1>6, MinOfTwo DEF SetBound, Leave
<1>7. QED
  BY <1>2, <1>3, <1>4, <1>5, <1>6 DEF NodeStep, PathStep

LEMMA CostsStayReal ==
  ASSUME Inv, NEW t \in Threads, NodeStep(t)
  PROVE  CostsReal'
<1> USE DEF Inv, SInv
<1>1. CostsReal /\ CostToGo[Start] \in Nat
  BY CostToGoType, SpaceAssumption
<1>2. \A s \in Goals : CostToGo[s] = 0 /\ s \in States
  BY CostToGoBound, SpaceAssumption
<1>3. ASSUME NEW s \in States
      PROVE  CostToGo[Start] <= g'[s] + CostToGo[s]
  <2>1. CASE g'[s] = g[s]
    BY <1>1, <2>1 DEF CostsReal
  <2>2. CASE Cheaper(t) /\ g'[s] # g[s]
    <3>1. PICK k \in kids[t] : g' = [g EXCEPT ![k.to] = k.g]
      BY <2>2 DEF Cheaper
    <3>2. s = k.to /\ g'[s] = k.g
      BY <2>2, <3>1 DEF NodeTypes
    <3>3. QED
      BY <3>2, ChildIsReal
  <2>3. QED
    BY <2>1, <2>2, CostSteps
<1>4. \A s \in Goals : CostToGo[Start] <= g[s]
  BY <1>1, <1>2 DEF CostsReal, NodeTypes
<1>5. \A k \in kids[t] : k.to \in Goals => CostToGo[Start] <= k.g
  BY <1>2, ChildIsReal, ChildType
<1>6. \A u \in Threads : pc'[u] \in {"see", "cas"} => CostToGo[Start] <= sol'[u]
  <2>1. ASSUME NEW u \in Threads, u # t, pc'[u] \in {"see", "cas"}
        PROVE  CostToGo[Start] <= sol'[u]
    BY <1>1, <2>1, OthersKeep DEF CostsReal
  <2>2. ASSUME pc'[t] \in {"see", "cas"}
        PROVE  CostToGo[Start] <= sol'[t]
    BY <1>1, <1>4, <1>5, <2>2, PathSteps DEF CostsReal
  <2>3. QED
    BY <2>1, <2>2
<1>7. CostToGo[Start] <= solution'
  BY <1>1, PathSteps DEF CostsReal
<1>8. QED
  BY <1>3, <1>6, <1>7 DEF CostsReal

LEMMA BoundStaysJustified ==
  ASSUME Inv, NEW t \in Threads, NodeStep(t)
  PROVE  BoundJustified'
<1> USE DEF Inv, SInv
<1>1. BoundJustified /\ solution \in Nat /\ bound \in Nat
  BY SpaceAssumption DEF NodeTypes, GInv, P!IInv, P!TypeOK, P!F
<1>2. NodeTypes' /\ bound' \in Nat
  BY NodeStepFrame, SpaceAssumption DEF NodeFrame
<1>3. solution' \in Nat /\ solution' <= solution
  BY <1>1, <1>2, PathSteps DEF NodeTypes
<1>4. solution' <= bound'
  BY <1>1, <1>3, PathSteps DEF BoundJustified
<1>5. ASSUME NEW u \in Threads, pc'[u] = "cas"
      PROVE  solution' <= sol'[u]
  <2>1. CASE u = t
    BY <1>3, <1>5, <2>1, PathSteps
  <2>2. CASE u # t
    <3>1. pc[u] = "cas" /\ sol'[u] = sol[u]
      BY <1>5, <2>2, OthersKeep
    <3>2. solution <= sol[u] /\ sol[u] \in Nat
      BY <1>1, <3>1 DEF BoundJustified, NodeTypes
    <3>3. QED
      BY <1>1, <1>3, <3>1, <3>2
  <2>3. QED
    BY <2>1, <2>2
<1>6. QED
  BY <1>4, <1>5 DEF BoundJustified

LEMMA NodeStepInvariant ==
  ASSUME Inv, NEW t \in Threads, NodeStep(t)
  PROVE  Inv'
<1>1. NodeFrame(t)
  BY NodeStepFrame
<1>2. P!IInv'
  BY NodeStepIsClient, GraphAssumption, P!ClientInvariant DEF Inv, GInv
<1>3. ~done /\ ~search_done
  <2>1. pc[t] \in {"body", "expand", "loop", "see", "get", "cas"}
    BY <1>1 DEF NodeFrame, P!Outside
  <2>2. QED
    BY <2>1, OwnerFacts DEF Inv, SInv, EndSeen
<1>4. P!NothingLeft' /\ EndSeen'
  BY <1>1, <1>3 DEF NodeFrame, graphSide, P!NothingLeft, EndSeen
<1>5. QED
  BY <1>1, <1>2, <1>4, KidsStayExact, CostsStayReal, BoundStaysJustified
  DEF Inv, GInv, SInv, NodeFrame

-----------------------------------------------------------------------------
(***************************************************************************)
(* The invariant, for any heuristic                                        *)
(***************************************************************************)

LEMMA InvInit ==
  ASSUME WInit
  PROVE  Inv
<1>1. /\ variant \in Variants /\ search_done = FALSE
      /\ g = [s \in States |-> IF s = Start THEN 0 ELSE Infinity]
      /\ open = {Start} /\ kids = [t \in Threads |-> {}]
      /\ sol = [t \in Threads |-> Infinity] /\ solution = Infinity
      /\ G!Init
  BY DEF WInit, Init, Variants
<1>2. P!Init
  BY <1>1, SameInit
<1>3. P!IInv /\ P!NothingLeft
  BY <1>2, GraphAssumption, P!InitInvariant DEF P!NothingLeft, P!Init
<1>4. bound = Infinity /\ \A t \in Threads : pc[t] = "next"
  BY <1>2 DEF P!Init
<1>5. NodeTypes
  <2>1. g \in [States -> Nat] /\ g[Start] = 0 /\ open \subseteq States
    BY <1>1, SpaceAssumption
  <2>2. /\ kids \in [Threads -> SUBSET Child] /\ sol \in [Threads -> Nat]
        /\ solution \in 0..Infinity
    BY <1>1, SpaceAssumption
  <2>3. QED
    BY <1>1, <2>1, <2>2 DEF NodeTypes
<1>6. CostsReal
  <2>1. \A s \in States : /\ CostToGo[s] \in Nat /\ CostToGo[s] <= Infinity
                          /\ (g[s] = 0 /\ s = Start) \/ g[s] = Infinity
    BY <1>1, CostToGoType, CostToGoBound
  <2>2. CostToGo[Start] \in Nat /\ CostToGo[Start] <= Infinity /\ Infinity \in Nat
    BY <2>1, SpaceAssumption
  <2>3. \A s \in States : CostToGo[Start] <= g[s] + CostToGo[s]
    BY <2>1, <2>2
  <2>4. QED
    BY <1>1, <1>4, <2>2, <2>3 DEF CostsReal
<1>7. KidsExact /\ BoundJustified /\ EndSeen
  BY <1>1, <1>4, SpaceAssumption DEF KidsExact, BoundJustified, EndSeen
<1>8. QED
  BY <1>3, <1>5, <1>6, <1>7 DEF Inv, GInv, SInv

LEMMA InvStutter ==
  ASSUME Inv, UNCHANGED wvars
  PROVE  Inv' /\ Bystander
<1>1. /\ Bystander /\ UNCHANGED <<search_done, done>>
  BY DEF wvars, vars, nodeVars, threadVars, Bystander
<1>2. UNCHANGED Best
  BY <1>1 DEF Bystander, Best, GetFPrime
<1>3. UNCHANGED P!vars
  BY <1>2 DEF wvars, vars, graphVars, threadVars, P!vars, P!graphVars
<1>4. P!IInv' /\ P!NothingLeft'
  BY <1>3, GraphAssumption, P!StutterInvariant
  DEF Inv, GInv, P!NothingLeft, P!vars, P!graphVars, P!Empty, P!Hopeless
<1>5. search_done \in BOOLEAN
  BY DEF Inv, SInv, NodeTypes
<1>6. QED
  BY <1>1, <1>4, <1>5, BystanderKeeps DEF Inv, GInv, SInv, EndSeen

LEMMA InvStep ==
  ASSUME G!NoIsolatedBlock, Inv, [WNext]_wvars
  PROVE  Inv'
BY SearchStepKinds, GraphMoveInvariant, NodeStepInvariant, InvStutter

LEMMA InvHolds ==
  ASSUME G!NoIsolatedBlock
  PROVE  WSpec => []Inv
<1>1. WInit => Inv
  BY InvInit
<1>2. Inv /\ [WNext]_wvars => Inv'
  BY InvStep
<1>3. QED
  BY <1>1, <1>2, PTL DEF WSpec

(***************************************************************************)
(* Two threads of a search never have a block of nodes in common, if the   *)
(* projection has no isolated blocks: each expands nodes and looks up      *)
(* duplicates, without a lock, in open and closed lists that are its own   *)
(* for the time.                                                           *)
(***************************************************************************)
THEOREM ListsAreNotShared ==
  ASSUME G!NoIsolatedBlock
  PROVE  WSpec => []G!ScopesDisjoint
<1>1. Inv => G!ScopesDisjoint
  <2>1. Inv => P!ScopesDisjoint
    BY GraphAssumption, P!UsedScopesDisjoint DEF Inv, GInv
  <2>2. QED
    BY <2>1 DEF G!ScopesDisjoint, P!ScopesDisjoint, G!Scope, P!Scope
<1>2. QED
  BY <1>1, InvHolds, PTL

\* The incumbent is not better than a cheapest solution.
SolutionIsReal == CostToGo[Start] <= solution

\* No solution is reported that is better than a cheapest one: with stale
\* bounds and nodes that are updated while others are expanded, every g is
\* still the cost of a path.
THEOREM SolutionsAreReal ==
  ASSUME G!NoIsolatedBlock
  PROVE  WSpec => []SolutionIsReal
<1>1. Inv => SolutionIsReal
  BY DEF Inv, SInv, CostsReal, SolutionIsReal
<1>2. QED
  BY <1>1, InvHolds, PTL

(***************************************************************************)
(* PBNF and WPBNF implement the reservation of blocks, with nodes in the   *)
(* place of the best values: what happens to nodes is work on a scope that *)
(* is reserved, and the search ends only when nothing is reserved and no   *)
(* node is left that could improve on the incumbent.                       *)
(***************************************************************************)
THEOREM SearchImplementsReservation ==
  ASSUME G!NoIsolatedBlock
  PROVE  WSpec => ReservationSpec
<1>1. WInit => Reservation!Init
  <2> SUFFICES ASSUME WInit
               PROVE  Reservation!Init
    OBVIOUS
  <2>1. P!Init
    BY SameInit DEF WInit, Init
  <2>2. QED
    BY <2>1 DEF P!Init, Reservation!Init
<1>2. Inv /\ [WNext]_wvars => [Reservation!Next]_(Reservation!vars)
  <2> SUFFICES ASSUME Inv, [WNext]_wvars
               PROVE  Reservation!Next \/ UNCHANGED <<cur, Best, bound, done>>
    BY DEF Reservation!vars
  <2>1. P!NoIsolatedBlock
    BY SameIsolation
  <2>2. P!Reservation!Next => Reservation!Next
    BY DEF P!Reservation!Next, Reservation!Next, P!Reservation!Reserve,
       Reservation!Reserve, P!Reservation!Work, Reservation!Work,
       P!Reservation!Improve, Reservation!Improve, P!Reservation!Return,
       Reservation!Return, P!Reservation!Declare, Reservation!Declare,
       P!Reservation!Scope, Reservation!Scope, P!Reservation!Values,
       Reservation!Values
  <2>3. ASSUME NEW t \in Threads, GraphMove(t)
        PROVE  P!Reservation!Next \/ UNCHANGED <<cur, Best, bound, done>>
    BY <2>1, <2>3, GraphMoveInvariant, GraphAssumption, P!NextRefines
    DEF Inv, GInv
  <2>4. ASSUME NEW t \in Threads, NodeStep(t)
        PROVE  P!Reservation!Next \/ UNCHANGED <<cur, Best, bound, done>>
    BY <2>4, NodeStepIsClient, GraphAssumption, P!ClientRefines DEF Inv, GInv
  <2>5. ASSUME UNCHANGED wvars
        PROVE  UNCHANGED <<cur, Best, bound, done>>
    BY <2>5 DEF wvars, vars, nodeVars, threadVars, Best, GetFPrime
  <2>6. QED
    BY <2>2, <2>3, <2>4, <2>5, SearchStepKinds
<1>3. QED
  BY <1>1, <1>2, InvHolds, PTL DEF WSpec, ReservationSpec, Reservation!Spec

-----------------------------------------------------------------------------
(***************************************************************************)
(* No promising node is forgotten                                          *)
(***************************************************************************)

LEMMA FactorMonotone ==
  ASSUME NodeTypes, NEW x \in Nat, NEW y \in Nat, x <= y
  PROVE  /\ Factor * x <= Factor * y /\ y <= Factor * y
         /\ Factor * x \in Nat /\ Factor * y \in Nat
<1>1. Factor \in Nat /\ Factor * y \in Nat /\ y <= Factor * y
  BY FactorType
<1>2. y - x \in Nat /\ y = x + (y - x)
  OBVIOUS
<1>3. /\ Factor * x \in Nat /\ Factor * (y - x) \in Nat
      /\ Factor * y = Factor * x + Factor * (y - x)
  BY <1>1, <1>2
<1>4. QED
  BY <1>1, <1>3

\* A promising node is too dear only if a good solution is known.
LEMMA TooDearFound ==
  ASSUME Admissible, Inv, NEW s \in States, NEW v \in Nat, Promises(s, v),
         TooDear(v + H[s])
  PROVE  Found
<1>1. v + H[s] <= CostToGo[Start]
  BY PromisesBound
<1>2. /\ v + H[s] \in Nat /\ CostToGo[Start] \in Nat
      /\ bound \in Nat /\ solution \in Nat
  BY CostToGoType, SpaceAssumption
  DEF Inv, SInv, NodeTypes, GInv, P!IInv, P!TypeOK, P!F
<1>3. /\ Factor * (v + H[s]) <= Factor * CostToGo[Start]
      /\ Factor * (v + H[s]) \in Nat /\ Factor * CostToGo[Start] \in Nat
  BY <1>1, <1>2, FactorMonotone DEF Inv, SInv
<1>4. bound <= Factor * (v + H[s])
  BY <1>2, <1>3 DEF TooDear
<1>5. solution <= bound
  BY DEF Inv, SInv, BoundJustified
<1>6. QED
  BY <1>2, <1>3, <1>4, <1>5 DEF Found

\* A good solution is not lost.
LEMMA FoundStays ==
  ASSUME Inv, NEW t \in Threads, NodeStep(t), Found
  PROVE  Found'
<1>1. /\ Factor' = Factor /\ Factor * CostToGo[Start] \in Nat
      /\ solution \in Nat /\ solution' \in Nat /\ sol \in [Threads -> Nat]
  <2>1. NodeTypes /\ NodeTypes' /\ variant' = variant
    BY NodeStepFrame DEF NodeFrame, graphSide, Inv, SInv
  <2>2. CostToGo[Start] \in Nat /\ Infinity \in Nat
    BY CostToGoType, SpaceAssumption
  <2>3. QED
    BY <2>1, <2>2, FactorType DEF Factor, NodeTypes
<1>2. solution' <= solution
  BY <1>1, PathSteps DEF Inv, SInv, NodeTypes
<1>3. CASE solution <= Factor * CostToGo[Start]
  BY <1>1, <1>2, <1>3 DEF Found
<1>4. ASSUME NEW u \in Threads, pc[u] = "see", sol[u] <= Factor * CostToGo[Start]
      PROVE  Found'
  <2>1. CASE u # t
    BY <1>1, <1>4, <2>1, OthersKeep DEF Found
  <2>2. CASE u = t
    <3>1. solution' <= sol[t]
      BY <1>4, <2>2, PathSteps
    <3>2. QED
      BY <1>1, <1>4, <2>2, <3>1 DEF Found
  <2>3. QED
    BY <2>1, <2>2
<1>5. QED
  BY <1>3, <1>4 DEF Found

\* A promising path that a thread goes to publish is a good one.
LEMMA PromiseIsFound ==
  ASSUME Inv, NEW t \in Threads, NodeStep(t), pc'[t] = "see",
         sol'[t] \in Nat, sol'[t] <= CostToGo[Start]
  PROVE  Found'
<1>1. NodeTypes' /\ variant' = variant
  BY NodeStepFrame DEF NodeFrame, graphSide
<1>2. NodeTypes /\ CostToGo[Start] \in Nat
  BY CostToGoType, SpaceAssumption DEF Inv, SInv
<1>3. CostToGo[Start] <= Factor * CostToGo[Start] /\ Factor * CostToGo[Start] \in Nat
  BY <1>2, FactorType
<1>4. Factor' = Factor
  BY <1>1 DEF Factor
<1>5. sol'[t] <= Factor' * CostToGo[Start]
  BY <1>2, <1>3, <1>4
<1>6. QED
  BY <1>5 DEF Found

\* The children of an expanded node stay known, unless the step is about one
\* of them.
LEMMA ExpandedStays ==
  ASSUME NEW s \in States, Expanded(s), g'[s] = g[s],
         \A e \in Edges[s] : Promises(e.to, g[s] + e.cost) /\ Known(s, e)
                               => Known(s, e)'
  PROVE  Expanded(s)'
BY DEF Expanded

LEMMA ExpandForgetsNothing ==
  ASSUME Inv, NEW t \in Threads, ExpandNode(t), NEW s \in States,
         s \in open \/ Expanded(s)
  PROVE  s \in open' \/ Expanded(s)'
<1>1. PICK x \in open \ Goals :
        /\ open' = open \ {x}
        /\ kids' = [kids EXCEPT ![t] =
                      {[to |-> e.to, from |-> x, g |-> g[x] + e.cost] :
                         e \in Edges[x]}]
  BY DEF ExpandNode
<1>2. g' = g /\ kids \in [Threads -> SUBSET Child] /\ kids[t] = {}
  BY DEF ExpandNode, Inv, SInv, NodeTypes, KidsExact
<1>3. ASSUME NEW e \in Edges[x] PROVE Known(x, e)'
  <2> DEFINE k == [to |-> e.to, from |-> x, g |-> g[x] + e.cost]
  <2>1. k \in kids'[t]
    BY <1>1, <1>2
  <2>2. k.from = x /\ k.to = e.to /\ k.g = g'[x] + e.cost
    BY <1>2
  <2>3. QED
    BY <2>1, <2>2 DEF Known
<1>4. CASE s = x
  BY <1>1, <1>3, <1>4 DEF Expanded
<1>5. CASE s # x /\ s \in open
  BY <1>1, <1>5
<1>6. CASE Expanded(s)
  <2>1. \A u \in Threads : kids[u] \subseteq kids'[u]
    BY <1>1, <1>2
  <2>2. \A e \in Edges[s] : Known(s, e) => Known(s, e)'
    BY <1>2, <2>1 DEF Known
  <2>3. QED
    BY <1>2, <1>6, <2>2, ExpandedStays
<1>7. QED
  BY <1>4, <1>5, <1>6

LEMMA DropForgetsNothing ==
  ASSUME Admissible, Inv, NEW t \in Threads, DropChild(t), ~Found, NEW s \in States,
         s \in open \/ Expanded(s)
  PROVE  s \in open' \/ Expanded(s)'
<1>1. PICK k \in kids[t] :
        /\ TooDear(k.g + H[k.to]) \/ g[k.to] <= k.g
        /\ kids' = [kids EXCEPT ![t] = @ \ {k}]
  BY DEF DropChild
<1>2. /\ g' = g /\ open' = open /\ kids \in [Threads -> SUBSET Child]
      /\ k.to \in States /\ k.g \in Nat
  BY ChildType DEF DropChild, nodeVars, Inv, SInv, NodeTypes
<1>3. ASSUME NEW e \in Edges[s], Promises(e.to, g[s] + e.cost), Known(s, e)
      PROVE  Known(s, e)'
  <2>1. CASE k.from = s /\ k.to = e.to /\ k.g = g[s] + e.cost
    <3>1. ~TooDear(k.g + H[k.to])
      BY <1>2, <1>3, <2>1, TooDearFound
    <3>2. QED
      BY <1>1, <1>2, <2>1, <3>1 DEF Known
  <2>2. CASE ~(k.from = s /\ k.to = e.to /\ k.g = g[s] + e.cost)
    <3>1. \A u \in Threads : \A l \in kids[u] : l # k => l \in kids'[u]
      BY <1>1, <1>2
    <3>2. QED
      BY <1>2, <1>3, <2>2, <3>1 DEF Known
  <2>3. QED
    BY <2>1, <2>2
<1>4. QED
  BY <1>2, <1>3, ExpandedStays

\* The siblings of a goal among the children cannot be better than it.
LEMMA GoalForgetsNothing ==
  ASSUME GoalEdgesAreShortest, Inv, NEW t \in Threads, FindGoalChild(t),
         NodeStep(t), ~Found', NEW s \in States, Promises(s, g'[s]),
         Promises(s, g[s]) => s \in open \/ Expanded(s)
  PROVE  s \in open' \/ Expanded(s)'
<1>1. PICK k \in kids[t] :
        /\ k.to \in Goals /\ k.g < g[k.to]
        /\ g' = [g EXCEPT ![k.to] = k.g]
        /\ ReturnPath(t, k.g)
  BY DEF FindGoalChild
<1>2. /\ open' = open /\ kids' = [kids EXCEPT ![t] = {}]
      /\ kids \in [Threads -> SUBSET Child] /\ g \in [States -> Nat]
      /\ sol \in [Threads -> Nat] /\ pc \in [Threads -> P!PCs]
  BY DEF FindGoalChild, Inv, SInv, NodeTypes, GInv, P!IInv, P!TypeOK
<1>3. k.to \in States /\ k.from \in States /\ k.g \in Nat /\ g[k.to] \in Nat
  BY ChildType DEF Inv, SInv
<1>4. pc'[t] = "see" /\ sol'[t] = k.g
  BY <1>1, <1>2 DEF ReturnPath, Leave
<1>5. ~(k.g <= CostToGo[Start])
  BY <1>3, <1>4, PromiseIsFound
<1>6. s # k.to
  <2>1. ASSUME s = k.to PROVE FALSE
    <3>1. Promises(k.to, k.g)
      BY <1>1, <1>2, <1>3, <2>1
    <3>2. k.g + CostToGo[k.to] <= CostToGo[Start]
      BY <1>3, <3>1, PromisesCost
    <3>3. CostToGo[k.to] \in Nat /\ CostToGo[Start] \in Nat
      BY <1>3, CostToGoType, SpaceAssumption
    <3>4. QED
      BY <1>3, <1>5, <3>2, <3>3
  <2>2. QED
    BY <2>1
<1>7. g'[s] = g[s] /\ (s \in open \/ Expanded(s))
  BY <1>1, <1>2, <1>6
<1>8. k.from # s
  <2>1. ASSUME k.from = s PROVE FALSE
    <3>1. PICK e \in Edges[s] : k.to = e.to /\ k.g = g[s] + e.cost
      BY <2>1, ChildInScope
    <3>2. e.cost = CostToGo[s]
      BY <1>1, <3>1 DEF GoalEdgesAreShortest
    <3>3. g[s] + CostToGo[s] <= CostToGo[Start]
      BY <1>2, <1>7, PromisesCost
    <3>4. QED
      BY <1>5, <3>1, <3>2, <3>3
  <2>2. QED
    BY <2>1
<1>9. ASSUME NEW e \in Edges[s], Known(s, e)
      PROVE  Known(s, e)'
  <2>1. CASE g[e.to] <= g[s] + e.cost
    <3>1. g'[e.to] \in Nat /\ g'[e.to] <= g[e.to] /\ e.to \in States
      BY SpaceAssumption, CostsFall
    <3>2. g[e.to] \in Nat /\ g[s] \in Nat /\ e.cost \in Nat
      BY <1>2, <3>1, SpaceAssumption
    <3>3. QED
      BY <1>7, <2>1, <3>1, <3>2 DEF Known
  <2>2. ASSUME NEW u \in Threads, NEW l \in kids[u],
               l.from = s, l.to = e.to, l.g = g[s] + e.cost
        PROVE  Known(s, e)'
    <3>1. u # t
      BY <1>8, <2>2 DEF Inv, SInv, KidsExact
    <3>2. l \in kids'[u]
      BY <1>2, <2>2, <3>1
    <3>3. QED
      BY <1>7, <2>2, <3>2 DEF Known
  <2>3. QED
    BY <1>9, <2>1, <2>2 DEF Known
<1>10. QED
  BY <1>2, <1>7, <1>9, ExpandedStays

LEMMA KeepForgetsNothing ==
  ASSUME Inv, NEW t \in Threads, KeepChild(t), NodeStep(t), variant # "wpbnfdd",
         NEW s \in States, Promises(s, g'[s]),
         Promises(s, g[s]) => s \in open \/ Expanded(s)
  PROVE  s \in open' \/ Expanded(s)'
<1>1. PICK k \in kids[t] :
        /\ k.g < g[k.to] /\ g' = [g EXCEPT ![k.to] = k.g]
        /\ open' = open \cup {k.to}
        /\ kids' = [kids EXCEPT ![t] = @ \ {k}]
  BY DEF KeepChild
<1>2. /\ kids \in [Threads -> SUBSET Child] /\ g \in [States -> Nat]
      /\ k.to \in States /\ k.g \in Nat
  BY ChildType DEF Inv, SInv, NodeTypes
<1>3. CASE s = k.to
  BY <1>1, <1>3
<1>4. CASE s # k.to
  <2>1. g'[s] = g[s] /\ (s \in open \/ Expanded(s))
    BY <1>1, <1>2, <1>4
  <2>2. ASSUME NEW e \in Edges[s], Known(s, e)
        PROVE  Known(s, e)'
    <3>1. CASE g[e.to] <= g[s] + e.cost
      <4>1. g'[e.to] \in Nat /\ g'[e.to] <= g[e.to] /\ e.to \in States
        BY SpaceAssumption, CostsFall
      <4>2. g[e.to] \in Nat /\ g[s] \in Nat /\ e.cost \in Nat
        BY <1>2, <4>1, SpaceAssumption
      <4>3. QED
        BY <2>1, <3>1, <4>1, <4>2 DEF Known
    <3>2. ASSUME NEW u \in Threads, NEW l \in kids[u],
                 l.from = s, l.to = e.to, l.g = g[s] + e.cost
          PROVE  Known(s, e)'
      <4>1. CASE l = k
        <5>1. g'[e.to] = k.g
          BY <1>1, <1>2, <3>2, <4>1
        <5>2. g'[e.to] = g'[s] + e.cost /\ g'[e.to] \in Nat
          BY <1>2, <2>1, <3>2, <4>1, <5>1
        <5>3. QED
          BY <5>2 DEF Known
      <4>2. CASE l # k
        <5>1. l \in kids'[u]
          BY <1>1, <1>2, <3>2, <4>2
        <5>2. QED
          BY <2>1, <3>2, <5>1 DEF Known
      <4>3. QED
        BY <4>1, <4>2
    <3>3. QED
      BY <2>2, <3>1, <3>2 DEF Known
  <2>3. QED
    BY <1>1, <2>1, <2>2, ExpandedStays
<1>5. QED
  BY <1>3, <1>4

LEMMA NodeStepForgetsNothing ==
  ASSUME Admissible, GoalEdgesAreShortest, Inv, NothingForgotten,
         NEW t \in Threads, NodeStep(t)
  PROVE  NothingForgotten'
<1> SUFFICES ASSUME variant' # "wpbnfdd", ~Found', NEW s \in States,
                    Promises(s, g'[s])
             PROVE  s \in open' \/ Expanded(s)'
  BY DEF NothingForgotten
<1>1. variant' = variant /\ NodeTypes /\ NodeTypes'
  BY NodeStepFrame DEF NodeFrame, graphSide, Inv, SInv
<1>2. ~Found
  BY FoundStays
<1>3. Promises(s, g[s]) => s \in open \/ Expanded(s)
  BY <1>1, <1>2 DEF NothingForgotten
<1>4. CASE DropNodes(t)
  <2>1. UNCHANGED <<g, kids>> /\ Promises(s, g[s])
    BY <1>4 DEF DropNodes
  <2>2. PICK D \in SUBSET open : /\ open' = open \ D
                                 /\ \A o \in D : TooDear(GetF(o))
    BY <1>4 DEF DropNodes
  <2>3. ~TooDear(GetF(s))
    BY <1>1, <1>2, <2>1, TooDearFound DEF GetF, NodeTypes
  <2>4. CASE s \in open
    BY <2>2, <2>3, <2>4
  <2>5. CASE Expanded(s)
    BY <2>1, <2>5 DEF Expanded, Known
  <2>6. QED
    BY <1>3, <2>1, <2>4, <2>5
<1>5. CASE FindGoal(t)
  <2>1. UNCHANGED <<g, kids>> /\ Promises(s, g[s])
    BY <1>5 DEF FindGoal
  <2>2. PICK x \in open \cap Goals : open' = open \ {x} /\ ReturnPath(t, g[x])
    BY <1>5 DEF FindGoal
  <2>3. s # x
    <3>1. ASSUME s = x PROVE FALSE
      <4>1. pc'[t] = "see" /\ sol'[t] = g[s]
        BY <1>1, <2>2, <3>1
        DEF ReturnPath, Leave, NodeTypes, Inv, GInv, P!IInv, P!TypeOK
      <4>2. g[s] \in Nat /\ g[s] + H[s] <= CostToGo[Start]
        BY <1>1, <2>1, PromisesBound DEF NodeTypes
      <4>3. H[s] \in Nat /\ CostToGo[Start] \in Nat
        BY CostToGoType, SpaceAssumption
      <4>4. g[s] <= CostToGo[Start]
        BY <4>2, <4>3
      <4>5. QED
        BY <4>1, <4>2, <4>4, PromiseIsFound
    <3>2. QED
      BY <3>1
  <2>4. CASE s \in open
    BY <2>2, <2>3, <2>4
  <2>5. CASE Expanded(s)
    BY <2>1, <2>5 DEF Expanded, Known
  <2>6. QED
    BY <1>3, <2>1, <2>4, <2>5
<1>6. CASE ExpandNode(t)
  BY <1>3, <1>6, ExpandForgetsNothing DEF ExpandNode
<1>7. CASE DropChild(t)
  BY <1>2, <1>3, <1>7, DropForgetsNothing DEF DropChild, nodeVars
<1>8. CASE FindGoalChild(t)
  BY <1>3, <1>8, GoalForgetsNothing
<1>9. CASE KeepChild(t)
  BY <1>1, <1>3, <1>9, KeepForgetsNothing
<1>10. CASE PathStep(t)
  <2>1. UNCHANGED <<g, open, kids>> /\ Promises(s, g[s])
    BY <1>10 DEF PathStep, EndExpand, SeeSolution, GetBestPath, SetBound, nodeVars
  <2>2. QED
    BY <1>3, <2>1 DEF Expanded, Known
<1>11. QED
  BY <1>4, <1>5, <1>6, <1>7, <1>8, <1>9, <1>10 DEF NodeStep

LEMMA BystanderForgetsNothing ==
  ASSUME Inv, NothingForgotten, Bystander
  PROVE  NothingForgotten'
<1>1. Found' = Found
  BY BystanderKeeps DEF Inv
<1>2. UNCHANGED <<g, open, kids, variant>>
  BY DEF Bystander
<1>3. QED
  BY <1>1, <1>2 DEF NothingForgotten, Expanded, Known

-----------------------------------------------------------------------------
(***************************************************************************)
(* The end of the search                                                   *)
(***************************************************************************)

LEMMA NothingForgottenHolds ==
  ASSUME G!NoIsolatedBlock, Admissible, GoalEdgesAreShortest
  PROVE  WSpec => []NothingForgotten
<1>1. WInit => NothingForgotten
  <2> SUFFICES ASSUME WInit, NEW s \in States, Promises(s, g[s]),
                      ~(solution <= Factor * CostToGo[Start])
               PROVE  s \in open
    BY DEF NothingForgotten, Found
  <2>1. /\ g = [x \in States |-> IF x = Start THEN 0 ELSE Infinity]
        /\ open = {Start} /\ solution = Infinity /\ NodeTypes
    BY InvInit DEF WInit, Init, Inv, SInv
  <2>2. ASSUME s # Start PROVE FALSE
    <3>1. Infinity + CostToGo[s] <= CostToGo[Start]
      BY <2>1, <2>2, PromisesCost, SpaceAssumption
    <3>2. CostToGo[s] \in Nat /\ CostToGo[Start] \in Nat /\ Infinity \in Nat
      BY CostToGoType, SpaceAssumption
    <3>3. CostToGo[Start] <= Factor * CostToGo[Start]
          /\ Factor * CostToGo[Start] \in Nat
      BY <2>1, <3>2, FactorType
    <3>4. QED
      BY <2>1, <3>1, <3>2, <3>3
  <2>3. QED
    BY <2>1, <2>2
<1>2. Inv /\ NothingForgotten /\ [WNext]_wvars => NothingForgotten'
  BY SearchStepKinds, GraphIsBystander, InvStutter, BystanderForgetsNothing,
     NodeStepForgetsNothing
<1>3. QED
  BY <1>1, <1>2, InvHolds, PTL DEF WSpec

\* In an open list that is left at the end there is no promising node, unless
\* a good solution is known.
LEMMA LeftIsHopeless ==
  ASSUME Admissible, Inv, done, NEW s \in open, Promises(s, g[s]),
         HWeight * CostToGo[Start] < Infinity
  PROVE  Found
<1>1. NodeTypes /\ s \in States /\ Project[s] \in NBlocks
  BY SearchAssumption DEF Inv, SInv, NodeTypes
<1>2. /\ g[s] \in Nat /\ H[s] \in Nat /\ CostToGo[Start] \in Nat
      /\ Infinity \in Nat /\ HWeight \in Nat \ {0} /\ Weight \in Nat
      /\ HWeight <= Weight /\ bound \in Nat /\ solution \in Nat
      /\ solution <= bound
  BY <1>1, CostToGoType, SpaceAssumption, SearchAssumption
  DEF Inv, SInv, NodeTypes, BoundJustified, GInv, P!IInv, P!TypeOK, P!F
<1>3. GetF(s) \in Nat /\ GetF(s) <= CostToGo[Start]
  BY <1>1, <1>2, PromisesBound DEF GetF
<1>4. /\ Best[Project[s]] \in Nat
      /\ Best[Project[s]] <= HWeight * GetF(s)
  <2>1. Best[Project[s]] <= GetFPrime(s) /\ Best[Project[s]] \in 0..Infinity
    BY <1>1, BestIsLeast
  <2>2. GetFPrime(s) \in Nat /\ GetFPrime(s) <= HWeight * GetF(s)
    BY <1>1, FPrimeType
  <2>3. HWeight * GetF(s) \in Nat
    BY <1>2, <1>3
  <2>4. QED
    BY <2>1, <2>2, <2>3
<1>5. /\ GetF(s) * HWeight <= CostToGo[Start] * HWeight
      /\ GetF(s) * HWeight \in Nat /\ CostToGo[Start] * HWeight \in Nat
  BY <1>2, <1>3, GraphAssumption, P!TimesMonotone
<1>6. P!Hopeless(Project[s])
  <2>1. Best[Project[s]] # Infinity
    BY <1>2, <1>3, <1>4, <1>5
  <2>2. QED
    BY <1>1, <2>1 DEF Inv, GInv, P!NothingLeft, P!Empty
<1>7. bound * Weight \in Nat /\ bound * Weight <= GetF(s) * HWeight
  BY <1>2, <1>3, <1>4, <1>5, <1>6 DEF P!Hopeless
<1>8. bound * HWeight \in Nat /\ bound * HWeight <= GetF(s) * HWeight
  <2>1. /\ HWeight * bound <= Weight * bound
        /\ HWeight * bound \in Nat /\ Weight * bound \in Nat
    BY <1>2, GraphAssumption, P!TimesMonotone
  <2>2. QED
    BY <1>2, <1>5, <1>7, <2>1
<1>9. CASE variant = "pbnf"
  <2>1. bound <= GetF(s)
    <3>1. ASSUME GetF(s) + 1 <= bound PROVE FALSE
      <4>1. (GetF(s) + 1) * HWeight <= bound * HWeight
        BY <1>2, <1>3, <3>1, GraphAssumption, P!TimesMonotone
      <4>2. (GetF(s) + 1) * HWeight = GetF(s) * HWeight + HWeight
        BY <1>2, <1>3
      <4>3. QED
        BY <1>2, <1>5, <1>8, <4>1, <4>2
    <3>2. QED
      BY <1>2, <1>3, <3>1
  <2>2. solution <= CostToGo[Start]
    BY <1>2, <1>3, <2>1
  <2>3. Factor * CostToGo[Start] = CostToGo[Start]
    BY <1>2, <1>9 DEF Factor
  <2>4. QED
    BY <2>2, <2>3 DEF Found
<1>10. CASE variant # "pbnf"
  <2>1. bound * 1 <= bound * HWeight
    BY <1>2
  <2>2. solution <= HWeight * CostToGo[Start]
    BY <1>2, <1>5, <1>8, <2>1
  <2>3. QED
    BY <1>10, <2>2 DEF Found, Factor
<1>11. QED
  BY <1>9, <1>10

LEMMA EndIsGood ==
  ASSUME Admissible, Inv, NothingForgotten, Ended, variant # "wpbnfdd",
         CostToGo[Start] < Infinity => HWeight * CostToGo[Start] < Infinity
  PROVE  WithinWeight
<1>1. /\ NodeTypes /\ CostToGo[Start] \in Nat /\ solution \in Nat
      /\ solution <= Infinity /\ CostToGo[Start] <= Infinity /\ Infinity \in Nat
      /\ CostToGo[Start] <= solution
  BY CostToGoType, CostToGoBound, SpaceAssumption
  DEF Inv, SInv, NodeTypes, CostsReal
<1>2. done /\ \A t \in Threads : pc[t] = "ended"
  BY SearchAssumption DEF Ended, Inv, GInv, P!IInv, P!Sleepers
<1>3. Found
  <2>1. CASE CostToGo[Start] = Infinity
    BY <1>1, <2>1, FactorType DEF Found
  <2>2. CASE CostToGo[Start] < Infinity
    <3> SUFFICES ASSUME ~Found PROVE FALSE
      OBVIOUS
    <3>1. \A s \in States : Promises(s, g[s]) => Expanded(s)
      <4>1. \A s \in open : ~Promises(s, g[s])
        BY <1>2, <2>2, LeftIsHopeless
      <4>2. QED
        BY <4>1 DEF NothingForgotten
    <3>2. \A t \in Threads : kids[t] = {}
      BY <1>2 DEF Inv, SInv, KidsExact
    <3>3. \A s \in States : Promises(s, g[s]) =>
            \A e \in Edges[s] :
              Promises(e.to, g[s] + e.cost) => g[e.to] <= g[s] + e.cost
      BY <3>1, <3>2 DEF Expanded, Known
    <3>4. PICK s \in Goals : Promises(s, g[s])
      BY <1>1, <2>2, <3>3, PromiseKept DEF NodeTypes
    <3>5. s \in States
      BY SpaceAssumption
    <3>6. QED
      BY <3>1, <3>4, <3>5 DEF Expanded
  <2>3. QED
    BY <1>1, <2>1, <2>2
<1>4. solution <= Factor * CostToGo[Start]
  BY <1>2, <1>3 DEF Found
<1>5. CASE variant = "pbnf"
  BY <1>1, <1>4, <1>5 DEF Factor, WithinWeight
<1>6. CASE variant # "pbnf"
  BY <1>4, <1>6 DEF Factor, WithinWeight
<1>7. QED
  BY <1>5, <1>6

(***************************************************************************)
(* When all threads have left the search, PBNF's solution is optimal and   *)
(* WPBNF's within the weight, for any number of threads, on any domain     *)
(* with an admissible heuristic whose goals' parents are cheapest (see     *)
(* SearchSpace), and under any projection without isolated blocks.  With   *)
(* duplicate dropping it does not hold: see DroppingWithinWeight.          *)
(***************************************************************************)
THEOREM EndsWithinWeight ==
  ASSUME G!NoIsolatedBlock, Admissible, GoalEdgesAreShortest,
         CostToGo[Start] < Infinity => HWeight * CostToGo[Start] < Infinity
  PROVE  WSpec => []WithinWeight
<1>1. Inv /\ NothingForgotten => WithinWeight
  BY EndIsGood DEF WithinWeight
<1>2. QED
  BY <1>1, InvHolds, NothingForgottenHolds, PTL
-----------------------------------------------------------------------------
(***************************************************************************)
(* How solutions are published                                             *)
(*                                                                         *)
(* PBNFSearch takes set_path in two steps; Incumbent has each of them, and *)
(* the cmp_and_swap of either build.  The proofs about it are here, about  *)
(* any number of threads that publish and any costs they find.             *)
(***************************************************************************)

\* Values are numbers.
LEMMA ValuesAreNumbers == BoundValues \subseteq Nat /\ NoSolution \in BoundValues
BY IncumbentAssumption DEF BoundValues

\* The variables hold numbers.
LEMMA PublishNumbers ==
  ASSUME PublishTypes
  PROVE  /\ best \in Nat /\ atomic_bound \in Nat
         /\ \A t \in Publishers : newb[t] \in Nat /\ oldb[t] \in Nat
BY ValuesAreNumbers DEF PublishTypes

LEMMA PublishInitInv == PublishInit => PublishInv
BY ValuesAreNumbers
DEF PublishInit, PublishInv, PublishTypes, BoundIsJustified, Carried, Covered

\* The type of each variable after a step.
LEMMA PublishTypeStep == PublishTypes /\ [PublishNext]_publishVars => PublishTypes'
<1> SUFFICES ASSUME PublishTypes, [PublishNext]_publishVars PROVE PublishTypes'
  OBVIOUS
<1> USE IncumbentAssumption DEF PublishTypes, Move, BoundValues
<1>1. CASE UNCHANGED publishVars
  BY <1>1 DEF publishVars
<1>2. ASSUME NEW t \in Publishers, FindPath(t) PROVE PublishTypes'
  BY <1>2 DEF FindPath
<1>3. ASSUME NEW t \in Publishers, SeePath(t) PROVE PublishTypes'
  BY <1>3 DEF SeePath
<1>4. ASSUME NEW t \in Publishers, ReadBestPath(t) PROVE PublishTypes'
  BY <1>4 DEF ReadBestPath
<1>5. ASSUME NEW t \in Publishers, ReadBound(t) PROVE PublishTypes'
  BY <1>5 DEF ReadBound
<1>6. ASSUME NEW t \in Publishers, CompareAndSwap(t) PROVE PublishTypes'
  BY <1>6 DEF CompareAndSwap
<1>7. ASSUME NEW t \in Publishers, CompareOnly(t) PROVE PublishTypes'
  BY <1>7 DEF CompareOnly
<1>8. ASSUME NEW t \in Publishers, StoreOnly(t) PROVE PublishTypes'
  BY <1>8 DEF StoreOnly
<1>9. QED
  BY <1>1, <1>2, <1>3, <1>4, <1>5, <1>6, <1>7, <1>8 DEF PublishNext

-----------------------------------------------------------------------------
(***************************************************************************)
(* What holds with and without the lock prefix: a thread carries a cost    *)
(* that the stream has seen, and the bound is one of those.                *)
(***************************************************************************)
JustifiedInv == PublishTypes /\ BoundIsJustified /\ Carried

LEMMA JustifiedStep == JustifiedInv /\ [PublishNext]_publishVars => JustifiedInv'
<1> SUFFICES ASSUME JustifiedInv, [PublishNext]_publishVars PROVE BoundIsJustified' /\ Carried'
  BY PublishTypeStep DEF JustifiedInv
<1> USE ValuesAreNumbers DEF JustifiedInv, PublishTypes, BoundIsJustified, Carried, Move
<1>1. CASE UNCHANGED publishVars
  BY <1>1 DEF publishVars
<1>2. ASSUME NEW t \in Publishers, FindPath(t)
      PROVE  BoundIsJustified' /\ Carried'
  BY <1>2, IncumbentAssumption DEF FindPath, BoundValues
<1>3. ASSUME NEW t \in Publishers, SeePath(t)
      PROVE  BoundIsJustified' /\ Carried'
  <2>1. best' \in Nat /\ best' <= best
    BY <1>3, PublishNumbers DEF SeePath
  <2>2. BoundIsJustified'
    BY <1>3, <2>1, PublishNumbers DEF SeePath
  <2>3. ASSUME NEW u \in Publishers, at'[u] \in {"read", "cas", "store"}
        PROVE  u # t /\ at'[u] = at[u]
    BY <1>3, <2>3 DEF SeePath
  <2>4. ASSUME NEW u \in Publishers, at'[u] \in {"read", "cas", "store"}
        PROVE  best' <= newb'[u]
    <3>1. best <= newb[u] /\ newb[u] \in Nat
      BY <2>3, <2>4, PublishNumbers
    <3>2. QED
      BY <1>3, <2>1, <3>1, PublishNumbers DEF SeePath
  <2>5. QED
    BY <1>3, <2>2, <2>3, <2>4 DEF SeePath
<1>4. ASSUME NEW t \in Publishers, ReadBestPath(t)
      PROVE  BoundIsJustified' /\ Carried'
  BY <1>4 DEF ReadBestPath
<1>5. ASSUME NEW t \in Publishers, ReadBound(t)
      PROVE  BoundIsJustified' /\ Carried'
  <2>1. UNCHANGED <<locked, best, atomic_bound, newb>> /\ oldb'[t] = atomic_bound /\ at[t] = "read"
    BY <1>5 DEF ReadBound
  <2>2. best <= newb[t]
    BY <2>1
  <2>3. \A u \in Publishers : u # t => at'[u] = at[u] /\ oldb'[u] = oldb[u]
    BY <1>5 DEF ReadBound
  <2>4. /\ at'[t] \in {"search", "cas"}
        /\ at'[t] = "cas" => newb[t] < atomic_bound
    <3>1. newb[t] \in Nat /\ atomic_bound \in Nat
      BY PublishNumbers
    <3>2. QED
      BY <1>5, <3>1 DEF ReadBound
  <2>5. QED
    BY <2>1, <2>2, <2>3, <2>4
<1>6. ASSUME NEW t \in Publishers, CompareAndSwap(t)
      PROVE  BoundIsJustified' /\ Carried'
  BY <1>6 DEF CompareAndSwap
<1>7. ASSUME NEW t \in Publishers, CompareOnly(t)
      PROVE  BoundIsJustified' /\ Carried'
  BY <1>7 DEF CompareOnly
<1>8. ASSUME NEW t \in Publishers, StoreOnly(t)
      PROVE  BoundIsJustified' /\ Carried'
  BY <1>8 DEF StoreOnly
<1>9. QED
  BY <1>1, <1>2, <1>3, <1>4, <1>5, <1>6, <1>7, <1>8 DEF PublishNext

LEMMA JustifiedHolds == PublishSpec => []JustifiedInv
<1>1. PublishInit => JustifiedInv
  BY PublishInitInv DEF PublishInv, JustifiedInv
<1>2. QED
  BY <1>1, JustifiedStep, PTL DEF PublishSpec

(***************************************************************************)
(* A node is never pruned against a solution that does not exist, even     *)
(* where cmp_and_swap is not atomic (x86_64).                              *)
(***************************************************************************)
THEOREM PruningIsJustified == PublishSpec => []BoundIsJustified
<1>1. JustifiedInv => BoundIsJustified
  BY DEF JustifiedInv
<1>2. QED
  BY <1>1, JustifiedHolds, PTL

-----------------------------------------------------------------------------
(***************************************************************************)
(* With an atomic cmp_and_swap, some thread always brings the best cost to *)
(* the bound, if it is not there yet.                                      *)
(***************************************************************************)
LEMMA CoveredStep ==
  ASSUME PublishInv, [PublishNext]_publishVars
  PROVE  Covered'
<1> SUFFICES ASSUME locked PROVE Covered'
  <2>1. locked' = locked
    BY DEF PublishNext, publishVars, FindPath, SeePath, ReadBestPath, ReadBound,
           CompareAndSwap, CompareOnly, StoreOnly
  <2>2. QED
    BY <2>1 DEF Covered
<1> USE ValuesAreNumbers DEF PublishInv, PublishTypes, BoundIsJustified, Carried, Covered, Move
<1>1. CASE UNCHANGED publishVars
  BY <1>1 DEF publishVars
<1>2. ASSUME NEW t \in Publishers, FindPath(t) PROVE Covered'
  BY <1>2 DEF FindPath
<1>3. ASSUME NEW t \in Publishers, SeePath(t) PROVE Covered'
  BY <1>3 DEF SeePath
<1>4. ASSUME NEW t \in Publishers, ReadBestPath(t) PROVE Covered'
  BY <1>4 DEF ReadBestPath
<1>5. ASSUME NEW t \in Publishers, ReadBound(t) PROVE Covered'
  BY <1>5 DEF ReadBound
<1>6. ASSUME NEW t \in Publishers, CompareAndSwap(t) PROVE Covered'
  <2>1. /\ UNCHANGED <<best, newb>> /\ at[t] = "cas"
        /\ newb[t] < oldb[t] /\ best <= newb[t]
        /\ \A u \in Publishers : u # t => at'[u] = at[u]
    BY <1>6 DEF CompareAndSwap
  <2>2. CASE atomic_bound # oldb[t]
    <3>1. at'[t] = "read" /\ atomic_bound' = atomic_bound
      BY <1>6, <2>2 DEF CompareAndSwap
    <3>2. QED
      BY <2>1, <3>1
  <2>3. CASE atomic_bound = oldb[t]
    <3>1. atomic_bound' = newb[t]
      BY <1>6, <2>3 DEF CompareAndSwap
    <3>2. atomic_bound # best
      <4>1. best < oldb[t]
        BY <2>1, PublishNumbers
      <4>2. QED
        BY <2>3, <4>1, PublishNumbers
    <3>3. PICK u \in Publishers : \/ at[u] = "get"
                                  \/ at[u] \in {"read", "cas"} /\ newb[u] = best
      BY <3>2
    <3>4. CASE u = t
      <4>1. newb[t] = best
        BY <2>1, <3>3, <3>4
      <4>2. atomic_bound' = best'
        BY <2>1, <3>1, <4>1
      <4>3. QED
        BY <4>2
    <3>5. CASE u # t
      BY <2>1, <3>3, <3>5
    <3>6. QED
      BY <3>4, <3>5
  <2>4. QED
    BY <2>2, <2>3
<1>7. ASSUME NEW t \in Publishers, CompareOnly(t) \/ StoreOnly(t) PROVE Covered'
  BY <1>7 DEF CompareOnly, StoreOnly
<1>8. QED
  BY <1>1, <1>2, <1>3, <1>4, <1>5, <1>6, <1>7 DEF PublishNext

LEMMA PublishHolds == PublishSpec => []PublishInv
<1>1. PublishInv /\ [PublishNext]_publishVars => PublishInv'
  BY CoveredStep, JustifiedStep DEF PublishInv, JustifiedInv
<1>2. QED
  BY <1>1, PublishInitInv, PTL DEF PublishSpec

(***************************************************************************)
(* With an atomic cmp_and_swap: whenever no thread is in set_path, the     *)
(* bound that all threads prune with is the cost of the best solution.     *)
(***************************************************************************)
THEOREM NoUpdateIsLost == PublishSpec => []BoundIsIncumbent
<1>1. PublishInv => BoundIsIncumbent
  BY DEF PublishInv, Covered, BoundIsIncumbent
<1>2. QED
  BY <1>1, PublishHolds, PTL

(***************************************************************************)
(* With an atomic cmp_and_swap, the bound never rises.                     *)
(***************************************************************************)
THEOREM BoundOnlyImproves == PublishSpec => BoundNeverRises
<1>1. PublishInv /\ [PublishNext]_publishVars => [locked => atomic_bound' <= atomic_bound]_publishVars
  <2> SUFFICES ASSUME PublishInv, PublishNext, locked PROVE atomic_bound' <= atomic_bound
    OBVIOUS
  <2> USE ValuesAreNumbers DEF PublishInv, PublishTypes, Carried, Move
  <2>1. ASSUME NEW t \in Publishers, CompareAndSwap(t) PROVE atomic_bound' <= atomic_bound
    <3>1. newb[t] < oldb[t]
      BY <2>1 DEF CompareAndSwap
    <3>2. QED
      BY <2>1, <3>1, PublishNumbers DEF CompareAndSwap
  <2>2. ASSUME NEW t \in Publishers, ~StoreOnly(t), ~CompareAndSwap(t),
               \/ FindPath(t) \/ SeePath(t) \/ ReadBestPath(t)
               \/ ReadBound(t) \/ CompareOnly(t)
        PROVE  atomic_bound' <= atomic_bound
    <3>1. atomic_bound' = atomic_bound
      BY <2>2 DEF FindPath, SeePath, ReadBestPath, ReadBound, CompareOnly
    <3>2. QED
      BY <3>1, PublishNumbers
  <2>3. ASSUME NEW t \in Publishers PROVE ~StoreOnly(t)
    BY DEF StoreOnly
  <2>4. QED
    BY <2>1, <2>2, <2>3 DEF PublishNext
<1>2. QED
  BY <1>1, PublishHolds, PTL DEF PublishSpec, BoundNeverRises
=============================================================================
