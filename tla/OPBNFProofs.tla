----------------------------- MODULE OPBNFProofs -----------------------------
(***************************************************************************)
(* Proofs about optimistic PBNF for any number of threads, any finite      *)
(* domain and any projection of it: the minimum f that the threads read    *)
(* without the mutex is sound, and the search ends with a solution that is *)
(* worse than an optimal one by the factor b at most.                      *)
(*                                                                         *)
(* The graph's part of the invariant is the core of NBlockGraphProofs,     *)
(* with the best f of a block computed from its nodes (P below).  On top   *)
(* of it, as in PBNFProofs, no promising node is forgotten.  What is new   *)
(* is where the minima are: a promising node is in a block whose minimum   *)
(* is low, or the scope it is in is reserved and holds such a block, so    *)
(* that a minimum is raised only by the thread that has taken the node.    *)
(***************************************************************************)
EXTENDS OPBNFSearch, SearchSpaceProofs

P == INSTANCE NBlockGraphProofs WITH
       best <- BestF, work <- 0, MaxWork <- 0, SpuriousWakeups <- FALSE,
       DetectLivelocks <- TRUE, MinExpansions <- 1, Weight <- 1,
       InitBlock <- Project[Start], InitVal <- 0, done <- graph_done,
       num_sigma_zero <- Cardinality({n \in NBlocks : sigma[n] = 0}),
       created <- NBlocks

PCs == {"read", "next", "release", "wake", "wait", "test", "enter", "body",
        "expand", "loop", "set_hot", "wont", "path", "again", "leave", "stop",
        "ended"}

\* Where a thread has a block.
Owning == {"enter", "body", "expand", "loop", "set_hot", "wont", "path", "again",
           "release"}

Child == [to : States, g : Nat]

Types ==
  /\ b \in Factors
  /\ g \in [States -> Nat] /\ g[Start] = 0 /\ open \subseteq States
  /\ kids \in [Threads -> SUBSET Child] /\ sol \in [Threads -> Nat]
  /\ bound \in 0..Infinity
  /\ f_min \in Nat /\ local_f_min \in [NBlocks -> Nat] /\ left \in [NBlocks -> Nat]
  /\ pc \in [Threads -> PCs] /\ cur \in [Threads -> NBlocks \cup {NoBlock}]
  /\ want \in [Threads -> [block : NBlocks \cup {NoBlock}, val : Nat]]

\* The blocks the threads have are in use, each by one of them.
Owners ==
  /\ \A t \in Threads : cur[t] # NoBlock => cur[t] \in inuse
  /\ \A t, u \in Threads : t # u /\ cur[t] # NoBlock => cur[t] # cur[u]
  /\ \A t \in Threads : pc[t] \in Owning => cur[t] # NoBlock
  /\ \A t \in Threads : pc[t] = "set_hot" => want[t].block \in NBlocks
  /\ \A t \in Threads : pc[t] = "test" /\ cur[t] = NoBlock => graph_done

\* The child k is one of s, and its cost is up to date.
IsChild(k, s) == \E e \in Edges[s] : k.to = e.to /\ k.g = g[s] + e.cost

\* The children a thread has still to look at are those of one node of its
\* block.
KidsExact ==
  \A t \in Threads : kids[t] # {} =>
    /\ pc[t] = "expand"
    /\ \E s \in States : Project[s] = cur[t] /\ \A k \in kids[t] : IsChild(k, s)

\* The g of a node is the cost of a path, and so is a solution: neither is
\* better than what is possible.
CostsReal ==
  /\ \A s \in States : CostToGo[Start] <= g[s] + CostToGo[s]
  /\ \A t \in Threads : pc[t] = "path" => CostToGo[Start] <= sol[t]
  /\ CostToGo[Start] <= bound

\* A solution that is good enough is known.
Found == bound <= b * CostToGo[Start]

\* A cheapest solution is on its way to set_path.
PathFound(t) == pc[t] = "path" /\ sol[t] <= CostToGo[Start]

\* The state at the end of e, of a node that has been taken from its open
\* list, is known with this cost or a lower one, or about to be.
Known(s, e) ==
  \/ g[e.to] <= g[s] + e.cost
  \/ \E t \in Threads : \E k \in kids[t] : k.to = e.to /\ k.g <= g[s] + e.cost

Expanded(s) ==
  s \notin Goals /\ \A e \in Edges[s] : Promises(e.to, g[s] + e.cost) => Known(s, e)

\* Until a good solution is found, every node that promises a cheapest one is
\* in its open list, or its promising children are known.
NothingForgotten ==
  ~Found => \/ \E t \in Threads : PathFound(t)
            \/ \A s \in States : Promises(s, g[s]) => s \in open \/ Expanded(s)

\* What a thread has in its hands is as good as a cheapest solution.
Carries(t) == PathFound(t) \/ \E k \in kids[t] : Promises(k.to, k.g)

Low(n) == local_f_min[n] <= CostToGo[Start]
LowScope(n) == \E m \in P!Scope(n) : Low(m)

\* The first block has not been given back yet, nor its minimum written.
FirstBlock == Project[Start]
Early ==
  /\ f_min = 0 /\ inuse \subseteq {FirstBlock}
  /\ \A s \in open : Project[s] \in P!Scope(FirstBlock)
  /\ inuse = {} => open = {Start}

\* Wherever there is something promising there is a low minimum, in the block
\* or in the scope that it belongs to while it is reserved.
MinimaLow ==
  ~Found /\ ~Early =>
    /\ \A s \in open : Promises(s, g[s]) =>
         \/ Low(Project[s])
         \/ \E n \in inuse : Project[s] \in P!Scope(n) /\ LowScope(n)
    /\ \A t \in Threads : Carries(t) => LowScope(cur[t])

FMinLeast == ~Early => \A n \in NBlocks : f_min <= local_f_min[n]

\* Nobody ends the search before a good solution is found.
EndFound ==
  /\ done \/ graph_done => Found
  /\ \A t \in Threads : pc[t] \in {"leave", "stop", "ended"} => Found

\* What holds whatever the heuristic, and what needs a good one.
GInv == P!Core
SInv == Types /\ Owners /\ KidsExact /\ CostsReal
FInv == NothingForgotten /\ MinimaLow /\ FMinLeast

-----------------------------------------------------------------------------
(***************************************************************************)
(* The graph under the search                                              *)
(***************************************************************************)

LEMMA FiniteSame ==
  /\ \A S : IsFiniteSet(S) <=> P!IsFiniteSet(S)
  /\ \A S : Cardinality(S) = P!Cardinality(S)
<1>1. \A S : IsFiniteSet(S) <=> P!IsFiniteSet(S)
  BY DEF IsFiniteSet, P!IsFiniteSet
<1>2. \A S : Cardinality(S) = P!Cardinality(S)
  BY DEF Cardinality, P!Cardinality
<1>3. QED
  BY <1>1, <1>2

\* The constants of the search fit the graph: this is the assumption under
\* which the lemmas of NBlockGraphProofs hold.
LEMMA GraphAssumption ==
  /\ P!IsFiniteSet(Threads) /\ Threads # {} /\ NoThread \notin Threads
  /\ P!IsFiniteSet(NBlocks) /\ NoBlock \notin NBlocks
  /\ Succs \in [NBlocks -> SUBSET NBlocks]
  /\ Project[Start] \in NBlocks
  /\ Infinity \in Nat /\ 0 \in 0..(Infinity - 1)
  /\ 1 \in Nat \ {0}
  /\ TRUE \in BOOLEAN /\ FALSE \in BOOLEAN
  /\ 1 \in Nat /\ 0 \in Nat
<1>1. P!IsFiniteSet(Threads) /\ P!IsFiniteSet(NBlocks)
  BY OPBNFAssumption, FiniteSame
<1>2. QED
  BY <1>1, SpaceAssumption, OPBNFAssumption

\* The operators of the graph are those the lemmas are about.
LEMMA SameOperators ==
  /\ Interferes = P!Interferes /\ G!Interferes = P!Interferes
  /\ \A n : G!IsFree(n) <=> P!IsFree(n)
  /\ \A S : G!HotAmong(S) = S \cap hot
  /\ \A C : G!CooledSigmaHot(C) = P!CooledSigmaHot(C)
  /\ \A n, d : G!ScopeSigmas(n, d) = P!ScopeSigmas(n, d)
<1>1. G!Interferes = P!Interferes
  BY DEF G!Interferes, P!Interferes, G!Preds, P!Preds
<1>2. \A n : G!IsFree(n) <=> P!IsFree(n)
  BY DEF G!IsFree, P!IsFree, G!Empty, P!Empty
<1>3. \A C : G!CooledSigmaHot(C) = P!CooledSigmaHot(C)
  BY <1>1 DEF G!CooledSigmaHot, P!CooledSigmaHot, G!Cardinality, P!Cardinality
<1>4. \A n, d : G!ScopeSigmas(n, d) = P!ScopeSigmas(n, d)
  BY <1>1 DEF G!ScopeSigmas, P!ScopeSigmas
<1>5. QED
  BY <1>1, <1>2, <1>3, <1>4 DEF Interferes, G!HotAmong

LEMMA SameFreed ==
  ASSUME NEW S
  PROVE  G!Freed(S) = P!Freed(S)
BY DEF G!Freed, P!Freed, G!IsFree, P!IsFree, G!Empty, P!Empty

LEMMA InterferingBlocks ==
  ASSUME NEW n \in NBlocks
  PROVE  Interferes[n] \subseteq NBlocks /\ n \notin Interferes[n]
BY SameOperators, GraphAssumption, P!InterferesType

\* The values in the open list of a block, and what an empty one counts as.
Vals(n) == {Infinity} \cup {F(s) : s \in {o \in open : Project[o] = n}}

LEMMA FType ==
  ASSUME Types, NEW s \in States
  PROVE  F(s) \in Nat /\ g[s] \in Nat /\ H[s] \in Nat
BY SpaceAssumption DEF Types, F

\* BestF is the least f of a node in the block's open list.
LEMMA BestIsLeast ==
  ASSUME Types
  PROVE  /\ BestF \in [NBlocks -> 0..Infinity]
         /\ \A n \in NBlocks : BestF[n] \in Vals(n)
         /\ \A s \in open : BestF[Project[s]] <= F(s)
<1>1. \A n \in NBlocks : BestF[n] = Min(Vals(n))
  BY DEF BestF, Vals, NodesOf
<1>2. \A n \in NBlocks : Vals(n) \in SUBSET Nat /\ Infinity \in Vals(n)
  BY FType, SpaceAssumption DEF Vals, Types
<1>3. \A n \in NBlocks : BestF[n] \in Vals(n) /\ \A x \in Vals(n) : BestF[n] <= x
  BY <1>1, <1>2, MinIsLeast
<1>4. \A n \in NBlocks : BestF[n] \in 0..Infinity
  BY <1>2, <1>3, SpaceAssumption
<1>5. BestF \in [NBlocks -> 0..Infinity]
  BY <1>4 DEF BestF
<1>6. ASSUME NEW s \in open PROVE BestF[Project[s]] <= F(s)
  <2>1. s \in States /\ Project[s] \in NBlocks
    BY OPBNFAssumption DEF Types
  <2>2. F(s) \in Vals(Project[s])
    BY DEF Vals
  <2>3. QED
    BY <1>3, <2>1, <2>2
<1>7. QED
  BY <1>3, <1>5, <1>6

\* A step changes the best values of those blocks only whose nodes it changes.
LEMMA BestIsLocal ==
  ASSUME Types, Types', NEW n \in NBlocks,
         \A s \in States : Project[s] = n =>
           g'[s] = g[s] /\ (s \in open' <=> s \in open)
  PROVE  BestF'[n] = BestF[n]
<1>1. Vals(n)' = Vals(n)
  BY DEF Vals, Types, F
<1>2. BestF[n] = Min(Vals(n)) /\ BestF'[n] = Min(Vals(n)')
  BY DEF BestF, Vals, NodesOf
<1>3. QED
  BY <1>1, <1>2

\* The scopes of two threads have no block in common.
LEMMA ScopesApart ==
  ASSUME GInv, SInv, NEW t \in Threads, NEW u \in Threads, t # u,
         cur[t] # NoBlock, cur[u] # NoBlock
  PROVE  P!Scope(cur[t]) \cap P!Scope(cur[u]) = {}
<1>1. cur[t] \in inuse /\ cur[u] \in inuse /\ cur[t] # cur[u]
  BY DEF SInv, Owners
<1>2. QED
  BY <1>1, GraphAssumption, P!UsedScopes DEF GInv

LEMMA OwnScope ==
  ASSUME GInv, SInv, NEW t \in Threads, cur[t] # NoBlock
  PROVE  /\ cur[t] \in NBlocks /\ cur[t] \in inuse
         /\ cur[t] \in P!Scope(cur[t]) /\ P!Scope(cur[t]) \subseteq NBlocks
<1>1. cur[t] \in NBlocks /\ cur[t] \in inuse
  BY DEF SInv, Types, Owners
<1>2. QED
  BY <1>1, OPBNFAssumption DEF P!Scope

-----------------------------------------------------------------------------
(***************************************************************************)
(* The steps, by what they do                                              *)
(***************************************************************************)

\* The steps that change neither nodes nor the blocks in use.
QuietStep(t) ==
  \/ ReadBound(t) \/ LockNext(t) \/ Busy(t) \/ Wait(t) \/ Wake(t) \/ SeeDone(t)
  \/ Test(t) \/ Enter(t) \/ EndExpand(t) \/ LoopTest(t) \/ WantHot(t)
  \/ Again(t) \/ Leave(t) \/ SetDone(t)

\* What no step on nodes changes.
graphSide == <<countVars, free_list, graph_done, cur, want, minVars, b>>

\* Nodes that are as bad as the incumbent are dropped.
DropNodes(t) ==
  /\ pc[t] = "body"
  /\ \E l \in {"loop", "again"} : Goto(t, l)
  /\ \E D \in SUBSET open :
       /\ open' = open \ D
       /\ \A s \in D : Project[s] = cur[t] /\ OutOfBound(F(s))
  /\ left' \in [NBlocks -> Nat]
  /\ UNCHANGED <<g, kids, sol, bound, done, graphSide>>

FindGoal(t) ==
  /\ pc[t] = "body"
  /\ \E s \in open \cap Goals :
       Project[s] = cur[t] /\ open' = open \ {s} /\ ReturnPath(t, g[s])
  /\ left' \in [NBlocks -> Nat]
  /\ UNCHANGED <<g, kids, bound, done, graphSide>>

ExpandNode(t) ==
  /\ pc[t] = "body" /\ Goto(t, "expand")
  /\ \E s \in open \ Goals :
       /\ Project[s] = cur[t] /\ open' = open \ {s}
       /\ kids' = [kids EXCEPT ![t] =
                     {[to |-> e.to, g |-> g[s] + e.cost] : e \in Edges[s]}]
  /\ left' \in [NBlocks -> Nat]
  /\ UNCHANGED <<g, sol, bound, done, graphSide>>

DropChild(t) ==
  /\ pc[t] = "expand"
  /\ \E k \in kids[t] :
       /\ OutOfBound(k.g + H[k.to]) \/ g[k.to] <= k.g
       /\ kids' = [kids EXCEPT ![t] = @ \ {k}]
  /\ UNCHANGED <<pc, sol, g, open, left, bound, done, graphSide>>

FindGoalChild(t) ==
  /\ pc[t] = "expand"
  /\ \E k \in kids[t] :
       /\ k.to \in Goals /\ k.g < g[k.to]
       /\ g' = [g EXCEPT ![k.to] = k.g]
       /\ ReturnPath(t, k.g)
  /\ kids' = [kids EXCEPT ![t] = {}]
  /\ UNCHANGED <<open, left, bound, done, graphSide>>

KeepChild(t) ==
  /\ pc[t] = "expand"
  /\ \E k \in kids[t] :
       /\ k.g < g[k.to]
       /\ g' = [g EXCEPT ![k.to] = k.g]
       /\ open' = open \cup {k.to}
       /\ kids' = [kids EXCEPT ![t] = @ \ {k}]
  /\ UNCHANGED <<pc, sol, left, bound, done, graphSide>>

\* Of set_path, what it does to the bound and to done.
Publish(t) ==
  /\ pc[t] = "path" /\ Goto(t, "again")
  /\ sol' = [sol EXCEPT ![t] = Infinity]
  /\ \/ /\ bound > sol[t] /\ bound' = sol[t]
        /\ done' = (done \/ NothingBetter(sol[t]))
     \/ bound <= sol[t] /\ UNCHANGED <<bound, done>>
  /\ UNCHANGED <<kids, g, open, left, graphSide>>

NodeStep(t) ==
  \/ DropNodes(t) \/ FindGoal(t) \/ ExpandNode(t) \/ DropChild(t)
  \/ FindGoalChild(t) \/ KeepChild(t) \/ Publish(t)

LEMMA ChildType ==
  ASSUME Types, NEW t \in Threads, NEW k \in kids[t]
  PROVE  /\ k \in Child /\ k.to \in States /\ k.g \in Nat
         /\ g[k.to] \in Nat /\ H[k.to] \in Nat /\ k.g + H[k.to] \in Nat
<1>1. k \in Child
  BY DEF Types
<1>2. k.to \in States /\ k.g \in Nat
  BY <1>1 DEF Child
<1>3. QED
  BY <1>1, <1>2, SpaceAssumption DEF Types

\* The factor b is at least one.
LEMMA FactorMonotone ==
  ASSUME Types, NEW x \in Nat, NEW y \in Nat, x <= y
  PROVE  /\ b \in Nat /\ b * x <= b * y /\ y <= b * y
         /\ b * x \in Nat /\ b * y \in Nat
<1>1. b \in Nat \ {0}
  BY OPBNFAssumption DEF Types
<1>2. y - x \in Nat /\ y = x + (y - x)
  OBVIOUS
<1>3. /\ b * x \in Nat /\ b * (y - x) \in Nat
      /\ b * y = b * x + b * (y - x)
  BY <1>1, <1>2
<1>4. QED
  BY <1>1, <1>3

\* What is not out of the bound is finite.
LEMMA InBound ==
  ASSUME Types, NEW f \in Nat, ~OutOfBound(f)
  PROVE  f < Infinity
<1>1. bound \in 0..Infinity /\ Infinity \in Nat
  BY SpaceAssumption DEF Types
<1>2. b * f \in Nat /\ f <= b * f
  BY FactorMonotone
<1>3. QED
  BY <1>1, <1>2 DEF OutOfBound

LEMMA PruneKind ==
  ASSUME Types, NEW t \in Threads, cur[t] \in NBlocks, PruneBlock(t)
  PROVE  DropNodes(t)
<1>1. /\ BestF \in [NBlocks -> 0..Infinity] /\ b \in Nat
      /\ bound \in Nat /\ Infinity \in Nat
  BY BestIsLeast, OPBNFAssumption, SpaceAssumption DEF Types
<1>2. ASSUME NEW s \in NodesOf(cur[t])
      PROVE  OutOfBound(F(s))
  <2>1. s \in open /\ Project[s] = cur[t] /\ s \in States
    BY DEF NodesOf, Types
  <2>2. BestF[cur[t]] <= F(s) /\ F(s) \in Nat /\ BestF[cur[t]] \in Nat
    BY <1>1, <2>1, BestIsLeast, FType
  <2>3. b * BestF[cur[t]] <= b * F(s) /\ b * BestF[cur[t]] \in Nat /\ b * F(s) \in Nat
    BY <2>2, FactorMonotone
  <2>4. b * BestF[cur[t]] >= bound
    BY DEF PruneBlock, OutOfBound
  <2>5. QED
    BY <1>1, <2>3, <2>4 DEF OutOfBound
<1>3. left' \in [NBlocks -> Nat]
  <2>1. left \in [NBlocks -> Nat] /\ BestF[cur[t]] \in Nat
    BY <1>1 DEF Types
  <2>2. QED
    BY <2>1 DEF PruneBlock
<1>4. UNCHANGED <<g, kids, sol, bound, done, graphSide>>
  BY DEF PruneBlock, SearchVars, graphSide, countVars, minVars
<1>5. pc[t] = "body" /\ Goto(t, "again") /\ open' = open \ NodesOf(cur[t])
  BY DEF PruneBlock
<1>6. NodesOf(cur[t]) \in SUBSET open /\ \A s \in NodesOf(cur[t]) : Project[s] = cur[t]
  BY DEF NodesOf
<1>7. QED
  BY <1>2, <1>3, <1>4, <1>5, <1>6 DEF DropNodes

LEMMA TakeKinds ==
  ASSUME Types, NEW t \in Threads, cur[t] \in NBlocks, TakeNode(t)
  PROVE  DropNodes(t) \/ FindGoal(t) \/ ExpandNode(t)
<1>1. PICK s \in NodesOf(cur[t]) :
        /\ open' = open \ {s}
        /\ \/ OutOfBound(F(s)) /\ Goto(t, "loop") /\ UNCHANGED <<kids, sol>>
           \/ s \in Goals /\ ReturnPath(t, g[s]) /\ UNCHANGED kids
           \/ /\ s \notin Goals
              /\ kids' = [kids EXCEPT ![t] =
                            {[to |-> e.to, g |-> g[s] + e.cost] : e \in Edges[s]}]
              /\ Goto(t, "expand") /\ UNCHANGED sol
  BY DEF TakeNode
<1>2. s \in open /\ Project[s] = cur[t]
  BY DEF NodesOf
<1>3. pc[t] = "body" /\ UNCHANGED <<g, bound, done, graphSide>>
  BY DEF TakeNode, SearchVars, graphSide, countVars, minVars
<1>4. left' \in [NBlocks -> Nat]
  <2>1. left \in [NBlocks -> Nat] /\ Infinity \in Nat
    BY SpaceAssumption DEF Types
  <2>2. QED
    BY <2>1 DEF TakeNode
<1>5. CASE OutOfBound(F(s)) /\ Goto(t, "loop") /\ UNCHANGED <<kids, sol>>
  <2>1. open' = open \ {s} /\ {s} \in SUBSET open
        /\ \A x \in {s} : Project[x] = cur[t] /\ OutOfBound(F(x))
    BY <1>1, <1>2, <1>5
  <2>2. QED
    BY <1>3, <1>4, <1>5, <2>1 DEF DropNodes
<1>6. CASE s \in Goals /\ ReturnPath(t, g[s]) /\ UNCHANGED kids
  BY <1>1, <1>2, <1>3, <1>4, <1>6 DEF FindGoal
<1>7. CASE /\ s \notin Goals
           /\ kids' = [kids EXCEPT ![t] =
                         {[to |-> e.to, g |-> g[s] + e.cost] : e \in Edges[s]}]
           /\ Goto(t, "expand") /\ UNCHANGED sol
  BY <1>1, <1>2, <1>3, <1>4, <1>7 DEF ExpandNode
<1>8. QED
  BY <1>1, <1>5, <1>6, <1>7

LEMMA ChildKinds ==
  ASSUME Types, NEW t \in Threads, AddChild(t)
  PROVE  DropChild(t) \/ FindGoalChild(t) \/ KeepChild(t)
<1>1. PICK k \in kids[t] : Discard(t, k) \/ NewNode(t, k) \/ CheaperPath(t, k)
  BY DEF AddChild
<1>2. pc[t] = "expand" /\ UNCHANGED <<bound, done, left, graphSide>>
  BY DEF AddChild, SearchVars, graphSide, countVars, minVars
<1>3. k.to \in States /\ k.g \in Nat /\ g[k.to] \in Nat /\ H[k.to] \in Nat
  BY ChildType
<1>4. CASE Discard(t, k)
  BY <1>2, <1>4 DEF Discard, DropChild
<1>5. CASE NewNode(t, k)
  <2>1. k.g < g[k.to]
    <3>1. k.g + H[k.to] < Infinity
      BY <1>3, <1>5, InBound DEF NewNode
    <3>2. QED
      BY <1>3, <1>5, <3>1, SpaceAssumption DEF NewNode
  <2>2. CASE k.to \in Goals
    BY <1>2, <1>5, <2>1, <2>2 DEF NewNode, FindGoalChild
  <2>3. CASE k.to \notin Goals
    BY <1>2, <1>5, <2>1, <2>3 DEF NewNode, AddNode, KeepChild
  <2>4. QED
    BY <2>2, <2>3
<1>6. CASE CheaperPath(t, k)
  <2>1. k.g < g[k.to]
    BY <1>3, <1>6 DEF CheaperPath
  <2>2. QED
    BY <1>2, <1>6, <2>1 DEF CheaperPath, AddNode, KeepChild
<1>7. QED
  BY <1>1, <1>4, <1>5, <1>6

LEMMA PublishKind ==
  ASSUME Types, NEW t \in Threads, SetPath(t)
  PROVE  Publish(t)
<1>1. bound \in Nat /\ sol[t] \in Nat
  BY SpaceAssumption DEF Types
<1>2. UNCHANGED <<kids, g, open, left, graphSide>>
  BY DEF SetPath, SearchVars, graphSide, countVars, minVars, nodeVars
<1>3. QED
  BY <1>1, <1>2 DEF SetPath, Publish

LEMMA StepKinds ==
  ASSUME GInv, SInv, [Next]_vars
  PROVE  \/ \E t \in Threads :
              \/ QuietStep(t) \/ NodeStep(t) \/ Keep(t) \/ Release(t) \/ Take(t)
              \/ SetHot(t) \/ WontRelease(t)
         \/ UNCHANGED vars
<1>1. ASSUME NEW t \in Threads, Step(t)
      PROVE  \/ QuietStep(t) \/ NodeStep(t) \/ Keep(t) \/ Release(t) \/ Take(t)
             \/ SetHot(t) \/ WontRelease(t)
  <2>1. Types
    BY DEF SInv
  <2>2. PruneBlock(t) \/ TakeNode(t) => NodeStep(t)
    <3> SUFFICES ASSUME PruneBlock(t) \/ TakeNode(t) PROVE NodeStep(t)
      OBVIOUS
    <3>1. pc[t] = "body"
      BY DEF PruneBlock, TakeNode
    <3>2. cur[t] \in NBlocks
      BY <3>1 DEF SInv, Types, Owners, Owning
    <3>3. QED
      BY <2>1, <3>2, PruneKind, TakeKinds DEF NodeStep
  <2>3. AddChild(t) => NodeStep(t)
    BY <2>1, ChildKinds DEF NodeStep
  <2>4. SetPath(t) => NodeStep(t)
    BY <2>1, PublishKind DEF NodeStep
  <2>5. QED
    BY <1>1, <2>2, <2>3, <2>4 DEF Step, NextStep, SearchStep, QuietStep
<1>2. QED
  BY <1>1 DEF Next

-----------------------------------------------------------------------------
(***************************************************************************)
(* Steps that leave the nodes alone                                        *)
(***************************************************************************)

\* The nodes, the paths and the bound stay; t holds neither children nor a
\* path.
Bystander(t) ==
  /\ UNCHANGED <<b, g, open, left, kids, sol, bound>>
  /\ kids[t] = {} /\ pc[t] # "path" /\ pc'[t] # "path"
  /\ \E l \in PCs : Goto(t, l)
  /\ \A u \in Threads : u # t => cur'[u] = cur[u]

LEMMA NoKids ==
  ASSUME SInv, NEW t \in Threads, pc[t] # "expand"
  PROVE  kids[t] = {}
BY DEF SInv, KidsExact

LEMMA QuietFrame ==
  ASSUME SInv, NEW t \in Threads, QuietStep(t)
  PROVE  /\ Bystander(t) /\ UNCHANGED <<countVars, free_list, cur, minVars>>
         /\ graph_done => graph_done'
         /\ pc'[t] \in Owning => cur[t] # NoBlock
         /\ pc'[t] = "test" => cur[t] # NoBlock \/ graph_done'
<1>1. /\ pc \in [Threads -> PCs] /\ cur[t] \in NBlocks \cup {NoBlock}
      /\ pc[t] \in Owning => cur[t] # NoBlock
      /\ pc[t] = "test" /\ cur[t] = NoBlock => graph_done
      /\ pc[t] # "expand" => kids[t] = {}
  BY NoKids DEF SInv, Types, Owners
<1>2. CASE ReadBound(t) \/ LockNext(t) \/ Busy(t)
  BY <1>1, <1>2
  DEF ReadBound, LockNext, Busy, Bystander, Goto, PCs, Owning, SameData, nodeVars,
      localVars
<1>3. CASE Wait(t) \/ Wake(t) \/ SeeDone(t)
  BY <1>1, <1>3
  DEF Wait, Wake, SeeDone, Bystander, Goto, PCs, Owning, SameData, nodeVars, localVars
<1>4. CASE Test(t) \/ Again(t)
  BY <1>1, <1>4
  DEF Test, Again, Bystander, Goto, PCs, Owning, SameData, nodeVars, localVars
<1>5. CASE Leave(t) \/ SetDone(t)
  BY <1>1, <1>5
  DEF Leave, SetDone, Bystander, Goto, PCs, Owning, SameData, nodeVars, localVars
<1>6. CASE Enter(t) \/ EndExpand(t) \/ LoopTest(t) \/ WantHot(t)
  BY <1>1, <1>6
  DEF Enter, EndExpand, LoopTest, WantHot, Bystander, Goto, PCs, Owning, SearchVars,
      nodeVars
<1>7. QED
  BY <1>2, <1>3, <1>4, <1>5, <1>6 DEF QuietStep

\* The arguments of set_hot, which WantHot writes.
WantType == [block : NBlocks \cup {NoBlock}, val : Nat]

LEMMA QuietWant ==
  ASSUME SInv, NEW t \in Threads, QuietStep(t)
  PROVE  /\ want' \in [Threads -> WantType]
         /\ pc'[t] = "set_hot" => want'[t].block \in NBlocks
         /\ \A u \in Threads : u # t => want'[u] = want[u]
<1>1. /\ want \in [Threads -> WantType] /\ bound \in Nat /\ pc \in [Threads -> PCs]
  BY SpaceAssumption DEF SInv, Types, WantType
<1>2. ASSUME NEW w \in WantType, want' = [want EXCEPT ![t] = w],
             pc'[t] = "set_hot" => w.block \in NBlocks
      PROVE  /\ want' \in [Threads -> WantType]
             /\ pc'[t] = "set_hot" => want'[t].block \in NBlocks
             /\ \A u \in Threads : u # t => want'[u] = want[u]
  BY <1>1, <1>2
<1>3. CASE WantHot(t)
  <2>1. PICK n \in InScope(cur[t]) :
          want' = [want EXCEPT ![t] = [block |-> n, val |-> bound]]
    BY <1>3 DEF WantHot
  <2>2. cur[t] \in NBlocks
    BY <1>3 DEF WantHot, SInv, Types, Owners, Owning
  <2>3. n \in NBlocks
    BY <2>2, InterferingBlocks DEF InScope
  <2>4. [block |-> n, val |-> bound] \in WantType
    BY <1>1, <2>3 DEF WantType
  <2>5. QED
    BY <1>2, <2>1, <2>3, <2>4
<1>4. CASE ReadBound(t)
  <2>1. [block |-> NoBlock, val |-> bound] \in WantType /\ pc'[t] # "set_hot"
    BY <1>1, <1>4 DEF WantType, ReadBound, Goto
  <2>2. QED
    BY <1>2, <1>4, <2>1 DEF ReadBound
<1>5. CASE Test(t)
  <2>1. G!NoWant \in WantType /\ pc'[t] # "set_hot"
    BY <1>1, <1>5, SpaceAssumption DEF WantType, Test, Goto, G!NoWant
  <2>2. QED
    BY <1>2, <1>5, <2>1 DEF Test
<1>6. CASE \/ LockNext(t) \/ Busy(t) \/ Wait(t) \/ Wake(t) \/ SeeDone(t) \/ Again(t)
           \/ Leave(t) \/ SetDone(t) \/ Enter(t) \/ EndExpand(t) \/ LoopTest(t)
  <2>1. want' = want
    BY <1>6 DEF LockNext, Busy, Wait, Wake, SeeDone, Again, Leave, SetDone, Enter,
                EndExpand, LoopTest, localVars
  <2>2. pc'[t] # "set_hot"
    BY <1>1, <1>6 DEF LockNext, Busy, Wait, Wake, SeeDone, Again, Leave, SetDone,
                      Enter, EndExpand, LoopTest, Goto
  <2>3. QED
    BY <1>1, <2>1, <2>2
<1>7. QED
  BY <1>3, <1>4, <1>5, <1>6 DEF QuietStep

LEMMA BystanderKeeps ==
  ASSUME SInv, NEW t \in Threads, Bystander(t)
  PROVE  KidsExact' /\ CostsReal'
<1>1. \A u \in Threads : u # t => pc'[u] = pc[u] /\ cur'[u] = cur[u]
  BY DEF Bystander, Goto, SInv, Types
<1>2. KidsExact'
  <2> SUFFICES ASSUME NEW u \in Threads, kids'[u] # {}
               PROVE  /\ pc'[u] = "expand"
                      /\ \E s \in States :
                           /\ Project[s] = cur'[u]
                           /\ \A k \in kids'[u] : IsChild(k, s)'
    BY DEF KidsExact
  <2>1. u # t /\ kids'[u] = kids[u] /\ g' = g
    BY DEF Bystander
  <2>2. QED
    BY <1>1, <2>1 DEF SInv, KidsExact, IsChild
<1>3. CostsReal'
  BY <1>1 DEF SInv, CostsReal, Bystander
<1>4. QED
  BY <1>2, <1>3

\* The invariant is kept by a step that changes no node, if the graph is.
LEMMA BystanderInvariant ==
  ASSUME SInv, NEW t \in Threads, Bystander(t), Owners', GInv',
         cur' \in [Threads -> NBlocks \cup {NoBlock}],
         f_min' \in Nat, local_f_min' \in [NBlocks -> Nat],
         want' \in [Threads -> WantType]
  PROVE  GInv' /\ SInv'
<1>1. Types'
  <2>1. pc' \in [Threads -> PCs]
    BY DEF SInv, Types, Bystander, Goto
  <2>2. QED
    BY <2>1 DEF SInv, Types, Bystander, WantType
<1>2. QED
  BY <1>1, BystanderKeeps DEF SInv

LEMMA QuietInvariant ==
  ASSUME GInv, SInv, NEW t \in Threads, QuietStep(t)
  PROVE  GInv' /\ SInv'
<1>1. /\ Bystander(t) /\ UNCHANGED <<countVars, free_list, cur, minVars>>
      /\ graph_done => graph_done'
      /\ pc'[t] \in Owning => cur[t] # NoBlock
      /\ pc'[t] = "test" => cur[t] # NoBlock \/ graph_done'
  BY QuietFrame
<1>2. /\ want' \in [Threads -> WantType]
      /\ pc'[t] = "set_hot" => want'[t].block \in NBlocks
      /\ \A u \in Threads : u # t => want'[u] = want[u]
  BY QuietWant
<1>3. \A u \in Threads : u # t => pc'[u] = pc[u]
  BY <1>1 DEF Bystander, Goto, SInv, Types
<1>4. Owners'
  BY <1>1, <1>2, <1>3 DEF SInv, Owners, countVars
<1>5. GInv'
  <2>1. UNCHANGED <<BestF, bound>>
    BY <1>1 DEF Bystander, BestF, NodesOf, F
  <2>2. QED
    BY <1>1, <2>1 DEF GInv, P!Core, P!CoreTypes, P!SigmasExact, P!Exclusion,
      P!FreeListExact, P!HotIsTemporary, P!IsFree, P!Empty, P!Hopeless, countVars
<1>6. QED
  BY <1>1, <1>2, <1>4, <1>5, BystanderInvariant DEF SInv, Types, minVars

\* What UpdateFMin writes are numbers.
LEMMA MinimaType ==
  ASSUME Types, NEW n \in NBlocks, UpdateFMin(n)
  PROVE  /\ local_f_min' \in [NBlocks -> Nat] /\ f_min' \in Nat
         /\ \A m \in NBlocks : f_min' <= local_f_min'[m]
<1>1. \A m \in NBlocks : StoredF(m) \in Nat
  BY BestIsLeast, SpaceAssumption DEF StoredF, Types
<1>2. local_f_min' \in [NBlocks -> Nat]
  BY <1>1 DEF UpdateFMin, Types
<1>3. {local_f_min'[m] : m \in NBlocks} \in SUBSET Nat
      /\ {local_f_min'[m] : m \in NBlocks} # {}
  BY <1>2
<1>4. /\ Min({local_f_min'[m] : m \in NBlocks}) \in {local_f_min'[m] : m \in NBlocks}
      /\ \A x \in {local_f_min'[m] : m \in NBlocks} :
           Min({local_f_min'[m] : m \in NBlocks}) <= x
  BY <1>3, MinIsLeast
<1>5. QED
  BY <1>2, <1>3, <1>4 DEF UpdateFMin

LEMMA KeepInvariant ==
  ASSUME GInv, SInv, NEW t \in Threads, Keep(t)
  PROVE  Bystander(t) /\ GInv' /\ SInv'
<1>1. pc[t] = "release" /\ cur[t] # NoBlock /\ cur[t] \in NBlocks
  BY DEF Keep, SInv, Types, Owners, Owning
<1>2. /\ UNCHANGED <<countVars, free_list, graph_done, cur, localVars>>
      /\ SameData /\ Goto(t, "test") /\ UpdateFMin(cur[t])
  BY DEF Keep
<1>3. Bystander(t)
  BY <1>1, <1>2, NoKids
  DEF Bystander, Goto, SameData, nodeVars, localVars, PCs, SInv, Types
<1>4. \A u \in Threads : u # t => pc'[u] = pc[u]
  BY <1>2 DEF Goto, SInv, Types
<1>5. pc'[t] = "test"
  BY <1>2 DEF Goto, SInv, Types
<1>6. Owners'
  BY <1>1, <1>2, <1>4, <1>5 DEF SInv, Owners, countVars, localVars, Owning
<1>7. GInv'
  <2>1. UNCHANGED <<BestF, bound>>
    BY <1>3 DEF Bystander, BestF, NodesOf, F
  <2>2. QED
    BY <1>2, <2>1 DEF GInv, P!Core, P!CoreTypes, P!SigmasExact, P!Exclusion,
      P!FreeListExact, P!HotIsTemporary, P!IsFree, P!Empty, P!Hopeless, countVars
<1>8. /\ cur' \in [Threads -> NBlocks \cup {NoBlock}]
      /\ want' \in [Threads -> WantType]
      /\ local_f_min' \in [NBlocks -> Nat] /\ f_min' \in Nat
  BY <1>1, <1>2, MinimaType DEF SInv, Types, WantType, localVars
<1>9. QED
  BY <1>3, <1>6, <1>7, <1>8, BystanderInvariant

\* Giving a block back, for the graph.
LEMMA GiveBackCore ==
  ASSUME GInv, NEW n \in inuse, GiveBack(n), UNCHANGED <<BestF, bound>>
  PROVE  GInv'
<1> DEFINE Z == {m \in P!Interferes[n] : sigma[m] = 1}
           C == Z \cap hot
<1>1. Unblocked(n) = Z /\ G!HotAmong(Unblocked(n)) = C
  BY SameOperators DEF Unblocked
<1>2. UNION {Interferes[c] : c \in C} = P!AllInterferers(C)
  BY SameOperators DEF P!AllInterferers
<1>3. PutBack(C) = P!Freed(P!AllInterferers(C))
  <2>1. PutBack(C) = G!Freed(P!AllInterferers(C))
    BY <1>2 DEF PutBack
  <2>2. QED
    BY <2>1, SameFreed
<1>4. G!Freed({n} \cup Z) = P!Freed({n} \cup Z)
  BY SameFreed
<1>5. P!Freed({n} \cup Z \cup P!AllInterferers(C)) =
        P!Freed({n} \cup Z) \cup P!Freed(P!AllInterferers(C))
  BY DEF P!Freed
<1>6. /\ inuse' = inuse \ {n} /\ sigma' = P!ScopeSigmas(n, -1)
      /\ hot' = hot \ C /\ sigma_hot' = P!CooledSigmaHot(C)
      /\ free_list' = free_list \cup P!Freed({n} \cup Z \cup P!AllInterferers(C))
  BY <1>1, <1>3, <1>4, <1>5, SameOperators DEF GiveBack
<1>7. P!Core'
  <2> HIDE DEF C
  <2>1. C = Z \cap hot
    BY DEF C
  <2> HIDE DEF Z
  <2>2. Z = {m \in P!Interferes[n] : sigma[m] = 1}
    BY DEF Z
  <2>3. QED
    BY <1>6, <2>1, <2>2, GraphAssumption, P!ReleaseCore DEF GInv
<1>8. QED
  BY <1>7 DEF GInv

LEMMA ReleaseInvariant ==
  ASSUME GInv, SInv, NEW t \in Threads, Release(t)
  PROVE  Bystander(t) /\ GInv' /\ SInv'
<1>1. /\ pc[t] = "release" /\ cur[t] # NoBlock
      /\ cur[t] \in NBlocks /\ cur[t] \in inuse
  BY DEF Release, SInv, Types, Owners, Owning
<1>2. /\ SameData /\ UpdateFMin(cur[t]) /\ GiveBack(cur[t]) /\ UNCHANGED localVars
      /\ graph_done' = (graph_done \/ NothingLeft)
      /\ cur' = [cur EXCEPT ![t] = NoBlock]
      /\ \/ Goto(t, "test") /\ NothingLeft
         \/ Goto(t, "wake")
  BY DEF Release
<1>3. Bystander(t)
  BY <1>1, <1>2, NoKids
  DEF Bystander, Goto, SameData, nodeVars, localVars, PCs, SInv, Types
<1>4. \A u \in Threads : u # t => pc'[u] = pc[u] /\ cur'[u] = cur[u]
  BY <1>2 DEF Goto, SInv, Types
<1>5. /\ cur'[t] = NoBlock /\ pc'[t] \in {"test", "wake"}
      /\ pc'[t] = "test" => graph_done'
  BY <1>2 DEF Goto, SInv, Types
<1>6. inuse' = inuse \ {cur[t]} /\ want' = want
  BY <1>2 DEF GiveBack, localVars
<1>7. Owners'
  <2>1. \A u \in Threads : cur'[u] # NoBlock => cur'[u] = cur[u] /\ u # t
    BY <1>4, <1>5
  <2>2. \A u \in Threads : cur'[u] # NoBlock => cur'[u] \in inuse'
    BY <1>1, <1>6, <2>1 DEF SInv, Owners
  <2>3. \A u, v \in Threads : u # v /\ cur'[u] # NoBlock => cur'[u] # cur'[v]
    BY <1>4, <1>5, <2>1 DEF SInv, Owners
  <2>4. \A u \in Threads : pc'[u] \in Owning => cur'[u] # NoBlock
    BY <1>4, <1>5 DEF SInv, Owners, Owning
  <2>5. \A u \in Threads : pc'[u] = "set_hot" => want'[u].block \in NBlocks
    BY <1>4, <1>5, <1>6 DEF SInv, Owners
  <2>6. \A u \in Threads : pc'[u] = "test" /\ cur'[u] = NoBlock => graph_done'
    BY <1>2, <1>4, <1>5 DEF SInv, Owners
  <2>7. QED
    BY <2>2, <2>3, <2>4, <2>5, <2>6 DEF Owners
<1>8. GInv'
  <2>1. UNCHANGED <<BestF, bound>>
    BY <1>3 DEF Bystander, BestF, NodesOf, F
  <2>2. QED
    BY <1>1, <1>2, <2>1, GiveBackCore
<1>9. /\ cur' \in [Threads -> NBlocks \cup {NoBlock}]
      /\ want' \in [Threads -> WantType]
      /\ local_f_min' \in [NBlocks -> Nat] /\ f_min' \in Nat
  BY <1>1, <1>2, <1>6, MinimaType DEF SInv, Types, WantType
<1>10. QED
  BY <1>3, <1>7, <1>8, <1>9, BystanderInvariant

LEMMA TakeInvariant ==
  ASSUME GInv, SInv, NEW t \in Threads, Take(t)
  PROVE  /\ Bystander(t) /\ GInv' /\ SInv' /\ UNCHANGED minVars
         /\ \E n \in free_list : cur'[t] = n /\ inuse' = inuse \cup {n}
<1>1. PICK n \in free_list :
        /\ inuse' = inuse \cup {n} /\ sigma' = G!ScopeSigmas(n, 1)
        /\ free_list' = free_list \ ({n} \cup (Interferes[n] \cap FreeNow))
        /\ cur' = [cur EXCEPT ![t] = n]
  BY DEF Take
<1>2. /\ SameData /\ pc[t] = "wake" /\ ~graph_done /\ Goto(t, "test")
      /\ UNCHANGED <<hot, sigma_hot, graph_done, waiting, localVars, minVars>>
  BY DEF Take
<1>3. /\ n \in NBlocks /\ n \notin inuse /\ n # NoBlock
  BY GraphAssumption, P!FreeFacts DEF GInv
<1>4. Bystander(t)
  BY <1>1, <1>2, NoKids
  DEF Bystander, Goto, SameData, nodeVars, localVars, PCs, SInv, Types
<1>5. /\ \A u \in Threads : u # t => pc'[u] = pc[u] /\ cur'[u] = cur[u]
      /\ cur'[t] = n /\ pc'[t] = "test"
  BY <1>1, <1>2 DEF Goto, SInv, Types
<1>6. Owners'
  <2>1. \A u \in Threads : u # t /\ cur'[u] # NoBlock => cur'[u] \in inuse /\ cur'[u] # n
    BY <1>3, <1>5 DEF SInv, Owners
  <2>2. \A u \in Threads : cur'[u] # NoBlock => cur'[u] \in inuse'
    BY <1>1, <1>5, <2>1
  <2>3. \A u, v \in Threads : u # v /\ cur'[u] # NoBlock => cur'[u] # cur'[v]
    <3> SUFFICES ASSUME NEW u \in Threads, NEW v \in Threads, u # v,
                        cur'[u] # NoBlock, cur'[u] = cur'[v]
                 PROVE  FALSE
      OBVIOUS
    <3>1. u # t /\ v # t
      BY <1>5, <2>1
    <3>2. QED
      BY <1>5, <3>1 DEF SInv, Owners
  <2>4. \A u \in Threads : pc'[u] \in Owning => cur'[u] # NoBlock
    BY <1>3, <1>5 DEF SInv, Owners
  <2>5. \A u \in Threads : pc'[u] = "set_hot" => want'[u].block \in NBlocks
    BY <1>2, <1>5 DEF SInv, Owners, localVars
  <2>6. \A u \in Threads : pc'[u] = "test" /\ cur'[u] = NoBlock => graph_done'
    BY <1>2, <1>3, <1>5 DEF SInv, Owners
  <2>7. QED
    BY <2>2, <2>3, <2>4, <2>5, <2>6 DEF Owners
<1>7. GInv'
  <2>1. UNCHANGED <<BestF, bound>>
    BY <1>4 DEF Bystander, BestF, NodesOf, F
  <2>2. Interferes[n] \cap FreeNow = {m \in P!Interferes[n] : P!IsFree(m)}
    <3>1. Interferes[n] \subseteq NBlocks
      BY <1>3, InterferingBlocks
    <3>2. QED
      BY <3>1, SameOperators DEF FreeNow
  <2>3. free_list' = free_list \ P!Unavailable(n)
    BY <1>1, <2>2 DEF P!Unavailable
  <2>4. sigma' = P!ScopeSigmas(n, 1)
    BY <1>1, SameOperators
  <2>5. QED
    BY <1>1, <1>2, <2>1, <2>3, <2>4, GraphAssumption, P!TakeCore DEF GInv
<1>8. /\ cur' \in [Threads -> NBlocks \cup {NoBlock}]
      /\ want' \in [Threads -> WantType]
      /\ local_f_min' \in [NBlocks -> Nat] /\ f_min' \in Nat
  BY <1>1, <1>2, <1>3 DEF SInv, Types, WantType, localVars, minVars
<1>9. QED
  BY <1>1, <1>2, <1>4, <1>5, <1>6, <1>7, <1>8, BystanderInvariant

LEMMA HeatInvariant ==
  ASSUME GInv, SInv, NEW t \in Threads, SetHot(t)
  PROVE  Bystander(t) /\ GInv' /\ SInv' /\ UNCHANGED <<minVars, inuse, cur>>
<1> DEFINE n == want[t].block
           C == P!Interferes[n] \cap hot
<1>1. /\ pc[t] = "set_hot" /\ SameData /\ Goto(t, "again")
      /\ want' = [want EXCEPT ![t] = G!NoWant]
      /\ UNCHANGED <<graph_done, cur, minVars, inuse, sigma>>
  BY DEF SetHot, countVars
<1>2. n \in NBlocks /\ cur[t] # NoBlock
  BY <1>1 DEF SInv, Owners, Owning
<1>3. Bystander(t)
  BY <1>1, NoKids
  DEF Bystander, Goto, SameData, nodeVars, PCs, SInv, Types, SetHot
<1>4. /\ \A u \in Threads : u # t => pc'[u] = pc[u] /\ want'[u] = want[u]
      /\ pc'[t] = "again" /\ want' \in [Threads -> WantType]
  <2>1. G!NoWant \in WantType
    BY SpaceAssumption DEF G!NoWant, WantType
  <2>2. QED
    BY <1>1, <2>1 DEF Goto, SInv, Types, WantType
<1>5. Owners'
  BY <1>1, <1>2, <1>4 DEF SInv, Owners, Owning
<1>6. UNCHANGED <<BestF, bound>>
  BY <1>3 DEF Bystander, BestF, NodesOf, F
<1>7. GInv'
  <2>1. CASE ~MayHeat(n, want[t].val)
    <3>1. UNCHANGED <<hot, sigma_hot, free_list>>
      BY <2>1 DEF SetHot, countVars
    <3>2. QED
      BY <1>1, <1>6, <3>1 DEF GInv, P!Core, P!CoreTypes, P!SigmasExact, P!Exclusion,
        P!FreeListExact, P!HotIsTemporary, P!IsFree, P!Empty, P!Hopeless
  <2>2. CASE MayHeat(n, want[t].val)
    <3>1. G!HotAmong(Interferes[n]) = C
      BY SameOperators
    <3>2. /\ hot' = (hot \ C) \cup {n}
          /\ sigma_hot' = [m \in NBlocks |-> G!CooledSigmaHot(C)[m]
                                               + IF m \in Interferes[n] THEN 1 ELSE 0]
          /\ free_list' = (free_list \ (Interferes[n] \cap FreeNow)) \cup PutBack(C)
      BY <2>2, <3>1 DEF SetHot
    <3>3. \A m \in NBlocks : P!CooledSigmaHot(C)[m] \in Nat
      <4>1. C \in SUBSET hot
        OBVIOUS
      <4>2. QED
        BY <4>1, GraphAssumption, P!CooledCount DEF GInv, P!Core
    <3>4. sigma_hot' = [m \in NBlocks |-> IF m \in P!Interferes[n]
                                          THEN P!CooledSigmaHot(C)[m] + 1
                                          ELSE P!CooledSigmaHot(C)[m]]
      <4>1. G!CooledSigmaHot(C) = P!CooledSigmaHot(C) /\ Interferes = P!Interferes
        BY SameOperators
      <4>2. \A m \in NBlocks :
              P!CooledSigmaHot(C)[m] + (IF m \in P!Interferes[n] THEN 1 ELSE 0) =
                IF m \in P!Interferes[n] THEN P!CooledSigmaHot(C)[m] + 1
                                        ELSE P!CooledSigmaHot(C)[m]
        <5>1. \A x \in Nat : \A p \in BOOLEAN :
                x + (IF p THEN 1 ELSE 0) = IF p THEN x + 1 ELSE x
          OBVIOUS
        <5> HIDE DEF C, n
        <5>2. QED
          BY <3>3, <5>1
      <4> HIDE DEF C, n
      <4>3. QED
        BY <3>2, <4>1, <4>2
    <3>5. Interferes[n] \cap FreeNow = {m \in P!Interferes[n] : P!IsFree(m)}
      <4>1. Interferes[n] \subseteq NBlocks
        BY <1>2, InterferingBlocks
      <4>2. QED
        BY <4>1, SameOperators DEF FreeNow
    <3>6. PutBack(C) = P!Freed(P!AllInterferers(C))
      <4>1. PutBack(C) = G!Freed(P!AllInterferers(C))
        BY SameOperators DEF PutBack, P!AllInterferers
      <4>2. QED
        BY <4>1, SameFreed
    <3>7. free_list' = (free_list \ {m \in P!Interferes[n] : P!IsFree(m)})
                          \cup P!Freed(P!AllInterferers(C))
      BY <3>2, <3>5, <3>6
    <3>8. n \notin hot /\ sigma[n] > 0
      BY <2>2 DEF MayHeat
    <3>9. C = P!Interferes[n] \cap hot
      OBVIOUS
    <3>10. hot' = (hot \ C) \cup {n}
      BY <3>2
    <3>11. n \in NBlocks /\ UNCHANGED <<inuse, sigma, BestF, bound>> /\ P!Core
      BY <1>1, <1>2, <1>6 DEF GInv
    <3> HIDE DEF C, n
    <3>12. P!Core'
      BY <3>4, <3>7, <3>8, <3>9, <3>10, <3>11, GraphAssumption, P!HeatCore
    <3>13. QED
      BY <3>12 DEF GInv
  <2>3. QED
    BY <2>1, <2>2
<1>8. /\ cur' \in [Threads -> NBlocks \cup {NoBlock}]
      /\ local_f_min' \in [NBlocks -> Nat] /\ f_min' \in Nat
  BY <1>1 DEF SInv, Types, minVars
<1>9. QED
  BY <1>1, <1>3, <1>4, <1>5, <1>7, <1>8, BystanderInvariant

LEMMA CoolInvariant ==
  ASSUME GInv, SInv, NEW t \in Threads, WontRelease(t)
  PROVE  Bystander(t) /\ GInv' /\ SInv' /\ UNCHANGED <<minVars, inuse, cur>>
<1> DEFINE C == P!Interferes[cur[t]] \cap hot
<1>1. /\ pc[t] = "wont" /\ SameData /\ Goto(t, "body")
      /\ UNCHANGED <<graph_done, cur, localVars, minVars, inuse, sigma>>
  BY DEF WontRelease
<1>2. cur[t] \in NBlocks /\ cur[t] # NoBlock
  BY <1>1 DEF SInv, Types, Owners, Owning
<1>3. Bystander(t)
  BY <1>1, NoKids
  DEF Bystander, Goto, SameData, nodeVars, localVars, PCs, SInv, Types
<1>4. /\ \A u \in Threads : u # t => pc'[u] = pc[u]
      /\ pc'[t] = "body" /\ want' = want
  BY <1>1 DEF Goto, SInv, Types, localVars
<1>5. Owners'
  BY <1>1, <1>2, <1>4 DEF SInv, Owners, Owning
<1>6. UNCHANGED <<BestF, bound>>
  BY <1>3 DEF Bystander, BestF, NodesOf, F
<1>7. GInv'
  <2>1. G!HotAmong(Interferes[cur[t]]) = C
    BY SameOperators
  <2>2. PutBack(C) = P!Freed(P!AllInterferers(C))
    <3>1. PutBack(C) = G!Freed(P!AllInterferers(C))
      BY SameOperators DEF PutBack, P!AllInterferers
    <3>2. QED
      BY <3>1, SameFreed
  <2>3. /\ hot' = hot \ C /\ sigma_hot' = P!CooledSigmaHot(C)
        /\ free_list' = free_list \cup P!Freed(P!AllInterferers(C))
    BY <2>1, <2>2, SameOperators DEF WontRelease
  <2>4. C \in SUBSET hot
    OBVIOUS
  <2> HIDE DEF C
  <2>5. QED
    BY <1>1, <1>6, <2>3, <2>4, GraphAssumption, P!CoolCore DEF GInv
<1>8. /\ cur' \in [Threads -> NBlocks \cup {NoBlock}]
      /\ want' \in [Threads -> WantType]
      /\ local_f_min' \in [NBlocks -> Nat] /\ f_min' \in Nat
  BY <1>1, <1>4 DEF SInv, Types, WantType, minVars
<1>9. QED
  BY <1>1, <1>3, <1>5, <1>7, <1>8, BystanderInvariant

-----------------------------------------------------------------------------
(***************************************************************************)
(* Steps on nodes                                                          *)
(***************************************************************************)

\* A child lies in the scope of the thread that has it, and continues a path.
LEMMA ChildFacts ==
  ASSUME SInv, NEW t \in Threads, NEW k \in kids[t]
  PROVE  /\ pc[t] = "expand" /\ cur[t] # NoBlock
         /\ Project[k.to] \in P!Scope(cur[t])
         /\ CostToGo[Start] <= k.g + CostToGo[k.to]
<1>1. PICK s \in States : Project[s] = cur[t] /\ \A l \in kids[t] : IsChild(l, s)
  BY DEF SInv, KidsExact
<1>2. PICK e \in Edges[s] : k.to = e.to /\ k.g = g[s] + e.cost
  BY <1>1 DEF IsChild
<1>3. pc[t] = "expand" /\ cur[t] # NoBlock
  BY DEF SInv, KidsExact, Owners, Owning
<1>4. Project[k.to] \in P!Scope(cur[t])
  BY <1>1, <1>2, OPBNFAssumption DEF P!Scope
<1>5. CostToGo[s] <= e.cost + CostToGo[k.to] /\ e.cost \in Nat /\ k.to \in States
  BY <1>2, CostToGoEdge, SpaceAssumption
<1>6. CostToGo[Start] <= g[s] + CostToGo[s] /\ g[s] \in Nat
  BY DEF SInv, CostsReal, Types
<1>7. CostToGo[Start] \in Nat /\ CostToGo[s] \in Nat /\ CostToGo[k.to] \in Nat
  BY <1>5, CostToGoType, SpaceAssumption
<1>8. QED
  BY <1>2, <1>3, <1>4, <1>5, <1>6, <1>7

\* What a step may do to the costs: one of them falls to that of a child.
CostsSame == UNCHANGED g
Cheaper(t) ==
  \E k \in kids[t] : k.g < g[k.to] /\ g' = [g EXCEPT ![k.to] = k.g]

LEMMA CostSteps ==
  ASSUME NEW t \in Threads, NodeStep(t)
  PROVE  CostsSame \/ (Cheaper(t) /\ pc[t] = "expand" /\ UNCHANGED bound)
BY DEF NodeStep, DropNodes, FindGoal, ExpandNode, DropChild, FindGoalChild, KeepChild,
       Publish, CostsSame, Cheaper

LEMMA CostsFall ==
  ASSUME SInv, NEW t \in Threads, NodeStep(t)
  PROVE  /\ g' \in [States -> Nat] /\ g'[Start] = 0
         /\ \A s \in States : /\ g'[s] <= g[s]
                              /\ CostToGo[Start] <= g'[s] + CostToGo[s]
                              /\ cur[t] \notin {NoBlock} /\
                                 Project[s] \notin P!Scope(cur[t]) => g'[s] = g[s]
<1>1. g \in [States -> Nat] /\ g[Start] = 0 /\ Types
  BY DEF SInv, Types
<1>2. CASE CostsSame
  BY <1>1, <1>2 DEF CostsSame, SInv, CostsReal
<1>3. CASE Cheaper(t)
  <2>1. PICK k \in kids[t] : k.g < g[k.to] /\ g' = [g EXCEPT ![k.to] = k.g]
    BY <1>3 DEF Cheaper
  <2>2. k.to \in States /\ k.g \in Nat
    BY <1>1, ChildType
  <2>3. k.to # Start
    BY <1>1, <2>1, <2>2
  <2>4. /\ Project[k.to] \in P!Scope(cur[t])
        /\ CostToGo[Start] <= k.g + CostToGo[k.to]
    BY ChildFacts
  <2>5. \A s \in States : CostToGo[Start] <= g[s] + CostToGo[s]
    BY DEF SInv, CostsReal
  <2>6. QED
    BY <1>1, <2>1, <2>2, <2>3, <2>4, <2>5
<1>4. QED
  BY <1>2, <1>3, CostSteps

\* What the steps on nodes have in common.
NodeFrame(t) ==
  /\ pc[t] \in {"body", "expand", "path"} /\ cur[t] # NoBlock
  /\ pc' \in [Threads -> PCs] /\ pc'[t] \in Owning \ {"set_hot"}
  /\ \A u \in Threads : u # t =>
       pc'[u] = pc[u] /\ kids'[u] = kids[u] /\ sol'[u] = sol[u]
  /\ UNCHANGED graphSide
  /\ bound' \in 0..Infinity /\ bound' <= bound
  /\ \A s \in States : Project[s] \notin P!Scope(cur[t]) =>
       (s \in open' <=> s \in open)

LEMMA NodeStepFrame ==
  ASSUME SInv, NEW t \in Threads, NodeStep(t)
  PROVE  NodeFrame(t)
<1>1. /\ pc \in [Threads -> PCs] /\ kids \in [Threads -> SUBSET Child]
      /\ sol \in [Threads -> Nat] /\ bound \in 0..Infinity /\ Infinity \in Nat
      /\ open \subseteq States /\ Types
  BY SpaceAssumption DEF SInv, Types
<1>2. pc[t] \in {"body", "expand", "path"} /\ UNCHANGED graphSide
  BY DEF NodeStep, DropNodes, FindGoal, ExpandNode, DropChild, FindGoalChild,
         KeepChild, Publish
<1>3. cur[t] # NoBlock /\ cur[t] \in P!Scope(cur[t])
  BY <1>2 DEF SInv, Owners, Owning, P!Scope
<1>4. CASE DropNodes(t)
  BY <1>1, <1>2, <1>3, <1>4 DEF DropNodes, NodeFrame, Goto, PCs, Owning
<1>5. CASE FindGoal(t)
  BY <1>1, <1>2, <1>3, <1>5 DEF FindGoal, ReturnPath, NodeFrame, Goto, PCs, Owning
<1>6. CASE ExpandNode(t)
  BY <1>1, <1>2, <1>3, <1>6 DEF ExpandNode, NodeFrame, Goto, PCs, Owning
<1>7. CASE DropChild(t)
  BY <1>1, <1>2, <1>3, <1>7 DEF DropChild, NodeFrame, Goto, PCs, Owning
<1>8. CASE FindGoalChild(t)
  BY <1>1, <1>2, <1>3, <1>8 DEF FindGoalChild, ReturnPath, NodeFrame, Goto, PCs, Owning
<1>9. CASE KeepChild(t)
  BY <1>1, <1>2, <1>3, <1>9, ChildFacts DEF KeepChild, NodeFrame, Goto, PCs, Owning
<1>10. CASE Publish(t)
  <2>1. bound' \in 0..Infinity /\ bound' <= bound
    <3>1. sol[t] \in Nat
      BY <1>1
    <3>2. QED
      BY <1>1, <1>10, <3>1 DEF Publish
  <2>2. QED
    BY <1>1, <1>2, <1>3, <1>10, <2>1 DEF Publish, NodeFrame, Goto, PCs, Owning
<1>11. QED
  BY <1>4, <1>5, <1>6, <1>7, <1>8, <1>9, <1>10 DEF NodeStep

LEMMA NodeStepTypes ==
  ASSUME SInv, NEW t \in Threads, NodeStep(t)
  PROVE  Types'
<1>1. /\ kids \in [Threads -> SUBSET Child] /\ sol \in [Threads -> Nat]
      /\ open \subseteq States /\ left \in [NBlocks -> Nat] /\ Types
      /\ g \in [States -> Nat] /\ Infinity \in Nat
  BY SpaceAssumption DEF SInv, Types
<1>2. kids' \in [Threads -> SUBSET Child]
  <2>1. CASE ExpandNode(t)
    <3>1. PICK s \in open :
            kids' = [kids EXCEPT ![t] =
                       {[to |-> e.to, g |-> g[s] + e.cost] : e \in Edges[s]}]
      BY <2>1 DEF ExpandNode
    <3>2. {[to |-> e.to, g |-> g[s] + e.cost] : e \in Edges[s]} \in SUBSET Child
      BY <1>1, SpaceAssumption DEF Child
    <3>3. QED
      BY <1>1, <3>1, <3>2
  <2>2. CASE ~ExpandNode(t)
    BY <1>1, <2>2 DEF NodeStep, DropNodes, FindGoal, DropChild, FindGoalChild,
                      KeepChild, Publish
  <2>3. QED
    BY <2>1, <2>2
<1>3. \A s \in Goals : s \in States
  BY SpaceAssumption
<1>4. \A k \in kids[t] : k.g \in Nat /\ k.to \in States
  BY <1>1, ChildType
<1>5. sol' \in [Threads -> Nat]
  BY <1>1, <1>3, <1>4 DEF NodeStep, DropNodes, FindGoal, ExpandNode, DropChild,
     FindGoalChild, KeepChild, Publish, ReturnPath
<1>6. open' \subseteq States
  BY <1>1, <1>4 DEF NodeStep, DropNodes, FindGoal, ExpandNode, DropChild,
     FindGoalChild, KeepChild, Publish
<1>7. left' \in [NBlocks -> Nat]
  BY <1>1 DEF NodeStep, DropNodes, FindGoal, ExpandNode, DropChild,
     FindGoalChild, KeepChild, Publish
<1>8. QED
  BY <1>2, <1>5, <1>6, <1>7, CostsFall, NodeStepFrame
  DEF NodeFrame, graphSide, minVars, SInv, Types

LEMMA NodeStepGraph ==
  ASSUME GInv, SInv, NEW t \in Threads, NodeStep(t)
  PROVE  GInv' /\ Owners'
<1>1. NodeFrame(t) /\ Types /\ Types'
  BY NodeStepFrame, NodeStepTypes DEF SInv
<1>2. cur[t] \in inuse
  BY <1>1 DEF NodeFrame, SInv, Owners
<1>3. ASSUME NEW n \in NBlocks, n \notin P!Scope(cur[t])
      PROVE  BestF'[n] = BestF[n]
  <2>1. \A s \in States : Project[s] = n =>
          g'[s] = g[s] /\ (s \in open' <=> s \in open)
    BY <1>1, <1>3, CostsFall DEF NodeFrame
  <2>2. QED
    BY <1>1, <2>1, BestIsLocal
<1>4. BestF' \in [NBlocks -> P!F]
  <2>1. Types => BestF \in [NBlocks -> 0..Infinity]
    BY BestIsLeast
  <2>2. Types' => BestF' \in [NBlocks -> 0..Infinity]
    <3>1. ASSUME Types' PROVE \A n \in NBlocks : Vals(n)' \in SUBSET Nat
      BY <3>1, SpaceAssumption DEF Vals, Types, F
    <3>2. ASSUME Types', NEW n \in NBlocks
          PROVE  BestF'[n] \in 0..Infinity
      <4>1. BestF'[n] = Min(Vals(n)')
        BY DEF BestF, Vals, NodesOf
      <4>2. Vals(n)' \in SUBSET Nat /\ Infinity \in Vals(n)'
        BY <3>1, <3>2 DEF Vals
      <4>3. Min(Vals(n)') \in Vals(n)' /\ Min(Vals(n)') <= Infinity
        BY <4>2, MinIsLeast
      <4>4. QED
        BY <4>1, <4>2, <4>3, SpaceAssumption
    <3>3. QED
      BY <3>2 DEF BestF
  <2>3. QED
    BY <1>1, <2>2 DEF P!F
<1>5. GInv'
  <2>1. UNCHANGED <<inuse, sigma, hot, sigma_hot, free_list>>
    BY <1>1 DEF NodeFrame, graphSide, countVars
  <2>2. bound' \in P!F /\ bound' <= bound
    BY <1>1 DEF NodeFrame, P!F
  <2>3. \A n \in NBlocks : BestF'[n] # BestF[n] => \E m \in inuse : n \in P!Scope(m)
    BY <1>2, <1>3
  <2>4. P!Core'
    BY <1>4, <2>1, <2>2, <2>3, GraphAssumption, P!WorkCore DEF GInv
  <2>5. QED
    BY <2>4 DEF GInv
<1>6. Owners'
  BY <1>1 DEF NodeFrame, graphSide, countVars, SInv, Owners, Owning
<1>7. QED
  BY <1>5, <1>6

LEMMA KidsStayExact ==
  ASSUME GInv, SInv, NEW t \in Threads, NodeStep(t)
  PROVE  KidsExact'
<1>1. NodeFrame(t) /\ cur' = cur
  BY NodeStepFrame DEF NodeFrame, graphSide
<1>2. ASSUME NEW u \in Threads, u # t, kids'[u] # {}
      PROVE  /\ pc'[u] = "expand"
             /\ \E s \in States : /\ Project[s] = cur'[u]
                                  /\ \A k \in kids'[u] : IsChild(k, s)'
  <2>1. kids'[u] = kids[u] /\ pc'[u] = pc[u]
    BY <1>1, <1>2 DEF NodeFrame
  <2>2. /\ pc[u] = "expand"
        /\ \E s \in States : Project[s] = cur[u] /\ \A k \in kids[u] : IsChild(k, s)
    BY <1>2, <2>1 DEF SInv, KidsExact
  <2>3. PICK s \in States : Project[s] = cur[u] /\ \A k \in kids[u] : IsChild(k, s)
    BY <2>2
  <2>4. cur[u] # NoBlock /\ cur[t] # NoBlock
    BY <1>1, <2>2 DEF NodeFrame, SInv, Owners, Owning
  <2>5. Project[s] \notin P!Scope(cur[t])
    <3>1. cur[u] \in P!Scope(cur[u])
      BY DEF P!Scope
    <3>2. QED
      BY <1>2, <2>3, <2>4, <3>1, ScopesApart
  <2>6. g'[s] = g[s]
    BY <2>4, <2>5, CostsFall
  <2>7. QED
    BY <1>1, <2>1, <2>2, <2>3, <2>6 DEF IsChild
<1>3. ASSUME kids'[t] # {}
      PROVE  /\ pc'[t] = "expand"
             /\ \E s \in States : /\ Project[s] = cur'[t]
                                  /\ \A k \in kids'[t] : IsChild(k, s)'
  <2>1. /\ pc \in [Threads -> PCs] /\ kids \in [Threads -> SUBSET Child]
        /\ g \in [States -> Nat] /\ Types
    BY DEF SInv, Types
  <2>2. CASE ExpandNode(t)
    <3>1. PICK s \in open \ Goals :
            /\ Project[s] = cur[t]
            /\ kids' = [kids EXCEPT ![t] =
                          {[to |-> e.to, g |-> g[s] + e.cost] : e \in Edges[s]}]
      BY <2>2 DEF ExpandNode
    <3>2. s \in States /\ g' = g /\ pc'[t] = "expand"
      BY <2>1, <2>2 DEF ExpandNode, Goto, Types
    <3>3. \A k \in kids'[t] : IsChild(k, s)'
      BY <2>1, <3>1, <3>2 DEF IsChild
    <3>4. QED
      BY <1>1, <3>1, <3>2, <3>3
  <2>3. CASE DropChild(t) \/ KeepChild(t)
    <3>1. kids'[t] \subseteq kids[t] /\ pc'[t] = "expand"
      BY <2>1, <2>3 DEF DropChild, KeepChild
    <3>2. PICK s \in States : Project[s] = cur[t] /\ \A l \in kids[t] : IsChild(l, s)
      BY <1>3, <3>1 DEF SInv, KidsExact
    <3>3. g'[s] = g[s]
      <4>1. CASE CostsSame
        BY <4>1 DEF CostsSame
      <4>2. CASE Cheaper(t)
        <5>1. PICK k \in kids[t] : k.g < g[k.to] /\ g' = [g EXCEPT ![k.to] = k.g]
          BY <4>2 DEF Cheaper
        <5>2. PICK e \in Edges[s] : k.to = e.to /\ k.g = g[s] + e.cost
          BY <3>2 DEF IsChild
        <5>3. g[s] \in Nat /\ e.cost \in Nat
          BY <2>1, SpaceAssumption
        <5>4. k.to # s
          BY <5>1, <5>2, <5>3
        <5>5. QED
          BY <2>1, <5>1, <5>4
      <4>3. QED
        BY <4>1, <4>2, CostSteps
    <3>4. QED
      BY <1>1, <3>1, <3>2, <3>3 DEF IsChild
  <2>4. CASE DropNodes(t) \/ FindGoal(t) \/ Publish(t)
    <3>1. kids' = kids /\ pc[t] # "expand"
      BY <2>4 DEF DropNodes, FindGoal, Publish
    <3>2. QED
      BY <1>3, <3>1, NoKids
  <2>5. CASE FindGoalChild(t)
    BY <1>3, <2>1, <2>5 DEF FindGoalChild
  <2>6. QED
    BY <2>2, <2>3, <2>4, <2>5 DEF NodeStep
<1>4. QED
  BY <1>2, <1>3 DEF KidsExact

\* What a step on nodes does to the path of its thread, and to the bound.
LEMMA PathSteps ==
  ASSUME SInv, NEW t \in Threads, NodeStep(t)
  PROVE  \/ pc'[t] # "path" /\ pc[t] # "path" /\ UNCHANGED bound
         \/ pc'[t] = "again" /\ Publish(t) /\ bound' \in {bound, sol[t]}
         \/ /\ pc'[t] = "path" /\ pc[t] # "path" /\ UNCHANGED bound
            /\ \/ FindGoal(t) /\ \E s \in open \cap Goals :
                    Project[s] = cur[t] /\ sol'[t] = g[s]
               \/ FindGoalChild(t) /\ \E k \in kids[t] :
                    k.to \in Goals /\ sol'[t] = k.g
<1>1. pc \in [Threads -> PCs] /\ sol \in [Threads -> Nat]
  BY DEF SInv, Types
<1>2. CASE DropNodes(t) \/ ExpandNode(t) \/ DropChild(t) \/ KeepChild(t)
  BY <1>1, <1>2 DEF DropNodes, ExpandNode, DropChild, KeepChild, Goto
<1>3. CASE FindGoal(t) \/ FindGoalChild(t)
  BY <1>1, <1>3 DEF FindGoal, FindGoalChild, ReturnPath, Goto
<1>4. CASE Publish(t)
  BY <1>1, <1>4 DEF Publish, Goto
<1>5. QED
  BY <1>2, <1>3, <1>4 DEF NodeStep

LEMMA CostsStayReal ==
  ASSUME SInv, NEW t \in Threads, NodeStep(t)
  PROVE  CostsReal'
<1>1. /\ CostsReal /\ Types /\ CostToGo[Start] \in Nat
      /\ \A s \in Goals : CostToGo[s] = 0 /\ s \in States
  BY CostToGoBound, CostToGoType, SpaceAssumption DEF SInv
<1>2. \A s \in States : CostToGo[Start] <= g'[s] + CostToGo[s]
  BY CostsFall
<1>3. \A s \in Goals : CostToGo[Start] <= g[s]
  BY <1>1 DEF CostsReal, Types
<1>4. \A k \in kids[t] : k.to \in Goals => CostToGo[Start] <= k.g
  BY <1>1, ChildFacts, ChildType
<1>5. \A u \in Threads : pc'[u] = "path" => CostToGo[Start] <= sol'[u]
  <2>1. ASSUME NEW u \in Threads, u # t, pc'[u] = "path"
        PROVE  CostToGo[Start] <= sol'[u]
    BY <1>1, <2>1, NodeStepFrame DEF NodeFrame, CostsReal
  <2>2. ASSUME pc'[t] = "path"
        PROVE  CostToGo[Start] <= sol'[t]
    BY <1>3, <1>4, <2>2, PathSteps
  <2>3. QED
    BY <2>1, <2>2
<1>6. CostToGo[Start] <= bound'
  BY <1>1, PathSteps DEF CostsReal, Publish
<1>7. QED
  BY <1>2, <1>5, <1>6 DEF CostsReal

LEMMA NodeStepInvariant ==
  ASSUME GInv, SInv, NEW t \in Threads, NodeStep(t)
  PROVE  GInv' /\ SInv'
BY NodeStepTypes, NodeStepGraph, KidsStayExact, CostsStayReal DEF SInv

-----------------------------------------------------------------------------
(***************************************************************************)
(* The invariant, for any heuristic                                        *)
(***************************************************************************)

LEMMA InvInit ==
  ASSUME Init
  PROVE  GInv /\ SInv
<1>1. /\ g = [s \in States |-> IF s = Start THEN 0 ELSE Infinity] /\ open = {Start}
      /\ inuse = {} /\ hot = {} /\ free_list = {FirstBlock}
      /\ sigma = [n \in NBlocks |-> 0] /\ sigma_hot = [n \in NBlocks |-> 0]
      /\ \A t \in Threads : pc[t] = "read" /\ cur[t] = NoBlock /\ kids[t] = {}
      /\ bound = Infinity
  BY DEF Init, FirstBlock
<1>2. Types
  <2>1. G!NoWant \in WantType
    BY SpaceAssumption DEF G!NoWant, WantType
  <2>2. QED
    BY <2>1, SpaceAssumption DEF Init, Types, PCs, WantType
<1>3. Owners /\ KidsExact
  BY <1>1 DEF Owners, Owning, KidsExact
<1>4. CostsReal
  <2>1. \A s \in States : /\ CostToGo[s] \in Nat /\ CostToGo[s] <= Infinity
                          /\ (g[s] = 0 /\ s = Start) \/ g[s] = Infinity
    BY <1>1, CostToGoType, CostToGoBound
  <2>2. CostToGo[Start] \in Nat /\ CostToGo[Start] <= Infinity /\ Infinity \in Nat
    BY <2>1, SpaceAssumption
  <2>3. \A s \in States : CostToGo[Start] <= g[s] + CostToGo[s]
    BY <2>1, <2>2
  <2>4. QED
    BY <1>1, <2>2, <2>3 DEF CostsReal
<1>5. P!CoreTypes
  BY <1>1, <1>2, BestIsLeast, SpaceAssumption, OPBNFAssumption
  DEF P!CoreTypes, P!F, FirstBlock
<1>6. P!SigmasExact
  <2>1. P!Cardinality({}) = 0
    BY FiniteSame, FS_EmptySet
  <2>2. QED
    BY <1>1, <2>1 DEF P!SigmasExact
<1>7. P!FreeListExact
  <2>1. BestF[FirstBlock] # Infinity
    <3>1. F(Start) = H[Start] /\ Start \in open
      BY <1>1, SpaceAssumption DEF F
    <3>2. BestF[FirstBlock] <= H[Start]
      BY <1>2, <3>1, BestIsLeast DEF FirstBlock
    <3>3. BestF[FirstBlock] \in 0..Infinity
      BY <1>2, BestIsLeast, SpaceAssumption, OPBNFAssumption DEF FirstBlock
    <3>4. H[Start] \in Nat /\ H[Start] < Infinity
      BY SpaceAssumption, OPBNFAssumption
    <3>5. QED
      BY <3>2, <3>3, <3>4, SpaceAssumption
  <2>2. \A n \in NBlocks : n # FirstBlock => BestF[n] = Infinity
    BY <1>1, <1>2, BestIsLeast DEF Vals, FirstBlock
  <2>3. FirstBlock \in NBlocks
    BY SpaceAssumption, OPBNFAssumption DEF FirstBlock
  <2>4. QED
    BY <1>1, <2>1, <2>2, <2>3 DEF P!FreeListExact, P!IsFree, P!Empty
<1>8. P!Exclusion /\ P!HotIsTemporary
  BY <1>1 DEF P!Exclusion, P!HotIsTemporary
<1>9. QED
  BY <1>2, <1>3, <1>4, <1>5, <1>6, <1>7, <1>8 DEF GInv, SInv, P!Core

LEMMA InvStutter ==
  ASSUME GInv, SInv, UNCHANGED vars
  PROVE  GInv' /\ SInv'
<1>1. UNCHANGED <<BestF, bound, inuse, sigma, hot, sigma_hot, free_list>>
  BY DEF vars, countVars, nodeVars, BestF, NodesOf, F
<1>2. GInv'
  BY <1>1 DEF GInv, P!Core, P!CoreTypes, P!SigmasExact, P!Exclusion,
    P!FreeListExact, P!HotIsTemporary, P!IsFree, P!Empty, P!Hopeless
<1>3. SInv'
  BY DEF vars, countVars, nodeVars, localVars, minVars, SInv, Types, Owners,
         KidsExact, IsChild, CostsReal
<1>4. QED
  BY <1>2, <1>3

\* The steps that are not on nodes, and what the sharper invariant needs to
\* know of them.
LEMMA OtherSteps ==
  ASSUME GInv, SInv, NEW t \in Threads,
         \/ QuietStep(t) \/ Keep(t) \/ Release(t) \/ Take(t) \/ SetHot(t)
         \/ WontRelease(t)
  PROVE  Bystander(t) /\ GInv' /\ SInv'
BY QuietFrame, QuietInvariant, KeepInvariant, ReleaseInvariant, TakeInvariant,
   HeatInvariant, CoolInvariant

LEMMA InvStep ==
  ASSUME GInv, SInv, [Next]_vars
  PROVE  GInv' /\ SInv'
BY StepKinds, OtherSteps, NodeStepInvariant, InvStutter

LEMMA InvHolds == Spec => [](GInv /\ SInv)
<1>1. Init => GInv /\ SInv
  BY InvInit
<1>2. GInv /\ SInv /\ [Next]_vars => (GInv /\ SInv)'
  BY InvStep
<1>3. QED
  BY <1>1, <1>2, PTL DEF Spec

\* No two threads reach the same block: a block that one of them has is not
\* in the scope of another's.
ListsApart ==
  \A t, u \in Threads :
    t # u /\ cur[t] # NoBlock /\ cur[u] # NoBlock =>
      G!Scope(cur[t]) \cap G!Scope(cur[u]) = {}

(***************************************************************************)
(* The threads of optimistic PBNF share the open and closed lists without  *)
(* a lock and without a conflict, also when they leave the search with a   *)
(* block that they never give back.                                        *)
(***************************************************************************)
THEOREM ListsAreNotShared == Spec => []ListsApart
<1>1. GInv /\ SInv => ListsApart
  BY ScopesApart DEF ListsApart, G!Scope, P!Scope
<1>2. QED
  BY <1>1, InvHolds, PTL

-----------------------------------------------------------------------------
(***************************************************************************)
(* No promising node is forgotten                                          *)
(***************************************************************************)

LEMMA BestCost ==
  ASSUME Types
  PROVE  /\ CostToGo[Start] \in Nat /\ bound \in Nat /\ b \in Nat
         /\ CostToGo[Start] <= b * CostToGo[Start]
         /\ b * CostToGo[Start] \in Nat
         /\ bound <= Infinity /\ Infinity \in Nat
         /\ ~Found => b * CostToGo[Start] < bound
<1>1. CostToGo[Start] \in Nat /\ Infinity \in Nat
  BY CostToGoType, SpaceAssumption
<1>2. bound \in Nat /\ bound <= Infinity
  BY <1>1 DEF Types
<1>3. /\ b \in Nat /\ CostToGo[Start] <= b * CostToGo[Start]
      /\ b * CostToGo[Start] \in Nat
  BY <1>1, FactorMonotone
<1>4. QED
  BY <1>1, <1>2, <1>3 DEF Found

\* A node promises what its children promise.
LEMMA ParentPromises ==
  ASSUME NEW s \in States, NEW e \in Edges[s], NEW v \in Nat,
         Promises(e.to, v + e.cost)
  PROVE  Promises(s, v)
<1>1. e.to \in States /\ e.cost \in Nat
  BY SpaceAssumption
<1>2. v + e.cost + CostToGo[e.to] <= CostToGo[Start]
  BY <1>1, PromisesCost
<1>3. CostToGo[s] <= e.cost + CostToGo[e.to]
  BY CostToGoEdge
<1>4. CostToGo[s] \in Nat /\ CostToGo[e.to] \in Nat /\ CostToGo[Start] \in Nat
  BY <1>1, CostToGoType, SpaceAssumption
<1>5. v + CostToGo[s] <= CostToGo[Start]
  BY <1>1, <1>2, <1>3, <1>4
<1>6. QED
  BY <1>5, CostPromises

\* Of a goal, it is its own cost that matters.
LEMMA GoalPromises ==
  ASSUME NEW s \in Goals, NEW v \in Nat
  PROVE  v <= CostToGo[Start] <=> Promises(s, v)
<1>1. s \in States /\ CostToGo[s] = 0 /\ CostToGo[Start] \in Nat
  BY CostToGoBound, CostToGoType, SpaceAssumption
<1>2. Promises(s, v) => v <= CostToGo[Start]
  <2>1. Promises(s, v) => v + CostToGo[s] <= CostToGo[Start]
    BY <1>1, PromisesCost
  <2>2. QED
    BY <1>1, <2>1
<1>3. v <= CostToGo[Start] => Promises(s, v)
  <2>1. v <= CostToGo[Start] => v + CostToGo[s] <= CostToGo[Start]
    BY <1>1
  <2>2. QED
    BY <1>1, <2>1, CostPromises
<1>4. QED
  BY <1>2, <1>3

\* A promising node is out of the bound only if a good solution is known.
LEMMA TooDearFound ==
  ASSUME Admissible, Types, NEW s \in States, NEW v \in Nat, Promises(s, v),
         OutOfBound(v + H[s])
  PROVE  Found
<1>1. v + H[s] <= CostToGo[Start] /\ v + H[s] \in Nat
  BY PromisesBound, SpaceAssumption
<1>2. /\ b * (v + H[s]) <= b * CostToGo[Start]
      /\ b * (v + H[s]) \in Nat /\ b * CostToGo[Start] \in Nat
  BY <1>1, BestCost, FactorMonotone
<1>3. QED
  BY <1>2, BestCost DEF OutOfBound, Found

\* A good solution is not lost, and b does not change.
LEMMA FoundStays ==
  ASSUME SInv, SInv', b' = b, bound' <= bound, Found
  PROVE  Found'
<1>1. bound \in Nat /\ bound' \in Nat /\ b * CostToGo[Start] \in Nat
  BY BestCost, SpaceAssumption DEF SInv, Types
<1>2. QED
  BY <1>1 DEF Found

\* A cheapest solution that a thread goes to publish becomes the bound.
LEMMA PathStays ==
  ASSUME SInv, NEW t \in Threads, NodeStep(t), ~Found', NEW u \in Threads, PathFound(u)
  PROVE  PathFound(u)'
<1>1. NodeFrame(t) /\ Types /\ b' = b
  BY NodeStepFrame DEF NodeFrame, graphSide, SInv
<1>2. CASE u = t
  <2>1. Publish(t)
    BY <1>2, PathSteps DEF PathFound
  <2>2. sol[t] \in Nat /\ bound' <= sol[t] /\ bound' \in Nat
    BY <1>1, <2>1, BestCost DEF Publish, Types
  <2>3. bound' <= b * CostToGo[Start]
    BY <1>1, <1>2, <2>2, BestCost DEF PathFound
  <2>4. QED
    BY <1>1, <2>3 DEF Found
<1>3. CASE u # t
  BY <1>1, <1>3 DEF NodeFrame, PathFound
<1>4. QED
  BY <1>2, <1>3

\* The children of an expanded node stay known, unless the step is about one
\* of them.
LEMMA ExpandedStays ==
  ASSUME NEW s \in States, Expanded(s), g'[s] = g[s],
         \A e \in Edges[s] : Promises(e.to, g[s] + e.cost) /\ Known(s, e)
                               => Known(s, e)'
  PROVE  Expanded(s)'
BY DEF Expanded

\* A state that is known stays known, if the child is still there or was not
\* needed.
LEMMA KnownStays ==
  ASSUME SInv, NEW t \in Threads, NodeStep(t), NEW s \in States, g'[s] = g[s],
         NEW e \in Edges[s], Known(s, e),
         \A k \in kids[t] : k.to = e.to /\ k.g <= g[s] + e.cost =>
           k \in kids'[t] \/ g'[e.to] <= g[s] + e.cost
  PROVE  Known(s, e)'
<1>1. CASE g[e.to] <= g[s] + e.cost
  <2>1. e.to \in States /\ e.cost \in Nat
    BY SpaceAssumption
  <2>2. g'[e.to] \in Nat /\ g[e.to] \in Nat /\ g[s] \in Nat /\ g'[e.to] <= g[e.to]
    BY <2>1, CostsFall DEF SInv, Types
  <2>3. QED
    BY <1>1, <2>1, <2>2 DEF Known
<1>2. ASSUME NEW u \in Threads, NEW k \in kids[u], k.to = e.to, k.g <= g[s] + e.cost
      PROVE  Known(s, e)'
  <2>1. u # t => kids'[u] = kids[u]
    BY NodeStepFrame DEF NodeFrame
  <2>2. QED
    BY <1>2, <2>1 DEF Known
<1>3. QED
  BY <1>1, <1>2 DEF Known

LEMMA ExpandForgetsNothing ==
  ASSUME SInv, NEW t \in Threads, ExpandNode(t), NEW s \in States,
         s \in open \/ Expanded(s)
  PROVE  s \in open' \/ Expanded(s)'
<1>1. PICK x \in open \ Goals :
        /\ open' = open \ {x}
        /\ kids' = [kids EXCEPT ![t] =
                      {[to |-> e.to, g |-> g[x] + e.cost] : e \in Edges[x]}]
  BY DEF ExpandNode
<1>2. /\ g' = g /\ kids \in [Threads -> SUBSET Child] /\ kids[t] = {}
      /\ g \in [States -> Nat] /\ x \in States
  BY NoKids DEF ExpandNode, SInv, Types
<1>3. ASSUME NEW e \in Edges[x] PROVE Known(x, e)'
  <2> DEFINE k == [to |-> e.to, g |-> g[x] + e.cost]
  <2>1. k \in kids'[t]
    BY <1>1, <1>2
  <2>2. e.cost \in Nat
    BY <1>2, SpaceAssumption
  <2>3. k.to = e.to /\ k.g <= g'[x] + e.cost
    BY <1>2, <2>2
  <2>4. QED
    BY <2>1, <2>3 DEF Known
<1>4. CASE s = x
  BY <1>1, <1>3, <1>4 DEF Expanded
<1>5. CASE s # x /\ s \in open
  BY <1>1, <1>5
<1>6. CASE Expanded(s)
  <2>1. \A e \in Edges[s] : Known(s, e) => Known(s, e)'
    BY <1>2, KnownStays DEF NodeStep
  <2>2. QED
    BY <1>2, <1>6, <2>1, ExpandedStays
<1>7. QED
  BY <1>4, <1>5, <1>6

LEMMA DropForgetsNothing ==
  ASSUME Admissible, SInv, NEW t \in Threads, DropChild(t), ~Found, NEW s \in States,
         s \in open \/ Expanded(s)
  PROVE  s \in open' \/ Expanded(s)'
<1>1. PICK k \in kids[t] :
        /\ OutOfBound(k.g + H[k.to]) \/ g[k.to] <= k.g
        /\ kids' = [kids EXCEPT ![t] = @ \ {k}]
  BY DEF DropChild
<1>2. /\ g' = g /\ open' = open /\ kids \in [Threads -> SUBSET Child]
      /\ g \in [States -> Nat] /\ Types
      /\ k.to \in States /\ k.g \in Nat
  BY ChildType DEF DropChild, SInv, Types
<1>3. ASSUME NEW e \in Edges[s], Promises(e.to, g[s] + e.cost), Known(s, e)
      PROVE  Known(s, e)'
  <2>1. e.to \in States /\ e.cost \in Nat /\ g[s] + e.cost \in Nat
    BY <1>2, SpaceAssumption
  <2>2. ASSUME k.to = e.to, k.g <= g[s] + e.cost
        PROVE  g'[e.to] <= g[s] + e.cost
    <3>1. Promises(k.to, k.g)
      BY <1>2, <1>3, <2>1, <2>2, PromisesMore
    <3>2. g[k.to] <= k.g
      BY <1>1, <1>2, <3>1, TooDearFound
    <3>3. g[k.to] \in Nat
      BY <1>2
    <3>4. QED
      BY <1>2, <2>1, <2>2, <3>2, <3>3
  <2>3. \A l \in kids[t] : l # k => l \in kids'[t]
    BY <1>1, <1>2
  <2>4. QED
    BY <1>2, <1>3, <2>2, <2>3, KnownStays DEF NodeStep
<1>4. QED
  BY <1>2, <1>3, ExpandedStays

\* The siblings of a goal among the children cannot be better than it.
LEMMA GoalForgetsNothing ==
  ASSUME GoalEdgesAreShortest, SInv, NEW t \in Threads, FindGoalChild(t),
         ~PathFound(t)', NEW s \in States, Promises(s, g'[s]),
         Promises(s, g[s]) => s \in open \/ Expanded(s)
  PROVE  s \in open' \/ Expanded(s)'
<1>1. PICK k \in kids[t] :
        /\ k.to \in Goals /\ k.g < g[k.to]
        /\ g' = [g EXCEPT ![k.to] = k.g]
        /\ ReturnPath(t, k.g)
  BY DEF FindGoalChild
<1>2. /\ open' = open /\ kids' = [kids EXCEPT ![t] = {}]
      /\ kids \in [Threads -> SUBSET Child] /\ g \in [States -> Nat]
      /\ sol \in [Threads -> Nat] /\ pc \in [Threads -> PCs] /\ Types
  BY DEF FindGoalChild, SInv, Types
<1>3. k.to \in States /\ k.g \in Nat /\ g[k.to] \in Nat
  BY <1>2, ChildType
<1>4. ~(k.g <= CostToGo[Start])
  BY <1>1, <1>2 DEF ReturnPath, Goto, PathFound
<1>5. s # k.to
  <2>1. ASSUME s = k.to PROVE FALSE
    <3>1. g'[k.to] = k.g
      BY <1>1, <1>2, <1>3
    <3>2. Promises(k.to, k.g)
      BY <2>1, <3>1
    <3>3. QED
      BY <1>1, <1>3, <1>4, <3>2, GoalPromises
  <2>2. QED
    BY <2>1
<1>6. g'[s] = g[s] /\ (s \in open \/ Expanded(s))
  BY <1>1, <1>2, <1>5
<1>7. PICK x \in States : \A l \in kids[t] : IsChild(l, x)
  BY DEF SInv, KidsExact
<1>8. ~Promises(x, g[x])
  <2>1. PICK e \in Edges[x] : k.to = e.to /\ k.g = g[x] + e.cost
    BY <1>7 DEF IsChild
  <2>2. e.cost = CostToGo[x]
    BY <1>1, <2>1 DEF GoalEdgesAreShortest
  <2>3. g[x] \in Nat
    BY <1>2
  <2>4. QED
    BY <1>4, <2>1, <2>2, <2>3, PromisesCost
<1>9. ASSUME NEW l \in kids[t] PROVE ~Promises(l.to, l.g)
  <2>1. PICK e \in Edges[x] : l.to = e.to /\ l.g = g[x] + e.cost
    BY <1>7 DEF IsChild
  <2>2. g[x] \in Nat
    BY <1>2
  <2>3. QED
    BY <1>8, <2>1, <2>2, ParentPromises
<1>10. ASSUME NEW e \in Edges[s], Promises(e.to, g[s] + e.cost), Known(s, e)
       PROVE  Known(s, e)'
  <2>1. e.to \in States /\ e.cost \in Nat /\ g[s] + e.cost \in Nat
    BY <1>2, SpaceAssumption
  <2>2. ASSUME NEW l \in kids[t], l.to = e.to, l.g <= g[s] + e.cost
        PROVE  FALSE
    <3>1. l.g \in Nat
      BY <1>2, ChildType
    <3>2. Promises(l.to, l.g)
      BY <1>10, <2>1, <2>2, <3>1, PromisesMore
    <3>3. QED
      BY <1>9, <3>2
  <2>3. QED
    BY <1>6, <1>10, <2>2, KnownStays DEF NodeStep
<1>11. QED
  BY <1>2, <1>6, <1>10, ExpandedStays

LEMMA KeepForgetsNothing ==
  ASSUME SInv, NEW t \in Threads, KeepChild(t),
         NEW s \in States, Promises(s, g'[s]),
         Promises(s, g[s]) => s \in open \/ Expanded(s)
  PROVE  s \in open' \/ Expanded(s)'
<1>1. PICK k \in kids[t] :
        /\ k.g < g[k.to] /\ g' = [g EXCEPT ![k.to] = k.g]
        /\ open' = open \cup {k.to}
        /\ kids' = [kids EXCEPT ![t] = @ \ {k}]
  BY DEF KeepChild
<1>2. /\ kids \in [Threads -> SUBSET Child] /\ g \in [States -> Nat]
      /\ k.to \in States /\ k.g \in Nat
  BY ChildType DEF SInv, Types
<1>3. CASE s = k.to
  BY <1>1, <1>3
<1>4. CASE s # k.to
  <2>1. g'[s] = g[s] /\ (s \in open \/ Expanded(s))
    BY <1>1, <1>2, <1>4
  <2>2. ASSUME NEW e \in Edges[s], Known(s, e)
        PROVE  Known(s, e)'
    <3>1. \A l \in kids[t] : l = k \/ l \in kids'[t]
      BY <1>1, <1>2
    <3>2. g'[k.to] = k.g
      BY <1>1, <1>2
    <3>3. QED
      BY <2>1, <2>2, <3>1, <3>2, KnownStays DEF NodeStep
  <2>3. QED
    BY <1>1, <2>1, <2>2, ExpandedStays
<1>5. QED
  BY <1>3, <1>4

LEMMA NodeStepForgetsNothing ==
  ASSUME Admissible, GoalEdgesAreShortest, GInv, SInv, NothingForgotten,
         NEW t \in Threads, NodeStep(t)
  PROVE  NothingForgotten'
<1> SUFFICES ASSUME ~Found', \A u \in Threads : ~PathFound(u)', NEW s \in States,
                    Promises(s, g'[s])
             PROVE  s \in open' \/ Expanded(s)'
  BY DEF NothingForgotten
<1>1. Types /\ b' = b /\ bound' <= bound
  BY NodeStepFrame DEF NodeFrame, graphSide, SInv
<1>2. ~Found
  BY <1>1, NodeStepInvariant, FoundStays
<1>3. Promises(s, g[s]) => s \in open \/ Expanded(s)
  BY <1>2, PathStays DEF NothingForgotten
<1>4. CASE DropNodes(t)
  <2>1. UNCHANGED <<g, kids>> /\ Promises(s, g[s])
    BY <1>4 DEF DropNodes
  <2>2. PICK D \in SUBSET open : /\ open' = open \ D
                                 /\ \A o \in D : OutOfBound(F(o))
    BY <1>4 DEF DropNodes
  <2>3. ~OutOfBound(F(s))
    BY <1>1, <1>2, <2>1, TooDearFound DEF F, Types
  <2>4. CASE s \in open
    BY <2>2, <2>3, <2>4
  <2>5. CASE Expanded(s)
    BY <2>1, <2>5 DEF Expanded, Known
  <2>6. QED
    BY <1>3, <2>1, <2>4, <2>5
<1>5. CASE FindGoal(t)
  <2>1. UNCHANGED <<g, kids>> /\ Promises(s, g[s])
    BY <1>5 DEF FindGoal
  <2>2. PICK x \in open \cap Goals : open' = open \ {x} /\ ReturnPath(t, g[x])
    BY <1>5 DEF FindGoal
  <2>3. s # x
    <3>1. ASSUME s = x PROVE FALSE
      <4>1. pc'[t] = "path" /\ sol'[t] = g[s]
        BY <1>1, <2>2, <3>1 DEF ReturnPath, Goto, Types
      <4>2. g[s] \in Nat /\ s \in Goals
        BY <1>1, <2>2, <3>1 DEF Types
      <4>3. g[s] <= CostToGo[Start]
        BY <2>1, <4>2, GoalPromises
      <4>4. QED
        BY <4>1, <4>3 DEF PathFound
    <3>2. QED
      BY <3>1
  <2>4. CASE s \in open
    BY <2>2, <2>3, <2>4
  <2>5. CASE Expanded(s)
    BY <2>1, <2>5 DEF Expanded, Known
  <2>6. QED
    BY <1>3, <2>1, <2>4, <2>5
<1>6. CASE ExpandNode(t)
  BY <1>3, <1>6, ExpandForgetsNothing DEF ExpandNode
<1>7. CASE DropChild(t)
  BY <1>2, <1>3, <1>7, DropForgetsNothing DEF DropChild
<1>8. CASE FindGoalChild(t)
  BY <1>3, <1>8, GoalForgetsNothing
<1>9. CASE KeepChild(t)
  BY <1>3, <1>9, KeepForgetsNothing
<1>10. CASE Publish(t)
  <2>1. UNCHANGED <<g, open, kids>> /\ Promises(s, g[s])
    BY <1>10 DEF Publish
  <2>2. QED
    BY <1>3, <2>1 DEF Expanded, Known
<1>11. QED
  BY <1>4, <1>5, <1>6, <1>7, <1>8, <1>9, <1>10 DEF NodeStep

LEMMA BystanderForgetsNothing ==
  ASSUME SInv, NothingForgotten, NEW t \in Threads, Bystander(t)
  PROVE  /\ NothingForgotten' /\ Found' = Found
         /\ \A u \in Threads : Carries(u)' => Carries(u) /\ u # t
<1>1. \A u \in Threads : u # t => pc'[u] = pc[u]
  BY DEF Bystander, Goto, SInv, Types
<1>2. Found' = Found
  BY DEF Bystander, Found
<1>3. \A u \in Threads : PathFound(u)' <=> PathFound(u)
  BY <1>1 DEF Bystander, PathFound
<1>4. UNCHANGED <<g, open, kids>>
  BY DEF Bystander
<1>5. NothingForgotten'
  BY <1>2, <1>3, <1>4 DEF NothingForgotten, Expanded, Known
<1>6. \A u \in Threads : Carries(u)' => Carries(u) /\ u # t
  BY <1>3, <1>4 DEF Carries, Bystander, PathFound
<1>7. QED
  BY <1>2, <1>5, <1>6

-----------------------------------------------------------------------------
(***************************************************************************)
(* Where the minima are low                                                *)
(***************************************************************************)

\* Nodes are opened, and costs fall, by children only.
LEMMA OpenGrows ==
  ASSUME SInv, NEW t \in Threads, NodeStep(t), NEW s \in open'
  PROVE  \/ s \in open /\ g'[s] = g[s]
         \/ \E k \in kids[t] : s = k.to /\ g'[s] = k.g
<1>1. /\ g \in [States -> Nat] /\ open \subseteq States
      /\ \A k \in kids[t] : k.to \in States
  BY ChildType DEF SInv, Types
<1>2. \/ s \in open
      \/ \E k \in kids[t] : s = k.to /\ g' = [g EXCEPT ![k.to] = k.g]
  BY DEF NodeStep, DropNodes, FindGoal, ExpandNode, DropChild, FindGoalChild,
         KeepChild, Publish
<1>3. ASSUME s \in open
      PROVE  g'[s] = g[s] \/ \E k \in kids[t] : s = k.to /\ g'[s] = k.g
  <2>1. CASE CostsSame
    BY <2>1 DEF CostsSame
  <2>2. CASE Cheaper(t)
    <3>1. PICK k \in kids[t] : g' = [g EXCEPT ![k.to] = k.g]
      BY <2>2 DEF Cheaper
    <3>2. QED
      BY <1>1, <1>3, <3>1
  <2>3. QED
    BY <2>1, <2>2, CostSteps
<1>4. QED
  BY <1>1, <1>2, <1>3

\* A search in the first block opens nodes in its scope.
LEMMA NodeStepEarly ==
  ASSUME SInv, NEW t \in Threads, NodeStep(t), Early
  PROVE  Early'
<1>1. NodeFrame(t) /\ UNCHANGED <<f_min, inuse>>
  BY NodeStepFrame DEF NodeFrame, graphSide, countVars, minVars
<1>2. cur[t] \in inuse /\ cur[t] = FirstBlock
  BY <1>1 DEF NodeFrame, SInv, Owners, Early
<1>3. ASSUME NEW s \in open'
      PROVE  Project[s] \in P!Scope(FirstBlock)
  BY <1>2, <1>3, OpenGrows, ChildFacts DEF Early
<1>4. QED
  BY <1>1, <1>2, <1>3 DEF Early

\* While the first block is in use, every other block with nodes interferes
\* with it.
LEMMA TakeEarly ==
  ASSUME GInv, SInv, NEW n \in free_list, inuse' = inuse \cup {n},
         UNCHANGED <<f_min, open>>, Early
  PROVE  Early'
<1>1. /\ n \in NBlocks /\ n \notin inuse /\ BestF[n] # Infinity
      /\ P!Interferes[n] \cap inuse = {}
  BY GraphAssumption, P!FreeFacts DEF GInv, P!Empty
<1>2. FirstBlock \in NBlocks
  BY GraphAssumption DEF FirstBlock
<1>3. PICK s \in open : Project[s] = n
  BY <1>1, BestIsLeast DEF Vals, SInv
<1>4. n \in P!Scope(FirstBlock)
  BY <1>3 DEF Early
<1>5. CASE inuse = {}
  BY <1>3, <1>5 DEF Early, FirstBlock
<1>6. CASE inuse # {}
  <2>1. inuse = {FirstBlock}
    BY <1>6 DEF Early
  <2>2. n # FirstBlock /\ n \in P!Interferes[FirstBlock]
    BY <1>1, <1>2, <1>4, <2>1, GraphAssumption, P!ScopeInterferes
  <2>3. FirstBlock \in P!Interferes[n]
    BY <1>1, <1>2, <2>2, GraphAssumption, P!InterferesSymmetric
  <2>4. QED
    BY <1>1, <2>1, <2>3
<1>7. QED
  BY <1>5, <1>6 DEF Early

\* A promising node of the block that a thread has is in a low scope: no
\* other block in use has it in its scope.
LEMMA OwnPromising ==
  ASSUME GInv, SInv, MinimaLow, ~Found, ~Early, NEW t \in Threads,
         cur[t] # NoBlock, NEW s \in open, Project[s] = cur[t], Promises(s, g[s])
  PROVE  LowScope(cur[t])
<1>1. cur[t] \in inuse /\ cur[t] \in P!Scope(cur[t])
  BY OwnScope
<1>2. CASE Low(cur[t])
  BY <1>1, <1>2 DEF LowScope
<1>3. ASSUME NEW n \in inuse, Project[s] \in P!Scope(n), LowScope(n)
      PROVE  LowScope(cur[t])
  <2>1. n = cur[t]
    BY <1>1, <1>3, GraphAssumption, P!UsedScopes DEF GInv
  <2>2. QED
    BY <1>3, <2>1
<1>4. QED
  BY <1>2, <1>3 DEF MinimaLow

\* What a thread has in its hands was promising when it took it.
LEMMA CarriedFrom ==
  ASSUME SInv, NEW t \in Threads, NodeStep(t), Carries(t)'
  PROVE  \/ Carries(t)
         \/ \E s \in open : Project[s] = cur[t] /\ Promises(s, g[s])
<1>1. /\ kids \in [Threads -> SUBSET Child] /\ g \in [States -> Nat]
      /\ open \subseteq States /\ \A k \in kids[t] : k.g \in Nat
  BY ChildType DEF SInv, Types
<1>2. CASE PathFound(t)'
  <2>1. pc'[t] = "path" /\ sol'[t] <= CostToGo[Start]
    BY <1>2 DEF PathFound
  <2>2. CASE \E s \in open \cap Goals : Project[s] = cur[t] /\ sol'[t] = g[s]
    BY <1>1, <2>1, <2>2, GoalPromises
  <2>3. CASE \E k \in kids[t] : k.to \in Goals /\ sol'[t] = k.g
    BY <1>1, <2>1, <2>3, GoalPromises DEF Carries
  <2>4. QED
    BY <2>1, <2>2, <2>3, PathSteps
<1>3. ASSUME NEW k \in kids'[t], Promises(k.to, k.g)
      PROVE  \/ Carries(t)
             \/ \E s \in open : Project[s] = cur[t] /\ Promises(s, g[s])
  <2>1. CASE k \in kids[t]
    BY <1>3, <2>1 DEF Carries
  <2>2. CASE k \notin kids[t]
    <3>1. ExpandNode(t)
      BY <1>1, <2>2 DEF NodeStep, DropNodes, FindGoal, DropChild, FindGoalChild,
                        KeepChild, Publish
    <3>2. PICK s \in open :
            /\ Project[s] = cur[t]
            /\ kids' = [kids EXCEPT ![t] =
                          {[to |-> e.to, g |-> g[s] + e.cost] : e \in Edges[s]}]
      BY <3>1 DEF ExpandNode
    <3>3. PICK e \in Edges[s] : k = [to |-> e.to, g |-> g[s] + e.cost]
      BY <1>1, <3>2
    <3>4. Promises(s, g[s])
      BY <1>1, <1>3, <3>3, ParentPromises
    <3>5. QED
      BY <3>2, <3>4
  <2>3. QED
    BY <2>1, <2>2
<1>4. QED
  BY <1>2, <1>3 DEF Carries

LEMMA NodeStepMinima ==
  ASSUME GInv, SInv, MinimaLow, FMinLeast, NEW t \in Threads, NodeStep(t)
  PROVE  MinimaLow' /\ FMinLeast'
<1>1. /\ NodeFrame(t) /\ UNCHANGED <<f_min, local_f_min, inuse, cur, b>>
      /\ bound' <= bound
  BY NodeStepFrame DEF NodeFrame, graphSide, countVars, minVars
<1>2. ~Early' => ~Early
  BY NodeStepEarly
<1>3. FMinLeast'
  BY <1>1, <1>2 DEF FMinLeast
<1>4. ~Found' => ~Found
  BY <1>1, NodeStepInvariant, FoundStays
<1>5. MinimaLow'
  <2> SUFFICES ASSUME ~Found, ~Early
               PROVE  /\ \A s \in open' : Promises(s, g'[s]) =>
                           \/ Low(Project[s])
                           \/ \E n \in inuse : Project[s] \in P!Scope(n) /\ LowScope(n)
                      /\ \A u \in Threads : Carries(u)' => LowScope(cur[u])
    BY <1>1, <1>2, <1>4 DEF MinimaLow, Low, LowScope
  <2>1. ASSUME NEW s \in open', Promises(s, g'[s])
        PROVE  \/ Low(Project[s])
               \/ \E n \in inuse : Project[s] \in P!Scope(n) /\ LowScope(n)
    <3>1. CASE s \in open /\ g'[s] = g[s]
      BY <2>1, <3>1 DEF MinimaLow
    <3>2. ASSUME NEW k \in kids[t], s = k.to, g'[s] = k.g
          PROVE  \E n \in inuse : Project[s] \in P!Scope(n) /\ LowScope(n)
      <4>1. LowScope(cur[t])
        BY <2>1, <3>2 DEF MinimaLow, Carries
      <4>2. Project[s] \in P!Scope(cur[t]) /\ cur[t] # NoBlock
        BY <3>2, ChildFacts
      <4>3. QED
        BY <4>1, <4>2, OwnScope
    <3>3. QED
      BY <3>1, <3>2, OpenGrows
  <2>2. ASSUME NEW u \in Threads, Carries(u)'
        PROVE  LowScope(cur[u])
    <3>1. CASE u = t
      BY <1>1, <2>2, <3>1, CarriedFrom, OwnPromising DEF MinimaLow, NodeFrame
    <3>2. CASE u # t
      <4>1. Carries(u)
        BY <1>1, <2>2, <3>2 DEF NodeFrame, Carries, PathFound
      <4>2. QED
        BY <4>1 DEF MinimaLow
    <3>3. QED
      BY <3>1, <3>2
  <2>3. QED
    BY <2>1, <2>2
<1>6. QED
  BY <1>3, <1>5

\* Nothing happens to the minima, and no block is given back.
LEMMA SameMinima ==
  ASSUME SInv, NothingForgotten, MinimaLow, FMinLeast, NEW t \in Threads,
         Bystander(t), UNCHANGED minVars, inuse \subseteq inuse', Early => Early'
  PROVE  MinimaLow' /\ FMinLeast'
<1>1. UNCHANGED <<f_min, local_f_min, g, open>>
  BY DEF minVars, Bystander
<1>2. Found' = Found /\ \A u \in Threads : Carries(u)' => Carries(u) /\ u # t
  BY BystanderForgetsNothing
<1>3. \A u \in Threads : u # t => cur'[u] = cur[u]
  BY DEF Bystander
<1>4. ASSUME NEW u \in Threads, ~Found', ~Early', Carries(u)'
      PROVE  LowScope(cur[u])'
  <2>1. LowScope(cur[u]) /\ cur'[u] = cur[u]
    BY <1>1, <1>2, <1>3, <1>4 DEF MinimaLow
  <2>2. QED
    BY <1>1, <2>1 DEF LowScope, Low
<1>5. ASSUME NEW s \in open', ~Found', ~Early', Promises(s, g'[s])
      PROVE  \/ Low(Project[s])'
             \/ \E n \in inuse' : Project[s] \in P!Scope(n) /\ LowScope(n)'
  <2>1. \/ Low(Project[s])
        \/ \E n \in inuse : Project[s] \in P!Scope(n) /\ LowScope(n)
    BY <1>1, <1>2, <1>5 DEF MinimaLow
  <2>2. QED
    BY <1>1, <2>1 DEF LowScope, Low
<1>6. QED
  BY <1>1, <1>4, <1>5 DEF MinimaLow, FMinLeast

\* A thread with something in its hands has a block, and not another's.
LEMMA CarrierHasBlock ==
  ASSUME SInv, NEW u \in Threads, Carries(u)
  PROVE  cur[u] # NoBlock /\ cur[u] \in inuse
<1>1. pc[u] \in {"path", "expand"}
  BY DEF SInv, KidsExact, Carries, PathFound
<1>2. QED
  BY <1>1 DEF SInv, Owners, Owning

\* A block that is finished, or gone on with, brings the minima of its scope
\* up to date: those of the promising nodes there become low.  The others do
\* not change.
LEMMA UpdatedMinima ==
  ASSUME Admissible, GInv, SInv, NothingForgotten, MinimaLow, NEW t \in Threads,
         cur[t] # NoBlock, Bystander(t), UpdateFMin(cur[t]),
         inuse \ {cur[t]} \subseteq inuse'
  PROVE  MinimaLow' /\ FMinLeast'
<1> DEFINE n == cur[t]
<1>1. /\ n \in NBlocks /\ n \in inuse /\ P!Scope(n) = {n} \cup Succs[n]
      /\ P!Scope(n) \subseteq NBlocks
  BY OwnScope DEF P!Scope
<1>2. /\ \A m \in P!Scope(n) : local_f_min'[m] = StoredF(m)
      /\ \A m \in NBlocks : m \notin P!Scope(n) => local_f_min'[m] = local_f_min[m]
  BY <1>1 DEF UpdateFMin
<1>3. UNCHANGED <<g, open>> /\ \A u \in Threads : u # t => cur'[u] = cur[u]
  BY DEF Bystander
<1>4. Found' = Found /\ \A u \in Threads : Carries(u)' => Carries(u) /\ u # t
  BY BystanderForgetsNothing
<1>5. ASSUME NEW m \in inuse, m # n, LowScope(m)
      PROVE  LowScope(m)'
  <2>1. PICK k \in P!Scope(m) : Low(k)
    BY <1>5 DEF LowScope
  <2>2. k \notin P!Scope(n)
    BY <1>1, <1>5, GraphAssumption, P!UsedScopes DEF GInv
  <2>3. m \in NBlocks
    BY DEF GInv, P!Core, P!CoreTypes
  <2>4. k \in NBlocks
    BY <2>3, OPBNFAssumption DEF P!Scope
  <2>5. Low(k)'
    BY <1>2, <2>1, <2>2, <2>4 DEF Low
  <2>6. QED
    BY <2>5 DEF LowScope
<1>6. ASSUME NEW s \in open, Promises(s, g[s]), Project[s] \in P!Scope(n)
      PROVE  Low(Project[s])'
  <2>1. s \in States /\ Types
    BY DEF SInv, Types
  <2>2. F(s) <= CostToGo[Start]
    BY <1>6, <2>1, FType, PromisesBound DEF F
  <2>3. StoredF(Project[s]) = BestF[Project[s]]
    BY DEF StoredF, NodesOf
  <2>4. BestF[Project[s]] <= F(s) /\ BestF[Project[s]] \in Nat
    <3>1. Project[s] \in NBlocks
      BY <2>1, OPBNFAssumption
    <3>2. QED
      BY <2>1, <3>1, BestIsLeast, SpaceAssumption
  <2>5. F(s) \in Nat /\ CostToGo[Start] \in Nat
    BY <2>1, FType, BestCost
  <2>6. QED
    BY <1>2, <1>6, <2>2, <2>3, <2>4, <2>5 DEF Low
<1>7. ASSUME Early, NEW u \in Threads, Carries(u) PROVE u = t
  BY <1>1, <1>7, CarrierHasBlock DEF Early, SInv, Owners
<1>8. ASSUME ~Found, NEW s \in open, Promises(s, g[s])
      PROVE  \/ Low(Project[s])'
             \/ \E m \in inuse' : Project[s] \in P!Scope(m) /\ LowScope(m)'
  <2>1. CASE Project[s] \in P!Scope(n)
    BY <1>6, <1>8, <2>1
  <2>2. CASE Project[s] \notin P!Scope(n)
    <3>1. ~Early
      BY <1>1, <2>2 DEF Early
    <3>2. CASE Low(Project[s])
      <4>1. Project[s] \in NBlocks
        BY OPBNFAssumption DEF SInv, Types
      <4>2. QED
        BY <1>2, <2>2, <3>2, <4>1 DEF Low
    <3>3. ASSUME NEW m \in inuse, Project[s] \in P!Scope(m), LowScope(m)
          PROVE  \E k \in inuse' : Project[s] \in P!Scope(k) /\ LowScope(k)'
      <4>1. m # n
        BY <2>2, <3>3
      <4>2. QED
        BY <1>5, <3>3, <4>1
    <3>4. QED
      BY <1>8, <3>1, <3>2, <3>3 DEF MinimaLow
  <2>3. QED
    BY <2>1, <2>2
<1>9. ASSUME ~Found, NEW u \in Threads, u # t, Carries(u)
      PROVE  LowScope(cur[u])'
  <2>1. ~Early
    BY <1>7, <1>9
  <2>2. LowScope(cur[u])
    BY <1>9, <2>1 DEF MinimaLow
  <2>3. cur[u] \in inuse /\ cur[u] # n
    BY <1>9, CarrierHasBlock DEF SInv, Owners
  <2>4. \E k \in P!Scope(cur[u]) : Low(k)'
    BY <1>5, <2>2, <2>3 DEF LowScope
  <2>5. cur'[u] = cur[u]
    BY <1>3, <1>9
  <2>6. QED
    BY <2>4, <2>5 DEF LowScope
<1>10. MinimaLow'
  <2> SUFFICES ASSUME ~Found'
               PROVE  /\ \A s \in open' : Promises(s, g'[s]) =>
                           \/ Low(Project[s])'
                           \/ \E m \in inuse' : Project[s] \in P!Scope(m) /\ LowScope(m)'
                      /\ \A u \in Threads : Carries(u)' => LowScope(cur[u])'
    BY Zenon DEF MinimaLow
  <2>1. \A u \in Threads : Carries(u)' => LowScope(cur[u])'
    <3> SUFFICES ASSUME NEW u \in Threads, Carries(u)'
                 PROVE  LowScope(cur[u])'
      OBVIOUS
    <3>1. u # t /\ Carries(u)
      BY <1>4
    <3>2. QED
      BY <1>4, <1>9, <3>1
  <2>2. QED
    BY <1>3, <1>4, <1>8, <2>1
<1>11. FMinLeast'
  BY <1>1, MinimaType DEF FMinLeast, SInv
<1>12. QED
  BY <1>10, <1>11

LEMMA OtherStepMinima ==
  ASSUME Admissible, GInv, SInv, NothingForgotten, MinimaLow, FMinLeast,
         NEW t \in Threads,
         \/ QuietStep(t) \/ Keep(t) \/ Release(t) \/ Take(t) \/ SetHot(t)
         \/ WontRelease(t)
  PROVE  MinimaLow' /\ FMinLeast'
<1>1. CASE QuietStep(t) \/ SetHot(t) \/ WontRelease(t)
  <2>1. Bystander(t) /\ UNCHANGED <<minVars, inuse, cur>>
    BY <1>1, QuietFrame, HeatInvariant, CoolInvariant DEF countVars
  <2>2. Early => Early'
    BY <2>1 DEF Early, Bystander, minVars
  <2>3. QED
    BY <2>1, <2>2, SameMinima
<1>2. CASE Take(t)
  <2>1. /\ Bystander(t) /\ UNCHANGED minVars
        /\ \E n \in free_list : inuse' = inuse \cup {n}
    BY <1>2, TakeInvariant
  <2>2. UNCHANGED <<f_min, open>>
    BY <2>1 DEF Bystander, minVars
  <2>3. Early => Early'
    BY <2>1, <2>2, TakeEarly
  <2>4. QED
    BY <2>1, <2>3, SameMinima
<1>3. CASE Keep(t)
  <2>1. /\ UpdateFMin(cur[t]) /\ pc[t] = "release" /\ inuse' = inuse
    BY <1>3 DEF Keep, countVars
  <2>2. cur[t] # NoBlock
    BY <2>1 DEF SInv, Owners, Owning
  <2>3. QED
    BY <1>3, <2>1, <2>2, KeepInvariant, UpdatedMinima
<1>4. CASE Release(t)
  <2>1. /\ UpdateFMin(cur[t]) /\ pc[t] = "release" /\ inuse' = inuse \ {cur[t]}
    BY <1>4 DEF Release, GiveBack
  <2>2. cur[t] # NoBlock
    BY <2>1 DEF SInv, Owners, Owning
  <2>3. QED
    BY <1>4, <2>1, <2>2, ReleaseInvariant, UpdatedMinima
<1>5. QED
  BY <1>1, <1>2, <1>3, <1>4

-----------------------------------------------------------------------------
(***************************************************************************)
(* What f_min says                                                         *)
(***************************************************************************)

\* As long as no good solution is known, something promises a cheapest one.
LEMMA SomethingPromising ==
  ASSUME SInv, NothingForgotten, ~Found
  PROVE  \/ \E t \in Threads : Carries(t)
         \/ \E s \in open : Promises(s, g[s])
<1> SUFFICES ASSUME \A t \in Threads : ~Carries(t),
                    \A s \in open : ~Promises(s, g[s])
             PROVE  FALSE
  OBVIOUS
<1>1. Types /\ g \in [States -> Nat] /\ g[Start] = 0
  BY DEF SInv, Types
<1>2. CostToGo[Start] < Infinity
  BY <1>1, BestCost
<1>3. \A s \in States : Promises(s, g[s]) => Expanded(s)
  BY DEF NothingForgotten, Carries
<1>4. ASSUME NEW s \in States, Promises(s, g[s]), NEW e \in Edges[s],
             Promises(e.to, g[s] + e.cost)
      PROVE  g[e.to] <= g[s] + e.cost
  <2>1. e.to \in States /\ e.cost \in Nat /\ g[s] + e.cost \in Nat
    BY <1>1, SpaceAssumption
  <2>2. Known(s, e)
    BY <1>3, <1>4 DEF Expanded
  <2>3. ASSUME NEW t \in Threads, NEW k \in kids[t], k.to = e.to, k.g <= g[s] + e.cost
        PROVE  FALSE
    <3>1. k.g \in Nat
      BY <1>1, ChildType
    <3>2. Promises(k.to, k.g)
      BY <1>4, <2>1, <2>3, <3>1, PromisesMore
    <3>3. QED
      BY <3>2 DEF Carries
  <2>4. QED
    BY <2>2, <2>3 DEF Known
<1>5. PICK s \in Goals : Promises(s, g[s])
  BY <1>1, <1>2, <1>4, PromiseKept
<1>6. QED
  BY <1>3, <1>5, SpaceAssumption DEF Expanded

\* So the least of the minima is not above its cost.
LEMMA MinimumBounds ==
  ASSUME GInv, SInv, FInv
  PROVE  FMinSound
<1>1. SUFFICES ASSUME ~Found PROVE f_min <= CostToGo[Start]
  <2>1. Found => ~(bound > b * CostToGo[Start])
    BY BestCost DEF Found, SInv
  <2>2. QED
    BY <2>1 DEF FMinSound
<1>2. Types /\ CostToGo[Start] \in Nat /\ f_min \in Nat
  BY BestCost DEF SInv, Types
<1>3. CASE Early
  BY <1>2, <1>3 DEF Early
<1>4. CASE ~Early
  <2>1. PICK n \in NBlocks : Low(n)
    <3>1. ASSUME NEW t \in Threads, Carries(t) PROVE \E n \in NBlocks : Low(n)
      BY <1>1, <1>4, <3>1, CarrierHasBlock, OwnScope DEF FInv, MinimaLow, LowScope
    <3>2. ASSUME NEW s \in open, Promises(s, g[s]) PROVE \E n \in NBlocks : Low(n)
      <4>1. Project[s] \in NBlocks
        BY <1>2, OPBNFAssumption DEF Types
      <4>2. \A n \in inuse : P!Scope(n) \subseteq NBlocks
        BY OPBNFAssumption DEF GInv, P!Core, P!CoreTypes, P!Scope
      <4>3. QED
        BY <1>1, <1>4, <3>2, <4>1, <4>2 DEF FInv, MinimaLow, LowScope
    <3>3. QED
      BY <1>1, <3>1, <3>2, SomethingPromising DEF FInv
  <2>2. f_min <= local_f_min[n] /\ local_f_min[n] \in Nat
    BY <1>2, <1>4 DEF FInv, FMinLeast, Types
  <2>3. QED
    BY <1>2, <2>1, <2>2 DEF Low
<1>5. QED
  BY <1>3, <1>4

-----------------------------------------------------------------------------
(***************************************************************************)
(* The end of the search                                                   *)
(***************************************************************************)

LEMMA SameIsolation == G!NoIsolatedBlock => P!NoIsolatedBlock
BY DEF G!NoIsolatedBlock, P!NoIsolatedBlock, G!Interferes, P!Interferes,
       G!Preds, P!Preds

\* Nothing is free and nothing is counted as in use.
Idle == free_list = {} /\ \A n \in NBlocks : sigma[n] = 0

\* Then no promising node is left.
LEMMA IdleFound ==
  ASSUME Admissible, G!NoIsolatedBlock, GInv, SInv, NothingForgotten, Idle
  PROVE  Found
<1> SUFFICES ASSUME ~Found PROVE FALSE
  OBVIOUS
<1>1. /\ inuse = {}
      /\ \A n \in NBlocks : BestF[n] = Infinity \/ BestF[n] >= bound * 1
  BY GraphAssumption, SameIsolation, P!NothingCounted
  DEF Idle, GInv, P!Empty, P!Hopeless
<1>2. \A t \in Threads : ~Carries(t)
  BY <1>1, CarrierHasBlock
<1>3. PICK s \in open : Promises(s, g[s])
  BY <1>2, SomethingPromising
<1>4. Types /\ s \in States /\ Project[s] \in NBlocks
  BY OPBNFAssumption DEF SInv, Types
<1>5. F(s) \in Nat /\ F(s) <= CostToGo[Start]
  BY <1>3, <1>4, FType, PromisesBound DEF F
<1>6. BestF[Project[s]] <= F(s) /\ BestF[Project[s]] \in 0..Infinity
  BY <1>4, BestIsLeast
<1>7. BestF[Project[s]] >= bound
  <2>1. bound * 1 = bound /\ bound <= Infinity /\ bound \in Nat /\ Infinity \in Nat
    BY <1>4, BestCost
  <2>2. QED
    BY <1>1, <1>4, <1>6, <2>1
<1>8. bound <= CostToGo[Start]
  BY <1>4, <1>5, <1>6, <1>7, BestCost
<1>9. QED
  BY <1>4, <1>8, BestCost DEF Found

LEMMA IdleFoundNext ==
  ASSUME Admissible, G!NoIsolatedBlock
  PROVE  (GInv /\ SInv /\ NothingForgotten /\ Idle => Found)'
<1>1. GInv /\ SInv /\ NothingForgotten /\ Idle => Found
  BY IdleFound
<1>2. QED
  BY <1>1, PTL

\* A value that f_min shows to be good enough is.
LEMMA NothingBetterFound ==
  ASSUME SInv, FMinSound, NEW v \in Nat, NothingBetter(v), v <= bound
  PROVE  v <= b * CostToGo[Start]
<1>1. Types /\ f_min \in Nat
  BY DEF SInv, Types
<1>2. SUFFICES ASSUME v > b * CostToGo[Start] PROVE FALSE
  BY <1>1, BestCost
<1>3. f_min <= CostToGo[Start]
  BY <1>1, <1>2, BestCost DEF FMinSound
<1>4. b * f_min <= b * CostToGo[Start] /\ b * f_min \in Nat
  BY <1>1, <1>3, BestCost, FactorMonotone
<1>5. QED
  BY <1>1, <1>2, <1>4, BestCost DEF NothingBetter

LEMMA QuietEnd ==
  ASSUME SInv, SInv', FMinSound, NothingForgotten, EndFound, NEW t \in Threads,
         QuietStep(t)
  PROVE  EndFound'
<1>1. Bystander(t)
  BY QuietFrame
<1>2. Found' = Found /\ \A u \in Threads : u # t => pc'[u] = pc[u]
  BY <1>1, BystanderForgetsNothing DEF Bystander, Goto, SInv, Types
<1>3. pc \in [Threads -> PCs]
  BY DEF SInv, Types
<1>4. /\ done' => done \/ pc[t] = "leave"
      /\ graph_done' => graph_done \/ pc[t] = "stop"
  BY DEF QuietStep, ReadBound, LockNext, Busy, Wait, Wake, SeeDone, Test, Enter,
         EndExpand, LoopTest, WantHot, Again, Leave, SetDone, SameData, SearchVars
<1>5. pc'[t] \in {"leave", "stop", "ended"} =>
        \/ Test(t) /\ (NothingBetter(bound) \/ cur[t] = NoBlock)
        \/ done \/ pc[t] \in {"leave", "stop"}
  BY <1>3 DEF QuietStep, ReadBound, LockNext, Busy, Wait, Wake, SeeDone, Test, Enter,
              EndExpand, LoopTest, WantHot, Again, Leave, SetDone, Goto
<1>6. Test(t) /\ NothingBetter(bound) => Found
  BY NothingBetterFound, BestCost DEF Found, SInv
<1>7. Test(t) /\ cur[t] = NoBlock => graph_done
  BY DEF Test, SInv, Owners
<1>8. QED
  BY <1>2, <1>4, <1>5, <1>6, <1>7 DEF EndFound

LEMMA NodeStepEnd ==
  ASSUME GInv, SInv, SInv', FMinSound, EndFound, NEW t \in Threads, NodeStep(t)
  PROVE  EndFound'
<1>1. NodeFrame(t) /\ UNCHANGED <<graph_done, b>> /\ bound' <= bound /\ Types
  BY NodeStepFrame DEF NodeFrame, graphSide, SInv
<1>2. Found => Found'
  BY <1>1, FoundStays
<1>3. done' => done \/ Found'
  <2>1. CASE Publish(t)
    <3>1. CASE bound > sol[t] /\ bound' = sol[t] /\ NothingBetter(sol[t])
      <4>1. sol[t] \in Nat /\ bound \in Nat
        BY <1>1, BestCost DEF Types
      <4>2. sol[t] <= b * CostToGo[Start]
        BY <3>1, <4>1, NothingBetterFound
      <4>3. QED
        BY <1>1, <3>1, <4>2 DEF Found
    <3>2. CASE ~(bound > sol[t] /\ bound' = sol[t] /\ NothingBetter(sol[t]))
      BY <2>1, <3>2 DEF Publish
    <3>3. QED
      BY <3>1, <3>2
  <2>2. CASE ~Publish(t)
    BY <2>2 DEF NodeStep, DropNodes, FindGoal, ExpandNode, DropChild, FindGoalChild,
                KeepChild
  <2>3. QED
    BY <2>1, <2>2
<1>4. \A u \in Threads : pc'[u] \in {"leave", "stop", "ended"} => u # t /\ pc'[u] = pc[u]
  BY <1>1 DEF NodeFrame, Owning
<1>5. QED
  BY <1>1, <1>2, <1>3, <1>4 DEF EndFound

LEMMA GraphStepEnd ==
  ASSUME Admissible, G!NoIsolatedBlock, GInv, SInv, NothingForgotten, EndFound,
         NEW t \in Threads,
         Keep(t) \/ Release(t) \/ Take(t) \/ SetHot(t) \/ WontRelease(t)
  PROVE  EndFound'
<1>1. Bystander(t) /\ GInv' /\ SInv'
  BY OtherSteps
<1>2. /\ Found' = Found /\ NothingForgotten'
      /\ \A u \in Threads : u # t => pc'[u] = pc[u]
  BY <1>1, BystanderForgetsNothing DEF Bystander, Goto, SInv, Types
<1>3. done' = done /\ pc'[t] \notin {"leave", "stop", "ended"}
  BY DEF Keep, Release, Take, SetHot, WontRelease, SameData, Goto, SInv, Types
<1>4. graph_done' => graph_done \/ Found'
  <2>1. CASE Release(t)
    <3>1. graph_done' => graph_done \/ NothingLeft
      BY <2>1 DEF Release
    <3>2. NothingLeft => Idle'
      BY DEF NothingLeft, Idle
    <3>3. QED
      BY <1>1, <1>2, <3>1, <3>2, IdleFoundNext
  <2>2. CASE ~Release(t)
    BY <2>2 DEF Keep, Take, SetHot, WontRelease
  <2>3. QED
    BY <2>1, <2>2
<1>5. QED
  BY <1>2, <1>3, <1>4 DEF EndFound

\* The whole invariant: nothing promising is forgotten, the minima know it,
\* and nobody ends the search before.
LEMMA FInit ==
  ASSUME Init, GInv, SInv
  PROVE  FInv /\ EndFound
<1>1. /\ g = [s \in States |-> IF s = Start THEN 0 ELSE Infinity] /\ open = {Start}
      /\ bound = Infinity /\ f_min = 0 /\ inuse = {} /\ ~done /\ ~graph_done
      /\ \A t \in Threads : pc[t] = "read"
  BY DEF Init
<1>2. Early
  BY <1>1 DEF Early, FirstBlock, P!Scope
<1>3. NothingForgotten
  <2> SUFFICES ASSUME ~Found, NEW s \in States, Promises(s, g[s]), s # Start
               PROVE  FALSE
    BY <1>1 DEF NothingForgotten
  <2>1. Infinity + CostToGo[s] <= CostToGo[Start]
    BY <1>1, PromisesCost, SpaceAssumption
  <2>2. CostToGo[s] \in Nat
    BY CostToGoType
  <2>3. QED
    BY <1>1, <2>1, <2>2, BestCost DEF SInv
<1>4. QED
  BY <1>1, <1>2, <1>3 DEF FInv, MinimaLow, FMinLeast, EndFound

LEMMA FStutter ==
  ASSUME UNCHANGED vars
  PROVE  /\ FInv => FInv'
         /\ EndFound => EndFound'
<1> USE DEF vars, countVars, nodeVars, localVars, minVars
<1>1. NothingForgotten => NothingForgotten'
  BY DEF NothingForgotten, Found, PathFound, Expanded, Known
<1>2. MinimaLow => MinimaLow'
  BY DEF MinimaLow, Found, Early, Low, LowScope, Carries, PathFound
<1>3. FMinLeast => FMinLeast'
  BY DEF FMinLeast, Early
<1>4. EndFound => EndFound'
  BY DEF EndFound, Found
<1>5. QED
  BY <1>1, <1>2, <1>3, <1>4 DEF FInv

LEMMA FStep ==
  ASSUME Admissible, GoalEdgesAreShortest, GInv, SInv, FInv, [Next]_vars
  PROVE  FInv'
<1>1. ASSUME NEW t \in Threads, NodeStep(t)
      PROVE  FInv'
  BY <1>1, NodeStepForgetsNothing, NodeStepMinima DEF FInv
<1>2. ASSUME NEW t \in Threads,
             \/ QuietStep(t) \/ Keep(t) \/ Release(t) \/ Take(t) \/ SetHot(t)
             \/ WontRelease(t)
      PROVE  FInv'
  BY <1>2, OtherSteps, OtherStepMinima, BystanderForgetsNothing DEF FInv
<1>3. QED
  BY <1>1, <1>2, StepKinds, FStutter

LEMMA EndStep ==
  ASSUME Admissible, G!NoIsolatedBlock, GInv, SInv, FInv, EndFound, [Next]_vars
  PROVE  EndFound'
<1>1. FMinSound /\ NothingForgotten /\ SInv'
  BY MinimumBounds, InvStep DEF FInv
<1>2. QED
  BY <1>1, StepKinds, QuietEnd, NodeStepEnd, GraphStepEnd, FStutter

LEMMA FInvHolds ==
  ASSUME Admissible, GoalEdgesAreShortest
  PROVE  Spec => []FInv
<1>1. Init /\ GInv /\ SInv => FInv
  BY FInit
<1>2. GInv /\ SInv /\ FInv /\ [Next]_vars => FInv'
  BY FStep
<1>3. QED
  BY <1>1, <1>2, InvHolds, PTL DEF Spec

(***************************************************************************)
(* f_min, which the threads read without the mutex while the minima of the *)
(* blocks are out of date, is not above the least cost as long as the      *)
(* solution found is not good enough: no thread ends the search because of *)
(* a minimum that is too high.  For any number of threads, any projection  *)
(* and any domain with an admissible heuristic whose goals' parents are    *)
(* cheapest (see SearchSpace).                                             *)
(***************************************************************************)
THEOREM FMinIsSound ==
  ASSUME Admissible, GoalEdgesAreShortest
  PROVE  Spec => []FMinSound
<1>1. GInv /\ SInv /\ FInv => FMinSound
  BY MinimumBounds
<1>2. QED
  BY <1>1, InvHolds, FInvHolds, PTL

(***************************************************************************)
(* When all threads have left, by f_min, because nothing was left or       *)
(* because another did, the solution is within the factor b of an optimal  *)
(* one.  A block without neighbours would be counted as unused while it is *)
(* in use: there must be none.                                             *)
(***************************************************************************)
THEOREM EndsWithinBound ==
  ASSUME Admissible, GoalEdgesAreShortest, G!NoIsolatedBlock
  PROVE  Spec => []WithinBound
<1>1. Init /\ GInv /\ SInv => EndFound
  BY FInit
<1>2. GInv /\ SInv /\ FInv /\ EndFound /\ [Next]_vars => EndFound'
  BY EndStep
<1>3. SInv /\ EndFound => WithinBound
  <2> SUFFICES ASSUME SInv, EndFound, Ended
               PROVE  bound \in CostToGo[Start]..(b * CostToGo[Start])
    BY DEF WithinBound
  <2>1. Found
    BY OPBNFAssumption DEF Ended, EndFound
  <2>2. CostToGo[Start] <= bound
    BY DEF SInv, CostsReal
  <2>3. QED
    BY <2>1, <2>2, BestCost DEF Found, SInv
<1>4. QED
  BY <1>1, <1>2, <1>3, InvHolds, FInvHolds, PTL DEF Spec
=============================================================================
