--------------------------- MODULE LayeredSearches ---------------------------
(***************************************************************************)
(* One of the layered searches on a small state space.                     *)
(***************************************************************************)
EXTENDS PSDD, BFPSDD

CONSTANT Jobs      \* the searches and options to choose from

Algorithms == {"psdd", "idpsdd", "dynamic", "bfpsdd", "wbfpsdd"}

ASSUME JobsAssumption ==
  \A j \in Jobs :
    /\ j \in [algo : Algorithms, weight : Nat \ {0}, dd : BOOLEAN, min : Nat,
             mult : Nat]
    /\ j.dd => j.algo = "wbfpsdd"

Init ==
  /\ job \in Jobs
  /\ graph = NewGraph(IF IsPSDD THEN 0 ELSE FPrime(Start, 0))
  /\ bound \in IF IsPSDD THEN FirstBound ELSE {Infinity}
  /\ open = NewOpen /\ g = OnlyStart
  /\ pc = Everywhere("next") /\ blk = Everywhere(None) /\ exp = Everywhere(0)
  /\ cur = Everywhere(Start) /\ todo = Everywhere({})
  /\ best = Infinity /\ lowest = Infinity /\ done = FALSE

Next == (\E t \in Threads : PSDDStep(t) \/ BFPSDDStep(t)) \/ Iterate

\* The operating system runs every thread again and again; the critical
\* sections are single steps, which do not wait for one another.
Spec == /\ Init /\ [][Next]_vars /\ WF_vars(Iterate)
        /\ \A t \in Threads : WF_vars(PSDDStep(t) \/ BFPSDDStep(t))

-----------------------------------------------------------------------------
(* What the properties assume of the constants.                            *)

\* Of several blocks, none is without others that it interferes with.
NoBlockAlone == \A b \in Blocks : Interferes[b] = {} => Blocks = {b}

\* fp_type holds the scaled f of every path that meets no state twice.
Affords(dearest) ==
  /\ \A s \in States : \A e \in Edges[s] : e.cost <= dearest
  /\ \A j \in Jobs : \A s \in States :
       j.weight * (FpOne * (Cardinality(States) * dearest + H[s])) < Infinity

CostsFit == \E dearest \in Nat : Affords(dearest)

LeastCost == CostToGo[Start]

\* There is a solution whose weighted cost can be told from none, the
\* heuristic does not overestimate it and the last edge to a goal is a
\* cheapest way there.
Solvable ==
  /\ Admissible /\ GoalEdgesAreShortest /\ LeastCost < Infinity
  /\ \A j \in Jobs : j.weight * LeastCost < Infinity

-----------------------------------------------------------------------------
(* Properties.                                                             *)

TypeOK ==
  /\ job \in Jobs
  /\ pc \in [Threads -> {"next", "wait", "woken", "none", "search", "child", "path",
                         "tell", "lower", "test", "finish", "end"}]
  /\ blk \in [Threads -> Blocks \cup {None}] /\ cur \in [Threads -> States]
  /\ todo \in [Threads -> SUBSET (States \X Nat)] /\ exp \in [Threads -> Nat]
  /\ open \in [1..2 -> SUBSET States] /\ g \in [States -> Nat]
  /\ graph \in [sigma : [Blocks -> Nat], inuse : SUBSET Blocks,
                lists : [1..2 -> [Blocks -> Nat]], layer : 1..2, value : Nat,
                inlayer : SUBSET Blocks, found : BOOLEAN]
  /\ {best, bound, lowest} \subseteq Nat /\ done \in BOOLEAN

\* The list that a free block belongs on.
RightList(b) ==
  IF IsPSDD THEN LayersOf(graph, b)
  ELSE IF Of(b, open[1]) = {} THEN {}
  ELSE IF b \in graph.inlayer /\ BestVal(b) = graph.value THEN {Free}
  ELSE {l \in {Free, Queue} : l = Free => b \in graph.inlayer \/ open[1] = {Start}}

\* A block with nodes that is neither in use nor blocked is on exactly one of
\* the two lists, once and the right one, although blocks are moved between
\* the lists by the threads that work beside them; no other block is on a list.
ListsExact ==
  \A b \in Blocks :
    IF graph.sigma[b] > 0 \/ b \in graph.inuse
    THEN \A l \in 1..2 : graph.lists[l][b] = 0
    ELSE /\ graph.lists[1][b] + graph.lists[2][b] = IF RightList(b) = {} THEN 0 ELSE 1
         /\ \A l \in 1..2 : graph.lists[l][b] > 0 => l \in RightList(b)

\* The layer changes only when no thread but the one that turns it owns a
\* block and, in PSDD, no node of the layer is left; the nodes made for the
\* next layer go there.
LayerTurns ==
  ~graph.found /\ (graph'.layer # graph.layer \/ graph'.value # graph.value) =>
    /\ \A t \in Threads : blk[t] # None => pc[t] = "next" /\ pc'[t] # "next"
    /\ IsPSDD => open[graph.layer] = {}

LayerSynchronous == [][LayerTurns]_vars

\* Every search ends with a path, if not with an optimal one then within its
\* bound: IDPSDD with an optimal one although the first path found ends an
\* iteration, BFPSDD within its weight.  PSDD and WBFPSDD promise only a path.
WithinBound ==
  AllEnded /\ ~Continued =>
    /\ CostToGo[Start] <= best /\ best < Infinity
    /\ job.algo = "idpsdd" => best = CostToGo[Start]
    /\ job.algo = "dynamic" => best <= bound
    /\ job.algo = "bfpsdd" => best <= job.weight * CostToGo[Start]

\* Every search ends: no thread waits for ever for a block and every
\* iteration of IDPSDD brings the last one nearer.
Termination == <>[]AllEnded
=============================================================================
