----------------------------- MODULE SerialSearch -----------------------------
(***************************************************************************)
(* The serial searches: A*, A* with duplicate dropping, anytime weighted   *)
(* A*, ARA*, optimistic search, the search called breadth-first, and       *)
(* iterative deepening A* over a cost-bounded depth-first search.  A step  *)
(* takes a node from a list, or handles one of its children; the domain    *)
(* lists children in an order of its own, here any.                        *)
(***************************************************************************)
EXTENDS NodeLists

CONSTANTS
  Algorithms,       \* the searches to run
  Weights,          \* the weights of ARA*, in fixed point; the first one is
                    \* the heuristic's weight in every search
  BoundNum, BoundDen,       \* the bound of optimistic search
  BreadthBounds,    \* bounds of the search called breadth-first
  TableSize,        \* the initial size of a hash table
  None              \* no node

ASSUME SerialAssumption ==
  /\ Algorithms \subseteq
       {"astar", "dropping", "awastar", "arastar", "optimistic", "breadth", "ida"}
  /\ FPOne \in Nat \ {0} /\ BoundNum >= BoundDen /\ BoundDen \in Nat \ {0}
  /\ \A i \in DOMAIN Weights : Weights[i] \in Nat /\ Weights[i] >= FPOne

VARIABLES
  algo,             \* the search that runs
  pc,               \* what it does next
  nodes,            \* the nodes, in the order in which lists received them
  open, open_f,     \* open lists: on f', and on f (ARA*'s min_f_queue)
  closed, incons,   \* the hash tables
  stack,            \* the "queue" of breadth-first search
  cur, kids,        \* the node that is expanded, its children still to handle
  incumbent,        \* the cost of the best solution
  weight, next_weight, eprime_weight,     \* the heuristic's; ARA*'s
  path, bound, min_pruned   \* the depth-first search: its recursion, limits

dfs == <<path, bound, min_pruned>>
ara == <<weight, next_weight, eprime_weight>>
vars == <<algo, pc, nodes, open, open_f, closed, incons, stack, cur, kids,
          incumbent, ara, dfs>>

Children(s) == Edges[s]

Root == [NewNode(Start, 0, None) EXCEPT !.open = TRUE]

\* A search has its first node in its list.
Init ==
  /\ algo \in Algorithms
  /\ pc = IF algo = "ida" THEN "deepen" ELSE "take"
  /\ nodes = <<Root>>
  /\ LET none == [EmptyOpen EXCEPT !.ind = <<0>>] IN
     /\ open = IF algo \in {"breadth", "ida"} THEN none
               ELSE OpenAdd(PQOpsFPrime(nodes, Weights[1]), none, 1)
     /\ open_f = IF algo = "arastar" THEN OpenAdd(PQOpsF(nodes), none, 1)
                 ELSE none
  /\ closed = EmptyTable(TableSize) /\ incons = EmptyTable(TableSize)
  /\ stack = IF algo = "breadth" THEN <<1>> ELSE <<>>
  /\ cur = None /\ kids = {}
  /\ incumbent = Infinity
  /\ weight = Weights[1] /\ next_weight = 2
  \* ARA* starts with the fixed-point weight, not scaled down.
  /\ eprime_weight = Weights[1] * FPOne
  /\ path = <<>> /\ min_pruned = 0
  /\ bound \in IF algo = "breadth" THEN BreadthBounds ELSE {H[Start]}

FKey == PQOpsF(nodes)
FPKey == PQOpsFPrime(nodes, weight)

Finish == pc' = "done" /\ kids' = {} /\ cur' = None

\* Search::expand of node i.
Expand(i) ==
  /\ cur' = i
  /\ kids' = Children(nodes[i].state)
  /\ pc' = "kids"

(***************************************************************************)
(* A* ends with the first goal; anytime A* prunes on the incumbent and     *)
(* goes on after a goal, which it expands too.                             *)
(***************************************************************************)
AStarTake ==
  /\ algo \in {"astar", "dropping"} /\ pc = "take"
  /\ \/ open.heap = <<>> /\ Finish
        /\ UNCHANGED <<nodes, open, incumbent>>
     \/ /\ open.heap # <<>>
        /\ LET i == HeapFront(open) IN
           /\ open' = OpenTake(FPKey, open)
           /\ nodes' = SetOpen(nodes, i, FALSE)
           /\ \/ /\ nodes[i].state \in Goals
                 /\ incumbent' = nodes[i].g /\ Finish
              \/ /\ nodes[i].state \notin Goals
                 /\ Expand(i) /\ UNCHANGED incumbent
  /\ UNCHANGED <<algo, open_f, closed, incons, stack, ara, dfs>>

AwAStarTake ==
  /\ algo = "awastar" /\ pc = "take"
  /\ \/ open.heap = <<>> /\ Finish
        /\ UNCHANGED <<nodes, open, incumbent>>
     \/ /\ open.heap # <<>>
        /\ LET i == HeapFront(open) IN
           /\ open' = OpenTake(FPKey, open)
           /\ nodes' = SetOpen(nodes, i, FALSE)
           /\ \/ /\ GetF(nodes[i]) >= incumbent
                 /\ UNCHANGED <<pc, cur, kids, incumbent>>
              \/ /\ GetF(nodes[i]) < incumbent
                 /\ incumbent' = IF nodes[i].state \in Goals THEN nodes[i].g
                                 ELSE incumbent
                 /\ Expand(i)
  /\ UNCHANGED <<algo, open_f, closed, incons, stack, ara, dfs>>

(***************************************************************************)
(* ARA*.  Moving to the next weight re-sorts the open list, opens the      *)
(* inconsistent nodes again, and forgets the closed ones.                  *)
(***************************************************************************)
NextW == IF next_weight <= Len(Weights) THEN Weights[next_weight] ELSE FPOne

\* Faulty: the inconsistent nodes are dropped instead of opened again.
ForgetIncons(ns, l) ==
  /\ next_weight' = Min({next_weight, Len(Weights)}) + 1
  /\ weight' = NextW /\ eprime_weight' = NextW
  /\ nodes' = [i \in DOMAIN ns |-> [ns[i] EXCEPT !.incons = FALSE]]
  /\ open' = OpenResort(PQOpsFPrime(ns, NextW), l)
  /\ incons' = Prune(incons)
  /\ closed' = RemoveClosedNodes(nodes', closed)

\* The nodes are ns and the open list is l at the time of the call.
MoveToNextWeight(ns, l) ==
  LET key == PQOpsFPrime(ns, NextW) IN
  /\ next_weight' = Min({next_weight, Len(Weights)}) + 1
  /\ weight' = NextW /\ eprime_weight' = NextW
  /\ nodes' = ReOpened(ns, incons)
  /\ open' = OpenAddAll(key, OpenResort(key, l), Elements(incons))
  /\ incons' = Prune(incons)
  /\ closed' = RemoveClosedNodes(nodes', closed)

\* get_eprime: the bound on the incumbent's suboptimality is above one.
EPrimeAboveOne ==
  /\ eprime_weight > FPOne
  /\ incumbent > (IF open_f.heap = <<>> THEN Infinity ELSE FKey[HeapFront(open_f)][1])

\* improve_path takes a node; a goal moves on to the next weight while the
\* incumbent is still the old one.  (The test of f against the incumbent that
\* follows in the code never holds: the weight is at least one and the list's
\* best value, below the incumbent, is the node's f'.)
ImprovePath ==
  /\ algo = "arastar" /\ pc = "take"
  /\ open.heap # <<>> /\ incumbent > open.best
  /\ LET i == HeapFront(open)
         taken == SetOpen(nodes, i, FALSE)
         rest == OpenTake(FPKey, open)
     IN  /\ open_f' = OpenRemove(FKey, open_f, i)
         /\ \/ /\ nodes[i].state \notin Goals
               /\ nodes' = taken /\ open' = rest
               /\ Expand(i)
               /\ UNCHANGED <<incumbent, closed, incons, ara>>
            \/ /\ nodes[i].state \in Goals
               /\ MoveToNextWeight(taken, rest)
               /\ incumbent' = nodes[i].g
               /\ Expand(i)
  /\ UNCHANGED <<algo, stack, dfs>>

\* improve_path ends; search stops or improves the next weight's path.
NextWeight ==
  /\ algo = "arastar" /\ pc = "take"
  /\ open.heap = <<>> \/ incumbent <= open.best
  /\ \/ EPrimeAboveOne /\ MoveToNextWeight(nodes, open) /\ UNCHANGED <<pc, cur, kids>>
     \/ ~ EPrimeAboveOne /\ Finish
        /\ UNCHANGED <<nodes, open, closed, incons, ara>>
  /\ UNCHANGED <<algo, open_f, stack, incumbent, dfs>>

(***************************************************************************)
(* Optimistic search: two open lists over the same nodes once there is an  *)
(* incumbent.                                                              *)
(***************************************************************************)
SearchComplete ==
  incumbent # Infinity /\ BoundNum * open_f.best >= BoundDen * incumbent

\* get_next_state: incumbent_cost has been scaled to a double, the best
\* value it is compared with has not.
UseOpenFP == incumbent = Infinity \/ open.best * FPOne < incumbent

\* The first incumbent fills the second list.
SetIncumbent(i, rest, rest_f) ==
  /\ open_f' = IF incumbent # Infinity THEN rest_f
               ELSE OpenAddAll(FKey, open_f, ToList(rest))
  /\ incumbent' = nodes[i].g

OptimisticTake ==
  /\ algo = "optimistic" /\ pc = "take"
  /\ \/ (open.heap = <<>> \/ SearchComplete) /\ Finish
        /\ UNCHANGED <<nodes, open, open_f, incumbent>>
     \/ /\ open.heap # <<>> /\ ~ SearchComplete
        /\ \E i \in {HeapFront(IF UseOpenFP THEN open ELSE open_f)} :
             LET rest_f == IF incumbent = Infinity THEN open_f
                           ELSE OpenRemove(FKey, open_f, i)
             IN  /\ nodes' = SetOpen(nodes, i, FALSE)
                 /\ open' = OpenRemove(FPKey, open, i)
                 /\ \/ /\ nodes[i].state \in Goals
                       /\ SetIncumbent(i, open', rest_f)
                       /\ UNCHANGED <<pc, cur, kids>>
                    \/ /\ nodes[i].state \notin Goals
                       /\ open_f' = rest_f
                       /\ Expand(i) /\ UNCHANGED incumbent
  /\ UNCHANGED <<algo, closed, incons, stack, ara, dfs>>

(***************************************************************************)
(* The search called breadth-first: its list is a stack, and duplicates    *)
(* are dropped when they are taken.                                        *)
(***************************************************************************)
BreadthTake ==
  /\ algo = "breadth" /\ pc = "take"
  /\ \/ stack = <<>> /\ Finish /\ UNCHANGED <<nodes, closed, stack, incumbent>>
     \/ /\ stack # <<>>
        /\ LET i == Head(stack)
               taken == SetOpen(nodes, i, FALSE)
           IN  /\ stack' = Tail(stack) /\ nodes' = taken
               /\ \/ /\ \/ GetF(nodes[i]) > bound
                        \/ Lookup(Hashes(nodes), closed, Hash[nodes[i].state]) # {}
                     /\ UNCHANGED <<pc, cur, kids, closed, incumbent>>
                  \/ /\ GetF(nodes[i]) <= bound
                     /\ Lookup(Hashes(nodes), closed, Hash[nodes[i].state]) = {}
                     /\ closed' = TableAdd(Hashes(nodes), closed, i)
                     /\ IF nodes[i].state \in Goals
                        THEN incumbent' = nodes[i].g /\ Finish
                        ELSE Expand(i) /\ UNCHANGED incumbent
  /\ UNCHANGED <<algo, open, open_f, incons, ara, dfs>>

BreadthChild ==
  /\ algo = "breadth" /\ pc = "kids"
  /\ \E k \in kids :
       /\ kids' = kids \ {k}
       /\ nodes' = Append(nodes, [NewNode(k.to, nodes[cur].g + k.cost, cur)
                                    EXCEPT !.open = TRUE])
       /\ stack' = <<Len(nodes) + 1>> \o stack
  /\ open' = [open EXCEPT !.ind = Append(@, 0)]
  /\ open_f' = [open_f EXCEPT !.ind = Append(@, 0)]
  /\ UNCHANGED <<algo, pc, closed, incons, cur, incumbent, ara, dfs>>

(***************************************************************************)
(* The children of the other searches.                                     *)
(***************************************************************************)
Cost(k) == nodes[cur].g + k.cost

\* The second list takes part.
InF == algo = "arastar" \/ (algo = "optimistic" /\ incumbent # Infinity)

\* Put into the list (or lists) of open nodes, with the nodes as in ns.
OpenNode(ns, i, l, lf) ==
  /\ nodes' = SetOpen(ns, i, TRUE)
  /\ open' = OpenAdd(PQOpsFPrime(ns, weight), l, i)
  /\ open_f' = IF InF THEN OpenAdd(PQOpsF(ns), lf, i) ELSE lf

\* A state that the closed list does not know.
NewChild(k) ==
  LET ns == Append(nodes, NewNode(k.to, Cost(k), cur)) IN
  /\ OpenNode(ns, Len(ns), [open EXCEPT !.ind = Append(@, 0)],
              [open_f EXCEPT !.ind = Append(@, 0)])
  /\ closed' = TableAdd(Hashes(ns), closed, Len(ns))
  /\ UNCHANGED incons

\* A cheaper path to a node that is open: its place in the lists changes.
CheaperOpen(d, ns) ==
  /\ nodes' = ns
  /\ open' = OpenSeeUpdate(PQOpsFPrime(ns, weight), open, d)
  /\ open_f' = IF InF THEN OpenSeeUpdate(PQOpsF(ns), open_f, d) ELSE open_f
  /\ UNCHANGED <<closed, incons>>

\* A closed node is opened again.
Reopen(d, ns) == OpenNode(ns, d, open, open_f) /\ UNCHANGED <<closed, incons>>

\* A cheaper path to a known node.  With duplicate dropping a closed node
\* stays closed.
AStarDup(d, ns) ==
  IF ns[d].open THEN CheaperOpen(d, ns)
  ELSE IF algo = "dropping"
  THEN nodes' = ns /\ UNCHANGED <<open, open_f, closed, incons>>
  ELSE Reopen(d, ns)

AwAStarDup(d, ns) ==
  IF ns[d].open THEN CheaperOpen(d, ns) ELSE Reopen(d, ns)

OptimisticDup(d, ns) ==
  IF ns[d].open THEN CheaperOpen(d, ns) ELSE Reopen(d, ns)

\* In ARA* a closed node becomes inconsistent until the next weight.
ARADup(d, ns) ==
  IF ns[d].open THEN CheaperOpen(d, ns)
  ELSE IF ns[d].incons
  THEN /\ nodes' = ns /\ open_f' = OpenSeeUpdate(PQOpsF(ns), open_f, d)
       /\ UNCHANGED <<open, closed, incons>>
  ELSE /\ nodes' = [ns EXCEPT ![d].incons = TRUE]
       /\ open_f' = OpenAdd(PQOpsF(ns), open_f, d)
       /\ incons' = TableAdd(Hashes(ns), incons, d)
       /\ UNCHANGED <<open, closed>>

DropChild == UNCHANGED <<nodes, open, open_f, closed, incons>>

\* A child that anytime A* does not even look up.
Pruned(k) == algo = "awastar" /\ Cost(k) + H[k.to] >= incumbent

HandleChild(k) ==
  LET found == Lookup(Hashes(nodes), closed, Hash[k.to]) IN
  \/ Pruned(k) /\ DropChild
  \/ ~ Pruned(k) /\ found = {} /\ NewChild(k)
  \/ /\ ~ Pruned(k)
     /\ \E d \in found :
          LET ns == Update(nodes, d, cur, Cost(k)) IN
          \/ nodes[d].g <= Cost(k) /\ DropChild
          \/ /\ nodes[d].g > Cost(k)
             /\ \/ algo \in {"astar", "dropping"} /\ AStarDup(d, ns)
                \/ algo = "awastar" /\ AwAStarDup(d, ns)
                \/ algo = "arastar" /\ ARADup(d, ns)
                \/ algo = "optimistic" /\ OptimisticDup(d, ns)

Child ==
  /\ algo # "breadth" /\ pc = "kids"
  /\ \E k \in kids : kids' = kids \ {k} /\ HandleChild(k)
  /\ UNCHANGED <<algo, pc, stack, cur, incumbent, ara, dfs>>

Expanded ==
  /\ pc = "kids" /\ kids = {}
  /\ pc' = "take" /\ cur' = None
  /\ UNCHANGED <<algo, nodes, open, open_f, closed, incons, stack, kids,
                 incumbent, ara, dfs>>

(***************************************************************************)
(* Iterative deepening: depth-first searches of growing cost bounds.  The  *)
(* recursion is the path of states whose children are still tried.         *)
(***************************************************************************)
Frame(s, c) == [state |-> s, g |-> c, kids |-> Children(s)]

others == <<algo, nodes, open, open_f, closed, incons, stack, cur, kids, ara>>

\* The next iteration; the root is within every bound.
Deepen ==
  /\ pc = "deepen"
  /\ path' = <<Frame(Start, 0)>> /\ min_pruned' = 0
  /\ pc' = "dfs"
  /\ UNCHANGED <<others, incumbent, bound>>

PruneChild(f) ==
  min_pruned' = IF min_pruned = 0 THEN f ELSE Min({min_pruned, f})

\* The last state on the path tries a child: a state on the path is a cycle.
Descend ==
  /\ pc = "dfs" /\ path # <<>>
  /\ \E k \in Last(path).kids :
       LET c == Last(path).g + k.cost
           rest == [path EXCEPT ![Len(path)].kids = @ \ {k}]
       IN  \/ /\ \E i \in DOMAIN path : path[i].state = k.to
              /\ path' = rest /\ UNCHANGED <<pc, incumbent, min_pruned>>
           \/ /\ \A i \in DOMAIN path : path[i].state # k.to
              /\ \/ /\ c + H[k.to] > bound
                    /\ PruneChild(c + H[k.to])
                    /\ path' = rest /\ UNCHANGED <<pc, incumbent>>
                 \/ /\ c + H[k.to] <= bound /\ k.to \in Goals
                    /\ incumbent' = c /\ pc' = "done" /\ path' = <<>>
                    /\ UNCHANGED min_pruned
                 \/ /\ c + H[k.to] <= bound /\ k.to \notin Goals
                    /\ path' = Append(rest, Frame(k.to, c))
                    /\ UNCHANGED <<pc, incumbent, min_pruned>>
  /\ UNCHANGED <<others, bound>>

\* Faulty: every iteration has the same bound.
SameBound == bound

\* IDAStar::search: the smallest f that the iteration pruned.
NextBound == min_pruned

\* A state without children left returns to the one before it; the search
\* ends when nothing was pruned, and else deepens to the smallest pruned f.
Backtrack ==
  /\ pc = "dfs" /\ path # <<>> /\ Last(path).kids = {}
  /\ path' = Front(path)
  /\ IF Len(path) > 1 THEN UNCHANGED <<pc, bound>>
     ELSE /\ bound' = NextBound
          /\ pc' = IF min_pruned = 0 THEN "done" ELSE "deepen"
  /\ UNCHANGED <<others, incumbent, min_pruned>>

Done == pc = "done"

Next ==
  \/ AStarTake \/ AwAStarTake \/ ImprovePath \/ NextWeight \/ OptimisticTake \/ BreadthTake
  \/ Child \/ BreadthChild \/ Expanded
  \/ Deepen \/ Descend \/ Backtrack
  \/ Done /\ UNCHANGED vars

-----------------------------------------------------------------------------
(***************************************************************************)
(* The open lists stay heaps whose nodes know their places, in both lists  *)
(* at once, although values change while the nodes are in them; the flags  *)
(* of a node say where it is, and the second list holds what it should:    *)
(* the open nodes and, in ARA*, the inconsistent ones.                     *)
(***************************************************************************)
ListsHold ==
  /\ ListHolds(FPKey, open) /\ ListHolds(FKey, open_f)
  /\ algo \notin {"breadth", "ida"} =>
       \A i \in DOMAIN nodes : nodes[i].open = (open.ind[i] # 0)
  /\ InF => \A i \in DOMAIN nodes :
              (open_f.ind[i] # 0) = (nodes[i].open \/ nodes[i].incons)

(***************************************************************************)
(* The closed list finds every node that is open or inconsistent (the      *)
(* first node apart, which is never put into it), and one node per state,  *)
(* through growth of the table, removals and weights that change.          *)
(***************************************************************************)
ClosedKnows ==
  /\ TableHolds(nodes, closed) /\ TableHolds(nodes, incons)
  /\ InTable(incons) = {i \in DOMAIN nodes : nodes[i].incons}
  /\ \A i \in DOMAIN nodes \ {1} :
       algo # "breadth" /\ (nodes[i].open \/ nodes[i].incons) => i \in InTable(closed)

(***************************************************************************)
(* What each search promises of its solution: an optimal one, or one       *)
(* within its factor of it, and one if there is one.  The search called    *)
(* breadth-first promises less: a solution within its bound, if any, and   *)
(* some solution when it has no bound.                                     *)
(***************************************************************************)
WithinBound ==
  Done =>
    LET best == CostToGo[Start] IN
    /\ incumbent = Infinity => best = Infinity \/ (algo = "breadth" /\ bound < Infinity)
    /\ algo = "breadth" => incumbent <= bound \/ incumbent = Infinity
    /\ algo \in {"awastar", "arastar", "ida"} => incumbent = best
    /\ algo \in {"astar", "dropping"} => incumbent * FPOne <= best * weight
    /\ algo = "optimistic" => incumbent * BoundDen <= best * BoundNum

\* Every search ends.
Termination == <>Done
=============================================================================
