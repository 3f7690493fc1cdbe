------------------------------- MODULE Layers -------------------------------
(***************************************************************************)
(* The state that the layered searches PSDD, BFPSDD and WBFPSDD are written*)
(* over: threads that own blocks of the abstract state space, blocks with  *)
(* lists of nodes, and the lists that free blocks wait on.  A list of blocks*)
(* says how often each block is on it; its order is left open, so that who  *)
(* takes the first block of a list may take any.  A node is a state with   *)
(* its g, which its block's closed list holds once it is made.             *)
(***************************************************************************)
EXTENDS SearchSpace

CONSTANTS N,              \* the number of threads
          Blocks,         \* the blocks, numbers
          BlockOf,        \* Projection::project
          AbstractSuccs,  \* Projection::get_successors
          FpOne           \* fp_one, what a weight of one is stored as

ASSUME LayersAssumption ==
  /\ {N, FpOne} \subseteq Nat \ {0}
  /\ Blocks \subseteq Nat \ {0} /\ IsFiniteSet(Blocks)
  /\ BlockOf \in [States -> Blocks]
  /\ AbstractSuccs \in [Blocks -> SUBSET Blocks]
  /\ \A s \in States : \A e \in Edges[s] :
       BlockOf[e.to] \in AbstractSuccs[BlockOf[s]]

Threads == 1..N
None == 0      \* a thread has no block

VARIABLES
  job,        \* [algo, weight, dd, min, mult]: the search and its options
  pc,         \* per thread: where it is
  blk,        \* per thread: the block it owns
  cur,        \* per thread: the node in hand
  todo,       \* per thread: the children still to be handled, <<state, cost>>
  exp,        \* per thread: exp_this_block
  open,       \* the nodes on the open lists, per layer (PSDD) or in open[1]
  g,          \* per state: State::g, Infinity before the node is made
  graph,      \* [sigma, inuse, lists, layer, value, inlayer, found]
  best,       \* the cost of the path found
  bound,      \* the cost nodes are pruned at
  lowest,     \* PSDD: lowest_out_of_bounds
  done        \* WBFPSDDSearch::done

vars == <<job, pc, blk, cur, todo, exp, open, g, graph, best, bound, lowest,
          done>>

AbstractPreds == [b \in Blocks |-> {p \in Blocks : b \in AbstractSuccs[p]}]

\* The blocks that may not be in use together with a block: its predecessors,
\* its successors and their predecessors.
Interferes ==
  [b \in Blocks |->
     (AbstractPreds[b] \cup AbstractSuccs[b]
        \cup UNION {AbstractPreds[c] : c \in AbstractSuccs[b]}) \ {b}]

\* The nodes of block b on an open list.
Of(b, list) == {s \in list : BlockOf[s] = b}

AllSigmaZero(G) == \A b \in Blocks : G.sigma[b] = 0

\* The blocks on a list; the list without those of a set, or with them added.
On(list) == {b \in Blocks : list[b] # 0}
Without(list, S) == [b \in Blocks |-> IF b \in S THEN 0 ELSE list[b]]
With(list, S) == [b \in Blocks |-> IF b \in S THEN list[b] + 1 ELSE list[b]]
NoBlocks == [b \in Blocks |-> 0]

\* The sigmas when those of the blocks that interfere with b change by d.
SigmaPlus(G, b, d) ==
  [c \in Blocks |-> IF c \in Interferes[b] THEN G.sigma[c] + d ELSE G.sigma[c]]

\* The blocks that block b alone keeps from being free.
Unblocked(G, b) == {c \in Interferes[b] : G.sigma[c] = 1}

\* The children of state s, made from a node of cost cost.
Children(s, cost) == {<<e.to, cost + e.cost>> : e \in Edges[s]}

\* The graph of a new search: the start's block is on the first list.
NewGraph(value) ==
  [sigma |-> [b \in Blocks |-> 0], inuse |-> {},
   lists |-> [l \in 1..2 |-> IF l = 1 THEN With(NoBlocks, {BlockOf[Start]})
                                      ELSE NoBlocks],
   layer |-> 1, value |-> value, inlayer |-> {}, found |-> FALSE]

NewOpen == [l \in 1..2 |-> IF l = 1 THEN {Start} ELSE {}]

OnlyStart == [s \in States |-> IF s = Start THEN 0 ELSE Infinity]

Everywhere(place) == [t \in Threads |-> place]

Waiting == {t \in Threads : pc[t] = "wait"}

\* pc when thread t goes to a place after waking the threads of W.
Wake(W, t, to) ==
  [u \in Threads |-> IF u = t THEN to ELSE IF u \in W THEN "woken" ELSE pc[u]]

\* The sets of threads that n calls of pthread_cond_signal can wake.
Signalled(n) ==
  {W \in SUBSET Waiting : Cardinality(W) = Min({n, Cardinality(Waiting)})}

\* Block b of list l is in use.
Popped(G, l, b) ==
  [G EXCEPT !.inuse = @ \cup {b}, !.lists = [G.lists EXCEPT ![l][b] = @ - 1]]

\* A thread that holds the graph's mutex and has nothing more to release is
\* done, or waits for list l.
Leave(G, t, l, W) ==
  /\ G.found \/ On(G.lists[l]) = {}
  /\ graph' = G /\ blk' = [blk EXCEPT ![t] = None] /\ UNCHANGED exp
  /\ pc' = Wake(W, t, IF G.found THEN "none" ELSE "wait")

\* It takes block b, which leaves the graph as G.
Enter(G, t, b, W) ==
  /\ graph' = G /\ blk' = [blk EXCEPT ![t] = b] /\ exp' = [exp EXCEPT ![t] = 0]
  /\ pc' = Wake(W, t, "search")

\* Thread t turns from a node to its children.
Expand(t, s) ==
  /\ cur' = [cur EXCEPT ![t] = s]
  /\ todo' = [todo EXCEPT ![t] = Children(s, g[s])]
  /\ exp' = [exp EXCEPT ![t] = @ + 1]
  /\ pc' = [pc EXCEPT ![t] = IF Edges[s] = {} THEN "search" ELSE "child"]

\* Thread t is through with child c.
NextChild(t, c) ==
  /\ todo' = [todo EXCEPT ![t] = @ \ {c}]
  /\ pc' = [pc EXCEPT ![t] = IF todo[t] = {c} THEN "search" ELSE "child"]

\* Thread t has found a path to node s and leaves its block for set_path.
FoundGoal(t, s) ==
  /\ cur' = [cur EXCEPT ![t] = s] /\ todo' = [todo EXCEPT ![t] = {}]
  /\ pc' = [pc EXCEPT ![t] = "path"]

Go(t, from, to) == pc[t] = from /\ pc' = [pc EXCEPT ![t] = to]
=============================================================================
