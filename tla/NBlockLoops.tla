---------------------------- MODULE NBlockLoops ----------------------------
(***************************************************************************)
(* The loops over interferes arrays in src/pbnf/nblock_graph.cc, iteration *)
(* by iteration, and the property that they do what the actions of         *)
(* NBlockGraph say in one step.  The order of an interferes array is that  *)
(* of a C++ set of ids, but nothing may depend on it: the loops are        *)
(* checked for every order.  The heap counts entries here, so that adding  *)
(* a block that is already on it does not go unnoticed.                    *)
(***************************************************************************)
EXTENDS NBlockGraph, TLC

LOCAL S == INSTANCE SequencesExt

Orders == S!SetToSeqs(NBlocks)

\* n->interferes
Array(n, order) == S!SelectSeq(order, LAMBDA m : m \in Interferes[n])

Graph ==
  [inuse |-> inuse, sigma |-> sigma, hot |-> hot, sigma_hot |-> sigma_hot,
   heap |-> [b \in NBlocks |-> IF b \in free_list THEN 1 ELSE 0],
   zero |-> num_sigma_zero, broadcast |-> FALSE, signal |-> FALSE]

Free(g, b) ==
  b \notin g.inuse /\ g.sigma[b] = 0 /\ g.sigma_hot[b] = 0 /\ ~Empty(b)

AddIfFree(g, m) ==
  IF Free(g, m) THEN [g EXCEPT !.heap[m] = @ + 1, !.broadcast = TRUE] ELSE g

RemoveIfFree(g, m) ==
  IF Free(g, m) /\ g.heap[m] # 0 THEN [g EXCEPT !.heap[m] = @ - 1] ELSE g

SetColdLoop(g, b, order) ==
  S!FoldLeft(LAMBDA h, m : AddIfFree([h EXCEPT !.sigma_hot[m] = @ - 1], m),
             [g EXCEPT !.hot = @ \ {b}], Array(b, order))

ColdIfHot(g, m, order) == IF m \in g.hot THEN SetColdLoop(g, m, order) ELSE g

\* One iteration of update_scope_sigmas.
UpdateSigma(g, m, d, order) ==
  LET leaving == IF g.sigma[m] = 0
                 THEN [RemoveIfFree(g, m) EXCEPT !.zero = @ - 1] ELSE g
      moved   == [leaving EXCEPT !.sigma[m] = @ + d]
  IN  IF moved.sigma[m] = 0
      THEN [AddIfFree(ColdIfHot(moved, m, order), m) EXCEPT !.zero = @ + 1]
      ELSE moved

UpdateScopeSigmas(g, n, d, order) ==
  S!FoldLeft(LAMBDA h, m : UpdateSigma(h, m, d, order), g, Array(n, order))

\* next_nblock releases n: one signal for n itself.
ReleaseLoop(n, order) ==
  LET g == [Graph EXCEPT !.inuse = @ \ {n}]
      h == IF Free(g, n) THEN [g EXCEPT !.heap[n] = @ + 1, !.signal = TRUE] ELSE g
  IN  UpdateScopeSigmas(h, n, -1, order)

TakeLoop(n, order) ==
  UpdateScopeSigmas([Graph EXCEPT !.heap[n] = @ - 1, !.inuse = @ \cup {n}],
                    n, 1, order)

\* Faulty: the blocks around b stay on the heap although b is hot.
HeatOnly(g, m, order) ==
  [ColdIfHot(g, m, order) EXCEPT !.sigma_hot[m] = @ + 1]

\* One iteration of set_hot's second loop.
Heat(g, m, order) ==
  [ColdIfHot(RemoveIfFree(g, m), m, order) EXCEPT !.sigma_hot[m] = @ + 1]

SetHotLoop(b, order) ==
  S!FoldLeft(LAMBDA g, m : Heat(g, m, order),
             [Graph EXCEPT !.hot = @ \cup {b}], Array(b, order))

WontReleaseLoop(b, order) ==
  S!FoldLeft(LAMBDA g, m : IF m \in created THEN ColdIfHot(g, m, order) ELSE g,
             Graph, Array(b, order))

-----------------------------------------------------------------------------
\* The loop leaves the graph as the step does.
SameGraph(g) == [g EXCEPT !.broadcast = FALSE, !.signal = FALSE] = Graph'

\* It wakes the threads that the step wakes.
SameWakeups(g) ==
  IF g.broadcast THEN waiting' = {}
  ELSE IF g.signal THEN waiting = {} \/ waiting' # waiting
  ELSE waiting' = waiting

\* Depending on the order, set_hot may broadcast for a block that it then
\* takes off the heap again: SetHot allows both.
AllowedWakeups(g, b) ==
  LET cool == Interferes[b] \cap hot IN
  IF g.broadcast THEN cool # {} ELSE Freed(AllInterferers(cool)) = {}

(***************************************************************************)
(* Whatever the order of the interferes arrays, the loops of next_nblock,  *)
(* set_hot, set_cold and wont_release leave the counters and flags that    *)
(* the steps of NBlockGraph compute at once, put no block on the heap that *)
(* is already there, and miss no wake-up.                                  *)
(***************************************************************************)
LoopsAgree ==
  [][\A t \in Threads :
       /\ pc[t] = "release" /\ pc'[t] = "retry"
            => \A order \in Orders :
                 LET g == ReleaseLoop(cur[t], order)
                 IN  SameGraph(g) /\ SameWakeups(g)
       /\ cur[t] = NoBlock /\ cur'[t] # NoBlock
            => \A order \in Orders :
                 LET g == TakeLoop(cur'[t], order)
                 IN  SameGraph(g) /\ SameWakeups(g)
       /\ pc[t] = "hot_locked" /\ pc'[t] = "next"
            /\ MayHeat(want[t].block, want[t].val)
            => \A order \in Orders :
                 LET g == SetHotLoop(want[t].block, order)
                 IN  SameGraph(g) /\ AllowedWakeups(g, want[t].block)
       /\ pc[t] = "wont_locked" /\ pc'[t] = "body"
            => \A order \in Orders :
                 LET g == WontReleaseLoop(cur[t], order)
                 IN  SameGraph(g) /\ SameWakeups(g)]_vars
-----------------------------------------------------------------------------
(***************************************************************************)
(* A small projection for TLC: moves lead one way only, from the first     *)
(* block (4) into two (1, 2) and from these into the last (3).  Blocks     *)
(* interfere as successors, as predecessors and through a common successor *)
(* (1 with 2); the first and the last can be searched at the same time,    *)
(* with blocks between them whose sigma reaches two.                       *)
(***************************************************************************)
CONSTANTS t1, t2

Fork4 == 1..4
ForkSuccs == <<{3}, {3}, {}, {1, 2}>>

Symmetry == Permutations(Threads)
=============================================================================
