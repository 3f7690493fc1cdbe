------------------------------- MODULE BFPSDD -------------------------------
(***************************************************************************)
(* Best-first PSDD (BFPSDDSearch) and its weighted variant (WBFPSDDSearch).*)
(* The blocks with the least best f' are a layer, the others wait in a     *)
(* queue; a layer may take more blocks than that to keep the threads busy, *)
(* and a block may be searched past its layer for some expansions.         *)
(***************************************************************************)
EXTENDS Layers

IsBFPSDD == job.algo \in {"bfpsdd", "wbfpsdd"}
Weighted == job.algo = "wbfpsdd"

Free == 1      \* free_list
Queue == 2     \* nblock_pq; the order is that of the values when one is taken

FPrime(s, cost) == cost + job.weight * H[s]

\* get_best_val of a block's open list.
BestVal(b) == Min({Infinity} \cup {FPrime(s, g[s]) : s \in Of(b, open[1])})

\* The list that a block with nodes belongs on when its sigma becomes zero.
QueueOf(G, b) == IF BestVal(b) = G.value /\ b \in G.inlayer THEN Free ELSE Queue

\* update_scope_sigmas(b, 1).
Taken(G, b) ==
  [G EXCEPT !.sigma = SigmaPlus(G, b, 1),
            !.lists = [l \in 1..2 |->
               Without(G.lists[l], {c \in Interferes[b] : G.sigma[c] = 0})]]

TakeFirst(G, t, W) ==
  \/ Leave(G, t, Free, W)
  \/ /\ ~G.found
     /\ \E b \in On(G.lists[Free]) : Enter(Taken(Popped(G, Free, b), b), t, b, W)

\* update_scope_sigmas(b, -1).
Unblock(G, b) ==
  [G EXCEPT !.sigma = SigmaPlus(G, b, -1),
            !.lists = [l \in 1..2 |->
               With(G.lists[l], {c \in Unblocked(G, b) :
                                   Of(c, open[1]) # {} /\ QueueOf(G, c) = l})]]

\* Block b is put back in the queue if it has nodes, and unblocks others.
GivenBack(G, b) ==
  LET queued == IF Of(b, open[1]) = {} THEN {} ELSE {b}
      Q == [G EXCEPT !.inlayer = @ \ {b},
                     !.lists[Queue] = With(@, queued)]
  IN  [Unblock(Q, b) EXCEPT !.inuse = @ \ {b}]

LayerDone(G) == On(G.lists[Free]) = {} /\ AllSigmaZero(G)

\* NBlockCompare; blocks of one value come in the order of their numbers.
Sooner(b, c) == BestVal(b) < BestVal(c) \/ (BestVal(b) = BestVal(c) /\ b < c)

\* The blocks that the next layer takes: while it has room for more threads,
\* and as long as they have the layer's value.
InLayer(G, b) ==
  \/ Cardinality({c \in On(G.lists[Queue]) : Sooner(c, b)}) < job.mult * N
  \/ \A c \in On(G.lists[Queue]) : BestVal(b) <= BestVal(c)

\* The next layer; when the queue is empty the search is over.
Filled(G) ==
  LET first == {b \in On(G.lists[Queue]) : InLayer(G, b)}
  IN  [G EXCEPT !.value = Min({Infinity} \cup
                                {BestVal(b) : b \in On(G.lists[Queue])}),
                !.lists = [l \in 1..2 |->
                             IF l = Free THEN With(G.lists[Free], first)
                                         ELSE Without(G.lists[Queue], first)],
                !.inlayer = @ \cup first,
                !.found = @ \/ first = {}]

\* The threads a release wakes: all, or in WBFPSDD one per block set free.
WokenBy(b) ==
  LET freed == {c \in Interferes[b] : graph.sigma[c] = 1 /\ Of(c, open[1]) # {}
                                      /\ QueueOf(graph, c) = Free}
  IN  IF Weighted THEN Signalled(Cardinality(freed))
      ELSE {IF freed = {} THEN {} ELSE Waiting}

\* next_nblock: release the block, if any, then take one, wait or be done.
NextFree(t) ==
  /\ UNCHANGED <<job, cur, todo, open, g, best, bound, lowest, done>>
  /\ pc[t] = "next"
  /\ IF blk[t] = None THEN TakeFirst(graph, t, {})
     ELSE \E R \in {GivenBack(graph, blk[t])} :
            IF LayerDone(R)
            THEN \E S \in {Filled(R)} : TakeFirst(S, t, Waiting)
            ELSE \E W \in WokenBy(blk[t]) : TakeFirst(R, t, W)

\* A thread that the condition lets go looks again.
WokenFree(t) ==
  /\ UNCHANGED <<job, cur, todo, open, g, best, bound, lowest, done>>
  /\ pc[t] = "woken" /\ TakeFirst(graph, t, {})

\* search_nblock leaves the block: it is empty, the layer's nodes and the
\* expansions every block is allowed are used up, or WBFPSDD is done.
LeaveBlock(t) ==
  /\ pc[t] = "search"
  /\ \/ Of(blk[t], open[1]) = {} \/ (Weighted /\ done)
     \/ (exp[t] > job.min /\ BestVal(blk[t]) > graph.value)
  /\ pc' = [pc EXCEPT ![t] = "test"]
  /\ UNCHANGED <<job, blk, cur, todo, exp, open, g, graph, best, bound, lowest,
                 done>>

Continues(t) ==
  /\ pc[t] = "search" /\ Of(blk[t], open[1]) # {} /\ ~(Weighted /\ done)
  /\ exp[t] <= job.min \/ BestVal(blk[t]) <= graph.value

\* Nothing in the block can be better than the bound: its list is emptied.
PruneBlock(t) ==
  /\ Continues(t) /\ BestVal(blk[t]) >= bound
  /\ open' = [open EXCEPT ![1] = @ \ Of(blk[t], open[1])]
  /\ pc' = [pc EXCEPT ![t] = "test"]
  /\ UNCHANGED <<job, blk, cur, todo, exp, g, graph, best, bound, lowest, done>>

\* WBFPSDD multiplies with the weight, a fixed-point number, and compares with
\* the bound without scaling back.
Pruned(s, cost) ==
  IF Weighted THEN job.weight * (FpOne * (cost + H[s])) >= bound
  ELSE cost + H[s] >= bound

\* Take the best node: skip it, find it to be a goal, or expand it.
TakeBest(t) ==
  /\ UNCHANGED <<job, blk, g, graph, best, bound, lowest, done>>
  /\ Continues(t) /\ BestVal(blk[t]) < bound
  /\ \E s \in Of(blk[t], open[1]) :
       /\ FPrime(s, g[s]) = BestVal(blk[t])
       /\ open' = [open EXCEPT ![1] = @ \ {s}]
       /\ IF Weighted /\ Pruned(s, g[s]) THEN UNCHANGED <<pc, cur, todo, exp>>
          ELSE IF s \in Goals THEN FoundGoal(t, s) /\ UNCHANGED exp
          ELSE Expand(t, s)

DropChild(t, c) ==
  /\ Pruned(c[1], c[2]) /\ NextChild(t, c) /\ UNCHANGED <<cur, open, g>>

\* Whether a node that was expanded is opened again: always, unless WBFPSDD
\* drops duplicates; the test there compares the child's cost with itself.
Reopens(s, c) ==
  \/ ~job.dd
  \/ c[2] > g[s] + job.weight * (c[2] - g[s])

\* A duplicate that is cheaper updates the node, which is moved or opened again.
KnownChild(t, c) ==
  /\ ~Pruned(c[1], c[2]) /\ g[c[1]] # Infinity
  /\ IF g[c[1]] > c[2]
     THEN /\ g' = [g EXCEPT ![c[1]] = c[2]]
          /\ open' = IF c[1] \in open[1] \/ ~Reopens(cur[t], c) THEN open
                     ELSE [open EXCEPT ![1] = @ \cup {c[1]}]
     ELSE UNCHANGED <<g, open>>
  /\ NextChild(t, c) /\ UNCHANGED cur

\* A new node; a goal ends the search of the block at once.
FreshChild(t, c) ==
  /\ ~Pruned(c[1], c[2]) /\ g[c[1]] = Infinity
  /\ g' = [g EXCEPT ![c[1]] = c[2]]
  /\ IF c[1] \in Goals
     THEN FoundGoal(t, c[1]) /\ UNCHANGED open
     ELSE NextChild(t, c) /\ open' = [open EXCEPT ![1] = @ \cup {c[1]}]
          /\ UNCHANGED cur

HandleChild(t) ==
  /\ UNCHANGED <<job, blk, exp, graph, best, bound, lowest, done>>
  /\ pc[t] = "child"
  /\ \E c \in todo[t] : DropChild(t, c) \/ KnownChild(t, c) \/ FreshChild(t, c)

\* BFPSDDSearch::set_path: the best path is kept, then the bound lowered by
\* compare-and-swap.  WBFPSDDSearch does both under a mutex.
SeePath(t) ==
  /\ pc[t] = "path"
  /\ \/ /\ ~Weighted /\ best' = Min({best, g[cur[t]]}) /\ UNCHANGED bound
        /\ pc' = [pc EXCEPT ![t] = "lower"]
     \/ /\ Weighted /\ pc' = [pc EXCEPT ![t] = "test"]
        /\ IF bound >= g[cur[t]]
           THEN best' = g[cur[t]] /\ bound' = g[cur[t]] ELSE UNCHANGED <<best, bound>>
  /\ UNCHANGED <<job, blk, cur, todo, exp, open, g, graph, lowest, done>>

LowerBound(t) ==
  /\ Go(t, "lower", "test") /\ bound' = Min({bound, best})
  /\ UNCHANGED <<job, blk, cur, todo, exp, open, g, graph, best, lowest, done>>

\* The loop of run goes on while there are blocks and WBFPSDD is not done.
Again(t) ==
  /\ \/ Go(t, "test", IF Weighted /\ done THEN "finish" ELSE "next")
     \/ Go(t, "none", IF Weighted THEN "finish" ELSE "end")
  /\ UNCHANGED <<job, blk, cur, todo, exp, open, g, graph, best, bound, lowest,
                 done>>

\* WBFPSDD's thread tells the others to stop, without the graph's mutex.
Finish(t) ==
  /\ pc[t] = "finish" /\ pc' = Wake(Waiting, t, "end")
  /\ done' = TRUE /\ graph' = [graph EXCEPT !.found = TRUE]
  /\ UNCHANGED <<job, blk, cur, todo, exp, open, g, best, bound, lowest>>

BFPSDDStep(t) ==
  IsBFPSDD /\ (NextFree(t) \/ WokenFree(t) \/ LeaveBlock(t) \/ PruneBlock(t)
                 \/ TakeBest(t) \/ HandleChild(t) \/ SeePath(t) \/ LowerBound(t)
                 \/ Again(t) \/ Finish(t))
=============================================================================
