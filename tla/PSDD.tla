-------------------------------- MODULE PSDD --------------------------------
(***************************************************************************)
(* Parallel structured duplicate detection (PSDDSearch): breadth-first     *)
(* search in two layers over the block graph of psdd/nblock_graph.cc,      *)
(* pruned at a bound, and the searches that call it: IDPSDDSearch, which   *)
(* raises the bound until a path is found, and DynamicBoundedPSDD, which   *)
(* takes the cost of a weighted A* solution as the bound.                  *)
(***************************************************************************)
EXTENDS Layers

IsPSDD == job.algo \in {"psdd", "idpsdd", "dynamic"}

\* get_next_layer.
Other(l) == 3 - l

\* The list that a free block belongs on: that of the first layer it has
\* nodes of, or none.
LayersOf(G, b) ==
  IF Of(b, open[G.layer]) # {} THEN {G.layer}
  ELSE IF Of(b, open[Other(G.layer)]) # {} THEN {Other(G.layer)} ELSE {}

\* Faulty: only the current list is cleaned.
AcquiredHere(G, b) ==
  [G EXCEPT !.sigma = SigmaPlus(G, b, 1),
            !.lists[G.layer] = Without(@, Interferes[b])]

\* update_scope_sigmas(b, 1): the blocks around b are not free any more.
Acquired(G, b) ==
  [G EXCEPT !.sigma = SigmaPlus(G, b, 1),
            !.lists = [l \in 1..2 |->
               Without(G.lists[l], {c \in Interferes[b] :
                          G.sigma[c] = 0 /\ l \in LayersOf(G, c)})]]

TakeOrWait(G, t, W) ==
  \/ Leave(G, t, G.layer, W)
  \/ /\ ~G.found
     /\ \E b \in On(G.lists[G.layer]) :
          Enter(Acquired(Popped(G, G.layer, b), b), t, b, W)

\* update_scope_sigmas(b, -1): the blocks that only b blocked go on their lists.
Unscoped(G, b) ==
  [G EXCEPT !.sigma = SigmaPlus(G, b, -1),
            !.lists = [l \in 1..2 |->
               With(G.lists[l], {c \in Unblocked(G, b) : l \in LayersOf(G, c)})]]

\* The finished block waits for the next layer if it has nodes of it.
Released(G, b) ==
  LET next == Other(G.layer)
  IN  [Unscoped(G, b) EXCEPT
         !.inuse = @ \ {b},
         !.lists[next] = With(@, IF Of(b, open[next]) = {} THEN {} ELSE {b})]

\* Faulty: the layer is taken to be over while blocks are in use.
ListEmpty(G) == On(G.lists[G.layer]) = {}

\* Nothing of this layer is left and nothing is in use.
LayerOver(G) == On(G.lists[G.layer]) = {} /\ AllSigmaZero(G)

\* The next layer, and the end of the search when that is empty.
Switched(G) ==
  [G EXCEPT !.layer = Other(@), !.found = @ \/ On(G.lists[Other(G.layer)]) = {}]

\* The pthread_cond_signals of a release.
SignalsOf(b) ==
  Cardinality({c \in Interferes[b] : graph.sigma[c] = 1 /\ LayersOf(graph, c) # {}})

\* next_nblock: release the block, if any, then take one, wait or be done.
NextBlock(t) ==
  /\ UNCHANGED <<job, cur, todo, open, g, best, bound, lowest, done>>
  /\ pc[t] = "next"
  /\ IF blk[t] = None
     THEN TakeOrWait(graph, t, {})
     ELSE \E R \in {Released(graph, blk[t])} :
            IF LayerOver(R)
            THEN \E S \in {Switched(R)} : TakeOrWait(S, t, Waiting)
            ELSE \E W \in Signalled(SignalsOf(blk[t])) :
                   TakeOrWait(R, t, W)

\* A thread that pthread_cond_wait lets go looks again.
Woken(t) ==
  /\ UNCHANGED <<job, cur, todo, open, g, best, bound, lowest, done>>
  /\ pc[t] = "woken" /\ TakeOrWait(graph, t, {})

\* search_nblock: take a node of the current layer, or leave the block.
Take(t) ==
  /\ UNCHANGED <<job, blk, g, graph, best, bound, lowest, done>>
  /\ pc[t] = "search"
  /\ \/ /\ Of(blk[t], open[graph.layer]) = {}
        /\ pc' = [pc EXCEPT ![t] = "test"] /\ UNCHANGED <<cur, todo, exp, open>>
     \/ \E s \in Of(blk[t], open[graph.layer]) :
          /\ open' = [open EXCEPT ![graph.layer] = @ \ {s}]
          /\ IF s \in Goals THEN FoundGoal(t, s) /\ UNCHANGED exp
             ELSE Expand(t, s)

IsOpen(s) == \E l \in 1..2 : s \in open[l]

AddToNext(s) == open' = [open EXCEPT ![Other(graph.layer)] = @ \cup {s}]

\* A child above the bound is dropped, but its f counts for the next bound.
OverBound(t, c) ==
  LET f == c[2] + H[c[1]]
  IN  /\ f > bound /\ lowest' = Min({lowest, f})
      /\ NextChild(t, c) /\ UNCHANGED <<cur, open, g>>

\* Faulty: a node keeps its first path.
KnownKept(t, c) ==
  /\ c[2] + H[c[1]] <= bound /\ g[c[1]] # Infinity
  /\ NextChild(t, c) /\ UNCHANGED <<cur, lowest, g, open>>

\* A child that is in its block's closed list; if it is cheaper the node there
\* is updated and, unless it is still open, opened for the next layer.
Known(t, c) ==
  /\ c[2] + H[c[1]] <= bound /\ g[c[1]] # Infinity
  /\ IF g[c[1]] > c[2]
     THEN /\ g' = [g EXCEPT ![c[1]] = c[2]]
          /\ IF IsOpen(c[1]) THEN UNCHANGED open ELSE AddToNext(c[1])
     ELSE UNCHANGED <<g, open>>
  /\ NextChild(t, c) /\ UNCHANGED <<cur, lowest>>

\* A new node; a goal ends the search of the block at once.
Fresh(t, c) ==
  /\ c[2] + H[c[1]] <= bound /\ g[c[1]] = Infinity
  /\ g' = [g EXCEPT ![c[1]] = c[2]]
  /\ IF c[1] \in Goals
     THEN FoundGoal(t, c[1]) /\ UNCHANGED open
     ELSE NextChild(t, c) /\ AddToNext(c[1]) /\ UNCHANGED cur
  /\ UNCHANGED lowest

Child(t) ==
  /\ UNCHANGED <<job, blk, exp, graph, best, bound, done>>
  /\ pc[t] = "child"
  /\ \E c \in todo[t] : OverBound(t, c) \/ Known(t, c) \/ Fresh(t, c)

\* PSDDSearch::set_path: the first path is kept.
SetPath(t) ==
  /\ Go(t, "path", "tell") /\ best' = IF best = Infinity THEN g[cur[t]] ELSE best
  /\ UNCHANGED <<job, blk, cur, todo, exp, open, g, graph, bound, lowest, done>>

\* Faulty: the waiting threads are not told.
FoundQuietly(t) ==
  /\ Go(t, "tell", "test") /\ graph' = [graph EXCEPT !.found = TRUE]
  /\ UNCHANGED <<job, blk, cur, todo, exp, open, g, best, bound, lowest, done>>

\* set_path_found.
SetPathFound(t) ==
  /\ pc[t] = "tell" /\ pc' = Wake(Waiting, t, "test")
  /\ graph' = [graph EXCEPT !.found = TRUE]
  /\ UNCHANGED <<job, blk, cur, todo, exp, open, g, best, bound, lowest, done>>

\* The loop of run ends with a path, still owning a block, or without blocks.
Test(t) ==
  /\ \/ Go(t, "test", IF best = Infinity THEN "next" ELSE "end")
     \/ Go(t, "none", "end")
  /\ UNCHANGED <<job, blk, cur, todo, exp, open, g, graph, best, bound, lowest,
                 done>>

PSDDStep(t) ==
  IsPSDD /\ (NextBlock(t) \/ Woken(t) \/ Take(t) \/ Child(t) \/ SetPath(t)
               \/ SetPathFound(t) \/ Test(t))

AllEnded == \A t \in Threads : pc[t] = "end"

\* The bound of the first search: none, the initial f, or what weighted A* has
\* found, any cost within its weight of the least.
FirstBound ==
  CASE job.algo = "idpsdd" -> {H[Start]}
    [] job.algo = "dynamic" -> CostToGo[Start]..(job.weight * CostToGo[Start])
    [] OTHER -> {Infinity}

\* IDPSDDSearch's loop goes on: there is no path, or one above the bound.
Continued ==
  job.algo = "idpsdd" /\ (best = Infinity \/ best > bound) /\ lowest # 0

\* IDPSDDSearch: the next iteration, on a graph that has been reset.
Iterate ==
  /\ UNCHANGED <<job, cur, todo, exp, done>>
  /\ AllEnded /\ Continued /\ bound' = lowest
  /\ graph' = NewGraph(0) /\ open' = NewOpen /\ g' = OnlyStart
  /\ pc' = Everywhere("next") /\ blk' = Everywhere(None)
  /\ best' = Infinity /\ lowest' = Infinity
=============================================================================
