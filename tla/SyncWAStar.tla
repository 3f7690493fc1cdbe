----------------------------- MODULE SyncWAStar -----------------------------
(***************************************************************************)
(* Weighted A* searches with a bound in common: each thread takes the next *)
(* initial state, whose heuristic has a weight of its own, searches from   *)
(* it with lists that no other thread sees, and gives up when nothing      *)
(* better than the bound is left.  count is the number of initial states   *)
(* taken.                                                                  *)
(***************************************************************************)
EXTENDS SharedLists

SPrime(t, n) == g[n] + weight[t] * H[n[1]]

Mine(t) == States \X {t}

\* SyncWAStar::get_next_init, and the outer loop's condition: search from the
\* state or end.
SNext(t) ==
  /\ LET some == count < Len(Weights)
     IN  /\ count' = IF some THEN count + 1 ELSE count
         /\ IF some /\ ~done
            THEN /\ weight' = [weight EXCEPT ![t] = Weights[count + 1]]
                 /\ open' = [open EXCEPT ![t] = {Root}]
                 /\ Go(t, "next", "take")
            ELSE Go(t, "next", "end") /\ UNCHANGED <<weight, open>>
  /\ UNCHANGED <<algo, dd, closed, g, cur, todo, kid, best, bound, done, mut,
                 signals>>

\* Nothing is left, or another thread is done.
SGiveUp(t) ==
  /\ open[t] = {} \/ done
  /\ Go(t, "take", "clear")
  /\ UNCHANGED <<mode, open, closed, g, cur, todo, kid, best, bound,
                 done, mut, count, signals>>

STake(t) ==
  /\ ~done
  /\ \E n \in First([m \in open[t] |-> SPrime(t, m)]) :
       /\ open' = [open EXCEPT ![t] = @ \ {n}]
       /\ cur' = [cur EXCEPT ![t] = n]
       /\ Go(t, "take", IF SPrime(t, n) >= bound
                        THEN IF weight[t] = 1 THEN "finish" ELSE "clear"
                        ELSE IF n[1] \in Goals THEN "goal" ELSE "expand")
  /\ UNCHANGED <<mode, closed, g, todo, kid, best, bound, done, mut,
                 count, signals>>

\* A variation that finishes with a goal of any weight.
SGoalAnyWeight(t) ==
  /\ Go(t, "goal", "finish")
  /\ IF bound > g[cur[t]]
     THEN best' = g[cur[t]] /\ bound' = g[cur[t]]
     ELSE UNCHANGED <<best, bound>>
  /\ UNCHANGED <<mode, open, closed, g, cur, todo, kid, done, mut, count,
                 signals>>

\* A path to a goal; with weight 1 the search is over.
SGoal(t) ==
  /\ Go(t, "goal", IF weight[t] = 1 THEN "finish" ELSE "clear")
  /\ IF bound > g[cur[t]]
     THEN best' = g[cur[t]] /\ bound' = g[cur[t]]
     ELSE UNCHANGED <<best, bound>>
  /\ UNCHANGED <<mode, open, closed, g, cur, todo, kid, done, mut,
                 count, signals>>

\* The search with weight one has ended: so has everything.
SFinish(t) ==
  /\ Go(t, "finish", "clear")
  /\ done' = TRUE
  /\ UNCHANGED <<mode, open, closed, g, cur, todo, kid, best, bound,
                 mut, count, signals>>

\* All children: no other thread sees these lists.
SExpand(t) ==
  /\ Go(t, "expand", "take")
  /\ LET cost == [s \in {e.to : e \in Edges[cur[t][1]]} |->
                    Min({c[2] : c \in {d \in Children(cur[t][1], g[cur[t]]) :
                                         d[1] = s}})]
         known == {<<s, t>> : s \in DOMAIN cost} \cap closed[t]
         cheaper == {n \in known : g[n] > cost[n[1]]}
         new == {<<s, t>> : s \in DOMAIN cost} \ known
         back == {n \in cheaper : ~dd \/ n \in open[t]}
     IN  /\ g' = [n \in Nodes |->
                    IF n \in cheaper \cup new THEN cost[n[1]] ELSE g[n]]
         /\ open' = [open EXCEPT ![t] = @ \cup new \cup back]
         /\ closed' = [closed EXCEPT ![t] = @ \cup new]
  /\ UNCHANGED <<mode, cur, todo, kid, best, bound, done, mut, count,
                 signals>>

\* Both lists are emptied, and the thread looks for another initial state.
SClear(t) ==
  /\ Go(t, "clear", "next")
  /\ open' = [open EXCEPT ![t] = {}]
  /\ closed' = [closed EXCEPT ![t] = {}]
  /\ g' = [n \in Nodes |-> IF n \in Mine(t) THEN Infinity ELSE g[n]]
  /\ UNCHANGED <<mode, cur, todo, kid, best, bound, done, mut, count,
                 signals>>

SyncWAStarInit == /\ pc = [t \in 0..N |-> IF t = 0 THEN "end" ELSE "next"]
                  /\ open = [o \in 0..N |-> {}]
                  /\ count = 0

SyncWAStarStep(t) ==
  /\ algo = "syncwastar"
  /\ \/ SNext(t) \/ SGiveUp(t) \/ STake(t) \/ SGoal(t) \/ SFinish(t)
     \/ SExpand(t) \/ SClear(t)
=============================================================================
