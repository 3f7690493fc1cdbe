----------------------------- MODULE WPBNFSearch -----------------------------
(***************************************************************************)
(* Weighted PBNF (src/wpbnf_search.cc, src/wpbnf/): PBNF's graph, and a    *)
(* search that may end with a solution of up to weight times the least     *)
(* cost.  It prunes with the weighted f, empties whole open lists, and     *)
(* may drop duplicates of expanded nodes.  A behaviour is a search with    *)
(* PBNF or with one of the two kinds of WPBNF.                             *)
(***************************************************************************)
EXTENDS PBNFSearch

VARIABLES
  variant,       \* "pbnf", "wpbnf", or "wpbnfdd": with duplicate dropping
  search_done    \* WPBNFSearch::done, beside the graph's done

wvars == <<vars, variant, search_done>>

WInit ==
  /\ variant \in {"pbnf", "wpbnf", "wpbnfdd"}
  /\ search_done = FALSE
  /\ Init

-----------------------------------------------------------------------------
(* The graph is PBNF's; the loop of run tests search_done as well.         *)

\* do ... while (!done && n): a thread that has searched a block tests done.
NextNBlock(t) ==
  /\ pc[t] = "next"
  /\ IF search_done /\ cur[t] # NoBlock
     THEN /\ Leave(t, "null")
          /\ UNCHANGED <<graphVars, done, mutex, waiting, bound, cur, want>>
     ELSE G!LockNext(t) \/ G!TryLockNext(t)

\* Give the block back: update_scope_sigmas(finished, -1).
Release(t) == G!Release(t)

Acquire(t) ==
  \/ G!Finish(t) \/ G!Wait(t) \/ G!Wake(t) \/ G!SeeDone(t)
  \/ G!Prune(t) \/ G!Take(t)

SetHot(t) == G!TrySetHot(t) \/ G!SetHot(t)

WontRelease(t) == G!TryWontRelease(t) \/ G!WontRelease(t)

\* The loop's condition, but for should_switch.
LeaveLoop(t) ==
  /\ pc[t] = "loop" /\ (search_done \/ G!Empty(cur[t]))
  /\ Leave(t, "next")
  /\ UNCHANGED <<graphVars, done, mutex, waiting, bound, cur, want>>

ShouldSwitch(t) == ~search_done /\ G!ShouldSwitch(t)

\* best_in_scope finds a better block, which becomes the one to make hot.
BestInScope(t) == ~search_done /\ G!WantHot(t)

WGraphStep(t) ==
  /\ UNCHANGED <<nodeVars, kids, sol, solution, search_done>>
  /\ \/ NextNBlock(t) \/ Release(t) \/ Acquire(t) \/ SetHot(t) \/ WontRelease(t)
     \/ LeaveLoop(t) \/ ShouldSwitch(t) \/ BestInScope(t)

SetDone(t) ==
  /\ UNCHANGED <<nodeVars, kids, sol, solution>>
  /\ search_done' = TRUE
  /\ G!Exit(t)

-----------------------------------------------------------------------------
(* search_nblock                                                           *)

\* Faulty: f' has been weighted already.
PruneAllWeighted(t, s) ==
  /\ HWeight * GetFPrime(s) >= bound
  /\ open' = {o \in open : Project[o] # cur[t]}
  /\ Leave(t, "next") /\ UNCHANGED <<kids, sol>>

\* Both nodes in hand and nodes in the list are dropped, and the block left.
PruneAll(t, s) ==
  /\ GetFPrime(s) >= bound
  /\ open' = {o \in open : Project[o] # cur[t]}
  /\ Leave(t, "next") /\ UNCHANGED <<kids, sol>>

PruneNode(t, s) ==
  /\ GetFPrime(s) < bound /\ HWeight * GetF(s) >= bound
  /\ open' = open \ {s}
  /\ Leave(t, "loop") /\ UNCHANGED <<kids, sol>>

Expand(t, s) ==
  /\ GetFPrime(s) < bound /\ HWeight * GetF(s) < bound
  /\ open' = open \ {s}
  /\ IF s \in Goals
     THEN ReturnPath(t, g[s]) /\ UNCHANGED kids
     ELSE /\ kids' = [kids EXCEPT ![t] =
                        {[to |-> e.to, from |-> s, g |-> g[s] + e.cost] :
                           e \in Edges[s]}]
          /\ Leave(t, "expand") /\ UNCHANGED sol

WTakeNode(t) ==
  /\ pc[t] = "body"
  /\ \E s \in open :
       /\ Project[s] = cur[t] /\ GetFPrime(s) = Best[cur[t]]
       /\ PruneAll(t, s) \/ PruneNode(t, s) \/ Expand(t, s)
  /\ UNCHANGED <<graphVars, done, mutex, waiting, bound, cur, want, g, solution>>

\* Wheeler's test: is an expanded node worth expanding again?
WorthReopening(k) ==
  variant = "wpbnf" \/ g[k.to] > g[k.from] + HWeight * (k.g - g[k.from])

WCheaperPath(t, k) ==
  /\ g[k.to] # Infinity /\ g[k.to] > k.g
  /\ g' = [g EXCEPT ![k.to] = k.g]
  /\ open' = IF WorthReopening(k) THEN open \cup {k.to} ELSE open
  /\ kids' = [kids EXCEPT ![t] = @ \ {k}]
  /\ UNCHANGED <<pc, sol>>

WDrop(t, k) ==
  /\ \/ HWeight * (k.g + H[k.to]) >= bound
     \/ g[k.to] # Infinity /\ g[k.to] <= k.g
  /\ kids' = [kids EXCEPT ![t] = @ \ {k}]
  /\ UNCHANGED <<pc, sol, nodeVars>>

WAddChild(t) ==
  /\ pc[t] = "expand"
  /\ \E k \in kids[t] :
       \/ WDrop(t, k)
       \/ /\ HWeight * (k.g + H[k.to]) < bound
          /\ NewNode(t, k) \/ WCheaperPath(t, k)
  /\ UNCHANGED <<graphVars, done, mutex, waiting, bound, cur, want, solution>>

\* set_path, in the same three steps as PBNF's.
SetPath(t) == SeeSolution(t) \/ GetBestPath(t) \/ SetBound(t)

WSearchStep(t) ==
  /\ WTakeNode(t) \/ WAddChild(t) \/ EndExpand(t) \/ SetPath(t)
  /\ UNCHANGED search_done

WStep(t) ==
  /\ \/ variant = "pbnf" /\ (GraphStep(t) \/ SearchStep(t)) /\ UNCHANGED search_done
     \/ variant # "pbnf" /\ (WGraphStep(t) \/ SetDone(t) \/ WSearchStep(t))
  /\ UNCHANGED variant

WNext ==
  \/ \E t \in Threads : WStep(t)
  \/ Ended /\ UNCHANGED wvars

WSpec == WInit /\ [][WNext]_wvars

\* No search thread stops for ever at a step it could take.
WFairSpec == WSpec /\ \A t \in Threads : WF_wvars(WStep(t))

-----------------------------------------------------------------------------
(***************************************************************************)
(* When the threads have left, the stream holds an optimal solution (PBNF) *)
(* or one of at most weight times its cost (WPBNF that drops nothing),     *)
(* although open lists were read while stale, nodes were expanded out of   *)
(* order, and blocks were pruned off the heap.                             *)
(***************************************************************************)
WithinWeight ==
  Ended /\ variant # "wpbnfdd" =>
    IF variant = "pbnf" THEN solution = CostToGo[Start]
                        ELSE solution <= HWeight * CostToGo[Start]

(***************************************************************************)
(* WPBNF keeps the bound when it drops duplicates by Wheeler's test, too:  *)
(* what the test is for (wpbnf_search.cc:112-115).  The code does not: see *)
(* the README.                                                             *)
(***************************************************************************)
DroppingWithinWeight ==
  Ended /\ variant = "wpbnfdd" => solution <= HWeight * CostToGo[Start]
=============================================================================
