------------------------------ MODULE PBNFSearch ------------------------------
(***************************************************************************)
(* Parallel best-nblock-first search (src/pbnf_search.cc) on a concrete    *)
(* state space: the steps of NBlockGraph, with open lists of nodes in the  *)
(* place of best values, duplicate detection in the closed lists, and the  *)
(* publication of solutions.  What NBlockGraph promises block by block is  *)
(* here shown to give what the search promises: an optimal solution.       *)
(*                                                                         *)
(* A closed list is a hash table from a state to its one node, so a node   *)
(* is a state with its g, which is Infinity for a state that is not in the *)
(* closed list of its block.                                               *)
(***************************************************************************)
EXTENDS SearchSpace

CONSTANTS
  Threads, NBlocks, Succs, Weight, DetectLivelocks, MinExpansions,
  NoThread, NoBlock,        \* see NBlockGraph
  HWeight,                  \* Heuristic::get_weight() / fp_one
  Project                   \* Projection::project

\* Weight is what the code gives to the graph, fp_one times HWeight
\* (pbnf_search.cc:232), or the HWeight that is meant.
ASSUME SearchAssumption ==
  /\ IsFiniteSet(Threads) /\ Threads # {} /\ NoThread \notin Threads
  /\ IsFiniteSet(NBlocks) /\ NoBlock \notin NBlocks
  /\ Succs \in [NBlocks -> SUBSET NBlocks]
  /\ HWeight \in Nat \ {0} /\ Weight \in Nat /\ HWeight <= Weight
  /\ HWeight * H[Start] < Infinity
  /\ DetectLivelocks \in BOOLEAN /\ MinExpansions \in Nat
  /\ Project \in [States -> NBlocks]
  /\ \A s \in States : \A e \in Edges[s] :
       Project[e.to] \in {Project[s]} \cup Succs[Project[s]]

VARIABLES
  inuse, sigma, hot, sigma_hot, free_list, num_sigma_zero, created, done,
  mutex, waiting, bound, pc, cur, want,   \* see NBlockGraph
  g,          \* per state, the cost of the path to its node
  open,       \* the states whose node is in the open list of their block
  kids,       \* per thread, the children it has still to look at
  sol,        \* per thread, the cost of the path it is publishing
  solution    \* the cost of the best path in the solution stream

threadVars == <<pc, cur, want, kids, sol>>
nodeVars == <<g, open>>
graphVars == <<inuse, sigma, hot, sigma_hot, free_list, num_sigma_zero, created>>
vars == <<graphVars, done, mutex, waiting, bound, threadVars, nodeVars, solution>>

GetF(s) == g[s] + H[s]
GetFPrime(s) == g[s] + HWeight * H[s]

\* Per block, OpenList::get_best_val.
Best ==
  [b \in NBlocks |->
     Min({Infinity} \cup {GetFPrime(s) : s \in {o \in open : Project[o] = b}})]

G == INSTANCE NBlockGraph WITH
       best <- Best, work <- 0, MaxWork <- 0, SpuriousWakeups <- FALSE,
       InitBlock <- Project[Start], InitVal <- HWeight * H[Start]

Init ==
  /\ g = [s \in States |-> IF s = Start THEN 0 ELSE Infinity]
  /\ open = {Start}
  /\ kids = [t \in Threads |-> {}]
  /\ sol = [t \in Threads |-> Infinity]
  /\ solution = Infinity
  /\ G!Init

\* The thread's steps on the graph, and its decision whether to switch.
GraphStep(t) ==
  /\ UNCHANGED <<nodeVars, kids, sol, solution>>
  /\ \/ G!GraphStep(t)
     \/ G!LeaveEmpty(t) \/ G!ShouldSwitch(t) \/ G!WantHot(t)

Leave(t, l) == pc' = [pc EXCEPT ![t] = l]

\* A path of cost c is found: search_nblock returns it to run.
ReturnPath(t, c) == sol' = [sol EXCEPT ![t] = c] /\ Leave(t, "see")

(***************************************************************************)
(* Take the best node; drop it, return its path, or expand it.             *)
(***************************************************************************)
TakeNode(t) ==
  /\ pc[t] = "body"
  /\ \E s \in open :
       /\ Project[s] = cur[t] /\ GetFPrime(s) = Best[cur[t]]
       /\ open' = open \ {s}
       /\ \/ /\ GetF(s) >= bound
             /\ Leave(t, "loop") /\ UNCHANGED <<kids, sol>>
          \/ /\ GetF(s) < bound /\ s \in Goals
             /\ ReturnPath(t, g[s]) /\ UNCHANGED kids
          \/ /\ GetF(s) < bound /\ s \notin Goals
             /\ kids' = [kids EXCEPT ![t] =
                           {[to |-> e.to, from |-> s, g |-> g[s] + e.cost] :
                              e \in Edges[s]}]
             /\ Leave(t, "expand") /\ UNCHANGED sol
  /\ UNCHANGED <<graphVars, done, mutex, waiting, bound, cur, want, g, solution>>

\* A child that is not in its closed list: it is added, and its path is
\* returned at once if it is a goal; the other children are not looked at.
NewNode(t, k) ==
  /\ g[k.to] = Infinity
  /\ g' = [g EXCEPT ![k.to] = k.g]
  /\ IF k.to \in Goals
     THEN /\ ReturnPath(t, k.g)
          /\ kids' = [kids EXCEPT ![t] = {}]
          /\ UNCHANGED open
     ELSE /\ open' = open \cup {k.to}
          /\ kids' = [kids EXCEPT ![t] = @ \ {k}]
          /\ UNCHANGED <<pc, sol>>

\* A cheaper path to a known node: its place in the open list changes, or
\* it is opened again.
CheaperPath(t, k) ==
  /\ g[k.to] # Infinity /\ g[k.to] > k.g
  /\ g' = [g EXCEPT ![k.to] = k.g]
  /\ open' = open \cup {k.to}
  /\ kids' = [kids EXCEPT ![t] = @ \ {k}]
  /\ UNCHANGED <<pc, sol>>

\* Not better than the incumbent, or than the path that is known.
Drop(t, k) ==
  /\ k.g + H[k.to] >= bound \/ (g[k.to] # Infinity /\ g[k.to] <= k.g)
  /\ kids' = [kids EXCEPT ![t] = @ \ {k}]
  /\ UNCHANGED <<pc, sol, nodeVars>>

\* The next child, in whatever order the domain lists them.
AddChild(t) ==
  /\ pc[t] = "expand"
  /\ \E k \in kids[t] :
       \/ Drop(t, k)
       \/ k.g + H[k.to] < bound /\ (NewNode(t, k) \/ CheaperPath(t, k))
  /\ UNCHANGED <<graphVars, done, mutex, waiting, bound, cur, want, solution>>

EndExpand(t) ==
  /\ pc[t] = "expand" /\ kids[t] = {}
  /\ Leave(t, "loop")
  /\ UNCHANGED <<graphVars, done, mutex, waiting, bound, cur, want, kids, sol,
                 nodeVars, solution>>

(***************************************************************************)
(* set_path (Incumbent has its steps in detail): the stream keeps the      *)
(* better path, the thread reads the best path's cost and lowers the bound *)
(* to it unless it is as low already.                                      *)
(***************************************************************************)
SeeSolution(t) ==
  /\ pc[t] = "see"
  /\ solution' = Min({solution, sol[t]})
  /\ Leave(t, "get")
  /\ UNCHANGED <<graphVars, done, mutex, waiting, bound, cur, want, kids, sol,
                 nodeVars>>

GetBestPath(t) ==
  /\ pc[t] = "get"
  /\ sol' = [sol EXCEPT ![t] = solution]
  /\ Leave(t, "cas")
  /\ UNCHANGED <<graphVars, done, mutex, waiting, bound, cur, want, kids,
                 nodeVars, solution>>

SetBound(t) ==
  /\ pc[t] = "cas"
  /\ bound' = Min({bound, sol[t]})
  /\ sol' = [sol EXCEPT ![t] = Infinity]
  /\ Leave(t, "next")
  /\ UNCHANGED <<graphVars, done, mutex, waiting, cur, want, kids, nodeVars,
                 solution>>

SearchStep(t) ==
  \/ TakeNode(t) \/ AddChild(t) \/ EndExpand(t)
  \/ SeeSolution(t) \/ GetBestPath(t) \/ SetBound(t)

Ended == \A t \in Threads : pc[t] = "ended"

Next ==
  \/ \E t \in Threads : GraphStep(t) \/ SearchStep(t)
  \/ Ended /\ UNCHANGED vars

Spec == Init /\ [][Next]_vars

-----------------------------------------------------------------------------
\* Every search thread leaves the search.
Termination == <>Ended

(***************************************************************************)
(* With nodes in the place of best values, the search still implements the *)
(* reservation of blocks.                                                  *)
(***************************************************************************)
Reservation == INSTANCE BlockReservation WITH
  owned <- cur, best <- Best, over <- done,
  InitBlock <- Project[Start], InitVal <- HWeight * H[Start]

ReservationSpec == Reservation!Spec
=============================================================================
