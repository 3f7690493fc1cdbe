----------------------------- MODULE OPBNFSearch -----------------------------
(***************************************************************************)
(* Optimistic PBNF (src/opbnf_search.cc, src/opbnf/).  Every block orders  *)
(* its nodes twice: by f', with an inflated weight, to find a solution     *)
(* soon, and by f, to show that it is good enough.  The search ends when   *)
(* no node has an f below the solution's cost divided by the factor b, of  *)
(* which the threads learn early, without the mutex, from f_min.           *)
(*                                                                         *)
(* The counters of the graph are those of NBlockGraph; next_nblock is not. *)
(* Both free lists hold the same blocks and are one set here.              *)
(***************************************************************************)
EXTENDS SearchSpace

CONSTANTS
  Threads, NBlocks, Succs, NoThread, NoBlock, Project,  \* see PBNFSearch
  Factors           \* the factors b that a search is started with

ASSUME OPBNFAssumption ==
  /\ IsFiniteSet(Threads) /\ Threads # {} /\ NoThread \notin Threads
  /\ IsFiniteSet(NBlocks) /\ NoBlock \notin NBlocks
  /\ Succs \in [NBlocks -> SUBSET NBlocks]
  /\ Factors \subseteq Nat \ {0} /\ H[Start] < Infinity
  /\ Project \in [States -> NBlocks]
  /\ \A s \in States : \A e \in Edges[s] :
       Project[e.to] \in {Project[s]} \cup Succs[Project[s]]

VARIABLES
  inuse, sigma, hot, sigma_hot, free_list,   \* see NBlockGraph
  graph_done,     \* NBlockGraph::done
  mutex, waiting, pc, cur, want,             \* see NBlockGraph
  set_hot,        \* the threads that made a block hot: they will not trylock
  f_min,          \* NBlockGraph::f_min
  local_f_min,    \* per block
  left,           \* per block, the best f that prune leaves behind in best_f
  b,              \* OPBNFSearch::b
  bound,          \* the cost of the best path
  done,           \* OPBNFSearch::done
  g,              \* per state, the cost of its node (Infinity: not closed)
  open,           \* the states whose node is in the open lists
  kids,           \* per thread, the children it has still to look at
  sol             \* per thread, the cost of the path it has found

countVars == <<inuse, sigma, hot, sigma_hot>>
minVars == <<f_min, local_f_min>>
nodeVars == <<b, g, open, left>>
localVars == <<want, set_hot, kids, sol>>
vars == <<countVars, free_list, graph_done, mutex, waiting, pc, cur, localVars,
          minVars, bound, done, nodeVars>>

\* The weight that f' is computed with: that of b, inflated.
HWeight == (b - 1) * 2 + 1

F(s) == g[s] + H[s]
FPrime(s) == g[s] + HWeight * H[s]

NodesOf(n) == {s \in open : Project[s] = n}
BestF == [n \in NBlocks |-> Min({Infinity} \cup {F(s) : s \in NodesOf(n)})]
BestFP == [n \in NBlocks |-> Min({Infinity} \cup {FPrime(s) : s \in NodesOf(n)})]

\* get_best_f: prune empties the lists but keeps the value.
StoredF(n) == IF NodesOf(n) = {} THEN left[n] ELSE BestF[n]

\* No node can lead to a solution that is good enough, if v is not.
NothingBetter(v) == v < Infinity /\ b * f_min > v

G == INSTANCE NBlockGraph WITH
       best <- BestF, work <- 0, MaxWork <- 0, SpuriousWakeups <- FALSE,
       DetectLivelocks <- TRUE, MinExpansions <- 1, Weight <- 1,
       InitBlock <- Project[Start], InitVal <- 0, done <- graph_done,
       num_sigma_zero <- Cardinality({n \in NBlocks : sigma[n] = 0}),
       created <- NBlocks

\* What a block interferes with, as in PBNF, and what is free.
Interferes == G!Interferes
FreeNow == {n \in NBlocks : G!IsFree(n)}

Init ==
  /\ b \in Factors
  /\ g = [s \in States |-> IF s = Start THEN 0 ELSE Infinity]
  /\ open = {Start} /\ left = [n \in NBlocks |-> Infinity]
  /\ f_min = 0 /\ local_f_min = [n \in NBlocks |-> Infinity]
  /\ kids = [t \in Threads |-> {}] /\ sol = [t \in Threads |-> Infinity]
  /\ set_hot = {} /\ want = [t \in Threads |-> G!NoWant]
  /\ inuse = {} /\ hot = {} /\ free_list = {Project[Start]}
  /\ sigma = [n \in NBlocks |-> 0] /\ sigma_hot = [n \in NBlocks |-> 0]
  /\ graph_done = FALSE /\ mutex = NoThread /\ waiting = {}
  /\ bound = Infinity /\ done = FALSE
  /\ pc = [t \in Threads |-> "read"] /\ cur = [t \in Threads |-> NoBlock]

Goto(t, l) == pc' = [pc EXCEPT ![t] = l]
Lock(t) == mutex = NoThread /\ mutex' = t
Unlock == mutex' = NoThread
Broadcast == waiting' = {}

SameData == UNCHANGED <<bound, done, kids, sol, nodeVars>>

\* NBlock::better: by f' as long as that is below the bound v, then by f.
Better(m, n, v) ==
  IF BestFP[m] < v THEN BestFP[m] < BestFP[n]
  ELSE BestFP[n] >= v /\ BestF[m] < BestF[n]

\* The fronts of the two free lists.
FrontFP(n) == n \in free_list /\ \A m \in free_list : BestFP[n] <= BestFP[m]
FrontF(n) == n \in free_list /\ \A m \in free_list : BestF[n] <= BestF[m]

-----------------------------------------------------------------------------
(* next_nblock.  Its bound is read before the mutex is taken.              *)

ReadBound(t) ==
  /\ pc[t] = "read"
  /\ want' = [want EXCEPT ![t] = [block |-> NoBlock, val |-> bound]]
  /\ Goto(t, "next")
  /\ UNCHANGED <<countVars, free_list, graph_done, mutex, waiting, cur, set_hot,
                 minVars>> /\ SameData

LockNext(t) ==
  /\ pc[t] = "next" /\ Lock(t)
  /\ Goto(t, IF cur[t] = NoBlock THEN "wake" ELSE "release")
  /\ UNCHANGED <<countVars, free_list, graph_done, waiting, cur, localVars,
                 minVars>> /\ SameData

\* trylock finds the mutex taken: the thread keeps its block.
Busy(t) ==
  /\ pc[t] = "next" /\ t \notin set_hot
  /\ cur[t] # NoBlock /\ ~G!Empty(cur[t])
  /\ mutex # NoThread \/ \E u \in Threads \ {t} : pc[u] \in {"set_hot", "wont", "stop"}
  /\ Goto(t, "test")
  /\ UNCHANGED <<countVars, free_list, graph_done, mutex, waiting, cur, localVars,
                 minVars>> /\ SameData

\* Faulty: the blocks around the finished one keep their old minimum.
OnlyFinished(n) ==
  /\ local_f_min' = [local_f_min EXCEPT ![n] = StoredF(n)]
  /\ f_min' = Min({local_f_min'[m] : m \in NBlocks})

\* The finished block and its successors bring their minima up to date.
UpdateFMin(n) ==
  /\ local_f_min' = [m \in NBlocks |-> IF m \in {n} \cup Succs[n] THEN StoredF(m)
                                       ELSE local_f_min[m]]
  /\ f_min' = Min({local_f_min'[m] : m \in NBlocks})

\* Neither free list has a better block at its front; of several blocks with
\* the same value any may be there.
MayKeep(n, v) ==
  /\ ~G!Empty(n)
  /\ \/ free_list = {}
     \/ /\ \E m \in NBlocks : FrontFP(m) /\ ~Better(m, n, v)
        /\ \E m \in NBlocks : FrontF(m) /\ ~Better(m, n, v)

MayGive(n, v) ==
  \/ G!Empty(n)
  \/ \E m \in NBlocks : (FrontFP(m) \/ FrontF(m)) /\ Better(m, n, v)

Keep(t) ==
  /\ pc[t] = "release" /\ MayKeep(cur[t], want[t].val)
  /\ UpdateFMin(cur[t])
  /\ Unlock /\ Goto(t, "test")
  /\ UNCHANGED <<countVars, free_list, graph_done, waiting, cur, localVars>>
  /\ SameData

\* Nothing is free and nothing is in use.
NothingLeft == free_list' = {} /\ \A n \in NBlocks : sigma'[n] = 0

\* The blocks that set_cold puts back when the blocks of C are set cold.
PutBack(C) == G!Freed(UNION {Interferes[c] : c \in C})

\* The blocks that n was the last to block.
Unblocked(n) == {m \in Interferes[n] : sigma[m] = 1}

\* update_scope_sigmas for a block that is given back: the blocks that it was
\* the last to block are free, and cold.
GiveBack(n) ==
  LET zero == Unblocked(n)
      cool == G!HotAmong(zero)
  IN
  /\ inuse' = inuse \ {n}
  /\ sigma' = G!ScopeSigmas(n, -1)
  /\ hot' = hot \ cool
  /\ sigma_hot' = G!CooledSigmaHot(cool)
  /\ free_list' = free_list \cup G!Freed({n} \cup zero) \cup PutBack(cool)

Release(t) ==
  LET n == cur[t] IN
  /\ pc[t] = "release" /\ MayGive(n, want[t].val)
  /\ SameData /\ UpdateFMin(n)
  /\ GiveBack(n)
  /\ graph_done' = (graph_done \/ NothingLeft)
  /\ IF free_list' # free_list \/ NothingLeft THEN Broadcast ELSE UNCHANGED waiting
  /\ cur' = [cur EXCEPT ![t] = NoBlock]
  /\ IF NothingLeft THEN Unlock /\ Goto(t, "test")
                    ELSE UNCHANGED mutex /\ Goto(t, "wake")
  /\ UNCHANGED localVars

Wait(t) ==
  /\ pc[t] = "wake" /\ ~graph_done /\ free_list = {}
  /\ waiting' = waiting \cup {t}
  /\ Unlock /\ Goto(t, "wait")
  /\ UNCHANGED <<countVars, free_list, graph_done, cur, localVars, minVars>>
  /\ SameData

Wake(t) ==
  /\ pc[t] = "wait" /\ t \notin waiting /\ Lock(t)
  /\ Goto(t, "wake")
  /\ UNCHANGED <<countVars, free_list, graph_done, waiting, cur, localVars,
                 minVars>> /\ SameData

SeeDone(t) ==
  /\ pc[t] = "wake" /\ graph_done
  /\ Unlock /\ Goto(t, "test")
  /\ UNCHANGED <<countVars, free_list, graph_done, waiting, cur, localVars,
                 minVars>> /\ SameData

\* The block with the best f', or, when that cannot improve the solution, the
\* one with the best f.  Blocks that interfere with it are not free any more.
Take(t) ==
  /\ SameData
  /\ pc[t] = "wake" /\ ~graph_done
  /\ \E n \in free_list :
       /\ \/ FrontFP(n) /\ BestFP[n] < want[t].val
          \/ FrontF(n) /\ \A m \in free_list : BestFP[m] >= want[t].val
       /\ inuse' = inuse \cup {n}
       /\ sigma' = G!ScopeSigmas(n, 1)
       /\ free_list' = free_list \ ({n} \cup (Interferes[n] \cap FreeNow))
       /\ cur' = [cur EXCEPT ![t] = n]
  /\ Unlock /\ Goto(t, "test")
  /\ UNCHANGED <<hot, sigma_hot, graph_done, waiting, localVars, minVars>>

\* Behind next_nblock: no node can lead to a better solution than the factor
\* asks for, or there is no block.
Test(t) ==
  /\ pc[t] = "test"
  /\ want' = [want EXCEPT ![t] = G!NoWant]
  /\ set_hot' = IF NothingBetter(bound) THEN set_hot ELSE set_hot \ {t}
  /\ Goto(t, IF NothingBetter(bound) \/ cur[t] = NoBlock THEN "leave" ELSE "enter")
  /\ UNCHANGED <<countVars, free_list, graph_done, mutex, waiting, cur, minVars>>
  /\ SameData

NextStep(t) ==
  \/ ReadBound(t) \/ LockNext(t) \/ Busy(t) \/ Keep(t) \/ Release(t) \/ Wait(t) \/ Wake(t)
  \/ SeeDone(t) \/ Take(t) \/ Test(t)

-----------------------------------------------------------------------------
(* search_nblock, without any lock.                                        *)

SearchVars == <<countVars, free_list, graph_done, mutex, waiting, set_hot, minVars,
                cur, b>>

\* The loop test before the first expansion in a block.
Enter(t) ==
  /\ pc[t] = "enter"
  /\ Goto(t, IF done \/ G!Empty(cur[t]) THEN "again" ELSE "body")
  /\ UNCHANGED <<SearchVars, bound, done, want, kids, sol, nodeVars>>

OutOfBound(f) == b * f >= bound

\* The best f of the block is too bad: all its nodes are dropped.
PruneBlock(t) ==
  /\ pc[t] = "body" /\ OutOfBound(BestF[cur[t]])
  /\ open' = open \ NodesOf(cur[t])
  /\ left' = [left EXCEPT ![cur[t]] = BestF[cur[t]]]
  /\ Goto(t, "again")
  /\ UNCHANGED <<SearchVars, bound, done, want, kids, sol, g>>

ReturnPath(t, c) == sol' = [sol EXCEPT ![t] = c] /\ Goto(t, "path")

\* The best node by f', or by f when its f' is not below the bound.
IsBest(s, n) ==
  IF BestFP[n] < bound THEN FPrime(s) = BestFP[n] ELSE F(s) = BestF[n]

TakeNode(t) ==
  /\ pc[t] = "body" /\ ~OutOfBound(BestF[cur[t]])
  /\ \E s \in NodesOf(cur[t]) :
       /\ IsBest(s, cur[t])
       /\ open' = open \ {s}
       /\ \/ OutOfBound(F(s)) /\ Goto(t, "loop") /\ UNCHANGED <<kids, sol>>
          \/ /\ ~OutOfBound(F(s)) /\ s \in Goals
             /\ ReturnPath(t, g[s]) /\ UNCHANGED kids
          \/ /\ ~OutOfBound(F(s)) /\ s \notin Goals
             /\ kids' = [kids EXCEPT ![t] =
                           {[to |-> e.to, g |-> g[s] + e.cost] : e \in Edges[s]}]
             /\ Goto(t, "expand") /\ UNCHANGED sol
  /\ left' = [left EXCEPT ![cur[t]] = Infinity]
  /\ UNCHANGED <<SearchVars, bound, done, want, g>>

\* NBlock::add, or see_update for a node whose g is lower.
AddNode(s) == open' = open \cup {s}

Discard(t, k) ==
  /\ OutOfBound(k.g + H[k.to]) \/ (g[k.to] # Infinity /\ g[k.to] <= k.g)
  /\ kids' = [kids EXCEPT ![t] = @ \ {k}]
  /\ UNCHANGED <<pc, sol, g, open>>

\* A state that is not closed; a goal is returned at once.
NewNode(t, k) ==
  /\ ~OutOfBound(k.g + H[k.to]) /\ g[k.to] = Infinity
  /\ g' = [g EXCEPT ![k.to] = k.g]
  /\ IF k.to \in Goals
     THEN ReturnPath(t, k.g) /\ kids' = [kids EXCEPT ![t] = {}] /\ UNCHANGED open
     ELSE /\ AddNode(k.to) /\ kids' = [kids EXCEPT ![t] = @ \ {k}]
          /\ UNCHANGED <<pc, sol>>

\* Faulty: a node that has been expanded is not opened again.
ClosedForGood(t, k) ==
  /\ ~OutOfBound(k.g + H[k.to]) /\ g[k.to] # Infinity /\ g[k.to] > k.g
  /\ g' = [g EXCEPT ![k.to] = k.g]
  /\ kids' = [kids EXCEPT ![t] = @ \ {k}]
  /\ UNCHANGED <<pc, sol, open>>

\* A cheaper path to a known node: it is moved, or opened again.
CheaperPath(t, k) ==
  /\ ~OutOfBound(k.g + H[k.to]) /\ g[k.to] # Infinity /\ g[k.to] > k.g
  /\ g' = [g EXCEPT ![k.to] = k.g] /\ AddNode(k.to)
  /\ kids' = [kids EXCEPT ![t] = @ \ {k}]
  /\ UNCHANGED <<pc, sol>>

AddChild(t) ==
  /\ pc[t] = "expand"
  /\ \E k \in kids[t] : Discard(t, k) \/ NewNode(t, k) \/ CheaperPath(t, k)
  /\ UNCHANGED <<SearchVars, bound, done, want, left>>

EndExpand(t) ==
  /\ pc[t] = "expand" /\ kids[t] = {}
  /\ Goto(t, "loop")
  /\ UNCHANGED <<SearchVars, bound, done, want, kids, sol, nodeVars>>

\* The loop test after an expansion.  should_switch reads the lists of other
\* blocks while they change: its comparisons may have any outcome.
LoopTest(t) ==
  /\ pc[t] = "loop"
  /\ \/ Goto(t, "again")
     \/ ~done /\ ~G!Empty(cur[t]) /\ (Goto(t, "body") \/ Goto(t, "wont"))
  /\ UNCHANGED <<SearchVars, bound, done, want, kids, sol, nodeVars>>

\* The blocks that best_in_scope chooses from, any one, as it reads their lists
\* while they change.
InScope(n) == {m \in Interferes[n] : ~G!Empty(m)}

\* should_switch: best_scope is better than the free lists and the own block.
WantHot(t) ==
  /\ pc[t] = "loop" /\ ~done /\ ~G!Empty(cur[t])
  /\ \E n \in InScope(cur[t]) :
       want' = [want EXCEPT ![t] = [block |-> n, val |-> bound]]
  /\ Goto(t, "set_hot")
  /\ UNCHANGED <<SearchVars, bound, done, kids, sol, nodeVars>>

\* set_hot goes ahead unless a better block that it interferes with is hot.
MayHeat(n, v) ==
  /\ n \notin hot /\ sigma[n] > 0
  /\ \A m \in Interferes[n] \cap hot : ~Better(m, n, v)

SetHot(t) ==
  LET n    == want[t].block
      cool == G!HotAmong(Interferes[n])
  IN
  /\ pc[t] = "set_hot" /\ mutex = NoThread
  /\ SameData
  /\ IF MayHeat(n, want[t].val)
     THEN /\ hot' = (hot \ cool) \cup {n}
          /\ sigma_hot' = [m \in NBlocks |-> G!CooledSigmaHot(cool)[m]
                                  + IF m \in Interferes[n] THEN 1 ELSE 0]
          /\ UNCHANGED <<inuse, sigma>>
          /\ free_list' = (free_list \ (Interferes[n] \cap FreeNow)) \cup PutBack(cool)
          /\ IF PutBack(cool) # {} THEN Broadcast ELSE UNCHANGED waiting
     ELSE UNCHANGED <<countVars, free_list, waiting>>
  /\ want' = [want EXCEPT ![t] = G!NoWant] /\ set_hot' = set_hot \cup {t}
  /\ Goto(t, "again")
  /\ UNCHANGED <<graph_done, mutex, cur, minVars>>

WontRelease(t) ==
  LET cool == G!HotAmong(Interferes[cur[t]]) IN
  /\ pc[t] = "wont" /\ mutex = NoThread
  /\ SameData
  /\ hot' = hot \ cool /\ sigma_hot' = G!CooledSigmaHot(cool)
  /\ UNCHANGED <<inuse, sigma>>
  /\ free_list' = free_list \cup PutBack(cool)
  /\ IF PutBack(cool) # {} THEN Broadcast ELSE UNCHANGED waiting
  /\ Goto(t, "body")
  /\ UNCHANGED <<graph_done, mutex, cur, localVars, minVars>>

\* set_path, under its own mutex.  The search is done if f_min says so.
SetPath(t) ==
  /\ pc[t] = "path"
  /\ sol' = [sol EXCEPT ![t] = Infinity]
  /\ IF bound > sol[t]
     THEN bound' = sol[t] /\ done' = (done \/ NothingBetter(sol[t]))
     ELSE UNCHANGED <<bound, done>>
  /\ Goto(t, "again")
  /\ UNCHANGED <<SearchVars, want, kids, nodeVars>>

SearchStep(t) ==
  \/ Enter(t) \/ PruneBlock(t) \/ TakeNode(t) \/ AddChild(t) \/ EndExpand(t)
  \/ LoopTest(t) \/ WantHot(t) \/ SetHot(t) \/ WontRelease(t) \/ SetPath(t)

-----------------------------------------------------------------------------
(* The end of run.                                                         *)

Again(t) ==
  /\ pc[t] = "again"
  /\ Goto(t, IF done THEN "leave" ELSE "read")
  /\ UNCHANGED <<countVars, free_list, graph_done, mutex, waiting, cur, localVars,
                 minVars>> /\ SameData

Leave(t) ==
  /\ pc[t] = "leave" /\ done' = TRUE
  /\ Goto(t, "stop")
  /\ UNCHANGED <<countVars, free_list, graph_done, mutex, waiting, cur, localVars,
                 minVars, bound, nodeVars>>

\* Faulty: nobody is woken.
StopQuietly(t) ==
  /\ pc[t] = "stop" /\ mutex = NoThread
  /\ graph_done' = TRUE /\ Goto(t, "ended")
  /\ UNCHANGED <<countVars, free_list, mutex, waiting, cur, localVars, minVars>>
  /\ SameData

\* NBlockGraph::set_done; whatever block the thread has stays in use.
SetDone(t) ==
  /\ pc[t] = "stop" /\ (graph_done \/ mutex = NoThread)
  /\ graph_done' = TRUE
  /\ IF graph_done THEN UNCHANGED waiting ELSE Broadcast
  /\ Goto(t, "ended")
  /\ UNCHANGED <<countVars, free_list, mutex, cur, localVars, minVars>> /\ SameData

Step(t) == NextStep(t) \/ SearchStep(t) \/ Again(t) \/ Leave(t) \/ SetDone(t)

Ended == \A t \in Threads : pc[t] = "ended"

Next == \E t \in Threads : Step(t)

\* The steps that need the mutex.
LockStep(t) ==
  LockNext(t) \/ Wake(t) \/ SetHot(t) \/ WontRelease(t) \/ SetDone(t)

Spec == Init /\ [][Next]_vars

\* No thread is stopped for ever, or refused the mutex for ever.
FairSpec ==
  /\ Spec
  /\ \A t \in Threads : WF_vars(Step(t)) /\ SF_vars(LockStep(t))

-----------------------------------------------------------------------------

\* Reading f_min without the mutex is safe: however late the minima of the
\* blocks are brought up to date, as long as the solution found is worse than
\* b times an optimal one f_min is not above the least cost.
FMinSound == bound > b * CostToGo[Start] => f_min <= CostToGo[Start]

\* The threads leave, early or not, with a solution that is worse than an
\* optimal one by the factor b at most.
WithinBound == Ended => bound \in CostToGo[Start]..(b * CostToGo[Start])

\* The search ends: no thread waits for ever when others leave with blocks.
Termination == <>Ended
=============================================================================
