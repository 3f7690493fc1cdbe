---------------------------- MODULE ARPBNFSearch ----------------------------
(***************************************************************************)
(* Anytime repairing PBNF (src/arpbnf_search.cc, src/arpbnf/).  The search *)
(* starts with a weighted heuristic.  When a better solution is found, or  *)
(* nothing is left, all threads give their blocks back and meet to sort    *)
(* the open lists again for the next weight; a node that was improved      *)
(* after it had been expanded waits for that in an incons list.            *)
(*                                                                         *)
(* One thread, the master, sets resort_flag, spins until no block is in    *)
(* use, and keeps the mutex while the others, the slaves, take blocks from *)
(* a lock-free queue and sort them with it.                                *)
(*                                                                         *)
(* The graph is the one of NBlockGraph, with another next_nblock.  A       *)
(* section that holds the mutex across several steps sets mutex.           *)
(* min_expansions is at least one.                                         *)
(***************************************************************************)
EXTENDS SearchSpace, Sequences

CONSTANTS
  Threads, NBlocks, Succs, NoThread, NoBlock, Project,  \* see PBNFSearch
  WeightLists       \* the lists of weights that a search is started with

ASSUME ARPBNFAssumption ==
  /\ IsFiniteSet(Threads) /\ Threads # {} /\ NoThread \notin Threads
  /\ IsFiniteSet(NBlocks) /\ NoBlock \notin NBlocks
  /\ Succs \in [NBlocks -> SUBSET NBlocks]
  /\ \A w \in WeightLists :
       w \in Seq(Nat \ {0}) /\ w # <<>> /\ w[1] * H[Start] < Infinity
  /\ Project \in [States -> NBlocks]
  /\ \A s \in States : \A e \in Edges[s] :
       Project[e.to] \in {Project[s]} \cup Succs[Project[s]]

VARIABLES
  inuse, sigma, hot, sigma_hot, free_list, num_sigma_zero, created, done,
  mutex, waiting, bound, pc, cur, want,   \* see NBlockGraph
  set_hot,        \* the threads that made a block hot: they will not trylock
  final_wt,       \* per thread, its argument: was the weight the final one?
  ret,            \* per thread, where resort() will return to
  job,            \* per thread, the block it is sorting
  resort_flag, resort_start,
  resort_q,       \* the blocks that are to be sorted
  n_to_sort,      \* unsigned: -1 is its largest value
  weights,        \* ARPBNFSearch::weights, constant
  weight,         \* Heuristic::get_weight
  next_weight,    \* how many of the weights have been used
  final_weight,   \* ARPBNFSearch::final_weight
  heap_weight,    \* per block, the weight its open list is in order for
  g,              \* per state, the cost of its node (Infinity: not closed)
  open, incons,   \* the states whose node is in the open, the incons list
  kids,           \* per thread, the children it has still to look at
  sol             \* per thread, the cost of the path it has found

countVars == <<inuse, sigma, hot, sigma_hot, num_sigma_zero, created>>
resortVars == <<resort_flag, resort_start, resort_q, n_to_sort>>
weightVars == <<weights, weight, next_weight, final_weight>>
nodeVars == <<g, open, incons, heap_weight>>
localVars == <<want, set_hot, final_wt, ret, job, kids, sol>>
vars == <<countVars, free_list, done, mutex, waiting, bound, pc, cur, localVars,
          resortVars, weightVars, nodeVars>>

GetF(s) == g[s] + H[s]

\* get_f_prime at the current weight, and as the heap of its block sees it.
GetFPrime(s) == g[s] + weight * H[s]
HeapKey(s) == g[s] + heap_weight[Project[s]] * H[s]

Best ==
  [b \in NBlocks |->
     Min({Infinity} \cup {HeapKey(s) : s \in {o \in open : Project[o] = b}})]

G == INSTANCE NBlockGraph WITH
       best <- Best, work <- 0, MaxWork <- 0, SpuriousWakeups <- FALSE,
       DetectLivelocks <- TRUE, MinExpansions <- 1, Weight <- 1,
       InitBlock <- Project[Start], InitVal <- 0

\* What a block interferes with, as in PBNF, and the blocks that are free.
Interferes == G!Interferes
FreeBlocks == {b \in created : G!IsFree(b)}

\* The graph that the search starts with: only the first block exists.
NewGraph ==
  /\ g = [s \in States |-> IF s = Start THEN 0 ELSE Infinity]
  /\ open = {Start} /\ incons = {}
  /\ inuse = {} /\ hot = {}
  /\ sigma = [b \in NBlocks |-> 0] /\ sigma_hot = [b \in NBlocks |-> 0]
  /\ free_list = {Project[Start]} /\ created = {Project[Start]}
  /\ num_sigma_zero = Cardinality(NBlocks)
  /\ resort_flag = FALSE /\ resort_start = FALSE
  /\ resort_q = {} /\ n_to_sort = 0
  /\ done = FALSE /\ mutex = NoThread /\ waiting = {}

Init ==
  /\ NewGraph
  /\ set_hot = {} /\ final_wt = [t \in Threads |-> FALSE]
  /\ ret = [t \in Threads |-> "next"] /\ job = [t \in Threads |-> NoBlock]
  /\ weights \in WeightLists
  /\ weight = weights[1] /\ next_weight = 1 /\ final_weight = (weight = 1)
  /\ heap_weight = [b \in NBlocks |-> weight]
  /\ kids = [t \in Threads |-> {}] /\ sol = [t \in Threads |-> Infinity]
  /\ bound = Infinity
  /\ pc = [t \in Threads |-> "next"]
  /\ cur = [t \in Threads |-> NoBlock] /\ want = [t \in Threads |-> G!NoWant]

Goto(t, l) == pc' = [pc EXCEPT ![t] = l]
Lock(t) == mutex = NoThread /\ mutex' = t
Unlock == mutex' = NoThread
Broadcast == waiting' = {}
SetDone == done' = TRUE /\ IF done THEN UNCHANGED waiting ELSE Broadcast
Drop(t) == cur' = [cur EXCEPT ![t] = NoBlock]

\* Nothing in the open lists and nothing about the weights changes.
SameData == UNCHANGED <<bound, kids, sol, weightVars, nodeVars>>

AllSigmaZero == num_sigma_zero = Cardinality(NBlocks)
FrontIs(P(_)) == \E n \in NBlocks : G!Front(n) /\ P(n)
OutOfBound(n) == Best[n] > bound

-----------------------------------------------------------------------------
(* The thread's loop, and next_nblock.                                     *)

NextBlock(t) ==
  /\ pc[t] = "next"
  /\ final_wt' = [final_wt EXCEPT ![t] = final_weight]
  /\ Goto(t, IF done THEN "ended" ELSE "lock")
  /\ UNCHANGED <<countVars, free_list, done, mutex, waiting, cur, want, set_hot,
                 ret, job, resortVars>> /\ SameData

\* pthread_mutex_lock, or a trylock that finds the mutex free.
LockNext(t) ==
  /\ pc[t] = "lock" /\ Lock(t)
  /\ set_hot' = set_hot \ {t}
  /\ Goto(t, IF cur[t] = NoBlock THEN "again" ELSE "release")
  /\ UNCHANGED <<countVars, free_list, done, waiting, cur, want, final_wt, ret,
                 job, resortVars>> /\ SameData

\* trylock finds it taken (by a thread that is in set_hot, perhaps): the
\* thread keeps its block, which has nodes left.
Busy(t) ==
  /\ pc[t] = "lock"
  /\ ~resort_flag /\ t \notin set_hot
  /\ cur[t] # NoBlock /\ ~G!Empty(cur[t])
  /\ mutex # NoThread \/ \E u \in Threads \ {t} : pc[u] \in {"set_hot", "wont"}
  /\ Goto(t, "enter")
  /\ UNCHANGED <<countVars, free_list, done, mutex, waiting, cur, localVars,
                 resortVars>> /\ SameData

\* No block on the heap is better than the thread's own.
WorthKeeping(n) ==
  /\ ~resort_flag /\ ~G!Empty(n) /\ Best[n] <= bound
  /\ \A m \in free_list : Best[n] <= Best[m]

Keep(t) ==
  /\ pc[t] = "release" /\ WorthKeeping(cur[t])
  /\ Unlock /\ Goto(t, "enter")
  /\ UNCHANGED <<countVars, free_list, done, waiting, cur, localVars,
                 resortVars>> /\ SameData

\* The blocks of C are set cold.
SetCold(C) ==
  /\ hot' = hot \ C
  /\ sigma_hot' = G!CooledSigmaHot(C)

\* update_scope_sigmas(n, -1): blocks that nothing interferes with any more
\* become cold.
ReleaseScope(n, zero, cool) ==
  /\ sigma' = G!ScopeSigmas(n, -1)
  /\ num_sigma_zero' = num_sigma_zero + Cardinality(zero)
  /\ SetCold(cool)
  /\ G!Get(Interferes[n] \cup G!AllInterferers(cool))

\* free_nblock.
FreeBlock(n) ==
  LET zero == {m \in Interferes[n] : sigma[m] = 1}
      cool == G!HotAmong(zero)
  IN
  /\ inuse' = inuse \ {n}
  /\ ReleaseScope(n, zero, cool)
  /\ UNCHANGED nodeVars
  /\ free_list' = free_list
                    \cup G!Freed({n} \cup zero \cup G!AllInterferers(cool))

Release(t) ==
  /\ pc[t] = "release" /\ ~WorthKeeping(cur[t])
  /\ FreeBlock(cur[t]) /\ Drop(t)
  /\ IF free_list' # free_list THEN Broadcast ELSE UNCHANGED waiting
  /\ Goto(t, "again")
  /\ UNCHANGED <<done, mutex, bound, localVars, resortVars, weightVars>>

\* again: help to sort, then go on behind the test of the flag.
JoinResort(t) ==
  /\ pc[t] = "again" /\ resort_flag
  /\ Unlock /\ ret' = [ret EXCEPT ![t] = "relock"]
  /\ Goto(t, "spin")
  /\ UNCHANGED <<countVars, free_list, done, waiting, cur, want, set_hot, final_wt,
                 job, resortVars>> /\ SameData

Relock(t) ==
  /\ pc[t] = "relock" /\ Lock(t)
  /\ Goto(t, "resorted")
  /\ UNCHANGED <<countVars, free_list, done, waiting, cur, localVars,
                 resortVars>> /\ SameData

\* Nothing is in use, and nothing on the heap can lead to a solution that
\* is better at this weight.
NothingToDo ==
  AllSigmaZero /\ ~resort_flag /\ (free_list = {} \/ FrontIs(OutOfBound))

AtTest(t) == pc[t] = "resorted" \/ (pc[t] = "again" /\ ~resort_flag)

\* Returns NULL; the search is over if the weight was the final one.
Finish(t) ==
  /\ AtTest(t) /\ NothingToDo
  /\ IF final_wt[t] THEN SetDone ELSE UNCHANGED <<done, waiting>>
  /\ Unlock /\ Goto(t, "null")
  /\ UNCHANGED <<countVars, free_list, cur, localVars, resortVars>> /\ SameData

AtWait(t) == pc[t] = "test" \/ (AtTest(t) /\ ~NothingToDo)

Wait(t) ==
  /\ AtWait(t) /\ ~resort_flag /\ ~done /\ free_list = {}
  /\ waiting' = waiting \cup {t}
  /\ Unlock /\ Goto(t, "wait")
  /\ UNCHANGED <<countVars, free_list, done, cur, localVars, resortVars>> /\ SameData

\* The best free block is out of bound: it stays free, and the thread
\* sleeps, with the others awake, before it tries again.
PutBack(t) ==
  /\ AtWait(t) /\ ~resort_flag /\ ~done /\ FrontIs(OutOfBound)
  /\ waiting' = {t}
  /\ Unlock /\ Goto(t, "pause")
  /\ UNCHANGED <<countVars, free_list, done, cur, localVars, resortVars>> /\ SameData

Wake(t) ==
  /\ pc[t] \in {"wait", "pause"} /\ t \notin waiting /\ Lock(t)
  /\ Goto(t, IF pc[t] = "wait" THEN "test" ELSE "again")
  /\ UNCHANGED <<countVars, free_list, done, waiting, cur, localVars,
                 resortVars>> /\ SameData

\* Returns NULL, and the thread has no block.  One that comes from PutBack
\* returns the block it has put back, with no node in bound by now, so that the
\* thread leaves it, and the loop, without a step.
SeeDone(t) ==
  /\ AtWait(t) /\ done
  /\ Unlock /\ Goto(t, "null")
  /\ UNCHANGED <<countVars, free_list, done, waiting, cur, localVars,
                 resortVars>> /\ SameData

SeeFlag(t) ==
  /\ AtWait(t) /\ ~done /\ resort_flag
  /\ Goto(t, "again")
  /\ UNCHANGED <<countVars, free_list, done, mutex, waiting, cur, localVars,
                 resortVars>> /\ SameData

\* update_scope_sigmas(n, 1): blocks that n interferes with leave the heap.
AcquireScope(n) ==
  /\ sigma' = G!ScopeSigmas(n, 1)
  /\ num_sigma_zero' =
       num_sigma_zero - Cardinality({m \in Interferes[n] : sigma[m] = 0})
  /\ free_list' = free_list \ G!Unavailable(n)
  /\ G!Get(Interferes[n])

Take(t) ==
  /\ AtWait(t) /\ ~resort_flag /\ ~done
  /\ \E n \in NBlocks :
       /\ G!Front(n) /\ ~OutOfBound(n)
       /\ inuse' = inuse \cup {n}
       /\ AcquireScope(n)
       /\ cur' = [cur EXCEPT ![t] = n]
  /\ Unlock /\ Goto(t, "enter")
  /\ UNCHANGED <<hot, sigma_hot, done, waiting, localVars, resortVars>> /\ SameData

\* next_nblock returned NULL: a resort, unless the weight is the final one.
GotNull(t) ==
  /\ pc[t] = "null"
  /\ Goto(t, IF final_weight THEN "next" ELSE "call")
  /\ UNCHANGED <<countVars, free_list, done, mutex, waiting, cur, localVars,
                 resortVars>> /\ SameData

NextStep(t) ==
  \/ NextBlock(t) \/ Busy(t) \/ Keep(t) \/ Release(t) \/ JoinResort(t) \/ Relock(t)
  \/ Finish(t) \/ Wait(t) \/ PutBack(t) \/ Wake(t) \/ SeeDone(t) \/ SeeFlag(t)
  \/ Take(t) \/ GotNull(t)

-----------------------------------------------------------------------------
(* search_nblock, without any lock.                                        *)

SearchVars == <<countVars, free_list, done, mutex, waiting, set_hot, final_wt, ret,
                job, resortVars, weightVars>>

\* The loop test before the first expansion in a block.
Enter(t) ==
  /\ pc[t] = "enter"
  /\ Goto(t, IF resort_flag THEN "next" ELSE "body")
  /\ UNCHANGED <<SearchVars, bound, cur, want, kids, sol, nodeVars>>

ReturnPath(t, c) == sol' = [sol EXCEPT ![t] = c] /\ Goto(t, "path")

\* The front of the heap: given back, dropped, returned or expanded.
TakeNode(t) ==
  /\ pc[t] = "body"
  /\ \E s \in open :
       /\ Project[s] = cur[t] /\ HeapKey(s) = Best[cur[t]]
       /\ \/ /\ GetFPrime(s) > bound
             /\ Goto(t, "next") /\ UNCHANGED <<kids, sol, open>>
          \/ /\ GetFPrime(s) <= bound
             /\ open' = open \ {s}
             /\ \/ /\ GetF(s) >= bound
                   /\ Goto(t, "loop") /\ UNCHANGED <<kids, sol>>
                \/ /\ GetF(s) < bound /\ s \in Goals
                   /\ ReturnPath(t, g[s]) /\ UNCHANGED kids
                \/ /\ GetF(s) < bound /\ s \notin Goals
                   /\ kids' = [kids EXCEPT ![t] =
                                 {[to |-> e.to, g |-> g[s] + e.cost] : e \in Edges[s]}]
                   /\ Goto(t, "expand") /\ UNCHANGED sol
  /\ UNCHANGED <<SearchVars, bound, cur, want, g, incons, heap_weight>>

\* A heap that was empty is in order for the current weight.
OpenNode(s) ==
  /\ open' = open \cup {s}
  /\ heap_weight' = IF G!Empty(Project[s])
                    THEN [heap_weight EXCEPT ![Project[s]] = weight] ELSE heap_weight

\* process_child of a state that is not closed: it is, and is opened unless
\* it is a goal, whose path is returned at once.
NewNode(t, k) ==
  /\ g[k.to] = Infinity
  /\ g' = [g EXCEPT ![k.to] = k.g]
  /\ IF k.to \in Goals
     THEN /\ ReturnPath(t, k.g)
          /\ kids' = [kids EXCEPT ![t] = {}]
          /\ UNCHANGED <<open, heap_weight>>
     ELSE /\ OpenNode(k.to)
          /\ kids' = [kids EXCEPT ![t] = @ \ {k}]
          /\ UNCHANGED <<pc, sol>>
  /\ UNCHANGED incons

\* Faulty: a closed node that is improved is not opened again.
ForgetIncons(t, k) ==
  /\ g[k.to] # Infinity /\ g[k.to] > k.g
  /\ g' = [g EXCEPT ![k.to] = k.g]
  /\ kids' = [kids EXCEPT ![t] = @ \ {k}]
  /\ UNCHANGED <<pc, sol, open, incons, heap_weight>>

\* A cheaper path to a known node.  A node that has been expanded is opened
\* again at the final weight only; before, it becomes inconsistent.
CheaperPath(t, k) ==
  /\ g[k.to] # Infinity /\ g[k.to] > k.g
  /\ g' = [g EXCEPT ![k.to] = k.g]
  /\ kids' = [kids EXCEPT ![t] = @ \ {k}]
  /\ \/ k.to \in open /\ UNCHANGED <<open, incons, heap_weight>>
     \/ k.to \notin open /\ final_weight /\ OpenNode(k.to) /\ UNCHANGED incons
     \/ /\ k.to \notin open /\ ~final_weight
        /\ incons' = incons \cup {k.to} /\ UNCHANGED <<open, heap_weight>>
  /\ UNCHANGED <<pc, sol>>

Discard(t, k) ==
  /\ k.g + H[k.to] >= bound \/ (g[k.to] # Infinity /\ g[k.to] <= k.g)
  /\ kids' = [kids EXCEPT ![t] = @ \ {k}]
  /\ UNCHANGED <<pc, sol, nodeVars>>

AddChild(t) ==
  /\ pc[t] = "expand"
  /\ \E k \in kids[t] :
       \/ Discard(t, k)
       \/ k.g + H[k.to] < bound /\ (NewNode(t, k) \/ CheaperPath(t, k))
  /\ UNCHANGED <<SearchVars, bound, cur, want>>

EndExpand(t) ==
  /\ pc[t] = "expand" /\ kids[t] = {}
  /\ Goto(t, "loop")
  /\ UNCHANGED <<SearchVars, bound, cur, want, kids, sol, nodeVars>>

\* The loop test after an expansion.  should_switch reads the lists of other
\* blocks while they change: its comparisons may have any outcome.
LoopTest(t) ==
  /\ pc[t] = "loop"
  /\ \/ Goto(t, "next")
     \/ ~G!Empty(cur[t]) /\ ~resort_flag /\ Goto(t, "body")
     \/ ~G!Empty(cur[t]) /\ Goto(t, "wont")
  /\ UNCHANGED <<SearchVars, bound, cur, want, kids, sol, nodeVars>>

\* should_switch: best_scope is better than the heap and the thread's block.
WantHot(t) ==
  /\ pc[t] = "loop" /\ ~G!Empty(cur[t])
  /\ \E b \in Interferes[cur[t]] \cap created :
       want' = [want EXCEPT ![t] = [block |-> b, val |-> Best[b]]]
  /\ Goto(t, "set_hot")
  /\ UNCHANGED <<SearchVars, bound, cur, kids, sol, nodeVars>>

\* set_hot.  set_cold frees blocks that the loop may take off the heap again.
SetHot(t) ==
  LET b    == want[t].block
      cool == G!HotAmong(Interferes[b])
      near == G!AllInterferers(cool)
  IN
  /\ pc[t] = "set_hot" /\ mutex = NoThread
  /\ UNCHANGED nodeVars
  /\ IF G!MayHeat(b, want[t].val)
     THEN /\ hot' = (hot \ cool) \cup {b}
          /\ sigma_hot' = [m \in NBlocks |-> G!CooledSigmaHot(cool)[m]
                                  + IF m \in Interferes[b] THEN 1 ELSE 0]
          /\ G!Get(Interferes[b] \cup near)
          /\ UNCHANGED <<inuse, sigma>>
          /\ free_list' = (free_list \ (Interferes[b] \cap FreeBlocks))
                            \cup G!Freed(near)
          /\ \/ cool # {} /\ Broadcast
             \/ G!Freed(near) = {} /\ UNCHANGED waiting
     ELSE UNCHANGED <<countVars, free_list, waiting>>
  /\ want' = [want EXCEPT ![t] = G!NoWant]
  /\ set_hot' = set_hot \cup {t}
  /\ Goto(t, "next")
  /\ UNCHANGED <<num_sigma_zero, done, mutex, bound, cur, final_wt, ret, job,
                 resortVars, weightVars, kids, sol>>

WontRelease(t) ==
  LET cool == G!HotAmong(Interferes[cur[t]] \cap created)
      near == G!AllInterferers(cool)
  IN
  /\ pc[t] = "wont" /\ mutex = NoThread
  /\ UNCHANGED nodeVars
  /\ SetCold(cool)
  /\ G!Get(near)
  /\ UNCHANGED <<inuse, sigma>>
  /\ free_list' = free_list \cup G!Freed(near)
  /\ IF G!Freed(near) # {} THEN Broadcast ELSE UNCHANGED waiting
  /\ Goto(t, IF resort_flag THEN "next" ELSE "body")
  /\ UNCHANGED <<num_sigma_zero, done, mutex, bound, cur, localVars, resortVars,
                 weightVars>>

\* set_path, under its own mutex: new_bound signals one thread.  A better
\* solution makes the thread call for a resort if there are weights left.
SetPath(t) ==
  /\ pc[t] = "path"
  /\ sol' = [sol EXCEPT ![t] = Infinity]
  /\ \/ /\ sol[t] < bound
        /\ bound' = sol[t]
        /\ IF waiting = {} THEN UNCHANGED waiting
           ELSE \E w \in waiting : waiting' = waiting \ {w}
        /\ Goto(t, IF final_weight THEN "next" ELSE "call")
     \/ /\ sol[t] >= bound
        /\ Goto(t, "next") /\ UNCHANGED <<bound, waiting>>
  /\ UNCHANGED <<countVars, free_list, done, mutex, set_hot, final_wt, ret, job,
                 resortVars, weightVars, cur, want, kids, nodeVars>>

SearchStep(t) ==
  \/ Enter(t) \/ TakeNode(t) \/ AddChild(t) \/ EndExpand(t) \/ LoopTest(t)
  \/ WantHot(t) \/ SetHot(t) \/ WontRelease(t) \/ SetPath(t)

-----------------------------------------------------------------------------
(* call_for_resort and resort.                                             *)

\* Nothing to sort for; run forgets its block in any case.
CallForResort(t) ==
  /\ pc[t] = "call"
  /\ IF done \/ final_weight THEN Drop(t) /\ Goto(t, "next")
                             ELSE UNCHANGED cur /\ Goto(t, "claim")
  /\ UNCHANGED <<countVars, free_list, done, mutex, waiting, localVars,
                 resortVars>> /\ SameData

\* The thread becomes the master.
ClaimResort(t) ==
  /\ pc[t] = "claim" /\ mutex = NoThread /\ ~resort_flag
  /\ resort_flag' = TRUE
  /\ IF cur[t] = NoBlock THEN UNCHANGED <<countVars, free_list, nodeVars>>
                         ELSE FreeBlock(cur[t])
  /\ Broadcast
  /\ Drop(t) /\ Goto(t, "master")
  /\ UNCHANGED <<done, mutex, bound, localVars, resort_start, resort_q, n_to_sort,
                 weightVars>>

\* Another thread did: this one helps it to sort.  It does not free its
\* block, although run will forget it.
JoinMaster(t) ==
  /\ pc[t] = "claim" /\ mutex = NoThread /\ resort_flag
  /\ ret' = [ret EXCEPT ![t] = "next"]
  /\ Drop(t) /\ Goto(t, "spin")
  /\ UNCHANGED <<countVars, free_list, done, mutex, waiting, want, set_hot, final_wt,
                 job, kids, sol, resortVars, weightVars, nodeVars, bound>>

\* The weight after the current one: the last one is the final one.
MoveToNextWeight ==
  LET more == next_weight < Len(weights)
      n    == IF more THEN next_weight + 1 ELSE next_weight
      w    == IF more THEN weights[n] ELSE 1
  IN  IF weights[next_weight] = 1 THEN UNCHANGED weightVars
      ELSE /\ weights' = weights
           /\ next_weight' = n /\ weight' = w
           /\ final_weight' = (final_weight \/ w = 1 \/ n = Len(weights))

\* Faulty: the master does not wait for the blocks in use.
NoBarrier(t) ==
  /\ pc[t] = "master" /\ Lock(t)
  /\ n_to_sort' = 0 /\ MoveToNextWeight /\ resort_q' = created
  /\ Goto(t, "queued")
  /\ UNCHANGED <<countVars, free_list, done, waiting, bound, cur, localVars,
                 resort_flag, resort_start, nodeVars>>

\* No block is in use: the master takes the mutex and queues all blocks.
QueueBlocks(t) ==
  /\ pc[t] = "master" /\ AllSigmaZero /\ Lock(t)
  /\ n_to_sort' = 0 /\ MoveToNextWeight /\ resort_q' = created
  /\ Goto(t, "queued")
  /\ UNCHANGED <<countVars, free_list, done, waiting, bound, cur, localVars,
                 resort_flag, resort_start, nodeVars>>

StartSort(t) ==
  /\ pc[t] = "queued"
  /\ n_to_sort' = Cardinality(created) /\ resort_start' = TRUE
  /\ ret' = [ret EXCEPT ![t] = "await"]
  /\ Goto(t, "sort")
  /\ UNCHANGED <<countVars, free_list, done, mutex, waiting, cur, want, set_hot,
                 final_wt, job, resort_flag, resort_q>>
  /\ UNCHANGED <<bound, kids, sol, weightVars, nodeVars>>

\* resort(): wait for the start, or for the end of the resort.
Spin(t) ==
  /\ pc[t] = "spin" /\ (resort_start \/ ~resort_flag)
  /\ Goto(t, IF resort_flag THEN "sort" ELSE ret[t])
  /\ UNCHANGED <<countVars, free_list, done, mutex, waiting, cur, localVars,
                 resortVars>> /\ SameData

Dequeue(t) ==
  /\ pc[t] = "sort" /\ job[t] = NoBlock
  /\ \E b \in resort_q :
       resort_q' = resort_q \ {b} /\ job' = [job EXCEPT ![t] = b]
  /\ UNCHANGED <<countVars, free_list, done, mutex, waiting, pc, cur, want, set_hot,
                 final_wt, ret, resort_flag, resort_start, n_to_sort>> /\ SameData

InBlock(b) == {s \in States : Project[s] = b}

\* NBlock::resort: the heap is built again, the inconsistent nodes are
\* opened, and the other nodes that have been expanded leave the closed list.
ResortBlock(b) ==
  /\ open' = open \cup (incons \cap InBlock(b))
  /\ incons' = incons \ InBlock(b)
  /\ g' = [s \in States |->
             IF s \in InBlock(b) \ (open \cup incons) THEN Infinity ELSE g[s]]
  /\ heap_weight' = [heap_weight EXCEPT ![b] = weight]

SortBlock(t) ==
  /\ pc[t] = "sort" /\ job[t] # NoBlock
  /\ ResortBlock(job[t])
  /\ n_to_sort' = n_to_sort - 1
  /\ job' = [job EXCEPT ![t] = NoBlock]
  /\ UNCHANGED <<countVars, free_list, done, mutex, waiting, pc, cur, want, set_hot,
                 final_wt, ret, resort_flag, resort_start, resort_q, bound, kids,
                 sol, weightVars>>

\* The queue is empty: the thread returns from resort().
LeaveSort(t) ==
  /\ pc[t] = "sort" /\ job[t] = NoBlock /\ resort_q = {}
  /\ Goto(t, ret[t])
  /\ UNCHANGED <<countVars, free_list, done, mutex, waiting, cur, localVars,
                 resortVars>> /\ SameData

\* Faulty: the master forgets to clear the flags.
KeepFlag(t) ==
  /\ pc[t] = "await" /\ n_to_sort = 0
  /\ free_list' = FreeBlocks
  /\ done' = (done \/ open = {})
  /\ Broadcast
  /\ Unlock /\ Goto(t, "next")
  /\ UNCHANGED <<countVars, cur, localVars, resortVars>>
  /\ SameData

\* All blocks are sorted: the master rebuilds the heap of free blocks.
EndResort(t) ==
  /\ pc[t] = "await" /\ n_to_sort = 0
  /\ free_list' = FreeBlocks
  /\ done' = (done \/ open = {})
  /\ IF done' # done \/ free_list' # {} THEN Broadcast ELSE UNCHANGED waiting
  /\ resort_flag' = FALSE /\ resort_start' = FALSE
  /\ Unlock /\ Goto(t, "next")
  /\ UNCHANGED <<countVars, cur, localVars, resort_q, n_to_sort>> /\ SameData

ResortStep(t) ==
  \/ CallForResort(t) \/ ClaimResort(t) \/ JoinMaster(t) \/ QueueBlocks(t)
  \/ StartSort(t) \/ Spin(t) \/ Dequeue(t) \/ SortBlock(t) \/ LeaveSort(t)
  \/ EndResort(t)

-----------------------------------------------------------------------------
Ended == \A t \in Threads : pc[t] = "ended"

\* A block is in use, and no thread has it: its sigmas never drop again.
Abandoned == \E b \in inuse : \A t \in Threads : cur[t] # b

\* The master waits for blocks that have all been sorted.
Miscounted ==
  /\ \E t \in Threads : pc[t] = "await"
  /\ n_to_sort # 0 /\ resort_q = {} /\ \A t \in Threads : job[t] = NoBlock

Step(t) == NextStep(t) \/ LockNext(t) \/ SearchStep(t) \/ ResortStep(t)

Next ==
  \/ \E t \in Threads : Step(t)
  \/ (Ended \/ Abandoned \/ Miscounted) /\ UNCHANGED vars

Spec == Init /\ [][Next]_vars

\* The steps that need the mutex.
LockStep(t) ==
  \/ LockNext(t) \/ Relock(t) \/ Wake(t) \/ SetHot(t) \/ WontRelease(t)
  \/ ClaimResort(t) \/ JoinMaster(t) \/ QueueBlocks(t)

\* No thread is stopped for ever, and none that keeps asking for the mutex,
\* with trylock or without, is refused for ever.
FairSpec ==
  Spec /\ \A t \in Threads : WF_vars(Step(t)) /\ SF_vars(LockStep(t))

-----------------------------------------------------------------------------
(***************************************************************************)
(* The barrier: while blocks are being sorted no thread has one, and any   *)
(* open list that a thread has, or can get, is in order for the weight the *)
(* search has moved on to, so that the first node of a heap is its best.   *)
(***************************************************************************)
SortedForWeight ==
  /\ resort_q # {} \/ (\E t \in Threads : job[t] # NoBlock) =>
       inuse = {} /\ \E t \in Threads : mutex = t /\ pc[t] \notin {"enter", "body"}
  /\ \A s \in open :
       Project[s] \in inuse \/ (Project[s] \in free_list /\ mutex = NoThread) =>
         heap_weight[Project[s]] = weight

(***************************************************************************)
(* The threads leave with a solution that is worse than an optimal one by  *)
(* the last weight at most, whatever the earlier weights found and pruned; *)
(* it is optimal if the list of weights ends with one.  (The heuristic's   *)
(* weight is no such bound: a thread that asked for a resort before the    *)
(* search was done may still lower it to one afterwards.)                  *)
(***************************************************************************)
SolutionWithinWeight ==
  Ended => bound \in CostToGo[Start]..(weights[Len(weights)] * CostToGo[Start])

(***************************************************************************)
(* The search ends, except for the two ways in which a resort never does   *)
(* (ResortEnds): no other schedule of waiting, resorting and giving back   *)
(* blocks that are out of bound goes on for ever.                          *)
(***************************************************************************)
Termination == <>(Ended \/ Abandoned \/ Miscounted)

\* call_for_resort: the master "clears the flag so everyone can continue".
ResortEnds == resort_flag ~> ~resort_flag
=============================================================================
