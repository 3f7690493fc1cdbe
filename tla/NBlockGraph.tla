----------------------------- MODULE NBlockGraph -----------------------------
(***************************************************************************)
(* The nblock graph of PBNF (src/pbnf/nblock_graph.cc) and the loop of the *)
(* search threads that use it (PBNFThread in src/pbnf_search.cc).          *)
(*                                                                         *)
(* An nblock is an abstract state: the open and the closed list of every   *)
(* state that the projection maps to it.  A thread that owns nblock n      *)
(* reads and writes, without any lock, the lists of n and of n's           *)
(* successors.  The graph hands out only blocks whose scopes are disjoint. *)
(* It counts, in sigma, the owned blocks that interfere with a block; a    *)
(* block is free when that count is zero, and free blocks wait in a heap.  *)
(* One mutex and one condition variable guard the graph.                   *)
(*                                                                         *)
(* Data abstraction: an open list is the best value in it (Infinity when   *)
(* it is empty); what an expansion generates is any set of children.  The  *)
(* concrete client, with nodes, is in PBNFSearch.                          *)
(***************************************************************************)
EXTENDS Integers, FiniteSets

CONSTANTS
  Threads,          \* the search threads
  NBlocks,          \* the abstract states of the projection
  Succs,            \* Projection::get_successors
  InitBlock,        \* the block of the initial state
  InitVal,          \* the value of the initial state
  Infinity,         \* fp_infinity: no solution, empty open list
  Weight,           \* the factor the graph multiplies the bound with
  DetectLivelocks,  \* PBNFSearch::detect_livelocks ("safe" PBNF)
  SpuriousWakeups,  \* may pthread_cond_wait return without a signal?
  MinExpansions,    \* PBNFSearch::min_expansions
  MaxWork,          \* bound: expansions that do not use up an open list
  NoThread, NoBlock

ASSUME ConstantsAssumption ==
  /\ IsFiniteSet(Threads) /\ Threads # {} /\ NoThread \notin Threads
  /\ IsFiniteSet(NBlocks) /\ NoBlock \notin NBlocks
  /\ Succs \in [NBlocks -> SUBSET NBlocks]
  /\ InitBlock \in NBlocks
  /\ Infinity \in Nat /\ InitVal \in 0..(Infinity - 1)
  /\ Weight \in Nat \ {0}
  /\ DetectLivelocks \in BOOLEAN /\ SpuriousWakeups \in BOOLEAN
  /\ MinExpansions \in Nat /\ MaxWork \in Nat

F == 0..Infinity

Preds == [b \in NBlocks |-> {a \in NBlocks : b \in Succs[a]}]

\* Faulty: siblings, which share a successor, do not interfere.
SiblingsIgnored ==
  [b \in NBlocks |-> (Preds[b] \cup Succs[b]) \ {b}]

(***************************************************************************)
(* Predecessors, successors and predecessors of successors: the blocks     *)
(* that cannot be owned while b is.                                        *)
(***************************************************************************)
Interferes ==
  [b \in NBlocks |->
     (Preds[b] \cup Succs[b] \cup UNION {Preds[s] : s \in Succs[b]}) \ {b}]

\* The lists a thread touches, without the mutex, while it owns b.
Scope(b) == {b} \cup Succs[b]

VARIABLES
  \* the NBlockGraph object
  inuse,            \* the blocks that are owned
  sigma,            \* per block, how many owned blocks interfere with it
  hot,              \* the blocks some thread is waiting to see freed
  sigma_hot,        \* per block, how many hot blocks interfere with it
  free_list,        \* the heap of free blocks
  num_sigma_zero,   \* how many blocks have sigma zero
  created,          \* the blocks NBlockMap has allocated
  done,             \* the search is over
  mutex,            \* the thread inside the critical section
  waiting,          \* the threads asleep on the condition variable
  \* the data of the search
  best,             \* per block, the best value in its open list
  bound,            \* the incumbent solution's cost
  work,             \* MaxWork minus the expansions counted so far
  \* the search threads
  pc,               \* where each thread is
  cur,              \* the block it owns (n in run)
  want              \* the arguments of its set_hot: the block, its value

graphVars == <<inuse, sigma, hot, sigma_hot, free_list, num_sigma_zero, created>>
vars == <<graphVars, done, mutex, waiting, best, bound, work, pc, cur, want>>

Blocks == NBlocks \cup {NoBlock}
NoWant == [block |-> NoBlock, val |-> Infinity]

Locked == {"release", "retry", "test", "hot_locked", "wont_locked"}
Owning == {"body", "expand", "loop", "set_hot", "hot_locked", "wont_release",
           "wont_locked", "release",
           "see", "get", "cas"}   \* in set_path: FoundGoal, PBNFSearch
PCs == Owning \cup {"next", "retry", "test", "wait", "null", "ended"}

TypeOK ==
  /\ inuse \subseteq NBlocks
  /\ sigma \in [NBlocks -> Nat]
  /\ hot \subseteq NBlocks
  /\ sigma_hot \in [NBlocks -> Nat]
  /\ free_list \subseteq NBlocks
  /\ num_sigma_zero \in Nat
  /\ created \subseteq NBlocks
  /\ done \in BOOLEAN
  /\ mutex \in Threads \cup {NoThread}
  /\ waiting \subseteq Threads
  /\ best \in [NBlocks -> F]
  /\ bound \in F
  /\ work \in 0..MaxWork
  /\ pc \in [Threads -> PCs]
  /\ cur \in [Threads -> Blocks]
  /\ want \in [Threads -> [block : Blocks, val : F]]

Init ==
  /\ inuse = {}
  /\ sigma = [b \in NBlocks |-> 0]
  /\ hot = {}
  /\ sigma_hot = [b \in NBlocks |-> 0]
  /\ free_list = {InitBlock}
  /\ num_sigma_zero = Cardinality(NBlocks)
  /\ created = {InitBlock}
  /\ done = FALSE
  /\ mutex = NoThread
  /\ waiting = {}
  /\ best = [b \in NBlocks |-> IF b = InitBlock THEN InitVal ELSE Infinity]
  /\ bound = Infinity
  /\ work = MaxWork
  /\ pc = [t \in Threads |-> "next"]
  /\ cur = [t \in Threads |-> NoBlock]
  /\ want = [t \in Threads |-> NoWant]

Empty(b) == best[b] = Infinity

IsFree(b) ==
  /\ b \notin inuse
  /\ sigma[b] = 0
  /\ sigma_hot[b] = 0
  /\ ~Empty(b)

Goto(t, l) == pc' = [pc EXCEPT ![t] = l]

\* Entering search_nblock, and how soon it may ask whether to switch.
EnterSearch == IF MinExpansions = 0 THEN "loop" ELSE "body"

Lock(t) == mutex = NoThread /\ mutex' = t
Unlock == mutex' = NoThread

-----------------------------------------------------------------------------
(***************************************************************************)
(* Operations on the counters.  The code loops over interferes arrays; the *)
(* definitions below are what those loops compute (NBlockLoops checks it).  *)
(***************************************************************************)

\* sigma after block n is acquired (d = 1) or released (d = -1).
ScopeSigmas(n, d) ==
  [m \in NBlocks |-> IF m \in Interferes[n] THEN sigma[m] + d ELSE sigma[m]]

\* Faulty: set_cold puts nothing back on the heap.
NoInterferers(C) == {}

\* The blocks whose open lists may have become free because the blocks of
\* C are set cold.
AllInterferers(C) == UNION {Interferes[c] : c \in C}

\* sigma_hot after the hot blocks of C are set cold.
CooledSigmaHot(C) ==
  [m \in NBlocks |-> sigma_hot[m] - Cardinality(Interferes[m] \cap C)]

\* The blocks of S that are set cold.
HotAmong(S) == S \cap hot

\* The heap entries that acquiring n removes: n itself and, with them no
\* longer free, the blocks that interfere with n.
Unavailable(n) == {n} \cup {m \in Interferes[n] : IsFree(m)}

\* NBlockMap::get allocates the blocks it is asked for.
Get(S) == created' = created \cup S

\* The test at retry: no block is in use and none is worth searching.
NothingToDo == num_sigma_zero = Cardinality(NBlocks) /\ free_list = {}

\* Faulty: nobody is woken.
NoBroadcast == UNCHANGED waiting

Broadcast == waiting' = {}
Signal ==
  IF waiting = {} THEN UNCHANGED waiting
                  ELSE \E w \in waiting : waiting' = waiting \ {w}

\* set_hot goes ahead: b is not hot, some block in use interferes with it,
\* and no better block that it interferes with is hot.
MayHeat(b, val) ==
  /\ b \notin hot /\ sigma[b] > 0
  /\ \A m \in Interferes[b] \cap hot : best[m] >= val

\* Of the blocks of S, those that are free once the operation is over.
Freed(S) == {m \in S : IsFree(m)'}

\* The front of the heap: a free block with the best value.
Front(n) ==
  /\ n \in free_list
  /\ \A m \in free_list : best[n] <= best[m]

\* free_list.front()->best_value() >= bound->read() * weight
Hopeless(n) == best[n] >= bound * Weight

-----------------------------------------------------------------------------
(* next_nblock: take the lock.                                             *)

\* Nothing to go on with: block until the mutex is ours.
LockNext(t) ==
  /\ pc[t] = "next"
  /\ cur[t] # NoBlock => Empty(cur[t])
  /\ Lock(t)
  /\ Goto(t, IF cur[t] = NoBlock THEN "retry" ELSE "release")
  /\ UNCHANGED <<graphVars, done, waiting, best, bound, work, cur, want>>

\* The finished block still has nodes: if the mutex is taken, keep it.
TryLockNext(t) ==
  /\ pc[t] = "next"
  /\ cur[t] # NoBlock /\ ~Empty(cur[t])
  /\ \/ Lock(t) /\ Goto(t, "release")
     \/ mutex # NoThread /\ UNCHANGED mutex /\ Goto(t, EnterSearch)
  /\ UNCHANGED <<graphVars, done, waiting, best, bound, work, cur, want>>

(***************************************************************************)
(* Release the finished block, then update_scope_sigmas(finished, -1):     *)
(* blocks whose sigma drops to zero become cold if they were hot, and      *)
(* every block this frees goes back on the heap.  Only the finished block  *)
(* is announced with a signal, all others with a broadcast.                *)
(***************************************************************************)
Release(t) ==
  LET n    == cur[t]
      zero == {m \in Interferes[n] : sigma[m] = 1}
      cool == HotAmong(zero)
  IN
  /\ pc[t] = "release"
  /\ inuse' = inuse \ {n}
  /\ sigma' = ScopeSigmas(n, -1)
  /\ num_sigma_zero' = num_sigma_zero + Cardinality(zero)
  /\ hot' = hot \ cool
  /\ sigma_hot' = CooledSigmaHot(cool)
  /\ Get(Interferes[n] \cup AllInterferers(cool))
  /\ UNCHANGED best
  /\ free_list' = free_list \cup Freed({n} \cup zero \cup AllInterferers(cool))
  /\ IF Freed(zero \cup AllInterferers(cool)) # {} THEN Broadcast
     ELSE IF Freed({n}) # {} THEN Signal
     ELSE UNCHANGED waiting
  /\ cur' = [cur EXCEPT ![t] = NoBlock]
  /\ Goto(t, "retry")
  /\ UNCHANGED <<done, mutex, bound, work, want>>

\* retry: every block's scope is unused and none is free, the search is over.
Finish(t) ==
  /\ pc[t] = "retry"
  /\ NothingToDo
  /\ done' = TRUE
  /\ Broadcast
  /\ Unlock
  /\ Goto(t, "null")
  /\ UNCHANGED <<graphVars, best, bound, work, cur, want>>

\* At the loop around cond_wait: from retry, or after a wake-up.
AtWait(t) ==
  \/ pc[t] = "test"
  \/ pc[t] = "retry" /\ ~NothingToDo

\* Faulty: the thread polls, and may keep the others from the mutex for ever.
Poll(t) ==
  /\ AtWait(t)
  /\ ~done /\ free_list = {}
  /\ Unlock
  /\ Goto(t, "wait")
  /\ UNCHANGED <<graphVars, done, waiting, best, bound, work, cur, want>>

Wait(t) ==
  /\ AtWait(t)
  /\ ~done /\ free_list = {}
  /\ waiting' = waiting \cup {t}
  /\ Unlock
  /\ Goto(t, "wait")
  /\ UNCHANGED <<graphVars, done, best, bound, work, cur, want>>

\* cond_wait returns: the thread was signalled, and the mutex is free again.
Wake(t) ==
  /\ pc[t] = "wait"
  /\ t \notin waiting
  /\ Lock(t)
  /\ Goto(t, "test")
  /\ UNCHANGED <<graphVars, done, waiting, best, bound, work, cur, want>>

SpuriousWakeup(t) ==
  /\ SpuriousWakeups
  /\ t \in waiting
  /\ waiting' = waiting \ {t}
  /\ UNCHANGED <<graphVars, done, mutex, best, bound, work, pc, cur, want>>

\* Another thread found the search over.
SeeDone(t) ==
  /\ AtWait(t)
  /\ done
  /\ Unlock
  /\ Goto(t, "null")
  /\ UNCHANGED <<graphVars, done, waiting, best, bound, work, cur, want>>

\* The best free block cannot improve on the incumbent: nor can the others.
Prune(t) ==
  /\ AtWait(t)
  /\ ~done
  /\ \E n \in NBlocks : Front(n) /\ Hopeless(n)
  /\ free_list' = {}
  /\ Goto(t, "retry")
  /\ UNCHANGED <<inuse, sigma, hot, sigma_hot, num_sigma_zero, created,
                 done, mutex, waiting, best, bound, work, cur, want>>

\* Take the front of the heap, then update_scope_sigmas(n, 1).
Take(t) ==
  /\ AtWait(t)
  /\ ~done
  /\ \E n \in NBlocks :
       /\ Front(n) /\ ~Hopeless(n)
       /\ inuse' = inuse \cup {n}
       /\ sigma' = ScopeSigmas(n, 1)
       /\ num_sigma_zero' =
            num_sigma_zero - Cardinality({m \in Interferes[n] : sigma[m] = 0})
       /\ free_list' = free_list \ Unavailable(n)
       /\ Get(Interferes[n])
       /\ cur' = [cur EXCEPT ![t] = n]
  /\ Unlock
  /\ Goto(t, EnterSearch)
  /\ UNCHANGED <<hot, sigma_hot, done, waiting, best, bound, work, want>>

-----------------------------------------------------------------------------
(* search_nblock: the thread owns cur[t] and holds no lock.                *)

(***************************************************************************)
(* Take the best node out of the open list.  The list's best value rises,  *)
(* or stays when there is another node as good, which uses up some work.   *)
(* A node as bad as the incumbent is dropped.                              *)
(***************************************************************************)
TakeNode(t) ==
  LET n == cur[t] IN
  /\ pc[t] = "body"
  /\ ~Empty(n)
  /\ \E v \in F :
       /\ v >= best[n]
       /\ IF v = best[n] THEN work > 0 /\ work' = work - 1 ELSE UNCHANGED work
       /\ best' = [best EXCEPT ![n] = v]
  /\ Goto(t, IF best[n] >= bound THEN "loop" ELSE "expand")
  /\ UNCHANGED <<graphVars, done, mutex, waiting, bound, cur, want>>

(***************************************************************************)
(* A child goes into the open list of its block, or a cheaper path to it   *)
(* updates the node that is there.  The bound its value was compared with  *)
(* may be out of date by now, so any value is possible.                    *)
(***************************************************************************)
AddChild(t) ==
  /\ pc[t] = "expand"
  /\ work > 0 /\ work' = work - 1
  /\ \E m \in Scope(cur[t]) : \E v \in 0..(Infinity - 1) :
       best' = [best EXCEPT ![m] = IF v < best[m] THEN v ELSE best[m]]
  /\ UNCHANGED <<graphVars, done, mutex, waiting, bound, pc, cur, want>>

EndExpand(t) ==
  /\ pc[t] = "expand"
  /\ Goto(t, "loop")
  /\ UNCHANGED <<graphVars, done, mutex, waiting, best, bound, work, cur, want>>

\* The node, or a child, is a goal: set_path, and back to next_nblock.
FoundGoal(t) ==
  /\ pc[t] = "expand"
  /\ \E c \in 0..(Infinity - 1) : bound' = IF c < bound THEN c ELSE bound
  /\ Goto(t, "next")
  /\ UNCHANGED <<graphVars, done, mutex, waiting, best, work, cur, want>>

(***************************************************************************)
(* The loop test of search_nblock and should_switch.  should_switch reads  *)
(* the heap's front and the open lists of other blocks without the mutex,  *)
(* while other threads change them; any outcome is possible, except that   *)
(* the thread's own open list and its sigma_hot are what they are.         *)
(***************************************************************************)
LeaveEmpty(t) ==
  /\ pc[t] = "loop"
  /\ Empty(cur[t])
  /\ Goto(t, "next")
  /\ UNCHANGED <<graphVars, done, mutex, waiting, best, bound, work, cur, want>>

ShouldSwitch(t) ==
  /\ pc[t] = "loop"
  /\ ~Empty(cur[t])
  /\ \/ Goto(t, "body") \/ Goto(t, "next")
     \/ DetectLivelocks /\ sigma_hot[cur[t]] # 0 /\ Goto(t, "wont_release")
  /\ UNCHANGED <<graphVars, done, mutex, waiting, best, bound, work, cur, want>>

\* A better block in the scope is not free: ask for it.  It had nodes when
\* best_in_scope looked at it; its owner may have emptied it since.
WantHot(t) ==
  /\ DetectLivelocks
  /\ pc[t] = "loop"
  /\ ~Empty(cur[t])
  /\ \E b \in Interferes[cur[t]] \cap created :
       want' = [want EXCEPT ![t] = [block |-> b, val |-> best[b]]]
  /\ Goto(t, "set_hot")
  /\ UNCHANGED <<graphVars, done, mutex, waiting, best, bound, work, cur>>

-----------------------------------------------------------------------------
(* set_hot and wont_release: only with the mutex, only if it is free.      *)

TrySetHot(t) ==
  /\ pc[t] = "set_hot"
  /\ \/ Lock(t) /\ Goto(t, "hot_locked")
     \/ mutex # NoThread /\ UNCHANGED mutex /\ Goto(t, "body")
  /\ UNCHANGED <<graphVars, done, waiting, best, bound, work, cur, want>>

(***************************************************************************)
(* Make want[t] hot, unless it is hot, or free by now, or a better block   *)
(* that it interferes with is hot.  Hot blocks in its scope become cold.   *)
(* set_cold reports a block as freed even when the rest of the loop takes  *)
(* it off the heap again, so the broadcast may happen without a need.  The *)
(* search for a better hot block allocates the blocks it looks at.         *)
(***************************************************************************)
SetHot(t) ==
  LET b    == want[t].block
      cool == HotAmong(Interferes[b])
  IN
  /\ pc[t] = "hot_locked"
  /\ IF MayHeat(b, want[t].val)
     THEN /\ hot' = (hot \ cool) \cup {b}
          /\ sigma_hot' = [m \in NBlocks |-> IF m \in Interferes[b]
                                             THEN CooledSigmaHot(cool)[m] + 1
                                             ELSE CooledSigmaHot(cool)[m]]
          /\ Get(Interferes[b] \cup AllInterferers(cool))
          /\ UNCHANGED <<inuse, sigma, best>>
          /\ free_list' = (free_list \ {m \in Interferes[b] : IsFree(m)})
                            \cup Freed(AllInterferers(cool))
          /\ \/ cool # {} /\ Broadcast
             \/ Freed(AllInterferers(cool)) = {} /\ UNCHANGED waiting
     ELSE /\ \E S \in SUBSET Interferes[b] : Get(S)
          /\ UNCHANGED <<hot, sigma_hot, inuse, sigma, best, free_list, waiting>>
  /\ Unlock
  /\ want' = [want EXCEPT ![t] = NoWant]
  /\ Goto(t, "next")
  /\ UNCHANGED <<num_sigma_zero, done, bound, work, cur>>

TryWontRelease(t) ==
  /\ pc[t] = "wont_release"
  /\ \/ Lock(t) /\ Goto(t, "wont_locked")
     \/ mutex # NoThread /\ UNCHANGED mutex /\ Goto(t, "body")
  /\ UNCHANGED <<graphVars, done, waiting, best, bound, work, cur, want>>

\* This thread keeps its block: the hot blocks in its scope become cold.
WontRelease(t) ==
  LET cool == HotAmong(Interferes[cur[t]] \cap created) IN
  /\ pc[t] = "wont_locked"
  /\ hot' = hot \ cool
  /\ sigma_hot' = CooledSigmaHot(cool)
  /\ Get(AllInterferers(cool))
  /\ UNCHANGED <<inuse, sigma, best>>
  /\ free_list' = free_list \cup Freed(AllInterferers(cool))
  /\ IF Freed(AllInterferers(cool)) # {} THEN Broadcast ELSE UNCHANGED waiting
  /\ Unlock
  /\ Goto(t, "body")
  /\ UNCHANGED <<num_sigma_zero, done, bound, work, cur, want>>

\* next_nblock returned NULL: the thread calls set_done, without the mutex.
Exit(t) ==
  /\ pc[t] = "null"
  /\ done' = TRUE
  /\ Broadcast
  /\ Goto(t, "ended")
  /\ UNCHANGED <<graphVars, mutex, best, bound, work, cur, want>>

-----------------------------------------------------------------------------
GraphStep(t) ==
  \/ LockNext(t) \/ TryLockNext(t) \/ Release(t) \/ Finish(t) \/ Wait(t)
  \/ Wake(t) \/ SeeDone(t) \/ Prune(t) \/ Take(t) \/ TrySetHot(t) \/ SetHot(t)
  \/ TryWontRelease(t) \/ WontRelease(t) \/ Exit(t)

SearchStep(t) ==
  \/ TakeNode(t) \/ AddChild(t) \/ EndExpand(t) \/ FoundGoal(t)
  \/ LeaveEmpty(t) \/ ShouldSwitch(t) \/ WantHot(t)

Terminated == (\A t \in Threads : pc[t] = "ended") /\ UNCHANGED vars

Next ==
  \/ \E t \in Threads : GraphStep(t) \/ SearchStep(t) \/ SpuriousWakeup(t)
  \/ Terminated

Spec == Init /\ [][Next]_vars

-----------------------------------------------------------------------------
(***************************************************************************)
(* Properties                                                              *)
(***************************************************************************)

(***************************************************************************)
(* Two threads never work on a common list: the scope in which a thread    *)
(* expands nodes and detects duplicates without a lock is its own.  This   *)
(* is what sigma, the heap and the interference sets are for.              *)
(***************************************************************************)
ScopesDisjoint ==
  \A t, u \in Threads :
    t # u /\ cur[t] # NoBlock /\ cur[u] # NoBlock
      => Scope(cur[t]) \cap Scope(cur[u]) = {}

(***************************************************************************)
(* The counters that acquire, release, set_hot and set_cold update one by  *)
(* one are, after each of them, the cardinalities they stand for.          *)
(***************************************************************************)
CountersExact ==
  /\ \A b \in NBlocks : sigma[b] = Cardinality(Interferes[b] \cap inuse)
  /\ \A b \in NBlocks : sigma_hot[b] = Cardinality(Interferes[b] \cap hot)
  /\ num_sigma_zero = Cardinality({b \in NBlocks : sigma[b] = 0})

(***************************************************************************)
(* The heap holds only free blocks (next_nblock takes its front without a  *)
(* further test), and a free block is missing from it only when it cannot  *)
(* improve on the incumbent (it was pruned, and nothing better came since).*)
(***************************************************************************)
FreeListExact ==
  \A b \in NBlocks :
    /\ b \in free_list => IsFree(b)
    /\ IsFree(b) /\ b \notin free_list => Hopeless(b)

(***************************************************************************)
(* Hot blocks do not block each other, and each of them interferes with a  *)
(* block in use: some release is still to come that sets it cold again,    *)
(* so that the blocks its heat keeps off the heap are not lost.            *)
(***************************************************************************)
HotIsTemporary ==
  \A b \in hot : sigma[b] > 0 /\ Interferes[b] \cap hot = {}

(***************************************************************************)
(* When the search is declared over, no block is in use and no open list   *)
(* holds a node better than the incumbent: nothing worth expanding is left *)
(* behind by pruning the heap, by hot blocks or by blocks still in use.    *)
(***************************************************************************)
NothingLeft ==
  done => inuse = {} /\ \A b \in NBlocks : Empty(b) \/ Hopeless(b)

\* Every block can be blocked by another one (see the finding on what
\* happens otherwise).
NoIsolatedBlock == \A b \in NBlocks : Interferes[b] # {}

(***************************************************************************)
(* No thread sleeps while a block is on the heap, unless the lock holder   *)
(* is about to take it, and none sleeps when the search is over: the one   *)
(* signal and the broadcasts of release, set_cold and set_done suffice.    *)
(***************************************************************************)
NoLostWakeup ==
  /\ mutex = NoThread /\ free_list # {} => waiting = {}
  /\ done => waiting = {}

(***************************************************************************)
(* A thread that searches outside the lock meets only blocks that exist:   *)
(* get_nblock never allocates there, so that num_created, which is not     *)
(* atomic, is updated under the mutex only.                                *)
(***************************************************************************)
NoUnlockedAllocation ==
  \A t \in Threads : cur[t] # NoBlock => Scope(cur[t]) \subseteq created

(***************************************************************************)
(* The value a block is ordered by does not change while it is on the      *)
(* heap: nobody calls see_update on it, so its front would be wrong.       *)
(***************************************************************************)
HeapKeysStable ==
  [][\A b \in free_list \cap free_list' : best'[b] = best[b]]_vars

-----------------------------------------------------------------------------
(***************************************************************************)
(* The inductive invariant behind these properties.                        *)
(***************************************************************************)

\* Threads and blocks in use correspond, at each point of a thread's loop.
Ownership ==
  /\ \A t \in Threads : cur[t] # NoBlock => cur[t] \in inuse
  /\ \A b \in inuse : \E t \in Threads : cur[t] = b
  /\ \A t, u \in Threads : t # u /\ cur[t] # NoBlock => cur[t] # cur[u]
  /\ \A t \in Threads : pc[t] \in Owning => cur[t] # NoBlock
  /\ \A t \in Threads : pc[t] \notin Owning \cup {"next"} => cur[t] = NoBlock
  /\ \A t \in Threads : pc[t] \in {"set_hot", "hot_locked"}
                          => want[t].block \in NBlocks

\* Blocks in use do not interfere: update_scope_sigmas asserts n->sigma == 0.
Exclusion == \A a, b \in inuse : a \notin Interferes[b]

\* Exactly the mutex's holder is inside a critical section.
MutexHeld == \A t \in Threads : pc[t] \in Locked <=> mutex = t

\* Who may sleep, and when.  A block is on the heap with sleepers around
\* only right after its owner released it, announced it with one signal,
\* and is about to look at the heap itself.
Sleepers ==
  /\ \A t \in waiting : pc[t] = "wait"
  /\ \A t \in Threads : pc[t] \in {"null", "ended"} => done
  /\ done => waiting = {}
  /\ waiting # {} /\ free_list # {}
       => \E t \in Threads : pc[t] = "retry" /\ \E n \in NBlocks : free_list = {n}

\* What exists: every block with nodes, and the scope of every used block.
Allocated ==
  /\ \A b \in NBlocks : ~Empty(b) => b \in created
  /\ \A b \in inuse \cup hot : {b} \cup Interferes[b] \subseteq created

IInv ==
  /\ TypeOK
  /\ Ownership
  /\ Exclusion
  /\ MutexHeld
  /\ CountersExact
  /\ FreeListExact
  /\ HotIsTemporary
  /\ Sleepers
  /\ Allocated

(***************************************************************************)
(* The graph implements the reservation of blocks: cur is the reservation, *)
(* and locks, counters, the heap and hot blocks are invisible.             *)
(***************************************************************************)
Reservation == INSTANCE BlockReservation WITH owned <- cur, over <- done

ReservationSpec == Reservation!Spec
=============================================================================
