# PBNF in TLA+

This directory holds TLA+ models of the heuristic searches in this repository
(parallel best-nblock-first search and its relatives), of the lists, tables and
lock-free structures below them and of the domains above them, the TLC
configurations that check them on small instances, and proofs that TLAPS checks
for every instance. `PROJECT.json` lists components, runs, mutants, findings,
hazards and theorems, and maps each definition to the lines it was written from.

## 1. The system

A search is given a domain (`expand`, `is_goal`, a heuristic, a projection to
abstract states) and returns a path. Almost every program here is a set of
threads that expand nodes at the same time and share as little as possible.

| component | state it keeps | operations | how it interacts | what is hard | what makes it correct |
|---|---|---|---|---|---|
| **PBNF** `pbnf/`, `pbnf_search.cc` | per nblock: open and closed list, `sigma`, `sigma_hot`, `hot`, `inuse`; the heap `free_list`, `num_sigma_zero`, `done`; one mutex and condition variable | `next_nblock`, `set_hot`, `set_cold`, `wont_release`, `set_done`, `search_nblock`, `should_switch`, `set_path` | threads call the graph; they use the lists of their block and its successors with no lock | exclusion by counting, stale reads of the heap's front, hot blocks, pruning of the heap, sleeping and waking | disjoint scopes; exact counters; nothing left at the end; no lost wake-up; optimal result |
| **WPBNF** `wpbnf*` | PBNF with weights | as PBNF | as PBNF | pruning of whole lists, duplicate dropping | a result within the weight |
| **OPBNF** `opbnf*` | two open lists per block, `f_min` | as PBNF, `prune`, `set_local_f_min` | as PBNF; `f_min` is read without the mutex | minima that lag behind, threads that leave early with a block | `f_min` is never too high; all threads leave |
| **ARPBNF** `arpbnf*`, `incons_list.cc` | PBNF, a list of weights, inconsistent lists, `resort_flag`, `n_to_sort` | PBNF's, `call_for_resort`, `resort` | all threads meet to sort the open lists anew | a barrier among threads that own, wait for and give back blocks | no block is in use while lists are sorted; no improved node is lost |
| **PSDD, BFPSDD, WBFPSDD** `psdd/`, `bfpsdd/`, `wbfpsdd/`, `idpsdd_search.cc`, `dynamic_bounded_psdd.cc` | per nblock: open lists per layer, `sigma`; two lists of free blocks, the layer | `next_nblock`, `search_nblock`, iterations | as PBNF | blocks move between lists while others are owned; the switch of layer | the lists are exact; no layer is left unfinished |
| **Incumbent** `set_path`, `util/*solution_stream*`, `util/*atomic_int*` | best path (own mutex), `bound` (atomic word) | `see_solution`, `get_best_path`, `read`, `cmp_and_swap` | all threads write and read | compare-and-swap retries against a value read under another lock | the bound is justified, and the best cost reaches it |
| **PRAStar, wPRAStar** `prastar.cc`, `wprastar.cc`, `util/msg_buffer.h`, `util/completion_counter.cc` | per thread: open, closed, queue, send buffers, `completed`; a completion counter | `take`, `flush_sends`, `flush_receives`, `send_state` | nodes are sent to the thread their hash names | end detection while nodes are in buffers and queues | the counter reaches *n* only when no work is left |
| **PAStar, LPAStar, KBFS, SyncWAStar, multi A\*** | shared open and closed lists; counters of threads at work; KBFS: signals | take, add, `complete`, `signal`, `set_done` | locks, lock-free lists, signals | who is last to run out of work; stale children | no early end; bounds kept |
| **Serial searches** `astar.cc` to `cost_bound_dfs.cc` | open, closed, inconsistent lists, weights, incumbent | one loop | they use the lists and a domain | reopening, changing weights, iterating | a result within each search's bound |
| **Data structures** `priority_queue.h`, `hash_table.h`, `pq_open_list.h`, `closed_list.cc` | heap array with back indexes, chains | `add`, `take`, `remove`, `see_update`, `lookup`, growth | used by all searches | index bookkeeping, ordered chains, growth | every element at its index, none forgotten |
| **Lock-free library** `lockfree/` | free list, reference counts, linked nodes | `mem_new`, `mem_release`, queue, ordered list, table, priority queue | used by LPAStar and ARPBNF | reuse of memory beside readers | nothing in use is free; one moment of effect per operation |
| **Domains** `grid/`, `tiles/`, `div_merge_project.cc` | a state's cells, its `g`, `h`, hash | `expand`, heuristics, projections, `hash` | every search relies on what they promise | incremental heuristics, arithmetic of ranks and blocks | consistency, uniqueness, neighbours that cover every move |
| **Threads, timers, statistics, command line, scripts** | none that a search depends on | | | | |

Hazards, each with its line and the properties that watch it, are listed in
`PROJECT.json`.

## 2. Modules

```
 BlockReservation  (abstract: what a block graph promises)
     ^      ^
 NBlockGraph <-- PBNFSearch <-- WPBNFSearch -- MCPBNFSearch, MCWPBNFDrop
   ^    ^                            ^
   |  NBlockLoops                PBNFProofs
 NBlockGraphProofs  <- PBNFProofs, OPBNFProofs, ARPBNFProofs
                          SearchSpace (states, costs, CostToGo)
 Incumbent                  ^ used by every search; SearchSpaceProofs about it
   ^
 PBNFProofs (last part)   ARPBNFSearch -- MCARPBNFSearch;  ARPBNFProofs
                          OPBNFSearch  -- MCOPBNFSearch;  OPBNFProofs
                          PRAStar (and wPRAStar) -- MCPRAStar;  PRAStarProofs

 LFMemory <- LFQueue -> FifoQueue          Layers <- PSDD, BFPSDD
         <- LFOrdList                        <- LayeredSearches -- MCLayeredSearches
 LFPrioQueue                               SharedLists <- PAStar, LPAStar, KBFS, SyncWAStar
 (these and Incumbent: MCLockFree)           <- SharedSearches -- MCSharedSearches
                                          LayeredProofs, SharedSearchesProofs
 NodeLists <- SerialSearch         \
 Domains <- DomainWalk              >- MCSerialSearch
```

**NBlockGraph** is `pbnf/nblock_graph.cc` with the thread loop around it. An
action is a stretch of code between two points where another thread can
interfere. Inside the mutex, `next_nblock` is cut at its own label and loop:
`Release` (lines 129-143), `Finish`, `Wait`, `SeeDone`, `Prune`, `Take`; a
thread holds `mutex` across them. `waiting` is the set of threads asleep on the
condition variable; a woken thread takes the mutex again in `Wake`. The open
list of a block is abstracted to the best value in it, `best`, which is all the
graph looks at; what an expansion puts into an open list is any value. Reads
without the mutex (`best_val` of the heap, open lists of other blocks in
`best_in_scope`) may return anything, so that `ShouldSwitch` and `WantHot` are
choices. `set_hot` keeps the value it read before it had the lock (`want.val`).

**NBlockLoops** has the loops over `interferes` arrays, iteration by iteration,
with a heap that counts entries; `LoopsAgree` says each loop, in every order,
has the effect of the step in NBlockGraph that stands for it.

**PBNFSearch** puts nodes in the place of best values: `open` and `g`
per state, the children a thread has still to look at, the publication of
paths. It instantiates NBlockGraph with `best` computed from the nodes, so its
graph steps are the same definitions. `CostToGo` is the reference result.

**BlockReservation** is the abstract specification: reserve a block whose scope
nobody touches, work on that scope alone, give it back, and declare the end
only when nothing is reserved and nothing worth expanding is left. Both
NBlockGraph (`owned <- cur, over <- done`) and PBNFSearch (`best <- Best`)
implement it.

**Incumbent** is `set_path`, in its five steps: `see_solution` and
`get_best_path` each under the stream's mutex, the read of the bound, and the
compare-and-swap. `locked` is the build: the SPARC build swaps atomically, the
x86_64 build's `cmpxchgq` has no lock prefix and is a compare and a store.

**PRAStar** is `prastar.cc` with its send buffers (`msg_buffer.h`) and the
completion counter. `take` is cut where another thread can come between:
flushing each buffer (`Flush`, `NoFlush`), the unlocked test of `q_empty`
(`CheckQueue`), the loop (`Loop`, `EndLoop`), and in `flush_receives` the test
for having nothing to do (`BecomeComplete`, `StartReceive`), the busy wait, the
second lock, each node received, and the end. A sender holds the receiver's
mutex within one step; only a receiver holds its own across steps. `try_lock`
may fail at any time, since a sender may be inside. `opt` is how the search was
built: with synchronous or buffered sends, with or without waiting receives,
and with a limit of expansions between flushes; one run checks every
combination the command line offers. Queues are sets of nodes received in any
order, which includes the order of the code. The sum `bound + overrun` has the
width of `fp_type`, with `Infinity` its largest value.

wPRAStar is PRAStar with `opt.weighted`: its own loop in `take`, which does not
wait in `flush_receives`, the pruning of the open list, and duplicate dropping
(`CantDrop`).

**WPBNFSearch** is `wpbnf_search.cc` on the same graph; `variant` chooses
between PBNF, WPBNF and WPBNF with duplicate dropping. What differs is the
order (f'), the tests against the bound (f times the weight), pruning of a
whole list at once, and which improved nodes are opened again.

**ARPBNFSearch** has its own `next_nblock` (cut at the lock, the resort test and
the wait), the barrier of `call_for_resort` with the master's spinning, the
queue of blocks that all threads sort, `resort_flag` and `n_to_sort`, the weight
schedule and the incons lists. The weight by which each block's heap is in order
is recorded (`heap_weight`), which is what `SortedForWeight` is about.

**OPBNFSearch** has the two orders of nodes and blocks, `f_min` and the minima
of blocks with the moments at which they are brought up to date, and the two
ways of leaving: at the end, and early with a block, without the mutex.

**Layers** holds what the layered searches share: blocks with `sigma` and two
lists of free blocks. A list is the number of times each block is on it; its
order is left open, so that whichever block stands first is covered, and a block
added twice or removed too seldom is seen. **PSDD** uses them as free lists of two layers and has the
iterations of idpsdd and dynamically bounded PSDD; **BFPSDD** uses them as free
list and queue of blocks and has BFPSDD and WBFPSDD. A call of `next_nblock` up
to its wait is one step: it holds the mutex throughout, and nothing it reads is
written without that mutex.

**SharedLists** holds the shared lists of nodes as sets; **PAStar**, **LPAStar**,
**KBFS** and **SyncWAStar** are one search each, with the steps between their
locks, counters and signals; **SharedSearches** chooses one.

**LFMemory** is `mem.c`: nodes with a reference count whose lowest bit is the
claim, the free list, `mem_safe_read` (read, count, read again), `mem_release`
with its recursion over links. Every shared read, write and compare-and-swap is
a step. **LFQueue** (`queue.c`) and **LFOrdList** (`ordlist_harris.c`, with the
comparison and the use that LPA* and the hash table make of it) are built on
it. **FifoQueue** is the abstract queue that LFQueue is shown to implement:
elements, and the operations that are under way. **LFPrioQueue** (`prio_queue.c`)
is a skip list in which a process helps others to remove their nodes, in calls
within calls: what a process is doing is a stack of frames, one per call, with
the call's local variables. A safe read is one step there (LFMemory has it in
its parts) and nodes are not given out again. Two variables of it are history:
no step reads them. `through` is what was in the queue all through an operation,
`astray` what was inserted behind a taken node of level 0, whose link nobody
marks, or behind such an element. `MCLockFree` has the incumbent, the queue, the
list and the priority queue in one specification: a behaviour is about one of
the four.

**NodeLists** has the binary heap and the hash table, written as functions from
a heap or a table to the next one, with the index each element holds, and open,
closed and inconsistent lists on top; **SerialSearch** has seven searches that
use them. **Domains** is the arithmetic of grids and tiles; **DomainWalk** walks
along every move from every state, with the value that a state carries from its
parent. The loops of `compute_full` and `compute_hash` over the positions are
`SumOf`, the sum of an array. `MCSerialSearch` has searches and domains in one
specification: a behaviour is a search or a walk.

Names are those of the source where possible. A definition marked *Faulty* is
a plausible bug; `PROJECT.json` says which definition it replaces and which
property then fails. No faulty definition is part of a specification.

## 3. Runs

| run | instance | shows |
|---|---|---|
| `graph_safe` | 2 threads, 4 blocks with moves one way, spurious wake-ups; 307 000 states | no two threads share a list; the heap holds exactly the free blocks with work; no thread sleeps beside work; the loops over `interferes` do in every order what the steps do |
| `search` | 3 threads, 9 states in 4 blocks, inconsistent heuristic; PBNF, WPBNF with and without dropping; 272 000 states | without dropping the solution is optimal, or within the weight; every search ends; the search implements BlockReservation |
| `wpbnf_drop` | WPBNF with dropping, 1 thread, 7 states in 3 blocks, no heuristic, weight 2 | a finding of section 5 |
| `prastar` | 2 threads, 6 states, 8 combinations of options; 308 000 states | the end is declared only when nothing is left anywhere; without dropping the solution is optimal, or within the weight; the search ends |
| `arpbnf` | 2 threads, 9 states in 4 blocks, 4 lists of weights; 94 000 states | nobody has a block while lists are sorted and every list is in order for its weight; solution within the last weight; the search ends but for the two ways of the finding |
| `arpbnf_hang` | as `arpbnf` | a finding of section 5 |
| `opbnf` | 3 threads, 10 states in 4 blocks, factors 1 and 2; 66 000 states | `f_min` is never too high; solution within the factor; all threads leave |
| `layered` | 3 threads, 10 states in 4 blocks, 15 combinations of search and options; 323 000 states | lists of free blocks are exact; layers change between layers; bounds kept; every search ends |
| `shared` | 2 threads (and KBFS's main one), 6 states; 362 000 states | the end is declared only when nothing is left; when KBFS's main thread goes to collect, every worker has made all children of its node, at its present cost; bounds kept; every search ends |
| `lock_free` | incumbent: 3 threads, 2 costs, both builds; queue: 2 processes, 3 and 2 operations, memory for 2 elements and the dummy; list: 2 processes, each with any operation, 0, 1 or 2 elements; priority queue: 2 and 1 operations, up to 3 nodes of the levels 0, 1 and 2; 836 000 states | the bound is always some solution's cost, and where the swap is atomic the best one reaches it; the queue implements a FIFO queue, no node in use is free, no element is out of sight; each operation of the list has one effect, answers were true at a moment of the call, memory is not leaked; who takes from the priority queue gets a least element of those there since its call, and none is out of sight, but for elements that are astray |
| `lf_prio` | the priority queue of `lock_free` | a finding of section 5: elements that are astray may be lost |
| `serial` | 7 searches on 9 states; 24 grid worlds and the 3 by 2 puzzle with 3 cost functions; 38 000 states | heap and table keep their promises, closed nodes are found, results within each search's bound, every search ends; heuristics consistent, incremental distances exact, hashes unique, projections cover every move |

Bounds. In `graph_safe` predecessor, successor and sibling are three different
relations, the first and the last block can be owned at once with blocks
between them whose `sigma` reaches two, blocks become hot while another is
owned, and a release can cool a block. Values are 0, 1 and Infinity = 2: better, worse,
none. `MaxWork` bounds the expansions that do not use up an open list, the only
source of endless behaviour in the abstract client. In `search`, `arpbnf`,
`opbnf` and `layered` blocks are in a line of four, so that the outer two can be searched
at once, and the states give an early expensive path and a later cheaper one
that reaches expanded nodes again, with a goal at either end. Three threads and
room for two mean that one always sleeps. ARPBNF's lists of weights need no, one and two
resorts, and one ends above one. Two costs are enough for a compare-and-swap to
fail twice. In `prastar` every cheapest path changes its owner at nearly every
edge, a state is reached first by a dear edge and after its expansion by a
cheaper path from the other thread, and one edge leads back to the start;
limits of zero and one expansion between flushes leave nodes in buffers while
their sender goes on. The queue has one node more than its elements, so that a
node is given out again while another process still holds what it read. In the
list one process searches while the other adds, removes or updates before,
at and after its place; in the priority queue nodes are inserted behind, before
and above a node that is being removed. Its nodes have the levels 0 (half of
what `random_level` returns), 1 and 2. In `serial` children are handled in every order; the tables
start with three slots, so that they grow during a search and chains hold
several nodes; nodes are found again cheaper while open, closed and
inconsistent; weights 4, 2 and 1. Grids are six by four, the smallest
size with arcs that go up, along and down again and coarse blocks of more than
one shape; the puzzle is small enough for all 720 boards (both halves).

Fairness. Weak fairness of each thread as a whole: the operating system runs
every thread that can run. A thread waiting for a mutex is enabled only while
it is free. PBNF and WPBNF need no more; spurious wake-ups are never required,
and the code's `try_lock` may fail every time. ARPBNF and OPBNF need strong
fairness of the steps that take the mutex: their threads come back to it again
and again without sleeping, so that one could be refused for ever by the
others; a mutex of the system that lets every waiter in at some time gives it.
PRAStar's threads with nothing to expand and something in their buffers flush
and receive in turn, and each can try the other's mutex only while the other
holds it. TLC finds that schedule, so `Termination` of PRAStar has the
hypothesis `TriesSucceed`: a buffer flushed again and again is emptied again
and again, and messages are received. It is about the scheduler; nothing in the
code ensures it. In the layered searches also the program that starts the next
iteration is fair; a serial search is one fair thread. `graph_safe`
and the lock-free runs check safety only: a compare-and-swap loop of one
process may be overtaken for ever. Three runs do not check deadlock, because a
search that has ended takes no more steps; their `Termination` says that it
ended.

## 4. Proofs

Each proof module is about one model and holds for every value of its
constants that satisfies the stated assumptions; TLC evaluates the `ASSUME`s of
the models on every run. A hypothesis that is not an `ASSUME` is in the
theorem's own statement.

**The block graph** (`NBlockGraphProofs`: every finite set of threads, every
finite projection, all values). `InvariantHolds` and from it `TypeCorrect`,
`ScopesNeverOverlap`, `CountersAreExact`, `FreeListIsExact`,
`HotBlocksWaitForOwners`, `WakeupsAreNotLost`, `AllocationIsLocked`,
`SearchIsExhaustive`, `HeapOrderIsStable`, and `ImplementsReservation` (safety
of the refinement). Of these `graph_safe` also checks `ScopesDisjoint`,
`FreeListExact` and `NoLostWakeup`; the others (`CountersExact`,
`HotIsTemporary`, `NothingLeft`, `NoUnlockedAllocation`, `HeapKeysStable` and
the invariant itself) follow from the proofs alone.

Scopes are disjoint because blocks in use do not interfere (`Exclusion`), which
next_nblock ensures only through `sigma`: it takes a block off the heap, the
heap holds free blocks only (`FreeListExact`), a free block has `sigma` zero,
and `sigma` counts the owners that interfere (`CountersExact`). None of the
three is inductive alone. Hot blocks matter since a cold or hot block changes
what is free: `HotIsTemporary` is needed to know that when nothing is in use
nothing is hot, so that a block with nodes is on the heap unless it was pruned.
A pruned block is not only gone, it stays `Hopeless`: its best value, even
divided by the weight, is no better than the incumbent, and neither changes for
the better while the block is off the heap. That gives `NothingLeft`. The
wake-up argument needs `Sleepers`: sleepers beside a filled heap exist only
while the thread that released the one block on it is itself about to look at
the heap. `Allocated` (nodes exist only in allocated blocks, owners' scopes are
allocated) gives `AllocationIsLocked`. Each action has one lemma that it
preserves the invariant; counting lemmas (`CountRemove`, `CooledCount`, ...)
are stated once.

Assumptions: `ConstantsAssumption`. `SearchIsExhaustive` and
`ImplementsReservation` assume `NoIsolatedBlock`; what happens without it is
the first item of section 5's second list.

**Costs** (`SearchSpaceProofs`: every finite graph with natural costs).
`CostToGo`, the reference every result is compared with, is a recursive
function over the number of edges. `CostToGoEdge` says that the cost to go from
a state is at most an edge's cost plus the cost to go from its end, which
follows from the definition only if one edge more than there are states never
helps: `ManyAsCheap` counts the states passed by a path that would be cheaper
when longer, all of them different. Induction is by least counterexample
(`LeastNatural`), since the library's induction theorems are out of reach.
`PromisesMore` and `PromiseKept` are the step that all optimality proofs share:
a node on a path that is good enough has a child on it too.

**PBNF and WPBNF with their nodes** (`PBNFProofs`: any number of threads, any
domain and projection). The searches keep nodes where the graph has values
only, so every theorem about the graph has to be carried over: an expansion is
a step of the graph's client (`NodeStepIsClient`), a pop of the graph's own
(`GraphMoveInvariant`), whatever the variant. Above it the invariant has
`KidsExact` (the children still to be handled are those of the node being
expanded and belong to the thread's own scope), `CostsReal` (every `g` is the
cost of a path) and `BoundJustified`. From it:

- `ListsAreNotShared`: two threads never have an open or closed list in common;
- `SolutionsAreReal`: no solution is better than a cheapest path;
- `SearchImplementsReservation`: the refinement that `search` checks;
- `EndsWithinWeight`: PBNF's result is optimal, WPBNF's within the weight.

For the last, `NothingForgotten`: while the incumbent is not good enough, some
node on a path that is good enough is open, or among the children a thread
still has to handle. Every step but the last keeps it, since such a node's value
is below every bound that is not good enough yet (`TooDearFound`); at the end
no such node can be left, because a list that is left is hopeless
(`LeftIsHopeless`).

Assumptions: `SearchAssumption`, of which two conjuncts are worth a word.
`HWeight <= Weight`: the weight used to prune blocks is the fixed-point one
(`pbnf_search.cc:232`), `fp_one` times the other. `HWeight * H[Start] <
Infinity`: the start is not worse than the initial bound. The theorems assume
`NoIsolatedBlock`; `EndsWithinWeight` also an admissible heuristic, goal edges
that are cheapest (item 3 of section 5), and a weighted optimum below
`Infinity`. `WithinWeight` is about PBNF and WPBNF without duplicate dropping,
with which the bound does not hold (section 5).

**PRAStar and wPRAStar** (`PRAStarProofs`: any number of threads, any domain,
any distribution of states, all combinations of options). `TypeCorrect`,
`CompletionIsSound` and `EndsWithinWeight`. The counter is the number of threads
that are complete, a thread that becomes complete has no open node, nothing in
its hands and nothing in its send buffers, and whoever puts a node into the
queue of a complete thread takes it out of the count before anyone can see it
(`CInv`: `Counted`, `IdleIsEmpty`, ... hold together or not at all, because the
owner's flag, the counter and the queue are changed in different steps and under
different locks). If the counter reaches the number of threads, no node is
left anywhere (`CompletionSound`). `EndsWithinWeight` has the same form as
PBNF's, with more places where a node can be: queues, buffers, the hands of the
thread that is emptying one, the children of an expansion (`TransitPlaces`).
Assumed: an admissible heuristic, room for the costs in the type
(`RoomForCost`, see item 5). `WithinWeight` is about searches without duplicate
dropping.

**Optimistic PBNF with its nodes** (`OPBNFProofs`: any number of threads, any
domain and projection, any factors). `ListsAreNotShared`, `FMinIsSound` and
`EndsWithinBound`. The graph's part of the invariant is `Core` of
NBlockGraphProofs (counters, free list, exclusion), with steps of OPBNF's own;
on top are the owners of blocks (a thread that leaves early keeps its block for
ever), the children, and costs as in PBNF. `FMinSound` is about a minimum read
without the mutex. It is not inductive, nor is it true that every block's
minimum is right: `local_f_min` is written for a scope when its block is given
back or gone on with, and is out of date while a thread works there. What holds
(`MinimaLow`) is that every promising node, one that may be on a cheapest path,
is in a block whose minimum is low, or in a reserved scope in which some minimum
still is, and that a thread with a promising child or path in its hands has such
a scope. A minimum is raised only by the owner of its scope, who at that moment
has nothing in its hands, and to the least f that is there. In the beginning no
minimum has been written: then (`Early`) `f_min` is still 0 and all nodes are
around the first block. With `NothingForgotten`, as above, the minimum over all
blocks is at most the least cost (`MinimumBounds`). `EndFound` adds that nobody
leaves before a solution within the factor is known: by `f_min`, because nothing
is in use and nothing free (`IdleFound`), or after another thread. Assumed: an
admissible heuristic and cheapest goal edges, for `EndsWithinBound` also
`NoIsolatedBlock`; `OPBNFAssumption` has factors of at least 1.

**The searches with shared lists** (`SharedSearchesProofs`: any number of
threads, any state space, every schedule of weights). One proof module for the
four of them, since they share their variables; `StepKinds` says which search a
step is of, and each part of the invariant is about one of them.

- `CompletionIsSound`: PAStar and LPAStar declare the end only when nothing is
  left. PAStar's counter is exactly the number of threads that wait (`PAInv`).
  LPAStar's is at least the number that work, not equal to it, because it is
  changed before and after the list is looked at; what helps is that while there
  are nodes some thread works and has not found the list empty (`LPInv`).
- `ChildrenAreFresh`: when KBFS's main thread goes to collect, every worker of
  the batch has made all children of its node, at its present cost. The counter,
  reset before the first worker is signalled, is the number of workers that
  were signalled and are back (`KInv`), and the main thread changes costs only
  while no worker runs. This is about the step: while the children are collected
  one of them may make the node of another worker cheaper.
- `SolutionsAreReal`: no search has a solution cheaper than a cheapest path.
- `EndsWithinBound`: LPAStar's result is within its weight, and the synchronised
  weighted A* ends with an optimal one.

For LPAStar `NothingForgotten` must be said of costs that the program does not
keep: nodes never change, several of one state may be around, and
`LPUpdate` keeps the worse of two, so that the closed list can forget a cheaper
node. The invariant says that there is a table `G`, the least cost with which
each state went through `LPUpdate`, such that a state that promises enough is
either still to be expanded with that cost or has been, its children being known
as cheaply. For the weighted A* only the search with weight one counts; when
it drops duplicates (`dd`), nothing is expanded twice. The nodes it has
expanded come before those that are open (`SOrder`), and with a consistent
heuristic none of the former is ever found again cheaper (`SKept`).

Assumed, for `EndsWithinBound` alone: an admissible heuristic, a consistent one,
which only the weighted A* needs, and `UnitWeight`, that the schedule has the
weight one, without which no optimum is promised. The run's instance satisfies
all three.

**The layered searches** (`LayeredProofs`: any number of threads, any state
space, any projection). One proof module for the five, as they share the graph.

- `ListsAreExact`: a free block with nodes is on the right list, once, and no
  other block is on a list.
- `LayersAreSynchronous`: no step ends a layer while a thread owns a block or a
  free block of the layer waits.
- `EndsWithinBound`: every search ends with a path, IDPSDD with an optimal one,
  DynamicBoundedPSDD within the first search's bound, BFPSDD within its weight.

PSDD keeps a block on the list of the first layer it has nodes of, BFPSDD and
WBFPSDD on the list of the value it had when a neighbour last touched it. Either
way a list says something of nodes that the owner of another block may add to,
and what keeps it true is that it may not: children go to blocks that interfere
with the parent's (`Spots`: who has a child in hand owns a block that the child
is in or that interferes with it), and a block that interferes with one in use is
on no list (`SigmasExact`: `sigma` counts the owners around it). So a list can
be wrong only about blocks that are off it, and the release of the last
neighbour looks at their nodes again (`Good`, kept by each of `Popped`,
`Acquired`, `Released`, `Switched`, `Taken`, `GivenBack` and `Filled`). In
BFPSDD a block on the free list has the least value, which is kept since no value
of a list block changes (`BFPSDDLists`). The switch of layers needs that nothing is in use when
every `sigma` is zero, which is where `NoBlockAlone` comes in.

Assumed: `NoBlockAlone`, that of several blocks none interferes with none
(the case of hazard `pbnf/nblock_graph.cc:146`, which the layered graphs share:
`psdd/nblock_graph.cc:94` takes "all sigmas zero" for "nothing in use"); and
`CostsFit`, that the scaled cost of a path without repetition stays below the
largest of `fp_type`: a node as dear as that would pass for one not made. That
costs stay so low is itself an invariant (`LowCosts`), since a node is made anew
only by a cheaper path. The run's instance satisfies both.

The results (`Sound`) rest on `NothingForgotten` again, with what must not be
forgotten (`Worth`) and what ends the obligation (`Met`) differing by search. In
BFPSDD it is the nodes on cheapest paths, until there is a path within the
weight or a thread is about to store one. A goal child makes the thread drop
the siblings; then no sibling is worth having that the goal is not at least
as good as (`GoalForgets`), which is where goal edges must be cheapest. In WBFPSDD,
with its wrong prune test and duplicates dropped (item 10 of section 5), it is every
node made, until there is any path: nothing is pruned before, since the costs
fit, and what is not opened again was expanded. In PSDD it is the nodes on
cheapest paths, until there is a path or one of them was pruned, and then
`lowest` is at most the least cost. That is why IDPSDD is optimal although the
first path of an iteration ends it: the bound never exceeds the least cost, and
every node made is within the bound (`PSDDBounds`). When the graph says that
the search is over, no thread owns a block and nothing is open, so that `Met` is
all that is left (`SpentMet`). Assumed besides: `Solvable`, that there is a
solution, weighted still below the largest of `fp_type`, that the heuristic is
admissible (not consistent) and that goal edges are cheapest. The run's instance
satisfies it.

**ARPBNF** (`ARPBNFProofs`: any number of threads, any state space, any
projection, any lists of weights).

- `BarrierHolds` (`SortedForWeight`): while the blocks are sorted nobody has
  one, and no heap is used in the order of an earlier weight.
- `EndsWithinWeight` (`SolutionWithinWeight`): what the search ends with is
  within the last weight of its list.

The graph's part of the invariant is that of `NBlockGraphProofs` (`P`), except
for the heap of free blocks, which is not kept up during a resort (`Graph`). The
barrier rests on a count: `Pending`, the blocks in the queue and those that some
thread is sorting, is at most `n_to_sort` once the master has set it. It is not
equal to it: a slave that is late from the resort before may sort a block and
count it before `n_to_sort` is set (`arpbnf/nblock_graph.cc:557`, the second way in
which a resort does not end), and then the counter stays too high, so that the
master waits for ever rather than leaves early. So when the master sees zero,
`Unsorted` is empty and `Sorted` says that every list is in the order of the new
weight. That no block can be acquired meanwhile is the other half: the master
queues the blocks with the mutex and with `num_sigma_zero` at its largest, which
means nothing is in use (`NothingUsed`), and keeps the mutex until all is sorted.

For the result, a resort forgets the costs of the expanded nodes, so that no
statement about `g` says which states were expanded, and at what cost. `Search`
says there is a table `D` of the least costs with which states were ever reached:
a state that promises as much as a cheapest path is in an open or an incons list
at that cost, or it was expanded at it and its promising children are in the
table or in some thread's hands. A node that is improved after its expansion goes
to the incons list, not to the open list, unless the weight is final; `Sorted`
says that then the incons lists are empty again, or still to be sorted. When the
end is declared, no block is in use and no node is worth more than the bound by
the last weight (`DoneMeans`).

Assumed: `NoIsolatedBlock`; for `EndsWithinWeight` also an admissible heuristic
and cheapest goal edges. `ARPBNFAssumption` has the weights positive, the first of
them not taking the start's f' beyond `fp_type`, and finite sets of threads and
blocks. The run's instance satisfies all of it. The property speaks of the last
weight in the list and not of the heuristic's present weight: a thread that asked
for a resort before the search was done may lower that one afterwards. That was
found in the proof; no state of the run's instance shows it.

**The incumbent** (last part of `PBNFProofs`: any number of threads and any
costs). The names in `Incumbent` differ from those of the searches, so that
`PBNFProofs` can extend it beside them; the two share no state.
`PruningIsJustified` on every build, and `NoUpdateIsLost` and
`BoundOnlyImproves` where the swap is atomic. The strengthening is `Carried`
(what a thread is about to write was in the stream, and improves what it read)
and `Covered` (the best cost is in the bound, or some thread is bringing it).

**The domains** (last parts of `SharedSearchesProofs`, which has the room: any
grid worlds, puzzles of any width and height, any goal board, any projections).
They use nothing that is assumed about the shared searches. `WalkAssumption` has
only what an instance file must be: the goal lies in the world, a projection has
at least one block, the square roots are those of the tiles up to 8 and the
inverse of a tile is not 0 in fixed point. Integers are unbounded, so that
a hash wider than 64 bits is outside.

- `HeuristicsAreConsistent`. The invariant is `Carried`: the state is a free cell
  or a board, `h` is the value computed from scratch, and `gp` is the parent's
  blank. For grids with unit costs it is the arithmetic of distances.
  Under the life cost, where a move costs the row it leaves, the halved products
  of `cost_from`, `compute_up_over_down4` and `ArcCost` are triangular numbers
  (`UpTo`, `Before`), `ArcCost` is what straight up to row 0 and down costs less
  what the turn saves (`Turned`), and a step lowers either by no more than the
  row it leaves. For tiles one summand changes, by the cost of the tile that moves.
- `HashesAreUnique`. A cell's hash is a division with remainder. A board's is a
  number in the factorial system: digit i is the tile at i less the smaller tiles
  at later positions, that is, the number of smaller ones before, at most i. Equal
  hashes have equal digits, and from the last position to the first equal digits
  give equal tiles.
- `GridProjectionsAreSound`: a step changes a coordinate by at most one, so its
  quotient by at most one, and a diagonal step, which may change both, is made
  only in worlds whose coarse projection has the diagonal neighbours.

Model-checked only: every `Termination` (liveness), `LoopsAgree` (folds over
data), the serial searches with their heap and table (recursive definitions),
the tiles' projections (they filter an enumeration of sequences with `SelectSeq`,
recursive too), and the lock-free structures.

## 5. Findings

**A resort that never ends** (`arpbnf_hang`). A thread that has found a solution
calls `call_for_resort` while it owns a block. If another resort is under way
(`arpbnf/nblock_graph.cc:508`), it joins in and returns, and its caller forgets
the block (`arpbnf_search.cc:57`), so that the master waits for it for ever. And
a slave that is late from one resort may take a block off the queue of the next
before the master has set their number (line 557). `Termination` says that these
two are the only ways not to end.

**Dropped duplicates** (`wpbnf_drop`). `wpbnf_search.cc:114` does not open an
expanded node again if its old cost is within the weight of the new one:
"Wheeler's duplicate dropping test". But a dropped duplicate has already changed
the node's cost (line 111), while the node's children have the cost of its last
expansion; the next test compares with the changed cost, so that one drop
licenses the next. In the run, node m is expanded at 17 and found again at 9 and
at 6, each time within twice the cost before; the solution, which goes another
way, costs 17 where 8 is least and the weight is 2. `wprastar.cc:137` and 203 have
the same test with the same order of update and comparison. It also works
against pruning by the weighted bound: a child that was pruned when its parent
was expanded at a high cost is not made again when the parent is dropped at a
low one. `WithinWeight`, in the runs and in the theorems, is about searches
without dropping; `Termination` and `ReservationSpec` are about all.

**Elements astray** (`lf_prio`). `lockfree/src/prio_queue.c:333` returns levels
from 0 on, half of the time 0, not from 1 as the comment above it says. A node
of level 0 is linked at the bottom like one of level 1, but `lf_pq_delete_min`
and `help_delete` mark none of its links and `lf_pq_delete_min` does not unlink
it, so that an insertion behind it succeeds while another process unlinks it,
and the element is lost: `lf_pq_delete_min`, which should return the minimum or
NULL if the queue was empty (`lockfree.h:161`), does not find it.
`TakesLeastInSight` says that nothing else can be missed: an element is lost
only if it was inserted behind a taken node of level 0, or behind an element
that was. LPAStar's model has an open list that loses nothing.

The models, or reading the code for them, show these too. They have no run of
their own: the instances avoid the case, or the property checked is the one that
still holds.

1. `pbnf/nblock_graph.cc:146` declares the end while the only block is in use,
   if it interferes with none (a projection to one block).
2. `pbnf/nblock_graph.cc:164` multiplies the bound with a fixed-point weight:
   `fp_one` times too much, so the heap is never pruned. The search is still
   right, only slower; the runs use the weight that is meant.
3. `pbnf_search.cc:136` drops the siblings of a goal child. Harmless when an
   edge into a goal is a cheapest way to it (`GoalEdgesAreShortest`, assumed by
   the parallel searches), which holds on unit-cost grids and tiles.
4. `util/x86_64_atomic_int.cc:80` has no lock prefix: the bound may rise again.
   Solutions stay right (`BoundIsJustified`); pruning is weaker for a while.
5. `prastar.cc:288` adds the overrun to a bound that starts 100 below the
   largest value: a larger overrun wraps, and the search ends with nothing.
6. `grid/grid_world.cc:656` rounds the number of coarse columns up and their
   width down, so that a width that is not a multiple has cells outside every
   block, and the assertion in line 693 fails; `ProjectionSound` is about even
   divisions (`Even`).
7. `pastar.cc:33`: the spinning thread looks at the list without the lock, and
   `prune` empties it without the lock: a thread may take from an empty list
   (`NoCrash` in SharedSearches). PAStar's result need not be optimal
   (`PAStarOptimal`).
8. `kbfs.cc:76` compares the path with itself, so the first path found stays
   (`KBFSOptimal`); `lpastar.cc:134` asserts what need not be so when another
   thread has stored a better path and not yet its bound (`BoundFollowsPath`).
9. `optimistic.cc:43` compares a fixed-point f' with the incumbent's cost as a
   plain number, so that once there is an incumbent only the list in order of f
   is used; `queue_open_list.cc:28` makes a stack of what is called a queue,
   so that "breadth-first" search is depth-first.
10. `wbfpsdd_search.cc:94` multiplies f by the fixed-point weight without
    dividing it again, and line 121 reads the old `g` from the new node: the
    search still ends with a path, but promises nothing about its cost. Its copy of the
    dropping test is watched by no property.
11. `lockfree/src/ordlist_harris.c:268` calls its function as `f(old, new)`, the
    other way round than its description in `lockfree.h`.

## 6. Not modelled, and the plan

Not modelled, since nothing a search decides depends on it: statistics, timers,
signal masks, output, the command line, reading of instances, Zobrist hashes,
experiment scripts, instrumented builds, destructors. Of the lock-free library:
`ordlist_valois.c`, which is not compiled, and the creation of hash buckets. The 32-bit builds of the atomic
integer are left out, as is multi A*, whose threads share nothing. `best_val` of
an empty heap and the undefined reads of a heap being changed are choices of
`ShouldSwitch`. The domains' wide arithmetic is modelled on small numbers: no
width in them is reached.

Left for later: proofs about LFMemory and LFQueue (counts cover references,
nothing in use is free).
