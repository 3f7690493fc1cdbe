----------------------------- MODULE MCLockFree -----------------------------
(***************************************************************************)
(* What threads share without a lock, one at a time: the cost of the       *)
(* incumbent, the queue of ARPBNF's resort, the ordered list under the     *)
(* closed list of LPA*, and the priority queue that is its open list.      *)
(***************************************************************************)
EXTENDS Incumbent, TLC

CONSTANTS
  t1, t2, t3, p1, p2, n1, n2, n3, n4, n5, n6, front, rear,
  NULL, Procs, Keys, IntRange, Queued, Heights,
  Structures   \* those that are run

VARIABLES
  which,
  \* of the queue and of the list, in turn: they have the memory in common
  refct, link, fl_head, todo, rd, cand, pc, value, kind, reg, left,
  head, tail, elm, served,
  use, arg, ret, seen,
  chain, gone, level, stack, calls, present, through, astray

ThreeNodes == <<n1, n2, n3>>
QueueNodes == {n1, n2, n3}
QueueOps == p1 :> 3 @@ p2 :> 2

Q == INSTANCE LFQueue WITH
       Nodes <- QueueNodes, Order <- ThreeNodes, MaxOps <- QueueOps

\* Additions compete with removals or with updates.
SixNodes == <<n1, n2, n3, n4, n5, n6>>
ListNodes == {n1, n2, n3, n4, n5, n6}
ListOps == p1 :> 1 @@ p2 :> 1
ListUses == {{"add", "find", "remove"}, {"update", "find"}}
ListsEarlier == {{1}, {1, 2}}

L == INSTANCE LFOrdList WITH
       Nodes <- ListNodes, Order <- SixNodes, MaxOps <- ListOps,
       Uses <- ListUses, Earlier <- ListsEarlier

\* Two nodes have the same key.
Ranks == [n \in Queued |-> IF n = 3 THEN 2 ELSE n]
PrioStocks == {1 :> l @@ 2 :> 1 : l \in Heights}
PrioOps == p1 :> 2 @@ p2 :> 1

P == INSTANCE LFPrioQueue WITH
       head <- front, tail <- rear, Items <- Queued, Rank <- Ranks, MAX_LEVEL <- 3,
       Stocks <- PrioStocks, MaxOps <- PrioOps, MayInsert <- Procs

ASSUME Q!MemoryAssumption /\ L!MemoryAssumption
ASSUME Q!QueueAssumption /\ L!ListAssumption /\ P!PrioQueueAssumption

-----------------------------------------------------------------------------
sharedVars == <<refct, link, fl_head, todo, rd, cand, pc, value, kind, reg, left>>
queueVars == <<head, tail, elm, served>>
listVars == <<use, arg, ret, seen>>
prioVars == <<chain, gone, level, stack, calls, present, through, astray>>
lockFreeVars == <<which, publishVars, sharedVars, queueVars, listVars, prioVars>>

NoMemoryUsed ==
  /\ refct = NULL /\ link = NULL /\ fl_head = NULL /\ todo = NULL /\ rd = NULL
  /\ cand = NULL /\ pc = NULL /\ value = NULL /\ kind = NULL /\ reg = NULL /\ left = NULL
NoQueue == head = NULL /\ tail = NULL /\ elm = NULL /\ served = NULL
NoList == use = NULL /\ arg = NULL /\ ret = NULL /\ seen = NULL
NoPrioQueue ==
  /\ chain = NULL /\ gone = NULL /\ level = NULL /\ stack = NULL /\ calls = NULL
  /\ present = NULL /\ through = NULL /\ astray = NULL
NoPublisher == PublishInit /\ locked

LockFreeInit ==
  /\ which \in Structures
  /\ \/ which = "publish" /\ PublishInit /\ NoMemoryUsed /\ NoQueue /\ NoList /\ NoPrioQueue
     \/ which = "queue" /\ NoPublisher /\ Q!Init /\ NoList /\ NoPrioQueue
     \/ which = "list" /\ NoPublisher /\ L!Init /\ NoQueue /\ NoPrioQueue
     \/ which = "prio_queue" /\ NoPublisher /\ NoMemoryUsed /\ NoQueue /\ NoList /\ P!Init

Publish ==
  which = "publish" /\ PublishNext
    /\ UNCHANGED <<which, sharedVars, queueVars, listVars, prioVars>>
QueueStep ==
  which = "queue" /\ Q!Next /\ UNCHANGED <<which, publishVars, listVars, prioVars>>
ListStep ==
  which = "list" /\ L!Next /\ UNCHANGED <<which, publishVars, queueVars, prioVars>>
PrioQueueStep ==
  which = "prio_queue" /\ P!Next
    /\ UNCHANGED <<which, publishVars, sharedVars, queueVars, listVars>>
PrioQueueEnd == which = "prio_queue" /\ P!Exhausted /\ UNCHANGED lockFreeVars

LockFree ==
  /\ LockFreeInit
  /\ [][Publish \/ QueueStep \/ ListStep \/ PrioQueueStep \/ PrioQueueEnd]_lockFreeVars

-----------------------------------------------------------------------------
(* The properties of each structure, of the behaviours that are its own.   *)

\* No node of the queue is given out or reclaimed while the queue or a
\* process can reach it (mem.c, under queue.c).
NoUseAfterFree == which = "queue" => Q!NoUseAfterFree

\* lf_queue_empty never leaves an element out of sight for good.
NoneStranded == which = "queue" => Q!NoneStranded

\* lf_queue_enqueue and lf_queue_dequeue implement FifoQueue.
Linearizable ==
  /\ which = "queue" => Q!LinearizableInit
  /\ [][which = "queue" => Q!LinearizableStep]_lockFreeVars

\* An operation of the ordered list that has no effect returns what the list
\* had for its key at some moment of the call.
AnswersSeen == which = "list" => L!AnswersSeen

\* When nobody is in an operation of the list, its nodes' reference counts
\* are what the list itself holds.
NothingLeaks == which = "list" => L!NothingLeaks

\* Each operation of the list changes its elements at one step, as it says.
OneEffect == [][which = "list" => L!OneEffectStep]_lockFreeVars

\* lf_pq_delete_min returns, as lockfree.h says, the minimum, or nothing when
\* the queue is empty, as far as elements are concerned that were there from
\* its call on; and an empty queue has no element out of sight.
TakesLeast == which = "prio_queue" => P!TakesLeast

\* The same, of all elements that were not inserted behind a taken node of
\* level 0, or behind one of these.
TakesLeastInSight == which = "prio_queue" => P!TakesLeastInSight
=============================================================================
