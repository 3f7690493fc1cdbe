---------------------------- MODULE ARPBNFProofs ----------------------------
(***************************************************************************)
(* Proofs about ARPBNF for any number of threads, any finite domain, any   *)
(* projection of it and any weights: while blocks are sorted again nobody  *)
(* searches, no heap is used in the order of an earlier weight, and what   *)
(* the search ends with is within the last weight.                         *)
(*                                                                         *)
(* The graph's invariant is that of NBlockGraphProofs (P below), but for   *)
(* the heap of free blocks during a resort, when it is not kept up.  What  *)
(* is left to sort is counted: the queue and the blocks that threads are   *)
(* sorting are at most n_to_sort.  That the counter n_to_sort and the      *)
(* barrier on num_sigma_zero work needs each other: no block is in use     *)
(* when they are queued, and none can be taken before all are sorted.      *)
(*                                                                         *)
(* A resort forgets the costs of nodes that have been expanded.  The proof *)
(* that no promising node is lost keeps them in a table of its own, which  *)
(* only has to exist (Search below).                                       *)
(***************************************************************************)
EXTENDS ARPBNFSearch, SearchSpaceProofs

P == INSTANCE NBlockGraphProofs WITH
       best <- Best, work <- 0, MaxWork <- 0, SpuriousWakeups <- FALSE,
       DetectLivelocks <- TRUE, MinExpansions <- 1, Weight <- 1,
       InitBlock <- Project[Start], InitVal <- 0, bound <- Infinity

PCs == {"next", "lock", "again", "release", "relock", "resorted", "test", "wait",
        "pause", "null", "enter", "body", "expand", "loop", "set_hot", "wont",
        "path", "call", "claim", "master", "queued", "sort", "await", "spin",
        "ended"}

\* Where a thread has a block.
Owning == {"release", "enter", "body", "expand", "loop", "set_hot", "wont", "path"}

Child == [to : States, g : Nat]

\* The master, when it has queued the blocks; and when they are counted.
Sorting(t) == pc[t] = "await" \/ (pc[t] = "sort" /\ ret[t] = "await")
Mastering(t) == pc[t] = "queued" \/ Sorting(t)
Resorting == \E t \in Threads : Mastering(t)

\* Where a thread is in a critical section.
Locked(t) ==
  pc[t] \in {"again", "release", "resorted", "test"} \/ Mastering(t)

Blocks == NBlocks \cup {NoBlock}
Rets == {"next", "relock", "await"}

LastWeight == weights[Len(weights)]

(***************************************************************************)
(* The invariant                                                           *)
(***************************************************************************)

Types ==
  /\ g \in [States -> Nat] /\ open \subseteq States /\ incons \subseteq States
  /\ heap_weight \in [NBlocks -> Nat]
  /\ kids \in [Threads -> SUBSET Child] /\ sol \in [Threads -> Nat]
  /\ bound \in 0..Infinity
  /\ pc \in [Threads -> PCs] /\ cur \in [Threads -> Blocks]
  /\ want \in [Threads -> [block : Blocks, val : Nat]]
  /\ ret \in [Threads -> Rets] /\ job \in [Threads -> Blocks]
  /\ final_wt \in [Threads -> BOOLEAN]
  /\ created \subseteq NBlocks /\ resort_q \subseteq NBlocks /\ n_to_sort \in Int

\* Once the weight is final it is the last one, or one.
WeightTypes ==
  /\ weights \in Seq(Nat \ {0}) /\ next_weight \in 1..Len(weights)
  /\ weight \in Nat \ {0} /\ final_weight \in BOOLEAN
  /\ final_weight => weight <= LastWeight
  /\ final_weight => next_weight = Len(weights) \/ weights[next_weight] = 1

Owners ==
  /\ \A t \in Threads : cur[t] # NoBlock => cur[t] \in inuse
  /\ \A t, u \in Threads : t # u /\ cur[t] # NoBlock => cur[t] # cur[u]
  /\ \A t \in Threads : pc[t] \in Owning => cur[t] # NoBlock
  /\ \A t \in Threads : pc[t] = "set_hot" => want[t].block \in NBlocks

Control ==
  /\ \A t \in Threads : Locked(t) => mutex = t
  /\ \A t \in Threads : pc[t] = "spin" => ret[t] # "await"
  /\ \A t \in Threads : pc[t] # "expand" => kids[t] = {}
  /\ \A t \in Threads : pc[t] # "path" => sol[t] = Infinity
  /\ \A t \in Threads : final_wt[t] => final_weight
  /\ \A t \in Threads : pc[t] = "ended" => done

Graph ==
  /\ P!CoreTypes /\ P!SigmasExact /\ P!Exclusion /\ P!HotIsTemporary
  /\ P!ZerosExact
  /\ ~Resorting => P!FreeListExact

Allocated ==
  /\ free_list \subseteq created
  /\ \A b \in inuse : {b} \cup Interferes[b] \subseteq created
  /\ \A s \in open \cup incons : Project[s] \in created
  /\ \A t \in Threads : \A k \in kids[t] : Project[k.to] \in P!Scope(cur[t])

\* The threads that sort a block; how many blocks, and which, are to be sorted.
Busybody == {t \in Threads : job[t] # NoBlock}
Pending == Cardinality(resort_q) + Cardinality(Busybody)
Unsorted == resort_q \cup {job[t] : t \in Busybody}

\* While the master has blocks sorted none is in use, and n_to_sort, once it is
\* set, is not zero before all are sorted.
Barrier ==
  /\ Unsorted # {} => Resorting
  /\ Resorting => inuse = {}
  /\ \A t \in Threads : pc[t] = "queued" => Pending <= Cardinality(created)
  /\ \A t \in Threads : Sorting(t) => Pending <= n_to_sort

\* Every list is in order or still to be sorted, and so are the incons lists.
Sorted ==
  /\ \A s \in open : heap_weight[Project[s]] = weight \/ Project[s] \in Unsorted
  /\ \A s \in incons : Project[s] \in Unsorted \/ (~Resorting /\ ~final_weight)

IsChild(k, s, c) == \E e \in Edges[s] : k.to = e.to /\ k.g = c + e.cost

\* The children a thread has to look at are those of one node, at one cost.
KidsExact ==
  \A t \in Threads : kids[t] # {} =>
    \E s \in States : \E c \in Nat : \A k \in kids[t] : IsChild(k, s, c)

\* Costs are those of paths, so none is below the cheapest.
CostsReal ==
  /\ \A s \in States : CostToGo[Start] <= g[s] + CostToGo[s]
  /\ \A t \in Threads : \A k \in kids[t] : CostToGo[Start] <= k.g + CostToGo[k.to]
  /\ \A t \in Threads : CostToGo[Start] <= sol[t]
  /\ CostToGo[Start] <= bound

Known == \A s \in open \cup incons : g[s] < Infinity

\* The end is declared when the bound is within the last weight.
DoneMeans == done => bound <= LastWeight * CostToGo[Start]

-----------------------------------------------------------------------------
(***************************************************************************)
(* The graph under the search                                              *)
(***************************************************************************)

LEMMA FiniteSame ==
  /\ \A S : IsFiniteSet(S) <=> P!IsFiniteSet(S)
  /\ \A S : Cardinality(S) = P!Cardinality(S)
<1>1. \A S : IsFiniteSet(S) <=> P!IsFiniteSet(S)
  BY DEF IsFiniteSet, P!IsFiniteSet
<1>2. \A S : Cardinality(S) = P!Cardinality(S)
  BY DEF Cardinality, P!Cardinality
<1>3. QED
  BY <1>1, <1>2

\* The constants of the search fit the graph: this is the assumption under
\* which the lemmas of NBlockGraphProofs hold.
LEMMA GraphAssumption ==
  /\ P!IsFiniteSet(Threads) /\ Threads # {} /\ NoThread \notin Threads
  /\ P!IsFiniteSet(NBlocks) /\ NoBlock \notin NBlocks
  /\ Succs \in [NBlocks -> SUBSET NBlocks]
  /\ Project[Start] \in NBlocks
  /\ Infinity \in Nat /\ 0 \in 0..(Infinity - 1)
  /\ 1 \in Nat \ {0}
  /\ TRUE \in BOOLEAN /\ FALSE \in BOOLEAN
  /\ 1 \in Nat /\ 0 \in Nat
<1>1. P!IsFiniteSet(Threads) /\ P!IsFiniteSet(NBlocks)
  BY ARPBNFAssumption, FiniteSame
<1>2. QED
  BY <1>1, SpaceAssumption, ARPBNFAssumption

\* The operators of the graph are those the lemmas are about.
LEMMA SameOperators ==
  /\ Interferes = P!Interferes /\ G!Interferes = P!Interferes
  /\ \A n : G!IsFree(n) <=> P!IsFree(n)
  /\ \A S : G!HotAmong(S) = S \cap hot
  /\ \A C : G!CooledSigmaHot(C) = P!CooledSigmaHot(C)
  /\ \A n, d : G!ScopeSigmas(n, d) = P!ScopeSigmas(n, d)
  /\ \A C : G!AllInterferers(C) = P!AllInterferers(C)
<1>1. G!Interferes = P!Interferes
  BY DEF G!Interferes, P!Interferes, G!Preds, P!Preds
<1>2. \A n : G!IsFree(n) <=> P!IsFree(n)
  BY DEF G!IsFree, P!IsFree, G!Empty, P!Empty
<1>3. \A C : G!CooledSigmaHot(C) = P!CooledSigmaHot(C)
  BY <1>1 DEF G!CooledSigmaHot, P!CooledSigmaHot, G!Cardinality, P!Cardinality
<1>4. \A n, d : G!ScopeSigmas(n, d) = P!ScopeSigmas(n, d)
  BY <1>1 DEF G!ScopeSigmas, P!ScopeSigmas
<1>5. \A C : G!AllInterferers(C) = P!AllInterferers(C)
  BY <1>1 DEF G!AllInterferers, P!AllInterferers
<1>6. QED
  BY <1>1, <1>2, <1>3, <1>4, <1>5 DEF Interferes, G!HotAmong

LEMMA SameFreed ==
  ASSUME NEW S
  PROVE  G!Freed(S) = P!Freed(S)
BY DEF G!Freed, P!Freed, G!IsFree, P!IsFree, G!Empty, P!Empty

LEMMA InterferingBlocks ==
  ASSUME NEW n \in NBlocks
  PROVE  Interferes[n] \subseteq NBlocks /\ n \notin Interferes[n]
BY SameOperators, GraphAssumption, P!InterferesType

\* The values in the open list of a block, and what an empty one counts as.
Vals(n) == {Infinity} \cup {HeapKey(s) : s \in {o \in open : Project[o] = n}}

LEMMA KeyType ==
  ASSUME Types, NEW s \in States
  PROVE  /\ HeapKey(s) \in Nat /\ g[s] \in Nat /\ H[s] \in Nat
         /\ Project[s] \in NBlocks /\ heap_weight[Project[s]] \in Nat
<1>1. /\ g[s] \in Nat /\ H[s] \in Nat
      /\ Project[s] \in NBlocks /\ heap_weight[Project[s]] \in Nat
  BY SpaceAssumption, ARPBNFAssumption DEF Types
<1>2. heap_weight[Project[s]] * H[s] \in Nat
  BY <1>1
<1>3. QED
  BY <1>1, <1>2 DEF HeapKey

\* Best is the least value of a node in the block's open list.
LEMMA BestIsLeast ==
  ASSUME Types
  PROVE  /\ Best \in [NBlocks -> 0..Infinity]
         /\ \A n \in NBlocks : Best[n] \in Vals(n)
         /\ \A s \in open : Best[Project[s]] <= HeapKey(s)
<1>1. \A n \in NBlocks : Best[n] = Min(Vals(n))
  BY DEF Best, Vals
<1>2. \A n \in NBlocks : Vals(n) \in SUBSET Nat /\ Infinity \in Vals(n)
  BY KeyType, SpaceAssumption DEF Vals, Types
<1>3. \A n \in NBlocks : Best[n] \in Vals(n) /\ \A x \in Vals(n) : Best[n] <= x
  BY <1>1, <1>2, MinIsLeast
<1>4. \A n \in NBlocks : Best[n] \in 0..Infinity
  BY <1>2, <1>3, SpaceAssumption
<1>5. Best \in [NBlocks -> 0..Infinity]
  BY <1>4 DEF Best
<1>6. ASSUME NEW s \in open PROVE Best[Project[s]] <= HeapKey(s)
  <2>1. s \in States /\ Project[s] \in NBlocks
    BY ARPBNFAssumption DEF Types
  <2>2. HeapKey(s) \in Vals(Project[s])
    BY DEF Vals
  <2>3. QED
    BY <1>3, <2>1, <2>2
<1>7. QED
  BY <1>3, <1>5, <1>6

LEMMA BestType == Types => Best \in [NBlocks -> 0..Infinity]
BY BestIsLeast

LEMMA BestTypeNext == Types' => (Best \in [NBlocks -> 0..Infinity])'
BY BestType, PTL

\* A step changes the best values of those blocks only whose nodes it changes.
LEMMA BestIsLocal ==
  ASSUME Types, Types', NEW n \in NBlocks, heap_weight'[n] = heap_weight[n],
         \A s \in States : Project[s] = n =>
           g'[s] = g[s] /\ (s \in open' <=> s \in open)
  PROVE  Best'[n] = Best[n]
<1>1. Vals(n)' = Vals(n)
  BY DEF Vals, Types, HeapKey
<1>2. Best[n] = Min(Vals(n)) /\ Best'[n] = Min(Vals(n)')
  BY DEF Best, Vals
<1>3. QED
  BY <1>1, <1>2

\* A block whose list is not empty has a node.
LEMMA NotEmpty ==
  ASSUME Types, NEW n \in NBlocks, ~P!Empty(n)
  PROVE  \E s \in open : Project[s] = n
<1>1. Best[n] \in Vals(n) /\ Best[n] # Infinity
  BY BestIsLeast DEF P!Empty
<1>2. QED
  BY <1>1 DEF Vals

-----------------------------------------------------------------------------
(***************************************************************************)
(* The steps, by what they do                                              *)
(***************************************************************************)

\* The steps that change neither the graph nor the nodes, nor the blocks that
\* are to be sorted.
QuietStep(t) ==
  \/ NextBlock(t) \/ LockNext(t) \/ Busy(t) \/ Keep(t) \/ JoinResort(t) \/ Relock(t)
  \/ Finish(t) \/ Wait(t) \/ PutBack(t) \/ Wake(t) \/ SeeDone(t) \/ SeeFlag(t)
  \/ GotNull(t) \/ Enter(t) \/ EndExpand(t) \/ LoopTest(t) \/ WantHot(t)
  \/ CallForResort(t) \/ JoinMaster(t) \/ Spin(t) \/ LeaveSort(t)

\* The steps on the graph.
GraphStep(t) ==
  Release(t) \/ Take(t) \/ SetHot(t) \/ WontRelease(t) \/ ClaimResort(t)

\* The steps on nodes, and the steps of a resort.
NodeStep(t) == TakeNode(t) \/ AddChild(t) \/ SetPath(t)
SortStep(t) ==
  QueueBlocks(t) \/ StartSort(t) \/ Dequeue(t) \/ SortBlock(t) \/ EndResort(t)

LEMMA StepKinds ==
  ASSUME [Next]_vars
  PROVE  \/ \E t \in Threads : \/ QuietStep(t) \/ GraphStep(t)
                               \/ NodeStep(t) \/ SortStep(t)
         \/ UNCHANGED vars
BY DEF Next, Step, NextStep, SearchStep, ResortStep, QuietStep, GraphStep, NodeStep,
       SortStep

\* What the steps of one thread leave to the others.
Others(t) ==
  \A u \in Threads : u # t =>
    /\ pc'[u] = pc[u] /\ cur'[u] = cur[u] /\ want'[u] = want[u] /\ ret'[u] = ret[u]
    /\ job'[u] = job[u] /\ final_wt'[u] = final_wt[u] /\ kids'[u] = kids[u]
    /\ sol'[u] = sol[u]

\* How many and which blocks are to be sorted, and by whom.
sortVars == <<resort_q, n_to_sort, job>>

LEMMA QuietFrame ==
  ASSUME Types, NEW t \in Threads, QuietStep(t)
  PROVE  /\ UNCHANGED <<countVars, free_list, sortVars>> /\ SameData
         /\ pc' \in [Threads -> PCs]
<1> USE DEF Types, Goto, PCs, Rets, sortVars, SameData
<1>1. CASE \/ NextBlock(t) \/ LockNext(t) \/ Busy(t) \/ Keep(t) \/ JoinResort(t)
           \/ Relock(t)
  BY <1>1 DEF NextBlock, LockNext, Busy, Keep, JoinResort, Relock, resortVars,
       localVars
<1>2. CASE \/ Finish(t) \/ Wait(t) \/ PutBack(t) \/ Wake(t) \/ SeeDone(t)
           \/ SeeFlag(t) \/ GotNull(t)
  BY <1>2 DEF Finish, Wait, PutBack, Wake, SeeDone, SeeFlag, GotNull, resortVars,
       localVars
<1>3. CASE Enter(t) \/ EndExpand(t) \/ LoopTest(t) \/ WantHot(t)
  BY <1>3 DEF Enter, EndExpand, LoopTest, WantHot, SearchVars, resortVars
<1>4. CASE CallForResort(t) \/ JoinMaster(t) \/ Spin(t)
  BY <1>4 DEF CallForResort, JoinMaster, Spin, resortVars, localVars
<1>5. CASE LeaveSort(t)
  BY <1>5 DEF LeaveSort, resortVars, localVars
<1>6. QED
  BY <1>1, <1>2, <1>3, <1>4, <1>5 DEF QuietStep

\* The last actions of the steps: what they do to the thread's variables.
LEMMA QuietOthers ==
  ASSUME Types, NEW t \in Threads, QuietStep(t)
  PROVE  Others(t)
<1> USE DEF Types, Others, Goto, Drop, SameData, sortVars, localVars
<1>0. UNCHANGED <<job, kids, sol>>
  BY QuietFrame
<1>1. CASE Busy(t) \/ Keep(t) \/ Relock(t) \/ LockNext(t)
  BY <1>0, <1>1 DEF Busy, Keep, Relock, LockNext
<1>2. CASE NextBlock(t) \/ JoinResort(t)
  BY <1>0, <1>2 DEF NextBlock, JoinResort
<1>3. CASE \/ Finish(t) \/ Wait(t) \/ PutBack(t) \/ Wake(t) \/ SeeDone(t)
           \/ SeeFlag(t) \/ GotNull(t)
  BY <1>0, <1>3 DEF Finish, Wait, PutBack, Wake, SeeDone, SeeFlag, GotNull
<1>4. CASE Enter(t) \/ EndExpand(t) \/ LoopTest(t)
  BY <1>0, <1>4 DEF Enter, EndExpand, LoopTest, SearchVars
<1>5. CASE WantHot(t)
  BY <1>0, <1>5 DEF WantHot, SearchVars
<1>6. CASE CallForResort(t)
  BY <1>0, <1>6 DEF CallForResort
<1>7. CASE JoinMaster(t)
  BY <1>0, <1>7 DEF JoinMaster
<1>8. CASE Spin(t) \/ LeaveSort(t)
  BY <1>0, <1>8 DEF Spin, LeaveSort
<1>9. QED
  BY <1>1, <1>2, <1>3, <1>4, <1>5, <1>6, <1>7, <1>8 DEF QuietStep

LEMMA GraphOthers ==
  ASSUME Types, NEW t \in Threads, GraphStep(t)
  PROVE  Others(t)
<1> USE DEF Types, Others, Goto, Drop, SameData, localVars
<1>1. CASE Release(t)
  BY <1>1 DEF Release
<1>2. CASE Take(t)
  BY <1>2 DEF Take
<1>3. CASE SetHot(t)
  BY <1>3 DEF SetHot
<1>4. CASE WontRelease(t)
  BY <1>4 DEF WontRelease
<1>5. CASE ClaimResort(t)
  BY <1>5 DEF ClaimResort
<1>6. QED
  BY <1>1, <1>2, <1>3, <1>4, <1>5 DEF GraphStep

LEMMA NodeOthers ==
  ASSUME Types, NEW t \in Threads, NodeStep(t)
  PROVE  Others(t)
<1> USE DEF Types, Others, Goto, SearchVars
<1>1. CASE TakeNode(t)
  BY <1>1 DEF TakeNode, ReturnPath
<1>2. CASE AddChild(t)
  <2>1. PICK k \in kids[t] : Discard(t, k) \/ NewNode(t, k) \/ CheaperPath(t, k)
    BY <1>2 DEF AddChild
  <2>2. UNCHANGED <<cur, want, ret, job, final_wt>>
    BY <1>2 DEF AddChild
  <2>3. QED
    BY <2>1, <2>2 DEF Discard, NewNode, CheaperPath, ReturnPath
<1>3. CASE SetPath(t)
  BY <1>3 DEF SetPath
<1>4. QED
  BY <1>1, <1>2, <1>3 DEF NodeStep

LEMMA SortOthers ==
  ASSUME Types, NEW t \in Threads, SortStep(t)
  PROVE  Others(t)
<1> USE DEF Types, Others, Goto, SameData, localVars
<1>1. CASE QueueBlocks(t)
  BY <1>1 DEF QueueBlocks
<1>2. CASE StartSort(t)
  BY <1>2 DEF StartSort
<1>3. CASE Dequeue(t)
  BY <1>3 DEF Dequeue
<1>4. CASE SortBlock(t)
  BY <1>4 DEF SortBlock
<1>5. CASE EndResort(t)
  BY <1>5 DEF EndResort
<1>6. QED
  BY <1>1, <1>2, <1>3, <1>4, <1>5 DEF SortStep

\* A thread that is at work in a block has one.
LEMMA OwnBlock ==
  ASSUME Types, Owners, NEW t \in Threads, pc[t] \in Owning
  PROVE  cur[t] \in NBlocks /\ cur[t] # NoBlock /\ cur[t] \in inuse
BY DEF Types, Owners, Blocks

LEMMA QuietTypes ==
  ASSUME Types, WeightTypes, Owners, NEW t \in Threads, QuietStep(t)
  PROVE  /\ Types' /\ WeightTypes'
         /\ pc'[t] = "set_hot" => want'[t].block \in NBlocks
         /\ \A u \in Threads : cur'[u] = cur[u] \/ cur'[u] = NoBlock
<1>1. /\ UNCHANGED <<countVars, free_list, sortVars>> /\ SameData
      /\ pc' \in [Threads -> PCs]
  BY QuietFrame
<1>2. NoBlock \in Blocks /\ {"next", "relock"} \subseteq Rets
  BY DEF Blocks, Rets
<1>3. /\ cur' \in [Threads -> Blocks] /\ ret' \in [Threads -> Rets]
      /\ final_wt' \in [Threads -> BOOLEAN]
      /\ \A u \in Threads : cur'[u] = cur[u] \/ cur'[u] = NoBlock
  <2> USE <1>2 DEF Types, WeightTypes, Drop, localVars
  <2>1. CASE Busy(t) \/ Keep(t) \/ Relock(t) \/ LockNext(t)
    BY <2>1 DEF Busy, Keep, Relock, LockNext
  <2>2. CASE NextBlock(t) \/ JoinResort(t)
    BY <2>2 DEF NextBlock, JoinResort
  <2>3. CASE \/ Finish(t) \/ Wait(t) \/ PutBack(t) \/ Wake(t) \/ SeeDone(t)
             \/ SeeFlag(t) \/ GotNull(t)
    BY <2>3 DEF Finish, Wait, PutBack, Wake, SeeDone, SeeFlag, GotNull
  <2>4. CASE Enter(t) \/ EndExpand(t) \/ LoopTest(t)
    BY <2>4 DEF Enter, EndExpand, LoopTest, SearchVars
  <2>5. CASE WantHot(t)
    BY <2>5 DEF WantHot, SearchVars
  <2>6. CASE CallForResort(t)
    BY <2>6 DEF CallForResort
  <2>7. CASE JoinMaster(t)
    BY <2>7 DEF JoinMaster
  <2>8. CASE Spin(t) \/ LeaveSort(t)
    BY <2>8 DEF Spin, LeaveSort
  <2>9. QED
    BY <2>1, <2>2, <2>3, <2>4, <2>5, <2>6, <2>7, <2>8 DEF QuietStep
<1>4. /\ want' \in [Threads -> [block : Blocks, val : Nat]]
      /\ pc'[t] = "set_hot" => want'[t].block \in NBlocks
  <2>1. CASE WantHot(t)
    <3>1. PICK b \in Interferes[cur[t]] :
            want' = [want EXCEPT ![t] = [block |-> b, val |-> Best[b]]]
      BY <2>1 DEF WantHot
    <3>2. cur[t] \in NBlocks
      BY <2>1, OwnBlock DEF WantHot, Owning
    <3>3. b \in NBlocks
      BY <3>2, InterferingBlocks
    <3>4. Best[b] \in Nat
      BY <3>3, BestIsLeast, SpaceAssumption
    <3>5. [block |-> b, val |-> Best[b]] \in [block : Blocks, val : Nat]
      BY <3>3, <3>4 DEF Blocks
    <3>6. QED
      BY <3>1, <3>3, <3>5 DEF Types
  <2>2. CASE ~WantHot(t)
    <3>1. want' = want
      BY <2>2 DEF QuietStep, NextBlock, LockNext, Busy, Keep, JoinResort, Relock,
        Finish, Wait, PutBack, Wake, SeeDone, SeeFlag, GotNull, Enter, EndExpand,
        LoopTest, CallForResort, JoinMaster, Spin, LeaveSort, localVars
    <3>2. pc'[t] # "set_hot"
      BY <2>2 DEF QuietStep, NextBlock, LockNext, Busy, Keep, JoinResort, Relock,
        Finish, Wait, PutBack, Wake, SeeDone, SeeFlag, GotNull, Enter, EndExpand,
        LoopTest, CallForResort, JoinMaster, Spin, LeaveSort, Goto, Types, Rets
    <3>3. QED
      BY <3>1, <3>2 DEF Types
  <2>3. QED
    BY <2>1, <2>2
<1>5. QED
  BY <1>1, <1>3, <1>4
  DEF Types, WeightTypes, LastWeight, SameData, sortVars, countVars, weightVars, nodeVars

\* How a step of t treats the mutex.
MutexStep(t) ==
  \/ UNCHANGED mutex /\ (Locked(t)' => Locked(t))
  \/ mutex = NoThread /\ mutex' = t
  \/ Locked(t) /\ ~Locked(t)'

\* The invariant of the control, for one thread.
OwnControl(t) ==
  /\ pc[t] = "spin" => ret[t] # "await"
  /\ pc[t] # "expand" => kids[t] = {}
  /\ pc[t] # "path" => sol[t] = Infinity
  /\ final_wt[t] => final_weight
  /\ pc[t] = "ended" => done

\* A step of t leaves the others in the sections in which they are.
LEMMA OthersLocked ==
  ASSUME NEW t \in Threads, Others(t), NEW u \in Threads, u # t
  PROVE  /\ Locked(u)' <=> Locked(u)
         /\ Mastering(u)' <=> Mastering(u)
         /\ Sorting(u)' <=> Sorting(u)
BY DEF Others, Locked, Mastering, Sorting

LEMMA ControlKept ==
  ASSUME Control, NEW t \in Threads, Others(t), MutexStep(t), OwnControl(t)',
         done => done', final_weight => final_weight'
  PROVE  Control'
<1>1. ASSUME NEW u \in Threads, Locked(u)' PROVE mutex' = u
  <2>1. CASE u = t
    BY <1>1, <2>1 DEF MutexStep, Control
  <2>2. CASE u # t
    <3>1. Locked(u)
      BY <1>1, <2>2, OthersLocked
    <3>2. mutex = u /\ (Locked(t) => mutex = t)
      BY <3>1 DEF Control
    <3>3. mutex # NoThread
      BY <3>2, ARPBNFAssumption
    <3>4. QED
      BY <2>2, <3>2, <3>3 DEF MutexStep
  <2>3. QED
    BY <2>1, <2>2
<1>2. ASSUME NEW u \in Threads PROVE OwnControl(u)'
  <2>1. CASE u = t
    BY <2>1
  <2>2. CASE u # t
    BY <2>2 DEF Others, Control, OwnControl
  <2>3. QED
    BY <2>1, <2>2
<1>3. QED
  BY <1>1, <1>2 DEF Control, OwnControl

\* The thread that sorts, or has queued, the blocks stays the same.
SameMaster(t) ==
  /\ Mastering(t)' <=> Mastering(t)
  /\ Sorting(t)' <=> Sorting(t)
  /\ pc'[t] = "queued" <=> pc[t] = "queued"

LEMMA SameResorting ==
  ASSUME NEW t \in Threads, Others(t), SameMaster(t)
  PROVE  Resorting' <=> Resorting
BY OthersLocked DEF Resorting, SameMaster

LEMMA QuietControl ==
  ASSUME Types, Owners, Control, NEW t \in Threads, QuietStep(t)
  PROVE  /\ MutexStep(t) /\ OwnControl(t)' /\ SameMaster(t)
         /\ done => done'
         /\ pc'[t] \in Owning => cur'[t] # NoBlock
<1>1. UNCHANGED <<kids, sol, final_weight>> /\ kids[t] = kids[t]
  BY QuietFrame DEF SameData, weightVars
<1>2. /\ pc[t] \in PCs /\ ret[t] \in Rets
      /\ OwnControl(t) /\ (pc[t] \in Owning => cur[t] # NoBlock)
  BY DEF Types, Control, OwnControl, Owners
<1> USE <1>1, <1>2 DEF Types, Goto, Locked, Mastering, Sorting, MutexStep, OwnControl,
        SameMaster, Owning, localVars, Lock, Unlock
<1>3. CASE NextBlock(t) \/ Busy(t) \/ Keep(t) \/ Relock(t) \/ LockNext(t)
  BY <1>3 DEF NextBlock, Busy, Keep, Relock, LockNext
<1>4. CASE JoinResort(t)
  BY <1>4 DEF JoinResort
<1>5. CASE Finish(t) \/ Wait(t) \/ PutBack(t)
  BY <1>5 DEF Finish, Wait, PutBack, AtWait, AtTest, SetDone
<1>6. CASE Wake(t) \/ SeeDone(t) \/ SeeFlag(t) \/ GotNull(t)
  BY <1>6 DEF Wake, SeeDone, SeeFlag, GotNull, AtWait, AtTest
<1>7. CASE Enter(t) \/ EndExpand(t) \/ LoopTest(t) \/ WantHot(t)
  BY <1>7 DEF Enter, EndExpand, LoopTest, WantHot, SearchVars
<1>8. CASE CallForResort(t) \/ JoinMaster(t)
  BY <1>8 DEF CallForResort, JoinMaster, Drop
<1>9. CASE Spin(t) \/ LeaveSort(t)
  BY <1>9 DEF Spin, LeaveSort, Rets
<1>10. QED
  BY <1>3, <1>4, <1>5, <1>6, <1>7, <1>8, <1>9 DEF QuietStep

LEMMA GraphControl ==
  ASSUME Types, Owners, Control, NEW t \in Threads, GraphStep(t)
  PROVE  /\ MutexStep(t) /\ OwnControl(t)' /\ SameMaster(t)
         /\ done' = done /\ final_weight' = final_weight
         /\ pc'[t] \in Owning => cur'[t] # NoBlock
         /\ pc'[t] # "set_hot"
<1>1. /\ pc[t] \in PCs /\ ret[t] \in Rets
      /\ OwnControl(t) /\ (pc[t] \in Owning => cur[t] # NoBlock)
  BY DEF Types, Control, OwnControl, Owners
<1>2. UNCHANGED <<kids, sol, final_weight, final_wt, ret, done>>
  BY DEF GraphStep, Release, Take, SetHot, WontRelease, ClaimResort, localVars,
         weightVars, SameData
<1> USE <1>1, <1>2 DEF Types, Goto, Locked, Mastering, Sorting, MutexStep, OwnControl,
        SameMaster, Owning, localVars, Unlock
<1>3. CASE Release(t)
  BY <1>3 DEF Release
<1>4. CASE Take(t)
  <2>1. PICK n \in NBlocks : cur' = [cur EXCEPT ![t] = n]
    BY <1>4 DEF Take
  <2>2. n # NoBlock
    BY ARPBNFAssumption
  <2>3. cur'[t] # NoBlock
    BY <2>1, <2>2
  <2>4. QED
    BY <1>4, <2>3 DEF Take, AtWait, AtTest
<1>5. CASE SetHot(t)
  BY <1>5 DEF SetHot
<1>6. CASE WontRelease(t)
  BY <1>6 DEF WontRelease
<1>7. CASE ClaimResort(t)
  BY <1>7 DEF ClaimResort
<1>8. QED
  BY <1>3, <1>4, <1>5, <1>6, <1>7 DEF GraphStep

LEMMA NodeControl ==
  ASSUME Types, Owners, Control, NEW t \in Threads, NodeStep(t)
  PROVE  /\ MutexStep(t) /\ OwnControl(t)' /\ SameMaster(t)
         /\ done' = done /\ final_weight' = final_weight
         /\ pc'[t] \in Owning => cur'[t] # NoBlock
         /\ pc'[t] # "set_hot" /\ pc[t] \in {"body", "expand", "path"}
<1>1. /\ pc[t] \in PCs /\ ret[t] \in Rets
      /\ OwnControl(t) /\ (pc[t] \in Owning => cur[t] # NoBlock)
  BY DEF Types, Control, OwnControl, Owners
<1>2. UNCHANGED <<mutex, cur, final_weight, final_wt, ret, done>>
  BY DEF NodeStep, TakeNode, AddChild, SetPath, SearchVars, weightVars
<1> USE <1>1, <1>2 DEF Types, Goto, Locked, Mastering, Sorting, MutexStep, OwnControl,
        SameMaster, Owning
<1>3. CASE TakeNode(t)
  BY <1>3 DEF TakeNode, ReturnPath
<1>4. CASE AddChild(t)
  <2>1. PICK k \in kids[t] : Discard(t, k) \/ NewNode(t, k) \/ CheaperPath(t, k)
    BY <1>4 DEF AddChild
  <2>2. pc[t] = "expand"
    BY <1>4 DEF AddChild
  <2>3. QED
    BY <2>1, <2>2 DEF Discard, NewNode, CheaperPath, ReturnPath
<1>5. CASE SetPath(t)
  BY <1>5 DEF SetPath
<1>6. QED
  BY <1>3, <1>4, <1>5 DEF NodeStep

\* The weight becomes final, and stays so.
LEMMA NextWeight ==
  ASSUME WeightTypes, MoveToNextWeight
  PROVE  /\ WeightTypes' /\ weights' = weights
         /\ final_weight => final_weight'
<1>1. CASE weights[next_weight] = 1
  BY <1>1 DEF WeightTypes, MoveToNextWeight, weightVars, LastWeight
<1>2. CASE weights[next_weight] # 1 /\ next_weight < Len(weights)
  <2>1. next_weight + 1 \in 1..Len(weights) /\ weights[next_weight + 1] \in Nat \ {0}
    BY <1>2 DEF WeightTypes
  <2>2. /\ weights' = weights /\ next_weight' = next_weight + 1
        /\ weight' = weights[next_weight + 1]
        /\ final_weight' = (\/ final_weight \/ weights[next_weight + 1] = 1
                            \/ next_weight + 1 = Len(weights))
    BY <1>2 DEF MoveToNextWeight
  <2>3. ~final_weight
    BY <1>2 DEF WeightTypes
  <2>4. Len(weights) \in 1..Len(weights) /\ LastWeight \in Nat \ {0}
    BY <2>1 DEF WeightTypes, LastWeight
  <2>5. final_weight' => weight' <= LastWeight
    <3>1. CASE weights[next_weight + 1] = 1
      BY <2>2, <2>4, <3>1
    <3>2. CASE next_weight + 1 = Len(weights)
      BY <2>2, <2>4, <3>2 DEF LastWeight
    <3>3. QED
      BY <2>2, <2>3, <3>1, <3>2
  <2>6. QED
    BY <2>1, <2>2, <2>3, <2>5 DEF WeightTypes, LastWeight
<1>3. CASE weights[next_weight] # 1 /\ ~(next_weight < Len(weights))
  <2>1. /\ weights' = weights /\ next_weight' = next_weight /\ weight' = 1
        /\ final_weight' = TRUE
    BY <1>3 DEF MoveToNextWeight
  <2>2. next_weight = Len(weights) /\ LastWeight \in Nat \ {0}
    BY <1>3 DEF WeightTypes, LastWeight
  <2>3. QED
    BY <2>1, <2>2 DEF WeightTypes, LastWeight
<1>4. QED
  BY <1>1, <1>2, <1>3

LEMMA SortControl ==
  ASSUME Types, WeightTypes, Owners, Control, NEW t \in Threads, SortStep(t)
  PROVE  /\ MutexStep(t) /\ OwnControl(t)'
         /\ done => done'
         /\ final_weight => final_weight'
         /\ cur' = cur /\ want' = want
         /\ pc'[t] \notin Owning
<1>1. /\ pc[t] \in PCs /\ ret[t] \in Rets
      /\ OwnControl(t) /\ (pc[t] \in Owning => cur[t] # NoBlock)
  BY DEF Types, Control, OwnControl, Owners
<1> USE <1>1 DEF Types, Goto, Locked, Mastering, Sorting, MutexStep, OwnControl,
        Owning, Lock, Unlock, localVars, SameData, weightVars
<1>2. CASE QueueBlocks(t)
  <2>1. final_weight => final_weight'
    BY <1>2, NextWeight DEF QueueBlocks
  <2>2. QED
    BY <1>2, <2>1 DEF QueueBlocks
<1>3. CASE StartSort(t)
  BY <1>3 DEF StartSort
<1>4. CASE Dequeue(t)
  BY <1>4 DEF Dequeue
<1>5. CASE SortBlock(t)
  BY <1>5 DEF SortBlock
<1>6. CASE EndResort(t)
  BY <1>6 DEF EndResort
<1>7. QED
  BY <1>2, <1>3, <1>4, <1>5, <1>6 DEF SortStep

\* What a step of t does to its block and to the blocks in use.
OwnerStep(t) ==
  \/ cur'[t] = cur[t] /\ inuse' = inuse
  \/ cur'[t] = NoBlock /\ (inuse' = inuse \/ inuse' = inuse \ {cur[t]})
  \/ \E n \in NBlocks : n \notin inuse /\ cur'[t] = n /\ inuse' = inuse \cup {n}

LEMMA OwnersKept ==
  ASSUME Types, Owners, NEW t \in Threads, Others(t), OwnerStep(t),
         pc'[t] \in Owning => cur'[t] # NoBlock,
         pc'[t] = "set_hot" => want'[t].block \in NBlocks
  PROVE  Owners'
<1>1. ASSUME NEW u \in Threads, u # t, cur[u] # NoBlock
      PROVE  cur'[u] \in inuse' /\ cur'[u] # cur'[t]
  <2>1. cur'[u] = cur[u] /\ cur[u] \in inuse /\ cur[u] # cur[t]
    BY <1>1 DEF Others, Owners
  <2>2. QED
    BY <1>1, <2>1 DEF OwnerStep
<1>2. \A u \in Threads : u # t => cur'[u] = cur[u]
  BY DEF Others
<1>3. cur'[t] # NoBlock => cur'[t] \in inuse'
  BY DEF OwnerStep, Owners
<1>4. ASSUME NEW u \in Threads, cur'[u] # NoBlock PROVE cur'[u] \in inuse'
  BY <1>1, <1>2, <1>3, <1>4
<1>5. ASSUME NEW u \in Threads, NEW v \in Threads, u # v, cur'[u] # NoBlock
      PROVE  cur'[u] # cur'[v]
  <2>1. CASE u = t
    <3>1. CASE cur[v] = NoBlock
      BY <1>2, <1>5, <2>1, <3>1
    <3>2. CASE cur[v] # NoBlock
      BY <1>1, <1>5, <2>1, <3>2
    <3>3. QED
      BY <3>1, <3>2
  <2>2. CASE u # t
    <3>1. CASE v = t
      BY <1>1, <1>2, <1>5, <2>2, <3>1
    <3>2. CASE v # t
      BY <1>2, <1>5, <2>2, <3>2 DEF Owners
    <3>3. QED
      BY <3>1, <3>2
  <2>3. QED
    BY <2>1, <2>2
<1>6. ASSUME NEW u \in Threads
      PROVE  /\ pc'[u] \in Owning => cur'[u] # NoBlock
             /\ pc'[u] = "set_hot" => want'[u].block \in NBlocks
  BY DEF Others, Owners, Owning
<1>7. QED
  BY <1>4, <1>5, <1>6 DEF Owners

\* The invariant as far as no other part of it is needed to keep it.
Base == Types /\ WeightTypes /\ Owners /\ Control

LEMMA QuietBase ==
  ASSUME Base, NEW t \in Threads, QuietStep(t)
  PROVE  Base' /\ Others(t) /\ SameMaster(t)
<1> USE DEF Base
<1>1. Others(t)
  BY QuietOthers
<1>2. /\ UNCHANGED <<countVars, free_list, sortVars>> /\ SameData
  BY QuietFrame
<1>3. /\ Types' /\ WeightTypes'
      /\ pc'[t] = "set_hot" => want'[t].block \in NBlocks
      /\ cur'[t] = cur[t] \/ cur'[t] = NoBlock
  BY QuietTypes
<1>4. /\ MutexStep(t) /\ OwnControl(t)' /\ SameMaster(t)
      /\ done => done'
      /\ pc'[t] \in Owning => cur'[t] # NoBlock
  BY QuietControl
<1>5. final_weight' = final_weight /\ inuse' = inuse
  BY <1>2 DEF SameData, weightVars, countVars
<1>6. Control'
  BY <1>1, <1>4, <1>5, ControlKept
<1>7. Owners'
  BY <1>1, <1>3, <1>4, <1>5, OwnersKept DEF OwnerStep
<1>8. QED
  BY <1>1, <1>3, <1>4, <1>6, <1>7

LEMMA GraphFrame ==
  ASSUME Types, NEW t \in Threads, GraphStep(t)
  PROVE  /\ UNCHANGED <<sortVars, kids, sol, bound, weightVars, nodeVars>>
         /\ pc' \in [Threads -> PCs]
         /\ UNCHANGED <<ret, final_wt>>
         /\ want' \in [Threads -> [block : Blocks, val : Nat]]
<1> USE DEF Types, Goto, PCs, sortVars, SameData, localVars, FreeBlock
<1>1. CASE Release(t)
  BY <1>1 DEF Release, resortVars
<1>2. CASE Take(t)
  BY <1>2 DEF Take, resortVars
<1>3. CASE SetHot(t)
  <2>1. G!NoWant \in [block : Blocks, val : Nat]
    BY SpaceAssumption DEF G!NoWant, Blocks
  <2>2. want' = [want EXCEPT ![t] = G!NoWant]
    BY <1>3 DEF SetHot
  <2>3. want' \in [Threads -> [block : Blocks, val : Nat]]
    BY <2>1, <2>2
  <2>4. QED
    BY <1>3, <2>3 DEF SetHot, resortVars
<1>4. CASE WontRelease(t)
  BY <1>4 DEF WontRelease, resortVars
<1>5. CASE ClaimResort(t)
  BY <1>5 DEF ClaimResort
<1>6. QED
  BY <1>1, <1>2, <1>3, <1>4, <1>5 DEF GraphStep

(***************************************************************************)
(* The steps on the graph: they are not taken during a resort              *)
(***************************************************************************)

LEMMA NoMaster ==
  ASSUME Control, mutex = NoThread
  PROVE  ~Resorting
BY ARPBNFAssumption DEF Control, Resorting, Locked

LEMMA OtherSection ==
  ASSUME Control, NEW t \in Threads, Locked(t), ~Mastering(t)
  PROVE  ~Resorting
BY DEF Control, Resorting, Locked

LEMMA GraphStepAlone ==
  ASSUME Base, NEW t \in Threads, GraphStep(t)
  PROVE  ~Resorting /\ ~Resorting' /\ Others(t)
<1> USE DEF Base
<1>1. Others(t) /\ SameMaster(t)
  BY GraphOthers, GraphControl
<1>2. CASE Release(t) \/ Take(t)
  <2>1. Locked(t) /\ ~Mastering(t)
    BY <1>2 DEF Release, Take, AtWait, AtTest, Locked, Mastering, Sorting
  <2>2. QED
    BY <1>1, <2>1, OtherSection, SameResorting
<1>3. CASE SetHot(t) \/ WontRelease(t) \/ ClaimResort(t)
  <2>1. mutex = NoThread
    BY <1>3 DEF SetHot, WontRelease, ClaimResort
  <2>2. QED
    BY <1>1, <2>1, NoMaster, SameResorting
<1>4. QED
  BY <1>2, <1>3 DEF GraphStep

\* Steps that change no node change no value in the heap.
LEMMA SameBest ==
  ASSUME UNCHANGED nodeVars
  PROVE  Best' = Best
BY DEF Best, HeapKey, nodeVars

LEMMA CoreOfGraph ==
  ASSUME Graph, ~Resorting
  PROVE  P!Core /\ P!ZerosExact
BY DEF Graph, P!Core

\* What exists, after a step of the graph.
LEMMA Existing ==
  ASSUME Allocated, UNCHANGED <<kids, nodeVars>>, created \subseteq created',
         free_list' \subseteq created', NEW t \in Threads, Others(t), kids[t] = {},
         \A b \in inuse' \ inuse : {b} \cup Interferes[b] \subseteq created'
  PROVE  Allocated'
<1>1. \A b \in inuse' : {b} \cup Interferes[b] \subseteq created'
  BY DEF Allocated
<1>2. \A s \in open' \cup incons' : Project[s] \in created'
  BY DEF Allocated, nodeVars
<1>3. \A u \in Threads : \A k \in kids'[u] : Project[k.to] \in P!Scope(cur'[u])
  BY DEF Allocated, Others, P!Scope
<1>4. QED
  BY <1>1, <1>2, <1>3 DEF Allocated, Interferes, P!Scope, G!Interferes, G!Preds

\* free_nblock.
LEMMA FreeBlockCore ==
  ASSUME Types, P!Core, P!ZerosExact, Allocated, NEW n \in inuse, FreeBlock(n)
  PROVE  /\ P!Core' /\ P!ZerosExact' /\ inuse' = inuse \ {n}
         /\ created \subseteq created' /\ created' \subseteq NBlocks
         /\ free_list' \subseteq created'
<1> DEFINE Z == {m \in P!Interferes[n] : sigma[m] = 1}
           C == Z \cap hot
<1>1. n \in NBlocks
  BY DEF P!Core, P!CoreTypes
<1>2. Interferes[n] = P!Interferes[n] /\ G!HotAmong(Z) = C
  BY SameOperators
<1>3. {m \in Interferes[n] : sigma[m] = 1} = Z
  BY <1>2
<1>4. /\ inuse' = inuse \ {n} /\ sigma' = P!ScopeSigmas(n, -1)
      /\ num_sigma_zero' = num_sigma_zero + Cardinality(Z)
      /\ hot' = hot \ C /\ sigma_hot' = P!CooledSigmaHot(C)
      /\ created' = created \cup (Interferes[n] \cup P!AllInterferers(C))
      /\ free_list' = free_list \cup P!Freed({n} \cup Z \cup P!AllInterferers(C))
      /\ UNCHANGED nodeVars
  BY <1>2, <1>3, SameOperators, SameFreed
  DEF FreeBlock, ReleaseScope, SetCold, G!Get
<1>5. Best' = Best
  BY <1>4, SameBest
<1>6. Cardinality(Z) = P!Cardinality(Z)
  BY FiniteSame
<1>7. C \in SUBSET NBlocks /\ P!AllInterferers(C) \subseteq NBlocks
  <2>1. C \in SUBSET NBlocks
    BY DEF P!Core, P!CoreTypes
  <2>2. QED
    BY <2>1, GraphAssumption, P!AllInterferersType
<1>8. Interferes[n] \subseteq NBlocks /\ Z \subseteq Interferes[n]
  BY <1>1, <1>2, InterferingBlocks
<1>9. created' \subseteq NBlocks /\ created \subseteq created'
  BY <1>4, <1>7, <1>8 DEF Types
<1>10. free_list' \subseteq created'
  BY <1>4, <1>8 DEF Allocated, P!Freed
<1>11. Z = {m \in P!Interferes[n] : sigma[m] = 1} /\ C = Z \cap hot
  OBVIOUS
<1> HIDE DEF Z, C
<1>12. P!Core'
  BY <1>4, <1>5, <1>11, GraphAssumption, P!ReleaseCore
<1>13. P!ZerosExact'
  BY <1>4, <1>6, <1>11, GraphAssumption, P!ReleaseZeros
<1>14. QED
  BY <1>4, <1>9, <1>10, <1>12, <1>13

\* The inductive invariant of the resorts.
Inv == Base /\ Graph /\ Allocated /\ Barrier /\ Sorted

LEMMA BarrierStays ==
  ASSUME Barrier, UNCHANGED sortVars,
         inuse' = inuse \/ ~Resorting, created' = created \/ ~Resorting,
         NEW t \in Threads, Others(t), SameMaster(t)
  PROVE  Barrier'
<1>1. Resorting' <=> Resorting
  BY SameResorting
<1>2. \A u \in Threads :
        /\ Sorting(u)' <=> Sorting(u)
        /\ pc'[u] = "queued" <=> pc[u] = "queued"
  BY OthersLocked DEF Others, SameMaster
<1>3. Unsorted' = Unsorted /\ Pending' = Pending
  BY DEF Unsorted, Pending, Busybody, sortVars
<1>4. \A u \in Threads : pc[u] = "queued" => Resorting
  BY DEF Resorting, Mastering
<1>5. \A u \in Threads : pc'[u] = "queued" => Pending' <= Cardinality(created')
  BY <1>2, <1>3, <1>4 DEF Barrier
<1>6. \A u \in Threads : Sorting(u)' => Pending' <= n_to_sort'
  BY <1>2, <1>3 DEF Barrier, sortVars
<1>7. QED
  BY <1>1, <1>3, <1>5, <1>6 DEF Barrier

LEMMA SortedStays ==
  ASSUME Sorted, UNCHANGED <<sortVars, weightVars, nodeVars>>,
         NEW t \in Threads, Others(t), SameMaster(t)
  PROVE  Sorted'
<1>1. Resorting' <=> Resorting
  BY SameResorting
<1>2. Unsorted' = Unsorted
  BY DEF Unsorted, Busybody, sortVars
<1>3. QED
  BY <1>1, <1>2 DEF Sorted, weightVars, nodeVars

\* The steps on the graph, but for the graph.
LEMMA GraphStepRest ==
  ASSUME Inv, NEW t \in Threads, GraphStep(t), OwnerStep(t),
         cur' \in [Threads -> Blocks], created' \subseteq NBlocks
  PROVE  Base' /\ Barrier' /\ Sorted'
<1>1. /\ UNCHANGED <<sortVars, kids, sol, bound, weightVars, nodeVars>>
      /\ pc' \in [Threads -> PCs]
      /\ UNCHANGED <<ret, final_wt>>
      /\ want' \in [Threads -> [block : Blocks, val : Nat]]
  BY GraphFrame DEF Inv, Base
<1>2. ~Resorting /\ Others(t)
  BY GraphStepAlone DEF Inv
<1>3. /\ MutexStep(t) /\ OwnControl(t)' /\ SameMaster(t)
      /\ done' = done /\ final_weight' = final_weight
      /\ pc'[t] \in Owning => cur'[t] # NoBlock
      /\ pc'[t] # "set_hot"
  BY GraphControl DEF Inv, Base
<1>4. Types' /\ WeightTypes'
  BY <1>1 DEF Inv, Base, Types, WeightTypes, LastWeight, sortVars, weightVars, nodeVars
<1>5. Owners'
  BY <1>2, <1>3, OwnersKept DEF Inv, Base
<1>6. Control'
  BY <1>2, <1>3, ControlKept DEF Inv, Base
<1>7. Barrier'
  BY <1>1, <1>2, <1>3, BarrierStays DEF Inv
<1>8. Sorted'
  BY <1>1, <1>2, <1>3, SortedStays DEF Inv
<1>9. QED
  BY <1>4, <1>5, <1>6, <1>7, <1>8 DEF Base

LEMMA ReleaseInvariant ==
  ASSUME Inv, NEW t \in Threads, Release(t)
  PROVE  Inv'
<1>1. GraphStep(t)
  BY DEF GraphStep
<1>2. /\ ~Resorting /\ Others(t)
      /\ UNCHANGED <<kids, nodeVars>>
  BY <1>1, GraphStepAlone, GraphFrame DEF Inv, Base
<1>3. cur[t] \in inuse /\ kids[t] = {}
  BY OwnBlock DEF Inv, Base, Control, Release, Owning
<1>4. /\ P!Core' /\ P!ZerosExact' /\ inuse' = inuse \ {cur[t]}
      /\ created \subseteq created' /\ created' \subseteq NBlocks
      /\ free_list' \subseteq created'
  <2>1. P!Core /\ P!ZerosExact /\ Types /\ Allocated /\ FreeBlock(cur[t])
    BY <1>2, CoreOfGraph DEF Inv, Base, Release
  <2>2. QED
    BY <1>3, <2>1, FreeBlockCore
<1>5. cur' = [cur EXCEPT ![t] = NoBlock]
  BY DEF Release, Drop
<1>6. cur' \in [Threads -> Blocks] /\ cur'[t] = NoBlock
  BY <1>5 DEF Inv, Base, Types, Blocks
<1>7. Base' /\ Barrier' /\ Sorted'
  BY <1>1, <1>4, <1>6, GraphStepRest DEF OwnerStep
<1>8. Allocated'
  <2>1. inuse' \ inuse = {}
    BY <1>4
  <2>2. \A b \in inuse' \ inuse : {b} \cup Interferes[b] \subseteq created'
    BY <2>1
  <2>3. QED
    BY <1>2, <1>3, <1>4, <2>2, Existing DEF Inv
<1>9. Graph'
  BY <1>4 DEF Graph, P!Core
<1>10. QED
  BY <1>7, <1>8, <1>9 DEF Inv

LEMMA ClaimInvariant ==
  ASSUME Inv, NEW t \in Threads, ClaimResort(t)
  PROVE  Inv'
<1>1. GraphStep(t)
  BY DEF GraphStep
<1>2. /\ ~Resorting /\ Others(t)
      /\ UNCHANGED <<kids, nodeVars>>
  BY <1>1, GraphStepAlone, GraphFrame DEF Inv, Base
<1>3. (cur[t] # NoBlock => cur[t] \in inuse) /\ kids[t] = {}
  BY DEF Inv, Base, Control, Owners, ClaimResort
<1>4. P!Core /\ P!ZerosExact /\ Types /\ Allocated
  BY <1>2, CoreOfGraph DEF Inv, Base
<1>5. /\ P!Core' /\ P!ZerosExact'
      /\ inuse' = inuse \/ inuse' = inuse \ {cur[t]}
      /\ created \subseteq created' /\ created' \subseteq NBlocks
      /\ free_list' \subseteq created'
  <2>1. CASE cur[t] = NoBlock
    <3>1. UNCHANGED <<countVars, free_list>> /\ Best' = Best
      BY <1>2, <2>1, SameBest DEF ClaimResort
    <3>2. QED
      BY <1>4, <3>1 DEF P!Core, P!CoreTypes, P!SigmasExact, P!Exclusion,
        P!FreeListExact, P!HotIsTemporary, P!ZerosExact, P!IsFree, P!Empty,
        P!Hopeless, countVars, Allocated, Types
  <2>2. CASE cur[t] # NoBlock
    BY <1>3, <1>4, <2>2, FreeBlockCore DEF ClaimResort
  <2>3. QED
    BY <2>1, <2>2
<1>6. cur' = [cur EXCEPT ![t] = NoBlock]
  BY DEF ClaimResort, Drop
<1>7. cur' \in [Threads -> Blocks] /\ cur'[t] = NoBlock
  BY <1>6 DEF Inv, Base, Types, Blocks
<1>8. Base' /\ Barrier' /\ Sorted'
  BY <1>1, <1>5, <1>7, GraphStepRest DEF OwnerStep
<1>9. Allocated'
  <2>1. inuse' \ inuse = {}
    BY <1>5
  <2>2. \A b \in inuse' \ inuse : {b} \cup Interferes[b] \subseteq created'
    BY <2>1
  <2>3. QED
    BY <1>2, <1>3, <1>4, <1>5, <2>2, Existing
<1>10. Graph'
  BY <1>5 DEF Graph, P!Core
<1>11. QED
  BY <1>8, <1>9, <1>10 DEF Inv

LEMMA TakeInvariant ==
  ASSUME Inv, NEW t \in Threads, Take(t)
  PROVE  Inv'
<1>1. GraphStep(t)
  BY DEF GraphStep
<1>2. /\ ~Resorting /\ Others(t)
      /\ UNCHANGED <<kids, nodeVars>>
  BY <1>1, GraphStepAlone, GraphFrame DEF Inv, Base
<1>3. P!Core /\ P!ZerosExact
  BY <1>2, CoreOfGraph DEF Inv
<1>4. PICK n \in NBlocks :
        /\ n \in free_list /\ inuse' = inuse \cup {n}
        /\ AcquireScope(n)
        /\ cur' = [cur EXCEPT ![t] = n]
  BY DEF Take, G!Front
<1>5. n \notin inuse
  BY <1>3, <1>4, GraphAssumption, P!FreeFacts
<1>6. {m \in Interferes[n] : G!IsFree(m)} = {m \in P!Interferes[n] : P!IsFree(m)}
  BY SameOperators
<1>7. G!Unavailable(n) = P!Unavailable(n)
  BY <1>6 DEF G!Unavailable, P!Unavailable, Interferes
<1>8. /\ sigma' = P!ScopeSigmas(n, 1)
      /\ free_list' = free_list \ P!Unavailable(n)
      /\ created' = created \cup Interferes[n]
      /\ num_sigma_zero' =
           num_sigma_zero - P!Cardinality({m \in P!Interferes[n] : sigma[m] = 0})
  BY <1>4, <1>7, SameOperators, FiniteSame DEF AcquireScope, G!Get
<1>9. Best' = Best /\ UNCHANGED <<hot, sigma_hot>>
  BY <1>2, SameBest DEF Take
<1>10. P!Core'
  BY <1>3, <1>4, <1>8, <1>9, GraphAssumption, P!TakeCore
<1>11. P!ZerosExact'
  BY <1>3, <1>4, <1>8, GraphAssumption, P!TakeZeros
<1>12. /\ created \subseteq created' /\ created' \subseteq NBlocks
       /\ free_list' \subseteq created'
  BY <1>8, InterferingBlocks DEF Inv, Base, Types, Allocated
<1>13. cur' \in [Threads -> Blocks] /\ cur'[t] = n
  BY <1>4 DEF Inv, Base, Types, Blocks
<1>14. OwnerStep(t)
  BY <1>4, <1>5, <1>13 DEF OwnerStep
<1>15. Base' /\ Barrier' /\ Sorted'
  BY <1>1, <1>12, <1>13, <1>14, GraphStepRest
<1>16. kids[t] = {}
  BY DEF Inv, Base, Control, Take, AtWait, AtTest
<1>17. {n} \cup Interferes[n] \subseteq created'
  BY <1>4, <1>8, <1>12 DEF Inv, Allocated
<1>18. \A b \in inuse' \ inuse : {b} \cup Interferes[b] \subseteq created'
  BY <1>4, <1>17
<1>19. Allocated'
  BY <1>2, <1>12, <1>16, <1>18, Existing DEF Inv
<1>20. Graph'
  BY <1>10, <1>11 DEF Graph, P!Core
<1>21. QED
  BY <1>15, <1>19, <1>20 DEF Inv

\* set_hot, when it goes ahead, for the graph.
LEMMA HeatGraph ==
  ASSUME Types, P!Core, P!ZerosExact, Allocated,
         NEW n \in NBlocks, NEW C, C = P!Interferes[n] \cap hot,
         n \notin hot, sigma[n] > 0,
         hot' = (hot \ C) \cup {n},
         sigma_hot' = [m \in NBlocks |-> G!CooledSigmaHot(C)[m]
                                           + IF m \in Interferes[n] THEN 1 ELSE 0],
         free_list' = (free_list \ (Interferes[n] \cap FreeBlocks))
                         \cup G!Freed(G!AllInterferers(C)),
         UNCHANGED <<inuse, sigma, Best, num_sigma_zero>>
  PROVE  P!Core' /\ P!ZerosExact'
<1>1. \A m \in NBlocks : P!CooledSigmaHot(C)[m] \in Nat
  <2>1. C \in SUBSET hot
    OBVIOUS
  <2>2. QED
    BY <2>1, GraphAssumption, P!CooledCount DEF P!Core
<1>2. sigma_hot' = [m \in NBlocks |-> IF m \in P!Interferes[n]
                                      THEN P!CooledSigmaHot(C)[m] + 1
                                      ELSE P!CooledSigmaHot(C)[m]]
  <2>1. G!CooledSigmaHot(C) = P!CooledSigmaHot(C) /\ Interferes = P!Interferes
    BY SameOperators
  <2>2. \A m \in NBlocks :
          P!CooledSigmaHot(C)[m] + (IF m \in P!Interferes[n] THEN 1 ELSE 0) =
            IF m \in P!Interferes[n] THEN P!CooledSigmaHot(C)[m] + 1
                                    ELSE P!CooledSigmaHot(C)[m]
    <3>1. \A x \in Nat : \A p \in BOOLEAN :
            x + (IF p THEN 1 ELSE 0) = IF p THEN x + 1 ELSE x
      OBVIOUS
    <3>2. QED
      BY <1>1, <3>1
  <2>3. QED
    BY <2>1, <2>2
<1>3. Interferes[n] \cap FreeBlocks \subseteq {m \in P!Interferes[n] : P!IsFree(m)}
  BY SameOperators DEF FreeBlocks
<1>4. {m \in P!Interferes[n] : P!IsFree(m)} \cap free_list
        \subseteq Interferes[n] \cap FreeBlocks
  BY SameOperators DEF FreeBlocks, Allocated
<1>5. G!Freed(G!AllInterferers(C)) = P!Freed(P!AllInterferers(C))
  BY SameOperators, SameFreed
<1>6. free_list' = (free_list \ {m \in P!Interferes[n] : P!IsFree(m)})
                      \cup P!Freed(P!AllInterferers(C))
  <2> DEFINE X == Interferes[n] \cap FreeBlocks
             Y == {m \in P!Interferes[n] : P!IsFree(m)}
             Z == P!Freed(P!AllInterferers(C))
  <2>1. X \subseteq Y /\ Y \cap free_list \subseteq X
    BY <1>3, <1>4
  <2>2. free_list' = (free_list \ X) \cup Z
    BY <1>5
  <2> HIDE DEF X, Y, Z
  <2>3. free_list' = (free_list \ Y) \cup Z
    BY <2>1, <2>2
  <2>4. QED
    BY <2>3 DEF Y, Z
<1>7. /\ n \in NBlocks /\ C = P!Interferes[n] \cap hot
      /\ n \notin hot /\ sigma[n] > 0 /\ hot' = (hot \ C) \cup {n} /\ P!Core
      /\ UNCHANGED <<inuse, sigma, Best>>
  OBVIOUS
<1>8. P!Core'
  BY <1>2, <1>6, <1>7, GraphAssumption, P!HeatCore
<1>9. QED
  BY <1>8 DEF P!ZerosExact

LEMMA HeatInvariant ==
  ASSUME Inv, NEW t \in Threads, SetHot(t)
  PROVE  Inv'
<1> DEFINE n == want[t].block
           C == P!Interferes[n] \cap hot
<1>1. GraphStep(t)
  BY DEF GraphStep
<1>2. /\ ~Resorting /\ Others(t)
      /\ UNCHANGED <<kids, nodeVars>> /\ Best' = Best
  BY <1>1, GraphStepAlone, GraphFrame, SameBest DEF Inv, Base
<1>3. /\ n \in NBlocks /\ kids[t] = {} /\ Types /\ Allocated
      /\ P!Core /\ P!ZerosExact
  BY <1>2, CoreOfGraph DEF Inv, Base, Owners, Control, SetHot
<1>4. /\ inuse' = inuse /\ sigma' = sigma /\ cur' = cur
      /\ num_sigma_zero' = num_sigma_zero
  BY DEF SetHot, countVars
<1>5. /\ P!Core' /\ P!ZerosExact'
      /\ created \subseteq created' /\ created' \subseteq NBlocks
      /\ free_list' \subseteq created'
  <2>1. CASE ~G!MayHeat(n, want[t].val)
    <3>1. UNCHANGED <<countVars, free_list>>
      BY <2>1 DEF SetHot
    <3>2. QED
      BY <1>2, <1>3, <3>1 DEF P!Core, P!CoreTypes, P!SigmasExact, P!Exclusion,
        P!FreeListExact, P!HotIsTemporary, P!ZerosExact, P!IsFree, P!Empty,
        P!Hopeless, countVars, Allocated, Types
  <2>2. CASE G!MayHeat(n, want[t].val)
    <3>1. G!HotAmong(Interferes[n]) = C
      BY SameOperators
    <3>2. /\ hot' = (hot \ C) \cup {n}
          /\ sigma_hot' = [m \in NBlocks |-> G!CooledSigmaHot(C)[m]
                                               + IF m \in Interferes[n] THEN 1 ELSE 0]
          /\ free_list' = (free_list \ (Interferes[n] \cap FreeBlocks))
                             \cup G!Freed(G!AllInterferers(C))
          /\ created' = created \cup (Interferes[n] \cup G!AllInterferers(C))
      BY <2>2, <3>1 DEF SetHot, G!Get
    <3>3. n \notin hot /\ sigma[n] > 0
      BY <2>2 DEF G!MayHeat
    <3>4. C = P!Interferes[n] \cap hot /\ C \in SUBSET NBlocks
      BY <1>3 DEF P!Core, P!CoreTypes
    <3>5. G!AllInterferers(C) \subseteq NBlocks
      BY <3>4, SameOperators, GraphAssumption, P!AllInterferersType
    <3>6. Interferes[n] \subseteq NBlocks
      BY <1>3, InterferingBlocks
    <3>7. G!Freed(G!AllInterferers(C)) \subseteq G!AllInterferers(C)
      BY DEF G!Freed
    <3>8. /\ created \subseteq created' /\ created' \subseteq NBlocks
          /\ free_list' \subseteq created'
      BY <1>3, <3>2, <3>5, <3>6, <3>7 DEF Allocated, Types
    <3> HIDE DEF C, n
    <3>9. P!Core' /\ P!ZerosExact'
      BY <1>2, <1>3, <1>4, <3>2, <3>3, <3>4, HeatGraph
    <3>10. QED
      BY <3>8, <3>9
  <2>3. QED
    BY <2>1, <2>2
<1>6. cur' \in [Threads -> Blocks] /\ OwnerStep(t)
  BY <1>3, <1>4 DEF OwnerStep, Types
<1>7. Base' /\ Barrier' /\ Sorted'
  BY <1>1, <1>5, <1>6, GraphStepRest
<1>8. \A b \in inuse' \ inuse : {b} \cup Interferes[b] \subseteq created'
  BY <1>4
<1>9. Allocated'
  BY <1>2, <1>3, <1>5, <1>8, Existing
<1>10. Graph'
  BY <1>5 DEF Graph, P!Core
<1>11. QED
  BY <1>7, <1>9, <1>10 DEF Inv

LEMMA CoolInvariant ==
  ASSUME Inv, NEW t \in Threads, WontRelease(t)
  PROVE  Inv'
<1> DEFINE C == G!HotAmong(Interferes[cur[t]] \cap created)
<1>1. GraphStep(t)
  BY DEF GraphStep
<1>2. /\ ~Resorting /\ Others(t)
      /\ UNCHANGED <<kids, nodeVars>> /\ Best' = Best
  BY <1>1, GraphStepAlone, GraphFrame, SameBest DEF Inv, Base
<1>3. kids[t] = {} /\ Types /\ Allocated /\ P!Core /\ P!ZerosExact
  BY <1>2, CoreOfGraph DEF Inv, Base, Control, WontRelease
<1>4. /\ inuse' = inuse /\ sigma' = sigma /\ cur' = cur
      /\ num_sigma_zero' = num_sigma_zero
      /\ hot' = hot \ C /\ sigma_hot' = G!CooledSigmaHot(C)
      /\ created' = created \cup G!AllInterferers(C)
      /\ free_list' = free_list \cup G!Freed(G!AllInterferers(C))
  BY DEF WontRelease, SetCold, G!Get
<1>5. C \in SUBSET hot /\ C \in SUBSET NBlocks
  BY <1>3, SameOperators DEF P!Core, P!CoreTypes
<1>6. /\ G!AllInterferers(C) = P!AllInterferers(C)
      /\ G!CooledSigmaHot(C) = P!CooledSigmaHot(C)
      /\ G!Freed(G!AllInterferers(C)) = P!Freed(P!AllInterferers(C))
      /\ P!AllInterferers(C) \subseteq NBlocks
      /\ P!Freed(P!AllInterferers(C)) \subseteq P!AllInterferers(C)
  BY <1>5, SameOperators, SameFreed, GraphAssumption, P!AllInterferersType DEF P!Freed
<1> HIDE DEF C
<1>7. P!Core'
  BY <1>2, <1>3, <1>4, <1>5, <1>6, GraphAssumption, P!CoolCore
<1>8. P!ZerosExact'
  BY <1>3, <1>4 DEF P!ZerosExact
<1>9. /\ created \subseteq created' /\ created' \subseteq NBlocks
      /\ free_list' \subseteq created'
  BY <1>3, <1>4, <1>6 DEF Allocated, Types
<1>10. cur' \in [Threads -> Blocks] /\ OwnerStep(t)
  BY <1>3, <1>4 DEF OwnerStep, Types
<1>11. Base' /\ Barrier' /\ Sorted'
  BY <1>1, <1>9, <1>10, GraphStepRest
<1>12. \A b \in inuse' \ inuse : {b} \cup Interferes[b] \subseteq created'
  BY <1>4
<1>13. Allocated'
  BY <1>2, <1>3, <1>9, <1>12, Existing
<1>14. Graph'
  BY <1>7, <1>8 DEF Graph, P!Core
<1>15. QED
  BY <1>11, <1>13, <1>14 DEF Inv

LEMMA GraphInvariant ==
  ASSUME Inv, NEW t \in Threads, GraphStep(t)
  PROVE  Inv'
BY ReleaseInvariant, TakeInvariant, HeatInvariant, CoolInvariant, ClaimInvariant
   DEF GraphStep

\* The quiet steps keep all of it.
LEMMA QuietInvariant ==
  ASSUME Inv, NEW t \in Threads, QuietStep(t)
  PROVE  Inv'
<1>1. Base' /\ Others(t) /\ SameMaster(t)
  BY QuietBase DEF Inv
<1>2. /\ UNCHANGED <<countVars, free_list, sortVars>> /\ SameData
  BY QuietFrame DEF Inv, Base
<1>3. UNCHANGED <<nodeVars, weightVars, kids>> /\ Best' = Best
  BY <1>2, SameBest DEF SameData
<1>4. Resorting' <=> Resorting
  BY <1>1, SameResorting
<1>5. Graph'
  BY <1>2, <1>3, <1>4 DEF Inv, Graph, P!CoreTypes, P!SigmasExact, P!Exclusion,
    P!FreeListExact, P!HotIsTemporary, P!ZerosExact, P!IsFree, P!Empty,
    P!Hopeless, countVars
<1>6. Barrier' /\ Sorted'
  BY <1>1, <1>2, <1>3, BarrierStays, SortedStays DEF Inv, countVars
<1>7. Allocated'
  <2>1. ASSUME NEW u \in Threads, NEW k \in kids'[u]
        PROVE  Project[k.to] \in P!Scope(cur'[u])
    <3>1. kids[u] # {} /\ pc[u] = "expand" /\ k \in kids[u]
      BY <1>3, <2>1 DEF Inv, Base, Control
    <3>2. kids'[t] = {} \/ (pc'[t] = "expand" /\ pc[t] = "expand")
      BY <1>1, <1>3 DEF Inv, Base, Control
    <3>3. ~(JoinMaster(t) \/ CallForResort(t)) => cur' = cur
      BY DEF QuietStep, NextBlock, LockNext, Busy, Keep, JoinResort, Relock,
        Finish, Wait, PutBack, Wake, SeeDone, SeeFlag, GotNull, Enter, EndExpand,
        LoopTest, WantHot, Spin, LeaveSort, SearchVars
    <3>4. JoinMaster(t) \/ CallForResort(t) => pc[t] # "expand"
      BY DEF JoinMaster, CallForResort
    <3>5. cur'[u] = cur[u]
      BY <1>1, <3>1, <3>3, <3>4 DEF Others
    <3>6. QED
      BY <3>1, <3>5 DEF Inv, Allocated
  <2>2. QED
    BY <1>2, <1>3, <2>1
    DEF Inv, Allocated, countVars, nodeVars, Interferes, G!Interferes, G!Preds
<1>8. QED
  BY <1>1, <1>5, <1>6, <1>7 DEF Inv

-----------------------------------------------------------------------------
(***************************************************************************)
(* The steps on nodes                                                      *)
(***************************************************************************)

\* What a step on nodes leaves alone.
LEMMA NodeFrame ==
  ASSUME NEW t \in Threads, NodeStep(t)
  PROVE  /\ UNCHANGED <<countVars, free_list, sortVars, weightVars, cur, want, ret>>
         /\ UNCHANGED <<final_wt, mutex, done>>
BY DEF NodeStep, TakeNode, AddChild, SetPath, SearchVars, resortVars, sortVars

\* A thread that works on nodes has a block, so that nobody sorts.
LEMMA AtWork ==
  ASSUME Inv, NEW t \in Threads, pc[t] \in Owning
  PROVE  /\ cur[t] \in NBlocks /\ cur[t] \in inuse /\ ~Resorting /\ Unsorted = {}
         /\ \A s \in open : heap_weight[Project[s]] = weight
         /\ \A s \in incons : ~final_weight
<1>1. cur[t] \in NBlocks /\ cur[t] \in inuse
  BY OwnBlock DEF Inv, Base
<1>2. ~Resorting /\ Unsorted = {}
  BY <1>1 DEF Inv, Barrier
<1>3. QED
  BY <1>1, <1>2 DEF Inv, Sorted

\* A child that a thread has still to look at.
LEMMA ChildFacts ==
  ASSUME Inv, NEW t \in Threads, NEW k \in kids[t]
  PROVE  /\ k \in Child /\ k.to \in States /\ k.g \in Nat /\ pc[t] = "expand"
         /\ Project[k.to] \in P!Scope(cur[t]) /\ Project[k.to] \in NBlocks
         /\ g[k.to] \in Nat /\ H[k.to] \in Nat
<1>1. k \in Child
  BY DEF Inv, Base, Types
<1>2. k.to \in States /\ k.g \in Nat
  BY <1>1 DEF Child
<1>3. pc[t] = "expand"
  BY DEF Inv, Base, Control
<1>4. Project[k.to] \in P!Scope(cur[t])
  BY DEF Inv, Allocated
<1>5. QED
  BY <1>1, <1>2, <1>3, <1>4, SpaceAssumption, ARPBNFAssumption DEF Inv, Base, Types

\* The nodes change in the scope of the thread's block only.
InScope(t) ==
  /\ \A s \in States : Project[s] \notin P!Scope(cur[t]) =>
       g'[s] = g[s] /\ (s \in open' <=> s \in open)
  /\ \A n \in NBlocks : n \notin P!Scope(cur[t]) => heap_weight'[n] = heap_weight[n]
  /\ \A s \in open' \cup incons' :
       s \in open \cup incons \/ Project[s] \in P!Scope(cur[t])
  /\ \A k \in kids'[t] : Project[k.to] \in P!Scope(cur[t])

NodeTypes ==
  /\ g \in [States -> Nat] /\ open \subseteq States /\ incons \subseteq States
  /\ heap_weight \in [NBlocks -> Nat]
  /\ kids \in [Threads -> SUBSET Child] /\ sol \in [Threads -> Nat]
  /\ bound \in 0..Infinity /\ pc \in [Threads -> PCs]

NodesSorted ==
  /\ \A s \in open : heap_weight[Project[s]] = weight
  /\ \A s \in incons : ~final_weight

\* A node that is opened finds its heap in order.
LEMMA OpenSorted ==
  ASSUME Types, WeightTypes, NEW s \in States, OpenNode(s), weight' = weight,
         \A o \in open : heap_weight[Project[o]] = weight
  PROVE  /\ heap_weight' \in [NBlocks -> Nat]
         /\ open' = open \cup {s}
         /\ \A n \in NBlocks : n # Project[s] => heap_weight'[n] = heap_weight[n]
         /\ \A o \in open' : heap_weight'[Project[o]] = weight'
<1>1. /\ Project[s] \in NBlocks /\ weight \in Nat
      /\ \A o \in open : o \in States /\ Project[o] \in NBlocks
  BY ARPBNFAssumption DEF Types, WeightTypes
<1>2. CASE G!Empty(Project[s])
  BY <1>1, <1>2 DEF OpenNode, Types
<1>3. CASE ~G!Empty(Project[s])
  <2>1. PICK o \in open : Project[o] = Project[s]
    BY <1>1, <1>3, NotEmpty DEF G!Empty, P!Empty
  <2>2. QED
    BY <1>1, <1>3, <2>1 DEF OpenNode, Types
<1>4. QED
  BY <1>2, <1>3

LEMMA TakeNodeFacts ==
  ASSUME Inv, NEW t \in Threads, TakeNode(t)
  PROVE  InScope(t) /\ NodeTypes' /\ NodesSorted'
<1>1. pc[t] \in Owning
  BY DEF TakeNode, Owning
<1>2. NodesSorted /\ Types /\ kids[t] = {}
  BY <1>1, AtWork DEF NodesSorted, Inv, Base, Control, TakeNode
<1>3. PICK s \in open :
        /\ Project[s] = cur[t]
        /\ \/ Goto(t, "next") /\ UNCHANGED <<kids, sol, open>>
           \/ /\ open' = open \ {s}
              /\ \/ Goto(t, "loop") /\ UNCHANGED <<kids, sol>>
                 \/ ReturnPath(t, g[s]) /\ UNCHANGED kids
                 \/ /\ kids' = [kids EXCEPT ![t] =
                                  {[to |-> e.to, g |-> g[s] + e.cost] : e \in Edges[s]}]
                    /\ Goto(t, "expand") /\ UNCHANGED sol
  BY DEF TakeNode
<1>4. UNCHANGED <<bound, cur, g, incons, heap_weight, weight, final_weight>>
  BY DEF TakeNode, SearchVars, weightVars
<1>5. s \in States /\ g[s] \in Nat
  BY <1>2 DEF Types
<1>6. /\ open' \subseteq open
      /\ \A o \in open : Project[o] # cur[t] => o \in open'
  BY <1>3
<1> DEFINE K == {[to |-> e.to, g |-> g[s] + e.cost] : e \in Edges[s]}
<1>7. /\ K \in SUBSET Child
      /\ \A k \in K : Project[k.to] \in P!Scope(cur[t])
  <2> SUFFICES ASSUME NEW e \in Edges[s]
               PROVE  /\ [to |-> e.to, g |-> g[s] + e.cost] \in Child
                      /\ Project[e.to] \in P!Scope(cur[t])
    OBVIOUS
  <2>1. e.to \in States /\ e.cost \in Nat
    BY <1>5, SpaceAssumption
  <2>2. Project[e.to] \in {Project[s]} \cup Succs[Project[s]]
    BY <1>5, ARPBNFAssumption
  <2>3. QED
    BY <1>3, <1>5, <2>1, <2>2 DEF Child, P!Scope
<1>8. /\ sol' \in [Threads -> Nat] /\ pc' \in [Threads -> PCs]
      /\ kids' = kids \/ kids' = [kids EXCEPT ![t] = K]
  BY <1>2, <1>3, <1>5 DEF ReturnPath, Goto, Types, PCs
<1> HIDE DEF K
<1>9. /\ kids' \in [Threads -> SUBSET Child]
      /\ \A k \in kids'[t] : Project[k.to] \in P!Scope(cur[t])
  <2>1. CASE kids' = kids
    BY <1>2, <2>1 DEF Types
  <2>2. CASE kids' = [kids EXCEPT ![t] = K]
    BY <1>2, <1>7, <2>2 DEF Types
  <2>3. QED
    BY <1>8, <2>1, <2>2
<1>10. InScope(t)
  <2>1. cur[t] \in P!Scope(cur[t])
    BY DEF P!Scope
  <2>2. \A o \in States : Project[o] \notin P!Scope(cur[t]) =>
          g'[o] = g[o] /\ (o \in open' <=> o \in open)
    BY <1>4, <1>6, <2>1
  <2>3. QED
    BY <1>4, <1>6, <1>9, <2>2 DEF InScope
<1>11. NodeTypes'
  BY <1>2, <1>4, <1>6, <1>8, <1>9 DEF NodeTypes, Types
<1>12. NodesSorted'
  BY <1>2, <1>4, <1>6 DEF NodesSorted
<1>13. QED
  BY <1>10, <1>11, <1>12

LEMMA AddChildFacts ==
  ASSUME Inv, NEW t \in Threads, AddChild(t)
  PROVE  /\ InScope(t) /\ NodeTypes' /\ NodesSorted'
         /\ kids'[t] \subseteq kids[t]
<1>1. pc[t] \in Owning
  BY DEF AddChild, Owning
<1>2. /\ NodesSorted /\ Types /\ WeightTypes
      /\ \A k \in kids[t] : Project[k.to] \in P!Scope(cur[t])
  BY <1>1, AtWork DEF NodesSorted, Inv, Base, Allocated
<1>3. PICK k \in kids[t] : Discard(t, k) \/ NewNode(t, k) \/ CheaperPath(t, k)
  BY DEF AddChild
<1>4. UNCHANGED <<bound, cur, weight, final_weight>>
  BY DEF AddChild, SearchVars, weightVars
<1>5. /\ k.to \in States /\ k.g \in Nat /\ kids[t] \subseteq Child
      /\ Project[k.to] \in P!Scope(cur[t]) /\ Project[k.to] \in NBlocks
  BY <1>2, ChildFacts DEF Types
<1>6. /\ pc' \in [Threads -> PCs] /\ sol' \in [Threads -> Nat]
      /\ kids' \in [Threads -> SUBSET Child] /\ kids'[t] \subseteq kids[t]
  <2>1. sol' \in [Threads -> Nat] /\ pc' \in [Threads -> PCs]
    BY <1>2, <1>3, <1>5 DEF Discard, NewNode, CheaperPath, ReturnPath, Goto, Types, PCs
  <2>2. kids' = [kids EXCEPT ![t] = {}] \/ kids' = [kids EXCEPT ![t] = kids[t] \ {k}]
    BY <1>3 DEF Discard, NewNode, CheaperPath
  <2>3. {} \in SUBSET Child /\ kids[t] \ {k} \in SUBSET Child
    BY <1>5
  <2>4. QED
    BY <1>2, <2>1, <2>2, <2>3 DEF Types
<1>7. g' = g \/ g' = [g EXCEPT ![k.to] = k.g]
  BY <1>3 DEF Discard, NewNode, CheaperPath, nodeVars
<1>8. /\ g' \in [States -> Nat]
      /\ \A s \in States : s # k.to => g'[s] = g[s]
  BY <1>2, <1>5, <1>7 DEF Types
<1>9. \/ UNCHANGED <<open, incons, heap_weight>>
      \/ OpenNode(k.to) /\ UNCHANGED incons
      \/ ~final_weight /\ incons' = incons \cup {k.to} /\ UNCHANGED <<open, heap_weight>>
  BY <1>3 DEF Discard, NewNode, CheaperPath, nodeVars
<1>10. /\ heap_weight' \in [NBlocks -> Nat]
       /\ open' \subseteq open \cup {k.to} /\ open \subseteq open'
       /\ incons' \subseteq incons \cup {k.to}
       /\ \A n \in NBlocks : n # Project[k.to] => heap_weight'[n] = heap_weight[n]
       /\ NodesSorted'
  <2>1. CASE UNCHANGED <<open, incons, heap_weight>>
    BY <1>2, <1>4, <2>1 DEF NodesSorted, Types
  <2>2. CASE OpenNode(k.to) /\ UNCHANGED incons
    BY <1>2, <1>4, <1>5, <2>2, OpenSorted DEF NodesSorted
  <2>3. CASE ~final_weight /\ incons' = incons \cup {k.to} /\ UNCHANGED <<open, heap_weight>>
    BY <1>2, <1>4, <2>3 DEF NodesSorted, Types
  <2>4. QED
    BY <1>9, <2>1, <2>2, <2>3
<1>11. InScope(t)
  <2>1. \A s \in States : Project[s] \notin P!Scope(cur[t]) => s # k.to
    BY <1>5
  <2>2. \A n \in NBlocks : n \notin P!Scope(cur[t]) => n # Project[k.to]
    BY <1>5
  <2>3. \A s \in open' \cup incons' : s \in open \cup incons \/ s = k.to
    BY <1>10
  <2>4. \A l \in kids'[t] : Project[l.to] \in P!Scope(cur[t])
    BY <1>2, <1>6
  <2>5. \A s \in States : Project[s] \notin P!Scope(cur[t]) =>
          g'[s] = g[s] /\ (s \in open' <=> s \in open)
    BY <1>8, <1>10, <2>1
  <2>6. \A n \in NBlocks : n \notin P!Scope(cur[t]) => heap_weight'[n] = heap_weight[n]
    BY <1>10, <2>2
  <2>7. \A s \in open' \cup incons' :
          s \in open \cup incons \/ Project[s] \in P!Scope(cur[t])
    BY <1>5, <2>3
  <2>8. QED
    BY <2>4, <2>5, <2>6, <2>7 DEF InScope
<1>12. NodeTypes'
  BY <1>2, <1>4, <1>5, <1>6, <1>8, <1>10 DEF NodeTypes, Types
<1>13. QED
  BY <1>6, <1>10, <1>11, <1>12

LEMMA SetPathFacts ==
  ASSUME Inv, NEW t \in Threads, SetPath(t)
  PROVE  /\ InScope(t) /\ NodeTypes' /\ NodesSorted' /\ UNCHANGED <<nodeVars, kids>>
<1>1. pc[t] \in Owning
  BY DEF SetPath, Owning
<1>2. NodesSorted /\ Types /\ kids[t] = {}
  BY <1>1, AtWork DEF NodesSorted, Inv, Base, Control, SetPath
<1>3. UNCHANGED <<nodeVars, kids, weight, final_weight, cur>>
  BY DEF SetPath, weightVars
<1>4. bound' \in 0..Infinity /\ sol' \in [Threads -> Nat] /\ pc' \in [Threads -> PCs]
  <2>1. sol[t] \in Nat
    BY <1>2 DEF Types
  <2>2. bound' = bound \/ (sol[t] < bound /\ bound' = sol[t])
    BY DEF SetPath
  <2>3. bound' \in 0..Infinity
    BY <1>2, <2>1, <2>2, SpaceAssumption DEF Types
  <2>4. QED
    BY <1>2, <2>3, SpaceAssumption DEF SetPath, Types, Goto, PCs
<1>5. InScope(t)
  BY <1>2, <1>3 DEF InScope, nodeVars
<1>6. NodeTypes' /\ NodesSorted'
  BY <1>2, <1>3, <1>4 DEF NodeTypes, NodesSorted, Types, nodeVars
<1>7. QED
  BY <1>3, <1>5, <1>6

LEMMA NodeStepFacts ==
  ASSUME Inv, NEW t \in Threads, NodeStep(t)
  PROVE  InScope(t) /\ NodeTypes' /\ NodesSorted'
BY TakeNodeFacts, AddChildFacts, SetPathFacts DEF NodeStep

LEMMA NodeInvariant ==
  ASSUME Inv, NEW t \in Threads, NodeStep(t)
  PROVE  Inv'
<1>1. /\ MutexStep(t) /\ OwnControl(t)' /\ SameMaster(t)
      /\ done' = done /\ final_weight' = final_weight
      /\ pc'[t] \in Owning => cur'[t] # NoBlock
      /\ pc'[t] # "set_hot" /\ pc[t] \in Owning
  BY NodeControl DEF Inv, Base, Owning
<1>2. /\ Others(t)
      /\ UNCHANGED <<countVars, free_list, sortVars, weightVars, cur, want, ret>>
      /\ UNCHANGED <<final_wt, mutex, done>>
  BY NodeOthers, NodeFrame DEF Inv, Base
<1>3. InScope(t) /\ NodeTypes' /\ NodesSorted'
  BY NodeStepFacts
<1>4. /\ cur[t] \in NBlocks /\ cur[t] \in inuse /\ ~Resorting
  BY <1>1, AtWork
<1>5. Types' /\ WeightTypes'
  BY <1>2, <1>3 DEF Inv, Base, Types, WeightTypes, LastWeight, NodeTypes, sortVars,
                    weightVars, countVars
<1>6. Control'
  BY <1>1, <1>2, ControlKept DEF Inv, Base
<1>7. Owners'
  BY <1>1, <1>2, OwnersKept DEF OwnerStep, Inv, Base, countVars
<1>8. Resorting' <=> Resorting
  BY <1>1, <1>2, SameResorting
<1>9. P!Core /\ P!ZerosExact
  BY <1>4, CoreOfGraph DEF Inv
<1>10. P!Core'
  <2>1. Best' \in [NBlocks -> 0..Infinity]
    BY <1>5, BestTypeNext
  <2>2. ASSUME NEW n \in NBlocks, Best'[n] # Best[n]
        PROVE  n \in P!Scope(cur[t])
    <3> SUFFICES ASSUME n \notin P!Scope(cur[t]) PROVE FALSE
      OBVIOUS
    <3>1. /\ heap_weight'[n] = heap_weight[n]
          /\ \A s \in States : Project[s] = n =>
               g'[s] = g[s] /\ (s \in open' <=> s \in open)
      BY <1>3 DEF InScope
    <3>2. QED
      BY <1>5, <2>2, <3>1, BestIsLocal DEF Inv, Base
  <2>3. /\ UNCHANGED <<inuse, sigma, hot, sigma_hot, free_list>>
        /\ Infinity \in P!F /\ Best' \in [NBlocks -> P!F]
    BY <1>2, <2>1, SpaceAssumption DEF countVars, P!F
  <2>4. \A b \in NBlocks : Best'[b] # Best[b] => \E n \in inuse : b \in P!Scope(n)
    BY <1>4, <2>2
  <2>5. Infinity <= Infinity
    BY SpaceAssumption
  <2>6. QED
    BY <1>9, <2>3, <2>4, <2>5, GraphAssumption, P!WorkCore
<1>11. P!ZerosExact'
  BY <1>2, <1>9 DEF P!ZerosExact, countVars
<1>12. Graph'
  BY <1>10, <1>11 DEF Graph, P!Core
<1>13. Allocated'
  <2>1. created' = created /\ free_list' = free_list /\ inuse' = inuse /\ cur' = cur
    BY <1>2 DEF countVars
  <2>2. P!Scope(cur[t]) \subseteq created
    <3>1. {cur[t]} \cup Interferes[cur[t]] \subseteq created
      BY <1>4 DEF Inv, Allocated
    <3>2. QED
      BY <1>4, <3>1, SameOperators, GraphAssumption, P!ScopeInterferes
  <2>3. \A s \in open' \cup incons' : Project[s] \in created
    BY <1>3, <2>2 DEF InScope, Inv, Allocated
  <2>4. \A u \in Threads : \A k \in kids'[u] : Project[k.to] \in P!Scope(cur[u])
    BY <1>2, <1>3 DEF InScope, Others, Inv, Allocated
  <2>5. \A b \in inuse' : {b} \cup Interferes[b] \subseteq created'
    BY <2>1 DEF Inv, Allocated
  <2>6. \A u \in Threads : \A k \in kids'[u] : Project[k.to] \in P!Scope(cur'[u])
    BY <2>1, <2>4
  <2>7. free_list' \subseteq created' /\ \A s \in open' \cup incons' : Project[s] \in created'
    BY <2>1, <2>3 DEF Inv, Allocated
  <2>8. QED
    BY <2>5, <2>6, <2>7 DEF Allocated, Interferes, G!Interferes, G!Preds, P!Scope
<1>14. Barrier'
  BY <1>1, <1>2, BarrierStays DEF Inv, countVars
<1>15. Sorted'
  BY <1>3, <1>4, <1>8 DEF Sorted, NodesSorted
<1>16. QED
  BY <1>5, <1>6, <1>7, <1>12, <1>13, <1>14, <1>15 DEF Inv, Base

-----------------------------------------------------------------------------
(***************************************************************************)
(* A resort                                                                *)
(***************************************************************************)

LEMMA SameIsolation == G!NoIsolatedBlock => P!NoIsolatedBlock
BY SameOperators DEF G!NoIsolatedBlock, P!NoIsolatedBlock

\* How much is left to sort is a number.
LEMMA Countable ==
  ASSUME Types
  PROVE  /\ IsFiniteSet(resort_q) /\ IsFiniteSet(Busybody) /\ IsFiniteSet(created)
         /\ Cardinality(resort_q) \in Nat /\ Cardinality(Busybody) \in Nat
         /\ Cardinality(created) \in Nat /\ Pending \in Nat
<1>1. IsFiniteSet(resort_q) /\ IsFiniteSet(Busybody) /\ IsFiniteSet(created)
  BY FS_Subset, ARPBNFAssumption DEF Types, Busybody
<1>2. QED
  BY <1>1, FS_CardinalityType DEF Pending

\* What the steps of a resort do not change.
LEMMA SortFrame ==
  ASSUME NEW t \in Threads, SortStep(t)
  PROVE  /\ UNCHANGED <<countVars, kids, sol, bound, cur, want, final_wt>>
         /\ UNCHANGED <<free_list, done>> \/ EndResort(t)
         /\ UNCHANGED <<nodeVars>> \/ SortBlock(t)
         /\ UNCHANGED <<weightVars>> \/ QueueBlocks(t)
BY DEF SortStep, QueueBlocks, StartSort, Dequeue, SortBlock, EndResort, SameData,
       localVars

\* NBlock::resort.
LEMMA ResortTypes ==
  ASSUME Types, WeightTypes, NEW b \in NBlocks, ResortBlock(b)
  PROVE  /\ g' \in [States -> Nat] /\ open' \subseteq States /\ incons' \subseteq States
         /\ heap_weight' \in [NBlocks -> Nat]
         /\ open' \cup incons' = open \cup incons
         /\ \A s \in open' \cup incons' : g'[s] = g[s]
         /\ \A s \in States : g'[s] = g[s] \/ g'[s] = Infinity
<1>1. /\ open' = open \cup (incons \cap InBlock(b))
      /\ incons' = incons \ InBlock(b)
      /\ g' = [s \in States |->
                 IF s \in InBlock(b) \ (open \cup incons) THEN Infinity ELSE g[s]]
      /\ heap_weight' = [heap_weight EXCEPT ![b] = weight]
  BY DEF ResortBlock
<1>2. open' \subseteq States /\ incons' \subseteq States
      /\ open' \cup incons' = open \cup incons
  BY <1>1 DEF Types
<1>3. g' \in [States -> Nat] /\ heap_weight' \in [NBlocks -> Nat]
  BY <1>1, SpaceAssumption DEF Types, WeightTypes
<1>4. \A s \in States : g'[s] = g[s] \/ g'[s] = Infinity
  BY <1>1
<1>5. \A s \in open' \cup incons' : g'[s] = g[s]
  BY <1>1, <1>2
<1>6. QED
  BY <1>2, <1>3, <1>4, <1>5

LEMMA SortTypes ==
  ASSUME Base, NEW t \in Threads, SortStep(t)
  PROVE  Types' /\ WeightTypes'
<1>1. /\ UNCHANGED <<countVars, kids, sol, bound, cur, want, final_wt>>
      /\ UNCHANGED <<nodeVars>> \/ SortBlock(t)
      /\ UNCHANGED <<weightVars>> \/ QueueBlocks(t)
  BY SortFrame
<1>2. Types /\ WeightTypes
  BY DEF Base
<1>3. WeightTypes'
  <2>1. CASE UNCHANGED <<weightVars>>
    BY <1>2, <2>1 DEF WeightTypes, LastWeight, weightVars
  <2>2. CASE QueueBlocks(t)
    BY <1>2, <2>2, NextWeight DEF QueueBlocks
  <2>3. QED
    BY <1>1, <2>1, <2>2
<1>4. /\ g' \in [States -> Nat] /\ open' \subseteq States /\ incons' \subseteq States
      /\ heap_weight' \in [NBlocks -> Nat]
  <2>1. CASE UNCHANGED <<nodeVars>>
    BY <1>2, <2>1 DEF Types, nodeVars
  <2>2. CASE SortBlock(t)
    <3>1. job[t] \in NBlocks /\ ResortBlock(job[t])
      BY <1>2, <2>2 DEF SortBlock, Types, Blocks
    <3>2. QED
      BY <1>2, <3>1, ResortTypes
  <2>3. QED
    BY <1>1, <2>1, <2>2
<1>5. /\ pc' \in [Threads -> PCs] /\ ret' \in [Threads -> Rets]
      /\ job' \in [Threads -> Blocks] /\ resort_q' \subseteq NBlocks /\ n_to_sort' \in Int
  <2> USE <1>2 DEF Types, Goto, PCs, Rets, Blocks, localVars, SameData
  <2>1. CASE QueueBlocks(t)
    BY <2>1 DEF QueueBlocks
  <2>2. CASE StartSort(t)
    <3>1. Cardinality(created) \in Nat
      BY Countable
    <3>2. QED
      BY <2>2, <3>1 DEF StartSort
  <2>3. CASE Dequeue(t)
    BY <2>3 DEF Dequeue
  <2>4. CASE SortBlock(t)
    BY <2>4 DEF SortBlock
  <2>5. CASE EndResort(t)
    BY <2>5 DEF EndResort
  <2>6. QED
    BY <2>1, <2>2, <2>3, <2>4, <2>5 DEF SortStep
<1>6. QED
  BY <1>1, <1>2, <1>3, <1>4, <1>5 DEF Types, countVars

LEMMA SortBase ==
  ASSUME Base, NEW t \in Threads, SortStep(t)
  PROVE  Base' /\ Others(t)
<1> USE DEF Base
<1>1. Others(t)
  BY SortOthers
<1>2. Types' /\ WeightTypes'
  BY SortTypes
<1>3. /\ MutexStep(t) /\ OwnControl(t)'
      /\ done => done'
      /\ final_weight => final_weight'
      /\ cur' = cur /\ want' = want
      /\ pc'[t] \notin Owning
  BY SortControl
<1>4. inuse' = inuse
  BY SortFrame DEF countVars
<1>5. Control'
  BY <1>1, <1>2, <1>3, ControlKept DEF WeightTypes
<1>6. Owners'
  BY <1>1, <1>3, <1>4, OwnersKept DEF OwnerStep, Owning
<1>7. QED
  BY <1>1, <1>2, <1>5, <1>6

\* The graph does not change: but the values in the heap may.
LEMMA SortGraph ==
  ASSUME Inv, NEW t \in Threads, SortStep(t), ~EndResort(t), Resorting'
  PROVE  Graph' /\ Allocated'
<1>1. /\ UNCHANGED <<countVars, kids, sol, bound, cur, want, final_wt>>
      /\ UNCHANGED <<free_list>>
      /\ UNCHANGED <<nodeVars>> \/ SortBlock(t)
  BY SortFrame
<1>2. Types' /\ Types /\ WeightTypes
  BY SortTypes DEF Inv, Base
<1>3. P!CoreTypes'
  BY <1>1, <1>2, BestTypeNext, SpaceAssumption
  DEF Inv, Graph, P!CoreTypes, countVars, P!F
<1>4. P!SigmasExact' /\ P!Exclusion' /\ P!HotIsTemporary' /\ P!ZerosExact'
  BY <1>1 DEF Inv, Graph, P!SigmasExact, P!Exclusion, P!HotIsTemporary, P!ZerosExact,
              countVars
<1>5. open' \cup incons' = open \cup incons
  <2>1. CASE SortBlock(t)
    <3>1. job[t] \in NBlocks /\ ResortBlock(job[t])
      BY <1>2, <2>1 DEF SortBlock, Types, Blocks
    <3>2. QED
      BY <1>2, <3>1, ResortTypes
  <2>2. QED
    BY <1>1, <2>1 DEF nodeVars
<1>6. Allocated'
  BY <1>1, <1>5 DEF Inv, Allocated, countVars, Interferes, G!Interferes, G!Preds, P!Scope
<1>7. QED
  BY <1>3, <1>4, <1>6 DEF Graph

LEMMA QueueInvariant ==
  ASSUME Inv, G!NoIsolatedBlock, NEW t \in Threads, QueueBlocks(t)
  PROVE  Inv'
<1>1. SortStep(t) /\ ~EndResort(t)
  BY DEF SortStep, QueueBlocks, EndResort
<1>2. Base' /\ Others(t) /\ Types
  BY <1>1, SortBase DEF Inv, Base
<1>3. /\ mutex = NoThread /\ AllSigmaZero /\ pc[t] = "master" /\ Goto(t, "queued")
      /\ resort_q' = created
      /\ UNCHANGED <<countVars, free_list, job, nodeVars>>
  BY DEF QueueBlocks, Lock, localVars
<1>4. ~Resorting
  BY <1>3, NoMaster DEF Inv, Base
<1>5. Unsorted = {} /\ Busybody = {}
  BY <1>4 DEF Inv, Barrier, Unsorted
<1>6. inuse = {}
  <2>1. P!Core /\ P!ZerosExact /\ P!NoIsolatedBlock
    BY <1>4, CoreOfGraph, SameIsolation DEF Inv
  <2>2. num_sigma_zero = P!Cardinality(NBlocks)
    BY <1>3, FiniteSame DEF AllSigmaZero
  <2>3. \A b \in NBlocks : sigma[b] = 0
    BY <2>1, <2>2, GraphAssumption, P!AllZero
  <2>4. QED
    BY <2>1, <2>3, GraphAssumption, P!NothingUsed
<1>7. pc'[t] = "queued" /\ Mastering(t)' /\ Resorting'
  BY <1>2, <1>3 DEF Goto, Types, Mastering, Resorting
<1>8. Graph' /\ Allocated'
  BY <1>1, <1>7, SortGraph
<1>9. Busybody' = {} /\ Unsorted' = created /\ created' = created
  BY <1>3, <1>5 DEF Busybody, Unsorted, countVars
<1>10. Pending' = Cardinality(created')
  <2>1. Cardinality(Busybody') = 0 /\ Cardinality(created) \in Nat
    BY <1>2, <1>9, FS_EmptySet, Countable
  <2>2. QED
    BY <1>3, <1>9, <2>1 DEF Pending
<1>11. Barrier'
  <2>1. \A u \in Threads : ~Sorting(u)'
    <3>1. ASSUME NEW u \in Threads, u # t PROVE ~Sorting(u)'
      BY <1>2, <1>4, <3>1, OthersLocked DEF Resorting, Mastering
    <3>2. QED
      BY <1>7, <3>1 DEF Sorting
  <2>2. inuse' = {} /\ Cardinality(created') <= Cardinality(created')
    BY <1>2, <1>3, <1>6, <1>9, Countable DEF countVars
  <2>3. QED
    BY <1>7, <1>10, <2>1, <2>2 DEF Barrier
<1>12. Sorted'
  <2>1. \A s \in open' \cup incons' : Project[s] \in Unsorted'
    BY <1>3, <1>9 DEF Inv, Allocated, nodeVars
  <2>2. QED
    BY <2>1 DEF Sorted
<1>13. QED
  BY <1>2, <1>8, <1>11, <1>12 DEF Inv

LEMMA StartInvariant ==
  ASSUME Inv, NEW t \in Threads, StartSort(t)
  PROVE  Inv'
<1>1. SortStep(t) /\ ~EndResort(t)
  BY DEF SortStep, StartSort, EndResort
<1>2. Base' /\ Others(t) /\ Types
  BY <1>1, SortBase DEF Inv, Base
<1>3. /\ pc[t] = "queued" /\ Goto(t, "sort") /\ ret' = [ret EXCEPT ![t] = "await"]
      /\ n_to_sort' = Cardinality(created)
      /\ UNCHANGED <<resort_q, job, countVars, weightVars, nodeVars>>
  BY DEF StartSort
<1>4. /\ Mastering(t) /\ Resorting /\ mutex = t
      /\ \A u \in Threads : u # t => ~Mastering(u)
  BY <1>3 DEF Mastering, Resorting, Inv, Base, Control, Locked
<1>5. Mastering(t)' /\ Resorting'
  BY <1>2, <1>3 DEF Goto, Types, Mastering, Sorting, Resorting
<1>6. Graph' /\ Allocated'
  BY <1>1, <1>5, SortGraph
<1>7. Unsorted' = Unsorted /\ Pending' = Pending
  BY <1>3 DEF Unsorted, Pending, Busybody
<1>8. Barrier'
  <2>1. \A u \in Threads : u # t => ~Sorting(u)' /\ pc'[u] # "queued"
    BY <1>2, <1>4, OthersLocked DEF Mastering
  <2>2. pc'[t] # "queued"
    BY <1>2, <1>3 DEF Goto, Types
  <2>3. Pending' <= n_to_sort'
    BY <1>3, <1>7 DEF Inv, Barrier
  <2>4. inuse' = {}
    BY <1>3, <1>4 DEF Inv, Barrier, countVars
  <2>5. QED
    BY <1>5, <2>1, <2>2, <2>3, <2>4 DEF Barrier
<1>9. Sorted'
  BY <1>3, <1>4, <1>5, <1>7 DEF Inv, Sorted, weightVars, nodeVars
<1>10. QED
  BY <1>2, <1>6, <1>8, <1>9 DEF Inv

\* A step that leaves the threads where they are.
LEMMA StayFacts ==
  ASSUME UNCHANGED <<pc, ret>>
  PROVE  /\ Resorting' <=> Resorting
         /\ \A u \in Threads : Sorting(u)' <=> Sorting(u)
         /\ \A u \in Threads : pc'[u] = pc[u]
BY DEF Resorting, Mastering, Sorting

LEMMA DequeueInvariant ==
  ASSUME Inv, NEW t \in Threads, Dequeue(t)
  PROVE  Inv'
<1>1. SortStep(t) /\ ~EndResort(t)
  BY DEF SortStep, Dequeue, EndResort
<1>2. Base' /\ Others(t) /\ Types
  BY <1>1, SortBase DEF Inv, Base
<1>3. PICK b \in resort_q : resort_q' = resort_q \ {b} /\ job' = [job EXCEPT ![t] = b]
  BY DEF Dequeue
<1>4. /\ job[t] = NoBlock /\ UNCHANGED <<pc, ret, countVars, n_to_sort>>
      /\ UNCHANGED <<weightVars, nodeVars>>
  BY DEF Dequeue, SameData
<1>5. b \in NBlocks /\ b # NoBlock
  BY <1>2, ARPBNFAssumption DEF Types
<1>6. /\ \A u \in Threads : job'[u] = IF u = t THEN b ELSE job[u]
      /\ Busybody' = Busybody \cup {t} /\ t \notin Busybody
  BY <1>2, <1>3, <1>4, <1>5 DEF Types, Busybody
<1>7. Unsorted' = Unsorted
  <2>1. {job'[u] : u \in Busybody'} = {job[u] : u \in Busybody} \cup {b}
    <3>1. \A u \in Busybody : u \in Threads /\ u # t
      BY <1>6 DEF Busybody
    <3>2. \A u \in Busybody : job'[u] = job[u]
      BY <1>6, <3>1
    <3>3. job'[t] = b
      BY <1>6
    <3>4. QED
      BY <1>6, <3>2, <3>3
  <2>2. QED
    BY <1>3, <2>1 DEF Unsorted
<1>8. Pending' = Pending
  <2>1. /\ Cardinality(resort_q') = Cardinality(resort_q) - 1
        /\ Cardinality(Busybody') = Cardinality(Busybody) + 1
    BY <1>2, <1>3, <1>6, Countable, FS_RemoveElement, FS_AddElement
  <2>2. Cardinality(resort_q) \in Nat /\ Cardinality(Busybody) \in Nat
    BY <1>2, Countable
  <2>3. QED
    BY <2>1, <2>2 DEF Pending
<1>9. /\ Resorting' <=> Resorting
      /\ \A u \in Threads : Sorting(u)' <=> Sorting(u)
      /\ \A u \in Threads : pc'[u] = pc[u]
  BY <1>4, StayFacts
<1>10. Resorting
  BY <1>3 DEF Inv, Barrier, Unsorted
<1>11. Barrier'
  BY <1>4, <1>7, <1>8, <1>9 DEF Inv, Barrier, countVars
<1>12. Sorted'
  BY <1>4, <1>7, <1>9 DEF Inv, Sorted, weightVars, nodeVars
<1>13. Graph' /\ Allocated'
  BY <1>1, <1>9, <1>10, SortGraph
<1>14. QED
  BY <1>2, <1>11, <1>12, <1>13 DEF Inv

LEMMA SortBlockInvariant ==
  ASSUME Inv, NEW t \in Threads, SortBlock(t)
  PROVE  Inv'
<1>1. SortStep(t) /\ ~EndResort(t)
  BY DEF SortStep, SortBlock, EndResort
<1>2. Base' /\ Others(t) /\ Types /\ WeightTypes
  BY <1>1, SortBase DEF Inv, Base
<1>3. /\ job[t] # NoBlock /\ job' = [job EXCEPT ![t] = NoBlock]
      /\ n_to_sort' = n_to_sort - 1 /\ ResortBlock(job[t])
      /\ UNCHANGED <<pc, ret, countVars, resort_q, weightVars>>
  BY DEF SortBlock
<1>4. PICK b \in NBlocks : job[t] = b
  BY <1>2, <1>3 DEF Types, Blocks
<1>5. /\ \A u \in Threads : job'[u] = IF u = t THEN NoBlock ELSE job[u]
      /\ Busybody' = Busybody \ {t} /\ t \in Busybody
  BY <1>2, <1>3 DEF Types, Busybody
<1>6. Unsorted' \subseteq Unsorted /\ Unsorted \subseteq Unsorted' \cup {b}
  <2>1. \A u \in Busybody' : u \in Busybody /\ job'[u] = job[u]
    BY <1>5 DEF Busybody
  <2>2. {job'[u] : u \in Busybody'} \subseteq {job[u] : u \in Busybody}
    BY <2>1
  <2>3. {job[u] : u \in Busybody} \subseteq {job'[u] : u \in Busybody'} \cup {b}
    <3> SUFFICES ASSUME NEW u \in Busybody, job[u] # b
                 PROVE  job[u] \in {job'[v] : v \in Busybody'}
      OBVIOUS
    <3>1. u \in Busybody'
      BY <1>4, <1>5
    <3>2. QED
      BY <2>1, <3>1
  <2>4. QED
    BY <1>3, <2>2, <2>3 DEF Unsorted
<1>7. Pending' = Pending - 1 /\ Pending \in Nat
  <2>1. Cardinality(Busybody') = Cardinality(Busybody) - 1
    BY <1>2, <1>5, Countable, FS_RemoveElement
  <2>2. Cardinality(resort_q) \in Nat /\ Cardinality(Busybody) \in Nat
    BY <1>2, Countable
  <2>3. QED
    BY <1>3, <2>1, <2>2 DEF Pending
<1>8. /\ Resorting' <=> Resorting
      /\ \A u \in Threads : Sorting(u)' <=> Sorting(u)
      /\ \A u \in Threads : pc'[u] = pc[u]
  BY <1>3, StayFacts
<1>9. Resorting
  BY <1>5 DEF Inv, Barrier, Unsorted
<1>10. Barrier'
  <2>1. \A u \in Threads : Sorting(u)' => Pending' <= n_to_sort'
    <3>1. n_to_sort \in Int
      BY <1>2 DEF Types
    <3>2. QED
      BY <1>3, <1>7, <1>8, <3>1 DEF Inv, Barrier
  <2>2. \A u \in Threads : pc'[u] = "queued" => Pending' <= Cardinality(created')
    <3>1. Cardinality(created) \in Nat /\ created' = created
      BY <1>2, <1>3, Countable DEF countVars
    <3>2. QED
      BY <1>7, <1>8, <3>1 DEF Inv, Barrier
  <2>3. Resorting' => inuse' = {}
    BY <1>3, <1>8 DEF Inv, Barrier, countVars
  <2>4. QED
    BY <1>8, <1>9, <2>1, <2>2, <2>3 DEF Barrier
<1>11. Sorted'
  <2>1. /\ open' = open \cup (incons \cap InBlock(b))
        /\ incons' = incons \ InBlock(b)
        /\ heap_weight' = [heap_weight EXCEPT ![b] = weight]
        /\ weight' = weight
    BY <1>3, <1>4 DEF ResortBlock, weightVars
  <2>2. \A s \in open \cup incons : s \in States /\ Project[s] \in NBlocks
    BY <1>2, ARPBNFAssumption DEF Types
  <2>3. ASSUME NEW s \in open'
        PROVE  heap_weight'[Project[s]] = weight' \/ Project[s] \in Unsorted'
    <3>1. CASE Project[s] = b
      BY <1>2, <2>1, <3>1 DEF Types
    <3>2. CASE Project[s] # b
      <4>1. s \in open /\ heap_weight'[Project[s]] = heap_weight[Project[s]]
        BY <1>2, <2>1, <2>2, <3>2 DEF InBlock, Types
      <4>2. QED
        BY <1>6, <2>1, <3>2, <4>1 DEF Inv, Sorted
    <3>3. QED
      BY <3>1, <3>2
  <2>4. ASSUME NEW s \in incons' PROVE Project[s] \in Unsorted'
    <3>1. s \in incons /\ Project[s] # b
      BY <2>1, <2>2, <2>4 DEF InBlock
    <3>2. QED
      BY <1>6, <1>9, <3>1 DEF Inv, Sorted
  <2>5. QED
    BY <2>3, <2>4 DEF Sorted
<1>12. Graph' /\ Allocated'
  BY <1>1, <1>8, <1>9, SortGraph
<1>13. QED
  BY <1>2, <1>10, <1>11, <1>12 DEF Inv

\* When the master goes on nothing is left to sort, and nothing waits for it.
LEMMA AllSorted ==
  ASSUME Inv, NEW t \in Threads, EndResort(t)
  PROVE  /\ Resorting /\ mutex = t /\ inuse = {}
         /\ Unsorted = {} /\ Busybody = {} /\ incons = {}
         /\ \A u \in Threads : u # t => ~Mastering(u)
<1>1. pc[t] = "await" /\ n_to_sort = 0 /\ Types
  BY DEF EndResort, Inv, Base
<1>2. Sorting(t) /\ Mastering(t) /\ Resorting /\ mutex = t
  BY <1>1 DEF Mastering, Sorting, Resorting, Inv, Base, Control, Locked
<1>3. \A u \in Threads : u # t => ~Mastering(u)
  BY <1>2 DEF Inv, Base, Control, Locked
<1>4. Pending <= 0
  BY <1>1, <1>2 DEF Inv, Barrier
<1>5. Cardinality(resort_q) = 0 /\ Cardinality(Busybody) = 0
  BY <1>1, <1>4, Countable DEF Pending
<1>6. resort_q = {} /\ Busybody = {}
  BY <1>1, <1>5, Countable, FS_EmptySet
<1>7. Unsorted = {}
  BY <1>6 DEF Unsorted
<1>8. QED
  BY <1>2, <1>3, <1>6, <1>7 DEF Inv, Barrier, Sorted

LEMMA EndInvariant ==
  ASSUME Inv, NEW t \in Threads, EndResort(t)
  PROVE  Inv'
<1>1. SortStep(t)
  BY DEF SortStep
<1>2. Base' /\ Others(t) /\ Types
  BY <1>1, SortBase DEF Inv, Base
<1>3. /\ free_list' = FreeBlocks /\ Goto(t, "next")
      /\ UNCHANGED <<countVars, cur, localVars, resort_q, n_to_sort>>
      /\ UNCHANGED <<kids, weightVars, nodeVars>>
  BY DEF EndResort, SameData
<1>4. /\ Resorting /\ mutex = t /\ inuse = {}
      /\ Unsorted = {} /\ Busybody = {} /\ incons = {}
      /\ \A u \in Threads : u # t => ~Mastering(u)
  BY AllSorted
<1>5. \A u \in Threads : ~Mastering(u)'
  <2>1. ~Mastering(t)'
    BY <1>2, <1>3 DEF Goto, Types, Mastering, Sorting
  <2>2. QED
    BY <1>2, <1>4, <2>1, OthersLocked
<1>6. ~Resorting' /\ Unsorted' = {}
  BY <1>3, <1>4, <1>5 DEF Resorting, Unsorted, Busybody, localVars
<1>7. Barrier'
  <2>1. \A u \in Threads : pc'[u] # "queued" /\ ~Sorting(u)'
    BY <1>5 DEF Mastering
  <2>2. QED
    BY <1>6, <2>1 DEF Barrier
<1>8. Sorted'
  BY <1>3, <1>4, <1>6 DEF Inv, Sorted, weightVars, nodeVars
<1>9. Allocated'
  BY <1>3 DEF Inv, Allocated, FreeBlocks, countVars, nodeVars, Interferes,
              G!Interferes, G!Preds, P!Scope
<1>10. Best' = Best
  BY <1>3, SameBest
<1>11. P!FreeListExact'
  <2>1. \A n \in NBlocks : P!IsFree(n) <=> P!IsFree(n)'
    BY <1>3, <1>10 DEF P!IsFree, P!Empty, countVars
  <2>2. ASSUME NEW n \in NBlocks, P!IsFree(n) PROVE n \in created
    <3>1. PICK s \in open : Project[s] = n
      BY <1>2, <2>2, NotEmpty DEF P!IsFree
    <3>2. QED
      BY <3>1 DEF Inv, Allocated
  <2>3. \A n \in NBlocks : n \in free_list' <=> P!IsFree(n)'
    BY <1>3, <2>1, <2>2, SameOperators DEF FreeBlocks
  <2>4. QED
    BY <2>3 DEF P!FreeListExact
<1>12. Graph'
  <2>1. free_list' \subseteq NBlocks
    BY <1>2, <1>3 DEF FreeBlocks, Types
  <2>2. QED
    BY <1>3, <1>10, <1>11, <2>1
    DEF Inv, Graph, P!CoreTypes, P!SigmasExact, P!Exclusion, P!HotIsTemporary,
        P!ZerosExact, countVars
<1>13. QED
  BY <1>2, <1>7, <1>8, <1>9, <1>12 DEF Inv

LEMMA SortInvariant ==
  ASSUME Inv, G!NoIsolatedBlock, NEW t \in Threads, SortStep(t)
  PROVE  Inv'
BY QueueInvariant, StartInvariant, DequeueInvariant, SortBlockInvariant, EndInvariant
   DEF SortStep

-----------------------------------------------------------------------------
(***************************************************************************)
(* The barrier of a resort                                                 *)
(***************************************************************************)

LEMMA InitBase ==
  ASSUME Init
  PROVE  Base /\ ~Resorting /\ Busybody = {}
<1>1. weights \in Seq(Nat \ {0}) /\ weights # <<>>
  BY ARPBNFAssumption DEF Init
<1>2. /\ Len(weights) \in Nat \ {0}
      /\ \A i \in 1..Len(weights) : weights[i] \in Nat \ {0}
  BY <1>1
<1>3. WeightTypes
  <2>1. /\ weight = weights[1] /\ next_weight = 1 /\ final_weight = (weight = 1)
    BY DEF Init
  <2>2. 1 \in 1..Len(weights) /\ Len(weights) \in 1..Len(weights)
    BY <1>2
  <2>3. weights[1] \in Nat \ {0} /\ LastWeight \in Nat \ {0}
    BY <1>2, <2>2 DEF LastWeight
  <2>4. ASSUME final_weight PROVE weight <= LastWeight
    <3>1. weight = 1
      BY <2>1, <2>4
    <3>2. QED
      BY <2>3, <3>1
  <2>5. QED
    BY <1>1, <2>1, <2>2, <2>3, <2>4 DEF WeightTypes
<1>4. Types
  <2>1. /\ g \in [States -> Nat] /\ open \subseteq States /\ incons \subseteq States
        /\ heap_weight \in [NBlocks -> Nat]
    BY <1>3, SpaceAssumption DEF Init, NewGraph, WeightTypes
  <2>2. /\ kids \in [Threads -> SUBSET Child] /\ sol \in [Threads -> Nat]
        /\ bound \in 0..Infinity
    BY SpaceAssumption DEF Init
  <2>3. /\ pc \in [Threads -> PCs] /\ cur \in [Threads -> Blocks]
        /\ want \in [Threads -> [block : Blocks, val : Nat]]
        /\ ret \in [Threads -> Rets] /\ job \in [Threads -> Blocks]
        /\ final_wt \in [Threads -> BOOLEAN]
    BY SpaceAssumption DEF Init, PCs, Blocks, Rets, G!NoWant
  <2>4. created \subseteq NBlocks /\ resort_q \subseteq NBlocks /\ n_to_sort \in Int
    BY SpaceAssumption, ARPBNFAssumption DEF Init, NewGraph
  <2>5. QED
    BY <2>1, <2>2, <2>3, <2>4 DEF Types
<1>5. \A t \in Threads :
        /\ pc[t] = "next" /\ cur[t] = NoBlock /\ kids[t] = {} /\ sol[t] = Infinity
        /\ final_wt[t] = FALSE /\ job[t] = NoBlock
  BY DEF Init
<1>6. Owners /\ Control
  BY <1>5 DEF Owners, Control, Owning, Locked, Mastering, Sorting
<1>7. QED
  BY <1>3, <1>4, <1>5, <1>6 DEF Base, Resorting, Mastering, Sorting, Busybody

LEMMA InitGraph ==
  ASSUME Init
  PROVE  Graph
<1>1. /\ inuse = {} /\ hot = {} /\ open = {Start} /\ g[Start] = 0
      /\ sigma = [b \in NBlocks |-> 0] /\ sigma_hot = [b \in NBlocks |-> 0]
      /\ free_list = {Project[Start]} /\ num_sigma_zero = Cardinality(NBlocks)
      /\ heap_weight = [b \in NBlocks |-> weight]
  BY SpaceAssumption DEF Init, NewGraph
<1>2. Types
  BY InitBase DEF Base
<1>3. Best \in [NBlocks -> 0..Infinity] /\ \A n \in NBlocks : Best[n] \in Vals(n)
  BY <1>2, BestIsLeast
<1>4. Project[Start] \in NBlocks
  BY ARPBNFAssumption, SpaceAssumption
<1>5. HeapKey(Start) < Infinity
  <2>1. weights \in WeightLists /\ weight = weights[1]
    BY DEF Init
  <2>2. weight * H[Start] < Infinity
    BY <2>1, ARPBNFAssumption
  <2>3. HeapKey(Start) = 0 + weight * H[Start]
    BY <1>1, <1>4 DEF HeapKey
  <2>4. weight \in Nat /\ H[Start] \in Nat
    BY InitBase, SpaceAssumption DEF Base, WeightTypes
  <2>5. weight * H[Start] \in Nat
    BY <2>4
  <2>6. QED
    BY <2>2, <2>3, <2>5
<1>6. Best[Project[Start]] # Infinity
  <2>1. Best[Project[Start]] <= HeapKey(Start)
    BY <1>1, <1>2, BestIsLeast
  <2>2. HeapKey(Start) \in Nat /\ Best[Project[Start]] \in Nat
    BY <1>2, <1>3, <1>4, KeyType, SpaceAssumption
  <2>3. QED
    BY <1>5, <2>1, <2>2, SpaceAssumption
<1>7. \A n \in NBlocks : n # Project[Start] => P!Empty(n)
  BY <1>1, <1>2, NotEmpty
<1>8. P!FreeListExact
  BY <1>1, <1>4, <1>6, <1>7
  DEF P!FreeListExact, P!IsFree, P!Empty, P!Hopeless
<1>9. P!CoreTypes
  BY <1>1, <1>3, <1>4, SpaceAssumption DEF P!CoreTypes, P!F
<1>10. P!SigmasExact
  BY <1>1, GraphAssumption, P!CountZero DEF P!SigmasExact
<1>11. P!ZerosExact
  <2>1. {b \in NBlocks : sigma[b] = 0} = NBlocks
    BY <1>1
  <2>2. QED
    BY <1>1, <2>1, FiniteSame DEF P!ZerosExact
<1>12. QED
  BY <1>1, <1>8, <1>9, <1>10, <1>11 DEF Graph, P!Exclusion, P!HotIsTemporary

LEMMA InitInvariant == Init => Inv
<1> SUFFICES ASSUME Init PROVE Inv
  OBVIOUS
<1>1. Base /\ Graph /\ ~Resorting /\ Busybody = {}
  BY InitBase, InitGraph
<1>2. /\ inuse = {} /\ open = {Start} /\ incons = {} /\ resort_q = {}
      /\ free_list = {Project[Start]} /\ created = {Project[Start]}
      /\ kids = [t \in Threads |-> {}] /\ heap_weight = [b \in NBlocks |-> weight]
  BY DEF Init, NewGraph
<1>3. Project[Start] \in NBlocks
  BY ARPBNFAssumption, SpaceAssumption
<1>4. Allocated
  BY <1>2 DEF Allocated
<1>5. Barrier
  BY <1>1, <1>2 DEF Barrier, Unsorted, Resorting, Mastering
<1>6. Sorted
  BY <1>2, <1>3 DEF Sorted
<1>7. QED
  BY <1>1, <1>4, <1>5, <1>6 DEF Inv

LEMMA StutterInvariant ==
  ASSUME Inv, UNCHANGED vars
  PROVE  Inv'
<1> USE DEF vars, countVars, localVars, resortVars, weightVars, nodeVars
<1>1. Best' = Best
  BY SameBest
<1>2. Base'
  BY DEF Inv, Base, Types, WeightTypes, LastWeight, Owners, Control, Locked, Mastering,
         Sorting
<1>3. Resorting' <=> Resorting
  BY DEF Resorting, Mastering, Sorting
<1>4. Graph'
  BY <1>1, <1>3 DEF Inv, Graph, P!CoreTypes, P!SigmasExact, P!Exclusion,
    P!FreeListExact, P!HotIsTemporary, P!ZerosExact, P!IsFree, P!Empty, P!Hopeless
<1>5. Allocated'
  BY DEF Inv, Allocated, Interferes, G!Interferes, G!Preds, P!Scope
<1>6. Unsorted' = Unsorted /\ Pending' = Pending
  BY DEF Unsorted, Pending, Busybody
<1>7. Barrier'
  BY <1>3, <1>6 DEF Inv, Barrier, Sorting
<1>8. Sorted'
  BY <1>3, <1>6 DEF Inv, Sorted
<1>9. QED
  BY <1>2, <1>4, <1>5, <1>7, <1>8 DEF Inv

LEMMA NextInvariant ==
  ASSUME G!NoIsolatedBlock, Inv, [Next]_vars
  PROVE  Inv'
<1>1. CASE UNCHANGED vars
  BY <1>1, StutterInvariant
<1>2. CASE \E t \in Threads : QuietStep(t) \/ GraphStep(t) \/ NodeStep(t) \/ SortStep(t)
  BY <1>2, QuietInvariant, GraphInvariant, NodeInvariant, SortInvariant
<1>3. QED
  BY <1>1, <1>2, StepKinds

LEMMA InvariantHolds ==
  ASSUME G!NoIsolatedBlock
  PROVE  Spec => []Inv
<1>1. Inv /\ [Next]_vars => Inv'
  BY NextInvariant
<1>2. QED
  BY <1>1, InitInvariant, PTL DEF Spec

(***************************************************************************)
(* The barrier of a resort holds: while blocks are being sorted no thread  *)
(* has one, and the heap a thread takes a node from is in order for the    *)
(* weight of the search.  For any number of threads, any projection        *)
(* without isolated blocks, any weights and any domain.                    *)
(***************************************************************************)
THEOREM BarrierHolds ==
  ASSUME G!NoIsolatedBlock
  PROVE  Spec => []SortedForWeight
<1>1. Inv => SortedForWeight
  <2> SUFFICES ASSUME Inv PROVE SortedForWeight
    OBVIOUS
  <2>1. Resorting => inuse = {} /\ \E t \in Threads : mutex = t /\ Mastering(t)
    BY DEF Inv, Barrier, Resorting, Base, Control, Locked
  <2>2. \A t \in Threads : Mastering(t) => pc[t] \notin {"enter", "body"}
    BY DEF Mastering, Sorting
  <2>3. resort_q # {} \/ (\E t \in Threads : job[t] # NoBlock) => Resorting
    BY DEF Inv, Barrier, Unsorted, Busybody
  <2>4. Resorting => mutex # NoThread
    BY <2>1, ARPBNFAssumption
  <2>5. ASSUME NEW s \in open,
               Project[s] \in inuse \/ (Project[s] \in free_list /\ mutex = NoThread)
        PROVE  heap_weight[Project[s]] = weight
    <3>1. ~Resorting
      BY <2>1, <2>4, <2>5
    <3>2. QED
      BY <3>1 DEF Inv, Barrier, Sorted
  <2>6. QED
    BY <2>1, <2>2, <2>3, <2>5 DEF SortedForWeight
<1>2. QED
  BY <1>1, InvariantHolds, PTL

-----------------------------------------------------------------------------
(***************************************************************************)
(* The costs of nodes, children and paths                                  *)
(***************************************************************************)

Real == KidsExact /\ CostsReal /\ Known

\* The costs to go, as numbers.
LEMMA Costs ==
  /\ CostToGo[Start] \in Nat /\ CostToGo[Start] <= Infinity /\ Infinity \in Nat
  /\ \A s \in States : CostToGo[s] \in Nat
  /\ \A s \in Goals : CostToGo[s] = 0
BY CostToGoType, CostToGoBound, SpaceAssumption

LEMMA StepKindFacts ==
  ASSUME Inv, NEW t \in Threads, QuietStep(t) \/ GraphStep(t)
  PROVE  UNCHANGED <<kids, sol, bound, nodeVars>>
<1>1. CASE QuietStep(t)
  BY <1>1, QuietFrame DEF SameData, Inv, Base
<1>2. CASE GraphStep(t)
  BY <1>2, GraphFrame DEF Inv, Base
<1>3. QED
  BY <1>1, <1>2

LEMMA SameReal ==
  ASSUME Real, UNCHANGED <<kids, sol, bound, nodeVars>>
  PROVE  Real'
BY DEF Real, KidsExact, IsChild, CostsReal, Known, nodeVars

\* The children of a node.
LEMMA Children ==
  ASSUME Inv, NEW s \in States, CostToGo[Start] <= g[s] + CostToGo[s],
         NEW e \in Edges[s]
  PROVE  /\ e.to \in States /\ e.cost \in Nat /\ g[s] \in Nat
         /\ CostToGo[Start] <= (g[s] + e.cost) + CostToGo[e.to]
<1>1. e.to \in States /\ e.cost \in Nat /\ g[s] \in Nat
  BY SpaceAssumption DEF Inv, Base, Types
<1>2. CostToGo[s] <= e.cost + CostToGo[e.to]
  BY CostToGoEdge
<1>3. CostToGo[s] \in Nat /\ CostToGo[e.to] \in Nat /\ CostToGo[Start] \in Nat
  BY <1>1, Costs
<1>4. QED
  BY <1>1, <1>2, <1>3

LEMMA TakeNodeKeepsReal ==
  ASSUME Inv, Real, NEW t \in Threads, TakeNode(t)
  PROVE  Real'
<1>1. PICK s \in open :
        /\ \/ UNCHANGED <<kids, sol, open>>
           \/ /\ open' = open \ {s}
              /\ \/ UNCHANGED <<kids, sol>>
                 \/ s \in Goals /\ ReturnPath(t, g[s]) /\ UNCHANGED kids
                 \/ /\ kids' = [kids EXCEPT ![t] =
                                  {[to |-> e.to, g |-> g[s] + e.cost] : e \in Edges[s]}]
                    /\ UNCHANGED sol
  BY DEF TakeNode
<1>2. /\ UNCHANGED <<bound, g, incons>> /\ open' \subseteq open
      /\ Types /\ s \in States /\ g[s] \in Nat
  BY <1>1 DEF TakeNode, Inv, Base, Types
<1>3. CostToGo[Start] <= g[s] + CostToGo[s]
  BY <1>2 DEF Real, CostsReal
<1> DEFINE K == {[to |-> e.to, g |-> g[s] + e.cost] : e \in Edges[s]}
<1>4. \A k \in K : IsChild(k, s, g[s]) /\ CostToGo[Start] <= k.g + CostToGo[k.to]
  <2> SUFFICES ASSUME NEW e \in Edges[s]
               PROVE  /\ \E f \in Edges[s] : e.to = f.to /\ g[s] + e.cost = g[s] + f.cost
                      /\ CostToGo[Start] <= (g[s] + e.cost) + CostToGo[e.to]
    BY DEF IsChild
  <2>1. QED
    BY <1>2, <1>3, Children
<1>5. kids' = kids \/ kids' = [kids EXCEPT ![t] = K]
  BY <1>1
<1> HIDE DEF K
<1>6. KidsExact'
  <2> SUFFICES ASSUME NEW u \in Threads, kids'[u] # {}
               PROVE  \E o \in States : \E c \in Nat : \A k \in kids'[u] : IsChild(k, o, c)
    BY DEF KidsExact, IsChild
  <2>1. CASE kids'[u] = kids[u]
    BY <2>1 DEF Real, KidsExact
  <2>2. CASE kids'[u] = K
    BY <1>2, <1>4, <2>2
  <2>3. QED
    BY <1>2, <1>5, <2>1, <2>2 DEF Types
<1>7. CostsReal'
  <2>1. \A u \in Threads : \A k \in kids'[u] : CostToGo[Start] <= k.g + CostToGo[k.to]
    <3> SUFFICES ASSUME NEW u \in Threads
                 PROVE  \A k \in kids'[u] : CostToGo[Start] <= k.g + CostToGo[k.to]
      OBVIOUS
    <3>1. kids'[u] = kids[u] \/ kids'[u] = K
      BY <1>2, <1>5 DEF Types
    <3>2. QED
      BY <1>4, <3>1 DEF Real, CostsReal
  <2>2. \A u \in Threads : CostToGo[Start] <= sol'[u]
    <3>1. s \in Goals => CostToGo[Start] <= g[s]
      BY <1>2, <1>3, Costs
    <3>2. \A u \in Threads : sol'[u] = sol[u] \/ (s \in Goals /\ sol'[u] = g[s])
      BY <1>1, <1>2 DEF ReturnPath, Types
    <3>3. QED
      BY <3>1, <3>2 DEF Real, CostsReal
  <2>3. QED
    BY <1>2, <2>1, <2>2 DEF Real, CostsReal
<1>8. Known'
  BY <1>2 DEF Real, Known
<1>9. QED
  BY <1>6, <1>7, <1>8 DEF Real

\* What AddChild does to a child k.
ChildStep(t, k) ==
  \/ Discard(t, k)
  \/ k.g + H[k.to] < bound /\ (NewNode(t, k) \/ CheaperPath(t, k))

LEMMA AddChildKeepsReal ==
  ASSUME Inv, Real, NEW t \in Threads, AddChild(t)
  PROVE  Real'
<1>1. PICK k \in kids[t] : ChildStep(t, k)
  BY DEF AddChild, ChildStep
<1>2. /\ k.to \in States /\ k.g \in Nat /\ H[k.to] \in Nat
  BY ChildFacts
<1>3. Types /\ bound \in 0..Infinity /\ bound' = bound /\ Infinity \in Nat
  BY SpaceAssumption DEF Inv, Base, Types, AddChild
<1>4. /\ \A u \in Threads : kids'[u] \subseteq kids[u]
      /\ \A u \in Threads : sol'[u] = sol[u] \/ (k.to \in Goals /\ sol'[u] = k.g)
      /\ \/ g' = g /\ open' \cup incons' \subseteq open \cup incons
         \/ /\ g' = [g EXCEPT ![k.to] = k.g] /\ k.g + H[k.to] < bound
            /\ open' \cup incons' \subseteq open \cup incons \cup {k.to}
  <2>1. CASE Discard(t, k)
    BY <1>3, <2>1 DEF Discard, nodeVars, Types
  <2>2. CASE k.g + H[k.to] < bound /\ NewNode(t, k)
    BY <1>3, <2>2 DEF NewNode, Types, ReturnPath, OpenNode
  <2>3. CASE k.g + H[k.to] < bound /\ CheaperPath(t, k)
    BY <1>3, <2>3 DEF CheaperPath, Types, OpenNode
  <2>4. QED
    BY <1>1, <2>1, <2>2, <2>3 DEF ChildStep
<1>5. KidsExact'
  <2> SUFFICES ASSUME NEW u \in Threads, kids'[u] # {}
               PROVE  \E o \in States : \E c \in Nat : \A l \in kids'[u] : IsChild(l, o, c)
    BY DEF KidsExact, IsChild
  <2>1. kids[u] # {} /\ kids'[u] \subseteq kids[u]
    BY <1>4
  <2>2. PICK o \in States, c \in Nat : \A l \in kids[u] : IsChild(l, o, c)
    BY <2>1 DEF Real, KidsExact
  <2>3. QED
    BY <2>1, <2>2
<1>6. CostToGo[Start] <= k.g + CostToGo[k.to]
  BY DEF Real, CostsReal
<1>7. CostsReal'
  <2>1. \A s \in States : CostToGo[Start] <= g'[s] + CostToGo[s]
    BY <1>3, <1>4, <1>6 DEF Real, CostsReal, Types
  <2>2. \A u \in Threads : CostToGo[Start] <= sol'[u]
    BY <1>2, <1>4, <1>6, Costs DEF Real, CostsReal
  <2>3. \A u \in Threads : \A l \in kids'[u] : CostToGo[Start] <= l.g + CostToGo[l.to]
    BY <1>4 DEF Real, CostsReal
  <2>4. QED
    BY <1>3, <2>1, <2>2, <2>3 DEF Real, CostsReal
<1>8. Known'
  <2> SUFFICES ASSUME NEW s \in open' \cup incons' PROVE g'[s] < Infinity
    BY DEF Known
  <2>1. s \in States
    BY AddChildFacts DEF NodeTypes
  <2>2. CASE g' = g /\ open' \cup incons' \subseteq open \cup incons
    BY <2>2 DEF Real, Known
  <2>3. CASE /\ g' = [g EXCEPT ![k.to] = k.g] /\ k.g + H[k.to] < bound
             /\ open' \cup incons' \subseteq open \cup incons \cup {k.to}
    <3>1. k.g < Infinity
      BY <1>2, <1>3, <2>3
    <3>2. g'[s] = IF s = k.to THEN k.g ELSE g[s]
      BY <1>3, <2>1, <2>3 DEF Types
    <3>3. QED
      BY <2>3, <3>1, <3>2 DEF Real, Known
  <2>4. QED
    BY <1>4, <2>2, <2>3
<1>9. QED
  BY <1>5, <1>7, <1>8 DEF Real

LEMMA SetPathKeepsReal ==
  ASSUME Inv, Real, NEW t \in Threads, SetPath(t)
  PROVE  Real'
<1>1. /\ UNCHANGED <<nodeVars, kids>> /\ sol' = [sol EXCEPT ![t] = Infinity]
      /\ bound' = bound \/ bound' = sol[t]
  BY DEF SetPath
<1>2. sol \in [Threads -> Nat] /\ CostToGo[Start] <= Infinity
  BY Costs DEF Inv, Base, Types
<1>3. QED
  BY <1>1, <1>2 DEF Real, KidsExact, IsChild, CostsReal, Known, nodeVars

LEMMA SortKeepsReal ==
  ASSUME Inv, Real, NEW t \in Threads, SortStep(t)
  PROVE  Real'
<1>1. /\ UNCHANGED <<countVars, kids, sol, bound, cur, want, final_wt>>
      /\ UNCHANGED <<nodeVars>> \/ SortBlock(t)
  BY SortFrame
<1>2. CASE UNCHANGED <<nodeVars>>
  BY <1>1, <1>2, SameReal
<1>3. CASE SortBlock(t)
  <2>1. /\ job[t] \in NBlocks /\ ResortBlock(job[t]) /\ Types /\ WeightTypes
    BY <1>3 DEF SortBlock, Inv, Base, Types, Blocks
  <2>2. /\ open' \cup incons' = open \cup incons
        /\ \A s \in open' \cup incons' : g'[s] = g[s]
        /\ \A s \in States : g'[s] = g[s] \/ g'[s] = Infinity
    BY <2>1, ResortTypes
  <2>3. Known'
    BY <2>2 DEF Real, Known
  <2>4. \A s \in States : CostToGo[Start] <= g'[s] + CostToGo[s]
    BY <2>2, Costs DEF Real, CostsReal
  <2>5. QED
    BY <1>1, <2>3, <2>4 DEF Real, KidsExact, IsChild, CostsReal
<1>4. QED
  BY <1>1, <1>2, <1>3

LEMMA RealNext ==
  ASSUME Inv, Real, [Next]_vars
  PROVE  Real'
<1>1. CASE UNCHANGED vars
  BY <1>1, SameReal DEF vars, localVars
<1>2. CASE \E t \in Threads : QuietStep(t) \/ GraphStep(t)
  BY <1>2, StepKindFacts, SameReal
<1>3. CASE \E t \in Threads : NodeStep(t)
  BY <1>3, TakeNodeKeepsReal, AddChildKeepsReal, SetPathKeepsReal DEF NodeStep
<1>4. CASE \E t \in Threads : SortStep(t)
  BY <1>4, SortKeepsReal
<1>5. QED
  BY <1>1, <1>2, <1>3, <1>4, StepKinds

LEMMA RealInit ==
  ASSUME Init
  PROVE  Real
<1>1. /\ g = [s \in States |-> IF s = Start THEN 0 ELSE Infinity]
      /\ open = {Start} /\ incons = {} /\ bound = Infinity
      /\ \A t \in Threads : kids[t] = {} /\ sol[t] = Infinity
  BY DEF Init, NewGraph
<1>2. \A s \in States : /\ CostToGo[s] \in Nat
                        /\ (g[s] = 0 /\ s = Start) \/ g[s] = Infinity
  BY <1>1, Costs
<1>3. \A s \in States : CostToGo[Start] <= g[s] + CostToGo[s]
  BY <1>2, Costs
<1>4. CostsReal
  BY <1>1, <1>3, Costs DEF CostsReal
<1>5. Known
  BY <1>1, SpaceAssumption DEF Known
<1>6. KidsExact
  BY <1>1 DEF KidsExact
<1>7. QED
  BY <1>4, <1>5, <1>6 DEF Real

-----------------------------------------------------------------------------
(***************************************************************************)
(* The search within the bound                                             *)
(*                                                                         *)
(* A resort closes the list of expanded nodes: their costs are forgotten,  *)
(* so that no invariant of g says what has been expanded.  The proof keeps *)
(* them: D is a table of the least costs with which a state has been       *)
(* reached so far.  A state whose cost in D promises a solution is in an   *)
(* open or an incons list, or it has been expanded at this cost: then its  *)
(* promising children are in the table, or a thread has still to look at   *)
(* them.  This holds until a solution as good as any is found.             *)
(***************************************************************************)

Table(D) ==
  /\ D \in [States -> 0..Infinity] /\ D[Start] = 0
  /\ \A s \in States : D[s] <= g[s]

\* The node of s is still to be expanded, or to be sorted and expanded.
Here(D, s) == s \in open \cup incons /\ g[s] <= D[s]

\* A thread has still to look at a child with the state x that costs v.
Coming(x, v) == \E t \in Threads : \E k \in kids[t] : k.to = x /\ k.g <= v

Handled(D, s) ==
  /\ s \notin Goals
  /\ \A e \in Edges[s] : Promises(e.to, D[s] + e.cost) =>
       D[e.to] <= D[s] + e.cost \/ Coming(e.to, D[s] + e.cost)

Kept(D) == \A s \in States : Promises(s, D[s]) => Here(D, s) \/ Handled(D, s)

\* A solution as good as any is published, or it will be.
Met == \/ bound <= CostToGo[Start]
       \/ \E t \in Threads : pc[t] = "path" /\ sol[t] <= CostToGo[Start]

Search == Met \/ \E D \in [States -> Nat] : Table(D) /\ Kept(D)

\* A step from the table D to the table E.  What was promising stays so.
LEMMA KeptOn ==
  ASSUME Types, NEW D \in [States -> Nat], NEW E \in [States -> Nat],
         Table(D), Kept(D),
         \A s \in States : E[s] <= D[s] /\ E[s] <= g'[s],
         \A s \in States : Promises(s, E[s]) => E[s] = D[s] \/ Here(E, s)',
         \A s \in States : E[s] = D[s] /\ Promises(s, D[s]) /\ Here(D, s) =>
           Here(E, s)' \/ Handled(E, s)',
         \A x \in States : \A v \in Nat : Promises(x, v) /\ Coming(x, v) =>
           Coming(x, v)' \/ E[x] <= v
  PROVE  Table(E)' /\ Kept(E)'
<1>1. Table(E)'
  <2>1. E[Start] = 0
    BY SpaceAssumption DEF Table
  <2>2. \A s \in States : E[s] \in 0..Infinity
    BY SpaceAssumption DEF Table
  <2>3. E \in [States -> 0..Infinity]
    BY <2>2
  <2>4. QED
    BY <2>1, <2>3 DEF Table
<1>2. ASSUME NEW s \in States, Promises(s, E[s]), ~Here(E, s)'
      PROVE  Handled(E, s)'
  <2>1. E[s] = D[s] /\ Promises(s, D[s])
    BY <1>2
  <2>2. CASE Here(D, s)
    BY <1>2, <2>1, <2>2
  <2>3. CASE Handled(D, s)
    <3>1. s \notin Goals
      BY <2>3 DEF Handled
    <3>2. ASSUME NEW e \in Edges[s], Promises(e.to, E[s] + e.cost)
          PROVE  E[e.to] <= E[s] + e.cost \/ Coming(e.to, E[s] + e.cost)'
      <4>1. e.to \in States /\ e.cost \in Nat
        BY SpaceAssumption
      <4>2. E[s] + e.cost \in Nat /\ D[e.to] \in Nat /\ E[e.to] \in Nat
        BY <4>1
      <4>3. D[e.to] <= E[s] + e.cost \/ Coming(e.to, E[s] + e.cost)
        BY <2>1, <2>3, <3>2 DEF Handled
      <4>4. E[e.to] <= D[e.to]
        BY <4>1
      <4>5. CASE D[e.to] <= E[s] + e.cost
        BY <4>2, <4>4, <4>5
      <4>6. CASE Coming(e.to, E[s] + e.cost)
        BY <3>2, <4>1, <4>2, <4>6
      <4>7. QED
        BY <4>3, <4>5, <4>6
    <3>3. QED
      BY <3>1, <3>2 DEF Handled
  <2>4. QED
    BY <2>1, <2>2, <2>3 DEF Kept
<1>3. QED
  BY <1>1, <1>2 DEF Kept

\* A step that loses no node and no child.
LEMMA KeptStays ==
  ASSUME Types, NEW D \in [States -> Nat], Table(D), Kept(D), UNCHANGED kids,
         open \cup incons \subseteq open' \cup incons',
         \A s \in open \cup incons : g'[s] = g[s],
         \A s \in States : D[s] <= g'[s]
  PROVE  Table(D)' /\ Kept(D)'
<1>1. \A s \in States : Here(D, s) => Here(D, s)'
  BY DEF Here
<1>2. \A x \in States : \A v \in Nat : Coming(x, v) => Coming(x, v)'
  BY DEF Coming
<1>3. \A s \in States : D[s] <= D[s]
  OBVIOUS
<1>4. QED
  BY <1>1, <1>2, <1>3, KeptOn

\* A node in a list that promises a solution by the table does so by its cost.
LEMMA HerePromises ==
  ASSUME Types, NEW D \in [States -> Nat], NEW s \in States,
         Here(D, s), Promises(s, D[s])
  PROVE  Promises(s, g[s])
<1>1. g[s] \in Nat /\ D[s] \in Nat /\ g[s] <= D[s]
  BY DEF Here, Types
<1>2. QED
  BY <1>1, PromisesMore

\* Where a node that promises a solution is out of bound, one is found.
LEMMA PromisesMet ==
  ASSUME Admissible, Types, NEW s \in States, NEW v \in Nat, Promises(s, v),
         v + H[s] >= bound
  PROVE  bound <= CostToGo[Start]
<1>1. v + H[s] <= CostToGo[Start]
  BY PromisesBound
<1>2. H[s] \in Nat /\ CostToGo[Start] \in Nat /\ bound \in Nat
  BY Costs, SpaceAssumption DEF Types
<1>3. QED
  BY <1>1, <1>2

(***************************************************************************)
(* What is promising is kept                                               *)
(***************************************************************************)

\* A step that publishes nothing keeps what has been found.
LEMMA MetStays ==
  ASSUME Met, bound' = bound,
         \A t \in Threads : pc[t] = "path" => pc'[t] = "path" /\ sol'[t] = sol[t]
  PROVE  Met'
BY DEF Met

LEMMA PathHasNode ==
  ASSUME NEW t \in Threads, Others(t), pc[t] # "path",
         Met, bound' = bound
  PROVE  Met'
<1>1. \A u \in Threads : pc[u] = "path" => pc'[u] = "path" /\ sol'[u] = sol[u]
  BY DEF Others
<1>2. QED
  BY <1>1, MetStays

\* The steps on the graph and the quiet steps are not taken with a path.
LEMMA OtherStepsMet ==
  ASSUME Inv, NEW t \in Threads, QuietStep(t) \/ GraphStep(t) \/ SortStep(t), Met
  PROVE  Met'
<1>1. Others(t)
  BY QuietOthers, GraphOthers, SortOthers DEF Inv, Base
<1>2. bound' = bound
  BY StepKindFacts, SortFrame
<1>3. pc[t] # "path"
  <2>1. CASE QuietStep(t)
    BY <2>1 DEF QuietStep, NextBlock, LockNext, Busy, Keep, JoinResort, Relock,
      Finish, Wait, PutBack, Wake, SeeDone, SeeFlag, GotNull, Enter, EndExpand,
      LoopTest, WantHot, CallForResort, JoinMaster, Spin, LeaveSort, AtWait, AtTest
  <2>2. CASE GraphStep(t)
    BY <2>2 DEF GraphStep, Release, Take, SetHot, WontRelease, ClaimResort, AtWait,
      AtTest
  <2>3. CASE SortStep(t)
    BY <2>3 DEF SortStep, QueueBlocks, StartSort, Dequeue, SortBlock, EndResort
  <2>4. QED
    BY <2>1, <2>2, <2>3
<1>4. QED
  BY <1>1, <1>2, <1>3, PathHasNode

LEMMA OtherStepsKept ==
  ASSUME Inv, NEW t \in Threads, QuietStep(t) \/ GraphStep(t) \/ SortStep(t),
         NEW D \in [States -> Nat], Table(D), Kept(D)
  PROVE  Table(D)' /\ Kept(D)'
<1>1. Types
  BY DEF Inv, Base
<1>2. kids' = kids
  BY StepKindFacts, SortFrame
<1>3. CASE UNCHANGED nodeVars
  BY <1>1, <1>2, <1>3, KeptStays DEF nodeVars, Table
<1>4. CASE SortBlock(t)
  <2>1. job[t] \in NBlocks /\ ResortBlock(job[t]) /\ WeightTypes
    BY <1>4 DEF SortBlock, Inv, Base, Types, Blocks
  <2>2. /\ open' \cup incons' = open \cup incons
        /\ \A s \in open' \cup incons' : g'[s] = g[s]
        /\ \A s \in States : g'[s] = g[s] \/ g'[s] = Infinity
    BY <1>1, <2>1, ResortTypes
  <2>3. \A s \in open \cup incons : g'[s] = g[s]
    BY <2>2
  <2>4. \A s \in States : D[s] <= g'[s]
    BY <2>2, SpaceAssumption DEF Table
  <2>5. QED
    BY <1>1, <1>2, <2>2, <2>3, <2>4, KeptStays
<1>5. QED
  BY <1>2, <1>3, <1>4, StepKindFacts, SortFrame

\* set_path: a path as good as any makes the bound so.
LEMMA SetPathMet ==
  ASSUME Inv, NEW t \in Threads, SetPath(t), Met
  PROVE  Met'
<1>1. /\ \/ bound' = sol[t] /\ sol[t] < bound
         \/ bound' = bound /\ sol[t] >= bound
      /\ Others(t) /\ Types
  BY NodeOthers DEF SetPath, NodeStep, Inv, Base
<1>2. bound \in Nat /\ sol[t] \in Nat /\ CostToGo[Start] \in Nat
  BY <1>1, Costs DEF Types
<1>3. CASE bound <= CostToGo[Start] \/ sol[t] <= CostToGo[Start]
  <2>1. bound' <= CostToGo[Start]
    BY <1>1, <1>2, <1>3
  <2>2. QED
    BY <2>1 DEF Met
<1>4. CASE \E u \in Threads : u # t /\ pc[u] = "path" /\ sol[u] <= CostToGo[Start]
  BY <1>1, <1>4 DEF Met, Others
<1>5. QED
  BY <1>3, <1>4 DEF Met

LEMMA SetPathKept ==
  ASSUME Inv, NEW t \in Threads, SetPath(t),
         NEW D \in [States -> Nat], Table(D), Kept(D)
  PROVE  Table(D)' /\ Kept(D)'
<1>1. UNCHANGED <<nodeVars, kids>> /\ Types
  BY DEF SetPath, Inv, Base
<1>2. QED
  BY <1>1, KeptStays DEF nodeVars, Table

(***************************************************************************)
(* A node is taken from the heap                                           *)
(***************************************************************************)

LEMMA TakeNodeMet ==
  ASSUME Inv, NEW t \in Threads, TakeNode(t), Met
  PROVE  Met'
<1>1. bound' = bound /\ pc[t] # "path" /\ Others(t)
  BY NodeOthers DEF TakeNode, NodeStep, Inv, Base
<1>2. QED
  BY <1>1, PathHasNode

\* Only the node that is taken leaves its list, and the thread has no child.
LEMMA DropNode ==
  ASSUME Inv, NEW t \in Threads, NEW s \in States,
         NEW D \in [States -> Nat], Table(D), Kept(D),
         kids[t] = {}, \A u \in Threads : u # t => kids'[u] = kids[u],
         UNCHANGED <<g, incons>>, open \ {s} \subseteq open',
         Promises(s, D[s]) /\ Here(D, s) => Here(D, s)' \/ Handled(D, s)'
  PROVE  Table(D)' /\ Kept(D)'
<1>1. Types
  BY DEF Inv, Base
<1>2. \A x \in States : x # s /\ Here(D, x) => Here(D, x)'
  BY DEF Here
<1>3. \A x \in States : \A v \in Nat : Coming(x, v) => Coming(x, v)'
  BY DEF Coming
<1>4. \A x \in States : D[x] <= D[x] /\ D[x] <= g'[x]
  BY DEF Table
<1>5. \A x \in States : D[x] = D[x] /\ Promises(x, D[x]) /\ Here(D, x) =>
        Here(D, x)' \/ Handled(D, x)'
  BY <1>2
<1>6. QED
  BY <1>1, <1>3, <1>4, <1>5, KeptOn

\* The node is expanded: all its children are still to be looked at.
LEMMA ExpandHandled ==
  ASSUME Inv, NEW t \in Threads, NEW s \in States, s \notin Goals,
         NEW D \in [States -> Nat], Here(D, s),
         kids'[t] = {[to |-> e.to, g |-> g[s] + e.cost] : e \in Edges[s]}
  PROVE  Handled(D, s)'
<1>1. g[s] \in Nat /\ D[s] \in Nat /\ g[s] <= D[s]
  BY DEF Here, Inv, Base, Types
<1>2. ASSUME NEW e \in Edges[s] PROVE Coming(e.to, D[s] + e.cost)'
  <2>1. e.cost \in Nat /\ g[s] + e.cost <= D[s] + e.cost
    BY <1>1, SpaceAssumption
  <2>2. [to |-> e.to, g |-> g[s] + e.cost] \in kids'[t]
    OBVIOUS
  <2>3. QED
    BY <2>1, <2>2 DEF Coming
<1>3. QED
  BY <1>2 DEF Handled

LEMMA TakeNodeKept ==
  ASSUME Admissible, Inv, NEW t \in Threads, TakeNode(t),
         NEW D \in [States -> Nat], Table(D), Kept(D)
  PROVE  Met' \/ (Table(D)' /\ Kept(D)')
<1>1. PICK s \in open :
        \/ UNCHANGED <<kids, open>>
        \/ GetF(s) >= bound /\ open' = open \ {s} /\ UNCHANGED kids
        \/ /\ s \in Goals /\ ReturnPath(t, g[s])
           /\ open' = open \ {s} /\ UNCHANGED kids
        \/ /\ s \notin Goals /\ open' = open \ {s}
           /\ kids' = [kids EXCEPT ![t] =
                         {[to |-> e.to, g |-> g[s] + e.cost] : e \in Edges[s]}]
  BY DEF TakeNode
<1>2. /\ UNCHANGED <<bound, g, incons>> /\ Types /\ s \in States /\ kids[t] = {}
      /\ \A u \in Threads : u # t => kids'[u] = kids[u]
  BY NodeOthers DEF TakeNode, NodeStep, Inv, Base, Types, Control, Others
<1>3. open \ {s} \subseteq open'
  BY <1>1
<1>4. CASE ~(Promises(s, D[s]) /\ Here(D, s)) \/ s \in open'
  <2>1. Here(D, s) /\ s \in open' => Here(D, s)'
    BY <1>2 DEF Here
  <2>2. QED
    BY <1>2, <1>3, <1>4, <2>1, DropNode
<1>5. CASE Promises(s, D[s]) /\ Here(D, s) /\ s \notin open'
  <2>1. Promises(s, g[s]) /\ g[s] \in Nat /\ CostToGo[Start] \in Nat
    BY <1>2, <1>5, HerePromises, Costs DEF Types
  <2>2. CASE GetF(s) >= bound
    BY <1>2, <2>1, <2>2, PromisesMet DEF GetF, Met
  <2>3. CASE s \in Goals /\ ReturnPath(t, g[s])
    <3>1. g[s] <= CostToGo[Start]
      BY <2>1, <2>3, <1>2, PromisesCost, Costs
    <3>2. sol'[t] = g[s] /\ pc'[t] = "path"
      BY <1>2, <2>3 DEF ReturnPath, Goto, Types
    <3>3. QED
      BY <3>1, <3>2 DEF Met
  <2>4. CASE /\ s \notin Goals
             /\ kids' = [kids EXCEPT ![t] =
                           {[to |-> e.to, g |-> g[s] + e.cost] : e \in Edges[s]}]
    <3>1. kids'[t] = {[to |-> e.to, g |-> g[s] + e.cost] : e \in Edges[s]}
      BY <1>2, <2>4 DEF Types
    <3>2. Handled(D, s)'
      BY <1>2, <1>5, <2>4, <3>1, ExpandHandled
    <3>3. QED
      BY <1>2, <1>3, <3>2, DropNode
  <2>5. QED
    BY <1>1, <1>5, <2>2, <2>3, <2>4
<1>6. QED
  BY <1>4, <1>5

(***************************************************************************)
(* A child is looked at                                                    *)
(***************************************************************************)

LEMMA AddChildMet ==
  ASSUME Inv, NEW t \in Threads, AddChild(t), Met
  PROVE  Met'
<1>1. bound' = bound /\ pc[t] # "path" /\ Others(t)
  BY NodeOthers DEF AddChild, NodeStep, Inv, Base
<1>2. QED
  BY <1>1, PathHasNode

\* The children other than k are still to be looked at.
LEMMA OthersComing ==
  ASSUME Types, NEW t \in Threads, NEW k \in kids[t],
         kids' = [kids EXCEPT ![t] = kids[t] \ {k}],
         NEW x \in States, NEW v \in Nat, Coming(x, v)
  PROVE  Coming(x, v)' \/ (k.to = x /\ k.g <= v)
<1>0. PICK u \in Threads : \E l \in kids[u] : l.to = x /\ l.g <= v
  BY DEF Coming
<1>1. PICK l \in kids[u] : l.to = x /\ l.g <= v
  BY <1>0
<1>2. CASE l = k
  BY <1>1, <1>2
<1>3. CASE l # k
  <2>1. l \in kids'[u]
    BY <1>1, <1>3 DEF Types
  <2>2. QED
    BY <1>1, <2>1 DEF Coming
<1>4. QED
  BY <1>2, <1>3

\* A child that is discarded is in the table, or out of bound.
LEMMA DiscardKept ==
  ASSUME Admissible, Inv, NEW t \in Threads, NEW k \in kids[t], Discard(t, k),
         bound' = bound, NEW D \in [States -> Nat], Table(D), Kept(D)
  PROVE  Met' \/ (Table(D)' /\ Kept(D)')
<1>1. /\ Types /\ k.to \in States /\ k.g \in Nat
      /\ UNCHANGED nodeVars /\ kids' = [kids EXCEPT ![t] = kids[t] \ {k}]
  BY ChildFacts DEF Discard, Inv, Base
<1>2. \A s \in States : Here(D, s) => Here(D, s)'
  BY <1>1 DEF Here, nodeVars
<1>3. \A s \in States : D[s] <= D[s] /\ D[s] <= g'[s]
  BY <1>1 DEF Table, nodeVars
<1>4. CASE g[k.to] <= k.g \/ ~Promises(k.to, k.g)
  <2>1. ASSUME NEW x \in States, NEW v \in Nat, Promises(x, v), Coming(x, v)
        PROVE  Coming(x, v)' \/ D[x] <= v
    <3>1. CASE k.to = x /\ k.g <= v
      <4>1. Promises(k.to, k.g)
        BY <1>1, <2>1, <3>1, PromisesMore
      <4>2. D[x] <= g[x] /\ g[x] <= k.g /\ D[x] \in Nat /\ g[x] \in Nat
        BY <1>1, <1>4, <3>1, <4>1 DEF Table, Types
      <4>3. QED
        BY <1>1, <3>1, <4>2
    <3>2. QED
      BY <1>1, <2>1, <3>1, OthersComing
  <2>2. QED
    BY <1>1, <1>2, <1>3, <2>1, KeptOn
<1>5. CASE k.g + H[k.to] >= bound /\ Promises(k.to, k.g)
  BY <1>1, <1>5, PromisesMet DEF Met
<1>6. QED
  BY <1>4, <1>5 DEF Discard

\* The table with the cost of a child.
LEMMA CheaperTable ==
  ASSUME NEW D \in [States -> Nat], NEW x \in States, NEW v \in Nat
  PROVE  \E E \in [States -> Nat] :
           /\ \A s \in States : E[s] <= D[s] /\ (s # x => E[s] = D[s])
           /\ E[x] <= v /\ (E[x] = D[x] \/ E[x] = v)
<1>1. CASE D[x] <= v
  BY <1>1
<1>2. CASE ~(D[x] <= v)
  <2> DEFINE E == [D EXCEPT ![x] = v]
  <2>1. E \in [States -> Nat] /\ E[x] = v /\ \A s \in States : s # x => E[s] = D[s]
    OBVIOUS
  <2>2. v <= D[x] /\ \A s \in States : D[s] <= D[s]
    BY <1>2
  <2> HIDE DEF E
  <2>3. \A s \in States : E[s] <= D[s]
    BY <2>1, <2>2
  <2>4. QED
    BY <2>1, <2>3
<1>3. QED
  BY <1>1, <1>2

\* A child that is added to a list, where it is improved, or was not known.
LEMMA AddedKept ==
  ASSUME Inv, NEW t \in Threads, NEW k \in kids[t],
         kids' = [kids EXCEPT ![t] = kids[t] \ {k}],
         g' = [g EXCEPT ![k.to] = k.g], k.g <= g[k.to],
         open \cup incons \cup {k.to} \subseteq open' \cup incons',
         NEW D \in [States -> Nat], Table(D), Kept(D)
  PROVE  \E E \in [States -> Nat] : Table(E)' /\ Kept(E)'
<1>1. Types /\ k.to \in States /\ k.g \in Nat
  BY ChildFacts DEF Inv, Base
<1>2. PICK E \in [States -> Nat] :
        /\ \A s \in States : E[s] <= D[s] /\ (s # k.to => E[s] = D[s])
        /\ E[k.to] <= k.g /\ (E[k.to] = D[k.to] \/ E[k.to] = k.g)
  BY <1>1, CheaperTable
<1>3. \A s \in States : g'[s] = IF s = k.to THEN k.g ELSE g[s]
  BY <1>1 DEF Types
<1>4. \A s \in States : E[s] <= D[s] /\ E[s] <= g'[s]
  BY <1>2, <1>3 DEF Table
<1>5. \A s \in States : Promises(s, E[s]) => E[s] = D[s] \/ Here(E, s)'
  BY <1>1, <1>2, <1>3 DEF Here
<1>6. ASSUME NEW s \in States, E[s] = D[s], Here(D, s) PROVE Here(E, s)'
  <2>1. s \in open' \cup incons' /\ g[s] <= E[s]
    BY <1>6 DEF Here
  <2>2. g'[s] <= g[s] /\ g'[s] \in Nat /\ g[s] \in Nat /\ E[s] \in Nat
    BY <1>1, <1>3 DEF Types
  <2>3. g'[s] <= E[s]
    BY <2>1, <2>2
  <2>4. QED
    BY <2>1, <2>3 DEF Here
<1>7. ASSUME NEW x \in States, NEW v \in Nat, Coming(x, v)
      PROVE  Coming(x, v)' \/ E[x] <= v
  <2>1. CASE k.to = x /\ k.g <= v
    BY <1>1, <1>2, <2>1
  <2>2. QED
    BY <1>1, <1>7, <2>1, OthersComing
<1>8. QED
  BY <1>1, <1>4, <1>5, <1>6, <1>7, KeptOn

(***************************************************************************)
(* A goal among the children ends the expansion: the other children are    *)
(* lost.  None of them promises more than the goal, because an edge to a   *)
(* goal is a cheapest way to one.                                          *)
(***************************************************************************)
LEMMA SiblingsPromiseNothing ==
  ASSUME GoalEdgesAreShortest, Inv, Real, NEW t \in Threads, NEW k \in kids[t],
         k.to \in Goals, NEW l \in kids[t], Promises(l.to, l.g)
  PROVE  k.g <= CostToGo[Start]
<1>1. l.to \in States /\ l.g \in Nat
  BY ChildFacts
<1>2. l.g + CostToGo[l.to] <= CostToGo[Start]
  BY <1>1, PromisesCost
<1>3. PICK s \in States, c \in Nat : \A m \in kids[t] : IsChild(m, s, c)
  BY DEF Real, KidsExact
<1>4. PICK e \in Edges[s] : k.to = e.to /\ k.g = c + e.cost
  BY <1>3 DEF IsChild
<1>5. PICK f \in Edges[s] : l.to = f.to /\ l.g = c + f.cost
  BY <1>3 DEF IsChild
<1>6. e.cost = CostToGo[s]
  BY <1>4 DEF GoalEdgesAreShortest
<1>7. CostToGo[s] <= f.cost + CostToGo[f.to]
  BY CostToGoEdge
<1>8. /\ f.cost \in Nat /\ CostToGo[s] \in Nat /\ CostToGo[f.to] \in Nat
      /\ CostToGo[Start] \in Nat
  BY <1>1, <1>5, Costs, SpaceAssumption
<1>9. QED
  BY <1>2, <1>4, <1>5, <1>6, <1>7, <1>8

LEMMA GoalChildKept ==
  ASSUME GoalEdgesAreShortest, Inv, Real, NEW t \in Threads, NEW k \in kids[t],
         k.to \in Goals, NewNode(t, k),
         NEW D \in [States -> Nat], Table(D), Kept(D)
  PROVE  Met' \/ \E E \in [States -> Nat] : Table(E)' /\ Kept(E)'
<1>1. /\ Types /\ k.to \in States /\ k.g \in Nat /\ g[k.to] = Infinity
      /\ g' = [g EXCEPT ![k.to] = k.g] /\ ReturnPath(t, k.g)
      /\ kids' = [kids EXCEPT ![t] = {}] /\ UNCHANGED <<open, incons>>
  BY ChildFacts DEF NewNode, Inv, Base
<1>2. CASE k.g <= CostToGo[Start]
  <2>1. sol'[t] = k.g /\ pc'[t] = "path"
    BY <1>1 DEF ReturnPath, Goto, Types
  <2>2. QED
    BY <1>2, <2>1 DEF Met
<1>3. CASE ~(k.g <= CostToGo[Start])
  <2>1. \A l \in kids[t] : ~Promises(l.to, l.g)
    BY <1>3, SiblingsPromiseNothing
  <2>2. PICK E \in [States -> Nat] :
          /\ \A s \in States : E[s] <= D[s] /\ (s # k.to => E[s] = D[s])
          /\ E[k.to] <= k.g /\ (E[k.to] = D[k.to] \/ E[k.to] = k.g)
    BY <1>1, CheaperTable
  <2>3. \A s \in States : g'[s] = IF s = k.to THEN k.g ELSE g[s]
    BY <1>1 DEF Types
  <2>4. \A s \in States : E[s] <= D[s] /\ E[s] <= g'[s]
    BY <2>2, <2>3 DEF Table
  <2>5. \A s \in States : Promises(s, E[s]) => E[s] = D[s]
    BY <2>1, <2>2
  <2>6. k.to \notin open \cup incons
    BY <1>1, SpaceAssumption DEF Real, Known
  <2>7. ASSUME NEW s \in States, E[s] = D[s], Here(D, s) PROVE Here(E, s)'
    BY <1>1, <2>3, <2>6, <2>7 DEF Here
  <2>8. ASSUME NEW x \in States, NEW v \in Nat, Promises(x, v), Coming(x, v)
        PROVE  Coming(x, v)'
    <3>0. PICK u \in Threads : \E l \in kids[u] : l.to = x /\ l.g <= v
      BY <2>8 DEF Coming
    <3>1. PICK l \in kids[u] : l.to = x /\ l.g <= v
      BY <3>0
    <3>2. l.g \in Nat /\ Promises(l.to, l.g)
      BY <2>8, <3>1, ChildFacts, PromisesMore
    <3>3. u # t
      BY <2>1, <3>2
    <3>4. l \in kids'[u]
      BY <1>1, <3>3 DEF Types
    <3>5. QED
      BY <3>1, <3>4 DEF Coming
  <2>9. QED
    BY <1>1, <2>4, <2>5, <2>7, <2>8, KeptOn
<1>4. QED
  BY <1>2, <1>3

LEMMA AddChildKept ==
  ASSUME Admissible, GoalEdgesAreShortest, Inv, Real, NEW t \in Threads, AddChild(t),
         NEW D \in [States -> Nat], Table(D), Kept(D)
  PROVE  Met' \/ \E E \in [States -> Nat] : Table(E)' /\ Kept(E)'
<1>1. PICK k \in kids[t] : ChildStep(t, k)
  BY DEF AddChild, ChildStep
<1>2. bound' = bound /\ Types /\ k.to \in States /\ k.g \in Nat /\ H[k.to] \in Nat
  BY ChildFacts DEF AddChild, Inv, Base
<1>3. CASE Discard(t, k)
  BY <1>2, <1>3, DiscardKept
<1>4. CASE NewNode(t, k) /\ k.to \in Goals
  BY <1>4, GoalChildKept
<1>5. CASE k.g + H[k.to] < bound /\ NewNode(t, k) /\ k.to \notin Goals
  <2>1. /\ kids' = [kids EXCEPT ![t] = kids[t] \ {k}]
        /\ g' = [g EXCEPT ![k.to] = k.g] /\ g[k.to] = Infinity
        /\ open \cup incons \cup {k.to} \subseteq open' \cup incons'
    BY <1>5 DEF NewNode, OpenNode
  <2>2. k.g <= g[k.to]
    BY <1>2, <1>5, <2>1, SpaceAssumption DEF Types
  <2>3. QED
    BY <2>1, <2>2, AddedKept
<1>6. CASE CheaperPath(t, k)
  <2>1. /\ kids' = [kids EXCEPT ![t] = kids[t] \ {k}]
        /\ g' = [g EXCEPT ![k.to] = k.g] /\ g[k.to] > k.g
        /\ open \cup incons \cup {k.to} \subseteq open' \cup incons'
    BY <1>6 DEF CheaperPath, OpenNode
  <2>2. k.g <= g[k.to]
    BY <1>2, <2>1 DEF Types
  <2>3. QED
    BY <2>1, <2>2, AddedKept
<1>7. QED
  BY <1>1, <1>3, <1>4, <1>5, <1>6 DEF ChildStep

LEMMA SearchNext ==
  ASSUME Admissible, GoalEdgesAreShortest, Inv, Real, Search, [Next]_vars
  PROVE  Search'
<1>1. CASE UNCHANGED vars
  BY <1>1 DEF Search, Met, Table, Kept, Here, Handled, Coming, vars, localVars, nodeVars
<1>2. CASE \E t \in Threads : QuietStep(t) \/ GraphStep(t) \/ SortStep(t)
  <2>1. PICK t \in Threads : QuietStep(t) \/ GraphStep(t) \/ SortStep(t)
    BY <1>2
  <2>2. CASE Met
    BY <2>1, <2>2, OtherStepsMet DEF Search
  <2>3. CASE \E D \in [States -> Nat] : Table(D) /\ Kept(D)
    BY <2>1, <2>3, OtherStepsKept DEF Search
  <2>4. QED
    BY <2>2, <2>3 DEF Search
<1>3. CASE \E t \in Threads : NodeStep(t)
  <2>1. PICK t \in Threads : TakeNode(t) \/ AddChild(t) \/ SetPath(t)
    BY <1>3 DEF NodeStep
  <2>2. CASE Met
    BY <2>1, <2>2, TakeNodeMet, AddChildMet, SetPathMet DEF Search
  <2>3. CASE \E D \in [States -> Nat] : Table(D) /\ Kept(D)
    BY <2>1, <2>3, TakeNodeKept, AddChildKept, SetPathKept DEF Search
  <2>4. QED
    BY <2>2, <2>3 DEF Search
<1>4. QED
  BY <1>1, <1>2, <1>3, StepKinds

LEMMA SearchInit ==
  ASSUME Init
  PROVE  Search
<1>1. /\ g = [s \in States |-> IF s = Start THEN 0 ELSE Infinity]
      /\ open = {Start} /\ incons = {} /\ bound = Infinity
  BY DEF Init, NewGraph
<1>2. CASE CostToGo[Start] = Infinity
  BY <1>1, <1>2, SpaceAssumption DEF Search, Met
<1>3. CASE CostToGo[Start] < Infinity
  <2>1. PICK D \in [States -> Nat] : D = g
    BY <1>1, SpaceAssumption
  <2>2. /\ D[Start] = 0
        /\ \A s \in States : D[s] \in 0..Infinity /\ D[s] <= g[s]
        /\ \A s \in States : s # Start => D[s] = Infinity
    BY <1>1, <2>1, SpaceAssumption
  <2>3. D \in [States -> 0..Infinity]
    BY <2>1, <2>2
  <2>4. Table(D)
    BY <2>2, <2>3 DEF Table
  <2>5. ASSUME NEW s \in States, Promises(s, D[s]) PROVE s = Start
    <3>1. ~(Infinity + CostToGo[s] <= CostToGo[Start])
      BY <1>3, Costs
    <3>2. QED
      BY <2>2, <2>5, <3>1, PromisesCost, SpaceAssumption
  <2>6. Here(D, Start)
    BY <1>1, <2>2, SpaceAssumption DEF Here
  <2>7. QED
    BY <2>4, <2>5, <2>6 DEF Search, Kept
<1>4. QED
  BY <1>2, <1>3, Costs

-----------------------------------------------------------------------------
(***************************************************************************)
(* The end of the search                                                   *)
(***************************************************************************)

\* When no block is in use no thread has a child or a path.
LEMMA NobodyAtWork ==
  ASSUME Inv, inuse = {}
  PROVE  \A t \in Threads : kids[t] = {} /\ pc[t] # "path"
<1> SUFFICES ASSUME NEW t \in Threads PROVE kids[t] = {} /\ pc[t] # "path"
  OBVIOUS
<1>1. cur[t] = NoBlock
  BY DEF Inv, Base, Owners
<1>2. pc[t] \notin Owning
  BY <1>1 DEF Inv, Base, Owners
<1>3. QED
  BY <1>2 DEF Inv, Base, Control, Owning

\* Then a solution as good as any is found, or an open node promises one.
LEMMA Exhausted ==
  ASSUME Inv, Search, inuse = {}, incons = {}
  PROVE  \/ bound <= CostToGo[Start]
         \/ \E s \in open : Promises(s, g[s])
<1>1. /\ \A t \in Threads : kids[t] = {} /\ pc[t] # "path"
      /\ Types /\ bound \in 0..Infinity
  BY NobodyAtWork DEF Inv, Base, Types
<1>2. CASE Met
  BY <1>1, <1>2 DEF Met
<1>3. CASE CostToGo[Start] = Infinity
  BY <1>1, <1>3, SpaceAssumption
<1>4. CASE ~Met /\ CostToGo[Start] < Infinity
  <2>1. PICK D \in [States -> Nat] : Table(D) /\ Kept(D)
    BY <1>4 DEF Search
  <2> SUFFICES ASSUME \A s \in open : ~Promises(s, g[s])
               PROVE  FALSE
    OBVIOUS
  <2>2. ASSUME NEW s \in States, Promises(s, D[s]) PROVE Handled(D, s)
    <3>1. ~Here(D, s)
      BY <1>1, <2>2, HerePromises DEF Here
    <3>2. QED
      BY <2>1, <2>2, <3>1 DEF Kept
  <2>3. ASSUME NEW s \in States, Promises(s, D[s]), NEW e \in Edges[s],
               Promises(e.to, D[s] + e.cost)
        PROVE  D[e.to] <= D[s] + e.cost
    BY <1>1, <2>2, <2>3 DEF Handled, Coming
  <2>4. D[Start] = 0
    BY <2>1 DEF Table
  <2>5. \E s \in Goals : Promises(s, D[s])
    BY <1>4, <2>3, <2>4, PromiseKept
  <2>6. QED
    BY <2>2, <2>5, SpaceAssumption DEF Handled
<1>5. QED
  BY <1>2, <1>3, <1>4, Costs

\* A weight is at least one.
LEMMA WeightedCost ==
  ASSUME NEW l \in Nat \ {0}, NEW w \in Nat, w <= l,
         NEW x \in Nat, NEW h \in Nat, NEW c \in Nat, x + h <= c
  PROVE  /\ x + w * h <= l * c /\ x + w * h \in Nat /\ l * c \in Nat
         /\ c <= l * c
<1>1. /\ l - w \in Nat /\ l = w + (l - w)
      /\ l - 1 \in Nat /\ l = 1 + (l - 1)
      /\ c - (x + h) \in Nat /\ c = (x + h) + (c - (x + h))
  OBVIOUS
<1>2. w * h <= l * h /\ w * h \in Nat /\ l * h \in Nat
  <2>1. l * h = w * h + (l - w) * h /\ (l - w) * h \in Nat
    BY <1>1
  <2>2. w * h \in Nat
    OBVIOUS
  <2>3. QED
    BY <2>1, <2>2
<1>3. x <= l * x /\ l * x \in Nat
  <2>1. l * x = x + (l - 1) * x /\ (l - 1) * x \in Nat
    BY <1>1
  <2>2. QED
    BY <2>1
<1>4. c <= l * c /\ l * c \in Nat
  <2>1. l * c = c + (l - 1) * c /\ (l - 1) * c \in Nat
    BY <1>1
  <2>2. QED
    BY <2>1
<1>5. l * x + l * h <= l * c
  <2>1. l * c = (l * x + l * h) + l * (c - (x + h)) /\ l * (c - (x + h)) \in Nat
    BY <1>1
  <2>2. QED
    BY <1>2, <1>3, <2>1
<1>6. QED
  BY <1>2, <1>3, <1>4, <1>5

LEMMA LastWeightType ==
  ASSUME WeightTypes
  PROVE  LastWeight \in Nat \ {0}
<1>1. Len(weights) \in 1..Len(weights)
  BY DEF WeightTypes
<1>2. QED
  BY <1>1 DEF WeightTypes, LastWeight

\* A promising node whose value is out of bound: the bound is good enough.
LEMMA OutOfBoundIsGood ==
  ASSUME Admissible, Inv, final_weight, NEW s \in open, Promises(s, g[s]),
         heap_weight[Project[s]] = weight, bound <= HeapKey(s)
  PROVE  bound <= LastWeight * CostToGo[Start]
<1>1. /\ Types /\ s \in States /\ weight \in Nat /\ weight <= LastWeight
      /\ LastWeight \in Nat \ {0} /\ bound \in Nat
  <2>1. Types /\ WeightTypes
    BY DEF Inv, Base
  <2>2. s \in States /\ bound \in Nat
    BY <2>1, SpaceAssumption DEF Types
  <2>3. weight \in Nat /\ weight <= LastWeight
    BY <2>1 DEF WeightTypes
  <2>4. QED
    BY <2>1, <2>2, <2>3, LastWeightType
<1>2. g[s] \in Nat /\ H[s] \in Nat /\ CostToGo[Start] \in Nat
  BY <1>1, KeyType, Costs
<1>3. g[s] + H[s] <= CostToGo[Start]
  BY <1>1, <1>2, PromisesBound
<1>4. /\ g[s] + weight * H[s] <= LastWeight * CostToGo[Start]
      /\ g[s] + weight * H[s] \in Nat /\ LastWeight * CostToGo[Start] \in Nat
  <2> HIDE DEF LastWeight
  <2>1. QED
    BY <1>1, <1>2, <1>3, WeightedCost
<1>5. HeapKey(s) = g[s] + weight * H[s]
  BY DEF HeapKey
<1>6. QED
  BY <1>1, <1>4, <1>5

LEMMA GoodEnough ==
  ASSUME Inv, bound <= CostToGo[Start]
  PROVE  bound <= LastWeight * CostToGo[Start]
<1>1. LastWeight \in Nat \ {0} /\ CostToGo[Start] \in Nat /\ bound \in Nat
  BY LastWeightType, Costs, SpaceAssumption DEF Inv, Base, Types
<1>2. CostToGo[Start] <= LastWeight * CostToGo[Start]
      /\ LastWeight * CostToGo[Start] \in Nat
  <2> HIDE DEF LastWeight
  <2>1. 0 \in Nat /\ 0 <= LastWeight /\ CostToGo[Start] + 0 <= CostToGo[Start]
    BY <1>1
  <2>2. QED
    BY <1>1, <2>1, WeightedCost
<1>3. QED
  BY <1>1, <1>2

\* A thread that leaves next_nblock with the final weight.
LEMMA FinishIsGood ==
  ASSUME Admissible, G!NoIsolatedBlock, Inv, Search, NEW t \in Threads, Finish(t),
         final_wt[t]
  PROVE  bound <= LastWeight * CostToGo[Start]
<1>1. /\ Types /\ final_weight /\ ~Resorting /\ Unsorted = {} /\ incons = {}
      /\ \A s \in open : heap_weight[Project[s]] = weight
  <2>1. Locked(t) /\ ~Mastering(t)
    BY DEF Finish, AtTest, Locked, Mastering, Sorting
  <2>2. ~Resorting
    BY <2>1, OtherSection DEF Inv, Base
  <2>3. Unsorted = {}
    BY <2>2 DEF Inv, Barrier
  <2>4. final_weight
    BY DEF Inv, Base, Control
  <2>5. QED
    BY <2>2, <2>3, <2>4 DEF Inv, Base, Sorted
<1>2. /\ inuse = {} /\ P!FreeListExact
      /\ \A b \in NBlocks : P!IsFree(b) <=> ~P!Empty(b)
  <2>1. P!Core /\ P!ZerosExact /\ P!NoIsolatedBlock
    BY <1>1, CoreOfGraph, SameIsolation DEF Inv
  <2>2. num_sigma_zero = P!Cardinality(NBlocks)
    BY FiniteSame DEF Finish, NothingToDo, AllSigmaZero
  <2>3. \A b \in NBlocks : sigma[b] = 0
    BY <2>1, <2>2, GraphAssumption, P!AllZero
  <2>4. QED
    BY <2>1, <2>3, GraphAssumption, P!NothingUsed DEF P!Core
<1>3. CASE bound <= CostToGo[Start]
  BY <1>3, GoodEnough
<1>4. CASE \E s \in open : Promises(s, g[s])
  <2>1. PICK s \in open : Promises(s, g[s])
    BY <1>4
  <2>2. /\ s \in States /\ Project[s] \in NBlocks /\ HeapKey(s) \in Nat
        /\ Best \in [NBlocks -> 0..Infinity] /\ Best[Project[s]] <= HeapKey(s)
        /\ bound \in 0..Infinity /\ Infinity \in Nat
    BY <1>1, KeyType, BestIsLeast, SpaceAssumption DEF Types
  <2>3. bound <= Best[Project[s]]
    <3>1. CASE P!Empty(Project[s])
      BY <2>2, <3>1 DEF P!Empty
    <3>2. CASE ~P!Empty(Project[s])
      <4>1. Project[s] \in free_list
        <5>1. Best[Project[s]] \in 0..Infinity /\ Best[Project[s]] # Infinity
          BY <2>2, <3>2 DEF P!Empty
        <5>2. ~P!Hopeless(Project[s])
          BY <2>2, <5>1 DEF P!Hopeless
        <5>3. QED
          BY <1>2, <2>2, <3>2, <5>2 DEF P!FreeListExact
      <4>2. PICK n \in NBlocks : G!Front(n) /\ Best[n] > bound
        BY <4>1 DEF Finish, NothingToDo, FrontIs, OutOfBound
      <4>3. Best[n] <= Best[Project[s]]
        BY <4>1, <4>2 DEF G!Front
      <4>4. Best[n] \in Nat /\ Best[Project[s]] \in Nat
        BY <2>2
      <4>5. QED
        BY <2>2, <4>2, <4>3, <4>4
    <3>3. QED
      BY <3>1, <3>2
  <2>4. bound <= HeapKey(s)
    <3>1. Best[Project[s]] \in Nat
      BY <2>2
    <3>2. QED
      BY <2>2, <2>3, <3>1
  <2>5. QED
    BY <1>1, <2>1, <2>4, OutOfBoundIsGood
<1>5. QED
  BY <1>1, <1>2, <1>3, <1>4, Exhausted

\* A resort after which no node is open.
LEMMA NothingOpenIsGood ==
  ASSUME Inv, Search, NEW t \in Threads, EndResort(t), open = {}
  PROVE  bound <= LastWeight * CostToGo[Start]
<1>1. inuse = {} /\ incons = {}
  BY AllSorted
<1>2. bound <= CostToGo[Start]
  BY <1>1, Exhausted
<1>3. QED
  BY <1>2, GoodEnough

LEMMA BoundFalls ==
  ASSUME Inv, [Next]_vars
  PROVE  bound' <= bound /\ weights' = weights
<1>1. bound \in Nat
  BY SpaceAssumption DEF Inv, Base, Types
<1>2. CASE UNCHANGED vars
  BY <1>1, <1>2 DEF vars, weightVars
<1>3. CASE \E t \in Threads : QuietStep(t) \/ GraphStep(t)
  BY <1>1, <1>3, QuietFrame, GraphFrame DEF SameData, weightVars, Inv, Base
<1>4. CASE \E t \in Threads : NodeStep(t)
  <2>1. PICK t \in Threads : NodeStep(t)
    BY <1>4
  <2>2. weights' = weights
    BY <2>1, NodeFrame DEF weightVars
  <2>3. sol[t] \in Nat
    BY DEF Inv, Base, Types
  <2>4. bound' <= bound
    BY <1>1, <2>1, <2>3 DEF NodeStep, TakeNode, AddChild, SetPath
  <2>5. QED
    BY <2>2, <2>4
<1>5. CASE \E t \in Threads : SortStep(t)
  <2>1. PICK t \in Threads : SortStep(t)
    BY <1>5
  <2>2. bound' = bound /\ (UNCHANGED weightVars \/ QueueBlocks(t))
    BY <2>1, SortFrame
  <2>3. weights' = weights
    BY <2>2, NextWeight DEF weightVars, QueueBlocks, Inv, Base
  <2>4. QED
    BY <1>1, <2>2, <2>3
<1>6. QED
  BY <1>2, <1>3, <1>4, <1>5, StepKinds

\* Who sets done.
LEMMA DoneSteps ==
  ASSUME [Next]_vars, done'
  PROVE  \/ done
         \/ \E t \in Threads : Finish(t) /\ final_wt[t]
         \/ \E t \in Threads : EndResort(t) /\ open = {}
<1>1. CASE UNCHANGED vars
  BY <1>1 DEF vars
<1>2. ASSUME NEW t \in Threads, QuietStep(t)
      PROVE  done \/ (Finish(t) /\ final_wt[t])
  BY <1>2 DEF QuietStep, NextBlock, LockNext, Busy, Keep, JoinResort, Relock,
    Finish, Wait, PutBack, Wake, SeeDone, SeeFlag, GotNull, Enter, EndExpand,
    LoopTest, WantHot, CallForResort, JoinMaster, Spin, LeaveSort, SearchVars
<1>3. ASSUME NEW t \in Threads, GraphStep(t) PROVE done
  BY <1>3 DEF GraphStep, Release, Take, SetHot, WontRelease, ClaimResort
<1>4. ASSUME NEW t \in Threads, NodeStep(t) PROVE done
  BY <1>4, NodeFrame
<1>5. ASSUME NEW t \in Threads, SortStep(t)
      PROVE  done \/ (EndResort(t) /\ open = {})
  BY <1>5, SortFrame DEF EndResort
<1>6. QED
  BY <1>1, <1>2, <1>3, <1>4, <1>5, StepKinds

LEMMA DoneNext ==
  ASSUME Admissible, G!NoIsolatedBlock, Inv, Search, DoneMeans, [Next]_vars
  PROVE  DoneMeans'
<1> SUFFICES ASSUME done' PROVE bound' <= LastWeight' * CostToGo[Start]
  BY DEF DoneMeans
<1>1. bound' <= bound /\ LastWeight' = LastWeight /\ Inv'
  BY BoundFalls, NextInvariant DEF LastWeight
<1>2. bound <= LastWeight * CostToGo[Start]
  BY DoneSteps, FinishIsGood, NothingOpenIsGood DEF DoneMeans
<1>3. LastWeight * CostToGo[Start] \in Nat /\ bound \in Nat /\ bound' \in Nat
  <2>1. LastWeight \in Nat /\ CostToGo[Start] \in Nat
    BY LastWeightType, Costs DEF Inv, Base
  <2>2. bound \in Nat /\ bound' \in Nat
    BY <1>1, SpaceAssumption DEF Inv, Base, Types
  <2>3. QED
    BY <2>1, <2>2
<1>4. QED
  BY <1>1, <1>2, <1>3

(***************************************************************************)
(* The solution of the search is worse than an optimal one by the last     *)
(* weight at most.  For any number of threads, any projection without      *)
(* isolated blocks, any weights, and any domain with an admissible         *)
(* heuristic in which an edge to a goal is a cheapest way to one.          *)
(***************************************************************************)
THEOREM EndsWithinWeight ==
  ASSUME Admissible, GoalEdgesAreShortest, G!NoIsolatedBlock
  PROVE  Spec => []SolutionWithinWeight
<1>1. Init => Real /\ Search /\ DoneMeans
  <2>1. Init => DoneMeans
    BY DEF Init, NewGraph, DoneMeans
  <2>2. QED
    BY <2>1, RealInit, SearchInit
<1>2. Inv /\ Real /\ Search /\ DoneMeans /\ [Next]_vars =>
        (Real /\ Search /\ DoneMeans)'
  BY RealNext, SearchNext, DoneNext
<1>3. Inv /\ Real /\ DoneMeans => SolutionWithinWeight
  <2> SUFFICES ASSUME Inv, Real, DoneMeans, Ended
               PROVE  bound \in CostToGo[Start]..(LastWeight * CostToGo[Start])
    BY DEF SolutionWithinWeight, LastWeight
  <2>1. done
    BY ARPBNFAssumption DEF Ended, Inv, Base, Control
  <2>2. bound <= LastWeight * CostToGo[Start] /\ CostToGo[Start] <= bound
    BY <2>1 DEF DoneMeans, Real, CostsReal
  <2>3. /\ LastWeight \in Nat /\ CostToGo[Start] \in Nat
        /\ bound \in Nat
    BY LastWeightType, Costs, SpaceAssumption DEF Inv, Base, Types
  <2>4. LastWeight * CostToGo[Start] \in Nat
    BY <2>3
  <2>5. QED
    BY <2>2, <2>3, <2>4
<1>4. QED
  BY <1>1, <1>2, <1>3, InvariantHolds, PTL DEF Spec
=============================================================================
