--------------------------- MODULE SharedSearches ---------------------------
(***************************************************************************)
(* The multi-threaded searches that do not divide the state space: one of  *)
(* PAStar, LPAStar, KBFS and SyncWAStar, on a small state space.           *)
(***************************************************************************)
EXTENDS PAStar, LPAStar, KBFS, SyncWAStar

Init ==
  /\ algo \in {"pastar", "lpastar", "kbfs", "syncwastar"}
  /\ \E w \in IF algo = "lpastar" THEN {1, 2} ELSE {1} :
       weight = [t \in Threads |-> w]
  /\ dd \in IF algo = "syncwastar" THEN BOOLEAN ELSE {FALSE}
  /\ CASE algo = "pastar" -> PAStarInit
       [] algo = "lpastar" -> LPAStarInit
       [] algo = "kbfs" -> KBFSInit
       [] algo = "syncwastar" -> SyncWAStarInit
  /\ closed = [o \in 0..N |-> {}]
  /\ g = [n \in Nodes |-> IF n = Root THEN 0 ELSE Infinity]
  /\ cur = [t \in Threads |-> Root]
  /\ todo = [t \in Threads |-> {}]
  /\ kid = [t \in Threads |-> <<Root, Root>>]
  /\ best = Infinity /\ bound = Infinity
  /\ done = FALSE /\ mut = Nobody
  /\ batch = 0 /\ turn = 0 /\ signalled = [t \in Threads |-> 0]

Ended == \A t \in 0..N : pc[t] \in {"end", "crashed"}

Finished == Ended /\ UNCHANGED vars

Step(t) == \/ t \in Threads /\ (PAStarStep(t) \/ LPAStarStep(t) \/ SyncWAStarStep(t))
           \/ KBFSStep(t)

Next == (\E t \in 0..N : Step(t)) \/ Finished

\* The operating system runs every thread again and again; the mutexes are
\* held for a few steps that do not wait.
Spec == Init /\ [][Next]_vars /\ \A t \in 0..N : WF_vars(Step(t))

-----------------------------------------------------------------------------
(* Properties.                                                             *)

\* A thread that has found nothing to do and has not been given new work.
Idle(t) == pc[t] \in {"idle", "check", "check2", "spin", "recheck", "recheck2",
                      "rejoin", "end"}

\* PAStar and LPAStar are declared done only when the open list is empty and
\* no thread holds a node or a child that could still be added to it, however
\* the counting, the spinning and the taking are interleaved.
DoneWhenEmpty ==
  algo \in {"pastar", "lpastar"} /\ done' /\ ~done =>
    open'[Shared] = {} /\ \A t \in Threads : Idle(t) \/ pc'[t] = "end"

CompletionSound == [][DoneWhenEmpty]_vars

\* KBFS's main thread touches the lists only while every worker waits and none
\* has been signalled; and when it goes to collect, each worker of this batch
\* has made all children of the node it was given, with that node's cost.
ChildrenReady ==
  algo = "kbfs" =>
    /\ pc[Main] \in {"head", "fill", "collect", "join"} =>
         \A t \in Threads : pc[t] = "wait" /\ signalled[t] = 0
    /\ pc[Main] = "signal" /\ pc'[Main] = "collect" =>
         \A t \in 1..batch : todo[t] = Children(cur[t][1], g[cur[t]])

ChildrenFresh == [][ChildrenReady]_vars

\* A search ends with a solution within its bound: LPAStar with one of at
\* most weight times the least cost, SyncWAStar, which ends with weight 1,
\* with an optimal one.
WithinBound ==
  Ended => /\ algo = "lpastar" => best <= weight[1] * CostToGo[Start]
           /\ algo = "syncwastar" => best = CostToGo[Start]
           /\ best >= CostToGo[Start]

\* Every search ends, or crashes where PACrash says.
Termination == <>Ended

\* PAStar does not take a node from a list that another thread has emptied.
NoCrash == \A t \in Threads : pc[t] # "crashed"

\* With an admissible heuristic, A* in parallel is still A*.
PAStarOptimal == algo = "pastar" /\ Ended => best = CostToGo[Start]

\* As the test in KBFS::search intends, a cheaper path replaces the one found.
KBFSOptimal == algo = "kbfs" /\ Ended => best = CostToGo[Start]

\* What LPAStar::set_path asserts when it has lowered the bound.
BoundFollows ==
  \A t \in Threads :
    algo = "lpastar" /\ pc[t] = "bound" /\ pc'[t] # "bound" => bound' <= best'

BoundFollowsPath == [][BoundFollows]_vars
=============================================================================
