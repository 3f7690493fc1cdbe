------------------------------- MODULE LPAStar -------------------------------
(***************************************************************************)
(* Lock-free parallel A*: the open list is the lock-free priority queue,   *)
(* taken to be atomic, and the closed list the lock-free hash table, with  *)
(* what LFOrdList shows of its cond_update.  A node never changes: it is a *)
(* state and its cost.  count is the number of working threads.            *)
(***************************************************************************)
EXTENDS SharedLists

FPrime(n) == n[2] + weight[1] * H[n[1]]

\* The loop's head: whether to take a node or to declare this thread idle.
LPLoop(t) ==
  /\ Go(t, "loop", IF done THEN "end"
                   ELSE IF open[Shared] # {} THEN "take" ELSE "idle")
  /\ UNCHANGED <<mode, open, closed, g, cur, todo, kid, best, bound,
                 done, mut, count, signals>>

\* LF_OpenList::take gives NULL when another thread was faster.
LPTake(t) ==
  /\ IF open[Shared] = {}
     THEN Go(t, "take", "loop") /\ UNCHANGED <<open, cur>>
     ELSE /\ Go(t, "take", "test")
          /\ \E n \in First([m \in open[Shared] |-> FPrime(m)]) :
               /\ cur' = [cur EXCEPT ![t] = n]
               /\ open' = [open EXCEPT ![Shared] = @ \ {n}]
  /\ UNCHANGED <<mode, closed, g, todo, kid, best, bound, done, mut,
                 count, signals>>

LPIdle(t) ==
  /\ Go(t, "idle", "check")
  /\ count' = count - 1
  /\ UNCHANGED <<mode, open, closed, g, cur, todo, kid, best, bound,
                 done, mut, signals>>

\* Is the list empty, and then: is nobody working?
LPCheck(t) ==
  /\ Go(t, "check", IF open[Shared] = {} THEN "check2" ELSE "spin")
  /\ UNCHANGED <<mode, open, closed, g, cur, todo, kid, best, bound,
                 done, mut, count, signals>>

\* A variation that is content with an empty list.
LPDoneWhenEmpty(t) ==
  /\ Go(t, "check2", "end")
  /\ done' = TRUE
  /\ UNCHANGED <<mode, open, closed, g, cur, todo, kid, best, bound, mut, count,
                 signals>>

LPDone(t) ==
  /\ Go(t, "check2", IF count = 0 THEN "end" ELSE "spin")
  /\ done' = (done \/ count = 0)
  /\ UNCHANGED <<mode, open, closed, g, cur, todo, kid, best, bound,
                 mut, count, signals>>

LPSpin(t) ==
  /\ open[Shared] # {} \/ count = 0
  /\ Go(t, "spin", "recheck")
  /\ UNCHANGED <<mode, open, closed, g, cur, todo, kid, best, bound,
                 done, mut, count, signals>>

\* The same two questions again after the spinning.
LPRecheck(t) ==
  /\ Go(t, "recheck", IF open[Shared] = {} THEN "recheck2" ELSE "rejoin")
  /\ UNCHANGED <<mode, open, closed, g, cur, todo, kid, best, bound,
                 done, mut, count, signals>>

LPRecheck2(t) ==
  /\ Go(t, "recheck2", IF count = 0 THEN "end" ELSE "rejoin")
  /\ UNCHANGED <<mode, open, closed, g, cur, todo, kid, best, bound,
                 done, mut, count, signals>>

LPRejoin(t) ==
  /\ Go(t, "rejoin", "loop")
  /\ count' = count + 1
  /\ UNCHANGED <<mode, open, closed, g, cur, todo, kid, best, bound,
                 done, mut, signals>>

\* Not better than the bound, or known to have been reached more cheaply.
Stale(n) ==
  \/ FPrime(n) >= bound
  \/ \E m \in Find(closed[Shared], n[1]) : m[2] < n[2]

LPTest(t) ==
  /\ Go(t, "test", IF Stale(cur[t]) THEN "loop"
                   ELSE IF cur[t][1] \in Goals THEN "goal" ELSE "expand")
  /\ UNCHANGED <<mode, open, closed, g, cur, todo, kid, best, bound,
                 done, mut, count, signals>>

\* LPAStar::set_path swaps the path in, and then, on its own, the bound.
LPGoal(t) ==
  /\ Go(t, "goal", "bound")
  /\ best' = Min({best, cur[t][2]})
  /\ UNCHANGED <<mode, open, closed, g, cur, todo, kid, bound, done,
                 mut, count, signals>>

LPBound(t) ==
  /\ Go(t, "bound", "expand")
  /\ bound' = Min({bound, cur[t][2]})
  /\ UNCHANGED <<mode, open, closed, g, cur, todo, kid, best, done,
                 mut, count, signals>>

LPExpand(t) ==
  /\ Go(t, "expand", "child")
  /\ todo' = [todo EXCEPT ![t] = Children(cur[t][1], cur[t][2])]
  /\ UNCHANGED <<mode, open, closed, g, cur, kid, best, bound, done,
                 mut, count, signals>>

LPChild(t) ==
  /\ \E c \in todo[t] :
       /\ todo' = [todo EXCEPT ![t] = @ \ {c}]
       /\ kid' = [kid EXCEPT ![t] = <<c, c>>]
       /\ Go(t, "child",
             IF \A m \in Find(closed[Shared], c[1]) : m[2] > c[2]
             THEN "update" ELSE "child")
  /\ UNCHANGED <<mode, open, closed, g, cur, best, bound, done, mut,
                 count, signals>>

LPExpanded(t) ==
  /\ todo[t] = {} /\ Go(t, "child", "loop")
  /\ UNCHANGED <<mode, open, closed, g, cur, todo, kid, best, bound,
                 done, mut, count, signals>>

\* lf_hashtbl_cond_update calls better with the node in the table first: it
\* is replaced by one that is worse.
LPUpdate(t) ==
  /\ Go(t, "update", "add")
  /\ LET c == kid[t][1]
         old == Find(closed[Shared], c[1])
     IN  closed' = [closed EXCEPT ![Shared] =
           IF \A m \in old : m[2] < c[2] THEN (@ \ old) \cup {c} ELSE @]
  /\ UNCHANGED <<mode, open, g, cur, todo, kid, best, bound, done, mut,
                 count, signals>>

LPAdd(t) ==
  /\ Go(t, "add", "child")
  /\ open' = [open EXCEPT ![Shared] = @ \cup {kid[t][1]}]
  /\ UNCHANGED <<mode, closed, g, cur, todo, kid, best, bound, done,
                 mut, count, signals>>

LPAStarInit == /\ pc = [t \in 0..N |-> IF t = 0 THEN "end" ELSE "loop"]
               /\ open = [o \in 0..N |-> IF o = Shared THEN {Root} ELSE {}]
               /\ count = N

LPAStarStep(t) ==
  /\ algo = "lpastar"
  /\ \/ LPLoop(t) \/ LPTake(t) \/ LPIdle(t) \/ LPCheck(t) \/ LPDone(t)
     \/ LPSpin(t) \/ LPRecheck(t) \/ LPRecheck2(t) \/ LPRejoin(t)
     \/ LPTest(t) \/ LPGoal(t) \/ LPBound(t) \/ LPExpand(t) \/ LPChild(t)
     \/ LPExpanded(t) \/ LPUpdate(t) \/ LPAdd(t)
=============================================================================
