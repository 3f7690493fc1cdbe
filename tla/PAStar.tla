------------------------------- MODULE PAStar -------------------------------
(***************************************************************************)
(* Parallel A* over one open and one closed list, each with a mutex of its *)
(* own, and one mutex, mut, that a thread holds while it takes a node or   *)
(* handles a duplicate.  Adding a new child and pruning do not take it.    *)
(***************************************************************************)
EXTENDS SharedLists

PALoop(t) ==
  /\ Go(t, "loop", IF done THEN "end" ELSE "lock")
  /\ UNCHANGED <<mode, open, closed, g, cur, todo, kid, best, bound,
                 done, mut, count, signals>>

\* There is a node: go on to take it with the mutex held.
PALock(t) ==
  /\ mut = Nobody /\ open[Shared] # {}
  /\ Go(t, "lock", "take")
  /\ mut' = t
  /\ UNCHANGED <<mode, open, closed, g, cur, todo, kid, best, bound,
                 done, count, signals>>

\* There is none: this thread is out of work, and the last one ends it all.
PAIdle(t) ==
  /\ mut = Nobody /\ open[Shared] = {}
  /\ count' = count + 1
  /\ done' = (done \/ count' >= N)
  /\ Go(t, "lock", IF done' THEN "end" ELSE "spin")
  /\ UNCHANGED <<mode, open, closed, g, cur, todo, kid, best, bound,
                 mut, signals>>

PATake(t) ==
  /\ open[Shared] # {}
  /\ Go(t, "take", "test")
  /\ \E n \in First([m \in open[Shared] |-> F(m)]) :
       /\ cur' = [cur EXCEPT ![t] = n]
       /\ open' = [open EXCEPT ![Shared] = @ \ {n}]
  /\ mut' = Nobody
  /\ UNCHANGED <<mode, closed, g, todo, kid, best, bound, done, count,
                 signals>>

\* Another thread has pruned the list since it was seen not to be empty:
\* PriorityQueue::take returns NULL, and PQOpenList::take writes through it.
PACrash(t) ==
  /\ pc[t] = "take" /\ open[Shared] = {}
  /\ pc' = [u \in DOMAIN pc |-> "crashed"]
  /\ UNCHANGED <<mode, open, closed, g, cur, todo, kid, best, bound,
                 done, mut, count, signals>>

\* A variation that spins until there is a node, done or not.
PASpinForNode(t) ==
  /\ open[Shared] # {}
  /\ Go(t, "spin", "rejoin")
  /\ UNCHANGED <<mode, open, closed, g, cur, todo, kid, best, bound, done, mut,
                 count, signals>>

PASpin(t) ==
  /\ open[Shared] # {} \/ done
  /\ Go(t, "spin", "rejoin")
  /\ UNCHANGED <<mode, open, closed, g, cur, todo, kid, best, bound,
                 done, mut, count, signals>>

PARejoin(t) ==
  /\ mut = Nobody
  /\ Go(t, "rejoin", "loop")
  /\ count' = count - 1
  /\ UNCHANGED <<mode, open, closed, g, cur, todo, kid, best, bound,
                 done, mut, signals>>

PATest(t) ==
  /\ Go(t, "test", IF F(cur[t]) >= bound THEN "prune"
                   ELSE IF cur[t][1] \in Goals THEN "goal" ELSE "expand")
  /\ UNCHANGED <<mode, open, closed, g, cur, todo, kid, best, bound,
                 done, mut, count, signals>>

PAPrune(t) ==
  /\ Go(t, "prune", "loop")
  /\ open' = [open EXCEPT ![Shared] = {}]
  /\ UNCHANGED <<mode, closed, g, cur, todo, kid, best, bound, done,
                 mut, count, signals>>

\* PAStar::set_path, with the path that the node's parents give now.
PAGoal(t) ==
  /\ Go(t, "goal", "expand")
  /\ IF best > g[cur[t]]
     THEN best' = g[cur[t]] /\ bound' = g[cur[t]]
     ELSE UNCHANGED <<best, bound>>
  /\ UNCHANGED <<mode, open, closed, g, cur, todo, kid, done, mut,
                 count, signals>>

PAExpand(t) ==
  /\ Go(t, "expand", "child")
  /\ todo' = [todo EXCEPT ![t] = Children(cur[t][1], g[cur[t]])]
  /\ UNCHANGED <<mode, open, closed, g, cur, kid, best, bound, done,
                 mut, count, signals>>

\* The next child, and what closed.lookup finds for it.
PAChild(t) ==
  /\ \E c \in todo[t] :
       LET dups == Find(closed[Shared], c[1])
       IN  /\ todo' = [todo EXCEPT ![t] = @ \ {c}]
           /\ IF dups = {}
              THEN kid' = [kid EXCEPT ![t] = <<c, <<c[1], t>> >>] /\ Go(t, "child", "add")
              ELSE \E dup \in dups : kid' = [kid EXCEPT ![t] = <<c, dup>>] /\ Go(t, "child", "dup")
  /\ UNCHANGED <<mode, open, closed, g, cur, best, bound, done, mut,
                 count, signals>>

PAExpanded(t) ==
  /\ todo[t] = {} /\ Go(t, "child", "loop")
  /\ UNCHANGED <<mode, open, closed, g, cur, todo, kid, best, bound,
                 done, mut, count, signals>>

\* A cheaper way to a known node updates it; on the open list or not, and
\* pruned in between or not, it is on the list afterwards.
PADup(t) ==
  /\ mut = Nobody
  /\ Go(t, "dup", "child")
  /\ LET cost == kid[t][1][2]
         dup == kid[t][2]
     IN  IF g[dup] > cost
         THEN /\ g' = [g EXCEPT ![dup] = cost]
              /\ open' = [open EXCEPT ![Shared] = @ \cup {dup}]
         ELSE UNCHANGED <<g, open>>
  /\ UNCHANGED <<mode, closed, cur, todo, kid, best, bound, done, mut,
                 count, signals>>

PAAdd(t) ==
  /\ Go(t, "add", "close")
  /\ g' = [g EXCEPT ![kid[t][2]] = kid[t][1][2]]
  /\ open' = [open EXCEPT ![Shared] = @ \cup {kid[t][2]}]
  /\ UNCHANGED <<mode, closed, cur, todo, kid, best, bound, done, mut,
                 count, signals>>

PAClose(t) ==
  /\ Go(t, "close", "child")
  /\ closed' = [closed EXCEPT ![Shared] = @ \cup {kid[t][2]}]
  /\ UNCHANGED <<mode, open, g, cur, todo, kid, best, bound, done, mut,
                 count, signals>>

PAStarInit == /\ pc = [t \in 0..N |-> IF t = 0 THEN "end" ELSE "loop"]
              /\ open = [o \in 0..N |-> IF o = Shared THEN {Root} ELSE {}]
              /\ count = 0

PAStarStep(t) ==
  /\ algo = "pastar"
  /\ \/ PALoop(t) \/ PALock(t) \/ PAIdle(t) \/ PATake(t) \/ PACrash(t)
     \/ PASpin(t) \/ PARejoin(t) \/ PATest(t) \/ PAPrune(t) \/ PAGoal(t)
     \/ PAExpand(t) \/ PAChild(t) \/ PAExpanded(t) \/ PADup(t) \/ PAAdd(t)
     \/ PAClose(t)
=============================================================================
