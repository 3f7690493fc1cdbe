-------------------------------- MODULE KBFS --------------------------------
(***************************************************************************)
(* K-best-first search: a main thread takes up to N nodes from the open    *)
(* list, each worker expands one, and when the completion counter says     *)
(* that all have, the main thread handles their children.  The lists are   *)
(* the main thread's own; the handshake is Thread::signal and wait and the *)
(* counter.                                                                *)
(***************************************************************************)
EXTENDS SharedLists

Main == 0

\* What no step but the last changes, and the lists with what depends on them.
KRest == UNCHANGED <<mode, kid, done, mut>>
lists == <<open, closed, g, best, bound>>

-----------------------------------------------------------------------------
(* A worker.                                                               *)

\* Tell the counter, at the start and after each expansion, and wait.
KComplete(t) ==
  /\ \E from \in {"start", "complete"} : Go(t, from, "wait")
  /\ count' = count + 1
  /\ KRest /\ UNCHANGED <<lists, cur, todo, signals>>

\* Thread::wait returns; do_exit is set before the last signal.
KWake(t) ==
  /\ signalled[t] > 0
  /\ Go(t, "wait", IF done THEN "end" ELSE "expand")
  /\ signalled' = [signalled EXCEPT ![t] = @ - 1]
  /\ KRest /\ UNCHANGED <<lists, cur, todo, batch, turn, count>>

KExpand(t) ==
  /\ Go(t, "expand", "complete")
  /\ todo' = [todo EXCEPT ![t] = Children(cur[t][1], g[cur[t]])]
  /\ KRest /\ UNCHANGED <<lists, cur, count, signals>>

-----------------------------------------------------------------------------
(* The main thread.                                                        *)

\* Wait for the workers to have started.
KStart ==
  /\ count >= N
  /\ Go(Main, "start", "head")
  /\ open' = [open EXCEPT ![Shared] = {Root}]
  /\ KRest
  /\ UNCHANGED <<closed, g, best, bound, cur, todo, count, signals>>

KHead ==
  /\ Go(Main, "head", IF open[Shared] = {} THEN "join" ELSE "fill")
  /\ batch' = 0
  /\ KRest /\ UNCHANGED <<lists, cur, todo, turn, count, signalled>>

\* A goal is kept only if it is the first.
KGoal(n) ==
  /\ n[1] \in Goals
  /\ IF best = Infinity THEN best' = g[n] /\ bound' = g[n]
                        ELSE UNCHANGED <<best, bound>>
  /\ UNCHANGED <<closed, cur, batch>>

\* Another node is closed and, unless the bound prunes it, is work for the
\* next worker.
KGive(n) ==
  /\ n[1] \notin Goals
  /\ closed' = [closed EXCEPT ![Shared] = @ \cup {n}]
  /\ IF F(n) >= bound THEN UNCHANGED <<cur, batch>>
     ELSE /\ batch' = batch + 1
          /\ cur' = [cur EXCEPT ![batch'] = n]
  /\ UNCHANGED <<best, bound>>

KTake ==
  /\ batch < N /\ open[Shared] # {}
  /\ Go(Main, "fill", "fill")
  /\ \E n \in First([m \in open[Shared] |-> F(m)]) :
       /\ open' = [open EXCEPT ![Shared] = @ \ {n}]
       /\ KGoal(n) \/ KGive(n)
  /\ KRest /\ UNCHANGED <<g, todo, turn, count, signalled>>

\* The counter is reset for the workers of this batch before they start.
KReset ==
  /\ batch = N \/ open[Shared] = {}
  /\ Go(Main, "fill", "signal")
  /\ count' = 0 /\ turn' = 0
  /\ KRest /\ UNCHANGED <<lists, cur, todo, batch, signalled>>

\* Signal the workers of the batch one by one; turn counts them.
KSignal ==
  /\ turn < batch
  /\ Go(Main, "signal", "signal")
  /\ turn' = turn + 1
  /\ signalled' = [signalled EXCEPT ![turn'] = @ + 1]
  /\ KRest /\ UNCHANGED <<lists, cur, todo, batch, count>>

\* A variation that waits for one worker less.
KWaitFewer ==
  /\ turn = batch /\ count >= batch - 1
  /\ Go(Main, "signal", "collect")
  /\ turn' = Min({1, batch})
  /\ KRest /\ UNCHANGED <<lists, cur, todo, batch, count, signalled>>

\* CompletionCounter::wait, for as many as the batch has.
KWait ==
  /\ turn = batch /\ count >= batch
  /\ Go(Main, "signal", "collect")
  /\ turn' = Min({1, batch})
  /\ KRest /\ UNCHANGED <<lists, cur, todo, batch, count, signalled>>

\* One child of the worker that it is the turn of: new, cheaper, or neither.
KChild ==
  /\ turn # 0
  /\ Go(Main, "collect", "collect")
  /\ \E c \in todo[turn] :
       LET n == <<c[1], 0>>
       IN  /\ todo' = [todo EXCEPT ![turn] = @ \ {c}]
           /\ IF Find(closed[Shared], c[1]) = {} \/ g[n] > c[2]
              THEN /\ g' = [g EXCEPT ![n] = c[2]]
                   /\ open' = [open EXCEPT ![Shared] = @ \cup {n}]
              ELSE UNCHANGED <<g, open>>
           /\ closed' = [closed EXCEPT ![Shared] = @ \cup {n}]
  /\ KRest /\ UNCHANGED <<best, bound, cur, count, signals>>

\* On to the next worker's children, or to the next batch.
KCollected ==
  /\ turn # 0 => todo[turn] = {}
  /\ Go(Main, "collect", IF turn < batch THEN "collect" ELSE "head")
  /\ turn' = IF turn < batch THEN turn + 1 ELSE 0
  /\ KRest /\ UNCHANGED <<lists, cur, todo, batch, count, signalled>>

\* Thread::join tells each worker to exit and wakes it.
KJoin ==
  /\ Go(Main, "join", "joined")
  /\ done' = TRUE
  /\ signalled' = [t \in Threads |-> signalled[t] + 1]
  /\ UNCHANGED <<mode, lists, cur, todo, kid, mut, batch, turn, count>>

KEnd ==
  /\ \A t \in Threads : pc[t] = "end"
  /\ Go(Main, "joined", "end")
  /\ KRest /\ UNCHANGED <<lists, cur, todo, count, signals>>

KBFSInit == /\ pc = [t \in 0..N |-> "start"]
            /\ open = [o \in 0..N |-> {}]
            /\ count = 0

KBFSStep(t) ==
  /\ algo = "kbfs"
  /\ \/ t # Main /\ (KComplete(t) \/ KWake(t) \/ KExpand(t))
     \/ t = Main /\ \/ KStart \/ KHead \/ KTake \/ KReset \/ KSignal \/ KWait
                    \/ KChild \/ KCollected \/ KJoin \/ KEnd
=============================================================================
