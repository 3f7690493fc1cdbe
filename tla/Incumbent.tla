------------------------------ MODULE Incumbent ------------------------------
(***************************************************************************)
(* How the search threads publish solutions: set_path of PBNF (and, word   *)
(* for word, of WPBNF, BFPSDD, PRAStar and wPRAStar), the SolutionStream   *)
(* behind its own mutex, and the AtomicInt with the incumbent's cost, that *)
(* every thread reads without a lock to prune.                             *)
(***************************************************************************)
EXTENDS Integers

CONSTANTS
  Publishers,  \* the search threads
  Costs,       \* the costs of the solutions they may find
  NoSolution   \* fp_infinity

ASSUME IncumbentAssumption ==
  /\ NoSolution \in Nat
  /\ Costs \subseteq 0..(NoSolution - 1)

BoundValues == Costs \cup {NoSolution}

VARIABLES
  locked,   \* the build: is cmp_and_swap one indivisible step?
  best,     \* the cost of the best path in the solution stream
  atomic_bound,  \* the AtomicInt, called bound
  at,       \* where each thread is in set_path ("search": outside)
  newb,     \* set_path's b; before it is read, the cost of the path found
  oldb      \* set_path's oldb

publishVars == <<locked, best, atomic_bound, at, newb, oldb>>

PublishTypes ==
  /\ locked \in BOOLEAN
  /\ best \in BoundValues
  /\ atomic_bound \in BoundValues
  /\ at \in [Publishers -> {"search", "see", "get", "read", "cas", "store"}]
  /\ newb \in [Publishers -> BoundValues]
  /\ oldb \in [Publishers -> BoundValues]

PublishInit ==
  /\ locked \in BOOLEAN
  /\ best = NoSolution
  /\ atomic_bound = NoSolution
  /\ at = [t \in Publishers |-> "search"]
  /\ newb = [t \in Publishers |-> NoSolution]
  /\ oldb = [t \in Publishers |-> NoSolution]

Move(t, from, to) == at[t] = from /\ at' = [at EXCEPT ![t] = to]

\* search_nblock returns a path.  The bound it compared the goal's cost with
\* may be out of date by now: any cost is possible.
FindPath(t) ==
  /\ Move(t, "search", "see")
  /\ \E c \in Costs : newb' = [newb EXCEPT ![t] = c]
  /\ UNCHANGED <<locked, best, atomic_bound, oldb>>

\* Faulty: the stream keeps the latest path.
KeepLatest(t) ==
  /\ Move(t, "see", "get")
  /\ best' = newb[t]
  /\ UNCHANGED <<locked, atomic_bound, newb, oldb>>

\* SyncSolutionStream::see_solution, under its mutex: keep the better path.
SeePath(t) ==
  /\ Move(t, "see", "get")
  /\ best' = IF newb[t] < best THEN newb[t] ELSE best
  /\ UNCHANGED <<locked, atomic_bound, newb, oldb>>

\* b = solutions->get_best_path()->at(0)->get_g(), under the mutex again.
ReadBestPath(t) ==
  /\ Move(t, "get", "read")
  /\ newb' = [newb EXCEPT ![t] = best]
  /\ UNCHANGED <<locked, best, atomic_bound, oldb>>

ReadBound(t) ==
  /\ oldb' = [oldb EXCEPT ![t] = atomic_bound]
  /\ Move(t, "read", IF atomic_bound <= newb[t] THEN "search" ELSE "cas")
  /\ UNCHANGED <<locked, best, atomic_bound, newb>>

\* Faulty: a failed swap is not tried again.
SwapOnce(t) ==
  /\ locked
  /\ Move(t, "cas", "search")
  /\ atomic_bound' = IF atomic_bound = oldb[t] THEN newb[t] ELSE atomic_bound
  /\ UNCHANGED <<locked, best, newb, oldb>>

\* cmp_and_swap where the processor, or a lock prefix, makes it atomic.
CompareAndSwap(t) ==
  /\ locked
  /\ IF atomic_bound = oldb[t]
     THEN Move(t, "cas", "search") /\ atomic_bound' = newb[t]
     ELSE Move(t, "cas", "read") /\ UNCHANGED atomic_bound
  /\ UNCHANGED <<locked, best, newb, oldb>>

\* cmpxchg without a lock prefix: other processors get in between the load
\* that is compared and the store.
CompareOnly(t) ==
  /\ ~locked
  /\ Move(t, "cas", IF atomic_bound = oldb[t] THEN "store" ELSE "read")
  /\ UNCHANGED <<locked, best, atomic_bound, newb, oldb>>

StoreOnly(t) ==
  /\ Move(t, "store", "search")
  /\ atomic_bound' = newb[t]
  /\ UNCHANGED <<locked, best, newb, oldb>>

PublishNext ==
  \E t \in Publishers :
    \/ FindPath(t) \/ SeePath(t) \/ ReadBestPath(t) \/ ReadBound(t)
    \/ CompareAndSwap(t) \/ CompareOnly(t) \/ StoreOnly(t)

PublishSpec == PublishInit /\ [][PublishNext]_publishVars

-----------------------------------------------------------------------------
(***************************************************************************)
(* Where cmp_and_swap is atomic, the bound only goes down: a node that one *)
(* thread prunes can never be worth expanding again.                       *)
(***************************************************************************)
BoundNeverRises == [][locked => atomic_bound' <= atomic_bound]_publishVars

(***************************************************************************)
(* Whenever no thread is in set_path, the bound is the cost of the best    *)
(* solution seen: none of several threads that publish at once loses its   *)
(* improvement, although two locks and an atomic word are involved.        *)
(***************************************************************************)
BoundIsIncumbent ==
  locked /\ (\A t \in Publishers : at[t] = "search") => atomic_bound = best

(***************************************************************************)
(* Nothing is pruned against a solution that does not exist, on any build: *)
(* the bound is never below the cost of the path the stream would return.  *)
(***************************************************************************)
BoundIsJustified == best <= atomic_bound

-----------------------------------------------------------------------------
(* The inductive invariant.                                                *)

\* What a thread carries was once in the stream, and improves the bound it
\* has read.
Carried ==
  \A t \in Publishers :
    /\ at[t] \in {"read", "cas", "store"} => best <= newb[t]
    /\ at[t] \in {"cas", "store"} => newb[t] < oldb[t]
    /\ at[t] = "store" => ~locked

\* The best cost is in the bound, or some thread is bringing it.
Covered ==
  \/ ~locked
  \/ atomic_bound = best
  \/ \E t \in Publishers : \/ at[t] = "get"
                           \/ at[t] \in {"read", "cas"} /\ newb[t] = best

PublishInv == PublishTypes /\ BoundIsJustified /\ Carried /\ Covered
=============================================================================
