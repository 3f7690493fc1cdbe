--------------------------- MODULE BlockReservation ---------------------------
(***************************************************************************)
(* What an nblock graph promises to the threads that search with it,       *)
(* without counters, heaps, hot blocks or locks: a thread reserves a block *)
(* whose scope no other reservation touches, works on that scope alone,    *)
(* and gives the block back; the search is declared over only when nothing *)
(* is reserved and no node that could improve on the incumbent is left.    *)
(* NBlockGraph implements this specification.                              *)
(***************************************************************************)
EXTENDS Integers, FiniteSets

CONSTANTS Threads, NBlocks, Succs, InitBlock, InitVal, Infinity, NoBlock

VARIABLES
  owned,   \* per thread, the block it has reserved, or NoBlock
  best,    \* per block, the best value in its open list
  bound,   \* the incumbent solution's cost
  over     \* the search has been declared over

vars == <<owned, best, bound, over>>

Scope(b) == {b} \cup Succs[b]

Values == 0..Infinity

Init ==
  /\ owned = [t \in Threads |-> NoBlock]
  /\ best = [b \in NBlocks |-> IF b = InitBlock THEN InitVal ELSE Infinity]
  /\ bound = Infinity
  /\ over = FALSE

Reserve(t) ==
  /\ owned[t] = NoBlock /\ ~over
  /\ \E b \in NBlocks :
       /\ best[b] # Infinity
       /\ \A u \in Threads : owned[u] # NoBlock
                               => Scope(owned[u]) \cap Scope(b) = {}
       /\ owned' = [owned EXCEPT ![t] = b]
  /\ UNCHANGED <<best, bound, over>>

\* Expand a node: only the lists of the scope change.
Work(t) ==
  /\ owned[t] # NoBlock
  /\ best' \in [NBlocks -> Values]
  /\ \A b \in NBlocks \ Scope(owned[t]) : best'[b] = best[b]
  /\ UNCHANGED <<owned, bound, over>>

\* A better solution: the bound only ever goes down.
Improve(t) ==
  /\ owned[t] # NoBlock
  /\ bound' \in Values /\ bound' < bound
  /\ UNCHANGED <<owned, best, over>>

Return(t) ==
  /\ owned[t] # NoBlock
  /\ owned' = [owned EXCEPT ![t] = NoBlock]
  /\ UNCHANGED <<best, bound, over>>

Declare ==
  /\ \A t \in Threads : owned[t] = NoBlock
  /\ \A b \in NBlocks : best[b] >= bound
  /\ over' = TRUE
  /\ UNCHANGED <<owned, best, bound>>

Next ==
  \/ \E t \in Threads : Reserve(t) \/ Work(t) \/ Improve(t) \/ Return(t)
  \/ Declare

Spec == Init /\ [][Next]_vars
=============================================================================
