----------------------------- MODULE SharedLists -----------------------------
(***************************************************************************)
(* The state that the searches with one open and one closed list, or one   *)
(* pair of lists per thread, are written over.  A node is a state and a    *)
(* label that tells the nodes of one state apart: the thread that made the *)
(* node, or, where nodes never change, its cost.                           *)
(***************************************************************************)
EXTENDS SearchSpace, Sequences

CONSTANTS N,          \* the number of threads
          Weights     \* SyncWAStar: one weight per initial state

ASSUME SharedAssumption ==
  N \in Nat \ {0} /\ Weights \in Seq(Nat \ {0})

Threads == 1..N
Shared == 0           \* the lists that all threads use; KBFS's main thread
Nobody == 0           \* holds the mutex

VARIABLES
  algo,       \* which search runs
  weight,     \* per thread: the weight of the heuristic it searches with
  dd,         \* SyncWAStar drops closed nodes found again cheaper
  pc,         \* per thread (and 0, the main thread): where it is
  open,       \* per owner: the nodes on the open list
  closed,     \* per owner: the nodes on the closed list
  g,          \* per node: State::g, Infinity before it is made
  cur,        \* per thread: the node in hand
  todo,       \* per thread: the children still to be handled
  kid,        \* per thread: the child in hand and the node it duplicates
  best,       \* the cost of the path found
  bound,      \* the cost nodes are pruned at
  done,       \* set when a thread has found the search to be over
  mut,        \* the thread that holds PAStar's mutex
  count,      \* CompletionCounter::counter, LPAStar's working
  batch,      \* KBFS: the number of nodes taken for this round
  turn,       \* KBFS: the worker that the main thread is at
  signalled   \* KBFS: per thread, Thread::signalled

mode == <<algo, weight, dd>>
signals == <<batch, turn, signalled>>
vars == <<mode, pc, open, closed, g, cur, todo, kid, best, bound, done, mut,
          count, signals>>

Nodes == States \X (0..N)
Root == <<Start, 0>>

\* The children of a state that costs cost, as <<state, cost>>.
Children(s, cost) == {<<e.to, cost + e.cost>> : e \in Edges[s]}

\* The nodes of a list that are first, value being what orders it.
First(value) ==
  {n \in DOMAIN value : \A m \in DOMAIN value : value[n] <= value[m]}

\* The nodes of a list for a state.
Find(list, s) == {n \in list : n[1] = s}

F(n) == g[n] + H[n[1]]

\* Where thread t goes next, from one place to another.
Go(t, from, to) == pc[t] = from /\ pc' = [pc EXCEPT ![t] = to]
=============================================================================
