------------------------------ MODULE NodeLists ------------------------------
(***************************************************************************)
(* The data structures of the searches, and the search nodes (src/state.h) *)
(* in the lists made of them.                                              *)
(*                                                                         *)
(* The priority queue of src/util/priority_queue.h is a binary heap in an  *)
(* array, which tells every element its index (set_index) so that an       *)
(* element whose value has changed can be moved, or removed, in place.  A  *)
(* queue is a record: heap is the array, counted from 1 here, and ind is   *)
(* the index stored in every element of the program, 0 for none (-1).  The *)
(* predicate pred compares keys, tuples of numbers, lexicographically;     *)
(* key[e] is the key of element e at the time of the call.                 *)
(***************************************************************************)
EXTENDS SearchSpace, Integers, Sequences, SequencesExt, FiniteSets, FiniteSetsExt

CONSTANTS
  FPOne,            \* fp_one
  Hash              \* State::hash

\* F of the value of x, which is computed once and used often.  TLC computes
\* a LET definition or an argument anew at every use in an action; a member
\* of a set has been computed.
With(x, F(_)) == CHOOSE r \in {F(v) : v \in {x}} : TRUE

\* pred(a, b): a has to be in front of b.
Before(key, a, b) ==
  \E i \in DOMAIN key[a] :
    key[a][i] < key[b][i] /\ \A j \in 1..(i - 1) : key[a][j] = key[b][j]

\* The indexes from i up to the root.
Upward[i \in Nat] == IF i = 0 THEN {} ELSE {i} \cup Upward[i \div 2]

\* The elements are moved to new indexes, and each is told its index.
Move(q, heap, told) ==
  [q EXCEPT !.heap = heap,
            !.ind = [e \in DOMAIN q.ind |->
                       IF e \in {heap[j] : j \in told}
                       THEN CHOOSE j \in told : heap[j] = e ELSE q.ind[e]]]

\* The indexes, from i upward, whose parent has to come after the element
\* at i: the parent moves down to them.
Climbed(key, q, i) ==
  {j \in Upward[i] \ {1} : \A k \in Upward[i] \ {1} :
     k >= j => Before(key, q.heap[i], q.heap[k \div 2])}

Top(i, climbed) == IF climbed = {} THEN i ELSE Min(climbed) \div 2

Climb(q, i, climbed, told) ==
  Move(q, [j \in DOMAIN q.heap |->
             IF j = Top(i, climbed) THEN q.heap[i]
             ELSE IF j \in climbed THEN q.heap[j \div 2] ELSE q.heap[j]], told)

\* Faulty: the parents that move down are not told their indexes.
SiftUpQuietly(key, q, i) ==
  With(Climbed(key, q, i), LAMBDA c : Climb(q, i, c, {Top(i, c)}))

\* sift_up, with the set_index of the element that its callers do.
SiftUp(key, q, i) ==
  With(Climbed(key, q, i), LAMBDA c : Climb(q, i, c, c \cup {Top(i, c)}))

\* The children of index i, and the one of them in front.
Below(q, i) == {2 * i, 2 * i + 1} \cap DOMAIN q.heap

FrontChild(key, q, i) ==
  IF Below(q, i) = {2 * i, 2 * i + 1}
     /\ Before(key, q.heap[2 * i + 1], q.heap[2 * i])
  THEN 2 * i + 1 ELSE 2 * i

\* try_push: where element e comes to rest if pushed down from index i; a
\* child moves up unless e comes strictly before it.
Rest(key, q, e, i) ==
  LET rest[j \in Nat] ==
        IF Below(q, j) = {} \/ Before(key, e, q.heap[FrontChild(key, q, j)])
        THEN j ELSE rest[FrontChild(key, q, j)]
  IN  rest[i]

\* sift_down: the children on the way move up by one.
SiftDown(key, q, i) ==
  With(Rest(key, q, q.heap[i], i), LAMBDA r :
    LET way == Upward[r] \ Upward[i \div 2] IN
    Move(q, [j \in DOMAIN q.heap |->
               IF j = r THEN q.heap[i]
               ELSE IF j \in way
               THEN q.heap[CHOOSE k \in way : k # i /\ k \div 2 = j]
               ELSE q.heap[j]], way))

HeapAdd(key, q, e) ==
  With([q EXCEPT !.heap = Append(@, e)], LAMBDA r : SiftUp(key, r, Len(r.heap)))

HeapFront(q) == Head(q.heap)

\* The last element takes the place of the one that leaves.
DropLast(q, i) ==
  [q EXCEPT !.heap = SubSeq([q.heap EXCEPT ![i] = Last(q.heap)], 1, Len(@) - 1),
            !.ind[q.heap[i]] = 0]

HeapTake(key, q) ==
  With(DropLast(q, 1), LAMBDA r :
    IF r.heap = <<>> THEN r ELSE SiftDown(key, r, 1))

\* see_update: the element at index i has a new key.
SeeUpdate(key, q, i) ==
  With(SiftUp(key, q, i), LAMBDA r : SiftDown(key, r, r.ind[q.heap[i]]))

HeapRemove(key, q, i) ==
  With(DropLast(q, i), LAMBDA r :
    IF i <= Len(r.heap) THEN SeeUpdate(key, Move(r, r.heap, {i}), i) ELSE r)

\* Every element's key may have changed: they are added again in the order
\* of the array.
Resort(key, q) ==
  FoldLeft(LAMBDA s, e : With(s, LAMBDA r : HeapAdd(key, r, e)),
           [q EXCEPT !.heap = <<>>], q.heap)

\* to_list, which pushes each element to the front.
ToList(q) == Reverse(q.heap)

\* heap_holds and indexes_match, the queue's own diagnosis.
HeapHolds(key, q) ==
  \A i \in DOMAIN q.heap : \A c \in Below(q, i) :
    ~ Before(key, q.heap[c], q.heap[i])

IndexesMatch(q) ==
  \A e \in DOMAIN q.ind :
    IF q.ind[e] = 0 THEN \A i \in DOMAIN q.heap : q.heap[i] # e
    ELSE q.ind[e] \in DOMAIN q.heap /\ q.heap[q.ind[e]] = e

-----------------------------------------------------------------------------
(***************************************************************************)
(* The hash table: slots that hold chains sorted by hash.  Elements with   *)
(* the same hash are the same to the table, so the newer one replaces the  *)
(* older.  A table is a record of its size, its fill and its slots;        *)
(* hash[e] is the hash of element e.                                       *)
(***************************************************************************)

EmptyTable(size) ==
  [size |-> size, fill |-> 0, slots |-> [i \in 0..(size - 1) |-> <<>>]]

\* The number of elements that a walk along the chain passes on its way to
\* hash k: it stops at the first hash that is not smaller.
Passed(hash, chain, k) ==
  Cardinality({i \in DOMAIN chain : \A j \in 1..i : hash[chain[j]] < k})

\* Bucket::lookup: the elements found, one or none.
Found(hash, chain, k) ==
  LET n == Passed(hash, chain, k) + 1 IN
  IF n \in DOMAIN chain /\ hash[chain[n]] = k THEN {chain[n]} ELSE {}

\* Faulty: the new bucket becomes the head of the chain.
PushBucket(hash, chain, e) ==
  IF Found(hash, chain, hash[e]) = {} THEN <<e>> \o chain ELSE chain

\* Bucket::add: before the first greater hash, or over the equal one.
AddBucket(hash, chain, e) ==
  LET n == Passed(hash, chain, hash[e]) + 1 IN
  IF Found(hash, chain, hash[e]) # {} THEN [chain EXCEPT ![n] = e]
  ELSE InsertAt(chain, n, e)

Ind(t, k) == k % t.size

Lookup(hash, t, k) == Found(hash, t.slots[Ind(t, k)], k)

DoAdd(hash, t, e) ==
  [t EXCEPT !.slots[Ind(t, hash[e])] = AddBucket(hash, @, e)]

\* The elements in the order of for_each.
Elements(t) == FlattenSeq([i \in 1..t.size |-> t.slots[i - 1]])

Resize(hash, t) ==
  FoldLeft(LAMBDA r, e : With(r, LAMBDA u : DoAdd(hash, u, e)),
           [EmptyTable(t.size * 10) EXCEPT !.fill = t.fill], Elements(t))

TableAdd(hash, t, e) ==
  With(IF t.fill + 1 >= t.size \div 3 THEN Resize(hash, t) ELSE t,
       LAMBDA r : [DoAdd(hash, r, e) EXCEPT !.fill = @ + 1])

\* The bucket with e's hash is unlinked; this walk does not stop early.
TableRemove(hash, t, e) ==
  LET i == Ind(t, hash[e])
      rest == SelectSeq(t.slots[i], LAMBDA x : hash[x] # hash[e])
  IN  IF rest = t.slots[i] THEN t
      ELSE [t EXCEPT !.slots[i] = rest, !.fill = @ - 1]

\* prune: the size the table has grown to is kept.
Prune(t) == EmptyTable(t.size)

InTable(t) == UNION {Range(t.slots[i]) : i \in DOMAIN t.slots}

-----------------------------------------------------------------------------
(***************************************************************************)
(* The search nodes and the lists that hold them: the open lists of        *)
(* src/pq_open_list.h, the closed list and the list of inconsistent nodes. *)
(* A node is known by its number in nodes, the sequence of all nodes that  *)
(* a list has ever held; nodes holds, per node, its state, its g, its      *)
(* parent and its flags.                                                   *)
(***************************************************************************)

GetF(n) == n.g + H[n.state]

\* get_f_prime, with a weight in fixed point.
GetFPrime(n, weight) == n.g + (weight * H[n.state]) \div FPOne

\* PQOpsF: the larger g comes first among equal f.
PQOpsF(nodes) == [i \in DOMAIN nodes |-> <<GetF(nodes[i]), - nodes[i].g>>]

\* PQOpsFPrime: PQOpsF among equal f'.
PQOpsFPrime(nodes, weight) ==
  [i \in DOMAIN nodes |->
     <<GetFPrime(nodes[i], weight), GetF(nodes[i]), - nodes[i].g>>]

Hashes(nodes) == [i \in DOMAIN nodes |-> Hash[nodes[i].state]]

NewNode(s, cost, p) ==
  [state |-> s, g |-> cost, parent |-> p, open |-> FALSE, incons |-> FALSE]

\* State::update.
Update(nodes, i, p, cost) == [nodes EXCEPT ![i].parent = p, ![i].g = cost]

SetOpen(nodes, i, b) == [nodes EXCEPT ![i].open = b]

\* An open list is a queue that caches the value of its front element.
EmptyOpen == [heap |-> <<>>, ind |-> <<>>, best |-> Infinity]

SetBest(key, l) ==
  [l EXCEPT !.best = IF l.heap = <<>> THEN Infinity ELSE key[HeapFront(l)][1]]

OpenAdd(key, l, i) ==
  With(key, LAMBDA k : With(HeapAdd(k, l, i), LAMBDA r : SetBest(k, r)))

OpenTake(key, l) ==
  With(key, LAMBDA k : With(HeapTake(k, l), LAMBDA r : SetBest(k, r)))

OpenSeeUpdate(key, l, i) ==
  With(key, LAMBDA k : With(SeeUpdate(k, l, l.ind[i]), LAMBDA r : SetBest(k, r)))

OpenRemove(key, l, i) ==
  With(key, LAMBDA k : With(HeapRemove(k, l, l.ind[i]), LAMBDA r : SetBest(k, r)))

OpenResort(key, l) ==
  With(key, LAMBDA k : With(Resort(k, l), LAMBDA r : SetBest(k, r)))

\* The nodes of a sequence are added, one after the other.
OpenAddAll(key, l, seq) ==
  FoldLeft(LAMBDA s, i : With(s, LAMBDA r : OpenAdd(key, r, i)), l, seq)

\* remove_closed_nodes: nodes that are neither open nor inconsistent leave.
RemoveClosedNodes(nodes, t) ==
  FoldLeft(LAMBDA s, i : With(s, LAMBDA r : TableRemove(Hashes(nodes), r, i)), t,
           SelectSeq(Elements(t),
                     LAMBDA i : ~ nodes[i].open /\ ~ nodes[i].incons))

\* InconsList::re_open: the flags of the nodes that are opened again.
ReOpened(nodes, t) ==
  [i \in DOMAIN nodes |->
     IF i \in InTable(t) THEN [nodes[i] EXCEPT !.incons = FALSE, !.open = TRUE]
     ELSE nodes[i]]

\* The list keeps its promises to its owner: it is a heap, every node knows
\* its place, and the cached value is the front's.
ListHolds(key, l) ==
  With(key, LAMBDA k : HeapHolds(k, l) /\ IndexesMatch(l) /\ l = SetBest(k, l))

\* The table finds every node put into it, and one node per state.
TableHolds(nodes, t) ==
  /\ t.fill >= Cardinality(InTable(t))
  /\ \A i \in InTable(t) : Lookup(Hashes(nodes), t, Hash[nodes[i].state]) = {i}
=============================================================================
