---------------------------- MODULE LayeredProofs ----------------------------
(***************************************************************************)
(* Proofs about LayeredSearches for any number of threads, any projection  *)
(* and any jobs.                                                           *)
(*                                                                         *)
(* The block graph comes first: what the operations on it do to the        *)
(* counters and to the lists that free blocks wait on is shown for any     *)
(* record G that is Good, whoever calls them.  Then the threads: which     *)
(* blocks they own, and that the work on a block they own touches no list  *)
(* that a free block is on.                                                *)
(*                                                                         *)
(* Last the results.  No node is forgotten that leads to the solution a    *)
(* search promises: it is open, or expanded with every child that leads    *)
(* there made, or in some thread's hand, until the search has what it      *)
(* promises.  So when nothing is left the search has it.                   *)
(***************************************************************************)
EXTENDS LayeredSearches, SearchSpaceProofs

(***************************************************************************)
(* The interference sets                                                   *)
(***************************************************************************)

\* Who interferes with b: another block with an edge from or to b, or with
\* an edge to a common successor.
LEMMA InterferesMember ==
  ASSUME NEW a \in Blocks, NEW b \in Blocks
  PROVE  a \in Interferes[b] <=>
           /\ a # b
           /\ \/ b \in AbstractSuccs[a]
              \/ a \in AbstractSuccs[b]
              \/ \E s \in Blocks : s \in AbstractSuccs[a] /\ s \in AbstractSuccs[b]
<1>1. Interferes[b] =
        (AbstractPreds[b] \cup AbstractSuccs[b]
           \cup UNION {AbstractPreds[s] : s \in AbstractSuccs[b]}) \ {b}
  BY DEF Interferes
<1>2. \A x \in Blocks : a \in AbstractPreds[x] <=> x \in AbstractSuccs[a]
  BY DEF AbstractPreds
<1>3. AbstractSuccs[b] \subseteq Blocks
  BY LayersAssumption
<1>4. a \in UNION {AbstractPreds[s] : s \in AbstractSuccs[b]}
        <=> \E s \in Blocks : s \in AbstractSuccs[a] /\ s \in AbstractSuccs[b]
  BY <1>2, <1>3
<1>5. QED
  BY <1>1, <1>2, <1>4

\* Interferes maps each block to other blocks.
LEMMA InterferesType ==
  ASSUME NEW b \in Blocks
  PROVE  Interferes[b] \subseteq Blocks /\ b \notin Interferes[b]
BY LayersAssumption DEF Interferes, AbstractPreds

\* Interference is symmetric.
LEMMA InterferesSymmetric ==
  ASSUME NEW a \in Blocks, NEW b \in Blocks
  PROVE  a \in Interferes[b] <=> b \in Interferes[a]
BY InterferesMember

\* An edge leads to the block it starts in or to one that interferes with it.
LEMMA EdgeInterferes ==
  ASSUME NEW s \in States, NEW e \in Edges[s]
  PROVE  /\ e.to \in States /\ BlockOf[e.to] \in Blocks /\ BlockOf[s] \in Blocks
         /\ BlockOf[e.to] \in {BlockOf[s]} \cup Interferes[BlockOf[s]]
<1>1. /\ e.to \in States /\ BlockOf[e.to] \in Blocks /\ BlockOf[s] \in Blocks
      /\ BlockOf[e.to] \in AbstractSuccs[BlockOf[s]]
  BY SpaceAssumption, LayersAssumption
<1>2. QED
  BY <1>1, InterferesMember

(***************************************************************************)
(* Counting                                                                *)
(***************************************************************************)

\* The parts of an interference set are finite, so their sizes are numbers.
LEMMA CountType ==
  ASSUME NEW b \in Blocks, NEW S
  PROVE  /\ IsFiniteSet(Interferes[b] \cap S)
         /\ Cardinality(Interferes[b] \cap S) \in Nat
<1>1. IsFiniteSet(Interferes[b])
  BY InterferesType, FS_Subset, LayersAssumption
<1>2. IsFiniteSet(Interferes[b] \cap S)
  BY <1>1, FS_Intersection
<1>3. QED
  BY <1>2, FS_CardinalityType

\* A count is zero exactly when nothing is counted.
LEMMA CountZero ==
  ASSUME NEW b \in Blocks, NEW S
  PROVE  Cardinality(Interferes[b] \cap S) = 0 <=> Interferes[b] \cap S = {}
BY CountType, FS_EmptySet

\* A block that joins S is counted by the blocks it interferes with.
LEMMA CountAdd ==
  ASSUME NEW b \in Blocks, NEW S, NEW n \in Blocks, n \notin S
  PROVE  Cardinality(Interferes[b] \cap (S \cup {n})) =
           IF b \in Interferes[n] THEN Cardinality(Interferes[b] \cap S) + 1
                                  ELSE Cardinality(Interferes[b] \cap S)
<1>1. CASE b \in Interferes[n]
  <2>1. n \in Interferes[b]
    BY <1>1, InterferesSymmetric
  <2>2. Interferes[b] \cap (S \cup {n}) = (Interferes[b] \cap S) \cup {n}
    BY <2>1
  <2>3. QED
    BY <1>1, <2>2, CountType, FS_AddElement
<1>2. CASE b \notin Interferes[n]
  <2>1. n \notin Interferes[b]
    BY <1>2, InterferesSymmetric
  <2>2. Interferes[b] \cap (S \cup {n}) = Interferes[b] \cap S
    BY <2>1
  <2>3. QED
    BY <1>2, <2>2
<1>3. QED
  BY <1>1, <1>2

\* A block that leaves S is no longer counted.
LEMMA CountRemove ==
  ASSUME NEW b \in Blocks, NEW S, NEW n \in Blocks, n \in S
  PROVE  Cardinality(Interferes[b] \cap (S \ {n})) =
           IF b \in Interferes[n] THEN Cardinality(Interferes[b] \cap S) - 1
                                  ELSE Cardinality(Interferes[b] \cap S)
<1>1. CASE b \in Interferes[n]
  <2>1. n \in Interferes[b]
    BY <1>1, InterferesSymmetric
  <2>2. Interferes[b] \cap (S \ {n}) = (Interferes[b] \cap S) \ {n}
    OBVIOUS
  <2>3. n \in Interferes[b] \cap S
    BY <2>1
  <2>4. \A T : IsFiniteSet(T) /\ n \in T => Cardinality(T \ {n}) = Cardinality(T) - 1
    BY FS_RemoveElement
  <2>5. Cardinality((Interferes[b] \cap S) \ {n}) = Cardinality(Interferes[b] \cap S) - 1
    BY <2>3, <2>4, CountType
  <2>6. QED
    BY <1>1, <2>2, <2>5
<1>2. CASE b \notin Interferes[n]
  <2>1. n \notin Interferes[b]
    BY <1>2, InterferesSymmetric
  <2>2. Interferes[b] \cap (S \ {n}) = Interferes[b] \cap S
    BY <2>1
  <2>3. QED
    BY <1>2, <2>2
<1>3. QED
  BY <1>1, <1>2

-----------------------------------------------------------------------------
(***************************************************************************)
(* A good graph                                                            *)
(***************************************************************************)

GraphType(G) ==
  G \in [sigma : [Blocks -> Nat], inuse : SUBSET Blocks,
         lists : [1..2 -> [Blocks -> Nat]], layer : 1..2, value : Nat,
         inlayer : SUBSET Blocks, found : BOOLEAN]

\* A sigma counts the blocks in use that its block interferes with, and is
\* zero for those blocks themselves.
SigmasExact(G) ==
  \A b \in Blocks : /\ G.sigma[b] = Cardinality(Interferes[b] \cap G.inuse)
                    /\ b \in G.inuse => G.sigma[b] = 0

\* A block that may be taken if it has nodes.
Idle(G, b) == G.sigma[b] = 0 /\ b \notin G.inuse

\* PSDD: the lists hold the idle blocks with nodes, each where it belongs.
PSDDLists(G) ==
  \A b \in Blocks : \A l \in 1..2 :
    G.lists[l][b] = IF Idle(G, b) /\ l \in LayersOf(G, b) THEN 1 ELSE 0

\* BFPSDD: they are on one of the lists, in the layer if they have its value.
\* Only the start's block is free and not in the layer, at first.
BFPSDDLists(G) ==
  \A b \in Blocks :
    IF Idle(G, b) /\ Of(b, open[1]) # {}
    THEN /\ G.lists[Free][b] + G.lists[Queue][b] = 1
         /\ b \in G.inlayer /\ BestVal(b) = G.value => G.lists[Free][b] = 1
         /\ G.lists[Free][b] = 1 =>
              b \in G.inlayer \/ (G.inuse = {} /\ open[1] = {Start})
    ELSE G.lists[Free][b] = 0 /\ G.lists[Queue][b] = 0

Good(G) ==
  /\ GraphType(G) /\ SigmasExact(G)
  /\ IsPSDD => PSDDLists(G)
  /\ IsBFPSDD => BFPSDDLists(G)

\* A block in use keeps the others around it from being idle.
LEMMA Around ==
  ASSUME NEW G, SigmasExact(G), NEW b \in G.inuse, b \in Blocks,
         NEW c \in Interferes[b], c \in Blocks
  PROVE  G.sigma[c] # 0 /\ c \notin G.inuse
<1>1. b \in Interferes[c]
  BY InterferesSymmetric
<1>2. Interferes[c] \cap G.inuse # {}
  BY <1>1
<1>3. Cardinality(Interferes[c] \cap G.inuse) # 0
  BY <1>2, CountZero
<1>4. G.sigma[c] # 0
  BY <1>3 DEF SigmasExact
<1>5. QED
  BY <1>4 DEF SigmasExact

\* What Popped and then Acquired or Taken do to the counters.
LEMMA SigmasUp ==
  ASSUME NEW G, GraphType(G), SigmasExact(G), NEW A, GraphType(A),
         NEW b \in Blocks, Idle(G, b),
         A.inuse = G.inuse \cup {b}, A.sigma = SigmaPlus(G, b, 1)
  PROVE  SigmasExact(A)
<1> SUFFICES ASSUME NEW c \in Blocks
             PROVE  /\ A.sigma[c] = Cardinality(Interferes[c] \cap A.inuse)
                    /\ c \in A.inuse => A.sigma[c] = 0
  BY DEF SigmasExact
<1>1. A.sigma[c] = IF c \in Interferes[b] THEN G.sigma[c] + 1 ELSE G.sigma[c]
  BY DEF SigmaPlus
<1>2. A.sigma[c] = Cardinality(Interferes[c] \cap A.inuse)
  <2>1. G.sigma[c] = Cardinality(Interferes[c] \cap G.inuse)
    BY DEF SigmasExact
  <2>2. Cardinality(Interferes[c] \cap (G.inuse \cup {b})) =
          IF c \in Interferes[b] THEN Cardinality(Interferes[c] \cap G.inuse) + 1
                                 ELSE Cardinality(Interferes[c] \cap G.inuse)
    BY CountAdd DEF Idle
  <2>3. QED
    BY <1>1, <2>1, <2>2
<1>3. c \in G.inuse => c \notin Interferes[b]
  <2>1. c \in G.inuse /\ c \in Interferes[b] => b \in Interferes[c]
    BY InterferesSymmetric
  <2>2. QED
    BY <2>1, CountZero DEF SigmasExact, Idle
<1>4. b \notin Interferes[b]
  BY InterferesType
<1>5. c \in A.inuse => A.sigma[c] = 0
  BY <1>1, <1>3, <1>4 DEF SigmasExact, Idle
<1>6. QED
  BY <1>2, <1>5

\* What the release of a block does to them.
LEMMA SigmasDown ==
  ASSUME NEW G, GraphType(G), SigmasExact(G), NEW b \in G.inuse,
         NEW R, R.inuse = G.inuse \ {b}, R.sigma = SigmaPlus(G, b, -1)
  PROVE  /\ R.sigma \in [Blocks -> Nat] /\ SigmasExact(R)
         /\ \A c \in Blocks : Idle(R, c) <=> Idle(G, c) \/ c \in Unblocked(G, b) \cup {b}
         /\ \A c \in Unblocked(G, b) : c # b /\ ~Idle(G, c)
         /\ ~Idle(G, b)
<1>1. b \in Blocks /\ G.sigma \in [Blocks -> Nat] /\ G.sigma[b] = 0
      /\ b \notin Interferes[b]
  BY InterferesType DEF GraphType, SigmasExact
<1>2. ASSUME NEW c \in Blocks
      PROVE  /\ R.sigma[c] = IF c \in Interferes[b] THEN G.sigma[c] - 1 ELSE G.sigma[c]
             /\ c \in Interferes[b] => G.sigma[c] # 0 /\ c \notin G.inuse
  BY <1>1, Around DEF SigmaPlus
<1>3. ASSUME NEW c \in Blocks
      PROVE  /\ R.sigma[c] \in Nat
             /\ R.sigma[c] = Cardinality(Interferes[c] \cap R.inuse)
             /\ c \in R.inuse => R.sigma[c] = 0
  <2>1. R.sigma[c] \in Nat
    BY <1>1, <1>2
  <2>2. R.sigma[c] = Cardinality(Interferes[c] \cap R.inuse)
    <3>1. G.sigma[c] = Cardinality(Interferes[c] \cap G.inuse)
      BY DEF SigmasExact
    <3>2. Cardinality(Interferes[c] \cap (G.inuse \ {b})) =
            IF c \in Interferes[b] THEN Cardinality(Interferes[c] \cap G.inuse) - 1
                                   ELSE Cardinality(Interferes[c] \cap G.inuse)
      BY <1>1, CountRemove
    <3>3. QED
      BY <1>2, <3>1, <3>2
  <2>3. c \in R.inuse => R.sigma[c] = 0
    BY <1>2 DEF SigmasExact
  <2>4. QED
    BY <2>1, <2>2, <2>3
<1>4. R.sigma \in [Blocks -> Nat]
  BY <1>3 DEF SigmaPlus
<1>5. SigmasExact(R)
  BY <1>3 DEF SigmasExact
<1>6. ASSUME NEW c \in Blocks
      PROVE  Idle(R, c) <=> Idle(G, c) \/ c \in Unblocked(G, b) \cup {b}
  <2>1. CASE c \in Interferes[b]
    BY <1>1, <1>2, <2>1 DEF Idle, Unblocked
  <2>2. CASE c \notin Interferes[b]
    BY <1>1, <1>2, <2>2 DEF Idle, Unblocked
  <2>3. QED
    BY <2>1, <2>2
<1>7. Interferes[b] \subseteq Blocks
  BY <1>1, InterferesType
<1>8. QED
  BY <1>1, <1>2, <1>4, <1>5, <1>6, <1>7 DEF Idle, Unblocked

\* What Popped does.
LEMMA PoppedIs ==
  ASSUME NEW G, GraphType(G), NEW l \in 1..2, NEW b \in On(G.lists[l])
  PROVE  /\ GraphType(Popped(G, l, b)) /\ b \in Blocks
         /\ Popped(G, l, b).sigma = G.sigma
         /\ Popped(G, l, b).inuse = G.inuse \cup {b}
         /\ Popped(G, l, b).layer = G.layer /\ Popped(G, l, b).value = G.value
         /\ Popped(G, l, b).inlayer = G.inlayer /\ Popped(G, l, b).found = G.found
         /\ \A k \in 1..2 : \A c \in Blocks :
              Popped(G, l, b).lists[k][c] =
                IF k = l /\ c = b THEN G.lists[k][c] - 1 ELSE G.lists[k][c]
<1>1. /\ b \in Blocks /\ G.lists[l] \in [Blocks -> Nat] /\ G.lists[l][b] # 0
      /\ G.lists \in [1..2 -> [Blocks -> Nat]]
  BY DEF On, GraphType
<1> DEFINE f == [G.lists[l] EXCEPT ![b] = @ - 1]
<1>2. f \in [Blocks -> Nat]
  BY <1>1
<1>3. [G.lists EXCEPT ![l] = f] \in [1..2 -> [Blocks -> Nat]]
  BY <1>1, <1>2
<1>4. Popped(G, l, b) = [G EXCEPT !.inuse = @ \cup {b},
                                  !.lists = [G.lists EXCEPT ![l] = f]]
  BY DEF Popped
<1>5. \A k \in 1..2 : \A c \in Blocks :
        [G.lists EXCEPT ![l] = f][k][c] =
           IF k = l /\ c = b THEN G.lists[k][c] - 1 ELSE G.lists[k][c]
  BY <1>1
<1> HIDE DEF f
<1>6. PICK k : k = [G.lists EXCEPT ![l] = f]
  OBVIOUS
<1>7. PICK P : P = Popped(G, l, b)
  OBVIOUS
<1>8. P = [G EXCEPT !.inuse = @ \cup {b}, !.lists = k]
  BY <1>4, <1>6, <1>7
<1>9. /\ GraphType(P) /\ P.sigma = G.sigma /\ P.inuse = G.inuse \cup {b}
      /\ P.layer = G.layer /\ P.value = G.value
      /\ P.inlayer = G.inlayer /\ P.found = G.found /\ P.lists = k
  BY <1>1, <1>3, <1>6, <1>8 DEF GraphType
<1>10. QED
  BY <1>1, <1>5, <1>6, <1>7, <1>9

\* PSDD: a thread takes a block of the current layer.
LEMMA AcquiredGood ==
  ASSUME NEW G, GraphType(G), SigmasExact(G), PSDDLists(G),
         NEW b \in On(G.lists[G.layer]),
         NEW A, A = Acquired(Popped(G, G.layer, b), b)
  PROVE  /\ GraphType(A) /\ SigmasExact(A) /\ PSDDLists(A)
         /\ b \in Blocks /\ b \notin G.inuse /\ A.inuse = G.inuse \cup {b}
         /\ A.layer = G.layer /\ A.value = G.value /\ A.found = G.found
         /\ Of(b, open[G.layer]) # {}
<1>1. /\ G.layer \in 1..2 /\ b \in Blocks /\ G.lists[G.layer][b] # 0
      /\ G.sigma \in [Blocks -> Nat]
  BY DEF On, GraphType
<1>2. Idle(G, b) /\ G.layer \in LayersOf(G, b)
  BY <1>1 DEF PSDDLists
<1>3. Of(b, open[G.layer]) # {} /\ LayersOf(G, b) = {G.layer}
  BY <1>1, <1>2 DEF LayersOf, Other
<1>4. PICK P : P = Popped(G, G.layer, b)
  OBVIOUS
<1>5. /\ GraphType(P) /\ P.sigma = G.sigma /\ P.inuse = G.inuse \cup {b}
      /\ P.layer = G.layer /\ P.value = G.value /\ P.found = G.found
      /\ \A k \in 1..2 : \A c \in Blocks :
           P.lists[k][c] = IF k = G.layer /\ c = b THEN G.lists[k][c] - 1
                                                   ELSE G.lists[k][c]
  BY <1>1, <1>4, PoppedIs
<1> DEFINE Gone(l) == {c \in Interferes[b] : P.sigma[c] = 0 /\ l \in LayersOf(P, c)}
           f == [l \in 1..2 |-> Without(P.lists[l], Gone(l))]
<1>6. \A l \in 1..2 : \A c \in Blocks :
        f[l][c] \in Nat /\ f[l][c] = IF c \in Gone(l) THEN 0 ELSE P.lists[l][c]
  BY <1>5 DEF Without, GraphType
<1>7. f \in [1..2 -> [Blocks -> Nat]]
  BY <1>6 DEF Without
<1>8. SigmaPlus(P, b, 1) \in [Blocks -> Nat]
  BY <1>1, <1>5 DEF SigmaPlus
<1>9. A = [P EXCEPT !.sigma = SigmaPlus(P, b, 1), !.lists = f]
  BY <1>4 DEF Acquired
<1>10. SigmaPlus(P, b, 1) = SigmaPlus(G, b, 1)
  BY <1>5 DEF SigmaPlus
<1> HIDE DEF f
<1>11. /\ GraphType(A) /\ A.inuse = G.inuse \cup {b} /\ A.lists = f
       /\ A.layer = G.layer /\ A.value = G.value /\ A.found = G.found
       /\ A.sigma = SigmaPlus(G, b, 1)
  BY <1>5, <1>7, <1>8, <1>9, <1>10 DEF GraphType
<1>12. SigmasExact(A)
  BY <1>1, <1>2, <1>11, SigmasUp
<1>13. ASSUME NEW c \in Blocks, NEW l \in 1..2
       PROVE  A.lists[l][c] = IF Idle(A, c) /\ l \in LayersOf(A, c) THEN 1 ELSE 0
  <2>1. LayersOf(A, c) = LayersOf(G, c) /\ LayersOf(P, c) = LayersOf(G, c)
    BY <1>5, <1>11 DEF LayersOf
  <2>2. G.lists[l][c] = IF Idle(G, c) /\ l \in LayersOf(G, c) THEN 1 ELSE 0
    BY DEF PSDDLists
  <2>3. b \notin Interferes[b]
    BY <1>1, InterferesType
  <2>4. CASE c = b
    <3>1. A.lists[l][c] = P.lists[l][c] /\ ~Idle(A, c)
      BY <1>6, <1>11, <2>3, <2>4 DEF Idle
    <3>2. P.lists[l][c] = 0
      BY <1>2, <1>3, <1>5, <2>2, <2>4
    <3>3. QED
      BY <3>1, <3>2
  <2>5. CASE c \in Interferes[b]
    <3>1. A.sigma[c] = G.sigma[c] + 1 /\ c # b
      BY <1>11, <2>3, <2>5 DEF SigmaPlus
    <3>2. ~Idle(A, c)
      BY <1>1, <3>1 DEF Idle
    <3>3. P.lists[l][c] = 0 \/ c \in Gone(l)
      BY <1>5, <2>1, <2>2, <2>5, <3>1 DEF Idle
    <3>4. QED
      BY <1>6, <1>11, <3>2, <3>3
  <2>6. CASE c # b /\ c \notin Interferes[b]
    <3>1. A.lists[l][c] = G.lists[l][c]
      BY <1>5, <1>6, <1>11, <2>6
    <3>2. Idle(A, c) <=> Idle(G, c)
      BY <1>11, <2>6 DEF Idle, SigmaPlus
    <3>3. QED
      BY <2>1, <2>2, <3>1, <3>2
  <2>7. QED
    BY <2>4, <2>5, <2>6
<1>14. PSDDLists(A)
  BY <1>13 DEF PSDDLists
<1>15. QED
  BY <1>1, <1>2, <1>3, <1>11, <1>12, <1>14 DEF Idle

\* PSDD: a thread gives back its block, which has no node of the layer left.
LEMMA ReleasedGood ==
  ASSUME NEW G, GraphType(G), SigmasExact(G), PSDDLists(G), NEW b \in G.inuse,
         Of(b, open[G.layer]) = {}, NEW R, R = Released(G, b)
  PROVE  /\ GraphType(R) /\ SigmasExact(R) /\ PSDDLists(R)
         /\ R.inuse = G.inuse \ {b}
         /\ R.layer = G.layer /\ R.value = G.value /\ R.found = G.found
<1>1. /\ G.layer \in 1..2 /\ b \in Blocks /\ Other(G.layer) \in 1..2
      /\ Other(G.layer) # G.layer
  BY DEF GraphType, Other
<1> DEFINE next == Other(G.layer)
           self == IF Of(b, open[next]) = {} THEN {} ELSE {b}
           Added(l) == {c \in Unblocked(G, b) : l \in LayersOf(G, c)}
           f == [l \in 1..2 |-> With(G.lists[l], Added(l))]
           h == [f EXCEPT ![next] = With(@, self)]
<1>2. \A l \in 1..2 : \A c \in Blocks :
        /\ f[l][c] = IF c \in Added(l) THEN G.lists[l][c] + 1 ELSE G.lists[l][c]
        /\ G.lists[l][c] \in Nat
  BY DEF With, GraphType
<1>3. f \in [1..2 -> [Blocks -> Nat]]
  <2>1. \A l \in 1..2 : With(G.lists[l], Added(l)) \in [Blocks -> Nat]
    BY <1>2 DEF With
  <2>2. QED
    BY <2>1
<1>4. With(f[next], self) \in [Blocks -> Nat]
  BY <1>1, <1>3 DEF With
<1>5. h \in [1..2 -> [Blocks -> Nat]]
  BY <1>1, <1>3, <1>4
<1>6. \A l \in 1..2 : \A c \in Blocks :
        h[l][c] = IF l = next /\ c \in self THEN f[l][c] + 1 ELSE f[l][c]
  BY <1>1, <1>3 DEF With
<1> HIDE DEF f
<1>7. R = [G EXCEPT !.sigma = SigmaPlus(G, b, -1), !.lists = h, !.inuse = @ \ {b}]
  <2>1. PICK U : U = Unscoped(G, b)
    OBVIOUS
  <2>2. U = [G EXCEPT !.sigma = SigmaPlus(G, b, -1), !.lists = f]
    BY <2>1 DEF Unscoped, f
  <2>3. R = [U EXCEPT !.inuse = @ \ {b}, !.lists[next] = With(@, self)]
    BY <2>1 DEF Released
  <2> HIDE DEF next, self
  <2>4. QED
    BY <2>2, <2>3 DEF GraphType
<1> HIDE DEF h, next, self, Added
<1>8. R.inuse = G.inuse \ {b} /\ R.sigma = SigmaPlus(G, b, -1)
  BY <1>7 DEF GraphType
<1>9. /\ R.sigma \in [Blocks -> Nat] /\ SigmasExact(R)
      /\ \A c \in Blocks : Idle(R, c) <=> Idle(G, c) \/ c \in Unblocked(G, b) \cup {b}
      /\ \A c \in Unblocked(G, b) : c # b /\ ~Idle(G, c)
      /\ ~Idle(G, b)
  BY <1>8, SigmasDown
<1>10. /\ GraphType(R) /\ R.lists = h
       /\ R.layer = G.layer /\ R.value = G.value /\ R.found = G.found
  BY <1>5, <1>7, <1>8, <1>9 DEF GraphType
<1>11. ASSUME NEW c \in Blocks, NEW l \in 1..2
       PROVE  R.lists[l][c] = IF Idle(R, c) /\ l \in LayersOf(R, c) THEN 1 ELSE 0
  <2>1. LayersOf(R, c) = LayersOf(G, c)
    BY <1>10 DEF LayersOf
  <2>2. G.lists[l][c] = IF Idle(G, c) /\ l \in LayersOf(G, c) THEN 1 ELSE 0
    BY DEF PSDDLists
  <2>3. CASE c = b
    <3>1. LayersOf(G, c) = IF self = {} THEN {} ELSE {next}
      BY <2>3 DEF LayersOf, self, next
    <3>2. c \notin Added(l) /\ G.lists[l][c] = 0 /\ Idle(R, c)
      BY <1>9, <2>2, <2>3 DEF Added
    <3>3. c \in self <=> self # {}
      BY <2>3 DEF self
    <3>4. QED
      BY <1>2, <1>6, <1>10, <2>1, <3>1, <3>2, <3>3
  <2>4. CASE c \in Unblocked(G, b)
    <3>1. c \notin self /\ G.lists[l][c] = 0 /\ Idle(R, c)
      BY <1>9, <2>2, <2>4 DEF self
    <3>2. c \in Added(l) <=> l \in LayersOf(G, c)
      BY <2>4 DEF Added
    <3>3. QED
      BY <1>2, <1>6, <1>10, <2>1, <3>1, <3>2
  <2>5. CASE c # b /\ c \notin Unblocked(G, b)
    <3>1. c \notin self /\ c \notin Added(l) /\ (Idle(R, c) <=> Idle(G, c))
      BY <1>9, <2>5 DEF self, Added
    <3>2. QED
      BY <1>2, <1>6, <1>10, <2>1, <2>2, <3>1
  <2>6. QED
    BY <2>3, <2>4, <2>5
<1>12. PSDDLists(R)
  BY <1>11 DEF PSDDLists
<1>13. QED
  BY <1>8, <1>9, <1>10, <1>12

\* When a layer is over nothing is in use and no node of it is left.
LEMMA OverMeans ==
  ASSUME NEW G, GraphType(G), SigmasExact(G), AllSigmaZero(G), NoBlockAlone,
         NEW b \in Blocks, b \notin G.inuse
  PROVE  G.inuse = {} /\ \A c \in Blocks : Idle(G, c)
<1>1. ASSUME NEW c \in G.inuse PROVE FALSE
  <2>1. c \in Blocks /\ c # b
    BY DEF GraphType
  <2>2. Interferes[c] # {}
    BY <2>1 DEF NoBlockAlone
  <2>3. PICK d \in Interferes[c] : TRUE
    BY <2>2
  <2>4. d \in Blocks
    BY <2>1, <2>3, InterferesType
  <2>5. QED
    BY <2>1, <2>3, <2>4, Around DEF AllSigmaZero
<1>2. QED
  BY <1>1 DEF Idle, AllSigmaZero

\* PSDD turns to the next layer; if nothing is open there the search is over.
LEMMA SwitchedGood ==
  ASSUME NEW G, GraphType(G), SigmasExact(G), PSDDLists(G), LayerOver(G),
         \A c \in Blocks : Idle(G, c), open \in [1..2 -> SUBSET States],
         NEW S, S = Switched(G)
  PROVE  /\ GraphType(S) /\ SigmasExact(S) /\ PSDDLists(S)
         /\ S.inuse = G.inuse /\ S.value = G.value
         /\ open[G.layer] = {}
         /\ G.found => S.found
         /\ S.found /\ ~G.found => open = [l \in 1..2 |-> {}]
<1>1. /\ G.layer \in 1..2 /\ Other(G.layer) \in 1..2 /\ Other(G.layer) # G.layer
      /\ Other(Other(G.layer)) = G.layer
  BY DEF GraphType, Other
<1>2. /\ GraphType(S) /\ S.sigma = G.sigma /\ S.inuse = G.inuse /\ S.value = G.value
      /\ S.lists = G.lists /\ S.layer = Other(G.layer)
      /\ S.found <=> G.found \/ On(G.lists[Other(G.layer)]) = {}
  BY <1>1 DEF Switched, GraphType
<1>3. SigmasExact(S)
  BY <1>2 DEF SigmasExact
<1>4. ASSUME NEW l \in 1..2, On(G.lists[l]) = {}, NEW c \in Blocks
      PROVE  l \notin LayersOf(G, c)
  <2>1. G.lists[l][c] = 0
    BY <1>4 DEF On
  <2>2. QED
    BY <2>1 DEF PSDDLists
<1>5. ASSUME NEW c \in Blocks PROVE Of(c, open[G.layer]) = {}
  <2>1. G.layer \notin LayersOf(G, c)
    BY <1>1, <1>4 DEF LayerOver
  <2>2. QED
    BY <2>1 DEF LayersOf
<1>6. ASSUME NEW l \in 1..2, \A c \in Blocks : Of(c, open[l]) = {}
      PROVE  open[l] = {}
  <2>1. ASSUME NEW s \in open[l] PROVE FALSE
    <3>1. BlockOf[s] \in Blocks /\ s \in Of(BlockOf[s], open[l])
      BY LayersAssumption DEF Of
    <3>2. QED
      BY <1>6, <3>1
  <2>2. QED
    BY <2>1
<1>7. open[G.layer] = {}
  BY <1>1, <1>5, <1>6
<1>8. PSDDLists(S)
  <2> SUFFICES ASSUME NEW c \in Blocks PROVE LayersOf(S, c) = LayersOf(G, c)
    BY <1>2 DEF PSDDLists, Idle
  <2>1. QED
    BY <1>1, <1>2, <1>5 DEF LayersOf
<1>9. ASSUME S.found, ~G.found PROVE open[Other(G.layer)] = {}
  <2>1. On(G.lists[Other(G.layer)]) = {}
    BY <1>2, <1>9
  <2>2. \A c \in Blocks : Of(c, open[Other(G.layer)]) = {}
    BY <1>1, <1>4, <1>5, <2>1 DEF LayersOf
  <2>3. QED
    BY <1>1, <1>6, <2>2
<1>10. ASSUME S.found, ~G.found PROVE open = [l \in 1..2 |-> {}]
  <2>1. \A l \in 1..2 : l = G.layer \/ l = Other(G.layer)
    BY <1>1 DEF Other
  <2>2. \A l \in 1..2 : open[l] = {}
    BY <1>7, <1>9, <1>10, <2>1
  <2>3. QED
    BY <2>2
<1>11. QED
  BY <1>2, <1>3, <1>7, <1>8, <1>10

\* BFPSDD: a thread takes a block that is free.
LEMMA TakenGood ==
  ASSUME NEW G, GraphType(G), SigmasExact(G), BFPSDDLists(G),
         NEW b \in On(G.lists[Free]),
         NEW A, A = Taken(Popped(G, Free, b), b)
  PROVE  /\ GraphType(A) /\ SigmasExact(A) /\ BFPSDDLists(A)
         /\ b \in Blocks /\ b \notin G.inuse /\ A.inuse = G.inuse \cup {b}
         /\ A.layer = G.layer /\ A.value = G.value /\ A.found = G.found
         /\ Of(b, open[1]) # {}
<1>1. /\ Free \in 1..2 /\ Queue \in 1..2 /\ Free # Queue /\ b \in Blocks
      /\ G.lists[Free][b] # 0 /\ G.sigma \in [Blocks -> Nat]
      /\ \A l \in 1..2 : \A c \in Blocks : G.lists[l][c] \in Nat
  BY DEF On, GraphType, Free, Queue
<1>2. Idle(G, b) /\ Of(b, open[1]) # {}
  BY <1>1 DEF BFPSDDLists
<1>3. G.lists[Free][b] + G.lists[Queue][b] = 1
  BY <1>1, <1>2 DEF BFPSDDLists
<1>4. G.lists[Free][b] = 1 /\ G.lists[Queue][b] = 0
  BY <1>1, <1>3
<1>5. PICK P : P = Popped(G, Free, b)
  OBVIOUS
<1>6. /\ GraphType(P) /\ P.sigma = G.sigma /\ P.inuse = G.inuse \cup {b}
      /\ P.layer = G.layer /\ P.value = G.value /\ P.found = G.found
      /\ P.inlayer = G.inlayer
      /\ \A k \in 1..2 : \A c \in Blocks :
           P.lists[k][c] = IF k = Free /\ c = b THEN G.lists[k][c] - 1
                                                ELSE G.lists[k][c]
  BY <1>1, <1>5, PoppedIs
<1> DEFINE Gone == {c \in Interferes[b] : P.sigma[c] = 0}
           f == [l \in 1..2 |-> Without(P.lists[l], Gone)]
<1>7. \A l \in 1..2 : \A c \in Blocks :
        f[l][c] \in Nat /\ f[l][c] = IF c \in Gone THEN 0 ELSE P.lists[l][c]
  BY <1>6 DEF Without, GraphType
<1>8. f \in [1..2 -> [Blocks -> Nat]]
  BY <1>7 DEF Without
<1>9. SigmaPlus(P, b, 1) \in [Blocks -> Nat]
  BY <1>1, <1>6 DEF SigmaPlus
<1>10. A = [P EXCEPT !.sigma = SigmaPlus(P, b, 1), !.lists = f]
  BY <1>5 DEF Taken
<1>11. SigmaPlus(P, b, 1) = SigmaPlus(G, b, 1)
  BY <1>6 DEF SigmaPlus
<1> HIDE DEF f
<1>12. /\ GraphType(A) /\ A.inuse = G.inuse \cup {b} /\ A.lists = f
       /\ A.layer = G.layer /\ A.value = G.value /\ A.found = G.found
       /\ A.sigma = SigmaPlus(G, b, 1) /\ A.inlayer = G.inlayer
  BY <1>6, <1>8, <1>9, <1>10, <1>11 DEF GraphType
<1>13. SigmasExact(A)
  BY <1>1, <1>2, <1>12, SigmasUp
<1>14. ASSUME NEW c \in Blocks
       PROVE  IF Idle(A, c) /\ Of(c, open[1]) # {}
              THEN /\ A.lists[Free][c] + A.lists[Queue][c] = 1
                   /\ c \in A.inlayer /\ BestVal(c) = A.value => A.lists[Free][c] = 1
                   /\ A.lists[Free][c] = 1 =>
                        c \in A.inlayer \/ (A.inuse = {} /\ open[1] = {Start})
              ELSE A.lists[Free][c] = 0 /\ A.lists[Queue][c] = 0
  <2>1. b \notin Interferes[b]
    BY <1>1, InterferesType
  <2>2. CASE c = b
    <3>1. A.lists[Free][c] = P.lists[Free][c] /\ A.lists[Queue][c] = P.lists[Queue][c]
          /\ ~Idle(A, c)
      BY <1>1, <1>7, <1>12, <2>1, <2>2 DEF Idle
    <3>2. P.lists[Free][c] = 0 /\ P.lists[Queue][c] = 0
      BY <1>1, <1>4, <1>6, <2>2
    <3>3. QED
      BY <3>1, <3>2
  <2>3. CASE c \in Interferes[b]
    <3>1. A.sigma[c] = G.sigma[c] + 1 /\ c # b
      BY <1>12, <2>1, <2>3 DEF SigmaPlus
    <3>2. ~Idle(A, c)
      BY <1>1, <3>1 DEF Idle
    <3>3. c \in Gone \/ ~Idle(G, c)
      BY <1>6, <2>3 DEF Idle
    <3>4. c \in Gone \/ (G.lists[Free][c] = 0 /\ G.lists[Queue][c] = 0)
      BY <3>3 DEF BFPSDDLists
    <3>5. A.lists[Free][c] = 0 /\ A.lists[Queue][c] = 0
      BY <1>1, <1>6, <1>7, <1>12, <3>1, <3>4
    <3>6. QED
      BY <3>2, <3>5
  <2>4. CASE c # b /\ c \notin Interferes[b]
    <3>1. A.lists[Free][c] = G.lists[Free][c] /\ A.lists[Queue][c] = G.lists[Queue][c]
      BY <1>1, <1>6, <1>7, <1>12, <2>4
    <3>2. Idle(A, c) <=> Idle(G, c)
      BY <1>12, <2>4 DEF Idle, SigmaPlus
    <3>3. CASE ~(Idle(G, c) /\ Of(c, open[1]) # {})
      BY <3>1, <3>2, <3>3 DEF BFPSDDLists
    <3>4. CASE Idle(G, c) /\ Of(c, open[1]) # {}
      <4>1. ~(open[1] = {Start})
        <5> SUFFICES ASSUME open[1] = {Start} PROVE FALSE
          OBVIOUS
        <5>1. BlockOf[Start] = c /\ BlockOf[Start] = b
          BY <1>2, <3>4 DEF Of
        <5>2. QED
          BY <2>4, <5>1
      <4>2. /\ G.lists[Free][c] + G.lists[Queue][c] = 1
            /\ c \in G.inlayer /\ BestVal(c) = G.value => G.lists[Free][c] = 1
            /\ G.lists[Free][c] = 1 => c \in G.inlayer
        BY <3>4, <4>1 DEF BFPSDDLists
      <4>3. QED
        BY <1>12, <3>1, <3>2, <3>4, <4>2
    <3>5. QED
      BY <3>3, <3>4
  <2>5. QED
    BY <2>2, <2>3, <2>4
<1>15. BFPSDDLists(A)
  BY <1>14 DEF BFPSDDLists
<1>16. QED
  BY <1>1, <1>2, <1>12, <1>13, <1>15 DEF Idle

\* BFPSDD: a thread gives back its block, whether or not it is empty.
LEMMA GivenBackGood ==
  ASSUME NEW G, GraphType(G), SigmasExact(G), BFPSDDLists(G), NEW b \in G.inuse,
         NEW R, R = GivenBack(G, b)
  PROVE  /\ GraphType(R) /\ SigmasExact(R) /\ BFPSDDLists(R)
         /\ R.inuse = G.inuse \ {b}
         /\ R.layer = G.layer /\ R.value = G.value /\ R.found = G.found
<1>1. /\ Free \in 1..2 /\ Queue \in 1..2 /\ Free # Queue /\ b \in Blocks
      /\ \A l \in 1..2 : \A c \in Blocks : G.lists[l][c] \in Nat
  BY DEF GraphType, Free, Queue
<1> DEFINE queued == IF Of(b, open[1]) = {} THEN {} ELSE {b}
           k == [G.lists EXCEPT ![Queue] = With(@, queued)]
<1>2. With(G.lists[Queue], queued) \in [Blocks -> Nat]
  BY <1>1 DEF With
<1>3. k \in [1..2 -> [Blocks -> Nat]]
  BY <1>1, <1>2 DEF GraphType
<1>4. \A l \in 1..2 : \A c \in Blocks :
        k[l][c] = IF l = Queue /\ c \in queued THEN G.lists[l][c] + 1
                                               ELSE G.lists[l][c]
  BY <1>1 DEF With, GraphType
<1> HIDE DEF k
<1>5. PICK Q : Q = [G EXCEPT !.inlayer = @ \ {b}, !.lists = k]
  OBVIOUS
<1>6. /\ GraphType(Q) /\ Q.sigma = G.sigma /\ Q.inuse = G.inuse
      /\ Q.layer = G.layer /\ Q.value = G.value /\ Q.found = G.found
      /\ Q.inlayer = G.inlayer \ {b} /\ Q.lists = k
  BY <1>3, <1>5 DEF GraphType
<1>7. R = [Unblock(Q, b) EXCEPT !.inuse = @ \ {b}]
  <2>1. Q = [G EXCEPT !.inlayer = @ \ {b}, !.lists[Queue] = With(@, queued)]
    BY <1>5 DEF GraphType, k
  <2>2. QED
    BY <2>1 DEF GivenBack
<1>8. Unblocked(Q, b) = Unblocked(G, b) /\ SigmaPlus(Q, b, -1) = SigmaPlus(G, b, -1)
  BY <1>6 DEF Unblocked, SigmaPlus
<1> DEFINE Added(l) == {c \in Unblocked(G, b) : Of(c, open[1]) # {} /\ QueueOf(Q, c) = l}
           f == [l \in 1..2 |-> With(Q.lists[l], Added(l))]
<1>9. \A l \in 1..2 : \A c \in Blocks :
        /\ f[l][c] = IF c \in Added(l) THEN k[l][c] + 1 ELSE k[l][c]
        /\ k[l][c] \in Nat
  BY <1>3, <1>6 DEF With
<1>10. f \in [1..2 -> [Blocks -> Nat]]
  <2>1. \A l \in 1..2 : With(Q.lists[l], Added(l)) \in [Blocks -> Nat]
    BY <1>9 DEF With
  <2>2. QED
    BY <2>1
<1>11. PICK U : U = Unblock(Q, b)
  OBVIOUS
<1>12. U = [Q EXCEPT !.sigma = SigmaPlus(G, b, -1), !.lists = f]
  BY <1>8, <1>11 DEF Unblock
<1> HIDE DEF f, queued, Added
<1>13. /\ R.inuse = G.inuse \ {b} /\ R.sigma = SigmaPlus(G, b, -1)
  BY <1>6, <1>7, <1>11, <1>12 DEF GraphType
<1>14. /\ R.sigma \in [Blocks -> Nat] /\ SigmasExact(R)
       /\ \A c \in Blocks : Idle(R, c) <=> Idle(G, c) \/ c \in Unblocked(G, b) \cup {b}
       /\ \A c \in Unblocked(G, b) : c # b /\ ~Idle(G, c)
       /\ ~Idle(G, b)
  BY <1>13, SigmasDown
<1>15. /\ GraphType(R) /\ R.lists = f /\ R.inlayer = G.inlayer \ {b}
       /\ R.layer = G.layer /\ R.value = G.value /\ R.found = G.found
  <2>1. SigmaPlus(G, b, -1) \in [Blocks -> Nat]
    BY <1>13, <1>14
  <2>2. /\ GraphType(U) /\ U.lists = f /\ U.inlayer = G.inlayer \ {b}
        /\ U.layer = G.layer /\ U.value = G.value /\ U.found = G.found
        /\ U.inuse = G.inuse
    BY <1>6, <1>10, <1>12, <2>1 DEF GraphType
  <2>3. R = [U EXCEPT !.inuse = @ \ {b}]
    BY <1>7, <1>11
  <2>4. QED
    BY <2>2, <2>3 DEF GraphType
<1>16. ASSUME NEW c \in Blocks
       PROVE  IF Idle(R, c) /\ Of(c, open[1]) # {}
              THEN /\ R.lists[Free][c] + R.lists[Queue][c] = 1
                   /\ c \in R.inlayer /\ BestVal(c) = R.value => R.lists[Free][c] = 1
                   /\ R.lists[Free][c] = 1 =>
                        c \in R.inlayer \/ (R.inuse = {} /\ open[1] = {Start})
              ELSE R.lists[Free][c] = 0 /\ R.lists[Queue][c] = 0
  <2>1. \A l \in 1..2 :
          R.lists[l][c] = IF c \in Added(l)
                          THEN IF l = Queue /\ c \in queued THEN G.lists[l][c] + 2
                                                            ELSE G.lists[l][c] + 1
                          ELSE IF l = Queue /\ c \in queued THEN G.lists[l][c] + 1
                                                            ELSE G.lists[l][c]
    BY <1>1, <1>4, <1>9, <1>15
  <2>2. ~Idle(G, c) => G.lists[Free][c] = 0 /\ G.lists[Queue][c] = 0
    BY DEF BFPSDDLists
  <2>3. CASE c = b
    <3>1. c \notin Added(Free) /\ c \notin Added(Queue) /\ Idle(R, c)
      BY <1>14, <2>3 DEF Added
    <3>2. G.lists[Free][c] = 0 /\ G.lists[Queue][c] = 0
      BY <1>14, <2>2, <2>3
    <3>3. R.lists[Free][c] = 0 /\ R.lists[Queue][c] = IF c \in queued THEN 1 ELSE 0
      BY <1>1, <2>1, <3>1, <3>2
    <3>4. c \in queued <=> Of(c, open[1]) # {}
      BY <2>3 DEF queued
    <3>5. c \notin R.inlayer
      BY <1>15, <2>3
    <3>6. QED
      BY <3>1, <3>3, <3>4, <3>5
  <2>4. CASE c \in Unblocked(G, b)
    <3>1. c # b /\ Idle(R, c) /\ c \notin queued
      BY <1>14, <2>4 DEF queued
    <3>2. G.lists[Free][c] = 0 /\ G.lists[Queue][c] = 0
      BY <1>14, <2>2, <2>4
    <3>3. \A l \in 1..2 : R.lists[l][c] = IF c \in Added(l) THEN 1 ELSE 0
      BY <1>1, <2>1, <3>1, <3>2
    <3>4. \A l \in 1..2 : c \in Added(l) <=> Of(c, open[1]) # {} /\ QueueOf(Q, c) = l
      BY <2>4 DEF Added
    <3>5. QueueOf(Q, c) = IF BestVal(c) = R.value /\ c \in R.inlayer THEN Free ELSE Queue
      BY <1>6, <1>15 DEF QueueOf
    <3>6. R.lists[Free][c] = IF Of(c, open[1]) # {} /\ QueueOf(Q, c) = Free THEN 1 ELSE 0
      BY <1>1, <3>3, <3>4
    <3>7. R.lists[Queue][c] = IF Of(c, open[1]) # {} /\ QueueOf(Q, c) = Queue THEN 1 ELSE 0
      BY <1>1, <3>3, <3>4
    <3>8. QED
      BY <1>1, <3>1, <3>5, <3>6, <3>7
  <2>5. CASE c # b /\ c \notin Unblocked(G, b)
    <3>1. c \notin queued /\ c \notin Added(Free) /\ c \notin Added(Queue)
          /\ (Idle(R, c) <=> Idle(G, c))
      BY <1>14, <2>5 DEF queued, Added
    <3>2. R.lists[Free][c] = G.lists[Free][c] /\ R.lists[Queue][c] = G.lists[Queue][c]
      BY <1>1, <2>1, <3>1
    <3>3. c \in R.inlayer <=> c \in G.inlayer
      BY <1>15, <2>5
    <3>4. G.inuse # {}
      OBVIOUS
    <3>5. QED
      BY <1>15, <3>1, <3>2, <3>3, <3>4 DEF BFPSDDLists
  <2>6. QED
    BY <2>3, <2>4, <2>5
<1>17. BFPSDDLists(R)
  BY <1>16 DEF BFPSDDLists
<1>18. QED
  BY <1>13, <1>14, <1>15, <1>17

\* BFPSDD fills the next layer; if there is nothing to fill it with the
\* search is over.
LEMMA FilledGood ==
  ASSUME NEW G, GraphType(G), SigmasExact(G), BFPSDDLists(G), LayerDone(G),
         \A c \in Blocks : Idle(G, c), open \in [1..2 -> SUBSET States],
         \A c \in Blocks : BestVal(c) \in Nat,
         NEW S, S = Filled(G)
  PROVE  /\ GraphType(S) /\ SigmasExact(S) /\ BFPSDDLists(S)
         /\ S.inuse = G.inuse /\ S.layer = G.layer
         /\ G.found => S.found
         /\ S.found /\ ~G.found => open[1] = {}
<1>1. /\ Free \in 1..2 /\ Queue \in 1..2 /\ Free # Queue
      /\ \A l \in 1..2 : \A c \in Blocks : G.lists[l][c] \in Nat
  BY DEF GraphType, Free, Queue
<1> DEFINE waiting == On(G.lists[Queue])
           first == {b \in waiting : InLayer(G, b)}
           values == {Infinity} \cup {BestVal(b) : b \in waiting}
           f == [l \in 1..2 |-> IF l = Free THEN With(G.lists[Free], first)
                                            ELSE Without(G.lists[Queue], first)]
<1>2. waiting \subseteq Blocks
  BY DEF On
<1>3. values \in SUBSET Nat /\ values # {}
  BY <1>2, SpaceAssumption
<1>4. Min(values) \in Nat /\ \A c \in waiting : Min(values) <= BestVal(c)
  BY <1>3, MinIsLeast
<1>5. \A c \in Blocks : /\ f[Free][c] = IF c \in first THEN G.lists[Free][c] + 1
                                                      ELSE G.lists[Free][c]
                        /\ f[Queue][c] = IF c \in first THEN 0 ELSE G.lists[Queue][c]
  BY <1>1 DEF With, Without
<1>6. f \in [1..2 -> [Blocks -> Nat]]
  <2>1. With(G.lists[Free], first) \in [Blocks -> Nat]
    BY <1>1 DEF With
  <2>2. Without(G.lists[Queue], first) \in [Blocks -> Nat]
    BY <1>1 DEF Without
  <2>3. QED
    BY <2>1, <2>2
<1>7. S = [G EXCEPT !.value = Min(values), !.lists = f, !.inlayer = @ \cup first,
                    !.found = @ \/ first = {}]
  BY DEF Filled
<1>8. first \subseteq waiting
  OBVIOUS
<1>9. ASSUME NEW c \in waiting, \A d \in waiting : BestVal(c) <= BestVal(d)
      PROVE  c \in first
  BY <1>9 DEF InLayer
<1> HIDE DEF f, first, values
<1>10. /\ GraphType(S) /\ S.sigma = G.sigma /\ S.inuse = G.inuse /\ S.layer = G.layer
       /\ S.value = Min(values) /\ S.lists = f /\ S.inlayer = G.inlayer \cup first
       /\ S.found <=> G.found \/ first = {}
  BY <1>2, <1>4, <1>6, <1>7, <1>8 DEF GraphType
<1>11. SigmasExact(S)
  BY <1>10 DEF SigmasExact
<1>12. \A c \in Blocks : G.lists[Free][c] = 0
  BY DEF LayerDone, On
<1>13. \A c \in Blocks : c \in waiting <=> Of(c, open[1]) # {}
  <2> SUFFICES ASSUME NEW c \in Blocks PROVE c \in waiting <=> Of(c, open[1]) # {}
    OBVIOUS
  <2>1. /\ Of(c, open[1]) # {} => G.lists[Free][c] + G.lists[Queue][c] = 1
        /\ Of(c, open[1]) = {} => G.lists[Queue][c] = 0
    BY DEF BFPSDDLists
  <2>2. QED
    BY <1>1, <1>12, <2>1 DEF On
<1>14. ASSUME NEW c \in Blocks
       PROVE  IF Idle(S, c) /\ Of(c, open[1]) # {}
              THEN /\ S.lists[Free][c] + S.lists[Queue][c] = 1
                   /\ c \in S.inlayer /\ BestVal(c) = S.value => S.lists[Free][c] = 1
                   /\ S.lists[Free][c] = 1 =>
                        c \in S.inlayer \/ (S.inuse = {} /\ open[1] = {Start})
              ELSE S.lists[Free][c] = 0 /\ S.lists[Queue][c] = 0
  <2>1. Idle(S, c)
    BY <1>10 DEF Idle
  <2>2. CASE Of(c, open[1]) = {}
    <3>1. c \notin first
      BY <1>8, <1>13, <2>2
    <3>2. S.lists[Free][c] = 0 /\ S.lists[Queue][c] = G.lists[Queue][c]
      BY <1>5, <1>10, <1>12, <3>1
    <3>3. G.lists[Queue][c] = 0
      BY <2>2 DEF BFPSDDLists
    <3>4. QED
      BY <2>2, <3>2, <3>3
  <2>3. CASE Of(c, open[1]) # {}
    <3>1. c \in waiting
      BY <1>13, <2>3
    <3>2. G.lists[Free][c] + G.lists[Queue][c] = 1
      BY <2>3 DEF BFPSDDLists
    <3>3. G.lists[Queue][c] = 1 /\ G.lists[Free][c] = 0
      BY <1>1, <1>12, <3>2
    <3>4. CASE c \in first
      BY <1>5, <1>10, <2>1, <2>3, <3>3, <3>4
    <3>5. CASE c \notin first
      <4>1. S.lists[Free][c] = 0 /\ S.lists[Queue][c] = 1
        BY <1>5, <1>10, <3>3, <3>5
      <4>2. BestVal(c) # S.value
        BY <1>4, <1>9, <1>10, <3>1, <3>5
      <4>3. QED
        BY <2>1, <2>3, <4>1, <4>2
    <3>6. QED
      BY <3>4, <3>5
  <2>4. QED
    BY <2>2, <2>3
<1>15. BFPSDDLists(S)
  BY <1>14 DEF BFPSDDLists
<1>16. ASSUME waiting # {} PROVE first # {}
  <2> DEFINE bests == {BestVal(c) : c \in waiting}
  <2>1. bests \in SUBSET Nat /\ bests # {}
    BY <1>2, <1>16
  <2>2. PICK m \in bests : \A k \in bests : m <= k
    BY <2>1, LeastNatural
  <2>3. PICK c \in waiting : m = BestVal(c)
    OBVIOUS
  <2>4. c \in first
    BY <1>9, <2>2, <2>3
  <2>5. QED
    BY <2>4
<1>17. ASSUME S.found, ~G.found PROVE open[1] = {}
  <2>1. waiting = {}
    BY <1>10, <1>16, <1>17
  <2>2. ASSUME NEW s \in open[1] PROVE FALSE
    <3>1. BlockOf[s] \in Blocks /\ s \in Of(BlockOf[s], open[1])
      BY LayersAssumption DEF Of
    <3>2. QED
      BY <1>13, <2>1, <3>1
  <2>3. QED
    BY <2>2
<1>18. QED
  BY <1>10, <1>11, <1>15, <1>17

\* The graph of a new search is good.
LEMMA NewGraphGood ==
  ASSUME NEW v \in Nat, open = NewOpen, NEW G, G = NewGraph(v)
  PROVE  Good(G) /\ G.inuse = {} /\ G.layer = 1 /\ ~G.found
<1>1. Start \in States /\ BlockOf[Start] \in Blocks
  BY SpaceAssumption, LayersAssumption
<1> DEFINE f == [l \in 1..2 |-> IF l = 1 THEN With(NoBlocks, {BlockOf[Start]})
                                         ELSE NoBlocks]
<1>2. \A l \in 1..2 : \A c \in Blocks :
        f[l][c] = IF l = 1 /\ c = BlockOf[Start] THEN 1 ELSE 0
  BY DEF With, NoBlocks
<1>3. f \in [1..2 -> [Blocks -> Nat]]
  <2>1. With(NoBlocks, {BlockOf[Start]}) \in [Blocks -> Nat]
    BY DEF With, NoBlocks
  <2>2. NoBlocks \in [Blocks -> Nat]
    BY DEF NoBlocks
  <2>3. QED
    BY <2>1, <2>2
<1>4. G = [sigma |-> [c \in Blocks |-> 0], inuse |-> {}, lists |-> f, layer |-> 1,
           value |-> v, inlayer |-> {}, found |-> FALSE]
  BY DEF NewGraph
<1> HIDE DEF f
<1>5. /\ GraphType(G) /\ G.inuse = {} /\ G.layer = 1 /\ ~G.found /\ G.lists = f
      /\ \A c \in Blocks : G.sigma[c] = 0
  BY <1>3, <1>4 DEF GraphType
<1>6. SigmasExact(G)
  BY <1>5, CountZero DEF SigmasExact
<1>7. \A c \in Blocks : Idle(G, c)
  BY <1>5 DEF Idle
<1>8. open[1] = {Start} /\ open[2] = {}
  BY DEF NewOpen
<1>9. \A c \in Blocks : /\ Of(c, open[1]) # {} <=> c = BlockOf[Start]
                        /\ Of(c, open[2]) = {}
  BY <1>8 DEF Of
<1>10. PSDDLists(G)
  <2> SUFFICES ASSUME NEW c \in Blocks, NEW l \in 1..2
               PROVE  G.lists[l][c] = IF l \in LayersOf(G, c) THEN 1 ELSE 0
    BY <1>7 DEF PSDDLists
  <2>1. LayersOf(G, c) = IF c = BlockOf[Start] THEN {1} ELSE {}
    BY <1>5, <1>9 DEF LayersOf, Other
  <2>2. QED
    BY <1>2, <1>5, <2>1
<1>11. BFPSDDLists(G)
  <2> SUFFICES ASSUME NEW c \in Blocks
               PROVE  IF c = BlockOf[Start]
                      THEN G.lists[1][c] = 1 /\ G.lists[2][c] = 0
                      ELSE G.lists[1][c] = 0 /\ G.lists[2][c] = 0
    BY <1>5, <1>7, <1>8, <1>9 DEF BFPSDDLists, Free, Queue
  <2>1. QED
    BY <1>2, <1>5
<1>12. QED
  BY <1>5, <1>6, <1>10, <1>11 DEF Good

-----------------------------------------------------------------------------
(***************************************************************************)
(* The costs                                                               *)
(***************************************************************************)

Dearest == CHOOSE dearest \in Nat : Affords(dearest)

\* The nodes that have been made.
Made == {s \in States : g[s] # Infinity}

\* A node that is made costs no more than a path through the nodes made.
LowCosts ==
  /\ \A s \in Made : g[s] + Dearest <= Cardinality(Made) * Dearest
  /\ \A t \in Threads : \A c \in todo[t] : c[2] <= Cardinality(Made) * Dearest

\* Multiplication keeps the order.
LEMMA TimesMonotone ==
  ASSUME NEW c \in Nat, NEW x \in Nat, NEW y \in Nat, x <= y
  PROVE  x * c <= y * c /\ x * c \in Nat /\ y * c \in Nat
<1>1. y - x \in Nat /\ y = x + (y - x)
  OBVIOUS
<1>2. (y - x) * c \in Nat /\ y * c = x * c + (y - x) * c
  BY <1>1
<1>3. QED
  BY <1>2

LEMMA DearestAffords ==
  ASSUME CostsFit
  PROVE  /\ Dearest \in Nat
         /\ \A s \in States : \A e \in Edges[s] : e.cost <= Dearest
         /\ \A j \in Jobs : \A s \in States :
              j.weight * (FpOne * (Cardinality(States) * Dearest + H[s])) < Infinity
<1>1. PICK d \in Nat : Affords(d)
  BY DEF CostsFit
<1>2. Dearest \in Nat /\ Affords(Dearest)
  BY <1>1 DEF Dearest
<1>3. QED
  BY <1>2 DEF Affords

\* The weighted and scaled f of a node that costs v is less than Infinity.
LEMMA CostFits ==
  ASSUME CostsFit, NEW j \in Jobs, NEW s \in States, NEW v \in Nat,
         v <= Cardinality(States) * Dearest
  PROVE  /\ j.weight * (FpOne * (v + H[s])) < Infinity /\ v + H[s] < Infinity
         /\ v < Infinity
<1>1. /\ Dearest \in Nat /\ Infinity \in Nat
      /\ j.weight * (FpOne * (Cardinality(States) * Dearest + H[s])) < Infinity
  BY DearestAffords, SpaceAssumption
<1>2. /\ H[s] \in Nat /\ FpOne \in Nat \ {0} /\ j.weight \in Nat \ {0}
      /\ Cardinality(States) \in Nat
  BY SpaceAssumption, LayersAssumption, JobsAssumption, FS_CardinalityType
<1>3. PICK x : x = Cardinality(States) * Dearest + H[s]
  OBVIOUS
<1>4. x \in Nat /\ v + H[s] \in Nat /\ v + H[s] <= x
  BY <1>1, <1>2, <1>3
<1>5. /\ FpOne * (v + H[s]) <= FpOne * x
      /\ FpOne * (v + H[s]) \in Nat /\ FpOne * x \in Nat
  BY <1>2, <1>4, TimesMonotone
<1>6. j.weight * (FpOne * (v + H[s])) <= j.weight * (FpOne * x)
  BY <1>2, <1>5, TimesMonotone
<1>7. ASSUME NEW a \in Nat \ {0}, NEW b \in Nat PROVE b <= a * b /\ a * b \in Nat
  BY TimesMonotone
<1>8. /\ v + H[s] <= FpOne * (v + H[s])
      /\ FpOne * (v + H[s]) <= j.weight * (FpOne * (v + H[s]))
      /\ j.weight * (FpOne * (v + H[s])) \in Nat /\ j.weight * (FpOne * x) \in Nat
  BY <1>2, <1>4, <1>5, <1>7
<1>9. j.weight * (FpOne * (v + H[s])) < Infinity
  BY <1>1, <1>3, <1>6, <1>8
<1>10. v + H[s] < Infinity
  BY <1>1, <1>4, <1>5, <1>8, <1>9
<1>11. QED
  BY <1>1, <1>2, <1>9, <1>10

\* The paths through some states are no longer than those through all.
LEMMA SomeStates ==
  ASSUME CostsFit, NEW S \in SUBSET States
  PROVE  /\ Cardinality(S) \in Nat /\ Cardinality(S) * Dearest \in Nat
         /\ Cardinality(S) * Dearest <= Cardinality(States) * Dearest
         /\ IsFiniteSet(S)
<1>1. IsFiniteSet(States)
  BY SpaceAssumption
<1>2. IsFiniteSet(S) /\ Cardinality(S) <= Cardinality(States)
  BY <1>1, FS_Subset
<1>3. Cardinality(S) \in Nat /\ Cardinality(States) \in Nat /\ Dearest \in Nat
  BY <1>1, <1>2, FS_CardinalityType, DearestAffords
<1>4. QED
  BY <1>2, <1>3, TimesMonotone

-----------------------------------------------------------------------------
(***************************************************************************)
(* The threads                                                             *)
(***************************************************************************)

\* Where the threads are.
Spots == {"next", "wait", "woken", "none", "search", "child", "path", "tell",
          "lower", "test", "finish", "end"}

\* The blocks in use are those that threads own, each owned by one.
Owned ==
  /\ graph.inuse = {blk[t] : t \in Threads} \ {None}
  /\ \A t, u \in Threads : t # u /\ blk[t] # None => blk[t] # blk[u]

\* What a thread has at the places of the code.
Owner(t) ==
  /\ pc[t] \in {"search", "child"} => blk[t] # None
  /\ pc[t] \in {"wait", "woken", "none"} => blk[t] = None
  /\ pc[t] # "child" => todo[t] = {}
  /\ pc[t] = "child" =>
       /\ BlockOf[cur[t]] = blk[t]
       /\ todo[t] # {} /\ todo[t] \subseteq Children(cur[t], g[cur[t]])
  /\ pc[t] \in {"child", "path"} => cur[t] \in Made

\* PSDD: a thread gives its block back without nodes of the layer, unless
\* there is a path, and leaves the loop when there is a path or nothing to do.
PSDDOwner(t) ==
  /\ pc[t] \in {"next", "test"} /\ blk[t] # None =>
       \/ Of(blk[t], open[graph.layer]) = {}
       \/ pc[t] = "test" /\ best # Infinity
  /\ pc[t] = "tell" => best # Infinity
  /\ pc[t] \in {"none", "end"} => graph.found \/ best # Infinity

\* The graph knows of a path, or a thread is about to say so.
Told == best # Infinity => graph.found \/ \E t \in Threads : pc[t] = "tell"

IInv ==
  /\ TypeOK /\ Good(graph) /\ Owned /\ LowCosts
  /\ \A t \in Threads : Owner(t)
  /\ IsPSDD => Told /\ \A t \in Threads : PSDDOwner(t)
  /\ \A l \in 1..2 : open[l] \subseteq Made

\* The best value of a block is a number.
LEMMA BestValType ==
  ASSUME TypeOK, NEW b
  PROVE  /\ BestVal(b) \in Nat /\ BestVal(b) <= Infinity
         /\ \A s \in Of(b, open[1]) : BestVal(b) <= FPrime(s, g[s])
         /\ BestVal(b) = Infinity \/ \E s \in Of(b, open[1]) : BestVal(b) = FPrime(s, g[s])
<1>1. /\ job.weight \in Nat /\ open[1] \subseteq States /\ g \in [States -> Nat]
      /\ H \in [States -> Nat] /\ Infinity \in Nat
  BY SpaceAssumption, JobsAssumption DEF TypeOK
<1>2. \A s \in States : FPrime(s, g[s]) \in Nat
  BY <1>1 DEF FPrime
<1> DEFINE T == {Infinity} \cup {FPrime(s, g[s]) : s \in Of(b, open[1])}
<1>3. T \in SUBSET Nat /\ T # {}
  BY <1>1, <1>2 DEF Of
<1>4. Min(T) \in T /\ \A x \in T : Min(T) <= x
  BY <1>3, MinIsLeast
<1>5. BestVal(b) = Min(T)
  BY DEF BestVal
<1>6. QED
  BY <1>3, <1>4, <1>5

\* The type of the graph and of the block that a thread owns.
LEMMA OwnedBlock ==
  ASSUME TypeOK, Owned, NEW t \in Threads, blk[t] # None
  PROVE  blk[t] \in graph.inuse /\ blk[t] \in Blocks /\ GraphType(graph)
BY DEF TypeOK, Owned, GraphType

\* A record that the new state has for its graph is as good there as here,
\* if the lists of nodes stay as they are.
LEMMA GoodStays ==
  ASSUME NEW S, S = graph', Good(S), UNCHANGED <<job, open, g>>
  PROVE  Good(graph)'
<1>1. GraphType(graph)' /\ SigmasExact(graph)'
  BY DEF Good, GraphType, SigmasExact
<1>2. ASSUME PSDDLists(S) PROVE PSDDLists(graph)'
  BY <1>2 DEF PSDDLists, Idle, LayersOf, Of
<1>3. \A b : BestVal(b)' = BestVal(b) /\ Of(b, open[1])' = Of(b, open[1])
  BY DEF BestVal, FPrime, Of
<1>4. ASSUME BFPSDDLists(S) PROVE BFPSDDLists(graph)'
  BY <1>3, <1>4 DEF BFPSDDLists, Idle, Free, Queue
<1>5. IsPSDD' = IsPSDD /\ IsBFPSDD' = IsBFPSDD
  BY DEF IsPSDD, IsBFPSDD
<1>6. QED
  BY <1>1, <1>2, <1>4, <1>5 DEF Good

-----------------------------------------------------------------------------
(***************************************************************************)
(* What a thread does to the graph                                         *)
(***************************************************************************)

\* Thread t changes block: it gives back the one it has, if it has one, and
\* may take another; the layer turns only when no block is in use.
Moved(t) ==
  /\ UNCHANGED <<job, cur, todo, open, g, best, bound, lowest, done>>
  /\ GraphType(graph)' /\ Good(graph)' /\ exp' \in [Threads -> Nat]
  /\ pc[t] \in {"next", "woken"}
  /\ \/ blk' = [blk EXCEPT ![t] = None] /\ graph'.inuse = graph.inuse \ {blk[t]}
     \/ \E b \in Blocks \ (graph.inuse \ {blk[t]}) :
          /\ blk' = [blk EXCEPT ![t] = b]
          /\ graph'.inuse = (graph.inuse \ {blk[t]}) \cup {b}
  /\ pc' \in [Threads -> Spots]
  /\ \/ pc'[t] = "search" /\ blk'[t] # None
     \/ pc'[t] \in {"wait", "none"} /\ blk'[t] = None
  /\ pc'[t] = "none" => graph'.found
  /\ \A u \in Threads \ {t} :
       pc'[u] = pc[u] \/ (pc[u] = "wait" /\ pc'[u] = "woken")
  /\ graph.found => graph'.found
  /\ graph'.layer # graph.layer \/ graph'.value # graph.value \/ graph'.found # graph.found =>
       /\ graph.inuse \subseteq {blk[t]} /\ blk[t] # None /\ pc[t] = "next"
       /\ IsPSDD => open[graph.layer] = {}
  /\ IsPSDD /\ graph'.found # graph.found => open = [l \in 1..2 |-> {}]
  /\ IsBFPSDD /\ graph'.found # graph.found => open[1] = {}

\* Wake changes the place of t and of those that wait.
LEMMA WakeIs ==
  ASSUME TypeOK, NEW t \in Threads, NEW W \in SUBSET Waiting, NEW to \in Spots
  PROVE  /\ Wake(W, t, to) \in
              [Threads -> Spots]
         /\ Wake(W, t, to)[t] = to
         /\ \A u \in Threads \ {t} :
              \/ Wake(W, t, to)[u] = pc[u]
              \/ pc[u] = "wait" /\ Wake(W, t, to)[u] = "woken"
<1>1. \A u \in W : u \in Threads /\ pc[u] = "wait"
  BY DEF Waiting
<1>2. pc \in [Threads -> Spots]
  BY DEF TypeOK, Spots
<1>3. QED
  BY <1>1, <1>2 DEF Wake, Spots

\* The last part of both next_nblock: S is the graph when thread t has given
\* back what it had; it leaves, or takes a block, which makes A of S.
LEMMA MovesOn ==
  ASSUME IInv, NEW t \in Threads, pc[t] \in {"next", "woken"}, NEW W \in SUBSET Waiting,
         UNCHANGED <<job, cur, todo, open, g, best, bound, lowest, done>>,
         NEW S, Good(S), S.inuse = graph.inuse \ {blk[t]}, graph.found => S.found,
         S.layer # graph.layer \/ S.value # graph.value \/ S.found # graph.found =>
           /\ graph.inuse \subseteq {blk[t]} /\ blk[t] # None /\ pc[t] = "next"
           /\ IsPSDD => open[graph.layer] = {},
         IsPSDD /\ S.found # graph.found => open = [l \in 1..2 |-> {}],
         IsBFPSDD /\ S.found # graph.found => open[1] = {},
         \/ Leave(S, t, IF IsPSDD THEN S.layer ELSE Free, W)
         \/ \E A : \E b \in Blocks :
              /\ Enter(A, t, b, W) /\ Good(A) /\ b \notin S.inuse
              /\ A.inuse = S.inuse \cup {b} /\ A.layer = S.layer /\ A.value = S.value
              /\ A.found = S.found
  PROVE  Moved(t)
<1>1. TypeOK /\ exp \in [Threads -> Nat] /\ blk \in [Threads -> Blocks \cup {None}]
  BY DEF IInv, TypeOK
<1>2. \A b \in Blocks : b # None
  BY LayersAssumption DEF None
<1>3. CASE Leave(S, t, IF IsPSDD THEN S.layer ELSE Free, W)
  <2>1. graph' = S /\ blk' = [blk EXCEPT ![t] = None] /\ exp' = exp
        /\ pc' = Wake(W, t, IF S.found THEN "none" ELSE "wait")
    BY <1>3 DEF Leave
  <2>2. Good(graph)' /\ GraphType(graph)'
    BY <2>1, GoodStays DEF Good
  <2>3. /\ pc' \in [Threads -> Spots]
        /\ pc'[t] = IF S.found THEN "none" ELSE "wait"
        /\ \A u \in Threads \ {t} :
             pc'[u] = pc[u] \/ (pc[u] = "wait" /\ pc'[u] = "woken")
    <3>0. TypeOK
      BY <1>1
    <3>1. PICK to : to = IF S.found THEN "none" ELSE "wait"
      OBVIOUS
    <3>2. to \in Spots /\ pc' = Wake(W, t, to)
      BY <2>1, <3>1 DEF Spots
    <3>3. /\ Wake(W, t, to) \in [Threads -> Spots]
          /\ Wake(W, t, to)[t] = to
          /\ \A u \in Threads \ {t} :
               \/ Wake(W, t, to)[u] = pc[u]
               \/ pc[u] = "wait" /\ Wake(W, t, to)[u] = "woken"
      BY <3>0, <3>2, WakeIs
    <3>4. QED
      BY <3>1, <3>2, <3>3
  <2>4. blk'[t] = None
    BY <1>1, <2>1
  <2>5. QED
    BY <1>1, <2>1, <2>2, <2>3, <2>4 DEF Moved
<1>4. ASSUME NEW A, NEW b \in Blocks,
             Enter(A, t, b, W), Good(A), b \notin S.inuse,
             A.inuse = S.inuse \cup {b}, A.layer = S.layer, A.value = S.value,
             A.found = S.found
      PROVE  Moved(t)
  <2>1. graph' = A /\ blk' = [blk EXCEPT ![t] = b] /\ exp' = [exp EXCEPT ![t] = 0]
        /\ pc' = Wake(W, t, "search")
    BY <1>4 DEF Enter
  <2>2. Good(graph)' /\ GraphType(graph)'
    BY <1>4, <2>1, GoodStays DEF Good
  <2>3. /\ pc' \in [Threads -> Spots]
        /\ pc'[t] = "search"
        /\ \A u \in Threads \ {t} :
             pc'[u] = pc[u] \/ (pc[u] = "wait" /\ pc'[u] = "woken")
    <3>0. TypeOK
      BY <1>1
    <3>1. PICK to : to = "search"
      OBVIOUS
    <3>2. to \in Spots /\ pc' = Wake(W, t, to)
      BY <2>1, <3>1 DEF Spots
    <3>3. /\ Wake(W, t, to) \in [Threads -> Spots]
          /\ Wake(W, t, to)[t] = to
          /\ \A u \in Threads \ {t} :
               \/ Wake(W, t, to)[u] = pc[u]
               \/ pc[u] = "wait" /\ Wake(W, t, to)[u] = "woken"
      BY <3>0, <3>2, WakeIs
    <3>4. QED
      BY <3>1, <3>2, <3>3
  <2>4. blk'[t] # None /\ exp' \in [Threads -> Nat]
    BY <1>1, <1>2, <2>1
  <2>5. \E c \in Blocks \ (graph.inuse \ {blk[t]}) :
          /\ blk' = [blk EXCEPT ![t] = c]
          /\ graph'.inuse = (graph.inuse \ {blk[t]}) \cup {c}
    BY <1>4, <2>1
  <2>6. QED
    BY <1>4, <2>1, <2>2, <2>3, <2>4, <2>5 DEF Moved
<1>5. QED
  BY <1>3, <1>4

\* PSDD's next_nblock and its loop.
LEMMA TakeOrWaitMoves ==
  ASSUME NEW S, Good(S), IsPSDD, NEW t \in Threads, NEW W, TakeOrWait(S, t, W)
  PROVE  \/ Leave(S, t, IF IsPSDD THEN S.layer ELSE Free, W)
         \/ \E A : \E b \in Blocks :
              /\ Enter(A, t, b, W) /\ Good(A) /\ b \notin S.inuse
              /\ A.inuse = S.inuse \cup {b} /\ A.layer = S.layer /\ A.value = S.value
              /\ A.found = S.found
<1>1. ASSUME NEW b \in On(S.lists[S.layer]),
             Enter(Acquired(Popped(S, S.layer, b), b), t, b, W)
      PROVE  \E A : \E c \in Blocks :
              /\ Enter(A, t, c, W) /\ Good(A) /\ c \notin S.inuse
              /\ A.inuse = S.inuse \cup {c} /\ A.layer = S.layer /\ A.value = S.value
              /\ A.found = S.found
  <2>1. PICK A : A = Acquired(Popped(S, S.layer, b), b)
    OBVIOUS
  <2>2. /\ GraphType(A) /\ SigmasExact(A) /\ PSDDLists(A)
        /\ b \in Blocks /\ b \notin S.inuse /\ A.inuse = S.inuse \cup {b}
        /\ A.layer = S.layer /\ A.value = S.value /\ A.found = S.found
    BY <2>1, AcquiredGood DEF Good
  <2>3. Good(A)
    BY <2>2 DEF Good, IsPSDD, IsBFPSDD
  <2>4. Enter(A, t, b, W)
    BY <1>1, <2>1
  <2>5. QED
    BY <2>2, <2>3, <2>4
<1>2. QED
  BY <1>1 DEF TakeOrWait

LEMMA TakeFirstMoves ==
  ASSUME NEW S, Good(S), IsBFPSDD, NEW t \in Threads, NEW W, TakeFirst(S, t, W)
  PROVE  \/ Leave(S, t, IF IsPSDD THEN S.layer ELSE Free, W)
         \/ \E A : \E b \in Blocks :
              /\ Enter(A, t, b, W) /\ Good(A) /\ b \notin S.inuse
              /\ A.inuse = S.inuse \cup {b} /\ A.layer = S.layer /\ A.value = S.value
              /\ A.found = S.found
<1>1. ASSUME NEW b \in On(S.lists[Free]),
             Enter(Taken(Popped(S, Free, b), b), t, b, W)
      PROVE  \E A : \E c \in Blocks :
              /\ Enter(A, t, c, W) /\ Good(A) /\ c \notin S.inuse
              /\ A.inuse = S.inuse \cup {c} /\ A.layer = S.layer /\ A.value = S.value
              /\ A.found = S.found
  <2>1. PICK A : A = Taken(Popped(S, Free, b), b)
    OBVIOUS
  <2>2. /\ GraphType(A) /\ SigmasExact(A) /\ BFPSDDLists(A)
        /\ b \in Blocks /\ b \notin S.inuse /\ A.inuse = S.inuse \cup {b}
        /\ A.layer = S.layer /\ A.value = S.value /\ A.found = S.found
    BY <2>1, TakenGood DEF Good
  <2>3. Good(A)
    BY <2>2 DEF Good, IsPSDD, IsBFPSDD
  <2>4. Enter(A, t, b, W)
    BY <1>1, <2>1
  <2>5. QED
    BY <2>2, <2>3, <2>4
<1>2. ~IsPSDD
  BY DEF IsPSDD, IsBFPSDD
<1>3. QED
  BY <1>1, <1>2 DEF TakeFirst

\* PSDD: a thread changes block.
LEMMA NextBlockMoves ==
  ASSUME IInv, NoBlockAlone, IsPSDD, NEW t \in Threads, NextBlock(t) \/ Woken(t)
  PROVE  Moved(t)
<1>1. UNCHANGED <<job, cur, todo, open, g, best, bound, lowest, done>>
  BY DEF NextBlock, Woken
<1>2. Good(graph) /\ GraphType(graph) /\ SigmasExact(graph) /\ PSDDLists(graph)
      /\ open \in [1..2 -> SUBSET States] /\ None \notin graph.inuse
  BY LayersAssumption DEF IInv, Good, TypeOK, Owned
<1>3. ~IsBFPSDD
  BY DEF IsPSDD, IsBFPSDD
<1>4. {} \in SUBSET Waiting /\ pc[t] \in {"next", "woken"}
  BY DEF NextBlock, Woken
<1>5. ASSUME blk[t] = None, TakeOrWait(graph, t, {}) PROVE Moved(t)
  <2>1. graph.inuse = graph.inuse \ {blk[t]}
    BY <1>2, <1>5
  <2>2. QED
    BY <1>1, <1>2, <1>3, <1>4, <1>5, <2>1, TakeOrWaitMoves, MovesOn
<1>6. CASE Woken(t)
  <2>1. blk[t] = None /\ TakeOrWait(graph, t, {})
    BY <1>6 DEF Woken, IInv, Owner
  <2>2. QED
    BY <1>5, <2>1
<1>7. CASE NextBlock(t) /\ blk[t] = None
  BY <1>5, <1>7 DEF NextBlock
<1>8. CASE NextBlock(t) /\ blk[t] # None
  <2>1. pc[t] = "next"
    BY <1>8 DEF NextBlock
  <2>2. blk[t] \in graph.inuse /\ blk[t] \in Blocks
    BY <1>8, OwnedBlock DEF IInv
  <2>3. Of(blk[t], open[graph.layer]) = {}
    BY <1>8, <2>1 DEF IInv, PSDDOwner
  <2>4. PICK R : R = Released(graph, blk[t])
    OBVIOUS
  <2>5. /\ GraphType(R) /\ SigmasExact(R) /\ PSDDLists(R)
        /\ R.inuse = graph.inuse \ {blk[t]}
        /\ R.layer = graph.layer /\ R.value = graph.value /\ R.found = graph.found
    BY <1>2, <2>2, <2>3, <2>4, ReleasedGood
  <2>6. Good(R)
    BY <1>3, <2>5 DEF Good
  <2>7. ASSUME NEW W \in Signalled(SignalsOf(blk[t])), TakeOrWait(R, t, W)
        PROVE  Moved(t)
    <3>1. W \in SUBSET Waiting
      BY <2>7 DEF Signalled
    <3>2. QED
      <4>1. \/ Leave(R, t, IF IsPSDD THEN R.layer ELSE Free, W)
            \/ \E A : \E b \in Blocks :
                 /\ Enter(A, t, b, W) /\ Good(A) /\ b \notin R.inuse
                 /\ A.inuse = R.inuse \cup {b} /\ A.layer = R.layer
                 /\ A.value = R.value /\ A.found = R.found
        BY <2>6, <2>7, TakeOrWaitMoves
      <4>2. QED
        BY <1>1, <1>3, <1>4, <2>5, <2>6, <3>1, <4>1, MovesOn
  <2>8. ASSUME LayerOver(R), NEW S, S = Switched(R), TakeOrWait(S, t, Waiting)
        PROVE  Moved(t)
    <3>1. R.inuse = {} /\ \A c \in Blocks : Idle(R, c)
      BY <2>2, <2>5, <2>8, OverMeans DEF LayerOver
    <3>2. /\ GraphType(S) /\ SigmasExact(S) /\ PSDDLists(S)
          /\ S.inuse = R.inuse /\ S.value = R.value
          /\ open[R.layer] = {}
          /\ R.found => S.found
          /\ S.found /\ ~R.found => open = [l \in 1..2 |-> {}]
      BY <1>2, <2>5, <2>8, <3>1, SwitchedGood
    <3>3. Good(S)
      BY <1>3, <3>2 DEF Good
    <3>4. graph.inuse \subseteq {blk[t]}
      BY <2>5, <3>1
    <3>5. S.inuse = graph.inuse \ {blk[t]} /\ (graph.found => S.found)
          /\ open[graph.layer] = {}
      BY <2>5, <3>2
    <3>6. S.found # graph.found => open = [l \in 1..2 |-> {}]
      BY <2>5, <3>2 DEF GraphType
    <3>7. QED
      <4>1. \/ Leave(S, t, IF IsPSDD THEN S.layer ELSE Free, Waiting)
            \/ \E A : \E b \in Blocks :
                 /\ Enter(A, t, b, Waiting) /\ Good(A) /\ b \notin S.inuse
                 /\ A.inuse = S.inuse \cup {b} /\ A.layer = S.layer
                 /\ A.value = S.value /\ A.found = S.found
        BY <2>8, <3>3, TakeOrWaitMoves
      <4>2. QED
        BY <1>1, <1>3, <1>4, <1>8, <2>1, <3>3, <3>4, <3>5, <3>6, <4>1, MovesOn
  <2>9. QED
    BY <1>8, <2>4, <2>7, <2>8 DEF NextBlock
<1>9. QED
  BY <1>6, <1>7, <1>8

\* BFPSDD: a thread changes block.
LEMMA NextFreeMoves ==
  ASSUME IInv, NoBlockAlone, IsBFPSDD, NEW t \in Threads, NextFree(t) \/ WokenFree(t)
  PROVE  Moved(t)
<1>1. UNCHANGED <<job, cur, todo, open, g, best, bound, lowest, done>>
  BY DEF NextFree, WokenFree
<1>2. Good(graph) /\ GraphType(graph) /\ SigmasExact(graph) /\ BFPSDDLists(graph)
      /\ open \in [1..2 -> SUBSET States] /\ None \notin graph.inuse
  BY LayersAssumption DEF IInv, Good, TypeOK, Owned
<1>3. ~IsPSDD
  BY DEF IsPSDD, IsBFPSDD
<1>4. {} \in SUBSET Waiting /\ pc[t] \in {"next", "woken"}
  BY DEF NextFree, WokenFree
<1>5. ASSUME blk[t] = None, TakeFirst(graph, t, {}) PROVE Moved(t)
  <2>1. graph.inuse = graph.inuse \ {blk[t]}
    BY <1>2, <1>5
  <2>2. QED
    BY <1>1, <1>2, <1>3, <1>4, <1>5, <2>1, TakeFirstMoves, MovesOn
<1>6. CASE WokenFree(t)
  <2>1. blk[t] = None /\ TakeFirst(graph, t, {})
    BY <1>6 DEF WokenFree, IInv, Owner
  <2>2. QED
    BY <1>5, <2>1
<1>7. CASE NextFree(t) /\ blk[t] = None
  BY <1>5, <1>7 DEF NextFree
<1>8. CASE NextFree(t) /\ blk[t] # None
  <2>1. pc[t] = "next"
    BY <1>8 DEF NextFree
  <2>2. blk[t] \in graph.inuse /\ blk[t] \in Blocks
    BY <1>8, OwnedBlock DEF IInv
  <2>3. \A c \in Blocks : BestVal(c) \in Nat
    BY BestValType DEF IInv
  <2>4. PICK R : R = GivenBack(graph, blk[t])
    OBVIOUS
  <2>5. /\ GraphType(R) /\ SigmasExact(R) /\ BFPSDDLists(R)
        /\ R.inuse = graph.inuse \ {blk[t]}
        /\ R.layer = graph.layer /\ R.value = graph.value /\ R.found = graph.found
    BY <1>2, <2>2, <2>4, GivenBackGood
  <2>6. Good(R)
    BY <1>3, <2>5 DEF Good
  <2>7. ASSUME NEW W \in WokenBy(blk[t]), TakeFirst(R, t, W)
        PROVE  Moved(t)
    <3>1. W \in SUBSET Waiting
      BY <2>7 DEF WokenBy, Signalled
    <3>2. QED
      <4>1. \/ Leave(R, t, IF IsPSDD THEN R.layer ELSE Free, W)
            \/ \E A : \E b \in Blocks :
                 /\ Enter(A, t, b, W) /\ Good(A) /\ b \notin R.inuse
                 /\ A.inuse = R.inuse \cup {b} /\ A.layer = R.layer
                 /\ A.value = R.value /\ A.found = R.found
        BY <2>6, <2>7, TakeFirstMoves
      <4>2. QED
        BY <1>1, <1>3, <1>4, <2>5, <2>6, <3>1, <4>1, MovesOn
  <2>8. ASSUME LayerDone(R), NEW S, S = Filled(R), TakeFirst(S, t, Waiting)
        PROVE  Moved(t)
    <3>1. R.inuse = {} /\ \A c \in Blocks : Idle(R, c)
      BY <2>2, <2>5, <2>8, OverMeans DEF LayerDone
    <3>2. /\ GraphType(S) /\ SigmasExact(S) /\ BFPSDDLists(S)
          /\ S.inuse = R.inuse /\ S.layer = R.layer
          /\ R.found => S.found
          /\ S.found /\ ~R.found => open[1] = {}
      BY <1>2, <2>3, <2>5, <2>8, <3>1, FilledGood
    <3>3. Good(S)
      BY <1>3, <3>2 DEF Good
    <3>4. graph.inuse \subseteq {blk[t]}
      BY <2>5, <3>1
    <3>5. S.inuse = graph.inuse \ {blk[t]} /\ (graph.found => S.found)
      BY <2>5, <3>2
    <3>6. S.found # graph.found => open[1] = {}
      BY <2>5, <3>2 DEF GraphType
    <3>7. QED
      <4>1. \/ Leave(S, t, IF IsPSDD THEN S.layer ELSE Free, Waiting)
            \/ \E A : \E b \in Blocks :
                 /\ Enter(A, t, b, Waiting) /\ Good(A) /\ b \notin S.inuse
                 /\ A.inuse = S.inuse \cup {b} /\ A.layer = S.layer
                 /\ A.value = S.value /\ A.found = S.found
        BY <2>8, <3>3, TakeFirstMoves
      <4>2. QED
        BY <1>1, <1>3, <1>4, <1>8, <2>1, <3>3, <3>4, <3>5, <3>6, <4>1, MovesOn
  <2>9. QED
    BY <1>8, <2>4, <2>7, <2>8 DEF NextFree
<1>9. QED
  BY <1>6, <1>7, <1>8

\* Changing block keeps the invariant.
LEMMA MovedInv ==
  ASSUME IInv, NEW t \in Threads, Moved(t)
  PROVE  IInv'
<1>1. /\ UNCHANGED <<job, cur, todo, open, g, best, bound, lowest, done>>
      /\ GraphType(graph)' /\ Good(graph)' /\ exp' \in [Threads -> Nat]
      /\ pc' \in [Threads -> Spots] /\ TypeOK /\ Owned
  BY DEF Moved, IInv
<1>2. /\ blk \in [Threads -> Blocks \cup {None}] /\ None \notin Blocks
      /\ graph.inuse = {blk[u] : u \in Threads} \ {None}
      /\ \A u, v \in Threads : u # v /\ blk[u] # None => blk[u] # blk[v]
  BY <1>1, LayersAssumption DEF TypeOK, Owned, None
<1>3. PICK b \in Blocks \cup {None} :
        /\ blk' = [blk EXCEPT ![t] = b]
        /\ graph'.inuse = (graph.inuse \ {blk[t]}) \cup ({b} \ {None})
        /\ b \notin graph.inuse \ {blk[t]}
  <2>1. CASE blk' = [blk EXCEPT ![t] = None] /\ graph'.inuse = graph.inuse \ {blk[t]}
    <3>1. None \notin graph.inuse
      BY <1>2
    <3>2. QED
      BY <2>1, <3>1
  <2>2. ASSUME NEW c \in Blocks \ (graph.inuse \ {blk[t]}),
               blk' = [blk EXCEPT ![t] = c],
               graph'.inuse = (graph.inuse \ {blk[t]}) \cup {c}
        PROVE  \E b \in Blocks \cup {None} :
                 /\ blk' = [blk EXCEPT ![t] = b]
                 /\ graph'.inuse = (graph.inuse \ {blk[t]}) \cup ({b} \ {None})
                 /\ b \notin graph.inuse \ {blk[t]}
    BY <1>2, <2>2
  <2>3. QED
    BY <2>1, <2>2 DEF Moved
<1>4. /\ blk' \in [Threads -> Blocks \cup {None}] /\ blk'[t] = b
      /\ \A u \in Threads \ {t} : blk'[u] = blk[u]
  BY <1>2, <1>3
<1>5. TypeOK'
  BY <1>1, <1>4 DEF TypeOK, GraphType, Spots
<1>6. Owned'
  <2>1. graph'.inuse = {blk'[u] : u \in Threads} \ {None}
    <3>1. ASSUME NEW c, c # None
          PROVE  c \in graph'.inuse <=> \E u \in Threads : c = blk'[u]
      <4>1. c \in graph.inuse <=> \E u \in Threads : c = blk[u]
        BY <1>2, <3>1
      <4>2. c \in graph'.inuse <=> (c \in graph.inuse /\ c # blk[t]) \/ c = b
        BY <1>3, <3>1
      <4>3. (\E u \in Threads : c = blk'[u]) <=>
              c = b \/ \E u \in Threads \ {t} : c = blk[u]
        BY <1>4
      <4>4. (c \in graph.inuse /\ c # blk[t]) <=> \E u \in Threads \ {t} : c = blk[u]
        BY <1>2, <3>1, <4>1
      <4>5. QED
        BY <4>2, <4>3, <4>4
    <3>2. None \notin graph'.inuse
      BY <1>2, <1>3
    <3>3. QED
      BY <3>1, <3>2
  <2>2. ASSUME NEW u \in Threads, NEW v \in Threads, u # v, blk'[u] # None
        PROVE  blk'[u] # blk'[v]
    <3>1. \A w \in Threads \ {t} : blk[w] # None => blk[w] \in graph.inuse \ {blk[t]}
      BY <1>2
    <3>2. QED
      BY <1>2, <1>3, <1>4, <2>2, <3>1
  <2>3. QED
    BY <2>1, <2>2 DEF Owned
<1>7. LowCosts' /\ Made' = Made
  BY <1>1 DEF IInv, LowCosts, Made
<1>8. ASSUME NEW u \in Threads PROVE Owner(u)'
  <2>1. Owner(u) /\ Children(cur[u], g[cur[u]])' = Children(cur[u], g[cur[u]])
    BY <1>1 DEF IInv, Children
  <2>2. CASE u = t
    <3>1. /\ \/ pc'[u] = "search" /\ blk'[u] # None
             \/ pc'[u] \in {"wait", "none"} /\ blk'[u] = None
          /\ pc[u] \in {"next", "woken"}
      BY <2>2 DEF Moved
    <3>2. QED
      BY <1>1, <2>1, <3>1 DEF Owner
  <2>3. CASE u # t
    <3>1. pc'[u] = pc[u] \/ (pc[u] = "wait" /\ pc'[u] = "woken")
      BY <2>3 DEF Moved
    <3>2. blk'[u] = blk[u]
      BY <1>4, <2>3
    <3>3. QED
      BY <1>1, <1>7, <2>1, <3>1, <3>2 DEF Owner
  <2>4. QED
    BY <2>2, <2>3
<1>9. ASSUME IsPSDD' PROVE Told' /\ \A u \in Threads : PSDDOwner(u)'
  <2>1. IsPSDD /\ Told /\ \A u \in Threads : PSDDOwner(u)
    BY <1>1, <1>9 DEF IInv, IsPSDD
  <2>2. /\ \A u \in Threads : pc[u] = "tell" => pc'[u] = "tell"
        /\ graph.found => graph'.found
    BY DEF Moved
  <2>3. Told'
    BY <1>1, <2>1, <2>2 DEF Told
  <2>4. PSDDOwner(t)'
    <3>1. /\ pc'[t] \in {"search", "wait", "none"}
          /\ pc'[t] = "none" => graph'.found
      BY DEF Moved
    <3>2. QED
      BY <3>1 DEF PSDDOwner
  <2>5. ASSUME NEW u \in Threads \ {t} PROVE PSDDOwner(u)'
    <3>1. pc'[u] = pc[u] \/ (pc[u] = "wait" /\ pc'[u] = "woken")
      BY DEF Moved
    <3>2. blk'[u] = blk[u]
      BY <1>4
    <3>3. graph'.layer = graph.layer \/ blk[u] = None
      <4>1. blk[u] # None => blk[u] \in graph.inuse /\ blk[u] # blk[t]
        BY <1>2
      <4>2. graph'.layer # graph.layer => graph.inuse \subseteq {blk[t]}
        BY DEF Moved
      <4>3. QED
        BY <4>1, <4>2
    <3>4. PSDDOwner(u)
      BY <2>1
    <3>5. blk'[u] # None => Of(blk[u], open[graph.layer])' = Of(blk[u], open[graph.layer])
      BY <1>1, <3>2, <3>3 DEF Of
    <3>6. QED
      BY <1>1, <2>2, <3>1, <3>2, <3>4, <3>5 DEF PSDDOwner
  <2>6. QED
    BY <2>3, <2>4, <2>5
<1>10. \A l \in 1..2 : open'[l] \subseteq Made'
  BY <1>1, <1>7 DEF IInv
<1>11. QED
  BY <1>1, <1>5, <1>6, <1>7, <1>8, <1>9, <1>10 DEF IInv

-----------------------------------------------------------------------------
(***************************************************************************)
(* What a thread does in its block                                         *)
(***************************************************************************)

\* Thread t works on the nodes of the block it owns and of those around it.
Worked(t) ==
  /\ UNCHANGED <<job, blk, graph, best, bound, done>>
  /\ blk[t] # None
  /\ \A u \in Threads \ {t} : pc'[u] = pc[u] /\ cur'[u] = cur[u] /\ todo'[u] = todo[u]
  /\ \/ g' = g
     \/ \E c \in todo[t] : /\ pc[t] = "child" /\ c[2] < g[c[1]]
                           /\ g' = [g EXCEPT ![c[1]] = c[2]]
  /\ \A l \in 1..2 : \A s \in States :
       ~(s \in open'[l] <=> s \in open[l]) => BlockOf[s] \in {blk[t]} \cup Interferes[blk[t]]

\* A child of the node that thread t has in hand.
LEMMA ChildIs ==
  ASSUME IInv, CostsFit, NEW t \in Threads, pc[t] = "child", NEW c \in todo[t]
  PROVE  /\ cur[t] \in States /\ g[cur[t]] \in Nat /\ g[cur[t]] # Infinity
         /\ c[1] \in States /\ c[2] \in Nat /\ c[2] >= g[cur[t]]
         /\ BlockOf[c[1]] \in {blk[t]} \cup Interferes[blk[t]]
         /\ \E e \in Edges[cur[t]] : c = <<e.to, g[cur[t]] + e.cost>>
         /\ c[2] <= Cardinality(Made) * Dearest /\ c[2] < Infinity
<1>1. /\ cur[t] \in States /\ g[cur[t]] \in Nat /\ c \in States \X Nat /\ job \in Jobs
  BY DEF IInv, TypeOK
<1>2. /\ BlockOf[cur[t]] = blk[t] /\ todo[t] \subseteq Children(cur[t], g[cur[t]])
      /\ g[cur[t]] # Infinity
  BY DEF IInv, Owner, Made
<1>3. PICK e \in Edges[cur[t]] : c = <<e.to, g[cur[t]] + e.cost>>
  BY <1>2 DEF Children
<1>4. BlockOf[e.to] \in {blk[t]} \cup Interferes[blk[t]]
  BY <1>1, <1>2, EdgeInterferes
<1>5. e.cost \in Nat
  BY <1>1, SpaceAssumption
<1>6. c[2] <= Cardinality(Made) * Dearest
  BY DEF IInv, LowCosts
<1>7. c[2] < Infinity
  <2>1. Made \in SUBSET States
    BY DEF Made
  <2>2. c[2] <= Cardinality(States) * Dearest
    <3>1. /\ Cardinality(Made) * Dearest \in Nat
          /\ Cardinality(Made) * Dearest <= Cardinality(States) * Dearest
      BY <2>1, SomeStates
    <3>2. Cardinality(States) * Dearest \in Nat
      BY SomeStates
    <3>3. QED
      BY <1>1, <1>6, <3>1, <3>2
  <2>3. QED
    BY <1>1, <2>2, CostFits
<1>8. QED
  BY <1>1, <1>2, <1>3, <1>4, <1>5, <1>6, <1>7

\* Work makes nodes cheaper, those of the block and around it.
LEMMA WorkedCosts ==
  ASSUME IInv, CostsFit, NEW t \in Threads, Worked(t)
  PROVE  /\ g' \in [States -> Nat] /\ Made \subseteq Made'
         /\ \A s \in States : g'[s] <= g[s]
         /\ \A s \in States : g'[s] # g[s] => /\ s \in Made' /\ pc[t] = "child"
                                              /\ BlockOf[s] \in {blk[t]} \cup Interferes[blk[t]]
                                              /\ s # cur[t] /\ <<s, g'[s]>> \in todo[t]
<1>1. g \in [States -> Nat]
  BY DEF IInv, TypeOK
<1>2. CASE g' = g
  BY <1>1, <1>2 DEF Made
<1>3. ASSUME NEW c \in todo[t], pc[t] = "child", c[2] < g[c[1]],
             g' = [g EXCEPT ![c[1]] = c[2]]
      PROVE  /\ g' \in [States -> Nat] /\ Made \subseteq Made'
             /\ \A s \in States : g'[s] <= g[s]
             /\ \A s \in States : g'[s] # g[s] => /\ s \in Made' /\ pc[t] = "child"
                                              /\ BlockOf[s] \in {blk[t]} \cup Interferes[blk[t]]
                                              /\ s # cur[t] /\ <<s, g'[s]>> \in todo[t]
  <2>1. /\ cur[t] \in States /\ g[cur[t]] \in Nat
        /\ c[1] \in States /\ c[2] \in Nat /\ c[2] >= g[cur[t]]
        /\ BlockOf[c[1]] \in {blk[t]} \cup Interferes[blk[t]]
        /\ \E e \in Edges[cur[t]] : c = <<e.to, g[cur[t]] + e.cost>>
        /\ c[2] < Infinity
    BY <1>3, ChildIs
  <2>2. c[1] # cur[t]
    BY <1>3, <2>1
  <2>3. c[2] # Infinity /\ c = <<c[1], c[2]>>
    BY <2>1, SpaceAssumption
  <2>4. \A s \in States : g'[s] = IF s = c[1] THEN c[2] ELSE g[s]
    BY <1>1, <1>3, <2>1
  <2>5. Made \subseteq Made' /\ c[1] \in Made'
    BY <2>1, <2>3, <2>4 DEF Made
  <2>6. g' \in [States -> Nat]
    BY <1>1, <1>3, <2>1
  <2>7. \A s \in States : g'[s] <= g[s]
    BY <1>1, <1>3, <2>1, <2>4
  <2>8. QED
    BY <1>3, <2>1, <2>2, <2>3, <2>4, <2>5, <2>6, <2>7
<1>4. QED
  BY <1>2, <1>3 DEF Worked

\* Work concerns no idle block, so the lists of blocks stay as good.
LEMMA WorkedGood ==
  ASSUME IInv, CostsFit, NEW t \in Threads, Worked(t), open' \in [1..2 -> SUBSET States]
  PROVE  Good(graph)'
<1>1. /\ graph' = graph /\ job' = job /\ Good(graph) /\ GraphType(graph)
      /\ SigmasExact(graph) /\ open \in [1..2 -> SUBSET States]
  BY DEF Worked, IInv, Good, TypeOK
<1>2. blk[t] \in graph.inuse /\ blk[t] \in Blocks
  BY OwnedBlock DEF Worked, IInv
<1>3. ASSUME NEW c \in Blocks, Idle(graph, c)
      PROVE  c \notin {blk[t]} \cup Interferes[blk[t]]
  <2>1. c # blk[t]
    BY <1>2, <1>3 DEF Idle
  <2>2. c \notin Interferes[blk[t]]
    BY <1>1, <1>2, <1>3, Around DEF Idle
  <2>3. QED
    BY <2>1, <2>2
<1>4. ASSUME NEW c \in Blocks, Idle(graph, c), NEW l \in 1..2
      PROVE  Of(c, open'[l]) = Of(c, open[l])
  <2>1. ASSUME NEW s PROVE s \in Of(c, open'[l]) <=> s \in Of(c, open[l])
    <3>1. CASE s \notin States
      BY <1>1, <3>1 DEF Of
    <3>2. CASE s \in States /\ BlockOf[s] = c
      <4>1. s \in open'[l] <=> s \in open[l]
        BY <1>3, <1>4, <3>2 DEF Worked
      <4>2. QED
        BY <4>1 DEF Of
    <3>3. CASE s \in States /\ BlockOf[s] # c
      BY <3>3 DEF Of
    <3>4. QED
      BY <3>1, <3>2, <3>3
  <2>2. QED
    BY <2>1
<1>5. ASSUME NEW c \in Blocks, Idle(graph, c)
      PROVE  BestVal(c)' = BestVal(c)
  <2>1. Of(c, open[1])' = Of(c, open[1])
    BY <1>4, <1>5 DEF Of
  <2>2. \A s \in Of(c, open[1]) : s \in States /\ BlockOf[s] = c
    BY <1>1 DEF Of
  <2>3. \A s \in Of(c, open[1]) : g'[s] = g[s]
    <3>1. \A s \in States : g'[s] # g[s] =>
            BlockOf[s] \in {blk[t]} \cup Interferes[blk[t]]
      BY WorkedCosts
    <3>2. QED
      BY <1>3, <1>5, <2>2, <3>1
  <2>4. {FPrime(s, g[s]) : s \in Of(c, open[1])}' = {FPrime(s, g[s]) : s \in Of(c, open[1])}
    BY <1>1, <2>1, <2>3 DEF FPrime
  <2>5. QED
    BY <2>4 DEF BestVal
<1>6. GraphType(graph)' /\ SigmasExact(graph)'
  BY <1>1 DEF GraphType, SigmasExact
<1>7. ASSUME PSDDLists(graph) PROVE PSDDLists(graph)'
  <2> SUFFICES ASSUME NEW c \in Blocks, NEW l \in 1..2
               PROVE  graph.lists[l][c] =
                        IF Idle(graph, c) /\ l \in LayersOf(graph, c)' THEN 1 ELSE 0
    BY <1>1 DEF PSDDLists, Idle
  <2>1. Idle(graph, c) => LayersOf(graph, c)' = LayersOf(graph, c)
    <3>1. graph.layer \in 1..2 /\ Other(graph.layer) \in 1..2
      BY <1>1 DEF GraphType, Other
    <3>2. QED
      BY <1>1, <1>4, <3>1 DEF LayersOf, Of
  <2>2. QED
    BY <1>7, <2>1 DEF PSDDLists
<1>8. ASSUME BFPSDDLists(graph) PROVE BFPSDDLists(graph)'
  <2> SUFFICES ASSUME NEW c \in Blocks
               PROVE  IF Idle(graph, c) /\ Of(c, open'[1]) # {}
                      THEN /\ graph.lists[Free][c] + graph.lists[Queue][c] = 1
                           /\ c \in graph.inlayer /\ BestVal(c)' = graph.value =>
                                graph.lists[Free][c] = 1
                           /\ graph.lists[Free][c] = 1 => c \in graph.inlayer
                      ELSE graph.lists[Free][c] = 0 /\ graph.lists[Queue][c] = 0
    BY <1>1 DEF BFPSDDLists, Idle, Of, Free, Queue
  <2>1. graph.inuse # {}
    BY <1>2
  <2>2. Idle(graph, c) => Of(c, open'[1]) = Of(c, open[1]) /\ BestVal(c)' = BestVal(c)
    BY <1>4, <1>5
  <2>3. QED
    BY <1>8, <2>1, <2>2 DEF BFPSDDLists
<1>9. IsPSDD' = IsPSDD /\ IsBFPSDD' = IsBFPSDD
  BY <1>1 DEF IsPSDD, IsBFPSDD
<1>10. QED
  BY <1>1, <1>6, <1>7, <1>8, <1>9 DEF Good

\* The block that another thread owns is not touched.
LEMMA WorkedApart ==
  ASSUME IInv, NEW t \in Threads, Worked(t), NEW u \in Threads, u # t, blk[u] # None
  PROVE  blk[u] \notin {blk[t]} \cup Interferes[blk[t]]
<1>1. /\ blk[t] \in graph.inuse /\ blk[t] \in Blocks
      /\ blk[u] \in graph.inuse /\ blk[u] \in Blocks
  BY OwnedBlock DEF Worked, IInv
<1>2. blk[u] # blk[t]
  BY DEF IInv, Owned
<1>3. blk[u] \notin Interferes[blk[t]]
  BY <1>1, Around DEF IInv, Good
<1>4. QED
  BY <1>2, <1>3

\* The costs stay low when thread t makes the children of a node, or makes
\* one of them a node.
LEMMA WorkedLow ==
  ASSUME IInv, CostsFit, NEW t \in Threads, Worked(t),
         \/ todo'[t] \subseteq todo[t]
         \/ \E s \in Made : g' = g /\ todo'[t] \subseteq Children(s, g[s])
  PROVE  LowCosts'
<1>1. /\ g \in [States -> Nat] /\ todo \in [Threads -> SUBSET (States \X Nat)]
      /\ LowCosts /\ Infinity \in Nat /\ Dearest \in Nat
  BY SpaceAssumption, DearestAffords DEF IInv, TypeOK
<1>2. Made \in SUBSET States /\ Made' \in SUBSET States
  BY DEF Made
<1>3. g' \in [States -> Nat] /\ Made \subseteq Made'
  BY WorkedCosts
<1>4. /\ Cardinality(Made) \in Nat /\ Cardinality(Made') \in Nat
      /\ Cardinality(Made) * Dearest \in Nat /\ Cardinality(Made') * Dearest \in Nat
      /\ IsFiniteSet(Made) /\ IsFiniteSet(Made')
  BY <1>2, SomeStates
<1>5. Cardinality(Made) * Dearest <= Cardinality(Made') * Dearest
  <2>1. Cardinality(Made) <= Cardinality(Made')
    BY <1>3, <1>4, FS_Subset
  <2>2. QED
    BY <1>1, <1>4, <2>1, TimesMonotone
<1>6. ASSUME NEW s \in Made' PROVE g'[s] + Dearest <= Cardinality(Made') * Dearest
  <2>1. s \in States
    BY <1>2
  <2>2. CASE g'[s] = g[s]
    <3>1. s \in Made
      BY <2>1, <2>2 DEF Made
    <3>2. g[s] + Dearest <= Cardinality(Made) * Dearest /\ g[s] \in Nat
      BY <1>1, <2>1, <3>1 DEF LowCosts
    <3>3. QED
      BY <1>1, <1>4, <1>5, <2>2, <3>2
  <2>3. CASE g'[s] # g[s]
    <3>1. /\ <<s, g'[s]>> \in todo[t] /\ g'[s] <= g[s] /\ g'[s] \in Nat /\ g[s] \in Nat
      BY <1>1, <1>3, <2>1, <2>3, WorkedCosts
    <3>2. g'[s] <= Cardinality(Made) * Dearest
      BY <1>1, <3>1 DEF LowCosts
    <3>3. CASE s \in Made
      <4>1. g[s] + Dearest <= Cardinality(Made) * Dearest
        BY <1>1, <3>3 DEF LowCosts
      <4>2. QED
        BY <1>1, <1>4, <1>5, <3>1, <4>1
    <3>4. CASE s \notin Made
      <4>1. Made \cup {s} \subseteq Made'
        BY <1>3
      <4>2. /\ Cardinality(Made \cup {s}) = Cardinality(Made) + 1
            /\ IsFiniteSet(Made \cup {s})
        BY <1>4, <3>4, FS_AddElement
      <4>3. Cardinality(Made) + 1 <= Cardinality(Made')
        BY <1>4, <4>1, <4>2, FS_Subset
      <4>4. (Cardinality(Made) + 1) * Dearest <= Cardinality(Made') * Dearest
        BY <1>1, <1>4, <4>3, TimesMonotone
      <4>5. (Cardinality(Made) + 1) * Dearest = Cardinality(Made) * Dearest + Dearest
        BY <1>1, <1>4
      <4>6. QED
        BY <1>1, <1>4, <3>1, <3>2, <4>4, <4>5
    <3>5. QED
      BY <3>3, <3>4
  <2>4. QED
    BY <2>2, <2>3
<1>7. ASSUME NEW u \in Threads, NEW c \in todo'[u]
      PROVE  c[2] <= Cardinality(Made') * Dearest
  <2>1. CASE c \in todo[u]
    <3>1. c[2] \in Nat /\ c[2] <= Cardinality(Made) * Dearest
      BY <1>1, <2>1 DEF LowCosts
    <3>2. QED
      BY <1>4, <1>5, <3>1
  <2>2. CASE c \notin todo[u]
    <3>1. u = t
      BY <1>7, <2>2 DEF Worked
    <3>2. PICK s \in Made : g' = g /\ todo'[t] \subseteq Children(s, g[s])
      BY <1>7, <2>2, <3>1
    <3>3. PICK e \in Edges[s] : c = <<e.to, g[s] + e.cost>>
      BY <1>7, <3>1, <3>2 DEF Children
    <3>4. s \in States /\ g[s] \in Nat /\ e.cost \in Nat /\ e.cost <= Dearest
      BY <1>1, <1>2, SpaceAssumption, DearestAffords
    <3>5. g[s] + Dearest <= Cardinality(Made) * Dearest
      BY <1>1 DEF LowCosts
    <3>6. QED
      BY <1>1, <1>4, <1>5, <3>3, <3>4, <3>5
  <2>3. QED
    BY <2>1, <2>2
<1>8. QED
  BY <1>6, <1>7 DEF LowCosts

\* Work keeps the invariant if it leaves thread t with what it should have.
LEMMA WorkedInv ==
  ASSUME IInv, CostsFit, NEW t \in Threads, Worked(t),
         pc' \in [Threads -> Spots], cur' \in [Threads -> States],
         todo' \in [Threads -> SUBSET (States \X Nat)], exp' \in [Threads -> Nat],
         open' \in [1..2 -> SUBSET States], lowest' \in Nat,
         \A l \in 1..2 : open'[l] \subseteq open[l] \cup {s \in States : g'[s] # Infinity},
         \/ todo'[t] \subseteq todo[t]
         \/ \E s \in Made : g' = g /\ todo'[t] \subseteq Children(s, g[s]),
         Owner(t)', IsPSDD => PSDDOwner(t)', pc[t] # "tell"
  PROVE  IInv'
<1>1. /\ job' = job /\ blk' = blk /\ graph' = graph /\ best' = best /\ bound' = bound
      /\ done' = done /\ TypeOK /\ Owned /\ cur \in [Threads -> States]
  BY DEF Worked, IInv, TypeOK
<1>2. /\ g' \in [States -> Nat] /\ Made \subseteq Made'
      /\ \A s \in States : g'[s] # g[s] =>
           s # cur[t] /\ BlockOf[s] \in {blk[t]} \cup Interferes[blk[t]]
  BY WorkedCosts
<1>3. TypeOK'
  BY <1>1, <1>2 DEF TypeOK, Spots
<1>4. Good(graph)'
  BY WorkedGood
<1>5. Owned'
  BY <1>1 DEF Owned
<1>6. LowCosts'
  BY WorkedLow
<1>7. ASSUME NEW u \in Threads, u # t
      PROVE  /\ Owner(u)'
             /\ IsPSDD => PSDDOwner(u)'
  <2>1. pc'[u] = pc[u] /\ cur'[u] = cur[u] /\ todo'[u] = todo[u] /\ blk'[u] = blk[u]
    BY <1>1, <1>7 DEF Worked
  <2>2. Owner(u)
    BY DEF IInv
  <2>3. CASE pc[u] = "child"
    <3>1. blk[u] # None /\ BlockOf[cur[u]] = blk[u]
      BY <2>2, <2>3 DEF Owner
    <3>2. blk[u] \notin {blk[t]} \cup Interferes[blk[t]]
      BY <1>7, <3>1, WorkedApart
    <3>3. g'[cur[u]] = g[cur[u]]
      BY <1>1, <1>2, <3>1, <3>2
    <3>4. Children(cur[u], g[cur[u]])' = Children(cur[u], g[cur[u]])
      BY <2>1, <3>3 DEF Children
    <3>5. QED
      BY <1>2, <2>1, <2>2, <2>3, <3>4 DEF Owner, PSDDOwner
  <2>4. CASE pc[u] # "child"
    <3>1. Owner(u)'
      BY <1>2, <2>1, <2>2, <2>4 DEF Owner
    <3>2. ASSUME IsPSDD PROVE PSDDOwner(u)'
      <4>1. PSDDOwner(u)
        BY <3>2 DEF IInv
      <4>2. blk[u] # None => Of(blk[u], open'[graph.layer]) \subseteq Of(blk[u], open[graph.layer])
        <5> SUFFICES ASSUME blk[u] # None, NEW s \in open'[graph.layer], BlockOf[s] = blk[u]
                     PROVE  s \in open[graph.layer]
          BY DEF Of
        <5>1. blk[u] \notin {blk[t]} \cup Interferes[blk[t]]
          BY <1>7, WorkedApart
        <5>2. graph.layer \in 1..2 /\ s \in States
          BY <1>1 DEF TypeOK
        <5>3. QED
          BY <5>1, <5>2 DEF Worked
      <4>3. Of(blk[u], open[graph.layer])' = Of(blk[u], open'[graph.layer])
        BY <1>1, <2>1 DEF Of
      <4>4. QED
        BY <1>1, <2>1, <4>1, <4>2, <4>3 DEF PSDDOwner
    <3>3. QED
      BY <3>1, <3>2
  <2>5. QED
    BY <2>3, <2>4
<1>8. ASSUME IsPSDD PROVE Told'
  <2>1. Told
    BY <1>8 DEF IInv
  <2>2. \A u \in Threads : pc[u] = "tell" => pc'[u] = "tell"
    BY DEF Worked
  <2>3. QED
    BY <1>1, <2>1, <2>2 DEF Told
<1>9. \A l \in 1..2 : open'[l] \subseteq Made'
  <2>1. \A l \in 1..2 : open[l] \subseteq Made
    BY DEF IInv
  <2>2. Made' = {s \in States : g'[s] # Infinity}
    BY DEF Made
  <2>3. QED
    BY <1>2, <2>1, <2>2
<1>10. IsPSDD' = IsPSDD
  BY <1>1 DEF IsPSDD
<1>11. \A u \in Threads : Owner(u)'
  BY <1>7
<1>12. IsPSDD' => Told' /\ \A u \in Threads : PSDDOwner(u)'
  BY <1>7, <1>8, <1>10
<1>13. QED
  BY <1>3, <1>4, <1>5, <1>6, <1>9, <1>11, <1>12 DEF IInv

\* Turning to a child, to a goal or to the children of a node.
LEMMA ChildrenType ==
  ASSUME NEW s \in States, NEW v \in Nat
  PROVE  /\ Children(s, v) \in SUBSET (States \X Nat)
         /\ Children(s, v) = {} <=> Edges[s] = {}
<1>1. \A e \in Edges[s] : <<e.to, v + e.cost>> \in States \X Nat
  BY SpaceAssumption
<1>2. QED
  BY <1>1 DEF Children

\* Thread t takes node s off the list l of its block and expands it, leaves
\* with it as a goal or drops it.
LEMMA TakenInv ==
  ASSUME IInv, CostsFit, NEW t \in Threads, pc[t] = "search",
         NEW l \in 1..2, NEW s \in Of(blk[t], open[l]),
         open' = [open EXCEPT ![l] = @ \ {s}],
         UNCHANGED <<job, blk, g, graph, best, bound, lowest, done>>,
         \/ FoundGoal(t, s) /\ UNCHANGED exp
         \/ Expand(t, s)
         \/ UNCHANGED <<pc, cur, todo, exp>>
  PROVE  IInv' /\ Worked(t)
<1>1. /\ open \in [1..2 -> SUBSET States] /\ cur \in [Threads -> States]
      /\ todo \in [Threads -> SUBSET (States \X Nat)] /\ exp \in [Threads -> Nat]
      /\ pc \in [Threads -> Spots] /\ lowest \in Nat /\ g \in [States -> Nat]
  BY DEF IInv, TypeOK, Spots
<1>2. blk[t] # None /\ todo[t] = {} /\ Owner(t) /\ open[l] \subseteq Made
  BY DEF IInv, Owner
<1>3. s \in States /\ BlockOf[s] = blk[t] /\ s \in Made /\ g[s] \in Nat /\ Made' = Made
  BY <1>1, <1>2 DEF Of, Made
<1>4. Children(s, g[s]) \in SUBSET (States \X Nat)
      /\ (Children(s, g[s]) = {} <=> Edges[s] = {})
      /\ Children(s, g[s])' = Children(s, g[s])
  BY <1>3, ChildrenType DEF Children
<1>5. /\ open' \in [1..2 -> SUBSET States]
      /\ \A k \in 1..2 : open'[k] \subseteq open[k]
      /\ \A k \in 1..2 : \A x \in States :
           ~(x \in open'[k] <=> x \in open[k]) => BlockOf[x] \in {blk[t]} \cup Interferes[blk[t]]
  BY <1>1, <1>3
<1>6. \/ /\ pc' = [pc EXCEPT ![t] = "path"] /\ cur' = [cur EXCEPT ![t] = s]
         /\ todo' = [todo EXCEPT ![t] = {}] /\ exp' = exp
      \/ /\ pc' = [pc EXCEPT ![t] = IF Edges[s] = {} THEN "search" ELSE "child"]
         /\ cur' = [cur EXCEPT ![t] = s]
         /\ todo' = [todo EXCEPT ![t] = Children(s, g[s])]
         /\ exp' = [exp EXCEPT ![t] = @ + 1]
      \/ pc' = pc /\ cur' = cur /\ todo' = todo /\ exp' = exp
  BY DEF FoundGoal, Expand
<1>7. /\ pc' \in [Threads -> Spots] /\ cur' \in [Threads -> States]
      /\ todo' \in [Threads -> SUBSET (States \X Nat)] /\ exp' \in [Threads -> Nat]
  <2>1. {} \in SUBSET (States \X Nat) /\ {"path", "search", "child"} \subseteq Spots
    BY DEF Spots
  <2>2. QED
    BY <1>1, <1>3, <1>4, <1>6, <2>1
<1>8. \A u \in Threads \ {t} : pc'[u] = pc[u] /\ cur'[u] = cur[u] /\ todo'[u] = todo[u]
  BY <1>1, <1>6
<1>9. Worked(t)
  BY <1>2, <1>5, <1>8 DEF Worked
<1>10. todo'[t] \subseteq todo[t] \/ todo'[t] \subseteq Children(s, g[s])
  BY <1>1, <1>6
<1>11. Owner(t)'
  <2>1. CASE pc' = pc /\ cur' = cur /\ todo' = todo
    BY <1>2, <1>3, <2>1 DEF Owner, Children
  <2>2. CASE pc'[t] = "path" /\ cur'[t] = s /\ todo'[t] = {}
    BY <1>3, <2>2 DEF Owner
  <2>3. CASE /\ pc'[t] = (IF Edges[s] = {} THEN "search" ELSE "child")
             /\ cur'[t] = s /\ todo'[t] = Children(s, g[s])
    <3>1. Children(cur[t], g[cur[t]])' = Children(s, g[s])
      BY <2>3 DEF Children
    <3>2. QED
      BY <1>2, <1>3, <1>4, <2>3, <3>1 DEF Owner
  <2>4. QED
    BY <1>1, <1>6, <2>1, <2>2, <2>3
<1>12. PSDDOwner(t)'
  <2>1. pc'[t] \in {"path", "search", "child"}
    BY <1>1, <1>6
  <2>2. QED
    BY <2>1 DEF PSDDOwner
<1>13. lowest' \in Nat /\ \A k \in 1..2 : open'[k] \subseteq open[k] \cup {x \in States : g'[x] # Infinity}
  BY <1>1, <1>5
<1>14. \/ todo'[t] \subseteq todo[t]
       \/ \E x \in Made : g' = g /\ todo'[t] \subseteq Children(x, g[x])
  BY <1>3, <1>10
<1>15. IInv'
  BY <1>5, <1>7, <1>9, <1>11, <1>12, <1>13, <1>14, WorkedInv
<1>16. QED
  BY <1>9, <1>15

\* Thread t is through with child c, which it has perhaps made a node, or
\* has put on list l.
LEMMA ChildInv ==
  ASSUME IInv, CostsFit, NEW t \in Threads, pc[t] = "child", NEW c \in todo[t],
         UNCHANGED <<job, blk, exp, graph, best, bound, done>>, lowest' \in Nat,
         g' = g \/ (c[2] < g[c[1]] /\ g' = [g EXCEPT ![c[1]] = c[2]]),
         \/ NextChild(t, c) /\ cur' = cur
         \/ FoundGoal(t, c[1]) /\ g' = [g EXCEPT ![c[1]] = c[2]],
         \/ open' = open
         \/ \E l \in 1..2 : /\ open' = [open EXCEPT ![l] = @ \cup {c[1]}]
                            /\ g' = [g EXCEPT ![c[1]] = c[2]]
  PROVE  IInv' /\ Worked(t)
<1>1. /\ open \in [1..2 -> SUBSET States] /\ cur \in [Threads -> States]
      /\ todo \in [Threads -> SUBSET (States \X Nat)] /\ exp \in [Threads -> Nat]
      /\ pc \in [Threads -> Spots] /\ g \in [States -> Nat]
  BY DEF IInv, TypeOK, Spots
<1>2. /\ blk[t] # None /\ Owner(t) /\ BlockOf[cur[t]] = blk[t] /\ cur[t] \in Made
      /\ todo[t] \subseteq Children(cur[t], g[cur[t]])
  BY DEF IInv, Owner
<1>3. /\ cur[t] \in States /\ c[1] \in States /\ c[2] \in Nat /\ c[2] # Infinity
      /\ BlockOf[c[1]] \in {blk[t]} \cup Interferes[blk[t]]
  BY ChildIs, SpaceAssumption
<1>4. \/ /\ pc' = [pc EXCEPT ![t] = IF todo[t] = {c} THEN "search" ELSE "child"]
         /\ cur' = cur /\ todo' = [todo EXCEPT ![t] = @ \ {c}]
      \/ /\ pc' = [pc EXCEPT ![t] = "path"] /\ cur' = [cur EXCEPT ![t] = c[1]]
         /\ todo' = [todo EXCEPT ![t] = {}] /\ g' = [g EXCEPT ![c[1]] = c[2]]
  BY DEF NextChild, FoundGoal
<1>5. /\ pc' \in [Threads -> Spots] /\ cur' \in [Threads -> States]
      /\ todo' \in [Threads -> SUBSET (States \X Nat)] /\ exp' \in [Threads -> Nat]
  <2>1. {} \in SUBSET (States \X Nat) /\ {"path", "search", "child"} \subseteq Spots
    BY DEF Spots
  <2>2. QED
    BY <1>1, <1>3, <1>4, <2>1
<1>6. \A u \in Threads \ {t} : pc'[u] = pc[u] /\ cur'[u] = cur[u] /\ todo'[u] = todo[u]
  BY <1>1, <1>4
<1>7. /\ open' \in [1..2 -> SUBSET States]
      /\ \A k \in 1..2 : open'[k] \subseteq open[k] \cup {x \in States : g'[x] # Infinity}
      /\ \A k \in 1..2 : \A x \in States :
           ~(x \in open'[k] <=> x \in open[k]) => BlockOf[x] \in {blk[t]} \cup Interferes[blk[t]]
  <2>1. CASE open' = open
    BY <1>1, <2>1
  <2>2. ASSUME NEW l \in 1..2, open' = [open EXCEPT ![l] = @ \cup {c[1]}],
               g' = [g EXCEPT ![c[1]] = c[2]]
        PROVE  /\ open' \in [1..2 -> SUBSET States]
               /\ \A k \in 1..2 : open'[k] \subseteq open[k] \cup {x \in States : g'[x] # Infinity}
               /\ \A k \in 1..2 : \A x \in States :
                    ~(x \in open'[k] <=> x \in open[k]) =>
                       BlockOf[x] \in {blk[t]} \cup Interferes[blk[t]]
    BY <1>1, <1>3, <2>2
  <2>3. QED
    BY <2>1, <2>2
<1>8. Worked(t)
  BY <1>2, <1>6, <1>7 DEF Worked
<1>9. todo'[t] \subseteq todo[t]
  BY <1>1, <1>4
<1>10. Owner(t)'
  <2>1. g'[cur[t]] = g[cur[t]] /\ Made \subseteq Made'
    BY <1>3, <1>8, WorkedCosts
  <2>2. CASE /\ pc' = [pc EXCEPT ![t] = IF todo[t] = {c} THEN "search" ELSE "child"]
             /\ cur' = cur /\ todo' = [todo EXCEPT ![t] = @ \ {c}]
    <3>1. Children(cur[t], g[cur[t]])' = Children(cur[t], g[cur[t]])
      BY <2>1, <2>2 DEF Children
    <3>2. todo'[t] = {} <=> todo[t] = {c}
      BY <1>1, <2>2
    <3>3. pc'[t] = (IF todo[t] = {c} THEN "search" ELSE "child") /\ cur'[t] = cur[t]
      BY <1>1, <2>2
    <3>4. QED
      BY <1>2, <1>9, <2>1, <3>1, <3>2, <3>3 DEF Owner
  <2>3. CASE /\ pc' = [pc EXCEPT ![t] = "path"] /\ cur' = [cur EXCEPT ![t] = c[1]]
             /\ todo' = [todo EXCEPT ![t] = {}] /\ g' = [g EXCEPT ![c[1]] = c[2]]
    <3>1. c[1] \in Made'
      BY <1>1, <1>3, <2>3 DEF Made
    <3>2. pc'[t] = "path" /\ cur'[t] = c[1] /\ todo'[t] = {}
      BY <1>1, <2>3
    <3>3. QED
      BY <3>1, <3>2 DEF Owner
  <2>4. QED
    BY <1>4, <2>2, <2>3
<1>11. PSDDOwner(t)'
  <2>1. pc'[t] \in {"path", "search", "child"}
    BY <1>1, <1>4
  <2>2. QED
    BY <2>1 DEF PSDDOwner
<1>12. IInv'
  BY <1>5, <1>7, <1>8, <1>9, <1>10, <1>11, WorkedInv
<1>13. QED
  BY <1>8, <1>12

\* Thread t leaves its block, with the nodes of S.
LEMMA LeftInv ==
  ASSUME IInv, CostsFit, NEW t \in Threads, pc[t] = "search",
         pc' = [pc EXCEPT ![t] = "test"], NEW S \in SUBSET Of(blk[t], open[1]),
         open' = [open EXCEPT ![1] = @ \ S],
         UNCHANGED <<job, blk, cur, todo, exp, g, graph, best, bound, lowest, done>>,
         IsPSDD => Of(blk[t], open[graph.layer]) = {}
  PROVE  IInv' /\ Worked(t)
<1>1. /\ open \in [1..2 -> SUBSET States] /\ cur \in [Threads -> States]
      /\ todo \in [Threads -> SUBSET (States \X Nat)] /\ exp \in [Threads -> Nat]
      /\ pc \in [Threads -> Spots] /\ lowest \in Nat /\ graph.layer \in 1..2
  BY DEF IInv, TypeOK, Spots
<1>2. blk[t] # None /\ Owner(t)
  BY DEF IInv, Owner
<1>3. /\ open' \in [1..2 -> SUBSET States]
      /\ \A k \in 1..2 : open'[k] \subseteq open[k]
      /\ \A k \in 1..2 : \A x \in States :
           ~(x \in open'[k] <=> x \in open[k]) => BlockOf[x] \in {blk[t]} \cup Interferes[blk[t]]
  BY <1>1 DEF Of
<1>4. pc' \in [Threads -> Spots] /\ pc'[t] = "test" /\ \A u \in Threads \ {t} : pc'[u] = pc[u]
  BY <1>1 DEF Spots
<1>5. Worked(t)
  BY <1>2, <1>3, <1>4 DEF Worked
<1>6. Owner(t)'
  BY <1>2, <1>4 DEF Owner
<1>7. IsPSDD => PSDDOwner(t)'
  <2>1. IsPSDD => Of(blk[t], open[graph.layer])' = {}
    BY <1>1, <1>3 DEF Of
  <2>2. QED
    BY <1>4, <2>1 DEF PSDDOwner
<1>8. IInv'
  BY <1>1, <1>3, <1>4, <1>5, <1>6, <1>7, WorkedInv
<1>9. QED
  BY <1>5, <1>8

\* PSDD's search_nblock.
LEMMA TakeInv ==
  ASSUME IInv, CostsFit, IsPSDD, NEW t \in Threads, Take(t)
  PROVE  IInv' /\ Worked(t)
<1>1. graph.layer \in 1..2 /\ open \in [1..2 -> SUBSET States]
  BY DEF IInv, TypeOK
<1>2. CASE /\ Of(blk[t], open[graph.layer]) = {}
           /\ pc' = [pc EXCEPT ![t] = "test"] /\ UNCHANGED <<cur, todo, exp, open>>
  <2>1. {} \in SUBSET Of(blk[t], open[1]) /\ open' = [open EXCEPT ![1] = @ \ {}]
    BY <1>1, <1>2
  <2>2. /\ UNCHANGED <<job, blk, cur, todo, exp, g, graph, best, bound, lowest, done>>
        /\ pc[t] = "search"
    BY <1>2 DEF Take
  <2>3. QED
    BY <1>2, <2>1, <2>2, LeftInv
<1>3. ASSUME NEW s \in Of(blk[t], open[graph.layer]),
             open' = [open EXCEPT ![graph.layer] = @ \ {s}],
             \/ FoundGoal(t, s) /\ UNCHANGED exp
             \/ Expand(t, s)
      PROVE  IInv' /\ Worked(t)
  <2>1. /\ UNCHANGED <<job, blk, g, graph, best, bound, lowest, done>>
        /\ pc[t] = "search"
    BY DEF Take
  <2>2. QED
    BY <1>1, <1>3, <2>1, TakenInv
<1>4. QED
  BY <1>2, <1>3 DEF Take

\* The fate of a child in PSDD.
LEMMA PSDDChildInv ==
  ASSUME IInv, CostsFit, IsPSDD, NEW t \in Threads, Child(t)
  PROVE  IInv' /\ Worked(t)
<1>1. UNCHANGED <<job, blk, exp, graph, best, bound, done>> /\ pc[t] = "child"
  BY DEF Child
<1>2. /\ Other(graph.layer) \in 1..2 /\ lowest \in Nat /\ g \in [States -> Nat]
  BY DEF IInv, TypeOK, Other
<1>3. PICK c \in todo[t] : OverBound(t, c) \/ Known(t, c) \/ Fresh(t, c)
  BY DEF Child
<1>4. c[1] \in States /\ c[2] \in Nat /\ c[2] < Infinity
  BY <1>1, ChildIs
<1>5. CASE OverBound(t, c)
  <2>1. {lowest, c[2] + H[c[1]]} \in SUBSET Nat
    BY <1>2, <1>4, SpaceAssumption
  <2>2. lowest' \in Nat
    BY <1>5, <2>1, MinIsLeast DEF OverBound
  <2>3. QED
    BY <1>1, <1>5, <2>2, ChildInv DEF OverBound
<1>6. CASE Known(t, c)
  <2>1. lowest' \in Nat /\ NextChild(t, c) /\ cur' = cur
    BY <1>2, <1>6 DEF Known
  <2>2. CASE g[c[1]] > c[2]
    <3>1. g' = [g EXCEPT ![c[1]] = c[2]] /\ c[2] < g[c[1]]
      BY <1>2, <1>4, <1>6, <2>2 DEF Known
    <3>2. open' = open \/ open' = [open EXCEPT ![Other(graph.layer)] = @ \cup {c[1]}]
      BY <1>6, <2>2 DEF Known, AddToNext
    <3>3. QED
      BY <1>1, <1>2, <2>1, <3>1, <3>2, ChildInv
  <2>3. CASE ~(g[c[1]] > c[2])
    <3>1. g' = g /\ open' = open
      BY <1>6, <2>3 DEF Known
    <3>2. QED
      BY <1>1, <2>1, <3>1, ChildInv
  <2>4. QED
    BY <2>2, <2>3
<1>7. CASE Fresh(t, c)
  <2>1. /\ lowest' \in Nat /\ g' = [g EXCEPT ![c[1]] = c[2]] /\ c[2] < g[c[1]]
    BY <1>2, <1>4, <1>7 DEF Fresh
  <2>2. \/ FoundGoal(t, c[1]) /\ open' = open
        \/ /\ NextChild(t, c) /\ cur' = cur
           /\ open' = [open EXCEPT ![Other(graph.layer)] = @ \cup {c[1]}]
    BY <1>7 DEF Fresh, AddToNext
  <2>3. QED
    BY <1>1, <1>2, <2>1, <2>2, ChildInv
<1>8. QED
  BY <1>3, <1>5, <1>6, <1>7

\* BFPSDD's search_nblock, but for the children.
LEMMA BFPSDDTakeInv ==
  ASSUME IInv, CostsFit, IsBFPSDD, NEW t \in Threads,
         LeaveBlock(t) \/ PruneBlock(t) \/ TakeBest(t)
  PROVE  IInv' /\ Worked(t)
<1>1. open \in [1..2 -> SUBSET States] /\ ~IsPSDD /\ pc[t] = "search"
  BY DEF IInv, TypeOK, IsPSDD, IsBFPSDD, LeaveBlock, PruneBlock, TakeBest, Continues
<1>2. CASE LeaveBlock(t)
  <2>1. {} \in SUBSET Of(blk[t], open[1]) /\ open' = [open EXCEPT ![1] = @ \ {}]
    BY <1>1, <1>2 DEF LeaveBlock
  <2>2. /\ UNCHANGED <<job, blk, cur, todo, exp, g, graph, best, bound, lowest, done>>
        /\ pc' = [pc EXCEPT ![t] = "test"]
    BY <1>2 DEF LeaveBlock
  <2>3. QED
    BY <1>1, <2>1, <2>2, LeftInv
<1>3. CASE PruneBlock(t)
  <2>1. /\ UNCHANGED <<job, blk, cur, todo, exp, g, graph, best, bound, lowest, done>>
        /\ pc' = [pc EXCEPT ![t] = "test"]
        /\ open' = [open EXCEPT ![1] = @ \ Of(blk[t], open[1])]
    BY <1>3 DEF PruneBlock
  <2>2. QED
    BY <1>1, <2>1, LeftInv
<1>4. CASE TakeBest(t)
  <2>1. UNCHANGED <<job, blk, g, graph, best, bound, lowest, done>>
    BY <1>4 DEF TakeBest
  <2>2. PICK s \in Of(blk[t], open[1]) :
          /\ open' = [open EXCEPT ![1] = @ \ {s}]
          /\ \/ FoundGoal(t, s) /\ UNCHANGED exp
             \/ Expand(t, s)
             \/ UNCHANGED <<pc, cur, todo, exp>>
    BY <1>4 DEF TakeBest
  <2>3. 1 \in 1..2
    OBVIOUS
  <2>4. QED
    BY <1>1, <2>1, <2>2, <2>3, TakenInv
<1>5. QED
  BY <1>2, <1>3, <1>4

\* The fate of a child in BFPSDD.
LEMMA BFPSDDChildInv ==
  ASSUME IInv, CostsFit, IsBFPSDD, NEW t \in Threads, HandleChild(t)
  PROVE  IInv' /\ Worked(t)
<1>1. UNCHANGED <<job, blk, exp, graph, best, bound, lowest, done>> /\ pc[t] = "child"
  BY DEF HandleChild
<1>2. lowest' \in Nat /\ g \in [States -> Nat] /\ 1 \in 1..2
  BY <1>1 DEF IInv, TypeOK
<1>3. PICK c \in todo[t] : DropChild(t, c) \/ KnownChild(t, c) \/ FreshChild(t, c)
  BY DEF HandleChild
<1>4. c[1] \in States /\ c[2] \in Nat /\ c[2] < Infinity
  BY <1>1, ChildIs
<1>5. CASE DropChild(t, c)
  BY <1>1, <1>2, <1>5, ChildInv DEF DropChild
<1>6. CASE KnownChild(t, c)
  <2>1. NextChild(t, c) /\ cur' = cur
    BY <1>6 DEF KnownChild
  <2>2. CASE g[c[1]] > c[2]
    <3>1. g' = [g EXCEPT ![c[1]] = c[2]] /\ c[2] < g[c[1]]
      BY <1>2, <1>4, <1>6, <2>2 DEF KnownChild
    <3>2. open' = open \/ open' = [open EXCEPT ![1] = @ \cup {c[1]}]
      BY <1>6, <2>2 DEF KnownChild
    <3>3. QED
      BY <1>1, <1>2, <2>1, <3>1, <3>2, ChildInv
  <2>3. CASE ~(g[c[1]] > c[2])
    <3>1. g' = g /\ open' = open
      BY <1>6, <2>3 DEF KnownChild
    <3>2. QED
      BY <1>1, <1>2, <2>1, <3>1, ChildInv
  <2>4. QED
    BY <2>2, <2>3
<1>7. CASE FreshChild(t, c)
  <2>1. g' = [g EXCEPT ![c[1]] = c[2]] /\ c[2] < g[c[1]]
    BY <1>2, <1>4, <1>7 DEF FreshChild
  <2>2. \/ FoundGoal(t, c[1]) /\ open' = open
        \/ /\ NextChild(t, c) /\ cur' = cur
           /\ open' = [open EXCEPT ![1] = @ \cup {c[1]}]
    BY <1>7 DEF FreshChild
  <2>3. QED
    BY <1>1, <1>2, <2>1, <2>2, ChildInv
<1>8. QED
  BY <1>3, <1>5, <1>6, <1>7

-----------------------------------------------------------------------------
(***************************************************************************)
(* The other steps                                                         *)
(***************************************************************************)

\* A search, or an iteration of one, that is about to begin.
Beginning ==
  /\ job \in Jobs /\ open = NewOpen /\ g = OnlyStart
  /\ \E v \in Nat : graph = NewGraph(v)
  /\ pc = Everywhere("next") /\ blk = Everywhere(None) /\ todo = Everywhere({})
  /\ exp \in [Threads -> Nat] /\ cur \in [Threads -> States]
  /\ best = Infinity /\ {bound, lowest} \subseteq Nat /\ done \in BOOLEAN

\* The invariant holds when a search begins.
LEMMA FreshInv == CostsFit /\ Beginning => IInv
<1> SUFFICES ASSUME CostsFit, Beginning PROVE IInv
  OBVIOUS
<1>1. /\ Start \in States /\ Infinity \in Nat \ {0} /\ Dearest \in Nat
  BY SpaceAssumption, DearestAffords
<1>2. /\ \A t \in Threads : pc[t] = "next" /\ blk[t] = None /\ todo[t] = {}
      /\ pc \in [Threads -> Spots] /\ blk \in [Threads -> Blocks \cup {None}]
      /\ todo \in [Threads -> SUBSET (States \X Nat)]
  BY DEF Beginning, Everywhere, Spots
<1>3. /\ open \in [1..2 -> SUBSET States] /\ open[1] = {Start} /\ open[2] = {}
  BY <1>1 DEF Beginning, NewOpen
<1>4. /\ g \in [States -> Nat] /\ \A s \in States : g[s] = IF s = Start THEN 0 ELSE Infinity
  BY <1>1 DEF Beginning, OnlyStart
<1>5. Made = {Start}
  BY <1>1, <1>4 DEF Made
<1>6. Good(graph) /\ GraphType(graph) /\ graph.inuse = {} /\ open = NewOpen
  BY NewGraphGood DEF Beginning, Good
<1>7. TypeOK
  BY <1>1, <1>2, <1>3, <1>4, <1>6 DEF Beginning, TypeOK, GraphType, Spots
<1>8. Owned
  BY <1>2, <1>6 DEF Owned
<1>9. LowCosts
  <2>1. Cardinality(Made) = 1
    BY <1>5, FS_Singleton
  <2>2. 1 * Dearest = Dearest
    BY <1>1
  <2>3. \A s \in Made : g[s] = 0
    BY <1>1, <1>4, <1>5
  <2>4. QED
    BY <1>1, <1>2, <2>1, <2>2, <2>3 DEF LowCosts
<1>10. \A t \in Threads : Owner(t) /\ PSDDOwner(t)
  BY <1>2 DEF Owner, PSDDOwner
<1>11. Told
  BY DEF Told, Beginning
<1>12. \A l \in 1..2 : open[l] \subseteq Made
  BY <1>3, <1>5
<1>13. QED
  BY <1>6, <1>7, <1>8, <1>9, <1>10, <1>11, <1>12 DEF IInv

\* The first states.
LEMMA InitFresh == Init => Beginning
<1> SUFFICES ASSUME Init PROVE Beginning
  OBVIOUS
<1>1. job \in Jobs /\ job.weight \in Nat \ {0} /\ Start \in States
      /\ H \in [States -> Nat] /\ Infinity \in Nat /\ CostToGo \in [States -> Nat]
  BY SpaceAssumption, JobsAssumption, CostToGoType DEF Init
<1>2. bound \in Nat
  <2>1. FirstBound \subseteq Nat
    BY <1>1 DEF FirstBound
  <2>2. QED
    BY <1>1, <2>1 DEF Init
<1>3. \E v \in Nat : graph = NewGraph(v)
  <2>1. (IF IsPSDD THEN 0 ELSE FPrime(Start, 0)) \in Nat
    BY <1>1 DEF FPrime
  <2>2. QED
    BY <2>1 DEF Init
<1>4. exp \in [Threads -> Nat] /\ cur \in [Threads -> States]
  BY <1>1 DEF Init, Everywhere
<1>5. QED
  BY <1>1, <1>2, <1>3, <1>4 DEF Init, Beginning

\* IDPSDD begins the next iteration.
LEMMA IterateFresh == IInv /\ Iterate => Beginning'
<1> SUFFICES ASSUME IInv, Iterate PROVE Beginning'
  OBVIOUS
<1>1. \A t \in Threads : todo[t] = {}
  BY DEF Iterate, AllEnded, IInv, Owner
<1>2. todo = Everywhere({})
  BY <1>1 DEF Everywhere, IInv, TypeOK
<1>3. /\ job' = job /\ cur' = cur /\ todo' = todo /\ exp' = exp /\ done' = done
      /\ graph' = NewGraph(0) /\ open' = NewOpen /\ g' = OnlyStart
      /\ pc' = Everywhere("next") /\ blk' = Everywhere(None)
      /\ best' = Infinity /\ lowest' = Infinity /\ bound' = lowest
  BY DEF Iterate
<1>4. /\ job \in Jobs /\ exp \in [Threads -> Nat] /\ cur \in [Threads -> States]
      /\ lowest \in Nat /\ done \in BOOLEAN /\ Infinity \in Nat
  BY SpaceAssumption DEF IInv, TypeOK
<1>5. Everywhere("next")' = Everywhere("next") /\ Everywhere(None)' = Everywhere(None)
      /\ Everywhere({})' = Everywhere({})
  BY DEF Everywhere
<1>6. \E v \in Nat : graph' = NewGraph(v)'
  BY <1>3 DEF NewGraph
<1>7. NewOpen' = NewOpen /\ OnlyStart' = OnlyStart
  BY DEF NewOpen, OnlyStart
<1>8. QED
  BY <1>2, <1>3, <1>4, <1>5, <1>6, <1>7 DEF Beginning

\* So the invariant holds in the next iteration.
LEMMA IterateInv == CostsFit /\ IInv /\ Iterate => IInv'
<1>1. CostsFit => CostsFit'
  BY DEF CostsFit, Affords
<1>2. QED
  BY <1>1, FreshInv, IterateFresh, PTL

\* Thread t goes on without touching blocks, nodes or lists.
LEMMA TalkInv ==
  ASSUME IInv, NEW t \in Threads,
         UNCHANGED <<job, blk, cur, todo, exp, open, g, lowest>>,
         graph' = graph \/ graph' = [graph EXCEPT !.found = TRUE],
         pc' \in [Threads -> Spots],
         \A u \in Threads \ {t} :
           pc'[u] = pc[u] \/ (pc[u] = "wait" /\ pc'[u] = "woken"),
         pc[t] # "child", pc'[t] \in {"next", "tell", "lower", "test", "finish", "end"},
         {best', bound'} \subseteq Nat, done' \in BOOLEAN,
         IsPSDD => /\ Told' /\ PSDDOwner(t)'
                   /\ best # Infinity => best' # Infinity
  PROVE  IInv'
<1>1. /\ TypeOK /\ GraphType(graph) /\ Good(graph) /\ Owned
  BY DEF IInv, Good
<1>2. /\ GraphType(graph)' /\ graph'.sigma = graph.sigma /\ graph'.inuse = graph.inuse
      /\ graph'.lists = graph.lists /\ graph'.layer = graph.layer
      /\ graph'.value = graph.value /\ graph'.inlayer = graph.inlayer
      /\ graph.found => graph'.found
  BY <1>1 DEF GraphType
<1>3. Good(graph)'
  <2>1. PICK S : S = graph'
    OBVIOUS
  <2>2. GraphType(S) /\ SigmasExact(S)
    BY <1>1, <1>2, <2>1 DEF Good, SigmasExact, GraphType
  <2>3. \A c : LayersOf(S, c) = LayersOf(graph, c) /\ (Idle(S, c) <=> Idle(graph, c))
    BY <1>2, <2>1 DEF LayersOf, Idle
  <2>4. PSDDLists(graph) => PSDDLists(S)
    BY <1>2, <2>1, <2>3 DEF PSDDLists
  <2>5. BFPSDDLists(graph) => BFPSDDLists(S)
    BY <1>2, <2>1, <2>3 DEF BFPSDDLists
  <2>6. Good(S)
    BY <1>1, <2>2, <2>4, <2>5 DEF Good
  <2>7. QED
    BY <2>1, <2>6, GoodStays
<1>4. TypeOK'
  BY <1>1, <1>2 DEF TypeOK, GraphType, Spots
<1>5. Owned' /\ LowCosts' /\ Made' = Made
  BY <1>1, <1>2 DEF IInv, Owned, LowCosts, Made
<1>6. ASSUME NEW u \in Threads PROVE Owner(u)'
  <2>1. Owner(u) /\ Children(cur[u], g[cur[u]])' = Children(cur[u], g[cur[u]])
    BY DEF IInv, Children
  <2>2. CASE u = t
    BY <1>5, <2>1, <2>2 DEF Owner
  <2>3. CASE u # t
    <3>1. pc'[u] = pc[u] \/ (pc[u] = "wait" /\ pc'[u] = "woken")
      BY <2>3
    <3>2. QED
      BY <1>5, <2>1, <3>1 DEF Owner
  <2>4. QED
    BY <2>2, <2>3
<1>7. ASSUME IsPSDD, NEW u \in Threads \ {t} PROVE PSDDOwner(u)'
  <2>1. PSDDOwner(u)
    BY <1>7 DEF IInv
  <2>2. Of(blk[u], open[graph.layer])' = Of(blk[u], open[graph.layer])
    BY <1>2 DEF Of
  <2>3. QED
    BY <1>2, <1>7, <2>1, <2>2 DEF PSDDOwner
<1>8. IsPSDD' => Told' /\ \A u \in Threads : PSDDOwner(u)'
  BY <1>7 DEF IsPSDD
<1>9. \A l \in 1..2 : open'[l] \subseteq Made'
  BY <1>5 DEF IInv
<1>10. QED
  BY <1>3, <1>4, <1>5, <1>6, <1>8, <1>9 DEF IInv

\* PSDD: a thread has found a path, tells the graph, or looks whether to go on.
LEMMA PSDDTalkInv ==
  ASSUME IInv, IsPSDD, NEW t \in Threads, SetPath(t) \/ SetPathFound(t) \/ Test(t)
  PROVE  IInv'
<1>1. /\ pc \in [Threads -> Spots] /\ {best, bound} \subseteq Nat /\ done \in BOOLEAN
      /\ g \in [States -> Nat] /\ cur \in [Threads -> States] /\ TypeOK
      /\ Told /\ PSDDOwner(t) /\ Owner(t) /\ GraphType(graph)
  BY DEF IInv, TypeOK, Spots, Good
<1>2. UNCHANGED <<job, blk, cur, todo, exp, open, g, lowest>>
  BY DEF SetPath, SetPathFound, Test
<1>3. CASE SetPath(t)
  <2>1. /\ pc[t] = "path" /\ pc' = [pc EXCEPT ![t] = "tell"] /\ graph' = graph
        /\ best' = (IF best = Infinity THEN g[cur[t]] ELSE best)
        /\ bound' = bound /\ done' = done
    BY <1>3 DEF SetPath, Go
  <2>2. g[cur[t]] # Infinity
    BY <1>1, <2>1 DEF Owner, Made
  <2>3. /\ best' \in Nat /\ best' # Infinity /\ pc'[t] = "tell" /\ pc' \in [Threads -> Spots]
        /\ \A u \in Threads \ {t} : pc'[u] = pc[u]
    BY <1>1, <2>1, <2>2 DEF Spots
  <2>4. Told' /\ PSDDOwner(t)'
    BY <2>3 DEF Told, PSDDOwner
  <2>5. QED
    BY <1>1, <1>2, <2>1, <2>3, <2>4, TalkInv
<1>4. CASE SetPathFound(t)
  <2>1. /\ pc[t] = "tell" /\ pc' = Wake(Waiting, t, "test")
        /\ graph' = [graph EXCEPT !.found = TRUE]
        /\ best' = best /\ bound' = bound /\ done' = done
    BY <1>4 DEF SetPathFound
  <2>2. /\ pc' \in [Threads -> Spots] /\ pc'[t] = "test"
        /\ \A u \in Threads \ {t} :
             pc'[u] = pc[u] \/ (pc[u] = "wait" /\ pc'[u] = "woken")
    <3>0. TypeOK
      BY <1>1
    <3>1. PICK to : to = "test"
      OBVIOUS
    <3>2. to \in Spots /\ pc' = Wake(Waiting, t, to)
      BY <2>1, <3>1 DEF Spots
    <3>3. PICK W \in SUBSET Waiting : W = Waiting
      OBVIOUS
    <3>4. /\ Wake(W, t, to) \in [Threads -> Spots]
          /\ Wake(W, t, to)[t] = to
          /\ \A u \in Threads \ {t} :
               \/ Wake(W, t, to)[u] = pc[u]
               \/ pc[u] = "wait" /\ Wake(W, t, to)[u] = "woken"
      BY <3>0, <3>2, WakeIs
    <3>5. QED
      BY <3>1, <3>2, <3>3, <3>4
  <2>3. best # Infinity /\ graph'.found
    BY <1>1, <2>1 DEF PSDDOwner, GraphType
  <2>4. Told' /\ PSDDOwner(t)'
    BY <2>1, <2>2, <2>3 DEF Told, PSDDOwner
  <2>5. QED
    BY <1>1, <1>2, <2>1, <2>2, <2>4, TalkInv
<1>5. CASE Test(t)
  <2>1. /\ \/ pc[t] = "test" /\ pc' = [pc EXCEPT ![t] = IF best = Infinity THEN "next" ELSE "end"]
           \/ pc[t] = "none" /\ pc' = [pc EXCEPT ![t] = "end"]
        /\ graph' = graph /\ best' = best /\ bound' = bound /\ done' = done
    BY <1>5 DEF Test, Go
  <2>2. /\ pc' \in [Threads -> Spots] /\ \A u \in Threads \ {t} : pc'[u] = pc[u]
        /\ pc'[t] \in {"next", "end"}
        /\ pc'[t] = "next" => pc[t] = "test" /\ best = Infinity
        /\ pc'[t] = "end" => pc[t] = "none" \/ best # Infinity
    <3>1. {"next", "end"} \subseteq Spots
      BY DEF Spots
    <3>2. QED
      BY <1>1, <2>1, <3>1
  <2>3. Told'
    <3>1. \A u \in Threads : pc[u] = "tell" => pc'[u] = "tell"
      BY <2>1, <2>2
    <3>2. QED
      BY <1>1, <2>1, <3>1 DEF Told
  <2>4. PSDDOwner(t)'
    <3>1. Of(blk[t], open[graph.layer])' = Of(blk[t], open[graph.layer])
      BY <1>2, <2>1 DEF Of
    <3>2. QED
      BY <1>1, <1>2, <2>1, <2>2, <3>1 DEF PSDDOwner
  <2>5. QED
    BY <1>1, <1>2, <2>1, <2>2, <2>3, <2>4, TalkInv
<1>6. QED
  BY <1>3, <1>4, <1>5

\* BFPSDD: a thread has found a path, goes on or ends.
LEMMA BFPSDDTalkInv ==
  ASSUME IInv, IsBFPSDD, NEW t \in Threads,
         SeePath(t) \/ LowerBound(t) \/ Again(t) \/ Finish(t)
  PROVE  IInv'
<1>1. /\ pc \in [Threads -> Spots] /\ best \in Nat /\ bound \in Nat /\ done \in BOOLEAN
      /\ g[cur[t]] \in Nat /\ TypeOK /\ ~IsPSDD
  BY DEF IInv, TypeOK, Spots, IsPSDD, IsBFPSDD
<1>2. UNCHANGED <<job, blk, cur, todo, exp, open, g, lowest>>
  BY DEF SeePath, LowerBound, Again, Finish
<1>3. Min({best, g[cur[t]]}) \in Nat /\ Min({bound, best}) \in Nat
  <2>1. {best, g[cur[t]]} \in SUBSET Nat /\ {bound, best} \in SUBSET Nat
    BY <1>1
  <2>2. QED
    BY <2>1, MinIsLeast
<1>4. CASE SeePath(t) \/ LowerBound(t) \/ Again(t)
  <2>1. /\ \E to \in {"lower", "test", "finish", "next", "end"} : pc' = [pc EXCEPT ![t] = to]
        /\ pc[t] # "child" /\ graph' = graph /\ done' = done
    BY <1>4 DEF SeePath, LowerBound, Again, Go
  <2>2. /\ pc' \in [Threads -> Spots]
        /\ pc'[t] \in {"next", "tell", "lower", "test", "finish", "end"}
        /\ \A u \in Threads \ {t} : pc'[u] = pc[u]
    BY <1>1, <2>1 DEF Spots
  <2>3. best' \in Nat /\ bound' \in Nat
    BY <1>1, <1>3, <1>4 DEF SeePath, LowerBound, Again
  <2>4. QED
    BY <1>1, <1>2, <2>1, <2>2, <2>3, TalkInv
<1>5. CASE Finish(t)
  <2>1. /\ pc[t] = "finish" /\ pc' = Wake(Waiting, t, "end")
        /\ graph' = [graph EXCEPT !.found = TRUE]
        /\ best' = best /\ bound' = bound /\ done' = TRUE
    BY <1>5 DEF Finish
  <2>2. /\ pc' \in [Threads -> Spots] /\ pc'[t] = "end"
        /\ \A u \in Threads \ {t} :
             pc'[u] = pc[u] \/ (pc[u] = "wait" /\ pc'[u] = "woken")
    <3>0. TypeOK
      BY <1>1
    <3>1. PICK to : to = "end"
      OBVIOUS
    <3>2. to \in Spots /\ pc' = Wake(Waiting, t, to)
      BY <2>1, <3>1 DEF Spots
    <3>3. PICK W \in SUBSET Waiting : W = Waiting
      OBVIOUS
    <3>4. /\ Wake(W, t, to) \in [Threads -> Spots]
          /\ Wake(W, t, to)[t] = to
          /\ \A u \in Threads \ {t} :
               \/ Wake(W, t, to)[u] = pc[u]
               \/ pc[u] = "wait" /\ Wake(W, t, to)[u] = "woken"
      BY <3>0, <3>2, WakeIs
    <3>5. QED
      BY <3>1, <3>2, <3>3, <3>4
  <2>3. QED
    BY <1>1, <1>2, <2>1, <2>2, TalkInv
<1>6. QED
  BY <1>4, <1>5

-----------------------------------------------------------------------------
(***************************************************************************)
(* The theorems about the lists and the layers                             *)
(***************************************************************************)

\* Every step keeps the invariant.
LEMMA NextInv ==
  ASSUME NoBlockAlone, CostsFit, IInv, [Next]_vars
  PROVE  IInv'
<1>1. ASSUME NEW t \in Threads, PSDDStep(t) PROVE IInv'
  <2>1. IsPSDD
    BY <1>1 DEF PSDDStep
  <2>2. CASE NextBlock(t) \/ Woken(t)
    BY <2>1, <2>2, NextBlockMoves, MovedInv
  <2>3. CASE Take(t)
    BY <2>1, <2>3, TakeInv
  <2>4. CASE Child(t)
    BY <2>1, <2>4, PSDDChildInv
  <2>5. CASE SetPath(t) \/ SetPathFound(t) \/ Test(t)
    BY <2>1, <2>5, PSDDTalkInv
  <2>6. QED
    BY <1>1, <2>2, <2>3, <2>4, <2>5 DEF PSDDStep
<1>2. ASSUME NEW t \in Threads, BFPSDDStep(t) PROVE IInv'
  <2>1. IsBFPSDD
    BY <1>2 DEF BFPSDDStep
  <2>2. CASE NextFree(t) \/ WokenFree(t)
    BY <2>1, <2>2, NextFreeMoves, MovedInv
  <2>3. CASE LeaveBlock(t) \/ PruneBlock(t) \/ TakeBest(t)
    BY <2>1, <2>3, BFPSDDTakeInv
  <2>4. CASE HandleChild(t)
    BY <2>1, <2>4, BFPSDDChildInv
  <2>5. CASE SeePath(t) \/ LowerBound(t) \/ Again(t) \/ Finish(t)
    BY <2>1, <2>5, BFPSDDTalkInv
  <2>6. QED
    BY <1>2, <2>2, <2>3, <2>4, <2>5 DEF BFPSDDStep
<1>3. CASE Iterate
  BY <1>3, IterateInv
<1>4. CASE UNCHANGED vars
  <2>1. UNCHANGED <<job, pc, blk, cur, todo, exp, open, g, graph, best, bound, lowest, done>>
    BY <1>4 DEF vars
  <2>2. TypeOK' /\ Owned' /\ LowCosts' /\ Made' = Made
    BY <2>1 DEF IInv, TypeOK, Owned, LowCosts, Made
  <2>3. PICK S : S = graph'
    OBVIOUS
  <2>4. Good(graph)'
    BY <2>1, <2>3, GoodStays DEF IInv
  <2>5. ASSUME NEW t \in Threads PROVE Owner(t)' /\ (IsPSDD => PSDDOwner(t)')
    <3>1. Owner(t)'
      BY <2>1, <2>2 DEF IInv, Owner, Children
    <3>2. IsPSDD => PSDDOwner(t)'
      BY <2>1 DEF IInv, PSDDOwner, Of
    <3>3. QED
      BY <3>1, <3>2
  <2>6. IsPSDD' = IsPSDD /\ (IsPSDD => Told')
    BY <2>1 DEF IInv, IsPSDD, Told
  <2>7. \A l \in 1..2 : open'[l] \subseteq Made'
    BY <2>1, <2>2 DEF IInv
  <2>8. QED
    BY <2>2, <2>4, <2>5, <2>6, <2>7 DEF IInv
<1>5. QED
  BY <1>1, <1>2, <1>3, <1>4 DEF Next

\* The invariant holds throughout.
LEMMA Invariant ==
  ASSUME NoBlockAlone, CostsFit
  PROVE  Spec => []IInv
<1>1. Init => IInv
  BY InitFresh, FreshInv
<1>2. IInv /\ [Next]_vars => IInv'
  BY NextInv
<1>3. QED
  BY <1>1, <1>2, PTL DEF Spec

\* Type correctness.
THEOREM TypeCorrect ==
  ASSUME NoBlockAlone, CostsFit
  PROVE  Spec => []TypeOK
<1>1. IInv => TypeOK
  BY DEF IInv
<1>2. QED
  BY <1>1, Invariant, PTL

\* What the lists hold, from what IInv says of them.
LEMMA GoodIsExact ==
  ASSUME IInv
  PROVE  ListsExact
<1> SUFFICES ASSUME NEW b \in Blocks
             PROVE  IF graph.sigma[b] > 0 \/ b \in graph.inuse
                    THEN \A l \in 1..2 : graph.lists[l][b] = 0
                    ELSE /\ graph.lists[1][b] + graph.lists[2][b] =
                              IF RightList(b) = {} THEN 0 ELSE 1
                         /\ \A l \in 1..2 : graph.lists[l][b] > 0 => l \in RightList(b)
  BY DEF ListsExact
<1>1. /\ Good(graph) /\ GraphType(graph) /\ graph.sigma[b] \in Nat /\ job \in Jobs
      /\ \A l \in 1..2 : graph.lists[l][b] \in Nat
      /\ graph.layer \in 1..2 /\ Other(graph.layer) \in 1..2
  BY DEF IInv, TypeOK, Good, GraphType, Other
<1>2. Idle(graph, b) <=> ~(graph.sigma[b] > 0 \/ b \in graph.inuse)
  BY <1>1 DEF Idle
<1>3. CASE IsPSDD
  <2>1. \A l \in 1..2 : graph.lists[l][b] =
          IF Idle(graph, b) /\ l \in LayersOf(graph, b) THEN 1 ELSE 0
    BY <1>1, <1>3 DEF Good, PSDDLists
  <2>2. RightList(b) = LayersOf(graph, b)
    BY <1>3 DEF RightList
  <2>3. RightList(b) \in {{}, {1}, {2}}
    BY <1>1, <2>2 DEF LayersOf, Other
  <2>4. /\ graph.lists[1][b] = IF Idle(graph, b) /\ 1 \in LayersOf(graph, b) THEN 1 ELSE 0
        /\ graph.lists[2][b] = IF Idle(graph, b) /\ 2 \in LayersOf(graph, b) THEN 1 ELSE 0
    BY <2>1
  <2>5. QED
    BY <1>2, <2>1, <2>2, <2>3, <2>4
<1>4. CASE ~IsPSDD
  <2>1. IsBFPSDD
    BY <1>1, <1>4, JobsAssumption DEF Algorithms, IsPSDD, IsBFPSDD
  <2>2. IF Idle(graph, b) /\ Of(b, open[1]) # {}
        THEN /\ graph.lists[1][b] + graph.lists[2][b] = 1
             /\ b \in graph.inlayer /\ BestVal(b) = graph.value => graph.lists[1][b] = 1
             /\ graph.lists[1][b] = 1 =>
                  b \in graph.inlayer \/ (graph.inuse = {} /\ open[1] = {Start})
        ELSE graph.lists[1][b] = 0 /\ graph.lists[2][b] = 0
    BY <1>1, <2>1 DEF Good, BFPSDDLists, Free, Queue
  <2>3. CASE ~(Idle(graph, b) /\ Of(b, open[1]) # {})
    <3>1. graph.lists[1][b] = 0 /\ graph.lists[2][b] = 0
      BY <2>2, <2>3
    <3>2. Idle(graph, b) => RightList(b) = {}
      BY <1>4, <2>3 DEF RightList
    <3>3. \A l \in 1..2 : graph.lists[l][b] = 0
      BY <3>1
    <3>4. QED
      BY <1>2, <3>1, <3>2, <3>3
  <2>4. CASE Idle(graph, b) /\ Of(b, open[1]) # {}
    <3>1. RightList(b) =
            IF b \in graph.inlayer /\ BestVal(b) = graph.value THEN {1}
            ELSE {l \in {1, 2} : l = 1 => b \in graph.inlayer \/ open[1] = {Start}}
      BY <1>4, <2>4 DEF RightList, Free, Queue
    <3>2. RightList(b) # {}
      BY <3>1
    <3>3. /\ graph.lists[1][b] \in {0, 1} /\ graph.lists[2][b] \in {0, 1}
          /\ graph.lists[1][b] = 1 <=> graph.lists[2][b] = 0
      BY <1>1, <2>2, <2>4
    <3>4. \A l \in 1..2 : graph.lists[l][b] > 0 => l \in RightList(b)
      BY <1>1, <2>2, <2>4, <3>1, <3>3
    <3>5. QED
      BY <1>2, <2>2, <2>4, <3>2, <3>4
  <2>5. QED
    BY <2>3, <2>4
<1>5. QED
  BY <1>3, <1>4

\* A block with nodes that is neither in use nor blocked is on exactly one
\* list, and the right one, whatever the threads do around it.
THEOREM ListsAreExact ==
  ASSUME NoBlockAlone, CostsFit
  PROVE  Spec => []ListsExact
<1>1. IInv => ListsExact
  BY GoodIsExact
<1>2. QED
  BY <1>1, Invariant, PTL

\* When all threads have ended the graph knows of a path.
LEMMA EndedFound ==
  ASSUME IInv, AllEnded, IsPSDD
  PROVE  graph.found
<1>1. 1 \in Threads
  BY LayersAssumption DEF Threads
<1>2. pc[1] = "end" /\ \A t \in Threads : pc[t] # "tell"
  BY <1>1 DEF AllEnded
<1>3. graph.found \/ best # Infinity
  BY <1>1, <1>2 DEF IInv, PSDDOwner
<1>4. QED
  BY <1>2, <1>3 DEF IInv, Told

\* The layer turns only in a thread's change of block.
LEMMA StepTurns ==
  ASSUME NoBlockAlone, CostsFit, IInv, [Next]_vars
  PROVE  LayerTurns
<1> SUFFICES ASSUME ~graph.found,
                    graph'.layer # graph.layer \/ graph'.value # graph.value
             PROVE  /\ \A u \in Threads : blk[u] # None => pc[u] = "next" /\ pc'[u] # "next"
                    /\ IsPSDD => open[graph.layer] = {}
  BY DEF LayerTurns
<1>1. GraphType(graph)
  BY DEF IInv, Good
<1>2. ASSUME NEW t \in Threads, Moved(t)
      PROVE  /\ \A u \in Threads : blk[u] # None => pc[u] = "next" /\ pc'[u] # "next"
             /\ IsPSDD => open[graph.layer] = {}
  <2>1. /\ graph.inuse \subseteq {blk[t]} /\ pc[t] = "next" /\ pc'[t] # "next"
        /\ IsPSDD => open[graph.layer] = {}
    BY <1>2 DEF Moved
  <2>2. ASSUME NEW u \in Threads, blk[u] # None PROVE u = t
    BY <2>1, <2>2 DEF IInv, Owned
  <2>3. QED
    BY <2>1, <2>2
<1>3. ASSUME graph' = graph \/ graph' = [graph EXCEPT !.found = TRUE] PROVE FALSE
  BY <1>1, <1>3 DEF GraphType
<1>4. ASSUME NEW t \in Threads, PSDDStep(t)
      PROVE  Moved(t) \/ graph' = graph \/ graph' = [graph EXCEPT !.found = TRUE]
  <2>1. IsPSDD
    BY <1>4 DEF PSDDStep
  <2>2. CASE NextBlock(t) \/ Woken(t)
    BY <2>1, <2>2, NextBlockMoves
  <2>3. CASE Take(t) \/ Child(t) \/ SetPath(t) \/ SetPathFound(t) \/ Test(t)
    BY <2>3 DEF Take, Child, SetPath, SetPathFound, Test
  <2>4. QED
    BY <1>4, <2>2, <2>3 DEF PSDDStep
<1>5. ASSUME NEW t \in Threads, BFPSDDStep(t)
      PROVE  Moved(t) \/ graph' = graph \/ graph' = [graph EXCEPT !.found = TRUE]
  <2>1. IsBFPSDD
    BY <1>5 DEF BFPSDDStep
  <2>2. CASE NextFree(t) \/ WokenFree(t)
    BY <2>1, <2>2, NextFreeMoves
  <2>3. CASE \/ LeaveBlock(t) \/ PruneBlock(t) \/ TakeBest(t) \/ HandleChild(t)
             \/ SeePath(t) \/ LowerBound(t) \/ Again(t) \/ Finish(t)
    BY <2>3 DEF LeaveBlock, PruneBlock, TakeBest, HandleChild, SeePath, LowerBound,
                Again, Finish
  <2>4. QED
    BY <1>5, <2>2, <2>3 DEF BFPSDDStep
<1>6. ~Iterate
  <2>1. Iterate => AllEnded /\ IsPSDD
    BY DEF Iterate, Continued, IsPSDD
  <2>2. QED
    BY <2>1, EndedFound
<1>7. CASE UNCHANGED vars
  BY <1>3, <1>7 DEF vars
<1>8. QED
  BY <1>2, <1>3, <1>4, <1>5, <1>6, <1>7 DEF Next

\* The searches are synchronous: while nothing is found, the layer changes
\* only when no other thread owns a block and, in PSDD, it has no node left.
THEOREM LayersAreSynchronous ==
  ASSUME NoBlockAlone, CostsFit
  PROVE  Spec => LayerSynchronous
<1>1. IInv /\ [Next]_vars => [LayerTurns]_vars
  BY StepTurns
<1>2. QED
  BY <1>1, Invariant, PTL DEF Spec, LayerSynchronous

-----------------------------------------------------------------------------
(***************************************************************************)
(* The results                                                             *)
(***************************************************************************)

\* No cost is less than that of a path, and what is found is a goal.
RealCosts ==
  /\ g[Start] = 0
  /\ \A s \in Made : LeastCost <= g[s] + CostToGo[s]
  /\ LeastCost <= best /\ best <= Infinity
  /\ \A t \in Threads : pc[t] = "path" => cur[t] \in Goals

\* PSDD makes no node above its bound, which is not above the least cost in an
\* iteration of IDPSDD, the next one being greater, and not below it otherwise.
PSDDBounds ==
  /\ \A s \in Made : g[s] + H[s] <= bound
  /\ best # Infinity => best <= bound
  /\ job.algo = "idpsdd" => bound <= LeastCost /\ bound < lowest
  /\ job.algo # "idpsdd" => LeastCost <= bound

\* BFPSDD's bound follows the best path, and threads stop at the end.
BFPSDDBounds ==
  /\ IF Weighted THEN best = bound ELSE best <= bound
  /\ done \/ (\E t \in Threads : pc[t] \in {"none", "finish", "end"}) => graph.found
  /\ open[2] = {}

\* The cost that BFPSDD promises.
Limit == job.weight * LeastCost

\* The search has, or is about to have, what it promises, or IDPSDD knows that
\* the next bound is not too high.
Met ==
  IF IsBFPSDD /\ ~Weighted
  THEN best <= Limit \/ \E t \in Threads : pc[t] = "path" /\ g[cur[t]] <= Limit
  ELSE \/ best # Infinity \/ \E t \in Threads : pc[t] = "path"
       \/ IsPSDD /\ bound < LeastCost /\ lowest <= LeastCost

\* The nodes that must not be lost: all, as long as WBFPSDD has no path, and
\* those that promise a cheapest solution in the others.
Worth(s, v) == Weighted \/ Promises(s, v)

Reached(s, v) == IF Weighted THEN s \in Made ELSE g[s] <= v

InHand(s, e) ==
  \E t \in Threads : /\ pc[t] = "child" /\ cur[t] = s
                     /\ <<e.to, g[s] + e.cost>> \in todo[t]

Handled(s) ==
  /\ s \notin Goals
  /\ \A e \in Edges[s] : Worth(e.to, g[s] + e.cost) =>
       Reached(e.to, g[s] + e.cost) \/ InHand(s, e)

NothingForgotten ==
  ~Met => \A s \in Made : Worth(s, g[s]) => IsOpen(s) \/ Handled(s)

Sound ==
  /\ RealCosts /\ NothingForgotten
  /\ IsPSDD => PSDDBounds
  /\ IsBFPSDD => BFPSDDBounds
  /\ graph.found => Met

\* The costs as numbers.
LEMMA LimitType ==
  ASSUME Solvable, TypeOK
  PROVE  /\ LeastCost \in Nat /\ LeastCost < Infinity /\ Infinity \in Nat
         /\ Limit \in Nat /\ LeastCost <= Limit /\ Limit < Infinity
         /\ job.weight \in Nat \ {0}
<1>1. LeastCost \in Nat /\ Infinity \in Nat
  BY SpaceAssumption, CostToGoType DEF LeastCost
<1>2. job \in Jobs /\ job.weight \in Nat \ {0}
  BY JobsAssumption DEF TypeOK
<1>3. 1 * LeastCost <= job.weight * LeastCost /\ job.weight * LeastCost \in Nat
  BY <1>1, <1>2, TimesMonotone
<1>4. QED
  BY <1>1, <1>2, <1>3 DEF Solvable, Limit

\* The cost of a node that is made is less than Infinity, also weighted.
LEMMA MadeFits ==
  ASSUME IInv, CostsFit, NEW s \in Made
  PROVE  /\ s \in States /\ g[s] \in Nat /\ g[s] < Infinity
         /\ g[s] <= Cardinality(States) * Dearest
<1>1. s \in States /\ g[s] \in Nat /\ Made \in SUBSET States /\ job \in Jobs
  BY DEF Made, IInv, TypeOK
<1>2. g[s] + Dearest <= Cardinality(Made) * Dearest /\ Dearest \in Nat
  BY DearestAffords DEF IInv, LowCosts
<1>3. /\ Cardinality(Made) * Dearest \in Nat /\ Cardinality(States) * Dearest \in Nat
      /\ Cardinality(Made) * Dearest <= Cardinality(States) * Dearest
  BY <1>1, SomeStates
<1>4. g[s] <= Cardinality(States) * Dearest
  BY <1>1, <1>2, <1>3
<1>5. QED
  BY <1>1, <1>4, CostFits

\* The weighted f of a node is at most its f, weighted.
LEMMA FPrimeLow ==
  ASSUME NEW w \in Nat \ {0}, NEW a \in Nat, NEW b \in Nat, NEW c \in Nat, a + b <= c
  PROVE  a + w * b <= w * c
<1>1. a * 1 <= a * w
  <2>1. 1 * a <= w * a
    BY TimesMonotone
  <2>2. QED
    BY <2>1
<1>2. (a + b) * w <= c * w
  BY TimesMonotone
<1>3. (a + b) * w = a * w + b * w /\ b * w \in Nat /\ a * w \in Nat
  OBVIOUS
<1>4. b * w = w * b /\ c * w = w * c
  OBVIOUS
<1>5. QED
  BY <1>1, <1>2, <1>3, <1>4

\* What is good enough stays so.
LEMMA MetStays ==
  ASSUME TypeOK, TypeOK', Solvable, job' = job, Met,
         \A s \in States : g'[s] <= g[s],
         best # Infinity => best' # Infinity, IsBFPSDD => best' <= best,
         IsPSDD => bound' = bound /\ lowest' <= lowest,
         \A t \in Threads : pc[t] = "path" =>
           \/ pc'[t] = "path" /\ cur'[t] = cur[t]
           \/ best' # Infinity /\ (IsBFPSDD => best' <= g[cur[t]])
  PROVE  Met'
<1>1. /\ {best, bound, lowest} \subseteq Nat /\ {best', bound', lowest'} \subseteq Nat
      /\ g \in [States -> Nat] /\ g' \in [States -> Nat] /\ cur \in [Threads -> States]
  BY DEF TypeOK
<1>2. /\ IsPSDD' = IsPSDD /\ IsBFPSDD' = IsBFPSDD /\ Weighted' = Weighted
      /\ Limit' = Limit /\ LeastCost \in Nat /\ Limit \in Nat /\ LeastCost' = LeastCost
  BY LimitType DEF IsPSDD, IsBFPSDD, Weighted, Limit, LeastCost
<1>3. CASE IsBFPSDD /\ ~Weighted
  <2>1. CASE best <= Limit
    <3>1. best' <= Limit
      BY <1>1, <1>2, <1>3, <2>1
    <3>2. QED
      BY <1>2, <1>3, <3>1 DEF Met
  <2>2. ASSUME NEW t \in Threads, pc[t] = "path", g[cur[t]] <= Limit
        PROVE  Met'
    <3>1. CASE pc'[t] = "path" /\ cur'[t] = cur[t]
      <4>1. g'[cur'[t]] <= Limit
        BY <1>1, <1>2, <2>2, <3>1
      <4>2. QED
        BY <1>2, <1>3, <3>1, <4>1 DEF Met
    <3>2. CASE best' <= g[cur[t]]
      <4>1. best' <= Limit
        BY <1>1, <1>2, <2>2, <3>2
      <4>2. QED
        BY <1>2, <1>3, <4>1 DEF Met
    <3>3. QED
      BY <1>3, <2>2, <3>1, <3>2
  <2>3. QED
    BY <1>3, <2>1, <2>2 DEF Met
<1>4. CASE ~(IsBFPSDD /\ ~Weighted)
  <2>1. ASSUME IsPSDD, bound < LeastCost, lowest <= LeastCost
        PROVE  bound' < LeastCost /\ lowest' <= LeastCost
    BY <1>1, <1>2, <2>1
  <2>2. QED
    BY <1>2, <1>4, <2>1 DEF Met
<1>5. QED
  BY <1>3, <1>4

\* A step that leaves the nodes where they are forgets none.
LEMMA QuietForgets ==
  ASSUME NothingForgotten, Met => Met', UNCHANGED <<job, g, open, cur, todo>>,
         \A t \in Threads : pc'[t] = "child" <=> pc[t] = "child"
  PROVE  NothingForgotten'
<1>1. /\ Made' = Made /\ Weighted' = Weighted /\ \A s : IsOpen(s)' = IsOpen(s)
  BY DEF Made, Weighted, IsOpen
<1>2. \A s, v : Worth(s, v)' = Worth(s, v) /\ Reached(s, v)' = Reached(s, v)
  BY <1>1 DEF Worth, Promises, Reached
<1>3. \A s, e : InHand(s, e) => InHand(s, e)'
  BY DEF InHand
<1>4. \A s : Handled(s) => Handled(s)'
  BY <1>2, <1>3 DEF Handled
<1>5. QED
  BY <1>1, <1>2, <1>4 DEF NothingForgotten

\* When nothing is open and nobody has children in hand, what the search
\* promises is there: the paths to it cannot end among the nodes made.
LEMMA SpentMet ==
  ASSUME Solvable, TypeOK, RealCosts, NothingForgotten,
         open[1] = {}, open[2] = {}, \A t \in Threads : pc[t] # "child"
  PROVE  Met
<1> SUFFICES ASSUME ~Met PROVE FALSE
  OBVIOUS
<1>1. /\ g \in [States -> Nat] /\ Start \in States /\ Goals \subseteq States
      /\ LeastCost \in Nat /\ Infinity \in Nat /\ LeastCost < Infinity
      /\ CostToGo \in [States -> Nat]
  BY LimitType, CostToGoType, SpaceAssumption DEF TypeOK
<1>2. /\ g[Start] = 0 /\ Start \in Made
      /\ \A s \in Made : Worth(s, g[s]) =>
           /\ s \notin Goals
           /\ \A e \in Edges[s] : Worth(e.to, g[s] + e.cost) => Reached(e.to, g[s] + e.cost)
  <2>1. \A s : ~IsOpen(s)
    BY DEF IsOpen
  <2>2. \A s, e : ~InHand(s, e)
    BY DEF InHand
  <2>3. g[Start] = 0 /\ Start \in Made
    BY <1>1 DEF RealCosts, Made
  <2>4. QED
    BY <2>1, <2>2, <2>3 DEF NothingForgotten, Handled
<1>3. CASE ~Weighted
  <2>1. ASSUME NEW s \in States, Promises(s, g[s]) PROVE s \in Made
    <3>1. g[s] + CostToGo[s] <= LeastCost
      BY <1>1, <2>1, PromisesCost DEF LeastCost
    <3>2. g[s] \in Nat /\ CostToGo[s] \in Nat
      BY <1>1
    <3>3. g[s] # Infinity
      BY <1>1, <3>1, <3>2
    <3>4. QED
      BY <3>3 DEF Made
  <2>2. ASSUME NEW s \in States, Promises(s, g[s]), s \notin Goals, NEW e \in Edges[s],
               Promises(e.to, g[s] + e.cost)
        PROVE  g[e.to] <= g[s] + e.cost
    BY <1>2, <1>3, <2>1, <2>2 DEF Worth, Reached
  <2>3. PICK s \in Goals : Promises(s, g[s])
    BY <1>1, <1>2, <2>2, PromiseKept DEF LeastCost
  <2>4. s \in Made /\ Worth(s, g[s])
    BY <1>1, <2>1, <2>3 DEF Worth
  <2>5. QED
    BY <1>2, <2>3, <2>4
<1>4. CASE Weighted
  <2>1. \A s \in Made : s \notin Goals /\ \A e \in Edges[s] : e.to \in Made
    BY <1>2, <1>4 DEF Worth, Reached
  <2> DEFINE G == [s \in States |-> IF s \in Made /\ CostToGo[s] <= LeastCost
                                    THEN LeastCost - CostToGo[s] ELSE Infinity]
  <2>2. \A s \in States : CostToGo[s] \in Nat
    BY <1>1
  <2>3. G \in [States -> Nat]
    BY <1>1, <2>2
  <2>4. G[Start] = 0
    BY <1>1, <1>2, <2>2 DEF LeastCost
  <2>5. ASSUME NEW s \in States, Promises(s, G[s])
        PROVE  s \in Made /\ CostToGo[s] <= LeastCost /\ G[s] = LeastCost - CostToGo[s]
    <3>1. G[s] + CostToGo[s] <= LeastCost /\ G[s] \in Nat
      BY <2>3, <2>5, PromisesCost DEF LeastCost
    <3>2. G[s] # Infinity
      BY <1>1, <2>2, <3>1
    <3>3. G[s] = IF s \in Made /\ CostToGo[s] <= LeastCost
                 THEN LeastCost - CostToGo[s] ELSE Infinity
      OBVIOUS
    <3>4. QED
      BY <3>2, <3>3
  <2>6. ASSUME NEW s \in States, Promises(s, G[s]), s \notin Goals, NEW e \in Edges[s],
               Promises(e.to, G[s] + e.cost)
        PROVE  G[e.to] <= G[s] + e.cost
    <3>1. e.to \in States /\ e.cost \in Nat /\ G[s] \in Nat
      BY <2>3, SpaceAssumption
    <3>2. s \in Made /\ G[s] = LeastCost - CostToGo[s]
      BY <2>5, <2>6
    <3>3. e.to \in Made
      BY <2>1, <3>2
    <3>4. (G[s] + e.cost) + CostToGo[e.to] <= LeastCost
      BY <2>6, <3>1, PromisesCost DEF LeastCost
    <3>5. CostToGo[s] <= e.cost + CostToGo[e.to]
      BY CostToGoEdge
    <3>6. CostToGo[s] \in Nat /\ CostToGo[e.to] \in Nat
      BY <2>2, <3>1
    <3>7. CostToGo[e.to] <= LeastCost
      BY <1>1, <3>1, <3>4, <3>6
    <3>8. G[e.to] = LeastCost - CostToGo[e.to]
      BY <3>1, <3>3, <3>7
    <3>9. QED
      BY <1>1, <3>1, <3>2, <3>5, <3>6, <3>8
  <2> HIDE DEF G
  <2>7. PICK s \in Goals : Promises(s, G[s])
    BY <1>1, <2>3, <2>4, <2>6, PromiseKept DEF LeastCost
  <2>8. s \in Made
    BY <1>1, <2>5, <2>7
  <2>9. QED
    BY <2>1, <2>7, <2>8
<1>5. QED
  BY <1>3, <1>4

\* Work forgets no node, if what thread t takes off a list it expands, what it
\* makes cheaper it opens and what it has in hand it keeps in hand or makes.
LEMMA WorkForgets ==
  ASSUME IInv, CostsFit, NEW t \in Threads, Worked(t), NothingForgotten, ~Met, ~Met',
         \A s \in Made : Worth(s, g[s]) /\ IsOpen(s) /\ g'[s] = g[s] =>
           IsOpen(s)' \/ Handled(s)',
         \A s \in States : g'[s] # g[s] /\ Worth(s, g'[s]) =>
           IsOpen(s)' \/ (Weighted /\ s \in Made /\ ~IsOpen(s)),
         pc[t] = "child" => \A c \in todo[t] : Worth(c[1], c[2]) =>
           \/ Reached(c[1], c[2])'
           \/ pc'[t] = "child" /\ cur'[t] = cur[t] /\ c \in todo'[t]
  PROVE  NothingForgotten'
<1>1. /\ g' \in [States -> Nat] /\ Made \subseteq Made'
      /\ \A s \in States : g'[s] <= g[s]
      /\ \A s \in States : g'[s] # g[s] =>
           s # cur[t] /\ BlockOf[s] \in {blk[t]} \cup Interferes[blk[t]]
  BY WorkedCosts
<1>2. /\ g \in [States -> Nat] /\ Weighted' = Weighted
      /\ \A s, v : Worth(s, v)' = Worth(s, v)
      /\ Made' = {s \in States : g'[s] # Infinity} /\ Made = {s \in States : g[s] # Infinity}
  BY DEF IInv, TypeOK, Worked, Weighted, Worth, Promises, Made
<1>3. ASSUME NEW s \in States, NEW v \in Nat, Reached(s, v)
      PROVE  Reached(s, v)'
  <2>1. CASE Weighted
    BY <1>1, <1>2, <1>3, <2>1 DEF Reached
  <2>2. CASE ~Weighted
    <3>1. g[s] <= v /\ g'[s] <= g[s] /\ g[s] \in Nat /\ g'[s] \in Nat
      BY <1>1, <1>2, <1>3, <2>2 DEF Reached
    <3>2. QED
      BY <1>2, <2>2, <3>1 DEF Reached
  <2>3. QED
    BY <2>1, <2>2
<1>4. ASSUME NEW s \in Made, g'[s] = g[s], Worth(s, g[s])
      PROVE  IsOpen(s)' \/ Handled(s)'
  <2>1. CASE IsOpen(s)
    BY <1>4, <2>1
  <2>2. CASE Handled(s)
    <3> SUFFICES ASSUME NEW e \in Edges[s], Worth(e.to, g[s] + e.cost)
                 PROVE  Reached(e.to, g[s] + e.cost)' \/ InHand(s, e)'
      BY <1>2, <1>4, <2>2 DEF Handled
    <3>1. s \in States /\ e.to \in States /\ g[s] + e.cost \in Nat
      BY <1>2, SpaceAssumption
    <3>2. CASE Reached(e.to, g[s] + e.cost)
      <4>1. PICK v \in Nat : v = g[s] + e.cost
        BY <3>1
      <4>2. Reached(e.to, v)'
        BY <1>3, <3>1, <3>2, <4>1
      <4>3. v = (g[s] + e.cost)'
        BY <1>4, <4>1
      <4>4. QED
        BY <4>2, <4>3 DEF Reached
    <3>3. ASSUME NEW u \in Threads, pc[u] = "child", cur[u] = s,
                 <<e.to, g[s] + e.cost>> \in todo[u]
          PROVE  Reached(e.to, g[s] + e.cost)' \/ InHand(s, e)'
      <4>1. CASE u # t
        <5>1. pc'[u] = pc[u] /\ cur'[u] = cur[u] /\ todo'[u] = todo[u]
          BY <4>1 DEF Worked
        <5>2. QED
          BY <1>4, <3>3, <5>1 DEF InHand
      <4>2. CASE u = t
        <5>1. PICK c \in todo[t] : c = <<e.to, g[s] + e.cost>>
          BY <3>3, <4>2
        <5>2. Worth(c[1], c[2]) /\ c[1] = e.to /\ c[2] = g[s] + e.cost
          BY <5>1
        <5>3. CASE Reached(c[1], c[2])'
          BY <1>4, <5>2, <5>3 DEF Reached
        <5>4. CASE pc'[t] = "child" /\ cur'[t] = cur[t] /\ c \in todo'[t]
          BY <1>4, <3>3, <4>2, <5>1, <5>4 DEF InHand
        <5>5. QED
          BY <3>3, <4>2, <5>2, <5>3, <5>4
      <4>3. QED
        BY <4>1, <4>2
    <3>4. QED
      BY <2>2, <3>2, <3>3 DEF Handled, InHand
  <2>3. QED
    BY <1>4, <2>1, <2>2 DEF NothingForgotten
<1>5. ASSUME NEW s \in States, g'[s] # g[s], Worth(s, g'[s])
      PROVE  IsOpen(s)' \/ Handled(s)'
  <2>1. CASE Weighted /\ s \in Made /\ ~IsOpen(s)
    <3>1. Handled(s)
      BY <2>1 DEF NothingForgotten, Worth
    <3>2. ASSUME NEW e \in Edges[s], InHand(s, e) PROVE FALSE
      <4>1. PICK u \in Threads : pc[u] = "child" /\ cur[u] = s
        BY <3>2 DEF InHand
      <4>2. u # t /\ BlockOf[s] \in {blk[t]} \cup Interferes[blk[t]]
        BY <1>1, <1>5, <4>1
      <4>3. blk[u] # None /\ BlockOf[s] = blk[u]
        BY <4>1 DEF IInv, Owner
      <4>4. QED
        BY <4>2, <4>3, WorkedApart
    <3>3. \A e \in Edges[s] : e.to \in Made'
      BY <1>1, <2>1, <3>1, <3>2 DEF Handled, Worth, Reached
    <3>4. QED
      BY <1>2, <2>1, <3>1, <3>3 DEF Handled, Reached
  <2>2. QED
    BY <1>5, <2>1
<1>6. ASSUME NEW s \in Made', Worth(s, g'[s]) PROVE IsOpen(s)' \/ Handled(s)'
  <2>1. s \in States /\ (g'[s] = g[s] => s \in Made)
    BY <1>2, <1>6
  <2>2. QED
    BY <1>4, <1>5, <1>6, <2>1
<1>7. QED
  BY <1>2, <1>6 DEF NothingForgotten

\* Work leaves a path that is good enough.
LEMMA WorkedMet ==
  ASSUME IInv, IInv', CostsFit, Solvable, Met, NEW t \in Threads, Worked(t),
         pc[t] # "path", lowest' <= lowest
  PROVE  Met'
<1>1. /\ TypeOK /\ TypeOK' /\ job' = job /\ best' = best /\ bound' = bound
      /\ \A s \in States : g'[s] <= g[s]
      /\ \A u \in Threads : pc[u] = "path" => pc'[u] = "path" /\ cur'[u] = cur[u]
  BY WorkedCosts DEF IInv, Worked
<1>2. best' <= best
  BY <1>1 DEF TypeOK
<1>3. QED
  BY <1>1, <1>2, MetStays

\* Work keeps costs and bounds, if what is found is a goal, what is made is
\* within the bound and nothing is forgotten.
LEMMA WorkedSound ==
  ASSUME IInv, IInv', CostsFit, Solvable, Sound, NEW t \in Threads, Worked(t),
         pc[t] \in {"search", "child"}, pc'[t] \in {"search", "child", "path", "test"},
         pc'[t] = "path" => cur'[t] \in Goals,
         lowest' <= lowest, IsPSDD /\ job.algo = "idpsdd" => bound < lowest',
         IsPSDD => \A s \in States : g'[s] # g[s] => g'[s] + H[s] <= bound,
         IsBFPSDD => open'[2] = open[2],
         ~Met => NothingForgotten'
  PROVE  Sound'
<1>1. /\ job' = job /\ best' = best /\ bound' = bound /\ graph' = graph /\ done' = done
      /\ g \in [States -> Nat] /\ g' \in [States -> Nat] /\ Made \subseteq Made'
      /\ \A s \in States : g'[s] <= g[s]
      /\ Made' = {s \in States : g'[s] # Infinity} /\ Made = {s \in States : g[s] # Infinity}
      /\ Start \in States /\ CostToGo \in [States -> Nat]
  BY WorkedCosts, CostToGoType, SpaceAssumption DEF IInv, TypeOK, Worked, Made
<1>2. Met => Met'
  BY WorkedMet
<1>3. RealCosts'
  <2>1. g'[Start] = 0
    <3>1. g[Start] = 0 /\ g'[Start] <= g[Start] /\ g'[Start] \in Nat
      BY <1>1 DEF Sound, RealCosts
    <3>2. QED
      BY <3>1
  <2>2. ASSUME NEW s \in Made' PROVE LeastCost <= g'[s] + CostToGo[s]
    <3>1. CASE g'[s] = g[s]
      BY <1>1, <3>1 DEF Sound, RealCosts
    <3>2. CASE g'[s] # g[s]
      <4>1. pc[t] = "child" /\ <<s, g'[s]>> \in todo[t] /\ s \in States
        BY <1>1, <3>2, WorkedCosts
      <4>2. PICK c \in todo[t] : c = <<s, g'[s]>>
        BY <4>1
      <4>3. PICK e \in Edges[cur[t]] : c = <<e.to, g[cur[t]] + e.cost>>
        BY <4>1, ChildIs
      <4>4. cur[t] \in States /\ g[cur[t]] \in Nat /\ g[cur[t]] # Infinity
        BY <4>1, <4>2, ChildIs
      <4>5. LeastCost <= g[cur[t]] + CostToGo[cur[t]]
        BY <1>1, <4>4 DEF Sound, RealCosts
      <4>6. CostToGo[cur[t]] <= e.cost + CostToGo[e.to]
        BY <4>4, CostToGoEdge
      <4>7. e.to = s /\ g'[s] = g[cur[t]] + e.cost
        BY <4>2, <4>3
      <4>8. e.cost \in Nat /\ CostToGo[s] \in Nat /\ CostToGo[cur[t]] \in Nat /\ LeastCost \in Nat
        BY <1>1, <4>1, <4>4, SpaceAssumption DEF LeastCost
      <4>9. QED
        BY <4>4, <4>5, <4>6, <4>7, <4>8
    <3>3. QED
      BY <3>1, <3>2
  <2>3. \A u \in Threads : pc'[u] = "path" => cur'[u] \in Goals
    BY DEF Worked, Sound, RealCosts
  <2>4. QED
    BY <1>1, <2>1, <2>2, <2>3 DEF Sound, RealCosts, LeastCost
<1>4. ASSUME IsPSDD PROVE PSDDBounds'
  <2>1. PSDDBounds
    BY <1>4 DEF Sound
  <2>2. ASSUME NEW s \in Made' PROVE g'[s] + H[s] <= bound
    BY <1>1, <1>4, <2>1, <2>2 DEF PSDDBounds
  <2>3. QED
    BY <1>1, <1>4, <2>1, <2>2 DEF PSDDBounds, LeastCost
<1>5. ASSUME IsBFPSDD PROVE BFPSDDBounds'
  <2>1. BFPSDDBounds
    BY <1>5 DEF Sound
  <2>2. \A u \in Threads : pc'[u] \in {"none", "finish", "end"} => pc[u] \in {"none", "finish", "end"}
    BY DEF Worked
  <2>3. QED
    BY <1>1, <1>5, <2>1, <2>2 DEF BFPSDDBounds, Weighted
<1>6. NothingForgotten'
  BY <1>2 DEF NothingForgotten
<1>7. IsPSDD' = IsPSDD /\ IsBFPSDD' = IsBFPSDD /\ (graph'.found => Met')
  BY <1>1, <1>2 DEF Sound, IsPSDD, IsBFPSDD
<1>8. QED
  BY <1>3, <1>4, <1>5, <1>6, <1>7 DEF Sound

\* Where nothing good enough is known, a bound prunes no node that is worth
\* having.
LEMMA NotPruned ==
  ASSUME IInv, CostsFit, Solvable, Sound, IsBFPSDD, ~Met, NEW s \in States, NEW v \in Nat,
         v <= Cardinality(States) * Dearest, Worth(s, v)
  PROVE  ~Pruned(s, v) /\ FPrime(s, v) < bound
<1>1. /\ LeastCost \in Nat /\ Infinity \in Nat /\ Limit \in Nat /\ LeastCost <= Limit
      /\ job.weight \in Nat \ {0} /\ job \in Jobs /\ {best, bound} \subseteq Nat /\ H[s] \in Nat
      /\ FpOne \in Nat \ {0} /\ ~IsPSDD
  BY LimitType, LayersAssumption, SpaceAssumption
     DEF IInv, TypeOK, IsPSDD, IsBFPSDD
<1>2. CASE Weighted
  <2>1. bound = Infinity
    BY <1>2 DEF Sound, BFPSDDBounds, Met
  <2>2. job.weight * (FpOne * (v + H[s])) < Infinity
    BY <1>1, CostFits
  <2>3. v + job.weight * H[s] <= job.weight * (v + H[s])
    <3>1. PICK c \in Nat : c = v + H[s]
      BY <1>1
    <3>2. v + H[s] <= c
      BY <1>1, <3>1
    <3>3. v + job.weight * H[s] <= job.weight * c
      BY <1>1, <3>2, FPrimeLow
    <3>4. QED
      BY <3>1, <3>3
  <2>4. /\ v + H[s] <= FpOne * (v + H[s])
        /\ {v + H[s], FpOne * (v + H[s])} \subseteq Nat
    <3>1. v + H[s] \in Nat
      BY <1>1
    <3>2. 1 * (v + H[s]) <= FpOne * (v + H[s]) /\ FpOne * (v + H[s]) \in Nat
      BY <1>1, <3>1, TimesMonotone
    <3>3. QED
      BY <3>1, <3>2
  <2>5. /\ (v + H[s]) * job.weight <= (FpOne * (v + H[s])) * job.weight
        /\ {(v + H[s]) * job.weight, (FpOne * (v + H[s])) * job.weight} \subseteq Nat
    BY <1>1, <2>4, TimesMonotone
  <2>6. /\ (v + H[s]) * job.weight = job.weight * (v + H[s])
        /\ (FpOne * (v + H[s])) * job.weight = job.weight * (FpOne * (v + H[s]))
        /\ v + job.weight * H[s] \in Nat
    BY <1>1, <2>4
  <2>7. FPrime(s, v) < Infinity
    BY <1>1, <2>2, <2>3, <2>5, <2>6 DEF FPrime
  <2>8. QED
    BY <1>1, <1>2, <2>1, <2>2, <2>7 DEF Pruned
<1>3. CASE ~Weighted
  <2>1. best <= bound /\ best > Limit
    BY <1>1, <1>3 DEF Sound, BFPSDDBounds, Met
  <2>2. v + H[s] <= LeastCost
    BY <1>3, PromisesBound DEF Solvable, Worth, LeastCost
  <2>3. v + job.weight * H[s] <= job.weight * LeastCost
    BY <1>1, <2>2, FPrimeLow
  <2>4. FPrime(s, v) <= Limit /\ FPrime(s, v) \in Nat
    BY <1>1, <2>3 DEF FPrime, Limit
  <2>5. QED
    BY <1>1, <1>3, <2>1, <2>2, <2>4 DEF Pruned
<1>4. QED
  BY <1>2, <1>3

\* Thread t takes node s off list l of its block and expands it, leaves with
\* it as a goal, or drops it, which is not worth having.
LEMMA TakenSound ==
  ASSUME IInv, CostsFit, Solvable, Sound, NEW t \in Threads, pc[t] = "search",
         NEW l \in 1..2, NEW s \in Of(blk[t], open[l]), IsBFPSDD => l = 1,
         open' = [open EXCEPT ![l] = @ \ {s}],
         UNCHANGED <<job, blk, g, graph, best, bound, lowest, done>>,
         \/ FoundGoal(t, s) /\ s \in Goals /\ UNCHANGED exp
         \/ Expand(t, s) /\ s \notin Goals
         \/ UNCHANGED <<pc, cur, todo, exp>> /\ (~Met => ~Worth(s, g[s]))
  PROVE  Sound'
<1>1. IInv' /\ Worked(t)
  BY TakenInv
<1>2. /\ open \in [1..2 -> SUBSET States] /\ cur \in [Threads -> States] /\ lowest \in Nat
      /\ todo \in [Threads -> SUBSET (States \X Nat)] /\ pc \in [Threads -> Spots]
      /\ g \in [States -> Nat] /\ 1 \in 1..2 /\ 2 \in 1..2
  BY DEF IInv, TypeOK, Spots
<1>3. \/ pc'[t] = "path" /\ cur'[t] = s /\ s \in Goals
      \/ /\ pc'[t] = (IF Edges[s] = {} THEN "search" ELSE "child")
         /\ cur'[t] = s /\ s \notin Goals /\ todo'[t] = Children(s, g[s])
      \/ pc'[t] = "search" /\ (~Met => ~Worth(s, g[s]))
  BY <1>2 DEF FoundGoal, Expand
<1>4. /\ \A x, v : Worth(x, v)' = Worth(x, v)
      /\ Met => Met'
  BY <1>1, <1>2, WorkedMet DEF Worth, Promises, Weighted
<1>5. ASSUME ~Met PROVE NothingForgotten'
  <2> SUFFICES ASSUME ~Met' PROVE NothingForgotten'
    BY DEF NothingForgotten
  <2>1. ASSUME NEW x \in Made, IsOpen(x), x # s PROVE IsOpen(x)'
    <3>1. PICK k \in 1..2 : x \in open[k]
      BY <2>1 DEF IsOpen
    <3>2. x \in open'[k]
      BY <1>2, <2>1, <3>1
    <3>3. QED
      BY <3>2 DEF IsOpen
  <2>2. ASSUME Worth(s, g[s]) PROVE Handled(s)'
    <3>1. CASE pc'[t] = "path" /\ cur'[t] = s /\ s \in Goals
      <4>1. CASE ~(IsBFPSDD /\ ~Weighted)
        BY <3>1, <4>1 DEF Met, IsBFPSDD, Weighted
      <4>2. CASE IsBFPSDD /\ ~Weighted
        <5>1. g[s] + CostToGo[s] <= LeastCost /\ CostToGo[s] = 0 /\ g[s] \in Nat
          BY <1>2, <2>2, <3>1, <4>2, PromisesCost, CostToGoBound, SpaceAssumption
             DEF Worth, LeastCost
        <5>2. g[s] <= Limit
          <6>1. LeastCost \in Nat /\ Limit \in Nat /\ LeastCost <= Limit
            BY LimitType DEF IInv
          <6>2. QED
            BY <5>1, <6>1
        <5>3. g'[cur'[t]] <= Limit' /\ IsBFPSDD' /\ ~Weighted'
          BY <3>1, <4>2, <5>2 DEF Limit, LeastCost, IsBFPSDD, Weighted
        <5>4. QED
          BY <3>1, <5>3 DEF Met
      <4>3. QED
        BY <4>1, <4>2
    <3>2. CASE /\ pc'[t] = (IF Edges[s] = {} THEN "search" ELSE "child")
               /\ cur'[t] = s /\ s \notin Goals /\ todo'[t] = Children(s, g[s])
      <4>1. ASSUME NEW e \in Edges[s] PROVE InHand(s, e)'
        <5>1. pc'[t] = "child" /\ <<e.to, g'[s] + e.cost>> \in todo'[t]
          BY <3>2, <4>1 DEF Children
        <5>2. QED
          BY <3>2, <5>1 DEF InHand
      <4>2. QED
        BY <3>2, <4>1 DEF Handled
    <3>3. QED
      BY <1>3, <1>5, <2>2, <3>1, <3>2
  <2>3. ASSUME NEW x \in Made, Worth(x, g[x]), IsOpen(x)
        PROVE  IsOpen(x)' \/ Handled(x)'
    BY <2>1, <2>2, <2>3
  <2>4. pc[t] # "child" /\ NothingForgotten
    BY DEF Sound
  <2>5. QED
    BY <1>1, <1>5, <2>3, <2>4, WorkForgets
<1>6. /\ pc'[t] \in {"search", "child", "path", "test"}
      /\ pc'[t] = "path" => cur'[t] \in Goals
  BY <1>3
<1>7. /\ lowest' <= lowest /\ (IsPSDD /\ job.algo = "idpsdd" => bound < lowest')
      /\ (IsBFPSDD => open'[2] = open[2])
  BY <1>2 DEF Sound, PSDDBounds
<1>8. QED
  BY <1>1, <1>5, <1>6, <1>7, WorkedSound

\* Thread t leaves its block, with the nodes of S, which are not worth having.
LEMMA LeftSound ==
  ASSUME IInv, CostsFit, Solvable, Sound, NEW t \in Threads, pc[t] = "search",
         pc' = [pc EXCEPT ![t] = "test"], NEW S \in SUBSET Of(blk[t], open[1]),
         open' = [open EXCEPT ![1] = @ \ S],
         UNCHANGED <<job, blk, cur, todo, exp, g, graph, best, bound, lowest, done>>,
         IsPSDD => Of(blk[t], open[graph.layer]) = {},
         ~Met => \A s \in S : ~Worth(s, g[s])
  PROVE  Sound'
<1>1. IInv' /\ Worked(t)
  BY LeftInv
<1>2. /\ open \in [1..2 -> SUBSET States] /\ pc \in [Threads -> Spots] /\ lowest \in Nat
      /\ 1 \in 1..2 /\ 2 \in 1..2
  BY DEF IInv, TypeOK, Spots
<1>3. pc'[t] = "test"
  BY <1>2
<1>4. /\ \A x, v : Worth(x, v)' = Worth(x, v)
      /\ Met => Met'
  BY <1>1, <1>2, WorkedMet DEF Worth, Promises, Weighted
<1>5. ASSUME ~Met PROVE NothingForgotten'
  <2> SUFFICES ASSUME ~Met' PROVE NothingForgotten'
    BY DEF NothingForgotten
  <2>1. ASSUME NEW x \in Made, IsOpen(x), Worth(x, g[x]) PROVE IsOpen(x)'
    <3>1. PICK k \in 1..2 : x \in open[k]
      BY <2>1 DEF IsOpen
    <3>2. x \in open'[k]
      BY <1>2, <1>5, <2>1, <3>1
    <3>3. QED
      BY <3>2 DEF IsOpen
  <2>2. pc[t] # "child" /\ NothingForgotten
    BY DEF Sound
  <2>3. QED
    BY <1>1, <1>5, <2>1, <2>2, WorkForgets
<1>6. /\ lowest' <= lowest /\ (IsPSDD /\ job.algo = "idpsdd" => bound < lowest')
      /\ (IsBFPSDD => open'[2] = open[2])
  BY <1>2 DEF Sound, PSDDBounds
<1>7. QED
  BY <1>1, <1>3, <1>5, <1>6, WorkedSound

\* PSDD's search_nblock loses no node.
LEMMA TakeSound ==
  ASSUME IInv, CostsFit, Solvable, Sound, IsPSDD, NEW t \in Threads, Take(t)
  PROVE  Sound'
<1>1. /\ graph.layer \in 1..2 /\ open \in [1..2 -> SUBSET States] /\ ~IsBFPSDD
      /\ UNCHANGED <<job, blk, g, graph, best, bound, lowest, done>> /\ pc[t] = "search"
  BY DEF IInv, TypeOK, Take, IsPSDD, IsBFPSDD
<1>2. CASE /\ Of(blk[t], open[graph.layer]) = {}
           /\ pc' = [pc EXCEPT ![t] = "test"] /\ UNCHANGED <<cur, todo, exp, open>>
  <2>1. PICK S \in SUBSET Of(blk[t], open[1]) : S = {}
    OBVIOUS
  <2>2. open' = [open EXCEPT ![1] = @ \ S] /\ \A s \in S : ~Worth(s, g[s])
    BY <1>1, <1>2, <2>1
  <2>3. QED
    BY <1>1, <1>2, <2>2, LeftSound
<1>3. ASSUME NEW s \in Of(blk[t], open[graph.layer]),
             open' = [open EXCEPT ![graph.layer] = @ \ {s}],
             \/ FoundGoal(t, s) /\ s \in Goals /\ UNCHANGED exp
             \/ Expand(t, s) /\ s \notin Goals
      PROVE  Sound'
  BY <1>1, <1>3, TakenSound
<1>4. QED
  BY <1>2, <1>3 DEF Take

\* BFPSDD's search_nblock, but for the children, loses none that is worth having.
LEMMA BFPSDDTakeSound ==
  ASSUME IInv, CostsFit, Solvable, Sound, IsBFPSDD, NEW t \in Threads,
         LeaveBlock(t) \/ PruneBlock(t) \/ TakeBest(t)
  PROVE  Sound'
<1>1. open \in [1..2 -> SUBSET States] /\ ~IsPSDD /\ pc[t] = "search" /\ 1 \in 1..2 /\ TypeOK
  BY DEF IInv, TypeOK, IsPSDD, IsBFPSDD, LeaveBlock, PruneBlock, TakeBest, Continues
<1>2. ASSUME ~Met, NEW s \in Of(blk[t], open[1]), Worth(s, g[s])
      PROVE  ~Pruned(s, g[s]) /\ BestVal(blk[t]) < bound
  <2>1. s \in Made
    BY <1>1 DEF IInv, Of
  <2>2. s \in States /\ g[s] \in Nat /\ g[s] <= Cardinality(States) * Dearest
    BY <2>1, MadeFits
  <2>3. ~Pruned(s, g[s]) /\ FPrime(s, g[s]) < bound
    BY <1>2, <2>2, NotPruned
  <2>4. BestVal(blk[t]) <= FPrime(s, g[s]) /\ BestVal(blk[t]) \in Nat
    BY <1>1, BestValType
  <2>5. FPrime(s, g[s]) \in Nat /\ bound \in Nat
    BY <1>1, <2>2, SpaceAssumption, JobsAssumption DEF FPrime, TypeOK
  <2>6. QED
    BY <2>3, <2>4, <2>5
<1>3. CASE LeaveBlock(t)
  <2>1. PICK S \in SUBSET Of(blk[t], open[1]) : S = {}
    OBVIOUS
  <2>2. open' = [open EXCEPT ![1] = @ \ S] /\ \A s \in S : ~Worth(s, g[s])
    BY <1>1, <1>3, <2>1 DEF LeaveBlock
  <2>3. /\ UNCHANGED <<job, blk, cur, todo, exp, g, graph, best, bound, lowest, done>>
        /\ pc' = [pc EXCEPT ![t] = "test"]
    BY <1>3 DEF LeaveBlock
  <2>4. QED
    BY <1>1, <2>2, <2>3, LeftSound
<1>4. CASE PruneBlock(t)
  <2>1. /\ UNCHANGED <<job, blk, cur, todo, exp, g, graph, best, bound, lowest, done>>
        /\ pc' = [pc EXCEPT ![t] = "test"] /\ BestVal(blk[t]) >= bound
        /\ open' = [open EXCEPT ![1] = @ \ Of(blk[t], open[1])]
    BY <1>4 DEF PruneBlock
  <2>2. PICK S \in SUBSET Of(blk[t], open[1]) : S = Of(blk[t], open[1])
    OBVIOUS
  <2>3. BestVal(blk[t]) \in Nat /\ bound \in Nat
    BY <1>1, BestValType DEF TypeOK
  <2>4. ~Met => \A s \in S : ~Worth(s, g[s])
    BY <1>2, <2>1, <2>2, <2>3
  <2>5. open' = [open EXCEPT ![1] = @ \ S]
    BY <2>1, <2>2
  <2>6. QED
    BY <1>1, <2>1, <2>4, <2>5, LeftSound
<1>5. CASE TakeBest(t)
  <2>1. UNCHANGED <<job, blk, g, graph, best, bound, lowest, done>>
    BY <1>5 DEF TakeBest
  <2>2. PICK s \in Of(blk[t], open[1]) :
          /\ open' = [open EXCEPT ![1] = @ \ {s}]
          /\ \/ FoundGoal(t, s) /\ s \in Goals /\ UNCHANGED exp
             \/ Expand(t, s) /\ s \notin Goals
             \/ UNCHANGED <<pc, cur, todo, exp>> /\ Pruned(s, g[s])
    BY <1>5 DEF TakeBest
  <2>3. Pruned(s, g[s]) /\ ~Met => ~Worth(s, g[s])
    BY <1>2
  <2>4. PICK l \in 1..2 : l = 1
    BY <1>1
  <2>5. s \in Of(blk[t], open[l]) /\ open' = [open EXCEPT ![l] = @ \ {s}]
    BY <2>2, <2>4
  <2>6. QED
    BY <1>1, <2>1, <2>2, <2>3, <2>4, <2>5, TakenSound
<1>6. QED
  BY <1>3, <1>4, <1>5

\* Thread t is through with child c: it has dropped it, not being worth having,
\* or made a node of it, or of a cheaper path to it, that is opened.
LEMMA ThroughForgets ==
  ASSUME IInv, CostsFit, Sound, NEW t \in Threads, Worked(t), pc[t] = "child",
         NEW c \in todo[t], NextChild(t, c), cur' = cur, ~Met, ~Met',
         \A l \in 1..2 : open[l] \subseteq open'[l],
         g' = g \/ /\ g' = [g EXCEPT ![c[1]] = c[2]]
                   /\ IsOpen(c[1])' \/ (Weighted /\ c[1] \in Made /\ ~IsOpen(c[1])),
         Worth(c[1], c[2]) => Reached(c[1], c[2])'
  PROVE  NothingForgotten'
<1>1. todo \in [Threads -> SUBSET (States \X Nat)] /\ pc \in [Threads -> Spots]
      /\ g \in [States -> Nat]
  BY DEF IInv, TypeOK, Spots
<1>2. \A s \in Made : IsOpen(s) => IsOpen(s)'
  BY DEF IsOpen
<1>3. ASSUME NEW s \in States, g'[s] # g[s]
      PROVE  IsOpen(s)' \/ (Weighted /\ s \in Made /\ ~IsOpen(s))
  <2>1. g' = [g EXCEPT ![c[1]] = c[2]] /\ s = c[1]
    BY <1>1, <1>3
  <2>2. QED
    BY <1>3, <2>1
<1>4. ASSUME NEW d \in todo[t], Worth(d[1], d[2])
      PROVE  \/ Reached(d[1], d[2])'
             \/ pc'[t] = "child" /\ cur'[t] = cur[t] /\ d \in todo'[t]
  <2>1. CASE d = c
    BY <1>4, <2>1
  <2>2. CASE d # c
    <3>1. todo[t] # {c} /\ todo'[t] = todo[t] \ {c}
      BY <1>1, <2>2 DEF NextChild
    <3>2. pc'[t] = "child"
      BY <1>1, <3>1 DEF NextChild
    <3>3. QED
      BY <2>2, <3>1, <3>2
  <2>3. QED
    BY <2>1, <2>2
<1>5. NothingForgotten
  BY DEF Sound
<1>6. \A s \in Made : Worth(s, g[s]) /\ IsOpen(s) /\ g'[s] = g[s] => IsOpen(s)' \/ Handled(s)'
  BY <1>2
<1>7. \A s \in States : g'[s] # g[s] /\ Worth(s, g'[s]) =>
        IsOpen(s)' \/ (Weighted /\ s \in Made /\ ~IsOpen(s))
  BY <1>3
<1>8. pc[t] = "child" => \A d \in todo[t] : Worth(d[1], d[2]) =>
        \/ Reached(d[1], d[2])'
        \/ pc'[t] = "child" /\ cur'[t] = cur[t] /\ d \in todo'[t]
  BY <1>4
<1>9. QED
  BY <1>5, <1>6, <1>7, <1>8, WorkForgets

\* Thread t leaves its node with a goal among its children.  What the siblings
\* promise the goal keeps, being the end of a cheapest edge.
LEMMA GoalForgets ==
  ASSUME IInv, CostsFit, Solvable, Sound, NEW t \in Threads, Worked(t), pc[t] = "child",
         NEW c \in todo[t], c[1] \in Goals, FoundGoal(t, c[1]), open' = open,
         g' = [g EXCEPT ![c[1]] = c[2]], ~Met, ~Met'
  PROVE  NothingForgotten'
<1>1. /\ todo \in [Threads -> SUBSET (States \X Nat)] /\ pc \in [Threads -> Spots]
      /\ g \in [States -> Nat] /\ cur \in [Threads -> States] /\ job' = job
  BY DEF IInv, TypeOK, Spots, Worked
<1>2. pc'[t] = "path" /\ cur'[t] = c[1]
  BY <1>1 DEF FoundGoal
<1>3. IsBFPSDD /\ ~Weighted
  BY <1>1, <1>2 DEF Met, IsBFPSDD, Weighted
<1>4. /\ cur[t] \in States /\ g[cur[t]] \in Nat /\ c[1] \in States /\ c[2] \in Nat
      /\ \E e \in Edges[cur[t]] : c = <<e.to, g[cur[t]] + e.cost>>
  BY ChildIs
<1>5. c[2] > Limit
  <2>1. g'[cur'[t]] = c[2]
    BY <1>1, <1>2, <1>4
  <2>2. Limit \in Nat /\ Limit' = Limit /\ IsBFPSDD' /\ ~Weighted'
    BY <1>1, <1>3, LimitType DEF IInv, Limit, LeastCost, IsBFPSDD, Weighted
  <2>3. ~(g'[cur'[t]] <= Limit')
    BY <1>2, <2>2 DEF Met
  <2>4. QED
    BY <1>4, <2>1, <2>2, <2>3
<1>6. ASSUME NEW d \in todo[t] PROVE ~Worth(d[1], d[2])
  <2> SUFFICES ASSUME Worth(d[1], d[2]) PROVE FALSE
    OBVIOUS
  <2>1. /\ d[1] \in States /\ d[2] \in Nat
        /\ \E e \in Edges[cur[t]] : d = <<e.to, g[cur[t]] + e.cost>>
    BY ChildIs
  <2>2. d[2] + CostToGo[d[1]] <= LeastCost
    BY <1>3, <2>1, PromisesCost DEF Worth, LeastCost
  <2>3. PICK e \in Edges[cur[t]] : d = <<e.to, g[cur[t]] + e.cost>>
    BY <2>1
  <2>4. CostToGo[cur[t]] <= e.cost + CostToGo[e.to] /\ e.cost \in Nat /\ e.to \in States
    BY <1>4, CostToGoEdge, SpaceAssumption
  <2>5. PICK f \in Edges[cur[t]] : c = <<f.to, g[cur[t]] + f.cost>>
    BY <1>4
  <2>6. f.cost = CostToGo[cur[t]]
    <3>1. f.to \in Goals
      BY <2>5
    <3>2. QED
      BY <1>4, <3>1 DEF Solvable, GoalEdgesAreShortest
  <2>7. CostToGo[cur[t]] \in Nat /\ CostToGo[e.to] \in Nat
    BY <1>4, <2>4, CostToGoType
  <2>8. /\ d[1] = e.to /\ d[2] = g[cur[t]] + e.cost /\ c[2] = g[cur[t]] + f.cost
    BY <2>3, <2>5
  <2>9. LeastCost \in Nat /\ Limit \in Nat /\ LeastCost <= Limit
    BY LimitType DEF IInv
  <2>10. (g[cur[t]] + e.cost) + CostToGo[e.to] <= LeastCost
    BY <2>2, <2>8
  <2>11. g[cur[t]] + CostToGo[cur[t]] <= LeastCost
    BY <1>4, <2>4, <2>7, <2>9, <2>10
  <2>12. QED
    BY <1>4, <1>5, <2>6, <2>7, <2>8, <2>9, <2>11
<1>7. NothingForgotten
  BY DEF Sound
<1>8. \A s \in Made : IsOpen(s) => IsOpen(s)'
  BY DEF IsOpen
<1>9. \A s \in States : g'[s] # g[s] => ~Worth(s, g'[s])
  <2>1. \A s \in States : g'[s] # g[s] => s = c[1] /\ g'[s] = c[2]
    BY <1>1
  <2>2. QED
    BY <1>6, <2>1
<1>10. QED
  BY <1>6, <1>7, <1>8, <1>9, WorkForgets

\* The fate of a child in PSDD: above the bound it counts for the next one.
LEMMA PSDDChildSound ==
  ASSUME IInv, CostsFit, Solvable, Sound, IsPSDD, NEW t \in Threads, Child(t)
  PROVE  Sound'
<1>1. /\ UNCHANGED <<job, blk, exp, graph, best, bound, done>> /\ pc[t] = "child"
      /\ ~IsBFPSDD /\ ~Weighted /\ PSDDBounds
  BY DEF Child, IsPSDD, IsBFPSDD, Weighted, Sound
<1>2. IInv' /\ Worked(t)
  BY PSDDChildInv
<1>3. /\ Other(graph.layer) \in 1..2 /\ {lowest, bound} \subseteq Nat /\ g \in [States -> Nat]
      /\ pc \in [Threads -> Spots] /\ cur \in [Threads -> States]
      /\ open \in [1..2 -> SUBSET States] /\ LeastCost \in Nat
  BY LimitType DEF IInv, TypeOK, Spots, Other
<1>4. PICK c \in todo[t] : OverBound(t, c) \/ Known(t, c) \/ Fresh(t, c)
  BY DEF Child
<1>5. /\ c[1] \in States /\ c[2] \in Nat /\ c[2] < Infinity
      /\ H[c[1]] \in Nat /\ Infinity \in Nat
  BY <1>1, ChildIs, SpaceAssumption
<1>6. Weighted' = Weighted /\ IsPSDD'
  BY <1>1 DEF Weighted, IsPSDD
<1>7. CASE OverBound(t, c)
  <2>1. /\ c[2] + H[c[1]] > bound /\ lowest' = Min({lowest, c[2] + H[c[1]]})
        /\ NextChild(t, c) /\ UNCHANGED <<cur, open, g>>
    BY <1>7 DEF OverBound
  <2>2. /\ lowest' \in {lowest, c[2] + H[c[1]]} /\ lowest' <= lowest
        /\ lowest' <= c[2] + H[c[1]]
    <3>1. {lowest, c[2] + H[c[1]]} \in SUBSET Nat
      BY <1>3, <1>5
    <3>2. QED
      BY <2>1, <3>1, MinIsLeast
  <2>3. job.algo = "idpsdd" => bound < lowest'
    BY <1>1, <1>3, <1>5, <2>1, <2>2 DEF PSDDBounds
  <2>4. /\ pc'[t] \in {"search", "child"}
    BY <1>3, <2>1 DEF NextChild
  <2>5. ASSUME ~Met, ~Met' PROVE NothingForgotten'
    <3>1. ASSUME Worth(c[1], c[2]) PROVE FALSE
      <4>1. c[2] + H[c[1]] <= LeastCost
        BY <1>1, <1>5, <3>1, PromisesBound DEF Worth, LeastCost, Solvable
      <4>2. bound < LeastCost
        BY <1>3, <1>5, <2>1, <4>1
      <4>3. lowest' <= LeastCost
        BY <1>3, <1>5, <2>2, <4>1
      <4>4. Met'
        BY <1>1, <1>6, <4>2, <4>3 DEF Met, IsBFPSDD, LeastCost
      <4>5. QED
        BY <2>5, <4>4
    <3>2. \A l \in 1..2 : open[l] \subseteq open'[l]
      BY <2>1
    <3>3. QED
      BY <1>1, <1>2, <2>1, <2>5, <3>1, <3>2, ThroughForgets
  <2>6. ~Met => NothingForgotten'
    BY <2>5 DEF NothingForgotten
  <2>7. QED
    BY <1>1, <1>2, <2>1, <2>2, <2>3, <2>4, <2>6, WorkedSound
<1>8. /\ lowest <= lowest /\ (job.algo = "idpsdd" => bound < lowest)
  BY <1>1, <1>3 DEF PSDDBounds
<1>9. CASE Known(t, c)
  <2>1. /\ c[2] + H[c[1]] <= bound /\ NextChild(t, c) /\ UNCHANGED <<cur, lowest>>
        /\ IF g[c[1]] > c[2]
           THEN /\ g' = [g EXCEPT ![c[1]] = c[2]]
                /\ IF IsOpen(c[1]) THEN open' = open
                   ELSE open' = [open EXCEPT ![Other(graph.layer)] = @ \cup {c[1]}]
           ELSE UNCHANGED <<g, open>>
    BY <1>9 DEF Known, AddToNext
  <2>2. pc'[t] \in {"search", "child"}
    BY <1>3, <2>1 DEF NextChild
  <2>3. \A l \in 1..2 : open[l] \subseteq open'[l]
    BY <1>3, <2>1
  <2>4. g[c[1]] > c[2] => IsOpen(c[1])'
    <3>1. CASE IsOpen(c[1]) /\ open' = open
      BY <3>1 DEF IsOpen
    <3>2. CASE open' = [open EXCEPT ![Other(graph.layer)] = @ \cup {c[1]}]
      <4>1. c[1] \in open'[Other(graph.layer)]
        BY <1>3, <3>2
      <4>2. QED
        BY <1>3, <4>1 DEF IsOpen
    <3>3. QED
      BY <2>1, <3>1, <3>2
  <2>5. Reached(c[1], c[2])'
    <3>1. g'[c[1]] <= c[2]
      BY <1>3, <1>5, <2>1
    <3>2. QED
      BY <1>1, <1>6, <3>1 DEF Reached
  <2>6. \A s \in States : g'[s] # g[s] => g'[s] + H[s] <= bound
    BY <1>3, <2>1
  <2>7. g' = g \/ (g' = [g EXCEPT ![c[1]] = c[2]] /\ IsOpen(c[1])')
    BY <2>1, <2>4
  <2>8. ~Met /\ ~Met' => NothingForgotten'
    BY <1>1, <1>2, <2>1, <2>3, <2>5, <2>7, ThroughForgets
  <2>9. ~Met => NothingForgotten'
    BY <2>8 DEF NothingForgotten
  <2>10. QED
    BY <1>1, <1>2, <1>8, <2>1, <2>2, <2>6, <2>9, WorkedSound
<1>10. CASE Fresh(t, c)
  <2>1. /\ c[2] + H[c[1]] <= bound /\ g' = [g EXCEPT ![c[1]] = c[2]] /\ lowest' = lowest
    BY <1>10 DEF Fresh
  <2>2. \A s \in States : g'[s] # g[s] => g'[s] + H[s] <= bound
    BY <1>3, <2>1
  <2>3. CASE FoundGoal(t, c[1]) /\ open' = open /\ c[1] \in Goals
    <3>1. pc'[t] = "path" /\ cur'[t] \in Goals
      BY <1>3, <1>5, <2>3 DEF FoundGoal
    <3>2. ~Met => NothingForgotten'
      <4>1. Met'
        BY <1>1, <1>6, <3>1 DEF Met, IsBFPSDD
      <4>2. QED
        BY <4>1 DEF NothingForgotten
    <3>3. QED
      BY <1>1, <1>2, <1>8, <2>1, <2>2, <3>1, <3>2, WorkedSound
  <2>4. CASE /\ NextChild(t, c) /\ cur' = cur
             /\ open' = [open EXCEPT ![Other(graph.layer)] = @ \cup {c[1]}]
    <3>1. pc'[t] \in {"search", "child"}
      BY <1>3, <2>4 DEF NextChild
    <3>2. /\ \A l \in 1..2 : open[l] \subseteq open'[l]
          /\ c[1] \in open'[Other(graph.layer)]
      BY <1>3, <2>4
    <3>3. IsOpen(c[1])'
      BY <1>3, <3>2 DEF IsOpen
    <3>4. Reached(c[1], c[2])'
      <4>1. g'[c[1]] <= c[2]
        BY <1>3, <1>5, <2>1
      <4>2. QED
        BY <1>1, <1>6, <4>1 DEF Reached
    <3>5. ~Met /\ ~Met' => NothingForgotten'
      BY <1>1, <1>2, <2>1, <2>4, <3>2, <3>3, <3>4, ThroughForgets
    <3>6. ~Met => NothingForgotten'
      BY <3>5 DEF NothingForgotten
    <3>7. QED
      BY <1>1, <1>2, <1>8, <2>1, <2>2, <3>1, <3>6, WorkedSound
  <2>5. QED
    BY <1>10, <2>3, <2>4 DEF Fresh, AddToNext
<1>11. QED
  BY <1>4, <1>7, <1>9, <1>10

\* The fate of a child in BFPSDD; a node that WBFPSDD does not open again is
\* one that it has already been to.
LEMMA BFPSDDChildSound ==
  ASSUME IInv, CostsFit, Solvable, Sound, IsBFPSDD, NEW t \in Threads, HandleChild(t)
  PROVE  Sound'
<1>1. /\ UNCHANGED <<job, blk, exp, graph, best, bound, lowest, done>> /\ pc[t] = "child"
      /\ ~IsPSDD /\ BFPSDDBounds
  BY DEF HandleChild, IsPSDD, IsBFPSDD, Sound
<1>2. IInv' /\ Worked(t)
  BY BFPSDDChildInv
<1>3. /\ 1 \in 1..2 /\ 2 \in 1..2 /\ lowest \in Nat /\ g \in [States -> Nat]
      /\ pc \in [Threads -> Spots] /\ cur \in [Threads -> States]
      /\ open \in [1..2 -> SUBSET States] /\ job \in Jobs
  BY DEF IInv, TypeOK, Spots
<1>4. PICK c \in todo[t] : DropChild(t, c) \/ KnownChild(t, c) \/ FreshChild(t, c)
  BY DEF HandleChild
<1>5. /\ c[1] \in States /\ c[2] \in Nat /\ c[2] < Infinity /\ Infinity \in Nat
      /\ c[2] <= Cardinality(States) * Dearest
  <2>1. /\ c[1] \in States /\ c[2] \in Nat /\ c[2] <= Cardinality(Made) * Dearest
        /\ c[2] < Infinity
    BY <1>1, ChildIs
  <2>2. Made \in SUBSET States
    BY DEF Made
  <2>3. /\ Cardinality(Made) * Dearest \in Nat /\ Cardinality(States) * Dearest \in Nat
        /\ Cardinality(Made) * Dearest <= Cardinality(States) * Dearest
    BY <2>2, SomeStates
  <2>4. QED
    BY <2>1, <2>3, SpaceAssumption
<1>6. Weighted' = Weighted /\ lowest' <= lowest
  BY <1>1, <1>3 DEF Weighted
<1>7. ASSUME NextChild(t, c), cur' = cur, \A l \in 1..2 : open[l] \subseteq open'[l],
             open'[2] = open[2],
             g' = g \/ /\ g' = [g EXCEPT ![c[1]] = c[2]]
                       /\ IsOpen(c[1])' \/ (Weighted /\ c[1] \in Made /\ ~IsOpen(c[1])),
             Worth(c[1], c[2]) /\ ~Met => Reached(c[1], c[2])'
      PROVE  Sound'
  <2>1. pc'[t] \in {"search", "child"}
    BY <1>3, <1>7 DEF NextChild
  <2>2. ~Met /\ ~Met' => NothingForgotten'
    BY <1>1, <1>2, <1>7, ThroughForgets
  <2>3. ~Met => NothingForgotten'
    BY <2>2 DEF NothingForgotten
  <2>4. QED
    BY <1>1, <1>2, <1>6, <1>7, <2>1, <2>3, WorkedSound
<1>8. CASE DropChild(t, c)
  <2>1. Pruned(c[1], c[2]) /\ NextChild(t, c) /\ UNCHANGED <<cur, open, g>>
    BY <1>8 DEF DropChild
  <2>2. ~(Worth(c[1], c[2]) /\ ~Met)
    BY <1>5, <2>1, NotPruned
  <2>3. \A l \in 1..2 : open[l] \subseteq open'[l]
    BY <2>1
  <2>4. QED
    BY <1>7, <2>1, <2>2, <2>3
<1>9. CASE KnownChild(t, c)
  <2>1. /\ g[c[1]] # Infinity /\ NextChild(t, c) /\ cur' = cur
        /\ IF g[c[1]] > c[2]
           THEN /\ g' = [g EXCEPT ![c[1]] = c[2]]
                /\ open' = IF c[1] \in open[1] \/ ~Reopens(cur[t], c) THEN open
                           ELSE [open EXCEPT ![1] = @ \cup {c[1]}]
           ELSE UNCHANGED <<g, open>>
    BY <1>9 DEF KnownChild
  <2>2. (\A l \in 1..2 : open[l] \subseteq open'[l]) /\ open'[2] = open[2]
    BY <1>3, <2>1
  <2>3. Reached(c[1], c[2])'
    <3>1. g'[c[1]] <= c[2] /\ c[1] \in Made'
      BY <1>3, <1>5, <2>1 DEF Made
    <3>2. QED
      BY <3>1 DEF Reached
  <2>4. ASSUME g[c[1]] > c[2]
        PROVE  IsOpen(c[1])' \/ (Weighted /\ c[1] \in Made /\ ~IsOpen(c[1]))
    <3>1. CASE c[1] \in open[1]
      BY <1>3, <2>2, <3>1 DEF IsOpen
    <3>2. CASE c[1] \notin open[1] /\ Reopens(cur[t], c)
      <4>1. c[1] \in open'[1]
        BY <1>3, <2>1, <2>4, <3>2
      <4>2. QED
        BY <1>3, <4>1 DEF IsOpen
    <3>3. CASE c[1] \notin open[1] /\ ~Reopens(cur[t], c)
      <4>1. Weighted
        BY <1>3, <3>3, JobsAssumption DEF Reopens, Weighted
      <4>2. c[1] \in Made
        BY <1>5, <2>1 DEF Made
      <4>3. \A l \in 1..2 : c[1] \notin open[l]
        <5>1. open[2] = {}
          BY <1>1 DEF BFPSDDBounds
        <5>2. \A l \in 1..2 : l = 1 \/ l = 2
          OBVIOUS
        <5>3. QED
          BY <3>3, <5>1, <5>2
      <4>4. QED
        BY <4>1, <4>2, <4>3 DEF IsOpen
    <3>4. QED
      BY <3>1, <3>2, <3>3
  <2>5. QED
    BY <1>7, <2>1, <2>2, <2>3, <2>4
<1>10. CASE FreshChild(t, c)
  <2>1. g' = [g EXCEPT ![c[1]] = c[2]]
    BY <1>10 DEF FreshChild
  <2>2. CASE FoundGoal(t, c[1]) /\ open' = open /\ c[1] \in Goals
    <3>1. pc'[t] = "path" /\ cur'[t] \in Goals
      BY <1>3, <1>5, <2>2 DEF FoundGoal
    <3>2. ~Met /\ ~Met' => NothingForgotten'
      BY <1>1, <1>2, <2>1, <2>2, GoalForgets
    <3>3. ~Met => NothingForgotten'
      BY <3>2 DEF NothingForgotten
    <3>4. QED
      BY <1>1, <1>2, <1>6, <2>2, <3>1, <3>3, WorkedSound
  <2>3. CASE /\ NextChild(t, c) /\ cur' = cur
             /\ open' = [open EXCEPT ![1] = @ \cup {c[1]}]
    <3>1. /\ \A l \in 1..2 : open[l] \subseteq open'[l]
          /\ c[1] \in open'[1] /\ open'[2] = open[2]
      BY <1>3, <2>3
    <3>2. IsOpen(c[1])'
      BY <1>3, <3>1 DEF IsOpen
    <3>3. Reached(c[1], c[2])'
      <4>1. g'[c[1]] <= c[2] /\ c[1] \in Made'
        BY <1>3, <1>5, <2>1 DEF Made
      <4>2. QED
        BY <4>1 DEF Reached
    <3>4. QED
      BY <1>7, <2>1, <2>3, <3>1, <3>2, <3>3
  <2>4. QED
    BY <1>10, <2>2, <2>3 DEF FreshChild
<1>11. QED
  BY <1>4, <1>8, <1>9, <1>10

-----------------------------------------------------------------------------
(* The steps that leave the nodes where they are.                          *)

\* A thread changes block: when the graph says that the search is over no
\* node is left, and no thread has children in hand.
LEMMA MovedSound ==
  ASSUME IInv, IInv', Solvable, Sound, NEW t \in Threads, Moved(t)
  PROVE  Sound'
<1>1. /\ UNCHANGED <<job, cur, todo, open, g, best, bound, lowest, done>> /\ TypeOK /\ TypeOK'
      /\ pc[t] \in {"next", "woken"} /\ pc'[t] \in {"search", "wait", "none"}
      /\ pc'[t] = "none" => graph'.found
      /\ \A u \in Threads \ {t} : pc'[u] = pc[u] \/ (pc[u] = "wait" /\ pc'[u] = "woken")
      /\ graph.found => graph'.found
  BY DEF Moved, IInv
<1>2. /\ \A u \in Threads : pc'[u] = "child" <=> pc[u] = "child"
      /\ \A u \in Threads : pc'[u] = "path" <=> pc[u] = "path"
      /\ \A u \in Threads : pc'[u] \in {"none", "finish", "end"} =>
           pc[u] \in {"none", "finish", "end"} \/ graph'.found
  BY <1>1
<1>3. /\ IsPSDD' = IsPSDD /\ IsBFPSDD' = IsBFPSDD /\ Weighted' = Weighted
      /\ Made' = Made /\ Limit' = Limit /\ LeastCost' = LeastCost
  BY <1>1 DEF IsPSDD, IsBFPSDD, Weighted, Made, Limit, LeastCost
<1>4. Met => Met'
  BY <1>1, <1>2, <1>3 DEF Met
<1>5. NothingForgotten'
  BY <1>1, <1>2, <1>4, QuietForgets DEF Sound
<1>6. ASSUME graph'.found PROVE Met'
  <2>1. CASE graph.found
    BY <1>4, <2>1 DEF Sound
  <2>2. CASE ~graph.found
    <3>1. /\ graph.inuse \subseteq {blk[t]} /\ pc[t] = "next"
          /\ IsPSDD => open = [l \in 1..2 |-> {}]
          /\ IsBFPSDD => open[1] = {}
      BY <1>6, <2>2 DEF Moved
    <3>2. IsPSDD \/ IsBFPSDD
      BY <1>1, JobsAssumption DEF TypeOK, IsPSDD, IsBFPSDD, Algorithms
    <3>3. open[1] = {} /\ open[2] = {}
      BY <3>1, <3>2 DEF Sound, BFPSDDBounds
    <3>4. ASSUME NEW u \in Threads, pc[u] = "child" PROVE FALSE
      <4>1. blk[u] # None /\ u # t
        BY <3>1, <3>4 DEF IInv, Owner
      <4>2. blk[u] \in graph.inuse /\ blk[u] # blk[t]
        BY <4>1 DEF IInv, Owned
      <4>3. QED
        BY <3>1, <4>2
    <3>5. Met
      BY <1>1, <3>3, <3>4, SpentMet DEF Sound
    <3>6. QED
      BY <1>4, <3>5
  <2>3. QED
    BY <2>1, <2>2
<1>7. RealCosts'
  BY <1>1, <1>2, <1>3 DEF Sound, RealCosts
<1>8. IsPSDD => PSDDBounds'
  BY <1>1, <1>3 DEF Sound, PSDDBounds
<1>9. IsBFPSDD => BFPSDDBounds'
  BY <1>1, <1>2, <1>3 DEF Sound, BFPSDDBounds
<1>10. QED
  BY <1>3, <1>5, <1>6, <1>7, <1>8, <1>9 DEF Sound

\* The path that a thread has found costs at least as much as a cheapest one.
LEMMA PathIsReal ==
  ASSUME IInv, CostsFit, Solvable, Sound, NEW t \in Threads, pc[t] = "path"
  PROVE  /\ g[cur[t]] \in Nat /\ LeastCost <= g[cur[t]] /\ g[cur[t]] < Infinity
         /\ IsPSDD => g[cur[t]] <= bound
<1>1. cur[t] \in Goals /\ cur[t] \in Made
  BY DEF Sound, RealCosts, IInv, Owner
<1>2. g[cur[t]] \in Nat /\ g[cur[t]] < Infinity /\ cur[t] \in States
  BY <1>1, MadeFits
<1>3. CostToGo[cur[t]] = 0 /\ H[cur[t]] = 0
  BY <1>1, CostToGoBound, SpaceAssumption
<1>4. LeastCost <= g[cur[t]] + CostToGo[cur[t]]
  BY <1>1 DEF Sound, RealCosts
<1>5. LeastCost <= g[cur[t]]
  BY <1>2, <1>3, <1>4
<1>6. ASSUME IsPSDD PROVE g[cur[t]] <= bound
  <2>1. g[cur[t]] + H[cur[t]] <= bound
    BY <1>1, <1>6 DEF Sound, PSDDBounds
  <2>2. QED
    BY <1>2, <1>3, <2>1
<1>7. QED
  BY <1>2, <1>5, <1>6

\* Thread t goes on without touching blocks, nodes or lists.
LEMMA TalkSound ==
  ASSUME IInv, IInv', Solvable, Sound, NEW t \in Threads,
         UNCHANGED <<job, cur, todo, open, g, lowest>>, graph'.found => graph.found \/ Met,
         \A u \in Threads \ {t} :
           pc'[u] = pc[u] \/ (pc[u] = "wait" /\ pc'[u] = "woken"),
         pc[t] # "child", pc'[t] \notin {"child", "path"},
         LeastCost <= best', best' <= best,
         pc[t] = "path" => best' # Infinity /\ (IsBFPSDD => best' <= g[cur[t]]),
         IsPSDD => bound' = bound /\ (best' # Infinity => best' <= bound),
         IsBFPSDD => BFPSDDBounds'
  PROVE  Sound'
<1>1. /\ TypeOK /\ TypeOK' /\ best \in Nat /\ best' \in Nat /\ g \in [States -> Nat]
      /\ g' = g /\ cur' = cur /\ lowest' = lowest /\ lowest \in Nat /\ Infinity \in Nat
      /\ best <= Infinity
  BY SpaceAssumption DEF IInv, TypeOK, Sound, RealCosts
<1>2. /\ \A u \in Threads : pc'[u] = "child" <=> pc[u] = "child"
      /\ \A u \in Threads : pc'[u] = "path" => pc[u] = "path"
      /\ \A u \in Threads : pc[u] = "path" => pc'[u] = "path" \/ u = t
  OBVIOUS
<1>3. /\ IsPSDD' = IsPSDD /\ IsBFPSDD' = IsBFPSDD /\ Made' = Made /\ LeastCost' = LeastCost
  BY DEF IsPSDD, IsBFPSDD, Made, LeastCost
<1>4. best # Infinity => best' # Infinity
  BY <1>1
<1>5. Met => Met'
  <2>1. \A s \in States : g'[s] <= g[s]
    BY <1>1
  <2>2. \A u \in Threads : pc[u] = "path" =>
          \/ pc'[u] = "path" /\ cur'[u] = cur[u]
          \/ best' # Infinity /\ (IsBFPSDD => best' <= g[cur[u]])
    BY <1>1, <1>2
  <2>3. IsPSDD => bound' = bound /\ lowest' <= lowest
    BY <1>1
  <2>4. QED
    BY <1>1, <1>4, <2>1, <2>2, <2>3, MetStays
<1>6. NothingForgotten'
  BY <1>2, <1>5, QuietForgets DEF Sound
<1>7. graph'.found => Met'
  BY <1>5 DEF Sound
<1>8. RealCosts'
  <2>1. best' <= Infinity
    BY <1>1
  <2>2. QED
    BY <1>1, <1>2, <1>3, <2>1 DEF Sound, RealCosts
<1>9. IsPSDD => PSDDBounds'
  BY <1>1, <1>3 DEF Sound, PSDDBounds
<1>10. QED
  BY <1>3, <1>6, <1>7, <1>8, <1>9 DEF Sound

\* PSDD: the first path that is found is kept, and is within the bound.
LEMMA PSDDTalkSound ==
  ASSUME IInv, IInv', CostsFit, Solvable, Sound, IsPSDD, NEW t \in Threads,
         SetPath(t) \/ SetPathFound(t) \/ Test(t)
  PROVE  Sound'
<1>1. /\ pc \in [Threads -> Spots] /\ best \in Nat /\ bound \in Nat /\ Infinity \in Nat
      /\ LeastCost \in Nat /\ LeastCost <= best /\ best <= Infinity
      /\ best # Infinity => best <= bound
      /\ ~IsBFPSDD /\ GraphType(graph) /\ TypeOK
  BY LimitType, SpaceAssumption
     DEF IInv, TypeOK, Spots, Good, Sound, RealCosts, PSDDBounds, IsPSDD, IsBFPSDD
<1>2. UNCHANGED <<job, cur, todo, open, g, lowest>>
  BY DEF SetPath, SetPathFound, Test
<1>3. CASE SetPath(t)
  <2>1. /\ pc[t] = "path" /\ pc' = [pc EXCEPT ![t] = "tell"] /\ graph' = graph
        /\ best' = (IF best = Infinity THEN g[cur[t]] ELSE best) /\ bound' = bound
    BY <1>3 DEF SetPath, Go
  <2>2. /\ g[cur[t]] \in Nat /\ LeastCost <= g[cur[t]] /\ g[cur[t]] < Infinity
        /\ g[cur[t]] <= bound
    BY <2>1, PathIsReal
  <2>3. LeastCost <= best' /\ best' <= best /\ best' # Infinity /\ best' <= bound
    BY <1>1, <2>1, <2>2
  <2>4. pc'[t] = "tell" /\ \A u \in Threads \ {t} : pc'[u] = pc[u]
    BY <1>1, <2>1
  <2>5. QED
    BY <1>1, <1>2, <2>1, <2>3, <2>4, TalkSound
<1>4. CASE SetPathFound(t)
  <2>1. /\ pc[t] = "tell" /\ pc' = Wake(Waiting, t, "test")
        /\ best' = best /\ bound' = bound
    BY <1>4 DEF SetPathFound
  <2>2. /\ pc'[t] = "test"
        /\ \A u \in Threads \ {t} :
             pc'[u] = pc[u] \/ (pc[u] = "wait" /\ pc'[u] = "woken")
    <3>1. PICK to : to = "test"
      OBVIOUS
    <3>2. to \in Spots /\ pc' = Wake(Waiting, t, to)
      BY <2>1, <3>1 DEF Spots
    <3>3. PICK W \in SUBSET Waiting : W = Waiting
      OBVIOUS
    <3>4. TypeOK
      BY <1>1
    <3>5. /\ Wake(W, t, to)[t] = to
          /\ \A u \in Threads \ {t} :
               \/ Wake(W, t, to)[u] = pc[u]
               \/ pc[u] = "wait" /\ Wake(W, t, to)[u] = "woken"
      BY <3>2, <3>4, WakeIs
    <3>6. QED
      BY <3>1, <3>2, <3>3, <3>5
  <2>3. Met
    <3>1. best # Infinity
      BY <2>1 DEF IInv, PSDDOwner
    <3>2. QED
      BY <1>1, <3>1 DEF Met
  <2>4. best' <= best
    BY <1>1, <2>1
  <2>5. QED
    BY <1>1, <1>2, <2>1, <2>2, <2>3, <2>4, TalkSound
<1>5. CASE Test(t)
  <2>1. /\ pc[t] \in {"test", "none"} /\ \E to \in {"next", "end"} : pc' = [pc EXCEPT ![t] = to]
        /\ graph' = graph /\ best' = best /\ bound' = bound
    BY <1>5 DEF Test, Go
  <2>2. /\ \A u \in Threads \ {t} : pc'[u] = pc[u]
        /\ pc'[t] \in {"next", "end"}
    BY <1>1, <2>1
  <2>3. best' <= best
    BY <1>1, <2>1
  <2>4. QED
    BY <1>1, <1>2, <2>1, <2>2, <2>3, TalkSound
<1>6. QED
  BY <1>3, <1>4, <1>5

\* BFPSDD: the best path is kept and the bound follows it; a thread that tells
\* the others to stop has been told so itself.
LEMMA BFPSDDTalkSound ==
  ASSUME IInv, IInv', CostsFit, Solvable, Sound, IsBFPSDD, NEW t \in Threads,
         SeePath(t) \/ LowerBound(t) \/ Again(t) \/ Finish(t)
  PROVE  Sound'
<1>1. /\ pc \in [Threads -> Spots] /\ best \in Nat /\ bound \in Nat /\ Infinity \in Nat
      /\ LeastCost \in Nat /\ LeastCost <= best /\ best <= Infinity
      /\ ~IsPSDD /\ GraphType(graph) /\ TypeOK /\ BFPSDDBounds
  BY LimitType, SpaceAssumption
     DEF IInv, TypeOK, Spots, Good, Sound, RealCosts, IsPSDD, IsBFPSDD
<1>2. UNCHANGED <<job, cur, todo, open, g, lowest>> /\ Weighted' = Weighted
  BY DEF SeePath, LowerBound, Again, Finish, Weighted
<1>3. /\ IF Weighted THEN best = bound ELSE best <= bound
      /\ done \/ (\E u \in Threads : pc[u] \in {"none", "finish", "end"}) => graph.found
      /\ open[2] = {}
  BY <1>1 DEF BFPSDDBounds
<1>4. CASE SeePath(t)
  <2>1. /\ pc[t] = "path" /\ graph' = graph /\ done' = done
        /\ \E to \in {"lower", "test"} : pc' = [pc EXCEPT ![t] = to]
    BY <1>4 DEF SeePath
  <2>2. /\ g[cur[t]] \in Nat /\ LeastCost <= g[cur[t]] /\ g[cur[t]] < Infinity
    BY <2>1, PathIsReal
  <2>3. /\ LeastCost <= best' /\ best' <= best /\ best' <= g[cur[t]] /\ best' \in Nat
        /\ IF Weighted THEN best' = bound' ELSE best' <= bound'
    <3>1. CASE ~Weighted
      <4>1. best' = Min({best, g[cur[t]]}) /\ bound' = bound
        BY <1>4, <3>1 DEF SeePath
      <4>2. {best, g[cur[t]]} \in SUBSET Nat
        BY <1>1, <2>2
      <4>3. best' \in {best, g[cur[t]]} /\ best' <= best /\ best' <= g[cur[t]]
        BY <4>1, <4>2, MinIsLeast
      <4>4. QED
        BY <1>1, <1>3, <2>2, <3>1, <4>1, <4>3
    <3>2. CASE Weighted
      <4>1. IF bound >= g[cur[t]]
            THEN best' = g[cur[t]] /\ bound' = g[cur[t]] ELSE UNCHANGED <<best, bound>>
        BY <1>4, <3>2 DEF SeePath
      <4>2. QED
        BY <1>1, <1>3, <2>2, <3>2, <4>1
    <3>3. QED
      BY <3>1, <3>2
  <2>4. /\ pc'[t] \in {"lower", "test"} /\ \A u \in Threads \ {t} : pc'[u] = pc[u]
    BY <1>1, <2>1
  <2>5. BFPSDDBounds'
    BY <1>2, <1>3, <2>1, <2>3, <2>4 DEF BFPSDDBounds
  <2>6. best' # Infinity
    BY <1>1, <2>2, <2>3
  <2>7. QED
    BY <1>1, <1>2, <2>1, <2>3, <2>4, <2>5, <2>6, TalkSound
<1>5. CASE LowerBound(t)
  <2>1. /\ pc[t] = "lower" /\ pc' = [pc EXCEPT ![t] = "test"] /\ graph' = graph
        /\ done' = done /\ best' = best /\ bound' = Min({bound, best})
    BY <1>5 DEF LowerBound, Go
  <2>2. /\ bound' \in {bound, best} /\ bound' <= bound /\ bound' <= best
    <3>1. {bound, best} \in SUBSET Nat
      BY <1>1
    <3>2. QED
      BY <2>1, <3>1, MinIsLeast
  <2>3. IF Weighted THEN best' = bound' ELSE best' <= bound'
    BY <1>1, <1>3, <2>1, <2>2
  <2>4. /\ pc'[t] = "test" /\ \A u \in Threads \ {t} : pc'[u] = pc[u]
    BY <1>1, <2>1
  <2>5. BFPSDDBounds'
    BY <1>2, <1>3, <2>1, <2>3, <2>4 DEF BFPSDDBounds
  <2>6. best' <= best
    BY <1>1, <2>1
  <2>7. QED
    BY <1>1, <1>2, <2>1, <2>4, <2>5, <2>6, TalkSound
<1>6. CASE Again(t)
  <2>1. /\ graph' = graph /\ done' = done /\ best' = best /\ bound' = bound
        /\ \/ /\ pc[t] = "test"
              /\ pc' = [pc EXCEPT ![t] = IF Weighted /\ done THEN "finish" ELSE "next"]
           \/ /\ pc[t] = "none"
              /\ pc' = [pc EXCEPT ![t] = IF Weighted THEN "finish" ELSE "end"]
    BY <1>6 DEF Again, Go
  <2>2. /\ \A u \in Threads \ {t} : pc'[u] = pc[u]
        /\ pc'[t] \in {"finish", "next", "end"}
        /\ pc'[t] \in {"finish", "end"} => done \/ pc[t] = "none"
    BY <1>1, <2>1
  <2>3. \A u \in Threads : pc'[u] \in {"none", "finish", "end"} => graph.found
    BY <1>3, <2>2
  <2>4. BFPSDDBounds'
    BY <1>2, <1>3, <2>1, <2>3 DEF BFPSDDBounds
  <2>5. best' <= best /\ pc[t] \notin {"child", "path"}
    BY <1>1, <2>1
  <2>6. QED
    BY <1>1, <1>2, <2>1, <2>2, <2>4, <2>5, TalkSound
<1>7. CASE Finish(t)
  <2>1. /\ pc[t] = "finish" /\ pc' = Wake(Waiting, t, "end")
        /\ best' = best /\ bound' = bound /\ graph' = [graph EXCEPT !.found = TRUE]
    BY <1>7 DEF Finish
  <2>2. /\ pc'[t] = "end"
        /\ \A u \in Threads \ {t} :
             pc'[u] = pc[u] \/ (pc[u] = "wait" /\ pc'[u] = "woken")
    <3>1. PICK to : to = "end"
      OBVIOUS
    <3>2. to \in Spots /\ pc' = Wake(Waiting, t, to)
      BY <2>1, <3>1 DEF Spots
    <3>3. PICK W \in SUBSET Waiting : W = Waiting
      OBVIOUS
    <3>4. TypeOK
      BY <1>1
    <3>5. /\ Wake(W, t, to)[t] = to
          /\ \A u \in Threads \ {t} :
               \/ Wake(W, t, to)[u] = pc[u]
               \/ pc[u] = "wait" /\ Wake(W, t, to)[u] = "woken"
      BY <3>2, <3>4, WakeIs
    <3>6. QED
      BY <3>1, <3>2, <3>3, <3>5
  <2>3. graph.found /\ graph'.found
    BY <1>1, <1>3, <2>1 DEF GraphType
  <2>4. BFPSDDBounds'
    BY <1>2, <1>3, <2>1, <2>3 DEF BFPSDDBounds
  <2>5. best' <= best
    BY <1>1, <2>1
  <2>6. QED
    BY <1>1, <1>2, <2>1, <2>2, <2>3, <2>4, <2>5, TalkSound
<1>8. QED
  BY <1>4, <1>5, <1>6, <1>7

-----------------------------------------------------------------------------
(* The beginning of a search and of an iteration.                          *)

\* The bounds that a search or an iteration begins with.
StartBounds ==
  /\ lowest = Infinity
  /\ IsPSDD => /\ H[Start] <= bound
               /\ IF job.algo = "idpsdd" THEN bound <= LeastCost ELSE LeastCost <= bound
  /\ IsBFPSDD => bound = Infinity /\ ~done

\* They make a search sound when it begins.
LEMMA FreshSound == Solvable /\ Beginning /\ StartBounds => Sound
<1> SUFFICES ASSUME Solvable, Beginning, StartBounds PROVE Sound
  OBVIOUS
<1>1. /\ Start \in States /\ Infinity \in Nat \ {0} /\ {lowest, bound} \subseteq Nat
      /\ best = Infinity /\ LeastCost \in Nat /\ LeastCost < Infinity /\ H[Start] \in Nat
  BY SpaceAssumption, CostToGoType DEF Beginning, Solvable, LeastCost
<1>2. /\ \A t \in Threads : pc[t] = "next"
      /\ open[1] = {Start} /\ open[2] = {} /\ ~graph.found
      /\ g[Start] = 0 /\ \A s \in States \ {Start} : g[s] = Infinity
  BY <1>1 DEF Beginning, Everywhere, NewOpen, NewGraph, OnlyStart
<1>3. Made = {Start}
  BY <1>1, <1>2 DEF Made
<1>4. RealCosts
  <2>1. LeastCost <= 0 + CostToGo[Start]
    BY <1>1 DEF LeastCost
  <2>2. LeastCost <= best /\ best <= Infinity
    BY <1>1
  <2>3. QED
    BY <1>2, <1>3, <2>1, <2>2 DEF RealCosts
<1>5. NothingForgotten
  BY <1>2, <1>3 DEF NothingForgotten, IsOpen
<1>6. ASSUME IsPSDD PROVE PSDDBounds
  <2>1. \A s \in Made : g[s] + H[s] <= bound
    BY <1>1, <1>2, <1>3, <1>6 DEF StartBounds
  <2>2. job.algo = "idpsdd" => bound <= LeastCost /\ bound < lowest
    BY <1>1, <1>6 DEF StartBounds
  <2>3. QED
    BY <1>1, <1>6, <2>1, <2>2 DEF PSDDBounds, StartBounds
<1>7. ASSUME IsBFPSDD PROVE BFPSDDBounds
  BY <1>1, <1>2, <1>7 DEF BFPSDDBounds, StartBounds
<1>8. QED
  BY <1>2, <1>4, <1>5, <1>6, <1>7 DEF Sound

\* The first bounds are such bounds.
LEMMA InitSound == CostsFit /\ Solvable /\ Init => Sound
<1> SUFFICES ASSUME Solvable, Init PROVE StartBounds
  BY InitFresh, FreshSound
<1>1. /\ H[Start] \in Nat /\ LeastCost \in Nat /\ H[Start] <= LeastCost
      /\ LeastCost < Infinity /\ Infinity \in Nat /\ Start \in States
      /\ CostToGo[Start] = LeastCost
  BY SpaceAssumption, CostToGoType DEF Solvable, Admissible, LeastCost
<1>2. job \in Jobs /\ job.weight \in Nat /\ lowest = Infinity /\ done = FALSE
  BY JobsAssumption DEF Init
<1>3. ASSUME IsPSDD
      PROVE  /\ H[Start] <= bound
             /\ IF job.algo = "idpsdd" THEN bound <= LeastCost ELSE LeastCost <= bound
  <2>1. bound \in FirstBound
    BY <1>3 DEF Init
  <2>2. CASE job.algo = "idpsdd"
    <3>1. bound = H[Start]
      BY <2>1, <2>2 DEF FirstBound
    <3>2. QED
      BY <1>1, <2>2, <3>1
  <2>3. CASE job.algo = "dynamic"
    <3>1. bound \in CostToGo[Start]..(job.weight * CostToGo[Start])
      BY <2>1, <2>3 DEF FirstBound
    <3>2. bound >= LeastCost /\ bound \in Int
      BY <1>1, <1>2, <3>1
    <3>3. QED
      BY <1>1, <2>3, <3>2
  <2>4. CASE job.algo \notin {"idpsdd", "dynamic"}
    <3>1. bound = Infinity
      BY <2>1, <2>4 DEF FirstBound
    <3>2. QED
      BY <1>1, <2>4, <3>1
  <2>5. QED
    BY <2>2, <2>3, <2>4
<1>4. IsBFPSDD => bound = Infinity
  BY DEF Init, IsBFPSDD, IsPSDD
<1>5. QED
  BY <1>2, <1>3, <1>4 DEF StartBounds

\* An iteration of IDPSDD that found no path has pruned a node that promises a
\* cheapest solution, so the next bound is not too high.
LEMMA IterateBounds == IInv /\ Solvable /\ Sound /\ Iterate => StartBounds'
<1> SUFFICES ASSUME IInv, Solvable, Sound, Iterate PROVE StartBounds'
  OBVIOUS
<1>1. /\ AllEnded /\ job.algo = "idpsdd" /\ (best = Infinity \/ best > bound)
      /\ job' = job /\ lowest' = Infinity /\ bound' = lowest
  BY DEF Iterate, Continued
<1>2. IsPSDD /\ ~IsBFPSDD /\ ~Weighted /\ PSDDBounds
  BY <1>1 DEF IsPSDD, IsBFPSDD, Weighted, Sound
<1>3. /\ {best, bound, lowest} \subseteq Nat /\ Infinity \in Nat \ {0} /\ Start \in States
      /\ H[Start] \in Nat
  BY SpaceAssumption DEF IInv, TypeOK
<1>4. best = Infinity
  BY <1>1, <1>2, <1>3 DEF PSDDBounds
<1>5. Met
  BY <1>1, <1>2, EndedFound DEF Sound
<1>6. \A t \in Threads : pc[t] # "path"
  BY <1>1 DEF AllEnded
<1>7. bound < LeastCost /\ lowest <= LeastCost
  BY <1>2, <1>4, <1>5, <1>6 DEF Met
<1>8. H[Start] <= bound
  <2>1. g[Start] = 0 /\ Start \in Made
    BY <1>3 DEF Sound, RealCosts, Made
  <2>2. g[Start] + H[Start] <= bound
    BY <1>2, <2>1 DEF PSDDBounds
  <2>3. QED
    BY <1>3, <2>1, <2>2
<1>9. H[Start] <= lowest
  BY <1>1, <1>2, <1>3, <1>8 DEF PSDDBounds
<1>10. IsPSDD' = IsPSDD /\ IsBFPSDD' = IsBFPSDD /\ LeastCost' = LeastCost
  BY <1>1 DEF IsPSDD, IsBFPSDD, LeastCost
<1>11. QED
  BY <1>1, <1>2, <1>7, <1>9, <1>10 DEF StartBounds

\* The next iteration of IDPSDD is sound as well.
LEMMA IterateSound == IInv /\ Solvable /\ Sound /\ Iterate => Sound'
<1>1. Solvable => Solvable'
  BY DEF Solvable, Admissible, GoalEdgesAreShortest, LeastCost
<1>2. QED
  BY <1>1, FreshSound, IterateFresh, IterateBounds, PTL

\* Every step keeps the costs and the bounds.
LEMMA NextSound ==
  ASSUME NoBlockAlone, CostsFit, Solvable, IInv, Sound, [Next]_vars
  PROVE  Sound'
<1>1. IInv'
  BY NextInv
<1>2. ASSUME NEW t \in Threads, PSDDStep(t) PROVE Sound'
  <2>1. IsPSDD
    BY <1>2 DEF PSDDStep
  <2>2. CASE NextBlock(t) \/ Woken(t)
    BY <1>1, <2>1, <2>2, NextBlockMoves, MovedSound
  <2>3. CASE Take(t)
    BY <2>1, <2>3, TakeSound
  <2>4. CASE Child(t)
    BY <2>1, <2>4, PSDDChildSound
  <2>5. CASE SetPath(t) \/ SetPathFound(t) \/ Test(t)
    BY <1>1, <2>1, <2>5, PSDDTalkSound
  <2>6. QED
    BY <1>2, <2>2, <2>3, <2>4, <2>5 DEF PSDDStep
<1>3. ASSUME NEW t \in Threads, BFPSDDStep(t) PROVE Sound'
  <2>1. IsBFPSDD
    BY <1>3 DEF BFPSDDStep
  <2>2. CASE NextFree(t) \/ WokenFree(t)
    BY <1>1, <2>1, <2>2, NextFreeMoves, MovedSound
  <2>3. CASE LeaveBlock(t) \/ PruneBlock(t) \/ TakeBest(t)
    BY <2>1, <2>3, BFPSDDTakeSound
  <2>4. CASE HandleChild(t)
    BY <2>1, <2>4, BFPSDDChildSound
  <2>5. CASE SeePath(t) \/ LowerBound(t) \/ Again(t) \/ Finish(t)
    BY <1>1, <2>1, <2>5, BFPSDDTalkSound
  <2>6. QED
    BY <1>3, <2>2, <2>3, <2>4, <2>5 DEF BFPSDDStep
<1>4. CASE Iterate
  BY <1>4, IterateSound
<1>5. CASE UNCHANGED vars
  <2>1. UNCHANGED <<job, pc, blk, cur, todo, exp, open, g, graph, best, bound, lowest, done>>
    BY <1>5 DEF vars
  <2>2. /\ IsPSDD' = IsPSDD /\ IsBFPSDD' = IsBFPSDD /\ Weighted' = Weighted
        /\ Made' = Made /\ Limit' = Limit /\ LeastCost' = LeastCost
    BY <2>1 DEF IsPSDD, IsBFPSDD, Weighted, Made, Limit, LeastCost
  <2>3. Met' = Met
    BY <2>1, <2>2 DEF Met
  <2>4. NothingForgotten'
    BY <2>1, <2>3, QuietForgets DEF Sound
  <2>5. RealCosts' /\ (IsPSDD => PSDDBounds') /\ (IsBFPSDD => BFPSDDBounds')
    BY <2>1, <2>2 DEF Sound, RealCosts, PSDDBounds, BFPSDDBounds
  <2>6. QED
    BY <2>1, <2>2, <2>3, <2>4, <2>5 DEF Sound
<1>6. QED
  BY <1>2, <1>3, <1>4, <1>5 DEF Next

\* What the search has when it ends.
LEMMA SoundEnds ==
  ASSUME IInv, Solvable, Sound
  PROVE  WithinBound
<1> SUFFICES ASSUME AllEnded, ~Continued
             PROVE  /\ CostToGo[Start] <= best /\ best < Infinity
                    /\ job.algo = "idpsdd" => best = CostToGo[Start]
                    /\ job.algo = "dynamic" => best <= bound
                    /\ job.algo = "bfpsdd" => best <= job.weight * CostToGo[Start]
  BY DEF WithinBound
<1>1. /\ {best, bound, lowest} \subseteq Nat /\ LeastCost \in Nat /\ Infinity \in Nat
      /\ Limit \in Nat /\ Limit < Infinity /\ LeastCost <= best /\ best <= Infinity
      /\ LeastCost = CostToGo[Start] /\ Limit = job.weight * CostToGo[Start]
  BY LimitType DEF IInv, TypeOK, Sound, RealCosts, LeastCost, Limit
<1>2. \A t \in Threads : pc[t] # "path"
  BY DEF AllEnded
<1>3. IsPSDD \/ IsBFPSDD
  BY JobsAssumption DEF IInv, TypeOK, IsPSDD, IsBFPSDD, Algorithms
<1>4. Met
  <2>1. CASE IsPSDD
    BY <2>1, EndedFound DEF Sound
  <2>2. CASE IsBFPSDD
    <3>1. 1 \in Threads /\ pc[1] = "end"
      BY LayersAssumption DEF Threads, AllEnded
    <3>2. QED
      BY <2>2, <3>1 DEF Sound, BFPSDDBounds
  <2>3. QED
    BY <1>3, <2>1, <2>2
<1>5. CASE IsPSDD
  <2>1. PSDDBounds /\ ~IsBFPSDD /\ job.algo # "bfpsdd"
    BY <1>5 DEF Sound, IsPSDD, IsBFPSDD
  <2>2. best # Infinity
    <3>1. CASE job.algo = "idpsdd"
      <4>1. lowest # 0
        BY <1>1, <2>1, <3>1 DEF PSDDBounds
      <4>2. QED
        BY <3>1, <4>1 DEF Continued
    <3>2. CASE job.algo # "idpsdd"
      <4>1. LeastCost <= bound
        BY <2>1, <3>2 DEF PSDDBounds
      <4>2. ~(bound < LeastCost)
        BY <1>1, <4>1
      <4>3. QED
        BY <1>2, <1>4, <2>1, <4>2 DEF Met
    <3>3. QED
      BY <3>1, <3>2
  <2>3. best <= bound
    BY <2>1, <2>2 DEF PSDDBounds
  <2>4. job.algo = "idpsdd" => best = LeastCost
    BY <1>1, <2>1, <2>3 DEF PSDDBounds
  <2>5. best < Infinity
    BY <1>1, <2>2
  <2>6. QED
    BY <1>1, <2>1, <2>3, <2>4, <2>5
<1>6. CASE IsBFPSDD
  <2>1. job.algo \notin {"idpsdd", "dynamic"} /\ ~IsPSDD
    BY <1>6 DEF IsPSDD, IsBFPSDD
  <2>2. CASE Weighted
    <3>1. best # Infinity /\ job.algo # "bfpsdd"
      BY <1>2, <1>4, <2>1, <2>2 DEF Met, Weighted
    <3>2. best < Infinity
      BY <1>1, <3>1
    <3>3. QED
      BY <1>1, <2>1, <3>1, <3>2
  <2>3. CASE ~Weighted
    <3>1. best <= Limit
      BY <1>2, <1>4, <1>6, <2>3 DEF Met
    <3>2. best < Infinity
      BY <1>1, <3>1
    <3>3. QED
      BY <1>1, <2>1, <3>1, <3>2
  <2>4. QED
    BY <2>2, <2>3
<1>7. QED
  BY <1>3, <1>5, <1>6

\* What is promised is kept, however the threads interleave: where there is a
\* solution and the last edge to a goal is a cheapest one, every search ends
\* with a path, IDPSDD with a cheapest one, DynamicBoundedPSDD within the bound
\* of its first search and BFPSDD within its weight.
THEOREM EndsWithinBound ==
  ASSUME NoBlockAlone, CostsFit, Solvable
  PROVE  Spec => []WithinBound
<1>1. Init => IInv /\ Sound
  BY InitFresh, FreshInv, InitSound
<1>2. IInv /\ Sound /\ [Next]_vars => IInv' /\ Sound'
  BY NextInv, NextSound
<1>3. IInv /\ Sound => WithinBound
  BY SoundEnds
<1>4. QED
  BY <1>1, <1>2, <1>3, PTL DEF Spec
=============================================================================
