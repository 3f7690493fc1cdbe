--------------------------- MODULE NBlockGraphProofs ---------------------------
(***************************************************************************)
(* Proofs about NBlockGraph for any number of threads and any projection.  *)
(*                                                                         *)
(* The inductive invariant IInv relates the counters to the sets they      *)
(* count, the heap to the free blocks, the owners to the blocks in use and *)
(* the sleepers to the heap.  Each part is preserved by every step; the    *)
(* properties of NBlockGraph are consequences.                             *)
(***************************************************************************)
EXTENDS NBlockGraph, FiniteSetTheorems, TLAPS

(***************************************************************************)
(* The interference sets                                                   *)
(***************************************************************************)

\* Who interferes with b: another block with an edge from or to b, or with
\* an edge to a common successor.
LEMMA InterferesMember ==
  ASSUME NEW a \in NBlocks, NEW b \in NBlocks
  PROVE  a \in Interferes[b] <=>
           /\ a # b
           /\ \/ b \in Succs[a]
              \/ a \in Succs[b]
              \/ \E s \in NBlocks : s \in Succs[a] /\ s \in Succs[b]
<1>1. Interferes[b] =
        (Preds[b] \cup Succs[b] \cup UNION {Preds[s] : s \in Succs[b]}) \ {b}
  BY DEF Interferes
<1>2. \A x \in NBlocks : a \in Preds[x] <=> x \in Succs[a]
  BY DEF Preds
<1>3. Succs[b] \subseteq NBlocks
  BY ConstantsAssumption
<1>4. a \in UNION {Preds[s] : s \in Succs[b]}
        <=> \E s \in NBlocks : s \in Succs[a] /\ s \in Succs[b]
  BY <1>2, <1>3
<1>5. QED
  BY <1>1, <1>2, <1>4

\* Interferes maps each block to other blocks.
LEMMA InterferesType ==
  ASSUME NEW b \in NBlocks
  PROVE  Interferes[b] \subseteq NBlocks /\ b \notin Interferes[b]
BY ConstantsAssumption DEF Interferes, Preds

\* Interference is symmetric: the code relies on it when the release of a
\* block updates the counters of exactly the blocks its acquisition did.
LEMMA InterferesSymmetric ==
  ASSUME NEW a \in NBlocks, NEW b \in NBlocks
  PROVE  a \in Interferes[b] <=> b \in Interferes[a]
BY InterferesMember

\* Blocks that do not interfere have disjoint scopes.
LEMMA ScopesOfStrangers ==
  ASSUME NEW a \in NBlocks, NEW b \in NBlocks, a # b, a \notin Interferes[b]
  PROVE  Scope(a) \cap Scope(b) = {}
BY InterferesMember, ConstantsAssumption DEF Scope

\* What a thread touches while it owns b is b or interferes with b.
LEMMA ScopeInterferes ==
  ASSUME NEW b \in NBlocks
  PROVE  Scope(b) \subseteq {b} \cup Interferes[b]
BY InterferesMember, ConstantsAssumption DEF Scope

(***************************************************************************)
(* Counting                                                                *)
(***************************************************************************)

\* The parts of an interference set are finite, so their sizes are numbers.
LEMMA CountType ==
  ASSUME NEW b \in NBlocks, NEW S
  PROVE  /\ IsFiniteSet(Interferes[b] \cap S)
         /\ Cardinality(Interferes[b] \cap S) \in Nat
<1>1. IsFiniteSet(Interferes[b])
  BY InterferesType, FS_Subset, ConstantsAssumption
<1>2. IsFiniteSet(Interferes[b] \cap S)
  BY <1>1, FS_Intersection
<1>3. QED
  BY <1>2, FS_CardinalityType

\* A count is zero exactly when nothing is counted.
LEMMA CountZero ==
  ASSUME NEW b \in NBlocks, NEW S
  PROVE  Cardinality(Interferes[b] \cap S) = 0 <=> Interferes[b] \cap S = {}
BY CountType, FS_EmptySet

\* A block that joins S is counted by the blocks it interferes with.
LEMMA CountAdd ==
  ASSUME NEW b \in NBlocks, NEW S, NEW n \in NBlocks, n \notin S
  PROVE  Cardinality(Interferes[b] \cap (S \cup {n})) =
           IF b \in Interferes[n] THEN Cardinality(Interferes[b] \cap S) + 1
                                  ELSE Cardinality(Interferes[b] \cap S)
<1>1. CASE b \in Interferes[n]
  <2>1. n \in Interferes[b]
    BY <1>1, InterferesSymmetric
  <2>2. Interferes[b] \cap (S \cup {n}) = (Interferes[b] \cap S) \cup {n}
    BY <2>1
  <2>3. QED
    BY <1>1, <2>2, CountType, FS_AddElement
<1>2. CASE b \notin Interferes[n]
  <2>1. n \notin Interferes[b]
    BY <1>2, InterferesSymmetric
  <2>2. Interferes[b] \cap (S \cup {n}) = Interferes[b] \cap S
    BY <2>1
  <2>3. QED
    BY <1>2, <2>2
<1>3. QED
  BY <1>1, <1>2

\* A block that leaves S is no longer counted.
LEMMA CountRemove ==
  ASSUME NEW b \in NBlocks, NEW S, NEW n \in NBlocks, n \in S
  PROVE  Cardinality(Interferes[b] \cap (S \ {n})) =
           IF b \in Interferes[n] THEN Cardinality(Interferes[b] \cap S) - 1
                                  ELSE Cardinality(Interferes[b] \cap S)
<1>1. CASE b \in Interferes[n]
  <2>1. n \in Interferes[b]
    BY <1>1, InterferesSymmetric
  <2>2. Interferes[b] \cap (S \ {n}) = (Interferes[b] \cap S) \ {n}
    OBVIOUS
  <2>3. n \in Interferes[b] \cap S
    BY <2>1
  <2>4. \A T : IsFiniteSet(T) /\ n \in T => Cardinality(T \ {n}) = Cardinality(T) - 1
    BY FS_RemoveElement
  <2>5. Cardinality((Interferes[b] \cap S) \ {n}) = Cardinality(Interferes[b] \cap S) - 1
    BY <2>3, <2>4, CountType
  <2>6. QED
    BY <1>1, <2>2, <2>5
<1>2. CASE b \notin Interferes[n]
  <2>1. n \notin Interferes[b]
    BY <1>2, InterferesSymmetric
  <2>2. Interferes[b] \cap (S \ {n}) = Interferes[b] \cap S
    BY <2>1
  <2>3. QED
    BY <1>2, <2>2
<1>3. QED
  BY <1>1, <1>2

\* Setting the blocks of C cold subtracts what they contributed.
LEMMA CountDifference ==
  ASSUME NEW b \in NBlocks, NEW S, NEW C \in SUBSET S
  PROVE  Cardinality(Interferes[b] \cap (S \ C)) =
           Cardinality(Interferes[b] \cap S) - Cardinality(Interferes[b] \cap C)
<1>1. Interferes[b] \cap (S \ C) = (Interferes[b] \cap S) \ C
  OBVIOUS
<1>2. (Interferes[b] \cap S) \cap C = Interferes[b] \cap C
  OBVIOUS
<1>3. QED
  BY <1>1, <1>2, CountType, FS_Difference

-----------------------------------------------------------------------------
(***************************************************************************)
(* The counters and the heap, whatever the threads do                      *)
(*                                                                         *)
(* What the four operations on the graph do to the counters and the heap   *)
(* is the same in all searches that use it: Core holds what the lemmas of  *)
(* this section need of a state, and is preserved by each operation.       *)
(***************************************************************************)

SigmasExact ==
  \A b \in NBlocks : /\ sigma[b] = Cardinality(Interferes[b] \cap inuse)
                     /\ sigma_hot[b] = Cardinality(Interferes[b] \cap hot)

CoreTypes ==
  /\ inuse \subseteq NBlocks /\ hot \subseteq NBlocks /\ free_list \subseteq NBlocks
  /\ sigma \in [NBlocks -> Nat] /\ sigma_hot \in [NBlocks -> Nat]
  /\ best \in [NBlocks -> F] /\ bound \in F

Core ==
  CoreTypes /\ SigmasExact /\ Exclusion /\ FreeListExact /\ HotIsTemporary

\* Multiplication keeps the order.
LEMMA TimesMonotone ==
  ASSUME NEW c \in Nat, NEW x \in Nat, NEW y \in Nat, x <= y
  PROVE  x * c <= y * c /\ x * c \in Nat /\ y * c \in Nat
<1>1. y - x \in Nat /\ y = x + (y - x)
  OBVIOUS
<1>2. (y - x) * c \in Nat /\ y * c = x * c + (y - x) * c
  BY <1>1
<1>3. QED
  BY <1>2

\* A block that cannot improve on the incumbent cannot later, unless
\* somebody works on it.
LEMMA HopelessStays ==
  ASSUME CoreTypes, NEW b \in NBlocks, Hopeless(b), best'[b] = best[b],
         bound' \in F, bound' <= bound
  PROVE  Hopeless(b)'
<1>1. /\ bound \in Nat /\ bound' \in Nat /\ best[b] \in Nat /\ Weight \in Nat
  BY ConstantsAssumption DEF CoreTypes, F
<1>2. /\ bound' * Weight <= bound * Weight
      /\ bound' * Weight \in Nat /\ bound * Weight \in Nat
  BY <1>1, TimesMonotone
<1>3. QED
  BY <1>1, <1>2 DEF Hopeless

\* What owners do to the lists of their scopes concerns no free block.
LEMMA WorkCore ==
  ASSUME Core, UNCHANGED <<inuse, sigma, hot, sigma_hot, free_list>>,
         best' \in [NBlocks -> F], bound' \in F, bound' <= bound,
         \A b \in NBlocks : best'[b] # best[b] => \E n \in inuse : b \in Scope(n)
  PROVE  Core'
<1> USE DEF Core
<1>1. ASSUME NEW b \in NBlocks, best'[b] # best[b]
      PROVE  ~IsFree(b) /\ ~IsFree(b)'
  <2>1. PICK n \in inuse : b \in Scope(n)
    BY <1>1
  <2>2. n \in NBlocks
    BY DEF CoreTypes
  <2>3. b = n \/ b \in Interferes[n]
    BY <2>1, <2>2, ScopeInterferes
  <2>4. b \in Interferes[n] => sigma[b] # 0
    BY <2>2, InterferesSymmetric, CountZero DEF SigmasExact
  <2>5. QED
    BY <2>3, <2>4 DEF IsFree
<1>2. ASSUME NEW b \in NBlocks
      PROVE  /\ b \in free_list' => IsFree(b)'
             /\ IsFree(b)' /\ b \notin free_list' => Hopeless(b)'
  <2>1. CASE best'[b] # best[b]
    BY <1>1, <2>1 DEF FreeListExact
  <2>2. CASE best'[b] = best[b]
    BY <2>2, HopelessStays DEF FreeListExact, IsFree, Empty
  <2>3. QED
    BY <2>1, <2>2
<1>3. FreeListExact'
  BY <1>2 DEF FreeListExact
<1>4. CoreTypes' /\ SigmasExact' /\ Exclusion' /\ HotIsTemporary'
  BY DEF CoreTypes, SigmasExact, Exclusion, HotIsTemporary
<1>5. QED
  BY <1>3, <1>4

\* Nothing that is in use or hot interferes with a block on the heap.
LEMMA FreeFacts ==
  ASSUME Core, NEW n \in free_list
  PROVE  /\ n \in NBlocks /\ n \notin inuse /\ ~Empty(n)
         /\ sigma[n] = 0 /\ Interferes[n] \cap inuse = {}
         /\ sigma_hot[n] = 0 /\ Interferes[n] \cap hot = {}
<1>1. n \in NBlocks /\ IsFree(n)
  BY DEF Core, CoreTypes, FreeListExact
<1>2. QED
  BY <1>1, CountZero DEF IsFree, Core, SigmasExact

\* Acquiring a block: the counters count it, and what it interferes with is
\* not on the heap any more.
LEMMA TakeCore ==
  ASSUME Core, NEW n \in free_list,
         inuse' = inuse \cup {n}, sigma' = ScopeSigmas(n, 1),
         free_list' = free_list \ Unavailable(n),
         UNCHANGED <<hot, sigma_hot, best, bound>>
  PROVE  Core'
<1> USE DEF Core
<1>1. /\ n \in NBlocks /\ n \notin inuse
      /\ Interferes[n] \cap inuse = {} /\ Interferes[n] \cap hot = {}
  BY FreeFacts
<1>2. CoreTypes'
  BY <1>1 DEF CoreTypes, ScopeSigmas
<1>3. SigmasExact'
  <2> SUFFICES ASSUME NEW b \in NBlocks
               PROVE  /\ sigma'[b] = Cardinality(Interferes[b] \cap inuse')
                      /\ sigma_hot'[b] = Cardinality(Interferes[b] \cap hot')
    BY DEF SigmasExact
  <2>1. sigma'[b] = IF b \in Interferes[n] THEN sigma[b] + 1 ELSE sigma[b]
    BY DEF ScopeSigmas, CoreTypes
  <2>2. sigma[b] = Cardinality(Interferes[b] \cap inuse)
    BY DEF SigmasExact
  <2>3. QED
    BY <1>1, <2>1, <2>2, CountAdd DEF SigmasExact
<1>4. Exclusion'
  <2>1. \A a \in inuse : a \notin Interferes[n] /\ n \notin Interferes[a]
    BY <1>1, InterferesSymmetric DEF CoreTypes
  <2>2. QED
    BY <1>1, <2>1, InterferesType DEF Exclusion
<1>5. FreeListExact'
  <2> SUFFICES ASSUME NEW b \in NBlocks
               PROVE  /\ b \in free_list' => IsFree(b)'
                      /\ IsFree(b)' /\ b \notin free_list' => Hopeless(b)'
    BY DEF FreeListExact
  <2>1. CASE b = n \/ b \in Interferes[n]
    <3>1. b \notin free_list'
      BY <2>1 DEF Unavailable, FreeListExact
    <3>2. ~IsFree(b)'
      BY <2>1 DEF IsFree, ScopeSigmas, CoreTypes
    <3>3. QED
      BY <3>1, <3>2
  <2>2. CASE b # n /\ b \notin Interferes[n]
    <3>1. IsFree(b)' <=> IsFree(b)
      BY <2>2 DEF IsFree, ScopeSigmas, Empty
    <3>2. b \in free_list' <=> b \in free_list
      BY <2>2 DEF Unavailable
    <3>3. QED
      BY <3>1, <3>2 DEF FreeListExact, Hopeless
  <2>3. QED
    BY <2>1, <2>2
<1>6. HotIsTemporary'
  BY DEF HotIsTemporary, ScopeSigmas, CoreTypes
<1>7. QED
  BY <1>2, <1>3, <1>4, <1>5, <1>6

\* After set_cold on the blocks of C, sigma_hot counts the others.
LEMMA CooledCount ==
  ASSUME SigmasExact, NEW C \in SUBSET hot, NEW b \in NBlocks
  PROVE  /\ CooledSigmaHot(C)[b] = Cardinality(Interferes[b] \cap (hot \ C))
         /\ CooledSigmaHot(C)[b] \in Nat
<1>1. CooledSigmaHot(C)[b] =
        Cardinality(Interferes[b] \cap hot) - Cardinality(Interferes[b] \cap C)
  BY DEF CooledSigmaHot, SigmasExact
<1>2. Cardinality(Interferes[b] \cap (hot \ C)) =
        Cardinality(Interferes[b] \cap hot) - Cardinality(Interferes[b] \cap C)
  BY CountDifference
<1>3. QED
  BY <1>1, <1>2, CountType

\* set_cold does not concern the blocks it does not look at.
LEMMA CooledUntouched ==
  ASSUME CoreTypes, NEW C \in SUBSET hot,
         NEW b \in NBlocks, b \notin AllInterferers(C)
  PROVE  CooledSigmaHot(C)[b] = sigma_hot[b]
<1>1. \A c \in C : b \notin Interferes[c]
  BY DEF AllInterferers
<1>2. Interferes[b] \cap C = {}
  BY <1>1, InterferesSymmetric DEF CoreTypes
<1>3. Cardinality(Interferes[b] \cap C) = 0
  BY <1>2, CountZero
<1>4. QED
  BY <1>3 DEF CooledSigmaHot, CoreTypes

\* A free block stays unaffected by set_cold: nothing hot is near it.
LEMMA CooledFree ==
  ASSUME SigmasExact, NEW C \in SUBSET hot, NEW b \in NBlocks, sigma_hot[b] = 0
  PROVE  CooledSigmaHot(C)[b] = 0
<1>1. Interferes[b] \cap hot = {}
  BY CountZero DEF SigmasExact
<1>2. Interferes[b] \cap (hot \ C) = {}
  BY <1>1
<1>3. QED
  BY <1>2, CooledCount, CountZero

\* The blocks set_cold looks at are blocks.
LEMMA AllInterferersType ==
  ASSUME NEW C \in SUBSET NBlocks
  PROVE  AllInterferers(C) \subseteq NBlocks
BY InterferesType DEF AllInterferers

\* Setting the blocks of C cold: wont_release does nothing else.
LEMMA CoolCore ==
  ASSUME Core, NEW C \in SUBSET hot,
         hot' = hot \ C, sigma_hot' = CooledSigmaHot(C),
         free_list' = free_list \cup Freed(AllInterferers(C)),
         UNCHANGED <<inuse, sigma, best, bound>>
  PROVE  Core'
<1> USE DEF Core
<1>1. AllInterferers(C) \subseteq NBlocks
  BY AllInterferersType DEF CoreTypes
<1>2. \A b \in NBlocks : /\ sigma_hot'[b] = Cardinality(Interferes[b] \cap hot')
                         /\ sigma_hot'[b] \in Nat
  BY CooledCount
<1>3. SigmasExact'
  BY <1>2 DEF SigmasExact
<1>4. CoreTypes'
  <2>1. sigma_hot' \in [NBlocks -> Nat]
    BY <1>2 DEF CooledSigmaHot
  <2>2. QED
    BY <1>1, <2>1 DEF CoreTypes, Freed
<1>5. FreeListExact'
  <2> SUFFICES ASSUME NEW b \in NBlocks
               PROVE  /\ b \in free_list' => IsFree(b)'
                      /\ IsFree(b)' /\ b \notin free_list' => Hopeless(b)'
    BY DEF FreeListExact
  <2>1. b \in free_list => IsFree(b)'
    BY CooledFree DEF FreeListExact, IsFree, Empty
  <2>2. CASE b \in AllInterferers(C)
    BY <2>1, <2>2 DEF Freed
  <2>3. CASE b \notin AllInterferers(C)
    <3>1. sigma_hot'[b] = sigma_hot[b]
      BY <2>3, CooledUntouched
    <3>2. IsFree(b)' <=> IsFree(b)
      BY <3>1 DEF IsFree, Empty
    <3>3. b \in free_list' <=> b \in free_list
      BY <2>3 DEF Freed
    <3>4. QED
      BY <3>2, <3>3 DEF FreeListExact, Hopeless
  <2>4. QED
    BY <2>2, <2>3
<1>6. Exclusion' /\ HotIsTemporary'
  BY DEF Exclusion, HotIsTemporary
<1>7. QED
  BY <1>3, <1>4, <1>5, <1>6

\* Making a block hot: the hot blocks that it interferes with become cold.
LEMMA HeatCore ==
  ASSUME Core, NEW b \in NBlocks, NEW C, C = Interferes[b] \cap hot,
         b \notin hot, sigma[b] > 0,
         hot' = (hot \ C) \cup {b},
         sigma_hot' = [m \in NBlocks |-> IF m \in Interferes[b]
                                         THEN CooledSigmaHot(C)[m] + 1
                                         ELSE CooledSigmaHot(C)[m]],
         free_list' = (free_list \ {m \in Interferes[b] : IsFree(m)})
                        \cup Freed(AllInterferers(C)),
         UNCHANGED <<inuse, sigma, best, bound>>
  PROVE  Core'
<1> USE DEF Core
<1>1. C \in SUBSET hot /\ C \in SUBSET NBlocks
  BY DEF CoreTypes
<1>2. AllInterferers(C) \subseteq NBlocks /\ Interferes[b] \subseteq NBlocks
  BY <1>1, AllInterferersType, InterferesType
<1>3. ASSUME NEW x \in NBlocks
      PROVE  /\ sigma_hot'[x] = Cardinality(Interferes[x] \cap hot')
             /\ sigma_hot'[x] \in Nat
  <2>1. CooledSigmaHot(C)[x] = Cardinality(Interferes[x] \cap (hot \ C))
    BY <1>1, CooledCount
  <2>2. b \notin hot \ C
    OBVIOUS
  <2>3. Cardinality(Interferes[x] \cap hot') =
          IF x \in Interferes[b] THEN CooledSigmaHot(C)[x] + 1
                                 ELSE CooledSigmaHot(C)[x]
    BY <2>1, <2>2, CountAdd
  <2>4. QED
    BY <2>3, CountType
<1>4. SigmasExact'
  BY <1>3 DEF SigmasExact
<1>5. CoreTypes'
  <2>1. sigma_hot' \in [NBlocks -> Nat]
    BY <1>3
  <2>2. QED
    BY <1>2, <2>1 DEF CoreTypes, Freed
<1>6. HotIsTemporary'
  <2> SUFFICES ASSUME NEW h \in hot'
               PROVE  sigma'[h] > 0 /\ Interferes[h] \cap hot' = {}
    BY DEF HotIsTemporary
  <2>1. CASE h = b
    BY <2>1, InterferesType
  <2>2. CASE h \in hot \ C
    <3>1. sigma[h] > 0 /\ Interferes[h] \cap hot = {}
      BY <2>2 DEF HotIsTemporary
    <3>2. b \notin Interferes[h]
      BY <2>2, InterferesSymmetric DEF CoreTypes
    <3>3. QED
      BY <3>1, <3>2
  <2>3. QED
    BY <2>1, <2>2
<1>7. FreeListExact'
  <2> SUFFICES ASSUME NEW x \in NBlocks
               PROVE  /\ x \in free_list' => IsFree(x)'
                      /\ IsFree(x)' /\ x \notin free_list' => Hopeless(x)'
    BY DEF FreeListExact
  <2>1. CASE x \in Interferes[b]
    <3>1. CooledSigmaHot(C)[x] \in Nat
      BY <1>1, CooledCount
    <3>2. sigma_hot'[x] # 0
      BY <2>1, <3>1
    <3>3. ~IsFree(x)'
      BY <3>2 DEF IsFree
    <3>4. x \notin free_list'
      BY <2>1, <3>3 DEF Freed, FreeListExact
    <3>5. QED
      BY <3>3, <3>4
  <2>2. CASE x \notin Interferes[b] /\ x \in AllInterferers(C)
    <3>1. sigma_hot'[x] = CooledSigmaHot(C)[x]
      BY <2>2
    <3>2. x \in free_list => IsFree(x)'
      BY <1>1, <3>1, CooledFree DEF FreeListExact, IsFree, Empty
    <3>3. QED
      BY <2>2, <3>2 DEF Freed
  <2>3. CASE x \notin Interferes[b] /\ x \notin AllInterferers(C)
    <3>1. sigma_hot'[x] = sigma_hot[x]
      BY <1>1, <2>3, CooledUntouched
    <3>2. IsFree(x)' <=> IsFree(x)
      BY <3>1 DEF IsFree, Empty
    <3>3. x \in free_list' <=> x \in free_list
      BY <2>3 DEF Freed
    <3>4. QED
      BY <3>2, <3>3 DEF FreeListExact, Hopeless
  <2>4. QED
    BY <2>1, <2>2, <2>3
<1>8. Exclusion'
  BY DEF Exclusion
<1>9. QED
  BY <1>4, <1>5, <1>6, <1>7, <1>8

\* Everything a block in use interferes with has a count.
LEMMA CountedNearby ==
  ASSUME Core, NEW n \in inuse, NEW b \in Interferes[n]
  PROVE  b \in NBlocks /\ sigma[b] # 0
<1>1. n \in NBlocks /\ b \in NBlocks
  BY InterferesType DEF Core, CoreTypes
<1>2. n \in Interferes[b] \cap inuse
  BY <1>1, InterferesSymmetric
<1>3. QED
  BY <1>1, <1>2, CountZero DEF Core, SigmasExact

\* Giving a block back: Z are the blocks that it was the last to block, and
\* the hot ones among them, C, become cold.
LEMMA ReleaseCore ==
  ASSUME Core, NEW n \in inuse,
         NEW Z, Z = {m \in Interferes[n] : sigma[m] = 1}, NEW C, C = Z \cap hot,
         inuse' = inuse \ {n}, sigma' = ScopeSigmas(n, -1),
         hot' = hot \ C, sigma_hot' = CooledSigmaHot(C),
         free_list' = free_list \cup Freed({n} \cup Z \cup AllInterferers(C)),
         UNCHANGED <<best, bound>>
  PROVE  Core'
<1> USE DEF Core
<1>1. /\ n \in NBlocks /\ Z \subseteq NBlocks
      /\ C \in SUBSET hot /\ C \in SUBSET NBlocks
      /\ AllInterferers(C) \subseteq NBlocks
  BY InterferesType, AllInterferersType DEF CoreTypes
<1>2. ASSUME NEW b \in NBlocks
      PROVE  sigma'[b] = Cardinality(Interferes[b] \cap inuse') /\ sigma'[b] \in Nat
  <2>1. sigma'[b] = IF b \in Interferes[n] THEN sigma[b] - 1 ELSE sigma[b]
    BY DEF ScopeSigmas, CoreTypes
  <2>2. sigma[b] = Cardinality(Interferes[b] \cap inuse)
    BY DEF SigmasExact
  <2>3. sigma'[b] = Cardinality(Interferes[b] \cap inuse')
    BY <1>1, <2>1, <2>2, CountRemove
  <2>4. QED
    BY <2>3, CountType
<1>3. ASSUME NEW b \in NBlocks
      PROVE  /\ sigma_hot'[b] = Cardinality(Interferes[b] \cap hot')
             /\ sigma_hot'[b] \in Nat
  BY <1>1, CooledCount
<1>4. SigmasExact'
  BY <1>2, <1>3 DEF SigmasExact
<1>5. CoreTypes'
  <2>1. sigma' \in [NBlocks -> Nat]
    BY <1>2 DEF ScopeSigmas
  <2>2. sigma_hot' \in [NBlocks -> Nat]
    BY <1>3 DEF CooledSigmaHot
  <2>3. QED
    BY <1>1, <2>1, <2>2 DEF CoreTypes, Freed
<1>6. FreeListExact'
  <2> SUFFICES ASSUME NEW b \in NBlocks
               PROVE  /\ b \in free_list' => IsFree(b)'
                      /\ IsFree(b)' /\ b \notin free_list' => Hopeless(b)'
    BY DEF FreeListExact
  <2>1. b \in free_list => IsFree(b)'
    <3> SUFFICES ASSUME b \in free_list
                 PROVE  IsFree(b)'
      OBVIOUS
    <3>1. IsFree(b)
      BY DEF FreeListExact
    <3>2. b \notin Interferes[n]
      BY <3>1, CountedNearby DEF IsFree
    <3>3. sigma'[b] = sigma[b]
      BY <3>2 DEF ScopeSigmas
    <3>4. sigma_hot'[b] = 0
      BY <1>1, <3>1, CooledFree DEF IsFree
    <3>5. QED
      BY <3>1, <3>3, <3>4 DEF IsFree, Empty
  <2>2. CASE b \in {n} \cup Z \cup AllInterferers(C)
    BY <2>1, <2>2 DEF Freed
  <2>3. CASE b \notin {n} \cup Z \cup AllInterferers(C)
    <3>1. sigma_hot'[b] = sigma_hot[b]
      BY <1>1, <2>3, CooledUntouched
    <3>2. IsFree(b)' => sigma[b] = 0
      BY <2>3 DEF IsFree, ScopeSigmas, CoreTypes
    <3>3. IsFree(b)' => IsFree(b)
      BY <2>3, <3>1, <3>2 DEF IsFree, Empty
    <3>4. b \in free_list' <=> b \in free_list
      BY <2>3 DEF Freed
    <3>5. QED
      BY <2>1, <3>3, <3>4 DEF FreeListExact, Hopeless
  <2>4. QED
    BY <2>2, <2>3
<1>7. HotIsTemporary'
  <2> SUFFICES ASSUME NEW h \in hot'
               PROVE  sigma'[h] > 0 /\ Interferes[h] \cap hot' = {}
    BY DEF HotIsTemporary
  <2>1. h \in hot /\ h \notin C /\ h \in NBlocks
    BY DEF CoreTypes
  <2>2. sigma[h] > 0 /\ Interferes[h] \cap hot = {}
    BY <2>1 DEF HotIsTemporary
  <2>3. h \in Interferes[n] => sigma[h] # 1
    BY <2>1
  <2>4. sigma'[h] > 0
    BY <2>1, <2>2, <2>3 DEF ScopeSigmas, CoreTypes
  <2>5. QED
    BY <2>2, <2>4
<1>8. Exclusion'
  BY DEF Exclusion
<1>9. QED
  BY <1>4, <1>5, <1>6, <1>7, <1>8

\* When no block is counted none is in use, unless one interferes with no
\* other, and none is hot.
LEMMA NothingUsed ==
  ASSUME Core, NoIsolatedBlock, \A b \in NBlocks : sigma[b] = 0
  PROVE  /\ inuse = {} /\ hot = {}
         /\ \A b \in NBlocks : IsFree(b) <=> ~Empty(b)
<1> USE DEF Core
<1>1. inuse = {}
  <2> SUFFICES ASSUME NEW n \in inuse
               PROVE  FALSE
    OBVIOUS
  <2>1. PICK b \in Interferes[n] : TRUE
    BY DEF NoIsolatedBlock, CoreTypes
  <2>2. QED
    BY <2>1, CountedNearby
<1>2. hot = {}
  BY DEF HotIsTemporary, CoreTypes
<1>3. ASSUME NEW b \in NBlocks PROVE sigma_hot[b] = 0
  <2>1. Interferes[b] \cap hot = {}
    BY <1>2
  <2>2. QED
    BY <2>1, FS_EmptySet DEF SigmasExact
<1>4. QED
  BY <1>1, <1>2, <1>3 DEF IsFree

\* Then all blocks with nodes are on the heap, or hopeless.
LEMMA NothingCounted ==
  ASSUME Core, NoIsolatedBlock, \A b \in NBlocks : sigma[b] = 0, free_list = {}
  PROVE  inuse = {} /\ \A b \in NBlocks : Empty(b) \/ Hopeless(b)
BY NothingUsed DEF Core, FreeListExact

\* The counter that next_nblock looks at.
ZerosExact == num_sigma_zero = Cardinality({b \in NBlocks : sigma[b] = 0})

LEMMA AllZero ==
  ASSUME ZerosExact, num_sigma_zero = Cardinality(NBlocks)
  PROVE  \A b \in NBlocks : sigma[b] = 0
<1> DEFINE Y == {b \in NBlocks : sigma[b] = 0}
<1>1. Cardinality(Y) = Cardinality(NBlocks)
  BY DEF ZerosExact
<1>2. Y = NBlocks
  BY <1>1, FS_Subset, ConstantsAssumption
<1>3. QED
  BY <1>2

\* Exclusion is what keeps the scopes of blocks in use apart.
LEMMA UsedScopes ==
  ASSUME Core, NEW a \in inuse, NEW b \in inuse, a # b
  PROVE  Scope(a) \cap Scope(b) = {}
BY ScopesOfStrangers DEF Core, CoreTypes, Exclusion

\* The invariant of the whole graph has the core in it.
LEMMA CoreHolds == IInv => Core /\ ZerosExact
BY DEF IInv, TypeOK, Core, CoreTypes, SigmasExact, CountersExact, ZerosExact

-----------------------------------------------------------------------------
(***************************************************************************)
(* Steps that leave the graph alone                                        *)
(***************************************************************************)

\* The steps that change no set or counter of the graph.
QuietStep(t) ==
  \/ LockNext(t) \/ TryLockNext(t) \/ Finish(t) \/ Wait(t) \/ Wake(t)
  \/ SpuriousWakeup(t) \/ SeeDone(t) \/ TakeNode(t) \/ AddChild(t)
  \/ EndExpand(t) \/ FoundGoal(t) \/ LeaveEmpty(t) \/ ShouldSwitch(t)
  \/ WantHot(t) \/ TrySetHot(t) \/ TryWontRelease(t) \/ Exit(t)

\* A step is quiet, or one of the five that change the graph.
LEMMA StepKinds ==
  ASSUME Next
  PROVE  \/ \E t \in Threads : \/ QuietStep(t) \/ Release(t) \/ Prune(t)
                               \/ Take(t) \/ SetHot(t) \/ WontRelease(t)
         \/ UNCHANGED vars
BY DEF Next, GraphStep, SearchStep, QuietStep, Terminated

LEMMA QuietFrame ==
  ASSUME NEW t \in Threads, QuietStep(t)
  PROVE  UNCHANGED <<graphVars, cur>>
BY DEF QuietStep, LockNext, TryLockNext, Finish, Wait, Wake, SpuriousWakeup,
       SeeDone, TakeNode, AddChild, EndExpand, FoundGoal, LeaveEmpty,
       ShouldSwitch, WantHot, TrySetHot, TryWontRelease, Exit

LEMMA QuietTypes ==
  ASSUME TypeOK, Ownership, NEW t \in Threads, QuietStep(t)
  PROVE  TypeOK'
<1> USE ConstantsAssumption DEF TypeOK, graphVars, Goto, Lock, Unlock
<1>1. CASE LockNext(t)
  BY <1>1 DEF LockNext, PCs, Owning
<1>2. CASE TryLockNext(t)
  BY <1>2 DEF TryLockNext, PCs, Owning, EnterSearch
<1>3. CASE Finish(t)
  BY <1>3 DEF Finish, PCs, Broadcast
<1>4. CASE Wait(t)
  BY <1>4 DEF Wait, PCs
<1>5. CASE Wake(t)
  BY <1>5 DEF Wake, PCs
<1>6. CASE SpuriousWakeup(t)
  BY <1>6 DEF SpuriousWakeup
<1>7. CASE SeeDone(t)
  BY <1>7 DEF SeeDone, PCs
<1>8. CASE TakeNode(t)
  <2>1. PICK v \in F : /\ best' = [best EXCEPT ![cur[t]] = v]
                       /\ IF v = best[cur[t]] THEN work > 0 /\ work' = work - 1
                                              ELSE UNCHANGED work
    BY <1>8 DEF TakeNode
  <2>2a. best' \in [NBlocks -> F]
    BY <2>1
  <2>2b. work' \in 0..MaxWork
    <3>1. CASE v = best[cur[t]]
      BY <2>1, <3>1
    <3>2. CASE v # best[cur[t]]
      BY <2>1, <3>2
    <3>3. QED
      BY <3>1, <3>2
  <2>3. pc' \in [Threads -> PCs]
    BY <1>8 DEF TakeNode, PCs, Owning
  <2>4. QED
    BY <1>8, <2>2a, <2>2b, <2>3 DEF TakeNode
<1>9. CASE AddChild(t)
  <2>1. PICK m \in Scope(cur[t]), v \in 0..(Infinity - 1) :
          best' = [best EXCEPT ![m] = IF v < best[m] THEN v ELSE best[m]]
    BY <1>9 DEF AddChild
  <2>2. v \in F
    BY DEF F
  <2>3. best' \in [NBlocks -> F]
    BY <2>1, <2>2
  <2>4. QED
    BY <1>9, <2>3 DEF AddChild
<1>10. CASE EndExpand(t)
  BY <1>10 DEF EndExpand, PCs, Owning
<1>11. CASE FoundGoal(t)
  BY <1>11 DEF FoundGoal, PCs, F
<1>12. CASE LeaveEmpty(t)
  BY <1>12 DEF LeaveEmpty, PCs
<1>13. CASE ShouldSwitch(t)
  BY <1>13 DEF ShouldSwitch, PCs, Owning
<1>14. CASE WantHot(t)
  <2>1. cur[t] \in NBlocks
    BY <1>14 DEF WantHot, Ownership, Owning, Blocks
  <2>2. Interferes[cur[t]] \subseteq NBlocks
    BY <2>1, InterferesType
  <2>3. PICK b \in Interferes[cur[t]] :
          want' = [want EXCEPT ![t] = [block |-> b, val |-> best[b]]]
    BY <1>14 DEF WantHot
  <2>4. [block |-> b, val |-> best[b]] \in [block : Blocks, val : F]
    BY <2>2, <2>3 DEF Blocks
  <2>5. want' \in [Threads -> [block : Blocks, val : F]]
    BY <2>3, <2>4
  <2>6. QED
    BY <1>14, <2>5 DEF WantHot, PCs, Owning
<1>15. CASE TrySetHot(t)
  BY <1>15 DEF TrySetHot, PCs, Owning
<1>16. CASE TryWontRelease(t)
  BY <1>16 DEF TryWontRelease, PCs, Owning
<1>17. CASE Exit(t)
  BY <1>17 DEF Exit, PCs, Broadcast
<1>18. QED
  BY <1>1, <1>2, <1>3, <1>4, <1>5, <1>6, <1>7, <1>8, <1>9, <1>10, <1>11,
     <1>12, <1>13, <1>14, <1>15, <1>16, <1>17 DEF QuietStep

\* Open lists change in the scope of an owned block only, and the bound
\* does not rise.
LEMMA QuietData ==
  ASSUME TypeOK, Ownership, NEW t \in Threads, QuietStep(t)
  PROVE  /\ \A b \in NBlocks :
              best'[b] # best[b] => /\ cur[t] \in NBlocks
                                    /\ b \in Scope(cur[t])
         /\ bound' <= bound
<1> USE DEF TypeOK, F, Ownership, Owning, Blocks
<1>0. bound <= bound /\ bound \in Nat
  BY ConstantsAssumption
<1>1. CASE TakeNode(t)
  BY <1>0, <1>1 DEF TakeNode, Scope
<1>2. CASE AddChild(t)
  BY <1>0, <1>2 DEF AddChild, Scope
<1>3. CASE FoundGoal(t)
  BY <1>0, <1>3, ConstantsAssumption DEF FoundGoal
<1>4. CASE UNCHANGED <<best, bound>>
  BY <1>0, <1>4
<1>5. QED
  BY <1>1, <1>2, <1>3, <1>4
  DEF QuietStep, LockNext, TryLockNext, Finish, Wait, Wake, SpuriousWakeup,
      SeeDone, EndExpand, LeaveEmpty, ShouldSwitch, WantHot, TrySetHot,
      TryWontRelease, Exit

LEMMA QuietOwnership ==
  ASSUME TypeOK, Ownership, NEW t \in Threads, QuietStep(t)
  PROVE  Ownership'
<1>1. UNCHANGED <<cur, inuse>>
  BY QuietFrame DEF graphVars
<1>2. \A u \in Threads : pc'[u] \in Owning => cur[u] # NoBlock
  BY DEF QuietStep, LockNext, TryLockNext, Finish, Wait, Wake, SpuriousWakeup,
         SeeDone, TakeNode, AddChild, EndExpand, FoundGoal, LeaveEmpty,
         ShouldSwitch, WantHot, TrySetHot, TryWontRelease, Exit, Goto, Owning,
         EnterSearch, Ownership, TypeOK
<1>3. \A u \in Threads : pc'[u] \notin Owning \cup {"next"} => cur[u] = NoBlock
  BY DEF QuietStep, LockNext, TryLockNext, Finish, Wait, Wake, SpuriousWakeup,
         SeeDone, TakeNode, AddChild, EndExpand, FoundGoal, LeaveEmpty,
         ShouldSwitch, WantHot, TrySetHot, TryWontRelease, Exit, Goto, Owning,
         EnterSearch, Ownership, TypeOK, AtWait
<1>4. \A u \in Threads : pc'[u] \in {"set_hot", "hot_locked"}
                           => want'[u].block \in NBlocks
  <2>1. CASE WantHot(t)
    <3>1. cur[t] \in NBlocks
      BY <2>1 DEF WantHot, Ownership, Owning, TypeOK, Blocks
    <3>2. PICK b \in Interferes[cur[t]] :
            want' = [want EXCEPT ![t] = [block |-> b, val |-> best[b]]]
      BY <2>1 DEF WantHot
    <3>3. b \in NBlocks
      BY <3>1, <3>2, InterferesType
    <3>4. QED
      BY <2>1, <3>2, <3>3 DEF WantHot, Ownership, TypeOK, Goto
  <2>2. CASE ~WantHot(t)
    BY <2>2
    DEF QuietStep, LockNext, TryLockNext, Finish, Wait, Wake, SpuriousWakeup,
        SeeDone, TakeNode, AddChild, EndExpand, FoundGoal, LeaveEmpty,
        ShouldSwitch, TrySetHot, TryWontRelease, Exit, Goto, EnterSearch,
        Ownership, TypeOK
  <2>3. QED
    BY <2>1, <2>2
<1>5. QED
  BY <1>1, <1>2, <1>3, <1>4 DEF Ownership

LEMMA QuietMutex ==
  ASSUME TypeOK, MutexHeld, NEW t \in Threads, QuietStep(t)
  PROVE  MutexHeld'
BY ConstantsAssumption
   DEF QuietStep, LockNext, TryLockNext, Finish, Wait, Wake, SpuriousWakeup,
       SeeDone, TakeNode, AddChild, EndExpand, FoundGoal, LeaveEmpty,
       ShouldSwitch, WantHot, TrySetHot, TryWontRelease, Exit, Goto, Locked,
       Lock, Unlock, AtWait, EnterSearch, MutexHeld, TypeOK

LEMMA QuietSleepers ==
  ASSUME TypeOK, Sleepers, NEW t \in Threads, QuietStep(t)
  PROVE  Sleepers'
<1>1. free_list' = free_list
  BY QuietFrame DEF graphVars
<1>2. (\A u \in waiting : pc[u] = "wait")'
  BY DEF QuietStep, LockNext, TryLockNext, Finish, Wait, Wake, SpuriousWakeup,
         SeeDone, TakeNode, AddChild, EndExpand, FoundGoal, LeaveEmpty,
         ShouldSwitch, WantHot, TrySetHot, TryWontRelease, Exit, Goto,
         Broadcast, AtWait, Sleepers, TypeOK
<1>3. (\A u \in Threads : pc[u] \in {"null", "ended"} => done)'
  BY DEF QuietStep, LockNext, TryLockNext, Finish, Wait, Wake, SpuriousWakeup,
         SeeDone, TakeNode, AddChild, EndExpand, FoundGoal, LeaveEmpty,
         ShouldSwitch, WantHot, TrySetHot, TryWontRelease, Exit, Goto,
         EnterSearch, Sleepers, TypeOK
<1>4. (done => waiting = {})'
  BY DEF QuietStep, LockNext, TryLockNext, Finish, Wait, Wake, SpuriousWakeup,
         SeeDone, TakeNode, AddChild, EndExpand, FoundGoal, LeaveEmpty,
         ShouldSwitch, WantHot, TrySetHot, TryWontRelease, Exit, Broadcast,
         Sleepers
<1>5. (waiting # {} /\ free_list # {}
         => \E u \in Threads : pc[u] = "retry" /\ \E n \in NBlocks : free_list = {n})'
  <2>1. SUFFICES ASSUME waiting' # {}, free_list # {}
                 PROVE  \E u \in Threads : /\ pc'[u] = "retry"
                                           /\ \E n \in NBlocks : free_list = {n}
    BY <1>1
  <2>2. waiting # {}
    BY <2>1 DEF QuietStep, LockNext, TryLockNext, Finish, Wait, Wake,
       SpuriousWakeup, SeeDone, TakeNode, AddChild, EndExpand, FoundGoal,
       LeaveEmpty, ShouldSwitch, WantHot, TrySetHot, TryWontRelease, Exit,
       Broadcast
  <2>3. PICK u \in Threads : /\ pc[u] = "retry"
                             /\ \E n \in NBlocks : free_list = {n}
    BY <2>1, <2>2 DEF Sleepers
  <2>4. ~done
    BY <2>2 DEF Sleepers
  <2>5. pc'[u] = "retry"
    BY <2>1, <2>3, <2>4 DEF QuietStep, LockNext, TryLockNext, Finish, Wait,
       Wake, SpuriousWakeup, SeeDone, TakeNode, AddChild, EndExpand, FoundGoal,
       LeaveEmpty, ShouldSwitch, WantHot, TrySetHot, TryWontRelease, Exit,
       Goto, NothingToDo, AtWait, TypeOK
  <2>6. QED
    BY <2>3, <2>5
<1>6. QED
  BY <1>2, <1>3, <1>4, <1>5 DEF Sleepers

LEMMA QuietAllocated ==
  ASSUME TypeOK, Ownership, Allocated, NEW t \in Threads, QuietStep(t)
  PROVE  Allocated'
<1>1. UNCHANGED <<inuse, hot, created>>
  BY QuietFrame DEF graphVars
<1>2. ASSUME NEW b \in NBlocks, best'[b] # best[b]
      PROVE  b \in created
  <2>1. cur[t] \in NBlocks /\ b \in Scope(cur[t])
    BY <1>2, QuietData
  <2>2. cur[t] \in inuse
    BY <2>1, ConstantsAssumption DEF Ownership
  <2>3. QED
    BY <2>1, <2>2, ScopeInterferes DEF Allocated
<1>3. QED
  BY <1>1, <1>2 DEF Allocated, Empty

\* The invariant survives the steps that leave the graph alone.
LEMMA QuietInvariant ==
  ASSUME IInv, NEW t \in Threads, QuietStep(t)
  PROVE  IInv'
<1> USE DEF IInv
<1>1. UNCHANGED <<inuse, sigma, hot, sigma_hot, free_list, num_sigma_zero>>
  BY QuietFrame DEF graphVars
<1>2. TypeOK'
  BY QuietTypes
<1>3. \A b \in NBlocks : best'[b] # best[b] => \E n \in inuse : b \in Scope(n)
  BY QuietData, ConstantsAssumption DEF Ownership
<1>4. Core'
  BY <1>1, <1>2, <1>3, CoreHolds, QuietData, WorkCore DEF TypeOK
<1>5. CountersExact'
  BY <1>1 DEF CountersExact
<1>6. QED
  BY <1>2, <1>4, <1>5, QuietOwnership, QuietMutex, QuietSleepers, QuietAllocated
  DEF Core

-----------------------------------------------------------------------------
(***************************************************************************)
(* Steps of a client, for the searches that use the graph                  *)
(***************************************************************************)

\* Where a thread searches the block that it owns, or publishes a path.
Outside == {"body", "expand", "loop", "see", "get", "cas"}

\* It changes the lists of its scope and lowers the bound, nothing else.
ClientStep(t) ==
  /\ pc[t] \in Outside
  /\ \E l \in Outside \cup {"next"} : pc' = [pc EXCEPT ![t] = l]
  /\ best' \in [NBlocks -> F]
  /\ \A b \in NBlocks : best'[b] # best[b] => b \in Scope(cur[t])
  /\ bound' \in F /\ bound' <= bound
  /\ UNCHANGED <<graphVars, done, mutex, waiting, work, cur, want>>

\* A client of this kind leaves the graph's invariant true.
LEMMA ClientInvariant ==
  ASSUME IInv, NEW t \in Threads, ClientStep(t)
  PROVE  IInv'
<1> USE DEF IInv
<1>1. /\ UNCHANGED <<inuse, sigma, hot, sigma_hot, free_list, num_sigma_zero,
                     created, done, mutex, waiting, work, cur, want>>
      /\ best' \in [NBlocks -> F] /\ bound' \in F /\ bound' <= bound
      /\ \A b \in NBlocks : best'[b] # best[b] => b \in Scope(cur[t])
  BY DEF ClientStep, graphVars
<1>2. /\ pc[t] \in Outside /\ pc'[t] \in Outside \cup {"next"}
      /\ \A u \in Threads : u # t => pc'[u] = pc[u]
      /\ pc' \in [Threads -> PCs]
  BY DEF ClientStep, TypeOK, Outside, PCs, Owning
<1>3. cur[t] \in NBlocks /\ cur[t] \in inuse
  BY <1>2 DEF Ownership, Outside, Owning, TypeOK
<1>4. TypeOK'
  BY <1>1, <1>2 DEF TypeOK
<1>5. Ownership'
  BY <1>1, <1>2, <1>3, ConstantsAssumption DEF Ownership, Owning, Outside, TypeOK
<1>6. MutexHeld'
  BY <1>1, <1>2 DEF MutexHeld, Outside, Locked
<1>7. Core'
  BY <1>1, <1>3, CoreHolds, WorkCore
<1>8. Sleepers'
  BY <1>1, <1>2 DEF Sleepers, Outside, TypeOK
<1>9. Allocated'
  <2>1. ASSUME NEW b \in NBlocks, best'[b] # best[b]
        PROVE  b \in created
    BY <1>1, <1>3, <2>1, ScopeInterferes DEF Allocated
  <2>2. QED
    BY <1>1, <2>1 DEF Allocated, Empty
<1>10. CountersExact'
  BY <1>1 DEF CountersExact
<1>11. QED
  BY <1>4, <1>5, <1>6, <1>7, <1>8, <1>9, <1>10 DEF Core

\* A step of the graph concerns no thread but its own, which neither
\* expands a node nor publishes a path, and leaves the bound alone.
LEMMA GraphFrame ==
  ASSUME TypeOK, NEW t \in Threads,
         GraphStep(t) \/ LeaveEmpty(t) \/ ShouldSwitch(t) \/ WantHot(t)
  PROVE  /\ bound' = bound
         /\ \A u \in Threads : u # t => pc'[u] = pc[u] /\ cur'[u] = cur[u]
         /\ {pc[t], pc'[t]} \cap {"expand", "see", "get", "cas"} = {}
<1>1. /\ bound' = bound
      /\ \E l \in PCs \ {"expand", "see", "get", "cas"} : Goto(t, l)
      /\ UNCHANGED cur \/ \E b \in Blocks : cur' = [cur EXCEPT ![t] = b]
      /\ pc[t] \notin {"expand", "see", "get", "cas"}
  BY DEF GraphStep, LeaveEmpty, ShouldSwitch, WantHot, LockNext, TryLockNext,
     Release, Finish, Wait, Wake, SeeDone, Prune, Take, TrySetHot, SetHot,
     TryWontRelease, WontRelease, Exit, AtWait, EnterSearch, PCs, Owning, Blocks
<1>2. QED
  BY <1>1 DEF TypeOK, Goto

-----------------------------------------------------------------------------
(***************************************************************************)
(* Pruning the heap                                                        *)
(***************************************************************************)

\* Every block that leaves the heap is at least as bad as its front, and
\* the front is as bad as the incumbent, even scaled by the weight.
LEMMA PruneInvariant ==
  ASSUME IInv, NEW t \in Threads, Prune(t)
  PROVE  IInv'
<1> USE DEF IInv
<1>1. UNCHANGED <<inuse, sigma, hot, sigma_hot, num_sigma_zero, created, done,
                  mutex, waiting, best, bound, work, cur, want>>
  BY DEF Prune
<1>2. free_list' = {} /\ pc' = [pc EXCEPT ![t] = "retry"] /\ pc[t] \in {"retry", "test"}
  BY DEF Prune, Goto, AtWait
<1>3. TypeOK'
  BY <1>1, <1>2 DEF TypeOK, PCs
<1>4. Ownership'
  BY <1>1, <1>2 DEF Ownership, TypeOK, Owning
<1>5. MutexHeld'
  BY <1>1, <1>2 DEF MutexHeld, TypeOK, Locked
<1>6. Sleepers'
  BY <1>1, <1>2 DEF Sleepers, TypeOK
<1>7. FreeListExact'
  <2>1. PICK n \in NBlocks : Front(n) /\ Hopeless(n)
    BY DEF Prune
  <2>2. best[n] \in Nat /\ bound \in Nat /\ Weight \in Nat
    BY ConstantsAssumption DEF TypeOK, F
  <2>3. bound * Weight \in Nat
    BY <2>2
  <2>4. ASSUME NEW b \in free_list
        PROVE  Hopeless(b)
    <3>1. best[b] \in Nat /\ best[n] <= best[b]
      BY <2>1, ConstantsAssumption DEF Front, TypeOK, F
    <3>2. QED
      BY <2>1, <2>2, <2>3, <3>1 DEF Hopeless
  <2>5. QED
    BY <1>1, <1>2, <2>4 DEF FreeListExact, IsFree, Empty, Hopeless
<1>8. Exclusion' /\ CountersExact' /\ HotIsTemporary' /\ Allocated'
  BY <1>1 DEF Exclusion, CountersExact, HotIsTemporary, Allocated, Empty
<1>9. QED
  BY <1>3, <1>4, <1>5, <1>6, <1>7, <1>8

-----------------------------------------------------------------------------
(***************************************************************************)
(* Acquiring a block                                                       *)
(***************************************************************************)

\* How many blocks have sigma zero after a block has been taken.
LEMMA TakeZeros ==
  ASSUME Core, ZerosExact, NEW n \in NBlocks, sigma' = ScopeSigmas(n, 1),
         num_sigma_zero' =
           num_sigma_zero - Cardinality({m \in Interferes[n] : sigma[m] = 0})
  PROVE  ZerosExact'
<1> DEFINE Z == {b \in NBlocks : sigma[b] = 0}
           D == {m \in Interferes[n] : sigma[m] = 0}
<1>1. IsFiniteSet(Z)
  BY FS_Subset, ConstantsAssumption
<1>2. {b \in NBlocks : sigma'[b] = 0} = Z \ D
  BY DEF ScopeSigmas, Core, CoreTypes
<1>3. Z \cap D = D
  BY InterferesType
<1>4. Cardinality(Z \ D) = Cardinality(Z) - Cardinality(D)
  BY <1>1, <1>3, FS_Difference, ZenonT(60)
<1>5. QED
  BY <1>2, <1>4 DEF ZerosExact

LEMMA TakeInvariant ==
  ASSUME IInv, NEW t \in Threads, Take(t)
  PROVE  IInv'
<1> USE DEF IInv
<1>1. PICK n \in NBlocks :
        /\ Front(n) /\ ~Hopeless(n)
        /\ inuse' = inuse \cup {n}
        /\ sigma' = ScopeSigmas(n, 1)
        /\ num_sigma_zero' =
             num_sigma_zero - Cardinality({m \in Interferes[n] : sigma[m] = 0})
        /\ free_list' = free_list \ Unavailable(n)
        /\ Get(Interferes[n])
        /\ cur' = [cur EXCEPT ![t] = n]
  BY DEF Take
<1>2. /\ UNCHANGED <<hot, sigma_hot, done, waiting, best, bound, work, want>>
      /\ mutex' = NoThread /\ pc' = [pc EXCEPT ![t] = EnterSearch]
      /\ pc[t] \in {"retry", "test"} /\ ~done
  BY DEF Take, Unlock, Goto, AtWait
<1>3. n \in free_list /\ n \notin inuse /\ n \in created
  BY <1>1, CoreHolds, FreeFacts DEF Front, Allocated
<1>4. Core'
  BY <1>1, <1>2, <1>3, CoreHolds, TakeCore
<1>5. TypeOK'
  <2>1. sigma' \in [NBlocks -> Nat]
    BY <1>4 DEF Core, CoreTypes
  <2>2. num_sigma_zero' \in Nat
    <3>1. IsFiniteSet({b \in NBlocks : sigma'[b] = 0})
      BY FS_Subset, ConstantsAssumption
    <3>2. QED
      BY <1>1, <3>1, CoreHolds, TakeZeros, FS_CardinalityType DEF ZerosExact
  <2>3. created' \subseteq NBlocks
    BY <1>1, InterferesType DEF Get, TypeOK
  <2>4. QED
    BY <1>1, <1>2, <2>1, <2>2, <2>3
    DEF TypeOK, Blocks, PCs, Owning, EnterSearch
<1>6. Ownership'
  <2>1. cur[t] = NoBlock
    BY <1>2 DEF Ownership, Owning
  <2>2. \A u \in Threads : u # t => cur'[u] = cur[u] /\ pc'[u] = pc[u]
    BY <1>1, <1>2 DEF TypeOK
  <2>3. cur'[t] = n /\ pc'[t] \in {"loop", "body"} /\ n # NoBlock
    BY <1>1, <1>2, ConstantsAssumption DEF TypeOK, EnterSearch
  <2>4. \A u \in Threads : u # t => cur[u] # n
    BY <1>3, <2>3 DEF Ownership
  <2>5. \A u \in Threads : cur'[u] # NoBlock => cur'[u] \in inuse'
    BY <1>1, <2>2, <2>3 DEF Ownership
  <2>6. \A b \in inuse' : \E u \in Threads : cur'[u] = b
    <3> SUFFICES ASSUME NEW b \in inuse' PROVE \E u \in Threads : cur'[u] = b
      OBVIOUS
    <3>1. CASE b = n
      BY <2>3, <3>1
    <3>2. CASE b \in inuse
      <4>1. PICK u \in Threads : cur[u] = b
        BY <3>2 DEF Ownership
      <4>2. u # t
        BY <2>1, <3>2, <4>1, ConstantsAssumption DEF TypeOK
      <4>3. QED
        BY <2>2, <4>1, <4>2
    <3>3. QED
      BY <1>1, <3>1, <3>2
  <2>7. \A u, v \in Threads : u # v /\ cur'[u] # NoBlock => cur'[u] # cur'[v]
    BY <2>1, <2>2, <2>3, <2>4 DEF Ownership
  <2>8. \A u \in Threads : /\ pc'[u] \in Owning => cur'[u] # NoBlock
                           /\ pc'[u] \notin Owning \cup {"next"} => cur'[u] = NoBlock
    BY <2>2, <2>3 DEF Ownership, Owning
  <2>9. \A u \in Threads : pc'[u] \in {"set_hot", "hot_locked"}
                             => want'[u].block \in NBlocks
    BY <1>2, <2>2, <2>3 DEF Ownership
  <2>10. QED
    BY <2>5, <2>6, <2>7, <2>8, <2>9 DEF Ownership
<1>7. CountersExact'
  BY <1>1, <1>4, CoreHolds, TakeZeros DEF Core, SigmasExact, CountersExact, ZerosExact
<1>8. MutexHeld'
  BY <1>2, ConstantsAssumption DEF MutexHeld, TypeOK, Locked, EnterSearch
<1>9. Sleepers'
  <2>1. free_list' \subseteq free_list /\ n \in free_list /\ n \notin free_list'
    BY <1>1 DEF Unavailable, Front
  <2>2. waiting # {} => free_list' = {}
    BY <1>2, <2>1 DEF Sleepers
  <2>3. \A u \in Threads : u # t => pc'[u] = pc[u]
    BY <1>2 DEF TypeOK
  <2>4. pc'[t] \in {"loop", "body"}
    BY <1>2 DEF TypeOK, EnterSearch
  <2>5. t \notin waiting
    BY <1>2 DEF Sleepers
  <2>6. QED
    BY <1>2, <2>2, <2>3, <2>4, <2>5 DEF Sleepers, TypeOK
<1>10. Allocated'
  BY <1>1, <1>2, <1>3 DEF Allocated, Get, Empty
<1>11. QED
  BY <1>4, <1>5, <1>6, <1>7, <1>8, <1>9, <1>10 DEF Core

-----------------------------------------------------------------------------
(***************************************************************************)
(* wont_release                                                            *)
(***************************************************************************)

LEMMA WontReleaseInvariant ==
  ASSUME IInv, NEW t \in Threads, WontRelease(t)
  PROVE  IInv'
<1> USE DEF IInv
<1> DEFINE C == Interferes[cur[t]] \cap created \cap hot
<1>1. /\ hot' = hot \ C
      /\ sigma_hot' = CooledSigmaHot(C)
      /\ created' = created \cup AllInterferers(C)
      /\ free_list' = free_list \cup Freed(AllInterferers(C))
      /\ IF Freed(AllInterferers(C)) # {} THEN waiting' = {} ELSE waiting' = waiting
      /\ mutex' = NoThread
      /\ pc' = [pc EXCEPT ![t] = "body"] /\ pc[t] = "wont_locked"
      /\ UNCHANGED <<inuse, sigma, best, num_sigma_zero, done, bound, work, cur, want>>
  BY DEF WontRelease, HotAmong, Unlock, Goto, Get, Broadcast
<1>2. C \in SUBSET hot /\ C \in SUBSET NBlocks
  BY DEF TypeOK
<1> HIDE DEF C
<1>3. AllInterferers(C) \subseteq NBlocks
  BY <1>2, AllInterferersType
<1>4. Core'
  BY <1>1, <1>2, CoreHolds, CoolCore
<1>5. CountersExact'
  BY <1>1, <1>4 DEF Core, SigmasExact, CountersExact
<1>6. TypeOK'
  BY <1>1, <1>3, <1>4 DEF Core, CoreTypes, TypeOK, PCs, Owning
<1>7. Ownership'
  BY <1>1 DEF Ownership, Owning, TypeOK
<1>8. MutexHeld'
  BY <1>1, ConstantsAssumption DEF MutexHeld, Locked, TypeOK
<1>9. Sleepers'
  <2>1. mutex = t
    BY <1>1 DEF MutexHeld, Locked
  <2>2. \A u \in Threads : pc[u] # "retry"
    BY <1>1, <2>1 DEF MutexHeld, Locked
  <2>3. waiting' # {} => free_list' = {} /\ waiting' = waiting
    BY <1>1, <2>2 DEF Sleepers
  <2>4. \A u \in Threads : u # t => pc'[u] = pc[u]
    BY <1>1 DEF TypeOK
  <2>5. pc'[t] = "body" /\ t \notin waiting
    BY <1>1 DEF TypeOK, Sleepers
  <2>6. waiting' \subseteq waiting
    BY <2>3
  <2>7. QED
    BY <1>1, <2>3, <2>4, <2>5, <2>6 DEF Sleepers, TypeOK
<1>10. Allocated'
  BY <1>1 DEF Allocated, Empty
<1>11. QED
  BY <1>4, <1>5, <1>6, <1>7, <1>8, <1>9, <1>10 DEF Core

-----------------------------------------------------------------------------
(***************************************************************************)
(* set_hot                                                                 *)
(***************************************************************************)

LEMMA SetHotInvariant ==
  ASSUME IInv, NEW t \in Threads, SetHot(t)
  PROVE  IInv'
<1> USE DEF IInv
<1> DEFINE b == want[t].block
           C == Interferes[b] \cap hot
<1>1. /\ mutex' = NoThread
      /\ pc' = [pc EXCEPT ![t] = "next"] /\ pc[t] = "hot_locked"
      /\ want' = [want EXCEPT ![t] = NoWant]
      /\ UNCHANGED <<inuse, sigma, best, num_sigma_zero, done, bound, work, cur>>
  BY DEF SetHot, HotAmong, Unlock, Goto
<1>2. b \in NBlocks
  BY <1>1 DEF Ownership
<1>3. C \in SUBSET hot /\ C \in SUBSET NBlocks
  BY DEF TypeOK
<1>4. AllInterferers(C) \subseteq NBlocks /\ Interferes[b] \subseteq NBlocks
  BY <1>2, <1>3, AllInterferersType, InterferesType
<1>5. Ownership'
  <2>1. \A u \in Threads : u # t => pc'[u] = pc[u] /\ want'[u] = want[u]
    BY <1>1 DEF TypeOK
  <2>2. pc'[t] = "next"
    BY <1>1 DEF TypeOK
  <2>3. QED
    BY <1>1, <2>1, <2>2 DEF Ownership, Owning
<1>6. MutexHeld'
  BY <1>1, ConstantsAssumption DEF MutexHeld, Locked, TypeOK
<1>7. pc' \in [Threads -> PCs] /\ want' \in [Threads -> [block : Blocks, val : F]]
  <2>1. NoWant \in [block : Blocks, val : F]
    BY ConstantsAssumption DEF NoWant, Blocks, F
  <2>2. QED
    BY <1>1, <2>1 DEF TypeOK, PCs
<1>8. \A u \in Threads : pc[u] # "retry"
  BY <1>1 DEF MutexHeld, Locked
<1>9. Exclusion'
  BY <1>1 DEF Exclusion
<1>10. CASE UNCHANGED <<hot, sigma_hot, free_list, waiting>>
            /\ \E S \in SUBSET Interferes[b] : Get(S)
  <2>1. CountersExact' /\ HotIsTemporary' /\ FreeListExact'
    BY <1>1, <1>10
    DEF CountersExact, HotIsTemporary, FreeListExact, IsFree, Empty, Hopeless
  <2>2. created \subseteq created' /\ created' \subseteq NBlocks
    BY <1>4, <1>10 DEF Get, TypeOK
  <2>3. TypeOK'
    BY <1>1, <1>7, <1>10, <2>2, ConstantsAssumption DEF TypeOK
  <2>4. Sleepers'
    BY <1>1, <1>8, <1>10 DEF Sleepers, TypeOK
  <2>5. Allocated'
    BY <1>1, <1>10, <2>2 DEF Allocated, Empty
  <2>6. QED
    BY <1>5, <1>6, <1>9, <2>1, <2>3, <2>4, <2>5
<1>11. CASE /\ b \notin hot /\ sigma[b] > 0
            /\ hot' = (hot \ C) \cup {b}
            /\ sigma_hot' = [m \in NBlocks |-> IF m \in Interferes[b]
                                               THEN CooledSigmaHot(C)[m] + 1
                                               ELSE CooledSigmaHot(C)[m]]
            /\ created' = created \cup Interferes[b] \cup AllInterferers(C)
            /\ free_list' = (free_list \ {m \in Interferes[b] : IsFree(m)})
                              \cup Freed(AllInterferers(C))
            /\ \/ waiting' = {}
               \/ Freed(AllInterferers(C)) = {} /\ waiting' = waiting
  <2> HIDE DEF b
  <2>1. Core'
    BY <1>1, <1>2, <1>11, CoreHolds, HeatCore
  <2>2. CountersExact'
    BY <1>1, <2>1 DEF Core, SigmasExact, CountersExact
  <2>3. TypeOK'
    <3>1. created' \subseteq NBlocks /\ waiting' \subseteq Threads
      BY <1>4, <1>11 DEF TypeOK
    <3>2. QED
      BY <1>1, <1>7, <2>1, <3>1, ConstantsAssumption DEF Core, CoreTypes, TypeOK
  <2>4. Sleepers'
    <3>1. waiting' # {} => free_list' = {} /\ waiting' = waiting
      BY <1>8, <1>11 DEF Sleepers
    <3>2. \A u \in Threads : u # t => pc'[u] = pc[u]
      BY <1>1 DEF TypeOK
    <3>3. pc'[t] = "next" /\ t \notin waiting
      BY <1>1 DEF TypeOK, Sleepers
    <3>4. waiting' \subseteq waiting
      BY <3>1
    <3>5. QED
      BY <1>1, <3>1, <3>2, <3>3, <3>4 DEF Sleepers, TypeOK
  <2>5. Allocated'
    <3>1. PICK n \in inuse : n \in Interferes[b]
      <4>1. Cardinality(Interferes[b] \cap inuse) # 0
        BY <1>2, <1>11 DEF CountersExact
      <4>2. Interferes[b] \cap inuse # {}
        BY <1>2, <4>1, CountZero
      <4>3. QED
        BY <4>2
    <3>2. b \in created
      BY <1>2, <3>1, InterferesSymmetric DEF Allocated, TypeOK
    <3>3. QED
      BY <1>1, <1>11, <3>2 DEF Allocated, Empty
  <2>6. QED
    BY <1>5, <1>6, <2>1, <2>2, <2>3, <2>4, <2>5 DEF Core
<1>12. QED
  BY <1>10, <1>11 DEF SetHot, HotAmong, MayHeat, Get, Broadcast

-----------------------------------------------------------------------------
(***************************************************************************)
(* Releasing a block                                                       *)
(***************************************************************************)

\* How many blocks have sigma zero after a block has been given back.
LEMMA ReleaseZeros ==
  ASSUME Core, ZerosExact, NEW n \in inuse, NEW Z,
         Z = {m \in Interferes[n] : sigma[m] = 1}, sigma' = ScopeSigmas(n, -1),
         num_sigma_zero' = num_sigma_zero + Cardinality(Z)
  PROVE  ZerosExact' /\ num_sigma_zero' \in Nat
<1> DEFINE Y == {b \in NBlocks : sigma[b] = 0}
<1>1. Z \subseteq NBlocks
  BY InterferesType DEF Core, CoreTypes
<1>2. IsFiniteSet(Y) /\ IsFiniteSet(Z)
  BY <1>1, FS_Subset, ConstantsAssumption
<1>3. {b \in NBlocks : sigma'[b] = 0} = Y \cup Z
  <2>1. \A b \in NBlocks : b \in Interferes[n] => sigma[b] # 0
    BY CountedNearby
  <2>2. QED
    BY <1>1, <2>1 DEF ScopeSigmas, Core, CoreTypes
<1>4. Y \cap Z = {}
  OBVIOUS
<1>5. /\ IsFiniteSet(Y \cup Z)
      /\ Cardinality(Y \cup Z) = Cardinality(Y) + Cardinality(Z) - Cardinality(Y \cap Z)
  BY <1>2, FS_Union
<1>6. Cardinality(Y \cap Z) = 0
  BY <1>4, FS_EmptySet
<1>7. Cardinality(Y) \in Nat /\ Cardinality(Z) \in Nat /\ Cardinality(Y \cup Z) \in Nat
  BY <1>2, <1>5, FS_CardinalityType
<1>8. num_sigma_zero = Cardinality(Y)
  BY DEF ZerosExact
<1> HIDE DEF Y
<1>9. num_sigma_zero' = Cardinality(Y \cup Z) /\ num_sigma_zero' \in Nat
  BY <1>5, <1>6, <1>7, <1>8
<1>10. QED
  BY <1>3, <1>9 DEF ZerosExact

LEMMA ReleaseInvariant ==
  ASSUME IInv, NEW t \in Threads, Release(t)
  PROVE  IInv'
<1> USE DEF IInv
<1> DEFINE n == cur[t]
           Z == {m \in Interferes[n] : sigma[m] = 1}
           C == Z \cap hot
<1>1. /\ pc[t] = "release" /\ pc' = [pc EXCEPT ![t] = "retry"]
      /\ inuse' = inuse \ {n}
      /\ sigma' = ScopeSigmas(n, -1)
      /\ num_sigma_zero' = num_sigma_zero + Cardinality(Z)
      /\ hot' = hot \ C
      /\ sigma_hot' = CooledSigmaHot(C)
      /\ created' = created \cup (Interferes[n] \cup AllInterferers(C))
      /\ free_list' = free_list \cup Freed({n} \cup Z \cup AllInterferers(C))
      /\ cur' = [cur EXCEPT ![t] = NoBlock]
      /\ UNCHANGED <<best, done, mutex, bound, work, want>>
  BY DEF Release, HotAmong, Get, Goto
<1>2. IF Freed(Z \cup AllInterferers(C)) # {} THEN waiting' = {}
      ELSE IF Freed({n}) # {} THEN Signal ELSE waiting' = waiting
  BY DEF Release, HotAmong, Broadcast
<1>3. n \in inuse /\ n \in NBlocks /\ n # NoBlock
  BY <1>1, ConstantsAssumption DEF Ownership, Owning, TypeOK
<1> HIDE DEF n
<1>4. /\ Z \subseteq NBlocks /\ C \in SUBSET hot /\ C \in SUBSET NBlocks
      /\ AllInterferers(C) \subseteq NBlocks
  BY <1>3, InterferesType, AllInterferersType
<1>5. Core'
  BY <1>1, <1>3, CoreHolds, ReleaseCore
<1>6. /\ num_sigma_zero' = Cardinality({b \in NBlocks : sigma'[b] = 0})
      /\ num_sigma_zero' \in Nat
  BY <1>1, <1>3, CoreHolds, ReleaseZeros DEF ZerosExact
<1>7. \A u \in Threads : u # t => cur'[u] = cur[u] /\ pc'[u] = pc[u] /\ cur[u] # n
  BY <1>1, <1>3 DEF Ownership, TypeOK, n
<1>8. cur'[t] = NoBlock /\ pc'[t] = "retry"
  BY <1>1 DEF TypeOK
<1>9. waiting' \subseteq waiting
  BY <1>2 DEF Signal
<1> HIDE DEF Z, C
<1>10. TypeOK'
  <2>1. free_list' \subseteq NBlocks /\ created' \subseteq NBlocks
    BY <1>1, <1>3, <1>4, InterferesType DEF Freed, TypeOK
  <2>2. cur' \in [Threads -> Blocks] /\ pc' \in [Threads -> PCs]
    BY <1>1 DEF TypeOK, Blocks, PCs
  <2>3. QED
    BY <1>1, <1>5, <1>6, <1>9, <2>1, <2>2, ConstantsAssumption
    DEF Core, CoreTypes, TypeOK
<1>11. Ownership'
  <2>1. \A u \in Threads : cur'[u] # NoBlock => cur'[u] \in inuse'
    BY <1>1, <1>7, <1>8 DEF Ownership
  <2>2. \A b \in inuse' : \E u \in Threads : cur'[u] = b
    <3> SUFFICES ASSUME NEW b \in inuse' PROVE \E u \in Threads : cur'[u] = b
      OBVIOUS
    <3>1. b \in inuse /\ b # n
      BY <1>1
    <3>2. PICK u \in Threads : cur[u] = b
      BY <3>1 DEF Ownership
    <3>3. u # t
      BY <3>1, <3>2 DEF n
    <3>4. QED
      BY <1>7, <3>2, <3>3
  <2>3. \A u, v \in Threads : u # v /\ cur'[u] # NoBlock => cur'[u] # cur'[v]
    BY <1>7, <1>8 DEF Ownership
  <2>4. \A u \in Threads : /\ pc'[u] \in Owning => cur'[u] # NoBlock
                           /\ pc'[u] \notin Owning \cup {"next"} => cur'[u] = NoBlock
    BY <1>7, <1>8 DEF Ownership, Owning
  <2>5. \A u \in Threads : pc'[u] \in {"set_hot", "hot_locked"}
                             => want'[u].block \in NBlocks
    BY <1>1, <1>7, <1>8 DEF Ownership
  <2>6. QED
    BY <2>1, <2>2, <2>3, <2>4, <2>5 DEF Ownership
<1>12. CountersExact'
  BY <1>5, <1>6 DEF Core, SigmasExact, CountersExact
<1>13. MutexHeld'
  <2>1. mutex = t
    BY <1>1 DEF MutexHeld, Locked
  <2>2. QED
    BY <1>1, <1>7, <1>8, <2>1 DEF MutexHeld, Locked
<1>14. Sleepers'
  <2>1. \A u \in Threads : pc[u] # "retry"
    BY <1>1 DEF MutexHeld, Locked
  <2>2. ASSUME waiting' # {}, free_list' # {}
        PROVE  \E m \in NBlocks : free_list' = {m}
    <3>1. waiting # {}
      BY <1>9, <2>2
    <3>2. free_list = {}
      BY <2>1, <3>1 DEF Sleepers
    <3>3. Freed(Z \cup AllInterferers(C)) = {}
      BY <1>2, <2>2
    <3>4. free_list' \subseteq {n}
      BY <1>1, <3>2, <3>3 DEF Freed
    <3>5. QED
      BY <1>3, <2>2, <3>4
  <2>3. t \notin waiting
    BY <1>1 DEF Sleepers
  <2>4. QED
    BY <1>1, <1>7, <1>8, <1>9, <2>2, <2>3 DEF Sleepers, TypeOK
<1>15. Allocated'
  BY <1>1 DEF Allocated, Empty
<1>16. QED
  BY <1>5, <1>10, <1>11, <1>12, <1>13, <1>14, <1>15 DEF Core

-----------------------------------------------------------------------------
(***************************************************************************)
(* The theorems                                                            *)
(***************************************************************************)

LEMMA InitInvariant == Init => IInv
<1> SUFFICES ASSUME Init
             PROVE  IInv
  OBVIOUS
<1> USE ConstantsAssumption DEF Init
<1>1. TypeOK
  <2>1. Cardinality(NBlocks) \in Nat
    BY FS_CardinalityType
  <2>2. best \in [NBlocks -> F]
    BY DEF F
  <2>3. NoWant \in [block : Blocks, val : F] /\ bound \in F /\ work \in 0..MaxWork
    BY DEF NoWant, Blocks, F
  <2>4. QED
    BY <2>1, <2>2, <2>3 DEF TypeOK, PCs, Blocks
<1>2. Ownership
  BY DEF Ownership, Owning
<1>3. Exclusion
  BY DEF Exclusion
<1>4. MutexHeld
  BY DEF MutexHeld, Locked
<1>5. CountersExact
  <2>1. \A b \in NBlocks : Cardinality(Interferes[b] \cap {}) = 0
    BY CountZero
  <2>2. {b \in NBlocks : sigma[b] = 0} = NBlocks
    OBVIOUS
  <2>3. QED
    BY <2>1, <2>2 DEF CountersExact
<1>6. FreeListExact
  <2> SUFFICES ASSUME NEW b \in NBlocks
               PROVE  b \in free_list <=> IsFree(b)
    BY DEF FreeListExact
  <2>1. InitVal # Infinity
    OBVIOUS
  <2>2. QED
    BY <2>1 DEF IsFree, Empty
<1>7. HotIsTemporary
  BY DEF HotIsTemporary
<1>8. Sleepers
  BY DEF Sleepers
<1>9. Allocated
  BY DEF Allocated, Empty
<1>10. QED
  BY <1>1, <1>2, <1>3, <1>4, <1>5, <1>6, <1>7, <1>8, <1>9 DEF IInv

LEMMA StutterInvariant ==
  ASSUME IInv, UNCHANGED vars
  PROVE  IInv'
BY DEF IInv, vars, graphVars, TypeOK, Ownership, Exclusion, MutexHeld,
       CountersExact, FreeListExact, HotIsTemporary, Sleepers, Allocated,
       IsFree, Empty, Hopeless

LEMMA NextInvariant ==
  ASSUME IInv, [Next]_vars
  PROVE  IInv'
<1>1. CASE UNCHANGED vars
  BY <1>1, StutterInvariant
<1>2. CASE Next
  BY <1>1, <1>2, StepKinds, QuietInvariant, ReleaseInvariant, PruneInvariant,
     TakeInvariant, SetHotInvariant, WontReleaseInvariant
<1>3. QED
  BY <1>1, <1>2

(***************************************************************************)
(* The invariant holds in every reachable state of the graph, whatever the *)
(* projection and however many threads search.                             *)
(***************************************************************************)
THEOREM InvariantHolds == Spec => []IInv
<1>1. Init => IInv
  BY InitInvariant
<1>2. IInv /\ [Next]_vars => IInv'
  BY NextInvariant
<1>3. QED
  BY <1>1, <1>2, PTL DEF Spec

\* The variables keep their types; the counters never go below zero.
THEOREM TypeCorrect == Spec => []TypeOK
<1>1. IInv => TypeOK
  BY DEF IInv
<1>2. QED
  BY <1>1, InvariantHolds, PTL

\* The scopes of blocks in use are disjoint, as they do not interfere.
LEMMA UsedScopesDisjoint ==
  ASSUME IInv
  PROVE  ScopesDisjoint
<1> SUFFICES ASSUME NEW t \in Threads, NEW u \in Threads, t # u,
                    cur[t] # NoBlock, cur[u] # NoBlock
             PROVE  Scope(cur[t]) \cap Scope(cur[u]) = {}
  BY DEF ScopesDisjoint
<1>1. /\ cur[t] \in inuse /\ cur[u] \in inuse /\ cur[t] # cur[u]
      /\ cur[t] \in NBlocks /\ cur[u] \in NBlocks
  BY DEF IInv, Ownership, TypeOK
<1>2. QED
  BY <1>1, CoreHolds, UsedScopes

(***************************************************************************)
(* Two threads never work on a common open or closed list: the search      *)
(* needs no lock on them (next_nblock, search_nblock).                     *)
(***************************************************************************)
THEOREM ScopesNeverOverlap == Spec => []ScopesDisjoint
<1>1. IInv => ScopesDisjoint
  BY UsedScopesDisjoint
<1>2. QED
  BY <1>1, InvariantHolds, PTL

(***************************************************************************)
(* The counters that update_scope_sigmas, set_hot and set_cold update one  *)
(* by one are exact between the steps.                                     *)
(***************************************************************************)
THEOREM CountersAreExact == Spec => []CountersExact
<1>1. IInv => CountersExact
  BY DEF IInv
<1>2. QED
  BY <1>1, InvariantHolds, PTL

(***************************************************************************)
(* The heap that next_nblock takes its front of holds free blocks only,    *)
(* and lacks a free block only after prune_free_list dropped it.           *)
(***************************************************************************)
THEOREM FreeListIsExact == Spec => []FreeListExact
<1>1. IInv => FreeListExact
  BY DEF IInv
<1>2. QED
  BY <1>1, InvariantHolds, PTL

(***************************************************************************)
(* A hot block waits for a block in use and for no other hot block: the    *)
(* requests of set_hot cannot block each other.                            *)
(***************************************************************************)
THEOREM HotBlocksWaitForOwners == Spec => []HotIsTemporary
<1>1. IInv => HotIsTemporary
  BY DEF IInv
<1>2. QED
  BY <1>1, InvariantHolds, PTL

(***************************************************************************)
(* No thread sleeps while there is a block to take, or after the search is *)
(* over: no wake-up of next_nblock, set_cold or set_done is lost.          *)
(***************************************************************************)
THEOREM WakeupsAreNotLost == Spec => []NoLostWakeup
<1>1. IInv => NoLostWakeup
  <2> SUFFICES ASSUME IInv
               PROVE  NoLostWakeup
    OBVIOUS
  <2>1. ASSUME mutex = NoThread
        PROVE  \A t \in Threads : pc[t] # "retry"
    BY <2>1, ConstantsAssumption DEF IInv, MutexHeld, Locked
  <2>2. QED
    BY <2>1 DEF IInv, Sleepers, NoLostWakeup
<1>2. QED
  BY <1>1, InvariantHolds, PTL

(***************************************************************************)
(* Outside the lock a thread meets only blocks that NBlockMap has already  *)
(* allocated, under the lock.                                              *)
(***************************************************************************)
THEOREM AllocationIsLocked == Spec => []NoUnlockedAllocation
<1>1. IInv => NoUnlockedAllocation
  <2> SUFFICES ASSUME IInv, NEW t \in Threads, cur[t] # NoBlock
               PROVE  Scope(cur[t]) \subseteq created
    BY DEF NoUnlockedAllocation
  <2>1. cur[t] \in inuse /\ cur[t] \in NBlocks
    BY DEF IInv, Ownership, TypeOK
  <2>2. QED
    BY <2>1, ScopeInterferes DEF IInv, Allocated
<1>2. QED
  BY <1>1, InvariantHolds, PTL

-----------------------------------------------------------------------------
(***************************************************************************)
(* The end of the search                                                   *)
(***************************************************************************)

\* When next_nblock finds nothing to do, nothing is in use: this is where
\* a block that no other block interferes with would be overlooked.
LEMMA NothingToDoMeansUnused ==
  ASSUME IInv, NoIsolatedBlock, NothingToDo
  PROVE  inuse = {} /\ \A b \in NBlocks : Empty(b) \/ Hopeless(b)
BY CoreHolds, AllZero, NothingCounted DEF NothingToDo

\* What is left behind cannot improve on the incumbent.
LEMMA WorseThanBound ==
  ASSUME TypeOK, NEW b \in NBlocks, Empty(b) \/ Hopeless(b)
  PROVE  best[b] >= bound
<1>1. /\ best[b] \in Nat /\ bound \in 0..Infinity /\ Infinity \in Nat
      /\ Weight \in Nat \ {0}
  BY ConstantsAssumption DEF TypeOK, F
<1>2. bound * Weight \in Nat /\ bound * 1 <= bound * Weight
  BY <1>1
<1>3. QED
  BY <1>1, <1>2 DEF Empty, Hopeless

\* done is raised by Finish only; Exit repeats what has been done.
LEMMA DoneSteps ==
  ASSUME IInv, Next
  PROVE  /\ done => done'
         /\ done' /\ ~done => /\ NothingToDo
                              /\ UNCHANGED <<inuse, best, bound, cur>>
<1>1. CASE \E t \in Threads : Finish(t)
  BY <1>1 DEF Finish, graphVars
<1>2. CASE \E t \in Threads : Exit(t)
  BY <1>2 DEF Exit, IInv, Sleepers
<1>3. CASE UNCHANGED done
  BY <1>3 DEF IInv, TypeOK
<1>4. QED
  BY <1>1, <1>2, <1>3, ZenonT(60)
  DEF Next, GraphStep, SearchStep, Terminated, vars, LockNext, TryLockNext,
      Release, Wait, Wake, SpuriousWakeup, SeeDone, Prune, Take, TakeNode,
      AddChild, EndExpand, FoundGoal, LeaveEmpty, ShouldSwitch, WantHot,
      TrySetHot, SetHot, TryWontRelease, WontRelease

\* Once nothing is left, nothing comes back.
LEMMA NothingLeftStep ==
  ASSUME IInv, NoIsolatedBlock, NothingLeft, [Next]_vars
  PROVE  NothingLeft'
<1> USE DEF IInv
<1>1. CASE UNCHANGED vars
  BY <1>1 DEF vars, graphVars, NothingLeft, Empty, Hopeless
<1>2. CASE Next /\ ~done
  BY <1>2, DoneSteps, NothingToDoMeansUnused DEF NothingLeft, Empty, Hopeless
<1>3. CASE Next /\ done
  <2>1. inuse = {} /\ \A b \in NBlocks : Empty(b) \/ Hopeless(b)
    BY <1>3 DEF NothingLeft
  <2>2. \A t \in Threads : cur[t] = NoBlock
    BY <2>1 DEF Ownership
  <2>3. \A t \in Threads : pc[t] \notin Owning
    BY <2>2 DEF Ownership
  <2>4. UNCHANGED <<inuse, best, bound>>
    BY <1>3, <2>3, ZenonT(60)
    DEF Next, GraphStep, SearchStep, Terminated, vars, graphVars, LockNext,
        TryLockNext, Release, Finish, Wait, Wake, SpuriousWakeup, SeeDone,
        Prune, Take, TakeNode, AddChild, EndExpand, FoundGoal, LeaveEmpty,
        ShouldSwitch, WantHot, TrySetHot, SetHot, TryWontRelease, WontRelease,
        Exit, Owning
  <2>5. QED
    BY <2>1, <2>4 DEF NothingLeft, Empty, Hopeless
<1>4. QED
  BY <1>1, <1>2, <1>3

\* A client that is still searching shows that the search is not over.
LEMMA ClientIsNotDone ==
  ASSUME IInv, NothingLeft, NEW t \in Threads, pc[t] \in Owning
  PROVE  ~done
<1>1. cur[t] \in inuse
  BY DEF IInv, Ownership
<1>2. QED
  BY <1>1 DEF NothingLeft

(***************************************************************************)
(* When the search is declared over, no block is in use and no open list   *)
(* has a node that could improve on the incumbent, provided every block    *)
(* interferes with some other block.                                       *)
(***************************************************************************)
THEOREM SearchIsExhaustive ==
  ASSUME NoIsolatedBlock
  PROVE  Spec => []NothingLeft
<1>1. Init => NothingLeft
  BY DEF Init, NothingLeft
<1>2. IInv /\ NothingLeft /\ [Next]_vars => NothingLeft'
  BY NothingLeftStep
<1>3. QED
  BY <1>1, <1>2, InvariantHolds, PTL DEF Spec

\* A step that changes an open list is taken by the owner of its scope.
LEMMA WorkIsOwned ==
  ASSUME IInv, Next, NEW b \in NBlocks, best'[b] # best[b]
  PROVE  \E t \in Threads : cur[t] \in NBlocks /\ b \in Scope(cur[t])
<1>1. CASE \E t \in Threads : QuietStep(t)
  BY <1>1, QuietData DEF IInv
<1>2. CASE UNCHANGED best
  BY <1>2
<1>3. QED
  BY <1>1, <1>2, StepKinds
  DEF Release, Prune, Take, SetHot, WontRelease, vars

(***************************************************************************)
(* The order of the heap stays right without updates: the value of a block *)
(* cannot change while the block is on it.                                 *)
(***************************************************************************)
THEOREM HeapOrderIsStable == Spec => HeapKeysStable
<1>1. IInv /\ [Next]_vars
        => [\A b \in free_list \cap free_list' : best'[b] = best[b]]_vars
  <2> SUFFICES ASSUME IInv, Next, NEW b \in free_list
               PROVE  best'[b] = best[b]
    BY DEF vars
  <2>1. b \in NBlocks /\ IsFree(b)
    BY DEF IInv, TypeOK, FreeListExact
  <2>2. ASSUME best'[b] # best[b]
        PROVE  FALSE
    <3>1. PICK t \in Threads : cur[t] \in NBlocks /\ b \in Scope(cur[t])
      BY <2>1, <2>2, WorkIsOwned
    <3>2. cur[t] \in inuse
      BY <3>1, ConstantsAssumption DEF IInv, Ownership
    <3>3. cur[t] \notin Interferes[b] /\ b # cur[t]
      BY <2>1, <3>2, CountZero DEF IsFree, IInv, CountersExact
    <3>4. b \notin Interferes[cur[t]]
      BY <2>1, <3>1, <3>3, InterferesSymmetric
    <3>5. QED
      BY <3>1, <3>3, <3>4, ScopeInterferes
  <2>3. QED
    BY <2>2
<1>2. QED
  BY <1>1, InvariantHolds, PTL DEF Spec, HeapKeysStable

-----------------------------------------------------------------------------
(***************************************************************************)
(* Refinement: the graph implements the reservation of blocks              *)
(***************************************************************************)

LEMMA InitRefines ==
  ASSUME Init
  PROVE  Reservation!Init
BY DEF Init, Reservation!Init

\* Acquiring the heap's front reserves a block whose scope is unreserved.
LEMMA TakeRefines ==
  ASSUME IInv, NEW t \in Threads, Take(t)
  PROVE  Reservation!Reserve(t)
<1> USE DEF IInv
<1>1. PICK n \in NBlocks : /\ Front(n)
                           /\ cur' = [cur EXCEPT ![t] = n]
  BY DEF Take
<1>2. cur[t] = NoBlock /\ ~done /\ UNCHANGED <<best, bound, done>>
  BY DEF Take, AtWait, Ownership, Owning
<1>3. best[n] # Infinity
  BY <1>1 DEF Front, FreeListExact, IsFree, Empty
<1>4. ASSUME NEW u \in Threads, cur[u] # NoBlock
      PROVE  Reservation!Scope(cur[u]) \cap Reservation!Scope(n) = {}
  <2>1. cur[u] \in inuse /\ cur[u] \in NBlocks
    BY <1>4 DEF Ownership, TypeOK
  <2>2. cur[u] # n /\ cur[u] \notin Interferes[n]
    BY <1>1, <2>1, CoreHolds, FreeFacts DEF Front
  <2>3. Scope(cur[u]) \cap Scope(n) = {}
    BY <2>1, <2>2, ScopesOfStrangers
  <2>4. QED
    BY <2>3 DEF Scope, Reservation!Scope
<1>5. QED
  BY <1>1, <1>2, <1>3, <1>4 DEF Reservation!Reserve

\* A quiet step works on the scope it owns, improves the bound, declares
\* the search over, or is invisible.
LEMMA QuietRefines ==
  ASSUME NoIsolatedBlock, IInv, NEW t \in Threads, QuietStep(t)
  PROVE  Reservation!Next \/ UNCHANGED <<cur, best, bound, done>>
<1> USE DEF IInv
<1>1. UNCHANGED cur
  BY QuietFrame
<1>2. CASE TakeNode(t) \/ AddChild(t)
  <2>1. cur[t] \in NBlocks /\ cur[t] # NoBlock
    BY <1>2, ConstantsAssumption
    DEF TakeNode, AddChild, Ownership, Owning, TypeOK, Blocks
  <2>2. best' \in [NBlocks -> Reservation!Values] /\ UNCHANGED <<bound, done>>
    BY <1>2, QuietTypes DEF TypeOK, F, Reservation!Values, TakeNode, AddChild
  <2>3. \A b \in NBlocks \ Reservation!Scope(cur[t]) : best'[b] = best[b]
    BY QuietData DEF Scope, Reservation!Scope
  <2>4. Reservation!Work(t)
    BY <1>1, <2>1, <2>2, <2>3 DEF Reservation!Work
  <2>5. QED
    BY <2>4 DEF Reservation!Next
<1>3. CASE FoundGoal(t)
  <2>1. cur[t] # NoBlock /\ UNCHANGED <<best, done>>
    BY <1>3 DEF FoundGoal, Ownership, Owning
  <2>2. bound' \in F /\ bound \in F /\ bound' <= bound
    BY QuietTypes, QuietData DEF TypeOK
  <2>3. CASE bound' = bound
    BY <1>1, <2>1, <2>3
  <2>4. CASE bound' # bound
    <3>1. bound' \in Reservation!Values /\ bound' < bound
      BY <2>2, <2>4, ConstantsAssumption DEF F, Reservation!Values
    <3>2. QED
      BY <1>1, <2>1, <3>1 DEF Reservation!Improve, Reservation!Next
  <2>5. QED
    BY <2>3, <2>4
<1>4. CASE Finish(t)
  <2>1. NothingToDo /\ done' = TRUE /\ UNCHANGED <<best, bound>>
    BY <1>4 DEF Finish
  <2>2. inuse = {} /\ \A b \in NBlocks : best[b] >= bound
    BY <2>1, NothingToDoMeansUnused, WorseThanBound
  <2>3. \A u \in Threads : cur[u] = NoBlock
    BY <2>2 DEF Ownership
  <2>4. QED
    BY <1>1, <2>1, <2>2, <2>3 DEF Reservation!Declare, Reservation!Next
<1>5. CASE Exit(t)
  BY <1>1, <1>5 DEF Exit, Sleepers, TypeOK
<1>6. CASE UNCHANGED <<best, bound, done>>
  BY <1>1, <1>6
<1>7. QED
  BY <1>2, <1>3, <1>4, <1>5, <1>6
  DEF QuietStep, LockNext, TryLockNext, Wait, Wake, SpuriousWakeup, SeeDone,
      EndExpand, LeaveEmpty, ShouldSwitch, WantHot, TrySetHot, TryWontRelease

\* A client's step is work on its reservation, or a better bound.
LEMMA ClientRefines ==
  ASSUME IInv, NEW t \in Threads, ClientStep(t), UNCHANGED best \/ UNCHANGED bound
  PROVE  Reservation!Next \/ UNCHANGED <<cur, best, bound, done>>
<1>1. /\ cur[t] # NoBlock /\ UNCHANGED <<cur, done>>
      /\ best' \in [NBlocks -> Reservation!Values]
      /\ bound' \in Reservation!Values /\ bound' <= bound
      /\ bound \in Nat /\ bound' \in Nat
      /\ \A b \in NBlocks \ Reservation!Scope(cur[t]) : best'[b] = best[b]
  BY ConstantsAssumption
  DEF ClientStep, Outside, IInv, TypeOK, Ownership, Owning, F,
      Reservation!Values, Scope, Reservation!Scope
<1>2. CASE UNCHANGED bound
  BY <1>1, <1>2 DEF Reservation!Work, Reservation!Next
<1>3. CASE UNCHANGED best /\ bound' # bound
  BY <1>1, <1>3 DEF Reservation!Improve, Reservation!Next
<1>4. QED
  BY <1>2, <1>3

LEMMA NextRefines ==
  ASSUME NoIsolatedBlock, IInv, [Next]_vars
  PROVE  Reservation!Next \/ UNCHANGED <<cur, best, bound, done>>
<1>1. CASE UNCHANGED vars
  BY <1>1 DEF vars
<1>2. ASSUME NEW t \in Threads, Take(t)
      PROVE  Reservation!Next
  BY <1>2, TakeRefines DEF Reservation!Next
<1>3. ASSUME NEW t \in Threads, Release(t)
      PROVE  Reservation!Next
  <2>1. cur[t] # NoBlock
    BY <1>3 DEF Release, IInv, Ownership, Owning
  <2>2. QED
    BY <1>3, <2>1 DEF Release, Reservation!Return, Reservation!Next
<1>4. ASSUME NEW t \in Threads, Prune(t) \/ SetHot(t) \/ WontRelease(t)
      PROVE  UNCHANGED <<cur, best, bound, done>>
  BY <1>4 DEF Prune, SetHot, WontRelease
<1>5. QED
  BY <1>1, <1>2, <1>3, <1>4, StepKinds, QuietRefines

(***************************************************************************)
(* The graph implements BlockReservation: with its locks, counters, heap   *)
(* and hot blocks hidden, all a thread can observe is that it gets blocks  *)
(* with disjoint scopes, and that the search ends when nothing is left.    *)
(***************************************************************************)
THEOREM ImplementsReservation ==
  ASSUME NoIsolatedBlock
  PROVE  Spec => ReservationSpec
<1>1. Init => Reservation!Init
  BY InitRefines
<1>2. IInv /\ [Next]_vars => [Reservation!Next]_(Reservation!vars)
  BY NextRefines DEF Reservation!vars
<1>3. QED
  BY <1>1, <1>2, InvariantHolds, PTL
  DEF Spec, ReservationSpec, Reservation!Spec
=============================================================================
