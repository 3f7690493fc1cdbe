------------------------ MODULE SharedSearchesProofs ------------------------
(***************************************************************************)
(* Proofs about the searches that share their lists, for any number of     *)
(* threads and any state space; and, in the parts after those, about the   *)
(* two domains, for any worlds, puzzles and projections.  Neither uses the *)
(* other's assumptions.                                                    *)
(***************************************************************************)
EXTENDS SharedSearches, DomainWalk, SearchSpaceProofs

-----------------------------------------------------------------------------
(***************************************************************************)
(* Types                                                                   *)
(***************************************************************************)

\* A state and a cost, or a label.
Pairs == States \X Nat

Places ==
  {"loop", "lock", "take", "test", "prune", "goal", "expand", "child", "dup",
   "add", "close", "spin", "rejoin", "end", "crashed", "idle", "check",
   "check2", "recheck", "recheck2", "bound", "update", "start", "wait",
   "complete", "head", "fill", "signal", "collect", "join", "joined", "next",
   "finish", "clear"}

ModeType ==
  /\ algo \in {"pastar", "lpastar", "kbfs", "syncwastar"}
  /\ weight \in [Threads -> Nat \ {0}] /\ dd \in BOOLEAN
  /\ best \in Nat /\ bound \in Nat /\ done \in BOOLEAN
  /\ mut \in 0..N /\ count \in Int
  /\ algo = "syncwastar" => count \in 0..Len(Weights)
  /\ batch \in 0..N /\ turn \in 0..N
  /\ signalled \in [Threads -> Nat]

ListType ==
  /\ open \in [0..N -> SUBSET Pairs] /\ closed \in [0..N -> SUBSET Pairs]
  /\ g \in [Nodes -> Nat]
  /\ algo # "lpastar" =>
       \A o \in 0..N : open[o] \subseteq Nodes /\ closed[o] \subseteq Nodes

HandType ==
  /\ DOMAIN pc = 0..N
  /\ cur \in [Threads -> Pairs]
  /\ todo \in [Threads -> SUBSET Pairs]
  /\ kid \in [Threads -> Pairs \X Pairs]
  /\ algo # "lpastar" =>
       \A t \in Threads : cur[t] \in Nodes /\ kid[t][2] \in Nodes

TypeOK == ModeType /\ ListType /\ HandType

\* The children of a node are states with costs.
LEMMA ChildrenType ==
  ASSUME NEW s \in States, NEW v \in Nat
  PROVE  Children(s, v) \subseteq Pairs
BY SpaceAssumption DEF Children, Pairs

LEMMA Basics ==
  /\ N \in Nat /\ N # 0 /\ Root \in Nodes /\ Root \in Pairs
  /\ Nodes \subseteq Pairs /\ Shared \in 0..N /\ Main \in 0..N
  /\ Threads \subseteq 0..N /\ Threads \subseteq Nat
BY SpaceAssumption, SharedAssumption DEF Root, Nodes, Pairs, Shared, Main, Threads

LEMMA GoType ==
  ASSUME TypeOK, NEW t \in 0..N, NEW from, NEW to \in Places, Go(t, from, to)
  PROVE  /\ pc[t] = from /\ pc'[t] = to
         /\ \A u \in 0..N : u # t => pc'[u] = pc[u]
BY DEF TypeOK, HandType, Go

LEMMA PAType ==
  ASSUME TypeOK, NEW t \in Threads, PAStarStep(t)
  PROVE  TypeOK'
<1> USE Basics DEF TypeOK, mode, signals, Go
<1>0. algo = "pastar" /\ algo' = algo
  BY DEF PAStarStep, PALoop, PALock, PAIdle, PATake, PACrash, PASpin, PARejoin, PATest, PAPrune, PAGoal, PAExpand, PAChild, PAExpanded, PADup, PAAdd, PAClose
<1>1. CASE PALoop(t)
  BY <1>0, <1>1 DEF PALoop, ModeType, ListType, HandType
<1>2. CASE PALock(t)
  BY <1>0, <1>2 DEF PALock, ModeType, ListType, HandType
<1>3. CASE PAIdle(t)
  <2>1. ModeType'
    BY <1>0, <1>3 DEF PAIdle, ModeType
  <2>2. ListType'
    BY <1>0, <1>3 DEF PAIdle, ListType
  <2>3. HandType'
    BY <1>0, <1>3 DEF PAIdle, HandType
  <2>4. QED
    BY <2>1, <2>2, <2>3
<1>4. CASE PATake(t)
  <2>1. ModeType'
    BY <1>0, <1>4 DEF PATake, Nobody, ModeType
  <2>2. ListType'
    BY <1>0, <1>4 DEF PATake, Shared, ListType
  <2>3. HandType'
    BY <1>0, <1>4 DEF PATake, ListType, First, HandType
  <2>4. QED
    BY <2>1, <2>2, <2>3
<1>5. CASE PACrash(t)
  BY <1>0, <1>5 DEF PACrash, ModeType, ListType, HandType
<1>6. CASE PASpin(t)
  BY <1>0, <1>6 DEF PASpin, ModeType, ListType, HandType
<1>7. CASE PARejoin(t)
  <2>1. ModeType'
    BY <1>0, <1>7 DEF PARejoin, ModeType
  <2>2. ListType'
    BY <1>0, <1>7 DEF PARejoin, ListType
  <2>3. HandType'
    BY <1>0, <1>7 DEF PARejoin, HandType
  <2>4. QED
    BY <2>1, <2>2, <2>3
<1>8. CASE PATest(t)
  BY <1>0, <1>8 DEF PATest, ModeType, ListType, HandType
<1>9. CASE PAPrune(t)
  BY <1>0, <1>9 DEF PAPrune, Shared, ModeType, ListType, HandType
<1>10. CASE PAGoal(t)
  <2>1. ModeType'
    BY <1>0, <1>10 DEF PAGoal, HandType, ListType, ModeType
  <2>2. ListType'
    BY <1>0, <1>10 DEF PAGoal, ListType
  <2>3. HandType'
    BY <1>0, <1>10 DEF PAGoal, HandType
  <2>4. QED
    BY <2>1, <2>2, <2>3
<1>11. CASE PAExpand(t)
  <2>1. cur[t][1] \in States /\ g[cur[t]] \in Nat
    BY <1>0 DEF Nodes, HandType, ListType
  <2>2. Children(cur[t][1], g[cur[t]]) \subseteq Pairs
    BY <2>1, ChildrenType
  <2>3. ModeType'
    BY <1>0, <1>11, <2>1, <2>2 DEF PAExpand, ModeType
  <2>4. ListType'
    BY <1>0, <1>11, <2>1, <2>2 DEF PAExpand, ListType
  <2>5. HandType'
    BY <1>0, <1>11, <2>1, <2>2 DEF PAExpand, HandType
  <2>6. QED
    BY <2>3, <2>4, <2>5
<1>12. CASE PAChild(t)
  <2>1. ModeType'
    BY <1>0, <1>12 DEF PAChild, ModeType
  <2>2. ListType'
    BY <1>0, <1>12 DEF PAChild, ListType
  <2>3. HandType'
    <3>1. PICK ch \in todo[t] :
            /\ todo' = [todo EXCEPT ![t] = @ \ {ch}]
            /\ \/ kid' = [kid EXCEPT ![t] = <<ch, <<ch[1], t>> >>]
               \/ \E dup \in closed[Shared] : kid' = [kid EXCEPT ![t] = <<ch, dup>>]
      <4>1. PICK ch \in todo[t] :
              /\ todo' = [todo EXCEPT ![t] = @ \ {ch}]
              /\ \/ kid' = [kid EXCEPT ![t] = <<ch, <<ch[1], t>> >>]
                 \/ \E dup \in Find(closed[Shared], ch[1]) :
                      kid' = [kid EXCEPT ![t] = <<ch, dup>>]
        BY <1>12 DEF PAChild
      <4>2. Find(closed[Shared], ch[1]) \subseteq closed[Shared]
        BY DEF Find
      <4>3. QED
        BY <4>1, <4>2
    <3>2. ch \in Pairs /\ <<ch[1], t>> \in Nodes
      BY DEF HandType, Nodes, Pairs
    <3>3. closed[Shared] \subseteq Nodes
      BY <1>0 DEF ListType, Shared
    <3>4. \E m \in Nodes : kid' = [kid EXCEPT ![t] = <<ch, m>>]
      BY <3>1, <3>2, <3>3
    <3>5. DOMAIN pc' = 0..N /\ cur' = cur
      BY <1>12 DEF PAChild, HandType
    <3>6. todo' \in [Threads -> SUBSET Pairs]
      BY <3>1 DEF HandType
    <3>7. kid' \in [Threads -> Pairs \X Pairs] /\ \A u \in Threads : kid'[u][2] \in Nodes
      BY <1>0, <3>2, <3>4 DEF HandType
    <3>8. QED
      BY <1>0, <3>5, <3>6, <3>7 DEF HandType
  <2>4. QED
    BY <2>1, <2>2, <2>3
<1>13. CASE PAExpanded(t)
  BY <1>0, <1>13 DEF PAExpanded, ModeType, ListType, HandType
<1>14. CASE PADup(t)
  <2>1. kid[t][1][2] \in Nat /\ kid[t][2] \in Nodes /\ kid[t][2] \in Pairs
    BY <1>0 DEF Pairs, HandType
  <2>2. ModeType'
    BY <1>0, <1>14, <2>1 DEF PADup, ModeType
  <2>3. ListType'
    <3>1. g' \in [Nodes -> Nat]
      BY <1>14, <2>1 DEF PADup, ListType
    <3>2. open' \in [0..N -> SUBSET Pairs] /\ closed' = closed
      <4>1. open' = open \/ open' = [open EXCEPT ![0] = @ \cup {kid[t][2]}]
        BY <1>14 DEF PADup, Shared
      <4>2. closed' = closed
        BY <1>14 DEF PADup
      <4>3. open \in [0..N -> SUBSET Pairs]
        BY DEF ListType
      <4>4. open' \in [0..N -> SUBSET Pairs]
        BY <2>1, <4>1, <4>3
      <4>5. QED
        BY <4>2, <4>4
    <3>3. \A o \in 0..N : open'[o] \subseteq Nodes
      <4>1. open' = open \/ open' = [open EXCEPT ![0] = @ \cup {kid[t][2]}]
        BY <1>14 DEF PADup, Shared
      <4>2. \A o \in 0..N : open[o] \subseteq Nodes
        BY <1>0 DEF ListType
      <4>3. open \in [0..N -> SUBSET Pairs]
        BY DEF ListType
      <4>4. ASSUME NEW o \in 0..N
            PROVE  open'[o] \subseteq Nodes
        <5>1. open'[o] = open[o] \/ open'[o] = open[o] \cup {kid[t][2]}
          BY <4>1, <4>3
        <5>2. QED
          BY <2>1, <4>2, <5>1
      <4>5. QED
        BY <4>4
    <3>4. QED
      BY <1>0, <3>1, <3>2, <3>3 DEF ListType
  <2>4. HandType'
    BY <1>0, <1>14, <2>1 DEF PADup, HandType
  <2>5. QED
    BY <2>2, <2>3, <2>4
<1>15. CASE PAAdd(t)
  <2>1. kid[t][1][2] \in Nat /\ kid[t][2] \in Nodes /\ kid[t][2] \in Pairs
    BY <1>0 DEF Pairs, HandType
  <2>2. ModeType'
    BY <1>0, <1>15, <2>1 DEF PAAdd, ModeType
  <2>3. ListType'
    BY <1>0, <1>15, <2>1 DEF PAAdd, Shared, ListType
  <2>4. HandType'
    BY <1>0, <1>15, <2>1 DEF PAAdd, HandType
  <2>5. QED
    BY <2>2, <2>3, <2>4
<1>16. CASE PAClose(t)
  <2>1. kid[t][2] \in Nodes /\ kid[t][2] \in Pairs
    BY <1>0 DEF Pairs, HandType
  <2>2. ModeType'
    BY <1>0, <1>16, <2>1 DEF PAClose, ModeType
  <2>3. ListType'
    BY <1>0, <1>16, <2>1 DEF PAClose, Shared, ListType
  <2>4. HandType'
    BY <1>0, <1>16, <2>1 DEF PAClose, HandType
  <2>5. QED
    BY <2>2, <2>3, <2>4
<1>17. QED
  BY <1>1, <1>2, <1>3, <1>4, <1>5, <1>6, <1>7, <1>8, <1>9, <1>10, <1>11,
     <1>12, <1>13, <1>14, <1>15, <1>16 DEF PAStarStep

LEMMA LPType ==
  ASSUME TypeOK, NEW t \in Threads, LPAStarStep(t)
  PROVE  TypeOK'
<1> USE Basics DEF TypeOK, mode, signals, Go
<1>0. algo = "lpastar" /\ algo' = algo
  BY DEF LPAStarStep, LPLoop, LPTake, LPIdle, LPCheck, LPDone, LPSpin, LPRecheck, LPRecheck2, LPRejoin, LPTest, LPGoal, LPBound, LPExpand, LPChild, LPExpanded, LPUpdate, LPAdd
<1>1. CASE LPLoop(t)
  <2>1. ModeType'
    BY <1>0, <1>1 DEF LPLoop, ModeType
  <2>2. ListType'
    BY <1>0, <1>1 DEF LPLoop, ListType
  <2>3. HandType'
    BY <1>0, <1>1 DEF LPLoop, HandType
  <2>4. QED
    BY <2>1, <2>2, <2>3
<1>2. CASE LPTake(t)
  <2>1. ModeType'
    BY <1>0, <1>2 DEF LPTake, ModeType
  <2>2. ListType'
    BY <1>0, <1>2 DEF LPTake, ListType
  <2>3. HandType'
    BY <1>0, <1>2 DEF LPTake, ListType, First, HandType
  <2>4. QED
    BY <2>1, <2>2, <2>3
<1>3. CASE LPIdle(t)
  BY <1>0, <1>3 DEF LPIdle, ModeType, ListType, HandType
<1>4. CASE LPCheck(t)
  BY <1>0, <1>4 DEF LPCheck, ModeType, ListType, HandType
<1>5. CASE LPDone(t)
  BY <1>0, <1>5 DEF LPDone, ModeType, ListType, HandType
<1>6. CASE LPSpin(t)
  BY <1>0, <1>6 DEF LPSpin, ModeType, ListType, HandType
<1>7. CASE LPRecheck(t)
  BY <1>0, <1>7 DEF LPRecheck, ModeType, ListType, HandType
<1>8. CASE LPRecheck2(t)
  <2>1. ModeType'
    BY <1>0, <1>8 DEF LPRecheck2, ModeType
  <2>2. ListType'
    BY <1>0, <1>8 DEF LPRecheck2, ListType
  <2>3. HandType'
    BY <1>0, <1>8 DEF LPRecheck2, HandType
  <2>4. QED
    BY <2>1, <2>2, <2>3
<1>9. CASE LPRejoin(t)
  BY <1>0, <1>9 DEF LPRejoin, ModeType, ListType, HandType
<1>10. CASE LPTest(t)
  BY <1>0, <1>10 DEF LPTest, ModeType, ListType, HandType
<1>11. CASE LPGoal(t)
  <2>1. cur[t][2] \in Nat /\ {best, cur[t][2]} \in SUBSET Nat
    BY DEF Pairs, HandType, ModeType
  <2>2. best' \in Nat
    BY <1>11, <2>1, MinIsLeast DEF LPGoal
  <2>3. QED
    BY <1>0, <1>11, <2>1, <2>2 DEF LPGoal, ModeType, ListType, HandType
<1>12. CASE LPBound(t)
  <2>1. cur[t][2] \in Nat /\ {bound, cur[t][2]} \in SUBSET Nat
    BY DEF Pairs, HandType, ModeType
  <2>2. bound' \in Nat
    BY <1>12, <2>1, MinIsLeast DEF LPBound
  <2>3. QED
    BY <1>0, <1>12, <2>1, <2>2 DEF LPBound, ModeType, ListType, HandType
<1>13. CASE LPExpand(t)
  <2>1. Children(cur[t][1], cur[t][2]) \subseteq Pairs
    BY ChildrenType DEF Pairs, HandType
  <2>2. QED
    BY <1>0, <1>13, <2>1 DEF LPExpand, ModeType, ListType, HandType
<1>14. CASE LPChild(t)
  BY <1>0, <1>14 DEF LPChild, ModeType, ListType, HandType
<1>15. CASE LPExpanded(t)
  BY <1>0, <1>15 DEF LPExpanded, ModeType, ListType, HandType
<1>16. CASE LPUpdate(t)
  <2>1. kid[t][1] \in Pairs
    BY DEF HandType
  <2>2. QED
    BY <1>0, <1>16, <2>1 DEF LPUpdate, ModeType, ListType, HandType
<1>17. CASE LPAdd(t)
  <2>1. kid[t][1] \in Pairs
    BY DEF HandType
  <2>2. QED
    BY <1>0, <1>17, <2>1 DEF LPAdd, ModeType, ListType, HandType
<1>18. QED
  BY <1>1, <1>2, <1>3, <1>4, <1>5, <1>6, <1>7, <1>8, <1>9, <1>10, <1>11,
     <1>12, <1>13, <1>14, <1>15, <1>16, <1>17 DEF LPAStarStep

LEMMA KType ==
  ASSUME TypeOK, NEW t \in 0..N, KBFSStep(t)
  PROVE  TypeOK'
<1> USE Basics DEF TypeOK, mode, signals, Go, KRest, lists, Main, Shared
<1>0. algo = "kbfs" /\ UNCHANGED mode
  BY DEF KBFSStep, KComplete, KWake, KExpand, KStart, KHead, KTake, KReset,
     KSignal, KWait, KChild, KCollected, KJoin, KEnd
<1>1. ASSUME t # Main, KComplete(t) PROVE TypeOK'
  BY <1>0, <1>1 DEF KComplete, ModeType, ListType, HandType
<1>2. ASSUME t # Main, KWake(t) PROVE TypeOK'
  <2>1. t \in Threads
    BY <1>2 DEF Threads
  <2>2. ModeType'
    BY <1>2, <2>1 DEF KWake, ModeType
  <2>3. ListType' /\ HandType'
    BY <1>0, <1>2 DEF KWake, ListType, HandType
  <2>4. QED
    BY <2>2, <2>3
<1>3. ASSUME t # Main, KExpand(t) PROVE TypeOK'
  <2>1. t \in Threads
    BY <1>3 DEF Threads
  <2>2. cur[t][1] \in States /\ g[cur[t]] \in Nat
    BY <1>0, <2>1 DEF Nodes, HandType, ListType
  <2>3. Children(cur[t][1], g[cur[t]]) \subseteq Pairs
    BY <2>2, ChildrenType
  <2>4. ModeType' /\ ListType'
    BY <1>0, <1>3 DEF KExpand, ModeType, ListType
  <2>5. HandType'
    BY <1>0, <1>3, <2>1, <2>3 DEF KExpand, HandType
  <2>6. QED
    BY <2>4, <2>5
<1>4. CASE KStart
  BY <1>0, <1>4 DEF KStart, ModeType, ListType, HandType
<1>5. CASE KHead
  BY <1>0, <1>5 DEF KHead, ModeType, ListType, HandType
<1>6. CASE KTake
  <2>1. PICK n \in open[0] :
          /\ open' = [open EXCEPT ![0] = @ \ {n}]
          /\ KGoal(n) \/ KGive(n)
    BY <1>6 DEF KTake, First
  <2>2. n \in Nodes /\ n \in Pairs /\ g[n] \in Nat
    BY <1>0, <2>1 DEF ListType
  <2>3. batch < N /\ batch \in 0..N /\ batch + 1 \in Threads
    BY <1>6 DEF KTake, ModeType, Threads
  <2>4. CASE KGoal(n)
    BY <1>0, <1>6, <2>1, <2>2, <2>4 DEF KTake, KGoal, ModeType, ListType, HandType
  <2>5. CASE KGive(n)
    <3>1. ModeType'
      BY <1>0, <1>6, <2>3, <2>5 DEF KTake, KGive, ModeType
    <3>2. ListType'
      BY <1>0, <1>6, <2>1, <2>2, <2>5 DEF KTake, KGive, ListType
    <3>3. HandType'
      BY <1>0, <1>6, <2>2, <2>3, <2>5 DEF KTake, KGive, HandType
    <3>4. QED
      BY <3>1, <3>2, <3>3
  <2>6. QED
    BY <2>1, <2>4, <2>5
<1>7. CASE KReset
  BY <1>0, <1>7 DEF KReset, ModeType, ListType, HandType
<1>8. CASE KSignal
  <2>1. turn + 1 \in Threads /\ turn + 1 \in 0..N
    BY <1>8 DEF KSignal, ModeType, Threads
  <2>2. ModeType'
    BY <1>0, <1>8, <2>1 DEF KSignal, ModeType
  <2>3. ListType' /\ HandType'
    BY <1>0, <1>8 DEF KSignal, ListType, HandType
  <2>4. QED
    BY <2>2, <2>3
<1>9. CASE KWait
  <2>1. {1, batch} \in SUBSET Nat /\ {1, batch} \subseteq 0..N
    BY DEF ModeType
  <2>2. turn' \in 0..N
    BY <1>9, <2>1, MinIsLeast DEF KWait
  <2>3. QED
    BY <1>0, <1>9, <2>2 DEF KWait, ModeType, ListType, HandType
<1>10. CASE KChild
  <2>1. turn \in Threads
    BY <1>10 DEF KChild, ModeType, Threads
  <2>2. PICK ch \in todo[turn] :
          /\ todo' = [todo EXCEPT ![turn] = @ \ {ch}]
          /\ \/ /\ g' = [g EXCEPT ![<<ch[1], 0>>] = ch[2]]
                /\ open' = [open EXCEPT ![0] = @ \cup {<<ch[1], 0>>}]
             \/ UNCHANGED <<g, open>>
          /\ closed' = [closed EXCEPT ![0] = @ \cup {<<ch[1], 0>>}]
    BY <1>10 DEF KChild
  <2>3. ch[2] \in Nat /\ <<ch[1], 0>> \in Nodes /\ <<ch[1], 0>> \in Pairs
    BY <2>1, <2>2 DEF HandType, Pairs, Nodes
  <2>4. ModeType'
    BY <1>0, <1>10 DEF KChild, ModeType
  <2>5. ListType'
    <3>1. g' \in [Nodes -> Nat]
      BY <2>2, <2>3 DEF ListType
    <3>2. open' = open \/ open' = [open EXCEPT ![0] = @ \cup {<<ch[1], 0>>}]
      BY <2>2
    <3>3. /\ open' \in [0..N -> SUBSET Pairs]
          /\ \A o \in 0..N : open'[o] \subseteq Nodes
      BY <1>0, <2>3, <3>2 DEF ListType
    <3>4. /\ closed' \in [0..N -> SUBSET Pairs]
          /\ \A o \in 0..N : closed'[o] \subseteq Nodes
      BY <1>0, <2>2, <2>3 DEF ListType
    <3>5. QED
      BY <3>1, <3>3, <3>4 DEF ListType
  <2>6. HandType'
    BY <1>0, <1>10, <2>1, <2>2 DEF KChild, HandType
  <2>7. QED
    BY <2>4, <2>5, <2>6
<1>11. CASE KCollected
  <2>1. turn' \in 0..N
    BY <1>11 DEF KCollected, ModeType
  <2>2. DOMAIN pc' = 0..N
    BY <1>11 DEF KCollected, HandType
  <2>3. QED
    BY <1>0, <1>11, <2>1, <2>2 DEF KCollected, ModeType, ListType, HandType
<1>12. CASE KJoin
  <2>1. signalled' \in [Threads -> Nat]
    BY <1>12 DEF KJoin, ModeType
  <2>2. QED
    BY <1>0, <1>12, <2>1 DEF KJoin, ModeType, ListType, HandType
<1>13. CASE KEnd
  BY <1>0, <1>13 DEF KEnd, ModeType, ListType, HandType
<1>14. QED
  BY <1>1, <1>2, <1>3, <1>4, <1>5, <1>6, <1>7, <1>8, <1>9, <1>10, <1>11,
     <1>12, <1>13 DEF KBFSStep

\* What SExpand does to the nodes of its thread: every child is closed, with a
\* cost that is at most the one on this path; what is new, or has become
\* cheaper and may be opened again, is open.
LEMMA ExpandEffect ==
  ASSUME TypeOK, algo = "syncwastar", NEW t \in Threads, SExpand(t)
  PROVE  LET s == cur[t][1]
             v == g[cur[t]]
         IN  /\ s \in States /\ v \in Nat
             /\ g' \in [Nodes -> Nat]
             /\ \A n \in Nodes :
                  \/ g'[n] = g[n]
                  \/ /\ n[2] = t
                     /\ \E e \in Edges[s] : e.to = n[1] /\ g'[n] = v + e.cost
                     /\ n \in closed[t] => g'[n] < g[n]
                     /\ n \notin closed[t] \/ n \in open[t] \/ ~dd => n \in open'[t]
             /\ \A e \in Edges[s] :
                  /\ g'[<<e.to, t>>] <= v + e.cost
                  /\ <<e.to, t>> \in closed'[t]
                  /\ <<e.to, t>> \in closed[t] \/ <<e.to, t>> \in open'[t]
             /\ \A n \in closed'[t] \ closed[t] :
                  n[2] = t /\ \E e \in Edges[s] : e.to = n[1] /\ g'[n] = v + e.cost
             /\ open[t] \subseteq open'[t]
             /\ open'[t] \ open[t] \subseteq closed'[t]
             /\ closed[t] \subseteq closed'[t]
             /\ \A n \in open'[t] \ open[t] : n \in closed[t] => g'[n] < g[n]
             /\ open' = [open EXCEPT ![t] = open'[t]]
             /\ closed' = [closed EXCEPT ![t] = closed'[t]]
             /\ open'[t] \subseteq Nodes /\ closed'[t] \subseteq Nodes
<1> DEFINE s == cur[t][1]
           v == g[cur[t]]
           Costs(x) == {ch[2] : ch \in {d \in Children(s, v) : d[1] = x}}
           D == {e.to : e \in Edges[s]}
           cost == [x \in D |-> Min(Costs(x))]
           known == {<<x, t>> : x \in DOMAIN cost} \cap closed[t]
           cheaper == {n \in known : g[n] > cost[n[1]]}
           new == {<<x, t>> : x \in DOMAIN cost} \ known
           back == {n \in cheaper : ~dd \/ n \in open[t]}
<1>1. s \in States /\ v \in Nat /\ t \in 0..N
  BY Basics DEF TypeOK, ListType, HandType, Nodes
<1>2. /\ g' = [n \in Nodes |->
                 IF n \in cheaper \cup new THEN cost[n[1]] ELSE g[n]]
      /\ open' = [open EXCEPT ![t] = @ \cup new \cup back]
      /\ closed' = [closed EXCEPT ![t] = @ \cup new]
  BY Zenon DEF SExpand
<1>3. ASSUME NEW x \in D
      PROVE  /\ x \in States /\ cost[x] \in Nat
             /\ \E e \in Edges[s] : e.to = x /\ cost[x] = v + e.cost
             /\ \A e \in Edges[s] : e.to = x => cost[x] <= v + e.cost
  <2>1. Costs(x) = {v + e.cost : e \in {d \in Edges[s] : d.to = x}}
    <3>1. ASSUME NEW k \in Costs(x) PROVE \E e \in Edges[s] : e.to = x /\ k = v + e.cost
      BY DEF Children
    <3>2. ASSUME NEW e \in Edges[s], e.to = x PROVE v + e.cost \in Costs(x)
      <4>1. <<e.to, v + e.cost>> \in Children(s, v)
        BY DEF Children
      <4>2. QED
        BY <3>2, <4>1
    <3>3. QED
      BY <3>1, <3>2
  <2>2. Costs(x) # {} /\ Costs(x) \in SUBSET Nat
    <3>1. \E e \in Edges[s] : e.to = x
      OBVIOUS
    <3>2. \A e \in Edges[s] : v + e.cost \in Nat
      BY <1>1, SpaceAssumption
    <3>3. QED
      BY <2>1, <3>1, <3>2
  <2>3. Min(Costs(x)) \in Costs(x) /\ \A k \in Costs(x) : Min(Costs(x)) <= k
    BY <2>2, MinIsLeast
  <2>4. cost[x] = Min(Costs(x))
    OBVIOUS
  <2>5. x \in States
    BY <1>1, SpaceAssumption
  <2>6. QED
    BY <2>1, <2>2, <2>3, <2>4, <2>5
<1>4. new \cup known = {<<x, t>> : x \in D}
  <2>1. DOMAIN cost = D
    OBVIOUS
  <2>2. QED
    BY <2>1
<1>5. \A n \in new \cup known : n[1] \in D /\ n[2] = t /\ n \in Nodes /\ n = <<n[1], t>>
  <2>1. ASSUME NEW x \in D PROVE <<x, t>> \in Nodes
    BY <1>1, <1>3 DEF Nodes
  <2>2. QED
    BY <1>4, <2>1
<1>6. new \cap closed[t] = {} /\ known \subseteq closed[t] /\ cheaper \subseteq known
      /\ back = {n \in cheaper : ~dd \/ n \in open[t]}
      /\ \A n \in known : n \in cheaper <=> g[n] > cost[n[1]]
  BY <1>4, <1>5
<1>7. /\ open'[t] = open[t] \cup new \cup back /\ closed'[t] = closed[t] \cup new
      /\ open[t] \subseteq Nodes /\ closed[t] \subseteq Nodes
      /\ open' = [open EXCEPT ![t] = open'[t]]
      /\ closed' = [closed EXCEPT ![t] = closed'[t]]
      /\ g \in [Nodes -> Nat]
  BY <1>1, <1>2 DEF TypeOK, ListType
<1>8. \A n \in Nodes : g'[n] = IF n \in cheaper \cup new THEN cost[n[1]] ELSE g[n]
  BY <1>2
<1> HIDE DEF cost, known, cheaper, new, back
<1>9. g' \in [Nodes -> Nat]
  BY <1>2, <1>3, <1>5, <1>6, <1>7
<1>10. ASSUME NEW n \in Nodes, g'[n] # g[n]
       PROVE  /\ n[2] = t
              /\ \E e \in Edges[s] : e.to = n[1] /\ g'[n] = v + e.cost
              /\ n \in closed[t] => g'[n] < g[n]
              /\ n \notin closed[t] \/ n \in open[t] \/ ~dd => n \in open'[t]
  BY <1>3, <1>5, <1>6, <1>7, <1>8, <1>9, <1>10
<1>11. ASSUME NEW e \in Edges[s]
       PROVE  /\ g'[<<e.to, t>>] <= v + e.cost
              /\ <<e.to, t>> \in closed'[t]
              /\ <<e.to, t>> \in closed[t] \/ <<e.to, t>> \in open'[t]
  <2>1. e.to \in D /\ <<e.to, t>> \in new \cup known /\ e.cost \in Nat
    BY <1>1, <1>4, SpaceAssumption
  <2>2. <<e.to, t>> \in Nodes /\ cost[e.to] <= v + e.cost /\ cost[e.to] \in Nat
    BY <1>3, <1>5, <2>1
  <2>3. QED
    BY <1>1, <1>5, <1>6, <1>7, <1>8, <1>9, <2>1, <2>2
<1>12. /\ \A n \in closed'[t] \ closed[t] :
            n[2] = t /\ \E e \in Edges[s] : e.to = n[1] /\ g'[n] = v + e.cost
       /\ open[t] \subseteq open'[t] /\ open'[t] \ open[t] \subseteq closed'[t]
       /\ closed[t] \subseteq closed'[t]
       /\ open'[t] \subseteq Nodes /\ closed'[t] \subseteq Nodes
  BY <1>3, <1>5, <1>6, <1>7, <1>8
<1>13. ASSUME NEW n \in open'[t] \ open[t], n \in closed[t]
       PROVE  g'[n] < g[n]
  <2>1. n \in cheaper /\ n \in known /\ n \in Nodes
    BY <1>5, <1>6, <1>7, <1>13
  <2>2. g'[n] = cost[n[1]] /\ cost[n[1]] \in Nat /\ g[n] \in Nat /\ g[n] > cost[n[1]]
    BY <1>3, <1>5, <1>6, <1>7, <1>8, <2>1
  <2>3. QED
    BY <2>2
<1>14. QED
  BY <1>1, <1>7, <1>9, <1>10, <1>11, <1>12, <1>13

LEMMA SType ==
  ASSUME TypeOK, NEW t \in Threads, SyncWAStarStep(t)
  PROVE  TypeOK'
<1> USE Basics DEF TypeOK, mode, signals, Go
<1>0. algo = "syncwastar" /\ algo' = algo
  BY DEF SyncWAStarStep, SNext, SGiveUp, STake, SGoal, SFinish, SExpand, SClear
<1>1. CASE SNext(t)
  <2>1. Weights \in Seq(Nat \ {0}) /\ Len(Weights) \in Nat /\ count \in 0..Len(Weights)
    BY <1>0, SharedAssumption DEF ModeType
  <2>2. count < Len(Weights) => Weights[count + 1] \in Nat \ {0}
    BY <2>1
  <2>3. weight' \in [Threads -> Nat \ {0}]
    BY <1>1, <2>2 DEF SNext, ModeType
  <2>4. count' \in 0..Len(Weights)
    BY <1>1, <2>1 DEF SNext
  <2>5. open' = open \/ open' = [open EXCEPT ![t] = {Root}]
    BY <1>1 DEF SNext
  <2>6. DOMAIN pc' = 0..N
    BY <1>1 DEF SNext, HandType
  <2>7. UNCHANGED <<algo, dd, closed, g, cur, todo, kid, best, bound, done, mut,
                    signals>>
    BY <1>1 DEF SNext
  <2>8. ModeType'
    BY <1>0, <2>1, <2>3, <2>4, <2>7 DEF ModeType
  <2>9. ListType'
    BY <1>0, <2>5, <2>7 DEF ListType
  <2>10. HandType'
    BY <1>0, <2>6, <2>7 DEF HandType
  <2>11. QED
    BY <2>8, <2>9, <2>10
<1>2. CASE SGiveUp(t)
  BY <1>0, <1>2 DEF SGiveUp, ModeType, ListType, HandType
<1>3. CASE STake(t)
  <2>1. PICK n \in open[t] :
          /\ open' = [open EXCEPT ![t] = @ \ {n}]
          /\ cur' = [cur EXCEPT ![t] = n]
    BY <1>3 DEF STake, First
  <2>2. DOMAIN pc' = 0..N
    BY <1>3 DEF STake, HandType
  <2>3. ModeType'
    BY <1>0, <1>3 DEF STake, ModeType
  <2>4. ListType' /\ HandType'
    BY <1>0, <1>3, <2>1, <2>2 DEF STake, ListType, HandType
  <2>5. QED
    BY <2>3, <2>4
<1>4. CASE SGoal(t)
  BY <1>0, <1>4 DEF SGoal, ModeType, ListType, HandType
<1>5. CASE SFinish(t)
  BY <1>0, <1>5 DEF SFinish, ModeType, ListType, HandType
<1>6. CASE SExpand(t)
  <2>1. ListType'
    <3>1. /\ g' \in [Nodes -> Nat]
          /\ open' = [open EXCEPT ![t] = open'[t]]
          /\ closed' = [closed EXCEPT ![t] = closed'[t]]
          /\ open'[t] \subseteq Nodes /\ closed'[t] \subseteq Nodes
      BY <1>0, <1>6, ExpandEffect
    <3>2. QED
      BY <1>0, <3>1 DEF ListType
  <2>2. ModeType' /\ HandType'
    BY <1>0, <1>6 DEF SExpand, ModeType, HandType
  <2>3. QED
    BY <2>1, <2>2
<1>7. CASE SClear(t)
  <2>1. ListType'
    BY <1>0, <1>7, SpaceAssumption DEF SClear, ListType
  <2>2. ModeType' /\ HandType'
    BY <1>0, <1>7 DEF SClear, ModeType, HandType
  <2>3. QED
    BY <2>1, <2>2
<1>8. QED
  BY <1>1, <1>2, <1>3, <1>4, <1>5, <1>6, <1>7 DEF SyncWAStarStep

LEMMA StepKinds ==
  ASSUME TypeOK, [Next]_vars
  PROVE  \/ UNCHANGED vars
         \/ \E t \in Threads : PAStarStep(t) \/ LPAStarStep(t) \/ SyncWAStarStep(t)
         \/ \E t \in 0..N : KBFSStep(t)
BY DEF Next, Step, Finished

\* Which search it is never changes.
LEMMA AlgoStays ==
  ASSUME NEW t
  PROVE  /\ PAStarStep(t) => algo = "pastar" /\ algo' = algo
         /\ LPAStarStep(t) => algo = "lpastar" /\ algo' = algo
         /\ KBFSStep(t) => algo = "kbfs" /\ algo' = algo
         /\ SyncWAStarStep(t) => algo = "syncwastar" /\ algo' = algo
<1>1. ASSUME PAStarStep(t) PROVE algo = "pastar" /\ algo' = algo
  BY <1>1 DEF PAStarStep, mode, PALoop, PALock, PAIdle, PATake, PACrash, PASpin,
     PARejoin, PATest, PAPrune, PAGoal, PAExpand, PAChild, PAExpanded, PADup,
     PAAdd, PAClose
<1>2. ASSUME LPAStarStep(t) PROVE algo = "lpastar" /\ algo' = algo
  BY <1>2 DEF LPAStarStep, mode, LPLoop, LPTake, LPIdle, LPCheck, LPDone, LPSpin,
     LPRecheck, LPRecheck2, LPRejoin, LPTest, LPGoal, LPBound, LPExpand,
     LPChild, LPExpanded, LPUpdate, LPAdd
<1>3. ASSUME KBFSStep(t) PROVE algo = "kbfs" /\ algo' = algo
  BY <1>3 DEF KBFSStep, mode, KRest, KComplete, KWake, KExpand, KStart, KHead,
     KTake, KReset, KSignal, KWait, KChild, KCollected, KJoin, KEnd
<1>4. ASSUME SyncWAStarStep(t) PROVE algo = "syncwastar" /\ algo' = algo
  BY <1>4 DEF SyncWAStarStep, mode, SNext, SGiveUp, STake, SGoal, SFinish,
     SExpand, SClear
<1>5. QED
  BY <1>1, <1>2, <1>3, <1>4

LEMMA TypeInit == Init => TypeOK
<1> SUFFICES ASSUME Init PROVE TypeOK
  OBVIOUS
<1> USE Basics
<1>1. algo \in {"pastar", "lpastar", "kbfs", "syncwastar"}
  BY DEF Init
<1>2. /\ open \in [0..N -> SUBSET {Root}]
      /\ count \in 0..N /\ DOMAIN pc = 0..N
      /\ algo = "syncwastar" => count = 0
  <2>1. \/ PAStarInit /\ algo = "pastar"
        \/ LPAStarInit /\ algo = "lpastar"
        \/ KBFSInit /\ algo = "kbfs"
        \/ SyncWAStarInit /\ algo = "syncwastar"
    <3>1. (CASE algo = "pastar" -> PAStarInit
             [] algo = "lpastar" -> LPAStarInit
             [] algo = "kbfs" -> KBFSInit
             [] algo = "syncwastar" -> SyncWAStarInit)
      BY Zenon DEF Init
    <3>2. ASSUME algo = "pastar" PROVE PAStarInit
      BY <3>1, <3>2, Zenon
    <3>3. ASSUME algo = "lpastar" PROVE LPAStarInit
      BY <3>1, <3>3, Zenon
    <3>4. ASSUME algo = "kbfs" PROVE KBFSInit
      BY <3>1, <3>4
    <3>5. ASSUME algo = "syncwastar" PROVE SyncWAStarInit
      BY <3>1, <3>5
    <3>6. \/ algo = "pastar" \/ algo = "lpastar"
          \/ algo = "kbfs" \/ algo = "syncwastar"
      BY <1>1
    <3>7. QED
      BY <3>2, <3>3, <3>4, <3>5, <3>6, Zenon
  <2>2. CASE PAStarInit /\ algo = "pastar"
    BY <2>2 DEF PAStarInit
  <2>3. CASE LPAStarInit /\ algo = "lpastar"
    BY <2>3 DEF LPAStarInit
  <2>4. CASE KBFSInit /\ algo = "kbfs"
    BY <2>4 DEF KBFSInit
  <2>5. CASE SyncWAStarInit /\ algo = "syncwastar"
    BY <2>5 DEF SyncWAStarInit
  <2>6. QED
    BY <2>1, <2>2, <2>3, <2>4, <2>5
<1>3. Len(Weights) \in Nat /\ Infinity \in Nat
  BY SharedAssumption, SpaceAssumption
<1>4. ModeType
  <2>1. weight \in [Threads -> Nat \ {0}] /\ dd \in BOOLEAN
    <3>1. PICK w \in {1, 2} : weight = [t \in Threads |-> w]
      BY DEF Init
    <3>2. dd \in BOOLEAN
      BY DEF Init
    <3>3. QED
      BY <3>1, <3>2
  <2>2. /\ best = Infinity /\ bound = Infinity /\ done = FALSE /\ mut = 0
        /\ batch = 0 /\ turn = 0 /\ signalled = [t \in Threads |-> 0]
    BY DEF Init, Nobody
  <2>3. /\ best \in Nat /\ bound \in Nat /\ mut \in 0..N
        /\ batch \in 0..N /\ turn \in 0..N /\ signalled \in [Threads -> Nat]
    BY <1>3, <2>2
  <2>4. count \in Int /\ (algo = "syncwastar" => count \in 0..Len(Weights))
    BY <1>2, <1>3
  <2>5. QED
    BY <1>1, <2>1, <2>2, <2>3, <2>4 DEF ModeType
<1>5. ListType
  BY <1>2, <1>3 DEF Init, ListType
<1>6. HandType
  BY <1>2 DEF Init, HandType
<1>7. QED
  BY <1>4, <1>5, <1>6 DEF TypeOK

LEMMA TypeKept == TypeOK /\ [Next]_vars => TypeOK'
<1> SUFFICES ASSUME TypeOK, [Next]_vars PROVE TypeOK'
  OBVIOUS
<1>1. CASE UNCHANGED vars
  BY <1>1 DEF TypeOK, ModeType, ListType, HandType, vars, mode, signals
<1>2. QED
  BY <1>1, StepKinds, PAType, LPType, KType, SType

\* Every variable keeps its type: a node on a list or in a hand is a node that
\* the table g has a cost for.
THEOREM TypeCorrect == Spec => []TypeOK
BY TypeInit, TypeKept, PTL DEF Spec

-----------------------------------------------------------------------------
(***************************************************************************)
(* KBFS: the handshake of the main thread with its workers                 *)
(***************************************************************************)

Rested(t) == pc[t] = "wait" /\ signalled[t] = 0

\* The children of worker t are those of the node it was given.
Filled(t) == todo[t] = Children(cur[t][1], g[cur[t]])

\* The workers that the main thread has counted on so far.
Counted == {t \in 1..turn : Rested(t)}

\* The main thread begins when every worker has told the counter so.
Starting ==
  pc[Main] = "start" =>
    /\ \A t \in Threads : pc[t] \in {"start", "wait"} /\ signalled[t] = 0
    /\ count = Cardinality({t \in Threads : pc[t] = "wait"})

\* It has the lists to itself.
Alone ==
  pc[Main] \in {"head", "fill", "collect", "join"} => \A t \in Threads : Rested(t)

\* While a batch is expanded the counter says how many workers are ready, and
\* one that is has the children of its node.
Working ==
  pc[Main] = "signal" =>
    /\ turn <= batch /\ count = Cardinality(Counted)
    /\ \A t \in Threads :
         IF t > turn THEN Rested(t)
         ELSE /\ \/ pc[t] = "wait" /\ signalled[t] \in {0, 1}
                 \/ pc[t] \in {"expand", "complete"} /\ signalled[t] = 0
              /\ pc[t] = "complete" \/ Rested(t) => Filled(t)

KInv ==
  algo = "kbfs" =>
    /\ pc[Main] \in {"start", "head", "fill", "signal", "collect", "join",
                     "joined", "end"}
    /\ done => pc[Main] \in {"joined", "end"}
    /\ Starting /\ Alone /\ Working

LEMMA FiniteThreads ==
  /\ IsFiniteSet(Threads) /\ Cardinality(Threads) = N
  /\ \A S \in SUBSET Threads :
       /\ IsFiniteSet(S) /\ Cardinality(S) \in Nat /\ Cardinality(S) <= N
       /\ Cardinality(S) = N => S = Threads
       /\ Cardinality(S) = 0 => S = {}
       /\ \A t \in Threads \ S : Cardinality(S \cup {t}) = Cardinality(S) + 1
<1>1. IsFiniteSet(Threads) /\ Cardinality(Threads) = N
  BY Basics, FS_Interval DEF Threads
<1>2. ASSUME NEW S \in SUBSET Threads
      PROVE  /\ IsFiniteSet(S) /\ Cardinality(S) \in Nat /\ Cardinality(S) <= N
             /\ Cardinality(S) = N => S = Threads
             /\ Cardinality(S) = 0 => S = {}
  BY <1>1, FS_Subset, FS_CardinalityType, FS_EmptySet
<1>3. ASSUME NEW S \in SUBSET Threads, NEW t \in Threads \ S
      PROVE  Cardinality(S \cup {t}) = Cardinality(S) + 1
  BY <1>2, FS_AddElement
<1>4. QED
  BY <1>1, <1>2, <1>3

\* A worker's step leaves the other threads, the lists and the batch alone.
LEMMA WorkerFrame ==
  ASSUME TypeOK, NEW t \in Threads, KComplete(t) \/ KWake(t) \/ KExpand(t)
  PROVE  /\ \A u \in 0..N : u # t => pc'[u] = pc[u]
         /\ \A u \in Threads : u # t => signalled'[u] = signalled[u] /\ todo'[u] = todo[u]
         /\ UNCHANGED <<mode, lists, cur, done, batch, turn>>
         /\ pc'[Main] = pc[Main] /\ t # Main
<1> USE DEF TypeOK, HandType, ModeType, Go, KRest, signals, lists, Main, Threads
<1>1. CASE KComplete(t)
  BY <1>1 DEF KComplete
<1>2. CASE KWake(t)
  BY <1>2 DEF KWake
<1>3. CASE KExpand(t)
  BY <1>3 DEF KExpand
<1>4. QED
  BY <1>1, <1>2, <1>3

LEMMA WorkerStep ==
  ASSUME TypeOK, KInv, algo = "kbfs", NEW t \in Threads,
         KComplete(t) \/ KWake(t) \/ KExpand(t)
  PROVE  KInv'
<1> USE DEF Rested, Main
<1>1. /\ \A u \in 0..N : u # t => pc'[u] = pc[u]
      /\ \A u \in Threads : u # t => signalled'[u] = signalled[u] /\ todo'[u] = todo[u]
      /\ UNCHANGED <<algo, g, cur, done, batch, turn>> /\ pc'[0] = pc[0]
  BY WorkerFrame DEF mode, lists
<1>2. /\ t \in 0..N /\ t # 0 /\ Threads \subseteq 0..N
      /\ DOMAIN pc = 0..N /\ signalled \in [Threads -> Nat]
      /\ todo \in [Threads -> SUBSET Pairs]
      /\ count \in Int /\ turn \in 0..N
  BY Basics DEF TypeOK, HandType, ModeType, Threads
<1> DEFINE Completes == /\ pc[t] \in {"start", "complete"} /\ pc'[t] = "wait"
                        /\ count' = count + 1
                        /\ signalled'[t] = signalled[t] /\ todo'[t] = todo[t]
           Wakes == /\ pc[t] = "wait" /\ signalled[t] > 0 /\ count' = count
                    /\ pc'[t] = IF done THEN "end" ELSE "expand"
                    /\ signalled'[t] = signalled[t] - 1 /\ todo'[t] = todo[t]
           Expands == /\ pc[t] = "expand" /\ pc'[t] = "complete" /\ count' = count
                      /\ signalled'[t] = signalled[t] /\ Filled(t)'
<1>a. Completes \/ Wakes \/ Expands
  <2>1. CASE KComplete(t)
    BY <1>2, <2>1 DEF KComplete, Go, signals
  <2>2. CASE KWake(t)
    BY <1>2, <2>2 DEF KWake, Go
  <2>3. CASE KExpand(t)
    <3>1. /\ pc[t] = "expand" /\ pc'[t] = "complete" /\ count' = count
          /\ signalled' = signalled /\ g' = g /\ cur' = cur
          /\ todo'[t] = Children(cur[t][1], g[cur[t]])
      BY <1>2, <2>3 DEF KExpand, Go, signals, lists
    <3>2. QED
      BY <3>1 DEF Filled
  <2>4. QED
    BY <2>1, <2>2, <2>3
<1>3. /\ pc[0] \in {"start", "head", "fill", "signal", "collect", "join",
                    "joined", "end"}
      /\ done => pc[0] \in {"joined", "end"}
      /\ Starting /\ Alone /\ Working
  BY DEF KInv
<1>4. Starting'
  <2> SUFFICES ASSUME pc[0] = "start" PROVE Starting'
    BY <1>1 DEF Starting
  <2> DEFINE S == {u \in Threads : pc[u] = "wait"}
  <2>1. /\ \A u \in Threads : pc[u] \in {"start", "wait"} /\ signalled[u] = 0
        /\ count = Cardinality(S)
    BY <1>3 DEF Starting
  <2>2. /\ pc[t] = "start" /\ pc'[t] = "wait" /\ count' = count + 1
        /\ signalled'[t] = signalled[t]
    BY <1>a, <2>1
  <2>3. S' = S \cup {t} /\ t \notin S
    BY <1>1, <1>2, <2>2
  <2>4. Cardinality(S') = Cardinality(S) + 1
    BY <2>3, FiniteThreads
  <2>5. QED
    BY <1>1, <1>2, <2>1, <2>2, <2>4 DEF Starting
<1>5. Alone'
  BY <1>1, <1>2, <1>3, <1>a DEF Alone
<1>6. Working'
  <2> SUFFICES ASSUME pc[0] = "signal" PROVE Working'
    BY <1>1 DEF Working
  <2>1. /\ turn <= batch /\ count = Cardinality(Counted)
        /\ \A u \in Threads :
             IF u > turn THEN Rested(u)
             ELSE /\ \/ pc[u] = "wait" /\ signalled[u] \in {0, 1}
                     \/ pc[u] \in {"expand", "complete"} /\ signalled[u] = 0
                  /\ pc[u] = "complete" \/ Rested(u) => Filled(u)
    BY <1>3 DEF Working
  <2>2. t <= turn /\ t \in 1..turn
    BY <1>2, <1>a, <2>1 DEF Threads
  <2>3. /\ \/ pc'[t] = "wait" /\ signalled'[t] \in {0, 1}
           \/ pc'[t] \in {"expand", "complete"} /\ signalled'[t] = 0
        /\ pc'[t] = "complete" \/ Rested(t)' => Filled(t)'
    <3>1. CASE Completes
      BY <1>1, <1>2, <2>1, <2>2, <3>1 DEF Filled
    <3>2. CASE Wakes
      BY <1>2, <1>3, <2>1, <2>2, <3>2
    <3>3. CASE Expands
      BY <1>2, <2>1, <2>2, <3>3
    <3>4. QED
      BY <1>a, <3>1, <3>2, <3>3
  <2>4. \A u \in Threads : u # t =>
             IF u > turn THEN Rested(u)'
             ELSE /\ \/ pc'[u] = "wait" /\ signalled'[u] \in {0, 1}
                     \/ pc'[u] \in {"expand", "complete"} /\ signalled'[u] = 0
                  /\ pc'[u] = "complete" \/ Rested(u)' => Filled(u)'
    BY <1>1, <1>2, <2>1 DEF Filled
  <2>5. count' = Cardinality(Counted')
    <3>1. 1..turn \subseteq Threads
      BY <1>2, Basics DEF Threads
    <3>2. CASE Completes
      <4>1. ~Rested(t) /\ Rested(t)'
        BY <1>2, <2>1, <2>2, <3>2
      <4>2. Counted' = Counted \cup {t} /\ t \notin Counted
        BY <1>1, <1>2, <2>2, <3>1, <4>1 DEF Counted
      <4>3. Counted \in SUBSET Threads
        BY <3>1 DEF Counted
      <4>4. QED
        BY <2>1, <3>2, <4>2, <4>3, FiniteThreads
    <3>3. CASE Wakes \/ Expands
      <4>1. count' = count /\ ~Rested(t) /\ ~Rested(t)'
        BY <1>2, <1>3, <3>3
      <4>2. Counted' = Counted
        BY <1>1, <1>2, <3>1, <4>1 DEF Counted
      <4>3. QED
        BY <2>1, <4>1, <4>2
    <3>4. QED
      BY <1>a, <3>2, <3>3
  <2>6. ASSUME NEW u \in Threads
        PROVE  IF u > turn THEN Rested(u)'
               ELSE /\ \/ pc'[u] = "wait" /\ signalled'[u] \in {0, 1}
                       \/ pc'[u] \in {"expand", "complete"} /\ signalled'[u] = 0
                    /\ pc'[u] = "complete" \/ Rested(u)' => Filled(u)'
    <3>1. CASE u = t
      <4>1. ~(u > turn)
        BY <1>2, <2>2, <3>1
      <4>2. QED
        BY <2>3, <3>1, <4>1
    <3>2. CASE u # t
      BY <2>4, <3>2
    <3>3. QED
      BY <3>1, <3>2
  <2>7. QED
    BY <1>1, <2>1, <2>5, <2>6 DEF Working
<1>7. QED
  BY <1>1, <1>3, <1>4, <1>5, <1>6 DEF KInv

\* The main thread's steps leave the workers where they are and, but for its
\* signals, as they are.
LEMMA MainFrame ==
  ASSUME TypeOK, algo = "kbfs",
         KStart \/ KHead \/ KTake \/ KReset \/ KSignal \/ KWait \/ KChild
           \/ KCollected \/ KJoin \/ KEnd
  PROVE  (\A t \in Threads : pc'[t] = pc[t]) /\ algo' = algo
<1>1. \A t \in Threads : t # Main /\ t \in 0..N
  BY Basics DEF Threads, Main
<1>2. UNCHANGED mode /\ \E from, to : Go(Main, from, to)
  BY DEF KStart, KHead, KTake, KReset, KSignal, KWait, KChild, KCollected, KJoin,
     KEnd, KRest
<1>3. QED
  BY <1>1, <1>2 DEF TypeOK, HandType, Go, mode

LEMMA MainSignals ==
  ASSUME \/ KStart \/ KHead \/ KTake \/ KReset \/ KWait \/ KChild
         \/ KCollected \/ KEnd
  PROVE  UNCHANGED <<signalled, done>>
BY DEF KStart, KHead, KTake, KReset, KWait, KChild, KCollected, KEnd, KRest, signals

\* When the counter says that the batch is expanded, it is.
LEMMA BatchReady ==
  ASSUME TypeOK, KInv, algo = "kbfs", KWait
  PROVE  (\A t \in Threads : Rested(t)) /\ (\A t \in 1..batch : Filled(t))
<1>1. pc[Main] = "signal" /\ turn = batch /\ count >= batch /\ batch \in 0..N
  BY DEF KWait, Go, TypeOK, ModeType
<1>2. /\ count = Cardinality(Counted)
      /\ \A t \in Threads :
           /\ t > turn => Rested(t)
           /\ t <= turn => (Rested(t) => Filled(t))
  BY <1>1, Basics DEF KInv, Working
<1>3. IsFiniteSet(1..turn) /\ Cardinality(1..turn) = turn
  BY <1>1, FS_Interval
<1>4. 1..turn \subseteq Threads
  BY <1>1, Basics DEF Threads
<1>5. /\ Counted \subseteq 1..turn /\ Cardinality(Counted) \in Nat
      /\ Cardinality(Counted) >= Cardinality(1..turn)
  BY <1>1, <1>2, <1>3, <1>4, FiniteThreads DEF Counted
<1>6. Counted = 1..turn
  <2>1. Cardinality(Counted) <= Cardinality(1..turn)
    BY <1>3, <1>5, FS_Subset
  <2>2. Cardinality(Counted) = Cardinality(1..turn)
    BY <1>1, <1>3, <1>5, <2>1
  <2>3. QED
    BY <1>3, <1>5, <2>2, FS_Subset
<1>7. \A t \in 1..turn : Rested(t)
  BY <1>6 DEF Counted
<1>8. \A t \in Threads : t > turn \/ t \in 1..turn
  BY <1>1, Basics DEF Threads
<1>9. QED
  BY <1>1, <1>2, <1>4, <1>7, <1>8

LEMMA MainStep ==
  ASSUME TypeOK, KInv, algo = "kbfs",
         KStart \/ KHead \/ KTake \/ KReset \/ KSignal \/ KWait \/ KChild
           \/ KCollected \/ KJoin \/ KEnd
  PROVE  KInv'
<1>1. /\ \A t \in Threads : pc'[t] = pc[t]
      /\ algo' = algo
      /\ \/ KStart \/ KHead \/ KTake \/ KReset \/ KWait \/ KChild
         \/ KCollected \/ KEnd
         => UNCHANGED <<signalled, done>>
  BY MainFrame, MainSignals
<1>2. /\ Starting /\ Alone /\ Working
      /\ done => pc[Main] \in {"joined", "end"}
  BY DEF KInv
<1>3. DOMAIN pc = 0..N /\ Main \in 0..N /\ turn \in 0..N /\ batch \in 0..N /\ N \in Nat
  BY Basics DEF TypeOK, HandType, ModeType
<1>4. ASSUME UNCHANGED signalled
      PROVE  \A t \in Threads : Rested(t)' <=> Rested(t)
  BY <1>1, <1>4 DEF Rested
<1>5. ASSUME pc'[Main] \in {"head", "fill", "collect", "join", "joined", "end"},
             pc'[Main] \in {"head", "fill", "collect", "join"} =>
               \A t \in Threads : Rested(t)',
             done' => pc'[Main] \in {"joined", "end"}
      PROVE  KInv'
  BY <1>5 DEF KInv, Starting, Alone, Working
<1> USE DEF Go
<1>6. CASE KStart
  <2>1. pc[Main] = "start" /\ pc'[Main] = "head" /\ count >= N
    BY <1>3, <1>6 DEF KStart
  <2>2. {t \in Threads : pc[t] = "wait"} = Threads
    BY <1>2, <2>1, FiniteThreads, <1>3 DEF Starting
  <2>3. \A t \in Threads : Rested(t)
    BY <1>2, <2>1, <2>2 DEF Starting, Rested
  <2>4. QED
    BY <1>1, <1>2, <1>4, <1>5, <1>6, <2>1, <2>3
<1>7. CASE KHead
  <2>1. pc[Main] = "head" /\ pc'[Main] \in {"join", "fill"}
    BY <1>3, <1>7 DEF KHead
  <2>2. QED
    BY <1>1, <1>2, <1>4, <1>5, <1>7, <2>1 DEF Alone
<1>8. CASE KTake
  <2>1. pc[Main] = "fill" /\ pc'[Main] = "fill"
    BY <1>3, <1>8 DEF KTake
  <2>2. QED
    BY <1>1, <1>2, <1>4, <1>5, <1>8, <2>1 DEF Alone
<1>9. CASE KReset
  <2>1. /\ pc[Main] = "fill" /\ pc'[Main] = "signal" /\ count' = 0 /\ turn' = 0
        /\ batch' = batch
    BY <1>3, <1>9 DEF KReset
  <2>2. \A t \in Threads : Rested(t)'
    BY <1>1, <1>2, <1>4, <1>9, <2>1 DEF Alone
  <2>3. Counted' = {}
    BY <2>1 DEF Counted
  <2>4. \A t \in Threads : t > turn'
    BY <2>1, Basics DEF Threads
  <2>5. count' = Cardinality(Counted')
    BY <2>1, <2>3, FS_EmptySet
  <2>6. Working'
    BY <1>3, <2>1, <2>2, <2>4, <2>5 DEF Working
  <2>7. QED
    BY <1>1, <1>2, <1>9, <2>1, <2>6 DEF KInv, Starting, Alone
<1>10. CASE KSignal
  <2>1. /\ pc[Main] = "signal" /\ pc'[Main] = "signal" /\ turn < batch
        /\ turn' = turn + 1 /\ batch' = batch /\ count' = count /\ done' = done
        /\ signalled' = [signalled EXCEPT ![turn + 1] = @ + 1]
        /\ UNCHANGED <<todo, cur, g>>
    BY <1>3, <1>10 DEF KSignal, KRest, lists
  <2>2. PICK u \in Threads : u = turn + 1
    BY <1>3, <2>1 DEF Threads
  <2>a. signalled \in [Threads -> Nat]
    BY DEF TypeOK, ModeType
  <2>3. /\ count = Cardinality(Counted)
        /\ \A t \in Threads :
             IF t > turn THEN Rested(t)
             ELSE /\ \/ pc[t] = "wait" /\ signalled[t] \in {0, 1}
                     \/ pc[t] \in {"expand", "complete"} /\ signalled[t] = 0
                  /\ pc[t] = "complete" \/ Rested(t) => Filled(t)
    BY <1>2, <2>1 DEF Working
  <2>4. pc[u] = "wait" /\ signalled[u] = 0
    BY <1>3, <2>2, <2>3 DEF Rested
  <2>5. \A t \in Threads : t # u =>
          (Rested(t)' <=> Rested(t)) /\ (Filled(t)' <=> Filled(t))
    BY <1>1, <2>1, <2>2, <2>a DEF Rested, Filled
  <2>6. pc'[u] = "wait" /\ signalled'[u] = 1 /\ ~Rested(u)'
    BY <1>1, <2>1, <2>2, <2>a, <2>4 DEF Rested
  <2>7. Counted' = Counted
    <3>1. 1..turn \subseteq Threads /\ 1..turn' \subseteq Threads
      BY <1>3, <2>1, Basics DEF Threads
    <3>2. \A t \in 1..turn' : t \in 1..turn \/ t = u
      BY <1>3, <2>1, <2>2
    <3>3. 1..turn \subseteq 1..turn' /\ u \notin 1..turn
      BY <1>3, <2>1, <2>2
    <3>4. QED
      BY <2>2, <2>5, <2>6, <3>1, <3>2, <3>3 DEF Counted
  <2>8. ASSUME NEW t \in Threads
        PROVE  IF t > turn' THEN Rested(t)'
               ELSE /\ \/ pc'[t] = "wait" /\ signalled'[t] \in {0, 1}
                       \/ pc'[t] \in {"expand", "complete"} /\ signalled'[t] = 0
                    /\ pc'[t] = "complete" \/ Rested(t)' => Filled(t)'
    <3>0. t \in Nat
      BY Basics
    <3>1. CASE t = u
      BY <1>3, <2>1, <2>2, <2>6, <3>0, <3>1
    <3>2. CASE t # u
      <4>1. t > turn' <=> t > turn
        BY <1>3, <2>1, <2>2, <3>0, <3>2
      <4>2. pc'[t] = pc[t] /\ signalled'[t] = signalled[t]
        BY <1>1, <2>1, <2>2, <2>a, <3>2
      <4>3. QED
        BY <2>3, <2>5, <3>2, <4>1, <4>2
    <3>3. QED
      BY <3>1, <3>2
  <2>9. Working'
    BY <1>3, <2>1, <2>3, <2>7, <2>8 DEF Working
  <2>10. QED
    BY <1>1, <1>2, <2>1, <2>9 DEF KInv, Starting, Alone
<1>11. CASE KWait
  <2>1. pc[Main] = "signal" /\ pc'[Main] = "collect"
    BY <1>3, <1>11 DEF KWait
  <2>2. QED
    BY <1>1, <1>2, <1>4, <1>5, <1>11, <2>1, BatchReady
<1>12. CASE KChild
  <2>1. pc[Main] = "collect" /\ pc'[Main] = "collect"
    BY <1>3, <1>12 DEF KChild
  <2>2. QED
    BY <1>1, <1>2, <1>4, <1>5, <1>12, <2>1 DEF Alone
<1>13. CASE KCollected
  <2>1. pc[Main] = "collect" /\ pc'[Main] \in {"collect", "head"}
    BY <1>3, <1>13 DEF KCollected
  <2>2. QED
    BY <1>1, <1>2, <1>4, <1>5, <1>13, <2>1 DEF Alone
<1>14. CASE KJoin
  <2>1. pc'[Main] = "joined"
    BY <1>3, <1>14 DEF KJoin
  <2>2. QED
    BY <1>5, <2>1
<1>15. CASE KEnd
  <2>1. pc'[Main] = "end"
    BY <1>3, <1>15 DEF KEnd
  <2>2. QED
    BY <1>5, <2>1
<1>16. QED
  BY <1>6, <1>7, <1>8, <1>9, <1>10, <1>11, <1>12, <1>13, <1>14, <1>15

LEMMA KInit == Init => KInv
<1> SUFFICES ASSUME Init, algo = "kbfs" PROVE KInv
  BY DEF KInv
<1>1. KBFSInit
  BY Zenon DEF Init
<1>2. pc = [t \in 0..N |-> "start"] /\ count = 0 /\ done = FALSE
      /\ signalled = [t \in Threads |-> 0]
  BY <1>1 DEF Init, KBFSInit
<1>3. {t \in Threads : pc[t] = "wait"} = {}
  BY <1>2, Basics
<1>4. Cardinality({t \in Threads : pc[t] = "wait"}) = 0
  BY <1>3, FS_EmptySet
<1>5. QED
  BY <1>2, <1>4, Basics DEF KInv, Starting, Alone, Working

LEMMA KKept == TypeOK /\ KInv /\ [Next]_vars => KInv'
<1> SUFFICES ASSUME TypeOK, KInv, [Next]_vars PROVE KInv'
  OBVIOUS
<1>1. CASE UNCHANGED vars
  BY <1>1 DEF KInv, Starting, Alone, Working, Counted, Rested, Filled, vars, mode, signals
<1>2. ASSUME NEW t \in Threads, PAStarStep(t) \/ LPAStarStep(t) \/ SyncWAStarStep(t)
      PROVE  algo # "kbfs" /\ algo' = algo
  BY <1>2, AlgoStays
<1>3. ASSUME NEW t \in 0..N, KBFSStep(t) PROVE KInv'
  <2>1. t # Main => t \in Threads
    BY DEF Main, Threads
  <2>2. QED
    BY <1>3, <2>1, WorkerStep, MainStep DEF KBFSStep
<1>4. QED
  BY <1>1, <1>2, <1>3, StepKinds DEF KInv

LEMMA ReadyStep == TypeOK /\ KInv /\ [Next]_vars => [ChildrenReady]_vars
<1> SUFFICES ASSUME TypeOK, KInv, algo = "kbfs", Next PROVE ChildrenReady
  BY DEF ChildrenReady
<1>1. pc[Main] \in {"head", "fill", "collect", "join"} =>
        \A t \in Threads : pc[t] = "wait" /\ signalled[t] = 0
  BY DEF KInv, Alone, Rested
<1>2. ASSUME pc[Main] = "signal", pc'[Main] = "collect"
      PROVE  \A t \in 1..batch : Filled(t)
  <2>1. PICK t \in 0..N : KBFSStep(t)
    BY <1>2, StepKinds DEF vars, PAStarStep, LPAStarStep, SyncWAStarStep
  <2>2. ASSUME t # Main PROVE FALSE
    BY <1>2, <2>1, <2>2, WorkerFrame DEF KBFSStep, Threads, Main
  <2>3. KWait
    BY <1>2, <2>1, <2>2 DEF KBFSStep, KStart, KHead, KTake, KReset, KSignal, KChild,
       KCollected, KJoin, KEnd, Go, TypeOK, HandType
  <2>4. QED
    BY <2>3, BatchReady
<1>3. QED
  BY <1>1, <1>2 DEF ChildrenReady, Filled

\* KBFS's main thread has the lists to itself whenever it touches them, and
\* the children it collects are all those of the nodes it handed out: the
\* counter, reset before the first worker is signalled, cannot reach the size
\* of the batch before all of its workers have expanded.
THEOREM ChildrenAreFresh == Spec => ChildrenFresh
<1>1. Init => TypeOK /\ KInv
  BY TypeInit, KInit
<1>2. TypeOK /\ KInv /\ [Next]_vars => TypeOK' /\ KInv' /\ [ChildrenReady]_vars
  BY TypeKept, KKept, ReadyStep
<1>3. QED
  BY <1>1, <1>2, PTL DEF Spec, ChildrenFresh

-----------------------------------------------------------------------------
(***************************************************************************)
(* PAStar and LPAStar: the search is over when nothing is left             *)
(***************************************************************************)

\* PAStar's counter is the number of threads that wait for a node, until the
\* search is over.
PAWaiting == {t \in Threads : pc[t] \in {"spin", "rejoin"}}

PAInv ==
  algo = "pastar" =>
    /\ \A t, u \in Threads : pc[t] = "crashed" => pc[u] = "crashed"
    /\ ~done /\ (\A t \in Threads : pc[t] # "crashed") =>
         count = Cardinality(PAWaiting)

\* The places of a thread of LPAStar that is not counted as working.
LPResting == {"check", "check2", "spin", "recheck", "recheck2", "rejoin", "end"}
LPBusy == {t \in Threads : pc[t] \notin LPResting}

\* LPAStar's counter is at least the number of working threads; while there
\* are nodes one of them works and has not found the list empty; and when the
\* search is over no thread does, and there are none.
LPInv ==
  algo = "lpastar" =>
    /\ count >= Cardinality(LPBusy)
    /\ open[Shared] # {} =>
         \E t \in Threads : pc[t] \notin LPResting \cup {"idle"}
    /\ done => /\ open[Shared] = {}
               /\ \A t \in Threads : pc[t] \in LPResting \cup {"loop"}

\* No step but PACrash moves another thread.
LEMMA PAMoves ==
  ASSUME TypeOK, NEW t \in Threads, PAStarStep(t), ~PACrash(t)
  PROVE  /\ \A u \in Threads : u # t => pc'[u] = pc[u]
         /\ algo = "pastar" /\ algo' = algo
         /\ pc[t] # "crashed" /\ pc'[t] # "crashed"
         /\ \/ PAIdle(t)
            \/ PARejoin(t)
            \/ /\ UNCHANGED <<count, done>>
               /\ pc[t] \in {"spin", "rejoin"} <=> pc'[t] \in {"spin", "rejoin"}
<1> USE Basics DEF TypeOK, HandType, Go
<1>0. algo = "pastar" /\ algo' = algo
  BY DEF PAStarStep, mode, PALoop, PALock, PAIdle, PATake, PASpin, PARejoin,
     PATest, PAPrune, PAGoal, PAExpand, PAChild, PAExpanded, PADup, PAAdd, PAClose
<1>1. CASE PALoop(t)
  BY <1>0, <1>1 DEF PALoop
<1>2. CASE PALock(t)
  BY <1>0, <1>2 DEF PALock
<1>3. CASE PAIdle(t)
  BY <1>0, <1>3 DEF PAIdle
<1>4. CASE PATake(t)
  BY <1>0, <1>4 DEF PATake
<1>5. CASE PASpin(t)
  BY <1>0, <1>5 DEF PASpin
<1>6. CASE PARejoin(t)
  BY <1>0, <1>6 DEF PARejoin
<1>7. CASE PATest(t)
  BY <1>0, <1>7 DEF PATest
<1>8. CASE PAPrune(t)
  BY <1>0, <1>8 DEF PAPrune
<1>9. CASE PAGoal(t)
  BY <1>0, <1>9 DEF PAGoal
<1>10. CASE PAExpand(t)
  BY <1>0, <1>10 DEF PAExpand
<1>11. CASE PAChild(t)
  BY <1>0, <1>11 DEF PAChild
<1>12. CASE PAExpanded(t)
  BY <1>0, <1>12 DEF PAExpanded
<1>13. CASE PADup(t)
  BY <1>0, <1>13 DEF PADup
<1>14. CASE PAAdd(t)
  BY <1>0, <1>14 DEF PAAdd
<1>15. CASE PAClose(t)
  BY <1>0, <1>15 DEF PAClose
<1>16. QED
  BY <1>1, <1>2, <1>3, <1>4, <1>5, <1>6, <1>7, <1>8, <1>9, <1>10, <1>11, <1>12,
     <1>13, <1>14, <1>15 DEF PAStarStep

\* The last thread to run out of work finds all others waiting.
LEMMA PAIdleMove ==
  ASSUME TypeOK, PAInv, algo = "pastar", NEW t \in Threads, PAIdle(t), ~done
  PROVE  /\ open[Shared] = {} /\ open' = open
         /\ pc[t] = "lock" /\ count = Cardinality(PAWaiting) /\ t \notin PAWaiting
         /\ count' = count + 1 /\ Cardinality(PAWaiting \cup {t}) = count'
         /\ ~done' => pc'[t] = "spin"
         /\ done' => pc'[t] = "end" /\ PAWaiting \cup {t} = Threads
<1>1. /\ open[Shared] = {} /\ open' = open /\ pc[t] = "lock" /\ count' = count + 1
      /\ done' <=> count' >= N
      /\ pc'[t] = IF done' THEN "end" ELSE "spin"
  BY Basics DEF PAIdle, Go, TypeOK, HandType, ModeType
<1>2. \A u \in Threads : pc[u] # "crashed"
  BY <1>1 DEF PAInv
<1>3. count = Cardinality(PAWaiting) /\ t \notin PAWaiting
  BY <1>1, <1>2 DEF PAInv, PAWaiting
<1>4. PAWaiting \in SUBSET Threads /\ PAWaiting \cup {t} \in SUBSET Threads
  BY DEF PAWaiting
<1>5. /\ Cardinality(PAWaiting \cup {t}) = count' /\ count' \in Nat /\ count' <= N
      /\ count' = N => PAWaiting \cup {t} = Threads
  BY <1>1, <1>3, <1>4, FiniteThreads
<1>6. done' => count' = N
  BY <1>1, <1>5, Basics
<1>7. QED
  BY <1>1, <1>3, <1>5, <1>6

LEMMA PAStep ==
  ASSUME TypeOK, PAInv, NEW t \in Threads, PAStarStep(t)
  PROVE  PAInv'
<1>0. algo = "pastar" /\ Threads \subseteq 0..N /\ DOMAIN pc = 0..N
  BY Basics DEF PAStarStep, TypeOK, HandType
<1>1. CASE PACrash(t)
  BY <1>0, <1>1, Basics DEF PAInv, PACrash
<1>2. CASE ~PACrash(t)
  <2>1. /\ \A u \in Threads : u # t => pc'[u] = pc[u]
        /\ algo' = algo /\ pc[t] # "crashed" /\ pc'[t] # "crashed"
        /\ \/ PAIdle(t)
           \/ PARejoin(t)
           \/ /\ UNCHANGED <<count, done>>
              /\ pc[t] \in {"spin", "rejoin"} <=> pc'[t] \in {"spin", "rejoin"}
    BY <1>2, PAMoves
  <2>2. \A u \in Threads : pc[u] # "crashed" /\ pc'[u] # "crashed"
    BY <1>0, <2>1 DEF PAInv
  <2>3. ASSUME ~done' PROVE count' = Cardinality(PAWaiting')
    <3>1. CASE PAIdle(t)
      <4>1. ~done /\ pc'[t] = "spin" /\ Cardinality(PAWaiting \cup {t}) = count'
        BY <1>0, <2>3, <3>1, PAIdleMove DEF PAIdle
      <4>2. PAWaiting' = PAWaiting \cup {t}
        BY <2>1, <4>1 DEF PAWaiting
      <4>3. QED
        BY <4>1, <4>2
    <3>2. CASE PARejoin(t)
      <4>1. /\ ~done /\ pc[t] = "rejoin" /\ pc'[t] = "loop" /\ count' = count - 1
        BY <1>0, <2>3, <3>2 DEF PARejoin, Go
      <4>2. PAWaiting = PAWaiting' \cup {t} /\ t \notin PAWaiting'
        BY <2>1, <4>1 DEF PAWaiting
      <4>3. PAWaiting' \in SUBSET Threads /\ count = Cardinality(PAWaiting)
        BY <1>0, <2>2, <4>1 DEF PAWaiting, PAInv
      <4>4. /\ Cardinality(PAWaiting' \cup {t}) = Cardinality(PAWaiting') + 1
            /\ Cardinality(PAWaiting') \in Nat
        BY <4>2, <4>3, FiniteThreads
      <4>5. QED
        BY <4>1, <4>2, <4>3, <4>4
    <3>3. CASE /\ UNCHANGED <<count, done>>
               /\ pc[t] \in {"spin", "rejoin"} <=> pc'[t] \in {"spin", "rejoin"}
      <4>1. PAWaiting' = PAWaiting
        BY <2>1, <3>3 DEF PAWaiting
      <4>2. QED
        BY <1>0, <2>2, <2>3, <3>3, <4>1 DEF PAInv
    <3>4. QED
      BY <2>1, <3>1, <3>2, <3>3
  <2>4. QED
    BY <2>2, <2>3 DEF PAInv
<1>3. QED
  BY <1>1, <1>2

\* What a step of LPAStar does to the places, the counter and the list.
LEMMA LPMoves ==
  ASSUME TypeOK, LPInv, NEW t \in Threads, LPAStarStep(t)
  PROVE  /\ \A u \in Threads : u # t => pc'[u] = pc[u]
         /\ algo = "lpastar" /\ algo' = algo
         /\ \/ /\ LPIdle(t) /\ pc[t] = "idle" /\ pc'[t] = "check"
               /\ count' = count - 1 /\ UNCHANGED <<open, done>>
            \/ /\ LPRejoin(t) /\ pc[t] = "rejoin" /\ pc'[t] = "loop"
               /\ count' = count + 1 /\ UNCHANGED <<open, done>>
            \/ /\ LPLoop(t) /\ pc[t] = "loop" /\ UNCHANGED <<count, open, done>>
               /\ pc'[t] = IF done THEN "end"
                           ELSE IF open[Shared] # {} THEN "take" ELSE "idle"
            \/ /\ LPDone(t) /\ pc[t] = "check2" /\ UNCHANGED <<count, open>>
               /\ pc'[t] \in {"end", "spin"} /\ done' = (done \/ count = 0)
            \/ /\ pc[t] \in LPResting \ {"end"} /\ pc'[t] \in LPResting
               /\ UNCHANGED <<count, open, done>>
            \/ /\ pc[t] \notin LPResting \cup {"loop", "idle"}
               /\ pc'[t] \notin LPResting \cup {"idle"}
               /\ UNCHANGED <<count, done>>
<1> USE Basics DEF TypeOK, HandType, Go, LPResting
<1>0. algo = "lpastar" /\ algo' = algo
  BY DEF LPAStarStep, mode, LPLoop, LPTake, LPIdle, LPCheck, LPDone, LPSpin,
     LPRecheck, LPRecheck2, LPRejoin, LPTest, LPGoal, LPBound, LPExpand,
     LPChild, LPExpanded, LPUpdate, LPAdd
<1>1. CASE LPLoop(t)
  BY <1>0, <1>1 DEF LPLoop
<1>2. CASE LPTake(t)
  BY <1>0, <1>2 DEF LPTake
<1>3. CASE LPIdle(t)
  BY <1>0, <1>3 DEF LPIdle
<1>4. CASE LPCheck(t)
  BY <1>0, <1>4 DEF LPCheck
<1>5. CASE LPDone(t)
  BY <1>0, <1>5 DEF LPDone
<1>6. CASE LPSpin(t)
  BY <1>0, <1>6 DEF LPSpin
<1>7. CASE LPRecheck(t)
  BY <1>0, <1>7 DEF LPRecheck
<1>8. CASE LPRecheck2(t)
  BY <1>0, <1>8 DEF LPRecheck2
<1>9. CASE LPRejoin(t)
  BY <1>0, <1>9 DEF LPRejoin
<1>10. CASE LPTest(t)
  BY <1>0, <1>10 DEF LPTest
<1>11. CASE LPGoal(t)
  BY <1>0, <1>11 DEF LPGoal
<1>12. CASE LPBound(t)
  BY <1>0, <1>12 DEF LPBound
<1>13. CASE LPExpand(t)
  BY <1>0, <1>13 DEF LPExpand
<1>14. CASE LPChild(t)
  BY <1>0, <1>14 DEF LPChild
<1>15. CASE LPExpanded(t)
  BY <1>0, <1>15 DEF LPExpanded
<1>16. CASE LPUpdate(t)
  BY <1>0, <1>16 DEF LPUpdate
<1>17. CASE LPAdd(t)
  BY <1>0, <1>17 DEF LPAdd
<1>18. QED
  BY <1>1, <1>2, <1>3, <1>4, <1>5, <1>6, <1>7, <1>8, <1>9, <1>10, <1>11, <1>12,
     <1>13, <1>14, <1>15, <1>16, <1>17 DEF LPAStarStep

\* When the counter is zero, nobody works and nothing is open.
LEMMA LPNothing ==
  ASSUME TypeOK, LPInv, algo = "lpastar", count = 0
  PROVE  open[Shared] = {} /\ \A t \in Threads : pc[t] \in LPResting
<1>1. LPBusy \in SUBSET Threads /\ count >= Cardinality(LPBusy)
  BY DEF LPInv, LPBusy
<1>2. Cardinality(LPBusy) \in Nat /\ (Cardinality(LPBusy) = 0 => LPBusy = {})
  BY <1>1, FiniteThreads
<1>3. LPBusy = {}
  BY <1>1, <1>2
<1>4. \A t \in Threads : pc[t] \in LPResting
  BY <1>3 DEF LPBusy
<1>5. QED
  BY <1>4 DEF LPInv

LEMMA LPStep ==
  ASSUME TypeOK, LPInv, NEW t \in Threads, LPAStarStep(t)
  PROVE  LPInv'
<1>1. /\ \A u \in Threads : u # t => pc'[u] = pc[u]
      /\ algo = "lpastar" /\ algo' = algo
  BY LPMoves
<1>2. /\ count >= Cardinality(LPBusy) /\ count \in Int
      /\ open[Shared] # {} =>
           \E u \in Threads : pc[u] \notin LPResting \cup {"idle"}
      /\ done => /\ open[Shared] = {}
                 /\ \A u \in Threads : pc[u] \in LPResting \cup {"loop"}
  BY <1>1 DEF LPInv, TypeOK, ModeType
<1>3. /\ LPBusy \in SUBSET Threads /\ LPBusy' \in SUBSET Threads
      /\ Cardinality(LPBusy) \in Nat /\ Cardinality(LPBusy') \in Nat
  BY FiniteThreads DEF LPBusy
<1> DEFINE busy == pc[t] \notin LPResting
           busy1 == pc'[t] \notin LPResting
<1>4. /\ busy <=> t \in LPBusy
      /\ busy1 <=> t \in LPBusy'
      /\ LPBusy \ {t} = LPBusy' \ {t}
  BY <1>1 DEF LPBusy
<1>5. /\ (busy <=> busy1) => LPBusy' = LPBusy
      /\ busy /\ ~busy1 => Cardinality(LPBusy') = Cardinality(LPBusy) - 1
      /\ ~busy /\ busy1 => Cardinality(LPBusy') = Cardinality(LPBusy) + 1
  <2>1. ASSUME busy <=> busy1 PROVE LPBusy' = LPBusy
    BY <1>4, <2>1
  <2>2. ASSUME busy, ~busy1 PROVE Cardinality(LPBusy') = Cardinality(LPBusy) - 1
    <3>1. LPBusy = LPBusy' \cup {t} /\ t \notin LPBusy'
      BY <1>4, <2>2
    <3>2. Cardinality(LPBusy' \cup {t}) = Cardinality(LPBusy') + 1
      BY <1>3, <3>1, FiniteThreads
    <3>3. QED
      BY <1>3, <3>1, <3>2
  <2>3. ASSUME ~busy, busy1 PROVE Cardinality(LPBusy') = Cardinality(LPBusy) + 1
    <3>1. LPBusy' = LPBusy \cup {t} /\ t \notin LPBusy
      BY <1>4, <2>3
    <3>2. Cardinality(LPBusy \cup {t}) = Cardinality(LPBusy) + 1
      BY <1>3, <3>1, FiniteThreads
    <3>3. QED
      BY <1>3, <3>1, <3>2
  <2>4. QED
    BY <2>1, <2>2, <2>3
<1> HIDE DEF busy, busy1
<1>6. CASE /\ LPIdle(t) /\ pc[t] = "idle" /\ pc'[t] = "check"
           /\ count' = count - 1 /\ UNCHANGED <<open, done>>
  <2>1. busy /\ ~busy1
    BY <1>6 DEF busy, busy1, LPResting
  <2>2. count' >= Cardinality(LPBusy')
    BY <1>2, <1>3, <1>5, <1>6, <2>1
  <2>3. QED
    BY <1>1, <1>2, <1>6, <2>2 DEF LPInv, LPResting
<1>7. CASE /\ LPRejoin(t) /\ pc[t] = "rejoin" /\ pc'[t] = "loop"
           /\ count' = count + 1 /\ UNCHANGED <<open, done>>
  <2>1. ~busy /\ busy1
    BY <1>7 DEF busy, busy1, LPResting
  <2>2. count' >= Cardinality(LPBusy')
    BY <1>2, <1>3, <1>5, <1>7, <2>1
  <2>3. QED
    BY <1>1, <1>2, <1>7, <2>2 DEF LPInv, LPResting
<1>8. CASE /\ LPLoop(t) /\ pc[t] = "loop" /\ UNCHANGED <<count, open, done>>
           /\ pc'[t] = IF done THEN "end"
                       ELSE IF open[Shared] # {} THEN "take" ELSE "idle"
  <2>1. busy
    BY <1>8 DEF busy, LPResting
  <2>2. count' >= Cardinality(LPBusy')
    BY <1>2, <1>3, <1>5, <1>8, <2>1
  <2>3. QED
    BY <1>1, <1>2, <1>8, <2>2 DEF LPInv, LPResting
<1>9. CASE /\ LPDone(t) /\ pc[t] = "check2" /\ UNCHANGED <<count, open>>
           /\ pc'[t] \in {"end", "spin"} /\ done' = (done \/ count = 0)
  <2>1. ~busy /\ ~busy1
    BY <1>9 DEF busy, busy1, LPResting
  <2>2. count' >= Cardinality(LPBusy')
    BY <1>2, <1>3, <1>5, <1>9, <2>1
  <2>3. \A u \in Threads : pc[u] \in LPResting => pc'[u] \in LPResting
    BY <1>1, <1>9 DEF LPResting
  <2>4. open'[Shared] # {} =>
          \E u \in Threads : pc'[u] \notin LPResting \cup {"idle"}
    BY <1>1, <1>2, <1>9 DEF LPResting
  <2>5. done' => /\ open'[Shared] = {}
                 /\ \A u \in Threads : pc'[u] \in LPResting \cup {"loop"}
    <3>1. CASE done
      BY <1>1, <1>2, <1>9, <2>3, <3>1
    <3>2. CASE count = 0
      BY <1>1, <1>9, <2>3, <3>2, LPNothing
    <3>3. QED
      BY <1>9, <3>1, <3>2
  <2>6. QED
    BY <1>1, <2>2, <2>4, <2>5 DEF LPInv
<1>10. CASE /\ pc[t] \in LPResting \ {"end"} /\ pc'[t] \in LPResting
            /\ UNCHANGED <<count, open, done>>
  <2>1. ~busy /\ ~busy1
    BY <1>10 DEF busy, busy1
  <2>2. count' >= Cardinality(LPBusy')
    BY <1>2, <1>3, <1>5, <1>10, <2>1
  <2>3. QED
    BY <1>1, <1>2, <1>10, <2>2 DEF LPInv
<1>11. CASE /\ pc[t] \notin LPResting \cup {"loop", "idle"}
            /\ pc'[t] \notin LPResting \cup {"idle"}
            /\ UNCHANGED <<count, done>>
  <2>1. busy /\ busy1
    BY <1>11 DEF busy, busy1
  <2>2. count' >= Cardinality(LPBusy')
    BY <1>2, <1>3, <1>5, <1>11, <2>1
  <2>3. ~done'
    BY <1>2, <1>11
  <2>4. QED
    BY <1>1, <1>11, <2>2, <2>3 DEF LPInv
<1>12. QED
  BY <1>6, <1>7, <1>8, <1>9, <1>10, <1>11, LPMoves

LEMMA CompletionInit == Init => PAInv /\ LPInv
<1> SUFFICES ASSUME Init PROVE PAInv /\ LPInv
  OBVIOUS
<1>1. ASSUME algo = "pastar" PROVE PAInv
  <2>1. PAStarInit
    BY <1>1, Zenon DEF Init
  <2>2. \A t \in Threads : pc[t] = "loop"
    BY <2>1, Basics DEF PAStarInit, Threads
  <2>3. PAWaiting = {} /\ count = 0
    BY <2>1, <2>2 DEF PAWaiting, PAStarInit
  <2>4. QED
    BY <2>2, <2>3, FS_EmptySet DEF PAInv
<1>2. ASSUME algo = "lpastar" PROVE LPInv
  <2>1. LPAStarInit
    BY <1>2, Zenon DEF Init
  <2>2. (\A t \in Threads : pc[t] = "loop") /\ count = N /\ 1 \in Threads
    BY <2>1, Basics DEF LPAStarInit, Threads
  <2>3. LPBusy = Threads /\ Cardinality(Threads) = N
    BY <2>2, FiniteThreads DEF LPBusy, LPResting
  <2>4. done = FALSE
    BY DEF Init
  <2>5. QED
    BY <2>2, <2>3, <2>4, Basics DEF LPInv, LPResting
<1>3. QED
  BY <1>1, <1>2 DEF PAInv, LPInv

LEMMA CompletionKept ==
  TypeOK /\ PAInv /\ LPInv /\ [Next]_vars => PAInv' /\ LPInv'
<1> SUFFICES ASSUME TypeOK, PAInv, LPInv, [Next]_vars PROVE PAInv' /\ LPInv'
  OBVIOUS
<1>1. CASE UNCHANGED vars
  BY <1>1 DEF PAInv, LPInv, PAWaiting, LPBusy, vars, mode
<1>2. ASSUME NEW t \in Threads, PAStarStep(t) PROVE PAInv' /\ LPInv'
  BY <1>2, PAStep, AlgoStays DEF LPInv
<1>3. ASSUME NEW t \in Threads, LPAStarStep(t) PROVE PAInv' /\ LPInv'
  BY <1>3, LPStep, AlgoStays DEF PAInv
<1>4. ASSUME algo' = algo, algo \in {"kbfs", "syncwastar"} PROVE PAInv' /\ LPInv'
  BY <1>4 DEF PAInv, LPInv
<1>5. QED
  BY <1>1, <1>2, <1>3, <1>4, StepKinds, AlgoStays

LEMMA CompletionStep ==
  TypeOK /\ PAInv /\ LPInv /\ [Next]_vars => [DoneWhenEmpty]_vars
<1> SUFFICES ASSUME TypeOK, PAInv, LPInv, Next, done', ~done,
                    algo \in {"pastar", "lpastar"}
             PROVE  open'[Shared] = {} /\ \A t \in Threads : Idle(t) \/ pc'[t] = "end"
  BY DEF DoneWhenEmpty
<1>1. PICK t \in Threads : PAStarStep(t) \/ LPAStarStep(t)
  BY StepKinds, AlgoStays DEF vars
<1>2. CASE PAStarStep(t)
  <2>1. algo = "pastar" /\ PAIdle(t)
    BY <1>2, PAMoves DEF PARejoin, PACrash, PAStarStep
  <2>2. /\ open[Shared] = {} /\ open' = open /\ pc'[t] = "end"
        /\ PAWaiting \cup {t} = Threads
    BY <2>1, PAIdleMove
  <2>3. \A u \in Threads : u = t \/ pc[u] \in {"spin", "rejoin"}
    BY <2>2 DEF PAWaiting
  <2>4. QED
    BY <2>2, <2>3 DEF Idle
<1>3. CASE LPAStarStep(t)
  <2>1. algo = "lpastar" /\ open' = open /\ count = 0
    BY <1>3, LPMoves
  <2>2. QED
    BY <2>1, LPNothing DEF Idle, LPResting
<1>4. QED
  BY <1>1, <1>2, <1>3

\* PAStar and LPAStar are declared done only when the open list is empty and no
\* thread has a node, or a child that could still be added to it, in its hands.
THEOREM CompletionIsSound == Spec => CompletionSound
<1>1. Init => TypeOK /\ PAInv /\ LPInv
  BY TypeInit, CompletionInit
<1>2. TypeOK /\ PAInv /\ LPInv /\ [Next]_vars
        => TypeOK' /\ (PAInv /\ LPInv)' /\ [DoneWhenEmpty]_vars
  BY TypeKept, CompletionKept, CompletionStep
<1>3. QED
  BY <1>1, <1>2, PTL DEF Spec, CompletionSound

-----------------------------------------------------------------------------
(***************************************************************************)
(* No search finds more than there is                                      *)
(***************************************************************************)

\* v may be the cost of a path to s: a solution through it costs no less than
\* a cheapest one.
Real(s, v) == CostToGo[Start] <= v + CostToGo[s]

Sound ==
  /\ \A n \in Nodes : Real(n[1], g[n])
  /\ \A t \in Threads :
       /\ \A ch \in todo[t] : Real(ch[1], ch[2])
       /\ Real(kid[t][1][1], kid[t][1][2]) /\ kid[t][2][1] = kid[t][1][1]
       /\ algo # "kbfs" /\ pc[t] = "goal" => cur[t][1] \in Goals
  /\ algo = "lpastar" =>
       /\ \A n \in open[0] : Real(n[1], n[2])
       /\ \A t \in Threads : Real(cur[t][1], cur[t][2])
  /\ best >= CostToGo[Start]

LEMMA RealBasics ==
  /\ CostToGo[Start] \in Nat /\ CostToGo[Start] <= Infinity /\ Infinity \in Nat
  /\ Real(Start, 0)
  /\ \A s \in States : CostToGo[s] \in Nat /\ Real(s, Infinity)
  /\ \A s \in Goals : \A v \in Nat : Real(s, v) => v >= CostToGo[Start]
<1>1. /\ \A s \in States : CostToGo[s] \in Nat
      /\ Start \in States /\ Infinity \in Nat /\ Goals \subseteq States
      /\ \A s \in States : CostToGo[s] <= Infinity
      /\ \A s \in Goals : CostToGo[s] = 0
  BY CostToGoType, CostToGoBound, SpaceAssumption
<1>2. QED
  BY <1>1 DEF Real

LEMMA ChildReal ==
  ASSUME NEW s \in States, NEW v \in Nat, Real(s, v)
  PROVE  /\ \A e \in Edges[s] : Real(e.to, v + e.cost)
         /\ \A ch \in Children(s, v) : Real(ch[1], ch[2])
<1>1. ASSUME NEW e \in Edges[s] PROVE Real(e.to, v + e.cost)
  <2>1. e.to \in States /\ e.cost \in Nat
    BY SpaceAssumption
  <2>2. CostToGo[s] <= e.cost + CostToGo[e.to]
    BY CostToGoEdge
  <2>3. /\ CostToGo[s] \in Nat /\ CostToGo[e.to] \in Nat /\ CostToGo[Start] \in Nat
    BY <2>1, RealBasics
  <2>4. QED
    BY <2>1, <2>2, <2>3 DEF Real
<1>2. QED
  BY <1>1 DEF Children

LEMMA PASound ==
  ASSUME TypeOK, Sound, NEW t \in Threads, PAStarStep(t)
  PROVE  Sound'
<1>0. algo = "pastar" /\ algo' = algo
  BY AlgoStays
<1>a. /\ Threads \subseteq 0..N /\ DOMAIN pc = 0..N
      /\ cur \in [Threads -> Pairs] /\ todo \in [Threads -> SUBSET Pairs]
      /\ kid \in [Threads -> Pairs \X Pairs] /\ g \in [Nodes -> Nat]
      /\ \A u \in Threads : cur[u] \in Nodes /\ kid[u][2] \in Nodes
  BY <1>0, Basics DEF TypeOK, HandType, ListType
<1> USE <1>0, <1>a DEF Sound, Go
<1>1. CASE PALoop(t)
  BY <1>1 DEF PALoop
<1>2. CASE PALock(t)
  BY <1>2 DEF PALock
<1>3. CASE PAIdle(t)
  BY <1>3 DEF PAIdle
<1>4. CASE PATake(t)
  BY <1>4 DEF PATake
<1>5. CASE PACrash(t)
  BY <1>5 DEF PACrash
<1>6. CASE PASpin(t)
  BY <1>6 DEF PASpin
<1>7. CASE PARejoin(t)
  BY <1>7 DEF PARejoin
<1>8. CASE PATest(t)
  BY <1>8 DEF PATest
<1>9. CASE PAPrune(t)
  BY <1>9 DEF PAPrune
<1>10. CASE PAGoal(t)
  <2>1. cur[t] \in Nodes /\ cur[t][1] \in Goals /\ g[cur[t]] \in Nat
    BY <1>10 DEF PAGoal
  <2>2. g[cur[t]] >= CostToGo[Start]
    BY <2>1, RealBasics
  <2>3. QED
    BY <1>10, <2>2 DEF PAGoal
<1>11. CASE PAExpand(t)
  <2>1. cur[t] \in Nodes /\ cur[t][1] \in States /\ g[cur[t]] \in Nat
    BY DEF Nodes
  <2>2. \A ch \in Children(cur[t][1], g[cur[t]]) : Real(ch[1], ch[2])
    BY <2>1, ChildReal
  <2>3. QED
    BY <1>11, <2>2 DEF PAExpand
<1>12. CASE PAChild(t)
  <2>1. PICK ch \in todo[t] :
          /\ todo' = [todo EXCEPT ![t] = @ \ {ch}]
          /\ \/ kid' = [kid EXCEPT ![t] = <<ch, <<ch[1], t>> >>]
             \/ \E dup \in Find(closed[Shared], ch[1]) :
                  kid' = [kid EXCEPT ![t] = <<ch, dup>>]
    BY <1>12 DEF PAChild
  <2>2. \A dup \in Find(closed[Shared], ch[1]) : dup[1] = ch[1]
    BY DEF Find
  <2>3. PICK m : kid' = [kid EXCEPT ![t] = <<ch, m>>] /\ m[1] = ch[1]
    BY <2>1, <2>2
  <2>4. /\ \A u \in Threads : pc'[u] = "goal" => pc[u] = "goal"
        /\ UNCHANGED <<g, cur, best>>
    BY <1>12 DEF PAChild
  <2>5. \A u \in Threads :
          /\ \A d \in todo'[u] : Real(d[1], d[2])
          /\ Real(kid'[u][1][1], kid'[u][1][2]) /\ kid'[u][2][1] = kid'[u][1][1]
    BY <2>1, <2>3
  <2>6. QED
    BY <2>4, <2>5
<1>13. CASE PAExpanded(t)
  BY <1>13 DEF PAExpanded
<1>14. CASE PADup(t)
  <2>1. g' = g \/ g' = [g EXCEPT ![kid[t][2]] = kid[t][1][2]]
    BY <1>14 DEF PADup
  <2>2. UNCHANGED <<cur, todo, kid, best>>
        /\ \A u \in Threads : pc'[u] = "goal" => pc[u] = "goal"
    BY <1>14 DEF PADup
  <2>3. \A n \in Nodes : Real(n[1], g'[n])
    BY <2>1
  <2>4. QED
    BY <2>2, <2>3
<1>15. CASE PAAdd(t)
  <2>1. g' = [g EXCEPT ![kid[t][2]] = kid[t][1][2]]
    BY <1>15 DEF PAAdd
  <2>2. UNCHANGED <<cur, todo, kid, best>>
        /\ \A u \in Threads : pc'[u] = "goal" => pc[u] = "goal"
    BY <1>15 DEF PAAdd
  <2>3. \A n \in Nodes : Real(n[1], g'[n])
    BY <2>1
  <2>4. QED
    BY <2>2, <2>3
<1>16. CASE PAClose(t)
  BY <1>16 DEF PAClose
<1>17. QED
  BY <1>1, <1>2, <1>3, <1>4, <1>5, <1>6, <1>7, <1>8, <1>9, <1>10, <1>11,
     <1>12, <1>13, <1>14, <1>15, <1>16 DEF PAStarStep

LEMMA LPSound ==
  ASSUME TypeOK, Sound, NEW t \in Threads, LPAStarStep(t)
  PROVE  Sound'
<1>0. algo = "lpastar" /\ algo' = algo
  BY AlgoStays
<1>a. /\ Threads \subseteq 0..N /\ DOMAIN pc = 0..N /\ 0 \in 0..N /\ Shared = 0
      /\ cur \in [Threads -> Pairs] /\ todo \in [Threads -> SUBSET Pairs]
      /\ kid \in [Threads -> Pairs \X Pairs] /\ g \in [Nodes -> Nat]
      /\ open \in [0..N -> SUBSET Pairs] /\ best \in Nat
  BY Basics DEF TypeOK, HandType, ListType, ModeType, Shared
<1> USE <1>0, <1>a DEF Sound, Go
<1>1. CASE LPLoop(t)
  BY <1>1 DEF LPLoop
<1>2. CASE LPTake(t)
  <2>1. /\ UNCHANGED <<g, todo, kid, best>>
        /\ \A u \in Threads : pc'[u] = "goal" => pc[u] = "goal" /\ u # t
    BY <1>2 DEF LPTake
  <2>2. \/ UNCHANGED <<open, cur>>
        \/ \E n \in open[0] : /\ open' = [open EXCEPT ![0] = @ \ {n}]
                              /\ cur' = [cur EXCEPT ![t] = n]
    BY <1>2 DEF LPTake, First
  <2>3. /\ \A n \in open'[0] : Real(n[1], n[2])
        /\ \A u \in Threads : Real(cur'[u][1], cur'[u][2]) /\ (u # t => cur'[u] = cur[u])
    BY <2>2
  <2>4. QED
    BY <2>1, <2>3
<1>3. CASE LPIdle(t)
  BY <1>3 DEF LPIdle
<1>4. CASE LPCheck(t)
  BY <1>4 DEF LPCheck
<1>5. CASE LPDone(t)
  BY <1>5 DEF LPDone
<1>6. CASE LPSpin(t)
  BY <1>6 DEF LPSpin
<1>7. CASE LPRecheck(t)
  BY <1>7 DEF LPRecheck
<1>8. CASE LPRecheck2(t)
  BY <1>8 DEF LPRecheck2
<1>9. CASE LPRejoin(t)
  BY <1>9 DEF LPRejoin
<1>10. CASE LPTest(t)
  BY <1>10 DEF LPTest
<1>11. CASE LPGoal(t)
  <2>1. cur[t][1] \in Goals /\ cur[t][2] \in Nat /\ Real(cur[t][1], cur[t][2])
    BY <1>11 DEF LPGoal, Pairs
  <2>2. cur[t][2] >= CostToGo[Start]
    BY <2>1, RealBasics
  <2>3. {best, cur[t][2]} \in SUBSET Nat /\ best' = Min({best, cur[t][2]})
    BY <1>11, <2>1 DEF LPGoal
  <2>4. best' = best \/ best' = cur[t][2]
    BY <2>3, MinIsLeast
  <2>5. /\ UNCHANGED <<g, open, cur, todo, kid>>
        /\ \A u \in Threads : pc'[u] = "goal" => pc[u] = "goal"
    BY <1>11 DEF LPGoal
  <2>6. QED
    BY <2>2, <2>4, <2>5
<1>12. CASE LPBound(t)
  BY <1>12 DEF LPBound
<1>13. CASE LPExpand(t)
  <2>1. cur[t][1] \in States /\ cur[t][2] \in Nat /\ Real(cur[t][1], cur[t][2])
    BY DEF Pairs
  <2>2. \A ch \in Children(cur[t][1], cur[t][2]) : Real(ch[1], ch[2])
    BY <2>1, ChildReal
  <2>3. QED
    BY <1>13, <2>2 DEF LPExpand
<1>14. CASE LPChild(t)
  <2>1. PICK ch \in todo[t] : /\ todo' = [todo EXCEPT ![t] = @ \ {ch}]
                             /\ kid' = [kid EXCEPT ![t] = <<ch, ch>>]
    BY <1>14 DEF LPChild
  <2>2. /\ \A u \in Threads : pc'[u] = "goal" => pc[u] = "goal"
        /\ UNCHANGED <<g, open, cur, best>>
    BY <1>14 DEF LPChild
  <2>3. \A u \in Threads :
          /\ \A d \in todo'[u] : Real(d[1], d[2])
          /\ Real(kid'[u][1][1], kid'[u][1][2]) /\ kid'[u][2][1] = kid'[u][1][1]
    BY <2>1
  <2>4. QED
    BY <2>2, <2>3
<1>15. CASE LPExpanded(t)
  BY <1>15 DEF LPExpanded
<1>16. CASE LPUpdate(t)
  BY <1>16 DEF LPUpdate
<1>17. CASE LPAdd(t)
  BY <1>17 DEF LPAdd
<1>18. QED
  BY <1>1, <1>2, <1>3, <1>4, <1>5, <1>6, <1>7, <1>8, <1>9, <1>10, <1>11,
     <1>12, <1>13, <1>14, <1>15, <1>16, <1>17 DEF LPAStarStep

LEMMA KSound ==
  ASSUME TypeOK, Sound, NEW t \in 0..N, KBFSStep(t)
  PROVE  Sound'
<1>0. algo = "kbfs" /\ algo' = algo
  BY AlgoStays
<1>a. /\ Threads \subseteq 0..N /\ DOMAIN pc = 0..N /\ Main = 0 /\ 0 \in 0..N
      /\ cur \in [Threads -> Pairs] /\ todo \in [Threads -> SUBSET Pairs]
      /\ kid \in [Threads -> Pairs \X Pairs] /\ g \in [Nodes -> Nat]
      /\ \A u \in Threads : cur[u] \in Nodes
      /\ turn \in 0..N /\ kid' = kid
  BY <1>0, Basics DEF TypeOK, HandType, ListType, ModeType, Main, KBFSStep,
     KComplete, KWake, KExpand, KStart, KHead, KTake, KReset, KSignal, KWait,
     KChild, KCollected, KJoin, KEnd, KRest
<1> USE <1>0, <1>a DEF Sound, Go
<1>1. ASSUME t # Main, KComplete(t) PROVE Sound'
  <2>1. UNCHANGED <<g, best, cur, todo>>
    BY <1>1 DEF KComplete, KRest, lists
  <2>2. QED
    BY <2>1
<1>2. ASSUME t # Main, KWake(t) PROVE Sound'
  BY <1>2 DEF KWake, KRest, lists
<1>3. ASSUME t # Main, KExpand(t) PROVE Sound'
  <2>1. t \in Threads
    BY <1>3 DEF Threads
  <2>2. cur[t] \in Nodes /\ cur[t][1] \in States /\ g[cur[t]] \in Nat
    BY <2>1 DEF Nodes
  <2>3. \A ch \in Children(cur[t][1], g[cur[t]]) : Real(ch[1], ch[2])
    BY <2>2, ChildReal
  <2>4. QED
    BY <1>3, <2>1, <2>3 DEF KExpand, KRest, lists
<1>4. CASE KStart
  BY <1>4 DEF KStart, KRest
<1>5. CASE KHead
  BY <1>5 DEF KHead, KRest, lists
<1>6. CASE KTake
  <2>1. PICK n \in open[0] : KGoal(n) \/ KGive(n)
    BY <1>6 DEF KTake, First, Shared
  <2>2. n \in Nodes /\ g[n] \in Nat /\ Real(n[1], g[n])
    BY <2>1 DEF TypeOK, ListType
  <2>3. best' = best \/ (best' = g[n] /\ n[1] \in Goals)
    BY <2>1 DEF KGoal, KGive
  <2>4. best' >= CostToGo[Start]
    BY <2>2, <2>3, RealBasics
  <2>5. UNCHANGED <<g, todo, kid>>
    BY <1>6 DEF KTake, KRest
  <2>6. QED
    BY <2>4, <2>5
<1>7. CASE KReset
  BY <1>7 DEF KReset, KRest, lists
<1>8. CASE KSignal
  BY <1>8 DEF KSignal, KRest, lists
<1>9. CASE KWait
  BY <1>9 DEF KWait, KRest, lists
<1>10. CASE KChild
  <2>1. turn \in Threads
    BY <1>10 DEF KChild, Threads
  <2>2. PICK ch \in todo[turn] :
          /\ todo' = [todo EXCEPT ![turn] = @ \ {ch}]
          /\ g' = g \/ g' = [g EXCEPT ![<<ch[1], 0>>] = ch[2]]
    BY <1>10 DEF KChild
  <2>3. Real(ch[1], ch[2])
    BY <2>1, <2>2
  <2>4. ASSUME NEW n \in Nodes PROVE Real(n[1], g'[n])
    <3>1. CASE n = <<ch[1], 0>>
      BY <2>2, <2>3, <3>1
    <3>2. CASE n # <<ch[1], 0>>
      BY <2>2, <3>2
    <3>3. QED
      BY <3>1, <3>2
  <2>5. \A u \in Threads : \A d \in todo'[u] : Real(d[1], d[2])
    BY <2>1, <2>2
  <2>6. UNCHANGED best
    BY <1>10 DEF KChild
  <2>7. QED
    BY <2>4, <2>5, <2>6
<1>11. CASE KCollected
  BY <1>11 DEF KCollected, KRest, lists
<1>12. CASE KJoin
  BY <1>12 DEF KJoin, lists
<1>13. CASE KEnd
  BY <1>13 DEF KEnd, KRest, lists
<1>14. QED
  BY <1>1, <1>2, <1>3, <1>4, <1>5, <1>6, <1>7, <1>8, <1>9, <1>10, <1>11,
     <1>12, <1>13 DEF KBFSStep

LEMMA SSound ==
  ASSUME TypeOK, Sound, NEW t \in Threads, SyncWAStarStep(t)
  PROVE  Sound'
<1>0. algo = "syncwastar" /\ algo' = algo
  BY AlgoStays
<1>a. /\ Threads \subseteq 0..N /\ DOMAIN pc = 0..N
      /\ cur \in [Threads -> Pairs] /\ g \in [Nodes -> Nat]
      /\ \A u \in Threads : cur[u] \in Nodes
      /\ UNCHANGED <<todo, kid>>
  BY <1>0, Basics DEF TypeOK, HandType, ListType, SyncWAStarStep, SNext,
     SGiveUp, STake, SGoal, SFinish, SExpand, SClear
<1> USE <1>0, <1>a DEF Sound, Go
<1>1. CASE SNext(t)
  <2>1. /\ UNCHANGED <<g, cur, best>>
        /\ \A u \in Threads : pc'[u] = "goal" => pc[u] = "goal"
    BY <1>1 DEF SNext
  <2>2. QED
    BY <2>1
<1>2. CASE SGiveUp(t)
  BY <1>2 DEF SGiveUp
<1>3. CASE STake(t)
  <2>1. PICK n : /\ cur' = [cur EXCEPT ![t] = n]
                 /\ Go(t, "take", IF SPrime(t, n) >= bound
                        THEN IF weight[t] = 1 THEN "finish" ELSE "clear"
                        ELSE IF n[1] \in Goals THEN "goal" ELSE "expand")
    BY <1>3 DEF STake
  <2>2. \A u \in Threads : pc'[u] = "goal" => cur'[u][1] \in Goals
    BY <2>1
  <2>3. UNCHANGED <<g, best>>
    BY <1>3 DEF STake
  <2>4. QED
    BY <2>2, <2>3
<1>4. CASE SGoal(t)
  <2>1. cur[t] \in Nodes /\ cur[t][1] \in Goals /\ g[cur[t]] \in Nat
    BY <1>4 DEF SGoal
  <2>2. g[cur[t]] >= CostToGo[Start]
    BY <2>1, RealBasics
  <2>3. QED
    BY <1>4, <2>2 DEF SGoal
<1>5. CASE SFinish(t)
  BY <1>5 DEF SFinish
<1>6. CASE SExpand(t)
  <2>1. cur[t] \in Nodes /\ cur[t][1] \in States /\ g[cur[t]] \in Nat
    BY DEF Nodes
  <2>2. \A e \in Edges[cur[t][1]] : Real(e.to, g[cur[t]] + e.cost)
    BY <2>1, ChildReal
  <2>3. \A n \in Nodes :
          \/ g'[n] = g[n]
          \/ \E e \in Edges[cur[t][1]] :
               e.to = n[1] /\ g'[n] = g[cur[t]] + e.cost
    BY <1>6, ExpandEffect
  <2>4. \A n \in Nodes : Real(n[1], g'[n])
    BY <2>2, <2>3
  <2>5. /\ UNCHANGED <<cur, best>>
        /\ \A u \in Threads : pc'[u] = "goal" => pc[u] = "goal"
    BY <1>6 DEF SExpand
  <2>6. QED
    BY <2>4, <2>5
<1>7. CASE SClear(t)
  <2>1. \A n \in Nodes : n[1] \in States /\ Real(n[1], Infinity)
    BY RealBasics DEF Nodes
  <2>2. \A n \in Nodes : g'[n] = Infinity \/ g'[n] = g[n]
    BY <1>7 DEF SClear
  <2>3. \A n \in Nodes : Real(n[1], g'[n])
    BY <2>1, <2>2
  <2>4. /\ UNCHANGED <<cur, best>>
        /\ \A u \in Threads : pc'[u] = "goal" => pc[u] = "goal"
    BY <1>7 DEF SClear
  <2>5. QED
    BY <2>3, <2>4
<1>8. QED
  BY <1>1, <1>2, <1>3, <1>4, <1>5, <1>6, <1>7 DEF SyncWAStarStep

LEMMA SoundInit == Init => Sound
<1> SUFFICES ASSUME Init PROVE Sound
  OBVIOUS
<1>1. /\ g = [n \in Nodes |-> IF n = Root THEN 0 ELSE Infinity]
      /\ cur = [t \in Threads |-> Root] /\ todo = [t \in Threads |-> {}]
      /\ kid = [t \in Threads |-> <<Root, Root>>] /\ best = Infinity
  BY DEF Init
<1>2. Real(Root[1], 0) /\ Root[1] = Start /\ Root[2] = 0
  BY RealBasics DEF Root
<1>3. \A n \in Nodes : Real(n[1], g[n])
  BY <1>1, <1>2, RealBasics DEF Nodes
<1>4. /\ DOMAIN pc = 0..N
      /\ algo = "kbfs" \/ \A t \in Threads : pc[t] # "goal"
      /\ \A o \in 0..N : open[o] \subseteq {Root}
  <2>1. algo \in {"pastar", "lpastar", "kbfs", "syncwastar"}
    BY DEF Init
  <2>2. algo = "pastar" => PAStarInit
    BY Zenon DEF Init
  <2>3. algo = "lpastar" => LPAStarInit
    BY Zenon DEF Init
  <2>4. algo = "kbfs" => KBFSInit
    BY Zenon DEF Init
  <2>5. algo = "syncwastar" => SyncWAStarInit
    BY Zenon DEF Init
  <2>6. CASE algo = "pastar"
    BY <2>2, <2>6, Basics DEF PAStarInit
  <2>7. CASE algo = "lpastar"
    BY <2>3, <2>7, Basics DEF LPAStarInit
  <2>8. CASE algo = "kbfs"
    BY <2>4, <2>8, Basics DEF KBFSInit
  <2>9. CASE algo = "syncwastar"
    BY <2>5, <2>9, Basics DEF SyncWAStarInit
  <2>10. QED
    BY <2>1, <2>6, <2>7, <2>8, <2>9
<1>5. \A n \in open[0] : Real(n[1], n[2])
  BY <1>2, <1>4, Basics
<1>6. QED
  BY <1>1, <1>2, <1>3, <1>4, <1>5, RealBasics DEF Sound

LEMMA SoundKept == TypeOK /\ Sound /\ [Next]_vars => Sound'
<1> SUFFICES ASSUME TypeOK, Sound, [Next]_vars PROVE Sound'
  OBVIOUS
<1>1. CASE UNCHANGED vars
  BY <1>1 DEF Sound, vars, mode
<1>2. QED
  BY <1>1, StepKinds, PASound, LPSound, KSound, SSound

\* None of the four searches claims a solution that is cheaper than the
\* cheapest one there is, at any time.
THEOREM SolutionsAreReal == Spec => [](best >= CostToGo[Start])
<1>1. Init => TypeOK /\ Sound
  BY TypeInit, SoundInit
<1>2. TypeOK /\ Sound /\ [Next]_vars => TypeOK' /\ Sound'
  BY TypeKept, SoundKept
<1>3. Sound => best >= CostToGo[Start]
  BY DEF Sound
<1>4. QED
  BY <1>1, <1>2, <1>3, PTL DEF Spec

-----------------------------------------------------------------------------
(***************************************************************************)
(* LPAStar ends within its bound.                                          *)
(*                                                                         *)
(* A node never changes and may be in the lists several times, with        *)
(* several costs; the closed list may even forget a cheaper one, because   *)
(* its update keeps the worse.  So the proof carries what the program does *)
(* not: G, the least cost with which each state has been let through       *)
(* LPUpdate.  A state that promises a solution from there is either still  *)
(* to be expanded with that cost, in a list or in somebody's hands, or it  *)
(* has been, and each of its children is known as cheaply or in somebody's *)
(* hands on its way there.                                                 *)
(***************************************************************************)
\* The solution that is known is good enough.
LPMet == best <= weight[1] * CostToGo[Start]

\* A path is stored before its bound, and children are there only while they
\* are being handled.
LPHands ==
  /\ best <= bound /\ best <= Infinity
  /\ \A t \in Threads :
       /\ pc[t] # "crashed"
       /\ pc[t] = "bound" => best <= cur[t][2]
       /\ pc[t] = "expand" /\ cur[t][1] \in Goals => best <= cur[t][2]
       /\ pc[t] \notin {"child", "update", "add"} => todo[t] = {}

\* Node n is still to be expanded.
LPOpen(n) ==
  \/ n \in open[0]
  \/ \E t \in Threads : pc[t] = "add" /\ kid[t][1] = n
  \/ \E t \in Threads : pc[t] \in {"test", "goal", "bound", "expand"} /\ cur[t] = n

\* State x is known with a cost of at most v, or will be.
LPKnown(G, x, v) ==
  \/ G[x] <= v
  \/ \E t \in Threads : \/ <<x, v>> \in todo[t]
                        \/ pc[t] = "update" /\ kid[t][1] = <<x, v>>

\* State s was expanded with its least cost.
LPHandled(G, s) ==
  /\ s \in Goals => best <= G[s]
  /\ \A e \in Edges[s] : LPKnown(G, e.to, G[s] + e.cost)

\* No state that promises a good enough solution has been forgotten.
LPKept(G) ==
  \A s \in States : Promises(s, G[s]) => LPOpen(<<s, G[s]>>) \/ LPHandled(G, s)

\* No node of the closed list costs less than G says.
LPTable(G) == /\ G \in [States -> Nat] /\ G[Start] = 0
              /\ \A m \in closed[0] : G[m[1]] <= m[2]

LPSearch ==
  algo = "lpastar" =>
    /\ LPHands
    /\ \E G : LPTable(G) /\ (LPMet \/ LPKept(G))

\* Multiplication keeps the order.
LEMMA TimesMonotone ==
  ASSUME NEW k \in Nat, NEW x \in Nat, NEW y \in Nat, x <= y
  PROVE  k * x <= k * y /\ k * x \in Nat
<1>1. y - x \in Nat /\ y = x + (y - x)
  OBVIOUS
<1>2. k * (y - x) \in Nat /\ k * y = k * x + k * (y - x)
  BY <1>1
<1>3. QED
  BY <1>2

\* While the solution is too dear there is a cheaper one, and no node that
\* promises it is above the bound.
LEMMA LPNotMet ==
  ASSUME TypeOK, LPHands, ~LPMet
  PROVE  /\ CostToGo[Start] < Infinity
         /\ Admissible =>
              \A s \in States : \A v \in Nat :
                Promises(s, v) => v + weight[1] * H[s] < bound
<1> DEFINE C == CostToGo[Start]
           w == weight[1]
<1>1. C \in Nat /\ w \in Nat \ {0} /\ best \in Nat /\ bound \in Nat
  BY RealBasics, Basics DEF TypeOK, ModeType, Threads
<1>2. w * C \in Nat /\ w * C < best /\ best <= bound /\ best <= Infinity
  BY <1>1 DEF LPMet, LPHands
<1>3. 1 * C <= w * C
  BY <1>1
<1>4. ASSUME Admissible, NEW s \in States, NEW v \in Nat, Promises(s, v)
      PROVE  v + w * H[s] < bound
  <2>1. H[s] \in Nat /\ v + H[s] \in Nat /\ v + H[s] <= C
    BY <1>4, PromisesBound, SpaceAssumption
  <2>2. w * (v + H[s]) <= w * C
    BY <1>1, <2>1, TimesMonotone
  <2>3. 1 * v <= w * v /\ w * v \in Nat /\ w * H[s] \in Nat
    BY <1>1, <2>1
  <2>4. w * (v + H[s]) = w * v + w * H[s]
    BY <1>1, <2>1
  <2>5. QED
    BY <1>1, <1>2, <2>1, <2>2, <2>3, <2>4
<1>5. QED
  BY <1>1, <1>2, <1>3, <1>4, SpaceAssumption

\* The operator Min of two numbers.
LEMMA MinOfTwo ==
  ASSUME NEW x \in Nat, NEW y \in Nat
  PROVE  Min({x, y}) \in {x, y} /\ Min({x, y}) <= x /\ Min({x, y}) <= y
<1>1. {x, y} \in SUBSET Nat /\ {x, y} # {}
  OBVIOUS
<1>2. QED
  BY <1>1, MinIsLeast

\* The costs in hands, and that the solution only gets better.
LEMMA LPHandsStep ==
  ASSUME TypeOK, LPHands, NEW t \in Threads, LPAStarStep(t)
  PROVE  LPHands' /\ best' <= best /\ weight' = weight
<1>a. /\ Threads \subseteq 0..N /\ DOMAIN pc = 0..N
      /\ cur \in [Threads -> Pairs] /\ todo \in [Threads -> SUBSET Pairs]
      /\ best \in Nat /\ bound \in Nat /\ Infinity \in Nat
      /\ \A u \in Threads : cur[u][2] \in Nat
  BY Basics, RealBasics DEF TypeOK, HandType, ModeType, Pairs
<1> USE <1>a DEF Go, LPHands, mode
<1>1. CASE LPLoop(t)
  BY <1>1 DEF LPLoop
<1>2. CASE LPTake(t)
  <2>1. /\ UNCHANGED <<weight, todo, best, bound>>
        /\ pc[t] = "take" /\ pc'[t] \in {"loop", "test"}
        /\ \A u \in Threads : u # t => pc'[u] = pc[u]
    BY <1>2 DEF LPTake
  <2>2. cur' = cur \/ \E n : cur' = [cur EXCEPT ![t] = n]
    BY <1>2 DEF LPTake
  <2>3. \A u \in Threads : u # t => cur'[u] = cur[u]
    BY <2>2
  <2>4. ASSUME NEW u \in Threads
        PROVE  /\ pc'[u] # "crashed"
               /\ pc'[u] = "bound" => best <= cur'[u][2]
               /\ pc'[u] = "expand" /\ cur'[u][1] \in Goals => best <= cur'[u][2]
               /\ pc'[u] \notin {"child", "update", "add"} => todo[u] = {}
    BY <2>1, <2>3
  <2>5. QED
    BY <2>1, <2>4
<1>3. CASE LPIdle(t)
  BY <1>3 DEF LPIdle
<1>4. CASE LPCheck(t)
  BY <1>4 DEF LPCheck
<1>5. CASE LPDone(t)
  BY <1>5 DEF LPDone
<1>6. CASE LPSpin(t)
  BY <1>6 DEF LPSpin
<1>7. CASE LPRecheck(t)
  BY <1>7 DEF LPRecheck
<1>8. CASE LPRecheck2(t)
  BY <1>8 DEF LPRecheck2
<1>9. CASE LPRejoin(t)
  BY <1>9 DEF LPRejoin
<1>10. CASE LPTest(t)
  <2>1. /\ UNCHANGED <<weight, todo, best, bound, cur>>
        /\ pc[t] = "test" /\ pc'[t] \in {"loop", "goal", "expand"}
        /\ pc'[t] = "expand" => cur[t][1] \notin Goals
        /\ \A u \in Threads : u # t => pc'[u] = pc[u]
    BY <1>10 DEF LPTest
  <2>2. QED
    BY <2>1
<1>11. CASE LPGoal(t)
  <2>1. /\ UNCHANGED <<weight, todo, bound, cur>>
        /\ pc[t] = "goal" /\ pc'[t] = "bound"
        /\ \A u \in Threads : u # t => pc'[u] = pc[u]
        /\ best' = Min({best, cur[t][2]})
    BY <1>11 DEF LPGoal
  <2>2. best' \in Nat /\ best' <= best /\ best' <= cur[t][2]
    BY <2>1, MinOfTwo
  <2>3. QED
    BY <2>1, <2>2
<1>12. CASE LPBound(t)
  <2>1. /\ UNCHANGED <<weight, todo, best, cur>>
        /\ pc[t] = "bound" /\ pc'[t] = "expand"
        /\ \A u \in Threads : u # t => pc'[u] = pc[u]
        /\ bound' = Min({bound, cur[t][2]})
    BY <1>12 DEF LPBound
  <2>2. bound' \in {bound, cur[t][2]}
    BY <2>1, MinOfTwo
  <2>3. QED
    BY <2>1, <2>2
<1>13. CASE LPExpand(t)
  BY <1>13 DEF LPExpand
<1>14. CASE LPChild(t)
  <2>1. /\ UNCHANGED <<weight, best, bound, cur>>
        /\ pc[t] = "child" /\ pc'[t] \in {"update", "child"}
        /\ \A u \in Threads : u # t => pc'[u] = pc[u]
    BY <1>14 DEF LPChild
  <2>2. \A u \in Threads : u # t => todo'[u] = todo[u]
    BY <1>14 DEF LPChild
  <2>3. QED
    BY <2>1, <2>2
<1>15. CASE LPExpanded(t)
  BY <1>15 DEF LPExpanded
<1>16. CASE LPUpdate(t)
  BY <1>16 DEF LPUpdate
<1>17. CASE LPAdd(t)
  BY <1>17 DEF LPAdd
<1>18. QED
  BY <1>1, <1>2, <1>3, <1>4, <1>5, <1>6, <1>7, <1>8, <1>9, <1>10, <1>11,
     <1>12, <1>13, <1>14, <1>15, <1>16, <1>17 DEF LPAStarStep

\* A node that promises a solution and is to be expanded stays so until it is.
LEMMA LPOpenStays ==
  ASSUME Admissible, TypeOK, LPHands, ~LPMet, NEW G, LPTable(G),
         NEW s \in States, Promises(s, G[s]), LPOpen(<<s, G[s]>>),
         NEW t \in Threads, LPAStarStep(t)
  PROVE  LPOpen(<<s, G[s]>>)' \/ (LPExpand(t) /\ cur[t] = <<s, G[s]>>)
<1> DEFINE n == <<s, G[s]>>
<1>a. /\ Threads \subseteq 0..N /\ DOMAIN pc = 0..N /\ 0 \in 0..N /\ Shared = 0
      /\ cur \in [Threads -> Pairs] /\ kid \in [Threads -> Pairs \X Pairs]
      /\ open \in [0..N -> SUBSET Pairs]
  BY Basics DEF TypeOK, HandType, ListType, Shared
<1>b. ~Stale(n)
  <2>1. n[1] = s /\ n[2] = G[s] /\ G[s] \in Nat
    BY DEF LPTable
  <2>2. ~(FPrime(n) >= bound)
    <3>1. G[s] + weight[1] * H[s] < bound
      BY <2>1, LPNotMet
    <3>2. /\ weight[1] \in Nat /\ H[s] \in Nat /\ bound \in Nat
      BY Basics, SpaceAssumption DEF TypeOK, ModeType, Threads
    <3>3. weight[1] * H[s] \in Nat
      BY <3>2
    <3>4. QED
      BY <2>1, <3>1, <3>2, <3>3 DEF FPrime
  <2>3. ASSUME NEW m \in Find(closed[0], s), m[2] < G[s] PROVE FALSE
    <3>1. m \in closed[0] /\ m[1] = s /\ m \in Pairs
      BY <1>a DEF Find, TypeOK, ListType
    <3>2. G[s] <= m[2] /\ m[2] \in Nat
      BY <3>1 DEF LPTable, Pairs
    <3>3. QED
      BY <2>1, <2>3, <3>2
  <2>4. QED
    BY <1>a, <2>1, <2>2, <2>3 DEF Stale
<1> HIDE DEF n
<1> SUFFICES ASSUME LPOpen(n) PROVE LPOpen(n)' \/ (LPExpand(t) /\ cur[t] = n)
  BY DEF n
<1> USE <1>a DEF Go, LPOpen
<1>1. CASE LPLoop(t)
  BY <1>1 DEF LPLoop
<1>2. CASE LPTake(t)
  <2>1. CASE UNCHANGED <<open, cur>> /\ pc' = [pc EXCEPT ![t] = "loop"]
    BY <1>2, <2>1 DEF LPTake
  <2>2. CASE /\ pc' = [pc EXCEPT ![t] = "test"]
             /\ \E m \in open[0] : /\ cur' = [cur EXCEPT ![t] = m]
                                   /\ open' = [open EXCEPT ![0] = @ \ {m}]
    <3>1. PICK m \in open[0] : /\ cur' = [cur EXCEPT ![t] = m]
                               /\ open' = [open EXCEPT ![0] = @ \ {m}]
      BY <2>2
    <3>2. n \in open[0] => n \in open'[0] \/ (pc'[t] = "test" /\ cur'[t] = n)
      BY <2>2, <3>1
    <3>3. /\ \A u \in Threads : u # t => pc'[u] = pc[u] /\ cur'[u] = cur[u]
          /\ kid' = kid /\ pc[t] = "take"
      BY <1>2, <2>2, <3>1 DEF LPTake
    <3>4. QED
      BY <3>2, <3>3
  <2>3. QED
    BY <1>2, <2>1, <2>2 DEF LPTake, First
<1>3. CASE LPIdle(t)
  BY <1>3 DEF LPIdle
<1>4. CASE LPCheck(t)
  BY <1>4 DEF LPCheck
<1>5. CASE LPDone(t)
  BY <1>5 DEF LPDone
<1>6. CASE LPSpin(t)
  BY <1>6 DEF LPSpin
<1>7. CASE LPRecheck(t)
  BY <1>7 DEF LPRecheck
<1>8. CASE LPRecheck2(t)
  BY <1>8 DEF LPRecheck2
<1>9. CASE LPRejoin(t)
  BY <1>9 DEF LPRejoin
<1>10. CASE LPTest(t)
  BY <1>b, <1>10 DEF LPTest
<1>11. CASE LPGoal(t)
  BY <1>11 DEF LPGoal
<1>12. CASE LPBound(t)
  BY <1>12 DEF LPBound
<1>13. CASE LPExpand(t)
  BY <1>13 DEF LPExpand
<1>14. CASE LPChild(t)
  <2>1. /\ pc[t] = "child" /\ UNCHANGED <<open, cur>>
        /\ \A u \in Threads : u # t => pc'[u] = pc[u] /\ kid'[u] = kid[u]
    BY <1>14 DEF LPChild
  <2>2. QED
    BY <2>1
<1>15. CASE LPExpanded(t)
  BY <1>15 DEF LPExpanded
<1>16. CASE LPUpdate(t)
  BY <1>16 DEF LPUpdate
<1>17. CASE LPAdd(t)
  <2>1. /\ n \in open[0] \/ kid[t][1] = n => n \in open'[0]
        /\ pc[t] = "add" /\ UNCHANGED <<cur, kid>>
        /\ \A u \in Threads : u # t => pc'[u] = pc[u]
    BY <1>17 DEF LPAdd
  <2>2. QED
    BY <2>1
<1>18. QED
  BY <1>1, <1>2, <1>3, <1>4, <1>5, <1>6, <1>7, <1>8, <1>9, <1>10, <1>11,
     <1>12, <1>13, <1>14, <1>15, <1>16, <1>17 DEF LPAStarStep

\* A child stays known, or on its way, until G has it.
LEMMA LPKnownStays ==
  ASSUME TypeOK, LPHands, NEW G, LPTable(G), NEW x \in States, NEW v \in Nat,
         LPKnown(G, x, v), NEW t \in Threads, LPAStarStep(t)
  PROVE  \/ LPKnown(G, x, v)'
         \/ LPUpdate(t) /\ kid[t][1] = <<x, v>>
<1>a. /\ Threads \subseteq 0..N /\ DOMAIN pc = 0..N /\ Shared = 0
      /\ todo \in [Threads -> SUBSET Pairs] /\ kid \in [Threads -> Pairs \X Pairs]
      /\ closed[0] \subseteq Pairs
  BY Basics DEF TypeOK, HandType, ListType, Shared
<1> USE <1>a DEF Go, LPKnown
<1>1. CASE LPLoop(t)
  BY <1>1 DEF LPLoop
<1>2. CASE LPTake(t)
  <2>1. /\ UNCHANGED <<todo, kid>> /\ pc[t] = "take"
        /\ \A u \in Threads : u # t => pc'[u] = pc[u]
    BY <1>2 DEF LPTake
  <2>2. QED
    BY <2>1
<1>3. CASE LPIdle(t)
  BY <1>3 DEF LPIdle
<1>4. CASE LPCheck(t)
  BY <1>4 DEF LPCheck
<1>5. CASE LPDone(t)
  BY <1>5 DEF LPDone
<1>6. CASE LPSpin(t)
  BY <1>6 DEF LPSpin
<1>7. CASE LPRecheck(t)
  BY <1>7 DEF LPRecheck
<1>8. CASE LPRecheck2(t)
  BY <1>8 DEF LPRecheck2
<1>9. CASE LPRejoin(t)
  BY <1>9 DEF LPRejoin
<1>10. CASE LPTest(t)
  BY <1>10 DEF LPTest
<1>11. CASE LPGoal(t)
  BY <1>11 DEF LPGoal
<1>12. CASE LPBound(t)
  BY <1>12 DEF LPBound
<1>13. CASE LPExpand(t)
  <2>1. /\ pc[t] = "expand" /\ todo[t] = {} /\ kid' = kid
        /\ \A u \in Threads : u # t => pc'[u] = pc[u] /\ todo'[u] = todo[u]
    BY <1>13 DEF LPExpand, LPHands
  <2>2. QED
    BY <2>1
<1>14. CASE LPChild(t)
  <2>1. PICK ch \in todo[t] :
          /\ todo' = [todo EXCEPT ![t] = @ \ {ch}]
          /\ kid' = [kid EXCEPT ![t] = <<ch, ch>>]
          /\ Go(t, "child", IF \A m \in Find(closed[0], ch[1]) : m[2] > ch[2]
                            THEN "update" ELSE "child")
    BY <1>14 DEF LPChild
  <2>2. ch = <<x, v>> => pc'[t] = "update" \/ G[x] <= v
    <3>1. SUFFICES ASSUME ch = <<x, v>>, NEW m \in Find(closed[0], ch[1]), ~(m[2] > ch[2])
                   PROVE  G[x] <= v
      BY <2>1
    <3>2. m \in closed[0] /\ m[1] = x /\ m[2] <= v /\ m[2] \in Nat
      BY <3>1 DEF Find, Pairs
    <3>3. G[x] <= m[2] /\ G[x] \in Nat
      BY <3>2 DEF LPTable
    <3>4. QED
      BY <3>2, <3>3
  <2>3. /\ pc[t] = "child" /\ kid'[t][1] = ch
        /\ \A d \in todo[t] : d = ch \/ d \in todo'[t]
        /\ \A u \in Threads : u # t => /\ pc'[u] = pc[u] /\ todo'[u] = todo[u]
                                       /\ kid'[u] = kid[u]
    BY <2>1
  <2>4. ASSUME NEW u \in Threads, <<x, v>> \in todo[u] PROVE LPKnown(G, x, v)'
    <3>1. CASE u = t
      BY <2>2, <2>3, <2>4, <3>1
    <3>2. CASE u # t
      BY <2>3, <2>4, <3>2
    <3>3. QED
      BY <3>1, <3>2
  <2>5. ASSUME NEW u \in Threads, pc[u] = "update", kid[u][1] = <<x, v>>
        PROVE  LPKnown(G, x, v)'
    BY <2>3, <2>5
  <2>6. QED
    BY <2>4, <2>5
<1>15. CASE LPExpanded(t)
  BY <1>15 DEF LPExpanded
<1>16. CASE LPUpdate(t)
  BY <1>16 DEF LPUpdate
<1>17. CASE LPAdd(t)
  BY <1>17 DEF LPAdd
<1>18. QED
  BY <1>1, <1>2, <1>3, <1>4, <1>5, <1>6, <1>7, <1>8, <1>9, <1>10, <1>11,
     <1>12, <1>13, <1>14, <1>15, <1>16, <1>17 DEF LPAStarStep

\* What is expanded stays so, while G is as it is.
LEMMA LPHandledStays ==
  ASSUME TypeOK, LPHands, NEW G, LPTable(G), NEW s \in States, LPHandled(G, s),
         NEW t \in Threads, LPAStarStep(t), ~LPUpdate(t)
  PROVE  LPHandled(G, s)'
<1>1. G[s] \in Nat /\ best \in Nat /\ best' \in Nat /\ best' <= best
  BY LPHandsStep, LPType DEF LPTable, TypeOK, ModeType
<1>2. \A e \in Edges[s] : e.to \in States /\ G[s] + e.cost \in Nat
  BY <1>1, SpaceAssumption
<1>3. \A e \in Edges[s] : LPKnown(G, e.to, G[s] + e.cost)'
  BY <1>2, LPKnownStays DEF LPHandled
<1>4. s \in Goals => best' <= G[s]
  BY <1>1 DEF LPHandled
<1>5. QED
  BY <1>3, <1>4 DEF LPHandled

LEMMA LPKeptStep ==
  ASSUME Admissible, TypeOK, LPHands, ~LPMet, NEW G, LPTable(G), LPKept(G),
         NEW t \in Threads, LPAStarStep(t), ~LPUpdate(t)
  PROVE  LPTable(G)' /\ LPKept(G)'
<1>1. closed' = closed
  BY DEF LPAStarStep, LPLoop, LPTake, LPIdle, LPCheck, LPDone, LPSpin, LPRecheck,
     LPRecheck2, LPRejoin, LPTest, LPGoal, LPBound, LPExpand, LPChild,
     LPExpanded, LPAdd
<1>2. LPTable(G)'
  BY <1>1 DEF LPTable
<1>3. ASSUME NEW s \in States, Promises(s, G[s])
      PROVE  LPOpen(<<s, G[s]>>)' \/ LPHandled(G, s)'
  <2>1. CASE LPHandled(G, s)
    BY <2>1, LPHandledStays
  <2>2. CASE LPOpen(<<s, G[s]>>) /\ ~(LPExpand(t) /\ cur[t] = <<s, G[s]>>)
    BY <1>3, <2>2, LPOpenStays
  <2>3. CASE LPExpand(t) /\ cur[t] = <<s, G[s]>>
    <3>1. /\ todo'[t] = Children(s, G[s]) /\ pc[t] = "expand" /\ best' = best
      BY <2>3, Basics DEF LPExpand, Go, TypeOK, HandType
    <3>2. s \in Goals => best' <= G[s]
      BY <2>3, <3>1 DEF LPHands
    <3>3. \A e \in Edges[s] : <<e.to, G[s] + e.cost>> \in todo'[t]
      BY <3>1 DEF Children
    <3>4. \A e \in Edges[s] : LPKnown(G, e.to, G[s] + e.cost)'
      BY <3>3 DEF LPKnown
    <3>5. QED
      BY <3>2, <3>4 DEF LPHandled
  <2>4. QED
    BY <1>3, <2>1, <2>2, <2>3 DEF LPKept
<1>4. LPKept(G)'
  BY <1>3 DEF LPKept
<1>5. QED
  BY <1>2, <1>4

\* LPUpdate lowers G, and the child in hand is what is to be expanded.
LEMMA LPUpdateStep ==
  ASSUME Admissible, TypeOK, LPHands, ~LPMet, NEW G, LPTable(G), LPKept(G),
         NEW t \in Threads, LPUpdate(t), LPAStarStep(t)
  PROVE  \E G1 : LPTable(G1)' /\ LPKept(G1)'
<1> DEFINE x == kid[t][1][1]
           v == kid[t][1][2]
           Lower == [s \in States |-> IF s = x /\ v < G[x] THEN v ELSE G[s]]
<1>1. /\ kid[t][1] = <<x, v>> /\ x \in States /\ v \in Nat
      /\ pc[t] = "update" /\ pc'[t] = "add"
      /\ \A u \in Threads : u # t => pc'[u] = pc[u]
      /\ UNCHANGED <<open, cur, todo, kid, best>>
  BY Basics DEF LPUpdate, Go, TypeOK, HandType, Pairs
<1>2. G \in [States -> Nat] /\ G[Start] = 0 /\ Start \in States
  BY SpaceAssumption DEF LPTable
<1>3. PICK G1 \in [States -> Nat] :
        /\ G1[Start] = 0
        /\ \A s \in States : /\ G1[s] <= G[s]
                             /\ G1[s] # G[s] => s = x /\ G1[s] = v
        /\ G1[x] <= v
  <2>1. /\ Lower \in [States -> Nat] /\ Lower[Start] = 0 /\ Lower[x] <= v
        /\ \A s \in States : /\ Lower[s] <= G[s]
                             /\ Lower[s] # G[s] => s = x /\ Lower[s] = v
    BY <1>1, <1>2
  <2> HIDE DEF Lower
  <2>2. QED
    BY <2>1
<1>4. ASSUME NEW m \in closed'[0] PROVE G1[m[1]] <= m[2]
  <2>1. m \in closed[0] \/ m = kid[t][1]
    BY Basics DEF LPUpdate, TypeOK, ListType, Shared
  <2>2. CASE m = kid[t][1]
    BY <1>1, <1>3, <2>2
  <2>3. CASE m \in closed[0]
    <3>1. m[1] \in States /\ m[2] \in Nat
      BY <2>3, Basics DEF TypeOK, ListType, Pairs, Shared
    <3>2. G[m[1]] <= m[2]
      BY <2>3 DEF LPTable
    <3>3. G1[m[1]] <= G[m[1]] /\ G[m[1]] \in Nat /\ G1[m[1]] \in Nat
      BY <1>2, <1>3, <3>1
    <3>4. QED
      BY <3>1, <3>2, <3>3
  <2>4. QED
    BY <2>1, <2>2, <2>3
<1>5. LPTable(G1)'
  BY <1>3, <1>4 DEF LPTable
<1>6. ASSUME NEW s \in States, Promises(s, G1[s])
      PROVE  LPOpen(<<s, G1[s]>>)' \/ LPHandled(G1, s)'
  <2>1. CASE G1[s] # G[s]
    <3>1. kid'[t][1] = <<s, G1[s]>> /\ pc'[t] = "add"
      BY <1>1, <1>3, <2>1
    <3>2. QED
      BY <3>1 DEF LPOpen
  <2>2. CASE G1[s] = G[s] /\ LPOpen(<<s, G[s]>>)
    <3>1. LPOpen(<<s, G[s]>>)' \/ LPExpand(t)
      BY <1>6, <2>2, LPOpenStays
    <3>2. ~LPExpand(t)
      BY <1>1 DEF LPExpand, Go
    <3>3. QED
      BY <2>2, <3>1, <3>2
  <2>3. CASE G1[s] = G[s] /\ LPHandled(G, s)
    <3>1. s \in Goals => best' <= G1[s]
      BY <1>1, <2>3 DEF LPHandled
    <3>2. ASSUME NEW e \in Edges[s] PROVE LPKnown(G1, e.to, G1[s] + e.cost)'
      <4> DEFINE y == e.to
                 w == G[s] + e.cost
      <4>1. y \in States /\ w \in Nat
        BY <1>2, SpaceAssumption
      <4>2. LPKnown(G, y, w)
        BY <2>3 DEF LPHandled
      <4>3. LPKnown(G, y, w)' \/ kid[t][1] = <<y, w>>
        BY <4>1, <4>2, LPKnownStays
      <4>4. G1[y] <= G[y] /\ G[y] \in Nat /\ G1[y] \in Nat
        BY <1>2, <1>3, <4>1
      <4> HIDE DEF y, w
      <4>5. LPKnown(G1, y, w)'
        BY <1>1, <1>3, <4>1, <4>3, <4>4 DEF LPKnown
      <4>6. QED
        BY <2>3, <4>5 DEF y, w
    <3>3. QED
      BY <3>1, <3>2 DEF LPHandled
  <2>4. QED
    BY <1>6, <2>1, <2>2, <2>3 DEF LPKept
<1>7. LPKept(G1)'
  BY <1>6 DEF LPKept
<1>8. QED
  BY <1>5, <1>7

LEMMA LPSearchStep ==
  ASSUME Admissible, TypeOK, LPSearch, NEW t \in Threads, LPAStarStep(t)
  PROVE  LPSearch'
<1>1. algo = "lpastar" /\ algo' = algo /\ LPHands
  BY AlgoStays DEF LPSearch
<1>2. LPHands' /\ best' <= best /\ weight' = weight
  BY <1>1, LPHandsStep
<1>3. PICK G : LPTable(G) /\ (LPMet \/ LPKept(G))
  BY <1>1 DEF LPSearch
<1>4. CASE LPMet
  <2>1. best \in Nat /\ best' \in Nat /\ weight[1] \in Nat /\ CostToGo[Start] \in Nat
    BY LPType, Basics, RealBasics DEF TypeOK, ModeType, Threads
  <2>2. weight[1] * CostToGo[Start] \in Nat
    BY <2>1
  <2>3. LPMet'
    BY <1>2, <1>4, <2>1, <2>2 DEF LPMet
  <2>4. \E G1 : LPTable(G1)'
    <3> DEFINE G1 == [s \in States |-> 0]
    <3>1. closed'[0] \subseteq Pairs
      BY LPType, Basics DEF TypeOK, ListType
    <3>2. \A m \in closed'[0] : G1[m[1]] <= m[2]
      BY <3>1 DEF Pairs
    <3>3. LPTable(G1)'
      BY <3>2, SpaceAssumption DEF LPTable
    <3>4. QED
      BY <3>3
  <2>5. QED
    BY <1>2, <2>3, <2>4 DEF LPSearch
<1>5. CASE ~LPMet /\ LPUpdate(t)
  <2>1. \E G1 : LPTable(G1)' /\ LPKept(G1)'
    BY <1>1, <1>3, <1>5, LPUpdateStep
  <2>2. QED
    BY <1>2, <2>1 DEF LPSearch
<1>6. CASE ~LPMet /\ ~LPUpdate(t)
  <2>1. LPTable(G)' /\ LPKept(G)'
    BY <1>1, <1>3, <1>6, LPKeptStep
  <2>2. QED
    BY <1>2, <2>1 DEF LPSearch
<1>7. QED
  BY <1>4, <1>5, <1>6

LEMMA LPSearchInit == Init => LPSearch
<1> SUFFICES ASSUME Init, algo = "lpastar"
             PROVE  LPHands /\ \E G : LPTable(G) /\ (LPMet \/ LPKept(G))
  BY DEF LPSearch
<1>1. LPAStarInit
  BY Zenon DEF Init
<1>2. /\ \A t \in Threads : pc[t] = "loop" /\ todo[t] = {}
      /\ best = Infinity /\ bound = Infinity
      /\ closed[0] = {} /\ open[0] = {Root} /\ TypeOK
  BY <1>1, TypeInit, Basics DEF Init, LPAStarInit, Threads, Shared
<1>3. LPHands
  BY <1>2, RealBasics DEF LPHands
<1> DEFINE G == [s \in States |-> IF s = Start THEN 0 ELSE Infinity]
<1>4. LPTable(G)
  BY <1>2, RealBasics, SpaceAssumption DEF LPTable
<1>5. ASSUME ~LPMet, NEW s \in States, Promises(s, G[s]) PROVE LPOpen(<<s, G[s]>>)
  <2>1. s # Start => G[s] = Infinity
    OBVIOUS
  <2>2. s = Start
    <3>1. CostToGo[Start] < Infinity
      BY <1>2, <1>3, <1>5, LPNotMet
    <3>2. ASSUME s # Start PROVE FALSE
      <4>1. Infinity + CostToGo[s] <= CostToGo[Start]
        BY <1>5, <2>1, <3>2, RealBasics, PromisesCost
      <4>2. QED
        BY <3>1, <4>1, RealBasics
    <3>3. QED
      BY <3>2
  <2>3. <<s, G[s]>> = Root
    BY <2>2 DEF Root
  <2>4. QED
    BY <1>2, <2>3 DEF LPOpen
<1> HIDE DEF G
<1>6. LPMet \/ LPKept(G)
  BY <1>5 DEF LPKept
<1>7. QED
  BY <1>3, <1>4, <1>6

\* When all threads have left the search, nothing is left to be expanded.
LEMMA LPEnded ==
  ASSUME TypeOK, LPInv, LPSearch, algo = "lpastar", Ended
  PROVE  LPMet
<1> SUFFICES ASSUME ~LPMet PROVE FALSE
  OBVIOUS
<1>1. LPHands
  BY DEF LPSearch
<1>2. PICK G : LPTable(G) /\ LPKept(G)
  BY DEF LPSearch
<1>3. \A t \in Threads : pc[t] = "end" /\ todo[t] = {}
  BY <1>1, Basics DEF Ended, LPHands
<1>4. open[0] = {}
  BY <1>3 DEF LPInv, LPResting, Shared
<1>5. \A s \in States : Promises(s, G[s]) => LPHandled(G, s)
  BY <1>2, <1>3, <1>4 DEF LPKept, LPOpen
<1>6. \A s \in States : Promises(s, G[s]) =>
        \A e \in Edges[s] : G[e.to] <= G[s] + e.cost
  BY <1>3, <1>5 DEF LPHandled, LPKnown
<1>7. CostToGo[Start] < Infinity /\ G \in [States -> Nat] /\ G[Start] = 0
  BY <1>1, <1>2, LPNotMet DEF LPTable
<1>8. PICK s \in Goals : Promises(s, G[s])
  BY <1>6, <1>7, PromiseKept
<1>9. s \in States /\ G[s] \in Nat /\ best <= G[s] /\ best \in Nat
  BY <1>5, <1>7, <1>8, SpaceAssumption DEF LPHandled, TypeOK, ModeType
<1>10. /\ G[s] + CostToGo[s] <= CostToGo[Start] /\ CostToGo[s] \in Nat
       /\ CostToGo[Start] \in Nat /\ weight[1] \in Nat \ {0}
  <2>1. G[s] + CostToGo[s] <= CostToGo[Start]
    BY <1>8, <1>9, PromisesCost
  <2>2. CostToGo[s] \in Nat /\ CostToGo[Start] \in Nat
    BY <1>9, RealBasics
  <2>3. 1 \in Threads
    BY Basics DEF Threads
  <2>4. weight[1] \in Nat \ {0}
    BY <2>3 DEF TypeOK, ModeType
  <2>5. QED
    BY <2>1, <2>2, <2>4
<1>11. 1 * CostToGo[Start] <= weight[1] * CostToGo[Start]
       /\ weight[1] * CostToGo[Start] \in Nat
  BY <1>10
<1>12. QED
  BY <1>9, <1>10, <1>11 DEF LPMet

-----------------------------------------------------------------------------
(***************************************************************************)
(* SyncWAStar ends with an optimal solution.                               *)
(*                                                                         *)
(* Only the search with weight 1 promises it, and it never opens a node    *)
(* again when dd is set.  It need not where the heuristic is consistent:   *)
(* the nodes it has expanded come before those that are open, and so none  *)
(* of them is ever found again cheaper.                                    *)
(***************************************************************************)
Consistent == \A s \in States : \A e \in Edges[s] : H[s] <= e.cost + H[e.to]

Solved == best <= CostToGo[Start]

Searching(t) == pc[t] \in {"take", "goal", "expand"}
Holding(t) == pc[t] \in {"goal", "expand"}

\* The node of s in the lists of thread t.
Own(t, s) == IF s = Start THEN Root ELSE <<s, t>>

\* The lists of a thread are its own, and its nodes cost Infinity before they
\* are on them.
SPlace(t) ==
  /\ closed[t] \subseteq Mine(t) /\ open[t] \subseteq closed[t] \cup {Root}
  /\ \A n \in Mine(t) \ closed[t] : g[n] = Infinity
  /\ pc[t] = "next" => closed[t] = {}
  /\ Holding(t) => cur[t] \in closed[t] \cup {Root} /\ cur[t] \notin open[t]
  /\ pc[t] = "expand" => cur[t][1] \notin Goals
  /\ pc[t] = "finish" => Solved
  /\ pc[t] = "clear" /\ weight[t] = 1 => Solved
  /\ pc[t] = "end" => done \/ count = Len(Weights)
  /\ pc[t] # "crashed"

\* What has been expanded comes before what is open, the node in hand between.
SOrder(t) ==
  /\ \A x \in closed[t] \ open[t] : \A y \in open[t] : F(x) <= F(y)
  /\ Holding(t) => /\ \A x \in closed[t] \ open[t] : F(x) <= F(cur[t])
                   /\ \A y \in open[t] : F(cur[t]) <= F(y)

\* Thread t has expanded s and made its children as cheap as s allows.
SHandled(t, s) ==
  /\ s \notin Goals
  /\ \A e \in Edges[s] : /\ Own(t, e.to) \in closed[t] \cup {Root}
                         /\ g[Own(t, e.to)] <= g[Own(t, s)] + e.cost

\* Thread t has forgotten no state that promises an optimal solution.
SKept(t) ==
  \A s \in States : Promises(s, g[Own(t, s)]) =>
    \/ Own(t, s) \in open[t]
    \/ Holding(t) /\ cur[t] = Own(t, s)
    \/ SHandled(t, s)

SFrontier(t) ==
  /\ SOrder(t) /\ SKept(t)
  /\ pc[t] = "goal" => g[cur[t]] <= CostToGo[Start]

SSearch ==
  algo = "syncwastar" =>
    /\ best = bound /\ best <= Infinity /\ g[Root] = 0
    /\ done => Solved
    /\ \A t \in Threads : SPlace(t)
    /\ \A t \in Threads : weight[t] = 1 /\ Searching(t) => Solved \/ SFrontier(t)
    /\ (\E i \in 1..count : Weights[i] = 1) =>
         Solved \/ \E t \in Threads : weight[t] = 1 /\ Searching(t)

\* The types that the rest needs.
LEMMA STypes ==
  ASSUME TypeOK, algo = "syncwastar"
  PROVE  /\ Threads \subseteq 0..N /\ Threads \subseteq Nat /\ DOMAIN pc = 0..N
         /\ open \in [0..N -> SUBSET Nodes] /\ closed \in [0..N -> SUBSET Nodes]
         /\ g \in [Nodes -> Nat] /\ cur \in [Threads -> Nodes]
         /\ weight \in [Threads -> Nat \ {0}]
         /\ best \in Nat /\ bound \in Nat /\ Infinity \in Nat
         /\ count \in 0..Len(Weights) /\ Len(Weights) \in Nat
         /\ \A n \in Nodes : n[1] \in States /\ n[2] \in 0..N /\ n = <<n[1], n[2]>>
         /\ Root \in Nodes /\ Root[1] = Start /\ Root[2] = 0
         /\ \A t \in Threads : t # 0 /\ \A s \in States : <<s, t>> \in Nodes
<1>1. /\ open \in [0..N -> SUBSET Nodes] /\ closed \in [0..N -> SUBSET Nodes]
      /\ cur \in [Threads -> Nodes]
  BY DEF TypeOK, ListType, HandType
<1>2. /\ g \in [Nodes -> Nat] /\ DOMAIN pc = 0..N
      /\ weight \in [Threads -> Nat \ {0}] /\ best \in Nat /\ bound \in Nat
      /\ count \in 0..Len(Weights)
  BY DEF TypeOK, ListType, HandType, ModeType
<1>3. \A t \in Threads : t # 0 /\ \A s \in States : <<s, t>> \in Nodes
  BY Basics DEF Nodes, Threads
<1>4. Len(Weights) \in Nat
  BY SharedAssumption
<1>5. /\ \A n \in Nodes : n[1] \in States /\ n[2] \in 0..N /\ n = <<n[1], n[2]>>
      /\ Root \in Nodes /\ Root[1] = Start /\ Root[2] = 0
  BY Basics DEF Nodes, Root
<1>6. Threads \subseteq 0..N /\ Threads \subseteq Nat /\ Infinity \in Nat
  BY Basics, RealBasics
<1>7. QED
  BY <1>1, <1>2, <1>3, <1>4, <1>5, <1>6

LEMMA OwnNode ==
  ASSUME TypeOK, algo = "syncwastar", NEW t \in Threads, NEW s \in States
  PROVE  /\ Own(t, s) \in Nodes /\ Own(t, s)[1] = s
         /\ Own(t, s) = Root \/ Own(t, s) \in Mine(t)
         /\ Own(t, s)[2] \in {0, t}
         /\ g[Own(t, s)] \in Nat
BY STypes DEF Own, Mine

\* While no optimal solution is known the search with weight one has a node
\* that can still lead to it.
LEMMA SFront ==
  ASSUME Admissible, TypeOK, SSearch, algo = "syncwastar", ~Solved,
         NEW t \in Threads, pc[t] = "take", SFrontier(t)
  PROVE  \E y \in open[t] : F(y) <= CostToGo[Start]
<1> SUFFICES ASSUME \A y \in open[t] : ~(F(y) <= CostToGo[Start]) PROVE FALSE
  OBVIOUS
<1> DEFINE G == [s \in States |-> g[Own(t, s)]]
<1>1. ASSUME NEW s \in States, Promises(s, G[s]) PROVE SHandled(t, s)
  <2>1. Own(t, s) \notin open[t]
    <3>1. G[s] = g[Own(t, s)] /\ G[s] \in Nat /\ Own(t, s)[1] = s
      BY OwnNode
    <3>2. G[s] + H[s] <= CostToGo[Start]
      BY <1>1, <3>1, PromisesBound
    <3>3. F(Own(t, s)) <= CostToGo[Start]
      BY <3>1, <3>2 DEF F
    <3>4. QED
      BY <3>3
  <2>2. QED
    BY <1>1, <2>1 DEF SFrontier, SKept, Holding
<1>2. CostToGo[Start] < Infinity
  BY RealBasics, STypes DEF Solved, SSearch
<1>3. G \in [States -> Nat] /\ G[Start] = 0
  BY OwnNode, SpaceAssumption DEF SSearch, Own
<1>4. \A s \in States : Promises(s, G[s]) =>
        s \notin Goals /\ \A e \in Edges[s] : G[e.to] <= G[s] + e.cost
  BY <1>1, SpaceAssumption DEF SHandled
<1> HIDE DEF G
<1>5. \E s \in Goals : Promises(s, G[s])
  BY <1>2, <1>3, <1>4, PromiseKept
<1>6. QED
  BY <1>4, <1>5, SpaceAssumption

\* A step leaves the other threads' lists alone, and solutions get better.
LEMMA SFrame ==
  ASSUME TypeOK, algo = "syncwastar", best = bound,
         NEW t \in Threads, SyncWAStarStep(t)
  PROVE  /\ \A u \in Threads : u # t =>
              /\ pc'[u] = pc[u] /\ cur'[u] = cur[u] /\ weight'[u] = weight[u]
              /\ open'[u] = open[u] /\ closed'[u] = closed[u]
         /\ \A n \in Nodes : n[2] # t => g'[n] = g[n]
         /\ best' = bound' /\ best' <= best
         /\ done => done'
         /\ count = Len(Weights) => count' = Len(Weights)
<1> USE STypes DEF Go, mode
<1>1. CASE SNext(t)
  <2>1. /\ UNCHANGED <<closed, g, cur, best, bound, done>>
        /\ \A u \in Threads : u # t => pc'[u] = pc[u]
    BY <1>1 DEF SNext
  <2>2. count = Len(Weights) => count' = Len(Weights)
    BY <1>1 DEF SNext
  <2>3. /\ weight' = weight \/ \E w : weight' = [weight EXCEPT ![t] = w]
        /\ open' = open \/ open' = [open EXCEPT ![t] = {Root}]
    BY <1>1 DEF SNext
  <2>4. \A u \in Threads : u # t => weight'[u] = weight[u] /\ open'[u] = open[u]
    BY <2>3
  <2>5. QED
    BY <2>1, <2>2, <2>4
<1>2. CASE SGiveUp(t)
  BY <1>2 DEF SGiveUp
<1>3. CASE STake(t)
  <2>1. UNCHANGED <<mode, closed, g, best, bound, done, count>>
    BY <1>3 DEF STake
  <2>2. PICK n, to : /\ open' = [open EXCEPT ![t] = @ \ {n}]
                     /\ cur' = [cur EXCEPT ![t] = n]
                     /\ pc' = [pc EXCEPT ![t] = to]
    BY <1>3 DEF STake
  <2>3. \A u \in Threads : u # t =>
          pc'[u] = pc[u] /\ cur'[u] = cur[u] /\ open'[u] = open[u]
    BY <2>2
  <2>4. QED
    BY <2>1, <2>3
<1>4. CASE SGoal(t)
  <2>1. /\ UNCHANGED <<mode, open, closed, g, cur, done, count>>
        /\ \A u \in Threads : u # t => pc'[u] = pc[u]
    BY <1>4 DEF SGoal
  <2>2. best' = bound' /\ best' <= best
    BY <1>4 DEF SGoal
  <2>3. QED
    BY <2>1, <2>2
<1>5. CASE SFinish(t)
  BY <1>5 DEF SFinish
<1>6. CASE SExpand(t)
  <2>1. /\ UNCHANGED <<mode, cur, best, bound, done, count>>
        /\ \A u \in Threads : u # t => pc'[u] = pc[u]
    BY <1>6 DEF SExpand
  <2>2. /\ \A n \in Nodes : g'[n] = g[n] \/ n[2] = t
        /\ open' = [open EXCEPT ![t] = open'[t]]
        /\ closed' = [closed EXCEPT ![t] = closed'[t]]
    BY <1>6, ExpandEffect
  <2>3. \A u \in Threads : u # t => open'[u] = open[u] /\ closed'[u] = closed[u]
    BY <2>2
  <2>4. QED
    BY <2>1, <2>2, <2>3
<1>7. CASE SClear(t)
  <2>1. /\ UNCHANGED <<mode, cur, best, bound, done, count>>
        /\ \A u \in Threads : u # t =>
             pc'[u] = pc[u] /\ open'[u] = open[u] /\ closed'[u] = closed[u]
    BY <1>7 DEF SClear
  <2>2. \A n \in Nodes : n[2] # t => g'[n] = g[n]
    BY <1>7 DEF SClear, Mine
  <2>3. QED
    BY <2>1, <2>2
<1>8. QED
  BY <1>1, <1>2, <1>3, <1>4, <1>5, <1>6, <1>7 DEF SyncWAStarStep

LEMMA SolvedStays ==
  ASSUME TypeOK, algo = "syncwastar", best = bound, Solved,
         NEW t \in Threads, SyncWAStarStep(t)
  PROVE  Solved'
<1>1. best' <= best /\ best \in Nat /\ best' \in Nat /\ CostToGo[Start] \in Nat
  BY SFrame, SType, STypes, RealBasics DEF TypeOK, ModeType
<1>2. QED
  BY <1>1 DEF Solved

\* What holds of another thread goes on to hold.
LEMMA SOthers ==
  ASSUME TypeOK, SSearch, algo = "syncwastar",
         NEW t \in Threads, SyncWAStarStep(t), NEW u \in Threads, u # t
  PROVE  /\ SPlace(u)'
         /\ Searching(u) /\ SFrontier(u) => SFrontier(u)'
         /\ Searching(u)' <=> Searching(u)
         /\ weight'[u] = weight[u]
<1>1. /\ pc'[u] = pc[u] /\ cur'[u] = cur[u] /\ weight'[u] = weight[u]
      /\ open'[u] = open[u] /\ closed'[u] = closed[u]
      /\ \A n \in Nodes : n[2] # t => g'[n] = g[n]
      /\ done => done'
      /\ count = Len(Weights) => count' = Len(Weights)
      /\ Solved => Solved'
  BY SFrame, SolvedStays DEF SSearch
<1>2. SPlace(u)
  BY DEF SSearch
<1>3. /\ u \in 0..N /\ t # 0 /\ Root \in Nodes /\ Root[2] = 0
      /\ \A n \in Mine(u) : n \in Nodes /\ n[2] = u
  BY STypes DEF Mine
<1>4. \A n \in Mine(u) \cup {Root} : n \in Nodes /\ g'[n] = g[n] /\ F(n)' = F(n)
  BY <1>1, <1>3 DEF F
<1>5. SPlace(u)'
  BY <1>1, <1>2, <1>4 DEF SPlace, Holding
<1>6. ASSUME SFrontier(u) PROVE SFrontier(u)'
  <2>1. /\ closed[u] \subseteq Mine(u) /\ open[u] \subseteq Mine(u) \cup {Root}
        /\ Holding(u) => cur[u] \in Mine(u) \cup {Root}
    BY <1>2 DEF SPlace
  <2>2. SOrder(u)'
    <3>1. \A x \in closed'[u] \ open'[u] : \A y \in open'[u] : F(x)' <= F(y)'
      BY <1>1, <1>4, <1>6, <2>1 DEF SFrontier, SOrder
    <3>2. Holding(u)' => Holding(u) /\ F(cur[u])' = F(cur[u])
      BY <1>1, <1>4, <2>1 DEF Holding, F
    <3>3. F(cur[u])' = g'[cur'[u]] + H[cur'[u][1]]
      BY DEF F
    <3>4. Holding(u)' => /\ \A x \in closed'[u] \ open'[u] : F(x)' <= F(cur[u])'
                         /\ \A y \in open'[u] : F(cur[u])' <= F(y)'
      BY <1>1, <1>4, <1>6, <2>1, <3>2 DEF SFrontier, SOrder
    <3>5. QED
      BY <3>1, <3>4 DEF SOrder
  <2>3. \A s \in States : Own(u, s) \in Mine(u) \cup {Root}
    BY OwnNode
  <2>4. \A s \in States : g'[Own(u, s)] = g[Own(u, s)]
    BY <1>4, <2>3
  <2>5. ASSUME NEW s \in States, SHandled(u, s) PROVE SHandled(u, s)'
    BY <1>1, <2>4, <2>5, SpaceAssumption DEF SHandled, Own, Root
  <2>6. SKept(u)'
    BY <1>1, <1>6, <2>4, <2>5 DEF SFrontier, SKept, Holding, Own, Root
  <2>7. pc'[u] = "goal" => g'[cur'[u]] <= CostToGo[Start]
    BY <1>1, <1>4, <1>6, <2>1 DEF SFrontier, Holding
  <2>8. QED
    BY <2>2, <2>6, <2>7 DEF SFrontier
<1>7. QED
  BY <1>1, <1>5, <1>6 DEF Searching

\* Expanding a node with weight one: no node that has been expanded is found
\* again cheaper, and the children come after it.
LEMMA SExpandStep ==
  ASSUME Consistent, TypeOK, SSearch, algo = "syncwastar",
         NEW t \in Threads, SExpand(t), SFrontier(t)
  PROVE  SFrontier(t)'
<1> DEFINE y == cur[t]
           s0 == y[1]
           v == g[y]
<1>1. /\ s0 \in States /\ v \in Nat /\ y \in Nodes
      /\ g' \in [Nodes -> Nat] /\ g \in [Nodes -> Nat]
      /\ \A n \in Nodes :
           \/ g'[n] = g[n]
           \/ /\ n[2] = t
              /\ \E e \in Edges[s0] : e.to = n[1] /\ g'[n] = v + e.cost
              /\ n \in closed[t] => g'[n] < g[n]
              /\ n \notin closed[t] \/ n \in open[t] \/ ~dd => n \in open'[t]
      /\ \A e \in Edges[s0] :
           /\ g'[<<e.to, t>>] <= v + e.cost
           /\ <<e.to, t>> \in closed'[t]
           /\ <<e.to, t>> \in closed[t] \/ <<e.to, t>> \in open'[t]
      /\ \A n \in closed'[t] \ closed[t] :
           n[2] = t /\ \E e \in Edges[s0] : e.to = n[1] /\ g'[n] = v + e.cost
      /\ open[t] \subseteq open'[t] /\ open'[t] \ open[t] \subseteq closed'[t]
      /\ closed[t] \subseteq closed'[t]
      /\ \A n \in open'[t] \ open[t] : n \in closed[t] => g'[n] < g[n]
      /\ open'[t] \subseteq Nodes /\ closed'[t] \subseteq Nodes
  BY ExpandEffect, STypes
<1>2. /\ pc[t] = "expand" /\ pc'[t] = "take" /\ cur' = cur
  BY STypes DEF SExpand, Go
<1>3. /\ y \in closed[t] \cup {Root} /\ y \notin open[t] /\ s0 \notin Goals
      /\ closed[t] \subseteq Mine(t) /\ open[t] \subseteq closed[t] \cup {Root}
      /\ \A n \in Mine(t) \ closed[t] : g[n] = Infinity
      /\ g[Root] = 0 /\ Root \in Nodes /\ Root[2] = 0 /\ t # 0
      /\ \A n \in Mine(t) : n \in Nodes /\ n[2] = t /\ n = <<n[1], t>>
  BY <1>2, STypes DEF SSearch, SPlace, Holding, Mine
<1>4. /\ \A x \in closed[t] \ open[t] : F(x) <= F(y)
      /\ \A x \in open[t] : F(y) <= F(x)
  BY <1>2 DEF SFrontier, SOrder, Holding
<1>5. \A e \in Edges[s0] :
        e.to \in States /\ e.cost \in Nat /\ H[s0] <= e.cost + H[e.to]
  BY <1>1, SpaceAssumption DEF Consistent
<1> HIDE DEF y, s0, v
<1>6. \A n \in Nodes : n[1] \in States /\ H[n[1]] \in Nat
  BY STypes, SpaceAssumption
<1>7. F(y) = v + H[s0] /\ H[s0] \in Nat /\ F(y) \in Nat
  BY <1>1, SpaceAssumption DEF F, y, s0, v
\* A child does not come before its parent.
<1>8. ASSUME NEW n \in Nodes, NEW e \in Edges[s0], e.to = n[1], g'[n] = v + e.cost
      PROVE  F(y) <= F(n)'
  BY <1>1, <1>5, <1>6, <1>7, <1>8 DEF F
<1>9. ASSUME NEW x \in Nodes, x \in closed[t] \ open[t] \/ x = Root \/ x = y
      PROVE  g'[x] = g[x] /\ F(x)' = F(x)
  <2>1. CASE x \in closed[t] \ open[t]
    <3>1. F(x) <= F(y)
      BY <1>4, <2>1
    <3>2. ASSUME g'[x] # g[x] PROVE FALSE
      <4>1. PICK e \in Edges[s0] : e.to = x[1] /\ g'[x] = v + e.cost /\ g'[x] < g[x]
        BY <1>1, <2>1, <3>2
      <4>2. F(y) <= F(x)'
        BY <1>8, <4>1
      <4>3. F(x) = g[x] + H[x[1]] /\ F(x)' = g'[x] + H[x[1]]
        BY DEF F
      <4>4. g[x] \in Nat /\ g'[x] \in Nat /\ H[x[1]] \in Nat
        BY <1>1, <1>6
      <4>5. QED
        BY <1>7, <3>1, <4>1, <4>2, <4>3, <4>4
    <3>3. QED
      BY <3>2 DEF F
  <2>2. CASE x = Root
    BY <1>1, <1>3, <2>2 DEF F
  <2>3. QED
    BY <1>3, <1>9, <2>1, <2>2
\* Nothing that was closed is opened again.
<1>10. closed'[t] \ open'[t] = closed[t] \ open[t]
  <2>1. ASSUME NEW x \in closed'[t] \ open'[t] PROVE x \in closed[t] \ open[t]
    <3>1. ASSUME x \notin closed[t] PROVE FALSE
      <4>1. PICK e \in Edges[s0] : e.to = x[1] /\ x[2] = t
        BY <1>1, <2>1, <3>1
      <4>2. x = <<e.to, t>>
        BY <1>1, <4>1, STypes
      <4>3. QED
        BY <1>1, <2>1, <3>1, <4>2
    <3>2. QED
      BY <1>1, <3>1
  <2>2. ASSUME NEW x \in closed[t] \ open[t] PROVE x \notin open'[t]
    <3>1. x \in Nodes /\ g'[x] = g[x]
      BY <1>3, <1>9
    <3>2. x \in open'[t] => g'[x] < g[x]
      BY <1>1
    <3>3. QED
      BY <1>1, <3>1, <3>2
  <2>3. QED
    BY <1>1, <2>1, <2>2
<1>11. ASSUME NEW x \in open'[t] PROVE F(y) <= F(x)'
  <2>1. CASE x \in open[t] /\ g'[x] = g[x]
    <3>1. F(x)' = F(x)
      BY <2>1 DEF F
    <3>2. QED
      BY <1>4, <2>1, <3>1
  <2>2. CASE x \in open[t] /\ g'[x] # g[x]
    BY <1>1, <1>8, <2>2
  <2>3. CASE x \notin open[t]
    <3>1. x \in closed'[t] \ closed[t]
      <4>1. ASSUME x \in closed[t] PROVE FALSE
        BY <1>10, <2>3, <4>1
      <4>2. QED
        BY <1>1, <2>3, <4>1
    <3>2. QED
      BY <1>1, <1>8, <3>1
  <2>4. QED
    BY <2>1, <2>2, <2>3
<1>12. SOrder(t)'
  <2>1. ASSUME NEW x \in closed'[t] \ open'[t], NEW z \in open'[t]
        PROVE  F(x)' <= F(z)'
    <3>1. x \in closed[t] \ open[t] /\ x \in Nodes /\ z \in Nodes
      BY <1>1, <1>3, <1>10
    <3>2. F(x)' = F(x) /\ F(x) <= F(y) /\ F(y) <= F(z)'
      BY <1>4, <1>9, <1>11, <3>1
    <3>3. F(x) \in Nat /\ F(z)' \in Nat
      BY <1>1, <1>6, <3>1 DEF F
    <3>4. QED
      BY <1>7, <3>2, <3>3
  <2>2. ~Holding(t)'
    BY <1>2 DEF Holding
  <2>3. QED
    BY <2>1, <2>2 DEF SOrder
<1>13. ASSUME NEW s \in States, Promises(s, g'[Own(t, s)]), Own(t, s) \notin open'[t]
       PROVE  SHandled(t, s)'
  <2> DEFINE o == Own(t, s)
  <2>1. /\ o \in Nodes /\ o[1] = s /\ g[o] \in Nat /\ g'[o] \in Nat
        /\ o = Root \/ o \in Mine(t)
    BY <1>1, OwnNode
  <2>2. \A x \in States : /\ Own(t, x)' = Own(t, x) /\ Own(t, x) \in Nodes
                          /\ Own(t, x) = Root \/ Own(t, x) = <<x, t>>
    BY OwnNode DEF Own, Root
  <2>a. o' = o
    BY <2>2
  <2> HIDE DEF o
  <2>3. CASE o = y
    <3>1. s = s0 /\ s \notin Goals /\ g'[o] = v
      BY <1>1, <1>3, <1>9, <2>1, <2>3 DEF s0, v
    <3>2. ASSUME NEW e \in Edges[s]
          PROVE  /\ Own(t, e.to) \in closed'[t] \cup {Root}
                 /\ g'[Own(t, e.to)] <= g'[o] + e.cost
      <4>1. e.to \in States /\ e.cost \in Nat
        BY <1>5, <3>1
      <4>2. CASE Own(t, e.to) = Root
        BY <1>1, <1>3, <1>9, <2>1, <3>1, <4>1, <4>2
      <4>3. CASE Own(t, e.to) = <<e.to, t>>
        BY <1>1, <3>1, <4>3
      <4>4. QED
        BY <2>2, <4>1, <4>2, <4>3
    <3>3. QED
      BY <2>2, <2>a, <3>1, <3>2, SpaceAssumption DEF SHandled, o
  <2>4. CASE o # y
    <3>1. g'[o] = g[o] /\ o \notin open[t]
      <4>1. o \notin open[t] /\ o \notin open'[t]
        BY <1>1, <1>13 DEF o
      <4>2. CASE o = Root \/ o \in closed[t]
        BY <1>9, <2>1, <4>1, <4>2
      <4>3. CASE o # Root /\ o \notin closed[t]
        BY <1>1, <2>1, <4>1, <4>3
      <4>4. QED
        BY <4>1, <4>2, <4>3
    <3>2. SHandled(t, s)
      BY <1>13, <2>4, <3>1 DEF SFrontier, SKept, Holding, o, y
    <3>3. ASSUME NEW e \in Edges[s]
          PROVE  /\ Own(t, e.to) \in closed'[t] \cup {Root}
                 /\ g'[Own(t, e.to)] <= g'[o] + e.cost
      <4>1. e.to \in States /\ e.cost \in Nat
        BY SpaceAssumption
      <4>2. PICK p \in Nodes : p = Own(t, e.to)
        BY <2>2, <4>1
      <4>3. p \in closed[t] \cup {Root} /\ g[p] <= g[o] + e.cost
        BY <3>2, <4>2 DEF SHandled, o
      <4>4. g'[p] <= g[p] /\ g'[p] \in Nat /\ g[p] \in Nat
        BY <1>1, <1>9, <4>3
      <4>5. g'[p] <= g'[o] + e.cost
        BY <2>1, <3>1, <4>1, <4>3, <4>4
      <4>6. QED
        BY <1>1, <4>2, <4>3, <4>5
    <3>4. QED
      BY <2>2, <2>a, <3>2, <3>3, SpaceAssumption DEF SHandled, o
  <2>5. QED
    BY <2>3, <2>4
<1>14. SKept(t)'
  <2>1. \A s \in States : Own(t, s)' = Own(t, s)
    BY DEF Own, Root
  <2>2. QED
    BY <1>13, <2>1 DEF SKept
<1>15. QED
  BY <1>2, <1>12, <1>14 DEF SFrontier

\* The thread's own lists, whatever it does.
LEMMA SPlaceStep ==
  ASSUME Admissible, TypeOK, SSearch, algo = "syncwastar",
         NEW t \in Threads, SyncWAStarStep(t)
  PROVE  SPlace(t)'
<1>1. SPlace(t) /\ best = bound /\ (done => Solved) /\ (Solved => Solved')
  BY SolvedStays DEF SSearch
<1>2. weight[t] = 1 /\ Searching(t) => Solved \/ SFrontier(t)
  BY DEF SSearch
<1>a. /\ t \in 0..N /\ DOMAIN pc = 0..N /\ t # 0 /\ Root \in Nodes
      /\ weight[t] \in Nat \ {0} /\ best \in Nat /\ bound \in Nat
      /\ \A n \in Nodes : g[n] \in Nat /\ n[1] \in States /\ H[n[1]] \in Nat
      /\ open[t] \subseteq Nodes
      /\ open \in [0..N -> SUBSET Nodes] /\ closed \in [0..N -> SUBSET Nodes]
      /\ cur \in [Threads -> Nodes] /\ CostToGo[Start] \in Nat
  BY STypes, SpaceAssumption, RealBasics
<1> USE <1>a DEF Go, mode
<1>3. CASE SNext(t)
  <2>1. /\ pc[t] = "next" /\ pc'[t] \in {"take", "end"}
        /\ closed' = closed /\ g' = g /\ cur' = cur /\ done' = done
        /\ open'[t] = open[t] \/ open'[t] = {Root}
    BY <1>3 DEF SNext
  <2>2. pc'[t] = "end" => done \/ count' = Len(Weights)
    <3>1. count \in 0..Len(Weights) /\ Len(Weights) \in Nat
      BY STypes
    <3>2. \/ count < Len(Weights) /\ ~done /\ pc'[t] = "take"
          \/ done
          \/ ~(count < Len(Weights)) /\ count' = count
      BY <1>3 DEF SNext
    <3>3. QED
      BY <3>1, <3>2
  <2>3. QED
    BY <1>1, <2>1, <2>2 DEF SPlace, Holding, Solved
<1>4. CASE SGiveUp(t)
  <2>1. /\ pc[t] = "take" /\ pc'[t] = "clear" /\ (open[t] = {} \/ done)
        /\ UNCHANGED <<closed, open, g, cur, weight, best>>
    BY <1>4 DEF SGiveUp
  <2>2. weight[t] = 1 => Solved
    <3>1. SUFFICES ASSUME weight[t] = 1, ~Solved PROVE FALSE
      OBVIOUS
    <3>2. open[t] = {} /\ SFrontier(t)
      BY <1>1, <1>2, <2>1, <3>1 DEF Searching
    <3>3. \E y \in open[t] : F(y) <= CostToGo[Start]
      BY <2>1, <3>1, <3>2, SFront
    <3>4. QED
      BY <3>2, <3>3
  <2>3. QED
    BY <1>1, <2>1, <2>2 DEF SPlace, Holding, Solved
<1>5. CASE STake(t)
  <2>1. PICK n \in open[t] :
          /\ \A m \in open[t] : SPrime(t, n) <= SPrime(t, m)
          /\ open' = [open EXCEPT ![t] = @ \ {n}]
          /\ cur' = [cur EXCEPT ![t] = n]
          /\ Go(t, "take", IF SPrime(t, n) >= bound
                           THEN IF weight[t] = 1 THEN "finish" ELSE "clear"
                           ELSE IF n[1] \in Goals THEN "goal" ELSE "expand")
    BY <1>5, Zenon DEF STake, First
  <2>2. UNCHANGED <<weight, closed, g, best>>
    BY <1>5 DEF STake
  <2>3. /\ open'[t] = open[t] \ {n} /\ cur'[t] = n /\ pc[t] = "take"
        /\ pc'[t] \in {"finish", "clear", "goal", "expand"}
        /\ pc'[t] = "finish" => weight[t] = 1 /\ SPrime(t, n) >= bound
        /\ pc'[t] = "clear" => weight[t] # 1
        /\ pc'[t] = "expand" => n[1] \notin Goals
    BY <2>1
  <2>4. pc'[t] = "finish" => Solved
    <3>1. SUFFICES ASSUME weight[t] = 1, SPrime(t, n) >= bound, ~Solved PROVE FALSE
      BY <2>3
    <3>2. PICK y \in open[t] : F(y) <= CostToGo[Start]
      BY <1>2, <2>3, <3>1, SFront DEF Searching
    <3>3. SPrime(t, n) = F(n) /\ SPrime(t, y) = F(y) /\ F(n) \in Nat /\ F(y) \in Nat
      BY <3>1 DEF SPrime, F
    <3>4. F(n) <= F(y)
      BY <2>1, <3>3
    <3>5. QED
      BY <1>1, <3>1, <3>2, <3>3, <3>4 DEF Solved
  <2>5. QED
    BY <1>1, <2>2, <2>3, <2>4 DEF SPlace, Holding, Solved
<1>6. CASE SGoal(t)
  <2>1. /\ pc[t] = "goal" /\ pc'[t] = IF weight[t] = 1 THEN "finish" ELSE "clear"
        /\ UNCHANGED <<weight, closed, open, g, cur>>
        /\ best' = IF bound > g[cur[t]] THEN g[cur[t]] ELSE best
    BY <1>6 DEF SGoal
  <2>2. weight[t] = 1 => Solved'
    <3>1. SUFFICES ASSUME weight[t] = 1, ~Solved PROVE Solved'
      BY <1>1
    <3>2. g[cur[t]] <= CostToGo[Start] /\ g[cur[t]] \in Nat
      BY <1>2, <2>1, <3>1 DEF Searching, SFrontier
    <3>3. QED
      BY <1>1, <2>1, <3>2 DEF Solved
  <2>3. QED
    BY <1>1, <2>1, <2>2 DEF SPlace, Holding
<1>7. CASE SFinish(t)
  <2>1. /\ pc[t] = "finish" /\ pc'[t] = "clear"
        /\ UNCHANGED <<weight, closed, open, g, cur, best>>
    BY <1>7 DEF SFinish
  <2>2. QED
    BY <1>1, <2>1 DEF SPlace, Holding, Solved
<1>8. CASE SExpand(t)
  <2>1. pc[t] = "expand" /\ pc'[t] = "take"
    BY <1>8 DEF SExpand
  <2>2. /\ \A n \in Nodes : g'[n] = g[n] \/
             (n[2] = t /\ \E e \in Edges[cur[t][1]] : e.to = n[1])
        /\ \A e \in Edges[cur[t][1]] : <<e.to, t>> \in closed'[t]
        /\ \A n \in closed'[t] \ closed[t] : n[2] = t
        /\ open'[t] \ open[t] \subseteq closed'[t]
        /\ closed[t] \subseteq closed'[t] /\ closed'[t] \subseteq Nodes
    BY <1>8, ExpandEffect
  <2>3. closed'[t] \subseteq Mine(t) /\ open'[t] \subseteq closed'[t] \cup {Root}
    <3>1. closed'[t] \ closed[t] \subseteq Mine(t)
      BY <2>2, STypes DEF Mine
    <3>2. QED
      BY <1>1, <2>2, <3>1 DEF SPlace
  <2>4. ASSUME NEW n \in Mine(t) \ closed'[t] PROVE g'[n] = Infinity
    <3>1. n \in Nodes /\ n = <<n[1], t>> /\ g[n] = Infinity
      BY <1>1, <2>2, <2>4, STypes DEF Mine, SPlace
    <3>2. QED
      BY <2>2, <2>4, <3>1
  <2>5. QED
    BY <2>1, <2>3, <2>4 DEF SPlace, Holding
<1>9. CASE SClear(t)
  <2>1. /\ pc'[t] = "next" /\ open'[t] = {} /\ closed'[t] = {}
        /\ \A n \in Nodes \cap Mine(t) : g'[n] = Infinity
    BY <1>9 DEF SClear
  <2>2. Mine(t) \subseteq Nodes
    BY STypes DEF Mine
  <2>3. QED
    BY <2>1, <2>2 DEF SPlace, Holding
<1>10. QED
  BY <1>3, <1>4, <1>5, <1>6, <1>7, <1>8, <1>9 DEF SyncWAStarStep

\* A search with weight one that has started keeps its way to the solution.
LEMMA SFrontierStep ==
  ASSUME Admissible, Consistent, TypeOK, SSearch, algo = "syncwastar", ~Solved',
         NEW t \in Threads, SyncWAStarStep(t), weight'[t] = 1, Searching(t)'
  PROVE  SFrontier(t)'
<1>1. ~Solved /\ best <= Infinity /\ SPlace(t)
  BY SolvedStays DEF SSearch
<1>2. CostToGo[Start] < Infinity
  BY <1>1, RealBasics, STypes DEF Solved
<1>a. /\ t \in 0..N /\ DOMAIN pc = 0..N /\ t # 0 /\ Root \in Nodes
      /\ weight \in [Threads -> Nat \ {0}]
      /\ \A n \in Nodes : g[n] \in Nat /\ n[1] \in States /\ H[n[1]] \in Nat
      /\ open \in [0..N -> SUBSET Nodes] /\ closed \in [0..N -> SUBSET Nodes]
      /\ cur \in [Threads -> Nodes] /\ CostToGo[Start] \in Nat
      /\ Infinity \in Nat
  BY STypes, SpaceAssumption, RealBasics
<1> USE <1>a DEF Go, mode
<1>3. CASE SNext(t)
  <2>1. /\ pc[t] = "next" /\ pc'[t] = "take"
        /\ open'[t] = {Root} /\ closed' = closed /\ g' = g
    BY <1>3 DEF SNext, Searching
  <2>2. closed[t] = {} /\ \A n \in Mine(t) : g[n] = Infinity
    BY <1>1, <2>1 DEF SPlace
  <2>3. SOrder(t)'
    BY <2>1, <2>2 DEF SOrder, Holding
  <2>4. ASSUME NEW s \in States, Promises(s, g[Own(t, s)]) PROVE Own(t, s) = Root
    <3>1. ASSUME Own(t, s) # Root PROVE FALSE
      <4>1. Own(t, s) \in Mine(t)
        BY <3>1, OwnNode
      <4>2. g[Own(t, s)] = Infinity
        BY <2>2, <4>1
      <4>3. Infinity + CostToGo[s] <= CostToGo[Start]
        BY <2>4, <4>2, PromisesCost
      <4>4. QED
        BY <1>2, <4>3, RealBasics
    <3>2. QED
      BY <3>1
  <2>5. \A s \in States : Own(t, s)' = Own(t, s)
    BY DEF Own, Root
  <2>6. SKept(t)'
    BY <2>1, <2>4, <2>5 DEF SKept
  <2>7. QED
    BY <2>1, <2>3, <2>6 DEF SFrontier
<1>4. CASE STake(t)
  <2>1. PICK n \in open[t] :
          /\ \A m \in open[t] : SPrime(t, n) <= SPrime(t, m)
          /\ open' = [open EXCEPT ![t] = @ \ {n}]
          /\ cur' = [cur EXCEPT ![t] = n]
          /\ Go(t, "take", IF SPrime(t, n) >= bound
                           THEN IF weight[t] = 1 THEN "finish" ELSE "clear"
                           ELSE IF n[1] \in Goals THEN "goal" ELSE "expand")
    BY <1>4, Zenon DEF STake, First
  <2>2. UNCHANGED <<weight, closed, g, best>>
    BY <1>4 DEF STake
  <2>3. /\ open'[t] = open[t] \ {n} /\ cur'[t] = n /\ pc[t] = "take"
        /\ pc'[t] \in {"goal", "expand"} /\ n \in Nodes
        /\ pc'[t] = "goal" => n[1] \in Goals
    BY <2>1 DEF Searching
  <2>4. weight[t] = 1 /\ SFrontier(t)
    BY <1>1, <2>2, <2>3 DEF SSearch, Searching
  <2>5. \A m \in open[t] : SPrime(t, m) = F(m) /\ F(m) \in Nat
    BY <2>4 DEF SPrime, F
  <2>6. \A m \in open[t] : F(n) <= F(m)
    BY <2>1, <2>5
  <2>7. \A m \in Nodes : F(m)' = F(m)
    BY <2>2 DEF F
  <2>8. F(cur[t])' = F(n) /\ Holding(t)'
    BY <2>2, <2>3 DEF F, Holding
  <2>9. SOrder(t)'
    <3>1. \A x \in closed[t] \ open[t] : F(x) <= F(n)
      BY <2>4 DEF SFrontier, SOrder
    <3>2. \A x \in closed'[t] \ open'[t] : F(x)' <= F(n)
      <4>1. ASSUME NEW x \in closed'[t] \ open'[t] PROVE F(x)' <= F(n)
        <5>1. x \in Nodes /\ (x = n \/ x \in closed[t] \ open[t])
          BY <2>2, <2>3
        <5>2. F(n) <= F(n)
          BY <2>5
        <5>3. QED
          BY <2>7, <3>1, <5>1, <5>2
      <4>2. QED
        BY <4>1
    <3>3. \A y \in open'[t] : F(n) <= F(y)'
      BY <2>3, <2>6, <2>7
    <3>4. \A x \in closed'[t] \ open'[t] : \A y \in open'[t] : F(x)' <= F(y)'
      <4>1. ASSUME NEW x \in closed'[t] \ open'[t], NEW y \in open'[t]
            PROVE  F(x)' <= F(y)'
        <5>0. x \in closed[t] /\ y \in open[t]
          BY <2>2, <2>3
        <5>1. F(x)' <= F(n) /\ F(n) <= F(y)' /\ x \in Nodes /\ y \in Nodes
          BY <3>2, <3>3, <5>0
        <5>2. \A m \in Nodes : F(m) \in Nat
          BY DEF F
        <5>3. F(x)' \in Nat /\ F(y)' \in Nat /\ F(n) \in Nat
          BY <2>3, <2>7, <5>1, <5>2
        <5>4. QED
          BY <5>1, <5>3
      <4>2. QED
        BY <4>1
    <3>5. QED
      BY <2>8, <3>2, <3>3, <3>4 DEF SOrder
  <2>10. SKept(t)'
    <3>1. \A s \in States : Own(t, s)' = Own(t, s)
      BY DEF Own, Root
    <3>2. \A s \in States : SHandled(t, s) => SHandled(t, s)'
      BY <2>2, <3>1, SpaceAssumption DEF SHandled, Root
    <3>3. ASSUME NEW s \in States, Promises(s, g[Own(t, s)])
          PROVE  Own(t, s) \in open[t] \/ SHandled(t, s)
      BY <2>3, <2>4, <3>3 DEF SFrontier, SKept, Holding
    <3>4. QED
      BY <2>2, <2>3, <2>8, <3>1, <3>2, <3>3 DEF SKept
  <2>11. pc'[t] = "goal" => g[n] <= CostToGo[Start]
    <3>1. SUFFICES ASSUME n[1] \in Goals PROVE g[n] <= CostToGo[Start]
      BY <2>3
    <3>2. PICK y \in open[t] : F(y) <= CostToGo[Start]
      BY <1>1, <2>3, <2>4, SFront
    <3>3. F(n) = g[n] + 0 /\ F(n) <= F(y) /\ F(y) \in Nat /\ g[n] \in Nat
      BY <2>3, <2>5, <2>6, <3>1, SpaceAssumption DEF F
    <3>4. QED
      BY <3>2, <3>3
  <2>12. QED
    BY <2>2, <2>3, <2>9, <2>10, <2>11 DEF SFrontier
<1>5. CASE SExpand(t)
  <2>1. pc[t] = "expand" /\ weight' = weight
    BY <1>5 DEF SExpand
  <2>2. SFrontier(t)
    BY <1>1, <2>1 DEF SSearch, Searching
  <2>3. QED
    BY <1>5, <2>2, SExpandStep
<1>6. QED
  BY <1>3, <1>4, <1>5 DEF SyncWAStarStep, SGiveUp, SGoal, SFinish, SClear, Searching

\* The initial state with weight one, once taken, is searched from until an
\* optimal solution is known.
LEMMA SUnitStep ==
  ASSUME Admissible, TypeOK, SSearch, algo = "syncwastar",
         NEW t \in Threads, SyncWAStarStep(t),
         NEW i \in 1..count', Weights[i] = 1, ~Solved'
  PROVE  \E u \in Threads : weight'[u] = 1 /\ Searching(u)'
<1>1. ~Solved /\ ~done
  BY SolvedStays DEF SSearch
<1>2. \A u \in Threads : u # t => /\ weight'[u] = weight[u]
                                  /\ Searching(u)' <=> Searching(u)
  BY SOthers
<1>3. SPlace(t)'
  BY SPlaceStep
<1>4. (\E j \in 1..count : Weights[j] = 1) =>
        \E u \in Threads : weight[u] = 1 /\ Searching(u)
  BY <1>1 DEF SSearch
<1>5. CASE SNext(t)
  <2>1. pc[t] = "next" /\ ~Searching(t)
    BY <1>5 DEF SNext, Go, Searching
  <2>2. CASE i \in 1..count
    BY <1>2, <1>4, <2>1, <2>2
  <2>3. CASE i \notin 1..count
    <3>1. count' = count + 1 /\ count < Len(Weights) /\ i = count + 1
      BY <1>5, <2>3, STypes DEF SNext
    <3>2. weight'[t] = 1 /\ pc'[t] = "take"
      BY <1>1, <1>5, <3>1, STypes DEF SNext, Go
    <3>3. QED
      BY <3>2 DEF Searching
  <2>4. QED
    BY <2>2, <2>3
<1>6. CASE ~SNext(t)
  <2>1. count' = count /\ weight' = weight
    BY <1>6 DEF SyncWAStarStep, SGiveUp, STake, SGoal, SFinish, SExpand, SClear,
       mode
  <2>2. PICK u \in Threads : weight[u] = 1 /\ Searching(u)
    BY <1>4, <2>1
  <2>3. CASE u # t
    BY <1>2, <2>2, <2>3
  <2>4. CASE u = t
    <3>1. pc'[t] \in {"take", "goal", "expand", "finish", "clear"}
      BY <1>6, <2>2, <2>4, STypes DEF SyncWAStarStep, SGiveUp, STake, SGoal,
         SFinish, SExpand, SClear, Go, Searching
    <3>2. ~(pc'[t] = "finish") /\ ~(pc'[t] = "clear")
      BY <1>3, <2>1, <2>2, <2>4 DEF SPlace
    <3>3. QED
      BY <2>1, <2>2, <2>4, <3>1, <3>2 DEF Searching
  <2>5. QED
    BY <2>3, <2>4
<1>7. QED
  BY <1>5, <1>6

LEMMA SSearchStep ==
  ASSUME Admissible, Consistent, TypeOK, SSearch,
         NEW t \in Threads, SyncWAStarStep(t)
  PROVE  SSearch'
<1>1. algo = "syncwastar" /\ algo' = algo /\ best = bound /\ best <= Infinity
  BY AlgoStays DEF SSearch
<1>2. /\ best' = bound' /\ best' <= best /\ (Solved => Solved')
      /\ \A n \in Nodes : n[2] # t => g'[n] = g[n]
  BY <1>1, SFrame, SolvedStays
<1>3. best' <= Infinity
  <2>1. best' \in Nat
    BY SType DEF TypeOK, ModeType
  <2>2. QED
    BY <1>1, <1>2, <2>1, STypes
<1>4. g'[Root] = 0
  BY <1>1, <1>2, STypes DEF SSearch
<1>5. done' => Solved'
  <2>1. CASE SFinish(t)
    <3>1. pc[t] = "finish"
      BY <2>1 DEF SFinish, Go
    <3>2. QED
      BY <1>1, <1>2, <3>1 DEF SSearch, SPlace
  <2>2. CASE ~SFinish(t)
    <3>1. done' = done
      BY <2>2 DEF SyncWAStarStep, SNext, SGiveUp, STake, SGoal, SExpand, SClear
    <3>2. QED
      BY <1>1, <1>2, <3>1 DEF SSearch
  <2>3. QED
    BY <2>1, <2>2
<1>6. ASSUME NEW u \in Threads PROVE SPlace(u)'
  BY <1>1, SOthers, SPlaceStep
<1>7. ASSUME NEW u \in Threads, weight'[u] = 1, Searching(u)'
      PROVE  Solved' \/ SFrontier(u)'
  <2>1. CASE u = t
    BY <1>1, <1>7, <2>1, SFrontierStep
  <2>2. CASE u # t
    <3>1. weight[u] = 1 /\ Searching(u)
      BY <1>1, <1>7, <2>2, SOthers
    <3>2. Solved \/ SFrontier(u)
      BY <1>1, <3>1 DEF SSearch
    <3>3. QED
      BY <1>1, <1>2, <2>2, <3>1, <3>2, SOthers
  <2>3. QED
    BY <2>1, <2>2
<1>8. (\E i \in 1..count' : Weights[i] = 1) =>
        Solved' \/ \E u \in Threads : weight'[u] = 1 /\ Searching(u)'
  BY <1>1, SUnitStep
<1>9. QED
  BY <1>2, <1>3, <1>4, <1>5, <1>6, <1>7, <1>8 DEF SSearch, Root

LEMMA SSearchInit == Init => SSearch
<1> SUFFICES ASSUME Init, algo = "syncwastar" PROVE SSearch
  BY DEF SSearch
<1>1. SyncWAStarInit
  BY Zenon DEF Init
<1>2. /\ \A t \in Threads : pc[t] = "next" /\ open[t] = {} /\ closed[t] = {}
      /\ count = 0 /\ done = FALSE /\ best = Infinity /\ bound = Infinity
      /\ g = [n \in Nodes |-> IF n = Root THEN 0 ELSE Infinity] /\ TypeOK
  BY <1>1, TypeInit, Basics DEF Init, SyncWAStarInit, Threads
<1>3. g[Root] = 0 /\ Infinity \in Nat
  BY <1>2, Basics, RealBasics
<1>4. ASSUME NEW t \in Threads, NEW n \in Mine(t) PROVE g[n] = Infinity
  BY <1>2, <1>4, STypes DEF Mine
<1>5. \A t \in Threads : SPlace(t) /\ ~Searching(t)
  BY <1>2, <1>4 DEF SPlace, Holding, Searching
<1>6. ~(\E i \in 1..count : Weights[i] = 1)
  BY <1>2
<1>7. QED
  BY <1>2, <1>3, <1>5, <1>6 DEF SSearch

\* One of the initial states has weight one.
UnitWeight == \E i \in 1..Len(Weights) : Weights[i] = 1

LEMMA SEnded ==
  ASSUME UnitWeight, TypeOK, SSearch, algo = "syncwastar", Ended
  PROVE  Solved
<1>1. 1 \in Threads /\ Threads \subseteq 0..N
  BY Basics DEF Threads
<1>2. \A t \in Threads : pc[t] = "end"
  BY <1>1 DEF Ended, SSearch, SPlace
<1>3. done \/ count = Len(Weights)
  BY <1>1, <1>2 DEF SSearch, SPlace
<1>4. CASE done
  BY <1>4 DEF SSearch
<1>5. CASE count = Len(Weights)
  BY <1>2, <1>5 DEF SSearch, UnitWeight, Searching
<1>6. QED
  BY <1>3, <1>4, <1>5

-----------------------------------------------------------------------------
(***************************************************************************)
(* The searches end within their bounds                                    *)
(***************************************************************************)
SearchInv == TypeOK /\ Sound /\ PAInv /\ LPInv /\ LPSearch /\ SSearch

LEMMA SearchKept ==
  ASSUME Admissible, Consistent, SearchInv, [Next]_vars
  PROVE  LPSearch' /\ SSearch'
<1> USE DEF SearchInv
<1>1. CASE UNCHANGED vars
  <2>1. UNCHANGED <<algo, weight, dd, pc, open, closed, g, cur, todo, kid, best,
                    bound, done, count>>
    BY <1>1 DEF vars, mode
  <2>2. LPSearch'
    <3>1. SUFFICES ASSUME algo = "lpastar" PROVE LPSearch'
      BY <2>1 DEF LPSearch
    <3>2. PICK G : LPTable(G) /\ (LPMet \/ LPKept(G))
      BY <3>1 DEF LPSearch
    <3>3. LPHands' /\ LPTable(G)' /\ (LPMet => LPMet')
      BY <2>1, <3>1, <3>2 DEF LPSearch, LPHands, LPTable, LPMet
    <3>4. LPKept(G) => LPKept(G)'
      BY <2>1 DEF LPKept, LPOpen, LPHandled, LPKnown
    <3>5. QED
      BY <3>2, <3>3, <3>4 DEF LPSearch
  <2>3. SSearch'
    BY <2>1 DEF SSearch, SPlace, SFrontier, SOrder, SKept, SHandled, Solved,
       Searching, Holding, Own, Mine, F, Root
  <2>4. QED
    BY <2>2, <2>3
<1>2. ASSUME NEW t, PAStarStep(t) \/ KBFSStep(t) PROVE LPSearch' /\ SSearch'
  BY <1>2, AlgoStays DEF LPSearch, SSearch
<1>3. ASSUME NEW t \in Threads, LPAStarStep(t) PROVE LPSearch' /\ SSearch'
  BY <1>3, AlgoStays, LPSearchStep DEF SSearch
<1>4. ASSUME NEW t \in Threads, SyncWAStarStep(t) PROVE LPSearch' /\ SSearch'
  BY <1>4, AlgoStays, SSearchStep DEF LPSearch
<1>5. QED
  BY <1>1, <1>2, <1>3, <1>4, StepKinds

\* Whatever the threads do in which order, when all have ended the solution of
\* LPAStar costs at most the weight times the least cost, that of SyncWAStar is
\* optimal, and none is cheaper than there is.  LPAStar needs an admissible
\* heuristic; SyncWAStar, which may drop duplicates, needs a consistent one and
\* a weight of one in its schedule.
THEOREM EndsWithinBound ==
  ASSUME Admissible, Consistent, UnitWeight
  PROVE  Spec => []WithinBound
<1>1. Init => SearchInv
  BY TypeInit, SoundInit, CompletionInit, LPSearchInit, SSearchInit DEF SearchInv
<1>2. SearchInv /\ [Next]_vars => SearchInv'
  <2>1. SearchInv /\ [Next]_vars => TypeOK' /\ Sound' /\ PAInv' /\ LPInv'
    BY TypeKept, SoundKept, CompletionKept DEF SearchInv
  <2>2. SearchInv /\ [Next]_vars => LPSearch' /\ SSearch'
    BY SearchKept
  <2>3. QED
    BY <2>1, <2>2 DEF SearchInv
<1>3. SearchInv => WithinBound
  <2> SUFFICES ASSUME SearchInv, Ended
               PROVE  /\ algo = "lpastar" => best <= weight[1] * CostToGo[Start]
                      /\ algo = "syncwastar" => best = CostToGo[Start]
                      /\ best >= CostToGo[Start]
    BY DEF WithinBound
  <2>1. best >= CostToGo[Start] /\ best \in Nat /\ CostToGo[Start] \in Nat
    BY RealBasics DEF SearchInv, Sound, TypeOK, ModeType
  <2>2. algo = "lpastar" => best <= weight[1] * CostToGo[Start]
    BY LPEnded DEF SearchInv, LPMet
  <2>3. algo = "syncwastar" => best = CostToGo[Start]
    BY <2>1, SEnded DEF SearchInv, Solved
  <2>4. QED
    BY <2>1, <2>2, <2>3
<1>4. QED
  BY <1>1, <1>2, <1>3, PTL DEF Spec

-----------------------------------------------------------------------------
(***************************************************************************)
(* The domains' heuristics.  EndsWithinBound assumes a consistent          *)
(* heuristic: those of the two domains are, in every world and puzzle.     *)
(* First the grids, whose life costs are sums of rows.                     *)
(***************************************************************************)
LEMMA AbsIs == \A n \in Int : Abs(n) \in Nat /\ (n >= 0 => Abs(n) = n) /\ (n <= 0 => Abs(n) = -n)
BY DEF Abs, Most

LEMMA LeastIs == \A a, b \in Int : Least(a, b) \in {a, b} /\ Least(a, b) <= a /\ Least(a, b) <= b
BY DEF Least

\* Of two numbers that follow each other one is even.
LEMMA EvenProduct ==
  ASSUME NEW n \in Nat
  PROVE  \E k \in Nat : n * (n + 1) = 2 * k
<1>1. PICK m \in Nat : n = 2 * m \/ n = 2 * m + 1
  <2>1. n = 2 * (n \div 2) + (n % 2)
    OBVIOUS
  <2>2. n \div 2 \in Nat /\ n % 2 \in {0, 1}
    OBVIOUS
  <2>3. QED
    BY <2>1, <2>2
<1>2. CASE n = 2 * m
  <2>1. n * (n + 1) = 2 * (m * (n + 1)) /\ m * (n + 1) \in Nat
    BY <1>2
  <2>2. QED
    BY <2>1
<1>3. CASE n = 2 * m + 1
  <2>1. n * (n + 1) = 2 * (n * (m + 1)) /\ n * (m + 1) \in Nat
    BY <1>3
  <2>2. QED
    BY <2>1
<1>4. QED
  BY <1>1, <1>2, <1>3

\* The sum of 1 to n, and that of 1 to n - 1.
UpTo(n) == CHOOSE k \in Nat : n * (n + 1) = 2 * k
Before(n) == UpTo(n) - n

LEMMA UpToIs ==
  ASSUME NEW n \in Nat
  PROVE  /\ UpTo(n) \in Nat /\ Before(n) \in Nat
         /\ 2 * UpTo(n) = n * (n + 1) /\ 2 * Before(n) = n * (n - 1)
         /\ UpTo(n) + Before(n) = n * n
<1>1. UpTo(n) \in Nat /\ n * (n + 1) = 2 * UpTo(n)
  BY EvenProduct DEF UpTo
<1>2. n * (n + 1) = n * n + n /\ n * (n - 1) = n * n - n /\ n * n \in Nat
  OBVIOUS
<1>n. n <= n * n
  <2>1. n = 0 \/ n * (n - 1) >= 0
    OBVIOUS
  <2>2. QED
    BY <1>2, <2>1
<1>3. 2 * Before(n) = n * (n - 1) /\ UpTo(n) + Before(n) = n * n
  BY <1>1, <1>2 DEF Before
<1>4. Before(n) \in Nat
  <2>1. n * (n + 1) >= 2 * n
    BY <1>2, <1>n
  <2>2. QED
    BY <1>1, <2>1 DEF Before
<1>5. QED
  BY <1>1, <1>3, <1>4

LEMMA UpToNext ==
  ASSUME NEW n \in Nat
  PROVE  UpTo(n + 1) = UpTo(n) + n + 1
<1>1. (n + 1) * (n + 2) = n * (n + 1) + 2 * (n + 1)
  OBVIOUS
<1>2. 2 * UpTo(n + 1) = (n + 1) * (n + 2)
  <2>1. (n + 1) + 1 = n + 2
    OBVIOUS
  <2>2. QED
    BY <2>1, UpToIs
<1>3. 2 * UpTo(n) = n * (n + 1) /\ UpTo(n) \in Nat /\ UpTo(n + 1) \in Nat
  BY UpToIs
<1>4. QED
  BY <1>1, <1>2, <1>3

\* The life cost of going straight is the sum of the rows left.
LEMMA CostFromIs ==
  ASSUME NEW a \in Nat, NEW b \in Nat
  PROVE  cost_from(a, b) = IF a >= b THEN UpTo(a) - UpTo(b) ELSE Before(b) - Before(a)
<1> DEFINE last == IF a > b THEN b + 1 ELSE IF a < b THEN b - 1 ELSE b
<1>1. cost_from(a, b) = ((a + last) * Abs(a - b)) \div 2
  BY DEF cost_from
<1>2. \A k \in Int : (2 * k) \div 2 = k
  OBVIOUS
<1>3. CASE a > b
  <2>1. (a + (b + 1)) * (a - b) = a * (a + 1) - b * (b + 1)
    OBVIOUS
  <2>2. (a + last) * Abs(a - b) = 2 * (UpTo(a) - UpTo(b))
    <3>1. Abs(a - b) = a - b /\ last = b + 1
      BY <1>3, AbsIs
    <3>2. /\ UpTo(a) \in Nat /\ 2 * UpTo(a) = a * (a + 1)
          /\ UpTo(b) \in Nat /\ 2 * UpTo(b) = b * (b + 1)
      BY UpToIs
    <3> HIDE DEF last
    <3>3. (a + last) * Abs(a - b) = 2 * UpTo(a) - 2 * UpTo(b)
      BY <2>1, <3>1, <3>2
    <3>4. QED
      BY <3>2, <3>3
  <2>3. UpTo(a) - UpTo(b) \in Int
    BY UpToIs
  <2>4. QED
    BY <1>1, <1>2, <1>3, <2>2, <2>3
<1>4. CASE a < b
  <2>1. (a + (b - 1)) * (b - a) = b * (b - 1) - a * (a - 1)
    OBVIOUS
  <2>2. (a + last) * Abs(a - b) = 2 * (Before(b) - Before(a))
    <3>1. Abs(a - b) = b - a /\ last = b - 1
      BY <1>4, AbsIs
    <3>2. /\ Before(a) \in Nat /\ 2 * Before(a) = a * (a - 1)
          /\ Before(b) \in Nat /\ 2 * Before(b) = b * (b - 1)
      BY UpToIs
    <3> HIDE DEF last
    <3>3. (a + last) * Abs(a - b) = 2 * Before(b) - 2 * Before(a)
      BY <2>1, <3>1, <3>2
    <3>4. QED
      BY <3>2, <3>3
  <2>3. Before(b) - Before(a) \in Int
    BY UpToIs
  <2>4. QED
    BY <1>1, <1>2, <1>4, <2>2, <2>3
<1>5. CASE a = b
  <2>1. (a + last) * Abs(a - b) = 0
    BY <1>5, AbsIs
  <2>2. QED
    BY <1>1, <1>5, <2>1, UpToIs
<1>6. QED
  BY <1>3, <1>4, <1>5


LEMMA CostFromSum ==
  ASSUME NEW y \in Nat, NEW gy \in Nat
  PROVE  cost_from(y, gy) = (UpTo(y) + Before(gy)) - Least(y, gy) * Least(y, gy)
<1>t. /\ UpTo(y) \in Nat /\ Before(y) \in Nat /\ UpTo(gy) \in Nat /\ Before(gy) \in Nat
      /\ UpTo(y) + Before(y) = y * y /\ UpTo(gy) + Before(gy) = gy * gy
  BY UpToIs
<1>1. CASE y >= gy
  <2>1. cost_from(y, gy) = UpTo(y) - UpTo(gy)
    BY <1>1, CostFromIs
  <2>2. Least(y, gy) = gy
    BY <1>1 DEF Least
  <2>3. QED
    BY <1>t, <2>1, <2>2
<1>2. CASE y < gy
  <2>1. cost_from(y, gy) = Before(gy) - Before(y)
    BY <1>2, CostFromIs
  <2>2. Least(y, gy) = y
    BY <1>2 DEF Least
  <2>3. QED
    BY <1>t, <2>1, <2>2
<1>3. QED
  BY <1>1, <1>2

-----------------------------------------------------------------------------
\* With no diagonals under the life cost: what going across saves or costs.
Saved(top, dx) == IF dx < top THEN top * (top - dx) ELSE 0

LEMMA CrossIs ==
  ASSUME NEW y \in Nat, NEW gy \in Nat, NEW dx \in Nat
  PROVE  /\ (y * y + y + gy * gy - gy) \div 2 = UpTo(y) + Before(gy)
         /\ Least((y * y + y + gy * gy - gy) \div 2,
                  dx * Least(y, gy) + cost_from(y, gy))
              = (UpTo(y) + Before(gy)) - Saved(Least(y, gy), dx)
<1> DEFINE top == Least(y, gy)
<1> DEFINE sum == UpTo(y) + Before(gy)
<1>0. top \in Nat /\ (y >= gy => top = gy) /\ (y < gy => top = y)
  BY DEF Least
<1>t. /\ UpTo(y) \in Nat /\ Before(y) \in Nat /\ UpTo(gy) \in Nat /\ Before(gy) \in Nat
      /\ UpTo(y) + Before(y) = y * y /\ UpTo(gy) + Before(gy) = gy * gy
      /\ 2 * UpTo(y) = y * (y + 1) /\ 2 * Before(gy) = gy * (gy - 1)
  BY UpToIs
<1>1. (y * y + y + gy * gy - gy) \div 2 = sum
  <2>1. y * y + y + gy * gy - gy = 2 * sum
    BY <1>t
  <2>2. \A k \in Int : (2 * k) \div 2 = k
    OBVIOUS
  <2>3. sum \in Int
    BY <1>t
  <2> HIDE DEF sum
  <2>4. QED
    BY <2>1, <2>2, <2>3
<1>2. cost_from(y, gy) = sum - top * top
  BY CostFromSum
<1>3. Least(sum, dx * top + (sum - top * top)) = sum - Saved(top, dx)
  <2>0. sum \in Int /\ top \in Nat
    BY <1>0, <1>t
  <2> HIDE DEF sum, top
  <2>1. top * (top - dx) = top * top - dx * top /\ top * top \in Nat /\ dx * top \in Nat
    BY <2>0
  <2>2. CASE dx < top
    <3>1. top * (top - dx) >= 0
      BY <2>0, <2>2
    <3>2. QED
      BY <2>0, <2>1, <2>2, <3>1 DEF Saved, Least
  <2>3. CASE ~(dx < top)
    <3>1. (dx - top) * top >= 0
      BY <2>0, <2>3
    <3>2. (dx - top) * top = dx * top - top * top
      BY <2>0
    <3>3. QED
      BY <2>0, <2>1, <2>3, <3>1, <3>2 DEF Saved, Least
  <2>4. QED
    BY <2>2, <2>3
<1>4. dx * top + cost_from(y, gy) = dx * top + (sum - top * top)
  BY <1>2
<1>5. Least((y * y + y + gy * gy - gy) \div 2, dx * top + cost_from(y, gy))
        = sum - Saved(top, dx)
  BY <1>1, <1>3, <1>4, Zenon
<1>6. QED
  BY <1>1, <1>5

\* A step up or across saves no more; none saves more than it costs.
LEMMA SavedStep ==
  ASSUME NEW y \in Nat, NEW gy \in Nat, NEW dx \in Nat,
         NEW y1 \in Nat, NEW dx1 \in Nat,
         \/ y1 = y /\ dx1 <= dx + 1 /\ dx <= dx1 + 1
         \/ dx1 = dx /\ (y1 = y + 1 \/ y = y1 + 1)
  PROVE  (UpTo(y) - Saved(Least(y, gy), dx)) - (UpTo(y1) - Saved(Least(y1, gy), dx1)) <= y
<1> DEFINE top == Least(y, gy)
           top1 == Least(y1, gy)
<1>0. /\ top \in Nat /\ top1 \in Nat /\ top <= y
      /\ (y1 = y => top1 = top)
      /\ (y1 = y + 1 => top1 = top \/ (top = y /\ top1 = y + 1))
      /\ (y = y1 + 1 => top1 = top \/ (top1 = top - 1))
  BY DEF Least
<1>t. UpTo(y) \in Nat /\ UpTo(y1) \in Nat
  BY UpToIs
<1> SUFFICES (UpTo(y) - Saved(top, dx)) - (UpTo(y1) - Saved(top1, dx1)) <= y
  OBVIOUS
<1> HIDE DEF top, top1
<1>s. /\ Saved(top, dx) \in Nat /\ Saved(top1, dx1) \in Nat /\ Saved(top, dx1) \in Nat
  BY <1>0 DEF Saved
<1>1. CASE y1 = y
  <2>1. dx1 <= dx + 1 /\ dx <= dx1 + 1
    BY <1>1
  <2>2. Saved(top, dx1) <= Saved(top, dx) + top
    <3>1. CASE dx1 < top /\ dx < top
      <4>1. top * (top - dx1) <= top * ((top - dx) + 1)
        BY <1>0, <2>1, <3>1
      <4>2. top * ((top - dx) + 1) = top * (top - dx) + top
        BY <1>0
      <4>3. QED
        BY <1>0, <3>1, <4>1, <4>2 DEF Saved
    <3>2. CASE dx1 < top /\ ~(dx < top)
      <4>1. top - dx1 = 1
        BY <1>0, <2>1, <3>2
      <4>2. QED
        BY <1>0, <3>2, <4>1 DEF Saved
    <3>3. CASE ~(dx1 < top)
      BY <1>0, <1>s, <1>1, <3>3 DEF Saved
    <3>4. QED
      BY <3>1, <3>2, <3>3
  <2>3. QED
    BY <1>0, <1>1, <1>t, <1>s, <2>2
<1>2. CASE y1 = y + 1 /\ dx1 = dx
  <2>1. UpTo(y1) = UpTo(y) + y + 1
    BY <1>2, UpToNext
  <2>2. Saved(top1, dx) <= Saved(top, dx) + 2 * y + 1
    <3>1. CASE top1 = top
      BY <1>0, <1>s, <3>1, <1>2
    <3>2. CASE top = y /\ top1 = y + 1
      <4>1. (y + 1) * (y + 1 - dx) = y * (y - dx) + 2 * y + 1 - dx
        OBVIOUS
      <4>2. CASE dx < y
        BY <3>2, <4>1, <4>2 DEF Saved
      <4>3. CASE dx = y
        BY <3>2, <4>1, <4>3 DEF Saved
      <4>4. CASE dx > y
        BY <3>2, <4>4 DEF Saved
      <4>5. QED
        BY <4>2, <4>3, <4>4
    <3>3. QED
      BY <1>0, <1>2, <3>1, <3>2
  <2>3. QED
    BY <1>0, <1>2, <1>t, <1>s, <2>1, <2>2
<1>3. CASE y = y1 + 1 /\ dx1 = dx
  <2>1. UpTo(y) = UpTo(y1) + y
    <3>1. UpTo(y1 + 1) = UpTo(y1) + y1 + 1
      BY UpToNext
    <3>2. QED
      BY <1>3, <1>t, <3>1
  <2>2. Saved(top1, dx) <= Saved(top, dx)
    <3>1. CASE top1 = top
      BY <1>0, <1>s, <3>1, <1>3
    <3>2. CASE top1 = top - 1
      <4>1. top * (top - dx) = (top - 1) * (top - 1 - dx) + (top - dx) + (top - 1)
        BY <1>0
      <4>2. QED
        BY <1>0, <1>s, <3>2, <4>1 DEF Saved
    <3>3. QED
      BY <1>0, <1>3, <3>1, <3>2
  <2>3. QED
    BY <1>0, <1>3, <1>t, <1>s, <2>1, <2>2
<1>4. QED
  BY <1>1, <1>2, <1>3

-----------------------------------------------------------------------------
\* With diagonals under the life cost: what an arc saves, from the rows of
\* its ends together without the steps it takes.
Quarter(n) == (n * n) \div 4
Turned(n) == IF n > 0 THEN Quarter(n) ELSE 0

LEMMA QuarterIs ==
  ASSUME NEW k \in Nat
  PROVE  Quarter(2 * k) = k * k /\ Quarter(2 * k + 1) = k * k + k
<1>1. (2 * k) * (2 * k) = 4 * (k * k) + 0 /\ k * k \in Nat
  OBVIOUS
<1>2. (2 * k + 1) * (2 * k + 1) = 4 * (k * k + k) + 1
  OBVIOUS
<1>3. \A n, q, r \in Nat : r < 4 /\ n = 4 * q + r => n \div 4 = q
  OBVIOUS
<1>4. QED
  BY <1>1, <1>2, <1>3 DEF Quarter

LEMMA Halves ==
  ASSUME NEW n \in Nat
  PROVE  /\ n \div 2 \in Nat
         /\ n = 2 * (n \div 2) \/ n = 2 * (n \div 2) + 1
OBVIOUS

LEMMA QuarterNext ==
  ASSUME NEW n \in Nat
  PROVE  /\ Quarter(n) \in Nat /\ Quarter(n) <= Quarter(n + 1)
         /\ 2 * Quarter(n + 1) <= 2 * Quarter(n) + n + 1
<1> DEFINE k == n \div 2
<1>1. k \in Nat /\ (n = 2 * k \/ n = 2 * k + 1)
  BY Halves
<1> HIDE DEF k
<1>2. CASE n = 2 * k
  <2>1. Quarter(n) = k * k /\ Quarter(n + 1) = k * k + k /\ k * k \in Nat
    BY <1>1, <1>2, QuarterIs
  <2>2. QED
    BY <1>1, <1>2, <2>1
<1>3. CASE n = 2 * k + 1
  <2>1. Quarter(n) = k * k + k /\ k * k \in Nat
    BY <1>1, <1>3, QuarterIs
  <2>2. Quarter(2 * (k + 1)) = (k + 1) * (k + 1) /\ n + 1 = 2 * (k + 1)
    <3>1. k + 1 \in Nat /\ n + 1 = 2 * (k + 1)
      BY <1>1, <1>3
    <3>2. QED
      BY <3>1, QuarterIs
  <2>3. (k + 1) * (k + 1) = k * k + 2 * k + 1
    BY <1>1
  <2>4. QED
    BY <1>1, <1>3, <2>1, <2>2, <2>3
<1>4. QED
  BY <1>1, <1>2, <1>3

\* One more, or two, turned.
LEMMA TurnedStep ==
  ASSUME NEW n \in Int
  PROVE  /\ Turned(n) \in Nat /\ Turned(n) <= Turned(n + 1)
         /\ n <= 0 => Turned(n + 1) = 0 /\ Turned(n) = 0
         /\ n >= 0 => 2 * Turned(n + 1) <= 2 * Turned(n) + n + 1
<1>0. Quarter(0) = 0 /\ Quarter(1) = 0
  BY QuarterIs, 0 \in Nat
<1>1. CASE n < 0
  BY <1>1, <1>0 DEF Turned
<1>2. CASE n = 0
  BY <1>2, <1>0 DEF Turned
<1>3. CASE n > 0
  <2>1. Turned(n) = Quarter(n) /\ Turned(n + 1) = Quarter(n + 1)
    BY <1>3 DEF Turned
  <2>2. QED
    BY <1>3, <2>1, QuarterNext
<1>4. QED
  BY <1>1, <1>2, <1>3

Across(a, b) == Abs(b[1] - a[1])
Upward(a, b) == Abs(b[2] - a[2])

LEMMA ArcIs ==
  ASSUME NEW a \in Nat \X Nat, NEW b \in Nat \X Nat
  PROVE  ArcCost(a, b) = (UpTo(a[2]) + Before(b[2]))
                           - Turned((a[2] + b[2]) - Most(Across(a, b), Upward(a, b)))
<1> DEFINE y == a[2]
           gy == b[2]
           dx == Across(a, b)
           dy == Upward(a, b)
           extra == dx - dy
           top == Least(y, gy)
           up == Least(top, extra \div 2)
           high == top - up
           s == (y + gy) - Most(dx, dy)
<1>1. ArcCost(a, b) = IF dx > dy
                      THEN cost_from(y, high) + (extra - 2 * up) * high
                             + cost_from(high, gy)
                      ELSE cost_from(y, gy)
  BY DEF ArcCost, Across, Upward
<1>2. /\ y \in Nat /\ gy \in Nat /\ dx \in Nat /\ dy \in Nat
      /\ dy = IF gy >= y THEN gy - y ELSE y - gy
  BY AbsIs DEF Across, Upward
<1>3. top \in Nat /\ top <= y /\ top <= gy /\ (y + gy) - dy = 2 * top
  BY <1>2 DEF Least
<1>4. s = IF dx > dy THEN 2 * top - extra ELSE 2 * top
  BY <1>2, <1>3 DEF Most
<1>5. CASE ~(dx > dy)
  <2>1. Turned(s) = top * top
    <3>1. Quarter(2 * top) = top * top
      BY <1>3, QuarterIs
    <3>2. top = 0 => top * top = 0
      BY <1>3
    <3>3. QED
      BY <1>3, <1>4, <1>5, <3>1, <3>2 DEF Turned
  <2>2. cost_from(y, gy) = (UpTo(y) + Before(gy)) - top * top
    BY <1>2, CostFromSum
  <2>3. QED
    BY <1>1, <1>5, <2>1, <2>2
<1>6. CASE dx > dy
  <2>1. /\ extra \in Nat /\ extra \div 2 \in Nat
        /\ extra = 2 * (extra \div 2) \/ extra = 2 * (extra \div 2) + 1
    <3>1. extra \in Nat
      BY <1>2, <1>6
    <3> HIDE DEF extra
    <3>2. QED
      BY <3>1, Halves
  <2>2. /\ up \in Nat /\ high \in Nat /\ high <= y /\ high <= gy
        /\ up = IF extra \div 2 < top THEN extra \div 2 ELSE top
    BY <1>3, <2>1 DEF Least
  <2> HIDE DEF y, gy, dx, dy, top, up, extra, s
  <2>3. high \in Nat /\ high = top - up
    BY <2>2
  <2> HIDE DEF high
  <2>t. /\ UpTo(y) \in Nat /\ Before(gy) \in Nat /\ UpTo(gy) \in Nat
        /\ UpTo(high) \in Nat /\ Before(high) \in Nat
        /\ UpTo(high) + Before(high) = high * high
    BY <1>2, <2>3, UpToIs
  <2>4. cost_from(y, high) = UpTo(y) - UpTo(high)
    BY <1>2, <2>2, <2>3, CostFromIs
  <2>5. cost_from(high, gy) = Before(gy) - Before(high)
    <3>1. CASE high = gy
      <4>1. cost_from(high, gy) = UpTo(high) - UpTo(gy)
        BY <1>2, <2>3, <3>1, CostFromIs
      <4>2. QED
        BY <2>t, <3>1, <4>1
    <3>2. CASE high < gy
      BY <1>2, <2>3, <3>2, CostFromIs
    <3>3. QED
      BY <1>2, <2>2, <3>1, <3>2
  <2>6. Turned(s) = high * high - (extra - 2 * up) * high
    <3>1. CASE extra \div 2 < top /\ extra = 2 * (extra \div 2)
      <4>1. up = extra \div 2 /\ extra = 2 * up /\ high > 0 /\ s = 2 * high
        BY <1>3, <1>4, <1>6, <2>1, <2>2, <2>3, <3>1
      <4>2. Quarter(2 * high) = high * high
        BY <2>3, QuarterIs
      <4>3. (extra - 2 * up) * high = 0
        BY <2>2, <2>3, <4>1
      <4>4. QED
        BY <2>3, <4>1, <4>2, <4>3 DEF Turned
    <3>2. CASE extra \div 2 < top /\ extra = 2 * (extra \div 2) + 1
      <4>1. up = extra \div 2 /\ extra = 2 * up + 1 /\ high > 0 /\ s = 2 * (high - 1) + 1
        BY <1>3, <1>4, <1>6, <2>1, <2>2, <2>3, <3>2
      <4>2. Quarter(2 * (high - 1) + 1) = (high - 1) * (high - 1) + (high - 1)
        <5>1. high - 1 \in Nat
          BY <2>3, <4>1
        <5>2. QED
          BY <5>1, QuarterIs
      <4>3. (extra - 2 * up) * high = high
        BY <2>2, <2>3, <4>1
      <4>4. (high - 1) * (high - 1) + (high - 1) = high * high - high
        BY <2>3
      <4>5. QED
        BY <2>3, <4>1, <4>2, <4>3, <4>4 DEF Turned
    <3>3. CASE ~(extra \div 2 < top)
      <4>1. high = 0 /\ ~(s > 0)
        BY <1>3, <1>4, <1>6, <2>1, <2>2, <2>3, <3>3
      <4>2. QED
        BY <2>1, <2>2, <4>1 DEF Turned
    <3>4. QED
      BY <2>1, <3>1, <3>2, <3>3
  <2>7. ArcCost(a, b) = (UpTo(y) - UpTo(high)) + (extra - 2 * up) * high
                          + (Before(gy) - Before(high))
    BY <1>1, <1>6, <2>4, <2>5
  <2>8. (extra - 2 * up) * high \in Int
    BY <2>1, <2>2, <2>3
  <2>9. ArcCost(a, b) = (UpTo(y) + Before(gy)) - Turned(s)
    BY <2>t, <2>6, <2>7, <2>8
  <2>10. QED
    BY <2>9 DEF y, gy, s, dx, dy
<1>7. QED
  BY <1>5, <1>6

\* What is turned when a step changes it: up or across, or down.
LEMMA ArcStep ==
  ASSUME NEW y \in Nat, NEW gy \in Nat, NEW m \in Nat, NEW y1 \in Nat, NEW m1 \in Nat,
         m1 <= m + 1, m <= m1 + 1, (y + gy) - m <= 2 * y,
         y1 \in {y - 1, y, y + 1}
  PROVE  (UpTo(y) - Turned((y + gy) - m)) - (UpTo(y1) - Turned((y1 + gy) - m1)) <= y
<1> DEFINE n == (y + gy) - m
           n1 == (y1 + gy) - m1
<1>1. n \in Int /\ n1 \in Int /\ n <= 2 * y
  OBVIOUS
<1>2. n1 - n \in {-2, -1, 0, 1, 2}
  OBVIOUS
<1>3. (y1 = y => n1 - n <= 1) /\ (y1 = y - 1 => n1 - n <= 0)
  OBVIOUS
<1> SUFFICES (UpTo(y) - Turned(n)) - (UpTo(y1) - Turned(n1)) <= y
  OBVIOUS
<1> HIDE DEF n, n1
<1>t. UpTo(y) \in Nat /\ UpTo(y1) \in Nat
  BY UpToIs
<1>4. \A k \in Int : /\ Turned(k) \in Nat /\ Turned(k) <= Turned(k + 1)
                     /\ k <= 0 => Turned(k + 1) = 0 /\ Turned(k) = 0
                     /\ k >= 0 => 2 * Turned(k + 1) <= 2 * Turned(k) + k + 1
  BY TurnedStep
<1>5. n1 <= n => Turned(n1) <= Turned(n)
  <2>1. n1 = n \/ n1 + 1 = n \/ (n1 + 1) + 1 = n \/ n1 > n
    BY <1>1, <1>2
  <2>2. Turned(n1) <= Turned(n1 + 1) /\ Turned(n1 + 1) <= Turned((n1 + 1) + 1)
    BY <1>1, <1>4
  <2>3. Turned(n1) \in Nat /\ Turned(n1 + 1) \in Nat /\ Turned((n1 + 1) + 1) \in Nat
    BY <1>1, <1>4
  <2>4. QED
    BY <1>1, <2>1, <2>2, <2>3
<1>6. n1 = n + 1 => Turned(n1) <= Turned(n) + y
  <2>1. CASE n <= 0
    BY <1>1, <1>4, <2>1
  <2>2. CASE n > 0
    <3>1. 2 * Turned(n + 1) <= 2 * Turned(n) + n + 1
      BY <1>1, <1>4, <2>2
    <3>2. Turned(n) \in Nat /\ Turned(n + 1) \in Nat
      BY <1>1, <1>4
    <3>3. QED
      BY <1>1, <3>1, <3>2
  <2>3. QED
    BY <1>1, <2>1, <2>2
<1>7. n1 = n + 2 => Turned(n1) <= Turned(n) + 2 * y + 1
  <2>1. n + 2 = (n + 1) + 1
    BY <1>1
  <2>2. /\ Turned(n) \in Nat /\ Turned(n + 1) \in Nat /\ Turned((n + 1) + 1) \in Nat
    BY <1>1, <1>4
  <2>3. CASE n >= 0
    <3>1. /\ 2 * Turned(n + 1) <= 2 * Turned(n) + n + 1
          /\ 2 * Turned((n + 1) + 1) <= 2 * Turned(n + 1) + (n + 1) + 1
      BY <1>1, <1>4, <2>3
    <3>2. QED
      BY <1>1, <2>1, <2>2, <3>1
  <2>4. CASE n < 0
    <3>1. Turned((n + 1) + 1) = 0
      BY <1>1, <1>4, <2>4
    <3>2. QED
      BY <1>1, <2>1, <2>2, <3>1
  <2>5. QED
    BY <1>1, <2>3, <2>4
<1>u. Turned(n) \in Nat /\ Turned(n1) \in Nat
  BY <1>1, <1>4
<1>v. n1 <= n \/ n1 = n + 1 \/ n1 = n + 2
  BY <1>1, <1>2
<1>8. CASE y1 = y
  <2>1. Turned(n1) <= Turned(n) + y
    BY <1>1, <1>3, <1>5, <1>6, <1>8, <1>u, <1>v
  <2>2. QED
    BY <1>8, <1>t, <1>u, <2>1
<1>9. CASE y1 = y + 1
  <2>1. UpTo(y1) = UpTo(y) + y + 1
    BY <1>9, UpToNext
  <2>2. QED
    BY <1>5, <1>6, <1>7, <1>t, <1>u, <1>v, <2>1
<1>10. CASE y1 = y - 1
  <2>1. UpTo(y) = UpTo(y1) + y
    <3>1. UpTo(y1 + 1) = UpTo(y1) + y1 + 1
      BY UpToNext
    <3>2. QED
      BY <1>10, <1>t, <3>1
  <2>2. QED
    BY <1>1, <1>3, <1>5, <1>10, <1>t, <1>u, <2>1
<1>11. QED
  BY <1>8, <1>9, <1>10

-----------------------------------------------------------------------------
(***************************************************************************)
(* Grids: no move lowers the heuristic value by more than it costs.        *)
(***************************************************************************)
LEMMA CellsAreNat ==
  ASSUME NEW w, IsWorld(w)
  PROVE  Cells(w) \subseteq Nat \X Nat
BY DEF IsWorld, Cells

LEMMA MoveIs ==
  ASSUME NEW w, NEW s, NEW m \in GridExpand(w, s)
  PROVE  /\ m.to \in Free(w)
         /\ \E st \in StraightSteps \cup DiagonalSteps : \E u \in {fp_one, fp_sqrt2} :
              /\ m.to = <<s[1] + st[1], s[2] + st[2]>>
              /\ m.cost = IF w.life THEN s[2] * u ELSE u
              /\ st \in DiagonalSteps => w.eight /\ u = fp_sqrt2
<1>1. ASSUME NEW steps, NEW u, m \in MovesBy(w, s, steps, u)
      PROVE  /\ m.to \in Free(w) /\ m.cost = IF w.life THEN s[2] * u ELSE u
             /\ \E st \in steps : m.to = <<s[1] + st[1], s[2] + st[2]>>
  <2>1. PICK d \in {<<s[1] + st[1], s[2] + st[2]>> : st \in steps} \cap Free(w) :
          m = [to |-> d, cost |-> IF w.life THEN s[2] * u ELSE u]
    BY <1>1 DEF MovesBy
  <2>2. QED
    BY <2>1
<1>2. \A st \in StraightSteps : st \notin DiagonalSteps
  <2>1. \A st \in StraightSteps : st[1] = 0 \/ st[2] = 0
    BY DEF StraightSteps
  <2>2. \A st \in DiagonalSteps : st[1] # 0 /\ st[2] # 0
    BY DEF DiagonalSteps
  <2>3. QED
    BY <2>1, <2>2
<1>3. CASE m \in MovesBy(w, s, StraightSteps, fp_one)
  BY <1>1, <1>2, <1>3
<1>4. CASE w.eight /\ m \in MovesBy(w, s, DiagonalSteps, fp_sqrt2)
  BY <1>1, <1>4
<1>5. QED
  BY <1>3, <1>4 DEF GridExpand, expand4, expand8

\* The distances to the goal before and after a move.
LEMMA Closer ==
  ASSUME NEW a \in Nat \X Nat, NEW b \in Nat \X Nat, NEW goal \in Nat \X Nat,
         NEW st \in StraightSteps \cup DiagonalSteps,
         b = <<a[1] + st[1], a[2] + st[2]>>
  PROVE  /\ b[2] \in {a[2] - 1, a[2], a[2] + 1}
         /\ Across(a, goal) \in Nat /\ Across(b, goal) \in Nat
         /\ Upward(a, goal) \in Nat /\ Upward(b, goal) \in Nat
         /\ Across(b, goal) <= Across(a, goal) + 1 /\ Across(a, goal) <= Across(b, goal) + 1
         /\ Upward(b, goal) <= Upward(a, goal) + 1 /\ Upward(a, goal) <= Upward(b, goal) + 1
         /\ st \in StraightSteps =>
              \/ b[2] = a[2] /\ Upward(b, goal) = Upward(a, goal)
              \/ b[2] # a[2] /\ Across(b, goal) = Across(a, goal)
<1> DEFINE x == a[1]
           y == a[2]
           x1 == b[1]
           y1 == b[2]
<1>1. /\ x \in Nat /\ y \in Nat /\ x1 \in Nat /\ y1 \in Nat
      /\ goal[1] \in Nat /\ goal[2] \in Nat
  OBVIOUS
<1>2. x1 = x + st[1] /\ y1 = y + st[2]
  OBVIOUS
<1>3. /\ st[1] \in {-1, 0, 1} /\ st[2] \in {-1, 0, 1}
      /\ st \in StraightSteps => (st[1] = 0 /\ st[2] # 0) \/ (st[1] # 0 /\ st[2] = 0)
  BY DEF StraightSteps, DiagonalSteps
<1> HIDE DEF x, y, x1, y1
<1>4. /\ Across(a, goal) = Abs(goal[1] - x) /\ Across(b, goal) = Abs(goal[1] - x1)
      /\ Upward(a, goal) = Abs(goal[2] - y) /\ Upward(b, goal) = Abs(goal[2] - y1)
  BY DEF Across, Upward, x, y, x1, y1
<1>5. \A k \in Int : Abs(k) = IF k >= 0 THEN k ELSE -k
  BY AbsIs
<1>6. QED
  BY <1>1, <1>2, <1>3, <1>4, <1>5 DEF y, y1

LEMMA StepIsNat ==
  ASSUME NEW top \in Nat, NEW dx \in Nat
  PROVE  Saved(top, dx) \in Nat
BY DEF Saved

\* A move changes what an arc costs by at most the row that it leaves.
LEMMA ArcMove ==
  ASSUME NEW y \in Nat, NEW gy \in Nat, NEW dx \in Nat, NEW dy \in Nat,
         NEW y1 \in Nat, NEW dx1 \in Nat, NEW dy1 \in Nat,
         y1 \in {y - 1, y, y + 1}, gy - y <= dy,
         dx1 <= dx + 1, dx <= dx1 + 1, dy1 <= dy + 1, dy <= dy1 + 1
  PROVE  /\ (UpTo(y) + Before(gy)) - Turned((y + gy) - Most(dx, dy)) \in Int
         /\ (UpTo(y1) + Before(gy)) - Turned((y1 + gy) - Most(dx1, dy1)) \in Int
         /\ ((UpTo(y) + Before(gy)) - Turned((y + gy) - Most(dx, dy)))
              - ((UpTo(y1) + Before(gy)) - Turned((y1 + gy) - Most(dx1, dy1))) <= y
<1> DEFINE p == Most(dx, dy)
           p1 == Most(dx1, dy1)
<1>1. /\ p \in Nat /\ p1 \in Nat /\ p1 <= p + 1 /\ p <= p1 + 1 /\ dy <= p
  BY DEF Most
<1> SUFFICES /\ (UpTo(y) + Before(gy)) - Turned((y + gy) - p) \in Int
             /\ (UpTo(y1) + Before(gy)) - Turned((y1 + gy) - p1) \in Int
             /\ ((UpTo(y) + Before(gy)) - Turned((y + gy) - p))
                  - ((UpTo(y1) + Before(gy)) - Turned((y1 + gy) - p1)) <= y
  OBVIOUS
<1> HIDE DEF p, p1
<1>2. (y + gy) - p <= 2 * y
  BY <1>1
<1>3. (UpTo(y) - Turned((y + gy) - p)) - (UpTo(y1) - Turned((y1 + gy) - p1)) <= y
  BY <1>1, <1>2, ArcStep
<1>4. /\ UpTo(y) \in Nat /\ UpTo(y1) \in Nat /\ Before(gy) \in Nat
      /\ Turned((y + gy) - p) \in Nat /\ Turned((y1 + gy) - p1) \in Nat
  <2>1. (y + gy) - p \in Int /\ (y1 + gy) - p1 \in Int
    BY <1>1
  <2>2. Turned((y + gy) - p) \in Nat /\ Turned((y1 + gy) - p1) \in Nat
    BY <2>1, TurnedStep
  <2>3. QED
    BY <2>2, UpToIs
<1>5. QED
  BY <1>3, <1>4

LEMMA ArcConsistent ==
  ASSUME NEW a \in Nat \X Nat, NEW b \in Nat \X Nat, NEW goal \in Nat \X Nat,
         NEW st \in StraightSteps \cup DiagonalSteps,
         b = <<a[1] + st[1], a[2] + st[2]>>
  PROVE  /\ ArcCost(a, goal) \in Int /\ ArcCost(b, goal) \in Int
         /\ ArcCost(a, goal) - ArcCost(b, goal) <= a[2]
<1>1. /\ b[2] \in {a[2] - 1, a[2], a[2] + 1}
      /\ Across(a, goal) \in Nat /\ Across(b, goal) \in Nat
      /\ Upward(a, goal) \in Nat /\ Upward(b, goal) \in Nat
      /\ Across(b, goal) <= Across(a, goal) + 1 /\ Across(a, goal) <= Across(b, goal) + 1
      /\ Upward(b, goal) <= Upward(a, goal) + 1 /\ Upward(a, goal) <= Upward(b, goal) + 1
  BY Closer
<1>2. goal[2] - a[2] <= Upward(a, goal)
  BY AbsIs DEF Upward
<1>3. a[2] \in Nat /\ b[2] \in Nat /\ goal[2] \in Nat
  OBVIOUS
<1>4. /\ ArcCost(a, goal) = (UpTo(a[2]) + Before(goal[2]))
                           - Turned((a[2] + goal[2]) - Most(Across(a, goal), Upward(a, goal)))
      /\ ArcCost(b, goal) = (UpTo(b[2]) + Before(goal[2]))
                           - Turned((b[2] + goal[2]) - Most(Across(b, goal), Upward(b, goal)))
  BY ArcIs
<1>5. ASSUME NEW y, NEW y1, NEW gy, NEW dx, NEW dx1, NEW dy, NEW dy1,
             y = a[2], y1 = b[2], gy = goal[2], dx = Across(a, goal), dx1 = Across(b, goal),
             dy = Upward(a, goal), dy1 = Upward(b, goal)
      PROVE  /\ ArcCost(a, goal) \in Int /\ ArcCost(b, goal) \in Int
             /\ ArcCost(a, goal) - ArcCost(b, goal) <= y
  <2>1. /\ y \in Nat /\ y1 \in Nat /\ gy \in Nat /\ y1 \in {y - 1, y, y + 1}
        /\ dx \in Nat /\ dx1 \in Nat /\ dy \in Nat /\ dy1 \in Nat
        /\ dx1 <= dx + 1 /\ dx <= dx1 + 1 /\ dy1 <= dy + 1 /\ dy <= dy1 + 1
        /\ gy - y <= dy
    BY <1>1, <1>2, <1>3, <1>5, Zenon
  <2>2. /\ ArcCost(a, goal) = (UpTo(y) + Before(gy)) - Turned((y + gy) - Most(dx, dy))
        /\ ArcCost(b, goal) = (UpTo(y1) + Before(gy)) - Turned((y1 + gy) - Most(dx1, dy1))
    BY <1>4, <1>5, Zenon
  <2>3. /\ (UpTo(y) + Before(gy)) - Turned((y + gy) - Most(dx, dy)) \in Int
        /\ (UpTo(y1) + Before(gy)) - Turned((y1 + gy) - Most(dx1, dy1)) \in Int
        /\ ((UpTo(y) + Before(gy)) - Turned((y + gy) - Most(dx, dy)))
             - ((UpTo(y1) + Before(gy)) - Turned((y1 + gy) - Most(dx1, dy1))) <= y
    BY <2>1, ArcMove
  <2>4. QED
    BY <2>2, <2>3, Zenon
<1>6. QED
  BY <1>5, Zenon

\* The lesser of the ways across, up over and up over down.
Over(a, goal) == Least(compute_up_over_down4(a, goal), compute_up_over4(a, goal))

LEMMA OverIs ==
  ASSUME NEW a \in Nat \X Nat, NEW goal \in Nat \X Nat
  PROVE  Over(a, goal) = (UpTo(a[2]) + Before(goal[2])) - Saved(Least(a[2], goal[2]), Across(a, goal))
<1>1. a[2] \in Nat /\ goal[2] \in Nat /\ Across(a, goal) \in Nat
  BY AbsIs DEF Across
<1>2. compute_up_over4(a, goal) = Across(a, goal) * Least(a[2], goal[2]) + cost_from(a[2], goal[2])
  BY DEF compute_up_over4, Across
<1>3. compute_up_over_down4(a, goal)
        = (a[2] * a[2] + a[2] + goal[2] * goal[2] - goal[2]) \div 2
  BY DEF compute_up_over_down4
<1>4. Least((a[2] * a[2] + a[2] + goal[2] * goal[2] - goal[2]) \div 2,
            Across(a, goal) * Least(a[2], goal[2]) + cost_from(a[2], goal[2]))
        = (UpTo(a[2]) + Before(goal[2])) - Saved(Least(a[2], goal[2]), Across(a, goal))
  BY <1>1, CrossIs, Zenon
<1>5. QED
  BY <1>2, <1>3, <1>4, Zenon DEF Over

LEMMA OverConsistent ==
  ASSUME NEW a \in Nat \X Nat, NEW b \in Nat \X Nat, NEW goal \in Nat \X Nat,
         NEW st \in StraightSteps, b = <<a[1] + st[1], a[2] + st[2]>>
  PROVE  /\ Over(a, goal) \in Int /\ Over(b, goal) \in Int
         /\ Over(a, goal) - Over(b, goal) <= a[2]
<1>1. /\ b[2] \in {a[2] - 1, a[2], a[2] + 1}
      /\ Across(a, goal) \in Nat /\ Across(b, goal) \in Nat
      /\ Across(b, goal) <= Across(a, goal) + 1 /\ Across(a, goal) <= Across(b, goal) + 1
      /\ b[2] = a[2] \/ Across(b, goal) = Across(a, goal)
  BY Closer
<1>3. a[2] \in Nat /\ b[2] \in Nat /\ goal[2] \in Nat
  OBVIOUS
<1>4. /\ Over(a, goal) = (UpTo(a[2]) + Before(goal[2])) - Saved(Least(a[2], goal[2]), Across(a, goal))
      /\ Over(b, goal) = (UpTo(b[2]) + Before(goal[2])) - Saved(Least(b[2], goal[2]), Across(b, goal))
  BY OverIs
<1>5. /\ UpTo(a[2]) \in Nat /\ UpTo(b[2]) \in Nat /\ Before(goal[2]) \in Nat
  BY <1>3, UpToIs
<1>6. Least(a[2], goal[2]) \in Nat /\ Least(b[2], goal[2]) \in Nat
  BY <1>3 DEF Least
<1>7. Saved(Least(a[2], goal[2]), Across(a, goal)) \in Nat
  BY <1>1, <1>6, StepIsNat, Zenon
<1>8. Saved(Least(b[2], goal[2]), Across(b, goal)) \in Nat
  BY <1>1, <1>6, StepIsNat, Zenon
<1>9. \/ b[2] = a[2]
      \/ Across(b, goal) = Across(a, goal) /\ (b[2] = a[2] + 1 \/ a[2] = b[2] + 1)
  BY <1>1, <1>3
<1>10. (UpTo(a[2]) - Saved(Least(a[2], goal[2]), Across(a, goal)))
         - (UpTo(b[2]) - Saved(Least(b[2], goal[2]), Across(b, goal))) <= a[2]
  BY <1>1, <1>3, <1>9, SavedStep, Zenon
<1>11. QED
  BY <1>3, <1>4, <1>5, <1>7, <1>8, <1>10

\* Scaled by the unit of the moves, which the diagonal ones exceed.
LEMMA Scaled ==
  ASSUME NEW v \in Int, NEW v1 \in Int, NEW y \in Nat, v - v1 <= y,
         NEW u \in {10000, 14142}
  PROVE  y * u \in Nat /\ v * 10000 - v1 * 10000 <= y * u
<1>1. CASE u = 10000
  BY <1>1
<1>2. CASE u = 14142
  BY <1>2
<1>3. QED
  BY <1>1, <1>2

\* Octile and Manhattan distances.
LEMMA OctileStep ==
  ASSUME NEW dx \in Nat, NEW dy \in Nat, NEW dx1 \in Nat, NEW dy1 \in Nat,
         NEW u \in {10000, 14142},
         dx1 <= dx + 1, dx <= dx1 + 1, dy1 <= dy + 1, dy <= dy1 + 1,
         u = 14142 \/ dy1 = dy \/ dx1 = dx
  PROVE  (Least(dx, dy) * 14142 + (Most(dx, dy) - Least(dx, dy)) * 10000)
           - (Least(dx1, dy1) * 14142 + (Most(dx1, dy1) - Least(dx1, dy1)) * 10000) <= u
BY DEF Least, Most

LEMMA GridConsistent ==
  ASSUME NEW w, IsWorld(w), NEW s \in Free(w), NEW m \in GridExpand(w, s)
  PROVE  /\ m.to \in Free(w) /\ m.cost \in Nat
         /\ GridH(w, s) - GridH(w, m.to) <= m.cost
<1> DEFINE t == m.to
           goal == w.goal
<1>1. PICK st \in StraightSteps \cup DiagonalSteps : \E u \in {fp_one, fp_sqrt2} :
        /\ t = <<s[1] + st[1], s[2] + st[2]>>
        /\ m.cost = IF w.life THEN s[2] * u ELSE u
        /\ st \in DiagonalSteps => w.eight /\ u = fp_sqrt2
  BY MoveIs
<1>2. t \in Free(w)
  BY MoveIs
<1>3. s \in Nat \X Nat /\ t \in Nat \X Nat /\ goal \in Nat \X Nat
  BY <1>2, CellsAreNat DEF Free, IsWorld
<1>4. PICK u \in {10000, 14142} :
        /\ m.cost = IF w.life THEN s[2] * u ELSE u
        /\ st \in DiagonalSteps => w.eight /\ u = 14142
  BY <1>1 DEF fp_one, fp_sqrt2
<1>5. s[2] \in Nat
  BY <1>3
<1>6. t = <<s[1] + st[1], s[2] + st[2]>>
  BY <1>1
<1> HIDE DEF t, goal
<1>7. /\ Across(s, goal) \in Nat /\ Across(t, goal) \in Nat
      /\ Upward(s, goal) \in Nat /\ Upward(t, goal) \in Nat
      /\ Across(t, goal) <= Across(s, goal) + 1 /\ Across(s, goal) <= Across(t, goal) + 1
      /\ Upward(t, goal) <= Upward(s, goal) + 1 /\ Upward(s, goal) <= Upward(t, goal) + 1
      /\ st \in StraightSteps => \/ Upward(t, goal) = Upward(s, goal)
                                 \/ Across(t, goal) = Across(s, goal)
  BY <1>3, <1>6, Closer
<1>8. m.cost \in Nat
  BY <1>4, <1>5 DEF IsWorld
<1> SUFFICES GridH(w, s) - GridH(w, t) <= m.cost
  BY <1>2, <1>8 DEF t
<1>9. CASE w.life /\ w.eight
  <2>1. GridH(w, s) = ArcCost(s, goal) * 10000 /\ GridH(w, t) = ArcCost(t, goal) * 10000
    BY <1>9 DEF GridH, compute8, fp_one, goal
  <2>2. /\ ArcCost(s, goal) \in Int /\ ArcCost(t, goal) \in Int
        /\ ArcCost(s, goal) - ArcCost(t, goal) <= s[2]
    BY <1>3, <1>6, ArcConsistent
  <2>3. ArcCost(s, goal) * 10000 - ArcCost(t, goal) * 10000 <= s[2] * u
    BY <1>5, <2>2, Scaled
  <2>4. QED
    BY <1>4, <1>9, <2>1, <2>3
<1>10. CASE w.life /\ ~w.eight
  <2>1. GridH(w, s) = 10000 * Over(s, goal) /\ GridH(w, t) = 10000 * Over(t, goal)
    BY <1>10 DEF GridH, compute4, fp_one, goal, Over
  <2>2. st \in StraightSteps
    BY <1>4, <1>10
  <2>3. /\ Over(s, goal) \in Int /\ Over(t, goal) \in Int
        /\ Over(s, goal) - Over(t, goal) <= s[2]
    BY <1>3, <1>6, <2>2, OverConsistent
  <2>4. Over(s, goal) * 10000 - Over(t, goal) * 10000 <= s[2] * u
    BY <1>5, <2>3, Scaled
  <2>5. 10000 * Over(s, goal) = Over(s, goal) * 10000 /\ 10000 * Over(t, goal) = Over(t, goal) * 10000
    BY <2>3
  <2>6. QED
    BY <1>4, <1>10, <2>1, <2>4, <2>5
<1>11. CASE ~w.life /\ w.eight
  <2>1. ASSUME NEW a
        PROVE  GridH(w, a) = Least(Across(a, goal), Upward(a, goal)) * 14142
                 + (Most(Across(a, goal), Upward(a, goal)) - Least(Across(a, goal), Upward(a, goal)))
                     * 10000
    BY <1>11 DEF GridH, compute8, Across, Upward, fp_one, fp_sqrt2, goal
  <2>2. u = 14142 \/ Upward(t, goal) = Upward(s, goal) \/ Across(t, goal) = Across(s, goal)
    BY <1>4, <1>7
  <2>3. m.cost = u
    BY <1>4, <1>11
  <2>4. QED
    BY <1>7, <2>1, <2>2, <2>3, OctileStep
<1>12. CASE ~w.life /\ ~w.eight
  <2>1. /\ GridH(w, s) = 10000 * (Across(s, goal) + Upward(s, goal))
        /\ GridH(w, t) = 10000 * (Across(t, goal) + Upward(t, goal))
    BY <1>12 DEF GridH, compute4, Across, Upward, fp_one, goal
  <2>2. st \in StraightSteps /\ m.cost = u
    BY <1>4, <1>12
  <2>3. QED
    BY <1>4, <1>7, <2>1, <2>2
<1>13. QED
  BY <1>9, <1>10, <1>11, <1>12 DEF IsWorld

LEMMA GridAnchored ==
  ASSUME NEW w, IsWorld(w)
  PROVE  GridH(w, w.goal) = 0
<1> DEFINE goal == w.goal
<1>1. goal \in Nat \X Nat /\ goal[2] \in Nat
  BY CellsAreNat DEF IsWorld
<1> HIDE DEF goal
<1>2. Abs(goal[1] - goal[1]) = 0 /\ Abs(goal[2] - goal[2]) = 0
  <2>1. goal[1] - goal[1] = 0 /\ goal[2] - goal[2] = 0 /\ Abs(0) = 0
    BY <1>1, AbsIs
  <2>2. QED
    BY <2>1
<1>3. Across(goal, goal) = 0 /\ Upward(goal, goal) = 0
  BY <1>2 DEF Across, Upward
<1>4. \A n \in Nat : cost_from(n, n) = 0
  <2>1. \A n \in Nat : n >= n
    OBVIOUS
  <2>2. \A n \in Nat : cost_from(n, n) = UpTo(n) - UpTo(n)
    BY <2>1, CostFromIs
  <2>3. \A n \in Nat : UpTo(n) - UpTo(n) = 0
    BY UpToIs
  <2>4. QED
    BY <2>2, <2>3
<1>5. CASE w.eight /\ w.life
  <2>1. ~(0 > 0)
    OBVIOUS
  <2>2. ArcCost(goal, goal) = cost_from(goal[2], goal[2])
    BY <1>2, <2>1 DEF ArcCost
  <2>3. GridH(w, goal) = ArcCost(goal, goal) * 10000
    BY <1>5 DEF GridH, compute8, fp_one, goal
  <2>4. QED
    BY <1>1, <1>4, <2>2, <2>3 DEF goal
<1>6. CASE w.eight /\ ~w.life
  <2>1. GridH(w, goal) = Least(0, 0) * fp_sqrt2 + (Most(0, 0) - Least(0, 0)) * fp_one
    BY <1>2, <1>6 DEF GridH, compute8, goal
  <2>2. QED
    BY <2>1 DEF Least, Most, fp_one, fp_sqrt2, goal
<1>7. CASE ~w.eight /\ w.life
  <2>1. GridH(w, goal) = 10000 * Over(goal, goal)
    BY <1>7 DEF GridH, compute4, fp_one, goal, Over
  <2>2. Over(goal, goal) = (UpTo(goal[2]) + Before(goal[2])) - Saved(Least(goal[2], goal[2]), 0)
    BY <1>1, <1>3, OverIs
  <2>3. ASSUME NEW n \in Nat
        PROVE  (UpTo(n) + Before(n)) - Saved(Least(n, n), 0) = 0
    <3>1. UpTo(n) + Before(n) = n * n
      BY UpToIs
    <3>2. Least(n, n) = n
      BY DEF Least
    <3>3. Saved(n, 0) = n * n
      BY DEF Saved
    <3>4. QED
      BY <3>1, <3>2, <3>3
  <2>4. Over(goal, goal) = 0
    BY <1>1, <2>2, <2>3
  <2>5. QED
    BY <2>1, <2>4 DEF goal
<1>8. CASE ~w.eight /\ ~w.life
  <2>1. GridH(w, goal) = fp_one * (0 + 0)
    BY <1>2, <1>8 DEF GridH, compute4, goal
  <2>2. QED
    BY <2>1 DEF fp_one, goal
<1>9. QED
  BY <1>5, <1>6, <1>7, <1>8 DEF IsWorld

-----------------------------------------------------------------------------
(***************************************************************************)
(* Tiles: tables that are filled and sums over the positions.              *)
(***************************************************************************)
\* A table can be filled from its first entry on.
LEMMA TableFills ==
  ASSUME NEW n \in Nat, NEW base \in Int, NEW step \in [(1..n) \X Int -> Int]
  PROVE  \E f \in [0..n -> Int] : f[0] = base /\ \A i \in 1..n : f[i] = step[<<i, f[i - 1]>>]
<1> DEFINE FilledTo(k) == \E f \in [0..k -> Int] :
                          f[0] = base /\ \A i \in 1..k : f[i] = step[<<i, f[i - 1]>>]
           T == {k \in 0..n : ~FilledTo(k)}
<1>1. CASE T = {}
  <2>1. n \in 0..n
    OBVIOUS
  <2>2. FilledTo(n)
    BY <1>1, <2>1
  <2>3. QED
    BY <2>2
<1>2. CASE T # {}
  <2>1. PICK m \in T : \A k \in T : m <= k
    <3>1. T \in SUBSET Nat
      OBVIOUS
    <3>2. QED
      BY <1>2, <3>1, LeastNatural
  <2>2. m \in 0..n /\ ~FilledTo(m) /\ \A k \in 0..n : ~FilledTo(k) => m <= k
    BY <2>1
  <2> HIDE DEF T
  <2>3. m # 0
    <3> SUFFICES FilledTo(0)
      BY <2>2
    <3> DEFINE z == [i \in 0..0 |-> base]
    <3>1. z \in [0..0 -> Int] /\ z[0] = base /\ 1..0 = {}
      OBVIOUS
    <3> HIDE DEF z
    <3>2. QED
      BY <3>1
  <2>4. m - 1 \in 0..n /\ ~(m <= m - 1)
    BY <2>2, <2>3
  <2>5. FilledTo(m - 1)
    BY <2>2, <2>4
  <2>6. PICK f \in [0..(m - 1) -> Int] :
          f[0] = base /\ \A i \in 1..(m - 1) : f[i] = step[<<i, f[i - 1]>>]
    BY <2>5
  <2> DEFINE e == [i \in 0..m |-> IF i = m THEN step[<<m, f[m - 1]>>] ELSE f[i]]
  <2>7. f[m - 1] \in Int /\ <<m, f[m - 1]>> \in (1..n) \X Int
    BY <2>2, <2>3
  <2>8. e \in [0..m -> Int]
    BY <2>2, <2>7
  <2>9. e[0] = base
    BY <2>2, <2>3, <2>6
  <2>10. ASSUME NEW i \in 1..m PROVE e[i] = step[<<i, e[i - 1]>>]
    <3>1. e[i - 1] = f[i - 1]
      BY <2>2
    <3>2. CASE i = m
      <4>1. m \in 0..m
        BY <2>2
      <4>2. e[m] = step[<<m, f[m - 1]>>]
        BY <4>1
      <4> HIDE DEF e
      <4>3. QED
        BY <3>1, <3>2, <4>2
    <3>3. CASE i # m
      <4>1. i \in 1..(m - 1) /\ e[i] = f[i]
        BY <2>2, <3>3
      <4>2. QED
        BY <2>6, <3>1, <4>1
    <3>4. QED
      BY <3>2, <3>3
  <2> HIDE DEF e
  <2>11. FilledTo(m)
    BY <2>8, <2>9, <2>10
  <2>12. QED
    BY <2>2, <2>11
<1>3. QED
  BY <1>1, <1>2

\* A property that holds at 0 and that goes from each number to the next one
\* holds up to n.
LEMMA UpwardSet ==
  ASSUME NEW n \in Nat, NEW S, 0 \in S, \A i \in 1..n : i - 1 \in S => i \in S
  PROVE  0..n \subseteq S
<1> DEFINE T == {k \in 0..n : k \notin S}
<1> SUFFICES ASSUME T # {} PROVE FALSE
  OBVIOUS
<1>1. T \in SUBSET Nat
  OBVIOUS
<1>2. PICK m \in T : \A k \in T : m <= k
  BY <1>1, LeastNatural
<1>3. m \in 0..n /\ m \notin S /\ \A k \in 0..n : k \notin S => m <= k
  BY <1>2
<1> HIDE DEF T
<1>4. m # 0 /\ m \in 1..n /\ m - 1 \in 0..n /\ ~(m <= m - 1)
  BY <1>3
<1>5. QED
  BY <1>3, <1>4

LEMMA SquaresIs ==
  /\ Squares \in Nat /\ Squares # 0 /\ 0 \in Positions
  /\ \A p : p \in Positions <=> p \in Nat /\ p < Squares
  /\ TileWidth \in Nat /\ TileHeight \in Nat /\ TileWidth # 0 /\ TileHeight # 0
  /\ TileGoal \in Boards
<1>1. /\ TileWidth \in Nat /\ TileHeight \in Nat /\ TileWidth # 0 /\ TileHeight # 0
  BY TilesAssumption
<1>2. TileWidth * TileHeight \in Nat /\ TileWidth * TileHeight # 0
  BY <1>1
<1>3. Squares \in Nat /\ Squares # 0
  BY <1>2 DEF Squares
<1>4. TileGoal \in Boards
  BY TilesAssumption DEF Boards, Positions, Squares
<1>5. QED
  BY <1>1, <1>3, <1>4 DEF Positions

\* The partial sums of a function on the positions.
Sums(f) ==
  CHOOSE sum : sum = [n \in 0..Squares |-> IF n = 0 THEN 0 ELSE sum[n - 1] + f[n - 1]]

LEMMA SumsIs ==
  ASSUME NEW f \in [Positions -> Int]
  PROVE  /\ Sums(f) \in [0..Squares -> Int]
         /\ Sums(f)[0] = 0
         /\ \A n \in 1..Squares : Sums(f)[n] = Sums(f)[n - 1] + f[n - 1]
         /\ SumOf(f) = Sums(f)[Squares]
<1> DEFINE Body(fs) == [n \in 0..Squares |-> IF n = 0 THEN 0 ELSE fs[n - 1] + f[n - 1]]
           step == [x \in (1..Squares) \X Int |-> x[2] + f[x[1] - 1]]
<1>0. Squares \in Nat /\ \A i \in 1..Squares : i - 1 \in Positions
  BY SquaresIs
<1>1. step \in [(1..Squares) \X Int -> Int]
  BY <1>0
<1>2. PICK e \in [0..Squares -> Int] :
        e[0] = 0 /\ \A i \in 1..Squares : e[i] = step[<<i, e[i - 1]>>]
  <2> HIDE DEF step
  <2>1. Squares \in Nat /\ 0 \in Int
    BY <1>0
  <2>2. QED
    BY <1>1, <2>1, TableFills, Zenon
<1>3. \A i \in 1..Squares : e[i] = e[i - 1] + f[i - 1]
  <2>1. \A i \in 1..Squares : e[i - 1] \in Int
    BY <1>0
  <2>2. QED
    BY <1>2, <2>1
<1> HIDE DEF step
<1>4. e = Body(e)
  BY <1>0, <1>2, <1>3
<1>5. Sums(f) = CHOOSE fs : fs = Body(fs)
  BY DEF Sums
<1>6. Sums(f) = Body(Sums(f))
  BY <1>4, <1>5
<1> DEFINE fs == Sums(f)
<1>7. fs[0] = 0 /\ \A n \in 1..Squares : fs[n] = fs[n - 1] + f[n - 1]
  BY <1>0, <1>6
<1>8. DOMAIN fs = 0..Squares /\ fs = [n \in 0..Squares |-> fs[n]]
  BY <1>6
<1>9. SumOf(f) = fs[Squares]
  BY DEF SumOf, Sums
<1> HIDE DEF fs
<1>10. \A n \in 0..Squares : fs[n] \in Int
  <2> DEFINE S == {n \in 0..Squares : fs[n] \in Int}
  <2>1. 0 \in S
    BY <1>0, <1>7
  <2>2. \A i \in 1..Squares : i - 1 \in S => i \in S
    <3>1. \A i \in 1..Squares : f[i - 1] \in Int
      BY <1>0
    <3>2. QED
      BY <1>0, <1>7, <3>1
  <2> HIDE DEF S
  <2>3. 0..Squares \subseteq S
    BY <1>0, <2>1, <2>2, UpwardSet
  <2>4. QED
    BY <2>3 DEF S
<1>11. fs \in [0..Squares -> Int]
  BY <1>8, <1>10
<1>12. QED
  BY <1>7, <1>9, <1>11 DEF fs

\* What two different positions add to a sum.
LEMMA SumChanges ==
  ASSUME NEW f \in [Positions -> Int], NEW e \in [Positions -> Int],
         NEW a \in Positions, NEW b \in Positions, a # b,
         \A p \in Positions \ {a, b} : e[p] = f[p]
  PROVE  SumOf(e) = SumOf(f) + ((e[a] - f[a]) + (e[b] - f[b]))
<1> DEFINE fs == Sums(f)
           es == Sums(e)
           D(n) == (IF a < n THEN e[a] - f[a] ELSE 0) + (IF b < n THEN e[b] - f[b] ELSE 0)
           S == {n \in 0..Squares : es[n] = fs[n] + D(n)}
<1>0. /\ Squares \in Nat /\ \A i \in 1..Squares : i - 1 \in Positions
      /\ a \in Nat /\ b \in Nat /\ a < Squares /\ b < Squares
  BY SquaresIs
<1>1. /\ fs \in [0..Squares -> Int] /\ fs[0] = 0 /\ SumOf(f) = fs[Squares]
      /\ \A n \in 1..Squares : fs[n] = fs[n - 1] + f[n - 1]
  BY SumsIs
<1>2. /\ es \in [0..Squares -> Int] /\ es[0] = 0 /\ SumOf(e) = es[Squares]
      /\ \A n \in 1..Squares : es[n] = es[n - 1] + e[n - 1]
  BY SumsIs
<1> HIDE DEF fs, es
<1>3. 0 \in S
  BY <1>0, <1>1, <1>2
<1>4. ASSUME NEW n \in 1..Squares, n - 1 \in S PROVE n \in S
  <2>1. fs[n] = fs[n - 1] + f[n - 1] /\ es[n] = es[n - 1] + e[n - 1]
    BY <1>1, <1>2
  <2>2. fs[n - 1] \in Int /\ n - 1 \in Positions /\ n \in Nat
    BY <1>0, <1>1
  <2>3. es[n - 1] = fs[n - 1] + D(n - 1)
    BY <1>4
  <2>4. f[n - 1] \in Int /\ e[n - 1] \in Int /\ f[a] \in Int /\ e[a] \in Int
        /\ f[b] \in Int /\ e[b] \in Int
    BY <2>2
  <2>5. D(n) = D(n - 1) + (e[n - 1] - f[n - 1])
    <3>1. CASE n - 1 = a
      <4>1. a < n /\ ~(a < n - 1) /\ (b < n <=> b < n - 1)
        BY <1>0, <2>2, <3>1
      <4>2. QED
        BY <2>4, <3>1, <4>1
    <3>2. CASE n - 1 = b
      <4>1. b < n /\ ~(b < n - 1) /\ (a < n <=> a < n - 1)
        BY <1>0, <2>2, <3>2
      <4>2. QED
        BY <2>4, <3>2, <4>1
    <3>3. CASE n - 1 # a /\ n - 1 # b
      <4>1. (b < n <=> b < n - 1) /\ (a < n <=> a < n - 1)
        BY <1>0, <2>2, <3>3
      <4>2. e[n - 1] = f[n - 1]
        BY <2>2, <3>3
      <4>3. QED
        BY <2>4, <4>1, <4>2
    <3>4. QED
      BY <3>1, <3>2, <3>3
  <2>6. D(n - 1) \in Int
    BY <2>4
  <2> HIDE DEF D
  <2>7. es[n] = fs[n] + D(n)
    BY <2>1, <2>2, <2>3, <2>4, <2>5, <2>6
  <2>8. QED
    BY <2>7
<1>5. Squares \in S
  <2> HIDE DEF S
  <2>1. 0..Squares \subseteq S
    BY <1>0, <1>3, <1>4, UpwardSet
  <2>2. QED
    BY <1>0, <2>1
<1>6. D(Squares) = (e[a] - f[a]) + (e[b] - f[b])
  BY <1>0
<1> HIDE DEF D
<1>7. QED
  BY <1>1, <1>2, <1>5, <1>6

\* A sum of natural numbers is 0 only when all of them are.
LEMMA SumIsZero ==
  ASSUME NEW f \in [Positions -> Nat]
  PROVE  SumOf(f) \in Nat /\ (SumOf(f) = 0 <=> \A p \in Positions : f[p] = 0)
<1> DEFINE fs == Sums(f)
           S == {n \in 0..Squares : /\ fs[n] \in Nat
                                    /\ fs[n] = 0 <=> \A p \in 0..(n - 1) : f[p] = 0}
<1>0. /\ Squares \in Nat /\ \A i \in 1..Squares : i - 1 \in Positions
  BY SquaresIs
<1>1. /\ fs \in [0..Squares -> Int] /\ fs[0] = 0 /\ SumOf(f) = fs[Squares]
      /\ \A n \in 1..Squares : fs[n] = fs[n - 1] + f[n - 1]
  <2>1. f \in [Positions -> Int]
    OBVIOUS
  <2>2. QED
    BY <2>1, SumsIs
<1> HIDE DEF fs
<1>2. 0 \in S
  BY <1>0, <1>1
<1>3. ASSUME NEW n \in 1..Squares, n - 1 \in S PROVE n \in S
  <2>1. fs[n] = fs[n - 1] + f[n - 1] /\ f[n - 1] \in Nat /\ fs[n - 1] \in Nat
    BY <1>0, <1>1, <1>3
  <2>2. fs[n] \in Nat /\ (fs[n] = 0 <=> fs[n - 1] = 0 /\ f[n - 1] = 0)
    BY <2>1
  <2>3. 0..(n - 1) = (0..((n - 1) - 1)) \cup {n - 1}
    BY <1>0
  <2>4. fs[n - 1] = 0 <=> \A p \in 0..((n - 1) - 1) : f[p] = 0
    BY <1>3
  <2>5. fs[n] = 0 <=> \A p \in 0..(n - 1) : f[p] = 0
    BY <2>2, <2>3, <2>4
  <2>6. QED
    BY <2>2, <2>5
<1>4. Squares \in S
  <2> HIDE DEF S
  <2>1. 0..Squares \subseteq S
    BY <1>0, <1>2, <1>3, UpwardSet
  <2>2. QED
    BY <1>0, <2>1
<1>5. QED
  BY <1>1, <1>4 DEF Positions

-----------------------------------------------------------------------------
\* Columns and rows.
LEMMA ColRow ==
  ASSUME NEW p \in Positions
  PROVE  /\ Col(p) \in Nat /\ Col(p) < TileWidth
         /\ Row(p) \in Nat /\ Row(p) < TileHeight
         /\ p = TileWidth * Row(p) + Col(p)
<1> DEFINE w == TileWidth
           v == TileHeight
<1>1. p \in Nat /\ p < w * v /\ w \in Nat /\ w # 0 /\ v \in Nat
  BY SquaresIs DEF Squares
<1> HIDE DEF w, v
<1>2. p \div w \in Nat /\ p % w \in Nat /\ p % w < w /\ p = w * (p \div w) + (p % w)
  BY <1>1
<1>3. p \div w < v
  <2> SUFFICES ASSUME p \div w >= v PROVE FALSE
    BY <1>1, <1>2
  <2>1. w * (p \div w) >= w * v
    BY <1>1, <1>2
  <2>2. QED
    BY <1>1, <1>2, <2>1
<1>4. QED
  BY <1>2, <1>3 DEF Col, Row, w, v

LEMMA ColRowIs ==
  ASSUME NEW x \in Nat, x < TileWidth, NEW y \in Nat, y < TileHeight
  PROVE  /\ TileWidth * y + x \in Positions
         /\ Col(TileWidth * y + x) = x /\ Row(TileWidth * y + x) = y
<1> DEFINE w == TileWidth
           v == TileHeight
           p == w * y + x
<1>1. w \in Nat /\ v \in Nat /\ w # 0 /\ Squares = w * v
  BY SquaresIs DEF Squares
<1>2. w * y + x \in Nat /\ w * (y + 1) <= w * v /\ w * (y + 1) = w * y + w
  BY <1>1
<1>3. w * y + x < w * v
  BY <1>1, <1>2
<1>4. w * y + x \in Positions
  BY <1>1, <1>2, <1>3, SquaresIs
<1> HIDE DEF w, v
<1>5. x < w
  BY DEF w
<1>6. (w * y + x) % w = x /\ (w * y + x) \div w = y
  <2> DEFINE q == (w * y + x) \div w
             r == (w * y + x) % w
  <2>1. q \in Nat /\ r \in Nat /\ r < w /\ w * y + x = w * q + r
    BY <1>1, <1>2
  <2> HIDE DEF q, r
  <2>2. ~(q > y)
    <3> SUFFICES ASSUME q >= y + 1 PROVE FALSE
      BY <2>1
    <3>1. w * q >= w * (y + 1)
      BY <1>1, <2>1
    <3>2. QED
      BY <1>1, <1>2, <1>5, <2>1, <3>1
  <2>3. ~(q < y)
    <3> SUFFICES ASSUME y >= q + 1 PROVE FALSE
      BY <2>1
    <3>1. w * y >= w * (q + 1) /\ w * (q + 1) = w * q + w
      BY <1>1, <2>1
    <3>2. QED
      BY <1>1, <1>2, <1>5, <2>1, <3>1
  <2>4. q = y /\ r = x
    BY <1>1, <2>1, <2>2, <2>3
  <2>5. QED
    BY <2>4 DEF q, r
<1>7. QED
  BY <1>4, <1>6 DEF Col, Row, w

LEMMA ApartIs ==
  ASSUME NEW p \in Positions, NEW q \in Positions
  PROVE  /\ Apart(p, q) = (IF Col(p) < Col(q) THEN Col(q) - Col(p) ELSE Col(p) - Col(q))
                        + (IF Row(p) < Row(q) THEN Row(q) - Row(p) ELSE Row(p) - Row(q))
         /\ Apart(p, q) \in Nat
         /\ Apart(p, q) = 0 <=> p = q
<1>1. /\ Col(p) \in Nat /\ Row(p) \in Nat /\ Col(q) \in Nat /\ Row(q) \in Nat
      /\ p = TileWidth * Row(p) + Col(p) /\ q = TileWidth * Row(q) + Col(q)
  BY ColRow
<1>2. Apart(p, q) = (IF Col(p) < Col(q) THEN Col(q) - Col(p) ELSE Col(p) - Col(q))
                      + (IF Row(p) < Row(q) THEN Row(q) - Row(p) ELSE Row(p) - Row(q))
  BY DEF Apart
<1>3. Apart(p, q) = 0 <=> Col(p) = Col(q) /\ Row(p) = Row(q)
  BY <1>1, <1>2
<1>4. Apart(p, q) \in Nat
  BY <1>1, <1>2
<1>5. Col(p) = Col(q) /\ Row(p) = Row(q) => p = q
  BY <1>1, Zenon
<1>6. QED
  BY <1>2, <1>3, <1>4, <1>5

\* A position beside another is one step from it.
LEMMA BesideIs ==
  ASSUME NEW p \in Positions, NEW q \in Beside(p)
  PROVE  /\ q \in Positions /\ q # p
         /\ \/ Row(q) = Row(p) /\ (Col(q) = Col(p) + 1 \/ Col(p) = Col(q) + 1)
            \/ Col(q) = Col(p) /\ (Row(q) = Row(p) + 1 \/ Row(p) = Row(q) + 1)
<1> DEFINE w == TileWidth
           x == Col(p)
           y == Row(p)
<1>1. /\ x \in Nat /\ x < w /\ y \in Nat /\ y < TileHeight /\ p = w * y + x
      /\ w \in Nat /\ TileHeight \in Nat
  BY ColRow, SquaresIs
<1>2. /\ w * (y + 1) = w * y + w /\ w * (y - 1) = w * y - w /\ w * y \in Int
  BY <1>1
<1>3. ASSUME NEW x1 \in Nat, x1 < w, NEW y1 \in Nat, y1 < TileHeight
      PROVE  w * y1 + x1 \in Positions /\ Col(w * y1 + x1) = x1 /\ Row(w * y1 + x1) = y1
  BY <1>3, ColRowIs
<1>4. CASE x > 0 /\ q = p - 1
  <2>1. q = w * y + (x - 1)
    BY <1>1, <1>2, <1>4
  <2>2. x - 1 \in Nat /\ x - 1 < w
    BY <1>1, <1>4
  <2>3. q \in Positions /\ Col(q) = x - 1 /\ Row(q) = y
    BY <1>1, <1>3, <2>1, <2>2
  <2>4. QED
    BY <1>1, <2>3
<1>5. CASE x < w - 1 /\ q = p + 1
  <2>1. q = w * y + (x + 1)
    BY <1>1, <1>2, <1>5
  <2>2. x + 1 \in Nat /\ x + 1 < w
    BY <1>1, <1>5
  <2>3. q \in Positions /\ Col(q) = x + 1 /\ Row(q) = y
    BY <1>1, <1>3, <2>1, <2>2
  <2>4. QED
    BY <1>1, <2>3
<1>6. CASE y > 0 /\ q = p - w
  <2>1. q = w * (y - 1) + x
    BY <1>1, <1>2, <1>6
  <2>2. y - 1 \in Nat /\ y - 1 < TileHeight
    BY <1>1, <1>6
  <2>3. q \in Positions /\ Col(q) = x /\ Row(q) = y - 1
    BY <1>1, <1>3, <2>1, <2>2
  <2>4. QED
    BY <1>1, <2>3
<1>7. CASE y < TileHeight - 1 /\ q = p + w
  <2>1. q = w * (y + 1) + x
    BY <1>1, <1>2, <1>7
  <2>2. y + 1 \in Nat /\ y + 1 < TileHeight
    BY <1>1, <1>7
  <2>3. q \in Positions /\ Col(q) = x /\ Row(q) = y + 1
    BY <1>1, <1>3, <2>1, <2>2
  <2>4. QED
    BY <1>1, <2>3
<1>8. QED
  BY <1>4, <1>5, <1>6, <1>7 DEF Beside

LEMMA ApartStep ==
  ASSUME NEW p \in Positions, NEW q \in Beside(p), NEW r \in Positions
  PROVE  Apart(r, q) <= Apart(r, p) + 1
<1>1. /\ q \in Positions
      /\ \/ Row(q) = Row(p) /\ (Col(q) = Col(p) + 1 \/ Col(p) = Col(q) + 1)
         \/ Col(q) = Col(p) /\ (Row(q) = Row(p) + 1 \/ Row(p) = Row(q) + 1)
  BY BesideIs
<1>2. /\ Col(p) \in Nat /\ Row(p) \in Nat /\ Col(q) \in Nat /\ Row(q) \in Nat
      /\ Col(r) \in Nat /\ Row(r) \in Nat
  BY <1>1, ColRow
<1>3. /\ Apart(r, q) = (IF Col(r) < Col(q) THEN Col(q) - Col(r) ELSE Col(r) - Col(q))
                      + (IF Row(r) < Row(q) THEN Row(q) - Row(r) ELSE Row(r) - Row(q))
      /\ Apart(r, p) = (IF Col(r) < Col(p) THEN Col(p) - Col(r) ELSE Col(r) - Col(p))
                      + (IF Row(r) < Row(p) THEN Row(p) - Row(r) ELSE Row(r) - Row(p))
  BY <1>1, ApartIs
<1>4. QED
  BY <1>1, <1>2, <1>3

-----------------------------------------------------------------------------
\* Every tile lies in exactly one place of a board.
LEMMA BoardIs ==
  ASSUME NEW board \in Boards
  PROVE  /\ board \in [Positions -> Positions]
         /\ \A p, q \in Positions : board[p] = board[q] => p = q
         /\ \A tile \in Positions : At(board, tile) \in Positions /\ board[At(board, tile)] = tile
<1>1. /\ board \in [Positions -> Positions]
      /\ \A p, q \in Positions : board[p] = board[q] => p = q
  BY DEF Boards, Injection, IsInjective
<1>2. IsFiniteSet(Positions)
  BY SquaresIs, FS_Interval DEF Positions
<1>3. board \in Surjection(Positions, Positions)
  BY <1>2, FS_Injection DEF Boards
<1>4. \A tile \in Positions : \E p \in Positions : board[p] = tile
  BY <1>3 DEF Surjection
<1>5. QED
  BY <1>1, <1>4 DEF At

LEMMA AtIs ==
  ASSUME NEW board \in Boards, NEW p \in Positions
  PROVE  At(board, board[p]) = p
<1>1. board[p] \in Positions
  BY BoardIs
<1>2. At(board, board[p]) \in Positions /\ board[At(board, board[p])] = board[p]
  BY <1>1, BoardIs
<1>3. QED
  BY <1>2, BoardIs

\* A move swaps the blank and a tile.
LEMMA ChildIs ==
  ASSUME NEW board \in Boards, NEW n \in Positions, NEW o \in Positions,
         n # o, board[o] = 0
  PROVE  /\ TileChild(board, o, n) \in Boards
         /\ TileChild(board, o, n)[o] = board[n]
         /\ TileChild(board, o, n)[n] = 0
         /\ \A p \in Positions \ {n, o} : TileChild(board, o, n)[p] = board[p]
         /\ Blank(TileChild(board, o, n)) = n
<1> DEFINE child == TileChild(board, o, n)
<1>1. /\ board \in [Positions -> Positions]
      /\ \A p, q \in Positions : board[p] = board[q] => p = q
  BY BoardIs
<1>2. /\ child \in [Positions -> Positions]
      /\ child[o] = board[n] /\ child[n] = 0
      /\ \A p \in Positions \ {n, o} : child[p] = board[p]
  BY <1>1, SquaresIs DEF TileChild
<1> HIDE DEF child
<1>3. ASSUME NEW p \in Positions, NEW q \in Positions, child[p] = child[q]
      PROVE  p = q
  <2> DEFINE From(r) == IF r = o THEN n ELSE IF r = n THEN o ELSE r
  <2>1. \A r \in Positions : From(r) \in Positions /\ child[r] = board[From(r)]
    BY <1>2
  <2>2. From(p) = From(q)
    BY <1>1, <1>3, <2>1
  <2>3. QED
    BY <2>2
<1>4. child \in Boards
  BY <1>2, <1>3 DEF Boards, Injection, IsInjective
<1>5. Blank(child) = n
  BY <1>2, <1>4, AtIs DEF Blank
<1>6. QED
  BY <1>2, <1>4, <1>5 DEF child

-----------------------------------------------------------------------------
(***************************************************************************)
(* Tiles: the heuristic value.                                             *)
(***************************************************************************)
LEMMA CostIs ==
  ASSUME NEW fun, IsCost(fun), NEW tile \in Positions, tile # 0
  PROVE  CostOf(fun, tile) \in Nat /\ CostOf(fun, tile) # 0
<1>1. tile \in Nat /\ tile > 0 /\ tile < Squares /\ Squares \in Nat
  BY SquaresIs
<1>2. CASE fun = "unit"
  BY <1>2 DEF CostOf
<1>3. CASE fun = "sqrt"
  <2>1. tile \in 1..8
    BY <1>1, <1>3 DEF IsCost
  <2>2. \A k \in 1..8 : SqrtCost[k] \in Nat /\ SqrtCost[k] # 0
    <3>1. \A k \in 1..8 : k = 1 \/ k = 2 \/ k = 3 \/ k = 4 \/ k = 5 \/ k = 6 \/ k = 7 \/ k = 8
      OBVIOUS
    <3>2. QED
      BY <3>1 DEF SqrtCost
  <2>3. CostOf(fun, tile) = SqrtCost[tile]
    BY <1>3 DEF CostOf
  <2>4. QED
    BY <2>1, <2>2, <2>3
<1>4. CASE fun = "inverse"
  <2>1. tile <= 10000
    BY <1>1, <1>4 DEF IsCost
  <2>2. 10000 \div tile \in Nat /\ 10000 \div tile # 0
    <3> DEFINE q == 10000 \div tile
    <3>1. q \in Nat /\ 10000 % tile < tile /\ 10000 = tile * q + (10000 % tile)
      BY <1>1
    <3>2. CASE q = 0
      <4>1. tile * q = 0
        BY <1>1, <3>2
      <4>2. QED
        BY <1>1, <2>1, <3>1, <4>1
    <3>3. QED
      BY <3>1, <3>2
  <2>3. CostOf(fun, tile) = 10000 \div tile
    BY <1>4 DEF CostOf
  <2>4. QED
    BY <2>2, <2>3
<1>5. QED
  BY <1>2, <1>3, <1>4 DEF IsCost

\* The distance of a tile times its cost, which is 0 at its goal only.
LEMMA LookupIs ==
  ASSUME NEW fun, IsCost(fun), NEW tile \in Positions, tile # 0, NEW p \in Positions
  PROVE  /\ lookup_dist(fun, tile, p) \in Nat
         /\ lookup_dist(fun, tile, p) = 0 <=> TileGoal[p] = tile
<1> DEFINE q == At(TileGoal, tile)
<1>1. q \in Positions /\ TileGoal[q] = tile
  BY SquaresIs, BoardIs
<1>2. CostOf(fun, tile) \in Nat /\ CostOf(fun, tile) # 0
  BY CostIs
<1>3. Apart(q, p) \in Nat /\ (Apart(q, p) = 0 <=> q = p)
  BY <1>1, ApartIs
<1>4. q = p <=> TileGoal[p] = tile
  BY <1>1, SquaresIs, BoardIs
<1>5. lookup_dist(fun, tile, p) = Apart(q, p) * CostOf(fun, tile)
  BY DEF lookup_dist
<1>6. \A a, b \in Nat : b # 0 => a * b \in Nat /\ (a * b = 0 <=> a = 0)
  <2>1. ASSUME NEW a \in Nat, NEW b \in Nat, b # 0 PROVE a * b \in Nat /\ (a * b = 0 <=> a = 0)
    <3>1. a = 0 \/ a * b >= b
      BY <2>1
    <3>2. QED
      BY <2>1, <3>1
  <2>2. QED
    BY <2>1
<1> HIDE DEF q
<1>7. QED
  BY <1>2, <1>3, <1>4, <1>5, <1>6

Terms(board, fun) ==
  [p \in Positions |-> IF board[p] = 0 THEN 0 ELSE lookup_dist(fun, board[p], p)]

LEMMA TermsIs ==
  ASSUME NEW board \in Boards, NEW fun, IsCost(fun)
  PROVE  /\ Terms(board, fun) \in [Positions -> Nat]
         /\ \A p \in Positions : board[p] = 0 => Terms(board, fun)[p] = 0
         /\ \A p \in Positions :
              board[p] # 0 => /\ Terms(board, fun)[p] = lookup_dist(fun, board[p], p)
                              /\ Terms(board, fun)[p] = 0 <=> TileGoal[p] = board[p]
         /\ compute_full(board, fun) = SumOf(Terms(board, fun))
<1>1. \A p \in Positions : board[p] \in Positions
  BY BoardIs
<1>2. \A p \in Positions : board[p] # 0 =>
        /\ lookup_dist(fun, board[p], p) \in Nat
        /\ lookup_dist(fun, board[p], p) = 0 <=> TileGoal[p] = board[p]
  BY <1>1, LookupIs
<1>3. QED
  BY <1>2 DEF Terms, compute_full

\* It is a natural number, and 0 at the goal board only.
LEMMA TilesAnchored ==
  ASSUME NEW board \in Boards, NEW fun, IsCost(fun)
  PROVE  /\ compute_full(board, fun) \in Nat
         /\ compute_full(board, fun) = 0 <=> board = TileGoal
<1> DEFINE f == Terms(board, fun)
<1>1. /\ f \in [Positions -> Nat] /\ compute_full(board, fun) = SumOf(f)
      /\ \A p \in Positions : board[p] = 0 => f[p] = 0
      /\ \A p \in Positions : board[p] # 0 => (f[p] = 0 <=> TileGoal[p] = board[p])
  BY TermsIs
<1> HIDE DEF f
<1>2. SumOf(f) \in Nat /\ (SumOf(f) = 0 <=> \A p \in Positions : f[p] = 0)
  BY <1>1, SumIsZero
<1>3. board = TileGoal => \A p \in Positions : f[p] = 0
  BY <1>1
<1>4. ASSUME \A p \in Positions : f[p] = 0
      PROVE  board = TileGoal
  <2>0. TileGoal \in Boards
    BY SquaresIs
  <2>1. board \in [Positions -> Positions] /\ TileGoal \in [Positions -> Positions]
    BY <2>0, BoardIs
  <2>2. \A p \in Positions : board[p] # 0 => TileGoal[p] = board[p]
    BY <1>1, <1>4
  <2>3. ASSUME NEW p \in Positions, board[p] = 0 PROVE TileGoal[p] = 0
    <3>1. PICK q \in Positions : TileGoal[q] = 0
      BY <2>0, SquaresIs, BoardIs
    <3>2. board[q] = 0
      BY <2>2, <3>1
    <3>3. p = q
      BY <2>3, <3>2, BoardIs
    <3>4. QED
      BY <3>1, <3>3
  <2>4. QED
    BY <2>1, <2>2, <2>3
<1>5. QED
  BY <1>1, <1>2, <1>3, <1>4

\* The difference that a move makes is the one that compute_incr adds, and the
\* move costs at least what it takes away.
LEMMA TilesConsistent ==
  ASSUME NEW board \in Boards, NEW fun, IsCost(fun), NEW gpos,
         NEW m \in TileExpand(board, gpos, fun)
  PROVE  /\ m.to \in Boards /\ m.cost \in Nat
         /\ compute_incr(m.to, board, compute_full(board, fun), fun)
              = compute_full(m.to, fun)
         /\ compute_full(board, fun) - compute_full(m.to, fun) <= m.cost
<1> DEFINE o == Blank(board)
<1>1. PICK n \in Beside(o) : m = [to |-> TileChild(board, o, n), cost |-> CostOf(fun, board[n])]
  BY DEF TileExpand
<1> DEFINE child == TileChild(board, o, n)
           tile == board[n]
<1>2. o \in Positions /\ board[o] = 0
  BY SquaresIs, BoardIs DEF Blank
<1> HIDE DEF o
<1>3. n \in Positions /\ n # o
  BY <1>2, BesideIs
<1>4. /\ child \in Boards /\ child[o] = tile /\ child[n] = 0 /\ Blank(child) = n
      /\ \A p \in Positions \ {n, o} : child[p] = board[p]
  BY <1>2, <1>3, ChildIs
<1>5. m.to = child /\ m.cost = CostOf(fun, tile)
  BY <1>1
<1>6. tile \in Positions /\ tile # 0
  BY <1>2, <1>3, BoardIs
<1> HIDE DEF child, tile
<1> DEFINE f == Terms(board, fun)
           e == Terms(child, fun)
           away == lookup_dist(fun, tile, n)
           near == lookup_dist(fun, tile, o)
<1>7. /\ f \in [Positions -> Nat] /\ compute_full(board, fun) = SumOf(f)
      /\ f[o] = 0 /\ f[n] = away
  BY <1>2, <1>3, <1>6, TermsIs DEF tile
<1>8. /\ e \in [Positions -> Nat] /\ compute_full(child, fun) = SumOf(e)
      /\ e[n] = 0 /\ e[o] = near
  <2>1. child[o] # 0
    BY <1>4, <1>6
  <2>2. QED
    BY <1>2, <1>3, <1>4, <2>1, TermsIs
<1>9. \A p \in Positions \ {n, o} : e[p] = f[p]
  BY <1>4 DEF Terms
<1>10. away \in Nat /\ near \in Nat
  BY <1>2, <1>3, <1>6, LookupIs
<1> HIDE DEF f, e
<1>11. SumOf(e) = SumOf(f) + ((e[n] - f[n]) + (e[o] - f[o]))
  <2>1. f \in [Positions -> Int] /\ e \in [Positions -> Int]
    BY <1>7, <1>8
  <2>2. QED
    BY <1>2, <1>3, <1>9, <2>1, SumChanges
<1>12. SumOf(f) \in Nat
  BY <1>7, SumIsZero
<1>13. away <= near + CostOf(fun, tile)
  <2> DEFINE q == At(TileGoal, tile)
             k == CostOf(fun, tile)
  <2>1. q \in Positions
    BY <1>6, SquaresIs, BoardIs
  <2>2. k \in Nat
    BY <1>6, CostIs
  <2>3. Apart(q, n) <= Apart(q, o) + 1 /\ Apart(q, n) \in Nat /\ Apart(q, o) \in Nat
    BY <1>2, <1>3, <2>1, ApartStep, ApartIs
  <2>4. away = Apart(q, n) * k /\ near = Apart(q, o) * k
    BY DEF lookup_dist
  <2> HIDE DEF q, k, away, near
  <2>5. \A a, b \in Nat : a <= b + 1 => a * k <= b * k + k
    <3>1. ASSUME NEW a \in Nat, NEW b \in Nat, a <= b + 1 PROVE a * k <= b * k + k
      <4>1. a * k <= (b + 1) * k /\ (b + 1) * k = b * k + k
        BY <2>2, <3>1
      <4>2. QED
        BY <4>1
    <3>2. QED
      BY <3>1
  <2>6. away <= near + k
    BY <2>3, <2>4, <2>5
  <2>7. QED
    BY <2>6 DEF k
<1>14. compute_incr(child, board, compute_full(board, fun), fun) = SumOf(f) + (near - away)
  BY <1>4, <1>7 DEF compute_incr, tile, o
<1>15. CostOf(fun, tile) \in Nat
  BY <1>6, CostIs
<1> HIDE DEF away, near
<1>16. SumOf(e) = SumOf(f) + (near - away)
  BY <1>7, <1>8, <1>10, <1>11, <1>12
<1>17. SumOf(f) - SumOf(e) <= CostOf(fun, tile)
  BY <1>10, <1>12, <1>13, <1>15, <1>16
<1>18. QED
  BY <1>4, <1>5, <1>7, <1>8, <1>14, <1>15, <1>16, <1>17

-----------------------------------------------------------------------------
(***************************************************************************)
(* The domains' hash values.  The hash value of a board is a number in the *)
(* factorial system: its digit at a position is the number of smaller      *)
(* tiles before it.                                                        *)
(***************************************************************************)
LEMMA FactIs ==
  /\ fact_ary[0] = 1
  /\ \A i \in 1..Squares : fact_ary[i] = i * fact_ary[i - 1]
  /\ \A i \in 0..Squares : fact_ary[i] \in Nat /\ fact_ary[i] # 0
<1> DEFINE Body(fs) == [n \in 0..Squares |-> IF n = 0 THEN 1 ELSE n * fs[n - 1]]
           step == [x \in (1..Squares) \X Int |-> x[1] * x[2]]
<1>0. Squares \in Nat
  BY SquaresIs
<1>1. step \in [(1..Squares) \X Int -> Int]
  OBVIOUS
<1>2. PICK e \in [0..Squares -> Int] :
        e[0] = 1 /\ \A i \in 1..Squares : e[i] = step[<<i, e[i - 1]>>]
  <2> HIDE DEF step
  <2>1. Squares \in Nat /\ 1 \in Int
    BY <1>0
  <2>2. QED
    BY <1>1, <2>1, TableFills, Zenon
<1>3. \A i \in 1..Squares : e[i] = i * e[i - 1]
  <2>1. \A i \in 1..Squares : e[i - 1] \in Int
    BY <1>0
  <2>2. QED
    BY <1>2, <2>1
<1> HIDE DEF step
<1>4. e = Body(e)
  BY <1>0, <1>2, <1>3
<1>5. fact_ary = CHOOSE fs : fs = Body(fs)
  BY DEF fact_ary
<1>6. fact_ary = Body(fact_ary)
  BY <1>4, <1>5
<1>7. fact_ary[0] = 1 /\ \A n \in 1..Squares : fact_ary[n] = n * fact_ary[n - 1]
  BY <1>0, <1>6
<1>8. \A n \in 0..Squares : fact_ary[n] \in Nat /\ fact_ary[n] # 0
  <2> DEFINE S == {n \in 0..Squares : fact_ary[n] \in Nat /\ fact_ary[n] # 0}
  <2>1. 0 \in S
    BY <1>0, <1>7
  <2>2. ASSUME NEW i \in 1..Squares, i - 1 \in S PROVE i \in S
    <3>1. fact_ary[i - 1] \in Nat /\ fact_ary[i - 1] # 0 /\ i \in Nat /\ i # 0
      BY <1>0, <2>2
    <3>2. \A a, b \in Nat : a # 0 /\ b # 0 => a * b \in Nat /\ a * b # 0
      OBVIOUS
    <3>3. QED
      BY <1>0, <1>7, <3>1, <3>2
  <2> HIDE DEF S
  <2>3. 0..Squares \subseteq S
    BY <1>0, <2>1, <2>2, UpwardSet
  <2>4. QED
    BY <2>3 DEF S
<1>9. QED
  BY <1>7, <1>8

\* The number of tiles below k is k.
LEMMA TilesBelow ==
  ASSUME NEW board \in Boards, NEW k \in Positions
  PROVE  Cardinality({p \in Positions : board[p] < k}) = k
<1> DEFINE S == {p \in Positions : board[p] < k}
           T == 0..(k - 1)
           f == [t \in T |-> At(board, t)]
<1>0. k \in Nat /\ Squares \in Nat /\ T \subseteq Positions
  BY SquaresIs
<1>1. /\ board \in [Positions -> Positions]
      /\ \A t \in T : At(board, t) \in Positions /\ board[At(board, t)] = t
  BY <1>0, BoardIs
<1>2. f \in Injection(T, S)
  BY <1>0, <1>1 DEF Injection, IsInjective
<1>3. f \in Surjection(T, S)
  <2>1. ASSUME NEW p \in S PROVE \E t \in T : f[t] = p
    <3>1. board[p] \in Positions /\ board[p] < k
      BY <1>1
    <3>2. board[p] \in T
      BY <1>0, <3>1, SquaresIs
    <3>3. f[board[p]] = p
      BY <3>2, AtIs
    <3>4. QED
      BY <3>2, <3>3
  <2>2. QED
    BY <1>2, <2>1 DEF Injection, Surjection
<1>4. ExistsBijection(T, S)
  BY <1>2, <1>3 DEF ExistsBijection, Bijection
<1>5. IsFiniteSet(T) /\ Cardinality(T) = k
  BY <1>0, FS_Interval
<1> HIDE DEF S, T, f
<1>6. Cardinality(S) = Cardinality(T)
  BY <1>4, <1>5, FS_Bijection
<1>7. QED
  BY <1>5, <1>6 DEF S

LEMMA SomePositions ==
  ASSUME NEW S \in SUBSET Positions
  PROVE  IsFiniteSet(S) /\ Cardinality(S) \in Nat
<1>1. IsFiniteSet(Positions)
  BY SquaresIs, FS_Interval DEF Positions
<1>2. QED
  BY <1>1, FS_Subset, FS_CardinalityType

\* A digit of the hash value is the number of smaller tiles before it.
Digit(board, i) == board[i] - Cardinality(Seen(board, i))

LEMMA DigitIs ==
  ASSUME NEW board \in Boards, NEW i \in Positions
  PROVE  Digit(board, i) \in 0..i
<1> DEFINE S == {p \in Positions : board[p] < board[i]}
           Low == {p \in Positions : p < i /\ board[p] < board[i]}
           L == Seen(board, i)
<1>0. /\ i \in Nat /\ board[i] \in Positions /\ board[i] \in Nat
      /\ \A p \in Positions : p \in Nat /\ board[p] \in Nat
  BY SquaresIs, BoardIs
<1>1. Cardinality(S) = board[i]
  BY <1>0, TilesBelow
<1>2. S = L \cup Low /\ L \cap Low = {}
  <2>1. i \notin S
    BY <1>0
  <2>2. \A p \in Positions : p > i \/ p < i \/ p = i
    BY <1>0
  <2>3. \A p \in Positions : ~(p > i /\ p < i)
    BY <1>0
  <2>4. QED
    BY <2>1, <2>2, <2>3 DEF Seen
<1>3. /\ L \in SUBSET Positions /\ Low \in SUBSET Positions
      /\ Low \in SUBSET (0..(i - 1))
  <2>1. \A p \in Positions : p < i => p \in 0..(i - 1)
    BY <1>0
  <2>2. QED
    BY <2>1, Zenon DEF Seen
<1> HIDE DEF S, L, Low
<1>4. /\ IsFiniteSet(L) /\ IsFiniteSet(Low)
      /\ Cardinality(L) \in Nat /\ Cardinality(Low) \in Nat
  BY <1>3, SomePositions
<1>5. Cardinality(Low) <= i
  <2>1. IsFiniteSet(0..(i - 1)) /\ Cardinality(0..(i - 1)) = i
    <3>1. 0 \in Int /\ i - 1 \in Int
      BY <1>0
    <3>2. IsFiniteSet(0..(i - 1))
          /\ Cardinality(0..(i - 1)) = IF 0 > i - 1 THEN 0 ELSE (i - 1) - 0 + 1
      BY <3>1, FS_Interval
    <3>3. QED
      BY <1>0, <3>2
  <2>2. Cardinality(Low) <= Cardinality(0..(i - 1))
    BY <1>3, <2>1, FS_Subset
  <2>3. QED
    BY <2>1, <2>2
<1>6. Cardinality(S) = Cardinality(L) + Cardinality(Low)
  <2>1. Cardinality(L \cup Low) = Cardinality(L) + Cardinality(Low) - Cardinality(L \cap Low)
    BY <1>4, FS_Union
  <2>2. Cardinality({}) = 0
    BY FS_EmptySet
  <2>3. Cardinality(S) = Cardinality(L \cup Low) /\ Cardinality(L \cap Low) = 0
    BY <1>2, <2>2, Zenon
  <2>4. QED
    BY <1>4, <2>1, <2>3
<1>7. Digit(board, i) = board[i] - Cardinality(L)
  BY DEF Digit, L
<1>8. board[i] \in Nat /\ i \in Nat
  BY <1>0
<1>9. Digit(board, i) = Cardinality(Low)
  <2>1. Digit(board, i) = (Cardinality(L) + Cardinality(Low)) - Cardinality(L)
    BY <1>1, <1>6, <1>7, Zenon
  <2>2. \A x, y \in Nat : (x + y) - x = y
    OBVIOUS
  <2>3. QED
    BY <1>4, <2>1, <2>2, Zenon
<1>10. Cardinality(Low) \in 0..i
  BY <1>4, <1>5, <1>8
<1>11. QED
  BY <1>9, <1>10

\* The tiles of the later positions and a digit determine the tile of its position.
LEMMA DigitOrders ==
  ASSUME NEW a \in Boards, NEW b \in Boards, NEW i \in Positions,
         \A p \in Positions : p > i => a[p] = b[p],
         a[i] < b[i]
  PROVE  Digit(a, i) < Digit(b, i)
<1> DEFINE Mid == {p \in Positions : p > i /\ a[i] < a[p] /\ a[p] < b[i]}
           L == Seen(a, i)
           M == Seen(b, i)
           T == (a[i] + 1)..(b[i] - 1)
<1>0. /\ a[i] \in Nat /\ b[i] \in Nat /\ i \in Nat
      /\ \A p \in Positions : a[p] \in Nat /\ b[p] \in Nat /\ p \in Nat
      /\ \A p \in Positions : p > i => a[p] # a[i]
      /\ \A p, q \in Positions : a[p] = a[q] => p = q
  BY SquaresIs, BoardIs
<1>1. M = L \cup Mid /\ L \cap Mid = {}
  <2>1. ASSUME NEW p \in Positions, p > i
        PROVE  /\ b[p] = a[p]
               /\ b[p] < b[i] <=> a[p] < a[i] \/ (a[i] < a[p] /\ a[p] < b[i])
               /\ ~(a[p] < a[i] /\ a[i] < a[p])
    <3>1. a[p] = b[p] /\ a[p] \in Nat /\ a[p] # a[i]
      BY <1>0, <2>1
    <3>2. QED
      BY <1>0, <3>1
  <2>2. \A p : p \in M <=> p \in Positions /\ p > i /\ b[p] < b[i]
    BY DEF Seen
  <2>3. \A p : p \in L <=> p \in Positions /\ p > i /\ a[p] < a[i]
    BY DEF Seen
  <2>4. \A p : p \in Mid <=> p \in Positions /\ p > i /\ a[i] < a[p] /\ a[p] < b[i]
    OBVIOUS
  <2> HIDE DEF L, M, Mid
  <2>5. \A p : p \in M <=> p \in L \/ p \in Mid
    BY <2>1, <2>2, <2>3, <2>4, Zenon
  <2>6. \A p : ~(p \in L /\ p \in Mid)
    BY <2>1, <2>3, <2>4, Zenon
  <2>7. QED
    BY <2>5, <2>6
<1>2. L \in SUBSET Positions /\ Mid \in SUBSET Positions
  <2>1. L \in SUBSET Positions
    BY DEF Seen
  <2>2. Mid \in SUBSET Positions
    OBVIOUS
  <2>3. QED
    BY <2>1, <2>2
<1>3. [p \in Mid |-> a[p]] \in Injection(Mid, T)
  <2>1. \A p \in Mid : a[p] \in T
    BY <1>0
  <2>2. \A p, q \in Mid : a[p] = a[q] => p = q
    BY <1>0
  <2> HIDE DEF Mid, T
  <2> DEFINE f == [p \in Mid |-> a[p]]
  <2>3. f \in [Mid -> T]
    BY <2>1
  <2>4. \A p, q \in DOMAIN f : f[p] = f[q] => p = q
    BY <2>2
  <2>5. QED
    BY <2>3, <2>4 DEF Injection, IsInjective
<1>4. IsFiniteSet(T) /\ Cardinality(T) = (b[i] - a[i]) - 1
  <2> DEFINE v == IF a[i] + 1 > b[i] - 1 THEN 0 ELSE (b[i] - 1) - (a[i] + 1) + 1
  <2>1. a[i] + 1 \in Int /\ b[i] - 1 \in Int
    BY <1>0
  <2>2. IsFiniteSet(T) /\ Cardinality(T) = v
    BY <2>1, FS_Interval
  <2>3. \A x, y \in Nat : x < y =>
          (IF x + 1 > y - 1 THEN 0 ELSE (y - 1) - (x + 1) + 1) = (y - x) - 1
    OBVIOUS
  <2>4. a[i] \in Nat /\ b[i] \in Nat
    BY <1>0
  <2>5. v = (b[i] - a[i]) - 1
    BY <2>3, <2>4
  <2> HIDE DEF T, v
  <2>6. QED
    BY <2>2, <2>5, Zenon
<1> HIDE DEF L, M, Mid, T
<1>5. Cardinality(Mid) <= Cardinality(T)
  BY <1>3, <1>4, FS_Injection
<1>6. /\ IsFiniteSet(L) /\ IsFiniteSet(Mid)
      /\ Cardinality(L) \in Nat /\ Cardinality(Mid) \in Nat
  BY <1>2, SomePositions
<1>7. Cardinality(M) = Cardinality(L) + Cardinality(Mid)
  <2>1. Cardinality(L \cup Mid) = Cardinality(L) + Cardinality(Mid) - Cardinality(L \cap Mid)
    BY <1>6, FS_Union
  <2>2. Cardinality({}) = 0
    BY FS_EmptySet
  <2>3. Cardinality(M) = Cardinality(L \cup Mid) /\ Cardinality(L \cap Mid) = 0
    BY <1>1, <2>2, Zenon
  <2>4. QED
    BY <1>6, <2>1, <2>3
<1>8. Digit(a, i) = a[i] - Cardinality(L) /\ Digit(b, i) = b[i] - Cardinality(M)
  BY DEF Digit, L, M
<1>9. QED
  BY <1>0, <1>4, <1>5, <1>6, <1>7, <1>8

Ranks(board) == [i \in Positions |-> Digit(board, i) * fact_ary[i]]

\* The digits before position n add up to less than the factorial of n.
LEMMA RanksAre ==
  ASSUME NEW board \in Boards
  PROVE  /\ Ranks(board) \in [Positions -> Nat]
         /\ TileHash(board) = Sums(Ranks(board))[Squares]
         /\ Sums(Ranks(board))[0] = 0
         /\ \A n \in 1..Squares : Sums(Ranks(board))[n]
              = Sums(Ranks(board))[n - 1] + Digit(board, n - 1) * fact_ary[n - 1]
         /\ \A n \in 0..Squares : /\ Sums(Ranks(board))[n] \in Nat
                                  /\ Sums(Ranks(board))[n] < fact_ary[n]
<1> DEFINE f == Ranks(board)
           fs == Sums(f)
           S == {n \in 0..Squares : fs[n] \in Nat /\ fs[n] < fact_ary[n]}
<1>0. Squares \in Nat /\ \A i \in 1..Squares : i - 1 \in Positions /\ i - 1 \in 0..Squares
  BY SquaresIs
<1>1. \A i \in Positions : i \in 0..Squares /\ i \in Nat
  BY SquaresIs
<1>2. \A i \in Positions : Digit(board, i) \in Nat /\ Digit(board, i) <= i
  BY <1>1, DigitIs
<1>3. f \in [Positions -> Nat]
  <2>1. \A i \in Positions : Digit(board, i) * fact_ary[i] \in Nat
    BY <1>1, <1>2, FactIs
  <2>2. QED
    BY <2>1 DEF Ranks
<1>4. \A i \in Positions : f[i] = Digit(board, i) * fact_ary[i]
  BY DEF Ranks
<1>5. TileHash(board) = SumOf(f)
  BY DEF TileHash, Ranks, Digit
<1> HIDE DEF f
<1>6. /\ fs \in [0..Squares -> Int] /\ fs[0] = 0 /\ SumOf(f) = fs[Squares]
      /\ \A n \in 1..Squares : fs[n] = fs[n - 1] + f[n - 1]
  <2>1. f \in [Positions -> Int]
    BY <1>3
  <2>2. QED
    BY <2>1, SumsIs
<1> HIDE DEF fs
<1>7. 0 \in S
  BY <1>0, <1>6, FactIs
<1>8. ASSUME NEW n \in 1..Squares, n - 1 \in S PROVE n \in S
  <2> DEFINE d == Digit(board, n - 1)
             k == fact_ary[n - 1]
             v == fs[n - 1]
  <2>1. fs[n] = v + d * k
    BY <1>0, <1>4, <1>6
  <2>2. fact_ary[n] = n * k /\ k \in Nat
    BY <1>0, FactIs
  <2>3. d \in Nat /\ d <= n - 1 /\ n \in Nat
    BY <1>0, <1>2
  <2>4. v \in Nat /\ v < k
    BY <1>8
  <2> HIDE DEF d, k, v
  <2>5. d * k <= (n - 1) * k /\ (n - 1) * k = n * k - k /\ d * k \in Nat
    BY <2>2, <2>3
  <2>6. n * k \in Nat
    BY <2>2, <2>3
  <2>7. v + d * k \in Nat /\ v + d * k < n * k
    BY <2>2, <2>4, <2>5, <2>6
  <2>8. QED
    BY <1>0, <2>1, <2>2, <2>7
<1>9. 0..Squares \subseteq S
  <2> HIDE DEF S
  <2>1. QED
    BY <1>0, <1>7, <1>8, UpwardSet
<1>10. QED
  BY <1>0, <1>3, <1>4, <1>5, <1>6, <1>9 DEF fs, f

\* A digit and a smaller rest are determined by their number.
LEMMA DigitAndRest ==
  ASSUME NEW v \in Nat, NEW v1 \in Nat, NEW d \in Nat, NEW d1 \in Nat, NEW k \in Nat,
         v < k, v1 < k, v + d * k = v1 + d1 * k
  PROVE  d = d1 /\ v = v1
<1>1. ASSUME NEW x \in Nat, NEW x1 \in Nat, NEW r \in Nat, NEW r1 \in Nat, r < k, r1 < k,
             r + x * k = r1 + x1 * k
      PROVE  ~(x < x1)
  <2> SUFFICES ASSUME x + 1 <= x1 PROVE FALSE
    OBVIOUS
  <2>1. (x + 1) * k <= x1 * k /\ (x + 1) * k = x * k + k
    OBVIOUS
  <2>2. x * k \in Nat /\ x1 * k \in Nat
    OBVIOUS
  <2>3. QED
    BY <1>1, <2>1, <2>2
<1>2. ~(d < d1) /\ ~(d1 < d)
  BY <1>1
<1>3. d = d1
  BY <1>2
<1>4. d * k \in Nat
  OBVIOUS
<1>5. QED
  BY <1>3, <1>4

\* Boards with the same hash value are the same.
LEMMA HashIsRank ==
  ASSUME NEW a \in Boards, NEW b \in Boards, TileHash(a) = TileHash(b)
  PROVE  a = b
<1> DEFINE fs == Sums(Ranks(a))
           es == Sums(Ranks(b))
           S == {n \in 0..Squares : /\ fs[Squares - n] = es[Squares - n]
                                    /\ \A p \in Positions : p >= Squares - n => a[p] = b[p]}
<1>0. Squares \in Nat /\ \A p \in Positions : p \in Nat /\ p < Squares
  BY SquaresIs
<1>n. \A p \in Positions : a[p] \in Nat /\ b[p] \in Nat
  BY <1>0, BoardIs
<1>1. fs[Squares] = es[Squares]
  BY RanksAre
<1>2. 0 \in S
  <2>1. Squares - 0 = Squares /\ \A p \in Positions : ~(p >= Squares)
    BY <1>0
  <2>2. QED
    BY <1>0, <1>1, <2>1
<1>3. ASSUME NEW n \in 1..Squares, n - 1 \in S PROVE n \in S
  <2> DEFINE i == Squares - n
             k == fact_ary[i]
  <2>1. /\ i \in Positions /\ i \in 0..Squares /\ i + 1 \in 1..Squares
        /\ (i + 1) - 1 = i /\ Squares - (n - 1) = i + 1
    BY <1>0, SquaresIs
  <2>2. fs[i + 1] = es[i + 1] /\ \A p \in Positions : p >= i + 1 => a[p] = b[p]
    BY <1>3, <2>1
  <2> HIDE DEF i
  <2>3. /\ fs[i + 1] = fs[i] + Digit(a, i) * k /\ fs[i] \in Nat /\ fs[i] < k
        /\ es[i + 1] = es[i] + Digit(b, i) * k /\ es[i] \in Nat /\ es[i] < k
    BY <2>1, RanksAre
  <2>4. Digit(a, i) \in Nat /\ Digit(b, i) \in Nat /\ k \in Nat
    <3>1. Digit(a, i) \in 0..i /\ Digit(b, i) \in 0..i
      BY <2>1, DigitIs
    <3>2. QED
      BY <2>1, <3>1, FactIs
  <2> HIDE DEF k, fs, es
  <2>5. Digit(a, i) = Digit(b, i) /\ fs[i] = es[i]
    <3>1. fs[i] + Digit(a, i) * k = es[i] + Digit(b, i) * k
      BY <2>2, <2>3
    <3>2. /\ fs[i] \in Nat /\ fs[i] < k /\ es[i] \in Nat /\ es[i] < k
      BY <2>3, Zenon
    <3>3. \A x, x1, r, r1, v \in Nat :
            r < v /\ r1 < v /\ r + x * v = r1 + x1 * v => x = x1 /\ r = r1
      BY DigitAndRest
    <3>4. QED
      BY <2>4, <3>1, <3>2, <3>3, Zenon
  <2>6. \A p \in Positions : p > i => a[p] = b[p]
    <3>1. i \in Int /\ \A p \in Positions : p > i => p >= i + 1
      BY <1>0, <2>1
    <3>2. QED
      BY <2>2, <3>1
  <2>7. a[i] \in Nat /\ b[i] \in Nat
    BY <1>n, <2>1, Zenon
  <2>8. a[i] = b[i]
    <3>1. ~(a[i] < b[i])
      <4> SUFFICES ASSUME a[i] < b[i] PROVE FALSE
        OBVIOUS
      <4>1. Digit(a, i) < Digit(b, i)
        BY <2>1, <2>6, DigitOrders
      <4>2. QED
        BY <2>4, <2>5, <4>1
    <3>2. ~(b[i] < a[i])
      <4> SUFFICES ASSUME b[i] < a[i] PROVE FALSE
        OBVIOUS
      <4>1. Digit(b, i) < Digit(a, i)
        BY <2>1, <2>6, DigitOrders
      <4>2. QED
        BY <2>4, <2>5, <4>1
    <3>3. QED
      BY <2>7, <3>1, <3>2
  <2>9. \A p \in Positions : p >= i => a[p] = b[p]
    BY <1>0, <2>1, <2>6, <2>8
  <2>10. QED
    BY <1>0, <2>5, <2>9 DEF i
<1>4. 0..Squares \subseteq S
  <2> HIDE DEF S
  <2>1. QED
    BY <1>0, <1>2, <1>3, UpwardSet
<1>5. Squares \in S /\ Squares - Squares = 0
  BY <1>0, <1>4
<1>6. \A p \in Positions : a[p] = b[p]
  BY <1>0, <1>5
<1>7. a \in [Positions -> Positions] /\ b \in [Positions -> Positions]
  BY BoardIs
<1>8. QED
  BY <1>6, <1>7

LEMMA AsManyHashes == Cardinality(TileHashes) = Cardinality(Boards)
<1> DEFINE f == [board \in Boards |-> TileHash(board)]
           T == 0..fact_ary[Squares]
<1>1. \A board \in Boards : TileHash(board) \in T
  <2>1. Squares \in 0..Squares
    BY SquaresIs
  <2>2. \A board \in Boards : TileHash(board) \in Nat /\ TileHash(board) < fact_ary[Squares]
    BY <2>1, RanksAre
  <2>3. fact_ary[Squares] \in Nat
    BY <2>1, FactIs
  <2>4. QED
    BY <2>2, <2>3
<1>2. f \in Injection(Boards, T)
  BY <1>1, HashIsRank DEF Injection, IsInjective
<1>3. IsFiniteSet(T)
  <2>1. fact_ary[Squares] \in Int
    BY SquaresIs, FactIs
  <2>2. QED
    BY <2>1, FS_Interval
<1>4. IsFiniteSet(Boards)
  BY <1>2, <1>3, FS_Injection
<1>5. f \in Bijection(Boards, TileHashes)
  BY HashIsRank DEF Bijection, Injection, Surjection, IsInjective, TileHashes
<1>6. QED
  BY <1>4, <1>5, FS_Bijection DEF ExistsBijection

\* Cells of a world with the same hash value are the same.
LEMMA CellHashes ==
  ASSUME NEW w, IsWorld(w), NEW s \in Cells(w), NEW t \in Cells(w),
         GridHash(w, s) = GridHash(w, t)
  PROVE  s = t
<1> DEFINE k == w.height
<1>1. /\ s[1] \in Nat /\ s[2] \in Nat /\ t[1] \in Nat /\ t[2] \in Nat
      /\ s[2] < k /\ t[2] < k /\ k \in Nat
      /\ s = <<s[1], s[2]>> /\ t = <<t[1], t[2]>>
  BY DEF IsWorld, Cells
<1>2. s[1] * k + s[2] = t[1] * k + t[2]
  BY DEF GridHash
<1> HIDE DEF k
<1>3. s[2] + s[1] * k = t[2] + t[1] * k
  BY <1>1, <1>2
<1>4. s[1] = t[1] /\ s[2] = t[2]
  BY <1>1, <1>3, DigitAndRest
<1>5. QED
  BY <1>1, <1>4

-----------------------------------------------------------------------------
(***************************************************************************)
(* The grids' projections onto blocks.                                     *)
(***************************************************************************)
\* A number is divided in one way.
LEMMA DividedOnce ==
  ASSUME NEW d \in Nat, d # 0, NEW q \in Nat, NEW r \in Nat, r < d
  PROVE  (q * d + r) \div d = q /\ (q * d + r) % d = r
<1> DEFINE n == q * d + r
           q1 == n \div d
           r1 == n % d
<1>1. n \in Nat /\ q * d \in Nat
  OBVIOUS
<1>2. q1 \in Nat /\ r1 \in Nat /\ r1 < d /\ n = d * q1 + r1
  <2> HIDE DEF n
  <2>1. QED
    BY <1>1
<1>3. d * q1 = q1 * d
  BY <1>2
<1>4. q * d + r = q1 * d + r1
  BY <1>2, <1>3
<1> HIDE DEF q1, r1
<1>5. ~(q < q1)
  <2> SUFFICES ASSUME q + 1 <= q1 PROVE FALSE
    BY <1>2
  <2>1. (q + 1) * d <= q1 * d /\ (q + 1) * d = q * d + d /\ q1 * d \in Nat
    BY <1>2
  <2>2. QED
    BY <1>1, <1>2, <1>4, <2>1
<1>6. ~(q1 < q)
  <2> SUFFICES ASSUME q1 + 1 <= q PROVE FALSE
    BY <1>2
  <2>1. (q1 + 1) * d <= q * d /\ (q1 + 1) * d = q1 * d + d /\ q1 * d \in Nat
    BY <1>2
  <2>2. QED
    BY <1>1, <1>2, <1>4, <2>1
<1>7. q1 = q
  BY <1>2, <1>5, <1>6
<1>8. r1 = r
  BY <1>1, <1>2, <1>4, <1>7
<1>9. QED
  BY <1>7, <1>8 DEF q1, r1

LEMMA Division ==
  ASSUME NEW d \in Nat, d # 0, NEW n \in Nat
  PROVE  /\ n \div d \in Nat /\ n % d \in Nat /\ n % d < d
         /\ n = (n \div d) * d + (n % d)
<1> DEFINE q == n \div d
           r == n % d
<1>1. q \in Nat /\ r \in Nat /\ r < d /\ n = d * q + r
  OBVIOUS
<1> HIDE DEF q, r
<1>2. n = q * d + r
  BY <1>1
<1>3. QED
  BY <1>1, <1>2, Zenon DEF q, r

\* The next number has the next remainder, around, and the same quotient or
\* the next one.
LEMMA NextDivided ==
  ASSUME NEW d \in Nat, d # 0, NEW n \in Nat
  PROVE  \/ (n + 1) \div d = n \div d /\ (n + 1) % d = (n % d) + 1
         \/ (n + 1) \div d = n \div d + 1 /\ (n + 1) % d = 0 /\ n % d = d - 1
<1> DEFINE q == n \div d
           r == n % d
<1>1. q \in Nat /\ r \in Nat /\ r < d /\ n = q * d + r /\ q * d \in Nat
  BY Division
<1> HIDE DEF q, r
<1>2. CASE r + 1 < d
  <2>1. n + 1 = q * d + (r + 1)
    BY <1>1
  <2>2. (q * d + (r + 1)) \div d = q /\ (q * d + (r + 1)) % d = r + 1
    BY <1>1, <1>2, DividedOnce
  <2>3. QED
    BY <2>1, <2>2 DEF q, r
<1>3. CASE r + 1 = d
  <2>1. n + 1 = (q + 1) * d + 0
    BY <1>1, <1>3
  <2>2. ((q + 1) * d + 0) \div d = q + 1 /\ ((q + 1) * d + 0) % d = 0
    BY <1>1, DividedOnce
  <2>3. r = d - 1
    BY <1>1, <1>3
  <2>4. QED
    BY <2>1, <2>2, <2>3 DEF q, r
<1>4. QED
  BY <1>1, <1>2, <1>3

\* The blocks of rows that follow each other are neighbors.
LEMMA RowsBeside ==
  ASSUME NEW n \in Nat, n # 0, NEW y \in Nat
  PROVE  /\ y % n \in 0..(n - 1) /\ (y + 1) % n \in 0..(n - 1)
         /\ (y + 1) % n \in RowModNeighbors(n, y % n)
         /\ y % n \in RowModNeighbors(n, (y + 1) % n)
<1> DEFINE a == y % n
           b == (y + 1) % n
<1>1. a \in Nat /\ a < n /\ b \in Nat /\ b < n
  BY Division
<1>2. b = a + 1 \/ (b = 0 /\ a = n - 1)
  BY NextDivided
<1> HIDE DEF a, b
<1>3. (a + 1) % n = b
  <2>1. CASE b = a + 1
    <3>1. b = 0 * n + b
      BY <1>1
    <3>2. (0 * n + b) % n = b
      BY <1>1, DividedOnce
    <3>3. QED
      BY <2>1, <3>1, <3>2
  <2>2. CASE b = 0 /\ a = n - 1
    <3>1. a + 1 = 1 * n + 0
      BY <1>1, <2>2
    <3>2. (1 * n + 0) % n = 0
      BY <1>1, DividedOnce
    <3>3. QED
      BY <2>2, <3>1, <3>2
  <2>3. QED
    BY <1>2, <2>1, <2>2
<1>4. a = IF b > 0 THEN (b - 1) % n ELSE n - 1
  <2>1. CASE b = a + 1
    <3>1. b > 0 /\ b - 1 = 0 * n + a
      BY <1>1, <2>1
    <3>2. (0 * n + a) % n = a
      BY <1>1, DividedOnce
    <3>3. QED
      BY <3>1, <3>2
  <2>2. CASE b = 0 /\ a = n - 1
    BY <2>2
  <2>3. QED
    BY <1>2, <2>1, <2>2
<1>5. b \in RowModNeighbors(n, a) /\ a \in RowModNeighbors(n, b)
  BY <1>3, <1>4, Zenon DEF RowModNeighbors
<1>6. a \in 0..(n - 1) /\ b \in 0..(n - 1)
  BY <1>1
<1>7. QED
  BY <1>5, <1>6 DEF a, b

\* A cell and its neighbor along one axis lie in the same block or in adjacent ones.
LEMMA BlocksBeside ==
  ASSUME NEW cols \in Nat, cols # 0, NEW width \in Nat, width # 0, width % cols = 0,
         NEW x \in Nat, x < width, NEW x1 \in Nat, x1 < width,
         x1 \in {x - 1, x, x + 1}
  PROVE  LET d == width \div cols
         IN  /\ d \in Nat /\ d # 0
             /\ x \div d \in 0..(cols - 1) /\ x1 \div d \in 0..(cols - 1)
             /\ (x1 \div d) - (x \div d) \in {-1, 0, 1}
             /\ x1 = x => x1 \div d = x \div d
<1> DEFINE d == width \div cols
<1>1. d \in Nat /\ width = d * cols
  <2>1. width \div cols \in Nat /\ width = (width \div cols) * cols + (width % cols)
    BY Division
  <2> HIDE DEF d
  <2>2. d \in Nat /\ width = d * cols + 0
    BY <2>1 DEF d
  <2>3. QED
    BY <2>2
<1> HIDE DEF d
<1>2. d # 0
  <2>1. d = 0 => d * cols = 0
    OBVIOUS
  <2>2. QED
    BY <1>1, <2>1
<1>3. ASSUME NEW n \in Nat, n < width PROVE n \div d \in 0..(cols - 1)
  <2>1. n \div d \in Nat /\ n % d \in Nat /\ n = (n \div d) * d + (n % d)
    BY <1>1, <1>2, Division
  <2> DEFINE q == n \div d
             r == n % d
  <2> HIDE DEF q, r
  <2>2. q \in Nat /\ r \in Nat /\ n = q * d + r
    BY <2>1, Zenon DEF q, r
  <2>3. ~(q >= cols)
    <3> SUFFICES ASSUME q >= cols PROVE FALSE
      OBVIOUS
    <3>1. q * d >= cols * d /\ cols * d = d * cols /\ q * d \in Nat
      BY <1>1, <2>2
    <3>2. QED
      BY <1>1, <1>3, <2>2, <3>1
  <2>4. q \in 0..(cols - 1)
    BY <2>2, <2>3
  <2>5. QED
    BY <2>4 DEF q
<1>4. x \div d \in 0..(cols - 1) /\ x1 \div d \in 0..(cols - 1)
  BY <1>3
<1>5. (x1 \div d) - (x \div d) \in {-1, 0, 1}
  <2>1. \A n \in Nat : \/ (n + 1) \div d = n \div d
                       \/ (n + 1) \div d = n \div d + 1
    BY <1>1, <1>2, NextDivided
  <2>2. x1 = x \/ x1 = x + 1 \/ x = x1 + 1
    OBVIOUS
  <2>3. x1 \div d = x \div d \/ x1 \div d = x \div d + 1 \/ x \div d = x1 \div d + 1
    BY <2>1, <2>2
  <2> DEFINE p == x \div d
             q == x1 \div d
  <2> HIDE DEF p, q
  <2>4. p \in Nat /\ q \in Nat
    BY <1>4 DEF p, q
  <2>5. q = p \/ q = p + 1 \/ p = q + 1
    BY <2>3 DEF p, q
  <2>6. q - p \in {-1, 0, 1}
    BY <2>4, <2>5
  <2>7. QED
    BY <2>6 DEF p, q
<1>6. QED
  BY <1>1, <1>2, <1>4, <1>5 DEF d

\* The blocks are neighbors, or one block.
Adjacent(p, a, b) ==
  /\ {a, b} \subseteq 0..(CoarseBlocks(p) - 1)
  /\ b # a => b \in CoarseNeighbors(p, a) /\ a \in CoarseNeighbors(p, b)

\* Blocks side by side are neighbors: diagonally only where moves are.
LEMMA CoarseBeside ==
  ASSUME NEW p, p.cols \in Nat, p.cols # 0, p.rows \in Nat, p.rows # 0,
         NEW x \in 0..(p.cols - 1), NEW y \in 0..(p.rows - 1),
         NEW x1 \in 0..(p.cols - 1), NEW y1 \in 0..(p.rows - 1),
         x1 - x \in {-1, 0, 1}, y1 - y \in {-1, 0, 1},
         p.eight \/ x1 = x \/ y1 = y
  PROVE  Adjacent(p, get_id(p, x, y), get_id(p, x1, y1))
<1> DEFINE cols == p.cols
           rows == p.rows
<1>1. /\ cols \in Nat /\ cols # 0 /\ rows \in Nat /\ rows # 0
      /\ x \in Nat /\ x < cols /\ x1 \in Nat /\ x1 < cols
      /\ y \in Nat /\ y < rows /\ y1 \in Nat /\ y1 < rows
  OBVIOUS
<1>2. ASSUME NEW u \in Nat, u < cols, NEW v \in Nat, v < rows
      PROVE  /\ get_id(p, u, v) \in 0..(CoarseBlocks(p) - 1)
             /\ get_id(p, u, v) % cols = u /\ get_id(p, u, v) \div cols = v
  <2>1. get_id(p, u, v) = v * cols + u /\ CoarseBlocks(p) = rows * cols
    BY DEF get_id, CoarseBlocks
  <2> HIDE DEF cols, rows
  <2>2. (v * cols + u) % cols = u /\ (v * cols + u) \div cols = v
    BY <1>1, <1>2, DividedOnce
  <2>3. (v + 1) * cols <= rows * cols /\ (v + 1) * cols = v * cols + cols
        /\ v * cols \in Nat /\ rows * cols \in Nat
    BY <1>1, <1>2
  <2>4. v * cols + u \in 0..(rows * cols - 1)
    BY <1>1, <1>2, <2>3
  <2>5. QED
    BY <2>1, <2>2, <2>4
<1>3. ASSUME NEW u \in Nat, u < cols, NEW v \in Nat, v < rows,
             NEW u1 \in Nat, u1 < cols, NEW v1 \in Nat, v1 < rows,
             u1 - u \in {-1, 0, 1}, v1 - v \in {-1, 0, 1},
             p.eight \/ u1 = u \/ v1 = v, u1 # u \/ v1 # v
      PROVE  get_id(p, u1, v1) \in CoarseNeighbors(p, get_id(p, u, v))
  <2> DEFINE st == <<u1 - u, v1 - v>>
             steps == StraightSteps \cup (IF p.eight THEN DiagonalSteps ELSE {})
  <2>1. st \in steps
    <3>1. \/ u1 - u = 0 /\ v1 - v \in {-1, 1}
          \/ v1 - v = 0 /\ u1 - u \in {-1, 1}
          \/ p.eight /\ u1 - u \in {-1, 1} /\ v1 - v \in {-1, 1}
      BY <1>3
    <3> DEFINE i == u1 - u
               j == v1 - v
    <3> HIDE DEF i, j
    <3>2. \/ i = 0 /\ j \in {-1, 1}
          \/ j = 0 /\ i \in {-1, 1}
          \/ p.eight /\ i \in {-1, 1} /\ j \in {-1, 1}
      BY <3>1 DEF i, j
    <3>3. <<i, j>> \in steps
      BY <3>2 DEF StraightSteps, DiagonalSteps
    <3>4. QED
      BY <3>3 DEF i, j
  <2>2. get_id(p, u, v) % cols = u /\ get_id(p, u, v) \div cols = v
    BY <1>2, <1>3
  <2>3. u + st[1] = u1 /\ v + st[2] = v1
    BY <1>3
  <2>4. u1 \in 0..(cols - 1) /\ v1 \in 0..(rows - 1)
    BY <1>3
  <2> DEFINE id == get_id(p, u, v)
  <2>5. CoarseNeighbors(p, id)
          = {get_id(p, (id % cols) + t[1], (id \div cols) + t[2]) :
               t \in {t \in steps : /\ (id % cols) + t[1] \in 0..(cols - 1)
                                    /\ (id \div cols) + t[2] \in 0..(rows - 1)}}
    BY DEF CoarseNeighbors
  <2> HIDE DEF id, st, steps, cols, rows
  <2>6. id % cols = u /\ id \div cols = v
    BY <2>2 DEF id
  <2>7. get_id(p, u + st[1], v + st[2]) \in CoarseNeighbors(p, id)
    BY <2>1, <2>3, <2>4, <2>5, <2>6
  <2>8. QED
    BY <2>3, <2>7 DEF id
<1>4. get_id(p, x, y) \in 0..(CoarseBlocks(p) - 1) /\ get_id(p, x1, y1) \in 0..(CoarseBlocks(p) - 1)
  BY <1>1, <1>2
<1>5. CASE x1 = x /\ y1 = y
  BY <1>4, <1>5 DEF Adjacent
<1>6. CASE x1 # x \/ y1 # y
  <2>1. get_id(p, x1, y1) \in CoarseNeighbors(p, get_id(p, x, y))
    BY <1>1, <1>3, <1>6
  <2>2. x - x1 \in {-1, 0, 1} /\ y - y1 \in {-1, 0, 1}
    BY <1>1
  <2>3. get_id(p, x, y) \in CoarseNeighbors(p, get_id(p, x1, y1))
    BY <1>1, <1>3, <1>6, <2>2
  <2>4. QED
    BY <1>4, <2>1, <2>3 DEF Adjacent
<1>7. QED
  BY <1>5, <1>6

LEMMA RowModSound ==
  ASSUME NEW n \in Nat, n # 0, NEW s, s[2] \in Nat, NEW t, t[2] \in Nat,
         t[2] \in {s[2] - 1, s[2], s[2] + 1}
  PROVE  Known(RowModBlock(n, s), RowModBlock(n, t), n, LAMBDA b : RowModNeighbors(n, b))
<1>1. CASE t[2] = s[2] + 1
  BY <1>1, RowsBeside DEF Known, RowModBlock
<1>2. CASE t[2] = s[2]
  <2>1. RowModBlock(n, t) = RowModBlock(n, s)
    BY <1>2 DEF RowModBlock
  <2>2. RowModBlock(n, s) \in 0..(n - 1)
    BY RowsBeside DEF RowModBlock
  <2>3. QED
    BY <2>1, <2>2 DEF Known
<1>3. CASE s[2] = t[2] + 1
  BY <1>3, RowsBeside DEF Known, RowModBlock
<1>4. QED
  BY <1>1, <1>2, <1>3

LEMMA CoarseSound ==
  ASSUME NEW w, IsWorld(w), NEW s \in Cells(w), NEW t \in Cells(w),
         NEW cr \in (Nat \ {0}) \X (Nat \ {0}), Even(w, cr),
         t[1] \in {s[1] - 1, s[1], s[1] + 1}, t[2] \in {s[2] - 1, s[2], s[2] + 1},
         w.eight \/ t[1] = s[1] \/ t[2] = s[2]
  PROVE  LET p == Coarse(w, cr[1], cr[2])
         IN  Adjacent(p, CoarseBlock(p, s), CoarseBlock(p, t))
<1> DEFINE p == Coarse(w, cr[1], cr[2])
<1>1. /\ p.cols \in Nat /\ p.cols # 0 /\ p.rows \in Nat /\ p.rows # 0
      /\ p.eight = w.eight
      /\ p.cols_div = w.width \div p.cols /\ p.rows_div = w.height \div p.rows
  BY DEF Coarse
<1>2. /\ w.width % p.cols = 0 /\ w.height % p.rows = 0
  BY DEF Even
<1>3. /\ s[1] \in Nat /\ s[1] < w.width /\ s[2] \in Nat /\ s[2] < w.height
      /\ t[1] \in Nat /\ t[1] < w.width /\ t[2] \in Nat /\ t[2] < w.height
      /\ w.width \in Nat /\ w.width # 0 /\ w.height \in Nat /\ w.height # 0
  BY DEF Cells, IsWorld
<1> DEFINE x == s[1] \div p.cols_div
           x1 == t[1] \div p.cols_div
           y == s[2] \div p.rows_div
           y1 == t[2] \div p.rows_div
<1> HIDE DEF p
<1>4. /\ x \in 0..(p.cols - 1) /\ x1 \in 0..(p.cols - 1) /\ x1 - x \in {-1, 0, 1}
      /\ t[1] = s[1] => x1 = x
  BY <1>1, <1>2, <1>3, BlocksBeside, Zenon
<1>5. /\ y \in 0..(p.rows - 1) /\ y1 \in 0..(p.rows - 1) /\ y1 - y \in {-1, 0, 1}
      /\ t[2] = s[2] => y1 = y
  BY <1>1, <1>2, <1>3, BlocksBeside, Zenon
<1>6. CoarseBlock(p, s) = get_id(p, x, y) /\ CoarseBlock(p, t) = get_id(p, x1, y1)
  BY DEF CoarseBlock
<1> HIDE DEF x, x1, y, y1
<1>7. p.eight \/ x1 = x \/ y1 = y
  BY <1>1, <1>4, <1>5
<1>8. Adjacent(p, get_id(p, x, y), get_id(p, x1, y1))
  BY <1>1, <1>4, <1>5, <1>7, CoarseBeside
<1>9. Adjacent(p, CoarseBlock(p, s), CoarseBlock(p, t))
  BY <1>6, <1>8
<1>10. QED
  BY <1>9 DEF p

LEMMA GridProjected ==
  ASSUME NEW w, IsWorld(w), NEW s \in Free(w), NEW m \in GridExpand(w, s)
  PROVE  /\ s \in Cells(w) /\ m.to \in Cells(w)
         /\ m.to[1] \in {s[1] - 1, s[1], s[1] + 1}
         /\ m.to[2] \in {s[2] - 1, s[2], s[2] + 1}
         /\ w.eight \/ m.to[1] = s[1] \/ m.to[2] = s[2]
<1>1. PICK st \in StraightSteps \cup DiagonalSteps :
        /\ m.to = <<s[1] + st[1], s[2] + st[2]>>
        /\ st \in DiagonalSteps => w.eight
  BY MoveIs
<1>2. m.to \in Free(w)
  BY MoveIs
<1>3. s \in Cells(w) /\ m.to \in Cells(w)
  BY <1>2 DEF Free
<1>4. s[1] \in Int /\ s[2] \in Int
  BY <1>3, CellsAreNat
<1>5. /\ st[1] \in {-1, 0, 1} /\ st[2] \in {-1, 0, 1}
      /\ st \in StraightSteps => st[1] = 0 \/ st[2] = 0
  BY DEF StraightSteps, DiagonalSteps
<1>6. m.to[1] = s[1] + st[1] /\ m.to[2] = s[2] + st[2]
  BY <1>1
<1>7. QED
  BY <1>1, <1>3, <1>4, <1>5, <1>6

-----------------------------------------------------------------------------
(***************************************************************************)
(* Walks through the domains                                               *)
(***************************************************************************)

\* The value that a state carries is that of its domain's heuristic.
Carried ==
  \/ /\ dom \in Grids
     /\ state \in Free(dom.world) /\ h = GridH(dom.world, state)
  \/ /\ dom \in Puzzles
     /\ state \in Boards /\ h = compute_full(state, dom.cost)

LEMMA DomIs ==
  /\ dom \in Grids => dom.grid /\ IsWorld(dom.world)
  /\ dom \in Puzzles => ~dom.grid /\ IsCost(dom.cost)
BY WalkAssumption DEF Grids, Puzzles

LEMMA WalkBegins == WalkInit => Carried
<1>1. ASSUME NEW d \in Grids, GridRoot(d) PROVE Carried
  <2>1. PICK s \in Free(d.world) : dom = d /\ state = s /\ h = GridH(d.world, s)
    BY <1>1 DEF GridRoot
  <2>2. QED
    BY <2>1 DEF Carried
<1>2. ASSUME NEW d \in Puzzles, TilesRoot(d) PROVE Carried
  <2>1. PICK s \in Boards : dom = d /\ state = s /\ h = compute_full(s, d.cost)
    BY <1>2 DEF TilesRoot
  <2>2. QED
    BY <2>1 DEF Carried
<1>3. QED
  BY <1>1, <1>2 DEF WalkInit

LEMMA CarriedAnchored == Carried => Anchored
<1>1. CASE dom \in Grids /\ state \in Free(dom.world) /\ h = GridH(dom.world, state)
  <2>1. dom.grid /\ IsWorld(dom.world)
    BY <1>1, DomIs
  <2>2. state = dom.world.goal => h = 0
    BY <1>1, <2>1, GridAnchored
  <2>3. QED
    BY <2>1, <2>2 DEF Anchored, IsGoal
<1>2. CASE dom \in Puzzles /\ state \in Boards /\ h = compute_full(state, dom.cost)
  <2>1. ~dom.grid /\ IsCost(dom.cost)
    BY <1>2, DomIs
  <2>2. compute_full(state, dom.cost) = 0 <=> state = TileGoal
    BY <1>2, <2>1, TilesAnchored
  <2>3. QED
    BY <1>2, <2>1, <2>2 DEF Anchored, IsGoal
<1>3. QED
  BY <1>1, <1>2 DEF Carried

LEMMA WalkStep == Carried /\ Walk => Carried' /\ h - h' <= c'
<1>1. ASSUME dom \in Grids, state \in Free(dom.world), h = GridH(dom.world, state), Walk
      PROVE  Carried' /\ h - h' <= c'
  <2>1. dom.grid /\ IsWorld(dom.world)
    BY <1>1, DomIs
  <2>2. PICK m \in GridExpand(dom.world, state) :
          /\ state' = m.to /\ c' = m.cost /\ h' = GridH(dom.world, m.to)
          /\ dom' = dom
    BY <1>1, <2>1 DEF Walk, GridMove, TilesMove
  <2>3. /\ m.to \in Free(dom.world)
        /\ GridH(dom.world, state) - GridH(dom.world, m.to) <= m.cost
    BY <1>1, <2>1, GridConsistent
  <2>4. QED
    BY <1>1, <2>2, <2>3 DEF Carried
<1>2. ASSUME dom \in Puzzles, state \in Boards, h = compute_full(state, dom.cost), Walk
      PROVE  Carried' /\ h - h' <= c'
  <2>1. ~dom.grid /\ IsCost(dom.cost)
    BY <1>2, DomIs
  <2>2. PICK m \in TileExpand(state, gp, dom.cost) :
          /\ state' = m.to /\ c' = m.cost /\ h' = compute_incr(m.to, state, h, dom.cost)
          /\ dom' = dom
    BY <1>2, <2>1 DEF Walk, GridMove, TilesMove
  <2>3. /\ m.to \in Boards
        /\ compute_incr(m.to, state, compute_full(state, dom.cost), dom.cost)
             = compute_full(m.to, dom.cost)
        /\ compute_full(state, dom.cost) - compute_full(m.to, dom.cost) <= m.cost
    BY <1>2, <2>1, TilesConsistent
  <2>4. QED
    BY <1>2, <2>2, <2>3 DEF Carried
<1>3. QED
  BY <1>1, <1>2 DEF Carried

LEMMA WalkCarries == WalkSpec => []Carried
<1>1. Carried /\ [Walk]_walkVars => Carried'
  <2>1. Carried /\ UNCHANGED walkVars => Carried'
    BY DEF Carried, walkVars
  <2>2. QED
    BY <2>1, WalkStep
<1>2. QED
  BY <1>1, WalkBegins, PTL DEF WalkSpec

\* In every world and every puzzle no move lowers the heuristic value by more
\* than it costs, the values that ManhattanDist adds up along a path are those
\* that it computes from scratch, and goals have the value 0.
THEOREM HeuristicsAreConsistent == WalkSpec => HeuristicConsistent
<1>1. Carried /\ Carried' /\ [Walk]_walkVars => [Anchored' /\ h - h' <= c']_walkVars
  <2>1. Carried' => Anchored'
    BY CarriedAnchored, PTL
  <2>2. QED
    BY <2>1, WalkStep
<1>2. QED
  BY <1>1, WalkCarries, PTL DEF WalkSpec, HeuristicConsistent

\* In every world and every puzzle different states have different hash
\* values, which the lists that compare hashes take for granted.
THEOREM HashesAreUnique == WalkSpec => []HashUnique
<1>1. Carried => HashUnique
  <2>1. CASE dom \in Grids /\ state \in Free(dom.world)
    <3>1. dom.grid /\ IsWorld(dom.world)
      BY <2>1, DomIs
    <3>2. state \in Cells(dom.world)
      BY <2>1 DEF Free
    <3>3. \A s \in Cells(dom.world) :
            GridHash(dom.world, s) = GridHash(dom.world, state) => s = state
      BY <3>1, <3>2, CellHashes
    <3>4. QED
      BY <3>1, <3>3 DEF HashUnique
  <2>2. CASE dom \in Puzzles
    <3>1. ~dom.grid
      BY <2>2, DomIs
    <3>2. QED
      BY <3>1, AsManyHashes DEF HashUnique
  <2>3. QED
    BY <2>1, <2>2 DEF Carried
<1>2. QED
  BY <1>1, WalkCarries, PTL

\* In every grid world a move leads to the same block or to a successor of its
\* block, of which that is a predecessor, in each projection by rows and in
\* each coarse one that divides the world evenly: the part of ProjectionSound
\* about grids.
THEOREM GridProjectionsAreSound ==
  WalkSpec => [][dom.grid => RowModKnown /\ CoarseKnown]_walkVars
<1>1. ASSUME Carried, [Walk]_walkVars
      PROVE  [dom.grid => RowModKnown /\ CoarseKnown]_walkVars
  <2> SUFFICES ASSUME Walk, dom.grid PROVE RowModKnown /\ CoarseKnown
    BY <1>1
  <2>1. dom \in Grids /\ state \in Free(dom.world)
    BY <1>1, DomIs DEF Carried
  <2>2. IsWorld(dom.world)
    BY <2>1, DomIs
  <2>3. PICK m \in GridExpand(dom.world, state) : state' = m.to
    BY DEF Walk, GridMove, TilesMove
  <2>4. /\ state \in Cells(dom.world) /\ state' \in Cells(dom.world)
        /\ state'[1] \in {state[1] - 1, state[1], state[1] + 1}
        /\ state'[2] \in {state[2] - 1, state[2], state[2] + 1}
        /\ dom.world.eight \/ state'[1] = state[1] \/ state'[2] = state[2]
    BY <2>1, <2>2, <2>3, GridProjected
  <2>5. state[2] \in Nat /\ state'[2] \in Nat
    BY <2>2, <2>4, CellsAreNat
  <2>6. RowModKnown
    <3> SUFFICES ASSUME NEW n \in RowMods
                 PROVE  Known(RowModBlock(n, state), RowModBlock(n, state'), n,
                              LAMBDA b : RowModNeighbors(n, b))
      BY DEF RowModKnown
    <3>1. n \in Nat /\ n # 0
      BY WalkAssumption
    <3>2. QED
      BY <2>4, <2>5, <3>1, RowModSound
  <2>7. CoarseKnown
    <3> SUFFICES ASSUME NEW cr \in Coarses, Even(dom.world, cr)
                 PROVE  LET p == Coarse(dom.world, cr[1], cr[2])
                        IN  Known(CoarseBlock(p, state), CoarseBlock(p, state'),
                                  CoarseBlocks(p), LAMBDA b : CoarseNeighbors(p, b))
      BY DEF CoarseKnown
    <3>1. cr \in (Nat \ {0}) \X (Nat \ {0})
      BY WalkAssumption
    <3> DEFINE p == Coarse(dom.world, cr[1], cr[2])
    <3>2. Adjacent(p, CoarseBlock(p, state), CoarseBlock(p, state'))
      BY <2>2, <2>4, <3>1, CoarseSound
    <3>3. Known(CoarseBlock(p, state), CoarseBlock(p, state'), CoarseBlocks(p),
                LAMBDA b : CoarseNeighbors(p, b))
      BY <3>2 DEF Known, Adjacent
    <3>4. QED
      BY <3>3
  <2>8. QED
    BY <2>6, <2>7
<1>2. QED
  BY <1>1, WalkCarries, PTL DEF WalkSpec
=============================================================================
