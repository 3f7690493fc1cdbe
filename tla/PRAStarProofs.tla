---------------------------- MODULE PRAStarProofs ----------------------------
(***************************************************************************)
(* Proofs about PRAStar for any number of threads, any state space and any *)
(* distribution of its states.                                             *)
(*                                                                         *)
(* The completion counter is the number of threads that are complete, and  *)
(* a thread that is complete has nothing: no open node, no message in its  *)
(* queue, and none in its buffers, although it may last have looked there  *)
(* long ago.  What it has seen stays true until someone sends it a node,   *)
(* and who does takes its completion back in the same critical section.    *)
(***************************************************************************)
EXTENDS PRAStar, SearchSpaceProofs

\* The places at which a thread is expanding a node, or publishing it.
Handling == {"see", "get", "cas", "expand"}

\* The places inside take, but for the place where it chooses a node.
Taking == {"flush", "check", "while", "lock", "busy", "relock", "recv", "test"}

\* The counter counts.
CounterExact == counter = Cardinality({t \in Threads : completed[t]})

\* Messages are where their receiver looks for them.
Routed ==
  \A t \in Threads :
    /\ \A m \in q[t] : Owner[m.to] = t
    /\ out[t][t] = {}
    /\ \A u \in Threads : /\ \A m \in out[t][u] : Owner[m.to] = u
                          /\ ~opt.send => out[t][u] = {}

\* A queue that is not empty is not marked as empty.
FlagSound == \A t \in Threads : q_empty[t] => q[t] = {}

\* Only a thread that expands a node has children in its hands.
HandsFree == \A t \in Threads : pc[t] \notin Handling => kids[t] = {}

\* What a thread in take may have to send and does not know of, it is about
\* to see.
SendsKnown ==
  \A t \in Threads :
    pc[t] \in Taking =>
      /\ ~has_sends[t] => \A u \in Threads : out[t][u] = {} \/ u \in visit[t]
      /\ pc[t] # "flush" => visit[t] = {}

\* Before the loop a thread receives only if there is something.
LockReason == \A t \in Threads : pc[t] = "lock" => looping[t] \/ ~q_empty[t]

\* A complete thread has nothing, and it leaves its wait, to find the search
\* over, only when all threads are complete.
CompleteIdle ==
  \A t \in Threads :
    completed[t] =>
      /\ q_empty[t] /\ looping[t]
      /\ \A s \in open : Owner[s] # t
      /\ \A u \in Threads : out[t][u] = {}
      /\ \/ pc[t] = "busy"
         \/ Complete /\ pc[t] \in {"relock", "test"}
         \/ done /\ pc[t] \in {"run", "ended"}

DoneComplete == done => Complete

CInv ==
  /\ TypeOK /\ CounterExact /\ Routed /\ FlagSound /\ HandsFree /\ SendsKnown
  /\ LockReason /\ CompleteIdle /\ DoneComplete

-----------------------------------------------------------------------------
(***************************************************************************)
(* Types                                                                   *)
(***************************************************************************)

USE PRAStarAssumption, SpaceAssumption

\* The threads are finite in number, and so are the complete ones.
LEMMA ThreadsFinite ==
  /\ Cardinality(Threads) \in Nat
  /\ \A S \in SUBSET Threads :
       /\ IsFiniteSet(S) /\ Cardinality(S) \in 0..Cardinality(Threads)
       /\ Cardinality(S) >= Cardinality(Threads) => S = Threads
<1>1. ASSUME NEW S \in SUBSET Threads
      PROVE  /\ IsFiniteSet(S) /\ Cardinality(S) <= Cardinality(Threads)
             /\ Cardinality(S) = Cardinality(Threads) => S = Threads
  BY FS_Subset
<1>2. Cardinality(Threads) \in Nat
  BY FS_CardinalityType
<1>3. \A S \in SUBSET Threads : Cardinality(S) \in Nat
  BY <1>1, FS_CardinalityType
<1>4. QED
  BY <1>1, <1>2, <1>3

\* The counter has reached the number of threads when all are complete.
LEMMA AllComplete ==
  ASSUME TypeOK, CounterExact
  PROVE  Complete <=> \A t \in Threads : completed[t]
<1> DEFINE S == {t \in Threads : completed[t]}
<1>1. counter = Cardinality(S) /\ S \in SUBSET Threads
  BY DEF CounterExact
<1>2. S = Threads <=> \A t \in Threads : completed[t]
  BY DEF TypeOK
<1>3. Complete => S = Threads
  BY <1>1, ThreadsFinite DEF Complete
<1>4. S = Threads => Complete
  <2>1. S = Threads => counter = Cardinality(Threads)
    BY <1>1
  <2>2. QED
    BY <2>1, ThreadsFinite DEF Complete
<1>5. QED
  BY <1>2, <1>3, <1>4

\* A node that is added keeps the table of nodes in type.
LEMMA AddNodeType ==
  ASSUME TypeOK, NEW m \in Message, AddNode(m)
  PROVE  /\ g' \in [States -> 0..Infinity]
         /\ parent' \in [States -> States \cup {NoState}]
         /\ open' \subseteq {s \in States : g'[s] # Infinity}
         /\ open' \subseteq open \cup {m.to}
<1>1. m.to \in States /\ m.from \in States /\ m.g \in Nat
  BY DEF Message
<1>2. CASE m.g < g[m.to]
  <2>1. /\ g' = [g EXCEPT ![m.to] = m.g]
        /\ parent' = [parent EXCEPT ![m.to] = m.from]
        /\ open' \subseteq open \cup {m.to}
    BY <1>2 DEF AddNode
  <2>2. m.g \in 0..Infinity /\ m.g # Infinity
    BY <1>1, <1>2 DEF TypeOK
  <2>3. \A s \in open \cup {m.to} : s \in States /\ g'[s] # Infinity
    BY <1>1, <2>1, <2>2 DEF TypeOK
  <2>4. QED
    BY <1>1, <2>1, <2>2, <2>3 DEF TypeOK
<1>3. CASE ~(m.g < g[m.to])
  BY <1>3 DEF AddNode, TypeOK, nodeVars
<1>4. QED
  BY <1>2, <1>3

LEMMA ChildrenType ==
  ASSUME TypeOK, NEW s \in States
  PROVE  Children(s) \subseteq Message
BY DEF Children, Message, TypeOK

\* The flags after a send.
LEMMA PostSendType ==
  ASSUME TypeOK, NEW u \in Threads, PostSend(u)
  PROVE  /\ completed' \in [Threads -> BOOLEAN]
         /\ q_empty' \in [Threads -> BOOLEAN]
BY DEF PostSend, TypeOK

\* What a send leaves in order.
LEMMA DeliverType ==
  ASSUME TypeOK, NEW u \in Threads, NEW S \in SUBSET Message, Deliver(u, S)
  PROVE  /\ q' \in [Threads -> SUBSET Message]
         /\ completed' \in [Threads -> BOOLEAN]
         /\ q_empty' \in [Threads -> BOOLEAN]
<1>1. PostSend(u) /\ q' = [q EXCEPT ![u] = @ \cup S]
  BY DEF Deliver
<1>2. QED
  BY <1>1, PostSendType DEF TypeOK

\* The places of a thread.
Places == {"run", "flush", "check", "while", "lock", "busy", "relock", "recv",
           "test", "take", "see", "get", "cas", "expand", "ended"}

\* All of TypeOK but for the counter, after a step.
Typed ==
  /\ opt \in Options
  /\ g \in [States -> 0..Infinity]
  /\ parent \in [States -> States \cup {NoState}]
  /\ open \subseteq {s \in States : g[s] # Infinity}
  /\ q \in [Threads -> SUBSET Message] /\ kids \in [Threads -> SUBSET Message]
  /\ out \in [Threads -> [Threads -> SUBSET Message]]
  /\ q_empty \in [Threads -> BOOLEAN]
  /\ mutex \in [Threads -> Threads \cup {NoThread}]
  /\ completed \in [Threads -> BOOLEAN]
  /\ done \in BOOLEAN
  /\ looping \in [Threads -> BOOLEAN] /\ has_sends \in [Threads -> BOOLEAN]
  /\ {bound, solution} \subseteq 0..Infinity /\ sol \in [Threads -> 0..Infinity]
  /\ pc \in [Threads -> Places]
  /\ visit \in [Threads -> SUBSET Threads]
  /\ expansions \in [Threads -> 0..opt.max_exp]

LEMMA TypeParts == TypeOK <=> Typed /\ counter \in 0..Cardinality(Threads)
BY DEF TypeOK, Typed, Places

\* The least of two numbers.
LEMMA MinOfTwo ==
  ASSUME NEW x \in 0..Infinity, NEW y \in 0..Infinity
  PROVE  /\ Min({x, y}) \in {x, y}
         /\ Min({x, y}) <= x /\ Min({x, y}) <= y
<1>1. {x, y} \in SUBSET Nat /\ {x, y} # {}
  OBVIOUS
<1>2. QED
  BY <1>1, MinIsLeast

LEMMA TypeStep ==
  ASSUME TypeOK, NEW t \in Threads, Step(t)
  PROVE  Typed'
<1>0. Typed
  BY TypeParts
<1> USE <1>0 DEF Typed, Places, Goto
<1>1. CASE Leave(t)
  BY <1>1 DEF Leave, nodeVars, queueVars, pathVars, takeVars
<1>2. CASE EnterTake(t)
  <2>1. expansions' \in [Threads -> 0..opt.max_exp]
    <3>1. opt.max_exp \in Nat
      OBVIOUS
    <3>2. CASE opt.max_exp = 0 \/ expansions[t] + 1 > opt.max_exp
      BY <1>2, <3>1, <3>2 DEF EnterTake
    <3>3. CASE ~(opt.max_exp = 0 \/ expansions[t] + 1 > opt.max_exp)
      <4>1. expansions' = [expansions EXCEPT ![t] = @ + 1]
        BY <1>2, <3>3 DEF EnterTake
      <4>2. expansions[t] + 1 \in 0..opt.max_exp
        BY <3>1, <3>3
      <4>3. QED
        BY <4>1, <4>2
    <3>4. QED
      BY <3>2, <3>3
  <2>2. visit' \in [Threads -> SUBSET Threads]
    BY <1>2 DEF EnterTake
  <2>3. has_sends' \in [Threads -> BOOLEAN] /\ looping' \in [Threads -> BOOLEAN]
    BY <1>2, Zenon DEF EnterTake
  <2>4. pc' \in [Threads -> Places]
    BY <1>2 DEF EnterTake
  <2>5. UNCHANGED <<opt, nodeVars, queueVars, out, mutex, done, pathVars, kids>>
    BY <1>2 DEF EnterTake
  <2>6. QED
    BY <2>1, <2>2, <2>3, <2>4, <2>5 DEF nodeVars, queueVars, pathVars
<1>3. CASE EndFlush(t)
  BY <1>3 DEF EndFlush, nodeVars, queueVars, pathVars, takeVars
<1>4. CASE CheckQueue(t)
  BY <1>4 DEF CheckQueue, nodeVars, queueVars, pathVars, takeVars
<1>5. CASE Loop(t)
  BY <1>5 DEF Loop, nodeVars, queueVars, pathVars, takeVars
<1>6. CASE EndLoop(t)
  BY <1>6 DEF EndLoop, nodeVars, queueVars, pathVars, takeVars
<1>7. CASE SkipReceive(t)
  BY <1>7 DEF SkipReceive, AfterReceive, nodeVars, queueVars, pathVars, takeVars
<1>8. CASE BecomeComplete(t)
  BY <1>8 DEF BecomeComplete, nodeVars, queueVars, pathVars, takeVars
<1>9. CASE StartReceive(t)
  BY <1>9 DEF StartReceive, nodeVars, queueVars, pathVars, takeVars
<1>10. CASE StopSpinning(t)
  BY <1>10 DEF StopSpinning, nodeVars, queueVars, pathVars, takeVars
<1>11. CASE Relock(t)
  <2>1. CASE Complete
    BY <1>11, <2>1, ZenonT(60) DEF Relock, AfterReceive, nodeVars, queueVars, pathVars, takeVars
  <2>2. CASE ~Complete
    <3>1. /\ pc' = [pc EXCEPT ![t] = "recv"] /\ mutex' = [mutex EXCEPT ![t] = t]
          /\ UNCHANGED <<opt, nodeVars, queueVars, out, done, pathVars, takeVars,
                         kids>>
      BY <1>11, <2>2 DEF Relock
    <3>2. QED
      BY <3>1 DEF nodeVars, queueVars, pathVars, takeVars
  <2>3. QED
    BY <2>1, <2>2
<1>12. CASE Receive(t)
  <2>1. PICK m \in q[t] :
          /\ q' = [q EXCEPT ![t] = @ \ {m}]
          /\ UNCHANGED nodeVars \/ AddNode(m)
    BY <1>12 DEF Receive
  <2>2. m \in Message /\ q' \in [Threads -> SUBSET Message]
    BY <2>1
  <2>3. /\ g' \in [States -> 0..Infinity]
        /\ parent' \in [States -> States \cup {NoState}]
        /\ open' \subseteq {s \in States : g'[s] # Infinity}
    BY <2>1, <2>2, AddNodeType DEF nodeVars
  <2>4. UNCHANGED <<opt, q_empty, completed, counter, out, mutex, done, pathVars,
                    pc, takeVars, kids>>
    BY <1>12 DEF Receive
  <2>5. QED
    BY <2>2, <2>3, <2>4 DEF pathVars, takeVars
<1>13. CASE EndReceive(t)
  BY <1>13 DEF EndReceive, AfterReceive, nodeVars, queueVars, pathVars, takeVars
<1>14. CASE TestComplete(t)
  BY <1>14, ZenonT(60) DEF TestComplete, nodeVars, queueVars, pathVars, takeVars
<1>15. CASE TakeNode(t)
  <2>1. UNCHANGED <<opt, g, parent, queueVars, out, mutex, done, bound, solution,
                    takeVars>>
    BY <1>15 DEF TakeNode
  <2>2. CASE done
    <3>1. pc' = [pc EXCEPT ![t] = "run"] /\ UNCHANGED <<open, kids, sol>>
      BY <1>15, <2>2 DEF TakeNode
    <3>2. QED
      BY <2>1, <3>1 DEF queueVars, takeVars
  <2>3. CASE ~done
    <3>1. PICK s \in Open(t) :
            /\ open' = LeftOpen(t, s)
            /\ IF ~InBound(g[s] + H[s])
               THEN Goto(t, "run") /\ UNCHANGED <<kids, sol>>
               ELSE /\ kids' = [kids EXCEPT ![t] = Children(s)]
                    /\ IF s \in Goals
                       THEN Goto(t, "see") /\ sol' = [sol EXCEPT ![t] = g[s]]
                       ELSE Goto(t, "expand") /\ UNCHANGED sol
      BY <1>15, <2>3 DEF TakeNode
    <3>2. s \in States /\ g[s] \in 0..Infinity /\ Children(s) \subseteq Message
      BY ChildrenType DEF Open
    <3>3. open' \subseteq open
      BY <3>1 DEF LeftOpen
    <3>4. /\ kids' \in [Threads -> SUBSET Message]
          /\ sol' \in [Threads -> 0..Infinity] /\ pc' \in [Threads -> Places]
      <4>1. CASE ~InBound(g[s] + H[s])
        BY <3>1, <4>1
      <4>2. CASE InBound(g[s] + H[s])
        <5>1. kids' = [kids EXCEPT ![t] = Children(s)]
          BY <3>1, <4>2
        <5>2. \/ /\ pc' = [pc EXCEPT ![t] = "see"]
                 /\ sol' = [sol EXCEPT ![t] = g[s]]
              \/ pc' = [pc EXCEPT ![t] = "expand"] /\ UNCHANGED sol
          BY <3>1, <4>2
        <5>3. QED
          BY <3>2, <5>1, <5>2
      <4>3. QED
        BY <4>1, <4>2
    <3>5. QED
      BY <2>1, <3>3, <3>4 DEF queueVars, takeVars
  <2>4. QED
    BY <2>2, <2>3
<1>16. CASE SeeSolution(t)
  <2>1. solution' \in 0..Infinity
    <3>1. Min({solution, sol[t]}) \in {solution, sol[t]}
      BY MinOfTwo
    <3>2. QED
      BY <1>16, <3>1 DEF SeeSolution
  <2>2. QED
    BY <1>16, <2>1 DEF SeeSolution, nodeVars, queueVars, takeVars
<1>17. CASE GetBestPath(t)
  BY <1>17 DEF GetBestPath, nodeVars, queueVars, takeVars
<1>18. CASE SetBound(t)
  <2>1. bound' \in 0..Infinity
    BY <1>18, MinOfTwo, SMTT(30) DEF SetBound
  <2>2. QED
    BY <1>18, <2>1 DEF SetBound, nodeVars, queueVars, takeVars
<1>19. CASE SendChild(t)
  <2>1. UNCHANGED <<opt, mutex, done, pathVars, pc, takeVars>>
    BY <1>19 DEF SendChild
  <2>2. PICK m \in kids[t] :
          /\ \/ DropChild(t, m) \/ SelfAdd(t, m)
             \/ SyncSend(t, m) \/ AsyncSend(t, m) \/ Buffer(t, m)
          /\ kids' = [kids EXCEPT ![t] = @ \ {m}]
    BY <1>19 DEF SendChild
  <2>3. m \in Message /\ Owner[m.to] \in Threads
    BY DEF Message
  <2>4. kids' \in [Threads -> SUBSET Message]
    BY <2>2
  <2>5. CASE DropChild(t, m)
    BY <2>1, <2>4, <2>5 DEF DropChild, pathVars, takeVars, nodeVars, queueVars
  <2>6. CASE SelfAdd(t, m)
    <3>1. AddNode(m) /\ UNCHANGED <<queueVars, out>>
      BY <2>6 DEF SelfAdd
    <3>2. QED
      BY <2>1, <2>3, <2>4, <3>1, AddNodeType DEF pathVars, takeVars, queueVars
  <2>7. CASE SyncSend(t, m)
    <3>1. Deliver(Owner[m.to], {m}) /\ UNCHANGED <<nodeVars, out>>
      BY <2>7 DEF SyncSend
    <3>2. QED
      BY <2>1, <2>3, <2>4, <3>1, DeliverType DEF pathVars, takeVars, nodeVars
  <2>8. CASE AsyncSend(t, m)
    <3>1. /\ Deliver(Owner[m.to], out[t][Owner[m.to]] \cup {m}) /\ UNCHANGED nodeVars
          /\ out' = [out EXCEPT ![t][Owner[m.to]] = {}]
      BY <2>8 DEF AsyncSend
    <3>2. out[t][Owner[m.to]] \cup {m} \in SUBSET Message
      BY <2>3
    <3>3. QED
      BY <2>1, <2>3, <2>4, <3>1, <3>2, DeliverType DEF pathVars, takeVars, nodeVars
  <2>9. CASE Buffer(t, m)
    BY <2>1, <2>3, <2>4, <2>9 DEF Buffer, pathVars, takeVars, nodeVars, queueVars
  <2>10. QED
    BY <2>2, <2>5, <2>6, <2>7, <2>8, <2>9
<1>20. CASE EndExpand(t)
  BY <1>20 DEF EndExpand, nodeVars, queueVars, pathVars, takeVars
<1>21. ASSUME NEW u \in Threads, Flush(t, u) PROVE Typed'
  <2>1. Deliver(u, out[t][u]) /\ out[t][u] \in SUBSET Message
    BY <1>21 DEF Flush
  <2>2. QED
    BY <1>21, <2>1, DeliverType DEF Flush, nodeVars, pathVars
<1>22. ASSUME NEW u \in Threads, NoFlush(t, u) PROVE Typed'
  BY <1>22 DEF NoFlush, nodeVars, queueVars, pathVars
<1>23. QED
  BY <1>1, <1>2, <1>3, <1>4, <1>5, <1>6, <1>7, <1>8, <1>9, <1>10, <1>11, <1>12,
     <1>13, <1>14, <1>15, <1>16, <1>17, <1>18, <1>19, <1>20, <1>21, <1>22
  DEF Step

-----------------------------------------------------------------------------
(***************************************************************************)
(* Who changes what                                                        *)
(***************************************************************************)

\* The steps that touch no queue and no buffer.
QuietStep(t) ==
  \/ Leave(t) \/ EnterTake(t) \/ EndFlush(t) \/ CheckQueue(t) \/ Loop(t)
  \/ EndLoop(t) \/ SkipReceive(t) \/ StartReceive(t) \/ StopSpinning(t)
  \/ Relock(t) \/ TestComplete(t) \/ TakeNode(t) \/ SeeSolution(t)
  \/ GetBestPath(t) \/ SetBound(t) \/ EndExpand(t)
  \/ \E u \in Threads : NoFlush(t, u)

LEMMA StepKinds ==
  ASSUME NEW t \in Threads, Step(t)
  PROVE  \/ QuietStep(t) \/ BecomeComplete(t) \/ Receive(t) \/ EndReceive(t)
         \/ SendChild(t) \/ \E u \in Threads : Flush(t, u)
BY DEF Step, QuietStep

LEMMA QuietFrame ==
  ASSUME NEW t \in Threads, QuietStep(t)
  PROVE  UNCHANGED <<queueVars, out>>
BY DEF QuietStep, Leave, EnterTake, EndFlush, CheckQueue, Loop, EndLoop,
       SkipReceive, StartReceive, StopSpinning, Relock, TestComplete, TakeNode,
       SeeSolution, GetBestPath, SetBound, EndExpand, NoFlush

\* The options never change, and an ended search stays ended.
LEMMA OptionsStay ==
  ASSUME NEW t \in Threads, Step(t)
  PROVE  opt' = opt /\ (done => done')
BY DEF Step, Leave, EnterTake, EndFlush, CheckQueue, Loop, EndLoop, SkipReceive,
       BecomeComplete, StartReceive, StopSpinning, Relock, Receive, EndReceive,
       TestComplete, TakeNode, SeeSolution, GetBestPath, SetBound, SendChild,
       EndExpand, Flush, NoFlush

\* The ways a child is sent, each with what it does to queues and buffers.
Sent(t, m) ==
  \/ ~Promising(m) /\ UNCHANGED <<nodeVars, queueVars, out>>
  \/ Owner[m.to] = t /\ AddNode(m) /\ UNCHANGED <<queueVars, out>>
  \/ Owner[m.to] # t /\ Deliver(Owner[m.to], {m}) /\ UNCHANGED <<nodeVars, out>>
  \/ /\ Owner[m.to] # t
     /\ Deliver(Owner[m.to], out[t][Owner[m.to]] \cup {m})
     /\ out' = [out EXCEPT ![t][Owner[m.to]] = {}]
     /\ UNCHANGED nodeVars
  \/ /\ Owner[m.to] # t /\ opt.send
     /\ out' = [out EXCEPT ![t][Owner[m.to]] = out[t][Owner[m.to]] \cup {m}]
     /\ UNCHANGED <<nodeVars, queueVars>>

LEMMA SendKinds ==
  ASSUME TypeOK, NEW t \in Threads, SendChild(t)
  PROVE  \E m \in kids[t] :
           /\ m \in Message /\ Owner[m.to] \in Threads
           /\ kids' = [kids EXCEPT ![t] = @ \ {m}]
           /\ UNCHANGED <<opt, mutex, done, pathVars, pc, takeVars>>
           /\ Sent(t, m)
<1>1. \A m \in kids[t] : m \in Message /\ Owner[m.to] \in Threads
  BY DEF TypeOK, Message
<1>2. QED
  BY <1>1 DEF SendChild, DropChild, SelfAdd, SyncSend, AsyncSend, Buffer, Sent

\* A delivery touches the receiver's queue and flags only.
LEMMA DeliverFrame ==
  ASSUME TypeOK, NEW u \in Threads, NEW S, Deliver(u, S)
  PROVE  /\ \A v \in Threads : v # u => /\ q'[v] = q[v] /\ q_empty'[v] = q_empty[v]
                                        /\ completed'[v] = completed[v]
         /\ q'[u] = q[u] \cup S /\ q_empty'[u] = FALSE /\ completed'[u] = FALSE
BY DEF Deliver, PostSend, TypeOK

\* A thread changes its own place and variables only; to the others it can
\* only give work.
LEMMA OthersStay ==
  ASSUME TypeOK, NEW t \in Threads, Step(t), NEW v \in Threads, v # t
  PROVE  /\ pc'[v] = pc[v] /\ looping'[v] = looping[v] /\ visit'[v] = visit[v]
         /\ has_sends'[v] = has_sends[v] /\ kids'[v] = kids[v]
         /\ out'[v] = out[v] /\ sol'[v] = sol[v]
         /\ completed'[v] => completed[v] /\ q_empty'[v] = q_empty[v]
         /\ q_empty'[v] => q_empty[v]
<1> USE DEF TypeOK, Goto
<1>1. /\ pc'[v] = pc[v] /\ looping'[v] = looping[v] /\ visit'[v] = visit[v]
      /\ has_sends'[v] = has_sends[v]
  BY DEF Step, Leave, EnterTake, EndFlush, CheckQueue, Loop, EndLoop, SkipReceive,
       BecomeComplete, StartReceive, StopSpinning, Relock, Receive, EndReceive,
       TestComplete, TakeNode, SeeSolution, GetBestPath, SetBound, SendChild,
       EndExpand, Flush, NoFlush, takeVars
<1>2. kids'[v] = kids[v] /\ sol'[v] = sol[v]
  BY DEF Step, Leave, EnterTake, EndFlush, CheckQueue, Loop, EndLoop, SkipReceive,
       BecomeComplete, StartReceive, StopSpinning, Relock, Receive, EndReceive,
       TestComplete, TakeNode, SeeSolution, GetBestPath, SetBound, SendChild,
       EndExpand, Flush, NoFlush, pathVars
<1>3. /\ out'[v] = out[v]
      /\ completed'[v] => completed[v] /\ q_empty'[v] = q_empty[v]
      /\ q_empty'[v] => q_empty[v]
  <2>1. CASE QuietStep(t)
    BY <2>1, QuietFrame DEF queueVars
  <2>2. CASE BecomeComplete(t) \/ Receive(t) \/ EndReceive(t)
    BY <2>2 DEF BecomeComplete, Receive, EndReceive
  <2>3. CASE SendChild(t)
    <3>0. PICK m \in kids[t] : Owner[m.to] \in Threads /\ Sent(t, m)
      BY <2>3, SendKinds
    <3>1. \/ UNCHANGED <<queueVars, out>>
          \/ Deliver(Owner[m.to], {m}) /\ UNCHANGED out
          \/ /\ Deliver(Owner[m.to], out[t][Owner[m.to]] \cup {m})
             /\ out' = [out EXCEPT ![t][Owner[m.to]] = {}]
          \/ /\ out' = [out EXCEPT ![t][Owner[m.to]] = out[t][Owner[m.to]] \cup {m}]
             /\ UNCHANGED queueVars
      BY <3>0 DEF Sent
    <3>2. out'[v] = out[v]
      BY <3>0, <3>1
    <3>3. CASE UNCHANGED queueVars
      BY <3>2, <3>3 DEF queueVars
    <3>4. CASE ~UNCHANGED queueVars
      BY <3>0, <3>1, <3>2, <3>4, DeliverFrame
    <3>5. QED
      BY <3>3, <3>4
  <2>4. ASSUME NEW u \in Threads, Flush(t, u)
        PROVE  /\ out'[v] = out[v]
               /\ completed'[v] => completed[v] /\ q_empty'[v] = q_empty[v]
               /\ q_empty'[v] => q_empty[v]
    BY <2>4, DeliverFrame DEF Flush
  <2>5. QED
    BY <2>1, <2>2, <2>3, <2>4, StepKinds
<1>4. QED
  BY <1>1, <1>2, <1>3

\* New open nodes are the thread's own.
LEMMA OpensOwn ==
  ASSUME TypeOK, Routed, NEW t \in Threads, Step(t), NEW s \in open', s \notin open
  PROVE  Owner[s] = t
<1>1. CASE Receive(t)
  <2>1. PICK m \in q[t] : UNCHANGED nodeVars \/ AddNode(m)
    BY <1>1 DEF Receive
  <2>2. m \in Message /\ Owner[m.to] = t
    BY <2>1 DEF TypeOK, Routed
  <2>3. QED
    BY <2>1, <2>2, AddNodeType DEF nodeVars
<1>2. CASE SendChild(t)
  <2>1. PICK m \in kids[t] : /\ m \in Message
                             /\ UNCHANGED nodeVars \/ (AddNode(m) /\ Owner[m.to] = t)
    BY <1>2, SendKinds DEF Sent
  <2>2. QED
    BY <2>1, AddNodeType DEF nodeVars
<1>3. CASE TakeNode(t)
  BY <1>3 DEF TakeNode, LeftOpen
<1>4. CASE UNCHANGED open
  BY <1>4
<1>5. QED
  BY <1>1, <1>2, <1>3, <1>4
  DEF Step, Leave, EnterTake, EndFlush, CheckQueue, Loop, EndLoop, SkipReceive,
       BecomeComplete, StartReceive, StopSpinning, Relock, EndReceive,
       TestComplete, SeeSolution, GetBestPath, SetBound, EndExpand, Flush,
       NoFlush, nodeVars

-----------------------------------------------------------------------------
(***************************************************************************)
(* The end of the search is seen when it is there                          *)
(***************************************************************************)

\* A complete thread does nothing but to wait for the others, find that all
\* are complete, and leave.
LEMMA CompleteMoves ==
  ASSUME CInv, NEW t \in Threads, completed[t], Step(t)
  PROVE  /\ UNCHANGED <<nodeVars, queueVars, out, kids, looping>>
         /\ \/ Complete /\ pc'[t] \in {"relock", "test"}
            \/ done' /\ pc'[t] \in {"run", "ended"}
<1> USE DEF CInv
<1>1. q_empty[t] /\ looping[t] /\ pc \in [Threads -> Places] /\ (done => Complete)
  BY TypeParts DEF CompleteIdle, DoneComplete, Typed
<1>2. \/ pc[t] = "busy"
      \/ Complete /\ pc[t] \in {"relock", "test"}
      \/ done /\ pc[t] \in {"run", "ended"}
  BY DEF CompleteIdle
<1>3. \/ StopSpinning(t) \/ (Complete /\ Relock(t)) \/ (Complete /\ TestComplete(t))
      \/ (done /\ Leave(t))
  BY <1>2 DEF Step, Leave, EnterTake, EndFlush, CheckQueue, Loop, EndLoop,
       SkipReceive, BecomeComplete, StartReceive, StopSpinning, Relock, Receive,
       EndReceive, TestComplete, TakeNode, SeeSolution, GetBestPath, SetBound,
       SendChild, EndExpand, Flush, NoFlush
<1>4. CASE StopSpinning(t)
  BY <1>1, <1>4 DEF StopSpinning, Goto, takeVars
<1>5. CASE Complete /\ Relock(t)
  BY <1>1, <1>5 DEF Relock, AfterReceive, Goto, takeVars
<1>6. CASE Complete /\ TestComplete(t)
  BY <1>1, <1>6 DEF TestComplete, Goto, takeVars
<1>7. CASE done /\ Leave(t)
  BY <1>1, <1>7 DEF Leave, Goto, takeVars
<1>8. QED
  BY <1>3, <1>4, <1>5, <1>6, <1>7

\* When all threads are complete none takes that back.
LEMMA CompleteStays ==
  ASSUME CInv, NEW t \in Threads, Step(t), Complete
  PROVE  Complete' /\ counter' = counter /\ completed' = completed
<1>1. completed[t]
  BY AllComplete DEF CInv
<1>2. counter' = counter /\ completed' = completed
  BY <1>1, CompleteMoves DEF queueVars
<1>3. QED
  BY <1>2 DEF Complete

\* A send and the receiver's completion are one: the counter still counts.
LEMMA DeliverCounts ==
  ASSUME TypeOK, CounterExact, NEW u \in Threads, NEW S, Deliver(u, S)
  PROVE  CounterExact'
<1> DEFINE C == {t \in Threads : completed[t]}
<1> DEFINE D == {t \in Threads : completed'[t]}
<1>1. /\ completed' = [completed EXCEPT ![u] = FALSE]
      /\ counter' = IF completed[u] THEN counter - 1 ELSE counter
  BY DEF Deliver, PostSend
<1>2. D = C \ {u}
  BY <1>1 DEF TypeOK
<1>3. IsFiniteSet(C) /\ counter = Cardinality(C)
  BY ThreadsFinite DEF CounterExact
<1>4. CASE completed[u]
  <2>1. u \in C
    BY <1>4
  <2>2. Cardinality(C \ {u}) = Cardinality(C) - 1
    BY <1>3, <2>1, FS_RemoveElement
  <2>3. QED
    BY <1>1, <1>2, <1>3, <1>4, <2>2 DEF CounterExact
<1>5. CASE ~completed[u]
  <2>1. D = C
    BY <1>2, <1>5
  <2>2. QED
    BY <1>1, <1>3, <1>5, <2>1 DEF CounterExact
<1>6. QED
  BY <1>4, <1>5

LEMMA CounterStep ==
  ASSUME CInv, NEW t \in Threads, Step(t)
  PROVE  CounterExact'
<1> USE DEF CInv
<1>1. CASE UNCHANGED <<completed, counter>>
  BY <1>1 DEF CounterExact
<1>2. CASE QuietStep(t) \/ Receive(t) \/ EndReceive(t)
  BY <1>1, <1>2, QuietFrame DEF queueVars, Receive, EndReceive
<1>3. CASE BecomeComplete(t)
  <2> DEFINE C == {v \in Threads : completed[v]}
  <2> DEFINE D == {v \in Threads : completed'[v]}
  <2>1. /\ completed' = [completed EXCEPT ![t] = TRUE] /\ counter' = counter + 1
        /\ pc[t] = "lock"
    BY <1>3 DEF BecomeComplete
  <2>2. ~completed[t]
    BY <2>1 DEF CompleteIdle
  <2>3. D = C \cup {t} /\ t \notin C
    BY <2>1, <2>2 DEF TypeOK
  <2>4. IsFiniteSet(C) /\ counter = Cardinality(C)
    BY ThreadsFinite DEF CounterExact
  <2>5. Cardinality(C \cup {t}) = Cardinality(C) + 1
    BY <2>3, <2>4, FS_AddElement
  <2>6. QED
    BY <2>1, <2>3, <2>4, <2>5 DEF CounterExact
<1>4. CASE SendChild(t)
  <2>1. PICK m \in kids[t] : Owner[m.to] \in Threads /\ Sent(t, m)
    BY <1>4, SendKinds
  <2>2. \/ UNCHANGED queueVars
        \/ \E S : Deliver(Owner[m.to], S)
    BY <2>1 DEF Sent
  <2>3. QED
    BY <1>1, <2>1, <2>2, DeliverCounts DEF queueVars
<1>5. ASSUME NEW u \in Threads, Flush(t, u) PROVE CounterExact'
  BY <1>5, DeliverCounts DEF Flush
<1>6. QED
  BY <1>2, <1>3, <1>4, <1>5, StepKinds

\* With the counter exact, all types are kept.
LEMMA TypeKept ==
  ASSUME CInv, NEW t \in Threads, Step(t)
  PROVE  TypeOK'
<1>1. Typed' /\ CounterExact'
  BY TypeStep, CounterStep DEF CInv
<1>2. counter' \in 0..Cardinality(Threads)
  BY <1>1, ThreadsFinite DEF CounterExact
<1>3. QED
  BY <1>1, <1>2 DEF TypeOK, Typed, Places

\* What is delivered to its owner is where its owner looks for it, and the
\* owner is told.
LEMMA DeliverKeeps ==
  ASSUME TypeOK, FlagSound, NEW u \in Threads, NEW S, Deliver(u, S),
         \A m \in S : Owner[m.to] = u,
         \A v \in Threads : \A m \in q[v] : Owner[m.to] = v
  PROVE  FlagSound' /\ \A v \in Threads : \A m \in q'[v] : Owner[m.to] = v
<1>1. /\ \A v \in Threads : v # u => q'[v] = q[v] /\ q_empty'[v] = q_empty[v]
      /\ q'[u] = q[u] \cup S /\ q_empty'[u] = FALSE
  <2>1. /\ q' = [q EXCEPT ![u] = q[u] \cup S]
        /\ q_empty' = [q_empty EXCEPT ![u] = FALSE]
    BY DEF Deliver, PostSend
  <2>2. QED
    BY <2>1 DEF TypeOK
<1>2. FlagSound'
  BY <1>1 DEF FlagSound
<1>3. QED
  BY <1>1, <1>2

LEMMA QueuesStep ==
  ASSUME CInv, NEW t \in Threads, Step(t)
  PROVE  Routed' /\ FlagSound'
<1> USE DEF CInv
<1>0. opt' = opt
  BY OptionsStay
<1>1. CASE QuietStep(t) \/ BecomeComplete(t)
  <2>1. UNCHANGED <<q, q_empty, out>>
    BY <1>1, QuietFrame DEF queueVars, BecomeComplete
  <2>2. QED
    BY <1>0, <2>1 DEF Routed, FlagSound
<1>2. CASE Receive(t)
  <2>1. PICK m \in q[t] : q' = [q EXCEPT ![t] = @ \ {m}]
    BY <1>2 DEF Receive
  <2>2. UNCHANGED <<q_empty, out>>
    BY <1>2 DEF Receive
  <2>3. \A v \in Threads : q'[v] \subseteq q[v]
    BY <2>1 DEF TypeOK
  <2>4. QED
    BY <1>0, <2>2, <2>3 DEF Routed, FlagSound
<1>3. CASE EndReceive(t)
  BY <1>0, <1>3 DEF EndReceive, Routed, FlagSound, TypeOK
<1>4. CASE SendChild(t)
  <2>1. PICK m \in kids[t] : Owner[m.to] \in Threads /\ Sent(t, m)
    BY <1>4, SendKinds
  <2>2. CASE UNCHANGED <<queueVars, out>>
    BY <1>0, <2>2 DEF Routed, FlagSound, queueVars
  <2>3. CASE Deliver(Owner[m.to], {m}) /\ UNCHANGED out
    <3>1. FlagSound' /\ \A v \in Threads : \A n \in q'[v] : Owner[n.to] = v
      BY <2>1, <2>3, DeliverKeeps DEF Routed
    <3>2. QED
      BY <1>0, <2>3, <3>1 DEF Routed
  <2>4. CASE /\ Deliver(Owner[m.to], out[t][Owner[m.to]] \cup {m})
             /\ out' = [out EXCEPT ![t][Owner[m.to]] = {}]
    <3>1. \A n \in out[t][Owner[m.to]] \cup {m} : Owner[n.to] = Owner[m.to]
      BY <2>1 DEF Routed
    <3>2. FlagSound' /\ \A v \in Threads : \A n \in q'[v] : Owner[n.to] = v
      BY <2>1, <2>4, <3>1, DeliverKeeps DEF Routed
    <3>3. \A v, u \in Threads : out'[v][u] = {} \/ out'[v][u] = out[v][u]
      BY <2>1, <2>4 DEF TypeOK
    <3>4. QED
      BY <1>0, <3>2, <3>3 DEF Routed
  <2>5. CASE /\ UNCHANGED queueVars /\ Owner[m.to] # t /\ opt.send
             /\ out' = [out EXCEPT ![t][Owner[m.to]] = out[t][Owner[m.to]] \cup {m}]
    <3>1. \A v, u \in Threads :
            \/ out'[v][u] = out[v][u]
            \/ v # u /\ u = Owner[m.to] /\ out'[v][u] = out[v][u] \cup {m}
      BY <2>1, <2>5 DEF TypeOK
    <3>2. Routed'
      BY <1>0, <2>5, <3>1 DEF Routed, queueVars
    <3>3. QED
      BY <2>5, <3>2 DEF FlagSound, queueVars
  <2>6. QED
    BY <2>1, <2>2, <2>3, <2>4, <2>5 DEF Sent
<1>5. ASSUME NEW u \in Threads, Flush(t, u) PROVE Routed' /\ FlagSound'
  <2>1. Deliver(u, out[t][u]) /\ out' = [out EXCEPT ![t][u] = {}]
    BY <1>5 DEF Flush
  <2>2. FlagSound' /\ \A v \in Threads : \A n \in q'[v] : Owner[n.to] = v
    BY <2>1, DeliverKeeps DEF Routed
  <2>3. \A v, w \in Threads : out'[v][w] = {} \/ out'[v][w] = out[v][w]
    BY <2>1 DEF TypeOK
  <2>4. QED
    BY <1>0, <2>2, <2>3 DEF Routed
<1>6. QED
  BY <1>1, <1>2, <1>3, <1>4, <1>5, StepKinds

\* A thread's hands are empty when it has expanded its node.
LEMMA HandsStep ==
  ASSUME CInv, NEW t \in Threads, Step(t)
  PROVE  HandsFree'
<1> USE DEF CInv
<1> SUFFICES ASSUME NEW v \in Threads, pc'[v] \notin Handling
             PROVE  kids'[v] = {}
  BY DEF HandsFree
<1>1. CASE v # t
  BY <1>1, OthersStay DEF HandsFree
<1>2. CASE v = t
  <2> USE <1>2 DEF TypeOK, HandsFree, Handling, Goto
  <2>1. CASE TakeNode(t)
    <3>1. CASE UNCHANGED kids
      BY <2>1, <3>1 DEF TakeNode
    <3>2. CASE ~UNCHANGED kids
      <4>1. PICK s \in Open(t) :
              IF s \in Goals THEN Goto(t, "see") ELSE Goto(t, "expand")
        BY <2>1, <3>2 DEF TakeNode
      <4>2. pc'[t] \in {"see", "expand"}
        BY <4>1
      <4>3. QED
        BY <4>2
    <3>3. QED
      BY <3>1, <3>2
  <2>2. CASE SendChild(t)
    BY <2>2 DEF SendChild
  <2>3. CASE ~TakeNode(t) /\ ~SendChild(t)
    BY <2>3 DEF Step, Leave, EnterTake, EndFlush, CheckQueue, Loop, EndLoop,
         SkipReceive, BecomeComplete, StartReceive, StopSpinning, Relock, Receive,
         EndReceive, TestComplete, SeeSolution, GetBestPath, SetBound, EndExpand,
         Flush, NoFlush
  <2>4. QED
    BY <2>1, <2>2, <2>3
<1>3. QED
  BY <1>1, <1>2

LEMMA SendsStep ==
  ASSUME CInv, NEW t \in Threads, Step(t)
  PROVE  SendsKnown'
<1> USE DEF CInv
<1>1. ASSUME NEW v \in Threads, v # t, pc'[v] \in Taking
      PROVE  /\ ~has_sends'[v] => \A u \in Threads : out'[v][u] = {} \/ u \in visit'[v]
             /\ pc'[v] # "flush" => visit'[v] = {}
  BY <1>1, OthersStay DEF SendsKnown
<1>2. ASSUME pc'[t] \in Taking
      PROVE  /\ ~has_sends'[t] => \A u \in Threads : out'[t][u] = {} \/ u \in visit'[t]
             /\ pc'[t] # "flush" => visit'[t] = {}
  <2> USE <1>2 DEF TypeOK, Goto, Taking
  <2>0. /\ out[t][t] = {}
        /\ \A u \in Threads : ~opt.send => out[t][u] = {}
    BY DEF Routed
  <2>1. CASE EnterTake(t)
    <3>1. /\ pc' = [pc EXCEPT ![t] = "flush"] /\ UNCHANGED out
          /\ \/ has_sends' = [has_sends EXCEPT ![t] = TRUE]
             \/ /\ has_sends' = [has_sends EXCEPT ![t] = FALSE]
                /\ visit' = [visit EXCEPT ![t] = IF opt.send THEN Threads \ {t} ELSE {}]
      BY <2>1 DEF EnterTake
    <3>2. QED
      BY <2>0, <3>1
  <2>2. CASE Loop(t)
    <3>1. /\ pc' = [pc EXCEPT ![t] = IF has_sends[t] THEN "flush" ELSE "lock"]
          /\ UNCHANGED out
          /\ visit' = [visit EXCEPT ![t] = IF has_sends[t] /\ opt.send
                                           THEN Threads \ {t} ELSE {}]
          /\ pc[t] = "while"
      BY <2>2 DEF Loop
    <3>2. CASE has_sends[t]
      BY <2>0, <3>1, <3>2
    <3>3. CASE ~has_sends[t]
      <4>1. \A u \in Threads : out[t][u] = {}
        BY <3>1, <3>3 DEF SendsKnown
      <4>2. visit'[t] = {}
        BY <3>1, <3>3
      <4>3. QED
        BY <3>1, <4>1, <4>2
    <3>4. QED
      BY <3>2, <3>3
  <2>3. ASSUME NEW u \in Threads, Flush(t, u)
        PROVE  /\ ~has_sends'[t] => \A w \in Threads : out'[t][w] = {} \/ w \in visit'[t]
               /\ pc'[t] # "flush" => visit'[t] = {}
    BY <2>3 DEF Flush, SendsKnown
  <2>4. ASSUME NEW u \in Threads, NoFlush(t, u)
        PROVE  /\ ~has_sends'[t] => \A w \in Threads : out'[t][w] = {} \/ w \in visit'[t]
               /\ pc'[t] # "flush" => visit'[t] = {}
    <3>1. /\ pc[t] = "flush" /\ UNCHANGED <<pc, out>>
          /\ has_sends'[t] = (has_sends[t] \/ out[t][u] # {})
          /\ visit'[t] = visit[t] \ {u}
      BY <2>4 DEF NoFlush
    <3>2. QED
      BY <3>1 DEF SendsKnown
  <2>5. CASE EndFlush(t)
    BY <2>5 DEF EndFlush, takeVars, SendsKnown
  <2>6. CASE ~EnterTake(t) /\ ~Loop(t) /\ ~EndFlush(t)
               /\ \A u \in Threads : ~Flush(t, u) /\ ~NoFlush(t, u)
    <3>1. /\ pc[t] \in Taking \ {"flush"}
          /\ UNCHANGED <<takeVars, out>>
      BY <2>6 DEF Step, Leave, CheckQueue, EndLoop,
         SkipReceive, BecomeComplete, StartReceive, StopSpinning, Relock, Receive,
         EndReceive, TestComplete, TakeNode, SeeSolution, GetBestPath, SetBound,
         SendChild, EndExpand
    <3>2. QED
      BY <3>1 DEF SendsKnown, takeVars
  <2>7. QED
    BY <2>1, <2>2, <2>3, <2>4, <2>5, <2>6
<1>3. QED
  BY <1>1, <1>2 DEF SendsKnown

LEMMA LockStep ==
  ASSUME CInv, NEW t \in Threads, Step(t)
  PROVE  LockReason'
<1> USE DEF CInv
<1> SUFFICES ASSUME NEW v \in Threads, pc'[v] = "lock"
             PROVE  looping'[v] \/ ~q_empty'[v]
  BY DEF LockReason
<1>1. CASE v # t
  BY <1>1, OthersStay DEF LockReason
<1>2. CASE v = t
  <2> USE <1>2 DEF TypeOK, Goto
  <2>1. CASE EndFlush(t) \/ CheckQueue(t) \/ Loop(t)
    BY <2>1 DEF EndFlush, CheckQueue, Loop, takeVars, queueVars
  <2>2. CASE ~EndFlush(t) /\ ~CheckQueue(t) /\ ~Loop(t)
    <3>1. FALSE
      BY <2>2 DEF Step, Leave, EnterTake, EndLoop, SkipReceive,
         BecomeComplete, StartReceive, StopSpinning, Relock, Receive,
         EndReceive, TestComplete, TakeNode, SeeSolution, GetBestPath, SetBound,
         SendChild, EndExpand, Flush, NoFlush, AfterReceive
    <3>2. QED
      BY <3>1
  <2>3. QED
    BY <2>1, <2>2
<1>3. QED
  BY <1>1, <1>2

\* Only a thread itself completes, and only with nothing left.
LEMMA BecomesComplete ==
  ASSUME CInv, NEW t \in Threads, Step(t), completed'[t], ~completed[t]
  PROVE  BecomeComplete(t)
<1> USE DEF CInv, TypeOK
<1>1. CASE QuietStep(t) \/ Receive(t) \/ EndReceive(t)
  BY <1>1, QuietFrame DEF queueVars, Receive, EndReceive
<1>2. CASE SendChild(t)
  <2>1. PICK m \in kids[t] : Owner[m.to] \in Threads /\ Sent(t, m)
    BY <1>2, SendKinds
  <2>2. \/ UNCHANGED queueVars
        \/ \E S : Deliver(Owner[m.to], S)
    BY <2>1 DEF Sent
  <2>3. QED
    BY <2>1, <2>2, DeliverFrame DEF queueVars
<1>3. ASSUME NEW u \in Threads, Flush(t, u) PROVE FALSE
  BY <1>3, DeliverFrame DEF Flush
<1>4. QED
  BY <1>1, <1>2, <1>3, StepKinds

LEMMA IdleStep ==
  ASSUME CInv, NEW t \in Threads, Step(t)
  PROVE  CompleteIdle'
<1> USE DEF CInv
<1> SUFFICES ASSUME NEW v \in Threads, completed'[v]
             PROVE  /\ q_empty'[v] /\ looping'[v]
                    /\ \A s \in open' : Owner[s] # v
                    /\ \A u \in Threads : out'[v][u] = {}
                    /\ \/ pc'[v] = "busy"
                       \/ Complete' /\ pc'[v] \in {"relock", "test"}
                       \/ done' /\ pc'[v] \in {"run", "ended"}
  BY DEF CompleteIdle
<1>1. CASE v # t
  <2>1. /\ completed[v] /\ q_empty'[v] = q_empty[v] /\ looping'[v] = looping[v]
        /\ out'[v] = out[v] /\ pc'[v] = pc[v]
    BY <1>1, OthersStay
  <2>2. \A s \in open' : Owner[s] # v
    BY <1>1, <2>1, OpensOwn DEF CompleteIdle
  <2>3. (done => done') /\ (Complete => Complete')
    BY OptionsStay, CompleteStays
  <2>4. QED
    BY <2>1, <2>2, <2>3 DEF CompleteIdle
<1>2. CASE v = t /\ completed[t]
  <2>1. /\ UNCHANGED <<nodeVars, queueVars, out, kids, looping>>
        /\ \/ Complete /\ pc'[t] \in {"relock", "test"}
           \/ done' /\ pc'[t] \in {"run", "ended"}
    BY <1>2, CompleteMoves
  <2>2. Complete => Complete'
    BY CompleteStays
  <2>3. QED
    BY <1>2, <2>1, <2>2 DEF CompleteIdle, nodeVars, queueVars
<1>3. CASE v = t /\ ~completed[t]
  <2>1. BecomeComplete(t)
    BY <1>3, BecomesComplete
  <2>2. /\ pc[t] = "lock" /\ pc' = [pc EXCEPT ![t] = "busy"]
        /\ q_empty[t] /\ ~has_sends[t] /\ Open(t) = {}
        /\ UNCHANGED <<open, q_empty, out, looping, visit>>
    BY <2>1 DEF BecomeComplete, Idle, Goto, nodeVars, takeVars
  <2>3. looping[t]
    BY <2>2 DEF LockReason
  <2>4. \A u \in Threads : out[t][u] = {}
    BY <2>2 DEF SendsKnown, Taking
  <2>5. \A s \in open : Owner[s] # t
    BY <2>2 DEF Open
  <2>6. pc'[t] = "busy"
    BY <2>2 DEF TypeOK
  <2>7. QED
    BY <1>3, <2>2, <2>3, <2>4, <2>5, <2>6
<1>4. QED
  BY <1>1, <1>2, <1>3

LEMMA DoneStep ==
  ASSUME CInv, NEW t \in Threads, Step(t)
  PROVE  DoneComplete'
<1>1. CASE done
  BY <1>1, CompleteStays DEF CInv, DoneComplete
<1>2. CASE ~done /\ done'
  <2>1. Complete
    BY <1>2 DEF Step, Leave, EnterTake, EndFlush, CheckQueue, Loop, EndLoop,
       SkipReceive, BecomeComplete, StartReceive, StopSpinning, Relock, Receive,
       EndReceive, TestComplete, TakeNode, SeeSolution, GetBestPath, SetBound,
       SendChild, EndExpand, Flush, NoFlush
  <2>2. QED
    BY <2>1, CompleteStays DEF DoneComplete
<1>3. QED
  BY <1>1, <1>2 DEF DoneComplete

\* The initial states.
LEMMA CInit == Init => CInv
<1> SUFFICES ASSUME Init PROVE CInv
  OBVIOUS
<1> USE DEF Init
<1>1. \A o \in Options : o.max_exp \in Nat /\ o.send \in BOOLEAN
  OBVIOUS
<1>2. TypeOK
  <2>1. counter \in 0..Cardinality(Threads)
    BY ThreadsFinite
  <2>2. bound \in 0..Infinity /\ solution \in 0..Infinity
    OBVIOUS
  <2>3. /\ g \in [States -> 0..Infinity]
        /\ parent \in [States -> States \cup {NoState}]
    OBVIOUS
  <2>5. /\ q \in [Threads -> SUBSET Message] /\ kids \in [Threads -> SUBSET Message]
        /\ out \in [Threads -> [Threads -> SUBSET Message]]
        /\ visit \in [Threads -> SUBSET Threads]
    OBVIOUS
  <2>6. /\ q_empty \in [Threads -> BOOLEAN]
        /\ completed \in [Threads -> BOOLEAN]
        /\ looping \in [Threads -> BOOLEAN] /\ has_sends \in [Threads -> BOOLEAN]
    BY Zenon
  <2>7. /\ mutex \in [Threads -> Threads \cup {NoThread}]
        /\ sol \in [Threads -> 0..Infinity]
        /\ pc \in [Threads -> Places] /\ opt \in Options
    BY DEF Places
  <2>8. expansions \in [Threads -> 0..opt.max_exp]
    BY <1>1
  <2>9. open \subseteq {s \in States : g[s] # Infinity}
    OBVIOUS
  <2>10. Typed
    <3>1. done \in BOOLEAN
      BY Zenon
    <3>2. QED
      BY <3>1, <2>2, <2>3, <2>5, <2>6, <2>7, <2>8, <2>9 DEF Typed
  <2>11. QED
    BY <2>1, <2>10, TypeParts
<1>3. CounterExact
  <2>1. {t \in Threads : completed[t]} = {}
    OBVIOUS
  <2>2. QED
    BY <2>1, FS_EmptySet DEF CounterExact
<1>4. /\ Routed /\ FlagSound /\ HandsFree /\ SendsKnown /\ LockReason
      /\ CompleteIdle /\ DoneComplete
  BY DEF Routed, FlagSound, HandsFree, SendsKnown, Taking, LockReason,
         CompleteIdle, DoneComplete
<1>5. QED
  BY <1>2, <1>3, <1>4 DEF CInv

LEMMA CStep ==
  ASSUME CInv, [Next]_vars
  PROVE  CInv'
<1>1. ASSUME NEW t \in Threads, Step(t) PROVE CInv'
  BY <1>1, TypeKept, CounterStep, QueuesStep, HandsStep, SendsStep, LockStep,
     IdleStep, DoneStep DEF CInv
<1>2. CASE UNCHANGED vars
  BY <1>2 DEF vars, nodeVars, queueVars, pathVars, takeVars, CInv, TypeOK,
     CounterExact, Routed, FlagSound, HandsFree, SendsKnown, LockReason,
     CompleteIdle, DoneComplete, Complete
<1>3. QED
  BY <1>1, <1>2 DEF Next

LEMMA CAlways == Spec => []CInv
<1>1. QED
  BY CInit, CStep, PTL DEF Spec

\* The types of the variables, the counter's width among them: it never
\* passes the number of threads and never falls below zero.
THEOREM TypeCorrect == Spec => []TypeOK
<1>1. CInv => TypeOK
  BY DEF CInv
<1>2. QED
  BY <1>1, CAlways, PTL

\* Complete threads have nothing, and all are complete.
LEMMA CompletionOf == CInv => CompletionSound
<1> SUFFICES ASSUME CInv, Complete \/ done
             PROVE  /\ open = {}
                    /\ \A t \in Threads : q_empty[t] /\ InTransit(t) = {}
  BY DEF CompletionSound
<1> USE DEF CInv
<1>1. \A t \in Threads : completed[t]
  BY AllComplete DEF DoneComplete
<1>2. open = {}
  BY <1>1 DEF CompleteIdle, TypeOK
<1>3. ASSUME NEW t \in Threads PROVE q_empty[t] /\ InTransit(t) = {}
  <2>1. /\ q_empty[t] /\ pc[t] \notin Handling
        /\ \A u \in Threads : out[t][u] = {}
    BY <1>1 DEF CompleteIdle, Handling
  <2>2. q[t] = {} /\ kids[t] = {}
    BY <2>1 DEF FlagSound, HandsFree
  <2>3. QED
    BY <2>1, <2>2 DEF InTransit
<1>4. QED
  BY <1>2, <1>3

(***************************************************************************)
(* The completion counter reaches the number of threads, and done is set,  *)
(* only when no node is left in an open list, a queue, a buffer or a hand. *)
(***************************************************************************)
THEOREM CompletionIsSound == Spec => []CompletionSound
<1>1. QED
  BY CompletionOf, CAlways, PTL

-----------------------------------------------------------------------------
(***************************************************************************)
(* The solution                                                            *)
(***************************************************************************)

\* A node of state n that costs at most v is in a closed list, or a message
\* will bring it there.
Known(n, v) ==
  \/ g[n] <= v
  \/ \E t \in Threads : \E m \in InTransit(t) : m.to = n /\ m.g <= v

Found == solution <= Factor * CostToGo[Start]

\* What a node promises is kept by its children or, if it is a goal, by the
\* thread that is publishing it.
Kept(s) ==
  /\ \A e \in Edges[s] :
       Promises(e.to, g[s] + e.cost) => Known(e.to, g[s] + e.cost)
  /\ s \in Goals => \E t \in Threads : pc[t] = "see" /\ sol[t] <= g[s]

\* Until a solution is found that is good enough, nothing a node promises is
\* forgotten when it is not open any more.
NothingForgotten ==
  ~opt.dd /\ ~Found =>
    \A s \in States \ open : Promises(s, g[s]) => Kept(s)

\* The bound is the cost of a solution, or what it was set to at the start.
BoundJustified ==
  /\ ~opt.weighted => bound <= Infinity - Slack
  /\ \/ solution <= bound
     \/ ~opt.weighted /\ bound = Infinity - Slack
  /\ \A t \in Threads : pc[t] = "cas" => solution <= sol[t]

\* Threads leave an ended search only.
EndedDone == \A t \in Threads : pc[t] = "ended" => done

SInv ==
  CInv /\ NothingForgotten /\ BoundJustified /\ EndedDone /\ g[Start] = 0

\* The first bound leaves room for the overrun, and for every cost.
RoomForCost ==
  /\ Overrun <= Slack
  /\ CostToGo[Start] < Infinity => CostToGo[Start] < Infinity - Slack + Overrun

\* Multiplication keeps the order.
LEMMA TimesMonotone ==
  ASSUME NEW c \in Nat, NEW x \in Nat, NEW y \in Nat, x <= y
  PROVE  c * x <= c * y /\ c * x \in Nat
<1>1. y - x \in Nat /\ y = x + (y - x)
  OBVIOUS
<1>2. c * (y - x) \in Nat /\ c * y = c * x + c * (y - x)
  BY <1>1
<1>3. QED
  BY <1>2

LEMMA FactorType == TypeOK => Factor \in Nat \ {0}
BY DEF Factor

\* While the solution is too dear there is a cheaper one.
LEMMA NotFound ==
  ASSUME TypeOK, ~Found
  PROVE  CostToGo[Start] < Infinity /\ Factor * CostToGo[Start] < solution
<1>1. /\ CostToGo[Start] \in Nat /\ Factor \in Nat \ {0} /\ solution \in 0..Infinity
  BY CostToGoType, FactorType DEF TypeOK
<1>2. Factor * CostToGo[Start] \in Nat /\ Factor * CostToGo[Start] < solution
  BY <1>1 DEF Found
<1>3. 1 * CostToGo[Start] <= Factor * CostToGo[Start]
  BY <1>1
<1>4. QED
  BY <1>1, <1>2, <1>3

\* A node that promises to improve on the solution is in bound.
LEMMA PromisingInBound ==
  ASSUME Admissible, RoomForCost, TypeOK, BoundJustified, ~Found,
         NEW n \in States, NEW v \in Nat, Promises(n, v)
  PROVE  InBound(v + H[n])
<1> DEFINE C == CostToGo[Start]
<1>1. /\ v + H[n] <= C /\ C \in Nat /\ v + H[n] \in Nat
  BY PromisesBound, CostToGoType
<1>2. C < Infinity /\ Factor * C < solution
  BY NotFound
<1>3. CASE opt.weighted
  <2>1. HWeight * (v + H[n]) <= HWeight * C /\ HWeight * (v + H[n]) \in Nat
    BY <1>1, TimesMonotone
  <2>2. HWeight * C < solution /\ solution <= bound
    BY <1>2, <1>3 DEF Factor, BoundJustified
  <2>3. HWeight * C \in Nat /\ solution \in Nat /\ bound \in Nat
    BY <1>1 DEF TypeOK
  <2>4. HWeight * (v + H[n]) < bound
    BY <2>1, <2>2, <2>3
  <2>5. QED
    BY <1>3, <2>4 DEF InBound
<1>4. CASE ~opt.weighted
  <2>1. C < solution
    BY <1>1, <1>2, <1>4 DEF Factor
  <2>2. /\ bound <= Infinity - Slack
        /\ solution <= bound \/ bound = Infinity - Slack
    BY <1>4 DEF BoundJustified
  <2>3. solution \in Nat /\ bound \in Nat
    BY DEF TypeOK
  <2>4. bound + Overrun \in 0..Infinity
    BY <2>2, <2>3 DEF RoomForCost
  <2>5. Limit = bound + Overrun
    BY <2>4 DEF Limit
  <2>6. C < bound + Overrun
    BY <1>1, <1>2, <2>1, <2>2, <2>3 DEF RoomForCost
  <2>7. QED
    BY <1>1, <1>4, <2>3, <2>5, <2>6 DEF InBound
<1>5. QED
  BY <1>3, <1>4

\* Nor is its node pruned with the open list.
LEMMA PromisingNotPruned ==
  ASSUME Admissible, TypeOK, BoundJustified, ~Found, opt.weighted,
         NEW s \in States, Promises(s, g[s])
  PROVE  GetFPrime(s) < bound
<1> DEFINE C == CostToGo[Start]
<1>1. /\ g[s] \in Nat /\ H[s] \in Nat /\ C \in Nat
      /\ solution \in Nat /\ bound \in Nat
  BY CostToGoType DEF TypeOK
<1>2. g[s] + H[s] <= C /\ HWeight * C < solution /\ solution <= bound
  BY <1>1, PromisesBound, NotFound DEF Factor, BoundJustified
<1>3. HWeight * (g[s] + H[s]) <= HWeight * C /\ HWeight * C \in Nat
  BY <1>1, <1>2, TimesMonotone
<1>4. 1 * g[s] <= HWeight * g[s] /\ HWeight * g[s] \in Nat /\ HWeight * H[s] \in Nat
  BY <1>1
<1>5. HWeight * (g[s] + H[s]) = HWeight * g[s] + HWeight * H[s]
  BY <1>1
<1>6. QED
  BY <1>1, <1>2, <1>3, <1>4, <1>5 DEF GetFPrime

-----------------------------------------------------------------------------
\* Where nodes are added: only when they are received, or are the thread's own.
LEMMA TableSteps ==
  ASSUME TypeOK, NEW t \in Threads, Step(t)
  PROVE  \/ UNCHANGED <<g, parent>>
         \/ \E m \in Message : AddNode(m)
<1>1. CASE Receive(t)
  <2>1. PICK m \in q[t] : UNCHANGED nodeVars \/ AddNode(m)
    BY <1>1 DEF Receive
  <2>2. QED
    BY <2>1 DEF TypeOK, nodeVars
<1>2. CASE SendChild(t)
  BY <1>2, SendKinds DEF Sent, nodeVars
<1>3. CASE ~Receive(t) /\ ~SendChild(t)
  BY <1>3 DEF Step, Leave, EnterTake, EndFlush, CheckQueue, Loop, EndLoop,
       SkipReceive, BecomeComplete, StartReceive, StopSpinning, Relock, EndReceive,
       TestComplete, TakeNode, SeeSolution, GetBestPath, SetBound, EndExpand,
       Flush, NoFlush, nodeVars
<1>4. QED
  BY <1>1, <1>2, <1>3

\* A node's g only falls, and without dropping of duplicates a node whose g
\* falls is opened.
LEMMA CostsFall ==
  ASSUME TypeOK, NEW t \in Threads, Step(t), NEW s \in States
  PROVE  /\ g'[s] \in Nat /\ g'[s] <= g[s]
         /\ ~opt.dd /\ g'[s] # g[s] => s \in open'
<1>1. CASE UNCHANGED <<g, parent>>
  BY <1>1 DEF TypeOK
<1>2. ASSUME NEW m \in Message, AddNode(m)
      PROVE  /\ g'[s] \in Nat /\ g'[s] <= g[s]
             /\ ~opt.dd /\ g'[s] # g[s] => s \in open'
  <2>1. m.to \in States /\ m.g \in Nat
    BY DEF Message
  <2>2. /\ g \in [States -> 0..Infinity] /\ g[s] \in Nat /\ g[m.to] \in Nat
        /\ Infinity \in Nat
    BY <2>1 DEF TypeOK
  <2>3. CASE m.g < g[m.to]
    <3>1. /\ g' = [g EXCEPT ![m.to] = m.g]
          /\ ~opt.dd => open' = open \cup {m.to}
      BY <1>2, <2>3 DEF AddNode, CantDrop
    <3>2. g'[s] = IF s = m.to THEN m.g ELSE g[s]
      BY <2>1, <2>2, <3>1
    <3>3. QED
      BY <2>1, <2>2, <2>3, <3>1, <3>2
  <2>4. CASE ~(m.g < g[m.to])
    BY <1>2, <2>2, <2>4 DEF AddNode, nodeVars
  <2>5. QED
    BY <2>3, <2>4
<1>3. QED
  BY <1>1, <1>2, TableSteps

\* The solution only gets better.
LEMMA SolutionFalls ==
  ASSUME TypeOK, NEW t \in Threads, Step(t)
  PROVE  solution' <= solution /\ (SeeSolution(t) => solution' <= sol[t])
<1>1. CASE SeeSolution(t)
  <2>1. solution \in 0..Infinity /\ sol[t] \in 0..Infinity
    BY DEF TypeOK
  <2>2. solution' = Min({solution, sol[t]})
    BY <1>1 DEF SeeSolution
  <2>3. QED
    BY <2>1, <2>2, MinOfTwo
<1>2. CASE ~SeeSolution(t)
  BY <1>2 DEF Step, Leave, EnterTake, EndFlush, CheckQueue, Loop, EndLoop,
       SkipReceive, BecomeComplete, StartReceive, StopSpinning, Relock, Receive,
       EndReceive, TestComplete, TakeNode, GetBestPath, SetBound, SendChild,
       EndExpand, Flush, NoFlush, pathVars, TypeOK
<1>3. QED
  BY <1>1, <1>2

LEMMA FoundStays ==
  ASSUME CInv, NEW t \in Threads, Step(t), Found
  PROVE  Found'
<1>1. opt' = opt /\ solution' <= solution /\ TypeOK /\ TypeOK'
  BY OptionsStay, SolutionFalls, TypeKept DEF CInv
<1>2. Factor' = Factor /\ Factor \in Nat /\ CostToGo[Start] \in Nat
  BY <1>1, FactorType, CostToGoType DEF Factor
<1>3. Factor * CostToGo[Start] \in Nat /\ solution \in Nat /\ solution' \in Nat
  BY <1>1, <1>2 DEF TypeOK
<1>4. QED
  BY <1>1, <1>2, <1>3 DEF Found

LEMMA BoundStep ==
  ASSUME CInv, BoundJustified, NEW t \in Threads, Step(t)
  PROVE  BoundJustified'
<1> USE DEF CInv, TypeOK
<1>0. opt' = opt /\ solution' <= solution /\ solution' \in Nat
  BY OptionsStay, SolutionFalls, TypeKept
<1>1. CASE SeeSolution(t)
  <2>1. bound' = bound /\ sol' = sol /\ pc' = [pc EXCEPT ![t] = "get"]
    BY <1>1 DEF SeeSolution, Goto
  <2>2. \A v \in Threads : pc'[v] = "cas" => solution <= sol[v] /\ sol[v] \in Nat
    BY <2>1 DEF BoundJustified
  <2>3. solution \in Nat /\ bound \in Nat
    OBVIOUS
  <2>4. QED
    BY <1>0, <2>1, <2>2, <2>3 DEF BoundJustified
<1>2. CASE GetBestPath(t)
  BY <1>0, <1>2 DEF GetBestPath, BoundJustified, Goto
<1>3. CASE SetBound(t)
  <2>1. bound' \in {bound, sol[t]} /\ bound' <= bound /\ solution <= sol[t]
    BY <1>3, MinOfTwo DEF SetBound, BoundJustified
  <2>2. \A v \in Threads : pc'[v] = "cas" => pc[v] = "cas" /\ sol'[v] = sol[v]
    BY <1>3 DEF SetBound, Goto
  <2>3. solution' = solution
    BY <1>3 DEF SetBound
  <2>4. QED
    BY <1>0, <2>1, <2>2, <2>3 DEF BoundJustified
<1>4. CASE ~SeeSolution(t) /\ ~GetBestPath(t) /\ ~SetBound(t)
  <2>1. UNCHANGED <<bound, solution>>
    BY <1>4 DEF Step, Leave, EnterTake, EndFlush, CheckQueue, Loop, EndLoop,
       SkipReceive, BecomeComplete, StartReceive, StopSpinning, Relock, Receive,
       EndReceive, TestComplete, TakeNode, SendChild,
       EndExpand, Flush, NoFlush, pathVars
  <2>2. pc'[t] = "cas" => FALSE
    BY <1>4 DEF Step, Leave, EnterTake, EndFlush, CheckQueue, Loop, EndLoop,
       SkipReceive, BecomeComplete, StartReceive, StopSpinning, Relock, Receive,
       EndReceive, TestComplete, TakeNode, SendChild,
       EndExpand, Flush, NoFlush, AfterReceive, Goto
  <2>3. \A v \in Threads : pc'[v] = "cas" => pc[v] = "cas" /\ sol'[v] = sol[v]
    BY <2>2, OthersStay
  <2>4. QED
    BY <1>0, <2>1, <2>3 DEF BoundJustified
<1>5. QED
  BY <1>1, <1>2, <1>3, <1>4

LEMMA EndedStep ==
  ASSUME CInv, EndedDone, NEW t \in Threads, Step(t)
  PROVE  EndedDone'
<1>1. pc'[t] = "ended" => done'
  BY DEF Step, Leave, EnterTake, EndFlush, CheckQueue, Loop, EndLoop,
       SkipReceive, BecomeComplete, StartReceive, StopSpinning, Relock, Receive,
       EndReceive, TestComplete, TakeNode, SeeSolution, GetBestPath, SetBound,
       SendChild, EndExpand, Flush, NoFlush, AfterReceive, Goto, CInv, TypeOK
<1>2. done => done'
  BY OptionsStay
<1>3. \A v \in Threads : v # t => pc'[v] = pc[v]
  BY OthersStay DEF CInv
<1>4. QED
  BY <1>1, <1>2, <1>3 DEF EndedDone

\* Where a message is.
InQueue(m) == \E t \in Threads : m \in q[t]
InHand(m) == \E t \in Threads : m \in kids[t]
InBuffer(m) == \E t, u \in Threads : m \in out[t][u]

LEMMA TransitPlaces ==
  \A m : (\E t \in Threads : m \in InTransit(t))
           <=> InQueue(m) \/ InHand(m) \/ InBuffer(m)
BY DEF InTransit, InQueue, InHand, InBuffer

\* A message that is to be handled now is added to its owner's nodes, or it
\* is out of bound.
Handled(m) == AddNode(m) \/ ~InBound(m.g + H[m.to])

\* Delivering loses nothing.
LEMMA DeliverMoves ==
  ASSUME TypeOK, NEW u \in Threads, NEW S, Deliver(u, S)
  PROVE  /\ \A m \in S : InQueue(m)'
         /\ \A m : InQueue(m) => InQueue(m)'
BY DeliverFrame, ZenonT(60) DEF InQueue

LEMMA QueueMoves ==
  ASSUME CInv, NEW t \in Threads, Step(t), NEW m, InQueue(m)
  PROVE  InQueue(m)' \/ Handled(m)
<1> USE DEF CInv
<1>1. CASE QuietStep(t) \/ BecomeComplete(t) \/ EndReceive(t)
  BY <1>1, QuietFrame DEF queueVars, BecomeComplete, EndReceive, InQueue
<1>2. CASE Receive(t)
  <2>1. PICK n \in q[t] : q' = [q EXCEPT ![t] = @ \ {n}] /\ Handled(n)
    BY <1>2 DEF Receive, Handled
  <2>2. CASE m = n
    BY <2>1, <2>2
  <2>3. CASE m # n
    BY <2>1, <2>3 DEF InQueue, TypeOK
  <2>4. QED
    BY <2>2, <2>3
<1>3. CASE SendChild(t)
  <2>1. PICK n \in kids[t] : Owner[n.to] \in Threads /\ Sent(t, n)
    BY <1>3, SendKinds
  <2>2. UNCHANGED queueVars \/ \E S : Deliver(Owner[n.to], S)
    BY <2>1 DEF Sent
  <2>3. QED
    BY <2>1, <2>2, DeliverMoves DEF queueVars, InQueue
<1>4. ASSUME NEW u \in Threads, Flush(t, u) PROVE InQueue(m)'
  BY <1>4, DeliverMoves DEF Flush
<1>5. QED
  BY <1>1, <1>2, <1>3, <1>4, StepKinds

LEMMA BufferMoves ==
  ASSUME CInv, NEW t \in Threads, Step(t), NEW m, InBuffer(m)
  PROVE  InBuffer(m)' \/ InQueue(m)'
<1> USE DEF CInv
<1>0. PICK v, w \in Threads : m \in out[v][w]
  BY DEF InBuffer
<1>1. CASE QuietStep(t) \/ BecomeComplete(t) \/ EndReceive(t) \/ Receive(t)
  <2>1. UNCHANGED out
    BY <1>1, QuietFrame DEF BecomeComplete, EndReceive, Receive
  <2>2. QED
    BY <1>0, <2>1 DEF InBuffer
<1>2. CASE SendChild(t)
  <2>1. PICK n \in kids[t] : Owner[n.to] \in Threads /\ Sent(t, n)
    BY <1>2, SendKinds
  <2> DEFINE u == Owner[n.to]
  <2>2. CASE UNCHANGED out
    BY <1>0, <2>2 DEF InBuffer
  <2>3. CASE Deliver(u, out[t][u] \cup {n}) /\ out' = [out EXCEPT ![t][u] = {}]
    <3>1. CASE v = t /\ w = u
      BY <1>0, <2>1, <2>3, <3>1, DeliverMoves
    <3>2. CASE ~(v = t /\ w = u)
      <4>1. out'[v][w] = out[v][w]
        BY <2>1, <2>3, <3>2 DEF TypeOK
      <4>2. QED
        BY <1>0, <4>1 DEF InBuffer
    <3>3. QED
      BY <3>1, <3>2
  <2>4. CASE out' = [out EXCEPT ![t][u] = out[t][u] \cup {n}]
    <3>1. out[v][w] \subseteq out'[v][w]
      BY <2>1, <2>4 DEF TypeOK
    <3>2. QED
      BY <1>0, <3>1 DEF InBuffer
  <2>5. QED
    BY <2>1, <2>2, <2>3, <2>4 DEF Sent
<1>3. ASSUME NEW u \in Threads, Flush(t, u) PROVE InBuffer(m)' \/ InQueue(m)'
  <2>1. Deliver(u, out[t][u]) /\ out' = [out EXCEPT ![t][u] = {}]
    BY <1>3 DEF Flush
  <2>2. CASE v = t /\ w = u
    BY <1>0, <2>1, <2>2, DeliverMoves
  <2>3. CASE ~(v = t /\ w = u)
    <3>1. out'[v][w] = out[v][w]
      BY <2>1, <2>3 DEF TypeOK
    <3>2. QED
      BY <1>0, <3>1 DEF InBuffer
  <2>4. QED
    BY <2>2, <2>3
<1>4. QED
  BY <1>1, <1>2, <1>3, StepKinds

LEMMA HandMoves ==
  ASSUME CInv, NEW t \in Threads, Step(t), NEW m, InHand(m)
  PROVE  InHand(m)' \/ InQueue(m)' \/ InBuffer(m)' \/ Handled(m)
<1> USE DEF CInv
<1>0. PICK v \in Threads : m \in kids[v]
  BY DEF InHand
<1>1. CASE v # t
  BY <1>0, <1>1, OthersStay DEF InHand
<1>2. CASE v = t /\ SendChild(t)
  <2>1. PICK n \in kids[t] : /\ Owner[n.to] \in Threads /\ Sent(t, n)
                             /\ kids' = [kids EXCEPT ![t] = @ \ {n}]
    BY <1>2, SendKinds
  <2>2. CASE m # n
    BY <1>0, <1>2, <2>1, <2>2 DEF InHand, TypeOK
  <2>3. CASE m = n
    <3> DEFINE u == Owner[n.to]
    <3>1. CASE ~Promising(n) \/ AddNode(n)
      BY <2>3, <3>1 DEF Handled, Promising
    <3>2. CASE Deliver(u, {n}) \/ Deliver(u, out[t][u] \cup {n})
      BY <2>1, <2>3, <3>2, DeliverMoves
    <3>3. CASE out' = [out EXCEPT ![t][u] = out[t][u] \cup {n}]
      <4>1. n \in out'[t][u]
        BY <2>1, <3>3 DEF TypeOK
      <4>2. QED
        BY <2>1, <2>3, <4>1 DEF InBuffer
    <3>4. QED
      BY <2>1, <3>1, <3>2, <3>3 DEF Sent
  <2>4. QED
    BY <2>2, <2>3
<1>3. CASE v = t /\ ~SendChild(t)
  <2>1. ~TakeNode(t)
    BY <1>0, <1>3 DEF TakeNode, HandsFree, Handling
  <2>2. UNCHANGED kids
    BY <1>3, <2>1 DEF Step, Leave, EnterTake, EndFlush, CheckQueue, Loop, EndLoop,
       SkipReceive, BecomeComplete, StartReceive, StopSpinning, Relock, Receive,
       EndReceive, TestComplete, SeeSolution, GetBestPath, SetBound, EndExpand,
       Flush, NoFlush
  <2>3. QED
    BY <1>0, <2>2 DEF InHand
<1>4. QED
  BY <1>1, <1>2, <1>3

\* What a search knows and still wants, it knows after a step.
LEMMA KnownStays ==
  ASSUME Admissible, RoomForCost, CInv, BoundJustified, ~Found,
         NEW t \in Threads, Step(t),
         NEW n \in States, NEW v \in Nat, Promises(n, v), Known(n, v)
  PROVE  Known(n, v)'
<1> USE DEF CInv
<1>1. CASE g[n] <= v
  <2>1. g[n] \in Nat /\ g'[n] \in Nat /\ g'[n] <= g[n]
    BY CostsFall DEF TypeOK
  <2>2. QED
    BY <1>1, <2>1 DEF Known
<1>2. CASE \E u \in Threads : \E m \in InTransit(u) : m.to = n /\ m.g <= v
  <2>1. PICK u \in Threads : \E m \in InTransit(u) : m.to = n /\ m.g <= v
    BY <1>2
  <2>2. PICK m \in InTransit(u) : m.to = n /\ m.g <= v
    BY <2>1
  <2>3. m \in Message /\ m.g \in Nat
    BY <2>2 DEF InTransit, TypeOK, Message
  <2>4. InBound(m.g + H[m.to])
    <3>1. Promises(m.to, m.g)
      BY <2>2, <2>3, PromisesMore
    <3>2. QED
      BY <2>2, <2>3, <3>1, PromisingInBound
  <2>5. InQueue(m) \/ InHand(m) \/ InBuffer(m)
    BY <2>2, TransitPlaces
  <2>6. \/ InQueue(m)' \/ InHand(m)' \/ InBuffer(m)'
        \/ AddNode(m)
    BY <2>4, <2>5, QueueMoves, HandMoves, BufferMoves DEF Handled
  <2>7. CASE InQueue(m)' \/ InHand(m)' \/ InBuffer(m)'
    <3>1. \E w \in Threads : m \in InTransit(w)'
      BY <2>7 DEF InQueue, InHand, InBuffer, InTransit
    <3>2. QED
      BY <2>2, <3>1 DEF Known
  <2>8. CASE AddNode(m)
    <3>1. g[n] \in Nat /\ g \in [States -> 0..Infinity]
      BY DEF TypeOK
    <3>2. g'[n] <= m.g /\ g'[n] \in Nat
      BY <2>2, <2>3, <2>8, <3>1 DEF AddNode, nodeVars
    <3>3. QED
      BY <2>2, <2>3, <3>2 DEF Known
  <2>9. QED
    BY <2>6, <2>7, <2>8
<1>3. QED
  BY <1>1, <1>2 DEF Known

\* A thread about to publish a cheap enough path publishes it.
LEMMA PublisherStays ==
  ASSUME CInv, NEW t \in Threads, Step(t), ~Found',
         NEW s \in Goals, Promises(s, g[s]),
         NEW v \in Threads, pc[v] = "see", sol[v] <= g[s]
  PROVE  pc'[v] = "see" /\ sol'[v] <= g[s]
<1> USE DEF CInv
<1>1. CASE v # t
  BY <1>1, OthersStay
<1>2. CASE v = t
  <2>1. SeeSolution(t)
    BY <1>2 DEF Step, Leave, EnterTake, EndFlush, CheckQueue, Loop, EndLoop,
       SkipReceive, BecomeComplete, StartReceive, StopSpinning, Relock, Receive,
       EndReceive, TestComplete, TakeNode, GetBestPath, SetBound, SendChild,
       EndExpand, Flush, NoFlush
  <2>2. s \in States /\ g[s] \in Nat /\ sol[t] \in Nat /\ solution' \in Nat
    BY TypeKept DEF TypeOK
  <2>3. solution' <= g[s]
    BY <1>2, <2>1, <2>2, SolutionFalls
  <2>4. g[s] <= CostToGo[Start] /\ CostToGo[Start] \in Nat
    <3>1. PICK k \in 0..NStates : g[s] + ToGoal[k][s] <= CostToGo[Start]
      BY DEF Promises
    <3>2. ToGoal[k][s] = 0
      BY <2>2, ToGoalStep
    <3>3. QED
      BY <2>2, <3>1, <3>2, CostToGoType
  <2>5. Factor' \in Nat \ {0}
    BY TypeKept, FactorType, OptionsStay DEF Factor
  <2>6. 1 * CostToGo[Start] <= Factor' * CostToGo[Start]
    BY <2>4, <2>5
  <2>7. Factor' * CostToGo[Start] \in Nat
    BY <2>4, <2>5
  <2>8. Found'
    BY <2>2, <2>3, <2>4, <2>6, <2>7 DEF Found
  <2>9. QED
    BY <2>8
<1>3. QED
  BY <1>1, <1>2

\* What a node promises is kept after a step, if its g is what it was.
LEMMA KeptStays ==
  ASSUME Admissible, RoomForCost, CInv, BoundJustified, ~Found, ~Found',
         NEW t \in Threads, Step(t),
         NEW s \in States, Promises(s, g[s]), Kept(s), g'[s] = g[s]
  PROVE  Kept(s)'
<1>1. ASSUME NEW e \in Edges[s], Promises(e.to, g[s] + e.cost)
      PROVE  Known(e.to, g[s] + e.cost)'
  <2>1. e.to \in States /\ g[s] + e.cost \in Nat
    BY DEF CInv, TypeOK
  <2>2. Known(e.to, g[s] + e.cost)
    BY <1>1 DEF Kept
  <2>3. \A v \in Nat : Promises(e.to, v) /\ Known(e.to, v) => Known(e.to, v)'
    BY <2>1, KnownStays
  <2>4. QED
    BY <1>1, <2>1, <2>2, <2>3 DEF Known
<1>2. ASSUME s \in Goals
      PROVE  \E v \in Threads : pc'[v] = "see" /\ sol'[v] <= g'[s]
  BY <1>2, PublisherStays DEF Kept
<1>3. QED
  BY <1>1, <1>2 DEF Kept, Known

\* A node that leaves the open list leaves what it promises behind.
LEMMA TakenIsKept ==
  ASSUME Admissible, RoomForCost, CInv, BoundJustified, ~Found,
         NEW t \in Threads, TakeNode(t),
         NEW s \in open, s \notin open', Promises(s, g[s])
  PROVE  Kept(s)'
<1> USE DEF CInv
<1>0. s \in States /\ g[s] \in Nat /\ H[s] \in Nat /\ g' = g
  BY DEF TypeOK, TakeNode
<1>1. PICK n \in Open(t) :
        /\ \A o \in Open(t) : GetFPrime(n) <= GetFPrime(o)
        /\ open' = LeftOpen(t, n)
        /\ InBound(g[n] + H[n]) =>
             /\ kids' = [kids EXCEPT ![t] = Children(n)]
             /\ n \in Goals => Goto(t, "see") /\ sol' = [sol EXCEPT ![t] = g[n]]
  BY DEF TakeNode
<1>2. n = s
  <2>1. SUFFICES ASSUME n # s PROVE FALSE
    OBVIOUS
  <2>2. opt.weighted /\ GetFPrime(n) >= bound /\ s \in Open(t)
    BY <1>1, <2>1 DEF LeftOpen
  <2>3. GetFPrime(s) < bound /\ GetFPrime(n) <= GetFPrime(s)
    BY <1>0, <1>1, <2>2, PromisingNotPruned
  <2>4. n \in States /\ g[n] \in Nat /\ H[n] \in Nat
    BY DEF Open, TypeOK
  <2>5. GetFPrime(n) \in Nat /\ GetFPrime(s) \in Nat /\ bound \in Nat
    <3>1. HWeight * H[n] \in Nat /\ HWeight * H[s] \in Nat
      BY <1>0, <2>4, TimesMonotone
    <3>2. bound \in Nat
      BY DEF TypeOK
    <3>3. QED
      BY <1>0, <2>4, <3>1, <3>2 DEF GetFPrime
  <2>6. QED
    BY <2>2, <2>3, <2>5
<1>3. InBound(g[s] + H[s])
  BY <1>0, PromisingInBound
<1>4. /\ kids' = [kids EXCEPT ![t] = Children(s)]
      /\ s \in Goals => /\ pc' = [pc EXCEPT ![t] = "see"]
                        /\ sol' = [sol EXCEPT ![t] = g[s]]
  BY <1>1, <1>2, <1>3 DEF Goto
<1>5. ASSUME NEW e \in Edges[s]
      PROVE  Known(e.to, g[s] + e.cost)'
  <2> DEFINE m == [to |-> e.to, from |-> s, g |-> g[s] + e.cost]
  <2>1. m \in kids'[t]
    BY <1>4 DEF Children, TypeOK
  <2>2. m \in InTransit(t)'
    BY <2>1 DEF InTransit
  <2>3. m.to = e.to /\ m.g = g[s] + e.cost /\ m.g \in Nat
    BY <1>0
  <2>4. m.g <= g[s] + e.cost
    BY <2>3
  <2> HIDE DEF m
  <2>5. g'[s] = g[s]
    BY <1>0
  <2>6. QED
    BY <2>2, <2>3, <2>4, <2>5 DEF Known
<1>6. ASSUME s \in Goals
      PROVE  \E v \in Threads : pc'[v] = "see" /\ sol'[v] <= g'[s]
  <2>1. pc'[t] = "see" /\ sol'[t] = g[s]
    BY <1>4, <1>6 DEF TypeOK
  <2>2. QED
    BY <1>0, <2>1
<1>7. QED
  BY <1>0, <1>5, <1>6 DEF Kept, Known

LEMMA ForgottenStep ==
  ASSUME Admissible, RoomForCost, CInv, BoundJustified, NothingForgotten,
         NEW t \in Threads, Step(t)
  PROVE  NothingForgotten'
<1> SUFFICES ASSUME ~opt'.dd, ~Found', NEW s \in States \ open',
                    Promises(s, g'[s])
             PROVE  Kept(s)'
  BY DEF NothingForgotten, Promises
<1>1. ~opt.dd /\ ~Found /\ TypeOK
  BY OptionsStay, FoundStays DEF CInv
<1>2. g'[s] = g[s]
  BY <1>1, CostsFall
<1>3. CASE s \notin open
  BY <1>1, <1>2, <1>3, KeptStays DEF NothingForgotten
<1>4. CASE s \in open
  <2>1. TakeNode(t)
    <3>1. UNCHANGED open \/ (\E m \in Message : AddNode(m)) \/ TakeNode(t)
      <4>1. CASE Receive(t)
        <5>1. PICK m \in q[t] : UNCHANGED nodeVars \/ AddNode(m)
          BY <4>1 DEF Receive
        <5>2. QED
          BY <1>1, <5>1 DEF TypeOK, nodeVars
      <4>2. CASE SendChild(t)
        BY <1>1, <4>2, SendKinds DEF Sent, nodeVars
      <4>3. CASE ~Receive(t) /\ ~SendChild(t)
        BY <4>3 DEF Step, Leave, EnterTake, EndFlush, CheckQueue, Loop, EndLoop,
           SkipReceive, BecomeComplete, StartReceive, StopSpinning, Relock,
           EndReceive, TestComplete, SeeSolution, GetBestPath, SetBound,
           EndExpand, Flush, NoFlush, nodeVars
      <4>4. QED
        BY <4>1, <4>2, <4>3
    <3>2. (\E m \in Message : AddNode(m)) => open \subseteq open'
      BY DEF AddNode, nodeVars
    <3>3. QED
      BY <1>4, <3>1, <3>2
  <2>2. QED
    BY <1>1, <1>2, <1>4, <2>1, TakenIsKept DEF CInv
<1>5. QED
  BY <1>3, <1>4

LEMMA SInit ==
  ASSUME Init
  PROVE  SInv
<1>1. CInv
  BY CInit
<1>2. NothingForgotten
  <2> SUFFICES ASSUME ~Found, NEW s \in States \ open, Promises(s, g[s])
               PROVE  FALSE
    BY DEF NothingForgotten
  <2>1. CostToGo[Start] < Infinity
    BY <1>1, NotFound DEF CInv
  <2>2. g[s] = Infinity
    BY DEF Init
  <2>3. PICK k \in 0..NStates : g[s] + ToGoal[k][s] <= CostToGo[Start]
    BY DEF Promises
  <2>4. ToGoal[k][s] \in Nat /\ CostToGo[Start] \in Nat
    BY ToGoalStep, CostToGoType
  <2>5. QED
    BY <2>1, <2>2, <2>3, <2>4
<1>3. BoundJustified
  BY DEF BoundJustified, Init
<1>4. EndedDone /\ g[Start] = 0
  BY DEF EndedDone, Init
<1>5. QED
  BY <1>1, <1>2, <1>3, <1>4 DEF SInv

LEMMA SStep ==
  ASSUME Admissible, RoomForCost, SInv, [Next]_vars
  PROVE  SInv'
<1> USE DEF SInv
<1>1. ASSUME NEW t \in Threads, Step(t) PROVE SInv'
  <2>1. CInv'
    BY CStep DEF Next
  <2>2. g'[Start] = 0
    <3>1. g'[Start] \in Nat /\ g'[Start] <= 0
      BY <1>1, CostsFall DEF CInv
    <3>2. QED
      BY <3>1
  <2>3. QED
    BY <1>1, <2>1, <2>2, ForgottenStep, BoundStep, EndedStep
<1>2. CASE UNCHANGED vars
  <2>1. CInv'
    BY <1>2, CStep
  <2>2. UNCHANGED <<opt, g, open, q, kids, out, bound, solution, sol, pc, done>>
    BY <1>2 DEF vars, nodeVars, queueVars, pathVars
  <2>3. NothingForgotten'
    BY <2>2 DEF NothingForgotten, Kept, Known, InTransit, Found, Factor, Promises
  <2>4. BoundJustified' /\ EndedDone'
    BY <2>2 DEF BoundJustified, EndedDone
  <2>5. QED
    BY <2>1, <2>2, <2>3, <2>4
<1>3. QED
  BY <1>1, <1>2 DEF Next

\* When the threads have left, the tables of nodes are closed under what is
\* promised, so that a goal would be among them.
LEMMA EndedFound ==
  ASSUME Admissible, RoomForCost, SInv, ~opt.dd, Ended
  PROVE  Found
<1> SUFFICES ASSUME ~Found PROVE FALSE
  OBVIOUS
<1> USE DEF SInv
<1>1. done
  BY DEF Ended, EndedDone
<1>2. open = {} /\ \A t \in Threads : InTransit(t) = {}
  BY <1>1, CompletionOf DEF CompletionSound
<1>3. \A s \in States : Promises(s, g[s]) => Kept(s)
  BY <1>2 DEF NothingForgotten
<1>4. \A s \in States : Promises(s, g[s]) => s \notin Goals
  BY <1>3 DEF Kept, Ended
<1>5. \A s \in States : Promises(s, g[s]) =>
        \A e \in Edges[s] :
          Promises(e.to, g[s] + e.cost) => g[e.to] <= g[s] + e.cost
  BY <1>2, <1>3 DEF Kept, Known
<1>6. g \in [States -> Nat] /\ CostToGo[Start] < Infinity
  BY NotFound DEF CInv, TypeOK
<1>7. \E s \in Goals : Promises(s, g[s])
  BY <1>5, <1>6, PromiseKept
<1>8. QED
  BY <1>4, <1>7

(***************************************************************************)
(* Without dropping of duplicates, when the threads have left the search   *)
(* the solution is an optimal one or, when weighted, one of at most weight *)
(* times its cost: for any number of threads, any distribution of the      *)
(* states, any interleaving, and sends and receives of every kind.         *)
(***************************************************************************)
THEOREM EndsWithinWeight ==
  ASSUME Admissible, RoomForCost
  PROVE  Spec => []WithinWeight
<1>1. Init => SInv
  BY SInit
<1>2. SInv /\ [Next]_vars => SInv'
  BY SStep
<1>3. SInv => WithinWeight
  BY EndedFound DEF WithinWeight, Found
<1>4. QED
  BY <1>1, <1>2, <1>3, PTL DEF Spec

=============================================================================
