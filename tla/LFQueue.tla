------------------------------ MODULE LFQueue ------------------------------
(***************************************************************************)
(* The lock-free queue (src/lockfree/src/queue.c): a list of nodes whose   *)
(* first is a dummy; head is the dummy, tail a node to start from when     *)
(* looking for the last one.  Each holds a reference, as does each link.   *)
(* An enqueue that finds no memory returns -1 (with assertions it aborts). *)
(***************************************************************************)
EXTENDS LFMemory

CONSTANTS
  MaxOps      \* per process, a bound on its operations

QueueAssumption == MaxOps \in [Procs -> Nat]

Elements == UNION {{t} \X (1..MaxOps[t]) : t \in Procs}
Nothing == <<>>

VARIABLES
  head, tail,
  value,   \* per node
  kind,    \* per process, the operation it is in
  elm,     \* per process, the element it enqueues, or has dequeued
  reg,     \* per process, the local variables p, q, old and next
  left,    \* per process, how many operations it may still start
  served   \* since the last enqueue, has a process begun to drain, and has
           \* each that took an element been draining?

clientVars == <<head, tail, value, kind, elm, reg, left, served>>
vars == <<memVars, pc, clientVars>>

NoRegs == [p |-> NULL, q |-> NULL, r |-> NULL, old |-> NULL, next |-> NULL]

\* lf_queue_create: the dummy node has a reference from head and from tail.
Init ==
  /\ head = Order[1] /\ tail = Order[1] /\ fl_head = Order[2]
  /\ refct = [n \in Nodes |-> IF n = head THEN 4 ELSE 1]
  /\ link = FirstLinks(1)
  /\ value = [n \in Nodes |-> Nothing]
  /\ todo = [t \in Procs |-> <<>>] /\ rd = [t \in Procs |-> NotReading]
  /\ cand = [t \in Procs |-> NoCandidate] /\ pc = [t \in Procs |-> "idle"]
  /\ kind = [t \in Procs |-> "none"] /\ elm = [t \in Procs |-> Nothing]
  /\ reg = [t \in Procs |-> NoRegs] /\ left = MaxOps /\ served = FALSE

\* A local step: no memory but the process's own.
Keep == UNCHANGED <<memVars, head, tail, value>>

\* Each process calls what it likes; to drain is the loop over a queue that
\* its user has (ARPBNF::NBlockGraph::resort).
Call(t, k, e, l) ==
  /\ pc[t] = "idle" /\ left[t] > 0
  /\ kind' = [kind EXCEPT ![t] = k] /\ elm' = [elm EXCEPT ![t] = e]
  /\ left' = [left EXCEPT ![t] = @ - 1]
  /\ served' = (served \/ k = "drain")
  /\ Goto(t, l)
  /\ UNCHANGED reg /\ Keep

Return(t) ==
  /\ pc[t] = "return"
  /\ elm' = [elm EXCEPT ![t] = Nothing]
  /\ IF kind[t] = "drain" THEN Goto(t, "empty") /\ UNCHANGED kind
                          ELSE Goto(t, "idle") /\ kind' = [kind EXCEPT ![t] = "none"]
  /\ UNCHANGED <<reg, left, served>> /\ Keep

\* Give back what the registers held.
Free(t, s) == todo' = [todo EXCEPT ![t] = Releases(s)]

-----------------------------------------------------------------------------
(* lf_queue_enqueue.                                                       *)

NoMemory(t) ==
  /\ pc[t] = "no_memory"
  /\ cand' = [cand EXCEPT ![t] = NoCandidate]
  /\ elm' = [elm EXCEPT ![t] = Nothing]
  /\ Goto(t, "return")
  /\ UNCHANGED <<refct, link, fl_head, todo, rd, head, tail, value, kind, reg, left,
                 served>>

\* The new node, with a reference for the link to it and one for tail.
FillNode(t) ==
  LET n == cand[t].node IN
  /\ pc[t] = "fresh"
  /\ value' = [value EXCEPT ![n] = elm[t]]
  /\ refct' = [refct EXCEPT ![n] = @ + 2]
  /\ reg' = [reg EXCEPT ![t].q = n]
  /\ cand' = [cand EXCEPT ![t] = NoCandidate]
  /\ Goto(t, "tail")
  /\ UNCHANGED <<link, fl_head, todo, rd, head, tail, kind, elm, left, served>>

ReadTail(t) ==
  /\ pc[t] = "tail"
  /\ SafeRead(t, At(tail),
       LAMBDA ptr : reg' = [reg EXCEPT ![t].p = NodeOf(ptr)] /\ Goto(t, "old"),
       <<reg, pc>>)
  /\ UNCHANGED <<cand, head, tail, value, kind, elm, left, served>>

\* The second mem_safe_read is of a local variable.
CopyTail(t) ==
  /\ pc[t] = "old"
  /\ reg' = [reg EXCEPT ![t].old = reg[t].p]
  /\ refct' = [refct EXCEPT ![reg[t].p] = @ + 2]
  /\ Goto(t, "walk")
  /\ UNCHANGED <<link, fl_head, todo, rd, cand, head, tail, value, kind, elm, left, served>>

\* To the last node; the one before is released on the way.
StepOn(t) ==
  /\ pc[t] = "walk" /\ link[reg[t].p] # Nil
  /\ SafeRead(t, link[reg[t].p],
       LAMBDA ptr : /\ reg' = [reg EXCEPT ![t].p = NodeOf(ptr), ![t].r = reg[t].p]
                    /\ Goto(t, "drop"),
       <<reg, pc>>)
  /\ UNCHANGED <<cand, head, tail, value, kind, elm, left, served>>

DropLast(t) ==
  /\ pc[t] = "drop"
  /\ Free(t, <<reg[t].r>>)
  /\ reg' = [reg EXCEPT ![t].r = NULL]
  /\ Goto(t, "walk")
  /\ UNCHANGED <<refct, link, fl_head, rd, cand, head, tail, value, kind, elm, left, served>>

\* The compare-and-swap that enqueues the element.
LinkNode(t) ==
  /\ pc[t] = "walk" /\ rd[t] = NotReading
  /\ CasLink(reg[t].p, Nil, At(reg[t].q))
  /\ Free(t, <<reg[t].p>>)
  /\ reg' = [reg EXCEPT ![t].p = NULL]
  /\ served' = FALSE
  /\ Goto(t, "swing")
  /\ UNCHANGED <<refct, fl_head, rd, cand, head, tail, value, kind, elm, left>>

\* tail moves to the new node unless another process has moved it.
SwingTail(t) ==
  /\ pc[t] = "swing"
  /\ LET old == reg[t].old IN
     IF tail = old THEN tail' = reg[t].q /\ Free(t, <<old, old>>)
                   ELSE UNCHANGED tail /\ Free(t, <<old, reg[t].q>>)
  /\ reg' = [reg EXCEPT ![t] = NoRegs]
  /\ Goto(t, "return")
  /\ UNCHANGED <<refct, link, fl_head, rd, cand, head, value, kind, elm, left, served>>

-----------------------------------------------------------------------------
(* lf_queue_dequeue.                                                       *)

ReadHead(t) ==
  /\ pc[t] = "head"
  /\ SafeRead(t, At(head),
       LAMBDA ptr : reg' = [reg EXCEPT ![t].p = NodeOf(ptr)] /\ Goto(t, "next"),
       <<reg, pc>>)
  /\ UNCHANGED <<cand, head, tail, value, kind, elm, left, served>>

\* A plain read: the link of a node that is referenced keeps its target.
ReadNext(t) ==
  /\ pc[t] = "next"
  /\ IF link[reg[t].p] = Nil
     THEN /\ Free(t, <<reg[t].p>>)
          /\ reg' = [reg EXCEPT ![t] = NoRegs]
          /\ Goto(t, "return")
     ELSE /\ reg' = [reg EXCEPT ![t].next = NodeOf(link[reg[t].p])]
          /\ Goto(t, "ref") /\ UNCHANGED todo
  /\ UNCHANGED <<refct, link, fl_head, rd, cand, head, tail, value, kind, elm, left, served>>

ReferNext(t) ==
  /\ pc[t] = "ref"
  /\ refct' = [refct EXCEPT ![reg[t].next] = @ + 2]
  /\ Goto(t, "cas")
  /\ UNCHANGED <<link, fl_head, todo, rd, cand, clientVars>>

\* Faulty: head may have moved.
MoveBlindly(t) ==
  /\ pc[t] = "cas"
  /\ head' = reg[t].next /\ Free(t, <<reg[t].p>>)
  /\ reg' = [reg EXCEPT ![t].next = NULL]
  /\ served' = (served /\ kind[t] = "drain")
  /\ Goto(t, "value")
  /\ UNCHANGED <<refct, link, fl_head, rd, cand, tail, value, kind, elm, left>>

\* The compare-and-swap that dequeues the element of next.
MoveHead(t) ==
  LET p == reg[t].p
      next == reg[t].next
  IN
  /\ pc[t] = "cas"
  /\ IF head = p
     THEN /\ head' = next /\ Free(t, <<p>>)
          /\ reg' = [reg EXCEPT ![t].next = NULL]
          /\ served' = (served /\ kind[t] = "drain")
          /\ Goto(t, "value")
     ELSE /\ UNCHANGED head /\ Free(t, <<next, p>>)
          /\ reg' = [reg EXCEPT ![t] = NoRegs]
          /\ Goto(t, "head") /\ UNCHANGED served
  /\ UNCHANGED <<refct, link, fl_head, rd, cand, tail, value, kind, elm, left>>

ReadValue(t) ==
  /\ pc[t] = "value"
  /\ elm' = [elm EXCEPT ![t] = value[NodeOf(link[reg[t].p])]]
  /\ Free(t, <<reg[t].p>>)
  /\ reg' = [reg EXCEPT ![t] = NoRegs]
  /\ Goto(t, "return")
  /\ UNCHANGED <<refct, link, fl_head, rd, cand, head, tail, value, kind, left, served>>

-----------------------------------------------------------------------------
(* lf_queue_empty counts no reference: the node may be reclaimed between   *)
(* the two reads.                                                          *)

\* Faulty: tail may stay behind the last node.
CompareHeadAndTail(t) ==
  /\ pc[t] = "empty"
  /\ IF head = tail THEN Goto(t, "idle") /\ kind' = [kind EXCEPT ![t] = "none"]
                    ELSE Goto(t, "head") /\ UNCHANGED kind
  /\ UNCHANGED <<memVars, head, tail, value, elm, reg, left, served>>

LookAtHead(t) ==
  /\ pc[t] = "empty"
  /\ reg' = [reg EXCEPT ![t].old = head]
  /\ Goto(t, "empty_next")
  /\ UNCHANGED <<memVars, head, tail, value, kind, elm, left, served>>

LookAtNext(t) ==
  /\ pc[t] = "empty_next"
  /\ reg' = [reg EXCEPT ![t] = NoRegs]
  /\ IF link[reg[t].old] = Nil
     THEN Goto(t, "idle") /\ kind' = [kind EXCEPT ![t] = "none"]
     ELSE Goto(t, "head") /\ UNCHANGED kind
  /\ UNCHANGED <<memVars, head, tail, value, elm, left, served>>

-----------------------------------------------------------------------------
Step(t) ==
  IF todo[t] # <<>> THEN ReleaseStep(t, clientVars)
  ELSE
    \/ Call(t, "enqueue", <<t, left[t]>>, "new")
    \/ Call(t, "dequeue", Nothing, "head")
    \/ Call(t, "drain", Nothing, "empty")
    \/ MemNewStep(t, clientVars) \/ NoMemory(t) \/ FillNode(t)
    \/ ReadTail(t) \/ CopyTail(t) \/ StepOn(t) \/ DropLast(t)
    \/ LinkNode(t) \/ SwingTail(t)
    \/ ReadHead(t) \/ ReadNext(t) \/ ReferNext(t) \/ MoveHead(t) \/ ReadValue(t)
    \/ LookAtHead(t) \/ LookAtNext(t)
    \/ Return(t)

Ended == \A t \in Procs : pc[t] = "idle" /\ left[t] = 0 /\ todo[t] = <<>>

Next == (\E t \in Procs : Step(t)) \/ (Ended /\ UNCHANGED vars)

Spec == Init /\ [][Next]_vars

-----------------------------------------------------------------------------
(* References to n that process t holds: none is taken back by Keep.       *)

HeldByProcess(t, n) ==
  Cardinality({f \in {"p", "r", "old"} : reg[t][f] = n /\ pc[t] # "empty_next"})
    + (IF reg[t].next = n /\ pc[t] = "cas" THEN 1 ELSE 0)
    + (IF reg[t].q = n THEN IF pc[t] = "swing" THEN 1 ELSE 2 ELSE 0)

(***************************************************************************)
(* No node is given out, or reclaimed, while the queue or a process can    *)
(* reach it: the nodes on the free list are no others' and each is there   *)
(* once, and a counted reference is to a node nobody has claimed.          *)
(***************************************************************************)
NoUseAfterFree ==
  /\ IsInjective(Path(fl_head))
  /\ \A n \in Nodes :
       Claimed(n) =>
         /\ n \notin ToSet(Path(head)) \cup {tail}
         /\ \A t \in Procs : HeldByProcess(t, n) = 0

(***************************************************************************)
(* lf_queue_empty may be wrong of a queue that has elements, but only when *)
(* another process takes one between its two reads: if every process that  *)
(* takes an element looks again, none is left when all have stopped.       *)
(***************************************************************************)
NoneStranded ==
  served /\ (\A t \in Procs : pc[t] = "idle" /\ todo[t] = <<>>) => link[head] = Nil

-----------------------------------------------------------------------------
(* The operations as the abstract queue sees them.                         *)

Items == [i \in 1..Len(Path(head)) - 1 |-> value[Path(head)[i + 1]]]

IdleOp == [kind |-> "none", elm |-> Nothing, done |-> FALSE]

Done(t) == pc[t] \in {"no_memory", "swing", "value", "return"}

Result(t) ==
  CASE pc[t] = "no_memory" -> Nothing
    [] pc[t] = "value" -> value[NodeOf(link[reg[t].p])]
    [] OTHER -> elm[t]

Operation(t) ==
  IF kind[t] = "none" \/ pc[t] \in {"empty", "empty_next"} THEN IdleOp
  ELSE [kind |-> IF kind[t] = "enqueue" THEN "enqueue" ELSE "dequeue",
        elm |-> Result(t), done |-> Done(t)]

Abstract ==
  INSTANCE FifoQueue WITH
    Capacity <- Cardinality(Nodes) - 1,
    items <- Items, op <- [t \in Procs |-> Operation(t)]

(***************************************************************************)
(* The queue is linearizable: it implements FifoQueue, taking effect at    *)
(* the compare-and-swap of a link or of head, or at a read of a last link. *)
(***************************************************************************)
Linearizable == Abstract!Spec

\* The same, for a module that runs the queue beside other things.
LinearizableInit == Abstract!Init
LinearizableStep == Abstract!Next \/ UNCHANGED <<Items, [t \in Procs |-> Operation(t)]>>
=============================================================================
