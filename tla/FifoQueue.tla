----------------------------- MODULE FifoQueue -----------------------------
(***************************************************************************)
(* What the lock-free queue promises (src/lockfree/include/lockfree.h):    *)
(* every operation takes effect at one moment between its call and its     *)
(* return, elements leave in the order they came, and an element is        *)
(* refused only by a full queue, or while another operation is under way.  *)
(***************************************************************************)
EXTENDS Naturals, Sequences

CONSTANTS Procs, Elements, Nothing, Capacity

VARIABLES
  items,   \* the elements of the queue, the oldest first
  op       \* per process, the operation it is in and what is known of it

Idle == [kind |-> "none", elm |-> Nothing, done |-> FALSE]

Init == items = <<>> /\ op = [t \in Procs |-> Idle]

Call(t) ==
  /\ op[t] = Idle
  /\ \/ \E e \in Elements :
          op' = [op EXCEPT ![t] = [kind |-> "enqueue", elm |-> e, done |-> FALSE]]
     \/ op' = [op EXCEPT ![t] = [kind |-> "dequeue", elm |-> Nothing, done |-> FALSE]]
  /\ UNCHANGED items

Pending(t, kind) == op[t].kind = kind /\ ~op[t].done

Enqueue(t) ==
  /\ Pending(t, "enqueue")
  /\ items' = Append(items, op[t].elm)
  /\ op' = [op EXCEPT ![t].done = TRUE]

Refuse(t) ==
  /\ Pending(t, "enqueue")
  /\ Len(items) = Capacity \/ \E u \in Procs \ {t} : op[u] # Idle
  /\ op' = [op EXCEPT ![t].done = TRUE, ![t].elm = Nothing]
  /\ UNCHANGED items

\* An empty queue gives nothing.
Dequeue(t) ==
  /\ Pending(t, "dequeue")
  /\ op' = [op EXCEPT ![t].done = TRUE,
                      ![t].elm = IF items = <<>> THEN Nothing ELSE Head(items)]
  /\ items' = IF items = <<>> THEN items ELSE Tail(items)

Return(t) ==
  /\ op[t].done
  /\ op' = [op EXCEPT ![t] = Idle]
  /\ UNCHANGED items

Next ==
  \E t \in Procs : Call(t) \/ Enqueue(t) \/ Refuse(t) \/ Dequeue(t) \/ Return(t)

Spec == Init /\ [][Next]_<<items, op>>
=============================================================================
