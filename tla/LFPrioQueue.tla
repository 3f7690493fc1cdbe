---------------------------- MODULE LFPrioQueue ----------------------------
(***************************************************************************)
(* The lock-free priority queue (src/lockfree/src/prio_queue.c, after      *)
(* Sundell and Tsigas), which is the open list of LPA*: a skip list whose  *)
(* nodes are deleted by marking their value, then their links, and are     *)
(* unlinked, level by level, by whoever passes.                            *)
(*                                                                         *)
(* The calls that a process is in are a stack of frames.  mem_safe_read is *)
(* one step and there are enough nodes: none is used twice.  PREV of a     *)
(* node is always null, so that help_delete starts from the head.          *)
(***************************************************************************)
EXTENDS Integers, Sequences

CONSTANTS
  Procs,
  Items,       \* the nodes, ordered by their addresses
  Rank,       \* per node, its key
  head, tail, NULL,
  MAX_LEVEL,
  Heights,     \* the levels that random_level may return
  Stocks,      \* what may be in the queue already: functions of nodes to levels
  MaxOps,      \* per process, a bound on its operations
  MayInsert    \* the processes that insert, and not only take

PrioQueueAssumption ==
  /\ Items \subseteq Nat /\ Rank \in [Items -> Nat]
  /\ MAX_LEVEL \in Nat \ {0} /\ Heights \subseteq 0..(MAX_LEVEL - 1)
  /\ \A q \in Stocks : DOMAIN q \subseteq Items
  /\ MaxOps \in [Procs -> Nat] /\ MayInsert \subseteq Procs

VARIABLES
  chain,     \* per node and level, NEXT: a node and whether it is marked
  gone,      \* the nodes whose value is marked
  level,     \* per node, -1 before it is used
  stack,     \* per process, the calls it is in, innermost first
  calls,     \* per process, how many operations it may still start
  present,   \* the nodes that are inserted and not marked
  through,   \* per process, those that were present ever since its call
  astray     \* those inserted behind a taken node of level 0, whose link nobody
             \* marks, or behind one of them

queueVars == <<chain, gone, level, stack, calls, present, through, astray>>

At(n) == <<n, FALSE>>
Nil == At(NULL)
DELETED_REFERENCE == <<NULL, TRUE>>
MarkedLink(n, i) == [chain EXCEPT ![n][i] = <<@[1], TRUE>>]

\* mem_safe_read_null_on_mark.
READ_NODE(ptr) == IF ptr[2] THEN NULL ELSE ptr[1]

Levels == 0..(MAX_LEVEL - 1)
OnLevel(n, l, i) == i = 0 \/ i < l

\* is_pred, with the predicate of LF_OpenList: equal keys are ordered by
\* address.  read_next is a scan_key that has no key and so stops at once.
IsPred(a, b) ==
  /\ a # tail /\ b # NULL
  /\ Rank[a] < Rank[b] \/ (Rank[a] = Rank[b] /\ a > b)

\* lf_pq_create, and what has been inserted since.
Stocked(q) ==
  LET On(i) == {m \in DOMAIN q : OnLevel(m, q[m], i)}
      First(S) == IF S = {} THEN tail
                  ELSE CHOOSE m \in S : \A k \in S \ {m} : IsPred(m, k)
  IN
  /\ level = [n \in Items |-> IF n \in DOMAIN q THEN q[n] ELSE -1]
  /\ chain = [n \in Items \cup {head} |-> [i \in Levels |->
       IF n = head THEN At(First(On(i)))
       ELSE IF n \in DOMAIN q /\ n \in On(i)
            THEN At(First({m \in On(i) : IsPred(n, m)})) ELSE Nil]]
  /\ present = DOMAIN q

Init ==
  /\ \E q \in Stocks : Stocked(q)
  /\ gone = {} /\ stack = [t \in Procs |-> <<>>]
  /\ calls = MaxOps /\ through = [t \in Procs |-> {}] /\ astray = {}

-----------------------------------------------------------------------------
(* Frames: prev and next are what a call is given and returns, base is the *)
(* level that help_delete is for.                                          *)

Frame == [pc |-> "", i |-> 0, prev |-> NULL, next |-> NULL, node |-> NULL,
          base |-> 0, saved |-> <<>>]

ScanKey(from, i, node) ==
  [Frame EXCEPT !.pc = "value", !.prev = from, !.i = i, !.node = node]
HelpDelete(node, base) ==
  [Frame EXCEPT !.pc = "mark", !.i = base, !.node = node, !.base = base]
RemoveNode(from, node, i) ==
  [Frame EXCEPT !.pc = "check", !.prev = from, !.i = i, !.node = node]

Top(t) == stack[t][1]
In(t, l) == stack[t] # <<>> /\ Top(t).pc = l

Go(t, frames) == stack' = [stack EXCEPT ![t] = frames \o Tail(@)]
Goto(t, l) == Go(t, <<[Top(t) EXCEPT !.pc = l]>>)

\* Return to the caller, which gets prev and next.
Back(t, prev, next) ==
  stack' = [stack EXCEPT ![t] =
              [Tail(@) EXCEPT ![1] = [@ EXCEPT !.prev = prev, !.next = next]]]

SameNodes == UNCHANGED <<gone, level, calls, present>>
SameQueue == UNCHANGED chain /\ SameNodes

-----------------------------------------------------------------------------
(* read_next and scan_key.                                                 *)

ReadValue(t) ==
  LET f == Top(t) IN
  /\ In(t, "value")
  /\ Go(t, (IF f.prev \in gone THEN <<HelpDelete(f.prev, f.i)>> ELSE <<>>)
             \o <<[f EXCEPT !.pc = "link"]>>)
  /\ SameQueue

ReadLink(t) ==
  LET f == Top(t)
      n == READ_NODE(chain[f.prev][f.i])
  IN
  /\ In(t, "link")
  /\ CASE n = NULL -> Go(t, <<HelpDelete(f.prev, f.i), f>>)
       [] n # NULL /\ IsPred(n, f.node) -> Go(t, <<ScanKey(n, f.i, f.node)>>)
       [] OTHER -> Back(t, f.prev, n)
  /\ SameQueue

-----------------------------------------------------------------------------
(* help_delete and remove_node.                                            *)

\* Reading and marking a link is tried until it is marked.
MarkLink(t) ==
  LET f == Top(t) IN
  /\ In(t, "mark") /\ f.i < level[f.node]
  /\ chain' = MarkedLink(f.node, f.i)
  /\ Go(t, <<[f EXCEPT !.i = @ + 1]>>)
  /\ SameNodes

Locate(t) ==
  LET f == Top(t) IN
  /\ In(t, "mark") /\ f.i >= level[f.node]
  /\ Go(t, <<ScanKey(head, MAX_LEVEL - 1, f.node),
             [f EXCEPT !.pc = "locate", !.i = MAX_LEVEL - 2]>>)
  /\ SameQueue

\* The next level down, or remove_node, which ends help_delete.
LocateBelow(t) ==
  LET f == Top(t) IN
  /\ In(t, "locate")
  /\ Go(t, IF f.i >= f.base
           THEN <<ScanKey(f.prev, f.i, f.node), [f EXCEPT !.i = @ - 1]>>
           ELSE <<RemoveNode(f.prev, f.node, f.base)>>)
  /\ SameQueue

CheckRemoved(t) ==
  LET f == Top(t) IN
  /\ In(t, "check")
  /\ IF chain[f.node][f.i] = DELETED_REFERENCE THEN Back(t, f.prev, NULL)
     ELSE Go(t, <<ScanKey(f.prev, f.i, f.node), [f EXCEPT !.pc = "again"]>>)
  /\ SameQueue

CheckAgain(t) ==
  LET f == Top(t) IN
  /\ In(t, "again")
  /\ IF f.next # f.node \/ chain[f.node][f.i] = DELETED_REFERENCE
     THEN Back(t, f.prev, NULL)
     ELSE Goto(t, "next")
  /\ SameQueue

ReadNext(t) ==
  LET f == Top(t) IN
  /\ In(t, "next")
  /\ Go(t, <<[f EXCEPT !.pc = "unlink", !.next = chain[f.node][f.i][1]]>>)
  /\ SameQueue

Unlink(t) ==
  LET f == Top(t) IN
  /\ In(t, "unlink")
  /\ IF chain[f.prev][f.i] = At(f.node)
     THEN chain' = [chain EXCEPT ![f.prev][f.i] = At(f.next)] /\ Goto(t, "delete")
     ELSE UNCHANGED chain /\ Goto(t, "check")
  /\ SameNodes

DeleteReference(t) ==
  LET f == Top(t) IN
  /\ In(t, "delete")
  /\ chain' = [chain EXCEPT ![f.node][f.i] = DELETED_REFERENCE]
  /\ Back(t, f.prev, NULL)
  /\ SameNodes

HelpStep(t) ==
  \/ ReadValue(t) \/ ReadLink(t) \/ MarkLink(t) \/ Locate(t) \/ LocateBelow(t)
  \/ CheckRemoved(t) \/ CheckAgain(t) \/ ReadNext(t) \/ Unlink(t) \/ DeleteReference(t)

-----------------------------------------------------------------------------
(* lf_pq_insert.                                                           *)

Start(t, frames) ==
  /\ stack[t] = <<>> /\ calls[t] > 0
  /\ stack' = [stack EXCEPT ![t] = frames]
  /\ calls' = [calls EXCEPT ![t] = @ - 1]

\* create_node, and the first scan.
StartInsert(t) ==
  \E n \in {m \in Items : level[m] = -1}, l \in Heights :
    /\ t \in MayInsert
    /\ Start(t, <<ScanKey(head, MAX_LEVEL - 1, n),
                  [Frame EXCEPT !.pc = "insert", !.i = MAX_LEVEL - 1, !.node = n]>>)
    /\ level' = [level EXCEPT ![n] = l]
    /\ UNCHANGED <<chain, gone, present>>

\* Remember the predecessors on the levels of the node; saved_nodes[i] is the
\* last but i - 1.
Descend(t) ==
  LET f == Top(t) IN
  /\ In(t, "insert") /\ f.i > 0
  /\ Go(t, <<ScanKey(f.prev, f.i - 1, f.node),
             [f EXCEPT !.i = @ - 1,
                       !.saved = IF f.i < level[f.node] THEN <<f.prev>> \o @ ELSE @]>>)
  /\ SameQueue

\* Faulty: the predecessor may have changed, or been deleted.
InsertBlindly(t) ==
  LET f == Top(t) IN
  /\ In(t, "insert") /\ f.i = 0
  /\ chain' = [chain EXCEPT ![f.prev][0] = At(f.node), ![f.node][0] = At(f.next)]
  /\ present' = present \cup {f.node}
  /\ Go(t, <<[f EXCEPT !.pc = "above", !.i = 1]>>)
  /\ UNCHANGED <<gone, level, calls>>

\* The compare-and-swap that inserts the element.
InsertBottom(t) ==
  LET f == Top(t) IN
  /\ In(t, "insert") /\ f.i = 0
  /\ IF chain[f.prev][0] = At(f.next)
     THEN /\ chain' = [chain EXCEPT ![f.prev][0] = At(f.node), ![f.node][0] = At(f.next)]
          /\ present' = present \cup {f.node}
          /\ Go(t, <<[f EXCEPT !.pc = "above", !.i = 1]>>)
     ELSE /\ Go(t, <<ScanKey(f.prev, 0, f.node), f>>)
          /\ UNCHANGED <<chain, present>>
  /\ UNCHANGED <<gone, level, calls>>

InsertAbove(t) ==
  LET f == Top(t) IN
  /\ In(t, "above") /\ f.i < level[f.node]
  /\ Go(t, <<ScanKey(f.saved[1], f.i, f.node),
             [f EXCEPT !.pc = "write", !.saved = Tail(@)]>>)
  /\ SameQueue

\* The link may have been marked already.
WriteLink(t) ==
  LET f == Top(t) IN
  /\ In(t, "write")
  /\ chain' = [chain EXCEPT ![f.node][f.i] = At(f.next)]
  /\ Goto(t, "alive") /\ SameNodes

CheckAlive(t) ==
  LET f == Top(t) IN
  /\ In(t, "alive")
  /\ Go(t, <<IF f.node \in gone THEN [f EXCEPT !.pc = "above", !.i = @ + 1]
                                ELSE [f EXCEPT !.pc = "join"]>>)
  /\ SameQueue

JoinLevel(t) ==
  LET f == Top(t) IN
  /\ In(t, "join")
  /\ IF chain[f.prev][f.i] = At(f.next)
     THEN /\ chain' = [chain EXCEPT ![f.prev][f.i] = At(f.node)]
          /\ Go(t, <<[f EXCEPT !.pc = "above", !.i = @ + 1]>>)
     ELSE /\ UNCHANGED chain
          /\ Go(t, <<ScanKey(f.prev, f.i, f.node), [f EXCEPT !.pc = "write"]>>)
  /\ SameNodes

\* A node that was deleted meanwhile is removed.
EndInsert(t) ==
  LET f == Top(t) IN
  /\ In(t, "above") /\ f.i >= level[f.node]
  /\ Go(t, IF f.node \in gone THEN <<HelpDelete(f.node, 0), [Frame EXCEPT !.pc = "end"]>>
                              ELSE <<>>)
  /\ SameQueue

Return(t) == In(t, "end") /\ Go(t, <<>>) /\ SameQueue

InsertStep(t) ==
  \/ StartInsert(t) \/ Descend(t) \/ InsertBottom(t) \/ InsertAbove(t) \/ WriteLink(t)
  \/ CheckAlive(t) \/ JoinLevel(t) \/ EndInsert(t) \/ Return(t)

-----------------------------------------------------------------------------
(* lf_pq_delete_min.                                                       *)

First == [Frame EXCEPT !.pc = "first"]

StartDelete(t) ==
  /\ Start(t, <<ScanKey(head, 0, NULL), First>>)
  /\ UNCHANGED <<chain, gone, level, present>>

ReadFirst(t) ==
  LET f == Top(t) IN
  /\ In(t, "first")
  /\ IF f.next = tail THEN Go(t, <<>>)
     ELSE Goto(t, IF f.next \in gone THEN "dead" ELSE "live")
  /\ SameQueue

\* Still next to each other?  A node that is marked already is removed first.
Confirm(t) ==
  LET f == Top(t) IN
  /\ In(t, "live") \/ In(t, "dead")
  /\ CASE chain[f.prev][0] # At(f.next) -> Go(t, <<ScanKey(f.prev, 0, NULL), First>>)
       [] chain[f.prev][0] = At(f.next) /\ f.pc = "live" -> Goto(t, "take")
       [] OTHER -> Go(t, <<HelpDelete(f.next, 0), ScanKey(NULL, 0, NULL), First>>)
  /\ SameQueue

\* The compare-and-swap that takes the element.
Take(t) ==
  LET f == Top(t) IN
  /\ In(t, "take")
  /\ IF f.next \in gone THEN Goto(t, "dead") /\ UNCHANGED <<gone, present>>
     ELSE /\ gone' = gone \cup {f.next} /\ present' = present \ {f.next}
          /\ Go(t, <<[Frame EXCEPT !.pc = "strip", !.node = f.next]>>)
  /\ UNCHANGED <<chain, level, calls>>

Strip(t) ==
  LET f == Top(t) IN
  /\ In(t, "strip") /\ f.i < level[f.node]
  /\ chain' = MarkedLink(f.node, f.i)
  /\ Go(t, <<[f EXCEPT !.i = @ + 1]>>)
  /\ SameNodes

Stripped(t) ==
  LET f == Top(t) IN
  /\ In(t, "strip") /\ f.i >= level[f.node]
  /\ Go(t, <<[f EXCEPT !.pc = "taken", !.i = level[f.node] - 1, !.prev = head]>>)
  /\ SameQueue

\* From the top level down, then return the value.
RemoveTaken(t) ==
  LET f == Top(t) IN
  /\ In(t, "taken")
  /\ Go(t, IF f.i >= 0
           THEN <<RemoveNode(f.prev, f.node, f.i), [f EXCEPT !.i = @ - 1]>> ELSE <<>>)
  /\ SameQueue

DeleteStep(t) ==
  \/ StartDelete(t) \/ ReadFirst(t) \/ Confirm(t) \/ Take(t)
  \/ Strip(t) \/ Stripped(t) \/ RemoveTaken(t)

-----------------------------------------------------------------------------
\* What has been present throughout each operation under way, and where t has
\* inserted.  No step reads either.
Observe(t) ==
  /\ through' = [u \in Procs |->
                   IF stack'[u] = <<>> THEN {}
                   ELSE (IF stack[u] = <<>> THEN present ELSE through[u]) \cap present']
  /\ astray' = astray \cup
       {n \in present' \ present :
          Top(t).prev \in astray \/ (Top(t).prev \in gone /\ level[Top(t).prev] = 0)}

Step(t) == (HelpStep(t) \/ InsertStep(t) \/ DeleteStep(t)) /\ Observe(t)

Idle == \A t \in Procs : stack[t] = <<>>
Exhausted == Idle /\ \A t \in Procs : calls[t] = 0

Next == \E t \in Procs : Step(t)

lf_pq_empty == chain[head][0] = At(tail)

-----------------------------------------------------------------------------
(* Properties.                                                             *)

\* What is taken is no worse than any of S that was there all the time; when
\* nothing is found, none of S was; and an empty queue has none of S out of
\* sight.
TakesLeastOf(S) ==
  /\ \A t \in Procs : \A e \in through[t] \cap S :
       /\ ~(In(t, "first") /\ Top(t).next = tail)
       /\ (In(t, "strip") \/ In(t, "taken")) => ~IsPred(e, Top(t).node)
  /\ lf_pq_empty => present \cap S = {}

\* lf_pq_delete_min takes, as lockfree.h has it, the minimum.
TakesLeast == TakesLeastOf(Items)

\* It misses an element only behind a node of level 0.
TakesLeastInSight == TakesLeastOf(Items \ astray)
=============================================================================
