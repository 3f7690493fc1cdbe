----------------------------- MODULE LFOrdList -----------------------------
(***************************************************************************)
(* The lock-free ordered list (src/lockfree/src/ordlist_harris.c, after    *)
(* Harris), of which the hash table of src/lockfree/src/hashtbl.c has one  *)
(* per bucket, and through it the closed list of LPA*.  A node is removed  *)
(* by marking its link, and unlinked by whoever passes.                    *)
(*                                                                         *)
(* A reference that a process copies and drops again while it holds        *)
(* another to the same node is not counted twice.  There are enough nodes: *)
(* without one, lf_ordlist_cond_update would use a null pointer.           *)
(***************************************************************************)
EXTENDS LFMemory

CONSTANTS
  Keys, Costs,   \* an element is a key, and a cost that cmp does not look at
  MaxOps,        \* per process, a bound on its operations
  Uses,          \* the sets of operations that a program may use together
  Earlier,       \* sets of keys that may have been added before
  IntRange       \* the number of values of cmp's result, an int

ListAssumption ==
  /\ Keys \subseteq Nat /\ Costs \subseteq Nat /\ MaxOps \in [Procs -> Nat]
  /\ IntRange \in Nat /\ IntRange % 2 = 0 /\ IntRange > 0
  /\ \A ks \in Earlier : ks \subseteq Keys /\ Cardinality(ks) + 2 < Len(Order)

Elements == Keys \X Costs
Nothing == <<>>
KeyOf(v) == v[1]
CostOf(v) == v[2]

\* state_cmp_fun: the 64-bit difference of two hash values, as an int.
Cmp(a, b) ==
  LET d == (a - b) % IntRange IN IF d < IntRange \div 2 THEN d ELSE d - IntRange

VARIABLES
  value,   \* per node
  use,     \* the operations in use, constant
  kind,    \* per process, the operation it is in
  arg,     \* per process, its argument
  ret,     \* per process, its result, Nothing for NULL
  reg,     \* per process, the local variables
  left,    \* per process, how many operations it may still start
  seen     \* per process, what the list has had for its key since the call

localVars == <<kind, arg, ret, reg, left>>
clientVars == <<value, use, localVars>>
vars == <<memVars, pc, clientVars, seen>>

head == Order[1]
tail == Order[2]

\* t_next and right_node_next are pointers, the others nodes.
NoRegs == [left |-> NULL, lnext |-> NULL, t |-> NULL, tnext |-> Nil,
           right |-> NULL, rnext |-> Nil, new |-> NULL, v |-> Nothing]

\* lf_ordlist_create: the head and the tail.
Created ==
  /\ fl_head = Order[3]
  /\ refct = [n \in Nodes |-> IF n = head THEN 2 ELSE IF n = tail THEN 4 ELSE 1]
  /\ link = [FirstLinks(2) EXCEPT ![head] = At(tail)]
  /\ value = [n \in Nodes |-> Nothing]

\* The list when elements with the keys ks have been added, in order.
Filled(ks) ==
  LET used == Cardinality(ks)
      node(k) == Order[2 + Cardinality({j \in ks : j <= k})]
      keyOf(n) == CHOOSE k \in ks : node(k) = n
      after(k) == {j \in ks : j > k}
      first(js) == IF js = {} THEN tail ELSE node(Min(js))
      inside == {node(k) : k \in ks}
  IN
  /\ fl_head = Order[3 + used]
  /\ refct = [n \in Nodes |-> IF n \in inside \cup {head} THEN 2
                             ELSE IF n = tail THEN 4 ELSE 1]
  /\ link = [n \in Nodes |-> IF n = head THEN At(first(ks))
                            ELSE IF n \in inside THEN At(first(after(keyOf(n))))
                            ELSE FirstLinks(2 + used)[n]]
  /\ value = [n \in Nodes |-> IF n \in inside THEN <<keyOf(n), Min(Costs)>> ELSE Nothing]

Init ==
  /\ use \in Uses
  /\ Created \/ \E ks \in Earlier : Filled(ks)
  /\ todo = [t \in Procs |-> <<>>] /\ rd = [t \in Procs |-> NotReading]
  /\ cand = [t \in Procs |-> NoCandidate] /\ pc = [t \in Procs |-> "idle"]
  /\ kind = [t \in Procs |-> "none"] /\ arg = [t \in Procs |-> Nothing]
  /\ ret = [t \in Procs |-> Nothing] /\ reg = [t \in Procs |-> NoRegs]
  /\ left = MaxOps /\ seen = [t \in Procs |-> {}]

Call(t) ==
  /\ pc[t] = "idle" /\ left[t] > 0
  /\ \E k \in use, e \in Elements :
       /\ k # "update" => CostOf(e) = Min(Costs)   \* only f looks at it
       /\ kind' = [kind EXCEPT ![t] = k] /\ arg' = [arg EXCEPT ![t] = e]
       /\ Goto(t, IF k \in {"add", "update"} THEN "new" ELSE "search")
  /\ left' = [left EXCEPT ![t] = @ - 1]
  /\ ret' = [ret EXCEPT ![t] = Nothing]
  /\ UNCHANGED <<memVars, value, use, reg>>

Return(t) ==
  /\ pc[t] = "return"
  /\ kind' = [kind EXCEPT ![t] = "none"] /\ arg' = [arg EXCEPT ![t] = Nothing]
  /\ ret' = [ret EXCEPT ![t] = Nothing]
  /\ reg' = [reg EXCEPT ![t] = NoRegs]
  /\ Goto(t, "idle")
  /\ UNCHANGED <<memVars, value, use, left>>

Free(t, s) == todo' = [todo EXCEPT ![t] = Releases(SelectSeq(s, LAMBDA n : n # NULL))]
Forget(t) == reg' = [reg EXCEPT ![t] = [NoRegs EXCEPT !.new = reg[t].new]]

\* What search leaves alone.
SameCall == UNCHANGED <<cand, value, use, kind, arg, ret, left>>

-----------------------------------------------------------------------------
(* search: the first node that is not before the key, and the one before.  *)

StartSearch(t) ==
  /\ pc[t] = "search"
  /\ refct' = [refct EXCEPT ![head] = @ + 2]
  /\ reg' = [reg EXCEPT ![t].t = head]
  /\ Goto(t, "head_next")
  /\ UNCHANGED <<link, fl_head, todo, rd>> /\ SameCall

ReadFirst(t) ==
  /\ pc[t] = "head_next"
  /\ SafeRead(t, link[head],
       LAMBDA ptr : reg' = [reg EXCEPT ![t].tnext = ptr] /\ Goto(t, "scan"),
       <<reg, pc>>)
  /\ SameCall

\* One round of the loop: t becomes the left node unless it is marked.
Scan(t) ==
  LET r == reg[t]
      n == NodeOf(r.tnext)
      l == IF n = tail THEN "check" ELSE "next"
  IN
  /\ pc[t] = "scan"
  /\ IF IsMarked(r.tnext)
     THEN /\ Free(t, <<r.t>>)
          /\ reg' = [reg EXCEPT ![t].t = n, ![t].tnext = Nil]
          /\ UNCHANGED refct
     ELSE /\ Free(t, <<r.left, r.lnext>>)
          /\ refct' = [refct EXCEPT ![n] = @ + 2]
          /\ reg' = [reg EXCEPT ![t].left = r.t, ![t].lnext = n, ![t].t = n,
                                ![t].tnext = Nil]
  /\ Goto(t, l)
  /\ UNCHANGED <<link, fl_head, rd>> /\ SameCall

ReadFurtherIf(t, goOn(_)) ==
  /\ pc[t] = "next"
  /\ SafeRead(t, link[reg[t].t],
       LAMBDA ptr : /\ reg' = [reg EXCEPT ![t].tnext = ptr]
                    /\ Goto(t, IF goOn(ptr) THEN "scan" ELSE "stop"),
       <<reg, pc>>)
  /\ SameCall

\* Faulty: it goes past the key, and it does not pass marked nodes.
ReadBeyond(t) == ReadFurtherIf(t, LAMBDA ptr :
                   IsMarked(ptr) \/ Cmp(KeyOf(value[reg[t].t]), KeyOf(arg[t])) <= 0)
StopAtMarked(t) == ReadFurtherIf(t, LAMBDA ptr :
                     Cmp(KeyOf(value[reg[t].t]), KeyOf(arg[t])) < 0)

ReadFurther(t) == ReadFurtherIf(t, LAMBDA ptr :
                    IsMarked(ptr) \/ Cmp(KeyOf(value[reg[t].t]), KeyOf(arg[t])) < 0)

Stop(t) ==
  /\ pc[t] = "stop"
  /\ Free(t, <<NodeOf(reg[t].tnext)>>)
  /\ reg' = [reg EXCEPT ![t].tnext = Nil]
  /\ Goto(t, "check")
  /\ UNCHANGED <<refct, link, fl_head, rd>> /\ SameCall

\* A marked right node starts the search again.
Accept(t, right, lnext) ==
  IF right # tail /\ IsMarked(link[right])
  THEN /\ Free(t, <<lnext, right, reg[t].left>>) /\ Forget(t) /\ Goto(t, "search")
  ELSE /\ Free(t, <<lnext>>) /\ Goto(t, "found")
       /\ reg' = [reg EXCEPT ![t].right = right, ![t].t = NULL, ![t].lnext = NULL]

CheckAdjacent(t) ==
  /\ pc[t] = "check"
  /\ IF reg[t].lnext = reg[t].t THEN Accept(t, reg[t].t, reg[t].lnext)
                                ELSE Goto(t, "splice") /\ UNCHANGED <<todo, reg>>
  /\ UNCHANGED <<refct, link, fl_head, rd>> /\ SameCall

\* Unlink the marked nodes between left and right.
Splice(t) ==
  LET r == reg[t] IN
  /\ pc[t] = "splice"
  /\ \/ /\ CasLink(r.left, At(r.lnext), At(r.t))
        /\ refct' = [refct EXCEPT ![r.t] = @ + 2]
        /\ Free(t, <<r.lnext, r.lnext>>)
        /\ reg' = [reg EXCEPT ![t].lnext = NULL]
        /\ Goto(t, "spliced")
     \/ /\ link[r.left] # At(r.lnext)
        /\ Free(t, <<r.t, r.left, r.lnext>>)
        /\ Forget(t) /\ Goto(t, "search")
        /\ UNCHANGED <<refct, link>>
  /\ UNCHANGED <<fl_head, rd>> /\ SameCall

Spliced(t) ==
  /\ pc[t] = "spliced"
  /\ Accept(t, reg[t].t, NULL)
  /\ UNCHANGED <<refct, link, fl_head, rd>> /\ SameCall

SearchStep(t) ==
  \/ StartSearch(t) \/ ReadFirst(t) \/ Scan(t) \/ ReadFurther(t) \/ Stop(t)
  \/ CheckAdjacent(t) \/ Splice(t) \/ Spliced(t)

-----------------------------------------------------------------------------
(* lf_ordlist_find, lf_ordlist_cond_update (lf_ordlist_add has no f) and   *)
(* lf_ordlist_remove.                                                      *)

Matches(t) ==
  reg[t].right # tail /\ Cmp(KeyOf(value[reg[t].right]), KeyOf(arg[t])) = 0

Answer(t, v) == ret' = [ret EXCEPT ![t] = v] /\ Goto(t, "return")
SameMemory == UNCHANGED <<refct, link, fl_head, rd, cand>>

Find(t) ==
  /\ pc[t] = "found" /\ kind[t] = "find"
  /\ Answer(t, IF Matches(t) THEN value[reg[t].right] ELSE Nothing)
  /\ Free(t, <<reg[t].right, reg[t].left>>) /\ Forget(t)
  /\ UNCHANGED <<value, use, kind, arg, left>> /\ SameMemory

\* mem_new has returned.
FillNode(t) ==
  LET n == cand[t].node IN
  /\ pc[t] = "fresh"
  /\ value' = [value EXCEPT ![n] = arg[t]]
  /\ reg' = [reg EXCEPT ![t].new = n]
  /\ cand' = [cand EXCEPT ![t] = NoCandidate]
  /\ Goto(t, "search")
  /\ UNCHANGED <<refct, link, fl_head, todo, rd, use, kind, arg, ret, left>>

\* The key is in the list: the new node is not needed.
FoundOld(t) ==
  /\ pc[t] = "found" /\ kind[t] \in {"add", "update"} /\ Matches(t)
  /\ Free(t, <<reg[t].left, reg[t].new>>)
  /\ reg' = [reg EXCEPT ![t].left = NULL, ![t].new = NULL]
  /\ Goto(t, "old")
  /\ UNCHANGED <<value, use, kind, arg, ret, left>> /\ SameMemory

\* LF_ClosedList::better, the f that LPA* passes: a is the old element.
Better(a, b) == CostOf(a) < CostOf(b)

TestOld(t) ==
  LET v == value[reg[t].right] IN
  /\ pc[t] = "old"
  /\ IF kind[t] = "add" \/ ~Better(v, arg[t])
     THEN /\ Answer(t, v) /\ Free(t, <<reg[t].right>>) /\ Forget(t)
     ELSE /\ reg' = [reg EXCEPT ![t].v = v]
          /\ Goto(t, "replace") /\ UNCHANGED <<ret, todo>>
  /\ UNCHANGED <<value, use, kind, arg, left>> /\ SameMemory

Replace(t) ==
  /\ pc[t] = "replace"
  /\ IF value[reg[t].right] = reg[t].v
     THEN /\ value' = [value EXCEPT ![reg[t].right] = arg[t]]
          /\ Answer(t, arg[t]) /\ Free(t, <<reg[t].right>>) /\ Forget(t)
     ELSE /\ Goto(t, "old") /\ UNCHANGED <<value, ret, todo, reg>>
  /\ UNCHANGED <<use, kind, arg, left>> /\ SameMemory

\* Faulty: left may have changed.
InsertBlindly(t) ==
  LET r == reg[t] IN
  /\ pc[t] = "found" /\ kind[t] \in {"add", "update"} /\ ~Matches(t)
  /\ Free(t, <<r.right, r.left>>)
  /\ link' = [link EXCEPT ![r.left] = At(r.new), ![r.new] = At(r.right)]
  /\ Answer(t, arg[t]) /\ reg' = [reg EXCEPT ![t] = NoRegs]
  /\ UNCHANGED <<refct, fl_head, rd, cand, value, use, kind, arg, left>>

\* The new node goes between left and right unless left has changed.
Insert(t) ==
  LET r == reg[t] IN
  /\ pc[t] = "found" /\ kind[t] \in {"add", "update"} /\ ~Matches(t)
  /\ Free(t, <<r.right, r.left>>)
  /\ IF link[r.left] = At(r.right)
     THEN /\ link' = [link EXCEPT ![r.left] = At(r.new), ![r.new] = At(r.right)]
          /\ Answer(t, arg[t]) /\ reg' = [reg EXCEPT ![t] = NoRegs]
     ELSE /\ Goto(t, "search") /\ Forget(t) /\ UNCHANGED <<link, ret>>
  /\ UNCHANGED <<refct, fl_head, rd, cand, value, use, kind, arg, left>>

\* The key is not in the list, or this is the search that only unlinks.
RemoveNothing(t) ==
  /\ pc[t] = "found" /\ kind[t] = "remove"
  /\ ret[t] # Nothing \/ ~Matches(t)
  /\ Free(t, <<reg[t].right, reg[t].left>>) /\ Forget(t)
  /\ Goto(t, "return")
  /\ UNCHANGED <<value, use, kind, arg, ret, left>> /\ SameMemory

ReadVictim(t) ==
  /\ pc[t] = "found" /\ kind[t] = "remove"
  /\ ret[t] = Nothing /\ Matches(t)
  /\ SafeRead(t, link[reg[t].right],
       LAMBDA ptr : reg' = [reg EXCEPT ![t].rnext = ptr] /\ Goto(t, "mark"),
       <<reg, pc>>)
  /\ SameCall

Abandon(t) ==
  /\ Free(t, <<NodeOf(reg[t].rnext), reg[t].right, reg[t].left>>)
  /\ Forget(t) /\ Goto(t, "search")

\* The compare-and-swap that removes the element.
Mark(t) ==
  LET r == reg[t] IN
  /\ pc[t] = "mark"
  /\ \/ /\ ~IsMarked(r.rnext)
        /\ CasLink(r.right, r.rnext, Marked(NodeOf(r.rnext)))
        /\ ret' = [ret EXCEPT ![t] = value[r.right]]
        /\ Goto(t, "unlink") /\ UNCHANGED <<todo, reg>>
     \/ /\ IsMarked(r.rnext) \/ link[r.right] # r.rnext
        /\ Abandon(t) /\ UNCHANGED <<link, ret>>
  /\ UNCHANGED <<refct, fl_head, rd, cand, value, use, kind, arg, left>>

UnlinkVictim(t) ==
  LET r == reg[t] IN
  /\ pc[t] = "unlink"
  /\ \/ /\ CasLink(r.left, At(r.right), r.rnext)
        /\ Free(t, <<r.right, r.right, r.left>>)
        /\ Forget(t) /\ Goto(t, "return")
     \/ /\ link[r.left] # At(r.right)
        /\ Abandon(t) /\ UNCHANGED link
  /\ UNCHANGED <<refct, fl_head, rd, cand, value, use, kind, arg, ret, left>>

OperationStep(t) ==
  \/ Find(t) \/ FillNode(t) \/ FoundOld(t) \/ TestOld(t) \/ Replace(t) \/ Insert(t)
  \/ RemoveNothing(t) \/ ReadVictim(t) \/ Mark(t) \/ UnlinkVictim(t)

-----------------------------------------------------------------------------
\* The elements of the list: those of nodes that are reached and not marked.
Linked == ToSet(Path(head)) \ {head, tail}
Contents == {value[n] : n \in {m \in Linked : ~IsMarked(link[m])}}
Lookup(k) == {v \in Contents : KeyOf(v) = k}

\* What each operation under way has seen of its key.
Observe ==
  seen' = [t \in Procs |->
             IF kind'[t] = "none" THEN {}
             ELSE (IF kind[t] = "none" THEN {} ELSE seen[t])
                     \cup {Lookup(KeyOf(arg[t]))'}]

Step(t) ==
  /\ IF todo[t] # <<>> THEN ReleaseStep(t, clientVars)
     ELSE Call(t) \/ MemNewStep(t, clientVars) \/ SearchStep(t)
            \/ OperationStep(t) \/ Return(t)
  /\ Observe

Ended == \A t \in Procs : pc[t] = "idle" /\ left[t] = 0 /\ todo[t] = <<>>

Next == (\E t \in Procs : Step(t)) \/ (Ended /\ UNCHANGED vars)

Spec == Init /\ [][Next]_vars

-----------------------------------------------------------------------------

(***************************************************************************)
(* An operation that has no effect of its own returns what the list had    *)
(* for its key at some moment since its call.                              *)
(***************************************************************************)
AnswersSeen ==
  \A t \in Procs :
    pc[t] = "return" /\ kind[t] \in {"find", "add", "update"} =>
      IF ret[t] = Nothing THEN {} \in seen[t] ELSE {ret[t]} \in seen[t]

(***************************************************************************)
(* The elements change by what one operation under way does, at one step:  *)
(* nothing is lost behind a marked node, or removed twice.                 *)
(***************************************************************************)
OneEffectStep ==
  \/ Contents' = Contents
  \/ \E t \in Procs :
       /\ kind[t] \in {"add", "update"} /\ ret[t] = Nothing /\ ret'[t] = arg[t]
       /\ Contents' = (Contents \ Lookup(KeyOf(arg[t]))) \cup {arg[t]}
       /\ kind[t] = "add" => Lookup(KeyOf(arg[t])) = {}
  \/ \E t \in Procs :
       /\ kind[t] = "remove" /\ ret[t] = Nothing /\ ret'[t] # Nothing
       /\ Lookup(KeyOf(arg[t])) = {ret'[t]}
       /\ Contents' = Contents \ {ret'[t]}

OneEffect == [][OneEffectStep]_vars

(***************************************************************************)
(* When nobody is in an operation, the list holds the only references to   *)
(* its nodes, and all other nodes are free.                                *)
(***************************************************************************)
NothingLeaks ==
  (\A t \in Procs : pc[t] = "idle" /\ todo[t] = <<>>) =>
    \A n \in Nodes :
      refct[n] = IF n \in FreeNodes THEN 1
                 ELSE 2 * (HeldByLinks(n) + IF n \in {head, tail} THEN 1 ELSE 0)

=============================================================================
