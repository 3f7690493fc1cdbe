------------------------------ MODULE LFMemory ------------------------------
(***************************************************************************)
(* The reference-counted memory under the lock-free structures             *)
(* (src/lockfree/src/mem.c, after Valois, Michael and Scott).  A node      *)
(* counts two for each reference to it, and one when it has been claimed   *)
(* by the thread that released the last reference, or is on the free list. *)
(*                                                                         *)
(* Each step is one atomic access to memory that others use.  The counter  *)
(* nfreed, which is only printed, is left out, and a compare-and-swap loop *)
(* over a single counter is one step.                                      *)
(***************************************************************************)
EXTENDS Integers, SequencesExt, FiniteSetsExt

CONSTANTS
  Procs,
  Nodes,
  Order,     \* the nodes, in the order in which mem_new gives them out first
  NULL

MemoryAssumption == NULL \notin Nodes /\ IsInjective(Order) /\ Range(Order) = Nodes

VARIABLES
  refct,    \* per node, refct_claim
  link,     \* per node, links[0]: a pointer
  fl_head,  \* the first node of the free list
  todo,     \* per process, the calls of mem_release it is in, innermost first
  rd,       \* per process, the mem_safe_read it is in
  cand,     \* per process, mem_new's p and the link it has read
  pc

memVars == <<refct, link, fl_head, todo, rd, cand>>

\* A pointer is a node and whether its lowest bit is marked.
At(n) == <<n, FALSE>>
Marked(n) == <<n, TRUE>>
Nil == At(NULL)
NodeOf(ptr) == ptr[1]
IsMarked(ptr) == ptr[2]

Claimed(n) == refct[n] % 2 = 1

NotReading == [ptr |-> Nil, step |-> "none"]
NoCandidate == [node |-> NULL, next |-> Nil]

Goto(t, l) == pc' = [pc EXCEPT ![t] = l]

\* References released before the process goes on.
Releases(s) == [i \in 1..Len(s) |-> <<"release", s[i]>>]

\* compare_and_swap of a link.
CasLink(n, old, new) == link[n] = old /\ link' = [link EXCEPT ![n] = new]

\* mem_freelist_create, when the structure has taken its first k nodes.
FirstLinks(k) ==
  [n \in Nodes |->
     LET i == CHOOSE j \in DOMAIN Order : Order[j] = n
     IN  IF i <= k \/ i = Len(Order) THEN Nil ELSE At(Order[i + 1])]

-----------------------------------------------------------------------------
(* mem_safe_read of a cell that contains content: read it, count a         *)
(* reference, and read it again.  Then(ptr) is what the caller does with   *)
(* the result, on the variables of client.                                 *)

\* Faulty: the cell is not read again.
NotReadAgain(t, content) == TRUE

Unchanged(t, content) == rd[t].ptr = content

SafeRead(t, content, Then(_), client) ==
  \/ /\ rd[t] = NotReading /\ NodeOf(content) = NULL
     /\ Then(content)
     /\ UNCHANGED <<refct, link, fl_head, todo, rd>>
  \/ /\ rd[t] = NotReading /\ NodeOf(content) # NULL
     /\ rd' = [rd EXCEPT ![t] = [ptr |-> content, step |-> "incr"]]
     /\ UNCHANGED <<refct, link, fl_head, todo, client>>
  \/ /\ rd[t].step = "incr"
     /\ refct' = [refct EXCEPT ![NodeOf(rd[t].ptr)] = @ + 2]
     /\ rd' = [rd EXCEPT ![t].step = "check"]
     /\ UNCHANGED <<link, fl_head, todo, client>>
  \/ /\ rd[t].step = "check" /\ Unchanged(t, content)
     /\ rd' = [rd EXCEPT ![t] = NotReading]
     /\ Then(rd[t].ptr)
     /\ UNCHANGED <<refct, link, fl_head, todo>>
  \/ /\ rd[t].step = "check" /\ ~Unchanged(t, content)
     /\ rd' = [rd EXCEPT ![t] = NotReading]
     /\ todo' = [todo EXCEPT ![t] = Releases(<<NodeOf(rd[t].ptr)>>)]
     /\ UNCHANGED <<refct, link, fl_head, client>>

-----------------------------------------------------------------------------
(* mem_new, entered at "new"; the node is in cand at "fresh".              *)

ReadFreeList(t, client) ==
  /\ pc[t] = "new"
  /\ SafeRead(t, At(fl_head),
       LAMBDA ptr :
         /\ cand' = [cand EXCEPT ![t] = [node |-> NodeOf(ptr), next |-> Nil]]
         /\ Goto(t, IF ptr = Nil THEN "no_memory" ELSE "new_next"),
       <<cand, pc>>)
  /\ UNCHANGED client

ReadNextFree(t, client) ==
  /\ pc[t] = "new_next"
  /\ cand' = [cand EXCEPT ![t].next = link[cand[t].node]]
  /\ Goto(t, "new_cas")
  /\ UNCHANGED <<refct, link, fl_head, todo, rd, client>>

TakeFree(t, client) ==
  /\ pc[t] = "new_cas"
  /\ IF fl_head = cand[t].node
     THEN /\ fl_head' = NodeOf(cand[t].next)
          /\ Goto(t, "new_clear") /\ UNCHANGED <<todo, cand>>
     ELSE /\ todo' = [todo EXCEPT ![t] = Releases(<<cand[t].node>>)]
          /\ cand' = [cand EXCEPT ![t] = NoCandidate]
          /\ Goto(t, "new") /\ UNCHANGED fl_head
  /\ UNCHANGED <<refct, link, rd, client>>

\* clear_lowest_bit; the links of a new node are nobody else's.
ClearClaim(t, client) ==
  /\ pc[t] = "new_clear"
  /\ refct' = [refct EXCEPT ![cand[t].node] = @ - 1]
  /\ link' = [link EXCEPT ![cand[t].node] = Nil]
  /\ cand' = [cand EXCEPT ![t].next = Nil]
  /\ Goto(t, "fresh")
  /\ UNCHANGED <<fl_head, todo, rd, client>>

MemNewStep(t, client) ==
  \/ ReadFreeList(t, client) \/ ReadNextFree(t, client)
  \/ TakeFree(t, client) \/ ClearClaim(t, client)

-----------------------------------------------------------------------------
(* mem_release_recursive; the iterative version releases in another order. *)

Rest(t) == Tail(todo[t])
Doing(t, what) == todo[t] # <<>> /\ Head(todo[t])[1] = what
Target(t) == Head(todo[t])[2]

\* decrement_and_test_and_set: who takes the last reference claims the node.
Release(t, client) ==
  /\ Doing(t, "release")
  /\ LET n == Target(t)
         last == refct[n] = 2 IN
     /\ refct' = [refct EXCEPT ![n] = IF last THEN 1 ELSE @ - 2]
     /\ todo' = [todo EXCEPT ![t] =
                   (IF last THEN <<<<"unlink", n>>>> ELSE <<>>) \o Rest(t)]
  /\ UNCHANGED <<link, fl_head, rd, cand, pc, client>>

\* Faulty: the reference that the node's link holds is forgotten.
UnlinkOnly(t, client) ==
  /\ Doing(t, "unlink")
  /\ link' = [link EXCEPT ![Target(t)] = Nil]
  /\ todo' = [todo EXCEPT ![t] = <<<<"reclaim", Target(t)>>>> \o Rest(t)]
  /\ UNCHANGED <<refct, fl_head, rd, cand, pc, client>>

\* The node's own reference is released before the node is reclaimed.
Unlink(t, client) ==
  /\ Doing(t, "unlink")
  /\ LET n == Target(t)
         l == NodeOf(link[n]) IN
     /\ link' = [link EXCEPT ![n] = Nil]
     /\ todo' = [todo EXCEPT ![t] =
                   (IF l = NULL THEN <<>> ELSE Releases(<<l>>))
                     \o <<<<"reclaim", n>>>> \o Rest(t)]
  /\ UNCHANGED <<refct, fl_head, rd, cand, pc, client>>

Reclaim(t, client) ==
  /\ Doing(t, "reclaim")
  /\ link' = [link EXCEPT ![Target(t)] = At(fl_head)]
  /\ todo' = [todo EXCEPT ![t] = <<<<"push", Target(t)>>>> \o Rest(t)]
  /\ UNCHANGED <<refct, fl_head, rd, cand, pc, client>>

PushFree(t, client) ==
  /\ Doing(t, "push")
  /\ IF link[Target(t)] = At(fl_head)
     THEN /\ fl_head' = Target(t)
          /\ todo' = [todo EXCEPT ![t] = Rest(t)]
     ELSE /\ todo' = [todo EXCEPT ![t] = <<<<"reclaim", Target(t)>>>> \o Rest(t)]
          /\ UNCHANGED fl_head
  /\ UNCHANGED <<refct, link, rd, cand, pc, client>>

ReleaseStep(t, client) ==
  \/ Release(t, client) \/ Unlink(t, client)
  \/ Reclaim(t, client) \/ PushFree(t, client)

-----------------------------------------------------------------------------
\* The nodes reached from n along the links, n first; longer than the
\* number of nodes if there is a cycle.
Path(n) ==
  LET Extend[s \in Seq(Nodes)] ==
        LET l == NodeOf(link[Last(s)]) IN IF l = NULL THEN s ELSE Append(s, l)
      path[k \in 0..Len(Order)] == IF k = 0 THEN <<n>> ELSE Extend[path[k - 1]]
  IN  IF n = NULL THEN <<>> ELSE path[Len(Order)]

FreeNodes == ToSet(Path(fl_head))

\* The references from links: a free node's link is not counted, and neither
\* is the one that a node gets while it is being reclaimed.
HeldByLinks(n) ==
  Cardinality({m \in Nodes :
    /\ NodeOf(link[m]) = n
    /\ m \notin FreeNodes
    /\ \A t \in Procs : \A i \in 1..Len(todo[t]) : todo[t][i] # <<"push", m>>})
=============================================================================
