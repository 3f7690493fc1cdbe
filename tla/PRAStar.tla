------------------------------- MODULE PRAStar -------------------------------
(***************************************************************************)
(* PRA* and HDA* (src/prastar.cc): every state belongs to the thread that  *)
(* its hash names.  A thread expands its own nodes and sends each child to *)
(* the child's owner, at once or through a buffer (src/util/msg_buffer.h)  *)
(* that is flushed when the receiver's mutex is free.  A thread with       *)
(* nothing to do counts itself complete (src/util/completion_counter.cc);  *)
(* who sends it a node takes that back.  The search is over when all       *)
(* threads are complete at once.                                           *)
(*                                                                         *)
(* A node is a state with its g and parent, as in PBNFSearch.  The initial *)
(* node is put into an open list but into no closed list: it is a state of *)
(* its own here, to which no edge leads.                                   *)
(*                                                                         *)
(* wPRAStar (src/wprastar.cc) is the same program with a solution within   *)
(* the heuristic's weight as its aim: the definitions below that begin     *)
(* with "weighted" are where it differs.  Which of the two a behaviour is  *)
(* a run of is one of its options.                                         *)
(***************************************************************************)
EXTENDS SearchSpace

CONSTANTS
  Threads, NoThread,
  NoState,
  HWeight,           \* Heuristic::get_weight() / fp_one
  Owner,             \* send_state: the thread a state's hash names
  Options,           \* wPRAStar? and the constructors' async_send, async_recv,
                     \* max_exp and dd
  Slack,             \* what the first bound leaves to fp_infinity (100)
  Overrun            \* Search::overrun

ASSUME PRAStarAssumption ==
  /\ IsFiniteSet(Threads) /\ Threads # {} /\ NoThread \notin Threads
  /\ NoState \notin States
  /\ \A s \in States : \A e \in Edges[s] : e.to # Start
  /\ Owner \in [States -> Threads]
  /\ Options \subseteq [weighted : BOOLEAN, send : BOOLEAN, recv : BOOLEAN,
                         max_exp : Nat, dd : BOOLEAN]
  /\ \A o \in Options : /\ o.max_exp # 0 => o.send
                        /\ o.dd => o.weighted
                        /\ o.weighted => o.send = o.recv
  /\ HWeight \in Nat \ {0} /\ Slack \in 0..Infinity /\ Overrun \in Nat

VARIABLES
  opt,         \* the options this search was built with
  g, parent,   \* per state, its node in its owner's closed list
  open,        \* the states whose node is in its owner's open list
  q,           \* per thread, the nodes in its message queue
  q_empty,     \* per thread, its flag that the queue is empty
  out,         \* out[t][u]: the nodes t has buffered for u
  mutex,       \* per thread, who holds its mutex between two steps
  completed,   \* per thread, has it counted itself complete?
  counter,     \* the completion counter
  done,        \* PRAStar::done
  bound, solution,
  pc,          \* where each thread is
  looping,     \* is it in the while loop of take?
  expansions,  \* since the last flush of the send buffers
  has_sends,   \* take's has_sends
  visit,       \* the buffers flush_sends has still to look at
  kids,        \* the children it has still to look at
  sol          \* the cost of the path it is publishing

nodeVars == <<g, parent, open>>
queueVars == <<q, q_empty, completed, counter>>
takeVars == <<looping, expansions, has_sends, visit>>
pathVars == <<bound, solution, sol>>
vars == <<opt, nodeVars, queueVars, out, mutex, done, pathVars, pc, takeVars,
          kids>>

Open(t) == {s \in open : Owner[s] = t}
Complete == counter >= Cardinality(Threads)

\* bound.read() + overrun, in the width of fp_type: the sum wraps.
Limit == (bound + Overrun) % (Infinity + 1)

GetFPrime(s) == g[s] + HWeight * H[s]

\* How much dearer than the cheapest a solution may be.
Factor == IF opt.weighted THEN HWeight ELSE 1

\* May a path with this f still lead to a solution that is wanted?
InBound(f) == IF opt.weighted THEN HWeight * f < bound ELSE f < Limit

Message == [to : States, from : States, g : Nat]

TypeOK ==
  /\ opt \in Options
  /\ g \in [States -> 0..Infinity]
  /\ parent \in [States -> States \cup {NoState}]
  /\ open \subseteq {s \in States : g[s] # Infinity}
  /\ q \in [Threads -> SUBSET Message] /\ kids \in [Threads -> SUBSET Message]
  /\ out \in [Threads -> [Threads -> SUBSET Message]]
  /\ q_empty \in [Threads -> BOOLEAN]
  /\ mutex \in [Threads -> Threads \cup {NoThread}]
  /\ completed \in [Threads -> BOOLEAN]
  /\ counter \in 0..Cardinality(Threads)
  /\ done \in BOOLEAN
  /\ looping \in [Threads -> BOOLEAN] /\ has_sends \in [Threads -> BOOLEAN]
  /\ {bound, solution} \subseteq 0..Infinity /\ sol \in [Threads -> 0..Infinity]
  /\ pc \in [Threads -> {"run", "flush", "check", "while", "lock", "busy",
                         "relock", "recv", "test", "take", "see", "get", "cas",
                         "expand", "ended"}]
  /\ visit \in [Threads -> SUBSET Threads]
  /\ expansions \in [Threads -> 0..opt.max_exp]

Init ==
  /\ opt \in Options
  /\ g = [s \in States |-> IF s = Start THEN 0 ELSE Infinity]
  /\ parent = [s \in States |-> NoState]
  /\ open = {Start}
  /\ q = [t \in Threads |-> {}]
  /\ q_empty = [t \in Threads |-> TRUE]
  /\ out = [t \in Threads |-> [u \in Threads |-> {}]]
  /\ mutex = [t \in Threads |-> NoThread]
  /\ completed = [t \in Threads |-> FALSE]
  /\ counter = 0
  /\ done = FALSE
  /\ bound = IF opt.weighted THEN Infinity ELSE Infinity - Slack
  /\ solution = Infinity
  /\ pc = [t \in Threads |-> "run"]
  /\ looping = [t \in Threads |-> FALSE]
  /\ expansions = [t \in Threads |-> 0]
  /\ has_sends = [t \in Threads |-> TRUE]
  /\ visit = [t \in Threads |-> {}]
  /\ kids = [t \in Threads |-> {}]
  /\ sol = [t \in Threads |-> Infinity]

Goto(t, l) == pc' = [pc EXCEPT ![t] = l]

-----------------------------------------------------------------------------
(* Operations on nodes and queues.                                         *)

EdgeCost(m) == (CHOOSE e \in Edges[m.from] : e.to = m.to).cost

\* Faulty: without dropping, no expanded node is worth it.
OnlyDropping(m) ==
  opt.dd /\ g[m.to] > (m.g - EdgeCost(m)) + HWeight * EdgeCost(m)

\* CANT_DROP, Wheeler's test: is an expanded node worth expanding again?
CantDrop(m) ==
  opt.dd => g[m.to] > (m.g - EdgeCost(m)) + HWeight * EdgeCost(m)

\* Duplicate detection: a new node, or a cheaper path to a known one, goes
\* into the open list (or moves in it); any other is dropped.
AddNode(m) ==
  IF m.g < g[m.to]
  THEN /\ g' = [g EXCEPT ![m.to] = m.g]
       /\ parent' = [parent EXCEPT ![m.to] = m.from]
       /\ open' = IF g[m.to] = Infinity \/ CantDrop(m) THEN open \cup {m.to}
                                                      ELSE open
  ELSE UNCHANGED nodeVars

\* post_send, with u's mutex: u has work again.
PostSend(u) ==
  /\ completed' = [completed EXCEPT ![u] = FALSE]
  /\ counter' = IF completed[u] THEN counter - 1 ELSE counter
  /\ q_empty' = [q_empty EXCEPT ![u] = FALSE]

\* The nodes of S arrive in u's queue.  Nodes that are equal in all that
\* matters are one: the second would be dropped as a duplicate.
Deliver(u, S) ==
  /\ q' = [q EXCEPT ![u] = @ \cup S]
  /\ PostSend(u)

\* Faulty: what is still in the send buffers is forgotten.
NothingReceived(t) == q_empty[t] /\ Open(t) = {}

\* flush_receives: nothing came, nothing is left to send, nothing to expand.
Idle(t) == q_empty[t] /\ ~has_sends[t] /\ Open(t) = {}

-----------------------------------------------------------------------------
(* take: flush the buffers, receive, until there is a node to expand.      *)

\* run: the search is over.
Leave(t) ==
  /\ pc[t] = "run" /\ done
  /\ Goto(t, "ended")
  /\ UNCHANGED <<opt, nodeVars, queueVars, out, mutex, done, pathVars, takeVars,
                 kids>>

\* The buffers are flushed every time, or after max_exp expansions.  With
\* synchronous sends there are none.
EnterTake(t) ==
  LET flush == opt.max_exp = 0 \/ expansions[t] + 1 > opt.max_exp IN
  /\ pc[t] = "run" /\ ~done
  /\ expansions' = [expansions EXCEPT ![t] = IF flush THEN 0 ELSE @ + 1]
  /\ has_sends' = [has_sends EXCEPT ![t] = ~flush]
  /\ visit' = [visit EXCEPT ![t] = IF flush /\ opt.send THEN Threads \ {t} ELSE {}]
  /\ looping' = [looping EXCEPT ![t] = FALSE]
  /\ Goto(t, "flush")
  /\ UNCHANGED <<opt, nodeVars, queueVars, out, mutex, done, pathVars, kids>>

\* try_flush has the receiver's mutex: the whole buffer is delivered.
Flush(t, u) ==
  /\ pc[t] = "flush" /\ u \in visit[t]
  /\ out[t][u] # {} /\ mutex[u] = NoThread
  /\ Deliver(u, out[t][u])
  /\ out' = [out EXCEPT ![t][u] = {}]
  /\ visit' = [visit EXCEPT ![t] = @ \ {u}]
  /\ UNCHANGED <<opt, nodeVars, mutex, done, pathVars, pc, looping, expansions,
                 has_sends, kids>>

\* The buffer is empty, or somebody is inside: it stays as it is.
NoFlush(t, u) ==
  /\ pc[t] = "flush" /\ u \in visit[t]
  /\ has_sends' = [has_sends EXCEPT ![t] = @ \/ out[t][u] # {}]
  /\ visit' = [visit EXCEPT ![t] = @ \ {u}]
  /\ UNCHANGED <<opt, nodeVars, queueVars, out, mutex, done, pathVars, pc,
                 looping, expansions, kids>>

EndFlush(t) ==
  /\ pc[t] = "flush" /\ visit[t] = {}
  /\ Goto(t, IF looping[t] THEN "lock" ELSE IF opt.weighted THEN "while" ELSE "check")
  /\ UNCHANGED <<opt, nodeVars, queueVars, out, mutex, done, pathVars, takeVars,
                 kids>>

\* Before the loop, receive only if the flag says there is something.
CheckQueue(t) ==
  /\ pc[t] = "check"
  /\ Goto(t, IF q_empty[t] THEN "while" ELSE "lock")
  /\ UNCHANGED <<opt, nodeVars, queueVars, out, mutex, done, pathVars, takeVars,
                 kids>>

\* The condition of take's loop.  When weighted, what was received comes
\* before what is to be expanded.
MustReceive(t) == Open(t) = {} \/ (opt.weighted /\ ~q_empty[t])

\* Faulty: take believes for ever that it has something to send.
AlwaysSends(t) ==
  /\ pc[t] = "while" /\ MustReceive(t)
  /\ looping' = [looping EXCEPT ![t] = TRUE]
  /\ Goto(t, "flush")
  /\ has_sends' = [has_sends EXCEPT ![t] = TRUE]
  /\ visit' = [visit EXCEPT ![t] = Threads \ {t}]
  /\ UNCHANGED <<opt, nodeVars, queueVars, out, mutex, done, pathVars,
                 expansions, kids>>

\* Flush again what could not be sent, then receive.
Loop(t) ==
  /\ pc[t] = "while" /\ MustReceive(t)
  /\ looping' = [looping EXCEPT ![t] = TRUE]
  /\ Goto(t, IF has_sends[t] THEN "flush" ELSE "lock")
  /\ has_sends' = [has_sends EXCEPT ![t] = FALSE]
  /\ visit' = [visit EXCEPT ![t] =
                 IF has_sends[t] /\ opt.send THEN Threads \ {t} ELSE {}]
  /\ expansions' = [expansions EXCEPT ![t] =
                      IF has_sends[t] /\ opt.send THEN 0 ELSE @]
  /\ UNCHANGED <<opt, nodeVars, queueVars, out, mutex, done, pathVars, kids>>

EndLoop(t) ==
  /\ pc[t] = "while" /\ ~MustReceive(t)
  /\ Goto(t, "take")
  /\ UNCHANGED <<opt, nodeVars, queueVars, out, mutex, done, pathVars, takeVars,
                 kids>>

-----------------------------------------------------------------------------
(* flush_receives                                                          *)

AfterReceive(t) == IF looping[t] THEN "test" ELSE "while"

\* With nodes of its own, an asynchronous receiver does not wait.
SkipReceive(t) ==
  /\ pc[t] = "lock" /\ Open(t) # {} /\ opt.recv
  /\ Goto(t, AfterReceive(t))
  /\ UNCHANGED <<opt, nodeVars, queueVars, out, mutex, done, pathVars, takeVars,
                 kids>>

\* Nothing to do: count oneself complete, under the mutex, and wait.
BecomeComplete(t) ==
  /\ pc[t] = "lock" /\ mutex[t] = NoThread
  /\ Idle(t)
  /\ completed' = [completed EXCEPT ![t] = TRUE]
  /\ counter' = counter + 1
  /\ Goto(t, "busy")
  /\ UNCHANGED <<opt, nodeVars, q, q_empty, out, mutex, done, pathVars, takeVars,
                 kids>>

StartReceive(t) ==
  /\ pc[t] = "lock" /\ mutex[t] = NoThread
  /\ ~Idle(t)
  /\ mutex' = [mutex EXCEPT ![t] = t]
  /\ Goto(t, "recv")
  /\ UNCHANGED <<opt, nodeVars, queueVars, out, done, pathVars, takeVars, kids>>

\* The busy wait ends.
StopSpinning(t) ==
  /\ pc[t] = "busy"
  /\ ~q_empty[t] \/ Complete \/ done
  /\ Goto(t, "relock")
  /\ UNCHANGED <<opt, nodeVars, queueVars, out, mutex, done, pathVars, takeVars,
                 kids>>

Relock(t) ==
  /\ pc[t] = "relock" /\ mutex[t] = NoThread
  /\ IF Complete THEN Goto(t, AfterReceive(t)) /\ UNCHANGED mutex
     ELSE Goto(t, "recv") /\ mutex' = [mutex EXCEPT ![t] = t]
  /\ UNCHANGED <<opt, nodeVars, queueVars, out, done, pathVars, takeVars, kids>>

\* One node of the queue, with the mutex held.
Receive(t) ==
  /\ pc[t] = "recv"
  /\ \E m \in q[t] :
       /\ q' = [q EXCEPT ![t] = @ \ {m}]
       /\ IF ~opt.weighted /\ ~InBound(m.g + H[m.to]) THEN UNCHANGED nodeVars
                                                      ELSE AddNode(m)
  /\ UNCHANGED <<opt, q_empty, completed, counter, out, mutex, done, pathVars, pc,
                 takeVars, kids>>

EndReceive(t) ==
  /\ pc[t] = "recv" /\ q[t] = {}
  /\ q_empty' = [q_empty EXCEPT ![t] = TRUE]
  /\ mutex' = [mutex EXCEPT ![t] = NoThread]
  /\ Goto(t, AfterReceive(t))
  /\ UNCHANGED <<opt, nodeVars, q, completed, counter, out, done, pathVars,
                 takeVars, kids>>

\* take: all threads are complete.
TestComplete(t) ==
  /\ pc[t] = "test"
  /\ IF Complete THEN done' = TRUE /\ Goto(t, "run")
     ELSE UNCHANGED done /\ Goto(t, "while")
  /\ UNCHANGED <<opt, nodeVars, queueVars, out, mutex, pathVars, takeVars, kids>>

-----------------------------------------------------------------------------
(* run: expand the node that take returns.                                 *)

Children(s) ==
  {[to |-> e.to, from |-> s, g |-> g[s] + e.cost] : e \in Edges[s]}

\* When weighted, and the node's f' is out of bound, open.prune().
LeftOpen(t, s) ==
  IF opt.weighted /\ GetFPrime(s) >= bound THEN open \ Open(t) ELSE open \ {s}

\* The best node is dropped, or expanded; a goal's path is published before.
\* (If the search is over by now, take returns NULL.)
TakeNode(t) ==
  /\ pc[t] = "take"
  /\ IF done THEN Goto(t, "run") /\ UNCHANGED <<open, kids, sol>>
     ELSE \E s \in Open(t) :
       /\ \A o \in Open(t) : GetFPrime(s) <= GetFPrime(o)
       /\ open' = LeftOpen(t, s)
       /\ IF ~InBound(g[s] + H[s])
          THEN Goto(t, "run") /\ UNCHANGED <<kids, sol>>
          ELSE /\ kids' = [kids EXCEPT ![t] = Children(s)]
               /\ IF s \in Goals
                  THEN Goto(t, "see") /\ sol' = [sol EXCEPT ![t] = g[s]]
                  ELSE Goto(t, "expand") /\ UNCHANGED sol
  /\ UNCHANGED <<opt, g, parent, queueVars, out, mutex, done, bound, solution,
                 takeVars>>

\* set_path, in three steps (see Incumbent).
SeeSolution(t) ==
  /\ pc[t] = "see"
  /\ solution' = Min({solution, sol[t]})
  /\ Goto(t, "get")
  /\ UNCHANGED <<opt, nodeVars, queueVars, out, mutex, done, bound, sol, takeVars,
                 kids>>

GetBestPath(t) ==
  /\ pc[t] = "get"
  /\ sol' = [sol EXCEPT ![t] = solution]
  /\ Goto(t, "cas")
  /\ UNCHANGED <<opt, nodeVars, queueVars, out, mutex, done, bound, solution,
                 takeVars, kids>>

SetBound(t) ==
  /\ pc[t] = "cas"
  /\ bound' = Min({bound, sol[t]})
  /\ sol' = [sol EXCEPT ![t] = Infinity]
  /\ Goto(t, "expand")
  /\ UNCHANGED <<opt, nodeVars, queueVars, out, mutex, done, solution, takeVars,
                 kids>>

\* Only promising children are sent (when weighted, f' < bound follows).
Promising(m) == InBound(m.g + H[m.to])

DropChild(t, m) ==
  /\ ~Promising(m)
  /\ UNCHANGED <<nodeVars, queueVars, out>>

\* send_state: the child is the thread's own.
SelfAdd(t, m) ==
  /\ Promising(m) /\ Owner[m.to] = t
  /\ AddNode(m)
  /\ UNCHANGED <<queueVars, out>>

\* do_sync_send waits for the receiver's mutex.
SyncSend(t, m) ==
  /\ Promising(m) /\ Owner[m.to] # t /\ ~opt.send
  /\ mutex[Owner[m.to]] = NoThread
  /\ Deliver(Owner[m.to], {m})
  /\ UNCHANGED <<nodeVars, out>>

\* try_send has the mutex: the buffer goes with it.
AsyncSend(t, m) ==
  LET u == Owner[m.to] IN
  /\ Promising(m) /\ u # t /\ opt.send
  /\ mutex[u] = NoThread
  /\ Deliver(u, out[t][u] \cup {m})
  /\ out' = [out EXCEPT ![t][u] = {}]
  /\ UNCHANGED nodeVars

\* Somebody is inside (the receiver, or another sender): it is buffered.
Buffer(t, m) ==
  /\ Promising(m) /\ Owner[m.to] # t /\ opt.send
  /\ out' = [out EXCEPT ![t][Owner[m.to]] = @ \cup {m}]
  /\ UNCHANGED <<nodeVars, queueVars>>

\* The next child, in whatever order the domain lists them.
SendChild(t) ==
  /\ pc[t] = "expand"
  /\ \E m \in kids[t] :
       /\ \/ DropChild(t, m) \/ SelfAdd(t, m)
          \/ SyncSend(t, m) \/ AsyncSend(t, m) \/ Buffer(t, m)
       /\ kids' = [kids EXCEPT ![t] = @ \ {m}]
  /\ UNCHANGED <<opt, mutex, done, pathVars, pc, takeVars>>

EndExpand(t) ==
  /\ pc[t] = "expand" /\ kids[t] = {}
  /\ Goto(t, "run")
  /\ UNCHANGED <<opt, nodeVars, queueVars, out, mutex, done, pathVars, takeVars,
                 kids>>

-----------------------------------------------------------------------------
Step(t) ==
  \/ Leave(t) \/ EnterTake(t) \/ EndFlush(t) \/ CheckQueue(t) \/ Loop(t)
  \/ EndLoop(t) \/ SkipReceive(t) \/ BecomeComplete(t) \/ StartReceive(t)
  \/ StopSpinning(t) \/ Relock(t) \/ Receive(t) \/ EndReceive(t)
  \/ TestComplete(t) \/ TakeNode(t) \/ SeeSolution(t)
  \/ GetBestPath(t) \/ SetBound(t) \/ SendChild(t) \/ EndExpand(t)
  \/ \E u \in Threads : Flush(t, u) \/ NoFlush(t, u)

Ended == \A t \in Threads : pc[t] = "ended"

Next ==
  \/ \E t \in Threads : Step(t)
  \/ Ended /\ UNCHANGED vars

Spec == Init /\ [][Next]_vars

\* Threads run: none is stopped for ever by the operating system.
Fairness == \A t \in Threads : WF_vars(Step(t))

FairSpec == Spec /\ Fairness

-----------------------------------------------------------------------------
(* Properties                                                              *)

\* The messages on their way: in queues, in buffers, in a thread's hands.
InTransit(t) == q[t] \cup kids[t] \cup UNION {out[t][u] : u \in Threads}

(***************************************************************************)
(* The counter reaches the number of threads, or the search is declared    *)
(* over, only when there is no node in any open list, queue, buffer or     *)
(* hand; the assertion in flush_receives that q_empty holds then is true.  *)
(***************************************************************************)
CompletionSound ==
  Complete \/ done =>
    open = {} /\ \A t \in Threads : q_empty[t] /\ InTransit(t) = {}

\* When the threads have left, the stream holds an optimal solution, or when
\* weighted and without dropping one of at most weight times its cost.
WithinWeight == Ended /\ ~opt.dd => solution <= Factor * CostToGo[Start]

\* A buffer that is flushed again and again is emptied again and again.
\* try_lock promises nothing of the kind: two threads that have nothing to
\* expand can each try the other's mutex only while the other receives.
\* Nor does the try_lock of one's own mutex, to receive.
TriesSucceed ==
  \A t \in Threads :
    /\ \A u \in Threads \ {t} :
         []<>(pc[t] = "flush" /\ out[t][u] # {}) => []<>(out[t][u] = {})
    /\ []<>(pc[t] = "lock" /\ Open(t) # {}) => []<>(pc[t] = "recv")

(***************************************************************************)
(* Unless try_flush of some buffer fails for ever, every search thread     *)
(* leaves the search: none waits for a message that does not come, for a   *)
(* mutex, or for a completion that somebody has taken back.                *)
(***************************************************************************)
Termination == TriesSucceed => <>Ended
=============================================================================
