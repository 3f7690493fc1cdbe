------------------------------ MODULE MCPRAStar ------------------------------
(***************************************************************************)
(* Six states.  The start s has a dear edge to b and a cheap way to it     *)
(* through a and c, so that b is reached, and expanded, too early; a leads *)
(* back to the start, which is then generated as a state like any other    *)
(* (again).  The owners alternate along every path.                        *)
(***************************************************************************)
EXTENDS PRAStar

CONSTANTS t1, t2, s, a, bb, c, x, again

AllStates == {s, a, bb, c, x, again}

To(n, w) == [to |-> n, cost |-> w]

Graph ==
  [n \in AllStates |->
     CASE n \in {s, again} -> {To(a, 1), To(bb, 8)}
       [] n = a -> {To(c, 1), To(again, 1)}
       [] n = c -> {To(bb, 1)}
       [] n = bb -> {To(x, 1)}
       [] OTHER -> {}]

\* Admissible, but not consistent: from a to c it drops by two.
Estimate ==
  [n \in AllStates |->
     CASE n \in {s, again} -> 3 [] n = a -> 3 [] n = c -> 1 [] n = bb -> 1
       [] OTHER -> 0]

TwoOwners ==
  [n \in AllStates |-> IF n \in {s, again, c} THEN t1 ELSE t2]

Option(s_, r_, m_) ==
  [weighted |-> FALSE, send |-> s_, recv |-> r_, max_exp |-> m_, dd |-> FALSE]

Weighted(a_, m_, d_) ==
  [weighted |-> TRUE, send |-> a_, recv |-> a_, max_exp |-> m_, dd |-> d_]

\* prastar, hdastar (with and without a limit), syncsends, syncrecvs, and
\* wprastar in its two ways, with and without duplicate dropping.
AllOptions ==
  {Option(FALSE, FALSE, 0), Option(TRUE, TRUE, 0), Option(TRUE, TRUE, 1),
   Option(FALSE, TRUE, 0), Option(TRUE, FALSE, 1)}
  \cup {Weighted(FALSE, 0, TRUE), Weighted(TRUE, 1, FALSE), Weighted(TRUE, 0, TRUE)}

ASSUME Admissible
=============================================================================
