----------------------------- MODULE MCPBNFSearch -----------------------------
(***************************************************************************)
(* Nine states in a line of four blocks.  The start s is in block 2.  The *)
(* way to the right is found early and dear (s, r, q), the way to the left *)
(* and back (s, l, m, back, r) later and cheaper, so that r and q have to be  *)
(* updated or opened again, while the blocks 1 and 4 can be searched at    *)
(* the same time.  There is a goal at either end.                          *)
(***************************************************************************)
EXTENDS WPBNFSearch, TLC

CONSTANTS t1, t2, t3, s, l, p, m, back, r, q, xl, xr

Line4 == 1..4
LineSuccs == [n \in NBlocks |-> {n - 1, n + 1} \cap NBlocks]

AllStates == {s, l, p, m, back, r, q, xl, xr}

Blocks == [n \in AllStates |->
             CASE n \in {l, p, m, xl} -> 1
               [] n \in {s, back} -> 2
               [] n = r -> 3
               [] n \in {q, xr} -> 4]

To(n, c) == [to |-> n, cost |-> c]

TwoWays ==
  [n \in AllStates |->
     CASE n = s -> {To(l, 1), To(r, 12)}
       [] n = l -> {To(m, 1), To(p, 1), To(s, 1)}
       [] n = p -> {To(xl, 6)}
       [] n = m -> {To(back, 1)}
       [] n = back -> {To(r, 1)}
       [] n = r -> {To(q, 1)}
       [] n = q -> {To(xr, 2)}
       [] OTHER -> {}]

\* Admissible, but not consistent: from l to m it drops by 4.
Estimate ==
  [n \in AllStates |->
     CASE n = s -> 5 [] n = l -> 6 [] n = p -> 6 [] n = m -> 2 [] n = back -> 4
       [] OTHER -> 0]

ASSUME Admissible /\ GoalEdgesAreShortest
=============================================================================
