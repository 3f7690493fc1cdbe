--------------------------- MODULE MCARPBNFSearch ---------------------------
(***************************************************************************)
(* Nine states in a line of four blocks, a goal at either end.  The way   *)
(* to the right is found early and dear, the way to the left and back      *)
(* later and cheaper: r has been expanded by then, and as the weight is    *)
(* not the final one it becomes inconsistent.                              *)
(***************************************************************************)
EXTENDS ARPBNFSearch, TLC

CONSTANTS t1, t2, s, l, p, m, back, r, q, xl, xr

Line4 == 1..4
LineSuccs == [n \in NBlocks |-> {n - 1, n + 1} \cap NBlocks]

AllStates == {s, l, p, m, back, r, q, xl, xr}

Blocks == [n \in AllStates |->
             CASE n \in {l, p, m, xl} -> 1
               [] n \in {s, back} -> 2
               [] n = r -> 3
               [] n \in {q, xr} -> 4]

To(n, c) == [to |-> n, cost |-> c]

TwoWays ==
  [n \in AllStates |->
     CASE n = s -> {To(l, 1), To(r, 6)}
       [] n = l -> {To(m, 1), To(p, 1), To(s, 1)}
       [] n = p -> {To(xl, 12)}
       [] n = m -> {To(back, 1)}
       [] n = back -> {To(r, 1)}
       [] n = r -> {To(q, 1)}
       [] n = q -> {To(xr, 8)}
       [] OTHER -> {}]

\* Admissible, but not consistent: from l to m it drops by three.
Estimate ==
  [n \in AllStates |->
     CASE n = s -> 4 [] n = l -> 4 [] n = p -> 12 [] n = m -> 1 [] n = back -> 7
       [] n = r -> 1 [] n = q -> 8 [] OTHER -> 0]

\* To the optimum in no, one and two resorts; and a list that ends early.
Schedules == {<<1>>, <<2, 1>>, <<3, 2, 1>>, <<3, 2>>}

ASSUME Admissible /\ GoalEdgesAreShortest
=============================================================================
