----------------------------- MODULE MCWPBNFDrop -----------------------------
(***************************************************************************)
(* Seven states, where m is found three times: at 17 and expanded, at 9,   *)
(* and at 6.  Neither 9 nor 6 is worth expanding m again by Wheeler's      *)
(* test, for which m costs 9 when 6 is found; the way through q, at 17,    *)
(* remains, where 8 is possible.  H is 0, the weight 2.                    *)
(***************************************************************************)
EXTENDS WPBNFSearch, TLC

CONSTANTS t1, s, q, m, p1, p2, x, y

ThreeBlocks == 1..3
Line3 == [n \in ThreeBlocks |-> {n - 1, n + 1} \cap ThreeBlocks]

DropStates == {s, q, m, p1, p2, x, y}

DropBlocks ==
  [n \in DropStates |-> CASE n \in {p1, p2} -> 1 [] n \in {s, q, m} -> 2 [] OTHER -> 3]

To(n, c) == [to |-> n, cost |-> c]

ThreeWays ==
  [n \in DropStates |->
     CASE n = s -> {To(q, 15), To(m, 17), To(p1, 1), To(p2, 2)}
       [] n = p1 -> {To(m, 8)}
       [] n = p2 -> {To(m, 4)}
       [] n \in {q, m} -> {To(x, 1)}
       [] n = x -> {To(y, 1)}
       [] OTHER -> {}]

NoEstimate == [n \in DropStates |-> 0]

\* The instance is one the search is meant for, and 8 is its optimum.
Sound == Admissible /\ GoalEdgesAreShortest /\ CostToGo[Start] = 8

\* There is no behaviour, and nothing is violated, on an instance that is not.
DropSpec == Sound /\ WSpec
=============================================================================
