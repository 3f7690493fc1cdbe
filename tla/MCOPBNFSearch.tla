---------------------------- MODULE MCOPBNFSearch ----------------------------
(***************************************************************************)
(* Ten states in a line of four blocks, with goals in the first and the    *)
(* fourth, which can be searched at once.  The heuristic likes op, the     *)
(* dear way to or, better than om, the cheap one, so that or is found      *)
(* again cheaper after it has been expanded.                               *)
(***************************************************************************)
EXTENDS OPBNFSearch, TLC

CONSTANTS o1, o2, o3, os, ol, op, ou, or, om, oz, oq, ox, oy

Line4 == 1..4
LineSuccs == [n \in NBlocks |-> {n - 1, n + 1} \cap NBlocks]

AllStates == {os, ol, op, ou, or, om, oz, oq, ox, oy}

Blocks == [n \in AllStates |->
             CASE n \in {ol, op, ou, ox} -> 1 [] n \in {os, or} -> 2
               [] n \in {om, oz} -> 3 [] n \in {oq, oy} -> 4]

To(n, c) == [to |-> n, cost |-> c]

Graph ==
  [n \in AllStates |->
     CASE n = os -> {To(ol, 1), To(op, 3), To(ou, 1), To(om, 1)}
       [] n = ol -> {To(ox, 6)}
       [] n = op -> {To(or, 1)}
       [] n = ou -> {To(or, 4)}
       [] n = om -> {To(oq, 1), To(or, 1), To(oz, 4)}
       [] n = oq -> {To(oy, 4)}
       [] n = or -> {To(ox, 3)}
       [] OTHER -> {}]

Estimate ==
  [n \in AllStates |->
     CASE n = om -> 4 [] n \in {os, oz, oq} -> 3 [] n = ou -> 1 [] OTHER -> 0]

ASSUME Admissible /\ GoalEdgesAreShortest
=============================================================================
