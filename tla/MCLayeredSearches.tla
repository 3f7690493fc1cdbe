------------------------- MODULE MCLayeredSearches -------------------------
(***************************************************************************)
(* A line of four blocks: the start is in the second one and leads to the  *)
(* first and, over the third, to the fourth, which can be searched at the  *)
(* same time.  ld is reached dearly from the first block and cheaply from  *)
(* the third one; lr is a dead end.                                        *)
(***************************************************************************)
EXTENDS LayeredSearches

CONSTANTS ls, la, lb, lp, lc, ld, le, lq, lr, lx

All == {ls, la, lb, lp, lc, ld, le, lq, lr, lx}

To(n, w) == [to |-> n, cost |-> w]

Graph ==
  [n \in All |->
     CASE n = ls -> {To(la, 1), To(lb, 1)}
       [] n = la -> {To(lp, 2)}
       [] n = lp -> {To(ld, 2)}
       [] n = lb -> {To(lc, 1), To(lr, 1)}
       [] n = lc -> {To(le, 1)}
       [] n = le -> {To(ld, 1)}
       [] n = ld -> {To(lq, 1), To(la, 1)}
       [] n = lq -> {To(lx, 1)}
       [] OTHER -> {}]

Place ==
  [n \in All |-> CASE n \in {la, lp} -> 1 [] n \in {ls, ld, lq, lx} -> 2
                   [] n \in {lb, le} -> 3 [] OTHER -> 4]

Line == [b \in 1..4 |-> {c \in 1..4 : c - b \in -1..1}]

Estimate ==
  [n \in All |-> CASE n \in {ls, la, lb, lr} -> 3 [] n \in {lp, lc} -> 2
                   [] n = le -> 1 [] OTHER -> 0]

Job(a, w, d, m, k) == [algo |-> a, weight |-> w, dd |-> d, min |-> m, mult |-> k]

SomeJobs ==
  {Job("psdd", 1, FALSE, 0, 0), Job("idpsdd", 1, FALSE, 0, 0),
   Job("dynamic", 2, FALSE, 0, 0)}
    \cup {Job("bfpsdd", w, FALSE, m, k) : w \in 1..2, m \in 0..1, k \in 0..1}
    \cup {Job("wbfpsdd", w, d, 1, 1) : w \in 1..2, d \in BOOLEAN}

ASSUME NoBlockAlone /\ Affords(2)
ASSUME Solvable
ASSUME \A n \in States : \A e \in Edges[n] : H[n] <= e.cost + H[e.to]
=============================================================================
