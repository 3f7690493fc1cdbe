-------------------------- MODULE MCSharedSearches --------------------------
(***************************************************************************)
(* Six states: from the start vs a dear edge leads to vb and a cheap way   *)
(* there goes through va and vc, so that vb is reached, expanded and led   *)
(* to the goal vx too early; vd leads from va back to the start.           *)
(***************************************************************************)
EXTENDS SharedSearches

CONSTANTS vs, va, vb, vc, vx, vd

All == {vs, va, vb, vc, vx, vd}

To(n, w) == [to |-> n, cost |-> w]

Graph ==
  [n \in All |->
     CASE n = vs -> {To(va, 1), To(vb, 4)}
       [] n = va -> {To(vc, 1), To(vd, 1)}
       [] n = vc -> {To(vb, 1)}
       [] n = vd -> {To(vs, 1)}
       [] n = vb -> {To(vx, 1)}
       [] OTHER -> {}]

Estimate ==
  [n \in All |-> CASE n \in {vs, va, vd} -> 3 [] n = vc -> 2 [] n = vb -> 1
                   [] OTHER -> 0]

TwoWeights == <<2, 1>>

ASSUME Admissible
ASSUME \A n \in States : \A e \in Edges[n] : H[n] <= e.cost + H[e.to]
=============================================================================
