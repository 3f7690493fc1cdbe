---------------------------- MODULE MCSerialSearch ----------------------------
(***************************************************************************)
(* The serial searches, and walks through the domains that searches are    *)
(* given: a behaviour is one or the other, and only that part of the state *)
(* changes.                                                                *)
(*                                                                         *)
(* The searches have nine states.  The estimates are consistent; weighted, *)
(* they lead first over dear detours: vc is found, and expanded, through   *)
(* va, then found again cheaper through vu, and again through vb and vd,   *)
(* before the long edge that follows it is taken.  There are two goals,    *)
(* and ways back to the start.                                             *)
(*                                                                         *)
(* The walks have worlds of six by four cells with each cost and movement, *)
(* with and without obstacles, and every board of a puzzle of three        *)
(* columns and two rows.                                                   *)
(***************************************************************************)
EXTENDS SerialSearch, DomainWalk

CONSTANTS vs, va, vb, vc, vd, ve, vu, gx, gy

All == {vs, va, vb, vc, vd, ve, vu, gx, gy}

To(n, k) == [to |-> n, cost |-> k]

Graph ==
  [n \in All |->
     CASE n = vs -> {To(va, 2), To(vb, 3), To(vu, 1)}
       [] n = va -> {To(vc, 8), To(vs, 2), To(gx, 30)}
       [] n = vb -> {To(vd, 2), To(va, 3)}
       [] n = vc -> {To(vd, 2), To(ve, 15)}
       [] n = vd -> {To(ve, 18), To(vc, 2)}
       [] n = ve -> {To(gy, 3)}
       [] n = vu -> {To(vs, 1), To(vc, 7)}
       [] OTHER -> {}]

Estimate ==
  [n \in All |->
     CASE n = vs -> 7 [] n = va -> 5 [] n = vb -> 6 [] n = vc -> 2 [] n = vd -> 4
       [] n = ve -> 2 [] n = vu -> 6 [] OTHER -> 0]

Consistent ==
  \A n \in States : \A k \in Edges[n] : H[n] <= k.cost + H[k.to]

ASSUME Consistent /\ Admissible

\* The hashes share slots in a table of 3 and, some, in one of 30.
Hashes30 ==
  [n \in All |->
     CASE n = vs -> 4 [] n = va -> 1 [] n = vb -> 31 [] n = vc -> 61 [] n = vd -> 7
       [] n = ve -> 34 [] n = vu -> 2 [] n = gx -> 10 [] n = gy -> 64]

ThreeWeights == <<40, 20, 10>>

AllAlgorithms ==
  {"astar", "dropping", "awastar", "arastar", "optimistic", "breadth", "ida"}

-----------------------------------------------------------------------------
VARIABLE what         \* "search" or "walk"

MCGoal == [p \in 0..5 |-> p]

Walls == {{}, {<<1, 1>>, <<2, 1>>, <<3, 3>>, <<4, 2>>}}

MCWorlds ==
  {World(6, 4, walls, life, eight, g[1], g[2]) :
     walls \in Walls, life \in BOOLEAN, eight \in BOOLEAN,
     g \in {<<0, 3>>, <<5, 0>>, <<2, 1>>}}

MCCosts == {"unit", "sqrt", "inverse"}
MCRowMods == {2, 3, 4}
MCCoarses == {<<2, 2>>, <<3, 2>>, <<3, 4>>, <<5, 3>>}
MCTrackings == {<<OneTile, 1>>, <<TwoTile, 1>>, <<ThreeTile, 1>>,
                <<NoBlank(3, 1, 2), 1>>, <<NoBlank(4, 2, 0), 1>>,
                <<OneTile, 2>>, <<TwoTile, 4>>}

SearchOrWalkInit ==
  \/ /\ what = "search" /\ Init
     /\ GridRoot(CHOOSE d \in Grids : TRUE) /\ state = <<0, 0>>
  \/ what = "walk" /\ WalkInit /\ Init /\ algo = "astar"

SearchStep == what = "search" /\ Next /\ UNCHANGED <<what, walkVars>>
WalkStep == what = "walk" /\ Walk /\ UNCHANGED <<what, vars>>

SearchOrWalk ==
  /\ SearchOrWalkInit /\ [][SearchStep \/ WalkStep]_<<what, vars, walkVars>>
  /\ WF_<<what, vars, walkVars>>(SearchStep)

\* Every search ends.
SearchEnds == what = "search" => Termination
=============================================================================
