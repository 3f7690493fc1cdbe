----------------------------- MODULE DomainWalk -----------------------------
(***************************************************************************)
(* A walk through a domain: from any state, along the moves that expand    *)
(* makes, with the values that a state carries from its parent.  It visits *)
(* every edge that a search could follow.                                  *)
(***************************************************************************)
EXTENDS Domains

CONSTANTS
  Worlds,           \* grid worlds
  CostFunctions,    \* names of tile cost functions
  RowMods,          \* mod_val of row projections
  Coarses,          \* <<c, r>> of coarse projections
  Trackings         \* <<tiles, div>>: tracked tiles, merged blocks

\* The goal lies in the world.
IsWorld(w) ==
  /\ w.width \in Nat /\ w.height \in Nat
  /\ w.life \in BOOLEAN /\ w.eight \in BOOLEAN
  /\ w.goal \in Cells(w)

\* Square roots are tabulated for the tiles up to 8, and the inverse of a tile
\* above 10000 is 0 in fixed point.
IsCost(fun) ==
  /\ fun \in {"unit", "sqrt", "inverse"}
  /\ fun = "sqrt" => Squares <= 9
  /\ fun = "inverse" => Squares <= 10001

ASSUME WalkAssumption ==
  /\ \A w \in Worlds : IsWorld(w)
  /\ \A fun \in CostFunctions : IsCost(fun)
  /\ RowMods \subseteq Nat \ {0}
  /\ Coarses \subseteq (Nat \ {0}) \X (Nat \ {0})

VARIABLES
  dom,      \* the domain: a world, or the tiles with a cost function
  state,    \* a cell or a board
  gp,       \* tiles: where the parent's blank was, -1 at the root
  c,        \* State::c, the cost of the move that led here
  h         \* State::h

walkVars == <<dom, state, gp, c, h>>

Grids == {[grid |-> TRUE, world |-> w] : w \in Worlds}
Puzzles == {[grid |-> FALSE, cost |-> fun] : fun \in CostFunctions}

GridRoot(d) ==
  \E s \in Free(d.world) :
    dom = d /\ state = s /\ gp = -1 /\ c = 0 /\ h = GridH(d.world, s)

TilesRoot(d) ==
  \E s \in Boards :
    dom = d /\ state = s /\ gp = -1 /\ c = 0 /\ h = compute_full(s, d.cost)

WalkInit == (\E d \in Grids : GridRoot(d)) \/ (\E d \in Puzzles : TilesRoot(d))

GridMove ==
  /\ dom.grid
  /\ \E m \in GridExpand(dom.world, state) :
       /\ state' = m.to /\ c' = m.cost
       /\ h' = GridH(dom.world, m.to)
  /\ UNCHANGED <<dom, gp>>

TilesMove ==
  /\ ~dom.grid
  /\ \E m \in TileExpand(state, gp, dom.cost) :
       /\ state' = m.to /\ c' = m.cost
       /\ h' = compute_incr(m.to, state, h, dom.cost)
  /\ gp' = Blank(state)
  /\ UNCHANGED dom

Walk == GridMove \/ TilesMove

WalkSpec == WalkInit /\ [][Walk]_walkVars

IsGoal == state = IF dom.grid THEN dom.world.goal ELSE TileGoal

-----------------------------------------------------------------------------
(* Properties.                                                             *)

\* The value that is carried along a path by differences is the value
\* computed from scratch, goals have the value 0, and, as the assertion of
\* TilesState's constructor says, only they do in a puzzle.
Anchored ==
  /\ IsGoal => h = 0
  /\ ~dom.grid => h = compute_full(state, dom.cost) /\ (h = 0 => IsGoal)

\* No move lowers the heuristic value by more than its cost, wherever a path
\* has led: the heuristic is consistent and so admissible, which is what the
\* searches' bounds rest on.
HeuristicConsistent == [][Anchored' /\ h - h' <= c']_walkVars

TileHashes == {TileHash(board) : board \in Boards}

\* Different states have different hash values, which the closed lists and
\* the lock-free lists that compare hashes only take for granted.
HashUnique ==
  IF dom.grid
  THEN \A s \in Cells(dom.world) :
         GridHash(dom.world, s) = GridHash(dom.world, state) => s = state
  ELSE Cardinality(TileHashes) = Cardinality(Boards)

\* A move from block a to block b is one that the projection knows: b is one
\* of the blocks, and it is a or a successor of a, and a is b or one of its
\* predecessors.  The block graphs' exclusive scopes rest on this.
Known(a, b, blocks, Neighbors(_)) ==
  /\ {a, b} \subseteq 0..(blocks - 1)
  /\ b # a => b \in Neighbors(a) /\ a \in Neighbors(b)

RowModKnown ==
  \A n \in RowMods :
    Known(RowModBlock(n, state), RowModBlock(n, state'), n,
          LAMBDA b : RowModNeighbors(n, b))

\* The coarse projections that divide the world evenly.
Even(w, cr) == w.width % Coarse(w, cr[1], cr[2]).cols = 0
            /\ w.height % Coarse(w, cr[1], cr[2]).rows = 0

CoarseKnown ==
  \A cr \in {x \in Coarses : Even(dom.world, x)} :
    LET p == Coarse(dom.world, cr[1], cr[2])
    IN  Known(CoarseBlock(p, state), CoarseBlock(p, state'), CoarseBlocks(p),
              LAMBDA b : CoarseNeighbors(p, b))

TilesKnown ==
  \A t \in Trackings :
    LET tiles == t[1]
        div == t[2]
        noblank == Len(tiles) = 3 /\ tiles # TwoTile
        Block(board) == DivBlock(div, TileBlock(tiles, board))
        N(b) == CASE noblank -> NoBlankNeighbors(tiles, b)
                  [] tiles = OneTile -> OneTileNeighbors(b)
                  [] tiles = TwoTile -> TwoTileNeighbors(b)
                  [] tiles = ThreeTile -> ThreeTileNeighbors(b)
    IN  Known(Block(state), Block(state'), DivBlocks(div, TileBlocks(tiles)),
              LAMBDA b : IF div = 1 THEN N(b)
                         ELSE DivNeighbors(div, b, {N(b * div + i) : i \in 0..(div - 1)}))

ProjectionSound ==
  [][IF dom.grid THEN RowModKnown /\ CoarseKnown ELSE TilesKnown]_walkVars
=============================================================================
