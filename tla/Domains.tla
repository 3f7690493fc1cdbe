------------------------------- MODULE Domains -------------------------------
(***************************************************************************)
(* The two domains of the searches: their moves, heuristics, hashes and    *)
(* projections.                                                            *)
(*                                                                         *)
(* Grid path-finding.  A world is a record [width, height, obstacles,      *)
(* life, eight, goal]; a state is a cell <<x, y>>, y = 0 at the top.       *)
(* Under the life cost a move costs the row it starts from.                *)
(*                                                                         *)
(* Sliding tiles, for puzzles with TileWidth columns and TileHeight rows.  *)
(* A board gives the tile of each position; tile 0 is the blank.           *)
(***************************************************************************)
EXTENDS Integers, FiniteSets, FiniteSetsExt, Functions, Sequences

CONSTANTS TileWidth, TileHeight,
          TileGoal          \* the goal board

ASSUME TilesAssumption ==
  /\ TileWidth \in Nat \ {0} /\ TileHeight \in Nat \ {0}
  /\ TileGoal \in Injection(0..(TileWidth * TileHeight - 1),
                            0..(TileWidth * TileHeight - 1))

-----------------------------------------------------------------------------
(* Grids: worlds and cells.                                                *)

fp_one == 10000
fp_sqrt2 == 14142

Least(a, b) == IF a < b THEN a ELSE b
Most(a, b) == IF a < b THEN b ELSE a
Abs(n) == Most(n, -n)

\* A world with the goal of the world file, which counts rows from below.
World(width, height, obstacles, life, eight, gx, gy) ==
  [width |-> width, height |-> height, obstacles |-> obstacles,
   life |-> life, eight |-> eight, goal |-> <<gx, height - 1 - gy>>]

Cells(w) == (0..(w.width - 1)) \X (0..(w.height - 1))

is_obstacle(w, c) == c \in w.obstacles

Free(w) == {c \in Cells(w) : ~is_obstacle(w, c)}

-----------------------------------------------------------------------------
(* Grids: moves.  Obstacles beside a diagonal one do not stop it.          *)

StraightSteps == {<<-1, 0>>, <<1, 0>>, <<0, -1>>, <<0, 1>>}
DiagonalSteps == {<<-1, -1>>, <<1, -1>>, <<1, 1>>, <<-1, 1>>}

MovesBy(w, c, steps, unit) ==
  {[to |-> d, cost |-> IF w.life THEN c[2] * unit ELSE unit] :
     d \in {<<c[1] + s[1], c[2] + s[2]>> : s \in steps} \cap Free(w)}

expand4(w, c) == MovesBy(w, c, StraightSteps, fp_one)
expand8(w, c) == expand4(w, c) \cup MovesBy(w, c, DiagonalSteps, fp_sqrt2)

GridExpand(w, c) == IF w.eight THEN expand8(w, c) ELSE expand4(w, c)

-----------------------------------------------------------------------------
(* Grids: the heuristic ManhattanDist.                                     *)

\* A variation that counts the row of arrival and not that of departure.
CostFromArrival(a, b) ==
  LET last == IF a > b THEN a - 1 ELSE IF a < b THEN a + 1 ELSE a
  IN  ((b + last) * Abs(a - b)) \div 2

\* The life cost of going straight from row a to row b.
cost_from(a, b) ==
  LET last == IF a > b THEN b + 1 ELSE IF a < b THEN b - 1 ELSE b
  IN  ((a + last) * Abs(a - b)) \div 2

\* Across in the cheaper of the two rows.
compute_up_over4(c, g) ==
  Abs(g[1] - c[1]) * Least(c[2], g[2]) + cost_from(c[2], g[2])

\* Up to row 0, where moves are free, across, and down.
compute_up_over_down4(c, g) ==
  (c[2] * c[2] + c[2] + g[2] * g[2] - g[2]) \div 2

compute4(w, c) ==
  fp_one * IF w.life
           THEN Least(compute_up_over_down4(c, w.goal),
                      compute_up_over4(c, w.goal))
           ELSE Abs(w.goal[1] - c[1]) + Abs(w.goal[2] - c[2])

\* The life cost of an arc of two diagonals and a straight part in high_y.
ArcCost(c, g) ==
  LET dx == Abs(g[1] - c[1])
      dy == Abs(g[2] - c[2])
      extra == dx - dy
      top == Least(c[2], g[2])
      up == Least(top, extra \div 2)
      high_y == top - up
  IN  IF dx > dy
      THEN cost_from(c[2], high_y) + (extra - 2 * up) * high_y
             + cost_from(high_y, g[2])
      ELSE cost_from(c[2], g[2])

compute8(w, c) ==
  LET dx == Abs(w.goal[1] - c[1])
      dy == Abs(w.goal[2] - c[2])
  IN  IF w.life THEN ArcCost(c, w.goal) * fp_one
      ELSE Least(dx, dy) * fp_sqrt2 + (Most(dx, dy) - Least(dx, dy)) * fp_one

GridH(w, c) == IF w.eight THEN compute8(w, c) ELSE compute4(w, c)

-----------------------------------------------------------------------------
(* Grids: the hash value.                                                  *)

\* A variation that multiplies by the greatest row instead of the number of rows.
HashByGreatestRow(w, c) == c[1] * (w.height - 1) + c[2]

GridHash(w, c) == c[1] * w.height + c[2]

-----------------------------------------------------------------------------
(* Grids: projections onto blocks.                                         *)

\* Rows modulo mod_val.
RowModBlock(mod_val, c) == c[2] % mod_val

RowModNeighbors(mod_val, b) ==
  {IF b > 0 THEN (b - 1) % mod_val ELSE mod_val - 1, (b + 1) % mod_val}

\* c columns and r rows of blocks; one more of each when the world does not
\* divide evenly.
Coarse(w, c, r) ==
  LET cols == IF w.width % c # 0 THEN c + 1 ELSE c
      rows == IF w.height % r # 0 THEN r + 1 ELSE r
  IN  [cols |-> cols, rows |-> rows, eight |-> w.eight,
       cols_div |-> w.width \div cols, rows_div |-> w.height \div rows]

get_id(p, x, y) == y * p.cols + x

CoarseBlock(p, c) == get_id(p, c[1] \div p.cols_div, c[2] \div p.rows_div)

CoarseBlocks(p) == p.rows * p.cols

CoarseNeighbors(p, b) ==
  LET x == b % p.cols
      y == b \div p.cols
      steps == StraightSteps \cup (IF p.eight THEN DiagonalSteps ELSE {})
  IN  {get_id(p, x + s[1], y + s[2]) :
         s \in {t \in steps : /\ x + t[1] \in 0..(p.cols - 1)
                              /\ y + t[2] \in 0..(p.rows - 1)}}

-----------------------------------------------------------------------------
(* Tiles: positions and boards.                                            *)

Squares == TileWidth * TileHeight
Positions == 0..(Squares - 1)
Boards == Injection(Positions, Positions)

Col(p) == p % TileWidth
Row(p) == p \div TileWidth
Apart(p, q) == LET D(a, b) == IF a < b THEN b - a ELSE a - b
               IN  D(Col(p), Col(q)) + D(Row(p), Row(q))

\* The positions left of, right of, above and below p.
Beside(p) == (IF Col(p) > 0 THEN {p - 1} ELSE {})
        \cup (IF Col(p) < TileWidth - 1 THEN {p + 1} ELSE {})
        \cup (IF Row(p) > 0 THEN {p - TileWidth} ELSE {})
        \cup (IF Row(p) < TileHeight - 1 THEN {p + TileWidth} ELSE {})

\* What a loop over the positions adds up.
SumOf(f) ==
  LET sum[n \in 0..Squares] == IF n = 0 THEN 0 ELSE sum[n - 1] + f[n - 1]
  IN  sum[Squares]

\* Where a tile lies.
At(board, tile) == CHOOSE p \in Positions : board[p] = tile
Blank(board) == At(board, 0)

-----------------------------------------------------------------------------
(* Tiles: moves and their costs.                                           *)

\* FIXED_OF_DOUBLE of the square roots of the tiles up to 8.
SqrtCost == <<10000, 14142, 17320, 20000, 22360, 24494, 26457, 28284>>

CostOf(fun, tile) == CASE fun = "unit" -> 10000
                       [] fun = "sqrt" -> SqrtCost[tile]
                       [] fun = "inverse" -> 10000 \div tile

TileChild(board, o, n) == [board EXCEPT ![o] = board[n], ![n] = 0]

\* The children of a board; gp is the position of the parent's blank, or -1
\* at the root: the move that leads back is not made.
TileExpand(board, gp, fun) ==
  {[to |-> TileChild(board, Blank(board), n), cost |-> CostOf(fun, board[n])] :
     n \in Beside(Blank(board)) \ {gp}}

-----------------------------------------------------------------------------
(* Tiles: the heuristic ManhattanDist.                                     *)

lookup_dist(fun, tile, pos) ==
  Apart(At(TileGoal, tile), pos) * CostOf(fun, tile)

compute_full(board, fun) ==
  SumOf([p \in Positions |-> IF board[p] = 0 THEN 0
                             ELSE lookup_dist(fun, board[p], p)])

\* From the heuristic value h of the parent board par.
compute_incr(board, par, h, fun) ==
  LET tile == par[Blank(board)]
  IN  h + (lookup_dist(fun, tile, Blank(par))
             - lookup_dist(fun, tile, Blank(board)))

-----------------------------------------------------------------------------
(* Tiles: the hash of Korf and Schultze, the rank of the permutation.      *)

fact_ary[n \in 0..Squares] == IF n = 0 THEN 1 ELSE n * fact_ary[n - 1]

\* The tiles of later positions that are below the tile of position i.
Seen(board, i) == {p \in Positions : p > i /\ board[p] < board[i]}

TileHash(board) ==
  SumOf([i \in Positions |->
           (board[i] - Cardinality(Seen(board, i))) * fact_ary[i]])

-----------------------------------------------------------------------------
(* Tiles: a projection numbers blocks by the positions of tracked tiles.   *)

\* The n-tuple of positions that nested loops reach in round k.
Round(n, k) ==
  [i \in 1..n |-> (k \div Squares ^ (n - i)) % Squares]

\* The tuples of 2, 3 and 4 different positions in the order in which
\* setup_proj numbers them, from 0, and their numbers.
unproj ==
  [n \in 2..4 |->
     SelectSeq([k \in 1..(Squares ^ n) |-> Round(n, k - 1)],
               IsInjective)]

proj ==
  [n \in 2..4 |->
     [t \in Range(unproj[n]) |->
        (CHOOSE k \in DOMAIN unproj[n] : unproj[n][k] = t) - 1]]

\* OneTileProject, TwoTileProject, ThreeTileProject and
\* TwoTileNoBlankProject, as the tiles they track.
OneTile == <<0, 1>>
TwoTile == <<0, 1, 2>>
ThreeTile == <<0, 1, 2, 3>>

\* The constructor of TwoTileNoBlankProject sorts its tiles.
NoBlank(a, b, c) ==
  LET tiles == {a, b, c}
  IN  <<Min(tiles), Min(tiles \ {Min(tiles)}), Max(tiles)>>

TileBlock(tiles, board) ==
  proj[Len(tiles)][[i \in DOMAIN tiles |-> At(board, tiles[i])]]

TileBlocks(tiles) == Len(unproj[Len(tiles)])

\* Tile i of the tracked ones moves to position n; when it is the blank, the
\* tile that it meets there moves to where it was.
Swap(at, i, n) ==
  [j \in DOMAIN at |-> IF j = i THEN n
                       ELSE IF at[j] = n THEN at[i] ELSE at[j]]

\* A variation that forgets that the blank may meet a tracked tile.
UnmetNeighbors(b, len) ==
  LET at == unproj[len][b + 1]
  IN  {proj[len][Swap(at, 1, n)] :
         n \in {m \in Beside(at[1]) : \A j \in 2..len : m # at[j]}}

\* Only the blank moves in a projection that tracks it first.
BlankNeighbors(b, len) ==
  LET at == unproj[len][b + 1]
  IN  {proj[len][Swap(at, 1, n)] : n \in Beside(at[1])}

OneTileNeighbors(b) == BlankNeighbors(b, 2)
TwoTileNeighbors(b) == BlankNeighbors(b, 3)
ThreeTileNeighbors(b) == BlankNeighbors(b, 4)

\* Without it, each tracked tile may move to a position that no other tracked
\* tile is on, and the first, if it is the blank, to any.
NoBlankNeighbors(tiles, b) ==
  LET at == unproj[3][b + 1]
      Moves(i) ==
        {proj[3][Swap(at, i, n)] :
           n \in {m \in Beside(at[i]) :
                    \/ i = 1 /\ tiles[1] = 0
                    \/ \A j \in DOMAIN at : m # at[j]}}
  IN  UNION {Moves(i) : i \in 1..3}

-----------------------------------------------------------------------------
(* Tiles: DivMergeProject makes one of div consecutive blocks.             *)

DivBlock(div, b) == b \div div
DivBlocks(div, blocks) == blocks \div div

\* The neighbors of block b, neighbors being those of the blocks it is made of.
DivNeighbors(div, b, neighbors) == {n \div div : n \in UNION neighbors} \ {b}
=============================================================================
