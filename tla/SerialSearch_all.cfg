SPECIFICATION SearchOrWalk
CONSTANTS
  vs = vs
  va = va
  vb = vb
  vc = vc
  vd = vd
  ve = ve
  vu = vu
  gx = gx
  gy = gy
  States <- All
  Start = vs
  Goals = {gx, gy}
  Edges <- Graph
  H <- Estimate
  Infinity = 1000
  FPOne = 10
  Hash <- Hashes30
  Algorithms <- AllAlgorithms
  Weights <- ThreeWeights
  BoundNum = 5
  BoundDen = 4
  TableSize = 3
  BreadthBounds = {24, 1000}
  None = None
  TileWidth = 3
  TileHeight = 2
  TileGoal <- MCGoal
  Worlds <- MCWorlds
  CostFunctions <- MCCosts
  RowMods <- MCRowMods
  Coarses <- MCCoarses
  Trackings <- MCTrackings
INVARIANTS
  ListsHold
  ClosedKnows
  WithinBound
  HashUnique
PROPERTIES
  SearchEnds
  HeuristicConsistent
  ProjectionSound
