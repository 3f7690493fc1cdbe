SPECIFICATION FairSpec
CONSTANTS
  o1 = o1
  o2 = o2
  o3 = o3
  os = os
  ol = ol
  op = op
  ou = ou
  or = or
  om = om
  oz = oz
  oq = oq
  ox = ox
  oy = oy
  Threads = {o1, o2, o3}
  NBlocks <- Line4
  Succs <- LineSuccs
  Infinity = 100
  NoThread = NoThread
  NoBlock = NoBlock
  States <- AllStates
  Start = os
  Goals = {ox, oy}
  Edges <- Graph
  H <- Estimate
  Project <- Blocks
  Factors = {1, 2}
INVARIANTS
  FMinSound
  WithinBound
PROPERTY Termination
CHECK_DEADLOCK FALSE
