SPECIFICATION DropSpec
CONSTANTS
  t1 = t1
  s = s
  q = q
  m = m
  p1 = p1
  p2 = p2
  x = x
  y = y
  Threads = {t1}
  NBlocks <- ThreeBlocks
  Succs <- Line3
  Infinity = 60
  Weight = 2
  DetectLivelocks = TRUE
  MinExpansions = 1
  NoThread = NoThread
  NoBlock = NoBlock
  States <- DropStates
  Start = s
  Goals = {y}
  Edges <- ThreeWays
  H <- NoEstimate
  HWeight = 2
  Project <- DropBlocks
INVARIANT DroppingWithinWeight
