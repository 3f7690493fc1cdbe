SPECIFICATION WFairSpec
CONSTANTS
  t1 = t1
  t2 = t2
  t3 = t3
  s = s
  l = l
  p = p
  m = m
  back = back
  r = r
  q = q
  xl = xl
  xr = xr
  Threads = {t1, t2, t3}
  NBlocks <- Line4
  Succs <- LineSuccs
  Infinity = 40
  Weight = 2
  DetectLivelocks = TRUE
  MinExpansions = 1
  NoThread = NoThread
  NoBlock = NoBlock
  States <- AllStates
  Start = s
  Goals = {xl, xr}
  Edges <- TwoWays
  H <- Estimate
  HWeight = 2
  Project <- Blocks
INVARIANTS
  WithinWeight
PROPERTIES
  Termination
  ReservationSpec
