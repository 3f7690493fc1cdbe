SPECIFICATION FairSpec
CONSTANTS
  t1 = t1
  t2 = t2
  s = s
  l = l
  p = p
  m = m
  back = back
  r = r
  q = q
  xl = xl
  xr = xr
  Threads = {t1, t2}
  NBlocks <- Line4
  Succs <- LineSuccs
  Infinity = 60
  NoThread = NoThread
  NoBlock = NoBlock
  States <- AllStates
  Start = s
  Goals = {xl, xr}
  Edges <- TwoWays
  H <- Estimate
  Project <- Blocks
  WeightLists <- Schedules
PROPERTY ResortEnds
