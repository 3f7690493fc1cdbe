SPECIFICATION Spec
CONSTANTS
  ls = ls
  la = la
  lb = lb
  lp = lp
  lc = lc
  ld = ld
  le = le
  lq = lq
  lr = lr
  lx = lx
  N = 3
  FpOne = 10
  Jobs <- SomeJobs
  Blocks = {1, 2, 3, 4}
  BlockOf <- Place
  AbstractSuccs <- Line
  States <- All
  Start = ls
  Goals = {lx}
  Edges <- Graph
  H <- Estimate
  Infinity = 1000
INVARIANTS
  ListsExact
  WithinBound
PROPERTIES
  LayerSynchronous
  Termination
CHECK_DEADLOCK FALSE
