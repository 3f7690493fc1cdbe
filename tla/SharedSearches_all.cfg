SPECIFICATION Spec
CONSTANTS
  vs = vs
  va = va
  vb = vb
  vc = vc
  vx = vx
  vd = vd
  N = 2
  Weights <- TwoWeights
  States <- All
  Start = vs
  Goals = {vx}
  Edges <- Graph
  H <- Estimate
  Infinity = 20
INVARIANTS
  WithinBound
PROPERTIES
  ChildrenFresh
  CompletionSound
  Termination
CHECK_DEADLOCK FALSE
