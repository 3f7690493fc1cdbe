SPECIFICATION FairSpec
CONSTANTS
  t1 = t1
  t2 = t2
  s = s
  a = a
  bb = bb
  c = c
  x = x
  again = again
  Threads = {t1, t2}
  NoThread = NoThread
  States <- AllStates
  NoState = NoState
  Start = s
  Goals = {x}
  Edges <- Graph
  H <- Estimate
  HWeight = 2
  Owner <- TwoOwners
  Options <- AllOptions
  Infinity = 20
  Slack = 3
  Overrun = 2
INVARIANTS
  CompletionSound
  WithinWeight
PROPERTY Termination
