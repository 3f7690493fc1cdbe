SPECIFICATION Spec
CONSTANTS
  t1 = t1
  t2 = t2
  Threads = {t1, t2}
  NBlocks <- Fork4
  Succs <- ForkSuccs
  InitBlock = 4
  InitVal = 0
  Infinity = 2
  Weight = 1
  DetectLivelocks = TRUE
  SpuriousWakeups = TRUE
  MinExpansions = 1
  MaxWork = 3
  NoThread = NoThread
  NoBlock = NoBlock
SYMMETRY Symmetry
INVARIANTS
  ScopesDisjoint
  FreeListExact
  NoLostWakeup
PROPERTIES
  LoopsAgree
