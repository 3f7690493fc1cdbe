SPECIFICATION LockFree
CONSTANTS
  Structures = {"publish", "queue", "list", "prio_queue"}
  t1 = t1
  t2 = t2
  t3 = t3
  Publishers = {t1, t2, t3}
  NoSolution = 3
  p1 = p1
  p2 = p2
  Procs = {p1, p2}
  n1 = n1
  n2 = n2
  n3 = n3
  n4 = n4
  n5 = n5
  n6 = n6
  NULL = NULL
  IntRange = 8
  Keys = {1, 2}
  Costs = {1, 2}
  front = front
  rear = rear
  Queued = {1, 2, 3}
  Heights = {0, 1, 2}
INVARIANTS
  BoundIsIncumbent
  BoundIsJustified
  NoUseAfterFree
  NoneStranded
  AnswersSeen
  NothingLeaks
  TakesLeastInSight
PROPERTIES
  Linearizable
  OneEffect
