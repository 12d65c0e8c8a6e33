\* One small instance of each program.
CONSTANTS
  Heads = {h1, h2}
  Nodes = {a, b, c}
  Memory = {b1, b2, b3}
  MAX_TASKS = 5
  MAX_SAMPLE_SIZE = 4
  INT_MAX = 3
  Arguments = {0, 1, 2, 3}
  N_FIB_MAX = 12
  Threads = {t1, t2, t3}
  NUM_RAND_POINTS = 2
  NoThread = NoThread
  Producers = {p1, p2}
  Consumers = {c1, c2}
  Ends = {2, 3, 4}
  Clients = {k1, k2, k3}
  Lockers = {q1, q2, q3}
  MAX_LENGTH = 4
SPECIFICATION SpecAll
INVARIANTS Represents NoUseAfterFree ListedAndFreed
INVARIANTS EveryTaskOnce DepthFirst StatisticsRight FibonacciPrinted
INVARIANTS EveryPointCounted PrintedAfterChild WholeMessage
INVARIANTS RemovesOwnUnlessOvertaken ServedInTurn HalvesLocked
PROPERTIES WalkEnds ChildWaitedFor EveryClientEnds AllFinish JoinsUnlessCrossed
\* The programs end, and the deadlock example may hang.
CHECK_DEADLOCK FALSE
