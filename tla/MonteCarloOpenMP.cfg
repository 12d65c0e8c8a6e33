\* Problem 4.23: two threads.
CONSTANTS
  Threads = {t1, t2}
  NUM_RAND_POINTS = 2
  NoThread = NoThread
  LOCKED = FALSE
SPECIFICATION Spec
INVARIANTS EveryPointCounted
\* main ends.
CHECK_DEADLOCK FALSE
