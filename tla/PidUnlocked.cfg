\* Problem 4.20: fewer threads than PIDs and no mutex.
CONSTANTS
  MIN_PID = 3
  MAX_PID = 5
  Workers = {w1, w2}
  NoThread = NoThread
  LOCKED = FALSE
SPECIFICATION Spec
INVARIANTS ReleasedPidIsInUse
