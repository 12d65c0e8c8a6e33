\* Four workers compete for three PIDs under the mutex: refusals, reuse and a
\* search that wraps round all happen.
CONSTANTS
  MIN_PID = 3
  MAX_PID = 5
  Workers = {w1, w2, w3, w4}
  NoThread = NoThread
  LOCKED = TRUE
SPECIFICATION FairSpec
INVARIANTS NoAssertFails
PROPERTIES ImplementsPool Terminates
