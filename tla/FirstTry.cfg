\* Four students and two chairs.
CONSTANTS
  NUM_STUDENTS = 4
  NUM_TA_WAIT_CHAIRS = 2
SPECIFICATION Spec
INVARIANT LockFreeIfNobodyWithTA
CHECK_DEADLOCK FALSE
