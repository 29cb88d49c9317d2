SPECIFICATION Spec
CONSTANTS
  NonceSpace = 8
  CHECK_POINT = 1
  Calls <- MCOneCall
  total_cores = 1
  cutoff_time = 1
  Score <- MCScore
  MIN_DIFFICULTY = 1
INVARIANT MinedUntilMin
CHECK_DEADLOCK FALSE
