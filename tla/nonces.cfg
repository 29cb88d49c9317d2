SPECIFICATION FairSpec
CONSTANTS
  NonceSpace = 8
  CHECK_POINT = 1
  Calls <- MCCalls
  total_cores = 2
  cutoff_time = 1
  Score <- MCScore
  MIN_DIFFICULTY = 8
INVARIANTS TypeOK NoDoubleWork AnswersBest OverrunBounded
PROPERTY AllReturn
CHECK_DEADLOCK FALSE
