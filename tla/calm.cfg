SPECIFICATION MCFairSpec
CONSTANTS
  a1 = a1 a2 = a2 w1 = w1 w2 = w2
  Addr = {a1, a2}
  Worker = {w1, w2}
  Cores = {1, 2}
  NumCores <- MCNumCores
  Difficulty = {1, 2}
  MaxHashAt = 3
  ACCOUNT_QUERY_RETRIES = 2
  THREADS = 2
  LaggingNodes = TRUE
  MinDifficulty = 1
  RpcFaults = FALSE
  MaxDrops = 0
  SERVER_RETRIES = 1
  NoAddr = NoAddr
  EarlyAnswers = FALSE
INVARIANTS SendAfterAllAnswers SubmitsCurrent SubmitsBest
PROPERTIES ImplementsEpochs ClientServed
CHECK_DEADLOCK FALSE
