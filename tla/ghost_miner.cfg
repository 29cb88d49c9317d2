SPECIFICATION Spec
CONSTANTS
  a1 = a1 a2 = a2 w1 = w1 w2 = w2
  Addr = {a1}
  Worker = {w1}
  Cores = {1, 2}
  NumCores <- MCNumCores
  Difficulty = {1}
  MaxHashAt = 2
  ACCOUNT_QUERY_RETRIES = 1
  THREADS = 2
  LaggingNodes = FALSE
  MinDifficulty = 1
  RpcFaults = FALSE
  MaxDrops = 1
  SERVER_RETRIES = 2
  NoAddr = NoAddr
  EarlyAnswers = FALSE
INVARIANT MinersConnected
CHECK_DEADLOCK FALSE
