SPECIFICATION Spec
CONSTANTS
  a1 = a1 a2 = a2 w1 = w1 w2 = w2
  Addr = {a1, a2}
  Worker = {w1, w2}
  Cores = {1, 2}
  NumCores <- MCNumCores
  Difficulty = {0, 1}
  MaxHashAt = 2
  ACCOUNT_QUERY_RETRIES = 1
  THREADS = 2
  LaggingNodes = FALSE
  MinDifficulty = 1
  RpcFaults = TRUE
  MaxDrops = 1
  SERVER_RETRIES = 2
  NoAddr = NoAddr
  EarlyAnswers = TRUE
SYMMETRY MCSymmetry
INVARIANTS TypeOK TotalCoresExact NoLostWakeup WaitOnlyWhenEmpty WorkDisjoint SharesTile NoIdleAnswer
CHECK_DEADLOCK FALSE
