SPECIFICATION FairSpec
CONSTANTS
  EPOCH_DURATION = 5
  WS_RETRY_DELAY = 2
  Buffer = 2
  Latency = 1
  NodeLag = 1
  Skews <- MCSkews
  Start = 6
  Horizon = 15
  MaxFlying = 1
INVARIANTS TypeOK BufferSuffices PollFollows
PROPERTY EpochRenewed
CHECK_DEADLOCK FALSE
