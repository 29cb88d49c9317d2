SPECIFICATION Spec
CONSTANTS
  gateway_retries = 1
  confirm_retries = 1
  jito_retries = 1
  max_jito_tip = 1
  max_rpc_priority_fee = 15
  StepPercent = 105
  priority_fee = 10
  MaxMultiple = 3000
  RingSize = 2
  Seconds = {0, 4, 7}
  Tips = {0, 2}
  Fees = {1, 20}
  MaxSubmissions = 1
INVARIANT CappedByPriorityFee
CHECK_DEADLOCK FALSE
