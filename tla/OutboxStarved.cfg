\* A sweep of one row over two parked events.
SPECIFICATION FairSpec
CONSTANTS
  NumEvents = 2
  Worker = {w1}
  Free = free
  PollBatch = 2
  SweepBatch = 1
  MaxRetries = 1
  RowId = {1, 2, 3}
  Env = {"pool"}
PROPERTIES ParkedIsRedriven
CHECK_DEADLOCK FALSE
