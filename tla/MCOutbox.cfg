\* One event among all faults, or two parked events and a sweep of two.
SPECIFICATION MCSpec
CONSTANTS
  NumEvents = 2
  Worker = {w1, w2}
  slot = w1
  Free = free
  PollBatch = 2
  SweepBatch = 2
  MaxRetries = 2
  RowId = {1, 2, 3}
  Env = {"handler", "pool", "connection", "statement", "crash", "broker", "admin"}
INVARIANTS TypeOK OneRowPerEvent NothingLost
PROPERTIES CalmParkedIsRedriven
CHECK_DEADLOCK FALSE
