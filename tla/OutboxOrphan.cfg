\* One slot and the sweep: the DLQ row of a dead-lettered event.
SPECIFICATION Spec
CONSTANTS
  NumEvents = 1
  Worker = {w1}
  Free = free
  PollBatch = 1
  SweepBatch = 1
  MaxRetries = 2
  RowId = {1, 2, 3}
  Env = {"handler", "pool", "connection"}
INVARIANTS DeadLetterHasRow
CHECK_DEADLOCK FALSE
