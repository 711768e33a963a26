\* Delivery of a published event by one slot, every timer and statement fair.
SPECIFICATION FairSpec
CONSTANTS
  NumEvents = 1
  Worker = {w1}
  Free = free
  PollBatch = 1
  SweepBatch = 1
  MaxRetries = 2
  RowId = {1, 2}
  Env = {}
PROPERTIES PublishedSettles
CHECK_DEADLOCK FALSE
