\* The treasury by itself: what becomes of an approved transaction.
SPECIFICATION TreasurySpec
CONSTANTS
  Account = {a1, a2}
  MaxTime = 2
  Emergency = 2
  MaxThreshold = 2
  Delay = 1
  MaxTransactions = 1
INVARIANT ApprovedIsExecutable
CHECK_DEADLOCK FALSE
