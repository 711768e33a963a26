\* Each contract on its own instance: safety.
SPECIFICATION MCSpec
CONSTANTS
  anna = anna
  bert = bert
  Account = {anna, bert}
  MaxTime = 2
  Board <- MCBoard
  FeeBps = {0, 2000}
  LockSecs = {1}
  Deposit = {5}
  MaxEscrows = 1
  Emergency = 2
  MaxThreshold = 2
  Delay = 1
  MaxTransactions = 1
  Operator = {k1, k2}
  Timelock = 1
  MaxLogEntries = 1
  MaxNonce = 2
  MaxSignatures = 2
  MaxPauses = 3
  Power = {2}
  Rules <- MCRules
  Watcher = {anna}
  MaxProposals = 1
  Approver = {anna}
  Amount = {4}
  CoverCap = {8500}
  SlashBps = {5000}
  Caps <- MCCaps
  WithdrawDelay = 1
  MaxLiquidity = 8
  MaxWithdrawals = 1
  MaxClaims = 2
  Keeper = {anna}
  Scope = {"s"}
  Protocol <- MCProtocol
  GuardianThreshold = 2
  MaxTrips = 2
  Terms <- MCTerms
  Stake = {3}
  MaxCommitments = 3
INVARIANTS ContractsTypeOK EscrowSolvent DisputeDecides ApprovalHasQuorum
  QuorumBound TimelockHolds PowerConserved VoteDecides BooksAgree PayoutsCapped
  StagedRecovery ChallengeIsFinal
CHECK_DEADLOCK FALSE
