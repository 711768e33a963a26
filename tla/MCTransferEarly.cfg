\* What TransferState::TimedOut documents, against advance_state.
SPECIFICATION Spec
CONSTANTS
  Address = {a1, a2}
  NoAddress = none
  Integrator = {a2}
  RoleChoices <- MCRoles
  SeedTimeout <- MCSeed
  DefaultSecs = 1
  TimeoutChoices = {}
  Configurable = {}
  MaxTransfers = 1
  MaxHistory = 4
PROPERTIES TimedOutOnlyAfterDeadline
CHECK_DEADLOCK FALSE
