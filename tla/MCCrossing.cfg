\* The relay with three messages of one sender and two operators; transfers of two accounts.
SPECIFICATION MCSpec
CONSTANTS
  Sender = {s1}
  Operator = {o1, o2}
  Chain = {"Ethereum"}
  Preset = {"Ethereum"}
  Ttl = {1, 2}
  Priority = {0, 1}
  MaxMessages = 3
  Address = {a1, a2}
  NoAddress = none
  Integrator = {a2}
  RoleChoices <- MCRoles
  SeedTimeout <- MCSeed
  DefaultSecs = 1
  TimeoutChoices = {1, 2}
  Configurable = {"EscrowPending"}
  MaxTransfers = 1
  MaxHistory = 4
INVARIANTS RelayTypeOK QueueOrder RelayedOnce ExpiredIsLate
PROPERTIES SentIsResolved TimeoutDrains
CHECK_DEADLOCK FALSE
