\* Safety: a user and two interchangeable integrators, one transfer, a log of six rows.
SPECIFICATION Spec
CONSTANTS
  Address = {a1, a2, a3}
  NoAddress = none
  Integrator = {a2, a3}
  RoleChoices <- MCRoles
  SeedTimeout <- MCSeed
  DefaultSecs = 1
  TimeoutChoices = {}
  Configurable = {}
  MaxTransfers = 1
  MaxHistory = 6
SYMMETRY Symmetry
INVARIANTS TypeOK HistoryExplainsState StageEvidence
PROPERTIES FinalOutcomeIrrevocable SettlementSpec
CHECK_DEADLOCK FALSE
