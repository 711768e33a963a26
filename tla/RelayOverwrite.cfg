\* What cleanup_expired_messages says expiry is for, against batch_relay.
SPECIFICATION RelaySpec
CONSTANTS
  Sender = {s1}
  Operator = {o1}
  Chain = {"Ethereum"}
  Preset = {"Ethereum"}
  Ttl = {1}
  Priority = {0}
  MaxMessages = 1
PROPERTIES RelayedStays
CHECK_DEADLOCK FALSE
