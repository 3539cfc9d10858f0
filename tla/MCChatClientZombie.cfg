SPECIFICATION Spec
CONSTANTS
  AutoReconnect = TRUE
  Capacities = {3}
  MaxLines = 1
INVARIANT
  ConnectedHasSocket
