SPECIFICATION RetrySpec
CONSTANTS
  AutoReconnect = TRUE
  Capacities = {3}
  MaxLines = 2
PROPERTY
  RetriesGoOn
