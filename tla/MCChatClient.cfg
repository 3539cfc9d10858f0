\* Lines and timeouts always fit into a command queue of five; a queue of one
\* may refuse every push.
SPECIFICATION FairSpec
CONSTANTS
  AutoReconnect = TRUE
  Capacities = {1, 5}
  MaxLines = 4
INVARIANTS
  TypeOK
  AuthenticatedTruthful
  TalkInSession
  SocketSafe
PROPERTIES
  
  
  SigintStopsNetwork
