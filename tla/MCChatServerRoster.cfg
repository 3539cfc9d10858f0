\* next_client_id wraps around at four; every send may find the peer gone, except the reply that welcomes it.
SPECIFICATION FairSpec
CONSTANTS
  MaxSlots = 4
  MaxClients = 3
  Names = {alice, bob}
  NoName = NoName
  IdMod = 4
  LastId = 4
  MaxDepth = 4
  LostKinds <- NotWelcome
  ErrorKinds = {}
INVARIANTS
  RosterExact
  UniqueIds
PROPERTIES
  ShutdownCompletes
  DeadRemoved
