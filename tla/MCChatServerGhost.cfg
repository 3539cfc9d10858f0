\* The reply that welcomes a client may find it gone, too.
SPECIFICATION Spec
CONSTANTS
  MaxSlots = 2
  MaxClients = 2
  Names = {alice, bob}
  NoName = NoName
  IdMod = 65536
  LastId = 4
  MaxDepth = 2
  LostKinds <- AllKinds
  ErrorKinds = {}
INVARIANT RosterExact
