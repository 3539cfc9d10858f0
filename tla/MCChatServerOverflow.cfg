\* Two peers may be found dead by one broadcast.
SPECIFICATION AnsweredSpec
CONSTANTS
  MaxSlots = 2
  MaxClients = 2
  Names = {alice, bob}
  NoName = NoName
  IdMod = 65536
  LastId = 3
  MaxDepth = 2
  LostKinds <- AllKinds
  ErrorKinds = {}
PROPERTY DisconnectedRemoved
