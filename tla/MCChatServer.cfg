\* Three slots and four ids, so that a slot is reused; every send may fail.
SPECIFICATION Spec
CONSTANTS
  MaxSlots = 3
  MaxClients = 3
  Names = {alice, bob}
  NoName = NoName
  IdMod = 65536
  LastId = 5
  MaxDepth = 3
  LostKinds <- AllKinds
  ErrorKinds <- AllKinds
SYMMETRY SymmetricNames
INVARIANTS
  TypeOK
  UniqueUsernames
  CountsAgree
  CrashNeedsTwoDead
  SelectSetsValid
  NoDeadAtRest
PROPERTIES
  NoDoubleClear
  ImplementsRoom
