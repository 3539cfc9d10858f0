\* A message does not fit into the buffers.
SPECIFICATION FairSpec
CONSTANTS
  Header = 2
  MaxPayload = 1
  Buffer = 2
  MaxMessages <- OneAndTwo
  Garbled = Garbled
INVARIANTS
  TypeOK
  NothingLostByClose
PROPERTIES
  SendEnds
  RecvEnds
  ImplementsChannels
