SPECIFICATION Spec
CONSTANTS
  Sockets = {s1, s2}
  Tracks = {v}
  PacketSize = 2
  NoSocket = NoSocket
  NoDescriptor = NoDescriptor
  NoChannel = NoChannel
INVARIANTS TypeOK StreamsAgree InStep RequestsHeard
