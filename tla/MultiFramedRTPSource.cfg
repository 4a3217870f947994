SPECIFICATION Spec
CONSTANTS
  SeqModulus = 16
  MaxPackets = 6
  MaxJump = 1
  NoPacket = NoPacket
INVARIANTS TypeOK ListInOrder FramesWholeInOrder WaitsOnlyForMissing
