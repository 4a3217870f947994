SPECIFICATION FairSpec
CONSTANTS
  RtpHeaderSize = 1
  Preferred = 5
  MaxPacket = 7
  Limit = 21
  Formats <- MCFormats
  FrameSizes = {0, 1, 3, 6, 15}
  MaxFrames = 4
INVARIANTS TypeOK BytesKept FragmentsTold
PROPERTY EveryFrameSent
