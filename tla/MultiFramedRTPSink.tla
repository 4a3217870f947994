------------------------- MODULE MultiFramedRTPSink -------------------------
(***************************************************************************)
(* MultiFramedRTPSink.cpp and MediaSink.cpp (with its OutPacketBuffer): a  *)
(* sink that packs the frames of its source into RTP packets.              *)
(*                                                                         *)
(* The source writes each frame into the buffer, behind what is already in *)
(* the packet.  What does not fit is left where it lies, as the overflow   *)
(* data, and is the next packet's first frame; a frame that fits in no     *)
(* packet is divided among several.  The buffer is modelled byte by byte,  *)
(* a byte being the number of its frame and its place in the frame, so     *)
(* that data overwritten before they are sent are noticed.                 *)
(*                                                                         *)
(* The functions call each other in the middle (packFrame,                 *)
(* afterGettingFrame1, sendPacketIfNecessary): "phase" says which is next, *)
(* and in "pack" and "send" nothing else can happen.                       *)
(***************************************************************************)
EXTENDS Integers, Sequences, SequencesExt, FiniteSets

CONSTANTS
  RtpHeaderSize, \* rtpHeaderSize
  Preferred,     \* fPreferred
  MaxPacket,     \* fMax
  Limit,         \* fLimit: the size of the buffer
  Formats,       \* what the subclasses redefine, one of them in a behaviour
  FrameSizes,    \* bound: the sizes of the source's frames
  MaxFrames      \* bound: the number of frames that the source has

(* What a subclass says of its payload format: the sizes of its headers,     *)
(* and the answers of allowFragmentationAfterStart,                          *)
(* allowOtherFramesAfterLastFragment and frameCanAppearAfterPacketStart,     *)
(* the last of which may depend on the frame.  The special header has one    *)
(* size here, although JPEGVideoRTPSink and RawVideoRTPSink compute it anew  *)
(* for each packet.                                                          *)
FormatType ==
  [special : Nat, specific : Nat, fragmentsAfterStart : BOOLEAN,
   othersAfterLast : BOOLEAN, canFollow : {{FALSE}, {TRUE}, BOOLEAN}]

(* setPacketSizes refuses sizes that are not in this order, and no format    *)
(* has headers as large as what is left between the two (456 bytes).  The    *)
(* buffer has room for many packets: 60000 bytes, unless that is increased.  *)
SizesAssumption ==
  /\ {RtpHeaderSize, Preferred, MaxPacket, Limit, MaxFrames} \subseteq Nat
  /\ FrameSizes \subseteq Nat
  /\ Formats \subseteq FormatType
  /\ 2 * MaxPacket <= Limit
  /\ \A f \in Formats :
       /\ RtpHeaderSize + f.special + f.specific < Preferred
       /\ Preferred + f.specific <= MaxPacket
ASSUME SizesAssumption

VARIABLES
  format,       \* the subclass
  out,          \* fOutBuf
  fragmentationOffset, \* fCurFragmentationOffset
  endedFragmentation,  \* fPreviousFrameEndedFragmentation
  noFramesLeft, \* fNoFramesLeft
  headerSizes,  \* fTotalFrameSpecificHeaderSizes
  packed,       \* the frames used so far, with what their headers were made from
  phase,        \* the function that comes next, or what the sink waits for
  frames,       \* the number of frames that the source has delivered
  owed,         \* history: bytes that the source delivered and nobody sent
  stale         \* history: the sink was stopped within a frame

sinkVars == <<fragmentationOffset, endedFragmentation, noFramesLeft, headerSizes, packed>>
vars == <<format, out, sinkVars, phase, frames, owed, stale>>

-----------------------------------------------------------------------------
(* OutPacketBuffer                                                           *)

Header == <<0, 0>>
Byte == {Header} \union ((1..MaxFrames) \X (1..Limit))

CurPtr(b) == b.packetStart + b.curOffset
TotalBytesAvailable(b) == Limit - CurPtr(b)
IsPreferredSize(b) == b.curOffset >= Preferred
HaveOverflowData(b) == b.overflowSize > 0
NumOverflowBytes(b, n) == b.curOffset + n - MaxPacket

(* Mutant: a packet may be too large by one byte. *)
WouldOverflowMore(b, n) == NumOverflowBytes(b, n) > 1

WouldOverflow(b, n) == NumOverflowBytes(b, n) > 0

(* The bytes from a position in the packet on. *)
Extract(b, from, n) == [i \in 1..n |-> b.bytes[b.packetStart + from + i - 1]]

(* Puts bytes at a position in the packet. *)
Insert(b, data, to) ==
  LET first == b.packetStart + to
      written == first..(first + Len(data) - 1)
  IN  [b EXCEPT !.bytes = [p \in DOMAIN b.bytes \union written |->
                             IF p \in written THEN data[p - first + 1] ELSE b.bytes[p]]]

Increment(b, n) == [b EXCEPT !.curOffset = @ + n]

SkipBytes(b, n) ==
  Increment(b, IF n > TotalBytesAvailable(b) THEN TotalBytesAvailable(b) ELSE n)

SetOverflowData(b, offset, size) ==
  [b EXCEPT !.overflowOffset = offset, !.overflowSize = size]

ResetOverflowData(b) == SetOverflowData(b, 0, 0)

(* Moves the overflow data to where the next frame goes. *)
UseOverflowData(b) ==
  ResetOverflowData(Insert(b, Extract(b, b.overflowOffset, b.overflowSize), b.curOffset))

AdjustPacketStart(b, n) ==
  LET moved == [b EXCEPT !.packetStart = @ + n]
  IN  IF b.overflowOffset >= n THEN [moved EXCEPT !.overflowOffset = @ - n]
                               ELSE ResetOverflowData(moved)

(* Mutant: the overflow data are looked for where they were. *)
ResetPacketStartOnly(b) == [b EXCEPT !.packetStart = 0]

ResetPacketStart(b) ==
  [b EXCEPT !.packetStart = 0,
            !.overflowOffset = IF HaveOverflowData(b) THEN @ + b.packetStart ELSE @]

ResetOffset(b) == [b EXCEPT !.curOffset = 0]

EmptyBuffer ==
  [bytes |-> [p \in 0..(Limit - 1) |-> Header], packetStart |-> 0, curOffset |-> 0,
   overflowOffset |-> 0, overflowSize |-> 0]

-----------------------------------------------------------------------------
(* The sink                                                                  *)

Init ==
  /\ format \in Formats
  /\ out = EmptyBuffer
  /\ fragmentationOffset = 0
  /\ endedFragmentation = FALSE
  /\ noFramesLeft = FALSE
  /\ headerSizes = 0
  /\ packed = <<>>
  /\ phase = "stopped"
  /\ frames = 0
  /\ owed = <<>>
  /\ stale = FALSE

AllHeaders == RtpHeaderSize + format.special + format.specific

IsTooBigForAPacket(size) == size + AllHeaders > MaxPacket

(* The RTP header, and the special header, which the format fills in later. *)
BuildAndSendPacket ==
  LET size == RtpHeaderSize + format.special
  IN  /\ out' = SkipBytes(Insert(out, [i \in 1..size |-> Header], out.curOffset), size)
      /\ noFramesLeft' = FALSE
      /\ headerSizes' = 0
      /\ packed' = <<>>
      /\ phase' = "pack"
      /\ UNCHANGED <<format, fragmentationOffset, endedFragmentation, frames, owed, stale>>

(* MediaSink::startPlaying, whose continuePlaying is this class's. *)
StartPlaying == phase = "stopped" /\ BuildAndSendPacket

(* The task for the next packet, which is due when the frames sent have been *)
(* played.                                                                   *)
SendNext == phase = "waiting" /\ BuildAndSendPacket

(* Mutant: the end of the frame is not noticed. *)
OffsetAfterAny(size, used) == fragmentationOffset + (IF used < size THEN used ELSE 0)

(* Where the next part of the frame begins, or the next frame. *)
OffsetAfter(size, used) ==
  IF used < size THEN fragmentationOffset + used
  ELSE IF size > 0 THEN 0 ELSE fragmentationOffset

(* Some of the frame goes into the packet, its last byte or not. *)
Use(b, size, used, again) ==
  LET divided == used < size
      b1 == IF divided THEN SetOverflowData(b, b.curOffset + used, size - used) ELSE b
      b2 == Insert(b1, [i \in 1..format.specific |-> Header], b.curOffset - format.specific)
      b3 == Increment(b2, used)
      ended == size > 0 /\ ~divided /\ fragmentationOffset > 0
  IN  /\ out' = b3
      /\ packed' = Append(packed, [start |-> b.curOffset, bytes |-> used,
                                   offset |-> fragmentationOffset, remaining |-> size - used])
      /\ endedFragmentation' = ended
      /\ fragmentationOffset' = OffsetAfter(size, used)
      /\ phase' = IF \/ IsPreferredSize(b3)
                     \/ WouldOverflow(b3, used)
                     \/ ended /\ ~format.othersAfterLast
                     \/ ~again
                  THEN "send" ELSE "pack"

(* None of the frame goes into the packet: it is kept for the next. *)
KeepForNextPacket(b, size) ==
  /\ out' = SetOverflowData(b, b.curOffset, size)
  /\ endedFragmentation' = FALSE
  /\ phase' = "send"
  /\ UNCHANGED <<fragmentationOffset, packed>>

(* A frame has been written, or moved, to where the buffer's next byte goes. *)
(* "follow" and "again" are what the format says of it before and after.     *)
AfterGettingFrame(b, size, follow, again) ==
  LET allowed == follow /\ (endedFragmentation => format.othersAfterLast)
      refused == packed # <<>> /\ ~allowed
      divides == IsTooBigForAPacket(size) /\ (packed = <<>> \/ format.fragmentsAfterStart)
      used == IF ~WouldOverflow(b, size) THEN size
              ELSE IF divides THEN size - NumOverflowBytes(b, size) ELSE 0
  IN  IF size > 0 /\ (refused \/ used = 0)
      THEN KeepForNextPacket(b, size)
      ELSE Use(b, size, used, again)

(* The overflow data come first; the source is asked when there are none. *)
PackFrame ==
  LET b == SkipBytes(out, format.specific)
  IN  /\ phase = "pack"
      /\ headerSizes' = headerSizes + format.specific
      /\ IF HaveOverflowData(b)
         THEN \E c \in {UseOverflowData(b)}, follow, again \in format.canFollow :
                AfterGettingFrame(c, b.overflowSize, follow, again)
         ELSE /\ out' = b
              /\ phase' = "reading"
              /\ UNCHANGED <<fragmentationOffset, endedFragmentation, packed>>
      /\ UNCHANGED <<format, noFramesLeft, frames, owed, stale>>

(* The source delivers a frame: as much of it as there is room for. *)
FrameComes(size) ==
  LET read == IF size > TotalBytesAvailable(out) THEN TotalBytesAvailable(out) ELSE size
      data == [i \in 1..read |-> <<frames + 1, i>>]
  IN  /\ phase = "reading"
      /\ frames < MaxFrames
      /\ frames' = frames + 1
      /\ owed' = owed \o data
      /\ \E c \in {Insert(out, data, out.curOffset)}, follow, again \in format.canFollow :
           AfterGettingFrame(c, read, follow, again)
      /\ UNCHANGED <<format, noFramesLeft, headerSizes, stale>>

(* Mutant: what is in the packet is forgotten. *)
SourceClosesAtOnce ==
  /\ phase = "reading"
  /\ noFramesLeft' = TRUE
  /\ phase' = "stopped"
  /\ out' = ResetOffset(ResetPacketStart(out))
  /\ packed' = <<>>
  /\ UNCHANGED <<format, fragmentationOffset, endedFragmentation, headerSizes, frames, owed, stale>>

(* ourHandleClosure: there are no frames left, but there may be a packet that *)
(* is built in part.                                                         *)
SourceCloses ==
  /\ phase = "reading"
  /\ noFramesLeft' = TRUE
  /\ phase' = "send"
  /\ UNCHANGED <<format, out, fragmentationOffset, endedFragmentation, headerSizes, packed,
                 frames, owed, stale>>

(* What is added to fOctetCount: the packet without its headers.             *)
BytesPacked ==
  IF packed = <<>> THEN 0
  ELSE out.curOffset - RtpHeaderSize - format.special - headerSizes

(* Where the next packet begins: in front of the overflow data, unless these *)
(* are far behind in the buffer.                                             *)
NextPacketStart(b) ==
  IF HaveOverflowData(b) /\ TotalBytesAvailable(b) > Limit \div 2
  THEN AdjustPacketStart(b, b.curOffset - AllHeaders)
  ELSE ResetPacketStart(b)

SendPacketIfNecessary ==
  /\ phase = "send"
  /\ owed' = SubSeq(owed, BytesPacked + 1, Len(owed))
  /\ out' = ResetOffset(NextPacketStart(out))
  /\ packed' = <<>>
  /\ phase' = IF noFramesLeft THEN "stopped" ELSE "waiting"
  /\ stale' = (stale /\ fragmentationOffset # 0)
  /\ UNCHANGED <<format, fragmentationOffset, endedFragmentation, noFramesLeft, headerSizes, frames>>

(* The client pauses, or gives the stream back.  The source is told not to   *)
(* answer, and the task is unscheduled.                                      *)
StopPlaying ==
  /\ phase \in {"reading", "waiting"}
  /\ out' = ResetOverflowData(ResetOffset(ResetPacketStart(out)))
  /\ phase' = "stopped"
  /\ owed' = <<>>
  /\ stale' = (fragmentationOffset # 0)
  /\ UNCHANGED <<format, sinkVars, frames>>

Next ==
  \/ StartPlaying
  \/ SendNext
  \/ PackFrame
  \/ \E size \in FrameSizes : FrameComes(size)
  \/ SourceCloses
  \/ SendPacketIfNecessary
  \/ StopPlaying

Spec == Init /\ [][Next]_vars

(* The functions return, the task's time comes, and the source answers.      *)
Fairness ==
  /\ WF_vars(PackFrame)
  /\ WF_vars(SendPacketIfNecessary)
  /\ WF_vars(SendNext)
  /\ WF_vars(SourceCloses \/ \E size \in FrameSizes : FrameComes(size))

FairSpec == Spec /\ Fairness

-----------------------------------------------------------------------------
(* Packets and frames stay within the buffer, and no packet is sent that is  *)
(* larger than the network takes.                                            *)
TypeOK ==
  /\ format \in Formats
  /\ out.bytes \in [0..(Limit - 1) -> Byte]
  /\ out.packetStart \in Nat /\ out.curOffset \in Nat /\ CurPtr(out) <= Limit
  /\ out.overflowOffset \in Nat /\ out.overflowSize \in Nat
  /\ HaveOverflowData(out) => out.packetStart + out.overflowOffset + out.overflowSize <= Limit
  /\ fragmentationOffset \in Nat
  /\ endedFragmentation \in BOOLEAN
  /\ noFramesLeft \in BOOLEAN
  /\ headerSizes \in Nat
  /\ packed \in Seq([start : Nat, bytes : Nat, offset : Nat, remaining : Nat])
  /\ phase \in {"stopped", "pack", "reading", "send", "waiting"}
  /\ phase = "send" => out.curOffset <= MaxPacket
  /\ frames \in 0..MaxFrames
  /\ owed \in Seq(Byte)
  /\ stale \in BOOLEAN

PayloadOf(p) == Extract(out, p.start, p.bytes)

Payload == FlattenSeq([i \in DOMAIN packed |-> PayloadOf(packed[i])])

(* No byte of a frame is overwritten, sent twice or lost between packets:    *)
(* what has been packed and the overflow data behind it are, in order, what  *)
(* the source delivered and nobody has sent.                                 *)
BytesKept ==
  phase # "stopped" => Payload \o Extract(out, out.overflowOffset, out.overflowSize) = owed

(* doSpecialFrameHandling, which makes the headers that say which part of    *)
(* its frame a packet has, is told where the part begins and how much is     *)
(* still to come; and a part of a frame is together with other frames in a   *)
(* packet only if the format allows it.  After the sink was stopped in the   *)
(* middle of a frame, the frame that comes next is taken for the rest of it. *)
FragmentsTold ==
  phase # "stopped" /\ ~stale =>
    \A i \in DOMAIN packed :
      LET p == packed[i]
      IN  /\ p.bytes > 0 =>
               /\ p.offset = PayloadOf(p)[1][2] - 1
               /\ p.bytes + p.remaining =
                    Cardinality({k \in DOMAIN owed : owed[k][1] = PayloadOf(p)[1][1]})
          /\ i > 1 /\ p.remaining > 0 => format.fragmentsAfterStart
          /\ i > 1 /\ packed[1].offset > 0 => format.othersAfterLast

(* Every frame, and each part of it, is sent in the end, unless the sink is  *)
(* stopped.                                                                  *)
EveryFrameSent ==
  \A f \in 1..MaxFrames :
    (\E k \in DOMAIN owed : owed[k][1] = f) ~> (\A k \in DOMAIN owed : owed[k][1] # f)
=============================================================================
