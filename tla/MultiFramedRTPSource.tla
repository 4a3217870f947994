------------------------ MODULE MultiFramedRTPSource ------------------------
(***************************************************************************)
(* MultiFramedRTPSource.cpp: RTP packets are read from a network that      *)
(* loses, delays, reorders and repeats them, and are made into frames for  *)
(* one reader.                                                             *)
(*                                                                         *)
(* The sender's packets have a pattern: two frames in one packet, then one *)
(* frame in three packets, and so on.  Over TCP packets come in order, but   *)
(* perhaps in parts.                                                       *)
(***************************************************************************)
EXTENDS ReorderingPacketBuffer, Functions

CONSTANTS
  MaxPackets,    \* bound: packets sent
  MaxJump,       \* bound: distance of the sequence numbers of a new stream
  NoPacket       \* a NULL BufferedPacket*

(* No two sequence numbers alive at once are half the number space apart or   *)
(* more: otherwise what is early cannot be told from what is late.            *)
ASSUME BoundsAssumption ==
  /\ MaxPackets \in Nat \ {0}
  /\ MaxJump \in Nat
  /\ 2 * (MaxPackets + MaxJump) < SeqModulus

(* What is sent: n is not in the packet, it says which one it is. *)
Packet == [n : 1..MaxPackets, ssrc : {1, 2}, seq : 0..SeqModulus - 1]

ASSUME NoPacketAssumption == NoPacket \notin [packet : Packet, saved : BOOLEAN]

VARIABLES
  sender,   \* packets sent (sent), SSRC and number of the stream's packet 0
  net,      \* packets on their way
  tcp,      \* the stream comes over TCP
  source,   \* the members of the MultiFramedRTPSource and its FramedSource
  given,    \* history: the frames that the reader got since it began to read
  doubt     \* history: the code cannot know any more what it has lost

vars == <<sender, net, tcp, source, given, doubt>>

-----------------------------------------------------------------------------
(* The sender.                                                             *)

FramesIn(n) == IF n % 4 = 1 THEN 2 ELSE 1

BeginsFrame(n) == n % 4 \in {1, 2}

CompletesFrame(n) == n % 4 \in {0, 1}

(* What a frame consists of: pairs of a packet and a place in it. *)
IsWhole(frame) ==
  \/ \E n \in 1..MaxPackets, k \in {1, 2} : n % 4 = 1 /\ frame = <<<<n, k>>>>
  \/ \E n \in 1..MaxPackets : n % 4 = 2 /\ frame = <<<<n, 1>>, <<n + 1, 1>>, <<n + 2, 1>>>>

Comes(frame, later) ==
  LET a == Head(frame)  b == Head(later)
  IN a[1] < b[1] \/ (a[1] = b[1] /\ a[2] < b[2])

-----------------------------------------------------------------------------
NewSource ==
  [reading |-> FALSE,            \* fAreDoingNetworkReads
   awaiting |-> FALSE,           \* fIsCurrentlyAwaitingData
   need |-> FALSE,               \* fNeedDelivery
   afterGetting |-> FALSE,       \* the task nextTask() calls afterGetting
   lossInFrame |-> FALSE,        \* fPacketLossInFragmentedFrame
   frame |-> <<>>,               \* what is at fSavedTo so far
   partly |-> NoPacket,          \* fPacketReadInProgress
   ssrc |-> 0,                   \* fLastReceivedSSRC
   buffer |-> NewBuffer]         \* fReorderingBuffer

Init ==
  /\ sender = [sent |-> 0, ssrc |-> 1, base |-> SeqModulus - 3]
  /\ net = {}
  /\ tcp \in BOOLEAN
  /\ source = NewSource
  /\ given = <<>>
  /\ doubt = FALSE

(* A packet that processSpecialHeader refuses takes the mark of a loss with   *)
(* it, and if it is a fragment it is itself a loss that nothing marks.        *)
HidesLoss(b) ==
  LossPreceded(b) \/ ~(BeginsFrame(Head(b.list).n) /\ CompletesFrame(Head(b.list).n))

RejectedByHeader(w) ==
  [w EXCEPT !.src.buffer = ReleaseUsedPacket(GiveUpEarlier(@)),
            !.doubt = @ \/ HidesLoss(w.src.buffer)]

LossJustNow(s) ==   \* mutant: forgets a loss earlier in the frame
  ~BeginsFrame(Head(s.buffer.list).n) /\ LossPreceded(s.buffer)

(* In a frame of several packets, after a loss, until the next frame begins. *)
LossInFrame(s) ==
  ~BeginsFrame(Head(s.buffer.list).n) /\ (LossPreceded(s.buffer) \/ s.lossInFrame)

RejectedForLoss(w) ==
  [w EXCEPT !.src.buffer = ReleaseUsedPacket(GiveUpEarlier(@)), !.src.lossInFrame = TRUE]

(* What the frame consists of before this packet: data of a frame that was    *)
(* not received whole is forgotten when another begins.                       *)
KeptData(s) ==
  IF BeginsFrame(Head(s.buffer.list).n) /\ (LossPreceded(s.buffer) \/ s.lossInFrame)
  THEN <<>>
  ELSE s.frame

UsePacket(b) ==
  LET used == [b EXCEPT !.list[1].uses = @ + 1]
      head == Head(used.list)
  IN IF head.uses = FramesIn(head.n) THEN ReleaseUsedPacket(used) ELSE used

(* afterGetting is called directly when no packet is left in the list, and as *)
(* a task of the event loop otherwise.                                        *)
GiveFrame(w) ==
  IF w.src.buffer.list = <<>>
  THEN [w EXCEPT !.src.awaiting = FALSE, !.given = Append(@, w.src.frame)]
  ELSE [w EXCEPT !.src.afterGetting = TRUE]

UsedAlone(w) ==   \* mutant: a fragment ends the request
  LET head == Head(w.src.buffer.list)
      s == [w.src EXCEPT !.buffer = UsePacket(GiveUpEarlier(@)),
                         !.frame = Append(KeptData(w.src), <<head.n, head.uses + 1>>),
                         !.need = FALSE]
  IN IF CompletesFrame(head.n) THEN GiveFrame([w EXCEPT !.src = s]) ELSE [w EXCEPT !.src = s]

Used(w) ==
  LET head == Head(w.src.buffer.list)
      s == [w.src EXCEPT !.buffer = UsePacket(GiveUpEarlier(@)),
                         !.lossInFrame = FALSE,
                         !.frame = Append(KeptData(w.src), <<head.n, head.uses + 1>>),
                         !.need = ~CompletesFrame(head.n)]
  IN IF CompletesFrame(head.n) THEN GiveFrame([w EXCEPT !.src = s]) ELSE [w EXCEPT !.src = s]

(* One turn of the loop in doGetNextFrame1. *)
Turn(w, overdue, refused) ==
  LET head == Head(w.src.buffer.list)
  IN IF ~w.src.need \/ ~HasNext(w.src.buffer, overdue) THEN w
     ELSE IF head.uses = 0 /\ head.n \in refused THEN RejectedByHeader(w)
     ELSE IF LossInFrame(w.src) THEN RejectedForLoss(w)
     ELSE Used(w)

(* The loop after so many turns. *)
Turns(w, overdue, refused) ==
  LET turn[k \in 0..Len(w.src.buffer.list)] ==
        IF k = 0 THEN w ELSE Turn(turn[k - 1], overdue, refused)
  IN turn

(* Each turn releases a packet or completes the frame, or changes nothing. *)
DoGetNextFrame1(w, overdue, refused) ==
  Turns(w, overdue, refused)[Len(w.src.buffer.list)]

(* doGetNextFrame1 as it ends every handler, on the source as the handler     *)
(* left it.  The loop stops at the first packet behind a gap that is not      *)
(* overdue, so a number of packets at the head says as much as any set of     *)
(* overdue ones.  processSpecialHeader refuses one packet at most (bound).    *)
Deliver(s, d) ==
  \E overdue \in IF s.need THEN 0..Len(s.buffer.list) ELSE {0},
     refused \in {NoPacket} \cup {p.n : p \in {q \in Range(s.buffer.list) : s.need}} :
    LET late == {s.buffer.list[i].n : i \in 1..overdue}
        w == DoGetNextFrame1([src |-> s, given |-> given, doubt |-> d], late, {refused})
    IN source' = w.src /\ given' = w.given /\ doubt' = w.doubt

-----------------------------------------------------------------------------
(* The network.                                                            *)

SendPacket ==
  /\ sender.sent < MaxPackets
  /\ sender' = [sender EXCEPT !.sent = @ + 1]
  /\ net' = net \cup {[n |-> sender.sent + 1, ssrc |-> sender.ssrc,
                       seq |-> (sender.base + sender.sent + 1) % SeqModulus]}
  /\ UNCHANGED <<tcp, source, given, doubt>>

LosePacket ==
  /\ \E p \in net : net' = net \ {p}
  /\ UNCHANGED <<sender, tcp, source, given, doubt>>

(* The sender begins a stream of another SSRC, with a frame, after the        *)
(* network has delivered or lost all of the old one (bound: a late packet of  *)
(* the old SSRC would make the source change back).                           *)
RestartSender ==
  /\ net = {}
  /\ sender.ssrc = 1
  /\ \E jump \in -MaxJump..MaxJump, skip \in {k \in 1..4 : (sender.sent + k) % 4 = 0} :
       sender' = [sent |-> sender.sent + skip, ssrc |-> 2,
                  base |-> (sender.base + SeqModulus + jump) % SeqModulus]
  /\ UNCHANGED <<net, tcp, source, given, doubt>>

(* TCP delivers in order and once, UDP may deliver again what it delivered.   *)
Arrives(p, rest) ==
  tcp => (\A q \in net : p.n <= q.n) /\ rest = net \ {p}

-----------------------------------------------------------------------------
(* The source.                                                             *)

GetNextFrame ==
  /\ ~source.awaiting
  /\ Deliver([source EXCEPT !.awaiting = TRUE, !.reading = TRUE, !.frame = <<>>, !.need = TRUE],
             doubt)
  /\ UNCHANGED <<sender, net, tcp>>

(* A packet of another SSRC begins a new sequence, wherever the packets that  *)
(* are in the list came from.                                                 *)
NoteSSRC(s, p) ==
  IF p.ssrc = s.ssrc THEN s ELSE [s EXCEPT !.ssrc = p.ssrc, !.buffer.seen = FALSE]

Stored(s, p, saved) ==
  [NoteSSRC(s, p) EXCEPT
     !.buffer = StorePacket(@, [n |-> p.n, seq |-> p.seq, first |-> FALSE, uses |-> 0,
                                saved |-> saved]),
     !.partly = NoPacket]

MixesStreams(s, p) == p.ssrc # s.ssrc /\ s.buffer.list # <<>>

(* networkReadHandler1, a packet that is read at once. *)
ReadPacket ==
  /\ source.reading /\ source.partly = NoPacket
  /\ \E p \in net :
       /\ \E rest \in {net, net \ {p}} : Arrives(p, rest) /\ net' = rest
       /\ Deliver(Stored([source EXCEPT !.buffer = AfterGetFree(@)], p,
                         GetsSavedPacket(source.buffer)),
                  doubt \/ MixesStreams(source, p))
  /\ UNCHANGED <<sender, tcp>>

(* networkReadHandler1, a part of a packet over TCP ... *)
ReadPart ==
  /\ tcp /\ source.reading /\ source.partly = NoPacket
  /\ \E p \in net :
       /\ Arrives(p, net \ {p}) /\ net' = net \ {p}
       /\ source' = [source EXCEPT
                       !.partly = [packet |-> p, saved |-> GetsSavedPacket(source.buffer)],
                       !.buffer = AfterGetFree(@)]
  /\ UNCHANGED <<sender, tcp, given, doubt>>

(* ... and the rest of it. *)
ReadRest ==
  /\ source.reading /\ source.partly # NoPacket
  /\ Deliver(Stored(source, source.partly.packet, source.partly.saved),
             doubt \/ MixesStreams(source, source.partly.packet))
  /\ UNCHANGED <<sender, net, tcp>>

(* networkReadHandler1, a packet whose header is wrong or whose payload type  *)
(* is another one: it is freed again.                                         *)
ReadJunk ==
  /\ source.reading /\ source.partly = NoPacket
  /\ Deliver([source EXCEPT !.buffer = FreePacket(AfterGetFree(@),
                                                  [saved |-> GetsSavedPacket(@)])],
             doubt)
  /\ UNCHANGED <<sender, net, tcp>>

AfterGetting ==
  /\ source.afterGetting
  /\ source' = [source EXCEPT !.afterGetting = FALSE, !.awaiting = FALSE]
  /\ given' = Append(given, source.frame)
  /\ UNCHANGED <<sender, net, tcp, doubt>>

(* stopGettingFrames and doStopGettingFrames. *)
StopGettingFrames ==
  /\ source.reading
  /\ source' = [NewSource EXCEPT !.ssrc = source.ssrc,
                                 !.frame = source.frame,
                                 !.buffer = ResetBuffer(source.buffer)]
  /\ given' = <<>>
  /\ doubt' = FALSE
  /\ UNCHANGED <<sender, net, tcp>>

Next ==
  \/ SendPacket \/ LosePacket \/ RestartSender
  \/ GetNextFrame \/ ReadPacket \/ ReadPart \/ ReadRest \/ ReadJunk
  \/ AfterGetting \/ StopGettingFrames

Spec == Init /\ [][Next]_vars

-----------------------------------------------------------------------------
(* Properties.                                                             *)

StoredPacket ==
  [n : 1..MaxPackets, seq : 0..SeqModulus - 1, first : BOOLEAN, uses : {0, 1}, saved : BOOLEAN]

Piece == (1..MaxPackets) \X {1, 2}

(* Every member keeps to its type.                                            *)
TypeOK ==
  /\ sender \in [sent : 0..MaxPackets + 4, ssrc : {1, 2}, base : 0..SeqModulus - 1]
  /\ net \subseteq Packet
  /\ tcp \in BOOLEAN
  /\ source \in [reading : BOOLEAN, awaiting : BOOLEAN, need : BOOLEAN, afterGetting : BOOLEAN,
                 lossInFrame : BOOLEAN, frame : Seq(Piece),
                 partly : {NoPacket} \cup [packet : Packet, saved : BOOLEAN],
                 ssrc : {0, 1, 2},
                 buffer : [seen : BOOLEAN, expected : 0..SeqModulus - 1,
                           list : Seq(StoredPacket), saved : {"none", "free", "used"}]]
  /\ given \in Seq(Seq(Piece))
  /\ doubt \in BOOLEAN

(* The object fSavedPacket is in use exactly when it is in the list or being  *)
(* read into: no two packets share it, and it is never lost.                  *)
SavedPacketOnce ==
  LET holders == {i \in DOMAIN source.buffer.list : source.buffer.list[i].saved}
      reader == IF source.partly = NoPacket THEN FALSE ELSE source.partly.saved
  IN Cardinality(holders) + (IF reader THEN 1 ELSE 0)
       = IF source.buffer.saved = "used" THEN 1 ELSE 0

(* The list is in the order in which the packets were sent, across the        *)
(* wrap-around of sequence numbers, and the head is never behind the number   *)
(* expected: what the comment in getNextCompletedPacket asserts.              *)
ListInOrder ==
  LET list == source.buffer.list
  IN /\ SavedPacketOnce
     /\ ~doubt => /\ \A i \in 1..Len(list) - 1 : list[i].n < list[i + 1].n
                  /\ list # <<>> => ~SeqLT(Head(list).seq, source.buffer.expected)

(* The reader gets whole frames, with no piece of another one before, between *)
(* or after, each once and in the order in which they were sent: whatever was *)
(* lost, late or repeated, unless a loss was hidden from the code.            *)
FramesWholeInOrder ==
  ~doubt => /\ \A i \in DOMAIN given : IsWhole(given[i])
            /\ \A i \in 1..Len(given) - 1 : Comes(given[i], given[i + 1])
            /\ source.afterGetting => IsWhole(source.frame)

(* A reader that awaits a frame either has one on its way to it, or waits for *)
(* a packet that is missing: a packet that could be used is never left.       *)
WaitsOnlyForMissing ==
  /\ source.awaiting <=> source.need \/ source.afterGetting
  /\ ~(source.need /\ source.afterGetting)
  /\ source.need /\ source.buffer.list # <<>> =>
       Head(source.buffer.list).seq # source.buffer.expected
=============================================================================
