---------------------------- MODULE RTPInterface ----------------------------
(***************************************************************************)
(* RTPInterface.cpp: RTP and RTCP packets over the TCP sockets of RTSP     *)
(* connections, in between the requests.                                   *)
(*                                                                         *)
(* Every track has an RTP interface, which only sends, and an RTCP one,    *)
(* which also reads, and all clients of the track share them.  A socket    *)
(* with streams has a SocketDescriptor that reads it a byte at a time and  *)
(* hands requests on to the RTSP connection; a socket without is read by   *)
(* the connection itself.  What the server asks of the interfaces when it  *)
(* starts and ends streams is in OnDemandServerMediaSubsession.cpp.        *)
(*                                                                         *)
(* Each track has channel ids of its own on every socket, and an           *)
(* interface stands for its channel id.                                    *)
(***************************************************************************)
EXTENDS Integers

CONSTANTS
  Sockets,       \* numbers of TCP sockets
  Tracks,        \* tracks, each shared by all clients
  PacketSize,    \* bound: bytes of data in a packet
  NoSocket,      \* socket number -1
  NoDescriptor,  \* a NULL SocketDescriptor*
  NoChannel      \* no channel id

ASSUME PacketSizeAssumption == PacketSize \in Nat \ {0}
ASSUME NamesAssumption == NoSocket \notin Sockets

Interfaces == Tracks \X {"rtp", "rtcp"}

Rtp(t) == <<t, "rtp">>
Rtcp(t) == <<t, "rtcp">>

(* The interfaces that have a fReadHandlerProc. *)
Reads(i) == i[2] = "rtcp"

States == {"dollar", "channel", "size1", "size2", "data"}

Channel == Interfaces \cup {NoChannel}

(* SocketDescriptor: fSubChannelHashTable, whether it has a                   *)
(* fServerRequestAlternativeByteHandler, fTCPReadingState, fStreamChannelId,  *)
(* fDeleteMyselfNext, fReadErrorOccurred.                                     *)
Descriptor ==
  [channels : SUBSET Interfaces, alternative : BOOLEAN, at : States, ch : Channel,
   dying : BOOLEAN, error : BOOLEAN]

ASSUME NoDescriptorAssumption == NoDescriptor \notin Descriptor

VARIABLES
  server,   \* what the program knows: see Init
  client,   \* for each socket, which byte the client's next one is
  lost      \* history: the sockets whose bytes the program has lost track of

vars == <<server, client, lost>>

(* The client's next byte begins a request or a packet. *)
Between == [at |-> "dollar", ch |-> NoChannel, left |-> 0]

Init ==
  /\ server = [open |-> {},                                \* sockets of RTSP connections
               handler |-> [s \in Sockets |-> "none"],     \* the event loop's socket handler
               descriptor |-> [s \in Sockets |-> NoDescriptor],
               streams |-> [i \in Interfaces |-> {}],      \* fTCPStreams
               next |-> [i \in Interfaces |-> [size |-> 0, sock |-> NoSocket]],
                                            \* fNextTCPReadSize, fNextTCPReadStreamSocketNum
               inLoop |-> NoSocket,                        \* fAreInReadHandlerLoop
               cleared |-> {}]    \* history: endPlaying cleared the handler of requests
  /\ client = [s \in Sockets |-> Between]
  /\ lost = {}

-----------------------------------------------------------------------------
(* Operations of SocketDescriptor and RTPInterface on the server's state w. *)

NewDescriptor ==
  [channels |-> {}, alternative |-> FALSE, at |-> "dollar", ch |-> NoChannel,
   dying |-> FALSE, error |-> FALSE]

(* Mutant: the connection is told of errors only. *)
DeleteSilently(w, s) ==
  LET d == w.descriptor[s]
  IN [w EXCEPT !.descriptor[s] = NoDescriptor,
               !.streams = [i \in Interfaces |-> IF i \in d.channels THEN @[i] \ {s} ELSE @[i]],
               !.handler[s] = "none",
               !.open = IF d.alternative /\ d.error THEN @ \ {s} ELSE @]

(* ~SocketDescriptor.  The connection gets 0xFF after an error, on which it   *)
(* goes away (its streams over the socket are gone already), or else 0xFE, on *)
(* which it reads the socket itself again.                                    *)
DeleteDescriptor(w, s) ==
  LET d == w.descriptor[s]
      taken == IF ~d.alternative \/ d.error THEN "none" ELSE "rtsp"
  IN [w EXCEPT !.descriptor[s] = NoDescriptor,
               !.streams = [i \in Interfaces |-> IF i \in d.channels THEN @[i] \ {s} ELSE @[i]],
               !.handler[s] = taken,
               !.open = IF d.alternative /\ d.error THEN @ \ {s} ELSE @]

RegisterRTPInterface(w, s, i) ==
  LET d == IF w.descriptor[s] = NoDescriptor THEN NewDescriptor ELSE w.descriptor[s]
  IN [w EXCEPT !.descriptor[s] = [d EXCEPT !.channels = @ \cup {i}],
               !.handler[s] = IF d.channels = {} THEN "tcp" ELSE @]

(* The interfaces gone are deregistered, one after the other.  A descriptor   *)
(* whose last channel goes is deleted, but not while its own loop has called  *)
(* what led here.                                                             *)
DeregisterRTPInterface(w, s, gone) ==
  LET d == [w.descriptor[s] EXCEPT !.channels = @ \ gone]
  IN IF w.descriptor[s] = NoDescriptor THEN w
     ELSE IF d.channels # {} THEN [w EXCEPT !.descriptor[s] = d]
     ELSE IF w.inLoop = s THEN [w EXCEPT !.descriptor[s] = [d EXCEPT !.dying = TRUE]]
     ELSE DeleteDescriptor([w EXCEPT !.descriptor[s] = d], s)

AddStreamSocket(w, i, s) ==
  IF s \in w.streams[i] THEN w
  ELSE RegisterRTPInterface([w EXCEPT !.streams[i] = @ \cup {s}], s, i)

(* Mutant: the record goes, the channel stays. *)
RemoveRecord(w, those, s) ==
  [w EXCEPT !.streams = [i \in Interfaces |-> IF i \in those THEN @[i] \ {s} ELSE @[i]]]

(* Those interfaces forget the socket, one after the other.                   *)
RemoveStreamSocket(w, those, s) ==
  LET gone == {i \in those : s \in w.streams[i]}
  IN IF gone = {} THEN w
     ELSE DeregisterRTPInterface(
            [w EXCEPT !.streams = [i \in Interfaces |-> IF i \in gone THEN @[i] \ {s} ELSE @[i]]],
            s, gone)

SetAlternativeByteHandler(w, s) ==
  IF w.descriptor[s] = NoDescriptor THEN w
  ELSE [w EXCEPT !.descriptor[s].alternative = TRUE, !.cleared = @ \ {s}]

ClearAlternativeByteHandler(w, s) ==
  IF w.descriptor[s] = NoDescriptor THEN w
  ELSE [w EXCEPT !.descriptor[s].alternative = FALSE, !.cleared = @ \cup {s}]

(* ~RTPInterface, with stopNetworkReading: what is done to each socket of the *)
(* list is the same whatever is done to the others.                           *)
DeleteInterface(w, i) ==
  LET After(s) == IF s \in w.streams[i] THEN DeregisterRTPInterface(w, s, {i}) ELSE w
  IN [w EXCEPT !.descriptor = [s \in Sockets |-> After(s).descriptor[s]],
               !.handler = [s \in Sockets |-> After(s).handler[s]],
               !.open = {s \in @ : s \in After(s).open},
               !.streams = [j \in Interfaces |->
                              IF j = i THEN {} ELSE {s \in @[j] : s \in After(s).streams[j]}],
               !.next[i] = [size |-> 0, sock |-> NoSocket]]

(* Mutant: the flag is reset only in a descriptor that goes. *)
EndLoopOfDying(w, s) ==
  IF w.descriptor[s] # NoDescriptor /\ w.descriptor[s].dying
  THEN DeleteDescriptor([w EXCEPT !.inLoop = NoSocket], s) ELSE w

(* The end of tcpReadHandler. *)
EndLoop(w, s) ==
  LET v == [w EXCEPT !.inLoop = NoSocket]
  IN IF v.descriptor[s] # NoDescriptor /\ v.descriptor[s].dying THEN DeleteDescriptor(v, s) ELSE v

-----------------------------------------------------------------------------
(* What the server does with a stream over TCP. *)

StartPlaying(w, t, s) ==
  AddStreamSocket(SetAlternativeByteHandler(AddStreamSocket(w, Rtp(t), s), s), Rtcp(t), s)

(* It ends for the tracks ended, one after the other.                         *)
EndPlaying(w, ended, s) ==
  RemoveStreamSocket(ClearAlternativeByteHandler(w, s), ended \X {"rtp", "rtcp"}, s)

Reclaim(w, t) == DeleteInterface(DeleteInterface(w, Rtcp(t)), Rtp(t))

(* The connection is deleted, after its streams over the socket. *)
CloseConnection(w, s) ==
  LET used == {t \in Tracks : s \in w.streams[Rtp(t)] \cup w.streams[Rtcp(t)]}
      ended == IF used = {} THEN w ELSE EndPlaying(w, used, s)
  IN [ended EXCEPT !.open = @ \ {s}, !.handler[s] = "none"]

(* What a request on s may lead to: PLAY, TEARDOWN, a SETUP of a track that   *)
(* streams already, to be played at once, or the end of the connection.       *)
Requested(w, s) ==
  {StartPlaying(w, t, s) : t \in Tracks} \cup {EndPlaying(w, {t}, s) : t \in Tracks}
    \cup {StartPlaying(EndPlaying(w, {t}, s), t, s) : t \in Tracks} \cup {CloseConnection(w, s)}

-----------------------------------------------------------------------------
(* The client's side of a socket, and when the program has lost track of it.  *)

(* The byte after the one that the client is at. *)
Following(c) ==
  CASE c.at = "channel" -> [c EXCEPT !.at = "size1"]
    [] c.at = "size1"   -> [c EXCEPT !.at = "size2"]
    [] c.at = "size2"   -> [c EXCEPT !.at = "data", !.left = PacketSize]
    [] OTHER            -> c

(* n bytes were read from s as data of a packet. *)
AfterData(c, n) ==
  IF c.left > n THEN [c EXCEPT !.left = @ - n] ELSE Between

(* A packet is cut when its channel or the descriptor goes in the middle of   *)
(* it: what is left of it will be taken for requests and other packets.       *)
CutOff(w, c) ==
  {s \in Sockets : /\ c[s].at # "dollar"
                   /\ w.descriptor[s] # NoDescriptor => /\ c[s].at # "channel"
                                                        /\ c[s].ch \notin w.descriptor[s].channels}

(* The new state after a step, in which the sockets in astray get lost too. *)
Becomes(w, c, astray) ==
  /\ server' = w
  /\ lost' = (lost \cup astray \cup CutOff(w, c)) \cap w.open
  /\ client' = [s \in Sockets |-> IF s \in lost' \/ s \notin w.open THEN Between ELSE c[s]]

-----------------------------------------------------------------------------
(* tcpReadHandler: each step is one call of tcpReadHandler1 in its loop, for  *)
(* the next bytes may come at any time.  What a lost socket says is anything. *)

CanRead(s, state) ==
  /\ s \in server.open /\ server.handler[s] = "tcp"
  /\ server.descriptor[s].at = state

ReadDollar(s) ==
  /\ CanRead(s, "dollar")
  /\ \E i \in Interfaces :
       Becomes([server EXCEPT !.descriptor[s].at = "channel"],
               [client EXCEPT ![s] = [at |-> "channel", ch |-> i, left |-> 0]], {})

(* The last byte of a request, or of what looks like one. *)
ReadRequest(s) ==
  /\ CanRead(s, "dollar")
  /\ server.descriptor[s].alternative
  /\ \E w \in Requested([server EXCEPT !.inLoop = s], s) : Becomes(EndLoop(w, s), client, {})

ReadChannelId(s) ==
  /\ CanRead(s, "channel")
  /\ \E i \in Interfaces :
       /\ s \notin lost => i = client[s].ch
       /\ IF i \in server.descriptor[s].channels
          THEN Becomes([server EXCEPT !.descriptor[s].at = "size1", !.descriptor[s].ch = i],
                       [client EXCEPT ![s] = Following(@)], {})
          ELSE Becomes([server EXCEPT !.descriptor[s].at = "dollar"], client, {s})

ReadSize1(s) ==
  /\ CanRead(s, "size1")
  /\ Becomes([server EXCEPT !.descriptor[s].at = "size2"],
             [client EXCEPT ![s] = Following(@)], {})

(* Other sockets at a packet for the same interface, whose count of bytes     *)
(* left is now that of s.  One that reads by itself without a handler counts  *)
(* down for both, even when its packet is complete.                           *)
Overtaken(s, i) ==
  LET others == {o \in Sockets \ {s} : /\ server.descriptor[o] # NoDescriptor
                                       /\ server.descriptor[o].at = "data"
                                       /\ server.descriptor[o].ch = i}
  IN IF Reads(i) THEN {o \in others : client[o].at = "data"}
     ELSE IF others = {} THEN {} ELSE others \cup {s}

ReadSize2(s) ==
  /\ CanRead(s, "size2")
  /\ LET i == server.descriptor[s].ch
         known == i \in server.descriptor[s].channels
     IN Becomes([server EXCEPT !.descriptor[s].at = "data",
                               !.next[i] = IF known THEN [size |-> PacketSize, sock |-> s] ELSE @],
                [client EXCEPT ![s] = Following(@)],
                IF known THEN Overtaken(s, i) ELSE {})

(* Mutant: the data is taken to come all at once. *)
LeavePacketAnyway(s) ==
  /\ CanRead(s, "data")
  /\ Becomes([server EXCEPT !.descriptor[s].at = "dollar"], client, {})

(* AWAITING_PACKET_DATA: no interface, or nothing of the packet left. *)
LeavePacket(s) ==
  /\ CanRead(s, "data")
  /\ LET i == server.descriptor[s].ch
     IN i \notin server.descriptor[s].channels \/ server.next[i].size = 0
  /\ Becomes([server EXCEPT !.descriptor[s].at = "dollar"], client, {})

AtData(s) ==
  /\ CanRead(s, "data")
  /\ server.descriptor[s].ch \in server.descriptor[s].channels
  /\ server.next[server.descriptor[s].ch].size > 0

(* The handler calls handleRead, which reads from the socket that the header  *)
(* of a packet for this interface came from last.                             *)
HandleRead(s) ==
  /\ AtData(s)
  /\ LET i == server.descriptor[s].ch
         from == server.next[i].sock
     IN /\ Reads(i) /\ from # NoSocket
        /\ \E n \in 1..server.next[i].size :
             LET rest == server.next[i].size - n
                 data == from \notin lost /\ client[from].at = "data" /\ client[from].ch = i
             IN /\ from \in server.open
                /\ data => n <= client[from].left
                /\ Becomes([server EXCEPT !.next[i] = [size |-> rest,
                                                       sock |-> IF rest = 0 THEN NoSocket ELSE @.sock]],
                           [client EXCEPT ![from] = AfterData(@, n)],
                           IF data THEN {} ELSE {from})

(* handleRead, when reading fails: the descriptor is not told. *)
HandleReadFails(s) ==
  /\ AtData(s)
  /\ LET i == server.descriptor[s].ch
     IN /\ Reads(i) /\ server.next[i].sock # NoSocket
        /\ Becomes([server EXCEPT !.next[i].sock = NoSocket], client, {server.next[i].sock, s})

(* There is no handler: a byte is skipped. *)
SkipData(s) ==
  /\ AtData(s)
  /\ LET i == server.descriptor[s].ch
     IN /\ ~Reads(i)
        /\ Becomes([server EXCEPT !.next[i].size = @ - 1],
                   [client EXCEPT ![s] = AfterData(@, 1)], {})

ReadError(s) ==
  /\ s \in server.open /\ server.handler[s] = "tcp"
  /\ LET d == server.descriptor[s]
     IN d.at # "data" \/ (AtData(s) /\ ~Reads(d.ch))
  /\ Becomes(DeleteDescriptor([server EXCEPT !.descriptor[s].error = TRUE], s), client, {})

-----------------------------------------------------------------------------
(* The rest of the server. *)

Accept(s) ==
  /\ s \notin server.open /\ server.descriptor[s] = NoDescriptor
  /\ Becomes([server EXCEPT !.open = @ \cup {s}, !.handler[s] = "rtsp",
                            !.cleared = @ \ {s}],
             client, {})

(* A request that the connection reads itself. *)
RequestWithoutStreams(s) ==
  /\ server.handler[s] = "rtsp"
  /\ \E w \in Requested(server, s) : Becomes(w, client, {})

(* A session ends by a timeout or by a request on another connection. *)
SessionEnds(t, s) ==
  /\ s \in server.open
  /\ Becomes(EndPlaying(server, {t}, s), client, {})

(* The source of a track ends. *)
SourceEnds(t) ==
  Becomes(Reclaim(server, t), client, {})

(* sendPacket when a socket fails: before the first byte of the packet, or in *)
(* the middle of it, when it stays blocked for too long.  This interface      *)
(* forgets the socket; nobody keeps in mind that a part of a packet is there. *)
SendFails(i, s) ==
  /\ s \in server.streams[i]
  /\ Becomes(RemoveStreamSocket(server, {i}, s), client, {})

Next ==
  \/ \E s \in Sockets :
       \/ ReadDollar(s) \/ ReadRequest(s) \/ ReadChannelId(s) \/ ReadSize1(s) \/ ReadSize2(s)
       \/ LeavePacket(s) \/ HandleRead(s) \/ HandleReadFails(s) \/ SkipData(s) \/ ReadError(s)
       \/ Accept(s) \/ RequestWithoutStreams(s)
       \/ \E t \in Tracks : SessionEnds(t, s)
       \/ \E i \in Interfaces : SendFails(i, s)
  \/ \E t \in Tracks : SourceEnds(t)

Spec == Init /\ [][Next]_vars

-----------------------------------------------------------------------------
(* Properties.                                                             *)

(* Every member keeps to its type, and between steps no loop is running.      *)
TypeOK ==
  /\ server.open \subseteq Sockets
  /\ server.handler \in [Sockets -> {"none", "rtsp", "tcp"}]
  /\ server.descriptor \in [Sockets -> Descriptor \cup {NoDescriptor}]
  /\ server.streams \in [Interfaces -> SUBSET Sockets]
  /\ server.next \in [Interfaces -> [size : 0..PacketSize, sock : Sockets \cup {NoSocket}]]
  /\ server.inLoop = NoSocket
  /\ server.cleared \subseteq Sockets
  /\ client \in [Sockets -> [at : States, ch : Channel, left : 0..PacketSize]]
  /\ lost \subseteq Sockets

(* The list of streams of each interface, the table of channels of each       *)
(* socket and the event loop's handlers say the same, and no descriptor that  *)
(* is to be deleted is left behind.                                           *)
StreamsAgree ==
  \A s \in Sockets :
    LET d == server.descriptor[s]
    IN IF d = NoDescriptor
       THEN server.handler[s] # "tcp" /\ \A i \in Interfaces : s \notin server.streams[i]
       ELSE /\ s \in server.open /\ server.handler[s] = "tcp"
            /\ ~d.dying /\ d.channels # {}
            /\ \A i \in Interfaces : s \in server.streams[i] <=> i \in d.channels

(* The descriptor takes requests for requests and packets for packets: it is  *)
(* at the same place in the client's bytes as the client, however they are    *)
(* cut, and on whatever sockets packets for the same interface come, until a  *)
(* packet is cut off, overtaken by another or for nobody.                     *)
InStep ==
  \A s \in server.open \ lost :
    LET d == server.descriptor[s]
        c == client[s]
    IN IF d = NoDescriptor THEN c.at = "dollar"
       ELSE IF d.at # "data" THEN d.at = c.at /\ (d.at \in {"size1", "size2"} => d.ch = c.ch)
       ELSE LET n == server.next[d.ch]
            IN IF c.at = "data" THEN n = [size |-> c.left, sock |-> s] /\ d.ch = c.ch
               ELSE c.at = "dollar" /\ (n.size = 0 \/ (Reads(d.ch) /\ n.sock # s))

(* Requests reach the connection: it reads the socket itself as long as there *)
(* is no descriptor, and gets them from the descriptor otherwise, unless      *)
(* endPlaying has cleared its handler since the last stream was started.      *)
RequestsHeard ==
  \A s \in server.open \ server.cleared :
    IF server.descriptor[s] = NoDescriptor THEN server.handler[s] = "rtsp"
    ELSE server.descriptor[s].alternative
=============================================================================
