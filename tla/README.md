# A TLA+ model of the live555 streaming server

This directory specifies, model-checks and in part proves the control logic of
the RTSP media server in this repository (`src/mediaServer` on top of
`src/liveMedia`, `src/BasicUsageEnvironment`, `src/groupsock`), and of the
client's side of the same library: RTSP requests and the reception of RTP.

- [The system](#the-system): inventory of components, state, interactions, hazards
- [The modules](#the-modules): how state and actions correspond to the code
- [The runs](#the-runs): what is checked, bounds, fairness, findings
- [The proofs](#the-proofs)
- [What is not modelled](#what-is-not-modelled)
- [Plan](#plan)

`PROJECT.json` has the same information for tools: components, runs, the lines
of code each definition stands for, hazards, findings, theorems, and for each
property a plausible bug of the code that breaks it (the operators marked
*Mutant* in the modules).

## The system

One process, one thread: the *event loop* (`BasicTaskScheduler0::doEventLoop`)
calls `SingleStep` for ever. A step waits in `select()` for at most the time to
the next alarm, runs at most one socket handler, one triggered event and one
alarm. Everything else is a call-back from there. Two things make this harder
than a sequential program. Handlers may run the event loop again (DESCRIBE
does, to obtain a SDP description, and the file demultiplexers do), and objects
are called back from the middle of their own functions, with the possibility
that the call changes or deletes them. Only event triggers are touched by other
threads.

| Component | State | Operations | Interacts with |
|---|---|---|---|
| **Delay queue** (`DelayQueue.cpp`, `BasicTaskScheduler0.cpp`) | delta list of alarms, last synchronization, token counter | schedule, unschedule, reschedule, time to the next alarm, handle an alarm | calls every timer of the system: liveness, packet pacing, RTCP, retries |
| **Event loop** (`BasicTaskScheduler.cpp`, `BasicTaskScheduler0.cpp`) | socket handlers, trigger mask, positions of the two round robins | set/move/disable handlers, create/delete/trigger events, `SingleStep` | other threads set the trigger mask |
| **Media server tables** (`GenericMediaServer.cpp`, `ServerMediaSession.hh`, `DynamicRTSPServer.cpp`) | table of streams by name, reference count and deletion mark of each, client sessions, connections | add, remove, close sessions of, delete a stream; look up; begin and end a session; liveness timeout; cleanup | reads the file system; DESCRIBE re-enters the event loop |
| **RTSP client sessions** (`RTSPServer.cpp`) | per session and track: subsession, stream token, TCP socket; database of sockets that carry streams | SETUP, PLAY, PAUSE, TEARDOWN, connection closed, session destroyed | calls the subsessions; destroyed by liveness timers and connections |
| **On-demand streams** (`OnDemandServerMediaSubsession.cpp`) | per track: stream states with reference count, destinations of clients, last stream token | get parameters, start, pause, seek, delete a stream; the source ends | RTP sinks, RTCP report handlers, destinations of sockets |
| **Stream replicator** (`StreamReplicator.cpp`) | master, lists that wait for the current and the next frame, counters, parity of the frame | create, ask, stop, delete a replica; frame arrives; source closes | one `FramedSource` below, several readers above, all reentrant |
| **Packet reordering** (`MultiFramedRTPSource.cpp`) | list of packets, next expected sequence number, saved packet, SSRC; the frame being put together | a packet comes, whole or in part; a frame is asked for; stop | network below (`RTPInterface`), one reader above |
| **RTP over TCP** (`RTPInterface.cpp`) | socket descriptors with channel tables and the state of the `$` framing, deferred deletion; per interface its streams and what is left of the packet being read | register, deregister, read handler, send | the RTSP connection of the same socket; on-demand streams; RTCP |
| **RTP sending** (`MultiFramedRTPSink.cpp`, `MediaSink.cpp`) | outgoing packet buffer with overflow data, fragmentation offset, next send time | start, build a packet, pack a frame, send, stop, end of the source | delay queue, sources, payload formats (subclasses) |
| **RTCP** (`RTCP.cpp`) | members, report handlers, schedule | report, BYE, reap, handlers set and unset | sessions' liveness |
| **RTSP client** (`RTSPClient.cpp`) | queues of requests that wait for a connection, or for a response; the response buffer; the socket | send a command, connection made or failed, bytes come, read error | the application's handlers, the server at the other end |
| **Capture queue** (`CycleQueue.cpp`, `UsageVideoSource.cpp`) | ring of frames, head, tail, a lock | push, get, clear, destroy | nothing in the repository uses it |
| **Proxy, SIP client** | requests in flight, retries | | not used by this server |
| **Formats, framers, packetizers** | parse positions | | data transformations |

### What is hard, and what makes each component correct

- **Delay queue.** Handlers schedule, cancel and reschedule tasks, themselves
  included, while they run; the wall clock may be set back; each entry stores
  only the distance to its predecessor, so that a mistake with one moves all
  behind it. Correct: an alarm is linked once and not while its handler runs;
  none goes off early; none is late except by what the clock lost; alarms go
  off in the order of their due times, equal ones first come first served; each
  one ends.
- **Media server tables.** Streams are removed or replaced while sessions use
  them and while DESCRIBEs are unfinished. Correct: reference counts are exact;
  a removed stream lives exactly as long as it is used; existing sessions keep
  theirs; new sessions get the current file.
- **RTSP sessions and on-demand streams.** A stream is given back on six
  different paths, and may be shared. Correct: the count equals the holders;
  packets go only to holders and only where they asked for them; reports are
  credited to live sessions; the database of sockets matches the sessions; one
  client's requests never stop another's stream; a shared track has one source.
- **Stream replicator.** Readers act in the middle of the function that calls
  them; the master may leave while its buffer is written. Correct: every
  request is in one place where it is served; the source writes only to a
  waiting master; frames come in order; every request is answered.
- **Event loop.** Whatever is called may change the set of handlers that
  `SingleStep` walks, and the round robins start from a socket or trigger that
  may be gone; another thread writes the trigger mask without a lock. Correct:
  no ready socket and no event waits for ever; `select()` is asked about every
  socket that has a handler.
- **Packet reordering.** Packets are lost, repeated and late across the
  wrap-around of 16-bit numbers; frames are parts of packets and packets parts
  of frames; over TCP a packet may come in parts. Correct: the list is in order
  and ahead of the number that is expected; the reader gets whole frames, in
  order, each once; it waits only while something is missing.
- **RTP over TCP.** Requests and packets share a stream of bytes that the network
  cuts anywhere; a request may end the streams, and with them the descriptor, of
  the loop that reads it; sends fail in the middle. Correct: the tables of
  sockets, interfaces and the event loop agree; no byte of a packet is taken for
  a request or the other way round; the server goes on hearing requests.
- **RTP sending.** Frames are kept in the buffer across packets while the places
  of both move; a frame may take several packets and a packet several frames, as
  the payload format allows; a sink is stopped and started anywhere. Correct: no
  byte is overwritten, repeated or lost; each fragment's header says where in its
  frame it belongs; everything the source gave is sent.
- **RTSP client.** Requests are pipelined and repeated with new numbers while
  responses come several at a time and in part. Correct: each handler is called
  once, about its own request, in the end.

## The modules

| Module | Models | Depends on |
|---|---|---|
| `AlarmClock` | abstract: what `scheduleDelayedTask` promises (`UsageEnvironment.hh`) | |
| `DelayQueue` | the delta list and the loop's use of it | instantiates `AlarmClock` |
| `DelayQueueProofs` | theorems about `DelayQueue` | extends it and TLAPS |
| `MediaServer` | tables, reference counts, lookup, sessions | |
| `MediaServerProofs` | theorems about `MediaServer` | extends it and TLAPS |
| `RTSPServer`, `MCRTSPServer` | client sessions and on-demand streams; symmetry for TLC | |
| `RTSPServerProofs` | theorems about `RTSPServer` | extends it and TLAPS |
| `StreamReplicator` | replicator, replicas, their readers and the source | |
| `StreamReplicatorProofs` | theorems about `StreamReplicator` | extends it and TLAPS |
| `EventLoop` | `SingleStep`: socket handlers, event triggers and the other thread | |
| `EventLoopProofs` | theorems about `EventLoop` | extends it and TLAPS |
| `ReorderingPacketBuffer` | the class of that name, as operators on a record | |
| `MultiFramedRTPSource` | sender, network, source and reader around it | extends `ReorderingPacketBuffer` |
| `MultiFramedRTPSourceProofs` | theorems about both | extends `MultiFramedRTPSource` and TLAPS |
| `MultiFramedRTPSink`, `MCMultiFramedRTPSink` | the sink with its `OutPacketBuffer`; payload formats for TLC | |
| `MultiFramedRTPSinkProofs` | theorems about `MultiFramedRTPSink` | extends it and TLAPS |
| `RTPInterface` | socket descriptors, interfaces, and what the server asks of them | |
| `RTPInterfaceProofs` | theorems about `RTPInterface` | extends it and TLAPS |
| `RTSPClient` | requests, connection and responses, with a server | |

### DelayQueue

`queue` is the linked list without its sentinel, each record a token and
`fDeltaTimeRemaining`. `lag` is the system clock minus `fLastSyncTime`, the only
thing about absolute time that the code looks at; it is negative after the clock
was set back. `Insert`, `RemoveEntry` and `Elapse` are the loops of `addEntry`,
`removeEntry` and `synchronize`, written with `Passed`, the number of entries a
loop steps over. Each action is a whole call: `ScheduleDelayedTask` and
`UpdateEntry` synchronize before they insert, `HandleAlarm` and
`TimeToNextAlarm` synchronize unless the head is due. `running` is the stack of
handlers, so that everything a handler may do, including running the loop again,
is just another action while the stack is not empty. `Tick` and `ClockSetBack`
are the environment. `left`, `since`, `stamps` and `lost` are ghosts: true time
left of each delay, order of setting, and what the clock lost.

`ImplementsAlarmClock` is the refinement: with the queue's tokens as pending
alarms and the ghosts as countdowns, every step is one of the abstract clock's
(a synchronization is a stutter).

### MediaServer

`catalog` joins the table `fServerMediaSessions`, the allocated
`ServerMediaSession` objects (name, `fReferenceCount`,
`fDeleteWhenUnreferenced`, and the version of the file they were made from) and
a counter that gives each object an identity that is never reused, so that a
dangling pointer would show. `sessions` is `fOurServerMediaSession` of each
client session. `describing` is the stack of unfinished DESCRIBEs:
`handleCmd_DESCRIBE` is cut at `generateSDPDescription`, which may run the event
loop, into `Describe` and `Described`. `ReloadsFiles` selects
`DynamicRTSPServer`'s lookup, or that of the base class, where only the
program's owner adds and removes streams. `FallsSilent` marks clients nobody
will hear from again.

### RTSPServer

`sessions` holds `fStreamStates` of each client session. `subsession` holds, for
each track, its stream states (reference count, playing, source running, source
exhausted, torn down by `reclaim`, destinations, RTCP report handlers),
`fLastStreamToken` and `fDestinationsHashTable`. `noted` is
`fTCPStreamingDatabase`, a bag for each socket because the code's records may
repeat. `open` is the set of connections. `Setup`, `Play`, `Pause` and
`Teardown` are the handlers with all they call; `EndSession` is the destructor
with `reclaimStreamStates`; `ConnectionCloses` is
`stopTCPStreamingOnSocket` with the deletions it causes; `SourceEnds` is
`afterPlayingStreamState`. Ghost: `reply`, the place the last SETUP's answer
announced. Operators of the same shape as the code's methods
(`GetStreamParameters`, `StartStream`, `PauseStream`, `SeekStream`,
`DeleteStream`, `NoteTCPStreaming`, `UnnoteTCPStreaming`) act on the records.

Two SETUPs of one session are taken to name different interleaved channels, as
clients do, and so are two sessions of one connection: destinations and report
handlers over TCP are told apart by socket and session, where the code has socket
and channel ids (`OnDemandServerMediaSubsession.cpp:522-531`, `:586-590`). Sessions that
share both, as by the default ids they may, would disturb one another; `Undisturbed`
and `OnlySetUpDestinations` are not about them. A PLAY straight after SETUP is a SETUP
and a PLAY. The unused rest of a track's state after its TEARDOWN is not kept, because
nothing reads it.

### StreamReplicator

`replicator` and `replica` are the members of the classes; the lists
`fReplicasAwaitingCurrentFrame` and `...NextFrame` are sequences in the order of
the pointers. Reentrancy is explicit: each function is cut at the calls it makes
to a reader or to the source, and `stack` holds what remains to be done by the
functions in progress, with a `reader` entry for a reader that has been called
and a `source` entry for a source that may answer before `getNextFrame`
returns. A reader that is called does one thing with its own replica or returns.
Whoever is told of the end of the source does not ask again at once (it would
be told again, for ever).

Frames are told apart by their age (0: the newest, up to `Older`), which is all
that order and duplication depend on. `Older = 2` loses nothing that
`FramesInOrder` looks at: a reader that got a frame two frames ago may get any
that came since. `abandoned` is a ghost: a frame was lost with the master that
had it, the case that the code calls very rare and accepts.

`StopsInside = TRUE` lets a reader that is called stop or delete its replica
although the calling function has more to do; with `FALSE` it may do so only
when nothing waits below it on the stack, and may ask for the next frame in
either case.

### EventLoop

`socks` joins the handler list in its order (new ones at the head), the three
`fd_set`s as one set of pairs, and `fMaxNumSockets`. `ready` is what `select()`
would report; a handler takes all that its socket has. `WalkOrder` is the order
in which the two loops of `SingleStep` look at handlers, and `RoundRobin` the
order of triggers. A `select()` that a signal interrupts leaves its sets as they were, and
the code goes on with them, so that any handler may be called although its socket is
not ready (`Reports`). `loop` is where the event loop is. A change of the trigger
mask is two steps, a read (kept in `seen`) and a write, in the loop as well as in
the other thread, so that writes get lost as they may in the program; `owed` is
a ghost with the events triggered that were not handled, given up with their
trigger, or overwritten. What a handler or a delayed task may do is a set
(`SocketChanges`, `ChangeMask`, `Create`). Sockets and triggers share nothing but
the loop's order, so a behaviour exercises either (`scenario`).

### ReorderingPacketBuffer and MultiFramedRTPSource

The buffer is a record (`fHaveSeenFirstPacket`, the expected number, the list,
and where `fSavedPacket` is); each method is an operator on it. Sequence numbers
are modulo `SeqModulus`, with `SeqLT` as in `seqNumLT`. In `Turn`, one turn of
the loop of `doGetNextFrame1`, the cases follow the code: refused by
`processSpecialHeader`, unusable after a loss, used. `Deliver` is the whole call
at the end of every handler; for how many packets at the head the threshold has
passed, and which one is refused, is free. The loop itself is the recursive function
`Turns`: each turn releases a packet, completes the frame or finds nothing to do, so
that as many turns as there are packets are all. The sender's packets have a pattern
of four: two frames in one, and then one frame in three. A second SSRC begins when
the network has nothing of the first any more; late packets of the first, which
flip `fLastReceivedSSRC` back (lines 308-313), are left out. Ghosts: `given`, and
`doubt`, set when a new SSRC begins while packets of the old one wait and when a
refused packet hides a loss.

### MultiFramedRTPSink

`out` is the `OutPacketBuffer`, a record with the memory (a function from
positions to bytes, a byte being its frame and its place in it) and the offsets of
the class; each method is an operator on it. `packed` has, for each frame used so
far (`fNumFramesUsedSoFar` is its length), what `doSpecialFrameHandling` was told, and
`headerSizes` is `fTotalFrameSpecificHeaderSizes`, from which the octet count
(`BytesPacked`) is computed as the code does it.
`format` is what a subclass redefines, with one size of the special header for a
behaviour, although JPEG and raw video (`JPEGVideoRTPSink.cpp:122`,
`RawVideoRTPSink.cpp:128`) compute it anew for each packet, the former from the last
frame read; `frameCanAppearAfterPacketStart` answers
freely where a subclass looks at the frame. `phase` cuts the recursion of
`packFrame`, `afterGettingFrame1` and `sendPacketIfNecessary` at their calls: in
`pack` and `send` nothing else can happen, in `reading` the source is asked, in
`waiting` the task of the next packet is scheduled. A source that answers within
`getNextFrame` is a case of one that answers at once in `reading`. Ghosts:
`owed`, the bytes read and not sent, and `stale`, a stop within a frame.

### RTPInterface

`server` has for each socket its handler in the event loop and its
`SocketDescriptor`, and for each interface its `fTCPStreams` and the packet being
read (`next`). `client` is where in a packet the next byte of each socket is: the
truth, against which the descriptor's idea is checked. Each call of
`tcpReadHandler1` is an action; a request that the loop hands on, and all it
leads to, is part of `ReadRequest`, with `inLoop` set, so that a descriptor may
lose its last stream, or even get a new one, before `EndLoop` deletes it.
`StartPlaying`, `EndPlaying`, `Reclaim` and `CloseConnection` are what
`OnDemandServerMediaSubsession.cpp` and `RTSPServer.cpp` ask, in their order.
Where the code does the same to several tracks or sockets one after the other
and nothing comes in between, the operators take the whole set: a descriptor
that loses several channels goes with the last one.
`lost` is a ghost: sockets of which the program can no longer know what it reads
(the packet's stream was removed in the middle of it; packets for one interface
came on two sockets at once; a read failed; a channel id nobody has).
`cleared` notes that `endPlaying` cleared the handler of requests. `SendFails` is
what a failing send does to the tables; that part of a packet is left on the socket
is not in the state, for the code keeps no record of it either (see
[below](#hazards-that-no-property-covers)).

### RTSPClient

`client` has the two queues, the response buffer as a sequence of responses (the
last perhaps incomplete) and where the socket is. `handleResponseBytes` is cut at
the handlers it calls: `HandleResponse` is one turn of its loop, and a handler's
commands are `Command` steps between two turns. `Abandon`, `GoOn`,
`ResendCommand`, `ReadHeaders` and `AwaitRest` follow its cases. The server
answers in order, with or without CSeq; it asks for authentication, redirects or
closes, and once it ignores a request or repeats a response. Ghosts: `told`, and
`forsaken`, the requests whose handlers the code does not undertake to call (see
below). `Outcome` says what a handler is told: an answer or an error of its own
request, or another's response. The latter is "doubtful" where nothing in the response could
show it, and "unasked" where its CSeq shows that no pending request has it; anything
else is "wrong", which `AnswersRight` excludes.

## The runs

Run a specification with `tlc -config X.cfg M`.

| Run | Shows | Properties |
|---|---|---|
| `DelayQueue` | see above; three tokens, nested handlers, clock set back by up to 2 | `TypeOK` `Linked` `NeverEarly` `NotLate`; `FiresInOrder` `ImplementsAlarmClock`; `EveryAlarmEnds` |
| `MediaServer` | DynamicRTSPServer with one name, two clients, four objects, two file changes, two nested DESCRIBEs | `TypeOK` `ReferencesCounted`; `SessionsServed`; `RemovedIsDeleted` |
| `RTSPServer` | two sessions, a shared live track and a file track of known duration, one UDP endpoint, one RTSP connection that comes and goes | `TypeOK` `TokensCounted` `OnlySetUpDestinations` `NotesMatch` `OneSharedSource`; `Undisturbed` |
| `StreamReplicator` | three replicas, sources that answer at once or later or end | `TypeOK` `ServedOnce` `MasterHasReceived`; `FramesInOrder`; `EveryRequestAnswered` |
| `EventLoop` | three sockets with two conditions, three triggers, another thread | `TypeOK`; `ReadyHandled` `EventsHandled` |
| `MultiFramedRTPSource` | six packets with numbers modulo 16, over the wrap-around; UDP and TCP; a second SSRC | `TypeOK` `ListInOrder` `FramesWholeInOrder` `WaitsOnlyForMissing` |
| `MultiFramedRTPSink` | four payload formats, four frames of 0 to 15 bytes, packets of 7, a buffer of 21 | `TypeOK` `BytesKept` `FragmentsTold`; `EveryFrameSent` |
| `RTPInterface` | two sockets, the two interfaces of a track, packets of two bytes | `TypeOK` `StreamsAgree` `InStep` `RequestsHeard` |
| `RTSPClient` | three requests, one of them sent again, one mistake of the server | `TypeOK` `AnswersRight`; `EveryRequestTold` |
| `RTSPServerSockets` | **violated:** the database lists the sockets that streams go over | `StreamingSocketsNoted` |
| `RTSPServerReplay` | **violated:** a stream kept at its end can be replayed from elsewhere | `ReplayRestarts` |
| `StreamReplicatorInside` | **violated:** the master has received the frame that is delivered | `MasterHasReceived` |

### Bounds, and why they are enough

- *DelayQueue.* Three delays set in a behaviour give a first, a middle and a last
  entry and every insertion, removal and update relative to them. Delays 0, 1
  and 3 give alarms that are due at once, ties, and gaps that a newcomer splits.
  `MaxLag = 3` lets a synchronization pass all, some or none of the entries, and
  `MaxBack = 2` sets the clock back by less and by more than a delta. Four of the
  properties are also proved for all values.
- *MediaServer.* One name is the interesting case: objects interact only by
  having the same one. Four objects let a marked one, its replacement, the
  replacement's replacement and one more live together. Two clients and two
  DESCRIBEs let each hold an object the other's request replaces.
  `SessionsServed` needs two changes (away and back).
- *RTSPServer.* Nothing is bounded: the state is finite. Two sessions suffice to
  share a stream and to be disturbed by one another; the two tracks are the two
  kinds that the code tells apart twice (`fReuseFirstSource`, duration known).
  Both sessions may use the same endpoint, which makes them share a report
  handler. The sessions are symmetric. No liveness is checked in that run.
- *StreamReplicator.* Three replicas are a master, one that waits for the
  current and one for the next frame, all at once. The depth of the stack is not
  bounded; it is finite because a reader that waits is not called again.

- *EventLoop.* With three sockets one may be ready while another, handled last,
  goes away and a third one comes; a trigger waits while others are triggered on
  both sides of the round robin. Creating a trigger when none is free does
  nothing.
- *MultiFramedRTPSource.* Six packets are a packet of two frames, a frame of three
  packets, and the like of both, so that every part of a frame may be lost with
  whole frames before and behind it. Numbers start at 14 of 16, so that
  the list wraps around. No two live numbers are half the space apart
  (`BoundsAssumption`): beyond that early and late cannot be told apart.
- *MultiFramedRTPSink.* Sizes are scaled: the RTP header is one byte, as are the
  headers of formats. Frames of 0, 1, 3, 6 and 15 bytes are empty, share a packet,
  reach the preferred size (5) only with another, just fit or just do not,
  and take three packets. The buffer has three packets' room, so that the next
  packet begins in front of the overflow data in some cases and at the buffer's
  start in others (more than half of it free, or not), and frames are truncated.
- *RTPInterface.* Everything a socket has can be disturbed by the other socket
  through the shared interfaces, or by the other interface on the same socket.
  Two bytes of data give a packet that comes whole or in two parts.
- *RTSPClient.* Three requests are one that is answered, one before and one
  behind it. One resend and one mistake at a time keep the run small; both may
  happen in one behaviour.

### Premises

Some properties are about what the code undertakes to do, and name as ghosts the
events after which it does not. Each was found by TLC, which shows a violation
without the premise; the code behind each is in `PROJECT.json` as a hazard or in
[the list below](#hazards-that-no-property-covers).

| Property | Premise | Behind it |
|---|---|---|
| `ReadyHandled` | the socket handled last is not turned off or moved for ever | the walk starts again at the list's head, where new handlers come in |
| `EventsHandled` | triggers are not created for ever; the event was not overwritten by the other thread | `createEventTrigger` moves the round robin; the mask is not atomic |
| `ListInOrder`, `FramesWholeInOrder` | no stream begins while packets of another wait; no refused packet hides a loss | SSRC change at line 308; `processSpecialHeader` at line 148 |
| `FragmentsTold` | the sink was not stopped in the middle of the frame before | `stopPlaying` (`MultiFramedRTPSink.cpp:163`) does not reset `fCurFragmentationOffset`, and line 300 takes the next frame for the last fragment |
| `InStep` | the socket is not in `lost` | what is left of a packet is kept per interface, not per socket |
| `RequestsHeard` | `endPlaying` has not cleared the handler since a stream was started | line 585 clears it for the socket, not for the stream |
| `AnswersRight` | the response is not mixed with the rest of another ("doubtful") | lines 1766, 1846: the sockets are closed, or the buffer emptied, in the middle of a response |
| | or it has a CSeq, or no request was ignored or answered twice before ("doubtful") | line 1774 takes the oldest request |
| | or its CSeq is that of a pending request, or higher ("unasked") | lines 1709-1711 and 1772-1775 contradict each other, see below |
| `EveryRequestTold` | the request is not in `forsaken` | closed sockets, discarded responses, and requests taken from the queue in vain |

### Hazards that no property covers

`PROJECT.json` lists the hazards that a property is about, and the most important
of the others. The rest, with the reason:

- *Media server.* Removal is by name (`GenericMediaServer.cpp:49`): when the last
  user of an object that was removed earlier goes away, a newer object of the
  same name drops out of the table (`:277`), and new clients do not find it.
  `createNewSMS` runs the event loop for Matroska and Ogg files
  (`DynamicRTSPServer.cpp:75`), and another request may add its own object
  first: the lookup is one step here. A second client's request replaces the
  object between two SETUPs of the first, whose second track is refused
  (`RTSPServer.cpp:1287`): modelled, but nothing promises otherwise.
- *RTCP.* Two sessions of a shared stream with one address and RTCP port have
  one entry in the table of report handlers (`RTCP.cpp:335`): modelled, but
  the session's timer is not, so that its early end cannot be seen.
- *Stream replicator.* After a frame was lost with its master the count of
  deliveries stays, and the next frame is completed too soon (line 265):
  `EveryRequestAnswered` exempts it (`abandoned`). The last replica deleted in
  the middle of a delivery (line 203) is a case of `StreamReplicatorInside`.
- *Event loop.* Sockets or triggers that come and go for ever starve others
  (`BasicTaskScheduler0.cpp:98`, `:184`): premises of the liveness properties. A
  trigger number used again may still have its bit set (`:96`). A handler may
  run the loop inside the loop (`BasicTaskScheduler.cpp:153`). An error of `select()`
  other than an interruption is fatal (`:125`) and not modelled, nor is Windows.
- *Packet reordering.* A missing packet is given up only when another comes or the
  reader asks (`MultiFramedRTPSource.cpp:617`). A stream begins while packets
  of the old one wait (`:312`), a premise. The reader may delete the source where
  it is called directly (`:203`). Numbers half the space apart (`RTPSource.cpp:403`).
- *RTP sending.* A packet into which the next frame did not fit is sent with the room
  that was left for that frame's own header (`MultiFramedRTPSink.cpp:208`; Vorbis
  only). `fNextSendTime` is set anew by each frame of the first packet (`:242`), so
  that the durations of all but the last are forgotten. Times are not modelled.
- *RTP over TCP.* What is left of a packet is kept per interface
  (`RTPInterface.cpp:555`), and a stream may go in the middle of a packet (`:566`):
  premises of `InStep`. After a read error the descriptor goes on reading (`:293`):
  modelled, without a property.
  **The code does not do what a comment says:** when a send fails in the middle of a
  packet, "we stop using it (for both RTP and RTP)", as it would be in an
  "inconsistent state" (`:370-374`). But
  `removeStreamSocket` only makes this interface forget the socket (`:378`), and
  nothing remembers the part that was sent: the other interface of the track goes on
  writing behind it, and a later PLAY on the connection adds the socket again
  (`:145-162`, from `OnDemandServerMediaSubsession.cpp:519-523`) and writes behind
  it too. `StreamsAgree` is about the tables after such a failure, and says
  nothing of the bytes sent. `RTCP.cpp:447` keeps the length of a part
  after its stream has gone. One channel id for two tracks (`:225`).
- *RTSP client.* **The code does not do what a comment says:** a response with a lower
  number than the first pending request's is to be ignored ("No handler was
  registered for this response, so ignore it", `RTSPClient.cpp:1709-1711`). But that
  request has been taken from the queue and is dropped, and as none was found, lines
  1772-1775 (meant for responses without CSeq) give the response to the handler of the
  next. One response that the server gives twice is enough, with two requests
  pending; the real responses to these may do the same to later requests. The model
  does the same: `AnswersRight` exempts the handler that is told ("unasked"), and
  `EveryRequestTold` the request that is dropped.
  Closed sockets, a body that never comes (`:1766`),
  discarded responses (`:1704`, `:1846`), complete responses left in the buffer
  (`:1900`) and a redirection with requests pending (`:1841`) are premises of
  `EveryRequestTold`. A handler that deletes the client (`:1891`) and HTTP
  tunnelling (`:449`) are not modelled. `changeResponseHandler` looks for
  numbers that a resend has changed (`:196`), and nobody uses it.
- *Capture queue and camera.* `GetFront` tests for emptiness outside the lock, and a
  queue of size 0 divides by zero (`CycleQueue.cpp:81`, `:54`).
  `UsageVideoSource.cpp:82` answers a request twice, and at the end of the file
  not at all (`:49`). Neither has a user in the repository.

### Fairness and deadlock

- *DelayQueue.* `doEventLoop` calls `SingleStep` for ever, which asks for the
  time to the next alarm and handles one (weak fairness of both); handlers
  return; time passes.
- *MediaServer.* A DESCRIBE gets its description (`Described`); the liveness
  timer of a client that fell silent ends its session, because nothing
  reschedules it. No fairness for clients or owner.
- *StreamReplicator.* Calls in progress return. The source answers a request
  even when it is interrupted again and again (strong, because a master that
  leaves makes the replicator stop and restart the read), and a reader that
  plays and is not waiting asks again, stops or goes away. Without the last one,
  replicas wait for a reader that never takes the current frame; the code waits
  too, by design.
- *EventLoop.* `doEventLoop` goes round for ever. Nothing is assumed of the
  other thread, nor that a socket becomes ready.
- *RTSPClient.* The event loop calls the handlers of a ready socket; a connection
  is made or fails; the server answers what it does not ignore; the client finds
  out when the server has closed. That a connection fails otherwise, or that a
  command is given, is never assumed.
- *MultiFramedRTPSink.* The delay queue calls the task of the next packet, and the
  source answers a request with a frame or its end.
- *MultiFramedRTPSource* and *RTPInterface* state no liveness: the one waits for
  a network that may be silent, and gives up on a missing packet only when
  something makes it look; the other waits for clients.
- Deadlock is checked for `DelayQueue`, `RTSPServer`, `EventLoop`,
  `MultiFramedRTPSource`, `MultiFramedRTPSink` and `RTPInterface`. An RTSP client that has all its
  answers is done (`CHECK_DEADLOCK FALSE`), and the media server may be
  destroyed (`Cleanup`) and the replicator deletes itself with its last replica;
  then nothing happens any more, and the runs say `CHECK_DEADLOCK FALSE`.

### Findings

1. `RTSPServerSockets`: `tcpSocketNum` of a track is set by a SETUP over TCP and
   never reset. A second SETUP of the track over UDP announces UDP and sends to
   the old socket, which the database (`RTSPServer.hh:296`) no longer lists.
2. `RTSPServerReplay`: `fAreCurrentlyPlaying` stays set when a source of known
   duration ends, so a later PLAY from elsewhere starts nothing, contrary to
   `OnDemandServerMediaSubsession.cpp:484-486`.
3. `StreamReplicatorInside`: "not being read" is taken for "has been read" at
   `StreamReplicator.cpp:187`. A reader that leaves when it is told of the end,
   or in the middle of the delivery loop, makes the replicator deliver a frame
   that the master does not have.

## The proofs

Eight modules of theorems, checked by `tlapm`, say for every value of the constants
what the runs show on small instances. In each, `Invariance` is `Spec => []IInv` for
the inductive invariant `IInv`, and the other theorems follow from it. Each `IInv`
was also an invariant that TLC checked on the configuration of the module's run
before it was proved.

| Module | Theorem | States |
|---|---|---|
| `DelayQueueProofs` | `TypeCorrect`, `AlarmsStayLinked`, `AlarmsAreNeverEarly`, `AlarmsAreNotLate` | `[]TypeOK`, `[]Linked`, `[]NeverEarly`, `[]NotLate` |
| | `AlarmsFireInOrder` | `FiresInOrder`, of every step |
| | `QueueIsAnAlarmClock` | `ImplementsAlarmClock`: the list refines `AlarmClock` |
| `MediaServerProofs` | `TypeCorrect`, `ReferencesAreCounted` | `[]TypeOK`, `[]ReferencesCounted` |
| | `SessionsAreServed` | `SessionsServed`, of every step |
| `RTSPServerProofs` | `TypeCorrect`, `TokensAreCounted`, `PacketsGoWhereSetUp`, `DatabaseMatches`, `SharedSourceIsOne` | `[]TypeOK`, `[]TokensCounted`, `[]OnlySetUpDestinations`, `[]NotesMatch`, `[]OneSharedSource` |
| | `ClientsAreUndisturbed` | `Undisturbed`, of every step |
| `StreamReplicatorProofs` | `TypeCorrect`, `RequestsServedOnce`, `MasterHasTheFrame` | `[]TypeOK`, `[]ServedOnce`, `[]MasterHasReceived` |
| | `FramesComeInOrder` | `FramesInOrder`, of every step |
| `RTPInterfaceProofs` | `TypeCorrect`, `StreamsStayAgreed`, `StaysInStep`, `RequestsStayHeard` | `[]TypeOK`, `[]StreamsAgree`, `[]InStep`, `[]RequestsHeard` |
| `EventLoopProofs` | `TypeCorrect` | `[]TypeOK` |
| `MultiFramedRTPSourceProofs` | `TypeCorrect`, `ListStaysInOrder`, `FramesComeWhole`, `WaitsForMissing` | `[]TypeOK`, `[]ListInOrder`, `[]FramesWholeInOrder`, `[]WaitsOnlyForMissing` |
| `MultiFramedRTPSinkProofs` | `TypeCorrect`, `BytesAreKept`, `FragmentsAreTold` | `[]TypeOK`, `[]BytesKept`, `[]FragmentsTold` |

The assumptions are those that the modules name: bounds and delays are natural
numbers (`scheduleDelayedTask` replaces negative delays by 0), and the values that
stand for NULL, -1 and the like (`NoMedia`, `Nowhere`, `None`, `NoSocket`,
`NoDescriptor`) are not among the things they stand apart from. Only
`StreamReplicatorProofs` has a hypothesis about the code's surroundings, and the sizes
of `MultiFramedRTPSink` are in a certain order, see there.

### Proofs about DelayQueue

`IInv` is the conjunction of the four invariants. None of the timing invariants is
inductive by itself: inserting an alarm looks at the due times of all others, which
are right only if tokens are unique (`Linked`) and deltas are natural numbers
(`TypeOK`); a synchronization keeps `NotLate` because it moves due times by exactly
`lag`, but those that have passed only to 0, which is why `NotLate` speaks of alarms
that are still due in the future.

The argument never looks at deltas after its first third. `Prefix(q)[i]`, the time
until entry *i* is due, is characterised by its recursion equations (`PrefixStep`,
`PrefixUnique`), proved by least counterexamples because the library's induction
theorems take operators as parameters. Then each list operation is described by its
effect on `Prefix`: `ElapseProperties` (every due time is reduced by *t*, to no less
than 0), `InsertProperties` (the others keep theirs, the new one gets its delay),
`RemoveProperties` (the others keep theirs). From these, each action keeps `IInv`.

The refinement takes the queue's tokens as the clock's pending alarms and the ghosts
as its countdowns: initial states map to initial states, and one lemma for each
action says that it is a step of `AlarmClock` or, for synchronizations, none.
`FiresInOrder` needs one more invariant (`Ordered`): as long as nothing was lost to a
clock that was set back, the list is sorted by due time and then by the order in
which the alarms were set.

### Proofs about MediaServer

`Good(catalog, References)` is the invariant: an object's `fReferenceCount` is the
number of sessions and unfinished DESCRIBEs that point to it, whoever is pointed to
exists, a name in the table stands for an object of that name, and an object marked
`fDeleteWhenUnreferenced` is in use and not in the table. The last is what
`ReferencesCounted` needs to be inductive: otherwise a removed object could be found
by name again. Each operation on the catalog keeps `Good` for *any* count of uses
(`RemoveGood`, `AddGood`, `LookupGood`, `RetainGood`, `ReleaseGood`); how an action
changes the pointers is counted apart, with the library's cardinality facts.

### Proofs about RTSPServer

`IInv` relates three parts. `TracksGood`: each track's stream states are right for
the tokens that sessions hold: as many references as holders, destinations and RTCP
reporters only of holders and as last set up, one holder unless the track is shared,
and of a shared track a source only in the last stream. `StatesGood`: session states
are of sessions and tracks, and the socket that will be taken out of the database for
one (`tcpSocketNum`) is the one that was noted. `NotesGood`: the database of TCP
streams is, as a bag, the set of sessions and tracks whose places are the socket's.
As before, each operation of `OnDemandServerMediaSubsession` keeps a track's part for
any tokens held, what a request does to the tokens is found apart, and the two meet
in one lemma per action. `Undisturbed` is proved of every step that starts from `IInv`.

### Proofs about StreamReplicator

The theorems have the hypothesis `StopsInside = FALSE`: a reader that is called in
the middle of a delivery does not stop or delete *its* replica before the call
returns. With `TRUE` the code goes wrong, which is what the run
`StreamReplicatorInside` and its finding show, so the hypothesis is the premise under
which the class is right, not a convenience of the proof.

The invariant has to describe the stack of functions in progress, of any depth.
Functions only call those of a greater `Rank`, so each is on the stack at most once,
except for readers and the source on top; the stack is then seen as the set
`On(stack, f)` of replicas that calls of `f` are about, and the two lists as sets of
those that wait. On that, `CountsGood` says that the counters count, `PlacesGood`
that a waiting replica stands in one place, `IndexesGood` that the parity of
`fFrameIndex` tells which frame a replica waits for, `SourceGood` that what is in
progress fits what was asked of the source, and `FramesGood` that who has the newest
frame has toggled its index. `ServedOnce` is not inductive without the last three:
which list a replica belongs in depends on the parities.

### Proofs about RTPInterface

Everything the tables say can be said of one socket (`Good`): its descriptor exists
just when some interface streams over it, with the same channels, and has the event
loop's handler; a dying descriptor is in its own loop. An operation on a socket
touches nothing of another (`Elsewhere`), so it keeps the tables if it keeps `Good`
of its own socket, also while its loop runs. `StreamsAgree` and `RequestsHeard` follow.

For `InStep` the steps fall into three kinds. Those that create and delete
descriptors keep the place in the bytes for one reason (`InStepKept`): the
descriptor goes on where it was, or a new one begins between packets where the
client is, or the packet was cut off and the socket is `lost`. Those that read
headers move descriptor and client together (`QuietStep`). Those at data count down
`fNextTCPReadSize` (`CountStep`), which is kept per interface and not per socket;
`InStep` is not inductive there without `Alone`: who skips the data of an interface
without a read handler is the only one, apart from `lost` sockets, at data for it.

### Proofs about EventLoop

`TypeOK` says more here than types: each socket is in the handler list once, the
three `fd_set`s are what the handlers together ask for, and `fMaxNumSockets` is above
all of them, so that `select()` is asked about every socket that has a handler and no
other. The list is seen as the set of its handlers (`Lists`), and each operation of
`HandlerSet` is described by what it does to that set, so that each call of the
scheduler keeps list, sets and number (`Together`), whatever handler makes it and
wherever `SingleStep` is. For the triggers, a search of the round robin finds a
trigger of the set it is made in, and a write of the mask that the loop has under way
sets only bits of triggers that have a handler (`LoopGood`), so that no event is
owed to a trigger without one.

### Proofs about MultiFramedRTPSource

The invariant says what the code knows by a number: the number expected next is
that of a packet *x*, the list holds packets of the stream from *x* on, in order, and
only *x* can have been used in part (`Placed`). Since packets of a stream are never half the
number space apart (`BoundsAssumption`), `seqNumLT` compares them as they were sent
(`SeqLTIsLess`), across the wrap-around, and `storePacket` puts each at its place.
What is at `fSavedTo` is what the frame of *x* has before *x*, unless a loss is marked
(`InSync`); what was given is whole, in order and behind *x* (`Delivered`), and so is
a frame that a task will give (`OnItsWay`). `FramesWholeInOrder` is not inductive without
all four.

These make up `LoopGood`, which one turn of the loop of `doGetNextFrame1` keeps, in each
of its cases, and any number of turns by a least counterexample (`LoopKeeps`). The
same lemma counts: a turn with something to do leaves one packet less or nothing to
ask for, so that after as many turns as the list was long nothing is left to do
(`Stable`), which is `WaitsOnlyForMissing`. `Bounded` is what a change of SSRC needs: whatever
may still come of another stream was sent after everything the source has received.
The object `fSavedPacket` is followed apart (`SavedOnce`): one packet of the list is
it, or the packet being read into is, exactly when it is marked as in use.

### Proofs about MultiFramedRTPSink

`BytesKept` and `FragmentsTold` speak of bytes in memory, and every packet moves what
they are counted from. So the invariant first says where things lie (`Placed`): the
parts in the packet between its headers and where the next byte goes, the overflow data
not in front of that place once the packet is to be sent, and behind the headers that
the next packet will have when one is begun. Then what `Insert` writes is never within
either, and `AdjustPacketStart` and `ResetPacketStart` keep the sum of packet start and
overflow offset. `Divided` says what the overflow data are: the rest of the newest
frame, in order, from the byte that `fCurFragmentationOffset` names; without overflow data
that offset is 0, unless the sink was stopped within a frame.

`afterGettingFrame1` is proved about once, for both callers: `Got` is what it finds, be it
a frame of the source (`FrameIsGot`) or overflow data that `useOverflowData` has moved
(`OverflowComes`), and it is left with `Goods`, whether it uses the frame (`UseKeeps`), a
part of it, or keeps it for the next packet (`KeepKeeps`). What
`sendPacketIfNecessary` takes off `owed` is the octet count; that this is the length of
the parts (`OctetCount`) is part of `PartsBefore`.

`SizesAssumption` states what the code has and does not check: every format's headers
fit into a packet that is not yet of the preferred size, and a frame-specific header
between the preferred and the maximal size (1000 and 1456 bytes); the buffer is as large as
two packets (60000 bytes or more). In a buffer of one packet, `skipBytes` would make less
room than a header needs.

### Only model-checked

- The liveness properties, because fairness and ENABLED are not in the prover's
  reach: `EveryAlarmEnds`, `RemovedIsDeleted`, `EveryRequestAnswered`, `ReadyHandled`,
  `EventsHandled`, `EveryFrameSent` and `EveryRequestTold`.
- `StreamReplicator` with `StopsInside = TRUE`, where the properties are violated.
- The invariants of `RTSPClient`, see [the plan](#plan).
- That the bound on packets that processSpecialHeader refuses (one in a call) loses
  nothing: a bound of the model, in the runs as in the proofs.

## What is not modelled

In the modelled components:

- *Delay queue:* the sentinel's own delta (68 years) and the cap on the time
  `select()` sleeps.
- *Media server:* bytes in the request buffers of connections, SDP text. The
  lookup is one step, although `createNewSMS` runs the event loop for Matroska
  and Ogg files.
- *RTSP server:* parsing, authentication, REGISTER, HTTP tunnelling, `RAW_UDP`
  and client port 0, multicast (`PassiveServerMediaSubsession`), scale.
- *Replicator:* `detachInputSource`; readers that act on another reader's
  replica, or more than once in a call.
- *Event loop:* a `doEventLoop` inside a handler, a move of a handler to a number
  that has one, a trigger mask of several bits.
- *Packet reordering:* payload formats beyond what a frame consists of, several
  frames refused in one call, reception statistics, a reader that deletes the
  source when it is called directly.
- *RTP sending:* the times of packets, padding (no subclass here uses it), fragments of
  a granularity (`computeOverflowForNewFrame` in raw and DV video), sequence
  numbers and counters, which go up with each packet, and the fragmenter that
  `H264or5VideoRTPSink` puts before the sink.
- *RTP over TCP:* the bytes that are sent, whole packets or torn ones; the same channel id for
  two tracks of one socket; `setStreamSocket`, which only a client uses.
- *RTSP client:* HTTP tunnelling, requests from the server, a response that does
  not fit into the buffer, `changeResponseHandler`, the effects of particular
  commands on `MediaSession`, and handlers that delete the client.

Not modelled at all, and why:

- Proxy server, SIP client: not part of the server program.
- `CycleQueue.cpp`: no code in the repository uses it, so who calls it from which
  thread is unknown. `UsageVideoSource.cpp` is one function, in a library that
  nothing here uses.
- Formats, framers, packetizers, file sinks: sequential transformations of data.
- `groupsock`: socket calls; its lists of destinations are in `RTSPServer`.
- RTCP beyond report handlers and reading over TCP: interval computation on real
  numbers.
- Hash tables: functions in TLA+, wherever they are used.
- FFmpeg headers and colour tables under `UsageSource`: vendored. They and the
  formats are most of the repository's lines.

## Plan

Done, in the order of importance: `AlarmClock`, `DelayQueue`; `MediaServer`,
`RTSPServer`; `StreamReplicator`; `EventLoop`, `ReorderingPacketBuffer` and
`MultiFramedRTPSource`, `RTPInterface`, `RTSPClient`; `MultiFramedRTPSink`; and the
proofs about `DelayQueue`, `MediaServer`, `RTSPServer`, `StreamReplicator`,
`RTPInterface`, `EventLoop`, `MultiFramedRTPSource` and `MultiFramedRTPSink`.

To come in the model:

1. Composition: `MediaServer`'s sessions with liveness timers of `AlarmClock`
   and the tracks of `RTSPServer`, and the lookup split at `createNewSMS`.
2. The fragmenter of `H264or5VideoRTPSink` between a source and the sink, and the
   times of packets.
3. The proxy server's use of the client: one request at a time, and a retry.

Theorem to come: `AnswersRight` of `RTSPClient`. Its `SendAll`, a fold that takes an
operator as a parameter, has to become a recursive function first, as `Turns` of
`MultiFramedRTPSource` is one.
