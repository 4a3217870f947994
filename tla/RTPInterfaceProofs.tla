------------------------- MODULE RTPInterfaceProofs -------------------------
(***************************************************************************)
(* Proofs that the tables of RTPInterface agree, that requests are heard   *)
(* and that a descriptor keeps in step with the bytes of its client, for   *)
(* every set of sockets and tracks and every size of packets.              *)
(*                                                                         *)
(* The plan: everything the tables say is said of one socket (Good), and   *)
(* an operation on a socket touches nothing of another (Elsewhere).  So    *)
(* each operation of RTPInterface and SocketDescriptor keeps Good of its   *)
(* own socket, and with it the tables, also while a descriptor's own loop  *)
(* is running (inLoop) and only marks the descriptor as dying.  The place  *)
(* in the bytes (InStep) is then kept by all steps that delete or create   *)
(* descriptors for one reason (InStepKept), by those that move a           *)
(* descriptor (QuietStep), and by those that count bytes (CountStep).  The *)
(* last need to know that who skips bytes without a handler does so for    *)
(* itself alone (Alone).                                                   *)
(***************************************************************************)
EXTENDS RTPInterface, TLAPS

Reading == [size : 0..PacketSize, sock : Sockets \cup {NoSocket}]

Server ==
  [open : SUBSET Sockets,
   handler : [Sockets -> {"none", "rtsp", "tcp"}],
   descriptor : [Sockets -> Descriptor \cup {NoDescriptor}],
   streams : [Interfaces -> SUBSET Sockets],
   next : [Interfaces -> Reading],
   inLoop : Sockets \cup {NoSocket},
   cleared : SUBSET Sockets]

Place == [at : States, ch : Channel, left : 0..PacketSize]

(* What StreamsAgree says of s, when a loop may be running: a descriptor that
   is to be deleted may have lost its channels, or have got others. *)
Agrees(w, s) ==
  /\ w.descriptor[s] = NoDescriptor =>
       /\ w.handler[s] # "tcp"
       /\ w.handler[s] = "rtsp" => s \in w.open
       /\ \A i \in Interfaces : s \notin w.streams[i]
  /\ w.descriptor[s] # NoDescriptor =>
       /\ s \in w.open /\ w.handler[s] = "tcp"
       /\ w.descriptor[s].dying => w.inLoop = s
       /\ w.descriptor[s].channels = {} => w.descriptor[s].dying
       /\ ~w.descriptor[s].error
       /\ \A i \in Interfaces : s \in w.streams[i] <=> i \in w.descriptor[s].channels

(* What RequestsHeard says of s. *)
Heard(w, s) ==
  s \in w.open /\ s \notin w.cleared =>
    /\ w.descriptor[s] = NoDescriptor => w.handler[s] = "rtsp"
    /\ w.descriptor[s] # NoDescriptor => w.descriptor[s].alternative

(* After the channel id of a packet its interface is known. *)
Named(w, s) ==
  /\ w.descriptor[s] # NoDescriptor
  /\ w.descriptor[s].at \in {"size1", "size2", "data"}
  => w.descriptor[s].ch \in Interfaces

Good(w, s) == Agrees(w, s) /\ Heard(w, s) /\ Named(w, s)

Tables(w) == w \in Server /\ \A s \in Sockets : Good(w, s)

(* A socket that is closed or lost is taken to begin anew, and a packet that
   has come to its data has a byte left. *)
ClientGood ==
  /\ client \in [Sockets -> Place]
  /\ lost \subseteq Sockets
  /\ \A s \in Sockets : s \notin server.open \/ s \in lost => client[s] = Between
  /\ \A s \in Sockets : client[s].at = "data" => client[s].left > 0

(* s is at the data of a packet for i. *)
Awaits(w, s, i) ==
  w.descriptor[s] # NoDescriptor /\ w.descriptor[s].at = "data" /\ w.descriptor[s].ch = i

(* When s skips the data of an interface without a handler, whoever else is at
   data for it is lost: fNextTCPReadSize is not counted down for two. *)
Alone(w, l) ==
  \A s, o \in Sockets, i \in Interfaces :
    /\ s # o /\ ~Reads(i)
    /\ Awaits(w, s, i) /\ i \in w.descriptor[s].channels
    /\ Awaits(w, o, i)
    => o \in l

IInv ==
  Tables(server) /\ server.inLoop = NoSocket /\ ClientGood /\ InStep /\ Alone(server, lost)

-----------------------------------------------------------------------------
(* v has everything of w that is not about s.  Only the loop of s may end. *)
Elsewhere(w, v, s) ==
  /\ v.next = w.next
  /\ v.inLoop = w.inLoop \/ w.inLoop = s
  /\ \A o \in Sockets \ {s} :
       /\ v.descriptor[o] = w.descriptor[o]
       /\ v.handler[o] = w.handler[o]
       /\ o \in v.open <=> o \in w.open
       /\ o \in v.cleared <=> o \in w.cleared
       /\ \A i \in Interfaces : o \in v.streams[i] <=> o \in w.streams[i]

LEMMA ElsewhereGood ==
  ASSUME NEW w, NEW v, NEW s \in Sockets, Elsewhere(w, v, s),
         NEW o \in Sockets \ {s}, Good(w, o)
  PROVE  Good(v, o)
<1>1. Agrees(v, o)
  BY DEF Elsewhere, Good, Agrees
<1>2. Heard(v, o)
  BY DEF Elsewhere, Good, Heard
<1>3. Named(v, o)
  BY DEF Elsewhere, Good, Named
<1>4. QED
  BY <1>1, <1>2, <1>3 DEF Good

(* So an operation on s keeps the tables if it keeps what they say of s. *)
LEMMA TablesKept ==
  ASSUME NEW w, NEW v \in Server, NEW s \in Sockets, Tables(w), Elsewhere(w, v, s), Good(v, s)
  PROVE  Tables(v)
<1>1. ASSUME NEW o \in Sockets PROVE Good(v, o)
  <2>1. CASE o = s
    BY <2>1
  <2>2. CASE o # s
    BY <2>2, ElsewhereGood DEF Tables
  <2> QED BY <2>1, <2>2
<1>2. QED
  BY <1>1 DEF Tables

-----------------------------------------------------------------------------
(* The operations on a descriptor, field by field.                         *)

LEMMA DescriptorExists ==
  ASSUME NEW w \in Server, NEW s \in Sockets
  PROVE  w.descriptor[s] # NoDescriptor => w.descriptor[s] \in Descriptor
BY DEF Server

(* ~SocketDescriptor. *)
Deleted(w, v, s) ==
  /\ v.descriptor = [w.descriptor EXCEPT ![s] = NoDescriptor]
  /\ v.streams = [i \in Interfaces |->
                    IF i \in w.descriptor[s].channels THEN w.streams[i] \ {s} ELSE w.streams[i]]
  /\ v.handler = [w.handler EXCEPT ![s] =
                    IF ~w.descriptor[s].alternative \/ w.descriptor[s].error
                    THEN "none" ELSE "rtsp"]
  /\ v.open = IF w.descriptor[s].alternative /\ w.descriptor[s].error
              THEN w.open \ {s} ELSE w.open
  /\ v.next = w.next /\ v.inLoop = w.inLoop /\ v.cleared = w.cleared

LEMMA DeleteFields ==
  ASSUME NEW w \in Server, NEW s \in Sockets, w.descriptor[s] # NoDescriptor,
         NEW v, v = DeleteDescriptor(w, s)
  PROVE  v \in Server /\ Deleted(w, v, s)
<1> DEFINE d == w.descriptor[s]
<1>1. PICK descriptor : descriptor = [w.descriptor EXCEPT ![s] = NoDescriptor]
  OBVIOUS
<1>2. PICK streams : streams = [i \in Interfaces |->
                                  IF i \in d.channels THEN w.streams[i] \ {s} ELSE w.streams[i]]
  OBVIOUS
<1>3. PICK handler : handler = [w.handler EXCEPT ![s] = IF ~d.alternative \/ d.error
                                                        THEN "none" ELSE "rtsp"]
  OBVIOUS
<1>4. PICK open : open = IF d.alternative /\ d.error THEN w.open \ {s} ELSE w.open
  OBVIOUS
<1>5. v = [open |-> open, handler |-> handler, descriptor |-> descriptor, streams |-> streams,
           next |-> w.next, inLoop |-> w.inLoop, cleared |-> w.cleared]
  BY <1>1, <1>2, <1>3, <1>4 DEF DeleteDescriptor, Server
<1>6. /\ descriptor \in [Sockets -> Descriptor \cup {NoDescriptor}]
      /\ streams \in [Interfaces -> SUBSET Sockets]
      /\ handler \in [Sockets -> {"none", "rtsp", "tcp"}]
      /\ open \in SUBSET Sockets
  BY <1>1, <1>2, <1>3, <1>4 DEF Server
<1>7. v \in Server
  BY <1>5, <1>6 DEF Server
<1>8. QED
  BY <1>1, <1>2, <1>3, <1>4, <1>5, <1>7 DEF Deleted

(* A change of one descriptor and nothing else. *)
SameBut(w, v, s, d) ==
  /\ v.descriptor = [w.descriptor EXCEPT ![s] = d]
  /\ v.streams = w.streams /\ v.handler = w.handler /\ v.open = w.open
  /\ v.next = w.next /\ v.inLoop = w.inLoop /\ v.cleared = w.cleared

WithDescriptor(w, s, d) == [w EXCEPT !.descriptor[s] = d]

LEMMA DescriptorChanges ==
  ASSUME NEW w \in Server, NEW s \in Sockets, NEW d \in Descriptor,
         NEW v, v = WithDescriptor(w, s, d)
  PROVE  v \in Server /\ SameBut(w, v, s, d)
<1>1. PICK descriptor : descriptor = [w.descriptor EXCEPT ![s] = d]
  OBVIOUS
<1>2. descriptor \in [Sockets -> Descriptor \cup {NoDescriptor}]
  BY <1>1 DEF Server
<1>3. v = [open |-> w.open, handler |-> w.handler, descriptor |-> descriptor,
           streams |-> w.streams, next |-> w.next, inLoop |-> w.inLoop, cleared |-> w.cleared]
  BY <1>1 DEF Server, WithDescriptor
<1>4. v \in Server
  BY <1>2, <1>3 DEF Server
<1>5. QED
  BY <1>1, <1>3, <1>4 DEF SameBut

(* deregisterRTPInterface, on a descriptor that has met no error. *)
Deregistered(w, v, s, gone) ==
  /\ v.streams = w.streams /\ v.open = w.open
  /\ v.next = w.next /\ v.inLoop = w.inLoop /\ v.cleared = w.cleared
  /\ \A o \in Sockets \ {s} : /\ v.descriptor[o] = w.descriptor[o]
                              /\ v.handler[o] = w.handler[o]
  /\ \/ /\ w.descriptor[s].channels \subseteq gone /\ w.inLoop # s
        /\ v.descriptor[s] = NoDescriptor
        /\ v.handler[s] = IF w.descriptor[s].alternative THEN "rtsp" ELSE "none"
     \/ /\ v.descriptor[s] \in Descriptor
        /\ v.descriptor[s].channels = w.descriptor[s].channels \ gone
        /\ v.descriptor[s].alternative = w.descriptor[s].alternative
        /\ v.descriptor[s].at = w.descriptor[s].at
        /\ v.descriptor[s].ch = w.descriptor[s].ch
        /\ v.descriptor[s].error = w.descriptor[s].error
        /\ v.descriptor[s].dying => w.descriptor[s].dying \/ w.inLoop = s
        /\ v.descriptor[s].channels = {} => v.descriptor[s].dying
        /\ v.handler[s] = w.handler[s]

LEMMA DeregisterFields ==
  ASSUME NEW w \in Server, NEW s \in Sockets, NEW gone \in SUBSET Interfaces,
         w.descriptor[s] # NoDescriptor, ~w.descriptor[s].error,
         NEW v, v = DeregisterRTPInterface(w, s, gone)
  PROVE  v \in Server /\ Deregistered(w, v, s, gone)
<1>1. PICK c : c = w.descriptor[s]
  OBVIOUS
<1>2. c \in Descriptor /\ c # NoDescriptor /\ ~c.error
  BY <1>1, DescriptorExists
<1>3. PICK d : d = [c EXCEPT !.channels = @ \ gone]
  OBVIOUS
<1>4. /\ d \in Descriptor
      /\ d.channels = c.channels \ gone /\ d.alternative = c.alternative /\ d.at = c.at
      /\ d.ch = c.ch /\ d.dying = c.dying /\ d.error = c.error
  BY <1>2, <1>3 DEF Descriptor
<1>5. CASE d.channels # {}
  <2>1. v = WithDescriptor(w, s, d)
    BY <1>1, <1>3, <1>5 DEF DeregisterRTPInterface, WithDescriptor
  <2>2. v \in Server /\ SameBut(w, v, s, d)
    BY <1>4, <2>1, DescriptorChanges
  <2>3. v.descriptor[s] = d /\ \A o \in Sockets \ {s} : v.descriptor[o] = w.descriptor[o]
    BY <2>2 DEF Server, SameBut
  <2> QED BY <1>1, <1>4, <1>5, <2>2, <2>3 DEF SameBut, Deregistered
<1>6. CASE d.channels = {} /\ w.inLoop = s
  <2>1. PICK e : e = [d EXCEPT !.dying = TRUE]
    OBVIOUS
  <2>2. v = WithDescriptor(w, s, e)
    BY <1>1, <1>3, <1>6, <2>1 DEF DeregisterRTPInterface, WithDescriptor
  <2>3. /\ e \in Descriptor
        /\ e.channels = d.channels /\ e.alternative = d.alternative /\ e.at = d.at
        /\ e.ch = d.ch /\ e.dying /\ e.error = d.error
    BY <1>4, <2>1 DEF Descriptor
  <2>4. v \in Server /\ SameBut(w, v, s, e)
    BY <2>2, <2>3, DescriptorChanges
  <2>5. v.descriptor[s] = e /\ \A o \in Sockets \ {s} : v.descriptor[o] = w.descriptor[o]
    BY <2>4 DEF Server, SameBut
  <2> QED BY <1>1, <1>4, <1>6, <2>3, <2>4, <2>5 DEF SameBut, Deregistered
<1>7. CASE d.channels = {} /\ w.inLoop # s
  <2>1. PICK u : u = WithDescriptor(w, s, d)
    OBVIOUS
  <2>2. u \in Server /\ SameBut(w, u, s, d)
    BY <1>4, <2>1, DescriptorChanges
  <2>3. u.descriptor[s] = d /\ \A o \in Sockets \ {s} : u.descriptor[o] = w.descriptor[o]
    BY <2>2 DEF Server, SameBut
  <2>4. v = DeleteDescriptor(u, s)
    BY <1>1, <1>3, <1>7, <2>1 DEF DeregisterRTPInterface, WithDescriptor
  <2>5. u.descriptor[s] # NoDescriptor
    BY <1>4, <2>3, NoDescriptorAssumption
  <2>6. v \in Server /\ Deleted(u, v, s)
    BY <2>2, <2>4, <2>5, DeleteFields
  <2>7. v.streams = w.streams
    BY <1>7, <2>2, <2>3, <2>6 DEF Server, SameBut, Deleted
  <2>8. v.open = w.open
    BY <1>2, <1>4, <2>2, <2>3, <2>6 DEF SameBut, Deleted
  <2>9. /\ v.descriptor[s] = NoDescriptor
        /\ \A o \in Sockets \ {s} : /\ v.descriptor[o] = w.descriptor[o]
                                    /\ v.handler[o] = w.handler[o]
    BY <2>2, <2>3, <2>6 DEF Server, SameBut, Deleted
  <2>10. v.handler[s] = IF c.alternative THEN "rtsp" ELSE "none"
    BY <1>2, <1>4, <2>2, <2>3, <2>6 DEF Server, SameBut, Deleted
  <2>11. c.channels \subseteq gone
    BY <1>4, <1>7
  <2> QED BY <1>1, <1>7, <2>2, <2>6, <2>7, <2>8, <2>9, <2>10, <2>11 DEF SameBut, Deleted, Deregistered
<1>8. QED
  BY <1>5, <1>6, <1>7

-----------------------------------------------------------------------------
(* Operations on a socket keep what the tables say of it.                  *)

(* If s still has a descriptor, it is at the same place as before. *)
Continues(w, v, s) ==
  v.descriptor[s] # NoDescriptor =>
    /\ w.descriptor[s] # NoDescriptor
    /\ v.descriptor[s].at = w.descriptor[s].at
    /\ v.descriptor[s].ch = w.descriptor[s].ch

(* And it has no new channels. *)
Fades(w, v, s) ==
  v.descriptor[s] # NoDescriptor =>
    Continues(w, v, s) /\ v.descriptor[s].channels \subseteq w.descriptor[s].channels

(* A step of an operation on s that keeps the tables, all but Heard. *)
Keeps(w, v, s) ==
  /\ v \in Server /\ Elsewhere(w, v, s)
  /\ v.open = w.open /\ v.inLoop = w.inLoop
  /\ Agrees(v, s) /\ Named(v, s)

(* The records of streams go first. *)
Forgotten(w, s, gone) ==
  [w EXCEPT !.streams = [i \in Interfaces |-> IF i \in gone THEN @[i] \ {s} ELSE @[i]]]

LEMMA ForgottenFields ==
  ASSUME NEW w \in Server, NEW s \in Sockets, NEW gone \in SUBSET Interfaces,
         NEW v, v = Forgotten(w, s, gone)
  PROVE  /\ v \in Server
         /\ v.streams = [i \in Interfaces |->
                           IF i \in gone THEN w.streams[i] \ {s} ELSE w.streams[i]]
         /\ v.descriptor = w.descriptor /\ v.handler = w.handler /\ v.open = w.open
         /\ v.next = w.next /\ v.inLoop = w.inLoop /\ v.cleared = w.cleared
<1>1. PICK streams : streams = [i \in Interfaces |->
                                  IF i \in gone THEN w.streams[i] \ {s} ELSE w.streams[i]]
  OBVIOUS
<1>2. streams \in [Interfaces -> SUBSET Sockets]
  BY <1>1 DEF Server
<1>3. v = [open |-> w.open, handler |-> w.handler, descriptor |-> w.descriptor,
           streams |-> streams, next |-> w.next, inLoop |-> w.inLoop, cleared |-> w.cleared]
  BY <1>1 DEF Server, Forgotten
<1>4. v \in Server
  BY <1>2, <1>3 DEF Server
<1>5. QED
  BY <1>1, <1>3, <1>4

(* removeStreamSocket, on several interfaces. *)
Removed(w, v, s, those) ==
  /\ Keeps(w, v, s) /\ Continues(w, v, s)
  /\ v.cleared = w.cleared
  /\ v.descriptor[s] # NoDescriptor =>
       v.descriptor[s].alternative = w.descriptor[s].alternative
  /\ v.descriptor[s] = NoDescriptor /\ w.descriptor[s] # NoDescriptor =>
       v.handler[s] = IF w.descriptor[s].alternative THEN "rtsp" ELSE "none"
  /\ v.descriptor[s] = NoDescriptor /\ w.descriptor[s] = NoDescriptor =>
       v.handler[s] = w.handler[s]
  /\ \A i \in Interfaces :
       s \in v.streams[i] <=> i \notin those /\ s \in w.streams[i]

LEMMA RemoveKeeps ==
  ASSUME NEW w \in Server, NEW s \in Sockets, NEW those \in SUBSET Interfaces,
         Agrees(w, s), Named(w, s),
         NEW v, v = RemoveStreamSocket(w, those, s)
  PROVE  Removed(w, v, s, those)
<1>1. PICK gone : gone = {i \in those : s \in w.streams[i]}
  OBVIOUS
<1>2. gone \in SUBSET Interfaces
  BY <1>1
<1>3. CASE gone = {}
  <2>1. v = w
    BY <1>1, <1>3 DEF RemoveStreamSocket
  <2>2. Elsewhere(w, v, s)
    BY <2>1 DEF Elsewhere
  <2>3. \A i \in those : s \notin w.streams[i]
    BY <1>1, <1>3
  <2> QED BY <2>1, <2>2, <2>3 DEF Keeps, Continues, Removed
<1>4. CASE gone # {}
  <2>1. PICK u : u = Forgotten(w, s, gone)
    OBVIOUS
  <2>2. /\ u \in Server
        /\ u.streams = [i \in Interfaces |->
                           IF i \in gone THEN w.streams[i] \ {s} ELSE w.streams[i]]
        /\ u.descriptor = w.descriptor /\ u.handler = w.handler /\ u.open = w.open
        /\ u.next = w.next /\ u.inLoop = w.inLoop /\ u.cleared = w.cleared
    BY <1>2, <2>1, ForgottenFields
  <2>3. v = DeregisterRTPInterface(u, s, gone)
    BY <1>1, <1>4, <2>1 DEF RemoveStreamSocket, Forgotten
  <2>4. /\ w.descriptor[s] # NoDescriptor /\ ~w.descriptor[s].error
        /\ s \in w.open /\ w.handler[s] = "tcp"
        /\ w.descriptor[s].dying => w.inLoop = s
        /\ \A i \in Interfaces : s \in w.streams[i] <=> i \in w.descriptor[s].channels
    BY <1>1, <1>4 DEF Agrees
  <2>5. v \in Server /\ Deregistered(u, v, s, gone)
    BY <1>2, <2>2, <2>3, <2>4, DeregisterFields
  <2>6. \A i \in Interfaces : s \in v.streams[i] <=> i \notin those /\ s \in w.streams[i]
    BY <1>1, <2>2, <2>5 DEF Deregistered
  <2>7. Elsewhere(w, v, s)
    BY <2>2, <2>5 DEF Deregistered, Elsewhere
  <2>8. Agrees(v, s)
    <3>1. CASE v.descriptor[s] = NoDescriptor
      <4>1. w.descriptor[s].channels \subseteq gone
        BY <2>2, <2>5, <3>1, NoDescriptorAssumption DEF Deregistered
      <4>2. \A i \in Interfaces : s \notin v.streams[i]
        BY <1>1, <2>4, <2>6, <4>1
      <4>3. v.open = w.open /\ v.handler[s] # "tcp"
        BY <2>2, <2>5, <3>1, NoDescriptorAssumption DEF Deregistered
      <4> QED BY <2>4, <3>1, <4>2, <4>3 DEF Agrees
    <3>2. CASE v.descriptor[s] # NoDescriptor
      <4>1. /\ v.descriptor[s].channels = w.descriptor[s].channels \ gone
            /\ v.descriptor[s].dying => w.descriptor[s].dying \/ w.inLoop = s
            /\ v.descriptor[s].channels = {} => v.descriptor[s].dying
            /\ v.descriptor[s].error = w.descriptor[s].error
            /\ v.handler[s] = w.handler[s]
            /\ v.open = w.open /\ v.inLoop = w.inLoop
        BY <2>2, <2>5, <3>2 DEF Deregistered
      <4>2. \A i \in Interfaces : s \in v.streams[i] <=> i \in v.descriptor[s].channels
        BY <1>1, <2>4, <2>6, <4>1
      <4> QED BY <2>4, <3>2, <4>1, <4>2 DEF Agrees
    <3> QED BY <3>1, <3>2
  <2>9. Named(v, s)
    BY <2>2, <2>4, <2>5 DEF Deregistered, Named
  <2>11. /\ v.open = w.open /\ v.inLoop = w.inLoop /\ v.cleared = w.cleared
         /\ Continues(w, v, s)
         /\ v.descriptor[s] # NoDescriptor =>
              v.descriptor[s].alternative = w.descriptor[s].alternative
    BY <2>2, <2>4, <2>5 DEF Deregistered, Continues
  <2>12. v.descriptor[s] = NoDescriptor =>
           v.handler[s] = IF w.descriptor[s].alternative THEN "rtsp" ELSE "none"
    BY <2>2, <2>5, NoDescriptorAssumption DEF Deregistered
  <2> QED BY <2>4, <2>5, <2>6, <2>7, <2>8, <2>9, <2>11, <2>12 DEF Keeps, Removed
<1>5. QED
  BY <1>3, <1>4

(* setServerRequestAlternativeByteHandler and its opposite, of a descriptor. *)
WithAlternative(w, s, alternative, cleared) ==
  [w EXCEPT !.descriptor[s].alternative = alternative, !.cleared = cleared]

LEMMA AlternativeKeeps ==
  ASSUME NEW w \in Server, NEW s \in Sockets, w.descriptor[s] # NoDescriptor,
         Agrees(w, s), Named(w, s),
         NEW alternative \in BOOLEAN, NEW cleared \in SUBSET Sockets, 
         \A o \in Sockets \ {s} : o \in cleared <=> o \in w.cleared,
         NEW v, v = WithAlternative(w, s, alternative, cleared)
  PROVE  /\ Keeps(w, v, s) /\ Continues(w, v, s)
         /\ v.descriptor[s] # NoDescriptor /\ v.descriptor[s].alternative = alternative
         /\ v.streams = w.streams /\ v.cleared = cleared
<1>1. PICK c : c = w.descriptor[s]
  OBVIOUS
<1>2. c \in Descriptor
  BY <1>1, DescriptorExists
<1>3. PICK d : d = [c EXCEPT !.alternative = alternative]
  OBVIOUS
<1>4. /\ d \in Descriptor
      /\ d.channels = c.channels /\ d.alternative = alternative /\ d.at = c.at
      /\ d.ch = c.ch /\ d.dying = c.dying /\ d.error = c.error
  BY <1>2, <1>3 DEF Descriptor
<1>5. PICK descriptor : descriptor = [w.descriptor EXCEPT ![s] = d]
  OBVIOUS
<1>6. v = [open |-> w.open, handler |-> w.handler, descriptor |-> descriptor,
           streams |-> w.streams, next |-> w.next, inLoop |-> w.inLoop, cleared |-> cleared]
  BY <1>1, <1>3, <1>5 DEF WithAlternative, Server
<1>7. v \in Server
  <2>1. descriptor \in [Sockets -> Descriptor \cup {NoDescriptor}]
    BY <1>4, <1>5 DEF Server
  <2> QED BY <1>6, <2>1 DEF Server
<1>8. /\ v.descriptor[s] = d /\ d # NoDescriptor
      /\ \A o \in Sockets \ {s} : v.descriptor[o] = w.descriptor[o]
  BY <1>4, <1>5, <1>6, NoDescriptorAssumption DEF Server
<1>9. /\ v.handler = w.handler /\ v.open = w.open /\ v.streams = w.streams
      /\ v.next = w.next /\ v.inLoop = w.inLoop /\ v.cleared = cleared
  BY <1>6
<1>10. Elsewhere(w, v, s)
  BY <1>8, <1>9 DEF Elsewhere
<1>11. Agrees(v, s)
  BY <1>1, <1>4, <1>8, <1>9 DEF Agrees
<1>12. Named(v, s) /\ Continues(w, v, s)
  BY <1>1, <1>4, <1>8, <1>9 DEF Named, Continues
<1>13. QED
  BY <1>4, <1>7, <1>8, <1>9, <1>10, <1>11, <1>12 DEF Keeps

(* Heard follows from the rest of what a step keeps. *)
LEMMA KeptElsewhere ==
  ASSUME NEW w, NEW v, NEW s \in Sockets, Tables(w), Keeps(w, v, s), Heard(v, s)
  PROVE  Tables(v)
<1>1. Good(v, s)
  BY DEF Keeps, Good
<1>2. v \in Server /\ Elsewhere(w, v, s)
  BY DEF Keeps
<1>3. QED
  BY <1>1, <1>2, TablesKept

(* endPlaying, for several tracks. *)
LEMMA EndPlayingKeeps ==
  ASSUME NEW w, NEW s \in Sockets, NEW ended \in SUBSET Tracks, Tables(w),
         NEW v, v = EndPlaying(w, ended, s)
  PROVE  /\ Tables(v) /\ Keeps(w, v, s) /\ Continues(w, v, s)
         /\ \A i \in Interfaces : s \in v.streams[i] <=> i[1] \notin ended /\ s \in w.streams[i]
         /\ v.descriptor[s] # NoDescriptor => ~v.descriptor[s].alternative
<1>1. PICK u : u = ClearAlternativeByteHandler(w, s)
  OBVIOUS
<1>2. w \in Server /\ Good(w, s)
  BY DEF Tables
<1>3. /\ Keeps(w, u, s) /\ Continues(w, u, s) /\ u.streams = w.streams
      /\ u.descriptor[s] # NoDescriptor <=> w.descriptor[s] # NoDescriptor
      /\ u.descriptor[s] # NoDescriptor => ~u.descriptor[s].alternative
      /\ IF w.descriptor[s] = NoDescriptor THEN u = w ELSE s \in u.cleared
  <2>1. CASE w.descriptor[s] = NoDescriptor
    <3>1. u = w
      BY <1>1, <2>1 DEF ClearAlternativeByteHandler
    <3>2. Elsewhere(w, u, s)
      BY <3>1 DEF Elsewhere
    <3> QED BY <1>2, <2>1, <3>1, <3>2 DEF Good, Keeps, Continues
  <2>2. CASE w.descriptor[s] # NoDescriptor
    <3>1. PICK cleared : cleared = w.cleared \cup {s}
      OBVIOUS
    <3>2. PICK no \in BOOLEAN : no = FALSE
      OBVIOUS
    <3>3. u = WithAlternative(w, s, no, cleared)
      BY <1>1, <2>2, <3>1, <3>2 DEF ClearAlternativeByteHandler, WithAlternative
    <3>4. cleared \in SUBSET Sockets /\ \A o \in Sockets \ {s} : o \in cleared <=> o \in w.cleared
      BY <1>2, <3>1 DEF Server
    <3>5. Agrees(w, s) /\ Named(w, s)
      BY <1>2 DEF Good
    <3>6. /\ Keeps(w, u, s) /\ Continues(w, u, s)
          /\ u.descriptor[s] # NoDescriptor /\ u.descriptor[s].alternative = no
          /\ u.streams = w.streams /\ u.cleared = cleared
      BY <1>2, <2>2, <3>3, <3>4, <3>5, AlternativeKeeps
    <3>7. ~u.descriptor[s].alternative
      BY ONLY <3>2, <3>6, Zenon
    <3> QED BY <2>2, <3>1, <3>6, <3>7
  <2> QED BY <2>1, <2>2
<1>4. u \in Server /\ Agrees(u, s) /\ Named(u, s)
  BY <1>3 DEF Keeps
<1>5. PICK those : those = ended \X {"rtp", "rtcp"}
  OBVIOUS
<1>6. those \in SUBSET Interfaces /\ \A i \in Interfaces : i \in those <=> i[1] \in ended
  BY <1>5 DEF Interfaces
<1>7. v = RemoveStreamSocket(u, those, s)
  BY <1>1, <1>5 DEF EndPlaying
<1>8. Removed(u, v, s, those)
  BY <1>4, <1>6, <1>7, RemoveKeeps
<1>9. Keeps(w, v, s) /\ Continues(w, v, s)
  BY <1>3, <1>8 DEF Keeps, Continues, Elsewhere, Removed
<1>10. Heard(v, s)
  <2>1. CASE w.descriptor[s] = NoDescriptor
    <3>1. u = w /\ v.descriptor[s] = NoDescriptor
      BY <1>3, <1>8, <2>1 DEF Continues, Removed
    <3>2. v.handler[s] = w.handler[s] /\ v.open = w.open /\ v.cleared = w.cleared
      BY <1>8, <2>1, <3>1 DEF Keeps, Removed
    <3> QED BY <1>2, <2>1, <3>1, <3>2 DEF Good, Heard
  <2>2. CASE w.descriptor[s] # NoDescriptor
    BY <1>3, <1>8, <2>2 DEF Heard, Removed
  <2> QED BY <2>1, <2>2
<1>11. Tables(v)
  BY <1>9, <1>10, KeptElsewhere
<1>12. QED
  BY <1>3, <1>6, <1>8, <1>9, <1>11 DEF Continues, Removed

LEMMA NewDescriptorType == NewDescriptor \in Descriptor /\ NewDescriptor # NoDescriptor
<1>1. NewDescriptor \in Descriptor
  BY DEF NewDescriptor, Descriptor, States, Channel
<1>2. QED
  BY <1>1, NoDescriptorAssumption

(* addStreamSocket. *)
LEMMA AddKeeps ==
  ASSUME NEW w \in Server, NEW s \in Sockets, NEW i \in Interfaces, s \in w.open,
         Agrees(w, s), Named(w, s),
         NEW v, v = AddStreamSocket(w, i, s)
  PROVE  /\ Keeps(w, v, s) /\ v.cleared = w.cleared
         /\ v.descriptor[s] # NoDescriptor
         /\ w.descriptor[s] # NoDescriptor =>
              /\ v.descriptor[s].alternative = w.descriptor[s].alternative
              /\ Continues(w, v, s)
         /\ w.descriptor[s] = NoDescriptor => v.descriptor[s].at = "dollar"
<1>1. CASE s \in w.streams[i]
  <2>1. v = w
    BY <1>1 DEF AddStreamSocket
  <2>2. Elsewhere(w, v, s)
    BY <2>1 DEF Elsewhere
  <2>3. w.descriptor[s] # NoDescriptor
    BY <1>1 DEF Agrees
  <2> QED BY <2>1, <2>2, <2>3 DEF Keeps, Continues
<1>2. CASE s \notin w.streams[i]
  <2>1. PICK c : c = IF w.descriptor[s] = NoDescriptor THEN NewDescriptor ELSE w.descriptor[s]
    OBVIOUS
  <2>2. c \in Descriptor
    BY <2>1, NewDescriptorType, DescriptorExists
  <2>3. PICK d : d = [c EXCEPT !.channels = @ \cup {i}]
    OBVIOUS
  <2>4. /\ d \in Descriptor /\ d # NoDescriptor
        /\ d.channels = c.channels \cup {i} /\ d.alternative = c.alternative /\ d.at = c.at
        /\ d.ch = c.ch /\ d.dying = c.dying /\ d.error = c.error
    <3>1. d \in Descriptor
      BY <2>2, <2>3 DEF Descriptor
    <3> QED BY <2>2, <2>3, <3>1, NoDescriptorAssumption DEF Descriptor
  <2>5. PICK descriptor : descriptor = [w.descriptor EXCEPT ![s] = d]
    OBVIOUS
  <2>6. PICK handler : handler = [w.handler EXCEPT ![s] = IF c.channels = {} THEN "tcp" ELSE @]
    OBVIOUS
  <2>7. PICK streams : streams = [w.streams EXCEPT ![i] = @ \cup {s}]
    OBVIOUS
  <2>9. PICK u : u = [w EXCEPT !.streams[i] = @ \cup {s}]
    OBVIOUS
  <2>10. u = [open |-> w.open, handler |-> w.handler, descriptor |-> w.descriptor,
              streams |-> streams, next |-> w.next, inLoop |-> w.inLoop, cleared |-> w.cleared]
    BY <2>7, <2>9 DEF Server
  <2>11. v = RegisterRTPInterface(u, s, i)
    BY <1>2, <2>9 DEF AddStreamSocket
  <2>12. v = [open |-> w.open, handler |-> handler, descriptor |-> descriptor,
              streams |-> streams, next |-> w.next, inLoop |-> w.inLoop, cleared |-> w.cleared]
    BY <2>1, <2>3, <2>5, <2>6, <2>10, <2>11 DEF RegisterRTPInterface
  <2>13. v \in Server
    <3>1. /\ descriptor \in [Sockets -> Descriptor \cup {NoDescriptor}]
          /\ handler \in [Sockets -> {"none", "rtsp", "tcp"}]
          /\ streams \in [Interfaces -> SUBSET Sockets]
      BY <2>4, <2>5, <2>6, <2>7 DEF Server
    <3> QED BY <2>12, <3>1 DEF Server
  <2>14. /\ v.descriptor[s] = d
         /\ \A o \in Sockets \ {s} : v.descriptor[o] = w.descriptor[o] /\ v.handler[o] = w.handler[o]
         /\ v.handler[s] = IF c.channels = {} THEN "tcp" ELSE w.handler[s]
    BY <2>5, <2>6, <2>12 DEF Server
  <2>15. \A j \in Interfaces :
           /\ s \in v.streams[j] <=> j = i \/ s \in w.streams[j]
           /\ \A o \in Sockets \ {s} : o \in v.streams[j] <=> o \in w.streams[j]
    BY <2>7, <2>12 DEF Server
  <2>16. v.open = w.open /\ v.next = w.next /\ v.inLoop = w.inLoop /\ v.cleared = w.cleared
    BY <2>12
  <2>17. Elsewhere(w, v, s)
    BY <2>14, <2>15, <2>16 DEF Elsewhere
  <2>19. CASE w.descriptor[s] = NoDescriptor
    <3>1. c = NewDescriptor
      BY <2>1, <2>19
    <3>2. /\ c.channels = {} /\ ~c.dying /\ ~c.error /\ c.at = "dollar"
      BY <3>1 DEF NewDescriptor
    <3>3. \A j \in Interfaces : s \in v.streams[j] <=> j \in d.channels
      BY <2>4, <2>15, <2>19, <3>2 DEF Agrees
    <3>4. Agrees(v, s)
      BY <2>4, <2>14, <2>16, <3>2, <3>3 DEF Agrees
    <3>5. Named(v, s)
      BY <2>4, <2>14, <3>2 DEF Named
    <3> QED BY <2>4, <2>13, <2>14, <2>16, <2>17, <2>19, <3>2, <3>4, <3>5 DEF Keeps
  <2>20. CASE w.descriptor[s] # NoDescriptor
    <3>1. c = w.descriptor[s]
      BY <2>1, <2>20
    <3>2. \A j \in Interfaces : s \in v.streams[j] <=> j \in d.channels
      BY <2>4, <2>15, <2>20, <3>1 DEF Agrees
    <3>3. Agrees(v, s)
      BY <2>4, <2>14, <2>16, <2>20, <3>1, <3>2 DEF Agrees
    <3>4. Named(v, s) /\ Continues(w, v, s)
      BY <2>4, <2>14, <2>20, <3>1 DEF Named, Continues
    <3> QED BY <2>4, <2>13, <2>14, <2>16, <2>17, <2>20, <3>1, <3>3, <3>4 DEF Keeps
  <2> QED BY <2>19, <2>20
<1>3. QED
  BY <1>1, <1>2

(* The descriptor of s, if there is one, is between requests and packets. *)
AtDollar(w, s) == w.descriptor[s] # NoDescriptor => w.descriptor[s].at = "dollar"

LEMMA KeepsTransitive ==
  ASSUME NEW u, NEW v, NEW w, NEW s \in Sockets, Keeps(u, v, s), Keeps(v, w, s)
  PROVE  Keeps(u, w, s)
<1>1. Elsewhere(u, w, s)
  BY DEF Keeps, Elsewhere
<1>2. QED
  BY <1>1 DEF Keeps

(* startPlaying. *)
LEMMA StartPlayingKeeps ==
  ASSUME NEW w, NEW s \in Sockets, NEW t \in Tracks, Tables(w), s \in w.open, AtDollar(w, s),
         NEW v, v = StartPlaying(w, t, s)
  PROVE  Tables(v) /\ Keeps(w, v, s) /\ AtDollar(v, s)
<1>1. w \in Server /\ Agrees(w, s) /\ Named(w, s)
  BY DEF Tables, Good
<1>2. Rtp(t) \in Interfaces /\ Rtcp(t) \in Interfaces
  BY DEF Rtp, Rtcp, Interfaces
<1>3. PICK x : x = AddStreamSocket(w, Rtp(t), s)
  OBVIOUS
<1>4. Keeps(w, x, s) /\ x.descriptor[s] # NoDescriptor /\ AtDollar(x, s)
  BY <1>1, <1>2, <1>3, AddKeeps DEF AtDollar, Continues
<1>5. x \in Server /\ s \in x.open /\ Agrees(x, s) /\ Named(x, s)
  BY <1>4 DEF Keeps
<1>6. PICK yes \in BOOLEAN : yes = TRUE
  OBVIOUS
<1>7. PICK cleared : cleared = x.cleared \ {s}
  OBVIOUS
<1>8. PICK y : y = SetAlternativeByteHandler(x, s)
  OBVIOUS
<1>9. y = WithAlternative(x, s, yes, cleared)
  BY <1>4, <1>6, <1>7, <1>8 DEF SetAlternativeByteHandler, WithAlternative
<1>10. cleared \in SUBSET Sockets /\ \A o \in Sockets \ {s} : o \in cleared <=> o \in x.cleared
  BY <1>5, <1>7 DEF Server
<1>11. /\ Keeps(x, y, s) /\ Continues(x, y, s)
       /\ y.descriptor[s] # NoDescriptor /\ y.descriptor[s].alternative = yes
  BY <1>4, <1>5, <1>9, <1>10, AlternativeKeeps
<1>12. y.descriptor[s].alternative
  BY ONLY <1>6, <1>11, Zenon
<1>13. y \in Server /\ s \in y.open /\ Agrees(y, s) /\ Named(y, s)
  BY <1>5, <1>11 DEF Keeps
<1>14. v = AddStreamSocket(y, Rtcp(t), s)
  BY <1>3, <1>8 DEF StartPlaying
<1>15. /\ Keeps(y, v, s) /\ Continues(y, v, s) /\ v.descriptor[s] # NoDescriptor
       /\ v.descriptor[s].alternative = y.descriptor[s].alternative
  BY <1>2, <1>11, <1>13, <1>14, AddKeeps
<1>16. Keeps(w, v, s)
  BY <1>4, <1>11, <1>15, KeepsTransitive
<1>17. AtDollar(v, s)
  BY <1>4, <1>11, <1>15 DEF AtDollar, Continues
<1>18. Heard(v, s)
  BY <1>12, <1>15 DEF Heard
<1>19. QED
  BY <1>16, <1>17, <1>18, KeptElsewhere

-----------------------------------------------------------------------------
(* What a request on s may lead to, in the loop of s or outside.           *)

(* The connection is gone, except for a descriptor that is about to go. *)
Closed(w, v, s) ==
  /\ v \in Server /\ Elsewhere(w, v, s)
  /\ v.open = w.open \ {s} /\ v.inLoop = w.inLoop
  /\ v.handler[s] = "none" /\ \A i \in Interfaces : s \notin v.streams[i]
  /\ v.descriptor[s] # NoDescriptor =>
       /\ w.inLoop = s /\ v.descriptor[s].dying
       /\ ~v.descriptor[s].alternative /\ ~v.descriptor[s].error

LEMMA CloseConnectionCloses ==
  ASSUME NEW w, NEW s \in Sockets, Tables(w),
         w.descriptor[s] # NoDescriptor => ~w.descriptor[s].dying,
         NEW v, v = CloseConnection(w, s)
  PROVE  Closed(w, v, s)
<1>1. w \in Server /\ Good(w, s)
  BY DEF Tables
<1>2. PICK used : used = {t \in Tracks : s \in w.streams[Rtp(t)] \cup w.streams[Rtcp(t)]}
  OBVIOUS
<1>3. used \in SUBSET Tracks
  BY <1>2
<1>4. \A i \in Interfaces : s \in w.streams[i] => i[1] \in used
  BY <1>2 DEF Interfaces, Rtp, Rtcp
<1>5. PICK u : u = IF used = {} THEN w ELSE EndPlaying(w, used, s)
  OBVIOUS
<1>6. /\ Tables(u) /\ Keeps(w, u, s) /\ \A i \in Interfaces : s \notin u.streams[i]
      /\ u.descriptor[s] # NoDescriptor => ~u.descriptor[s].alternative
  <2>1. CASE used = {}
    <3>1. u = w /\ \A i \in Interfaces : s \notin w.streams[i]
      BY <1>4, <1>5, <2>1
    <3>2. w.descriptor[s] # NoDescriptor => w.descriptor[s].channels = {}
      <4>1. w.descriptor[s] # NoDescriptor => w.descriptor[s].channels \subseteq Interfaces
        BY <1>1, DescriptorExists DEF Descriptor
      <4> QED BY <1>1, <3>1, <4>1 DEF Good, Agrees
    <3>3. w.descriptor[s] = NoDescriptor
      BY <1>1, <3>2 DEF Good, Agrees
    <3>4. Keeps(w, u, s)
      BY <1>1, <3>1 DEF Keeps, Elsewhere, Good
    <3> QED BY <3>1, <3>3, <3>4
  <2>2. CASE used # {}
    <3>1. u = EndPlaying(w, used, s)
      BY <1>5, <2>2
    <3> QED BY <1>3, <1>4, <3>1, EndPlayingKeeps
  <2> QED BY <2>1, <2>2
<1>7. /\ u \in Server /\ Elsewhere(w, u, s) /\ Agrees(u, s) /\ u.open = w.open /\ u.inLoop = w.inLoop
  BY <1>6 DEF Keeps
<1>8. u.descriptor[s] # NoDescriptor =>
        /\ w.inLoop = s /\ u.descriptor[s].dying
        /\ ~u.descriptor[s].alternative /\ ~u.descriptor[s].error
  <2>1. ASSUME u.descriptor[s] # NoDescriptor PROVE u.descriptor[s].channels = {}
    <3>1. u.descriptor[s].channels \subseteq Interfaces
      BY <1>7, <2>1, DescriptorExists DEF Descriptor
    <3> QED BY <1>6, <1>7, <2>1, <3>1 DEF Agrees
  <2> QED BY <1>6, <1>7, <2>1 DEF Agrees
<1>9. PICK handler : handler = [u.handler EXCEPT ![s] = "none"]
  OBVIOUS
<1>10. PICK open : open = u.open \ {s}
  OBVIOUS
<1>11. v = [open |-> open, handler |-> handler, descriptor |-> u.descriptor,
            streams |-> u.streams, next |-> u.next, inLoop |-> u.inLoop, cleared |-> u.cleared]
  BY <1>2, <1>5, <1>7, <1>9, <1>10 DEF CloseConnection, Server
<1>12. v \in Server
  <2>1. handler \in [Sockets -> {"none", "rtsp", "tcp"}] /\ open \in SUBSET Sockets
    BY <1>7, <1>9, <1>10 DEF Server
  <2> QED BY <1>7, <1>11, <2>1 DEF Server
<1>13. v.handler[s] = "none" /\ \A o \in Sockets \ {s} : v.handler[o] = u.handler[o]
  BY <1>7, <1>9, <1>11 DEF Server
<1>14. Elsewhere(w, v, s)
  BY <1>7, <1>10, <1>11, <1>13 DEF Elsewhere
<1>15. QED
  BY <1>6, <1>7, <1>8, <1>10, <1>11, <1>12, <1>13, <1>14 DEF Closed

LEMMA RequestedCases ==
  ASSUME NEW w, NEW s \in Sockets, Tables(w), s \in w.open, AtDollar(w, s),
         w.descriptor[s] # NoDescriptor => ~w.descriptor[s].dying,
         NEW v \in Requested(w, s)
  PROVE  Closed(w, v, s) \/ (Tables(v) /\ Keeps(w, v, s) /\ AtDollar(v, s))
<1>1. \/ \E t \in Tracks : v = StartPlaying(w, t, s)
      \/ \E t \in Tracks : v = EndPlaying(w, {t}, s)
      \/ \E t \in Tracks : v = StartPlaying(EndPlaying(w, {t}, s), t, s)
      \/ v = CloseConnection(w, s)
  BY DEF Requested
<1>2. CASE \E t \in Tracks : v = StartPlaying(w, t, s)
  BY <1>2, StartPlayingKeeps
<1>3. ASSUME NEW t \in Tracks, NEW u, u = EndPlaying(w, {t}, s)
      PROVE  Tables(u) /\ Keeps(w, u, s) /\ AtDollar(u, s)
  <2>1. Tables(u) /\ Keeps(w, u, s) /\ Continues(w, u, s)
    BY <1>3, EndPlayingKeeps
  <2> QED BY <2>1 DEF AtDollar, Continues
<1>4. CASE \E t \in Tracks : v = EndPlaying(w, {t}, s)
  BY <1>3, <1>4
<1>5. CASE \E t \in Tracks : v = StartPlaying(EndPlaying(w, {t}, s), t, s)
  <2>1. PICK t \in Tracks : v = StartPlaying(EndPlaying(w, {t}, s), t, s)
    BY <1>5
  <2>2. PICK u : u = EndPlaying(w, {t}, s)
    OBVIOUS
  <2>3. Tables(u) /\ Keeps(w, u, s) /\ AtDollar(u, s)
    BY <1>3, <2>2
  <2>4. s \in u.open /\ v = StartPlaying(u, t, s)
    BY <2>1, <2>2, <2>3 DEF Keeps
  <2>5. Tables(v) /\ Keeps(u, v, s) /\ AtDollar(v, s)
    BY <2>3, <2>4, StartPlayingKeeps
  <2> QED BY <2>3, <2>5, KeepsTransitive
<1>6. CASE v = CloseConnection(w, s)
  BY <1>6, CloseConnectionCloses
<1>7. QED
  BY <1>1, <1>2, <1>4, <1>5, <1>6

(* What every step with the tables of s alone comes to. *)
Handled(w, v, s) ==
  /\ Tables(v) /\ Elsewhere(w, v, s)
  /\ v.open \subseteq w.open /\ v.inLoop = NoSocket

(* A request that the connection reads itself. *)
LEMMA RequestHandled ==
  ASSUME NEW w, NEW s \in Sockets, Tables(w), w.inLoop = NoSocket, s \in w.open, AtDollar(w, s),
         NEW v \in Requested(w, s)
  PROVE  Handled(w, v, s) /\ AtDollar(v, s)
<1>1. w.descriptor[s] # NoDescriptor => ~w.descriptor[s].dying
  BY NamesAssumption DEF Tables, Good, Agrees
<1>2. Closed(w, v, s) \/ (Tables(v) /\ Keeps(w, v, s) /\ AtDollar(v, s))
  BY <1>1, RequestedCases
<1>3. CASE Closed(w, v, s)
  <2>1. v.descriptor[s] = NoDescriptor
    BY <1>3, NamesAssumption DEF Closed
  <2>2. Good(v, s)
    BY <1>3, <2>1 DEF Closed, Good, Agrees, Heard, Named
  <2>3. v \in Server /\ Elsewhere(w, v, s) /\ v.open \subseteq w.open /\ v.inLoop = NoSocket
    BY <1>3 DEF Closed
  <2>4. Tables(v)
    BY <2>2, <2>3, TablesKept
  <2> QED BY <2>1, <2>3, <2>4 DEF Handled, AtDollar
<1>4. CASE Tables(v) /\ Keeps(w, v, s) /\ AtDollar(v, s)
  BY <1>4 DEF Handled, Keeps
<1>5. QED
  BY <1>2, <1>3, <1>4

(* The end of the loop of s. *)
LoopLeft(w) == [w EXCEPT !.inLoop = NoSocket]

LEMMA LoopLeftFields ==
  ASSUME NEW w \in Server, NEW v, v = LoopLeft(w)
  PROVE  /\ v \in Server /\ v.inLoop = NoSocket
         /\ v.open = w.open /\ v.handler = w.handler /\ v.descriptor = w.descriptor
         /\ v.streams = w.streams /\ v.next = w.next /\ v.cleared = w.cleared
BY DEF Server, LoopLeft

LEMMA EndLoopGood ==
  ASSUME NEW w \in Server, NEW s \in Sockets, w.inLoop = s,
         \/ Good(w, s)
         \/ /\ s \notin w.open /\ w.handler[s] = "none"
            /\ \A i \in Interfaces : s \notin w.streams[i]
            /\ w.descriptor[s] # NoDescriptor =>
                 /\ w.descriptor[s].dying
                 /\ ~w.descriptor[s].alternative /\ ~w.descriptor[s].error,
         NEW v, v = EndLoop(w, s)
  PROVE  /\ v \in Server /\ Elsewhere(w, v, s) /\ Good(v, s)
         /\ v.open = w.open /\ v.inLoop = NoSocket
         /\ v.descriptor[s] # NoDescriptor => v.descriptor[s] = w.descriptor[s]
<1>1. PICK u : u = LoopLeft(w)
  OBVIOUS
<1>2. /\ u \in Server /\ u.inLoop = NoSocket
      /\ u.open = w.open /\ u.handler = w.handler /\ u.descriptor = w.descriptor
      /\ u.streams = w.streams /\ u.next = w.next /\ u.cleared = w.cleared
  BY <1>1, LoopLeftFields
<1>3. v = IF u.descriptor[s] # NoDescriptor /\ u.descriptor[s].dying
          THEN DeleteDescriptor(u, s) ELSE u
  BY <1>1 DEF EndLoop, LoopLeft
<1>4. CASE w.descriptor[s] = NoDescriptor \/ ~w.descriptor[s].dying
  <2>1. v = u
    BY <1>2, <1>3, <1>4
  <2>2. Elsewhere(w, v, s)
    BY <1>2, <2>1 DEF Elsewhere
  <2>3. CASE Good(w, s)
    <3>1. Agrees(v, s)
      BY <1>2, <1>4, <2>1, <2>3 DEF Good, Agrees
    <3>2. Heard(v, s) /\ Named(v, s)
      BY <1>2, <2>1, <2>3 DEF Good, Heard, Named
    <3> QED BY <1>2, <2>1, <2>2, <3>1, <3>2 DEF Good
  <2>4. CASE ~Good(w, s)
    <3>1. /\ s \notin v.open /\ v.handler[s] = "none" /\ v.descriptor[s] = NoDescriptor
          /\ \A i \in Interfaces : s \notin v.streams[i]
      BY <1>2, <1>4, <2>1, <2>4
    <3>2. Good(v, s)
      BY <3>1 DEF Good, Agrees, Heard, Named
    <3> QED BY <1>2, <2>1, <2>2, <3>2
  <2> QED BY <2>3, <2>4
<1>5. CASE w.descriptor[s] # NoDescriptor /\ w.descriptor[s].dying
  <2>1. v = DeleteDescriptor(u, s)
    BY <1>2, <1>3, <1>5
  <2>2. v \in Server /\ Deleted(u, v, s)
    BY <1>2, <1>5, <2>1, DeleteFields
  <2>3. ~w.descriptor[s].error
    BY <1>5 DEF Good, Agrees
  <2>4. /\ v.descriptor[s] = NoDescriptor /\ v.open = w.open /\ v.inLoop = NoSocket
        /\ v.handler[s] = IF w.descriptor[s].alternative THEN "rtsp" ELSE "none"
        /\ v.cleared = w.cleared
    BY <1>2, <2>2, <2>3 DEF Deleted, Server
  <2>5. Elsewhere(w, v, s)
    BY <1>2, <2>2, <2>4 DEF Deleted, Elsewhere, Server
  <2>6. \A i \in Interfaces : s \notin v.streams[i]
    BY <1>2, <1>5, <2>2 DEF Deleted, Good, Agrees
  <2>7. Good(v, s)
    <3>1. Agrees(v, s)
      BY <1>5, <2>4, <2>6 DEF Good, Agrees
    <3>2. Heard(v, s)
      BY <1>5, <2>4 DEF Good, Heard
    <3>3. Named(v, s)
      BY <2>4, <2>6 DEF Named
    <3> QED BY <3>1, <3>2, <3>3 DEF Good
  <2> QED BY <2>2, <2>4, <2>5, <2>7
<1>6. QED
  BY <1>4, <1>5

(* A request that the descriptor's loop hands on. *)
Looping(w, s) == [w EXCEPT !.inLoop = s]

LEMMA LoopingGood ==
  ASSUME NEW w, Tables(w), w.inLoop = NoSocket, NEW s \in Sockets, NEW u, u = Looping(w, s)
  PROVE  /\ Tables(u) /\ u.inLoop = s
         /\ u.open = w.open /\ u.handler = w.handler /\ u.descriptor = w.descriptor
         /\ u.streams = w.streams /\ u.next = w.next /\ u.cleared = w.cleared
<1>1. /\ u \in Server /\ u.inLoop = s
      /\ u.open = w.open /\ u.handler = w.handler /\ u.descriptor = w.descriptor
      /\ u.streams = w.streams /\ u.next = w.next /\ u.cleared = w.cleared
  BY DEF Tables, Server, Looping
<1>2. ASSUME NEW o \in Sockets PROVE Good(u, o)
  <2>1. Good(w, o)
    BY DEF Tables
  <2>2. w.descriptor[o] # NoDescriptor => ~w.descriptor[o].dying
    BY <2>1, NamesAssumption DEF Good, Agrees
  <2>3. Agrees(u, o)
    BY <1>1, <2>1, <2>2 DEF Good, Agrees
  <2>4. Heard(u, o) /\ Named(u, o)
    BY <1>1, <2>1 DEF Good, Heard, Named
  <2> QED BY <2>3, <2>4 DEF Good
<1>3. QED
  BY <1>1, <1>2 DEF Tables

LEMMA LoopRequestHandled ==
  ASSUME NEW w, NEW s \in Sockets, Tables(w), w.inLoop = NoSocket, s \in w.open, AtDollar(w, s),
         NEW x \in Requested(Looping(w, s), s), NEW v, v = EndLoop(x, s)
  PROVE  Handled(w, v, s) /\ AtDollar(v, s)
<1>1. PICK u : u = Looping(w, s)
  OBVIOUS
<1>2. /\ Tables(u) /\ u.inLoop = s
      /\ u.open = w.open /\ u.handler = w.handler /\ u.descriptor = w.descriptor
      /\ u.streams = w.streams /\ u.next = w.next /\ u.cleared = w.cleared
  BY <1>1, LoopingGood
<1>3. s \in u.open /\ AtDollar(u, s) /\ x \in Requested(u, s)
  BY <1>1, <1>2 DEF AtDollar
<1>4. u.descriptor[s] # NoDescriptor => ~u.descriptor[s].dying
  BY <1>2, NamesAssumption DEF Tables, Good, Agrees
<1>5. Closed(u, x, s) \/ (Tables(x) /\ Keeps(u, x, s) /\ AtDollar(x, s))
  BY <1>2, <1>3, <1>4, RequestedCases
<1>6. /\ x \in Server /\ Elsewhere(u, x, s) /\ x.inLoop = s /\ x.open \subseteq u.open
      /\ \/ Good(x, s)
         \/ /\ s \notin x.open /\ x.handler[s] = "none"
            /\ \A i \in Interfaces : s \notin x.streams[i]
            /\ x.descriptor[s] # NoDescriptor =>
                 /\ x.descriptor[s].dying
                 /\ ~x.descriptor[s].alternative /\ ~x.descriptor[s].error
  <2>1. CASE Closed(u, x, s)
    <3>1. s \notin x.open /\ x.open \subseteq u.open
      BY <2>1 DEF Closed
    <3> QED BY <1>2, <2>1, <3>1 DEF Closed
  <2>2. CASE Tables(x) /\ Keeps(u, x, s) /\ AtDollar(x, s)
    BY <1>2, <2>2 DEF Keeps, Tables
  <2> QED BY <1>5, <2>1, <2>2
<1>7. /\ v \in Server /\ Elsewhere(x, v, s) /\ Good(v, s)
      /\ v.open = x.open /\ v.inLoop = NoSocket
      /\ v.descriptor[s] # NoDescriptor => v.descriptor[s] = x.descriptor[s]
  BY <1>6, EndLoopGood
<1>8. Elsewhere(w, v, s)
  BY <1>2, <1>6, <1>7 DEF Elsewhere
<1>9. Tables(v)
  BY <1>7, <1>8, TablesKept
<1>10. AtDollar(v, s)
  <2>1. CASE Closed(u, x, s)
    <3>1. s \notin v.open
      BY <1>7, <2>1 DEF Closed
    <3> QED BY <1>7, <3>1 DEF Good, Agrees, AtDollar
  <2>2. CASE AtDollar(x, s)
    BY <1>7, <2>2 DEF AtDollar
  <2> QED BY <1>5, <2>1, <2>2
<1>11. QED
  BY <1>2, <1>6, <1>7, <1>8, <1>9, <1>10 DEF Handled

(* Who has no new streams has no new channels. *)
LEMMA StreamsFade ==
  ASSUME NEW w, NEW v, NEW s \in Sockets, Tables(w), Tables(v), Continues(w, v, s),
         \A i \in Interfaces : s \in v.streams[i] => s \in w.streams[i]
  PROVE  Fades(w, v, s)
<1>1. Agrees(w, s) /\ Agrees(v, s) /\ v \in Server
  BY DEF Tables, Good
<1>2. SUFFICES ASSUME v.descriptor[s] # NoDescriptor
               PROVE  v.descriptor[s].channels \subseteq w.descriptor[s].channels
  BY DEF Fades
<1>3. v.descriptor[s].channels \subseteq Interfaces /\ w.descriptor[s] # NoDescriptor
  BY <1>1, <1>2, DescriptorExists DEF Descriptor, Continues
<1>4. QED
  BY <1>1, <1>2, <1>3 DEF Agrees

(* The end of a stream outside of its loop. *)
LEMMA SessionEndHandled ==
  ASSUME NEW w, NEW s \in Sockets, NEW t \in Tracks, Tables(w), w.inLoop = NoSocket,
         NEW v, v = EndPlaying(w, {t}, s)
  PROVE  Handled(w, v, s) /\ Fades(w, v, s)
<1>1. /\ Tables(v) /\ Keeps(w, v, s) /\ Continues(w, v, s)
      /\ \A i \in Interfaces : s \in v.streams[i] => s \in w.streams[i]
  BY EndPlayingKeeps
<1>2. Fades(w, v, s)
  BY <1>1, StreamsFade
<1>3. QED
  BY <1>1, <1>2 DEF Handled, Keeps

(* A socket on which sending failed. *)
LEMMA SendFailureHandled ==
  ASSUME NEW w, NEW s \in Sockets, NEW i \in Interfaces, Tables(w), w.inLoop = NoSocket,
         NEW v, v = RemoveStreamSocket(w, {i}, s)
  PROVE  Handled(w, v, s) /\ Fades(w, v, s)
<1>1. w \in Server /\ Good(w, s)
  BY DEF Tables
<1>2. PICK those \in SUBSET Interfaces : those = {i}
  OBVIOUS
<1>3. Removed(w, v, s, those)
  BY <1>1, <1>2, RemoveKeeps DEF Good
<1>4. Heard(v, s)
  BY <1>1, <1>3 DEF Good, Keeps, Continues, Heard, Removed
<1>5. Tables(v)
  BY <1>3, <1>4, KeptElsewhere DEF Removed
<1>6. Continues(w, v, s) /\ \A j \in Interfaces : s \in v.streams[j] => s \in w.streams[j]
  BY <1>3 DEF Removed
<1>7. Fades(w, v, s)
  BY <1>5, <1>6, StreamsFade
<1>8. QED
  BY <1>3, <1>5, <1>7 DEF Keeps, Handled, Removed

(* An error when a descriptor reads. *)
WithError(w, s) == [w EXCEPT !.descriptor[s].error = TRUE]

LEMMA ReadErrorHandled ==
  ASSUME NEW w, NEW s \in Sockets, Tables(w), w.inLoop = NoSocket,
         w.descriptor[s] # NoDescriptor,
         NEW v, v = DeleteDescriptor(WithError(w, s), s)
  PROVE  Handled(w, v, s) /\ v.descriptor[s] = NoDescriptor
<1>1. w \in Server /\ Good(w, s)
  BY DEF Tables
<1>2. PICK c \in Descriptor : c = w.descriptor[s]
  BY <1>1, DescriptorExists
<1>3. PICK d : d = [c EXCEPT !.error = TRUE]
  OBVIOUS
<1>4. /\ d \in Descriptor /\ d # NoDescriptor /\ d.error
      /\ d.channels = c.channels /\ d.alternative = c.alternative
  <2>1. d \in Descriptor
    BY <1>2, <1>3 DEF Descriptor
  <2> QED BY <1>2, <1>3, <2>1, NoDescriptorAssumption DEF Descriptor
<1>5. PICK u : u = WithError(w, s)
  OBVIOUS
<1>6. u = WithDescriptor(w, s, d)
  BY <1>1, <1>2, <1>3, <1>5 DEF WithError, WithDescriptor, Server
<1>7. u \in Server /\ SameBut(w, u, s, d)
  BY <1>1, <1>4, <1>6, DescriptorChanges
<1>8. u.descriptor[s] = d /\ \A o \in Sockets \ {s} : u.descriptor[o] = w.descriptor[o]
  BY <1>1, <1>7 DEF SameBut, Server
<1>9. v \in Server /\ Deleted(u, v, s)
  BY <1>4, <1>5, <1>7, <1>8, DeleteFields
<1>10. /\ v.descriptor[s] = NoDescriptor /\ v.handler[s] = "none" /\ v.inLoop = NoSocket
       /\ v.open = IF c.alternative THEN w.open \ {s} ELSE w.open
       /\ v.cleared = w.cleared
  BY <1>1, <1>4, <1>7, <1>8, <1>9 DEF SameBut, Deleted, Server
<1>11. \A i \in Interfaces :
         s \in v.streams[i] <=> s \in w.streams[i] /\ i \notin c.channels
  BY <1>1, <1>4, <1>7, <1>8, <1>9 DEF SameBut, Deleted
<1>12. \A o \in Sockets \ {s} :
         /\ v.descriptor[o] = w.descriptor[o] /\ v.handler[o] = w.handler[o]
         /\ \A i \in Interfaces : o \in v.streams[i] <=> o \in w.streams[i]
  <2>1. \A o \in Sockets \ {s} : v.descriptor[o] = w.descriptor[o]
    <3>1. /\ v.descriptor = [u.descriptor EXCEPT ![s] = NoDescriptor]
          /\ u.descriptor \in [Sockets -> Descriptor \cup {NoDescriptor}]
      BY <1>7, <1>9 DEF Deleted, Server
    <3> QED BY <1>8, <3>1
  <2>2. \A o \in Sockets \ {s} : v.handler[o] = w.handler[o]
    BY <1>1, <1>7, <1>9 DEF SameBut, Deleted, Server
  <2>3. \A o \in Sockets \ {s}, i \in Interfaces : o \in v.streams[i] <=> o \in w.streams[i]
    BY <1>7, <1>9 DEF SameBut, Deleted
  <2> QED BY <2>1, <2>2, <2>3
<1>13. v.next = w.next
  BY <1>7, <1>9 DEF SameBut, Deleted
<1>14. Elsewhere(w, v, s)
  BY <1>10, <1>12, <1>13 DEF Elsewhere
<1>15. \A i \in Interfaces : s \notin v.streams[i]
  BY <1>1, <1>2, <1>11 DEF Good, Agrees
<1>16. Good(v, s)
  <2>1. Agrees(v, s) /\ Named(v, s)
    BY <1>10, <1>15 DEF Agrees, Named
  <2>2. Heard(v, s)
    BY <1>1, <1>2, <1>10 DEF Good, Heard
  <2> QED BY <2>1, <2>2 DEF Good
<1>17. Tables(v)
  BY <1>9, <1>14, <1>16, TablesKept
<1>18. QED
  BY <1>10, <1>14, <1>17 DEF Handled

(* A new connection. *)
Accepted(w, s) ==
  [w EXCEPT !.open = @ \cup {s}, !.handler[s] = "rtsp",
            !.cleared = @ \ {s}]

LEMMA AcceptKeeps ==
  ASSUME NEW w, NEW s \in Sockets, Tables(w), w.inLoop = NoSocket,
         w.descriptor[s] = NoDescriptor, NEW v, v = Accepted(w, s)
  PROVE  /\ Tables(v) /\ Elsewhere(w, v, s)
         /\ v.open = w.open \cup {s} /\ v.inLoop = NoSocket /\ v.descriptor = w.descriptor
<1>1. w \in Server /\ Good(w, s)
  BY DEF Tables
<1>2. PICK open : open = w.open \cup {s}
  OBVIOUS
<1>3. PICK handler : handler = [w.handler EXCEPT ![s] = "rtsp"]
  OBVIOUS
<1>4. PICK cleared : cleared = w.cleared \ {s}
  OBVIOUS
<1>6. v = [open |-> open, handler |-> handler, descriptor |-> w.descriptor,
           streams |-> w.streams, next |-> w.next, inLoop |-> w.inLoop, cleared |-> cleared]
  BY <1>1, <1>2, <1>3, <1>4 DEF Accepted, Server
<1>7. v \in Server
  <2>1. /\ open \in SUBSET Sockets /\ handler \in [Sockets -> {"none", "rtsp", "tcp"}]
        /\ cleared \in SUBSET Sockets
    BY <1>1, <1>2, <1>3, <1>4 DEF Server
  <2> QED BY <1>1, <1>6, <2>1 DEF Server
<1>8. /\ s \in v.open /\ v.descriptor[s] = NoDescriptor /\ v.handler[s] = "rtsp"
      /\ v.streams = w.streams
  BY <1>1, <1>2, <1>3, <1>6 DEF Server
<1>9. Elsewhere(w, v, s)
  BY <1>1, <1>2, <1>3, <1>4, <1>6 DEF Elsewhere, Server
<1>10. Good(v, s)
  BY <1>1, <1>8 DEF Good, Agrees, Heard, Named
<1>11. Tables(v)
  BY <1>7, <1>9, <1>10, TablesKept
<1>12. QED
  BY <1>2, <1>6, <1>9, <1>11

(* ~RTPInterface touches many sockets, each in the way of a deregistration. *)
Unread == [size |-> 0, sock |-> NoSocket]

Lost(w, v, i) ==
  /\ v.open = w.open /\ v.inLoop = NoSocket
  /\ v.next = [w.next EXCEPT ![i] = Unread]
  /\ \A s \in Sockets :
       /\ Fades(w, v, s)
       /\ v.descriptor[s] # NoDescriptor => i \notin v.descriptor[s].channels

LEMMA DeleteInterfaceKeeps ==
  ASSUME NEW w, Tables(w), w.inLoop = NoSocket, NEW i \in Interfaces,
         NEW v, v = DeleteInterface(w, i)
  PROVE  Tables(v) /\ Lost(w, v, i)
<1>1. w \in Server
  BY DEF Tables
<1>2. PICK after : after = [s \in Sockets |-> IF s \in w.streams[i]
                                             THEN DeregisterRTPInterface(w, s, {i}) ELSE w]
  OBVIOUS
<1>3. ASSUME NEW s \in Sockets
      PROVE  /\ after[s] \in Server
             /\ IF s \in w.streams[i] THEN Deregistered(w, after[s], s, {i}) ELSE after[s] = w
  <2>1. CASE s \in w.streams[i]
    <3>1. after[s] = DeregisterRTPInterface(w, s, {i})
      BY <1>2, <2>1
    <3>2. w.descriptor[s] # NoDescriptor /\ ~w.descriptor[s].error
      BY <2>1 DEF Tables, Good, Agrees
    <3> QED BY <1>1, <2>1, <3>1, <3>2, DeregisterFields
  <2>2. CASE s \notin w.streams[i]
    BY <1>1, <1>2, <2>2
  <2> QED BY <2>1, <2>2
<1>4. PICK descriptor : descriptor = [s \in Sockets |-> after[s].descriptor[s]]
  OBVIOUS
<1>5. PICK handler : handler = [s \in Sockets |-> after[s].handler[s]]
  OBVIOUS
<1>6. PICK open : open = {s \in w.open : s \in after[s].open}
  OBVIOUS
<1>7. PICK streams : streams = [j \in Interfaces |->
                                  IF j = i THEN {} ELSE {s \in w.streams[j] : s \in after[s].streams[j]}]
  OBVIOUS
<1>8. PICK next : next = [w.next EXCEPT ![i] = Unread]
  OBVIOUS
<1>9. v = [open |-> open, handler |-> handler, descriptor |-> descriptor, streams |-> streams,
           next |-> next, inLoop |-> w.inLoop, cleared |-> w.cleared]
  BY <1>1, <1>2, <1>4, <1>5, <1>6, <1>7, <1>8 DEF DeleteInterface, Server, Unread
<1>10. open = w.open
  BY <1>1, <1>3, <1>6 DEF Deregistered, Server
<1>11. streams = [w.streams EXCEPT ![i] = {}]
  <2>1. \A s \in Sockets : after[s].streams = w.streams
    BY <1>3 DEF Deregistered
  <2>2. w.streams \in [Interfaces -> SUBSET Sockets]
    BY <1>1 DEF Server
  <2>3. \A j \in Interfaces : {s \in w.streams[j] : s \in after[s].streams[j]} = w.streams[j]
    BY <2>1, <2>2
  <2> QED BY <1>7, <2>2, <2>3
<1>12. v \in Server
  <2>1. descriptor \in [Sockets -> Descriptor \cup {NoDescriptor}]
    BY <1>3, <1>4 DEF Server
  <2>2. handler \in [Sockets -> {"none", "rtsp", "tcp"}]
    BY <1>3, <1>5 DEF Server
  <2>3. streams \in [Interfaces -> SUBSET Sockets]
    BY <1>1, <1>11 DEF Server
  <2>4. next \in [Interfaces -> Reading]
    <3>1. Unread \in Reading
      BY PacketSizeAssumption DEF Unread, Reading
    <3> QED BY <1>1, <1>8, <3>1 DEF Server
  <2> QED BY <1>1, <1>9, <1>10, <2>1, <2>2, <2>3, <2>4 DEF Server

<1>13. ASSUME NEW s \in Sockets
       PROVE  /\ Good(v, s) /\ Continues(w, v, s)
              /\ v.descriptor[s] # NoDescriptor =>
                   /\ i \notin v.descriptor[s].channels
                   /\ v.descriptor[s].channels \subseteq w.descriptor[s].channels
  <2>1. /\ v.descriptor[s] = after[s].descriptor[s] /\ v.handler[s] = after[s].handler[s]
        /\ v.open = w.open /\ v.inLoop = NoSocket /\ v.cleared = w.cleared
        /\ \A j \in Interfaces : s \in v.streams[j] <=> j # i /\ s \in w.streams[j]
    BY <1>1, <1>4, <1>5, <1>9, <1>10, <1>11 DEF Server
  <2>2. Agrees(w, s) /\ Heard(w, s) /\ Named(w, s)
    BY DEF Tables, Good
  <2>4. CASE s \notin w.streams[i]
    <3>1. v.descriptor[s] = w.descriptor[s] /\ v.handler[s] = w.handler[s]
      BY <1>3, <2>1, <2>4
    <3>2. \A j \in Interfaces : s \in v.streams[j] <=> s \in w.streams[j]
      BY <2>1, <2>4
    <3>3. Agrees(v, s)
      BY <2>1, <2>2, <3>1, <3>2 DEF Agrees
    <3>4. Heard(v, s) /\ Named(v, s) /\ Continues(w, v, s)
      BY <2>1, <2>2, <3>1 DEF Heard, Named, Continues
    <3>5. v.descriptor[s] # NoDescriptor => i \notin v.descriptor[s].channels
      BY <2>2, <2>4, <3>1 DEF Agrees
    <3> QED BY <3>1, <3>3, <3>4, <3>5 DEF Good
  <2>5. CASE s \in w.streams[i]
    <3>1. Deregistered(w, after[s], s, {i})
      BY <1>3, <2>5
    <3>2. /\ w.descriptor[s] # NoDescriptor /\ ~w.descriptor[s].error /\ ~w.descriptor[s].dying
          /\ s \in w.open /\ w.handler[s] = "tcp" /\ w.inLoop # s
          /\ \A j \in Interfaces : s \in w.streams[j] <=> j \in w.descriptor[s].channels
      BY <2>2, <2>5, NamesAssumption DEF Agrees
    <3>3. CASE v.descriptor[s] = NoDescriptor
      <4>1. /\ w.descriptor[s].channels \subseteq {i}
            /\ v.handler[s] = IF w.descriptor[s].alternative THEN "rtsp" ELSE "none"
        BY <2>1, <3>1, <3>3, NoDescriptorAssumption DEF Deregistered
      <4>2. Agrees(v, s)
        BY <2>1, <3>2, <3>3, <4>1 DEF Agrees
      <4>3. Heard(v, s)
        BY <2>1, <2>2, <3>2, <3>3, <4>1 DEF Heard
      <4> QED BY <3>3, <4>2, <4>3 DEF Good, Named, Continues
    <3>4. CASE v.descriptor[s] # NoDescriptor
      <4>1. /\ v.descriptor[s].channels = w.descriptor[s].channels \ {i}
            /\ v.descriptor[s].alternative = w.descriptor[s].alternative
            /\ v.descriptor[s].at = w.descriptor[s].at
            /\ v.descriptor[s].ch = w.descriptor[s].ch
            /\ v.descriptor[s].error = w.descriptor[s].error
            /\ v.descriptor[s].dying => w.descriptor[s].dying \/ w.inLoop = s
            /\ v.descriptor[s].channels = {} => v.descriptor[s].dying
            /\ v.handler[s] = w.handler[s]
        BY <2>1, <3>1, <3>4 DEF Deregistered
      <4>2. Agrees(v, s)
        BY <2>1, <3>2, <3>4, <4>1 DEF Agrees
      <4>3. Heard(v, s) /\ Named(v, s) /\ Continues(w, v, s)
        BY <2>1, <2>2, <3>2, <3>4, <4>1 DEF Heard, Named, Continues
      <4> QED BY <4>1, <4>2, <4>3 DEF Good
    <3> QED BY <3>3, <3>4
  <2> QED BY <2>4, <2>5
<1>14. QED
  BY <1>8, <1>9, <1>10, <1>12, <1>13 DEF Tables, Lost, Fades

(* The end of the source of a track: both of its interfaces go. *)
LEMMA ReclaimKeeps ==
  ASSUME NEW w, Tables(w), w.inLoop = NoSocket, NEW t \in Tracks, NEW v, v = Reclaim(w, t)
  PROVE  /\ Tables(v) /\ v.open = w.open /\ v.inLoop = NoSocket
         /\ \A s \in Sockets : Fades(w, v, s)
         /\ \A i \in Interfaces :
              \/ v.next[i] = w.next[i]
              \/ /\ v.next[i] = Unread
                 /\ \A s \in Sockets : v.descriptor[s] # NoDescriptor =>
                                         i \notin v.descriptor[s].channels
<1>1. Rtp(t) \in Interfaces /\ Rtcp(t) \in Interfaces
  BY DEF Rtp, Rtcp, Interfaces
<1>2. PICK u : u = DeleteInterface(w, Rtcp(t))
  OBVIOUS
<1>3. Tables(u) /\ Lost(w, u, Rtcp(t))
  BY <1>1, <1>2, DeleteInterfaceKeeps
<1>4. u.inLoop = NoSocket /\ v = DeleteInterface(u, Rtp(t))
  BY <1>2, <1>3 DEF Reclaim, Lost
<1>5. Tables(v) /\ Lost(u, v, Rtp(t))
  BY <1>1, <1>3, <1>4, DeleteInterfaceKeeps
<1>6. \A s \in Sockets : Fades(w, v, s)
  BY <1>3, <1>5 DEF Lost, Fades, Continues
<1>7. ASSUME NEW i \in Interfaces
      PROVE  \/ v.next[i] = w.next[i]
             \/ /\ v.next[i] = Unread
                /\ \A s \in Sockets : v.descriptor[s] # NoDescriptor =>
                                        i \notin v.descriptor[s].channels
  <2>1. /\ u.next = [w.next EXCEPT ![Rtcp(t)] = Unread]
        /\ v.next = [u.next EXCEPT ![Rtp(t)] = Unread]
        /\ w.next \in [Interfaces -> Reading] /\ u.next \in [Interfaces -> Reading]
    BY <1>3, <1>5 DEF Lost, Tables, Server
  <2>2. CASE i = Rtp(t)
    <3>1. v.next[i] = Unread
      BY <2>1, <2>2
    <3> QED BY <1>5, <2>2, <3>1 DEF Lost
  <2>3. CASE i = Rtcp(t) /\ i # Rtp(t)
    <3>1. v.next[i] = Unread
      BY <2>1, <2>3
    <3>2. ASSUME NEW s \in Sockets, v.descriptor[s] # NoDescriptor
          PROVE  i \notin v.descriptor[s].channels
      <4>1. u.descriptor[s] # NoDescriptor
        BY <1>5, <3>2 DEF Lost, Fades, Continues
      <4> QED BY <1>3, <1>5, <2>3, <3>2, <4>1 DEF Lost, Fades
    <3> QED BY <3>1, <3>2
  <2>4. CASE i # Rtp(t) /\ i # Rtcp(t)
    BY <2>1, <2>4
  <2> QED BY <2>2, <2>3, <2>4
<1>8. QED
  BY <1>3, <1>5, <1>6, <1>7 DEF Lost

-----------------------------------------------------------------------------
(* The place in the bytes of a client.                                     *)

(* What InStep says of s. *)
At(w, c, s) ==
  /\ w.descriptor[s] = NoDescriptor => c[s].at = "dollar"
  /\ w.descriptor[s] # NoDescriptor /\ w.descriptor[s].at # "data" =>
       /\ c[s].at = w.descriptor[s].at
       /\ w.descriptor[s].at \in {"size1", "size2"} => w.descriptor[s].ch = c[s].ch
  /\ w.descriptor[s] # NoDescriptor /\ w.descriptor[s].at = "data" =>
       \/ /\ c[s].at = "data" /\ w.descriptor[s].ch = c[s].ch
          /\ w.next[w.descriptor[s].ch] = [size |-> c[s].left, sock |-> s]
       \/ /\ c[s].at = "dollar"
          /\ \/ w.next[w.descriptor[s].ch].size = 0
             \/ Reads(w.descriptor[s].ch) /\ w.next[w.descriptor[s].ch].sock # s

LEMMA InStepMeans ==
  InStep <=> \A s \in server.open \ lost : At(server, client, s)
<1>1. ASSUME NEW s \in server.open \ lost
      PROVE  At(server, client, s) <=>
               LET d == server.descriptor[s]
                   c == client[s]
               IN IF d = NoDescriptor THEN c.at = "dollar"
                  ELSE IF d.at # "data" THEN d.at = c.at /\ (d.at \in {"size1", "size2"} => d.ch = c.ch)
                  ELSE LET n == server.next[d.ch]
                       IN IF c.at = "data" THEN n = [size |-> c.left, sock |-> s] /\ d.ch = c.ch
                          ELSE c.at = "dollar" /\ (n.size = 0 \/ (Reads(d.ch) /\ n.sock # s))
  BY DEF At
<1>2. QED
  BY <1>1 DEF InStep

(* An action keeps IInv if it keeps the tables and the place of each socket
   that is not lost by it. *)
LEMMA BecomesKeeps ==
  ASSUME IInv, NEW w, Tables(w), w.inLoop = NoSocket,
         NEW c \in [Sockets -> Place], \A s \in Sockets : c[s].at = "data" => c[s].left > 0,
         NEW astray, Becomes(w, c, astray),
         \A s \in Sockets : s \in w.open /\ s \notin lost /\ s \notin astray /\ s \notin CutOff(w, c)
                              => At(w, c, s),
         Alone(w, lost \cup astray \cup CutOff(w, c))
  PROVE  IInv'
<1>1. /\ server' = w
      /\ lost' = (lost \cup astray \cup CutOff(w, c)) \cap w.open
      /\ client' = [s \in Sockets |-> IF s \in lost' \/ s \notin w.open THEN Between ELSE c[s]]
  BY DEF Becomes
<1>2. PICK l : l = lost'
  OBVIOUS
<1>3. PICK k : k = [s \in Sockets |-> IF s \in l \/ s \notin w.open THEN Between ELSE c[s]]
  OBVIOUS
<1>4. lost' = l /\ client' = k
  BY <1>1, <1>2, <1>3
<1>5. w.open \subseteq Sockets /\ l \subseteq w.open
  BY <1>1, <1>2 DEF Tables, Server
<1>6. Between \in Place /\ Between.at = "dollar"
  BY PacketSizeAssumption DEF Between, Place, States, Channel
<1>7. /\ k \in [Sockets -> Place]
      /\ \A s \in Sockets : s \notin w.open \/ s \in l => k[s] = Between
      /\ \A s \in Sockets : k[s].at = "data" => k[s].left > 0
  BY <1>3, <1>6
<1>8. ClientGood'
  BY <1>1, <1>4, <1>5, <1>7 DEF ClientGood
<1>9. \A s \in w.open \ l : At(w, k, s)
  <2>1. ASSUME NEW s \in w.open \ l PROVE At(w, k, s)
    <3>1. s \in Sockets /\ k[s] = c[s]
      BY <1>3, <1>5, <2>1
    <3>2. s \notin lost /\ s \notin astray /\ s \notin CutOff(w, c)
      BY <1>1, <1>2, <2>1
    <3>3. At(w, c, s)
      BY <2>1, <3>1, <3>2
    <3> QED BY <3>1, <3>3 DEF At
  <2> QED BY <2>1
<1>10. (\A s \in server.open \ lost : At(server, client, s))'
  BY <1>1, <1>4, <1>9 DEF At
<1>11. InStep'
  BY <1>10, InStepMeans, PTL
<1>12. Tables(server)' /\ (server.inLoop = NoSocket)'
  BY <1>1 DEF Tables, Good, Agrees, Heard, Named
<1>13. Alone(server, lost)'
  <2>1. \A o \in Sockets : w.descriptor[o] # NoDescriptor => o \in w.open
    BY DEF Tables, Good, Agrees
  <2>2. Alone(w, l)
    BY <1>1, <1>2, <2>1 DEF Alone, Awaits
  <2> QED BY <1>1, <1>4, <2>2 DEF Alone, Awaits
<1>14. QED
  BY <1>8, <1>11, <1>12, <1>13 DEF IInv

(* The steps with the tables keep the place of a socket: a descriptor goes on
   where it was, or there was none and the client is between packets, and a
   packet that loses its interface is cut off. *)
LEMMA InStepKept ==
  ASSUME IInv, NEW w, Tables(w), w.inLoop = NoSocket, Becomes(w, client, {}),
         \A s \in Sockets : Fades(server, w, s)
                              \/ (AtDollar(w, s) /\ client[s].at = "dollar"),
         \A i \in Interfaces :
           \/ w.next[i] = server.next[i]
           \/ /\ w.next[i] = Unread
              /\ \A s \in Sockets : w.descriptor[s] # NoDescriptor =>
                                      i \notin w.descriptor[s].channels,
         \A s \in w.open \ server.open : w.descriptor[s] = NoDescriptor
  PROVE  IInv'
<1>1. /\ client \in [Sockets -> Place] /\ \A s \in Sockets : client[s].at = "data" => client[s].left > 0
      /\ \A s \in Sockets : s \notin server.open \/ s \in lost => client[s] = Between
      /\ Tables(server)
  BY DEF IInv, ClientGood
<1>2. Between.at = "dollar"
  BY DEF Between
<1>3. ASSUME NEW s \in Sockets, s \in w.open, s \notin lost, s \notin CutOff(w, client)
      PROVE  At(w, client, s)
  <2>1. CASE s \notin server.open
    <3>1. w.descriptor[s] = NoDescriptor /\ client[s].at = "dollar"
      BY <1>1, <1>2, <1>3, <2>1
    <3> QED BY <3>1 DEF At
  <2>2. CASE s \in server.open /\ w.descriptor[s] = NoDescriptor
    <3>1. client[s].at = "dollar"
      BY <1>3, <2>2 DEF CutOff
    <3> QED BY <2>2, <3>1 DEF At
  <2>3. CASE AtDollar(w, s) /\ client[s].at = "dollar" /\ w.descriptor[s] # NoDescriptor
    BY <2>3 DEF At, AtDollar
  <2>4. CASE s \in server.open /\ w.descriptor[s] # NoDescriptor /\ Fades(server, w, s)
    <3>1. /\ server.descriptor[s] # NoDescriptor
          /\ w.descriptor[s].at = server.descriptor[s].at
          /\ w.descriptor[s].ch = server.descriptor[s].ch
      BY <2>4 DEF Fades, Continues
    <3>2. At(server, client, s)
      BY <1>3, <2>4, InStepMeans DEF IInv
    <3>3. CASE w.descriptor[s].at # "data"
      BY <2>4, <3>1, <3>2, <3>3 DEF At
    <3>4. CASE w.descriptor[s].at = "data"
      <4>1. PICK i : i = w.descriptor[s].ch
        OBVIOUS
      <4>2. i \in Interfaces
        BY <1>1, <3>1, <3>4, <4>1 DEF Tables, Good, Named
      <4>3. \/ /\ client[s].at = "data" /\ i = client[s].ch
               /\ server.next[i] = [size |-> client[s].left, sock |-> s]
            \/ /\ client[s].at = "dollar"
               /\ server.next[i].size = 0 \/ (Reads(i) /\ server.next[i].sock # s)
        BY <3>1, <3>2, <3>4, <4>1 DEF At
      <4>4. CASE w.next[i] = server.next[i]
        <5>1. \/ /\ client[s].at = "data" /\ i = client[s].ch
                 /\ w.next[i] = [size |-> client[s].left, sock |-> s]
              \/ /\ client[s].at = "dollar"
                 /\ w.next[i].size = 0 \/ (Reads(i) /\ w.next[i].sock # s)
          BY ONLY <4>3, <4>4
        <5> QED BY ONLY <2>4, <3>4, <4>1, <5>1 DEF At
      <4>5. CASE /\ w.next[i] = Unread
                 /\ \A o \in Sockets : w.descriptor[o] # NoDescriptor =>
                                         i \notin w.descriptor[o].channels
        <5>1. client[s].at # "data"
          <6>1. SUFFICES ASSUME client[s].at = "data" PROVE FALSE
            OBVIOUS
          <6>2. client[s].ch = i /\ client[s].at # "dollar" /\ client[s].at # "channel"
            BY <4>3, <6>1
          <6>3. i \notin w.descriptor[s].channels
            BY <2>4, <4>5
          <6> QED BY <1>3, <6>2, <6>3 DEF CutOff
        <5>2. w.next[i].size = 0
          BY <4>5 DEF Unread
        <5> QED BY <2>4, <3>4, <4>1, <4>3, <5>1, <5>2 DEF At
      <4> QED BY <4>2, <4>4, <4>5
    <3> QED BY <3>3, <3>4
  <2> QED BY <2>1, <2>2, <2>3, <2>4
<1>4. Alone(w, lost)
  <2>1. ASSUME NEW s \in Sockets, NEW i \in Interfaces, Awaits(w, s, i)
        PROVE  /\ Awaits(server, s, i)
               /\ w.descriptor[s].channels \subseteq server.descriptor[s].channels
    <3>1. Fades(server, w, s)
      BY <2>1 DEF Awaits, AtDollar
    <3> QED BY <2>1, <3>1 DEF Awaits, Fades, Continues
  <2>2. Alone(server, lost)
    BY DEF IInv
  <2> QED BY <2>1, <2>2 DEF Alone
<1>5. Alone(w, lost \cup {} \cup CutOff(w, client))
  BY <1>4 DEF Alone
<1>6. QED
  BY <1>1, <1>3, <1>5, BecomesKeeps

(* The same for a step with the tables of one socket. *)
LEMMA HandledKeeps ==
  ASSUME IInv, NEW s \in Sockets, NEW w, Handled(server, w, s), Becomes(w, client, {}),
         Fades(server, w, s) \/ (AtDollar(w, s) /\ client[s].at = "dollar")
  PROVE  IInv'
<1>1. /\ Tables(w) /\ w.inLoop = NoSocket /\ w.next = server.next
      /\ w.open \subseteq server.open /\ Elsewhere(server, w, s)
  BY DEF Handled, Elsewhere
<1>2. ASSUME NEW o \in Sockets
      PROVE  Fades(server, w, o) \/ (AtDollar(w, o) /\ client[o].at = "dollar")
  <2>1. CASE o = s
    BY <2>1
  <2>2. CASE o # s
    BY <1>1, <2>2 DEF Elsewhere, Continues, Fades
  <2> QED BY <2>1, <2>2
<1>3. QED
  BY <1>1, <1>2, InStepKept

(* The client of a descriptor that is not in a packet is not in one either. *)
LEMMA ClientAtDollar ==
  ASSUME IInv, NEW s \in Sockets, AtDollar(server, s)
  PROVE  client[s].at = "dollar"
<1>1. CASE s \in server.open \ lost
  <2>1. At(server, client, s)
    BY <1>1, InStepMeans DEF IInv
  <2>2. CASE server.descriptor[s] = NoDescriptor
    BY <2>1, <2>2 DEF At
  <2>3. CASE server.descriptor[s] # NoDescriptor
    BY <2>1, <2>3 DEF At, AtDollar
  <2> QED BY <2>2, <2>3
<1>2. CASE s \notin server.open \/ s \in lost
  BY <1>2 DEF IInv, ClientGood, Between
<1>3. QED
  BY <1>1, <1>2

-----------------------------------------------------------------------------
(* The steps with the tables.                                              *)

(* What the reading of s finds. *)
LEMMA Readable ==
  ASSUME IInv, NEW s \in Sockets, s \in server.open, server.handler[s] = "tcp"
  PROVE  /\ server \in Server /\ Good(server, s)
         /\ server.descriptor[s] # NoDescriptor /\ server.descriptor[s] \in Descriptor
<1>1. server \in Server /\ Good(server, s)
  BY DEF IInv, Tables
<1>2. server.descriptor[s] # NoDescriptor
  BY <1>1 DEF Good, Agrees
<1>3. QED
  BY <1>1, <1>2, DescriptorExists

LEMMA ReadRequestKeeps ==
  ASSUME IInv, NEW s \in Sockets, ReadRequest(s)
  PROVE  IInv'
<1>1. PICK x \in Requested(Looping(server, s), s) : Becomes(EndLoop(x, s), client, {})
  BY DEF ReadRequest, Looping
<1>2. PICK v : v = EndLoop(x, s)
  OBVIOUS
<1>3. s \in server.open /\ AtDollar(server, s)
  BY DEF ReadRequest, CanRead, AtDollar
<1>4. Tables(server) /\ server.inLoop = NoSocket
  BY DEF IInv
<1>5. PICK w : w = server
  OBVIOUS
<1>6. Handled(w, v, s) /\ AtDollar(v, s)
  BY <1>1, <1>2, <1>3, <1>4, <1>5, LoopRequestHandled
<1>7. client[s].at = "dollar"
  BY <1>3, ClientAtDollar
<1>8. Becomes(v, client, {})
  BY <1>1, <1>2
<1>9. QED
  BY <1>5, <1>6, <1>7, <1>8, HandledKeeps

LEMMA RequestWithoutStreamsKeeps ==
  ASSUME IInv, NEW s \in Sockets, RequestWithoutStreams(s)
  PROVE  IInv'
<1>1. PICK v \in Requested(server, s) : Becomes(v, client, {})
  BY DEF RequestWithoutStreams
<1>2. Tables(server) /\ server.inLoop = NoSocket /\ Agrees(server, s)
  BY DEF IInv, Tables, Good
<1>3. server.descriptor[s] = NoDescriptor /\ s \in server.open
  BY <1>2 DEF RequestWithoutStreams, Agrees
<1>4. AtDollar(server, s) /\ client[s].at = "dollar"
  BY <1>3, ClientAtDollar DEF AtDollar
<1>5. PICK w : w = server
  OBVIOUS
<1>6. Handled(w, v, s) /\ AtDollar(v, s)
  BY <1>1, <1>2, <1>3, <1>4, <1>5, RequestHandled
<1>7. QED
  BY <1>1, <1>4, <1>5, <1>6, HandledKeeps

LEMMA SessionEndsKeeps ==
  ASSUME IInv, NEW s \in Sockets, NEW t \in Tracks, SessionEnds(t, s)
  PROVE  IInv'
<1>1. PICK v : v = EndPlaying(server, {t}, s)
  OBVIOUS
<1>2. PICK w : w = server
  OBVIOUS
<1>3. Tables(w) /\ w.inLoop = NoSocket /\ Becomes(v, client, {})
  BY <1>1, <1>2 DEF IInv, SessionEnds
<1>4. Handled(w, v, s) /\ Fades(w, v, s)
  BY <1>1, <1>2, <1>3, SessionEndHandled
<1>5. QED
  BY <1>2, <1>3, <1>4, HandledKeeps

LEMMA SendFailsKeeps ==
  ASSUME IInv, NEW s \in Sockets, NEW i \in Interfaces, SendFails(i, s)
  PROVE  IInv'
<1>1. PICK w : w = server
  OBVIOUS
<1>2. PICK v : v = RemoveStreamSocket(w, {i}, s)
  OBVIOUS
<1>3. Tables(w) /\ w.inLoop = NoSocket /\ Becomes(v, client, {})
  BY <1>1, <1>2 DEF IInv, SendFails
<1>4. Handled(w, v, s) /\ Fades(w, v, s)
  BY <1>2, <1>3, SendFailureHandled
<1>5. QED
  BY <1>1, <1>3, <1>4, HandledKeeps

LEMMA ReadErrorKeeps ==
  ASSUME IInv, NEW s \in Sockets, ReadError(s)
  PROVE  IInv'
<1>1. PICK w : w = server
  OBVIOUS
<1>2. PICK v : v = DeleteDescriptor(WithError(w, s), s)
  OBVIOUS
<1>3. Becomes(v, client, {})
  BY <1>1, <1>2 DEF ReadError, WithError
<1>4. Tables(w) /\ w.inLoop = NoSocket
  BY <1>1 DEF IInv
<1>5. w.descriptor[s] # NoDescriptor
  BY <1>1, Readable DEF ReadError
<1>6. Handled(w, v, s) /\ v.descriptor[s] = NoDescriptor
  BY <1>2, <1>4, <1>5, ReadErrorHandled
<1>7. Fades(w, v, s)
  BY <1>6 DEF Fades
<1>8. QED
  BY <1>1, <1>3, <1>6, <1>7, HandledKeeps

LEMMA AcceptKeepsIInv ==
  ASSUME IInv, NEW s \in Sockets, Accept(s)
  PROVE  IInv'
<1>1. PICK w : w = server
  OBVIOUS
<1>2. PICK v : v = Accepted(w, s)
  OBVIOUS
<1>3. Becomes(v, client, {}) /\ w.descriptor[s] = NoDescriptor
  BY <1>1, <1>2 DEF Accept, Accepted
<1>4. Tables(w) /\ w.inLoop = NoSocket
  BY <1>1 DEF IInv
<1>5. /\ Tables(v) /\ Elsewhere(w, v, s)
      /\ v.open = w.open \cup {s} /\ v.inLoop = NoSocket /\ v.descriptor = w.descriptor
  BY <1>2, <1>3, <1>4, AcceptKeeps
<1>6. /\ v.next = w.next
      /\ \A o \in Sockets : Fades(w, v, o)
      /\ \A o \in v.open \ w.open : v.descriptor[o] = NoDescriptor
  BY <1>3, <1>5 DEF Elsewhere, Continues, Fades
<1>7. QED
  BY <1>1, <1>3, <1>5, <1>6, InStepKept

LEMMA SourceEndsKeeps ==
  ASSUME IInv, NEW t \in Tracks, SourceEnds(t)
  PROVE  IInv'
<1>1. PICK w : w = server
  OBVIOUS
<1>2. PICK v : v = Reclaim(w, t)
  OBVIOUS
<1>3. Becomes(v, client, {}) /\ Tables(w) /\ w.inLoop = NoSocket
  BY <1>1, <1>2 DEF SourceEnds, IInv
<1>4. /\ Tables(v) /\ v.open = w.open /\ v.inLoop = NoSocket
      /\ \A s \in Sockets : Fades(w, v, s)
      /\ \A i \in Interfaces :
           \/ v.next[i] = w.next[i]
           \/ /\ v.next[i] = Unread
              /\ \A s \in Sockets : v.descriptor[s] # NoDescriptor =>
                                      i \notin v.descriptor[s].channels
  BY <1>2, <1>3, ReclaimKeeps
<1>5. QED
  BY <1>1, <1>3, <1>4, InStepKept

-----------------------------------------------------------------------------
(* The steps that read.  They move a descriptor and count bytes, and leave   *)
(* the rest of the tables alone.                                             *)

Moved(w, s, at, ch, next) ==
  [w EXCEPT !.descriptor = [w.descriptor EXCEPT ![s] = [w.descriptor[s] EXCEPT !.at = at, !.ch = ch]],
            !.next = next]

Moves(w, v, s, at, ch, next) ==
  /\ Tables(v) /\ v.inLoop = w.inLoop /\ v.open = w.open /\ v.next = next
  /\ v.descriptor[s] # NoDescriptor
  /\ v.descriptor[s].at = at /\ v.descriptor[s].ch = ch
  /\ v.descriptor[s].channels = w.descriptor[s].channels
  /\ \A o \in Sockets \ {s} : v.descriptor[o] = w.descriptor[o]

LEMMA MovedKeeps ==
  ASSUME NEW w, Tables(w), w.inLoop = NoSocket, NEW s \in Sockets,
         w.descriptor[s] # NoDescriptor,
         NEW at \in States, NEW ch \in Channel,
         at \in {"size1", "size2", "data"} => ch \in Interfaces,
         NEW next \in [Interfaces -> Reading],
         NEW v, v = Moved(w, s, at, ch, next)
  PROVE  Moves(w, v, s, at, ch, next)
<1>1. w \in Server /\ \A o \in Sockets : Good(w, o)
  BY DEF Tables
<1>2. PICK c \in Descriptor : c = w.descriptor[s]
  BY <1>1, DescriptorExists
<1>3. PICK d : d = [c EXCEPT !.at = at, !.ch = ch]
  OBVIOUS
<1>4. /\ d \in Descriptor /\ d # NoDescriptor
      /\ d.channels = c.channels /\ d.alternative = c.alternative /\ d.at = at
      /\ d.ch = ch /\ d.dying = c.dying /\ d.error = c.error
  <2>1. d \in Descriptor
    BY <1>2, <1>3 DEF Descriptor
  <2> QED BY <1>2, <1>3, <2>1, NoDescriptorAssumption DEF Descriptor
<1>5. PICK descriptor : descriptor = [w.descriptor EXCEPT ![s] = d]
  OBVIOUS
<1>6. v = [open |-> w.open, handler |-> w.handler, descriptor |-> descriptor,
           streams |-> w.streams, next |-> next, inLoop |-> w.inLoop, cleared |-> w.cleared]
  BY <1>1, <1>2, <1>3, <1>5 DEF Moved, Server
<1>7. descriptor \in [Sockets -> Descriptor \cup {NoDescriptor}]
  BY <1>1, <1>4, <1>5 DEF Server
<1>8. v \in Server
  BY <1>1, <1>6, <1>7 DEF Server
<1>9. /\ v.descriptor[s] = d
      /\ \A o \in Sockets \ {s} : v.descriptor[o] = w.descriptor[o]
      /\ v.open = w.open /\ v.handler = w.handler /\ v.streams = w.streams /\ v.next = next
      /\ v.inLoop = w.inLoop /\ v.cleared = w.cleared
  BY <1>1, <1>5, <1>6 DEF Server
<1>10. ASSUME NEW o \in Sockets PROVE Good(v, o)
  <2>1. CASE o = s
    <3>1. Agrees(v, s)
      BY <1>1, <1>2, <1>4, <1>9 DEF Good, Agrees
    <3>2. Heard(v, s) /\ Named(v, s)
      BY <1>1, <1>2, <1>4, <1>9 DEF Good, Heard, Named
    <3> QED BY <2>1, <3>1, <3>2 DEF Good
  <2>2. CASE o # s
    <3>1. Agrees(v, o)
      BY <1>1, <1>9, <2>2 DEF Good, Agrees
    <3>2. Heard(v, o) /\ Named(v, o)
      BY <1>1, <1>9, <2>2 DEF Good, Heard, Named
    <3> QED BY <3>1, <3>2 DEF Good
  <2> QED BY <2>1, <2>2
<1>11. QED
  BY <1>2, <1>4, <1>8, <1>9, <1>10 DEF Moves, Tables

(* Who is not touched keeps its place, unless it is at data for an interface
   that is counted down for another. *)
LEMMA PlaceUntouched ==
  ASSUME NEW w, NEW v, NEW c, NEW k, NEW o, At(w, c, o),
         v.descriptor[o] = w.descriptor[o], k[o] = c[o],
         w.descriptor[o] # NoDescriptor /\ w.descriptor[o].at = "data" =>
           v.next[w.descriptor[o].ch] = w.next[w.descriptor[o].ch]
  PROVE  At(v, k, o)
BY DEF At

(* A place a client can be at, and a client that comes to it. *)
Standing(p) == p \in Place /\ (p.at = "data" => p.left > 0)

Put(c, s, p) == [c EXCEPT ![s] = p]

LEMMA ClientMoves ==
  ASSUME IInv, NEW s \in Sockets, NEW p, Standing(p), NEW k, k = Put(client, s, p)
  PROVE  /\ k \in [Sockets -> Place] /\ k[s] = p
         /\ \A o \in Sockets : k[o].at = "data" => k[o].left > 0
         /\ \A o \in Sockets \ {s} : k[o] = client[o]
<1>1. client \in [Sockets -> Place] /\ \A o \in Sockets : client[o].at = "data" => client[o].left > 0
  BY DEF IInv, ClientGood
<1>2. k = [client EXCEPT ![s] = p] /\ p \in Place /\ (p.at = "data" => p.left > 0)
  BY DEF Put, Standing
<1>3. QED
  BY <1>1, <1>2

LEMMA ClientStands ==
  ASSUME IInv, NEW s \in Sockets
  PROVE  Standing(client[s])
BY DEF IInv, ClientGood, Standing

LEMMA FollowingStands ==
  ASSUME NEW c, Standing(c)
  PROVE  Standing(Following(c))
<1> USE DEF Standing
<1>1. \/ Following(c) = [c EXCEPT !.at = "size1"]
      \/ Following(c) = [c EXCEPT !.at = "size2"]
      \/ Following(c) = [c EXCEPT !.at = "data", !.left = PacketSize]
      \/ Following(c) = c
  BY DEF Following
<1>2. PacketSize \in 0..PacketSize /\ PacketSize > 0
  BY PacketSizeAssumption
<1>3. CASE Following(c) = [c EXCEPT !.at = "data", !.left = PacketSize]
  BY <1>2, <1>3 DEF Place, States
<1>4. CASE Following(c) = [c EXCEPT !.at = "size1"] \/ Following(c) = [c EXCEPT !.at = "size2"]
  BY <1>4 DEF Place, States
<1>5. QED
  BY <1>1, <1>3, <1>4

LEMMA AfterDataStands ==
  ASSUME NEW c, Standing(c), NEW n \in Nat, n > 0
  PROVE  Standing(AfterData(c, n))
<1> USE DEF Standing
<1>1. Between \in Place /\ Between.at = "dollar"
  BY PacketSizeAssumption DEF Between, Place, States, Channel
<1>2. CASE c.left > n
  BY <1>2, PacketSizeAssumption DEF AfterData, Place
<1>3. CASE ~(c.left > n)
  BY <1>1, <1>3 DEF AfterData
<1>4. QED
  BY <1>2, <1>3

(* The client is at p in a packet for an interface that is not among the
   channels. *)
Cut(p, channels) == p.at # "dollar" /\ p.at # "channel" /\ p.ch \notin channels

(* A descriptor at this state and interface is where its client is. *)
Meets(at, ch, p) == p.at = at /\ (at \in {"size1", "size2"} => ch = p.ch)

Knows(at, ch) == at \in {"size1", "size2", "data"} => ch \in Interfaces

(* A step of the descriptor of s that does not end at data. *)
LEMMA QuietStep ==
  ASSUME IInv, NEW s \in Sockets, server.descriptor[s] # NoDescriptor,
         NEW at \in States, at # "data", NEW ch \in Channel, Knows(at, ch),
         NEW p, Standing(p),
         NEW v, v = Moved(server, s, at, ch, server.next),
         NEW k, k = Put(client, s, p),
         NEW astray, Becomes(v, k, astray),
         s \in lost \/ s \in astray \/ Cut(p, server.descriptor[s].channels) \/ Meets(at, ch, p)
  PROVE  IInv'
<1>1. PICK w : w = server
  OBVIOUS
<1>2. PICK next : next = w.next
  OBVIOUS
<1>3. Tables(w) /\ w.inLoop = NoSocket /\ w.descriptor[s] # NoDescriptor
  BY <1>1 DEF IInv
<1>4. next \in [Interfaces -> Reading] /\ v = Moved(w, s, at, ch, next)
  BY <1>1, <1>2, <1>3 DEF Tables, Server
<1>5. Moves(w, v, s, at, ch, next)
  BY <1>3, <1>4, MovedKeeps DEF Knows
<1>6. /\ k \in [Sockets -> Place] /\ k[s] = p
      /\ \A o \in Sockets : k[o].at = "data" => k[o].left > 0
      /\ \A o \in Sockets \ {s} : k[o] = client[o]
  BY ClientMoves
<1>7. ASSUME NEW o \in Sockets, o \in v.open, o \notin lost, o \notin astray, o \notin CutOff(v, k)
      PROVE  At(v, k, o)
  <2>1. CASE o = s
    <3>1. ~Cut(p, w.descriptor[s].channels)
      BY <1>5, <1>6, <1>7, <2>1 DEF CutOff, Cut, Moves
    <3>2. Meets(at, ch, p)
      BY <1>1, <1>7, <2>1, <3>1
    <3> QED BY <1>5, <1>6, <2>1, <3>2 DEF At, Moves, Meets
  <2>2. CASE o # s
    <3>1. o \in server.open /\ v.descriptor[o] = server.descriptor[o] /\ v.next = server.next
      BY <1>1, <1>2, <1>5, <1>7, <2>2 DEF Moves
    <3>2. At(server, client, o)
      BY <1>7, <3>1, InStepMeans DEF IInv
    <3>3. k[o] = client[o]
      BY <1>6, <2>2
    <3> QED BY <3>1, <3>2, <3>3 DEF At
  <2> QED BY <2>1, <2>2
<1>8. Alone(v, lost \cup astray \cup CutOff(v, k))
  <2>1. ASSUME NEW o \in Sockets, NEW i \in Interfaces, Awaits(v, o, i)
        PROVE  Awaits(w, o, i) /\ v.descriptor[o] = w.descriptor[o]
    BY <1>5, <2>1 DEF Moves, Awaits
  <2>2. Alone(w, lost)
    BY <1>1 DEF IInv
  <2> QED BY <2>1, <2>2 DEF Alone
<1>9. Tables(v) /\ v.inLoop = NoSocket
  BY <1>3, <1>5 DEF Moves
<1>10. QED
  BY <1>6, <1>7, <1>8, <1>9, BecomesKeeps

StateMoved(w, s, at) == [w EXCEPT !.descriptor[s].at = at]
ChannelMoved(w, s, at, ch) == [w EXCEPT !.descriptor[s].at = at, !.descriptor[s].ch = ch]

LEMMA DescriptorMoved ==
  ASSUME NEW w \in Server, NEW s \in Sockets, NEW c \in Descriptor, c = w.descriptor[s],
         NEW at, NEW ch
  PROVE  /\ StateMoved(w, s, at) = Moved(w, s, at, c.ch, w.next)
         /\ ChannelMoved(w, s, at, ch) = Moved(w, s, at, ch, w.next)
<1>1. PICK next : next = w.next
  OBVIOUS
<1>2. PICK d : d = [c EXCEPT !.at = at]
  OBVIOUS
<1>3. d = [c EXCEPT !.at = at, !.ch = c.ch]
  BY <1>2 DEF Descriptor
<1>4. PICK e : e = [c EXCEPT !.at = at, !.ch = ch]
  OBVIOUS
<1>5. [w EXCEPT !.descriptor[s].at = at] = [w EXCEPT !.descriptor = [w.descriptor EXCEPT ![s] = d], !.next = next]
  BY <1>1, <1>2 DEF Server
<1>6. [w EXCEPT !.descriptor[s].at = at, !.descriptor[s].ch = ch] =
        [w EXCEPT !.descriptor = [w.descriptor EXCEPT ![s] = e], !.next = next]
  BY <1>1, <1>4 DEF Server
<1>7. QED
  BY <1>1, <1>3, <1>4, <1>5, <1>6 DEF Moved, StateMoved, ChannelMoved


(* What a step of a reading finds. *)
LEMMA Reached ==
  ASSUME IInv, NEW s \in Sockets, NEW at, CanRead(s, at)
  PROVE  /\ server \in Server /\ s \in server.open /\ Good(server, s)
         /\ server.descriptor[s] # NoDescriptor /\ server.descriptor[s] \in Descriptor
         /\ server.descriptor[s].at = at
         /\ s \notin lost => At(server, client, s)
<1>1. s \in server.open /\ server.handler[s] = "tcp" /\ server.descriptor[s].at = at
  BY DEF CanRead
<1>2. s \notin lost => At(server, client, s)
  BY <1>1, InStepMeans DEF IInv
<1>3. QED
  BY <1>1, <1>2, Readable

LEMMA ReadDollarKeeps ==
  ASSUME IInv, NEW s \in Sockets, ReadDollar(s)
  PROVE  IInv'
<1>1. CanRead(s, "dollar")
  BY DEF ReadDollar
<1>2. PICK i \in Interfaces :
        Becomes(StateMoved(server, s, "channel"),
                Put(client, s, [at |-> "channel", ch |-> i, left |-> 0]), {})
  BY DEF ReadDollar, StateMoved, Put
<1>3. PICK p : p = [at |-> "channel", ch |-> i, left |-> 0]
  OBVIOUS
<1>4. Standing(p) /\ p.at = "channel"
  BY <1>3, PacketSizeAssumption DEF Standing, Place, States, Channel
<1>5. PICK c \in Descriptor : c = server.descriptor[s]
  BY <1>1, Reached
<1>6. PICK v : v = StateMoved(server, s, "channel")
  OBVIOUS
<1>7. PICK k : k = Put(client, s, p)
  OBVIOUS
<1>8. PICK ch \in Channel : ch = c.ch
  BY DEF Descriptor
<1>9. server \in Server /\ server.descriptor[s] # NoDescriptor
  BY <1>1, Reached
<1>10. v = Moved(server, s, "channel", ch, server.next)
  BY <1>5, <1>6, <1>8, <1>9, DescriptorMoved
<1>11. PICK at \in States : at = "channel"
  BY DEF States
<1>12. at # "data" /\ Knows(at, ch) /\ Meets(at, ch, p)
  BY <1>4, <1>11 DEF Knows, Meets
<1>13. Becomes(v, k, {})
  BY <1>2, <1>3, <1>6, <1>7
<1>14. QED
  BY <1>4, <1>7, <1>9, <1>10, <1>11, <1>12, <1>13, QuietStep

(* The client stays, or takes the next byte. *)
LEMMA ClientStays ==
  ASSUME IInv, NEW s \in Sockets
  PROVE  client = Put(client, s, client[s])
BY DEF IInv, ClientGood, Put

LEMMA ClientFollows ==
  ASSUME IInv, NEW s \in Sockets
  PROVE  /\ client[s].at = "channel" =>
              Following(client[s]).at = "size1" /\ Following(client[s]).ch = client[s].ch
         /\ client[s].at = "size1" =>
              Following(client[s]).at = "size2" /\ Following(client[s]).ch = client[s].ch
         /\ client[s].at = "size2" =>
              /\ Following(client[s]).at = "data" /\ Following(client[s]).ch = client[s].ch
              /\ Following(client[s]).left = PacketSize
<1>1. PICK c \in Place : c = client[s]
  BY DEF IInv, ClientGood
<1>2. c.at = "channel" => Following(c) = [c EXCEPT !.at = "size1"]
  BY DEF Following
<1>3. c.at = "size1" => Following(c) = [c EXCEPT !.at = "size2"]
  BY DEF Following
<1>4. c.at = "size2" => Following(c) = [c EXCEPT !.at = "data", !.left = PacketSize]
  BY DEF Following
<1>5. QED
  BY <1>1, <1>2, <1>3, <1>4 DEF Place

LEMMA ReadChannelIdKeeps ==
  ASSUME IInv, NEW s \in Sockets, ReadChannelId(s)
  PROVE  IInv'
<1>1. CanRead(s, "channel")
  BY DEF ReadChannelId
<1>2. PICK i \in Interfaces :
        /\ s \notin lost => i = client[s].ch
        /\ \/ /\ i \in server.descriptor[s].channels
              /\ Becomes(ChannelMoved(server, s, "size1", i),
                         Put(client, s, Following(client[s])), {})
           \/ /\ i \notin server.descriptor[s].channels
              /\ Becomes(StateMoved(server, s, "dollar"), client, {s})
  <2>1. client \in [Sockets -> Place]
    BY DEF IInv, ClientGood
  <2>2. [client EXCEPT ![s] = Following(@)] = Put(client, s, Following(client[s]))
    BY <2>1 DEF Put
  <2>3. QED
    BY <2>2 DEF ReadChannelId, StateMoved, ChannelMoved
<1>3. PICK c \in Descriptor : c = server.descriptor[s]
  BY <1>1, Reached
<1>4. server \in Server /\ server.descriptor[s] # NoDescriptor
  BY <1>1, Reached
<1>5. s \notin lost => client[s].at = "channel"
  BY <1>1, Reached DEF At
<1>6. CASE i \in server.descriptor[s].channels
  <2>1. PICK p : p = Following(client[s])
    OBVIOUS
  <2>2. Standing(p)
    BY <2>1, ClientStands, FollowingStands
  <2>3. PICK v : v = ChannelMoved(server, s, "size1", i)
    OBVIOUS
  <2>4. PICK k : k = Put(client, s, p)
    OBVIOUS
  <2>5. Becomes(v, k, {})
    BY <1>2, <1>6, <2>1, <2>3, <2>4
  <2>6. v = Moved(server, s, "size1", i, server.next)
    BY <1>3, <1>4, <2>3, DescriptorMoved
  <2>7. PICK at \in States : at = "size1"
    BY DEF States
  <2>8. at # "data" /\ Knows(at, i)
    BY <2>7 DEF Knows
  <2>9. s \in lost \/ Meets(at, i, p)
    BY <1>2, <1>5, <2>1, <2>7, ClientFollows DEF Meets
  <2>10. i \in Channel
    BY DEF Channel
  <2> QED BY <1>4, <2>2, <2>4, <2>5, <2>6, <2>7, <2>8, <2>9, <2>10, QuietStep
<1>7. CASE i \notin server.descriptor[s].channels
  <2>1. PICK p : p = client[s]
    OBVIOUS
  <2>2. Standing(p)
    BY <2>1, ClientStands
  <2>3. PICK v : v = StateMoved(server, s, "dollar")
    OBVIOUS
  <2>4. PICK k : k = client
    OBVIOUS
  <2>5. k = Put(client, s, p)
    BY <2>1, <2>4, ClientStays
  <2>6. PICK ch \in Channel : ch = c.ch
    BY DEF Descriptor
  <2>7. Becomes(v, k, {s})
    BY <1>2, <1>7, <2>3, <2>4
  <2>8. v = Moved(server, s, "dollar", ch, server.next)
    BY <1>3, <1>4, <2>3, <2>6, DescriptorMoved
  <2>9. PICK at \in States : at = "dollar"
    BY DEF States
  <2>10. at # "data" /\ Knows(at, ch)
    BY <2>9 DEF Knows
  <2>11. PICK astray : astray = {s}
    OBVIOUS
  <2>12. s \in astray /\ Becomes(v, k, astray)
    BY <2>7, <2>11
  <2> QED BY <1>4, <2>2, <2>5, <2>8, <2>9, <2>10, <2>12, QuietStep
<1>8. QED
  BY <1>6, <1>7

LEMMA ReadSize1Keeps ==
  ASSUME IInv, NEW s \in Sockets, ReadSize1(s)
  PROVE  IInv'
<1>1. CanRead(s, "size1")
  BY DEF ReadSize1
<1>2. Becomes(StateMoved(server, s, "size2"), Put(client, s, Following(client[s])), {})
  <2>1. client \in [Sockets -> Place]
    BY DEF IInv, ClientGood
  <2>2. [client EXCEPT ![s] = Following(@)] = Put(client, s, Following(client[s]))
    BY <2>1 DEF Put
  <2>3. QED
    BY <2>2 DEF ReadSize1, StateMoved
<1>3. PICK c \in Descriptor : c = server.descriptor[s]
  BY <1>1, Reached
<1>4. /\ server \in Server /\ server.descriptor[s] # NoDescriptor
      /\ c.ch \in Interfaces /\ c.ch \in Channel
  BY <1>1, <1>3, Reached DEF Good, Named, Channel
<1>5. s \notin lost => client[s].at = "size1" /\ c.ch = client[s].ch
  <2>1. server.descriptor[s].at = "size1" /\ (s \notin lost => At(server, client, s))
    BY <1>1, Reached
  <2> QED BY <1>3, <1>4, <2>1 DEF At
<1>6. PICK ch \in Channel : ch = c.ch
  BY <1>4
<1>7. PICK p : p = Following(client[s])
  OBVIOUS
<1>8. Standing(p)
  BY <1>7, ClientStands, FollowingStands
<1>9. PICK v : v = StateMoved(server, s, "size2")
  OBVIOUS
<1>10. PICK k : k = Put(client, s, p)
  OBVIOUS
<1>11. Becomes(v, k, {})
  BY <1>2, <1>7, <1>9, <1>10
<1>12. v = Moved(server, s, "size2", ch, server.next)
  BY <1>3, <1>4, <1>6, <1>9, DescriptorMoved
<1>13. PICK at \in States : at = "size2"
  BY DEF States
<1>14. at # "data" /\ Knows(at, ch)
  BY <1>4, <1>6, <1>13 DEF Knows
<1>15. s \in lost \/ Meets(at, ch, p)
  BY <1>5, <1>6, <1>7, <1>13, ClientFollows DEF Meets
<1>16. QED
  BY <1>4, <1>8, <1>10, <1>11, <1>12, <1>13, <1>14, <1>15, QuietStep

LEMMA LeavePacketKeeps ==
  ASSUME IInv, NEW s \in Sockets, LeavePacket(s)
  PROVE  IInv'
<1>1. CanRead(s, "data")
  BY DEF LeavePacket
<1>2. /\ Becomes(StateMoved(server, s, "dollar"), client, {})
      /\ \/ server.descriptor[s].ch \notin server.descriptor[s].channels
         \/ server.next[server.descriptor[s].ch].size = 0
  BY DEF LeavePacket, StateMoved
<1>3. PICK c \in Descriptor : c = server.descriptor[s]
  BY <1>1, Reached
<1>4. server \in Server /\ server.descriptor[s] # NoDescriptor
  BY <1>1, Reached
<1>5. PICK p : p = client[s]
  OBVIOUS
<1>6. Standing(p)
  BY <1>5, ClientStands
<1>7. \/ s \in lost
      \/ p.at = "dollar"
      \/ p.at = "data" /\ c.ch = p.ch /\ server.next[c.ch] = [size |-> p.left, sock |-> s]
  BY <1>1, <1>3, <1>5, Reached DEF At
<1>8. s \in lost \/ Meets("dollar", c.ch, p) \/ Cut(p, server.descriptor[s].channels)
  <2>1. CASE p.at = "data" /\ c.ch = p.ch /\ server.next[c.ch] = [size |-> p.left, sock |-> s]
    <3>1. server.next[c.ch].size # 0
      BY <1>6, <2>1 DEF Standing, Place
    <3>2. p.ch \notin server.descriptor[s].channels
      BY <1>2, <1>3, <2>1, <3>1
    <3> QED BY <2>1, <3>2 DEF Cut
  <2>2. CASE p.at = "dollar"
    BY <2>2 DEF Meets
  <2> QED BY <1>7, <2>1, <2>2
<1>9. PICK ch \in Channel : ch = c.ch
  BY DEF Descriptor
<1>10. PICK v : v = StateMoved(server, s, "dollar")
  OBVIOUS
<1>11. PICK k : k = client
  OBVIOUS
<1>12. k = Put(client, s, p) /\ Becomes(v, k, {})
  BY <1>2, <1>5, <1>10, <1>11, ClientStays
<1>13. v = Moved(server, s, "dollar", ch, server.next)
  BY <1>3, <1>4, <1>9, <1>10, DescriptorMoved
<1>14. PICK at \in States : at = "dollar"
  BY DEF States
<1>15. at # "data" /\ Knows(at, ch)
  BY <1>14 DEF Knows
<1>16. s \in lost \/ Cut(p, server.descriptor[s].channels) \/ Meets(at, ch, p)
  BY <1>8, <1>9, <1>14
<1>17. QED
  BY <1>4, <1>6, <1>12, <1>13, <1>14, <1>15, <1>16, QuietStep

(* The byte that completes the size of a packet, which is what is left of the
   interface's next one if the socket has its channel. *)
PacketBegun(w, s, i, x) == [w EXCEPT !.descriptor[s].at = "data", !.next[i] = x]

LEMMA PacketBegins ==
  ASSUME NEW w, Tables(w), w.inLoop = NoSocket, NEW s \in Sockets,
         NEW c \in Descriptor, c = w.descriptor[s], c.ch \in Interfaces,
         NEW x \in Reading, NEW v, v = PacketBegun(w, s, c.ch, x)
  PROVE  /\ Tables(v) /\ v.inLoop = NoSocket /\ v.open = w.open
         /\ v.next[c.ch] = x /\ \A i \in Interfaces \ {c.ch} : v.next[i] = w.next[i]
         /\ v.descriptor[s] # NoDescriptor
         /\ v.descriptor[s].at = "data" /\ v.descriptor[s].ch = c.ch
         /\ v.descriptor[s].channels = c.channels
         /\ \A o \in Sockets \ {s} : v.descriptor[o] = w.descriptor[o]
<1>1. w \in Server
  BY DEF Tables
<1>2. PICK i \in Interfaces : i = c.ch
  OBVIOUS
<1>3. PICK next : next = [w.next EXCEPT ![i] = x]
  OBVIOUS
<1>4. PICK d : d = [c EXCEPT !.at = "data"]
  OBVIOUS
<1>5. d = [c EXCEPT !.at = "data", !.ch = c.ch]
  BY <1>4 DEF Descriptor
<1>6. v = [w EXCEPT !.descriptor = [w.descriptor EXCEPT ![s] = d], !.next = next]
  BY <1>1, <1>2, <1>3, <1>4 DEF PacketBegun, Server
<1>7. v = Moved(w, s, "data", i, next)
  BY <1>2, <1>5, <1>6 DEF Moved
<1>8. next \in [Interfaces -> Reading]
  BY <1>1, <1>3 DEF Server
<1>9. next[i] = x /\ \A j \in Interfaces \ {i} : next[j] = w.next[j]
  BY <1>1, <1>3 DEF Server
<1>10. PICK at \in States : at = "data"
  BY DEF States
<1>11. i \in Channel
  BY DEF Channel
<1>12. w.descriptor[s] # NoDescriptor
  BY NoDescriptorAssumption
<1>13. v = Moved(w, s, at, i, next)
  BY <1>7, <1>10
<1>14. Moves(w, v, s, at, i, next)
  BY <1>8, <1>11, <1>12, <1>13, MovedKeeps
<1>15. QED
  BY <1>2, <1>9, <1>10, <1>14 DEF Moves

LEMMA ReadSize2Keeps ==
  ASSUME IInv, NEW s \in Sockets, ReadSize2(s)
  PROVE  IInv'
<1>1. CanRead(s, "size2")
  BY DEF ReadSize2
<1>2. PICK w : w = server
  OBVIOUS
<1>3. PICK c \in Descriptor : c = w.descriptor[s]
  BY <1>1, <1>2, Reached
<1>4. /\ Tables(w) /\ w.inLoop = NoSocket /\ Alone(w, lost)
      /\ w \in Server /\ w.descriptor[s] # NoDescriptor /\ c.ch \in Interfaces
  BY <1>1, <1>2, <1>3, Reached DEF IInv, Good, Named
<1>5. PICK i \in Interfaces : i = c.ch
  BY <1>4
<1>6. PICK p : p = Following(client[s])
  OBVIOUS
<1>7. PICK k : k = Put(client, s, p)
  OBVIOUS
<1>8. /\ k \in [Sockets -> Place] /\ k[s] = p
      /\ \A o \in Sockets : k[o].at = "data" => k[o].left > 0
      /\ \A o \in Sockets \ {s} : k[o] = client[o]
  BY <1>6, <1>7, ClientStands, FollowingStands, ClientMoves
<1>9. s \notin lost => p.at = "data" /\ p.ch = i /\ p.left = PacketSize
  <2>1. server.descriptor[s].at = "size2" /\ (s \notin lost => At(server, client, s))
    BY <1>1, Reached
  <2>2. s \notin lost => client[s].at = "size2" /\ client[s].ch = i
    BY <1>2, <1>3, <1>4, <1>5, <2>1 DEF At
  <2> QED BY <1>6, <2>2, ClientFollows
<1>10. PICK x, astray :
         /\ i \in c.channels => x = [size |-> PacketSize, sock |-> s] /\ astray = Overtaken(s, i)
         /\ i \notin c.channels => x = w.next[i] /\ astray = {}
         /\ Becomes(PacketBegun(w, s, i, x), k, astray)
  <2>1. client \in [Sockets -> Place]
    BY DEF IInv, ClientGood
  <2>2. [client EXCEPT ![s] = Following(@)] = k
    BY <1>6, <1>7, <2>1 DEF Put
  <2>3. Becomes([w EXCEPT !.descriptor[s].at = "data",
                          !.next[i] = IF i \in c.channels THEN [size |-> PacketSize, sock |-> s] ELSE @],
                k, IF i \in c.channels THEN Overtaken(s, i) ELSE {})
    BY <1>2, <1>3, <1>5, <2>2 DEF ReadSize2
  <2>4. CASE i \in c.channels
    <3>1. [w EXCEPT !.descriptor[s].at = "data",
                    !.next[i] = IF i \in c.channels THEN [size |-> PacketSize, sock |-> s] ELSE @]
            = PacketBegun(w, s, i, [size |-> PacketSize, sock |-> s])
      BY <1>4, <2>4 DEF PacketBegun, Server
    <3> QED BY <2>3, <2>4, <3>1
  <2>5. CASE i \notin c.channels
    <3>1. [w EXCEPT !.descriptor[s].at = "data",
                    !.next[i] = IF i \in c.channels THEN [size |-> PacketSize, sock |-> s] ELSE @]
            = PacketBegun(w, s, i, w.next[i])
      BY <1>4, <2>5 DEF PacketBegun, Server
    <3> QED BY <2>3, <2>5, <3>1
  <2> QED BY <2>4, <2>5
<1>11. x \in Reading
  BY <1>4, <1>10, PacketSizeAssumption DEF Reading, Server
<1>12. PICK v : v = PacketBegun(w, s, i, x)
  OBVIOUS
<1>13. /\ Tables(v) /\ v.inLoop = NoSocket /\ v.open = w.open
       /\ v.next[i] = x /\ \A j \in Interfaces \ {i} : v.next[j] = w.next[j]
       /\ v.descriptor[s] # NoDescriptor
       /\ v.descriptor[s].at = "data" /\ v.descriptor[s].ch = i
       /\ v.descriptor[s].channels = c.channels
       /\ \A o \in Sockets \ {s} : v.descriptor[o] = w.descriptor[o]
  BY <1>3, <1>4, <1>5, <1>11, <1>12, PacketBegins
(* Who else is at data for i is lost if the count is not its own any more. *)
<1>14. ASSUME NEW o \in Sockets \ {s}, Awaits(w, o, i), i \in c.channels, o \notin astray
       PROVE  Reads(i) /\ client[o].at # "data"
  BY <1>2, <1>10, <1>14 DEF Overtaken, Awaits
<1>15. ASSUME NEW o \in Sockets \ {s}, Awaits(w, o, i), i \in c.channels, ~Reads(i)
       PROVE  s \in astray
  BY <1>2, <1>10, <1>15 DEF Overtaken, Awaits
<1>16. i \notin c.channels /\ s \notin lost => s \in CutOff(v, k)
  BY <1>8, <1>9, <1>13 DEF CutOff
<1>17. ASSUME NEW o \in Sockets, o \in v.open, o \notin lost, o \notin astray, o \notin CutOff(v, k)
       PROVE  At(v, k, o)
  <2>1. CASE o = s
    <3>1. i \in c.channels /\ v.next[i] = [size |-> PacketSize, sock |-> s]
      BY <1>10, <1>13, <1>16, <1>17, <2>1
    <3>2. k[s].at = "data" /\ k[s].ch = i /\ k[s].left = PacketSize
      BY <1>8, <1>9, <1>17, <2>1
    <3> QED BY <1>13, <2>1, <3>1, <3>2 DEF At
  <2>2. CASE o # s
    <3>1. /\ v.descriptor[o] = w.descriptor[o] /\ k[o] = client[o]
          /\ At(w, client, o)
      BY <1>2, <1>8, <1>13, <1>17, <2>2, InStepMeans DEF IInv
    <3>2. CASE Awaits(w, o, i) /\ i \in c.channels
      <4>1. Reads(i) /\ client[o].at # "data"
        BY <1>14, <1>17, <2>2, <3>2
      <4>2. client[o].at = "dollar"
        BY <3>1, <3>2, <4>1 DEF At, Awaits
      <4>3. v.next[i].sock # o
        BY <1>10, <1>13, <2>2, <3>2
      <4> QED BY <3>1, <3>2, <4>1, <4>2, <4>3 DEF At, Awaits
    <3>3. CASE ~(Awaits(w, o, i) /\ i \in c.channels)
      <4>1. w.descriptor[o] # NoDescriptor /\ w.descriptor[o].at = "data" =>
              v.next[w.descriptor[o].ch] = w.next[w.descriptor[o].ch]
        <5>1. w.descriptor[o] # NoDescriptor /\ w.descriptor[o].at = "data" =>
                w.descriptor[o].ch \in Interfaces
          BY <1>4 DEF Tables, Good, Named
        <5> QED BY <1>10, <1>13, <3>3, <5>1 DEF Awaits
      <4> QED BY <3>1, <4>1, PlaceUntouched
    <3> QED BY <3>2, <3>3
  <2> QED BY <2>1, <2>2
<1>18. Alone(v, lost \cup astray \cup CutOff(v, k))
  <2>1. SUFFICES ASSUME NEW a \in Sockets, NEW o \in Sockets, NEW j \in Interfaces,
                        a # o, ~Reads(j),
                        Awaits(v, a, j), j \in v.descriptor[a].channels, Awaits(v, o, j)
                 PROVE  o \in lost \cup astray \cup CutOff(v, k)
    BY DEF Alone
  <2>2. CASE a = s
    <3>1. j = i /\ i \in c.channels /\ Awaits(w, o, i)
      BY <1>13, <2>1, <2>2 DEF Awaits
    <3> QED BY <1>14, <2>1, <2>2, <3>1
  <2>3. CASE o = s
    <3>1. j = i /\ Awaits(w, a, i)
      BY <1>13, <2>1, <2>3 DEF Awaits
    <3> QED BY <1>15, <1>16, <2>1, <2>3, <3>1
  <2>4. CASE a # s /\ o # s
    <3>1. Awaits(w, a, j) /\ j \in w.descriptor[a].channels /\ Awaits(w, o, j)
      BY <1>13, <2>1, <2>4 DEF Awaits
    <3> QED BY <1>4, <2>1, <3>1 DEF Alone
  <2> QED BY <2>2, <2>3, <2>4
<1>19. Becomes(v, k, astray)
  BY <1>10, <1>12
<1>20. QED
  BY <1>8, <1>13, <1>17, <1>18, <1>19, BecomesKeeps

-----------------------------------------------------------------------------
(* The steps at the data of a packet, which change what is left of the next  *)
(* packet of one interface and where one client is.                          *)

Counted(w, i, x) == [w EXCEPT !.next[i] = x]

LEMMA CountedKeeps ==
  ASSUME NEW w, Tables(w), NEW i \in Interfaces, NEW x \in Reading, NEW v, v = Counted(w, i, x)
  PROVE  /\ Tables(v) /\ v.inLoop = w.inLoop /\ v.open = w.open /\ v.descriptor = w.descriptor
         /\ v.next[i] = x /\ \A j \in Interfaces \ {i} : v.next[j] = w.next[j]
<1>1. w \in Server /\ \A s \in Sockets : Good(w, s)
  BY DEF Tables
<1>2. PICK next : next = [w.next EXCEPT ![i] = x]
  OBVIOUS
<1>3. v = [open |-> w.open, handler |-> w.handler, descriptor |-> w.descriptor,
           streams |-> w.streams, next |-> next, inLoop |-> w.inLoop, cleared |-> w.cleared]
  BY <1>1, <1>2 DEF Counted, Server
<1>4. next \in [Interfaces -> Reading]
  BY <1>1, <1>2 DEF Server
<1>5. v \in Server
  BY <1>1, <1>3, <1>4 DEF Server
<1>6. /\ v.descriptor = w.descriptor /\ v.open = w.open /\ v.handler = w.handler
      /\ v.streams = w.streams /\ v.inLoop = w.inLoop /\ v.cleared = w.cleared
      /\ v.next = next
  BY <1>3
<1>7. ASSUME NEW s \in Sockets PROVE Good(v, s)
  <2>1. Agrees(v, s)
    BY <1>1, <1>6 DEF Good, Agrees
  <2>2. Heard(v, s) /\ Named(v, s)
    BY <1>1, <1>6 DEF Good, Heard, Named
  <2> QED BY <2>1, <2>2 DEF Good
<1>8. next[i] = x /\ \A j \in Interfaces \ {i} : next[j] = w.next[j]
  BY <1>1, <1>2 DEF Server
<1>9. QED
  BY <1>5, <1>6, <1>7, <1>8 DEF Tables

(* The client k[o] of a socket at data for i is where x says; others stay. *)
Counts(o, i, x, k) ==
  IF Awaits(server, o, i)
  THEN \/ k[o].at = "data" /\ k[o].ch = i /\ x = [size |-> k[o].left, sock |-> o]
       \/ k[o].at = "dollar" /\ (x.size = 0 \/ (Reads(i) /\ x.sock # o))
  ELSE k[o] = client[o]

(* So such a step keeps the place of each socket. *)
LEMMA CountStep ==
  ASSUME IInv, NEW i \in Interfaces, NEW x \in Reading, NEW v, v = Counted(server, i, x),
         NEW f \in Sockets, NEW p, Standing(p), NEW k, k = Put(client, f, p),
         NEW astray, Becomes(v, k, astray),
         \A o \in Sockets : o \in lost \/ o \in astray \/ Counts(o, i, x, k)
  PROVE  IInv'
<1>1. PICK w : w = server
  OBVIOUS
<1>2. Tables(w) /\ w.inLoop = NoSocket /\ Alone(w, lost)
  BY <1>1 DEF IInv
<1>3. /\ Tables(v) /\ v.inLoop = NoSocket /\ v.open = w.open /\ v.descriptor = w.descriptor
      /\ v.next[i] = x /\ \A j \in Interfaces \ {i} : v.next[j] = w.next[j]
  BY <1>1, <1>2, CountedKeeps
<1>4. k \in [Sockets -> Place] /\ \A o \in Sockets : k[o].at = "data" => k[o].left > 0
  BY ClientMoves
<1>5. ASSUME NEW o \in Sockets, o \in v.open, o \notin lost, o \notin astray
      PROVE  At(v, k, o)
  <2>1. CASE Awaits(w, o, i)
    <3>1. \/ k[o].at = "data" /\ k[o].ch = i /\ x = [size |-> k[o].left, sock |-> o]
          \/ k[o].at = "dollar" /\ (x.size = 0 \/ (Reads(i) /\ x.sock # o))
      BY <1>1, <1>5, <2>1 DEF Counts
    <3> QED BY <1>3, <2>1, <3>1 DEF At, Awaits
  <2>2. CASE ~Awaits(w, o, i)
    <3>1. k[o] = client[o]
      BY <1>1, <1>5, <2>2 DEF Counts
    <3>2. At(w, client, o)
      BY <1>1, <1>3, <1>5, InStepMeans DEF IInv
    <3>3. w.descriptor[o] # NoDescriptor /\ w.descriptor[o].at = "data" =>
            v.next[w.descriptor[o].ch] = w.next[w.descriptor[o].ch]
      <4>1. w.descriptor[o] # NoDescriptor /\ w.descriptor[o].at = "data" =>
              w.descriptor[o].ch \in Interfaces
        BY <1>2 DEF Tables, Good, Named
      <4> QED BY <1>3, <2>2, <4>1 DEF Awaits
    <3> QED BY <1>3, <3>1, <3>2, <3>3, PlaceUntouched
  <2> QED BY <2>1, <2>2
<1>6. Alone(v, lost \cup astray \cup CutOff(v, k))
  BY <1>2, <1>3 DEF Alone, Awaits
<1>7. QED
  BY <1>3, <1>4, <1>5, <1>6, BecomesKeeps

(* What a socket is at that is at data. *)
LEMMA AwaitsMeans ==
  ASSUME IInv, NEW o \in Sockets, NEW i \in Interfaces, o \notin lost, Awaits(server, o, i)
  PROVE  \/ /\ client[o].at = "data" /\ client[o].ch = i
            /\ server.next[i] = [size |-> client[o].left, sock |-> o]
         \/ /\ client[o].at = "dollar"
            /\ server.next[i].size = 0 \/ (Reads(i) /\ server.next[i].sock # o)
<1>1. o \in server.open
  BY DEF IInv, Tables, Good, Agrees, Awaits
<1>2. At(server, client, o)
  BY <1>1, InStepMeans DEF IInv
<1>3. QED
  BY <1>2 DEF At, Awaits

(* And who is in the data of a packet has a descriptor that is. *)
LEMMA DataAwaited ==
  ASSUME IInv, NEW o \in server.open, o \notin lost, client[o].at = "data"
  PROVE  o \in Sockets /\ Awaits(server, o, client[o].ch)
<1>1. o \in Sockets
  BY DEF IInv, Tables, Server
<1>2. At(server, client, o)
  BY InStepMeans DEF IInv
<1>3. QED
  BY <1>1, <1>2 DEF At, Awaits

(* n bytes of the data are read on both sides. *)
LEMMA AfterDataIs ==
  ASSUME NEW c, Standing(c), c.at = "data", NEW n \in Nat, n > 0, n <= c.left,
         NEW q, q = AfterData(c, n)
  PROVE  \/ q.at = "data" /\ q.ch = c.ch /\ q.left = c.left - n
         \/ q.at = "dollar" /\ c.left - n = 0
<1>1. c.left \in Nat /\ c \in Place
  BY PacketSizeAssumption DEF Standing, Place
<1>2. CASE c.left > n
  BY <1>1, <1>2 DEF AfterData, Place
<1>3. CASE ~(c.left > n)
  BY <1>1, <1>3 DEF AfterData, Between
<1>4. QED
  BY <1>2, <1>3

LEMMA AtDataMeans ==
  ASSUME IInv, NEW s \in Sockets, AtData(s), NEW i, i = server.descriptor[s].ch
  PROVE  /\ i \in Interfaces /\ Awaits(server, s, i) /\ i \in server.descriptor[s].channels
         /\ server.next[i] \in Reading /\ server.next[i].size > 0
         /\ server \in Server /\ s \in server.open
<1>1. /\ CanRead(s, "data") /\ i \in server.descriptor[s].channels /\ server.next[i].size > 0
  BY DEF AtData
<1>2. /\ server \in Server /\ s \in server.open
      /\ server.descriptor[s] # NoDescriptor /\ server.descriptor[s].at = "data"
      /\ i \in Interfaces
  BY <1>1, Reached DEF Good, Named
<1>3. server.next[i] \in Reading
  BY <1>2 DEF Server
<1>4. QED
  BY <1>1, <1>2, <1>3 DEF Awaits

LEMMA HandleReadKeeps ==
  ASSUME IInv, NEW s \in Sockets, HandleRead(s)
  PROVE  IInv'
<1>1. AtData(s)
  BY DEF HandleRead
<1>2. PICK i : i = server.descriptor[s].ch
  OBVIOUS
<1>3. /\ i \in Interfaces /\ server \in Server
      /\ server.next[i] \in Reading /\ server.next[i].size > 0
  BY <1>1, <1>2, AtDataMeans
<1>4. PICK m \in Reading : m = server.next[i]
  BY <1>3
<1>5. PICK f : f = m.sock
  OBVIOUS
<1>6. Reads(i) /\ f # NoSocket /\ f \in Sockets /\ m.size \in Nat
  <2>1. Reads(i) /\ f # NoSocket
    BY <1>2, <1>4, <1>5 DEF HandleRead
  <2>2. m.size \in 0..PacketSize /\ f \in Sockets \cup {NoSocket}
    BY <1>5 DEF Reading
  <2> QED BY <2>1, <2>2, PacketSizeAssumption
<1>7. PICK n, astray :
        /\ n \in 1..m.size /\ f \in server.open
        /\ f \notin lost /\ client[f].at = "data" /\ client[f].ch = i => n <= client[f].left
        /\ f \in astray \/ (f \notin lost /\ client[f].at = "data" /\ client[f].ch = i)
        /\ Becomes([server EXCEPT !.next[i] =
                      [size |-> m.size - n, sock |-> IF m.size - n = 0 THEN NoSocket ELSE @.sock]],
                   [client EXCEPT ![f] = AfterData(@, n)], astray)
  <2>1. PICK n \in 1..m.size :
          /\ f \in server.open
          /\ f \notin lost /\ client[f].at = "data" /\ client[f].ch = i => n <= client[f].left
          /\ Becomes([server EXCEPT !.next[i] =
                        [size |-> m.size - n, sock |-> IF m.size - n = 0 THEN NoSocket ELSE @.sock]],
                     [client EXCEPT ![f] = AfterData(@, n)],
                     IF f \notin lost /\ client[f].at = "data" /\ client[f].ch = i THEN {} ELSE {f})
    BY <1>2, <1>4, <1>5 DEF HandleRead
  <2>2. PICK astray :
          astray = IF f \notin lost /\ client[f].at = "data" /\ client[f].ch = i THEN {} ELSE {f}
    OBVIOUS
  <2>3. f \in astray \/ (f \notin lost /\ client[f].at = "data" /\ client[f].ch = i)
    BY <2>2
  <2> QED BY <2>1, <2>2, <2>3
<1>8. PICK rest : rest = m.size - n
  OBVIOUS
<1>9. rest \in 0..PacketSize
  BY <1>4, <1>6, <1>7, <1>8, PacketSizeAssumption DEF Reading
<1>10. PICK x : x = [size |-> rest, sock |-> IF rest = 0 THEN NoSocket ELSE f]
  OBVIOUS
<1>11. x \in Reading /\ x.size = rest /\ (rest # 0 => x.sock = f) /\ (x.sock = f \/ x.sock = NoSocket)
  BY <1>6, <1>9, <1>10 DEF Reading
<1>12. PICK p : p = AfterData(client[f], n)
  OBVIOUS
<1>13. Standing(p)
  BY <1>6, <1>7, <1>12, ClientStands, AfterDataStands
<1>14. PICK v : v = Counted(server, i, x)
  OBVIOUS
<1>15. PICK k : k = Put(client, f, p)
  OBVIOUS
<1>16. client \in [Sockets -> Place]
  BY DEF IInv, ClientGood
<1>17. Becomes(v, k, astray)
  <2>1. [server EXCEPT !.next[i] = [size |-> rest, sock |-> IF rest = 0 THEN NoSocket ELSE @.sock]] = v
    BY <1>3, <1>4, <1>5, <1>10, <1>14 DEF Counted, Server
  <2>2. [client EXCEPT ![f] = AfterData(@, n)] = k
    BY <1>6, <1>12, <1>15, <1>16 DEF Put
  <2> QED BY <1>7, <1>8, <2>1, <2>2
<1>18. k[f] = p /\ \A o \in Sockets \ {f} : k[o] = client[o]
  BY <1>6, <1>13, <1>15, ClientMoves
<1>19. ASSUME NEW o \in Sockets, o \notin lost, o \notin astray
       PROVE  Counts(o, i, x, k)
  <2>1. CASE o = f
    <3>1. client[f].at = "data" /\ client[f].ch = i /\ n <= client[f].left
      BY <1>7, <1>19, <2>1
    <3>2. Awaits(server, f, i)
      BY <1>7, <1>19, <2>1, <3>1, DataAwaited
    <3>3. m = [size |-> client[f].left, sock |-> f]
      BY <1>3, <1>4, <1>19, <2>1, <3>1, <3>2, AwaitsMeans
    <3>4. m.size = client[f].left
      BY <3>3
    <3>5. \/ p.at = "data" /\ p.ch = i /\ p.left = rest
          \/ p.at = "dollar" /\ rest = 0
      <4>1. Standing(client[f]) /\ n \in Nat /\ n > 0
        BY <1>6, <1>7, ClientStands
      <4> QED BY <1>8, <1>12, <3>1, <3>4, <4>1, AfterDataIs
    <3>6. CASE p.at = "dollar" /\ rest = 0
      BY <1>11, <1>18, <2>1, <3>2, <3>6 DEF Counts
    <3>7. CASE p.at = "data" /\ p.ch = i /\ p.left = rest
      <4>1. rest # 0
        BY <1>13, <3>7 DEF Standing
      <4>2. x = [size |-> p.left, sock |-> f]
        BY <1>10, <3>7, <4>1
      <4> QED BY <1>18, <2>1, <3>2, <3>7, <4>2 DEF Counts
    <3> QED BY <3>5, <3>6, <3>7
  <2>2. CASE o # f /\ Awaits(server, o, i)
    <3>1. client[o].at = "dollar"
      <4>1. \/ client[o].at = "data" /\ m = [size |-> client[o].left, sock |-> o]
            \/ client[o].at = "dollar"
        BY <1>3, <1>4, <1>19, <2>2, AwaitsMeans
      <4> QED BY <1>5, <2>2, <4>1
    <3>2. x.sock # o
      BY <1>11, <2>2, NamesAssumption
    <3> QED BY <1>6, <1>18, <2>2, <3>1, <3>2 DEF Counts
  <2>3. CASE o # f /\ ~Awaits(server, o, i)
    BY <1>18, <2>3 DEF Counts
  <2> QED BY <2>1, <2>2, <2>3
<1>20. QED
  BY <1>3, <1>6, <1>11, <1>13, <1>14, <1>15, <1>17, <1>19, CountStep

LEMMA HandleReadFailsKeeps ==
  ASSUME IInv, NEW s \in Sockets, HandleReadFails(s)
  PROVE  IInv'
<1>1. AtData(s)
  BY DEF HandleReadFails
<1>2. PICK i : i = server.descriptor[s].ch
  OBVIOUS
<1>3. i \in Interfaces /\ server \in Server /\ server.next[i] \in Reading
  BY <1>1, <1>2, AtDataMeans
<1>4. PICK m \in Reading : m = server.next[i]
  BY <1>3
<1>5. PICK f : f = m.sock
  OBVIOUS
<1>6. Reads(i) /\ f # NoSocket /\ f \in Sockets
  BY <1>2, <1>4, <1>5 DEF HandleReadFails, Reading
<1>7. PICK x : x = [m EXCEPT !.sock = NoSocket]
  OBVIOUS
<1>8. x \in Reading /\ x.sock = NoSocket
  BY <1>7 DEF Reading
<1>9. PICK v : v = Counted(server, i, x)
  OBVIOUS
<1>10. PICK p : p = client[s]
  OBVIOUS
<1>11. Standing(p)
  BY <1>10, ClientStands
<1>12. PICK k : k = client
  OBVIOUS
<1>13. k = Put(client, s, p)
  BY <1>10, <1>12, ClientStays
<1>14. PICK astray : astray = {f, s}
  OBVIOUS
<1>15. Becomes(v, k, astray)
  <2>1. [server EXCEPT !.next[i].sock = NoSocket] = v
    BY <1>3, <1>4, <1>7, <1>9 DEF Counted, Server
  <2>2. Becomes([server EXCEPT !.next[i].sock = NoSocket], client, {server.next[i].sock, s})
    BY <1>2 DEF HandleReadFails
  <2> QED BY <1>4, <1>5, <1>12, <1>14, <2>1, <2>2
<1>16. ASSUME NEW o \in Sockets, o \notin lost, o \notin astray
       PROVE  Counts(o, i, x, k)
  <2>1. CASE Awaits(server, o, i)
    <3>1. client[o].at = "dollar"
      <4>1. \/ client[o].at = "data" /\ m = [size |-> client[o].left, sock |-> o]
            \/ client[o].at = "dollar"
        BY <1>3, <1>4, <1>16, <2>1, AwaitsMeans
      <4>2. o # f
        BY <1>14, <1>16
      <4> QED BY <1>5, <4>1, <4>2
    <3>2. x.sock # o
      BY <1>8, NamesAssumption
    <3> QED BY <1>6, <1>12, <2>1, <3>1, <3>2 DEF Counts
  <2>2. CASE ~Awaits(server, o, i)
    BY <1>12, <2>2 DEF Counts
  <2> QED BY <2>1, <2>2
<1>17. QED
  BY <1>3, <1>8, <1>9, <1>11, <1>13, <1>15, <1>16, CountStep

LEMMA SkipDataKeeps ==
  ASSUME IInv, NEW s \in Sockets, SkipData(s)
  PROVE  IInv'
<1>1. AtData(s)
  BY DEF SkipData
<1>2. PICK i : i = server.descriptor[s].ch
  OBVIOUS
<1>3. /\ i \in Interfaces /\ server \in Server
      /\ server.next[i] \in Reading /\ server.next[i].size > 0
      /\ Awaits(server, s, i) /\ i \in server.descriptor[s].channels
  BY <1>1, <1>2, AtDataMeans
<1>4. ~Reads(i)
  BY <1>2 DEF SkipData
<1>5. PICK m \in Reading : m = server.next[i]
  BY <1>3
<1>6. PICK x : x = [m EXCEPT !.size = @ - 1]
  OBVIOUS
<1>7. m.size \in 0..PacketSize /\ m.size > 0 /\ PacketSize \in Nat
  BY <1>3, <1>5, PacketSizeAssumption DEF Reading
<1>8. x = [size |-> m.size - 1, sock |-> m.sock] /\ m.size - 1 \in 0..PacketSize
  BY <1>6, <1>7 DEF Reading
<1>9. x \in Reading /\ x.size = m.size - 1 /\ x.sock = m.sock
  BY <1>8 DEF Reading
<1>10. PICK v : v = Counted(server, i, x)
  OBVIOUS
<1>11. PICK p : p = AfterData(client[s], 1)
  OBVIOUS
<1>12. Standing(p)
  BY <1>11, ClientStands, AfterDataStands
<1>13. PICK k : k = Put(client, s, p)
  OBVIOUS
<1>14. PICK astray : astray = {}
  OBVIOUS
<1>15. Becomes(v, k, astray)
  <2>1. [server EXCEPT !.next[i].size = @ - 1] = v
    BY <1>3, <1>5, <1>6, <1>10 DEF Counted, Server
  <2>2. client \in [Sockets -> Place]
    BY DEF IInv, ClientGood
  <2>3. [client EXCEPT ![s] = AfterData(@, 1)] = k
    BY <1>11, <1>13, <2>2 DEF Put
  <2>4. Becomes([server EXCEPT !.next[i].size = @ - 1], [client EXCEPT ![s] = AfterData(@, 1)], {})
    BY <1>2 DEF SkipData
  <2> QED BY <1>14, <2>1, <2>3, <2>4
<1>16. k[s] = p /\ \A o \in Sockets \ {s} : k[o] = client[o]
  BY <1>12, <1>13, ClientMoves
<1>17. ASSUME NEW o \in Sockets, o \notin lost, o \notin astray
       PROVE  Counts(o, i, x, k)
  <2>1. CASE o = s
    <3>1. client[s].at = "data" /\ client[s].ch = i /\ m = [size |-> client[s].left, sock |-> s]
      BY <1>3, <1>4, <1>5, <1>7, <1>17, <2>1, AwaitsMeans
    <3>2. m.size = client[s].left /\ m.sock = s
      BY <3>1
    <3>3. \/ p.at = "data" /\ p.ch = i /\ p.left = x.size
          \/ p.at = "dollar" /\ x.size = 0
      <4>1. Standing(client[s])
        BY ClientStands
      <4>2. PICK n \in Nat : n = 1
        OBVIOUS
      <4>3. n > 0 /\ n <= client[s].left /\ p = AfterData(client[s], n)
        BY <1>7, <1>11, <3>2, <4>2
      <4>4. \/ p.at = "data" /\ p.ch = client[s].ch /\ p.left = client[s].left - n
            \/ p.at = "dollar" /\ client[s].left - n = 0
        BY <3>1, <4>1, <4>3, AfterDataIs
      <4> QED BY <1>9, <3>1, <3>2, <4>2, <4>4
    <3>4. x = [size |-> x.size, sock |-> s]
      BY <1>8, <3>2
    <3>5. CASE p.at = "dollar" /\ x.size = 0
      BY <1>3, <1>16, <2>1, <3>5 DEF Counts
    <3>6. CASE p.at = "data" /\ p.ch = i /\ p.left = x.size
      BY <1>3, <1>16, <2>1, <3>4, <3>6 DEF Counts
    <3> QED BY <3>3, <3>5, <3>6
  <2>2. CASE o # s
    <3>1. ~Awaits(server, o, i)
      BY <1>3, <1>4, <1>17, <2>2 DEF IInv, Alone
    <3> QED BY <1>16, <2>2, <3>1 DEF Counts
  <2> QED BY <2>1, <2>2
<1>18. QED
  BY <1>3, <1>9, <1>10, <1>12, <1>13, <1>15, <1>17, CountStep

-----------------------------------------------------------------------------
(* The theorems.                                                           *)

LEMMA InitIInv == Init => IInv
<1>1. SUFFICES ASSUME Init PROVE IInv
  OBVIOUS
<1>2. PICK w : w = server
  OBVIOUS
<1>3. w = [open |-> {}, handler |-> [s \in Sockets |-> "none"],
           descriptor |-> [s \in Sockets |-> NoDescriptor],
           streams |-> [i \in Interfaces |-> {}],
           next |-> [i \in Interfaces |-> [size |-> 0, sock |-> NoSocket]],
           inLoop |-> NoSocket, cleared |-> {}]
  BY <1>1, <1>2 DEF Init
<1>4. w \in Server
  BY <1>3, PacketSizeAssumption DEF Server, Reading
<1>5. ASSUME NEW s \in Sockets PROVE Good(w, s)
  <2>1. /\ w.open = {} /\ w.handler[s] = "none" /\ w.descriptor[s] = NoDescriptor
        /\ \A i \in Interfaces : w.streams[i] = {}
    BY <1>3
  <2> QED BY <2>1 DEF Good, Agrees, Heard, Named
<1>6. Tables(server) /\ server.inLoop = NoSocket
  <2>1. Tables(w)
    BY <1>4, <1>5 DEF Tables
  <2>2. w.inLoop = NoSocket
    BY <1>3
  <2> QED BY <1>2, <2>1, <2>2
<1>7. Between \in Place /\ Between.at = "dollar"
  BY PacketSizeAssumption DEF Between, Place, States, Channel
<1>8. ClientGood
  BY <1>1, <1>7 DEF Init, ClientGood
<1>9. server.open = {} /\ \A s \in Sockets : server.descriptor[s] = NoDescriptor
  BY <1>2, <1>3
<1>10. InStep /\ Alone(server, lost)
  BY <1>9 DEF InStep, Alone, Awaits
<1>11. QED
  BY <1>6, <1>8, <1>10 DEF IInv

LEMMA NextKeepsIInv == IInv /\ [Next]_vars => IInv'
<1>1. SUFFICES ASSUME IInv, [Next]_vars PROVE IInv'
  OBVIOUS
<1>2. ASSUME NEW s \in Sockets, ReadDollar(s) PROVE IInv'
  BY <1>1, <1>2, ReadDollarKeeps
<1>3. ASSUME NEW s \in Sockets, ReadRequest(s) PROVE IInv'
  BY <1>1, <1>3, ReadRequestKeeps
<1>4. ASSUME NEW s \in Sockets, ReadChannelId(s) PROVE IInv'
  BY <1>1, <1>4, ReadChannelIdKeeps
<1>5. ASSUME NEW s \in Sockets, ReadSize1(s) PROVE IInv'
  BY <1>1, <1>5, ReadSize1Keeps
<1>6. ASSUME NEW s \in Sockets, ReadSize2(s) PROVE IInv'
  BY <1>1, <1>6, ReadSize2Keeps
<1>7. ASSUME NEW s \in Sockets, LeavePacket(s) PROVE IInv'
  BY <1>1, <1>7, LeavePacketKeeps
<1>8. ASSUME NEW s \in Sockets, HandleRead(s) PROVE IInv'
  BY <1>1, <1>8, HandleReadKeeps
<1>9. ASSUME NEW s \in Sockets, HandleReadFails(s) PROVE IInv'
  BY <1>1, <1>9, HandleReadFailsKeeps
<1>10. ASSUME NEW s \in Sockets, SkipData(s) PROVE IInv'
  BY <1>1, <1>10, SkipDataKeeps
<1>11. ASSUME NEW s \in Sockets, ReadError(s) PROVE IInv'
  BY <1>1, <1>11, ReadErrorKeeps
<1>12. ASSUME NEW s \in Sockets, Accept(s) PROVE IInv'
  BY <1>1, <1>12, AcceptKeepsIInv
<1>13. ASSUME NEW s \in Sockets, RequestWithoutStreams(s) PROVE IInv'
  BY <1>1, <1>13, RequestWithoutStreamsKeeps
<1>14. ASSUME NEW s \in Sockets, NEW t \in Tracks, SessionEnds(t, s) PROVE IInv'
  BY <1>1, <1>14, SessionEndsKeeps
<1>15. ASSUME NEW s \in Sockets, NEW i \in Interfaces, SendFails(i, s) PROVE IInv'
  BY <1>1, <1>15, SendFailsKeeps
<1>16. ASSUME NEW t \in Tracks, SourceEnds(t) PROVE IInv'
  BY <1>1, <1>16, SourceEndsKeeps
<1>17. CASE UNCHANGED vars
  BY <1>1, <1>17 DEF vars, IInv, Tables, Good, Agrees, Heard, Named, ClientGood, InStep,
                     Alone, Awaits
<1>18. QED
  BY <1>1, <1>2, <1>3, <1>4, <1>5, <1>6, <1>7, <1>8, <1>9, <1>10, <1>11, <1>12, <1>13, <1>14,
     <1>15, <1>16, <1>17 DEF Next

(* In every state the program can reach, the tables of each socket agree, a
   connection with a descriptor or without hears its requests, and each
   descriptor is where its client is. *)
THEOREM Invariance == Spec => []IInv
<1> QED
  BY InitIInv, NextKeepsIInv, PTL DEF Spec

(* Every member of the interfaces, descriptors and connections keeps to its
   type, and fAreInReadHandlerLoop is set only within tcpReadHandler. *)
THEOREM TypeCorrect == Spec => []TypeOK
<1>1. IInv => TypeOK
  BY DEF IInv, Tables, Server, Reading, ClientGood, Place, TypeOK
<1>2. QED
  BY <1>1, Invariance, PTL

(* The lists of streams of the interfaces, the channels of the descriptors and
   the event loop's handlers agree on every socket, however streams start, end
   and fail, also from within the descriptor's own loop, and no descriptor that
   is to be deleted is left. *)
THEOREM StreamsStayAgreed == Spec => []StreamsAgree
<1>1. IInv => StreamsAgree
  <2>1. SUFFICES ASSUME IInv PROVE StreamsAgree
    OBVIOUS
  <2>2. ASSUME NEW s \in Sockets PROVE Good(server, s) /\ server.inLoop # s
    BY <2>1, NamesAssumption DEF IInv, Tables
  <2> QED BY <2>2 DEF Good, Agrees, StreamsAgree
<1>2. QED
  BY <1>1, Invariance, PTL

(* A descriptor takes requests for requests and packets for packets, at the
   same byte as its client, until a packet is cut off, overtaken or for
   nobody. *)
THEOREM StaysInStep == Spec => []InStep
<1>1. IInv => InStep
  BY DEF IInv
<1>2. QED
  BY <1>1, Invariance, PTL

(* The requests on an open connection reach it, by the event loop or by the
   descriptor of its socket, unless endPlaying has cleared its handler. *)
THEOREM RequestsStayHeard == Spec => []RequestsHeard
<1>1. IInv => RequestsHeard
  <2>1. SUFFICES ASSUME IInv, NEW s \in server.open \ server.cleared
                 PROVE  IF server.descriptor[s] = NoDescriptor THEN server.handler[s] = "rtsp"
                        ELSE server.descriptor[s].alternative
    BY DEF RequestsHeard
  <2>2. s \in Sockets /\ Heard(server, s)
    BY <2>1 DEF IInv, Tables, Server, Good
  <2>3. CASE server.descriptor[s] = NoDescriptor
    BY <2>1, <2>2, <2>3 DEF Heard
  <2>4. CASE server.descriptor[s] # NoDescriptor
    BY <2>1, <2>2, <2>4 DEF Heard
  <2> QED BY <2>3, <2>4
<1>2. QED
  BY <1>1, Invariance, PTL
=============================================================================
