----------------------------- MODULE RTSPServer -----------------------------
(***************************************************************************)
(* The RTSP client sessions of RTSPServer.cpp and the streams that         *)
(* OnDemandServerMediaSubsession.cpp makes for them.                       *)
(*                                                                         *)
(* A client session sets up tracks, each with a stream token, and plays,   *)
(* pauses and tears them down.  A stream has a source, a sink, a list of   *)
(* destinations and a table of whom to tell about RTCP reports.  A track   *)
(* that reuses its first source has one stream for all its clients, with a *)
(* reference count; another track has a stream for each client.  A client  *)
(* gets its RTP packets at a UDP endpoint or over a RTSP connection; the   *)
(* server notes the latter, to stop the streams when the connection ends.  *)
(* All of this runs in one thread, a request or a timeout at a time.       *)
(***************************************************************************)
EXTENDS Integers, FiniteSets, Bags, Functions

CONSTANTS
  Sessions,     \* session ids
  Tracks,       \* the subsessions of the stream that the clients set up
  Sockets,      \* numbers of TCP sockets
  Endpoints,    \* addresses and ports of UDP clients
  Shared,       \* the tracks with fReuseFirstSource
  WithDuration, \* the tracks whose duration is known
  Nowhere       \* neither a socket nor an endpoint

ASSUME TracksAssumption == Shared \subseteq Tracks /\ WithDuration \subseteq Tracks
ASSUME PlacesAssumption ==
  Sockets \intersect Endpoints = {} /\ Nowhere \notin Sockets \union Endpoints

VARIABLES
  open,       \* the sockets of the RTSP connections that exist
  sessions,   \* fStreamStates of each client session
  subsession, \* the streams, fLastStreamToken and fDestinationsHashTable of each track
  noted       \* fTCPStreamingDatabase: for each socket a bag of sessions and tracks

vars == <<open, sessions, subsession, noted>>

NoStream == 0

Streams(t) == DOMAIN subsession[t].streams

Without(f, k) == Restrict(f, DOMAIN f \ {k})

With(f, k, v) == [j \in DOMAIN f \union {k} |-> IF j = k THEN v ELSE f[j]]

Empty == [k \in {} |-> NoStream]

-----------------------------------------------------------------------------
(* A stream: StreamState.  playing is fAreCurrentlyPlaying, running says that *)
(* its sink has a source, and exhausted that the source is at its end.  A     *)
(* stream that was reclaimed is hollow.                                       *)

NewStreamState ==
  [refs |-> 1, playing |-> FALSE, running |-> FALSE, exhausted |-> FALSE, hollow |-> FALSE,
   to |-> {}, reports |-> Empty]

(* What RTCP reports of session s at d are recognised by: address and port,  *)
(* or socket and channel; the sessions of a socket are taken to use channels *)
(* of their own.                                                             *)
Reporter(s, d) == IF d \in Sockets THEN <<d, s>> ELSE <<d>>

StartPlaying(str, s, d) ==
  IF str.hollow THEN str
  ELSE [str EXCEPT !.to = @ \union {<<s, d>>},
                   !.reports = With(@, Reporter(s, d), s),
                   !.playing = TRUE,
                   !.running = @ \/ ~str.playing]

Paused(str) == [str EXCEPT !.playing = FALSE, !.running = FALSE]

(* Mutant: the reports of the clients that left are still listened to. *)
EndPlayingOnly(str, leaving, destinations) ==
  [str EXCEPT !.to = {p \in @ : p[1] \notin leaving}]

(* The sessions that leave are no destinations any more. *)
EndPlaying(str, leaving, destinations) ==
  LET gone      == leaving \intersect DOMAIN destinations
      reporters == {Reporter(s, destinations[s]) : s \in gone}
  IN  [str EXCEPT !.to = {p \in @ : p[1] \notin gone},
                  !.reports = Restrict(@, DOMAIN @ \ reporters)]

Reclaimed(str) ==
  [str EXCEPT !.running = FALSE, !.exhausted = TRUE, !.hollow = TRUE, !.to = {}, !.reports = Empty]

-----------------------------------------------------------------------------
(* Operations of OnDemandServerMediaSubsession on its state m.               *)

UnusedStream(m) ==
  CHOOSE i \in 1..(Cardinality(DOMAIN m.streams) + 1) : i \notin DOMAIN m.streams

(* The token that getStreamParameters gives a client of track t. *)
TokenFor(m, t) == IF t \in Shared /\ m.last # NoStream THEN m.last ELSE UnusedStream(m)

GetStreamParameters(m, t, s, d) ==
  LET i == TokenFor(m, t)
      str == IF i \in DOMAIN m.streams
             THEN [m.streams[i] EXCEPT !.refs = @ + 1]
             ELSE NewStreamState
  IN  [streams      |-> With(m.streams, i, str),
       last         |-> i,
       destinations |-> With(m.destinations, s, d)]

StartStream(m, s, i) ==
  IF i = NoStream \/ s \notin DOMAIN m.destinations THEN m
  ELSE [m EXCEPT !.streams[i] = StartPlaying(@, s, m.destinations[s])]

SeekStream(m, t, i) ==
  IF t \in Shared \/ i = NoStream THEN m ELSE [m EXCEPT !.streams[i].exhausted = m.streams[i].hollow]

(* Mutant: a client may pause what others receive too. *)
PauseAnyway(m, t, i) == IF i = NoStream THEN m ELSE [m EXCEPT !.streams[i] = Paused(@)]

PauseStream(m, t, i) ==
  IF t \in Shared \/ i = NoStream THEN m ELSE [m EXCEPT !.streams[i] = Paused(@)]

(* References given back by some sessions at once: leaving gives each one's   *)
(* token.  A stream goes with its last reference.                            *)
Released(m, leaving) ==
  LET users(i) == {s \in DOMAIN leaving : leaving[s] = i}
      refs(i)  == m.streams[i].refs - Cardinality(users(i))
      kept     == {i \in DOMAIN m.streams : refs(i) > 0}
  IN  [streams      |-> [i \in kept |->
                           [EndPlaying(m.streams[i], users(i), m.destinations)
                              EXCEPT !.refs = refs(i)]],
       last         |-> m.last,
       destinations |-> Restrict(m.destinations, DOMAIN m.destinations \ DOMAIN leaving)]

(* Mutant: the last token is forgotten with any stream. *)
DeleteStreamAndLast(m, leaving) == [Released(m, leaving) EXCEPT !.last = NoStream]

DeleteStream(m, leaving) ==
  LET rest == Released(m, leaving)
  IN  [rest EXCEPT !.last = IF @ \in DOMAIN rest.streams THEN @ ELSE NoStream]

-----------------------------------------------------------------------------
(* The database of streams over TCP. *)

NoteTCPStreaming(db, c, s, t) == [db EXCEPT ![c] = @ (+) SetToBag({<<s, t>>})]

(* Mutant: the records stay. *)
UnnoteNothing(db, s, tracks, states) == db

(* The records of session s, for each of the tracks over the track's socket. *)
UnnoteTCPStreaming(db, s, tracks, states) ==
  [c \in Sockets |->
     db[c] (-) SetToBag({<<s, t>> : t \in {u \in tracks : states[u].tcpSocketNum = c}})]
-----------------------------------------------------------------------------
Init ==
  /\ open = {}
  /\ sessions = [s \in {} |-> Empty]
  /\ subsession = [t \in Tracks |-> [streams |-> Empty, last |-> NoStream, destinations |-> Empty]]
  /\ noted = [c \in Sockets |-> EmptyBag]

Accept(c) ==
  /\ c \notin open
  /\ open' = open \union {c}
  /\ UNCHANGED <<sessions, subsession, noted>>

NewStates ==
  [t \in Tracks |->
     [subsession |-> TRUE, streamToken |-> NoStream, tcpSocketNum |-> Nowhere, reply |-> Nowhere]]

States(s) == IF s \in DOMAIN sessions THEN sessions[s] ELSE NewStates

(* SETUP of track t, with the packets to go to d: the connection that the    *)
(* request came over, or an endpoint.  An unused session id is a new one.    *)
(* A second SETUP undoes the first, but the socket the first one wrote in    *)
(* the track's state stays there, and decides where the packets go, unless   *)
(* the second one asks for TCP too.                                          *)
Setup(s, t, d) ==
  LET state   == States(s)[t]
      again   == state.streamToken # NoStream
      undone  == IF again
                 THEN DeleteStream(PauseStream(subsession[t], t, state.streamToken),
                                   [x \in {s} |-> state.streamToken])
                 ELSE subsession[t]
      cleared == IF again THEN UnnoteTCPStreaming(noted, s, {t}, States(s)) ELSE noted
      socket  == IF d \in Sockets THEN d ELSE state.tcpSocketNum
      target  == IF socket = Nowhere THEN d ELSE socket
  IN  /\ d \in open \/ (d \in Endpoints /\ open # {})
      /\ state.subsession
      /\ noted' = IF d \in Sockets THEN NoteTCPStreaming(cleared, d, s, t) ELSE cleared
      /\ subsession' = [subsession EXCEPT ![t] = GetStreamParameters(undone, t, s, target)]
      /\ sessions' = With(sessions, s,
                          [States(s) EXCEPT ![t] =
                             [subsession   |-> TRUE,
                              streamToken  |-> TokenFor(undone, t),
                              tcpSocketNum |-> socket,
                              reply        |-> d]])
      /\ UNCHANGED open

(* The tracks a request is about: one of them, or all. *)
Selections == {{t} : t \in Tracks} \union {Tracks}

Usable(s, selected) == {t \in selected : sessions[s][t].subsession}

(* Only a PLAY of all the tracks seeks: to somewhere before the end. *)
Play(s, selected, seeks) ==
  LET sought(t, i) == IF seeks THEN SeekStream(subsession[t], t, i) ELSE subsession[t]
  IN  /\ s \in DOMAIN sessions
      /\ seeks => selected = Tracks
      /\ subsession' = [t \in Tracks |->
                           IF t \in Usable(s, selected)
                           THEN StartStream(sought(t, sessions[s][t].streamToken),
                                            s, sessions[s][t].streamToken)
                           ELSE subsession[t]]
      /\ UNCHANGED <<open, sessions, noted>>

Pause(s, selected) ==
  /\ s \in DOMAIN sessions
  /\ subsession' = [t \in Tracks |->
                       IF t \in Usable(s, selected)
                       THEN PauseStream(subsession[t], t, sessions[s][t].streamToken)
                       ELSE subsession[t]]
  /\ UNCHANGED <<open, sessions, noted>>

(* The states of a session without some of its tracks: with no subsession,   *)
(* nothing looks at the rest of a track's state again.                       *)
TornDown(states, tracks) ==
  [t \in Tracks |->
     IF t \in tracks THEN [NewStates[t] EXCEPT !.subsession = FALSE] ELSE states[t]]

Finished(states) == \A t \in Tracks : ~states[t].subsession

(* What unnoting and deleteStream do for some tracks of a session. *)
GiveBack(s, tracks) ==
  /\ noted' = UnnoteTCPStreaming(noted, s, tracks, sessions[s])
  /\ subsession' = [t \in Tracks |->
                       IF t \in tracks
                       THEN DeleteStream(subsession[t], [x \in {s} |-> sessions[s][t].streamToken])
                       ELSE subsession[t]]

(* A session with no track left is deleted. *)
Teardown(s, selected) ==
  /\ s \in DOMAIN sessions
  /\ GiveBack(s, Usable(s, selected))
  /\ LET states == TornDown(sessions[s], Usable(s, selected))
     IN  sessions' = IF Finished(states)
                     THEN Without(sessions, s)
                     ELSE [sessions EXCEPT ![s] = states]
  /\ UNCHANGED open

(* Mutant: the session goes and leaves its streams behind. *)
EndSessionOnly(s) ==
  /\ s \in DOMAIN sessions
  /\ sessions' = Without(sessions, s)
  /\ UNCHANGED <<open, subsession, noted>>

(* The destructor of a session, run by livenessTimeoutTask or by the owner   *)
(* of the server: reclaimStreamStates.                                       *)
EndSession(s) ==
  /\ s \in DOMAIN sessions
  /\ GiveBack(s, Usable(s, Tracks))
  /\ sessions' = Without(sessions, s)
  /\ UNCHANGED open

(* A connection is closed by its client or with the server: first            *)
(* stopTCPStreamingOnSocket, then the socket.                                *)
ConnectionCloses(c) ==
  LET known     == {r \in BagToSet(noted[c]) : r[1] \in DOMAIN sessions}
      ended(s)  == {t \in Tracks : <<s, t>> \in known /\ sessions[s][t].subsession}
      leaving(t) == {s \in DOMAIN sessions : t \in ended(s)}
      touched   == {r[1] : r \in known}
      after(s)  == TornDown(sessions[s], ended(s))
  IN  /\ c \in open
      /\ open' = open \ {c}
      /\ noted' = [noted EXCEPT ![c] = EmptyBag]
      /\ subsession' = [t \in Tracks |->
                           DeleteStream(subsession[t],
                                        [s \in leaving(t) |-> sessions[s][t].streamToken])]
      /\ sessions' = [s \in {x \in DOMAIN sessions : x \in touched => ~Finished(after(x))} |->
                         IF s \in touched THEN after(s) ELSE sessions[s]]

(* The source of a stream has no more data.  Unless its duration is known,   *)
(* all that the stream consists of is closed.                                *)
SourceEnds(t, i) ==
  /\ i \in Streams(t)
  /\ subsession[t].streams[i].running
  /\ subsession' =
       IF t \in WithDuration
       THEN [subsession EXCEPT ![t].streams[i].running = FALSE,
                               ![t].streams[i].exhausted = TRUE]
       ELSE [subsession EXCEPT ![t].streams[i] = Reclaimed(@),
                               ![t].last = IF @ = i THEN NoStream ELSE @]
  /\ UNCHANGED <<open, sessions, noted>>

Request(s) ==
  \/ \E t \in Tracks, d \in Sockets \union Endpoints : Setup(s, t, d)
  \/ \E selected \in Selections, seeks \in BOOLEAN : Play(s, selected, seeks)
  \/ \E selected \in Selections : Pause(s, selected)
  \/ \E selected \in Selections : Teardown(s, selected)

Next ==
  \/ \E c \in Sockets : Accept(c)
  \/ \E s \in Sessions : Request(s)
  \/ \E s \in Sessions : EndSession(s)
  \/ \E c \in Sockets : ConnectionCloses(c)
  \/ \E t \in Tracks : \E i \in Streams(t) : SourceEnds(t, i)

Spec == Init /\ [][Next]_vars

-----------------------------------------------------------------------------
Places == Sockets \union Endpoints

StreamOK(str) ==
  /\ str.refs \in Nat \ {0}
  /\ {str.playing, str.running, str.exhausted, str.hollow} \subseteq BOOLEAN
  /\ str.to \subseteq Sessions \X Places
  /\ DOMAIN str.reports \subseteq {Reporter(s, d) : s \in Sessions, d \in Places}
  /\ \A r \in DOMAIN str.reports : str.reports[r] \in Sessions

StateType ==
  [subsession : BOOLEAN, streamToken : Nat,
   tcpSocketNum : Sockets \union {Nowhere}, reply : Places \union {Nowhere}]

TypeOK ==
  /\ open \subseteq Sockets
  /\ DOMAIN sessions \subseteq Sessions
  /\ \A s \in DOMAIN sessions : sessions[s] \in [Tracks -> StateType]
  /\ DOMAIN subsession = Tracks
  /\ \A t \in Tracks :
       /\ Streams(t) \subseteq Nat \ {NoStream}
       /\ \A i \in Streams(t) : StreamOK(subsession[t].streams[i])
       /\ subsession[t].last \in Streams(t) \union {NoStream}
       /\ DOMAIN subsession[t].destinations \subseteq Sessions
       /\ \A s \in DOMAIN subsession[t].destinations : subsession[t].destinations[s] \in Places
  /\ DOMAIN noted = Sockets
  /\ \A c \in Sockets : IsABag(noted[c]) /\ BagToSet(noted[c]) \subseteq Sessions \X Tracks

(* The session holds a stream of the track, and which one. *)
Holds(s, t) ==
  s \in DOMAIN sessions /\ sessions[s][t].subsession /\ sessions[s][t].streamToken # NoStream

Holders(t, i) == {s \in Sessions : Holds(s, t) /\ sessions[s][t].streamToken = i}

(* The reference count of a stream is the number of sessions that hold its   *)
(* token, and no session holds the token of a stream that was deleted.       *)
TokensCounted ==
  \A t \in Tracks :
    /\ \A s \in Sessions : Holds(s, t) => sessions[s][t].streamToken \in Streams(t)
    /\ \A i \in Streams(t) : subsession[t].streams[i].refs = Cardinality(Holders(t, i))

(* Packets go only to sessions that hold the stream, and only to where the   *)
(* session's last SETUP of the track put them; and a RTCP report is never    *)
(* credited to a session that has been deleted or gave the track back.       *)
OnlySetUpDestinations ==
  \A t \in Tracks : \A i \in Streams(t) :
    LET stream == subsession[t].streams[i]
    IN  /\ \A p \in stream.to :
             /\ p[1] \in Holders(t, i)
             /\ p[1] \in DOMAIN subsession[t].destinations
             /\ subsession[t].destinations[p[1]] = p[2]
        /\ \A r \in DOMAIN stream.reports : stream.reports[r] \in Holders(t, i)

(* The database of streams over TCP notes, once each, the tracks whose       *)
(* clients were told that their packets come over the connection.            *)
NotesMatch ==
  \A c \in Sockets :
    noted[c] = SetToBag({r \in Sessions \X Tracks : Holds(r[1], r[2]) /\ sessions[r[1]][r[2]].reply = c})

(* A track that reuses its first source never has two sources at a time.     *)
OneSharedSource ==
  \A t \in Shared : Cardinality({i \in Streams(t) : ~subsession[t].streams[i].hollow}) <= 1

Receiving(s, t) ==
  /\ Holds(s, t)
  /\ LET str == subsession[t].streams[sessions[s][t].streamToken]
     IN  str.running /\ \E d \in Places : <<s, d>> \in str.to

NobodyElseStops ==
  \A s \in Sessions, t \in Tracks :
    Receiving(s, t) /\ ~Receiving(s, t)' =>
      \/ SourceEnds(t, sessions[s][t].streamToken)
      \/ EndSession(s)
      \/ \E selected \in Selections : t \in selected /\ Pause(s, selected)
      \/ \E selected \in Selections : t \in selected /\ Teardown(s, selected)
      \/ \E d \in Places : Setup(s, t, d)
      \/ ConnectionCloses(sessions[s][t].reply)

(* Packets stop coming to a client only by its own PAUSE, TEARDOWN or SETUP  *)
(* of the track, the end of its session, of its connection or of the source: *)
(* never by what another client does, and not by a PLAY.                     *)
Undisturbed == [][NobodyElseStops]_vars

(* RTSPServer.hh: the database maps TCP sockets to the sessions that stream  *)
(* over them.                                                                *)
StreamingSocketsNoted ==
  \A t \in Tracks : \A i \in Streams(t) :
    \A p \in subsession[t].streams[i].to :
      p[2] \in Sockets => BagIn(<<p[1], t>>, noted[p[2]])

(* OnDemandServerMediaSubsession.cpp: a stream of known duration that came   *)
(* to its end is kept for its client to play it again from elsewhere.  Then  *)
(* one that is to play, and is not at the end, feeds its sink.               *)
ReplayRestarts ==
  \A t \in WithDuration : \A i \in Streams(t) :
    LET str == subsession[t].streams[i]
    IN  str.playing /\ ~str.exhausted => str.running
=============================================================================
