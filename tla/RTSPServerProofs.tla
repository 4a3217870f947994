-------------------------- MODULE RTSPServerProofs --------------------------
(***************************************************************************)
(* Proofs that the client sessions and the streams of RTSPServer agree,    *)
(* for any number of sessions, tracks, connections and endpoints.          *)
(*                                                                         *)
(* The plan: Good(t, m, held) says that the state m of track t is in order *)
(* when held gives, for each session that has a stream of the track, its   *)
(* token.  Each operation of OnDemandServerMediaSubsession is shown to     *)
(* keep it, for any m and held.  What a request or a timeout does to the   *)
(* tokens in the sessions' states is found apart, and the two meet in one  *)
(* lemma per action.                                                       *)
(***************************************************************************)
EXTENDS RTSPServer, TLAPS, FiniteSetTheorems

(* The sessions that have stream i. *)
Users(held, i) == {s \in DOMAIN held : held[s] = i}

(* A stream counts its users; it sends only to where they were last set up,
   and each RTCP reporter that it knows is what one of them is recognised by. *)
GoodStream(str, users, destinations) ==
  /\ str = [refs |-> str.refs, playing |-> str.playing, running |-> str.running,
            exhausted |-> str.exhausted, hollow |-> str.hollow, to |-> str.to,
            reports |-> str.reports]
  /\ StreamOK(str)
  /\ str.refs = Cardinality(users)
  /\ \A p \in str.to : p[1] \in users \intersect DOMAIN destinations /\ destinations[p[1]] = p[2]
  /\ \A r \in DOMAIN str.reports :
       /\ str.reports[r] \in users \intersect DOMAIN destinations
       /\ r = Reporter(str.reports[r], destinations[str.reports[r]])

(* No session has a token of a stream that does not exist; only the last
   stream of a shared track can have a source, and a stream of another track
   has one user. *)
Good(t, m, held) ==
  /\ m = [streams |-> m.streams, last |-> m.last, destinations |-> m.destinations]
  /\ DOMAIN m.streams \subseteq Nat \ {NoStream} /\ IsFiniteSet(DOMAIN m.streams)
  /\ m.last \in DOMAIN m.streams \union {NoStream}
  /\ DOMAIN m.destinations \subseteq Sessions
  /\ \A s \in DOMAIN m.destinations : m.destinations[s] \in Places
  /\ DOMAIN held \subseteq Sessions /\ IsFiniteSet(DOMAIN held)
  /\ \A s \in DOMAIN held : held[s] \in DOMAIN m.streams
  /\ \A i \in DOMAIN m.streams : GoodStream(m.streams[i], Users(held, i), m.destinations)
  /\ t \in Shared => \A i \in DOMAIN m.streams : ~m.streams[i].hollow => i = m.last
  /\ t \notin Shared => \A r, s \in DOMAIN held : held[r] = held[s] => r = s

(* Session s gets packets from its stream i. *)
Feeds(m, s, i) == m.streams[i].running /\ \E d \in Places : <<s, d>> \in m.streams[i].to

-----------------------------------------------------------------------------
(* Operations on streams. *)

(* startStream() adds a destination and somebody to tell about reports. *)
LEMMA StartPlayingGood ==
  ASSUME NEW str, NEW users, NEW destinations, GoodStream(str, users, destinations),
         NEW s \in users \intersect DOMAIN destinations, s \in Sessions, destinations[s] \in Places
  PROVE  /\ GoodStream(StartPlaying(str, s, destinations[s]), users, destinations)
         /\ StartPlaying(str, s, destinations[s]).hollow = str.hollow
         /\ str.to \subseteq StartPlaying(str, s, destinations[s]).to
         /\ str.running => StartPlaying(str, s, destinations[s]).running
<1>1. CASE str.hollow
  BY <1>1 DEF StartPlaying
<1>2. CASE ~str.hollow
  <2>1. PICK d : d = destinations[s]
    OBVIOUS
  <2>2. PICK new : new = StartPlaying(str, s, d)
    OBVIOUS
  <2>3. /\ new.refs = str.refs /\ new.playing = TRUE /\ new.running = (str.running \/ ~str.playing)
        /\ new.exhausted = str.exhausted /\ new.hollow = str.hollow
        /\ new.to = str.to \union {<<s, d>>}
        /\ new.reports = With(str.reports, Reporter(s, d), s)
        /\ new = [refs |-> new.refs, playing |-> new.playing, running |-> new.running,
                  exhausted |-> new.exhausted, hollow |-> new.hollow, to |-> new.to,
                  reports |-> new.reports]
    BY <1>2, <2>2 DEF StartPlaying, GoodStream
  <2>4. /\ DOMAIN new.reports = DOMAIN str.reports \union {Reporter(s, d)}
        /\ \A r \in DOMAIN new.reports :
             new.reports[r] = IF r = Reporter(s, d) THEN s ELSE str.reports[r]
    BY <2>3 DEF With
  <2>5. StreamOK(new)
    <3>1. {new.playing, new.running, new.exhausted, new.hollow} \subseteq BOOLEAN
      <4>1. str.exhausted \in BOOLEAN /\ str.hollow \in BOOLEAN
        BY DEF GoodStream, StreamOK
      <4>2. (str.running \/ ~str.playing) \in BOOLEAN
        OBVIOUS
      <4> QED BY <2>3, <4>1, <4>2
    <3>2. new.to \subseteq Sessions \X Places
      BY <2>1, <2>3 DEF GoodStream, StreamOK
    <3>3. DOMAIN new.reports \subseteq {Reporter(x, e) : x \in Sessions, e \in Places}
      BY <2>1, <2>4 DEF GoodStream, StreamOK
    <3> QED BY <2>3, <2>4, <3>1, <3>2, <3>3 DEF GoodStream, StreamOK
  <2>6. \A p \in new.to : p[1] \in users \intersect DOMAIN destinations /\ destinations[p[1]] = p[2]
    BY <2>1, <2>3 DEF GoodStream
  <2>7. \A r \in DOMAIN new.reports :
          /\ new.reports[r] \in users \intersect DOMAIN destinations
          /\ r = Reporter(new.reports[r], destinations[new.reports[r]])
    BY <2>1, <2>4 DEF GoodStream
  <2>8. GoodStream(new, users, destinations)
    BY <2>3, <2>5, <2>6, <2>7 DEF GoodStream
  <2> QED BY <2>1, <2>2, <2>3, <2>8
<1> QED BY <1>1, <1>2

(* A flag that is written changes none of this. *)
LEMMA FlagsGood ==
  ASSUME NEW str, NEW users, NEW destinations, GoodStream(str, users, destinations),
         NEW new, new = [refs |-> str.refs, playing |-> new.playing, running |-> new.running,
                         exhausted |-> new.exhausted, hollow |-> str.hollow, to |-> str.to,
                         reports |-> str.reports],
         {new.playing, new.running, new.exhausted} \subseteq BOOLEAN
  PROVE  GoodStream(new, users, destinations)
<1>1. new.refs = str.refs /\ new.hollow = str.hollow /\ new.to = str.to /\ new.reports = str.reports
  OBVIOUS
<1>2. StreamOK(new)
  BY <1>1 DEF GoodStream, StreamOK
<1> QED BY <1>1, <1>2 DEF GoodStream

(* The destinations of some sessions are kept. *)
Kept(staying, destinations, kept) ==
  \A s \in staying \intersect DOMAIN destinations :
    s \in DOMAIN kept /\ kept[s] = destinations[s]

Ended(str, leaving, destinations, refs) ==
  [EndPlaying(str, leaving, destinations) EXCEPT !.refs = refs]

(* endPlaying() of the users that leave takes their destinations and their
   reporters away, and nobody else's. *)
LEMMA EndPlayingGood ==
  ASSUME NEW str, NEW users, NEW destinations, GoodStream(str, users, destinations),
         NEW leaving, NEW kept, Kept(users \ leaving, destinations, kept),
         Cardinality(users \ leaving) \in Nat \ {0}
  PROVE  LET new == Ended(str, leaving, destinations, Cardinality(users \ leaving))
         IN  /\ GoodStream(new, users \ leaving, kept)
             /\ new.hollow = str.hollow /\ new.running = str.running
             /\ \A p \in str.to : p[1] \in users \ leaving => p \in new.to
<1> PICK staying : staying = users \ leaving
  OBVIOUS
<1>0. PICK new : new = Ended(str, leaving, destinations, Cardinality(staying))
  OBVIOUS
<1> DEFINE gone == leaving \intersect DOMAIN destinations
           reporters == {Reporter(s, destinations[s]) : s \in gone}
<1>1. /\ new.refs = Cardinality(staying)
      /\ new.playing = str.playing /\ new.running = str.running
      /\ new.exhausted = str.exhausted /\ new.hollow = str.hollow
      /\ new.to = {p \in str.to : p[1] \notin gone}
      /\ new.reports = Restrict(str.reports, DOMAIN str.reports \ reporters)
      /\ new = [refs |-> new.refs, playing |-> new.playing, running |-> new.running,
                exhausted |-> new.exhausted, hollow |-> new.hollow, to |-> new.to,
                reports |-> new.reports]
  <2>1. PICK e : e = EndPlaying(str, leaving, destinations)
    OBVIOUS
  <2>2. /\ e.refs = str.refs
        /\ e.playing = str.playing /\ e.running = str.running
        /\ e.exhausted = str.exhausted /\ e.hollow = str.hollow
        /\ e.to = {p \in str.to : p[1] \notin gone}
        /\ e.reports = Restrict(str.reports, DOMAIN str.reports \ reporters)
        /\ e = [refs |-> e.refs, playing |-> e.playing, running |-> e.running,
                exhausted |-> e.exhausted, hollow |-> e.hollow, to |-> e.to,
                reports |-> e.reports]
    BY <2>1 DEF GoodStream, EndPlaying
  <2>3. new = [e EXCEPT !.refs = Cardinality(staying)]
    BY <1>0, <2>1 DEF Ended
  <2> HIDE DEF gone, reporters
  <2> QED BY <2>2, <2>3
<1>2. /\ DOMAIN new.reports = DOMAIN str.reports \ reporters
      /\ \A r \in DOMAIN new.reports : new.reports[r] = str.reports[r]
  BY <1>1 DEF Restrict
<1>3. StreamOK(new)
  <2>1. /\ new.refs \in Nat \ {0}
        /\ {new.playing, new.running, new.exhausted, new.hollow} \subseteq BOOLEAN
    <3> HIDE DEF gone, reporters
    <3> QED BY <1>1 DEF GoodStream, StreamOK
  <2>2. new.to \subseteq Sessions \X Places
    BY <1>1 DEF GoodStream, StreamOK
  <2> QED BY <1>2, <2>1, <2>2 DEF GoodStream, StreamOK
<1>4. ASSUME NEW p \in new.to
      PROVE  p[1] \in staying \intersect DOMAIN kept /\ kept[p[1]] = p[2]
  <2>1. p \in str.to /\ p[1] \in users \intersect DOMAIN destinations /\ destinations[p[1]] = p[2]
    BY <1>1 DEF GoodStream
  <2>2. p[1] \notin leaving
    BY <1>1, <2>1
  <2>3. p[1] \in staying \intersect DOMAIN destinations
    BY <2>1, <2>2
  <2> QED BY <2>1, <2>3 DEF Kept
<1>5. ASSUME NEW r \in DOMAIN new.reports
      PROVE  /\ new.reports[r] \in staying \intersect DOMAIN kept
             /\ r = Reporter(new.reports[r], kept[new.reports[r]])
  <2>1. PICK s : s = str.reports[r]
    OBVIOUS
  <2>2. /\ r \in DOMAIN str.reports /\ r \notin reporters /\ new.reports[r] = s
        /\ s \in users \intersect DOMAIN destinations /\ r = Reporter(s, destinations[s])
    BY <1>2, <2>1 DEF GoodStream
  <2>3. s \notin leaving
    BY <2>2
  <2> QED BY <2>2, <2>3 DEF Kept
<1>6. GoodStream(new, staying, kept)
  BY <1>1, <1>3, <1>4, <1>5 DEF GoodStream
<1> QED BY <1>0, <1>1, <1>6

(* A new stream has one user and no destination yet. *)
LEMMA NewStreamGood ==
  ASSUME NEW s, NEW destinations
  PROVE  GoodStream(NewStreamState, {s}, destinations)
<1>1. Cardinality({s}) = 1
  BY FS_Singleton
<1>2. DOMAIN Empty = {}
  BY DEF Empty
<1>3. StreamOK(NewStreamState)
  BY <1>2 DEF StreamOK, NewStreamState
<1> QED BY <1>1, <1>2, <1>3 DEF GoodStream, NewStreamState

(* reclaim() leaves nothing that could be sent to anybody. *)
LEMMA ReclaimedGood ==
  ASSUME NEW str, NEW users, NEW destinations, GoodStream(str, users, destinations)
  PROVE  GoodStream(Reclaimed(str), users, destinations) /\ Reclaimed(str).hollow
<1>1. PICK new : new = Reclaimed(str)
  OBVIOUS
<1>2. /\ new.refs = str.refs /\ new.playing = str.playing /\ new.running = FALSE
      /\ new.exhausted = TRUE /\ new.hollow = TRUE /\ new.to = {} /\ new.reports = Empty
      /\ new = [refs |-> new.refs, playing |-> new.playing, running |-> new.running,
                exhausted |-> new.exhausted, hollow |-> new.hollow, to |-> new.to,
                reports |-> new.reports]
  BY <1>1 DEF Reclaimed, GoodStream
<1>3. DOMAIN new.reports = {}
  BY <1>2 DEF Empty
<1>4. StreamOK(new)
  <2>1. str.playing \in BOOLEAN
    BY DEF GoodStream, StreamOK
  <2>2. {new.playing, new.running, new.exhausted, new.hollow} \subseteq BOOLEAN
    BY <1>2, <2>1
  <2> QED BY <1>2, <1>3, <2>2 DEF GoodStream, StreamOK
<1> QED BY <1>1, <1>2, <1>3, <1>4 DEF GoodStream

-----------------------------------------------------------------------------
(* Operations on the state of a track. *)

(* The facts about m.streams and the users that do not depend on what is in
   the streams. *)
LEMMA HeldFinite ==
  ASSUME NEW t, NEW m, NEW held, Good(t, m, held), NEW i
  PROVE  IsFiniteSet(Users(held, i)) /\ Users(held, i) \subseteq Sessions
<1>1. Users(held, i) \subseteq DOMAIN held
  BY DEF Users
<1> QED BY <1>1, FS_Subset DEF Good

(* An operation that replaces one stream by another that is in order keeps the
   track in order. *)
LEMMA ReplaceGood ==
  ASSUME NEW t, NEW m, NEW held, Good(t, m, held), NEW i \in DOMAIN m.streams, NEW str,
         GoodStream(str, Users(held, i), m.destinations), str.hollow = m.streams[i].hollow,
         NEW n, n = [m EXCEPT !.streams[i] = str]
  PROVE  /\ Good(t, n, held)
         /\ n.last = m.last /\ n.destinations = m.destinations
         /\ DOMAIN n.streams = DOMAIN m.streams
         /\ n.streams[i] = str
         /\ \A j \in DOMAIN m.streams : j # i => n.streams[j] = m.streams[j]
<1>1. /\ n.last = m.last /\ n.destinations = m.destinations
      /\ n.streams = [m.streams EXCEPT ![i] = str]
      /\ n = [streams |-> n.streams, last |-> n.last, destinations |-> n.destinations]
  BY DEF Good
<1>2. /\ DOMAIN n.streams = DOMAIN m.streams
      /\ n.streams[i] = str
      /\ \A j \in DOMAIN m.streams : j # i => n.streams[j] = m.streams[j]
  BY <1>1
<1>3. \A j \in DOMAIN n.streams : GoodStream(n.streams[j], Users(held, j), n.destinations)
  BY <1>1, <1>2 DEF Good
<1>4. \A j \in DOMAIN n.streams : n.streams[j].hollow = m.streams[j].hollow
  BY <1>2
<1>5. Good(t, n, held)
  BY <1>1, <1>2, <1>3, <1>4 DEF Good
<1> QED BY <1>1, <1>2, <1>5

(* PAUSE by the session that has stream i.  Of a shared track it is ignored,
   of another track nobody else has the stream. *)
LEMMA PauseGood ==
  ASSUME NEW t, NEW m, NEW held, Good(t, m, held), NEW i \in DOMAIN m.streams \union {NoStream}
  PROVE  /\ Good(t, PauseStream(m, t, i), held)
         /\ DOMAIN PauseStream(m, t, i).streams = DOMAIN m.streams
         /\ \A s, j : j \in DOMAIN m.streams /\ (j # i \/ t \in Shared) /\ Feeds(m, s, j)
                        => Feeds(PauseStream(m, t, i), s, j)
<1>1. CASE t \in Shared \/ i = NoStream
  BY <1>1 DEF PauseStream, Good
<1>2. CASE ~(t \in Shared \/ i = NoStream)
  <2>1. PICK str : str = Paused(m.streams[i])
    OBVIOUS
  <2>2. PICK n : n = PauseStream(m, t, i)
    OBVIOUS
  <2>3. i \in DOMAIN m.streams /\ n = [m EXCEPT !.streams[i] = str]
    BY <1>2, <2>1, <2>2 DEF PauseStream
  <2>4. GoodStream(m.streams[i], Users(held, i), m.destinations)
    BY <2>3 DEF Good
  <2>5. GoodStream(str, Users(held, i), m.destinations) /\ str.hollow = m.streams[i].hollow
    <3>1. PICK old : old = m.streams[i]
      OBVIOUS
    <3>2. /\ str = [refs |-> old.refs, playing |-> str.playing, running |-> str.running,
                    exhausted |-> str.exhausted, hollow |-> old.hollow, to |-> old.to,
                    reports |-> old.reports]
          /\ str.playing = FALSE /\ str.running = FALSE /\ str.exhausted = old.exhausted
      BY <2>1, <2>4, <3>1 DEF Paused, GoodStream
    <3>3. old.exhausted \in BOOLEAN
      BY <2>4, <3>1 DEF GoodStream, StreamOK
    <3>4. {str.playing, str.running, str.exhausted} \subseteq BOOLEAN
      BY <3>2, <3>3
    <3>5. str.hollow = old.hollow
      BY <3>2
    <3> QED BY <2>4, <3>1, <3>2, <3>4, <3>5, FlagsGood
  <2>6. /\ Good(t, n, held) /\ DOMAIN n.streams = DOMAIN m.streams
        /\ \A j \in DOMAIN m.streams : j # i => n.streams[j] = m.streams[j]
    BY <2>3, <2>5, ReplaceGood
  <2> QED BY <1>2, <2>2, <2>6 DEF Feeds
<1> QED BY <1>1, <1>2

(* A seek of a track that is not shared, if it has a stream. *)
LEMMA SeekGood ==
  ASSUME NEW t, NEW m, NEW held, Good(t, m, held), NEW i \in DOMAIN m.streams \union {NoStream}
  PROVE  /\ Good(t, SeekStream(m, t, i), held)
         /\ DOMAIN SeekStream(m, t, i).streams = DOMAIN m.streams
         /\ SeekStream(m, t, i).destinations = m.destinations
         /\ \A s, j : j \in DOMAIN m.streams /\ Feeds(m, s, j) => Feeds(SeekStream(m, t, i), s, j)
<1>1. CASE t \in Shared \/ i = NoStream
  BY <1>1 DEF SeekStream
<1>2. CASE ~(t \in Shared \/ i = NoStream)
  <2>1. PICK old : old = m.streams[i]
    OBVIOUS
  <2>2. PICK str : str = [old EXCEPT !.exhausted = old.hollow]
    OBVIOUS
  <2>3. PICK n : n = SeekStream(m, t, i)
    OBVIOUS
  <2>4. i \in DOMAIN m.streams /\ GoodStream(old, Users(held, i), m.destinations)
    BY <1>2, <2>1 DEF Good
  <2>5. n = [m EXCEPT !.streams[i] = str]
    BY <1>2, <2>1, <2>2, <2>3, <2>4 DEF SeekStream, Good
  <2>6. /\ GoodStream(str, Users(held, i), m.destinations)
        /\ str.hollow = old.hollow /\ str.to = old.to /\ str.running = old.running
    <3>1. /\ old.playing \in BOOLEAN /\ old.running \in BOOLEAN /\ old.hollow \in BOOLEAN
      BY <2>4 DEF GoodStream, StreamOK
    <3>2. /\ str = [refs |-> old.refs, playing |-> str.playing, running |-> str.running,
                    exhausted |-> str.exhausted, hollow |-> old.hollow, to |-> old.to,
                    reports |-> old.reports]
          /\ str.playing = old.playing /\ str.running = old.running /\ str.exhausted = old.hollow
      BY <2>2, <2>4 DEF GoodStream
    <3>3. {str.playing, str.running, str.exhausted} \subseteq BOOLEAN
      BY <3>1, <3>2
    <3>4. str.hollow = old.hollow /\ str.to = old.to
      BY <3>2
    <3> QED BY <2>4, <3>2, <3>3, <3>4, FlagsGood
  <2>7. /\ Good(t, n, held) /\ DOMAIN n.streams = DOMAIN m.streams
        /\ n.destinations = m.destinations /\ n.streams[i] = str
        /\ \A j \in DOMAIN m.streams : j # i => n.streams[j] = m.streams[j]
    BY <2>1, <2>4, <2>5, <2>6, ReplaceGood
  <2> QED BY <2>1, <2>3, <2>6, <2>7 DEF Feeds
<1> QED BY <1>1, <1>2

(* PLAY by session s, which has stream i if i is one. *)
LEMMA StartGood ==
  ASSUME NEW t, NEW m, NEW held, Good(t, m, held), NEW s, NEW i,
         i # NoStream => s \in DOMAIN held /\ held[s] = i
  PROVE  /\ Good(t, StartStream(m, s, i), held)
         /\ DOMAIN StartStream(m, s, i).streams = DOMAIN m.streams
         /\ \A r, j : j \in DOMAIN m.streams /\ Feeds(m, r, j) => Feeds(StartStream(m, s, i), r, j)
<1>1. CASE i = NoStream \/ s \notin DOMAIN m.destinations
  BY <1>1 DEF StartStream
<1>2. CASE ~(i = NoStream \/ s \notin DOMAIN m.destinations)
  <2>1. PICK old : old = m.streams[i]
    OBVIOUS
  <2>2. PICK str : str = StartPlaying(old, s, m.destinations[s])
    OBVIOUS
  <2>3. PICK n : n = StartStream(m, s, i)
    OBVIOUS
  <2>4. /\ i \in DOMAIN m.streams /\ GoodStream(old, Users(held, i), m.destinations)
        /\ s \in Users(held, i) \intersect DOMAIN m.destinations
        /\ s \in Sessions /\ m.destinations[s] \in Places
    BY <1>2, <2>1 DEF Good, Users
  <2>5. n = [m EXCEPT !.streams[i] = str]
    BY <1>2, <2>1, <2>2, <2>3, <2>4 DEF StartStream, Good
  <2>6. /\ GoodStream(str, Users(held, i), m.destinations)
        /\ str.hollow = old.hollow /\ old.to \subseteq str.to /\ (old.running => str.running)
    BY <2>2, <2>4, StartPlayingGood
  <2>7. /\ Good(t, n, held) /\ DOMAIN n.streams = DOMAIN m.streams /\ n.streams[i] = str
        /\ \A j \in DOMAIN m.streams : j # i => n.streams[j] = m.streams[j]
    BY <2>1, <2>4, <2>5, <2>6, ReplaceGood
  <2> QED BY <2>1, <2>3, <2>6, <2>7 DEF Feeds
<1> QED BY <1>1, <1>2

(* There is always a token that no stream has. *)
LEMMA UnusedStreamType ==
  ASSUME NEW m, DOMAIN m.streams \subseteq Nat \ {NoStream}, IsFiniteSet(DOMAIN m.streams)
  PROVE  UnusedStream(m) \in Nat \ {NoStream} /\ UnusedStream(m) \notin DOMAIN m.streams
<1>1. PICK n : n = Cardinality(DOMAIN m.streams)
  OBVIOUS
<1>2. n \in Nat
  BY <1>1, FS_CardinalityType
<1>3. \E i \in 1..n+1 : i \notin DOMAIN m.streams
  <2>1. SUFFICES ASSUME 1..n+1 \subseteq DOMAIN m.streams PROVE FALSE
    OBVIOUS
  <2>2. Cardinality(1..n+1) = n + 1
    BY <1>2, FS_Interval
  <2>3. Cardinality(1..n+1) <= n
    BY <1>1, <2>1, FS_Subset
  <2> QED BY <1>2, <2>2, <2>3
<1>4. UnusedStream(m) \in 1..n+1 /\ UnusedStream(m) \notin DOMAIN m.streams
  BY <1>1, <1>3 DEF UnusedStream
<1> QED BY <1>2, <1>4 DEF NoStream

(* More users, and destinations that differ for others only. *)
LEMMA MoreUsersGood ==
  ASSUME NEW str, NEW users, NEW destinations, GoodStream(str, users, destinations),
         NEW more, users \subseteq more, Cardinality(more) \in Nat \ {0},
         NEW others, \A s \in users \intersect DOMAIN destinations :
                       s \in DOMAIN others /\ others[s] = destinations[s],
         NEW new, new = [str EXCEPT !.refs = Cardinality(more)]
  PROVE  /\ GoodStream(new, more, others)
         /\ new.to = str.to /\ new.running = str.running /\ new.hollow = str.hollow
<1>1. /\ new.refs = Cardinality(more)
      /\ new.playing = str.playing /\ new.running = str.running
      /\ new.exhausted = str.exhausted /\ new.hollow = str.hollow
      /\ new.to = str.to /\ new.reports = str.reports
      /\ new = [refs |-> new.refs, playing |-> new.playing, running |-> new.running,
                exhausted |-> new.exhausted, hollow |-> new.hollow, to |-> new.to,
                reports |-> new.reports]
  BY DEF GoodStream
<1>2. StreamOK(new)
  BY <1>1 DEF GoodStream, StreamOK
<1> QED BY <1>1, <1>2 DEF GoodStream

(* getStreamParameters() for a session that has no stream of the track. *)
LEMMA GiveGood ==
  ASSUME NEW t, NEW m, NEW held, Good(t, m, held), NEW s \in Sessions, s \notin DOMAIN held,
         NEW d \in Places
  PROVE  /\ Good(t, GetStreamParameters(m, t, s, d), With(held, s, TokenFor(m, t)))
         /\ \A r, j : j \in DOMAIN m.streams /\ Feeds(m, r, j)
                        => Feeds(GetStreamParameters(m, t, s, d), r, j)
         /\ TokenFor(m, t) \in Nat \ {NoStream}
<1>1. PICK i : i = TokenFor(m, t)
  OBVIOUS
<1>2. PICK n : n = GetStreamParameters(m, t, s, d)
  OBVIOUS
<1>3. PICK with : with = With(held, s, i)
  OBVIOUS
<1>4. PICK dest : dest = With(m.destinations, s, d)
  OBVIOUS
<1>5. PICK str : str = IF i \in DOMAIN m.streams
                       THEN [m.streams[i] EXCEPT !.refs = @ + 1] ELSE NewStreamState
  OBVIOUS
<1>6. /\ n = [streams |-> n.streams, last |-> n.last, destinations |-> n.destinations]
      /\ n.streams = With(m.streams, i, str) /\ n.last = i /\ n.destinations = dest
  BY <1>1, <1>2, <1>4, <1>5 DEF GetStreamParameters
<1>7. /\ DOMAIN m.streams \subseteq Nat \ {NoStream} /\ IsFiniteSet(DOMAIN m.streams)
      /\ m.last \in DOMAIN m.streams \union {NoStream}
      /\ DOMAIN m.destinations \subseteq Sessions
      /\ \A r \in DOMAIN m.destinations : m.destinations[r] \in Places
      /\ DOMAIN held \subseteq Sessions /\ IsFiniteSet(DOMAIN held)
      /\ \A r \in DOMAIN held : held[r] \in DOMAIN m.streams
      /\ \A j \in DOMAIN m.streams : GoodStream(m.streams[j], Users(held, j), m.destinations)
      /\ t \in Shared => \A j \in DOMAIN m.streams : ~m.streams[j].hollow => j = m.last
      /\ t \notin Shared => \A r, q \in DOMAIN held : held[r] = held[q] => r = q
  BY DEF Good
<1>8. /\ i \in Nat \ {NoStream}
      /\ i \in DOMAIN m.streams => t \in Shared /\ i = m.last
      /\ i \notin DOMAIN m.streams => (t \in Shared => m.last = NoStream)
  BY <1>1, <1>7, UnusedStreamType DEF TokenFor
<1>9. /\ DOMAIN n.streams = DOMAIN m.streams \union {i} /\ n.streams[i] = str
      /\ \A j \in DOMAIN m.streams : j # i => n.streams[j] = m.streams[j]
  BY <1>6 DEF With
<1>10. /\ DOMAIN with = DOMAIN held \union {s} /\ with[s] = i
       /\ \A r \in DOMAIN held : with[r] = held[r]
       /\ DOMAIN dest = DOMAIN m.destinations \union {s} /\ dest[s] = d
       /\ \A r \in DOMAIN m.destinations : r # s => dest[r] = m.destinations[r]
  BY <1>3, <1>4 DEF With
<1>11. Users(with, i) = Users(held, i) \union {s} /\ \A j : j # i => Users(with, j) = Users(held, j)
  BY <1>10 DEF Users
<1>12. \A j : s \notin Users(held, j)
  BY DEF Users
<1>13. /\ GoodStream(str, Users(with, i), dest)
       /\ i \in DOMAIN m.streams => /\ str.hollow = m.streams[i].hollow
                                    /\ str.to = m.streams[i].to
                                    /\ str.running = m.streams[i].running
  <2>1. CASE i \in DOMAIN m.streams
    <3>1. PICK old : old = m.streams[i]
      OBVIOUS
    <3>2. GoodStream(old, Users(held, i), m.destinations) /\ old.refs = Cardinality(Users(held, i))
      BY <1>7, <2>1, <3>1 DEF GoodStream
    <3>3. IsFiniteSet(Users(held, i))
      BY HeldFinite
    <3>4. /\ Cardinality(Users(with, i)) = Cardinality(Users(held, i)) + 1
          /\ Cardinality(Users(held, i)) \in Nat
      BY <1>11, <1>12, <3>3, FS_AddElement, FS_CardinalityType
    <3>5. str = [old EXCEPT !.refs = Cardinality(Users(with, i))]
      BY <1>5, <2>1, <3>1, <3>2, <3>4
    <3>6. \A r \in Users(held, i) \intersect DOMAIN m.destinations :
            r \in DOMAIN dest /\ dest[r] = m.destinations[r]
      BY <1>10, <1>12
    <3>7. Users(held, i) \subseteq Users(with, i) /\ Cardinality(Users(with, i)) \in Nat \ {0}
      BY <1>11, <3>4
    <3> QED BY <3>1, <3>2, <3>5, <3>6, <3>7, MoreUsersGood
  <2>2. CASE i \notin DOMAIN m.streams
    <3>1. Users(held, i) = {}
      BY <1>7, <2>2 DEF Users
    <3>2. Users(with, i) = {s}
      BY <1>11, <3>1
    <3> QED BY <1>5, <2>2, <3>2, NewStreamGood
  <2> QED BY <2>1, <2>2
<1>14. ASSUME NEW j \in DOMAIN n.streams PROVE GoodStream(n.streams[j], Users(with, j), dest)
  <2>1. CASE j = i
    BY <1>9, <1>13, <2>1
  <2>2. CASE j # i
    <3>1. PICK old : old = m.streams[j]
      OBVIOUS
    <3>2. j \in DOMAIN m.streams /\ n.streams[j] = old /\ Users(with, j) = Users(held, j)
      BY <1>9, <1>11, <2>2, <3>1
    <3>3. GoodStream(old, Users(held, j), m.destinations)
      BY <1>7, <3>1, <3>2
    <3>4. old = [old EXCEPT !.refs = Cardinality(Users(held, j))]
          /\ Cardinality(Users(held, j)) \in Nat \ {0}
      BY <3>3 DEF GoodStream, StreamOK
    <3>5. \A r \in Users(held, j) \intersect DOMAIN m.destinations :
            r \in DOMAIN dest /\ dest[r] = m.destinations[r]
      BY <1>10, <1>12
    <3>6. GoodStream(old, Users(held, j), dest)
      BY <3>3, <3>4, <3>5, MoreUsersGood
    <3> QED BY <3>2, <3>6
  <2> QED BY <2>1, <2>2
<1>15. t \in Shared => \A j \in DOMAIN n.streams : ~n.streams[j].hollow => j = n.last
  BY <1>6, <1>7, <1>8, <1>9
<1>16. t \notin Shared => \A r, q \in DOMAIN with : with[r] = with[q] => r = q
  BY <1>7, <1>8, <1>10
<1>17. /\ DOMAIN n.streams \subseteq Nat \ {NoStream} /\ IsFiniteSet(DOMAIN n.streams)
       /\ DOMAIN with \subseteq Sessions /\ IsFiniteSet(DOMAIN with)
       /\ \A r \in DOMAIN with : with[r] \in DOMAIN n.streams
       /\ n.last \in DOMAIN n.streams
  <2>1. IsFiniteSet(DOMAIN n.streams) /\ IsFiniteSet(DOMAIN with)
    BY <1>7, <1>9, <1>10, FS_AddElement
  <2> QED BY <1>6, <1>7, <1>8, <1>9, <1>10, <2>1
<1>18. DOMAIN dest \subseteq Sessions /\ \A r \in DOMAIN dest : dest[r] \in Places
  BY <1>7, <1>10
<1>19. Good(t, n, with)
  BY <1>6, <1>14, <1>15, <1>16, <1>17, <1>18 DEF Good
<1>20. ASSUME NEW r, NEW j \in DOMAIN m.streams, Feeds(m, r, j) PROVE Feeds(n, r, j)
  BY <1>9, <1>13, <1>20 DEF Feeds
<1> QED BY <1>1, <1>2, <1>3, <1>8, <1>19, <1>20

(* The sessions of leaving give back what they have of the track: their stream,
   if they have one. *)
Leaves(leaving, held) ==
  \A s \in DOMAIN leaving : leaving[s] = IF s \in DOMAIN held THEN held[s] ELSE NoStream

Staying(held, leaving) == Restrict(held, DOMAIN held \ DOMAIN leaving)

(* deleteStream() of some sessions at once leaves the streams of the others as
   they were. *)
LEMMA ReleasedGood ==
  ASSUME NEW t, NEW m, NEW held, Good(t, m, held), NEW leaving, Leaves(leaving, held)
  PROVE  LET n == Released(m, leaving)
         IN  /\ Good(t, [n EXCEPT !.last = IF @ \in DOMAIN n.streams THEN @ ELSE NoStream],
                     Staying(held, leaving))
             /\ n = [streams |-> n.streams, last |-> n.last, destinations |-> n.destinations]
             /\ \A r \in DOMAIN held \ DOMAIN leaving :
                  held[r] \in DOMAIN n.streams /\ (Feeds(m, r, held[r]) => Feeds(n, r, held[r]))
<1>1. PICK n : n = Released(m, leaving)
  OBVIOUS
<1>2. PICK stay : stay = Staying(held, leaving)
  OBVIOUS
<1>3. PICK users : users = [i \in Nat |-> {s \in DOMAIN leaving : leaving[s] = i}]
  OBVIOUS
<1>4. PICK refs : refs = [i \in DOMAIN m.streams |-> m.streams[i].refs - Cardinality(users[i])]
  OBVIOUS
<1>5. PICK dest : dest = Restrict(m.destinations, DOMAIN m.destinations \ DOMAIN leaving)
  OBVIOUS
<1>6. /\ m = [streams |-> m.streams, last |-> m.last, destinations |-> m.destinations]
      /\ DOMAIN m.streams \subseteq Nat \ {NoStream} /\ IsFiniteSet(DOMAIN m.streams)
      /\ m.last \in DOMAIN m.streams \union {NoStream}
      /\ DOMAIN m.destinations \subseteq Sessions
      /\ \A r \in DOMAIN m.destinations : m.destinations[r] \in Places
      /\ DOMAIN held \subseteq Sessions /\ IsFiniteSet(DOMAIN held)
      /\ \A r \in DOMAIN held : held[r] \in DOMAIN m.streams
      /\ \A j \in DOMAIN m.streams : GoodStream(m.streams[j], Users(held, j), m.destinations)
      /\ t \in Shared => \A j \in DOMAIN m.streams : ~m.streams[j].hollow => j = m.last
      /\ t \notin Shared => \A r, q \in DOMAIN held : held[r] = held[q] => r = q
  BY DEF Good
<1>7. /\ n = [streams |-> n.streams, last |-> n.last, destinations |-> n.destinations]
      /\ n.last = m.last /\ n.destinations = dest
      /\ DOMAIN n.streams = {i \in DOMAIN m.streams : refs[i] > 0}
      /\ \A i \in DOMAIN n.streams :
           n.streams[i] = Ended(m.streams[i], users[i], m.destinations, refs[i])
  <2>1. \A i \in DOMAIN m.streams :
          /\ users[i] = {s \in DOMAIN leaving : leaving[s] = i}
          /\ refs[i] = m.streams[i].refs - Cardinality({s \in DOMAIN leaving : leaving[s] = i})
    BY <1>3, <1>4, <1>6
  <2> QED BY <1>1, <1>5, <2>1 DEF Released, Ended
<1>8. /\ DOMAIN stay = DOMAIN held \ DOMAIN leaving
      /\ \A r \in DOMAIN stay : stay[r] = held[r]
      /\ DOMAIN dest = DOMAIN m.destinations \ DOMAIN leaving
      /\ \A r \in DOMAIN dest : dest[r] = m.destinations[r]
  BY <1>2, <1>5 DEF Staying, Restrict
<1>9. ASSUME NEW i \in DOMAIN m.streams
      PROVE  /\ users[i] \subseteq Users(held, i)
             /\ Users(held, i) \ users[i] = Users(stay, i)
             /\ IsFiniteSet(Users(stay, i)) /\ Cardinality(Users(stay, i)) \in Nat
             /\ refs[i] = Cardinality(Users(stay, i))
  <2>1. users[i] = {s \in DOMAIN leaving : leaving[s] = i} /\ i # NoStream
    BY <1>3, <1>6
  <2>2. users[i] \subseteq Users(held, i)
    BY <2>1 DEF Leaves, Users
  <2>3. Users(held, i) \ users[i] = Users(stay, i)
    BY <1>8, <2>1 DEF Leaves, Users
  <2>4. IsFiniteSet(Users(held, i)) /\ IsFiniteSet(users[i]) /\ IsFiniteSet(Users(stay, i))
    BY <2>2, <2>3, HeldFinite, FS_Subset
  <2>5. /\ Cardinality(users[i]) \in Nat /\ Cardinality(Users(stay, i)) \in Nat
        /\ Cardinality(Users(held, i)) \in Nat
    BY <2>4, FS_CardinalityType
  <2>6. Cardinality(Users(held, i)) = Cardinality(users[i]) + Cardinality(Users(stay, i))
    <3>1. users[i] \intersect Users(stay, i) = {} /\ Users(held, i) = users[i] \union Users(stay, i)
      BY <2>2, <2>3
    <3>2. Cardinality(users[i] \union Users(stay, i))
            = Cardinality(users[i]) + Cardinality(Users(stay, i))
              - Cardinality(users[i] \intersect Users(stay, i))
      BY <2>4, FS_Union
    <3>3. Cardinality(users[i] \intersect Users(stay, i)) = 0
      BY <3>1, FS_EmptySet
    <3>4. Cardinality(Users(held, i)) = Cardinality(users[i] \union Users(stay, i))
      BY <3>1
    <3>5. PICK a, b : a = Cardinality(users[i]) /\ b = Cardinality(Users(stay, i))
      OBVIOUS
    <3>6. Cardinality(Users(held, i)) = a + b - 0
      BY ONLY <3>2, <3>3, <3>4, <3>5
    <3>7. a \in Nat /\ b \in Nat
      BY <2>5, <3>5
    <3> QED BY ONLY <3>5, <3>6, <3>7
  <2>7. refs[i] = Cardinality(Users(held, i)) - Cardinality(users[i])
    BY <1>4, <1>6 DEF GoodStream
  <2> QED BY <2>2, <2>3, <2>4, <2>5, <2>6, <2>7
<1>10. ASSUME NEW i \in DOMAIN n.streams
       PROVE  /\ GoodStream(n.streams[i], Users(stay, i), dest)
              /\ n.streams[i].hollow = m.streams[i].hollow
              /\ n.streams[i].running = m.streams[i].running
              /\ \A p \in m.streams[i].to : p[1] \in Users(stay, i) => p \in n.streams[i].to
  <2>1. PICK old : old = m.streams[i]
    OBVIOUS
  <2>2. i \in DOMAIN m.streams /\ refs[i] > 0
    BY <1>7
  <2>3. GoodStream(old, Users(held, i), m.destinations)
    BY <1>6, <2>1, <2>2
  <2>4. /\ Users(held, i) \ users[i] = Users(stay, i)
        /\ refs[i] = Cardinality(Users(held, i) \ users[i])
        /\ Cardinality(Users(held, i) \ users[i]) \in Nat \ {0}
    BY <1>9, <2>2
  <2>5. \A s \in (Users(held, i) \ users[i]) \intersect DOMAIN m.destinations :
          s \in DOMAIN dest /\ dest[s] = m.destinations[s]
    BY <1>8, <2>4 DEF Users
  <2>6. /\ GoodStream(n.streams[i], Users(held, i) \ users[i], dest)
        /\ n.streams[i].hollow = old.hollow /\ n.streams[i].running = old.running
        /\ \A p \in old.to : p[1] \in Users(held, i) \ users[i] => p \in n.streams[i].to
    <3>1. PICK gone, all, before :
            gone = users[i] /\ all = Users(held, i) /\ before = m.destinations
      OBVIOUS
    <3>2. /\ GoodStream(old, all, before)
          /\ Kept(all \ gone, before, dest) /\ Cardinality(all \ gone) \in Nat \ {0}
      BY <2>3, <2>4, <2>5, <3>1 DEF Kept
    <3>3. n.streams[i] = Ended(old, gone, before, Cardinality(all \ gone))
      BY <1>7, <2>1, <2>4, <3>1
    <3>4. LET new == Ended(old, gone, before, Cardinality(all \ gone))
          IN  /\ GoodStream(new, all \ gone, dest)
              /\ new.hollow = old.hollow /\ new.running = old.running
              /\ \A p \in old.to : p[1] \in all \ gone => p \in new.to
      BY ONLY <3>2, EndPlayingGood
    <3> QED BY <3>1, <3>3, <3>4
  <2> QED BY <2>1, <2>4, <2>6
<1>11. ASSUME NEW r \in DOMAIN stay
       PROVE  stay[r] \in DOMAIN n.streams /\ r \in Users(stay, stay[r])
  <2>1. stay[r] \in DOMAIN m.streams
    BY <1>6, <1>8
  <2>2. r \in Users(stay, stay[r])
    BY DEF Users
  <2>3. Cardinality(Users(stay, stay[r])) # 0
    BY <1>9, <2>1, <2>2, FS_EmptySet
  <2> QED BY <1>7, <1>9, <2>1, <2>2, <2>3
<1>12. PICK k : k = [n EXCEPT !.last = IF @ \in DOMAIN n.streams THEN @ ELSE NoStream]
  OBVIOUS
<1>13. /\ k = [streams |-> k.streams, last |-> k.last, destinations |-> k.destinations]
       /\ k.streams = n.streams /\ k.destinations = dest
       /\ k.last = IF m.last \in DOMAIN n.streams THEN m.last ELSE NoStream
  BY <1>7, <1>12
<1>14. Good(t, k, stay)
  <2>1. DOMAIN k.streams \subseteq DOMAIN m.streams
    BY <1>7, <1>13
  <2>2. IsFiniteSet(DOMAIN k.streams) /\ IsFiniteSet(DOMAIN stay)
    BY <1>6, <1>8, <2>1, FS_Subset
  <2>3. \A j \in DOMAIN k.streams : GoodStream(k.streams[j], Users(stay, j), k.destinations)
    BY <1>10, <1>13
  <2>4. t \in Shared => \A j \in DOMAIN k.streams : ~k.streams[j].hollow => j = k.last
    BY <1>6, <1>10, <1>13, <2>1
  <2>5. t \notin Shared => \A r, q \in DOMAIN stay : stay[r] = stay[q] => r = q
    BY <1>6, <1>8
  <2>6. \A r \in DOMAIN stay : stay[r] \in DOMAIN k.streams
    BY <1>11, <1>13
  <2> QED BY <1>6, <1>8, <1>13, <2>1, <2>2, <2>3, <2>4, <2>5, <2>6 DEF Good
<1>15. ASSUME NEW r \in DOMAIN held \ DOMAIN leaving
       PROVE  held[r] \in DOMAIN n.streams /\ (Feeds(m, r, held[r]) => Feeds(n, r, held[r]))
  <2>1. /\ r \in DOMAIN stay /\ stay[r] = held[r] /\ held[r] \in DOMAIN n.streams
        /\ r \in Users(stay, held[r])
    BY <1>8, <1>11
  <2>2. ASSUME NEW d, <<r, d>> \in m.streams[held[r]].to PROVE <<r, d>> \in n.streams[held[r]].to
    BY <1>10, <2>1, <2>2
  <2> QED BY <1>10, <2>1, <2>2 DEF Feeds
<1> QED BY <1>1, <1>2, <1>7, <1>12, <1>14, <1>15

(* deleteStream() of some sessions at once, with the last token forgotten if its
   stream went. *)
LEMMA DeleteGood ==
  ASSUME NEW t, NEW m, NEW held, Good(t, m, held), NEW leaving, Leaves(leaving, held)
  PROVE  /\ Good(t, DeleteStream(m, leaving), Staying(held, leaving))
         /\ \A r \in DOMAIN held \ DOMAIN leaving :
              /\ held[r] \in DOMAIN DeleteStream(m, leaving).streams
              /\ Feeds(m, r, held[r]) => Feeds(DeleteStream(m, leaving), r, held[r])
<1>1. PICK n : n = Released(m, leaving)
  OBVIOUS
<1>2. PICK k : k = [n EXCEPT !.last = IF @ \in DOMAIN n.streams THEN @ ELSE NoStream]
  OBVIOUS
<1>3. /\ Good(t, k, Staying(held, leaving))
      /\ n = [streams |-> n.streams, last |-> n.last, destinations |-> n.destinations]
      /\ \A r \in DOMAIN held \ DOMAIN leaving :
           held[r] \in DOMAIN n.streams /\ (Feeds(m, r, held[r]) => Feeds(n, r, held[r]))
  BY <1>1, <1>2, ReleasedGood
<1>4. k = DeleteStream(m, leaving) /\ k.streams = n.streams
  BY <1>1, <1>2, <1>3 DEF DeleteStream
<1> QED BY <1>3, <1>4 DEF Feeds

(* The source of stream i ends: the stream is kept, or it is reclaimed. *)
WithoutSource(m, i, n) ==
  \/ n = [m EXCEPT !.streams[i].running = FALSE, !.streams[i].exhausted = TRUE]
  \/ n = [m EXCEPT !.streams[i] = Reclaimed(@), !.last = IF @ = i THEN NoStream ELSE @]

(* A track is in order after the end of a source too. *)
LEMMA SourceEndsGood ==
  ASSUME NEW t, NEW m, NEW held, Good(t, m, held), NEW i \in DOMAIN m.streams,
         NEW n, WithoutSource(m, i, n)
  PROVE  /\ Good(t, n, held)
         /\ DOMAIN n.streams = DOMAIN m.streams
         /\ \A j \in DOMAIN m.streams : j # i => n.streams[j] = m.streams[j]
<1>1. PICK old : old = m.streams[i]
  OBVIOUS
<1>2. GoodStream(old, Users(held, i), m.destinations)
  BY <1>1 DEF Good
<1>3. CASE n = [m EXCEPT !.streams[i].running = FALSE, !.streams[i].exhausted = TRUE]
  <2>1. PICK str : str = [old EXCEPT !.running = FALSE, !.exhausted = TRUE]
    OBVIOUS
  <2>2. /\ str = [refs |-> old.refs, playing |-> str.playing, running |-> str.running,
                  exhausted |-> str.exhausted, hollow |-> old.hollow, to |-> old.to,
                  reports |-> old.reports]
        /\ str.playing = old.playing /\ str.running = FALSE /\ str.exhausted = TRUE
        /\ str.hollow = old.hollow
    BY <1>2, <2>1 DEF GoodStream
  <2>3. {str.playing, str.running, str.exhausted} \subseteq BOOLEAN
    <3>1. old.playing \in BOOLEAN
      BY <1>2 DEF GoodStream, StreamOK
    <3> QED BY <2>2, <3>1
  <2>4. GoodStream(str, Users(held, i), m.destinations)
    BY <1>2, <2>2, <2>3, FlagsGood
  <2>5. n = [m EXCEPT !.streams[i] = str]
    BY <1>1, <1>3, <2>1 DEF Good
  <2> QED BY <1>1, <2>2, <2>4, <2>5, ReplaceGood
<1>4. CASE n = [m EXCEPT !.streams[i] = Reclaimed(@), !.last = IF @ = i THEN NoStream ELSE @]
  <2>1. PICK str : str = Reclaimed(old)
    OBVIOUS
  <2>2. GoodStream(str, Users(held, i), m.destinations) /\ str.hollow
    BY <1>2, <2>1, ReclaimedGood
  <2>3. /\ n.streams = [m.streams EXCEPT ![i] = str]
        /\ n.last = (IF m.last = i THEN NoStream ELSE m.last)
        /\ n.destinations = m.destinations
        /\ n = [streams |-> n.streams, last |-> n.last, destinations |-> n.destinations]
    BY <1>1, <1>4, <2>1 DEF Good
  <2>4. /\ DOMAIN n.streams = DOMAIN m.streams /\ n.streams[i] = str
        /\ \A j \in DOMAIN m.streams : j # i => n.streams[j] = m.streams[j]
    BY <2>3
  <2>5. \A j \in DOMAIN n.streams : GoodStream(n.streams[j], Users(held, j), n.destinations)
    BY <2>2, <2>3, <2>4 DEF Good
  <2>6. t \in Shared => \A j \in DOMAIN n.streams : ~n.streams[j].hollow => j = n.last
    BY <2>2, <2>3, <2>4 DEF Good
  <2>7. n.last \in DOMAIN n.streams \union {NoStream}
    BY <2>3, <2>4 DEF Good
  <2>8. Good(t, n, held)
    BY <2>3, <2>4, <2>5, <2>6, <2>7 DEF Good
  <2> QED BY <2>4, <2>8
<1> QED BY <1>3, <1>4 DEF WithoutSource

-----------------------------------------------------------------------------
(* The states of the sessions, the tracks and the database of streams over
   TCP. *)

(* A state that stands for a stream. *)
Has(state) == state.subsession /\ state.streamToken # NoStream

(* Who has a stream of track t, and its token. *)
HeldIn(ses, t) == [s \in {x \in DOMAIN ses : Has(ses[x][t])} |-> ses[s][t].streamToken]

(* The sessions and tracks whose packets go over connection c. *)
Records(ses, c) ==
  {r \in Sessions \X Tracks : /\ r[1] \in DOMAIN ses
                              /\ Has(ses[r[1]][r[2]])
                              /\ ses[r[1]][r[2]].reply = c}

(* The socket that unnoting looks at is the one that was noted. *)
StatesGood(ses) ==
  /\ DOMAIN ses \subseteq Sessions /\ IsFiniteSet(DOMAIN ses)
  /\ \A s \in DOMAIN ses :
       /\ ses[s] \in [Tracks -> StateType]
       /\ \A t \in Tracks :
            Has(ses[s][t]) /\ ses[s][t].reply \in Sockets => ses[s][t].tcpSocketNum = ses[s][t].reply

TracksGood(ses, sub) ==
  DOMAIN sub = Tracks /\ \A t \in Tracks : Good(t, sub[t], HeldIn(ses, t))

NotesGood(ses, db) ==
  DOMAIN db = Sockets /\ \A c \in Sockets : db[c] = SetToBag(Records(ses, c))

(* The inductive invariant. *)
IInv ==
  /\ open \subseteq Sockets
  /\ StatesGood(sessions)
  /\ TracksGood(sessions, subsession)
  /\ NotesGood(sessions, noted)

(* Noting something new, and taking some of what was noted out. *)
LEMMA NoteBag ==
  ASSUME NEW A, NEW x, x \notin A
  PROVE  SetToBag(A) (+) SetToBag({x}) = SetToBag(A \union {x})
  BY DEF SetToBag, (+)

(* What was noted once goes when it is unnoted, and the rest stays. *)
LEMMA UnnoteBag ==
  ASSUME NEW A, NEW B
  PROVE  SetToBag(A) (-) SetToBag(B) = SetToBag(A \ B)
<1>1. PICK X, Y : X = SetToBag(A) /\ Y = SetToBag(B)
  OBVIOUS
<1>2. /\ DOMAIN X = A /\ \A e \in A : X[e] = 1
      /\ DOMAIN Y = B /\ \A e \in B : Y[e] = 1
  BY <1>1 DEF SetToBag
<1>3. X (-) Y = [e \in A \ B |-> 1]
  <2>1. PICK Z : Z = [e \in DOMAIN X |-> IF e \in DOMAIN Y THEN X[e] - Y[e] ELSE X[e]]
    OBVIOUS
  <2>2. DOMAIN Z = A /\ \A e \in A : Z[e] = IF e \in B THEN 0 ELSE 1
    BY <1>2, <2>1
  <2>3. {d \in DOMAIN Z : Z[d] > 0} = A \ B
    BY <2>2
  <2>4. X (-) Y = [e \in A \ B |-> Z[e]]
    BY <2>1, <2>3 DEF (-)
  <2> QED BY <2>2, <2>4
<1> QED BY <1>1, <1>3 DEF SetToBag

-----------------------------------------------------------------------------
(* What the actions do to the states of the sessions. *)

(* Two functions with a common description are equal. *)
LEMMA HeldInEqual ==
  ASSUME NEW ses, NEW t, NEW f, f = [s \in DOMAIN f |-> f[s]],
         \A s : s \in DOMAIN f <=> s \in DOMAIN ses /\ Has(ses[s][t]),
         \A s \in DOMAIN f : f[s] = ses[s][t].streamToken
  PROVE  HeldIn(ses, t) = f
  BY DEF HeldIn

(* What a session has is written over, whether it was taken away before or not. *)
LEMMA StayingWith ==
  ASSUME NEW f, NEW k, NEW v, NEW x
  PROVE  With(Staying(f, [j \in {k} |-> x]), k, v) = With(f, k, v)
  BY DEF With, Staying, Restrict

(* Session s, whose states were old, with a new one of track t. *)
SetUp(ses, s, t, old, state) == With(ses, s, [old EXCEPT ![t] = state])

(* Track t of session s, and nothing else, is set up with stream i, with its
   packets to go to d. *)
SetsUp(ses, new, s, t, i, d) ==
  /\ StatesGood(new)
  /\ HeldIn(new, t) = With(HeldIn(ses, t), s, i)
  /\ \A u \in Tracks \ {t} : HeldIn(new, u) = HeldIn(ses, u)
  /\ \A c \in Sockets : Records(new, c) = IF d = c THEN Records(ses, c) \union {<<s, t>>}
                                          ELSE Records(ses, c) \ {<<s, t>>}
  /\ \A r \in DOMAIN ses : r \in DOMAIN new /\ \A u \in Tracks :
        r # s \/ u # t => new[r][u] = ses[r][u]

(* What a SETUP by session s does to the states. *)
LEMMA SetupStates ==
  ASSUME NEW ses, StatesGood(ses), NEW s \in Sessions, NEW t \in Tracks,
         NEW old, old = IF s \in DOMAIN ses THEN ses[s] ELSE NewStates,
         NEW state \in StateType, Has(state),
         state.reply \in Sockets => state.tcpSocketNum = state.reply
  PROVE  SetsUp(ses, SetUp(ses, s, t, old, state), s, t, state.streamToken, state.reply)
<1> PICK new : new = SetUp(ses, s, t, old, state)
  OBVIOUS
<1>1. /\ DOMAIN ses \subseteq Sessions /\ IsFiniteSet(DOMAIN ses)
      /\ \A r \in DOMAIN ses :
           /\ ses[r] \in [Tracks -> StateType]
           /\ \A u \in Tracks :
                Has(ses[r][u]) /\ ses[r][u].reply \in Sockets
                  => ses[r][u].tcpSocketNum = ses[r][u].reply
  BY DEF StatesGood
<1>2. NewStates \in [Tracks -> StateType] /\ \A u \in Tracks : ~Has(NewStates[u])
  BY DEF NewStates, StateType, Has, NoStream
<1>3. old \in [Tracks -> StateType]
  BY <1>1, <1>2
<1>4. PICK mine : mine = [old EXCEPT ![t] = state]
  OBVIOUS
<1>5. /\ mine \in [Tracks -> StateType] /\ mine[t] = state
      /\ \A u \in Tracks \ {t} : mine[u] = old[u]
  BY <1>3, <1>4
<1>6. /\ DOMAIN new = DOMAIN ses \union {s} /\ new[s] = mine
      /\ \A r \in DOMAIN ses \ {s} : new[r] = ses[r]
  BY <1>4 DEF With, SetUp
<1>7. \A r \in DOMAIN new, u \in Tracks :
        IF r = s /\ u = t
        THEN new[r][u] = state
        ELSE Has(new[r][u]) \/ r \in DOMAIN ses => r \in DOMAIN ses /\ new[r][u] = ses[r][u]
  BY <1>2, <1>5, <1>6
<1>8. StatesGood(new)
  <2>1. IsFiniteSet(DOMAIN new)
    BY <1>1, <1>6, FS_AddElement
  <2>2. \A r \in DOMAIN new : new[r] \in [Tracks -> StateType]
    BY <1>1, <1>5, <1>6
  <2>3. ASSUME NEW r \in DOMAIN new, NEW u \in Tracks, Has(new[r][u]), new[r][u].reply \in Sockets
        PROVE  new[r][u].tcpSocketNum = new[r][u].reply
    BY <1>1, <1>7, <2>3
  <2> QED BY <1>1, <1>6, <2>1, <2>2, <2>3 DEF StatesGood
<1>9. HeldIn(new, t) = With(HeldIn(ses, t), s, state.streamToken)
  <2>0. PICK before : before = HeldIn(ses, t)
    OBVIOUS
  <2>1. PICK f : f = With(before, s, state.streamToken)
    OBVIOUS
  <2>2. /\ f = [j \in DOMAIN f |-> f[j]]
        /\ DOMAIN f = DOMAIN before \union {s} /\ f[s] = state.streamToken
        /\ \A j \in DOMAIN before \ {s} : f[j] = before[j]
    BY <2>1 DEF With
  <2>3. /\ DOMAIN f = {r \in DOMAIN ses : Has(ses[r][t])} \union {s} /\ f[s] = state.streamToken
        /\ \A j \in DOMAIN f \ {s} : f[j] = ses[j][t].streamToken
    <3>1. /\ DOMAIN before = {r \in DOMAIN ses : Has(ses[r][t])}
          /\ \A j \in DOMAIN before : before[j] = ses[j][t].streamToken
      BY <2>0 DEF HeldIn
    <3> QED BY <2>2, <3>1
  <2>4. \A r : r \in DOMAIN f <=> r \in DOMAIN new /\ Has(new[r][t])
    BY <1>6, <1>7, <2>3
  <2>5. \A r \in DOMAIN f : f[r] = new[r][t].streamToken
    BY <1>7, <2>3, <2>4
  <2> QED BY <2>0, <2>1, <2>2, <2>4, <2>5, HeldInEqual
<1>10. ASSUME NEW u \in Tracks \ {t} PROVE HeldIn(new, u) = HeldIn(ses, u)
  <2>1. PICK f : f = HeldIn(ses, u)
    OBVIOUS
  <2>2. /\ DOMAIN f = {r \in DOMAIN ses : Has(ses[r][u])}
        /\ \A r \in DOMAIN f : f[r] = ses[r][u].streamToken
        /\ f = [j \in DOMAIN f |-> f[j]]
    BY <2>1 DEF HeldIn
  <2>3. \A r : r \in DOMAIN f <=> r \in DOMAIN new /\ Has(new[r][u])
    BY <1>6, <1>7, <2>2
  <2>4. \A r \in DOMAIN f : f[r] = new[r][u].streamToken
    BY <1>7, <2>2, <2>3
  <2> QED BY <2>1, <2>2, <2>3, <2>4, HeldInEqual
<1>11. ASSUME NEW c \in Sockets
       PROVE  Records(new, c) = IF state.reply = c THEN Records(ses, c) \union {<<s, t>>}
                                                   ELSE Records(ses, c) \ {<<s, t>>}
  <2>1. ASSUME NEW r \in Sessions, NEW u \in Tracks
        PROVE  /\ <<r, u>> \in Records(new, c)
                    <=> r \in DOMAIN new /\ Has(new[r][u]) /\ new[r][u].reply = c
               /\ <<r, u>> \in Records(ses, c)
                    <=> r \in DOMAIN ses /\ Has(ses[r][u]) /\ ses[r][u].reply = c
    BY DEF Records
  <2>2. ASSUME NEW r \in Sessions, NEW u \in Tracks
        PROVE  <<r, u>> \in Records(new, c) <=> IF r = s /\ u = t THEN state.reply = c
                                                ELSE <<r, u>> \in Records(ses, c)
    <3>1. CASE r = s /\ u = t
      BY <1>6, <1>7, <2>1, <3>1
    <3>2. CASE ~(r = s /\ u = t)
      <4>1. r \in DOMAIN ses => r \in DOMAIN new
        BY <1>6
      <4>2. Has(new[r][u]) /\ r \in DOMAIN new => r \in DOMAIN ses
        BY <1>7, <3>2
      <4>3. r \in DOMAIN ses => new[r][u] = ses[r][u]
        BY <1>7, <3>2, <4>1
      <4> QED BY <2>1, <3>2, <4>1, <4>2, <4>3
    <3> QED BY <3>1, <3>2
  <2>3. Records(new, c) \subseteq Sessions \X Tracks /\ Records(ses, c) \subseteq Sessions \X Tracks
    BY DEF Records
  <2> QED BY <2>2, <2>3
<1>12. \A r \in DOMAIN ses : r \in DOMAIN new /\ \A u \in Tracks :
         r # s \/ u # t => new[r][u] = ses[r][u]
  BY <1>6, <1>7
<1> QED BY <1>8, <1>9, <1>10, <1>11, <1>12 DEF SetsUp

(* Sessions give up some of their tracks, gone[s] for session s, and those that
   are left with none may be deleted. *)
LEMMA StatesTornDown ==
  ASSUME NEW ses, StatesGood(ses), NEW gone, \A s \in DOMAIN ses : gone[s] \subseteq Tracks,
         NEW new, DOMAIN new \subseteq DOMAIN ses,
         \A s \in DOMAIN ses \ DOMAIN new : Finished(TornDown(ses[s], gone[s])),
         \A s \in DOMAIN new : new[s] = TornDown(ses[s], gone[s])
  PROVE  /\ StatesGood(new)
         /\ \A s \in DOMAIN ses, t \in Tracks :
              /\ Has(ses[s][t]) /\ t \notin gone[s] <=> s \in DOMAIN new /\ Has(new[s][t])
              /\ Has(ses[s][t]) /\ t \notin gone[s] => new[s][t] = ses[s][t]
         /\ \A c \in Sockets : Records(new, c) = {r \in Records(ses, c) : r[2] \notin gone[r[1]]}
<1>1. /\ DOMAIN ses \subseteq Sessions /\ IsFiniteSet(DOMAIN ses)
      /\ \A s \in DOMAIN ses :
           /\ ses[s] \in [Tracks -> StateType]
           /\ \A t \in Tracks :
                Has(ses[s][t]) /\ ses[s][t].reply \in Sockets
                  => ses[s][t].tcpSocketNum = ses[s][t].reply
  BY DEF StatesGood
<1>3. ASSUME NEW s \in DOMAIN ses
      PROVE  /\ TornDown(ses[s], gone[s]) \in [Tracks -> StateType]
             /\ \A t \in Tracks : IF t \in gone[s]
                                  THEN ~Has(TornDown(ses[s], gone[s])[t])
                                  ELSE TornDown(ses[s], gone[s])[t] = ses[s][t]
  <2>1. PICK old, g : old = ses[s] /\ g = gone[s]
    OBVIOUS
  <2>2. PICK torn : torn = TornDown(old, g)
    OBVIOUS
  <2>3. old \in [Tracks -> StateType]
    BY <1>1, <2>1
  <2>4. torn = [t \in Tracks |->
                  IF t \in g THEN [NewStates[t] EXCEPT !.subsession = FALSE] ELSE old[t]]
    BY <2>2 DEF TornDown
  <2>5. ASSUME NEW t \in Tracks
        PROVE  /\ [NewStates[t] EXCEPT !.subsession = FALSE] \in StateType
               /\ ~[NewStates[t] EXCEPT !.subsession = FALSE].subsession
    BY DEF StateType, NewStates, NoStream
  <2>6. torn \in [Tracks -> StateType]
    BY <2>3, <2>4, <2>5
  <2>7. \A t \in Tracks : IF t \in g THEN ~Has(torn[t]) ELSE torn[t] = old[t]
    BY <2>4, <2>5 DEF Has
  <2> QED BY <2>1, <2>2, <2>6, <2>7
<1>4. ASSUME NEW s \in DOMAIN ses, NEW t \in Tracks
      PROVE  /\ Has(ses[s][t]) /\ t \notin gone[s] <=> s \in DOMAIN new /\ Has(new[s][t])
             /\ Has(ses[s][t]) /\ t \notin gone[s] => new[s][t] = ses[s][t]
  <2>1. CASE s \in DOMAIN new
    BY <1>3, <2>1
  <2>2. CASE s \notin DOMAIN new
    <3>1. Finished(TornDown(ses[s], gone[s]))
      BY <2>2
    <3>2. ~TornDown(ses[s], gone[s])[t].subsession
      BY <3>1 DEF Finished
    <3>3. Has(ses[s][t]) /\ t \notin gone[s] => FALSE
      BY <1>3, <3>2 DEF Has
    <3> QED BY <2>2, <3>3
  <2> QED BY <2>1, <2>2
<1>5. StatesGood(new)
  <2>1. IsFiniteSet(DOMAIN new) /\ DOMAIN new \subseteq Sessions
    BY <1>1, FS_Subset
  <2>2. ASSUME NEW s \in DOMAIN new PROVE new[s] \in [Tracks -> StateType]
    BY <1>3
  <2>3. ASSUME NEW s \in DOMAIN new, NEW t \in Tracks, Has(new[s][t]), new[s][t].reply \in Sockets
        PROVE  new[s][t].tcpSocketNum = new[s][t].reply
    BY <1>1, <1>4, <2>3
  <2> QED BY <2>1, <2>2, <2>3 DEF StatesGood
<1>6. ASSUME NEW c \in Sockets
      PROVE  Records(new, c) = {r \in Records(ses, c) : r[2] \notin gone[r[1]]}
  <2>1. ASSUME NEW s \in Sessions, NEW t \in Tracks
        PROVE  <<s, t>> \in Records(new, c) <=> <<s, t>> \in Records(ses, c) /\ t \notin gone[s]
    <3>1. /\ <<s, t>> \in Records(new, c)
               <=> s \in DOMAIN new /\ Has(new[s][t]) /\ new[s][t].reply = c
          /\ <<s, t>> \in Records(ses, c)
               <=> s \in DOMAIN ses /\ Has(ses[s][t]) /\ ses[s][t].reply = c
      BY DEF Records
    <3> QED BY <1>4, <3>1
  <2>2. Records(new, c) \subseteq Sessions \X Tracks /\ Records(ses, c) \subseteq Sessions \X Tracks
    BY DEF Records
  <2> QED BY <2>1, <2>2
<1> QED BY <1>4, <1>5, <1>6

(* What is left of a track then is what those who leave do not have. *)
LEMMA HeldStaying ==
  ASSUME NEW ses, NEW new, NEW t, DOMAIN new \subseteq DOMAIN ses, NEW leaving,
         \A s \in DOMAIN ses : Has(ses[s][t]) /\ s \notin DOMAIN leaving
                                 <=> s \in DOMAIN new /\ Has(new[s][t]),
         \A s \in DOMAIN ses : Has(ses[s][t]) /\ s \notin DOMAIN leaving
                                 => new[s][t] = ses[s][t]
  PROVE  HeldIn(new, t) = Staying(HeldIn(ses, t), leaving)
<1>1. PICK f, before : f = Staying(before, leaving) /\ before = HeldIn(ses, t)
  OBVIOUS
<1>2. /\ DOMAIN before = {s \in DOMAIN ses : Has(ses[s][t])}
      /\ \A s \in DOMAIN before : before[s] = ses[s][t].streamToken
  BY <1>1 DEF HeldIn
<1>3. /\ f = [s \in DOMAIN f |-> f[s]]
      /\ DOMAIN f = DOMAIN before \ DOMAIN leaving /\ \A s \in DOMAIN f : f[s] = before[s]
  BY <1>1 DEF Staying, Restrict
<1>4. \A s : s \in DOMAIN f <=> s \in DOMAIN new /\ Has(new[s][t])
  BY <1>2, <1>3
<1>5. \A s \in DOMAIN f : f[s] = new[s][t].streamToken
  BY <1>2, <1>3
<1> QED BY <1>1, <1>3, <1>4, <1>5, HeldInEqual

-----------------------------------------------------------------------------
(* The actions. *)

(* Session s gets packets of track t. *)
Fed(ses, sub, s, t) ==
  s \in DOMAIN ses /\ Has(ses[s][t]) /\ Feeds(sub[t], s, ses[s][t].streamToken)

(* Receiving, of the states and the tracks alone: before a step and after it. *)
LEMMA ReceivingFed ==
  ASSUME NEW s, NEW t
  PROVE  Receiving(s, t) <=> Fed(sessions, subsession, s, t)
  BY DEF Receiving, Fed, Feeds, Holds, Has

(* The same for the next state. *)
LEMMA ReceivingFedNext ==
  ASSUME NEW s, NEW t
  PROVE  Receiving(s, t)' <=> Fed(sessions', subsession', s, t)
  BY DEF Receiving, Fed, Feeds, Holds, Has

(* A session that has a stream of a track has one that exists. *)
LEMMA TokenFacts ==
  ASSUME NEW ses, NEW sub, TracksGood(ses, sub), NEW t \in Tracks, NEW s \in DOMAIN ses
  PROVE  /\ Good(t, sub[t], HeldIn(ses, t))
         /\ Has(ses[s][t]) => /\ s \in DOMAIN HeldIn(ses, t)
                              /\ HeldIn(ses, t)[s] = ses[s][t].streamToken
                              /\ ses[s][t].streamToken \in DOMAIN sub[t].streams
<1>1. PICK m, held : m = sub[t] /\ held = HeldIn(ses, t)
  OBVIOUS
<1>2. Good(t, m, held)
  BY <1>1 DEF TracksGood
<1>3. ASSUME Has(ses[s][t]) PROVE s \in DOMAIN held /\ held[s] = ses[s][t].streamToken
  BY <1>1, <1>3 DEF HeldIn
<1>4. \A r \in DOMAIN held : held[r] \in DOMAIN m.streams
  BY <1>2 DEF Good
<1> QED BY <1>1, <1>2, <1>3, <1>4

(* A step that writes nothing but the tracks, and keeps them in order. *)
LEMMA TracksOnly ==
  ASSUME IInv, DOMAIN subsession' = Tracks, UNCHANGED <<open, sessions, noted>>,
         \A t \in Tracks : Good(t, subsession'[t], HeldIn(sessions, t))
  PROVE  IInv'
<1>1. PICK ses, sub : ses = sessions /\ sub = subsession'
  OBVIOUS
<1>2. TracksGood(ses, sub)
  BY <1>1 DEF TracksGood
<1> QED BY <1>1, <1>2 DEF IInv

(* PLAY adds its own destination, and stops nobody. *)
LEMMA PlayKeeps ==
  ASSUME IInv, NEW s \in Sessions, NEW selected \in Selections, NEW seeks \in BOOLEAN,
         Play(s, selected, seeks)
  PROVE  IInv' /\ NobodyElseStops
<1>1. /\ s \in DOMAIN sessions /\ UNCHANGED <<open, sessions, noted>>
      /\ StatesGood(sessions) /\ TracksGood(sessions, subsession)
  BY DEF Play, IInv
<1>2. ASSUME NEW t \in Tracks
      PROVE  /\ Good(t, subsession'[t], HeldIn(sessions, t))
             /\ \A r, j : j \in DOMAIN subsession[t].streams /\ Feeds(subsession[t], r, j)
                            => Feeds(subsession'[t], r, j)
  <2>1. PICK m, held, i, n :
          /\ m = subsession[t] /\ held = HeldIn(sessions, t)
          /\ i = sessions[s][t].streamToken /\ n = subsession'[t]
    OBVIOUS
  <2>2. /\ Good(t, m, held)
        /\ Has(sessions[s][t]) => s \in DOMAIN held /\ held[s] = i /\ i \in DOMAIN m.streams
    BY <1>1, <2>1, TokenFacts
  <2>3. CASE t \in Usable(s, selected)
    <3>1. PICK sought : sought = IF seeks THEN SeekStream(m, t, i) ELSE m
      OBVIOUS
    <3>2. n = StartStream(sought, s, i)
      BY <2>1, <2>3, <3>1 DEF Play
    <3>3. i # NoStream => Has(sessions[s][t])
      BY <2>1, <2>3 DEF Usable, Has
    <3>4. /\ Good(t, sought, held) /\ DOMAIN sought.streams = DOMAIN m.streams
          /\ \A r, j : j \in DOMAIN m.streams /\ Feeds(m, r, j) => Feeds(sought, r, j)
      BY <2>2, <3>1, <3>3, SeekGood
    <3>5. /\ Good(t, n, held)
          /\ \A r, j : j \in DOMAIN sought.streams /\ Feeds(sought, r, j) => Feeds(n, r, j)
      BY <2>2, <3>2, <3>3, <3>4, StartGood
    <3> QED BY <2>1, <3>4, <3>5
  <2>4. CASE t \notin Usable(s, selected)
    BY <2>1, <2>2, <2>4 DEF Play
  <2> QED BY <2>3, <2>4
<1>3. DOMAIN subsession' = Tracks
  BY DEF Play
<1>4. IInv'
  BY <1>1, <1>2, <1>3, TracksOnly
<1>5. ASSUME NEW r \in Sessions, NEW t \in Tracks, Receiving(r, t) PROVE Receiving(r, t)'
  <2>1. Fed(sessions, subsession, r, t)
    BY <1>5, ReceivingFed
  <2>2. /\ r \in DOMAIN sessions /\ Has(sessions[r][t])
        /\ Feeds(subsession[t], r, sessions[r][t].streamToken)
    BY <2>1 DEF Fed
  <2>3. sessions[r][t].streamToken \in DOMAIN subsession[t].streams
    BY <1>1, <2>2, TokenFacts
  <2>4. Fed(sessions', subsession', r, t)
    BY <1>1, <1>2, <2>2, <2>3 DEF Fed
  <2> QED BY <2>4, ReceivingFedNext
<1> QED BY <1>4, <1>5 DEF NobodyElseStops

(* PAUSE stops the client's own streams of tracks that are not shared. *)
LEMMA PauseKeeps ==
  ASSUME IInv, NEW s \in Sessions, NEW selected \in Selections, Pause(s, selected)
  PROVE  IInv' /\ NobodyElseStops
<1>1. /\ s \in DOMAIN sessions /\ UNCHANGED <<open, sessions, noted>>
      /\ StatesGood(sessions) /\ TracksGood(sessions, subsession)
  BY DEF Pause, IInv
<1>2. ASSUME NEW t \in Tracks
      PROVE  /\ Good(t, subsession'[t], HeldIn(sessions, t))
             /\ \A r \in DOMAIN sessions :
                  /\ Has(sessions[r][t])
                  /\ r # s \/ t \notin selected
                  /\ Feeds(subsession[t], r, sessions[r][t].streamToken)
                  => Feeds(subsession'[t], r, sessions[r][t].streamToken)
  <2>1. PICK m, held, i, n :
          /\ m = subsession[t] /\ held = HeldIn(sessions, t)
          /\ i = sessions[s][t].streamToken /\ n = subsession'[t]
    OBVIOUS
  <2>2. /\ Good(t, m, held)
        /\ Has(sessions[s][t]) => s \in DOMAIN held /\ held[s] = i /\ i \in DOMAIN m.streams
    BY <1>1, <2>1, TokenFacts
  <2>3. CASE t \in Usable(s, selected)
    <3>1. n = PauseStream(m, t, i)
      BY <2>1, <2>3 DEF Pause
    <3>2. i # NoStream => Has(sessions[s][t])
      BY <2>1, <2>3 DEF Usable, Has
    <3>3. /\ Good(t, n, held)
          /\ \A r, j : j \in DOMAIN m.streams /\ (j # i \/ t \in Shared) /\ Feeds(m, r, j)
                         => Feeds(n, r, j)
      BY <2>2, <3>1, <3>2, PauseGood
    <3>4. ASSUME NEW r \in DOMAIN sessions, Has(sessions[r][t]), r # s \/ t \notin selected,
                 NEW j, j = sessions[r][t].streamToken, Feeds(m, r, j)
          PROVE  Feeds(n, r, j)
      <4>1. r # s
        BY <2>3, <3>4 DEF Usable
      <4>2. r \in DOMAIN held /\ held[r] = j /\ j \in DOMAIN m.streams
        BY <1>1, <2>1, <3>4, TokenFacts
      <4>3. j # i \/ t \in Shared
        <5>1. CASE i = NoStream
          BY <2>2, <4>2, <5>1 DEF Good
        <5>2. CASE i # NoStream
          BY <2>2, <3>2, <4>1, <4>2, <5>2 DEF Good
        <5> QED BY <5>1, <5>2
      <4> QED BY <3>3, <3>4, <4>2, <4>3
    <3> QED BY <2>1, <3>3, <3>4
  <2>4. CASE t \notin Usable(s, selected)
    BY <2>1, <2>2, <2>4 DEF Pause
  <2> QED BY <2>3, <2>4
<1>3. DOMAIN subsession' = Tracks
  BY DEF Pause
<1>4. IInv'
  BY <1>1, <1>2, <1>3, TracksOnly
<1>5. ASSUME NEW r \in Sessions, NEW t \in Tracks, Receiving(r, t), r # s \/ t \notin selected
      PROVE  Receiving(r, t)'
  <2>1. Fed(sessions, subsession, r, t)
    BY <1>5, ReceivingFed
  <2>2. /\ r \in DOMAIN sessions /\ Has(sessions[r][t])
        /\ Feeds(subsession[t], r, sessions[r][t].streamToken)
    BY <2>1 DEF Fed
  <2>3. Fed(sessions', subsession', r, t)
    BY <1>1, <1>2, <1>5, <2>2 DEF Fed
  <2> QED BY <2>3, ReceivingFedNext
<1> QED BY <1>4, <1>5 DEF NobodyElseStops

(* The end of a source stops those who have its stream. *)
LEMMA SourceEndsKeeps ==
  ASSUME IInv, NEW t \in Tracks, NEW i \in Streams(t), SourceEnds(t, i)
  PROVE  IInv' /\ NobodyElseStops
<1>1. /\ UNCHANGED <<open, sessions, noted>> /\ DOMAIN subsession = Tracks
      /\ StatesGood(sessions) /\ TracksGood(sessions, subsession)
  BY DEF SourceEnds, IInv, TracksGood
<1>2. PICK m, n, held : m = subsession[t] /\ n = subsession'[t] /\ held = HeldIn(sessions, t)
  OBVIOUS
<1>3. /\ DOMAIN subsession' = Tracks
      /\ \A u \in Tracks \ {t} : subsession'[u] = subsession[u]
      /\ i \in DOMAIN m.streams
      /\ WithoutSource(m, i, n)
  BY <1>1, <1>2 DEF SourceEnds, Streams, WithoutSource
<1>4. Good(t, m, held) /\ \A u \in Tracks : Good(u, subsession[u], HeldIn(sessions, u))
  BY <1>1, <1>2 DEF TracksGood
<1>5. /\ Good(t, n, held)
      /\ \A j \in DOMAIN m.streams : j # i => n.streams[j] = m.streams[j]
  BY <1>3, <1>4, SourceEndsGood
<1>6. IInv'
  BY <1>1, <1>2, <1>3, <1>4, <1>5, TracksOnly
<1>7. ASSUME NEW r \in Sessions, NEW u \in Tracks, Receiving(r, u), ~Receiving(r, u)'
      PROVE  u = t /\ sessions[r][u].streamToken = i
  <2>1. Fed(sessions, subsession, r, u)
    BY <1>7, ReceivingFed
  <2>2. PICK j : j = sessions[r][u].streamToken
    OBVIOUS
  <2>3. r \in DOMAIN sessions /\ Has(sessions[r][u]) /\ Feeds(subsession[u], r, j)
    BY <2>1, <2>2 DEF Fed
  <2>4. j \in DOMAIN subsession[u].streams
    BY <1>1, <2>2, <2>3, TokenFacts
  <2>5. ~Fed(sessions', subsession', r, u)
    BY <1>7, ReceivingFedNext
  <2>6. ~Feeds(subsession'[u], r, j)
    BY <1>1, <2>2, <2>3, <2>5 DEF Fed
  <2>7. u = t
    BY <1>3, <2>3, <2>6
  <2>8. j = i
    BY <1>2, <1>5, <2>3, <2>4, <2>6, <2>7 DEF Feeds
  <2> QED BY <2>2, <2>7, <2>8
<1>8. ASSUME NEW r \in Sessions, NEW u \in Tracks, Receiving(r, u), ~Receiving(r, u)'
      PROVE  SourceEnds(u, sessions[r][u].streamToken)
  BY <1>7, <1>8
<1> QED BY <1>6, <1>8 DEF NobodyElseStops

(* A new connection has no sessions. *)
LEMMA AcceptKeeps ==
  ASSUME IInv, NEW c \in Sockets, Accept(c)
  PROVE  IInv' /\ NobodyElseStops
<1>1. /\ open' \subseteq Sockets /\ UNCHANGED <<sessions, subsession, noted>>
      /\ StatesGood(sessions) /\ TracksGood(sessions, subsession) /\ NotesGood(sessions, noted)
  BY DEF Accept, IInv
<1>2. IInv'
  BY <1>1 DEF IInv
<1>3. ASSUME NEW r \in Sessions, NEW t \in Tracks PROVE Receiving(r, t)' <=> Receiving(r, t)
  BY <1>1, ReceivingFed, ReceivingFedNext
<1> QED BY <1>2, <1>3 DEF NobodyElseStops

(* The database after a SETUP: cleared of what the track had, and with d if d is
   the connection. *)
Cleared(db, s, t, old) ==
  IF old[t].streamToken # NoStream THEN UnnoteTCPStreaming(db, s, {t}, old) ELSE db

NotedBySetup(db, s, t, old, d) ==
  LET cleared == Cleared(db, s, t, old)
  IN  IF d \in Sockets THEN NoteTCPStreaming(cleared, d, s, t) ELSE cleared

(* The new database has what it should for states ses with track t of s at d. *)
NotesSetUp(ses, new, s, t, d) ==
  /\ DOMAIN new = Sockets
  /\ \A c \in Sockets : new[c] = SetToBag(IF d = c THEN Records(ses, c) \union {<<s, t>>}
                                          ELSE Records(ses, c) \ {<<s, t>>})

(* That is the database of the states after the SETUP. *)
LEMMA SetupNotes ==
  ASSUME NEW ses, NEW db, StatesGood(ses), NotesGood(ses, db),
         NEW s \in Sessions, NEW t \in Tracks, NEW old,
         old[t].streamToken # NoStream <=> s \in DOMAIN ses /\ Has(ses[s][t]),
         old[t].streamToken # NoStream => old = ses[s],
         NEW d
  PROVE  NotesSetUp(ses, NotedBySetup(db, s, t, old, d), s, t, d)
<1>0. PICK new, cleared, k : /\ new = NotedBySetup(db, s, t, old, d)
                             /\ cleared = Cleared(db, s, t, old)
                             /\ k = old[t].streamToken
  OBVIOUS
<1>1. DOMAIN db = Sockets /\ \A c \in Sockets : db[c] = SetToBag(Records(ses, c))
  BY DEF NotesGood
<1>2. \A c \in Sockets : <<s, t>> \in Records(ses, c) => k # NoStream /\ ses[s][t].reply = c
  BY <1>0 DEF Records
<1>3. DOMAIN cleared = Sockets
      /\ \A c \in Sockets : cleared[c] = SetToBag(Records(ses, c) \ {<<s, t>>})
  <2>1. CASE k = NoStream
    <3>1. \A c \in Sockets : Records(ses, c) \ {<<s, t>>} = Records(ses, c)
      BY <1>2, <2>1
    <3> QED BY <1>0, <1>1, <2>1, <3>1 DEF Cleared
  <2>2. CASE k # NoStream
    <3>1. DOMAIN cleared = Sockets
      BY <1>0, <2>2 DEF UnnoteTCPStreaming, Cleared
    <3>2. ASSUME NEW c \in Sockets PROVE cleared[c] = SetToBag(Records(ses, c) \ {<<s, t>>})
      <4>1. PICK A, B : /\ A = Records(ses, c)
                        /\ B = {<<s, u>> : u \in {u \in {t} : old[u].tcpSocketNum = c}}
        OBVIOUS
      <4>2. cleared[c] = SetToBag(A) (-) SetToBag(B)
        BY <1>0, <1>1, <2>2, <4>1 DEF UnnoteTCPStreaming, Cleared
      <4>3. B = IF ses[s][t].tcpSocketNum = c THEN {<<s, t>>} ELSE {}
        BY <1>0, <2>2, <4>1
      <4>4. <<s, t>> \in A => ses[s][t].tcpSocketNum = c
        BY <1>0, <1>2, <2>2, <4>1 DEF StatesGood
      <4>5. A \ B = A \ {<<s, t>>}
        BY <4>3, <4>4
      <4> QED BY <4>1, <4>2, <4>5, UnnoteBag
    <3> QED BY <3>1, <3>2
  <2> QED BY <2>1, <2>2
<1>4. CASE d \notin Sockets
  BY <1>0, <1>3, <1>4 DEF NotedBySetup, NotesSetUp
<1>5. CASE d \in Sockets
  <2>1. /\ DOMAIN new = Sockets /\ new[d] = cleared[d] (+) SetToBag({<<s, t>>})
        /\ \A c \in Sockets \ {d} : new[c] = cleared[c]
    BY <1>0, <1>3, <1>5 DEF NoteTCPStreaming, NotedBySetup
  <2>2. PICK A : A = Records(ses, d) \ {<<s, t>>}
    OBVIOUS
  <2>3. new[d] = SetToBag(A \union {<<s, t>>})
    BY <1>3, <1>5, <2>1, <2>2, NoteBag
  <2>4. A \union {<<s, t>>} = Records(ses, d) \union {<<s, t>>}
    BY <2>2
  <2> QED BY <1>0, <1>3, <2>1, <2>3, <2>4 DEF NotesSetUp
<1> QED BY <1>4, <1>5

(* The track when a SETUP has undone the one before it. *)
Undone(m, t, s, k) ==
  IF k # NoStream THEN DeleteStream(PauseStream(m, t, k), [x \in {s} |-> k]) ELSE m

(* A SETUP takes nothing from the other sessions that have a stream of the track. *)
LEMMA SetupTrack ==
  ASSUME NEW t, NEW m, NEW held, Good(t, m, held), NEW s \in Sessions, NEW target \in Places,
         NEW k, k # NoStream <=> s \in DOMAIN held, k # NoStream => held[s] = k
  PROVE  LET undone == Undone(m, t, s, k)
             n == GetStreamParameters(undone, t, s, target)
         IN  /\ Good(t, n, With(held, s, TokenFor(undone, t)))
             /\ TokenFor(undone, t) \in Nat \ {NoStream}
             /\ \A r \in DOMAIN held \ {s} : Feeds(m, r, held[r]) => Feeds(n, r, held[r])
<1>0. PICK undone : undone = Undone(m, t, s, k)
  OBVIOUS
<1>1. PICK i, n : i = TokenFor(undone, t) /\ n = GetStreamParameters(undone, t, s, target)
  OBVIOUS
<1>2. \A r \in DOMAIN held : held[r] \in DOMAIN m.streams
  BY DEF Good
<1>3. CASE k = NoStream
  <2>1. undone = m /\ s \notin DOMAIN held
    BY <1>0, <1>3 DEF Undone
  <2> QED BY <1>0, <1>2, <2>1, GiveGood
<1>4. CASE k # NoStream
  <2>1. PICK leaving : leaving = [x \in {s} |-> k]
    OBVIOUS
  <2>2. PICK paused, stay : paused = PauseStream(m, t, k) /\ stay = Staying(held, leaving)
    OBVIOUS
  <2>3. undone = DeleteStream(paused, leaving)
    BY <1>0, <1>4, <2>1, <2>2 DEF Undone
  <2>4. s \in DOMAIN held /\ held[s] = k /\ k \in DOMAIN m.streams
    BY <1>2, <1>4
  <2>5. /\ Good(t, paused, held) /\ DOMAIN paused.streams = DOMAIN m.streams
        /\ \A r, j : j \in DOMAIN m.streams /\ (j # k \/ t \in Shared) /\ Feeds(m, r, j)
                       => Feeds(paused, r, j)
    BY <2>2, <2>4, PauseGood
  <2>6. Leaves(leaving, held)
    BY <2>1, <2>4 DEF Leaves
  <2>7. DOMAIN leaving = {s}
    BY <2>1
  <2>8. /\ Good(t, undone, stay)
        /\ \A r \in DOMAIN held \ {s} :
             /\ held[r] \in DOMAIN undone.streams
             /\ Feeds(paused, r, held[r]) => Feeds(undone, r, held[r])
    BY <2>2, <2>3, <2>5, <2>6, <2>7, DeleteGood
  <2>9. s \notin DOMAIN stay
    BY <2>2, <2>7 DEF Staying, Restrict
  <2>10. /\ Good(t, n, With(stay, s, i)) /\ i \in Nat \ {NoStream}
         /\ \A r, j : j \in DOMAIN undone.streams /\ Feeds(undone, r, j) => Feeds(n, r, j)
    BY <1>1, <2>8, <2>9, GiveGood
  <2>11. With(stay, s, i) = With(held, s, i)
    BY <2>1, <2>2, StayingWith
  <2>12. ASSUME NEW r \in DOMAIN held \ {s}, Feeds(m, r, held[r]) PROVE Feeds(n, r, held[r])
    <3>1. t \notin Shared => held[r] # k
      BY <2>4 DEF Good
    <3>2. Feeds(paused, r, held[r])
      BY <1>2, <2>5, <2>12, <3>1
    <3> QED BY <2>8, <2>10, <3>2
  <2> QED BY <1>0, <1>1, <2>10, <2>11, <2>12
<1> QED BY <1>3, <1>4

(* SETUP: the states, the track and the database go together. *)
LEMMA SetupKeeps ==
  ASSUME IInv, NEW s \in Sessions, NEW t \in Tracks, NEW d \in Places, Setup(s, t, d)
  PROVE  IInv' /\ NobodyElseStops
<1>1. /\ open' = open /\ open \subseteq Sockets /\ DOMAIN subsession = Tracks
      /\ StatesGood(sessions) /\ TracksGood(sessions, subsession) /\ NotesGood(sessions, noted)
  BY DEF Setup, IInv, TracksGood
<1>2. PICK ses, sub, db, old, m, held :
        /\ ses = sessions /\ sub = subsession /\ db = noted
        /\ old = States(s) /\ m = subsession[t] /\ held = HeldIn(sessions, t)
  OBVIOUS
<1>3. PICK k : k = old[t].streamToken
  OBVIOUS
<1>4. PICK undone, cleared, socket :
        /\ undone = Undone(m, t, s, k)
        /\ cleared = Cleared(db, s, t, old)
        /\ socket = IF d \in Sockets THEN d ELSE old[t].tcpSocketNum
  OBVIOUS
<1>5. PICK target, i : target = (IF socket = Nowhere THEN d ELSE socket) /\ i = TokenFor(undone, t)
  OBVIOUS
<1>6. PICK state : state = [subsession |-> TRUE, streamToken |-> i, tcpSocketNum |-> socket,
                            reply |-> d]
  OBVIOUS
<1>7. /\ old[t].subsession
      /\ noted' = NotedBySetup(db, s, t, old, d)
      /\ subsession' = [sub EXCEPT ![t] = GetStreamParameters(undone, t, s, target)]
      /\ sessions' = SetUp(ses, s, t, old, state)
  BY <1>2, <1>3, <1>4, <1>5, <1>6 DEF Setup, Undone, Cleared, NotedBySetup, SetUp
<1>8. /\ old = IF s \in DOMAIN ses THEN ses[s] ELSE NewStates
      /\ StatesGood(ses) /\ NotesGood(ses, db)
  BY <1>1, <1>2 DEF States
<1>9. /\ k # NoStream <=> s \in DOMAIN ses /\ Has(ses[s][t])
      /\ k # NoStream => old = ses[s]
  <2>1. s \notin DOMAIN ses => k = NoStream
    BY <1>3, <1>8 DEF NewStates, NoStream
  <2> QED BY <1>3, <1>7, <1>8, <2>1 DEF Has
<1>10. Good(t, m, held)
  BY <1>1, <1>2 DEF TracksGood
<1>11. (k # NoStream <=> s \in DOMAIN held) /\ (k # NoStream => held[s] = k)
  BY <1>2, <1>3, <1>8, <1>9 DEF HeldIn
<1>12. socket \in Sockets \union {Nowhere} /\ target \in Places
  <2>1. old[t].tcpSocketNum \in Sockets \union {Nowhere}
    <3>1. CASE s \in DOMAIN ses
      BY <1>8, <3>1 DEF StatesGood, StateType
    <3>2. CASE s \notin DOMAIN ses
      BY <1>8, <3>2 DEF NewStates
    <3> QED BY <3>1, <3>2
  <2> QED BY <1>4, <1>5, <2>1 DEF Places
<1>13. /\ Good(t, GetStreamParameters(undone, t, s, target), With(held, s, i))
       /\ i \in Nat \ {NoStream}
       /\ \A r \in DOMAIN held \ {s} :
            Feeds(m, r, held[r]) => Feeds(GetStreamParameters(undone, t, s, target), r, held[r])
  BY <1>4, <1>5, <1>10, <1>11, <1>12, SetupTrack
<1>14. /\ state \in StateType /\ Has(state) /\ state.streamToken = i /\ state.reply = d
       /\ state.reply \in Sockets => state.tcpSocketNum = state.reply
  BY <1>4, <1>6, <1>12, <1>13 DEF StateType, Has
<1>15. PICK new, newSub, newDb : new = sessions' /\ newSub = subsession' /\ newDb = noted'
  OBVIOUS
<1>16. /\ StatesGood(new) /\ HeldIn(new, t) = With(HeldIn(ses, t), s, i)
       /\ \A u \in Tracks \ {t} : HeldIn(new, u) = HeldIn(ses, u)
       /\ \A c \in Sockets : Records(new, c) = IF d = c THEN Records(ses, c) \union {<<s, t>>}
                                               ELSE Records(ses, c) \ {<<s, t>>}
       /\ \A r \in DOMAIN ses : r \in DOMAIN new /\ \A u \in Tracks :
             r # s \/ u # t => new[r][u] = ses[r][u]
  <2>1. new = SetUp(ses, s, t, old, state)
    BY <1>7, <1>15
  <2>2. SetsUp(ses, SetUp(ses, s, t, old, state), s, t, state.streamToken, state.reply)
    BY <1>8, <1>14, SetupStates
  <2> QED BY <1>14, <2>1, <2>2 DEF SetsUp
<1>17. /\ DOMAIN newSub = Tracks /\ newSub[t] = GetStreamParameters(undone, t, s, target)
       /\ \A u \in Tracks \ {t} : newSub[u] = sub[u]
  BY <1>1, <1>2, <1>7, <1>15
<1>18. TracksGood(new, newSub)
  <2>1. ASSUME NEW u \in Tracks \ {t} PROVE Good(u, sub[u], HeldIn(ses, u))
    BY <1>1, <1>2 DEF TracksGood
  <2> QED BY <1>2, <1>13, <1>16, <1>17, <2>1 DEF TracksGood
<1>19. NotesGood(new, newDb)
  <2>1. newDb = NotedBySetup(db, s, t, old, d)
    BY <1>7, <1>15
  <2>2. NotesSetUp(ses, NotedBySetup(db, s, t, old, d), s, t, d)
    BY <1>3, <1>8, <1>9, SetupNotes
  <2> QED BY <1>16, <2>1, <2>2 DEF NotesGood, NotesSetUp
<1>20. IInv'
  BY <1>1, <1>15, <1>16, <1>18, <1>19 DEF IInv
<1>21. ASSUME NEW r \in Sessions, NEW u \in Tracks, Receiving(r, u), r # s \/ u # t
       PROVE  Receiving(r, u)'
  <2>1. PICK j : j = ses[r][u].streamToken
    OBVIOUS
  <2>2. r \in DOMAIN ses /\ Has(ses[r][u]) /\ Feeds(sub[u], r, j)
    BY <1>2, <1>21, <2>1, ReceivingFed DEF Fed
  <2>3. r \in DOMAIN new /\ new[r][u] = ses[r][u]
    BY <1>16, <1>21, <2>2
  <2>4. Feeds(newSub[u], r, j)
    <3>1. CASE u # t
      BY <1>17, <2>2, <3>1
    <3>2. CASE u = t
      <4>1. r \in DOMAIN held \ {s} /\ held[r] = j
        BY <1>2, <1>21, <2>1, <2>2, <3>2 DEF HeldIn
      <4> QED BY <1>2, <1>13, <1>17, <2>2, <3>2, <4>1
    <3> QED BY <3>1, <3>2
  <2>5. Fed(new, newSub, r, u)
    BY <2>1, <2>2, <2>3, <2>4 DEF Fed
  <2> QED BY <1>15, <2>5, ReceivingFedNext
<1> QED BY <1>20, <1>21 DEF NobodyElseStops

-----------------------------------------------------------------------------
(* Sessions give back tracks, gone[s] for session s: leaving[t] has the tokens
   that are given back for track t. *)
GivesBack(ses, new, sub, newSub, gone, leaving) ==
  /\ \A s \in DOMAIN ses : gone[s] \subseteq Tracks /\ \A t \in gone[s] : ses[s][t].subsession
  /\ DOMAIN new \subseteq DOMAIN ses
  /\ \A s \in DOMAIN ses \ DOMAIN new : Finished(TornDown(ses[s], gone[s]))
  /\ \A s \in DOMAIN new : new[s] = TornDown(ses[s], gone[s])
  /\ DOMAIN newSub = Tracks
  /\ \A t \in Tracks :
       /\ DOMAIN leaving[t] = {s \in DOMAIN ses : t \in gone[s]}
       /\ \A s \in DOMAIN leaving[t] : leaving[t][s] = ses[s][t].streamToken
       /\ \/ newSub[t] = DeleteStream(sub[t], leaving[t])
          \/ newSub[t] = sub[t] /\ DOMAIN leaving[t] = {}

(* The tracks that are not given back go on. *)
GoesOn(ses, new, sub, newSub, gone) ==
  /\ StatesGood(new) /\ TracksGood(new, newSub)
  /\ \A c \in Sockets : Records(new, c) = {r \in Records(ses, c) : r[2] \notin gone[r[1]]}
  /\ \A s \in DOMAIN ses, t \in Tracks :
       Fed(ses, sub, s, t) /\ t \notin gone[s] => Fed(new, newSub, s, t)

(* Tracks that are given back leave everything in order, and the others as they
   were. *)
LEMMA GivingBackKeeps ==
  ASSUME NEW ses, NEW new, NEW sub, NEW newSub, NEW gone, NEW leaving,
         StatesGood(ses), TracksGood(ses, sub),
         GivesBack(ses, new, sub, newSub, gone, leaving)
  PROVE  GoesOn(ses, new, sub, newSub, gone)
<1>1. /\ StatesGood(new)
      /\ \A s \in DOMAIN ses, t \in Tracks :
           /\ Has(ses[s][t]) /\ t \notin gone[s] <=> s \in DOMAIN new /\ Has(new[s][t])
           /\ Has(ses[s][t]) /\ t \notin gone[s] => new[s][t] = ses[s][t]
      /\ \A c \in Sockets : Records(new, c) = {r \in Records(ses, c) : r[2] \notin gone[r[1]]}
  BY StatesTornDown DEF GivesBack
<1>2. ASSUME NEW t \in Tracks
      PROVE  /\ Good(t, newSub[t], HeldIn(new, t))
             /\ \A s \in DOMAIN ses :
                  /\ Has(ses[s][t]) /\ t \notin gone[s]
                  /\ Feeds(sub[t], s, ses[s][t].streamToken)
                  => Feeds(newSub[t], s, ses[s][t].streamToken)
  <2>1. PICK m, n, held, left : /\ m = sub[t] /\ n = newSub[t]
                                /\ held = HeldIn(ses, t) /\ left = leaving[t]
    OBVIOUS
  <2>2. /\ DOMAIN left = {s \in DOMAIN ses : t \in gone[s]}
        /\ \A s \in DOMAIN left : left[s] = ses[s][t].streamToken /\ ses[s][t].subsession
        /\ n = DeleteStream(m, left) \/ (n = m /\ DOMAIN left = {})
    BY <2>1 DEF GivesBack
  <2>3. Good(t, m, held)
    BY <2>1 DEF TracksGood
  <2>4. /\ DOMAIN held = {s \in DOMAIN ses : Has(ses[s][t])}
        /\ \A s \in DOMAIN held : held[s] = ses[s][t].streamToken
        /\ held = [s \in DOMAIN held |-> held[s]]
    BY <2>1 DEF HeldIn
  <2>5. HeldIn(new, t) = Staying(held, left)
    <3>1. /\ DOMAIN new \subseteq DOMAIN ses
          /\ \A s \in DOMAIN ses :
               /\ Has(ses[s][t]) /\ s \notin DOMAIN left <=> s \in DOMAIN new /\ Has(new[s][t])
               /\ Has(ses[s][t]) /\ s \notin DOMAIN left => new[s][t] = ses[s][t]
      BY <1>1, <2>2 DEF GivesBack
    <3> QED BY <2>1, <3>1, HeldStaying
  <2>6. Leaves(left, held)
    BY <2>2, <2>4 DEF Leaves, Has
  <2>7. CASE n = DeleteStream(m, left)
    <3>1. /\ Good(t, n, Staying(held, left))
          /\ \A r \in DOMAIN held \ DOMAIN left : Feeds(m, r, held[r]) => Feeds(n, r, held[r])
      BY <2>3, <2>6, <2>7, DeleteGood
    <3>2. ASSUME NEW s \in DOMAIN ses, Has(ses[s][t]), t \notin gone[s]
          PROVE  s \in DOMAIN held \ DOMAIN left /\ held[s] = ses[s][t].streamToken
      BY <2>2, <2>4, <3>2
    <3> QED BY <2>1, <2>5, <3>1, <3>2
  <2>8. CASE n = m /\ DOMAIN left = {}
    <3>1. Staying(held, left) = held
      BY <2>4, <2>8 DEF Staying, Restrict
    <3> QED BY <2>1, <2>3, <2>5, <2>8, <3>1
  <2> QED BY <2>2, <2>7, <2>8
<1>3. TracksGood(new, newSub)
  BY <1>2 DEF TracksGood, GivesBack
<1>4. ASSUME NEW s \in DOMAIN ses, NEW t \in Tracks, Fed(ses, sub, s, t), t \notin gone[s]
      PROVE  Fed(new, newSub, s, t)
  BY <1>1, <1>2, <1>4 DEF Fed
<1> QED BY <1>1, <1>3, <1>4 DEF GoesOn

(* Unnoting takes the records of session s for the tracks out, and no others. *)
LEMMA UnnotingTakes ==
  ASSUME NEW ses, NEW db, StatesGood(ses), NotesGood(ses, db), NEW s \in DOMAIN ses,
         NEW tracks, tracks \subseteq Tracks, NEW c \in Sockets
  PROVE  UnnoteTCPStreaming(db, s, tracks, ses[s])[c]
           = SetToBag({r \in Records(ses, c) : ~(r[1] = s /\ r[2] \in tracks)})
<1>1. PICK A, B : /\ A = Records(ses, c)
                  /\ B = {<<s, t>> : t \in {u \in tracks : ses[s][u].tcpSocketNum = c}}
  OBVIOUS
<1>2. UnnoteTCPStreaming(db, s, tracks, ses[s])[c] = SetToBag(A) (-) SetToBag(B)
  BY <1>1 DEF UnnoteTCPStreaming, NotesGood
<1>3. ASSUME NEW r \in A PROVE r \in B <=> r[1] = s /\ r[2] \in tracks
  <2>1. /\ r = <<r[1], r[2]>> /\ r[2] \in Tracks /\ r[1] \in DOMAIN ses
        /\ Has(ses[r[1]][r[2]]) /\ ses[r[1]][r[2]].reply = c
    BY <1>1 DEF Records
  <2>2. ses[r[1]][r[2]].tcpSocketNum = c
    BY <2>1 DEF StatesGood
  <2> QED BY <1>1, <2>1, <2>2
<1>4. A \ B = {r \in A : ~(r[1] = s /\ r[2] \in tracks)}
  BY <1>3
<1> QED BY <1>1, <1>2, <1>4, UnnoteBag

(* A session that gives up no track has the states that it had. *)
LEMMA NothingTornDown ==
  ASSUME NEW ses, StatesGood(ses), NEW s \in DOMAIN ses
  PROVE  TornDown(ses[s], {}) = ses[s]
  BY DEF TornDown, StatesGood

(* TEARDOWN and the destructor: one session gives back tracks. *)
LEMMA SessionGivesBack ==
  ASSUME IInv, NEW s \in DOMAIN sessions, NEW tracks \in SUBSET Tracks,
         \A t \in tracks : sessions[s][t].subsession,
         open' = open, GiveBack(s, tracks),
         DOMAIN sessions' \union {s} = DOMAIN sessions,
         s \notin DOMAIN sessions' => Finished(TornDown(sessions[s], tracks)),
         s \in DOMAIN sessions' => sessions'[s] = TornDown(sessions[s], tracks),
         \A r \in DOMAIN sessions \ {s} : sessions'[r] = sessions[r]
  PROVE  /\ IInv'
         /\ \A r \in Sessions, u \in Tracks :
              Receiving(r, u) /\ ~(r = s /\ u \in tracks) => Receiving(r, u)'
<1>1. /\ open \subseteq Sockets
      /\ StatesGood(sessions) /\ TracksGood(sessions, subsession) /\ NotesGood(sessions, noted)
  BY DEF IInv
<1>2. PICK ses, new, sub, newSub, db, newDb :
        /\ ses = sessions /\ new = sessions' /\ sub = subsession /\ newSub = subsession'
        /\ db = noted /\ newDb = noted'
  OBVIOUS
<1>3. PICK gone, leaving :
        /\ gone = [r \in DOMAIN ses |-> IF r = s THEN tracks ELSE {}]
        /\ leaving = [t \in Tracks |-> IF t \in tracks THEN [x \in {s} |-> ses[s][t].streamToken]
                                       ELSE [x \in {} |-> NoStream]]
  OBVIOUS
<1>4. /\ DOMAIN gone = DOMAIN ses /\ s \in DOMAIN ses
      /\ \A r \in DOMAIN ses : gone[r] = IF r = s THEN tracks ELSE {}
  BY <1>2, <1>3
<1>5. GivesBack(ses, new, sub, newSub, gone, leaving)
  <2>1. \A r \in DOMAIN ses : gone[r] \subseteq Tracks /\ \A t \in gone[r] : ses[r][t].subsession
    BY <1>2, <1>4
  <2>2. ASSUME NEW r \in DOMAIN ses \ DOMAIN new PROVE Finished(TornDown(ses[r], gone[r]))
    BY <1>2, <1>4
  <2>3. ASSUME NEW r \in DOMAIN new PROVE new[r] = TornDown(ses[r], gone[r])
    <3>1. CASE r = s
      BY <1>2, <1>4, <3>1
    <3>2. CASE r # s
      <4>1. r \in DOMAIN ses /\ new[r] = ses[r] /\ gone[r] = {}
        BY <1>2, <1>4, <3>2
      <4> QED BY <1>1, <1>2, <4>1, NothingTornDown
    <3> QED BY <3>1, <3>2
  <2>4. DOMAIN newSub = Tracks
    BY <1>2 DEF GiveBack
  <2>5. ASSUME NEW t \in Tracks
        PROVE  /\ DOMAIN leaving[t] = {r \in DOMAIN ses : t \in gone[r]}
               /\ \A r \in DOMAIN leaving[t] : leaving[t][r] = ses[r][t].streamToken
               /\ \/ newSub[t] = DeleteStream(sub[t], leaving[t])
                  \/ newSub[t] = sub[t] /\ DOMAIN leaving[t] = {}
    <3>1. CASE t \in tracks
      <4>1. leaving[t] = [x \in {s} |-> ses[s][t].streamToken]
        BY <1>3, <3>1
      <4>2. newSub[t] = DeleteStream(sub[t], [x \in {s} |-> ses[s][t].streamToken])
        BY <1>2, <3>1 DEF GiveBack
      <4> QED BY <1>4, <3>1, <4>1, <4>2
    <3>2. CASE t \notin tracks
      <4>1. leaving[t] = [x \in {} |-> NoStream]
        BY <1>3, <3>2
      <4>2. newSub[t] = sub[t]
        BY <1>2, <3>2 DEF GiveBack
      <4> QED BY <1>4, <3>2, <4>1, <4>2
    <3> QED BY <3>1, <3>2
  <2>6. DOMAIN new \subseteq DOMAIN ses
    BY <1>2
  <2> QED BY <2>1, <2>2, <2>3, <2>4, <2>5, <2>6 DEF GivesBack
<1>6. GoesOn(ses, new, sub, newSub, gone)
  BY <1>1, <1>2, <1>5, GivingBackKeeps
<1>7. NotesGood(new, newDb)
  <2>1. newDb = UnnoteTCPStreaming(db, s, tracks, ses[s])
    BY <1>2 DEF GiveBack
  <2>2. DOMAIN newDb = Sockets
    BY <2>1 DEF UnnoteTCPStreaming
  <2>3. ASSUME NEW c \in Sockets PROVE newDb[c] = SetToBag(Records(new, c))
    <3>1. newDb[c] = SetToBag({r \in Records(ses, c) : ~(r[1] = s /\ r[2] \in tracks)})
      BY <1>1, <1>2, <1>4, <2>1, UnnotingTakes
    <3>2. \A r \in Records(ses, c) : r[1] \in DOMAIN ses
      BY DEF Records
    <3>3. {r \in Records(ses, c) : ~(r[1] = s /\ r[2] \in tracks)}
            = {r \in Records(ses, c) : r[2] \notin gone[r[1]]}
      BY <1>4, <3>2
    <3> QED BY <1>6, <3>1, <3>3 DEF GoesOn
  <2> QED BY <2>2, <2>3 DEF NotesGood
<1>8. IInv'
  BY <1>1, <1>2, <1>6, <1>7 DEF IInv, GoesOn
<1>9. ASSUME NEW r \in Sessions, NEW u \in Tracks, Receiving(r, u), ~(r = s /\ u \in tracks)
      PROVE  Receiving(r, u)'
  <2>1. Fed(ses, sub, r, u)
    BY <1>2, <1>9, ReceivingFed
  <2>2. r \in DOMAIN ses /\ u \notin gone[r]
    BY <1>4, <1>9, <2>1 DEF Fed
  <2>3. Fed(new, newSub, r, u)
    BY <1>6, <2>1, <2>2 DEF GoesOn
  <2> QED BY <1>2, <2>3, ReceivingFedNext
<1> QED BY <1>8, <1>9

(* TEARDOWN of some tracks, and of the session with the last of them. *)
LEMMA TeardownKeeps ==
  ASSUME IInv, NEW s \in Sessions, NEW selected \in Selections, Teardown(s, selected)
  PROVE  IInv' /\ NobodyElseStops
<1>1. PICK tracks : tracks = Usable(s, selected)
  OBVIOUS
<1>2. /\ s \in DOMAIN sessions /\ tracks \in SUBSET Tracks /\ tracks \subseteq selected
      /\ \A t \in tracks : sessions[s][t].subsession
  BY <1>1 DEF Teardown, Usable, Selections
<1>3. open' = open /\ GiveBack(s, tracks)
  BY <1>1 DEF Teardown
<1>4. PICK states : states = TornDown(sessions[s], tracks)
  OBVIOUS
<1>5. sessions' = IF Finished(states) THEN Without(sessions, s) ELSE [sessions EXCEPT ![s] = states]
  BY <1>1, <1>4 DEF Teardown
<1>6. /\ DOMAIN sessions' \union {s} = DOMAIN sessions
      /\ s \notin DOMAIN sessions' => Finished(states)
      /\ s \in DOMAIN sessions' => sessions'[s] = states
      /\ \A r \in DOMAIN sessions \ {s} : sessions'[r] = sessions[r]
  BY <1>2, <1>5 DEF Without, Restrict
<1>7. /\ IInv'
      /\ \A r \in Sessions, u \in Tracks :
           Receiving(r, u) /\ ~(r = s /\ u \in tracks) => Receiving(r, u)'
  BY <1>2, <1>3, <1>4, <1>6, SessionGivesBack
<1> QED BY <1>2, <1>7 DEF NobodyElseStops

(* The destructor of a session gives all its tracks back. *)
LEMMA EndSessionKeeps ==
  ASSUME IInv, NEW s \in Sessions, EndSession(s)
  PROVE  IInv' /\ NobodyElseStops
<1>1. PICK tracks : tracks = Usable(s, Tracks)
  OBVIOUS
<1>2. /\ s \in DOMAIN sessions /\ tracks \in SUBSET Tracks
      /\ \A t \in tracks : sessions[s][t].subsession
  BY <1>1 DEF EndSession, Usable
<1>3. open' = open /\ GiveBack(s, tracks) /\ sessions' = Without(sessions, s)
  BY <1>1 DEF EndSession
<1>4. Finished(TornDown(sessions[s], tracks))
  BY <1>1, <1>2 DEF Finished, TornDown, NewStates, Usable
<1>5. /\ DOMAIN sessions' \union {s} = DOMAIN sessions /\ s \notin DOMAIN sessions'
      /\ \A r \in DOMAIN sessions \ {s} : sessions'[r] = sessions[r]
  BY <1>2, <1>3 DEF Without, Restrict
<1>6. /\ IInv'
      /\ \A r \in Sessions, u \in Tracks :
           Receiving(r, u) /\ ~(r = s /\ u \in tracks) => Receiving(r, u)'
  BY <1>2, <1>3, <1>4, <1>5, SessionGivesBack
<1> QED BY <1>6 DEF NobodyElseStops

(* The end of a connection: the sessions that the database names for it give
   back the tracks whose packets went over it. *)
LEMMA ConnectionClosesKeeps ==
  ASSUME IInv, NEW c \in Sockets, ConnectionCloses(c)
  PROVE  IInv' /\ NobodyElseStops
<1>1. /\ open \subseteq Sockets /\ open' = open \ {c}
      /\ StatesGood(sessions) /\ TracksGood(sessions, subsession) /\ NotesGood(sessions, noted)
  BY DEF IInv, ConnectionCloses
<1>2. PICK ses, new, sub, newSub, db, newDb :
        /\ ses = sessions /\ new = sessions' /\ sub = subsession /\ newSub = subsession'
        /\ db = noted /\ newDb = noted'
  OBVIOUS
<1>3. PICK gone, leaving, touched :
        /\ gone = [s \in DOMAIN ses |-> {t \in Tracks : <<s, t>> \in Records(ses, c)}]
        /\ leaving = [t \in Tracks |-> [s \in {x \in DOMAIN ses : t \in gone[x]}
                                          |-> ses[s][t].streamToken]]
        /\ touched = {r[1] : r \in Records(ses, c)}
  OBVIOUS
<1>4. BagToSet(db[c]) = Records(ses, c)
  BY <1>1, <1>2 DEF NotesGood, SetToBag, BagToSet
<1>5. {r \in BagToSet(db[c]) : r[1] \in DOMAIN ses} = Records(ses, c)
  BY <1>4 DEF Records
<1>6. ASSUME NEW s \in DOMAIN ses
      PROVE  /\ gone[s] = {t \in Tracks : <<s, t>> \in Records(ses, c) /\ ses[s][t].subsession}
             /\ \A t \in gone[s] : ses[s][t].subsession /\ ses[s][t].reply = c
             /\ s \notin touched => gone[s] = {}
  <2>1. gone[s] = {t \in Tracks : <<s, t>> \in Records(ses, c)}
    BY <1>3
  <2>2. \A t \in Tracks : <<s, t>> \in Records(ses, c) => /\ ses[s][t].subsession
                                                         /\ ses[s][t].reply = c
    BY DEF Records, Has
  <2>3. \A t \in Tracks : <<s, t>> \in Records(ses, c) => s \in touched
    BY <1>3
  <2> QED BY <2>1, <2>2, <2>3
<1>7. /\ newDb = [db EXCEPT ![c] = EmptyBag]
      /\ newSub = [t \in Tracks |-> DeleteStream(sub[t], leaving[t])]
      /\ new = [s \in {x \in DOMAIN ses : x \in touched => ~Finished(TornDown(ses[x], gone[x]))}
                  |-> IF s \in touched THEN TornDown(ses[s], gone[s]) ELSE ses[s]]
  <2> DEFINE known == {r \in BagToSet(noted[c]) : r[1] \in DOMAIN sessions}
             ended(s) == {t \in Tracks : <<s, t>> \in known /\ sessions[s][t].subsession}
             left(t) == {s \in DOMAIN sessions : t \in ended(s)}
  <2>1. known = Records(ses, c)
    BY <1>2, <1>5
  <2>2. \A s \in DOMAIN ses : ended(s) = gone[s]
    BY <1>2, <1>6, <2>1
  <2>3. \A t \in Tracks : [s \in left(t) |-> sessions[s][t].streamToken] = leaving[t]
    <3>1. ASSUME NEW t \in Tracks PROVE left(t) = {x \in DOMAIN ses : t \in gone[x]}
      BY <1>2, <2>2
    <3> QED BY <1>2, <1>3, <3>1
  <2>4. /\ newDb = [db EXCEPT ![c] = EmptyBag]
        /\ newSub = [t \in Tracks |->
                       DeleteStream(sub[t], [s \in left(t) |-> sessions[s][t].streamToken])]
        /\ new = [s \in {x \in DOMAIN ses : x \in {r[1] : r \in known}
                                              => ~Finished(TornDown(ses[x], ended(x)))}
                    |-> IF s \in {r[1] : r \in known} THEN TornDown(ses[s], ended(s)) ELSE ses[s]]
    BY <1>2 DEF ConnectionCloses
  <2> HIDE DEF known, ended, left
  <2>5. {r[1] : r \in known} = touched
    BY <1>3, <2>1
  <2> QED BY <2>2, <2>3, <2>4, <2>5
<1>8. GivesBack(ses, new, sub, newSub, gone, leaving)
  <2>1. \A s \in DOMAIN ses : gone[s] \subseteq Tracks /\ \A t \in gone[s] : ses[s][t].subsession
    BY <1>6
  <2>2. ASSUME NEW s \in DOMAIN ses \ DOMAIN new PROVE Finished(TornDown(ses[s], gone[s]))
    BY <1>7
  <2>3. ASSUME NEW s \in DOMAIN new PROVE new[s] = TornDown(ses[s], gone[s])
    <3>1. CASE s \in touched
      BY <1>7, <3>1
    <3>2. CASE s \notin touched
      <4>1. s \in DOMAIN ses /\ gone[s] = {} /\ new[s] = ses[s]
        BY <1>6, <1>7, <3>2
      <4> QED BY <1>1, <1>2, <4>1, NothingTornDown
    <3> QED BY <3>1, <3>2
  <2>4. ASSUME NEW t \in Tracks
        PROVE  /\ DOMAIN leaving[t] = {s \in DOMAIN ses : t \in gone[s]}
               /\ \A s \in DOMAIN leaving[t] : leaving[t][s] = ses[s][t].streamToken
               /\ newSub[t] = DeleteStream(sub[t], leaving[t])
    BY <1>3, <1>7
  <2>5. DOMAIN new \subseteq DOMAIN ses /\ DOMAIN newSub = Tracks
    BY <1>7
  <2> QED BY <2>1, <2>2, <2>3, <2>4, <2>5 DEF GivesBack
<1>9. GoesOn(ses, new, sub, newSub, gone)
  BY <1>1, <1>2, <1>8, GivingBackKeeps
<1>10. NotesGood(new, newDb)
  <2>1. /\ DOMAIN db = Sockets /\ \A x \in Sockets : db[x] = SetToBag(Records(ses, x))
    BY <1>1, <1>2 DEF NotesGood
  <2>2. DOMAIN newDb = Sockets
    BY <1>7, <2>1
  <2>3. ASSUME NEW x \in Sockets PROVE newDb[x] = SetToBag(Records(new, x))
    <3>1. \A r \in Records(ses, x) : /\ r = <<r[1], r[2]>> /\ r[1] \in DOMAIN ses /\ r[2] \in Tracks
                                     /\ ses[r[1]][r[2]].reply = x
      BY DEF Records
    <3>2. Records(new, x) = {r \in Records(ses, x) : r[2] \notin gone[r[1]]}
      BY <1>9 DEF GoesOn
    <3>3. CASE x = c
      <4>1. \A r \in Records(ses, c) : r[2] \in gone[r[1]]
        BY <1>3, <3>1, <3>3
      <4>2. Records(new, x) = {}
        BY <3>2, <3>3, <4>1
      <4> QED BY <1>7, <2>1, <3>3, <4>2 DEF EmptyBag
    <3>4. CASE x # c
      <4>1. \A r \in Records(ses, x) : r[2] \notin gone[r[1]]
        BY <1>6, <3>1, <3>4
      <4>2. Records(new, x) = Records(ses, x)
        BY <3>2, <4>1
      <4> QED BY <1>7, <2>1, <3>4, <4>2
    <3> QED BY <3>3, <3>4
  <2> QED BY <2>2, <2>3 DEF NotesGood
<1>11. IInv'
  BY <1>1, <1>2, <1>9, <1>10 DEF IInv, GoesOn
<1>12. ASSUME NEW r \in Sessions, NEW u \in Tracks, Receiving(r, u), ~Receiving(r, u)'
       PROVE  sessions[r][u].reply = c
  <2>1. Fed(ses, sub, r, u)
    BY <1>2, <1>12, ReceivingFed
  <2>2. ~Fed(new, newSub, r, u)
    BY <1>2, <1>12, ReceivingFedNext
  <2>3. r \in DOMAIN ses /\ u \in gone[r]
    BY <1>9, <2>1, <2>2 DEF GoesOn, Fed
  <2> QED BY <1>2, <1>6, <2>3
<1>13. ASSUME NEW r \in Sessions, NEW u \in Tracks, Receiving(r, u), ~Receiving(r, u)'
       PROVE  ConnectionCloses(sessions[r][u].reply)
  BY <1>12, <1>13
<1> QED BY <1>11, <1>13 DEF NobodyElseStops

-----------------------------------------------------------------------------
(* A new server has no sessions, no streams and no notes. *)
LEMMA InitGood == Init => IInv
<1> SUFFICES ASSUME Init PROVE IInv
  OBVIOUS
<1>1. IsFiniteSet({})
  BY FS_EmptySet
<1>2. DOMAIN sessions = {} /\ DOMAIN Empty = {}
  BY DEF Init, Empty
<1>3. StatesGood(sessions)
  BY <1>1, <1>2 DEF StatesGood
<1>4. ASSUME NEW t \in Tracks PROVE Good(t, subsession[t], HeldIn(sessions, t))
  <2>1. PICK held, m : held = HeldIn(sessions, t) /\ m = subsession[t]
    OBVIOUS
  <2>2. DOMAIN held = {}
    BY <1>2, <2>1 DEF HeldIn
  <2>3. m = [streams |-> Empty, last |-> NoStream, destinations |-> Empty]
    BY <2>1 DEF Init
  <2>4. Good(t, m, held)
    BY <1>1, <1>2, <2>2, <2>3 DEF Good
  <2> QED BY <2>1, <2>4
<1>5. NotesGood(sessions, noted)
  <2>1. \A c \in Sockets : Records(sessions, c) = {}
    BY <1>2 DEF Records
  <2> QED BY <2>1 DEF NotesGood, Init, EmptyBag
<1> QED BY <1>3, <1>4, <1>5 DEF IInv, TracksGood, Init

(* Every step keeps the invariant and stops only whom it may. *)
LEMMA StepKeeps == IInv /\ [Next]_vars => IInv' /\ [NobodyElseStops]_vars
<1> SUFFICES ASSUME IInv, [Next]_vars PROVE IInv' /\ [NobodyElseStops]_vars
  OBVIOUS
<1>1. CASE UNCHANGED vars
  BY <1>1 DEF vars, IInv
<1>2. ASSUME NEW c \in Sockets, Accept(c) \/ ConnectionCloses(c) PROVE IInv' /\ NobodyElseStops
  BY <1>2, AcceptKeeps, ConnectionClosesKeeps
<1>3. ASSUME NEW s \in Sessions, Request(s) PROVE IInv' /\ NobodyElseStops
  <2>1. ASSUME NEW t \in Tracks, NEW d \in Sockets \union Endpoints, Setup(s, t, d)
        PROVE  IInv' /\ NobodyElseStops
    BY <2>1, SetupKeeps DEF Places
  <2>2. ASSUME NEW selected \in Selections, NEW seeks \in BOOLEAN, Play(s, selected, seeks)
        PROVE  IInv' /\ NobodyElseStops
    BY <2>2, PlayKeeps
  <2>3. ASSUME NEW selected \in Selections, Pause(s, selected) \/ Teardown(s, selected)
        PROVE  IInv' /\ NobodyElseStops
    BY <2>3, PauseKeeps, TeardownKeeps
  <2> QED BY <1>3, <2>1, <2>2, <2>3 DEF Request
<1>4. ASSUME NEW s \in Sessions, EndSession(s) PROVE IInv' /\ NobodyElseStops
  BY <1>4, EndSessionKeeps
<1>5. ASSUME NEW t \in Tracks, NEW i \in Streams(t), SourceEnds(t, i)
      PROVE  IInv' /\ NobodyElseStops
  BY <1>5, SourceEndsKeeps
<1> QED BY <1>1, <1>2, <1>3, <1>4, <1>5 DEF Next

(* Sessions, streams and the database agree in every reachable state. *)
THEOREM Invariance == Spec => []IInv
<1> QED BY InitGood, StepKeeps, PTL DEF Spec

-----------------------------------------------------------------------------
(* What the invariant says in the words of RTSPServer. *)

(* Records are what NotesMatch is about. *)
LEMMA RecordsAre ==
  ASSUME NEW c
  PROVE  Records(sessions, c)
           = {r \in Sessions \X Tracks : Holds(r[1], r[2]) /\ sessions[r[1]][r[2]].reply = c}
  BY DEF Records, Holds, Has

(* The state keeps its types. *)
THEOREM TypeCorrect == Spec => []TypeOK
<1>1. ASSUME IInv PROVE TypeOK
  <2>1. /\ open \subseteq Sockets /\ DOMAIN sessions \subseteq Sessions
        /\ \A s \in DOMAIN sessions : sessions[s] \in [Tracks -> StateType]
        /\ DOMAIN subsession = Tracks /\ DOMAIN noted = Sockets
    BY <1>1 DEF IInv, StatesGood, TracksGood, NotesGood
  <2>2. ASSUME NEW t \in Tracks
        PROVE  /\ Streams(t) \subseteq Nat \ {NoStream}
               /\ \A i \in Streams(t) : StreamOK(subsession[t].streams[i])
               /\ subsession[t].last \in Streams(t) \union {NoStream}
               /\ DOMAIN subsession[t].destinations \subseteq Sessions
               /\ \A s \in DOMAIN subsession[t].destinations :
                    subsession[t].destinations[s] \in Places
    <3>1. Good(t, subsession[t], HeldIn(sessions, t))
      BY <1>1 DEF IInv, TracksGood
    <3> QED BY <3>1 DEF Good, GoodStream, Streams
  <2>3. ASSUME NEW c \in Sockets
        PROVE  IsABag(noted[c]) /\ BagToSet(noted[c]) \subseteq Sessions \X Tracks
    <3>1. PICK A : A = Records(sessions, c)
      OBVIOUS
    <3>2. noted[c] = [e \in A |-> 1] /\ A \subseteq Sessions \X Tracks
      BY <1>1, <3>1 DEF IInv, NotesGood, SetToBag, Records
    <3> QED BY <3>2 DEF IsABag, BagToSet
  <2> QED BY <2>1, <2>2, <2>3 DEF TypeOK
<1> QED BY <1>1, Invariance, PTL

(* The reference count of a stream is the number of sessions that have its
   token, and no session is left with the token of a stream that is gone: what
   deleteStream() and every way to lose a session must see to. *)
THEOREM TokensAreCounted == Spec => []TokensCounted
<1>1. ASSUME IInv PROVE TokensCounted
  <2>1. ASSUME NEW t \in Tracks
        PROVE  /\ \A s \in Sessions : Holds(s, t) => sessions[s][t].streamToken \in Streams(t)
               /\ \A i \in Streams(t) :
                    subsession[t].streams[i].refs = Cardinality(Holders(t, i))
    <3>1. PICK held : held = HeldIn(sessions, t)
      OBVIOUS
    <3>2. Good(t, subsession[t], held) /\ DOMAIN sessions \subseteq Sessions
      BY <1>1, <3>1 DEF IInv, TracksGood, StatesGood
    <3>3. /\ DOMAIN held = {s \in DOMAIN sessions : Has(sessions[s][t])}
          /\ \A s \in DOMAIN held : held[s] = sessions[s][t].streamToken
      BY <3>1 DEF HeldIn
    <3>4. \A s : Holds(s, t) <=> s \in DOMAIN held
      BY <3>3 DEF Holds, Has
    <3>5. \A i : Holders(t, i) = Users(held, i)
      BY <3>2, <3>3, <3>4 DEF Holders, Users
    <3>6. \A s \in DOMAIN held : held[s] \in Streams(t)
      BY <3>2 DEF Good, Streams
    <3>7. \A i \in Streams(t) : subsession[t].streams[i].refs = Cardinality(Users(held, i))
      BY <3>2 DEF Good, GoodStream, Streams
    <3> QED BY <3>3, <3>4, <3>5, <3>6, <3>7
  <2> QED BY <2>1 DEF TokensCounted
<1> QED BY <1>1, Invariance, PTL

(* Packets go only to where a session that has the stream was last set up, and
   RTCP reports are credited to such a session. *)
THEOREM PacketsGoWhereSetUp == Spec => []OnlySetUpDestinations
<1>1. ASSUME IInv PROVE OnlySetUpDestinations
  <2>1. ASSUME NEW t \in Tracks, NEW i \in Streams(t)
        PROVE  /\ \A p \in subsession[t].streams[i].to :
                    /\ p[1] \in Holders(t, i)
                    /\ p[1] \in DOMAIN subsession[t].destinations
                    /\ subsession[t].destinations[p[1]] = p[2]
               /\ \A r \in DOMAIN subsession[t].streams[i].reports :
                    subsession[t].streams[i].reports[r] \in Holders(t, i)
    <3>1. PICK held : held = HeldIn(sessions, t)
      OBVIOUS
    <3>2. Good(t, subsession[t], held) /\ DOMAIN sessions \subseteq Sessions
      BY <1>1, <3>1 DEF IInv, TracksGood, StatesGood
    <3>3. Users(held, i) = Holders(t, i)
      BY <3>1, <3>2 DEF HeldIn, Users, Holders, Holds, Has
    <3>4. GoodStream(subsession[t].streams[i], Users(held, i), subsession[t].destinations)
      BY <3>2 DEF Good, Streams
    <3> QED BY <3>3, <3>4 DEF GoodStream
  <2> QED BY <2>1 DEF OnlySetUpDestinations
<1> QED BY <1>1, Invariance, PTL

(* The database of streams over TCP has each track that a client receives over a
   connection once, and nothing else: what the closing of a connection goes by. *)
THEOREM DatabaseMatches == Spec => []NotesMatch
<1>1. ASSUME IInv PROVE NotesMatch
  BY <1>1, RecordsAre DEF IInv, NotesGood, NotesMatch
<1> QED BY <1>1, Invariance, PTL

(* A track that reuses its first source never has two. *)
THEOREM SharedSourceIsOne == Spec => []OneSharedSource
<1>1. ASSUME IInv PROVE OneSharedSource
  <2>1. ASSUME NEW t \in Shared
        PROVE  Cardinality({i \in Streams(t) : ~subsession[t].streams[i].hollow}) <= 1
    <3>1. PICK A : A = {i \in Streams(t) : ~subsession[t].streams[i].hollow}
      OBVIOUS
    <3>2. Good(t, subsession[t], HeldIn(sessions, t))
      BY <1>1, TracksAssumption DEF IInv, TracksGood
    <3>3. A \subseteq {subsession[t].last}
      BY <3>1, <3>2 DEF Good, Streams
    <3>4. /\ IsFiniteSet({subsession[t].last}) /\ Cardinality({subsession[t].last}) = 1
      BY FS_Singleton
    <3>5. Cardinality(A) <= Cardinality({subsession[t].last})
      BY <3>3, <3>4, FS_Subset
    <3> QED BY <3>1, <3>4, <3>5
  <2> QED BY <2>1 DEF OneSharedSource
<1> QED BY <1>1, Invariance, PTL

(* A client's packets stop only by what it asks for, or by the end of its
   session, its connection or the source: no request of another client, and no
   PLAY, stops them. *)
THEOREM ClientsAreUndisturbed == Spec => Undisturbed
<1> QED BY InitGood, StepKeeps, Invariance, PTL DEF Spec, Undisturbed
=============================================================================
