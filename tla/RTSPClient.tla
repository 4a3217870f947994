----------------------------- MODULE RTSPClient -----------------------------
(***************************************************************************)
(* RTSPClient.cpp: pipelined requests, the connection that they go over,   *)
(* and the responses.                                                      *)
(*                                                                         *)
(* A request waits in one queue until there is a connection and in another *)
(* until it is answered; its handler is to be called once.  Responses come *)
(* in any number at a time, the last one perhaps in part; they may ask for *)
(* authentication, redirect, or end the connection.  The server and the    *)
(* network are modelled by what the client has to expect of them.          *)
(***************************************************************************)
EXTENDS Integers, Sequences, SequencesExt

CONSTANTS
  MaxRequests,  \* bound: requests of the application
  MaxResends,   \* bound: responses that make the client send a request again
  MaxOdd        \* bound: mistakes of the server (see ServerIgnores, ServerRepeats)

ASSUME BoundsAssumption == MaxRequests \in Nat /\ MaxResends \in Nat /\ MaxOdd \in Nat

VARIABLES
  client,  \* the RTSPClient: see Init
  line,    \* the connection's two directions, and the mistakes of the server
  numbered, \* whether the server's responses have a CSeq
  told,    \* history: what the handler of each request was told
  forsaken \* history: requests whose handler may never be called, and why: see below

vars == <<client, line, numbered, told, forsaken>>

Ids == 1..MaxRequests

(* What one step works on. *)
World == [client |-> client, line |-> line, told |-> told, forsaken |-> forsaken]

Becomes(w) ==
  /\ client' = w.client /\ line' = w.line /\ told' = w.told /\ forsaken' = w.forsaken
  /\ UNCHANGED numbered

NoRequest == [id |-> 0, cseq |-> 0]

NoLine == [requests |-> <<>>, responses |-> <<>>, rest |-> FALSE, closed |-> FALSE]

Init ==
  /\ client = [made |-> 0,               \* requests of the application so far
               cseq |-> 1,               \* fCSeq
               socket |-> "none",        \* fInputSocketNum and fOutputSocketNum
               awaitingConnection |-> <<>>, awaitingResponse |-> <<>>,
               buffer |-> <<>>,          \* the responses in fResponseBuffer
               handling |-> FALSE]       \* in the loop of handleResponseBytes
  /\ numbered \in BOOLEAN
  /\ line = [requests |-> <<>>, responses |-> <<>>,
             rest |-> FALSE,             \* the rest of a response is to come first
             closed |-> FALSE,           \* the server has closed its end
             last |-> NoRequest,         \* the request that was answered last
             resends |-> 0, odd |-> 0]
  /\ told = [id \in Ids |-> <<>>]
  /\ forsaken = {}

IdsOf(requests) == {requests[k].id : k \in DOMAIN requests}

AnsweredBy(responses) == {responses[k].for : k \in DOMAIN responses}

-----------------------------------------------------------------------------
(* Operations of the client.                                               *)

Tell(w, request, what) == [w EXCEPT !.told[request.id] = Append(@, what)]

TellAll(w, requests, what) ==
  [w EXCEPT !.told = [id \in Ids |-> IF id \in IdsOf(requests) THEN Append(@[id], what) ELSE @[id]]]

Forsake(w, ids) == [w EXCEPT !.forsaken = @ \cup ids]

(* The response buffer stays as it is. *)
ResetTCPSockets(w) ==
  [w EXCEPT !.client.socket = "none", !.line = NoLine @@ @]

(* The end of sendRequest: send() succeeds, or fails. *)
Transmit(w, request) ==
  {[w EXCEPT !.client.awaitingResponse = Append(@, request),
             !.line.requests = Append(@, request)],
   Tell(w, request, "error")}

(* Requests wait for a response on sockets that are closed, or for a          *)
(* connection that was being made: nobody tells them.                         *)
Abandon(w) ==
  ResetTCPSockets(Forsake(w, IdsOf(w.client.awaitingConnection \o w.client.awaitingResponse)))

(* sendRequest with openConnection, which fails, succeeds or goes on.  Who    *)
(* queues up behind abandoned requests is abandoned too.                      *)
SendRequest(w, request) ==
  IF w.client.awaitingConnection # <<>>
  THEN {Forsake([w EXCEPT !.client.awaitingConnection = Append(@, request)],
                IF w.client.socket = "connecting" THEN {} ELSE {request.id})}
  ELSE IF w.client.socket = "none"
  THEN {Tell(ResetTCPSockets(w), request, "error"),
        [w EXCEPT !.client.socket = "connecting", !.client.awaitingConnection = <<request>>]}
       \cup Transmit([w EXCEPT !.client.socket = "open"], request)
  ELSE Transmit(w, request)

SendAll(w, requests) ==
  FoldLeft(LAMBDA worlds, request : UNION {SendRequest(v, request) : v \in worlds}, {w}, requests)

(* A command of the application, from a handler or from elsewhere. *)
Command ==
  /\ client.made < MaxRequests
  /\ LET request == [id |-> client.made + 1, cseq |-> client.cseq + 1]
     IN \E w \in SendRequest([World EXCEPT !.client.made = @ + 1, !.client.cseq = @ + 1], request) :
          Becomes(w)

(* connectionHandler1: the requests leave the queue before they are sent.     *)
Connected ==
  /\ client.socket = "connecting" /\ ~client.handling
  /\ \E w \in {[World EXCEPT !.client.socket = "open", !.client.awaitingConnection = <<>>]} :
       \E v \in SendAll(w, client.awaitingConnection) : Becomes(v)

(* Mutant: the requests are told, but stay in the queue. *)
ConnectionFailsKeeping ==
  /\ client.socket = "connecting" /\ ~client.handling
  /\ Becomes(TellAll(ResetTCPSockets(World), client.awaitingConnection, "error"))

ConnectionFails ==
  /\ client.socket = "connecting" /\ ~client.handling
  /\ LET w == [World EXCEPT !.client.awaitingConnection = <<>>]
     IN Becomes(TellAll(ResetTCPSockets(w), client.awaitingConnection, "error"))

(* Mutant: the requests that wait are dropped without a word. *)
ReadFailsSilently ==
  /\ client.socket = "open" /\ ~client.handling
  /\ LET w == [World EXCEPT !.client.buffer = <<>>, !.client.awaitingResponse = <<>>]
     IN Becomes(ResetTCPSockets(w))

(* handleResponseBytes when the socket could not be read. *)
ReadFails ==
  /\ client.socket = "open" /\ ~client.handling
  /\ LET w == [World EXCEPT !.client.buffer = <<>>, !.client.awaitingResponse = <<>>]
     IN Becomes(TellAll(ResetTCPSockets(w), client.awaitingResponse, "error"))

-----------------------------------------------------------------------------
(* handleResponseBytes: the responses that have been read.                 *)

(* The response in the buffer that is not complete. *)
Cut == client.buffer # <<>> /\ ~Last(client.buffer).whole

Completed(mixed) ==
  IF Cut THEN [client.buffer EXCEPT ![Len(client.buffer)].whole = TRUE,
                                    ![Len(client.buffer)].mixed = mixed]
  ELSE client.buffer

(* Some responses come, the last one perhaps in part when it has a body. *)
Arrivals ==
  LET came == line.responses
  IN {[new |-> SubSeq(came, 1, k), left |-> SubSeq(came, k + 1, Len(came)), rest |-> FALSE] :
        k \in 0..Len(came)}
     \cup
     {[new |-> Append(SubSeq(came, 1, k - 1), [came[k] EXCEPT !.whole = FALSE]),
       left |-> SubSeq(came, k + 1, Len(came)), rest |-> TRUE] :
        k \in {j \in DOMAIN came : came[j].body}}

Read(buffer, a) ==
  [World EXCEPT !.client.buffer = buffer, !.client.handling = buffer # <<>>,
                !.line.responses = a.left, !.line.rest = a.rest]

(* Normally what comes goes on from what is in the buffer.  But the start of  *)
(* a new connection is taken for the rest of a response that the last one left*)
(* in the buffer, and the rest of one that was thrown away spoils the next.   *)
IncomingData ==
  /\ client.socket = "open" /\ ~client.handling
  /\ \E a \in Arrivals :
       /\ a.new # <<>> \/ (Cut /\ line.rest)
       /\ Becomes(CASE Cut = line.rest -> Read(Completed(FALSE) \o a.new, a)
                   [] Cut /\ ~line.rest ->
                        Forsake(Read(Completed(TRUE) \o Tail(a.new), a), {Head(a.new).for})
                   [] ~Cut /\ line.rest ->
                        Forsake(Read(client.buffer, a), AnsweredBy(a.new)))

(* Mutant: a response is taken for the oldest request, whatever its CSeq. *)
NotBeforeAny(queue, cseq) == queue

(* The queue without the requests that were sent before the one with cseq. *)
NotBefore(queue, cseq) ==
  LET later == {k \in DOMAIN queue : queue[k].cseq >= cseq}
  IN IF later = {} THEN <<>> ELSE SubSeq(queue, CHOOSE k \in later : \A j \in later : k <= j, Len(queue))

Dequeue(queue, vain) ==
  IF queue = <<>> THEN [found |-> NoRequest, left |-> <<>>, vain |-> vain]
  ELSE [found |-> Head(queue), left |-> Tail(queue), vain |-> vain]

(* The request that a response is for: the one with its CSeq or else, without *)
(* a CSeq or when that request is gone, the first; in the last case the first *)
(* one has been taken from the queue in vain.                                 *)
FindRequest(queue, cseq) ==
  LET later == NotBefore(queue, cseq)
  IN IF cseq # 0 /\ later # <<>> /\ Head(later).cseq > cseq
     THEN Dequeue(Tail(later), {Head(later).id})
     ELSE Dequeue(later, {})

(* The response has a CSeq that no pending request has, lower than one that a *)
(* request has: it was given twice, or to a request that was dropped since.   *)
Unasked(queue, cseq) ==
  LET pending == {queue[k].cseq : k \in DOMAIN queue}
  IN cseq # 0 /\ cseq \notin pending /\ \E c \in pending : c > cseq

(* What a response tells the handler of the request it was found to be for.   *)
(* "doubtful": the client cannot know better, because the response is mixed   *)
(* with another, or has no CSeq after some request was left without an answer *)
(* or got two.  "unasked": it can, by the CSeq, but does not.                 *)
Outcome(request, response, unasked) ==
  CASE response.mixed -> "doubtful"
    [] response.for = request.id -> IF response.code = "useless" THEN "error" ELSE "answer"
    [] OTHER -> IF unasked THEN "unasked"
                ELSE IF ~numbered /\ (forsaken # {} \/ line.odd > 0) THEN "doubtful"
                ELSE "wrong"

(* A request is sent again: what else is in the buffer is thrown away.        *)
ResendCommand(w, request) ==
  UNION {SendRequest(v, [request EXCEPT !.cseq = v.client.cseq]) :
           v \in {[Forsake(w, AnsweredBy(w.client.buffer)) EXCEPT
                     !.client.buffer = <<>>, !.client.cseq = @ + 1, !.client.handling = FALSE]}}

(* After the response: the loop goes on when there are more, and the client   *)
(* could make use of this one.                                                *)
GoOn(w, useful) ==
  IF useful THEN [w EXCEPT !.client.handling = w.client.buffer # <<>>]
  ELSE Forsake([w EXCEPT !.client.handling = FALSE], AnsweredBy(w.client.buffer))

(* The headers of a response: who it is for, and Connection: Close. *)
ReadHeaders(w, response) ==
  LET f == FindRequest(w.client.awaitingResponse, response.cseq)
      v == Forsake([w EXCEPT !.client.awaitingResponse = f.left],
                   f.vain \cup ({response.for} \ {f.found.id}))
  IN [found |-> f.found,
      unasked |-> Unasked(w.client.awaitingResponse, response.cseq),
      world |-> IF response.close THEN Abandon(v) ELSE v]

(* The response is not complete: its request goes back to the head.           *)
AwaitRest ==
  /\ client.handling /\ ~Head(client.buffer).whole
  /\ LET response == Head(client.buffer)
     IN \E r \in {ReadHeaders(World, response)} :
          LET request == IF r.found = NoRequest THEN <<>> ELSE <<r.found>>
              w == [r.world EXCEPT !.client.awaitingResponse = request \o @,
                                   !.client.handling = FALSE]
          IN Becomes(IF response.close THEN Forsake(w, IdsOf(request)) ELSE w)

(* The handler is called, or the request sent again, here or elsewhere. *)
Handled(w, request, response, unasked) ==
  CASE response.code = "unauthorized" -> ResendCommand(w, request)
    [] response.code = "redirect" -> ResendCommand(Abandon(w), request)
    [] OTHER -> {GoOn(Tell(w, request, Outcome(request, response, unasked)),
                      response.code # "useless")}

HandleResponse ==
  /\ client.handling /\ Head(client.buffer).whole
  /\ LET response == Head(client.buffer)
     IN \E r \in {ReadHeaders([World EXCEPT !.client.buffer = Tail(@)], response)} :
          \E w \in IF r.found = NoRequest THEN {GoOn(r.world, TRUE)}
                   ELSE Handled(r.world, r.found, response, r.unasked) :
            Becomes(w)

-----------------------------------------------------------------------------
(* The server.                                                             *)

Response(request, kind) ==
  kind @@ [for |-> request.id, cseq |-> IF numbered THEN request.cseq ELSE 0,
           whole |-> TRUE, mixed |-> FALSE]

Resending == {"unauthorized", "redirect"}

(* What a response may say; only what is asked for comes with a body. *)
Kinds ==
  {k \in [code : {"given", "useless"} \cup Resending, body : BOOLEAN, close : BOOLEAN] :
     k.body => k.code = "given"}

(* Requests are answered in order: with what is asked for or an error that is *)
(* passed on ("given"), in a way the client cannot use, or with 401 or 302.   *)
(* After Connection: Close, nothing follows.  What the server does while the  *)
(* client handles responses, it might as well do before or after.             *)
ServerAnswers ==
  /\ line.requests # <<>> /\ ~line.closed /\ ~client.handling
  /\ LET request == Head(line.requests)
     IN \E kind \in Kinds :
          /\ kind.code \in Resending => line.resends < MaxResends
          /\ line' = [line EXCEPT !.responses = Append(@, Response(request, kind)),
                                  !.requests = Tail(@),
                                  !.closed = kind.close, !.last = request,
                                  !.resends = IF kind.code \in Resending THEN @ + 1 ELSE @]
  /\ UNCHANGED <<client, numbered, told, forsaken>>

(* "The server did not respond to our request". *)
ServerIgnores ==
  /\ line.odd < MaxOdd /\ line.requests # <<>> /\ ~line.closed /\ ~client.handling
  /\ line' = [line EXCEPT !.requests = Tail(@), !.odd = @ + 1]
  /\ forsaken' = forsaken \cup {Head(line.requests).id}
  /\ UNCHANGED <<client, numbered, told>>

(* "No handler was registered for this response". *)
ServerRepeats ==
  /\ line.odd < MaxOdd /\ client.socket = "open" /\ ~line.closed /\ ~client.handling
  /\ line.last # NoRequest
  /\ line' = [line EXCEPT !.odd = @ + 1,
                !.responses = Append(@, Response(line.last, [code |-> "given", body |-> FALSE,
                                                             close |-> FALSE]))]
  /\ UNCHANGED <<client, numbered, told, forsaken>>

-----------------------------------------------------------------------------
Connecting == Connected \/ ConnectionFails

Responding == IncomingData \/ AwaitRest \/ HandleResponse

Next ==
  \/ Command \/ Connecting \/ ReadFails \/ Responding
  \/ ServerAnswers \/ ServerIgnores \/ ServerRepeats

(* The event loop calls the handlers of sockets that are ready, a connection  *)
(* is made or fails in the end, a server answers what it does not ignore, and *)
(* the client finds out when the server has closed the connection.            *)
Fairness ==
  /\ WF_vars(Connecting) /\ WF_vars(Responding) /\ WF_vars(ServerAnswers)
  /\ WF_vars(line.closed /\ ReadFails)

Spec == Init /\ [][Next]_vars /\ Fairness

-----------------------------------------------------------------------------
(* Properties.                                                             *)

Requests == [id : Ids, cseq : 2..(MaxRequests + MaxResends + 1)]

Queues == {client.awaitingConnection, client.awaitingResponse}

(* Types; a request is in one queue at most, and only abandoned ones wait for *)
(* a connection when none is being made.                                      *)
TypeOK ==
  /\ client.made \in 0..MaxRequests
  /\ client.cseq \in (1 + client.made)..(1 + client.made + line.resends)
  /\ line.resends \in 0..MaxResends /\ line.odd \in 0..MaxOdd
  /\ client.socket \in {"none", "connecting", "open"}
  /\ \A q \in Queues : Range(q) \subseteq Requests
  /\ IsInjective([k \in DOMAIN (client.awaitingConnection \o client.awaitingResponse) |->
                   (client.awaitingConnection \o client.awaitingResponse)[k].id])
  /\ client.socket = "connecting" => client.awaitingConnection # <<>>
  /\ client.socket # "connecting" => IdsOf(client.awaitingConnection) \subseteq forsaken
  /\ client.handling => client.buffer # <<>>
  /\ \A k \in DOMAIN client.buffer : client.buffer[k].whole \/ k = Len(client.buffer)
  /\ Range(line.requests) \subseteq Requests
  /\ forsaken \subseteq Ids

(* No handler is called twice, or while its request is still queued, and none *)
(* is told what was said of another request, with two exceptions.  A response *)
(* that is mixed, or one without CSeq after the server has left a request out *)
(* or answered one twice, may be told to the wrong handler: the client cannot *)
(* know better.  And a response whose CSeq no pending request has, which the  *)
(* comment at RTSPClient.cpp:1710 says is ignored, is not: the first request  *)
(* with a higher number is dropped, and the next one is told (line 1774).     *)
AnswersRight ==
  \A id \in Ids :
    /\ told[id] \in {<<>>} \cup {<<what>> : what \in {"error", "answer", "doubtful", "unasked"}}
    /\ told[id] # <<>> => \A q \in Queues : id \notin IdsOf(q)

(* Every request's handler is called in the end, unless the request has been  *)
(* forsaken: the server ignored it or answered another in its place, or it    *)
(* was waiting for its response when another response closed the sockets,     *)
(* lay behind one in the buffer that was useless or made the client resend,   *)
(* or was itself cut by the close, or completed another.                      *)
EveryRequestTold ==
  \A id \in Ids : client.made >= id ~> told[id] # <<>> \/ id \in forsaken
=============================================================================
