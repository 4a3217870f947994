-------------------------- MODULE StreamReplicator --------------------------
(***************************************************************************)
(* StreamReplicator.cpp: one input source read by several replicas, each   *)
(* of them a FramedSource that a reader reads.                             *)
(*                                                                         *)
(* The first replica that asks for a frame is the master: the frame is     *)
(* read into its buffer and copied to the other active replicas as they    *)
(* ask for it; when all of them have it, the master gets it too.  A        *)
(* replica that already has the current frame waits for the next one.      *)
(*                                                                         *)
(* Everything runs in one thread, but it is reentrant: a reader that gets  *)
(* a frame, or is told of the end, may act on its replica at once, in the  *)
(* middle of the function that called it, and the source may answer a      *)
(* request before the request returns.  The functions are therefore cut    *)
(* where they call out, and what remains of them is kept on a stack.       *)
(***************************************************************************)
EXTENDS Integers, Sequences, SequencesExt, Functions

CONSTANTS
  Replicas,        \* names of replicas
  None,            \* a NULL StreamReplica*
  StopsInside      \* a reader that is called may stop or delete its replica even
                   \* when the function that called it has more to do

ASSUME NoneAssumption == None \notin Replicas
ASSUME StopsInsideAssumption == StopsInside \in BOOLEAN

VARIABLES
  replicator, \* the members of the StreamReplicator
  replica,    \* the replicas that exist
  asked,      \* the source is being read (isCurrentlyAwaitingData)
  stack,      \* calls in progress, innermost last
  gone,       \* the replicator has been deleted
  abandoned   \* ghost: a frame was lost with the master that held it

vars == <<replicator, replica, asked, stack, gone, abandoned>>

NotPlaying == -1

Alive == DOMAIN replica

Playing == {r \in Alive : replica[r].index # NotPlaying}

(* waits says that a reader awaits a frame of the replica.  Frames are told   *)
(* apart by their age, the number of frames that the source gave since:      *)
(* buffer is the age of the one in the replica's buffer, got of the one that *)
(* its reader got last since the replica started to play.                    *)
Older == 2       \* this old, or no frame at all

NewReplica == [index |-> NotPlaying, waits |-> FALSE, buffer |-> Older, got |-> Older]

Aged(age) == IF age < Older THEN age + 1 ELSE Older

Call(function) == [run |-> function, on |-> None]

Reader(r) == [run |-> "reader", on |-> r]

Caller == Front(stack)

Running(function) == stack # <<>> /\ Last(stack).run = function

(* The list without r, which stands in it once if at all. *)
Drop(list, r) ==
  IF \E i \in DOMAIN list : list[i] = r
  THEN RemoveAt(list, CHOOSE i \in DOMAIN list : list[i] = r)
  ELSE list

(* Mutant: the replica does not count as one that has the current frame. *)
Untoggled(index) == index

Toggled(index) == 1 - index

-----------------------------------------------------------------------------
Init ==
  /\ replicator = [master |-> None, current |-> <<>>, next |-> <<>>, active |-> 0,
                   deliveries |-> 0, index |-> 0, closed |-> FALSE, replicas |-> 0]
  /\ replica = [r \in {} |-> NewReplica]
  /\ asked = FALSE
  /\ stack = <<>>
  /\ gone = FALSE
  /\ abandoned = FALSE

CreateStreamReplica(r) ==
  /\ stack = <<>>
  /\ ~gone
  /\ r \notin Alive
  /\ replica' = [x \in Alive \union {r} |-> IF x = r THEN NewReplica ELSE replica[x]]
  /\ replicator' = [replicator EXCEPT !.replicas = @ + 1]
  /\ UNCHANGED <<asked, stack, gone, abandoned>>

(* The replicator once r asks: a replica that was not playing plays. *)
Activated(r) ==
  [replicator EXCEPT !.active = IF replica[r].index = NotPlaying THEN @ + 1 ELSE @]

IndexOf(r) ==
  IF replica[r].index = NotPlaying THEN replicator.index ELSE replica[r].index

BecomeMaster(r, callers) ==
  /\ replicator.master = None
  /\ replicator' = [Activated(r) EXCEPT !.master = r]
  /\ asked' = TRUE
  /\ stack' = Append(callers, Call("source"))

AwaitNextFrame(r, callers) ==
  /\ replicator.master # None
  /\ IndexOf(r) # replicator.index
  /\ replicator' = [Activated(r) EXCEPT !.next = <<r>> \o @]
  /\ stack' = callers
  /\ UNCHANGED asked

(* Mutant: the frame is delivered even while it is being read. *)
DeliverAnyway(callers) == Append(callers, Call("deliver"))

(* Mutant: a frame that has arrived waits for the next one to be delivered. *)
DeliverLater(callers) == callers

DeliverIfRead(callers) == IF asked THEN callers ELSE Append(callers, Call("deliver"))

AwaitCurrentFrame(r, callers) ==
  /\ replicator.master # None
  /\ IndexOf(r) = replicator.index
  /\ replicator' = [Activated(r) EXCEPT !.current = <<r>> \o @]
  /\ stack' = DeliverIfRead(callers)
  /\ UNCHANGED asked

(* The reader of r asks for a frame; the call returns to callers. *)
GetNextFrame(r, callers) ==
  /\ ~replica[r].waits
  /\ \/ /\ replicator.closed
        /\ stack' = Append(callers, Reader(r))
        /\ UNCHANGED <<replicator, replica, asked>>
     \/ /\ ~replicator.closed
        /\ replica' = [replica EXCEPT ![r].index = IndexOf(r), ![r].waits = TRUE]
        /\ \/ BecomeMaster(r, callers)
           \/ AwaitNextFrame(r, callers)
           \/ AwaitCurrentFrame(r, callers)
  /\ UNCHANGED <<gone, abandoned>>

(* Mutant: a delivery is taken back that was never counted. *)
FewerAlways(r) ==
  LET delivered == replica[r].index # replicator.index
  IN  [replicator EXCEPT !.active = @ - 1, !.deliveries = IF delivered THEN @ - 1 ELSE @]

(* The replicator once r plays no more: a delivery to it no longer counts.   *)
Fewer(r) ==
  LET delivered == replica[r].index # replicator.index /\ replicator.deliveries > 0
  IN  [replicator EXCEPT !.active = @ - 1, !.deliveries = IF delivered THEN @ - 1 ELSE @]

Successor == IF replicator.current = <<>> THEN None ELSE Head(replicator.current)

Succeeded(r) ==
  [Fewer(r) EXCEPT !.master = Successor, !.current = IF Successor = None THEN @ ELSE Tail(@)]

ReadAgain == asked /\ Successor # None

(* The first that waits for the current frame succeeds a master that leaves, *)
(* and a read in progress is begun anew.                                     *)
ReplaceMaster(r, callers) ==
  /\ replicator' = Succeeded(r)
  /\ asked' = ReadAgain
  /\ stack' = IF asked' THEN Append(callers, Call("source")) ELSE callers
  /\ abandoned' = (abandoned \/ (~asked /\ Successor = None))

(* ... or a frame that has been read is copied to it. *)
HandedOn(r) ==
  IF r \in Playing /\ replicator.master = r /\ ~asked /\ Successor # None
  THEN [replica EXCEPT ![Successor].buffer = replica[r].buffer]
  ELSE replica

(* Mutant: the replica stays in the list of those that wait for the next frame. *)
LeftCurrent(r) == [Fewer(r) EXCEPT !.current = Drop(@, r)]

Left(r) == [Fewer(r) EXCEPT !.current = Drop(@, r), !.next = Drop(@, r)]

(* All others may now have the current frame. *)
LeaveLists(r, callers) ==
  /\ replicator' = Left(r)
  /\ stack' = IF replicator.master = None THEN callers ELSE DeliverIfRead(callers)
  /\ UNCHANGED <<asked, abandoned>>

(* deactivateStreamReplica, but for its last line. *)
Deactivate(r, callers) ==
  LET after == Append(callers, Call("deactivated"))
  IN  \/ /\ r \notin Playing
         /\ stack' = callers
         /\ UNCHANGED <<replicator, asked, abandoned>>
      \/ r \in Playing /\ replicator.master = r /\ ReplaceMaster(r, after)
      \/ r \in Playing /\ replicator.master # r /\ LeaveLists(r, after)

StopGettingFrames(r, callers) ==
  /\ Deactivate(r, callers)
  /\ replica' = [HandedOn(r) EXCEPT ![r].index = NotPlaying, ![r].waits = FALSE, ![r].got = Older]
  /\ UNCHANGED gone

DeleteReplica(r, callers) ==
  /\ Deactivate(r, Append(callers, Call("removed")))
  /\ replica' = Restrict(HandedOn(r), Alive \ {r})
  /\ UNCHANGED gone

-----------------------------------------------------------------------------
(* A reader acts by itself, or once when it is called.  Whoever is told of   *)
(* the end does not ask again at once.                                       *)
ReaderActs(r) ==
  /\ stack = <<>>
  /\ r \in Alive
  /\ GetNextFrame(r, <<>>) \/ StopGettingFrames(r, <<>>) \/ DeleteReplica(r, <<>>)

ReaderAsksWhenCalled ==
  /\ Running("reader")
  /\ Last(stack).on \in Alive
  /\ ~replicator.closed
  /\ GetNextFrame(Last(stack).on, Caller)

ReaderStopsWhenCalled ==
  /\ Running("reader")
  /\ StopsInside \/ Caller = <<>>
  /\ Last(stack).on \in Alive
  /\ StopGettingFrames(Last(stack).on, Caller) \/ DeleteReplica(Last(stack).on, Caller)

Returns(function) ==
  /\ Running(function)
  /\ stack' = Caller
  /\ UNCHANGED <<replicator, replica, asked, gone, abandoned>>

ReaderReturns == Returns("reader")

(* The source gives a frame into the master's buffer, or comes to its end,   *)
(* at once or later.                                                         *)
AfterGettingFrame(callers) ==
  /\ asked' = FALSE
  /\ replica' = [r \in Alive |->
                   [replica[r] EXCEPT !.buffer = IF r = replicator.master THEN 0 ELSE Aged(@),
                                      !.got = Aged(@)]]
  /\ stack' = Append(callers, Call("deliver"))
  /\ UNCHANGED <<replicator, gone, abandoned>>

OnSourceClosure(callers) ==
  /\ asked' = FALSE
  /\ replicator' = [replicator EXCEPT !.closed = TRUE]
  /\ stack' = Append(callers, Call("close"))
  /\ UNCHANGED <<replica, gone, abandoned>>

SourceAnswers ==
  /\ stack = <<>>
  /\ asked
  /\ AfterGettingFrame(<<>>) \/ OnSourceClosure(<<>>)

SourceAnswersAtOnce ==
  /\ Running("source")
  /\ AfterGettingFrame(Caller) \/ OnSourceClosure(Caller)

SourceAnswersLater == Returns("source")

-----------------------------------------------------------------------------
(* onSourceClosure, from one call of a reader to the next. *)
CloseWaiting ==
  LET waiting == replicator.current \o replicator.next
      r       == Head(waiting)
  IN  /\ Running("close")
      /\ ~gone
      /\ waiting # <<>>
      /\ replicator' = [replicator EXCEPT !.current = Drop(@, r), !.next = Drop(@, r)]
      /\ replica' = [replica EXCEPT ![r].waits = FALSE]
      /\ stack' = Append(stack, Reader(r))
      /\ UNCHANGED <<asked, gone, abandoned>>

CloseMaster ==
  LET r == replicator.master
  IN  /\ Running("close")
      /\ ~gone
      /\ replicator.current \o replicator.next = <<>>
      /\ replicator' = [replicator EXCEPT !.master = None]
      /\ replica' = IF r = None THEN replica ELSE [replica EXCEPT ![r].waits = FALSE]
      /\ stack' = IF r = None THEN Caller ELSE Append(Caller, Reader(r))
      /\ UNCHANGED <<asked, gone, abandoned>>

(* deliverReceivedFrame: first the others that asked for this frame ... *)
DeliverToOther ==
  /\ Running("deliver")
  /\ ~gone
  /\ replicator.current # <<>>
  /\ LET r == Head(replicator.current)
     IN  /\ replicator' = [replicator EXCEPT !.current = Tail(@), !.deliveries = @ + 1]
         /\ replica' = [replica EXCEPT ![r].index = Toggled(@), ![r].waits = FALSE,
                                       ![r].buffer = replica[replicator.master].buffer,
                                       ![r].got = replica[replicator.master].buffer]
         /\ stack' = Append(stack, Reader(r))
  /\ UNCHANGED <<asked, gone, abandoned>>

AllOthersHaveIt == replicator.deliveries = replicator.active - 1 /\ replicator.master # None

(* ... then, when no more requests for it are expected, the master, which    *)
(* first hands its office to one that waits for the next frame ...           *)
DeliverToMaster ==
  /\ Running("deliver")
  /\ ~gone
  /\ replicator.current = <<>>
  /\ AllOthersHaveIt
  /\ LET r    == replicator.master
         more == replicator.next # <<>>
         todo == Append(Caller, [run |-> "complete", on |-> r])
     IN  /\ replica' = [replica EXCEPT ![r].index = Toggled(@)]
         /\ replicator' = [replicator EXCEPT !.index = Toggled(@), !.deliveries = 0,
                                             !.master = IF more THEN Head(replicator.next) ELSE None,
                                             !.next = IF more THEN Tail(@) ELSE @]
         /\ asked' = (asked \/ more)
         /\ stack' = IF more THEN Append(todo, Call("source")) ELSE todo
  /\ UNCHANGED <<gone, abandoned>>

(* ... and the others that waited for the next frame wait for the current.   *)
CompleteMaster ==
  /\ Running("complete")
  /\ ~gone
  /\ LET r == Last(stack).on
     IN  /\ replicator' = [replicator EXCEPT !.current = replicator.next, !.next = <<>>]
         /\ replica' = [replica EXCEPT ![r].waits = FALSE, ![r].got = replica[r].buffer]
         /\ stack' = Append(Caller, Reader(r))
  /\ UNCHANGED <<asked, gone, abandoned>>

Delivered ==
  /\ replicator.current = <<>>
  /\ ~AllOthersHaveIt
  /\ Returns("deliver")

(* The last lines of deactivateStreamReplica and of removeStreamReplica. *)
Deactivated ==
  /\ Running("deactivated")
  /\ ~gone
  /\ asked' = (asked /\ replicator.active > 0)
  /\ stack' = Caller
  /\ UNCHANGED <<replicator, replica, gone, abandoned>>

Removed ==
  /\ Running("removed")
  /\ ~gone
  /\ replicator' = [replicator EXCEPT !.replicas = @ - 1]
  /\ gone' = (replicator'.replicas = 0)
  /\ asked' = (asked /\ ~gone')
  /\ stack' = Caller
  /\ UNCHANGED <<replica, abandoned>>

(* What goes on by itself while calls are in progress. *)
Proceed ==
  \/ ReaderAsksWhenCalled \/ ReaderStopsWhenCalled \/ ReaderReturns
  \/ SourceAnswersAtOnce \/ SourceAnswersLater
  \/ CloseWaiting \/ CloseMaster
  \/ DeliverToOther \/ DeliverToMaster \/ CompleteMaster \/ Delivered
  \/ Deactivated \/ Removed

Next ==
  \/ \E r \in Replicas : CreateStreamReplica(r) \/ ReaderActs(r)
  \/ SourceAnswers
  \/ Proceed

Spec == Init /\ [][Next]_vars

(* Calls return; a reader that has its frame asks for the next one, stops or *)
(* goes away, and a source that is read answers, whatever others do.         *)
Fairness ==
  /\ WF_vars(Proceed)
  /\ SF_vars(SourceAnswers)
  /\ \A r \in Replicas : SF_vars(r \in Playing /\ ~replica[r].waits /\ ReaderActs(r))

FairSpec == Spec /\ Fairness

-----------------------------------------------------------------------------
ReplicaType ==
  [index : {NotPlaying, 0, 1}, waits : BOOLEAN, buffer : 0..Older, got : 0..Older]

Functions == {"reader", "source", "deliver", "complete", "close", "deactivated", "removed"}

TypeOK ==
  /\ Alive \subseteq Replicas
  /\ replica \in [Alive -> ReplicaType]
  /\ replicator.master \in Alive \union {None}
  /\ replicator.current \in Seq(Alive)
  /\ replicator.next \in Seq(Alive)
  /\ replicator.active = Cardinality(Playing)
  /\ replicator.deliveries \in Nat
  /\ replicator.index \in {0, 1}
  /\ replicator.closed \in BOOLEAN
  /\ replicator.replicas \in Nat
  /\ stack \in Seq([run : Functions, on : Replicas \union {None}])
  /\ {asked, gone, abandoned} \subseteq BOOLEAN

(* How often r stands somewhere to get a frame. *)
Places(r) ==
  Cardinality({i \in DOMAIN replicator.current : replicator.current[i] = r})
    + Cardinality({i \in DOMAIN replicator.next : replicator.next[i] = r})
    + Cardinality({i \in DOMAIN stack : stack[i] = [run |-> "complete", on |-> r]})
    + (IF replicator.master = r THEN 1 ELSE 0)

(* A replica that a reader awaits stands in one place where it will be       *)
(* served, and no other replica stands anywhere: a reader is called once for *)
(* each request, and no deleted replica is called.  While the source is read *)
(* there is a master, whose buffer takes the frame.                          *)
ServedOnce ==
  /\ \A r \in Alive : Places(r) = IF replica[r].waits THEN 1 ELSE 0
  /\ \A r \in Replicas \ Alive : Places(r) = 0
  /\ asked => replicator.master # None

Delivering ==
  Running("deliver") /\ (replicator.current # <<>> \/ AllOthersHaveIt)

(* StreamReplicator.cpp: the master has received its copy of the current     *)
(* frame when deliverReceivedFrame hands it to the others and completes the  *)
(* delivery to the master itself.                                            *)
MasterHasReceived ==
  Delivering => replicator.master # None /\ ~asked /\ replica[replicator.master].buffer = 0

(* A reader is only given frames later than the one that it got before: they *)
(* come in the order of the source, and none comes twice.                    *)
Given(r) ==
  \/ DeliverToOther /\ r = Head(replicator.current)
  \/ CompleteMaster /\ r = Last(stack).on

LaterFrame == \A r \in Alive : Given(r) => replica'[r].got < replica[r].got

FramesInOrder == [][LaterFrame]_vars

(* Every request is answered, by a frame or by the end of the source, unless *)
(* a frame was lost with its master.                                         *)
EveryRequestAnswered ==
  \A r \in Replicas :
    (r \in Alive /\ replica[r].waits) ~> (r \notin Alive \/ ~replica[r].waits \/ abandoned)
=============================================================================
