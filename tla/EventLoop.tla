----------------------------- MODULE EventLoop -----------------------------
(***************************************************************************)
(* BasicTaskScheduler.cpp and BasicTaskScheduler0.cpp: the event loop.     *)
(*                                                                         *)
(* One round of it (SingleStep) calls the handler of one ready socket and  *)
(* that of one event trigger, each chosen by a round robin, and then a     *)
(* delayed task (see DelayQueue).  Whatever is called may change the       *)
(* handlers.  Events are also triggered by another thread; what a thread   *)
(* does to the mask of events is a read of it and a write of it.           *)
(***************************************************************************)
EXTENDS Integers, Sequences, SequencesExt

CONSTANTS
  NumSockets,   \* bound: sockets are numbered from 0
  Conditions,   \* SOCKET_READABLE, SOCKET_WRITABLE, SOCKET_EXCEPTION
  NumTriggers,  \* MAX_NUM_EVENT_TRIGGERS
  Scenarios     \* bound: a behaviour is about one of "sockets" and "triggers"

ASSUME NumbersAssumption == NumSockets \in Nat /\ NumTriggers \in Nat \ {0}
ASSUME ScenariosAssumption == Scenarios \subseteq {"sockets", "triggers"}

Sockets == 0..(NumSockets - 1)
Triggers == 0..(NumTriggers - 1)

VARIABLES
  scenario,     \* what this behaviour is about
  socks,        \* fHandlers, the fd_sets (as one set of pairs) and fMaxNumSockets
  lastSock,     \* fLastHandledSocketNum
  ready,        \* what select() would report, of what it is asked about
  used,         \* the triggers that have a handler
  awaiting,     \* fTriggersAwaitingHandling
  lastTrigger,  \* fLastUsedTriggerNum; fLastUsedTriggerMask always goes with it
  loop,         \* where the event loop is
  thread,       \* where the other thread is in triggerEvent
  owed          \* history: events triggered and not yet handled, given up or lost

socketVars == <<socks, lastSock, ready>>
triggerVars == <<used, awaiting, lastTrigger, owed>>
vars == <<scenario, socketVars, triggerVars, loop, thread>>

(* A read of the mask, for a write that clears some of it and sets some.      *)
Loaded(clear, set) == [at |-> "storing", seen |-> awaiting, clear |-> clear, set |-> set]

At(place) == [at |-> place, seen |-> {}, clear |-> {}, set |-> {}]

Init ==
  /\ scenario \in Scenarios
  /\ socks = [handlers |-> <<>>, fdSets |-> {}, max |-> 0]
  /\ lastSock = -1
  /\ ready = {}
  /\ used = {} /\ awaiting = {} /\ owed = {}
  /\ lastTrigger = NumTriggers - 1
  /\ loop = [step |-> At("sockets"), next |-> "sockets"]
  /\ thread = At("idle")

-----------------------------------------------------------------------------
(* Socket handlers.                                                        *)

(* A new handler goes to the head of the list. *)
AssignHandler(hs, s, conds) ==
  IF \E h \in Range(hs) : h.sock = s
  THEN [i \in DOMAIN hs |-> IF hs[i].sock = s THEN [hs[i] EXCEPT !.conds = conds] ELSE hs[i]]
  ELSE <<[sock |-> s, conds |-> conds]>> \o hs

ClearHandler(hs, s) == RemoveFirstMatch(hs, LAMBDA h : h.sock = s)

MoveHandler(hs, old, new) ==
  [i \in DOMAIN hs |-> IF hs[i].sock = old THEN [hs[i] EXCEPT !.sock = new] ELSE hs[i]]

(* Mutant: every socket that goes lowers the limit. *)
MaxLowered(max, s) == IF max > 0 THEN max - 1 ELSE max

(* fMaxNumSockets without socket s; other sockets may be left far below it.   *)
MaxWithout(max, s) == IF s + 1 = max THEN max - 1 ELSE max

MaxWith(max, s) == IF s + 1 > max THEN s + 1 ELSE max

SetBackgroundHandling(k, s, conds) ==
  LET others == {p \in k.fdSets : p[1] # s}
  IN IF conds = {}
     THEN [handlers |-> ClearHandler(k.handlers, s), fdSets |-> others,
           max |-> MaxWithout(k.max, s)]
     ELSE [handlers |-> AssignHandler(k.handlers, s, conds),
           fdSets |-> others \cup ({s} \X conds), max |-> MaxWith(k.max, s)]

MoveSocketHandling(k, old, new) ==
  [handlers |-> MoveHandler(k.handlers, old, new),
   fdSets |-> {IF p[1] = old THEN <<new, p[2]>> ELSE p : p \in k.fdSets},
   max |-> MaxWith(MaxWithout(k.max, old), new)]

(* What a handler or a task may do: nothing, turn a socket on or off, or move *)
(* a handler to a new socket, as NetInterface.cpp does.                       *)
SocketChanges ==
  {socks}
    \cup {SetBackgroundHandling(socks, s, conds) : s \in Sockets, conds \in SUBSET Conditions}
    \cup {MoveSocketHandling(socks, old, new) :
            old \in Sockets, new \in {s \in Sockets : \A h \in Range(socks.handlers) : h.sock # s}}

(* What select() reports: what is ready of that it looks at, or, when a       *)
(* signal interrupts it, its sets as they were (any other error is fatal).    *)
Reports == {{p \in ready \cap socks.fdSets : p[1] < socks.max}, socks.fdSets}

ResultConditionSet(h, reported) == {c \in h.conds : <<h.sock, c>> \in reported}

(* Mutant: every walk begins at the start. *)
WalkFromStart == socks.handlers

(* The order in which SingleStep looks at the handlers: those past the socket *)
(* handled last, when it still has a handler, and then all from the start.    *)
WalkOrder ==
  LET past == {i \in DOMAIN socks.handlers : socks.handlers[i].sock = lastSock}
  IN IF past = {} THEN socks.handlers
     ELSE SubSeq(socks.handlers, (CHOOSE i \in past : TRUE) + 1, Len(socks.handlers))
            \o socks.handlers

(* The first that is reported is called, and takes all that there is.         *)
HandleSocket ==
  /\ loop.step.at = "sockets"
  /\ \E reported \in Reports :
       LET found == SelectInSeq(WalkOrder, LAMBDA h : ResultConditionSet(h, reported) # {})
       IN IF found = 0 THEN lastSock' = -1 /\ UNCHANGED <<socks, ready>>
          ELSE LET h == WalkOrder[found]
                   taken == {h.sock} \X ResultConditionSet(h, reported)
               IN /\ lastSock' = h.sock
                  /\ socks' \in SocketChanges
                  /\ ready' = (ready \ taken) \cap socks'.fdSets
  /\ loop' = [loop EXCEPT !.step = At("triggers")]
  /\ UNCHANGED <<scenario, triggerVars, thread>>

(* The outside: data arrives, a connection is made, a buffer gets free.       *)
BecomesReady ==
  /\ \E p \in socks.fdSets \ ready : ready' = ready \cup {p}
  /\ UNCHANGED <<scenario, socks, lastSock, triggerVars, loop, thread>>

-----------------------------------------------------------------------------
(* Event triggers.                                                         *)

(* The numbers in the order of the round robins, the one used last at the end.*)
RoundRobin == [k \in 1..NumTriggers |-> (lastTrigger + k) % NumTriggers]

(* Mutant: the search begins at the first trigger. *)
Lowest(set) == CHOOSE e \in set : \A f \in set : e <= f

FirstOf(set) == RoundRobin[SelectInSeq(RoundRobin, LAMBDA e : e \in set)]

(* createEventTrigger; lastTrigger afterwards is the number that it returns.  *)
Create(then) ==
  /\ used # Triggers
  /\ used' = used \cup {FirstOf(Triggers \ used)}
  /\ loop' = [step |-> At(then), next |-> then]

(* The calls a handler or a task may make.  deleteEventTrigger and            *)
(* triggerEvent change the mask: they go on in Store.                         *)
DoNothing(then) == loop' = [step |-> At(then), next |-> then] /\ UNCHANGED used

ChangeMask(mask, then) ==
  /\ \E e \in used :
       \/ loop' = [step |-> [At("storing") EXCEPT !.seen = mask, !.clear = {e}], next |-> then]
       \/ loop' = [step |-> [At("storing") EXCEPT !.seen = mask, !.set = {e}], next |-> then]
  /\ UNCHANGED used

(* No event, or the read of the mask that clears the next one's bit.          *)
FindTrigger ==
  /\ loop.step.at = "triggers"
  /\ IF awaiting = {} THEN loop' = [loop EXCEPT !.step = At("alarm")]
     ELSE loop' = [step |-> Loaded({FirstOf(awaiting)}, {}), next |-> "call"]
  /\ UNCHANGED <<scenario, socketVars, triggerVars, thread>>

(* Bits that the other thread has set since the read are lost by this write.  *)
Lost(step) == awaiting \ step.seen

Stored(step) == (step.seen \ step.clear) \cup step.set

(* The write of the mask, and the call of the handler that it was for.  What  *)
(* the handler creates does not move the round robin, unless there was one    *)
(* event only, for the trigger used last.                                     *)
CallTrigger ==
  /\ loop.step.at = "storing" /\ loop.next = "call"
  /\ awaiting' = Stored(loop.step)
  /\ owed' = owed \ (Lost(loop.step) \cup loop.step.clear)
  /\ \E e \in loop.step.clear :
       IF e \notin used
       THEN lastTrigger' = e /\ DoNothing("alarm")
       ELSE \/ lastTrigger' = e /\ DoNothing("alarm")
            \/ lastTrigger' = e /\ ChangeMask(awaiting', "alarm")
            \/ /\ Create("alarm")
               /\ lastTrigger' \in {e} \cup (IF e = lastTrigger THEN used' \ used ELSE {})
  /\ UNCHANGED <<scenario, socketVars, thread>>

(* The write of the mask in deleteEventTrigger or triggerEvent.               *)
Store ==
  /\ loop.step.at = "storing" /\ loop.next # "call"
  /\ awaiting' = Stored(loop.step)
  /\ used' = used \ loop.step.clear
  /\ owed' = (owed \ (Lost(loop.step) \cup loop.step.clear)) \cup loop.step.set
  /\ loop' = [loop EXCEPT !.step = At(loop.next)]
  /\ UNCHANGED <<scenario, socketVars, lastTrigger, thread>>

(* The other thread calls triggerEvent: the read and then the write.          *)
ThreadTriggers ==
  /\ thread.at = "idle"
  /\ \E e \in used : thread' = Loaded({}, {e})
  /\ UNCHANGED <<scenario, socketVars, triggerVars, loop>>

ThreadStores ==
  /\ thread.at = "storing"
  /\ awaiting' = Stored(thread)
  /\ owed' = (owed \ Lost(thread)) \cup (thread.set \cap used)
  /\ thread' = At("idle")
  /\ UNCHANGED <<scenario, socketVars, used, lastTrigger, loop>>

-----------------------------------------------------------------------------
(* handleAlarm at the end of a round: some delayed task, or none.             *)
HandleAlarm ==
  /\ loop.step.at = "alarm"
  /\ \/ DoNothing("sockets") /\ UNCHANGED <<socketVars, triggerVars>>
     \/ /\ scenario = "sockets"
        /\ socks' \in SocketChanges
        /\ ready' = ready \cap socks'.fdSets
        /\ DoNothing("sockets")
        /\ UNCHANGED <<lastSock, awaiting, lastTrigger, owed>>
     \/ /\ scenario = "triggers"
        /\ \/ Create("sockets") /\ lastTrigger' \in used' \ used
           \/ ChangeMask(awaiting, "sockets") /\ UNCHANGED lastTrigger
        /\ UNCHANGED <<socketVars, awaiting, owed>>
  /\ UNCHANGED <<scenario, thread>>

LoopStep == HandleSocket \/ FindTrigger \/ CallTrigger \/ Store \/ HandleAlarm

Next == LoopStep \/ BecomesReady \/ ThreadTriggers \/ ThreadStores

(* doEventLoop goes round for ever. *)
Spec == Init /\ [][Next]_vars /\ WF_vars(LoopStep)

-----------------------------------------------------------------------------
(* Properties.                                                             *)

Steps == [at : {"sockets", "triggers", "storing", "alarm", "idle"},
          seen : SUBSET Triggers, clear : SUBSET Triggers, set : SUBSET Triggers]

(* Types; a socket has one handler, select() is asked for what the handlers   *)
(* are for, and about no socket beyond fMaxNumSockets.                        *)
TypeOK ==
  /\ socks.handlers \in BoundedSeq([sock : Sockets, conds : (SUBSET Conditions) \ {{}}], NumSockets)
  /\ IsInjective([i \in DOMAIN socks.handlers |-> socks.handlers[i].sock])
  /\ socks.fdSets = UNION {{h.sock} \X h.conds : h \in Range(socks.handlers)}
  /\ \A p \in socks.fdSets : p[1] < socks.max
  /\ socks.max \in 0..NumSockets
  /\ lastSock \in Sockets \cup {-1}
  /\ ready \subseteq socks.fdSets
  /\ used \subseteq Triggers /\ awaiting \subseteq Triggers /\ owed \subseteq used
  /\ lastTrigger \in Triggers
  /\ loop \in [step : Steps, next : {"sockets", "call", "alarm"}]
  /\ thread \in Steps

(* The socket handled last has no handler any more: the next walk begins at   *)
(* the start of the list, or just behind it when the socket is turned on      *)
(* again first.                                                               *)
LastHandledGone == lastSock # -1 /\ \A h \in Range(socks.handlers) : h.sock # lastSock

Waiting(s) == \E c \in Conditions : <<s, c>> \in ready

(* A socket that stays ready is handled in the end or turned off, whatever    *)
(* other handlers come, go and move meanwhile, as long as the one called last *)
(* is not turned off or moved for ever.                                       *)
ReadyHandled ==
  \/ []<>LastHandledGone
  \/ \A s \in Sockets : []<>~Waiting(s)

(* A triggered event is handled in the end, unless its trigger is deleted or  *)
(* a write of the mask by the other thread races with it, as long as triggers *)
(* are not created for ever, each creation moving the round robin on.         *)
EventsHandled ==
  \/ []<><<\E e \in Triggers : e \notin used /\ e \in used'>>_vars
  \/ \A e \in Triggers : []<>(e \notin owed)
=============================================================================
