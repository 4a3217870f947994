----------------------------- MODULE DelayQueue -----------------------------
(***************************************************************************)
(* The queue of delayed tasks of the event loop: DelayQueue.cpp and the    *)
(* part of BasicTaskScheduler0.cpp that schedules, cancels and runs tasks. *)
(*                                                                         *)
(* The alarms stand in a list sorted by due time and each one stores only  *)
(* the time that separates it from the alarm before it, so that the        *)
(* passing of time touches a prefix of the list.  Times are differences    *)
(* (one unit stands for a microsecond); the sentinel that ends the list,   *)
(* whose delta is ETERNITY (68 years), is the end of the sequence.         *)
(***************************************************************************)
EXTENDS Integers, Sequences, Functions

CONSTANTS
  Delays,      \* the delays that tasks are scheduled with
  MaxTokens,   \* bound: tasks scheduled or rescheduled in a behaviour
  MaxLag,      \* bound: time between two synchronizations
  MaxBack      \* bound: total time by which the system clock is set back

ASSUME DelaysAssumption == Delays \subseteq Nat
ASSUME BoundsAssumption == MaxTokens \in Nat /\ MaxLag \in Nat /\ MaxBack \in Nat

VARIABLES
  queue,       \* the list: records of a token and fDeltaTimeRemaining
  lag,         \* the system clock minus fLastSyncTime
  tokenCounter,
  running,     \* tokens whose handler is on the call stack, innermost last
  left,        \* ghost: for each queued token, its delay minus the true time since
  since,       \* ghost: for each queued token, when its delay was set
  stamps,      \* ghost: how many delays were ever set
  lost         \* ghost: total time by which the system clock was set back

vars == <<queue, lag, tokenCounter, running, left, since, stamps, lost>>

Tokens == 1..MaxTokens

Entry == [token : Tokens, delta : Nat]

TokensIn(q) == {q[i].token : i \in DOMAIN q}

Queued == TokensIn(queue)

(***************************************************************************)
(* The list and its walks.  Prefix(q)[i] is the time until entry i is due, *)
(* and Passed(q, t) the number of entries that the loops of addEntry and   *)
(* synchronize step over when they start with the time t.                  *)
(***************************************************************************)
Prefix(q) ==
  LET sum[i \in 0..Len(q)] == IF i = 0 THEN 0 ELSE sum[i-1] + q[i].delta
  IN  sum

(* Mutant: the walk stops before an entry due at the same time. *)
PassedStrictly(q, t) ==
  CHOOSE k \in 0..Len(q) :
    /\ \A j \in 1..k : Prefix(q)[j] < t
    /\ k < Len(q) => Prefix(q)[k+1] >= t

Passed(q, t) ==
  CHOOSE k \in 0..Len(q) :
    /\ \A j \in 1..k : Prefix(q)[j] <= t
    /\ k < Len(q) => Prefix(q)[k+1] > t

WithDelta(entry, d) == [token |-> entry.token, delta |-> d]

(* The sentinel's own delta is not kept: an i beyond the list changes nothing. *)
Shorten(q, i, d) ==
  [j \in 1..Len(q) |-> WithDelta(q[j], IF j = i THEN q[j].delta - d ELSE q[j].delta)]

(* Mutant: the entry behind the new one keeps its delta. *)
InsertOnly(q, token, delay) ==
  LET k == Passed(q, delay)
  IN  Append(SubSeq(q, 1, k), [token |-> token, delta |-> delay - Prefix(q)[k]])
        \o SubSeq(q, k+1, Len(q))

Insert(q, token, delay) ==
  LET k    == Passed(q, delay)
      d    == delay - Prefix(q)[k]
      rest == Shorten(q, k + 1, d)
  IN  Append(SubSeq(rest, 1, k), [token |-> token, delta |-> d]) \o SubSeq(rest, k+1, Len(q))

(* Mutant: the delta of the removed entry is lost. *)
RemoveOnly(q, i) == SubSeq(q, 1, i-1) \o SubSeq(q, i+1, Len(q))

RemoveEntry(q, i) ==
  LET rest == Shorten(q, i + 1, - q[i].delta)
  IN  SubSeq(rest, 1, i-1) \o SubSeq(rest, i+1, Len(q))

(* Mutant: the first entry not yet due loses all of the time that passed. *)
ElapseTwice(q, t) ==
  LET k    == Passed(q, t)
      rest == Shorten(q, k + 1, t)
  IN  [j \in 1..Len(q) |-> IF j <= k THEN WithDelta(q[j], 0) ELSE rest[j]]

Elapse(q, t) ==
  LET k    == Passed(q, t)
      rest == Shorten(q, k + 1, t - Prefix(q)[k])
  IN  [j \in 1..Len(q) |-> IF j <= k THEN WithDelta(q[j], 0) ELSE rest[j]]

(* Mutant: the clock's jump counts as elapsed time, whatever its sign. *)
SynchronizedAnyway == Elapse(queue, IF lag < 0 THEN -lag ELSE lag)

(* The list after synchronize(): a clock that went back changes no entry. *)
Synchronized == IF lag < 0 THEN queue ELSE Elapse(queue, lag)

HeadIsDue(q) == q # <<>> /\ q[1].delta = 0

(* timeToNextAlarm and handleAlarm skip synchronize() when the head is due. *)
Refreshed == IF HeadIsDue(queue) THEN queue ELSE Synchronized

RefreshedLag == IF HeadIsDue(queue) THEN lag ELSE 0

-----------------------------------------------------------------------------
Init ==
  /\ queue = <<>>
  /\ lag = 0
  /\ tokenCounter = 0
  /\ running = <<>>
  /\ left = [t \in {} |-> 0]
  /\ since = [t \in {} |-> 0]
  /\ stamps = 0
  /\ lost = 0

AddEntry(q, token, delay) ==
  /\ stamps < MaxTokens
  /\ stamps' = stamps + 1
  /\ queue' = Insert(q, token, delay)
  /\ lag' = 0
  /\ left' = [t \in TokensIn(queue') |-> IF t = token THEN delay ELSE left[t]]
  /\ since' = [t \in TokensIn(queue') |-> IF t = token THEN stamps ELSE since[t]]

ScheduleDelayedTask(delay) ==
  /\ tokenCounter' = tokenCounter + 1
  /\ AddEntry(Synchronized, tokenCounter', delay)
  /\ UNCHANGED <<running, lost>>

Drop(token) ==
  /\ left' = Restrict(left, Queued \ {token})
  /\ since' = Restrict(since, Queued \ {token})

(* A token that is no longer in the list is not found, and nothing happens. *)
UnscheduleDelayedTask(i) ==
  /\ queue' = RemoveEntry(queue, i)
  /\ Drop(queue[i].token)
  /\ UNCHANGED <<lag, tokenCounter, running, stamps, lost>>

(* updateEntry removes the entry before the insertion synchronizes. *)
UpdateEntry(i, delay) ==
  LET removed == RemoveEntry(queue, i)
  IN  /\ AddEntry(IF lag < 0 THEN removed ELSE Elapse(removed, lag), queue[i].token, delay)
      /\ UNCHANGED <<tokenCounter, running, lost>>

(* SingleStep asks how long select() may sleep. *)
TimeToNextAlarm ==
  /\ queue' = Refreshed
  /\ lag' = RefreshedLag
  /\ UNCHANGED <<tokenCounter, running, left, since, stamps, lost>>

(* Mutant: the entry stays in the list while its handler runs. *)
HandleBeforeUnlink ==
  /\ lag' = RefreshedLag
  /\ queue' = Refreshed
  /\ running' = IF HeadIsDue(Refreshed) THEN Append(running, Refreshed[1].token) ELSE running
  /\ UNCHANGED <<tokenCounter, left, since, stamps, lost>>

(* Mutant: the alarm is handled only where synchronize() was called just before. *)
HandleIfSynchronized ==
  /\ lag' = RefreshedLag
  /\ IF ~HeadIsDue(queue) /\ HeadIsDue(Synchronized)
     THEN /\ queue' = RemoveEntry(Synchronized, 1)
          /\ running' = Append(running, Synchronized[1].token)
          /\ Drop(Synchronized[1].token)
     ELSE /\ queue' = Refreshed
          /\ UNCHANGED <<running, left, since>>
  /\ UNCHANGED <<tokenCounter, stamps, lost>>

(* SingleStep's last act: at most one alarm, unlinked before its handler runs. *)
HandleAlarm ==
  /\ lag' = RefreshedLag
  /\ IF HeadIsDue(Refreshed)
     THEN /\ queue' = RemoveEntry(Refreshed, 1)
          /\ running' = Append(running, Refreshed[1].token)
          /\ Drop(Refreshed[1].token)
     ELSE /\ queue' = Refreshed
          /\ UNCHANGED <<running, left, since>>
  /\ UNCHANGED <<tokenCounter, stamps, lost>>

(* AlarmHandler::handleTimeout deletes the entry once the task has run. *)
HandlerReturns ==
  /\ running # <<>>
  /\ running' = SubSeq(running, 1, Len(running) - 1)
  /\ UNCHANGED <<queue, lag, tokenCounter, left, since, stamps, lost>>

Tick ==
  /\ lag < MaxLag
  /\ lag' = lag + 1
  /\ left' = [t \in Queued |-> left[t] - 1]
  /\ UNCHANGED <<queue, tokenCounter, running, since, stamps, lost>>

ClockSetBack(b) ==
  /\ lost + b <= MaxBack
  /\ lost' = lost + b
  /\ lag' = lag - b
  /\ UNCHANGED <<queue, tokenCounter, running, left, since, stamps>>

Next ==
  \/ \E delay \in Delays : ScheduleDelayedTask(delay)
  \/ \E i \in DOMAIN queue : UnscheduleDelayedTask(i)
  \/ \E i \in DOMAIN queue, delay \in Delays : UpdateEntry(i, delay)
  \/ TimeToNextAlarm
  \/ HandleAlarm
  \/ HandlerReturns
  \/ Tick
  \/ \E b \in 1..MaxBack : ClockSetBack(b)

Spec == Init /\ [][Next]_vars

(* The event loop keeps stepping, tasks return, and time passes. *)
Fairness ==
  /\ WF_vars(TimeToNextAlarm)
  /\ WF_vars(HandleAlarm)
  /\ WF_vars(HandlerReturns)
  /\ WF_vars(Tick)

FairSpec == Spec /\ Fairness

-----------------------------------------------------------------------------
TypeOK ==
  /\ queue \in Seq(Entry)
  /\ lag \in Int
  /\ tokenCounter \in 0..MaxTokens
  /\ running \in Seq(Tokens)
  /\ left \in [Queued -> Int]
  /\ since \in [Queued -> Nat]
  /\ stamps \in tokenCounter..MaxTokens
  /\ lost \in Nat

Positive(n) == IF n > 0 THEN n ELSE 0

(* An alarm is in the list once, under a token that was issued, and an      *)
(* alarm whose handler is running is in the list no more: a task that       *)
(* cancels itself (unscheduleDelayedTask from its own handler) frees        *)
(* nothing, and handleTimeout's "delete this" is the only one.              *)
Linked ==
  /\ \A i, j \in DOMAIN queue : queue[i].token = queue[j].token => i = j
  /\ \A i, j \in DOMAIN running : running[i] = running[j] => i = j
  /\ \A i \in DOMAIN running : running[i] \notin Queued /\ running[i] <= tokenCounter
  /\ \A i \in DOMAIN queue : queue[i].token <= tokenCounter

(* The deltas never make an alarm early: the time the list still gives an   *)
(* alarm, less the time since the last synchronize(), is never shorter      *)
(* than what is left of the delay its caller asked for.                     *)
NeverEarly ==
  \A i \in DOMAIN queue :
    left[queue[i].token] <= Prefix(queue)[i] - Positive(lag)

(* ... and it is late by no more than the system clock was set back.        *)
NotLate ==
  \A i \in DOMAIN queue :
    Prefix(queue)[i] > 0 => Prefix(queue)[i] - lag <= left[queue[i].token] + lost

(* t is due before u, or at the same time and set earlier. *)
Before(t, u) == left[t] < left[u] \/ (left[t] = left[u] /\ since[t] < since[u])

(* The alarm whose handler a step calls was the first of those in the list. *)
FirstFires ==
  \A t \in Queued :
    lost = 0 /\ Len(running') > Len(running) /\ running'[Len(running')] = t
      => \A u \in Queued \ {t} : Before(t, u)

(* As long as the clock is never set back, alarms go off in the order of    *)
(* their due times, and those due at the same time in the order in which    *)
(* they were set.                                                           *)
FiresInOrder == [][FirstFires]_vars

(* Every alarm that is set goes off or is cancelled.                        *)
EveryAlarmEnds == \A t \in Tokens : t \in Queued ~> t \notin Queued

(* The list of deltas implements one countdown per alarm.                   *)
Clock == INSTANCE AlarmClock WITH
  Alarms <- Tokens, pending <- Queued, used <- 1..tokenCounter,
  ringing <- {running[i] : i \in DOMAIN running}

ImplementsAlarmClock == Clock!Spec
=============================================================================
