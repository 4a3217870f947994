----------------------------- MODULE AlarmClock -----------------------------
(***************************************************************************)
(* What a task scheduler promises to the code that schedules delayed tasks *)
(* (UsageEnvironment.hh, scheduleDelayedTask and unscheduleDelayedTask),   *)
(* whatever structure keeps the alarms: every alarm has a countdown of its *)
(* own, it may go off only when the countdown has run out, and it goes off *)
(* at most once and never after it was cancelled.                          *)
(***************************************************************************)
EXTENDS Integers

CONSTANTS
  Alarms,                  \* names of alarms, each used once
  Delays                   \* the delays a caller may ask for

VARIABLES
  pending,                 \* the alarms that have been set and not yet gone off
  left,                    \* for each pending alarm, the time it still has to wait
  used,                    \* every alarm ever set
  ringing                  \* the alarms that went off and are being attended to

clockVars == <<pending, left, used, ringing>>

Init ==
  /\ pending = {}
  /\ left = [a \in {} |-> 0]
  /\ used = {}
  /\ ringing = {}

(* Setting an alarm takes a token that no alarm has had before. *)
Set(a, d) ==
  /\ a \notin used
  /\ used' = used \union {a}
  /\ pending' = pending \union {a}
  /\ left' = [b \in pending' |-> IF b = a THEN d ELSE left[b]]
  /\ UNCHANGED ringing

Drop(a) ==
  /\ pending' = pending \ {a}
  /\ left' = [b \in pending' |-> left[b]]
  /\ UNCHANGED used

Cancel(a) == a \in pending /\ Drop(a) /\ UNCHANGED ringing

Fire(a) == a \in pending /\ left[a] <= 0 /\ Drop(a) /\ ringing' = ringing \union {a}

Attended(a) ==
  /\ a \in ringing
  /\ ringing' = ringing \ {a}
  /\ UNCHANGED <<pending, left, used>>

(* An alarm that is pending may be given another delay. *)
Reset(a, d) ==
  /\ a \in pending
  /\ left' = [left EXCEPT ![a] = d]
  /\ UNCHANGED <<pending, used, ringing>>

Pass ==
  /\ left' = [a \in pending |-> left[a] - 1]
  /\ UNCHANGED <<pending, used, ringing>>

Next ==
  \/ \E a \in Alarms, d \in Delays : Set(a, d)
  \/ \E a \in pending : Cancel(a) \/ Fire(a)
  \/ \E a \in ringing : Attended(a)
  \/ \E a \in pending, d \in Delays : Reset(a, d)
  \/ Pass

Spec == Init /\ [][Next]_clockVars
=============================================================================
