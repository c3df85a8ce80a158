----------------------------- MODULE AlarmClock -----------------------------
(***************************************************************************)
(* What the timers promise their users, in a time that never wraps and     *)
(* with no list, lock or clock reading: a timer that was set rings once    *)
(* its time is over, before anything that was set for later, and time does *)
(* not move on while a timer has still to ring.  EZTimer implements it.    *)
(***************************************************************************)
EXTENDS Integers

CONSTANTS Timers,
          Delays,    \* the delays timers are set with
          Periods,   \* the periods, 0 for a timer that rings once
          NULL

VARIABLES time,      \* milliseconds
          deadline,  \* when each timer rings next, or NULL
          period,    \* 0 for a timer that rings once
          rung       \* the timer that rang in the last step, or NULL

vars == <<time, deadline, period, rung>>

Init ==
  /\ time \in Nat
  /\ deadline = [t \in Timers |-> NULL]
  /\ period = [t \in Timers |-> 0]
  /\ rung = NULL

Set(t) == deadline[t] # NULL
Overdue(t) == Set(t) /\ deadline[t] < time

Advance ==
  /\ \A t \in Timers : ~Overdue(t)
  /\ time' \in Nat /\ time' > time
  /\ rung' = NULL
  /\ UNCHANGED <<deadline, period>>

Arm(t) ==
  \E due \in Delays, every \in Periods :
    /\ deadline' = [deadline EXCEPT ![t] = time + due]
    /\ period' = [period EXCEPT ![t] = every]
    /\ rung' = NULL
    /\ UNCHANGED time

Disarm(t) ==
  /\ deadline' = [deadline EXCEPT ![t] = NULL]
  /\ rung' = NULL
  /\ UNCHANGED <<time, period>>

Ring(t) ==
  /\ Overdue(t)
  /\ \A u \in Timers : Set(u) => deadline[t] <= deadline[u]
  /\ deadline' = [deadline EXCEPT ![t] = IF period[t] = 0 THEN NULL
                                         ELSE @ + period[t]]
  /\ rung' = t
  /\ UNCHANGED <<time, period>>

Next == Advance \/ \E t \in Timers : Arm(t) \/ Disarm(t) \/ Ring(t)

Spec == Init /\ [][Next]_vars
=============================================================================
