---------------------------- MODULE TimerService ----------------------------
(***************************************************************************)
(* What the timers of an event loop promise, without tree, cached pointer  *)
(* or pass: each armed timer has an instant at which it is due, callbacks  *)
(* run one at a time, a callback starts only for a timer that is due at    *)
(* the loop's reading of the clock and that no other armed timer precedes, *)
(* a timer is disarmed when its callback starts, and none starts once the  *)
(* loop is stopped.                                                        *)
(***************************************************************************)
EXTENDS Integers

CONSTANTS
  Timers,
  NoTimer   \* not a timer

VARIABLES
  clock,    \* the service's last reading of the clock
  due,      \* due[t]: the instant at which t is due, or NotArmed
  running,  \* the timer whose callback runs, or NoTimer
  stopped

serviceVars == <<clock, due, running, stopped>>

NotArmed == -1

Arm(t) ==
  /\ due'[t] \in Nat
  /\ due' = [due EXCEPT ![t] = due'[t]]
  /\ UNCHANGED <<clock, running, stopped>>

Disarm(t) ==
  /\ due' = [due EXCEPT ![t] = NotArmed]
  /\ UNCHANGED <<clock, running, stopped>>

ReadClock ==
  /\ clock' \in Nat
  /\ UNCHANGED <<due, running, stopped>>

Start(t) ==
  /\ running = NoTimer
  /\ ~stopped
  /\ due[t] # NotArmed /\ due[t] <= clock
  /\ \A u \in Timers : due[u] # NotArmed => due[t] <= due[u]
  /\ running' = t
  /\ due' = [due EXCEPT ![t] = NotArmed]
  /\ UNCHANGED <<clock, stopped>>

Finish ==
  /\ running # NoTimer
  /\ running' = NoTimer
  /\ UNCHANGED <<clock, due, stopped>>

Stop ==
  /\ stopped' = TRUE
  /\ UNCHANGED <<clock, due, running>>

ServiceInit ==
  /\ clock \in Nat
  /\ due = [t \in Timers |-> NotArmed]
  /\ running = NoTimer
  /\ stopped = FALSE

ServiceNext ==
  \/ \E t \in Timers : Arm(t) \/ Disarm(t) \/ Start(t)
  \/ ReadClock \/ Finish \/ Stop

ServiceSpec == ServiceInit /\ [][ServiceNext]_serviceVars
=============================================================================
