------------------------------ MODULE PeriodicTask ------------------------------
(***************************************************************************)
(* src/periodicTask/periodicTask.cpp: a hardware timer that interrupts     *)
(* every _period_ms and runs the timerCallback of the derived class.  The  *)
(* driver refuses to start a started timer, to stop a stopped one and so   *)
(* on; the answers are not looked at.                                      *)
(***************************************************************************)
EXTENDS Naturals

CONSTANT Periods  \* delays of the constructor and of setDelay, in ms

ASSUME PeriodicAssumption == Periods \subseteq Nat \ {0} /\ Periods # {}

VARIABLES period,  \* _period_ms
          polling  \* the timer is enabled and started

timerVars == <<period, polling>>

\* The constructor; the derived classes' constructors start the timer.
TimerInit == period \in Periods /\ polling = TRUE

\* The interrupt comes while the timer runs, and calls timerCallback.
Alarm(timerCallback) == polling /\ timerCallback

\* The timer goes on with the new delay if it runs.
SetDelay(delay) == period' = delay /\ UNCHANGED polling

Start == polling' = TRUE /\ UNCHANGED period

Stop == polling' = FALSE /\ UNCHANGED period
================================================================================
