-------------------------------- MODULE Clock --------------------------------
(***************************************************************************)
(* The wall clock that the rate limiter, the circuit breaker and the usage *)
(* log read through time.time().  One tick is one second.                  *)
(*                                                                         *)
(* A thread in time.sleep wakes at its deadline or later: the step that    *)
(* wakes it moves the clock there if it has not passed it already.  Elapse *)
(* lets any further amount of time pass between two steps, up to MaxTime;  *)
(* nothing depends on it happening.                                        *)
(***************************************************************************)
EXTENDS Integers

CONSTANTS
  Epoch,      \* the time at which the process starts
  MaxTime     \* bound: Elapse stops there, wake-ups may still go past it

ASSUME ClockAssumption ==
  /\ Epoch \in Nat
  /\ MaxTime \in Nat

VARIABLE
  now         \* time.time()

\* time.sleep(d) called at time s has returned at this time if the caller
\* runs as soon as it may.
WakeTime(deadline) == IF deadline > now THEN deadline ELSE now

\* Some time passes, or none.
Passes == now' \in Nat /\ now' >= now

Elapse == now < MaxTime /\ now' = now + 1

==============================================================================
