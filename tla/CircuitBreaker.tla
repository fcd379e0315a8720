---------------------------- MODULE CircuitBreaker ----------------------------
(***************************************************************************)
(* core/llm/rate_limiter.py, class CircuitBreaker: one instance, shared by *)
(* every thread that uses its LLMProvider.  Each method runs under the     *)
(* instance's lock from start to end, so each is one action.               *)
(***************************************************************************)
EXTENDS Clock

CONSTANTS
  Threshold,       \* consecutive failures that open the breaker
  BreakerTimeout,  \* time after the last failure at which it half-opens
  Never            \* _last_fail before the first failure (None)

ASSUME BreakerAssumption ==
  /\ Threshold \in Nat \ {0}
  /\ BreakerTimeout \in Nat
  /\ Never \notin Int

VARIABLES
  fails,      \* _fails: failures since the last success
  lastFail,   \* _last_fail: when the last failure was recorded
  state       \* _state

breakerVars == <<fails, lastFail, state>>

BreakerInit ==
  /\ fails = 0
  /\ lastFail = Never
  /\ state = "closed"

RecordSuccess ==
  /\ fails' = 0
  /\ state' = "closed"
  /\ UNCHANGED lastFail

\* Mutant of RecordFailure: a failure in half_open leaves the breaker there.
RecordFailureKeepsHalfOpen ==
  /\ fails' = fails + 1
  /\ lastFail' = now
  /\ state' = IF fails + 1 >= Threshold /\ state = "closed"
              THEN "open" ELSE state

RecordFailure ==
  /\ fails' = fails + 1
  /\ lastFail' = now
  /\ state' = IF fails + 1 >= Threshold THEN "open" ELSE state

Cooled == lastFail # Never /\ now - lastFail >= BreakerTimeout

\* can_attempt() = True.  The caller that finds the open breaker cooled moves
\* it to half_open; whoever asks after it, before an answer, is let through.
CanAttempt ==
  /\ \/ state = "closed" /\ UNCHANGED state
     \/ state = "open" /\ Cooled /\ state' = "half_open"
     \/ state = "open" /\ lastFail = Never /\ UNCHANGED state
     \/ state = "half_open" /\ UNCHANGED state
  /\ UNCHANGED <<fails, lastFail>>

\* can_attempt() = False.
MayNotAttempt ==
  /\ state = "open"
  /\ lastFail # Never
  /\ ~ Cooled
  /\ UNCHANGED breakerVars

\* Time passes and no breaker method runs.
BreakerIdle == Passes /\ UNCHANGED breakerVars

BreakerCall ==
  /\ RecordSuccess \/ RecordFailure \/ CanAttempt \/ MayNotAttempt
  /\ UNCHANGED now

\* The breaker under every sequence of calls its callers could make.
BreakerSpec ==
  /\ now = Epoch /\ BreakerInit
  /\ [][BreakerCall \/ BreakerIdle]_<<now, breakerVars>>

------------------------------------------------------------------------------

BreakerTypeOK ==
  /\ now \in Nat
  /\ fails \in Nat
  /\ lastFail \in Nat \cup {Never}
  /\ state \in {"closed", "open", "half_open"}

(***************************************************************************)
(* The three fields stay in step under concurrent success, failure and     *)
(* probe reports: the breaker is closed exactly while fewer than Threshold *)
(* failures followed the last success, so that one failure of a probe      *)
(* re-opens it; and it is half open only if BreakerTimeout passed with no  *)
(* failure from anyone, including calls still in flight since before.      *)
(***************************************************************************)
BreakerConsistent ==
  /\ state = "closed" <=> fails < Threshold
  /\ fails > 0 => lastFail # Never
  /\ lastFail # Never => lastFail <= now
  /\ state = "half_open" => Cooled

==============================================================================
