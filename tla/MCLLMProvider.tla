---------------------------- MODULE MCLLMProvider ----------------------------
(***************************************************************************)
(* LLMProvider on a small instance.  Backoff is the formula of _send:      *)
(* llm.rate_limit_delay times the attempt after RateLimitError, and        *)
(* min(2**attempt, 60) after ServiceUnavailableError and APIError; times   *)
(* are scaled down with the other delays.                                  *)
(***************************************************************************)
EXTENDS LLMProvider, TLC

CONSTANTS
  RlDelay,     \* llm.rate_limit_delay
  BackoffCap   \* the 60 of min(2**attempt, 60)

MCBackoff ==
  [k \in Transient |->
    [a \in 1 .. Retries |->
      IF k = "rate_limit" THEN RlDelay * a
      ELSE IF 2 ^ a > BackoffCap THEN BackoffCap ELSE 2 ^ a]]

Symmetric == Permutations(Threads)

\* How long ago time x was; beyond cap it makes no difference.
Age(x, cap) == IF now - x < cap THEN now - x ELSE cap

\* How long time x is ahead.
Ahead(x) == IF x > now THEN x - now ELSE 0

(***************************************************************************)
(* Two states with the same view have the same future and satisfy the same *)
(* properties of the run that uses it.  The code only compares differences *)
(* of times, so dates become ages (Elapse's bound is kept as the time left *)
(* to it), and grants that have left _times go; the counters and the log   *)
(* matter through their differences; and a thread's locals matter only     *)
(* where it is going to read them.                                         *)
(***************************************************************************)
RelativeView ==
  << Ahead(MaxTime),
     fails, Age(IF lastFail = Never THEN 0 ELSE lastFail, BreakerTimeout), state,
     phase, holder, Age(last, MinDelay),
     [i \in 1 .. Queued |-> Age(Times[i], Window + 1)],
     [t \in Threads |-> IF holder = t THEN Ahead(wake[t]) ELSE 0],
     pc, runs,
     [t \in Threads |-> IF pc[t] = "idle" THEN <<0, 0, 0>> ELSE
        <<asks[t], own[t], own[t] - Cardinality(OwnSince(t))>>],
     [t \in Threads |-> IF pc[t] \in {"send", "backoff"} THEN attempt[t] ELSE 0],
     [t \in Threads |-> IF pc[t] = "backoff" THEN Ahead(until[t]) ELSE 0],
     [t \in Threads |-> IF pc[t] = "finish" THEN outcome[t] ELSE "none"],
     total - Len(perRequest), Len(grants) - calls >>

==============================================================================
