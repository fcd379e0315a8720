----------------------------- MODULE LLMProvider -----------------------------
(***************************************************************************)
(* core/llm/provider.py: the path of one agent's question from query_json  *)
(* down to litellm and back, for several pipeline threads that share one   *)
(* LLMProvider (its breaker and its limiter) and the class-level usage     *)
(* counters.  A thread is one run of the pipeline; what it does here is a  *)
(* sequence of agent runs, each of which takes a usage checkpoint, calls   *)
(* query_json once and reads the usage recorded since the checkpoint.      *)
(*                                                                         *)
(* Actions end where another thread can run in between: at the lock of     *)
(* the limiter, in a sleep, in the call to litellm, and at the calls into  *)
(* C code after which CPython 3.11 may switch threads.  The five counters  *)
(* of _global_usage are updated with no such point between them; the log   *)
(* entry is built and appended after one (time.time()).                    *)
(***************************************************************************)
EXTENDS CircuitBreaker, RateLimiter, FiniteSets

CONSTANTS
  Asks,      \* query_json: queries per call, 2 in the code
  Retries,   \* _retries: calls to litellm per _send
  Backoff,   \* Backoff[k][a]: sleep after attempt a failed with error k
  Runs       \* bound: agent runs per thread

\* RateLimitError, and ServiceUnavailableError or APIError
Transient == {"rate_limit", "unavailable"}

ASSUME ProviderAssumption ==
  /\ IsFiniteSet(Threads)
  /\ Asks \in Nat \ {0}
  /\ Retries \in Nat \ {0}
  /\ Backoff \in [Transient -> [1 .. Retries -> Nat]]
  /\ Runs \in Nat

VARIABLES
  pc,        \* what each thread is doing
  runs,      \* how many agent runs it has finished
  asks,      \* query_json: which of its queries is under way
  attempt,   \* _send: the loop variable
  until,     \* _send: the deadline of the sleep after a transient error
  outcome,   \* how the agent run ended: with an answer or an exception
  ckpt,      \* usage_count() at the start of the agent run
  total,     \* _global_usage["total_requests"]
  perRequest, \* _global_usage["per_request"]: the thread each entry came from
  own,       \* history: entries this agent run has added to perRequest
  calls      \* history: calls to completion() that have returned

threadVars == <<pc, runs, asks, attempt, until, outcome, ckpt, own>>
usageVars == <<total, perRequest, calls>>
vars == <<now, breakerVars, limiterVars, threadVars, usageVars>>

Init ==
  /\ now = Epoch
  /\ BreakerInit
  /\ LimiterInit
  /\ pc = [t \in Threads |-> "idle"]
  /\ runs = [t \in Threads |-> 0]
  /\ asks = [t \in Threads |-> 0]
  /\ attempt = [t \in Threads |-> 0]
  /\ until = [t \in Threads |-> 0]
  /\ outcome = [t \in Threads |-> "none"]
  /\ ckpt = [t \in Threads |-> 0]
  /\ own = [t \in Threads |-> 0]
  /\ total = 0
  /\ calls = 0
  /\ perRequest = <<>>

Move(t, from, to) == pc[t] = from /\ pc' = [pc EXCEPT ![t] = to]

\* The agent run is over for query_json; the agent reads its usage next.
End(t, from, how) ==
  /\ Move(t, from, "finish")
  /\ outcome' = [outcome EXCEPT ![t] = how]

\* Mutant of Begin: the checkpoint is the request total, not the log's length.
BeginAtTotal(t) ==
  /\ Move(t, "idle", "ask")
  /\ runs[t] < Runs
  /\ asks' = [asks EXCEPT ![t] = 1]
  /\ ckpt' = [ckpt EXCEPT ![t] = total]
  /\ own' = [own EXCEPT ![t] = 0]
  /\ outcome' = [outcome EXCEPT ![t] = "none"]
  /\ UNCHANGED <<now, breakerVars, limiterVars, runs, attempt, until, usageVars>>

\* An agent takes its checkpoint and calls query_json.
Begin(t) ==
  /\ Move(t, "idle", "ask")
  /\ runs[t] < Runs
  /\ asks' = [asks EXCEPT ![t] = 1]
  /\ ckpt' = [ckpt EXCEPT ![t] = Len(perRequest)]
  /\ own' = [own EXCEPT ![t] = 0]
  /\ outcome' = [outcome EXCEPT ![t] = "none"]
  /\ UNCHANGED <<now, breakerVars, limiterVars, runs, attempt, until, usageVars>>

\* _send passes the breaker, the only time it looks at it, and enters the loop.
Admit(t) ==
  /\ Move(t, "ask", "send")
  /\ CanAttempt
  /\ attempt' = [attempt EXCEPT ![t] = 1]
  /\ Arrive(t)
  /\ UNCHANGED <<now, runs, asks, until, outcome, ckpt, own, usageVars>>

\* _send raises "Circuit breaker open".
Refuse(t) ==
  /\ End(t, "ask", "error")
  /\ MayNotAttempt
  /\ UNCHANGED <<now, limiterVars, runs, asks, attempt, until, ckpt, own, usageVars>>

\* wait_if_needed moves on.
Wait(t) ==
  /\ pc[t] = "send"
  /\ LimiterStep(t)
  /\ UNCHANGED <<breakerVars, threadVars, usageVars>>

\* The limiter has let t through and t is in litellm's completion().
InCall(t) == pc[t] = "send" /\ phase[t] = "out"

\* completion() returns and the breaker hears of it.
Answered(t) ==
  /\ InCall(t)
  /\ calls' = calls + 1
  /\ Move(t, "send", "answered")
  /\ RecordSuccess
  /\ UNCHANGED <<now, limiterVars, runs, asks, attempt, until, outcome, ckpt, own, total, perRequest>>

\* completion() raises an error that is worth a retry: sleep, whatever attempt
\* this was and whatever the breaker's state now is.
TransientError(t) ==
  /\ InCall(t)
  /\ calls' = calls + 1
  /\ Move(t, "send", "backoff")
  /\ RecordFailure
  /\ \E k \in Transient :
       until' = [until EXCEPT ![t] = now + Backoff[k][attempt[t]]]
  /\ UNCHANGED <<now, limiterVars, runs, asks, attempt, outcome, ckpt, own, total, perRequest>>

\* completion() raises anything else.
FatalError(t) ==
  /\ InCall(t)
  /\ calls' = calls + 1
  /\ End(t, "send", "error")
  /\ RecordFailure
  /\ UNCHANGED <<now, limiterVars, runs, asks, attempt, until, ckpt, own, total, perRequest>>

\* Mutant of BadUsage: the request total is raised before the counts are read.
BadUsageCounted(t) ==
  /\ End(t, "answered", "error")
  /\ RecordFailure
  /\ total' = total + 1
  /\ UNCHANGED <<now, limiterVars, runs, asks, attempt, until, ckpt, own, perRequest, calls>>

\* The answer carries no usable token counts: the exception leaves _send
\* before the counters are touched, and counts as a failure of the service.
BadUsage(t) ==
  /\ End(t, "answered", "error")
  /\ RecordFailure
  /\ UNCHANGED <<now, limiterVars, runs, asks, attempt, until, ckpt, own, usageVars>>

\* The totals are updated.
AddTotals(t) ==
  /\ Move(t, "answered", "counted")
  /\ total' = total + 1
  /\ UNCHANGED <<now, breakerVars, limiterVars, runs, asks, attempt, until, outcome, ckpt, own, perRequest, calls>>

\* The entry is appended.
LogRequest(t) ==
  /\ Move(t, "counted", "logged")
  /\ perRequest' = Append(perRequest, t)
  /\ own' = [own EXCEPT ![t] = @ + 1]
  /\ UNCHANGED <<now, breakerVars, limiterVars, runs, asks, attempt, until, outcome, ckpt, total, calls>>

\* Mutant of BadChoices: the query is retried, as after a transient error.
BadChoicesRetried(t) ==
  /\ Move(t, "logged", "backoff")
  /\ RecordFailure
  /\ until' = [until EXCEPT ![t] = now]
  /\ UNCHANGED <<now, limiterVars, runs, asks, attempt, outcome, ckpt, own, usageVars>>

\* The answer has no choices: the exception comes after the entry is logged.
BadChoices(t) ==
  /\ End(t, "logged", "error")
  /\ RecordFailure
  /\ UNCHANGED <<now, limiterVars, runs, asks, attempt, until, ckpt, own, usageVars>>

\* query_json has an object.
Parsed(t) ==
  /\ End(t, "logged", "ok")
  /\ UNCHANGED <<now, breakerVars, limiterVars, runs, asks, attempt, until, ckpt, own, usageVars>>

\* The answer has no text, its content is None: _extract_json raises a TypeError,
\* which leaves query_json at once, and the breaker does not hear of it.
NoContent(t) ==
  /\ End(t, "logged", "error")
  /\ UNCHANGED <<now, breakerVars, limiterVars, runs, asks, attempt, until, ckpt, own, usageVars>>

\* query_json has no object: it asks once more, through the breaker again,
\* and raises ValueError after the last time.
Unparsed(t) ==
  /\ \/ /\ asks[t] < Asks
        /\ Move(t, "logged", "ask")
        /\ asks' = [asks EXCEPT ![t] = @ + 1]
        /\ UNCHANGED outcome
     \/ /\ asks[t] = Asks
        /\ End(t, "logged", "error")
        /\ UNCHANGED asks
  /\ UNCHANGED <<now, breakerVars, limiterVars, runs, attempt, until, ckpt, own, usageVars>>

\* Mutant of Retry: one attempt too many.
RetryOnceMore(t) ==
  /\ pc[t] = "backoff"
  /\ now' = WakeTime(until[t])
  /\ \/ /\ attempt[t] <= Retries
        /\ Move(t, "backoff", "send")
        /\ attempt' = [attempt EXCEPT ![t] = @ + 1]
        /\ Arrive(t)
        /\ UNCHANGED outcome
     \/ /\ attempt[t] > Retries
        /\ End(t, "backoff", "error")
        /\ UNCHANGED <<attempt, limiterVars>>
  /\ UNCHANGED <<breakerVars, runs, asks, until, ckpt, own, usageVars>>

\* Mutant of Retry: the limiter is asked before the loop only.
RetryUnpaced(t) ==
  /\ pc[t] = "backoff"
  /\ now' = WakeTime(until[t])
  /\ \/ /\ attempt[t] < Retries
        /\ Move(t, "backoff", "send")
        /\ attempt' = [attempt EXCEPT ![t] = @ + 1]
        /\ UNCHANGED outcome
     \/ /\ attempt[t] = Retries
        /\ End(t, "backoff", "error")
        /\ UNCHANGED attempt
  /\ UNCHANGED <<breakerVars, limiterVars, runs, asks, until, ckpt, own, usageVars>>

\* The sleep ends: the next attempt, or RuntimeError after the last one.
Retry(t) ==
  /\ pc[t] = "backoff"
  /\ now' = WakeTime(until[t])
  /\ \/ /\ attempt[t] < Retries
        /\ Move(t, "backoff", "send")
        /\ attempt' = [attempt EXCEPT ![t] = @ + 1]
        /\ Arrive(t)
        /\ UNCHANGED outcome
     \/ /\ attempt[t] = Retries
        /\ End(t, "backoff", "error")
        /\ UNCHANGED <<attempt, limiterVars>>
  /\ UNCHANGED <<breakerVars, runs, asks, until, ckpt, own, usageVars>>

\* The agent has called usage_since and written its record.
Finish(t) ==
  /\ Move(t, "finish", "idle")
  /\ runs' = [runs EXCEPT ![t] = @ + 1]
  /\ UNCHANGED <<now, breakerVars, limiterVars, asks, attempt, until, outcome, ckpt, own, usageVars>>

Send(t) ==
  \/ Admit(t) \/ Refuse(t) \/ Wait(t) \/ Retry(t)
  \/ Answered(t) \/ TransientError(t) \/ FatalError(t)
  \/ BadUsage(t) \/ AddTotals(t) \/ LogRequest(t) \/ BadChoices(t)

Step(t) == Send(t) \/ Parsed(t) \/ NoContent(t) \/ Unparsed(t) \/ Finish(t)

\* Every thread has made all its agent runs.
AllDone == \A t \in Threads : pc[t] = "idle" /\ runs[t] = Runs

Next ==
  \/ \E t \in Threads : Begin(t) \/ Step(t)
  \/ Elapse /\ UNCHANGED <<breakerVars, limiterVars, threadVars, usageVars>>
  \/ AllDone /\ UNCHANGED vars

Spec == Init /\ [][Next]_vars

\* The operating system runs every thread that can run; litellm gives every
\* call an answer or an error within its timeout.  No thread has to start a
\* run, and idle time need not pass.
FairSpec == Spec /\ \A t \in Threads : WF_vars(Step(t))

------------------------------------------------------------------------------

PCs == {"idle", "ask", "send", "backoff", "answered", "counted", "logged", "finish"}

ProviderTypeOK ==
  /\ BreakerTypeOK
  /\ LimiterTypeOK
  /\ pc \in [Threads -> PCs]
  /\ runs \in [Threads -> Nat]
  /\ asks \in [Threads -> 0 .. Asks]
  /\ attempt \in [Threads -> 0 .. Retries]
  /\ until \in [Threads -> Nat]
  /\ outcome \in [Threads -> {"none", "ok", "error"}]
  /\ ckpt \in [Threads -> Nat]
  /\ own \in [Threads -> Nat]
  /\ total \in Nat
  /\ perRequest \in Seq(Threads)
  /\ calls \in Nat

\* The totals and the log of _global_usage agree except for the requests whose
\* threads are between the two updates: no request is counted without being
\* logged, none is lost or counted twice by interleaved threads.
UsageBalance ==
  total = Len(perRequest) + Cardinality({t \in Threads : pc[t] = "counted"})

(***************************************************************************)
(* Retries and failures after the answer never log a query twice or drop   *)
(* an answered one: while a query is under way the agent run has logged    *)
(* exactly its earlier ones, and a run that ends with an answer has logged *)
(* every query it made.                                                    *)
(***************************************************************************)
LoggedOnce ==
  \A t \in Threads :
    /\ pc[t] \in {"ask", "send", "backoff", "answered", "counted"} => own[t] = asks[t] - 1
    /\ pc[t] = "logged" => own[t] = asks[t]
    /\ pc[t] = "finish" => own[t] \in {asks[t] - 1, asks[t]}
    /\ pc[t] = "finish" /\ outcome[t] = "ok" => own[t] = asks[t]

\* The entries of t that usage_since(ckpt[t]) would read now.
OwnSince(t) == {i \in ckpt[t] + 1 .. Len(perRequest) : perRequest[i] = t}

\* usage_since never misses a request of the agent run that took the
\* checkpoint, and the entries of other runs of the same thread are before it.
CheckpointCoversRun ==
  \A t \in Threads : pc[t] # "idle" => Cardinality(OwnSince(t)) = own[t]

\* Every call to litellm, retries included, went through the limiter once: the
\* pacing of the grants is a pacing of the calls.
EveryCallPaced ==
  Len(grants) = calls + Cardinality({t \in Threads : InCall(t)})

\* A query enters the retry loop only if fewer than Threshold failures have
\* been reported since the last success, or if nothing has failed for
\* BreakerTimeout, also when another thread's probe has half-opened the breaker.
Cooldown ==
  [][\A t \in Threads :
       pc[t] = "ask" /\ pc'[t] = "send"
         => fails < Threshold \/ now - lastFail >= BreakerTimeout]_vars

\* Every agent run gets an answer or an exception: no lock, sleep, retry or
\* open breaker holds a thread for ever.
RunsEnd == \A t \in Threads : pc[t] = "ask" ~> pc[t] = "idle"

\* What provider.py:232-233 says of the pair usage_count, usage_since.
UsageIsOwn ==
  \A t \in Threads :
    pc[t] = "finish" => Len(perRequest) - ckpt[t] = own[t]

==============================================================================
