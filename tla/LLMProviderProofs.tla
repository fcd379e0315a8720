-------------------------- MODULE LLMProviderProofs --------------------------
(***************************************************************************)
(* LLMProvider for every number of threads and all its other constants.    *)
(*                                                                         *)
(* Every action of a thread is a step of the limiter, or leaves it alone;  *)
(* the same holds of the breaker.  So what is proved of either under any   *)
(* calls at all holds of it inside the provider.  The provider's own       *)
(* invariants are proved on top of that, one case per action.              *)
(***************************************************************************)
EXTENDS LLMProvider, RateLimiterProofs, FiniteSetTheorems

(***************************************************************************)
(* The circuit breaker by itself, for every threshold and timeout and      *)
(* every sequence of calls: BreakerTypeOK and BreakerConsistent are        *)
(* inductive together.                                                     *)
(***************************************************************************)
BreakerInv == BreakerTypeOK /\ BreakerConsistent

LEMMA BreakerInitInv == now = Epoch /\ BreakerInit => BreakerInv
  BY BreakerAssumption, ClockAssumption
     DEF BreakerInit, BreakerInv, BreakerTypeOK, BreakerConsistent, Cooled

LEMMA BreakerCallInv == BreakerInv /\ BreakerCall => BreakerInv'
  <1> SUFFICES ASSUME BreakerInv, BreakerCall PROVE BreakerInv'
    OBVIOUS
  <1> USE BreakerAssumption DEF BreakerInv, BreakerTypeOK, BreakerConsistent, Cooled
  <1>1. CASE RecordSuccess
    BY <1>1 DEF RecordSuccess, BreakerCall
  <1>2. CASE RecordFailure
    BY <1>2 DEF RecordFailure, BreakerCall
  <1>3. CASE CanAttempt
    BY <1>3 DEF CanAttempt, BreakerCall
  <1>4. CASE MayNotAttempt
    BY <1>4 DEF MayNotAttempt, BreakerCall, breakerVars
  <1> QED BY <1>1, <1>2, <1>3, <1>4 DEF BreakerCall

LEMMA BreakerIdleInv == BreakerInv /\ BreakerIdle => BreakerInv'
  <1> SUFFICES ASSUME BreakerInv, BreakerIdle PROVE BreakerInv'
    OBVIOUS
  <1>1. /\ now \in Nat /\ now' \in Nat /\ now' >= now
        /\ fails' = fails /\ lastFail' = lastFail /\ state' = state
        /\ lastFail # Never => lastFail \in Nat /\ lastFail <= now
    BY DEF BreakerInv, BreakerTypeOK, BreakerConsistent, BreakerIdle, breakerVars, Passes
  <1>2. BreakerTypeOK'
    BY <1>1 DEF BreakerInv, BreakerTypeOK
  <1>3. Cooled => Cooled'
    BY <1>1, BreakerAssumption DEF Cooled
  <1>4. lastFail # Never => lastFail <= now'
    BY <1>1
  <1>5. BreakerConsistent'
    BY <1>1, <1>3, <1>4 DEF BreakerInv, BreakerConsistent
  <1> QED BY <1>2, <1>5 DEF BreakerInv

\* The breaker's fields agree with one another whatever its callers report and
\* in whatever order: closed below the threshold, half open only when cooled.
THEOREM BreakerInvariant == BreakerSpec => [](BreakerTypeOK /\ BreakerConsistent)
  <1>1. now = Epoch /\ BreakerInit => BreakerInv
    BY BreakerInitInv
  <1>2. BreakerInv /\ [BreakerCall \/ BreakerIdle]_<<now, breakerVars>> => BreakerInv'
    <2>1. CASE UNCHANGED <<now, breakerVars>>
      BY <2>1 DEF BreakerInv, BreakerTypeOK, BreakerConsistent, Cooled, breakerVars
    <2> QED BY <2>1, BreakerCallInv, BreakerIdleInv
  <1>3. BreakerInv => BreakerTypeOK /\ BreakerConsistent
    BY DEF BreakerInv
  <1> QED BY <1>1, <1>2, <1>3, PTL DEF BreakerSpec

------------------------------------------------------------------------------
(***************************************************************************)
(* The provider.                                                           *)
(***************************************************************************)

ThreadTypeOK ==
  /\ pc \in [Threads -> PCs]
  /\ runs \in [Threads -> Nat]
  /\ asks \in [Threads -> 0 .. Asks]
  /\ attempt \in [Threads -> 0 .. Retries]
  /\ until \in [Threads -> Nat]
  /\ outcome \in [Threads -> {"none", "ok", "error"}]
  /\ ckpt \in [Threads -> Nat]
  /\ own \in [Threads -> Nat]
  /\ total \in Nat
  /\ perRequest \in Seq(Threads)
  /\ calls \in Nat

\* The loop variables are set wherever the code reads them.
LoopsEntered ==
  \A t \in Threads :
    /\ pc[t] # "idle" => asks[t] >= 1
    /\ pc[t] \in {"send", "backoff"} => attempt[t] >= 1

ProviderInv == LimiterInv /\ BreakerInv /\ ThreadTypeOK /\ LoopsEntered

LEMMA InitProviderInv == Init => ProviderInv
  <1> SUFFICES ASSUME Init PROVE ProviderInv
    OBVIOUS
  <1>1. LimiterInv /\ BreakerInv
    BY InitInv, BreakerInitInv DEF Init
  <1>2. ThreadTypeOK /\ LoopsEntered
    BY ProviderAssumption DEF Init, ThreadTypeOK, LoopsEntered, PCs
  <1> QED BY <1>1, <1>2 DEF ProviderInv

------------------------------------------------------------------------------
(***************************************************************************)
(* The provider's steps as steps of its two parts.                         *)
(***************************************************************************)

LEMMA NowPasses == ProviderInv /\ UNCHANGED now => Passes
  BY DEF ProviderInv, BreakerInv, BreakerTypeOK, Passes

LEMMA RetryPasses ==
  ASSUME ProviderInv, NEW t \in Threads, Retry(t)
  PROVE  Passes
  <1>1. now \in Nat /\ until[t] \in Nat
    BY DEF ProviderInv, BreakerInv, BreakerTypeOK, ThreadTypeOK
  <1> QED BY <1>1, WakeTimeType DEF Retry, Passes

LEMMA ElapsePasses == ProviderInv /\ Elapse => Passes
  BY DEF ProviderInv, BreakerInv, BreakerTypeOK, Elapse, Passes

LEMMA WaitPasses ==
  ASSUME ProviderInv, NEW t \in Threads, LimiterStep(t)
  PROVE  Passes
  <1>1. LimiterNext
    BY DEF LimiterNext
  <1>2. LimiterInv'
    BY <1>1, LimiterNextInv DEF ProviderInv
  <1>3. now \in Nat /\ now' \in Nat /\ wake[t] \in Nat
    BY <1>2 DEF ProviderInv, LimiterInv, LimiterTypeOK
  <1>4. now' >= now
    BY <1>3, WakeTimeType DEF LimiterStep, Enter, AfterGap, AfterFull
  <1> QED BY <1>3, <1>4 DEF Passes

\* Whatever the provider does, its limiter makes a step of its own or rests.
LEMMA IsLimiterStep ==
  ASSUME ProviderInv, [Next]_vars
  PROVE  [LimiterNext]_lvars
  <1>1. ASSUME NEW t \in Threads, Begin(t) \/ Step(t) PROVE LimiterNext
    <2>1. CASE Begin(t) \/ Parsed(t) \/ NoContent(t) \/ Unparsed(t) \/ Finish(t)
      BY <2>1, NowPasses DEF Begin, Parsed, NoContent, Unparsed, Finish, LimiterNext, LimiterIdle
    <2>2. CASE Admit(t)
      BY <2>2, NowPasses DEF Admit, LimiterNext
    <2>3. CASE Wait(t)
      BY <2>3 DEF Wait, LimiterNext
    <2>4. CASE Retry(t)
      <3>1. Arrive(t) \/ UNCHANGED limiterVars
        BY <2>4 DEF Retry
      <3> QED BY <2>4, <3>1, RetryPasses DEF LimiterNext, LimiterIdle
    <2>5. CASE Refuse(t) \/ Answered(t) \/ TransientError(t) \/ FatalError(t)
      BY <2>5, NowPasses
         DEF Refuse, Answered, TransientError, FatalError, LimiterNext, LimiterIdle
    <2>6. CASE BadUsage(t) \/ AddTotals(t) \/ LogRequest(t) \/ BadChoices(t)
      BY <2>6, NowPasses
         DEF BadUsage, AddTotals, LogRequest, BadChoices, LimiterNext, LimiterIdle
    <2> QED BY <1>1, <2>1, <2>2, <2>3, <2>4, <2>5, <2>6 DEF Step, Send
  <1>2. CASE Elapse /\ UNCHANGED <<breakerVars, limiterVars, threadVars, usageVars>>
    BY <1>2, ElapsePasses DEF LimiterNext, LimiterIdle
  <1>3. CASE UNCHANGED vars
    BY <1>3 DEF vars, lvars
  <1> QED BY <1>1, <1>2, <1>3 DEF Next

\* The same for the breaker: one call of a method, or rest.
LEMMA IsBreakerStep ==
  ASSUME ProviderInv, [Next]_vars
  PROVE  [BreakerCall \/ BreakerIdle]_<<now, breakerVars>>
  <1>1. ASSUME NEW t \in Threads, Begin(t) \/ Step(t)
        PROVE  BreakerCall \/ BreakerIdle
    <2>1. CASE Begin(t) \/ Parsed(t) \/ NoContent(t) \/ Unparsed(t) \/ Finish(t)
      BY <2>1, NowPasses DEF Begin, Parsed, NoContent, Unparsed, Finish, BreakerIdle
    <2>2. CASE Admit(t) \/ Refuse(t)
      BY <2>2 DEF Admit, Refuse, BreakerCall
    <2>3. CASE Wait(t)
      BY <2>3, WaitPasses DEF Wait, BreakerIdle
    <2>4. CASE Retry(t)
      BY <2>4, RetryPasses DEF Retry, BreakerIdle
    <2>5. CASE Answered(t) \/ TransientError(t) \/ FatalError(t)
      BY <2>5 DEF Answered, TransientError, FatalError, BreakerCall
    <2>6. CASE BadUsage(t) \/ BadChoices(t)
      BY <2>6 DEF BadUsage, BadChoices, BreakerCall
    <2>7. CASE AddTotals(t) \/ LogRequest(t)
      BY <2>7, NowPasses DEF AddTotals, LogRequest, BreakerIdle
    <2> QED BY <1>1, <2>1, <2>2, <2>3, <2>4, <2>5, <2>6, <2>7 DEF Step, Send
  <1>2. CASE Elapse /\ UNCHANGED <<breakerVars, limiterVars, threadVars, usageVars>>
    BY <1>2, ElapsePasses DEF BreakerIdle
  <1>3. CASE UNCHANGED vars
    BY <1>3 DEF vars
  <1> QED BY <1>1, <1>2, <1>3 DEF Next

------------------------------------------------------------------------------
(***************************************************************************)
(* The threads' own variables.                                             *)
(***************************************************************************)

LEMMA ThreadInv ==
  ASSUME ProviderInv, [Next]_vars
  PROVE  ThreadTypeOK' /\ LoopsEntered'
  <1> USE ProviderAssumption DEF ProviderInv, ThreadTypeOK, LoopsEntered, PCs, Move, End
  <1>1. ASSUME NEW t \in Threads, Begin(t) \/ Step(t)
        PROVE  ThreadTypeOK' /\ LoopsEntered'
    <2>1. CASE Begin(t)
      BY <2>1 DEF Begin, usageVars
    <2>2. CASE Admit(t)
      BY <2>2 DEF Admit, usageVars
    <2>3. CASE Refuse(t)
      BY <2>3 DEF Refuse, usageVars
    <2>4. CASE Wait(t)
      BY <2>4 DEF Wait, threadVars, usageVars
    <2>5. CASE Retry(t)
      <3>1. UNCHANGED <<runs, asks, until, ckpt, own, total, perRequest, calls>>
        BY <2>5 DEF Retry, usageVars
      <3>2. CASE /\ attempt[t] < Retries
                 /\ attempt' = [attempt EXCEPT ![t] = @ + 1]
                 /\ Move(t, "backoff", "send")
                 /\ UNCHANGED outcome
        <4>1. attempt[t] + 1 \in 1 .. Retries
          BY <3>2
        <4> QED BY <3>1, <3>2, <4>1
      <3>3. CASE End(t, "backoff", "error") /\ UNCHANGED attempt
        BY <3>1, <3>3
      <3> QED BY <2>5, <3>2, <3>3 DEF Retry
    <2>6. CASE Answered(t)
      BY <2>6 DEF Answered
    <2>7. CASE TransientError(t)
      <3>1. PICK k \in Transient : until' = [until EXCEPT ![t] = now + Backoff[k][attempt[t]]]
        BY <2>7 DEF TransientError
      <3>2. attempt[t] \in 1 .. Retries /\ now \in Nat
        BY <2>7 DEF TransientError, InCall, BreakerInv, BreakerTypeOK
      <3>3. until' \in [Threads -> Nat]
        BY <3>1, <3>2, SMTT(20)
      <3>4. UNCHANGED <<runs, asks, attempt, outcome, ckpt, own, total, perRequest>>
        BY <2>7 DEF TransientError
      <3>5. calls' \in Nat /\ pc' = [pc EXCEPT ![t] = "backoff"]
        BY <2>7 DEF TransientError
      <3>6. LoopsEntered'
        BY <2>7, <3>2, <3>4, <3>5 DEF TransientError
      <3> QED BY <3>3, <3>4, <3>5, <3>6
    <2>8. CASE FatalError(t)
      BY <2>8 DEF FatalError
    <2>9. CASE BadUsage(t) \/ BadChoices(t) \/ Parsed(t) \/ NoContent(t)
      BY <2>9 DEF BadUsage, BadChoices, Parsed, NoContent, usageVars
    <2>10. CASE AddTotals(t)
      BY <2>10 DEF AddTotals
    <2>11. CASE LogRequest(t)
      BY <2>11, SMTT(20) DEF LogRequest
    <2>12. CASE Unparsed(t)
      <3>1. UNCHANGED <<runs, attempt, until, ckpt, own, total, perRequest, calls>>
        BY <2>12 DEF Unparsed, usageVars
      <3>2. CASE /\ asks[t] < Asks
                 /\ asks' = [asks EXCEPT ![t] = @ + 1]
                 /\ Move(t, "logged", "ask")
                 /\ UNCHANGED outcome
        <4>1. asks[t] + 1 \in 1 .. Asks
          BY <3>2
        <4> QED BY <3>1, <3>2, <4>1, SMTT(20)
      <3>3. CASE End(t, "logged", "error") /\ UNCHANGED asks
        BY <3>1, <3>3
      <3> QED BY <2>12, <3>2, <3>3 DEF Unparsed
    <2>13. CASE Finish(t)
      BY <2>13 DEF Finish, usageVars
    <2> QED BY <1>1, <2>1, <2>2, <2>3, <2>4, <2>5, <2>6, <2>7, <2>8, <2>9,
               <2>10, <2>11, <2>12, <2>13 DEF Step, Send
  <1>2. CASE UNCHANGED <<threadVars, usageVars>>
    BY <1>2 DEF threadVars, usageVars
  <1> QED BY <1>1, <1>2 DEF Next, vars

LEMMA ProviderNextInv == ProviderInv /\ [Next]_vars => ProviderInv'
  <1> SUFFICES ASSUME ProviderInv, [Next]_vars PROVE ProviderInv'
    OBVIOUS
  <1>1. LimiterInv'
    BY IsLimiterStep, LimiterNextInv DEF ProviderInv
  <1>2. BreakerInv'
    <2>1. CASE BreakerCall \/ BreakerIdle
      BY <2>1, BreakerCallInv, BreakerIdleInv DEF ProviderInv
    <2>2. CASE UNCHANGED <<now, breakerVars>>
      BY <2>2 DEF ProviderInv, BreakerInv, BreakerTypeOK, BreakerConsistent, Cooled, breakerVars
    <2> QED BY <2>1, <2>2, IsBreakerStep
  <1> QED BY <1>1, <1>2, ThreadInv DEF ProviderInv

THEOREM ProviderInvariant == Spec => []ProviderInv
  <1> QED BY InitProviderInv, ProviderNextInv, PTL DEF Spec

------------------------------------------------------------------------------

\* Every variable of the provider keeps its type; in particular no thread
\* makes more attempts than Retries or more queries than Asks.
THEOREM ProviderTyped == Spec => []ProviderTypeOK
  <1>1. ProviderInv => ProviderTypeOK
    BY DEF ProviderInv, LimiterInv, BreakerInv, ThreadTypeOK, ProviderTypeOK
  <1> QED BY <1>1, ProviderInvariant, PTL

\* The breaker's fields agree at every moment of every run of the provider's
\* threads: closed below the threshold, half open only when cooled.
THEOREM ProviderBreaker == Spec => []BreakerConsistent
  <1>1. ProviderInv => BreakerConsistent
    BY DEF ProviderInv, BreakerInv
  <1> QED BY <1>1, ProviderInvariant, PTL

\* The provider's grants are paced as Pacing says, retries included.
THEOREM ProviderPaces == Spec => KeepsPromise
  <1>1. Init => now = Epoch /\ LimiterInit
    BY DEF Init
  <1>2. ProviderInv /\ [Next]_vars => [LimiterNext]_lvars
    BY IsLimiterStep
  <1>3. Spec => LimiterSpec
    BY <1>1, <1>2, ProviderInvariant, PTL DEF Spec, LimiterSpec, lvars
  <1> QED BY <1>3, LimiterPaces, PTL

\* No query enters the retry loop while Threshold failures stand against the
\* service and the last is younger than BreakerTimeout.
THEOREM ProviderCooldown == Spec => Cooldown
  <1>1. ASSUME ProviderInv, [Next]_vars,
               NEW t \in Threads, pc[t] = "ask", pc'[t] = "send"
        PROVE  fails < Threshold \/ now - lastFail >= BreakerTimeout
    <2>1. Admit(t)
      BY <1>1 DEF Next, Step, Send, Begin, Admit, Refuse, Wait, Retry, Answered,
                  TransientError, FatalError, BadUsage, AddTotals, LogRequest, BadChoices,
                  Parsed, NoContent, Unparsed, Finish, End, Move, vars, threadVars,
                  ProviderInv, ThreadTypeOK
    <2>2. state = "closed" \/ Cooled \/ (state = "open" /\ lastFail = Never)
      BY <2>1, <1>1 DEF Admit, CanAttempt, ProviderInv, BreakerInv, BreakerConsistent
    <2>3. fails < Threshold \/ Cooled
      BY <2>2, <1>1, BreakerAssumption
         DEF ProviderInv, BreakerInv, BreakerConsistent, BreakerTypeOK
    <2> QED BY <2>3 DEF Cooled
  <1>2. ProviderInv /\ [Next]_vars
          => [\A t \in Threads : pc[t] = "ask" /\ pc'[t] = "send"
                => fails < Threshold \/ now - lastFail >= BreakerTimeout]_vars
    BY <1>1
  <1> QED BY <1>2, ProviderInvariant, PTL DEF Spec, Cooldown

------------------------------------------------------------------------------
(***************************************************************************)
(* Accounting.                                                             *)
(***************************************************************************)

\* Retries and bad answers never log a query twice or drop an answered one.
THEOREM ProviderLoggedOnce == Spec => []LoggedOnce
  <1>1. Init => LoggedOnce
    BY DEF Init, LoggedOnce
  <1>2. ASSUME ProviderInv, LoggedOnce, [Next]_vars PROVE LoggedOnce'
    <2> USE DEF ProviderInv, ThreadTypeOK, PCs, LoggedOnce, Move, End
    <2>1. ASSUME NEW t \in Threads, Begin(t) \/ Step(t) PROVE LoggedOnce'
      <3>1. CASE Begin(t) \/ Admit(t) \/ Refuse(t) \/ Finish(t)
        BY <1>2, <3>1 DEF Begin, Admit, Refuse, Finish
      <3>2. CASE Wait(t)
        BY <1>2, <3>2 DEF Wait, threadVars
      <3>3. CASE Retry(t)
        BY <1>2, <3>3, ZenonT(30) DEF Retry
      <3>4. CASE Answered(t) \/ TransientError(t) \/ FatalError(t)
        BY <1>2, <3>4 DEF Answered, TransientError, FatalError
      <3>5. CASE BadUsage(t) \/ AddTotals(t) \/ BadChoices(t) \/ Parsed(t) \/ NoContent(t)
        BY <1>2, <3>5 DEF BadUsage, AddTotals, BadChoices, Parsed, NoContent
      <3>6. CASE LogRequest(t)
        BY <1>2, <3>6 DEF LogRequest
      <3>7. CASE Unparsed(t)
        <4>1. own[t] = asks[t] /\ UNCHANGED own
          BY <1>2, <3>7 DEF Unparsed
        <4>2. CASE End(t, "logged", "error") /\ UNCHANGED asks
          BY <1>2, <4>1, <4>2
        <4>3. CASE /\ asks' = [asks EXCEPT ![t] = @ + 1]
                   /\ Move(t, "logged", "ask")
                   /\ UNCHANGED outcome
          <5>1. asks'[t] = asks[t] + 1 /\ asks[t] \in Nat
            BY <1>2, <4>3
          <5> QED BY <1>2, <4>1, <4>3, <5>1
        <4> QED BY <3>7, <4>2, <4>3 DEF Unparsed
      <3> QED BY <2>1, <3>1, <3>2, <3>3, <3>4, <3>5, <3>6, <3>7 DEF Step, Send
    <2>2. CASE UNCHANGED threadVars
      BY <1>2, <2>2 DEF threadVars
    <2> QED BY <1>2, <2>1, <2>2 DEF Next, vars
  <1> QED BY <1>1, <1>2, ProviderInvariant, PTL DEF Spec

\* The threads between the two updates of _global_usage.
Counted == {t \in Threads : pc[t] = "counted"}

\* Any subset of the threads is a finite set, and has a size.
LEMMA ThreadSubset ==
  ASSUME NEW S, S \subseteq Threads
  PROVE  IsFiniteSet(S) /\ Cardinality(S) \in Nat
  BY ProviderAssumption, FS_Subset, FS_CardinalityType

\* The totals and the log of _global_usage differ by the requests under way
\* between their updates, however the threads interleave.
THEOREM ProviderUsageBalance == Spec => []UsageBalance
  <1>1. Init => UsageBalance
    <2> SUFFICES ASSUME Init PROVE UsageBalance
      OBVIOUS
    <2>1. Counted = {}
      BY DEF Init, Counted
    <2> QED BY <2>1, FS_EmptySet DEF Init, UsageBalance, Counted
  <1>2. ASSUME ProviderInv, UsageBalance, [Next]_vars PROVE UsageBalance'
    <2> USE DEF ProviderInv, ThreadTypeOK, PCs, Move, End
    <2>1. /\ total = Len(perRequest) + Cardinality(Counted)
          /\ IsFiniteSet(Counted) /\ Cardinality(Counted) \in Nat
          /\ Len(perRequest) \in Nat
      BY <1>2, ThreadSubset DEF UsageBalance, Counted
    <2>2. CASE UNCHANGED <<total, perRequest>> /\ Counted' = Counted
      BY <2>1, <2>2 DEF UsageBalance, Counted
    <2>3. ASSUME NEW t \in Threads, Begin(t) \/ Step(t) PROVE UsageBalance'
      <3>1. CASE AddTotals(t)
        <4>1. t \notin Counted /\ Counted' = Counted \cup {t}
          BY <1>2, <3>1 DEF AddTotals, Counted
        <4>2. Cardinality(Counted') = Cardinality(Counted) + 1
          BY <2>1, <4>1, FS_AddElement
        <4> QED BY <2>1, <3>1, <4>2 DEF AddTotals, UsageBalance, Counted
      <3>2. CASE LogRequest(t)
        <4>1. t \in Counted /\ Counted' = Counted \ {t}
          BY <1>2, <3>2 DEF LogRequest, Counted
        <4>2. Cardinality(Counted') = Cardinality(Counted) - 1
          BY <2>1, <4>1, FS_RemoveElement
        <4>3. Len(perRequest') = Len(perRequest) + 1
          BY <1>2, <3>2 DEF LogRequest
        <4> QED BY <2>1, <3>2, <4>2, <4>3 DEF LogRequest, UsageBalance, Counted
      <3>3. CASE Begin(t) \/ Admit(t) \/ Refuse(t) \/ Finish(t)
        BY <1>2, <2>2, <3>3 DEF Begin, Admit, Refuse, Finish, usageVars, Counted
      <3>4. CASE Wait(t)
        BY <2>2, <3>4 DEF Wait, threadVars, usageVars, Counted
      <3>5. CASE Retry(t)
        BY <1>2, <2>2, <3>5 DEF Retry, usageVars, Counted
      <3>6. CASE Answered(t) \/ TransientError(t) \/ FatalError(t)
        BY <1>2, <2>2, <3>6 DEF Answered, TransientError, FatalError, InCall, Counted
      <3>7. CASE BadUsage(t) \/ BadChoices(t) \/ Parsed(t) \/ NoContent(t)
        BY <1>2, <2>2, <3>7 DEF BadUsage, BadChoices, Parsed, NoContent, usageVars, Counted
      <3>8. CASE Unparsed(t)
        BY <1>2, <2>2, <3>8 DEF Unparsed, usageVars, Counted
      <3> QED BY <2>3, <3>1, <3>2, <3>3, <3>4, <3>5, <3>6, <3>7, <3>8 DEF Step, Send
    <2>4. CASE UNCHANGED <<threadVars, usageVars>>
      BY <2>2, <2>4 DEF threadVars, usageVars, Counted
    <2> QED BY <1>2, <2>3, <2>4 DEF Next, vars
  <1> QED BY <1>1, <1>2, ProviderInvariant, PTL DEF Spec

\* The threads in litellm.
InCalls == {t \in Threads : InCall(t)}

\* A step of wait_if_needed either grants and returns, or goes to sleep.
LEMMA LimiterStepEffect ==
  ASSUME ProviderInv, NEW t \in Threads, LimiterStep(t)
  PROVE  /\ phase[t] # "out"
         /\ \/ /\ phase' = [phase EXCEPT ![t] = "out"]
               /\ Len(grants') = Len(grants) + 1
            \/ /\ \E ph \in {"gap", "full"} : phase' = [phase EXCEPT ![t] = ph]
               /\ grants' = grants
  <1> USE DEF ProviderInv, LimiterInv, LimiterTypeOK
  <1>1. ASSUME NEW at, Grant(t, at) PROVE Len(grants') = Len(grants) + 1
    <2>1. grants' = Append(grants, at)
      BY <1>1 DEF Grant
    <2> QED BY <2>1
  <1>2. CASE Enter(t)
    BY <1>1, <1>2 DEF Enter, Pace, Sleep, Grant
  <1>3. CASE AfterGap(t)
    BY <1>1, <1>3 DEF AfterGap, Pace, Sleep, Grant
  <1>4. CASE AfterFull(t)
    BY <1>1, <1>4 DEF AfterFull, Grant
  <1> QED BY <1>2, <1>3, <1>4 DEF LimiterStep

\* Every call to litellm, retries included, went through the limiter once.
THEOREM ProviderCallsPaced == Spec => []EveryCallPaced
  <1>1. Init => EveryCallPaced
    <2> SUFFICES ASSUME Init PROVE EveryCallPaced
      OBVIOUS
    <2>1. InCalls = {} /\ Len(grants) = 0
      BY DEF Init, InCalls, InCall, LimiterInit
    <2> QED BY <2>1, FS_EmptySet DEF Init, EveryCallPaced, InCalls
  <1>2. ASSUME ProviderInv, EveryCallPaced, [Next]_vars PROVE EveryCallPaced'
    <2>1. /\ Len(grants) = calls + Cardinality(InCalls)
          /\ IsFiniteSet(InCalls) /\ Cardinality(InCalls) \in Nat
          /\ Len(grants) \in Nat /\ calls \in Nat
          /\ pc \in [Threads -> PCs] /\ phase \in [Threads -> Phases]
      BY <1>2, ThreadSubset
         DEF EveryCallPaced, InCalls, ProviderInv, ThreadTypeOK, LimiterInv, LimiterTypeOK
    <2>2. CASE UNCHANGED <<calls, grants>> /\ InCalls' = InCalls
      BY <2>1, <2>2 DEF EveryCallPaced, InCalls
    <2> USE DEF Move, End, PCs, Phases
    <2>3. ASSUME NEW t \in Threads, Begin(t) \/ Step(t) PROVE EveryCallPaced'
      <3>1. CASE Wait(t)
        <4>1. pc[t] = "send" /\ UNCHANGED <<pc, calls>>
          BY <3>1 DEF Wait, threadVars, usageVars
        <4>2. LimiterStep(t)
          BY <3>1 DEF Wait
        <4>3. CASE /\ phase[t] # "out"
                   /\ phase' = [phase EXCEPT ![t] = "out"]
                   /\ Len(grants') = Len(grants) + 1
          <5>1. t \notin InCalls /\ InCalls' = InCalls \cup {t}
            BY <2>1, <4>1, <4>3 DEF InCalls, InCall
          <5>2. Cardinality(InCalls') = Cardinality(InCalls) + 1
            BY <2>1, <5>1, FS_AddElement
          <5> QED BY <2>1, <4>1, <4>3, <5>2 DEF EveryCallPaced, InCalls
        <4>4. CASE /\ phase[t] # "out"
                   /\ \E ph \in {"gap", "full"} : phase' = [phase EXCEPT ![t] = ph]
                   /\ grants' = grants
          BY <2>1, <2>2, <4>1, <4>4 DEF InCalls, InCall
        <4> QED BY <1>2, <4>2, <4>3, <4>4, LimiterStepEffect
      <3>2. CASE Answered(t) \/ TransientError(t) \/ FatalError(t)
        <4>1. /\ t \in InCalls /\ calls' = calls + 1
              /\ UNCHANGED <<phase, grants>>
          BY <3>2 DEF Answered, TransientError, FatalError, InCalls, limiterVars
        <4>2. \E to \in {"answered", "backoff", "finish"} : pc' = [pc EXCEPT ![t] = to]
          BY <3>2 DEF Answered, TransientError, FatalError
        <4>3. InCalls' = InCalls \ {t}
          BY <2>1, <4>1, <4>2 DEF InCalls, InCall
        <4>4. Cardinality(InCalls') = Cardinality(InCalls) - 1
          BY <2>1, <4>1, <4>3, FS_RemoveElement
        <4> QED BY <2>1, <4>1, <4>4 DEF EveryCallPaced, InCalls
      <3>3. CASE Begin(t) \/ Refuse(t) \/ Finish(t) \/ Parsed(t) \/ NoContent(t) \/ Unparsed(t)
        BY <2>1, <2>2, <3>3
           DEF Begin, Refuse, Finish, Parsed, NoContent, Unparsed, usageVars, limiterVars, InCalls, InCall
      <3>4. CASE BadUsage(t) \/ AddTotals(t) \/ LogRequest(t) \/ BadChoices(t)
        BY <2>1, <2>2, <3>4
           DEF BadUsage, AddTotals, LogRequest, BadChoices, usageVars, limiterVars, InCalls, InCall
      <3>5. CASE Admit(t)
        BY <2>1, <2>2, <3>5 DEF Admit, Arrive, usageVars, InCalls, InCall
      <3>6. CASE Retry(t)
        <4>1. UNCHANGED <<calls, grants>>
          BY <3>6 DEF Retry, Arrive, usageVars, limiterVars
        <4>2. InCalls' = InCalls
          BY <2>1, <3>6 DEF Retry, Arrive, limiterVars, InCalls, InCall
        <4> QED BY <2>2, <4>1, <4>2
      <3> QED BY <2>3, <3>1, <3>2, <3>3, <3>4, <3>5, <3>6 DEF Step, Send
    <2>4. CASE UNCHANGED <<limiterVars, threadVars, usageVars>>
      BY <2>2, <2>4 DEF limiterVars, threadVars, usageVars, InCalls, InCall
    <2> QED BY <1>2, <2>3, <2>4 DEF Next, vars
  <1> QED BY <1>1, <1>2, ProviderInvariant, PTL DEF Spec

\* Checkpoints lie in the log, which only grows.
CheckpointsInLog == \A t \in Threads : ckpt[t] <= Len(perRequest)

LEMMA OwnSinceFinite ==
  ASSUME ProviderInv, NEW t \in Threads
  PROVE  IsFiniteSet(OwnSince(t))
  <1>1. Len(perRequest) \in Nat /\ ckpt[t] \in Nat
    BY DEF ProviderInv, ThreadTypeOK
  <1>2. IsFiniteSet(ckpt[t] + 1 .. Len(perRequest))
    BY <1>1, FS_Interval
  <1> QED BY <1>2, FS_Subset DEF OwnSince

\* usage_since, called with the checkpoint an agent run took, sees every
\* request of that run and of no earlier run of the same thread.
THEOREM ProviderCheckpoints == Spec => []CheckpointCoversRun
  <1> DEFINE Inv == CheckpointsInLog /\ CheckpointCoversRun
  <1>1. Init => Inv
    BY DEF Init, CheckpointsInLog, CheckpointCoversRun
  <1>2. ASSUME ProviderInv, Inv, [Next]_vars PROVE Inv'
    <2>1. /\ perRequest \in Seq(Threads) /\ Len(perRequest) \in Nat
          /\ ckpt \in [Threads -> Nat] /\ own \in [Threads -> Nat]
          /\ pc \in [Threads -> PCs]
      BY <1>2 DEF ProviderInv, ThreadTypeOK
    <2> USE DEF Move, End, PCs
    <2>2. CASE /\ UNCHANGED <<ckpt, own, perRequest>>
               /\ \A t \in Threads : pc'[t] # "idle" => pc[t] # "idle"
      BY <1>2, <2>2 DEF CheckpointsInLog, CheckpointCoversRun, OwnSince
    <2>3. ASSUME NEW t \in Threads, Begin(t) \/ Step(t) PROVE Inv'
      <3>1. CASE Begin(t)
        <4>1. /\ UNCHANGED perRequest
              /\ ckpt' = [ckpt EXCEPT ![t] = Len(perRequest)]
              /\ own' = [own EXCEPT ![t] = 0]
              /\ pc' = [pc EXCEPT ![t] = "ask"]
          BY <3>1 DEF Begin, usageVars
        <4>2. OwnSince(t)' = {}
          BY <2>1, <4>1 DEF OwnSince
        <4>3. \A u \in Threads \ {t} : OwnSince(u)' = OwnSince(u) /\ own'[u] = own[u]
          BY <2>1, <4>1 DEF OwnSince
        <4>4. CheckpointCoversRun'
          BY <1>2, <2>1, <4>1, <4>2, <4>3, FS_EmptySet DEF CheckpointCoversRun
        <4>5. CheckpointsInLog'
          BY <1>2, <2>1, <4>1 DEF CheckpointsInLog
        <4> QED BY <4>4, <4>5
      <3>2. CASE LogRequest(t)
        <4>1. /\ perRequest' = Append(perRequest, t)
              /\ UNCHANGED ckpt
              /\ own' = [own EXCEPT ![t] = @ + 1]
              /\ pc[t] # "idle"
              /\ \A u \in Threads : pc'[u] # "idle" => pc[u] # "idle"
          BY <2>1, <3>2 DEF LogRequest
        <4>2. /\ Len(perRequest') = Len(perRequest) + 1
              /\ perRequest'[Len(perRequest) + 1] = t
              /\ \A i \in 1 .. Len(perRequest) : perRequest'[i] = perRequest[i]
          BY <2>1, <4>1
        <4>3. \A u \in Threads \ {t} : OwnSince(u)' = OwnSince(u) /\ own'[u] = own[u]
          BY <2>1, <4>1, <4>2, SMTT(20) DEF OwnSince
        <4>4. /\ Len(perRequest) + 1 \notin OwnSince(t)
              /\ OwnSince(t)' = OwnSince(t) \cup {Len(perRequest) + 1}
          BY <1>2, <2>1, <4>1, <4>2, SMTT(20) DEF OwnSince, CheckpointsInLog
        <4>5. Cardinality(OwnSince(t)') = Cardinality(OwnSince(t)) + 1
          BY <1>2, <4>4, OwnSinceFinite, FS_AddElement
        <4>6. CheckpointCoversRun'
          BY <1>2, <2>1, <4>1, <4>3, <4>5 DEF CheckpointCoversRun
        <4>7. CheckpointsInLog'
          BY <1>2, <2>1, <4>1, <4>2 DEF CheckpointsInLog
        <4> QED BY <4>6, <4>7
      <3>3. CASE Admit(t) \/ Refuse(t) \/ Finish(t)
        BY <2>1, <2>2, <3>3 DEF Admit, Refuse, Finish, usageVars
      <3>4. CASE Wait(t)
        BY <2>2, <3>4 DEF Wait, threadVars, usageVars
      <3>5. CASE Retry(t)
        BY <2>1, <2>2, <3>5 DEF Retry, usageVars
      <3>6. CASE Answered(t) \/ TransientError(t) \/ FatalError(t)
        BY <2>1, <2>2, <3>6 DEF Answered, TransientError, FatalError, InCall
      <3>7. CASE BadUsage(t) \/ AddTotals(t) \/ BadChoices(t) \/ Parsed(t) \/ NoContent(t)
        BY <2>1, <2>2, <3>7 DEF BadUsage, AddTotals, BadChoices, Parsed, NoContent, usageVars
      <3>8. CASE Unparsed(t)
        BY <2>1, <2>2, <3>8 DEF Unparsed, usageVars
      <3> QED BY <2>3, <3>1, <3>2, <3>3, <3>4, <3>5, <3>6, <3>7, <3>8 DEF Step, Send
    <2>4. CASE UNCHANGED <<threadVars, usageVars>>
      BY <2>2, <2>4 DEF threadVars, usageVars
    <2> QED BY <1>2, <2>3, <2>4 DEF Next, vars
  <1>3. Inv => CheckpointCoversRun
    OBVIOUS
  <1> QED BY <1>1, <1>2, <1>3, ProviderInvariant, PTL DEF Spec

==============================================================================
