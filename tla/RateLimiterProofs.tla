-------------------------- MODULE RateLimiterProofs --------------------------
(***************************************************************************)
(* RateLimiter for every number of threads, every rpm, every positive      *)
(* min_delay and every window: the lock discipline, the bound on the deque *)
(* and the implementation of Pacing.                                       *)
(*                                                                         *)
(* The argument.  A grant is at least MinDelay after the one before since  *)
(* the lock is held across the sleep, so _last cannot move meanwhile.  It  *)
(* is Window after the one Rpm places before because that entry is either  *)
(* gone from _times, hence older than the window, or the oldest one left,  *)
(* whose age the second sleep waits for.  That no third case exists needs  *)
(* the bound on the deque: after the sweep it holds at most Rpm entries,   *)
(* since an extra one sits at the edge of the window and MinDelay > 0      *)
(* pushes it over.                                                         *)
(***************************************************************************)
EXTENDS RateLimiter, WellFoundedInduction, FiniteSetTheorems, TLAPS

lvars == <<now, limiterVars>>

\* The history is ordered, MinDelay apart, and ends with _last.
History ==
  /\ last <= now
  /\ Epoch <= now
  /\ grants = <<>> => last = 0
  /\ grants # <<>> => last = grants[Len(grants)]
  /\ \A i \in 1 .. Len(grants) : grants[i] <= last
  /\ \A i, j \in 1 .. Len(grants) : i < j => grants[i] + MinDelay <= grants[j]

\* What has left _times is older than the window.
PoppedAreOld == \A i \in 1 .. popped : grants[i] + Window < now

\* A thread in the first sleep wakes MinDelay after the last grant; one in the
\* second sleep does so when the oldest of Rpm entries has left the window.
Sleepers ==
  \A t \in Threads :
    /\ phase[t] = "gap" => wake[t] = last + MinDelay
    /\ phase[t] = "full" => /\ last + MinDelay <= now
                            /\ Queued = Rpm
                            /\ wake[t] = grants[popped + 1] + Window

LimiterInv ==
  /\ LimiterTypeOK
  /\ LockDiscipline
  /\ History
  /\ PoppedAreOld
  /\ DequeBounded
  /\ Sleepers

------------------------------------------------------------------------------

LEMMA WakeTimeType ==
  ASSUME now \in Nat, NEW d \in Nat
  PROVE  WakeTime(d) \in Nat /\ WakeTime(d) >= now /\ WakeTime(d) >= d
  BY DEF WakeTime

LEMMA InitInv == now = Epoch /\ LimiterInit => LimiterInv
  <1> SUFFICES ASSUME now = Epoch, LimiterInit PROVE LimiterInv
    OBVIOUS
  <1> USE LimiterAssumption, ClockAssumption DEF LimiterInit
  <1>1. LimiterTypeOK
    BY DEF LimiterTypeOK, Phases
  <1>2. LockDiscipline
    BY DEF LockDiscipline
  <1>3. History /\ PoppedAreOld /\ Sleepers
    BY DEF History, PoppedAreOld, Sleepers
  <1>4. DequeBounded
    BY DEF DequeBounded, Queued
  <1> QED BY <1>1, <1>2, <1>3, <1>4 DEF LimiterInv

\* A step that leaves the limiter alone and lets time pass.
LEMMA IdleInv == LimiterInv /\ LimiterIdle => LimiterInv'
  <1> SUFFICES ASSUME LimiterInv, LimiterIdle PROVE LimiterInv'
    OBVIOUS
  <1> USE LimiterAssumption, ClockAssumption DEF LimiterIdle, limiterVars, Passes
  <1>1. LimiterTypeOK'
    BY DEF LimiterInv, LimiterTypeOK
  <1>2. LockDiscipline'
    BY DEF LimiterInv, LockDiscipline
  <1>3. History'
    BY DEF LimiterInv, LimiterTypeOK, History
  <1>4. PoppedAreOld'
    BY DEF LimiterInv, LimiterTypeOK, PoppedAreOld
  <1>5. DequeBounded'
    BY DEF LimiterInv, DequeBounded, Queued
  <1>6. Sleepers'
    BY DEF LimiterInv, LimiterTypeOK, Sleepers, Queued
  <1> QED BY <1>1, <1>2, <1>3, <1>4, <1>5, <1>6 DEF LimiterInv

\* A thread that queues for the lock disturbs nothing.
LEMMA ArriveInv ==
  ASSUME NEW t \in Threads, LimiterInv, Arrive(t), Passes
  PROVE  LimiterInv'
  <1> USE LimiterAssumption, ClockAssumption DEF Arrive, Passes
  <1>1. LimiterTypeOK'
    BY DEF LimiterInv, LimiterTypeOK, Phases
  <1>2. LockDiscipline'
    BY DEF LimiterInv, LimiterTypeOK, LockDiscipline
  <1>3. History' /\ PoppedAreOld' /\ DequeBounded'
    BY DEF LimiterInv, LimiterTypeOK, History, PoppedAreOld, DequeBounded, Queued
  <1>4. Sleepers'
    BY DEF LimiterInv, LimiterTypeOK, Sleepers, Queued
  <1> QED BY <1>1, <1>2, <1>3, <1>4 DEF LimiterInv

\* Going to sleep for min_delay.
LEMMA GapInv ==
  ASSUME NEW t \in Threads, LimiterInv, holder = NoThread,
         Sleep(t, "gap", last + MinDelay), UNCHANGED <<popped, now>>
  PROVE  LimiterInv'
  <1> USE LimiterAssumption DEF Sleep
  <1>1. LimiterTypeOK'
    BY DEF LimiterInv, LimiterTypeOK, Phases
  <1>2. LockDiscipline'
    BY DEF LimiterInv, LimiterTypeOK, LockDiscipline
  <1>3. History' /\ PoppedAreOld' /\ DequeBounded'
    BY DEF LimiterInv, History, PoppedAreOld, DequeBounded, Queued
  <1>4. Sleepers'
    BY DEF LimiterInv, LimiterTypeOK, LockDiscipline, Sleepers, Queued
  <1> QED BY <1>1, <1>2, <1>3, <1>4 DEF LimiterInv

\* The sweep at a time MinDelay or more after the last grant leaves at most
\* Rpm entries, and all it has removed so far is old.
LEMMA SweepBound ==
  ASSUME LimiterInv, NEW at \in Nat, at >= now, at >= last + MinDelay,
         NEW k \in 0 .. Queued, Pops(k, at)
  PROVE  /\ k \in Nat
         /\ popped' = popped + k
         /\ popped' \in 0 .. Len(grants)
         /\ Queued - k <= Rpm
         /\ \A i \in 1 .. popped' : grants[i] + Window < at
  <1> USE LimiterAssumption
  <1>1. /\ Len(grants) \in Nat /\ popped \in 0 .. Len(grants) /\ now \in Nat /\ last \in Nat
        /\ \A i \in 1 .. Len(grants) : grants[i] \in Nat
    BY DEF LimiterInv, LimiterTypeOK
  <1>2. k \in Nat /\ popped' = popped + k /\ popped' \in 0 .. Len(grants)
    BY <1>1 DEF Pops, Queued
  <1>3. Queued - k <= Rpm
    <2>1. CASE Queued <= Rpm
      BY <2>1, <1>1, <1>2 DEF Queued
    <2>2. CASE Queued = Rpm + 1
      <3>1. grants[popped + 1] + Window < at
        BY <2>2, <1>1 DEF LimiterInv, DequeBounded, Queued
      <3>2. k # 0
        <4>1. k < Queued => ~ grants[popped + k + 1] + Window < at
          BY <1>1, <1>2 DEF Pops, Queued
        <4>2. k = 0 => k < Queued /\ popped + k + 1 = popped + 1
          BY <2>2, <1>1
        <4> QED BY <3>1, <4>1, <4>2
      <3> QED BY <3>2, <2>2, <1>1, <1>2 DEF Queued
    <2> QED BY <2>1, <2>2, <1>1 DEF LimiterInv, DequeBounded, Queued
  <1>4. ASSUME NEW i \in 1 .. popped' PROVE grants[i] + Window < at
    <2>1. CASE i <= popped
      <3>1. i \in 1 .. popped
        BY <2>1, <1>1, <1>2
      <3>2. grants[i] + Window < now
        BY <3>1 DEF LimiterInv, PoppedAreOld
      <3>3. grants[i] \in Nat
        BY <3>1, <1>1
      <3> QED BY <3>2, <3>3, <1>1
    <2>2. CASE i > popped
      <3>1. i - popped \in 1 .. k /\ popped + (i - popped) = i
        BY <2>2, <1>1, <1>2
      <3>2. grants[popped + (i - popped)] < at - Window
        BY <3>1 DEF Pops
      <3> QED BY <3>1, <3>2, <1>1, <1>2
    <2> QED BY <2>1, <2>2, <1>1, <1>2
  <1> QED BY <1>2, <1>3, <1>4

\* Going to sleep until the oldest of Rpm entries leaves the window.
LEMMA FullInv ==
  ASSUME NEW t \in Threads, LimiterInv, holder \in {NoThread, t},
         NEW at \in Nat, at >= now, at >= last + MinDelay, now' = at,
         NEW k \in 0 .. Queued, Pops(k, at), Full(k, at),
         Sleep(t, "full", grants[popped + k + 1] + Window)
  PROVE  LimiterInv'
  <1> USE LimiterAssumption
  <1>1. /\ Len(grants) \in Nat /\ popped \in 0 .. Len(grants) /\ now \in Nat /\ last \in Nat
        /\ \A i \in 1 .. Len(grants) : grants[i] \in Nat
    BY DEF LimiterInv, LimiterTypeOK
  <1>2. /\ k \in Nat /\ popped' = popped + k /\ popped' \in 0 .. Len(grants)
        /\ Queued - k <= Rpm /\ \A i \in 1 .. popped' : grants[i] + Window < at
    BY SweepBound
  <1>3. Queued' = Rpm /\ popped + k + 1 \in 1 .. Len(grants)
    BY <1>1, <1>2 DEF Full, Queued, Sleep
  <1>4. LimiterTypeOK'
    <2>1. PICK w \in Nat : w = grants[popped + k + 1] + Window
      <3>1. grants[popped + k + 1] \in Nat
        BY <1>1, <1>3
      <3> QED BY <3>1
    <2>2. phase' \in [Threads -> Phases] /\ wake' \in [Threads -> Nat]
      BY <2>1 DEF LimiterInv, LimiterTypeOK, Sleep, Phases
    <2>3. grants' = grants /\ last' = last /\ holder' = t
      BY DEF Sleep
    <2>4. grants \in Seq(Nat)
      BY DEF LimiterInv, LimiterTypeOK
    <2> QED BY <1>1, <1>2, <2>2, <2>3, <2>4 DEF LimiterTypeOK
  <1>5. LockDiscipline'
    BY DEF LimiterInv, LimiterTypeOK, LockDiscipline, Sleep
  <1>6. History'
    BY <1>1, ClockAssumption DEF LimiterInv, History, Sleep
  <1>7. PoppedAreOld'
    BY <1>2 DEF PoppedAreOld, Sleep
  <1>8. DequeBounded'
    BY <1>1, <1>3 DEF DequeBounded
  <1>9. Sleepers'
    BY <1>1, <1>2, <1>3 DEF LimiterInv, LimiterTypeOK, LockDiscipline, Sleepers, Sleep
  <1> QED BY <1>4, <1>5, <1>6, <1>7, <1>8, <1>9 DEF LimiterInv

\* A grant at a time that both delays allow: the history may be extended by it
\* as Pacing asks, and the invariant holds again.
LEMMA GrantInv ==
  ASSUME NEW t \in Threads, LimiterInv, holder \in {NoThread, t},
         NEW at \in Nat, at >= now, at >= last + MinDelay, now' = at,
         NEW k \in 0 .. Queued, Pops(k, at),
         Queued - k = Rpm => grants[popped + k + 1] + Window <= at,
         Grant(t, at)
  PROVE  LimiterInv' /\ Promise!Issue
  <1> USE LimiterAssumption, ClockAssumption
  <1>1. /\ Len(grants) \in Nat /\ popped \in 0 .. Len(grants) /\ now \in Nat /\ last \in Nat
        /\ \A i \in 1 .. Len(grants) : grants[i] \in Nat
        /\ grants \in Seq(Nat)
    BY DEF LimiterInv, LimiterTypeOK
  <1>2. /\ k \in Nat /\ popped' = popped + k /\ popped' \in 0 .. Len(grants)
        /\ Queued - k <= Rpm /\ \A i \in 1 .. popped' : grants[i] + Window < at
    BY SweepBound
  <1>3. /\ grants' \in Seq(Nat)
        /\ Len(grants') = Len(grants) + 1
        /\ \A i \in 1 .. Len(grants) : grants'[i] = grants[i]
        /\ grants'[Len(grants) + 1] = at
        /\ grants' # <<>>
    BY <1>1 DEF Grant
  <1>4. /\ last' = at
        /\ Queued' = Queued - k + 1
    BY <1>1, <1>2, <1>3 DEF Grant, Queued
  <1>5. \A i \in 1 .. Len(grants) : at - grants[i] >= MinDelay
    BY <1>1 DEF LimiterInv, History
  <1>6. ASSUME NEW i \in 1 .. Len(grants), i = Len(grants) + 1 - Rpm
        PROVE  at - grants[i] >= Window
    <2>1. CASE Queued - k = Rpm
      <3>1. popped + k + 1 = i
        <4>1. PICK n \in Nat, p \in Nat : n = Len(grants) /\ p = popped
          BY <1>1
        <4>2. k \in Nat /\ Rpm \in Nat /\ (n - p) - k = Rpm /\ i = n + 1 - Rpm
          BY <4>1, <2>1, <1>2, <1>6 DEF Queued
        <4>3. p + k + 1 = i
          BY <4>2
        <4> QED BY <4>1, <4>3
      <3>2. grants[i] + Window <= at /\ grants[i] \in Nat
        BY <2>1, <3>1, <1>1
      <3> QED BY <3>2
    <2>2. CASE Queued - k < Rpm
      <3>1. i \in 1 .. popped'
        BY <2>2, <1>1, <1>2, <1>6 DEF Queued
      <3>2. grants[i] + Window < at /\ grants[i] \in Nat
        BY <3>1, <1>1, <1>2
      <3> QED BY <3>2
    <2> QED BY <2>1, <2>2, <1>1, <1>2 DEF Queued
  <1>7. Promise!Issue
    <2>1. Promise!MayGrant(grants, at)
      BY <1>5, <1>6 DEF Promise!MayGrant
    <2>2. grants'[Len(grants')] = at /\ grants' = Append(grants, at)
      BY <1>1, <1>3 DEF Grant
    <2> QED BY <2>1, <2>2, <1>3 DEF Promise!Issue
  <1>8. LimiterTypeOK'
    BY <1>1, <1>2, <1>3, <1>4 DEF LimiterInv, LimiterTypeOK, Grant, Phases
  <1>9. LockDiscipline'
    BY DEF LimiterInv, LimiterTypeOK, LockDiscipline, Grant
  <1>10. History'
    <2>1. ASSUME NEW i \in 1 .. Len(grants'), NEW j \in 1 .. Len(grants'), i < j
          PROVE  grants'[i] + MinDelay <= grants'[j]
      <3>1. i \in 1 .. Len(grants) /\ grants'[i] = grants[i]
        BY <2>1, <1>1, <1>3, SMTT(20)
      <3>2. CASE j \in 1 .. Len(grants)
        <4>1. grants'[j] = grants[j]
          BY <3>2, <1>3
        <4> QED BY <2>1, <3>1, <3>2, <4>1 DEF LimiterInv, History
      <3>3. CASE j = Len(grants) + 1
        <4>1. grants'[j] = at /\ at - grants[i] >= MinDelay /\ grants[i] \in Nat
          BY <3>1, <3>3, <1>1, <1>3, <1>5
        <4> QED BY <3>1, <4>1
      <3> QED BY <3>2, <3>3, <1>1, <1>3
    <2>2. ASSUME NEW i \in 1 .. Len(grants') PROVE grants'[i] <= last'
      <3>1. CASE i \in 1 .. Len(grants)
        <4>1. grants'[i] = grants[i] /\ at - grants[i] >= MinDelay /\ grants[i] \in Nat
          BY <3>1, <1>1, <1>3, <1>5
        <4> QED BY <4>1, <1>4
      <3>2. CASE i = Len(grants) + 1
        BY <3>2, <1>3, <1>4
      <3> QED BY <3>1, <3>2, <1>1, <1>3
    <2>3. last' <= now' /\ Epoch <= now' /\ last' = grants'[Len(grants')]
      BY <1>1, <1>3, <1>4 DEF LimiterInv, History
    <2> QED BY <2>1, <2>2, <2>3, <1>3 DEF History
  <1>11. PoppedAreOld'
    <2>1. ASSUME NEW i \in 1 .. popped' PROVE grants'[i] + Window < now'
      <3>1. i \in 1 .. Len(grants) /\ grants[i] + Window < at
        BY <1>1, <1>2
      <3> QED BY <3>1, <1>3
    <2> QED BY <2>1 DEF PoppedAreOld
  <1>12. DequeBounded'
    <2>1. Queued' <= Rpm + 1
      BY <1>1, <1>2, <1>4 DEF Queued
    <2>2. ASSUME Queued' = Rpm + 1 PROVE grants'[popped' + 1] + Window <= last'
      <3>1. /\ Queued - k = Rpm
            /\ popped' + 1 = popped + k + 1
            /\ popped' + 1 \in 1 .. Len(grants)
        BY <2>2, <1>1, <1>2, <1>4 DEF Queued
      <3>2. grants'[popped' + 1] = grants[popped + k + 1]
        BY <3>1, <1>3
      <3> QED BY <3>1, <3>2, <1>4
    <2> QED BY <2>1, <2>2 DEF DequeBounded
  <1>13. Sleepers'
    BY DEF LimiterInv, LimiterTypeOK, LockDiscipline, Sleepers, Grant
  <1> QED BY <1>7, <1>8, <1>9, <1>10, <1>11, <1>12, <1>13 DEF LimiterInv

\* From the sweep at time "at" to the next sleep or the grant.
LEMMA PaceInv ==
  ASSUME NEW t \in Threads, LimiterInv, holder \in {NoThread, t},
         NEW at \in Nat, at >= now, at >= last + MinDelay, now' = at,
         Pace(t, at)
  PROVE  LimiterInv' /\ [Promise!Issue]_grants
  <1>1. PICK k \in 0 .. Queued :
          /\ Pops(k, at)
          /\ \/ Full(k, at) /\ Sleep(t, "full", grants[popped + k + 1] + Window)
             \/ ~ Full(k, at) /\ Grant(t, at)
    BY DEF Pace
  <1>2. CASE Full(k, at) /\ Sleep(t, "full", grants[popped + k + 1] + Window)
    <2>1. LimiterInv'
      BY <1>1, <1>2, FullInv
    <2>2. UNCHANGED grants
      BY <1>2 DEF Sleep
    <2> QED BY <2>1, <2>2
  <1>3. CASE ~ Full(k, at) /\ Grant(t, at)
    <2>1. ASSUME Queued - k = Rpm PROVE grants[popped + k + 1] + Window <= at
      <3>1. /\ Len(grants) \in Nat /\ popped \in 0 .. Len(grants)
            /\ \A i \in 1 .. Len(grants) : grants[i] \in Nat
        BY DEF LimiterInv, LimiterTypeOK
      <3>2. popped + k + 1 \in 1 .. Len(grants) /\ Queued - k >= Rpm
        BY <2>1, <3>1, LimiterAssumption DEF Queued
      <3>3. grants[popped + k + 1] + Window \in Nat
        BY <3>1, <3>2, LimiterAssumption
      <3> QED BY <1>3, <3>2, <3>3 DEF Full
    <2> QED BY <1>1, <1>3, <2>1, GrantInv
  <1> QED BY <1>1, <1>2, <1>3

LEMMA EnterInv ==
  ASSUME NEW t \in Threads, LimiterInv, Enter(t)
  PROVE  LimiterInv' /\ [Promise!Issue]_grants
  <1>1. holder = NoThread /\ now \in Nat /\ last \in Nat /\ now' = now
    BY DEF Enter, LimiterInv, LimiterTypeOK
  <1>2. CASE now - last < MinDelay /\ Sleep(t, "gap", last + MinDelay) /\ UNCHANGED popped
    <2>1. LimiterInv'
      BY <1>1, <1>2, GapInv
    <2>2. UNCHANGED grants
      BY <1>2 DEF Sleep
    <2> QED BY <2>1, <2>2
  <1>3. CASE now - last >= MinDelay /\ Pace(t, now)
    <2>1. PICK at \in Nat : at = now
      BY <1>1
    <2>2. at >= last + MinDelay /\ at >= now /\ now' = at /\ Pace(t, at)
      BY <1>1, <1>3, <2>1, LimiterAssumption
    <2> QED BY <1>1, <2>2, PaceInv
  <1> QED BY <1>2, <1>3 DEF Enter

LEMMA AfterGapInv ==
  ASSUME NEW t \in Threads, LimiterInv, AfterGap(t)
  PROVE  LimiterInv' /\ [Promise!Issue]_grants
  <1>1. /\ now \in Nat /\ last \in Nat /\ wake[t] \in Nat
        /\ holder = t /\ wake[t] = last + MinDelay
    BY DEF AfterGap, LimiterInv, LimiterTypeOK, LockDiscipline, Sleepers
  <1>2. PICK at \in Nat : at = now' /\ at >= now /\ at >= wake[t]
    BY <1>1, WakeTimeType DEF AfterGap
  <1>3. Pace(t, at)
    BY <1>2 DEF AfterGap
  <1> QED BY <1>1, <1>2, <1>3, PaceInv

LEMMA AfterFullInv ==
  ASSUME NEW t \in Threads, LimiterInv, AfterFull(t)
  PROVE  LimiterInv' /\ [Promise!Issue]_grants
  <1>1. /\ now \in Nat /\ last \in Nat /\ wake[t] \in Nat
        /\ holder = t /\ last + MinDelay <= now /\ Queued = Rpm
        /\ wake[t] = grants[popped + 1] + Window
    BY DEF AfterFull, LimiterInv, LimiterTypeOK, LockDiscipline, Sleepers
  <1>2. PICK at \in Nat : at = now' /\ at >= now /\ at >= wake[t]
    BY <1>1, WakeTimeType DEF AfterFull
  <1>3. PICK k \in 0 .. Queued : Pops(k, at)
    BY <1>2 DEF AfterFull
  <1>4. Grant(t, at) /\ now' = at /\ at >= last + MinDelay
    BY <1>1, <1>2, LimiterAssumption DEF AfterFull
  <1>5. ASSUME Queued - k = Rpm PROVE grants[popped + k + 1] + Window <= at
    <2>1. k = 0
      BY <1>1, <1>5, LimiterAssumption
    <2> QED BY <2>1, <1>1, <1>2 DEF LimiterInv, LimiterTypeOK
  <1> QED BY <1>1, <1>2, <1>3, <1>4, <1>5, GrantInv

LEMMA LimiterNextInv ==
  LimiterInv /\ [LimiterNext]_lvars => LimiterInv' /\ [Promise!Issue]_grants
  <1> SUFFICES ASSUME LimiterInv, [LimiterNext]_lvars
               PROVE  LimiterInv' /\ [Promise!Issue]_grants
    OBVIOUS
  <1>1. ASSUME NEW t \in Threads, Arrive(t), Passes
        PROVE  LimiterInv' /\ [Promise!Issue]_grants
    BY <1>1, ArriveInv DEF Arrive
  <1>2. ASSUME NEW t \in Threads, LimiterStep(t)
        PROVE  LimiterInv' /\ [Promise!Issue]_grants
    BY <1>2, EnterInv, AfterGapInv, AfterFullInv DEF LimiterStep
  <1>3. CASE LimiterIdle
    BY <1>3, IdleInv DEF LimiterIdle, limiterVars
  <1>4. CASE UNCHANGED lvars
    <2>1. LimiterIdle
      BY <1>4 DEF LimiterIdle, Passes, lvars, LimiterInv, LimiterTypeOK
    <2> QED BY <1>3, <2>1
  <1> QED BY <1>1, <1>2, <1>3, <1>4 DEF LimiterNext

------------------------------------------------------------------------------

\* The inductive invariant holds of every limiter, whoever calls it when.
THEOREM LimiterInvariant == LimiterSpec => []LimiterInv
  <1>1. now = Epoch /\ LimiterInit => LimiterInv
    BY InitInv
  <1>2. LimiterInv /\ [LimiterNext]_lvars => LimiterInv'
    BY LimiterNextInv
  <1> QED BY <1>1, <1>2, PTL DEF LimiterSpec, lvars

\* Whoever sleeps in wait_if_needed holds the lock, and who holds it sleeps.
THEOREM LimiterSafe == LimiterSpec => []LockDiscipline
  <1>1. LimiterInv => LockDiscipline
    BY DEF LimiterInv
  <1> QED BY <1>1, LimiterInvariant, PTL

\* _times of wait_if_needed never outgrows rpm and one entry, which is then at
\* the edge of the window, although nothing but the two sweeps takes entries away.
THEOREM LimiterDequeBounded == LimiterSpec => []DequeBounded
  <1>1. LimiterInv => DequeBounded
    BY DEF LimiterInv
  <1> QED BY <1>1, LimiterInvariant, PTL

\* wait_if_needed implements Pacing: no two grants are closer than min_delay
\* and none is closer than 60 seconds to the one rpm places before.
THEOREM LimiterPaces == LimiterSpec => KeepsPromise
  <1>1. now = Epoch /\ LimiterInit => Promise!Init
    BY DEF LimiterInit, Promise!Init
  <1>2. LimiterInv /\ [LimiterNext]_lvars => [Promise!Issue]_grants
    BY LimiterNextInv
  <1> QED
    BY <1>1, <1>2, LimiterInvariant, PTL DEF LimiterSpec, KeepsPromise, Promise!Spec, lvars

------------------------------------------------------------------------------

\* What Pacing's promise comes to after any number of grants.
Spaced ==
  \A i, j \in 1 .. Len(grants) : j = i + Rpm => grants[i] + Window <= grants[j]

\* The grants of the window that begins at s.
InWindow(s) == {i \in 1 .. Len(grants) : s <= grants[i] /\ grants[i] < s + Window}

WindowsKept == \A s \in Nat : Cardinality(InWindow(s)) <= Rpm

LEMMA SpacedNext == LimiterInv /\ Spaced /\ [Promise!Issue]_grants => Spaced'
  <1> SUFFICES ASSUME LimiterInv, Spaced, [Promise!Issue]_grants PROVE Spaced'
    OBVIOUS
  <1>1. CASE grants' = grants
    BY <1>1 DEF Spaced
  <1>2. CASE Promise!Issue
    <2>1. PICK u \in Nat : grants' = Append(grants, u) /\ Promise!MayGrant(grants, u)
      BY <1>2 DEF Promise!Issue
    <2>2. PICK g : g = grants
      OBVIOUS
    <2>3. PICK more : more = Append(g, u)
      OBVIOUS
    <2>4. PICK n \in Nat, r \in Nat \ {0} : n = Len(g) /\ r = Rpm
      BY <2>2, LimiterAssumption DEF LimiterInv, LimiterTypeOK
    <2>5. /\ Len(more) = n + 1
          /\ \A i \in 1 .. n : more[i] = g[i] /\ g[i] \in Nat
          /\ more[n + 1] = u
      BY <2>2, <2>3, <2>4 DEF LimiterInv, LimiterTypeOK
    <2>6. \A i \in 1 .. n : i = n + 1 - r => u - g[i] >= Window
      BY <2>1, <2>2, <2>4 DEF Promise!MayGrant
    <2>7. ASSUME NEW i \in 1 .. n + 1, NEW j \in 1 .. n + 1, j = i + r
          PROVE  more[i] + Window <= more[j]
      <3>1. i \in 1 .. n
        BY <2>7
      <3>2. CASE j \in 1 .. n
        <4>1. g[i] + Window <= g[j]
          BY <2>2, <2>4, <2>7, <3>1, <3>2 DEF Spaced
        <4> QED BY <2>5, <3>1, <3>2, <4>1
      <3>3. CASE j = n + 1
        <4>1. i = n + 1 - r
          BY <2>7, <3>3
        <4>2. PICK v \in Nat : v = g[i] /\ more[i] = v
          BY <2>5, <3>1
        <4>3. u - v >= Window
          BY <2>6, <3>1, <4>1, <4>2
        <4> QED BY <2>5, <3>3, <4>2, <4>3, LimiterAssumption
      <3> QED BY <3>2, <3>3
    <2>8. grants' = more
      BY <2>1, <2>2, <2>3
    <2> QED BY <2>4, <2>5, <2>7, <2>8 DEF Spaced
  <1> QED BY <1>1, <1>2

\* Every nonempty set of numbers has a least one.
LEMMA LeastExists ==
  ASSUME NEW ns, ns \subseteq Nat, ns # {}
  PROVE  \E n \in ns : \A m \in ns : n <= m
  <1> DEFINE R == OpToRel(<, Nat)
  <1>1. IsWellFoundedOn(R, Nat)
    BY NatLessThanWellFounded
  <1>2. \A x, y \in Nat : x < y => <<x, y>> \in R
    BY DEF OpToRel
  <1> HIDE DEF R
  <1>3. PICK n \in ns : \A m \in ns : ~ (<<m, n>> \in R)
    BY <1>1, WFMin
  <1>4. \A m \in ns : ~ (m < n)
    BY <1>2, <1>3
  <1> QED BY <1>4

\* From the first grant of a window on only Rpm places are in it.
LEMMA SpacedWindows == LimiterInv /\ Spaced => WindowsKept
  <1> SUFFICES ASSUME LimiterInv, Spaced, NEW s \in Nat PROVE Cardinality(InWindow(s)) <= Rpm
    BY DEF WindowsKept
  <1>1. PICK n \in Nat : n = Len(grants)
    BY DEF LimiterInv, LimiterTypeOK
  <1>2. /\ \A i \in 1 .. n : grants[i] \in Nat
        /\ \A i, j \in 1 .. n : i < j => grants[i] <= grants[j]
        /\ \A i, j \in 1 .. n : j = i + Rpm => grants[i] + Window <= grants[j]
    <2>1. \A i \in 1 .. n : grants[i] \in Nat
      BY <1>1 DEF LimiterInv, LimiterTypeOK
    <2>2. \A i, j \in 1 .. n : i < j => grants[i] + MinDelay <= grants[j]
      BY <1>1 DEF LimiterInv, History
    <2>3. \A a, b \in Nat : a + MinDelay <= b => a <= b
      BY LimiterAssumption
    <2>4. \A i, j \in 1 .. n : j = i + Rpm => grants[i] + Window <= grants[j]
      BY <1>1 DEF Spaced
    <2> QED BY <2>1, <2>2, <2>3, <2>4
  <1>3. CASE InWindow(s) = {}
    BY <1>3, FS_EmptySet, LimiterAssumption
  <1>4. CASE InWindow(s) # {}
    <2>1. PICK i \in InWindow(s) : \A j \in InWindow(s) : i <= j
      <3>1. InWindow(s) \subseteq Nat
        BY <1>1 DEF InWindow
      <3> QED BY <1>4, <3>1, LeastExists
    <2>2. i \in 1 .. n /\ s <= grants[i]
      BY <1>1 DEF InWindow
    <2>3. \A j \in InWindow(s) : j < i + Rpm
      <3> SUFFICES ASSUME NEW j \in InWindow(s), ~ (j < i + Rpm) PROVE FALSE
        OBVIOUS
      <3>1. j \in 1 .. n /\ grants[j] < s + Window
        BY <1>1 DEF InWindow
      <3>2. i + Rpm \in 1 .. n /\ (i + Rpm < j \/ i + Rpm = j)
        BY <2>2, <3>1, LimiterAssumption
      <3>3. grants[i] + Window <= grants[i + Rpm]
        BY <1>2, <2>2, <3>2
      <3>4. grants[i + Rpm] <= grants[j]
        BY <1>2, <3>1, <3>2
      <3>5. PICK a \in Nat, b \in Nat, c \in Nat :
              a = grants[i] /\ b = grants[i + Rpm] /\ c = grants[j]
        BY <1>2, <2>2, <3>1, <3>2
      <3> QED BY <2>2, <3>1, <3>3, <3>4, <3>5, LimiterAssumption
    <2>4. PICK r \in Nat \ {0} : r = Rpm
      BY LimiterAssumption
    <2>5. InWindow(s) \subseteq i .. i + r - 1
      <3>1. \A j \in InWindow(s) : j \in Nat /\ i <= j /\ j < i + r
        BY <2>1, <2>3, <2>4 DEF InWindow
      <3>2. \A j \in Nat : i <= j /\ j < i + r => j \in i .. i + r - 1
        BY <2>2
      <3> QED BY <3>1, <3>2
    <2>6. IsFiniteSet(i .. i + r - 1) /\ Cardinality(i .. i + r - 1) = r
      <3>1. /\ IsFiniteSet(i .. i + r - 1)
            /\ Cardinality(i .. i + r - 1) = IF i > i + r - 1 THEN 0 ELSE i + r - 1 - i + 1
        BY <2>2, FS_Interval
      <3>2. (IF i > i + r - 1 THEN 0 ELSE i + r - 1 - i + 1) = r
        BY <2>2
      <3> QED BY <3>1, <3>2
    <2> QED BY <2>4, <2>5, <2>6, FS_Subset
  <1> QED BY <1>3, <1>4

\* What the caller of wait_if_needed relies on: no window of 60 seconds, wherever
\* it begins, holds more than rpm grants.
THEOREM LimiterWindowsKept == LimiterSpec => []WindowsKept
  <1>1. now = Epoch /\ LimiterInit => Spaced
    BY DEF LimiterInit, Spaced
  <1>2. LimiterInv /\ Spaced /\ [LimiterNext]_lvars => Spaced'
    BY LimiterNextInv, SpacedNext
  <1>3. LimiterSpec => [](LimiterInv /\ Spaced)
    BY <1>1, <1>2, LimiterInvariant, PTL DEF LimiterSpec, lvars
  <1> QED BY <1>3, SpacedWindows, PTL

==============================================================================
