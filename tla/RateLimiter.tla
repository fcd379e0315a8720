----------------------------- MODULE RateLimiter -----------------------------
(***************************************************************************)
(* core/llm/rate_limiter.py, class RateLimiter: one instance, shared by    *)
(* every thread that uses its LLMProvider.  wait_if_needed holds the       *)
(* instance's lock from its first line to its last, and sleeps with it; a  *)
(* call is therefore cut where it waits for the lock and where it sleeps,  *)
(* and what lies between is one action.                                    *)
(*                                                                         *)
(* The deque _times is a suffix of the history of all grants: popleft      *)
(* advances "popped", append extends "grants".                             *)
(***************************************************************************)
EXTENDS Clock, Sequences

CONSTANTS
  Threads,    \* the threads that call wait_if_needed
  NoThread,   \* holder of the lock when nobody has it
  Rpm,        \* rpm: grants per window
  MinDelay,   \* min_delay between two grants
  Window      \* the 60 seconds of rpm

\* The clock starts at a date past 1970, so the first caller finds
\* now - _last far above min_delay.
ASSUME LimiterAssumption ==
  /\ NoThread \notin Threads
  /\ Rpm \in Nat \ {0}
  /\ MinDelay \in Nat \ {0}
  /\ Window \in Nat
  /\ Epoch >= MinDelay

VARIABLES
  phase,    \* where each thread is in wait_if_needed
  wake,     \* the deadline of its sleep there
  holder,   \* who holds _lock
  last,     \* _last
  grants,   \* the time of every grant so far, oldest first
  popped    \* how many of them popleft has removed from _times

limiterVars == <<phase, wake, holder, last, grants, popped>>

Phases == {"out", "waiting", "gap", "full"}

\* _times
Times == SubSeq(grants, popped + 1, Len(grants))

Queued == Len(grants) - popped

LimiterInit ==
  /\ phase = [t \in Threads |-> "out"]
  /\ wake = [t \in Threads |-> 0]
  /\ holder = NoThread
  /\ last = 0
  /\ grants = <<>>
  /\ popped = 0

\* Thread t calls wait_if_needed and queues for the lock.
Arrive(t) ==
  /\ phase[t] = "out"
  /\ phase' = [phase EXCEPT ![t] = "waiting"]
  /\ UNCHANGED <<wake, holder, last, grants, popped>>

\* Mutant of Sleep: the lock is let go for the time of the sleep.
SleepUnlocked(t, ph, deadline) ==
  /\ phase' = [phase EXCEPT ![t] = ph]
  /\ wake' = [wake EXCEPT ![t] = deadline]
  /\ UNCHANGED <<holder, last, grants>>

\* Thread t goes to sleep with the lock in its hands.
Sleep(t, ph, deadline) ==
  /\ phase' = [phase EXCEPT ![t] = ph]
  /\ wake' = [wake EXCEPT ![t] = deadline]
  /\ holder' = t
  /\ UNCHANGED <<last, grants>>

\* Mutant of Grant: _last is not updated.
GrantForgetsLast(t, at) ==
  /\ grants' = Append(grants, at)
  /\ holder' = NoThread
  /\ phase' = [phase EXCEPT ![t] = "out"]
  /\ UNCHANGED <<wake, last>>

\* Mutant of Grant: the lock is not released.
GrantKeepsLock(t, at) ==
  /\ grants' = Append(grants, at)
  /\ last' = at
  /\ holder' = t
  /\ phase' = [phase EXCEPT ![t] = "out"]
  /\ UNCHANGED wake

\* _times.append(now); _last = now; the lock is released on return.
Grant(t, at) ==
  /\ grants' = Append(grants, at)
  /\ last' = at
  /\ holder' = NoThread
  /\ phase' = [phase EXCEPT ![t] = "out"]
  /\ UNCHANGED wake

\* The loop  while _times and _times[0] < at - 60: popleft()  removes k entries.
Pops(k, at) ==
  /\ k \in 0 .. Queued
  /\ \A i \in 1 .. k : grants[popped + i] < at - Window
  /\ k < Queued => grants[popped + k + 1] >= at - Window
  /\ popped' = popped + k

\* Mutant of Full: one more entry than rpm is let through.
FullOffByOne(k, at) ==
  /\ Queued - k > Rpm
  /\ grants[popped + k + 1] + Window > at

\* After k pops the window still holds rpm entries: sleep until the oldest
\* of them is 60 seconds old.
Full(k, at) ==
  /\ Queued - k >= Rpm
  /\ grants[popped + k + 1] + Window > at

\* From the sweep at time "at" to the grant or the second sleep.  When no
\* sleep is needed the second sweep runs at the same time and pops nothing.
Pace(t, at) ==
  \E k \in 0 .. Queued :
    /\ Pops(k, at)
    /\ \/ Full(k, at) /\ Sleep(t, "full", grants[popped + k + 1] + Window)
       \/ ~ Full(k, at) /\ Grant(t, at)

\* Thread t gets the lock.  The lock is not fair: any waiter may be next.
Enter(t) ==
  /\ phase[t] = "waiting"
  /\ holder = NoThread
  /\ \/ /\ now - last < MinDelay
        /\ Sleep(t, "gap", last + MinDelay)
        /\ UNCHANGED popped
     \/ /\ now - last >= MinDelay
        /\ Pace(t, now)
  /\ UNCHANGED now

\* The sleep for min_delay ends.
AfterGap(t) ==
  /\ phase[t] = "gap"
  /\ now' = WakeTime(wake[t])
  /\ Pace(t, now')

\* The sleep for the full window ends; the second sweep and the grant.
AfterFull(t) ==
  /\ phase[t] = "full"
  /\ now' = WakeTime(wake[t])
  /\ \E k \in 0 .. Queued : Pops(k, now')
  /\ Grant(t, now')

LimiterStep(t) == Enter(t) \/ AfterGap(t) \/ AfterFull(t)

\* Time passes and no thread moves in wait_if_needed.
LimiterIdle == Passes /\ UNCHANGED limiterVars

LimiterNext ==
  \/ \E t \in Threads : (Arrive(t) /\ Passes) \/ LimiterStep(t)
  \/ LimiterIdle

\* The limiter under every sequence of calls its callers could make.
LimiterSpec ==
  /\ now = Epoch /\ LimiterInit
  /\ [][LimiterNext]_<<now, limiterVars>>

------------------------------------------------------------------------------

LimiterTypeOK ==
  /\ now \in Nat
  /\ phase \in [Threads -> Phases]
  /\ wake \in [Threads -> Nat]
  /\ holder \in Threads \cup {NoThread}
  /\ last \in Nat
  /\ grants \in Seq(Nat)
  /\ popped \in 0 .. Len(grants)

\* A thread sleeps in the limiter exactly while it holds the lock, so two
\* threads never sleep there at once and nobody reads _times meanwhile.
LockDiscipline ==
  \A t \in Threads : phase[t] \in {"gap", "full"} <=> holder = t

(***************************************************************************)
(* _times never outgrows rpm + 1 entries, and the extra one is there only  *)
(* at the edge: it is already a full Window old when the last grant is     *)
(* made, so the next sweep removes it.  (With min_delay = 0 the next sweep *)
(* could run in the same tick and leave it.)                               *)
(***************************************************************************)
DequeBounded ==
  /\ Queued <= Rpm + 1
  /\ Queued = Rpm + 1 => grants[popped + 1] + Window <= last

\* The abstract promise of Pacing, whose history is this module's own.
Promise == INSTANCE Pacing

\* wait_if_needed, with its lock, its sleeps and its pruned deque, gives its
\* callers exactly what Pacing says: both delays are kept at every grant.
KeepsPromise == Promise!Spec

==============================================================================
