---------------------------- MODULE MCRateLimiter ----------------------------
(***************************************************************************)
(* RateLimiter alone, under every pattern of calls of a few threads.       *)
(***************************************************************************)
EXTENDS RateLimiter, TLC

CONSTANT MaxGrants   \* bound: no further grant is explored after so many

Symmetric == Permutations(Threads)

GrantBound == Len(grants) <= MaxGrants

MCNext ==
  \/ \E t \in Threads : Arrive(t) /\ UNCHANGED now
  \/ \E t \in Threads : LimiterStep(t)
  \/ Elapse /\ UNCHANGED limiterVars

MCInit == now = Epoch /\ LimiterInit

MCSpec == MCInit /\ [][MCNext]_<<now, limiterVars>>

==============================================================================
