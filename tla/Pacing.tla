-------------------------------- MODULE Pacing --------------------------------
(***************************************************************************)
(* What a rate limiter promises its callers, without threads, locks or     *)
(* sleeps: a history of grants that grows one grant at a time, each at     *)
(* least MinDelay after the one before and at least Window after the one   *)
(* Rpm places before.                                                      *)
(***************************************************************************)
EXTENDS Integers, Sequences

CONSTANTS Rpm, MinDelay, Window

VARIABLE grants

\* The history g may be extended by a grant at time u.
MayGrant(g, u) ==
  /\ \A i \in 1 .. Len(g) : u - g[i] >= MinDelay
  /\ \A i \in 1 .. Len(g) : i = Len(g) + 1 - Rpm => u - g[i] >= Window

Init == grants = <<>>

\* One grant is issued.  The time of the grant is read off the new history, so
\* that a step can be tested against Next without enumerating all times.
Issue ==
  LET u == grants'[Len(grants')]
  IN  /\ Len(grants') = Len(grants) + 1
      /\ u \in Nat
      /\ MayGrant(grants, u)
      /\ grants' = Append(grants, u)

Spec == Init /\ [][Issue]_grants

==============================================================================
