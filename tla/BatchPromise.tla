----------------------------- MODULE BatchPromise -----------------------------
(***************************************************************************)
(* What BatchAnalyser.run() promises its caller, without threads, futures  *)
(* or callbacks: each sample's analysis is decided once, and the batch is  *)
(* over only after that.  It returns when every sample completed or        *)
(* failed, it raises only because some analysis ended in an exception, and *)
(* from then on nothing more is decided behind the caller's back.          *)
(***************************************************************************)
EXTENDS Naturals

CONSTANT Samples

VARIABLES
  fate,      \* of each sample: pending, completed, failed or lost
  outcome    \* of run(): open, returned or raised

Init ==
  /\ fate = [s \in Samples |-> "pending"]
  /\ outcome = "open"

Decide(s) ==
  /\ outcome = "open"
  /\ fate[s] = "pending"
  /\ \E f \in {"completed", "failed", "lost"} : fate' = [fate EXCEPT ![s] = f]
  /\ UNCHANGED outcome

Return ==
  /\ outcome = "open"
  /\ \A s \in Samples : fate[s] \in {"completed", "failed"}
  /\ outcome' = "returned"
  /\ UNCHANGED fate

Raise ==
  /\ outcome = "open"
  /\ \E s \in Samples : fate[s] = "lost"
  /\ outcome' = "raised"
  /\ UNCHANGED fate

Next == Return \/ Raise \/ \E s \in Samples : Decide(s)

Spec == Init /\ [][Next]_<<fate, outcome>>

==============================================================================
