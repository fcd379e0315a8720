----------------------------- MODULE BatchProofs -----------------------------
(***************************************************************************)
(* Batch for every number of samples, every max_parallel and every order   *)
(* in which the pool finishes: each sample is returned once, with the      *)
(* status its callback was told, a shared import names the samples that    *)
(* have it, whatever the limits on imports, and run() implements           *)
(* BatchPromise.                                                           *)
(*                                                                         *)
(* The argument.  Nothing is decided behind the caller's back because of   *)
(* what `main' knows of the calls of _analyse when it leaves run(): a      *)
(* sequential run has at most one call under way, the one that raised      *)
(* (Loop); a pool is closed only when all of them are over.  Every sample  *)
(* is in the result because as many different samples as there are entries *)
(* were collected, and a subset of 1 .. Count with Count members is all of *)
(* it (Results).                                                           *)
(***************************************************************************)
EXTENDS Batch, FiniteSetTheorems, TLAPS

Types ==
  /\ maxParallel \in Parallelisms
  /\ main \in {"running", "closing", "returned", "raised"}
  /\ submitted \in 0 .. Count
  /\ stage \in [Samples ->
       {"none", "queued", "starting", "analysing", "reporting", "failing", "over"}]
  /\ sr \in [Samples -> [status : Statuses, result : Seq(Imports)]]
  /\ future \in [Samples -> {"none", "result", "exception"}]
  /\ heard \in [Samples -> {"nothing", "running", "completed", "failed"}]
  /\ results \in Seq(Samples)

\* Where the call of _analyse for s is and what its SampleResult and its
\* future say at that point.
Call(s) ==
  /\ stage[s] = "none" <=> s > submitted
  /\ stage[s] = "over" <=> future[s] # "none"
  /\ stage[s] = "reporting" => sr[s].status = "completed"
  /\ stage[s] = "failing" => sr[s].status = "failed"
  /\ future[s] = "result" =>
       sr[s].status = heard[s] /\ heard[s] \in {"completed", "failed"}

\* The entries of the batch result are results, each of another sample.
Results ==
  /\ \A s \in Collected : future[s] = "result"
  /\ Cardinality(Collected) = Len(results)

\* The sequential loop has collected everything it called but the last call.
Loop ==
  Sequential /\ main = "running" =>
    /\ Collected = 1 .. Len(results)
    /\ submitted = Len(results) \/ submitted = Len(results) + 1

\* run() is left when no call goes on.
Outcome ==
  /\ main = "closing" => \E s \in Samples : future[s] = "exception"
  /\ main = "raised" => /\ \A s \in Samples : stage[s] \in {"none", "over"}
                        /\ \E s \in Samples : future[s] = "exception"
  /\ main = "returned" => Len(results) = Count /\ Collected = Samples

BatchInv ==
  /\ Types
  /\ \A s \in Samples : Call(s)
  /\ Results
  /\ Loop
  /\ Outcome

------------------------------------------------------------------------------

LEMMA SamplesFinite ==
  IsFiniteSet(Samples) /\ Cardinality(Samples) = Count
  <1>1. 0 \in Int /\ 1 \in Int /\ Count \in Int /\ Count >= 0
    BY BatchAssumption
  <1>2. IsFiniteSet(1 .. Count) /\ Cardinality(1 .. Count) = IF 1 > Count THEN 0 ELSE Count - 1 + 1
    BY <1>1, FS_Interval
  <1> QED
    BY <1>1, <1>2 DEF Samples

LEMMA CollectedSubset ==
  ASSUME results \in Seq(Samples)
  PROVE  Collected \subseteq Samples /\ IsFiniteSet(Collected)
  <1>1. Collected \subseteq Samples
    BY DEF Collected
  <1> QED
    BY <1>1, SamplesFinite, FS_Subset

\* One more entry is one more member.
LEMMA CollectedAppend ==
  ASSUME results \in Seq(Samples), NEW s \in Samples, results' = Append(results, s)
  PROVE  /\ Collected' = Collected \cup {s}
         /\ Len(results') = Len(results) + 1
         /\ results' \in Seq(Samples)
  <1>1. /\ Len(results) \in Nat
        /\ Len(results') = Len(results) + 1
        /\ results' \in Seq(Samples)
        /\ \A k \in 1 .. Len(results) : results'[k] = results[k]
        /\ results'[Len(results) + 1] = s
    OBVIOUS
  <1>2. 1 .. Len(results') = (1 .. Len(results)) \cup {Len(results) + 1}
    BY <1>1
  <1>3. Collected' = {results'[k] : k \in 1 .. Len(results')}
    BY DEF Collected
  <1>4. Collected' = {results'[k] : k \in 1 .. Len(results)} \cup {results'[Len(results) + 1]}
    BY <1>2, <1>3
  <1>5. {results'[k] : k \in 1 .. Len(results)} = Collected
    BY <1>1 DEF Collected
  <1> QED
    BY <1>1, <1>4, <1>5

LEMMA InitInv == Init => BatchInv
  <1> SUFFICES ASSUME Init PROVE BatchInv
    OBVIOUS
  <1>1. Len(results) = 0 /\ Collected = {}
    BY DEF Init, Collected
  <1>2. Types
    BY BatchAssumption DEF Init, Types, Statuses
  <1>3. \A s \in Samples : Call(s)
    BY BatchAssumption DEF Init, Call, Samples
  <1>4. Results
    BY <1>1, FS_EmptySet DEF Results
  <1>5. Loop
    BY <1>1 DEF Init, Loop
  <1>6. Outcome
    BY DEF Init, Outcome
  <1> QED
    BY <1>2, <1>3, <1>4, <1>5, <1>6 DEF BatchInv

------------------------------------------------------------------------------

\* A SampleResult whose status or whose whole content is set is one still.
LEMMA SampleResultType ==
  ASSUME Types, NEW s \in Samples,
         \/ sr' = sr
         \/ \E status \in Statuses : sr' = [sr EXCEPT ![s].status = status]
         \/ \E status \in Statuses, report \in Seq(Imports) :
              sr' = [sr EXCEPT ![s] = [status |-> status, result |-> report]]
  PROVE  sr' \in [Samples -> [status : Statuses, result : Seq(Imports)]]
  <1>1. sr \in [Samples -> [status : Statuses, result : Seq(Imports)]]
    BY DEF Types
  <1>2. ASSUME NEW status \in Statuses, sr' = [sr EXCEPT ![s].status = status]
        PROVE  sr' \in [Samples -> [status : Statuses, result : Seq(Imports)]]
    BY <1>1, <1>2
  <1>3. ASSUME NEW status \in Statuses, NEW report \in Seq(Imports),
               sr' = [sr EXCEPT ![s] = [status |-> status, result |-> report]]
        PROVE  sr' \in [Samples -> [status : Statuses, result : Seq(Imports)]]
    BY <1>1, <1>3
  <1> QED
    BY <1>1, <1>2, <1>3

\* A step of one call that is under way leaves what run() knows alone.
LEMMA CallStep ==
  ASSUME BatchInv, Types', NEW s \in Samples,
         stage[s] \notin {"none", "over"}, stage'[s] # "none",
         UNCHANGED <<maxParallel, main, submitted, results>>,
         Call(s)',
         \A r \in Samples \ {s} : /\ stage'[r] = stage[r]
                                  /\ future'[r] = future[r]
                                  /\ sr'[r] = sr[r]
                                  /\ heard'[r] = heard[r]
  PROVE  BatchInv'
  <1>1. Collected' = Collected
    BY DEF Collected
  <1>2. \A r \in Samples : Call(r)'
    <2> TAKE r \in Samples
    <2>1. CASE r = s
      BY <2>1
    <2>2. CASE r # s
      BY <2>2 DEF BatchInv, Call
    <2> QED
      BY <2>1, <2>2
  <1>3. Collected \subseteq Samples
    BY CollectedSubset DEF BatchInv, Types
  <1>4. future[s] = "none"
    BY DEF BatchInv, Call
  <1>5. Results'
    BY <1>1, <1>3, <1>4 DEF BatchInv, Results
  <1>6. Loop'
    BY <1>1 DEF BatchInv, Loop, Sequential
  <1>7. Outcome'
    <2>1. main # "raised"
      BY DEF BatchInv, Outcome
    <2>2. \A r \in Samples : future[r] = "exception" => future'[r] = "exception"
      BY <1>4
    <2> QED
      BY <1>1, <2>1, <2>2 DEF BatchInv, Outcome
  <1> QED
    BY <1>2, <1>5, <1>6, <1>7 DEF BatchInv

LEMMA TakeInv ==
  ASSUME BatchInv, NEW s \in Samples, Take(s)
  PROVE  BatchInv'
  <1>1. Types'
    BY DEF BatchInv, Types, Take
  <1>2. stage[s] = "queued" /\ stage'[s] = "starting"
    BY DEF BatchInv, Types, Take, Turn
  <1>3. Call(s)'
    BY <1>2 DEF BatchInv, Call, Take
  <1> QED
    BY <1>1, <1>2, <1>3, CallStep DEF BatchInv, Types, Take

LEMMA AnnounceInv ==
  ASSUME BatchInv, NEW s \in Samples, Announce(s)
  PROVE  BatchInv'
  <1> USE DEF Announce, At, Tell, Go, Ends
  <1>1. stage[s] = "starting" /\ future[s] = "none"
    BY DEF BatchInv, Call
  <1>2. Types'
    <2>1. sr' = sr \/ sr' = [sr EXCEPT ![s].status = "running"]
      OBVIOUS
    <2>2. "running" \in Statuses /\ Types
      BY DEF Statuses, BatchInv
    <2>3. sr' = sr \/ \E status \in Statuses : sr' = [sr EXCEPT ![s].status = status]
      BY <2>1, <2>2, Zenon
    <2>4. sr' \in [Samples -> [status : Statuses, result : Seq(Imports)]]
      BY <2>2, <2>3, SampleResultType, Zenon
    <2> QED
      BY <2>4 DEF BatchInv, Types
  <1>3. stage'[s] \in {"analysing", "over"}
    BY DEF BatchInv, Types
  <1>4. Call(s)'
    <2>1. CASE stage'[s] = "analysing"
      BY <1>1, <2>1 DEF BatchInv, Types, Call
    <2>2. CASE stage'[s] = "over"
      BY <1>1, <2>2 DEF BatchInv, Types, Call
    <2> QED
      BY <1>3, <2>1, <2>2
  <1> QED
    BY <1>1, <1>2, <1>3, <1>4, CallStep DEF BatchInv, Types

LEMMA RunOrcaInv ==
  ASSUME BatchInv, NEW s \in Samples, RunOrca(s)
  PROVE  BatchInv'
  <1> USE DEF RunOrca, At, Tell, Go, Ends
  <1>1. stage[s] = "analysing" /\ future[s] = "none"
    BY DEF BatchInv, Call
  <1>2. Types'
    <2>1. \/ sr' = [sr EXCEPT ![s].status = "failed"]
          \/ \E report \in Seq(Imports) :
               sr' = [sr EXCEPT ![s] = [status |-> "completed", result |-> report]]
      <3>1. Reports \subseteq Seq(Imports)
        BY BatchAssumption
      <3>2. \/ sr' = [sr EXCEPT ![s].status = "failed"]
            \/ \E report \in Reports :
                 sr' = [sr EXCEPT ![s] = [status |-> "completed", result |-> report]]
        OBVIOUS
      <3> QED
        BY <3>1, <3>2
    <2>2. "failed" \in Statuses /\ "completed" \in Statuses /\ Types
      BY DEF Statuses, BatchInv
    <2>3. \/ \E status \in Statuses : sr' = [sr EXCEPT ![s].status = status]
          \/ \E status \in Statuses, report \in Seq(Imports) :
               sr' = [sr EXCEPT ![s] = [status |-> status, result |-> report]]
      BY <2>1, <2>2, Zenon
    <2>4. sr' \in [Samples -> [status : Statuses, result : Seq(Imports)]]
      BY <2>2, <2>3, SampleResultType, Zenon
    <2> QED
      BY <2>4 DEF BatchInv, Types
  <1>3. /\ stage'[s] = "reporting" => sr'[s].status = "completed"
        /\ stage'[s] = "failing" => sr'[s].status = "failed"
        /\ stage'[s] \in {"reporting", "failing"}
    BY DEF BatchInv, Types
  <1>4. Call(s)'
    BY <1>1, <1>3 DEF BatchInv, Call
  <1> QED
    BY <1>1, <1>2, <1>3, <1>4, CallStep DEF BatchInv, Types

LEMMA ReportCompletedInv ==
  ASSUME BatchInv, NEW s \in Samples, ReportCompleted(s)
  PROVE  BatchInv'
  <1> USE DEF ReportCompleted, At, Tell, Go, Ends
  <1>1. stage[s] = "reporting" /\ future[s] = "none" /\ sr[s].status = "completed"
    BY DEF BatchInv, Call
  <1>2. Types'
    <2>1. sr' = sr \/ sr' = [sr EXCEPT ![s].status = "failed"]
      OBVIOUS
    <2>2. "failed" \in Statuses /\ Types
      BY DEF Statuses, BatchInv
    <2>3. sr' = sr \/ \E status \in Statuses : sr' = [sr EXCEPT ![s].status = status]
      BY <2>1, <2>2, Zenon
    <2>4. sr' \in [Samples -> [status : Statuses, result : Seq(Imports)]]
      BY <2>2, <2>3, SampleResultType, Zenon
    <2> QED
      BY <2>4 DEF BatchInv, Types
  <1>3. /\ heard'[s] = "completed"
        /\ \/ stage'[s] = "over" /\ future'[s] = "result" /\ sr'[s].status = "completed"
           \/ stage'[s] = "failing" /\ future'[s] = "none" /\ sr'[s].status = "failed"
    BY <1>1 DEF BatchInv, Types
  <1>4. Call(s)'
    BY <1>1, <1>3 DEF BatchInv, Call
  <1> QED
    BY <1>1, <1>2, <1>3, <1>4, CallStep DEF BatchInv, Types

LEMMA ReportFailedInv ==
  ASSUME BatchInv, NEW s \in Samples, ReportFailed(s)
  PROVE  BatchInv'
  <1> USE DEF ReportFailed, At, Tell, Go, Ends
  <1>1. stage[s] = "failing" /\ future[s] = "none" /\ sr[s].status = "failed"
    BY DEF BatchInv, Call
  <1>2. Types'
    BY DEF BatchInv, Types
  <1>3. /\ heard'[s] = "failed" /\ sr'[s].status = "failed"
        /\ stage'[s] = "over" /\ future'[s] \in {"result", "exception"}
    BY <1>1 DEF BatchInv, Types
  <1>4. Call(s)'
    BY <1>1, <1>3 DEF BatchInv, Call
  <1> QED
    BY <1>1, <1>2, <1>3, <1>4, CallStep DEF BatchInv, Types

LEMMA HandOutInv ==
  ASSUME BatchInv, HandOut
  PROVE  BatchInv'
  <1> USE BatchAssumption
  <1>1. PICK n \in Nat : submitted = n /\ n < Count
    BY DEF BatchInv, Types, HandOut
  <1>2. submitted' = n + 1 /\ n + 1 \in Samples
    BY <1>1 DEF HandOut, Samples
  <1>3. stage[n + 1] = "none" /\ future[n + 1] = "none"
    BY <1>1, <1>2 DEF BatchInv, Call
  <1>4. PICK how \in {"starting", "queued"} : stage' = [stage EXCEPT ![n + 1] = how]
    BY <1>1 DEF HandOut, Go
  <1>5. Types'
    BY <1>1, <1>2, <1>4 DEF BatchInv, Types, HandOut
  <1>6. Collected' = Collected
    BY DEF Collected, HandOut
  <1>7. ASSUME NEW s \in Samples PROVE Call(s)'
    <2>1. s \in Nat
      BY DEF Samples
    <2>2. CASE s = n + 1
      BY <1>1, <1>2, <1>3, <1>4, <2>2 DEF BatchInv, Types, Call, HandOut
    <2>3. CASE s # n + 1
      <3>1. s > n <=> s > n + 1
        BY <2>1, <2>3
      <3>2. stage'[s] = stage[s]
        BY <1>4, <2>3 DEF BatchInv, Types
      <3> QED
        BY <1>1, <1>2, <3>1, <3>2 DEF BatchInv, Call, HandOut
    <2> QED
      BY <2>2, <2>3
  <1>8. Results'
    BY <1>6 DEF BatchInv, Results, HandOut
  <1>9. Loop'
    BY <1>1, <1>2, <1>6 DEF BatchInv, Loop, Sequential, HandOut
  <1>10. Outcome'
    BY <1>6 DEF BatchInv, Outcome, HandOut
  <1> QED
    BY <1>5, <1>7, <1>8, <1>9, <1>10 DEF BatchInv

LEMMA CollectInv ==
  ASSUME BatchInv, NEW s \in Samples, Collect(s)
  PROVE  BatchInv'
  <1> USE BatchAssumption
  <1>1. /\ Collected' = Collected \cup {s}
        /\ Len(results') = Len(results) + 1
        /\ results' \in Seq(Samples)
    BY CollectedAppend DEF BatchInv, Types, Collect
  <1>2. Types'
    BY <1>1 DEF BatchInv, Types, Collect
  <1>3. \A r \in Samples : Call(r)'
    BY DEF BatchInv, Call, Collect
  <1>4. s \notin Collected /\ future[s] = "result" /\ main = "running"
    BY DEF Collect, Ready
  <1>5. IsFiniteSet(Collected)
    BY CollectedSubset DEF BatchInv, Types
  <1>6. Cardinality(Collected') = Cardinality(Collected) + 1
    BY <1>1, <1>4, <1>5, FS_AddElement
  <1>7. Results'
    BY <1>1, <1>4, <1>6 DEF BatchInv, Results, Collect
  <1>8. Loop'
    <2> SUFFICES ASSUME Sequential, main = "running" PROVE Loop'
      BY DEF Loop, Sequential, Collect
    <2>1. PICK n \in Nat : n = Len(results)
      BY DEF BatchInv, Types
    <2>2. Collected = 1 .. n /\ (submitted = n \/ submitted = n + 1)
      BY <2>1 DEF BatchInv, Loop
    <2>3. stage[s] # "none"
      BY <1>4 DEF BatchInv, Call
    <2>4. s \in Nat /\ s >= 1 /\ ~ (s > submitted)
      BY <2>3 DEF BatchInv, Call, Samples
    <2>5. s = n + 1 /\ submitted = n + 1
      BY <1>4, <2>2, <2>4
    <2>6. Collected' = 1 .. n + 1
      BY <1>1, <2>2, <2>5
    <2> QED
      BY <1>1, <2>1, <2>5, <2>6 DEF Loop, Collect
  <1>9. Outcome'
    BY <1>4 DEF Outcome, Collect
  <1> QED
    BY <1>2, <1>3, <1>7, <1>8, <1>9 DEF BatchInv

LEMMA FailInv ==
  ASSUME BatchInv, NEW s \in Samples, Fail(s)
  PROVE  BatchInv'
  <1> USE BatchAssumption
  <1>1. /\ main = "running" /\ s \notin Collected /\ future[s] = "exception"
        /\ main' = IF Sequential THEN "raised" ELSE "closing"
        /\ UNCHANGED <<maxParallel, submitted, stage, sr, future, heard, results, shared>>
    BY DEF Fail, Ready
  <1>2. Types' /\ \A r \in Samples : Call(r)'
    BY <1>1 DEF BatchInv, Types, Call
  <1>3. Collected' = Collected
    BY <1>1 DEF Collected
  <1>4. Results' /\ Loop'
    BY <1>1, <1>3 DEF BatchInv, Results, Loop
  <1>5. Outcome'
    <2>1. CASE ~ Sequential
      BY <1>1, <2>1 DEF Outcome
    <2>2. CASE Sequential
      <3>1. PICK n \in Nat : n = Len(results)
        BY DEF BatchInv, Types
      <3>2. Collected = 1 .. n /\ (submitted = n \/ submitted = n + 1)
        BY <1>1, <2>2, <3>1 DEF BatchInv, Loop
      <3>3. stage[s] = "over"
        BY <1>1 DEF BatchInv, Call
      <3>4. s \in Nat /\ s >= 1 /\ ~ (s > submitted)
        BY <3>3 DEF BatchInv, Call, Samples
      <3>5. s = n + 1 /\ submitted = n + 1
        BY <1>1, <3>2, <3>4
      <3>6. ASSUME NEW r \in Samples PROVE stage[r] \in {"none", "over"}
        <4>1. r \in Nat /\ r >= 1
          BY DEF Samples
        <4>2. r \in Collected \/ r = s \/ r > submitted
          BY <3>2, <3>5, <4>1
        <4>3. r \in Collected => future[r] = "result"
          BY DEF BatchInv, Results
        <4> QED
          BY <3>3, <4>2, <4>3 DEF BatchInv, Call
      <3> QED
        BY <1>1, <2>2, <3>6 DEF Outcome
    <2> QED
      BY <2>1, <2>2
  <1> QED
    BY <1>2, <1>4, <1>5 DEF BatchInv

LEMMA CloseInv ==
  ASSUME BatchInv, Close
  PROVE  BatchInv'
  <1>1. Types' /\ \A r \in Samples : Call(r)'
    BY DEF BatchInv, Types, Call, Close
  <1>2. Collected' = Collected
    BY DEF Collected, Close
  <1>3. Results' /\ Loop' /\ Outcome'
    BY <1>2 DEF BatchInv, Results, Loop, Outcome, Close
  <1> QED
    BY <1>1, <1>3 DEF BatchInv

\* Count different samples are all samples.
LEMMA AllCollected ==
  ASSUME BatchInv, Len(results) = Count
  PROVE  Collected = Samples
  <1>1. Collected \subseteq Samples /\ Cardinality(Collected) = Cardinality(Samples)
    BY CollectedSubset, SamplesFinite DEF BatchInv, Types, Results
  <1> QED
    BY <1>1, SamplesFinite, FS_Subset

LEMMA CorrelateInv ==
  ASSUME BatchInv, Correlate
  PROVE  BatchInv'
  <1>1. Types' /\ \A r \in Samples : Call(r)'
    BY DEF BatchInv, Types, Call, Correlate
  <1>2. Collected' = Collected
    BY DEF Collected, Correlate
  <1>3. Results' /\ Loop'
    BY <1>2 DEF BatchInv, Results, Loop, Correlate
  <1>4. Outcome'
    BY <1>2, AllCollected DEF Outcome, Correlate
  <1> QED
    BY <1>1, <1>3, <1>4 DEF BatchInv

LEMMA NextInv == BatchInv /\ [Next]_batchVars => BatchInv'
  <1> SUFFICES ASSUME BatchInv, [Next]_batchVars PROVE BatchInv'
    OBVIOUS
  <1>1. ASSUME UNCHANGED batchVars PROVE BatchInv'
    <2>1. Collected' = Collected
      BY <1>1 DEF batchVars, Collected
    <2>2. Types' /\ \A s \in Samples : Call(s)'
      BY <1>1 DEF batchVars, BatchInv, Types, Call
    <2>3. Results' /\ Loop' /\ Outcome'
      BY <1>1, <2>1 DEF batchVars, BatchInv, Results, Loop, Sequential, Outcome
    <2> QED
      BY <2>2, <2>3 DEF BatchInv
  <1>2. CASE Main
    BY <1>2, HandOutInv, CloseInv, CorrelateInv, CollectInv, FailInv DEF Main
  <1>3. ASSUME NEW s \in Samples, Take(s) \/ Analyse(s) PROVE BatchInv'
    BY <1>3, TakeInv, AnnounceInv, RunOrcaInv, ReportCompletedInv, ReportFailedInv DEF Analyse
  <1> QED
    BY <1>1, <1>2, <1>3 DEF Next, Done

\* The inductive invariant: the calls of _analyse, their futures, the collected
\* results and where run() is agree in every state (core/batch.py:134-169).
THEOREM BatchInvariant == Spec => []BatchInv
  <1> QED
    BY InitInv, NextInv, PTL DEF Spec

\* run() gives back every sample once, whichever order the pool finished in.
THEOREM BatchEverySampleOnce == Spec => []EverySampleOnce
  <1>1. BatchInv => EverySampleOnce
    BY DEF BatchInv, Outcome, EverySampleOnce
  <1> QED
    BY <1>1, BatchInvariant, PTL

\* What the callback heard last about a collected sample is its status, also
\* when the callback itself raised (_analyse, core/batch.py:134-157).
THEOREM BatchHeardIsResult == Spec => []HeardIsResult
  <1>1. BatchInv => HeardIsResult
    <2> SUFFICES ASSUME BatchInv, NEW s \in Collected
                 PROVE  sr[s].status = heard[s] /\ heard[s] \in {"completed", "failed"}
      BY DEF HeardIsResult
    <2>1. s \in Samples
      BY CollectedSubset DEF BatchInv, Types
    <2> QED
      BY <2>1 DEF BatchInv, Results, Call
  <1> QED
    BY <1>1, BatchInvariant, PTL

------------------------------------------------------------------------------

(***************************************************************************)
(* What _cross_correlate reports.  It is written once, from the results    *)
(* and the records as they are at the end: after run() has returned no     *)
(* call is under way that could still change a record.                     *)
(***************************************************************************)
SharedTyped == shared \in [Imports -> SUBSET (1 .. Count)]

\* The imports in set are unusual ones, as many as may be reported.
Enough(set) ==
  /\ set \subseteq Unusual
  /\ Cardinality(set) <= SharedLimit
  /\ set = Unusual \/ Cardinality(set) = SharedLimit

Correlated ==
  main = "returned" =>
    \E set \in SUBSET Imports :
      /\ Enough(set)
      /\ \A i \in Imports : shared[i] = IF i \in set THEN Occurrences(i) ELSE {}

SharedInv == SharedTyped /\ Correlated

LEMMA SharedInitInv == Init => SharedInv
  <1> SUFFICES ASSUME Init PROVE SharedInv
    OBVIOUS
  <1>1. SharedTyped
    BY DEF Init, SharedTyped
  <1>2. main # "returned"
    BY DEF Init
  <1> QED
    BY <1>1, <1>2 DEF SharedInv, Correlated

\* When run() has returned, no step changes anything.
LEMMA ReturnedIsOver ==
  ASSUME BatchInv, main = "returned", [Next]_batchVars
  PROVE  UNCHANGED batchVars
  <1>1. \A s \in Samples : stage[s] = "over"
    BY DEF BatchInv, Outcome, Results, Call
  <1>2. \A s \in Samples : ~ Take(s) /\ ~ Analyse(s)
    BY <1>1 DEF Take, Turn, Analyse, Announce, RunOrca, ReportCompleted, ReportFailed, At
  <1>3. ~ Main
    BY DEF Main, HandOut, Close, Correlate, Collect, Fail, Ready
  <1> QED
    BY <1>2, <1>3 DEF Next, Done

\* Who has an import is a matter of the records and of the results.
LEMMA SameOccurrences ==
  ASSUME UNCHANGED <<sr, results>>
  PROVE  /\ \A i \in Imports : Occurrences(i)' = Occurrences(i)
         /\ Unusual' = Unusual
  <1>1. \A s, i : Has(s, i)' <=> Has(s, i)
    BY DEF Has, Lists
  <1>2. \A i \in Imports : Occurrences(i)' = Occurrences(i)
    BY <1>1 DEF Occurrences
  <1> QED
    BY <1>2 DEF Unusual

LEMMA SharedNextInv == BatchInv /\ SharedInv /\ [Next]_batchVars => SharedInv'
  <1> SUFFICES ASSUME BatchInv, SharedInv, [Next]_batchVars PROVE SharedInv'
    OBVIOUS
  <1>1. ASSUME Correlate PROVE SharedInv'
    <2>1. PICK set \in SUBSET Imports : FirstShared(set) /\ Report(set)
      BY <1>1 DEF Correlate
    <2>2. /\ Len(results) = Count
          /\ shared' = [i \in Imports |-> IF i \in set THEN Occurrences(i) ELSE {}]
      BY <1>1, <2>1 DEF Correlate, Report
    <2>3. \A i \in Imports : Occurrences(i) \subseteq 1 .. Count
      BY <2>2 DEF Occurrences
    <2>4. SharedTyped'
      BY <2>2, <2>3 DEF SharedTyped
    <2>5. UNCHANGED <<sr, results>>
      BY <1>1 DEF Correlate
    <2>6. Enough(set)'
      BY <2>1, <2>5, SameOccurrences DEF FirstShared, Enough
    <2>7. \A i \in Imports : shared'[i] = IF i \in set THEN Occurrences(i)' ELSE {}
      BY <2>2, <2>5, SameOccurrences
    <2>8. Correlated'
      BY <2>6, <2>7 DEF Correlated
    <2> QED
      BY <2>4, <2>8 DEF SharedInv
  <1>2. ASSUME ~ Correlate PROVE SharedInv'
    <2>1. UNCHANGED shared
      BY <1>2 DEF Next, Main, Done, batchVars, HandOut, Close, Collect, Fail, Take, Analyse,
                  Announce, RunOrca, ReportCompleted, ReportFailed
    <2>2. SharedTyped'
      BY <2>1 DEF SharedInv, SharedTyped
    <2>3. CASE main = "returned"
      <3>1. UNCHANGED batchVars
        BY <2>3, ReturnedIsOver
      <3>2. PICK set \in SUBSET Imports :
                   /\ Enough(set)
                   /\ \A i \in Imports : shared[i] = IF i \in set THEN Occurrences(i) ELSE {}
        BY <2>3 DEF SharedInv, Correlated
      <3>3. UNCHANGED <<sr, results, shared>>
        BY <3>1 DEF batchVars
      <3>4. Enough(set)'
        BY <3>2, <3>3, SameOccurrences DEF Enough
      <3>5. \A i \in Imports : shared'[i] = IF i \in set THEN Occurrences(i)' ELSE {}
        BY <3>2, <3>3, SameOccurrences
      <3>6. Correlated'
        BY <3>4, <3>5 DEF Correlated
      <3> QED
        BY <2>2, <3>6 DEF SharedInv
    <2>4. CASE main # "returned"
      <3>1. main' # "returned"
        BY <1>2, <2>4 DEF Next, Main, Done, batchVars, HandOut, Close, Collect, Fail, Take, Analyse,
                          Announce, RunOrca, ReportCompleted, ReportFailed
      <3> QED
        BY <2>2, <3>1 DEF SharedInv, Correlated
    <2> QED
      BY <2>3, <2>4
  <1> QED
    BY <1>1, <1>2

\* Count results that are all samples: no sample is there twice.
LEMMA ResultsOnce ==
  ASSUME results \in Seq(Samples), Len(results) = Count, Collected = Samples
  PROVE  \A j, k \in 1 .. Count : results[j] = results[k] => j = k
  <1>1. results \in [1 .. Count -> Samples]
    OBVIOUS
  <1>2. \A s \in Samples : \E k \in 1 .. Count : results[k] = s
    BY DEF Collected
  <1>3. results \in Surjection(1 .. Count, Samples)
    BY <1>1, <1>2 DEF Surjection
  <1>4. IsFiniteSet(1 .. Count) /\ Cardinality(1 .. Count) = Cardinality(Samples)
    BY SamplesFinite DEF Samples
  <1>5. results \in Injection(1 .. Count, Samples)
    BY <1>3, <1>4, FS_SurjSameCardinalityImpliesInj
  <1> QED
    BY <1>1, <1>5 DEF Injection, IsInjective

\* An import's occurrences are the samples that have it, one place for each.
LEMMA OccurrencesAreSamples ==
  ASSUME BatchInv, main = "returned", NEW i \in Imports, NEW having,
         having = {s \in Samples : heard[s] = "completed" /\ Has(s, i)}
  PROVE  /\ {results[k] : k \in Occurrences(i)} = having
         /\ Cardinality(Occurrences(i)) = Cardinality(having)
  <1>1. results \in Seq(Samples) /\ Len(results) = Count /\ Collected = Samples
    BY DEF BatchInv, Types, Outcome
  <1>2. \A s \in Samples : sr[s].status = heard[s]
    BY <1>1 DEF BatchInv, Results, Call
  <1>3. \A k \in 1 .. Count : results[k] \in Samples
    BY <1>1
  <1>4. Occurrences(i) = {k \in 1 .. Count : results[k] \in having}
    BY <1>1, <1>2, <1>3 DEF Occurrences
  <1>5. \A s \in having : \E k \in Occurrences(i) : results[k] = s
    BY <1>1, <1>4 DEF Collected
  <1>6. {results[k] : k \in Occurrences(i)} = having
    BY <1>4, <1>5
  <1>7. Cardinality(Occurrences(i)) = Cardinality(having)
    <2> DEFINE f == [k \in Occurrences(i) |-> results[k]]
    <2>1. f \in [Occurrences(i) -> having]
      BY <1>4
    <2>2. \A j, k \in Occurrences(i) : f[j] = f[k] => j = k
      BY <1>1, <1>4, ResultsOnce
    <2>3. \A s \in having : \E k \in Occurrences(i) : f[k] = s
      BY <1>5
    <2>4. f \in Bijection(Occurrences(i), having)
      BY <2>1, <2>2, <2>3 DEF Bijection, Injection, IsInjective, Surjection
    <2>5. ExistsBijection(Occurrences(i), having)
      BY <2>4 DEF ExistsBijection
    <2>6. IsFiniteSet(Occurrences(i))
      <3>1. IsFiniteSet(1 .. Count) /\ Occurrences(i) \in SUBSET (1 .. Count)
        BY <1>4, SamplesFinite DEF Samples
      <3> QED
        BY <3>1, FS_Subset
    <2> QED
      BY <2>5, <2>6, FS_Bijection
  <1> QED
    BY <1>6, <1>7

LEMMA SharedInvariant == Spec => [](BatchInv /\ SharedInv)
  <1> QED
    BY InitInv, NextInv, SharedInitInv, SharedNextInv, PTL DEF Spec

\* run() and the analyses it calls keep every record in its type: no sample is
\* handed out that was not added, no status is one that SampleResult does not
\* have, and the labels of a shared import come from results (core/batch.py:61-216).
THEOREM BatchTyped == Spec => []BatchTypeOK
  <1>1. BatchInv /\ SharedInv => BatchTypeOK
    BY DEF BatchInv, SharedInv, Types, SharedTyped, BatchTypeOK
  <1> QED
    BY <1>1, SharedInvariant, PTL

\* Whatever the order of the results, and however analyses failed, an import is
\* reported with exactly the completed samples that have it among the first
\* ImportLimit of their lists, each once, and only if some but not all samples do;
\* and one that qualifies is left out only where SharedLimit others are reported
\* (_cross_correlate, core/batch.py:171-216).
THEOREM BatchCorrelationExact == Spec => []CorrelationExact
  <1>1. BatchInv /\ SharedInv => CorrelationExact
    <2> SUFFICES ASSUME BatchInv, SharedInv, main = "returned" PROVE CorrelationExact
      BY DEF CorrelationExact
    <2> DEFINE having(i) == {s \in Samples : heard[s] = "completed" /\ Has(s, i)}
               reported == {i \in Imports : shared[i] # {}}
               unusual(i) == Cardinality(having(i)) \in 2 .. Count - 1
    <2>1. \A i \in Imports : /\ {results[k] : k \in Occurrences(i)} = having(i)
                            /\ Cardinality(Occurrences(i)) = Cardinality(having(i))
      BY OccurrencesAreSamples
    <2>2. PICK set \in SUBSET Imports :
                 /\ Enough(set)
                 /\ \A i \in Imports : shared[i] = IF i \in set THEN Occurrences(i) ELSE {}
      BY DEF SharedInv, Correlated
    <2>3. Len(results) = Count
      BY DEF BatchInv, Outcome
    <2> HIDE DEF having
    <2>4. \A i \in Imports : i \in Unusual <=> unusual(i)
      BY <2>1, <2>3 DEF Unusual
    <2>5. \A i \in Imports : unusual(i) => Occurrences(i) # {}
      <3> TAKE i \in Imports
      <3>1. Occurrences(i) = {} => Cardinality(Occurrences(i)) = 0
        BY FS_EmptySet
      <3> QED
        BY <2>1, <3>1
    <2>6. reported = set
      BY <2>2, <2>4, <2>5 DEF Enough
    <2>7. Cardinality(reported) <= SharedLimit
      BY <2>2, <2>6 DEF Enough
    <2>8. ASSUME NEW i \in Imports
          PROVE  /\ i \in reported => /\ unusual(i)
                                      /\ {results[k] : k \in shared[i]} = having(i)
                                      /\ Cardinality(shared[i]) = Cardinality(having(i))
                 /\ unusual(i) /\ i \notin reported => Cardinality(reported) = SharedLimit
      <3> HIDE DEF unusual, reported
      <3> QED
        BY <2>1, <2>2, <2>4, <2>6 DEF Enough
    <2> QED
      BY <2>7, <2>8 DEF CorrelationExact, having
  <1> QED
    BY <1>1, SharedInvariant, PTL

------------------------------------------------------------------------------

\* The mapped fate of one sample.
Fate(s) ==
  IF future[s] = "none" THEN "pending"
  ELSE IF future[s] = "exception" THEN "lost" ELSE sr[s].status

Fates == [s \in Samples |-> Fate(s)]

Openness == IF main \in {"running", "closing"} THEN "open" ELSE main

\* BatchPromise's actions, over the mapped state.
DecideStep(s) ==
  /\ Openness = "open"
  /\ Fates[s] = "pending"
  /\ \E f \in {"completed", "failed", "lost"} : Fates' = [Fates EXCEPT ![s] = f]
  /\ UNCHANGED Openness

PromiseStep ==
  \/ /\ Openness = "open"
     /\ \A s \in Samples : Fates[s] \in {"completed", "failed"}
     /\ Openness' = "returned"
     /\ UNCHANGED Fates
  \/ /\ Openness = "open"
     /\ \E s \in Samples : Fates[s] = "lost"
     /\ Openness' = "raised"
     /\ UNCHANGED Fates
  \/ \E s \in Samples : DecideStep(s)
  \/ UNCHANGED <<Fates, Openness>>

\* A step of a call that is under way decides its sample or nothing.
LEMMA CallDecides ==
  ASSUME BatchInv, NEW s \in Samples, Take(s) \/ Analyse(s)
  PROVE  PromiseStep
  <1>1. stage[s] \notin {"none", "over"} /\ future[s] = "none"
    BY DEF BatchInv, Call, Take, Turn, Analyse, Announce, RunOrca, ReportCompleted, ReportFailed, At
  <1>2. Openness = "open" /\ UNCHANGED Openness
    <2>1. main \in {"running", "closing"}
      <3>1. main # "raised"
        BY <1>1 DEF BatchInv, Outcome
      <3>2. main # "returned"
        BY <1>1 DEF BatchInv, Outcome, Results
      <3> QED
        BY <3>1, <3>2 DEF BatchInv, Types
    <2>2. UNCHANGED main
      BY DEF Take, Analyse, Announce, RunOrca, ReportCompleted, ReportFailed
    <2> QED
      BY <2>1, <2>2 DEF Openness
  <1>3. \A r \in Samples \ {s} : future'[r] = future[r] /\ sr'[r] = sr[r]
    BY DEF Take, Analyse, Announce, RunOrca, ReportCompleted, ReportFailed, Ends, BatchInv, Types
  <1>4. Fates[s] = "pending"
    BY <1>1 DEF Fates, Fate
  <1>5. Fate(s)' \in {"pending", "completed", "failed", "lost"}
    <2>1. BatchInv'
      BY NextInv DEF Next
    <2>2. /\ future'[s] \in {"none", "result", "exception"}
          /\ future'[s] = "result" => sr'[s].status \in {"completed", "failed"}
      BY <2>1 DEF BatchInv, Types, Call
    <2> QED
      BY <2>2 DEF Fate
  <1>6. Fates' = [Fates EXCEPT ![s] = Fate(s)']
    <2>1. Fates' = [r \in Samples |-> Fate(r)']
      BY DEF Fates
    <2>2. \A r \in Samples \ {s} : Fate(r)' = Fate(r)
      BY <1>3 DEF Fate
    <2> QED
      BY <2>1, <2>2 DEF Fates
  <1>7. CASE Fate(s)' = "pending"
    <2>1. Fates' = Fates
      BY <1>4, <1>6, <1>7 DEF Fates
    <2> QED
      BY <1>2, <2>1 DEF PromiseStep
  <1>8. CASE Fate(s)' # "pending"
    BY <1>2, <1>4, <1>5, <1>6, <1>8 DEF PromiseStep, DecideStep
  <1> QED
    BY <1>7, <1>8

LEMMA MainKeeps ==
  ASSUME BatchInv, Main
  PROVE  PromiseStep
  <1>1. UNCHANGED Fates
    <2>1. UNCHANGED <<future, sr>>
      BY DEF Main, HandOut, Close, Correlate, Collect, Fail
    <2> QED
      BY <2>1 DEF Fates, Fate
  <1>2. CASE UNCHANGED main
    BY <1>1, <1>2 DEF PromiseStep, Openness
  <1>3. ASSUME NEW s \in Samples, Fail(s) PROVE PromiseStep
    <2>1. main = "running" /\ main' \in {"raised", "closing"} /\ Fates[s] = "lost"
      BY <1>3 DEF Fail, Ready, Fates, Fate
    <2> QED
      BY <1>1, <2>1 DEF PromiseStep, Openness
  <1>4. CASE Close
    <2>1. PICK s \in Samples : Fates[s] = "lost"
      BY <1>4 DEF BatchInv, Outcome, Close, Fates, Fate
    <2> QED
      BY <1>1, <1>4, <2>1 DEF Close, PromiseStep, Openness
  <1>5. CASE Correlate
    <2>1. Collected = Samples
      BY <1>5, AllCollected DEF Correlate
    <2>2. \A s \in Samples : Fates[s] \in {"completed", "failed"}
      BY <2>1 DEF BatchInv, Results, Call, Fates, Fate
    <2> QED
      BY <1>1, <1>5, <2>2 DEF Correlate, PromiseStep, Openness
  <1> QED
    BY <1>2, <1>3, <1>4, <1>5 DEF Main, HandOut, Collect

\* run(), sequential or with a pool, implements BatchPromise: it returns only
\* when every sample is decided and raises only when no analysis goes on
\* (core/batch.py:159-169).
THEOREM BatchKeepsPromise == Spec => KeepsPromise
  <1>1. Init => Promise!Init
    BY DEF Init, Promise!Init
  <1>2. BatchInv /\ [Next]_batchVars => PromiseStep
    <2>1. CASE UNCHANGED batchVars
      BY <2>1 DEF batchVars, PromiseStep, Fates, Fate, Openness
    <2> QED
      BY <2>1, CallDecides, MainKeeps DEF Next, Done
  <1>3. PromiseStep => [Promise!Next]_<<Fates, Openness>>
    BY DEF PromiseStep, DecideStep, Fates, Fate, Openness, Promise!Next, Promise!Return, Promise!Raise, Promise!Decide
  <1> QED
    BY <1>1, <1>2, <1>3, BatchInvariant, PTL
    DEF Spec, KeepsPromise, Promise!Spec, Fates, Fate, Openness

==============================================================================
