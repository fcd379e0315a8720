-------------------------------- MODULE Batch --------------------------------
(***************************************************************************)
(* core/batch.py: BatchAnalyser.run().  It analyses every sample, one      *)
(* after the other in the caller's thread or in a ThreadPoolExecutor, and  *)
(* then looks for imports that samples share.                              *)
(*                                                                         *)
(* _analyse is cut where it calls out: at the progress callback, which is  *)
(* the caller's code and may raise, and at run_orca (module Pipeline).  Of *)
(* a report the model keeps the list of imports, which is what             *)
(* _cross_correlate reads.  It reads malware_domain too, which nothing     *)
(* fills, for IOCs and techniques; those two and the durations are left    *)
(* out.                                                                    *)
(***************************************************************************)
EXTENDS Naturals, Sequences, FiniteSets

CONSTANTS
  Count,          \* how many samples were added
  Parallelisms,   \* the values of max_parallel
  Imports,        \* import names
  Reports,        \* the lists of imports that reports may have
  ImportLimit,    \* how many of a list are looked at, 100
  SharedLimit     \* how many shared imports are reported, 20

\* No backend lists an import twice (get_imports).
ASSUME BatchAssumption ==
  /\ Count \in Nat
  /\ Parallelisms \subseteq Nat
  /\ \A r \in Reports : r \in Seq(Imports) /\ \A m, n \in 1 .. Len(r) : r[m] = r[n] => m = n
  /\ ImportLimit \in Nat /\ SharedLimit \in Nat

Samples == 1 .. Count

VARIABLES
  maxParallel,  \* self.max_parallel
  main,         \* where run() is
  submitted,    \* how many samples it has handed out, in their order
  stage,        \* where _analyse is for each sample
  sr,           \* its SampleResult: status and result, <<>> for no result yet
  future,       \* how the call of _analyse ended
  heard,        \* history: the last status that the callback was told
  results,      \* batch_result.samples, as samples
  shared        \* unusual_shared_imports: for each import the places in
                \* results of the samples whose labels are listed, {} if none

batchVars == <<maxParallel, main, submitted, stage, sr, future, heard, results, shared>>

Init ==
  /\ maxParallel \in Parallelisms
  /\ main = "running"
  /\ submitted = 0
  /\ stage = [s \in Samples |-> "none"]
  /\ sr = [s \in Samples |-> [status |-> "pending", result |-> <<>>]]
  /\ future = [s \in Samples |-> "none"]
  /\ heard = [s \in Samples |-> "nothing"]
  /\ results = <<>>
  /\ shared = [i \in Imports |-> {}]

\* -------------------------------- _analyse --------------------------------

Sequential == maxParallel <= 1

Active == {s \in Samples : stage[s] \in {"starting", "analysing", "reporting", "failing"}}

\* A worker is free for sample s, the first that waits for one.
Turn(s) ==
  /\ stage[s] = "queued"
  /\ \A r \in Samples : stage[r] = "queued" => s <= r
  /\ Cardinality(Active) < maxParallel

\* A pool thread takes the next sample.
Take(s) ==
  /\ Turn(s)
  /\ stage' = [stage EXCEPT ![s] = "starting"]
  /\ UNCHANGED <<maxParallel, main, submitted, sr, future, heard, results, shared>>

\* progress_callback(label, what) is called by the analysis of s.
Tell(s, what) == heard' = [heard EXCEPT ![s] = what]

At(s, from) == stage[s] = from

Go(s, to) == stage' = [stage EXCEPT ![s] = to]

\* _analyse returns its SampleResult, or lets an exception out.
Ends(s, how) ==
  /\ Go(s, "over")
  /\ future' = [future EXCEPT ![s] = how]

\* The callback for "running" stands before the try: its exception is not caught.
Announce(s) ==
  /\ At(s, "starting")
  /\ Tell(s, "running")
  /\ \/ /\ Go(s, "analysing")
        /\ sr' = [sr EXCEPT ![s].status = "running"]
        /\ UNCHANGED future
     \/ /\ Ends(s, "exception")
        /\ UNCHANGED sr
  /\ UNCHANGED <<maxParallel, main, submitted, results, shared>>

\* run_orca returns a report or raises.
RunOrca(s) ==
  /\ At(s, "analysing")
  /\ \/ \E report \in Reports :
          /\ sr' = [sr EXCEPT ![s] = [status |-> "completed", result |-> report]]
          /\ Go(s, "reporting")
     \/ /\ sr' = [sr EXCEPT ![s].status = "failed"]
        /\ Go(s, "failing")
  /\ UNCHANGED <<maxParallel, main, submitted, future, heard, results, shared>>

\* Mutant of ReportCompleted: the callback's exception is swallowed with the
\* status already changed, and nobody is told.
ReportCompletedQuiet(s) ==
  /\ At(s, "reporting")
  /\ Tell(s, "completed")
  /\ \/ /\ Ends(s, "result")
        /\ UNCHANGED sr
     \/ /\ Ends(s, "result")
        /\ sr' = [sr EXCEPT ![s].status = "failed"]
  /\ UNCHANGED <<maxParallel, main, submitted, results, shared>>

\* The callback for "completed" stands inside the try: its exception makes the
\* sample a failed one, whose report is there all the same.
ReportCompleted(s) ==
  /\ At(s, "reporting")
  /\ Tell(s, "completed")
  /\ \/ /\ Ends(s, "result")
        /\ UNCHANGED sr
     \/ /\ Go(s, "failing")
        /\ sr' = [sr EXCEPT ![s].status = "failed"]
        /\ UNCHANGED future
  /\ UNCHANGED <<maxParallel, main, submitted, results, shared>>

\* The callback for the failure is in the except clause: its exception escapes.
ReportFailed(s) ==
  /\ At(s, "failing")
  /\ Tell(s, "failed")
  /\ \/ Ends(s, "result")
     \/ Ends(s, "exception")
  /\ UNCHANGED <<maxParallel, main, submitted, sr, results, shared>>

Analyse(s) == Announce(s) \/ RunOrca(s) \/ ReportCompleted(s) \/ ReportFailed(s)

\* ---------------------------------- run() ----------------------------------

Collected == {results[k] : k \in 1 .. Len(results)}

\* Mutant of HandOut: the loop runs once more than there are samples.
HandOutOneMore ==
  /\ main = "running"
  /\ submitted <= Count
  /\ Sequential => Len(results) = submitted
  /\ submitted' = submitted + 1
  /\ Go(submitted + 1, IF Sequential THEN "starting" ELSE "queued")
  /\ UNCHANGED <<maxParallel, main, sr, future, heard, results, shared>>

\* The loop hands out the next sample: it calls _analyse itself, when the call
\* before has returned, or submits it to the pool.
HandOut ==
  /\ main = "running"
  /\ submitted < Count
  /\ Sequential => Len(results) = submitted
  /\ submitted' = submitted + 1
  /\ Go(submitted + 1, IF Sequential THEN "starting" ELSE "queued")
  /\ UNCHANGED <<maxParallel, main, sr, future, heard, results, shared>>

\* The loop gets a result: of the call it made, or of any future that is done
\* once every sample is submitted.
Ready(s) ==
  /\ main = "running"
  /\ s \notin Collected
  /\ ~ Sequential => submitted = Count

Collect(s) ==
  /\ Ready(s)
  /\ future[s] = "result"
  /\ results' = Append(results, s)
  /\ UNCHANGED <<maxParallel, main, submitted, stage, sr, future, heard, shared>>

\* The exception of _analyse leaves the loop: for the caller, or for the end of
\* the with block, which waits for the pool.
Fail(s) ==
  /\ Ready(s)
  /\ future[s] = "exception"
  /\ main' = IF Sequential THEN "raised" ELSE "closing"
  /\ UNCHANGED <<maxParallel, submitted, stage, sr, future, heard, results, shared>>

\* Mutant of Close: the pool is left to itself.
CloseAtOnce ==
  /\ main = "closing"
  /\ main' = "raised"
  /\ UNCHANGED <<maxParallel, submitted, stage, sr, future, heard, results, shared>>

\* Mutant of Close: the wait is for the results of all samples.
CloseOnResults ==
  /\ main = "closing"
  /\ \A s \in Samples : future[s] = "result"
  /\ main' = "raised"
  /\ UNCHANGED <<maxParallel, submitted, stage, sr, future, heard, results, shared>>

\* The pool has run everything that was submitted; results are lost.
Close ==
  /\ main = "closing"
  /\ \A s \in Samples : stage[s] = "over"
  /\ main' = "raised"
  /\ UNCHANGED <<maxParallel, submitted, stage, sr, future, heard, results, shared>>

\* The nth import of the list of sample s is i, and is looked at.
Lists(s, n, i) ==
  n \in 1 .. Len(sr[s].result) /\ n <= ImportLimit /\ sr[s].result[n] = i

Has(s, i) == \E n \in 1 .. Len(sr[s].result) : Lists(s, n, i)

\* Mutant of Occurrences: every result that has a report counts.
OccurrencesReported(i) == {k \in 1 .. Len(results) : Has(results[k], i)}

\* all_imports[i], a label for each completed result with import i in the order
\* of the results: the places of those results.
Occurrences(i) ==
  {k \in 1 .. Len(results) : sr[results[k]].status = "completed" /\ Has(results[k], i)}

\* i comes before j in all_imports: in an earlier result, or earlier in its list.
Earlier(i, j) ==
  \E k \in Occurrences(i) : \A l \in Occurrences(j) :
    \/ k < l
    \/ k = l /\ \E m, n \in 1 .. ImportLimit :
                 m < n /\ Lists(results[k], m, i) /\ Lists(results[k], n, j)

\* More than one completed sample has it, but not as many as there are results,
\* failed ones included.
Unusual == {i \in Imports : Cardinality(Occurrences(i)) \in 2 .. Len(results) - 1}

\* set is what is reported of Unusual: all, or the first SharedLimit.
FirstShared(set) ==
  /\ set \subseteq Unusual
  /\ Cardinality(set) <= SharedLimit
  /\ set = Unusual \/ Cardinality(set) = SharedLimit
  /\ \A i \in set, j \in Unusual : Earlier(j, i) => j \in set

Report(set) == shared' = [i \in Imports |-> IF i \in set THEN Occurrences(i) ELSE {}]

\* Mutant of Correlate: the pool may still have results to give.
CorrelateEarly ==
  /\ main = "running"
  /\ Len(results) + 1 >= Count
  /\ main' = "returned"
  /\ \E set \in SUBSET Imports : FirstShared(set) /\ Report(set)
  /\ UNCHANGED <<maxParallel, submitted, stage, sr, future, heard, results>>

\* Everything is collected: _cross_correlate, and run() returns.
Correlate ==
  /\ main = "running"
  /\ Len(results) = Count
  /\ main' = "returned"
  /\ \E set \in SUBSET Imports : FirstShared(set) /\ Report(set)
  /\ UNCHANGED <<maxParallel, submitted, stage, sr, future, heard, results>>

Main == HandOut \/ Close \/ Correlate \/ \E s \in Samples : Collect(s) \/ Fail(s)

Done == main \in {"returned", "raised"} /\ UNCHANGED batchVars

Next == Main \/ Done \/ \E s \in Samples : Take(s) \/ Analyse(s)

Spec == Init /\ [][Next]_batchVars

\* The operating system runs the caller's thread and every pool thread, the
\* callback returns or raises, and run_orca ends (RunsEnd of LLMProvider).
FairSpec ==
  /\ Spec
  /\ WF_batchVars(Main)
  /\ \A s \in Samples : WF_batchVars(Take(s) \/ Analyse(s))

------------------------------------------------------------------------------

Statuses == {"pending", "running", "completed", "failed"}

BatchTypeOK ==
  /\ maxParallel \in Parallelisms
  /\ main \in {"running", "closing", "returned", "raised"}
  /\ submitted \in 0 .. Count
  /\ stage \in [Samples ->
       {"none", "queued", "starting", "analysing", "reporting", "failing", "over"}]
  /\ sr \in [Samples -> [status : Statuses, result : Seq(Imports)]]
  /\ future \in [Samples -> {"none", "result", "exception"}]
  /\ heard \in [Samples -> {"nothing", "running", "completed", "failed"}]
  /\ results \in Seq(Samples)
  /\ shared \in [Imports -> SUBSET (1 .. Count)]

\* run() gives back every sample once, whichever order the pool finished in.
EverySampleOnce ==
  main = "returned" => Len(results) = Count /\ Collected = Samples

\* What a caller that follows the progress callback heard last about a sample
\* is what the batch result says of it, also when the callback itself failed.
HeardIsResult ==
  \A s \in Collected : sr[s].status = heard[s] /\ heard[s] \in {"completed", "failed"}

(***************************************************************************)
(* An import is reported as shared with exactly the completed samples that *)
(* have it among the imports looked at, each named once: no sample whose   *)
(* analysis failed, in whatever way, is linked to another one.  One that   *)
(* some of the samples share, and not all, is left out only where as many  *)
(* others as there may be are reported.                                    *)
(***************************************************************************)
CorrelationExact ==
  main = "returned" =>
    LET reported == {i \in Imports : shared[i] # {}}
    IN  /\ Cardinality(reported) <= SharedLimit
        /\ \A i \in Imports :
             LET having == {s \in Samples : heard[s] = "completed" /\ Has(s, i)}
                 named == {results[k] : k \in shared[i]}
                 unusual == Cardinality(having) \in 2 .. Count - 1
             IN  /\ i \in reported
                      => unusual /\ named = having /\ Cardinality(shared[i]) = Cardinality(having)
                 /\ unusual /\ i \notin reported => Cardinality(reported) = SharedLimit

\* Every batch comes to an end, by a return or an exception.
BatchEnds == <>(main \in {"returned", "raised"})

\* The fate of each sample as its _analyse left it.
Promise ==
  INSTANCE BatchPromise WITH
    fate <- [s \in Samples |->
               IF future[s] = "none" THEN "pending"
               ELSE IF future[s] = "exception" THEN "lost" ELSE sr[s].status],
    outcome <- IF main \in {"running", "closing"} THEN "open" ELSE main

\* run(), sequential or with a pool, implements BatchPromise: it returns only
\* when every sample is decided and raises only when no analysis goes on.
KeepsPromise == Promise!Spec

==============================================================================
