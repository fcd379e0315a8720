# A TLA+ model of ORCA

ORCA analyses QUIC programs and their traffic. A LangGraph workflow runs up to
some twenty agents over a binary and a packet capture; each agent computes
something, asks a language model about it and leaves a record that later agents
read. Batches run several workflows in parallel threads, and all of them share
one rate-limited path to the model. These modules model that program's
control: what happens in which order, in which thread, after which failure.
TLC checks them on small instances; TLAPS proves the theorems for all values of
the constants.

`M` below stands for a module, `path:n` for a line under `src/orca/`.

## 1. The system

| component | state | operations | talks to | what is hard |
|---|---|---|---|---|
| rate limiter, `core/llm/rate_limiter.py:22` | `_last`, the deque `_times`, a lock | `wait_if_needed` | every thread that calls the LLM | sleeps under a lock; two sweeps with one stale cutoff; a boundary at exactly 60 s |
| circuit breaker, `rate_limiter.py:51` | failure count, time of the last failure, closed/open/half-open | `can_attempt`, `record_success`, `record_failure` | the provider's threads | late failures of other threads around a probe |
| LLM provider, `core/llm/provider.py` | class-level totals and the `per_request` log | `query_json`, `_send`, `usage_count`, `usage_since` | limiter, breaker, litellm | retries, failures between two updates, unlocked class state |
| orchestrator, `core/orchestrator.py`, `core/state.py` | `plan`, `current_step`, `completed_steps`, domain dicts | `planning_agent`, `route_next`, `final_summary_agent` | all agents, LangGraph | plan and routing agree only by convention; LangGraph's superstep limit |
| binary agents, `domains/binary/workflow.py` | `binary_domain` | seven agents | backends, LLM | early returns, a list extended in place |
| network agents, `domains/network/workflow.py` | `network_domain` | fourteen agents, fusion among them | scapy, qlog files, LLM | skips, errors kept as records, exceptions that escape |
| correlation, `correlation/engine.py` | `correlation` | `correlate` | both domain dicts | order in the plan |
| batch, `core/batch.py` | `SampleResult`s, the pool, the result | `run`, `_analyse`, `_cross_correlate` | workflow, caller's callback | completion order, a callback that raises, an exception in a pool |
| backends, `core/re_backends/` | project directories, JVM globals | `open`, queries, `close` | Ghidra, Binary Ninja | shared directories and globals between threads |
| similarity index, `core/embeddings.py` | function list, cached matrix, pickle file | `add`, `search`, `save`, `_load` | file system | stale cache, crash while saving |
| sandbox, `core/sandbox.py` | a submitted task | `submit` with its poll | Cuckoo, REMnux or a machine of one's own, over SSH | timeout against a late report |
| human review, `core/hitl.py` | `hitl_*` keys | interrupt, review, resume | nothing (section 7) | keys that the state does not declare |
| qlog parser, `domains/network/qlog_parser.py` | accumulated lines and events | `_parse` | files | tolerant scanning of broken JSON |
| slicing, `domains/network/pcap_slicer.py` | level windows | slice PCAP, qlog, strace | files | boundaries, midnight, lines without a stamp |
| JA4, function ranking, string analysis, reporting, configuration, CLI | little or none | pure functions, formatting | | |

Correctness, per component:

- limiter: grants are paced, over any interleaving of callers;
- breaker: counter, state and time stay consistent; an open breaker keeps new
  queries out;
- provider: each answered query is counted and logged once; retries are paced;
  every query ends; a usage delta covers its agent's requests;
- orchestrator and agents: the run follows the plan to the report; no agent
  works from a record that is still to change; fusion happens whenever there is
  evidence;
- batch: every sample is returned once, or the exception comes when nothing is
  running any more; only completed samples are correlated;
- backends: a sample keeps its project and its thin binary while it needs them;
  the JVM is up before it is used; what stays behind is what a failed `open`
  left;
- flows: every packet counts once, on its side of one conversation;
- classifier: a majority of the planned votes is the verdict; an unsure one is
  not reported as certain, but for rounding;
- similarity index: a search sees what was added; a clean index is on disk;
- sandbox: status, report and error agree; a timeout is a true one;
- qlog parser: before the first broken tuple the scanner finds every event and
  invents none; a file counts as a whole or not at all;
- slicing: lines and files are in the level in which they were written.

## 2. The modules

```
Clock <-- RateLimiter ----+--> LLMProvider <-- MCLLMProvider   (three .cfg)
      \-- CircuitBreaker -/
Pacing <== RateLimiter <-- MCRateLimiter
Batch ==> BatchPromise;  Batch <-- MCBatch
Backends <-- MCBackends
Pipeline <-- MCPipeline --------+
LevelSlices <-- MCLevelSlices --+
QlogScan <-- MCQlogScan --------+--> MCSequential
ClassifierVote, SimilarityIndex,|
Sandbox, FlowTable -------------+

RateLimiterProofs --> LLMProviderProofs
PipelineProofs, BatchProofs, BackendsProofs, LevelSlicesProofs, FlowTableProofs
SequentialProofs   (SimilarityIndex, Sandbox, ClassifierVote, QlogScan)
```

`==>` is a refinement by `INSTANCE ... WITH`.

**Clock.** Absolute time in ticks. A step that ends a sleep moves `now` to the
deadline if it is ahead (`WakeTime`); `Elapse` lets time pass otherwise, up to
the bound `MaxTime`. Reading the clock is free.

**RateLimiter.** `wait_if_needed` is cut at its lock and its two sleeps
(`phase`: out, waiting for the lock, sleeping for `min_delay`, sleeping for the
window). Everything between two cuts runs with the lock held and is one step.
`_times` is not a variable: it is the suffix `Times` of the history `grants`
after the `popped` entries, so that the abstract specification and the deque
speak of the same numbers. `_last` is `last` and starts at 0.0, which is why
`Epoch`, the date of the start, is at least `MinDelay`. The lock is not fair.

**Pacing** is the limiter's promise without threads: consecutive grants are
`MinDelay` apart, and the grant `Rpm` places later is `Window` later.

**CircuitBreaker.** Its three methods. They have no lock, and each is short
enough to be a step; what threads interleave is whole calls.

**LLMProvider** composes the two with threads that run agents.
`pc` says where `query_json` and `_send` are: `ask` (before the breaker is
asked), `send` (in the limiter, then in `litellm.completion`), `backoff`,
`answered`, `counted`, `logged`, `finish`. The breaker is asked once, before
the retry loop (`provider.py:294`), so a loop that is under way goes on against
an open breaker; the model does the same. `answered` to `counted` is the five
`+=` of `_global_usage`: CPython 3.11 switches threads at calls and backward
jumps, and there is none between them, so they are one step (`AddTotals`). The
append to `per_request` follows a call to `time.time()` and is a step of its own
(`LogRequest`). `BadUsage` and `BadChoices` are the exceptions that can be
raised between these. A run makes up to `Asks` = 2 queries, the second with the
stricter prompt; `NoContent` is an answer without a text, whose `TypeError`
leaves `query_json` at once. `Backoff` is a constant function; `MCLLMProvider` gives it the
formula of the code. One provider is modelled; the program has four
(`core/orchestrator.py:16`, `domains/binary/workflow.py:30`,
`domains/network/workflow.py:20`, `correlation/engine.py:15`), each with its
own limiter and breaker, that share the class-level usage only.

**Pipeline** is one `invoke()` of the graph. Each agent is one action, from its
first early return to its last record. An answer of the LLM and the error record that
replaces it are both `written`: no later agent tells them apart. `Return` is
the shared ending of agents (`_step`, `_step_forward`) followed by LangGraph's
routing; `Raise` is an exception that no agent catches: the qlog counters on an
event they cannot read (`network/workflow.py:1126`, `:1192`) and the success
rates of a malformed `.status` file (`:1497-1506`). `seen` is history: each
record as the last agent that used it left it. The graph's own part, in
`Follow`, is external: state keys that `OrcaWorkflowState` does not declare are
dropped, an unknown node name fails, and a run ends before the superstep that
would exceed `recursion_limit`.

**Batch** cuts `_analyse` where it calls out: at the callback, which is the
caller's code and may raise each time, and at `run_orca`. The position of each
call against the `try` decides what an exception does: the one for `running` is
outside, the one for `completed` inside, the one for the failure in the
`except`. The pool hands samples to free workers in order. `as_completed` may
yield in any order. Of a report the model keeps the list of imports
(`Reports`). `Occurrences` is the code's `all_imports`: of each list no more
than `ImportLimit` entries are looked at. `FirstShared` is the cut to
`SharedLimit` shared imports, in the order of their first occurrence
(`Earlier`). Samples are named by their places in `results`: two samples may
have one label.

**BatchPromise** is what `run()` promises without threads: every sample's fate
is decided once, the batch is over only after that, and nothing goes on behind
the caller's back.

**Backends** is what the agents of several pipeline threads do with Binary Ninja
and Ghidra: `_open_backend` tries one after the other (`tries`), the two agents
after the static analysis reopen the one that it recorded (`used`), and a query
of an open backend may raise, which unwinds the `with`. `at` is where a sample's
thread is. `open()` and `close()` are cut where they leave Python: at the start
of the JVM, at `rmtree`, at the import of the sample. Shared by all threads are
the flags `started`, `available` and `binja`, the JVM, and what is on disk:
`intact` are the samples whose project nobody has removed, `thin` the extracted
slices of universal binaries, named by the sample's stem. `views` counts the
Binary Ninja views that are open, `halfOpen` those that a raising `open()` left.

**LevelSlices** is `slice_cell`. Instants are a day and a time of day, since the
slicer reads a time without a date (`strace -tt`) as one of the day of a base
that it takes from elsewhere (`Resolved`). `MapLine` builds the map
of qlog files to their creation, `SliceLine` and `WriteLevel` make one level's
slice; `SliceCell` calls again, with another filter and other modification
times (`Moments`) and the links of the earlier calls on disk. `NoQlogs`,
`BeginFails` and `LinkFails` are the exceptions: no qlog directory, a cut of the
PCAP that fails or a strace that is missing, and a link that cannot be made.

**QlogScan** is `_parse` on one file: the strict parser (`StrictEvent`,
`StrictRaises`, `StrictEnds`), the scanner of broken objects (`SkipLine`,
`ScanLine`, `ScanEnds`) and the reader of records. A line is whether it starts
like a tuple (`first`) and its brackets, quotes and backslashes (`marks`);
`ReadToken` is the scanner's automaton, `Readings` its run over a line. What the
code has to find out is known to the model only: where JSON has each character
(inside or outside of a string), the `level` of brackets behind a line, the
tuple that a line is `of`, and whether that is `good`. `json.loads` gets the
whole buffer, and a buffer that is no one tuple may be a list of the right form
all the same: a tuple that was cut off, with the next tuple as its fourth
member and the bracket that ends the array behind it. Such sets of lines are a
file's `fakes`, any that the file likes except those of one tuple, and the
event that comes of them is `Invented`. `IsQlogFile` says how all these fit
together.

**ClassifierVote** is the voting in `attack_classification_agent`: `Vote` asks
once, `Verdict` tallies. Confidences are ten-thousandths and not clamped, as in
the code (`domains/network/workflow.py:552`); `Sums` adds them up vote by vote,
and `Rounded` is the rounding to three places, in either direction where two
are equally near. A label that no dict takes as key (`Unhashable`) makes the
tally raise.

**SimilarityIndex** is `FunctionSimilarityIndex`. `save` is cut after `open`,
which has emptied the file, so that a crash (`Restart`) or an exception of the
dump can come between. A function stands for its embedding.

**Sandbox** is `submit()`. Every call over SSH may raise. The Cuckoo task
becomes reported by itself (`TaskReported`), between any two polls.

**FlowTable** is the packet loop of `pcap_ingest_agent`, its choice of the QUIC
flows and the counting part of `traffic_statistics_agent`. A packet goes from
socket to socket; the code sees of a socket its `end`, link address and port,
and several sockets may have one end. The code reads no connection identifier
and no packet number space, so that the model has none.

**MCSequential** runs `Pipeline` and the last six side by side. They share nothing, so that a
behaviour is one of any of them with the others at rest.

## 3. The runs

| run | configuration | question | states |
|---|---|---|---|
| `limiter` | `MCRateLimiter.cfg` | do three threads in any order keep `Pacing`, with deque and lock in step? | 203,664 |
| `llm_query` | `MCLLMProvider.cfg` | is the whole query path safe for two threads? | 369,082 (under `VIEW`) |
| `llm_live` | `MCLLMProviderLive.cfg` | does every query end? | 1,378,875 |
| `llm_usage` | `MCLLMProviderUsage.cfg` | is a usage delta the agent's own? It is not: finding 1 | counterexample |
| `pipeline_fusion` | `MCPipelineFusion.cfg` | does fusion have the evidence of each attack class? It does not: finding 2 | counterexample |
| `batch` | `MCBatch.cfg` | results, statuses, correlation and end of a batch | 63,963 |
| `backends` | `MCBackends.cfg` | what do parallel pipelines with failing backends leave on disk, open, or half started? | 8,307,565 |
| `sequential` | `MCSequential.cfg` | does every combination of inputs reach its report by its plan; slicing, salvaging, voting, indexing, polling and counting, each in all orders and failures | 2,444,255 |
| `strace_unstamped` | `MCLevelSlicesUnstamped.cfg` | do lines without a stamp follow the line before? They do not: finding 3 | counterexample |
| `qlog_salvage` | `MCQlogScanSalvage.cfg` | is only the malformed event lost? It is not: finding 4 | counterexample |
| `vote_confidence` | `ClassifierVoteConfidence.cfg` | is the confidence the documented one? It is not: finding 5 | counterexample |
| `flow_keys` | `FlowTableKeys.cfg` | are handshakes those of connections? They are not: finding 6 | counterexample |

Deadlock is checked in all of them; every module whose behaviours may end has
an explicit step for the state in which all is done.

### Properties

- `LockDiscipline`, `DequeBounded`: a thread sleeps in the limiter exactly while
  it holds the lock; the deque holds at most `rpm + 1` entries. The one more is
  real: an entry that is exactly 60 s old survives both sweeps.
- `KeepsPromise` of `RateLimiter`: it implements `Pacing`.
- `BreakerConsistent`: failure count, state and last failure fit together,
  whichever order the reports of several threads come in.
- `Cooldown`: no query enters the retry loop while the breaker is at its
  threshold and has not cooled, also when another thread's probe is out.
- `UsageBalance`, `LoggedOnce`, `CheckpointCoversRun`: totals and log differ by
  the threads between the two updates; every answered query is logged once,
  whatever fails after the answer; a delta misses nothing of its run.
- `EveryCallPaced`: calls to litellm and grants correspond one to one.
- `RunsEnd`: every agent run leads to an answer or an exception.
- `InPlanOrder`, `EndsInReport`: what is done is always the beginning of the
  plan; a run ends in the report, or in one of the two exceptions named above.
- `NothingStale`: no agent uses a record that a later agent writes or extends.
- `FusionDelivers`: fusion is given up only when there is nothing to fuse.
- `EverySampleOnce`, `HeardIsResult`, `CorrelationExact`: every sample is
  returned once; its final status is what the callback was last told; an import
  is reported as shared only with exactly the completed samples that have it
  among those looked at, and goes unreported only when the limit is reached.
- `KeepsPromise` of `Batch`, `BatchEnds`: it implements `BatchPromise`; it ends.
- `OnlySiblingsDisturb`: a sample loses its project or its thin binary only in a
  parallel batch, and only to a sample that differs in nothing but its suffix.
  That loss is real; the property says that it is the only one.
- `JvmBeforeUse`: the unlocked start of the JVM may run twice, but nobody opens
  a project before it is up.
- `ThinFilesAccounted`, `ViewsAccounted`: what stays on disk or in memory was
  left by an `open()` that raised, and the views are at most one per agent and
  one more.
- `LinesInTheirLevel`: stamped lines are in the level in which they were
  written. Under `-tt` a level that is under way at midnight loses what comes
  after; the property names that exception, which the code has.
- `FilesInTheirLevel`: a qlog file whose opening the trace shows is at no time,
  after whatever calls and failures, linked in a level in which it was not
  opened, so never in two; a call that succeeds links it there, midnight under
  `-tt` excepted. A file that the trace does not show is placed by its
  modification time: within one call it is in one level at most. Two calls with
  different filters can link such a file in two levels, when its time has
  changed between them: the code does that, and the property claims no more.
- `SalvageExact`: up to the first tuple whose brackets or quotes do not match
  the scanner finds every good event and invents none. Behind it, it may lose
  good ones (finding 4) and may make an event of lines of several tuples; those
  it finds come once and in order there, too.
- `AllOrNothing`: the agent takes all of a file or, if the parser raised, none.
- `MajorityWins`, `UnsureNotCertain`: more than half of the planned votes
  decide, whichever failed; confidence 1.0 is reported only of unanimous votes
  that fall short of certainty by half a thousandth on average at most, and of
  all that are certain. The second says nothing when a vote claims more than
  1.0, which the code does not clamp.
- `SearchSeesAll`, `CleanIsOnDisk`: the cached matrix hides nothing that was
  added and has no row without a function; when nothing is left to save, the
  file holds the list. Both except the list after a batch that raised half way,
  which the code leaves unsaved and partly unseen: they show that nothing else
  goes out of step.
- `ResultAgrees`, `TimeoutIsTrue`: see section 1. A report that becomes ready
  after the last poll is missed, also when up to nine seconds are left.
- `FlowsAreConversations`: each pair of ends, address and port, has one flow, in
  the direction of its first packet, with exactly the packets of its two sides.
- `StatisticsOfConnections`: where ends tell sockets apart and no flow was
  dropped, the numbers of connections, two-way connections, handshakes and lone
  packets are those of the capture, a handshake being what the code estimates
  it by: both sides spoke, four packets or more. On an Ethernet capture `pkt.src` is a link
  address and the premise is more than it looks: hosts behind one router with
  the same port become one flow.

### Bounds, and why they are enough

- Limiter: 3 threads, `Rpm` 2, `MinDelay` 1, `Window` 3, 6 grants, 12 ticks.
  With `Window > Rpm * MinDelay` both sleeps occur, alone and after each other;
  6 grants fill the deque three times; three threads are a holder and two that
  contend. Threads are symmetric and the properties do not name one.
- Provider: 2 threads, `Threshold` 2, 2 retries, 3 runs each, 5 ticks of idle
  time (time also passes in every sleep). Two threads open the breaker between
  them, half-open it and report late. `RelativeView` replaces dates by ages and
  counters by the differences the properties read; the comment beside it gives the
  argument. The liveness run uses neither view nor symmetry and is smaller
  for it: `Threshold` 1, `Rpm` 1, one run per thread of up to two queries with
  two retries each, and no idle time, since time passes in the sleeps. A query
  that is asked again meets a breaker that the other thread has opened, sleeps
  for a retry and waits behind a sleeper with the lock.
- Pipeline: all 224 combinations of binary, capture, the seven goals that the
  code distinguishes, four places of the qlog directory and two kinds of
  `.status` file; every agent branches as its code does. `RecursionLimit` is
  LangGraph's 25. The longest plan has 23 steps; with `planning` that is 24
  supersteps. `Follow` charges the arrival at END as one more, the cautious
  reading of a library that is not in the repository: 25 is then exactly enough.
- Batch: 3 samples, one worker or two: a third sample waits while two run, and
  each callback may raise. Three imports in four reports; `ImportLimit` 2 and
  `SharedLimit` 1 stand for the code's 100 and 20, so that an import behind the
  first limit does not count and a second shared one goes unreported. In two of
  the reports the same imports come in opposite orders, so that the order of
  completion decides which.
- Backends: 3 samples, 2 with one stem (a `.so` and a `.dylib`, both universal),
  1 or 2 threads, 3 agents, one of each kind. Two siblings are enough to
  disturb each other while a third sample must not be; an agent of each kind is
  enough for `open` by fallback, by record and by the last agent of the plan.
- Slices: days of four ticks, captures that begin at three times of a day, two
  levels with and without a time before them, up to 2 lines (3 in the
  counterexample), each opening a file or not, 2 calls, each of which may
  raise, with any filter and any of the modification times that levels
  distinguish. Midnight falls before, into and after each level.
- qlog: up to 3 tuples of 9 kinds, one for each way to confuse the scanner that
  the code provides for and for each that it does not; for a tuple that is cut
  off, with and without the lines behind it that make JSON of it; up to 3 records.
- Votes: the code's 5; 3 labels, so that ties with a third occur, one of them
  unhashable; confidences 0, 0.998, 1 and 1.25: 0.998 vanishes in the rounding if
  the four other votes are certain, and 1.25 makes up for an unsure one.
- Index: 2 functions, 4 entries. Sandbox: time limits of 5, 20 and 39 seconds,
  for no poll, two, and three with nine seconds left.
- Flows: 5 packets, 3 sockets on up to 3 ends, one of them QUIC. A limit of 3
  flows stands for the code's 500: three sockets have three pairs, so that both
  branches are taken. A handshake needs 4 packets, which leaves a fifth.

## 4. Fairness

`LLMProvider!FairSpec` has weak fairness on each thread's steps: the operating
system runs a thread that can run, a sleep ends, and litellm answers or raises
within its timeout. Nobody has to begin a run and idle time need not pass. Weak
fairness is enough for the unfair lock because the other threads' acquisitions
between two of one thread are finite: each run has finitely many.

`Batch!FairSpec` has weak fairness on the caller's thread and on each sample's
analysis: the pool's threads run, the callback returns or raises, and `run_orca`
ends, which `RunsEnd` and `EndsInReport` argue for.

The seven modules of `MCSequential` state no liveness: each is a sequential
program whose every step advances it (the index aside, which only answers calls), and `EndsInReport` says
where the pipeline can stop. `Backends` states none: that its steps end is for
Ghidra and Binary Ninja to say.

## 5. Proofs

All theorems hold for every value of the constants that the named assumptions
(`ClockAssumption`, `LimiterAssumption`, `BreakerAssumption`,
`ProviderAssumption`, `PipelineAssumption`, `BatchAssumption`,
`BackendsAssumption`, `SlicesAssumption`, `FlowAssumption`, `QlogAssumption`,
`VoteAssumption`, `IndexAssumption`, `SandboxAssumption`) allow. There is one
for every invariant and refinement that a passing run checks.

**RateLimiterProofs.** `LimiterInv` is inductive. `KeepsPromise` alone is not:
a grant is safe because of what the *sleeping holder* of the lock is waiting
for. So the invariant has, beside types and lock discipline, the history (all
grants `MinDelay` apart, `last` the newest), that popped entries are older than the window, and for each sleeper what its wake-up time covers
(`Sleepers`). `LimiterSafe`, `LimiterDequeBounded` and `LimiterPaces` follow; the
last shows that a step is an `Issue` of `Pacing` or a stutter.
`LimiterWindowsKept` draws from it what a rate of `rpm` means to the service
behind litellm, while `Pacing` speaks only of pairs of grants: no stretch of
`Window`, wherever it begins, holds more than `Rpm` grants. From the first
grant in it on, only `Rpm` places are left before the window is over. No run
checks this one.

**LLMProviderProofs.** `BreakerInvariant`: the breaker alone is typed and
consistent under every sequence of calls and passing time. The composition is
proved from its parts:
`IsLimiterStep` and `IsBreakerStep` show that each step of the provider is, for
the limiter and for the breaker, a step that their own specification allows, so
their invariants carry over; `ThreadInv` adds what the threads know of them
(`LoopsEntered`: a thread in the limiter is in `send`). From `ProviderInv`:
`ProviderTyped`, `ProviderBreaker`, `ProviderPaces`, `ProviderCooldown`,
`ProviderLoggedOnce`, `ProviderUsageBalance`, `ProviderCallsPaced` and
`ProviderCheckpoints`, that is, every safety property that the run `llm_query`
checks, for any number of threads. The counting ones go through lemmas on the
cardinality of the set of threads at a `pc`.

**PipelineProofs.** `PipelineInv`: the plan is empty or consists of at most 23
nodes and ends in `final_summary`; `completed` is the part of it before `step`;
`node` is what `route_next` gives; the supersteps used are `step + 1`.
`PlanIsOK` shows the first part for every input by bounding each segment of the
plan; `ReturnKeepsInv` treats all agents at once, because all end through
`Return`. `PipelineInPlanOrder` and `PipelineEndsInReport` follow, under
`LimitSuffices` (a recursion limit of at least 25): with a lower one the
statement is false, and it is written in front of each theorem.

A second invariant, `RecordInv`, is about what the agents read. Every plan is a
selection from one order of the steps (`Rank`), and each record has a first user
(`FirstUse`). An agent that writes a record has a rank below its first use or
uses it itself; so whatever was used was last used at or after `FirstUse`, and
no agent still to come overwrites it: `PipelineNothingStale`. `Left` says what a
finished step has left for the fusion, from which `PipelineFusionDelivers`
follows, and `PipelineTyped` closes the module. `Proper` is what these need of
an agent; each agent is shown to be proper once.

**BatchProofs.** `BatchInv` relates each call of `_analyse` to its future and to
what its callback heard (`Call`), the collected results to the futures
(`Results`), and where `run()` is to the calls (`Loop`, `Outcome`): a sequential
run has one call under way at most, and a pool is left only when all are over.
As many different samples as there are entries were collected, so a full list
is the whole batch: `BatchEverySampleOnce`. `BatchHeardIsResult` and
`BatchKeepsPromise`, the refinement, follow. `BatchTyped` and
`BatchCorrelationExact` need a second invariant, `SharedInv`: once `run()` has
returned, nothing moves any more, so that what was correlated is what the final
records give; and since a sample was collected once, places in `results` and
samples correspond. The two limits are constants like the others, so that the
theorem speaks of the code's 20 and 100 too; it does not say which of the shared
imports are left out, which follows the order of `all_imports` in the model as
in the code. The two limits are constants like the others, so that the
theorem speaks of the code's 20 and 100 too. What it needs of the order of
`all_imports` is that some beginning of it of each size exists, which it does
because no report lists an import twice (`BatchAssumption`).

**BackendsProofs.** The invariant has four parts, proved one after the other:
`PlaceInv` (where an agent is and what it has still to try), `JvmInv`, `DiskInv`
(a sample that is alone with its stem, or in a sequential batch, is not
disturbed, because at most one is at work) and `CountInv` (half-open views
against the agents done and the backends still to try). Theorems
`BackendsTyped`, `BackendsJvm`, `BackendsSiblings`, `BackendsThinFiles`,
`BackendsViews`.

**LevelSlicesProofs.** `MisreadStamp`: an instant of the capture that is read with
the date of a base no later than the window is never taken into a window that
it is not of, and falls out of its own only if its day is after the base's.
With it `Progress`, what a call has done up to its current line,
is inductive. That a file's opening bounds its links, in every level and whatever
the calls before did or failed to do, is inductive on top of it
(`LinkedByOpening`): a link is made only for a file that is assigned to the
level, and with the opening in the trace the assignment can lose a file but
cannot misplace it. `SlicesTyped`, `SlicesLines`, `SlicesFiles`.

**FlowTableProofs.** `FlowsConverse`: `FlowsAreConversations` is inductive with
its types. The lemmas `FlowCounts` and `FlowBegins` are the three branches of
the packet loop; `ShownGrows` counts the packets, and `PacketHasFlow` keeps the
earlier packets' flows. `FlowStatistics`: where ends tell sockets apart, the
sockets of a flow's two ends are a pair that exchanged packets
(`FlowOfPair`), one for each flow and each pair (`FlowsArePairs`), and a flow's
counters are what passed between the two (`ShownIsSent`). Each of the four
counts is then a bijection between a set of flows and a set of pairs
(`SameCount`).

**SequentialProofs** has the theorems of four small modules.
`IndexSearchSeesAll`, `IndexCleanIsOnDisk`, `SandboxResultAgrees`,
`SandboxTimeoutIsTrue`: each from types and one fact about what is under way.

`VoteMajorityWins`: the winner's tally is the largest, because a largest one and
the first vote for it exist (both from the least member of a set of numbers), and
two labels' votes are disjoint, so that no second one has more than half.
`VoteUnsureNotCertain`: a sum of votes of at most 1.0 each is at most their
number, and equal to it if each is 1.0 (`SumsBound`); a dissenting vote among
fewer than 2000 pulls the winner's part, and with it the product, below what is
rounded up to 1.0 (`MeanTimesPart`). The bound on the number of votes is in
`VoteAssumption`; the code asks for 5.

`QlogSalvageExact` and `QlogAllOrNothing`: `LineReads` shows that over a line
whose strings are closed the automaton's flags are where JSON has the next
character and its depth is the balance of the brackets. So, as long as no line of
an odd tuple was read, the scanner is inside an event exactly between the lines
of one tuple, with these lines in its buffer (`Outside`, `Inside`), and what it
has found are the good events (`Salvaged`). A buffer with all the lines of one
tuple and no other is nobody's fake, so that nothing can be invented before a
line of an odd tuple is read (`SalvagedInvents`); from there on a buffer may
hold anything. `QlogInv` says this phase by phase.

The recursive functions `Sums` and `Readings` are treated without the library's
induction: that a function meets the equation at each place is shown by taking
the least place where it does not.

Only model-checked: liveness (`RunsEnd`, `BatchEnds`), which the prover does not
treat.

## 6. Findings

1. `usage_since` reports other pipelines' requests. `core/llm/provider.py:232`
   says that a checkpoint gives "the agent's own usage delta"; the log is one
   list for the process. Run `llm_usage`.
2. `evidence_fusion_agent` reads three of the six attack-specific records
   (`domains/network/workflow.py:2601`), while `core/orchestrator.py:59` says
   that all six are run for it. Run `pipeline_fusion`.
3. `slice_strace` keeps a line without a stamp once it has kept any line
   (`domains/network/pcap_slicer.py:306`), while the comment above it says that
   such lines belong with the previous one "if we kept it". Run
   `strace_unstamped`.
4. One event that is cut off, has a bracket too many or an open string takes
   all later events of its file with it (`domains/network/qlog_parser.py:129`),
   while the comments there (`:80`, `:167`) say that malformed events are
   discarded and the scanner continues. Run `qlog_salvage`.
5. A failed vote raises the reported confidence: the fraction divides by the
   votes that came back (`domains/network/workflow.py:566`), the docstring
   (`:518`) by N. Run `vote_confidence`.
6. A flow is keyed by addresses and ports (`domains/network/workflow.py:53`) and
   a completed handshake is estimated from packet counts (`:131`). The
   repository's `README.md:83` says that connections are keyed "by destination
   connection identifier (not by IP/port pair)", and `:85` that handshake
   completion comes from the Initial and Handshake packet number spaces. The
   run `flow_keys` counts a handshake that no connection made: two clients with
   one address and port, one that sends and one that is answered.
   `FlowsAreConversations` and `StatisticsOfConnections` are about what the code
   does, and say nothing in favour of that documentation.

Without a run of their own:

- The docstring of the classifier (`domains/network/workflow.py:518-520`) wants
  no unanimous but unsure verdict reported as 1.0. By the rounding to three
  places (`:568`) the votes 1, 1, 1, 1 and 0.998 are; and since confidences are
  not clamped (`:552`), 1.25 makes up for 0.75. `UnsureNotCertain` states what
  is left.
- A tuple that is cut off, the next one and the bracket that ends the array may
  be JSON together, a list of four, of which the scanner makes an event that
  nobody wrote (`domains/network/qlog_parser.py:150-165`). `SalvageExact` allows
  it behind an odd tuple only.
- An answer of the LLM without content ends in a `TypeError` in `_extract_json`
  (`core/llm/provider.py:137`), without the second, stricter question.

The repository's `README.md:131` speaks of a three-vote majority;
`CLASSIFIER_VOTES` is 5 (`domains/network/workflow.py:510`).

## 7. Not modelled

- Prompts, answers, prices, prints, JA4, string patterns, function ranking,
  reports, configuration: data that no modelled branch reads, or pure functions
  that unit tests reach well.
- The arithmetic of the correlation score, of the qlog counters and of the
  statistics' averages and rates; times and bytes of packets.
- Human review (`core/hitl.py`): `create_orca_workflow_with_hitl` of its
  docstring does not exist, nothing imports `HITLManager`, and the state schema
  has none of its keys. A model would have to invent the graph around it.
- What the backends' queries return; the decision matrix in the docstring of
  `core/re_backends/selector.py`, which the code never applies: Binary Ninja is
  tried first, always.
- The cut of the PCAP (`editcap` or scapy), of which only the failure is
  modelled. `slice_cell` raises when the strace is missing altogether although
  it goes on to check for that (`BeginFails`).
- Embedding providers and scores; `_connect`'s reconnection and `_download` of
  the sandbox; `_detect_bursts` (`domains/network/workflow.py:281`), which
  nothing calls.
- `TokenEstimator`, `reset_usage`, `malware_domain`: nothing uses or fills them.
- The malware agents: the repository has no `orca.domains.malware`
  (`core/orchestrator.py:18-30`); `MalwareAvailable` is FALSE.
- Ghidra, Binary Ninja, scapy, litellm, LangGraph, paramiko: external; modelled,
  where they matter, from how the code uses them.

## 8. Plan

What is left, in the order of what it can show:

1. The correlation score of `correlation/engine.py` and the counters of
   `qlog_analysis_agent`, as operators against reference definitions.
2. `Backends` under `Batch`: both speak of one sample per thread, and the pool's
   order restricts which samples are open together.
