------------------------------- MODULE Backends -------------------------------
(***************************************************************************)
(* core/re_backends: opening and closing Ghidra and Binary Ninja, as the   *)
(* agents of several pipeline threads do it (domains/binary/workflow.py:35,*)
(* :126, :263 and domains/network/workflow.py:758).                        *)
(*                                                                         *)
(* What threads share is global: two flags about Ghidra, one about Binary  *)
(* Ninja, the JVM, the directory .ghidra_projects and the thin binaries    *)
(* beside the samples.  open() and close() are cut where they leave Python.*)
(* What a query of an open backend returns is left out: it may raise.      *)
(***************************************************************************)
EXTENDS Naturals, Sequences, FiniteSets

CONSTANTS
  Samples,       \* the binaries of a batch
  Stem,          \* of each: its directory and file name without the suffix
  Universal,     \* the samples that are universal Mach-O binaries
  Parallelisms,  \* the values of max_parallel
  Agents         \* those that open a backend, in the order of the plan

(***************************************************************************)
(* The plan's agents with a backend are static_analysis, api_crossrefs,    *)
(* string_crossref_analysis and, after all of these and with a capture     *)
(* only, quic_binary_assessment (core/orchestrator.py:43).                 *)
(***************************************************************************)
Searching == {"static_analysis", "quic_binary_assessment"}
Reopening == {"api_crossrefs", "string_crossref_analysis"}

ASSUME BackendsAssumption ==
  /\ IsFiniteSet(Samples)
  /\ Parallelisms \subseteq Nat
  /\ Agents \in Seq(Searching \cup Reopening)
  /\ Agents # <<>>
  /\ \A n \in 1 .. Len(Agents) :
       /\ Agents[n] = "static_analysis" <=> n = 1
       /\ Agents[n] = "quic_binary_assessment" => n = Len(Agents) /\ n > 2

Stems == {Stem[s] : s \in Samples}

VARIABLES
  installed,   \* which backends this machine has
  workers,     \* max_parallel of the batch
  binja,       \* _binja_available, None being "unknown"
  started,     \* _pyhidra_started
  available,   \* _ghidra_available
  jvm,         \* whether the JVM is up
  agent,       \* the agent that has or had a backend last, for each sample
  tries,       \* the backends it has still to try, the one in hand first
  at,          \* where it is in open(), its queries or close()
  used,        \* static_analysis["backend_used"]
  cleanup,     \* _needs_cleanup: it works on a thin binary of its own making
  thin,        \* stems with a thin binary on disk
  leaked,      \* history: those of them that an open() that raised left
  intact,      \* samples whose open project is still on disk
  views,       \* open BinaryViews of each sample
  halfOpen     \* history: how often update_analysis_and_wait raised

globals == <<binja, started, available, jvm>>
disk == <<thin, leaked, intact>>
memory == <<views, halfOpen>>
place == <<agent, tries, at, used, cleanup>>
backendVars == <<installed, workers, globals, place, disk, memory>>

Init ==
  /\ installed \in SUBSET {"binary_ninja", "ghidra"}
  /\ workers \in Parallelisms
  /\ binja = "unknown"
  /\ started = FALSE /\ available = FALSE /\ jvm = FALSE
  /\ agent = [s \in Samples |-> 0]
  /\ tries = [s \in Samples |-> <<>>]
  /\ at = [s \in Samples |-> "waiting"]
  /\ used = [s \in Samples |-> "none"]
  /\ cleanup = [s \in Samples |-> FALSE]
  /\ thin = {} /\ leaked = {} /\ intact = {}
  /\ views = [s \in Samples |-> 0]
  /\ halfOpen = [s \in Samples |-> 0]

\* --------------------------------- agents ---------------------------------

\* select() prefers Binary Ninja; both loops try it again and Ghidra last.
Fallbacks == <<"binary_ninja", "binary_ninja", "ghidra">>

\* What agent n tries: the loops of the first and the last, and what the first
\* recorded for the two between them.
Candidates(s, n) ==
  IF Agents[n] \in Searching THEN Fallbacks ELSE <<used[s]>>

Go(s, to) == at' = [at EXCEPT ![s] = to]

\* Agent n of sample s creates its first candidate.
Enter(s, n) ==
  /\ agent' = [agent EXCEPT ![s] = n]
  /\ tries' = [tries EXCEPT ![s] = Candidates(s, n)]
  /\ Go(s, "opening")
  /\ UNCHANGED <<installed, workers, globals, used, cleanup, disk, memory>>

\* A pool thread takes the sample.
Begin(s) ==
  /\ at[s] = "waiting"
  /\ Cardinality({r \in Samples : at[r] \notin {"waiting", "over"}}) < workers
  /\ Enter(s, 1)

\* An agent that needs a backend later on; the others skip.
NextAgent(s) ==
  /\ at[s] = "between"
  /\ \E n \in agent[s] + 1 .. Len(Agents) : Enter(s, n)

\* No more agent needs one.
Leave(s) ==
  /\ at[s] = "between"
  /\ Go(s, "over")
  /\ UNCHANGED <<installed, workers, globals, agent, tries, used, cleanup, disk, memory>>

\* The agent goes on without a backend.  If it is the first, it leaves an
\* error, on which the others skip.
GiveUp(s) == Go(s, IF agent[s] = 1 THEN "over" ELSE "between")

\* open() raises: the candidate is dropped without close(), the loop tries the
\* next; a with statement has none.
OpenRaises(s) ==
  /\ tries' = [tries EXCEPT ![s] = Tail(@)]
  /\ cleanup' = [cleanup EXCEPT ![s] = FALSE]
  /\ IF Len(tries[s]) > 1 THEN Go(s, "opening") ELSE GiveUp(s)
  /\ UNCHANGED <<installed, workers, agent, used>>

Opening(s, b) == at[s] = "opening" /\ Head(tries[s]) = b

\* ------------------------------ Binary Ninja -------------------------------

\* _ensure_binja remembers what the first import came to.
BinjaMissing(s) ==
  /\ Opening(s, "binary_ninja")
  /\ binja = "no" \/ (binja = "unknown" /\ "binary_ninja" \notin installed)
  /\ binja' = "no"
  /\ OpenRaises(s)
  /\ UNCHANGED <<started, available, jvm, disk, memory>>

\* load() gives no view, or one whose analysis raises and which nobody closes
\* then, or one that is analysed.
OpenBinja(s) ==
  /\ Opening(s, "binary_ninja")
  /\ binja = "yes" \/ (binja = "unknown" /\ "binary_ninja" \in installed)
  /\ binja' = "yes"
  /\ \/ OpenRaises(s) /\ UNCHANGED memory
     \/ /\ OpenRaises(s)
        /\ views' = [views EXCEPT ![s] = @ + 1]
        /\ halfOpen' = [halfOpen EXCEPT ![s] = @ + 1]
     \/ /\ Go(s, "open")
        /\ views' = [views EXCEPT ![s] = @ + 1]
        /\ UNCHANGED <<installed, workers, agent, tries, used, cleanup, halfOpen>>
  /\ UNCHANGED <<started, available, jvm, disk>>

\* --------------------------------- Ghidra ---------------------------------

\* Mutant of EnsureGhidra: the flag is set before the call that it stands for.
EnsureGhidraFlagFirst(s) ==
  /\ Opening(s, "ghidra")
  /\ \/ /\ "ghidra" \notin installed
        /\ OpenRaises(s)
        /\ UNCHANGED started
     \/ /\ "ghidra" \in installed
        /\ Go(s, IF available THEN "prepare" ELSE IF started THEN "verify" ELSE "starting")
        /\ started' = TRUE
        /\ UNCHANGED <<installed, workers, agent, tries, used, cleanup>>
  /\ UNCHANGED <<binja, available, jvm, disk, memory>>

\* _ensure_ghidra looks at its two flags; nothing keeps two threads apart.
EnsureGhidra(s) ==
  /\ Opening(s, "ghidra")
  /\ \/ "ghidra" \notin installed /\ OpenRaises(s)
     \/ /\ "ghidra" \in installed
        /\ Go(s, IF available THEN "prepare" ELSE IF started THEN "verify" ELSE "starting")
        /\ UNCHANGED <<installed, workers, agent, tries, used, cleanup>>
  /\ UNCHANGED <<globals, disk, memory>>

\* pyhidra.start(): if the JVM is up already, by another thread's call, it may
\* return or raise what _ensure_ghidra does not catch.
StartJvm(s) ==
  /\ at[s] = "starting"
  /\ \/ /\ Go(s, "flagging")
        /\ jvm' = TRUE
        /\ UNCHANGED <<installed, workers, agent, tries, used, cleanup>>
     \/ jvm /\ OpenRaises(s) /\ UNCHANGED jvm
  /\ UNCHANGED <<binja, started, available, disk, memory>>

\* The call has returned.
MarkStarted(s) ==
  /\ at[s] = "flagging"
  /\ started' = TRUE
  /\ Go(s, "verify")
  /\ UNCHANGED <<installed, workers, binja, available, jvm, agent, tries, used, cleanup>>
  /\ UNCHANGED <<disk, memory>>

\* The Ghidra classes can be imported.
MarkAvailable(s) ==
  /\ at[s] = "verify"
  /\ available' = TRUE
  /\ Go(s, "prepare")
  /\ UNCHANGED <<installed, workers, binja, started, jvm, agent, tries, used, cleanup>>
  /\ UNCHANGED <<disk, memory>>

\* _prepare_binary: lipo makes a thin binary of a universal one, if it can.
Prepare(s) ==
  /\ at[s] = "prepare"
  /\ Go(s, "clean")
  /\ \E made \in IF s \in Universal THEN BOOLEAN ELSE {FALSE} :
       /\ cleanup' = [cleanup EXCEPT ![s] = made]
       /\ thin' = IF made THEN thin \cup {Stem[s]} ELSE thin
  /\ UNCHANGED <<installed, workers, globals, agent, tries, used, leaked, intact, memory>>

\* The samples that use the project of s: it is named after the prepared file.
SameProject(s) == {r \in Samples : Stem[r] = Stem[s] /\ cleanup[r] = cleanup[s]}

\* Mutant of Clean: the whole directory is removed, not the stale project.
CleanAll(s) ==
  /\ at[s] = "clean"
  /\ Go(s, "load")
  /\ intact' = {}
  /\ UNCHANGED <<installed, workers, globals, agent, tries, used, cleanup, thin, leaked, memory>>

\* "Clean stale project": whoever made it.
Clean(s) ==
  /\ at[s] = "clean"
  /\ Go(s, "load")
  /\ intact' = intact \ SameProject(s)
  /\ UNCHANGED <<installed, workers, globals, agent, tries, used, cleanup, thin, leaked, memory>>

\* pyhidra.open_program makes the project and analyses the prepared file, which
\* must be there; or it raises.
Load(s) ==
  /\ at[s] = "load"
  /\ \/ /\ cleanup[s] => Stem[s] \in thin
        /\ Go(s, "open")
        /\ intact' = intact \cup {s}
        /\ UNCHANGED <<installed, workers, agent, tries, used, cleanup, leaked>>
     \/ /\ OpenRaises(s)
        /\ leaked' = IF cleanup[s] THEN leaked \cup ({Stem[s]} \cap thin) ELSE leaked
        /\ UNCHANGED intact
  /\ UNCHANGED <<globals, thin, memory>>

\* ----------------------------- queries, close ------------------------------

\* Mutant of Use: close() is not in a finally clause.
UseUnguarded(s) ==
  /\ at[s] = "open"
  /\ \/ Go(s, "closing") \/ GiveUp(s)
  /\ UNCHANGED <<installed, workers, globals, agent, tries, used, cleanup, disk, memory>>

\* The agent's queries, which end normally or in an exception: either way the
\* finally clause or the with statement closes.
Use(s) ==
  /\ at[s] = "open"
  /\ \/ Go(s, "closing") \/ Go(s, "unwinding")
  /\ UNCHANGED <<installed, workers, globals, agent, tries, used, cleanup, disk, memory>>

\* The agent is done with its backend, the first one having recorded which.
Closed(s) ==
  /\ used' = IF agent[s] = 1 /\ at[s] = "closing"
             THEN [used EXCEPT ![s] = Head(tries[s])] ELSE used
  /\ IF at[s] = "closing" THEN Go(s, "between") ELSE GiveUp(s)
  /\ tries' = [tries EXCEPT ![s] = <<>>]
  /\ cleanup' = [cleanup EXCEPT ![s] = FALSE]
  /\ UNCHANGED <<installed, workers, globals, agent>>

Closing(s, b) == at[s] \in {"closing", "unwinding"} /\ Head(tries[s]) = b

\* Mutant of CloseBinja: closed by the agent and by the with statement.
CloseBinjaTwice(s) ==
  /\ Closing(s, "binary_ninja")
  /\ views' = [views EXCEPT ![s] = @ - 2]
  /\ Closed(s)
  /\ UNCHANGED <<disk, halfOpen>>

CloseBinja(s) ==
  /\ Closing(s, "binary_ninja")
  /\ views' = [views EXCEPT ![s] = @ - 1]
  /\ Closed(s)
  /\ UNCHANGED <<disk, halfOpen>>

\* Mutant of CloseGhidra: an exception of the context's exit skips the unlink.
CloseGhidraHalf(s) ==
  /\ Closing(s, "ghidra")
  /\ intact' = intact \ {s}
  /\ \E gone \in IF cleanup[s] THEN SUBSET {Stem[s]} ELSE {{}} :
       /\ thin' = thin \ gone
       /\ leaked' = leaked \ gone
  /\ Closed(s)
  /\ UNCHANGED memory

\* Both exceptions are swallowed: that of the context's exit, and that of
\* unlink(), which finds the file gone at worst.
CloseGhidra(s) ==
  /\ Closing(s, "ghidra")
  /\ intact' = intact \ {s}
  /\ thin' = IF cleanup[s] THEN thin \ {Stem[s]} ELSE thin
  /\ leaked' = IF cleanup[s] THEN leaked \ {Stem[s]} ELSE leaked
  /\ Closed(s)
  /\ UNCHANGED memory

OpenStep(s) ==
  \/ BinjaMissing(s) \/ OpenBinja(s)
  \/ EnsureGhidra(s) \/ StartJvm(s) \/ MarkStarted(s) \/ MarkAvailable(s)
  \/ Prepare(s) \/ Clean(s) \/ Load(s)

Step(s) ==
  \/ Begin(s) \/ NextAgent(s) \/ Leave(s)
  \/ OpenStep(s) \/ Use(s) \/ CloseBinja(s) \/ CloseGhidra(s)

Done == (\A s \in Samples : at[s] = "over") /\ UNCHANGED backendVars

Next == Done \/ \E s \in Samples : Step(s)

Spec == Init /\ [][Next]_backendVars

------------------------------------------------------------------------------

Places == {"waiting", "between", "over", "opening", "starting", "flagging", "verify",
           "prepare", "clean", "load", "open", "closing", "unwinding"}

BackendsTypeOK ==
  /\ installed \subseteq {"binary_ninja", "ghidra"}
  /\ workers \in Parallelisms
  /\ binja \in {"unknown", "yes", "no"}
  /\ {started, available, jvm} \subseteq BOOLEAN
  /\ agent \in [Samples -> 0 .. Len(Agents)]
  /\ tries \in [Samples -> Seq({"binary_ninja", "ghidra"})]
  /\ at \in [Samples -> Places]
  /\ used \in [Samples -> {"none", "binary_ninja", "ghidra"}]
  /\ cleanup \in [Samples -> BOOLEAN]
  /\ thin \subseteq Stems /\ leaked \subseteq thin /\ intact \subseteq Samples
  /\ views \in [Samples -> Nat]
  /\ halfOpen \in [Samples -> Nat]

\* s has Ghidra open, or is closing it.
HasGhidra(s) == at[s] \in {"open", "closing", "unwinding"} /\ Head(tries[s]) = "ghidra"

\* s has a BinaryView that it will close.
HasView(s) == at[s] \in {"open", "closing", "unwinding"} /\ Head(tries[s]) = "binary_ninja"

\* What s has on disk is there: its project, and the thin binary it works on.
Undisturbed(s) ==
  /\ HasGhidra(s) => s \in intact
  /\ cleanup[s] => Stem[s] \in thin

\* No sample loses its project or its thin binary to another one, unless the
\* batch is parallel and the two files differ in nothing but their suffix.
OnlySiblingsDisturb ==
  \A s \in Samples :
    \/ Undisturbed(s)
    \/ workers > 1 /\ \E r \in Samples \ {s} : Stem[r] = Stem[s]

\* However many threads come to _ensure_ghidra at once, none goes on before the
\* JVM is up, and no flag says that it is up before it is.
JvmBeforeUse ==
  /\ started \/ available => jvm
  /\ \A s \in Samples :
       at[s] \in {"flagging", "verify", "prepare", "clean", "load"} \/ HasGhidra(s) => jvm

\* A thin binary on disk is one that an agent is working on, or was left by an
\* open() that raised.
ThinFilesAccounted ==
  thin \subseteq leaked \cup {Stem[s] : s \in {r \in Samples : cleanup[r]}}

(***************************************************************************)
(* Every BinaryView is closed again, whatever the queries did, except those*)
(* whose analysis raised in open(); of these a pipeline leaves at most one *)
(* per agent and one more: the assessment may leave two, and so may the    *)
(* static analysis, but then the agents after it reopen Ghidra.            *)
(***************************************************************************)
ViewsAccounted ==
  \A s \in Samples :
    /\ views[s] = halfOpen[s] + (IF HasView(s) THEN 1 ELSE 0)
    /\ halfOpen[s] <= Len(Agents) + 1

==============================================================================
