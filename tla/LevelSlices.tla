----------------------------- MODULE LevelSlices ------------------------------
(***************************************************************************)
(* domains/network/pcap_slicer.py: slice_cell() cuts the strace and the    *)
(* qlog files of a sweep into its levels by wall-clock time.               *)
(*                                                                         *)
(* An instant is a UTC day and a time of that day.  A line of the trace    *)
(* was written at the instant .on; what the slicer reads of that is its    *)
(* stamp: all of it (-ttt), the time of day (-tt) or nothing, for a line   *)
(* that continues the one before.  A line may open a qlog file.  A slice   *)
(* of the trace is the set of its line numbers: it keeps their order.      *)
(* The PCAP is cut by an outside tool and is left out.                     *)
(***************************************************************************)
EXTENDS Naturals, Sequences, FiniteSets

CONSTANTS
  Cells,     \* captured cells, see IsCell
  Files,     \* names in the cell's qlog directory
  NoFile,    \* what a line opens that opens none of them
  Levels,    \* the levels of the sweep, in the order of the log
  Passes     \* how often the cell is sliced: a bound of the model

Instants == [day : Nat, tod : Nat]

Before(a, b) == a.day < b.day \/ (a.day = b.day /\ a.tod < b.tod)

NextDay(a) == [a EXCEPT !.day = @ + 1]

\* An instant of the day that begins with a.
WithinDayOf(a, i) == ~ Before(i, a) /\ Before(i, NextDay(a))

(***************************************************************************)
(* origin: when the capture begins; all of it lies within a day.  from, to:*)
(* of each level.  trace: the lines of server.strace, unless it is missing.*)
(***************************************************************************)
IsCell(c) ==
  /\ c.origin \in Instants
  /\ c.from \in [Levels -> Instants] /\ c.to \in [Levels -> Instants]
  /\ c.missing \in BOOLEAN
  /\ c.trace \in Seq([on : Instants, stamp : {"ttt", "tt", "none"},
                      opens : Files \cup {NoFile}])
  /\ \A l \in Levels : /\ WithinDayOf(c.origin, c.from[l])
                       /\ WithinDayOf(c.origin, c.to[l])
                       /\ ~ Before(c.to[l], c.from[l])
  /\ \A l, m \in Levels : l < m => ~ Before(c.from[m], c.to[l])
  /\ \A n \in 1 .. Len(c.trace) : WithinDayOf(c.origin, c.trace[n].on)

ASSUME SlicesAssumption ==
  /\ \A c \in Cells : IsCell(c)
  /\ NoFile \notin Files
  /\ Levels \subseteq Nat /\ IsFiniteSet(Levels)
  /\ Passes \in Nat

VARIABLES
  cell,      \* the cell
  mtime,     \* st_mtime of each file in it
  chosen,    \* levels_filter
  doing,     \* what slice_cell does
  line,      \* the line of the trace that it reads
  opened,    \* open_times: for each file the line that opened it first, or 0
  level,     \* the level that it slices
  kept,      \* out_lines of that level
  slice,     \* on disk: the server.strace of each level
  links,     \* on disk: the qlog directory of each level
  pass       \* how often slice_cell was called

slicesVars ==
  <<cell, mtime, chosen, doing, line, opened, level, kept, slice, links, pass>>

SlicesInit ==
  /\ cell \in Cells
  /\ mtime = [f \in Files |-> cell.origin]
  /\ chosen = {}
  /\ doing = "idle"
  /\ line = 1
  /\ opened = [f \in Files |-> 0]
  /\ level = 0
  /\ kept = {}
  /\ slice = [l \in Levels |-> {}]
  /\ links = [l \in Levels |-> {}]
  /\ pass = 0

InWindow(l, i) == ~ Before(i, cell.from[l]) /\ Before(i, cell.to[l])

\* The instant that the slicer takes the stamp of line n for, if the trace is
\* of the UTC day of the instant "base".
Resolved(n, base) ==
  IF cell.trace[n].stamp = "ttt" THEN cell.trace[n].on
  ELSE [cell.trace[n].on EXCEPT !.day = base.day]

Stamped(n) == cell.trace[n].stamp # "none"

FirstLevel(ls) == CHOOSE l \in ls : \A m \in ls : l <= m

\* ------------------------------- slice_cell --------------------------------

\* Modification times that the model tells apart: in each level, between two
\* that do not touch, and after the last.
Moments == UNION {{cell.from[l], cell.to[l]} : l \in Levels}

\* slice_cell is called, for all levels or some, on files that may have been
\* copied or unpacked since and have another modification time then.  It may be
\* called again after it raised.
SliceCell ==
  /\ doing \in {"idle", "sliced", "raised"}
  /\ pass < Passes
  /\ pass' = pass + 1
  /\ chosen' \in SUBSET Levels
  /\ mtime' \in [Files -> Moments]
  /\ doing' = "mapping"
  /\ line' = 1
  /\ opened' = [f \in Files |-> 0]
  /\ UNCHANGED <<cell, level, kept, slice, links>>

AtLine(what) == doing = what /\ line <= Len(cell.trace)

\* Without a trace or a level, build_qlog_open_time_map is not called.
Mappable == ~ cell.missing /\ chosen # {}

\* build_qlog_open_time_map reads a line: the first open of a file counts.
MapLine ==
  /\ Mappable /\ AtLine("mapping")
  /\ opened' = [f \in Files |->
       IF f = cell.trace[line].opens /\ Stamped(line) /\ opened[f] = 0
       THEN line ELSE opened[f]]
  /\ line' = line + 1
  /\ UNCHANGED <<cell, mtime, chosen, doing, level, kept, slice, links, pass>>

\* The next level, or none is left.
SliceFrom(ls) ==
  IF ls = {} THEN doing' = "sliced" /\ level' = level
  ELSE doing' = "slicing" /\ level' = FirstLevel(ls)

\* The map is complete; the loop over the levels begins.
Mapped ==
  /\ doing = "mapping"
  /\ Mappable => line > Len(cell.trace)
  /\ SliceFrom(chosen)
  /\ line' = 1
  /\ kept' = {}
  /\ UNCHANGED <<cell, mtime, chosen, opened, slice, links, pass>>

\* assign_qlog_files_to_levels raises where there is no qlog directory.
NoQlogs ==
  /\ doing = "mapping"
  /\ Mappable => line > Len(cell.trace)
  /\ doing' = "raised"
  /\ UNCHANGED <<cell, mtime, chosen, line, opened, level, kept, slice, links, pass>>

\* A level is begun: slice_pcap raises if editcap or scapy does, and if not,
\* slice_strace opens the trace without asking whether it is there.
BeginFails ==
  /\ doing = "slicing" /\ line = 1 /\ kept = {}
  /\ doing' = "raised"
  /\ UNCHANGED <<cell, mtime, chosen, line, opened, level, kept, slice, links, pass>>

\* slice_strace decides on line n of the level: by its stamp, read as one of the
\* day on which the level starts; without a stamp, by whether any line is kept.
Wanted(n) ==
  IF Stamped(n) THEN InWindow(level, Resolved(n, cell.from[level])) ELSE kept # {}

\* Mutant of SliceLine: the stamps are of the day on which the sweep starts.
SliceLineOneDay ==
  /\ ~ cell.missing /\ AtLine("slicing")
  /\ kept' = IF (IF Stamped(line)
                 THEN InWindow(level, Resolved(line, cell.from[FirstLevel(Levels)]))
                 ELSE kept # {})
             THEN kept \cup {line} ELSE kept
  /\ line' = line + 1
  /\ UNCHANGED <<cell, mtime, chosen, doing, opened, level, slice, links, pass>>

SliceLine ==
  /\ ~ cell.missing /\ AtLine("slicing")
  /\ kept' = IF Wanted(line) THEN kept \cup {line} ELSE kept
  /\ line' = line + 1
  /\ UNCHANGED <<cell, mtime, chosen, doing, opened, level, slice, links, pass>>

\* assign_qlog_files_to_levels: when it takes f to be created.  The day is that
\* on which the first chosen level starts.
Created(f) ==
  IF opened[f] = 0 THEN mtime[f] ELSE Resolved(opened[f], cell.from[FirstLevel(chosen)])

Assigned(l) == {f \in Files : InWindow(l, Created(f))}

\* A link can neither be made nor copied, or a stale one not be removed: the
\* slice is written, the links are what was there or is there by then.
LinkFails ==
  /\ doing = "slicing" /\ ~ cell.missing
  /\ line > Len(cell.trace)
  /\ slice' = [slice EXCEPT ![level] = kept]
  /\ \E fs \in (SUBSET links[level]) \cup (SUBSET Assigned(level)) :
       links' = [links EXCEPT ![level] = fs]
  /\ doing' = "raised"
  /\ kept' = {}
  /\ UNCHANGED <<cell, mtime, chosen, line, opened, level, pass>>

\* Mutant of WriteLevel: links of an earlier run stay.
WriteLevelOver ==
  /\ doing = "slicing" /\ ~ cell.missing
  /\ line > Len(cell.trace)
  /\ slice' = [slice EXCEPT ![level] = kept]
  /\ links' = [links EXCEPT ![level] = @ \cup Assigned(level)]
  /\ SliceFrom({l \in chosen : l > level})
  /\ line' = 1
  /\ kept' = {}
  /\ UNCHANGED <<cell, mtime, chosen, opened, pass>>

\* Mutant of WriteLevel: levels_filter is not looked at for the next one.
WriteLevelUnfiltered ==
  /\ doing = "slicing" /\ ~ cell.missing
  /\ line > Len(cell.trace)
  /\ slice' = [slice EXCEPT ![level] = kept]
  /\ links' = [links EXCEPT ![level] = Assigned(level)]
  /\ SliceFrom({l \in Levels : l > level})
  /\ line' = 1
  /\ kept' = {}
  /\ UNCHANGED <<cell, mtime, chosen, opened, pass>>

\* The slice is written, stale links are removed and those of the files that
\* are assigned to the level are made.
WriteLevel ==
  /\ doing = "slicing" /\ ~ cell.missing
  /\ line > Len(cell.trace)
  /\ slice' = [slice EXCEPT ![level] = kept]
  /\ links' = [links EXCEPT ![level] = Assigned(level)]
  /\ SliceFrom({l \in chosen : l > level})
  /\ line' = 1
  /\ kept' = {}
  /\ UNCHANGED <<cell, mtime, chosen, opened, pass>>

SlicesDone ==
  /\ doing \in {"sliced", "raised"} /\ pass = Passes
  /\ UNCHANGED slicesVars

SlicesNext ==
  \/ SliceCell \/ MapLine \/ Mapped \/ NoQlogs
  \/ BeginFails \/ SliceLine \/ WriteLevel \/ LinkFails
  \/ SlicesDone

SlicesSpec == SlicesInit /\ [][SlicesNext]_slicesVars

------------------------------------------------------------------------------

SlicesTypeOK ==
  /\ IsCell(cell)
  /\ mtime \in [Files -> Instants]
  /\ chosen \subseteq Levels
  /\ doing \in {"idle", "mapping", "slicing", "sliced", "raised"}
  /\ line \in 1 .. Len(cell.trace) + 1
  /\ opened \in [Files -> 0 .. Len(cell.trace)]
  /\ doing = "slicing" => level \in chosen
  /\ kept \subseteq 1 .. line - 1
  /\ slice \in [Levels -> SUBSET (1 .. Len(cell.trace))]
  /\ links \in [Levels -> SUBSET Files]
  /\ pass \in 0 .. Passes

\* Levels that the present call has written.
Written ==
  CASE doing = "sliced"  -> chosen
    [] doing = "slicing" -> {l \in chosen : l < level}
    [] OTHER -> {}

(***************************************************************************)
(* A stamped line is in the slice of the level in which it was written and *)
(* in no other.  The one exception: where only the time of day is stamped, *)
(* a level that is under way at midnight loses the lines after it.         *)
(***************************************************************************)
LinesInTheirLevel ==
  \A l \in Written : \A n \in {m \in 1 .. Len(cell.trace) : Stamped(m)} :
    /\ n \in slice[l] => InWindow(l, cell.trace[n].on)
    /\ InWindow(l, cell.trace[n].on) /\ n \notin slice[l]
         => cell.trace[n].stamp = "tt" /\ cell.from[l].day < cell.trace[n].on.day

\* The stamped lines that open f.
Opens(f) == {n \in 1 .. Len(cell.trace) : cell.trace[n].opens = f /\ Stamped(n)}

\* The line that opened f first.
FirstOpen(f) == cell.trace[CHOOSE n \in Opens(f) : \A m \in Opens(f) : n <= m]

(***************************************************************************)
(* A file whose opening the trace shows is linked, in any level and by any *)
(* call, one that raised included, only where it was first opened: never   *)
(* in two levels, whatever its modification times and the levels asked for *)
(* have been.  The levels that the present call has written have each its  *)
(* files; the one exception: where only the time of day is stamped, files  *)
(* opened after the midnight that follows the first chosen level are       *)
(* linked nowhere.  A file that is placed by its modification time is in   *)
(* one of these levels at most.  It keeps the link that an earlier call    *)
(* made for a level that is not asked for now.                             *)
(***************************************************************************)
FilesInTheirLevel ==
  /\ \A f \in {g \in Files : Opens(g) # {}} :
       /\ \A l \in Levels : f \in links[l] => InWindow(l, FirstOpen(f).on)
       /\ \A l \in Written : InWindow(l, FirstOpen(f).on) /\ f \notin links[l] =>
            FirstOpen(f).stamp = "tt" /\ cell.from[FirstLevel(chosen)].day < FirstOpen(f).on.day
  /\ \A l, m \in Written : l # m => links[l] \cap links[m] = {}

\* What pcap_slicer.py:304-305 says of a line without a stamp: it belongs with
\* the previous line, if that was kept.
ContinuationsFollow ==
  \A l \in Written : \A n \in slice[l] :
    ~ Stamped(n) => n - 1 \in slice[l]

==============================================================================
