------------------------------- MODULE QlogScan -------------------------------
(***************************************************************************)
(* domains/network/qlog_parser.py: QlogParser._parse() on one file, with   *)
(* its three shapes and the tolerant scanner that salvages events from an  *)
(* object that is no JSON; and what qlog_analysis_agent takes from it.     *)
(*                                                                         *)
(* A line of a file is what the scanner tells of it: whether it starts as  *)
(* an event tuple does, and its brackets, quotes and backslashes.  With    *)
(* each of these characters goes where JSON has it, which the scanner has  *)
(* to find out.  Of the writer of the file the model knows which lines are *)
(* one event, and which events are JSON and have the form of an event; and *)
(* which other lines, put together, pass for one.  Metadata and the        *)
(* contents of events are left out.                                        *)
(***************************************************************************)
EXTENDS Integers, Sequences, FiniteSets

CONSTANT QlogFiles    \* what may lie in the qlog directory

\* ------------------------------ files and JSON ------------------------------

Mark == [char : {"[", "]", "quote", "backslash", "letter"},
         at : {"outside", "string", "escaped"}]

\* Where JSON has the character after m.
Behind(m) ==
  IF m.at = "escaped" THEN "string"
  ELSE IF m.char = "quote" THEN IF m.at = "outside" THEN "string" ELSE "outside"
  ELSE IF m.char = "backslash" /\ m.at = "string" THEN "escaped"
  ELSE m.at

\* A line of JSON: each string that begins on it ends on it.
Closed(marks) ==
  marks # <<>> =>
    /\ marks[1].at = "outside" /\ Behind(marks[Len(marks)]) = "outside"
    /\ \A k \in 1 .. Len(marks) - 1 : marks[k + 1].at = Behind(marks[k])

\* How many brackets c, of JSON's and not of a string's, the first n marks hold.
Brackets(marks, c, n) ==
  Cardinality({k \in 1 .. n : marks[k].char = c /\ marks[k].at = "outside"})

Balance(marks, n) == Brackets(marks, "[", n) - Brackets(marks, "]", n)

RecordKinds == {"malformed", "header", "event", "other", "scalar"}

LinesOf(f, e) == {n \in 1 .. Len(f.lines) : f.lines[n].of = e}

\* Line n is the first one of its source.
Begins(f, n) == n - 1 \notin LinesOf(f, f.lines[n].of)

\* Strings are closed on each line of source e, and its brackets are balanced
\* at the end of its last line and of no line before.
Matched(f, e) ==
  \A n \in LinesOf(f, e) :
    /\ Closed(f.lines[n].marks)
    /\ f.lines[n].level = Balance(f.lines[n].marks, Len(f.lines[n].marks))
                            + IF Begins(f, n) THEN 0 ELSE f.lines[n - 1].level
    /\ f.lines[n].level = 0 <=> n + 1 \notin LinesOf(f, e)

Tuple(f, e) == \E n \in LinesOf(f, e) : Begins(f, n) /\ f.lines[n].first

(***************************************************************************)
(* shape: "object" begins with a brace, "records" with a record separator  *)
(* or otherwise.  strict: what the strict parser makes of an object:       *)
(* events, no event, no JSON, or an exception that is not about JSON.      *)
(* good: the sources, what the producer wrote tuple by tuple and, line by  *)
(* line, what is between them; a good one is JSON and has an event's form. *)
(* lines: each of one source, with the level of brackets behind it.        *)
(* fakes: lines that are no one source, of which json.loads nevertheless   *)
(* makes a list that has an event's form, when it gets them together: a    *)
(* tuple that was cut off, a whole one behind it, and the bracket that     *)
(* ends the array of events.                                               *)
(* records: the file, split at separators or newlines.                     *)
(***************************************************************************)
IsQlogFile(f) ==
  /\ f.shape \in {"object", "records"}
  /\ f.strict \in {"events", "none", "no_json", "raises"}
  /\ f.good \in Seq(BOOLEAN)
  /\ f.lines \in Seq([of : 1 .. Len(f.good), first : BOOLEAN, marks : Seq(Mark), level : Int])
  /\ \A m, n \in 1 .. Len(f.lines) : m <= n => f.lines[m].of <= f.lines[n].of
  /\ \A e \in 1 .. Len(f.good) :
       /\ LinesOf(f, e) # {}
       /\ f.good[e] => Tuple(f, e) /\ Matched(f, e)
       /\ ~ Tuple(f, e) => \A n \in LinesOf(f, e) : Begins(f, n)
  /\ f.fakes \subseteq SUBSET (1 .. Len(f.lines))
  /\ \A e \in 1 .. Len(f.good) : LinesOf(f, e) \notin f.fakes
  /\ f.records \in Seq(RecordKinds)

ASSUME QlogAssumption == \A f \in QlogFiles : IsQlogFile(f)

VARIABLES
  qlog,       \* the file that is parsed
  parsing,    \* where _parse is
  row,        \* the event, line or record that it reads
  inEvent,    \* in_evt
  bracket,    \* depth
  inString,
  escape,
  buf,        \* the numbers of the lines in buf, which are there in order
  events,     \* self.events: sources, or records, by number, or Invented
  taken       \* all_events of the agent

scanVars == <<inEvent, bracket, inString, escape, buf>>
qlogVars == <<qlog, parsing, row, scanVars, events, taken>>

QlogStart ==
  /\ parsing = "unread"
  /\ row = 1
  /\ inEvent = FALSE /\ bracket = 0 /\ inString = FALSE /\ escape = FALSE
  /\ buf = {}
  /\ events = <<>>
  /\ taken = <<>>

QlogInit == qlog \in QlogFiles /\ QlogStart

\* --------------------------------- _parse ----------------------------------

\* Strict JSON first, for an object.
ReadQlog ==
  /\ parsing = "unread"
  /\ parsing' = IF qlog.shape = "records" THEN "records"
                ELSE IF qlog.strict \in {"events", "raises"} THEN "strict" ELSE "scanning"
  /\ UNCHANGED <<qlog, row, scanVars, events, taken>>

\* _parse_json appends the events of a file that is JSON, one after the other.
StrictEvent ==
  /\ parsing = "strict" /\ row <= Len(qlog.good)
  /\ row' = row + 1
  /\ events' = IF qlog.good[row] THEN Append(events, row) ELSE events
  /\ UNCHANGED <<qlog, parsing, scanVars, taken>>

\* An event whose members are not of the types that they should have.
StrictRaises ==
  /\ parsing = "strict" /\ qlog.strict = "raises"
  /\ parsing' = "failed"
  /\ UNCHANGED <<qlog, row, scanVars, events, taken>>

\* If the strict parser finds no event, the scanner tries.
StrictEnds ==
  /\ parsing = "strict" /\ qlog.strict = "events" /\ row > Len(qlog.good)
  /\ parsing' = IF events = <<>> THEN "scanning" ELSE "parsed"
  /\ row' = 1
  /\ UNCHANGED <<qlog, scanVars, events, taken>>

\* ------------------------ _parse_streaming_tolerant ------------------------

\* Mutant of ReadToken: a backslash does not protect the quote behind it.
ReadTokenUnescaped(s, t) ==
  IF t = "quote" THEN [s EXCEPT !.str = ~ s.str]
  ELSE IF s.str THEN s
  ELSE CASE t = "[" -> [s EXCEPT !.depth = @ + 1]
         [] t = "]" -> [s EXCEPT !.depth = @ - 1]
         [] OTHER -> s

\* The scanner's state after one more character.
ReadToken(s, t) ==
  IF s.esc THEN [s EXCEPT !.esc = FALSE]
  ELSE IF t = "backslash" /\ s.str THEN [s EXCEPT !.esc = TRUE]
  ELSE IF t = "quote" THEN [s EXCEPT !.str = ~ s.str]
  ELSE IF s.str THEN s
  ELSE CASE t = "[" -> [s EXCEPT !.depth = @ + 1]
         [] t = "]" -> [s EXCEPT !.depth = @ - 1]
         [] OTHER -> s

Blank == [depth |-> 0, str |-> FALSE, esc |-> FALSE]

\* The states after each of the characters, from s on.
Readings(s, marks) ==
  LET read[n \in 0 .. Len(marks)] ==
        IF n = 0 THEN s ELSE ReadToken(read[n - 1], marks[n].char)
  IN  read

ReadTokens(s, marks) == Readings(s, marks)[Len(marks)]

\* An event that no source is.
Invented == 0

\* What json.loads makes of the buffer, and the test of its form: the event that
\* it is, if it holds all lines of one good source and no other; an invented one,
\* if it holds lines that pass for an event; or nothing.
Salvage(b) ==
  {e \in 1 .. Len(qlog.good) : b = LinesOf(qlog, e) /\ qlog.good[e]}
    \cup (IF b \in qlog.fakes THEN {Invented} ELSE {})

AtRow == parsing = "scanning" /\ row <= Len(qlog.lines)

Line == qlog.lines[row]

\* Outside an event a line that does not start like one is ignored.
SkipLine ==
  /\ AtRow /\ ~ inEvent /\ ~ Line.first
  /\ row' = row + 1
  /\ UNCHANGED <<qlog, parsing, scanVars, events, taken>>

\* A line that starts an event or continues one is put into the buffer; when
\* the brackets are balanced behind it, an event is made of the buffer if it
\* can be, and the buffer is dropped.
ScanLine ==
  LET s == ReadTokens(IF inEvent THEN [depth |-> bracket, str |-> inString, esc |-> escape]
                      ELSE Blank, Line.marks)
      b == IF inEvent THEN buf \cup {row} ELSE {row}
  IN  /\ AtRow /\ (inEvent \/ Line.first)
      /\ row' = row + 1
      /\ bracket' = s.depth /\ inString' = s.str /\ escape' = s.esc
      /\ inEvent' = (s.depth # 0)
      /\ buf' = IF s.depth = 0 THEN {} ELSE b
      /\ \/ s.depth = 0 /\ \E e \in Salvage(b) : events' = Append(events, e)
         \/ (s.depth # 0 \/ Salvage(b) = {}) /\ UNCHANGED events
      /\ UNCHANGED <<qlog, parsing, taken>>

\* Nothing salvaged: the file is read as records after all.
ScanEnds ==
  /\ parsing = "scanning" /\ row > Len(qlog.lines)
  /\ parsing' = IF events = <<>> THEN "records" ELSE "parsed"
  /\ row' = 1
  /\ UNCHANGED <<qlog, scanVars, events, taken>>

\* ------------------------------ _parse_sqlog -------------------------------

\* What is no JSON, a header or another object is passed over.  JSON that has
\* no members to look for, a bare number say, raises a TypeError.
ReadRecord ==
  /\ parsing = "records" /\ row <= Len(qlog.records)
  /\ row' = row + 1
  /\ parsing' = IF qlog.records[row] = "scalar" THEN "failed" ELSE parsing
  /\ events' = IF qlog.records[row] = "event" THEN Append(events, row) ELSE events
  /\ UNCHANGED <<qlog, scanVars, taken>>

RecordsEnd ==
  /\ parsing = "records" /\ row > Len(qlog.records)
  /\ parsing' = "parsed"
  /\ UNCHANGED <<qlog, row, scanVars, events, taken>>

\* --------------------------- qlog_analysis_agent ---------------------------

\* Mutant of TakeEvents: the parser hands over what it has when it fails.
TakeEventsAnyway ==
  /\ parsing \in {"parsed", "failed"}
  /\ taken' = events
  /\ parsing' = "over"
  /\ UNCHANGED <<qlog, row, scanVars, events>>

\* The agent extends all_events by a parsed file; one whose parser raised is
\* named among the failed ones, and what the parser had is gone with it.
TakeEvents ==
  /\ parsing \in {"parsed", "failed"}
  /\ taken' = IF parsing = "parsed" THEN events ELSE <<>>
  /\ parsing' = IF parsing = "parsed" THEN "over" ELSE "over_failed"
  /\ UNCHANGED <<qlog, row, scanVars, events>>

QlogDone == parsing \in {"over", "over_failed"} /\ UNCHANGED qlogVars

QlogNext ==
  \/ ReadQlog \/ StrictEvent \/ StrictRaises \/ StrictEnds
  \/ SkipLine \/ ScanLine \/ ScanEnds
  \/ ReadRecord \/ RecordsEnd \/ TakeEvents \/ QlogDone

QlogSpec == QlogInit /\ [][QlogNext]_qlogVars

------------------------------------------------------------------------------

\* list holds the members of set, each once and in order.
Lists(list, set) ==
  /\ {list[k] : k \in 1 .. Len(list)} = set
  /\ \A j, k \in 1 .. Len(list) : j < k => list[j] < list[k]

GoodEvents == {e \in 1 .. Len(qlog.good) : qlog.good[e]}

\* What looks like an event and has brackets or quotes that do not match.
Odd == {e \in 1 .. Len(qlog.good) : Tuple(qlog, e) /\ ~ Matched(qlog, e)}

\* Of the events that are sources, each comes once and none before an earlier one.
InOrder(list) ==
  \A j, k \in 1 .. Len(list) :
    j < k /\ list[j] # Invented /\ list[k] # Invented => list[j] < list[k]

(***************************************************************************)
(* Up to the first tuple whose own brackets or quotes do not match, the    *)
(* scanner finds every good event, and invents none: strings with brackets *)
(* and escaped quotes, events over several lines and balanced rubbish      *)
(* between them do not mislead it.  Behind such a tuple it may lose good   *)
(* events, and make one of lines that belong to several sources; but what  *)
(* it takes for an event and is one comes once and in order there, too.    *)
(***************************************************************************)
SalvageExact ==
  parsing = "scanning" =>
    LET read == {e \in 1 .. Len(qlog.good) : \A n \in LinesOf(qlog, e) : n < row}
        sure == {e \in read : \A d \in Odd : e < d}
        found == {events[k] : k \in 1 .. Len(events)}
    IN  /\ found \cap sure = GoodEvents \cap sure
        /\ found \ {Invented} \subseteq GoodEvents /\ InOrder(events)
        /\ Invented \in found => \E d \in Odd : \E n \in LinesOf(qlog, d) : n < row

(***************************************************************************)
(* The agent has all events of a file or none: all the good ones of a file *)
(* that was read to its end, and none of one whose parser raised half way. *)
(***************************************************************************)
AllOrNothing ==
  /\ parsing = "over_failed" => taken = <<>>
  /\ parsing = "over" /\ qlog.shape = "records"
       => Lists(taken, {r \in 1 .. Len(qlog.records) : qlog.records[r] = "event"})
  /\ parsing = "over" /\ qlog.shape = "object" /\ Odd = {} /\ GoodEvents # {}
       => Lists(taken, GoodEvents)

\* What qlog_parser.py:80-81 and :167 say of a malformed event: it is skipped and
\* the scanner continues, so that no valid event is lost.
OnlyMalformedLost ==
  parsing = "over" /\ qlog.shape = "object" => GoodEvents \subseteq {taken[k] : k \in 1 .. Len(taken)}

==============================================================================
