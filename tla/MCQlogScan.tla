------------------------------ MODULE MCQlogScan ------------------------------
(* Objects of up to three tuples or other lines, among them every way to       *)
(* confuse the scanner that the code provides for, and some it does not; and    *)
(* files of up to three records.                                                *)
EXTENDS QlogScan, SequencesExt

CONSTANT MaxSources

Out(c) == [char |-> c, at |-> "outside"]
In(c) == [char |-> c, at |-> "string"]
Esc(c) == [char |-> c, at |-> "escaped"]

TextLine(first, marks, level) == [first |-> first, marks |-> marks, level |-> level]
Source(good, lines) == [good |-> good, lines |-> lines]

\* [1, "a", "b", {}],
Whole == Source(TRUE, <<TextLine(TRUE, <<Out("["), Out("]")>>, 0)>>)
\* A string with an escaped quote and a bracket: [1, "a", "b\"[", {}],
Quoted == Source(TRUE, <<TextLine(TRUE,
  <<Out("["), Out("quote"), In("backslash"), Esc("quote"), In("["), In("quote"), Out("]")>>, 0)>>)
\* A string that ends in an escaped backslash.
Slashed == Source(TRUE, <<TextLine(TRUE,
  <<Out("["), Out("quote"), In("backslash"), Esc("backslash"), In("quote"), Out("]")>>, 0)>>)
\* Pretty-printed, with a line inside that looks like an event.
Pretty == Source(TRUE, <<TextLine(TRUE, <<Out("["), Out("[")>>, 2),
                         TextLine(TRUE, <<Out("["), Out("]")>>, 2),
                         TextLine(FALSE, <<Out("]"), Out("]")>>, 0)>>)
\* picoquic's "version_negotiation": "chosen": brackets match, JSON does not.
Broken == Source(FALSE, <<TextLine(TRUE, <<Out("["), Out("]")>>, 0)>>)
\* The file's own structure, which belongs to no tuple.
Heading == Source(FALSE, <<TextLine(FALSE, <<Out("[")>>, 1)>>)
\* Cut off in the middle.
Cut == Source(FALSE, <<TextLine(TRUE, <<Out("[")>>, 1)>>)
\* One bracket too many.
Surplus == Source(FALSE, <<TextLine(TRUE, <<Out("["), Out("]"), Out("]")>>, -1)>>)
\* A quote is missing.
Unquoted == Source(FALSE, <<TextLine(TRUE, <<Out("["), Out("quote"), In("]")>>, 1)>>)

\* The end of the array of events.
Closing == Source(FALSE, <<TextLine(FALSE, <<Out("]")>>, -1)>>)

Sources ==
  {Whole, Quoted, Slashed, Pretty, Broken, Heading, Cut, Surplus, Unquoted, Closing}

\* [1, "a", "b",        A tuple that was cut off, the good ones behind it, and the
\* [2, "c", "d", {}]    bracket that one of them or the file has too many: a list
\* ]                    that begins with a number and two strings.
Fakes(f, srcs) ==
  {UNION {LinesOf(f, e) : e \in i .. j} :
     <<i, j>> \in {ij \in (DOMAIN srcs) \X (DOMAIN srcs) :
       /\ ij[1] < ij[2] /\ srcs[ij[1]] = Cut /\ srcs[ij[2]] \in {Closing, Surplus}
       /\ \A e \in ij[1] + 1 .. ij[2] - 1 : srcs[e].good}}

File(shape, strict, srcs, records) ==
  [shape |-> shape, strict |-> strict,
   good |-> [e \in DOMAIN srcs |-> srcs[e].good],
   lines |-> FlattenSeq([e \in DOMAIN srcs |->
     [n \in DOMAIN srcs[e].lines |-> [of |-> e] @@ srcs[e].lines[n]]]),
   fakes |-> {}, records |-> records]

MCObjects ==
  LET srcs == UNION {[1 .. n -> Sources] : n \in 0 .. MaxSources}
      fine == UNION {[1 .. n -> {Whole, Pretty}] : n \in 1 .. MaxSources}
      broken == {File("object", "no_json", s, <<"malformed">>) : s \in srcs}
      faked == {LET f == File("object", "no_json", s, <<"malformed">>)
                IN  [f EXCEPT !.fakes = Fakes(f, s)] : s \in srcs}
  IN  broken \cup faked
      \cup {File("object", "events", s, <<>>) : s \in fine}
      \cup {File("object", "none", s, <<"other">>) : s \in fine \cup {<<>>}}
      \cup {File("object", "raises", s, <<>>) : s \in fine}
      \cup {File("object", "no_json", <<>>, r) : r \in [1 .. 2 -> {"other", "scalar", "malformed"}]}

MCRecords ==
  {File("records", "none", <<>>, r) : r \in UNION {[1 .. n -> RecordKinds] : n \in 0 .. 3}}

MCQlogFiles == MCObjects \cup MCRecords

==============================================================================
