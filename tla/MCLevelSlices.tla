----------------------------- MODULE MCLevelSlices ----------------------------
(* Days of four ticks, two levels, up to MaxLines lines that each may open the *)
(* file.  The capture begins at any time of the first day and lasts less than  *)
(* a day; with strace -f lines of different processes may be out of order.     *)
EXTENDS LevelSlices

CONSTANTS q1, MaxLines

MCInstant(t) == [day |-> t \div 4, tod |-> t % 4]

MCLines(origin, stamp) ==
  {[on |-> MCInstant(t), stamp |-> stamp, opens |-> f] :
     t \in origin .. origin + 3, f \in {q1, NoFile}}
  \cup {[on |-> MCInstant(origin), stamp |-> "none", opens |-> NoFile]}

MCTraces(origin, stamp) ==
  UNION {[1 .. n -> MCLines(origin, stamp)] : n \in 0 .. MaxLines}

MCLevels == {0, 10}

\* The levels follow each other without a gap.
MCCell(origin, b0, b1, b2, trace, missing) ==
  [origin |-> MCInstant(origin),
   from |-> [l \in MCLevels |-> MCInstant(IF l = 0 THEN b0 ELSE b1)],
   to |-> [l \in MCLevels |-> MCInstant(IF l = 0 THEN b1 ELSE b2)],
   missing |-> missing,
   trace |-> trace]

MCCells ==
  UNION {
    {MCCell(o, o, o + 1, o + 3, t, FALSE) : t \in MCTraces(o, stamp)}
    \cup {MCCell(o, o + 1, o + 2, o + 3, t, FALSE) : t \in MCTraces(o, stamp)}
    \cup {MCCell(o, o, o + 1, o + 2, <<>>, TRUE)}
    : o \in {0, 2, 3}, stamp \in {"tt", "ttt"}}

==============================================================================
