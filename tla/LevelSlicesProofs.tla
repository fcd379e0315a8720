-------------------------- MODULE LevelSlicesProofs ---------------------------
(***************************************************************************)
(* LevelSlices for every cell, every number of levels and lines and every  *)
(* sequence of calls.  The argument has two halves: what the day of a      *)
(* stamp may be taken for (MisreadStamp), and what a call has done so far  *)
(* (Progress, with the line that opened each file first).                  *)
(***************************************************************************)
EXTENDS LevelSlices, WellFoundedInduction, TLAPS

\* Every nonempty set of levels has a first one.
LEMMA LeastExists ==
  ASSUME NEW ls, ls \subseteq Nat, ls # {}
  PROVE  \E l \in ls : \A m \in ls : l <= m
  <1> DEFINE R == OpToRel(<, Nat)
  <1>1. IsWellFoundedOn(R, Nat)
    BY NatLessThanWellFounded
  <1>2. \A x, y \in Nat : x < y => <<x, y>> \in R
    BY DEF OpToRel
  <1> HIDE DEF R
  <1>3. PICK l \in ls : \A m \in ls : ~ (<<m, l>> \in R)
    BY <1>1, WFMin
  <1>4. \A m \in ls : ~ (m < l)
    BY <1>2, <1>3
  <1> QED BY <1>4

LEMMA FirstLevelIsFirst ==
  ASSUME NEW ls, ls \subseteq Levels, ls # {}
  PROVE  FirstLevel(ls) \in ls /\ \A m \in ls : FirstLevel(ls) <= m
  <1>1. \E l \in ls : \A m \in ls : l <= m
    BY LeastExists, SlicesAssumption
  <1> QED BY <1>1 DEF FirstLevel

\* ------------------------------- wall clocks -------------------------------

\* The order of instants, by day and time of day.
LEMMA OrderOfInstants ==
  ASSUME NEW a \in Instants, NEW b \in Instants, NEW c \in Instants
  PROVE  /\ Before(a, b) /\ ~ Before(c, b) => Before(a, c)
         /\ ~ Before(b, a) /\ Before(b, c) => Before(a, c)
         /\ ~ Before(b, a) /\ ~ Before(c, b) => ~ Before(c, a)
         /\ ~ Before(a, a)
         /\ Before(a, b) => ~ Before(b, a)
  BY DEF Instants, Before

\* The clock of the window [f, t): all of it within a day of o.
Within(f, i, t) == ~ Before(i, f) /\ Before(i, t)

(***************************************************************************)
(* A time of day that is read as one of the day of b, an instant of the    *)
(* capture that is not after the window, is never taken into a window that *)
(* it is not of, and falls out of its window only if its day comes after   *)
(* that of b.                                                              *)
(***************************************************************************)
LEMMA MisreadStamp ==
  ASSUME NEW o \in Instants, NEW b \in Instants, NEW f \in Instants, NEW t \in Instants,
         NEW i \in Instants,
         WithinDayOf(o, b), WithinDayOf(o, f), WithinDayOf(o, t), WithinDayOf(o, i),
         ~ Before(f, b), ~ Before(t, f)
  PROVE  LET r == [day |-> b.day, tod |-> i.tod]
         IN  /\ r \in Instants
             /\ Within(f, r, t) => Within(f, i, t)
             /\ Within(f, i, t) /\ ~ Within(f, r, t) => b.day < i.day
  <1> DEFINE r == [day |-> b.day, tod |-> i.tod]
  <1>1. /\ {o.day, o.tod, b.day, b.tod, f.day, f.tod, t.day, t.tod, i.day, i.tod} \subseteq Nat
        /\ r.day = b.day /\ r.tod = i.tod /\ r \in Instants
    BY DEF Instants
  <1>2. NextDay(o).day = o.day + 1 /\ NextDay(o).tod = o.tod
    BY DEF NextDay, Instants
  <1>3. \A x \in {b, f, t, i} :
          /\ x.day = o.day \/ x.day = o.day + 1
          /\ x.day = o.day => o.tod <= x.tod
          /\ x.day = o.day + 1 => x.tod < o.tod
    BY <1>1, <1>2 DEF WithinDayOf, Before, Instants
  <1> HIDE DEF r
  <1>4. CASE i.day = b.day
    <2>1. Within(f, r, t) <=> Within(f, i, t)
      BY <1>1, <1>4 DEF Within, Before
    <2> QED BY <1>1, <2>1 DEF r
  <1>5. CASE b.day = o.day /\ i.day = o.day + 1
    <2>1. ~ Within(f, r, t) /\ b.day < i.day
      BY <1>1, <1>3, <1>5 DEF Within, Before
    <2> QED BY <1>1, <2>1 DEF r
  <1>6. CASE b.day = o.day + 1 /\ i.day = o.day
    <2>1. f.day = o.day + 1 /\ t.day = o.day + 1
      BY <1>1, <1>3, <1>6 DEF Before
    <2>2. ~ Within(f, r, t) /\ ~ Within(f, i, t)
      BY <1>1, <1>3, <1>6, <2>1 DEF Within, Before
    <2> QED BY <1>1, <2>2 DEF r
  <1> QED BY <1>1, <1>3, <1>4, <1>5, <1>6 DEF r

\* ----------------------------------- cells ---------------------------------

LEMMA CellFacts ==
  ASSUME IsCell(cell)
  PROVE  /\ Len(cell.trace) \in Nat
         /\ cell.origin \in Instants
         /\ \A l \in Levels :
              /\ cell.from[l] \in Instants /\ cell.to[l] \in Instants
              /\ WithinDayOf(cell.origin, cell.from[l]) /\ WithinDayOf(cell.origin, cell.to[l])
              /\ ~ Before(cell.to[l], cell.from[l])
         /\ \A l, m \in Levels : l < m => ~ Before(cell.from[m], cell.to[l])
         /\ \A n \in 1 .. Len(cell.trace) :
              /\ cell.trace[n].on \in Instants /\ WithinDayOf(cell.origin, cell.trace[n].on)
              /\ cell.trace[n].stamp \in {"ttt", "tt", "none"}
              /\ cell.trace[n].opens \in Files \cup {NoFile}
  <1> DEFINE Lines == [on : Instants, stamp : {"ttt", "tt", "none"}, opens : Files \cup {NoFile}]
  <1>1. cell.trace \in Seq(Lines)
    BY DEF IsCell
  <1> HIDE DEF Lines
  <1>2. Len(cell.trace) \in Nat /\ \A n \in 1 .. Len(cell.trace) : cell.trace[n] \in Lines
    BY <1>1
  <1> QED BY <1>2 DEF IsCell, Lines

\* What InWindow says of two levels, of which an instant can be in one only.
LEMMA WindowsAreDisjoint ==
  ASSUME IsCell(cell), NEW l \in Levels, NEW m \in Levels, l # m,
         NEW i \in Instants, InWindow(l, i)
  PROVE  ~ InWindow(m, i)
  <1>1. l \in Nat /\ m \in Nat
    BY SlicesAssumption
  <1>2. CASE l < m
    <2>1. ~ Before(cell.from[m], cell.to[l])
      BY <1>2, CellFacts
    <2> QED BY <2>1, CellFacts, OrderOfInstants DEF InWindow
  <1>3. CASE m < l
    <2>1. ~ Before(cell.from[l], cell.to[m])
      BY <1>3, CellFacts
    <2> QED BY <2>1, CellFacts, OrderOfInstants DEF InWindow
  <1> QED BY <1>1, <1>2, <1>3

\* How a stamped line is read for a level, by the day of that level's or of an
\* earlier level's beginning.
LEMMA StampedLine ==
  ASSUME IsCell(cell), NEW l \in Levels, NEW k \in Levels, k <= l,
         NEW n \in 1 .. Len(cell.trace), Stamped(n)
  PROVE  LET r == Resolved(n, cell.from[k])
             i == cell.trace[n].on
         IN  /\ r \in Instants
             /\ InWindow(l, r) => InWindow(l, i)
             /\ InWindow(l, i) /\ ~ InWindow(l, r)
                  => cell.trace[n].stamp = "tt" /\ cell.from[k].day < i.day
  <1> DEFINE i == cell.trace[n].on
             b == cell.from[k]
             f == cell.from[l]
             t == cell.to[l]
             r == [day |-> b.day, tod |-> i.tod]
  <1>1. i \in Instants /\ WithinDayOf(cell.origin, i) /\ cell.trace[n].stamp \in {"ttt", "tt"}
    BY CellFacts DEF Stamped
  <1>2. CASE cell.trace[n].stamp = "ttt"
    BY <1>1, <1>2 DEF Resolved
  <1>3. CASE cell.trace[n].stamp = "tt"
    <2>1. Resolved(n, b) = r
      BY <1>1, <1>3 DEF Resolved, Instants
    <2>2. ~ Before(f, b)
      <3>1. CASE k = l
        BY <3>1, CellFacts, OrderOfInstants
      <3>2. CASE k # l
        <4>1. ~ Before(cell.from[l], cell.to[k]) /\ ~ Before(cell.to[k], cell.from[k])
          BY <3>2, CellFacts, SlicesAssumption
        <4> QED BY <4>1, CellFacts, OrderOfInstants
      <3> QED BY <3>1, <3>2
    <2>3. /\ r \in Instants
          /\ Within(f, r, t) => Within(f, i, t)
          /\ Within(f, i, t) /\ ~ Within(f, r, t) => b.day < i.day
      BY <1>1, <2>2, CellFacts, MisreadStamp
    <2> QED BY <1>3, <2>1, <2>3 DEF InWindow, Within
  <1> QED BY <1>1, <1>2, <1>3

\* ------------------------------- types -------------------------------------

\* Lines are kept only while a level is sliced.
KeptForLevel == kept # {} => doing = "slicing" /\ ~ cell.missing

Types == SlicesTypeOK /\ KeptForLevel

LEMMA TypesInit == SlicesInit => Types
  <1> SUFFICES ASSUME SlicesInit PROVE Types
    OBVIOUS
  <1>1. IsCell(cell)
    BY SlicesAssumption DEF SlicesInit
  <1> QED BY <1>1, CellFacts, SlicesAssumption DEF SlicesInit, Types, SlicesTypeOK, KeptForLevel

LEMMA TypesNext == Types /\ [SlicesNext]_slicesVars => Types'
  <1> SUFFICES ASSUME Types, [SlicesNext]_slicesVars PROVE Types'
    OBVIOUS
  <1> USE DEF Types, SlicesTypeOK, KeptForLevel
  <1>1. IsCell(cell) /\ cell' = cell /\ Len(cell.trace) \in Nat
    BY CellFacts DEF SlicesNext, SliceCell, MapLine, Mapped, NoQlogs, BeginFails, SliceLine,
                     WriteLevel, LinkFails, SlicesDone, slicesVars
  <1>2. CASE SliceCell
    <2>1. \A l \in Levels : cell.from[l] \in Instants /\ cell.to[l] \in Instants
      BY <1>1, CellFacts
    <2>2. Moments \subseteq Instants
      BY <2>1 DEF Moments
    <2>3. mtime' \in [Files -> Moments]
      BY <1>2 DEF SliceCell
    <2>4. mtime' \in [Files -> Instants]
      BY <2>2, <2>3
    <2>5. pass' \in 0 .. Passes
      BY <1>2, SlicesAssumption DEF SliceCell
    <2>6. 1 \in 1 .. Len(cell.trace) + 1 /\ opened' \in [Files -> 0 .. Len(cell.trace)]
      BY <1>1, <1>2 DEF SliceCell
    <2>7. line' = 1 /\ kept' = {}
      BY <1>2 DEF SliceCell
    <2> QED BY <1>1, <1>2, <2>4, <2>5, <2>6, <2>7 DEF SliceCell
  <1>3. CASE MapLine
    BY <1>1, <1>3 DEF MapLine, AtLine
  <1>4. CASE Mapped
    <2>1. chosen # {} => FirstLevel(chosen) \in chosen
      BY FirstLevelIsFirst
    <2> QED BY <1>1, <1>4, <2>1 DEF Mapped, SliceFrom
  <1>5. CASE NoQlogs \/ BeginFails
    <2>1. kept = {}
      BY <1>5 DEF NoQlogs, BeginFails
    <2> QED BY <1>1, <1>5, <2>1 DEF NoQlogs, BeginFails
  <1>9. CASE LinkFails
    <2>1. kept \subseteq 1 .. Len(cell.trace) /\ level \in Levels /\ kept' = {}
      BY <1>1, <1>9 DEF LinkFails
    <2>2. PICK fs \in (SUBSET links[level]) \cup (SUBSET Assigned(level)) :
            links' = [links EXCEPT ![level] = fs]
      BY <1>9 DEF LinkFails
    <2>3. fs \subseteq Files
      BY <2>1, <2>2 DEF Assigned
    <2>4. /\ slice' \in [Levels -> SUBSET (1 .. Len(cell.trace))]
          /\ links' \in [Levels -> SUBSET Files]
      BY <1>9, <2>1, <2>2, <2>3 DEF LinkFails
    <2> QED BY <1>1, <1>9, <2>1, <2>4 DEF LinkFails
  <1>6. CASE SliceLine
    BY <1>1, <1>6 DEF SliceLine, AtLine
  <1>7. CASE WriteLevel
    <2> DEFINE ls == {l \in chosen : l > level}
    <2>1. ls # {} => FirstLevel(ls) \in chosen
      BY FirstLevelIsFirst
    <2>2. kept \subseteq 1 .. Len(cell.trace) /\ level \in Levels
      BY <1>1, <1>7 DEF WriteLevel
    <2>3. Assigned(level) \subseteq Files
      BY DEF Assigned
    <2>4. /\ slice' \in [Levels -> SUBSET (1 .. Len(cell.trace))]
          /\ links' \in [Levels -> SUBSET Files]
      BY <1>7, <2>2, <2>3 DEF WriteLevel
    <2> QED BY <1>1, <1>7, <2>1, <2>4 DEF WriteLevel, SliceFrom
  <1>8. CASE SlicesDone \/ UNCHANGED slicesVars
    BY <1>8 DEF SlicesDone, slicesVars
  <1> QED BY <1>2, <1>3, <1>4, <1>5, <1>6, <1>7, <1>8, <1>9 DEF SlicesNext

\* --------------------------- what a call has done --------------------------

\* Of the lines before k, opened has for each file the first that opens it.
OpenedFirst(k) ==
  \A f \in Files :
    /\ opened[f] = 0 => \A n \in Opens(f) : k <= n
    /\ opened[f] # 0 => opened[f] \in Opens(f) /\ \A n \in Opens(f) : opened[f] <= n

InLevel(l, n) == InWindow(l, Resolved(n, cell.from[l]))

Progress ==
  /\ doing = "mapping" /\ Mappable => OpenedFirst(line)
  /\ doing \in {"slicing", "sliced"} /\ Mappable => OpenedFirst(Len(cell.trace) + 1)
  /\ doing = "slicing" =>
       \A n \in 1 .. line - 1 : Stamped(n) => (n \in kept <=> InLevel(level, n))
  /\ \A l \in Written :
       /\ ~ cell.missing
       /\ \A n \in 1 .. Len(cell.trace) : Stamped(n) => (n \in slice[l] <=> InLevel(l, n))
       /\ links[l] = Assigned(l)

LEMMA ProgressInit == SlicesInit => Progress
  BY DEF SlicesInit, Progress, Written

\* Mapping: a line that is read is the first to open its file, or changes nothing.
LEMMA ProgressMapLine == SlicesTypeOK /\ Progress /\ MapLine => Progress'
  <1> SUFFICES ASSUME SlicesTypeOK, Progress, MapLine PROVE Progress'
    OBVIOUS
  <1>1. /\ doing = "mapping" /\ doing' = "mapping" /\ Mappable /\ cell' = cell
        /\ line \in 1 .. Len(cell.trace) /\ line' = line + 1
        /\ Len(cell.trace) \in Nat
    BY CellFacts DEF MapLine, AtLine, SlicesTypeOK
  <1>2. OpenedFirst(line)
    BY <1>1 DEF Progress
  <1>3. ASSUME NEW f \in Files
        PROVE  /\ opened'[f] = 0 => \A n \in Opens(f) : line + 1 <= n
               /\ opened'[f] # 0 => opened'[f] \in Opens(f) /\ \A n \in Opens(f) : opened'[f] <= n
    <2>1. opened'[f] = IF f = cell.trace[line].opens /\ Stamped(line) /\ opened[f] = 0
                       THEN line ELSE opened[f]
      BY DEF MapLine
    <2>2. Opens(f) \subseteq 1 .. Len(cell.trace)
      BY DEF Opens
    <2>3. CASE f = cell.trace[line].opens /\ Stamped(line) /\ opened[f] = 0
      <3>1. line \in Opens(f) /\ opened'[f] = line
        BY <1>1, <2>1, <2>3 DEF Opens
      <3>2. \A n \in Opens(f) : line <= n
        BY <1>2, <2>3 DEF OpenedFirst
      <3> QED BY <1>1, <3>1, <3>2
    <2>4. CASE ~ (f = cell.trace[line].opens /\ Stamped(line) /\ opened[f] = 0)
      <3>1. opened'[f] = opened[f]
        BY <2>1, <2>4
      <3>2. CASE opened[f] # 0
        BY <1>2, <3>1, <3>2 DEF OpenedFirst
      <3>3. CASE opened[f] = 0
        <4>1. line \notin Opens(f)
          BY <2>4, <3>3 DEF Opens
        <4>2. \A n \in Opens(f) : line <= n /\ n # line
          BY <1>2, <3>3, <4>1 DEF OpenedFirst
        <4> QED BY <1>1, <2>2, <3>1, <3>3, <4>2
      <3> QED BY <3>2, <3>3
    <2> QED BY <2>3, <2>4
  <1>4. \A f \in Files : Opens(f)' = Opens(f)
    BY <1>1 DEF Opens, Stamped
  <1>5. OpenedFirst(line)'
    BY <1>1, <1>3, <1>4 DEF OpenedFirst
  <1>6. Written' = {}
    BY <1>1 DEF Written
  <1> QED BY <1>1, <1>5, <1>6 DEF Progress

\* Only levels that are chosen are sliced, in their order.
LEMMA WrittenGrows ==
  ASSUME SlicesTypeOK, doing = "slicing", SliceFrom({l \in chosen : l > level}), chosen' = chosen
  PROVE  Written' = Written \cup {level}
  <1> DEFINE ls == {l \in chosen : l > level}
  <1>1. level \in chosen /\ chosen \subseteq Levels /\ Levels \subseteq Nat
    BY SlicesAssumption DEF SlicesTypeOK
  <1>2. CASE ls = {}
    <2>1. Written' = chosen
      BY <1>2 DEF SliceFrom, Written
    <2>2. \A l \in chosen : l < level \/ l = level
      BY <1>1, <1>2
    <2> QED BY <1>1, <2>1, <2>2 DEF Written
  <1>3. CASE ls # {}
    <2> DEFINE next == FirstLevel(ls)
    <2>1. next \in chosen /\ next > level /\ \A m \in ls : next <= m
      BY <1>1, <1>3, FirstLevelIsFirst
    <2>2. Written' = {l \in chosen : l < next}
      BY <1>3 DEF SliceFrom, Written
    <2> HIDE DEF next
    <2>3. \A l \in chosen : l < next <=> l < level \/ l = level
      BY <1>1, <2>1
    <2> QED BY <1>1, <2>2, <2>3 DEF Written
  <1> QED BY <1>2, <1>3

LEMMA ProgressMapped == SlicesTypeOK /\ Progress /\ Mapped => Progress'
  <1> SUFFICES ASSUME SlicesTypeOK, Progress, Mapped PROVE Progress'
    OBVIOUS
  <1>1. /\ doing = "mapping" /\ line' = 1
        /\ UNCHANGED <<cell, mtime, chosen, opened, slice, links>>
        /\ Len(cell.trace) \in Nat /\ line \in 1 .. Len(cell.trace) + 1
    BY CellFacts DEF Mapped, SlicesTypeOK
  <1>2. Written' = {}
    <2>1. CASE chosen = {}
      BY <1>1, <2>1 DEF Mapped, SliceFrom, Written
    <2>2. CASE chosen # {}
      <3> DEFINE next == FirstLevel(chosen)
      <3>1. next \in chosen /\ \A m \in chosen : next <= m /\ m \in Nat
        BY <2>2, FirstLevelIsFirst, SlicesAssumption DEF SlicesTypeOK
      <3>2. Written' = {l \in chosen : l < next}
        BY <1>1, <2>2 DEF Mapped, SliceFrom, Written
      <3> HIDE DEF next
      <3>3. \A m \in chosen : ~ m < next
        BY <3>1
      <3> QED BY <3>2, <3>3
    <2> QED BY <2>1, <2>2
  <1>3. Mappable => OpenedFirst(Len(cell.trace) + 1)
    <2>1. Mappable => OpenedFirst(line) /\ line = Len(cell.trace) + 1
      BY <1>1 DEF Mapped, Progress
    <2> QED BY <2>1
  <1>4. Mappable' => OpenedFirst(Len(cell.trace) + 1)'
    BY <1>1, <1>3 DEF Mappable, OpenedFirst, Opens, Stamped
  <1>5. doing' \in {"slicing", "sliced"}
    BY DEF Mapped, SliceFrom
  <1> QED BY <1>1, <1>2, <1>4, <1>5 DEF Progress

LEMMA ProgressSliceLine == SlicesTypeOK /\ Progress /\ SliceLine => Progress'
  <1> SUFFICES ASSUME SlicesTypeOK, Progress, SliceLine PROVE Progress'
    OBVIOUS
  <1>1. /\ doing = "slicing" /\ ~ cell.missing /\ line \in 1 .. Len(cell.trace)
        /\ line' = line + 1 /\ Len(cell.trace) \in Nat
        /\ kept \subseteq 1 .. line - 1
        /\ UNCHANGED <<cell, mtime, chosen, doing, opened, level, slice, links>>
    BY CellFacts DEF SliceLine, AtLine, SlicesTypeOK
  <1>2. kept' = IF Wanted(line) THEN kept \cup {line} ELSE kept
    BY DEF SliceLine
  <1>3. \A n \in 1 .. line - 1 : Stamped(n) => (n \in kept <=> InLevel(level, n))
    BY <1>1 DEF Progress
  <1>4. line \notin kept /\ (Stamped(line) => (Wanted(line) <=> InLevel(level, line)))
    BY <1>1 DEF Wanted, InLevel
  <1>5. \A n \in 1 .. line : Stamped(n) => (n \in kept' <=> InLevel(level, n))
    <2> SUFFICES ASSUME NEW n \in 1 .. line, Stamped(n)
                 PROVE  n \in kept' <=> InLevel(level, n)
      OBVIOUS
    <2>1. CASE n = line
      BY <1>2, <1>4, <2>1
    <2>2. CASE n # line
      <3>1. n \in 1 .. line - 1
        BY <1>1, <2>2
      <3> QED BY <1>2, <1>3, <2>2, <3>1
    <2> QED BY <2>1, <2>2
  <1>6. /\ \A l, n : InLevel(l, n)' <=> InLevel(l, n)
        /\ \A n : Stamped(n)' <=> Stamped(n)
    BY <1>1 DEF InLevel, InWindow, Resolved, Stamped
  <1>7. line + 1 - 1 = line
    BY <1>1
  <1>8. Written' = Written /\ \A l : Assigned(l)' = Assigned(l)
    BY <1>1 DEF Written, Assigned, Created, InWindow, Resolved
  <1>9. Mappable' => OpenedFirst(Len(cell.trace) + 1)'
    BY <1>1 DEF Progress, Mappable, OpenedFirst, Opens, Stamped
  <1> QED BY <1>1, <1>5, <1>6, <1>7, <1>8, <1>9 DEF Progress

LEMMA ProgressWriteLevel == SlicesTypeOK /\ Progress /\ WriteLevel => Progress'
  <1> SUFFICES ASSUME SlicesTypeOK, Progress, WriteLevel PROVE Progress'
    OBVIOUS
  <1>1. /\ doing = "slicing" /\ ~ cell.missing /\ line = Len(cell.trace) + 1
        /\ line' = 1 /\ Len(cell.trace) \in Nat /\ level \in Levels
        /\ doing' \in {"slicing", "sliced"}
        /\ slice' = [slice EXCEPT ![level] = kept]
        /\ links' = [links EXCEPT ![level] = Assigned(level)]
        /\ UNCHANGED <<cell, mtime, chosen, opened>>
    BY CellFacts DEF WriteLevel, SlicesTypeOK, SliceFrom
  <1>2. Written' = Written \cup {level} /\ Written \subseteq Levels
    BY WrittenGrows DEF WriteLevel, SlicesTypeOK, Written
  <1>3. \A n \in 1 .. Len(cell.trace) : Stamped(n) => (n \in kept <=> InLevel(level, n))
    <2>1. Len(cell.trace) + 1 - 1 = Len(cell.trace)
      BY <1>1
    <2> QED BY <1>1, <2>1 DEF Progress
  <1>4. /\ \A l, n : InLevel(l, n)' <=> InLevel(l, n)
        /\ \A n : Stamped(n)' <=> Stamped(n)
        /\ \A l : Assigned(l)' = Assigned(l)
    BY <1>1 DEF InLevel, InWindow, Resolved, Stamped, Assigned, Created
  <1>5. ASSUME NEW l \in Written'
        PROVE  /\ \A n \in 1 .. Len(cell.trace) : Stamped(n) => (n \in slice'[l] <=> InLevel(l, n))
               /\ links'[l] = Assigned(l)
    <2>1. CASE l = level
      <3>1. slice'[l] = kept /\ links'[l] = Assigned(l)
        BY <1>1, <2>1 DEF SlicesTypeOK
      <3> QED BY <1>3, <2>1, <3>1
    <2>2. CASE l # level
      <3>1. l \in Written /\ slice'[l] = slice[l] /\ links'[l] = links[l]
        BY <1>1, <1>2, <2>2 DEF SlicesTypeOK
      <3> QED BY <3>1 DEF Progress
    <2> QED BY <2>1, <2>2
  <1>6. Mappable' => OpenedFirst(Len(cell.trace) + 1)'
    BY <1>1 DEF Progress, Mappable, OpenedFirst, Opens, Stamped
  <1>7. \A l \in Written' :
          /\ ~ cell'.missing
          /\ \A n \in 1 .. Len(cell'.trace) :
               Stamped(n)' => (n \in slice'[l] <=> InLevel(l, n)')
          /\ links'[l] = Assigned(l)'
    BY <1>1, <1>4, <1>5
  <1>8. 1 .. line' - 1 = {}
    BY <1>1
  <1> QED BY <1>1, <1>6, <1>7, <1>8 DEF Progress

LEMMA ProgressNext == SlicesTypeOK /\ Progress /\ [SlicesNext]_slicesVars => Progress'
  <1> SUFFICES ASSUME SlicesTypeOK, Progress, [SlicesNext]_slicesVars PROVE Progress'
    OBVIOUS
  <1>1. CASE SliceCell
    <2>1. doing' = "mapping" /\ line' = 1 /\ opened' = [f \in Files |-> 0] /\ Written' = {}
      BY <1>1 DEF SliceCell, Written
    <2>2. \A f \in Files : \A n \in Opens(f)' : 1 <= n
      BY CellFacts, <1>1 DEF Opens, SliceCell, SlicesTypeOK
    <2>3. OpenedFirst(line)'
      BY <2>1, <2>2 DEF OpenedFirst
    <2> QED BY <2>1, <2>3 DEF Progress
  <1>2. CASE NoQlogs \/ BeginFails \/ LinkFails
    <2>1. doing' = "raised" /\ Written' = {}
      BY <1>2 DEF NoQlogs, BeginFails, LinkFails, Written
    <2> QED BY <2>1 DEF Progress
  <1>3. CASE SlicesDone \/ UNCHANGED slicesVars
    <2>1. UNCHANGED slicesVars
      BY <1>3 DEF SlicesDone
    <2> QED BY <2>1 DEF slicesVars, Progress, Mappable, OpenedFirst, Opens, Stamped, InLevel,
                        InWindow, Resolved, Written, Assigned, Created
  <1> QED BY <1>1, <1>2, <1>3, ProgressMapLine, ProgressMapped, ProgressSliceLine,
             ProgressWriteLevel DEF SlicesNext

\* ---------------------------- where files are linked -----------------------

\* The files assigned to a level, of those whose opening the trace shows.
LEMMA AssignedByOpening ==
  ASSUME SlicesTypeOK, Progress, doing \in {"slicing", "sliced"}, ~ cell.missing,
         NEW l \in chosen, NEW f \in Files, Opens(f) # {}
  PROVE  LET i == FirstOpen(f).on
         IN  /\ f \in Assigned(l) => InWindow(l, i)
             /\ InWindow(l, i) /\ f \notin Assigned(l)
                  => FirstOpen(f).stamp = "tt" /\ cell.from[FirstLevel(chosen)].day < i.day
  <1> DEFINE k == FirstLevel(chosen)
             o == CHOOSE n \in Opens(f) : \A m \in Opens(f) : n <= m
  <1>1. /\ l \in Levels /\ k \in Levels /\ k <= l /\ IsCell(cell)
        /\ OpenedFirst(Len(cell.trace) + 1)
    BY FirstLevelIsFirst DEF SlicesTypeOK, Progress, Mappable
  <1>2. Opens(f) \subseteq 1 .. Len(cell.trace) /\ Len(cell.trace) \in Nat
    BY <1>1, CellFacts DEF Opens
  <1>3. opened[f] # 0
    <2>1. opened[f] = 0 => \A n \in Opens(f) : Len(cell.trace) + 1 <= n
      BY <1>1 DEF OpenedFirst
    <2> QED BY <1>2, <2>1
  <1>4. opened[f] \in Opens(f) /\ \A n \in Opens(f) : opened[f] <= n
    BY <1>1, <1>3 DEF OpenedFirst
  <1>5. o \in Opens(f) /\ \A n \in Opens(f) : o <= n
    BY <1>4
  <1> HIDE DEF o, k
  <1>6. o = opened[f] /\ o \in 1 .. Len(cell.trace) /\ Stamped(o)
    BY <1>2, <1>4, <1>5 DEF Opens
  <1>7. Created(f) = Resolved(o, cell.from[k])
    BY <1>3, <1>6 DEF Created, k
  <1>8. f \in Assigned(l) <=> InWindow(l, Resolved(o, cell.from[k]))
    BY <1>7 DEF Assigned
  <1> QED BY <1>1, <1>6, <1>8, StampedLine DEF FirstOpen, o, k

LinkedByOpening ==
  \A f \in {g \in Files : Opens(g) # {}} : \A l \in Levels :
    f \in links[l] => InWindow(l, FirstOpen(f).on)

\* A level gets links of files assigned to it, or keeps some that it has.
LEMMA LinkedNext ==
  SlicesTypeOK /\ Progress /\ LinkedByOpening /\ [SlicesNext]_slicesVars => LinkedByOpening'
  <1> SUFFICES ASSUME SlicesTypeOK, Progress, LinkedByOpening, [SlicesNext]_slicesVars
               PROVE  LinkedByOpening'
    OBVIOUS
  <1>1. /\ cell' = cell
        /\ \/ links' = links
           \/ /\ doing = "slicing" /\ ~ cell.missing
              /\ \E fs \in (SUBSET links[level]) \cup (SUBSET Assigned(level)) :
                   links' = [links EXCEPT ![level] = fs]
    BY DEF SlicesNext, SliceCell, MapLine, Mapped, NoQlogs, BeginFails, SliceLine, WriteLevel,
           LinkFails, SlicesDone, slicesVars
  <1>2. \A f : /\ Opens(f)' = Opens(f) /\ FirstOpen(f)' = FirstOpen(f)
               /\ \A l : InWindow(l, FirstOpen(f).on)' <=> InWindow(l, FirstOpen(f).on)
    BY <1>1 DEF Opens, Stamped, FirstOpen, InWindow
  <1>3. CASE links' = links
    BY <1>2, <1>3 DEF LinkedByOpening
  <1>4. CASE links' # links
    <2>1. doing = "slicing" /\ ~ cell.missing /\ level \in chosen /\ links \in [Levels -> SUBSET Files]
      BY <1>1, <1>4 DEF SlicesTypeOK
    <2>2. PICK fs \in (SUBSET links[level]) \cup (SUBSET Assigned(level)) :
            links' = [links EXCEPT ![level] = fs]
      BY <1>1, <1>4
    <2>3. ASSUME NEW f \in Files, Opens(f) # {}, NEW l \in Levels, f \in links'[l]
          PROVE  InWindow(l, FirstOpen(f).on)
      <3>1. f \in links[l] \/ (l = level /\ f \in Assigned(level))
        BY <2>1, <2>2, <2>3
      <3> QED BY <2>1, <2>3, <3>1, AssignedByOpening DEF LinkedByOpening
    <2> QED BY <1>2, <2>3 DEF LinkedByOpening
  <1> QED BY <1>3, <1>4

LEMMA SlicesInvariant == SlicesSpec => [](Types /\ Progress /\ LinkedByOpening)
  <1>1. Types => SlicesTypeOK
    BY DEF Types
  <1>2. SlicesInit => LinkedByOpening
    BY DEF SlicesInit, LinkedByOpening
  <1> QED BY <1>1, <1>2, TypesInit, TypesNext, ProgressInit, ProgressNext, LinkedNext, PTL
          DEF SlicesSpec

\* ------------------------------- the theorems ------------------------------

\* slice_cell keeps the types of what it reads and writes, for every cell.
THEOREM SlicesTyped == SlicesSpec => []SlicesTypeOK
  <1>1. Types => SlicesTypeOK
    BY DEF Types
  <1> QED BY <1>1, SlicesInvariant, PTL

\* slice_strace puts every stamped line into the slice of its own level or, in
\* one case that LinesInTheirLevel names, into none.
THEOREM SlicesLines == SlicesSpec => []LinesInTheirLevel
  <1>1. SlicesTypeOK /\ Progress => LinesInTheirLevel
    <2> SUFFICES ASSUME SlicesTypeOK, Progress, NEW l \in Written,
                        NEW n \in 1 .. Len(cell.trace), Stamped(n)
                 PROVE  /\ n \in slice[l] => InWindow(l, cell.trace[n].on)
                        /\ InWindow(l, cell.trace[n].on) /\ n \notin slice[l]
                             => cell.trace[n].stamp = "tt" /\ cell.from[l].day < cell.trace[n].on.day
      BY DEF LinesInTheirLevel
    <2>1. l \in Levels /\ l <= l /\ IsCell(cell)
      BY SlicesAssumption DEF SlicesTypeOK, Written
    <2>2. n \in slice[l] <=> InWindow(l, Resolved(n, cell.from[l]))
      BY DEF Progress, InLevel
    <2> QED BY <2>1, <2>2, StampedLine
  <1>2. Types => SlicesTypeOK
    BY DEF Types
  <1> QED BY <1>1, <1>2, SlicesInvariant, PTL

LEMMA FilesFound ==
  ASSUME SlicesTypeOK, Progress, NEW l \in Written
  PROVE  /\ l \in Levels /\ chosen # {} /\ chosen \subseteq Levels
         /\ OpenedFirst(Len(cell.trace) + 1) /\ links[l] = Assigned(l)
         /\ FirstLevel(chosen) \in chosen /\ FirstLevel(chosen) <= l
  <1>1. l \in chosen /\ chosen \subseteq Levels /\ doing \in {"slicing", "sliced"}
    BY DEF SlicesTypeOK, Written
  <1>2. ~ cell.missing /\ links[l] = Assigned(l)
    BY DEF Progress
  <1>3. OpenedFirst(Len(cell.trace) + 1)
    BY <1>1, <1>2 DEF Progress, Mappable
  <1> QED BY <1>1, <1>2, <1>3, FirstLevelIsFirst

\* assign_qlog_files_to_levels, however often and for whatever levels the cell
\* is sliced: a file whose opening the trace shows is linked, at any time and by
\* any call, only in the level in which it was opened; the levels of the present
\* call have their files, and no file in two of them.
THEOREM SlicesFiles == SlicesSpec => []FilesInTheirLevel
  <1>1. ASSUME SlicesTypeOK, Progress, NEW l \in Written, NEW m \in Written, l # m
        PROVE  links[l] \cap links[m] = {}
    <2>1. l \in Levels /\ m \in Levels /\ links[l] = Assigned(l) /\ links[m] = Assigned(m)
      BY <1>1, FilesFound
    <2>2. \A f \in Files : Created(f) \in Instants
      <3> SUFFICES ASSUME NEW f \in Files PROVE Created(f) \in Instants
        OBVIOUS
      <3>1. CASE opened[f] = 0
        BY <1>1, <3>1 DEF Created, SlicesTypeOK
      <3>2. CASE opened[f] # 0
        <4> DEFINE o == opened[f]
                   k == FirstLevel(chosen)
        <4>1. o \in 1 .. Len(cell.trace) /\ Stamped(o)
          BY <3>2, <1>1, FilesFound DEF OpenedFirst, Opens
        <4>2. k \in Levels /\ IsCell(cell)
          BY <1>1, FilesFound DEF SlicesTypeOK
        <4> HIDE DEF k, o
        <4>4. k <= k
          BY <4>2, SlicesAssumption
        <4>3. Resolved(o, cell.from[k]) \in Instants
          BY <4>1, <4>2, <4>4, StampedLine
        <4> QED BY <3>2, <4>3 DEF Created, k, o
      <3> QED BY <3>1, <3>2
    <2>3. ASSUME NEW f \in Files, InWindow(l, Created(f)) PROVE ~ InWindow(m, Created(f))
      BY <1>1, <2>1, <2>2, <2>3, WindowsAreDisjoint DEF SlicesTypeOK
    <2> QED BY <2>1, <2>3 DEF Assigned
  <1>2. ASSUME SlicesTypeOK, Progress, NEW l \in Written, NEW f \in Files, Opens(f) # {},
               InWindow(l, FirstOpen(f).on), f \notin links[l]
        PROVE  FirstOpen(f).stamp = "tt" /\ cell.from[FirstLevel(chosen)].day < FirstOpen(f).on.day
    <2>1. doing \in {"slicing", "sliced"} /\ ~ cell.missing /\ l \in chosen
      BY <1>2 DEF Written, Progress
    <2> QED BY <1>2, <2>1, FilesFound, AssignedByOpening
  <1>3. SlicesTypeOK /\ Progress /\ LinkedByOpening => FilesInTheirLevel
    BY <1>1, <1>2 DEF FilesInTheirLevel, LinkedByOpening
  <1>4. Types => SlicesTypeOK
    BY DEF Types
  <1> QED BY <1>3, <1>4, SlicesInvariant, PTL

==============================================================================
