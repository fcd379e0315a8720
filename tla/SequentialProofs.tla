--------------------------- MODULE SequentialProofs ---------------------------
(***************************************************************************)
(* SimilarityIndex for every set of functions and every length of the      *)
(* list, Sandbox for every time limit, ClassifierVote for every number of  *)
(* votes and all labels and confidences, and QlogScan for every set of     *)
(* files: what the run MCSequential checks of them.                        *)
(***************************************************************************)
EXTENDS SimilarityIndex, Sandbox, ClassifierVote, QlogScan, FiniteSetTheorems, TLAPS

\* -------------------------------- the index --------------------------------

(***************************************************************************)
(* What both properties need besides themselves: types, so that no list of *)
(* functions is mistaken for None, for a missing or for a torn file, and   *)
(* that an index is saved only while its flag still says that it has to be.*)
(***************************************************************************)
IndexTypeOK ==
  /\ functions \in Seq(Functions)
  /\ matrix \in Seq(Functions) \cup {NoMatrix}
  /\ file \in Seq(Functions) \cup {Absent, Torn}
  /\ dirty \in BOOLEAN /\ saving \in BOOLEAN /\ halfBatch \in BOOLEAN

SavesDirty == saving => dirty

IndexInv == IndexTypeOK /\ SavesDirty /\ SearchSeesAll /\ CleanIsOnDisk

LEMMA EmptyList == <<>> \in Seq(Functions) /\ Len(<<>>) = 0
  OBVIOUS

\* A list of functions is none of the special values.
LEMMA ListsAreThemselves ==
  ASSUME NEW s \in Seq(Functions)
  PROVE  s # NoMatrix /\ s # Absent /\ s # Torn /\ Loaded(s) = s
  <1>1. s # <<>> => Len(s) \in Nat /\ Len(s) > 0 /\ s[1] \in Functions
    OBVIOUS
  <1>2. s # NoMatrix /\ s # Absent /\ s # Torn
    BY <1>1, IndexAssumption DEF NoMatrix, Absent, Torn
  <1> QED BY <1>2 DEF Loaded

\* Adding to the end of the list changes nothing before it.
LEMMA ListGrows ==
  ASSUME NEW s \in Seq(Functions), NEW t \in Seq(Functions)
  PROVE  /\ s \o t \in Seq(Functions)
         /\ Len(s) <= Len(s \o t)
         /\ \A k \in 1 .. Len(s) : (s \o t)[k] = s[k]
  OBVIOUS

LEMMA BatchesAreLists == \A fs \in Batches : fs \in Seq(Functions)
  <1>1. \A f \in Functions : <<f>> \in Seq(Functions)
    OBVIOUS
  <1>2. \A f, g \in Functions : <<f, g>> \in Seq(Functions)
    OBVIOUS
  <1>3. \A fs \in Batches :
          (\E f \in Functions : fs = <<f>>) \/ (\E f, g \in Functions : fs = <<f, g>>)
    BY DEF Batches
  <1> QED BY <1>1, <1>2, <1>3

LEMMA IndexInitInv == IndexInit => IndexInv
  <1> SUFFICES ASSUME IndexInit PROVE IndexInv
    OBVIOUS
  <1>1. IndexTypeOK /\ SavesDirty
    BY EmptyList DEF IndexInit, IndexTypeOK, SavesDirty
  <1>2. SearchSeesAll
    BY DEF IndexInit, SearchSeesAll
  <1>3. CleanIsOnDisk
    BY DEF IndexInit, CleanIsOnDisk, Loaded
  <1> QED BY <1>1, <1>2, <1>3 DEF IndexInv

LEMMA IndexNextInv == IndexInv /\ [IndexNext]_indexVars => IndexInv'
  <1> SUFFICES ASSUME IndexInv, [IndexNext]_indexVars PROVE IndexInv'
    OBVIOUS
  <1> USE DEF IndexInv, IndexTypeOK
  <1>1. ASSUME NEW f \in Functions, AddFunction(f) PROVE IndexInv'
    <2>1. Append(functions, f) \in Seq(Functions)
      OBVIOUS
    <2> QED BY <1>1, <2>1 DEF AddFunction, SavesDirty, SearchSeesAll, CleanIsOnDisk
  <1>2. ASSUME NEW fs \in Batches, AddBatch(fs) PROVE IndexInv'
    BY <1>2, ListGrows, BatchesAreLists DEF AddBatch, SavesDirty, SearchSeesAll, CleanIsOnDisk
  <1>3. ASSUME NEW fs \in Batches, AddBatchRaises(fs) PROVE IndexInv'
    <2>1. fs \in Seq(Functions)
      BY BatchesAreLists
    <2>2. IndexTypeOK' /\ SavesDirty' /\ CleanIsOnDisk'
      BY <1>3, <2>1, ListGrows DEF AddBatchRaises, SavesDirty, CleanIsOnDisk
    <2>3. SearchSeesAll'
      <3> DEFINE longer == functions \o fs
      <3>1. /\ longer \in Seq(Functions)
            /\ Len(functions) <= Len(longer)
            /\ \A k \in 1 .. Len(functions) : longer[k] = functions[k]
        BY <2>1, ListGrows
      <3>2. functions' = longer /\ matrix' = matrix /\ halfBatch'
        BY <1>3 DEF AddBatchRaises
      <3> HIDE DEF longer
      <3>3. matrix # NoMatrix =>
              /\ Len(matrix) \in Nat /\ Len(functions) \in Nat /\ Len(longer) \in Nat
              /\ Len(matrix) <= Len(longer)
              /\ \A k \in 1 .. Len(matrix) : matrix[k] = longer[k]
        BY <3>1, SMTT(30) DEF SearchSeesAll
      <3> QED BY <3>2, <3>3 DEF SearchSeesAll
    <2> QED BY <2>2, <2>3
  <1>4. CASE Search
    BY <1>4, ListsAreThemselves DEF Search, SavesDirty, SearchSeesAll, CleanIsOnDisk
  <1>5. CASE SaveOpens
    BY <1>5 DEF SaveOpens, SavesDirty, SearchSeesAll, CleanIsOnDisk
  <1>6. CASE SaveDumps
    BY <1>6, ListsAreThemselves DEF SaveDumps, SavesDirty, SearchSeesAll, CleanIsOnDisk
  <1>7. CASE SaveRaises
    BY <1>7 DEF SaveRaises, SavesDirty, SearchSeesAll, CleanIsOnDisk
  <1>8. CASE Restart
    <2>1. Loaded(file) \in Seq(Functions)
      BY EmptyList, ListsAreThemselves DEF Loaded
    <2> QED BY <1>8, <2>1 DEF Restart, SavesDirty, SearchSeesAll, CleanIsOnDisk
  <1>9. CASE UNCHANGED indexVars
    BY <1>9 DEF indexVars, SavesDirty, SearchSeesAll, CleanIsOnDisk
  <1> QED BY <1>1, <1>2, <1>3, <1>4, <1>5, <1>6, <1>7, <1>8, <1>9 DEF IndexNext

LEMMA IndexInvariant == IndexSpec => []IndexInv
  BY IndexInitInv, IndexNextInv, PTL DEF IndexSpec

\* The cached matrix of FunctionSimilarityIndex never hides a function that was
\* added and has no row that the list of functions does not have.
THEOREM IndexSearchSeesAll == IndexSpec => []SearchSeesAll
  <1>1. IndexInv => SearchSeesAll
    BY DEF IndexInv
  <1> QED BY <1>1, IndexInvariant, PTL

\* A clean FunctionSimilarityIndex is what _load() would read, whatever saves
\* failed and wherever a process was killed.
THEOREM IndexCleanIsOnDisk == IndexSpec => []CleanIsOnDisk
  <1>1. IndexInv => CleanIsOnDisk
    BY DEF IndexInv
  <1> QED BY <1>1, IndexInvariant, PTL

\* ------------------------------- the sandbox -------------------------------

SandboxTypeOK ==
  /\ sandbox \in {"cuckoo", "remnux", "custom"}
  /\ timeout \in Nat /\ polled \in Nat /\ reportedAt \in Nat
  /\ stage \in {"upload", "create", "sleep", "view", "report", "mkdir", "tools", "list", "over"}
  /\ result \in [status : {"pending", "submitted", "completed", "timeout", "failed"},
                 report : BOOLEAN, error : BOOLEAN]
  /\ task \in {"none", "running", "reported"}

\* Before submit() returns nothing but "submitted" is in the result; it goes on
\* polling only while rounds are left, and gave up only when none was.
UnderWay ==
  /\ stage # "over" =>
       result.status \in {"pending", "submitted"} /\ ~ result.report /\ ~ result.error
  /\ stage \in {"sleep", "view"} => polled < Rounds
  /\ result.status = "timeout" => Rounds <= polled

SandboxInv == SandboxTypeOK /\ UnderWay /\ ResultAgrees /\ TimeoutIsTrue

\* Rounds of ten seconds use the time limit up to less than one of them.
LEMMA RoundsFillTimeout ==
  ASSUME timeout \in Nat
  PROVE  Rounds \in Nat /\ Rounds * 10 <= timeout /\ timeout < Rounds * 10 + 10
  BY DEF Rounds

LEMMA RoundsReached ==
  ASSUME NEW t \in Nat, NEW n \in Nat, NEW p \in Nat, t < n * 10 + 10, ~ p < n
  PROVE  n <= p /\ p * 10 + 10 > t
  OBVIOUS

LEMMA SandboxInitInv == SandboxInit => SandboxInv
  BY SandboxAssumption
  DEF SandboxInit, SandboxInv, SandboxTypeOK, UnderWay, ResultAgrees, TimeoutIsTrue, Result

\* Results of a submission that goes on.
Open == [status : {"pending", "submitted"}, report : {FALSE}, error : {FALSE}]

\* What a further round, or the end of the rounds, preserves.
LEMMA NextRoundInv ==
  ASSUME SandboxTypeOK, timeout' = timeout, sandbox' = sandbox, reportedAt' = reportedAt,
         polled' \in Nat, task' \in {"none", "running"},
         \E r \in Open : NextRound(r)
  PROVE  SandboxInv'
  <1> PICK r \in Open : NextRound(r)
    OBVIOUS
  <1> USE DEF Open
  <1> PICK p \in Nat : p = polled'
    OBVIOUS
  <1>1. p \in Nat /\ Rounds \in Nat /\ Rounds' = Rounds /\ timeout < Rounds * 10 + 10
    BY RoundsFillTimeout DEF SandboxTypeOK, Rounds
  <1>2. CASE p < Rounds
    <2>1. stage' = "sleep" /\ result' = r
      BY <1>2 DEF NextRound
    <2> QED BY <1>1, <1>2, <2>1
        DEF SandboxInv, SandboxTypeOK, UnderWay, ResultAgrees, TimeoutIsTrue
  <1>3. CASE ~ p < Rounds
    <2>1. stage' = "over" /\ result' = [r EXCEPT !.status = "timeout"]
      BY <1>3 DEF NextRound, Returns
    <2>2. result' = [status |-> "timeout", report |-> FALSE, error |-> FALSE]
      BY <2>1
    <2>3. Rounds <= p /\ p * 10 + 10 > timeout
      BY <1>1, <1>3, RoundsReached DEF SandboxTypeOK
    <2> QED BY <1>1, <2>1, <2>2, <2>3
        DEF SandboxInv, SandboxTypeOK, UnderWay, ResultAgrees, TimeoutIsTrue
  <1> QED BY <1>2, <1>3

LEMMA SandboxNextInv == SandboxInv /\ [SandboxNext]_sandboxVars => SandboxInv'
  <1> SUFFICES ASSUME SandboxInv, [SandboxNext]_sandboxVars PROVE SandboxInv'
    OBVIOUS
  <1> USE DEF SandboxInv, SandboxTypeOK, UnderWay, ResultAgrees, TimeoutIsTrue, Rounds
  <1>1. CASE CallRaises
    BY <1>1 DEF CallRaises, Returns
  <1>2. CASE Upload
    BY <1>2 DEF Upload
  <1>3. CASE Create
    <2>1. [result EXCEPT !.status = "submitted"]
            \in Open
      BY <1>3 DEF Create, Open
    <2> QED BY <1>3, <2>1, NextRoundInv DEF Create
  <1>4. CASE TaskReported
    BY <1>4 DEF TaskReported
  <1>5. CASE Sleep
    BY <1>5 DEF Sleep
  <1>6. CASE View
    <2>1. CASE task = "reported"
      BY <1>6, <2>1 DEF View
    <2>2. CASE task # "reported"
      <3>1. result \in Open
        BY <1>6 DEF View, Open
      <3>2. polled' \in Nat /\ task' \in {"none", "running"} /\ NextRound(result)
        BY <1>6, <2>2 DEF View
      <3> QED BY <1>6, <3>1, <3>2, NextRoundInv DEF View
    <2> QED BY <2>1, <2>2
  <1>7. CASE Report
    BY <1>7 DEF Report, Returns, Result
  <1>8. CASE MakeDirectory
    BY <1>8 DEF MakeDirectory
  <1>9. CASE RunTools
    BY <1>9 DEF RunTools, Returns, Result
  <1>10. CASE List
    BY <1>10 DEF List, Returns, Result
  <1>11. CASE SandboxDone \/ UNCHANGED sandboxVars
    BY <1>11 DEF SandboxDone, sandboxVars
  <1> QED BY <1>1, <1>2, <1>3, <1>4, <1>5, <1>6, <1>7, <1>8, <1>9, <1>10, <1>11
      DEF SandboxNext

LEMMA SandboxInvariant == SandboxSpec => []SandboxInv
  BY SandboxInitInv, SandboxNextInv, PTL DEF SandboxSpec

\* Status, report and error of what submit() returns agree, whichever call over
\* SSH raised.
THEOREM SandboxResultAgrees == SandboxSpec => []ResultAgrees
  <1>1. SandboxInv => ResultAgrees
    BY DEF SandboxInv
  <1> QED BY <1>1, SandboxInvariant, PTL

\* For every time limit, a submission that reports "timeout" has used its time
\* up to less than one poll and has missed no report that was ready at a poll.
THEOREM SandboxTimeoutIsTrue == SandboxSpec => []TimeoutIsTrue
  <1>1. SandboxInv => TimeoutIsTrue
    BY DEF SandboxInv
  <1> QED BY <1>1, SandboxInvariant, PTL

\* -------------------------------- the votes --------------------------------

(***************************************************************************)
(* That the verdict is the right one takes little of the state machine:    *)
(* the votes are all in when it is made.  It takes that the two choices    *)
(* and the sum which it is made from are there: a first vote for each      *)
(* label, a best label, and the function that Sums defines by recursion.   *)
(* All three exist because a set of numbers has a least member.            *)
(***************************************************************************)

\* Every set of numbers that is not empty has a least member.
LEMMA LeastExists ==
  ASSUME NEW ls, ls \subseteq Nat, ls # {}
  PROVE  \E l \in ls : \A m \in ls : l <= m
  <1> DEFINE R == OpToRel(<, Nat)
  <1>1. IsWellFoundedOn(R, Nat)
    BY NatLessThanWellFounded
  <1>2. \A x, y \in Nat : x < y => <<x, y>> \in R
    BY DEF OpToRel
  <1> HIDE DEF R
  <1>3. PICK l \in ls : \A m \in ls : ~ (<<m, l>> \in R)
    BY <1>1, WFMin
  <1>4. \A m \in ls : ~ (m < l)
    BY <1>2, <1>3
  <1> QED BY <1>4

\* A vote that came back.
AVote == [label : Labels, conf : Int]

\* A function that satisfies the equation of Sums as far as n.
LEMMA SumsStart ==
  ASSUME NEW vs \in Seq(AVote), NEW n \in Nat, n <= Len(vs)
  PROVE  \E g : g = [m \in 0 .. n |-> IF m = 0 THEN 0 ELSE g[m - 1] + vs[m].conf]
  <1> DEFINE Eq(g, l) == g = [m \in 0 .. l |-> IF m = 0 THEN 0 ELSE g[m - 1] + vs[m].conf]
             bad == {l \in 0 .. n : ~ \E g : Eq(g, l)}
  <1> SUFFICES ASSUME ~ \E g : Eq(g, n) PROVE FALSE
    OBVIOUS
  <1>1. bad # {}
    <2>1. n \in 0 .. n
      OBVIOUS
    <2> QED BY <2>1
  <1>2. PICK l \in bad : \A m \in bad : l <= m
    <2>1. bad \subseteq Nat
      OBVIOUS
    <2> HIDE DEF bad
    <2> QED BY <1>1, <2>1, LeastExists
  <1>3. l \in Nat /\ l <= n /\ ~ \E g : Eq(g, l)
    OBVIOUS
  <1>4. CASE l = 0
    <2>1. Eq([m \in 0 .. 0 |-> 0], 0)
      OBVIOUS
    <2> QED BY <1>3, <1>4, <2>1
  <1>5. CASE l > 0
    <2>1. l - 1 \in 0 .. n /\ l - 1 < l
      BY <1>3, <1>5
    <2>2. l - 1 \notin bad
      BY <1>2, <1>3, <2>1
    <2>3. PICK g : Eq(g, l - 1)
      BY <2>1, <2>2
    <2> DEFINE h == [m \in 0 .. l |-> IF m = l THEN g[l - 1] + vs[l].conf ELSE g[m]]
    <2>4. \A m \in 0 .. l : h[m] = IF m = 0 THEN 0 ELSE h[m - 1] + vs[m].conf
      <3> TAKE m \in 0 .. l
      <3>1. CASE m = l
        BY <1>3, <1>5, <3>1
      <3>2. CASE m # l
        <4>1. m \in 0 .. l - 1
          BY <1>3, <3>2
        <4>2. g[m] = IF m = 0 THEN 0 ELSE g[m - 1] + vs[m].conf
          BY <2>3, <4>1
        <4>3. m # 0 => m - 1 \in 0 .. l /\ m - 1 # l
          BY <1>3, <4>1
        <4> QED
          BY <3>2, <4>2, <4>3
      <3> QED BY <3>1, <3>2
    <2>5. Eq(h, l)
      BY <2>4
    <2> QED BY <1>3, <2>5
  <1> QED BY <1>3, <1>4, <1>5

\* Hence Sums satisfies it.
LEMMA SumsAre ==
  ASSUME NEW vs \in Seq(AVote)
  PROVE  \A m \in 0 .. Len(vs) : Sums(vs)[m] = IF m = 0 THEN 0 ELSE Sums(vs)[m - 1] + vs[m].conf
  <1>1. PICK n \in Nat : n = Len(vs)
    OBVIOUS
  <1>2. \E g : g = [m \in 0 .. n |-> IF m = 0 THEN 0 ELSE g[m - 1] + vs[m].conf]
    <2>1. n <= Len(vs)
      BY <1>1
    <2> QED BY <2>1, SumsStart, Zenon
  <1>3. Sums(vs) = CHOOSE g : g = [m \in 0 .. n |-> IF m = 0 THEN 0 ELSE g[m - 1] + vs[m].conf]
    BY <1>1 DEF Sums
  <1>4. Sums(vs) = [m \in 0 .. n |-> IF m = 0 THEN 0 ELSE Sums(vs)[m - 1] + vs[m].conf]
    BY <1>2, <1>3
  <1> QED BY <1>1, <1>4

\* None of the first n votes claims more than certainty.
Capped(vs, n) == \A k \in 1 .. n : vs[k].conf <= One

\* No sum is more than as many certain votes give, if no vote is more than that.
LEMMA SumsBound ==
  ASSUME NEW vs \in Seq(AVote), NEW n \in 0 .. Len(vs), Capped(vs, n)
  PROVE  /\ Sums(vs)[n] \in Int /\ Sums(vs)[n] <= One * n
         /\ (\A k \in 1 .. n : vs[k].conf = One) => Sums(vs)[n] = One * n
  <1> DEFINE Right(m) == /\ Sums(vs)[m] \in Int /\ Sums(vs)[m] <= One * m
                         /\ (\A k \in 1 .. m : vs[k].conf = One) => Sums(vs)[m] = One * m
             bad == {m \in 0 .. n : ~ Right(m)}
  <1> SUFFICES ASSUME ~ Right(n) PROVE FALSE
    OBVIOUS
  <1>0. One \in Int
    BY DEF One
  <1>1. PICK len \in Nat : len = Len(vs)
    OBVIOUS
  <1>2. n \in Nat /\ n <= len
    BY <1>1
  <1>3. bad # {} /\ bad \subseteq Nat
    BY <1>2
  <1> HIDE DEF Right, bad
  <1>4. PICK m \in bad : \A l \in bad : m <= l
    BY <1>3, LeastExists
  <1>5. m \in Nat /\ m <= n /\ ~ Right(m)
    BY <1>2 DEF bad
  <1>6. \A l \in 0 .. len : Sums(vs)[l] = IF l = 0 THEN 0 ELSE Sums(vs)[l - 1] + vs[l].conf
    BY <1>1, SumsAre
  <1>7. CASE m = 0
    <2>1. Sums(vs)[0] = 0
      BY <1>1, <1>6
    <2>2. Right(0)
      BY <1>0, <2>1 DEF Right
    <2> QED BY <1>5, <1>7, <2>2
  <1>8. CASE m # 0
    <2>1. PICK p \in Nat : m = p + 1
      <3>1. m - 1 \in Nat /\ m = (m - 1) + 1
        BY <1>5, <1>8
      <3> QED BY <3>1
    <2>2. Right(p)
      <3>1. p \notin bad
        BY <1>4, <1>5, <2>1
      <3>2. p \in 0 .. n
        BY <1>2, <1>5, <2>1
      <3> QED BY <3>1, <3>2 DEF bad
    <2>3. PICK c \in Int : c = vs[p + 1].conf /\ c <= One
      <3>1. p + 1 \in 1 .. Len(vs) /\ p + 1 \in 1 .. n
        BY <1>1, <1>2, <1>5, <2>1
      <3>2. vs[p + 1] \in AVote
        BY <3>1
      <3> QED BY <3>1, <3>2 DEF AVote, Capped
    <2>4. Sums(vs)[p + 1] = Sums(vs)[p] + vs[p + 1].conf
      <3>1. p + 1 \in 0 .. len /\ p + 1 # 0 /\ (p + 1) - 1 = p
        BY <1>2, <1>5, <2>1
      <3> QED BY <1>6, <3>1
    <2>5. PICK x \in Int : x = Sums(vs)[p] /\ x <= One * p
      BY <2>2 DEF Right
    <2>6. (\A k \in 1 .. p : vs[k].conf = One) => x = One * p
      BY <2>2, <2>5 DEF Right
    <2>7. /\ x + c \in Int /\ x + c <= One * (p + 1)
          /\ x = One * p /\ c = One => x + c = One * (p + 1)
      <3>1. PICK o \in Int : o = One
        BY <1>0
      <3> QED BY <2>3, <2>5, <3>1
    <2>8. (\A k \in 1 .. p + 1 : vs[k].conf = One)
            => (\A k \in 1 .. p : vs[k].conf = One) /\ vs[p + 1].conf = One
      <3>1. 1 .. p + 1 = (1 .. p) \cup {p + 1}
        OBVIOUS
      <3> QED BY <3>1
    <2>9. Right(p + 1)
      BY <2>3, <2>4, <2>5, <2>6, <2>7, <2>8 DEF Right
    <2> QED BY <1>5, <2>1, <2>9
  <1> QED BY <1>7, <1>8

\* The verdict is made when all have been asked, of the votes there are then.
VoteInv ==
  /\ asked \in 0 .. ClassifierVotes
  /\ votes \in Seq(AVote)
  /\ Len(votes) <= asked
  /\ verdict # NoVerdict => asked = ClassifierVotes
  /\ Classified => /\ votes # <<>>
                   /\ verdict.label = Winner
                   /\ verdict.response = First(Winner)
                   /\ verdict.confidence \in Aggregate

LEMMA VoteInitInv == VoteInit => VoteInv
  BY VoteAssumption DEF VoteInit, VoteInv, Classified, NoVerdict

\* What the verdict is made of depends on the votes alone.
LEMMA SameVotes ==
  ASSUME votes' = votes
  PROVE  Winner' = Winner /\ First(Winner)' = First(Winner) /\ Aggregate' = Aggregate
  <1>1. Voted' = Voted /\ \A l : Tally(l)' = Tally(l) /\ First(l)' = First(l)
    BY DEF Voted, Tally, First
  <1>2. Winner' = Winner
    BY <1>1 DEF Winner
  <1>3. Tally(Winner)' = Tally(Winner) /\ First(Winner)' = First(Winner)
    BY <1>2 DEF Tally, First
  <1>4. Total' = Total
    BY DEF Total
  <1>5. Aggregate' = Aggregate
    BY <1>3, <1>4 DEF Aggregate, Rounded
  <1> QED BY <1>2, <1>3, <1>5

LEMMA VoteNextInv == VoteInv /\ [VoteNext]_voteVars => VoteInv'
  <1> SUFFICES ASSUME VoteInv, [VoteNext]_voteVars PROVE VoteInv'
    OBVIOUS
  <1> USE VoteAssumption
  <1>1. ASSUME Vote PROVE VoteInv'
    <2>1. asked' = asked + 1 /\ asked < ClassifierVotes /\ verdict' = verdict /\ verdict = NoVerdict
      BY <1>1 DEF Vote, VoteInv
    <2>2. votes' \in Seq(AVote) /\ Len(votes') <= asked'
      <3>1. CASE UNCHANGED votes
        BY <2>1, <3>1 DEF VoteInv
      <3>2. CASE \E l \in Labels, c \in Confidences :
                   votes' = Append(votes, [label |-> l, conf |-> Confidence(c)])
        <4>1. PICK l \in Labels, c \in Confidences :
                votes' = Append(votes, [label |-> l, conf |-> Confidence(c)])
          BY <3>2
        <4>2. [label |-> l, conf |-> Confidence(c)] \in AVote
          BY DEF AVote, Confidence, One
        <4>3. Len(votes) \in Nat /\ Len(votes') = Len(votes) + 1 /\ votes' \in Seq(AVote)
          BY <4>1, <4>2 DEF VoteInv
        <4> QED BY <2>1, <4>3 DEF VoteInv
      <3> QED BY <1>1, <3>1, <3>2 DEF Vote
    <2>3. ~ Classified' /\ verdict' = NoVerdict
      BY <2>1 DEF Classified, NoVerdict
    <2> QED BY <2>1, <2>2, <2>3 DEF VoteInv
  <1>2. ASSUME Verdict PROVE VoteInv'
    <2>1. Winner' = Winner /\ First(Winner)' = First(Winner) /\ Aggregate' = Aggregate
      BY <1>2, SameVotes DEF Verdict
    <2>2. asked' = ClassifierVotes /\ asked' = asked /\ votes' = votes
      BY <1>2 DEF Verdict
    <2>3. CASE verdict' = [kind |-> "error"]
      <3>1. ~ Classified'
        BY <2>3 DEF Classified
      <3> QED BY <2>2, <3>1 DEF VoteInv
    <2>4. CASE votes # <<>> /\ \E t \in Aggregate :
                 verdict' = [kind |-> "classified", label |-> Winner,
                             response |-> First(Winner), confidence |-> t]
      <3>1. PICK t \in Aggregate :
              verdict' = [kind |-> "classified", label |-> Winner,
                          response |-> First(Winner), confidence |-> t]
        BY <2>4
      <3>2. /\ verdict'.label = Winner
            /\ verdict'.response = First(Winner)
            /\ verdict'.confidence \in Aggregate
        BY <3>1
      <3> QED BY <2>1, <2>2, <2>4, <3>2 DEF VoteInv
    <2> QED BY <1>2, <2>3, <2>4 DEF Verdict
  <1>3. ASSUME UNCHANGED voteVars PROVE VoteInv'
    <2>1. Winner' = Winner /\ First(Winner)' = First(Winner) /\ Aggregate' = Aggregate
      BY <1>3, SameVotes DEF voteVars
    <2> QED BY <1>3, <2>1 DEF voteVars, VoteInv, Classified
  <1> QED BY <1>1, <1>2, <1>3 DEF VoteNext, VoteDone

LEMMA VoteInvariant == VoteSpec => []VoteInv
  <1> QED BY VoteInitInv, VoteNextInv, PTL DEF VoteSpec

\* Where a label was voted for; First finds the first of these places.
For(l) == {k \in 1 .. Len(votes) : votes[k].label = l}

LEMMA TallyCounts ==
  ASSUME VoteInv, NEW l
  PROVE  /\ IsFiniteSet(For(l)) /\ Tally(l) = Cardinality(For(l))
         /\ Tally(l) \in Nat /\ Tally(l) <= Len(votes)
         /\ Tally(l) = Len(votes) <=> For(l) = 1 .. Len(votes)
         /\ Tally(l) = 0 <=> l \notin Voted
  <1>1. PICK n \in Nat : n = Len(votes)
    BY DEF VoteInv
  <1>2. IsFiniteSet(1 .. n) /\ Cardinality(1 .. n) = n
    <2>1. IsFiniteSet(1 .. n) /\ Cardinality(1 .. n) = IF 1 > n THEN 0 ELSE n - 1 + 1
      BY FS_Interval
    <2>2. (IF 1 > n THEN 0 ELSE n - 1 + 1) = n
      OBVIOUS
    <2> QED BY <2>1, <2>2
  <1>3. For(l) \in SUBSET (1 .. n) /\ Tally(l) = Cardinality(For(l))
    BY <1>1 DEF For, Tally
  <1>4. IsFiniteSet(For(l)) /\ Cardinality(For(l)) <= n /\ (Cardinality(For(l)) = n => For(l) = 1 .. n)
    BY <1>2, <1>3, FS_Subset
  <1>5. Cardinality(For(l)) \in Nat /\ (Cardinality(For(l)) = 0 <=> For(l) = {})
    BY <1>4, FS_CardinalityType, FS_EmptySet
  <1>6. For(l) = {} <=> l \notin Voted
    BY DEF For, Voted
  <1> QED BY <1>1, <1>2, <1>3, <1>4, <1>5, <1>6

LEMMA FirstIsFirst ==
  ASSUME VoteInv, NEW l \in Voted
  PROVE  /\ First(l) \in 1 .. Len(votes)
         /\ votes[First(l)].label = l
  <1>1. For(l) # {} /\ For(l) \subseteq Nat
    BY DEF For, Voted
  <1>2. PICK k \in For(l) : \A j \in For(l) : k <= j
    BY <1>1, LeastExists
  <1>3. k \in 1 .. Len(votes) /\ votes[k].label = l
    BY DEF For
  <1>4. ASSUME NEW j \in 1 .. k - 1 PROVE votes[j].label # l
    <2>1. PICK n \in Nat : n = Len(votes)
      BY DEF VoteInv
    <2>2. k \in Nat /\ k <= n
      BY <1>3, <2>1
    <2>3. j \in 1 .. n /\ ~ (k <= j)
      BY <2>2
    <2> QED BY <1>2, <2>1, <2>3 DEF For
  <1> QED BY <1>3, <1>4 DEF First

\* The best of the labels exists: among those with most votes, the first.
LEMMA WinnerWins ==
  ASSUME VoteInv, votes # <<>>
  PROVE  /\ Winner \in Voted
         /\ \A l : Tally(l) <= Tally(Winner)
  <1>1. PICK n \in Nat : n = Len(votes)
    BY DEF VoteInv
  <1>2. Voted # {}
    <2>1. 1 \in 1 .. Len(votes)
      BY DEF VoteInv
    <2> QED BY <2>1 DEF Voted
  <1> DEFINE lost == {n - Tally(l) : l \in Voted}
  <1>3. \A l : Tally(l) \in Nat /\ Tally(l) <= n
    BY <1>1, TallyCounts
  <1>4. PICK d \in lost : \A e \in lost : d <= e
    <2>1. lost # {} /\ lost \subseteq Nat
      BY <1>2, <1>3
    <2> HIDE DEF lost
    <2> QED BY <2>1, LeastExists
  <1>5. PICK b \in Voted : d = n - Tally(b)
    OBVIOUS
  <1>6. \A l \in Voted : Tally(l) <= Tally(b)
    <2> TAKE l \in Voted
    <2>1. d <= n - Tally(l)
      BY <1>4
    <2> QED BY <1>3, <1>5, <2>1
  <1> DEFINE firsts == {First(l) : l \in {m \in Voted : Tally(m) = Tally(b)}}
  <1>7. \A l \in Voted : First(l) \in Nat /\ votes[First(l)].label = l
    BY <1>1, FirstIsFirst
  <1>8. PICK f \in firsts : \A g \in firsts : f <= g
    <2>1. firsts # {} /\ firsts \subseteq Nat
      BY <1>7
    <2> HIDE DEF firsts
    <2> QED BY <2>1, LeastExists
  <1>9. PICK w \in Voted : Tally(w) = Tally(b) /\ f = First(w)
    OBVIOUS
  <1>10. ASSUME NEW m \in Voted \ {w}
         PROVE  Tally(w) > Tally(m) \/ (Tally(w) = Tally(m) /\ First(w) < First(m))
    <2>1. CASE Tally(m) = Tally(w)
      <3>1. First(w) <= First(m)
        BY <1>8, <1>9, <2>1
      <3>2. First(w) # First(m)
        BY <1>7
      <3> QED BY <1>7, <2>1, <3>1, <3>2
    <2>2. CASE Tally(m) # Tally(w)
      BY <1>3, <1>6, <1>9, <2>2
    <2> QED BY <2>1, <2>2
  <1>11. /\ Winner \in Voted
         /\ \A m \in Voted \ {Winner} :
              Tally(Winner) > Tally(m) \/ (Tally(Winner) = Tally(m) /\ First(Winner) < First(m))
    BY <1>10 DEF Winner
  <1>12. \A l \in Voted : Tally(l) <= Tally(Winner)
    BY <1>3, <1>11
  <1>13. \A l : l \notin Voted => Tally(l) = 0
    BY TallyCounts
  <1> QED BY <1>3, <1>11, <1>12, <1>13

\* Whatever the number of votes, of labels and of failures, the majority of the
\* planned votes decides, and the answer taken is one for the verdict
\* (attack_classification_agent, workflow.py:540-601).
THEOREM VoteMajorityWins == VoteSpec => []MajorityWins
  <1>1. VoteInv => MajorityWins
    <2> SUFFICES ASSUME VoteInv, Classified
                 PROVE  /\ \A l \in Labels : 2 * Tally(l) > ClassifierVotes => verdict.label = l
                        /\ \A l \in Labels : Tally(l) <= Tally(verdict.label)
                        /\ votes[verdict.response].label = verdict.label
      BY DEF MajorityWins
    <2>1. /\ votes # <<>> /\ verdict.label = Winner /\ verdict.response = First(Winner)
          /\ verdict # NoVerdict
      BY DEF VoteInv, Classified, NoVerdict
    <2>2. /\ Winner \in Voted /\ \A l : Tally(l) <= Tally(Winner)
      BY <2>1, WinnerWins
    <2>3. votes[First(Winner)].label = Winner
      BY <2>2, FirstIsFirst
    <2>4. ASSUME NEW l \in Labels, 2 * Tally(l) > ClassifierVotes PROVE Winner = l
      <3> SUFFICES ASSUME Winner # l PROVE FALSE
        OBVIOUS
      <3>1. PICK n \in Nat : n = Len(votes) /\ n <= ClassifierVotes
        BY <2>1, VoteAssumption DEF VoteInv
      <3>2. For(l) \cap For(Winner) = {}
        BY DEF For
      <3>3. PICK x \in Nat, y \in Nat : x = Tally(l) /\ y = Tally(Winner) /\ x <= y
        BY <2>2, TallyCounts
      <3>4. Cardinality(For(l) \cup For(Winner)) = x + y
        <4>1. /\ IsFiniteSet(For(l)) /\ x = Cardinality(For(l))
              /\ IsFiniteSet(For(Winner)) /\ y = Cardinality(For(Winner))
          BY <3>3, TallyCounts
        <4>2. Cardinality(For(l) \cup For(Winner)) = x + y - Cardinality(For(l) \cap For(Winner))
          BY <4>1, FS_Union
        <4>3. Cardinality(For(l) \cap For(Winner)) = 0
          BY <3>2, FS_EmptySet
        <4> QED BY <4>2, <4>3
      <3>5. Cardinality(For(l) \cup For(Winner)) <= n
        <4>1. IsFiniteSet(1 .. n) /\ Cardinality(1 .. n) = IF 1 > n THEN 0 ELSE n - 1 + 1
          BY FS_Interval
        <4>2. (IF 1 > n THEN 0 ELSE n - 1 + 1) = n
          OBVIOUS
        <4>3. For(l) \cup For(Winner) \in SUBSET (1 .. n)
          BY <3>1 DEF For
        <4>4. Cardinality(For(l) \cup For(Winner)) <= Cardinality(1 .. n)
          BY <4>1, <4>3, FS_Subset
        <4> QED BY <4>1, <4>2, <4>4
      <3>6. x + y <= n
        BY <3>4, <3>5
      <3>7. 2 * x > ClassifierVotes /\ ClassifierVotes \in Nat
        BY <2>4, <3>3, VoteAssumption
      <3> QED BY <3>1, <3>3, <3>6, <3>7
    <2> QED BY <2>1, <2>2, <2>3, <2>4
  <1> QED BY <1>1, VoteInvariant, PTL

\* c thousandths are nearest to sum/n ten-thousandths times t/n.
Nearest(n, sum, t, c) ==
  10 * (n * n) * c - sum * t <= 5 * (n * n) /\ sum * t - 10 * (n * n) * c <= 5 * (n * n)

(***************************************************************************)
(* The nearest thousandth c to the mean of n confidences times the part    *)
(* t/n: 1.0 only if the part is all and the mean is that near to 1.0.      *)
(***************************************************************************)
LEMMA MeanTimesPart ==
  ASSUME NEW n \in Nat \ {0}, n < 2000, NEW sum \in Int, sum <= One * n, NEW t \in 0 .. n, NEW c \in Int,
         Nearest(n, sum, t, c)
  PROVE  /\ c <= 1000
         /\ c = 1000 => t = n /\ One * n - sum <= 5 * n
         /\ sum = One * n /\ t = n => c = 1000
  <1> USE DEF One
  <1>0. 10 * (n * n) * c - sum * t <= 5 * (n * n) /\ sum * t - 10 * (n * n) * c <= 5 * (n * n)
    BY DEF Nearest
  <1>1. PICK N \in Nat : N = n * n /\ N > 0
    OBVIOUS
  <1>2. sum * t <= 10000 * n * t
    OBVIOUS
  <1>3. 10000 * n * t <= 10000 * (n * n)
    OBVIOUS
  <1>4. c <= 1000
    <2>1. 10 * N * c <= 10005 * N
      BY <1>0, <1>1, <1>2, <1>3
    <2>2. ASSUME c >= 1001 PROVE FALSE
      <3>1. 10 * N * c >= 10 * N * 1001
        BY <1>1, <2>2
      <3> QED BY <1>1, <2>1, <3>1
    <2> QED BY <2>2
  <1>5. ASSUME c = 1000 PROVE t = n
    <2>1. 10000 * (n * n) - sum * t <= 5 * (n * n)
      BY <1>0, <1>5
    <2>2. ASSUME t <= n - 1 PROVE FALSE
      <3>1. 10000 * n * t <= 10000 * n * (n - 1)
        BY <2>2
      <3>2. 10000 * n * (n - 1) = 10000 * (n * n) - 10000 * n
        OBVIOUS
      <3>3. PICK x \in Int, y \in Int, z \in Int :
              x = sum * t /\ y = 10000 * n * t /\ z = 10000 * n * (n - 1)
        OBVIOUS
      <3>4. x <= y /\ y <= z /\ z = 10000 * N - 10000 * n /\ 10000 * N - x <= 5 * N
        BY <1>1, <1>2, <2>1, <3>1, <3>2, <3>3
      <3>5. 10000 * n <= 5 * N
        BY <1>1, <3>4
      <3>6. N <= 1999 * n
        BY <1>1
      <3> QED BY <3>5, <3>6
    <2> QED BY <2>2
  <1>6. ASSUME c = 1000, t = n PROVE 10000 * n - sum <= 5 * n
    <2>1. 10000 * (n * n) - sum * n <= 5 * (n * n)
      BY <1>0, <1>6
    <2>2. ASSUME 10000 * n - sum >= 5 * n + 1 PROVE FALSE
      <3>1. (10000 * n - sum) * n >= (5 * n + 1) * n
        BY <2>2
      <3>2. (10000 * n - sum) * n = 10000 * (n * n) - sum * n /\ (5 * n + 1) * n = 5 * (n * n) + n
        OBVIOUS
      <3> QED BY <2>1, <3>1, <3>2
    <2> QED BY <2>2
  <1>7. ASSUME sum = 10000 * n, t = n PROVE c = 1000
    <2>1. sum * t = 10000 * N
      BY <1>1, <1>7
    <2>2. 10000 * N - 10 * N * c <= 5 * N
      BY <1>0, <1>1, <2>1
    <2>3. ASSUME c <= 999 PROVE FALSE
      <3>1. 10 * N * c <= 10 * N * 999
        BY <1>1, <2>3
      <3> QED BY <1>1, <2>2, <3>1
    <2> QED BY <1>4, <2>3
  <1> QED BY <1>4, <1>5, <1>6, <1>7

\* Whatever the number of votes, their confidences and the failures among them,
\* confidence 1.0 is reported only for votes that agree and are certain but for
\* the rounding, unless one of them claims more (workflow.py:518-520, 566-568).
THEOREM VoteUnsureNotCertain == VoteSpec => []UnsureNotCertain
  <1>1. VoteInv => UnsureNotCertain
    <2> SUFFICES ASSUME VoteInv, Classified, Capped(votes, Len(votes))
                 PROVE  /\ verdict.confidence <= 1000
                        /\ verdict.confidence = 1000 =>
                             /\ \A k \in 1 .. Len(votes) : votes[k].label = verdict.label
                             /\ One * Len(votes) - Total <= 5 * Len(votes)
                        /\ (\A k \in 1 .. Len(votes) :
                              votes[k] = [label |-> verdict.label, conf |-> One])
                             => verdict.confidence = 1000
      BY DEF UnsureNotCertain, Capped
    <2>1. /\ votes \in Seq(AVote) /\ votes # <<>> /\ verdict.label = Winner
          /\ verdict.confidence \in Aggregate
      BY DEF VoteInv
    <2>2. PICK n \in Nat \ {0} : n = Len(votes) /\ n < 2000
      <3>1. Len(votes) \in Nat /\ Len(votes) # 0
        BY <2>1
      <3>2. PICK a \in Nat, v \in Nat : a = asked /\ v = ClassifierVotes
                                    /\ Len(votes) <= a /\ a <= v /\ v < 2000
        BY VoteAssumption DEF VoteInv
      <3> QED BY <3>1, <3>2
    <2>3. PICK sum \in Int : /\ sum = Total /\ sum <= One * n
                             /\ (\A k \in 1 .. n : votes[k].conf = One) => sum = One * n
      <3>1. n \in 0 .. Len(votes) /\ Capped(votes, n)
        BY <2>2
      <3>2. /\ Sums(votes)[n] \in Int /\ Sums(votes)[n] <= One * n
            /\ (\A k \in 1 .. n : votes[k].conf = One) => Sums(votes)[n] = One * n
        BY <2>1, <3>1, SumsBound
      <3> QED BY <2>2, <3>2 DEF Total
    <2>4. PICK t \in 0 .. n : t = Tally(Winner) /\ (t = n <=> For(Winner) = 1 .. n)
      BY <2>2, TallyCounts
    <2>5. PICK c \in Int : /\ c = verdict.confidence
                           /\ 10 * (n * n) * c - sum * t <= 5 * (n * n)
                           /\ sum * t - 10 * (n * n) * c <= 5 * (n * n)
      <3>1. PICK N \in Nat, u \in Int : N = n * n /\ N > 0 /\ u = sum * t
        OBVIOUS
      <3>2. verdict.confidence \in Rounded(u, N)
        <4>1. Total = sum /\ Tally(Winner) = t /\ Len(votes) = n
          BY <2>2, <2>3, <2>4
        <4>2. Aggregate = Rounded(sum * t, n * n)
          BY <4>1, Zenon DEF Aggregate
        <4> QED BY <2>1, <3>1, <4>2
      <3>3. \A c \in Rounded(u, N) :
              c \in Int /\ 10 * N * c - u <= 5 * N /\ u - 10 * N * c <= 5 * N
        <4>1. PICK ten \in Nat : ten = 10 * N /\ ten > 0
          BY <3>1
        <4>2. u \div ten \in Int
          BY <4>1
        <4>3. \A c \in Rounded(u, N) : c \in Int /\ 10 * N * c - u \in -5 * N .. 5 * N
          BY <4>1, <4>2 DEF Rounded
        <4>4. -5 * N \in Int /\ 5 * N \in Int
          OBVIOUS
        <4> QED BY <4>3, <4>4
      <3> QED BY <3>1, <3>2, <3>3
    <2>6. /\ c <= 1000
          /\ c = 1000 => t = n /\ One * n - sum <= 5 * n
          /\ sum = One * n /\ t = n => c = 1000
      <3>1. n < 2000 /\ sum <= One * n
        BY <2>2, <2>3
      <3>2. Nearest(n, sum, t, c)
        BY <2>5 DEF Nearest
      <3> QED BY <3>1, <3>2, MeanTimesPart
    <2>7. t = n <=> \A k \in 1 .. n : votes[k].label = Winner
      BY <2>2, <2>4 DEF For
    <2>8. (\A k \in 1 .. n : votes[k] = [label |-> Winner, conf |-> One])
            => (\A k \in 1 .. n : votes[k].conf = One) /\ (\A k \in 1 .. n : votes[k].label = Winner)
      OBVIOUS
    <2>9. c = 1000 => (\A k \in 1 .. n : votes[k].label = Winner) /\ One * n - sum <= 5 * n
      BY <2>6, <2>7
    <2>10. (\A k \in 1 .. n : votes[k] = [label |-> Winner, conf |-> One]) => c = 1000
      <3>1. (\A k \in 1 .. n : votes[k].conf = One) => sum = One * n
        BY <2>3
      <3> QED BY <2>6, <2>7, <2>8, <3>1, Zenon
    <2>11. verdict.label = Winner /\ verdict.confidence = c /\ Len(votes) = n /\ Total = sum /\ c <= 1000
      <3>1. Total = sum
        BY <2>3
      <3>2. verdict.confidence = c
        BY <2>5
      <3>3. c <= 1000
        BY <2>6
      <3> QED BY <2>1, <2>2, <3>1, <3>2, <3>3, Zenon
    <2> QED BY <2>9, <2>10, <2>11
  <1> QED BY <1>1, VoteInvariant, PTL

\* ----------------------------- the qlog parser -----------------------------

(***************************************************************************)
(* One character.  Where its strings are closed, the scanner's flags are   *)
(* where JSON has the next character, and its depth is the balance of the  *)
(* brackets read.                                                          *)
(***************************************************************************)

LEMMA BracketsGrow ==
  ASSUME NEW marks \in Seq(Mark), NEW c, NEW n \in 1 .. Len(marks)
  PROVE  /\ Brackets(marks, c, n - 1) \in Nat
         /\ Brackets(marks, c, n) = Brackets(marks, c, n - 1)
              + IF marks[n].char = c /\ marks[n].at = "outside" THEN 1 ELSE 0
  <1> DEFINE at(m) == {k \in 1 .. m : marks[k].char = c /\ marks[k].at = "outside"}
  <1>1. PICK m \in Nat : m = n - 1 /\ n = m + 1
    OBVIOUS
  <1>2. IsFiniteSet(1 .. m) /\ 1 .. m + 1 = (1 .. m) \cup {m + 1}
    <2>1. 1 .. m + 1 = (1 .. m) \cup {m + 1}
      OBVIOUS
    <2> QED BY <2>1, FS_Interval
  <1>3. at(m) \subseteq 1 .. m /\ m + 1 \notin at(m)
    OBVIOUS
  <1>4. IsFiniteSet(at(m)) /\ Cardinality(at(m)) \in Nat
    BY <1>2, <1>3, FS_Subset, FS_CardinalityType
  <1>5. at(m + 1) = IF marks[m + 1].char = c /\ marks[m + 1].at = "outside"
                    THEN at(m) \cup {m + 1} ELSE at(m)
    BY <1>2
  <1>6. Cardinality(at(m) \cup {m + 1}) = Cardinality(at(m)) + 1
    BY <1>3, <1>4, FS_AddElement
  <1>7. Brackets(marks, c, m) = Cardinality(at(m)) /\ Brackets(marks, c, m + 1) = Cardinality(at(m + 1))
    BY DEF Brackets
  <1>8. /\ Brackets(marks, c, m) \in Nat
        /\ Brackets(marks, c, m + 1) = Brackets(marks, c, m)
             + IF marks[m + 1].char = c /\ marks[m + 1].at = "outside" THEN 1 ELSE 0
    <2> HIDE DEF at
    <2>1. PICK x \in Nat : x = Cardinality(at(m))
      BY <1>4
    <2>2. Cardinality(at(m + 1)) = x + IF marks[m + 1].char = c /\ marks[m + 1].at = "outside" THEN 1 ELSE 0
      <3>1. CASE marks[m + 1].char = c /\ marks[m + 1].at = "outside"
        BY <1>5, <1>6, <2>1, <3>1
      <3>2. CASE ~ (marks[m + 1].char = c /\ marks[m + 1].at = "outside")
        BY <1>5, <2>1, <3>2
      <3> QED BY <3>1, <3>2
    <2> QED BY <1>7, <2>1, <2>2
  <1> QED BY <1>1, <1>8

LEMMA BalanceStarts ==
  ASSUME NEW marks
  PROVE  Balance(marks, 0) = 0
  <1>1. \A c : Brackets(marks, c, 0) = Cardinality({})
    <2> TAKE c
    <2>1. {k \in 1 .. 0 : marks[k].char = c /\ marks[k].at = "outside"} = {}
      OBVIOUS
    <2> QED BY <2>1 DEF Brackets
  <1>2. Cardinality({}) = 0
    BY FS_EmptySet
  <1> QED BY <1>1, <1>2 DEF Balance

LEMMA BalanceTyped ==
  ASSUME NEW marks \in Seq(Mark), NEW n \in 0 .. Len(marks)
  PROVE  Balance(marks, n) \in Int
  <1>1. \A c : Brackets(marks, c, n) \in Nat
    <2> TAKE c
    <2> DEFINE at == {k \in 1 .. n : marks[k].char = c /\ marks[k].at = "outside"}
    <2>1. IsFiniteSet(1 .. n) /\ at \subseteq 1 .. n
      BY FS_Interval
    <2>2. Cardinality(at) \in Nat
      BY <2>1, FS_Subset, FS_CardinalityType
    <2> QED BY <2>2 DEF Brackets
  <1> QED BY <1>1 DEF Balance

\* Where the scanner has to be when n characters of a line are read that it
\* began with depth d.
At(marks, n) == IF n = 0 THEN "outside" ELSE Behind(marks[n])

Reads(d, marks, n) ==
  [depth |-> d + Balance(marks, n),
   str |-> IF At(marks, n) = "outside" THEN FALSE ELSE TRUE,
   esc |-> IF At(marks, n) = "escaped" THEN TRUE ELSE FALSE]

LEMMA ReadsNext ==
  ASSUME NEW marks \in Seq(Mark), Closed(marks), NEW d \in Int, NEW n \in 1 .. Len(marks)
  PROVE  ReadToken(Reads(d, marks, n - 1), marks[n].char) = Reads(d, marks, n)
  <1>1. PICK char, at : char = marks[n].char /\ at = marks[n].at
    OBVIOUS
  <1>2. /\ char \in {"[", "]", "quote", "backslash", "letter"}
        /\ at \in {"outside", "string", "escaped"}
    <2>1. marks[n] \in Mark
      OBVIOUS
    <2> QED BY <1>1, <2>1 DEF Mark
  <1>3. At(marks, n - 1) = at
    <2>1. marks # <<>> /\ n \in Nat
      OBVIOUS
    <2>2. CASE n = 1
      BY <1>1, <2>1, <2>2 DEF At, Closed
    <2>3. CASE n # 1
      <3>1. n - 1 \in 1 .. Len(marks) - 1 /\ n - 1 + 1 = n /\ n - 1 # 0
        BY <2>3
      <3>2. marks[n].at = Behind(marks[n - 1])
        BY <2>1, <3>1 DEF Closed
      <3> QED BY <1>1, <3>1, <3>2 DEF At
    <2> QED BY <2>2, <2>3
  <1>4. PICK b \in Int, c \in Int : b = Balance(marks, n - 1) /\ c = Balance(marks, n)
    <2>1. n - 1 \in 0 .. Len(marks) /\ n \in 0 .. Len(marks)
      OBVIOUS
    <2> QED BY <2>1, BalanceTyped
  <1>5. c = IF at # "outside" THEN b ELSE IF char = "[" THEN b + 1 ELSE IF char = "]" THEN b - 1 ELSE b
    <2>1. PICK o \in Nat, p \in Nat : o = Brackets(marks, "[", n - 1) /\ p = Brackets(marks, "]", n - 1)
      BY BracketsGrow
    <2>2. PICK opened \in {0, 1}, closed \in {0, 1} :
            /\ opened = IF char = "[" /\ at = "outside" THEN 1 ELSE 0
            /\ closed = IF char = "]" /\ at = "outside" THEN 1 ELSE 0
      OBVIOUS
    <2>3. Brackets(marks, "[", n) = o + opened /\ Brackets(marks, "]", n) = p + closed
      BY <1>1, <2>1, <2>2, BracketsGrow
    <2>4. b = o - p /\ c = (o + opened) - (p + closed)
      BY <1>4, <2>1, <2>3 DEF Balance
    <2>5. c = b + opened - closed
      BY <2>4
    <2> QED BY <2>2, <2>5
  <1>6. PICK t : t = Behind(marks[n])
    OBVIOUS
  <1>7. t = IF at = "escaped" THEN "string"
            ELSE IF char = "quote" THEN IF at = "outside" THEN "string" ELSE "outside"
            ELSE IF char = "backslash" /\ at = "string" THEN "escaped"
            ELSE at
    BY <1>1, <1>6 DEF Behind
  <1>8. PICK before : /\ before = Reads(d, marks, n - 1)
                      /\ before = [depth |-> d + b,
                                   str |-> IF at = "outside" THEN FALSE ELSE TRUE,
                                   esc |-> IF at = "escaped" THEN TRUE ELSE FALSE]
    BY <1>3, <1>4 DEF Reads
  <1>9. Reads(d, marks, n) = [depth |-> d + c,
                              str |-> IF t = "outside" THEN FALSE ELSE TRUE,
                              esc |-> IF t = "escaped" THEN TRUE ELSE FALSE]
    <2>1. n # 0
      OBVIOUS
    <2> QED BY <1>4, <1>6, <2>1 DEF Reads, At
  <1>10. ReadToken(before, char) = [depth |-> d + c,
                                    str |-> IF t = "outside" THEN FALSE ELSE TRUE,
                                    esc |-> IF t = "escaped" THEN TRUE ELSE FALSE]
    <2>1. PICK x \in Int, y \in Int : x = d + b /\ y = d + c
      OBVIOUS
    <2>2. y = IF at # "outside" THEN x ELSE IF char = "[" THEN x + 1 ELSE IF char = "]" THEN x - 1 ELSE x
      BY <1>5, <2>1
    <2>3. CASE at = "escaped"
      <3>1. before = [depth |-> x, str |-> TRUE, esc |-> TRUE] /\ t = "string" /\ y = x
        BY <1>7, <1>8, <2>1, <2>2, <2>3
      <3>2. ReadToken(before, char) = [before EXCEPT !.esc = FALSE]
        BY <3>1 DEF ReadToken
      <3> QED BY <2>1, <3>1, <3>2
    <2>4. CASE at = "string"
      <3>1. before = [depth |-> x, str |-> TRUE, esc |-> FALSE] /\ y = x
        BY <1>8, <2>1, <2>2, <2>4
      <3>2. CASE char = "quote"
        BY <1>7, <2>1, <2>4, <3>1, <3>2 DEF ReadToken
      <3>3. CASE char = "backslash"
        BY <1>7, <2>1, <2>4, <3>1, <3>3 DEF ReadToken
      <3>4. CASE char \notin {"quote", "backslash"}
        <4>1. ReadToken(before, char) = before /\ t = "string"
          BY <1>7, <2>4, <3>1, <3>4 DEF ReadToken
        <4> QED BY <2>1, <3>1, <4>1
      <3> QED BY <3>2, <3>3, <3>4
    <2>5. CASE at = "outside"
      <3>1. before = [depth |-> x, str |-> FALSE, esc |-> FALSE]
        BY <1>8, <2>1, <2>5
      <3>2. CASE char = "quote"
        BY <1>7, <2>1, <2>2, <2>5, <3>1, <3>2 DEF ReadToken
      <3>3. CASE char # "quote"
        <4>1. t = "outside"
          BY <1>7, <2>5, <3>3
        <4>2. ReadToken(before, char) = [depth |-> y, str |-> FALSE, esc |-> FALSE]
          BY <1>2, <2>2, <2>5, <3>1, <3>3 DEF ReadToken
        <4> QED BY <2>1, <4>1, <4>2
      <3> QED BY <3>2, <3>3
    <2> QED BY <1>2, <2>3, <2>4, <2>5
  <1> QED BY <1>1, <1>8, <1>9, <1>10

\* A line whose strings are closed leaves the scanner outside of strings, at
\* the depth that the line's brackets make: what Readings defines by recursion
\* is there, Reads, and is nothing else.
LEMMA LineReads ==
  ASSUME NEW marks \in Seq(Mark), Closed(marks), NEW d \in Int
  PROVE  ReadTokens([depth |-> d, str |-> FALSE, esc |-> FALSE], marks)
           = [depth |-> d + Balance(marks, Len(marks)), str |-> FALSE, esc |-> FALSE]
  <1>1. PICK len \in Nat : len = Len(marks)
    OBVIOUS
  <1>2. PICK s : s = [depth |-> d, str |-> FALSE, esc |-> FALSE]
    OBVIOUS
  <1>3. Reads(d, marks, 0) = s
    <2>1. d + 0 = d
      OBVIOUS
    <2> QED BY <1>2, <2>1, BalanceStarts DEF Reads, At
  <1> DEFINE Eq(g) == g = [n \in 0 .. len |-> IF n = 0 THEN s ELSE ReadToken(g[n - 1], marks[n].char)]
             right == [n \in 0 .. len |-> Reads(d, marks, n)]
             read == Readings(s, marks)
  <1>4. Eq(right)
    <2>1. \A n \in 0 .. len : right[n] = IF n = 0 THEN s ELSE ReadToken(right[n - 1], marks[n].char)
      <3> TAKE n \in 0 .. len
      <3>1. CASE n = 0
        BY <1>3, <3>1
      <3>2. CASE n # 0
        <4>1. n \in 1 .. Len(marks) /\ n - 1 \in 0 .. len
          BY <1>1, <3>2
        <4>2. ReadToken(Reads(d, marks, n - 1), marks[n].char) = Reads(d, marks, n)
          BY <4>1, ReadsNext
        <4> QED BY <3>2, <4>1, <4>2
      <3> QED BY <3>1, <3>2
    <2> QED BY <2>1
  <1>5. Eq(read)
    <2>1. read = CHOOSE g : Eq(g)
      BY <1>1 DEF Readings
    <2>2. \E g : Eq(g)
      BY <1>4
    <2> HIDE DEF read, right
    <2> QED BY <2>1, <2>2
  <1>6. read[len] = Reads(d, marks, len)
    <2> DEFINE bad == {n \in 0 .. len : read[n] # Reads(d, marks, n)}
    <2> SUFFICES ASSUME read[len] # Reads(d, marks, len) PROVE FALSE
      OBVIOUS
    <2>1. bad # {} /\ bad \subseteq Nat
      OBVIOUS
    <2>2. PICK n \in bad : \A m \in bad : n <= m
      <3> HIDE DEF bad
      <3> QED BY <2>1, LeastExists
    <2>3. n \in 0 .. len /\ read[n] # Reads(d, marks, n)
      OBVIOUS
    <2>4. read[n] = IF n = 0 THEN s ELSE ReadToken(read[n - 1], marks[n].char)
      <3> HIDE DEF read
      <3> QED BY <1>5, <2>3
    <2>5. n # 0
      BY <1>3, <2>3, <2>4
    <2>6. n \in 1 .. Len(marks) /\ n - 1 \in 0 .. len /\ n - 1 < n
      BY <1>1, <2>3, <2>5
    <2>7. n - 1 \notin bad
      BY <2>2, <2>6
    <2>8. read[n - 1] = Reads(d, marks, n - 1)
      BY <2>6, <2>7
    <2> QED BY <2>3, <2>4, <2>5, <2>6, <2>8, ReadsNext
  <1>7. Reads(d, marks, len) = [depth |-> d + Balance(marks, len), str |-> FALSE, esc |-> FALSE]
    <2>1. CASE len = 0
      BY <2>1 DEF Reads, At
    <2>2. CASE len > 0
      <3>1. marks # <<>> /\ Behind(marks[len]) = "outside"
        BY <1>1, <2>2 DEF Closed
      <3>2. At(marks, len) = "outside"
        BY <2>2, <3>1 DEF At
      <3> QED BY <3>2 DEF Reads
    <2> QED BY <2>1, <2>2
  <1> QED BY <1>1, <1>2, <1>6, <1>7 DEF ReadTokens

(***************************************************************************)
(* One line.  As long as no line of an odd tuple was read, the scanner is  *)
(* in an event exactly between the lines of one tuple, at the level of the *)
(* last one, and has in its buffer the lines of this tuple so far.         *)
(***************************************************************************)
OddOf(f) == {e \in 1 .. Len(f.good) : Tuple(f, e) /\ ~ Matched(f, e)}
GoodOf(f) == {e \in 1 .. Len(f.good) : f.good[e]}
SoFar(f, e, r) == {n \in LinesOf(f, e) : n < r}
CleanTo(f, r) == \A n \in 1 .. r - 1 : f.lines[n].of \notin OddOf(f)

Outside(f, r) == CleanTo(f, r) => ~ (r <= Len(f.lines) /\ ~ Begins(f, r))

Inside(f, r, depth, str, esc, lines) ==
  CleanTo(f, r) => /\ r <= Len(f.lines) /\ ~ Begins(f, r)
                   /\ depth = f.lines[r - 1].level /\ str = FALSE /\ esc = FALSE
                   /\ lines = SoFar(f, f.lines[r].of, r)

LEMMA LineTyped ==
  ASSUME NEW f, IsQlogFile(f), NEW n \in 1 .. Len(f.lines)
  PROVE  /\ Len(f.lines) \in Nat
         /\ f.lines[n].of \in 1 .. Len(f.good)
         /\ f.lines[n].first \in BOOLEAN
         /\ f.lines[n].marks \in Seq(Mark)
         /\ f.lines[n].level \in Int
         /\ n \in LinesOf(f, f.lines[n].of)
  <1>1. PICK ls, L : /\ ls = f.lines
                     /\ L = [of : 1 .. Len(f.good), first : BOOLEAN, marks : Seq(Mark), level : Int]
                     /\ ls \in Seq(L)
    BY DEF IsQlogFile
  <1>2. Len(ls) \in Nat /\ ls[n] \in L
    <2>1. n \in 1 .. Len(ls)
      BY <1>1
    <2>2. ls \in Seq(L)
      BY <1>1
    <2> QED BY <2>1, <2>2
  <1> QED BY <1>1, <1>2 DEF LinesOf

\* The lines of a source are next to each other, so it begins once.
LEMMA BeginsFirst ==
  ASSUME NEW f, IsQlogFile(f), NEW n \in 1 .. Len(f.lines), Begins(f, n),
         NEW m \in LinesOf(f, f.lines[n].of)
  PROVE  n <= m
  <1> SUFFICES ASSUME m < n PROVE FALSE
    BY LineTyped DEF LinesOf
  <1>1. PICK len \in Nat : len = Len(f.lines)
    BY LineTyped
  <1>2. m \in 1 .. len /\ m <= n - 1 /\ n - 1 \in 1 .. len /\ n - 1 <= n
    BY <1>1 DEF LinesOf
  <1>3. PICK a \in Int, b \in Int, c \in Int :
          a = f.lines[m].of /\ b = f.lines[n - 1].of /\ c = f.lines[n].of
    <2>1. \A k \in 1 .. len : f.lines[k].of \in 1 .. Len(f.good)
      BY <1>1, LineTyped
    <2>2. f.lines[m].of \in Int /\ f.lines[n - 1].of \in Int /\ f.lines[n].of \in Int
      BY <1>1, <1>2, <2>1
    <2> QED BY <2>2
  <1>4. a <= b /\ b <= c
    BY <1>1, <1>2, <1>3 DEF IsQlogFile
  <1>5. a = c
    BY <1>3 DEF LinesOf
  <1>6. b = c
    BY <1>4, <1>5
  <1> QED BY <1>1, <1>2, <1>3, <1>6 DEF Begins, LinesOf

LEMMA BeginsNext ==
  ASSUME NEW f, IsQlogFile(f), NEW n \in 1 .. Len(f.lines)
  PROVE  n + 1 \in LinesOf(f, f.lines[n].of) <=> n + 1 <= Len(f.lines) /\ ~ Begins(f, n + 1)
  <1>1. PICK len \in Nat : len = Len(f.lines)
    BY LineTyped
  <1>2. n + 1 - 1 = n /\ (n + 1 <= len <=> n + 1 \in 1 .. len)
    BY <1>1
  <1> QED BY <1>1, <1>2 DEF Begins, LinesOf

\* What does not begin as a tuple has one line.
LEMMA OtherLine ==
  ASSUME NEW f, IsQlogFile(f), NEW n \in 1 .. Len(f.lines), ~ Tuple(f, f.lines[n].of)
  PROVE  Begins(f, n) /\ n + 1 \notin LinesOf(f, f.lines[n].of)
  <1>1. \A m \in LinesOf(f, f.lines[n].of) : Begins(f, m)
    BY LineTyped DEF IsQlogFile
  <1>2. Begins(f, n)
    BY <1>1, LineTyped
  <1>3. ASSUME n + 1 \in LinesOf(f, f.lines[n].of) PROVE FALSE
    <2>1. Begins(f, n + 1)
      BY <1>1, <1>3
    <2> QED BY <1>3, <2>1, BeginsNext
  <1> QED BY <1>2, <1>3

\* Reading a line of a tuple whose brackets match.
LEMMA MatchedLine ==
  ASSUME NEW f, IsQlogFile(f), NEW n \in 1 .. Len(f.lines), Matched(f, f.lines[n].of),
         NEW d \in Int, d = IF Begins(f, n) THEN 0 ELSE f.lines[n - 1].level
  PROVE  /\ ReadTokens([depth |-> d, str |-> FALSE, esc |-> FALSE], f.lines[n].marks)
              = [depth |-> f.lines[n].level, str |-> FALSE, esc |-> FALSE]
         /\ f.lines[n].level = 0 <=> n + 1 \notin LinesOf(f, f.lines[n].of)
  <1>1. PICK marks \in Seq(Mark), level \in Int : marks = f.lines[n].marks /\ level = f.lines[n].level
    BY LineTyped
  <1>2. /\ Closed(marks)
        /\ level = Balance(marks, Len(marks)) + d
        /\ level = 0 <=> n + 1 \notin LinesOf(f, f.lines[n].of)
    BY <1>1, LineTyped DEF Matched
  <1>3. PICK b \in Int : b = Balance(marks, Len(marks))
    <2>1. Len(marks) \in 0 .. Len(marks)
      OBVIOUS
    <2> QED BY <2>1, BalanceTyped
  <1>4. level = d + b
    BY <1>2, <1>3
  <1>5. ReadTokens([depth |-> d, str |-> FALSE, esc |-> FALSE], marks)
          = [depth |-> d + b, str |-> FALSE, esc |-> FALSE]
    BY <1>2, <1>3, LineReads
  <1> QED BY <1>1, <1>2, <1>4, <1>5

\* Line r is not taken for a part of a tuple.
LEMMA LineSkipped ==
  ASSUME NEW f, IsQlogFile(f), NEW r \in 1 .. Len(f.lines), ~ f.lines[r].first, Outside(f, r)
  PROVE  /\ Outside(f, r + 1)
         /\ CleanTo(f, r + 1) => ~ Tuple(f, f.lines[r].of)
  <1> SUFFICES ASSUME CleanTo(f, r + 1)
               PROVE  ~ Tuple(f, f.lines[r].of) /\ Outside(f, r + 1)
    BY DEF Outside
  <1>1. CleanTo(f, r)
    BY DEF CleanTo
  <1>2. Begins(f, r)
    BY <1>1, LineTyped DEF Outside
  <1>3. ~ Tuple(f, f.lines[r].of)
    <2> SUFFICES ASSUME NEW n \in LinesOf(f, f.lines[r].of), Begins(f, n) PROVE n = r
      BY DEF Tuple
    <2>1. n \in 1 .. Len(f.lines) /\ f.lines[n].of = f.lines[r].of
      BY DEF LinesOf
    <2>2. n <= r /\ r <= n
      BY <1>2, <2>1, LineTyped, BeginsFirst
    <2> QED BY <2>1, <2>2, LineTyped
  <1>4. ~ (r + 1 <= Len(f.lines) /\ ~ Begins(f, r + 1))
    BY <1>3, OtherLine, BeginsNext
  <1> QED BY <1>3, <1>4 DEF Outside

\* A line of a tuple that is not odd, if no line before it is.
LEMMA LineMatched ==
  ASSUME NEW f, IsQlogFile(f), NEW r \in 1 .. Len(f.lines), CleanTo(f, r + 1), Tuple(f, f.lines[r].of)
  PROVE  Matched(f, f.lines[r].of)
  <1>1. f.lines[r].of \in 1 .. Len(f.good)
    BY LineTyped
  <1>2. r \in 1 .. r + 1 - 1
    OBVIOUS
  <1>3. f.lines[r].of \notin OddOf(f)
    BY <1>2 DEF CleanTo
  <1> QED BY <1>1, <1>3 DEF OddOf

LEMMA SoFarGrows ==
  ASSUME NEW f, IsQlogFile(f), NEW r \in 1 .. Len(f.lines)
  PROVE  /\ SoFar(f, f.lines[r].of, r + 1) = SoFar(f, f.lines[r].of, r) \cup {r}
         /\ Begins(f, r) => SoFar(f, f.lines[r].of, r) = {}
  <1>1. \A n \in Nat : n < r + 1 <=> n < r \/ n = r
    OBVIOUS
  <1>2. LinesOf(f, f.lines[r].of) \subseteq Nat /\ r \in LinesOf(f, f.lines[r].of)
    BY LineTyped DEF LinesOf
  <1>3. SoFar(f, f.lines[r].of, r + 1) = SoFar(f, f.lines[r].of, r) \cup {r}
    BY <1>1, <1>2 DEF SoFar
  <1>4. ASSUME Begins(f, r) PROVE SoFar(f, f.lines[r].of, r) = {}
    <2>1. \A n \in LinesOf(f, f.lines[r].of) : r <= n
      BY <1>4, BeginsFirst
    <2>2. \A n \in LinesOf(f, f.lines[r].of) : ~ (n < r)
      BY <1>2, <2>1
    <2> QED BY <2>2 DEF SoFar
  <1> QED BY <1>3, <1>4

\* What the scanner knows behind a line that it put into the buffer.
LEMMA LineBegun ==
  ASSUME NEW f, IsQlogFile(f), NEW r \in 1 .. Len(f.lines), CleanTo(f, r + 1),
         Outside(f, r), f.lines[r].first
  PROVE  /\ ReadTokens(Blank, f.lines[r].marks)
              = [depth |-> f.lines[r].level, str |-> FALSE, esc |-> FALSE]
         /\ f.lines[r].level = 0 <=> r + 1 \notin LinesOf(f, f.lines[r].of)
         /\ {r} = SoFar(f, f.lines[r].of, r + 1)
  <1>1. CleanTo(f, r)
    BY DEF CleanTo
  <1>2. Begins(f, r)
    BY <1>1, LineTyped DEF Outside
  <1>3. Matched(f, f.lines[r].of)
    BY <1>2, LineTyped, LineMatched DEF Tuple
  <1>4. /\ ReadTokens([depth |-> 0, str |-> FALSE, esc |-> FALSE], f.lines[r].marks)
              = [depth |-> f.lines[r].level, str |-> FALSE, esc |-> FALSE]
        /\ f.lines[r].level = 0 <=> r + 1 \notin LinesOf(f, f.lines[r].of)
    <2>1. PICK d \in Int : d = 0 /\ d = IF Begins(f, r) THEN 0 ELSE f.lines[r - 1].level
      BY <1>2
    <2>2. /\ ReadTokens([depth |-> d, str |-> FALSE, esc |-> FALSE], f.lines[r].marks)
                = [depth |-> f.lines[r].level, str |-> FALSE, esc |-> FALSE]
          /\ f.lines[r].level = 0 <=> r + 1 \notin LinesOf(f, f.lines[r].of)
      BY <1>3, <2>1, MatchedLine
    <2> QED BY <2>1, <2>2
  <1>5. {r} = SoFar(f, f.lines[r].of, r + 1)
    <2>1. SoFar(f, f.lines[r].of, r + 1) = SoFar(f, f.lines[r].of, r) \cup {r}
      BY SoFarGrows
    <2>2. SoFar(f, f.lines[r].of, r) = {}
      BY <1>2, SoFarGrows
    <2> QED BY <2>1, <2>2
  <1> QED BY <1>4, <1>5 DEF Blank

LEMMA LineContinued ==
  ASSUME NEW f, IsQlogFile(f), NEW r \in 1 .. Len(f.lines), CleanTo(f, r + 1),
         NEW depth, NEW str, NEW esc, NEW lines, Inside(f, r, depth, str, esc, lines)
  PROVE  /\ ReadTokens([depth |-> depth, str |-> str, esc |-> esc], f.lines[r].marks)
              = [depth |-> f.lines[r].level, str |-> FALSE, esc |-> FALSE]
         /\ f.lines[r].level = 0 <=> r + 1 \notin LinesOf(f, f.lines[r].of)
         /\ lines \cup {r} = SoFar(f, f.lines[r].of, r + 1)
  <1>1. CleanTo(f, r)
    BY DEF CleanTo
  <1>2. ~ Begins(f, r) /\ depth = f.lines[r - 1].level
    BY <1>1 DEF Inside
  <1>3. [depth |-> depth, str |-> str, esc |-> esc] = [depth |-> depth, str |-> FALSE, esc |-> FALSE]
    BY <1>1 DEF Inside
  <1>4. lines \cup {r} = SoFar(f, f.lines[r].of, r + 1)
    <2>1. lines = SoFar(f, f.lines[r].of, r)
      BY <1>1 DEF Inside
    <2> QED BY <2>1, SoFarGrows
  <1>5. Matched(f, f.lines[r].of)
    BY <1>2, OtherLine, LineMatched
  <1>6. depth \in Int
    <2>1. r - 1 \in 1 .. Len(f.lines)
      BY <1>2 DEF Begins, LinesOf
    <2> QED BY <1>2, <2>1, LineTyped
  <1>7. /\ ReadTokens([depth |-> depth, str |-> FALSE, esc |-> FALSE], f.lines[r].marks)
              = [depth |-> f.lines[r].level, str |-> FALSE, esc |-> FALSE]
        /\ f.lines[r].level = 0 <=> r + 1 \notin LinesOf(f, f.lines[r].of)
    BY <1>2, <1>5, <1>6, MatchedLine
  <1> QED BY <1>3, <1>4, <1>7

LEMMA ScanGoesOn ==
  ASSUME NEW f, IsQlogFile(f), NEW r \in 1 .. Len(f.lines), NEW depth, NEW str, NEW esc, NEW lines,
         CleanTo(f, r + 1) =>
           /\ depth = f.lines[r].level /\ str = FALSE /\ esc = FALSE
           /\ f.lines[r].level = 0 <=> r + 1 \notin LinesOf(f, f.lines[r].of)
           /\ lines = SoFar(f, f.lines[r].of, r + 1)
  PROVE  /\ depth = 0 => Outside(f, r + 1)
         /\ depth # 0 => Inside(f, r + 1, depth, str, esc, lines)
  <1> SUFFICES ASSUME CleanTo(f, r + 1)
               PROVE  /\ depth = 0 => Outside(f, r + 1)
                      /\ depth # 0 => Inside(f, r + 1, depth, str, esc, lines)
    BY DEF Outside, Inside
  <1>1. depth # 0 <=> r + 1 <= Len(f.lines) /\ ~ Begins(f, r + 1)
    BY BeginsNext
  <1>2. depth # 0 => f.lines[r + 1].of = f.lines[r].of
    BY DEF LinesOf
  <1>3. r + 1 - 1 = r
    OBVIOUS
  <1>4. depth # 0 => /\ depth = f.lines[r + 1 - 1].level /\ str = FALSE /\ esc = FALSE
                     /\ lines = SoFar(f, f.lines[r + 1].of, r + 1)
    BY <1>2, <1>3
  <1>5. depth = 0 => Outside(f, r + 1)
    BY <1>1 DEF Outside
  <1>6. depth # 0 => Inside(f, r + 1, depth, str, esc, lines)
    BY <1>1, <1>4 DEF Inside
  <1> QED BY <1>5, <1>6

\* A source has no line behind one that the next line of the file does not continue.
LEMMA LastLine ==
  ASSUME NEW f, IsQlogFile(f), NEW r \in 1 .. Len(f.lines), r + 1 \notin LinesOf(f, f.lines[r].of)
  PROVE  SoFar(f, f.lines[r].of, r + 1) = LinesOf(f, f.lines[r].of)
  <1> SUFFICES ASSUME NEW n \in LinesOf(f, f.lines[r].of), ~ (n < r + 1) PROVE FALSE
    BY DEF SoFar
  <1>1. n \in 1 .. Len(f.lines) /\ f.lines[n].of = f.lines[r].of
    BY DEF LinesOf
  <1>2. r + 1 \in 1 .. Len(f.lines) /\ r <= r + 1 /\ r + 1 <= n
    BY <1>1, LineTyped
  <1>3. PICK a \in Int, b \in Int : a = f.lines[r].of /\ b = f.lines[r + 1].of
    <2>1. f.lines[r].of \in 1 .. Len(f.good) /\ f.lines[r + 1].of \in 1 .. Len(f.good)
      BY <1>2, LineTyped
    <2> QED BY <2>1
  <1>4. f.lines[r].of <= f.lines[r + 1].of /\ f.lines[r + 1].of <= f.lines[n].of
    BY <1>1, <1>2 DEF IsQlogFile
  <1>5. a = b
    BY <1>1, <1>3, <1>4
  <1> QED BY <1>2, <1>3, <1>5 DEF LinesOf

(***************************************************************************)
(* What was salvaged when the lines before r are read: good sources, all   *)
(* of whose lines were read, in order; no good source is missing that is   *)
(* before every odd one; and nothing is invented before a line of an odd   *)
(* one was read.                                                           *)
(***************************************************************************)
Found(list) == {list[k] : k \in 1 .. Len(list)}
ReadBy(f, r) == {e \in 1 .. Len(f.good) : \A n \in LinesOf(f, e) : n < r}
BeforeOdd(f, e) == \A d \in OddOf(f) : e < d

Salvaged(f, r, list) ==
  /\ list \in Seq(Nat)
  /\ InOrder(list)
  /\ Found(list) \ {Invented} \subseteq GoodOf(f) \cap ReadBy(f, r)
  /\ \A e \in GoodOf(f) \cap ReadBy(f, r) : BeforeOdd(f, e) => e \in Found(list)
  /\ CleanTo(f, r) => Invented \notin Found(list)

LEMMA OrderedMore ==
  ASSUME NEW list \in Seq(Nat), InOrder(list), NEW e \in Nat,
         e # Invented => \A d \in Found(list) \ {Invented} : d < e
  PROVE  /\ Append(list, e) \in Seq(Nat)
         /\ InOrder(Append(list, e))
         /\ Found(Append(list, e)) = Found(list) \cup {e}
  <1>1. PICK more : more = Append(list, e)
    OBVIOUS
  <1> PICK len \in Nat : len = Len(list)
    OBVIOUS
  <1>2. /\ more \in Seq(Nat) /\ Len(more) = len + 1
        /\ \A k \in 1 .. len : more[k] = list[k]
        /\ more[len + 1] = e
    BY <1>1
  <1>3. 1 .. len + 1 = (1 .. len) \cup {len + 1}
    OBVIOUS
  <1>4. {more[k] : k \in 1 .. len + 1} = {list[k] : k \in 1 .. len} \cup {e}
    <2>1. {more[k] : k \in 1 .. len + 1} = {more[k] : k \in 1 .. len} \cup {more[len + 1]}
      BY <1>3
    <2>2. {more[k] : k \in 1 .. len} = {list[k] : k \in 1 .. len}
      BY <1>2
    <2> QED BY <1>2, <2>1, <2>2
  <1>5. ASSUME NEW j \in 1 .. len + 1, NEW k \in 1 .. len + 1, j < k,
               more[j] # Invented, more[k] # Invented
        PROVE  more[j] < more[k]
    <2>1. j \in 1 .. len
      BY <1>5
    <2>2. CASE k \in 1 .. len
      <3>1. list[j] < list[k]
        BY <1>2, <1>5, <2>1, <2>2 DEF InOrder
      <3> QED BY <1>2, <2>1, <2>2, <3>1
    <2>3. CASE k = len + 1
      <3>1. list[j] \in Found(list) \ {Invented}
        BY <1>2, <1>5, <2>1 DEF Found
      <3> QED BY <1>2, <1>5, <2>1, <2>3, <3>1
    <2> QED BY <2>2, <2>3
  <1>6. InOrder(more)
    BY <1>2, <1>5 DEF InOrder
  <1> QED BY <1>1, <1>2, <1>4, <1>6 DEF Found

LEMMA ListsMore ==
  ASSUME NEW list \in Seq(Nat), NEW set, Lists(list, set), NEW e \in Nat, \A d \in set : d < e
  PROVE  /\ Append(list, e) \in Seq(Nat)
         /\ Lists(Append(list, e), set \cup {e})
  <1>1. PICK more : more = Append(list, e)
    OBVIOUS
  <1> PICK len \in Nat : len = Len(list)
    OBVIOUS
  <1>2. /\ more \in Seq(Nat) /\ Len(more) = len + 1
        /\ \A k \in 1 .. len : more[k] = list[k]
        /\ more[len + 1] = e
    BY <1>1
  <1>3. 1 .. len + 1 = (1 .. len) \cup {len + 1}
    OBVIOUS
  <1>4. {more[k] : k \in 1 .. len + 1} = {list[k] : k \in 1 .. len} \cup {e}
    <2>1. {more[k] : k \in 1 .. len + 1} = {more[k] : k \in 1 .. len} \cup {more[len + 1]}
      BY <1>3
    <2>2. {more[k] : k \in 1 .. len} = {list[k] : k \in 1 .. len}
      BY <1>2
    <2> QED BY <1>2, <2>1, <2>2
  <1>5. {list[k] : k \in 1 .. len} = set
    BY <1>1 DEF Lists
  <1>6. ASSUME NEW j \in 1 .. len + 1, NEW k \in 1 .. len + 1, j < k
        PROVE  more[j] < more[k]
    <2>1. j \in 1 .. len
      BY <1>6
    <2>2. CASE k \in 1 .. len
      <3>1. list[j] < list[k]
        BY <1>1, <1>6, <2>1, <2>2 DEF Lists
      <3> QED BY <1>2, <2>1, <2>2, <3>1
    <2>3. CASE k = len + 1
      <3>1. list[j] \in set
        BY <1>5, <2>1
      <3> QED BY <1>2, <2>1, <2>3, <3>1
    <2> QED BY <2>2, <2>3
  <1>7. Lists(more, set \cup {e})
    BY <1>2, <1>4, <1>5, <1>6 DEF Lists
  <1> QED BY <1>1, <1>2, <1>7

\* With line r only its source may have been read to its end.
LEMMA ReadMore ==
  ASSUME NEW f, IsQlogFile(f), NEW r \in 1 .. Len(f.lines)
  PROVE  /\ ReadBy(f, r) \subseteq ReadBy(f, r + 1)
         /\ \A e \in ReadBy(f, r + 1) : e \in ReadBy(f, r) \/ e = f.lines[r].of
         /\ \A e \in ReadBy(f, r) : e < f.lines[r].of
         /\ f.lines[r].of \in ReadBy(f, r + 1) <=> SoFar(f, f.lines[r].of, r + 1) = LinesOf(f, f.lines[r].of)
  <1>1. \A e : LinesOf(f, e) \subseteq Nat /\ \A n \in LinesOf(f, e) : n \in 1 .. Len(f.lines) /\ f.lines[n].of = e
    BY DEF LinesOf
  <1>2. \A n \in Nat : (n < r => n < r + 1) /\ (n < r + 1 => n < r \/ n = r)
    OBVIOUS
  <1>3. \A e \in ReadBy(f, r + 1) : e \in ReadBy(f, r) \/ e = f.lines[r].of
    BY <1>1, <1>2 DEF ReadBy
  <1>4. ASSUME NEW e \in ReadBy(f, r) PROVE e < f.lines[r].of
    <2>1. e \in 1 .. Len(f.good) /\ LinesOf(f, e) # {} /\ \A n \in LinesOf(f, e) : n < r
      BY DEF ReadBy, IsQlogFile
    <2>2. PICK n \in LinesOf(f, e) : n < r
      BY <2>1
    <2>3. n \in 1 .. Len(f.lines) /\ f.lines[n].of = e /\ n <= r
      BY <1>1, <2>2
    <2>4. f.lines[n].of <= f.lines[r].of
      BY <2>3 DEF IsQlogFile
    <2>5. f.lines[r].of # e
      BY <2>1, LineTyped
    <2>6. f.lines[r].of \in Int /\ e \in Int
      <3>1. f.lines[r].of \in 1 .. Len(f.good)
        BY LineTyped
      <3> QED BY <2>1, <3>1
    <2> QED BY <2>3, <2>4, <2>5, <2>6
  <1>5. f.lines[r].of \in ReadBy(f, r + 1) <=> SoFar(f, f.lines[r].of, r + 1) = LinesOf(f, f.lines[r].of)
    <2>1. f.lines[r].of \in 1 .. Len(f.good)
      BY LineTyped
    <2> QED BY <2>1 DEF ReadBy, SoFar
  <1>6. ReadBy(f, r) \subseteq ReadBy(f, r + 1)
    BY <1>1, <1>2 DEF ReadBy
  <1> QED BY <1>3, <1>4, <1>5, <1>6

LEMMA CleanBefore ==
  ASSUME NEW f, IsQlogFile(f), NEW r \in 1 .. Len(f.lines), CleanTo(f, r + 1)
  PROVE  CleanTo(f, r)
  <1>1. \A n \in 1 .. r - 1 : n \in 1 .. r + 1 - 1
    OBVIOUS
  <1> QED BY <1>1 DEF CleanTo

LEMMA SalvagedKeeps ==
  ASSUME NEW f, IsQlogFile(f), NEW r \in 1 .. Len(f.lines), NEW list, Salvaged(f, r, list),
         f.lines[r].of \in GoodOf(f) \cap ReadBy(f, r + 1) => ~ BeforeOdd(f, f.lines[r].of)
  PROVE  Salvaged(f, r + 1, list)
  BY ReadMore, CleanBefore DEF Salvaged

LEMMA SalvagedAdds ==
  ASSUME NEW f, IsQlogFile(f), NEW r \in 1 .. Len(f.lines), NEW list, Salvaged(f, r, list),
         f.lines[r].of \in GoodOf(f) \cap ReadBy(f, r + 1)
  PROVE  Salvaged(f, r + 1, Append(list, f.lines[r].of))
  <1>1. PICK e : e = f.lines[r].of
    OBVIOUS
  <1>2. e \in Nat /\ e # Invented
    BY <1>1 DEF GoodOf, Invented
  <1>3. \A d \in Found(list) \ {Invented} : d < e
    BY <1>1, ReadMore DEF Salvaged
  <1>4. /\ Append(list, e) \in Seq(Nat)
        /\ InOrder(Append(list, e))
        /\ Found(Append(list, e)) = Found(list) \cup {e}
    BY <1>2, <1>3, OrderedMore DEF Salvaged
  <1>5. (Found(list) \cup {e}) \ {Invented} \subseteq GoodOf(f) \cap ReadBy(f, r + 1)
    BY <1>1, ReadMore DEF Salvaged
  <1>6. \A d \in GoodOf(f) \cap ReadBy(f, r + 1) : BeforeOdd(f, d) => d \in Found(list) \cup {e}
    BY <1>1, ReadMore DEF Salvaged
  <1>7. CleanTo(f, r + 1) => Invented \notin Found(list) \cup {e}
    BY <1>2, CleanBefore DEF Salvaged
  <1> QED BY <1>1, <1>4, <1>5, <1>6, <1>7 DEF Salvaged

\* An event is invented only when a line of an odd tuple was read.
LEMMA SalvagedInvents ==
  ASSUME NEW f, IsQlogFile(f), NEW r \in 1 .. Len(f.lines), NEW list, Salvaged(f, r, list),
         ~ CleanTo(f, r + 1),
         f.lines[r].of \in GoodOf(f) \cap ReadBy(f, r + 1) => ~ BeforeOdd(f, f.lines[r].of)
  PROVE  Salvaged(f, r + 1, Append(list, Invented))
  <1>1. Invented \in Nat
    BY DEF Invented
  <1>2. /\ Append(list, Invented) \in Seq(Nat)
        /\ InOrder(Append(list, Invented))
        /\ Found(Append(list, Invented)) = Found(list) \cup {Invented}
    BY <1>1, OrderedMore DEF Salvaged
  <1> QED BY <1>2, SalvagedKeeps DEF Salvaged

\* Up to a source before every odd one only sources that are not odd are read.
LEMMA BeforeOddClean ==
  ASSUME NEW f, IsQlogFile(f), NEW r \in 1 .. Len(f.lines), BeforeOdd(f, f.lines[r].of)
  PROVE  CleanTo(f, r + 1)
  <1> SUFFICES ASSUME NEW n \in 1 .. r + 1 - 1, f.lines[n].of \in OddOf(f) PROVE FALSE
    BY DEF CleanTo
  <1>1. n \in 1 .. Len(f.lines) /\ n <= r
    BY LineTyped
  <1>2. PICK a \in Int, b \in Int : a = f.lines[n].of /\ b = f.lines[r].of
    <2>1. \A k \in 1 .. Len(f.lines) : f.lines[k].of \in 1 .. Len(f.good)
      BY LineTyped
    <2>2. f.lines[n].of \in Int /\ f.lines[r].of \in Int
      BY <1>1, <2>1
    <2> QED BY <2>2
  <1>3. a <= b
    BY <1>1, <1>2 DEF IsQlogFile
  <1>4. b < a
    BY <1>2 DEF BeforeOdd
  <1> QED BY <1>3, <1>4

(***************************************************************************)
(* What holds in each phase of _parse.  Only an object comes to the strict *)
(* parser and to the scanner, and the scanner gives it to the third reader *)
(* only if it has no good event, or an odd tuple.                          *)
(***************************************************************************)
GoodTo(f, r) == {e \in GoodOf(f) : e < r}
EventRecords(f) == {k \in 1 .. Len(f.records) : f.records[k] = "event"}
EventsTo(f, r) == {k \in EventRecords(f) : k < r}
Salvageable(f) == OddOf(f) = {} /\ GoodOf(f) # {}

WholeFile(f, list) ==
  /\ f.shape = "records" => Lists(list, EventRecords(f))
  /\ f.shape = "object" /\ Salvageable(f) => Lists(list, GoodOf(f))

QlogTypes ==
  /\ IsQlogFile(qlog)
  /\ parsing \in {"unread", "strict", "scanning", "records", "parsed", "failed", "over", "over_failed"}
  /\ row \in Nat \ {0}
  /\ inEvent \in BOOLEAN
  /\ events \in Seq(Nat)

Start == row = 1 /\ inEvent = FALSE /\ buf = {} /\ events = <<>>

Stricts ==
  /\ qlog.shape = "object" /\ inEvent = FALSE /\ buf = {}
  /\ row <= Len(qlog.good) + 1
  /\ Lists(events, GoodTo(qlog, row))

Scans ==
  /\ qlog.shape = "object"
  /\ row <= Len(qlog.lines) + 1
  /\ buf \subseteq 1 .. row - 1
  /\ inEvent = FALSE => Outside(qlog, row)
  /\ inEvent # FALSE => Inside(qlog, row, bracket, inString, escape, buf)
  /\ Salvaged(qlog, row, events)

ReadsRecords ==
  /\ qlog.shape = "object" => ~ Salvageable(qlog)
  /\ row <= Len(qlog.records) + 1
  /\ Lists(events, EventsTo(qlog, row))

QlogInv ==
  /\ QlogTypes
  /\ parsing = "unread" => Start
  /\ parsing = "strict" => Stricts
  /\ parsing = "scanning" => Scans
  /\ parsing = "records" => ReadsRecords
  /\ parsing = "parsed" => WholeFile(qlog, events)
  /\ parsing = "over" => WholeFile(qlog, taken)
  /\ parsing = "over_failed" => taken = <<>>

LEMMA QlogLengths ==
  ASSUME NEW f, IsQlogFile(f)
  PROVE  /\ Len(f.good) \in Nat /\ Len(f.lines) \in Nat /\ Len(f.records) \in Nat
         /\ f.shape \in {"object", "records"}
  BY DEF IsQlogFile

LEMMA ListsNothing ==
  ASSUME NEW list, list = <<>>
  PROVE  list \in Seq(Nat) /\ Lists(list, {}) /\ InOrder(list) /\ Found(list) = {}
  <1>1. Len(list) = 0 /\ list \in Seq(Nat)
    OBVIOUS
  <1>2. 1 .. 0 = {}
    OBVIOUS
  <1> QED BY <1>1, <1>2 DEF Lists, InOrder, Found

\* Where the scanner starts, nothing was read.
LEMMA ScanStarts ==
  ASSUME NEW f, IsQlogFile(f), NEW list, list = <<>>
  PROVE  Outside(f, 1) /\ Salvaged(f, 1, list)
  <1>1. Begins(f, 1)
    <2>1. 1 - 1 \notin 1 .. Len(f.lines)
      OBVIOUS
    <2> QED BY <2>1 DEF Begins, LinesOf
  <1>2. Outside(f, 1)
    BY <1>1 DEF Outside
  <1>3. ReadBy(f, 1) = {}
    <2> SUFFICES ASSUME NEW e \in ReadBy(f, 1) PROVE FALSE
      OBVIOUS
    <2>1. LinesOf(f, e) # {} /\ \A n \in LinesOf(f, e) : n < 1
      BY DEF ReadBy, IsQlogFile
    <2>2. PICK n \in LinesOf(f, e) : n < 1
      BY <2>1
    <2>3. n \in 1 .. Len(f.lines)
      BY DEF LinesOf
    <2> QED BY <2>2, <2>3
  <1> QED BY <1>2, <1>3, ListsNothing DEF Salvaged

\* At its end all sources were read.
LEMMA ScanFinds ==
  ASSUME NEW f, IsQlogFile(f), NEW r \in Nat, r > Len(f.lines), NEW list, Salvaged(f, r, list),
         OddOf(f) = {}
  PROVE  Lists(list, GoodOf(f))
  <1>1. \A e \in GoodOf(f) : e \in ReadBy(f, r)
    <2> TAKE e \in GoodOf(f)
    <2>1. \A n \in LinesOf(f, e) : n < r
      BY QlogLengths DEF LinesOf
    <2> QED BY <2>1 DEF ReadBy, GoodOf
  <1>2. \A e \in GoodOf(f) : e \in Found(list)
    BY <1>1 DEF Salvaged, BeforeOdd
  <1>3. Invented \notin Found(list)
    BY DEF Salvaged, CleanTo
  <1>4. Found(list) = GoodOf(f)
    BY <1>2, <1>3 DEF Salvaged
  <1>5. \A j, k \in 1 .. Len(list) : j < k => list[j] < list[k]
    BY <1>3 DEF Salvaged, InOrder, Found
  <1> QED BY <1>4, <1>5 DEF Lists, Found

LEMMA QlogInitInv == QlogInit => QlogInv
  <1> SUFFICES ASSUME QlogInit PROVE QlogInv
    OBVIOUS
  <1>1. QlogTypes /\ Start /\ parsing = "unread"
    <2>1. IsQlogFile(qlog)
      BY QlogAssumption DEF QlogInit
    <2>2. events = <<>> /\ events \in Seq(Nat)
      BY ListsNothing DEF QlogInit, QlogStart
    <2>3. parsing = "unread" /\ Start
      BY DEF QlogInit, QlogStart, Start
    <2>4. row \in Nat \ {0}
      BY DEF QlogInit, QlogStart
    <2>5. inEvent \in BOOLEAN
      BY DEF QlogInit, QlogStart
    <2> QED BY <2>1, <2>2, <2>3, <2>4, <2>5 DEF QlogTypes
  <1> QED BY <1>1 DEF QlogInv

LEMMA ReadQlogInv == QlogInv /\ ReadQlog => QlogInv'
  <1> SUFFICES ASSUME QlogInv, ReadQlog PROVE QlogInv'
    OBVIOUS
  <1>1. /\ QlogTypes /\ Start
        /\ qlog' = qlog /\ row' = row /\ inEvent' = inEvent /\ buf' = buf /\ events' = events
        /\ bracket' = bracket /\ inString' = inString /\ escape' = escape
        /\ parsing' = IF qlog.shape = "records" THEN "records"
                      ELSE IF qlog.strict \in {"events", "raises"} THEN "strict" ELSE "scanning"
    BY DEF QlogInv, ReadQlog, scanVars
  <1>2. QlogTypes'
    BY <1>1 DEF QlogTypes
  <1>3. CASE parsing' = "records"
    <2>1. qlog.shape = "records" /\ 1 <= Len(qlog.records) + 1
      BY <1>1, <1>3, QlogLengths DEF QlogTypes
    <2>2. EventsTo(qlog, 1) = {}
      BY DEF EventsTo, EventRecords
    <2>3. ReadsRecords'
      BY <1>1, <2>1, <2>2, ListsNothing DEF ReadsRecords, Start
    <2> QED BY <1>2, <1>3, <2>3 DEF QlogInv
  <1>4. CASE parsing' = "strict"
    <2>1. qlog.shape = "object" /\ 1 <= Len(qlog.good) + 1
      BY <1>1, <1>4, QlogLengths DEF QlogTypes
    <2>2. GoodTo(qlog, 1) = {}
      BY DEF GoodTo, GoodOf
    <2>3. Stricts'
      BY <1>1, <2>1, <2>2, ListsNothing DEF Stricts, Start
    <2> QED BY <1>2, <1>4, <2>3 DEF QlogInv
  <1>5. CASE parsing' = "scanning"
    <2>1. qlog.shape = "object" /\ 1 <= Len(qlog.lines) + 1
      BY <1>1, <1>5, QlogLengths DEF QlogTypes
    <2>2. Outside(qlog, 1) /\ Salvaged(qlog, 1, events)
      BY <1>1, ScanStarts DEF QlogTypes, Start
    <2>3. Scans'
      BY <1>1, <2>1, <2>2 DEF Scans, Start
    <2> QED BY <1>2, <1>5, <2>3 DEF QlogInv
  <1> QED BY <1>1, <1>3, <1>4, <1>5

LEMMA StrictEventInv == QlogInv /\ StrictEvent => QlogInv'
  <1> SUFFICES ASSUME QlogInv, StrictEvent PROVE QlogInv'
    OBVIOUS
  <1>1. /\ QlogTypes /\ Stricts
        /\ qlog' = qlog /\ row' = row + 1 /\ inEvent' = inEvent /\ buf' = buf
        /\ parsing' = "strict" /\ row <= Len(qlog.good)
        /\ events' = IF qlog.good[row] THEN Append(events, row) ELSE events
    BY DEF QlogInv, StrictEvent, scanVars
  <1> PICK f : f = qlog
    OBVIOUS
  <1>2. PICK r \in Nat \ {0} : f = qlog /\ r = row /\ Len(f.good) \in Nat /\ r \in 1 .. Len(f.good)
    BY <1>1, QlogLengths DEF QlogTypes
  <1>3. GoodTo(f, r + 1) = IF f.good[r] THEN GoodTo(f, r) \cup {r} ELSE GoodTo(f, r)
    <2>1. \A e \in Nat : e < r + 1 <=> e < r \/ e = r
      OBVIOUS
    <2>2. \A e \in GoodOf(f) : e \in Nat /\ f.good[e]
      BY DEF GoodOf
    <2> QED BY <1>2, <2>1, <2>2 DEF GoodTo, GoodOf
  <1>4. events' \in Seq(Nat) /\ Lists(events', GoodTo(f, r + 1))
    <2>1. events \in Seq(Nat) /\ Lists(events, GoodTo(f, r)) /\ \A e \in GoodTo(f, r) : e < r
      BY <1>1, <1>2 DEF Stricts, QlogTypes, GoodTo
    <2>2. Append(events, r) \in Seq(Nat) /\ Lists(Append(events, r), GoodTo(f, r) \cup {r})
      BY <2>1, ListsMore
    <2> QED BY <1>1, <1>2, <1>3, <2>1, <2>2
  <1>5. QlogTypes'
    BY <1>1, <1>4 DEF QlogTypes
  <1>6. r + 1 <= Len(f.good) + 1
    BY <1>2
  <1>7. Stricts'
    BY <1>1, <1>2, <1>4, <1>6 DEF Stricts
  <1> QED BY <1>1, <1>5, <1>7 DEF QlogInv

LEMMA StrictEndsInv == QlogInv /\ StrictEnds => QlogInv'
  <1> SUFFICES ASSUME QlogInv, StrictEnds PROVE QlogInv'
    OBVIOUS
  <1>1. /\ QlogTypes /\ Stricts
        /\ qlog' = qlog /\ row' = 1 /\ inEvent' = inEvent /\ buf' = buf /\ events' = events
        /\ bracket' = bracket /\ inString' = inString /\ escape' = escape
        /\ parsing' = IF events = <<>> THEN "scanning" ELSE "parsed"
        /\ row > Len(qlog.good)
    BY DEF QlogInv, StrictEnds, scanVars
  <1>2. QlogTypes'
    BY <1>1 DEF QlogTypes
  <1>3. CASE parsing' = "scanning"
    <2>1. qlog.shape = "object" /\ 1 <= Len(qlog.lines) + 1
      BY <1>1, QlogLengths DEF QlogTypes, Stricts
    <2>2. Outside(qlog, 1) /\ Salvaged(qlog, 1, events)
      BY <1>1, <1>3, ScanStarts DEF QlogTypes
    <2>3. Scans'
      BY <1>1, <2>1, <2>2 DEF Scans, Stricts
    <2> QED BY <1>2, <1>3, <2>3 DEF QlogInv
  <1>4. CASE parsing' = "parsed"
    <2>1. GoodTo(qlog, row) = GoodOf(qlog)
      <3>1. \A e \in GoodOf(qlog) : e < row
        BY <1>1, QlogLengths DEF GoodOf, QlogTypes
      <3> QED BY <3>1 DEF GoodTo
    <2>2. WholeFile(qlog', events')
      BY <1>1, <2>1 DEF WholeFile, Stricts
    <2> QED BY <1>2, <1>4, <2>2 DEF QlogInv
  <1> QED BY <1>1, <1>3, <1>4

LEMMA SkipLineInv == QlogInv /\ SkipLine => QlogInv'
  <1> SUFFICES ASSUME QlogInv, SkipLine PROVE QlogInv'
    OBVIOUS
  <1>1. /\ QlogTypes /\ Scans
        /\ qlog' = qlog /\ row' = row + 1 /\ inEvent' = inEvent /\ buf' = buf /\ events' = events
        /\ bracket' = bracket /\ inString' = inString /\ escape' = escape
        /\ parsing = "scanning" /\ parsing' = parsing
        /\ row <= Len(qlog.lines) /\ inEvent = FALSE /\ ~ qlog.lines[row].first
    BY DEF QlogInv, QlogTypes, SkipLine, AtRow, Line, scanVars
  <1> PICK f : f = qlog
    OBVIOUS
  <1>2. PICK r \in Nat \ {0} : r = row /\ IsQlogFile(f) /\ Len(f.lines) \in Nat /\ r \in 1 .. Len(f.lines)
    BY <1>1, QlogLengths DEF QlogTypes
  <1>3. Outside(f, r + 1) /\ (CleanTo(f, r + 1) => ~ Tuple(f, f.lines[r].of))
    BY <1>1, <1>2, LineSkipped DEF Scans
  <1>4. f.lines[r].of \in GoodOf(f) => ~ BeforeOdd(f, f.lines[r].of)
    <2>1. f.lines[r].of \in GoodOf(f) => Tuple(f, f.lines[r].of)
      BY <1>2 DEF GoodOf, IsQlogFile
    <2> QED BY <1>2, <1>3, <2>1, BeforeOddClean
  <1>5. Salvaged(f, r + 1, events)
    BY <1>1, <1>2, <1>4, SalvagedKeeps DEF Scans
  <1>6. r + 1 <= Len(f.lines) + 1 /\ 1 .. r - 1 \subseteq 1 .. r + 1 - 1
    BY <1>2
  <1>7. Scans'
    <2>1. inEvent' = FALSE /\ Outside(qlog', row')
      BY <1>1, <1>2, <1>3
    <2>2. Salvaged(qlog', row', events')
      BY <1>1, <1>2, <1>5
    <2>3. row' <= Len(qlog'.lines) + 1 /\ buf' \subseteq 1 .. row' - 1 /\ qlog'.shape = "object"
      BY <1>1, <1>2, <1>6 DEF Scans
    <2> QED BY <2>1, <2>2, <2>3 DEF Scans
  <1>8. QlogTypes'
    BY <1>1 DEF QlogTypes
  <1> QED BY <1>1, <1>7, <1>8 DEF QlogInv

LEMMA ScanLineInv == QlogInv /\ ScanLine => QlogInv'
  <1> SUFFICES ASSUME QlogInv, ScanLine PROVE QlogInv'
    OBVIOUS
  <1> PICK f : f = qlog
    OBVIOUS
  <1> PICK s : s = ReadTokens(IF inEvent THEN [depth |-> bracket, str |-> inString, esc |-> escape]
                              ELSE Blank, f.lines[row].marks)
    OBVIOUS
  <1> PICK more : more = IF inEvent THEN buf \cup {row} ELSE {row}
    OBVIOUS
  <1>1. /\ QlogTypes /\ Scans
        /\ qlog' = qlog /\ row' = row + 1
        /\ bracket' = s.depth /\ inString' = s.str /\ escape' = s.esc
        /\ inEvent' = (s.depth # 0)
        /\ buf' = IF s.depth = 0 THEN {} ELSE more
        /\ \/ s.depth = 0 /\ \E d \in Salvage(more) : events' = Append(events, d)
           \/ (s.depth # 0 \/ Salvage(more) = {}) /\ events' = events
        /\ parsing = "scanning" /\ parsing' = parsing
        /\ row <= Len(f.lines) /\ (inEvent \/ f.lines[row].first)
    BY DEF QlogInv, ScanLine, AtRow, Line
  <1>2. PICK r \in Nat \ {0} : r = row /\ IsQlogFile(f) /\ Len(f.lines) \in Nat /\ r \in 1 .. Len(f.lines)
    BY <1>1, QlogLengths DEF QlogTypes
  <1>3. PICK e \in 1 .. Len(f.good) : e = f.lines[r].of /\ r \in LinesOf(f, e)
    BY <1>2, LineTyped
  <1>4. CleanTo(f, r + 1) =>
          /\ s = [depth |-> f.lines[r].level, str |-> FALSE, esc |-> FALSE]
          /\ f.lines[r].level = 0 <=> r + 1 \notin LinesOf(f, e)
          /\ more = SoFar(f, e, r + 1)
    <2>1. CASE inEvent = FALSE
      <3>1. Outside(f, r) /\ f.lines[r].first
        BY <1>1, <1>2, <2>1 DEF Scans
      <3>2. s = ReadTokens(Blank, f.lines[r].marks) /\ more = {r}
        BY <1>2, <2>1
      <3> QED BY <1>2, <1>3, <3>1, <3>2, LineBegun
    <2>2. CASE inEvent = TRUE
      <3>1. Inside(f, r, bracket, inString, escape, buf)
        BY <1>1, <1>2, <2>2 DEF Scans
      <3>2. /\ s = ReadTokens([depth |-> bracket, str |-> inString, esc |-> escape], f.lines[r].marks)
            /\ more = buf \cup {r}
        BY <1>2, <2>2
      <3>3. CleanTo(f, r + 1) =>
              /\ ReadTokens([depth |-> bracket, str |-> inString, esc |-> escape], f.lines[r].marks)
                   = [depth |-> f.lines[r].level, str |-> FALSE, esc |-> FALSE]
              /\ f.lines[r].level = 0 <=> r + 1 \notin LinesOf(f, f.lines[r].of)
              /\ buf \cup {r} = SoFar(f, f.lines[r].of, r + 1)
        BY <1>2, <3>1, LineContinued
      <3> QED BY <1>3, <3>2, <3>3
    <2> QED BY <1>1, <2>1, <2>2 DEF QlogTypes
  <1>5. /\ s.depth = 0 => Outside(f, r + 1)
        /\ s.depth # 0 => Inside(f, r + 1, s.depth, s.str, s.esc, more)
        /\ CleanTo(f, r + 1) => (s.depth = 0 <=> r + 1 \notin LinesOf(f, e))
    <2>1. CleanTo(f, r + 1) =>
            /\ s.depth = f.lines[r].level /\ s.str = FALSE /\ s.esc = FALSE
            /\ f.lines[r].level = 0 <=> r + 1 \notin LinesOf(f, f.lines[r].of)
            /\ more = SoFar(f, f.lines[r].of, r + 1)
      BY <1>3, <1>4
    <2> QED BY <1>2, <1>3, <2>1, ScanGoesOn
  <1>6. more \subseteq 1 .. r + 1 - 1 /\ r \in more
    <2>1. 1 .. r - 1 \subseteq 1 .. r + 1 - 1 /\ r \in 1 .. r + 1 - 1
      BY <1>2
    <2>2. buf \subseteq 1 .. r - 1
      BY <1>1, <1>2 DEF Scans
    <2> QED BY <1>2, <2>1, <2>2
  <1>7. ASSUME NEW d \in Salvage(more), d # Invented
        PROVE  d = e /\ e \in GoodOf(f) \cap ReadBy(f, r + 1)
    <2>1. d \in 1 .. Len(f.good) /\ more = LinesOf(f, d) /\ f.good[d]
      BY <1>7 DEF Salvage
    <2>2. d = e
      BY <1>3, <1>6, <2>1 DEF LinesOf
    <2>3. \A n \in LinesOf(f, e) : n < r + 1
      BY <1>2, <1>6, <2>1, <2>2
    <2> QED BY <2>1, <2>2, <2>3 DEF GoodOf, ReadBy
  <1>8. ASSUME CleanTo(f, r + 1), s.depth = 0 PROVE Invented \notin Salvage(more)
    <2>1. r + 1 \notin LinesOf(f, e)
      BY <1>5, <1>8
    <2>2. more = LinesOf(f, e)
      BY <1>2, <1>3, <1>4, <1>8, <2>1, LastLine
    <2>3. more \notin f.fakes
      BY <1>2, <2>2 DEF IsQlogFile
    <2> QED BY <2>3 DEF Salvage, Invented
  <1>9. ASSUME e \in GoodOf(f) \cap ReadBy(f, r + 1), BeforeOdd(f, e)
        PROVE  CleanTo(f, r + 1) /\ s.depth = 0 /\ e \in Salvage(more)
    <2>1. CleanTo(f, r + 1)
      BY <1>2, <1>3, <1>9, BeforeOddClean
    <2>2. r + 1 \notin LinesOf(f, e)
      BY <1>2, <1>9 DEF ReadBy
    <2>3. more = LinesOf(f, e)
      BY <1>2, <1>3, <1>4, <1>9, <2>1, ReadMore
    <2> QED BY <1>5, <1>9, <2>1, <2>2, <2>3 DEF Salvage, GoodOf
  <1>10. Salvaged(f, r + 1, events')
    <2>1. Salvaged(f, r, events)
      BY <1>1, <1>2 DEF Scans
    <2>2. CASE s.depth = 0 /\ \E d \in Salvage(more) : events' = Append(events, d)
      <3>1. PICK d \in Salvage(more) : events' = Append(events, d)
        BY <2>2
      <3>2. CASE d = Invented
        <4>1. ~ CleanTo(f, r + 1)
          BY <1>8, <2>2, <3>2
        <4> QED BY <1>2, <1>3, <1>9, <2>1, <3>1, <3>2, <4>1, SalvagedInvents
      <3>3. CASE d # Invented
        BY <1>2, <1>3, <1>7, <2>1, <3>1, <3>3, SalvagedAdds
      <3> QED BY <3>2, <3>3
    <2>3. CASE (s.depth # 0 \/ Salvage(more) = {}) /\ events' = events
      BY <1>2, <1>3, <1>9, <2>1, <2>3, SalvagedKeeps
    <2> QED BY <1>1, <2>2, <2>3
  <1>11. r + 1 <= Len(f.lines) + 1 /\ buf' \subseteq 1 .. r + 1 - 1
    <2>1. buf' \subseteq more
      BY <1>1
    <2>2. r + 1 <= Len(f.lines) + 1
      BY <1>2
    <2> QED BY <1>6, <2>1, <2>2
  <1>12. Scans'
    <2>1. inEvent' = FALSE => Outside(qlog', row')
      BY <1>1, <1>2, <1>5
    <2>2. inEvent' # FALSE => Inside(qlog', row', bracket', inString', escape', buf')
      BY <1>1, <1>2, <1>5
    <2>3. /\ Salvaged(qlog', row', events')
          /\ row' <= Len(qlog'.lines) + 1 /\ buf' \subseteq 1 .. row' - 1 /\ qlog'.shape = "object"
      BY <1>1, <1>2, <1>10, <1>11 DEF Scans
    <2> QED BY <2>1, <2>2, <2>3 DEF Scans
  <1>13. QlogTypes'
    BY <1>1, <1>2, <1>10 DEF QlogTypes, Salvaged
  <1> QED BY <1>1, <1>12, <1>13 DEF QlogInv

LEMMA ScanEndsInv == QlogInv /\ ScanEnds => QlogInv'
  <1> SUFFICES ASSUME QlogInv, ScanEnds PROVE QlogInv'
    OBVIOUS
  <1>1. /\ QlogTypes /\ Scans
        /\ qlog' = qlog /\ row' = 1 /\ inEvent' = inEvent /\ events' = events
        /\ parsing' = IF events = <<>> THEN "records" ELSE "parsed"
        /\ row > Len(qlog.lines)
    BY DEF QlogInv, ScanEnds, scanVars
  <1>2. QlogTypes'
    BY <1>1 DEF QlogTypes
  <1>3. OddOf(qlog) = {} => Lists(events, GoodOf(qlog))
    BY <1>1, ScanFinds DEF QlogTypes, Scans
  <1>4. CASE parsing' = "records"
    <2>1. events = <<>> /\ 1 <= Len(qlog.records) + 1
      BY <1>1, <1>4, QlogLengths DEF QlogTypes
    <2>2. EventsTo(qlog, 1) = {}
      BY DEF EventsTo, EventRecords
    <2>3. ~ Salvageable(qlog)
      <3>1. Lists(events, GoodOf(qlog)) => GoodOf(qlog) = {}
        BY <2>1, ListsNothing DEF Lists
      <3> QED BY <1>3, <3>1 DEF Salvageable
    <2>4. ReadsRecords'
      BY <1>1, <2>1, <2>2, <2>3, ListsNothing DEF ReadsRecords
    <2> QED BY <1>2, <1>4, <2>4 DEF QlogInv
  <1>5. CASE parsing' = "parsed"
    <2>1. WholeFile(qlog', events')
      BY <1>1, <1>3 DEF WholeFile, Scans, Salvageable
    <2> QED BY <1>2, <1>5, <2>1 DEF QlogInv
  <1> QED BY <1>1, <1>4, <1>5

LEMMA ReadRecordInv == QlogInv /\ ReadRecord => QlogInv'
  <1> SUFFICES ASSUME QlogInv, ReadRecord PROVE QlogInv'
    OBVIOUS
  <1>1. /\ QlogTypes /\ ReadsRecords
        /\ qlog' = qlog /\ row' = row + 1 /\ inEvent' = inEvent
        /\ parsing' = IF qlog.records[row] = "scalar" THEN "failed" ELSE "records"
        /\ row <= Len(qlog.records)
        /\ events' = IF qlog.records[row] = "event" THEN Append(events, row) ELSE events
    BY DEF QlogInv, ReadRecord, scanVars
  <1> PICK f : f = qlog
    OBVIOUS
  <1>2. PICK r \in Nat \ {0} : r = row /\ Len(f.records) \in Nat /\ r \in 1 .. Len(f.records)
    BY <1>1, QlogLengths DEF QlogTypes
  <1>3. EventsTo(f, r + 1) = IF f.records[r] = "event" THEN EventsTo(f, r) \cup {r} ELSE EventsTo(f, r)
    <2>1. \A k \in Nat : k < r + 1 <=> k < r \/ k = r
      OBVIOUS
    <2>2. \A k \in EventRecords(f) : k \in Nat /\ f.records[k] = "event"
      BY DEF EventRecords
    <2> QED BY <1>2, <2>1, <2>2 DEF EventsTo, EventRecords
  <1>4. events' \in Seq(Nat) /\ Lists(events', EventsTo(f, r + 1))
    <2>1. events \in Seq(Nat) /\ Lists(events, EventsTo(f, r)) /\ \A k \in EventsTo(f, r) : k < r
      BY <1>1, <1>2 DEF ReadsRecords, QlogTypes, EventsTo
    <2>2. Append(events, r) \in Seq(Nat) /\ Lists(Append(events, r), EventsTo(f, r) \cup {r})
      BY <2>1, ListsMore
    <2> QED BY <1>1, <1>2, <1>3, <2>1, <2>2
  <1>5. QlogTypes'
    BY <1>1, <1>4 DEF QlogTypes
  <1>6. r + 1 <= Len(f.records) + 1
    BY <1>2
  <1>7. ReadsRecords'
    BY <1>1, <1>2, <1>4, <1>6 DEF ReadsRecords
  <1> QED BY <1>1, <1>5, <1>7 DEF QlogInv

LEMMA QlogNextInv == QlogInv /\ [QlogNext]_qlogVars => QlogInv'
  <1> SUFFICES ASSUME QlogInv, [QlogNext]_qlogVars PROVE QlogInv'
    OBVIOUS
  <1>1. CASE StrictRaises
    BY <1>1 DEF StrictRaises, QlogInv, QlogTypes, scanVars
  <1>2. CASE RecordsEnd
    <2>1. /\ QlogTypes /\ ReadsRecords
          /\ qlog' = qlog /\ row' = row /\ inEvent' = inEvent /\ events' = events /\ parsing' = "parsed"
          /\ row > Len(qlog.records)
      BY <1>2 DEF RecordsEnd, QlogInv, scanVars
    <2>2. EventsTo(qlog, row) = EventRecords(qlog)
      <3>1. \A k \in EventRecords(qlog) : k < row
        BY <2>1, QlogLengths DEF EventRecords, QlogTypes
      <3> QED BY <3>1 DEF EventsTo
    <2>3. WholeFile(qlog', events')
      BY <2>1, <2>2 DEF WholeFile, ReadsRecords
    <2>4. QlogTypes'
      BY <2>1 DEF QlogTypes
    <2> QED BY <2>1, <2>3, <2>4 DEF QlogInv
  <1>3. CASE TakeEvents
    <2>1. QlogTypes'
      BY <1>3 DEF TakeEvents, QlogInv, QlogTypes, scanVars
    <2>2. CASE parsing = "parsed"
      BY <1>3, <2>1, <2>2 DEF TakeEvents, QlogInv
    <2>3. CASE parsing = "failed"
      BY <1>3, <2>1, <2>3 DEF TakeEvents, QlogInv
    <2> QED BY <1>3, <2>2, <2>3 DEF TakeEvents
  <1>4. CASE UNCHANGED qlogVars
    BY <1>4 DEF qlogVars, scanVars, QlogInv, QlogTypes, Start, Stricts, Scans, ReadsRecords
  <1> QED BY <1>1, <1>2, <1>3, <1>4, ReadQlogInv, StrictEventInv, StrictEndsInv, SkipLineInv,
             ScanLineInv, ScanEndsInv, ReadRecordInv DEF QlogNext, QlogDone

LEMMA QlogInvariant == QlogSpec => []QlogInv
  BY QlogInitInv, QlogNextInv, PTL DEF QlogSpec

\* For every qlog file, of any number of lines and of any nesting, the tolerant
\* scanner (qlog_parser.py:74-171) finds every good event before the first tuple
\* whose own brackets or quotes do not match, and makes no event of lines that are
\* none before it, whatever json.loads would make of which lines; and the good
\* events that it finds behind it are each found once, and in order.
THEOREM QlogSalvageExact == QlogSpec => []SalvageExact
  <1>1. QlogInv => SalvageExact
    <2> SUFFICES ASSUME QlogInv, parsing = "scanning" PROVE SalvageExact
      BY DEF SalvageExact
    <2>1. Salvaged(qlog, row, events) /\ row \in Nat \ {0} /\ row <= Len(qlog.lines) + 1 /\ IsQlogFile(qlog)
      BY DEF QlogInv, QlogTypes, Scans
    <2>2. Odd = OddOf(qlog) /\ GoodEvents = GoodOf(qlog)
      BY DEF Odd, OddOf, GoodEvents, GoodOf
    <2> DEFINE read == {e \in 1 .. Len(qlog.good) : \A n \in LinesOf(qlog, e) : n < row}
               sure == {e \in read : \A d \in Odd : e < d}
               found == {events[k] : k \in 1 .. Len(events)}
    <2>3. read = ReadBy(qlog, row) /\ found = Found(events)
      BY DEF ReadBy, Found
    <2>4. found \ {Invented} \subseteq GoodEvents /\ InOrder(events)
      BY <2>1, <2>2, <2>3 DEF Salvaged
    <2>5. GoodEvents \cap sure \subseteq found
      BY <2>1, <2>2, <2>3 DEF Salvaged, BeforeOdd
    <2>6. Invented \notin read
      BY DEF Invented
    <2>7. ASSUME Invented \in found PROVE \E d \in Odd : \E n \in LinesOf(qlog, d) : n < row
      <3>1. ~ CleanTo(qlog, row)
        BY <2>1, <2>3, <2>7 DEF Salvaged
      <3>2. PICK n \in 1 .. row - 1 : qlog.lines[n].of \in Odd
        BY <2>2, <3>1 DEF CleanTo
      <3>3. n \in 1 .. Len(qlog.lines) /\ n < row
        BY <2>1, QlogLengths
      <3> QED BY <3>2, <3>3 DEF LinesOf
    <2> HIDE DEF read, found
    <2>8. found \cap sure = GoodEvents \cap sure
      BY <2>4, <2>5, <2>6
    <2> QED BY <2>4, <2>7, <2>8 DEF SalvageExact, read, found
  <1> QED BY <1>1, QlogInvariant, PTL

\* For every qlog file qlog_analysis_agent (workflow.py) has all events or none,
\* whichever of the three readers of _parse made them and wherever it raised.
THEOREM QlogAllOrNothing == QlogSpec => []AllOrNothing
  <1>1. QlogInv => AllOrNothing
    <2> SUFFICES ASSUME QlogInv PROVE AllOrNothing
      OBVIOUS
    <2>1. /\ Odd = OddOf(qlog) /\ GoodEvents = GoodOf(qlog)
          /\ {r \in 1 .. Len(qlog.records) : qlog.records[r] = "event"} = EventRecords(qlog)
      BY DEF Odd, OddOf, GoodEvents, GoodOf, EventRecords
    <2> QED BY <2>1 DEF QlogInv, AllOrNothing, WholeFile, Salvageable
  <1> QED BY <1>1, QlogInvariant, PTL

==============================================================================
