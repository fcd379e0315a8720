---------------------------- MODULE BackendsProofs ----------------------------
(***************************************************************************)
(* Backends for every batch, every number of threads and every plan that   *)
(* BackendsAssumption allows.  The inductive invariant has four parts: for *)
(* each sample where its agent is and what it has still to try (PlaceInv); *)
(* the JVM's flags (JvmInv); what is on disk (DiskInv); the counts of open *)
(* views (CountInv).                                                       *)
(***************************************************************************)
EXTENDS Backends, FiniteSetTheorems, TLAPS

\* What is left to try: of the loops, and of a with statement.
Three == <<"binary_ninja", "binary_ninja", "ghidra">>
Two == <<"binary_ninja", "ghidra">>
LastGhidra == <<"ghidra">>
OnlyBinja == <<"binary_ninja">>

Lists == {Three, Two, LastGhidra, OnlyBinja, <<>>}

Names == {"binary_ninja", "ghidra"}

GhidraPlaces == {"starting", "flagging", "verify", "prepare", "clean", "load"}
InHand == GhidraPlaces \cup {"opening", "open", "closing", "unwinding"}

LEMMA ListFacts ==
  /\ \A t \in Lists : t \in Seq(Names)
  /\ Fallbacks = Three
  /\ Head(Three) = "binary_ninja" /\ Tail(Three) = Two /\ Len(Three) = 3
  /\ Head(Two) = "binary_ninja" /\ Tail(Two) = LastGhidra /\ Len(Two) = 2
  /\ Head(LastGhidra) = "ghidra" /\ Tail(LastGhidra) = <<>> /\ Len(LastGhidra) = 1
  /\ Head(OnlyBinja) = "binary_ninja" /\ Tail(OnlyBinja) = <<>> /\ Len(OnlyBinja) = 1
  /\ Three # Two /\ Three # LastGhidra /\ Three # OnlyBinja
  /\ Two # LastGhidra /\ Two # OnlyBinja /\ LastGhidra # OnlyBinja
  /\ \A t \in Lists \ {<<>>} : t # <<>>
  <1>1. /\ Three \in Seq(Names) /\ Two \in Seq(Names) /\ LastGhidra \in Seq(Names)
        /\ OnlyBinja \in Seq(Names) /\ <<>> \in Seq(Names)
    BY DEF Three, Two, LastGhidra, OnlyBinja, Names
  <1>2. Len(Three) = 3 /\ Len(Two) = 2 /\ Len(LastGhidra) = 1 /\ Len(OnlyBinja) = 1
    BY DEF Three, Two, LastGhidra, OnlyBinja
  <1>3. /\ Head(Three) = "binary_ninja" /\ Head(Two) = "binary_ninja"
        /\ Head(LastGhidra) = "ghidra" /\ Head(OnlyBinja) = "binary_ninja"
    BY DEF Three, Two, LastGhidra, OnlyBinja
  <1>4. Tail(Three) = Two /\ Tail(Two) = LastGhidra
    BY DEF Three, Two, LastGhidra
  <1>5. Tail(LastGhidra) = <<>> /\ Tail(OnlyBinja) = <<>>
    BY DEF LastGhidra, OnlyBinja
  <1>6. Len(<<>>) = 0
    OBVIOUS
  <1> QED BY <1>1, <1>2, <1>3, <1>4, <1>5, <1>6 DEF Lists, Fallbacks, Three

LEMMA AgentFacts ==
  /\ Len(Agents) \in Nat /\ Len(Agents) >= 1
  /\ \A n \in 1 .. Len(Agents) :
       /\ Agents[n] \in Searching \cup Reopening
       /\ n = 1 => Agents[n] \in Searching
       /\ n # 1 /\ Agents[n] \in Searching => n = Len(Agents) /\ n > 2
  <1>1. Agents \in Seq(Searching \cup Reopening) /\ Agents # <<>>
    BY BackendsAssumption
  <1>2. Len(Agents) \in Nat /\ Len(Agents) >= 1
    BY <1>1
  <1>3. \A n \in 1 .. Len(Agents) : Agents[n] \in Searching \cup Reopening
    BY <1>1
  <1>4. \A n \in 1 .. Len(Agents) :
          /\ n = 1 => Agents[n] \in Searching
          /\ n # 1 /\ Agents[n] \in Searching => n = Len(Agents) /\ n > 2
    BY BackendsAssumption DEF Searching
  <1> QED BY <1>2, <1>3, <1>4

\* --------------------------- places and candidates -------------------------

(***************************************************************************)
(* An agent that has a candidate in hand has one that its loop, or what the*)
(* first agent recorded, gives it; in Ghidra's open() that is Ghidra.      *)
(***************************************************************************)
AgentInv(s) ==
  /\ at[s] = "waiting" <=> agent[s] = 0
  /\ at[s] \in InHand =>
       tries[s] \in IF Agents[agent[s]] \in Searching THEN {Three, Two, LastGhidra}
                    ELSE {OnlyBinja, LastGhidra}
  /\ at[s] \in GhidraPlaces => tries[s] = LastGhidra
  /\ at[s] = "between" \/ agent[s] > 1 => used[s] \in Names

PlaceTypes ==
  /\ agent \in [Samples -> 0 .. Len(Agents)]
  /\ tries \in [Samples -> Lists]
  /\ at \in [Samples -> Places]
  /\ used \in [Samples -> Names \cup {"none"}]
  /\ cleanup \in [Samples -> BOOLEAN]

PlaceInv == PlaceTypes /\ \A s \in Samples : AgentInv(s)

LEMMA EnterPlace ==
  ASSUME PlaceInv, NEW s \in Samples, NEW n \in 1 .. Len(Agents), Enter(s, n),
         (at[s] = "waiting" /\ n = 1) \/ (at[s] = "between" /\ n > agent[s])
  PROVE  PlaceInv'
  <1> USE DEF PlaceInv, PlaceTypes
  <1>1. n > 1 => at[s] = "between" /\ used[s] \in Names
    BY DEF AgentInv
  <1>2. Candidates(s, n) \in IF Agents[n] \in Searching THEN {Three} ELSE {OnlyBinja, LastGhidra}
    BY <1>1, AgentFacts, ListFacts DEF Candidates, Names, OnlyBinja, LastGhidra
  <1>3. PlaceTypes'
    BY <1>2, AgentFacts DEF Enter, Go, Lists, Places
  <1>4. \A r \in Samples : AgentInv(r)'
    BY <1>1, <1>2, AgentFacts DEF Enter, Go, AgentInv, InHand, GhidraPlaces
  <1> QED BY <1>3, <1>4

LEMMA MovePlace ==
  ASSUME PlaceInv, NEW s \in Samples, NEW to \in InHand, at[s] \in InHand, Go(s, to),
         to \in GhidraPlaces => tries[s] = LastGhidra,
         UNCHANGED <<agent, tries, used>>, cleanup' \in [Samples -> BOOLEAN]
  PROVE  PlaceInv'
  BY DEF PlaceInv, PlaceTypes, Go, AgentInv, InHand, GhidraPlaces, Places

LEMMA RaisePlace ==
  ASSUME PlaceInv, NEW s \in Samples, at[s] \in InHand, OpenRaises(s)
  PROVE  PlaceInv'
  <1> USE DEF PlaceInv, PlaceTypes
  <1>1. /\ AgentInv(s)
        /\ tries[s] \in {Three, Two, LastGhidra, OnlyBinja}
        /\ agent[s] \in 1 .. Len(Agents)
    BY AgentFacts DEF AgentInv, InHand, GhidraPlaces
  <1>2. CASE tries[s] \in {Three, Two}
    <2> DEFINE rest == IF tries[s] = Three THEN Two ELSE LastGhidra
    <2>0. Tail(tries[s]) = rest /\ Len(tries[s]) > 1
      <3>1. 3 > 1 /\ 2 > 1
        OBVIOUS
      <3>2. CASE tries[s] = Three
        BY <3>1, <3>2, ListFacts, Zenon
      <3>3. CASE tries[s] = Two
        BY <3>1, <3>3, ListFacts, Zenon
      <3> QED BY <1>2, <3>2, <3>3
    <2>1. /\ tries' = [tries EXCEPT ![s] = rest]
          /\ at' = [at EXCEPT ![s] = "opening"]
          /\ UNCHANGED <<agent, used>>
          /\ cleanup' = [cleanup EXCEPT ![s] = FALSE]
      BY <2>0 DEF OpenRaises, Go
    <2>2. Agents[agent[s]] \in Searching
      BY <1>1, <1>2, ListFacts DEF AgentInv
    <2>3. PlaceTypes'
      BY <2>1 DEF Lists, Places
    <2>4. \A r \in Samples : AgentInv(r)'
      BY <1>2, <2>1, <2>2, ListFacts DEF AgentInv, InHand, GhidraPlaces
    <2> QED BY <2>3, <2>4
  <1>3. CASE tries[s] \in {LastGhidra, OnlyBinja}
    <2>0. Tail(tries[s]) = <<>> /\ ~ Len(tries[s]) > 1
      BY <1>3, ListFacts
    <2>1. /\ tries' = [tries EXCEPT ![s] = <<>>]
          /\ at' = [at EXCEPT ![s] = IF agent[s] = 1 THEN "over" ELSE "between"]
          /\ UNCHANGED <<agent, used>>
          /\ cleanup' = [cleanup EXCEPT ![s] = FALSE]
      BY <2>0 DEF OpenRaises, Go, GiveUp
    <2>2. PlaceTypes'
      BY <2>1 DEF Lists, Places
    <2>3. agent[s] # 1 => used[s] \in Names
      BY <1>1 DEF AgentInv
    <2>4. \A r \in Samples : AgentInv(r)'
      BY <1>1, <2>1, <2>3 DEF AgentInv, InHand, GhidraPlaces
    <2> QED BY <2>2, <2>4
  <1> QED BY <1>1, <1>2, <1>3

LEMMA ClosePlace ==
  ASSUME PlaceInv, NEW s \in Samples, at[s] \in {"closing", "unwinding"}, Closed(s)
  PROVE  PlaceInv'
  <1> USE DEF PlaceInv, PlaceTypes
  <1>1. Head(tries[s]) \in Names
    BY ListFacts DEF AgentInv, InHand, Names
  <1>2. PlaceTypes'
    BY <1>1 DEF Closed, Go, GiveUp, Places, Lists
  <1>3. agent[s] \in Nat /\ agent[s] # 0
    BY DEF AgentInv
  <1>4. \A r \in Samples : AgentInv(r)'
    BY <1>1, <1>3 DEF Closed, Go, GiveUp, AgentInv, InHand, GhidraPlaces
  <1> QED BY <1>2, <1>4

LEMMA LeavePlace ==
  ASSUME PlaceInv, NEW s \in Samples, Leave(s)
  PROVE  PlaceInv'
  BY DEF PlaceInv, PlaceTypes, Leave, Go, AgentInv, InHand, GhidraPlaces, Places

LEMMA PlaceInit == Init => PlaceInv
  BY AgentFacts DEF Init, PlaceInv, PlaceTypes, AgentInv, InHand, GhidraPlaces, Lists, Places

\* The candidate that is being opened, and closed, is one.
LEMMA HeadFacts ==
  ASSUME PlaceInv, NEW s \in Samples, at[s] \in InHand
  PROVE  /\ agent[s] \in 1 .. Len(Agents)
         /\ tries[s] \in {Three, Two, LastGhidra, OnlyBinja}
         /\ Head(tries[s]) = "ghidra" <=> tries[s] = LastGhidra
         /\ Head(tries[s]) = "binary_ninja" <=> tries[s] # LastGhidra
  <1>1. /\ agent[s] \in 1 .. Len(Agents)
        /\ tries[s] \in {Three, Two, LastGhidra, OnlyBinja}
    BY AgentFacts DEF PlaceInv, PlaceTypes, AgentInv, InHand, GhidraPlaces
  <1> QED BY <1>1, ListFacts

LEMMA PlaceStep ==
  ASSUME PlaceInv, NEW s \in Samples, Step(s)
  PROVE  PlaceInv'
  <1> USE DEF InHand, GhidraPlaces
  <1>1. CASE Begin(s)
    BY <1>1, AgentFacts, EnterPlace DEF Begin
  <1>2. CASE NextAgent(s)
    <2>1. PICK n \in agent[s] + 1 .. Len(Agents) : Enter(s, n)
      BY <1>2 DEF NextAgent
    <2>2. n \in 1 .. Len(Agents) /\ n > agent[s]
      BY AgentFacts DEF PlaceInv, PlaceTypes
    <2> QED BY <1>2, <2>1, <2>2, EnterPlace DEF NextAgent
  <1>3. CASE Leave(s)
    BY <1>3, LeavePlace
  <1>4. CASE BinjaMissing(s)
    BY <1>4, RaisePlace DEF BinjaMissing, Opening
  <1>5. CASE OpenBinja(s)
    <2>1. CASE OpenRaises(s)
      BY <1>5, <2>1, RaisePlace DEF OpenBinja, Opening
    <2>2. CASE Go(s, "open") /\ UNCHANGED <<agent, tries, used, cleanup>>
      BY <1>5, <2>2, MovePlace DEF OpenBinja, Opening, PlaceInv, PlaceTypes
    <2> QED BY <1>5, <2>1, <2>2 DEF OpenBinja
  <1>6. CASE EnsureGhidra(s)
    <2>1. CASE OpenRaises(s)
      BY <1>6, <2>1, RaisePlace DEF EnsureGhidra, Opening
    <2>2. CASE /\ Go(s, IF available THEN "prepare" ELSE IF started THEN "verify" ELSE "starting")
               /\ UNCHANGED <<agent, tries, used, cleanup>>
      <3>1. tries[s] = LastGhidra /\ at[s] \in InHand
        BY <1>6, HeadFacts DEF EnsureGhidra, Opening
      <3>2. PICK to \in {"prepare", "verify", "starting"} : Go(s, to)
        BY <2>2
      <3> QED BY <2>2, <3>1, <3>2, MovePlace DEF PlaceInv, PlaceTypes
    <2> QED BY <1>6, <2>1, <2>2 DEF EnsureGhidra
  <1>7. CASE StartJvm(s)
    <2>1. tries[s] = LastGhidra
      BY <1>7 DEF StartJvm, PlaceInv, AgentInv
    <2>2. CASE OpenRaises(s)
      BY <1>7, <2>2, RaisePlace DEF StartJvm
    <2>3. CASE Go(s, "flagging") /\ UNCHANGED <<agent, tries, used, cleanup>>
      BY <1>7, <2>1, <2>3, MovePlace DEF StartJvm, PlaceInv, PlaceTypes
    <2> QED BY <1>7, <2>2, <2>3 DEF StartJvm
  <1>8. CASE MarkStarted(s)
    BY <1>8, MovePlace DEF MarkStarted, PlaceInv, PlaceTypes, AgentInv
  <1>9. CASE MarkAvailable(s)
    BY <1>9, MovePlace DEF MarkAvailable, PlaceInv, PlaceTypes, AgentInv
  <1>10. CASE Prepare(s)
    <2>1. cleanup' \in [Samples -> BOOLEAN]
      BY <1>10 DEF Prepare, PlaceInv, PlaceTypes
    <2> QED BY <1>10, <2>1, MovePlace DEF Prepare, PlaceInv, AgentInv
  <1>11. CASE Clean(s)
    BY <1>11, MovePlace DEF Clean, PlaceInv, PlaceTypes, AgentInv
  <1>12. CASE Load(s)
    <2>1. CASE OpenRaises(s)
      BY <1>12, <2>1, RaisePlace DEF Load
    <2>2. CASE Go(s, "open") /\ UNCHANGED <<agent, tries, used, cleanup>>
      BY <1>12, <2>2, MovePlace DEF Load, PlaceInv, PlaceTypes
    <2> QED BY <1>12, <2>1, <2>2 DEF Load
  <1>13. CASE Use(s)
    BY <1>13, MovePlace DEF Use, PlaceInv, PlaceTypes
  <1>14. CASE CloseBinja(s) \/ CloseGhidra(s)
    BY <1>14, ClosePlace DEF CloseBinja, CloseGhidra, Closing
  <1> QED BY <1>1, <1>2, <1>3, <1>4, <1>5, <1>6, <1>7, <1>8, <1>9, <1>10, <1>11, <1>12,
             <1>13, <1>14 DEF Step, OpenStep

\* --------------------------------- the JVM ---------------------------------

JvmTypes ==
  /\ installed \subseteq Names
  /\ workers \in Parallelisms
  /\ binja \in {"unknown", "yes", "no"}
  /\ {started, available, jvm} \subseteq BOOLEAN

JvmInv == JvmTypes /\ JvmBeforeUse

LEMMA JvmInit == Init => JvmInv
  BY DEF Init, JvmInv, JvmTypes, JvmBeforeUse, HasGhidra, Names

LEMMA JvmStep ==
  ASSUME PlaceInv, JvmInv, NEW s \in Samples, Step(s)
  PROVE  JvmInv'
  <1> USE DEF JvmInv, JvmTypes, JvmBeforeUse, HasGhidra, PlaceInv, PlaceTypes
  <1>1. CASE Begin(s)
    BY <1>1 DEF Begin, Enter, Go, globals
  <1>2. CASE NextAgent(s)
    BY <1>2 DEF NextAgent, Enter, Go, globals
  <1>3. CASE Leave(s)
    BY <1>3 DEF Leave, Go, globals
  <1>4. CASE BinjaMissing(s)
    BY <1>4 DEF BinjaMissing, OpenRaises, GiveUp, Go
  <1>5. CASE OpenBinja(s)
    <2>1. CASE OpenRaises(s)
      BY <1>5, <2>1 DEF OpenBinja, OpenRaises, GiveUp, Go
    <2>2. CASE Go(s, "open") /\ UNCHANGED <<installed, workers, tries>>
      BY <1>5, <2>2 DEF OpenBinja, Opening, Go
    <2> QED BY <1>5, <2>1, <2>2 DEF OpenBinja
  <1>6. CASE EnsureGhidra(s)
    <2>1. CASE OpenRaises(s)
      BY <1>6, <2>1 DEF EnsureGhidra, OpenRaises, GiveUp, Go, globals
    <2>2. CASE ~ OpenRaises(s)
      BY <1>6, <2>2 DEF EnsureGhidra, Go, globals
    <2> QED BY <2>1, <2>2
  <1>7. CASE StartJvm(s)
    <2>1. CASE OpenRaises(s)
      BY <1>7, <2>1 DEF StartJvm, OpenRaises, GiveUp, Go
    <2>2. CASE ~ OpenRaises(s)
      BY <1>7, <2>2 DEF StartJvm, Go
    <2> QED BY <2>1, <2>2
  <1>8. CASE MarkStarted(s)
    BY <1>8 DEF MarkStarted, Go
  <1>9. CASE MarkAvailable(s)
    BY <1>9 DEF MarkAvailable, Go
  <1>10. CASE Prepare(s)
    BY <1>10 DEF Prepare, Go, globals
  <1>11. CASE Clean(s)
    BY <1>11 DEF Clean, Go, globals
  <1>12. CASE Load(s)
    <2>1. CASE OpenRaises(s)
      BY <1>12, <2>1 DEF Load, OpenRaises, GiveUp, Go, globals
    <2>2. CASE ~ OpenRaises(s)
      BY <1>12, <2>2 DEF Load, Go, globals
    <2> QED BY <2>1, <2>2
  <1>13. CASE Use(s)
    BY <1>13 DEF Use, Go, globals
  <1>14. CASE CloseBinja(s) \/ CloseGhidra(s)
    BY <1>14 DEF CloseBinja, CloseGhidra, Closed, GiveUp, Go, globals
  <1> QED BY <1>1, <1>2, <1>3, <1>4, <1>5, <1>6, <1>7, <1>8, <1>9, <1>10, <1>11, <1>12,
             <1>13, <1>14 DEF Step, OpenStep

\* ---------------------------------- disk -----------------------------------

\* An agent works on a thin binary from _prepare_binary to the end of Ghidra.
CleanupInv == \A s \in Samples : cleanup[s] => at[s] \in {"clean", "load"} \/ HasGhidra(s)

DiskTypes == thin \subseteq Stems /\ leaked \subseteq thin /\ intact \subseteq Samples

Active(s) == at[s] \notin {"waiting", "over"}

OneAtATime == workers <= 1 => \A r, s \in Samples : Active(r) /\ Active(s) => r = s

\* No other sample comes near what s has on disk.
Alone(s) == workers <= 1 \/ \A r \in Samples \ {s} : Stem[r] # Stem[s]

AloneUndisturbed == \A s \in Samples : Alone(s) => Undisturbed(s)

DiskInv == DiskTypes /\ CleanupInv /\ ThinFilesAccounted /\ OneAtATime /\ AloneUndisturbed

LEMMA DiskInit == Init => DiskInv
  BY DEF Init, DiskInv, DiskTypes, CleanupInv, ThinFilesAccounted, OneAtATime, Active,
         AloneUndisturbed, Undisturbed, HasGhidra, memory, globals, disk, place

LEMMA DiskTypesStep ==
  ASSUME PlaceInv, DiskTypes, NEW s \in Samples, Step(s)
  PROVE  DiskTypes'
  BY DEF PlaceInv, PlaceTypes, DiskTypes, Step, OpenStep, Begin, NextAgent, Enter, Leave,
         BinjaMissing, OpenBinja, EnsureGhidra, StartJvm, MarkStarted, MarkAvailable, Prepare,
         Clean, Load, Use, CloseBinja, CloseGhidra, disk, Stems

LEMMA CleanupStep ==
  ASSUME PlaceInv, CleanupInv, NEW s \in Samples, Step(s)
  PROVE  CleanupInv'
  <1> USE DEF PlaceInv, PlaceTypes, CleanupInv, HasGhidra
  <1>1. CASE Begin(s) \/ NextAgent(s)
    BY <1>1 DEF Begin, NextAgent, Enter, Go
  <1>2. CASE Leave(s)
    BY <1>2 DEF Leave, Go
  <1>3. CASE OpenRaises(s)
    BY <1>3 DEF OpenRaises, GiveUp, Go
  <1>4. CASE OpenBinja(s) /\ ~ OpenRaises(s)
    BY <1>4 DEF OpenBinja, Opening, Go
  <1>5. CASE EnsureGhidra(s) /\ ~ OpenRaises(s)
    BY <1>5 DEF EnsureGhidra, Opening, Go
  <1>6. CASE (StartJvm(s) /\ ~ OpenRaises(s)) \/ MarkStarted(s) \/ MarkAvailable(s)
    BY <1>6 DEF StartJvm, MarkStarted, MarkAvailable, Go
  <1>7. CASE Prepare(s) \/ Clean(s)
    BY <1>7 DEF Prepare, Clean, Go
  <1>8. CASE Load(s) /\ ~ OpenRaises(s)
    <2>1. Head(tries[s]) = "ghidra"
      BY <1>8, HeadFacts DEF Load, AgentInv, InHand, GhidraPlaces
    <2> QED BY <1>8, <2>1 DEF Load, Go
  <1>9. CASE Use(s)
    BY <1>9 DEF Use, Go
  <1>10. CASE CloseBinja(s) \/ CloseGhidra(s)
    BY <1>10 DEF CloseBinja, CloseGhidra, Closed, GiveUp, Go
  <1> QED BY <1>1, <1>2, <1>3, <1>4, <1>5, <1>6, <1>7, <1>8, <1>9, <1>10
      DEF Step, OpenStep, BinjaMissing

\* Whose thin binary is there: the step of s leaves those of the others.
LEMMA ThinStep ==
  ASSUME PlaceInv, DiskTypes, CleanupInv, ThinFilesAccounted, NEW s \in Samples, Step(s)
  PROVE  ThinFilesAccounted'
  <1> USE DEF PlaceInv, PlaceTypes, DiskTypes, CleanupInv, ThinFilesAccounted
  <1>1. CASE Begin(s) \/ NextAgent(s) \/ Leave(s) \/ Use(s) \/ Clean(s)
    BY <1>1 DEF Begin, NextAgent, Enter, Leave, Use, Clean, disk
  <1>2. CASE BinjaMissing(s) \/ OpenBinja(s) \/ EnsureGhidra(s) \/ StartJvm(s)
             \/ MarkStarted(s) \/ MarkAvailable(s)
    <2>1. ~ cleanup[s]
      BY <1>2 DEF BinjaMissing, OpenBinja, EnsureGhidra, StartJvm, MarkStarted, MarkAvailable,
                  Opening, HasGhidra
    <2>2. UNCHANGED disk /\ cleanup' = cleanup
      BY <1>2, <2>1, ZenonT(30) DEF BinjaMissing, OpenBinja, EnsureGhidra, StartJvm, MarkStarted,
                        MarkAvailable, OpenRaises, disk
    <2> QED BY <2>2 DEF disk
  <1>3. CASE Prepare(s)
    <2>1. ~ cleanup[s]
      BY <1>3 DEF Prepare, HasGhidra
    <2> QED BY <1>3, <2>1 DEF Prepare
  <1>4. CASE Load(s)
    <2>1. CASE ~ OpenRaises(s)
      BY <1>4, <2>1 DEF Load
    <2>2. CASE OpenRaises(s)
      <3>1. /\ cleanup' = [cleanup EXCEPT ![s] = FALSE] /\ thin' = thin
            /\ leaked \subseteq leaked'
            /\ cleanup[s] /\ Stem[s] \in thin => Stem[s] \in leaked'
        BY <1>4, <2>2 DEF Load, OpenRaises
      <3>2. ASSUME NEW x \in thin, x \notin leaked'
            PROVE  \E r \in Samples : cleanup'[r] /\ x = Stem[r]
        <4>1. PICK r \in Samples : cleanup[r] /\ x = Stem[r]
          BY <3>1, <3>2
        <4>2. r # s
          BY <3>1, <3>2, <4>1
        <4> QED BY <3>1, <4>1, <4>2
      <3> QED BY <3>1, <3>2
    <2> QED BY <2>1, <2>2
  <1>5. CASE CloseBinja(s)
    <2>1. ~ cleanup[s]
      BY <1>5 DEF CloseBinja, Closing, HasGhidra
    <2> QED BY <1>5, <2>1 DEF CloseBinja, Closed, disk
  <1>6. CASE CloseGhidra(s)
    BY <1>6 DEF CloseGhidra, Closed
  <1> QED BY <1>1, <1>2, <1>3, <1>4, <1>5, <1>6 DEF Step, OpenStep

\* What the step of s cannot change of another sample.
LEMMA Footprint ==
  ASSUME PlaceInv, NEW s \in Samples, Step(s), NEW r \in Samples \ {s}
  PROVE  /\ at'[r] = at[r] /\ tries'[r] = tries[r] /\ cleanup'[r] = cleanup[r]
         /\ Stem[r] # Stem[s] =>
              /\ r \in intact => r \in intact'
              /\ Stem[r] \in thin => Stem[r] \in thin'
  <1> USE DEF PlaceInv, PlaceTypes
  <1>1. at'[r] = at[r] /\ tries'[r] = tries[r] /\ cleanup'[r] = cleanup[r]
    BY DEF Step, OpenStep, Begin, NextAgent, Enter, Leave, BinjaMissing, OpenBinja,
           EnsureGhidra, StartJvm, MarkStarted, MarkAvailable, Prepare, Clean, Load, Use,
           CloseBinja, CloseGhidra, OpenRaises, Closed, GiveUp, Go
  <1>2. Stem[r] # Stem[s] => (r \in intact => r \in intact') /\ (Stem[r] \in thin => Stem[r] \in thin')
    BY DEF Step, OpenStep, Begin, NextAgent, Enter, Leave, BinjaMissing, OpenBinja,
           EnsureGhidra, StartJvm, MarkStarted, MarkAvailable, Prepare, Clean, Load, Use,
           CloseBinja, CloseGhidra, SameProject, disk
  <1> QED BY <1>1, <1>2

LEMMA OneStep ==
  ASSUME PlaceInv, JvmTypes, OneAtATime, NEW s \in Samples, Step(s)
  PROVE  OneAtATime'
  <1> USE DEF PlaceInv, PlaceTypes
  <1>1. workers' = workers /\ workers \in Nat
    BY BackendsAssumption
    DEF JvmTypes, Step, OpenStep, Begin, NextAgent, Enter, Leave, BinjaMissing, OpenBinja,
        EnsureGhidra, StartJvm, MarkStarted, MarkAvailable, Prepare, Clean, Load, Use,
        CloseBinja, CloseGhidra, OpenRaises, Closed
  <1>2. \A r \in Samples \ {s} : at'[r] = at[r]
    BY Footprint
  <1>3. CASE Begin(s) /\ workers <= 1
    <2> DEFINE busy == {r \in Samples : at[r] \notin {"waiting", "over"}}
    <2>1. IsFiniteSet(busy)
      BY BackendsAssumption, FS_Subset
    <2>2. Cardinality(busy) \in Nat /\ Cardinality(busy) < workers
      BY <1>3, <2>1, FS_CardinalityType DEF Begin
    <2>3. Cardinality(busy) = 0
      BY <1>1, <1>3, <2>2
    <2>4. busy = {}
      BY <2>1, <2>3, FS_EmptySet
    <2>5. \A r \in Samples : ~ Active(r)
      BY <2>4 DEF Active
    <2> QED BY <1>2, <2>5 DEF OneAtATime, Active
  <1>4. CASE ~ Begin(s)
    <2>1. Active(s)
      BY <1>4 DEF Active, Step, OpenStep, NextAgent, Leave, BinjaMissing, OpenBinja,
             EnsureGhidra, StartJvm, MarkStarted, MarkAvailable, Prepare, Clean, Load, Use,
             CloseBinja, CloseGhidra, Closing, Opening
    <2> QED BY <1>1, <1>2, <2>1 DEF OneAtATime, Active
  <1> QED BY <1>1, <1>3, <1>4 DEF OneAtATime

\* A sample that shares no files with another finds its own where it left them.
LEMMA UndisturbedStep ==
  ASSUME PlaceInv, JvmTypes, DiskInv, NEW s \in Samples, Step(s)
  PROVE  AloneUndisturbed'
  <1> USE DEF PlaceInv, PlaceTypes, HasGhidra
  <1>0. workers' = workers
    BY DEF Step, OpenStep, Begin, NextAgent, Enter, Leave, BinjaMissing, OpenBinja,
        EnsureGhidra, StartJvm, MarkStarted, MarkAvailable, Prepare, Clean, Load, Use,
        CloseBinja, CloseGhidra, OpenRaises, Closed
  <1>1. ASSUME NEW r \in Samples \ {s}, Alone(r) PROVE Undisturbed(r)'
    <2>1. Undisturbed(r)
      BY <1>1 DEF DiskInv, AloneUndisturbed
    <2>2. CASE Stem[r] # Stem[s]
      BY <2>1, <2>2, Footprint DEF Undisturbed
    <2>3. CASE Active(r) /\ workers <= 1
      <3>1. ~ Active(s)
        BY <2>3 DEF DiskInv, OneAtATime
      <3>2. Begin(s)
        BY <3>1 DEF Active, Step, OpenStep, NextAgent, Leave, BinjaMissing, OpenBinja,
             EnsureGhidra, StartJvm, MarkStarted, MarkAvailable, Prepare, Clean, Load, Use,
             CloseBinja, CloseGhidra, Closing, Opening
      <3>3. UNCHANGED disk
        BY <3>2 DEF Begin, Enter
      <3> QED BY <2>1, <3>3, Footprint DEF Undisturbed, disk
    <2>4. CASE ~ Active(r)
      <3>1. at'[r] = at[r] /\ cleanup'[r] = cleanup[r] /\ ~ cleanup[r]
        BY <2>4, Footprint DEF DiskInv, CleanupInv, Active
      <3> QED BY <2>4, <3>1 DEF Undisturbed, Active
    <2> QED BY <1>1, <2>2, <2>3, <2>4 DEF Alone
  <1>2. ASSUME Undisturbed(s) PROVE Undisturbed(s)'
    <2> USE <1>2 DEF Undisturbed, DiskInv, CleanupInv
    <2>1. CASE Begin(s) \/ NextAgent(s) \/ Leave(s) \/ Use(s)
      BY <2>1 DEF Begin, NextAgent, Enter, Leave, Use, Go, disk
    <2>2. CASE BinjaMissing(s) \/ EnsureGhidra(s) \/ StartJvm(s) \/ MarkStarted(s)
               \/ MarkAvailable(s)
      BY <2>2 DEF BinjaMissing, EnsureGhidra, StartJvm, MarkStarted, MarkAvailable, OpenRaises,
                  GiveUp, Go, disk
    <2>3. CASE OpenBinja(s)
      BY <2>3 DEF OpenBinja, Opening, OpenRaises, GiveUp, Go, disk
    <2>4. CASE Prepare(s) \/ Clean(s)
      BY <2>4 DEF Prepare, Clean, Go
    <2>5. CASE Load(s)
      BY <2>5 DEF Load, OpenRaises, GiveUp, Go
    <2>6. CASE CloseBinja(s) \/ CloseGhidra(s)
      BY <2>6 DEF CloseBinja, CloseGhidra, Closed, GiveUp, Go
    <2> QED BY <2>1, <2>2, <2>3, <2>4, <2>5, <2>6 DEF Step, OpenStep
  <1>3. \A r \in Samples : Alone(r)' => Alone(r)
    BY <1>0 DEF Alone
  <1> QED BY <1>1, <1>2, <1>3 DEF AloneUndisturbed, DiskInv

LEMMA DiskStep ==
  ASSUME PlaceInv, JvmTypes, DiskInv, NEW s \in Samples, Step(s)
  PROVE  DiskInv'
  BY DiskTypesStep, CleanupStep, ThinStep, OneStep, UndisturbedStep DEF DiskInv

\* ------------------------------- open views --------------------------------

Balanced(s) ==
  /\ HasView(s) => views[s] = halfOpen[s] + 1
  /\ ~ HasView(s) => views[s] = halfOpen[s]

ViewsInv ==
  /\ views \in [Samples -> Nat] /\ halfOpen \in [Samples -> Nat]
  /\ \A s \in Samples : Balanced(s)

\* Only s changes, and its views are balanced again.
LEMMA ViewsFrame ==
  ASSUME ViewsInv, NEW s \in Samples, Balanced(s)',
         views' \in [Samples -> Nat], halfOpen' \in [Samples -> Nat],
         \A r \in Samples \ {s} : /\ views'[r] = views[r] /\ halfOpen'[r] = halfOpen[r]
                                  /\ at'[r] = at[r] /\ tries'[r] = tries[r]
  PROVE  ViewsInv'
  <1>1. \A r \in Samples \ {s} : Balanced(r)'
    BY DEF ViewsInv, Balanced, HasView
  <1> QED BY <1>1 DEF ViewsInv

LEMMA ViewsInit == Init => ViewsInv
  BY DEF Init, ViewsInv, Balanced, HasView, memory

LEMMA ViewsStep ==
  ASSUME PlaceInv, ViewsInv, NEW s \in Samples, Step(s)
  PROVE  ViewsInv'
  <1> USE DEF PlaceInv, PlaceTypes, ViewsInv, Balanced, HasView
  <1>1. CASE Begin(s) \/ NextAgent(s) \/ Leave(s)
    BY <1>1 DEF Begin, NextAgent, Enter, Leave, Go, memory
  <1>2. CASE BinjaMissing(s)
    BY <1>2 DEF BinjaMissing, Opening, OpenRaises, GiveUp, Go, memory
  <1>3. CASE OpenBinja(s)
    <2>1. CASE OpenRaises(s) /\ UNCHANGED memory
      BY <1>3, <2>1 DEF OpenBinja, Opening, OpenRaises, GiveUp, Go, memory
    <2>2. CASE /\ OpenRaises(s)
               /\ views' = [views EXCEPT ![s] = @ + 1]
               /\ halfOpen' = [halfOpen EXCEPT ![s] = @ + 1]
      <3>1. at[s] = "opening" /\ views[s] = halfOpen[s] /\ views[s] \in Nat
        BY <1>3 DEF OpenBinja, Opening
      <3>2. PICK n \in Nat : n = views[s] /\ n = halfOpen[s]
        BY <3>1
      <3>3. views' = [views EXCEPT ![s] = n + 1] /\ halfOpen' = [halfOpen EXCEPT ![s] = n + 1]
        BY <2>2, <3>2
      <3>4. at'[s] \in {"opening", "over", "between"}
        BY <2>2 DEF OpenRaises, GiveUp, Go
      <3>5. \A r \in Samples \ {s} : at'[r] = at[r] /\ tries'[r] = tries[r]
        BY <2>2 DEF OpenRaises, GiveUp, Go
      <3>6. Balanced(s)'
        BY <3>3, <3>4
      <3> QED BY <3>3, <3>5, <3>6, ViewsFrame
    <2>3. CASE /\ Go(s, "open")
               /\ views' = [views EXCEPT ![s] = @ + 1]
               /\ UNCHANGED <<tries, halfOpen>>
      BY <1>3, <2>3 DEF OpenBinja, Opening, Go
    <2> QED BY <1>3, <2>1, <2>2, <2>3 DEF OpenBinja
  <1>4. CASE EnsureGhidra(s) \/ StartJvm(s) \/ MarkStarted(s) \/ MarkAvailable(s)
             \/ Prepare(s) \/ Clean(s)
    BY <1>4, ZenonT(30) DEF EnsureGhidra, Opening, StartJvm, MarkStarted, MarkAvailable, Prepare, Clean,
                OpenRaises, GiveUp, Go, memory
  <1>5. CASE Load(s)
    <2>1. Head(tries[s]) = "ghidra" /\ UNCHANGED memory /\ at[s] = "load"
      BY <1>5, HeadFacts DEF Load, AgentInv, InHand, GhidraPlaces
    <2>2. CASE OpenRaises(s)
      BY <2>1, <2>2 DEF OpenRaises, GiveUp, Go, memory
    <2>3. CASE Go(s, "open") /\ UNCHANGED tries
      BY <2>1, <2>3 DEF Go, memory
    <2> QED BY <1>5, <2>2, <2>3 DEF Load
  <1>6. CASE Use(s)
    BY <1>6 DEF Use, Go, memory
  <1>7. CASE CloseBinja(s)
    <2>1. views[s] = halfOpen[s] + 1
      BY <1>7 DEF CloseBinja, Closing
    <2>2. PICK n \in Nat : n = halfOpen[s]
      OBVIOUS
    <2>3. views[s] - 1 = n
      BY <2>1, <2>2
    <2>4. views' = [views EXCEPT ![s] = n] /\ halfOpen' = halfOpen
      <3>1. views' = [views EXCEPT ![s] = views[s] - 1] /\ halfOpen' = halfOpen
        BY <1>7 DEF CloseBinja
      <3> QED BY <2>3, <3>1, Zenon
    <2>5. \A r \in Samples \ {s} : at'[r] = at[r] /\ tries'[r] = tries[r]
      BY <1>7 DEF CloseBinja, Closed, GiveUp, Go
    <2>6. at'[s] \in {"between", "over"}
      BY <1>7 DEF CloseBinja, Closed, GiveUp, Go
    <2>7. Balanced(s)'
      BY <2>2, <2>4, <2>6
    <2> QED BY <2>4, <2>5, <2>7, ViewsFrame
  <1>8. CASE CloseGhidra(s)
    <2>1. at'[s] \in {"between", "over"} /\ ~ HasView(s)
      BY <1>8 DEF CloseGhidra, Closing, Closed, GiveUp, Go
    <2> QED BY <1>8, <2>1 DEF CloseGhidra, Closed, GiveUp, Go, memory
  <1> QED BY <1>1, <1>2, <1>3, <1>4, <1>5, <1>6, <1>7, <1>8 DEF Step, OpenStep

(***************************************************************************)
(* What the agents so far, and the one in hand, may have left half open.   *)
(***************************************************************************)
HalvesInv(s) ==
  LET raised == IF tries[s] = Three THEN 0 ELSE IF tries[s] = Two THEN 1 ELSE 2
      searches == Agents[agent[s]] \in Searching
  IN  /\ at[s] = "waiting" => halfOpen[s] = 0
      /\ at[s] \in InHand /\ agent[s] = 1 => halfOpen[s] <= raised
      /\ at[s] \in InHand /\ agent[s] # 1 /\ searches => halfOpen[s] + 1 <= agent[s] + raised
      /\ at[s] \in InHand /\ ~ searches =>
           /\ halfOpen[s] <= agent[s]
           /\ tries[s] = OnlyBinja => halfOpen[s] + 1 <= agent[s]
      /\ at[s] = "between" /\ agent[s] = 1 =>
           halfOpen[s] <= 2 /\ (used[s] = "binary_ninja" => halfOpen[s] <= 1)
      /\ at[s] = "between" /\ agent[s] # 1 =>
           halfOpen[s] <= agent[s] + 1 /\ (~ searches => halfOpen[s] <= agent[s])
      /\ halfOpen[s] <= Len(Agents) + 1

CountInv == ViewsInv /\ \A s \in Samples : HalvesInv(s)

\* Nothing that HalvesInv reads of r changes.
LEMMA HalvesFrame ==
  ASSUME NEW r \in Samples, HalvesInv(r),
         at'[r] = at[r], agent'[r] = agent[r], tries'[r] = tries[r], used'[r] = used[r],
         halfOpen'[r] = halfOpen[r]
  PROVE  HalvesInv(r)'
  BY DEF HalvesInv

LEMMA EnterHalves ==
  ASSUME PlaceInv, ViewsInv, NEW s \in Samples, HalvesInv(s),
         NEW n \in 1 .. Len(Agents), Enter(s, n),
         (at[s] = "waiting" /\ n = 1) \/ (at[s] = "between" /\ n > agent[s])
  PROVE  HalvesInv(s)'
  <1> USE DEF PlaceInv, PlaceTypes
  <1>1. PICK h \in Nat, a \in 0 .. Len(Agents) : h = halfOpen[s] /\ a = agent[s]
    BY DEF ViewsInv
  <1>2. Len(Agents) \in Nat /\ n \in Nat /\ a \in Nat
    BY AgentFacts
  <1>3. /\ at'[s] = "opening" /\ agent'[s] = n /\ tries'[s] = Candidates(s, n)
        /\ halfOpen'[s] = h /\ h <= Len(Agents) + 1
    BY <1>1 DEF Enter, Go, memory, HalvesInv, Candidates, Lists
  <1>4. CASE n = 1
    <2>1. h = 0
      BY <1>1, <1>2, <1>4 DEF HalvesInv, AgentInv
    <2>2. tries'[s] = Three /\ Agents[n] \in Searching
      BY <1>3, <1>4, AgentFacts, ListFacts DEF Candidates
    <2> QED BY <1>2, <1>3, <1>4, <2>1, <2>2 DEF HalvesInv, InHand
  <1>5. CASE n # 1
    <2>1. at[s] = "between" /\ a < n /\ a >= 1 /\ used[s] \in Names
      BY <1>1, <1>2, <1>5 DEF AgentInv
    <2>2. /\ a = 1 => h <= 2 /\ (used[s] = "binary_ninja" => h <= 1)
          /\ a # 1 => h <= a + 1 /\ (Agents[a] \notin Searching => h <= a)
      BY <1>1, <2>1 DEF HalvesInv
    <2>3. a # 1 => Agents[a] \notin Searching
      BY <1>2, <2>1, AgentFacts
    <2>4. CASE Agents[n] \in Searching
      <3>1. tries'[s] = Three /\ n > 2
        BY <1>3, <1>5, <2>4, AgentFacts, ListFacts DEF Candidates
      <3>2. h + 1 <= n
        BY <1>2, <2>1, <2>2, <2>3, <3>1
      <3> QED BY <1>2, <1>3, <1>5, <2>4, <3>1, <3>2, ListFacts DEF HalvesInv, InHand
    <2>5. CASE Agents[n] \notin Searching
      <3>1. tries'[s] = <<used[s]>>
        BY <1>3, <2>5 DEF Candidates
      <3>2. h <= n
        BY <1>2, <2>1, <2>2, <2>3
      <3>3. used[s] = "binary_ninja" => h + 1 <= n
        BY <1>2, <2>1, <2>2, <2>3
      <3>4. tries'[s] = OnlyBinja => used[s] = "binary_ninja"
        BY <2>1, <3>1, ListFacts DEF OnlyBinja, LastGhidra, Names
      <3> QED BY <1>2, <1>3, <1>5, <2>5, <3>2, <3>3, <3>4 DEF HalvesInv, InHand
    <2> QED BY <2>4, <2>5
  <1> QED BY <1>4, <1>5

LEMMA MoveHalves ==
  ASSUME PlaceInv, NEW s \in Samples, HalvesInv(s), at[s] \in InHand, at'[s] \in InHand,
         UNCHANGED <<agent, tries, halfOpen>>
  PROVE  HalvesInv(s)'
  BY DEF HalvesInv, InHand, GhidraPlaces

\* The candidate in hand is dropped, a view of it being left only if it was
\* Binary Ninja.
LEMMA RaiseHalves ==
  ASSUME PlaceInv, ViewsInv, NEW s \in Samples, HalvesInv(s), at[s] \in InHand, OpenRaises(s),
         \/ UNCHANGED halfOpen
         \/ halfOpen' = [halfOpen EXCEPT ![s] = halfOpen[s] + 1] /\ tries[s] # LastGhidra
  PROVE  HalvesInv(s)'
  <1> USE DEF PlaceInv, PlaceTypes
  <1>1. PICK h \in Nat, a \in 0 .. Len(Agents) : h = halfOpen[s] /\ a = agent[s]
    BY DEF ViewsInv
  <1>2. /\ Len(Agents) \in Nat /\ a \in 1 .. Len(Agents)
        /\ tries[s] \in {Three, Two, LastGhidra, OnlyBinja}
    BY <1>1, HeadFacts, AgentFacts
  <1>3. PICK d \in {0, 1} : halfOpen'[s] = h + d /\ (d = 1 => tries[s] # LastGhidra)
    BY <1>1 DEF ViewsInv
  <1>0. agent'[s] = a /\ used'[s] = used[s]
    BY <1>1 DEF OpenRaises
  <1>4. CASE tries[s] \in {Three, Two}
    <2>1. tries'[s] = (IF tries[s] = Three THEN Two ELSE LastGhidra) /\ at'[s] = "opening"
      <3>1. 3 > 1 /\ 2 > 1
        OBVIOUS
      <3>2. CASE tries[s] = Three
        BY <3>1, <3>2, ListFacts DEF OpenRaises, Go
      <3>3. CASE tries[s] = Two
        BY <3>1, <3>3, ListFacts DEF OpenRaises, Go
      <3> QED BY <1>4, <3>2, <3>3
    <2>2. Agents[a] \in Searching
      BY <1>1, <1>4, ListFacts DEF AgentInv
    <2>3. a # 1 => a = Len(Agents)
      BY <1>2, <2>2, AgentFacts
    <2>4. /\ a = 1 => h <= IF tries[s] = Three THEN 0 ELSE 1
          /\ a # 1 => h + 1 <= a + IF tries[s] = Three THEN 0 ELSE 1
      BY <1>1, <1>4, <2>2 DEF HalvesInv
    <2> QED BY <1>0, <1>2, <1>3, <1>4, <2>1, <2>2, <2>3, <2>4, ListFacts DEF HalvesInv, InHand
  <1>5. CASE tries[s] \in {LastGhidra, OnlyBinja}
    <2>1. at'[s] = IF a = 1 THEN "over" ELSE "between"
      BY <1>1, <1>5, ListFacts DEF OpenRaises, GiveUp, Go
    <2>2. CASE Agents[a] \in Searching
      <3>1. tries[s] = LastGhidra /\ d = 0 /\ (a # 1 => a = Len(Agents))
        BY <1>1, <1>2, <1>3, <1>5, <2>2, ListFacts, AgentFacts DEF AgentInv
      <3>2. (a = 1 => h <= 2) /\ (a # 1 => h + 1 <= a + 2)
        BY <1>1, <2>2, <3>1, ListFacts DEF HalvesInv
      <3> QED BY <1>0, <1>2, <1>3, <2>1, <2>2, <3>1, <3>2 DEF HalvesInv, InHand, GhidraPlaces
    <2>3. CASE Agents[a] \notin Searching
      <3>1. a # 1 /\ h + d <= a
        BY <1>1, <1>2, <1>3, <1>5, <2>3, AgentFacts DEF HalvesInv
      <3> QED BY <1>0, <1>2, <1>3, <2>1, <2>3, <3>1 DEF HalvesInv, InHand, GhidraPlaces
    <2> QED BY <2>2, <2>3
  <1> QED BY <1>2, <1>4, <1>5

LEMMA CloseHalves ==
  ASSUME PlaceInv, ViewsInv, NEW s \in Samples, HalvesInv(s), at[s] \in {"closing", "unwinding"},
         Closed(s), UNCHANGED halfOpen
  PROVE  HalvesInv(s)'
  <1> USE DEF PlaceInv, PlaceTypes
  <1>1. PICK h \in Nat, a \in 0 .. Len(Agents) : h = halfOpen[s] /\ a = agent[s]
    BY DEF ViewsInv
  <1>2. /\ Len(Agents) \in Nat /\ a \in 1 .. Len(Agents)
        /\ tries[s] \in {Three, Two, LastGhidra, OnlyBinja}
    BY <1>1, HeadFacts, AgentFacts DEF InHand
  <1>3. agent'[s] = a /\ halfOpen'[s] = h /\ at'[s] \in {"between", "over"}
    BY <1>1 DEF Closed, GiveUp, Go
  <1>4. CASE a = 1
    <2>1. h <= IF tries[s] = Three THEN 0 ELSE IF tries[s] = Two THEN 1 ELSE 2
      BY <1>1, <1>4 DEF HalvesInv, InHand
    <2>2. at'[s] = "between" => used'[s] = Head(tries[s])
      BY <1>1, <1>4 DEF Closed, GiveUp, Go
    <2>3. tries[s] \in {Three, Two, LastGhidra}
      <3>1. Agents[a] \in Searching
        BY <1>2, <1>4, AgentFacts
      <3> QED BY <1>1, <3>1 DEF AgentInv, InHand
    <2> QED BY <1>2, <1>3, <1>4, <2>1, <2>2, <2>3, ListFacts DEF HalvesInv, InHand, GhidraPlaces
  <1>5. CASE a # 1
    <2>1. CASE Agents[a] \in Searching
      <3>1. h + 1 <= a + IF tries[s] = Three THEN 0 ELSE IF tries[s] = Two THEN 1 ELSE 2
        BY <1>1, <1>5, <2>1 DEF HalvesInv, InHand
      <3>2. h <= a + 1 /\ a = Len(Agents)
        BY <1>2, <1>5, <2>1, <3>1, AgentFacts
      <3> QED BY <1>2, <1>3, <1>5, <2>1, <3>2 DEF HalvesInv, InHand, GhidraPlaces
    <2>2. CASE Agents[a] \notin Searching
      <3>1. h <= a
        BY <1>1, <2>2 DEF HalvesInv, InHand
      <3> QED BY <1>2, <1>3, <1>5, <2>2, <3>1 DEF HalvesInv, InHand, GhidraPlaces
    <2> QED BY <2>1, <2>2
  <1> QED BY <1>4, <1>5

LEMMA HalvesInit == Init => \A s \in Samples : HalvesInv(s)
  BY AgentFacts DEF Init, HalvesInv, InHand, GhidraPlaces, memory

LEMMA HalvesStep ==
  ASSUME PlaceInv, CountInv, NEW s \in Samples, Step(s)
  PROVE  \A r \in Samples : HalvesInv(r)'
  <1> USE DEF PlaceInv, PlaceTypes, CountInv
  <1>1. ASSUME NEW r \in Samples \ {s} PROVE HalvesInv(r)'
    <2>1. /\ at'[r] = at[r] /\ agent'[r] = agent[r] /\ tries'[r] = tries[r]
          /\ used'[r] = used[r]
      BY DEF Step, OpenStep, Begin, NextAgent, Enter, Leave, BinjaMissing, OpenBinja,
             EnsureGhidra, StartJvm, MarkStarted, MarkAvailable, Prepare, Clean, Load, Use,
             CloseBinja, CloseGhidra, OpenRaises, Closed, GiveUp, Go
    <2>2. halfOpen'[r] = halfOpen[r]
      BY DEF ViewsInv, Step, OpenStep, Begin, NextAgent, Enter, Leave, BinjaMissing, OpenBinja,
             EnsureGhidra, StartJvm, MarkStarted, MarkAvailable, Prepare, Clean, Load, Use,
             CloseBinja, CloseGhidra, memory
    <2> QED BY <2>1, <2>2, HalvesFrame
  <1>2. HalvesInv(s)'
    <2> USE DEF InHand, GhidraPlaces
    <2>1. CASE Begin(s)
      BY <2>1, AgentFacts, EnterHalves DEF Begin
    <2>2. CASE NextAgent(s)
      <3>1. PICK n \in agent[s] + 1 .. Len(Agents) : Enter(s, n)
        BY <2>2 DEF NextAgent
      <3>2. n \in 1 .. Len(Agents) /\ n > agent[s]
        BY AgentFacts
      <3> QED BY <2>2, <3>1, <3>2, EnterHalves DEF NextAgent
    <2>3. CASE Leave(s)
      <3>1. PICK h \in Nat : h = halfOpen[s] /\ h <= Len(Agents) + 1
        BY DEF ViewsInv, HalvesInv
      <3>2. at'[s] = "over" /\ halfOpen'[s] = h
        BY <2>3, <3>1 DEF Leave, Go, memory
      <3> QED BY <3>1, <3>2, AgentFacts DEF HalvesInv
    <2>4. CASE OpenRaises(s) /\ UNCHANGED halfOpen /\ at[s] \in InHand
      BY <2>4, RaiseHalves
    <2>5. CASE OpenBinja(s) /\ OpenRaises(s) /\ halfOpen' # halfOpen
      <3>1. halfOpen' = [halfOpen EXCEPT ![s] = halfOpen[s] + 1] /\ at[s] = "opening"
        BY <2>5 DEF OpenBinja, Opening, memory
      <3>2. tries[s] # LastGhidra
        BY <2>5, HeadFacts DEF OpenBinja, Opening
      <3> QED BY <2>5, <3>1, <3>2, RaiseHalves
    <2>6. CASE OpenBinja(s) /\ ~ OpenRaises(s)
      BY <2>6, MoveHalves DEF OpenBinja, Opening, Go
    <2>7. CASE EnsureGhidra(s) /\ ~ OpenRaises(s)
      <3>1. at[s] = "opening" /\ at'[s] \in {"prepare", "verify", "starting"}
        BY <2>7 DEF EnsureGhidra, Opening, Go
      <3> QED BY <2>7, <3>1, MoveHalves DEF EnsureGhidra, memory
    <2>8. CASE StartJvm(s) /\ ~ OpenRaises(s)
      BY <2>8, MoveHalves DEF StartJvm, Go, memory
    <2>9. CASE MarkStarted(s) \/ MarkAvailable(s) \/ Prepare(s) \/ Clean(s)
      BY <2>9, MoveHalves DEF MarkStarted, MarkAvailable, Prepare, Clean, Go, memory
    <2>10. CASE Load(s) /\ ~ OpenRaises(s)
      BY <2>10, MoveHalves DEF Load, Go, memory
    <2>11. CASE Use(s)
      BY <2>11, MoveHalves DEF Use, Go, memory
    <2>12. CASE CloseBinja(s) \/ CloseGhidra(s)
      BY <2>12, CloseHalves DEF CloseBinja, CloseGhidra, Closing, memory
    <2>13. OpenRaises(s) /\ (BinjaMissing(s) \/ OpenBinja(s) \/ EnsureGhidra(s) \/ StartJvm(s)
                             \/ Load(s))
             => at[s] \in InHand
      BY DEF BinjaMissing, OpenBinja, EnsureGhidra, StartJvm, Load, Opening
    <2>14. BinjaMissing(s) \/ EnsureGhidra(s) \/ StartJvm(s) \/ Load(s) => UNCHANGED halfOpen
      BY DEF BinjaMissing, EnsureGhidra, StartJvm, Load, memory
    <2>15. BinjaMissing(s) => OpenRaises(s)
      BY DEF BinjaMissing
    <2> QED BY <2>1, <2>2, <2>3, <2>4, <2>5, <2>6, <2>7, <2>8, <2>9, <2>10, <2>11, <2>12,
               <2>13, <2>14, <2>15 DEF Step, OpenStep
  <1> QED BY <1>1, <1>2

\* ------------------------------- the theorems ------------------------------

BackendsInv == PlaceInv /\ JvmInv /\ DiskInv /\ CountInv

LEMMA BackendsInitInv == Init => BackendsInv
  BY PlaceInit, JvmInit, DiskInit, ViewsInit, HalvesInit DEF BackendsInv, CountInv

LEMMA BackendsNextInv == BackendsInv /\ [Next]_backendVars => BackendsInv'
  <1> SUFFICES ASSUME BackendsInv, [Next]_backendVars PROVE BackendsInv'
    OBVIOUS
  <1>1. ASSUME NEW s \in Samples, Step(s) PROVE BackendsInv'
    BY <1>1, PlaceStep, JvmStep, DiskStep, ViewsStep, HalvesStep
    DEF BackendsInv, CountInv, JvmInv
  <1>2. CASE UNCHANGED backendVars
    <2>1. PlaceInv'
      BY <1>2 DEF BackendsInv, PlaceInv, PlaceTypes, AgentInv, backendVars, place
    <2>2. JvmInv'
      BY <1>2 DEF BackendsInv, JvmInv, JvmTypes, JvmBeforeUse, HasGhidra, backendVars, globals,
                  place
    <2>3. DiskInv'
      BY <1>2 DEF BackendsInv, DiskInv, DiskTypes, CleanupInv, ThinFilesAccounted, OneAtATime,
                  Active, AloneUndisturbed, Alone, Undisturbed, HasGhidra, backendVars, disk, place
    <2>4. CountInv'
      BY <1>2 DEF BackendsInv, CountInv, ViewsInv, Balanced, HasView, HalvesInv, backendVars,
                  memory, place
    <2> QED BY <2>1, <2>2, <2>3, <2>4 DEF BackendsInv
  <1> QED BY <1>1, <1>2 DEF Next, Done

LEMMA BackendsInvariant == Spec => []BackendsInv
  BY BackendsInitInv, BackendsNextInv, PTL DEF Spec

\* The agents of every batch keep the types of what they share.
THEOREM BackendsTyped == Spec => []BackendsTypeOK
  <1>1. BackendsInv => BackendsTypeOK
    BY ListFacts DEF BackendsInv, BackendsTypeOK, PlaceInv, PlaceTypes, JvmInv, JvmTypes, DiskInv,
                     DiskTypes, CountInv, ViewsInv, Names
  <1> QED BY <1>1, BackendsInvariant, PTL

\* However many threads come to _ensure_ghidra at once, Ghidra is used only with
\* the JVM up.
THEOREM BackendsJvm == Spec => []JvmBeforeUse
  <1>1. BackendsInv => JvmBeforeUse
    BY DEF BackendsInv, JvmInv
  <1> QED BY <1>1, BackendsInvariant, PTL

\* In every batch, a sample loses its project or its thin binary only to another
\* of the same stem and only where several are analysed at once.
THEOREM BackendsSiblings == Spec => []OnlySiblingsDisturb
  <1>1. BackendsInv => OnlySiblingsDisturb
    <2> SUFFICES ASSUME BackendsInv, NEW s \in Samples, ~ Undisturbed(s)
                 PROVE  workers > 1 /\ \E r \in Samples \ {s} : Stem[r] = Stem[s]
      BY DEF OnlySiblingsDisturb
    <2>1. ~ Alone(s)
      BY DEF BackendsInv, DiskInv, AloneUndisturbed
    <2>2. workers \in Nat
      BY BackendsAssumption DEF BackendsInv, JvmInv, JvmTypes
    <2> QED BY <2>1, <2>2 DEF Alone
  <1> QED BY <1>1, BackendsInvariant, PTL

\* Every thin binary on disk is in use or was left by an open() that raised.
THEOREM BackendsThinFiles == Spec => []ThinFilesAccounted
  <1>1. BackendsInv => ThinFilesAccounted
    BY DEF BackendsInv, DiskInv
  <1> QED BY <1>1, BackendsInvariant, PTL

\* Every BinaryView is closed but those whose analysis raised in open(), and of
\* these a pipeline leaves at most one per agent and one more.
THEOREM BackendsViews == Spec => []ViewsAccounted
  <1>1. BackendsInv => ViewsAccounted
    <2> SUFFICES ASSUME BackendsInv, NEW s \in Samples
                 PROVE  /\ views[s] = halfOpen[s] + (IF HasView(s) THEN 1 ELSE 0)
                        /\ halfOpen[s] <= Len(Agents) + 1
      BY DEF ViewsAccounted
    <2>1. halfOpen[s] \in Nat /\ Balanced(s) /\ HalvesInv(s)
      BY DEF BackendsInv, CountInv, ViewsInv
    <2>2. CASE HasView(s)
      BY <2>1, <2>2 DEF Balanced, HalvesInv
    <2>3. CASE ~ HasView(s)
      BY <2>1, <2>3 DEF Balanced, HalvesInv
    <2> QED BY <2>2, <2>3
  <1> QED BY <1>1, BackendsInvariant, PTL

==============================================================================
