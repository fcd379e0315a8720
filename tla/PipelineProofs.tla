---------------------------- MODULE PipelineProofs ----------------------------
(***************************************************************************)
(* Proofs about Pipeline, for every recursion limit that the longest plan  *)
(* fits under and every set of inputs: completed_steps follows the plan,   *)
(* every run ends in the report or in one of the two exceptions, no agent  *)
(* works from a record that is still to change, and the fusion happens     *)
(* whenever there is evidence.                                             *)
(***************************************************************************)
EXTENDS Pipeline, SequenceTheorems, TLAPS

\* LangGraph's default limit, 25, or a larger one.  The longest plan has 23
\* steps; the planning node and the superstep at END come on top.
LimitSuffices == RecursionLimit >= 25

Steps == Nodes \ {"planning"}

Agents == Steps \ {"final_summary"}

\* An agent runs to its end, whatever it reads and writes.
Returns(a) == At(a) /\ \E uses, out : Return(a, uses, out)

\* An exception, for one of the two reasons there are.
RaisesForCause == Raise /\ (input.qlog = "odd" \/ input.legion = "malformed")

(***************************************************************************)
(* What the routing relies on.  The plan, once made, ends in final_summary *)
(* and names only nodes other than planning; its length leaves room under  *)
(* the recursion limit; the node that runs next is the one after those     *)
(* completed; and a status is only given for its reason.                   *)
(***************************************************************************)
PlanOK(p) ==
  /\ p \in Seq(Steps)
  /\ Len(p) \in 1 .. 23
  /\ p[Len(p)] = "final_summary"

PipelineInv ==
  /\ plan = <<>> \/ PlanOK(plan)
  /\ step \in 0 .. Len(plan)
  /\ completed = SubSeq(plan, 1, step)
  /\ node = IF plan = <<>> THEN "planning" ELSE RouteNext(plan, step)
  /\ executed = IF plan = <<>> THEN 0 ELSE step + 1
  /\ status \in {"running", "finished", "raised"}
  /\ status = "finished" => plan # <<>> /\ step = Len(plan)
  /\ plan # <<>> /\ step = Len(plan) => rec["final_report"] = "written"
  /\ status = "raised" => input.qlog = "odd" \/ input.legion = "malformed"

\* At most k steps.
Short(p, k) == p \in Seq(Steps) /\ Len(p) <= k

\* Putting two lists of steps one after the other.
LEMMA Join ==
  ASSUME NEW p, NEW q, NEW j \in Nat, NEW k \in Nat, Short(p, j), Short(q, k)
  PROVE  Short(p \o q, j + k)
  BY DEF Short

\* Steps that are planned only on a condition.
LEMMA Optional ==
  ASSUME NEW c, NEW p, NEW k \in Nat, Short(p, k), NEW r, r = IF c THEN p ELSE <<>>
  PROVE  Short(r, k)
<1>1. CASE c
  BY <1>1
<1>2. CASE ~ c
  <2>1. r = <<>>
    BY <1>2
  <2>2. r \in Seq(Steps)
    BY <2>1, EmptySeq
  <2>3. Len(r) = 0
    BY <2>1
  <2> QED
    BY <2>2, <2>3 DEF Short
<1> QED
  BY <1>1, <1>2

\* Every name that planning_agent appends is a step.
LEMMA StepNames ==
  /\ {"static_analysis", "api_crossrefs", "string_threat_analysis", "string_crossref_analysis",
      "api_clustering", "capabilities_analysis", "binary_summary"} \subseteq Steps
  /\ {"pcap_ingest", "traffic_statistics", "qlog_analysis", "quic_handshake",
      "attack_classification", "anomaly_detection"} \subseteq Steps
  /\ {"zero_rtt_replay", "retry_token_abuse", "cid_exhaustion", "flood", "slowloris", "mitm"}
       \subseteq Steps
  /\ {"quic_binary_assessment", "correlation", "evidence_fusion", "final_summary"}
       \subseteq Steps
  BY DEF Steps, Nodes, AttackAgents

LEMMA BinaryPart ==
  ASSUME NEW i
  PROVE  Short(BinarySteps(i), 7)
<1> DEFINE first == <<"static_analysis", "api_crossrefs", "string_threat_analysis",
                      "string_crossref_analysis">>
           deeper == <<"api_clustering", "capabilities_analysis">>
           deep == IF i.goal \cap {"capabilities", "comprehensive"} # {} THEN deeper ELSE <<>>
           last == <<"binary_summary">>
<1>1. Short(first, 4) /\ Short(deeper, 2) /\ Short(last, 1)
  BY StepNames DEF Short
<1>2. BinarySteps(i) = ((first \o deep) \o <<>>) \o last
  BY DEF BinarySteps, MalwareAvailable
<1> HIDE DEF first, deeper, last
<1>3. Short(deep, 2)
  BY <1>1, Optional
<1> HIDE DEF deep
<1>4. Short(first \o deep, 4 + 2)
  BY <1>1, <1>3, Join
<1>5. (first \o deep) \o <<>> = first \o deep
  BY <1>4, ConcatEmptySeq DEF Short
<1>6. Short((first \o deep) \o last, 6 + 1)
  BY <1>1, <1>4, Join
<1> QED
  BY <1>2, <1>5, <1>6

LEMMA NetworkPart ==
  ASSUME NEW i
  PROVE  Short(NetworkSteps(i), 12)
<1> DEFINE first == <<"pcap_ingest", "traffic_statistics", "qlog_analysis",
                      "quic_handshake", "attack_classification", "anomaly_detection">>
           all == <<"zero_rtt_replay", "retry_token_abuse", "cid_exhaustion",
                    "flood", "slowloris", "mitm">>
           attacks == IF ~ ("classify_only" \in i.goal) THEN all ELSE <<>>
<1>1. Short(first, 6) /\ Short(all, 6)
  BY StepNames DEF Short
<1>2. NetworkSteps(i) = first \o attacks
  BY DEF NetworkSteps
<1> HIDE DEF first, all
<1>3. Short(attacks, 6)
  BY <1>1, Optional
<1> HIDE DEF attacks
<1>4. Short(first \o attacks, 6 + 6)
  BY <1>1, <1>3, Join
<1> QED
  BY <1>2, <1>4

\* Every plan of planning_agent is one that the graph can follow to its end.
LEMMA PlanIsOK ==
  ASSUME NEW i
  PROVE  PlanOK(PlanFor(i))
<1> DEFINE b == IF i.binary THEN BinarySteps(i) ELSE <<>>
           n == IF i.pcap THEN NetworkSteps(i) ELSE <<>>
           c == IF i.binary /\ i.pcap THEN CrossSteps ELSE <<>>
           fusion == <<"evidence_fusion">>
           f == IF i.pcap THEN fusion ELSE <<>>
           e == <<"final_summary">>
<1>1. Short(CrossSteps, 2) /\ Short(fusion, 1)
  BY StepNames DEF CrossSteps, Short
<1>2. e \in Seq(Steps) /\ Len(e) = 1 /\ e[1] = "final_summary"
  BY StepNames
<1>3. PlanFor(i) = (((b \o n) \o c) \o f) \o e
  BY DEF PlanFor
<1> HIDE DEF fusion, e
<1>4. Short(b, 7) /\ Short(n, 12)
  BY BinaryPart, NetworkPart, Optional
<1>5. Short(c, 2) /\ Short(f, 1)
  BY <1>1, Optional
<1> HIDE DEF b, n, c, f
<1>6. Short(b \o n, 7 + 12)
  BY <1>4, Join
<1>7. Short((b \o n) \o c, 19 + 2)
  BY <1>5, <1>6, Join
<1> DEFINE p == ((b \o n) \o c) \o f
<1>8. Short(p, 21 + 1)
  BY <1>5, <1>7, Join
<1>9. PlanFor(i) = p \o e
  BY <1>3
<1> HIDE DEF p
<1>10. p \in Seq(Steps) /\ Len(p) <= 22
  BY <1>8 DEF Short
<1> DEFINE q == p \o e
<1>11. /\ q \in Seq(Steps)
       /\ Len(q) = Len(p) + 1
       /\ q[Len(p) + 1] = "final_summary"
  BY <1>2, <1>10, ConcatProperties
<1> HIDE DEF q
<1>12. PICK k \in Nat : k = Len(p)
  BY <1>10
<1>13. k <= 22
  BY <1>10, <1>12
<1>14. k + 1 \in 1 .. 23
  BY <1>13
<1>15. Len(q) = k + 1 /\ q[k + 1] = "final_summary"
  BY <1>11, <1>12
<1>16. Len(q) \in 1 .. 23 /\ q[Len(q)] = "final_summary"
  BY <1>14, <1>15, Zenon
<1>17. PlanOK(q)
  BY <1>11, <1>16, Zenon DEF PlanOK
<1> QED
  BY <1>9, <1>17 DEF q

\* Every agent between planning and the summary returns, or raises for cause.
LEMMA AgentOutcome ==
  ASSUME BinaryAgent \/ NetworkAgent \/ CrossAgent
  PROVE  RaisesForCause \/ \E a \in Agents : Returns(a)
<1>1. CASE BinaryAgent
  <2>1. CASE StaticAnalysis
    BY <2>1 DEF StaticAnalysis, Returns, Agents, Steps, Nodes, At
  <2>2. CASE ApiCrossrefs
    BY <2>2 DEF ApiCrossrefs, Returns, Agents, Steps, Nodes, At
  <2>3. CASE StringThreat
    BY <2>3 DEF StringThreat, Returns, Agents, Steps, Nodes, At
  <2>4. CASE StringCrossref
    BY <2>4 DEF StringCrossref, Returns, Agents, Steps, Nodes, At
  <2>5. CASE ApiClustering
    BY <2>5 DEF ApiClustering, Returns, Agents, Steps, Nodes, At
  <2>6. CASE Capabilities
    BY <2>6 DEF Capabilities, Returns, Agents, Steps, Nodes, At
  <2>7. CASE BinarySummary
    BY <2>7 DEF BinarySummary, Returns, Agents, Steps, Nodes, At
  <2> QED
    BY <1>1, <2>1, <2>2, <2>3, <2>4, <2>5, <2>6, <2>7 DEF BinaryAgent
<1>2. CASE NetworkAgent
  <2>1. CASE PcapIngest
    BY <2>1 DEF PcapIngest, Returns, Agents, Steps, Nodes, At
  <2>2. CASE TrafficStatistics
    BY <2>2 DEF TrafficStatistics, Returns, Agents, Steps, Nodes, At
  <2>3. CASE QlogAnalysis
    BY <2>3 DEF QlogAnalysis, Returns, RaisesForCause, Agents, Steps, Nodes, At
  <2>4. CASE QuicHandshake
    BY <2>4 DEF QuicHandshake, Returns, Agents, Steps, Nodes, At
  <2>5. CASE AttackClassification
    BY <2>5 DEF AttackClassification, Returns, Agents, Steps, Nodes, At
  <2>6. CASE AnomalyDetection
    BY <2>6 DEF AnomalyDetection, Returns, Agents, Steps, Nodes, At
  <2>7. ASSUME NEW a \in AttackAgents, AttackAgent(a)
        PROVE  RaisesForCause \/ Returns(a)
    BY <2>7 DEF AttackAgent, Returns, RaisesForCause, At
  <2>8. AttackAgents \subseteq Agents
    BY DEF Agents, Steps, Nodes, AttackAgents
  <2>9. CASE ZeroRttReplay \/ RetryTokenAbuse \/ CidExhaustion \/ Flood \/ Slowloris \/ Mitm
    BY <2>7, <2>8, <2>9
       DEF ZeroRttReplay, RetryTokenAbuse, CidExhaustion, Flood, Slowloris, Mitm, AttackAgents
  <2> QED
    BY <1>2, <2>1, <2>2, <2>3, <2>4, <2>5, <2>6, <2>9 DEF NetworkAgent
<1>3. CASE CrossAgent
  <2>1. CASE QuicBinaryAssessment
    BY <2>1 DEF QuicBinaryAssessment, Returns, Agents, Steps, Nodes, At
  <2>2. CASE Correlation
    BY <2>2 DEF Correlation, Returns, Agents, Steps, Nodes, At
  <2>3. CASE EvidenceFusion
    BY <2>3 DEF EvidenceFusion, Returns, Agents, Steps, Nodes, At
  <2> QED
    BY <1>3, <2>1, <2>2, <2>3 DEF CrossAgent
<1> QED
  BY <1>1, <1>2, <1>3

\* A node that is not planning runs where the plan says, and moves one step on.
LEMMA RunsPlanned ==
  ASSUME PipelineInv, NEW a \in Steps, At(a)
  PROVE  /\ PlanOK(plan)
         /\ step \in 0 .. Len(plan) - 1
         /\ a = plan[step + 1]
<1>1. node = a /\ a # "planning" /\ a # "END"
  BY DEF At, Steps, Nodes, AttackAgents, MalwareAvailable
<1>2. plan # <<>> /\ PlanOK(plan)
  BY <1>1 DEF PipelineInv
<1> QED
  BY <1>1, <1>2 DEF PipelineInv, PlanOK, RouteNext

LEMMA PlanLength ==
  ASSUME NEW p, PlanOK(p)
  PROVE  Len(p) \in Nat /\ Len(p) <= 23
<1>1. PICK n \in 1 .. 23 : n = Len(p)
  BY DEF PlanOK
<1>2. n \in Nat /\ n <= 23
  OBVIOUS
<1> QED
  BY <1>1, <1>2

LEMMA ReturnKeepsInv ==
  ASSUME LimitSuffices, RecursionLimit \in Nat, PipelineInv,
         NEW a \in Steps, At(a), NEW uses, NEW out, Return(a, uses, out),
         a = "final_summary" => rec'["final_report"] = "written"
  PROVE  PipelineInv'
<1>1. /\ PlanOK(plan) /\ plan # <<>>
      /\ step \in 0 .. Len(plan) - 1
      /\ a = plan[step + 1]
  BY RunsPlanned DEF PlanOK
<1>2. plan' = plan /\ input' = input /\ step' = step + 1 /\ step' \in 1 .. Len(plan)
  BY <1>1 DEF Return, PlanOK
<1>3. completed' = SubSeq(plan', 1, step')
  <2>1. completed' = Append(SubSeq(plan, 1, step), plan[step + 1])
    BY <1>1 DEF Return, PipelineInv
  <2> QED
    BY <1>1, <1>2, <2>1, SubSeqProperties DEF PlanOK
<1>4. node' = RouteNext(plan', step') /\ executed' = step' + 1
  BY <1>1, <1>2 DEF Return, Follow, PipelineInv
<1>5. node' \in Nodes \cup {"END"} /\ (node' = "END" => step' = Len(plan))
  <2>1. \A k \in 1 .. Len(plan) : plan[k] \in Nodes
    BY <1>1 DEF PlanOK, Steps
  <2>2. "END" \notin Nodes
    BY DEF Nodes, AttackAgents, MalwareAvailable
  <2> QED
    BY <1>1, <1>2, <1>4, <2>1, <2>2 DEF RouteNext, PlanOK
<1>6. executed' + 1 <= RecursionLimit
  <2>1. Len(plan) \in Nat /\ Len(plan) <= 23
    BY <1>1, PlanLength
  <2>2. RecursionLimit >= 25
    BY DEF LimitSuffices
  <2>3. step \in Nat /\ step < Len(plan) /\ executed' = step + 2
    BY <1>1, <1>2, <1>4
  <2> QED
    BY <2>1, <2>2, <2>3
<1>7. status' = IF node' = "END" THEN "finished" ELSE "running"
  BY <1>4, <1>5, <1>6 DEF Return, Follow
<1>8. step' = Len(plan') => rec'["final_report"] = "written"
  BY <1>1, <1>2 DEF PlanOK
<1> QED
  BY <1>1, <1>2, <1>3, <1>4, <1>5, <1>7, <1>8 DEF PipelineInv

(***************************************************************************)
(* The strengthening of InPlanOrder and EndsInReport holds in every        *)
(* reachable state.                                                        *)
(***************************************************************************)
THEOREM PipelineInvariant == LimitSuffices => (Spec => []PipelineInv)
<1> SUFFICES ASSUME LimitSuffices PROVE Spec => []PipelineInv
  OBVIOUS
<1> USE PipelineAssumption
<1>1. Init => PipelineInv
  BY DEF Init, PipelineInv
<1>2. PipelineInv /\ [Next]_vars => PipelineInv'
  <2> SUFFICES ASSUME PipelineInv, [Next]_vars PROVE PipelineInv'
    OBVIOUS
  <2>1. CASE Planning
    <3>1. PlanOK(plan') /\ plan' # <<>> /\ step' = 0 /\ completed' = <<>>
      <4>1. PlanOK(PlanFor(input))
        BY PlanIsOK
      <4>2. PlanOK(plan') /\ step' = 0 /\ completed' = <<>>
        BY <2>1, <4>1 DEF Planning
      <4>3. plan' # <<>>
        <5>1. ASSUME NEW p, PlanOK(p) PROVE p # <<>>
          <6>1. p \in Seq(Steps) /\ Len(p) \in 1 .. 23
            BY <5>1 DEF PlanOK
          <6>2. \A n : n \in 1 .. 23 => n # 0
            OBVIOUS
          <6> QED
            BY <6>1, <6>2, EmptySeq
        <5> QED
          BY <4>2, <5>1
      <4> QED
        BY <4>2, <4>3
    <3>2. plan = <<>> /\ executed = 0
      <4>1. node = "planning" /\ status = "running"
        BY <2>1 DEF Planning, At
      <4>2. CASE plan # <<>>
        <5>1. PlanOK(plan) /\ plan[step + 1] = "planning"
          BY <4>1, <4>2 DEF PipelineInv, RouteNext, PlanOK
        <5>2. step + 1 \in 1 .. Len(plan)
          BY <4>1, <4>2, <5>1 DEF PipelineInv, RouteNext, PlanOK
        <5> QED
          BY <5>1, <5>2 DEF PlanOK, Steps
      <4> QED
        BY <4>2 DEF PipelineInv
    <3>3. /\ node' = RouteNext(plan', 0) /\ executed' = 1 /\ input' = input
          /\ status' = IF node' \notin Nodes \cup {"END"} THEN "no_such_node"
                       ELSE IF executed' + 1 > RecursionLimit THEN "limit"
                       ELSE IF node' = "END" THEN "finished"
                       ELSE "running"
      BY <2>1, <3>2 DEF Planning, Follow
    <3>4. node' \in Steps /\ node' # "END"
      BY <3>1, <3>3 DEF RouteNext, PlanOK, Steps, Nodes, AttackAgents, MalwareAvailable
    <3>5. status' = "running"
      BY <3>3, <3>4 DEF Steps, LimitSuffices
    <3>6. completed' = SubSeq(plan', 1, step')
      BY <3>1 DEF PlanOK
    <3> QED
      BY <3>1, <3>3, <3>5, <3>6 DEF PipelineInv, PlanOK
  <2>2. CASE BinaryAgent \/ NetworkAgent \/ CrossAgent
    <3>1. CASE RaisesForCause
      BY <3>1 DEF RaisesForCause, Raise, PipelineInv, RouteNext
    <3>2. ASSUME NEW a \in Agents, Returns(a) PROVE PipelineInv'
      BY <3>2, ReturnKeepsInv DEF Returns, Agents
    <3> QED
      BY <2>2, <3>1, <3>2, AgentOutcome
  <2>3. CASE FinalSummary
    <3>1. rec'["final_report"] = "written"
      BY <2>3 DEF FinalSummary, Return, Records
    <3> QED
      BY <2>3, <3>1, ReturnKeepsInv DEF FinalSummary, Steps, Nodes, At
  <2>4. CASE Ended \/ UNCHANGED vars
    BY <2>4 DEF Ended, vars, control, PipelineInv, RouteNext
  <2> QED
    BY <2>1, <2>2, <2>3, <2>4 DEF Next
<1> QED
  BY <1>1, <1>2, PTL DEF Spec

\* InPlanOrder: completed_steps is what current_step has covered of the plan.
THEOREM PipelineInPlanOrder == LimitSuffices => (Spec => []InPlanOrder)
<1>1. PipelineInv => InPlanOrder
  BY DEF PipelineInv, InPlanOrder
<1> QED
  BY <1>1, PipelineInvariant, PTL

\* EndsInReport: every run ends in the report, or in an exception for cause;
\* no plan has a step without a node or too many steps for the graph.
THEOREM PipelineEndsInReport == LimitSuffices => (Spec => []EndsInReport)
<1>1. PipelineInv => EndsInReport
  <2> SUFFICES ASSUME PipelineInv PROVE EndsInReport
    OBVIOUS
  <2>1. CASE status = "finished"
    <3>1. plan \in Seq(Steps) /\ step = Len(plan) /\ completed = SubSeq(plan, 1, Len(plan))
      BY <2>1 DEF PipelineInv, PlanOK
    <3>2. completed = plan
      BY <3>1
    <3> QED
      BY <2>1, <3>1, <3>2 DEF PipelineInv, EndsInReport
  <2>2. CASE status # "finished"
    BY <2>2 DEF PipelineInv, EndsInReport
  <2> QED
    BY <2>1, <2>2
<1> QED
  BY <1>1, PipelineInvariant, PTL

------------------------------------------------------------------------------
(***************************************************************************)
(* What the agents read.  Every plan is a part of one order of the steps,  *)
(* Rank.  An agent writes a record before the first that uses it has run,  *)
(* or uses it itself: FirstUse is the rank of that first one.              *)
(***************************************************************************)

Rank(a) ==
  CASE a = "static_analysis" -> 1
    [] a = "api_crossrefs" -> 2
    [] a = "string_threat_analysis" -> 3
    [] a = "string_crossref_analysis" -> 4
    [] a = "api_clustering" -> 5
    [] a = "capabilities_analysis" -> 6
    [] a = "binary_summary" -> 7
    [] a = "pcap_ingest" -> 8
    [] a = "traffic_statistics" -> 9
    [] a = "qlog_analysis" -> 10
    [] a = "quic_handshake" -> 11
    [] a = "attack_classification" -> 12
    [] a = "anomaly_detection" -> 13
    [] a = "zero_rtt_replay" -> 14
    [] a = "retry_token_abuse" -> 15
    [] a = "cid_exhaustion" -> 16
    [] a = "flood" -> 17
    [] a = "slowloris" -> 18
    [] a = "mitm" -> 19
    [] a = "quic_binary_assessment" -> 20
    [] a = "correlation" -> 21
    [] a = "evidence_fusion" -> 22
    [] a = "final_summary" -> 23
    [] OTHER -> 0

FirstUse(r) ==
  CASE r = "static_analysis" -> 2
    [] r = "string_threat_analysis" -> 4
    [] r \in {"api_crossrefs", "api_analysis"} -> 5
    [] r = "capabilities" -> 7
    [] r = "connections" -> 9
    [] r = "statistics" -> 11
    [] r = "handshake_analysis" -> 12
    [] r = "attack_classification" -> 13
    [] r = "qlog_features" -> 14
    [] r = "anomalies" -> 21
    [] r \in {"zero_rtt_replay", "retry_token_abuse", "cid_exhaustion",
              "quic_binary_assessment"} -> 22
    [] OTHER -> 24

\* What an agent that returns has used and written, as the proofs need it.
Proper(a, uses, out) ==
  /\ \A r \in DOMAIN out : out[r] \in Values
  /\ \A r \in DOMAIN out : r \in uses \/ Rank(a) <= FirstUse(r)
  /\ \A r \in uses : FirstUse(r) <= Rank(a)
  /\ "statistics" \in DOMAIN out => a = "traffic_statistics"
  /\ \A r \in FusionBasis \cup {"static_analysis", "evidence_fusion"} :
       r \in DOMAIN out => a = r
  /\ a = "attack_classification" /\ ~ NoStatistics => out = [r \in {a} |-> "written"]
  /\ a = "zero_rtt_replay" => out = [r \in {a} |-> "written"]
  /\ a = "quic_binary_assessment" /\ ~ NoStaticData => out = [r \in {a} |-> "written"]
  /\ a = "evidence_fusion" /\ (\E r \in FusionBasis : rec[r] # "absent")
       => out = [r \in {a} |-> "written"]

\* What the step a, once done, has left for the fusion.
Left(a) ==
  /\ a = "attack_classification" => rec[a] # "absent" \/ NoStatistics
  /\ a = "zero_rtt_replay" => rec[a] # "absent"
  /\ a = "quic_binary_assessment" => rec[a] # "absent" \/ NoStaticData
  /\ a = "evidence_fusion" => rec[a] # "absent" \/ \A r \in FusionBasis : rec[r] = "absent"

\* What the records rely on.  Whatever has been used, its last user at the time
\* came at or after FirstUse, so that no agent still to come overwrites it.
RecordInv ==
  /\ input \in Inputs
  /\ plan # <<>> => plan = PlanFor(input)
  /\ rec \in [Records -> Values]
  /\ seen \in [Records -> Values \cup {"unread"}]
  /\ NothingStale
  /\ \A r \in Records : seen[r] # "unread" => step > 0 /\ FirstUse(r) <= Rank(plan[step])
  /\ \A k \in 1 .. step : Left(plan[k])

\* Steps in the order of their ranks, which lie between lo and hi.
Between(p, lo, hi) ==
  /\ p \in Seq(Steps)
  /\ \A k \in 1 .. Len(p) : lo <= Rank(p[k]) /\ Rank(p[k]) <= hi
  /\ \A j, k \in 1 .. Len(p) : j < k => Rank(p[j]) < Rank(p[k])

LEMMA RankType == \A a : Rank(a) \in Nat
  BY DEF Rank

\* Steps of one rank after the other.
LEMMA Consecutive ==
  ASSUME NEW p \in Seq(Steps), NEW m \in Nat, NEW n \in Nat, Len(p) = n,
         \A k \in 1 .. n : Rank(p[k]) = m + k
  PROVE  Between(p, m + 1, m + n)
  BY DEF Between

LEMMA JoinBetween ==
  ASSUME NEW p, NEW q, NEW a \in Nat, NEW b \in Nat, NEW c \in Nat, NEW d \in Nat,
         Between(p, a, b), Between(q, c, d), a <= c, b < c, b <= d
  PROVE  Between(p \o q, a, d)
<1> DEFINE s == p \o q
<1>1. p \in Seq(Steps) /\ q \in Seq(Steps) /\ Len(p) \in Nat /\ Len(q) \in Nat
  BY DEF Between
<1>2. /\ s \in Seq(Steps)
      /\ Len(s) = Len(p) + Len(q)
      /\ \A k \in 1 .. Len(s) : s[k] = IF k <= Len(p) THEN p[k] ELSE q[k - Len(p)]
  BY <1>1, ConcatProperties
<1> HIDE DEF s
<1>3. ASSUME NEW k \in 1 .. Len(s)
      PROVE  \/ k \in 1 .. Len(p) /\ s[k] = p[k]
             \/ k > Len(p) /\ k - Len(p) \in 1 .. Len(q) /\ s[k] = q[k - Len(p)]
  BY <1>1, <1>2
<1>4. ASSUME NEW k \in 1 .. Len(s) PROVE a <= Rank(s[k]) /\ Rank(s[k]) <= d
  <2>1. CASE k \in 1 .. Len(p) /\ s[k] = p[k]
    BY <2>1, RankType DEF Between
  <2>2. CASE k - Len(p) \in 1 .. Len(q) /\ s[k] = q[k - Len(p)]
    BY <2>2, RankType DEF Between
  <2> QED
    BY <1>3, <2>1, <2>2
<1>5. ASSUME NEW j \in 1 .. Len(s), NEW k \in 1 .. Len(s), j < k
      PROVE  Rank(s[j]) < Rank(s[k])
  <2>1. CASE k \in 1 .. Len(p) /\ s[k] = p[k]
    <3>1. j \in 1 .. Len(p) /\ s[j] = p[j]
      BY <1>1, <1>3, <1>5, <2>1
    <3> QED
      BY <1>5, <2>1, <3>1 DEF Between
  <2>2. CASE j > Len(p) /\ j - Len(p) \in 1 .. Len(q) /\ s[j] = q[j - Len(p)]
    <3>1. k - Len(p) \in 1 .. Len(q) /\ s[k] = q[k - Len(p)] /\ j - Len(p) < k - Len(p)
      BY <1>1, <1>3, <1>5, <2>2
    <3> QED
      BY <2>2, <3>1 DEF Between
  <2>3. CASE j \in 1 .. Len(p) /\ s[j] = p[j] /\ k - Len(p) \in 1 .. Len(q) /\ s[k] = q[k - Len(p)]
    <3>1. Rank(s[j]) <= b /\ c <= Rank(s[k])
      BY <2>3 DEF Between
    <3> QED
      BY <3>1, RankType
  <2> QED
    BY <1>3, <2>1, <2>2, <2>3
<1>6. Between(s, a, d)
  BY <1>2, <1>4, <1>5 DEF Between
<1> QED
  BY <1>6 DEF s

LEMMA OptionalBetween ==
  ASSUME NEW c, NEW p, NEW a \in Nat, NEW b \in Nat, Between(p, a, b),
         NEW r, r = IF c THEN p ELSE <<>>
  PROVE  Between(r, a, b)
<1>1. CASE c
  BY <1>1
<1>2. CASE ~ c
  <2>1. r \in Seq(Steps) /\ Len(r) = 0
    BY <1>2, EmptySeq
  <2> QED
    BY <2>1 DEF Between
<1> QED
  BY <1>1, <1>2

LEMMA RankValues ==
  /\ Rank("static_analysis") = 1 /\ Rank("api_crossrefs") = 2
  /\ Rank("string_threat_analysis") = 3 /\ Rank("string_crossref_analysis") = 4
  /\ Rank("api_clustering") = 5 /\ Rank("capabilities_analysis") = 6
  /\ Rank("binary_summary") = 7 /\ Rank("pcap_ingest") = 8
  /\ Rank("traffic_statistics") = 9 /\ Rank("qlog_analysis") = 10
  /\ Rank("quic_handshake") = 11 /\ Rank("attack_classification") = 12
  /\ Rank("anomaly_detection") = 13 /\ Rank("zero_rtt_replay") = 14
  /\ Rank("retry_token_abuse") = 15 /\ Rank("cid_exhaustion") = 16
  /\ Rank("flood") = 17 /\ Rank("slowloris") = 18 /\ Rank("mitm") = 19
  /\ Rank("quic_binary_assessment") = 20 /\ Rank("correlation") = 21
  /\ Rank("evidence_fusion") = 22 /\ Rank("final_summary") = 23
  BY DEF Rank

LEMMA BinaryRanks ==
  ASSUME NEW i
  PROVE  Between(BinarySteps(i), 1, 7)
<1> DEFINE first == <<"static_analysis", "api_crossrefs", "string_threat_analysis",
                      "string_crossref_analysis">>
           deeper == <<"api_clustering", "capabilities_analysis">>
           deep == IF i.goal \cap {"capabilities", "comprehensive"} # {} THEN deeper ELSE <<>>
           last == <<"binary_summary">>
<1>1. Between(first, 1, 4)
  <2>1. first \in Seq(Steps) /\ Len(first) = 4 /\ \A k \in 1 .. 4 : Rank(first[k]) = 0 + k
    BY StepNames, RankValues
  <2> HIDE DEF first
  <2>2. Between(first, 0 + 1, 0 + 4)
    BY <2>1, Consecutive
  <2> QED
    BY <2>2
<1>2. Between(deeper, 5, 6)
  <2>1. deeper \in Seq(Steps) /\ Len(deeper) = 2 /\ \A k \in 1 .. 2 : Rank(deeper[k]) = 4 + k
    BY StepNames, RankValues
  <2> HIDE DEF deeper
  <2>2. Between(deeper, 4 + 1, 4 + 2)
    BY <2>1, Consecutive
  <2> QED
    BY <2>2
<1>3. Between(last, 7, 7)
  <2>1. last \in Seq(Steps) /\ Len(last) = 1 /\ \A k \in 1 .. 1 : Rank(last[k]) = 6 + k
    BY StepNames, RankValues
  <2> HIDE DEF last
  <2>2. Between(last, 6 + 1, 6 + 1)
    BY <2>1, Consecutive
  <2> QED
    BY <2>2
<1>4. BinarySteps(i) = ((first \o deep) \o <<>>) \o last
  BY DEF BinarySteps, MalwareAvailable
<1> HIDE DEF first, deeper, last
<1>5. Between(deep, 5, 6)
  BY <1>2, OptionalBetween
<1> HIDE DEF deep
<1>6. Between(first \o deep, 1, 6)
  BY <1>1, <1>5, JoinBetween
<1>7. (first \o deep) \o <<>> = first \o deep
  BY <1>6, ConcatEmptySeq DEF Between
<1>8. Between((first \o deep) \o last, 1, 7)
  BY <1>3, <1>6, JoinBetween
<1> QED
  BY <1>4, <1>7, <1>8

LEMMA NetworkRanks ==
  ASSUME NEW i
  PROVE  Between(NetworkSteps(i), 8, 19)
<1> DEFINE first == <<"pcap_ingest", "traffic_statistics", "qlog_analysis",
                      "quic_handshake", "attack_classification", "anomaly_detection">>
           all == <<"zero_rtt_replay", "retry_token_abuse", "cid_exhaustion",
                    "flood", "slowloris", "mitm">>
           attacks == IF ~ ("classify_only" \in i.goal) THEN all ELSE <<>>
<1>1. Between(first, 8, 13)
  <2>1. first \in Seq(Steps) /\ Len(first) = 6 /\ \A k \in 1 .. 6 : Rank(first[k]) = 7 + k
    BY StepNames, RankValues
  <2> HIDE DEF first
  <2>2. Between(first, 7 + 1, 7 + 6)
    BY <2>1, Consecutive
  <2> QED
    BY <2>2
<1>2. Between(all, 14, 19)
  <2>1. all \in Seq(Steps) /\ Len(all) = 6 /\ \A k \in 1 .. 6 : Rank(all[k]) = 13 + k
    BY StepNames, RankValues
  <2> HIDE DEF all
  <2>2. Between(all, 13 + 1, 13 + 6)
    BY <2>1, Consecutive
  <2> QED
    BY <2>2
<1>3. NetworkSteps(i) = first \o attacks
  BY DEF NetworkSteps
<1> HIDE DEF first, all
<1>4. Between(attacks, 14, 19)
  BY <1>2, OptionalBetween
<1> HIDE DEF attacks
<1>5. Between(first \o attacks, 8, 19)
  BY <1>1, <1>4, JoinBetween
<1> QED
  BY <1>3, <1>5

\* The plan p has the step a.
In(a, p) == \E k \in 1 .. Len(p) : p[k] = a

LEMMA InJoin ==
  ASSUME NEW p \in Seq(Steps), NEW q \in Seq(Steps), NEW a, In(a, p) \/ In(a, q)
  PROVE  In(a, p \o q)
<1> DEFINE s == p \o q
<1>1. /\ Len(p) \in Nat /\ Len(q) \in Nat /\ Len(s) = Len(p) + Len(q)
      /\ \A k \in 1 .. Len(s) : s[k] = IF k <= Len(p) THEN p[k] ELSE q[k - Len(p)]
  BY ConcatProperties
<1> HIDE DEF s
<1>2. ASSUME In(a, p) PROVE In(a, s)
  BY <1>1, <1>2 DEF In
<1>3. ASSUME In(a, q) PROVE In(a, s)
  <2>1. PICK k \in 1 .. Len(q) : q[k] = a
    BY <1>3 DEF In
  <2>2. k + Len(p) \in 1 .. Len(s) /\ s[k + Len(p)] = a
    BY <1>1, <2>1
  <2> QED
    BY <2>2 DEF In
<1>4. In(a, s)
  BY <1>2, <1>3
<1> QED
  BY <1>4 DEF s

\* The plan keeps the order of the ranks and has the steps that the fusion
\* depends on wherever the goal does not exclude them.
LEMMA PlanRanks ==
  ASSUME NEW i
  PROVE  /\ Between(PlanFor(i), 1, 23)
         /\ i.pcap => /\ In("attack_classification", PlanFor(i))
                      /\ In("evidence_fusion", PlanFor(i))
         /\ i.pcap /\ ~ ("classify_only" \in i.goal) => In("zero_rtt_replay", PlanFor(i))
         /\ i.pcap /\ i.binary => In("quic_binary_assessment", PlanFor(i))
<1> DEFINE net == NetworkSteps(i)
           b == IF i.binary THEN BinarySteps(i) ELSE <<>>
           n == IF i.pcap THEN net ELSE <<>>
           c == IF i.binary /\ i.pcap THEN CrossSteps ELSE <<>>
           fusion == <<"evidence_fusion">>
           f == IF i.pcap THEN fusion ELSE <<>>
           e == <<"final_summary">>
<1>1. Between(CrossSteps, 20, 21) /\ In("quic_binary_assessment", CrossSteps)
  <2>1. /\ CrossSteps \in Seq(Steps) /\ Len(CrossSteps) = 2
        /\ \A k \in 1 .. 2 : Rank(CrossSteps[k]) = 19 + k
        /\ CrossSteps[1] = "quic_binary_assessment"
    BY StepNames, RankValues DEF CrossSteps
  <2>2. Between(CrossSteps, 19 + 1, 19 + 2)
    BY <2>1, Consecutive
  <2> QED
    BY <2>1, <2>2 DEF In
<1>2. Between(fusion, 22, 22) /\ In("evidence_fusion", fusion)
  <2>1. /\ fusion \in Seq(Steps) /\ Len(fusion) = 1
        /\ \A k \in 1 .. 1 : Rank(fusion[k]) = 21 + k
        /\ fusion[1] = "evidence_fusion"
    BY StepNames, RankValues
  <2> HIDE DEF fusion
  <2>2. Between(fusion, 21 + 1, 21 + 1)
    BY <2>1, Consecutive
  <2> QED
    BY <2>1, <2>2 DEF In
<1>3. Between(e, 23, 23)
  <2>1. e \in Seq(Steps) /\ Len(e) = 1 /\ \A k \in 1 .. 1 : Rank(e[k]) = 22 + k
    BY StepNames, RankValues
  <2> HIDE DEF e
  <2>2. Between(e, 22 + 1, 22 + 1)
    BY <2>1, Consecutive
  <2> QED
    BY <2>2
<1>4. /\ Between(net, 8, 19)
      /\ In("attack_classification", net)
      /\ ~ ("classify_only" \in i.goal) => In("zero_rtt_replay", net)
  <2> DEFINE first == <<"pcap_ingest", "traffic_statistics", "qlog_analysis",
                        "quic_handshake", "attack_classification", "anomaly_detection">>
             all == <<"zero_rtt_replay", "retry_token_abuse", "cid_exhaustion",
                      "flood", "slowloris", "mitm">>
             attacks == IF "classify_only" \in i.goal THEN <<>> ELSE all
  <2>1. first \in Seq(Steps) /\ Len(first) = 6 /\ first[5] = "attack_classification"
    BY StepNames
  <2>2. all \in Seq(Steps) /\ Len(all) = 6 /\ all[1] = "zero_rtt_replay"
    BY StepNames
  <2>3. net = first \o attacks
    BY DEF NetworkSteps
  <2> HIDE DEF first, all
  <2>4. attacks \in Seq(Steps)
    BY <2>2, EmptySeq
  <2>5. ~ ("classify_only" \in i.goal) => attacks = all
    OBVIOUS
  <2> HIDE DEF attacks, net
  <2>6. In("attack_classification", first) /\ In("zero_rtt_replay", all)
    BY <2>1, <2>2 DEF In
  <2>7. In("attack_classification", first \o attacks)
    BY <2>1, <2>4, <2>6, InJoin
  <2>8. ~ ("classify_only" \in i.goal) => In("zero_rtt_replay", first \o attacks)
    BY <2>1, <2>4, <2>5, <2>6, InJoin
  <2> QED
    BY <2>3, <2>7, <2>8, NetworkRanks DEF net
<1>5. PlanFor(i) = (((b \o n) \o c) \o f) \o e
  BY DEF PlanFor
<1> HIDE DEF net, fusion, e
<1>6. Between(b, 1, 7)
  BY BinaryRanks, OptionalBetween
<1>7. Between(n, 8, 19)
  BY <1>4, OptionalBetween
<1>8. Between(c, 20, 21)
  BY <1>1, OptionalBetween
<1>9. Between(f, 22, 22)
  BY <1>2, OptionalBetween
<1>10. i.pcap => n = net /\ f = fusion
  OBVIOUS
<1>11. i.pcap /\ i.binary => c = CrossSteps
  OBVIOUS
<1> HIDE DEF b, n, c, f
<1>12. Between(b \o n, 1, 19)
  BY <1>6, <1>7, JoinBetween
<1>13. Between((b \o n) \o c, 1, 21)
  BY <1>8, <1>12, JoinBetween
<1>14. Between(((b \o n) \o c) \o f, 1, 22)
  BY <1>9, <1>13, JoinBetween
<1>15. Between((((b \o n) \o c) \o f) \o e, 1, 23)
  BY <1>3, <1>14, JoinBetween
<1>16. ASSUME NEW a, In(a, n) \/ In(a, c) \/ In(a, f)
       PROVE  In(a, (((b \o n) \o c) \o f) \o e)
  <2>1. /\ b \in Seq(Steps) /\ n \in Seq(Steps) /\ c \in Seq(Steps)
        /\ f \in Seq(Steps) /\ e \in Seq(Steps)
        /\ b \o n \in Seq(Steps) /\ (b \o n) \o c \in Seq(Steps)
        /\ ((b \o n) \o c) \o f \in Seq(Steps)
    BY <1>3, <1>6, <1>7, <1>8, <1>9, <1>12, <1>13, <1>14 DEF Between
  <2>2. In(a, n) => In(a, b \o n)
    BY <2>1, InJoin
  <2>3. In(a, b \o n) \/ In(a, c) => In(a, (b \o n) \o c)
    BY <2>1, InJoin
  <2>4. In(a, (b \o n) \o c) \/ In(a, f) => In(a, ((b \o n) \o c) \o f)
    BY <2>1, InJoin
  <2>5. In(a, ((b \o n) \o c) \o f) => In(a, (((b \o n) \o c) \o f) \o e)
    BY <2>1, InJoin
  <2> QED
    BY <1>16, <2>2, <2>3, <2>4, <2>5
<1> QED
  BY <1>1, <1>2, <1>4, <1>5, <1>10, <1>11, <1>15, <1>16

------------------------------------------------------------------------------

\* An agent between planning and the summary raises for cause or returns with
\* a proper effect on the records.
Effective(a) == At(a) /\ \E uses, out : Return(a, uses, out) /\ Proper(a, uses, out)

LEMMA BinaryEffect ==
  ASSUME rec \in [Records -> Values], BinaryAgent
  PROVE  \E a \in Agents : Effective(a)
<1> USE DEF Effective, Agents, Steps, Nodes, At
<1>1. CASE StaticAnalysis
  <2>1. PICK v \in {"error", "bare", "imports", "strings", "both"} :
          Return("static_analysis", {}, [static_analysis |-> v])
    BY <1>1 DEF StaticAnalysis
  <2>2. Proper("static_analysis", {}, [static_analysis |-> v])
    BY DEF Proper, Values, FirstUse, Rank, FusionBasis
  <2> QED
    BY <1>1, <2>1, <2>2 DEF StaticAnalysis
<1>2. CASE ApiCrossrefs
  <2>1. \/ Return("api_crossrefs", {"static_analysis"}, Nothing)
        \/ \E v \in {"absent", "written"} :
             Return("api_crossrefs", {"static_analysis"},
                    [api_crossrefs |-> "written", api_crossref_analysis |-> v])
    BY <1>2 DEF ApiCrossrefs
  <2>2. Proper("api_crossrefs", {"static_analysis"}, Nothing)
    BY DEF Proper, Nothing, Values, FirstUse, Rank, FusionBasis
  <2>3. \A v \in {"absent", "written"} :
          Proper("api_crossrefs", {"static_analysis"},
                 [api_crossrefs |-> "written", api_crossref_analysis |-> v])
    BY DEF Proper, Values, FirstUse, Rank, FusionBasis
  <2> QED
    BY <1>2, <2>1, <2>2, <2>3 DEF ApiCrossrefs
<1>3. CASE StringThreat
  <2>1. \/ Return("string_threat_analysis", {"static_analysis"}, Nothing)
        \/ \E v \in {"clean", "risky"} :
             Return("string_threat_analysis", {"static_analysis"},
                    [string_threat_analysis |-> v])
    BY <1>3 DEF StringThreat
  <2>2. Proper("string_threat_analysis", {"static_analysis"}, Nothing)
    BY DEF Proper, Nothing, Values, FirstUse, Rank, FusionBasis
  <2>3. \A v \in {"clean", "risky"} :
          Proper("string_threat_analysis", {"static_analysis"},
                 [string_threat_analysis |-> v])
    BY DEF Proper, Values, FirstUse, Rank, FusionBasis
  <2> QED
    BY <1>3, <2>1, <2>2, <2>3 DEF StringThreat
<1>4. CASE StringCrossref
  <2> DEFINE uses == {"static_analysis", "string_threat_analysis"}
  <2>1. PICK after \in Values :
          \/ Return("string_crossref_analysis", uses, [string_threat_analysis |-> after])
          \/ Return("string_crossref_analysis", uses,
                    [string_threat_analysis |-> after,
                     string_crossref_analysis |-> "written"])
    BY <1>4 DEF StringCrossref, Values, Records
  <2>2. /\ Proper("string_crossref_analysis", uses, [string_threat_analysis |-> after])
        /\ Proper("string_crossref_analysis", uses,
                  [string_threat_analysis |-> after, string_crossref_analysis |-> "written"])
    BY DEF Proper, Values, FirstUse, Rank, FusionBasis
  <2> QED
    BY <1>4, <2>1, <2>2 DEF StringCrossref
<1>5. CASE ApiClustering
  <2> DEFINE uses == {"static_analysis", "api_crossrefs", "api_analysis"}
  <2>1. \/ Return("api_clustering", {"static_analysis"}, [api_analysis |-> "empty"])
        \/ Return("api_clustering", uses, [api_analysis |-> "written"])
        \/ Return("api_clustering", uses, Nothing)
    BY <1>5 DEF ApiClustering
  <2>2. /\ Proper("api_clustering", {"static_analysis"}, [api_analysis |-> "empty"])
        /\ Proper("api_clustering", uses, [api_analysis |-> "written"])
        /\ Proper("api_clustering", uses, Nothing)
    BY DEF Proper, Nothing, Values, FirstUse, Rank, FusionBasis
  <2> QED
    BY <1>5, <2>1, <2>2 DEF ApiClustering
<1>6. CASE Capabilities
  <2> DEFINE uses == {"static_analysis", "api_analysis", "string_threat_analysis"}
  <2>1. \/ Return("capabilities_analysis", {"static_analysis"}, Nothing)
        \/ Return("capabilities_analysis", uses, [capabilities |-> "written"])
    BY <1>6 DEF Capabilities
  <2>2. /\ Proper("capabilities_analysis", {"static_analysis"}, Nothing)
        /\ Proper("capabilities_analysis", uses, [capabilities |-> "written"])
    BY DEF Proper, Nothing, Values, FirstUse, Rank, FusionBasis
  <2> QED
    BY <1>6, <2>1, <2>2 DEF Capabilities
<1>7. CASE BinarySummary
  <2> DEFINE uses == {"static_analysis", "capabilities", "string_threat_analysis",
                      "api_crossrefs"}
  <2>1. Return("binary_summary", uses, [binary_summary |-> "written"])
    BY <1>7 DEF BinarySummary
  <2>2. Proper("binary_summary", uses, [binary_summary |-> "written"])
    BY DEF Proper, Values, FirstUse, Rank, FusionBasis
  <2> QED
    BY <1>7, <2>1, <2>2 DEF BinarySummary
<1> QED
  BY <1>1, <1>2, <1>3, <1>4, <1>5, <1>6, <1>7 DEF BinaryAgent

LEMMA NetworkEffect ==
  ASSUME NetworkAgent
  PROVE  RaisesForCause \/ \E a \in Agents : Effective(a)
<1> USE DEF Effective, Agents, Steps, Nodes, At
<1>1. CASE PcapIngest
  <2>1. \E out \in {Nothing, [ingest_error |-> "written"],
                    [connections |-> "empty"], [connections |-> "some"]} :
          Return("pcap_ingest", {}, out)
    BY <1>1 DEF PcapIngest
  <2>2. /\ Proper("pcap_ingest", {}, Nothing)
        /\ Proper("pcap_ingest", {}, [ingest_error |-> "written"])
        /\ Proper("pcap_ingest", {}, [connections |-> "empty"])
        /\ Proper("pcap_ingest", {}, [connections |-> "some"])
    BY DEF Proper, Nothing, Values, FirstUse, Rank, FusionBasis
  <2> QED
    BY <1>1, <2>1, <2>2 DEF PcapIngest
<1>2. CASE TrafficStatistics
  <2>1. \E v \in {"empty", "some"} :
          Return("traffic_statistics", {"connections"}, [statistics |-> v])
    BY <1>2 DEF TrafficStatistics
  <2>2. \A v \in {"empty", "some"} :
          Proper("traffic_statistics", {"connections"}, [statistics |-> v])
    BY DEF Proper, Values, FirstUse, Rank, FusionBasis
  <2> QED
    BY <1>2, <2>1, <2>2 DEF TrafficStatistics
<1>3. CASE QlogAnalysis
  <2>1. \/ RaisesForCause
        \/ \E v \in {"available", "unavailable"} :
             Return("qlog_analysis", {}, [qlog_features |-> v])
    BY <1>3 DEF QlogAnalysis, RaisesForCause
  <2>2. \A v \in {"available", "unavailable"} :
          Proper("qlog_analysis", {}, [qlog_features |-> v])
    BY DEF Proper, Values, FirstUse, Rank, FusionBasis
  <2> QED
    BY <1>3, <2>1, <2>2 DEF QlogAnalysis
<1>4. CASE QuicHandshake
  <2> DEFINE uses == {"connections", "statistics"}
  <2>1. \/ Return("quic_handshake", {"connections"}, Nothing)
        \/ Return("quic_handshake", uses, [handshake_analysis |-> "written"])
    BY <1>4 DEF QuicHandshake
  <2>2. /\ Proper("quic_handshake", {"connections"}, Nothing)
        /\ Proper("quic_handshake", uses, [handshake_analysis |-> "written"])
    BY DEF Proper, Nothing, Values, FirstUse, Rank, FusionBasis
  <2> QED
    BY <1>4, <2>1, <2>2 DEF QuicHandshake
<1>5. CASE AttackClassification
  <2> DEFINE uses == {"statistics", "handshake_analysis", "connections"}
             out == [attack_classification |-> "written"]
  <2>1. \/ NoStatistics /\ Return("attack_classification", {"statistics"}, Nothing)
        \/ Return("attack_classification", uses, out)
    BY <1>5 DEF AttackClassification
  <2>2. NoStatistics => Proper("attack_classification", {"statistics"}, Nothing)
    BY DEF Proper, Nothing, Values, FirstUse, Rank, FusionBasis
  <2>3. out = [r \in {"attack_classification"} |-> "written"]
    OBVIOUS
  <2>4. Proper("attack_classification", uses, out)
    BY <2>3 DEF Proper, Values, FirstUse, Rank, FusionBasis
  <2> QED
    BY <1>5, <2>1, <2>2, <2>4 DEF AttackClassification
<1>6. CASE AnomalyDetection
  <2> DEFINE uses == {"statistics", "attack_classification", "connections",
                      "handshake_analysis"}
  <2>1. Return("anomaly_detection", uses, [anomalies |-> "written"])
    BY <1>6 DEF AnomalyDetection
  <2>2. Proper("anomaly_detection", uses, [anomalies |-> "written"])
    BY DEF Proper, Values, FirstUse, Rank, FusionBasis
  <2> QED
    BY <1>6, <2>1, <2>2 DEF AnomalyDetection
<1>7. ASSUME NEW a \in AttackAgents, AttackAgent(a)
      PROVE  RaisesForCause \/ Effective(a)
  <2> DEFINE uses == {"attack_classification", "connections", "statistics",
                      "qlog_features", "static_analysis"}
             out == [r \in {a} |-> "written"]
  <2>1. RaisesForCause \/ Return(a, uses, out)
    BY <1>7 DEF AttackAgent, RaisesForCause
  <2>2. Rank(a) \in 14 .. 19
    BY RankValues DEF AttackAgents
  <2>3. a \notin {"statistics", "static_analysis", "evidence_fusion",
                  "attack_classification", "quic_binary_assessment"}
    BY DEF AttackAgents
  <2>4. Rank(a) <= FirstUse(a)
    BY <2>2 DEF AttackAgents, FirstUse
  <2>5. \A r \in uses : FirstUse(r) <= 14
    BY DEF FirstUse
  <2>6. DOMAIN out = {a} /\ out[a] = "written"
    OBVIOUS
  <2>7. \A r \in uses : FirstUse(r) <= Rank(a)
    BY <2>2, <2>5 DEF FirstUse
  <2> HIDE DEF uses
  <2>8. Proper(a, uses, out)
    BY <2>3, <2>4, <2>6, <2>7 DEF Proper, Values
  <2> QED
    BY <1>7, <2>1, <2>8 DEF AttackAgent
<1>8. AttackAgents \subseteq Agents
  BY DEF AttackAgents
<1>9. CASE ZeroRttReplay \/ RetryTokenAbuse \/ CidExhaustion \/ Flood \/ Slowloris \/ Mitm
  BY <1>7, <1>8, <1>9
     DEF ZeroRttReplay, RetryTokenAbuse, CidExhaustion, Flood, Slowloris, Mitm, AttackAgents
<1> QED
  BY <1>1, <1>2, <1>3, <1>4, <1>5, <1>6, <1>9 DEF NetworkAgent

LEMMA CrossEffect ==
  ASSUME CrossAgent
  PROVE  \E a \in Agents : Effective(a)
<1> USE DEF Effective, Agents, Steps, Nodes, At
<1>1. CASE QuicBinaryAssessment
  <2> DEFINE uses == {"static_analysis", "attack_classification", "statistics"}
             out == [quic_binary_assessment |-> "written"]
  <2>1. \/ NoStaticData /\ Return("quic_binary_assessment", {"static_analysis"}, Nothing)
        \/ Return("quic_binary_assessment", uses, out)
    BY <1>1 DEF QuicBinaryAssessment
  <2>2. NoStaticData => Proper("quic_binary_assessment", {"static_analysis"}, Nothing)
    BY DEF Proper, Nothing, Values, FirstUse, Rank, FusionBasis
  <2>3. out = [r \in {"quic_binary_assessment"} |-> "written"]
    OBVIOUS
  <2>4. Proper("quic_binary_assessment", uses, out)
    BY <2>3 DEF Proper, Values, FirstUse, Rank, FusionBasis
  <2> QED
    BY <1>1, <2>1, <2>2, <2>4 DEF QuicBinaryAssessment
<1>2. CASE Correlation
  <2> DEFINE uses == {"static_analysis", "anomalies", "connections"}
  <2>1. Return("correlation", uses, [correlation |-> "written"])
    BY <1>2 DEF Correlation
  <2>2. Proper("correlation", uses, [correlation |-> "written"])
    BY DEF Proper, Values, FirstUse, Rank, FusionBasis
  <2> QED
    BY <1>2, <2>1, <2>2 DEF Correlation
<1>3. CASE EvidenceFusion
  <2> DEFINE based == \E r \in FusionBasis : rec[r] # "absent"
             out == [evidence_fusion |-> "written"]
  <2>1. \/ ~ based /\ Return("evidence_fusion", FusionUses, Nothing)
        \/ Return("evidence_fusion", FusionUses, out)
    BY <1>3 DEF EvidenceFusion
  <2>2. \A r \in FusionUses : FirstUse(r) <= Rank("evidence_fusion")
    BY DEF FusionUses, FirstUse, Rank
  <2>3. ~ based => Proper("evidence_fusion", FusionUses, Nothing)
    BY <2>2 DEF Proper, Nothing
  <2>4. out = [r \in {"evidence_fusion"} |-> "written"]
    OBVIOUS
  <2>5. Proper("evidence_fusion", FusionUses, out)
    BY <2>2, <2>4 DEF Proper, Values, FirstUse, Rank, FusionBasis
  <2> QED
    BY <1>3, <2>1, <2>3, <2>5 DEF EvidenceFusion
<1> QED
  BY <1>1, <1>2, <1>3 DEF CrossAgent

------------------------------------------------------------------------------

\* The step of one agent, whichever it is.
LEMMA ReturnKeepsRecords ==
  ASSUME PipelineInv, RecordInv, NEW a \in Steps, At(a), NEW uses, NEW out,
         Return(a, uses, out), Proper(a, uses, out)
  PROVE  RecordInv'
<1>1. /\ PlanOK(plan) /\ plan # <<>>
      /\ step \in 0 .. Len(plan) - 1
      /\ a = plan[step + 1]
  BY RunsPlanned DEF PlanOK
<1>2. PICK n \in Nat : n = step
  BY <1>1 DEF PlanOK
<1>3. /\ step' = n + 1 /\ plan' = plan /\ input' = input
      /\ rec' = [r \in Records |-> IF r \in DOMAIN out THEN out[r] ELSE rec[r]]
      /\ seen' = [r \in Records |-> IF r \in uses THEN rec'[r] ELSE seen[r]]
  BY <1>2 DEF Return
<1>4. Between(plan, 1, 23) /\ Len(plan) \in Nat
  BY <1>1, PlanRanks DEF RecordInv, PlanOK
\* The steps done come before a.
<1>5. \A k \in 1 .. n : Rank(plan[k]) < Rank(a)
  BY <1>1, <1>2, <1>4 DEF Between
<1>6. rec' \in [Records -> Values]
  BY <1>3 DEF Proper, RecordInv
<1>7. seen' \in [Records -> Values \cup {"unread"}]
  BY <1>3, <1>6 DEF RecordInv
\* What a overwrites without having used it, nobody has used.
<1>8. ASSUME NEW r \in Records, r \in DOMAIN out, r \notin uses
      PROVE  seen[r] = "unread"
  <2>1. Rank(a) <= FirstUse(r)
    BY <1>8 DEF Proper
  <2>2. CASE seen[r] # "unread"
    <3>1. n > 0 /\ FirstUse(r) <= Rank(plan[n])
      BY <1>2, <2>2 DEF RecordInv
    <3>2. Rank(plan[n]) < Rank(a)
      BY <1>5, <3>1
    <3>3. FirstUse(r) \in Nat /\ Rank(plan[n]) \in Nat /\ Rank(a) \in Nat
      BY RankType DEF FirstUse
    <3> QED
      BY <2>1, <3>1, <3>2, <3>3
  <2> QED
    BY <2>2
<1>9. NothingStale'
  BY <1>3, <1>8 DEF RecordInv, NothingStale
<1>10. ASSUME NEW r \in Records, seen'[r] # "unread"
       PROVE  step' > 0 /\ FirstUse(r) <= Rank(plan'[step'])
  <2>1. plan'[step'] = a /\ step' > 0
    BY <1>1, <1>2, <1>3
  <2>2. CASE r \in uses
    BY <2>1, <2>2 DEF Proper
  <2>3. CASE r \notin uses
    <3>1. n > 0 /\ FirstUse(r) <= Rank(plan[n])
      BY <1>2, <1>3, <1>10, <2>3 DEF RecordInv
    <3>2. Rank(plan[n]) < Rank(a)
      BY <1>5, <3>1
    <3>3. FirstUse(r) \in Nat /\ Rank(plan[n]) \in Nat /\ Rank(a) \in Nat
      BY RankType DEF FirstUse
    <3> QED
      BY <2>1, <3>1, <3>2, <3>3
  <2> QED
    BY <2>2, <2>3
<1> DEFINE kept == {"attack_classification", "zero_rtt_replay", "retry_token_abuse",
                    "cid_exhaustion", "quic_binary_assessment", "evidence_fusion",
                    "static_analysis"}
<1>11. \A r \in kept \cup {"statistics"} : r \in Records
  BY DEF Records, AttackAgents
<1>12. \A r \in kept : rec'[r] # rec[r] => a = r
  <2>1. \A r \in kept : r \in DOMAIN out => a = r
    BY DEF Proper, FusionBasis
  <2> QED
    BY <1>3, <1>11, <2>1
<1>13. rec'["statistics"] # rec["statistics"] => a = "traffic_statistics"
  BY <1>3, <1>11 DEF Proper
\* The records of the steps done stay as they are.
<1>14. ASSUME NEW k \in 1 .. n PROVE Left(plan[k])'
  <2>1. PICK b : b = plan[k]
    OBVIOUS
  <2>2. Rank(b) < Rank(a) /\ plan'[k] = b /\ Left(b)
    BY <1>2, <1>3, <1>5, <2>1 DEF RecordInv
  <2>3. CASE b = "attack_classification"
    <3>1. a \notin {"attack_classification", "traffic_statistics"}
      BY <2>2, <2>3, RankValues
    <3>2. rec'[b] = rec[b] /\ rec'["statistics"] = rec["statistics"]
      BY <1>12, <1>13, <2>3, <3>1
    <3> QED
      BY <2>2, <2>3, <3>2 DEF Left, NoStatistics
  <2>4. CASE b = "zero_rtt_replay"
    <3>1. rec'[b] = rec[b]
      BY <1>12, <2>2, <2>4, RankValues
    <3> QED
      BY <2>2, <2>4, <3>1 DEF Left
  <2>5. CASE b = "quic_binary_assessment"
    <3>1. a \notin {"quic_binary_assessment", "static_analysis"}
      BY <2>2, <2>5, RankValues
    <3>2. rec'[b] = rec[b] /\ rec'["static_analysis"] = rec["static_analysis"]
      BY <1>12, <2>5, <3>1
    <3> QED
      BY <2>2, <2>5, <3>2 DEF Left, NoStaticData
  <2>6. CASE b = "evidence_fusion"
    <3>1. a \notin FusionBasis \cup {"evidence_fusion"}
      BY <2>2, <2>6, RankValues DEF FusionBasis
    <3>2. \A r \in FusionBasis \cup {"evidence_fusion"} : rec'[r] = rec[r]
      BY <1>12, <3>1 DEF FusionBasis
    <3> QED
      BY <2>2, <2>6, <3>2 DEF Left
  <2>7. CASE b \notin {"attack_classification", "zero_rtt_replay", "quic_binary_assessment",
                       "evidence_fusion"}
    BY <2>2, <2>7 DEF Left
  <2> QED
    BY <2>3, <2>4, <2>5, <2>6, <2>7
\* And a has left its own.
<1>15. Left(a)'
  <2>1. CASE a = "attack_classification"
    <3>1. NoStatistics \/ rec'[a] = "written"
      BY <1>3, <1>11, <2>1 DEF Proper
    <3>2. rec'["statistics"] = rec["statistics"]
      BY <1>13, <2>1
    <3> QED
      BY <2>1, <3>1, <3>2 DEF Left, NoStatistics
  <2>2. CASE a = "zero_rtt_replay"
    <3>1. rec'[a] = "written"
      BY <1>3, <1>11, <2>2 DEF Proper
    <3> QED
      BY <2>2, <3>1 DEF Left
  <2>3. CASE a = "quic_binary_assessment"
    <3>1. NoStaticData \/ rec'[a] = "written"
      BY <1>3, <1>11, <2>3 DEF Proper
    <3>2. rec'["static_analysis"] = rec["static_analysis"]
      BY <1>12, <2>3
    <3> QED
      BY <2>3, <3>1, <3>2 DEF Left, NoStaticData
  <2>4. CASE a = "evidence_fusion"
    <3>1. (\A r \in FusionBasis : rec[r] = "absent") \/ rec'[a] = "written"
      BY <1>3, <1>11, <2>4 DEF Proper
    <3>2. \A r \in FusionBasis : rec'[r] = rec[r]
      BY <1>12, <2>4 DEF FusionBasis
    <3> QED
      BY <2>4, <3>1, <3>2 DEF Left
  <2>5. CASE a \notin {"attack_classification", "zero_rtt_replay", "quic_binary_assessment",
                       "evidence_fusion"}
    BY <2>5 DEF Left
  <2> QED
    BY <2>1, <2>2, <2>3, <2>4, <2>5
<1>16. \A k \in 1 .. step' : Left(plan[k])'
  <2>1. \A k \in 1 .. n + 1 : k \in 1 .. n \/ k = n + 1
    BY <1>2
  <2>2. plan'[n + 1] = a
    BY <1>1, <1>2, <1>3
  <2>3. Left(plan[n + 1])'
    BY <1>15, <2>2 DEF Left, NoStatistics, NoStaticData
  <2> QED
    BY <1>3, <1>14, <2>1, <2>3
<1> QED
  BY <1>3, <1>6, <1>7, <1>9, <1>10, <1>16 DEF RecordInv

(***************************************************************************)
(* The records follow the plan: what was used is not overwritten, and each *)
(* step that the fusion depends on has left what it owes.                  *)
(***************************************************************************)
THEOREM PipelineRecords == LimitSuffices => (Spec => []RecordInv)
<1> SUFFICES ASSUME LimitSuffices PROVE Spec => []RecordInv
  OBVIOUS
<1>1. Init => RecordInv
  BY DEF Init, RecordInv, NothingStale, Values
<1>2. PipelineInv /\ PipelineInv' /\ RecordInv /\ [Next]_vars => RecordInv'
  <2> SUFFICES ASSUME PipelineInv, PipelineInv', RecordInv, [Next]_vars PROVE RecordInv'
    OBVIOUS
  <2>1. CASE Planning
    <3>1. /\ plan' = PlanFor(input) /\ input' = input /\ step' = 0
          /\ rec' = rec /\ seen' = seen
      BY <2>1 DEF Planning
    <3>2. step = 0
      <4>1. node = "planning"
        BY <2>1 DEF Planning, At
      <4>2. CASE plan # <<>>
        <5>1. PlanOK(plan) /\ step \in 0 .. Len(plan) /\ RouteNext(plan, step) = "planning"
          BY <4>1, <4>2 DEF PipelineInv
        <5>2. plan[step + 1] = "planning" /\ step + 1 \in 1 .. Len(plan)
          BY <5>1 DEF RouteNext, PlanOK
        <5> QED
          BY <5>1, <5>2 DEF PlanOK, Steps
      <4>3. CASE plan = <<>>
        BY <4>3 DEF PipelineInv
      <4> QED
        BY <4>2, <4>3
    <3>3. \A r \in Records : seen[r] = "unread"
      BY <3>2 DEF RecordInv
    <3> QED
      BY <3>1, <3>3 DEF RecordInv, NothingStale
  <2>2. ASSUME UNCHANGED <<input, plan, step, rec, seen>> PROVE RecordInv'
    BY <2>2 DEF RecordInv, NothingStale, Left, NoStatistics, NoStaticData
  <2>3. ASSUME NEW a \in Agents, Effective(a) PROVE RecordInv'
    BY <2>3, ReturnKeepsRecords DEF Effective, Agents
  <2>4. CASE BinaryAgent
    BY <2>3, <2>4, BinaryEffect DEF RecordInv
  <2>5. CASE NetworkAgent
    BY <2>2, <2>3, <2>5, NetworkEffect DEF RaisesForCause, Raise
  <2>6. CASE CrossAgent
    BY <2>3, <2>6, CrossEffect
  <2>7. CASE FinalSummary
    <3>1. At("final_summary") /\ Return("final_summary", {}, [final_report |-> "written"])
      BY <2>7 DEF FinalSummary
    <3>2. Proper("final_summary", {}, [final_report |-> "written"])
      BY DEF Proper, Values, FirstUse, Rank, FusionBasis
    <3>3. "final_summary" \in Steps
      BY StepNames
    <3> QED
      BY <3>1, <3>2, <3>3, ReturnKeepsRecords
  <2>8. CASE Ended \/ UNCHANGED vars
    BY <2>2, <2>8 DEF Ended, vars, control
  <2> QED
    BY <2>1, <2>4, <2>5, <2>6, <2>7, <2>8 DEF Next
<1> QED
  BY <1>1, <1>2, PipelineInvariant, PTL DEF Spec

\* NothingStale: for every input and every outcome of the agents, no agent
\* works from a record that a later one still writes.
THEOREM PipelineNothingStale == LimitSuffices => (Spec => []NothingStale)
<1>1. RecordInv => NothingStale
  BY DEF RecordInv
<1> QED
  BY <1>1, PipelineRecords, PTL

\* FusionDelivers: the fusion is given up only when there is nothing to fuse.
THEOREM PipelineFusionDelivers == LimitSuffices => (Spec => []FusionDelivers)
<1>1. PipelineInv /\ RecordInv => FusionDelivers
  <2> SUFFICES ASSUME PipelineInv, RecordInv, status = "finished", input.pcap,
                      rec["evidence_fusion"] = "absent"
               PROVE  /\ NoStatistics
                      /\ "classify_only" \in input.goal
                      /\ ~ input.binary \/ NoStaticData
    BY DEF FusionDelivers
  <2>1. plan = PlanFor(input) /\ step = Len(plan)
    BY DEF PipelineInv, RecordInv
  <2>2. ASSUME NEW a, In(a, plan) PROVE Left(a)
    BY <2>1, <2>2 DEF In, RecordInv
  <2>3. \A r \in FusionBasis : rec[r] = "absent"
    <3>1. Left("evidence_fusion")
      BY <2>1, <2>2, PlanRanks
    <3> QED
      BY <3>1 DEF Left
  <2>4. NoStatistics
    <3>1. Left("attack_classification")
      BY <2>1, <2>2, PlanRanks
    <3> QED
      BY <2>3, <3>1 DEF Left, FusionBasis
  <2>5. "classify_only" \in input.goal
    <3>1. CASE "classify_only" \notin input.goal
      <4>1. Left("zero_rtt_replay")
        BY <2>1, <2>2, <3>1, PlanRanks
      <4> QED
        BY <2>3, <4>1 DEF Left, FusionBasis
    <3> QED
      BY <3>1
  <2>6. ASSUME input.binary PROVE NoStaticData
    <3>1. Left("quic_binary_assessment")
      BY <2>1, <2>2, <2>6, PlanRanks
    <3> QED
      BY <2>3, <3>1 DEF Left, FusionBasis
  <2> QED
    BY <2>4, <2>5, <2>6
<1> QED
  BY <1>1, PipelineInvariant, PipelineRecords, PTL

\* Type correctness: every node that runs, every plan and every record is of
\* the kind that the code gives it.
THEOREM PipelineTyped == LimitSuffices => (Spec => []PipelineTypeOK)
<1> SUFFICES ASSUME LimitSuffices PROVE Spec => []PipelineTypeOK
  OBVIOUS
<1>1. PipelineInv /\ RecordInv => PipelineTypeOK
  <2> SUFFICES ASSUME PipelineInv, RecordInv PROVE PipelineTypeOK
    OBVIOUS
  <2>1. Steps \subseteq Nodes /\ "planning" \in Nodes
    BY DEF Steps, Nodes
  <2>2. CASE plan = <<>>
    <3>1. step = 0 /\ plan \in Seq(Nodes) /\ Len(plan) = 0
      BY <2>2, EmptySeq DEF PipelineInv
    <3>2. completed = <<>>
      BY <2>2, <3>1 DEF PipelineInv
    <3>3. completed \in Seq(Nodes)
      BY <3>2, EmptySeq
    <3> QED
      BY <2>1, <2>2, <3>1, <3>3, PipelineAssumption
      DEF PipelineTypeOK, PipelineInv, RecordInv, LimitSuffices
  <2>3. CASE plan # <<>>
    <3>1. plan \in Seq(Steps) /\ Len(plan) \in 1 .. 23 /\ step \in 0 .. Len(plan)
      BY <2>3 DEF PipelineInv, PlanOK
    <3>2. plan \in Seq(Nodes)
      BY <2>1, <3>1
    <3>3. completed \in Seq(Nodes)
      BY <3>1, <3>2 DEF PipelineInv
    <3>4. node \in Nodes \cup {"END"}
      BY <2>3, <3>1, <3>2 DEF PipelineInv, RouteNext
    <3>5. executed \in 0 .. RecursionLimit
      <4>1. RecursionLimit \in Nat /\ RecursionLimit >= 25 /\ executed = step + 1
        BY <2>3, PipelineAssumption DEF PipelineInv, LimitSuffices
      <4>2. PICK n \in 0 .. 23 : n = step
        <5>1. PICK m \in 1 .. 23 : m = Len(plan)
          BY <3>1
        <5>2. step \in 0 .. m
          BY <3>1, <5>1
        <5>3. 0 .. m \subseteq 0 .. 23
          OBVIOUS
        <5> QED
          BY <5>2, <5>3, Zenon
      <4>3. executed = n + 1 /\ n + 1 <= RecursionLimit /\ n + 1 \in Nat
        BY <4>1, <4>2
      <4> QED
        BY <4>1, <4>3
    <3> QED
      BY <3>1, <3>2, <3>3, <3>4, <3>5 DEF PipelineTypeOK, PipelineInv, RecordInv
  <2> QED
    BY <2>2, <2>3
<1> QED
  BY <1>1, PipelineInvariant, PipelineRecords, PTL

==============================================================================
