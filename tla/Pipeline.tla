------------------------------- MODULE Pipeline -------------------------------
(***************************************************************************)
(* core/orchestrator.py and the agents of domains/binary/workflow.py,      *)
(* domains/network/workflow.py and correlation/engine.py: one run of the   *)
(* LangGraph workflow, from planning to END.                               *)
(*                                                                         *)
(* Each agent is one node of the graph and one action here.  What it       *)
(* leaves in binary_domain, network_domain, correlation or final_report is *)
(* a record; of its content the model keeps what a later agent branches    *)
(* on.  An answer of the LLM and the error that stands in for it are both  *)
(* "written": no agent tells them apart.  The prompts, the counters and    *)
(* the console messages are left out.                                      *)
(***************************************************************************)
EXTENDS Naturals, Sequences

CONSTANTS
  RecursionLimit,    \* LangGraph's recursion_limit, 25 unless configured
  Inputs             \* what callers may ask for, see Input

(***************************************************************************)
(* goal: the words planning_agent looks for in the goal.                   *)
(* qlog: where the caller put qlog_dir: nowhere, in the state (where the   *)
(* graph drops it: OrcaWorkflowState has no such key), in network_domain,  *)
(* or there with an event that the counters cannot read: one whose trigger *)
(* is null, or a list, as _parse_json lets them through from draft-01.     *)
(* legion: whether the .status files beside the capture can be compared.   *)
(***************************************************************************)
Words == {"capabilities", "malware", "triage", "comprehensive", "classify_only"}

Input ==
  [binary : BOOLEAN, pcap : BOOLEAN, goal : SUBSET Words,
   qlog : {"none", "dropped", "kept", "odd"}, legion : {"fine", "malformed"}]

ASSUME PipelineAssumption ==
  /\ RecursionLimit \in Nat
  /\ Inputs \subseteq Input

\* The repository has no orca.domains.malware: the import fails.
MalwareAvailable == FALSE

AttackAgents ==
  {"zero_rtt_replay", "retry_token_abuse", "cid_exhaustion", "flood", "slowloris", "mitm"}

MalwareAgents == {"triage", "ioc_extraction", "mitre_mapping", "malware_assessment"}

\* The nodes of the graph: the agent map, planning and final_summary.
Nodes ==
  {"planning", "static_analysis", "api_crossrefs", "string_threat_analysis",
   "string_crossref_analysis", "api_clustering", "capabilities_analysis",
   "binary_summary", "pcap_ingest", "traffic_statistics", "qlog_analysis",
   "quic_handshake", "attack_classification", "anomaly_detection",
   "quic_binary_assessment", "evidence_fusion", "correlation", "final_summary"}
  \cup AttackAgents
  \cup (IF MalwareAvailable THEN MalwareAgents ELSE {})

\* Keys of the state and of its two domain dicts.
Records ==
  {"static_analysis", "api_crossrefs", "api_crossref_analysis", "string_threat_analysis",
   "string_crossref_analysis", "api_analysis", "capabilities", "binary_summary",
   "connections", "ingest_error", "statistics", "qlog_features", "handshake_analysis",
   "attack_classification", "anomalies", "quic_binary_assessment", "correlation",
   "evidence_fusion", "final_report"} \cup AttackAgents

Values ==
  {"absent", "written",
   "error", "bare", "imports", "strings", "both",  \* static_analysis
   "clean", "risky", "extended",                   \* string_threat_analysis
   "empty", "some",                                \* connections, statistics, api_analysis
   "available", "unavailable"}                     \* qlog_features

VARIABLES
  input,      \* what the caller asked for
  node,       \* the node that runs next, or END
  status,     \* how the run stands
  executed,   \* how many nodes have run
  plan,       \* state["plan"]
  step,       \* state["current_step"]
  completed,  \* state["completed_steps"]
  rec,        \* the records
  seen        \* history: each record as the last agent to use it left it

control == <<node, status, executed, plan, step, completed>>
vars == <<input, control, rec, seen>>

Init ==
  /\ input \in Inputs
  /\ node = "planning"
  /\ status = "running"
  /\ executed = 0
  /\ plan = <<>>
  /\ step = 0
  /\ completed = <<>>
  /\ rec = [r \in Records |-> "absent"]
  /\ seen = [r \in Records |-> "unread"]


\* ------------------------------- planning ---------------------------------

\* Mutant of BinarySteps: the malware steps are planned whether or not the
\* domain is there.
BinaryStepsWithMalware(i) ==
  <<"static_analysis", "api_crossrefs", "string_threat_analysis", "string_crossref_analysis",
    "api_clustering", "capabilities_analysis",
    "triage", "ioc_extraction", "mitre_mapping", "malware_assessment", "binary_summary">>

BinarySteps(i) ==
  <<"static_analysis", "api_crossrefs", "string_threat_analysis", "string_crossref_analysis">>
  \o (IF i.goal \cap {"capabilities", "comprehensive"} # {}
      THEN <<"api_clustering", "capabilities_analysis">> ELSE <<>>)
  \o (IF MalwareAvailable /\ i.goal \cap {"malware", "triage", "comprehensive"} # {}
      THEN <<"triage", "ioc_extraction", "mitre_mapping", "malware_assessment">> ELSE <<>>)
  \o <<"binary_summary">>

NetworkSteps(i) ==
  <<"pcap_ingest", "traffic_statistics", "qlog_analysis",
    "quic_handshake", "attack_classification", "anomaly_detection">>
  \o (IF "classify_only" \in i.goal THEN <<>>
      ELSE <<"zero_rtt_replay", "retry_token_abuse", "cid_exhaustion",
             "flood", "slowloris", "mitm">>)

CrossSteps == <<"quic_binary_assessment", "correlation">>

\* Mutant of PlanFor: the cross-domain steps come after the fusion.
PlanFusionEarly(i) ==
  (IF i.binary THEN BinarySteps(i) ELSE <<>>)
  \o (IF i.pcap THEN NetworkSteps(i) \o <<"evidence_fusion">> ELSE <<>>)
  \o (IF i.binary /\ i.pcap THEN CrossSteps ELSE <<>>)
  \o <<"final_summary">>

PlanFor(i) ==
  (IF i.binary THEN BinarySteps(i) ELSE <<>>)
  \o (IF i.pcap THEN NetworkSteps(i) ELSE <<>>)
  \o (IF i.binary /\ i.pcap THEN CrossSteps ELSE <<>>)
  \o (IF i.pcap THEN <<"evidence_fusion">> ELSE <<>>)
  \o <<"final_summary">>

\* ------------------------- LangGraph and routing --------------------------

\* route_next, on the plan p with s steps done.
RouteNext(p, s) == IF s >= Len(p) THEN "END" ELSE p[s + 1]

\* What the graph does when a node has run and route_next has named the next:
\* it stops at END, fails on a name that is no node, and gives up before the
\* superstep that would be one too many.
Follow(next) ==
  /\ node' = next
  /\ executed' = executed + 1
  /\ status' = IF next \notin Nodes \cup {"END"} THEN "no_such_node"
               ELSE IF executed' + 1 > RecursionLimit THEN "limit"
               ELSE IF next = "END" THEN "finished"
               ELSE "running"

At(a) == status = "running" /\ node = a

\* An agent returns, having used the records "uses" and written "out": its
\* name is appended to completed_steps and current_step moves on.
Return(a, uses, out) ==
  /\ step' = step + 1
  /\ completed' = Append(completed, a)
  /\ Follow(RouteNext(plan, step'))
  /\ rec' = [r \in Records |-> IF r \in DOMAIN out THEN out[r] ELSE rec[r]]
  /\ seen' = [r \in Records |-> IF r \in uses THEN rec'[r] ELSE seen[r]]
  /\ UNCHANGED <<input, plan>>

\* Nothing is written.
Nothing == [r \in {} |-> "absent"]

\* An exception leaves the agent and ends invoke().
Raise ==
  /\ status' = "raised"
  /\ UNCHANGED <<input, node, executed, plan, step, completed, rec, seen>>

Planning ==
  /\ At("planning")
  /\ plan' = PlanFor(input)
  /\ step' = 0
  /\ completed' = <<>>
  /\ Follow(RouteNext(plan', 0))
  /\ UNCHANGED <<input, rec, seen>>

\* ----------------------------- binary agents ------------------------------

HasImports == rec["static_analysis"] \in {"imports", "both"}
HasStrings == rec["static_analysis"] \in {"strings", "both"}
NoStaticData == rec["static_analysis"] \in {"absent", "error"}

StaticAnalysis ==
  /\ At("static_analysis")
  /\ \E v \in {"error", "bare", "imports", "strings", "both"} :
       Return("static_analysis", {}, [static_analysis |-> v])

\* The backend is reopened; its failure leaves an empty list.  The analysis of
\* the list is written only if the LLM gives one.
ApiCrossrefs ==
  /\ At("api_crossrefs")
  /\ \/ /\ ~ HasImports
        /\ Return("api_crossrefs", {"static_analysis"}, Nothing)
     \/ /\ HasImports
        /\ \E v \in {"absent", "written"} :
             Return("api_crossrefs", {"static_analysis"},
                    [api_crossrefs |-> "written", api_crossref_analysis |-> v])

StringThreat ==
  /\ At("string_threat_analysis")
  /\ \/ /\ ~ HasStrings
        /\ Return("string_threat_analysis", {"static_analysis"}, Nothing)
     \/ /\ HasStrings
        /\ \E v \in {"clean", "risky"} :
             Return("string_threat_analysis", {"static_analysis"},
                    [string_threat_analysis |-> v])

\* The suspicious strings of every category are appended to high_risk_strings,
\* the list in the record itself, whatever happens next; if no string scores
\* high enough the agent goes no further.
StringCrossref ==
  LET uses == {"static_analysis", "string_threat_analysis"}
      before == rec["string_threat_analysis"]
  IN  /\ At("string_crossref_analysis")
      /\ \E after \in {before} \cup (IF before = "risky" THEN {"extended"} ELSE {}) :
           \/ Return("string_crossref_analysis", uses, [string_threat_analysis |-> after])
           \/ /\ before = "risky"
              /\ Return("string_crossref_analysis", uses,
                        [string_threat_analysis |-> after,
                         string_crossref_analysis |-> "written"])

ApiClustering ==
  LET uses == {"static_analysis", "api_crossrefs", "api_analysis"}
  IN  /\ At("api_clustering")
      /\ \/ /\ ~ HasImports
            /\ Return("api_clustering", {"static_analysis"}, [api_analysis |-> "empty"])
         \/ HasImports /\ Return("api_clustering", uses, [api_analysis |-> "written"])
         \/ HasImports /\ Return("api_clustering", uses, Nothing)

Capabilities ==
  /\ At("capabilities_analysis")
  /\ \/ /\ NoStaticData
        /\ Return("capabilities_analysis", {"static_analysis"}, Nothing)
     \/ /\ ~ NoStaticData
        /\ Return("capabilities_analysis",
                  {"static_analysis", "api_analysis", "string_threat_analysis"},
                  [capabilities |-> "written"])

BinarySummary ==
  /\ At("binary_summary")
  /\ Return("binary_summary",
            {"static_analysis", "capabilities", "string_threat_analysis", "api_crossrefs"},
            [binary_summary |-> "written"])

\* ----------------------------- network agents -----------------------------

NoConnections == rec["connections"] \in {"absent", "empty"}
NoStatistics == rec["statistics"] \in {"absent", "empty"}

\* Without scapy nothing is written, with another failure only the error.
PcapIngest ==
  /\ At("pcap_ingest")
  /\ \E out \in {Nothing, [ingest_error |-> "written"],
                 [connections |-> "empty"], [connections |-> "some"]} :
       Return("pcap_ingest", {}, out)

TrafficStatistics ==
  /\ At("traffic_statistics")
  /\ Return("traffic_statistics", {"connections"},
            [statistics |-> IF NoConnections THEN "empty" ELSE "some"])

\* The counters stand outside the try: they call .get() on every event and
\* .lower() on the trigger of a connection_closed one.
QlogAnalysis ==
  /\ At("qlog_analysis")
  /\ \/ input.qlog = "odd" /\ Raise
     \/ /\ input.qlog # "odd"
        /\ Return("qlog_analysis", {},
                  [qlog_features |-> IF input.qlog = "kept" THEN "available" ELSE "unavailable"])

QuicHandshake ==
  /\ At("quic_handshake")
  /\ \/ /\ NoConnections
        /\ Return("quic_handshake", {"connections"}, Nothing)
     \/ /\ ~ NoConnections
        /\ Return("quic_handshake", {"connections", "statistics"},
                  [handshake_analysis |-> "written"])

AttackClassification ==
  /\ At("attack_classification")
  /\ \/ /\ NoStatistics
        /\ Return("attack_classification", {"statistics"}, Nothing)
     \/ /\ ~ NoStatistics
        /\ Return("attack_classification", {"statistics", "handshake_analysis", "connections"},
                  [attack_classification |-> "written"])

\* Mutant of AnomalyDetection: the step is logged under the record's name.
AnomalyDetectionMisnamed ==
  /\ At("anomaly_detection")
  /\ Return("anomalies",
            {"statistics", "attack_classification", "connections", "handshake_analysis"},
            [anomalies |-> "written"])

AnomalyDetection ==
  /\ At("anomaly_detection")
  /\ Return("anomaly_detection",
            {"statistics", "attack_classification", "connections", "handshake_analysis"},
            [anomalies |-> "written"])

\* The six attack-specific agents gather their evidence outside the try, the
\* success rates of the .status files among it, and then ask the LLM.
AttackAgent(a) ==
  /\ At(a)
  /\ \/ input.legion = "malformed" /\ Raise
     \/ /\ input.legion = "fine"
        /\ Return(a, {"attack_classification", "connections", "statistics",
                      "qlog_features", "static_analysis"},
                  [r \in {a} |-> "written"])

ZeroRttReplay == AttackAgent("zero_rtt_replay")
RetryTokenAbuse == AttackAgent("retry_token_abuse")
CidExhaustion == AttackAgent("cid_exhaustion")
Flood == AttackAgent("flood")
Slowloris == AttackAgent("slowloris")
Mitm == AttackAgent("mitm")

\* ----------------------- cross-domain agents, the end ---------------------

\* The record says "no QUIC code" or holds the LLM's assessment.
QuicBinaryAssessment ==
  /\ At("quic_binary_assessment")
  /\ \/ /\ NoStaticData
        /\ Return("quic_binary_assessment", {"static_analysis"}, Nothing)
     \/ /\ ~ NoStaticData
        /\ Return("quic_binary_assessment",
                  {"static_analysis", "attack_classification", "statistics"},
                  [quic_binary_assessment |-> "written"])

Correlation ==
  /\ At("correlation")
  /\ Return("correlation", {"static_analysis", "anomalies", "connections"},
            [correlation |-> "written"])

FusionUses ==
  {"attack_classification", "anomalies", "zero_rtt_replay", "retry_token_abuse",
   "cid_exhaustion", "quic_binary_assessment", "qlog_features", "statistics"}

\* Mutant of FusionBasis: the classifier's record is required.
FusionBasisClassifier == {"attack_classification"}

\* Fusion is skipped unless one of these is there.
FusionBasis ==
  {"attack_classification", "quic_binary_assessment", "zero_rtt_replay",
   "retry_token_abuse", "cid_exhaustion"}

EvidenceFusion ==
  LET based == \E r \in FusionBasis : rec[r] # "absent"
  IN  /\ At("evidence_fusion")
      /\ \/ ~ based /\ Return("evidence_fusion", FusionUses, Nothing)
         \/ based /\ Return("evidence_fusion", FusionUses, [evidence_fusion |-> "written"])

\* The summary is made of the two domain dicts as they stand.
FinalSummary ==
  /\ At("final_summary")
  /\ Return("final_summary", {}, [final_report |-> "written"])

BinaryAgent ==
  \/ StaticAnalysis \/ ApiCrossrefs \/ StringThreat \/ StringCrossref
  \/ ApiClustering \/ Capabilities \/ BinarySummary

NetworkAgent ==
  \/ PcapIngest \/ TrafficStatistics \/ QlogAnalysis \/ QuicHandshake
  \/ AttackClassification \/ AnomalyDetection
  \/ ZeroRttReplay \/ RetryTokenAbuse \/ CidExhaustion \/ Flood \/ Slowloris \/ Mitm

CrossAgent == QuicBinaryAssessment \/ Correlation \/ EvidenceFusion

\* The run is over.
Ended == status # "running" /\ UNCHANGED vars

Next == Planning \/ BinaryAgent \/ NetworkAgent \/ CrossAgent \/ FinalSummary \/ Ended

Spec == Init /\ [][Next]_vars

------------------------------------------------------------------------------

PipelineTypeOK ==
  /\ input \in Inputs
  /\ node \in Nodes \cup MalwareAgents \cup {"END"}
  /\ status \in {"running", "finished", "raised", "no_such_node", "limit"}
  /\ executed \in 0 .. RecursionLimit
  /\ plan \in Seq(Nodes)
  /\ step \in 0 .. Len(plan)
  /\ completed \in Seq(Nodes)
  /\ rec \in [Records -> Values]
  /\ seen \in [Records -> Values \cup {"unread"}]

\* completed_steps is always what current_step has covered of the plan, each
\* step once and in order, however agents skip, fail or fall back; and the
\* node that runs next is the one the plan names.
InPlanOrder ==
  /\ completed = SubSeq(plan, 1, step)
  /\ plan # <<>> => node = RouteNext(plan, step)

(***************************************************************************)
(* Every run ends with the final report after the last planned step, or in *)
(* one of the two exceptions that no agent catches.  In particular no plan *)
(* names a step without a node, and the longest plan, with its planning    *)
(* step, still fits under the recursion limit of LangGraph.                *)
(***************************************************************************)
EndsInReport ==
  /\ status \notin {"no_such_node", "limit"}
  /\ status = "finished" => completed = plan /\ rec["final_report"] = "written"
  /\ status = "raised" => input.qlog = "odd" \/ input.legion = "malformed"

\* No agent works from a record that a later agent still writes or changes.
NothingStale == \A r \in Records : seen[r] # "unread" => seen[r] = rec[r]

\* Fusion is given up only when there is nothing to fuse: the capture has no
\* statistics, the attack-specific agents were left out on purpose and there
\* is no static analysis to assess.
FusionDelivers ==
  status = "finished" /\ input.pcap /\ rec["evidence_fusion"] = "absent"
    => /\ NoStatistics
       /\ "classify_only" \in input.goal
       /\ ~ input.binary \/ NoStaticData

\* What orchestrator.py:59-62 says the attack-specific agents are run for: the
\* fusion agent has each attack class's evidence.
FusionHasEachClass ==
  rec["evidence_fusion"] = "written"
    => \A a \in AttackAgents : rec[a] # "absent" => seen[a] # "unread"

==============================================================================
