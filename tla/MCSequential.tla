----------------------------- MODULE MCSequential -----------------------------
(***************************************************************************)
(* The components that one thread uses and that share nothing with each    *)
(* other, in one run: a behaviour is one of any of them, with the others   *)
(* at rest.                                                                *)
(***************************************************************************)
EXTENDS MCPipeline, MCLevelSlices, MCQlogScan, ClassifierVote, SimilarityIndex,
  Sandbox, FlowTable

CONSTANTS flood, normal, list, client, other, server

VARIABLE running    \* the component that runs

MCVars == <<running, vars, slicesVars, qlogVars, voteVars, indexVars, sandboxVars, flowVars>>

\* Some initial state of each component, for those that do not run.
PipelineAtRest == input = (CHOOSE i \in Inputs : TRUE) /\ Init
SlicesAtRest == cell = (CHOOSE c \in Cells : TRUE) /\ SlicesInit
QlogAtRest == qlog = File("records", "none", <<>>, <<>>) /\ QlogStart
SandboxAtRest == sandbox = "custom" /\ timeout = (CHOOSE t \in Timeouts : TRUE) /\ SandboxInit
FlowsAtRest == end = (CHOOSE e \in [Sockets -> Ends] : TRUE) /\ FlowInit

MCInit ==
  /\ running \in {"pipeline", "slices", "qlog", "vote", "index", "sandbox", "flows"}
  /\ IF running = "pipeline" THEN Init ELSE PipelineAtRest
  /\ IF running = "slices" THEN SlicesInit ELSE SlicesAtRest
  /\ IF running = "qlog" THEN QlogInit ELSE QlogAtRest
  /\ IF running = "sandbox" THEN SandboxInit ELSE SandboxAtRest
  /\ IF running = "flows" THEN FlowInit ELSE FlowsAtRest
  /\ VoteInit
  /\ IndexInit

RunPipeline ==
  /\ running = "pipeline" /\ Next
  /\ UNCHANGED <<running, slicesVars, qlogVars, voteVars, indexVars, sandboxVars, flowVars>>

RunSlices ==
  /\ running = "slices" /\ SlicesNext
  /\ UNCHANGED <<running, vars, qlogVars, voteVars, indexVars, sandboxVars, flowVars>>

RunQlog ==
  /\ running = "qlog" /\ QlogNext
  /\ UNCHANGED <<running, vars, slicesVars, voteVars, indexVars, sandboxVars, flowVars>>

RunVote ==
  /\ running = "vote" /\ VoteNext
  /\ UNCHANGED <<running, vars, slicesVars, qlogVars, indexVars, sandboxVars, flowVars>>

RunIndex ==
  /\ running = "index" /\ IndexNext
  /\ UNCHANGED <<running, vars, slicesVars, qlogVars, voteVars, sandboxVars, flowVars>>

RunSandbox ==
  /\ running = "sandbox" /\ SandboxNext
  /\ UNCHANGED <<running, vars, slicesVars, qlogVars, voteVars, indexVars, flowVars>>

RunFlows ==
  /\ running = "flows" /\ FlowNext
  /\ UNCHANGED <<running, vars, slicesVars, qlogVars, voteVars, indexVars, sandboxVars>>

MCNext ==
  \/ RunPipeline \/ RunSlices \/ RunQlog
  \/ RunVote \/ RunIndex \/ RunSandbox \/ RunFlows

MCSpec == MCInit /\ [][MCNext]_MCVars

==============================================================================
