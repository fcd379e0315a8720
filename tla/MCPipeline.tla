------------------------------ MODULE MCPipeline ------------------------------
(***************************************************************************)
(* Pipeline for every combination of inputs that planning_agent and the    *)
(* agents tell apart.                                                      *)
(***************************************************************************)
EXTENDS Pipeline

\* The goals of the command line ("network" has none of the words), the
\* quic_classify_only of planning_agent's comment, and a free-text goal.
Goals ==
  {{}, {"comprehensive"}, {"capabilities"}, {"malware"}, {"triage"},
   {"classify_only"}, {"capabilities", "classify_only"}}

MCInputs == {i \in Input : i.goal \in Goals}

==============================================================================
