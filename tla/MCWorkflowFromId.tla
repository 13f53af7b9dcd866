--------------------------- MODULE MCWorkflowFromId ---------------------------
(***************************************************************************)
(* Model-checking instance of WorkflowFromId on small agent graphs: three *)
(* agents, any agent_agent link set to start from, one workflow linking    *)
(* two of them.                                                            *)
(***************************************************************************)
EXTENDS WorkflowFromId

CONSTANTS a1, a2, a3, w1

MCAgentIds == {a1, a2, a3}

\* Every agent_agent link set over the three agents, cycles included.
MCAllGraphs == SUBSET (MCAgentIds \X MCAgentIds)

\* Only acyclic graphs, here the empty one: cycles come from user edits.
MCNoGraph == {{}}

MCWorkflowLinks == {[workflow |-> w1, agent |-> a1], [workflow |-> w1, agent |-> a2]}

MCLLMConfig == [a \in MCAgentIds |-> "dict"]

=============================================================================
