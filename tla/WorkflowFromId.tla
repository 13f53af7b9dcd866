---------------------------- MODULE WorkflowFromId ----------------------------
(***************************************************************************)
(* workflow_from_id (database/utils.py, lines 31-85): an API request that  *)
(* rebuilds a workflow, its agents and their nested sub-agents from the    *)
(* rows, while users keep editing the agents through the API.              *)
(*                                                                         *)
(*   Request    lines 32-35  fetch the workflow, ValueError when missing;  *)
(*   GetLinks   line 36      fetch its workflow_agent links;               *)
(*   GetAgent   lines 51-79  get_agent(link.agent_id) for one link, in a   *)
(*                           new session: .data[0] of the agent query,     *)
(*                           config_list attached when llm_config is       *)
(*                           truthy (67-72), and get_agent again for every *)
(*                           agent of agent.agents (73), with no visited   *)
(*                           set;                                          *)
(*   Finish     lines 81-85  the agents list is returned.                  *)
(* One call of get_agent, with its nested calls, is one step: the users'   *)
(* edits interleave between the links of a workflow.                       *)
(*                                                                         *)
(* The Python stack allows MaxDepth nested get_agent calls; the next one   *)
(* raises RecursionError.                                                  *)
(***************************************************************************)
EXTENDS Naturals, FiniteSets

Gr == INSTANCE Graphs

CONSTANTS
    AgentIds,          \* the agent rows
    WorkflowIds,       \* the workflow rows
    NoWorkflow,        \* an id with no workflow row
    StartAgentGraphs,  \* the agent_agent link sets the database may start with
    StartWorkflowLinks,\* the workflow_agent links, records [workflow, agent]
    HasModels,         \* the agents with at least one agent_model link
    LLMConfig,         \* LLMConfig[a]: the llm_config stored in a's config
    MaxDepth,          \* nested get_agent calls the Python stack allows
    Edits,             \* the API edits users make: a subset of {"link", "delete"}
    MaxEdits           \* bound on the number of edits

\* The llm_config values the model tells apart: Python's {} , False, None and
\* a non-empty dict.
ConfigValues == {"{}", "False", "None", "dict"}

ASSUME WorkflowFromIdAssumption ==
    /\ IsFiniteSet(AgentIds)
    /\ NoWorkflow \notin WorkflowIds
    /\ StartAgentGraphs \subseteq SUBSET (AgentIds \X AgentIds)
    /\ StartWorkflowLinks \subseteq [workflow : WorkflowIds, agent : AgentIds]
    /\ HasModels \subseteq AgentIds
    /\ LLMConfig \in [AgentIds -> ConfigValues]
    /\ MaxDepth \in Nat /\ MaxDepth >= Cardinality(AgentIds)
    /\ Edits \subseteq {"link", "delete"}
    /\ MaxEdits \in Nat

VARIABLES
    agents,         \* the agent rows present
    agentLinks,     \* agent_agent links, pairs <<parent, child>>
    workflowLinks,  \* workflow_agent links
    edits,          \* number of user edits so far
    rpc,            \* where the request is in workflow_from_id
    rw,             \* the workflow id requested
    todo,           \* the links read at line 36 whose agent is not built yet
    got             \* the agents list built so far (lines 77-79)

vars == <<agents, agentLinks, workflowLinks, edits, rpc, rw, todo, got>>

Outcomes == {"returned", "ValueError", "IndexError", "RecursionError"}

\* agent.agents: the children of a through agent_agent links.
Children(a) == {b \in AgentIds : <<a, b>> \in agentLinks}

AgentGraph == [node |-> AgentIds, edge |-> agentLinks]

\* The agents in the tree get_agent(a) builds.
Members(a) == {a} \cup Gr!Descendants(AgentGraph, a)

\* Python truthiness of an llm_config value (line 70).
Truthy(v) == v = "dict"

(***************************************************************************)
(* Does get_agent(a) raise RecursionError?  raises[d][b]: a call on b with *)
(* d nested calls left raises; it does when no call is left, or when the   *)
(* call on one of b's children raises.                                     *)
(***************************************************************************)
\* Mutant: the sub-agents of line 73 dumped without recursing.
GetAgentRaisesNoRecursion(a) == FALSE

GetAgentRaises(a) ==
    LET raises[d \in 0..MaxDepth] ==
          [b \in AgentIds |-> IF d = 0 THEN TRUE
                              ELSE \E c \in Children(b) : raises[d - 1][c]]
    IN  raises[MaxDepth][a]

(***************************************************************************)
(* The entry lines 77-79 append for agent a: the agents of its tree and    *)
(* those among them whose linked models are dropped because their          *)
(* llm_config is falsy (lines 66-72 attach config_list only when it is     *)
(* truthy).                                                                *)
(***************************************************************************)
Entry(a) == [agent   |-> a,
             members |-> Members(a),
             dropped |-> {b \in Members(a) : b \in HasModels /\ ~Truthy(LLMConfig[b])}]

Entries == [agent : AgentIds, members : SUBSET AgentIds, dropped : SUBSET AgentIds]

TypeOK ==
    /\ agents \subseteq AgentIds
    /\ agentLinks \subseteq agents \X agents
    /\ workflowLinks \subseteq [workflow : WorkflowIds, agent : agents]
    /\ edits \in 0..MaxEdits
    /\ rpc \in {"idle", "links", "agents"} \cup Outcomes
    /\ rw \in WorkflowIds \cup {NoWorkflow}
    /\ todo \subseteq StartWorkflowLinks
    /\ got \subseteq Entries

Init ==
    /\ agents = AgentIds
    /\ agentLinks \in StartAgentGraphs
    /\ workflowLinks = StartWorkflowLinks
    /\ edits = 0
    /\ rpc = "idle"
    /\ rw = NoWorkflow
    /\ todo = {}
    /\ got = {}

userVars == <<agents, agentLinks, workflowLinks, edits>>

\* Lines 32-35: the workflow query; a missing workflow raises ValueError.
Request(w) ==
    /\ rpc = "idle"
    /\ rpc' = IF w \in WorkflowIds THEN "links" ELSE "ValueError"
    /\ rw' = w
    /\ UNCHANGED <<userVars, todo, got>>

\* Line 36: the workflow_agent links of the workflow, in a second query.
GetLinks ==
    /\ rpc = "links"
    /\ todo' = {l \in workflowLinks : l.workflow = rw}
    /\ got' = {}
    /\ rpc' = "agents"
    /\ UNCHANGED <<userVars, rw>>

(***************************************************************************)
(* Lines 51-79 for link l: get_agent(l.agent) in a new session.  The agent *)
(* row may be gone since line 36 (IndexError from .data[0] at line 53),    *)
(* or its tree may be too deep (RecursionError from line 73).              *)
(***************************************************************************)
GetAgent(l) ==
    /\ rpc = "agents"
    /\ l \in todo
    /\ \/ l.agent \notin agents /\ rpc' = "IndexError" /\ UNCHANGED <<todo, got>>
       \/ /\ l.agent \in agents /\ GetAgentRaises(l.agent)
          /\ rpc' = "RecursionError" /\ UNCHANGED <<todo, got>>
       \/ /\ l.agent \in agents /\ ~GetAgentRaises(l.agent)
          /\ got' = got \cup {Entry(l.agent)}
          /\ todo' = todo \ {l}
          /\ UNCHANGED rpc
    /\ UNCHANGED <<userVars, rw>>

\* Lines 81-85: every link built, the workflow is returned.
Finish ==
    /\ rpc = "agents"
    /\ todo = {}
    /\ rpc' = "returned"
    /\ UNCHANGED <<userVars, rw, todo, got>>

\* The response (or the error) is sent; the next request may start.
Respond ==
    /\ rpc \in Outcomes
    /\ rpc' = "idle"
    /\ rw' = NoWorkflow
    /\ todo' = {}
    /\ got' = {}
    /\ UNCHANGED userVars

(***************************************************************************)
(* Users edit agents through the API: dbmanager.link adds an agent_agent   *)
(* link between two existing agents (nothing rejects a cycle); deleting an *)
(* agent removes its row and every link row that names it.                 *)
(***************************************************************************)
LinkAgents(a, b) ==
    /\ "link" \in Edits
    /\ edits < MaxEdits
    /\ {a, b} \subseteq agents
    /\ <<a, b>> \notin agentLinks
    /\ agentLinks' = agentLinks \cup {<<a, b>>}
    /\ edits' = edits + 1
    /\ UNCHANGED <<agents, workflowLinks, rpc, rw, todo, got>>

\* Mutant: the agent row deleted, its agent_agent links left behind.
DeleteAgentNoCascade(a) ==
    /\ "delete" \in Edits
    /\ edits < MaxEdits
    /\ a \in agents
    /\ agents' = agents \ {a}
    /\ workflowLinks' = {l \in workflowLinks : l.agent # a}
    /\ edits' = edits + 1
    /\ UNCHANGED <<agentLinks, rpc, rw, todo, got>>

DeleteAgent(a) ==
    /\ "delete" \in Edits
    /\ edits < MaxEdits
    /\ a \in agents
    /\ agents' = agents \ {a}
    /\ agentLinks' = {e \in agentLinks : a \notin {e[1], e[2]}}
    /\ workflowLinks' = {l \in workflowLinks : l.agent # a}
    /\ edits' = edits + 1
    /\ UNCHANGED <<rpc, rw, todo, got>>

Next ==
    \/ \E w \in WorkflowIds \cup {NoWorkflow} : Request(w)
    \/ GetLinks
    \/ \E l \in todo : GetAgent(l)
    \/ Finish
    \/ Respond
    \/ \E a, b \in AgentIds : LinkAgents(a, b)
    \/ \E a \in AgentIds : DeleteAgent(a)

Spec == Init /\ [][Next]_vars

-----------------------------------------------------------------------------
(***************************************************************************)
(* Properties                                                              *)
(***************************************************************************)

\* Some agent reachable from a lies on a cycle of agent_agent links.
CycleReachable(a) == \E c \in Members(a) : c \in Gr!Descendants(AgentGraph, c)

(***************************************************************************)
(* get_agent (lines 51-74) raises RecursionError exactly when a cycle of   *)
(* agent_agent links is reachable from the agent: the depth-bounded        *)
(* recursion agrees with graph reachability, for every agent graph.        *)
(***************************************************************************)
RecursionErrorIffCycle ==
    \A a \in agents : GetAgentRaises(a) <=> CycleReachable(a)

(***************************************************************************)
(* A request for a workflow that exists returns the workflow: it raises    *)
(* neither IndexError (an agent deleted between line 36 and line 53) nor   *)
(* RecursionError (a cycle of agents, line 73).                            *)
(***************************************************************************)
ReadReturnsWorkflow == rpc \notin {"IndexError", "RecursionError"}

=============================================================================
