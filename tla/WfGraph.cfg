\* Three agents, every agent_agent graph to start from, one user edit of
\* either kind during the requests.
CONSTANTS
    a1 = a1
    a2 = a2
    a3 = a3
    w1 = w1
    NoWorkflow = NoWorkflow
    AgentIds <- MCAgentIds
    WorkflowIds = {w1}
    StartAgentGraphs <- MCAllGraphs
    StartWorkflowLinks <- MCWorkflowLinks
    HasModels = {a1, a2}
    LLMConfig <- MCLLMConfig
    MaxDepth = 3
    Edits = {"link", "delete"}
    MaxEdits = 1
SPECIFICATION Spec
INVARIANTS
    TypeOK
    RecursionErrorIffCycle
