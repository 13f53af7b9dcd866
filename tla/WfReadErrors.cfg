\* No agent_agent link at first; users may link agents (a cycle among them)
\* or delete one while requests run.
CONSTANTS
    a1 = a1
    a2 = a2
    a3 = a3
    w1 = w1
    NoWorkflow = NoWorkflow
    AgentIds <- MCAgentIds
    WorkflowIds = {w1}
    StartAgentGraphs <- MCNoGraph
    StartWorkflowLinks <- MCWorkflowLinks
    HasModels = {a1, a2}
    LLMConfig <- MCLLMConfig
    MaxDepth = 3
    Edits = {"link", "delete"}
    MaxEdits = 2
SPECIFICATION Spec
INVARIANTS
    ReadReturnsWorkflow
