------------------------------ MODULE SeedData ------------------------------
(***************************************************************************)
(* The sample data that init_db_samples writes (database/utils.py, lines   *)
(* 153-353): its objects, the link calls it makes, and the llm_config of   *)
(* each sample agent.  Only identity, links and the truthiness of          *)
(* llm_config are kept; names, prompts and skill source are left out.      *)
(***************************************************************************)
EXTENDS Sequences

(***************************************************************************)
(* The seed objects of lines 154-300, by kind.                             *)
(***************************************************************************)
SeedModels    == {"zephyr_model", "google_gemini_model", "azure_model", "gpt_4_model"}
SeedSkills    == {"generate_image_skill", "generate_pdf_skill"}
SeedAgents    == {"user_proxy", "default_assistant", "travel_groupchat_agent",
                  "planner_assistant", "local_assistant", "language_assistant"}
SeedWorkflows == {"travel_workflow", "default_workflow"}
SeedObjects   == SeedModels \cup SeedSkills \cup SeedAgents \cup SeedWorkflows

\* The workflow names tested at line 148.
WorkflowName == [w \in SeedWorkflows |->
                   IF w = "default_workflow" THEN "Default Workflow"
                                             ELSE "Travel Planning Workflow"]

(***************************************************************************)
(* The 14 dbmanager.link calls of lines 320-353, in the order the code     *)
(* makes them.  agentType is the agent_type argument ("none" when absent). *)
(***************************************************************************)
L(t, a, b, at) == [type |-> t, primary |-> a, secondary |-> b, agentType |-> at]
SeedLinks == <<
    L("agent_model",    "default_assistant", "gpt_4_model",          "none"),
    L("agent_skill",    "default_assistant", "generate_image_skill", "none"),
    L("workflow_agent", "default_workflow",  "user_proxy",           "sender"),
    L("workflow_agent", "default_workflow",  "default_assistant",    "receiver"),
    L("agent_agent",    "travel_groupchat_agent", "planner_assistant",  "none"),
    L("agent_agent",    "travel_groupchat_agent", "local_assistant",    "none"),
    L("agent_agent",    "travel_groupchat_agent", "language_assistant", "none"),
    L("agent_agent",    "travel_groupchat_agent", "user_proxy",         "none"),
    L("agent_model",    "travel_groupchat_agent", "gpt_4_model",        "none"),
    L("agent_model",    "planner_assistant",  "gpt_4_model",         "none"),
    L("agent_model",    "local_assistant",    "gpt_4_model",         "none"),
    L("agent_model",    "language_assistant", "gpt_4_model",         "none"),
    L("workflow_agent", "travel_workflow",    "user_proxy",          "sender"),
    L("workflow_agent", "travel_workflow",    "travel_groupchat_agent", "receiver") >>

NumSeedLinks == Len(SeedLinks)

=============================================================================
