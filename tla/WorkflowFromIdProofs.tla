------------------------ MODULE WorkflowFromIdProofs ------------------------
(***************************************************************************)
(* Proofs about WorkflowFromId, the model of workflow_from_id and of the   *)
(* users' agent edits it races with.                                       *)
(*                                                                         *)
(*  - WorkflowFromIdTypeCorrect: every behaviour keeps TypeOK, for any     *)
(*    agents, workflows, start graphs, bounds and edit kinds.  The link    *)
(*    rows never name a deleted agent, and the agents list built by        *)
(*    get_agent only holds agents that have rows.                          *)
(*                                                                         *)
(* TypeOK is not inductive by itself: the links read at line 36 are typed  *)
(* only because the workflow_agent rows are never more than the ones the   *)
(* database started with (users delete them, nothing of this code adds    *)
(* one), which LinksFromStart adds.                                        *)
(***************************************************************************)
EXTENDS WorkflowFromId, TLAPS

\* The workflow_agent rows are among those the database started with.
LinksFromStart == workflowLinks \subseteq StartWorkflowLinks

WfInv == TypeOK /\ LinksFromStart


\* The tree get_agent(a) builds holds rows of the agent table only.
LEMMA MembersAreAgents ==
  ASSUME NEW a \in AgentIds
  PROVE  Members(a) \subseteq AgentIds
  BY Zenon DEF Members, Gr!Descendants, AgentGraph

\* The entry lines 77-79 append is one of the agents list's entries.
LEMMA EntryType ==
  ASSUME NEW a \in AgentIds
  PROVE  Entry(a) \in Entries
  <1>1. Members(a) \subseteq AgentIds
    BY MembersAreAgents
  <1>2. QED
    BY <1>1 DEF Entry, Entries

LEMMA WfInvInit == Init => WfInv
  BY WorkflowFromIdAssumption
  DEF Init, WfInv, TypeOK, LinksFromStart

LEMMA WfInvStep == WfInv /\ [Next]_vars => WfInv'
  <1> SUFFICES ASSUME WfInv, [Next]_vars PROVE WfInv'
    OBVIOUS
  <1>0. MaxEdits \in Nat
    BY WorkflowFromIdAssumption
  <1>1. CASE \E w \in WorkflowIds \cup {NoWorkflow} : Request(w)
    BY <1>1 DEF Request, userVars, WfInv, TypeOK, LinksFromStart, Outcomes
  <1>2. CASE GetLinks
    BY <1>2 DEF GetLinks, userVars, WfInv, TypeOK, LinksFromStart
  <1>3. CASE \E l \in todo : GetAgent(l)
    <2>1. PICK l \in todo : GetAgent(l)
      BY <1>3
    <2>2. l.agent \in AgentIds
      BY <2>1, WorkflowFromIdAssumption DEF WfInv, TypeOK
    <2>3. Entry(l.agent) \in Entries
      BY <2>2, EntryType
    <2>4. QED
      BY <2>1, <2>3 DEF GetAgent, userVars, WfInv, TypeOK, LinksFromStart,
                        Outcomes
  <1>4. CASE Finish
    BY <1>4 DEF Finish, userVars, WfInv, TypeOK, LinksFromStart, Outcomes
  <1>5. CASE Respond
    BY <1>5 DEF Respond, userVars, WfInv, TypeOK, LinksFromStart, Outcomes
  <1>6. CASE \E a, b \in AgentIds : LinkAgents(a, b)
    BY <1>6, <1>0 DEF LinkAgents, WfInv, TypeOK, LinksFromStart
  <1>7. CASE \E a \in AgentIds : DeleteAgent(a)
    <2>1. PICK a \in AgentIds : DeleteAgent(a)
      BY <1>7
    <2>2. agentLinks' \subseteq agents' \X agents'
      BY <2>1 DEF DeleteAgent, WfInv, TypeOK
    <2>3. workflowLinks' \subseteq [workflow : WorkflowIds, agent : agents']
      BY <2>1 DEF DeleteAgent, WfInv, TypeOK
    <2>4. QED
      BY <2>1, <2>2, <2>3, <1>0 DEF DeleteAgent, WfInv, TypeOK, LinksFromStart
  <1>8. CASE UNCHANGED vars
    BY <1>8 DEF vars, WfInv, TypeOK, LinksFromStart
  <1>9. QED
    BY <1>1, <1>2, <1>3, <1>4, <1>5, <1>6, <1>7, <1>8 DEF Next

(***************************************************************************)
(* workflow_from_id and the users' edits keep the model well typed: after *)
(* any sequence of links and cascading deletes, the link rows name agents  *)
(* that exist, and every entry of the agents list get_agent builds is a    *)
(* tree of agent rows.                                                     *)
(***************************************************************************)
THEOREM WorkflowFromIdTypeCorrect == Spec => []TypeOK
  <1>1. Init => WfInv
    BY WfInvInit
  <1>2. WfInv /\ [Next]_vars => WfInv'
    BY WfInvStep
  <1>3. WfInv => TypeOK
    BY DEF WfInv
  <1>4. QED
    BY <1>1, <1>2, <1>3, PTL DEF Spec

=============================================================================
