------------------------------ MODULE AgentRun ------------------------------
(***************************************************************************)
(* One run of one agent of the catalogue (agents_factory.build_agent): the   *)
(* agent hired observes, decides and acts; the others do not move. The        *)
(* security agent runs inside the yield agent's gate.                         *)
(***************************************************************************)
EXTENDS YieldGate, GridReplay, GuardReplay, RangeReplay

VARIABLE agent  \* agent_id

agentVars == <<agent, vars, gridVars, guardVars, rangeVars>>

AgentIds == {"pcs-yield", "bnb-grid", "venus-guard", "pcs-rebalancer"}

AgentInit ==
  /\ agent \in AgentIds
  /\ GridInit /\ GuardInit /\ RangeInit
  \* Rankings only matter to the yield agent.
  /\ IF agent = "pcs-yield" THEN Init
     ELSE Init /\ prelim = net /\ net = CHOOSE ranking \in Rankings : TRUE

YieldStep == agent = "pcs-yield" /\ Next /\ UNCHANGED <<agent, gridVars, guardVars, rangeVars>>

GridStep == agent = "bnb-grid" /\ GridNext /\ UNCHANGED <<agent, vars, guardVars, rangeVars>>

GuardStep == agent = "venus-guard" /\ GuardNext /\ UNCHANGED <<agent, vars, gridVars, rangeVars>>

RangeStep == agent = "pcs-rebalancer" /\ RangeNext /\ UNCHANGED <<agent, vars, gridVars, guardVars>>

AgentNext == YieldStep \/ GridStep \/ GuardStep \/ RangeStep

AgentSpec == AgentInit /\ [][AgentNext]_agentVars

\* Types of all variables of all agents.
AgentTypeOK ==
  /\ agent \in AgentIds
  /\ TypeOK /\ GridTypeOK /\ GuardTypeOK /\ RangeTypeOK
=============================================================================
