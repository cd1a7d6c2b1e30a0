----------------------------- MODULE Orchestrator -----------------------------
(***************************************************************************)
(* agents/orchestrator, agents/risk and agents/recommendation: the stages  *)
(* from a diagnosis to the HITL gate, all run by the bus listener.         *)
(***************************************************************************)
EXTENDS EventBus

VARIABLE routed   \* local: the status the handler means to write

OrchestratorTypeOK ==
  /\ routed \in {"none", "auto_informed", "awaiting_approval"}
  /\ routed = "none" <=> at \notin {"plan_save", "gate_write"}
OrchestratorInit == routed = "none"

\* hitl_level_for with the shipped table: confidence 0 is below 50 and so
\* level 3; any level is possible for the confidences a cause can carry.
hitl_levels(d) == IF d = "cause" THEN 1..3 ELSE {3}

\* RiskAgent.handle, called by _trigger_risk.
risk_assess ==
  /\ at = "risk_save"
  /\ \E l \in hitl_levels(diagnosis[cur.inc]) : save_risk_assessment(cur.inc, l)
  /\ Goto("risk_publish")
  /\ UNCHANGED <<queue, routed>>

risk_publish ==
  /\ at = "risk_publish"
  /\ publish("risk", cur.inc)
  /\ HandlerEnds
  /\ UNCHANGED <<storeVars, routed>>

\* RecommendationAgent.handle: the level is read before the planner runs.
\* An incident without a risk assessment raises, which ends the handler.
recommendation_read ==
  /\ at = "plan_read"
  /\ IF level[cur.inc] = 0
       THEN HandlerEnds /\ UNCHANGED routed
       ELSE Goto("plan_save") /\ routed' = landing_status(level[cur.inc])
  /\ UNCHANGED <<queue, storeVars>>

\* The planner's answer maps to some CMMS operations, possibly none.
recommendation_save ==
  /\ at = "plan_save"
  /\ \E p \in Plans : save_recommendation(cur.inc, p, routed)
  /\ Goto("plan_publish")
  /\ routed' = "none"
  /\ UNCHANGED queue

\* RecommendationAgent.handle publishes stage completion ...
recommendation_publish ==
  /\ at = "plan_publish"
  /\ publish("recommendation", cur.inc)
  /\ Goto("plan_publish_again")
  /\ UNCHANGED <<storeVars, routed>>

\* Faulty variant: the trigger announces the stage it was triggered by.
trigger_recommendation_publish_risk ==
  /\ at = "plan_publish_again"
  /\ publish("risk", cur.inc)
  /\ HandlerEnds
  /\ UNCHANGED <<storeVars, routed>>

\* ... and _trigger_recommendation publishes it once more.
trigger_recommendation_publish ==
  /\ at = "plan_publish_again"
  /\ publish("recommendation", cur.inc)
  /\ HandlerEnds
  /\ UNCHANGED <<storeVars, routed>>

\* _apply_hitl_gate: compare the status with the one the level requires ...
gate_read ==
  /\ at = "gate_read"
  /\ LET expected == landing_status(level[cur.inc])
     IN  IF status[cur.inc] = expected
           THEN HandlerEnds /\ UNCHANGED routed
           ELSE Goto("gate_write") /\ routed' = expected
  /\ UNCHANGED <<queue, storeVars>>

\* ... and write it when they differ, whatever the status is by then.
gate_write ==
  /\ at = "gate_write"
  /\ transition_incident(cur.inc, routed)
  /\ HandlerEnds
  /\ routed' = "none"
  /\ UNCHANGED queue

\* _on_stage_completed logs what a stage raises and ends.
orchestrator_raises ==
  /\ "handler" \in Faults
  /\ at \in OrchestratorStep
  /\ HandlerEnds
  /\ routed' = "none"
  /\ UNCHANGED <<queue, storeVars>>

OrchestrationStep ==
  \/ risk_assess \/ risk_publish
  \/ recommendation_read \/ recommendation_save
  \/ recommendation_publish \/ trigger_recommendation_publish
  \/ gate_read \/ gate_write \/ orchestrator_raises
=============================================================================
