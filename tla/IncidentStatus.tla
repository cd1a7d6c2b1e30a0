--------------------------- MODULE IncidentStatus ---------------------------
(***************************************************************************)
(* The vocabulary of the incident lifecycle: the statuses of an incident   *)
(* row, the orchestrator's transition table, the HITL levels that route a  *)
(* recommendation, and the role policy both services load from             *)
(* config/rbac-policy.json.  Pure definitions; every other module of the   *)
(* project extends this one.                                               *)
(***************************************************************************)
EXTENDS Integers, Sequences, FiniteSets

\* The transition table of agents/orchestrator/agent.py.
VALID_TRANSITIONS ==
  [ open                |-> {"investigating", "needs_human_review", "resolved"},
    investigating       |-> {"risk_assessed", "needs_human_review", "resolved"},
    risk_assessed       |-> {"recommended", "needs_human_review", "resolved"},
    recommended         |-> {"awaiting_approval", "auto_informed",
                             "needs_human_review", "resolved"},
    awaiting_approval   |-> {"approved", "rejected", "resolved"},
    auto_informed       |-> {"resolved"},
    approved            |-> {"action_taken", "action_failed", "resolved"},
    action_taken        |-> {"resolved"},
    action_failed       |-> {"action_taken", "resolved"},
    rejected            |-> {"resolved", "investigating"},
    needs_human_review  |-> {"investigating", "resolved"},
    resolved            |-> {} ]

Status ==
  {"open", "investigating", "risk_assessed", "recommended",
   "awaiting_approval", "auto_informed", "approved", "action_taken",
   "action_failed", "rejected", "needs_human_review", "resolved"}

is_valid_transition(current, nxt) == nxt \in VALID_TRANSITIONS[current]

\* HitlLevel / RequiredApprovalLevel of a row; 0 stands for SQL NULL.
Level == 0..3

\* "hitl_level or required_approval_level or 2": NULL and 0 both mean 2.
effective_level(l) == IF l = 0 THEN 2 ELSE l

\* Where a recommendation of a level lands (recommendation agent and gate).
landing_status(l) ==
  IF effective_level(l) <= 1 THEN "auto_informed" ELSE "awaiting_approval"

Role == {"Operator", "MaintenanceEngineer", "PlantManager"}

max_approval_level ==
  [Operator |-> 0, MaintenanceEngineer |-> 2, PlantManager |-> 3]

resolve_roles == {"MaintenanceEngineer", "PlantManager"}
=============================================================================
