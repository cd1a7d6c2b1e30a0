----------------------------- MODULE MCReasoning -----------------------------
(* Small instances of Reasoning for TLC. *)
EXTENDS Reasoning

CONSTANTS
  flow, vibration,   \* two sensors: a full signature
  sop, hist, fake

\* Retrieval finds the SOP only for the flow sensor.
MC_Retrieve ==
  [sensors \in SUBSET Sensors |->
     (IF flow \in sensors THEN {sop} ELSE {}) \cup
     (IF vibration \in sensors THEN {hist} ELSE {})]

MC_Point(tag, names) == [tag |-> tag, names |-> names]
MC_Answer(cause, confidence, points, insufficient) ==
  [cause |-> cause, confidence |-> confidence, points |-> points,
   insufficient |-> insufficient]

MC_Answers ==
  { MC_Answer("first", TRUE, {MC_Point("sensor", {flow}), MC_Point("sop", {sop})}, FALSE),
    MC_Answer("first", TRUE, {MC_Point("sop", {sop, fake})}, FALSE),
    MC_Answer("first", TRUE, {MC_Point("history", {fake})}, FALSE),
    MC_Answer("later", FALSE, {MC_Point("untagged", {sop, hist})}, FALSE),
    MC_Answer("later", TRUE, {MC_Point("untagged", {sop, hist})}, FALSE),
    MC_Answer("first", TRUE, {}, FALSE),
    MC_Answer("none", FALSE, {}, TRUE),
    MC_Answer("first", TRUE, {MC_Point("sensor", {vibration})}, TRUE) }

MC_Calls ==
  { <<"get_equipment_maintenance_status">>,
    <<"get_similar_incident_outcomes", "unknown">> }

MC_Texts == { <<>>, <<"bullet", "rationale", "bullet">>,
              <<"rationale", "bullet", "hitl_note", "bullet", "reorder">>,
              <<"reorder_bad">> }
=============================================================================
