------------------------------ MODULE Diagnosis ------------------------------
(***************************************************************************)
(* From an anomaly to a diagnosed incident: the Detection Agent (its own   *)
(* task) writes the incident row and publishes; the Knowledge and          *)
(* Root-Cause Agents are handlers on the bus.                              *)
(*                                                                         *)
(* Which readings are anomalous is the environment's choice; what the      *)
(* model answers, and so how the citation check ends, is a choice as well. *)
(***************************************************************************)
EXTENDS EventBus

CONSTANT MaxReadings   \* bound: correlated anomalous readings in a behaviour

ASSUME ReadingsAssumption == MaxReadings \in Nat

VARIABLES
  detected,   \* committed incident whose event is not yet published
  readings    \* correlated anomalous readings so far

detectionVars == <<detected, readings>>

DetectionTypeOK ==
  /\ detected \in Incident \cup {NoIncident}
  /\ readings \in 0..MaxReadings

DetectionInit == detected = NoIncident /\ readings = 0

\* _upsert_incident: fold into the newest unresolved incident of the
\* equipment, or insert an 'open' one; one transaction.
upsert_incident(e) ==
  /\ detected = NoIncident
  /\ readings < MaxReadings
  /\ readings' = readings + 1
  /\ \/ \E i \in open_rows(e) :
          /\ detected' = i
          /\ UNCHANGED storeVars
     \/ /\ open_rows(e) = {}
        /\ \E i \in fresh_rows(e) :
             /\ detected' = i
             /\ transition_incident(i, "open")
  /\ UNCHANGED busVars

\* _publish_event, in a step of its own: the commit comes first.
publish_event ==
  /\ detected # NoIncident
  /\ publish("anomalies", detected)
  /\ detected' = NoIncident
  /\ UNCHANGED <<at, cur, storeVars, readings>>

\* The publish raises: the anomaly goes to the dead-letter log, not retried.
dead_letter ==
  /\ "publish" \in Faults
  /\ detected # NoIncident
  /\ detected' = NoIncident
  /\ UNCHANGED <<busVars, storeVars, readings>>

DetectionStep == publish_event \/ dead_letter

-----------------------------------------------------------------------------
(* Knowledge Agent: evidence first, then the nudge.  When it is done, with *)
(* or without an error, the same message goes on to the Root-Cause Agent.  *)

knowledge_save ==
  /\ at = "evidence_save"
  /\ save_incident_evidence(cur.inc)
  /\ Goto("evidence_publish")
  /\ UNCHANGED <<queue, detectionVars>>

knowledge_publish ==
  /\ at = "evidence_publish"
  /\ publish("diagnosis", cur.inc)
  /\ Goto("diagnose_read")
  /\ UNCHANGED <<storeVars, detectionVars>>

knowledge_raises ==
  /\ "handler" \in Faults
  /\ at \in KnowledgeStep
  /\ Goto("diagnose_read")
  /\ UNCHANGED <<queue, storeVars, detectionVars>>

-----------------------------------------------------------------------------
(* Root-Cause Agent *)

\* Faulty variants: no idempotency check; the check looks at another column.
already_diagnosed_never(i) == FALSE
already_diagnosed_by_evidence(i) == evidence[i]

already_diagnosed(i) == diagnosis[i] # "none"

\* handle: one read decides; everything after it works on what was read.
root_cause_read ==
  /\ at = "diagnose_read"
  /\ IF already_diagnosed(cur.inc) THEN HandlerEnds ELSE Goto("diagnose_save")
  /\ UNCHANGED <<queue, storeVars, detectionVars>>

\* The status save_root_cause is called with for an outcome of the two
\* model attempts: _parse_and_validate calls an admission of insufficient
\* evidence valid, so only a failed citation check leaves the pipeline.
status_for(outcome) ==
  IF outcome = "withheld" THEN "needs_human_review" ELSE "investigating"

\* Faulty variant: the withheld branch does not return before the publish.
root_cause_save_falls_through ==
  /\ at = "diagnose_save"
  /\ \E outcome \in Diagnosis \ {"none"} :
       save_root_cause(cur.inc, outcome, status_for(outcome))
  /\ Goto("diagnose_publish")
  /\ UNCHANGED <<queue, detectionVars>>

\* The waits for a mature signature and for evidence, one or two model
\* calls, then the unconditional write.
root_cause_save ==
  /\ at = "diagnose_save"
  /\ \E outcome \in Diagnosis \ {"none"} :
       /\ save_root_cause(cur.inc, outcome, status_for(outcome))
       /\ IF outcome = "withheld" THEN HandlerEnds ELSE Goto("diagnose_publish")
  /\ UNCHANGED <<queue, detectionVars>>

root_cause_publish ==
  /\ at = "diagnose_publish"
  /\ publish("root_cause", cur.inc)
  /\ HandlerEnds
  /\ UNCHANGED <<storeVars, detectionVars>>

\* _handle_event logs what handle raises (model, database, bus) and ends.
root_cause_raises ==
  /\ "handler" \in Faults
  /\ at \in RootCauseStep
  /\ HandlerEnds
  /\ UNCHANGED <<queue, storeVars, detectionVars>>

DiagnosisStep ==
  \/ knowledge_save \/ knowledge_publish \/ knowledge_raises
  \/ root_cause_read \/ root_cause_save \/ root_cause_publish
  \/ root_cause_raises
=============================================================================
