---------------------------- MODULE IncidentStore ----------------------------
(***************************************************************************)
(* The PostgreSQL tables the agents share and the transactions of          *)
(* core/db.py that write them.  One operator per transaction; each says    *)
(* what becomes of every table.  None of the UPDATEs carries a condition   *)
(* on the present Status, and neither do the operators.                    *)
(*                                                                         *)
(* IncidentStateHistory is written together with Status, is never read by  *)
(* the program's control flow, and is left out; so are all free texts.     *)
(***************************************************************************)
EXTENDS IncidentStatus

CONSTANTS
  Equipment,     \* the monitored equipment
  MaxEpisodes,   \* bound: incident rows per equipment
  MaxOps,        \* bound: CMMS operations one recommendation maps to
  Plans,         \* the operation lists the planner's answers map to
  Client         \* the people who call the decision endpoints

ASSUME EpisodesAssumption == MaxEpisodes \in Nat \ {0}

\* An incident row: the n-th incident of an equipment, in DetectedAt order.
Incident == Equipment \X (1..MaxEpisodes)
NoIncident == <<>>

OpIndex == 1..MaxOps
OpKind == {"work_order", "product_reorder"}

ASSUME PlansAssumption ==
  /\ MaxOps \in Nat
  /\ \A p \in Plans \cup {<<>>} : p \in Seq(OpKind) /\ Len(p) <= MaxOps

Outcome == {"pending", "succeeded", "failed"}

\* What RootCauseHypothesis and Confidence say: not diagnosed (NULL), a cited
\* cause, an admission of insufficient evidence (confidence 0), or the fixed
\* note stored when both model answers failed the citation check.
Diagnosis == {"none", "cause", "insufficient", "withheld"}

Decision == {"approved", "rejected"}
Approval == [inc : Incident, decision : Decision, by : Client, level : 1..3]

VARIABLES
  status,        \* Incidents.Status; "absent" before the row is inserted
  evidence,      \* Incidents.Evidence is not NULL
  diagnosis,     \* Incidents.RootCauseHypothesis / Confidence
  level,         \* Incidents.HitlLevel = RequiredApprovalLevel
  recommended,   \* Incidents.RecommendedActions is not NULL
  plan,          \* the CMMS operations RecommendedActions maps to
  approvals,     \* the Approvals table
  actions,       \* IncidentActions: rows per incident, operation, outcome
  loopClosed     \* AuditLog 'loop_closed' rows = HistoricalIncidents rows

storeVars == <<status, evidence, diagnosis, level, recommended, plan,
               approvals, actions, loopClosed>>

StoreTypeOK ==
  /\ status \in [Incident -> Status \cup {"absent"}]
  /\ evidence \in [Incident -> BOOLEAN]
  /\ diagnosis \in [Incident -> Diagnosis]
  /\ level \in [Incident -> Level]
  /\ recommended \in [Incident -> BOOLEAN]
  /\ plan \in [Incident -> Plans \cup {<<>>}]
  /\ approvals \subseteq Approval
  /\ actions \in [Incident \X OpIndex \X Outcome -> Nat]
  /\ loopClosed \in [Incident -> Nat]

StoreInit ==
  /\ status = [i \in Incident |-> "absent"]
  /\ evidence = [i \in Incident |-> FALSE]
  /\ diagnosis = [i \in Incident |-> "none"]
  /\ level = [i \in Incident |-> 0]
  /\ recommended = [i \in Incident |-> FALSE]
  /\ plan = [i \in Incident |-> <<>>]
  /\ approvals = {}
  /\ actions = [x \in Incident \X OpIndex \X Outcome |-> 0]
  /\ loopClosed = [i \in Incident |-> 0]

-----------------------------------------------------------------------------
(* Reads *)

Exists(i) == status[i] # "absent"
Unresolved(i) == status[i] \notin {"absent", "resolved"}

\* The row the detection upsert locks: the newest unresolved row of e.
open_rows(e) ==
  {i \in Incident : /\ i[1] = e
                    /\ Unresolved(i)
                    /\ \A j \in Incident : j[1] = e /\ Unresolved(j) => j[2] <= i[2]}

\* The next row an INSERT for equipment e would create.
fresh_rows(e) ==
  {i \in Incident : /\ i[1] = e
                    /\ ~Exists(i)
                    /\ \A j \in Incident : j[1] = e /\ j[2] < i[2] => Exists(j)}

\* Operations of an incident with a 'succeeded' row.
executed_ops(i) == {k \in OpIndex : actions[<<i, k, "succeeded">>] > 0}

-----------------------------------------------------------------------------
(* Transactions *)

\* transition_incident and every other UPDATE that only moves the status.
transition_incident(i, to) ==
  /\ status' = [status EXCEPT ![i] = to]
  /\ UNCHANGED <<evidence, diagnosis, level, recommended, plan, approvals,
                 actions, loopClosed>>

save_incident_evidence(i) ==
  /\ evidence' = [evidence EXCEPT ![i] = TRUE]
  /\ UNCHANGED <<status, diagnosis, level, recommended, plan, approvals,
                 actions, loopClosed>>

save_root_cause(i, hypothesis, to) ==
  /\ diagnosis' = [diagnosis EXCEPT ![i] = hypothesis]
  /\ status' = [status EXCEPT ![i] = to]
  /\ UNCHANGED <<evidence, level, recommended, plan, approvals, actions,
                 loopClosed>>

save_risk_assessment(i, hitl_level) ==
  /\ level' = [level EXCEPT ![i] = hitl_level]
  /\ status' = [status EXCEPT ![i] = "risk_assessed"]
  /\ UNCHANGED <<evidence, diagnosis, recommended, plan, approvals, actions,
                 loopClosed>>

\* Two UPDATEs in one transaction: 'recommended' is never visible outside.
save_recommendation(i, operations, next_status) ==
  /\ recommended' = [recommended EXCEPT ![i] = TRUE]
  /\ plan' = [plan EXCEPT ![i] = operations]
  /\ status' = [status EXCEPT ![i] = next_status]
  /\ UNCHANGED <<evidence, diagnosis, level, approvals, actions, loopClosed>>

record_approval(i, decision, decided_by, hitl_level) ==
  /\ status' = [status EXCEPT ![i] = decision]
  /\ approvals' = approvals \cup
       {[inc |-> i, decision |-> decision, by |-> decided_by,
         level |-> hitl_level]}
  /\ UNCHANGED <<evidence, diagnosis, level, recommended, plan, actions,
                 loopClosed>>

record_action_execution(i, k, outcome) ==
  /\ actions' = [actions EXCEPT ![<<i, k, outcome>>] = @ + 1]
  /\ UNCHANGED <<status, evidence, diagnosis, level, recommended, plan,
                 approvals, loopClosed>>

save_action_result(i, to) == transition_incident(i, to)

resolve_incident_manually(i) == transition_incident(i, "resolved")

\* The second half of close_incident_loop: Status, audit row, learned row.
close_incident_loop(i) ==
  /\ status' = [status EXCEPT ![i] = "resolved"]
  /\ loopClosed' = [loopClosed EXCEPT ![i] = @ + 1]
  /\ UNCHANGED <<evidence, diagnosis, level, recommended, plan, approvals,
                 actions>>
=============================================================================
