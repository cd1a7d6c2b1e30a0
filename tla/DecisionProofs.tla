---------------------------- MODULE DecisionProofs ----------------------------
(***************************************************************************)
(* The human gate: who may decide, on what, and that nothing is sent to    *)
(* the CMMS before someone has.  Rests on the pipeline's invariant: the    *)
(* level and the plan of an incident that is up for a decision are final,  *)
(* so what a request checked still holds when it writes.                   *)
(*                                                                         *)
(* Then the execution of what was approved and the learning loop: what the *)
(* IncidentActions table says of the CMMS, and what stops a second write   *)
(* and a second closing.                                                   *)
(***************************************************************************)
EXTENDS PipelineProofs

-----------------------------------------------------------------------------
(* Who writes what *)

\* Only RiskAgent.handle writes the HITL level.
LEMMA LevelWrite ==
  ASSUME [Next]_vars
  PROVE  UNCHANGED level \/ (Orchestrate /\ risk_assess)
BY DEF Next, Dispatch, Diagnose, DiagnosisStep, knowledge_save, save_incident_evidence,
   knowledge_publish, knowledge_raises, root_cause_read, root_cause_save, save_root_cause,
   root_cause_publish, root_cause_raises, Orchestrate, OrchestrationStep,
   risk_publish, recommendation_read, recommendation_save, save_recommendation,
   recommendation_publish, trigger_recommendation_publish, gate_read, gate_write,
   transition_incident, orchestrator_raises, Execute, ExecutionStep, action_read,
   action_kinds, action_reconcile, save_action_result, action_pending,
   record_action_execution, action_call, action_succeeded, action_failed, action_finish,
   action_raises, Detect, upsert_incident, DetectionStep, publish_event, dead_letter,
   Decide, decision_check, resolve_check, RequestStep, decision_record, record_approval,
   decision_publish, decision_publish_fails, resolve_write, resolve_incident_manually,
   request_raises, Follow, poll_find, resolve_work_order, PollStep,
   poll_get, poll_get_fails, continue_with, poll_view, poll_audit,
   poll_close, close_incident_loop, poll_raises, Crash, vars, storeVars

\* Only RecommendationAgent.handle writes the recommendation.
LEMMA RecommendationWrite ==
  ASSUME [Next]_vars
  PROVE  UNCHANGED <<recommended, plan>> \/ (Orchestrate /\ recommendation_save)
BY DEF Next, Dispatch, Diagnose, DiagnosisStep, knowledge_save, save_incident_evidence,
   knowledge_publish, knowledge_raises, root_cause_read, root_cause_save, save_root_cause,
   root_cause_publish, root_cause_raises, Orchestrate, OrchestrationStep,
   risk_assess, save_risk_assessment, risk_publish, recommendation_read,
   recommendation_publish, trigger_recommendation_publish, gate_read, gate_write,
   transition_incident, orchestrator_raises, Execute, ExecutionStep, action_read,
   action_kinds, action_reconcile, save_action_result, action_pending,
   record_action_execution, action_call, action_succeeded, action_failed, action_finish,
   action_raises, Detect, upsert_incident, DetectionStep, publish_event, dead_letter,
   Decide, decision_check, resolve_check, RequestStep, decision_record, record_approval,
   decision_publish, decision_publish_fails, resolve_write, resolve_incident_manually,
   request_raises, Follow, poll_find, resolve_work_order, PollStep,
   poll_get, poll_get_fails, continue_with, poll_view, poll_audit,
   poll_close, close_incident_loop, poll_raises, Crash, vars, storeVars

\* Only the decision endpoints write approvals.
LEMMA ApprovalWrite ==
  ASSUME [Next]_vars
  PROVE  UNCHANGED approvals \/ \E c \in Client : decision_record(c)
BY DEF Next, Dispatch, Diagnose, DiagnosisStep, knowledge_save, save_incident_evidence,
   knowledge_publish, knowledge_raises, root_cause_read, root_cause_save, save_root_cause,
   root_cause_publish, root_cause_raises, Orchestrate, OrchestrationStep,
   risk_assess, save_risk_assessment, risk_publish, recommendation_read,
   recommendation_save, save_recommendation,
   recommendation_publish, trigger_recommendation_publish, gate_read, gate_write,
   transition_incident, orchestrator_raises, Execute, ExecutionStep, action_read,
   action_kinds, action_reconcile, save_action_result, action_pending,
   record_action_execution, action_call, action_succeeded, action_failed, action_finish,
   action_raises, Detect, upsert_incident, DetectionStep, publish_event, dead_letter,
   Decide, decision_check, resolve_check, RequestStep,
   decision_publish, decision_publish_fails, resolve_write, resolve_incident_manually,
   request_raises, Follow, poll_find, resolve_work_order, PollStep,
   poll_get, poll_get_fails, continue_with, poll_view, poll_audit,
   poll_close, close_incident_loop, poll_raises, Crash, vars, storeVars

\* Only a call of the Action Agent writes to the CMMS.
LEMMA OrderWrite ==
  ASSUME [Next]_vars
  PROVE  \/ UNCHANGED orders
         \/ Execute /\ action_call /\ create_order(cur.inc, exec.op)
BY DEF Next, Dispatch, Diagnose, Orchestrate, Execute, ExecutionStep, action_read,
   action_kinds, action_reconcile, action_pending, action_call, call_answered,
   call_answer_lost, call_not_received, call_rejected, action_succeeded, action_failed,
   action_finish, action_raises, Detect, Decide, Follow, poll_find, resolve_work_order,
   PollStep,
   poll_get, poll_get_fails, continue_with, poll_view, poll_audit, poll_close, poll_raises, Crash, vars, orderVars

\* Handlers of a kind are entered by taking a message, or have been entered.
LEMMA ActionEntered ==
  ASSUME TypeOK, HandlerTopic, [Next]_vars, NEW i, Handling(i, ActionStep)'
  PROVE  \/ Handling(i, ActionStep)
         \/ Dispatch /\ cur'.topic = "incident_approved"
<1>1. CASE Diagnose
  BY <1>1 DEF Diagnose, DiagnosisStep, knowledge_save, knowledge_publish,
     knowledge_raises, root_cause_read, root_cause_save, root_cause_publish,
     root_cause_raises, Goto, HandlerEnds, Handling, ActionStep
<1>2. CASE Orchestrate
  BY <1>2 DEF Orchestrate, OrchestrationStep, risk_assess, risk_publish,
     recommendation_read, recommendation_save, recommendation_publish,
     trigger_recommendation_publish, gate_read, gate_write, orchestrator_raises,
     Goto, HandlerEnds, Handling, ActionStep
<1>3. CASE Execute
  <2>1. at \in ActionStep /\ (UNCHANGED cur \/ at' = "idle")
    BY <1>3 DEF Execute, ExecutionStep, action_read, action_kinds, action_reconcile,
       action_pending, action_call, call_answered, call_answer_lost, call_not_received,
       call_rejected, retry_or_give_up, action_succeeded, action_failed, next_operation,
       action_finish, action_raises, Goto, HandlerEnds, ActionStep
  <2> QED
    BY <2>1 DEF Handling, ActionStep
<1>4. CASE Crash
  BY <1>4 DEF Crash, HandlerEnds, Handling, ActionStep
<1>5. CASE UNCHANGED <<at, cur>>
  BY <1>5 DEF Handling
<1>6. CASE Dispatch
  <2>1. HandlerTopic'
    BY HandlerTopicStep
  <2> QED
    BY <1>6, <2>1 DEF HandlerTopic, Handling
<1>7. Detect \/ Decide \/ Follow \/ UNCHANGED vars => UNCHANGED <<at, cur>>
  BY DEF Detect, upsert_incident, DetectionStep, publish_event, dead_letter, Decide,
     decision_check, resolve_check, RequestStep, decision_record, decision_publish,
     decision_publish_fails, resolve_write, request_raises, Follow, poll_find,
     resolve_work_order, PollStep,
     poll_get, poll_get_fails, continue_with, poll_view, poll_audit, poll_close, poll_raises,
     busVars, vars
<1> QED
  BY <1>1, <1>2, <1>3, <1>4, <1>5, <1>6, <1>7 DEF Next

-----------------------------------------------------------------------------
(* What was recommended stays *)

\* Once an incident has a recommendation, its level, diagnosis and plan are
\* final: no token is left that could write them.
LEMMA RecommendedIsFinal ==
  ASSUME TypeOK, PipelineInv, [Next]_vars, NEW i \in Incident, recommended[i]
  PROVE  /\ recommended'[i]
         /\ level'[i] = level[i] /\ diagnosis'[i] = diagnosis[i] /\ plan'[i] = plan[i]
<1> USE DEF PipelineInv
<1>1. level[i] # 0 /\ diagnosis[i] # "none"
  BY DEF ColumnsInOrder, Diagnosed
<1>2. level'[i] = level[i]
  <2>1. CASE risk_assess
    <3>1. cur.inc # i
      BY <1>1, <2>1 DEF StageOfToken, Handling, risk_assess
    <3> QED
      BY <2>1, <3>1 DEF risk_assess, save_risk_assessment, TypeOK, StoreTypeOK
  <2> QED
    BY <2>1, LevelWrite
<1>3. diagnosis'[i] = diagnosis[i]
  <2>1. CASE root_cause_save
    <3>1. cur.inc # i
      BY <1>1, <2>1 DEF StageOfToken, Handling, root_cause_save
    <3> QED
      BY <2>1, <3>1 DEF root_cause_save, save_root_cause, TypeOK, StoreTypeOK
  <2> QED
    BY <2>1, DiagnosisWrite
<1>4. recommended'[i] /\ plan'[i] = plan[i]
  <2>1. CASE recommendation_save
    <3>1. cur.inc # i
      BY <2>1 DEF StageOfToken, Handling, recommendation_save
    <3> QED
      BY <2>1, <3>1 DEF recommendation_save, save_recommendation, TypeOK, StoreTypeOK
  <2> QED
    BY <2>1, RecommendationWrite
<1> QED
  BY <1>2, <1>3, <1>4

\* Approval is asked for by the recommendation or the gate, at level 2 or 3.
LEMMA ApprovalAsked ==
  ASSUME TypeOK, PipelineInv, [Next]_vars, NEW i \in Incident,
         status[i] # "awaiting_approval", status'[i] = "awaiting_approval"
  PROVE  /\ recommended'[i] /\ level'[i] >= 2
         /\ at \in {"plan_save", "gate_write"} /\ cur.inc = i
<1>1. /\ Orchestrate /\ (recommendation_save \/ gate_write)
      /\ status' = [status EXCEPT ![cur.inc] = routed]
  BY StatusWrite DEF TypeOK, StoreTypeOK
<1>2. cur.inc = i /\ routed = "awaiting_approval"
  BY <1>1 DEF TypeOK, StoreTypeOK
<1>3. Handling(i, {"plan_save", "gate_write"})
  BY <1>1, <1>2 DEF Handling, recommendation_save, gate_write
<1>4. level[i] # 0 /\ routed = landing_status(level[i]) /\ level[i] \in 0..3
  BY <1>3 DEF PipelineInv, StageOfToken, TypeOK, StoreTypeOK, Level
<1>5. level[i] >= 2
  BY <1>2, <1>4 DEF landing_status, effective_level
<1>6. UNCHANGED level
  BY <1>1 DEF recommendation_save, save_recommendation, gate_write, transition_incident
<1>7. recommended'[i]
  <2>1. CASE recommendation_save
    BY <1>2, <2>1 DEF recommendation_save, save_recommendation, TypeOK, StoreTypeOK
  <2>2. CASE gate_write
    <3>1. recommended[i]
      BY <1>2, <2>2 DEF PipelineInv, StageOfToken, Handling, gate_write
    <3> QED
      BY <2>2, <3>1 DEF gate_write, transition_incident
  <2> QED
    BY <1>1, <2>1, <2>2
<1> QED
  BY <1>3, <1>5, <1>6, <1>7 DEF Handling

-----------------------------------------------------------------------------
(* Only entitled people, and only after they decided *)

\* An entitlement outlives every step.
LEMMA EntitledStays ==
  ASSUME TypeOK, PipelineInv, [Next]_vars, NEW c, NEW i \in Incident, Entitled(c, i)
  PROVE  Entitled(c, i)'
BY RecommendedIsFinal DEF Entitled, ensure_approval_level, ensure_site

\* A request that reaches "record" was there already, or has just been checked.
LEMMA RecordRequest ==
  ASSUME TypeOK, [Next]_vars, NEW c \in Client, request'[c].step = "record"
  PROVE  \/ request'[c] = request[c]
         \/ \E i \in Incident :
              /\ status[i] = "awaiting_approval" /\ ensure_site(c, i)
              /\ ensure_approval_level(c, effective_level(level[i]))
              /\ request'[c].inc = i /\ request'[c].level = effective_level(level[i])
<1> USE DEF TypeOK, DecisionsTypeOK
<1>1. CASE UNCHANGED request
  BY <1>1
<1>2. CASE Crash
  BY <1>2 DEF Crash, NoRequest
<1>3. CASE Decide
  <2>1. PICK b \in Client :
          \/ \E i \in Incident : \/ \E d \in Decision : decision_check(b, i, d)
                                 \/ resolve_check(b, i)
          \/ RequestStep(b)
    BY <1>3 DEF Decide
  <2>2. CASE b # c
    BY <2>1, <2>2 DEF decision_check, resolve_check, RequestStep, decision_record,
       decision_publish, decision_publish_fails, resolve_write, request_raises, RequestEnds
  <2>3. ASSUME b = c, NEW i \in Incident, NEW d \in Decision, decision_check(b, i, d)
        PROVE  /\ status[i] = "awaiting_approval" /\ ensure_site(c, i)
               /\ ensure_approval_level(c, effective_level(level[i]))
               /\ request'[c].inc = i /\ request'[c].level = effective_level(level[i])
    BY <2>3 DEF decision_check
  <2>4. ASSUME b = c, NEW i \in Incident, resolve_check(b, i)
        PROVE  FALSE
    BY <2>4 DEF resolve_check
  <2>5. ASSUME b = c, RequestStep(b)
        PROVE  FALSE
    <3>1. CASE request' = [request EXCEPT ![c] = NoRequest]
      BY <3>1 DEF NoRequest
    <3>2. CASE request[c].step = "record" /\ request' = [request EXCEPT ![c].step = "publish"]
      BY <3>2, RequestToPublish
    <3> QED
      BY <2>5, <3>1, <3>2 DEF RequestStep, decision_record, decision_publish,
         decision_publish_fails, resolve_write, request_raises, RequestEnds
  <2> QED
    BY <2>1, <2>2, <2>3, <2>4, <2>5
<1> QED
  BY <1>1, <1>2, <1>3 DEF Next, Dispatch, Diagnose, Orchestrate, Execute, Detect, Follow, vars

\* Every step preserves the invariant of the decision endpoints.
LEMMA DecisionStep ==
  ASSUME TypeOK, PipelineInv, DecisionInv, [Next]_vars
  PROVE  DecisionInv'
<1>1. ASSUME NEW i \in Incident, status'[i] = "awaiting_approval"
      PROVE  recommended'[i] /\ level'[i] >= 2
  <2>1. CASE status[i] = "awaiting_approval"
    BY <2>1, RecommendedIsFinal DEF DecisionInv
  <2>2. CASE status[i] # "awaiting_approval"
    BY <1>1, <2>2, ApprovalAsked
  <2> QED
    BY <2>1, <2>2
<1>2. ASSUME NEW c \in Client, request'[c].step = "record"
      PROVE  Entitled(c, request[c].inc)' /\ request'[c].level = level'[request'[c].inc]
  <2>1. CASE request'[c] = request[c]
    <3>1. /\ request[c].inc \in Incident /\ request'[c].inc = request[c].inc
          /\ Entitled(c, request[c].inc) /\ request[c].level = level[request[c].inc]
      BY <1>2, <2>1, RequestFields DEF DecisionInv, TypeOK
    <3>2. Entitled(c, request[c].inc) => recommended[request[c].inc]
      BY DEF Entitled
    <3>3. level'[request[c].inc] = level[request[c].inc]
      BY <3>1, <3>2, RecommendedIsFinal
    <3>4. \A i \in Incident : Entitled(c, i) => recommended'[i] /\ level'[i] = level[i]
      BY RecommendedIsFinal DEF Entitled
    <3> QED
      BY <2>1, <3>1, <3>3, <3>4 DEF Entitled, ensure_approval_level, ensure_site
  <2>2. ASSUME NEW i \in Incident, status[i] = "awaiting_approval", ensure_site(c, i),
               ensure_approval_level(c, effective_level(level[i])),
               request'[c].inc = i, request'[c].level = effective_level(level[i])
        PROVE  Entitled(c, request[c].inc)' /\ request'[c].level = level'[request'[c].inc]
    <3>1. recommended[i] /\ level[i] >= 2
      BY <2>2 DEF DecisionInv
    <3>2. effective_level(level[i]) = level[i]
      BY <3>1 DEF effective_level, TypeOK, StoreTypeOK, Level
    <3>3. recommended'[i] /\ level'[i] = level[i]
      BY <3>1, RecommendedIsFinal
    <3> QED
      BY <2>2, <3>1, <3>2, <3>3 DEF Entitled, ensure_approval_level, ensure_site
  <2> QED
    BY <1>2, <2>1, <2>2, RecordRequest
<1>3. ASSUME NEW a \in approvals'
      PROVE  Entitled(a.by, a.inc)' /\ a.level = level'[a.inc]
  <2>1. ASSUME a.inc \in Incident, Entitled(a.by, a.inc), a.level = level[a.inc]
        PROVE  Entitled(a.by, a.inc)' /\ a.level = level'[a.inc]
    <3>1. recommended[a.inc]
      BY <2>1 DEF Entitled
    <3>2. recommended'[a.inc] /\ level'[a.inc] = level[a.inc]
      BY <2>1, <3>1, RecommendedIsFinal
    <3> QED
      BY <2>1, <3>2 DEF Entitled, ensure_approval_level, ensure_site
  <2>2. CASE a \in approvals
    <3>1. a.inc \in Incident
      BY <2>2 DEF TypeOK, StoreTypeOK, Approval
    <3> QED
      BY <2>1, <2>2, <3>1 DEF DecisionInv
  <2>3. CASE a \notin approvals
    <3>1. PICK c \in Client : decision_record(c)
      BY <1>3, <2>3, ApprovalWrite
    <3>2. request[c].step = "record" /\ a = [inc |-> request[c].inc,
            decision |-> request[c].decision, by |-> c, level |-> request[c].level]
      BY <1>3, <2>3, <3>1 DEF decision_record, record_approval
    <3>3. a.inc \in Incident /\ Entitled(a.by, a.inc) /\ a.level = level[a.inc]
      BY <3>2, RequestFields DEF DecisionInv, TypeOK
    <3> QED
      BY <2>1, <3>3
  <2> QED
    BY <2>2, <2>3
<1> QED
  BY <1>1, <1>2, <1>3 DEF DecisionInv

\* Approvals are never deleted.
LEMMA ApprovedStays ==
  ASSUME [Next]_vars, NEW i, Approved(i)
  PROVE  Approved(i)'
BY ApprovalWrite DEF Approved, decision_record, record_approval

\* A request that reaches "publish" was there already, or approves in this step.
LEMMA PublishRequest ==
  ASSUME TypeOK, [Next]_vars, NEW c \in Client, request'[c].step = "publish"
  PROVE  \/ request'[c] = request[c]
         \/ /\ decision_record(c) /\ request[c].decision = "approved"
            /\ request'[c].inc = request[c].inc
<1> USE DEF TypeOK, DecisionsTypeOK
<1>1. CASE UNCHANGED request
  BY <1>1
<1>2. CASE Crash
  BY <1>2 DEF Crash, NoRequest
<1>3. CASE Decide
  <2>1. PICK b \in Client :
          \/ \E i \in Incident : \/ \E d \in Decision : decision_check(b, i, d)
                                 \/ resolve_check(b, i)
          \/ RequestStep(b)
    BY <1>3 DEF Decide
  <2>2. CASE b # c
    BY <2>1, <2>2 DEF decision_check, resolve_check, RequestStep, decision_record,
       decision_publish, decision_publish_fails, resolve_write, request_raises, RequestEnds
  <2>3. ASSUME b = c, NEW i \in Incident,
               (\E d \in Decision : decision_check(b, i, d)) \/ resolve_check(b, i)
        PROVE  FALSE
    BY <2>3 DEF decision_check, resolve_check
  <2>4. ASSUME b = c, RequestStep(b)
        PROVE  decision_record(c) /\ request[c].decision = "approved"
               /\ request'[c].inc = request[c].inc
    <3>1. request' # [request EXCEPT ![c] = NoRequest]
      BY DEF NoRequest
    <3>2. decision_record(c) /\ request[c].decision = "approved"
          /\ request' = [request EXCEPT ![c].step = "publish"]
      BY <2>4, <3>1 DEF RequestStep, decision_record, decision_publish,
         decision_publish_fails, resolve_write, request_raises, RequestEnds
    <3>3. request[c].step = "record"
      BY <3>2 DEF decision_record
    <3> QED
      BY <3>2, <3>3, RequestToPublish
  <2> QED
    BY <2>1, <2>2, <2>3, <2>4
<1> QED
  BY <1>1, <1>2, <1>3 DEF Next, Dispatch, Diagnose, Orchestrate, Execute, Detect, Follow, vars

\* An approval event enters the queue from the request that recorded it.
LEMMA ApprovalEvent ==
  ASSUME TypeOK, [Next]_vars, NEW i, InQueue("incident_approved", i)'
  PROVE  \/ InQueue("incident_approved", i)
         \/ \E c \in Client : request[c].step = "publish" /\ request[c].inc = i
<1>1. queue \in Seq(Message)
  BY DEF TypeOK, BusTypeOK
<1>2. CASE UNCHANGED queue
  BY <1>2 DEF InQueue
<1>3. CASE queue' = <<>>
  BY <1>3 DEF InQueue
<1>4. CASE Dispatch
  <2>1. queue # <<>> /\ queue' = Tail(queue)
    BY <1>4 DEF Dispatch, dispatch
  <2> QED
    BY <1>1, <2>1, TakeInQueue
<1>5. ASSUME NEW t, t # "incident_approved", NEW j, publish(t, j)
      PROVE  InQueue("incident_approved", i)
  BY <1>1, <1>5, PublishInQueue
<1>6. ASSUME NEW c \in Client, decision_publish(c)
      PROVE  \/ InQueue("incident_approved", i)
             \/ request[c].step = "publish" /\ request[c].inc = i
  <2>1. publish("incident_approved", request[c].inc) /\ request[c].step = "publish"
    BY <1>6 DEF decision_publish
  <2> QED
    BY <1>1, <2>1, PublishInQueue
<1>7. \/ UNCHANGED queue
      \/ queue' = <<>>
      \/ Dispatch
      \/ \E t : t # "incident_approved" /\ \E j : publish(t, j)
      \/ \E c \in Client : decision_publish(c)
  <2>1. CASE Diagnose
    BY <2>1 DEF Diagnose, DiagnosisStep, knowledge_save, knowledge_publish,
       knowledge_raises, root_cause_read, root_cause_save, root_cause_publish,
       root_cause_raises
  <2>2. CASE Orchestrate
    BY <2>2 DEF Orchestrate, OrchestrationStep, risk_assess, risk_publish,
       recommendation_read, recommendation_save, recommendation_publish,
       trigger_recommendation_publish, gate_read, gate_write, orchestrator_raises
  <2>3. CASE Execute
    BY <2>3 DEF Execute, ExecutionStep, action_read, action_kinds, action_reconcile,
       action_pending, action_call, action_succeeded, action_failed, action_finish,
       action_raises
  <2>4. CASE Detect
    BY <2>4 DEF Detect, upsert_incident, DetectionStep, publish_event, dead_letter, busVars
  <2>5. CASE Decide
    BY <2>5 DEF Decide, decision_check, resolve_check, RequestStep, decision_record,
       decision_publish_fails, resolve_write, request_raises, busVars
  <2>6. CASE Follow \/ Crash \/ UNCHANGED vars
    BY <2>6 DEF Follow, poll_find, resolve_work_order, PollStep,
       poll_get, poll_get_fails, continue_with, poll_view, poll_audit,
       poll_close, poll_raises, Crash, vars, busVars
  <2> QED
    BY <2>1, <2>2, <2>3, <2>4, <2>5, <2>6 DEF Next
<1> QED
  BY <1>2, <1>3, <1>4, <1>5, <1>6, <1>7

\* Every step keeps approvals ahead of executions.
LEMMA ApprovalFirstStep ==
  ASSUME TypeOK, PipelineInv, ApprovalFirst, [Next]_vars
  PROVE  ApprovalFirst'
<1>1. ASSUME NEW i \in Incident, InQueue("incident_approved", i)'
      PROVE  Approved(i)'
  BY <1>1, ApprovalEvent, ApprovedStays DEF ApprovalFirst
<1>2. ASSUME NEW i \in Incident, Handling(i, ActionStep)'
      PROVE  Approved(i)'
  <2>1. CASE Handling(i, ActionStep)
    BY <2>1, ApprovedStays DEF ApprovalFirst
  <2>2. CASE Dispatch /\ cur'.topic = "incident_approved"
    <3>1. queue \in Seq(Message) /\ queue # <<>> /\ cur' = Head(queue)
      BY <2>2 DEF Dispatch, dispatch, TypeOK, BusTypeOK
    <3>2. InQueue("incident_approved", i)
      BY <1>2, <2>2, <3>1, HeadInQueue DEF Handling
    <3> QED
      BY <3>2, ApprovedStays DEF ApprovalFirst
  <2> QED
    BY <1>2, <2>1, <2>2, ActionEntered DEF PipelineInv
<1>3. ASSUME NEW c \in Client, request'[c].step = "publish"
      PROVE  \E a \in approvals' : a.inc = request'[c].inc /\ a.decision = "approved"
  <2>1. CASE request'[c] = request[c]
    <3>1. \E a \in approvals : a.inc = request[c].inc /\ a.decision = "approved"
      BY <1>3, <2>1 DEF ApprovalFirst, Approved
    <3>2. approvals \subseteq approvals'
      BY ApprovalWrite DEF decision_record, record_approval
    <3> QED
      BY <2>1, <3>1, <3>2
  <2>2. CASE /\ decision_record(c) /\ request[c].decision = "approved"
             /\ request'[c].inc = request[c].inc
    <3> DEFINE r == [inc |-> request[c].inc, decision |-> request[c].decision,
                     by |-> c, level |-> request[c].level]
    <3>1. r \in approvals'
      BY <2>2 DEF decision_record, record_approval
    <3>2. r.inc = request'[c].inc /\ r.decision = "approved"
      BY <2>2
    <3> QED
      BY <3>1, <3>2
  <2> QED
    BY <1>3, <2>1, <2>2, PublishRequest
<1>4. ASSUME NEW i \in Incident, NEW k \in OpIndex, orders'[<<i, k>>] > 0
      PROVE  Approved(i)'
  <2>1. CASE orders[<<i, k>>] > 0
    BY <2>1, ApprovedStays DEF ApprovalFirst
  <2>2. CASE action_call /\ create_order(cur.inc, exec.op) /\ ~(orders[<<i, k>>] > 0)
    <3>1. cur.inc = i
      BY <1>4, <2>2 DEF create_order, TypeOK, ActionTypeOK
    <3>2. Handling(i, ActionStep)
      BY <2>2, <3>1 DEF Handling, action_call, ActionStep
    <3> QED
      BY <3>2, ApprovedStays DEF ApprovalFirst
  <2> QED
    BY <1>4, <2>1, <2>2, OrderWrite
<1>5. \A i \in Incident : (InQueue("incident_approved", i) \/ Handling(i, ActionStep) => Approved(i))'
  BY <1>1, <1>2
<1>6. \A c \in Client : (request[c].step = "publish" => Approved(request[c].inc))'
  BY <1>3 DEF Approved
<1> QED
  BY <1>4, <1>5, <1>6 DEF ApprovalFirst

\* A withheld diagnosis leaves the machine to people.
Withheld == \A i \in Incident :
  diagnosis[i] = "withheld" => status[i] \in {"needs_human_review", "resolved"}

\* An incident with a withheld diagnosis has nothing a handler would act on.
LEMMA WithheldHasNothing ==
  ASSUME TypeOK, PipelineInv, DecisionInv, ApprovalFirst, NEW i \in Incident,
         diagnosis[i] = "withheld"
  PROVE  /\ level[i] = 0 /\ ~recommended[i] /\ ~Decided(i) /\ ~Approved(i)
         /\ ~Handling(i, {"diagnose_publish", "risk_save", "risk_publish", "plan_save",
                          "plan_publish", "plan_publish_again", "gate_write"})
         /\ ~Handling(i, ActionStep)
         /\ \A c \in Client : request[c].step = "record" => request[c].inc # i
<1>1. level[i] = 0 /\ ~recommended[i]
  BY DEF PipelineInv, ColumnsInOrder, Diagnosed
<1>2. ~Decided(i) /\ ~Approved(i)
  BY <1>1 DEF DecisionInv, Entitled, Decided, Approved
<1>3. ~Handling(i, {"diagnose_publish", "risk_save", "risk_publish", "plan_save",
                    "plan_publish", "plan_publish_again", "gate_write"})
  BY <1>1 DEF PipelineInv, StageOfToken, Diagnosed, Handling
<1>4. ~Handling(i, ActionStep)
  BY <1>2 DEF ApprovalFirst
<1>5. \A c \in Client : request[c].step = "record" => request[c].inc # i
  BY <1>1 DEF DecisionInv, Entitled
<1> QED
  BY <1>1, <1>2, <1>3, <1>4, <1>5

\* Every step keeps withheld diagnoses out of the pipeline.
LEMMA WithheldStep ==
  ASSUME TypeOK, PipelineInv, DecisionInv, ApprovalFirst, Withheld, [Next]_vars
  PROVE  Withheld'
<1> SUFFICES ASSUME NEW i \in Incident, diagnosis'[i] = "withheld"
             PROVE  status'[i] \in {"needs_human_review", "resolved"}
  BY DEF Withheld
<1> USE DEF TypeOK, StoreTypeOK
<1>1. CASE diagnosis[i] # "withheld"
  <2>1. root_cause_save
    BY <1>1, DiagnosisWrite
  <2>2. PICK outcome \in Diagnosis \ {"none"} :
          save_root_cause(cur.inc, outcome, status_for(outcome))
    BY <2>1 DEF root_cause_save
  <2>3. cur.inc = i /\ outcome = "withheld"
    BY <1>1, <2>2 DEF save_root_cause
  <2> QED
    BY <2>2, <2>3 DEF save_root_cause, status_for
<1>2. CASE diagnosis[i] = "withheld"
  <2> DEFINE Stays == status'[i] \in {"needs_human_review", "resolved"}
  <2>1. status[i] \in {"needs_human_review", "resolved"}
    BY <1>2 DEF Withheld
  <2>2. /\ ~Handling(i, {"diagnose_publish", "risk_save", "risk_publish", "plan_save",
                         "plan_publish", "plan_publish_again", "gate_write"})
        /\ ~Handling(i, ActionStep)
        /\ \A c \in Client : request[c].step = "record" => request[c].inc # i
    BY <1>2, WithheldHasNothing
  <2>3. CASE Dispatch
    BY <2>1, <2>3 DEF Dispatch, storeVars
  <2>4. CASE Diagnose
    <3>1. CASE root_cause_save
      <4>1. cur.inc # i
        BY <1>2, <3>1 DEF root_cause_save, PipelineInv, StageOfToken, Handling
      <4> QED
        BY <2>1, <3>1, <4>1 DEF root_cause_save, save_root_cause
    <3>2. CASE ~root_cause_save
      BY <2>1, <2>4, <3>2 DEF Diagnose, DiagnosisStep, knowledge_save,
         save_incident_evidence, knowledge_publish, knowledge_raises, root_cause_read,
         root_cause_publish, root_cause_raises, storeVars
    <3> QED
      BY <3>1, <3>2
  <2>5. CASE Orchestrate
    <3>1. CASE risk_assess \/ recommendation_save \/ gate_write
      <4>1. cur.inc # i
        BY <2>2, <3>1 DEF Handling, risk_assess, recommendation_save, gate_write
      <4> QED
        BY <2>1, <3>1, <4>1 DEF risk_assess, save_risk_assessment, recommendation_save,
           save_recommendation, gate_write, transition_incident
    <3>2. CASE ~(risk_assess \/ recommendation_save \/ gate_write)
      BY <2>1, <2>5, <3>2 DEF Orchestrate, OrchestrationStep, risk_publish,
         recommendation_read, recommendation_publish, trigger_recommendation_publish,
         gate_read, orchestrator_raises, storeVars
    <3> QED
      BY <3>1, <3>2
  <2>6. CASE Execute
    <3>1. CASE action_reconcile \/ action_finish
      <4>1. cur.inc # i
        BY <2>2, <3>1 DEF Handling, action_reconcile, action_finish, ActionStep
      <4> QED
        BY <2>1, <3>1, <4>1 DEF action_reconcile, action_finish, save_action_result,
           transition_incident
    <3>2. CASE ~(action_reconcile \/ action_finish)
      BY <2>1, <2>6, <3>2 DEF Execute, ExecutionStep, action_read, action_kinds,
         action_pending, action_call, action_succeeded, action_failed, action_raises,
         record_action_execution, storeVars
    <3> QED
      BY <3>1, <3>2
  <2>7. CASE Detect
    <3>1. ASSUME NEW e \in Equipment, NEW j \in fresh_rows(e), transition_incident(j, "open")
          PROVE  Stays
      BY <2>1, <3>1 DEF fresh_rows, Exists, transition_incident
    <3> QED
      BY <2>1, <2>7, <3>1 DEF Detect, upsert_incident, DetectionStep, publish_event,
         dead_letter, storeVars
  <2>8. CASE Decide
    <3>1. ASSUME NEW c \in Client, decision_record(c)
          PROVE  Stays
      <4>1. request[c].inc # i
        BY <2>2, <3>1 DEF decision_record
      <4> QED
        BY <2>1, <3>1, <4>1 DEF decision_record, record_approval
    <3>2. ASSUME NEW c \in Client, resolve_write(c)
          PROVE  Stays
      BY <2>1, <3>2 DEF resolve_write, resolve_incident_manually, transition_incident
    <3> QED
      BY <2>1, <2>8, <3>1, <3>2 DEF Decide, decision_check, resolve_check, RequestStep,
         decision_publish, decision_publish_fails, request_raises, storeVars
  <2>9. CASE Follow
    BY <2>1, <2>9 DEF Follow, poll_find, resolve_work_order, PollStep,
       poll_get, poll_get_fails, continue_with, poll_view,
       poll_audit, poll_close, close_incident_loop, poll_raises, storeVars
  <2>10. CASE Crash \/ UNCHANGED vars
    BY <2>1, <2>10 DEF Crash, vars, storeVars
  <2> QED
    BY <2>3, <2>4, <2>5, <2>6, <2>7, <2>8, <2>9, <2>10 DEF Next
<1> QED
  BY <1>1, <1>2

-----------------------------------------------------------------------------
(* Theorems *)

GateInv == TypeOK /\ PipelineInv /\ DecisionInv /\ ApprovalFirst /\ Withheld

\* The initial state satisfies the decision invariants.
LEMMA GateInvInit == Init => DecisionInv /\ ApprovalFirst /\ Withheld
<1> SUFFICES ASSUME Init
             PROVE  DecisionInv /\ ApprovalFirst /\ Withheld
  OBVIOUS
<1>1. DecisionInv /\ Withheld
  BY DEF Init, StoreInit, DecisionsInit, DecisionInv, Withheld, NoRequest
<1>2. \A i \in Incident : ~InQueue("incident_approved", i) /\ ~Handling(i, ActionStep)
  BY DEF Init, BusInit, InQueue, Handling, ActionStep
<1>3. \A c \in Client : request[c].step # "publish"
  BY DEF Init, DecisionsInit, NoRequest
<1>4. ASSUME NEW i \in Incident, NEW k \in OpIndex
      PROVE  ~(orders[<<i, k>>] > 0)
  <2>1. orders[<<i, k>>] = 0
    BY DEF Init, ActionInit
  <2> QED
    BY <2>1
<1> QED
  BY <1>1, <1>2, <1>3, <1>4 DEF ApprovalFirst

\* What the approval gate rests on is invariant: requests past their checks are
\* entitled, approvals precede executions, withheld diagnoses stay out
\* (api/incidents.py, agents/action, agents/root_cause).
THEOREM GateInvariant == Spec => []GateInv
<1>1. GateInv /\ [Next]_vars => (DecisionInv /\ ApprovalFirst /\ Withheld)'
  BY DecisionStep, ApprovalFirstStep, WithheldStep DEF GateInv
<1> QED
  BY GateInvInit, <1>1, TypeCorrect, PipelineInvariant, PTL DEF Spec, GateInv

\* Whatever is recorded as decided was decided by someone whose role and site
\* entitle them, on a diagnosed and recommended incident, at the level it has
\* (api/incidents.py _record_decision, whose check and write are apart).
THEOREM DecisionsAreAuthorised == Spec => []AuthorisedDecisions
<1>1. GateInv => AuthorisedDecisions
  <2> SUFFICES ASSUME GateInv, NEW a \in approvals
               PROVE  /\ a.level = level[a.inc] /\ Entitled(a.by, a.inc)
                      /\ diagnosis[a.inc] \in {"cause", "insufficient"}
    BY DEF AuthorisedDecisions, Entitled
  <2>1. a.level = level[a.inc] /\ Entitled(a.by, a.inc)
    BY DEF GateInv, DecisionInv
  <2>2. a.inc \in Incident
    BY DEF GateInv, TypeOK, StoreTypeOK, Approval
  <2>3. level[a.inc] # 0
    BY <2>1, <2>2 DEF Entitled, GateInv, PipelineInv, ColumnsInOrder
  <2> QED
    BY <2>1, <2>2, <2>3 DEF GateInv, PipelineInv, ColumnsInOrder, Diagnosed
<1> QED
  BY <1>1, GateInvariant, PTL

\* A diagnosis without sound citations never leaves human hands
\* (agents/root_cause/agent.py handle, its last branch).
THEOREM WithheldIsForHumans == Spec => []WithheldStaysWithHumans
<1>1. GateInv => WithheldStaysWithHumans
  BY WithheldHasNothing DEF GateInv, Withheld, WithheldStaysWithHumans
<1> QED
  BY <1>1, GateInvariant, PTL

\* What people are asked about, or have decided on, does not change under
\* them (agents/orchestrator, agents/recommendation).
THEOREM DecidedPlansAreFrozen == Spec => DecidedPlanIsFrozen
<1> DEFINE Frozen ==
      \A i \in Incident :
        status[i] = "awaiting_approval" \/ Decided(i) =>
          /\ plan'[i] = plan[i]
          /\ level'[i] = level[i]
          /\ diagnosis'[i] = diagnosis[i]
<1>1. GateInv /\ [Next]_vars => Frozen
  <2> SUFFICES ASSUME GateInv, [Next]_vars, NEW i \in Incident,
                      status[i] = "awaiting_approval" \/ Decided(i)
               PROVE  plan'[i] = plan[i] /\ level'[i] = level[i] /\ diagnosis'[i] = diagnosis[i]
    OBVIOUS
  <2>1. recommended[i]
    BY DEF GateInv, DecisionInv, Entitled, Decided
  <2> QED
    BY <2>1, RecommendedIsFinal DEF GateInv
<1> QED
  BY <1>1, GateInvariant, PTL DEF Spec, DecidedPlanIsFrozen

\* A decision stands once the gate messages of its incident are handled: the
\* gate is the only code that could ask again (agents/orchestrator/agent.py
\* _apply_hitl_gate), and it needs one of them to run.
THEOREM DecisionsStand == Spec => DecisionStandsOnceGateIsDrained
<1> DEFINE Stands ==
      \A i \in Incident :
        /\ Decided(i)
        /\ ~GateOutstanding(i)
        /\ status[i] # "awaiting_approval"
        => status'[i] # "awaiting_approval"
<1>1. GateInv /\ [Next]_vars => Stands
  <2> SUFFICES ASSUME GateInv, [Next]_vars, NEW i \in Incident, Decided(i),
                      status[i] # "awaiting_approval", status'[i] = "awaiting_approval"
               PROVE  GateOutstanding(i)
    OBVIOUS
  <2>1. at \in {"plan_save", "gate_write"} /\ cur.inc = i
    BY ApprovalAsked DEF GateInv
  <2>2. recommended[i]
    BY DEF GateInv, DecisionInv, Entitled, Decided
  <2>3. at = "gate_write"
    BY <2>1, <2>2 DEF GateInv, PipelineInv, StageOfToken, Handling
  <2>4. cur \in Message /\ cur.topic = "recommendation"
    BY <2>3, CurrentMessage DEF GateInv, TypeOK, PipelineInv, HandlerTopic
  <2>5. cur = [topic |-> "recommendation", inc |-> i]
    BY <2>1, <2>4 DEF Message
  <2> QED
    BY <2>5 DEF GateOutstanding, Pending
<1> QED
  BY <1>1, GateInvariant, PTL DEF Spec, DecisionStandsOnceGateIsDrained

-----------------------------------------------------------------------------
(* Refinement *)

\* One request records one approval.
LEMMA ApprovalsAreAlone ==
  ASSUME [Next]_vars, approvals' # approvals
  PROVE  UNCHANGED <<level, orders>> /\ \E c \in Client : decision_record(c)
<1>1. PICK c \in Client : decision_record(c)
  BY ApprovalWrite
<1>2. UNCHANGED level
  BY <1>1 DEF decision_record, record_approval
<1>3. UNCHANGED orders
  <2>1. CASE action_call
    BY <2>1 DEF action_call, storeVars
  <2> QED
    BY <2>1, OrderWrite
<1> QED
  BY <1>1, <1>2, <1>3

\* The three things the gate speaks of are written by three actions, never two
\* at a time: the risk assessment, the recording of an approval, a CMMS call.
THEOREM ImplementsGate == Spec => GateSpec
<1> USE DEF Gate!gateVars
<1>1. Init => Gate!GateInit
  <2> SUFFICES ASSUME Init
               PROVE  Gate!GateInit
    OBVIOUS
  <2>1. ASSUME NEW i \in Incident, NEW k \in OpIndex
        PROVE  ~(orders[<<i, k>>] > 0)
    <3>1. orders[<<i, k>>] = 0
      BY DEF Init, ActionInit
    <3> QED
      BY <3>1
  <2>2. level = [i \in Incident |-> 0] /\ approvals = {}
    BY DEF Init, StoreInit
  <2> QED
    BY <2>1, <2>2 DEF Gate!GateInit
<1>2. GateInv /\ [Next]_vars => [Gate!GateNext]_(Gate!gateVars)
  <2> SUFFICES ASSUME GateInv, [Next]_vars
               PROVE  [Gate!GateNext]_(Gate!gateVars)
    OBVIOUS
  <2> USE DEF GateInv
  <2>1. CASE UNCHANGED <<level, approvals, orders>>
    BY <2>1
  <2>2. CASE level' # level
    <3>1. risk_assess /\ cur.inc \in Incident
      BY <2>2, LevelWrite, CurrentMessage DEF risk_assess, TypeOK
    <3>2. PICK l \in 1..3 : level' = [level EXCEPT ![cur.inc] = l]
      <4>1. hitl_levels(diagnosis[cur.inc]) \subseteq 1..3
        BY DEF hitl_levels
      <4> QED
        BY <3>1, <4>1 DEF risk_assess, save_risk_assessment
    <3>3. level[cur.inc] = 0
      BY <3>1 DEF risk_assess, PipelineInv, StageOfToken, Handling
    <3>4. UNCHANGED approvals
      BY <3>1 DEF risk_assess, save_risk_assessment
    <3>5. UNCHANGED orders
      BY <3>1, OrderWrite DEF risk_assess, action_call
    <3> QED
      BY <3>1, <3>2, <3>3, <3>4, <3>5 DEF Gate!GateNext, Gate!Assess
  <2>3. CASE approvals' # approvals
    <3>1. PICK c \in Client : decision_record(c)
      BY <2>3, ApprovalsAreAlone
    <3>2. UNCHANGED <<level, orders>>
      BY <2>3, ApprovalsAreAlone
    <3> DEFINE i == request[c].inc
               Granted(A) == {<<a.inc, a.by>> : a \in {b \in A : b.decision = "approved"}}
               r == [inc |-> i, decision |-> request[c].decision, by |-> c,
                     level |-> request[c].level]
    <3>3. approvals' = approvals \cup {r}
      BY <3>1 DEF decision_record, record_approval
    <3>4. i \in Incident /\ Entitled(c, i) /\ request[c].decision \in Decision
      BY <3>1, RequestFields DEF decision_record, DecisionInv, TypeOK
    <3>5. CASE request[c].decision = "approved"
      <4>1. Granted(approvals') = Granted(approvals) \cup {<<i, c>>}
        <5>1. r.inc = i /\ r.by = c /\ r.decision = "approved"
          BY <3>5
        <5>2. {b \in approvals' : b.decision = "approved"}
                = {b \in approvals : b.decision = "approved"} \cup {r}
          BY <3>3, <5>1
        <5> HIDE DEF r
        <5> QED
          BY <5>1, <5>2
      <4>2. level[i] >= 2 /\ max_approval_level[RoleOf[c]] >= level[i]
        BY <3>4 DEF Entitled, ensure_approval_level
      <4> HIDE DEF Granted, i
      <4>3. Gate!Grant(i, c)
        BY <3>2, <4>1, <4>2 DEF Gate!Grant, Granted
      <4> QED
        BY <3>4, <4>3 DEF Gate!GateNext
    <3>6. CASE request[c].decision # "approved"
      <4>1. Granted(approvals') = Granted(approvals)
        BY <3>3, <3>6
      <4> QED
        BY <3>2, <4>1
    <3> QED
      BY <3>5, <3>6
  <2>4. CASE orders' # orders
    <3>1. action_call /\ create_order(cur.inc, exec.op) /\ cur.inc \in Incident
      BY <2>4, OrderWrite, CurrentMessage DEF action_call, TypeOK
    <3>2. UNCHANGED <<level, approvals>>
      BY <3>1 DEF action_call, storeVars
    <3>3. Approved(cur.inc)
      BY <3>1 DEF ApprovalFirst, Handling, action_call, ActionStep
    <3> DEFINE Acted(o) == {j \in Incident : \E k \in OpIndex : o[<<j, k>>] > 0}
    <3>4. Acted(orders') = Acted(orders) \/ Acted(orders') = Acted(orders) \cup {cur.inc}
      <4>1. ASSUME NEW j \in Incident, NEW k \in OpIndex
            PROVE  /\ j # cur.inc => orders'[<<j, k>>] = orders[<<j, k>>]
                   /\ orders[<<j, k>>] > 0 => orders'[<<j, k>>] > 0
        BY <3>1 DEF create_order, TypeOK, ActionTypeOK
      <4>2. \A j : j \in Acted(orders) => j \in Acted(orders')
        BY <4>1
      <4>3. \A j : j \in Acted(orders') => j \in Acted(orders) \/ j = cur.inc
        BY <4>1
      <4> HIDE DEF Acted
      <4> QED
        BY <4>2, <4>3
    <3>5. PICK a \in approvals : a.inc = cur.inc /\ a.decision = "approved"
      BY <3>3 DEF Approved
    <3>6. a.by \in Client
      BY DEF TypeOK, StoreTypeOK, Approval
    <3>7. CASE Acted(orders') = Acted(orders)
      BY <3>2, <3>7
    <3>8. CASE Acted(orders') = Acted(orders) \cup {cur.inc}
      <4>1. \E p \in Client : <<cur.inc, p>> \in
              {<<b.inc, b.by>> : b \in {d \in approvals : d.decision = "approved"}}
        <5>1. a \in {d \in approvals : d.decision = "approved"}
          BY <3>5
        <5>2. <<cur.inc, a.by>> = <<a.inc, a.by>>
          BY <3>5
        <5> QED
          BY <3>6, <5>1, <5>2
      <4>2. PICK j \in Incident : j = cur.inc
        BY <3>1
      <4>3. Gate!Act(j)
        BY <3>2, <3>8, <4>1, <4>2 DEF Gate!Act
      <4> QED
        BY <4>2, <4>3 DEF Gate!GateNext
    <3> QED
      BY <3>4, <3>7, <3>8
  <2> QED
    BY <2>1, <2>2, <2>3, <2>4
<1> QED
  BY <1>1, <1>2, GateInvariant, PTL DEF Spec, GateSpec, Gate!GateSpec

-----------------------------------------------------------------------------
(* The execution of an approved plan *)

\* Incrementing one counter of a table leaves the others alone.
LEMMA Increment ==
  ASSUME NEW S, NEW f \in [S -> Nat], NEW x \in S, NEW g, g = [f EXCEPT ![x] = @ + 1]
  PROVE  /\ g[x] = f[x] + 1 /\ f[x] \in Nat
         /\ \A y \in S : y # x => g[y] = f[y]
OBVIOUS

\* The operation a loop step is about is one of the plan's.
LEMMA LoopOperation ==
  ASSUME TypeOK, OperationOrder, at \in LoopStep
  PROVE  /\ cur.inc \in Incident /\ exec.op \in OpIndex
         /\ exec.op \in 1..Len(plan[cur.inc]) /\ Len(plan[cur.inc]) <= MaxOps
         /\ exec.try \in 1..Attempts /\ Attempts \in Nat
<1>1. cur.inc \in Incident
  BY CurrentMessage DEF LoopStep, TypeOK
<1>2. plan[cur.inc] \in Plans \cup {<<>>}
  BY <1>1 DEF TypeOK, StoreTypeOK
<1>3. Len(plan[cur.inc]) \in Nat /\ Len(plan[cur.inc]) <= MaxOps /\ MaxOps \in Nat
  BY <1>2, PlansAssumption
<1>4. exec.op \in 1..Len(plan[cur.inc])
  BY DEF OperationOrder
<1>5. exec.try \in 1..Attempts /\ Attempts \in Nat
  BY AttemptsAssumption DEF TypeOK, ActionTypeOK
<1> QED
  BY <1>1, <1>3, <1>4, <1>5 DEF OpIndex

\* Rows are added by the execution alone, for the operation in progress.
LEMMA ActionWrite ==
  ASSUME [Next]_vars
  PROVE  \/ UNCHANGED actions
         \/ /\ Execute /\ at \in LoopStep
            /\ \E o \in Outcome : record_action_execution(cur.inc, exec.op, o)
<1>1. {"pending", "succeeded", "failed"} \subseteq Outcome
  BY DEF Outcome
<1>2. CASE Execute
  BY <1>1, <1>2 DEF Execute, ExecutionStep, action_read, action_kinds, action_reconcile,
     save_action_result, transition_incident, action_pending, action_call,
     action_succeeded, action_failed, action_finish, action_raises, LoopStep, storeVars
<1>3. CASE ~Execute
  BY <1>3 DEF Next, Dispatch, Diagnose, DiagnosisStep, knowledge_save,
     save_incident_evidence, knowledge_publish, knowledge_raises, root_cause_read,
     root_cause_save, save_root_cause, root_cause_publish, root_cause_raises, Orchestrate,
     OrchestrationStep, risk_assess, save_risk_assessment, risk_publish,
     recommendation_read, recommendation_save, save_recommendation,
     recommendation_publish, trigger_recommendation_publish, gate_read, gate_write,
     transition_incident, orchestrator_raises, Detect, upsert_incident, DetectionStep,
     publish_event, dead_letter, Decide, decision_check, resolve_check, RequestStep,
     decision_record, record_approval, decision_publish, decision_publish_fails,
     resolve_write, resolve_incident_manually, request_raises, Follow, poll_find,
     resolve_work_order, PollStep,
     poll_get, poll_get_fails, continue_with, poll_view, poll_audit, poll_close,
     close_incident_loop, poll_raises, Crash, vars, storeVars
<1> QED
  BY <1>2, <1>3

-----------------------------------------------------------------------------
(* The order of the operations *)

\* The loop of handle executes a plan's operations in order, each at most once.
LEMMA OperationOrderStep ==
  ASSUME TypeOK, OperationOrder, [Next]_vars
  PROVE  OperationOrder'
<1> USE DEF OperationOrder
<1>1. CASE Execute
  <2>1. CASE action_read \/ action_kinds \/ action_reconcile
    <3>1. CASE at' # "action_pending"
      BY <2>1, <3>1 DEF action_read, action_kinds, action_reconcile, Goto, HandlerEnds,
         LoopStep
    <3>2. CASE at' = "action_pending"
      <4>1. /\ at = "action_kinds" /\ ~nothing_to_execute(cur.inc)
            /\ UNCHANGED <<cur, exec, plan, actions>>
        BY <2>1, <3>2 DEF action_read, action_kinds, action_reconcile, Goto, HandlerEnds,
           storeVars
      <4>2. cur.inc \in Incident
        BY <4>1, CurrentMessage DEF TypeOK
      <4>3. exec = NoExec
        BY <4>1 DEF LoopStep
      <4>4. plan[cur.inc] # <<>> /\ executed_ops(cur.inc) = {}
        BY <4>1 DEF nothing_to_execute
      <4>5. plan[cur.inc] \in Seq(OpKind)
        BY <4>2, PlansAssumption DEF TypeOK, StoreTypeOK
      <4>6. 1 \in 1..Len(plan[cur.inc])
        BY <4>4, <4>5
      <4>7. ASSUME NEW k \in OpIndex
            PROVE  actions[<<cur.inc, k, "succeeded">>] = 0
        <5>1. actions[<<cur.inc, k, "succeeded">>] \in Nat
          BY <4>2 DEF TypeOK, StoreTypeOK, Outcome
        <5> QED
          BY <4>4, <5>1 DEF executed_ops
      <4> QED
        BY <3>2, <4>1, <4>3, <4>6, <4>7 DEF LoopStep, NoExec
    <3> QED
      BY <3>1, <3>2
  <2>2. CASE action_pending
    <3>1. /\ at = "action_pending" /\ at' = "action_call" /\ UNCHANGED <<cur, exec, plan>>
          /\ record_action_execution(cur.inc, exec.op, "pending")
      BY <2>2 DEF action_pending, Goto, record_action_execution
    <3>2. ASSUME NEW k \in OpIndex
          PROVE  actions'[<<cur.inc, k, "succeeded">>] = actions[<<cur.inc, k, "succeeded">>]
      BY <3>1, LoopOperation DEF record_action_execution, TypeOK, StoreTypeOK, LoopStep, Outcome
    <3> QED
      BY <3>1, <3>2 DEF LoopStep
  <2>3. CASE action_call
    <3>1. /\ at = "action_call" /\ at' \in {"action_call", "action_succeeded", "action_failed"}
          /\ exec'.op = exec.op /\ UNCHANGED <<cur, plan, actions>>
      BY <2>3 DEF action_call, call_answered, call_answer_lost, call_not_received,
         call_rejected, retry_or_give_up, Goto, storeVars, TypeOK, ActionTypeOK
    <3> QED
      BY <3>1 DEF LoopStep
  <2>4. CASE action_succeeded \/ action_failed
    <3>1. /\ at \in {"action_succeeded", "action_failed"}
          /\ at' = IF exec.op < Len(plan[cur.inc]) THEN "action_pending" ELSE "action_finish"
          /\ exec'.op = exec.op + 1 /\ exec'.try = 1
          /\ UNCHANGED <<cur, plan>>
          /\ record_action_execution(cur.inc, exec.op, "succeeded")
             \/ record_action_execution(cur.inc, exec.op, "failed")
      BY <2>4 DEF action_succeeded, action_failed, next_operation, Goto,
         record_action_execution
    <3>2. /\ cur.inc \in Incident /\ exec.op \in OpIndex
          /\ exec.op \in 1..Len(plan[cur.inc]) /\ Len(plan[cur.inc]) <= MaxOps
      BY <3>1, LoopOperation DEF LoopStep
    <3>3. ASSUME NEW k \in OpIndex, k >= exec.op + 1
          PROVE  actions'[<<cur.inc, k, "succeeded">>] = actions[<<cur.inc, k, "succeeded">>]
      <4>1. k # exec.op
        BY <3>2, <3>3 DEF OpIndex
      <4> QED
        BY <3>1, <4>1 DEF record_action_execution, TypeOK, StoreTypeOK, Outcome
    <3>4. ASSUME NEW k \in OpIndex, k >= exec.op + 1
          PROVE  actions[<<cur.inc, k, "succeeded">>] = 0
      <4>1. k >= exec.op
        BY <3>2, <3>4 DEF OpIndex
      <4> QED
        BY <3>1, <4>1 DEF LoopStep
    <3>5. at' = "action_pending" => exec.op + 1 \in 1..Len(plan[cur.inc])
      <4>1. Len(plan[cur.inc]) \in Nat
        BY <3>2 DEF TypeOK, StoreTypeOK
      <4> QED
        BY <3>1, <3>2, <4>1
    <3> QED
      BY <3>1, <3>3, <3>4, <3>5 DEF LoopStep
  <2>5. CASE action_finish \/ action_raises
    BY <2>5 DEF action_finish, action_raises, HandlerEnds, LoopStep, NoExec
  <2> QED
    BY <1>1, <2>1, <2>2, <2>3, <2>4, <2>5 DEF Execute, ExecutionStep
<1>2. CASE Dispatch \/ Diagnose \/ Orchestrate
  <2>1. at \notin LoopStep \cup {"action_finish"}
    BY <1>2 DEF Dispatch, dispatch, Diagnose, DiagnosisStep, knowledge_save,
       knowledge_publish, knowledge_raises, root_cause_read, root_cause_save,
       root_cause_publish, root_cause_raises, Orchestrate, OrchestrationStep, risk_assess,
       risk_publish, recommendation_read, recommendation_save, recommendation_publish,
       trigger_recommendation_publish, gate_read, gate_write, orchestrator_raises,
       KnowledgeStep, RootCauseStep, OrchestratorStep, LoopStep
  <2>2. at' \notin LoopStep \cup {"action_finish"}
    <3>1. CASE Dispatch
      <4>1. Head(queue) \in Message
        BY <3>1 DEF Dispatch, dispatch, TypeOK, BusTypeOK
      <4>2. Head(queue).topic \in Topic
        BY <4>1 DEF Message
      <4> QED
        BY <3>1, <4>2 DEF Dispatch, dispatch, first_step, Topic, LoopStep
    <3>2. CASE Diagnose
      BY <3>2 DEF Diagnose, DiagnosisStep, knowledge_save, knowledge_publish,
         knowledge_raises, root_cause_read, root_cause_save, root_cause_publish,
         root_cause_raises, Goto, HandlerEnds, LoopStep
    <3>3. CASE Orchestrate
      BY <3>3 DEF Orchestrate, OrchestrationStep, risk_assess, risk_publish,
         recommendation_read, recommendation_save, recommendation_publish,
         trigger_recommendation_publish, gate_read, gate_write, orchestrator_raises,
         Goto, HandlerEnds, LoopStep
    <3> QED
      BY <1>2, <3>1, <3>2, <3>3
  <2>3. UNCHANGED exec
    BY <1>2 DEF Dispatch, Diagnose, Orchestrate
  <2> QED
    BY <2>1, <2>2, <2>3 DEF LoopStep
<1>3. CASE Detect \/ Decide \/ Follow \/ UNCHANGED vars
  <2>1. UNCHANGED <<at, cur, exec, plan, actions>>
    BY <1>3 DEF Detect, upsert_incident, transition_incident, DetectionStep, publish_event,
       dead_letter, Decide, decision_check, resolve_check, RequestStep, decision_record,
       record_approval, decision_publish, decision_publish_fails, resolve_write,
       resolve_incident_manually, request_raises, Follow, poll_find, resolve_work_order,
       PollStep,
       poll_get, poll_get_fails, continue_with, poll_view, poll_audit, poll_close, close_incident_loop, poll_raises,
       busVars, storeVars, vars
  <2> QED
    BY <2>1
<1>4. CASE Crash
  BY <1>4 DEF Crash, HandlerEnds, LoopStep
<1> QED
  BY <1>1, <1>2, <1>3, <1>4 DEF Next

-----------------------------------------------------------------------------
(* The record of an operation *)

\* The arithmetic of one operation: s, f, p rows that say succeeded, failed and
\* pending, o orders in the CMMS, t tries a call in progress has left.
LEMMA OneMoreTry == \A a, p \in Nat : a * (p + 1) = a * p + a
OBVIOUS

\* A step that touches no row and no order of (i, k), and puts no operation of
\* it in progress, keeps its account.
LEMMA AccountUntouched ==
  ASSUME TypeOK, NEW i \in Incident, NEW k \in OpIndex, Accounted(i, k),
         \A o \in Outcome : actions'[<<i, k, o>>] = actions[<<i, k, o>>],
         orders'[<<i, k>>] = orders[<<i, k>>],
         \/ at' \notin {"action_call", "action_succeeded", "action_failed"}
         \/ ~(cur'.inc = i /\ exec'.op = k)
         \/ UNCHANGED <<at, cur, exec>>
  PROVE  Accounted(i, k)'
<1>1. \A o \in Outcome : actions[<<i, k, o>>] \in Nat
  BY DEF TypeOK, StoreTypeOK
<1>2. orders[<<i, k>>] \in Nat /\ Attempts \in Nat /\ exec.try \in 1..Attempts
  BY AttemptsAssumption DEF TypeOK, ActionTypeOK
<1>3. {"pending", "succeeded", "failed"} \subseteq Outcome
  BY DEF Outcome
<1> DEFINE calling == Handling(i, {"action_call"}) /\ exec.op = k
           ended == Handling(i, {"action_succeeded", "action_failed"}) /\ exec.op = k
<1>4. CASE UNCHANGED <<at, cur, exec>>
  BY <1>1, <1>2, <1>3, <1>4 DEF Accounted, Handling
<1>5. CASE ~calling' /\ ~ended'
  <2>1. /\ actions[<<i, k, "succeeded">>] <= orders[<<i, k>>]
        /\ orders[<<i, k>>] + (IF calling THEN Attempts - exec.try + 1 ELSE 0)
             <= Attempts * actions[<<i, k, "pending">>]
        /\ actions[<<i, k, "succeeded">>] + actions[<<i, k, "failed">>]
             + (IF calling \/ ended THEN 1 ELSE 0) <= actions[<<i, k, "pending">>]
    BY DEF Accounted
  <2>2. Attempts * actions[<<i, k, "pending">>] \in Nat
    BY <1>1, <1>2, <1>3
  <2>3. /\ orders[<<i, k>>] <= Attempts * actions[<<i, k, "pending">>]
        /\ actions[<<i, k, "succeeded">>] + actions[<<i, k, "failed">>]
             <= actions[<<i, k, "pending">>]
    BY <1>1, <1>2, <1>3, <2>1, <2>2
  <2> QED
    BY <1>1, <1>2, <1>3, <1>5, <2>1, <2>3 DEF Accounted
<1> QED
  BY <1>4, <1>5 DEF Handling

\* A loop step keeps the account of the operation it is about.
LEMMA AccountExecuteStep ==
  ASSUME TypeOK, OperationOrder, Execute, at \in LoopStep,
         NEW i \in Incident, NEW k \in OpIndex, cur.inc = i, exec.op = k, Accounted(i, k)
  PROVE  Accounted(i, k)'
<1> DEFINE s == actions[<<i, k, "succeeded">>]
           f == actions[<<i, k, "failed">>]
           p == actions[<<i, k, "pending">>]
           o == orders[<<i, k>>]
<1>1. /\ s \in Nat /\ f \in Nat /\ p \in Nat /\ o \in Nat
      /\ Attempts \in Nat /\ exec.try \in 1..Attempts /\ s = 0
  <2>1. s \in Nat /\ f \in Nat /\ p \in Nat
    BY DEF TypeOK, StoreTypeOK, Outcome
  <2>2. o \in Nat
    BY DEF TypeOK, ActionTypeOK
  <2>3. Attempts \in Nat /\ exec.try \in 1..Attempts
    BY LoopOperation
  <2>4. k >= exec.op
    BY LoopOperation DEF OpIndex
  <2>5. s = 0
    BY <2>4 DEF OperationOrder
  <2> QED
    BY <2>1, <2>2, <2>3, <2>5
<1>2. Attempts * p \in Nat /\ Attempts * (p + 1) = Attempts * p + Attempts
  BY <1>1, OneMoreTry
<1>3. /\ at = "action_succeeded" => o > 0
      /\ o + (IF at = "action_call" THEN Attempts - exec.try + 1 ELSE 0) <= Attempts * p
      /\ s + f + (IF at \in {"action_call", "action_succeeded", "action_failed"} THEN 1 ELSE 0)
           <= p
  BY DEF Accounted, Handling
<1>4. at = "action_pending" => exec.try = 1
  BY DEF OperationOrder
<1>5. ASSUME NEW out \in Outcome, record_action_execution(i, k, out)
      PROVE  /\ actions'[<<i, k, out>>] = actions[<<i, k, out>>] + 1
             /\ \A q \in Outcome : q # out => actions'[<<i, k, q>>] = actions[<<i, k, q>>]
  BY <1>5 DEF record_action_execution, TypeOK, StoreTypeOK
<1>6. {"pending", "succeeded", "failed"} \subseteq Outcome
  BY DEF Outcome
<1>7. CASE action_pending
  <2>1. at = "action_pending" /\ at' = "action_call" /\ UNCHANGED <<cur, exec, orders>>
    BY <1>7 DEF action_pending, Goto, orderVars
  <2>2. record_action_execution(i, k, "pending")
    BY <1>7 DEF action_pending
  <2>3. p' = p + 1 /\ s' = s /\ f' = f
    BY <1>5, <1>6, <2>2
  <2> HIDE DEF s, f, p, o
  <2>4. /\ s' <= o' /\ o' + (Attempts - exec'.try + 1) <= Attempts * p'
        /\ s' + f' + 1 <= p'
    BY <1>1, <1>2, <1>3, <1>4, <2>1, <2>3 DEF o
  <2> USE DEF s, f, p, o
  <2> QED
    BY <2>1, <2>4 DEF Accounted, Handling
<1>8. CASE action_call
  <2>1. at = "action_call" /\ UNCHANGED <<cur, actions>>
    BY <1>8 DEF action_call, call_answered, call_answer_lost, call_not_received,
       call_rejected, retry_or_give_up, Goto, storeVars
  <2>2. create_order(i, k) => o' = o + 1
    BY DEF create_order, TypeOK, ActionTypeOK
  <2>3. retry_or_give_up =>
          \/ /\ exec.try < Attempts /\ exec'.try = exec.try + 1 /\ exec'.op = k
             /\ at' = "action_call"
          \/ at' = "action_failed" /\ UNCHANGED exec
    BY <2>1 DEF retry_or_give_up, Goto, TypeOK, ActionTypeOK
  <2>4. \/ o' = o + 1 /\ at' = "action_succeeded" /\ UNCHANGED exec
        \/ /\ o' = o + 1 \/ o' = o
           /\ \/ /\ exec.try < Attempts /\ exec'.try = exec.try + 1 /\ exec'.op = k
                 /\ at' = "action_call"
              \/ at' = "action_failed" /\ UNCHANGED exec
    BY <1>8, <2>2, <2>3 DEF action_call, call_answered, call_answer_lost,
       call_not_received, call_rejected, Goto
  <2>5. s' = s /\ f' = f /\ p' = p
    BY <2>1
  <2> HIDE DEF s, f, p, o
  <2>6. /\ s' <= o' /\ s' + f' + 1 <= p'
        /\ at' = "action_succeeded" => o' > 0
        /\ o' + (IF at' = "action_call" THEN Attempts - exec'.try + 1 ELSE 0) <= Attempts * p'
    BY <1>1, <1>2, <1>3, <2>1, <2>4, <2>5
  <2>7. exec'.op = k /\ at' \in {"action_call", "action_succeeded", "action_failed"}
    BY <2>4
  <2> USE DEF s, f, p, o
  <2> QED
    BY <2>1, <2>6, <2>7 DEF Accounted, Handling
<1>9. CASE action_succeeded \/ action_failed
  <2>1. /\ at' \in {"action_pending", "action_finish"} /\ UNCHANGED <<cur, orders>>
        /\ \/ at = "action_succeeded" /\ record_action_execution(i, k, "succeeded")
           \/ at = "action_failed" /\ record_action_execution(i, k, "failed")
    BY <1>9 DEF action_succeeded, action_failed, next_operation, Goto, orderVars
  <2>2. \/ at = "action_succeeded" /\ s' = s + 1 /\ f' = f /\ p' = p
        \/ at = "action_failed" /\ s' = s /\ f' = f + 1 /\ p' = p
    BY <1>5, <1>6, <2>1
  <2>3. o' = o
    BY <2>1
  <2> HIDE DEF s, f, p, o
  <2>4. s' <= o' /\ o' <= Attempts * p' /\ s' + f' <= p' /\ s' \in Nat /\ f' \in Nat /\ o' \in Nat
    BY <1>1, <1>2, <1>3, <2>2, <2>3
  <2> USE DEF s, f, p, o
  <2> QED
    BY <2>1, <2>4 DEF Accounted, Handling
<1>10. CASE action_raises
  <2>1. at' = "idle" /\ UNCHANGED <<actions, orders>>
    BY <1>10 DEF action_raises, HandlerEnds, storeVars, orderVars
  <2> QED
    BY <2>1, AccountUntouched
<1> QED
  BY <1>7, <1>8, <1>9, <1>10 DEF Execute, ExecutionStep, action_read, action_kinds,
     action_reconcile, action_finish, LoopStep

\* Outside the handler's loop nothing is in progress, before or after.
LEMMA AccountElsewhereStep ==
  ASSUME TypeOK, OperationOrder, [Next]_vars, ~(Execute /\ at \in LoopStep),
         NEW i \in Incident, NEW k \in OpIndex, Accounted(i, k)
  PROVE  Accounted(i, k)'
<1>1. UNCHANGED actions
  BY ActionWrite
<1>2. UNCHANGED orders
  <2>1. ~(Execute /\ action_call)
    BY DEF action_call, LoopStep
  <2> QED
    BY <2>1, OrderWrite
<1>3. \/ at' \notin {"action_call", "action_succeeded", "action_failed"}
      \/ UNCHANGED <<at, cur, exec>>
  <2>1. CASE Execute
    BY <2>1 DEF Execute, ExecutionStep, action_read, action_kinds, action_reconcile,
       action_pending, action_call, action_succeeded, action_failed, action_finish,
       action_raises, Goto, HandlerEnds, LoopStep
  <2>2. CASE Dispatch
    <3>1. Head(queue) \in Message
      BY <2>2 DEF Dispatch, dispatch, TypeOK, BusTypeOK
    <3>2. Head(queue).topic \in Topic
      BY <3>1 DEF Message
    <3> QED
      BY <2>2, <3>2 DEF Dispatch, dispatch, first_step, Topic
  <2>3. CASE Diagnose
    BY <2>3 DEF Diagnose, DiagnosisStep, knowledge_save, knowledge_publish,
       knowledge_raises, root_cause_read, root_cause_save, root_cause_publish,
       root_cause_raises, Goto, HandlerEnds
  <2>4. CASE Orchestrate
    BY <2>4 DEF Orchestrate, OrchestrationStep, risk_assess, risk_publish,
       recommendation_read, recommendation_save, recommendation_publish,
       trigger_recommendation_publish, gate_read, gate_write, orchestrator_raises,
       Goto, HandlerEnds
  <2>5. CASE Crash
    BY <2>5 DEF Crash, HandlerEnds
  <2>6. CASE Detect \/ Decide \/ Follow \/ UNCHANGED vars
    BY <2>6 DEF Detect, upsert_incident, DetectionStep, publish_event, dead_letter,
       Decide, decision_check, resolve_check, RequestStep, decision_record,
       decision_publish, decision_publish_fails, resolve_write, request_raises, Follow,
       poll_find, resolve_work_order, PollStep,
       poll_get, poll_get_fails, continue_with, poll_view, poll_audit, poll_close,
       poll_raises, busVars, vars
  <2> QED
    BY <2>1, <2>2, <2>3, <2>4, <2>5, <2>6 DEF Next
<1> QED
  BY <1>1, <1>2, <1>3, AccountUntouched

\* Every step preserves the execution invariant.
LEMMA ExecutionStepKeeps ==
  ASSUME TypeOK, ExecutionInv, [Next]_vars
  PROVE  ExecutionInv'
<1>1. OperationOrder'
  BY OperationOrderStep DEF ExecutionInv
<1>2. ASSUME NEW i \in Incident, NEW k \in OpIndex
      PROVE  Accounted(i, k)'
  <2>1. Accounted(i, k) /\ OperationOrder
    BY DEF ExecutionInv
  <2>2. CASE Execute /\ at \in LoopStep /\ cur.inc = i /\ exec.op = k
    BY <2>1, <2>2, AccountExecuteStep
  <2>3. CASE Execute /\ at \in LoopStep /\ ~(cur.inc = i /\ exec.op = k)
    <3>1. cur.inc \in Incident /\ exec.op \in OpIndex
      BY <2>1, <2>3, LoopOperation
    <3>2. \A o \in Outcome : actions'[<<i, k, o>>] = actions[<<i, k, o>>]
      <4>1. CASE UNCHANGED actions
        BY <4>1
      <4>2. ASSUME NEW out \in Outcome, record_action_execution(cur.inc, exec.op, out)
            PROVE  \A o \in Outcome : actions'[<<i, k, o>>] = actions[<<i, k, o>>]
        BY <2>3, <3>1, <4>2 DEF record_action_execution, TypeOK, StoreTypeOK
      <4> QED
        BY <4>1, <4>2, ActionWrite
    <3>3. orders'[<<i, k>>] = orders[<<i, k>>]
      BY <2>3, <3>1, OrderWrite DEF create_order, TypeOK, ActionTypeOK
    <3>4. \/ at' \notin {"action_call", "action_succeeded", "action_failed"}
          \/ ~(cur'.inc = i /\ exec'.op = k)
      <4>1. \/ UNCHANGED cur /\ exec'.op = exec.op
            \/ at' \notin {"action_call", "action_succeeded", "action_failed"}
        BY <2>3 DEF Execute, ExecutionStep, action_read, action_kinds, action_reconcile,
           action_pending, action_call, call_answered, call_answer_lost,
           call_not_received, call_rejected, retry_or_give_up, action_succeeded,
           action_failed, next_operation, action_finish, action_raises, Goto,
           HandlerEnds, LoopStep, TypeOK, ActionTypeOK
      <4> QED
        BY <2>3, <4>1
    <3> QED
      BY <2>1, <3>2, <3>3, <3>4, AccountUntouched
  <2>4. CASE ~(Execute /\ at \in LoopStep)
    BY <2>1, <2>4, AccountElsewhereStep
  <2> QED
    BY <2>2, <2>3, <2>4
<1> QED
  BY <1>1, <1>2 DEF ExecutionInv

\* Nothing is recorded or ordered at the start.
LEMMA ExecutionInit == Init => ExecutionInv
<1> SUFFICES ASSUME Init
             PROVE  ExecutionInv
  OBVIOUS
<1>1. OperationOrder
  BY DEF Init, BusInit, ActionInit, OperationOrder, LoopStep
<1>2. ASSUME NEW i \in Incident, NEW k \in OpIndex
      PROVE  Accounted(i, k)
  <2>1. orders[<<i, k>>] = 0
    BY DEF Init, ActionInit
  <2>2. \A o \in Outcome : actions[<<i, k, o>>] = 0
    BY DEF Init, StoreInit
  <2>3. at = "idle" /\ Attempts * 0 = 0
    BY AttemptsAssumption DEF Init, BusInit
  <2> QED
    BY <2>1, <2>2, <2>3 DEF Accounted, Handling, Outcome
<1> QED
  BY <1>1, <1>2 DEF ExecutionInv

-----------------------------------------------------------------------------
(* The learning loop *)

\* Only close_incident_loop writes the learning loop's audit rows.
LEMMA LoopClosedWrite ==
  ASSUME [Next]_vars
  PROVE  UNCHANGED loopClosed \/ (Follow /\ poll_close)
BY DEF Next, Dispatch, Diagnose, DiagnosisStep, knowledge_save, save_incident_evidence,
   knowledge_publish, knowledge_raises, root_cause_read, root_cause_save, save_root_cause,
   root_cause_publish, root_cause_raises, Orchestrate, OrchestrationStep,
   risk_assess, save_risk_assessment, risk_publish, recommendation_read,
   recommendation_save, save_recommendation, recommendation_publish,
   trigger_recommendation_publish, gate_read, gate_write, transition_incident,
   orchestrator_raises, Execute, ExecutionStep, action_read, action_kinds,
   action_reconcile, save_action_result, action_pending, record_action_execution,
   action_call, action_succeeded, action_failed, action_finish, action_raises, Detect,
   upsert_incident, DetectionStep, publish_event, dead_letter, Decide, decision_check,
   resolve_check, RequestStep, decision_record, record_approval, decision_publish,
   decision_publish_fails, resolve_write, resolve_incident_manually, request_raises,
   Follow, poll_find, resolve_work_order, PollStep,
   poll_get, poll_get_fails, continue_with, poll_view, poll_audit, poll_raises,
   Crash, vars, storeVars

\* What has been executed stays so.
LEMMA ExecutedOpsStay ==
  ASSUME TypeOK, ExecutionInv, [Next]_vars, NEW i \in Incident
  PROVE  executed_ops(i) \subseteq executed_ops(i)'
<1> SUFFICES ASSUME NEW k \in OpIndex, actions[<<i, k, "succeeded">>] > 0
             PROVE  actions'[<<i, k, "succeeded">>] > 0
  BY DEF executed_ops
<1>1. actions[<<i, k, "succeeded">>] \in Nat
  BY DEF TypeOK, StoreTypeOK, Outcome
<1>2. CASE UNCHANGED actions
  BY <1>2
<1>3. ASSUME NEW o \in Outcome, at \in LoopStep,
             record_action_execution(cur.inc, exec.op, o)
      PROVE  actions'[<<i, k, "succeeded">>] > 0
  <2>1. cur.inc \in Incident /\ exec.op \in OpIndex
    BY <1>3, LoopOperation DEF ExecutionInv
  <2>2. <<cur.inc, exec.op, o>> \in Incident \X OpIndex \X Outcome
    BY <2>1
  <2>3. \/ actions'[<<i, k, "succeeded">>] = actions[<<i, k, "succeeded">>]
        \/ actions'[<<i, k, "succeeded">>] = actions[<<i, k, "succeeded">>] + 1
    BY <1>3, <2>2 DEF record_action_execution, TypeOK, StoreTypeOK, Outcome
  <2> QED
    BY <1>1, <2>3
<1> QED
  BY <1>2, <1>3, ActionWrite

\* What has been resolved stays so: a row keeps the order it refers to.
LEMMA ResolvedOrdersStay ==
  ASSUME TypeOK, ExecutionInv, [Next]_vars, NEW i \in Incident, resolved_orders(i) # {}
  PROVE  resolved_orders(i)' # {}
<1>1. PICK k \in OpIndex : k \in executed_ops(i) /\ is_resolved(i, k)
  BY DEF resolved_orders, executed_ops
<1>2. done \subseteq done'
  BY DEF Next, Dispatch, Diagnose, Orchestrate, Execute, ExecutionStep, action_read,
     action_kinds, action_reconcile, action_pending, action_call, action_succeeded,
     action_failed, action_finish, action_raises, Detect, Decide, Follow, poll_find,
     resolve_work_order, PollStep, poll_get, poll_get_fails, poll_view, poll_audit,
     poll_close, poll_raises, Crash, vars, orderVars
<1>3. reference'[<<i, k>>] = reference[<<i, k>>]
  <2>1. CASE UNCHANGED reference
    BY <2>1
  <2>2. CASE Execute /\ action_succeeded
    <3>1. \A m \in OpIndex : m >= exec.op => actions[<<cur.inc, m, "succeeded">>] = 0
      BY <2>2 DEF ExecutionInv, OperationOrder, LoopStep, action_succeeded
    <3>2. <<cur.inc, exec.op>> # <<i, k>>
      BY <1>1, <3>1 DEF executed_ops, OpIndex, TypeOK, ActionTypeOK
    <3> QED
      BY <2>2, <3>2 DEF action_succeeded, TypeOK, ActionTypeOK
  <2> QED
    BY <2>1, <2>2 DEF Next, Dispatch, Diagnose, Orchestrate, Execute, ExecutionStep,
       action_read, action_kinds, action_reconcile, action_pending, action_call,
       action_failed, action_finish, action_raises, Detect, Decide, Follow, poll_find,
       resolve_work_order, PollStep, poll_get, poll_get_fails, poll_view, poll_audit,
       poll_close, poll_raises, Crash, vars, orderVars
<1>4. k \in executed_ops(i)'
  BY <1>1, ExecutedOpsStay
<1> QED
  BY <1>1, <1>2, <1>3, <1>4 DEF resolved_orders, is_resolved

\* The ways a step changes the resolution poll.
LEMMA PollWrite ==
  ASSUME [Next]_vars
  PROVE  \/ UNCHANGED poll
         \/ poll' = NoPoll
         \/ Follow /\ \E i \in Incident : poll_find(i)
         \/ Follow /\ (poll_get \/ poll_get_fails \/ poll_view \/ poll_audit)
BY DEF Next, Dispatch, Diagnose, Orchestrate, Execute, ExecutionStep, action_read,
   action_kinds, action_reconcile, action_pending, action_call, action_succeeded,
   action_failed, action_finish, action_raises, Detect, Decide, Follow,
   resolve_work_order, PollStep, poll_close, poll_raises, Crash, vars

\* Where a poll that is still under way was before, and what it has learned.
LEMMA PollMoves ==
  ASSUME TypeOK, [Next]_vars, poll'.step # "idle"
  PROVE  \/ UNCHANGED poll
         \/ \E i \in Incident :
              poll' = [step |-> "get", inc |-> i, todo |-> work_orders(i)]
         \/ /\ poll.step # "idle" /\ poll.inc \in Incident
            /\ poll'.inc = poll.inc /\ poll'.todo \subseteq poll.todo
            /\ \/ poll'.step = "get"
               \/ poll'.step = "view" /\ \E k \in poll.todo : is_resolved(poll.inc, k)
               \/ poll'.step = "audit" /\ poll.step = "view"
               \/ /\ poll'.step = "close" /\ poll.step = "audit"
                  /\ ~already_closed(poll.inc) /\ UNCHANGED loopClosed
<1> USE DEF NoPoll
<1>1. poll \in Poll
  BY DEF TypeOK, ActionTypeOK
<1>2. poll.step # "idle" =>
        poll \in [step : {"get", "view", "audit", "close"}, inc : Incident,
                  todo : SUBSET OpIndex]
  BY <1>1 DEF Poll
<1>3. ASSUME NEW i \in Incident, poll_find(i)
      PROVE  poll' = [step |-> "get", inc |-> i, todo |-> work_orders(i)]
  BY <1>3 DEF poll_find
<1>4. CASE poll_get \/ poll_get_fails
  <2>1. PICK k \in OpIndex :
          /\ is_next(k)
          /\ \/ continue_with(poll.todo \ {k})
             \/ /\ is_resolved(poll.inc, k)
                /\ poll' = [poll EXCEPT !.step = "view", !.todo = poll.todo \ {k}]
    BY <1>4 DEF poll_get, poll_get_fails
  <2>2. PICK rest : rest = poll.todo \ {k}
    OBVIOUS
  <2>3. rest \subseteq poll.todo /\ k \in poll.todo /\ poll.step = "get"
    BY <2>1, <2>2 DEF is_next
  <2>4. CASE continue_with(rest)
    BY <1>2, <2>3, <2>4 DEF continue_with
  <2>5. CASE is_resolved(poll.inc, k)
             /\ poll' = [poll EXCEPT !.step = "view", !.todo = rest]
    BY <1>2, <2>3, <2>5
  <2> QED
    BY <2>1, <2>2, <2>4, <2>5
<1>5. CASE poll_view
  <2>1. PICK rest : rest = poll.todo
    OBVIOUS
  <2>2. CASE continue_with(rest)
    BY <1>2, <1>5, <2>1, <2>2 DEF poll_view, continue_with
  <2>3. CASE poll' = [poll EXCEPT !.step = "audit", !.todo = {}]
    BY <1>2, <1>5, <2>3 DEF poll_view
  <2> QED
    BY <1>5, <2>1, <2>2, <2>3 DEF poll_view
<1>6. CASE poll_audit
  BY <1>2, <1>6 DEF poll_audit, storeVars
<1> QED
  BY <1>3, <1>4, <1>5, <1>6, PollWrite

\* Every step preserves the poll's invariant.
LEMMA PollKeeps ==
  ASSUME TypeOK, ExecutionInv, PollInv, [Next]_vars
  PROVE  PollInv'
<1>1. /\ (poll.step # "idle" => poll.todo \subseteq executed_ops(poll.inc))'
      /\ (poll.step \in {"view", "audit", "close"} => resolved_orders(poll.inc) # {})'
  <2> SUFFICES ASSUME poll'.step # "idle"
               PROVE  \E i \in Incident :
                        /\ poll'.inc = i
                        /\ poll'.todo \subseteq executed_ops(i)'
                        /\ poll'.step \in {"view", "audit", "close"}
                             => resolved_orders(i)' # {}
    BY DEF resolved_orders, is_resolved, executed_ops
  <2>1. ASSUME poll.step # "idle", poll'.inc = poll.inc, poll'.todo \subseteq poll.todo,
               poll'.step \in {"view", "audit", "close"} =>
                 \/ poll.step \in {"view", "audit", "close"}
                 \/ \E k \in poll.todo : is_resolved(poll.inc, k)
        PROVE  \E i \in Incident :
                 /\ poll'.inc = i
                 /\ poll'.todo \subseteq executed_ops(i)'
                 /\ poll'.step \in {"view", "audit", "close"} => resolved_orders(i)' # {}
    <3>1. poll.inc \in Incident
      BY <2>1 DEF TypeOK, ActionTypeOK, Poll, NoPoll
    <3>2. PICK i \in Incident : i = poll.inc
      BY <3>1
    <3>3. poll.todo \subseteq executed_ops(i)
      BY <2>1, <3>2 DEF PollInv, executed_ops
    <3>4. poll'.step \in {"view", "audit", "close"} => resolved_orders(i) # {}
      BY <2>1, <3>2, <3>3 DEF PollInv, resolved_orders, is_resolved, executed_ops
    <3> QED
      BY <2>1, <3>2, <3>3, <3>4, ExecutedOpsStay, ResolvedOrdersStay
  <2>2. ASSUME NEW i \in Incident,
               poll' = [step |-> "get", inc |-> i, todo |-> work_orders(i)]
        PROVE  /\ poll'.inc = i /\ poll'.step = "get"
               /\ poll'.todo \subseteq executed_ops(i)'
    BY <2>2, ExecutedOpsStay DEF work_orders
  <2>3. CASE UNCHANGED poll
    BY <2>1, <2>3
  <2> QED
    BY <2>1, <2>2, <2>3, PollMoves
<1>2. ASSUME poll'.step = "close"
      PROVE  loopClosed'[poll'.inc] = 0
  <2>1. CASE poll'.inc = poll.inc /\ poll.inc \in Incident /\ ~already_closed(poll.inc)
             /\ UNCHANGED loopClosed
    <3>1. loopClosed[poll.inc] \in Nat
      BY <2>1 DEF TypeOK, StoreTypeOK
    <3> QED
      BY <2>1, <3>1 DEF already_closed
  <2>2. CASE UNCHANGED poll
    <3>1. loopClosed[poll.inc] = 0
      BY <1>2, <2>2 DEF PollInv
    <3>2. UNCHANGED loopClosed
      BY <1>2, <2>2, LoopClosedWrite DEF poll_close, NoPoll
    <3> QED
      BY <2>2, <3>1, <3>2
  <2> QED
    BY <1>2, <2>1, <2>2, PollMoves
<1>3. ASSUME NEW i \in Incident
      PROVE  /\ loopClosed'[i] <= 1
             /\ loopClosed'[i] = 1 => resolved_orders(i)' # {}
  <2>1. /\ loopClosed[i] <= 1
        /\ loopClosed[i] = 1 => resolved_orders(i) # {}
    BY DEF PollInv
  <2>2. CASE UNCHANGED loopClosed
    BY <2>1, <2>2, ResolvedOrdersStay
  <2>3. CASE poll_close
    <3>1. /\ poll.step = "close" /\ loopClosed' = [loopClosed EXCEPT ![poll.inc] = @ + 1]
      BY <2>3 DEF poll_close, close_incident_loop
    <3>2. CASE poll.inc = i
      <4>1. loopClosed[i] = 0
        BY <3>1, <3>2 DEF PollInv
      <4>2. resolved_orders(i) # {}
        BY <3>1, <3>2 DEF PollInv, resolved_orders, executed_ops
      <4>3. loopClosed'[i] = 1
        BY <3>1, <3>2, <4>1 DEF TypeOK, StoreTypeOK
      <4> QED
        BY <4>2, <4>3, ResolvedOrdersStay
    <3>3. CASE poll.inc # i
      <4>1. loopClosed'[i] = loopClosed[i]
        BY <3>1, <3>3 DEF TypeOK, StoreTypeOK
      <4> QED
        BY <2>1, <4>1, ResolvedOrdersStay
    <3> QED
      BY <3>2, <3>3
  <2> QED
    BY <2>2, <2>3, LoopClosedWrite
<1> QED
  BY <1>1, <1>2, <1>3 DEF PollInv

\* The poll starts idle and nothing is closed.
LEMMA PollStart == Init => PollInv
BY DEF Init, StoreInit, ActionInit, PollInv, NoPoll

-----------------------------------------------------------------------------
(* Theorems *)

\* The executions' bookkeeping is invariant: every CMMS write is covered by
\* rows written before it, with what the call in progress may still add
\* (agents/action/agent.py handle and _execute_with_retry).
THEOREM ExecutionInvariant == Spec => []ExecutionInv
<1>1. TypeOK /\ ExecutionInv /\ [Next]_vars => ExecutionInv'
  BY ExecutionStepKeeps
<1> QED
  BY ExecutionInit, <1>1, TypeCorrect, PTL DEF Spec

\* The IncidentActions table never claims an order the CMMS did not get, and
\* covers every order the CMMS got, through lost answers, failed database
\* writes and crashes (agents/action/agent.py _execute_with_retry).
THEOREM RecordIsTruthful == Spec => []TruthfulExecutionRecord
<1>1. TypeOK /\ ExecutionInv => TruthfulExecutionRecord
  <2> SUFFICES ASSUME TypeOK, ExecutionInv, NEW i \in Incident, NEW k \in OpIndex
               PROVE  /\ actions[<<i, k, "succeeded">>] <= orders[<<i, k>>]
                      /\ orders[<<i, k>>] <= Attempts * actions[<<i, k, "pending">>]
                      /\ actions[<<i, k, "succeeded">>] + actions[<<i, k, "failed">>]
                           <= actions[<<i, k, "pending">>]
    BY DEF TruthfulExecutionRecord
  <2>1. Accounted(i, k)
    BY DEF ExecutionInv
  <2>2. \A o \in Outcome : actions[<<i, k, o>>] \in Nat
    BY DEF TypeOK, StoreTypeOK
  <2>3. /\ orders[<<i, k>>] \in Nat /\ exec.try \in 1..Attempts /\ Attempts \in Nat
        /\ actions[<<i, k, "succeeded">>] \in Nat /\ actions[<<i, k, "failed">>] \in Nat
        /\ actions[<<i, k, "pending">>] \in Nat
    BY <2>2, AttemptsAssumption DEF TypeOK, ActionTypeOK, Outcome
  <2>4. Attempts * actions[<<i, k, "pending">>] \in Nat
    BY <2>3
  <2> QED
    BY <2>1, <2>3, <2>4 DEF Accounted
<1> QED
  BY <1>1, TypeCorrect, ExecutionInvariant, PTL

\* No operation is sent again once its success is recorded, however often the
\* incident is approved (agents/action/agent.py handle, the executed kinds).
THEOREM NoRepeatAfterSuccess == Spec => NoWriteAfterRecordedSuccess
<1> DEFINE NoRepeat ==
      \A i \in Incident, k \in OpIndex :
        orders'[<<i, k>>] # orders[<<i, k>>] => actions[<<i, k, "succeeded">>] = 0
<1>1. TypeOK /\ ExecutionInv /\ [Next]_vars => NoRepeat
  <2> SUFFICES ASSUME TypeOK, ExecutionInv, [Next]_vars, NEW i \in Incident, NEW k \in OpIndex,
                      orders'[<<i, k>>] # orders[<<i, k>>]
               PROVE  actions[<<i, k, "succeeded">>] = 0
    OBVIOUS
  <2>1. at = "action_call" /\ create_order(cur.inc, exec.op)
    BY OrderWrite DEF action_call
  <2>2. cur.inc \in Incident /\ exec.op \in OpIndex
    BY <2>1, LoopOperation DEF LoopStep, ExecutionInv
  <2>3. cur.inc = i /\ exec.op = k
    BY <2>1, <2>2 DEF create_order, TypeOK, ActionTypeOK
  <2>4. k >= exec.op
    BY <2>3 DEF OpIndex
  <2> QED
    BY <2>1, <2>3, <2>4 DEF ExecutionInv, OperationOrder, LoopStep
<1> QED
  BY <1>1, TypeCorrect, ExecutionInvariant, PTL DEF Spec, NoWriteAfterRecordedSuccess

\* The resolution poll closes only what has a resolved order and is not closed
\* (agents/action/agent.py _check_resolutions, core/db.py close_incident_loop).
THEOREM PollInvariant == Spec => []PollInv
<1>1. TypeOK /\ ExecutionInv /\ PollInv /\ [Next]_vars => PollInv'
  BY PollKeeps
<1> QED
  BY PollStart, <1>1, TypeCorrect, ExecutionInvariant, PTL DEF Spec

\* An incident is learned from at most once, on a work order that a human
\* approved, that was executed and that a technician resolved (core/db.py
\* close_incident_loop, whose audit count is read outside its transaction).
THEOREM ClosesOnce == Spec => []LoopClosesOnce
<1>1. TypeOK /\ GateInv /\ ExecutionInv /\ PollInv => LoopClosesOnce
  <2> SUFFICES ASSUME TypeOK, GateInv, ExecutionInv, PollInv, NEW i \in Incident,
                      loopClosed[i] = 1
               PROVE  Approved(i) /\ resolved_orders(i) # {}
    BY DEF LoopClosesOnce, PollInv
  <2>1. resolved_orders(i) # {}
    BY DEF PollInv
  <2>2. PICK k \in OpIndex : actions[<<i, k, "succeeded">>] > 0
    BY <2>1 DEF resolved_orders, executed_ops
  <2>3. actions[<<i, k, "succeeded">>] \in Nat /\ orders[<<i, k>>] \in Nat
    BY DEF TypeOK, StoreTypeOK, ActionTypeOK, Outcome
  <2>4. actions[<<i, k, "succeeded">>] <= orders[<<i, k>>]
    BY DEF ExecutionInv, Accounted
  <2>5. orders[<<i, k>>] > 0
    BY <2>2, <2>3, <2>4
  <2> QED
    BY <2>1, <2>5 DEF GateInv, ApprovalFirst
<1> QED
  BY <1>1, TypeCorrect, GateInvariant, ExecutionInvariant, PollInvariant, PTL
=============================================================================
