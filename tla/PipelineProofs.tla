---------------------------- MODULE PipelineProofs ----------------------------
(***************************************************************************)
(* Type correctness of ProcessGuard, and the pipeline from an anomaly to a *)
(* recommendation: an incident has one token, so its columns are written   *)
(* once and in order, whatever is duplicated, lost or restarted.           *)
(*                                                                         *)
(* TypeOK is inductive as it stands: besides the types it ties the locals  *)
(* of a handler to the await it is suspended at.                           *)
(***************************************************************************)
EXTENDS Invariants, TLAPS

-----------------------------------------------------------------------------
\* A counter of a table of counters goes up.
LEMMA IncrementType ==
  ASSUME NEW S, NEW f \in [S -> Nat], NEW x
  PROVE  [f EXCEPT ![x] = f[x] + 1] \in [S -> Nat]
<1>1. CASE x \in S
  <2>1. f[x] + 1 \in Nat
    BY <1>1
  <2> QED
    BY <2>1
<1>2. CASE x \notin S
  BY <1>2
<1> QED
  BY <1>1, <1>2

(* The transactions of core/db.py keep the tables well-typed. *)

\* Each transaction of core/db.py keeps the tables' types: the status ...
LEMMA TransitionType ==
  ASSUME StoreTypeOK, NEW i, NEW to \in Status, transition_incident(i, to)
  PROVE  StoreTypeOK'
BY DEF StoreTypeOK, transition_incident

\* ... the evidence ...
LEMMA EvidenceType ==
  ASSUME StoreTypeOK, NEW i, save_incident_evidence(i)
  PROVE  StoreTypeOK'
BY DEF StoreTypeOK, save_incident_evidence

\* ... the diagnosis ...
LEMMA RootCauseType ==
  ASSUME StoreTypeOK, NEW i, NEW h \in Diagnosis, NEW to \in Status,
         save_root_cause(i, h, to)
  PROVE  StoreTypeOK'
BY DEF StoreTypeOK, save_root_cause

\* ... the level ...
LEMMA RiskType ==
  ASSUME StoreTypeOK, NEW i, NEW l \in 1..3, save_risk_assessment(i, l)
  PROVE  StoreTypeOK'
<1>1. level' \in [Incident -> Level]
  <2>1. l \in Level
    BY DEF Level
  <2> QED
    BY <2>1 DEF StoreTypeOK, save_risk_assessment
<1> QED
  BY <1>1 DEF StoreTypeOK, save_risk_assessment, Status

\* ... the recommendation ...
LEMMA RecommendationType ==
  ASSUME StoreTypeOK, NEW i, NEW p \in Plans, NEW to \in Status,
         save_recommendation(i, p, to)
  PROVE  StoreTypeOK'
BY DEF StoreTypeOK, save_recommendation

\* ... the approvals ...
LEMMA ApprovalType ==
  ASSUME StoreTypeOK, NEW i \in Incident, NEW d \in Decision,
         NEW c \in Client, NEW l \in 1..3, record_approval(i, d, c, l)
  PROVE  StoreTypeOK'
BY DEF StoreTypeOK, record_approval, Approval, Decision, Status

\* ... the execution record ...
LEMMA ActionType ==
  ASSUME StoreTypeOK, NEW i, NEW k, NEW o, record_action_execution(i, k, o)
  PROVE  StoreTypeOK'
<1>1. actions' \in [Incident \X OpIndex \X Outcome -> Nat]
  BY IncrementType DEF StoreTypeOK, record_action_execution
<1> QED
  BY <1>1 DEF StoreTypeOK, record_action_execution

\* ... and the learning loop.
LEMMA CloseType ==
  ASSUME StoreTypeOK, NEW i, close_incident_loop(i)
  PROVE  StoreTypeOK'
<1>1. loopClosed' \in [Incident -> Nat]
  BY IncrementType DEF StoreTypeOK, close_incident_loop
<1> QED
  BY <1>1 DEF StoreTypeOK, close_incident_loop, Status

-----------------------------------------------------------------------------
(* The bus: publishing, taking a message, ending a handler. *)

\* A listener that is not idle dispatches a message.
LEMMA CurrentMessage ==
  ASSUME BusTypeOK, at # "idle"
  PROVE  cur \in Message /\ cur.topic \in Topic /\ cur.inc \in Incident
BY DEF BusTypeOK, Message

\* publish keeps the queue's type.
LEMMA PublishType ==
  ASSUME queue \in Seq(Message), NEW t \in Topic, NEW i \in Incident,
         publish(t, i)
  PROVE  queue' \in Seq(Message)
BY DEF publish, Message

\* No message looks like the absence of one.
LEMMA MessageIsSome == NoMessage \notin Message
BY DEF NoMessage, Message, Topic

\* Idle is no handler step, and every first step is one.
LEMMA ListenerSteps ==
  /\ "idle" \notin KnowledgeStep \cup RootCauseStep \cup OrchestratorStep \cup ActionStep
  /\ \A t \in Topic : first_step[t] \in
       (KnowledgeStep \cup RootCauseStep \cup OrchestratorStep \cup ActionStep)
         \ {"plan_save", "gate_write"}
BY DEF KnowledgeStep, RootCauseStep, OrchestratorStep, ActionStep, Topic, first_step

\* The listener's dispatch is type-correct.
LEMMA DispatchType ==
  ASSUME TypeOK, Dispatch
  PROVE  TypeOK'
<1>1. Head(queue) \in Message /\ Tail(queue) \in Seq(Message)
  BY DEF Dispatch, dispatch, TypeOK, BusTypeOK
<1>2. Head(queue).topic \in Topic
  BY <1>1 DEF Message
<1>3. BusTypeOK'
  BY <1>1, <1>2, ListenerSteps, MessageIsSome DEF Dispatch, dispatch, BusTypeOK
<1>4. OrchestratorTypeOK'
  BY <1>2, ListenerSteps DEF Dispatch, dispatch, TypeOK, OrchestratorTypeOK
<1> QED
  BY <1>3, <1>4 DEF Dispatch, TypeOK, StoreTypeOK, storeVars, DetectionTypeOK,
     detectionVars, DecisionsTypeOK, ActionTypeOK, orderVars

-----------------------------------------------------------------------------
(* Detection, Knowledge and Root-Cause Agents. *)

\* The Detection Agent's steps are type-correct.
LEMMA DetectType ==
  ASSUME TypeOK, Detect
  PROVE  TypeOK'
<1> USE DEF TypeOK, Detect
<1>1. ASSUME NEW e \in Equipment, upsert_incident(e)
      PROVE  TypeOK'
  <2>1. readings' \in 0..MaxReadings
    BY <1>1, ReadingsAssumption DEF upsert_incident, DetectionTypeOK
  <2>2. StoreTypeOK' /\ detected' \in Incident
    <3>1. ASSUME NEW i \in open_rows(e), detected' = i, UNCHANGED storeVars
          PROVE  StoreTypeOK' /\ detected' \in Incident
      BY <3>1 DEF open_rows, StoreTypeOK, storeVars
    <3>2. ASSUME NEW i \in fresh_rows(e), detected' = i, transition_incident(i, "open")
          PROVE  StoreTypeOK' /\ detected' \in Incident
      BY <3>2, TransitionType DEF fresh_rows, Status
    <3> QED
      BY <1>1, <3>1, <3>2 DEF upsert_incident
  <2> QED
    BY <1>1, <2>1, <2>2 DEF upsert_incident, DetectionTypeOK, busVars, BusTypeOK,
       OrchestratorTypeOK, DecisionsTypeOK, ActionTypeOK, orderVars
<1>2. CASE publish_event
  <2>1. queue' \in Seq(Message)
    BY <1>2, PublishType DEF publish_event, DetectionTypeOK, BusTypeOK, Topic
  <2> QED
    BY <1>2, <2>1 DEF publish_event, DetectionTypeOK, StoreTypeOK, storeVars, BusTypeOK,
       OrchestratorTypeOK, DecisionsTypeOK, ActionTypeOK, orderVars
<1>3. CASE dead_letter
  BY <1>3 DEF dead_letter, DetectionTypeOK, StoreTypeOK, storeVars, busVars, BusTypeOK,
     OrchestratorTypeOK, DecisionsTypeOK, ActionTypeOK, orderVars
<1> QED
  BY <1>1, <1>2, <1>3 DEF DetectionStep

\* The Knowledge and Root-Cause handlers are type-correct.
LEMMA DiagnoseType ==
  ASSUME TypeOK, Diagnose
  PROVE  TypeOK'
<1> USE DEF TypeOK, Diagnose
<1>1. DetectionTypeOK' /\ DecisionsTypeOK' /\ ActionTypeOK'
  BY DEF DiagnosisStep, knowledge_save, knowledge_publish, knowledge_raises,
     root_cause_read, root_cause_save, root_cause_publish, root_cause_raises,
     DetectionTypeOK, detectionVars, DecisionsTypeOK, ActionTypeOK, orderVars
<1>2. StoreTypeOK' /\ BusTypeOK' /\ OrchestratorTypeOK'
  <2> USE DEF OrchestratorTypeOK, KnowledgeStep, RootCauseStep
  <2>1. CASE knowledge_save
    BY <2>1, EvidenceType DEF knowledge_save, Goto, BusTypeOK
  <2>2. CASE knowledge_publish
    <3>1. queue' \in Seq(Message)
      BY <2>2, CurrentMessage, PublishType DEF knowledge_publish, BusTypeOK, Topic
    <3> QED
      BY <2>2, <3>1 DEF knowledge_publish, Goto, BusTypeOK, StoreTypeOK, storeVars
  <2>3. CASE knowledge_raises
    BY <2>3 DEF knowledge_raises, Goto, BusTypeOK, StoreTypeOK, storeVars
  <2>4. CASE root_cause_read
    BY <2>4 DEF root_cause_read, Goto, HandlerEnds, BusTypeOK, StoreTypeOK, storeVars
  <2>5. CASE root_cause_save
    <3>1. PICK outcome \in Diagnosis \ {"none"} :
            /\ save_root_cause(cur.inc, outcome, status_for(outcome))
            /\ HandlerEnds \/ Goto("diagnose_publish")
      BY <2>5 DEF root_cause_save
    <3>2. status_for(outcome) \in Status
      BY DEF status_for, Status
    <3> QED
      BY <2>5, <3>1, <3>2, RootCauseType
      DEF root_cause_save, Goto, HandlerEnds, BusTypeOK
  <2>6. CASE root_cause_publish
    <3>1. queue' \in Seq(Message)
      BY <2>6, CurrentMessage, PublishType DEF root_cause_publish, BusTypeOK, Topic
    <3> QED
      BY <2>6, <3>1 DEF root_cause_publish, HandlerEnds, BusTypeOK, StoreTypeOK, storeVars
  <2>7. CASE root_cause_raises
    BY <2>7 DEF root_cause_raises, HandlerEnds, BusTypeOK, StoreTypeOK, storeVars
  <2> QED
    BY <2>1, <2>2, <2>3, <2>4, <2>5, <2>6, <2>7 DEF DiagnosisStep
<1> QED
  BY <1>1, <1>2

-----------------------------------------------------------------------------
(* Orchestrator, Risk and Recommendation Agents. *)

\* A recommendation lands in one of two statuses.
LEMMA LandingType == \A l : landing_status(l) \in {"auto_informed", "awaiting_approval"}
BY DEF landing_status

\* The orchestrated stages are type-correct.
LEMMA OrchestrateType ==
  ASSUME TypeOK, Orchestrate
  PROVE  TypeOK'
<1> USE DEF TypeOK, Orchestrate
<1>1. DetectionTypeOK' /\ DecisionsTypeOK' /\ ActionTypeOK'
  BY DEF DetectionTypeOK, detectionVars, DecisionsTypeOK, ActionTypeOK, orderVars
<1>2. StoreTypeOK' /\ BusTypeOK' /\ OrchestratorTypeOK'
  <2> USE DEF OrchestratorTypeOK, OrchestratorStep
  <2>1. CASE risk_assess
    <3>1. PICK l \in 1..3 : save_risk_assessment(cur.inc, l)
      BY <2>1 DEF risk_assess, hitl_levels
    <3> QED
      BY <2>1, <3>1, RiskType DEF risk_assess, Goto, BusTypeOK
  <2>2. CASE risk_publish
    <3>1. queue' \in Seq(Message)
      BY <2>2, CurrentMessage, PublishType DEF risk_publish, BusTypeOK, Topic
    <3> QED
      BY <2>2, <3>1 DEF risk_publish, HandlerEnds, BusTypeOK, StoreTypeOK, storeVars
  <2>3. CASE recommendation_read
    BY <2>3, LandingType
    DEF recommendation_read, Goto, HandlerEnds, BusTypeOK, StoreTypeOK, storeVars
  <2>4. CASE recommendation_save
    <3>1. routed \in Status
      BY <2>4 DEF recommendation_save, Status
    <3> QED
      BY <2>4, <3>1, RecommendationType DEF recommendation_save, Goto, BusTypeOK
  <2>5. CASE recommendation_publish
    <3>1. queue' \in Seq(Message)
      BY <2>5, CurrentMessage, PublishType DEF recommendation_publish, BusTypeOK, Topic
    <3> QED
      BY <2>5, <3>1 DEF recommendation_publish, Goto, BusTypeOK, StoreTypeOK, storeVars
  <2>6. CASE trigger_recommendation_publish
    <3>1. queue' \in Seq(Message)
      BY <2>6, CurrentMessage, PublishType
      DEF trigger_recommendation_publish, BusTypeOK, Topic
    <3> QED
      BY <2>6, <3>1
      DEF trigger_recommendation_publish, HandlerEnds, BusTypeOK, StoreTypeOK, storeVars
  <2>7. CASE gate_read
    BY <2>7, LandingType
    DEF gate_read, Goto, HandlerEnds, BusTypeOK, StoreTypeOK, storeVars
  <2>8. CASE gate_write
    <3>1. routed \in Status
      BY <2>8 DEF gate_write, Status
    <3> QED
      BY <2>8, <3>1, TransitionType DEF gate_write, HandlerEnds, BusTypeOK
  <2>9. CASE orchestrator_raises
    BY <2>9 DEF orchestrator_raises, HandlerEnds, BusTypeOK, StoreTypeOK, storeVars
  <2> QED
    BY <2>1, <2>2, <2>3, <2>4, <2>5, <2>6, <2>7, <2>8, <2>9 DEF OrchestrationStep
<1> QED
  BY <1>1, <1>2

-----------------------------------------------------------------------------
(* The decision endpoints. *)

\* Ending a request is type-correct.
LEMMA RequestEndsType ==
  ASSUME DecisionsTypeOK, NEW c \in Client, RequestEnds(c)
  PROVE  DecisionsTypeOK'
BY DEF DecisionsTypeOK, RequestEnds, Request

\* What a request carries after its checks.
LEMMA RequestFields ==
  ASSUME DecisionsTypeOK, NEW c \in Client
  PROVE  /\ request[c].step # "idle" => request[c].inc \in Incident
         /\ request[c].step = "record" => /\ request[c].decision \in Decision
                                         /\ request[c].level \in 1..3
BY DEF DecisionsTypeOK, Request, NoRequest

\* The decision endpoints are type-correct.
LEMMA DecideType ==
  ASSUME TypeOK, Decide
  PROVE  TypeOK'
<1> USE DEF TypeOK, Decide
<1>1. DetectionTypeOK' /\ ActionTypeOK'
  BY DEF DetectionTypeOK, detectionVars, ActionTypeOK, orderVars
<1>2. PICK c \in Client :
        \/ \E i \in Incident : \/ \E d \in Decision : decision_check(c, i, d)
                               \/ resolve_check(c, i)
        \/ RequestStep(c)
  OBVIOUS
<1>3. StoreTypeOK' /\ BusTypeOK' /\ OrchestratorTypeOK' /\ DecisionsTypeOK'
  <2> USE DEF OrchestratorTypeOK
  <2>1. ASSUME NEW i \in Incident, NEW d \in Decision, decision_check(c, i, d)
        PROVE  StoreTypeOK' /\ BusTypeOK' /\ OrchestratorTypeOK' /\ DecisionsTypeOK'
    <3>1. effective_level(level[i]) \in 1..3
      BY DEF effective_level, StoreTypeOK, Level
    <3>2. DecisionsTypeOK'
      BY <2>1, <3>1 DEF decision_check, DecisionsTypeOK, Request
    <3> QED
      BY <2>1, <3>2 DEF decision_check, StoreTypeOK, storeVars, BusTypeOK, busVars
  <2>2. ASSUME NEW i \in Incident, resolve_check(c, i)
        PROVE  StoreTypeOK' /\ BusTypeOK' /\ OrchestratorTypeOK' /\ DecisionsTypeOK'
    <3>1. DecisionsTypeOK'
      BY <2>2 DEF resolve_check, DecisionsTypeOK, Request
    <3> QED
      BY <2>2, <3>1 DEF resolve_check, StoreTypeOK, storeVars, BusTypeOK, busVars
  <2>3. CASE decision_record(c)
    <3>1. StoreTypeOK'
      BY <2>3, ApprovalType, RequestFields DEF decision_record
    <3>2. CASE request[c].decision = "approved"
      <4>1. [request[c] EXCEPT !.step = "publish"] \in
              [step : {"publish"}, inc : Incident, decision : {"approved"}, level : 1..3]
        BY <2>3, <3>2 DEF decision_record, DecisionsTypeOK, Request, NoRequest
      <4>2. DecisionsTypeOK'
        BY <2>3, <3>2, <4>1 DEF decision_record, DecisionsTypeOK, Request
      <4> QED
        BY <2>3, <3>1, <4>2 DEF decision_record, BusTypeOK, busVars
    <3>3. CASE request[c].decision # "approved"
      BY <2>3, <3>1, <3>3, RequestEndsType DEF decision_record, BusTypeOK, busVars
    <3> QED
      BY <3>2, <3>3
  <2>4. CASE decision_publish(c)
    <3>1. queue' \in Seq(Message)
      BY <2>4, RequestFields, PublishType DEF decision_publish, BusTypeOK, Topic
    <3> QED
      BY <2>4, <3>1, RequestEndsType
      DEF decision_publish, StoreTypeOK, storeVars, BusTypeOK
  <2>5. CASE decision_publish_fails(c)
    BY <2>5, RequestEndsType
    DEF decision_publish_fails, StoreTypeOK, storeVars, BusTypeOK, busVars
  <2>6. CASE resolve_write(c)
    <3>1. StoreTypeOK'
      BY <2>6, TransitionType DEF resolve_write, resolve_incident_manually, Status
    <3> QED
      BY <2>6, <3>1, RequestEndsType DEF resolve_write, BusTypeOK, busVars
  <2>7. CASE request_raises(c)
    BY <2>7, RequestEndsType
    DEF request_raises, StoreTypeOK, storeVars, BusTypeOK, busVars
  <2> QED
    BY <1>2, <2>1, <2>2, <2>3, <2>4, <2>5, <2>6, <2>7 DEF RequestStep
<1> QED
  BY <1>1, <1>3

-----------------------------------------------------------------------------
(* The Action Agent, the CMMS and the resolution poll. *)

\* The handler's locals stay in their type as it moves on.
LEMMA ExecType ==
  /\ NoExec \in [op : Nat \ {0}, try : 1..Attempts, failed : BOOLEAN]
  /\ \A n \in Nat \ {0}, f \in BOOLEAN :
       [op |-> n + 1, try |-> 1, failed |-> f]
         \in [op : Nat \ {0}, try : 1..Attempts, failed : BOOLEAN]
BY AttemptsAssumption DEF NoExec

\* The Action Agent's handler is type-correct.
LEMMA ExecuteType ==
  ASSUME TypeOK, Execute
  PROVE  TypeOK'
<1> USE DEF TypeOK, Execute
<1>1. DetectionTypeOK' /\ DecisionsTypeOK'
  BY DEF DetectionTypeOK, detectionVars, DecisionsTypeOK
<1>2. StoreTypeOK' /\ BusTypeOK' /\ OrchestratorTypeOK' /\ ActionTypeOK'
  <2> USE DEF OrchestratorTypeOK, ActionStep
  <2>1. CASE action_read
    BY <2>1 DEF action_read, Goto, HandlerEnds, BusTypeOK, StoreTypeOK, storeVars,
       ActionTypeOK, orderVars
  <2>2. CASE action_kinds
    BY <2>2 DEF action_kinds, Goto, BusTypeOK, StoreTypeOK, storeVars,
       ActionTypeOK, orderVars
  <2>3. CASE action_reconcile
    <3>1. StoreTypeOK'
      BY <2>3, TransitionType DEF action_reconcile, save_action_result, Status
    <3> QED
      BY <2>3, <3>1 DEF action_reconcile, HandlerEnds, BusTypeOK, ActionTypeOK, orderVars
  <2>4. CASE action_pending
    BY <2>4, ActionType DEF action_pending, Goto, BusTypeOK, ActionTypeOK, orderVars
  <2>5. CASE action_call
    <3>1. orders' \in [Incident \X OpIndex -> Nat]
      <4>1. CASE create_order(cur.inc, exec.op)
        <5>1. orders \in [Incident \X OpIndex -> Nat]
          BY DEF ActionTypeOK
        <5>2. orders' = [orders EXCEPT ![<<cur.inc, exec.op>>]
                           = orders[<<cur.inc, exec.op>>] + 1]
          BY <4>1 DEF create_order
        <5> QED
          BY <5>1, <5>2, IncrementType
      <4>2. CASE UNCHANGED orders
        BY <4>2 DEF ActionTypeOK
      <4> QED
        BY <2>5, <4>1, <4>2 DEF action_call, call_answered, call_answer_lost,
           call_not_received, call_rejected
    <3>2. exec' \in [op : Nat \ {0}, try : 1..Attempts, failed : BOOLEAN]
      <4>1. CASE UNCHANGED exec
        BY <4>1 DEF ActionTypeOK
      <4>2. CASE exec.try < Attempts /\ exec' = [exec EXCEPT !.try = exec.try + 1]
        <5>1. exec.try + 1 \in 1..Attempts
          BY <4>2, AttemptsAssumption DEF ActionTypeOK
        <5> QED
          BY <4>2, <5>1 DEF ActionTypeOK
      <4> QED
        BY <2>5, <4>1, <4>2 DEF action_call, call_answered, call_answer_lost,
           call_not_received, call_rejected, retry_or_give_up
    <3>3. BusTypeOK' /\ OrchestratorTypeOK'
      BY <2>5 DEF action_call, call_answered, call_answer_lost, call_not_received,
         call_rejected, retry_or_give_up, Goto, BusTypeOK
    <3> QED
      BY <2>5, <3>1, <3>2, <3>3 DEF action_call, ActionTypeOK, StoreTypeOK, storeVars
  <2>6. CASE action_succeeded
    <3>1. StoreTypeOK'
      BY <2>6, ActionType DEF action_succeeded
    <3>2. exec' \in [op : Nat \ {0}, try : 1..Attempts, failed : BOOLEAN]
      BY <2>6, ExecType DEF action_succeeded, next_operation, ActionTypeOK
    <3>3. reference' \in [Incident \X OpIndex -> Nat]
      <4>1. reference' = [reference EXCEPT ![<<cur.inc, exec.op>>]
                                             = orders[<<cur.inc, exec.op>>]]
        BY <2>6 DEF action_succeeded
      <4>2. <<cur.inc, exec.op>> \in Incident \X OpIndex
              => orders[<<cur.inc, exec.op>>] \in Nat
        BY DEF ActionTypeOK
      <4> QED
        BY <4>1, <4>2 DEF ActionTypeOK
    <3> QED
      BY <2>6, <3>1, <3>2, <3>3
      DEF action_succeeded, next_operation, Goto, BusTypeOK, ActionTypeOK, orderVars
  <2>7. CASE action_failed
    <3>1. StoreTypeOK'
      BY <2>7, ActionType DEF action_failed
    <3>2. exec' \in [op : Nat \ {0}, try : 1..Attempts, failed : BOOLEAN]
      BY <2>7, ExecType DEF action_failed, next_operation, ActionTypeOK
    <3> QED
      BY <2>7, <3>1, <3>2
      DEF action_failed, next_operation, Goto, BusTypeOK, ActionTypeOK, orderVars
  <2>8. CASE action_finish
    <3>1. StoreTypeOK'
      BY <2>8, TransitionType DEF action_finish, save_action_result, Status
    <3> QED
      BY <2>8, <3>1, ExecType
      DEF action_finish, HandlerEnds, BusTypeOK, ActionTypeOK, orderVars
  <2>9. CASE action_raises
    BY <2>9, ExecType DEF action_raises, HandlerEnds, BusTypeOK, StoreTypeOK, storeVars,
       ActionTypeOK, orderVars
  <2> QED
    BY <2>1, <2>2, <2>3, <2>4, <2>5, <2>6, <2>7, <2>8, <2>9 DEF ExecutionStep
<1> QED
  BY <1>1, <1>2

\* A poll that is under way is a record of its kind.
PollUnderWay == [step : {"get", "view", "audit", "close"}, inc : Incident,
                 todo : SUBSET OpIndex]

\* Every step of the poll leaves it type-correct.
LEMMA PollStepType ==
  ASSUME poll \in Poll, PollStep
  PROVE  poll' \in Poll
<1>1. NoPoll \in Poll /\ PollUnderWay \subseteq Poll
  BY DEF Poll, PollUnderWay
<1>2. poll.step # "idle" => poll \in PollUnderWay
  BY DEF Poll, PollUnderWay, NoPoll
<1>3. ASSUME NEW r \in PollUnderWay, NEW rest \in SUBSET OpIndex,
             NEW step \in {"get", "view", "audit", "close"}
      PROVE  [r EXCEPT !.step = step, !.todo = rest] \in PollUnderWay
  BY <1>3 DEF PollUnderWay
<1>4. ASSUME poll \in PollUnderWay, NEW rest \in SUBSET OpIndex, continue_with(rest)
      PROVE  poll' \in Poll
  <2>1. \/ poll' = NoPoll
        \/ poll' = [poll EXCEPT !.step = "get", !.todo = rest]
    BY <1>4 DEF continue_with
  <2>2. [poll EXCEPT !.step = "get", !.todo = rest] \in PollUnderWay
    BY <1>3, <1>4
  <2> QED
    BY <1>1, <2>1, <2>2
<1>5. CASE poll_get \/ poll_get_fails
  <2>1. PICK k \in OpIndex :
          /\ is_next(k)
          /\ \/ continue_with(poll.todo \ {k})
             \/ poll' = [poll EXCEPT !.step = "view", !.todo = poll.todo \ {k}]
    BY <1>5 DEF poll_get, poll_get_fails
  <2>2. poll \in PollUnderWay
    BY <1>2, <2>1 DEF is_next
  <2>3. PICK rest \in SUBSET OpIndex : rest = poll.todo \ {k}
    BY <2>2 DEF PollUnderWay
  <2>4. [poll EXCEPT !.step = "view", !.todo = rest] \in PollUnderWay
    BY <1>3, <2>2
  <2> QED
    BY <1>1, <1>4, <2>1, <2>2, <2>3, <2>4
<1>6. CASE poll_view
  <2>1. poll \in PollUnderWay
    BY <1>2, <1>6 DEF poll_view
  <2>2. PICK rest \in SUBSET OpIndex : rest = poll.todo
    BY <2>1 DEF PollUnderWay
  <2>3. [poll EXCEPT !.step = "audit", !.todo = {}] \in PollUnderWay
    BY <1>3, <2>1
  <2> QED
    BY <1>1, <1>4, <1>6, <2>1, <2>2, <2>3 DEF poll_view
<1>7. CASE poll_audit
  <2>1. poll \in PollUnderWay
    BY <1>2, <1>7 DEF poll_audit
  <2>2. [poll EXCEPT !.step = "close"] \in PollUnderWay
    BY <2>1 DEF PollUnderWay
  <2> QED
    BY <1>1, <1>7, <2>2 DEF poll_audit
<1> QED
  BY <1>1, <1>5, <1>6, <1>7 DEF PollStep, poll_close, poll_raises

\* The poll and the technicians are type-correct.
LEMMA FollowType ==
  ASSUME TypeOK, Follow
  PROVE  TypeOK'
<1> USE DEF TypeOK, Follow
<1>1. DetectionTypeOK' /\ DecisionsTypeOK'
  BY DEF DetectionTypeOK, detectionVars, DecisionsTypeOK
<1>2. BusTypeOK' /\ OrchestratorTypeOK'
  BY DEF resolve_work_order, poll_find, PollStep,
     poll_get, poll_get_fails, continue_with, poll_view, poll_audit, poll_close,
     poll_raises, busVars, BusTypeOK, OrchestratorTypeOK
<1>3. StoreTypeOK'
  BY CloseType DEF resolve_work_order, poll_find, PollStep,
     poll_get, poll_get_fails, continue_with, poll_view, poll_audit,
     poll_close, poll_raises, StoreTypeOK, storeVars
<1>4. ActionTypeOK'
  <2> USE DEF ActionTypeOK, Poll
  <2>1. ASSUME NEW i \in Incident, poll_find(i)
        PROVE  ActionTypeOK'
    BY <2>1 DEF poll_find, work_orders, executed_ops, orderVars
  <2>2. ASSUME NEW i \in Incident, NEW k \in OpIndex, resolve_work_order(i, k)
        PROVE  ActionTypeOK'
    <3>1. PICK n \in 1..orders[<<i, k>>] : done' = done \cup {<<i, k, n>>}
      BY <2>2 DEF resolve_work_order
    <3>2. orders[<<i, k>>] \in Nat
      OBVIOUS
    <3>3. n \in Nat
      BY <3>1, <3>2
    <3> QED
      BY <2>2, <3>1, <3>3 DEF resolve_work_order
  <2>3. CASE PollStep
    <3>1. poll' \in Poll
      BY <2>3, PollStepType
    <3>2. UNCHANGED <<exec, orderVars>>
      BY <2>3 DEF PollStep, poll_get, poll_get_fails, poll_view, poll_audit, poll_close,
         poll_raises
    <3> QED
      BY <3>1, <3>2 DEF orderVars
  <2> QED
    BY <2>1, <2>2, <2>3
<1> QED
  BY <1>1, <1>2, <1>3, <1>4

\* A crash and restart is type-correct.
LEMMA CrashType ==
  ASSUME TypeOK, Crash
  PROVE  TypeOK'
<1>1. StoreTypeOK' /\ BusTypeOK' /\ DetectionTypeOK' /\ OrchestratorTypeOK'
  BY DEF TypeOK, Crash, HandlerEnds, StoreTypeOK, storeVars, BusTypeOK,
     DetectionTypeOK, OrchestratorTypeOK
<1>2. DecisionsTypeOK' /\ ActionTypeOK'
  BY ExecType DEF TypeOK, Crash, DecisionsTypeOK, Request, ActionTypeOK, orderVars, Poll
<1> QED
  BY <1>1, <1>2 DEF TypeOK

-----------------------------------------------------------------------------

\* Stuttering is type-correct.
LEMMA StutterType ==
  ASSUME TypeOK, UNCHANGED vars
  PROVE  TypeOK'
BY DEF TypeOK, vars, StoreTypeOK, storeVars, busVars, BusTypeOK, DetectionTypeOK,
   detectionVars, OrchestratorTypeOK, DecisionsTypeOK, ActionTypeOK, orderVars

\* The initial state is type-correct.
LEMMA InitType == Init => TypeOK
<1> SUFFICES ASSUME Init PROVE TypeOK
  OBVIOUS
<1>1. StoreTypeOK
  BY DEF Init, StoreInit, StoreTypeOK, Diagnosis, Level
<1>2. BusTypeOK /\ OrchestratorTypeOK /\ DetectionTypeOK
  BY ReadingsAssumption DEF Init, BusInit, BusTypeOK, OrchestratorInit,
     OrchestratorTypeOK, DetectionInit, DetectionTypeOK
<1>3. DecisionsTypeOK /\ ActionTypeOK
  BY ExecType DEF Init, DecisionsInit, DecisionsTypeOK, Request, ActionInit,
     ActionTypeOK, Poll
<1> QED
  BY <1>1, <1>2, <1>3 DEF TypeOK

\* Every table, queue, handler local and request in progress always has its
\* type: in particular a handler between two awaits always has a message, an
\* endpoint that passed its checks always has an incident and a level, and
\* the CMMS client is never past its last try.
THEOREM TypeCorrect == Spec => []TypeOK
<1>1. TypeOK /\ [Next]_vars => TypeOK'
  BY DispatchType, DiagnoseType, OrchestrateType, ExecuteType, DetectType,
     DecideType, FollowType, CrashType, StutterType DEF Next
<1> QED
  BY InitType, <1>1, PTL DEF Spec

-----------------------------------------------------------------------------
(* The queue *)

\* publish appends one message and moves no other (eventbus/base.py publish).
LEMMA PublishQueue ==
  ASSUME queue \in Seq(Message), NEW t, NEW i, publish(t, i)
  PROVE  /\ Len(queue') = Len(queue) + 1
         /\ queue'[Len(queue) + 1] = [topic |-> t, inc |-> i]
         /\ \A n \in 1..Len(queue) : queue'[n] = queue[n]
BY DEF publish

\* After publish the queue holds what it held, and the new message.
LEMMA PublishInQueue ==
  ASSUME queue \in Seq(Message), NEW t, NEW i, publish(t, i), NEW u, NEW j
  PROVE  InQueue(u, j)' <=> InQueue(u, j) \/ (u = t /\ j = i)
<1>1. /\ Len(queue) \in Nat
      /\ Len(queue') = Len(queue) + 1
      /\ queue'[Len(queue) + 1] = [topic |-> t, inc |-> i]
      /\ \A n \in 1..Len(queue) : queue'[n] = queue[n]
  BY PublishQueue
<1>2. ASSUME InQueue(u, j)'
      PROVE  InQueue(u, j) \/ (u = t /\ j = i)
  <2>1. PICK n \in 1..(Len(queue) + 1) : queue'[n] = [topic |-> u, inc |-> j]
    BY <1>1, <1>2 DEF InQueue
  <2>2. CASE n = Len(queue) + 1
    BY <1>1, <2>1, <2>2
  <2>3. CASE n \in 1..Len(queue)
    BY <1>1, <2>1, <2>3 DEF InQueue
  <2> QED
    BY <1>1, <2>1, <2>2, <2>3
<1>3. ASSUME InQueue(u, j)
      PROVE  InQueue(u, j)'
  <2>1. PICK n \in 1..Len(queue) : queue[n] = [topic |-> u, inc |-> j]
    BY <1>3 DEF InQueue
  <2>2. n \in 1..Len(queue') /\ queue'[n] = [topic |-> u, inc |-> j]
    BY <1>1, <2>1
  <2> QED
    BY <2>2 DEF InQueue
<1>4. ASSUME u = t, j = i
      PROVE  InQueue(u, j)'
  BY <1>1, <1>4 DEF InQueue
<1> QED
  BY <1>2, <1>3, <1>4

\* Taking the head shifts every other message by one.
LEMMA TakeQueue ==
  ASSUME queue \in Seq(Message), queue # <<>>, queue' = Tail(queue)
  PROVE  /\ Len(queue) \in Nat \ {0}
         /\ Len(queue') = Len(queue) - 1
         /\ Head(queue) = queue[1]
         /\ Head(queue) \in Message
         /\ \A n \in 1..Len(queue') : queue'[n] = queue[n + 1] /\ n + 1 \in 1..Len(queue)
OBVIOUS

\* Taking the head adds nothing to the queue.
LEMMA TakeInQueue ==
  ASSUME queue \in Seq(Message), queue # <<>>, queue' = Tail(queue), NEW u, NEW j,
         InQueue(u, j)'
  PROVE  InQueue(u, j)
BY TakeQueue DEF InQueue

\* The message _listen takes was in the queue.
LEMMA HeadInQueue ==
  ASSUME queue \in Seq(Message), queue # <<>>
  PROVE  InQueue(Head(queue).topic, Head(queue).inc)
<1>1. Head(queue) = queue[1] /\ Head(queue) \in Message /\ 1 \in 1..Len(queue)
  OBVIOUS
<1>2. Head(queue) = [topic |-> Head(queue).topic, inc |-> Head(queue).inc]
  BY <1>1 DEF Message
<1> QED
  BY <1>1, <1>2 DEF InQueue

-----------------------------------------------------------------------------
(* Handlers and their topics *)

\* Every handler step keeps running on a message of the handler's own topic.
LEMMA HandlerTopicStep ==
  ASSUME TypeOK, HandlerTopic, [Next]_vars
  PROVE  HandlerTopic'
<1> USE DEF TypeOK, HandlerTopic, KnowledgeStep, ActionStep
<1>1. CASE Dispatch
  <2>1. Head(queue) \in Message
    BY <1>1 DEF Dispatch, dispatch, BusTypeOK
  <2>2. Head(queue).topic \in Topic
    BY <2>1 DEF Message
  <2> QED
    BY <1>1, <2>2 DEF Dispatch, dispatch, first_step, Topic
<1>2. CASE Diagnose
  BY <1>2 DEF Diagnose, DiagnosisStep, knowledge_save, knowledge_publish,
     knowledge_raises, root_cause_read, root_cause_save, root_cause_publish,
     root_cause_raises, Goto, HandlerEnds, RootCauseStep
<1>3. CASE Orchestrate
  BY <1>3 DEF Orchestrate, OrchestrationStep, risk_assess, risk_publish,
     recommendation_read, recommendation_save, recommendation_publish,
     trigger_recommendation_publish, gate_read, gate_write, orchestrator_raises,
     Goto, HandlerEnds
<1>4. CASE Execute
  BY <1>4 DEF Execute, ExecutionStep, action_read, action_kinds, action_reconcile,
     action_pending, action_call, call_answered, call_answer_lost, call_not_received,
     call_rejected, retry_or_give_up, action_succeeded, action_failed, next_operation,
     action_finish, action_raises, Goto, HandlerEnds
<1>5. CASE UNCHANGED <<at, cur>>
  BY <1>5
<1>6. CASE Crash
  BY <1>6 DEF Crash, HandlerEnds
<1>7. Detect \/ Decide \/ Follow \/ UNCHANGED vars => UNCHANGED <<at, cur>>
  BY DEF Detect, upsert_incident, DetectionStep, publish_event, dead_letter, Decide,
     decision_check, resolve_check, RequestStep, decision_record, decision_publish,
     decision_publish_fails, resolve_write, request_raises, Follow, poll_find,
     resolve_work_order, PollStep,
     poll_get, poll_get_fails, continue_with, poll_view, poll_audit, poll_close, poll_raises,
     busVars, vars
<1> QED
  BY <1>1, <1>2, <1>3, <1>4, <1>5, <1>6, <1>7 DEF Next

-----------------------------------------------------------------------------
(* Rows *)

\* The only ways a step writes the status: one row, a status of the machine;
\* the recommendation and the gate alone ask for an approval.
LEMMA StatusWrite ==
  ASSUME TypeOK, [Next]_vars
  PROVE  \/ UNCHANGED status
         \/ \E i \in Incident, to \in Status \ {"awaiting_approval"} :
              status' = [status EXCEPT ![i] = to]
         \/ /\ Orchestrate /\ (recommendation_save \/ gate_write)
            /\ cur.inc \in Incident /\ routed \in Status
            /\ status' = [status EXCEPT ![cur.inc] = routed]
<1> DEFINE Write == \E i \in Incident, to \in Status \ {"awaiting_approval"} :
                      status' = [status EXCEPT ![i] = to]
<1>1. CASE Dispatch
  BY <1>1 DEF Dispatch, storeVars
<1>2. CASE Diagnose
  <2>1. CASE root_cause_save
    <3>1. cur.inc \in Incident
      BY <2>1, CurrentMessage DEF root_cause_save, TypeOK
    <3>2. PICK outcome : save_root_cause(cur.inc, outcome, status_for(outcome))
      BY <2>1 DEF root_cause_save
    <3>3. status_for(outcome) \in Status \ {"awaiting_approval"}
      BY DEF status_for, Status
    <3> QED
      BY <3>1, <3>2, <3>3 DEF save_root_cause
  <2>2. CASE ~root_cause_save
    BY <1>2, <2>2 DEF Diagnose, DiagnosisStep, knowledge_save, save_incident_evidence,
       knowledge_publish, knowledge_raises, root_cause_read, root_cause_publish,
       root_cause_raises, storeVars
  <2> QED
    BY <2>1, <2>2
<1>3. CASE Orchestrate
  <2>1. CASE risk_assess
    <3>1. cur.inc \in Incident
      BY <2>1, CurrentMessage DEF risk_assess, TypeOK
    <3> QED
      BY <2>1, <3>1 DEF risk_assess, save_risk_assessment, Status
  <2>2. CASE recommendation_save
    <3>1. cur.inc \in Incident
      BY <2>2, CurrentMessage DEF recommendation_save, TypeOK
    <3>2. routed \in Status
      BY <2>2 DEF recommendation_save, TypeOK, OrchestratorTypeOK, Status
    <3> QED
      BY <1>3, <2>2, <3>1, <3>2 DEF recommendation_save, save_recommendation
  <2>3. CASE gate_write
    <3>1. cur.inc \in Incident
      BY <2>3, CurrentMessage DEF gate_write, TypeOK
    <3>2. routed \in Status
      BY <2>3 DEF gate_write, TypeOK, OrchestratorTypeOK, Status
    <3> QED
      BY <1>3, <2>3, <3>1, <3>2 DEF gate_write, transition_incident
  <2>4. CASE ~(risk_assess \/ recommendation_save \/ gate_write)
    BY <1>3, <2>4 DEF Orchestrate, OrchestrationStep, risk_publish, recommendation_read,
       recommendation_publish, trigger_recommendation_publish, gate_read,
       orchestrator_raises, storeVars
  <2> QED
    BY <2>1, <2>2, <2>3, <2>4
<1>4. CASE Execute
  <2>1. CASE action_reconcile \/ action_finish
    <3>1. cur.inc \in Incident
      BY <2>1, CurrentMessage DEF action_reconcile, action_finish, TypeOK
    <3> QED
      BY <2>1, <3>1 DEF action_reconcile, action_finish, save_action_result,
         transition_incident, Status
  <2>2. CASE ~(action_reconcile \/ action_finish)
    BY <1>4, <2>2 DEF Execute, ExecutionStep, action_read, action_kinds, action_pending,
       action_call, action_succeeded, action_failed, action_raises,
       record_action_execution, storeVars
  <2> QED
    BY <2>1, <2>2
<1>5. CASE Detect
  <2>1. ASSUME NEW e \in Equipment, NEW i \in fresh_rows(e), transition_incident(i, "open")
        PROVE  Write
    BY <2>1 DEF fresh_rows, transition_incident, Status
  <2> QED
    BY <1>5, <2>1 DEF Detect, upsert_incident, DetectionStep, publish_event, dead_letter,
       storeVars
<1>6. CASE Decide
  <2>1. ASSUME NEW c \in Client, decision_record(c)
        PROVE  Write
    BY <2>1, RequestFields DEF decision_record, record_approval, TypeOK, Decision, Status
  <2>2. ASSUME NEW c \in Client, resolve_write(c)
        PROVE  Write
    BY <2>2, RequestFields DEF resolve_write, resolve_incident_manually,
       transition_incident, TypeOK, Status
  <2> QED
    BY <1>6, <2>1, <2>2 DEF Decide, decision_check, resolve_check, RequestStep,
       decision_publish, decision_publish_fails, request_raises, storeVars
<1>7. CASE Follow
  <2>1. CASE poll_close
    <3>1. poll.inc \in Incident
      BY <2>1 DEF poll_close, TypeOK, ActionTypeOK, Poll, NoPoll
    <3> QED
      BY <2>1, <3>1 DEF poll_close, close_incident_loop, Status
  <2>2. CASE ~poll_close
    BY <1>7, <2>2 DEF Follow, poll_find, resolve_work_order, PollStep,
       poll_get, poll_get_fails, continue_with, poll_view,
       poll_audit, poll_raises, storeVars
  <2> QED
    BY <2>1, <2>2
<1>8. CASE Crash \/ UNCHANGED vars
  BY <1>8 DEF Crash, vars, storeVars
<1> QED
  BY <1>1, <1>2, <1>3, <1>4, <1>5, <1>6, <1>7, <1>8 DEF Next

\* No transaction of core/db.py deletes an incident row.
LEMMA RowsStay ==
  ASSUME TypeOK, [Next]_vars, NEW i \in Incident, Exists(i)
  PROVE  Exists(i)'
BY StatusWrite DEF Exists, Status, TypeOK, StoreTypeOK

\* Who writes the diagnosis, the level, the recommendation.
LEMMA DiagnosisWrite ==
  ASSUME [Next]_vars
  PROVE  UNCHANGED diagnosis \/ (Diagnose /\ root_cause_save)
BY DEF Next, Dispatch, Diagnose, DiagnosisStep, knowledge_save, save_incident_evidence,
   knowledge_publish, knowledge_raises, root_cause_read, root_cause_publish,
   root_cause_raises, Orchestrate, OrchestrationStep, risk_assess, save_risk_assessment,
   risk_publish, recommendation_read, recommendation_save, save_recommendation,
   recommendation_publish, trigger_recommendation_publish, gate_read, gate_write,
   transition_incident, orchestrator_raises, Execute, ExecutionStep, action_read,
   action_kinds, action_reconcile, save_action_result, action_pending,
   record_action_execution, action_call, action_succeeded, action_failed, action_finish,
   action_raises, Detect, upsert_incident, DetectionStep, publish_event, dead_letter,
   Decide, decision_check, resolve_check, RequestStep, decision_record, record_approval,
   decision_publish, decision_publish_fails, resolve_write, resolve_incident_manually,
   request_raises, Follow, poll_find, resolve_work_order, PollStep,
   poll_get, poll_get_fails, continue_with, poll_view, poll_audit,
   poll_close, close_incident_loop, poll_raises, Crash, vars, storeVars

\* The only ways a step writes the queue.
LEMMA QueueWrite ==
  ASSUME TypeOK, [Next]_vars
  PROVE  \/ UNCHANGED queue
         \/ queue' = <<>>
         \/ queue # <<>> /\ queue' = Tail(queue)
         \/ \E t \in Topic, i \in Incident :
              /\ publish(t, i)
              /\ \/ i = detected
                 \/ at # "idle" /\ i = cur.inc
                 \/ \E c \in Client : request[c].step # "idle" /\ i = request[c].inc
<1> DEFINE Published == \E t \in Topic, i \in Incident :
              /\ publish(t, i)
              /\ \/ i = detected
                 \/ at # "idle" /\ i = cur.inc
                 \/ \E c \in Client : request[c].step # "idle" /\ i = request[c].inc
<1>1. CASE Dispatch
  BY <1>1 DEF Dispatch, dispatch
<1>2. ASSUME at # "idle", NEW t \in Topic, publish(t, cur.inc)
      PROVE  Published
  BY <1>2, CurrentMessage DEF TypeOK
<1>3. CASE Diagnose
  <2>1. {"diagnosis", "root_cause"} \subseteq Topic
    BY DEF Topic
  <2> QED
    BY <1>2, <1>3, <2>1 DEF Diagnose, DiagnosisStep, knowledge_save, knowledge_publish,
       knowledge_raises, root_cause_read, root_cause_save, root_cause_publish,
       root_cause_raises
<1>4. CASE Orchestrate
  <2>1. {"risk", "recommendation"} \subseteq Topic
    BY DEF Topic
  <2> QED
    BY <1>2, <1>4, <2>1 DEF Orchestrate, OrchestrationStep, risk_assess, risk_publish,
       recommendation_read, recommendation_save, recommendation_publish,
       trigger_recommendation_publish, gate_read, gate_write, orchestrator_raises
<1>5. CASE Execute
  BY <1>5 DEF Execute, ExecutionStep, action_read, action_kinds, action_reconcile,
     action_pending, action_call, action_succeeded, action_failed, action_finish,
     action_raises
<1>6. CASE Detect
  <2>1. CASE publish_event
    BY <2>1 DEF publish_event, TypeOK, DetectionTypeOK, Topic
  <2>2. CASE ~publish_event
    BY <1>6, <2>2 DEF Detect, upsert_incident, DetectionStep, dead_letter, busVars
  <2> QED
    BY <2>1, <2>2
<1>7. CASE Decide
  <2>1. ASSUME NEW c \in Client, decision_publish(c)
        PROVE  Published
    BY <2>1, RequestFields DEF decision_publish, TypeOK, Topic
  <2> QED
    BY <1>7, <2>1 DEF Decide, decision_check, resolve_check, RequestStep,
       decision_record, decision_publish_fails, resolve_write, request_raises, busVars
<1>8. CASE Follow \/ Crash \/ UNCHANGED vars
  BY <1>8 DEF Follow, poll_find, resolve_work_order, PollStep,
     poll_get, poll_get_fails, continue_with, poll_view, poll_audit,
     poll_close, poll_raises, Crash, vars, busVars
<1> QED
  BY <1>1, <1>3, <1>4, <1>5, <1>6, <1>7, <1>8 DEF Next

\* A step that takes no message keeps the one in progress or ends its handler.
LEMMA CurWrite ==
  ASSUME TypeOK, [Next]_vars
  PROVE  \/ Dispatch
         \/ at # "idle" /\ UNCHANGED cur
         \/ at' = "idle" /\ cur' = NoMessage
<1>1. CASE Diagnose
  BY <1>1 DEF Diagnose, DiagnosisStep, knowledge_save, knowledge_publish,
     knowledge_raises, root_cause_read, root_cause_save, root_cause_publish,
     root_cause_raises, KnowledgeStep, RootCauseStep, Goto, HandlerEnds
<1>2. CASE Orchestrate
  BY <1>2 DEF Orchestrate, OrchestrationStep, risk_assess, risk_publish,
     recommendation_read, recommendation_save, recommendation_publish,
     trigger_recommendation_publish, gate_read, gate_write, orchestrator_raises,
     OrchestratorStep, Goto, HandlerEnds
<1>3. CASE Execute
  BY <1>3 DEF Execute, ExecutionStep, action_read, action_kinds, action_reconcile,
     action_pending, action_call, call_answered, call_answer_lost, call_not_received,
     call_rejected, retry_or_give_up, action_succeeded, action_failed, next_operation,
     action_finish, action_raises, ActionStep, Goto, HandlerEnds
<1>4. Detect \/ Decide \/ Follow \/ UNCHANGED vars => UNCHANGED <<at, cur>>
  BY DEF Detect, upsert_incident, DetectionStep, publish_event, dead_letter, Decide,
     decision_check, resolve_check, RequestStep, decision_record, decision_publish,
     decision_publish_fails, resolve_write, request_raises, Follow, poll_find,
     resolve_work_order, PollStep,
     poll_get, poll_get_fails, continue_with, poll_view, poll_audit, poll_close, poll_raises,
     busVars, vars
<1>5. CASE Crash
  BY <1>5 DEF Crash, HandlerEnds
<1> QED
  BY <1>1, <1>2, <1>3, <1>4, <1>5 DEF Next, TypeOK, BusTypeOK

\* _record_decision goes on to its publish with the incident it recorded.
LEMMA RequestToPublish ==
  ASSUME DecisionsTypeOK, NEW c \in Client, request[c].step = "record",
         request' = [request EXCEPT ![c].step = "publish"]
  PROVE  /\ request'[c].step = "publish"
         /\ request'[c].inc = request[c].inc
         /\ \A b \in Client : b # c => request'[b] = request[b]
<1>1. request[c] \in [step : {"record"}, inc : Incident, decision : Decision, level : 1..3]
  BY DEF DecisionsTypeOK, Request, NoRequest
<1>2. request'[c] = [request[c] EXCEPT !.step = "publish"]
  BY DEF DecisionsTypeOK
<1>3. request'[c].step = "publish" /\ request'[c].inc = request[c].inc
  BY <1>1, <1>2
<1>4. \A b \in Client : b # c => request'[b] = request[b]
  BY DEF DecisionsTypeOK
<1> QED
  BY <1>3, <1>4

\* A request on an incident that has passed its checks.
StartedRequest(i) == [step : {"record", "resolve"}, inc : {i},
                      decision : Decision \cup {"none"}, level : Nat]

\* What a step of an endpoint does to the requests.
LEMMA RequestWrite ==
  ASSUME TypeOK, Decide
  PROVE  \E b \in Client :
           \/ request' = [request EXCEPT ![b] = NoRequest]
           \/ /\ request[b].step = "record"
              /\ request' = [request EXCEPT ![b].step = "publish"]
           \/ \E i \in Incident : \E r \in StartedRequest(i) :
                Exists(i) /\ request' = [request EXCEPT ![b] = r]
<1>1. PICK b \in Client :
        \/ \E i \in Incident : \/ \E d \in Decision : decision_check(b, i, d)
                               \/ resolve_check(b, i)
        \/ RequestStep(b)
  BY DEF Decide
<1> DEFINE Started == \E i \in Incident : \E r \in StartedRequest(i) :
                Exists(i) /\ request' = [request EXCEPT ![b] = r]
<1>2. ASSUME NEW i \in Incident, NEW d \in Decision, decision_check(b, i, d)
      PROVE  Started
  <2>1. level[i] \in Level
    BY DEF TypeOK, StoreTypeOK
  <2>2. effective_level(level[i]) \in Nat
    BY <2>1 DEF effective_level, Level
  <2> DEFINE r == [step |-> "record", inc |-> i, decision |-> d,
                   level |-> effective_level(level[i])]
  <2>3. r \in StartedRequest(i)
    BY <2>2 DEF StartedRequest
  <2>4. Exists(i) /\ request' = [request EXCEPT ![b] = r]
    BY <1>2 DEF decision_check
  <2> QED
    BY <2>3, <2>4
<1>3. ASSUME NEW i \in Incident, resolve_check(b, i)
      PROVE  Started
  <2> DEFINE r == [step |-> "resolve", inc |-> i, decision |-> "none", level |-> 0]
  <2>1. r \in StartedRequest(i)
    BY DEF StartedRequest
  <2>2. Exists(i) /\ request' = [request EXCEPT ![b] = r]
    BY <1>3 DEF resolve_check
  <2> QED
    BY <2>1, <2>2
<1>4. CASE RequestStep(b)
  BY <1>4 DEF RequestStep, decision_record, decision_publish, decision_publish_fails,
     resolve_write, request_raises, RequestEnds
<1> QED
  BY <1>1, <1>2, <1>3, <1>4

\* Events, handlers and requests only ever name rows that exist.
LEMMA KnownRowsStep ==
  ASSUME TypeOK, KnownRows, [Next]_vars
  PROVE  KnownRows'
<1>1. ASSUME NEW n \in 1..Len(queue')
      PROVE  status'[queue'[n].inc] # "absent"
  <2>0. queue \in Seq(Message) /\ \A m \in 1..Len(queue) : queue[m].inc \in Incident
    <3>1. \A m \in 1..Len(queue) : queue[m] \in Message
      BY DEF TypeOK, BusTypeOK
    <3> QED
      BY <3>1 DEF TypeOK, BusTypeOK, Message
  <2>1. CASE UNCHANGED queue
    BY <2>0, <2>1, RowsStay DEF KnownRows, Exists
  <2>2. CASE queue' = <<>>
    BY <2>2
  <2>3. CASE queue # <<>> /\ queue' = Tail(queue)
    BY <2>0, <2>3, TakeQueue, RowsStay DEF KnownRows, Exists
  <2>4. ASSUME NEW t \in Topic, NEW i \in Incident, publish(t, i), Exists(i)
        PROVE  status'[queue'[n].inc] # "absent"
    <3>1. queue \in Seq(Message)
      BY <2>0
    <3>2. /\ Len(queue') = Len(queue) + 1
          /\ queue'[Len(queue) + 1] = [topic |-> t, inc |-> i]
          /\ \A m \in 1..Len(queue) : queue'[m] = queue[m]
      BY <2>4, <3>1, PublishQueue
    <3>3. CASE n \in 1..Len(queue)
      BY <2>0, <3>2, <3>3, RowsStay DEF KnownRows, Exists
    <3>4. CASE n = Len(queue) + 1
      BY <2>4, <3>2, <3>4, RowsStay DEF Exists
    <3> QED
      BY <3>1, <3>2, <3>3, <3>4
  <2>5. NoIncident \notin Incident
    BY DEF NoIncident, Incident
  <2> QED
    BY <2>1, <2>2, <2>3, <2>4, <2>5, QueueWrite DEF KnownRows
<1>2. (at # "idle" => Exists(cur.inc))'
  <2>1. CASE Dispatch
    <3>1. queue \in Seq(Message) /\ queue # <<>>
      BY <2>1 DEF Dispatch, dispatch, TypeOK, BusTypeOK
    <3>2. Head(queue) = queue[1] /\ 1 \in 1..Len(queue)
      BY <3>1
    <3> QED
      BY <2>1, <3>2 DEF Dispatch, dispatch, storeVars, Exists, KnownRows
  <2>2. CASE at # "idle" /\ UNCHANGED cur
    BY <2>2, CurrentMessage, RowsStay DEF KnownRows, TypeOK
  <2> QED
    BY <2>1, <2>2, CurWrite
<1>3. (detected # NoIncident => Exists(detected))'
  <2>1. CASE Detect
    <3>1. ASSUME NEW e \in Equipment, upsert_incident(e)
          PROVE  Exists(detected)'
      <4>1. ASSUME NEW i \in open_rows(e), detected' = i, UNCHANGED storeVars
            PROVE  Exists(detected)'
        BY <4>1 DEF open_rows, Unresolved, Exists, storeVars
      <4>2. ASSUME NEW i \in fresh_rows(e), detected' = i, transition_incident(i, "open")
            PROVE  Exists(detected)'
        BY <4>2 DEF fresh_rows, transition_incident, Exists, TypeOK, StoreTypeOK
      <4> QED
        BY <3>1, <4>1, <4>2 DEF upsert_incident
    <3> QED
      BY <2>1, <3>1 DEF Detect, DetectionStep, publish_event, dead_letter
  <2>2. CASE UNCHANGED detected
    BY <2>2, RowsStay DEF KnownRows, TypeOK, DetectionTypeOK
  <2>3. CASE Crash
    BY <2>3 DEF Crash
  <2>4. Detect \/ UNCHANGED detected \/ Crash
    BY DEF Next, Dispatch, Diagnose, DiagnosisStep, knowledge_save, knowledge_publish,
       knowledge_raises, root_cause_read, root_cause_save, root_cause_publish,
       root_cause_raises, Orchestrate, Execute, Decide, Follow, detectionVars, vars
  <2> QED
    BY <2>1, <2>2, <2>3, <2>4
<1>4. (\A c \in Client : request[c].step # "idle" => Exists(request[c].inc))'
  <2> SUFFICES ASSUME NEW c \in Client, request'[c].step # "idle"
               PROVE  status'[request'[c].inc] # "absent"
    BY DEF Exists
  <2>1. CASE request[c].step # "idle" /\ request'[c].inc = request[c].inc
    BY <2>1, RequestFields, RowsStay DEF KnownRows, TypeOK, Exists
  <2>2. ASSUME NEW i \in Incident, Exists(i), request'[c].inc = i
        PROVE  status'[request'[c].inc] # "absent"
    BY <2>2, RowsStay DEF Exists
  <2>3. \/ request[c].step # "idle" /\ request'[c].inc = request[c].inc
        \/ \E i \in Incident : Exists(i) /\ request'[c].inc = i
    <3>1. CASE UNCHANGED request
      BY <3>1, RequestFields DEF TypeOK
    <3>2. CASE Decide
      <4>1. \E b \in Client :
              \/ request' = [request EXCEPT ![b] = NoRequest]
              \/ /\ request[b].step = "record"
                 /\ request' = [request EXCEPT ![b].step = "publish"]
              \/ \E i \in Incident : \E r \in StartedRequest(i) :
                   Exists(i) /\ request' = [request EXCEPT ![b] = r]
        BY <3>2, RequestWrite DEF TypeOK
      <4>2. PICK b \in Client :
              \/ request' = [request EXCEPT ![b] = NoRequest]
              \/ /\ request[b].step = "record"
                 /\ request' = [request EXCEPT ![b].step = "publish"]
              \/ \E i \in Incident : \E r \in StartedRequest(i) :
                   Exists(i) /\ request' = [request EXCEPT ![b] = r]
        BY <4>1
      <4>3. CASE request' = [request EXCEPT ![b] = NoRequest]
        BY <4>3, RequestFields DEF NoRequest, TypeOK, DecisionsTypeOK
      <4>4. CASE /\ request[b].step = "record"
                 /\ request' = [request EXCEPT ![b].step = "publish"]
        BY <4>4, RequestToPublish, RequestFields DEF TypeOK
      <4>5. ASSUME NEW i \in Incident, NEW r \in StartedRequest(i), Exists(i),
                   request' = [request EXCEPT ![b] = r]
            PROVE  \/ request[c].step # "idle" /\ request'[c].inc = request[c].inc
                   \/ \E j \in Incident : Exists(j) /\ request'[c].inc = j
        BY <4>5 DEF StartedRequest, TypeOK, DecisionsTypeOK
      <4> QED
        BY <4>2, <4>3, <4>4, <4>5
    <3>3. CASE Crash
      BY <3>3 DEF Crash, NoRequest
    <3>4. UNCHANGED request \/ Decide \/ Crash
      BY DEF Next, Dispatch, Diagnose, Orchestrate, Execute, Detect, Follow, vars
    <3> QED
      BY <3>1, <3>2, <3>3, <3>4
  <2> QED
    BY <2>1, <2>2, <2>3
<1>5. (\A i \in Incident : ~Exists(i) => diagnosis[i] = "none")'
  <2> SUFFICES ASSUME NEW i \in Incident, ~Exists(i)'
               PROVE  diagnosis'[i] = "none"
    OBVIOUS
  <2>1. diagnosis[i] = "none"
    BY RowsStay DEF KnownRows
  <2>2. CASE UNCHANGED diagnosis
    BY <2>1, <2>2
  <2>3. CASE root_cause_save
    <3>1. cur.inc # i
      BY <2>3, RowsStay DEF root_cause_save, KnownRows
    <3> QED
      BY <2>1, <2>3, <3>1 DEF root_cause_save, save_root_cause, TypeOK, StoreTypeOK
  <2>4. UNCHANGED diagnosis \/ root_cause_save
    BY DiagnosisWrite
  <2> QED
    BY <2>2, <2>3, <2>4
<1> QED
  BY <1>1, <1>2, <1>3, <1>4, <1>5 DEF KnownRows, Exists

-----------------------------------------------------------------------------
(* The token of an incident *)

\* An idle listener is about no incident.
LEMMA NoMessageInc ==
  ASSUME NEW i \in Incident
  PROVE  NoMessage.inc # i
BY DEF NoMessage, NoIncident, Incident

\* A queued stage message is one of the two stage topics.
LEMMA StageInQueue ==
  ASSUME NEW i, NEW n \in 1..Len(queue), queue[n] \in StageMessage(i)
  PROVE  InQueue("root_cause", i) \/ InQueue("risk", i)
BY DEF StageMessage, InQueue

\* Publishing something else keeps an incident's stage message single.
LEMMA SingleOther ==
  ASSUME queue \in Seq(Message), NEW t, NEW j, publish(t, j), NEW i,
         t \notin {"root_cause", "risk"} \/ j # i, SingleStage(i)
  PROVE  SingleStage(i)'
<1>1. /\ Len(queue) \in Nat
      /\ Len(queue') = Len(queue) + 1
      /\ queue'[Len(queue) + 1] = [topic |-> t, inc |-> j]
      /\ \A n \in 1..Len(queue) : queue'[n] = queue[n]
  BY PublishQueue
<1>2. queue'[Len(queue) + 1] \notin StageMessage(i)
  BY <1>1 DEF StageMessage
<1> QED
  BY <1>1, <1>2 DEF SingleStage, StageMessage

\* Publishing a stage message where none is queued makes it the only one.
LEMMA SingleFirst ==
  ASSUME queue \in Seq(Message), NEW t, NEW j, publish(t, j), NEW i, NoStage(i)
  PROVE  SingleStage(i)'
<1>1. /\ Len(queue) \in Nat
      /\ Len(queue') = Len(queue) + 1
      /\ \A n \in 1..Len(queue) : queue'[n] = queue[n]
  BY DEF publish
<1>2. \A n \in 1..Len(queue) : queue[n] \notin StageMessage(i)
  BY StageInQueue DEF NoStage
<1> QED
  BY <1>1, <1>2 DEF SingleStage, StageMessage

\* Taking an incident's stage message leaves none behind.
LEMMA SingleTake ==
  ASSUME queue \in Seq(Message), queue # <<>>, queue' = Tail(queue), NEW i, SingleStage(i)
  PROVE  /\ SingleStage(i)'
         /\ Head(queue) \in StageMessage(i) => NoStage(i)'
<1>1. /\ Len(queue) \in Nat \ {0}
      /\ Len(queue') = Len(queue) - 1
      /\ Head(queue) = queue[1]
      /\ \A n \in 1..Len(queue') : queue'[n] = queue[n + 1] /\ n + 1 \in 1..Len(queue)
  OBVIOUS
<1>2. SingleStage(i)'
  BY <1>1 DEF SingleStage, StageMessage
<1>3. ASSUME Head(queue) \in StageMessage(i), NEW n \in 1..Len(queue')
      PROVE  queue'[n] \notin StageMessage(i)
  BY <1>1, <1>3 DEF SingleStage
<1> QED
  BY <1>2, <1>3 DEF NoStage, InQueue, StageMessage

\* A step that writes none of an incident's pipeline columns, announces no
\* stage of it and is not one of its pipeline handlers leaves its token alone.
StageStep == TowardsStage \cup {"diagnose_save", "plan_publish", "plan_publish_again",
                               "gate_read", "gate_write"}

TokenInv(i) == ColumnsInOrder(i) /\ OneStageMessage(i) /\ StageOfToken(i)

\* A step that writes none of an incident's columns, enters no stage handler
\* of it and queues no message of it keeps its token where it is.
LEMMA QuietStep ==
  ASSUME NEW i, TokenInv(i),
         diagnosis'[i] = diagnosis[i], level'[i] = level[i], recommended'[i] = recommended[i],
         ~Handling(i, StageStep)' \/ UNCHANGED <<at, cur, routed>>,
         SingleStage(i)',
         \A t \in {"root_cause", "risk", "recommendation"} : InQueue(t, i)' => InQueue(t, i)
  PROVE  TokenInv(i)'
BY DEF TokenInv, ColumnsInOrder, Diagnosed, OneStageMessage, StageOfToken, NoStage,
   Handling, StageStep, TowardsStage

\* _dispatch moves the token from the queue to the handler.
LEMMA TokenDispatch ==
  ASSUME TypeOK, Dispatch, NEW i \in Incident, TokenInv(i)
  PROVE  TokenInv(i)'
<1>1. /\ queue \in Seq(Message) /\ queue # <<>> /\ queue' = Tail(queue)
      /\ cur' = Head(queue) /\ at' = first_step[cur'.topic]
      /\ UNCHANGED <<diagnosis, level, recommended, routed>>
  BY DEF Dispatch, dispatch, TypeOK, BusTypeOK, storeVars
<1>2. SingleStage(i)' /\ (Head(queue) \in StageMessage(i) => NoStage(i)')
  BY <1>1, SingleTake DEF TokenInv, OneStageMessage
<1>3. \A t : InQueue(t, i)' => InQueue(t, i)
  BY <1>1, TakeInQueue
<1>4. InQueue(cur'.topic, cur'.inc) /\ cur' \in Message
  BY <1>1, HeadInQueue, TakeQueue
<1>5. CASE cur'.inc # i \/ cur'.topic \in {"anomalies", "diagnosis", "incident_approved"}
  <2>1. ~Handling(i, StageStep)'
    BY <1>1, <1>5 DEF Handling, StageStep, TowardsStage, first_step
  <2> QED
    BY <1>1, <1>2, <1>3, <2>1, QuietStep
<1>6. CASE cur'.inc = i /\ cur'.topic \in {"root_cause", "risk"}
  <2>1. NoStage(i)'
    BY <1>1, <1>2, <1>4, <1>6 DEF StageMessage, Message
  <2> QED
    BY <1>1, <1>2, <1>3, <1>4, <1>6, <2>1
    DEF TokenInv, ColumnsInOrder, Diagnosed, OneStageMessage, StageOfToken, NoStage,
        Handling, TowardsStage, first_step
<1>7. CASE cur'.inc = i /\ cur'.topic = "recommendation"
  BY <1>1, <1>2, <1>3, <1>4, <1>7
  DEF TokenInv, ColumnsInOrder, Diagnosed, OneStageMessage, StageOfToken, NoStage,
      Handling, TowardsStage, first_step
<1> QED
  BY <1>4, <1>5, <1>6, <1>7 DEF Message, Topic

\* The Knowledge and Root-Cause handlers keep the token invariant.
LEMMA TokenDiagnose ==
  ASSUME TypeOK, HandlerTopic, Diagnose, NEW i \in Incident, TokenInv(i)
  PROVE  TokenInv(i)'
<1>1. queue \in Seq(Message) /\ UNCHANGED <<level, recommended, routed>>
  BY DEF Diagnose, DiagnosisStep, knowledge_save, save_incident_evidence,
     knowledge_publish, knowledge_raises, root_cause_read, root_cause_save,
     save_root_cause, root_cause_publish, root_cause_raises, storeVars, TypeOK, BusTypeOK
<1>2. CASE knowledge_save \/ knowledge_raises \/ root_cause_raises
  <2>1. UNCHANGED <<queue, diagnosis>> /\ ~Handling(i, StageStep)'
    BY <1>2 DEF knowledge_save, save_incident_evidence, knowledge_raises,
       root_cause_raises, Goto, HandlerEnds, Handling, StageStep, TowardsStage, storeVars
  <2>2. SingleStage(i)' /\ \A t : InQueue(t, i)' => InQueue(t, i)
    BY <2>1 DEF TokenInv, OneStageMessage, SingleStage, InQueue
  <2> QED
    BY <1>1, <2>1, <2>2, QuietStep
<1>3. CASE knowledge_publish
  <2>1. /\ publish("diagnosis", cur.inc) /\ UNCHANGED diagnosis
        /\ ~Handling(i, StageStep)'
    BY <1>3 DEF knowledge_publish, Goto, Handling, StageStep, TowardsStage, storeVars
  <2>2. SingleStage(i)'
    BY <1>1, <2>1, SingleOther DEF TokenInv, OneStageMessage
  <2>3. \A t : t # "diagnosis" /\ InQueue(t, i)' => InQueue(t, i)
    BY <1>1, <2>1, PublishInQueue
  <2> QED
    BY <1>1, <2>1, <2>2, <2>3, QuietStep
<1>4. CASE root_cause_read
  <2>1. /\ UNCHANGED <<queue, diagnosis>> /\ ~Handling(i, StageStep \ {"diagnose_save"})'
        /\ Handling(i, {"diagnose_save"})' => diagnosis'[i] = "none"
    BY <1>4 DEF root_cause_read, already_diagnosed, Goto, HandlerEnds, Handling,
       StageStep, TowardsStage, storeVars
  <2>2. SingleStage(i)' /\ \A t : InQueue(t, i)' <=> InQueue(t, i)
    BY <2>1 DEF TokenInv, OneStageMessage, SingleStage, InQueue
  <2> QED
    BY <1>1, <2>1, <2>2
    DEF TokenInv, ColumnsInOrder, Diagnosed, OneStageMessage, StageOfToken, NoStage,
        Handling, StageStep, TowardsStage
<1>5. CASE root_cause_save
  <2>1. PICK outcome \in Diagnosis \ {"none"} :
          /\ save_root_cause(cur.inc, outcome, status_for(outcome))
          /\ IF outcome = "withheld" THEN HandlerEnds ELSE Goto("diagnose_publish")
    BY <1>5 DEF root_cause_save
  <2>2. UNCHANGED queue /\ at = "diagnose_save"
    BY <1>5 DEF root_cause_save
  <2>3. SingleStage(i)' /\ \A t : InQueue(t, i)' <=> InQueue(t, i)
    BY <2>2 DEF TokenInv, OneStageMessage, SingleStage, InQueue
  <2>4. CASE cur.inc # i
    <3>1. diagnosis'[i] = diagnosis[i] /\ ~Handling(i, StageStep)'
      BY <2>1, <2>4, NoMessageInc DEF save_root_cause, TypeOK, StoreTypeOK, Goto, HandlerEnds,
         Handling
    <3> QED
      BY <1>1, <2>3, <3>1, QuietStep
  <2>5. CASE cur.inc = i
    <3>1. diagnosis[i] = "none" /\ level[i] = 0 /\ ~recommended[i]
      BY <2>2, <2>5 DEF TokenInv, StageOfToken, Handling, ColumnsInOrder, Diagnosed
    <3>2. \A t \in {"root_cause", "risk", "recommendation"} : ~InQueue(t, i)
      BY <3>1 DEF TokenInv, StageOfToken, Diagnosed
    <3>3. diagnosis'[i] = outcome
      BY <2>1, <2>5 DEF save_root_cause, TypeOK, StoreTypeOK
    <3>4. \/ outcome = "withheld" /\ at' = "idle"
          \/ outcome \in {"cause", "insufficient"} /\ at' = "diagnose_publish"
      BY <2>1 DEF Goto, HandlerEnds, Diagnosis
    <3> QED
      BY <1>1, <2>3, <3>1, <3>2, <3>3, <3>4
      DEF TokenInv, ColumnsInOrder, Diagnosed, OneStageMessage, StageOfToken, NoStage,
          Handling, TowardsStage
  <2> QED
    BY <2>4, <2>5
<1>6. CASE root_cause_publish
  <2>1. /\ publish("root_cause", cur.inc) /\ UNCHANGED diagnosis /\ at' = "idle"
        /\ at = "diagnose_publish"
    BY <1>6 DEF root_cause_publish, HandlerEnds, storeVars
  <2>2. \A t : InQueue(t, i)' <=> InQueue(t, i) \/ (t = "root_cause" /\ i = cur.inc)
    BY <1>1, <2>1, PublishInQueue
  <2>3. SingleStage(i)'
    <3>1. CASE cur.inc # i
      BY <1>1, <2>1, <3>1, SingleOther DEF TokenInv, OneStageMessage
    <3>2. CASE cur.inc = i
      <4>1. NoStage(i)
        BY <2>1, <3>2 DEF TokenInv, OneStageMessage, Handling, TowardsStage
      <4> QED
        BY <1>1, <2>1, <4>1, SingleFirst
    <3> QED
      BY <3>1, <3>2
  <2>4. cur.inc = i => Diagnosed(i) /\ level[i] = 0
    BY <2>1 DEF TokenInv, StageOfToken, Handling
  <2> QED
    BY <1>1, <2>1, <2>2, <2>3, <2>4
    DEF TokenInv, ColumnsInOrder, Diagnosed, OneStageMessage, StageOfToken,
        Handling, TowardsStage
<1> QED
  BY <1>2, <1>3, <1>4, <1>5, <1>6 DEF Diagnose, DiagnosisStep

\* So do the risk, recommendation and gate handlers.
LEMMA TokenOrchestrate ==
  ASSUME TypeOK, HandlerTopic, Orchestrate, NEW i \in Incident, TokenInv(i)
  PROVE  TokenInv(i)'
<1> DEFINE Stages == {"root_cause", "risk", "recommendation"}
<1>1. queue \in Seq(Message) /\ UNCHANGED diagnosis
  BY DEF Orchestrate, OrchestrationStep, risk_assess, save_risk_assessment, risk_publish,
     recommendation_read, recommendation_save, save_recommendation,
     recommendation_publish, trigger_recommendation_publish, gate_read, gate_write,
     transition_incident, orchestrator_raises, storeVars, TypeOK, BusTypeOK
<1>2. ASSUME UNCHANGED queue
      PROVE  SingleStage(i)' /\ \A t : InQueue(t, i)' <=> InQueue(t, i)
  BY <1>2 DEF TokenInv, OneStageMessage, SingleStage, InQueue
<1>3. CASE orchestrator_raises \/ gate_write
  <2>1. UNCHANGED <<queue, level, recommended>> /\ ~Handling(i, StageStep)'
    BY <1>3 DEF orchestrator_raises, gate_write, transition_incident, HandlerEnds,
       Handling, StageStep, TowardsStage, storeVars
  <2> QED
    BY <1>1, <1>2, <2>1, QuietStep
<1>4. CASE risk_assess
  <2>1. /\ at = "risk_save" /\ at' = "risk_publish" /\ UNCHANGED <<queue, recommended, cur>>
        /\ \E l \in hitl_levels(diagnosis[cur.inc]) : level' = [level EXCEPT ![cur.inc] = l]
    BY <1>4 DEF risk_assess, save_risk_assessment, Goto
  <2>2. CASE cur.inc # i
    <3>1. level'[i] = level[i] /\ ~Handling(i, StageStep)'
      BY <2>1, <2>2 DEF TypeOK, StoreTypeOK, Handling
    <3> QED
      BY <1>1, <1>2, <2>1, <3>1, QuietStep
  <2>3. CASE cur.inc = i
    <3>1. Diagnosed(i) /\ level[i] = 0 /\ ~recommended[i] /\ NoStage(i)
      BY <2>1, <2>3 DEF TokenInv, StageOfToken, ColumnsInOrder, OneStageMessage, Handling,
         TowardsStage
    <3>2. level'[i] # 0
      BY <2>1, <2>3 DEF TypeOK, StoreTypeOK, hitl_levels
    <3>3. ~InQueue("recommendation", i)
      BY <3>1 DEF TokenInv, StageOfToken
    <3> QED
      BY <1>1, <1>2, <2>1, <2>3, <3>1, <3>2, <3>3
      DEF TokenInv, ColumnsInOrder, Diagnosed, OneStageMessage, StageOfToken, NoStage,
          Handling, TowardsStage
  <2> QED
    BY <2>2, <2>3
<1>5. CASE risk_publish
  <2>1. /\ at = "risk_publish" /\ at' = "idle" /\ publish("risk", cur.inc)
        /\ UNCHANGED <<level, recommended>>
    BY <1>5 DEF risk_publish, HandlerEnds, storeVars
  <2>2. \A t : InQueue(t, i)' <=> InQueue(t, i) \/ (t = "risk" /\ i = cur.inc)
    BY <1>1, <2>1, PublishInQueue
  <2>3. SingleStage(i)'
    <3>1. CASE cur.inc # i
      BY <1>1, <2>1, <3>1, SingleOther DEF TokenInv, OneStageMessage
    <3>2. CASE cur.inc = i
      <4>1. NoStage(i)
        BY <2>1, <3>2 DEF TokenInv, OneStageMessage, Handling, TowardsStage
      <4> QED
        BY <1>1, <2>1, <4>1, SingleFirst
    <3> QED
      BY <3>1, <3>2
  <2>4. cur.inc = i => level[i] # 0 /\ ~recommended[i]
    BY <2>1 DEF TokenInv, StageOfToken, Handling
  <2> QED
    BY <1>1, <2>1, <2>2, <2>3, <2>4
    DEF TokenInv, ColumnsInOrder, Diagnosed, OneStageMessage, StageOfToken,
        Handling, TowardsStage
<1>6. CASE recommendation_read
  <2>1. /\ at = "plan_read" /\ UNCHANGED <<queue, level, recommended>>
        /\ \/ at' = "idle"
           \/ /\ at' = "plan_save" /\ UNCHANGED cur
              /\ level[cur.inc] # 0 /\ routed' = landing_status(level[cur.inc])
    BY <1>6 DEF recommendation_read, Goto, HandlerEnds, storeVars
  <2>2. CASE ~Handling(i, StageStep)'
    BY <1>1, <1>2, <2>1, <2>2, QuietStep
  <2>3. CASE Handling(i, StageStep)'
    <3>1. at' = "plan_save" /\ cur.inc = i /\ UNCHANGED cur /\ Handling(i, {"plan_read"})
      BY <2>1, <2>3 DEF Handling, StageStep, TowardsStage
    <3>2. ~recommended[i] /\ NoStage(i)
      BY <3>1 DEF TokenInv, StageOfToken, OneStageMessage, Handling, TowardsStage
    <3> QED
      BY <1>1, <1>2, <2>1, <3>1, <3>2
      DEF TokenInv, ColumnsInOrder, Diagnosed, OneStageMessage, StageOfToken, NoStage,
          Handling, TowardsStage
  <2> QED
    BY <2>2, <2>3
<1>7. CASE recommendation_save
  <2>1. /\ at = "plan_save" /\ at' = "plan_publish" /\ UNCHANGED <<queue, cur, level>>
        /\ recommended' = [recommended EXCEPT ![cur.inc] = TRUE]
    BY <1>7 DEF recommendation_save, save_recommendation, Goto
  <2>2. CASE cur.inc # i
    <3>1. recommended'[i] = recommended[i] /\ ~Handling(i, StageStep)'
      BY <2>1, <2>2 DEF TypeOK, StoreTypeOK, Handling
    <3> QED
      BY <1>1, <1>2, <2>1, <3>1, QuietStep
  <2>3. CASE cur.inc = i
    <3>1. level[i] # 0 /\ NoStage(i)
      BY <2>1, <2>3 DEF TokenInv, StageOfToken, OneStageMessage, Handling, TowardsStage
    <3>2. recommended'[i]
      BY <2>1, <2>3 DEF TypeOK, StoreTypeOK
    <3> QED
      BY <1>1, <1>2, <2>1, <2>3, <3>1, <3>2
      DEF TokenInv, ColumnsInOrder, Diagnosed, OneStageMessage, StageOfToken, NoStage,
          Handling, TowardsStage
  <2> QED
    BY <2>2, <2>3
<1>8. CASE recommendation_publish \/ trigger_recommendation_publish
  <2>1. /\ at \in {"plan_publish", "plan_publish_again"}
        /\ publish("recommendation", cur.inc)
        /\ UNCHANGED <<level, recommended>>
        /\ at' = "idle" \/ (at' = "plan_publish_again" /\ UNCHANGED cur)
    BY <1>8 DEF recommendation_publish, trigger_recommendation_publish, Goto,
       HandlerEnds, storeVars
  <2>2. \A t : InQueue(t, i)' <=> InQueue(t, i) \/ (t = "recommendation" /\ i = cur.inc)
    BY <1>1, <2>1, PublishInQueue
  <2>3. SingleStage(i)'
    BY <1>1, <2>1, SingleOther DEF TokenInv, OneStageMessage
  <2>4. cur.inc = i => recommended[i]
    BY <2>1 DEF TokenInv, StageOfToken, Handling
  <2> QED
    BY <1>1, <2>1, <2>2, <2>3, <2>4
    DEF TokenInv, ColumnsInOrder, Diagnosed, OneStageMessage, StageOfToken,
        Handling, TowardsStage
<1>9. CASE gate_read
  <2>1. /\ at = "gate_read" /\ UNCHANGED <<queue, level, recommended>>
        /\ \/ at' = "idle"
           \/ /\ at' = "gate_write" /\ UNCHANGED cur
              /\ routed' = landing_status(level[cur.inc])
    BY <1>9 DEF gate_read, Goto, HandlerEnds, storeVars
  <2>2. CASE ~Handling(i, StageStep)'
    BY <1>1, <1>2, <2>1, <2>2, QuietStep
  <2>3. CASE Handling(i, StageStep)'
    <3>1. at' = "gate_write" /\ cur.inc = i /\ UNCHANGED cur /\ Handling(i, {"gate_read"})
      BY <2>1, <2>3 DEF Handling, StageStep, TowardsStage
    <3>2. recommended[i]
      BY <3>1 DEF TokenInv, StageOfToken, Handling
    <3>3. level[i] # 0
      BY <3>2 DEF TokenInv, ColumnsInOrder
    <3> QED
      BY <1>1, <1>2, <2>1, <3>1, <3>2, <3>3
      DEF TokenInv, ColumnsInOrder, Diagnosed, OneStageMessage, StageOfToken, NoStage,
          Handling, TowardsStage
  <2> QED
    BY <2>2, <2>3
<1> QED
  BY <1>3, <1>4, <1>5, <1>6, <1>7, <1>8, <1>9 DEF Orchestrate, OrchestrationStep

\* Steps outside the pipeline's own handlers.
LEMMA TokenElsewhere ==
  ASSUME TypeOK, HandlerTopic, Execute \/ Detect \/ Decide \/ Follow \/ Crash \/ UNCHANGED vars,
         NEW i \in Incident, TokenInv(i)
  PROVE  TokenInv(i)'
<1>1. queue \in Seq(Message)
  BY DEF TypeOK, BusTypeOK
<1>2. UNCHANGED <<diagnosis, level, recommended>>
  BY DEF Execute, ExecutionStep, action_read, action_kinds, action_reconcile, action_pending,
     action_call, action_succeeded, action_failed, action_finish, action_raises,
     record_action_execution, save_action_result, transition_incident, Detect,
     upsert_incident, DetectionStep, publish_event, dead_letter, Decide, decision_check,
     resolve_check, RequestStep, decision_record, record_approval, decision_publish,
     decision_publish_fails, resolve_write, resolve_incident_manually, request_raises,
     Follow, poll_find, resolve_work_order, PollStep,
     poll_get, poll_get_fails, continue_with, poll_view, poll_audit, poll_close,
     close_incident_loop, poll_raises, Crash, storeVars, vars
<1>3. ~Handling(i, StageStep)' \/ UNCHANGED <<at, cur, routed>>
  <2>1. CASE Execute
    BY <2>1 DEF Execute, ExecutionStep, action_read, action_kinds, action_reconcile,
       action_pending, action_call, call_answered, call_answer_lost, call_not_received,
       call_rejected, retry_or_give_up, action_succeeded, action_failed, next_operation,
       action_finish, action_raises, Goto, HandlerEnds, Handling, StageStep, TowardsStage
  <2>2. CASE Crash
    BY <2>2 DEF Crash, HandlerEnds, Handling, StageStep, TowardsStage
  <2>3. CASE Detect \/ Decide \/ Follow \/ UNCHANGED vars
    BY <2>3 DEF Detect, upsert_incident, DetectionStep, publish_event, dead_letter, Decide,
       decision_check, resolve_check, RequestStep, decision_record, decision_publish,
       decision_publish_fails, resolve_write, request_raises, Follow, poll_find,
       resolve_work_order, PollStep,
       poll_get, poll_get_fails, continue_with, poll_view, poll_audit, poll_close, poll_raises,
       busVars, vars
  <2> QED
    BY <2>1, <2>2, <2>3
<1>4. SingleStage(i)' /\ \A t \in {"root_cause", "risk", "recommendation"} : InQueue(t, i)' => InQueue(t, i)
  <2>1. CASE UNCHANGED queue
    BY <2>1 DEF TokenInv, OneStageMessage, SingleStage, InQueue
  <2>2. CASE queue' = <<>>
    BY <2>2 DEF SingleStage, InQueue
  <2>3. ASSUME NEW t \in {"anomalies", "incident_approved"}, NEW j, publish(t, j)
        PROVE  /\ SingleStage(i)'
               /\ \A u \in {"root_cause", "risk", "recommendation"} :
                    InQueue(u, i)' => InQueue(u, i)
    <3>1. publish(t, j) /\ t \notin {"root_cause", "risk"} /\ SingleStage(i)
      BY <2>3 DEF TokenInv, OneStageMessage
    <3>2. SingleStage(i)'
      BY <1>1, <3>1, SingleOther
    <3>3. \A u : InQueue(u, i)' <=> InQueue(u, i) \/ (u = t /\ i = j)
      BY <1>1, <3>1, PublishInQueue
    <3> QED
      BY <3>2, <3>3
  <2>4. \/ UNCHANGED queue
        \/ queue' = <<>>
        \/ \E t \in {"anomalies", "incident_approved"} : \E j : publish(t, j)
    BY DEF Execute, ExecutionStep, action_read, action_kinds, action_reconcile,
       action_pending, action_call, action_succeeded, action_failed, action_finish,
       action_raises, Detect, upsert_incident, DetectionStep, publish_event, dead_letter,
       Decide, decision_check, resolve_check, RequestStep, decision_record,
       decision_publish, decision_publish_fails, resolve_write, request_raises, Follow,
       poll_find, resolve_work_order, PollStep,
       poll_get, poll_get_fails, continue_with, poll_view, poll_audit, poll_close,
       poll_raises, Crash, busVars, vars
  <2> QED
    BY <2>1, <2>2, <2>3, <2>4
<1> QED
  BY <1>2, <1>3, <1>4, QuietStep

-----------------------------------------------------------------------------
(* Theorems *)

\* An empty database and an empty bus satisfy the pipeline invariant.
LEMMA PipelineInit == Init => PipelineInv
BY DEF Init, StoreInit, BusInit, DetectionInit, OrchestratorInit, DecisionsInit, ActionInit,
   PipelineInv, HandlerTopic, KnownRows, Exists, NoRequest, KnowledgeStep, ActionStep,
   ColumnsInOrder, Diagnosed, OneStageMessage, SingleStage, NoStage, InQueue, Handling,
   TowardsStage, StageOfToken

\* Every step of the system preserves the pipeline invariant.
LEMMA PipelineStep == TypeOK /\ PipelineInv /\ [Next]_vars => PipelineInv'
<1> SUFFICES ASSUME TypeOK, PipelineInv, [Next]_vars
             PROVE  PipelineInv'
  OBVIOUS
<1>1. HandlerTopic' /\ KnownRows'
  BY HandlerTopicStep, KnownRowsStep DEF PipelineInv
<1>2. ASSUME NEW i \in Incident
      PROVE  TokenInv(i)'
  BY TokenDispatch, TokenDiagnose, TokenOrchestrate, TokenElsewhere
  DEF PipelineInv, TokenInv, Next
<1> QED
  BY <1>1, <1>2 DEF PipelineInv, TokenInv

\* Every incident's columns are filled once and in order, and what each place
\* of its token says about them holds, whatever messages are duplicated, lost
\* or interrupted (agents/root_cause to agents/recommendation).
THEOREM PipelineInvariant == Spec => []PipelineInv
<1>1. TypeOK /\ PipelineInv /\ [Next]_vars => PipelineInv'
  BY PipelineStep
<1> QED
  BY PipelineInit, <1>1, TypeCorrect, PTL DEF Spec

\* A diagnosis, once written, is never replaced (agents/root_cause/agent.py
\* handle reads the row and writes it in different awaits).
THEOREM DiagnosesOnce == Spec => DiagnosedOnce
<1> DEFINE Kept == \A i \in Incident : diagnosis[i] # "none" => diagnosis'[i] = diagnosis[i]
<1>1. TypeOK /\ PipelineInv /\ [Next]_vars => Kept
  <2> SUFFICES ASSUME TypeOK, PipelineInv, [Next]_vars, NEW i \in Incident,
                      diagnosis[i] # "none"
               PROVE  diagnosis'[i] = diagnosis[i]
    OBVIOUS
  <2>1. CASE UNCHANGED diagnosis
    BY <2>1
  <2>2. CASE root_cause_save
    <3>1. cur.inc # i
      BY <2>2 DEF PipelineInv, StageOfToken, Handling, root_cause_save
    <3> QED
      BY <2>2, <3>1 DEF root_cause_save, save_root_cause, TypeOK, StoreTypeOK
  <2> QED
    BY <2>1, <2>2, DiagnosisWrite
<1> QED
  BY <1>1, TypeCorrect, PipelineInvariant, PTL DEF Spec, DiagnosedOnce

\* Saved evidence is never removed.
LEMMA EvidenceStays ==
  ASSUME TypeOK, [Next]_vars, NEW i \in Incident, evidence[i]
  PROVE  evidence'[i]
<1>1. CASE Diagnose /\ knowledge_save
  BY <1>1 DEF knowledge_save, save_incident_evidence, TypeOK, StoreTypeOK
<1>2. CASE UNCHANGED evidence
  BY <1>2
<1>3. UNCHANGED evidence \/ (Diagnose /\ knowledge_save)
  BY DEF Next, Dispatch, Diagnose, DiagnosisStep, knowledge_publish, knowledge_raises,
     root_cause_read, root_cause_save, save_root_cause, root_cause_publish,
     root_cause_raises, Orchestrate, OrchestrationStep, risk_assess, save_risk_assessment,
     risk_publish, recommendation_read, recommendation_save, save_recommendation,
     recommendation_publish, trigger_recommendation_publish, gate_read, gate_write,
     transition_incident, orchestrator_raises, Execute, ExecutionStep, action_read,
     action_kinds, action_reconcile, save_action_result, action_pending,
     record_action_execution, action_call, action_succeeded, action_failed, action_finish,
     action_raises, Detect, upsert_incident, DetectionStep, publish_event, dead_letter,
     Decide, decision_check, resolve_check, RequestStep, decision_record, record_approval,
     decision_publish, decision_publish_fails, resolve_write, resolve_incident_manually,
     request_raises, Follow, poll_find, resolve_work_order, PollStep,
     poll_get, poll_get_fails, continue_with, poll_view,
     poll_audit, poll_close, close_incident_loop, poll_raises, Crash, vars, storeVars
<1> QED
  BY <1>1, <1>2, <1>3

\* Entering a step that needs evidence: by a message, or from the write.
LEMMA EvidenceEntered ==
  ASSUME TypeOK, HandlerTopic, [Next]_vars, "handler" \notin Faults, NEW i \in Incident,
         Handling(i, {"evidence_publish", "diagnose_read", "diagnose_save"})'
  PROVE  \/ Handling(i, {"evidence_publish", "diagnose_read", "diagnose_save"})
         \/ Diagnose /\ knowledge_save /\ cur.inc = i
         \/ Dispatch /\ InQueue("diagnosis", i)
<1> DEFINE Needs == {"evidence_publish", "diagnose_read", "diagnose_save"}
<1>1. CASE Dispatch
  <2>1. queue \in Seq(Message) /\ queue # <<>> /\ cur' = Head(queue)
    BY <1>1 DEF Dispatch, dispatch, TypeOK, BusTypeOK
  <2>2. InQueue(cur'.topic, cur'.inc) /\ cur' \in Message
    BY <2>1, HeadInQueue, TakeQueue
  <2>3. cur'.inc = i /\ cur'.topic = "diagnosis"
    BY <1>1, <2>2 DEF Dispatch, dispatch, first_step, Handling, Message, Topic
  <2> QED
    BY <1>1, <2>2, <2>3
<1>2. CASE Diagnose
  BY <1>2 DEF Diagnose, DiagnosisStep, knowledge_save, knowledge_publish,
     knowledge_raises, root_cause_read, root_cause_save, root_cause_publish,
     root_cause_raises, Goto, HandlerEnds, Handling
<1>3. CASE Orchestrate
  BY <1>3 DEF Orchestrate, OrchestrationStep, risk_assess, risk_publish,
     recommendation_read, recommendation_save, recommendation_publish,
     trigger_recommendation_publish, gate_read, gate_write, orchestrator_raises,
     Goto, HandlerEnds, Handling
<1>4. CASE Execute
  BY <1>4 DEF Execute, ExecutionStep, action_read, action_kinds, action_reconcile,
     action_pending, action_call, call_answered, call_answer_lost, call_not_received,
     call_rejected, retry_or_give_up, action_succeeded, action_failed, next_operation,
     action_finish, action_raises, Goto, HandlerEnds, Handling
<1>5. CASE Crash
  BY <1>5 DEF Crash, HandlerEnds, Handling
<1>6. CASE Detect \/ Decide \/ Follow \/ UNCHANGED vars
  <2>1. UNCHANGED <<at, cur>>
    BY <1>6 DEF Detect, upsert_incident, DetectionStep, publish_event, dead_letter,
       Decide, decision_check, resolve_check, RequestStep, decision_record,
       decision_publish, decision_publish_fails, resolve_write, request_raises, Follow,
       poll_find, resolve_work_order, PollStep,
       poll_get, poll_get_fails, continue_with, poll_view, poll_audit, poll_close,
       poll_raises, busVars, vars
  <2> QED
    BY <2>1 DEF Handling
<1> QED
  BY <1>1, <1>2, <1>3, <1>4, <1>5, <1>6 DEF Next

\* pgai.diagnosis is published by the Knowledge Agent, after its write.
LEMMA NudgeEvent ==
  ASSUME TypeOK, [Next]_vars, NEW i \in Incident, InQueue("diagnosis", i)'
  PROVE  InQueue("diagnosis", i) \/ Handling(i, {"evidence_publish"})
<1>1. queue \in Seq(Message)
  BY DEF TypeOK, BusTypeOK
<1>2. CASE UNCHANGED queue
  BY <1>2 DEF InQueue
<1>3. CASE queue' = <<>>
  BY <1>3 DEF InQueue
<1>4. CASE Dispatch
  <2>1. queue # <<>> /\ queue' = Tail(queue)
    BY <1>4 DEF Dispatch, dispatch
  <2> QED
    BY <1>1, <2>1, TakeInQueue
<1>5. ASSUME NEW t, t # "diagnosis", NEW j, publish(t, j)
      PROVE  InQueue("diagnosis", i)
  BY <1>1, <1>5, PublishInQueue
<1>6. CASE knowledge_publish
  <2>1. publish("diagnosis", cur.inc) /\ at = "evidence_publish"
    BY <1>6 DEF knowledge_publish
  <2> QED
    BY <1>1, <2>1, PublishInQueue DEF Handling
<1>7. \/ UNCHANGED queue \/ queue' = <<>> \/ Dispatch \/ knowledge_publish
      \/ \E t : t # "diagnosis" /\ \E j : publish(t, j)
  <2>1. CASE Diagnose
    BY <2>1 DEF Diagnose, DiagnosisStep, knowledge_save, knowledge_raises,
       root_cause_read, root_cause_save, root_cause_publish, root_cause_raises
  <2>2. CASE Orchestrate
    BY <2>2 DEF Orchestrate, OrchestrationStep, risk_assess, risk_publish,
       recommendation_read, recommendation_save, recommendation_publish,
       trigger_recommendation_publish, gate_read, gate_write, orchestrator_raises
  <2>3. CASE Execute
    BY <2>3 DEF Execute, ExecutionStep, action_read, action_kinds, action_reconcile,
       action_pending, action_call, action_succeeded, action_failed, action_finish,
       action_raises
  <2>4. CASE Detect
    BY <2>4 DEF Detect, upsert_incident, DetectionStep, publish_event, dead_letter, busVars
  <2>5. CASE Decide
    BY <2>5 DEF Decide, decision_check, resolve_check, RequestStep, decision_record,
       decision_publish, decision_publish_fails, resolve_write, request_raises, busVars
  <2>6. CASE Follow \/ Crash \/ UNCHANGED vars
    BY <2>6 DEF Follow, poll_find, resolve_work_order, PollStep,
       poll_get, poll_get_fails, continue_with, poll_view, poll_audit,
       poll_close, poll_raises, Crash, vars, busVars
  <2> QED
    BY <2>1, <2>2, <2>3, <2>4, <2>5, <2>6 DEF Next
<1> QED
  BY <1>2, <1>3, <1>4, <1>5, <1>6, <1>7

\* As long as no handler raises, every step preserves EvidenceInv.
LEMMA EvidenceStep ==
  ASSUME TypeOK, HandlerTopic, EvidenceInv, [Next]_vars, "handler" \notin Faults
  PROVE  EvidenceInv'
<1> SUFFICES ASSUME NEW i \in Incident,
                    \/ diagnosis'[i] # "none"
                    \/ InQueue("diagnosis", i)'
                    \/ Handling(i, {"evidence_publish", "diagnose_read", "diagnose_save"})'
             PROVE  evidence'[i]
  BY DEF EvidenceInv
<1>1. CASE evidence[i]
  BY <1>1, EvidenceStays
<1>2. CASE ~evidence[i]
  <2>1. /\ diagnosis[i] = "none" /\ ~InQueue("diagnosis", i)
        /\ ~Handling(i, {"evidence_publish", "diagnose_read", "diagnose_save"})
    BY <1>2 DEF EvidenceInv
  <2>2. ~InQueue("diagnosis", i)'
    BY <2>1, NudgeEvent DEF Handling
  <2>3. diagnosis'[i] = "none"
    <3>1. CASE root_cause_save
      <4>1. cur.inc # i
        BY <2>1, <3>1 DEF root_cause_save, Handling
      <4> QED
        BY <2>1, <3>1, <4>1 DEF root_cause_save, save_root_cause, TypeOK, StoreTypeOK
    <3> QED
      BY <2>1, <3>1, DiagnosisWrite
  <2>4. knowledge_save /\ cur.inc = i
    BY <2>1, <2>2, <2>3, EvidenceEntered
  <2> QED
    BY <2>4 DEF knowledge_save, save_incident_evidence, TypeOK, StoreTypeOK
<1> QED
  BY <1>1, <1>2

\* As long as no handler raises, evidence precedes the diagnosis: the Knowledge
\* Agent is subscribed first (main.py lifespan), and its nudge follows its write.
THEOREM EvidenceFirst ==
  ASSUME "handler" \notin Faults
  PROVE  Spec => []EvidenceBeforeDiagnosis
<1>1. Init => EvidenceInv
  BY DEF Init, StoreInit, BusInit, EvidenceInv, InQueue, Handling
<1>2. TypeOK /\ PipelineInv /\ EvidenceInv /\ [Next]_vars => EvidenceInv'
  BY EvidenceStep DEF PipelineInv
<1>3. EvidenceInv => EvidenceBeforeDiagnosis
  BY DEF EvidenceInv, EvidenceBeforeDiagnosis
<1> QED
  BY <1>1, <1>2, <1>3, TypeCorrect, PipelineInvariant, PTL DEF Spec
=============================================================================
