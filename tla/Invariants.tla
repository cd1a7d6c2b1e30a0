------------------------------ MODULE Invariants ------------------------------
(***************************************************************************)
(* The inductive invariants behind the safety theorems of ProcessGuard.    *)
(* Every part is about one incident; what they add to the properties is    *)
(* where the pipeline's one token of an incident is (a stage message in    *)
(* the queue, or the handler of one), and what each place of it implies    *)
(* for the incident's row.                                                 *)
(***************************************************************************)
EXTENDS ProcessGuard

InQueue(t, i) == \E n \in 1..Len(queue) : queue[n] = [topic |-> t, inc |-> i]
Handling(i, steps) == cur.inc = i /\ at \in steps

-----------------------------------------------------------------------------
(* The pipeline *)

\* Each handler runs on messages of its own topic.
HandlerTopic ==
  /\ at \in KnowledgeStep => cur.topic = "anomalies"
  /\ at \in {"risk_save", "risk_publish"} => cur.topic = "root_cause"
  /\ at \in {"plan_read", "plan_save", "plan_publish", "plan_publish_again"}
       => cur.topic = "risk"
  /\ at \in {"gate_read", "gate_write"} => cur.topic = "recommendation"
  /\ at \in ActionStep => cur.topic = "incident_approved"

\* Events are about rows that exist.
KnownRows ==
  /\ \A n \in 1..Len(queue) : Exists(queue[n].inc)
  /\ at # "idle" => Exists(cur.inc)
  /\ detected # NoIncident => Exists(detected)
  /\ \A c \in Client : request[c].step # "idle" => Exists(request[c].inc)
  /\ \A i \in Incident : ~Exists(i) => diagnosis[i] = "none"

Diagnosed(i) == diagnosis[i] \in {"cause", "insufficient"}
StageMessage(i) == [topic : {"root_cause", "risk"}, inc : {i}]

\* Columns are filled in pipeline order.
ColumnsInOrder(i) ==
  /\ level[i] # 0 => Diagnosed(i)
  /\ recommended[i] => level[i] # 0

\* At most one stage message of an incident is queued, and none while a
\* handler works towards the next one.
SingleStage(i) ==
  \A m, n \in 1..Len(queue) :
    queue[m] \in StageMessage(i) /\ queue[n] \in StageMessage(i) => m = n
NoStage(i) == ~InQueue("root_cause", i) /\ ~InQueue("risk", i)
TowardsStage == {"diagnose_publish", "risk_save", "risk_publish", "plan_read", "plan_save"}

OneStageMessage(i) == SingleStage(i) /\ (Handling(i, TowardsStage) => NoStage(i))

\* What each place of the token says about the row.
StageOfToken(i) ==
  /\ Handling(i, {"diagnose_save"}) => diagnosis[i] = "none"
  /\ InQueue("root_cause", i) \/ Handling(i, {"diagnose_publish", "risk_save"})
       => Diagnosed(i) /\ level[i] = 0
  /\ InQueue("risk", i) \/ Handling(i, {"risk_publish"})
       => level[i] # 0 /\ ~recommended[i]
  /\ Handling(i, {"plan_read", "plan_save"}) => ~recommended[i]
  /\ InQueue("recommendation", i)
       \/ Handling(i, {"plan_publish", "plan_publish_again", "gate_read", "gate_write"})
       => recommended[i]
  /\ Handling(i, {"plan_save", "gate_write"})
       => level[i] # 0 /\ routed = landing_status(level[i])

PipelineInv ==
  /\ HandlerTopic
  /\ KnownRows
  /\ \A i \in Incident : ColumnsInOrder(i) /\ OneStageMessage(i) /\ StageOfToken(i)

\* Everything behind the Knowledge Agent's write comes after it; true as long
\* as no handler raises.
EvidenceInv ==
  \A i \in Incident :
    \/ diagnosis[i] # "none"
    \/ InQueue("diagnosis", i)
    \/ Handling(i, {"evidence_publish", "diagnose_read", "diagnose_save"})
    => evidence[i]

-----------------------------------------------------------------------------
(* Decisions *)

Entitled(c, i) ==
  /\ recommended[i]
  /\ level[i] >= 2
  /\ ensure_approval_level(c, level[i])
  /\ ensure_site(c, i)

DecisionInv ==
  /\ \A i \in Incident :
       status[i] = "awaiting_approval" => recommended[i] /\ level[i] >= 2
  /\ \A c \in Client : request[c].step = "record" =>
       /\ Entitled(c, request[c].inc)
       /\ request[c].level = level[request[c].inc]
  /\ \A a \in approvals : Entitled(a.by, a.inc) /\ a.level = level[a.inc]

\* Whatever leads to an external write comes after an approval.
ApprovalFirst ==
  /\ \A i \in Incident :
       InQueue("incident_approved", i) \/ Handling(i, ActionStep) => Approved(i)
  /\ \A c \in Client : request[c].step = "publish" => Approved(request[c].inc)
  /\ \A i \in Incident, k \in OpIndex : orders[<<i, k>>] > 0 => Approved(i)

-----------------------------------------------------------------------------
(* Execution *)

LoopStep == {"action_pending", "action_call", "action_succeeded", "action_failed"}

\* Operations are executed in order, none of those ahead has succeeded yet.
OperationOrder ==
  /\ at \notin LoopStep \cup {"action_finish"} => exec = NoExec
  /\ at = "action_pending" => exec.try = 1
  /\ at \in LoopStep =>
       /\ exec.op \in 1..Len(plan[cur.inc])
       /\ \A k \in OpIndex : k >= exec.op => actions[<<cur.inc, k, "succeeded">>] = 0

\* The record of an operation, with what the call in progress may still add.
Accounted(i, k) ==
  LET calling == Handling(i, {"action_call"}) /\ exec.op = k
      ended == Handling(i, {"action_succeeded", "action_failed"}) /\ exec.op = k
  IN  /\ actions[<<i, k, "succeeded">>] <= orders[<<i, k>>]
      /\ at = "action_succeeded" /\ ended => orders[<<i, k>>] > 0
      /\ orders[<<i, k>>] + (IF calling THEN Attempts - exec.try + 1 ELSE 0)
           <= Attempts * actions[<<i, k, "pending">>]
      /\ actions[<<i, k, "succeeded">>] + actions[<<i, k, "failed">>]
           + (IF calling \/ ended THEN 1 ELSE 0) <= actions[<<i, k, "pending">>]

ExecutionInv ==
  /\ OperationOrder
  /\ \A i \in Incident, k \in OpIndex : Accounted(i, k)

\* What the poll asks for is recorded as executed, it goes on from there only
\* with a resolved order, and what it is about to close is not closed.
PollInv ==
  /\ poll.step # "idle" => poll.todo \subseteq executed_ops(poll.inc)
  /\ poll.step \in {"view", "audit", "close"} => resolved_orders(poll.inc) # {}
  /\ poll.step = "close" => loopClosed[poll.inc] = 0
  /\ \A i \in Incident :
       /\ loopClosed[i] <= 1
       /\ loopClosed[i] = 1 => resolved_orders(i) # {}
=============================================================================
