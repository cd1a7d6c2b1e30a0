------------------------------- MODULE EventBus -------------------------------
(***************************************************************************)
(* eventbus/base.py: Redis pub/sub with ONE listener task.  Messages of    *)
(* all topics arrive in publication order; the listener awaits the         *)
(* handlers of a message one after the other before it takes the next, so  *)
(* handlers never run concurrently with each other.  Nothing is            *)
(* redelivered.                                                            *)
(*                                                                         *)
(* pgai.stage_completed appears as three topics, named after its stages;   *)
(* topics without a subscriber that acts are left out.                     *)
(***************************************************************************)
EXTENDS IncidentStore

CONSTANT Faults   \* which faults a run admits

ASSUME FaultsAssumption == Faults \subseteq {"handler", "publish", "cmms", "crash"}

Topic == {"anomalies", "diagnosis", "root_cause", "risk", "recommendation",
          "incident_approved"}
Message == [topic : Topic, inc : Incident]
NoMessage == [topic |-> "none", inc |-> NoIncident]

\* Faulty variant: the Root-Cause Agent is subscribed before the Knowledge one.
first_step_root_cause_first ==
  [ anomalies         |-> "diagnose_read",
    diagnosis         |-> "diagnose_read",
    root_cause        |-> "risk_save",
    risk              |-> "plan_read",
    recommendation    |-> "gate_read",
    incident_approved |-> "action_read" ]

\* The first await of the first handler subscribed to each topic
\* (subscription order: main.py).
first_step ==
  [ anomalies         |-> "evidence_save",
    diagnosis         |-> "diagnose_read",
    root_cause        |-> "risk_save",
    risk              |-> "plan_read",
    recommendation    |-> "gate_read",
    incident_approved |-> "action_read" ]

KnowledgeStep == {"evidence_save", "evidence_publish"}
RootCauseStep == {"diagnose_read", "diagnose_save", "diagnose_publish"}
OrchestratorStep == {"risk_save", "risk_publish", "plan_read", "plan_save",
                     "plan_publish", "plan_publish_again", "gate_read",
                     "gate_write"}
ActionStep == {"action_read", "action_kinds", "action_reconcile",
               "action_pending", "action_call", "action_succeeded",
               "action_failed", "action_finish"}

VARIABLES
  queue,   \* published messages the listener has not taken
  at,      \* where the listener task is suspended
  cur      \* the message it is dispatching

busVars == <<queue, at, cur>>

BusTypeOK ==
  /\ queue \in Seq(Message)
  /\ at \in {"idle"} \cup KnowledgeStep \cup RootCauseStep
                     \cup OrchestratorStep \cup ActionStep
  /\ cur \in Message \cup {NoMessage}
  /\ at = "idle" <=> cur = NoMessage

BusInit == queue = <<>> /\ at = "idle" /\ cur = NoMessage

publish(topic, i) == queue' = Append(queue, [topic |-> topic, inc |-> i])

Goto(step) == at' = step /\ UNCHANGED cur
\* Faulty variant: the message stays current after its last handler.
HandlerEnds_keeping_message == at' = "idle" /\ UNCHANGED cur

HandlerEnds == at' = "idle" /\ cur' = NoMessage

\* _listen / _dispatch: take the oldest message, enter its first handler.
dispatch ==
  /\ at = "idle"
  /\ queue # <<>>
  /\ cur' = Head(queue)
  /\ queue' = Tail(queue)
  /\ at' = first_step[Head(queue).topic]

\* Messages of a topic about an incident, queued or being dispatched.
Pending(topic, i) ==
  \/ cur = [topic |-> topic, inc |-> i]
  \/ \E n \in 1..Len(queue) : queue[n] = [topic |-> topic, inc |-> i]
=============================================================================
