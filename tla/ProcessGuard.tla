----------------------------- MODULE ProcessGuard -----------------------------
(***************************************************************************)
(* The incident pipeline of the agent service, composed: the detection     *)
(* task, the single bus listener that runs the Knowledge, Root-Cause,      *)
(* Orchestrator/Risk/Recommendation and Action handlers, the HTTP          *)
(* decision endpoints, the resolution poll, the CMMS technicians, and the  *)
(* death of the process, which loses everything but the two databases.     *)
(***************************************************************************)
EXTENDS Diagnosis, Orchestrator, Decisions, ActionAgent

vars == <<storeVars, busVars, detectionVars, routed, request, exec, orderVars, poll>>

TypeOK ==
  /\ StoreTypeOK /\ BusTypeOK /\ DetectionTypeOK /\ OrchestratorTypeOK
  /\ DecisionsTypeOK /\ ActionTypeOK

Init ==
  /\ StoreInit /\ BusInit /\ DetectionInit /\ OrchestratorInit
  /\ DecisionsInit /\ ActionInit

Dispatch ==
  /\ dispatch
  /\ UNCHANGED <<storeVars, detectionVars, routed, request, exec, orderVars, poll>>

Diagnose ==
  /\ DiagnosisStep
  /\ UNCHANGED <<routed, request, exec, orderVars, poll>>

Orchestrate ==
  /\ OrchestrationStep
  /\ UNCHANGED <<detectionVars, request, exec, orderVars, poll>>

Execute ==
  /\ ExecutionStep
  /\ UNCHANGED <<detectionVars, routed, request>>

Detect ==
  /\ \/ \E e \in Equipment : upsert_incident(e)
     \/ DetectionStep
  /\ UNCHANGED <<routed, request, exec, orderVars, poll>>

Decide ==
  /\ \E c \in Client :
       \/ \E i \in Incident : \/ \E d \in Decision : decision_check(c, i, d)
                              \/ resolve_check(c, i)
       \/ RequestStep(c)
  /\ UNCHANGED <<detectionVars, routed, exec, orderVars, poll>>

Follow ==
  /\ \/ \E i \in Incident : \/ poll_find(i)
                            \/ \E k \in OpIndex : resolve_work_order(i, k)
     \/ PollStep
  /\ UNCHANGED <<detectionVars, routed, request>>

\* The agent-service process dies and is restarted: pub/sub messages, the
\* handler, the requests and the poll are gone; PostgreSQL and the CMMS stay.
Crash ==
  /\ "crash" \in Faults
  /\ queue' = <<>> /\ HandlerEnds
  /\ detected' = NoIncident
  /\ routed' = "none"
  /\ request' = [c \in Client |-> NoRequest]
  /\ exec' = NoExec
  /\ poll' = NoPoll
  /\ UNCHANGED <<storeVars, readings, orderVars>>

Next ==
  \/ Dispatch \/ Diagnose \/ Orchestrate \/ Execute
  \/ Detect \/ Decide \/ Follow \/ Crash

Spec == Init /\ [][Next]_vars

(***************************************************************************)
(* Fairness: an asyncio task that is not waiting for the environment is    *)
(* resumed, every database, bus, model and CMMS call being bounded by a    *)
(* timeout; the poll comes round every RESOLVE_POLL_SECONDS.  Nothing is   *)
(* assumed of readings, people or technicians.                             *)
(***************************************************************************)
Listen == Dispatch \/ Diagnose \/ Orchestrate \/ Execute

Fairness ==
  /\ WF_vars(Listen)
  /\ WF_vars(Detect /\ DetectionStep)
  /\ \A c \in Client : WF_vars(Decide /\ RequestStep(c))
  /\ WF_vars(Follow /\ PollStep)
  /\ \A i \in Incident : WF_vars(Follow /\ poll_find(i))

FairSpec == Spec /\ Fairness

-----------------------------------------------------------------------------
(* Safety *)

Decided(i) == \E a \in approvals : a.inc = i
Approved(i) == \E a \in approvals : a.inc = i /\ a.decision = "approved"

\* Every recorded decision was taken by someone of the incident's site whose
\* role reaches the level the incident has (not merely had when the request
\* was checked), on an incident that was diagnosed, needed a decision and
\* had a recommendation.  The check and the write of api/incidents.py
\* _record_decision are separate awaits, and so are those of the handlers
\* that set the level.
AuthorisedDecisions ==
  \A a \in approvals :
    /\ a.level = level[a.inc]
    /\ level[a.inc] >= 2
    /\ ensure_approval_level(a.by, level[a.inc])
    /\ ensure_site(a.by, a.inc)
    /\ recommended[a.inc]
    /\ diagnosis[a.inc] \in {"cause", "insufficient"}

\* Once a recommendation is up for decision, or decided, nothing that the
\* decider saw changes any more: not the operations, not the level, not the
\* diagnosis.  Duplicate anomaly events and nudges go on arriving, and each
\* could restart the pipeline (agents/root_cause/agent.py handle).
DecidedPlanIsFrozen ==
  [][\A i \in Incident :
       status[i] = "awaiting_approval" \/ Decided(i) =>
         /\ plan'[i] = plan[i]
         /\ level'[i] = level[i]
         /\ diagnosis'[i] = diagnosis[i]]_vars

\* An incident is diagnosed once, whatever the number of triggers, restarts
\* and failed attempts (the idempotency the docstring of handle claims).
DiagnosedOnce ==
  [][\A i \in Incident :
       diagnosis[i] # "none" => diagnosis'[i] = diagnosis[i]]_vars

\* A diagnosis that failed the citation check stays with people: the incident
\* is never assessed, recommended on, decided or acted on.
WithheldStaysWithHumans ==
  \A i \in Incident : diagnosis[i] = "withheld" =>
    /\ status[i] \in {"needs_human_review", "resolved"}
    /\ level[i] = 0
    /\ ~recommended[i]
    /\ ~Decided(i)

\* The gate message of a recommendation is still under way: published or
\* about to be.
GateOutstanding(i) ==
  \/ Pending("recommendation", i)
  \/ at \in {"plan_publish", "plan_publish_again"} /\ cur.inc = i

\* When the last gate message about an incident has been handled, no decision
\* taken since is put up for approval again by anything: handlers, polls,
\* late requests or restarts (_apply_hitl_gate is the only writer that can).
DecisionStandsOnceGateIsDrained ==
  [][\A i \in Incident :
       /\ Decided(i)
       /\ ~GateOutstanding(i)
       /\ status[i] # "awaiting_approval"
       => status'[i] # "awaiting_approval"]_vars

\* Every CMMS write is covered by an IncidentActions row written before it: a
\* 'pending' row accounts for at most Attempts writes, a 'succeeded' row for
\* at least one, and no attempt ends twice -- through lost answers, failed
\* database writes and crashes.
TruthfulExecutionRecord ==
  \A i \in Incident, k \in OpIndex :
    /\ actions[<<i, k, "succeeded">>] <= orders[<<i, k>>]
    /\ orders[<<i, k>>] <= Attempts * actions[<<i, k, "pending">>]
    /\ actions[<<i, k, "succeeded">>] + actions[<<i, k, "failed">>]
         <= actions[<<i, k, "pending">>]

\* No operation is sent to the CMMS again once its success is recorded,
\* however often the incident is approved again or the event is repeated.
NoWriteAfterRecordedSuccess ==
  [][\A i \in Incident, k \in OpIndex :
       orders'[<<i, k>>] # orders[<<i, k>>] => actions[<<i, k, "succeeded">>] = 0]_vars

\* The learning loop of an incident closes at most once, and only on a work
\* order that was executed for it and resolved in the CMMS -- although a
\* closed incident can be brought back to action_taken.
LoopClosesOnce ==
  \A i \in Incident :
    /\ loopClosed[i] <= 1
    /\ loopClosed[i] = 1 => Approved(i) /\ resolved_orders(i) # {}

\* Without faults the evidence is there before the diagnosis: the Knowledge
\* Agent precedes the Root-Cause Agent on every anomaly message.
EvidenceBeforeDiagnosis ==
  \A i \in Incident : diagnosis[i] # "none" => evidence[i]

\* The pipeline implements the human gate.
Gate == INSTANCE HumanGate WITH
  Case <- Incident,
  Person <- Client,
  Authority <- [c \in Client |-> max_approval_level[RoleOf[c]]],
  assessed <- level,
  granted <- {<<a.inc, a.by>> : a \in {b \in approvals : b.decision = "approved"}},
  acted <- {i \in Incident : \E k \in OpIndex : orders[<<i, k>>] > 0}

GateSpec == Gate!GateSpec

-----------------------------------------------------------------------------
(* Liveness, under Fairness *)

\* An approval whose event reached the bus is acted on or overtaken by
\* another decision: bounded CMMS retries never leave it 'approved'.
ApprovalIsActedOn ==
  \A i \in Incident :
    Pending("incident_approved", i) /\ status[i] = "approved"
      ~> status[i] # "approved"

\* Every opened incident leaves 'open'.
AnomalyIsDiagnosed ==
  \A i \in Incident : status[i] = "open" ~> status[i] # "open"

\* When the order on record of an incident is resolved in the CMMS, the
\* incident does not stay action_taken -- the first time, and provided the
\* CMMS answers the poll's requests from some time on: one that fails is
\* skipped until the next pass (_check_resolutions).
ResolvedOrderClosesIncident ==
  <>[][~poll_get_fails]_vars =>
    \A i \in Incident :
      status[i] = "action_taken" /\ resolved_orders(i) # {} /\ loopClosed[i] = 0
        ~> status[i] # "action_taken"

-----------------------------------------------------------------------------
(* What documents say and the code does not do *)

\* docs/failure-modes.md:51: exactly one open incident per equipment.
OneOpenIncidentPerEquipment ==
  \A i, j \in Incident :
    i[1] = j[1] /\ Unresolved(i) /\ Unresolved(j) => i = j

\* agents/action/agent.py:21 and :184: a failure becomes action_failed, and an
\* execution that has begun never leaves its incident silently stuck.
NeverSilentlyStuck ==
  \A i \in Incident : in_flight(i) /\ status[i] = "approved" ~> status[i] # "approved"
=============================================================================
