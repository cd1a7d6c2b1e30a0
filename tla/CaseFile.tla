------------------------------- MODULE CaseFile -------------------------------
(***************************************************************************)
(* One incident's row while it is investigated, and the bus listener whose *)
(* handlers read and write it.  The Detection Agent is another task: it    *)
(* rewrites the row's summary whenever a handler awaits.                   *)
(*                                                                         *)
(* The topics of the pipeline are those of EventBus; here an anomaly event *)
(* also carries the sensors it was published with, and the listener's      *)
(* other work on other incidents is left out.                              *)
(***************************************************************************)
EXTENDS Citations, Sequences

CONSTANTS
  FullSignature,   \* sensors of a full anomaly signature (5)
  Answers,         \* what a model may answer to a prompt for citations
  Raises,          \* whether database, bus and model calls may raise
  MaxReadings      \* bound: correlated readings in a behaviour

ASSUME CaseFileAssumption ==
  /\ FullSignature \in Nat
  /\ Answers \subseteq Answer
  /\ Raises \in BOOLEAN
  /\ MaxReadings \in Nat

Topic == {"anomalies", "diagnosis", "root_cause", "risk"}
Message == [topic : Topic, sensors : SUBSET Sensors]
NoMessage == [topic |-> "none", sensors |-> {}]

\* A diagnosis as recorded: whether its text names a cause, the citations,
\* and (for the properties) what the prompt contained.
Diagnosis == [kind : {"none", "cited", "insufficient", "withheld"},
              claim : BOOLEAN, cited : SUBSET Name, shown : Material]
NoMaterial == [sensors |-> {}, docs |-> {}]
NoDiagnosis == [kind |-> "none", claim |-> FALSE, cited |-> {}, shown |-> NoMaterial]

\* The first await of the first handler subscribed to each topic.
first_step ==
  [ anomalies  |-> "retrieve",
    diagnosis  |-> "diagnose_read",
    root_cause |-> "assess",
    risk       |-> "plan_read" ]

KnowledgeStep == {"retrieve", "evidence_save", "nudge"}
RootCauseStep == {"diagnose_read", "signature_wait", "evidence_wait", "generate",
                  "diagnosis_save", "diagnosis_publish"}
PlannerStep == {"assess", "plan_read", "chat", "tool", "plan_save"}

VARIABLES
  summary,     \* sensors of AnomalySummary; {}: not yet inserted
  evidence,    \* Evidence: whether saved, and its documents
  diagnosis,   \* RootCauseHypothesis, Confidence, CitedEvidence
  readings,    \* readings so far
  recorded,    \* history: everything the row has ever held
  queue, at, cur   \* the listener, as in EventBus

rowVars == <<summary, evidence, diagnosis, readings, recorded>>
listenerVars == <<queue, at, cur>>
caseVars == <<rowVars, listenerVars>>

\* Evidence as saved: its documents, or nothing at all.
Evidence == [saved : BOOLEAN, docs : SUBSET Docs]

CaseTypeOK ==
  /\ summary \in SUBSET Sensors
  /\ evidence \in Evidence
  /\ diagnosis \in Diagnosis
  /\ readings \in 0..MaxReadings
  /\ recorded \in SUBSET (Sensors \cup Docs)
  /\ queue \in Seq(Message)
  /\ at \in {"idle"} \cup KnowledgeStep \cup RootCauseStep \cup PlannerStep
  /\ cur \in Message \cup {NoMessage}
  /\ at = "idle" <=> cur = NoMessage

CaseInit ==
  /\ summary = {} /\ evidence = [saved |-> FALSE, docs |-> {}]
  /\ diagnosis = NoDiagnosis /\ readings = 0 /\ recorded = {}
  /\ queue = <<>> /\ at = "idle" /\ cur = NoMessage

\* The row as get_incident_diagnosis_state reads it.
row == [sensors |-> summary, evidence |-> evidence]
full(sensors) == Cardinality(sensors) >= FullSignature

publish(topic, sensors) ==
  queue' = Append(queue, [topic |-> topic, sensors |-> sensors])
Goto(step) == at' = step /\ UNCHANGED cur

\* Faulty variant: the message stays current after its last handler.
HandlerEnds_keeping_message == at' = "idle" /\ UNCHANGED cur

HandlerEnds == at' = "idle" /\ cur' = NoMessage

\* The listener takes the oldest message.
dispatch ==
  /\ at = "idle"
  /\ queue # <<>>
  /\ cur' = Head(queue)
  /\ queue' = Tail(queue)
  /\ at' = first_step[Head(queue).topic]
  /\ UNCHANGED rowVars

\* The Detection Agent: the sensors now correlated REPLACE the summary, and
\* the event carries them; a failing publish goes to the dead-letter log.
persist_incident(sensors) ==
  /\ readings < MaxReadings
  /\ readings' = readings + 1
  /\ sensors # {}
  /\ summary' = sensors
  /\ recorded' = recorded \cup sensors
  /\ \/ publish("anomalies", sensors)
     \/ Raises /\ UNCHANGED queue
  /\ UNCHANGED <<evidence, diagnosis, at, cur>>
=============================================================================
