----------------------------- MODULE SensorStream -----------------------------
(***************************************************************************)
(* The ingestion stage: the Redis Stream "sensor-readings" with its        *)
(* consumer group, the producer's XADDs, and the Detection Agent's         *)
(* consumer task (agents/detection/agent.py consume_forever and what it    *)
(* calls), with the in-memory correlation buffer of                        *)
(* agents/detection/scoring.py.  Its output, a correlated anomaly that is  *)
(* persisted, is what module Diagnosis takes as upsert_incident.           *)
(*                                                                         *)
(* A stream entry is named by its position.  Whether a reading is          *)
(* anomalous (static band, drift from the baseline) is decided when it is  *)
(* emitted; time is an integer clock.                                      *)
(***************************************************************************)
EXTENDS Integers, Sequences, FiniteSets, SequencesExt

CONSTANTS
  Sensor,
  Registry,      \* the rows of "Sensors", in the order the query returns them
  EquipmentOf,   \* the equipment of each sensor
  ReadCount,     \* count= of XREADGROUP
  MaxLen,        \* MAXLEN ~ of XADD
  Window,        \* DETECTION_CORRELATION_WINDOW_SECONDS
  MaxGap,        \* DETECTION_MAX_GAP_SECONDS
  EmitDelay,     \* how old a timestamp may be when its XADD executes
  MaxEmissions,  \* bound: emissions in a behaviour
  MaxTime,       \* bound: the clock
  Faults

ASSUME StreamAssumption ==
  /\ Registry \in Seq(Sensor) /\ DOMAIN EquipmentOf = Sensor
  /\ ReadCount \in Nat \ {0} /\ MaxLen \in Nat \ {0}
  /\ Window \in Nat /\ MaxGap \in Nat /\ EmitDelay \in Nat
  /\ MaxEmissions \in Nat /\ MaxTime \in Nat
  /\ Faults \subseteq {"read", "process", "ack", "crash", "shutdown"}

VARIABLES
  now,
  entries,     \* every entry ever added, in stream order
  first,       \* position of the oldest entry the stream still holds
  delivered,   \* the group's last-delivered position
  pel,         \* the group's pending entries: delivered, not acknowledged
  batch,       \* local: entries read and not yet handled, in order
  step,        \* where the consumer task is
  buffer,      \* local: _correlation_buffer, positions of anomalous readings; its
               \* order is theirs
  found,       \* local: the correlated anomaly being persisted
  scored,      \* history: entries scored, in the order they were
  dropped,     \* history: entries given up without being scored
  inherited    \* history: how many entries earlier processes had scored

transportVars == <<entries, first, delivered>>
vars == <<now, transportVars, pel, batch, step, buffer, found, scored, dropped, inherited>>

Reading == [sensor : Sensor, at : 0..MaxTime, anomalous : BOOLEAN]
Position == 1..(MaxEmissions * Len(Registry))

StreamTypeOK ==
  /\ now \in 0..MaxTime
  /\ entries \in Seq(Reading) /\ Len(entries) \in 0..(MaxEmissions * Len(Registry))
  /\ first \in 1..(Len(entries) + 1)
  /\ delivered \in 0..Len(entries)
  /\ pel \subseteq 1..delivered
  /\ batch \in Seq(1..delivered)
  /\ step \in {"read", "score", "persist", "ack"}
  /\ step = "read" <=> batch = <<>>
  /\ step = "persist" <=> found # {}
  /\ buffer \cup found \subseteq ToSet(scored)
  /\ ToSet(scored) \cup dropped \subseteq 1..delivered
  /\ inherited \in 0..Len(scored)

Init ==
  /\ now = 0
  /\ entries = <<>> /\ first = 1 /\ delivered = 0 /\ pel = {}
  /\ batch = <<>> /\ step = "read" /\ buffer = {} /\ found = {}
  /\ scored = <<>> /\ dropped = {} /\ inherited = 0

at(i) == entries[i].at
equipment(i) == EquipmentOf[entries[i].sensor]

-----------------------------------------------------------------------------
(* The producer and the stream *)

tick ==
  /\ now < MaxTime
  /\ now' = now + 1
  /\ UNCHANGED <<transportVars, pel, batch, step, buffer, found, scored, dropped, inherited>>

\* _emit_all_sensors: one entry per sensor with one timestamp, taken before
\* the pipeline is executed.  MAXLEN is approximate: at least MaxLen entries
\* survive, and possibly more.
emit_all_sensors ==
  /\ Len(entries) < MaxEmissions * Len(Registry)
  /\ \E t \in {u \in 0..now : now - u <= EmitDelay}, bad \in SUBSET Sensor :
       entries' = entries \o [k \in 1..Len(Registry) |->
         [sensor |-> Registry[k], at |-> t, anomalous |-> Registry[k] \in bad]]
  /\ \E oldest \in first..(Len(entries) + Len(Registry) + 1) :
       /\ Len(entries) + Len(Registry) - oldest + 1 >= MaxLen \/ oldest = first
       /\ first' = oldest
  /\ UNCHANGED <<now, delivered, pel, batch, step, buffer, found, scored, dropped, inherited>>

-----------------------------------------------------------------------------
(* Correlation: agents/detection/scoring.py correlate_anomalies *)

\* One turn of its loop: the next observation joins the last cluster when it
\* is within the window of that cluster's last observation.
link(clusters, i) ==
  IF clusters # <<>> /\ at(i) - at(Last(Last(clusters))) <= Window
    THEN Append(Front(clusters), Append(Last(clusters), i))
    ELSE Append(clusters, <<i>>)

\* The observations of an equipment.
by_equipment(buf, e) == {i \in buf : equipment(i) = e}

\* sorted(key=observed_at) is stable: readings of one time stay in the order
\* of arrival, which is that of their positions.
before(i, j) == at(i) < at(j) \/ (at(i) = at(j) /\ i < j)

\* Faulty variant: in the order of arrival, without the sort.
in_arrival_order(S) ==
  CHOOSE s \in [1..Cardinality(S) -> S] : \A m, n \in DOMAIN s : m < n => s[m] < s[n]

chronological(S) ==
  CHOOSE s \in [1..Cardinality(S) -> S] : \A m, n \in DOMAIN s : m < n => before(s[m], s[n])

freshest_cluster(buf, e) ==
  LET observations == chronological(by_equipment(buf, e))
  IN  IF observations = <<>> THEN <<>> ELSE Last(FoldLeft(link, <<>>, observations))

\* The correlated anomaly of an equipment; none when it has gone stale.
correlate(buf, e) ==
  LET freshest == freshest_cluster(buf, e)
  IN  IF freshest # <<>> /\ now - at(Last(freshest)) <= MaxGap
        THEN ToSet(freshest) ELSE {}

\* Faulty variant: pruned at the gap itself.
prune_at_gap(buf) == {i \in buf : at(i) > now - MaxGap}

\* _prune_buffer keeps what is younger than three times the gap.
prune(buf) == {i \in buf : at(i) > now - 3 * MaxGap}

-----------------------------------------------------------------------------
(* The consumer task *)

\* Faulty variant: pending entries are read again first.
unread_from_pending ==
  IF pel # {} THEN CHOOSE i \in pel : \A j \in pel : i <= j
  ELSE IF first > delivered THEN first ELSE delivered + 1

\* Where ">" reads on: past the group's cursor, past what was trimmed.
unread_from == IF first > delivered THEN first ELSE delivered + 1

taken ==
  LET unread == Len(entries) - unread_from + 1
  IN  [k \in 1..(IF unread < ReadCount THEN unread ELSE ReadCount) |-> unread_from + k - 1]

\* Faulty variant: XREADGROUP ... NOACK.
serve_group_noack ==
  /\ unread_from <= Len(entries)
  /\ delivered' = Last(taken)
  /\ UNCHANGED pel

\* Faulty variant: waits for a full count.
serve_group_full ==
  /\ unread_from + ReadCount - 1 <= Len(entries)
  /\ delivered' = Last(taken)
  /\ pel' = pel \cup ToSet(taken)

\* What the server does: up to ReadCount new entries become pending.
serve_group ==
  /\ unread_from <= Len(entries)
  /\ delivered' = Last(taken)
  /\ pel' = pel \cup ToSet(taken)

xreadgroup ==
  /\ step = "read"
  /\ serve_group
  /\ batch' = taken
  /\ step' = "score"
  /\ UNCHANGED <<now, entries, first, buffer, found, scored, dropped, inherited>>

\* The answer is lost: "Stream read failed", a second's sleep, and on.
xreadgroup_fails ==
  /\ "read" \in Faults
  /\ step = "read"
  /\ serve_group
  /\ UNCHANGED <<now, entries, first, batch, step, buffer, found, scored, dropped, inherited>>

\* _process_reading: baseline, evidence row and score; an anomalous reading
\* joins the buffer, which is pruned and correlated without an await between.
process_reading ==
  /\ step = "score"
  /\ LET i == Head(batch)
         buf == prune(buffer \cup {i})
     IN  /\ scored' = Append(scored, i)
         /\ IF entries[i].anomalous
              THEN buffer' = buf /\ found' = correlate(buf, equipment(i))
              ELSE UNCHANGED <<buffer, found>>
  /\ step' = IF found' # {} THEN "persist" ELSE "ack"
  /\ UNCHANGED <<now, transportVars, pel, batch, dropped, inherited>>

\* It raises, or the entry is malformed or of an unknown sensor: logged only.
process_raises ==
  /\ "process" \in Faults
  /\ step = "score"
  /\ dropped' = dropped \cup {Head(batch)}
  /\ step' = "ack"
  /\ UNCHANGED <<now, transportVars, pel, batch, buffer, found, scored, inherited>>

\* _persist_incident: written and published, or dead-lettered (module
\* Diagnosis tells these apart); it never raises.
persist_incident ==
  /\ step = "persist"
  /\ found' = {}
  /\ step' = "ack"
  /\ UNCHANGED <<now, transportVars, pel, batch, buffer, scored, dropped, inherited>>

\* Faulty variant: does not notice the end of the batch.
NextMessage_always ==
  /\ batch' = Tail(batch)
  /\ step' = "score"

NextMessage ==
  /\ batch' = Tail(batch)
  /\ step' = IF Tail(batch) = <<>> THEN "read" ELSE "score"

xack ==
  /\ step = "ack"
  /\ pel' = pel \ {Head(batch)}
  /\ NextMessage
  /\ UNCHANGED <<now, transportVars, buffer, found, scored, dropped, inherited>>

xack_fails ==
  /\ "ack" \in Faults
  /\ step = "ack"
  /\ NextMessage
  /\ UNCHANGED <<now, transportVars, pel, buffer, found, scored, dropped, inherited>>

\* A new process: start() finds the group (BUSYGROUP) and its cursor.
Restarted ==
  /\ batch' = <<>> /\ step' = "read" /\ buffer' = {} /\ found' = {}
  /\ inherited' = Len(scored)
  /\ UNCHANGED <<now, transportVars, scored>>

crash ==
  /\ "crash" \in Faults
  /\ Restarted
  /\ UNCHANGED <<pel, dropped>>

\* The lifespan cancels the task: the finally clause still acknowledges the
\* message that was being processed.
shutdown ==
  /\ "shutdown" \in Faults
  /\ step \in {"score", "persist"}
  /\ Restarted
  /\ pel' = pel \ {Head(batch)}
  /\ dropped' = IF step = "score" THEN dropped \cup {Head(batch)} ELSE dropped

ConsumerStep ==
  \/ xreadgroup \/ xreadgroup_fails \/ process_raises \/ process_reading \/ persist_incident
  \/ xack \/ xack_fails

Next == tick \/ emit_all_sensors \/ ConsumerStep \/ crash \/ shutdown

Spec == Init /\ [][Next]_vars

\* The consumer is a task that only waits for Redis and PostgreSQL calls,
\* all of which end.  Nothing is assumed of the producer or the clock.
FairSpec == Spec /\ WF_vars(ConsumerStep)

-----------------------------------------------------------------------------
(* Properties *)

\* Readings are scored in stream order and each at most once, across crashes,
\* shutdowns and lost acknowledgements: ">" never delivers an entry twice, so
\* no baseline sees a value twice.
ScoredOnceInOrder ==
  \A m, n \in 1..Len(scored) : m < n => scored[m] < scored[n]

\* No reading leaves the group's hands unnoticed: what was delivered is still
\* pending, or was scored, or was given up by a handler that raised.
NothingAcknowledgedUnhandled ==
  \A i \in first..delivered : i \in pel \cup ToSet(scored) \cup dropped

\* Anomalous readings this process has scored.
seen == {scored[n] : n \in {m \in 1..Len(scored) :
           m > inherited /\ entries[scored[m]].anomalous}}

\* docs/ingestion-pipeline.md, Correlation window logic, said of everything
\* this process scored rather than of a buffer: the readings of an equipment
\* (of the last three gaps) from which the newest one is reached without a
\* silence longer than the window.
LiveChain(e) ==
  LET mine == {i \in seen : equipment(i) = e /\ at(i) > now - 3 * MaxGap}
  IN  {i \in mine : \A j \in mine : at(j) >= at(i) =>
         \/ \A k \in mine : at(k) <= at(j)
         \/ \E k \in mine : at(k) > at(j) /\ at(k) - at(j) <= Window}

\* The anomaly that is persisted after a reading is scored is the whole live
\* chain of its equipment -- whatever the order of the timestamps, the pruning
\* and what was persisted or dead-lettered before.
PersistsTheLiveChain ==
  [][step = "score" /\ step' = "persist" =>
       (found = LiveChain(equipment(Head(batch))))']_vars

\* A reading that is anomalous and no older than the gap when it is scored is
\* in the anomaly that is persisted: a busy consumer does not lose it, nor does
\* a late XADD, unless it is later than the window and newer readings overtake it.
FreshAnomalyIsPersisted ==
  [][\A i \in ToSet(scored') \ ToSet(scored) :
       entries[i].anomalous /\ now - at(i) <= MaxGap => i \in found']_vars

\* No reading waits for ever: whatever faults there are, each comes to be scored,
\* given up by a handler that raised, stranded by a fault in the pending list,
\* or trimmed before it was read.
ReadingIsTaken ==
  \A i \in Position :
    Len(entries) >= i ~> i \in ToSet(scored) \cup dropped \cup (pel \ ToSet(batch)) \/ i < first

\* docs/failure-modes.md:74: entries read but not acknowledged before a crash
\* are redelivered.
PendingIsRedelivered ==
  \A i \in Position :
    i \in pel ~> i \in ToSet(scored) \cup dropped
=============================================================================
