------------------------------- MODULE Scoring --------------------------------
(***************************************************************************)
(* From a reading to the people it needs: the rolling baseline in Redis    *)
(* (agents/detection/agent.py _update_baseline), score_reading and         *)
(* severity_from_score (agents/detection/scoring.py), and the Risk Agent's *)
(* own severity and HITL level (agents/risk/agent.py).                     *)
(*                                                                         *)
(* Values are integers and every comparison is exact: of n values with sum *)
(* S and sum of squares Q, x is z sigmas off the mean when                 *)
(* z * z * (n*Q - S*S) = (n*x - S) * (n*x - S).  With integers the floor   *)
(* of sigma (1e-3) only matters when all values are equal, and z is 0.     *)
(***************************************************************************)
EXTENDS HitlPolicy, FiniteSets, SequencesExt

CONSTANTS
  Sensor,
  Value,          \* bound: the values sensors report
  NormalMin, NormalMax,
  WindowSize,     \* DETECTION_WINDOW_SIZE
  StaticPercent,  \* DETECTION_STATIC_Z, in percent of the band
  DriftZ,         \* DETECTION_DRIFT_Z
  RiskScale,      \* severity_thresholds of the risk table, margins in percent
  Confidences,    \* bound: the confidences a diagnosis may carry
  MaxReadings     \* bound: readings in a behaviour

ASSUME ScoringAssumption ==
  /\ NormalMin \in Int /\ NormalMax \in Int /\ NormalMin < NormalMax
  /\ WindowSize \in Nat \ {0}
  /\ Value \subseteq Int /\ StaticPercent \in Nat /\ DriftZ \in Nat /\ MaxReadings \in Nat
  /\ Confidences \subseteq Confidence
  /\ RiskScale \in [static_margin_high : Nat \ {0}, drift_z_high : Nat \ {0},
                    medium_percent : 1..100]

\* The risk table calls nothing low that is high for Detection.
ASSUME ScalesAgree ==
  /\ RiskScale.medium_percent * RiskScale.static_margin_high <= 100 * 50
  /\ RiskScale.medium_percent * RiskScale.drift_z_high <= 100 * 10

VARIABLES
  readings,   \* how many readings there were
  baseline,   \* Redis "baseline:{sensor}", newest first
  latest,     \* the sensor scored last and its score
  summary,    \* AnomalySummary: the scores of the flagged sensors
  severity,   \* the incident's severity, "none" before there is one
  assessing,  \* locals of RiskAgent.handle from its read to its write
  assessment  \* the incident's risk columns; `of` is history: the summary
              \* they were made from

detectionVars == <<readings, baseline, latest, summary, severity>>
vars == <<detectionVars, assessing, assessment>>

None == [severity |-> "none"]
NoReading == [sensor |-> "none"]
Score == [overshoot : Nat, far : Nat, spread : Nat]
band == NormalMax - NormalMin

Init ==
  /\ readings = 0
  /\ baseline = [s \in Sensor |-> <<>>]
  /\ latest = NoReading
  /\ summary = [s \in {} |-> <<>>] /\ severity = "none"
  /\ assessing = None /\ assessment = None

-----------------------------------------------------------------------------
(* Scoring *)

sum(w) == FoldLeft(LAMBDA acc, x : acc + x, 0, w)
square_sum(w) == sum([k \in DOMAIN w |-> w[k] * w[k]])

\* compute_baseline: n * n times the variance.
spread(w) == Len(w) * square_sum(w) - sum(w) * sum(w)

\* n * n times the squared distance of x from the mean.
far(x, w) == (Len(w) * x - sum(w)) * (Len(w) * x - sum(w))

overshoot(x) ==
  IF x < NormalMin THEN NormalMin - x ELSE IF x > NormalMax THEN x - NormalMax ELSE 0

score_reading(x, w) == [overshoot |-> overshoot(x), far |-> far(x, w), spread |-> spread(w)]

static_anomaly(sc) == 100 * sc.overshoot > StaticPercent * band
drift_anomaly(sc) == sc.far > DriftZ * DriftZ * sc.spread

\* The score is at least p percent of a margin (in percent) or of z sigmas.
reaches(sc, margin, z, p) ==
  \/ sc.overshoot > 0 /\ 100 * 100 * sc.overshoot >= p * margin * band
  \/ sc.spread > 0 /\ 100 * 100 * sc.far >= p * z * p * z * sc.spread

severity_on(scores, margin, z, medium) ==
  IF \E sc \in scores : reaches(sc, margin, z, 100) THEN "high"
  ELSE IF \E sc \in scores : reaches(sc, margin, z, medium) THEN "medium"
  ELSE "low"

\* scoring.py: half the band or ten sigmas.
severity_from_score(scores) == severity_on(scores, 50, 10, 30)

\* Faulty variant: the medium threshold is forgotten.
severity_from_high_only(scores) ==
  IF \E sc \in scores : reaches(sc, RiskScale.static_margin_high, RiskScale.drift_z_high, 100)
    THEN "high" ELSE "low"

\* RiskAgent._severity_from: the same over the table's thresholds.
severity_from(scores) ==
  severity_on(scores, RiskScale.static_margin_high, RiskScale.drift_z_high,
              RiskScale.medium_percent)

-----------------------------------------------------------------------------
(* Actions *)

scores_of(sm) == {sm[s] : s \in DOMAIN sm}

\* Faulty variant: scored against the baseline without the reading itself.
scored_against_before(old, new) == old

\* _update_baseline returns the list with the reading in it.
scored_against(old, new) == new

\* LPUSH and LTRIM.
pushed(list, x) ==
  SubSeq(<<x>> \o list, 1, IF Len(list) < WindowSize THEN Len(list) + 1 ELSE WindowSize)

\* _process_reading: the baseline, then the score; an anomalous reading goes
\* to the incident with what is still in its cluster (module SensorStream has
\* the clusters), unless it is stale or dead-lettered.
process_reading(s, x) ==
  LET window == pushed(baseline[s], x)
      sc     == score_reading(x, scored_against(baseline[s], window))
  IN  /\ readings < MaxReadings
      /\ readings' = readings + 1
      /\ baseline' = [baseline EXCEPT ![s] = window]
      /\ latest' = [sensor |-> s, score |-> sc]
      /\ \/ /\ static_anomaly(sc) \/ drift_anomaly(sc)
            /\ \E cluster \in SUBSET (DOMAIN summary \ {s}) :
                 summary' = [t \in cluster \cup {s} |-> IF t = s THEN sc ELSE summary[t]]
            /\ severity' = severity_from_score(scores_of(summary'))
         \/ UNCHANGED <<summary, severity>>
      /\ UNCHANGED <<assessing, assessment>>

\* BASELINE_TTL_SECONDS without a reading of the sensor.
baseline_expires(s) ==
  /\ baseline[s] # <<>>
  /\ baseline' = [baseline EXCEPT ![s] = <<>>]
  /\ UNCHANGED <<readings, latest, summary, severity, assessing, assessment>>

\* RiskAgent.handle up to its write: one read of the row, with the confidence
\* of the diagnosis, and everything computed from it.
risk_read(confidence) ==
  /\ severity # "none"
  /\ assessing = None
  /\ LET risk == severity_from(scores_of(summary))
     IN  assessing' = [severity |-> risk, confidence |-> confidence,
                       level |-> hitl_level_for(risk, confidence), of |-> summary]
  /\ UNCHANGED <<detectionVars, assessment>>

\* save_risk_assessment, whatever Detection has made of the row meanwhile.
risk_save ==
  /\ assessing # None
  /\ assessment' = assessing
  /\ assessing' = None
  /\ UNCHANGED detectionVars

\* The write raises, or the process dies.
risk_raises ==
  /\ assessing # None
  /\ assessing' = None
  /\ UNCHANGED <<detectionVars, assessment>>

Next ==
  \/ \E s \in Sensor, x \in Value : process_reading(s, x)
  \/ \E s \in Sensor : baseline_expires(s)
  \/ \E c \in Confidences \cup {Missing} : risk_read(c)
  \/ risk_save
  \/ risk_raises

Spec == Init /\ [][Next]_vars

-----------------------------------------------------------------------------
(* Properties *)

\* A reading is part of the window it is scored against, so that no drift
\* score exceeds the square root of the window's length less one: the default
\* three sigmas need eleven values, and ten sigmas are beyond a window of 40.
DriftIsBounded ==
  latest # NoReading =>
    latest.score.far <= (WindowSize - 1) * latest.score.spread

\* Two severities are computed from the same sensors, by different scales in
\* different places, and Detection can rewrite the row between the Risk
\* Agent's read and its write, and after it.  What Detection calls high is
\* left to level 1 in that case only: when the level was made from another
\* summary than the row has now.
HighIsSeenUnlessRewritten ==
  assessment # None /\ severity = "high" /\ assessment.of = summary
    => assessment.level >= 2

\* docs/hitl-thresholds.md:44: less confidence, or none, never lowers the level.
UncertaintyOnlyRaises ==
  assessment # None =>
    \A c \in Confidence \cup {Missing} :
      c <= assessment.confidence => hitl_level_for(assessment.severity, c) >= assessment.level
=============================================================================
