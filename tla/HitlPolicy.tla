------------------------------ MODULE HitlPolicy ------------------------------
(***************************************************************************)
(* The table that decides whether a human is involved:                     *)
(* agents/risk/config/hitl_thresholds.json and hitl_level_for of           *)
(* agents/risk/agent.py.                                                   *)
(***************************************************************************)
EXTENDS Integers, Sequences

CONSTANT Config  \* the loaded table

Severity == {"low", "medium", "high"}
Level == 1..3
Confidence == 0..100
Missing == -1    \* a diagnosis without a confidence

\* What load_hitl_thresholds insists on, and the types the code converts to.
ASSUME ConfigAssumption ==
  /\ Config.base \in [Severity -> Level]
  /\ Config.missing \in Confidence
  /\ Config.rules \in Seq([below : Int, minimum : Level])
  /\ Config.safety \in [below : Int, minimum : Level]

\* Of the shipped table: only low severity may do without a human, and a
\* missing confidence counts as none at all.
ASSUME CautionAssumption ==
  /\ Config.base["medium"] >= 2 /\ Config.base["high"] >= 2
  /\ Config.missing = 0

confidence_used(confidence) ==
  IF confidence = Missing THEN Config.missing ELSE confidence

\* Every level that something asks for: the severity row, the confidence
\* rules that match, and the safety floor.
demanded_levels(severity, confidence) ==
  LET conf == confidence_used(confidence)
  IN  {1, Config.base[severity]}
        \cup {Config.rules[k].minimum : k \in {j \in DOMAIN Config.rules : conf < Config.rules[j].below}}
        \cup {l \in {Config.safety.minimum} : severity = "high" /\ conf < Config.safety.below}

highest(levels) == CHOOSE l \in levels : \A m \in levels : m <= l

\* Faulty variant: a missing confidence is taken for a certain one.
hitl_level_for_trusting(severity, confidence) ==
  highest(demanded_levels(severity, IF confidence = Missing THEN 100 ELSE confidence))

hitl_level_for(severity, confidence) ==
  highest(demanded_levels(severity, confidence))
=============================================================================
