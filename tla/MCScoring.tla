------------------------------- MODULE MCScoring -------------------------------
(* Small instances of Scoring for TLC. *)
EXTENDS Scoring

CONSTANTS flow, ph

\* hitl_thresholds.json as shipped.
MC_Shipped ==
  [base    |-> [low |-> 1, medium |-> 2, high |-> 2],
   missing |-> 0,
   rules   |-> <<[below |-> 50, minimum |-> 3], [below |-> 70, minimum |-> 2]>>,
   safety  |-> [below |-> 85, minimum |-> 2]]

MC_RiskScale == [static_margin_high |-> 100, drift_z_high |-> 10, medium_percent |-> 30]
=============================================================================
