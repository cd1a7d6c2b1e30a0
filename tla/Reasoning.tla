------------------------------ MODULE Reasoning ------------------------------
(***************************************************************************)
(* The agents that use a language model, composed over one incident: the   *)
(* Detection Agent's task, the listener with the Knowledge, Root-Cause and *)
(* Recommendation handlers, and an operator's questions.                   *)
(***************************************************************************)
EXTENDS Planner, Ask

vars == <<caseVars, rootCauseVars, plannerVars, askVars>>

Init == CaseInit /\ RootCauseInit /\ PlannerInit /\ AskInit

Detect ==
  /\ \E sensors \in SUBSET Sensors : persist_incident(sensors)
  /\ UNCHANGED <<rootCauseVars, plannerVars, askVars>>

Dispatch == dispatch /\ UNCHANGED <<rootCauseVars, plannerVars, askVars>>
Diagnose == DiagnosisStep /\ UNCHANGED <<plannerVars, askVars>>
Plan == PlanningStep /\ UNCHANGED askVars
AskAndAnswer == AskStep /\ UNCHANGED <<rootCauseVars, plannerVars>>

Raise ==
  \/ (knowledge_raises \/ root_cause_raises) /\ UNCHANGED <<plannerVars, askVars>>
  \/ planner_raises /\ UNCHANGED askVars

Listen == Dispatch \/ Diagnose \/ Plan

Next == Detect \/ Listen \/ Raise \/ AskAndAnswer

Spec == Init /\ [][Next]_vars

\* Every await of a handler ends: sleeps are finite, and model, database and
\* bus calls have timeouts.  Nothing is assumed of readings and questions,
\* nor that a call ever raises.
FairSpec == Spec /\ WF_vars(Listen)

-----------------------------------------------------------------------------
(* Safety *)

ReasoningTypeOK ==
  CaseTypeOK /\ RootCauseTypeOK /\ PlannerTypeOK /\ AskTypeOK

\* Whatever a model answers, a diagnosis and an answer to an operator cite
\* only what the model was shown, and what is presented as grounded cites
\* something -- although names are found by substring, tags may be missing,
\* and the first of two attempts may have failed (_parse_and_validate,
\* _validate_point).
CitesOnlyWhatWasShown ==
  /\ diagnosis.cited \subseteq Citable(diagnosis.shown)
  /\ diagnosis.kind = "cited" => diagnosis.cited # {}
  /\ reply.cited \subseteq Citable(reply.shown)
  /\ reply.grounded <=> reply.cited # {}

\* The tool log saved with a recommendation has every call the model made,
\* once, in the order and with the round it made it, the failed and the
\* unknown ones included (the planning proof of _planner_loop).
PlanningIsVisible ==
  /\ Len(plan.log) = Len(plan.asked)
  /\ \A k \in 1..Len(plan.log) :
       /\ plan.log[k].round = plan.asked[k].round
       /\ plan.log[k].tool = plan.asked[k].tool
       /\ plan.log[k].round <= MaxToolRounds

\* The length of the texts RecommendedIsWhatWasWritten has read.
CONSTANT MaxLines

ASSUME LinesAssumption == MaxLines \in Nat

EveryTextIsReadAsWritten ==
  \A length \in 0..MaxLines :
    \A text \in [1..length -> LineKind] : ReadAsWritten(text)

\* The operations the Action Agent takes from the recorded recommendation are
\* the ones its text proposes: the lines outside the rationale, in order, then
\* the reorder it says last (_parse_recommendation, map_recommendation_to_cmms);
\* and it would be so for every text of up to MaxLines lines.
RecommendedIsWhatWasWritten ==
  plan.made => ReadAsWritten(plan.text) /\ EveryTextIsReadAsWritten

\* The agents keep the promise of Investigation.
Finding(d) == [kind |-> d.kind, cited |-> d.cited]
Inquest == INSTANCE Investigation WITH
  Fact <- Sensors \cup Docs,
  known <- recorded,
  finding <- Finding(diagnosis),
  proposal <- [made |-> plan.made, basis |-> Finding(plan.basis)]

InvestigationSpec == Inquest!InvestigationSpec

-----------------------------------------------------------------------------
(* Liveness *)

\* The listener always comes back for its next message: neither the waits,
\* nor the attempts, nor a model that goes on calling tools keep it.
HandlersEnd == []<>(at = "idle")

\* A diagnosis that was not withheld leads to a recommendation, unless a
\* later stage raised: nothing else between the two may swallow it.
DiagnosedIsPlannedOrLogged ==
  diagnosis.kind \in {"cited", "insufficient"} ~> plan.made \/ lost

-----------------------------------------------------------------------------
(* What documents say and the code does not do *)

\* agents/root_cause/agent.py:18: an uncited claim never reaches the record.
UncitedClaimNeverRecorded == diagnosis.claim => diagnosis.cited # {}
=============================================================================
