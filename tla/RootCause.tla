------------------------------ MODULE RootCause ------------------------------
(***************************************************************************)
(* The Knowledge and Root-Cause Agents at work on one row, await by await: *)
(* what each has read, what the model is shown, how its answers are        *)
(* checked, and what is recorded although the row has moved on meanwhile.  *)
(***************************************************************************)
EXTENDS CaseFile

CONSTANTS
  Retrieve,            \* the documents retrieval finds for a summary
  MaxSignatureWaits,   \* FULL_SIGNATURE_WAIT_ATTEMPTS (8)
  MaxEvidenceWaits     \* EVIDENCE_WAIT_ATTEMPTS (5)

ASSUME RootCauseAssumption ==
  /\ Retrieve \in [SUBSET Sensors -> SUBSET Docs]
  /\ MaxSignatureWaits \in Nat
  /\ MaxEvidenceWaits \in Nat

VARIABLES
  found,     \* local to the Knowledge handler: documents to be saved
  inquiry,   \* local to the Root-Cause handler: see Inquiry
  lost       \* history: a stage raised after the diagnosis was recorded

rootCauseVars == <<found, inquiry, lost>>

\* shown: summary and evidence read so far; waits and attempt count the
\* turns of the loops; draft is the diagnosis to be saved.
Inquiry == [shown : Material, waits : Nat, attempt : 1..2, draft : Diagnosis]
NoInquiry == [shown |-> NoMaterial, waits |-> 0, attempt |-> 1, draft |-> NoDiagnosis]

RootCauseTypeOK ==
  /\ found \in SUBSET Docs
  /\ inquiry \in Inquiry
  /\ lost \in BOOLEAN

RootCauseInit == found = {} /\ inquiry = NoInquiry /\ lost = FALSE

-----------------------------------------------------------------------------
(* Knowledge Agent *)

\* Evidence for the event's sensors, or for the row's if only those are the
\* full signature by now.
retrieve ==
  /\ at = "retrieve"
  /\ found' = Retrieve[IF ~full(cur.sensors) /\ full(summary)
                       THEN summary ELSE cur.sensors]
  /\ Goto("evidence_save")
  /\ UNCHANGED <<rowVars, queue, inquiry, lost>>

evidence_save ==
  /\ at = "evidence_save"
  /\ evidence' = [saved |-> TRUE, docs |-> found]
  /\ recorded' = recorded \cup found
  /\ found' = {}
  /\ Goto("nudge")
  /\ UNCHANGED <<summary, diagnosis, readings, queue, inquiry, lost>>

nudge ==
  /\ at = "nudge"
  /\ publish("diagnosis", {})
  /\ Goto("diagnose_read")
  /\ UNCHANGED <<rowVars, rootCauseVars>>

\* The error is logged and the message goes on to the Root-Cause Agent.
knowledge_raises ==
  /\ Raises /\ at \in KnowledgeStep
  /\ found' = {}
  /\ Goto("diagnose_read")
  /\ UNCHANGED <<rowVars, queue, inquiry, lost>>

-----------------------------------------------------------------------------
(* Root-Cause Agent *)

\* Faulty variant: the idempotency check is missing.
already_diagnosed_never == FALSE

already_diagnosed == diagnosis.kind # "none"

\* Where handle goes on from a read of the row after n waits of one loop.
AfterSignature(n) ==
  IF full(row.sensors) \/ n = MaxSignatureWaits
  THEN IF row.evidence.saved \/ MaxEvidenceWaits = 0 THEN "generate" ELSE "evidence_wait"
  ELSE "signature_wait"

root_cause_read ==
  /\ at = "diagnose_read"
  /\ IF already_diagnosed THEN HandlerEnds /\ UNCHANGED inquiry
     ELSE /\ inquiry' = [NoInquiry EXCEPT !.shown =
                           [sensors |-> row.sensors, docs |-> row.evidence.docs]]
          /\ Goto(AfterSignature(0))
  /\ UNCHANGED <<rowVars, queue, found, lost>>

\* Faulty variant: the signature is waited for as long as it takes.
signature_wait_however_long ==
  /\ at = "signature_wait"
  /\ inquiry' = [inquiry EXCEPT
       !.shown = [sensors |-> row.sensors, docs |-> row.evidence.docs]]
  /\ Goto(AfterSignature(0))
  /\ UNCHANGED <<rowVars, queue, found, lost>>

\* Up to MaxSignatureWaits reads of the growing row; the last one counts.
signature_wait ==
  /\ at = "signature_wait"
  /\ LET next == AfterSignature(inquiry.waits + 1)
     IN /\ Goto(next)
        /\ inquiry' = [inquiry EXCEPT
             !.shown = [sensors |-> row.sensors, docs |-> row.evidence.docs],
             !.waits = IF next = "signature_wait" THEN @ + 1 ELSE 0]
  /\ UNCHANGED <<rowVars, queue, found, lost>>

\* Up to MaxEvidenceWaits reads for evidence only: the summary stays the one
\* read before.
evidence_wait ==
  /\ at = "evidence_wait"
  /\ inquiry' = [inquiry EXCEPT !.shown.docs = row.evidence.docs, !.waits = @ + 1]
  /\ Goto(IF row.evidence.saved \/ inquiry.waits + 1 = MaxEvidenceWaits
          THEN "generate" ELSE "evidence_wait")
  /\ UNCHANGED <<rowVars, queue, found, lost>>

\* What save_root_cause will write for an answer that is accepted.  Of an
\* answer that has the words of insufficiency the first line is kept,
\* whatever it says.
recordable(answer, shown) ==
  CASE parse_and_validate(answer, shown) = "insufficient" ->
         {[kind |-> "insufficient", claim |-> answer.cause = "first",
           cited |-> {}, shown |-> shown]}
    [] parse_and_validate(answer, shown) = "cited" ->
         {[kind |-> "cited", claim |-> TRUE, cited |-> cited, shown |-> shown] :
            cited \in citations(answer.points, shown)}
    [] OTHER -> {}

withheld(shown) ==
  [kind |-> "withheld", claim |-> FALSE, cited |-> {}, shown |-> shown]

\* One call of the model and the check of its answer; a second, stricter
\* attempt after a rejection, and after two a fixed text without the model's
\* words.
generate ==
  /\ at = "generate"
  /\ \E answer \in Answers :
       \/ \E draft \in recordable(answer, inquiry.shown) :
            /\ inquiry' = [inquiry EXCEPT !.draft = draft]
            /\ Goto("diagnosis_save")
       \/ /\ recordable(answer, inquiry.shown) = {}
          /\ IF inquiry.attempt = 1
             THEN /\ inquiry' = [inquiry EXCEPT !.attempt = 2]
                  /\ Goto("generate")
             ELSE /\ inquiry' = [inquiry EXCEPT !.draft = withheld(inquiry.shown)]
                  /\ Goto("diagnosis_save")
  /\ UNCHANGED <<rowVars, queue, found, lost>>

diagnosis_save ==
  /\ at = "diagnosis_save"
  /\ diagnosis' = inquiry.draft
  /\ inquiry' = NoInquiry
  /\ IF inquiry.draft.kind = "withheld" THEN HandlerEnds ELSE Goto("diagnosis_publish")
  /\ UNCHANGED <<summary, evidence, readings, recorded, queue, found, lost>>

\* Faulty variant: a diagnosis without confidence is not announced.
diagnosis_publish_confident ==
  /\ at = "diagnosis_publish"
  /\ IF diagnosis.kind = "cited" THEN publish("root_cause", {}) ELSE UNCHANGED queue
  /\ HandlerEnds
  /\ UNCHANGED <<rowVars, rootCauseVars>>

diagnosis_publish ==
  /\ at = "diagnosis_publish"
  /\ publish("root_cause", {})
  /\ HandlerEnds
  /\ UNCHANGED <<rowVars, rootCauseVars>>

\* _handle_event logs the error and gives the incident up: once the diagnosis
\* is saved, for good.
root_cause_raises ==
  /\ Raises /\ at \in RootCauseStep
  /\ lost' = (lost \/ at = "diagnosis_publish")
  /\ inquiry' = NoInquiry
  /\ HandlerEnds
  /\ UNCHANGED <<rowVars, queue, found>>

DiagnosisStep ==
  \/ retrieve \/ evidence_save \/ nudge
  \/ root_cause_read \/ signature_wait \/ evidence_wait \/ generate
  \/ diagnosis_save \/ diagnosis_publish
=============================================================================
