---------------------------- MODULE ReasoningProofs ----------------------------
(***************************************************************************)
(* The reasoning agents for any sensors and documents, any retrieval, any  *)
(* answers of a model, any number of readings, waits, tool rounds and      *)
(* questions, and failures of any call.                                    *)
(***************************************************************************)
EXTENDS Reasoning, SequenceTheorems, TLAPS

-----------------------------------------------------------------------------
(* What the citation check guarantees *)

\* One citation for each point, taken from what was shown.
LEMMA CitationsAreShown ==
  ASSUME NEW points, NEW shown, NEW cited \in citations(points, shown)
  PROVE  /\ cited \subseteq Citable(shown)
         /\ cited \subseteq Name
         /\ points # {} <=> cited # {}
<1>1. PICK credit \in [points -> Name] :
        /\ \A p \in points : credit[p] \in validate_point(p, shown)
        /\ cited = {credit[p] : p \in points}
  BY DEF citations
<1>2. ASSUME NEW p, NEW name \in validate_point(p, shown)
      PROVE  name \in Citable(shown)
  BY <1>2 DEF validate_point, Citable
<1> QED
  BY <1>1, <1>2

\* What is recorded of an accepted answer.
LEMMA RecordableIsSound ==
  ASSUME NEW answer \in Answer, NEW shown \in Material,
         NEW draft \in recordable(answer, shown)
  PROVE  /\ draft \in Diagnosis
         /\ draft.shown = shown
         /\ draft.kind \in {"cited", "insufficient"}
         /\ draft.cited \subseteq Citable(shown)
         /\ draft.kind = "cited" <=> draft.cited # {}
<1>1. CASE parse_and_validate(answer, shown) = "insufficient"
  <2>1. draft = [kind |-> "insufficient", claim |-> answer.cause = "first",
                 cited |-> {}, shown |-> shown]
    BY <1>1 DEF recordable
  <2> QED BY <2>1 DEF Diagnosis
<1>2. CASE parse_and_validate(answer, shown) = "cited"
  <2>1. PICK cited \in citations(answer.points, shown) :
          draft = [kind |-> "cited", claim |-> TRUE, cited |-> cited, shown |-> shown]
    BY <1>2 DEF recordable
  <2>2. answer.points # {}
    BY <1>2 DEF parse_and_validate
  <2> QED BY <2>1, <2>2, CitationsAreShown DEF Diagnosis
<1> QED
  BY <1>1, <1>2 DEF recordable

-----------------------------------------------------------------------------
(* The inductive invariant *)

\* A diagnosis that may be recorded: it cites what was shown, and was shown
\* what is on record.
Sound(d) ==
  /\ d.kind # "none"
  /\ d.cited \subseteq Citable(d.shown)
  /\ Citable(d.shown) \subseteq recorded
  /\ d.kind = "cited" <=> d.cited # {}

\* What is read or shown has been on record, and the handler that works on a
\* diagnosis is the only one: there is none in the row yet.
CitationInv ==
  /\ summary \subseteq recorded
  /\ evidence.docs \subseteq recorded
  /\ Citable(inquiry.shown) \subseteq recorded
  /\ at \in {"signature_wait", "evidence_wait", "generate", "diagnosis_save"} =>
       diagnosis.kind = "none"
  /\ at = "diagnosis_save" => Sound(inquiry.draft)
  /\ diagnosis.cited \subseteq Citable(diagnosis.shown)
  /\ diagnosis.kind = "cited" <=> diagnosis.cited # {}

AskInv ==
  /\ reply.cited \subseteq Citable(reply.shown)
  /\ reply.grounded <=> reply.cited # {}

\* The way from the diagnosis to the recommendation is taken once: a stage
\* is announced, or under way, or the plan is made, never two of them.
Announced(n) == queue[n].topic \in {"root_cause", "risk"}
Waiting == \E n \in 1..Len(queue) : Announced(n)
Underway == at \in PlannerStep \cup {"diagnosis_publish"}

StageInv ==
  /\ \A m, n \in 1..Len(queue) : Announced(m) /\ Announced(n) => m = n
  /\ Waiting => ~Underway /\ ~plan.made
  /\ Underway => ~plan.made
  /\ Waiting \/ Underway \/ plan.made => diagnosis.kind \in {"cited", "insufficient"}
  /\ at \in {"chat", "tool", "plan_save"} => planning.basis = diagnosis
  /\ plan.made => plan.basis = diagnosis

\* The calls made are those logged, then those still pending.
LogInv ==
  /\ Len(planning.asked) = Len(planning.log) + Len(planning.pending)
  /\ \A k \in 1..Len(planning.log) :
       /\ planning.log[k].round = planning.asked[k].round
       /\ planning.log[k].tool = planning.asked[k].tool
       /\ planning.log[k].round <= MaxToolRounds
  /\ \A k \in 1..Len(planning.pending) :
       planning.asked[Len(planning.log) + k] =
         [round |-> planning.round, tool |-> planning.pending[k]]
  /\ planning.pending # <<>> => planning.round <= MaxToolRounds
  /\ at = "tool" <=> planning.pending # <<>>

ReasoningInv ==
  ReasoningTypeOK /\ CitationInv /\ AskInv /\ StageInv /\ LogInv /\ PlanningIsVisible

-----------------------------------------------------------------------------
(* Types *)

LEMMA MaterialTypes ==
  /\ NoMaterial \in Material
  /\ NoDiagnosis \in Diagnosis
  /\ NoInquiry \in Inquiry
  /\ NoPlanning \in Planning
  /\ NoPlan \in PlanOfRow
  /\ NoReply \in Reply
<1>1. NoMaterial \in Material
  BY DEF NoMaterial, Material
<1>2. NoDiagnosis \in Diagnosis
  BY <1>1 DEF NoDiagnosis, Diagnosis
<1>3. NoInquiry \in Inquiry
  BY <1>1, <1>2 DEF NoInquiry, Inquiry
<1>4. NoPlanning \in Planning /\ NoPlan \in PlanOfRow
  BY <1>2 DEF NoPlanning, Planning, NoPlan, PlanOfRow
<1>5. NoReply \in Reply
  BY <1>1 DEF NoReply, Reply
<1> QED
  BY <1>1, <1>2, <1>3, <1>4, <1>5

\* The row as read is material for a prompt.
LEMMA RowIsMaterial ==
  ASSUME CaseTypeOK
  PROVE  [sensors |-> row.sensors, docs |-> row.evidence.docs] \in Material
  BY DEF CaseTypeOK, row, Evidence, Material

LEMMA TypesInit == Init => ReasoningTypeOK
<1> SUFFICES ASSUME Init PROVE ReasoningTypeOK
  OBVIOUS
<1>1. CaseTypeOK
  BY MaterialTypes, CaseFileAssumption
  DEF Init, CaseInit, CaseTypeOK, Evidence, Message, NoMessage
<1>2. RootCauseTypeOK
  BY MaterialTypes DEF Init, RootCauseInit, RootCauseTypeOK
<1>3. PlannerTypeOK
  BY MaterialTypes DEF Init, PlannerInit, PlannerTypeOK
<1>4. AskTypeOK
  BY MaterialTypes, AskAssumption DEF Init, AskInit, AskTypeOK, NoQuestion
<1> QED
  BY <1>1, <1>2, <1>3, <1>4 DEF ReasoningTypeOK

LEMMA ListenerTypes ==
  ASSUME CaseTypeOK
  PROVE  /\ \A topic \in Topic, sensors \in SUBSET Sensors :
              publish(topic, sensors) => queue' \in Seq(Message)
         /\ dispatch => CaseTypeOK'
<1>1. ASSUME NEW topic \in Topic, NEW sensors \in SUBSET Sensors, publish(topic, sensors)
      PROVE  queue' \in Seq(Message)
  BY <1>1 DEF CaseTypeOK, publish, Message
<1>2. ASSUME dispatch PROVE CaseTypeOK'
  <2>1. Head(queue) \in Message /\ Tail(queue) \in Seq(Message)
    BY <1>2 DEF CaseTypeOK, dispatch
  <2>2. cur' \in Message /\ cur' # NoMessage
    BY <1>2, <2>1 DEF dispatch, Message, NoMessage, Topic
  <2>3. at' \in {"retrieve", "diagnose_read", "assess", "plan_read"}
    BY <1>2, <2>1 DEF dispatch, first_step, Message, Topic
  <2> QED
    BY <1>2, <2>1, <2>2, <2>3
    DEF CaseTypeOK, dispatch, rowVars, KnowledgeStep, RootCauseStep, PlannerStep
<1> QED
  BY <1>1, <1>2

\* Where a message takes the listener.
LEMMA DispatchEnters ==
  ASSUME CaseTypeOK, dispatch
  PROVE  /\ at' \in {"retrieve", "diagnose_read", "assess", "plan_read"}
         /\ at' \in {"assess", "plan_read"} <=> Head(queue).topic \in {"root_cause", "risk"}
<1>1. Head(queue) \in Message
  BY DEF CaseTypeOK, dispatch
<1>2. Head(queue).topic \in {"anomalies", "diagnosis", "root_cause", "risk"}
  BY <1>1 DEF Message, Topic
<1> QED
  BY <1>2 DEF dispatch, first_step

LEMMA DetectionKeepsTypes ==
  ASSUME CaseTypeOK, NEW sensors \in SUBSET Sensors, persist_incident(sensors)
  PROVE  CaseTypeOK'
<1>1. queue' \in Seq(Message)
  BY ListenerTypes DEF persist_incident, CaseTypeOK, Topic
<1> QED
  BY <1>1, CaseFileAssumption DEF persist_incident, CaseTypeOK

LEMMA DiagnosisKeepsTypes ==
  ASSUME CaseTypeOK, RootCauseTypeOK, DiagnosisStep
  PROVE  CaseTypeOK' /\ RootCauseTypeOK'
<1> USE DEF CaseTypeOK, RootCauseTypeOK, rowVars, Goto, HandlerEnds,
            KnowledgeStep, RootCauseStep, PlannerStep, Message, NoMessage, Topic
<1>1. CASE retrieve
  <2>1. found' \in SUBSET Docs
    BY <1>1, RootCauseAssumption DEF retrieve
  <2> QED BY <1>1, <2>1 DEF retrieve
<1>2. CASE evidence_save
  BY <1>2 DEF evidence_save, Evidence
<1>3. CASE nudge
  <2>1. queue' \in Seq(Message)
    BY <1>3, ListenerTypes DEF nudge
  <2> QED BY <1>3, <2>1 DEF nudge, rootCauseVars
<1>4. CASE root_cause_read
  <2>1. inquiry' \in Inquiry
    <3>1. [NoInquiry EXCEPT !.shown = [sensors |-> row.sensors, docs |-> row.evidence.docs]]
            \in Inquiry
      BY RowIsMaterial, MaterialTypes DEF Inquiry
    <3> QED BY <1>4, <3>1 DEF root_cause_read
  <2> QED BY <1>4, <2>1 DEF root_cause_read, AfterSignature
<1>5. CASE signature_wait
  <2>1. PICK n \in Nat :
          inquiry' = [inquiry EXCEPT
            !.shown = [sensors |-> row.sensors, docs |-> row.evidence.docs], !.waits = n]
    <3>1. inquiry.waits + 1 \in Nat /\ 0 \in Nat
      BY DEF Inquiry
    <3> QED BY <1>5, <3>1 DEF signature_wait
  <2>2. inquiry' \in Inquiry
    BY <2>1, RowIsMaterial DEF Inquiry
  <2> QED BY <1>5, <2>2 DEF signature_wait, AfterSignature
<1>6. CASE evidence_wait
  <2>1. row.evidence.docs \in SUBSET Docs
    BY DEF row, Evidence
  <2>2. /\ [inquiry.shown EXCEPT !.docs = row.evidence.docs] \in Material
        /\ inquiry.waits + 1 \in Nat
    BY <2>1 DEF Inquiry, Material
  <2>3. inquiry' = [inquiry EXCEPT !.shown = [inquiry.shown EXCEPT !.docs = row.evidence.docs],
                                   !.waits = inquiry.waits + 1]
    BY <1>6 DEF evidence_wait
  <2>4. inquiry' \in Inquiry
    BY <2>2, <2>3 DEF Inquiry
  <2> QED BY <1>6, <2>4 DEF evidence_wait
<1>7. CASE generate
  <2>1. PICK answer \in Answers :
          \/ \E draft \in recordable(answer, inquiry.shown) :
               /\ inquiry' = [inquiry EXCEPT !.draft = draft]
               /\ at' = "diagnosis_save"
          \/ inquiry' = [inquiry EXCEPT !.attempt = 2] /\ at' = "generate"
          \/ /\ inquiry' = [inquiry EXCEPT !.draft = withheld(inquiry.shown)]
             /\ at' = "diagnosis_save"
    BY <1>7 DEF generate
  <2>2. inquiry.shown \in Material /\ answer \in Answer
    BY <2>1, CaseFileAssumption DEF Inquiry
  <2>3. withheld(inquiry.shown) \in Diagnosis
    BY <2>2 DEF withheld, Diagnosis
  <2>4. recordable(answer, inquiry.shown) \subseteq Diagnosis
    BY <2>2, RecordableIsSound
  <2>5. inquiry' \in Inquiry /\ at' \in {"generate", "diagnosis_save"}
    BY <2>1, <2>3, <2>4 DEF Inquiry
  <2> QED BY <1>7, <2>5 DEF generate
<1>8. CASE diagnosis_save
  <2>1. diagnosis' \in Diagnosis /\ inquiry' \in Inquiry
    BY <1>8, MaterialTypes DEF diagnosis_save, Inquiry
  <2> QED BY <1>8, <2>1 DEF diagnosis_save
<1>9. CASE diagnosis_publish
  <2>1. queue' \in Seq(Message)
    BY <1>9, ListenerTypes DEF diagnosis_publish
  <2> QED BY <1>9, <2>1 DEF diagnosis_publish, rootCauseVars
<1> QED
  BY <1>1, <1>2, <1>3, <1>4, <1>5, <1>6, <1>7, <1>8, <1>9 DEF DiagnosisStep

LEMMA PlanningKeepsTypes ==
  ASSUME ReasoningTypeOK, LogInv, PlanningStep
  PROVE  CaseTypeOK' /\ RootCauseTypeOK' /\ PlannerTypeOK'
<1> USE DEF ReasoningTypeOK, CaseTypeOK, RootCauseTypeOK, PlannerTypeOK, rowVars,
            rootCauseVars, plannerVars, Goto, HandlerEnds, KnowledgeStep,
            RootCauseStep, PlannerStep, Message, NoMessage, Topic
<1>1. CASE assess
  <2>1. queue' \in Seq(Message)
    BY <1>1, ListenerTypes DEF assess
  <2> QED BY <1>1, <2>1 DEF assess
<1>2. CASE plan_read
  <2>1. planning' \in Planning
    BY <1>2, MaterialTypes DEF plan_read, Planning
  <2> QED BY <1>2, <2>1 DEF plan_read
<1>3. CASE chat_calls
  <2>1. PICK calls \in Calls :
          planning' = [planning EXCEPT
            !.pending = calls,
            !.asked = @ \o [k \in 1..Len(calls) |->
                              [round |-> planning.round, tool |-> calls[k]]]]
    BY <1>3 DEF chat_calls
  <2>2. calls \in Seq(Tool)
    BY PlannerAssumption
  <2>3. [k \in 1..Len(calls) |-> [round |-> planning.round, tool |-> calls[k]]] \in Seq(Call)
    BY <2>2 DEF Planning, Call
  <2>4. planning.asked \o [k \in 1..Len(calls) |-> [round |-> planning.round, tool |-> calls[k]]]
          \in Seq(Call)
    BY <2>3 DEF Planning
  <2>5. planning' \in Planning
    BY <2>1, <2>2, <2>4 DEF Planning
  <2> QED BY <1>3, <2>5 DEF chat_calls
<1>4. CASE chat_text
  <2>1. PICK text \in Texts :
          \/ planning' = NoPlanning /\ lost' = TRUE /\ HandlerEnds
          \/ planning' = [planning EXCEPT !.text = text] /\ Goto("plan_save") /\ UNCHANGED lost
    BY <1>4 DEF chat_text
  <2>2. text \in Seq(LineKind)
    BY PlannerAssumption
  <2>3. planning' \in Planning
    BY <2>1, <2>2, MaterialTypes DEF Planning
  <2> QED BY <1>4, <2>1, <2>3 DEF chat_text
<1>5. CASE tool
  <2>1. PICK ok \in BOOLEAN, round \in Nat :
          planning' = [planning EXCEPT
            !.pending = Tail(@),
            !.log = Append(@, [round |-> planning.round,
                               tool |-> Head(planning.pending), ok |-> ok]),
            !.round = round]
    <3>1. planning.round \in Nat /\ planning.round + 1 \in Nat
      BY DEF Planning
    <3> QED BY <1>5, <3>1 DEF tool, execute_tool
  <2>2. /\ planning.pending \in Seq(Tool) /\ planning.pending # <<>>
        /\ planning.log \in Seq(Entry) /\ planning.round \in Nat
    BY <1>5 DEF LogInv, tool, Planning
  <2>3. /\ Head(planning.pending) \in Tool /\ Tail(planning.pending) \in Seq(Tool)
        /\ [round |-> planning.round, tool |-> Head(planning.pending), ok |-> ok] \in Entry
    BY <2>2 DEF Entry
  <2>4. Append(planning.log, [round |-> planning.round,
                              tool |-> Head(planning.pending), ok |-> ok]) \in Seq(Entry)
    BY <2>2, <2>3
  <2>5. planning' \in Planning
    BY <2>1, <2>3, <2>4 DEF Planning
  <2> QED BY <1>5, <2>5 DEF tool
<1>6. CASE plan_save
  <2>1. plan' \in PlanOfRow /\ planning' \in Planning
    BY <1>6, MaterialTypes DEF plan_save, PlanOfRow, Planning
  <2> QED BY <1>6, <2>1 DEF plan_save
<1> QED
  BY <1>1, <1>2, <1>3, <1>4, <1>5, <1>6 DEF PlanningStep

LEMMA RaisingKeepsTypes ==
  ASSUME ReasoningTypeOK, Raise
  PROVE  CaseTypeOK' /\ RootCauseTypeOK' /\ PlannerTypeOK'
<1> USE DEF ReasoningTypeOK, CaseTypeOK, RootCauseTypeOK, PlannerTypeOK, rowVars,
            plannerVars, Goto, HandlerEnds, KnowledgeStep, RootCauseStep,
            PlannerStep, Message, NoMessage, Topic
<1>1. CASE knowledge_raises /\ UNCHANGED plannerVars
  BY <1>1 DEF knowledge_raises
<1>2. CASE root_cause_raises /\ UNCHANGED plannerVars
  BY <1>2, MaterialTypes DEF root_cause_raises
<1>3. CASE planner_raises
  BY <1>3, MaterialTypes DEF planner_raises
<1> QED
  BY <1>1, <1>2, <1>3 DEF Raise

\* Questions and answers, and what they guarantee.
LEMMA AskingKeepsAskInv ==
  ASSUME ReasoningTypeOK, AskInv, AskStep
  PROVE  AskTypeOK' /\ AskInv'
<1> USE DEF ReasoningTypeOK, AskTypeOK, AskInv
<1>1. CASE ask_read
  <2>1. question' \in [asked : BOOLEAN, shown : Material]
    BY <1>1, RowIsMaterial DEF ask_read
  <2> QED BY <1>1, <2>1, AskAssumption DEF ask_read
<1>2. CASE ask_answer
  <2>1. question' \in [asked : BOOLEAN, shown : Material] /\ UNCHANGED questions
    BY <1>2, MaterialTypes DEF ask_answer, NoQuestion
  <2>2. CASE reply' = NoReply
    BY <2>1, <2>2, MaterialTypes DEF NoReply, Reply
  <2>3. CASE reply' # NoReply
    <3>1. PICK answer \in Answers : \E cited \in citations(answer.points, question.shown) :
            reply' = [grounded |-> cited # {}, cited |-> cited, shown |-> question.shown]
      BY <1>2, <2>3 DEF ask_answer
    <3>2. PICK cited \in citations(answer.points, question.shown) :
            reply' = [grounded |-> cited # {}, cited |-> cited, shown |-> question.shown]
      BY <3>1
    <3>3. cited \subseteq Citable(question.shown) /\ cited \subseteq Name
      BY <3>2, CitationsAreShown
    <3>4. reply' \in Reply /\ reply'.grounded = (reply'.cited # {})
          /\ reply'.cited \subseteq Citable(reply'.shown)
      BY <3>2, <3>3 DEF Reply
    <3> QED BY <2>1, <3>4
  <2> QED BY <2>2, <2>3
<1>3. CASE ask_declined
  BY <1>3, MaterialTypes DEF ask_declined, NoQuestion, NoReply, Reply
<1> QED
  BY <1>1, <1>2, <1>3 DEF AskStep

LEMMA TypesNext ==
  ASSUME ReasoningTypeOK, LogInv, AskInv, [Next]_vars
  PROVE  ReasoningTypeOK' /\ AskInv'
<1> USE DEF ReasoningTypeOK
<1>1. CASE AskAndAnswer
  BY <1>1, AskingKeepsAskInv
  DEF AskAndAnswer, AskStep, caseVars, rowVars, listenerVars, rootCauseVars,
      plannerVars, CaseTypeOK, RootCauseTypeOK, PlannerTypeOK
<1>2. CASE UNCHANGED vars
  BY <1>2 DEF vars, caseVars, rowVars, listenerVars, rootCauseVars, plannerVars,
      askVars, CaseTypeOK, RootCauseTypeOK, PlannerTypeOK, AskTypeOK, AskInv
<1>3. ASSUME UNCHANGED askVars PROVE AskTypeOK' /\ AskInv'
  BY <1>3 DEF askVars, AskTypeOK, AskInv
<1>4. CASE Detect
  BY <1>3, <1>4, DetectionKeepsTypes
  DEF Detect, rootCauseVars, plannerVars, RootCauseTypeOK, PlannerTypeOK
<1>5. CASE Dispatch
  BY <1>3, <1>5, ListenerTypes
  DEF Dispatch, rootCauseVars, plannerVars, RootCauseTypeOK, PlannerTypeOK
<1>6. CASE Diagnose
  BY <1>3, <1>6, DiagnosisKeepsTypes DEF Diagnose, plannerVars, PlannerTypeOK
<1>7. CASE Plan
  BY <1>3, <1>7, PlanningKeepsTypes DEF Plan
<1>8. CASE Raise
  BY <1>3, <1>8, RaisingKeepsTypes DEF Raise
<1> QED
  BY <1>1, <1>2, <1>4, <1>5, <1>6, <1>7, <1>8 DEF Next, Listen

-----------------------------------------------------------------------------
(* Citations *)

\* The row as read has been on record.
LEMMA RowIsRecorded ==
  ASSUME CitationInv
  PROVE  Citable([sensors |-> row.sensors, docs |-> row.evidence.docs]) \subseteq recorded
  BY DEF CitationInv, row, Citable

\* Nothing it speaks of changes.
LEMMA CitationInvElsewhere ==
  ASSUME CitationInv, UNCHANGED <<summary, evidence, diagnosis, recorded>>,
         \/ UNCHANGED inquiry
         \/ inquiry' = NoInquiry,
         at' \notin {"signature_wait", "evidence_wait", "generate", "diagnosis_save"}
           \/ UNCHANGED <<at, inquiry>>
  PROVE  CitationInv'
<1>1. Citable(NoInquiry.shown) = {}
  BY DEF NoInquiry, NoMaterial, Citable
<1> QED
  BY <1>1 DEF CitationInv, Sound, Citable

LEMMA DiagnosisKeepsCitationInv ==
  ASSUME ReasoningTypeOK, CitationInv, DiagnosisStep
  PROVE  CitationInv'
<1> USE DEF rowVars, Goto, HandlerEnds
<1>1. CASE retrieve
  BY <1>1, CitationInvElsewhere DEF retrieve
<1>2. CASE evidence_save
  BY <1>2 DEF evidence_save, CitationInv, Citable
<1>3. CASE nudge
  BY <1>3, CitationInvElsewhere DEF nudge, rootCauseVars
<1>4. CASE root_cause_read
  <2>1. CASE already_diagnosed
    BY <1>4, <2>1, CitationInvElsewhere DEF root_cause_read
  <2>2. CASE ~already_diagnosed
    <3>1. /\ inquiry' = [NoInquiry EXCEPT !.shown =
                            [sensors |-> row.sensors, docs |-> row.evidence.docs]]
          /\ at' # "diagnosis_save" /\ diagnosis.kind = "none"
      BY <1>4, <2>2 DEF root_cause_read, AfterSignature, already_diagnosed
    <3>2. Citable(inquiry'.shown) \subseteq recorded
      BY <3>1, RowIsRecorded DEF NoInquiry
    <3> QED BY <1>4, <3>1, <3>2 DEF root_cause_read, CitationInv, Citable
  <2> QED BY <2>1, <2>2
<1>5. CASE signature_wait
  <2>1. /\ inquiry'.shown = [sensors |-> row.sensors, docs |-> row.evidence.docs]
        /\ at' # "diagnosis_save" /\ diagnosis.kind = "none"
    BY <1>5 DEF signature_wait, AfterSignature, ReasoningTypeOK, RootCauseTypeOK,
        Inquiry, CitationInv
  <2>2. Citable(inquiry'.shown) \subseteq recorded
    BY <2>1, RowIsRecorded
  <2> QED BY <1>5, <2>1, <2>2 DEF signature_wait, CitationInv, Citable
<1>6. CASE evidence_wait
  <2>1. /\ inquiry'.shown.sensors = inquiry.shown.sensors
        /\ inquiry'.shown.docs = evidence.docs
        /\ at' # "diagnosis_save" /\ diagnosis.kind = "none"
    BY <1>6 DEF evidence_wait, row, ReasoningTypeOK, RootCauseTypeOK, Inquiry,
        Material, CitationInv
  <2> QED BY <1>6, <2>1 DEF evidence_wait, CitationInv, Citable
<1>7. CASE generate
  <2>1. PICK answer \in Answers :
          \/ \E draft \in recordable(answer, inquiry.shown) :
               inquiry' = [inquiry EXCEPT !.draft = draft]
          \/ inquiry' = [inquiry EXCEPT !.attempt = 2] /\ at' = "generate"
          \/ inquiry' = [inquiry EXCEPT !.draft = withheld(inquiry.shown)]
    BY <1>7 DEF generate
  <2>2. inquiry \in Inquiry /\ inquiry.shown \in Material /\ answer \in Answer
    BY <2>1, CaseFileAssumption DEF ReasoningTypeOK, RootCauseTypeOK, Inquiry
  <2>3. inquiry'.shown = inquiry.shown /\ diagnosis.kind = "none"
    BY <1>7, <2>1, <2>2 DEF Inquiry, CitationInv, generate
  <2>4. Citable(inquiry.shown) \subseteq recorded
    BY DEF CitationInv
  <2>5. at' = "diagnosis_save" => Sound(inquiry'.draft)
    <3>1. ASSUME NEW draft \in recordable(answer, inquiry.shown)
          PROVE  Sound(draft)
      BY <2>2, <2>4, RecordableIsSound DEF Sound
    <3>2. Sound(withheld(inquiry.shown))
      BY <2>4 DEF Sound, withheld, Citable
    <3> QED BY <2>1, <2>2, <3>1, <3>2 DEF Inquiry
  <2>6. Sound(inquiry'.draft) => Sound(inquiry.draft)'
    BY <1>7 DEF generate, Sound, Citable
  <2> QED BY <1>7, <2>3, <2>4, <2>5, <2>6 DEF generate, CitationInv, Citable
<1>8. CASE diagnosis_save
  <2>1. diagnosis' = inquiry.draft /\ Sound(inquiry.draft) /\ inquiry' = NoInquiry
    BY <1>8 DEF diagnosis_save, CitationInv
  <2>2. Citable(inquiry'.shown) = {}
    BY <2>1 DEF NoInquiry, NoMaterial, Citable
  <2> QED BY <1>8, <2>1, <2>2 DEF diagnosis_save, CitationInv, Sound, Citable
<1>9. CASE diagnosis_publish
  BY <1>9, CitationInvElsewhere DEF diagnosis_publish, rootCauseVars
<1> QED
  BY <1>1, <1>2, <1>3, <1>4, <1>5, <1>6, <1>7, <1>8, <1>9 DEF DiagnosisStep

LEMMA CitationNext ==
  ASSUME ReasoningTypeOK, CitationInv, [Next]_vars
  PROVE  CitationInv'
<1> USE DEF rowVars, rootCauseVars, Goto, HandlerEnds
<1>1. CASE Detect
  <2>1. PICK sensors \in SUBSET Sensors :
          /\ summary' = sensors
          /\ recorded' = recorded \cup sensors
          /\ UNCHANGED <<evidence, diagnosis, at, inquiry>>
    BY <1>1 DEF Detect, persist_incident
  <2>2. Sound(inquiry.draft) => Sound(inquiry.draft)'
    BY <2>1 DEF Sound, Citable
  <2> QED BY <2>1, <2>2 DEF CitationInv, Citable
<1>2. CASE Dispatch
  <2>1. at' \in {"retrieve", "diagnose_read", "assess", "plan_read"}
    BY <1>2, DispatchEnters DEF Dispatch, ReasoningTypeOK
  <2> QED BY <1>2, <2>1, CitationInvElsewhere DEF Dispatch, dispatch
<1>3. CASE Diagnose
  BY <1>3, DiagnosisKeepsCitationInv DEF Diagnose
<1>4. CASE Plan
  BY <1>4, CitationInvElsewhere
  DEF Plan, PlanningStep, assess, plan_read, chat_calls, chat_text, tool, plan_save
<1>5. CASE Raise
  BY <1>5, CitationInvElsewhere
  DEF Raise, knowledge_raises, root_cause_raises, planner_raises
<1>6. CASE AskAndAnswer \/ UNCHANGED vars
  BY <1>6 DEF AskAndAnswer, AskStep, vars, caseVars, listenerVars, CitationInv, Sound, Citable
<1> QED
  BY <1>1, <1>2, <1>3, <1>4, <1>5, <1>6 DEF Next, Listen

-----------------------------------------------------------------------------
(* The tool log *)

\* The calls a model makes, appended to those it made before.
LEMMA CallsAreAsked ==
  ASSUME NEW asked \in Seq(Call), NEW calls \in Seq(Tool), NEW round \in Nat,
         NEW more, more = asked \o [k \in 1..Len(calls) |-> [round |-> round, tool |-> calls[k]]]
  PROVE  /\ Len(more) = Len(asked) + Len(calls)
         /\ \A k \in 1..Len(asked) : more[k] = asked[k]
         /\ \A k \in 1..Len(calls) : more[Len(asked) + k] = [round |-> round, tool |-> calls[k]]
<1> DEFINE new == [k \in 1..Len(calls) |-> [round |-> round, tool |-> calls[k]]]
<1>1. new \in Seq(Call) /\ Len(new) = Len(calls) /\ Len(calls) \in Nat /\ Len(asked) \in Nat
  BY DEF Call
<1>2. \A k \in 1..Len(calls) : new[k] = [round |-> round, tool |-> calls[k]]
  OBVIOUS
<1> HIDE DEF new
<1>3. more = asked \o new
  BY DEF new
<1> QED
  BY <1>1, <1>2, <1>3

LEMMA EmptyIffLenZero ==
  ASSUME NEW S, NEW seq \in Seq(S)
  PROVE  seq = <<>> <=> Len(seq) = 0
<1>1. Len(<<>>) = 0 /\ (seq # <<>> => Len(seq) # 0)
  BY EmptySeq
<1> QED BY <1>1

\* The calls still to be executed, one fewer.
LEMMA TailOfCalls ==
  ASSUME NEW S, NEW p \in Seq(S), p # <<>>
  PROVE  /\ Tail(p) \in Seq(S) /\ Head(p) = p[1]
         /\ Len(Tail(p)) = Len(p) - 1 /\ Len(p) \in Nat /\ Len(p) >= 1
         /\ \A k \in 1..Len(Tail(p)) : Tail(p)[k] = p[k + 1]
         /\ Tail(p) = <<>> <=> Len(p) = 1
<1>1. /\ Tail(p) \in Seq(S) /\ Head(p) = p[1]
      /\ Len(Tail(p)) = Len(p) - 1 /\ Len(p) \in Nat /\ Len(p) >= 1
      /\ \A k \in 1..Len(Tail(p)) : Tail(p)[k] = p[k + 1]
  BY HeadTailProperties, LenProperties, EmptySeq
<1>2. Tail(p) = <<>> <=> Len(Tail(p)) = 0
  BY <1>1, EmptyIffLenZero
<1>3. Len(p) - 1 = 0 <=> Len(p) = 1
  BY <1>1
<1> QED BY <1>1, <1>2, <1>3

LEMMA ToolKeepsLogInv ==
  ASSUME PlannerTypeOK, LogInv, tool
  PROVE  LogInv'
<1> DEFINE p == planning.pending
           entry(ok) == [round |-> planning.round, tool |-> Head(p), ok |-> ok]
<1>1. /\ planning \in Planning /\ p \in Seq(Tool) /\ p # <<>>
      /\ planning.log \in Seq(Entry) /\ planning.asked \in Seq(Call) /\ planning.round \in Nat
      /\ planning.round <= MaxToolRounds
  BY DEF PlannerTypeOK, Planning, LogInv, tool
<1>2. PICK ok \in BOOLEAN :
        planning' = [planning EXCEPT
          !.pending = Tail(@),
          !.log = Append(@, entry(ok)),
          !.round = IF Len(planning.pending) = 1 THEN @ + 1 ELSE @]
  BY DEF tool, execute_tool
<1>3. /\ p = planning.pending
      /\ planning'.pending = Tail(p)
      /\ planning'.log = Append(planning.log, entry(ok))
      /\ planning'.asked = planning.asked
      /\ planning'.round = IF Len(p) = 1 THEN planning.round + 1 ELSE planning.round
  BY <1>1, <1>2 DEF Planning
<1>4. /\ Len(Tail(p)) = Len(p) - 1 /\ Len(p) \in Nat /\ Len(p) >= 1
      /\ \A k \in 1..Len(Tail(p)) : Tail(p)[k] = p[k + 1]
      /\ p[1] = Head(p)
      /\ Tail(p) = <<>> <=> Len(p) = 1
  BY <1>1, TailOfCalls
<1>5. /\ entry(ok) \in Entry
      /\ Len(planning.log) \in Nat
      /\ Len(planning'.log) = Len(planning.log) + 1
      /\ planning'.log[Len(planning.log) + 1] = entry(ok)
      /\ \A k \in 1..Len(planning.log) : planning'.log[k] = planning.log[k]
  <2>1. entry(ok) \in Entry
    BY <1>1 DEF Entry
  <2> QED BY <1>1, <1>3, <2>1
<1>6. planning.asked[Len(planning.log) + 1] = [round |-> planning.round, tool |-> Head(p)]
  BY <1>4, <1>5 DEF LogInv
<1>7. /\ entry(ok).round = planning.round
      /\ entry(ok).tool = Head(p)
  OBVIOUS
<1> HIDE DEF p, entry
<1>8. Len(planning'.asked) = Len(planning'.log) + Len(planning'.pending)
  <2>1. Len(planning.asked) = Len(planning.log) + Len(p)
    BY <1>3 DEF LogInv
  <2>2. /\ Len(planning'.asked) = Len(planning.asked)
        /\ Len(planning'.pending) = Len(p) - 1
        /\ Len(planning'.log) = Len(planning.log) + 1
    BY <1>3, <1>4, <1>5
  <2>3. Len(p) \in Nat /\ Len(planning.log) \in Nat
    BY <1>4, <1>5
  <2> QED BY <2>1, <2>2, <2>3
<1>9. ASSUME NEW k \in 1..Len(planning'.log)
      PROVE  /\ planning'.log[k].round = planning'.asked[k].round
             /\ planning'.log[k].tool = planning'.asked[k].tool
             /\ planning'.log[k].round <= MaxToolRounds
  <2>1. CASE k \in 1..Len(planning.log)
    BY <2>1, <1>3, <1>5 DEF LogInv
  <2>2. CASE k = Len(planning.log) + 1
    BY <2>2, <1>1, <1>3, <1>5, <1>6, <1>7
  <2> QED BY <1>5, <2>1, <2>2
<1>10. ASSUME NEW k \in 1..Len(planning'.pending)
       PROVE  planning'.asked[Len(planning'.log) + k] =
                [round |-> planning'.round, tool |-> planning'.pending[k]]
  <2>1. k \in 1..(Len(p) - 1)
    BY <1>3, <1>4
  <2>2. Len(p) # 1 /\ k + 1 \in 1..Len(p) /\ k \in Nat
    BY <1>4, <2>1
  <2>3. planning'.round = planning.round /\ planning'.pending[k] = p[k + 1]
    BY <1>3, <1>4, <2>2
  <2>4. planning.asked[Len(planning.log) + (k + 1)] =
          [round |-> planning.round, tool |-> p[k + 1]]
    BY <1>3, <2>2 DEF LogInv
  <2>5. Len(planning'.log) + k = Len(planning.log) + (k + 1)
    <3> DEFINE before == Len(planning.log)
               after == Len(planning'.log)
    <3>1. after = before + 1 /\ before \in Nat /\ k \in Nat
      BY <1>5, <2>2
    <3> HIDE DEF before, after
    <3>2. after + k = before + (k + 1)
      BY <3>1
    <3> QED BY <3>2 DEF before, after
  <2> QED BY <1>3, <2>3, <2>4, <2>5
<1>11. planning'.pending # <<>> => planning'.round <= MaxToolRounds
  BY <1>1, <1>3, <1>4
<1>12. at' = "tool" <=> planning'.pending # <<>>
  BY <1>3, <1>4 DEF tool, Goto
<1> QED
  BY <1>8, <1>9, <1>10, <1>11, <1>12 DEF LogInv

\* Nothing asked, nothing logged.
LEMMA EmptyLog ==
  ASSUME planning'.pending = <<>>, planning'.log = <<>>, planning'.asked = <<>>,
         at' # "tool"
  PROVE  LogInv'
<1>1. Len(planning'.pending) = 0 /\ Len(planning'.log) = 0 /\ Len(planning'.asked) = 0
  OBVIOUS
<1>2. 1..0 = {}
  OBVIOUS
<1> QED BY <1>1, <1>2 DEF LogInv

\* Outside the planning loop there is nothing to log.
LEMMA LogInvElsewhere ==
  ASSUME LogInv,
         \/ planning' = NoPlanning /\ at' # "tool"
         \/ UNCHANGED planning /\ (at' = "tool" <=> at = "tool")
  PROVE  LogInv'
<1>1. CASE planning' = NoPlanning /\ at' # "tool"
  <2>1. /\ planning'.pending = <<>> /\ planning'.log = <<>> /\ planning'.asked = <<>>
    BY <1>1 DEF NoPlanning
  <2> QED BY <1>1, <2>1, EmptyLog
<1>2. CASE UNCHANGED planning /\ (at' = "tool" <=> at = "tool")
  BY <1>2 DEF LogInv
<1> QED BY <1>1, <1>2

LEMMA PlanningKeepsLogInv ==
  ASSUME ReasoningTypeOK, LogInv, PlanningStep
  PROVE  LogInv'
<1> USE DEF ReasoningTypeOK, PlannerTypeOK, Goto, HandlerEnds
<1>1. CASE assess \/ plan_save
  BY <1>1, LogInvElsewhere DEF assess, plan_save, plannerVars
<1>2. CASE plan_read
  <2>1. /\ planning'.log = <<>> /\ planning'.asked = <<>> /\ planning'.pending = <<>>
    BY <1>2 DEF plan_read, NoPlanning
  <2> QED BY <1>2, <2>1, EmptyLog DEF plan_read
<1>3. CASE chat_calls
  <2>1. PICK calls \in Calls :
          planning' = [planning EXCEPT
            !.pending = calls,
            !.asked = @ \o [k \in 1..Len(calls) |->
                              [round |-> planning.round, tool |-> calls[k]]]]
    BY <1>3 DEF chat_calls
  <2>2. /\ calls \in Seq(Tool) /\ calls # <<>>
        /\ planning.asked \in Seq(Call) /\ planning.log \in Seq(Entry) /\ planning.round \in Nat
        /\ planning.pending = <<>> /\ planning.round <= MaxToolRounds
    BY <1>3, PlannerAssumption DEF Planning, chat_calls, LogInv, tools_offered
  <2>3. /\ planning'.pending = calls /\ planning'.log = planning.log
        /\ planning'.round = planning.round
        /\ planning'.asked = planning.asked \o
              [k \in 1..Len(calls) |-> [round |-> planning.round, tool |-> calls[k]]]
    BY <2>1 DEF Planning
  <2>4. /\ Len(planning'.asked) = Len(planning.asked) + Len(calls)
        /\ \A k \in 1..Len(planning.asked) : planning'.asked[k] = planning.asked[k]
        /\ \A k \in 1..Len(calls) :
             planning'.asked[Len(planning.asked) + k] = [round |-> planning.round, tool |-> calls[k]]
    BY <2>2, <2>3, CallsAreAsked
  <2>5. Len(planning.asked) = Len(planning.log) /\ Len(planning.log) \in Nat
    BY <2>2 DEF LogInv
  <2>6. \A k \in 1..Len(planning'.log) :
          /\ planning'.log[k].round = planning'.asked[k].round
          /\ planning'.log[k].tool = planning'.asked[k].tool
          /\ planning'.log[k].round <= MaxToolRounds
    BY <2>3, <2>4, <2>5 DEF LogInv
  <2>7. at' = "tool"
    BY <1>3 DEF chat_calls
  <2> QED BY <2>2, <2>3, <2>4, <2>5, <2>6, <2>7 DEF LogInv
<1>4. CASE chat_text
  <2>1. CASE planning' = NoPlanning /\ at' = "idle"
    BY <2>1, LogInvElsewhere
  <2>2. CASE \E text \in Texts : planning' = [planning EXCEPT !.text = text] /\ at' = "plan_save"
    <3>1. /\ planning'.pending = planning.pending /\ planning'.log = planning.log
          /\ planning'.round = planning.round /\ planning'.asked = planning.asked
      BY <2>2 DEF Planning
    <3> QED BY <1>4, <2>2, <3>1 DEF chat_text, LogInv
  <2> QED BY <1>4, <2>1, <2>2 DEF chat_text
<1>5. CASE tool
  BY <1>5, ToolKeepsLogInv
<1> QED
  BY <1>1, <1>2, <1>3, <1>4, <1>5 DEF PlanningStep

LEMMA LogNext ==
  ASSUME ReasoningTypeOK, LogInv, PlanningIsVisible, [Next]_vars
  PROVE  LogInv' /\ PlanningIsVisible'
<1> USE DEF Goto, HandlerEnds, plannerVars
<1>1. CASE Plan
  <2>1. LogInv'
    BY <1>1, PlanningKeepsLogInv DEF Plan
  <2>2. CASE UNCHANGED plan
    BY <2>1, <2>2 DEF PlanningIsVisible
  <2>3. CASE plan_save
    <3>1. planning.pending = <<>>
      BY <2>3 DEF plan_save, LogInv
    <3>2. plan'.log = planning.log /\ plan'.asked = planning.asked
      BY <2>3 DEF plan_save
    <3>3. Len(planning.log) \in Nat
      BY DEF ReasoningTypeOK, PlannerTypeOK, Planning
    <3> QED BY <2>1, <3>1, <3>2, <3>3 DEF PlanningIsVisible, LogInv
  <2> QED
    BY <1>1, <2>2, <2>3 DEF Plan, PlanningStep, assess, plan_read, chat_calls, chat_text, tool
<1>2. CASE Diagnose
  BY <1>2, LogInvElsewhere
  DEF Diagnose, DiagnosisStep, retrieve, evidence_save, nudge, root_cause_read,
      signature_wait, evidence_wait, generate, diagnosis_save, diagnosis_publish,
      AfterSignature, PlanningIsVisible
<1>3. CASE Dispatch
  BY <1>3, LogInvElsewhere, DispatchEnters
  DEF Dispatch, dispatch, ReasoningTypeOK, PlanningIsVisible
<1>4. CASE Raise
  <2>1. CASE planner_raises
    BY <2>1, LogInvElsewhere DEF planner_raises, PlanningIsVisible
  <2>2. CASE (knowledge_raises \/ root_cause_raises) /\ UNCHANGED plannerVars
    BY <2>2, LogInvElsewhere
    DEF knowledge_raises, root_cause_raises, KnowledgeStep, RootCauseStep, PlanningIsVisible
  <2> QED BY <1>4, <2>1, <2>2 DEF Raise
<1>5. CASE Detect \/ AskAndAnswer \/ UNCHANGED vars
  BY <1>5, LogInvElsewhere
  DEF Detect, persist_incident, AskAndAnswer, AskStep, vars, caseVars, listenerVars,
      PlanningIsVisible
<1> QED
  BY <1>1, <1>2, <1>3, <1>4, <1>5 DEF Next, Listen

-----------------------------------------------------------------------------
(* The stages *)

\* A message that announces no stage.
LEMMA PublishOther ==
  ASSUME queue \in Seq(Message), NEW topic \in {"anomalies", "diagnosis"},
         NEW sensors \in SUBSET Sensors, publish(topic, sensors)
  PROVE  /\ Waiting' <=> Waiting
         /\ (\A m, n \in 1..Len(queue) : Announced(m) /\ Announced(n) => m = n)
              => (\A m, n \in 1..Len(queue) : Announced(m) /\ Announced(n) => m = n)'
<1>1. /\ [topic |-> topic, sensors |-> sensors] \in Message
      /\ queue' = Append(queue, [topic |-> topic, sensors |-> sensors])
  BY DEF publish, Message, Topic
<1>2. /\ Len(queue) \in Nat /\ Len(queue') = Len(queue) + 1
      /\ queue'[Len(queue) + 1].topic = topic
      /\ \A n \in 1..Len(queue) : queue'[n] = queue[n]
  BY <1>1, AppendProperties
<1>3. \A n \in 1..Len(queue') : Announced(n)' <=> n \in 1..Len(queue) /\ Announced(n)
  BY <1>2 DEF Announced
<1>4. \A n \in 1..Len(queue) : n \in 1..Len(queue')
  BY <1>2
<1> QED
  BY <1>3, <1>4 DEF Waiting

\* The announcement of a stage when none was waiting.
LEMMA PublishStage ==
  ASSUME queue \in Seq(Message), NEW topic \in {"root_cause", "risk"},
         publish(topic, {}), ~Waiting
  PROVE  /\ Waiting'
         /\ (\A m, n \in 1..Len(queue) : Announced(m) /\ Announced(n) => m = n)'
<1>1. /\ [topic |-> topic, sensors |-> {}] \in Message
      /\ queue' = Append(queue, [topic |-> topic, sensors |-> {}])
  BY DEF publish, Message, Topic
<1>2. /\ Len(queue) \in Nat /\ Len(queue') = Len(queue) + 1
      /\ queue'[Len(queue) + 1].topic = topic
      /\ \A n \in 1..Len(queue) : queue'[n] = queue[n]
  BY <1>1, AppendProperties
<1>3. \A n \in 1..Len(queue') : Announced(n)' <=> n = Len(queue) + 1
  BY <1>2 DEF Announced, Waiting
<1>4. Len(queue) + 1 \in 1..Len(queue')
  BY <1>2
<1> QED
  BY <1>3, <1>4 DEF Waiting

\* Taking a message: if it announced a stage, no other does.
LEMMA TakeMessage ==
  ASSUME queue \in Seq(Message), queue # <<>>, queue' = Tail(queue),
         \A m, n \in 1..Len(queue) : Announced(m) /\ Announced(n) => m = n
  PROVE  /\ (\A m, n \in 1..Len(queue) : Announced(m) /\ Announced(n) => m = n)'
         /\ Waiting' => Waiting /\ Head(queue).topic \notin {"root_cause", "risk"}
         /\ Head(queue).topic \in {"root_cause", "risk"} => Waiting
<1>1. /\ Head(queue) = queue[1] /\ Len(queue) \in Nat /\ Len(queue) >= 1
      /\ Len(queue') = Len(queue) - 1
      /\ \A n \in 1..Len(queue') : queue'[n] = queue[n + 1]
  BY TailOfCalls
<1>2. \A n \in 1..Len(queue') : n + 1 \in 1..Len(queue) /\ n + 1 # 1 /\ n \in Nat
  BY <1>1
<1>3. \A n \in 1..Len(queue') : Announced(n)' <=> Announced(n + 1)
  BY <1>1 DEF Announced
<1>4. 1 \in 1..Len(queue)
  BY <1>1
<1>5. Head(queue).topic \in {"root_cause", "risk"} <=> Announced(1)
  BY <1>1 DEF Announced
<1>6. ASSUME NEW m \in 1..Len(queue'), NEW n \in 1..Len(queue'), Announced(m)', Announced(n)'
      PROVE  m = n
  <2>1. m + 1 = n + 1
    BY <1>2, <1>3, <1>6
  <2> QED BY <1>2, <2>1
<1>7. ASSUME Waiting' PROVE Waiting /\ ~Announced(1)
  <2>1. PICK n \in 1..Len(queue') : Announced(n)'
    BY <1>7 DEF Waiting
  <2> QED BY <1>2, <1>3, <1>4, <2>1 DEF Waiting
<1> QED
  BY <1>4, <1>5, <1>6, <1>7 DEF Waiting

\* No stage is announced or ended.
LEMMA StageInvElsewhere ==
  ASSUME StageInv, UNCHANGED <<queue, diagnosis, plan>>,
         Underway' => Underway,
         at' \in {"chat", "tool", "plan_save"} => planning'.basis = diagnosis
  PROVE  StageInv'
<1>1. Waiting' <=> Waiting
  BY DEF Waiting, Announced
<1>2. (\A m, n \in 1..Len(queue) : Announced(m) /\ Announced(n) => m = n)'
  BY DEF StageInv, Announced
<1> QED
  BY <1>1, <1>2 DEF StageInv

LEMMA DiagnosisKeepsStageInv ==
  ASSUME ReasoningTypeOK, CitationInv, StageInv, Diagnose
  PROVE  StageInv'
<1> USE DEF rowVars, rootCauseVars, plannerVars, Goto, HandlerEnds, Underway, PlannerStep
<1>0. queue \in Seq(Message) /\ UNCHANGED <<planning, plan>> /\ DiagnosisStep
  BY DEF ReasoningTypeOK, CaseTypeOK, Diagnose
<1>1. CASE retrieve \/ evidence_save
  BY <1>0, <1>1, StageInvElsewhere DEF retrieve, evidence_save
<1>2. CASE nudge
  <2>1. publish("diagnosis", {}) /\ at' = "diagnose_read" /\ UNCHANGED diagnosis
    BY <1>2 DEF nudge
  <2>2. /\ Waiting' <=> Waiting
        /\ (\A m, n \in 1..Len(queue) : Announced(m) /\ Announced(n) => m = n)'
    BY <1>0, <2>1, PublishOther DEF StageInv
  <2> QED BY <1>0, <2>1, <2>2 DEF StageInv
<1>3. CASE root_cause_read \/ signature_wait \/ evidence_wait \/ generate
  <2>1. UNCHANGED <<queue, diagnosis>> /\ at' \notin {"chat", "tool", "plan_save"} /\ ~Underway'
    BY <1>3 DEF root_cause_read, signature_wait, evidence_wait, generate, AfterSignature
  <2> QED BY <1>0, <2>1, StageInvElsewhere
<1>4. CASE diagnosis_save
  <2>1. ~Waiting /\ ~plan.made
    BY <1>4 DEF diagnosis_save, CitationInv, StageInv
  <2>2. ~Waiting' /\ ~plan'.made
    BY <1>0, <1>4, <2>1 DEF diagnosis_save, Waiting, Announced
  <2>3. Underway' => diagnosis'.kind \in {"cited", "insufficient"}
    <3>1. diagnosis' \in Diagnosis /\ diagnosis'.kind # "none" /\ diagnosis' = inquiry.draft
      BY <1>4 DEF diagnosis_save, CitationInv, Sound, ReasoningTypeOK, RootCauseTypeOK, Inquiry
    <3>2. diagnosis'.kind \in {"cited", "insufficient", "withheld"}
      BY <3>1 DEF Diagnosis
    <3> QED BY <1>4, <3>1, <3>2 DEF diagnosis_save
  <2>4. at' \notin {"chat", "tool", "plan_save"}
    BY <1>4 DEF diagnosis_save
  <2> QED BY <2>2, <2>3, <2>4 DEF StageInv, Waiting
<1>5. CASE diagnosis_publish
  <2>1. ~Waiting /\ ~plan.made /\ diagnosis.kind \in {"cited", "insufficient"}
    BY <1>5 DEF diagnosis_publish, StageInv
  <2>2. (\A m, n \in 1..Len(queue) : Announced(m) /\ Announced(n) => m = n)'
    BY <1>0, <1>5, <2>1, PublishStage DEF diagnosis_publish
  <2> QED BY <1>0, <1>5, <2>1, <2>2 DEF diagnosis_publish, StageInv
<1> QED
  BY <1>0, <1>1, <1>2, <1>3, <1>4, <1>5 DEF DiagnosisStep

LEMMA PlanningKeepsStageInv ==
  ASSUME ReasoningTypeOK, StageInv, Plan
  PROVE  StageInv'
<1> USE DEF rowVars, rootCauseVars, plannerVars, Goto, HandlerEnds, Underway, PlannerStep
<1>0. queue \in Seq(Message) /\ planning \in Planning /\ PlanningStep
  BY DEF ReasoningTypeOK, CaseTypeOK, PlannerTypeOK, Plan
<1>1. CASE assess
  <2>1. ~Waiting /\ ~plan.made /\ diagnosis.kind \in {"cited", "insufficient"}
    BY <1>1 DEF assess, StageInv
  <2>2. (\A m, n \in 1..Len(queue) : Announced(m) /\ Announced(n) => m = n)'
    BY <1>0, <1>1, <2>1, PublishStage DEF assess
  <2> QED BY <1>1, <2>1, <2>2 DEF assess, StageInv
<1>2. CASE plan_read
  <2>1. planning'.basis = diagnosis
    BY <1>2 DEF plan_read, NoPlanning
  <2> QED BY <1>2, <2>1, StageInvElsewhere DEF plan_read
<1>3. CASE chat_calls
  <2>1. planning'.basis = planning.basis
    BY <1>0, <1>3 DEF chat_calls, Planning
  <2> QED BY <1>3, <2>1, StageInvElsewhere DEF chat_calls, StageInv
<1>4. CASE chat_text
  <2>1. CASE at' = "idle"
    BY <1>4, <2>1, StageInvElsewhere DEF chat_text
  <2>2. CASE at' = "plan_save"
    <3>1. planning'.basis = planning.basis
      BY <1>0, <1>4, <2>2 DEF chat_text, Planning
    <3> QED BY <1>4, <2>2, <3>1, StageInvElsewhere DEF chat_text, StageInv
  <2> QED BY <1>4, <2>1, <2>2 DEF chat_text
<1>5. CASE tool
  <2>1. planning'.basis = planning.basis
    BY <1>0, <1>5 DEF tool, Planning
  <2> QED BY <1>5, <2>1, StageInvElsewhere DEF tool, StageInv
<1>6. CASE plan_save
  <2>1. ~Waiting /\ diagnosis.kind \in {"cited", "insufficient"} /\ planning.basis = diagnosis
    BY <1>6 DEF plan_save, StageInv
  <2>2. ~Waiting' /\ plan'.made /\ plan'.basis = diagnosis /\ UNCHANGED diagnosis /\ at' = "idle"
    BY <1>6, <2>1 DEF plan_save, Waiting, Announced
  <2> QED BY <2>1, <2>2 DEF StageInv, Waiting
<1> QED
  BY <1>0, <1>1, <1>2, <1>3, <1>4, <1>5, <1>6 DEF PlanningStep

LEMMA StageNext ==
  ASSUME ReasoningTypeOK, CitationInv, StageInv, [Next]_vars
  PROVE  StageInv'
<1> USE DEF rowVars, rootCauseVars, plannerVars, HandlerEnds, Goto, Underway, PlannerStep
<1>0. queue \in Seq(Message)
  BY DEF ReasoningTypeOK, CaseTypeOK
<1>1. CASE Detect
  <2>1. PICK sensors \in SUBSET Sensors : persist_incident(sensors)
    BY <1>1 DEF Detect
  <2>2. CASE UNCHANGED queue
    BY <1>1, <2>1, <2>2, StageInvElsewhere DEF Detect, persist_incident, StageInv
  <2>3. CASE publish("anomalies", sensors)
    <3>1. /\ Waiting' <=> Waiting
          /\ (\A m, n \in 1..Len(queue) : Announced(m) /\ Announced(n) => m = n)'
      BY <1>0, <2>3, PublishOther DEF StageInv
    <3>2. UNCHANGED <<at, diagnosis, planning, plan>>
      BY <1>1, <2>1 DEF Detect, persist_incident
    <3> QED BY <3>1, <3>2 DEF StageInv
  <2> QED BY <2>1, <2>2, <2>3 DEF persist_incident
<1>2. CASE Dispatch
  <2>1. /\ at = "idle" /\ queue # <<>> /\ queue' = Tail(queue)
        /\ UNCHANGED <<diagnosis, planning, plan>>
    BY <1>2 DEF Dispatch, dispatch
  <2>2. /\ at' \in {"retrieve", "diagnose_read", "assess", "plan_read"}
        /\ Underway' => Head(queue).topic \in {"root_cause", "risk"}
    BY <1>2, DispatchEnters DEF Dispatch, ReasoningTypeOK
  <2>3. /\ (\A m, n \in 1..Len(queue) : Announced(m) /\ Announced(n) => m = n)'
        /\ Waiting' => Waiting /\ Head(queue).topic \notin {"root_cause", "risk"}
        /\ Head(queue).topic \in {"root_cause", "risk"} => Waiting
    BY <1>0, <2>1, TakeMessage DEF StageInv
  <2> QED BY <2>1, <2>2, <2>3 DEF StageInv
<1>3. CASE Diagnose
  BY <1>3, DiagnosisKeepsStageInv
<1>4. CASE Plan
  BY <1>4, PlanningKeepsStageInv
<1>5. CASE Raise
  BY <1>5, StageInvElsewhere
  DEF Raise, knowledge_raises, root_cause_raises, planner_raises
<1>6. CASE AskAndAnswer \/ UNCHANGED vars
  BY <1>6, StageInvElsewhere
  DEF AskAndAnswer, AskStep, vars, caseVars, listenerVars, StageInv
<1> QED
  BY <1>1, <1>2, <1>3, <1>4, <1>5, <1>6 DEF Next, Listen

-----------------------------------------------------------------------------
(* What a text is read as *)

Parsing == INSTANCE FoldProofs WITH turn <- parse_line, base <- ParserStart
Mapping == INSTANCE FoldProofs WITH turn <- map_action, base <- <<>>

\* What the parser knows after the first k lines of a text.
ReadUpTo(text, k, state) ==
  /\ state \in Parser
  /\ state.in_rationale <=> InRationale(text, k + 1)
  /\ Range(state.lines) = {n \in WorkLines(text) : n <= k}
  /\ \A i, j \in 1..Len(state.lines) : i < j => state.lines[i] < state.lines[j]
  /\ {n \in 1..k : text[n] = "reorder" /\ \A m \in (n + 1)..k : text[m] \notin ReorderKind}
       = {state.reorder} \ {0}

\* Line k begins or ends the rationale, or leaves the next line where it is.
LEMMA RationaleGoesOn ==
  ASSUME NEW text \in Seq(LineKind), NEW k \in 1..Len(text)
  PROVE  InRationale(text, k + 1) <=>
           \/ text[k] = "rationale"
           \/ InRationale(text, k) /\ text[k] # "hitl_note"
<1> DEFINE Between(m, last) == \A j \in (m + 1)..last : text[j] # "hitl_note"
<1>1. InRationale(text, k + 1) <=> \E m \in 1..k : text[m] = "rationale" /\ Between(m, k)
  BY DEF InRationale
<1>2. InRationale(text, k) <=> \E m \in 1..(k - 1) : text[m] = "rationale" /\ Between(m, k - 1)
  BY DEF InRationale
<1>3. \A m \in 1..(k - 1) : Between(m, k) <=> Between(m, k - 1) /\ text[k] # "hitl_note"
  <2>1. \A m \in 1..(k - 1), j \in Int :
          j \in (m + 1)..k <=> j \in (m + 1)..(k - 1) \/ j = k
    OBVIOUS
  <2> QED
    BY <2>1
<1>4. Between(k, k)
  OBVIOUS
<1>5. \A m \in Int : m \in 1..k <=> m \in 1..(k - 1) \/ m = k
  OBVIOUS
<1> HIDE DEF Between
<1>6. text[k] = "rationale" => text[k] # "hitl_note"
  OBVIOUS
<1> QED
  BY <1>1, <1>2, <1>3, <1>4, <1>5, <1>6

\* Line k is the last readable reorder line, or replaces it, or leaves it.
LEMMA ReorderGoesOn ==
  ASSUME NEW text \in Seq(LineKind), NEW k \in 1..Len(text)
  PROVE  LET Latest(l) == {n \in 1..l : /\ text[n] = "reorder"
                                      /\ \A m \in (n + 1)..l : text[m] \notin ReorderKind}
         IN Latest(k) = IF text[k] \in ReorderKind
                      THEN IF text[k] = "reorder" THEN {k} ELSE {}
                      ELSE Latest(k - 1)
<1> DEFINE Clear(n, l) == \A m \in (n + 1)..l : text[m] \notin ReorderKind
           Latest(l) == {n \in 1..l : text[n] = "reorder" /\ Clear(n, l)}
<1>1. \A n \in 1..(k - 1) : Clear(n, k) <=> Clear(n, k - 1) /\ text[k] \notin ReorderKind
  <2>1. \A n \in 1..(k - 1), m \in Int :
          m \in (n + 1)..k <=> m \in (n + 1)..(k - 1) \/ m = k
    OBVIOUS
  <2> QED
    BY <2>1
<1>2. Clear(k, k)
  OBVIOUS
<1>3. \A n \in Int : n \in 1..k <=> n \in 1..(k - 1) \/ n = k
  OBVIOUS
<1>4. k \notin 1..(k - 1) /\ k \in Int /\ 1..k \in SUBSET Int
  OBVIOUS
<1> HIDE DEF Clear
<1>5. CASE text[k] \in ReorderKind
  <2>1. \A n : n \in Latest(k) <=> n = k /\ text[k] = "reorder"
    BY <1>1, <1>2, <1>3, <1>4, <1>5
  <2> QED
    BY <1>5, <2>1 DEF Clear
<1>6. CASE text[k] \notin ReorderKind
  <2>1. text[k] # "reorder"
    BY <1>6 DEF ReorderKind
  <2>2. \A n : n \in Latest(k) <=> n \in Latest(k - 1)
    BY <1>1, <1>3, <1>4, <1>6, <2>1
  <2> QED
    BY <1>6, <2>2 DEF Clear
<1> QED
  BY <1>5, <1>6

\* Line k is one more work line, or none.
LEMMA WorkGoesOn ==
  ASSUME NEW text \in Seq(LineKind), NEW k \in 1..Len(text)
  PROVE  {n \in WorkLines(text) : n <= k} =
           {n \in WorkLines(text) : n <= k - 1} \cup
           IF text[k] = "bullet" /\ ~InRationale(text, k) THEN {k} ELSE {}
<1>1. \A n \in WorkLines(text) : n \in Int /\ (n <= k <=> n <= k - 1 \/ n = k)
  BY DEF WorkLines
<1>2. k \in WorkLines(text) <=> text[k] = "bullet" /\ ~InRationale(text, k)
  BY DEF WorkLines
<1> QED
  BY <1>1, <1>2

\* A turn of the loop.
LEMMA ParserGoesOn ==
  ASSUME NEW text \in Seq(LineKind), NEW k \in 1..Len(text),
         NEW state, ReadUpTo(text, k - 1, state)
  PROVE  ReadUpTo(text, k, parse_line(state, [number |-> k, kind |-> text[k]]))
<1> DEFINE next == parse_line(state, [number |-> k, kind |-> text[k]])
<1>0. /\ text[k] \in LineKind /\ k \in Nat /\ k # 0 /\ (k - 1) + 1 = k
      /\ state \in Parser /\ state.lines \in Seq(Nat) /\ Len(state.lines) \in Nat
  BY DEF ReadUpTo, Parser
<1>1. state.in_rationale <=> InRationale(text, k)
  BY <1>0 DEF ReadUpTo
<1>2. next.in_rationale = IF text[k] = "rationale" THEN TRUE
                          ELSE IF text[k] = "hitl_note" THEN FALSE
                          ELSE state.in_rationale
  BY <1>0 DEF parse_line, Parser, ReorderKind
<1>3. next.reorder = IF text[k] \in ReorderKind
                     THEN IF text[k] = "reorder" THEN k ELSE 0
                     ELSE state.reorder
  BY <1>0 DEF parse_line, Parser, ReorderKind
<1>4. next.lines = IF text[k] = "bullet" /\ ~state.in_rationale
                   THEN Append(state.lines, k) ELSE state.lines
  BY <1>0 DEF parse_line, Parser, ReorderKind
<1>5. next \in Parser
  <2>1. /\ Append(state.lines, k) \in Seq(Nat)
        /\ state.in_rationale \in BOOLEAN /\ state.reorder \in Nat
    BY <1>0 DEF Parser
  <2>2. \A s \in Parser, r \in Nat, b \in BOOLEAN, w \in Seq(Nat) :
          /\ [s EXCEPT !.reorder = r] \in Parser
          /\ [s EXCEPT !.in_rationale = b] \in Parser
          /\ [s EXCEPT !.lines = w] \in Parser
    BY DEF Parser
  <2> QED
    BY <1>0, <2>1, <2>2, Zenon DEF parse_line
<1> HIDE DEF next
<1>6. next.in_rationale <=> InRationale(text, k + 1)
  BY <1>1, <1>2, <1>5, RationaleGoesOn DEF Parser
<1>7. {n \in 1..k : text[n] = "reorder" /\ \A m \in (n + 1)..k : text[m] \notin ReorderKind}
        = {next.reorder} \ {0}
  <2>1. CASE text[k] \in ReorderKind
    BY <1>0, <1>3, <2>1, ReorderGoesOn
  <2>2. CASE text[k] \notin ReorderKind
    BY <1>3, <2>2, ReorderGoesOn DEF ReadUpTo
  <2> QED
    BY <2>1, <2>2
<1>8. /\ Range(next.lines) = {n \in WorkLines(text) : n <= k}
      /\ \A i, j \in 1..Len(next.lines) : i < j => next.lines[i] < next.lines[j]
  <2>1. CASE text[k] = "bullet" /\ ~state.in_rationale
    <3>1. /\ next.lines = Append(state.lines, k)
          /\ DOMAIN next.lines = 1..(Len(state.lines) + 1)
          /\ Len(next.lines) = Len(state.lines) + 1
          /\ next.lines[Len(state.lines) + 1] = k
          /\ \A i \in 1..Len(state.lines) : next.lines[i] = state.lines[i]
      BY <1>0, <1>4, <2>1
    <3>2. \A i \in 1..Len(state.lines) : state.lines[i] \in Nat /\ state.lines[i] < k
      <4>1. \A n \in Range(state.lines) : n <= k - 1
        BY DEF ReadUpTo
      <4>2. \A i \in 1..Len(state.lines) : state.lines[i] \in Nat /\ state.lines[i] \in Range(state.lines)
        BY <1>0 DEF Range
      <4> QED
        BY <1>0, <4>1, <4>2
    <3>3. Range(next.lines) = Range(state.lines) \cup {k}
      <4>1. DOMAIN state.lines = 1..Len(state.lines)
        BY <1>0
      <4>2. \A i \in Int : i \in 1..(Len(state.lines) + 1) <=>
                           i \in 1..Len(state.lines) \/ i = Len(state.lines) + 1
        BY <1>0
      <4>3. 1..(Len(state.lines) + 1) \in SUBSET Int /\ Len(state.lines) + 1 \in Int
        BY <1>0
      <4> QED
        BY <3>1, <4>1, <4>2, <4>3 DEF Range
    <3>4. Range(next.lines) = {n \in WorkLines(text) : n <= k}
      BY <1>1, <2>1, <3>3, WorkGoesOn DEF ReadUpTo
    <3>5. ASSUME NEW i \in 1..Len(next.lines), NEW j \in 1..Len(next.lines), i < j
          PROVE  next.lines[i] < next.lines[j]
      <4>1. i \in 1..Len(state.lines) /\ (j \in 1..Len(state.lines) \/ j = Len(state.lines) + 1)
        BY <1>0, <3>1, <3>5
      <4> QED
        BY <3>1, <3>2, <3>5, <4>1 DEF ReadUpTo
    <3> QED
      BY <3>4, <3>5
  <2>2. CASE ~(text[k] = "bullet" /\ ~state.in_rationale)
    BY <1>1, <1>4, <2>2, WorkGoesOn DEF ReadUpTo
  <2> QED
    BY <2>1, <2>2
<1>9. ReadUpTo(text, k, next)
  BY <1>5, <1>6, <1>7, <1>8 DEF ReadUpTo
<1> QED
  BY <1>9 DEF next

\* The loop over the lines ends with what the text describes.
LEMMA ParserReadsTheText ==
  ASSUME NEW text \in Seq(LineKind)
  PROVE  ReadUpTo(text, Len(text), FoldLeft(parse_line, ParserStart, splitlines(text)))
<1> DEFINE w == splitlines(text)
<1>0. /\ Len(text) \in Nat /\ DOMAIN w = 1..Len(text)
      /\ \A k \in 1..Len(text) : w[k] = [number |-> k, kind |-> text[k]]
  BY DEF splitlines
<1> HIDE DEF w
<1>1. PICK p : /\ p = [k \in 0..Len(text) |-> p[k]]
               /\ p[0] = ParserStart
               /\ \A k \in 1..Len(text) : p[k] = parse_line(p[k - 1], w[k])
               /\ Parsing!FoldLeft(parse_line, ParserStart, w) = p[Len(text)]
  BY <1>0, Parsing!FoldIsALoop
<1>2. FoldLeft(parse_line, ParserStart, w) = Parsing!FoldLeft(parse_line, ParserStart, w)
  BY DEF FoldLeft, MapThenFoldSet, Max,
         Parsing!FoldLeft, Parsing!MapThenFoldSet, Parsing!Max
<1>3. ReadUpTo(text, 0, p[0])
  <2>1. ParserStart \in Parser /\ ParserStart.in_rationale = FALSE
        /\ ParserStart.reorder = 0 /\ ParserStart.lines = <<>>
    BY DEF ParserStart, Parser
  <2>2. ~InRationale(text, 0 + 1)
    BY DEF InRationale
  <2>3. Range(ParserStart.lines) = {}
    BY <2>1 DEF Range
  <2>4. {n \in WorkLines(text) : n <= 0} = {}
    BY DEF WorkLines
  <2> QED
    BY <1>1, <2>1, <2>2, <2>3, <2>4 DEF ReadUpTo
<1> DEFINE T == {k \in 0..Len(text) : ~ReadUpTo(text, k, p[k])}
<1>4. T = {}
  <2> SUFFICES ASSUME T # {} PROVE FALSE
    OBVIOUS
  <2>1. T \in SUBSET Nat
    OBVIOUS
  <2>2. PICK k \in T : \A m \in T : k <= m
    <3> HIDE DEF T
    <3> QED BY <2>1, Parsing!LeastNumber
  <2>3. k \in 1..Len(text)
    BY <1>0, <1>3, <2>2
  <2>4. ReadUpTo(text, k - 1, p[k - 1])
    BY <2>2, <2>3
  <2>5. p[k] = parse_line(p[k - 1], [number |-> k, kind |-> text[k]])
    BY <1>0, <1>1, <2>3
  <2> QED
    BY <2>2, <2>3, <2>4, <2>5, ParserGoesOn
<1>5. ReadUpTo(text, Len(text), p[Len(text)])
  BY <1>0, <1>4
<1> QED
  BY <1>1, <1>2, <1>5 DEF w

\* The mapping is a loop over the actions.
LEMMA MappingIsALoop ==
  ASSUME NEW n \in Nat, NEW actions, DOMAIN actions = 1..n
  PROVE  \E p : /\ p[0] = <<>>
                /\ \A k \in 1..n : p[k] = map_action(p[k - 1], actions[k])
                /\ map_recommendation_to_cmms(actions) = p[n]
<1>1. PICK p : /\ p = [k \in 0..n |-> p[k]]
               /\ p[0] = <<>>
               /\ \A k \in 1..n : p[k] = map_action(p[k - 1], actions[k])
               /\ Mapping!FoldLeft(map_action, <<>>, actions) = p[n]
  BY Mapping!FoldIsALoop
<1>2. map_recommendation_to_cmms(actions) = Mapping!FoldLeft(map_action, <<>>, actions)
  BY DEF map_recommendation_to_cmms, FoldLeft, MapThenFoldSet, Max,
         Mapping!FoldLeft, Mapping!MapThenFoldSet, Mapping!Max
<1> QED
  BY <1>1, <1>2

\* Nothing is left out of a list of operations that the agent may execute.
LEMMA ExecutableStays ==
  ASSUME NEW Action, NEW actions \in Seq(Action),
         \A i \in 1..Len(actions) : actions[i].type # "manual"
  PROVE  map_recommendation_to_cmms(actions) = actions
<1>0. PICK n \in Nat : n = Len(actions)
  OBVIOUS
<1>1. PICK p : /\ p[0] = <<>>
               /\ \A k \in 1..n : p[k] = map_action(p[k - 1], actions[k])
               /\ map_recommendation_to_cmms(actions) = p[n]
  <2>1. DOMAIN actions = 1..n
    BY <1>0
  <2> QED
    BY <2>1, MappingIsALoop
<1> DEFINE Prefix(k) == [i \in 1..k |-> actions[i]]
           T == {k \in 0..n : p[k] # Prefix(k)}
<1>3. T = {}
  <2> SUFFICES ASSUME T # {} PROVE FALSE
    OBVIOUS
  <2>1. T \in SUBSET Nat
    OBVIOUS
  <2>2. PICK k \in T : \A m \in T : k <= m
    <3> HIDE DEF T
    <3> QED BY <2>1, Mapping!LeastNumber
  <2>3. k \in 1..n
    BY <1>1, <2>2
  <2>4. p[k - 1] = Prefix(k - 1)
    BY <2>2, <2>3
  <2>5. p[k] = Append(Prefix(k - 1), actions[k])
    BY <1>0, <1>1, <2>3, <2>4 DEF map_action
  <2>6. Append(Prefix(k - 1), actions[k]) = Prefix(k)
    <3>1. Prefix(k - 1) \in Seq(Action) /\ Len(Prefix(k - 1)) = k - 1
      BY <1>0, <2>3
    <3> QED
      BY <2>3, <3>1
  <2> QED
    BY <2>2, <2>5, <2>6
<1>4. p[n] = Prefix(n)
  <2>1. n \in 0..n
    OBVIOUS
  <2> QED
    BY <1>3, <2>1
<1>5. actions = Prefix(n)
  BY <1>0
<1> QED
  BY <1>1, <1>4, <1>5

\* A work order for each of l lines, then the reorder unless its line is 0.
Operation == [type : {"work_order", "product_reorder"}, line : Nat]
Parts(text, lines, l, reorder, operations, n) ==
  /\ lines \in [1..l -> Nat]
  /\ Range(lines) = WorkLines(text)
  /\ \A i, j \in 1..l : i < j => lines[i] < lines[j]
  /\ ReorderLines(text) = {reorder} \ {0}
  /\ operations \in [1..n -> Operation]
  /\ reorder = 0 => n = l
  /\ reorder # 0 => n = l + 1
  /\ \A k \in 1..l : operations[k] = [type |-> "work_order", line |-> lines[k]]
  /\ reorder # 0 => operations[l + 1] = [type |-> "product_reorder", line |-> reorder]

\* That is what a text asks for.
LEMMA PartsAreAskedFor ==
  ASSUME NEW text, NEW lines, NEW l \in Nat, NEW reorder \in Nat,
         NEW operations, NEW n \in Nat, Parts(text, lines, l, reorder, operations, n)
  PROVE  /\ Asked(text, operations)
         /\ \A k \in 1..n : operations[k].type # "manual"
<1> USE DEF Parts, Operation
<1>0. /\ \A k \in Int : k \in 1..n <=> k \in 1..l \/ (k = l + 1 /\ reorder # 0)
      /\ \A k \in 1..n : k \in Int
  OBVIOUS
<1> DEFINE order(k) == [type |-> "work_order", line |-> lines[k]]
<1>00. ASSUME NEW k \in 1..l
       PROVE  /\ operations[k] = order(k)
              /\ operations[k].type = "work_order"
              /\ operations[k].line = lines[k]
  <2>1. operations[k] = order(k)
    OBVIOUS
  <2>2. order(k).type = "work_order" /\ order(k).line = lines[k]
    OBVIOUS
  <2> HIDE DEF order
  <2> QED
    BY ONLY <2>1, <2>2
<1>1. ASSUME NEW operation \in Range(operations)
      PROVE  operation \in [type : {"work_order"}, line : WorkLines(text)] \cup
                           [type : {"product_reorder"}, line : ReorderLines(text)]
  <2>1. PICK k \in 1..n : operation = operations[k]
    BY <1>1 DEF Range
  <2>2. CASE k \in 1..l
    <3>1. lines[k] \in WorkLines(text)
      BY <2>2 DEF Range
    <3>2. order(k) \in [type : {"work_order"}, line : WorkLines(text)]
      BY <3>1
    <3> QED
      BY <1>00, <2>1, <2>2, <3>2
  <2>3. CASE k = l + 1 /\ reorder # 0
    <3>1. reorder \in ReorderLines(text)
      BY <2>3
    <3> QED
      BY <2>1, <2>3, <3>1
  <2> QED
    BY <1>0, <2>2, <2>3
<1>2. ASSUME NEW line \in WorkLines(text)
      PROVE  [type |-> "work_order", line |-> line] \in Range(operations)
  <2>1. PICK k \in 1..l : line = lines[k]
    BY DEF Range
  <2>2. k \in 1..n
    BY <1>0
  <2> QED
    BY <2>1, <2>2 DEF Range
<1>3. ASSUME NEW line \in ReorderLines(text)
      PROVE  [type |-> "product_reorder", line |-> line] \in Range(operations)
  <2>1. line = reorder /\ reorder # 0
    BY <1>3
  <2>2. l + 1 \in 1..n
    BY <1>0, <2>1
  <2> QED
    BY <2>1, <2>2 DEF Range
<1>4. Range(operations) = [type : {"work_order"}, line : WorkLines(text)] \cup
                          [type : {"product_reorder"}, line : ReorderLines(text)]
  <2>1. \A o \in [type : {"work_order"}, line : WorkLines(text)] :
          o = [type |-> "work_order", line |-> o.line] /\ o.line \in WorkLines(text)
    OBVIOUS
  <2>2. \A o \in [type : {"product_reorder"}, line : ReorderLines(text)] :
          o = [type |-> "product_reorder", line |-> o.line] /\ o.line \in ReorderLines(text)
    OBVIOUS
  <2>3. [type : {"work_order"}, line : WorkLines(text)] \subseteq Range(operations)
    BY <1>2, <2>1
  <2>4. [type : {"product_reorder"}, line : ReorderLines(text)] \subseteq Range(operations)
    BY <1>3, <2>2
  <2> QED
    BY <1>1, <2>3, <2>4
<1>5. ASSUME NEW i \in DOMAIN operations, NEW j \in DOMAIN operations, i < j
      PROVE  /\ operations[i].type = "work_order"
             /\ operations[j].type = "work_order" => operations[i].line < operations[j].line
  <2>0. i \in 1..n /\ j \in 1..n
    BY <1>5
  <2>1. i \in 1..l /\ (j \in 1..l \/ (j = l + 1 /\ reorder # 0))
    <3>1. i \in Int /\ j \in Int /\ j <= l + 1
      BY <1>0, <2>0
    <3> QED
      BY <1>0, <1>5, <2>0, <3>1
  <2>2. CASE j \in 1..l
    BY <1>00, <1>5, <2>1, <2>2
  <2>3. CASE j = l + 1 /\ reorder # 0
    <3>1. operations[j].type = "product_reorder"
      BY <2>3
    <3> QED
      BY <1>00, <2>1, <3>1
  <2> QED
    BY <2>1, <2>2, <2>3
<1>6. ASSUME NEW k \in 1..n
      PROVE  operations[k].type # "manual"
  <2>1. CASE k \in 1..l
    BY <1>00, <2>1
  <2>2. CASE k = l + 1 /\ reorder # 0
    BY <2>2
  <2> QED
    BY <1>0, <2>1, <2>2
<1>7. Asked(text, operations)
  BY <1>4, <1>5 DEF Asked
<1> QED
  BY <1>6, <1>7

\* One list after another of at most one member.
LEMMA AtMostOneMore ==
  ASSUME NEW S, NEW s \in Seq(S), NEW t \in Seq(S), NEW l \in Nat, Len(s) = l,
         Len(t) = 0 \/ Len(t) = 1
  PROVE  /\ s \o t \in Seq(S)
         /\ Len(s \o t) = l + Len(t)
         /\ \A k \in 1..l : (s \o t)[k] = s[k]
         /\ Len(t) = 1 => (s \o t)[l + 1] = t[1]
OBVIOUS

\* The agent executes what the text asks for, whatever the planner wrote.
LEMMA TextIsReadAsWritten ==
  ASSUME NEW text \in Seq(LineKind)
  PROVE  ReadAsWritten(text)
<1> DEFINE end == FoldLeft(parse_line, ParserStart, splitlines(text))
           Work(lines) == [k \in 1..Len(lines) |->
                             [type |-> "work_order", line |-> lines[k]]]
           Reorders(reorder) ==
             IF reorder = 0 THEN <<>>
             ELSE <<[type |-> "product_reorder", line |-> reorder]>>
           manual == [type |-> "manual", line |-> 0]
<1>1. ReadUpTo(text, Len(text), end)
  BY ParserReadsTheText
<1>2. parse_recommendation(text) =
        IF Work(end.lines) \o Reorders(end.reorder) = <<>> THEN <<manual>>
        ELSE Work(end.lines) \o Reorders(end.reorder)
  BY DEF parse_recommendation
<1> HIDE DEF end
<1>3. PICK lines \in Seq(Nat), reorder \in Nat : lines = end.lines /\ reorder = end.reorder
  BY <1>1 DEF ReadUpTo, Parser
<1>4. PICK l \in Nat : l = Len(lines)
  OBVIOUS
<1>5. /\ lines \in [1..l -> Nat]
      /\ Range(lines) = WorkLines(text)
      /\ \A i, j \in 1..l : i < j => lines[i] < lines[j]
      /\ ReorderLines(text) = {reorder} \ {0}
  <2>1. {n \in WorkLines(text) : n <= Len(text)} = WorkLines(text)
    BY DEF WorkLines
  <2>2. /\ Range(lines) = {n \in WorkLines(text) : n <= Len(text)}
        /\ \A i, j \in 1..Len(lines) : i < j => lines[i] < lines[j]
        /\ {n \in 1..Len(text) : /\ text[n] = "reorder"
                                /\ \A m \in (n + 1)..Len(text) : text[m] \notin ReorderKind}
             = {reorder} \ {0}
    BY <1>1, <1>3, Zenon DEF ReadUpTo
  <2>3. lines \in [1..l -> Nat]
    BY <1>4
  <2> QED
    BY <1>4, <2>1, <2>2, <2>3 DEF ReorderLines
<1>6. /\ Work(lines) \in Seq(Operation) /\ Len(Work(lines)) = l
      /\ \A k \in 1..l : Work(lines)[k] = [type |-> "work_order", line |-> lines[k]]
  BY <1>4 DEF Operation
<1>7. /\ Reorders(reorder) \in Seq(Operation)
      /\ reorder = 0 => Len(Reorders(reorder)) = 0
      /\ reorder # 0 => /\ Len(Reorders(reorder)) = 1
                        /\ Reorders(reorder)[1] = [type |-> "product_reorder", line |-> reorder]
  <2>1. CASE reorder = 0
    BY <2>1
  <2>2. CASE reorder # 0
    <3>1. [type |-> "product_reorder", line |-> reorder] \in Operation
      BY DEF Operation
    <3> QED
      BY <2>2, <3>1
  <2> QED
    BY <2>1, <2>2
<1>8. parse_recommendation(text) =
        IF Work(lines) \o Reorders(reorder) = <<>> THEN <<manual>>
        ELSE Work(lines) \o Reorders(reorder)
  BY <1>2, <1>3
<1> HIDE DEF Work, Reorders
<1>9. PICK operations \in Seq(Operation) : operations = Work(lines) \o Reorders(reorder)
  BY <1>6, <1>7, AtMostOneMore
<1>10. PICK n \in Nat : n = Len(operations)
  OBVIOUS
<1>11. /\ reorder = 0 => n = l
       /\ reorder # 0 => n = l + 1
       /\ \A k \in 1..l : operations[k] = [type |-> "work_order", line |-> lines[k]]
       /\ reorder # 0 => operations[l + 1] = [type |-> "product_reorder", line |-> reorder]
  <2>1. /\ Len(operations) = l + Len(Reorders(reorder))
        /\ \A k \in 1..l : operations[k] = Work(lines)[k]
        /\ Len(Reorders(reorder)) = 1 => operations[l + 1] = Reorders(reorder)[1]
    <3>1. Len(Reorders(reorder)) = 0 \/ Len(Reorders(reorder)) = 1
      BY <1>7
    <3> QED
      BY <1>6, <1>7, <1>9, <3>1, AtMostOneMore
  <2>2. reorder = 0 => n = l
    BY <1>7, <1>10, <2>1
  <2>3. reorder # 0 => n = l + 1
    BY <1>7, <1>10, <2>1
  <2>4. \A k \in 1..l : operations[k] = [type |-> "work_order", line |-> lines[k]]
    BY ONLY <1>6, <2>1
  <2>5. reorder # 0 => operations[l + 1] = [type |-> "product_reorder", line |-> reorder]
    BY ONLY <1>7, <2>1
  <2> QED
    BY ONLY <2>2, <2>3, <2>4, <2>5
<1>12. operations \in [1..n -> Operation]
  BY <1>10
<1>13. Asked(text, operations) /\ \A k \in 1..n : operations[k].type # "manual"
  <2>1. Parts(text, lines, l, reorder, operations, n)
    BY ONLY <1>5, <1>11, <1>12 DEF Parts
  <2> QED
    BY <2>1, PartsAreAskedFor
<1>14. CASE operations = <<>>
  <2>1. parse_recommendation(text) = <<manual>>
    BY <1>8, <1>9, <1>14
  <2>2. map_recommendation_to_cmms(<<manual>>) = <<>>
    <3>1. DOMAIN <<manual>> = 1..1 /\ <<manual>>[1] = manual /\ 1 \in Nat
      OBVIOUS
    <3> HIDE DEF manual
    <3>2. PICK p : /\ p[0] = <<>>
                   /\ \A k \in 1..1 : p[k] = map_action(p[k - 1], <<manual>>[k])
                   /\ map_recommendation_to_cmms(<<manual>>) = p[1]
      BY <3>1, MappingIsALoop
    <3>3. p[1] = map_action(p[0], manual)
      BY <3>1, <3>2
    <3> QED
      BY <3>2, <3>3 DEF map_action, manual
  <2> QED
    BY <1>13, <1>14, <2>1, <2>2 DEF ReadAsWritten
<1>15. CASE operations # <<>>
  <2>1. map_recommendation_to_cmms(operations) = operations
    BY <1>10, <1>13, ExecutableStays
  <2> QED
    BY <1>8, <1>9, <1>13, <1>15, <2>1 DEF ReadAsWritten
<1> QED
  BY <1>14, <1>15

-----------------------------------------------------------------------------
(* Theorems *)

LEMMA InvInit == Init => ReasoningInv
<1> SUFFICES ASSUME Init PROVE ReasoningInv
  OBVIOUS
<1> USE DEF Init, CaseInit, RootCauseInit, PlannerInit, AskInit
<1>1. ReasoningTypeOK
  BY TypesInit
<1>2. CitationInv
  BY DEF CitationInv, Sound, NoInquiry, NoDiagnosis, NoMaterial, Citable
<1>3. AskInv
  BY DEF AskInv, NoReply, NoMaterial, Citable
<1>4. StageInv
  <2>1. Len(queue) = 0
    OBVIOUS
  <2>2. 1..0 = {}
    OBVIOUS
  <2> QED
    BY <2>1, <2>2
    DEF StageInv, Waiting, Underway, PlannerStep, NoPlan, NoDiagnosis
<1>5. LogInv /\ PlanningIsVisible
  <2>1. /\ planning.log = <<>> /\ planning.asked = <<>> /\ planning.pending = <<>>
        /\ plan.log = <<>> /\ plan.asked = <<>>
    BY DEF NoPlanning, NoPlan
  <2>2. Len(planning.log) = 0 /\ Len(planning.asked) = 0 /\ Len(planning.pending) = 0
        /\ Len(plan.log) = 0 /\ Len(plan.asked) = 0 /\ 1..0 = {}
    BY <2>1
  <2> QED
    BY <2>1, <2>2 DEF LogInv, PlanningIsVisible
<1> QED
  BY <1>1, <1>2, <1>3, <1>4, <1>5 DEF ReasoningInv

LEMMA InvNext == ReasoningInv /\ [Next]_vars => ReasoningInv'
  BY TypesNext, CitationNext, StageNext, LogNext DEF ReasoningInv

\* What the reasoning agents keep, whatever fails.
THEOREM ReasoningInvariant == Spec => []ReasoningInv
  BY InvInit, InvNext, PTL DEF Spec

\* Every variable keeps its type, and the listener is idle exactly when it
\* has no message.
THEOREM ReasoningTypes == Spec => []ReasoningTypeOK
<1>1. ReasoningInv => ReasoningTypeOK
  BY DEF ReasoningInv
<1> QED
  BY <1>1, ReasoningInvariant, PTL

\* Whatever a model answers, what is recorded or shown to an operator cites
\* only what the model was shown.
THEOREM CitationsHold == Spec => []CitesOnlyWhatWasShown
<1>1. ReasoningInv => CitesOnlyWhatWasShown
  <2> SUFFICES ASSUME ReasoningInv PROVE CitesOnlyWhatWasShown
    OBVIOUS
  <2>1. CitationInv /\ AskInv
    BY DEF ReasoningInv
  <2> QED
    BY <2>1 DEF CitationInv, AskInv, CitesOnlyWhatWasShown
<1> QED
  BY <1>1, ReasoningInvariant, PTL

\* The saved tool log has every call the model made, once, in its order and
\* its round, for any calls in any number of rounds.
THEOREM PlanningStaysVisible == Spec => []PlanningIsVisible
<1>1. ReasoningInv => PlanningIsVisible
  BY DEF ReasoningInv
<1> QED
  BY <1>1, ReasoningInvariant, PTL
\* The operations taken from a recorded recommendation are the ones its text
\* proposes, and so it would be for texts of any length.
THEOREM RecommendationIsTheText == Spec => []RecommendedIsWhatWasWritten
<1>1. EveryTextIsReadAsWritten
  BY TextIsReadAsWritten, LinesAssumption DEF EveryTextIsReadAsWritten
<1>2. ReasoningTypeOK => RecommendedIsWhatWasWritten
  <2> SUFFICES ASSUME ReasoningTypeOK PROVE ReadAsWritten(plan.text)
    BY <1>1 DEF RecommendedIsWhatWasWritten
  <2>1. plan.text \in Seq(LineKind)
    BY DEF ReasoningTypeOK, PlannerTypeOK, PlanOfRow
  <2> QED
    BY <2>1, TextIsReadAsWritten
<1> QED
  BY <1>2, ReasoningTypes, PTL

\* The start of the agents is the start of an investigation.
LEMMA InquestInit ==
  ASSUME Init
  PROVE  Inquest!InvestigationInit
<1>1. recorded = {} /\ diagnosis = NoDiagnosis /\ plan = NoPlan
  BY DEF Init, CaseInit, PlannerInit
<1>2. NoDiagnosis.kind = "none" /\ NoDiagnosis.cited = {}
  BY DEF NoDiagnosis
<1>3. Finding(NoDiagnosis) = Inquest!NoFinding
  BY <1>2 DEF Finding, Inquest!NoFinding
<1>4. plan.made = FALSE /\ plan.basis = NoDiagnosis
  BY <1>1 DEF NoPlan
<1>5. [made |-> plan.made, basis |-> Finding(plan.basis)] =
        [made |-> FALSE, basis |-> Inquest!NoFinding]
  BY <1>3, <1>4
<1> QED
  BY <1>1, <1>3, <1>5 DEF Inquest!InvestigationInit

\* Steps that leave the diagnosis and the plan alone record, or do nothing.
LEMMA InquestRecords ==
  ASSUME ReasoningTypeOK', recorded \subseteq recorded', UNCHANGED <<diagnosis, plan>>
  PROVE  Inquest!Record
<1>1. recorded' \subseteq Sensors \cup Docs
  BY DEF ReasoningTypeOK, CaseTypeOK
<1>2. /\ Finding(diagnosis)' = Finding(diagnosis)
      /\ UNCHANGED [made |-> plan.made, basis |-> Finding(plan.basis)]
  BY DEF Finding
<1> QED
  BY <1>1, <1>2 DEF Inquest!Record

\* Saving the diagnosis concludes: there was none, and it cites the record.
LEMMA InquestConcludes ==
  ASSUME ReasoningInv, diagnosis_save, UNCHANGED plannerVars
  PROVE  Inquest!Conclude
<1>1. /\ diagnosis.kind = "none" /\ diagnosis.cited = {}
      /\ diagnosis' = inquiry.draft /\ Sound(inquiry.draft)
      /\ inquiry.draft \in Diagnosis
      /\ recorded \subseteq Sensors \cup Docs
  BY DEF ReasoningInv, CitationInv, diagnosis_save, ReasoningTypeOK, CaseTypeOK,
         RootCauseTypeOK, Inquiry
<1>2. Finding(diagnosis) = Inquest!NoFinding
  BY <1>1 DEF Finding, Inquest!NoFinding
<1>3. /\ inquiry.draft.kind \in {"none", "cited", "insufficient", "withheld"}
      /\ inquiry.draft.kind # "none"
      /\ inquiry.draft.cited \subseteq recorded
      /\ inquiry.draft.kind = "cited" <=> inquiry.draft.cited # {}
  BY <1>1 DEF Sound, Diagnosis
<1>4. Finding(diagnosis)' = [kind |-> inquiry.draft.kind, cited |-> inquiry.draft.cited]
  BY <1>1 DEF Finding
<1>5. Finding(diagnosis)' \in Inquest!Finding
  BY <1>1, <1>3, <1>4 DEF Inquest!Finding
<1>6. UNCHANGED <<recorded, [made |-> plan.made, basis |-> Finding(plan.basis)]>>
  BY DEF diagnosis_save, plannerVars, Finding
<1> QED
  BY <1>2, <1>3, <1>4, <1>5, <1>6 DEF Inquest!Conclude

\* Saving the recommendation proposes: there was none, and its basis is the
\* diagnosis of the row, which was not withheld.
LEMMA InquestProposes ==
  ASSUME ReasoningInv, plan_save
  PROVE  Inquest!Propose
<1>1. /\ diagnosis.kind \in {"cited", "insufficient"} /\ ~plan.made
      /\ planning.basis = diagnosis
  BY DEF ReasoningInv, StageInv, Underway, PlannerStep, plan_save
<1>2. /\ plan'.made = TRUE /\ plan'.basis = diagnosis
      /\ UNCHANGED <<diagnosis, recorded>>
  BY <1>1 DEF plan_save, rowVars
<1>3. [made |-> plan.made, basis |-> Finding(plan.basis)]' =
        [made |-> TRUE, basis |-> Finding(diagnosis)]
  BY <1>2 DEF Finding
<1> QED
  BY <1>1, <1>2, <1>3 DEF Inquest!Propose, Finding

LEMMA InquestStep ==
  ASSUME ReasoningInv, ReasoningInv', [Next]_vars
  PROVE  [Inquest!InvestigationNext]_<<recorded, Finding(diagnosis),
           [made |-> plan.made, basis |-> Finding(plan.basis)]>>
<1>0. ReasoningTypeOK'
  BY DEF ReasoningInv
<1>1. CASE Diagnose /\ diagnosis_save
  BY <1>1, InquestConcludes DEF Diagnose, Inquest!InvestigationNext
<1>2. CASE Plan /\ plan_save
  BY <1>2, InquestProposes DEF Inquest!InvestigationNext
<1>3. CASE recorded \subseteq recorded' /\ UNCHANGED <<diagnosis, plan>>
  BY <1>0, <1>3, InquestRecords DEF Inquest!InvestigationNext
<1>4. ASSUME Next, ~(Diagnose /\ diagnosis_save), ~(Plan /\ plan_save)
      PROVE  recorded \subseteq recorded' /\ UNCHANGED <<diagnosis, plan>>
  <2> USE DEF rowVars, plannerVars
  <2>1. CASE Detect
    BY <2>1 DEF Detect, persist_incident
  <2>2. CASE Dispatch
    BY <2>2 DEF Dispatch, dispatch
  <2>3. CASE Diagnose
    BY <1>4, <2>3
    DEF Diagnose, DiagnosisStep, retrieve, evidence_save, nudge, root_cause_read,
        signature_wait, evidence_wait, generate, diagnosis_publish
  <2>4. CASE Plan
    BY <1>4, <2>4
    DEF Plan, PlanningStep, assess, plan_read, chat_calls, chat_text, tool
  <2>5. CASE Raise
    BY <2>5 DEF Raise, knowledge_raises, root_cause_raises, planner_raises
  <2>6. CASE AskAndAnswer
    BY <2>6 DEF AskAndAnswer, AskStep, caseVars
  <2> QED
    BY <1>4, <2>1, <2>2, <2>3, <2>4, <2>5, <2>6 DEF Next, Listen
<1>5. CASE UNCHANGED vars
  BY <1>3, <1>5 DEF vars, caseVars, rowVars, plannerVars
<1> QED
  BY <1>1, <1>2, <1>3, <1>4, <1>5

\* The agents implement the investigation: one finding, citing the record,
\* and one proposal, made from it.
THEOREM AgentsImplementInvestigation == Spec => InvestigationSpec
<1>1. Init => Inquest!InvestigationInit
  BY InquestInit
<1>2. ReasoningInv /\ ReasoningInv' /\ [Next]_vars =>
        [Inquest!InvestigationNext]_<<recorded, Finding(diagnosis),
           [made |-> plan.made, basis |-> Finding(plan.basis)]>>
  BY InquestStep
<1> QED
  BY <1>1, <1>2, ReasoningInvariant, PTL
  DEF Spec, InvestigationSpec, Inquest!InvestigationSpec
=============================================================================
