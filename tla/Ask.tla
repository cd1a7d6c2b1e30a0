--------------------------------- MODULE Ask ---------------------------------
(***************************************************************************)
(* api/ask.py: an operator's question about the incident.  The record is   *)
(* read once, the model answers once, and every bullet of the answer must  *)
(* pass the citation check of the Root-Cause Agent; prose is not checked.  *)
(* A request is a task of its own: the row may change before the answer.   *)
(***************************************************************************)
EXTENDS CaseFile

CONSTANT MaxQuestions   \* bound: questions in a behaviour

ASSUME AskAssumption == MaxQuestions \in Nat

VARIABLES
  questions,  \* questions so far
  question,   \* the request: whether one is being answered, and the record read
  reply       \* the last answer given

askVars == <<questions, question, reply>>

Reply == [grounded : BOOLEAN, cited : SUBSET Name, shown : Material]
NoReply == [grounded |-> FALSE, cited |-> {}, shown |-> NoMaterial]
NoQuestion == [asked |-> FALSE, shown |-> NoMaterial]

AskTypeOK ==
  /\ questions \in 0..MaxQuestions
  /\ question \in [asked : BOOLEAN, shown : Material]
  /\ reply \in Reply

AskInit == questions = 0 /\ question = NoQuestion /\ reply = NoReply

\* The context also repeats the recorded diagnosis, which the check ignores.
ask_read ==
  /\ ~question.asked
  /\ summary # {}
  /\ questions < MaxQuestions
  /\ questions' = questions + 1
  /\ question' = [asked |-> TRUE,
                  shown |-> [sensors |-> row.sensors, docs |-> row.evidence.docs]]
  /\ UNCHANGED reply

\* One answer: with its citations when every bullet is valid, otherwise the
\* fixed text (NoReply: nothing of the model's).
ask_answer ==
  /\ question.asked
  /\ \E answer \in Answers :
       IF all_valid(answer.points, question.shown)
       THEN \E cited \in citations(answer.points, question.shown) :
              reply' = [grounded |-> cited # {}, cited |-> cited,
                        shown |-> question.shown]
       ELSE reply' = NoReply
  /\ question' = NoQuestion
  /\ UNCHANGED questions

\* The model says that it has no evidence, or the call raises (HTTP 500).
ask_declined ==
  /\ question.asked
  /\ reply' = NoReply
  /\ question' = NoQuestion
  /\ UNCHANGED questions

AskStep == (ask_read \/ ask_answer \/ ask_declined) /\ UNCHANGED caseVars
=============================================================================
