------------------------------- MODULE Citations -------------------------------
(***************************************************************************)
(* The citation check of agents/root_cause/agent.py, which decides whether *)
(* a model's answer may be recorded.  api/ask.py uses the same check of a  *)
(* single point.                                                           *)
(*                                                                         *)
(* A point is its tag and the names found in its text.  The check searches *)
(* for substrings, so a name counts when it occurs, whatever is meant.     *)
(***************************************************************************)
EXTENDS Integers, FiniteSets

CONSTANTS
  Sensors, Sops, Histories,   \* what exists and can be cited
  Invented                    \* names that exist nowhere

ASSUME NamesAssumption ==
  /\ Sensors \cap (Sops \cup Histories \cup Invented) = {}
  /\ Sops \cap (Histories \cup Invented) = {}
  /\ Histories \cap Invented = {}

Docs == Sops \cup Histories
Name == Sensors \cup Docs \cup Invented

\* What a prompt contains of the record.
Material == [sensors : SUBSET Sensors, docs : SUBSET Docs]
Citable(shown) == shown.sensors \cup shown.docs

Point == [tag : {"sensor", "sop", "history", "untagged"}, names : SUBSET Name]

\* An answer: where its line "Most likely cause: ..." stands, whether that
\* line has a confidence, its bullets, and whether the words "insufficient
\* evidence" occur while the first line has no hyphen.
Answer == [cause : {"first", "later", "none"}, confidence : BOOLEAN,
           points : SUBSET Point, insufficient : BOOLEAN]

\* Faulty variant: a tag decides what is cited, whatever was shown.
validate_point_by_tag(point, shown) ==
  CASE point.tag = "sensor"  -> point.names \cap Sensors
    [] point.tag = "sop"     -> point.names \cap (Sops \cup Invented)
    [] point.tag = "history" -> point.names \cap (Histories \cup Invented)
    [] OTHER                 -> point.names \cap shown.docs

\* The names a point may be credited to (the code takes the first it comes
\* across); none means the point is invalid.  Without a tag a document may
\* be named bare, an SOP before a historical incident.
validate_point(point, shown) ==
  LET sops    == point.names \cap shown.docs \cap Sops
      history == point.names \cap shown.docs \cap Histories
  IN CASE point.tag = "sensor"  -> point.names \cap shown.sensors
       [] point.tag = "sop"     -> sops
       [] point.tag = "history" -> history
       [] OTHER                 -> IF sops # {} THEN sops ELSE history

all_valid(points, shown) == \A p \in points : validate_point(p, shown) # {}

\* The citations a set of valid points can be recorded with: one for each.
citations(points, shown) ==
  {{credit[p] : p \in points} : credit \in
     {f \in [points -> Name] : \A p \in points : f[p] \in validate_point(p, shown)}}

\* The words "insufficient evidence" are looked for before anything else.
parse_and_validate(answer, shown) ==
  IF answer.insufficient THEN "insufficient"
  ELSE IF /\ answer.cause # "none"
          /\ answer.points # {}
          /\ all_valid(answer.points, shown)
          /\ answer.confidence
  THEN "cited" ELSE "rejected"
=============================================================================
