--------------------------- MODULE RecommendationText ---------------------------
(***************************************************************************)
(* From the planner's final text to external operations: the parser of     *)
(* agents/recommendation/agent.py and the mapping of agents/action.        *)
(*                                                                         *)
(* A text is the sequence of its lines' kinds; an action refers to the     *)
(* line it came from (0: to the whole text).  A "bullet" is a line that    *)
(* begins with 1. to 9., - or *, so also a heading set in **bold**; "prose"*)
(* is any other, so also an item numbered 10 or more.  Of the reorder      *)
(* lines, an "unreadable" one does not match the pattern, and a "bad" one  *)
(* matches with a quantity such as 1.2.3, which float() refuses.           *)
(***************************************************************************)
EXTENDS Integers, Sequences, SequencesExt

LineKind == {"bullet", "prose", "rationale", "hitl_note",
             "reorder", "reorder_unreadable", "reorder_bad"}
ReorderKind == {"reorder", "reorder_unreadable", "reorder_bad"}

\* The actions an agent can record, in order of priority.
ActionType == {"work_order", "product_reorder", "manual"}

Parser == [in_rationale : BOOLEAN, lines : Seq(Nat), reorder : Nat]
ParserStart == [in_rationale |-> FALSE, lines |-> <<>>, reorder |-> 0]

\* Faulty variant: the rationale never ends, the first reorder line is kept.
parse_line_one_rationale(state, line) ==
  CASE line.kind \in ReorderKind /\ state.reorder = 0 ->
         [state EXCEPT !.reorder = IF line.kind = "reorder" THEN line.number ELSE 0]
    [] line.kind = "rationale" -> [state EXCEPT !.in_rationale = TRUE]
    [] line.kind = "bullet" /\ ~state.in_rationale ->
         [state EXCEPT !.lines = Append(@, line.number)]
    [] OTHER -> state

\* One turn of the loop over the lines: a reorder line counts anywhere and
\* replaces the one before, unreadable ones included; bullets count outside
\* the rationale, which lasts until the HITL note.
parse_line(state, line) ==
  CASE line.kind \in ReorderKind ->
         [state EXCEPT !.reorder = IF line.kind = "reorder" THEN line.number ELSE 0]
    [] line.kind = "rationale" -> [state EXCEPT !.in_rationale = TRUE]
    [] line.kind = "hitl_note" -> [state EXCEPT !.in_rationale = FALSE]
    [] line.kind = "bullet" /\ ~state.in_rationale ->
         [state EXCEPT !.lines = Append(@, line.number)]
    [] OTHER -> state

\* float() raises out of the parser, and so out of the agent's handler.
parsing_raises(text) == \E n \in 1..Len(text) : text[n] = "reorder_bad"

splitlines(text) == [n \in 1..Len(text) |-> [number |-> n, kind |-> text[n]]]

parse_recommendation(text) ==
  LET end == FoldLeft(parse_line, ParserStart, splitlines(text))
      work == [k \in 1..Len(end.lines) |->
                 [type |-> "work_order", line |-> end.lines[k]]]
      reorders == IF end.reorder = 0 THEN <<>>
                  ELSE <<[type |-> "product_reorder", line |-> end.reorder]>>
  IN IF work \o reorders = <<>> THEN <<[type |-> "manual", line |-> 0]>>
     ELSE work \o reorders

\* Manual actions are reported, not executed.
map_action(operations, action) ==
  IF action.type = "manual" THEN operations ELSE Append(operations, action)

map_recommendation_to_cmms(actions) == FoldLeft(map_action, <<>>, actions)

-----------------------------------------------------------------------------
(* The same by a description of the text instead of a loop over it. *)

\* A line belongs to the rationale from its heading to the next HITL note.
InRationale(text, n) ==
  \E m \in 1..(n - 1) :
    text[m] = "rationale" /\ \A k \in (m + 1)..(n - 1) : text[k] # "hitl_note"

WorkLines(text) ==
  {n \in 1..Len(text) : text[n] = "bullet" /\ ~InRationale(text, n)}

\* The last line that speaks of a reorder, when it is readable.
ReorderLines(text) ==
  {n \in 1..Len(text) :
     /\ text[n] = "reorder"
     /\ \A k \in (n + 1)..Len(text) : text[k] \notin ReorderKind}

\* The operations a text asks for, once each: a work order for every work line
\* in their order, then the reorder, if any.
Asked(text, operations) ==
  /\ Range(operations) =
       [type : {"work_order"}, line : WorkLines(text)] \cup
       [type : {"product_reorder"}, line : ReorderLines(text)]
  /\ \A i, j \in DOMAIN operations : i < j =>
       /\ operations[i].type = "work_order"
       /\ operations[j].type = "work_order" => operations[i].line < operations[j].line

ReadAsWritten(text) ==
  Asked(text, map_recommendation_to_cmms(parse_recommendation(text)))
=============================================================================
