------------------------------- MODULE Planner -------------------------------
(***************************************************************************)
(* The Recommendation Agent: a model that may call tools for some rounds,  *)
(* every call of it executed and logged, and then writes a text that is    *)
(* parsed into actions.  The Risk Agent between diagnosis and planning is  *)
(* one step here (its own steps: Orchestrator).                            *)
(***************************************************************************)
EXTENDS RootCause, RecommendationText

CONSTANTS
  MaxToolRounds,   \* MAX_TOOL_ROUNDS (4)
  Calls,           \* the sequences of tools a model may ask for in a round
  Texts            \* the texts it may write

KnownTool == {"get_equipment_maintenance_status", "get_similar_incident_outcomes"}
Tool == KnownTool \cup {"unknown"}

ASSUME PlannerAssumption ==
  /\ MaxToolRounds \in Nat
  /\ Calls \subseteq Seq(Tool) \ {<<>>}
  /\ Texts \subseteq Seq(LineKind)

VARIABLES
  planning,   \* local to the handler: see Planning
  plan        \* of the row: ToolCallLog, and the text whose parse
              \* (parse_recommendation) RecommendedActions holds

plannerVars == <<planning, plan>>

\* basis: the diagnosis read; asked: every call the model made, with its
\* round (history); pending: those of this round still to be executed.
Call == [round : Nat, tool : Tool]
Entry == [round : Nat, tool : Tool, ok : BOOLEAN]
Planning == [basis : Diagnosis, round : Nat, asked : Seq(Call),
             pending : Seq(Tool), log : Seq(Entry), text : Seq(LineKind)]
PlanOfRow == [made : BOOLEAN, basis : Diagnosis, asked : Seq(Call),
              log : Seq(Entry), text : Seq(LineKind)]
NoPlanning == [basis |-> NoDiagnosis, round |-> 0, asked |-> <<>>,
               pending |-> <<>>, log |-> <<>>, text |-> <<>>]
NoPlan == [made |-> FALSE, basis |-> NoDiagnosis, asked |-> <<>>, log |-> <<>>,
           text |-> <<>>]

PlannerTypeOK == planning \in Planning /\ plan \in PlanOfRow

PlannerInit == planning = NoPlanning /\ plan = NoPlan

\* The diagnosis is assessed and its risk announced.
assess ==
  /\ at = "assess"
  /\ publish("risk", {})
  /\ HandlerEnds
  /\ UNCHANGED <<rowVars, rootCauseVars, plannerVars>>

plan_read ==
  /\ at = "plan_read"
  /\ planning' = [NoPlanning EXCEPT !.basis = diagnosis, !.round = 1]
  /\ Goto("chat")
  /\ UNCHANGED <<rowVars, queue, rootCauseVars, plan>>

\* What the model answers in a round: a text, or calls when tools are
\* offered.  After the last round they are not, and calls are ignored.
tools_offered == planning.round <= MaxToolRounds

chat_calls ==
  /\ at = "chat"
  /\ tools_offered
  /\ \E calls \in Calls :
       planning' = [planning EXCEPT
         !.pending = calls,
         !.asked = @ \o [k \in 1..Len(calls) |->
                           [round |-> planning.round, tool |-> calls[k]]]]
  /\ Goto("tool")
  /\ UNCHANGED <<rowVars, queue, rootCauseVars, plan>>

\* A text that parses ends the loop; one that raises ends the handler (see
\* parsing_raises).
chat_text ==
  /\ at = "chat"
  /\ \E text \in Texts :
       IF parsing_raises(text)
       THEN /\ planning' = NoPlanning
            /\ lost' = TRUE
            /\ HandlerEnds
       ELSE /\ planning' = [planning EXCEPT !.text = text]
            /\ Goto("plan_save")
            /\ UNCHANGED lost
  /\ UNCHANGED <<rowVars, queue, found, inquiry, plan>>

\* _execute_tool: what a tool raises, and an unknown tool, is an error the
\* model can see.
execute_tool(tool) == IF tool \in KnownTool THEN BOOLEAN ELSE {FALSE}

\* Faulty variant: a tool that fails is not logged.
tool_logging_success ==
  /\ at = "tool"
  /\ \E ok \in execute_tool(Head(planning.pending)) :
       planning' = [planning EXCEPT
         !.pending = Tail(@),
         !.log = IF ok THEN Append(@, [round |-> planning.round,
                                       tool |-> Head(planning.pending), ok |-> ok])
                 ELSE @,
         !.round = IF Len(planning.pending) = 1 THEN @ + 1 ELSE @]
  /\ Goto(IF Len(planning.pending) = 1 THEN "chat" ELSE "tool")
  /\ UNCHANGED <<rowVars, queue, rootCauseVars, plan>>

\* One call executed and logged; after the last of a round, the next round.
tool ==
  /\ at = "tool"
  /\ \E ok \in execute_tool(Head(planning.pending)) :
       planning' = [planning EXCEPT
         !.pending = Tail(@),
         !.log = Append(@, [round |-> planning.round,
                            tool |-> Head(planning.pending), ok |-> ok]),
         !.round = IF Len(planning.pending) = 1 THEN @ + 1 ELSE @]
  /\ Goto(IF Len(planning.pending) = 1 THEN "chat" ELSE "tool")
  /\ UNCHANGED <<rowVars, queue, rootCauseVars, plan>>

\* save_recommendation (what follows it: Orchestrator).
plan_save ==
  /\ at = "plan_save"
  /\ plan' = [made |-> TRUE, basis |-> planning.basis, asked |-> planning.asked,
              log |-> planning.log, text |-> planning.text]
  /\ planning' = NoPlanning
  /\ HandlerEnds
  /\ UNCHANGED <<rowVars, queue, rootCauseVars>>

\* A tool's error is caught where it is called; any other ends the stage.
planner_raises ==
  /\ Raises /\ at \in PlannerStep \ {"tool"}
  /\ lost' = TRUE
  /\ planning' = NoPlanning
  /\ HandlerEnds
  /\ UNCHANGED <<rowVars, queue, found, inquiry, plan>>

PlanningStep ==
  assess \/ plan_read \/ chat_calls \/ chat_text \/ tool \/ plan_save
=============================================================================
