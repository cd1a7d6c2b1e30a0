------------------------------ MODULE HumanGate ------------------------------
(***************************************************************************)
(* What the pipeline promises about external writes, and nothing about how *)
(* it keeps the promise: a case is assessed once; people grant it, each of *)
(* them with the authority its level asks for; and only a granted case is  *)
(* ever acted on in an external system.  docs/security-model.md and the    *)
(* header of agents/action/agent.py state it in prose.                     *)
(***************************************************************************)
EXTENDS Integers

CONSTANTS Case, Person, Authority   \* Authority: the highest level of each

VARIABLES
  assessed,   \* the level of each case, 0 before it has one
  granted,    \* who has granted which case
  acted       \* the cases acted on

gateVars == <<assessed, granted, acted>>

GateInit ==
  /\ assessed = [i \in Case |-> 0]
  /\ granted = {}
  /\ acted = {}

Assess(i) ==
  /\ assessed[i] = 0
  /\ \E l \in 1..3 : assessed' = [assessed EXCEPT ![i] = l]
  /\ UNCHANGED <<granted, acted>>

\* Level 1 is for information only: nobody is asked, nobody can grant.
Grant(i, p) ==
  /\ assessed[i] >= 2
  /\ Authority[p] >= assessed[i]
  /\ granted' = granted \cup {<<i, p>>}
  /\ UNCHANGED <<assessed, acted>>

Act(i) ==
  /\ \E p \in Person : <<i, p>> \in granted
  /\ acted' = acted \cup {i}
  /\ UNCHANGED <<assessed, granted>>

GateNext == \E i \in Case : Assess(i) \/ Act(i) \/ \E p \in Person : Grant(i, p)

GateSpec == GateInit /\ [][GateNext]_gateVars
=============================================================================
