---------------------------- MODULE Investigation ----------------------------
(***************************************************************************)
(* What the reasoning agents promise about one incident, without prompts,  *)
(* attempts, waits or tools: findings cite what was on record, there is    *)
(* one finding, and a proposal is made once, from that finding, unless it  *)
(* was withheld.                                                           *)
(***************************************************************************)
CONSTANT Fact   \* what can be on record

VARIABLES
  known,      \* the facts recorded so far
  finding,    \* [kind, cited] of the diagnosis
  proposal    \* [made, basis]: whether there is one, and from which finding

Finding == [kind : {"none", "cited", "insufficient", "withheld"}, cited : SUBSET Fact]
NoFinding == [kind |-> "none", cited |-> {}]

InvestigationInit ==
  /\ known = {}
  /\ finding = NoFinding
  /\ proposal = [made |-> FALSE, basis |-> NoFinding]

Record ==
  /\ known \subseteq known' /\ known' \subseteq Fact
  /\ UNCHANGED <<finding, proposal>>

\* Citations come from the record, and only a finding that cites names any.
Conclude ==
  /\ finding = NoFinding
  /\ finding' \in Finding
  /\ finding'.kind # "none"
  /\ finding'.cited \subseteq known
  /\ finding'.kind = "cited" <=> finding'.cited # {}
  /\ UNCHANGED <<known, proposal>>

Propose ==
  /\ finding.kind \in {"cited", "insufficient"}
  /\ ~proposal.made
  /\ proposal' = [made |-> TRUE, basis |-> finding]
  /\ UNCHANGED <<known, finding>>

InvestigationNext == Record \/ Conclude \/ Propose

InvestigationSpec ==
  InvestigationInit /\ [][InvestigationNext]_<<known, finding, proposal>>
=============================================================================
