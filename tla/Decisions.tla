------------------------------ MODULE Decisions ------------------------------
(***************************************************************************)
(* api/incidents.py: the two HITL decision endpoints and the manual        *)
(* resolve.  Every endpoint reads the incident, checks it and writes it in *)
(* separate awaits, so requests interleave with each other and with the    *)
(* bus handlers.  A request that a check refuses changes nothing and is    *)
(* not a step.                                                             *)
(***************************************************************************)
EXTENDS EventBus

CONSTANTS
  RoleOf,          \* the role claim of each client's token
  ClientSite,      \* the site_id claim
  EquipmentSite    \* the site an equipment's incidents belong to

ASSUME RoleAssumption == RoleOf \in [Client -> Role]

VARIABLE request   \* the request each client has in progress

NoRequest == [step |-> "idle", inc |-> NoIncident, decision |-> "none",
              level |-> 0]
Request ==
  {NoRequest}
  \cup [step : {"record"}, inc : Incident, decision : Decision, level : 1..3]
  \cup [step : {"publish"}, inc : Incident, decision : {"approved"}, level : 1..3]
  \cup [step : {"resolve"}, inc : Incident, decision : {"none"}, level : {0}]

DecisionsTypeOK == request \in [Client -> Request]
DecisionsInit == request = [c \in Client |-> NoRequest]

ensure_site(c, i) == ClientSite[c] = EquipmentSite[i[1]]
\* Faulty variant: any authenticated role may decide.
ensure_approval_level_any_role(c, l) == TRUE

ensure_approval_level(c, l) == max_approval_level[RoleOf[c]] >= l
ensure_role(c) == RoleOf[c] \in resolve_roles

RequestEnds(c) == request' = [request EXCEPT ![c] = NoRequest]

\* Faulty variant: the role is compared with the default level, not the row's.
decision_check_default_level(c, i, d) ==
  /\ request[c].step = "idle"
  /\ Exists(i)
  /\ ensure_site(c, i)
  /\ status[i] = "awaiting_approval"
  /\ ensure_approval_level(c, effective_level(0))
  /\ request' = [request EXCEPT ![c] =
       [step |-> "record", inc |-> i, decision |-> d,
        level |-> effective_level(level[i])]]
  /\ UNCHANGED <<busVars, storeVars>>

\* _record_decision up to its last check, on one read of the row.
decision_check(c, i, d) ==
  /\ request[c].step = "idle"
  /\ Exists(i)
  /\ ensure_site(c, i)
  /\ status[i] = "awaiting_approval"
  /\ ensure_approval_level(c, effective_level(level[i]))
  /\ request' = [request EXCEPT ![c] =
       [step |-> "record", inc |-> i, decision |-> d,
        level |-> effective_level(level[i])]]
  /\ UNCHANGED <<busVars, storeVars>>

\* record_approval: unconditional, whatever the status is by now.
decision_record(c) ==
  /\ request[c].step = "record"
  /\ record_approval(request[c].inc, request[c].decision, c, request[c].level)
  /\ IF request[c].decision = "approved"
       THEN request' = [request EXCEPT ![c].step = "publish"]
       ELSE RequestEnds(c)
  /\ UNCHANGED busVars

decision_publish(c) ==
  /\ request[c].step = "publish"
  /\ publish("incident_approved", request[c].inc)
  /\ RequestEnds(c)
  /\ UNCHANGED <<at, cur, storeVars>>

\* The bus is down: logged, the decision stands.
decision_publish_fails(c) ==
  /\ "publish" \in Faults
  /\ request[c].step = "publish"
  /\ RequestEnds(c)
  /\ UNCHANGED <<busVars, storeVars>>

resolve_check(c, i) ==
  /\ request[c].step = "idle"
  /\ Exists(i)
  /\ ensure_role(c)
  /\ ensure_site(c, i)
  /\ status[i] # "resolved"
  /\ is_valid_transition(status[i], "resolved")
  /\ request' = [request EXCEPT ![c] =
       [step |-> "resolve", inc |-> i, decision |-> "none", level |-> 0]]
  /\ UNCHANGED <<busVars, storeVars>>

resolve_write(c) ==
  /\ request[c].step = "resolve"
  /\ resolve_incident_manually(request[c].inc)
  /\ RequestEnds(c)
  /\ UNCHANGED busVars

\* The write raises: the client gets a 500 and nothing is committed.
request_raises(c) ==
  /\ "handler" \in Faults
  /\ request[c].step \in {"record", "resolve"}
  /\ RequestEnds(c)
  /\ UNCHANGED <<busVars, storeVars>>

RequestStep(c) ==
  \/ decision_record(c) \/ decision_publish(c) \/ decision_publish_fails(c)
  \/ resolve_write(c) \/ request_raises(c)
=============================================================================
