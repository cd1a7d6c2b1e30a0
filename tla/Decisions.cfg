SPECIFICATION Spec
CONSTANTS
  pump = pump
  engineer = engineer
  manager = manager
  operator = operator
  stranger = stranger
  Equipment = {pump}
  MaxEpisodes = 1
  MaxOps = 1
  Plans <- MC_OnePlan
  Client = {engineer, manager, operator, stranger}
  RoleOf <- MC_Roles
  ClientSite <- MC_ClientSite
  EquipmentSite <- MC_EquipmentSite
  MaxReadings = 2
  Attempts = 1
  Faults = {}
INVARIANT AuthorisedDecisions
INVARIANT WithheldStaysWithHumans
INVARIANT EvidenceBeforeDiagnosis
PROPERTY DiagnosedOnce
PROPERTY DecidedPlanIsFrozen
PROPERTY DecisionStandsOnceGateIsDrained
CHECK_DEADLOCK FALSE
