SPECIFICATION Spec
CONSTANTS
  pump = pump
  engineer = engineer
  manager = manager
  operator = operator
  stranger = stranger
  Equipment = {pump}
  MaxEpisodes = 2
  MaxOps = 1
  Plans <- MC_OnePlan
  Client = {engineer, manager}
  RoleOf <- MC_Roles
  ClientSite <- MC_ClientSite
  EquipmentSite <- MC_EquipmentSite
  MaxReadings = 2
  Attempts = 1
  Faults = {}
INVARIANT OneOpenIncidentPerEquipment
CHECK_DEADLOCK FALSE
