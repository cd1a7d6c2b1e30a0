SPECIFICATION FairSpec
CONSTANTS
  pump = pump
  engineer = engineer
  manager = manager
  operator = operator
  stranger = stranger
  Equipment = {pump}
  MaxEpisodes = 1
  MaxOps = 1
  Plans <- MC_OnePlan
  Client = {engineer}
  RoleOf <- MC_Roles
  ClientSite <- MC_ClientSite
  EquipmentSite <- MC_EquipmentSite
  MaxReadings = 1
  Attempts = 1
  Faults = {"handler"}
PROPERTY NeverSilentlyStuck
CHECK_DEADLOCK FALSE
