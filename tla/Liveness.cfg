SPECIFICATION FairSpec
CONSTANTS
  pump = pump
  engineer = engineer
  manager = manager
  operator = operator
  stranger = stranger
  Equipment = {pump}
  MaxEpisodes = 1
  MaxOps = 2
  Plans <- MC_NoneOrBoth
  Client = {engineer}
  RoleOf <- MC_Roles
  ClientSite <- MC_ClientSite
  EquipmentSite <- MC_EquipmentSite
  MaxReadings = 2
  Attempts = 2
  Faults = {"cmms"}
PROPERTY ApprovalIsActedOn
PROPERTY AnomalyIsDiagnosed
PROPERTY ResolvedOrderClosesIncident
CHECK_DEADLOCK FALSE
