SPECIFICATION Spec
CONSTANTS
  pump = pump
  engineer = engineer
  manager = manager
  operator = operator
  stranger = stranger
  Equipment = {pump}
  MaxEpisodes = 1
  MaxOps = 2
  Plans <- MC_Plans
  Client = {engineer}
  RoleOf <- MC_Roles
  ClientSite <- MC_ClientSite
  EquipmentSite <- MC_EquipmentSite
  MaxReadings = 1
  Attempts = 2
  Faults = {"handler", "publish", "cmms", "crash"}
INVARIANT TypeOK
INVARIANT TruthfulExecutionRecord
INVARIANT LoopClosesOnce
PROPERTY NoWriteAfterRecordedSuccess
PROPERTY GateSpec
CHECK_DEADLOCK FALSE
