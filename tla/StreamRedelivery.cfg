SPECIFICATION FairSpec
CONSTANTS
  flow = flow
  Sensor = {flow}
  Registry <- MC_OneSensor
  EquipmentOf <- MC_OneEquipment
  ReadCount = 2
  MaxLen = 4
  Window = 1
  MaxGap = 1
  EmitDelay = 0
  MaxEmissions = 2
  MaxTime = 1
  Faults = {"crash"}
PROPERTY PendingIsRedelivered
CHECK_DEADLOCK FALSE
