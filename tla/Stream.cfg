SPECIFICATION FairSpec
CONSTANTS
  flow = flow
  Sensor = {flow}
  Registry <- MC_OneSensor
  EquipmentOf <- MC_OneEquipment
  ReadCount = 2
  MaxLen = 2
  Window = 1
  MaxGap = 1
  EmitDelay = 1
  MaxEmissions = 3
  MaxTime = 3
  Faults = {"read", "process", "ack", "crash", "shutdown"}
INVARIANT StreamTypeOK
INVARIANT ScoredOnceInOrder
INVARIANT NothingAcknowledgedUnhandled
PROPERTY PersistsTheLiveChain
PROPERTY FreshAnomalyIsPersisted
PROPERTY ReadingIsTaken
CHECK_DEADLOCK FALSE
