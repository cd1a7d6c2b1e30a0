SPECIFICATION FairSpec
CONSTANTS
  Sources = {"synthetic", "tep_replay"}
  Faults = {"crash", "state"}
  MaxCommands = 4
  MaxFaults = 3
INVARIANT SimulatorTypeOK
INVARIANT CommandsApplyOnceInOrder
PROPERTY CommandIsConsumed
PROPERTY StatusCatchesUp
PROPERTY ReadingsFollowMode
