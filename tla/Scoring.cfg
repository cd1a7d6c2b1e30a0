SPECIFICATION Spec
CONSTANTS
  flow = flow
  ph = ph
  Config <- MC_Shipped
  Sensor = {flow, ph}
  Value = {0, 2, 7}
  NormalMin = 1
  NormalMax = 5
  WindowSize = 3
  StaticPercent = 5
  DriftZ = 1
  RiskScale <- MC_RiskScale
  Confidences = {50, 100}
  MaxReadings = 4
INVARIANT DriftIsBounded
INVARIANT UncertaintyOnlyRaises
INVARIANT HighIsSeenUnlessRewritten
CHECK_DEADLOCK FALSE
