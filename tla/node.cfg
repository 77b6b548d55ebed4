SPECIFICATION Spec
CONSTANTS
  Client = {c1, c2}
  ChanCap = 1
  MaxHeight = 3
CHECK_DEADLOCK FALSE
INVARIANTS
  TypeOK
  StreamComplete
  ToldIsServed
  GaugeExact
PROPERTIES
  EngineGoesOn
