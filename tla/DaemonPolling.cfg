SPECIFICATION FairSpec
CONSTANTS
  MyHost = "host1"
  PanelHosts = {"host1", "host2"}
  Handlers = {}
  Cyclers = {c1, c2}
  NoOne = NoOne
  Requests <- Away
  CycleOnActive = TRUE
  CycleSides = {"rx", "tx"}
  PortSides = {"rx"}
  CycleConfigOK = TRUE
  Signals = TRUE
INVARIANT OneCycle
PROPERTIES GateSpec ServerSpec ConvergesActive ConvergesInactive CycleServed
