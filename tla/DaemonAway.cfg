SPECIFICATION Spec
CONSTANTS
  MyHost = "host1"
  PanelHosts = {}
  Handlers = {h1}
  Cyclers = {c1}
  NoOne = NoOne
  Requests <- Away
  CycleOnActive = TRUE
  CycleSides = {"rx"}
  PortSides = {"rx"}
  CycleConfigOK = TRUE
  Signals = FALSE
PROPERTY StaysAway
