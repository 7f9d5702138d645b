SPECIFICATION Spec
CONSTANTS
  MyHost = "host1"
  PanelHosts = {"host1"}
  Handlers = {h1}
  Cyclers = {c1}
  NoOne = NoOne
  Requests <- EveryRequest
  CycleOnActive = TRUE
  CycleSides = {"tx"}
  PortSides = {"tx"}
  CycleConfigOK = TRUE
  Signals = FALSE
INVARIANTS TypeOK ViewCoherent
PROPERTY HandleStable
