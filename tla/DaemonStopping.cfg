SPECIFICATION FairSpec
CONSTANTS
  MyHost = "host1"
  PanelHosts = {"host1"}
  Handlers = {h1}
  Cyclers = {c1}
  NoOne = NoOne
  Requests <- StoppingRequests
  CycleOnActive = FALSE
  CycleSides = {"rx"}
  PortSides = {"rx"}
  CycleConfigOK = FALSE
  Signals = FALSE
PROPERTIES RequestServed ShutdownCompletes
