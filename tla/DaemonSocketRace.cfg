SPECIFICATION Spec
CONSTANTS
  Procs = {p1, p2, p3}
  TrayProcs = {p3}
  NoProc = NoProc
  Overlap = TRUE
INVARIANT OneDaemon
