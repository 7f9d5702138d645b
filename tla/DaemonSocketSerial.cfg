SPECIFICATION FairSpec
CONSTANTS
  Procs = {p1, p2, p3}
  TrayProcs = {p2, p3}
  NoProc = NoProc
  Overlap = FALSE
INVARIANTS OneDaemon Reachable
PROPERTIES RefusedOnlyIfUp QuitExits
