SPECIFICATION Spec
CONSTANTS
  Cycles = {c1}
  Plans <- ConfiguredPlans
  AdapterPort = NoPort
  NoPort = NoPort
  LinkDrops = FALSE
  Kills = FALSE
INVARIANT BroughtBack
