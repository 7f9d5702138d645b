SPECIFICATION Spec
SYMMETRY Perms
CONSTANTS
  Cycles = {c1, c2}
  Plans <- MixedPlans
  AdapterPort <- RxThree
  NoPort = NoPort
  LinkDrops = TRUE
  Kills = TRUE
INVARIANTS OffIsOwed OnlyCovered DoneMeansRestored
