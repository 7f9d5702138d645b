----------------------------- MODULE MCUsbCycle -----------------------------
(***************************************************************************)
(* Small sets of plans: all ports or one, on one side or both, with a      *)
(* negative, no or some delay, and a restore mode that is refused.         *)
(***************************************************************************)
EXTENDS UsbCycle, TLC

Plan(drivers, sides, ports, delays, modes) ==
  [driver : drivers, sides : sides, port : ports, delay : delays, restore : modes]

MixedPlans ==
  Plan({"daemon"}, {{"rx"}, {"rx", "tx"}}, {0, 2}, {-1, 0}, {"follow"})
    \cup Plan({"direct", "socket"}, {{"rx"}, {"tx"}}, {0, 2, 3}, {-1, 1}, {"on"})
    \cup Plan(Drivers, {{"rx"}}, {5}, {0}, {"on", "off"})

ConfiguredPlans ==
  Plan({"daemon"}, SUBSET Sides, {0, 2, 3}, {-1, 0}, {"off", "follow", "on"})

Perms == Permutations(Cycles)
RxThree == <<"rx", 3>>
=============================================================================
