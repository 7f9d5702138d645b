SPECIFICATION FairSpec
CONSTANTS
  Commands = {"CmdGetInput", "CmdGetUSB5V", "CmdReset"}
  Slow = {"CmdReset"}
  Ids = {1, 2, 3}
INVARIANTS OwnReply HostIsCurrent
PROPERTIES CommandReturns Resynchronises
