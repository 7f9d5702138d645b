SPECIFICATION FairSpec
CONSTANTS
  MyHost = 2
  Handlers = {h1, h2}
  Requests <- MCRequests
INVARIANT TypeOK
PROPERTIES NoSwitchBack StatusFollows ServerSpec
