SPECIFICATION FairTraySpec
CONSTANTS
  Hosts = {h1, h2}
  Unknown = unknown
  MyHost = h1
  Ticker = ticker
  Clickers = {click}
PROPERTIES MenuFollows MenuGoesDead TwoMarksGo
