SPECIFICATION FairSpec
CONSTANTS
  s1 = s1
  s2 = s2
  c1 = c1
  c2 = c2
  NoServer = NoServer
  Servers <- MCServers
  Clients <- MCOneClient
  Times <- MCTimes
  Faults = {"overflow", "putError"}
  MaxLogical = 4
  Sizes = {0, 1, 2}
  Window = 4
  MaxTerms = 2
  MaxIssued = 4
PROPERTIES CountersRefilled
\* the bounds on elections and timestamps end every behaviour
CHECK_DEADLOCK FALSE
