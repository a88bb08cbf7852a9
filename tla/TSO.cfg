SPECIFICATION Spec
CONSTANTS
  s1 = s1
  s2 = s2
  c1 = c1
  c2 = c2
  NoServer = NoServer
  Servers <- MCServers
  Clients <- MCClients
  Times <- MCTimes
  Faults = {"putError", "linger"}
  MaxLogical = 3
  Sizes = {0, 2}
  Window = 4
  MaxTerms = 2
  MaxIssued = 2
SYMMETRY MCSymmetry
INVARIANTS Monotonic BoundPersisted TSOInv
PROPERTIES Unique
\* the bounds on elections and timestamps end every behaviour
CHECK_DEADLOCK FALSE
