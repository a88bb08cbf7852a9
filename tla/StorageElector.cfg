SPECIFICATION Spec
CONSTANTS
  n1 = n1
  n2 = n2
  NoNode = NoNode
  Nodes <- MCNodes
  Skew <- OneAhead
  MaxSkew = 1
  Expired = 2
  Probe = 1
  MaxTime = 3
  MaxInflight = 1
  MaxCrashes = 1
INVARIANTS AtMostOneLeader LeaderOwnsRecord ElectorInv
PROPERTIES LeaseRespected RecordNeverReused
\* the behaviour ends where time is bounded, with every thread asleep
CHECK_DEADLOCK FALSE
