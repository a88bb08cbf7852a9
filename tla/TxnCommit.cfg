CONSTANTS
  a = a
  s1 = s1
  s2 = s2
  Tables <- OneTable
  Servers <- TwoServers
  Home = s1
  Metastore = "ByteKV"
  MaxFaults = 1
  Actors = {"cancel", "reader"}
SPECIFICATION Spec
INVARIANTS TxnInv AckedVisible ReadersSeeCommits ReadsAreFinal CommitsAreRecoverable
PROPERTY StatusIsFinal TxnIsAtomic
