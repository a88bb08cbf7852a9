SPECIFICATION FairSpec
CONSTANTS
  Clients = {c1, c2}
  rec = rec
  off = off
  v1 = v1
  v2 = v2
  v3 = v3
  Keys <- MCKeys
  Vals <- MCVals
  Nil = Nil
  Requests <- BatchRequests
  MaxRetry = 2
  MaxVersion = 3
INVARIANT TypeOK
PROPERTIES CasAtomic CallReturns
