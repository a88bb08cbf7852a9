SPECIFICATION Spec
CONSTANTS
  Clients = {c1, c2}
  rec = rec
  off = off
  v1 = v1
  v2 = v2
  v3 = v3
  Keys <- MCPutKeys
  Vals <- MCPutVals
  Nil = Nil
  Requests <- PutRequests
  MaxRetry = 2
  MaxVersion = 3
PROPERTY CasAtomic
