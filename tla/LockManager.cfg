SPECIFICATION Spec
CONSTANTS
  t1 = t1
  t2 = t2
  i1 = i1
  i2 = i2
  p1 = p1
  NoTxn = NoTxn
  None = None
  Txns = {t1, t2}
  Infos = {i1, i2}
  Scope <- MCMixed
  Daemons = {"checker", "admin"}
  Overlap = FALSE
  Metastore = "FDB"
INVARIANTS TypeOK ListsMatch WaitersHaveHolders Exclusive LockInv
PROPERTIES CommitsHoldLocks
\* a transaction ends
CHECK_DEADLOCK FALSE
