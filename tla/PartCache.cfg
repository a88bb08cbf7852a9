SPECIFICATION Spec
SYMMETRY MCSymmetry
CONSTANTS
  Nothing = Nothing a = a b = b r1 = r1 r2 = r2
  Parts = {a, b}
  Readers = {r1, r2}
  MaxInfos = 2
  Events = {"evict", "invalidate", "remove", "fail"}
INVARIANTS    RemovedStaysOut LoadingIsOwned
CONSTRAINT MCBound
CHECK_DEADLOCK FALSE
