--------------------------- MODULE MC_LockManager ---------------------------
(* Two transactions: one locks a partition, the other the whole table.      *)
EXTENDS LockManager, TLC

CONSTANTS t1, t2, i1, i2, p1

Info(t, m, p, b) == [txn |-> t, mode |-> m, partition |-> p, bucket |-> b]
MCMixed == (i1 :> Info(t1, "X", p1, None)) @@ (i2 :> Info(t2, "X", None, None))
=============================================================================
