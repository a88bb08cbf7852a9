---------------------------- MODULE MC_TxnCommit ----------------------------
(* Instances of TxnCommit: one table, one or two servers.                  *)
EXTENDS TxnCommit

CONSTANTS a, s1, s2

OneTable == {a}
OneServer == {s1}
TwoServers == {s1, s2}
=============================================================================
