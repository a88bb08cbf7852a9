---------------------------- MODULE MC_FDBClient ----------------------------
(* Instances of FDBClient: a record key and a second key written with it.   *)
EXTENDS FDBClient

CONSTANTS rec, off, v1, v2, v3

MCKeys == {rec, off}
MCVals == {v1, v2}
MCPutKeys == {rec}
MCPutVals == {v1, v2, v3}

Req(op, cas, writes) == [op |-> op, cas |-> cas, writes |-> writes]
On(k, v) == [x \in {k} |-> v]
NoCas == [x \in {} |-> Nil]

(* batchWrite and drop: a record created if absent, moved on together with  *)
(* an offset, deleted with its expected value, and an offset written blindly.*)
BatchRequests ==
  { Req("MultiWrite", On(rec, Nil), On(rec, v1)),
    Req("MultiWrite", On(rec, v1), [x \in {rec, off} |-> v2]),
    Req("Delete", On(rec, v2), On(rec, Nil)),
    Req("MultiWrite", NoCas, On(off, v1)) }

(* Two nodes that putCAS their own value over the one they both expect, as  *)
(* two electors do with an expired lease record.                            *)
PutRequests ==
  { Req("Put", On(rec, v1), On(rec, v2)),
    Req("Put", On(rec, v1), On(rec, v3)) }
=============================================================================
