------------------------------ MODULE CasStore ------------------------------
(***************************************************************************)
(* What the rest of the system expects of the metastore: IMetaStore's      *)
(* putCAS, put(if_not_exists), drop(expected) and batchWrite each take     *)
(* effect in one step, and only in a state where every key they compare    *)
(* holds the value they expect.                                            *)
(*                                                                         *)
(* A request has two partial functions over the keys:                      *)
(*   cas     the expected value of each key compared (Nil: must be absent) *)
(*   writes  the new value of each key written (Nil: delete)               *)
(***************************************************************************)
CONSTANTS Keys,       \* metastore keys
          Values,     \* what a key can hold, absence included
          Requests    \* the write requests callers make

VARIABLE store        \* the value held under every key

(* The values the compared keys must hold, and the effect of the request.   *)
Matches(r, s) == \A k \in DOMAIN r.cas : s[k] = r.cas[k]

Effect(r, s) == [k \in Keys |-> IF k \in DOMAIN r.writes THEN r.writes[k] ELSE s[k]]

Swap(r) == /\ Matches(r, store)
           /\ store' = Effect(r, store)

Next == \E r \in Requests : Swap(r)

(* Every change of the store is one request applied in a state it expects. *)
Init == store \in [Keys -> Values]
CasSpec == Init /\ [][Next]_store
=============================================================================
