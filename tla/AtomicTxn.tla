------------------------------ MODULE AtomicTxn -----------------------------
(***************************************************************************)
(* What a transaction promises: it is decided once, for all of its tables  *)
(* together, and a client that is told "committed" is told the truth.  An  *)
(* error tells the client nothing.                                         *)
(***************************************************************************)
VARIABLES outcome,   \* "open", "committed", "aborted"
          told       \* "none", "committed", "error"

Init == outcome = "open" /\ told = "none"

Decide == outcome = "open" /\ outcome' \in {"committed", "aborted"}

Answer ==
  /\ told = "none" /\ told' \in {"committed", "error"}
  /\ told' = "committed" => outcome' = "committed"

Next ==
  \/ Decide /\ UNCHANGED told
  \/ Answer /\ UNCHANGED outcome
  \/ Decide /\ Answer

AtomicSpec == Init /\ [][Next]_<<outcome, told>>
=============================================================================
