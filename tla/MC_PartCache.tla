---------------------------- MODULE MC_PartCache ----------------------------
EXTENDS PartCache, TLC
CONSTANTS a, b, r1, r2
MCSymmetry == Permutations({a, b}) \cup Permutations({r1, r2})

(* Both transactions move while the entry of the table is the first one;    *)
(* once it has been removed or reloaded, one of them has not begun.         *)
MCBound == (table = "loaded" /\ info = 1) \/ \E p \in Parts : job[p].pc = "new"
=============================================================================
