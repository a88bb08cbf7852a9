---------------------------- MODULE MC_TableHost ----------------------------
EXTENDS TableHost, TLC

CONSTANTS m1, s1, s2, one, two

(* Server list one puts the table on s1, list two on s2.                    *)
MCHost == (one :> s1) @@ (two :> s2)
MCHome == (1 :> s1)
=============================================================================
