---------------------------- MODULE MCTaskGroup ----------------------------
(* An instance of TaskGroup for TLC.                                        *)
EXTENDS TaskGroup, TLC

CONSTANTS t1, t2, t3, t4, t5, g1, g2

\* A task without a group waits for three others, and one of them for a fifth.
NestedGroupOf == (t1 :> NoGroup) @@ (t2 :> g1) @@ (t3 :> g1) @@ (t4 :> g1) @@ (t5 :> g2)
NestedOwnerOf == (g1 :> t1) @@ (g2 :> t2)
=============================================================================
