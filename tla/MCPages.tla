------------------------------- MODULE MCPages ------------------------------
(***************************************************************************)
(* Values of Pages' constants for TLC.                                     *)
(***************************************************************************)
EXTENDS Pages

CONSTANTS w1, w2, s1, k1, k2, l1, l2, a1

MCWorkspaces == {w1, w2}
MCSearches == {NoSearch, s1}
MCSorts == {ByActive, ByName}
MCTeamPages == 1..2
MCAsks == {k1, k2}
MCApplications == 1..3
MCHomeOf == [a \in 1..3 |-> IF a < 3 THEN w1 ELSE w2]
MCOwn == {1, 3}
MCModerates == {w1}
MCMatching == {1}
MCPageNumbers == 1..2
MCGoals == {5}
MCLoads == {l1, l2}
MCActs == {a1}
=============================================================================
