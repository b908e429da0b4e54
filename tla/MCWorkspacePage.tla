-------------------------- MODULE MCWorkspacePage ---------------------------
(***************************************************************************)
(* Values of WorkspacePage's constants for TLC.                            *)
(***************************************************************************)
EXTENDS WorkspacePage

CONSTANTS w1, w2, x1, s1, l1, l2, a1

MCWorkspaces == {w1, w2}
MCSearches == {NoSearch, s1}
MCPages == 1..2
MCAddresses == {x1}
MCLoads == {l1, l2}
MCActs == {a1}
=============================================================================
