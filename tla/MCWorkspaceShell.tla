-------------------------- MODULE MCWorkspaceShell --------------------------
(***************************************************************************)
(* Values of WorkspaceShell's constants for TLC: the user may own          *)
(* workspace 1, be invited to 2, and create 3 and 4, also while the other  *)
(* creation is in progress.  Four moves let the user delete the workspace  *)
(* of the session, create one, switch to it and delete it while its        *)
(* creation is still in progress; one is to spare.                         *)
(***************************************************************************)
EXTENDS WorkspaceShell, TLC

CONSTANTS t1, t2

MCWorkspaces == 1..4
MCOwned == {1, 3, 4}
MCUnmade == {3, 4}
MCTasks == {t1, t2}

Symmetry == Permutations(MCTasks)
=============================================================================
