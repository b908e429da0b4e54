----------------------------- MODULE MCBrowser ------------------------------
(***************************************************************************)
(* Values of Browser's constants for TLC.                                  *)
(***************************************************************************)
EXTENDS Browser

CONSTANTS b1, b2, k1, k2, s1, s2

MCTabs == {b1, b2}
MCTasks == {k1, k2}
\* Both tasks in one tab, or one in each.
MCPlacements ==
    {[k \in MCTasks |-> b1], [k \in MCTasks |-> IF k = k1 THEN b1 ELSE b2]}

MCSessionIds == {s1, s2}
=============================================================================
