----------------------------- MODULE MCSessions -----------------------------
(***************************************************************************)
(* Values of Sessions' constants for TLC.                                  *)
(***************************************************************************)
EXTENDS Sessions, TLC

CONSTANTS p1, p2, s1, s2, r1, r2, r3

MCPasswords == {p1, p2}
MCSessionIds == {s1, s2}
MCRequests == {r1, r2, r3}

MCCurrentFormat == {"current"}
MCAnyFormat == {"current", "outdated"}

MCSymmetry == Permutations(MCSessionIds) \cup Permutations(MCRequests)
                  \cup Permutations(MCPasswords)
============================================================================
