--------------------------- MODULE MCRegistration ---------------------------
(***************************************************************************)
(* Values of Registration's constants for TLC.                             *)
(***************************************************************************)
EXTENDS Registration, TLC

CONSTANTS p1, p2, n1, n2, r1, r2

MCPasswords == {p1, p2}
MCNames == {n1, n2}
MCRequests == {r1, r2}

MCSymmetry == Permutations(MCPasswords) \cup Permutations(MCNames)
                  \cup Permutations(MCRequests)
============================================================================
