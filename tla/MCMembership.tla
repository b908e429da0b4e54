--------------------------- MODULE MCMembership ----------------------------
(***************************************************************************)
(* Values of Membership's constants for TLC.                               *)
(***************************************************************************)
EXTENDS Membership, TLC

CONSTANTS u1, u2, u3, r1, r2

MCUsers == {u1, u2, u3}
MCRequests == {r1, r2}

\* For the liveness run, which cannot use the symmetry.
MCFewUsers == {u1, u2}

\* Users and requests are interchangeable: no action tells one from another.
MCSymmetry == Permutations(MCUsers) \cup Permutations(MCRequests)
============================================================================
