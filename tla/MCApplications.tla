--------------------------- MODULE MCApplications --------------------------
(***************************************************************************)
(* Values of Applications' constants for TLC.                              *)
(***************************************************************************)
EXTENDS Applications, TLC

CONSTANTS u1, u2, a1, a2, p1, p2, p1tracked, r1, r2

MCUsers == {u1, u2}
MCModerators == {u1}
MCApplications == {a1, a2}
MCRequests == {r1, r2}
MCPostings == {p1, p2}

\* p1tracked is p1 with a tracking parameter.
MCUrls == {p1, p2, p1tracked}
MCPosting == [url \in MCUrls |-> IF url = p2 THEN p2 ELSE p1]

MCOneUser == {u1}

MCSymmetry == Permutations(MCApplications) \cup Permutations(MCRequests)
============================================================================
