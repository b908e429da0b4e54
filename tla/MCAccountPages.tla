---------------------------- MODULE MCAccountPages ----------------------------
\* Two tabs and two calls in flight: a tab that counts down while another one,
\* or a page of its own that it has left, has a mail sent.
EXTENDS AccountPages, TLC

CONSTANTS t1, t2, c1, c2

MCTabs == {t1, t2}
MCCalls == {c1, c2}

Symmetry == Permutations(MCTabs) \cup Permutations(MCCalls)
=============================================================================
