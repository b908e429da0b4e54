-------------------------- MODULE MCApplicationForm --------------------------
(***************************************************************************)
(* Values of ApplicationForm's constants for TLC.                          *)
(***************************************************************************)
EXTENDS ApplicationForm, TLC

CONSTANTS a1, a2, a3, u1, u2, title, pay, currency, l1, l2, s1, s2

MCApplications == {a1, a2, a3}
MCOwn == {a1, a2}
MCUrls == {u1, u2}
MCFields == {title, pay, currency}
MCRequired == {title}
MCFilled == MCFields
MCPay == {pay}
MCHas == (a1 :> {title, pay, currency}) @@ (a2 :> {title}) @@ (a3 :> {title, currency})
MCInDollars == {a1, u1}
MCLoads == {l1, l2}
MCSaves == {s1, s2}
=============================================================================
