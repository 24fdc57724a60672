--------------------------- MODULE PrismCoreClaims ---------------------------
(* What a comment in soroban/prism-core/src/lib.rs says of the contract, and *)
(* the contract does not do.                                                 *)
EXTENDS MCPrismCore

Drawn(l) == loan[l].state = "Originated" /\ loan'[l].state = "Active"

PaidOutOnCollateral ==
    \A l \in Loans : Drawn(l) => collateral[l] \in {"None", "Attached"}

\* The comment in disburse_loan: a collateral record "must be oracle-verified
\* (status = Attached) before funds can be released".  The code below it turns
\* away a Pending record and no other, and release_collateral does not look at
\* the loan: collateral handed back before the disbursement holds nothing up.
PayoutNeedsAttached == [][PaidOutOnCollateral]_vars
=============================================================================
