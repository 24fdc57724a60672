----------------------- MODULE CollateralBridgeClaims -----------------------
(* What docs/collateral-flow.md says of CollateralBridge, and the code does *)
(* not do.                                                                  *)
EXTENDS CollateralBridge

\* docs/collateral-flow.md:229-237: after the loan is Repaid a request to the
\* release route takes the record from Attached to Released.  In the code the
\* request of the page that made the last repayment, like any other, takes the
\* name of the state for its index in an array, and is refused.
AutoRelease ==
    \A r \in Requests :
        At(r, "release", "read") /\ loan = "Repaid" /\ record = "Attached"
            ~> record # "Attached"
=============================================================================
