----------------------------- MODULE SecuredLoan -----------------------------
(***************************************************************************)
(* What the two chains keep of one loan, as if every act were one step     *)
(* that everybody sees at once: the collateral is verified first, then the *)
(* loan is paid out, then it is paid back.  The verified collateral is     *)
(* given back or seized, once, and the escrow follows the record; a loan   *)
(* whose collateral was seized is not paid out.  That the collateral is    *)
(* given back after the loan is paid back only, or seized after it was     *)
(* paid out only, is not kept: see GiveBack and Seize.                     *)
(***************************************************************************)

VARIABLES
    loan,    \* the state of the loan; Active until it is paid back
    record,  \* the collateral record, once an oracle has verified it
    lock     \* "Open" until the collateral leaves it, then the way it left

Init ==
    /\ loan = "Originated"
    /\ record = "Unverified"
    /\ lock = "Open"

Verify ==
    /\ loan = "Originated" /\ record = "Unverified"
    /\ record' = "Attached"
    /\ UNCHANGED <<loan, lock>>

\* The record may have been released since it was verified.
PayOut ==
    /\ loan = "Originated" /\ record \in {"Attached", "Released"}
    /\ loan' = "Active"
    /\ UNCHANGED <<record, lock>>

PayBack ==
    /\ loan = "Active"
    /\ loan' = "Repaid"
    /\ UNCHANGED <<record, lock>>

\* release_collateral does not look at the loan.
GiveBack ==
    /\ record = "Attached"
    /\ record' = "Released"
    /\ UNCHANGED <<loan, lock>>

\* Nobody looks at whether the loan is out, overdue, or paid back.
Seize ==
    /\ record = "Attached"
    /\ record' = "Liquidated"
    /\ UNCHANGED <<loan, lock>>

HandOver ==
    /\ lock = "Open" /\ record \in {"Released", "Liquidated"}
    /\ lock' = record
    /\ UNCHANGED <<loan, record>>

Next == Verify \/ PayOut \/ PayBack \/ GiveBack \/ Seize \/ HandOver

Spec == Init /\ [][Next]_<<loan, record, lock>>
=============================================================================
