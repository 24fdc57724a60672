------------------------------ MODULE LoanGates ------------------------------
(***************************************************************************)
(* What prism-core promises of one loan to those who act on it from        *)
(* outside: in which order it is paid out and paid back, when evidence for *)
(* its collateral can be attached, and that a verified record is settled   *)
(* once.  Its vault is open until it defaults; a seizure closes it.        *)
(***************************************************************************)

VARIABLES
    loan,    \* the state of the loan, "None" before it is originated
    record,  \* the status of its collateral record, "None" without one
    open     \* whether its vault is Active

vars == <<loan, record, open>>

Init ==
    /\ loan \in {"None", "Originated"}
    /\ record = "None"
    /\ open = TRUE

\* The loan is drawn on a vault that may have defaulted before.
Originate ==
    /\ loan = "None"
    /\ loan' = "Originated"
    /\ open' \in BOOLEAN
    /\ UNCHANGED record

\* Evidence is attached, or replaced, until an oracle has verified it.
Attach ==
    /\ loan \in {"Originated", "Active"} /\ record \in {"None", "Pending"}
    /\ record' = "Pending"
    /\ UNCHANGED <<loan, open>>

Verify ==
    /\ record = "Pending"
    /\ record' = "Attached"
    /\ UNCHANGED <<loan, open>>

\* The state of the loan is not looked at.
Release ==
    /\ record = "Attached"
    /\ record' = "Released"
    /\ UNCHANGED <<loan, open>>

\* A seizure is a default of the vault: it takes place once in its life.
Liquidate ==
    /\ record = "Attached" /\ open
    /\ record' = "Liquidated" /\ open' = FALSE
    /\ UNCHANGED loan

\* Only evidence that waits for its verification holds the loan back.
Disburse ==
    /\ loan = "Originated" /\ open /\ record # "Pending"
    /\ loan' = "Active"
    /\ UNCHANGED <<record, open>>

Repay ==
    /\ loan \in {"Active", "Repaying"}
    /\ loan' \in {"Repaying", "Repaid"}
    /\ UNCHANGED <<record, open>>

\* The vault defaults for another reason.
Close ==
    /\ open
    /\ open' = FALSE
    /\ UNCHANGED <<loan, record>>

Next ==
    \/ Originate \/ Attach \/ Verify \/ Release \/ Liquidate
    \/ Disburse \/ Repay \/ Close

Spec == Init /\ [][Next]_vars
=============================================================================
