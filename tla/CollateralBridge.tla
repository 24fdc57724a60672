--------------------------- MODULE CollateralBridge ---------------------------
(***************************************************************************)
(* One loan between two chains: the lock in the EVM escrow, the loan and   *)
(* its collateral record on Stellar, the borrower's and the admin's pages, *)
(* the API routes they call, and the Safe whose signers act on the answers *)
(* of the routes.  Pages act on what they polled last, a route is a        *)
(* sequence of awaited calls, and requests overlap.  The oracle signs for  *)
(* whoever asks, so a signature is part of the step that uses it, and the  *)
(* record moves without the pages and the routes as well.                  *)
(***************************************************************************)
EXTENDS Naturals

CONSTANTS
    Requests,   \* the requests that may be under way together
    Principal,  \* the principal of the loan
    Interest,   \* the most interest the page asks for on top of it
    MayFail     \* whether calls may fail, and answers be lost

ASSUME BridgeAssumption ==
    Principal \in Nat \ {0} /\ Interest \in Nat /\ MayFail \in BOOLEAN

VARIABLES
    borrower,     \* whose account holds the loan: a user's, or the admin's own
    loan,         \* the state of the loan
    repaid,       \* its total_repaid
    vaultActive,  \* whether its vault is Active
    record,       \* the status of its CollateralRecord, "None" without one
    lock,         \* the state of the EVM lock; "Young" may still be dropped
    view,         \* what the pages polled last
    page,         \* flowStep of EVMCollateralStep
    req,          \* the requests under way
    due           \* the EVM calls that the answers of the routes ask of the Safe

stellar == <<borrower, loan, repaid, vaultActive>>
vars    == <<stellar, record, lock, view, page, req, due>>

NoRequest == [kind |-> "none", at |-> "done", alive |-> FALSE, amount |-> 0, full |-> FALSE]

Init ==
    /\ borrower \in {"user", "admin"}
    /\ loan = "Originated" /\ repaid = 0 /\ vaultActive = TRUE
    /\ record = "None" /\ lock = "Empty"
    /\ view = [loan |-> loan, repaid |-> 0, record |-> "None"]
    /\ page = "checking"
    /\ req = [r \in Requests |-> NoRequest]
    /\ due = {}

-----------------------------------------------------------------------------
(* Calls of prism-core: what each answers, and the record it leaves *)

\* Mutant: a verified record may be attached again.
AttachAnyTime(who) ==
    IF who # borrower THEN "BorrowerMismatch"
    ELSE IF loan \notin {"Originated", "Active"} THEN "LoanInWrongState" ELSE "ok"

Attach(who) ==
    IF who # borrower THEN "BorrowerMismatch"
    ELSE IF loan \notin {"Originated", "Active"} THEN "LoanInWrongState"
    ELSE IF record \notin {"None", "Pending"} THEN "AlreadyVerified" ELSE "ok"

Verify ==
    IF record = "None" THEN "NotAttached"
    ELSE IF record # "Pending" THEN "AlreadyVerified" ELSE "ok"

\* release_collateral and liquidate_collateral of the record.
Settle ==
    IF record = "None" THEN "NotAttached"
    ELSE IF record # "Attached" THEN "StatusMismatch" ELSE "ok"

Sets(answer, status) == record' = IF answer = "ok" THEN status ELSE record

-----------------------------------------------------------------------------
(* Requests *)

Request(kind, at) ==
    [kind |-> kind, at |-> at, alive |-> TRUE, amount |-> 0, full |-> FALSE]

Repayment(amount, full) ==
    [kind |-> "repay", at |-> "invoke", alive |-> TRUE, amount |-> amount, full |-> full]

Begin(request) ==
    \E r \in Requests : req[r].at = "done" /\ req' = [req EXCEPT ![r] = request]

At(r, kind, at) == req[r].kind = kind /\ req[r].at = at

Goto(r, at) == req' = [req EXCEPT ![r].at = at]
End(r)      == req' = [req EXCEPT ![r] = NoRequest]

\* The page shows a step, if it is still the page that asked.
Show(r, step) == page' = IF req[r].alive THEN step ELSE page

\* Whether the answer to a call gets back.
Answered == IF MayFail THEN BOOLEAN ELSE {TRUE}

\* Where a page goes back to when a request of its fails.
AfterFailure(kind) == IF kind = "lock" THEN "lock" ELSE "stellar_register"

\* A call fails, is refused by the wallet, or the request is cut off.
Fail(r) ==
    /\ MayFail
    /\ req[r].at # "done"
    /\ End(r)
    /\ IF req[r].kind \in {"lock", "register"}
       THEN Show(r, AfterFailure(req[r].kind)) ELSE UNCHANGED page
    /\ UNCHANGED <<stellar, record, lock, view, due>>

-----------------------------------------------------------------------------
(* The borrower's page: lock on the EVM chain, then register on Stellar *)

\* On mount the page asks for the lock; no answer counts as no lock.
Restore ==
    /\ page = "checking" /\ view.record # "Attached"
    /\ \E known \in Answered :
          page' = IF known /\ lock \in {"Young", "Locked"} THEN "stellar_register"
                  ELSE "connect"
    /\ UNCHANGED <<stellar, record, lock, view, req, due>>

\* Connect MetaMask, pick a token, approve it unless its allowance will do.
PageMoves ==
    /\ \/ page = "connect" /\ page' = "select"
       \/ page = "select" /\ page' \in {"approve", "lock"}
       \/ page = "approve" /\ page' = "approving"
       \/ page = "approving" /\ page' \in {"approve", "lock"}
       \/ page \notin {"checking", "connect"} /\ page' = "connect"  \* account changed
    /\ UNCHANGED <<stellar, record, lock, view, req, due>>

\* A reload forgets the requests of the page; what they sent stays sent.
Reload ==
    /\ page # "checking"
    /\ page' = "checking"
    /\ req' = [r \in Requests |-> [req[r] EXCEPT !.alive = FALSE]]
    /\ UNCHANGED <<stellar, record, lock, view, due>>

ClickLock ==
    /\ page = "lock"
    /\ Begin(Request("lock", "sent"))
    /\ page' = "locking"
    /\ UNCHANGED <<stellar, record, lock, view, due>>

\* The transaction is mined, or reverts because the loan has a lock; only a
\* wallet that foresees the revert names it, and the answer may be lost.
LockMined(r) ==
    /\ At(r, "lock", "sent")
    /\ lock' = IF lock = "Empty" THEN "Young" ELSE lock
    /\ \/ Show(r, "stellar_register")
       \/ (lock # "Empty" \/ MayFail) /\ Show(r, "lock")
    /\ End(r)
    /\ UNCHANGED <<stellar, record, view, due>>

ClickRegister ==
    /\ page = "stellar_register"
    /\ Begin(Request("register", "attach"))
    /\ page' = "stellar_registering"
    /\ UNCHANGED <<stellar, record, lock, view, due>>

\* Where registering goes on after attach_collateral.
AfterAttach(answer) == IF answer = "ok" THEN "verify" ELSE "failed"

\* Freighter signs attach_collateral.
RegisterAttach(r) ==
    LET answer == Attach("user")
    IN  /\ At(r, "register", "attach")
        /\ Sets(answer, "Pending")
        /\ \E got \in Answered :
              IF got /\ AfterAttach(answer) = "verify"
              THEN UNCHANGED page /\ IF req[r].alive THEN Goto(r, "verify") ELSE End(r)
              ELSE Show(r, "stellar_register") /\ End(r)
        /\ UNCHANGED <<stellar, lock, view, due>>

\* collateral/verify, whose answer the page does not look at.
RegisterVerify(r) ==
    /\ At(r, "register", "verify")
    /\ Sets(Verify, "Attached")
    /\ \E got \in Answered : Show(r, IF got THEN "oracle_pending" ELSE "stellar_register")
    /\ End(r)
    /\ UNCHANGED <<stellar, lock, view, due>>

\* Each page polls the loan and the record, one apart from the other.
Poll ==
    /\ \/ view' = [loan |-> loan, repaid |-> repaid, record |-> view.record]
       \/ view' = [view EXCEPT !.record = record]
    /\ view' # view
    /\ UNCHANGED <<stellar, record, lock, page, req, due>>

-----------------------------------------------------------------------------
(* Disbursement and repayment *)

\* Mutant: the button is on whatever the record says.
ReadyAlways == view.loan = "Originated"

\* When the admin's page lets a loan be disbursed.
Ready == view.loan = "Originated" /\ view.record = "Attached"

\* disburse_loan wants the admin's signature, and this page is the only one that
\* has a route give it.
ClickDisburse ==
    /\ Ready
    /\ Begin(Request("disburse", "invoke"))
    /\ UNCHANGED <<stellar, record, lock, view, page, due>>

Disburse(r) ==
    /\ At(r, "disburse", "invoke")
    /\ loan' = IF vaultActive /\ record # "Pending" /\ loan = "Originated"
               THEN "Active" ELSE loan
    /\ End(r)
    /\ UNCHANGED <<borrower, repaid, vaultActive, record, lock, view, page, due>>

\* Whether the page takes a repayment for the last one: it covers the
\* principal the page knows to be open, and the interest the page adds.
IsFull(amount, interest) == amount >= Principal - view.repaid + interest

ClickRepay ==
    /\ view.loan \in {"Active", "Repaying"}
    /\ \E amount \in 1 .. (Principal + Interest), interest \in 0 .. Interest :
          Begin(Repayment(amount, IsFull(amount, interest)))
    /\ UNCHANGED <<stellar, record, lock, view, page, due>>

\* Mutant: a loan that is repaid takes more.
OwingForGood == loan # "Originated"

Owing == loan \in {"Active", "Repaying"}

\* repay_loan; after a full repayment the page calls collateral/release.
Repay(r) ==
    LET total == repaid + req[r].amount
    IN  /\ At(r, "repay", "invoke")
        /\ IF Owing
           THEN /\ repaid' = total
                /\ loan' = IF total >= Principal THEN "Repaid" ELSE "Repaying"
                /\ \E got \in Answered :
                      IF got /\ req[r].alive /\ req[r].full
                      THEN req' = [req EXCEPT ![r] = Request("release", "read")]
                      ELSE End(r)
           ELSE End(r) /\ UNCHANGED <<repaid, loan>>
        /\ UNCHANGED <<borrower, vaultActive, record, lock, view, page, due>>

-----------------------------------------------------------------------------
(* The routes that settle the collateral *)

\* Mutant: the answer is taken for a release that has been done before.
DueAlways(answer, call) == due \cup {call}

\* What the Safe is asked to do after the call on Stellar.
Due(answer, call) == IF answer = "ok" THEN due \cup {call} ELSE due

\* A contract's enum variant without fields comes as an array of its name.
Native(variant) == [index \in {"0"} |-> variant]

\* What the release route takes for the state of the loan: the first key of an
\* object, which for an array is its first index.
RouteState == CHOOSE key \in DOMAIN Native(loan) : TRUE

\* The route is after a loan that is repaid or defaulted, and finds none.
MayRelease == RouteState \in {"Repaid", "Defaulted"}

\* The route is called by hand too, at any time; it looks at the loan itself.
AskRelease ==
    /\ Begin(Request("release", "read"))
    /\ UNCHANGED <<stellar, record, lock, view, page, due>>

ReleaseRead(r) ==
    /\ At(r, "release", "read")
    /\ IF MayRelease THEN Goto(r, "invoke") ELSE End(r)
    /\ UNCHANGED <<stellar, record, lock, view, page, due>>

\* The route is behind no login, and does not look at the loan.
AskLiquidate ==
    /\ Begin(Request("liquidate", "invoke"))
    /\ UNCHANGED <<stellar, record, lock, view, page, due>>

Outcome == [release |-> "Released", liquidate |-> "Liquidated"]

\* liquidate_collateral fails as a whole when the vault is not active.
SettleCall(kind) ==
    IF kind = "liquidate" /\ Settle = "ok" /\ ~vaultActive THEN "VaultNotActive" ELSE Settle

\* The call of the one route or the other, which with the admin's key settles
\* the record; a liquidation is a default of the vault.
SettleInvoke(r) ==
    LET kind   == req[r].kind
        answer == SettleCall(kind)
    IN  /\ kind \in DOMAIN Outcome /\ req[r].at = "invoke"
        /\ Sets(answer, Outcome[kind])
        /\ vaultActive' = (vaultActive /\ ~(kind = "liquidate" /\ answer = "ok"))
        /\ \E got \in Answered : due' = IF got THEN Due(answer, kind) ELSE due
        /\ End(r)
        /\ UNCHANGED <<borrower, loan, repaid, lock, view, page>>

\* The admin's page offers it for a lock it has seen; the route asks for none.
AskReattest ==
    /\ Begin(Request("reattest", "read"))
    /\ UNCHANGED <<stellar, record, lock, view, page, due>>

\* The route reads the lock, and without the settings it needs for that it goes
\* on as if there were one.
ReattestRead(r) ==
    /\ At(r, "reattest", "read")
    /\ \/ lock \in {"Young", "Locked"} /\ Goto(r, "attach")
       \/ lock \notin {"Young", "Locked"} /\ End(r)
       \/ MayFail /\ Goto(r, "attach")
    /\ UNCHANGED <<stellar, record, lock, view, page, due>>

\* attach_collateral with the admin's key: AlreadyVerified is passed over.
ReattestAttach(r) ==
    LET answer == Attach("admin")
    IN  /\ At(r, "reattest", "attach")
        /\ Sets(answer, "Pending")
        /\ IF answer \in {"ok", "AlreadyVerified"} THEN Goto(r, "verify") ELSE End(r)
        /\ UNCHANGED <<stellar, lock, view, page, due>>

ReattestVerify(r) ==
    /\ At(r, "reattest", "verify")
    /\ Sets(Verify, "Attached")
    /\ End(r)
    /\ UNCHANGED <<stellar, lock, view, page, due>>

-----------------------------------------------------------------------------
(* The chains, the watchers and the signers of the Safe *)

LockSettles ==
    /\ lock = "Young"
    /\ lock' \in {"Locked", "Empty"}
    /\ UNCHANGED <<stellar, record, view, page, req, due>>

WatcherVerifies ==
    /\ lock = "Locked" /\ record = "Pending"
    /\ record' = "Attached"
    /\ UNCHANGED <<stellar, lock, view, page, req, due>>

\* Calls of prism-core from outside the pages and the routes: the borrower
\* attaches evidence, and anyone verifies or releases it with a message that the
\* oracle has signed.  release_collateral does not look at the loan.
DirectCall ==
    /\ \/ Sets(Attach(borrower), "Pending")
       \/ Sets(Verify, "Attached")
       \/ Sets(Settle, "Released")
    /\ UNCHANGED <<stellar, lock, view, page, req, due>>

VaultDefaults ==
    /\ vaultActive
    /\ vaultActive' = FALSE
    /\ UNCHANGED <<borrower, loan, repaid, record, lock, view, page, req, due>>

SafeActs ==
    /\ lock \in {"Young", "Locked"}
    /\ \E call \in due : lock' = Outcome[call]
    /\ UNCHANGED <<stellar, record, view, page, req, due>>

-----------------------------------------------------------------------------
RouteStep(r) ==
    \/ LockMined(r) \/ RegisterAttach(r) \/ RegisterVerify(r)
    \/ Disburse(r) \/ Repay(r) \/ ReleaseRead(r) \/ SettleInvoke(r)
    \/ ReattestRead(r) \/ ReattestAttach(r) \/ ReattestVerify(r)
    \/ Fail(r)

Next ==
    \/ Restore \/ PageMoves \/ Reload \/ ClickLock \/ ClickRegister \/ Poll
    \/ ClickDisburse \/ ClickRepay \/ AskRelease \/ AskLiquidate \/ AskReattest
    \/ LockSettles \/ WatcherVerifies \/ DirectCall \/ VaultDefaults \/ SafeActs
    \/ \E r \in Requests : RouteStep(r)

Spec == Init /\ [][Next]_vars

\* Requests that were sent are answered, chains settle and watchers run; no
\* user has to click, and no signer to sign.
Fairness ==
    /\ \A r \in Requests : WF_vars(RouteStep(r))
    /\ WF_vars(LockSettles) /\ WF_vars(WatcherVerifies) /\ WF_vars(Poll)

FairSpec == Spec /\ Fairness

-----------------------------------------------------------------------------
LoanStates == {"Originated", "Active", "Repaying", "Repaid"}
Statuses   == {"None", "Pending", "Attached", "Released", "Liquidated"}

TypeOK ==
    /\ borrower \in {"user", "admin"} /\ loan \in LoanStates
    /\ repaid \in 0 .. (2 * Principal + Interest) /\ vaultActive \in BOOLEAN
    /\ record \in Statuses
    /\ lock \in {"Empty", "Young", "Locked", "Released", "Liquidated"}
    /\ view \in [loan : LoanStates, repaid : 0 .. repaid, record : Statuses]
    /\ page \in {"checking", "connect", "select", "approve", "approving", "lock",
                 "locking", "stellar_register", "stellar_registering", "oracle_pending"}
    /\ req \in [Requests ->
          [kind : {"none", "lock", "register", "disburse", "repay", "release",
                   "liquidate", "reattest"},
           at : {"done", "sent", "attach", "verify", "invoke", "read"},
           alive : BOOLEAN, amount : 0 .. (Principal + Interest), full : BOOLEAN]]
    /\ due \subseteq {"release", "liquidate"}

\* The two chains never disagree on where collateral went: it is handed back
\* or seized on the EVM chain only after Stellar says the same of the record,
\* whatever requests race and whatever answers are lost.
SettledTogether ==
    /\ lock = "Released" => record = "Released"
    /\ lock = "Liquidated" => record = "Liquidated"

\* Statuses of a record that an oracle has verified.
Verified == {"Attached", "Released", "Liquidated"}

\* No loan is paid out by the admin's page before its collateral was verified,
\* however old the record is that the page shows.
DisbursedIsBacked ==
    loan # "Originated" => record \in Verified

\* Collateral that leaves a verified record was there, and leaves it once.
SettlesOnce ==
    record \in Verified /\ record' # record =>
        record = "Attached" /\ record' \in {"Released", "Liquidated"}

\* A record that was verified is never reset: not by a page that registers
\* late, nor by a re-attestation; and of a racing release and liquidation one
\* is refused.
VerifiedIsKept == [][SettlesOnce]_vars

\* What the steps above come to: a record counts once an oracle has verified
\* it, a loan that is being repaid is still out, and the lock is open until the
\* collateral has left it.
LifeLoan   == IF loan = "Repaying" THEN "Active" ELSE loan
LifeRecord == IF record \in Verified THEN record ELSE "Unverified"
LifeLock   == IF lock \in {"Released", "Liquidated"} THEN lock ELSE "Open"

Life == INSTANCE SecuredLoan WITH loan <- LifeLoan, record <- LifeRecord, lock <- LifeLock

\* However old the polls are that pages act on, however routes race and
\* whatever answers are lost, every step of the two chains is the next step of
\* a secured loan: nothing is paid out before the collateral was verified, or
\* after it was seized, the collateral leaves its record once, and the escrow
\* follows the record.
ImplementsSecuredLoan == Life!Spec

Gates == INSTANCE LoanGates WITH open <- vaultActive

\* What pages, routes and watchers are taken to do to prism-core is what it
\* lets anyone do to one loan.
ImplementsLoanGates == Gates!Spec
=============================================================================
