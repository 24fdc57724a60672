------------------------ MODULE CollateralBridgeProofs ------------------------
(***************************************************************************)
(* Proofs about CollateralBridge, for any number of requests under way, any *)
(* principal and interest, and whether calls fail or not.  A record that    *)
(* was verified stays so, whoever settles it: therefore what the admin's    *)
(* page has seen of it still holds when its request arrives, and every step *)
(* is one of SecuredLoan, or none.  Nothing here rests on what the release  *)
(* route makes of the state of the loan.                                    *)
(***************************************************************************)
EXTENDS CollateralBridge, TLAPS

ReqRecord ==
    [kind : {"none", "lock", "register", "disburse", "repay", "release",
             "liquidate", "reattest"},
     at : {"done", "sent", "attach", "verify", "invoke", "read"},
     alive : BOOLEAN, amount : 0 .. (Principal + Interest), full : BOOLEAN]

ReqOK == req \in [Requests -> ReqRecord]

StateOK ==
    /\ borrower \in {"user", "admin"} /\ loan \in LoanStates
    /\ repaid \in 0 .. (2 * Principal + Interest) /\ vaultActive \in BOOLEAN
    /\ record \in Statuses
    /\ lock \in {"Empty", "Young", "Locked", "Released", "Liquidated"}
    /\ due \subseteq {"release", "liquidate"}

ViewOK == view \in [loan : LoanStates, repaid : 0 .. repaid, record : Statuses]

PageOK ==
    page \in {"checking", "connect", "select", "approve", "approving", "lock",
              "locking", "stellar_register", "stellar_registering", "oracle_pending"}

\* The Safe is asked for nothing that Stellar has not recorded.
DueIsDone ==
    /\ "release" \in due => record = "Released"
    /\ "liquidate" \in due => record = "Liquidated"

\* A page that has seen a verified record has seen what is still true.
SeenIsVerified == view.record \in Verified => record \in Verified

\* Whoever seizes the collateral closes the vault, and nothing opens it again.
SeizedIsClosed == record = "Liquidated" => ~vaultActive

\* repay_loan ends the loan as soon as the principal is covered.
StillOwing == loan # "Repaid" => repaid < Principal

Safe ==
    /\ SettledTogether /\ DisbursedIsBacked
    /\ DueIsDone /\ SeenIsVerified /\ SeizedIsClosed /\ StillOwing

\* What a request under way relies on.
RightlyAsked(q) == q.kind = "disburse" /\ q.at = "invoke" => record \in Verified

RightlyAskedAll == \A r \in Requests : RightlyAsked(req[r])

Inv == ReqOK /\ StateOK /\ ViewOK /\ PageOK /\ Safe /\ RightlyAskedAll

\* What no step takes back.
Onward == record \in Verified => record' \in Verified

-----------------------------------------------------------------------------
LEMMA TypesAgree == TypeOK <=> ReqOK /\ StateOK /\ ViewOK /\ PageOK
  BY DEF TypeOK, ReqOK, ReqRecord, StateOK, ViewOK, PageOK

LEMMA InitInv == Init => Inv
<1> SUFFICES ASSUME Init PROVE Inv
  OBVIOUS
<1>1. NoRequest \in ReqRecord
  BY BridgeAssumption DEF NoRequest, ReqRecord
<1>2. ReqOK
  BY <1>1 DEF Init, ReqOK
<1>3. StateOK /\ PageOK
  BY BridgeAssumption DEF Init, StateOK, PageOK, LoanStates, Statuses
<1>4. ViewOK
  BY DEF Init, ViewOK, LoanStates, Statuses
<1>5. Safe
  BY BridgeAssumption DEF Init, Safe, SettledTogether, DisbursedIsBacked, DueIsDone, SeenIsVerified, SeizedIsClosed, StillOwing, Verified
<1>6. RightlyAskedAll
  BY DEF Init, RightlyAskedAll, RightlyAsked, NoRequest
<1> QED
  BY <1>2, <1>3, <1>4, <1>5, <1>6 DEF Inv

-----------------------------------------------------------------------------
(* How requests change: one begins, goes on, ends; or the page is reloaded *)

\* One request becomes another one, and what it relies on holds.
LEMMA Becomes ==
    ASSUME Inv, NEW r \in Requests, NEW q \in ReqRecord, req' = [req EXCEPT ![r] = q],
           RightlyAsked(q)',
           Onward
    PROVE  ReqOK' /\ RightlyAskedAll'
<1>1. ReqOK' /\ req'[r] = q /\ \A s \in Requests : s # r => req'[s] = req[s]
  BY DEF Inv, ReqOK
<1>2. ASSUME NEW s \in Requests, s # r PROVE RightlyAsked(req[s])'
  <2>1. req'[s] = req[s] /\ RightlyAsked(req[s])
    BY <1>1, <1>2 DEF Inv, RightlyAskedAll
  <2> QED
    BY <2>1 DEF RightlyAsked, Onward
<1>3. RightlyAsked(req[r])'
  BY <1>1 DEF RightlyAsked
<1> QED
  BY <1>1, <1>2, <1>3 DEF RightlyAskedAll

LEMMA Ends ==
    ASSUME Inv, NEW r \in Requests, End(r),
           Onward
    PROVE  ReqOK' /\ RightlyAskedAll'
<1>1. NoRequest \in ReqRecord /\ RightlyAsked(NoRequest)'
  BY BridgeAssumption DEF NoRequest, ReqRecord, RightlyAsked
<1> QED
  BY <1>1, Becomes DEF End

LEMMA GoesOn ==
    ASSUME Inv, NEW r \in Requests,
           NEW at \in {"done", "sent", "attach", "verify", "invoke", "read"}, Goto(r, at),
           req[r].kind # "disburse",
           Onward
    PROVE  ReqOK' /\ RightlyAskedAll'
<1>1. PICK o \in ReqRecord : o = req[r]
  BY DEF Inv, ReqOK
<1> DEFINE q == [kind |-> o.kind, at |-> at, alive |-> o.alive, amount |-> o.amount, full |-> o.full]
<1>2. q \in ReqRecord
  BY <1>1 DEF ReqRecord
<1>3. [o EXCEPT !.at = at] = q
  BY DEF ReqRecord
<1>4. req' = [req EXCEPT ![r] = [req[r] EXCEPT !.at = at]]
  BY DEF Goto, Inv, ReqOK
<1>5. req' = [req EXCEPT ![r] = q]
  BY <1>1, <1>3, <1>4
<1>6. RightlyAsked(q)'
  BY <1>1 DEF RightlyAsked
<1> HIDE DEF q
<1> QED
  BY <1>2, <1>5, <1>6, Becomes

LEMMA Begins ==
    ASSUME Inv, NEW q \in ReqRecord, Begin(q), RightlyAsked(q)', UNCHANGED record
    PROVE  ReqOK' /\ RightlyAskedAll'
  BY Becomes DEF Begin, Onward

LEMMA RequestType ==
    ASSUME NEW kind \in {"lock", "register", "disburse", "release", "liquidate", "reattest"},
           NEW at \in {"sent", "attach", "invoke", "read"}
    PROVE  /\ Request(kind, at) \in ReqRecord
           /\ Request(kind, at).kind = kind /\ Request(kind, at).at = at
  BY BridgeAssumption DEF Request, ReqRecord

LEMMA ShowType ==
    ASSUME Inv, NEW r \in Requests,
           NEW step \in {"connect", "lock", "stellar_register", "oracle_pending"}, Show(r, step)
    PROVE  PageOK'
  BY DEF Inv, PageOK, Show

\* What the invariant says of loan, record, lock, view and due, where a step
\* leaves them alone.
LEMMA SafeStays ==
    ASSUME Inv, UNCHANGED <<stellar, record, lock, view, due>>
    PROVE  StateOK' /\ ViewOK' /\ Safe'
  BY DEF Inv, StateOK, ViewOK, stellar, Safe, SettledTogether, DisbursedIsBacked,
     DueIsDone, SeenIsVerified, SeizedIsClosed, StillOwing

\* What it says of requests, where they and the record are left alone.
LEMMA RequestsStay ==
    ASSUME Inv, UNCHANGED <<req, record>>
    PROVE  ReqOK' /\ RightlyAskedAll'
  BY DEF Inv, ReqOK, RightlyAskedAll, RightlyAsked

-----------------------------------------------------------------------------
(* The borrower's page *)

LEMMA PageInv ==
    ASSUME Inv, Restore \/ PageMoves
    PROVE  Inv'
<1>1. UNCHANGED <<stellar, record, lock, view, req, due>>
  BY DEF Restore, PageMoves
<1>2. PageOK'
  BY DEF Inv, PageOK, Restore, PageMoves
<1> QED
  BY <1>1, <1>2, SafeStays, RequestsStay DEF Inv, stellar

LEMMA AliveType ==
    ASSUME NEW o \in ReqRecord, NEW alive \in BOOLEAN
    PROVE  /\ [o EXCEPT !.alive = alive] \in ReqRecord
           /\ [o EXCEPT !.alive = alive].kind = o.kind
           /\ [o EXCEPT !.alive = alive].at = o.at
  BY DEF ReqRecord

LEMMA ReloadInv ==
    ASSUME Inv, Reload
    PROVE  Inv'
<1>1. /\ UNCHANGED <<stellar, record, lock, view, due>> /\ page' = "checking"
      /\ req' = [r \in Requests |-> [req[r] EXCEPT !.alive = FALSE]]
  BY DEF Reload
<1>2. ASSUME NEW r \in Requests PROVE req'[r] \in ReqRecord /\ RightlyAsked(req[r])'
  <2>1. PICK o \in ReqRecord : o = req[r]
    BY DEF Inv, ReqOK
  <2>2. /\ req'[r] = [o EXCEPT !.alive = FALSE] /\ RightlyAsked(o)
        /\ UNCHANGED record
    BY <1>1, <2>1 DEF Inv, RightlyAskedAll
  <2>3. PICK q \in ReqRecord : q = req'[r] /\ q.kind = o.kind /\ q.at = o.at
    BY <2>2, AliveType
  <2> QED
    BY <2>2, <2>3 DEF RightlyAsked
<1>3. ReqOK' /\ RightlyAskedAll'
  BY <1>1, <1>2 DEF ReqOK, RightlyAskedAll
<1>4. PageOK'
  BY <1>1 DEF PageOK
<1> QED
  BY <1>1, <1>3, <1>4, SafeStays DEF Inv

\* Every click puts a request on its way, and the one that pays a loan out
\* relies on a record that was seen verified.
LEMMA ClickInv ==
    ASSUME Inv, ClickLock \/ ClickRegister \/ ClickDisburse \/ ClickRepay
                \/ AskRelease \/ AskLiquidate \/ AskReattest
    PROVE  Inv'
<1>1. UNCHANGED <<stellar, record, lock, view, due>>
  BY DEF ClickLock, ClickRegister, ClickDisburse, ClickRepay, AskRelease,
     AskLiquidate, AskReattest
<1>2. PageOK'
  BY DEF Inv, PageOK, ClickLock, ClickRegister, ClickDisburse, ClickRepay, AskRelease,
     AskLiquidate, AskReattest
<1>3. ReqOK' /\ RightlyAskedAll'
  <2>1. ASSUME NEW kind \in {"lock", "register", "release", "liquidate", "reattest"},
               NEW at \in {"sent", "attach", "invoke", "read"}, Begin(Request(kind, at))
        PROVE  ReqOK' /\ RightlyAskedAll'
    <3>1. RightlyAsked(Request(kind, at))'
      BY RequestType DEF RightlyAsked
    <3> QED
      BY <1>1, <2>1, <3>1, RequestType, Begins DEF stellar
  <2>2. CASE ClickDisburse
    <3>1. record' \in Verified
      BY <1>1, <2>2 DEF Inv, Safe, SeenIsVerified, ClickDisburse, Ready, Verified
    <3>2. RightlyAsked(Request("disburse", "invoke"))'
      BY <3>1, RequestType DEF RightlyAsked
    <3> QED
      BY <1>1, <2>2, <3>2, RequestType, Begins DEF ClickDisburse, stellar
  <2>3. CASE ClickRepay
    <3>1. PICK amount \in 1 .. (Principal + Interest), interest \in 0 .. Interest :
              Begin(Repayment(amount, IsFull(amount, interest)))
      BY <2>3 DEF ClickRepay
    <3>2. PICK full \in BOOLEAN : Begin(Repayment(amount, full))
      <4>1. IsFull(amount, interest) \in BOOLEAN
        BY DEF IsFull
      <4> QED
        BY <3>1, <4>1, Zenon
    <3>3. /\ Repayment(amount, full) \in ReqRecord
          /\ RightlyAsked(Repayment(amount, full))'
      BY DEF Repayment, ReqRecord, RightlyAsked
    <3> QED
      BY <1>1, <3>2, <3>3, Begins DEF stellar
  <2> QED
    BY <2>1, <2>2, <2>3 DEF ClickLock, ClickRegister, AskRelease, AskLiquidate, AskReattest
<1> QED
  BY <1>1, <1>2, <1>3, SafeStays DEF Inv

LEMMA PollInv ==
    ASSUME Inv, Poll
    PROVE  Inv'
<1>1. UNCHANGED <<stellar, record, lock, page, req, due>>
  BY DEF Poll
<1>2. StateOK' /\ PageOK'
  BY <1>1 DEF Inv, StateOK, PageOK, stellar
<1>3. PICK o \in [loan : LoanStates, repaid : 0 .. repaid, record : Statuses] : o = view
  BY DEF Inv, ViewOK
<1>4. \/ view' = [loan |-> loan, repaid |-> repaid, record |-> o.record]
      \/ view' = [o EXCEPT !.record = record]
  BY <1>3 DEF Poll
<1>5. /\ view' \in [loan : LoanStates, repaid : 0 .. repaid, record : Statuses]
      /\ view'.record \in {view.record, record} /\ view'.loan \in {view.loan, loan}
  <2>1. loan \in LoanStates /\ repaid \in 0 .. repaid /\ record \in Statuses
    BY BridgeAssumption DEF Inv, StateOK
  <2>2. [o EXCEPT !.record = record] = [loan |-> o.loan, repaid |-> o.repaid, record |-> record]
    OBVIOUS
  <2> QED
    BY <1>3, <1>4, <2>1, <2>2
<1>6. ViewOK'
  BY <1>1, <1>5 DEF ViewOK, stellar
<1>7. Safe'
  BY <1>1, <1>5 DEF Inv, stellar, Safe, SettledTogether, DisbursedIsBacked, DueIsDone, SeenIsVerified, SeizedIsClosed, StillOwing
<1> QED
  BY <1>1, <1>2, <1>6, <1>7, RequestsStay DEF Inv, stellar

-----------------------------------------------------------------------------
(* Registering: the record becomes Pending, and then Attached *)

LEMMA AttachSets ==
    ASSUME Inv, NEW who \in {"user", "admin"}, Sets(Attach(who), "Pending")
    PROVE  record' = record \/ (record \notin Verified /\ record' = "Pending")
  BY DEF Sets, Attach, Inv, StateOK, Statuses, Verified

LEMMA VerifySets ==
    ASSUME Inv, Sets(Verify, "Attached")
    PROVE  record' = record \/ (record \notin Verified /\ record' = "Attached")
  BY DEF Sets, Verify, Inv, StateOK, Statuses, Verified

\* A record that is not verified yet goes on.
LEMMA RecordGoesOn ==
    ASSUME Inv, UNCHANGED <<stellar, lock, view, due>>,
           record' = record \/ (record \notin Verified /\ record' \in {"Pending", "Attached"})
    PROVE  StateOK' /\ ViewOK' /\ Safe' /\ Onward /\ loan' = loan
<1>1. UNCHANGED <<borrower, loan, repaid, vaultActive, lock, view, due>>
  BY DEF stellar
<1>2. StateOK' /\ ViewOK'
  BY <1>1 DEF Inv, StateOK, ViewOK, Statuses
<1>3. record \in Verified => record' = record
  OBVIOUS
<1>4. Safe'
  BY <1>1, <1>3 DEF Inv, Safe, SettledTogether, DisbursedIsBacked, DueIsDone, SeenIsVerified, SeizedIsClosed, StillOwing, Verified
<1> QED
  BY <1>1, <1>2, <1>3, <1>4 DEF Onward

LEMMA RegisterInv ==
    ASSUME Inv, NEW r \in Requests, RegisterAttach(r) \/ RegisterVerify(r)
    PROVE  Inv'
<1>1. CASE RegisterAttach(r)
  <2>1. UNCHANGED <<stellar, lock, view, due>> /\ At(r, "register", "attach")
    BY <1>1 DEF RegisterAttach
  <2>2. record' = record \/ (record \notin Verified /\ record' \in {"Pending", "Attached"})
    BY <1>1, AttachSets DEF RegisterAttach
  <2>3. StateOK' /\ ViewOK' /\ Safe' /\ Onward /\ loan' = loan
    BY <2>1, <2>2, RecordGoesOn
  <2>4. \/ UNCHANGED page /\ (Goto(r, "verify") \/ End(r))
        \/ Show(r, "stellar_register") /\ End(r)
    BY <1>1 DEF RegisterAttach
  <2>5. PageOK'
    BY <2>4, ShowType DEF Inv, PageOK
  <2>6. ReqOK' /\ RightlyAskedAll'
    BY <2>1, <2>3, <2>4, GoesOn, Ends DEF At
  <2> QED
    BY <2>3, <2>5, <2>6 DEF Inv
<1>2. CASE RegisterVerify(r)
  <2>1. UNCHANGED <<stellar, lock, view, due>> /\ End(r)
    BY <1>2 DEF RegisterVerify
  <2>2. record' = record \/ (record \notin Verified /\ record' \in {"Pending", "Attached"})
    BY <1>2, VerifySets DEF RegisterVerify
  <2>3. StateOK' /\ ViewOK' /\ Safe' /\ Onward /\ loan' = loan
    BY <2>1, <2>2, RecordGoesOn
  <2>4. PageOK'
    BY <1>2, ShowType DEF RegisterVerify
  <2> QED
    BY <2>1, <2>3, <2>4, Ends DEF Inv
<1> QED
  BY <1>1, <1>2

LEMMA ReattestInv ==
    ASSUME Inv, NEW r \in Requests,
           ReattestRead(r) \/ ReattestAttach(r) \/ ReattestVerify(r)
    PROVE  Inv'
<1>1. UNCHANGED <<stellar, lock, view, page, due>> /\ req[r].kind = "reattest"
  BY DEF ReattestRead, ReattestAttach, ReattestVerify, At
<1>2. record' = record \/ (record \notin Verified /\ record' \in {"Pending", "Attached"})
  BY AttachSets, VerifySets DEF ReattestRead, ReattestAttach, ReattestVerify
<1>3. StateOK' /\ ViewOK' /\ Safe' /\ Onward /\ loan' = loan
  BY <1>1, <1>2, RecordGoesOn
<1>4. Goto(r, "attach") \/ Goto(r, "verify") \/ End(r)
  BY DEF ReattestRead, ReattestAttach, ReattestVerify
<1>5. ReqOK' /\ RightlyAskedAll'
  BY <1>1, <1>3, <1>4, GoesOn, Ends
<1>6. PageOK'
  BY <1>1 DEF Inv, PageOK
<1> QED
  BY <1>3, <1>5, <1>6 DEF Inv

-----------------------------------------------------------------------------
(* The loan is paid out and repaid *)

\* The admin's page saw the record verified, and it still is.
LEMMA DisburseInv ==
    ASSUME Inv, NEW r \in Requests, Disburse(r)
    PROVE  Inv'
<1>1. /\ UNCHANGED <<borrower, repaid, vaultActive, record, lock, view, page, due>>
      /\ End(r) /\ At(r, "disburse", "invoke")
      /\ loan' = loan \/ (loan = "Originated" /\ loan' = "Active")
  BY DEF Disburse
<1>2. record \in Verified
  BY <1>1 DEF Inv, RightlyAskedAll, RightlyAsked, At
<1>3. StateOK' /\ ViewOK' /\ PageOK'
  BY <1>1 DEF Inv, StateOK, ViewOK, PageOK, LoanStates
<1>4. Safe'
  BY <1>1, <1>2 DEF Inv, Safe, SettledTogether, DisbursedIsBacked, DueIsDone, SeenIsVerified, SeizedIsClosed, StillOwing
<1>5. ReqOK' /\ RightlyAskedAll'
  BY <1>1, Ends DEF Onward
<1> QED
  BY <1>3, <1>4, <1>5 DEF Inv

LEMMA RepayInv ==
    ASSUME Inv, NEW r \in Requests, Repay(r)
    PROVE  Inv'
<1>1. UNCHANGED <<borrower, vaultActive, record, lock, view, page, due>>
  BY DEF Repay
<1>2. req[r].amount \in 0 .. (Principal + Interest)
  BY DEF Inv, ReqOK, ReqRecord
<1>3. CASE Owing
  <2>1. /\ repaid' = repaid + req[r].amount
        /\ loan' = IF repaid + req[r].amount >= Principal THEN "Repaid" ELSE "Repaying"
        /\ req' = [req EXCEPT ![r] = Request("release", "read")] \/ End(r)
    BY <1>3 DEF Repay
  <2>2. repaid < Principal /\ repaid \in Nat /\ loan # "Originated" /\ loan # "Repaid"
    BY <1>3, BridgeAssumption DEF Inv, Safe, StillOwing, Owing, StateOK
  <2>3. /\ repaid' \in 0 .. (2 * Principal + Interest) /\ repaid <= repaid'
        /\ loan' # "Repaid" => repaid' < Principal
    BY <1>2, <2>1, <2>2, BridgeAssumption
  <2>4. StateOK' /\ PageOK'
    BY <1>1, <2>1, <2>3 DEF Inv, StateOK, PageOK, LoanStates
  <2>5. ViewOK'
    <3>1. view \in [loan : LoanStates, repaid : 0 .. repaid, record : Statuses]
      BY DEF Inv, ViewOK
    <3>2. 0 .. repaid \subseteq 0 .. repaid'
      BY <2>2, <2>3
    <3> QED
      BY <1>1, <3>1, <3>2 DEF ViewOK
  <2>6. Safe'
    BY <1>1, <2>1, <2>2, <2>3 DEF Inv, Safe, SettledTogether, DisbursedIsBacked, DueIsDone, SeenIsVerified, SeizedIsClosed, StillOwing
  <2>7. RightlyAsked(Request("release", "read"))'
    BY RequestType DEF RightlyAsked
  <2>8. ReqOK' /\ RightlyAskedAll'
    BY <1>1, <2>1, <2>2, <2>7, RequestType, Becomes, Ends DEF Onward
  <2> QED
    BY <2>4, <2>5, <2>6, <2>8 DEF Inv
<1>4. CASE ~ Owing
  <2>1. UNCHANGED <<stellar, record, lock, view, due>> /\ End(r)
    BY <1>1, <1>4 DEF Repay, stellar
  <2>2. PageOK'
    BY <1>1 DEF Inv, PageOK
  <2> QED
    BY <2>1, <2>2, SafeStays, Ends DEF Inv, stellar, Onward
<1> QED
  BY <1>3, <1>4

-----------------------------------------------------------------------------
(* The collateral is settled *)

LEMMA Outcomes ==
    /\ DOMAIN Outcome = {"release", "liquidate"}
    /\ Outcome["release"] = "Released" /\ Outcome["liquidate"] = "Liquidated"
  BY DEF Outcome

LEMMA ReleaseReadInv ==
    ASSUME Inv, NEW r \in Requests, ReleaseRead(r)
    PROVE  Inv'
<1>1. /\ UNCHANGED <<stellar, record, lock, view, page, due>> /\ req[r].kind = "release"
      /\ Goto(r, "invoke") \/ End(r)
  BY DEF ReleaseRead, At
<1>2. ReqOK' /\ RightlyAskedAll'
  BY <1>1, GoesOn, Ends DEF Onward
<1>3. PageOK'
  BY <1>1 DEF Inv, PageOK
<1> QED
  BY <1>1, <1>2, <1>3, SafeStays DEF Inv

\* What a call that settles does: it takes the record from Attached, for good,
\* and only then is the Safe asked to do the same; a seizure closes the vault.
Settles(kind) ==
    \/ /\ record = "Attached" /\ record' = Outcome[kind]
       /\ due' \in {due, due \cup {kind}}
       /\ kind = "release" => vaultActive' = vaultActive
       /\ kind = "liquidate" => vaultActive /\ vaultActive' = FALSE
    \/ UNCHANGED <<record, due, vaultActive>>

LEMMA SettleOutcome ==
    ASSUME StateOK, NEW r \in Requests, SettleInvoke(r)
    PROVE  /\ req[r].kind \in {"release", "liquidate"} /\ End(r)
           /\ UNCHANGED <<borrower, loan, repaid, lock, view, page>>
           /\ Settles(req[r].kind)
<1> DEFINE kind   == req[r].kind
           answer == SettleCall(kind)
<1>1. /\ kind \in {"release", "liquidate"} /\ End(r)
      /\ UNCHANGED <<borrower, loan, repaid, lock, view, page>>
      /\ record' = IF answer = "ok" THEN Outcome[kind] ELSE record
      /\ vaultActive' = (vaultActive /\ ~(kind = "liquidate" /\ answer = "ok"))
      /\ due' \in {due, IF answer = "ok" THEN due \cup {kind} ELSE due}
  BY Outcomes DEF SettleInvoke, Sets, Due
<1>2. answer = "ok" => record = "Attached" /\ (kind = "liquidate" => vaultActive)
  BY DEF SettleCall, Settle
<1>3. vaultActive \in BOOLEAN
  BY DEF StateOK
<1> HIDE DEF kind, answer
<1>4. CASE answer = "ok"
  <2>1. kind = "release" => vaultActive' = vaultActive
    BY <1>1, <1>3, Zenon
  <2>2. kind = "liquidate" => vaultActive /\ vaultActive' = FALSE
    BY <1>1, <1>2, <1>4, Zenon
  <2> QED
    BY <1>1, <1>2, <1>4, <2>1, <2>2 DEF Settles, kind
<1>5. CASE answer # "ok"
  <2>1. vaultActive' = vaultActive
    BY <1>1, <1>3, <1>5, Zenon
  <2> QED
    BY <1>1, <1>5, <2>1 DEF Settles, kind
<1> QED
  BY <1>4, <1>5

LEMMA SettleInv ==
    ASSUME Inv, NEW r \in Requests, SettleInvoke(r)
    PROVE  Inv'
<1>1. PICK kind \in {"release", "liquidate"} :
         Settles(kind) /\ End(r) /\ UNCHANGED <<borrower, loan, repaid, lock, view, page>>
  BY SettleOutcome DEF Inv
<1>2. CASE UNCHANGED <<record, due, vaultActive>>
  <2>1. UNCHANGED <<stellar, record, lock, view, due>>
    BY <1>1, <1>2 DEF stellar
  <2> QED
    BY <1>1, <2>1, SafeStays, Ends DEF Inv, PageOK, Onward
<1>3. CASE /\ record = "Attached" /\ record' = Outcome[kind]
           /\ due' \in {due, due \cup {kind}}
           /\ kind = "release" => vaultActive' = vaultActive
           /\ kind = "liquidate" => vaultActive /\ vaultActive' = FALSE
  <2>1. /\ record' \in {"Released", "Liquidated"} /\ vaultActive' \in BOOLEAN
        /\ kind = "release" <=> record' = "Released"
    BY <1>1, <1>3, Outcomes DEF Inv, StateOK
  <2>2. StateOK' /\ ViewOK' /\ PageOK'
    <3>1. due' \subseteq {"release", "liquidate"} /\ record' \in Statuses
      BY <1>1, <1>3, <2>1 DEF Inv, StateOK, Statuses
    <3> QED
      BY <1>1, <2>1, <3>1 DEF Inv, StateOK, ViewOK, PageOK
  <2>3. "release" \notin due /\ "liquidate" \notin due /\ lock # "Released" /\ lock # "Liquidated"
    BY <1>3 DEF Inv, Safe, DueIsDone, SettledTogether
  <2>4. Safe'
    <3>1. (SettledTogether /\ DisbursedIsBacked /\ SeenIsVerified /\ StillOwing)'
      BY <1>1, <2>1, <2>3 DEF Inv, Safe, SettledTogether, DisbursedIsBacked, SeenIsVerified,
         StillOwing, Verified
    <3>2. DueIsDone'
      BY <1>1, <1>3, <2>1, <2>3 DEF DueIsDone
    <3>3. SeizedIsClosed'
      BY <1>1, <1>3, <2>1 DEF SeizedIsClosed
    <3> QED
      BY <3>1, <3>2, <3>3 DEF Safe
  <2>5. Onward
    BY <2>1 DEF Onward, Verified
  <2> QED
    BY <1>1, <2>2, <2>4, <2>5, Ends DEF Inv
<1> QED
  BY <1>1, <1>2, <1>3 DEF Settles

-----------------------------------------------------------------------------
(* The chains and the Safe *)

LEMMA SafeOutcome ==
    ASSUME StateOK, SafeActs
    PROVE  /\ UNCHANGED <<stellar, record, view, page, req, due>>
           /\ lock \in {"Young", "Locked"}
           /\ \/ "release" \in due /\ lock' = "Released"
              \/ "liquidate" \in due /\ lock' = "Liquidated"
<1>1. PICK call \in due : lock' = Outcome[call]
  BY DEF SafeActs
<1>2. call = "release" \/ call = "liquidate"
  BY DEF StateOK
<1> QED
  BY <1>1, <1>2, Outcomes DEF SafeActs

LEMMA LockInv ==
    ASSUME Inv, (\E r \in Requests : LockMined(r)) \/ LockSettles \/ SafeActs
    PROVE  Inv'
<1>1. UNCHANGED <<stellar, record, view, due>>
  BY DEF LockMined, LockSettles, SafeActs
<1>2. \/ lock' = lock
      \/ lock' \in {"Young", "Locked", "Empty"}
      \/ "release" \in due /\ lock' = "Released"
      \/ "liquidate" \in due /\ lock' = "Liquidated"
  <2>1. CASE SafeActs
    BY <2>1, SafeOutcome DEF Inv
  <2> QED BY <2>1 DEF LockMined, LockSettles
<1>3. StateOK' /\ ViewOK' /\ Safe'
  BY <1>1, <1>2 DEF Inv, StateOK, ViewOK, stellar, Safe, SettledTogether, DisbursedIsBacked, DueIsDone, SeenIsVerified, SeizedIsClosed, StillOwing
<1>4. ReqOK' /\ RightlyAskedAll' /\ PageOK'
  <2>1. ASSUME NEW r \in Requests, LockMined(r) PROVE ReqOK' /\ RightlyAskedAll' /\ PageOK'
    BY <1>1, <2>1, Ends, ShowType DEF LockMined, stellar, Onward
  <2>2. ASSUME LockSettles \/ SafeActs PROVE ReqOK' /\ RightlyAskedAll' /\ PageOK'
    <3>1. UNCHANGED <<req, record, page>>
      BY <2>2 DEF LockSettles, SafeActs
    <3> QED
      BY <3>1, RequestsStay DEF Inv, PageOK
  <2> QED
    BY <2>1, <2>2
<1> QED
  BY <1>3, <1>4 DEF Inv

\* A direct call settles no more than a route does, and the vault stays as it is.
LEMMA DirectInv ==
    ASSUME Inv, DirectCall
    PROVE  Inv'
<1>1. UNCHANGED <<stellar, lock, view, page, req, due>>
  BY DEF DirectCall
<1>2. StateOK' /\ ViewOK' /\ Safe' /\ Onward
  <2>1. CASE Sets(Settle, "Released") /\ record' # record
    <3>1. record = "Attached" /\ record' = "Released"
      BY <2>1 DEF Sets, Settle
    <3>2. "release" \notin due /\ "liquidate" \notin due /\ lock # "Released" /\ lock # "Liquidated"
      BY <3>1 DEF Inv, Safe, DueIsDone, SettledTogether
    <3>3. StateOK' /\ ViewOK'
      BY <1>1, <3>1 DEF Inv, StateOK, ViewOK, Statuses, stellar
    <3>4. Safe'
      BY <1>1, <3>1, <3>2 DEF Inv, Safe, SettledTogether, DisbursedIsBacked, DueIsDone,
         SeenIsVerified, SeizedIsClosed, StillOwing, Verified, stellar
    <3> QED
      BY <3>1, <3>3, <3>4 DEF Onward, Verified
  <2>2. CASE record' = record \/ (record \notin Verified /\ record' \in {"Pending", "Attached"})
    BY <1>1, <2>2, RecordGoesOn
  <2>3. CASE Sets(Attach(borrower), "Pending")
    BY <2>2, <2>3, AttachSets DEF Inv, StateOK
  <2> QED
    BY <2>1, <2>2, <2>3, VerifySets DEF DirectCall
<1>3. ReqOK' /\ RightlyAskedAll' /\ PageOK'
  BY <1>1, <1>2 DEF Inv, ReqOK, RightlyAskedAll, RightlyAsked, PageOK, Onward
<1> QED
  BY <1>2, <1>3 DEF Inv

LEMMA OthersInv ==
    ASSUME Inv, WatcherVerifies \/ VaultDefaults
    PROVE  Inv'
<1>1. CASE WatcherVerifies
  <2>1. /\ UNCHANGED <<stellar, lock, view, page, req, due>>
        /\ record \notin Verified /\ record' = "Attached"
    BY <1>1 DEF WatcherVerifies, Verified
  <2>2. StateOK' /\ ViewOK' /\ Safe' /\ Onward /\ loan' = loan
    BY <2>1, RecordGoesOn
  <2>3. ReqOK' /\ RightlyAskedAll' /\ PageOK'
    BY <2>1, <2>2 DEF Inv, ReqOK, RightlyAskedAll, RightlyAsked, PageOK, Onward
  <2> QED
    BY <2>2, <2>3 DEF Inv
<1>2. CASE VaultDefaults
  <2>1. UNCHANGED <<borrower, loan, repaid, record, lock, view, page, req, due>>
        /\ vaultActive' = FALSE
    BY <1>2 DEF VaultDefaults
  <2>2. StateOK' /\ ViewOK' /\ PageOK'
    BY <2>1 DEF Inv, StateOK, ViewOK, PageOK
  <2>3. Safe'
    BY <2>1 DEF Inv, Safe, SettledTogether, DisbursedIsBacked, DueIsDone, SeenIsVerified, SeizedIsClosed, StillOwing
  <2> QED
    BY <2>1, <2>2, <2>3, RequestsStay DEF Inv
<1> QED
  BY <1>1, <1>2

LEMMA FailInv ==
    ASSUME Inv, NEW r \in Requests, Fail(r)
    PROVE  Inv'
<1>1. UNCHANGED <<stellar, record, lock, view, due>> /\ End(r)
  BY DEF Fail
<1>2. AfterFailure(req[r].kind) \in {"lock", "stellar_register"}
  BY DEF AfterFailure
<1>3. PageOK'
  BY <1>2, ShowType DEF Fail, Inv, PageOK
<1> QED
  BY <1>1, <1>3, SafeStays, Ends DEF Inv, stellar, Onward

-----------------------------------------------------------------------------
\* The invariant behind the rest: a record that was seen verified stays so,
\* whoever releases or seizes it, which is why the admin's page does no harm by
\* acting on what it saw; the Safe is asked only for what a record says already;
\* and a record that was seized has a closed vault.
THEOREM BridgeInvariant == Spec => []Inv
<1>1. Init => Inv
  BY InitInv
<1>2. Inv /\ [Next]_vars => Inv'
  <2> SUFFICES ASSUME Inv, [Next]_vars PROVE Inv'
    OBVIOUS
  <2>1. CASE UNCHANGED vars
    <3>1. UNCHANGED <<stellar, record, lock, view, page, req, due>>
      BY <2>1 DEF vars
    <3> QED
      BY <3>1, SafeStays, RequestsStay DEF Inv, PageOK
  <2>2. ASSUME NEW r \in Requests, RouteStep(r) PROVE Inv'
    BY <2>2, LockInv, RegisterInv, DisburseInv, RepayInv, ReleaseReadInv, SettleInv,
       ReattestInv, FailInv DEF RouteStep
  <2>3. CASE Next
    BY <2>2, <2>3, PageInv, ReloadInv, ClickInv, PollInv, LockInv, DirectInv, OthersInv DEF Next
  <2> QED
    BY <2>1, <2>3
<1> QED
  BY <1>1, <1>2, PTL DEF Spec

\* Pages, requests, records and locks keep their types, and what is repaid
\* stays within a principal and one more payment.
THEOREM BridgeTypes == Spec => []TypeOK
<1>1. Inv => TypeOK
  BY TypesAgree DEF Inv
<1> QED
  BY <1>1, BridgeInvariant, PTL

\* The two chains never disagree on where the collateral went.
THEOREM ChainsAgree == Spec => []SettledTogether
<1>1. Inv => SettledTogether
  BY DEF Inv, Safe
<1> QED
  BY <1>1, BridgeInvariant, PTL

\* No loan is paid out by the admin's page on collateral that was not verified.
THEOREM PayoutBacked == Spec => []DisbursedIsBacked
<1>1. Inv => DisbursedIsBacked
  BY DEF Inv, Safe
<1> QED
  BY <1>1, BridgeInvariant, PTL

\* A verified record is released or seized, once, and nothing else becomes of it.
THEOREM VerifiedKept == Spec => VerifiedIsKept
<1>1. Inv /\ [Next]_vars => [SettlesOnce]_vars
  <2> SUFFICES ASSUME Inv, [Next]_vars PROVE SettlesOnce \/ UNCHANGED vars
    OBVIOUS
  <2>1. ASSUME UNCHANGED record PROVE SettlesOnce
    BY <2>1 DEF SettlesOnce
  <2>2. ASSUME record' = record \/ record \notin Verified PROVE SettlesOnce
    BY <2>2 DEF SettlesOnce
  <2>3. ASSUME NEW r \in Requests, RouteStep(r) PROVE SettlesOnce
    <3>1. CASE RegisterAttach(r) \/ ReattestAttach(r)
      BY <2>2, <3>1, AttachSets DEF RegisterAttach, ReattestAttach
    <3>2. CASE RegisterVerify(r) \/ ReattestVerify(r)
      BY <2>2, <3>2, VerifySets DEF RegisterVerify, ReattestVerify
    <3>3. CASE SettleInvoke(r)
      <4>1. record' = record \/ (record = "Attached" /\ record' \in {"Released", "Liquidated"})
        BY <3>3, SettleOutcome, Outcomes DEF Settles, Inv
      <4> QED
        BY <4>1 DEF SettlesOnce
    <3>4. CASE LockMined(r) \/ Disburse(r) \/ Repay(r) \/ ReleaseRead(r)
               \/ ReattestRead(r) \/ Fail(r)
      BY <2>1, <3>4 DEF LockMined, Disburse, Repay, ReleaseRead, ReattestRead, Fail
    <3> QED
      BY <2>3, <3>1, <3>2, <3>3, <3>4 DEF RouteStep
  <2>4. CASE WatcherVerifies
    BY <2>2, <2>4 DEF WatcherVerifies, Verified
  <2>5. CASE \/ Restore \/ PageMoves \/ Reload \/ ClickLock \/ ClickRegister \/ Poll
             \/ ClickDisburse \/ ClickRepay \/ AskRelease \/ AskLiquidate \/ AskReattest
             \/ LockSettles \/ VaultDefaults \/ SafeActs
    BY <2>1, <2>5 DEF Restore, PageMoves, Reload, ClickLock, ClickRegister, Poll, ClickDisburse,
       ClickRepay, AskRelease, AskLiquidate, AskReattest, LockSettles, VaultDefaults, SafeActs
  <2>6. CASE DirectCall
    <3>1. CASE Sets(Settle, "Released")
      BY <3>1 DEF Sets, Settle, SettlesOnce
    <3>2. CASE Sets(Attach(borrower), "Pending")
      BY <2>2, <3>2, AttachSets DEF Inv, StateOK
    <3> QED
      BY <2>2, <2>6, <3>1, <3>2, VerifySets DEF DirectCall
  <2> QED
    BY <2>3, <2>4, <2>5, <2>6 DEF Next
<1> QED
  BY <1>1, BridgeInvariant, PTL DEF Spec, VerifiedIsKept

-----------------------------------------------------------------------------
(* Every step is one of a secured loan, or none *)

LifeStutter == UNCHANGED <<LifeLoan, LifeRecord, LifeLock>>

LifeStep == Life!Next \/ LifeStutter

LEMMA InitLife == Init => Life!Init
  BY DEF Init, Life!Init, LifeLoan, LifeRecord, LifeLock, Verified

LEMMA NothingHappens ==
    ASSUME UNCHANGED <<loan, record>>,
           lock' = lock \/ ({lock, lock'} \cap {"Released", "Liquidated"} = {})
    PROVE  LifeStep
  BY DEF LifeStep, LifeStutter, LifeLoan, LifeRecord, LifeLock

\* A record that no oracle has verified is of a loan that is not paid out, so
\* its verification comes in time.
LEMMA VerifiesInTime ==
    ASSUME Inv, UNCHANGED <<loan, lock>>,
           record' = record \/ (record \notin Verified /\ record' \in {"Pending", "Attached"})
    PROVE  LifeStep
<1>1. CASE record' = record
  BY <1>1, NothingHappens
<1>2. CASE record \notin Verified /\ record' = "Pending"
  BY <1>2 DEF LifeStep, LifeStutter, LifeLoan, LifeRecord, LifeLock, Verified
<1>3. CASE record \notin Verified /\ record' = "Attached"
  <2>1. loan = "Originated"
    BY <1>3 DEF Inv, Safe, DisbursedIsBacked
  <2>2. Life!Verify
    BY <1>3, <2>1 DEF Life!Verify, LifeLoan, LifeRecord, LifeLock, Verified
  <2> QED
    BY <2>2 DEF LifeStep, Life!Next
<1> QED
  BY <1>1, <1>2, <1>3

LEMMA VerifyLife ==
    ASSUME Inv, \/ WatcherVerifies
                \/ Sets(Verify, "Attached") /\ UNCHANGED <<stellar, lock>>
                \/ Sets(Attach(borrower), "Pending") /\ UNCHANGED <<stellar, lock>>
                \/ \E r \in Requests : \/ RegisterAttach(r) \/ RegisterVerify(r)
                                       \/ ReattestAttach(r) \/ ReattestVerify(r)
    PROVE  LifeStep
<1>1. UNCHANGED <<loan, lock>>
  BY DEF WatcherVerifies, RegisterAttach, RegisterVerify, ReattestAttach, ReattestVerify, stellar
<1>2. record' = record \/ (record \notin Verified /\ record' \in {"Pending", "Attached"})
  <2>1. CASE WatcherVerifies
    BY <2>1 DEF WatcherVerifies, Verified
  <2> QED
    BY <2>1, AttachSets, VerifySets
       DEF Inv, StateOK, RegisterAttach, RegisterVerify, ReattestAttach, ReattestVerify
<1> QED
  BY <1>1, <1>2, VerifiesInTime

\* What is paid out late is paid out on a record that was verified and has not
\* been seized since, or the vault would be closed.
LEMMA PayOutLife ==
    ASSUME Inv, NEW r \in Requests, Disburse(r)
    PROVE  LifeStep
<1>1. /\ UNCHANGED <<record, lock>> /\ At(r, "disburse", "invoke")
      /\ loan' = loan \/ (loan = "Originated" /\ loan' = "Active")
  BY DEF Disburse
<1>2. CASE loan' = loan
  BY <1>1, <1>2, NothingHappens
<1>3. CASE loan = "Originated" /\ loan' = "Active"
  <2>1. record \in Verified
    BY <1>1 DEF Inv, RightlyAskedAll, RightlyAsked, At
  <2>2. record \in {"Attached", "Released"}
    <3>1. vaultActive
      BY <1>3 DEF Disburse
    <3> QED
      BY <2>1, <3>1 DEF Inv, Safe, SeizedIsClosed, Verified
  <2>3. Life!PayOut
    BY <1>1, <1>3, <2>2 DEF Life!PayOut, LifeLoan, LifeRecord, LifeLock, Verified
  <2> QED
    BY <2>3 DEF LifeStep, Life!Next
<1> QED
  BY <1>1, <1>2, <1>3

LEMMA PayBackLife ==
    ASSUME Inv, NEW r \in Requests, Repay(r)
    PROVE  LifeStep
<1>1. UNCHANGED <<record, lock>>
  BY DEF Repay
<1>2. CASE loan' = loan
  BY <1>1, <1>2, NothingHappens
<1>3. CASE loan \in {"Active", "Repaying"} /\ loan' = "Repaying"
  BY <1>1, <1>3 DEF LifeStep, LifeStutter, LifeLoan, LifeRecord, LifeLock
<1>4. CASE loan \in {"Active", "Repaying"} /\ loan' = "Repaid"
  <2>1. Life!PayBack
    BY <1>1, <1>4 DEF Life!PayBack, LifeLoan, LifeRecord, LifeLock
  <2> QED
    BY <2>1 DEF LifeStep, Life!Next
<1> QED
  BY <1>2, <1>3, <1>4 DEF Repay, Owing

LEMMA SettleLife ==
    ASSUME Inv, \/ \E r \in Requests : SettleInvoke(r)
                \/ Sets(Settle, "Released") /\ UNCHANGED <<stellar, lock>>
    PROVE  LifeStep
<1>1. /\ UNCHANGED <<loan, lock>>
      /\ \/ record' = record
         \/ record = "Attached" /\ record' \in {"Released", "Liquidated"}
  <2>1. CASE Sets(Settle, "Released") /\ UNCHANGED <<stellar, lock>>
    BY <2>1 DEF Sets, Settle, stellar
  <2>2. ASSUME NEW r \in Requests, SettleInvoke(r)
        PROVE  /\ UNCHANGED <<loan, lock>>
               /\ \/ record' = record
                  \/ record = "Attached" /\ record' \in {"Released", "Liquidated"}
    BY <2>2, SettleOutcome, Outcomes DEF Settles, Inv
  <2> QED
    BY <2>1, <2>2
<1>2. CASE record' = record
  BY <1>1, <1>2, NothingHappens
<1>3. CASE record = "Attached" /\ record' = "Released"
  <2>1. Life!GiveBack
    BY <1>1, <1>3 DEF Life!GiveBack, LifeLoan, LifeRecord, LifeLock, Verified
  <2> QED
    BY <2>1 DEF LifeStep, Life!Next
<1>4. CASE record = "Attached" /\ record' = "Liquidated"
  <2>1. Life!Seize
    BY <1>1, <1>4 DEF Life!Seize, LifeLoan, LifeRecord, LifeLock, Verified
  <2> QED
    BY <2>1 DEF LifeStep, Life!Next
<1> QED
  BY <1>1, <1>2, <1>3, <1>4

\* The Safe does late what it was asked, and the record still says so.
LEMMA SafeLife ==
    ASSUME Inv, SafeActs
    PROVE  LifeStep
<1>1. /\ UNCHANGED <<loan, record>> /\ lock \in {"Young", "Locked"}
      /\ \/ "release" \in due /\ lock' = "Released"
         \/ "liquidate" \in due /\ lock' = "Liquidated"
  BY SafeOutcome DEF Inv, stellar
<1>2. record = lock' /\ lock' \in {"Released", "Liquidated"}
  BY <1>1 DEF Inv, Safe, DueIsDone
<1>3. Life!HandOver
  BY <1>1, <1>2 DEF Life!HandOver, LifeLoan, LifeRecord, LifeLock, Verified
<1> QED
  BY <1>3 DEF LifeStep, Life!Next

LEMMA OtherLife ==
    ASSUME Inv,
           \/ Restore \/ PageMoves \/ Reload \/ ClickLock \/ ClickRegister \/ Poll
           \/ ClickDisburse \/ ClickRepay \/ AskRelease \/ AskLiquidate \/ AskReattest
           \/ LockSettles \/ VaultDefaults
           \/ \E r \in Requests :
                 LockMined(r) \/ ReleaseRead(r) \/ ReattestRead(r) \/ Fail(r)
    PROVE  LifeStep
<1>1. UNCHANGED <<loan, record>>
  BY DEF Restore, PageMoves, Reload, ClickLock, ClickRegister, Poll, ClickDisburse,
     ClickRepay, AskRelease, AskLiquidate, AskReattest, LockSettles, VaultDefaults,
     LockMined, ReleaseRead, ReattestRead, Fail, stellar
<1>2. lock' = lock \/ (lock \in {"Empty", "Young"} /\ lock' \in {"Empty", "Young", "Locked"})
  BY DEF Restore, PageMoves, Reload, ClickLock, ClickRegister, Poll, ClickDisburse,
     ClickRepay, AskRelease, AskLiquidate, AskReattest, LockSettles, VaultDefaults,
     LockMined, ReleaseRead, ReattestRead, Fail
<1> QED
  BY <1>1, <1>2, NothingHappens

LEMMA NextLife ==
    ASSUME Inv, [Next]_vars
    PROVE  LifeStep
<1>1. CASE UNCHANGED vars
  BY <1>1, NothingHappens DEF vars, stellar
<1>2. ASSUME NEW r \in Requests, RouteStep(r) PROVE LifeStep
  BY <1>2, VerifyLife, PayOutLife, PayBackLife, SettleLife, OtherLife DEF RouteStep
<1>3. CASE DirectCall
  BY <1>3, VerifyLife, SettleLife DEF DirectCall
<1>4. CASE Next
  BY <1>2, <1>3, <1>4, VerifyLife, SafeLife, OtherLife DEF Next
<1> QED
  BY <1>1, <1>4

\* However old the polls and however late the answers, pages, routes, watchers,
\* direct callers and the Safe together act as one secured loan that everybody
\* sees at once: paid out on collateral that was verified and not seized, which
\* leaves its record once, and the escrow after it.
THEOREM BridgeImplementsSecuredLoan == Spec => ImplementsSecuredLoan
<1>1. LifeStep <=> [Life!Next]_<<LifeLoan, LifeRecord, LifeLock>>
  BY DEF LifeStep, LifeStutter
<1> QED
  BY <1>1, InitLife, NextLife, BridgeInvariant, PTL
     DEF Spec, ImplementsSecuredLoan, Life!Spec

-----------------------------------------------------------------------------
(* What the bridge takes prism-core for *)

Gated == [Gates!Next]_(Gates!vars)

\* A call of attach_collateral or verify_collateral, by whomever.
LEMMA EvidenceGated ==
    ASSUME UNCHANGED stellar,
           \/ \E who \in {"user", "admin", borrower} : Sets(Attach(who), "Pending")
           \/ Sets(Verify, "Attached")
    PROVE  Gated
<1>1. UNCHANGED <<loan, vaultActive>>
  BY DEF stellar
<1>2. CASE record' = record
  BY <1>1, <1>2 DEF Gated, Gates!vars
<1>3. ASSUME NEW who, Sets(Attach(who), "Pending"), record' # record
      PROVE  Gated
  <2>1. Attach(who) = "ok" /\ record' = "Pending"
    BY <1>3 DEF Sets
  <2>2. loan \in {"Originated", "Active"} /\ record \in {"None", "Pending"}
    BY <2>1 DEF Attach
  <2>3. Gates!Attach
    BY <1>1, <2>1, <2>2 DEF Gates!Attach
  <2> QED BY <2>3 DEF Gated, Gates!Next
<1>4. CASE Sets(Verify, "Attached") /\ record' # record
  <2>1. record = "Pending" /\ record' = "Attached"
    BY <1>4 DEF Sets, Verify
  <2>2. Gates!Verify
    BY <1>1, <2>1 DEF Gates!Verify
  <2> QED BY <2>2 DEF Gated, Gates!Next
<1> QED BY <1>2, <1>3, <1>4

LEMMA ReleaseGated ==
    ASSUME UNCHANGED <<loan, vaultActive>>, record = "Attached", record' = "Released"
    PROVE  Gated
<1>1. Gates!Release
  BY DEF Gates!Release
<1> QED BY <1>1 DEF Gated, Gates!Next

LEMMA SettleGated ==
    ASSUME TypeOK, NEW r \in Requests, SettleInvoke(r)
    PROVE  Gated
<1>1. PICK kind \in {"release", "liquidate"} :
         Settles(kind) /\ UNCHANGED <<borrower, loan, repaid, lock, view, page>>
  BY TypesAgree, SettleOutcome
<1>2. CASE UNCHANGED <<record, due, vaultActive>>
  BY <1>1, <1>2 DEF Gated, Gates!vars
<1>3. CASE ~UNCHANGED <<record, due, vaultActive>> /\ kind = "release"
  BY <1>1, <1>3, Outcomes, ReleaseGated DEF Settles
<1>4. CASE ~UNCHANGED <<record, due, vaultActive>> /\ kind = "liquidate"
  <2>1. Gates!Liquidate
    BY <1>1, <1>4, Outcomes DEF Settles, Gates!Liquidate
  <2> QED BY <2>1 DEF Gated, Gates!Next
<1> QED BY <1>1, <1>2, <1>3, <1>4

LEMMA DirectGated ==
    ASSUME DirectCall
    PROVE  Gated
<1>1. CASE Sets(Settle, "Released")
  <2>1. CASE record' = record
    BY <2>1 DEF DirectCall, stellar, Gated, Gates!vars
  <2>2. CASE record' # record
    BY <1>1, <2>2, ReleaseGated DEF DirectCall, stellar, Sets, Settle
  <2> QED BY <2>1, <2>2
<1> QED BY <1>1, EvidenceGated DEF DirectCall

LEMMA MoneyGated ==
    ASSUME NEW r \in Requests, Disburse(r) \/ Repay(r)
    PROVE  Gated
<1>1. UNCHANGED <<record, vaultActive>>
  BY DEF Disburse, Repay
<1>2. CASE loan' = loan
  BY <1>1, <1>2 DEF Gated, Gates!vars
<1>3. CASE Disburse(r) /\ loan' # loan
  <2>1. vaultActive /\ record # "Pending" /\ loan = "Originated" /\ loan' = "Active"
    BY <1>3 DEF Disburse
  <2>2. Gates!Disburse
    BY <1>1, <2>1 DEF Gates!Disburse
  <2> QED BY <2>2 DEF Gated, Gates!Next
<1>4. CASE Repay(r) /\ loan' # loan
  <2>1. loan \in {"Active", "Repaying"} /\ loan' \in {"Repaying", "Repaid"}
    BY <1>4 DEF Repay, Owing
  <2>2. Gates!Repay
    BY <1>1, <2>1 DEF Gates!Repay
  <2> QED BY <2>2 DEF Gated, Gates!Next
<1> QED BY <1>2, <1>3, <1>4

LEMMA OtherGated ==
    ASSUME \/ Restore \/ PageMoves \/ Reload \/ ClickLock \/ ClickRegister \/ Poll
           \/ ClickDisburse \/ ClickRepay \/ AskRelease \/ AskLiquidate \/ AskReattest
           \/ LockSettles \/ SafeActs \/ UNCHANGED vars
           \/ \E r \in Requests :
                 LockMined(r) \/ ReleaseRead(r) \/ ReattestRead(r) \/ Fail(r)
    PROVE  Gated
<1>1. UNCHANGED <<loan, record, vaultActive>>
  BY DEF Restore, PageMoves, Reload, ClickLock, ClickRegister, Poll, ClickDisburse,
     ClickRepay, AskRelease, AskLiquidate, AskReattest, LockSettles, SafeActs,
     LockMined, ReleaseRead, ReattestRead, Fail, vars, stellar
<1> QED BY <1>1 DEF Gated, Gates!vars

LEMMA NextGated ==
    ASSUME TypeOK, [Next]_vars
    PROVE  Gated
<1>1. CASE WatcherVerifies
  <2>1. Gates!Verify
    BY <1>1 DEF WatcherVerifies, stellar, Gates!Verify
  <2> QED BY <2>1 DEF Gated, Gates!Next
<1>2. CASE VaultDefaults
  <2>1. Gates!Close
    BY <1>2 DEF VaultDefaults, Gates!Close
  <2> QED BY <2>1 DEF Gated, Gates!Next
<1>3. ASSUME NEW r \in Requests, RouteStep(r) PROVE Gated
  <2>1. CASE RegisterAttach(r) \/ ReattestAttach(r) \/ RegisterVerify(r) \/ ReattestVerify(r)
    BY <2>1, EvidenceGated DEF RegisterAttach, ReattestAttach, RegisterVerify, ReattestVerify
  <2> QED BY <1>3, <2>1, SettleGated, MoneyGated, OtherGated DEF RouteStep
<1> QED BY <1>1, <1>2, <1>3, DirectGated, OtherGated DEF Next

\* What the bridge lets pages, routes and watchers see of prism-core is the same
\* promise that the ledger keeps to each of its loans.
THEOREM BridgeImplementsLoanGates == Spec => ImplementsLoanGates
<1>1. Init => Gates!Init
  BY DEF Init, Gates!Init
<1>2. TypeOK /\ [Next]_vars => [Gates!Next]_(Gates!vars)
  BY NextGated DEF Gated
<1> QED BY <1>1, <1>2, BridgeTypes, PTL DEF Spec, ImplementsLoanGates, Gates!Spec
===============================================================================
