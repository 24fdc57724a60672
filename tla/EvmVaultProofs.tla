---------------------------- MODULE EvmVaultProofs ----------------------------
(***************************************************************************)
(* The vault is type correct, implements the escrow, and stays solvent.    *)
(*                                                                         *)
(* The refinement needs to know what a waiting call has done so far: the   *)
(* guard lets one handler in at a time, so there is at most one frame, and *)
(* what it has changed since its snapshot is one lock, and the transfer    *)
(* once that has happened.  Solvency is kept by every step of the escrow,  *)
(* so what is committed is covered; what a waiting call has changed since  *)
(* is a lock and a transfer of the same amount.                            *)
(***************************************************************************)
EXTENDS EvmVault, UnitSumsProofs, TLAPS

Frame == [from : Holders, to : Holders, token : Assets,
          amount : Nat \ {0}, moved : BOOLEAN, saved : World]

\* At most one call waits, exactly while the guard is ENTERED.
OneCall ==
    /\ stack = << >> => entered = FALSE
    /\ stack # << >> => entered = TRUE /\ \E f \in Frame : stack = <<f>>

\* The call that waits for frame f has taken loan l's slot.
Locking(f, l) ==
    /\ f.from \in Users /\ f.to = Vault
    /\ f.saved.locks[l].state = "Empty"
    /\ locks = [f.saved.locks EXCEPT ![l] = NewLock(f.from, f.token, f.amount)]

\* It has settled loan l's lock.
Paying(f, l) ==
    /\ f.from = Vault
    /\ f.saved.locks[l].state = "Locked"
    /\ f.token = f.saved.locks[l].token
    /\ f.amount = f.saved.locks[l].amount
    /\ \/ /\ f.to = f.saved.locks[l].borrower
          /\ locks = [f.saved.locks EXCEPT ![l].state = "Released"]
       \/ locks = [f.saved.locks EXCEPT ![l].state = "Liquidated"]

Paid(f) == Transferred(f.saved.purse, f.from, f.to, f.token, f.amount)

\* What frame f has changed since its snapshot.
Progress(f) ==
    /\ f.saved.entered = FALSE
    /\ \E l \in Loans : Locking(f, l) \/ Paying(f, l)
    /\ f.moved => /\ f.amount <= f.saved.purse[f.from][f.token]
                  /\ purse = Paid(f)
    /\ ~f.moved => purse = f.saved.purse

IInv == TypeOK /\ OneCall /\ (stack # << >> => Progress(Top))

-----------------------------------------------------------------------------
(* Types *)

Locks == [Loans -> LockRecord \cup {EmptyLock}]
Purses == [Holders -> [Assets -> Nat]]

\* A slot that is not empty is a lock.
LEMMA LockFields ==
    ASSUME NEW ls \in Locks, NEW l \in Loans, ls[l].state # "Empty"
    PROVE  /\ ls[l] \in LockRecord
           /\ ls[l].borrower \in Users
           /\ ls[l].token \in Assets
           /\ ls[l].amount \in Nat \ {0}
<1>1. ls[l] \in LockRecord \cup {EmptyLock}
  BY DEF Locks
<1>2. ls[l] # EmptyLock
  BY DEF EmptyLock
<1> QED
  BY <1>1, <1>2 DEF LockRecord

\* A lock taken into a slot, and a lock settled, are locks.
LEMMA NewLockType ==
    ASSUME NEW ls \in Locks, NEW l \in Loans, NEW user \in Users,
           NEW token \in Assets, NEW amount \in Nat, amount > 0
    PROVE  [ls EXCEPT ![l] = NewLock(user, token, amount)] \in Locks
<1>1. NewLock(user, token, amount) \in LockRecord
  BY DEF NewLock, LockRecord
<1> QED
  BY <1>1 DEF Locks

LEMMA SettledType ==
    ASSUME NEW ls \in Locks, NEW l \in Loans, ls[l].state = "Locked",
           NEW state \in {"Released", "Liquidated"}
    PROVE  [ls EXCEPT ![l].state = state] \in Locks
<1>1. ls[l] \in LockRecord
  BY LockFields
<1>2. [ls[l] EXCEPT !.state = state] \in LockRecord
  BY <1>1 DEF LockRecord
<1> QED
  BY <1>2 DEF Locks

\* A transfer within what the payer has leaves balances.
LEMMA MovedType ==
    ASSUME NEW p \in Purses, NEW from \in Holders, NEW to \in Holders,
           NEW a \in Assets, NEW n \in Nat, n <= p[from][a]
    PROVE  Transferred(p, from, to, a, n) \in Purses
<1> DEFINE q == [p EXCEPT ![from][a] = @ - n]
<1>1. p[from][a] - n \in Nat
  BY DEF Purses
<1>2. [p[from] EXCEPT ![a] = @ - n] \in [Assets -> Nat]
  BY <1>1 DEF Purses
<1>3. q \in Purses
  BY <1>2 DEF Purses
<1>4. [q EXCEPT ![to][a] = @ + n] \in Purses
  <2> HIDE DEF q
  <2>1. q[to][a] + n \in Nat
    BY <1>3 DEF Purses
  <2>2. [q[to] EXCEPT ![a] = @ + n] \in [Assets -> Nat]
    BY <1>3, <2>1 DEF Purses
  <2> QED
    BY <1>3, <2>2 DEF Purses
<1> QED
  BY <1>4 DEF Transferred

\* The snapshot and what it holds.
LEMMA SnapshotType ==
    TypeOK <=> /\ locks \in Locks
               /\ accepted \in SUBSET Tokens
               /\ paused \in BOOLEAN
               /\ entered \in BOOLEAN
               /\ purse \in Purses
               /\ stack \in Seq(Frame)
<1>1. Snapshot \in World <=> /\ locks \in Locks
                             /\ accepted \in SUBSET Tokens
                             /\ paused \in BOOLEAN
                             /\ entered \in BOOLEAN
                             /\ purse \in Purses
  BY Zenon DEF Snapshot, World, Locks, Purses
<1> QED
  BY <1>1, Zenon DEF TypeOK, Frame

\* The same of the next state.
LEMMA NextType ==
    TypeOK' <=> /\ locks' \in Locks
                /\ accepted' \in SUBSET Tokens
                /\ paused' \in BOOLEAN
                /\ entered' \in BOOLEAN
                /\ purse' \in Purses
                /\ stack' \in Seq(Frame)
<1>1. (Snapshot \in World)' <=> /\ locks' \in Locks
                                /\ accepted' \in SUBSET Tokens
                                /\ paused' \in BOOLEAN
                                /\ entered' \in BOOLEAN
                                /\ purse' \in Purses
  BY Zenon DEF Snapshot, World, Locks, Purses
<1> QED
  BY <1>1, Zenon DEF TypeOK, Frame

\* The types of a frame and of its snapshot.
LEMMA SavedType ==
    ASSUME NEW f \in Frame
    PROVE  /\ f.saved.locks \in Locks
           /\ f.saved.accepted \in SUBSET Tokens
           /\ f.saved.paused \in BOOLEAN
           /\ f.saved.entered \in BOOLEAN
           /\ f.saved.purse \in Purses
           /\ f.amount \in Nat /\ f.amount > 0
           /\ f.from \in Holders /\ f.to \in Holders
           /\ f.token \in Assets /\ f.moved \in BOOLEAN
  BY DEF Frame, World, Locks, Purses

\* A stack of one call.
LEMMA OneFrame ==
    ASSUME NEW f
    PROVE  /\ <<f>> # << >>
           /\ Len(<<f>>) = 1 /\ <<f>>[1] = f
           /\ SubSeq(<<f>>, 1, Len(<<f>>) - 1) = << >>
           /\ Append(<< >>, f) = <<f>>
           /\ \A g : [<<f>> EXCEPT ![Len(<<f>>)] = g] = <<g>>
  OBVIOUS

-----------------------------------------------------------------------------
(* The inductive invariant *)

LEMMA InitInv == Init => IInv
<1> SUFFICES ASSUME Init PROVE IInv
  OBVIOUS
<1>1. locks \in Locks
  BY DEF Init, Locks
<1>2. purse \in Purses
  BY VaultAssumption DEF Init, Purses
<1>3. TypeOK
  <2>1. stack \in Seq(Frame)
    BY DEF Init
  <2>2. accepted \in SUBSET Tokens /\ paused \in BOOLEAN /\ entered \in BOOLEAN
    BY DEF Init
  <2> QED
    BY <1>1, <1>2, <2>1, <2>2, SnapshotType
<1> QED
  BY <1>3 DEF IInv, OneCall, Init

\* A handler may only begin when nothing waits.
LEMMA GuardMeansIdle ==
    ASSUME IInv, NonReentrant
    PROVE  stack = << >>
  BY DEF IInv, OneCall, NonReentrant

\* Otherwise there is one call, and it has made progress.
LEMMA WaitingCall ==
    ASSUME IInv, stack # << >>
    PROVE  /\ entered = TRUE
           /\ \E f \in Frame : stack = <<f>> /\ Top = f /\ Progress(f)
<1>1. PICK f \in Frame : stack = <<f>>
  BY DEF IInv, OneCall
<1>2. Top = f
  BY <1>1 DEF Top
<1> QED
  BY <1>1, <1>2 DEF IInv, OneCall

\* A handler that has opened a frame and not transferred yet.
LEMMA Opened ==
    ASSUME IInv, stack = << >>, NEW f \in Frame, NEW l \in Loans,
           stack' = <<f>>, f.saved = Snapshot, f.moved = FALSE,
           locks' \in Locks, Locking(f, l)' \/ Paying(f, l)', entered' = TRUE,
           UNCHANGED <<accepted, paused, purse>>
    PROVE  IInv'
<1>1. TypeOK'
  <2>1. accepted' \in SUBSET Tokens /\ paused' \in BOOLEAN /\ purse' \in Purses
    BY SnapshotType DEF IInv
  <2>2. stack' \in Seq(Frame)
    OBVIOUS
  <2>3. entered' \in BOOLEAN
    OBVIOUS
  <2> QED
    BY <2>1, <2>2, <2>3, NextType
<1>2. OneCall'
  BY OneFrame DEF OneCall
<1>3. Top' = f
  BY OneFrame DEF Top
<1>4. Progress(f)'
  <2>1. f.saved.entered = FALSE /\ f.saved.purse = purse
    BY DEF IInv, OneCall, Snapshot
  <2> QED
    BY <2>1 DEF Progress
<1> QED
  BY <1>1, <1>2, <1>3, <1>4 DEF IInv

\* No call waits any more.
LEMMA Idle ==
    ASSUME stack' = << >>, entered' = FALSE, locks' \in Locks,
           accepted' \in SUBSET Tokens, paused' \in BOOLEAN, purse' \in Purses
    PROVE  IInv'
<1>1. << >> \in Seq(Frame)
  OBVIOUS
<1>2. entered' \in BOOLEAN
  OBVIOUS
<1>3. TypeOK'
  BY <1>1, <1>2, NextType
<1> QED
  BY <1>3 DEF IInv, OneCall

\* lock puts up the frame of a transfer from the borrower to the vault.
LEMMA LockFrame ==
    ASSUME IInv, NEW l \in Loans, NEW user \in Users, NEW token \in Tokens,
           NEW amount \in Nat, Lock(l, user, token, amount)
    PROVE  /\ stack = << >>
           /\ \E f \in Frame : /\ stack' = <<f>> /\ f.saved = Snapshot
                                /\ f.moved = FALSE /\ Locking(f, l)'
<1>1. stack = << >>
  BY GuardMeansIdle DEF Lock
<1>2. Transfer(user, Vault, token, amount) \in Frame
  <2>1. Snapshot \in World
    BY DEF IInv, TypeOK
  <2>2. user \in Holders /\ Vault \in Holders /\ token \in Assets
    BY DEF Holders, Assets
  <2>3. amount \in Nat \ {0}
    BY DEF Lock
  <2> QED
    BY <2>1, <2>2, <2>3 DEF Transfer, Frame
<1>3. PICK f \in Frame : f = Transfer(user, Vault, token, amount)
  BY <1>2
<1>4. /\ f.from = user /\ f.to = Vault /\ f.token = token /\ f.amount = amount
      /\ f.moved = FALSE /\ f.saved = Snapshot
  BY <1>3 DEF Transfer
<1>5. f.saved.locks = locks
  BY <1>4 DEF Snapshot
<1>6. stack' = <<f>>
  BY <1>1, <1>3, OneFrame DEF Lock
<1>7. Locking(f, l)'
  BY <1>4, <1>5 DEF Lock, Locking
<1> QED
  BY <1>1, <1>4, <1>6, <1>7

\* release and liquidate put up that of the lock they have settled.
LEMMA PayFrame ==
    ASSUME IInv, NEW l \in Loans, NEW to \in Holders,
           NEW state \in {"Released", "Liquidated"}, HandOver(l, to, state),
           state = "Released" => to = locks[l].borrower
    PROVE  /\ stack = << >>
           /\ \E f \in Frame : /\ stack' = <<f>> /\ f.saved = Snapshot
                                /\ f.moved = FALSE /\ Paying(f, l)'
<1>1. stack = << >>
  BY GuardMeansIdle DEF HandOver
<1>2. locks \in Locks /\ locks[l].state = "Locked"
  BY SnapshotType DEF IInv, HandOver, Held
<1>3. locks[l].token \in Assets /\ locks[l].amount \in Nat \ {0}
  BY <1>2, LockFields
<1>4. Transfer(Vault, to, locks[l].token, locks[l].amount) \in Frame
  <2>1. Snapshot \in World
    BY DEF IInv, TypeOK
  <2>2. Vault \in Holders
    BY DEF Holders
  <2> QED
    BY <1>3, <2>1, <2>2 DEF Transfer, Frame
<1>5. PICK f \in Frame : f = Transfer(Vault, to, locks[l].token, locks[l].amount)
  BY <1>4
<1>6. /\ f.from = Vault /\ f.to = to /\ f.token = locks[l].token
      /\ f.amount = locks[l].amount /\ f.moved = FALSE /\ f.saved = Snapshot
  BY <1>5 DEF Transfer
<1>7. f.saved.locks = locks
  BY <1>6 DEF Snapshot
<1>8. stack' = <<f>>
  BY <1>1, <1>5, OneFrame DEF HandOver
<1>9. Paying(f, l)'
  BY <1>2, <1>6, <1>7 DEF HandOver, Settled, Paying
<1> QED
  BY <1>1, <1>6, <1>8, <1>9

LEMMA LockInv ==
    ASSUME IInv, NEW l \in Loans, NEW user \in Users, NEW token \in Tokens,
           NEW amount \in Nat, Lock(l, user, token, amount)
    PROVE  IInv'
<1>1. PICK f \in Frame : /\ stack' = <<f>> /\ f.saved = Snapshot
                         /\ f.moved = FALSE /\ Locking(f, l)'
  BY LockFrame
<1>2. stack = << >>
  BY LockFrame
<1>3. locks' \in Locks
  <2>1. locks \in Locks
    BY SnapshotType DEF IInv
  <2>2. token \in Assets
    BY DEF Assets
  <2> QED
    BY <2>1, <2>2, NewLockType DEF Lock
<1>4. entered' = TRUE /\ UNCHANGED <<accepted, paused, purse>>
  BY DEF Lock
<1> QED
  BY <1>1, <1>2, <1>3, <1>4, Opened

LEMMA HandOverInv ==
    ASSUME IInv, NEW l \in Loans, NEW to \in Holders,
           NEW state \in {"Released", "Liquidated"}, HandOver(l, to, state),
           state = "Released" => to = locks[l].borrower
    PROVE  IInv'
<1>1. PICK f \in Frame : /\ stack' = <<f>> /\ f.saved = Snapshot
                         /\ f.moved = FALSE /\ Paying(f, l)'
  BY PayFrame
<1>2. stack = << >>
  BY PayFrame
<1>3. locks' \in Locks
  BY SnapshotType, SettledType DEF IInv, HandOver, Held, Settled
<1>4. entered' = TRUE /\ UNCHANGED <<accepted, paused, purse>>
  BY DEF HandOver
<1> QED
  BY <1>1, <1>2, <1>3, <1>4, Opened

\* release pays a holder, because a lock has a borrower.
LEMMA ReleaseIsHandOver ==
    ASSUME IInv, NEW l \in Loans, Release(l)
    PROVE  /\ locks[l].borrower \in Users /\ locks[l].borrower \in Holders
           /\ HandOver(l, locks[l].borrower, "Released")
<1>1. locks \in Locks /\ locks[l].state = "Locked"
  BY SnapshotType DEF IInv, Release, Held
<1>2. locks[l].borrower \in Users
  BY <1>1, LockFields
<1> QED
  BY <1>2 DEF Release, Holders

LEMMA LockETHInv ==
    ASSUME IInv, NEW l \in Loans, NEW user \in Users, NEW amount \in Nat,
           LockETH(l, user, amount)
    PROVE  IInv'
<1>1. stack = << >>
  BY GuardMeansIdle DEF LockETH
<1>2. /\ locks \in Locks /\ purse \in Purses
      /\ accepted \in SUBSET Tokens /\ paused \in BOOLEAN
  BY SnapshotType DEF IInv
<1>3. Eth \in Assets /\ user \in Holders /\ Vault \in Holders
  BY DEF Assets, Holders
<1>4. locks' \in Locks
  BY <1>2, <1>3, NewLockType DEF LockETH
<1>5. purse' \in Purses
  BY <1>2, <1>3, MovedType DEF LockETH
<1>6. stack' = << >> /\ entered' = FALSE
  BY <1>1 DEF LockETH, NonReentrant
<1>7. accepted' \in SUBSET Tokens /\ paused' \in BOOLEAN
  BY <1>2 DEF LockETH
<1> QED
  BY <1>4, <1>5, <1>6, <1>7, Idle

\* What the transfer of a waiting call does to the stack.
LEMMA MoveFrame ==
    ASSUME IInv, Move
    PROVE  \E f \in Frame, g \in Frame :
              /\ stack = <<f>> /\ Top = f /\ Progress(f) /\ f.moved = FALSE
              /\ g = [f EXCEPT !.moved = TRUE]
              /\ stack' = <<g>>
<1>1. PICK f \in Frame : stack = <<f>> /\ Top = f /\ Progress(f)
  BY WaitingCall DEF Move
<1>2. f.moved = FALSE
  BY <1>1 DEF Move, Frame
<1>3. PICK g : g = [f EXCEPT !.moved = TRUE]
  OBVIOUS
<1>4. g \in Frame
  BY <1>3 DEF Frame
<1>5. stack' = <<g>>
  BY <1>1, <1>3, OneFrame, Zenon DEF Move
<1> QED
  BY <1>1, <1>2, <1>3, <1>4, <1>5

LEMMA MoveInv ==
    ASSUME IInv, Move
    PROVE  IInv'
<1>1. PICK f \in Frame, g \in Frame :
         /\ stack = <<f>> /\ Top = f /\ Progress(f) /\ f.moved = FALSE
         /\ g = [f EXCEPT !.moved = TRUE]
         /\ stack' = <<g>>
  BY MoveFrame
<1>2. /\ g.from = f.from /\ g.to = f.to /\ g.token = f.token
      /\ g.amount = f.amount /\ g.saved = f.saved /\ g.moved = TRUE
  BY <1>1 DEF Frame
<1>3. f.amount <= f.saved.purse[f.from][f.token] /\ purse' = Paid(f)
  BY <1>1 DEF Progress, Move, Paid
<1>4. purse' \in Purses
  BY <1>3, SavedType, MovedType DEF Paid
<1>5. /\ locks' = locks /\ accepted' = accepted
      /\ paused' = paused /\ entered' = TRUE
  BY <1>1, WaitingCall DEF Move
<1>6. /\ locks \in Locks /\ accepted \in SUBSET Tokens
      /\ paused \in BOOLEAN /\ entered' \in BOOLEAN
  BY <1>5, SnapshotType DEF IInv
<1>7. <<g>> \in Seq(Frame)
  OBVIOUS
<1>8. TypeOK'
  BY <1>1, <1>4, <1>5, <1>6, <1>7, NextType
<1>9. OneCall'
  BY <1>1, <1>5, OneFrame DEF OneCall
<1>10. Top' = g
  BY <1>1, OneFrame DEF Top
<1>11. Progress(g)'
  <2>1. purse' = Paid(g)
    BY <1>2, <1>3 DEF Paid
  <2>2. \E l \in Loans : Locking(g, l)' \/ Paying(g, l)'
    BY <1>1, <1>2, <1>5 DEF Progress, Locking, Paying
  <2> QED
    BY <1>1, <1>2, <1>3, <2>1, <2>2 DEF Progress
<1> QED
  BY <1>8, <1>9, <1>10, <1>11 DEF IInv

LEMMA ReturnInv ==
    ASSUME IInv, Return
    PROVE  IInv'
<1>1. stack' = << >>
  BY WaitingCall, OneFrame DEF Return
<1>2. /\ locks \in Locks /\ accepted \in SUBSET Tokens
      /\ paused \in BOOLEAN /\ purse \in Purses
  BY SnapshotType DEF IInv
<1> QED
  BY <1>1, <1>2, Idle DEF Return

\* A revert leaves what a snapshot holds.
LEMMA RevertInv ==
    ASSUME IInv, Revert
    PROVE  IInv'
<1>1. PICK f \in Frame : stack = <<f>> /\ Top = f /\ Progress(f)
  BY WaitingCall DEF Revert
<1>2. stack' = << >>
  BY <1>1, OneFrame DEF Revert
<1>3. entered' = FALSE
  BY <1>1 DEF Revert, Progress
<1>4. /\ locks' \in Locks /\ accepted' \in SUBSET Tokens
      /\ paused' \in BOOLEAN /\ purse' \in Purses
  BY <1>1, SavedType DEF Revert
<1> QED
  BY <1>2, <1>3, <1>4, Idle

LEMMA GiftInv ==
    ASSUME IInv, NEW user \in Users, NEW token \in Tokens, Gift(user, token)
    PROVE  IInv'
<1>1. /\ locks \in Locks /\ accepted \in SUBSET Tokens
      /\ paused \in BOOLEAN /\ purse \in Purses
  BY SnapshotType DEF IInv
<1>2. stack' = << >> /\ entered' = FALSE
  BY DEF Gift, IInv, OneCall
<1>3. purse' \in Purses
  <2>1. PICK n \in 1 .. purse[user][token] :
            purse' = Transferred(purse, user, Vault, token, n)
    BY DEF Gift
  <2>2. user \in Holders /\ Vault \in Holders /\ token \in Assets
    BY DEF Holders, Assets
  <2>3. purse[user][token] \in Nat
    BY <1>1, <2>2 DEF Purses
  <2> QED
    BY <1>1, <2>1, <2>2, <2>3, MovedType
<1> QED
  BY <1>1, <1>2, <1>3, Idle DEF Gift

\* The administration that moves nothing.
LEMMA SettingsInv ==
    ASSUME IInv, UNCHANGED <<locks, entered, purse, stack>>,
           accepted' \in SUBSET Tokens, paused' \in BOOLEAN
    PROVE  IInv'
<1>1. /\ locks' \in Locks /\ entered' \in BOOLEAN
      /\ purse' \in Purses /\ stack' \in Seq(Frame)
  BY SnapshotType DEF IInv
<1>2. TypeOK'
  BY <1>1, NextType
<1>3. OneCall' /\ Top' = Top
  BY DEF IInv, OneCall, Top
<1>4. stack' # << >> => Progress(Top)'
  BY <1>3 DEF IInv, Progress, Locking, Paying
<1> QED
  BY <1>2, <1>3, <1>4 DEF IInv

LEMMA BorrowerInv == IInv /\ BorrowerStep => IInv'
<1> SUFFICES ASSUME IInv, BorrowerStep PROVE IInv'
  OBVIOUS
<1>1. PICK l \in Loans, user \in Users, amount \in 0 .. Funds :
         \/ \E token \in Tokens : Lock(l, user, token, amount)
         \/ LockETH(l, user, amount)
  BY DEF BorrowerStep
<1>2. amount \in Nat
  BY VaultAssumption
<1> QED
  BY <1>1, <1>2, LockInv, LockETHInv

LEMMA AdminInv == IInv /\ AdminStep => IInv'
<1> SUFFICES ASSUME IInv, AdminStep PROVE IInv'
  OBVIOUS
<1>1. ASSUME NEW l \in Loans, Release(l) PROVE IInv'
  BY <1>1, ReleaseIsHandOver, HandOverInv
<1>2. ASSUME NEW l \in Loans, NEW to \in Holders, Liquidate(l, to) PROVE IInv'
  BY <1>2, HandOverInv DEF Liquidate
<1>3. accepted \in SUBSET Tokens /\ paused \in BOOLEAN
  BY SnapshotType DEF IInv
<1>4. ASSUME NEW token \in Tokens, AddToken(token) \/ RemoveToken(token)
      PROVE  IInv'
  BY <1>3, <1>4, SettingsInv DEF AddToken, RemoveToken
<1>5. ASSUME Pause \/ Unpause PROVE IInv'
  BY <1>3, <1>5, SettingsInv DEF Pause, Unpause
<1> QED
  BY <1>1, <1>2, <1>4, <1>5 DEF AdminStep

LEMMA NextInv == IInv /\ [Next]_vars => IInv'
<1> SUFFICES ASSUME IInv, [Next]_vars PROVE IInv'
  OBVIOUS
<1>1. CASE UNCHANGED vars
  <2>1. accepted' \in SUBSET Tokens /\ paused' \in BOOLEAN
    BY <1>1, SnapshotType DEF IInv, vars, world
  <2> QED
    BY <1>1, <2>1, SettingsInv DEF vars, world
<1>2. CASE Next
  BY <1>2, BorrowerInv, AdminInv, MoveInv, ReturnInv, RevertInv, GiftInv DEF Next
<1> QED
  BY <1>1, <1>2

\* At most one call waits, and it has changed one lock and, once it has
\* transferred, that lock's amount of its asset, in whatever order calls,
\* transfers, returns and reverts come.
THEOREM VaultInvariant == Spec => []IInv
<1> QED
  BY InitInv, NextInv, PTL DEF Spec

\* Locks, balances and frames keep their types: no transfer overdraws.
THEOREM VaultTypes == Spec => []TypeOK
<1>1. IInv => TypeOK
  BY DEF IInv
<1> QED
  BY <1>1, VaultInvariant, PTL

-----------------------------------------------------------------------------
(* The refinement *)

\* What is committed is the state between calls, and the snapshot during one.
LEMMA CommittedIdle ==
    ASSUME stack = << >>
    PROVE  Committed.locks = locks /\ Committed.purse = purse
  BY DEF Committed, Snapshot

LEMMA CommittedWaiting ==
    ASSUME NEW f, stack = <<f>>
    PROVE  Committed.locks = f.saved.locks /\ Committed.purse = f.saved.purse
  BY OneFrame DEF Committed

\* The same of the next state.
LEMMA CommittedNext ==
    /\ stack' = << >> => Committed.locks' = locks' /\ Committed.purse' = purse'
    /\ \A f : stack' = <<f>> => /\ Committed.locks' = f.saved.locks
                                /\ Committed.purse' = f.saved.purse
  BY OneFrame DEF Committed, Snapshot

\* A slot whose state is Empty is one that was never used.
LEMMA EmptySlot ==
    ASSUME NEW ls \in Locks, NEW l \in Loans, ls[l].state = "Empty"
    PROVE  ls[l] = EmptyLock
  BY DEF Locks, LockRecord

LEMMA InitEscrow == Init => AbstractEscrow!Init
<1> SUFFICES ASSUME Init PROVE AbstractEscrow!Init
  OBVIOUS
<1>1. Committed.locks = locks /\ Committed.purse = purse
  BY CommittedIdle DEF Init
<1>2. purse \in Purses /\ \A a \in Assets : purse[Vault][a] = 0
  BY VaultAssumption DEF Init, Purses, Holders
<1> QED
  BY <1>1, <1>2 DEF Init, AbstractEscrow!Init, AbstractEscrow!EmptyLock, EmptyLock,
                    Purses, Holders

\* A step that leaves alone what is committed is none of the escrow.
Stutter == UNCHANGED <<Committed.locks, Committed.purse>>

EscrowStep == AbstractEscrow!Next \/ Stutter

\* lockETH puts up a lock by itself.
LEMMA LockETHEscrow ==
    ASSUME IInv, NEW l \in Loans, NEW user \in Users, NEW amount \in Nat,
           LockETH(l, user, amount)
    PROVE  EscrowStep
<1>1. stack = << >> /\ stack' = << >>
  BY GuardMeansIdle DEF LockETH
<1>2. /\ Committed.locks = locks /\ Committed.purse = purse
      /\ Committed.locks' = locks' /\ Committed.purse' = purse'
  BY <1>1, CommittedIdle, CommittedNext
<1>3. locks[l] = EmptyLock
  BY EmptySlot, SnapshotType DEF IInv, LockETH
<1>4. amount \in 1 .. purse[user][Eth]
  <2>1. purse[user][Eth] \in Nat
    BY SnapshotType DEF IInv, Purses, Holders, Assets
  <2> QED
    BY <2>1 DEF LockETH
<1>5. AbstractEscrow!PutUp(l, user, Eth)
  BY <1>2, <1>3, <1>4
     DEF LockETH, AbstractEscrow!PutUp, AbstractEscrow!EmptyLock, EmptyLock, NewLock,
         Transferred, AbstractEscrow!Transferred
<1> QED
  BY <1>5 DEF EscrowStep, AbstractEscrow!Next, Assets

\* A handler that opens a frame changes nothing that is committed.
LEMMA OpenedEscrow ==
    ASSUME stack = << >>, NEW f, stack' = <<f>>, f.saved = Snapshot
    PROVE  EscrowStep
<1>1. f.saved.locks = locks /\ f.saved.purse = purse
  BY DEF Snapshot
<1> QED
  BY <1>1, CommittedIdle, CommittedNext DEF EscrowStep, Stutter

LEMMA MoveEscrow ==
    ASSUME IInv, Move
    PROVE  EscrowStep
<1>1. PICK f \in Frame, g \in Frame :
         /\ stack = <<f>> /\ g = [f EXCEPT !.moved = TRUE] /\ stack' = <<g>>
  BY MoveFrame
<1>2. g.saved = f.saved
  BY <1>1 DEF Frame
<1> QED
  BY <1>1, <1>2, CommittedWaiting, CommittedNext DEF EscrowStep, Stutter

LEMMA RevertEscrow ==
    ASSUME IInv, Revert
    PROVE  EscrowStep
<1>1. PICK f \in Frame : stack = <<f>> /\ Top = f
  BY WaitingCall DEF Revert
<1>2. stack' = << >>
  BY <1>1, OneFrame DEF Revert
<1>3. locks' = f.saved.locks /\ purse' = f.saved.purse
  BY <1>1 DEF Revert
<1> QED
  BY <1>1, <1>2, <1>3, CommittedWaiting, CommittedNext DEF EscrowStep, Stutter

\* A call that returns commits the lock and the transfer together.
LEMMA ReturnEscrow ==
    ASSUME IInv, Return
    PROVE  EscrowStep
<1>1. PICK f \in Frame : stack = <<f>> /\ Top = f /\ Progress(f)
  BY WaitingCall DEF Return
<1>2. stack' = << >>
  BY <1>1, OneFrame DEF Return
<1> DEFINE ls == f.saved.locks
           p == f.saved.purse
<1>3. /\ Committed.locks = ls /\ Committed.purse = p
      /\ Committed.locks' = locks /\ Committed.purse' = purse
  BY <1>1, <1>2, CommittedWaiting, CommittedNext DEF Return
<1>4. f.amount <= p[f.from][f.token] /\ purse = Paid(f)
  BY <1>1 DEF Progress, Return
<1>5. PICK l \in Loans : Locking(f, l) \/ Paying(f, l)
  BY <1>1 DEF Progress
<1>6. /\ ls \in Locks /\ p[f.from][f.token] \in Nat
      /\ f.amount \in Nat /\ f.amount > 0
      /\ f.to \in Holders /\ f.token \in Assets
  BY SavedType DEF Purses
<1>7. CASE Locking(f, l)
  <2>1. ls[l] = EmptyLock
    BY <1>6, <1>7, EmptySlot DEF Locking
  <2>2. f.amount \in 1 .. p[f.from][f.token]
    BY <1>4, <1>6
  <2>3. /\ f.from \in Users /\ f.to = Vault
        /\ locks = [ls EXCEPT ![l] = NewLock(f.from, f.token, f.amount)]
    BY <1>7 DEF Locking
  <2>4. AbstractEscrow!PutUp(l, f.from, f.token)
    BY <1>3, <1>4, <2>1, <2>2, <2>3
       DEF AbstractEscrow!PutUp, AbstractEscrow!EmptyLock, EmptyLock, NewLock,
           Paid, Transferred, AbstractEscrow!Transferred
  <2> QED
    BY <1>6, <2>3, <2>4 DEF EscrowStep, AbstractEscrow!Next
<1>8. CASE Paying(f, l)
  <2>1. /\ f.from = Vault /\ ls[l].state = "Locked"
        /\ f.token = ls[l].token /\ f.amount = ls[l].amount
    BY <1>8 DEF Paying
  <2>2. ASSUME NEW state, locks = [ls EXCEPT ![l].state = state]
        PROVE  AbstractEscrow!HandOver(l, f.to, state)
    BY <1>3, <1>4, <2>1, <2>2
       DEF AbstractEscrow!HandOver, Paid, Transferred, AbstractEscrow!Transferred
  <2>3. CASE /\ f.to = ls[l].borrower
             /\ locks = [ls EXCEPT ![l].state = "Released"]
    <3>1. AbstractEscrow!GiveBack(l)
      BY <1>3, <2>2, <2>3 DEF AbstractEscrow!GiveBack
    <3> QED
      BY <1>3, <2>1, <3>1 DEF EscrowStep, AbstractEscrow!Next
  <2>4. CASE locks = [ls EXCEPT ![l].state = "Liquidated"]
    <3>1. AbstractEscrow!Seize(l, f.to)
      BY <2>2, <2>4 DEF AbstractEscrow!Seize
    <3> QED
      BY <1>6, <3>1 DEF EscrowStep, AbstractEscrow!Next, Holders
  <2> QED
    BY <1>8, <2>3, <2>4 DEF Paying
<1> QED
  BY <1>5, <1>7, <1>8

LEMMA GiftEscrow ==
    ASSUME IInv, NEW user \in Users, NEW token \in Tokens, Gift(user, token)
    PROVE  EscrowStep
<1>1. stack = << >> /\ stack' = << >>
  BY DEF Gift
<1>2. /\ Committed.locks = locks /\ Committed.purse = purse
      /\ Committed.locks' = locks' /\ Committed.purse' = purse'
  BY <1>1, CommittedIdle, CommittedNext
<1>3. AbstractEscrow!Gift(user, token)
  BY <1>2 DEF Gift, AbstractEscrow!Gift, Transferred, AbstractEscrow!Transferred
<1> QED
  BY <1>3 DEF EscrowStep, AbstractEscrow!Next, Assets

LEMMA SettingsEscrow ==
    ASSUME IInv, UNCHANGED <<locks, purse, stack>>
    PROVE  EscrowStep
<1>1. CASE stack = << >>
  BY <1>1, CommittedIdle, CommittedNext DEF EscrowStep, Stutter
<1>2. CASE stack # << >>
  <2>1. PICK f \in Frame : stack = <<f>>
    BY <1>2, WaitingCall
  <2> QED
    BY <2>1, CommittedWaiting, CommittedNext DEF EscrowStep, Stutter
<1> QED
  BY <1>1, <1>2

LEMMA HandOverEscrow ==
    ASSUME IInv, NEW l \in Loans, NEW to \in Holders,
           NEW state \in {"Released", "Liquidated"}, HandOver(l, to, state),
           state = "Released" => to = locks[l].borrower
    PROVE  EscrowStep
  BY PayFrame, OpenedEscrow

LEMMA NextEscrow == IInv /\ [Next]_vars => EscrowStep
<1> SUFFICES ASSUME IInv, [Next]_vars PROVE EscrowStep
  OBVIOUS
<1>1. CASE UNCHANGED vars
  BY <1>1, SettingsEscrow DEF vars, world
<1>2. CASE BorrowerStep
  <2>1. PICK l \in Loans, user \in Users, amount \in 0 .. Funds :
           \/ \E token \in Tokens : Lock(l, user, token, amount)
           \/ LockETH(l, user, amount)
    BY <1>2 DEF BorrowerStep
  <2>2. amount \in Nat
    BY VaultAssumption
  <2>3. ASSUME NEW token \in Tokens, Lock(l, user, token, amount)
        PROVE  EscrowStep
    BY <2>2, <2>3, LockFrame, OpenedEscrow
  <2> QED
    BY <2>1, <2>2, <2>3, LockETHEscrow
<1>3. CASE AdminStep
  <2>1. ASSUME NEW l \in Loans, Release(l) PROVE EscrowStep
    BY <2>1, ReleaseIsHandOver, HandOverEscrow
  <2>2. ASSUME NEW l \in Loans, NEW to \in Holders, Liquidate(l, to)
        PROVE  EscrowStep
    BY <2>2, HandOverEscrow DEF Liquidate
  <2>3. ASSUME NEW token \in Tokens, AddToken(token) \/ RemoveToken(token)
        PROVE  EscrowStep
    BY <2>3, SettingsEscrow DEF AddToken, RemoveToken
  <2>4. ASSUME Pause \/ Unpause PROVE EscrowStep
    BY <2>4, SettingsEscrow DEF Pause, Unpause
  <2> QED
    BY <1>3, <2>1, <2>2, <2>3, <2>4 DEF AdminStep
<1>4. CASE Move \/ Return \/ Revert
  BY <1>4, MoveEscrow, ReturnEscrow, RevertEscrow
<1>5. CASE \E user \in Users, token \in Tokens : Gift(user, token)
  BY <1>5, GiftEscrow
<1> QED
  BY <1>1, <1>2, <1>3, <1>4, <1>5 DEF Next

\* However handlers, callbacks, transfers and reverts interleave, the vault
\* behaves as the escrow, a whole transaction being one step of it.
THEOREM VaultImplementsEscrow == Spec => ImplementsEscrow
<1>1. EscrowStep <=> [AbstractEscrow!Next]_<<Committed.locks, Committed.purse>>
  BY DEF EscrowStep, Stutter
<1> QED
  BY <1>1, InitEscrow, NextEscrow, VaultInvariant, PTL
     DEF Spec, ImplementsEscrow, AbstractEscrow!Spec

-----------------------------------------------------------------------------
(* Solvency *)

OwedIn(ls, l, a) == IF ls[l].state = "Locked" /\ ls[l].token = a THEN ls[l].amount ELSE 0

\* What locks ls oblige the vault to, of asset a.
Debt(ls, a) == Total([l \in Loans |-> OwedIn(ls, l, a)])

\* Balances p cover the locks ls.
Backed(ls, p) == \A a \in Assets : p[Vault][a] >= Debt(ls, a)

LEMMA OwedType ==
    ASSUME NEW ls \in Locks, NEW l \in Loans, NEW a \in Assets
    PROVE  OwedIn(ls, l, a) \in Nat
  BY LockFields DEF OwedIn

LEMMA DebtType ==
    ASSUME NEW ls \in Locks, NEW a \in Assets
    PROVE  Debt(ls, a) \in Nat
<1>1. [l \in Loans |-> OwedIn(ls, l, a)] \in [Loans -> Nat]
  BY OwedType
<1> QED
  BY <1>1, TotalType, VaultAssumption DEF Debt

\* Only the slot that changes changes the debt.
LEMMA DebtUpdate ==
    ASSUME NEW ls \in Locks, NEW new \in Locks, NEW l \in Loans,
           \A k \in Loans \ {l} : new[k] = ls[k], NEW a \in Assets
    PROVE  Debt(new, a) + OwedIn(ls, l, a) = Debt(ls, a) + OwedIn(new, l, a)
<1>1. PICK f, g : /\ f = [k \in Loans |-> OwedIn(ls, k, a)]
                  /\ g = [k \in Loans |-> OwedIn(new, k, a)]
  OBVIOUS
<1>2. f \in [Loans -> Nat] /\ g \in [Loans -> Nat]
  BY <1>1, OwedType
<1>3. \A k \in Loans \ {l} : g[k] = f[k]
  BY <1>1 DEF OwedIn
<1>4. Total(g) + f[l] = Total(f) + g[l]
  BY <1>2, <1>3, TotalUpdate, VaultAssumption
<1> QED
  BY <1>1, <1>4 DEF Debt

\* A new lock adds its amount to the debt, and a settled one takes it off.
LEMMA DebtLocked ==
    ASSUME NEW ls \in Locks, NEW l \in Loans, ls[l] = EmptyLock, NEW user \in Users,
           NEW b \in Assets, NEW n \in Nat, n > 0, NEW a \in Assets
    PROVE  Debt([ls EXCEPT ![l] = NewLock(user, b, n)], a)
              = Debt(ls, a) + (IF a = b THEN n ELSE 0)
<1>1. PICK new \in Locks : new = [ls EXCEPT ![l] = NewLock(user, b, n)]
  BY NewLockType
<1>2. OwedIn(ls, l, a) = 0
  BY DEF OwedIn, EmptyLock
<1>3. new[l] = NewLock(user, b, n)
  BY <1>1 DEF Locks
<1>4. OwedIn(new, l, a) = IF a = b THEN n ELSE 0
  BY <1>3 DEF OwedIn, NewLock
<1>5. Debt(new, a) + OwedIn(ls, l, a) = Debt(ls, a) + OwedIn(new, l, a)
  <2>1. \A k \in Loans \ {l} : new[k] = ls[k]
    BY <1>1 DEF Locks
  <2> QED
    BY <2>1, DebtUpdate
<1>6. Debt(ls, a) \in Nat /\ Debt(new, a) \in Nat
  BY DebtType
<1> QED
  BY <1>1, <1>2, <1>4, <1>5, <1>6

LEMMA DebtSettled ==
    ASSUME NEW ls \in Locks, NEW new \in Locks, NEW l \in Loans,
           ls[l].state = "Locked", new[l].state # "Locked",
           \A k \in Loans \ {l} : new[k] = ls[k], NEW a \in Assets
    PROVE  Debt(new, a) + (IF a = ls[l].token THEN ls[l].amount ELSE 0) = Debt(ls, a)
<1>1. OwedIn(new, l, a) = 0
  BY DEF OwedIn
<1>2. OwedIn(ls, l, a) = IF a = ls[l].token THEN ls[l].amount ELSE 0
  BY DEF OwedIn
<1>3. Debt(new, a) + OwedIn(ls, l, a) = Debt(ls, a) + OwedIn(new, l, a)
  BY DebtUpdate
<1>4. Debt(ls, a) \in Nat /\ Debt(new, a) \in Nat
  BY DebtType
<1> QED
  BY <1>1, <1>2, <1>3, <1>4

\* What a transfer does to the vault's own balances.
LEMMA VaultPaid ==
    ASSUME NEW p \in Purses, NEW user \in Users, NEW b \in Assets, NEW n \in Nat,
           NEW a \in Assets
    PROVE  Transferred(p, user, Vault, b, n)[Vault][a]
              = p[Vault][a] + (IF a = b THEN n ELSE 0)
  BY VaultAssumption DEF Transferred, Purses, Holders

LEMMA VaultPays ==
    ASSUME NEW p \in Purses, NEW to \in Holders, NEW b \in Assets, NEW n \in Nat,
           n <= p[Vault][b], NEW a \in Assets
    PROVE  Transferred(p, Vault, to, b, n)[Vault][a] + (IF a = b THEN n ELSE 0)
              >= p[Vault][a]
<1>1. Vault \in Holders /\ p[Vault] \in [Assets -> Nat] /\ p \in [Holders -> [Assets -> Nat]]
  BY DEF Holders, Purses
<1> DEFINE q == [p EXCEPT ![Vault][b] = @ - n]
<1>2. /\ q \in Purses /\ q[Vault][a] = p[Vault][a] - (IF a = b THEN n ELSE 0)
  BY <1>1 DEF Purses
<1> HIDE DEF q
<1>3. [q EXCEPT ![to][b] = @ + n][Vault][a] >= q[Vault][a]
  BY <1>1, <1>2 DEF Purses
<1> QED
  BY <1>1, <1>2, <1>3 DEF Transferred, q

\* A lock put up, and a lock paid out, leave the rest covered.
LEMMA LockBacked ==
    ASSUME NEW ls \in Locks, NEW p \in Purses, Backed(ls, p),
           NEW l \in Loans, ls[l] = EmptyLock, NEW user \in Users,
           NEW b \in Assets, NEW n \in Nat, n > 0
    PROVE  Backed([ls EXCEPT ![l] = NewLock(user, b, n)],
                  Transferred(p, user, Vault, b, n))
<1> SUFFICES ASSUME NEW a \in Assets
             PROVE  Transferred(p, user, Vault, b, n)[Vault][a]
                       >= Debt([ls EXCEPT ![l] = NewLock(user, b, n)], a)
  BY DEF Backed
<1>1. p[Vault][a] \in Nat /\ Debt(ls, a) \in Nat
  BY DebtType DEF Purses, Holders
<1>2. p[Vault][a] >= Debt(ls, a)
  BY DEF Backed
<1>3. Debt([ls EXCEPT ![l] = NewLock(user, b, n)], a)
         = Debt(ls, a) + (IF a = b THEN n ELSE 0)
  BY DebtLocked
<1>4. Transferred(p, user, Vault, b, n)[Vault][a]
         = p[Vault][a] + (IF a = b THEN n ELSE 0)
  BY VaultPaid
<1> QED
  BY <1>1, <1>2, <1>3, <1>4

LEMMA PayBacked ==
    ASSUME NEW ls \in Locks, NEW p \in Purses, Backed(ls, p),
           NEW l \in Loans, ls[l].state = "Locked", NEW to \in Holders,
           NEW state \in {"Released", "Liquidated"},
           ls[l].amount <= p[Vault][ls[l].token]
    PROVE  Backed([ls EXCEPT ![l].state = state],
                  Transferred(p, Vault, to, ls[l].token, ls[l].amount))
<1> SUFFICES ASSUME NEW a \in Assets
             PROVE  Transferred(p, Vault, to, ls[l].token, ls[l].amount)[Vault][a]
                       >= Debt([ls EXCEPT ![l].state = state], a)
  BY DEF Backed
<1>1. p[Vault][a] \in Nat /\ Debt(ls, a) \in Nat
  BY DebtType DEF Purses, Holders
<1>2. p[Vault][a] >= Debt(ls, a)
  BY DEF Backed
<1>3. PICK q \in Purses : q = Transferred(p, Vault, to, ls[l].token, ls[l].amount)
  BY MovedType, LockFields DEF Holders
<1>4. PICK new \in Locks : new = [ls EXCEPT ![l].state = state]
  BY SettledType
<1>5. PICK b \in Assets, n \in Nat : b = ls[l].token /\ n = ls[l].amount
  <2>1. ls[l].token \in Assets /\ ls[l].amount \in Nat
    BY LockFields
  <2> QED
    BY <2>1
<1>6. Debt(new, a) + (IF a = b THEN n ELSE 0) = Debt(ls, a)
  <2>1. ls[l] \in LockRecord
    BY LockFields
  <2>2. new[l].state # "Locked" /\ \A k \in Loans \ {l} : new[k] = ls[k]
    BY <1>4, <2>1 DEF Locks, LockRecord
  <2> QED
    BY <1>5, <2>2, DebtSettled
<1>7. q[Vault][a] + (IF a = b THEN n ELSE 0) >= p[Vault][a]
  BY <1>3, <1>5, VaultPays
<1>8. q[Vault][a] \in Nat /\ Debt(new, a) \in Nat
  BY DebtType DEF Purses, Holders
<1>9. q[Vault][a] >= Debt(new, a)
  BY <1>1, <1>2, <1>6, <1>7, <1>8
<1> QED
  BY <1>3, <1>4, <1>9

\* What is committed is covered.
CommittedBacked == Backed(Committed.locks, Committed.purse)

LEMMA CommittedType ==
    ASSUME IInv
    PROVE  Committed.locks \in Locks /\ Committed.purse \in Purses
<1>1. CASE stack = << >>
  BY <1>1, CommittedIdle, SnapshotType DEF IInv
<1>2. CASE stack # << >>
  BY <1>2, WaitingCall, CommittedWaiting, SavedType
<1> QED
  BY <1>1, <1>2

LEMMA InitBacked == Init => CommittedBacked
<1> SUFFICES ASSUME Init PROVE CommittedBacked
  OBVIOUS
<1>1. Committed.locks = locks /\ Committed.purse = purse
  BY CommittedIdle DEF Init
<1> SUFFICES ASSUME NEW a \in Assets PROVE purse[Vault][a] >= Debt(locks, a)
  BY <1>1 DEF CommittedBacked, Backed
<1>2. PICK owed : owed = [l \in Loans |-> OwedIn(locks, l, a)]
  OBVIOUS
<1>3. owed \in [Loans -> Nat] /\ \A l \in Loans : owed[l] = 0
  BY <1>2 DEF Init, OwedIn, EmptyLock
<1>4. Debt(locks, a) = 0
  BY <1>2, <1>3, TotalZero DEF Debt
<1>5. purse[Vault][a] = 0
  BY DEF Init, Holders
<1> QED
  BY <1>4, <1>5

\* The steps of the escrow keep it so.
LEMMA NextBacked ==
    ASSUME IInv, CommittedBacked, EscrowStep
    PROVE  CommittedBacked'
<1> DEFINE ls == Committed.locks
           p == Committed.purse
<1>1. ls \in Locks /\ p \in Purses /\ Backed(ls, p)
  BY CommittedType DEF CommittedBacked
<1>2. CASE Stutter
  BY <1>2 DEF Stutter, CommittedBacked, Backed, Debt, OwedIn
<1>3. ASSUME NEW l \in Loans, NEW user \in Users, NEW a \in Assets,
             AbstractEscrow!PutUp(l, user, a)
      PROVE  CommittedBacked'
  <2>1. PICK n \in 1 .. p[user][a] :
           /\ ls' = [ls EXCEPT ![l] = NewLock(user, a, n)]
           /\ p' = Transferred(p, user, Vault, a, n)
    BY <1>3, Zenon DEF AbstractEscrow!PutUp, NewLock, Transferred, AbstractEscrow!Transferred
  <2>2. n \in Nat /\ n > 0
    BY <1>1 DEF Purses, Holders
  <2>3. ls[l] = EmptyLock
    BY <1>3, Zenon DEF AbstractEscrow!PutUp, AbstractEscrow!EmptyLock, EmptyLock
  <2>4. Backed(ls', p')
    BY <1>1, <2>1, <2>2, <2>3, LockBacked
  <2> QED
    BY <2>4 DEF CommittedBacked, Backed, Debt, OwedIn
<1>4. ASSUME NEW l \in Loans, NEW to \in Holders,
             NEW state \in {"Released", "Liquidated"},
             AbstractEscrow!HandOver(l, to, state)
      PROVE  CommittedBacked'
  <2>1. /\ ls[l].state = "Locked" /\ ls[l].amount <= p[Vault][ls[l].token]
        /\ ls' = [ls EXCEPT ![l].state = state]
        /\ p' = Transferred(p, Vault, to, ls[l].token, ls[l].amount)
    BY <1>4, Zenon DEF AbstractEscrow!HandOver, Transferred, AbstractEscrow!Transferred
  <2>2. Backed(ls', p')
    <3> HIDE DEF ls, p
    <3>1. PICK before \in Locks, had \in Purses : before = ls /\ had = p
      BY <1>1
    <3>2. Backed(before, had)
      BY <1>1, <3>1
    <3>3. before[l].state = "Locked" /\ before[l].amount <= had[Vault][before[l].token]
      BY <2>1, <3>1
    <3>4. Backed([before EXCEPT ![l].state = state],
                 Transferred(had, Vault, to, before[l].token, before[l].amount))
      BY <3>2, <3>3, PayBacked
    <3> QED
      BY <2>1, <3>1, <3>4, Zenon
  <2> QED
    BY <2>2 DEF CommittedBacked, Backed, Debt, OwedIn
<1>5. ASSUME NEW l \in Loans, ls[l].state = "Locked", AbstractEscrow!GiveBack(l)
      PROVE  CommittedBacked'
  <2>1. ls[l].borrower \in Holders
    BY <1>1, <1>5, LockFields DEF Holders
  <2> QED
    BY <1>4, <1>5, <2>1 DEF AbstractEscrow!GiveBack
<1>6. ASSUME NEW user \in Users, NEW a \in Assets, AbstractEscrow!Gift(user, a)
      PROVE  CommittedBacked'
  <2>1. PICK n \in 1 .. p[user][a] : ls' = ls /\ p' = Transferred(p, user, Vault, a, n)
    BY <1>6, Zenon DEF AbstractEscrow!Gift, Transferred, AbstractEscrow!Transferred
  <2>2. n \in Nat
    BY <1>1 DEF Purses, Holders
  <2>3. ASSUME NEW b \in Assets PROVE p'[Vault][b] >= Debt(ls, b)
    <3>1. p'[Vault][b] = p[Vault][b] + (IF b = a THEN n ELSE 0)
      BY <1>1, <2>1, <2>2, VaultPaid
    <3>2. p[Vault][b] \in Nat /\ Debt(ls, b) \in Nat /\ p[Vault][b] >= Debt(ls, b)
      BY <1>1, DebtType DEF Purses, Holders, Backed
    <3> QED
      BY <2>2, <3>1, <3>2
  <2>4. Backed(ls', p')
    BY <2>1, <2>3 DEF Backed
  <2> QED
    BY <2>4 DEF CommittedBacked, Backed, Debt, OwedIn
<1> QED
  BY <1>2, <1>3, <1>4, <1>5, <1>6
     DEF EscrowStep, AbstractEscrow!Next, AbstractEscrow!Seize, Holders

LEMMA SolventInvariant == Spec => [](IInv /\ CommittedBacked)
<1>1. IInv /\ CommittedBacked /\ [Next]_vars => CommittedBacked'
  BY NextEscrow, NextBacked
<1> QED
  BY <1>1, InitInv, NextInv, InitBacked, PTL DEF Spec

\* A total over no frame, and over one.
LEMMA FrameTotals ==
    ASSUME NEW n \in Nat
    PROVE  /\ \A h : Total([i \in 1 .. 0 |-> h]) = 0
           /\ Total([i \in 1 .. 1 |-> n]) = n
<1>1. \A h : Total([i \in 1 .. 0 |-> h]) = 0
  <2> TAKE h
  <2>1. [i \in 1 .. 0 |-> h] \in [{} -> Nat]
    OBVIOUS
  <2> QED
    BY <2>1, TotalZero
<1>2. Total([i \in 1 .. 1 |-> n]) = n
  <2>1. PICK f, z : f = [i \in {1} |-> n] /\ z = [i \in {1} |-> 0]
    OBVIOUS
  <2>2. f \in [{1} -> Nat] /\ z \in [{1} -> Nat] /\ IsFiniteSet({1})
    BY <2>1, FS_Singleton
  <2>3. Total(z) = 0
    BY <2>1, <2>2, TotalZero
  <2>4. Total(f) + z[1] = Total(z) + f[1]
    BY <2>2, TotalUpdate
  <2>5. f[1] = n /\ z[1] = 0 /\ Total(f) \in Nat /\ 1 .. 1 = {1}
    BY <2>1, <2>2, TotalType
  <2> QED
    BY <2>1, <2>3, <2>4, <2>5
<1> QED
  BY <1>1, <1>2

\* A settled lock leaves a table of locks.
LEMMA PaidLocks ==
    ASSUME NEW f \in Frame, NEW l \in Loans, Paying(f, l), NEW a \in Assets
    PROVE  /\ f.saved.locks[l].token = f.token
           /\ f.saved.locks[l].amount = f.amount
           /\ Debt(locks, a) + (IF a = f.token THEN f.amount ELSE 0)
                 = Debt(f.saved.locks, a)
<1>1. PICK ls \in Locks : ls = f.saved.locks
  BY SavedType
<1>2. ls[l].state = "Locked" /\ ls[l].token = f.token /\ ls[l].amount = f.amount
  BY <1>1 DEF Paying
<1>3. PICK state \in {"Released", "Liquidated"} : locks = [ls EXCEPT ![l].state = state]
  BY <1>1, Zenon DEF Paying
<1>4. locks \in Locks
  BY <1>2, <1>3, SettledType
<1>5. ls[l] \in LockRecord
  BY <1>2, LockFields
<1>6. locks[l].state # "Locked" /\ \A k \in Loans \ {l} : locks[k] = ls[k]
  BY <1>3, <1>5 DEF Locks, LockRecord
<1>7. Debt(locks, a) + (IF a = ls[l].token THEN ls[l].amount ELSE 0) = Debt(ls, a)
  BY <1>2, <1>4, <1>6, DebtSettled
<1> QED
  BY <1>1, <1>2, <1>7

\* While a call waits, what is still to move makes up the difference.
LEMMA WaitingSolvent ==
    ASSUME IInv, NEW f \in Frame, stack = <<f>>, Progress(f),
           Backed(f.saved.locks, f.saved.purse), NEW a \in Assets
    PROVE  purse[Vault][a] + Coming(1, a) >= Debt(locks, a) + Leaving(1, a)
<1>1. PICK ls \in Locks, p \in Purses : ls = f.saved.locks /\ p = f.saved.purse
  BY SavedType
<1>2. Backed(ls, p) /\ p[Vault][a] \in Nat /\ Debt(ls, a) \in Nat /\ p[Vault][a] >= Debt(ls, a)
  BY <1>1, DebtType DEF Backed, Purses, Holders
<1>3. locks \in Locks /\ purse \in Purses
  BY SnapshotType DEF IInv
<1>4. purse[Vault][a] \in Nat /\ Debt(locks, a) \in Nat
  BY <1>3, DebtType DEF Purses, Holders
<1>5. /\ f.amount \in Nat /\ f.amount > 0 /\ f.token \in Assets
      /\ f.to \in Holders /\ f.moved \in BOOLEAN
  BY SavedType
<1> DEFINE part == IF a = f.token THEN f.amount ELSE 0
<1>6. /\ Coming(1, a) = IF f.to = Vault /\ f.from # Vault /\ ~f.moved THEN part ELSE 0
      /\ Leaving(1, a) = IF f.from = Vault /\ f.to # Vault /\ ~f.moved THEN part ELSE 0
  BY OneFrame DEF Coming, Leaving, Pending
<1>7. part \in Nat
  BY <1>5
<1>8. PICK l \in Loans : Locking(f, l) \/ Paying(f, l)
  BY DEF Progress
<1> HIDE DEF part
<1>9. CASE f.moved
  <2>1. purse = Transferred(p, f.from, f.to, f.token, f.amount)
    BY <1>1, <1>9 DEF Progress, Paid
  <2>2. CASE Locking(f, l)
    <3>1. /\ f.from \in Users /\ f.to = Vault /\ ls[l] = EmptyLock
          /\ locks = [ls EXCEPT ![l] = NewLock(f.from, f.token, f.amount)]
      BY <1>1, <2>2, EmptySlot DEF Locking
    <3>2. Backed(locks, purse)
      BY <1>2, <1>5, <2>1, <3>1, LockBacked
    <3>3. purse[Vault][a] >= Debt(locks, a)
      BY <3>2 DEF Backed
    <3> QED
      BY <1>4, <1>6, <1>9, <3>3
  <2>3. CASE Paying(f, l)
    <3>1. f.from = Vault
      BY <2>3 DEF Paying
    <3>2. f.amount <= p[Vault][f.token]
      BY <1>1, <1>9, <3>1 DEF Progress
    <3>3. purse[Vault][a] + part >= p[Vault][a]
      BY <1>5, <2>1, <3>1, <3>2, VaultPays DEF part
    <3>4. Debt(locks, a) + part = Debt(ls, a)
      BY <1>1, <2>3, PaidLocks DEF part
    <3> QED
      BY <1>2, <1>4, <1>6, <1>7, <1>9, <3>3, <3>4
  <2> QED
    BY <1>8, <2>2, <2>3
<1>10. CASE ~f.moved
  <2>1. purse = p
    BY <1>1, <1>10 DEF Progress
  <2>2. CASE Locking(f, l)
    <3>1. /\ f.from \in Users /\ f.to = Vault /\ ls[l] = EmptyLock
          /\ locks = [ls EXCEPT ![l] = NewLock(f.from, f.token, f.amount)]
      BY <1>1, <2>2, EmptySlot DEF Locking
    <3>2. Debt(locks, a) = Debt(ls, a) + part
      <4>1. PICK user \in Users, b \in Assets, n \in Nat :
               user = f.from /\ b = f.token /\ n = f.amount
        BY <1>5, <3>1
      <4>2. Debt([ls EXCEPT ![l] = NewLock(user, b, n)], a)
               = Debt(ls, a) + (IF a = b THEN n ELSE 0)
        <5>1. n > 0 /\ ls[l] = EmptyLock
          BY <1>5, <3>1, <4>1
        <5> QED
          BY <5>1, DebtLocked
      <4> QED
        BY <3>1, <4>1, <4>2 DEF part
    <3>3. f.from # Vault
      BY <3>1, VaultAssumption
    <3> QED
      BY <1>2, <1>6, <1>7, <1>10, <2>1, <3>1, <3>2, <3>3
  <2>3. CASE Paying(f, l)
    <3>1. f.from = Vault
      BY <2>3 DEF Paying
    <3>2. Debt(locks, a) + part = Debt(ls, a)
      BY <1>1, <2>3, PaidLocks DEF part
    <3> QED
      BY <1>2, <1>4, <1>6, <1>7, <1>10, <2>1, <3>1, <3>2
  <2> QED
    BY <1>8, <2>2, <2>3
<1> QED
  BY <1>5, <1>9, <1>10

LEMMA CommittedSolvent ==
    ASSUME IInv, CommittedBacked
    PROVE  Solvent
<1> SUFFICES ASSUME NEW a \in Assets
             PROVE  purse[Vault][a] + Total([i \in 1 .. Len(stack) |-> Coming(i, a)])
                       >= Debt(locks, a)
                            + Total([i \in 1 .. Len(stack) |-> Leaving(i, a)])
  BY Zenon DEF Solvent, Debt, Owed, OwedIn
<1>1. purse[Vault][a] \in Nat /\ Debt(locks, a) \in Nat
  BY SnapshotType, DebtType DEF IInv, Purses, Holders
<1>2. CASE stack = << >>
  <2>1. purse[Vault][a] >= Debt(locks, a)
    BY <1>2, CommittedIdle DEF CommittedBacked, Backed
  <2>2. Len(stack) = 0
    BY <1>2
  <2>3. /\ [i \in 1 .. Len(stack) |-> Coming(i, a)] = [i \in 1 .. 0 |-> 0]
        /\ [i \in 1 .. Len(stack) |-> Leaving(i, a)] = [i \in 1 .. 0 |-> 0]
    BY <2>2
  <2>4. Total([i \in 1 .. 0 |-> 0]) = 0
    BY FrameTotals
  <2> QED
    BY <1>1, <2>1, <2>3, <2>4
<1>3. CASE stack # << >>
  <2>1. PICK f \in Frame : stack = <<f>> /\ Progress(f)
    BY <1>3, WaitingCall
  <2>2. Backed(f.saved.locks, f.saved.purse)
    BY <2>1, CommittedWaiting DEF CommittedBacked
  <2>3. purse[Vault][a] + Coming(1, a) >= Debt(locks, a) + Leaving(1, a)
    BY <2>1, <2>2, WaitingSolvent
  <2>4. PICK c \in Nat, d \in Nat : c = Coming(1, a) /\ d = Leaving(1, a)
    <3>1. Coming(1, a) \in Nat /\ Leaving(1, a) \in Nat
      BY <2>1, OneFrame, SavedType DEF Coming, Leaving, Pending
    <3> QED
      BY <3>1
  <2>5. Len(stack) = 1
    BY <2>1, OneFrame
  <2>6. /\ [i \in 1 .. Len(stack) |-> Coming(i, a)] = [i \in 1 .. 1 |-> c]
        /\ [i \in 1 .. Len(stack) |-> Leaving(i, a)] = [i \in 1 .. 1 |-> d]
    <3>1. \A i \in 1 .. 1 : Coming(i, a) = c /\ Leaving(i, a) = d
      <4>1. \A i \in 1 .. 1 : i = 1
        OBVIOUS
      <4> QED
        BY <2>4, <4>1, Zenon
    <3>2. [i \in 1 .. 1 |-> Coming(i, a)] = [i \in 1 .. 1 |-> c]
      BY <3>1, Zenon
    <3>3. [i \in 1 .. 1 |-> Leaving(i, a)] = [i \in 1 .. 1 |-> d]
      BY <3>1, Zenon
    <3> QED
      BY <2>5, <3>2, <3>3, Zenon
  <2>7. Total([i \in 1 .. 1 |-> c]) = c /\ Total([i \in 1 .. 1 |-> d]) = d
    BY FrameTotals
  <2> QED
    BY <2>3, <2>4, <2>6, <2>7
<1> QED
  BY <1>2, <1>3

\* The vault can always pay out every lock, also while the code of others
\* runs in the middle of a transfer.
THEOREM VaultSolvent == Spec => []Solvent
<1>1. IInv /\ CommittedBacked => Solvent
  BY CommittedSolvent
<1> QED
  BY <1>1, SolventInvariant, PTL

-----------------------------------------------------------------------------
(* No lock is trapped *)

\* No lock is more than the debt it is part of.
LEMMA OwedWithinDebt ==
    ASSUME NEW ls \in Locks, NEW l \in Loans, NEW a \in Assets
    PROVE  OwedIn(ls, l, a) <= Debt(ls, a)
<1> DEFINE owed == [k \in Loans |-> OwedIn(ls, k, a)]
           rest == [k \in Loans \ {l} |-> owed[k]]
<1>1. owed \in [Loans -> Nat] /\ rest \in [Loans \ {l} -> Nat] /\ IsFiniteSet(Loans \ {l})
  BY OwedType, FS_Difference, VaultAssumption
<1>2. Debt(ls, a) = Total(rest) + owed[l]
  <2> HIDE DEF owed
  <2>1. Total(owed) = Total(rest) + owed[l]
    BY <1>1, TotalSplit, VaultAssumption
  <2> QED BY <2>1 DEF Debt, owed
<1>3. Total(rest) \in Nat
  <2> HIDE DEF rest
  <2> QED BY <1>1, TotalType
<1>4. owed[l] = OwedIn(ls, l, a) /\ owed[l] \in Nat
  BY <1>1
<1> HIDE DEF owed, rest
<1> QED BY <1>2, <1>3, <1>4

\* Whether release gets past its guards, and its transfer past those of Move.
Payable(l) ==
    /\ MayCall /\ NonReentrant /\ Held(l)
    /\ locks[l].amount <= purse[Vault][locks[l].token]
    /\ ~(locks[l].token = Eth /\ locks[l].borrower = Vault)

LEMMA IdlePayable ==
    ASSUME IInv, CommittedBacked, MaxDepth # 0, stack = << >>,
           NEW l \in Loans, locks[l].state = "Locked"
    PROVE  Payable(l)
<1> DEFINE a == locks[l].token
<1>1. locks \in Locks /\ purse \in Purses
  BY SnapshotType DEF IInv
<1>2. /\ a \in Assets /\ locks[l].borrower \in Users
      /\ OwedIn(locks, l, a) = locks[l].amount /\ locks[l].amount \in Nat
  BY <1>1, LockFields DEF OwedIn
<1>3. purse[Vault][a] >= Debt(locks, a)
  BY <1>2, CommittedIdle DEF CommittedBacked, Backed
<1>4. Debt(locks, a) \in Nat /\ purse[Vault][a] \in Nat
  BY <1>1, <1>2, DebtType DEF Purses, Holders
<1>5. locks[l].amount <= purse[Vault][a]
  BY <1>1, <1>2, <1>3, <1>4, OwedWithinDebt
<1>6. MayCall /\ NonReentrant
  <2>1. Len(stack) = 0 /\ MaxDepth \in Nat
    BY VaultAssumption
  <2> QED BY <2>1 DEF MayCall, NonReentrant, IInv, OneCall
<1> QED BY <1>2, <1>5, <1>6, VaultAssumption DEF Payable, Held

\* Between transactions nothing stands in the way of a release: not the pause,
\* not the whitelist, not a guard left ENTERED, not a missing balance.
THEOREM NothingTrapped ==
    ASSUME MaxDepth # 0
    PROVE  Spec => [](stack = << >> =>
                        \A l \in Loans : locks[l].state = "Locked" => Payable(l))
<1>1. IInv /\ CommittedBacked =>
        (stack = << >> => \A l \in Loans : locks[l].state = "Locked" => Payable(l))
  BY IdlePayable
<1> QED BY <1>1, SolventInvariant, PTL
=============================================================================
