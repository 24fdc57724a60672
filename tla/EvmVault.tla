------------------------------- MODULE EvmVault -------------------------------
(***************************************************************************)
(* PrismCollateralVault.sol.  A call is a transaction, but one that can be *)
(* looked into: a transfer runs the code of the token or of the receiver,  *)
(* which may call the vault again before the handler has returned, and a   *)
(* revert takes everything since the call back.  Each handler that         *)
(* transfers is therefore cut at the transfer, and a stack of frames holds *)
(* the calls that have not returned.                                       *)
(*                                                                         *)
(* Tokens are plain ERC-20s: a transfer moves the amount it names.         *)
(***************************************************************************)
EXTENDS Naturals, Sequences, UnitSums

CONSTANTS
    Loans,       \* stellarLoanId
    Tokens,      \* the ERC-20 tokens
    Eth,         \* address(0), the native asset
    Users,       \* borrowers, the treasury and other addresses
    Vault,       \* the address of the contract
    Funds,       \* what each user has of each asset at first
    MaxDepth     \* bound on the calls that have not returned

Assets  == Tokens \cup {Eth}
Holders == Users \cup {Vault}

ASSUME VaultAssumption ==
    /\ IsFiniteSet(Loans)
    /\ Eth \notin Tokens
    /\ Vault \notin Users
    /\ Funds \in Nat
    /\ MaxDepth \in Nat

VARIABLES
    locks,       \* _locks
    accepted,    \* acceptedTokens
    paused,      \* Pausable._paused
    entered,     \* whether ReentrancyGuard is ENTERED
    purse,       \* how much of each asset everybody has
    stack        \* the calls that wait for a transfer

world == <<locks, accepted, paused, entered, purse>>
vars  == <<world, stack>>

EmptyLock == [state |-> "Empty"]

LockRecord ==
    [state : {"Locked", "Released", "Liquidated"}, borrower : Users,
     token : Assets, amount : Nat \ {0}]

\* The state that a revert restores.
Snapshot ==
    [locks |-> locks, accepted |-> accepted, paused |-> paused,
     entered |-> entered, purse |-> purse]

Init ==
    /\ locks = [l \in Loans |-> EmptyLock]
    /\ accepted \in SUBSET Tokens
    /\ paused = FALSE
    /\ entered = FALSE
    /\ purse = [h \in Holders |-> [a \in Assets |-> IF h = Vault THEN 0 ELSE Funds]]
    /\ stack = << >>

-----------------------------------------------------------------------------
(* Calls *)

Top == stack[Len(stack)]

\* The vault may be called by a transaction of its own, or by the code that a
\* transfer runs: of a token before and after it moves, of who receives ETH
\* after.
MayCall == stack # << >> => Top.moved \/ Top.token # Eth

\* Mutant: no guard.
Unguarded == Len(stack) < MaxDepth

\* nonReentrant.
NonReentrant == ~entered /\ Len(stack) < MaxDepth

\* What p becomes when n of an asset changes hands.
Transferred(p, from, to, a, n) ==
    [[p EXCEPT ![from][a] = @ - n] EXCEPT ![to][a] = @ + n]

\* A frame that is about to transfer.
Transfer(from, to, token, amount) ==
    [from |-> from, to |-> to, token |-> token, amount |-> amount,
     moved |-> FALSE, saved |-> Snapshot]

\* Mutant: the vault is recorded as the borrower.
NewLockUnowned(user, token, amount) ==
    [state |-> "Locked", borrower |-> Vault, token |-> token, amount |-> amount]

NewLock(user, token, amount) ==
    [state |-> "Locked", borrower |-> user, token |-> token, amount |-> amount]

\* lock: the slot is taken before the token is.
Lock(l, user, token, amount) ==
    /\ MayCall
    /\ NonReentrant
    /\ ~paused
    /\ token \in accepted
    /\ amount > 0
    /\ locks[l].state = "Empty"
    /\ locks' = [locks EXCEPT ![l] = NewLock(user, token, amount)]
    /\ entered' = TRUE
    /\ stack' = Append(stack, Transfer(user, Vault, token, amount))
    /\ UNCHANGED <<accepted, paused, purse>>

\* lockETH: the ETH comes with the call, and nothing is called.
LockETH(l, user, amount) ==
    /\ MayCall
    /\ NonReentrant
    /\ ~paused
    /\ amount > 0
    /\ locks[l].state = "Empty"
    /\ amount <= purse[user][Eth]
    /\ locks' = [locks EXCEPT ![l] = NewLock(user, Eth, amount)]
    /\ purse' = Transferred(purse, user, Vault, Eth, amount)
    /\ UNCHANGED <<accepted, paused, entered, stack>>

\* Mutants: the pause holds releases back; the slot's state is not written.
HeldUnlessPaused(l) == locks[l].state = "Locked" /\ ~paused
NotSettled(l, state) == locks' = locks

\* The guard of LoanNotLocked.
Held(l) == locks[l].state = "Locked"

\* The slot changes before the asset leaves.
Settled(l, state) == locks' = [locks EXCEPT ![l].state = state]

\* What release and liquidate share.
HandOver(l, to, state) ==
    /\ MayCall
    /\ NonReentrant
    /\ Held(l)
    /\ Settled(l, state)
    /\ entered' = TRUE
    /\ stack' = Append(stack, Transfer(Vault, to, locks[l].token, locks[l].amount))
    /\ UNCHANGED <<accepted, paused, purse>>

Release(l) == Held(l) /\ HandOver(l, locks[l].borrower, "Released")

\* Any address but zero, the vault's own included.
Liquidate(l, to) == HandOver(l, to, "Liquidated")

-----------------------------------------------------------------------------
(* Transfers *)

\* The asset moves.  The vault itself takes ETH only through lockETH.
Move ==
    /\ stack # << >>
    /\ ~Top.moved
    /\ Top.amount <= purse[Top.from][Top.token]
    /\ ~(Top.token = Eth /\ Top.to = Vault)
    /\ purse' = Transferred(purse, Top.from, Top.to, Top.token, Top.amount)
    /\ stack' = [stack EXCEPT ![Len(stack)] = [Top EXCEPT !.moved = TRUE]]
    /\ UNCHANGED <<locks, accepted, paused, entered>>

Return ==
    /\ stack # << >>
    /\ Top.moved
    /\ entered' = FALSE
    /\ stack' = SubSeq(stack, 1, Len(stack) - 1)
    /\ UNCHANGED <<locks, accepted, paused, purse>>

\* The token or the receiver rejects the transfer, or the payer has too little.
Revert ==
    /\ stack # << >>
    /\ locks' = Top.saved.locks
    /\ accepted' = Top.saved.accepted
    /\ paused' = Top.saved.paused
    /\ entered' = Top.saved.entered
    /\ purse' = Top.saved.purse
    /\ stack' = SubSeq(stack, 1, Len(stack) - 1)

\* An ERC-20 is sent to the vault without a call of the vault.
Gift(user, token) ==
    /\ stack = << >>
    /\ \E n \in 1 .. purse[user][token] :
          purse' = Transferred(purse, user, Vault, token, n)
    /\ UNCHANGED <<locks, accepted, paused, entered, stack>>

-----------------------------------------------------------------------------
(* Administration, which no guard keeps out of a callback *)

AddToken(token) ==
    /\ MayCall
    /\ accepted' = accepted \cup {token}
    /\ UNCHANGED <<locks, paused, entered, purse, stack>>

RemoveToken(token) ==
    /\ MayCall
    /\ accepted' = accepted \ {token}
    /\ UNCHANGED <<locks, paused, entered, purse, stack>>

Pause ==
    /\ MayCall
    /\ ~paused
    /\ paused' = TRUE
    /\ UNCHANGED <<locks, accepted, entered, purse, stack>>

Unpause ==
    /\ MayCall
    /\ paused
    /\ paused' = FALSE
    /\ UNCHANGED <<locks, accepted, entered, purse, stack>>

BorrowerStep ==
    \E l \in Loans, user \in Users, amount \in 0 .. Funds :
        \/ \E token \in Tokens : Lock(l, user, token, amount)
        \/ LockETH(l, user, amount)

AdminStep ==
    \/ \E l \in Loans :
          \/ Release(l)
          \/ \E to \in Holders : Liquidate(l, to)
    \/ \E token \in Tokens : AddToken(token) \/ RemoveToken(token)
    \/ Pause
    \/ Unpause

Next ==
    \/ BorrowerStep
    \/ AdminStep
    \/ Move \/ Return \/ Revert
    \/ \E user \in Users, token \in Tokens : Gift(user, token)

Spec == Init /\ [][Next]_vars

-----------------------------------------------------------------------------
World ==
    [locks : [Loans -> LockRecord \cup {EmptyLock}], accepted : SUBSET Tokens,
     paused : BOOLEAN, entered : BOOLEAN, purse : [Holders -> [Assets -> Nat]]]

\* The types of the records, of balances and of the frames.
TypeOK ==
    /\ Snapshot \in World
    /\ stack \in Seq([from : Holders, to : Holders, token : Assets,
                      amount : Nat \ {0}, moved : BOOLEAN, saved : World])

Owed(l, a) ==
    IF locks[l].state = "Locked" /\ locks[l].token = a THEN locks[l].amount ELSE 0

Pending(i, a) ==
    IF ~stack[i].moved /\ stack[i].token = a THEN stack[i].amount ELSE 0

Coming(i, a) == IF stack[i].to = Vault /\ stack[i].from # Vault THEN Pending(i, a) ELSE 0
Leaving(i, a) == IF stack[i].from = Vault /\ stack[i].to # Vault THEN Pending(i, a) ELSE 0

\* The vault can pay out every lock, also in the middle of a transfer, when
\* the code of others runs: what it has and is about to get covers what is
\* locked and what it is about to pay.
Solvent ==
    \A a \in Assets :
        purse[Vault][a] + Total([i \in 1 .. Len(stack) |-> Coming(i, a)])
            >= Total([l \in Loans |-> Owed(l, a)])
                 + Total([i \in 1 .. Len(stack) |-> Leaving(i, a)])

\* No pause and no change of the whitelist traps a collateral: between
\* transactions, the admin can release every lock, and the payment is there.
NeverTrapped ==
    stack = << >> =>
        \A l \in Loans : locks[l].state = "Locked" =>
            /\ ENABLED Release(l)
            /\ locks[l].amount <= purse[Vault][locks[l].token]

\* What the transactions that have ended left behind.
Committed == IF stack = << >> THEN Snapshot ELSE stack[1].saved

AbstractEscrow == INSTANCE Escrow WITH locks <- Committed.locks, purse <- Committed.purse

\* However calls nest and revert, each transaction as a whole is one step of
\* the escrow: one lock is put up, given back or seized, and exactly its
\* amount moves.
ImplementsEscrow == AbstractEscrow!Spec
=============================================================================
