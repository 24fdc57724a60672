-------------------------------- MODULE Escrow --------------------------------
(***************************************************************************)
(* What the collateral vault promises: it takes an asset of a borrower for *)
(* a loan once, and hands it on once, back to that borrower or away from   *)
(* it.  Every transfer is one step.                                        *)
(***************************************************************************)
EXTENDS Naturals

CONSTANTS
    Loans,    \* the loan ids
    Assets,   \* what can be locked
    Users,    \* who may own assets
    Vault     \* the owner of what is in escrow

VARIABLES
    locks,    \* each loan's lock
    purse     \* how much of each asset everybody has

EmptyLock == [state |-> "Empty"]

\* A transfer, which fails beyond what the payer has.
Transferred(from, to, a, n) ==
    [[purse EXCEPT ![from][a] = @ - n] EXCEPT ![to][a] = @ + n]

Init ==
    /\ locks = [l \in Loans |-> EmptyLock]
    /\ purse \in [Users \cup {Vault} -> [Assets -> Nat]]
    /\ \A a \in Assets : purse[Vault][a] = 0

PutUp(l, user, a) ==
    /\ locks[l] = EmptyLock
    /\ \E n \in 1 .. purse[user][a] :
          /\ locks' = [locks EXCEPT ![l] = [state |-> "Locked", borrower |-> user,
                                            token |-> a, amount |-> n]]
          /\ purse' = Transferred(user, Vault, a, n)

HandOver(l, to, state) ==
    /\ locks[l].state = "Locked"
    /\ locks[l].amount <= purse[Vault][locks[l].token]
    /\ locks' = [locks EXCEPT ![l].state = state]
    /\ purse' = Transferred(Vault, to, locks[l].token, locks[l].amount)

GiveBack(l) == HandOver(l, locks[l].borrower, "Released")

Seize(l, to) == HandOver(l, to, "Liquidated")

\* A user may send the vault an asset for no loan.
Gift(user, a) ==
    /\ \E n \in 1 .. purse[user][a] : purse' = Transferred(user, Vault, a, n)
    /\ UNCHANGED locks

Next ==
    \/ \E l \in Loans :
          \/ \E user \in Users, a \in Assets : PutUp(l, user, a)
          \/ locks[l].state = "Locked" /\ GiveBack(l)
          \/ \E to \in Users \cup {Vault} : Seize(l, to)
    \/ \E user \in Users, a \in Assets : Gift(user, a)

Spec == Init /\ [][Next]_<<locks, purse>>
=============================================================================
