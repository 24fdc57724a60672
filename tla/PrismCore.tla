------------------------------ MODULE PrismCore ------------------------------
(***************************************************************************)
(* The ledger of the prism-core Soroban contract: vaults with three        *)
(* tranches of pTokens, the loans drawn from the pool, the yield and loss  *)
(* waterfalls, and the gates that collateral and Encrypt records put on    *)
(* them.  A contract call is a transaction: it takes effect whole or, on   *)
(* an error or a failed token transfer, not at all; so each entry point is *)
(* one action and its error returns are guards.                            *)
(*                                                                         *)
(* Outside the contract: the USDC token (pool is what the contract holds,  *)
(* outside what everybody else holds, the Soroswap pairs included), the    *)
(* pTokens (transferable, so only the circulating amount matters to a      *)
(* burn), and the ledger clock.  Who signs a call and what evidence it     *)
(* carries is not part of this module: an oracle's attestation may arrive  *)
(* whenever the records allow it.                                          *)
(***************************************************************************)
EXTENDS PrismMath, UnitSums, Sequences

CONSTANTS
    Vaults,       \* vault ids
    Loans,        \* loan ids
    Amounts,      \* the USDC amounts callers pass
    Apy,          \* target_apy_bps of each kind of tranche
    InitialUsdc,  \* all the USDC there is
    MaxTime,      \* bound on the ledger clock
    MaxEvents     \* bound on the credit events of a vault

Kinds == {"Prime", "Core", "Alpha"}
EventKinds == {"Default", "PartialLoss", "Recovery"}

ASSUME CoreAssumption ==
    /\ IsFiniteSet(Vaults)
    /\ IsFiniteSet(Loans)
    /\ Amounts \subseteq U64
    /\ Apy \in [Kinds -> Nat]
    /\ InitialUsdc \in Nat
    /\ MaxTime \in Nat
    /\ MaxEvents \in Nat

VARIABLES
    paused,       \* GlobalConfig.paused
    now,          \* the ledger timestamp
    vault,        \* the vault records
    tranche,      \* the tranche records of each vault, by kind
    ptoken,       \* circulating pTokens of each tranche
    loan,         \* the loan records
    collateral,   \* status of the collateral record of each loan
    encrypt,      \* status of the Encrypt record of each loan
    eventLog,     \* the credit events of each vault; seq is the position
    lossBucket,   \* the loss bucket balance of each vault
    pool,         \* USDC held by the contract, for all vaults together
    outside,      \* USDC held by everybody else
    seeded        \* USDC the contract has put into Soroswap pairs

ledger == <<vault, tranche, ptoken, eventLog, lossBucket>>
gates  == <<collateral, encrypt>>
usdc   == <<pool, outside, seeded>>
vars   == <<paused, now, ledger, loan, gates, usdc>>

-----------------------------------------------------------------------------
(* Records *)

NoVault   == [state |-> "None", deposits |-> 0, loaned |-> 0, lastYield |-> 0]
NoTranche == [live |-> FALSE, assets |-> 0, supply |-> 0, nav |-> 0,
              yield |-> 0, loss |-> 0]

VaultRecord ==
    [state : {"None", "Active", "Defaulted", "Resolved"},
     deposits : U64, loaned : U64, lastYield : Nat]

TrancheRecord ==
    [live : BOOLEAN, assets : U64, supply : U64, nav : Nat,
     yield : U64, loss : U64]

LoanRecord ==
    [state : {"Originated", "Active", "Repaying", "Repaid", "Defaulted", "Resolved"},
     vault : Vaults, principal : U64, repaid : U64]

NoLoan == [state |-> "None"]

CreditEvent == [kind : EventKinds, loss : Nat]

Exists(l) == loan[l].state # "None"
AllLive(v) == \A k \in Kinds : tranche[v][k].live

\* Mutant: the guard of a withdrawal where a deposit's belongs.
IsActiveOrDefaulted(v) == vault[v].state \in {"Active", "Defaulted"}

\* The guard behind VaultNotActive.
IsActive(v) == vault[v].state = "Active"

\* Mutants: total_supply is not written back; the NAV is taken before it is.
RepriceKeepsSupply(t, assets, supply) ==
    [t EXCEPT !.assets = assets, !.nav = ComputeNav(assets, supply)]

RepriceAtOldSupply(t, assets, supply) ==
    [t EXCEPT !.assets = assets, !.supply = supply,
              !.nav = ComputeNav(assets, t.supply)]

\* A tranche record with new totals and its NAV refreshed.
Reprice(t, assets, supply) ==
    [t EXCEPT !.assets = assets, !.supply = supply,
              !.nav = ComputeNav(assets, supply)]

TotalAssets(v) ==
    tranche[v]["Prime"].assets + tranche[v]["Core"].assets
        + tranche[v]["Alpha"].assets

-----------------------------------------------------------------------------
Init ==
    /\ paused = FALSE
    /\ now = 0
    /\ vault = [v \in Vaults |-> NoVault]
    /\ tranche = [v \in Vaults |-> [k \in Kinds |-> NoTranche]]
    /\ ptoken = [v \in Vaults |-> [k \in Kinds |-> 0]]
    /\ loan = [l \in Loans |-> NoLoan]
    /\ collateral = [l \in Loans |-> "None"]
    /\ encrypt = [l \in Loans |-> "None"]
    /\ eventLog = [v \in Vaults |-> << >>]
    /\ lossBucket = [v \in Vaults |-> 0]
    /\ pool = 0
    /\ outside = InitialUsdc
    /\ seeded = 0

-----------------------------------------------------------------------------
(* Administration *)

Pause ==
    /\ paused' = TRUE
    /\ UNCHANGED <<now, ledger, loan, gates, usdc>>

Unpause ==
    /\ paused' = FALSE
    /\ UNCHANGED <<now, ledger, loan, gates, usdc>>

InitVault(v) ==
    /\ vault[v].state = "None"
    /\ vault' = [vault EXCEPT ![v] = [NoVault EXCEPT !.state = "Active",
                                                     !.lastYield = now]]
    /\ UNCHANGED <<paused, now, tranche, ptoken, eventLog, lossBucket, loan,
                   gates, usdc>>

\* Mutant: a tranche may be initialised again.
InitTrancheAgain(v, k) ==
    /\ vault[v].state # "None"
    /\ tranche' = [tranche EXCEPT ![v][k] = [NoTranche EXCEPT !.live = TRUE]]
    /\ UNCHANGED <<paused, now, vault, ptoken, eventLog, lossBucket, loan,
                   gates, usdc>>

InitTranche(v, k) ==
    /\ vault[v].state # "None"
    /\ ~tranche[v][k].live
    /\ tranche' = [tranche EXCEPT ![v][k] = [NoTranche EXCEPT !.live = TRUE]]
    /\ UNCHANGED <<paused, now, vault, ptoken, eventLog, lossBucket, loan,
                   gates, usdc>>

-----------------------------------------------------------------------------
(* Deposits and withdrawals *)

Deposit(v, k, amount) ==
    LET t == tranche[v][k]
        shares == DepositShares(amount, t.nav, t.supply)
    IN  /\ ~paused
        /\ IsActive(v)
        /\ t.live
        /\ DepositPriced(amount, t.nav, t.supply)
        /\ amount <= outside
        /\ FitsU64(t.assets + amount)
        /\ FitsU64(t.supply + shares)
        /\ FitsU64(vault[v].deposits + amount)
        /\ tranche' = [tranche EXCEPT ![v][k] =
                          Reprice(t, t.assets + amount, t.supply + shares)]
        /\ ptoken' = [ptoken EXCEPT ![v][k] = @ + shares]
        /\ vault' = [vault EXCEPT ![v].deposits = @ + amount]
        /\ pool' = pool + amount
        /\ outside' = outside - amount
        /\ UNCHANGED <<paused, now, eventLog, lossBucket, loan, gates, seeded>>

\* The payout is at the NAV on record; the burn fails beyond what circulates
\* and the transfer fails beyond what the contract holds.
Withdraw(v, k, shares) ==
    LET t == tranche[v][k]
        payout == WithdrawPayout(shares, t.nav)
    IN  /\ ~paused
        /\ vault[v].state \in {"Active", "Defaulted"}
        /\ t.live
        /\ FitsU64(payout)
        /\ shares <= ptoken[v][k]
        /\ payout <= pool
        /\ tranche' = [tranche EXCEPT ![v][k] =
                          Reprice(t, SaturatingSub(t.assets, payout),
                                     SaturatingSub(t.supply, shares))]
        /\ ptoken' = [ptoken EXCEPT ![v][k] = @ - shares]
        /\ vault' = [vault EXCEPT ![v].deposits = SaturatingSub(@, payout)]
        /\ pool' = pool - payout
        /\ outside' = outside + payout
        /\ UNCHANGED <<paused, now, eventLog, lossBucket, loan, gates, seeded>>

-----------------------------------------------------------------------------
(* The yield waterfall *)

Elapsed(v) == SaturatingSub(now, vault[v].lastYield)

Target(v, k) == YieldTarget(tranche[v][k].assets, Apy[k], Elapsed(v))

\* Mutant: Core fills its target first.
TakeCoreFirst(v, amount) ==
    LET core  == Lesser(Target(v, "Core"), amount)
        prime == Lesser(Target(v, "Prime"), amount - core)
    IN  [k \in Kinds |-> CASE k = "Prime" -> prime
                           [] k = "Core"  -> core
                           [] k = "Alpha" -> amount - prime - core]

\* Prime fills its target, then Core its own, and Alpha takes the rest.
YieldTake(v, amount) ==
    LET prime == Lesser(Target(v, "Prime"), amount)
        core  == Lesser(Target(v, "Core"), amount - prime)
    IN  [k \in Kinds |-> CASE k = "Prime" -> prime
                           [] k = "Core"  -> core
                           [] k = "Alpha" -> amount - prime - core]

\* apply_yield, an error if either total leaves its width.
Earn(t, take) ==
    [Reprice(t, t.assets + take, t.supply) EXCEPT !.yield = t.yield + take]

EarnFits(t, take) == FitsU64(t.assets + take) /\ FitsU64(t.yield + take)

\* A call in the second of the last accrual returns Ok and takes nothing.
AccrueYield(v, amount) ==
    LET take == YieldTake(v, amount)
    IN  /\ IsActive(v)
        /\ Elapsed(v) > 0
        /\ AllLive(v)
        /\ FitsU64(Target(v, "Prime"))
        /\ FitsU64(Target(v, "Core"))
        /\ amount <= outside
        /\ \A k \in Kinds : EarnFits(tranche[v][k], take[k])
        /\ tranche' = [tranche EXCEPT ![v] =
                          [k \in Kinds |-> Earn(@[k], take[k])]]
        /\ vault' = [vault EXCEPT ![v].lastYield = now]
        /\ pool' = pool + amount
        /\ outside' = outside - amount
        /\ UNCHANGED <<paused, now, ptoken, eventLog, lossBucket, loan, gates,
                       seeded>>

-----------------------------------------------------------------------------
(* The loss cascade *)

\* Mutant: Core absorbs a loss first.
HitCoreFirst(v, loss) ==
    LET core  == Lesser(loss, tranche[v]["Core"].assets)
        alpha == Lesser(loss - core, tranche[v]["Alpha"].assets)
        prime == Lesser(loss - alpha - core, tranche[v]["Prime"].assets)
    IN  [k \in Kinds |-> CASE k = "Prime" -> prime
                           [] k = "Core"  -> core
                           [] k = "Alpha" -> alpha]

\* Alpha absorbs a loss first, then Core, then Prime.
Hit(v, loss) ==
    LET alpha == Lesser(loss, tranche[v]["Alpha"].assets)
        core  == Lesser(loss - alpha, tranche[v]["Core"].assets)
        prime == Lesser(loss - alpha - core, tranche[v]["Prime"].assets)
    IN  [k \in Kinds |-> CASE k = "Prime" -> prime
                           [] k = "Core"  -> core
                           [] k = "Alpha" -> alpha]

\* Mutants: the NAV is not refreshed; cumulative_loss is overwritten.
WriteDownStale(t, hit) ==
    [t EXCEPT !.assets = t.assets - hit, !.loss = SaturatingAdd(t.loss, hit)]

WriteDownOverwrites(t, hit) ==
    [Reprice(t, t.assets - hit, t.supply) EXCEPT !.loss = hit]

WriteDown(t, hit) ==
    [Reprice(t, t.assets - hit, t.supply)
        EXCEPT !.loss = SaturatingAdd(t.loss, hit)]

\* The block trigger_credit_event, verify_encrypt_default and
\* liquidate_collateral share: write the tranches down, log the event, let it
\* set the vault's state, and move the loss to the bucket.
Cascade(v, kind, loss) ==
    /\ IsActive(v)
    /\ AllLive(v)
    /\ FitsU64(TotalAssets(v))
    /\ loss <= TotalAssets(v)
    /\ Len(eventLog[v]) < MaxEvents
    /\ tranche' = [tranche EXCEPT ![v] =
                      [k \in Kinds |-> WriteDown(@[k], Hit(v, loss)[k])]]
    /\ eventLog' = [eventLog EXCEPT ![v] =
                       Append(@, [kind |-> kind, loss |-> loss])]
    /\ vault' = [vault EXCEPT ![v].state =
                    CASE kind = "Default"     -> "Defaulted"
                      [] kind = "Recovery"    -> "Active"
                      [] kind = "PartialLoss" -> @]
    /\ lossBucket' = [lossBucket EXCEPT ![v] = @ + loss]

TriggerCreditEvent(v, kind, loss) ==
    /\ Cascade(v, kind, loss)
    /\ UNCHANGED <<paused, now, ptoken, loan, gates, usdc>>

-----------------------------------------------------------------------------
(* Loans *)

\* Mutant: a loan may be initialised again.
InitLoanAgain(v, l, principal) ==
    /\ vault[v].state # "None"
    /\ loan' = [loan EXCEPT ![l] = [state |-> "Originated", vault |-> v,
                                    principal |-> principal, repaid |-> 0]]
    /\ UNCHANGED <<paused, now, ledger, gates, usdc>>

InitLoan(v, l, principal) ==
    /\ vault[v].state # "None"
    /\ ~Exists(l)
    /\ loan' = [loan EXCEPT ![l] = [state |-> "Originated", vault |-> v,
                                    principal |-> principal, repaid |-> 0]]
    /\ UNCHANGED <<paused, now, ledger, gates, usdc>>

\* Only a Pending collateral record holds a loan back.
DisburseLoan(v, l) ==
    /\ IsActive(v)
    /\ Exists(l)
    /\ loan[l].vault = v
    /\ collateral[l] # "Pending"
    /\ loan[l].state = "Originated"
    /\ loan[l].principal <= pool
    /\ FitsU64(vault[v].loaned + loan[l].principal)
    /\ pool' = pool - loan[l].principal
    /\ outside' = outside + loan[l].principal
    /\ loan' = [loan EXCEPT ![l].state = "Active"]
    /\ vault' = [vault EXCEPT ![v].loaned = @ + loan[l].principal]
    /\ UNCHANGED <<paused, now, tranche, ptoken, eventLog, lossBucket, gates,
                   seeded>>

\* A repayment goes to the pool; neither vault nor tranches hear of it.
RepayLoan(l, amount) ==
    LET total == loan[l].repaid + amount
    IN  /\ Exists(l)
        /\ loan[l].state \in {"Active", "Repaying"}
        /\ amount <= outside
        /\ FitsU64(total)
        /\ pool' = pool + amount
        /\ outside' = outside - amount
        /\ loan' = [loan EXCEPT
                       ![l].repaid = total,
                       ![l].state = IF total >= loan[l].principal
                                    THEN "Repaid" ELSE "Repaying"]
        /\ UNCHANGED <<paused, now, ledger, gates, seeded>>

-----------------------------------------------------------------------------
(* Collateral and Encrypt records *)

AttachCollateral(l) ==
    /\ Exists(l)
    /\ loan[l].state \in {"Originated", "Active"}
    /\ collateral[l] \in {"None", "Pending"}
    /\ collateral' = [collateral EXCEPT ![l] = "Pending"]
    /\ UNCHANGED <<paused, now, ledger, loan, encrypt, usdc>>

VerifyCollateral(l) ==
    /\ collateral[l] = "Pending"
    /\ collateral' = [collateral EXCEPT ![l] = "Attached"]
    /\ UNCHANGED <<paused, now, ledger, loan, encrypt, usdc>>

ReleaseCollateral(l) ==
    /\ collateral[l] = "Attached"
    /\ collateral' = [collateral EXCEPT ![l] = "Released"]
    /\ UNCHANGED <<paused, now, ledger, loan, encrypt, usdc>>

\* The cascade falls on the loan's vault; the loan itself keeps its state.
LiquidateCollateral(l, loss) ==
    /\ collateral[l] = "Attached"
    /\ Exists(l)
    /\ Cascade(loan[l].vault, "Default", loss)
    /\ collateral' = [collateral EXCEPT ![l] = "Liquidated"]
    /\ UNCHANGED <<paused, now, ptoken, loan, encrypt, usdc>>

AttachEncryptScore(l) ==
    /\ Exists(l)
    /\ loan[l].state \in {"Originated", "Active"}
    /\ encrypt[l] # "DefaultProven"
    /\ encrypt' = [encrypt EXCEPT ![l] = "Pending"]
    /\ UNCHANGED <<paused, now, ledger, loan, collateral, usdc>>

\* The caller names the vault that takes the loss; it need not be the loan's.
VerifyEncryptDefault(v, l, loss) ==
    /\ encrypt[l] \notin {"None", "DefaultProven"}
    /\ Cascade(v, "Default", loss)
    /\ encrypt' = [encrypt EXCEPT ![l] = "DefaultProven"]
    /\ UNCHANGED <<paused, now, ptoken, loan, collateral, usdc>>

-----------------------------------------------------------------------------
(* Soroswap and the clock *)

\* USDC and pTokens of the contract go into a Soroswap pair, which takes none
\* of the one without some of the other.  The pTokens keep circulating there
\* and traders may take the USDC out again.
SeedPoolLiquidity(v, k, used) ==
    /\ ~paused
    /\ tranche[v][k].live
    /\ ptoken[v][k] > 0
    /\ used <= pool
    /\ pool' = pool - used
    /\ outside' = outside + used
    /\ seeded' = seeded + used
    /\ UNCHANGED <<paused, now, ledger, loan, gates>>

Tick ==
    /\ now < MaxTime
    /\ now' = now + 1
    /\ UNCHANGED <<paused, ledger, loan, gates, usdc>>

AdminStep ==
    \/ Pause
    \/ Unpause
    \/ \E v \in Vaults : InitVault(v)
    \/ \E v \in Vaults, k \in Kinds : InitTranche(v, k)

InvestorStep ==
    \E v \in Vaults, k \in Kinds :
        \/ \E amount \in Amounts : Deposit(v, k, amount)
        \/ \E shares \in 0 .. ptoken[v][k] : Withdraw(v, k, shares)
        \/ \E used \in Amounts : SeedPoolLiquidity(v, k, used)

WaterfallStep ==
    \E v \in Vaults, amount \in Amounts :
        \/ AccrueYield(v, amount)
        \/ \E kind \in EventKinds : TriggerCreditEvent(v, kind, amount)

LoanStep ==
    \E l \in Loans :
        \/ \E v \in Vaults, principal \in Amounts : InitLoan(v, l, principal)
        \/ \E v \in Vaults : DisburseLoan(v, l)
        \/ \E amount \in Amounts : RepayLoan(l, amount)

GateStep ==
    \E l \in Loans :
        \/ AttachCollateral(l)
        \/ VerifyCollateral(l)
        \/ ReleaseCollateral(l)
        \/ AttachEncryptScore(l)
        \/ \E loss \in Amounts :
              \/ LiquidateCollateral(l, loss)
              \/ \E v \in Vaults : VerifyEncryptDefault(v, l, loss)

Next ==
    AdminStep \/ InvestorStep \/ WaterfallStep \/ LoanStep \/ GateStep \/ Tick

Spec == Init /\ [][Next]_vars

-----------------------------------------------------------------------------
(* Type and safety invariants *)

\* Every record has the shape and the width of its type in state.rs, and USDC
\* is neither made nor lost by a transfer.
TypeOK ==
    /\ paused \in BOOLEAN
    /\ now \in Nat
    /\ vault \in [Vaults -> VaultRecord]
    /\ tranche \in [Vaults -> [Kinds -> TrancheRecord]]
    /\ ptoken \in [Vaults -> [Kinds -> Nat]]
    /\ loan \in [Loans -> LoanRecord \cup {NoLoan}]
    /\ collateral \in [Loans -> {"None", "Pending", "Attached", "Released", "Liquidated"}]
    /\ encrypt \in [Loans -> {"None", "Pending", "Verified", "DefaultProven"}]
    /\ eventLog \in [Vaults -> Seq(CreditEvent)]
    /\ lossBucket \in [Vaults -> Nat]
    /\ pool \in Nat /\ outside \in Nat /\ seeded \in Nat
    /\ pool + outside = InitialUsdc

\* The NAV on record is the NAV of the totals on record, after whatever
\* deposits, withdrawals, yield and losses: nobody trades at a stale price.
NavFresh ==
    \A v \in Vaults, k \in Kinds :
        LET t == tranche[v][k] IN t.nav = ComputeNav(t.assets, t.supply)

\* total_supply is the circulating pTokens: no saturating subtraction of a
\* withdrawal ever lost a share.
SupplyBacked ==
    \A v \in Vaults, k \in Kinds : tranche[v][k].supply = ptoken[v][k]

\* What a tranche owes its holders at NAV is within its own assets, so that no
\* withdrawal saturates total_assets and eats into another tranche.
PayoutCovered ==
    \A v \in Vaults, k \in Kinds :
        LET t == tranche[v][k]
        IN  WithdrawPayout(ptoken[v][k], t.nav) <= t.assets

\* The loss bucket is the sum of the logged losses: the event log alone
\* reproduces it.  It is also what the tranches wrote down, as long as no
\* cumulative_loss saturated.
LossLedger ==
    \A v \in Vaults :
        /\ lossBucket[v] =
              Total([i \in 1 .. Len(eventLog[v]) |-> eventLog[v][i].loss])
        /\ (\A k \in Kinds : tranche[v][k].loss < MaxU64) =>
              lossBucket[v] = tranche[v]["Prime"].loss
                                + tranche[v]["Core"].loss
                                + tranche[v]["Alpha"].loss

\* A Default is the last event of its vault, and a vault is Defaulted exactly
\* when its log ends in one: three entry points can fire it, only one ever does.
DefaultClosesLog ==
    \A v \in Vaults :
        LET last == Len(eventLog[v])
        IN  /\ \A i \in 1 .. last :
                  eventLog[v][i].kind = "Default" => i = last
            /\ vault[v].state = "Defaulted" <=>
                  last > 0 /\ eventLog[v][last].kind = "Default"

Disbursed(l) == Exists(l) /\ loan[l].state # "Originated"

Lent(l, v) ==
    IF Disbursed(l) /\ loan[l].vault = v THEN loan[l].principal ELSE 0

\* total_loaned is the principal of the vault's disbursed loans.
LoanBook ==
    \A v \in Vaults : vault[v].loaned = Total([l \in Loans |-> Lent(l, v)])

Claims(v) == TotalAssets(v) + lossBucket[v]
Repaid(l) == IF Exists(l) THEN loan[l].repaid ELSE 0

\* The reserve identity, loans included: the USDC in the contract, with what
\* was lent or seeded, is what the tranches and the loss buckets claim and
\* what borrowers have repaid.
ReserveIdentity ==
    pool + seeded + Total([v \in Vaults |-> vault[v].loaned])
        = Total([v \in Vaults |-> Claims(v)]) + Total([l \in Loans |-> Repaid(l)])

Owed(v) ==
    WithdrawPayout(ptoken[v]["Prime"], tranche[v]["Prime"].nav)
        + WithdrawPayout(ptoken[v]["Core"], tranche[v]["Core"].nav)
        + WithdrawPayout(ptoken[v]["Alpha"], tranche[v]["Alpha"].nav)

Outstanding(l) ==
    IF Disbursed(l) THEN SaturatingSub(loan[l].principal, loan[l].repaid) ELSE 0

\* A withdrawal finds too little USDC in the contract only while some of it is
\* out on a loan or in a Soroswap pair.  With that added, the USDC pays all
\* holders of all vaults at once and still leaves the loss buckets whole.
WithdrawalsFunded ==
    Total([v \in Vaults |-> Owed(v) + lossBucket[v]])
        <= pool + seeded + Total([l \in Loans |-> Outstanding(l)])

-----------------------------------------------------------------------------
(* What a step may never do *)

LossInOrder ==
    \A v \in Vaults :
        LET grew(k) == tranche'[v][k].loss > tranche[v][k].loss
            wiped(k) == tranche'[v][k].assets = 0
        IN  /\ grew("Core") => wiped("Alpha")
            /\ grew("Prime") => wiped("Alpha") /\ wiped("Core")

\* A loss reaches Core only in a step that leaves Alpha with nothing, and
\* Prime only in one that leaves both with nothing.
Seniority == [][LossInOrder]_vars

YieldInOrder ==
    \A v \in Vaults :
        LET earned(k) == IF ptoken'[v][k] = ptoken[v][k]
                         THEN tranche'[v][k].assets - tranche[v][k].assets
                         ELSE 0
        IN  vault'[v].lastYield > vault[v].lastYield /\ vault[v].state = "Active" =>
              /\ earned("Core") > 0 => earned("Prime") = Target(v, "Prime")
              /\ earned("Alpha") > 0 => /\ earned("Prime") = Target(v, "Prime")
                                        /\ earned("Core") = Target(v, "Core")

\* Yield reaches a tranche only in a step that gives every senior tranche all
\* its time-weighted target.
YieldSeniority == [][YieldInOrder]_vars

NavFalls ==
    \A v \in Vaults, k \in Kinds :
        LET t == tranche[v][k]
            u == tranche'[v][k]
        IN  u.supply > 0 /\ u.nav < t.nav =>
              \/ u.assets < t.assets /\ lossBucket'[v] > lossBucket[v]
              \/ u.assets > t.assets /\ u.supply > t.supply

\* As long as somebody holds the tranche, its NAV falls only in a step that
\* writes down its assets, or by the rounding of a deposit: no withdrawal,
\* yield, loan or repayment takes from those who stay.
NavFallsOnlyByLoss == [][NavFalls]_vars

RoundTripPays ==
    \A v \in Vaults, k \in Kinds :
        LET t == tranche[v][k]
            u == tranche'[v][k]
            bought == ptoken'[v][k] - ptoken[v][k]
        IN  bought > 0 /\ (t.supply > 0 \/ t.assets = 0) =>
              WithdrawPayout(bought, u.nav) <= u.assets - t.assets

\* Buying and selling back at once returns at most what was paid, at the NAV
\* that the purchase leaves: whatever rounding gives goes to the others.  Not
\* so if nobody held the tranche and yield had been booked to it.
RoundTripNeverGains == [][RoundTripPays]_vars

DefaultedStays ==
    \A v \in Vaults : vault[v].state = "Defaulted" =>
        /\ vault'[v].state = "Defaulted"
        /\ vault'[v].loaned = vault[v].loaned
        /\ eventLog'[v] = eventLog[v]
        /\ \A k \in Kinds :
              /\ tranche'[v][k].assets <= tranche[v][k].assets
              /\ tranche'[v][k].supply <= tranche[v][k].supply

\* A defaulted vault is closed for good: it stays Defaulted, logs no event,
\* lends nothing, and its tranches only shrink.
DefaultIsFinal == [][DefaultedStays]_vars

\* Before a loan is drawn on a vault, none is closed to it.
GateOpen(l) == Exists(l) => vault[loan[l].vault].state = "Active"

Gates(l) == INSTANCE LoanGates
            WITH loan <- loan[l].state, record <- collateral[l], open <- GateOpen(l)

\* Whatever is done to other loans, to tranches and to vaults, to each loan on
\* its own the contract keeps to the gates that pages, routes and watchers
\* count on, of which they see no more than this.
ImplementsLoanGates ==
    /\ \A l \in Loans : Gates(l)!Init
    /\ [][\A l \in Loans : [Gates(l)!Next]_(Gates(l)!vars)]_vars
=============================================================================
