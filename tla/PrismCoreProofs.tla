--------------------------- MODULE PrismCoreProofs ---------------------------
(***************************************************************************)
(* Theorems of PrismCore for every set of vaults and loans, every scale,   *)
(* width and bound.                                                        *)
(*                                                                         *)
(* First the share arithmetic, the types, what each step writes, and what  *)
(* follows from that alone: the event log, the loss ledger and the order   *)
(* of the waterfalls.                                                      *)
(*                                                                         *)
(* Then the accounting: prices are fresh, shares are backed, payouts are   *)
(* covered, and the reserve identity holds across all vaults.  The four    *)
(* hold together.  The identity needs a withdrawal not to saturate, which  *)
(* needs the payout to be within the tranche's assets, which needs a fresh *)
(* NAV and a supply that is what circulates.  On them rest the loan book,  *)
(* what a defaulted vault may still do, and who may gain or lose by a      *)
(* trade.  Last, what the contract is to one loan (LoanGates).             *)
(***************************************************************************)
EXTENDS PrismCore, UnitSumsProofs, Integers

-----------------------------------------------------------------------------
(* The share arithmetic *)

\* The quotient of a truncating division, by its two bounds.
LEMMA DivBounds ==
    ASSUME NEW a \in Nat, NEW b \in Nat, b > 0
    PROVE  /\ a \div b \in Nat
           /\ (a \div b) * b <= a
           /\ a < (a \div b) * b + b
  BY SMT

\* Multiplying by a natural preserves the order.
LEMMA MultMonotone ==
    ASSUME NEW a \in Nat, NEW b \in Nat, NEW c \in Nat, a <= b
    PROVE  a * c <= b * c
  BY SMT

\* A NAV is a natural, and the assets carry it.
LEMMA NavBound ==
    ASSUME NEW assets \in Nat, NEW supply \in Nat
    PROVE  /\ ComputeNav(assets, supply) \in Nat
           /\ supply > 0 => ComputeNav(assets, supply) * supply <= assets * QOne
<1>1. CASE supply = 0
  BY <1>1 DEF ComputeNav
<1>2. CASE supply > 0
  <2>1. assets * QOne \in Nat
    BY MathAssumption
  <2>2. ComputeNav(assets, supply) = (assets * QOne) \div supply
    BY <1>2 DEF ComputeNav
  <2> QED BY <1>2, <2>1, <2>2, DivBounds
<1> QED BY <1>1, <1>2

\* A payout is a natural worth no more than the shares at the NAV.
LEMMA PayoutBound ==
    ASSUME NEW shares \in Nat, NEW nav \in Nat
    PROVE  /\ WithdrawPayout(shares, nav) \in Nat
           /\ WithdrawPayout(shares, nav) * QOne <= shares * nav
<1>1. shares * nav \in Nat
  OBVIOUS
<1> QED BY <1>1, MathAssumption, DivBounds DEF WithdrawPayout

\* Dividing two products by a common positive factor keeps their order.
LEMMA CancelFactor ==
    ASSUME NEW a \in Nat, NEW b \in Nat, NEW c \in Nat, c > 0, a * c <= b * c
    PROVE  a <= b
  BY SMT

\* Whatever part of the shares leaves, the tranche has the assets to pay it.
THEOREM PayoutWithinAssets ==
    ASSUME NEW assets \in Nat, NEW supply \in Nat,
           NEW shares \in Nat, shares <= supply
    PROVE  WithdrawPayout(shares, ComputeNav(assets, supply)) <= assets
<1> DEFINE nav == ComputeNav(assets, supply)
           payout == WithdrawPayout(shares, nav)
<1>1. nav \in Nat /\ payout \in Nat /\ payout * QOne <= shares * nav
  BY NavBound, PayoutBound
<1>2. CASE supply = 0
  <2>1. shares = 0 /\ nav = 0
    BY <1>2 DEF ComputeNav
  <2>2. payout * QOne <= 0 * QOne
    BY <1>1, <2>1, MathAssumption
  <2> QED BY <1>1, <2>2, CancelFactor, MathAssumption
<1>3. CASE supply > 0
  <2>1. nav * supply <= assets * QOne
    BY <1>3, NavBound
  <2>2. shares * nav <= supply * nav
    BY <1>1, MultMonotone
  <2>3. supply * nav = nav * supply
    BY <1>1
  <2> HIDE DEF nav, payout
  <2>4. payout * QOne <= assets * QOne
    <3>1. /\ payout * QOne \in Nat /\ shares * nav \in Nat
          /\ supply * nav \in Nat /\ assets * QOne \in Nat
      BY <1>1, MathAssumption
    <3> QED BY <1>1, <2>1, <2>2, <2>3, <3>1
  <2> QED BY <1>1, <2>4, CancelFactor, MathAssumption DEF payout, nav
<1> QED BY <1>2, <1>3

\* A quotient is at least every natural whose multiple fits.
LEMMA DivAtLeast ==
    ASSUME NEW n \in Nat, NEW a \in Nat, NEW b \in Nat, b > 0, n * b <= a
    PROVE  n <= a \div b
<1> DEFINE q == a \div b
<1>1. q \in Nat /\ a < q * b + b
  BY DivBounds
<1> HIDE DEF q
<1>2. n * b < (q + 1) * b
  <2>1. (q + 1) * b = q * b + b
    BY <1>1
  <2>2. n * b \in Nat /\ q * b + b \in Nat
    BY <1>1
  <2> QED BY <1>1, <2>1, <2>2
<1>3. SUFFICES ASSUME n >= q + 1 PROVE FALSE
  BY <1>1 DEF q
<1>4. (q + 1) * b <= n * b
  BY <1>1, <1>3, MultMonotone
<1> QED
  <2>1. n * b \in Nat /\ (q + 1) * b \in Nat
    BY <1>1
  <2> QED BY <1>2, <1>4, <2>1

\* Holders who leave never lower the NAV of those who stay, however the
\* payout is rounded (math.rs: withdraw_payout and compute_nav_q).
THEOREM LeavingNeverLowersNav ==
    ASSUME NEW assets \in Nat, NEW supply \in Nat,
           NEW shares \in Nat, shares < supply,
           NEW payout, payout = WithdrawPayout(shares, ComputeNav(assets, supply))
    PROVE  ComputeNav(assets, supply) <= ComputeNav(assets - payout, supply - shares)
<1> DEFINE nav == ComputeNav(assets, supply)
<1>1. /\ nav \in Nat /\ payout \in Nat
      /\ payout * QOne <= shares * nav
      /\ nav * supply <= assets * QOne
      /\ payout <= assets
  <2>1. nav \in Nat /\ nav * supply <= assets * QOne
    BY NavBound
  <2>2. payout \in Nat /\ payout * QOne <= shares * nav
    BY <2>1, PayoutBound
  <2>3. shares <= supply
    OBVIOUS
  <2>4. payout <= assets
    BY <2>3, PayoutWithinAssets
  <2> QED BY <2>1, <2>2, <2>4
<1>2. ComputeNav(assets - payout, supply - shares)
        = ((assets - payout) * QOne) \div (supply - shares)
  BY DEF ComputeNav
<1> HIDE DEF nav
<1>3. /\ assets - payout \in Nat /\ supply - shares \in Nat /\ supply - shares > 0
      /\ (assets - payout) * QOne \in Nat
  BY <1>1, MathAssumption
<1>4. nav * (supply - shares) <= (assets - payout) * QOne
  <2>1. /\ nav * (supply - shares) = nav * supply - shares * nav
        /\ (assets - payout) * QOne = assets * QOne - payout * QOne
    BY <1>1, MathAssumption
  <2>2. /\ nav * supply \in Nat /\ shares * nav \in Nat
        /\ assets * QOne \in Nat /\ payout * QOne \in Nat
    BY <1>1, MathAssumption
  <2> QED BY <1>1, <2>1, <2>2
<1> QED BY <1>1, <1>2, <1>3, <1>4, DivAtLeast DEF nav

\* Selling shares back at the NAV right after a deposit never returns more
\* than was deposited, unless the tranche had assets but no holder before
\* (math.rs: deposit_shares, compute_nav_q and withdraw_payout).
THEOREM RoundTripBound ==
    ASSUME NEW assets \in Nat, NEW supply \in Nat, NEW amount \in Nat,
           supply > 0 \/ assets = 0,
           DepositPriced(amount, ComputeNav(assets, supply), supply),
           NEW shares,
           shares = DepositShares(amount, ComputeNav(assets, supply), supply)
    PROVE  WithdrawPayout(shares, ComputeNav(assets + amount, supply + shares))
               <= amount
<1>1. CASE supply = 0
  <2>1. shares = amount /\ assets = 0
    BY <1>1 DEF DepositShares
  <2>2. supply + shares = shares /\ assets + amount = amount
    BY <1>1, <2>1
  <2> QED BY <2>1, <2>2, PayoutWithinAssets
<1>2. CASE supply > 0
  <2> DEFINE nav == ComputeNav(assets, supply)
             after == ComputeNav(assets + amount, supply + shares)
             payout == WithdrawPayout(shares, after)
  <2>1. nav \in Nat /\ nav > 0
    BY <1>2, NavBound DEF DepositPriced
  <2>2. shares \in Nat /\ shares * nav <= amount * QOne
    <3>1. amount * QOne \in Nat /\ shares = (amount * QOne) \div nav
      BY <1>2, MathAssumption DEF DepositShares
    <3> QED BY <2>1, <3>1, DivBounds
  <2>3. assets * QOne < nav * supply + supply
    <3>1. assets * QOne \in Nat /\ nav = (assets * QOne) \div supply
      BY <1>2, MathAssumption DEF ComputeNav
    <3> QED BY <1>2, <3>1, DivBounds
  <2>4. /\ after \in Nat /\ payout \in Nat
        /\ payout * QOne <= shares * after
        /\ after * (supply + shares) <= (assets + amount) * QOne
    <3>1. assets + amount \in Nat /\ supply + shares \in Nat /\ supply + shares > 0
      BY <1>2, <2>2
    <3>2. after \in Nat /\ after * (supply + shares) <= (assets + amount) * QOne
      BY <3>1, NavBound
    <3>3. payout \in Nat /\ payout * QOne <= shares * after
      BY <2>2, <3>2, PayoutBound
    <3> QED BY <3>2, <3>3
  <2> HIDE DEF nav, after, payout
  <2>5. /\ shares * after \in Nat /\ shares * nav \in Nat /\ amount * QOne \in Nat
        /\ assets * QOne \in Nat /\ after * supply \in Nat /\ nav * supply \in Nat
        /\ payout * QOne \in Nat
    BY <2>1, <2>2, <2>4, MathAssumption
  <2>6. shares * after <= amount * QOne
    <3>1. CASE after <= nav
      <4>1. after * shares <= nav * shares
        BY <2>1, <2>2, <2>4, <3>1, MultMonotone
      <4>2. after * shares = shares * after /\ nav * shares = shares * nav
        BY <2>1, <2>2, <2>4
      <4> QED BY <2>2, <2>5, <4>1, <4>2
    <3>2. CASE after >= nav + 1
      <4>1. (nav + 1) * supply <= after * supply
        BY <2>1, <2>4, <3>2, MultMonotone
      <4>2. /\ (nav + 1) * supply = nav * supply + supply
            /\ after * (supply + shares) = after * supply + shares * after
            /\ (assets + amount) * QOne = assets * QOne + amount * QOne
        BY <2>1, <2>2, <2>4, MathAssumption
      <4> QED BY <2>3, <2>4, <2>5, <4>1, <4>2
    <3> QED BY <2>1, <2>4, <3>1, <3>2
  <2>7. payout * QOne <= amount * QOne
    BY <2>4, <2>5, <2>6
  <2> QED BY <2>4, <2>7, CancelFactor, MathAssumption DEF payout, after
<1> QED BY <1>1, <1>2

-----------------------------------------------------------------------------
(* The helpers *)

\* A repriced tranche record is well formed, and says what it should.
LEMMA RepriceType ==
    ASSUME NEW t \in TrancheRecord, NEW assets \in U64, NEW supply \in U64
    PROVE  /\ Reprice(t, assets, supply) \in TrancheRecord
           /\ Reprice(t, assets, supply).assets = assets
           /\ Reprice(t, assets, supply).supply = supply
           /\ Reprice(t, assets, supply).nav = ComputeNav(assets, supply)
           /\ Reprice(t, assets, supply).live = t.live
           /\ Reprice(t, assets, supply).loss = t.loss
<1>1. ComputeNav(assets, supply) \in Nat
  BY NavBound DEF U64
<1> QED BY <1>1 DEF Reprice, TrancheRecord

\* The three kinds, and the fields of a tranche on record.
LEMMA KindsAre ==
    /\ "Prime" \in Kinds /\ "Core" \in Kinds /\ "Alpha" \in Kinds
    /\ \A k \in Kinds : k = "Prime" \/ k = "Core" \/ k = "Alpha"
  BY DEF Kinds

LEMMA TrancheFields ==
    ASSUME TypeOK, NEW v \in Vaults, NEW k \in Kinds
    PROVE  /\ tranche[v] \in [Kinds -> TrancheRecord]
           /\ tranche[v][k] \in TrancheRecord
           /\ tranche[v][k].assets \in U64 /\ tranche[v][k].supply \in U64
           /\ tranche[v][k].loss \in U64 /\ tranche[v][k].nav \in Nat
           /\ tranche[v][k].yield \in U64
           /\ tranche[v][k].assets \in Nat /\ tranche[v][k].supply \in Nat
<1>1. tranche[v] \in [Kinds -> TrancheRecord]
  BY DEF TypeOK
<1>2. tranche[v][k] \in TrancheRecord
  BY <1>1
<1> QED BY <1>1, <1>2 DEF TrancheRecord, U64

\* The target of a tranche is a natural.
LEMMA TargetType ==
    ASSUME TypeOK, NEW v \in Vaults, NEW k \in Kinds
    PROVE  Target(v, k) \in Nat
<1>1. tranche[v][k].assets \in Nat /\ Apy[k] \in Nat /\ Elapsed(v) \in Nat
  BY CoreAssumption DEF TypeOK, TrancheRecord, VaultRecord, U64, Elapsed, SaturatingSub
<1>2. tranche[v][k].assets * Apy[k] * Elapsed(v) \in Nat
  BY <1>1
<1>3. Target(v, k) = (tranche[v][k].assets * Apy[k] * Elapsed(v)) \div YearBps
  BY DEF Target, YieldTarget
<1>4. YearBps \in Nat /\ YearBps > 0
  BY MathAssumption
<1> QED BY <1>2, <1>3, <1>4, DivBounds

\* The yield waterfall hands out exactly what was paid in.
LEMMA TakeSums ==
    ASSUME TypeOK, NEW v \in Vaults, NEW amount \in Nat
    PROVE  LET take == YieldTake(v, amount)
           IN  /\ take \in [Kinds -> Nat]
               /\ take["Prime"] + take["Core"] + take["Alpha"] = amount
<1>1. Target(v, "Prime") \in Nat /\ Target(v, "Core") \in Nat
  BY TargetType, KindsAre
<1> QED BY <1>1 DEF YieldTake, Lesser, Kinds

\* The loss waterfall takes no more from a tranche than it has, and a loss
\* within the total assets is absorbed exactly.
LEMMA HitSums ==
    ASSUME TypeOK, NEW v \in Vaults, NEW loss \in Nat
    PROVE  LET hit == Hit(v, loss)
           IN  /\ hit \in [Kinds -> Nat]
               /\ \A k \in Kinds : hit[k] <= tranche[v][k].assets
               /\ loss <= TotalAssets(v) =>
                     hit["Prime"] + hit["Core"] + hit["Alpha"] = loss
<1> DEFINE A == tranche[v]["Alpha"].assets
           C == tranche[v]["Core"].assets
           P == tranche[v]["Prime"].assets
           alpha == Lesser(loss, A)
           core == Lesser(loss - alpha, C)
           prime == Lesser(loss - alpha - core, P)
<1>1. A \in Nat /\ C \in Nat /\ P \in Nat
  BY TrancheFields, KindsAre
<1>2. /\ Hit(v, loss) = [k \in Kinds |-> CASE k = "Prime" -> prime
                                          [] k = "Core"  -> core
                                          [] k = "Alpha" -> alpha]
      /\ TotalAssets(v) = P + C + A
  BY DEF Hit, TotalAssets
<1>3. /\ Hit(v, loss)["Prime"] = prime
      /\ Hit(v, loss)["Core"] = core
      /\ Hit(v, loss)["Alpha"] = alpha
  <2> HIDE DEF prime, core, alpha
  <2> QED BY <1>2, KindsAre
<1> HIDE DEF A, C, P
<1>4. /\ prime \in Nat /\ core \in Nat /\ alpha \in Nat
      /\ prime <= P /\ core <= C /\ alpha <= A
      /\ loss <= P + C + A => prime + core + alpha = loss
  BY <1>1 DEF Lesser
<1> HIDE DEF prime, core, alpha
<1>5. Hit(v, loss) \in [Kinds -> Nat]
  BY <1>2, <1>3, <1>4, KindsAre
<1>6. \A k \in Kinds : Hit(v, loss)[k] <= tranche[v][k].assets
  BY <1>3, <1>4, KindsAre DEF A, C, P
<1> QED BY <1>2, <1>3, <1>4, <1>5, <1>6

\* Crediting yield to a tranche keeps it well formed.
LEMMA EarnType ==
    ASSUME NEW t \in TrancheRecord, NEW take \in Nat, EarnFits(t, take)
    PROVE  LET u == Earn(t, take)
           IN  /\ u \in TrancheRecord
               /\ u.assets = t.assets + take /\ u.supply = t.supply
               /\ u.nav = ComputeNav(u.assets, u.supply)
               /\ u.live = t.live /\ u.loss = t.loss
<1>1. t.assets \in U64 /\ t.supply \in U64 /\ t.yield \in U64
  BY DEF TrancheRecord
<1>2. t.assets + take \in U64 /\ t.yield + take \in U64
  BY <1>1 DEF EarnFits, FitsU64, U64
<1> DEFINE more == t.assets + take
           r == Reprice(t, more, t.supply)
<1>3. /\ r \in TrancheRecord
      /\ r.assets = more /\ r.supply = t.supply
      /\ r.nav = ComputeNav(more, t.supply)
      /\ r.live = t.live /\ r.loss = t.loss
  <2>1. more \in U64 /\ more \in Nat /\ t.supply \in Nat
    BY <1>1, <1>2 DEF U64
  <2> HIDE DEF more
  <2>2. ComputeNav(more, t.supply) \in Nat
    BY <2>1, NavBound
  <2> QED BY <1>1, <2>1, <2>2 DEF Reprice, TrancheRecord
<1>4. Earn(t, take) = [r EXCEPT !.yield = t.yield + take]
  BY DEF Earn
<1> HIDE DEF r, more
<1>5. PICK y \in U64 : y = t.yield + take
  BY <1>2
<1>6. Earn(t, take) = [r EXCEPT !.yield = y]
  BY <1>4, <1>5
<1>7. /\ Earn(t, take) \in TrancheRecord
      /\ Earn(t, take).assets = more /\ Earn(t, take).supply = t.supply
      /\ Earn(t, take).nav = ComputeNav(more, t.supply)
      /\ Earn(t, take).live = t.live /\ Earn(t, take).loss = t.loss
  BY <1>3, <1>6 DEF TrancheRecord
<1> QED BY <1>7 DEF more

\* Writing a tranche down keeps it well formed.
LEMMA WriteDownType ==
    ASSUME NEW t \in TrancheRecord, NEW hit \in Nat, hit <= t.assets
    PROVE  LET u == WriteDown(t, hit)
           IN  /\ u \in TrancheRecord
               /\ u.assets = t.assets - hit /\ u.supply = t.supply
               /\ u.nav = ComputeNav(u.assets, u.supply)
               /\ u.loss = SaturatingAdd(t.loss, hit) /\ u.live = t.live
<1>1. t.assets \in U64 /\ t.supply \in U64 /\ t.loss \in U64
  BY DEF TrancheRecord
<1>2. t.assets - hit \in U64 /\ SaturatingAdd(t.loss, hit) \in U64
  BY <1>1, MathAssumption DEF U64, SaturatingAdd, Lesser
<1> DEFINE left == t.assets - hit
           r == Reprice(t, left, t.supply)
<1>3. /\ r \in TrancheRecord
      /\ r.assets = left /\ r.supply = t.supply
      /\ r.nav = ComputeNav(left, t.supply)
      /\ r.loss = t.loss /\ r.live = t.live
  <2>1. left \in U64 /\ left \in Nat /\ t.supply \in Nat
    BY <1>1, <1>2 DEF U64
  <2> HIDE DEF left
  <2>2. ComputeNav(left, t.supply) \in Nat
    BY <2>1, NavBound
  <2> QED BY <1>1, <2>1, <2>2 DEF Reprice, TrancheRecord
<1>4. WriteDown(t, hit) = [r EXCEPT !.loss = SaturatingAdd(t.loss, hit)]
  BY DEF WriteDown
<1> HIDE DEF r
<1> QED BY <1>2, <1>3, <1>4 DEF TrancheRecord

\* The fields of a vault on record.
LEMMA VaultFields ==
    ASSUME TypeOK, NEW v \in Vaults
    PROVE  /\ vault[v] \in VaultRecord
           /\ vault[v].deposits \in U64 /\ vault[v].deposits \in Nat
           /\ vault[v].loaned \in U64 /\ vault[v].loaned \in Nat
           /\ vault[v].lastYield \in Nat
<1>1. vault[v] \in VaultRecord
  BY DEF TypeOK
<1> QED BY <1>1 DEF VaultRecord, U64

\* The fields of a loan on record.
LEMMA LoanFields ==
    ASSUME TypeOK, NEW l \in Loans, Exists(l)
    PROVE  /\ loan[l] \in LoanRecord
           /\ loan[l].vault \in Vaults
           /\ loan[l].principal \in U64 /\ loan[l].principal \in Nat
           /\ loan[l].repaid \in U64 /\ loan[l].repaid \in Nat
<1>1. loan[l] \in LoanRecord
  BY DEF TypeOK, Exists, NoLoan
<1> QED BY <1>1 DEF LoanRecord, U64

\* A step that reprices one tranche and leaves the others alone.
Repriced(v, k, assets, supply) ==
    /\ tranche'[v][k].assets = assets
    /\ tranche'[v][k].supply = supply
    /\ tranche'[v][k].nav = ComputeNav(assets, supply)
    /\ tranche'[v][k].live = tranche[v][k].live
    /\ tranche'[v][k].loss = tranche[v][k].loss
    /\ \A w \in Vaults, j \in Kinds :
          w # v \/ j # k => tranche'[w][j] = tranche[w][j]

LEMMA RepriceOne ==
    ASSUME TypeOK, NEW v \in Vaults, NEW k \in Kinds,
           NEW assets \in U64, NEW supply \in U64,
           tranche' = [tranche EXCEPT ![v][k] =
                          Reprice(tranche[v][k], assets, supply)]
    PROVE  /\ tranche' \in [Vaults -> [Kinds -> TrancheRecord]]
           /\ Repriced(v, k, assets, supply)
<1> DEFINE t == Reprice(tranche[v][k], assets, supply)
<1>1. /\ t \in TrancheRecord
      /\ t.assets = assets /\ t.supply = supply
      /\ t.nav = ComputeNav(assets, supply)
      /\ t.live = tranche[v][k].live
      /\ t.loss = tranche[v][k].loss
  <2>1. tranche[v][k] \in TrancheRecord
    BY TrancheFields
  <2> QED BY <2>1, RepriceType
<1>2. tranche \in [Vaults -> [Kinds -> TrancheRecord]]
  BY DEF TypeOK
<1>3. tranche' = [tranche EXCEPT ![v][k] = t]
  OBVIOUS
<1> HIDE DEF t
<1>4. tranche'[v][k] = t
  BY <1>2, <1>3
<1>5. tranche' \in [Vaults -> [Kinds -> TrancheRecord]]
  BY <1>1, <1>2, <1>3
<1>6. \A w \in Vaults, j \in Kinds :
          w # v \/ j # k => tranche'[w][j] = tranche[w][j]
  BY <1>2, <1>3
<1> QED BY <1>1, <1>4, <1>5, <1>6 DEF Repriced

\* A step that replaces the whole row of a vault and leaves the others alone.
LEMMA ReplaceRow ==
    ASSUME TypeOK, NEW v \in Vaults, NEW row \in [Kinds -> TrancheRecord],
           tranche' = [tranche EXCEPT ![v] = row]
    PROVE  /\ tranche' \in [Vaults -> [Kinds -> TrancheRecord]]
           /\ tranche'[v] = row
           /\ \A w \in Vaults : w # v => tranche'[w] = tranche[w]
  BY DEF TypeOK

\* A step that reprices the row of a vault and mints or burns no share.
RowRepriced(v) ==
    /\ \A k \in Kinds :
          /\ tranche'[v][k].supply = tranche[v][k].supply
          /\ tranche'[v][k].live = tranche[v][k].live
          /\ tranche'[v][k].nav =
                ComputeNav(tranche'[v][k].assets, tranche'[v][k].supply)
    /\ \A w \in Vaults : w # v => tranche'[w] = tranche[w]

\* What an accrual does to the tranches of its vault, and to no other.
LEMMA AccrueEffect ==
    ASSUME TypeOK, NEW v \in Vaults, NEW amount \in U64, AccrueYield(v, amount)
    PROVE  /\ tranche' \in [Vaults -> [Kinds -> TrancheRecord]]
           /\ RowRepriced(v)
           /\ \A k \in Kinds : tranche'[v][k].assets =
                 tranche[v][k].assets + YieldTake(v, amount)[k]
           /\ \A k \in Kinds : tranche'[v][k].loss = tranche[v][k].loss
<1> DEFINE take == YieldTake(v, amount)
           rec(k) == Earn(tranche[v][k], take[k])
           row == [k \in Kinds |-> rec(k)]
<1>1. take \in [Kinds -> Nat]
  BY TakeSums DEF U64
<1>2. ASSUME NEW k \in Kinds
      PROVE  /\ rec(k) \in TrancheRecord
             /\ rec(k).assets = tranche[v][k].assets + take[k]
             /\ rec(k).supply = tranche[v][k].supply
             /\ rec(k).live = tranche[v][k].live
             /\ rec(k).loss = tranche[v][k].loss
             /\ rec(k).nav = ComputeNav(rec(k).assets, rec(k).supply)
  <2>1. tranche[v][k] \in TrancheRecord
    BY TrancheFields
  <2>2. take[k] \in Nat
    BY <1>1
  <2>3. EarnFits(tranche[v][k], take[k])
    BY DEF AccrueYield
  <2> HIDE DEF take
  <2> QED BY <2>1, <2>2, <2>3, EarnType
<1>3. tranche' = [tranche EXCEPT ![v] = row]
  BY DEF AccrueYield
<1> HIDE DEF rec, take
<1>4. row \in [Kinds -> TrancheRecord] /\ \A k \in Kinds : row[k] = rec(k)
  BY <1>2
<1> HIDE DEF row
<1>5. /\ tranche' \in [Vaults -> [Kinds -> TrancheRecord]]
      /\ tranche'[v] = row
      /\ \A w \in Vaults : w # v => tranche'[w] = tranche[w]
  BY <1>3, <1>4, ReplaceRow
<1> QED BY <1>2, <1>4, <1>5 DEF take, RowRepriced

\* What the loss cascade does to the tranches of its vault, and to no other.
LEMMA CascadeEffect ==
    ASSUME TypeOK, NEW v \in Vaults, NEW kind \in EventKinds, NEW loss \in U64,
           Cascade(v, kind, loss)
    PROVE  /\ tranche' \in [Vaults -> [Kinds -> TrancheRecord]]
           /\ RowRepriced(v)
           /\ \A k \in Kinds : tranche'[v][k].assets =
                 tranche[v][k].assets - Hit(v, loss)[k]
           /\ \A k \in Kinds : tranche'[v][k].loss =
                 SaturatingAdd(tranche[v][k].loss, Hit(v, loss)[k])
<1> DEFINE hit == Hit(v, loss)
           rec(k) == WriteDown(tranche[v][k], hit[k])
           row == [k \in Kinds |-> rec(k)]
<1>1. hit \in [Kinds -> Nat] /\ \A k \in Kinds : hit[k] <= tranche[v][k].assets
  BY HitSums DEF U64
<1>2. tranche' = [tranche EXCEPT ![v] = row]
  BY DEF Cascade
<1> HIDE DEF hit
<1>3. ASSUME NEW k \in Kinds
      PROVE  /\ rec(k) \in TrancheRecord
             /\ rec(k).assets = tranche[v][k].assets - hit[k]
             /\ rec(k).supply = tranche[v][k].supply
             /\ rec(k).live = tranche[v][k].live
             /\ rec(k).loss = SaturatingAdd(tranche[v][k].loss, hit[k])
             /\ rec(k).nav = ComputeNav(rec(k).assets, rec(k).supply)
  <2>1. tranche[v][k] \in TrancheRecord
    BY TrancheFields
  <2>2. hit[k] \in Nat /\ hit[k] <= tranche[v][k].assets
    BY <1>1
  <2> QED BY <2>1, <2>2, WriteDownType
<1> HIDE DEF rec
<1>4. row \in [Kinds -> TrancheRecord] /\ \A k \in Kinds : row[k] = rec(k)
  BY <1>3
<1> HIDE DEF row
<1>5. /\ tranche' \in [Vaults -> [Kinds -> TrancheRecord]]
      /\ tranche'[v] = row
      /\ \A w \in Vaults : w # v => tranche'[w] = tranche[w]
  BY <1>2, <1>4, ReplaceRow
<1> QED BY <1>3, <1>4, <1>5 DEF hit, RowRepriced

-----------------------------------------------------------------------------
(* The type invariant *)

\* A vault record keeps its shape when its counters or its state are set.
LEMMA VaultUpdate ==
    ASSUME TypeOK, NEW v \in Vaults, NEW r \in VaultRecord,
           vault' = [vault EXCEPT ![v] = r]
    PROVE  /\ vault' \in [Vaults -> VaultRecord]
           /\ vault'[v] = r
           /\ \A w \in Vaults : w # v => vault'[w] = vault[w]
  BY DEF TypeOK

\* Saturating operations stay within the width.
LEMMA SaturatingType ==
    ASSUME NEW a \in U64, NEW b \in Nat
    PROVE  SaturatingSub(a, b) \in U64 /\ SaturatingAdd(a, b) \in U64
  BY MathAssumption DEF U64, SaturatingSub, SaturatingAdd, Lesser

\* A priced deposit mints a natural number of shares.
LEMMA SharesType ==
    ASSUME NEW amount \in Nat, NEW nav \in Nat, NEW supply \in Nat,
           DepositPriced(amount, nav, supply)
    PROVE  DepositShares(amount, nav, supply) \in Nat
<1>1. CASE supply = 0
  BY <1>1 DEF DepositShares
<1>2. CASE supply # 0
  <2>1. nav > 0
    BY <1>2 DEF DepositPriced
  <2>2. amount * QOne \in Nat
    BY MathAssumption
  <2> QED BY <1>2, <2>1, <2>2, DivBounds DEF DepositShares
<1> QED BY <1>1, <1>2

LEMMA AdminType ==
    ASSUME TypeOK, AdminStep
    PROVE  TypeOK'
<1>1. CASE Pause
  BY <1>1 DEF TypeOK, Pause, ledger, gates, usdc
<1>2. CASE Unpause
  BY <1>2 DEF TypeOK, Unpause, ledger, gates, usdc
<1>3. ASSUME NEW v \in Vaults, InitVault(v) PROVE TypeOK'
  <2>1. [NoVault EXCEPT !.state = "Active", !.lastYield = now] \in VaultRecord
    <3>1. 0 \in U64 /\ now \in Nat
      BY MathAssumption DEF TypeOK, U64
    <3>2. NoVault \in VaultRecord
      BY <3>1 DEF NoVault, VaultRecord
    <3> QED BY <3>1, <3>2 DEF VaultRecord
  <2>2. vault' \in [Vaults -> VaultRecord]
    BY <1>3, <2>1, VaultUpdate DEF InitVault
  <2> QED BY <1>3, <2>2 DEF TypeOK, InitVault, gates, usdc
<1>4. ASSUME NEW v \in Vaults, NEW k \in Kinds, InitTranche(v, k) PROVE TypeOK'
  <2>1. [NoTranche EXCEPT !.live = TRUE] \in TrancheRecord
    <3>1. 0 \in U64
      BY MathAssumption DEF U64
    <3>2. NoTranche \in TrancheRecord
      BY <3>1 DEF NoTranche, TrancheRecord
    <3> QED BY <3>2 DEF TrancheRecord
  <2>2. tranche' \in [Vaults -> [Kinds -> TrancheRecord]]
    BY <1>4, <2>1 DEF TypeOK, InitTranche
  <2> QED BY <1>4, <2>2 DEF TypeOK, InitTranche, gates, usdc
<1> QED BY <1>1, <1>2, <1>3, <1>4 DEF AdminStep

\* A deposit reprices one tranche at its grown totals.
LEMMA DepositEffect ==
    ASSUME TypeOK, NEW v \in Vaults, NEW k \in Kinds, NEW amount \in U64,
           Deposit(v, k, amount)
    PROVE  LET t == tranche[v][k]
               shares == DepositShares(amount, t.nav, t.supply)
           IN  /\ shares \in Nat
               /\ t.assets + amount \in U64 /\ t.supply + shares \in U64
               /\ vault[v].deposits + amount \in U64
<1> DEFINE t == tranche[v][k]
           shares == DepositShares(amount, t.nav, t.supply)
<1>1. /\ t.nav \in Nat /\ t.supply \in Nat /\ t.assets \in Nat
      /\ vault[v].deposits \in Nat /\ amount \in Nat
  BY TrancheFields, VaultFields DEF U64
<1>2. /\ DepositPriced(amount, t.nav, t.supply)
      /\ FitsU64(t.assets + amount) /\ FitsU64(t.supply + shares)
      /\ FitsU64(vault[v].deposits + amount)
  BY DEF Deposit
<1> HIDE DEF t
<1>3. shares \in Nat
  BY <1>1, <1>2, SharesType
<1> HIDE DEF shares
<1>4. /\ t.assets + amount \in U64 /\ t.supply + shares \in U64
      /\ vault[v].deposits + amount \in U64
  BY <1>1, <1>2, <1>3, MathAssumption DEF FitsU64, U64
<1> QED BY <1>3, <1>4 DEF t, shares

\* USDC that moves between the contract and the others is conserved.
LEMMA MoveIn ==
    ASSUME TypeOK, NEW amount \in Nat, amount <= outside,
           pool' = pool + amount, outside' = outside - amount
    PROVE  pool' \in Nat /\ outside' \in Nat /\ pool' + outside' = InitialUsdc
  BY DEF TypeOK

LEMMA MoveOut ==
    ASSUME TypeOK, NEW amount \in Nat, amount <= pool,
           pool' = pool - amount, outside' = outside + amount
    PROVE  pool' \in Nat /\ outside' \in Nat /\ pool' + outside' = InitialUsdc
  BY DEF TypeOK

LEMMA DepositType ==
    ASSUME TypeOK, NEW v \in Vaults, NEW k \in Kinds, NEW amount \in U64,
           Deposit(v, k, amount)
    PROVE  TypeOK'
<1> DEFINE t == tranche[v][k]
           shares == DepositShares(amount, t.nav, t.supply)
<1>1. /\ shares \in Nat
      /\ t.assets + amount \in U64 /\ t.supply + shares \in U64
      /\ vault[v].deposits + amount \in U64
  BY DepositEffect
<1>2. /\ tranche' = [tranche EXCEPT ![v][k] =
                        Reprice(t, t.assets + amount, t.supply + shares)]
      /\ ptoken' = [ptoken EXCEPT ![v][k] = @ + shares]
      /\ vault' = [vault EXCEPT ![v].deposits = @ + amount]
      /\ pool' = pool + amount /\ outside' = outside - amount
      /\ amount <= outside
      /\ UNCHANGED <<paused, now, eventLog, lossBucket, loan, gates, seeded>>
  BY DEF Deposit
<1> HIDE DEF t, shares
<1>3. tranche' \in [Vaults -> [Kinds -> TrancheRecord]]
  BY <1>1, <1>2, RepriceOne DEF t
<1>4. ptoken' \in [Vaults -> [Kinds -> Nat]]
  BY <1>1, <1>2 DEF TypeOK
<1>5. vault' \in [Vaults -> VaultRecord]
  BY <1>1, <1>2 DEF TypeOK, VaultRecord
<1>6. pool' \in Nat /\ outside' \in Nat /\ pool' + outside' = InitialUsdc
  BY <1>2, MoveIn DEF U64
<1> QED BY <1>2, <1>3, <1>4, <1>5, <1>6 DEF TypeOK, gates

\* A withdrawal reprices one tranche at totals still within their width.
LEMMA WithdrawEffect ==
    ASSUME TypeOK, NEW v \in Vaults, NEW k \in Kinds, NEW shares \in Nat,
           Withdraw(v, k, shares)
    PROVE  LET t == tranche[v][k]
               payout == WithdrawPayout(shares, t.nav)
           IN  /\ payout \in Nat
               /\ SaturatingSub(t.assets, payout) \in U64
               /\ SaturatingSub(t.supply, shares) \in U64
               /\ SaturatingSub(vault[v].deposits, payout) \in U64
<1> DEFINE t == tranche[v][k]
           payout == WithdrawPayout(shares, t.nav)
<1>1. t.nav \in Nat /\ t.supply \in U64 /\ t.assets \in U64
  BY TrancheFields
<1>2. vault[v].deposits \in U64
  BY VaultFields
<1>3. payout \in Nat
  BY <1>1, PayoutBound
<1> HIDE DEF payout, t
<1>4. SaturatingSub(t.assets, payout) \in U64
  BY <1>1, <1>3, SaturatingType
<1>5. SaturatingSub(t.supply, shares) \in U64
  BY <1>1, SaturatingType
<1>6. SaturatingSub(vault[v].deposits, payout) \in U64
  BY <1>2, <1>3, SaturatingType
<1> QED BY <1>3, <1>4, <1>5, <1>6 DEF payout, t

LEMMA WithdrawType ==
    ASSUME TypeOK, NEW v \in Vaults, NEW k \in Kinds, NEW shares \in Nat,
           Withdraw(v, k, shares)
    PROVE  TypeOK'
<1> DEFINE t == tranche[v][k]
           payout == WithdrawPayout(shares, t.nav)
           assets == SaturatingSub(t.assets, payout)
           supply == SaturatingSub(t.supply, shares)
           deposits == SaturatingSub(vault[v].deposits, payout)
<1>1. /\ payout \in Nat
      /\ assets \in U64 /\ supply \in U64 /\ deposits \in U64
  BY WithdrawEffect
<1>2. /\ tranche' = [tranche EXCEPT ![v][k] = Reprice(t, assets, supply)]
      /\ ptoken' = [ptoken EXCEPT ![v][k] = @ - shares]
      /\ vault' = [vault EXCEPT ![v].deposits = deposits]
      /\ pool' = pool - payout /\ outside' = outside + payout
      /\ payout <= pool /\ shares <= ptoken[v][k]
      /\ UNCHANGED <<paused, now, eventLog, lossBucket, loan, gates, seeded>>
  BY DEF Withdraw
<1> HIDE DEF payout, assets, supply, deposits, t
<1>3. tranche' \in [Vaults -> [Kinds -> TrancheRecord]]
  BY <1>1, <1>2, RepriceOne DEF t
<1>4. ptoken' \in [Vaults -> [Kinds -> Nat]]
  <2>1. ptoken[v][k] \in Nat /\ ptoken[v][k] - shares \in Nat
    BY <1>2 DEF TypeOK
  <2> QED BY <1>2, <2>1 DEF TypeOK
<1>5. vault' \in [Vaults -> VaultRecord]
  BY <1>1, <1>2 DEF TypeOK, VaultRecord
<1>6. pool' \in Nat /\ outside' \in Nat /\ pool' + outside' = InitialUsdc
  BY <1>1, <1>2, MoveOut
<1> QED BY <1>2, <1>3, <1>4, <1>5, <1>6 DEF TypeOK, gates

LEMMA SeedType ==
    ASSUME TypeOK, NEW v \in Vaults, NEW k \in Kinds, NEW used \in Nat,
           SeedPoolLiquidity(v, k, used)
    PROVE  TypeOK'
<1>1. pool' \in Nat /\ outside' \in Nat /\ pool' + outside' = InitialUsdc
  BY MoveOut DEF SeedPoolLiquidity
<1> QED BY <1>1 DEF TypeOK, SeedPoolLiquidity, ledger, gates

LEMMA AccrueType ==
    ASSUME TypeOK, NEW v \in Vaults, NEW amount \in U64, AccrueYield(v, amount)
    PROVE  TypeOK'
<1>1. tranche' \in [Vaults -> [Kinds -> TrancheRecord]]
  BY AccrueEffect
<1>2. vault' \in [Vaults -> VaultRecord]
  BY DEF TypeOK, AccrueYield, VaultRecord
<1>3. pool' \in Nat /\ outside' \in Nat /\ pool' + outside' = InitialUsdc
  BY MoveIn DEF AccrueYield, U64
<1> QED BY <1>1, <1>2, <1>3 DEF TypeOK, AccrueYield, gates

\* What the cascade does to the vault's record, log and bucket.
LEMMA CascadeBooks ==
    ASSUME TypeOK, NEW v \in Vaults, NEW kind \in EventKinds, NEW loss \in U64,
           Cascade(v, kind, loss)
    PROVE  /\ vault' \in [Vaults -> VaultRecord]
           /\ vault'[v].state # "None"
           /\ vault'[v].loaned = vault[v].loaned
           /\ \A w \in Vaults : w # v => vault'[w] = vault[w]
           /\ eventLog' \in [Vaults -> Seq(CreditEvent)]
           /\ lossBucket' \in [Vaults -> Nat]
           /\ lossBucket'[v] = lossBucket[v] + loss
           /\ \A w \in Vaults : w # v => lossBucket'[w] = lossBucket[w]
<1> DEFINE state == CASE kind = "Default"     -> "Defaulted"
                      [] kind = "Recovery"    -> "Active"
                      [] kind = "PartialLoss" -> vault[v].state
           r == [vault[v] EXCEPT !.state = state]
<1>1. state \in {"Active", "Defaulted", "Resolved"}
  <2>1. vault[v].state = "Active"
    BY DEF Cascade, IsActive
  <2> QED BY <2>1 DEF EventKinds
<1>2. vault' = [vault EXCEPT ![v] = r]
  BY DEF Cascade
<1> HIDE DEF state
<1>3. r \in VaultRecord /\ r.loaned = vault[v].loaned /\ r.state # "None"
  <2>1. vault[v] \in VaultRecord
    BY DEF TypeOK
  <2> QED BY <1>1, <2>1 DEF VaultRecord
<1> HIDE DEF r
<1>4. /\ vault' \in [Vaults -> VaultRecord]
      /\ vault'[v].state # "None"
      /\ vault'[v].loaned = vault[v].loaned
      /\ \A w \in Vaults : w # v => vault'[w] = vault[w]
  <2>1. /\ vault' \in [Vaults -> VaultRecord]
        /\ vault'[v] = r
        /\ \A w \in Vaults : w # v => vault'[w] = vault[w]
    BY <1>2, <1>3, VaultUpdate
  <2> QED BY <1>3, <2>1
<1>5. eventLog' \in [Vaults -> Seq(CreditEvent)]
  <2>1. [kind |-> kind, loss |-> loss] \in CreditEvent
    BY DEF CreditEvent, U64
  <2>2. Append(eventLog[v], [kind |-> kind, loss |-> loss]) \in Seq(CreditEvent)
    BY <2>1 DEF TypeOK
  <2> QED BY <2>2 DEF TypeOK, Cascade
<1>6. /\ lossBucket' \in [Vaults -> Nat]
      /\ lossBucket'[v] = lossBucket[v] + loss
      /\ \A w \in Vaults : w # v => lossBucket'[w] = lossBucket[w]
  BY DEF TypeOK, Cascade, U64
<1> QED BY <1>4, <1>5, <1>6

\* The three entry points of the cascade, and what else they write.
LEMMA CascadeType ==
    ASSUME TypeOK, NEW v \in Vaults, NEW kind \in EventKinds, NEW loss \in U64,
           Cascade(v, kind, loss),
           UNCHANGED <<paused, now, ptoken, loan, usdc>>,
           collateral' \in [Loans -> {"None", "Pending", "Attached", "Released", "Liquidated"}],
           encrypt' \in [Loans -> {"None", "Pending", "Verified", "DefaultProven"}]
    PROVE  TypeOK'
<1>1. tranche' \in [Vaults -> [Kinds -> TrancheRecord]]
  BY CascadeEffect
<1>2. /\ vault' \in [Vaults -> VaultRecord]
      /\ eventLog' \in [Vaults -> Seq(CreditEvent)]
      /\ lossBucket' \in [Vaults -> Nat]
  BY CascadeBooks
<1> QED BY <1>1, <1>2 DEF TypeOK, usdc

LEMMA LoanUpdate ==
    ASSUME TypeOK, NEW l \in Loans, NEW r \in LoanRecord,
           loan' = [loan EXCEPT ![l] = r]
    PROVE  loan' \in [Loans -> LoanRecord \cup {NoLoan}]
  BY DEF TypeOK

LEMMA LoanType ==
    ASSUME TypeOK, LoanStep
    PROVE  TypeOK'
<1>1. ASSUME NEW l \in Loans, NEW v \in Vaults, NEW principal \in Amounts,
             InitLoan(v, l, principal)
      PROVE  TypeOK'
  <2>1. [state |-> "Originated", vault |-> v, principal |-> principal,
         repaid |-> 0] \in LoanRecord
    BY MathAssumption, CoreAssumption DEF LoanRecord, U64
  <2>2. loan' \in [Loans -> LoanRecord \cup {NoLoan}]
    BY <1>1, <2>1, LoanUpdate DEF InitLoan
  <2> QED BY <1>1, <2>2 DEF TypeOK, InitLoan, ledger, gates, usdc
<1>2. ASSUME NEW l \in Loans, NEW v \in Vaults, DisburseLoan(v, l)
      PROVE  TypeOK'
  <2>1. /\ loan[l] \in LoanRecord
        /\ loan[l].principal \in U64 /\ loan[l].principal \in Nat
    BY <1>2, LoanFields DEF DisburseLoan
  <2>2. loan' \in [Loans -> LoanRecord \cup {NoLoan}]
    <3>1. [loan[l] EXCEPT !.state = "Active"] \in LoanRecord
      BY <2>1 DEF LoanRecord
    <3>2. loan' = [loan EXCEPT ![l] = [loan[l] EXCEPT !.state = "Active"]]
      BY <1>2 DEF DisburseLoan
    <3> QED BY <3>1, <3>2, LoanUpdate
  <2>3. vault' \in [Vaults -> VaultRecord]
    <3>1. vault[v].loaned + loan[l].principal \in U64
      BY <1>2, <2>1, VaultFields, MathAssumption DEF DisburseLoan, FitsU64, U64
    <3>2. vault' = [vault EXCEPT ![v] =
                      [vault[v] EXCEPT !.loaned = vault[v].loaned + loan[l].principal]]
      BY <1>2 DEF DisburseLoan
    <3>3. [vault[v] EXCEPT !.loaned = vault[v].loaned + loan[l].principal]
              \in VaultRecord
      BY <3>1, VaultFields DEF VaultRecord
    <3> QED BY <3>2, <3>3, VaultUpdate
  <2>4. pool' \in Nat /\ outside' \in Nat /\ pool' + outside' = InitialUsdc
    BY <1>2, <2>1, MoveOut DEF DisburseLoan
  <2> QED BY <1>2, <2>2, <2>3, <2>4 DEF TypeOK, DisburseLoan, gates
<1>3. ASSUME NEW l \in Loans, NEW amount \in Amounts, RepayLoan(l, amount)
      PROVE  TypeOK'
  <2> DEFINE total == loan[l].repaid + amount
             state == IF total >= loan[l].principal THEN "Repaid" ELSE "Repaying"
  <2>1. amount \in Nat
    BY CoreAssumption DEF U64
  <2>2. loan[l] \in LoanRecord /\ loan[l].repaid \in Nat
    BY <1>3, LoanFields DEF RepayLoan
  <2>3. total \in U64
    BY <1>3, <2>1, <2>2, MathAssumption DEF RepayLoan, FitsU64, U64
  <2>4. /\ loan' = [loan EXCEPT ![l] = [loan[l] EXCEPT !.repaid = total,
                                                      !.state = state]]
        /\ state \in {"Repaid", "Repaying"}
    BY <1>3 DEF RepayLoan
  <2> HIDE DEF total, state
  <2>5. [loan[l] EXCEPT !.repaid = total, !.state = state] \in LoanRecord
    <3>1. [loan[l] EXCEPT !.repaid = total] \in LoanRecord
      BY <2>2, <2>3 DEF LoanRecord
    <3> QED BY <2>4, <3>1 DEF LoanRecord
  <2>6. loan' \in [Loans -> LoanRecord \cup {NoLoan}]
    BY <2>4, <2>5, LoanUpdate
  <2>7. pool' \in Nat /\ outside' \in Nat /\ pool' + outside' = InitialUsdc
    BY <1>3, <2>1, MoveIn DEF RepayLoan
  <2> QED BY <1>3, <2>6, <2>7 DEF TypeOK, RepayLoan, ledger, gates
<1> QED BY <1>1, <1>2, <1>3 DEF LoanStep

LEMMA GateType ==
    ASSUME TypeOK, GateStep
    PROVE  TypeOK'
<1>1. ASSUME NEW l \in Loans, AttachCollateral(l) PROVE TypeOK'
  BY <1>1 DEF TypeOK, AttachCollateral, ledger, usdc
<1>2. ASSUME NEW l \in Loans, VerifyCollateral(l) PROVE TypeOK'
  BY <1>2 DEF TypeOK, VerifyCollateral, ledger, usdc
<1>3. ASSUME NEW l \in Loans, ReleaseCollateral(l) PROVE TypeOK'
  BY <1>3 DEF TypeOK, ReleaseCollateral, ledger, usdc
<1>4. ASSUME NEW l \in Loans, AttachEncryptScore(l) PROVE TypeOK'
  BY <1>4 DEF TypeOK, AttachEncryptScore, ledger, usdc
<1>5. ASSUME NEW l \in Loans, NEW loss \in Amounts, LiquidateCollateral(l, loss)
      PROVE  TypeOK'
  <2>1. loss \in U64
    BY CoreAssumption
  <2>2. loan[l].vault \in Vaults
    BY <1>5, LoanFields DEF LiquidateCollateral
  <2>3. /\ Cascade(loan[l].vault, "Default", loss)
        /\ collateral' = [collateral EXCEPT ![l] = "Liquidated"]
        /\ UNCHANGED <<paused, now, ptoken, loan, encrypt, usdc>>
    BY <1>5 DEF LiquidateCollateral
  <2>4. "Default" \in EventKinds
    BY DEF EventKinds
  <2>5. /\ collateral' \in [Loans -> {"None", "Pending", "Attached", "Released", "Liquidated"}]
        /\ encrypt' \in [Loans -> {"None", "Pending", "Verified", "DefaultProven"}]
    BY <2>3 DEF TypeOK
  <2> QED BY <2>1, <2>2, <2>3, <2>4, <2>5, CascadeType
<1>6. ASSUME NEW l \in Loans, NEW loss \in Amounts, NEW v \in Vaults,
             VerifyEncryptDefault(v, l, loss)
      PROVE  TypeOK'
  <2>1. loss \in U64
    BY CoreAssumption
  <2>2. /\ Cascade(v, "Default", loss)
        /\ encrypt' = [encrypt EXCEPT ![l] = "DefaultProven"]
        /\ UNCHANGED <<paused, now, ptoken, loan, collateral, usdc>>
    BY <1>6 DEF VerifyEncryptDefault
  <2>3. "Default" \in EventKinds
    BY DEF EventKinds
  <2>4. /\ collateral' \in [Loans -> {"None", "Pending", "Attached", "Released", "Liquidated"}]
        /\ encrypt' \in [Loans -> {"None", "Pending", "Verified", "DefaultProven"}]
    BY <2>2 DEF TypeOK
  <2> QED BY <2>1, <2>2, <2>3, <2>4, CascadeType
<1> QED BY <1>1, <1>2, <1>3, <1>4, <1>5, <1>6 DEF GateStep

\* The initial records are well formed.
LEMMA InitType ==
    ASSUME Init
    PROVE  TypeOK
<1>1. 0 \in U64
  BY MathAssumption DEF U64
<1>2. NoVault \in VaultRecord
  BY <1>1 DEF NoVault, VaultRecord
<1>3. NoTranche \in TrancheRecord
  BY <1>1 DEF NoTranche, TrancheRecord
<1>4. << >> \in Seq(CreditEvent)
  OBVIOUS
<1>5. vault \in [Vaults -> VaultRecord]
  BY <1>2 DEF Init
<1>6. tranche \in [Vaults -> [Kinds -> TrancheRecord]]
  BY <1>3 DEF Init
<1>7. loan \in [Loans -> LoanRecord \cup {NoLoan}]
  BY DEF Init
<1>8. eventLog \in [Vaults -> Seq(CreditEvent)]
  BY <1>4 DEF Init
<1>9. pool + outside = InitialUsdc /\ outside \in Nat
  BY CoreAssumption DEF Init
<1> QED BY <1>5, <1>6, <1>7, <1>8, <1>9 DEF Init, TypeOK

LEMMA InvestorType ==
    ASSUME TypeOK, InvestorStep
    PROVE  TypeOK'
<1>1. PICK v \in Vaults, k \in Kinds :
          \/ \E amount \in Amounts : Deposit(v, k, amount)
          \/ \E shares \in 0 .. ptoken[v][k] : Withdraw(v, k, shares)
          \/ \E used \in Amounts : SeedPoolLiquidity(v, k, used)
  BY DEF InvestorStep
<1>2. \A amount \in Amounts : amount \in U64 /\ amount \in Nat
  BY CoreAssumption DEF U64
<1>3. CASE \E amount \in Amounts : Deposit(v, k, amount)
  BY <1>2, <1>3, DepositType
<1>4. CASE \E shares \in 0 .. ptoken[v][k] : Withdraw(v, k, shares)
  BY <1>4, WithdrawType
<1>5. CASE \E used \in Amounts : SeedPoolLiquidity(v, k, used)
  BY <1>2, <1>5, SeedType
<1> QED BY <1>1, <1>3, <1>4, <1>5

LEMMA WaterfallType ==
    ASSUME TypeOK, WaterfallStep
    PROVE  TypeOK'
<1>1. PICK v \in Vaults, amount \in Amounts :
          \/ AccrueYield(v, amount)
          \/ \E kind \in EventKinds : TriggerCreditEvent(v, kind, amount)
  BY DEF WaterfallStep
<1>2. amount \in U64
  BY CoreAssumption
<1>3. CASE AccrueYield(v, amount)
  BY <1>2, <1>3, AccrueType
<1>4. ASSUME NEW kind \in EventKinds, TriggerCreditEvent(v, kind, amount)
      PROVE  TypeOK'
  <2>1. /\ Cascade(v, kind, amount)
        /\ UNCHANGED <<paused, now, ptoken, loan, gates, usdc>>
    BY <1>4 DEF TriggerCreditEvent
  <2>2. /\ collateral' \in [Loans -> {"None", "Pending", "Attached", "Released", "Liquidated"}]
        /\ encrypt' \in [Loans -> {"None", "Pending", "Verified", "DefaultProven"}]
    BY <2>1 DEF TypeOK, gates
  <2> QED BY <1>2, <2>1, <2>2, CascadeType
<1> QED BY <1>1, <1>3, <1>4

LEMMA TypeStep ==
    ASSUME TypeOK, [Next]_vars
    PROVE  TypeOK'
<1>1. CASE Tick
  BY <1>1 DEF TypeOK, Tick, ledger, gates, usdc
<1>2. CASE UNCHANGED vars
  BY <1>2 DEF TypeOK, vars, ledger, gates, usdc
<1> QED BY <1>1, <1>2, AdminType, InvestorType, WaterfallType, LoanType, GateType
        DEF Next

\* Every record keeps its shape and width, and USDC is conserved, in every
\* state the contract can reach.
THEOREM TypeCorrect == Spec => []TypeOK
<1>1. Init => TypeOK
  BY InitType
<1>2. TypeOK /\ [Next]_vars => TypeOK'
  BY TypeStep
<1> QED BY <1>1, <1>2, PTL DEF Spec

-----------------------------------------------------------------------------
(* What a step can be, as far as the ledger goes *)

Cascades ==
    \E v \in Vaults, kind \in EventKinds, loss \in U64 :
        Cascade(v, kind, loss) /\ UNCHANGED <<ptoken, loan, usdc>>

LedgerStep ==
    \/ UNCHANGED ledger
    \/ \E v \in Vaults : InitVault(v)
    \/ \E v \in Vaults, k \in Kinds : InitTranche(v, k)
    \/ \E v \in Vaults, k \in Kinds, amount \in U64 : Deposit(v, k, amount)
    \/ \E v \in Vaults, k \in Kinds, shares \in Nat : Withdraw(v, k, shares)
    \/ \E v \in Vaults, amount \in U64 : AccrueYield(v, amount)
    \/ \E v \in Vaults, l \in Loans : DisburseLoan(v, l)
    \/ Cascades

\* Evidence that makes a vault default does so through the cascade.
LEMMA LiquidationCascades ==
    ASSUME TypeOK, NEW l \in Loans, NEW loss \in Amounts,
           LiquidateCollateral(l, loss)
    PROVE  Cascades
<1>1. loan[l].vault \in Vaults /\ loss \in U64 /\ "Default" \in EventKinds
  BY LoanFields, CoreAssumption DEF LiquidateCollateral, EventKinds
<1>2. Cascade(loan[l].vault, "Default", loss) /\ UNCHANGED <<ptoken, loan, usdc>>
  BY DEF LiquidateCollateral
<1> QED BY <1>1, <1>2 DEF Cascades

LEMMA DefaultCascades ==
    ASSUME NEW v \in Vaults, NEW l \in Loans, NEW loss \in Amounts,
           VerifyEncryptDefault(v, l, loss)
    PROVE  Cascades
<1>1. loss \in U64 /\ "Default" \in EventKinds
  BY CoreAssumption DEF EventKinds
<1>2. Cascade(v, "Default", loss) /\ UNCHANGED <<ptoken, loan, usdc>>
  BY DEF VerifyEncryptDefault
<1> QED BY <1>1, <1>2 DEF Cascades

LEMMA StepIs ==
    ASSUME TypeOK, [Next]_vars
    PROVE  LedgerStep
<1>1. CASE AdminStep
  BY <1>1 DEF AdminStep, Pause, Unpause, LedgerStep
<1>2. CASE InvestorStep
  <2>1. \A v \in Vaults, k \in Kinds : ptoken[v][k] \in Nat
    BY DEF TypeOK
  <2>2. \A v \in Vaults, k \in Kinds, used \in Amounts :
            SeedPoolLiquidity(v, k, used) => UNCHANGED ledger
    BY DEF SeedPoolLiquidity
  <2> QED BY <1>2, <2>1, <2>2, CoreAssumption DEF InvestorStep, LedgerStep
<1>3. CASE WaterfallStep
  <2>1. \A v \in Vaults, kind \in EventKinds, amount \in Amounts :
            TriggerCreditEvent(v, kind, amount) => Cascades
    BY CoreAssumption DEF TriggerCreditEvent, Cascades
  <2> QED BY <1>3, <2>1, CoreAssumption DEF WaterfallStep, LedgerStep
<1>4. CASE LoanStep
  <2>1. \A l \in Loans, v \in Vaults, principal \in Amounts :
            InitLoan(v, l, principal) => UNCHANGED ledger
    BY DEF InitLoan
  <2>2. \A l \in Loans, amount \in Amounts : RepayLoan(l, amount) => UNCHANGED ledger
    BY DEF RepayLoan
  <2> QED BY <1>4, <2>1, <2>2 DEF LoanStep, LedgerStep
<1>5. CASE GateStep
  <2>1. \A l \in Loans : \/ AttachCollateral(l) \/ VerifyCollateral(l)
                         \/ ReleaseCollateral(l) \/ AttachEncryptScore(l)
                         => UNCHANGED ledger
    BY DEF AttachCollateral, VerifyCollateral, ReleaseCollateral, AttachEncryptScore
  <2> QED BY <1>5, <2>1, LiquidationCascades, DefaultCascades DEF GateStep, LedgerStep
<1>6. CASE Tick
  BY <1>6 DEF Tick, LedgerStep
<1>7. CASE UNCHANGED vars
  BY <1>7 DEF vars, LedgerStep
<1> QED BY <1>1, <1>2, <1>3, <1>4, <1>5, <1>6, <1>7 DEF Next

-----------------------------------------------------------------------------
(* What each of them writes *)

\* Setting one vault's deposits leaves every state, every total_loaned and
\* every accrual time alone.
LEMMA VaultTouched ==
    ASSUME TypeOK, NEW v \in Vaults, NEW r \in VaultRecord,
           vault' = [vault EXCEPT ![v] = r],
           r.state = vault[v].state, r.loaned = vault[v].loaned,
           r.lastYield = vault[v].lastYield
    PROVE  \A w \in Vaults : /\ vault'[w].state = vault[w].state
                             /\ vault'[w].loaned = vault[w].loaned
                             /\ vault'[w].lastYield = vault[w].lastYield
<1>1. vault'[v] = r /\ \A w \in Vaults : w # v => vault'[w] = vault[w]
  BY VaultUpdate
<1> QED BY <1>1

LEMMA DepositsTouched ==
    ASSUME TypeOK, NEW v \in Vaults, NEW d \in U64,
           vault' = [vault EXCEPT ![v].deposits = d]
    PROVE  \A w \in Vaults : /\ vault'[w].state = vault[w].state
                             /\ vault'[w].loaned = vault[w].loaned
                             /\ vault'[w].lastYield = vault[w].lastYield
<1> DEFINE r == [vault[v] EXCEPT !.deposits = d]
<1>1. /\ r \in VaultRecord /\ r.state = vault[v].state
      /\ r.loaned = vault[v].loaned /\ r.lastYield = vault[v].lastYield
  <2>1. vault[v] \in VaultRecord
    BY VaultFields
  <2> QED BY <2>1 DEF VaultRecord
<1>2. vault' = [vault EXCEPT ![v] = r]
  OBVIOUS
<1> HIDE DEF r
<1> QED BY <1>1, <1>2, VaultTouched

LEMMA InitVaultWrites ==
    ASSUME TypeOK, NEW v \in Vaults, InitVault(v)
    PROVE  /\ vault[v].state = "None"
           /\ vault'[v].state = "Active" /\ vault'[v].loaned = 0
           /\ \A w \in Vaults : w # v => vault'[w] = vault[w]
           /\ UNCHANGED <<tranche, ptoken, eventLog, lossBucket, loan>>
<1> DEFINE r == [NoVault EXCEPT !.state = "Active", !.lastYield = now]
<1>1. /\ vault' = [vault EXCEPT ![v] = r] /\ vault[v].state = "None"
      /\ UNCHANGED <<tranche, ptoken, eventLog, lossBucket, loan>>
  BY DEF InitVault
<1>2. r.state = "Active" /\ r.loaned = 0
  BY DEF NoVault
<1> HIDE DEF r
<1> QED BY <1>1, <1>2 DEF TypeOK

LEMMA InitTrancheWrites ==
    ASSUME TypeOK, NEW v \in Vaults, NEW k \in Kinds, InitTranche(v, k)
    PROVE  /\ ~tranche[v][k].live
           /\ tranche'[v][k] = [NoTranche EXCEPT !.live = TRUE]
           /\ \A w \in Vaults, j \in Kinds :
                 w # v \/ j # k => tranche'[w][j] = tranche[w][j]
           /\ UNCHANGED <<vault, ptoken, eventLog, lossBucket, loan>>
  BY DEF InitTranche, TypeOK

LEMMA DepositWrites ==
    ASSUME TypeOK, NEW v \in Vaults, NEW k \in Kinds, NEW amount \in U64,
           Deposit(v, k, amount)
    PROVE  LET t == tranche[v][k]
               shares == DepositShares(amount, t.nav, t.supply)
           IN  /\ shares \in Nat /\ amount \in Nat
               /\ Repriced(v, k, t.assets + amount, t.supply + shares)
               /\ ptoken'[v][k] = ptoken[v][k] + shares
               /\ \A w \in Vaults, j \in Kinds :
                     w # v \/ j # k => ptoken'[w][j] = ptoken[w][j]
               /\ \A w \in Vaults : /\ vault'[w].state = vault[w].state
                                    /\ vault'[w].loaned = vault[w].loaned
                                    /\ vault'[w].lastYield = vault[w].lastYield
               /\ UNCHANGED <<eventLog, lossBucket, loan>>
<1> DEFINE t == tranche[v][k]
           shares == DepositShares(amount, t.nav, t.supply)
<1>1. /\ shares \in Nat /\ amount \in Nat
      /\ t.assets + amount \in U64 /\ t.supply + shares \in U64
      /\ vault[v].deposits + amount \in U64
  BY DepositEffect DEF U64
<1>2. /\ tranche' = [tranche EXCEPT ![v][k] =
                        Reprice(t, t.assets + amount, t.supply + shares)]
      /\ ptoken' = [ptoken EXCEPT ![v][k] = @ + shares]
      /\ vault' = [vault EXCEPT ![v].deposits = vault[v].deposits + amount]
      /\ UNCHANGED <<eventLog, lossBucket, loan>>
  BY DEF Deposit
<1> HIDE DEF shares
<1>3. Repriced(v, k, t.assets + amount, t.supply + shares)
  BY <1>1, <1>2, RepriceOne
<1>4. /\ ptoken'[v][k] = ptoken[v][k] + shares
      /\ \A w \in Vaults, j \in Kinds :
            w # v \/ j # k => ptoken'[w][j] = ptoken[w][j]
  BY <1>2 DEF TypeOK
<1>5. \A w \in Vaults : /\ vault'[w].state = vault[w].state
                        /\ vault'[w].loaned = vault[w].loaned
                        /\ vault'[w].lastYield = vault[w].lastYield
  BY <1>1, <1>2, DepositsTouched
<1> QED BY <1>1, <1>2, <1>3, <1>4, <1>5 DEF shares

LEMMA WithdrawWrites ==
    ASSUME TypeOK, NEW v \in Vaults, NEW k \in Kinds, NEW shares \in Nat,
           Withdraw(v, k, shares)
    PROVE  LET t == tranche[v][k]
               payout == WithdrawPayout(shares, t.nav)
           IN  /\ payout \in Nat
               /\ Repriced(v, k, SaturatingSub(t.assets, payout),
                                 SaturatingSub(t.supply, shares))
               /\ ptoken'[v][k] = ptoken[v][k] - shares
               /\ \A w \in Vaults, j \in Kinds :
                     w # v \/ j # k => ptoken'[w][j] = ptoken[w][j]
               /\ \A w \in Vaults : /\ vault'[w].state = vault[w].state
                                    /\ vault'[w].loaned = vault[w].loaned
                                    /\ vault'[w].lastYield = vault[w].lastYield
               /\ UNCHANGED <<eventLog, lossBucket, loan>>
<1> DEFINE t == tranche[v][k]
           payout == WithdrawPayout(shares, t.nav)
           assets == SaturatingSub(t.assets, payout)
           supply == SaturatingSub(t.supply, shares)
           deposits == SaturatingSub(vault[v].deposits, payout)
<1>1. payout \in Nat /\ assets \in U64 /\ supply \in U64 /\ deposits \in U64
  BY WithdrawEffect
<1>2. /\ tranche' = [tranche EXCEPT ![v][k] = Reprice(t, assets, supply)]
      /\ ptoken' = [ptoken EXCEPT ![v][k] = @ - shares]
      /\ vault' = [vault EXCEPT ![v].deposits = deposits]
      /\ UNCHANGED <<eventLog, lossBucket, loan>>
  BY DEF Withdraw
<1> HIDE DEF payout, assets, supply, deposits
<1>3. Repriced(v, k, assets, supply)
  BY <1>1, <1>2, RepriceOne
<1>4. /\ ptoken'[v][k] = ptoken[v][k] - shares
      /\ \A w \in Vaults, j \in Kinds :
            w # v \/ j # k => ptoken'[w][j] = ptoken[w][j]
  BY <1>2 DEF TypeOK
<1>5. \A w \in Vaults : /\ vault'[w].state = vault[w].state
                        /\ vault'[w].loaned = vault[w].loaned
                        /\ vault'[w].lastYield = vault[w].lastYield
  BY <1>1, <1>2, DepositsTouched
<1> QED BY <1>1, <1>2, <1>3, <1>4, <1>5 DEF assets, supply, payout

LEMMA AccrueWrites ==
    ASSUME TypeOK, NEW v \in Vaults, NEW amount \in U64, AccrueYield(v, amount)
    PROVE  /\ vault[v].state = "Active"
           /\ vault'[v].state = "Active" /\ vault'[v].loaned = vault[v].loaned
           /\ \A w \in Vaults : w # v => vault'[w] = vault[w]
           /\ UNCHANGED <<ptoken, eventLog, lossBucket, loan>>
<1> DEFINE r == [vault[v] EXCEPT !.lastYield = now]
<1>1. /\ vault' = [vault EXCEPT ![v] = r] /\ vault[v].state = "Active"
      /\ UNCHANGED <<ptoken, eventLog, lossBucket, loan>>
  BY DEF AccrueYield, IsActive
<1>2. r.state = vault[v].state /\ r.loaned = vault[v].loaned
  <2>1. vault[v] \in VaultRecord
    BY VaultFields
  <2> QED BY <2>1 DEF VaultRecord
<1> HIDE DEF r
<1> QED BY <1>1, <1>2 DEF TypeOK

LEMMA DisburseWrites ==
    ASSUME TypeOK, NEW v \in Vaults, NEW l \in Loans, DisburseLoan(v, l)
    PROVE  /\ vault[v].state = "Active" /\ loan[l].principal \in Nat
           /\ vault'[v].state = "Active"
           /\ vault'[v].loaned = vault[v].loaned + loan[l].principal
           /\ vault'[v].lastYield = vault[v].lastYield
           /\ \A w \in Vaults : w # v => vault'[w] = vault[w]
           /\ loan[l].vault = v /\ loan[l].state = "Originated"
           /\ loan'[l].vault = v /\ loan'[l].state = "Active"
           /\ loan'[l].principal = loan[l].principal
           /\ \A m \in Loans : m # l => loan'[m] = loan[m]
           /\ UNCHANGED <<tranche, ptoken, eventLog, lossBucket>>
<1> DEFINE r == [vault[v] EXCEPT !.loaned = vault[v].loaned + loan[l].principal]
           s == [loan[l] EXCEPT !.state = "Active"]
<1>1. /\ vault' = [vault EXCEPT ![v] = r] /\ vault[v].state = "Active"
      /\ loan' = [loan EXCEPT ![l] = s]
      /\ loan[l].vault = v /\ loan[l].state = "Originated"
      /\ UNCHANGED <<tranche, ptoken, eventLog, lossBucket>>
  BY DEF DisburseLoan, IsActive
<1>2. loan[l] \in LoanRecord /\ loan[l].principal \in Nat
  BY LoanFields DEF DisburseLoan
<1>3. /\ r.state = vault[v].state /\ r.lastYield = vault[v].lastYield
      /\ r.loaned = vault[v].loaned + loan[l].principal
  <2>1. vault[v] \in VaultRecord
    BY VaultFields
  <2> QED BY <2>1 DEF VaultRecord
<1>4. s.state = "Active" /\ s.vault = v /\ s.principal = loan[l].principal
  BY <1>1, <1>2 DEF LoanRecord
<1> HIDE DEF r, s
<1>5. vault'[v] = r /\ \A w \in Vaults : w # v => vault'[w] = vault[w]
  BY <1>1 DEF TypeOK
<1>6. loan'[l] = s /\ \A m \in Loans : m # l => loan'[m] = loan[m]
  BY <1>1 DEF TypeOK
<1> QED BY <1>1, <1>2, <1>3, <1>4, <1>5, <1>6

LEMMA CascadeWrites ==
    ASSUME TypeOK, NEW v \in Vaults, NEW kind \in EventKinds, NEW loss \in U64,
           Cascade(v, kind, loss)
    PROVE  /\ vault[v].state = "Active"
           /\ vault'[v].state = IF kind = "Default" THEN "Defaulted" ELSE "Active"
           /\ vault'[v].lastYield = vault[v].lastYield
           /\ \A w \in Vaults : w # v => vault'[w] = vault[w]
           /\ eventLog'[v] = Append(eventLog[v], [kind |-> kind, loss |-> loss])
           /\ \A w \in Vaults : w # v => eventLog'[w] = eventLog[w]
<1> DEFINE state == CASE kind = "Default"     -> "Defaulted"
                      [] kind = "Recovery"    -> "Active"
                      [] kind = "PartialLoss" -> vault[v].state
           r == [vault[v] EXCEPT !.state = state]
           e == [kind |-> kind, loss |-> loss]
<1>1. /\ vault[v].state = "Active"
      /\ vault' = [vault EXCEPT ![v] = r]
      /\ eventLog' = [eventLog EXCEPT ![v] = Append(eventLog[v], e)]
  BY DEF Cascade, IsActive
<1>2. state = IF kind = "Default" THEN "Defaulted" ELSE "Active"
  BY <1>1 DEF EventKinds
<1> HIDE DEF state
<1>3. r.state = state /\ r.lastYield = vault[v].lastYield
  <2>1. vault[v] \in VaultRecord
    BY VaultFields
  <2> QED BY <2>1 DEF VaultRecord
<1> HIDE DEF r, e
<1>4. vault'[v] = r /\ \A w \in Vaults : w # v => vault'[w] = vault[w]
  BY <1>1 DEF TypeOK
<1>5. /\ eventLog'[v] = Append(eventLog[v], e)
      /\ \A w \in Vaults : w # v => eventLog'[w] = eventLog[w]
  BY <1>1 DEF TypeOK
<1> QED BY <1>1, <1>2, <1>3, <1>4, <1>5 DEF e

-----------------------------------------------------------------------------
(* The event log *)

\* DefaultClosesLog of one vault.
LogCloses(state, log) ==
    LET last == Len(log)
    IN  /\ \A i \in 1 .. last : log[i].kind = "Default" => i = last
        /\ state = "Defaulted" <=> last > 0 /\ log[last].kind = "Default"

\* An event may be logged in a vault that is Active, and closes it if it is
\* a default.
LEMMA LogOneMore ==
    ASSUME NEW log \in Seq(CreditEvent), NEW e \in CreditEvent,
           LogCloses("Active", log)
    PROVE  LogCloses(IF e.kind = "Default" THEN "Defaulted" ELSE "Active",
                     Append(log, e))
<1> DEFINE last == Len(log)
           more == Append(log, e)
<1>1. /\ last \in Nat /\ Len(more) = last + 1 /\ more[last + 1] = e
      /\ \A i \in 1 .. last : more[i] = log[i]
  OBVIOUS
<1>2. \A i \in 1 .. last : log[i].kind # "Default"
  BY <1>1 DEF LogCloses
<1> HIDE DEF more, last
<1>3. \A i \in 1 .. (last + 1) : more[i].kind = "Default" => i = last + 1
  BY <1>1, <1>2
<1>4. e.kind = "Default" <=> last + 1 > 0 /\ more[last + 1].kind = "Default"
  BY <1>1
<1> QED BY <1>1, <1>3, <1>4 DEF LogCloses, more

LEMMA LogStep ==
    ASSUME TypeOK, DefaultClosesLog, [Next]_vars
    PROVE  DefaultClosesLog'
<1>1. \A w \in Vaults : LogCloses(vault[w].state, eventLog[w])
  BY DEF DefaultClosesLog, LogCloses
<1>2. SUFFICES \A w \in Vaults : LogCloses(vault'[w].state, eventLog'[w])
  BY DEF DefaultClosesLog, LogCloses
<1>3. ASSUME \A w \in Vaults : vault'[w].state = vault[w].state,
             UNCHANGED eventLog
      PROVE  \A w \in Vaults : LogCloses(vault'[w].state, eventLog'[w])
  BY <1>1, <1>3
<1>4. CASE UNCHANGED ledger
  BY <1>3, <1>4 DEF ledger
<1>5. ASSUME NEW v \in Vaults, InitVault(v)
      PROVE  \A w \in Vaults : LogCloses(vault'[w].state, eventLog'[w])
  <2>1. /\ vault[v].state = "None" /\ vault'[v].state = "Active"
        /\ \A w \in Vaults : w # v => vault'[w] = vault[w]
        /\ eventLog' = eventLog
    BY <1>5, InitVaultWrites
  <2>2. LogCloses("None", eventLog[v])
    BY <1>1, <2>1
  <2>3. LogCloses("Active", eventLog[v])
    BY <2>2 DEF LogCloses
  <2> QED BY <1>1, <2>1, <2>3
<1>6. ASSUME NEW v \in Vaults, NEW k \in Kinds, InitTranche(v, k)
      PROVE  \A w \in Vaults : LogCloses(vault'[w].state, eventLog'[w])
  BY <1>3, <1>6, InitTrancheWrites
<1>7. ASSUME NEW v \in Vaults, NEW k \in Kinds, NEW amount \in U64,
             Deposit(v, k, amount)
      PROVE  \A w \in Vaults : LogCloses(vault'[w].state, eventLog'[w])
  BY <1>3, <1>7, DepositWrites
<1>8. ASSUME NEW v \in Vaults, NEW k \in Kinds, NEW shares \in Nat,
             Withdraw(v, k, shares)
      PROVE  \A w \in Vaults : LogCloses(vault'[w].state, eventLog'[w])
  BY <1>3, <1>8, WithdrawWrites
<1>9. ASSUME NEW v \in Vaults, NEW amount \in U64, AccrueYield(v, amount)
      PROVE  \A w \in Vaults : LogCloses(vault'[w].state, eventLog'[w])
  BY <1>3, <1>9, AccrueWrites
<1>10. ASSUME NEW v \in Vaults, NEW l \in Loans, DisburseLoan(v, l)
       PROVE  \A w \in Vaults : LogCloses(vault'[w].state, eventLog'[w])
  BY <1>3, <1>10, DisburseWrites
<1>11. CASE Cascades
  <2>1. PICK v \in Vaults, kind \in EventKinds, loss \in U64 :
            Cascade(v, kind, loss)
    BY <1>11 DEF Cascades
  <2> DEFINE e == [kind |-> kind, loss |-> loss]
  <2>2. /\ vault[v].state = "Active"
        /\ vault'[v].state = IF e.kind = "Default" THEN "Defaulted" ELSE "Active"
        /\ \A w \in Vaults : w # v => vault'[w] = vault[w]
        /\ eventLog'[v] = Append(eventLog[v], e)
        /\ \A w \in Vaults : w # v => eventLog'[w] = eventLog[w]
    BY <2>1, CascadeWrites
  <2>3. e \in CreditEvent
    BY DEF CreditEvent, U64
  <2>4. eventLog[v] \in Seq(CreditEvent)
    BY DEF TypeOK
  <2> HIDE DEF e
  <2>5. LogCloses(vault'[v].state, eventLog'[v])
    BY <1>1, <2>2, <2>3, <2>4, LogOneMore
  <2> QED BY <1>1, <2>2, <2>5
<1> QED BY <1>4, <1>5, <1>6, <1>7, <1>8, <1>9, <1>10, <1>11, StepIs DEF LedgerStep

\* Three entry points can fire a default, and only one ever does: a default is
\* the last event of its vault, and a vault is Defaulted exactly when its log
\* ends in one.
THEOREM LogCorrect == Spec => []DefaultClosesLog
<1>1. Init => DefaultClosesLog
  BY DEF Init, DefaultClosesLog, NoVault
<1>2. TypeOK /\ DefaultClosesLog /\ [Next]_vars => DefaultClosesLog'
  BY LogStep
<1> QED BY <1>1, <1>2, TypeCorrect, PTL DEF Spec

-----------------------------------------------------------------------------
(* The loss ledger *)

Logged(log) == Total([i \in 1 .. Len(log) |-> log[i].loss])

\* An event adds its loss to what the log amounts to.
LEMMA LoggedOneMore ==
    ASSUME NEW log \in Seq(CreditEvent), NEW e \in CreditEvent
    PROVE  /\ Logged(log) \in Nat
           /\ Logged(Append(log, e)) = Logged(log) + e.loss
<1> DEFINE n == Len(log)
           more == Append(log, e)
           f == [i \in 1 .. n |-> log[i].loss]
           g == [i \in 1 .. (n + 1) |-> more[i].loss]
<1>1. /\ n \in Nat /\ Len(more) = n + 1 /\ more[n + 1] = e
      /\ \A i \in 1 .. n : more[i] = log[i]
      /\ \A i \in 1 .. n : log[i] \in CreditEvent
  OBVIOUS
<1>2. \A i \in 1 .. (n + 1) : more[i] \in CreditEvent
  <2> HIDE DEF n, more
  <2>1. \A i \in 1 .. (n + 1) : i \in 1 .. n \/ i = n + 1
    BY <1>1
  <2> QED BY <1>1, <2>1
<1> HIDE DEF n, more
<1>3. f \in [1 .. n -> Nat] /\ g \in [1 .. (n + 1) -> Nat]
  BY <1>1, <1>2 DEF CreditEvent
<1>4. /\ IsFiniteSet(1 .. n) /\ IsFiniteSet(1 .. (n + 1))
      /\ n + 1 \in 1 .. (n + 1)
      /\ (1 .. (n + 1)) \ {n + 1} = 1 .. n
  <2>1. 1 \in Int /\ n \in Int /\ n + 1 \in Int
    BY <1>1
  <2>2. IsFiniteSet(1 .. n) /\ IsFiniteSet(1 .. (n + 1))
    BY <2>1, FS_Interval
  <2>3. n + 1 \in 1 .. (n + 1) /\ (1 .. (n + 1)) \ {n + 1} = 1 .. n
    BY <1>1
  <2> QED BY <2>2, <2>3
<1>5. [i \in (1 .. (n + 1)) \ {n + 1} |-> g[i]] = f
  BY <1>1, <1>4
<1>6. g[n + 1] = e.loss
  BY <1>1, <1>4
<1>7. /\ Logged(log) = Total(f) /\ Logged(more) = Total(g)
  BY <1>1 DEF Logged, n
<1> HIDE DEF f, g
<1>8. Total(g) = Total([i \in (1 .. (n + 1)) \ {n + 1} |-> g[i]]) + g[n + 1]
  BY <1>3, <1>4, TotalSplit
<1>9. Total(f) \in Nat
  BY <1>3, <1>4, TotalType
<1> QED BY <1>5, <1>6, <1>7, <1>8, <1>9 DEF more

\* LossLedger of one vault, in terms of its bucket, log and losses.
LossesAgree(bucket, log, prime, core, alpha) ==
    /\ bucket = Logged(log)
    /\ prime < MaxU64 /\ core < MaxU64 /\ alpha < MaxU64 =>
          bucket = prime + core + alpha

\* A tranche nobody has created has lost nothing.
LossesStart ==
    \A v \in Vaults, k \in Kinds : ~tranche[v][k].live => tranche[v][k].loss = 0

LedgerInv == LossLedger /\ LossesStart

LEMMA LossLedgerIs ==
    LossLedger <=>
        \A v \in Vaults :
            LossesAgree(lossBucket[v], eventLog[v], tranche[v]["Prime"].loss,
                        tranche[v]["Core"].loss, tranche[v]["Alpha"].loss)
  BY DEF LossLedger, LossesAgree, Logged, Kinds

LEMMA LossLedgerNext ==
    LossLedger' <=>
        \A v \in Vaults :
            LossesAgree(lossBucket'[v], eventLog'[v], tranche'[v]["Prime"].loss,
                        tranche'[v]["Core"].loss, tranche'[v]["Alpha"].loss)
  BY DEF LossLedger, LossesAgree, Logged, Kinds

\* A step that fires no event moves no loss: it may only reset the loss of a
\* tranche it creates.
Quiet ==
    /\ UNCHANGED <<eventLog, lossBucket>>
    /\ \A v \in Vaults, k \in Kinds :
          /\ \/ tranche'[v][k].loss = tranche[v][k].loss
             \/ ~tranche[v][k].live /\ tranche'[v][k].loss = 0
          /\ tranche[v][k].live => tranche'[v][k].live

LEMMA QuietOrCascades ==
    ASSUME TypeOK, [Next]_vars
    PROVE  Quiet \/ Cascades
<1>1. CASE UNCHANGED ledger
  BY <1>1 DEF ledger, Quiet
<1>2. ASSUME NEW v \in Vaults, InitVault(v) PROVE Quiet
  BY <1>2 DEF InitVault, Quiet
<1>3. ASSUME NEW v \in Vaults, NEW k \in Kinds, InitTranche(v, k) PROVE Quiet
  BY <1>3, InitTrancheWrites DEF NoTranche, Quiet
<1>4. ASSUME NEW v \in Vaults, NEW k \in Kinds, NEW amount \in U64,
             Deposit(v, k, amount)
      PROVE  Quiet
  BY <1>4, DepositWrites DEF Repriced, Quiet
<1>5. ASSUME NEW v \in Vaults, NEW k \in Kinds, NEW shares \in Nat,
             Withdraw(v, k, shares)
      PROVE  Quiet
  BY <1>5, WithdrawWrites DEF Repriced, Quiet
<1>6. ASSUME NEW v \in Vaults, NEW amount \in U64, AccrueYield(v, amount)
      PROVE  Quiet
  BY <1>6, AccrueWrites, AccrueEffect DEF RowRepriced, Quiet
<1>7. ASSUME NEW v \in Vaults, NEW l \in Loans, DisburseLoan(v, l) PROVE Quiet
  BY <1>7 DEF DisburseLoan, Quiet
<1> QED BY <1>1, <1>2, <1>3, <1>4, <1>5, <1>6, <1>7, StepIs DEF LedgerStep

\* The cascade moves a loss to the bucket, the log and the tranches alike.
LEMMA CascadeLosses ==
    ASSUME TypeOK, LedgerInv, Cascades
    PROVE  LedgerInv'
<1>1. PICK v \in Vaults, kind \in EventKinds, loss \in U64 : Cascade(v, kind, loss)
  BY DEF Cascades
<1> DEFINE hit == Hit(v, loss)
           e == [kind |-> kind, loss |-> loss]
<1>2. /\ hit["Prime"] \in Nat /\ hit["Core"] \in Nat /\ hit["Alpha"] \in Nat
      /\ hit["Prime"] + hit["Core"] + hit["Alpha"] = loss
      /\ loss \in Nat
  <2>1. loss \in Nat /\ loss <= TotalAssets(v)
    BY <1>1 DEF U64, Cascade
  <2> QED BY <2>1, HitSums, KindsAre
<1>3. /\ RowRepriced(v)
      /\ \A k \in Kinds : tranche'[v][k].loss = SaturatingAdd(tranche[v][k].loss, hit[k])
  BY <1>1, CascadeEffect
<1> HIDE DEF hit
<1>4. /\ eventLog'[v] = Append(eventLog[v], e)
      /\ \A w \in Vaults : w # v => eventLog'[w] = eventLog[w]
      /\ lossBucket'[v] = lossBucket[v] + loss
      /\ \A w \in Vaults : w # v => lossBucket'[w] = lossBucket[w]
  BY <1>1, CascadeWrites, CascadeBooks
<1>5. e \in CreditEvent /\ e.loss = loss
  BY <1>2 DEF CreditEvent
<1> HIDE DEF e
<1>6. Logged(eventLog'[v]) = Logged(eventLog[v]) + loss
  <2>1. eventLog[v] \in Seq(CreditEvent)
    BY DEF TypeOK
  <2> QED BY <1>4, <1>5, <2>1, LoggedOneMore
<1> DEFINE Saturates(k) == tranche'[v][k].loss < MaxU64 =>
                              /\ tranche[v][k].loss < MaxU64
                              /\ tranche'[v][k].loss = tranche[v][k].loss + hit[k]
<1>7. Saturates("Prime") /\ Saturates("Core") /\ Saturates("Alpha")
  <2>1. ASSUME NEW k \in Kinds, hit[k] \in Nat PROVE Saturates(k)
    <3>1. tranche[v][k].loss \in Nat
      BY TrancheFields DEF U64
    <3> QED BY <1>3, <2>1, <3>1, MathAssumption DEF SaturatingAdd, Lesser
  <2> HIDE DEF Saturates
  <2> QED BY <1>2, <2>1, KindsAre
<1>8. LossesAgree(lossBucket'[v], eventLog'[v], tranche'[v]["Prime"].loss,
                  tranche'[v]["Core"].loss, tranche'[v]["Alpha"].loss)
  <2>1. LossesAgree(lossBucket[v], eventLog[v], tranche[v]["Prime"].loss,
                    tranche[v]["Core"].loss, tranche[v]["Alpha"].loss)
    BY LossLedgerIs DEF LedgerInv
  <2>2. /\ tranche[v]["Prime"].loss \in Nat /\ tranche[v]["Core"].loss \in Nat
        /\ tranche[v]["Alpha"].loss \in Nat /\ lossBucket[v] \in Nat
    BY TrancheFields, KindsAre DEF U64, TypeOK
  <2>3. lossBucket'[v] = Logged(eventLog'[v])
    BY <1>4, <1>6, <2>1 DEF LossesAgree
  <2>4. ASSUME tranche'[v]["Prime"].loss < MaxU64,
               tranche'[v]["Core"].loss < MaxU64,
               tranche'[v]["Alpha"].loss < MaxU64
        PROVE  lossBucket'[v] = tranche'[v]["Prime"].loss
                                  + tranche'[v]["Core"].loss
                                  + tranche'[v]["Alpha"].loss
    <3>1. lossBucket[v] = tranche[v]["Prime"].loss + tranche[v]["Core"].loss
                            + tranche[v]["Alpha"].loss
      BY <1>7, <2>1, <2>4 DEF LossesAgree
    <3>2. /\ tranche'[v]["Prime"].loss = tranche[v]["Prime"].loss + hit["Prime"]
          /\ tranche'[v]["Core"].loss = tranche[v]["Core"].loss + hit["Core"]
          /\ tranche'[v]["Alpha"].loss = tranche[v]["Alpha"].loss + hit["Alpha"]
      BY <1>7, <2>4
    <3>3. lossBucket'[v] = lossBucket[v] + loss
      BY <1>4
    <3> HIDE DEF Saturates
    <3> QED BY <1>2, <2>2, <3>1, <3>2, <3>3
  <2> QED BY <2>3, <2>4 DEF LossesAgree
<1>9. ASSUME NEW w \in Vaults, w # v
      PROVE  LossesAgree(lossBucket'[w], eventLog'[w], tranche'[w]["Prime"].loss,
                         tranche'[w]["Core"].loss, tranche'[w]["Alpha"].loss)
  <2>1. LossesAgree(lossBucket[w], eventLog[w], tranche[w]["Prime"].loss,
                    tranche[w]["Core"].loss, tranche[w]["Alpha"].loss)
    BY LossLedgerIs DEF LedgerInv
  <2> QED BY <1>3, <1>4, <1>9, <2>1 DEF RowRepriced
<1>10. LossesStart'
  <2>1. AllLive(v)
    BY <1>1 DEF Cascade
  <2> QED BY <1>3, <2>1 DEF LossesStart, LedgerInv, RowRepriced, AllLive
<1> QED BY <1>8, <1>9, <1>10, LossLedgerNext DEF LedgerInv

LEMMA LossStep ==
    ASSUME TypeOK, LedgerInv, [Next]_vars
    PROVE  LedgerInv'
<1>1. CASE Quiet
  <2>1. /\ UNCHANGED <<eventLog, lossBucket>>
        /\ \A v \in Vaults, k \in Kinds :
              /\ tranche'[v][k].loss = tranche[v][k].loss
              /\ tranche[v][k].live => tranche'[v][k].live
    BY <1>1 DEF Quiet, LedgerInv, LossesStart
  <2>2. LossesStart'
    BY <2>1 DEF LossesStart, LedgerInv
  <2>3. LossLedger'
    BY <2>1, KindsAre, LossLedgerIs, LossLedgerNext DEF LedgerInv
  <2> QED BY <2>2, <2>3 DEF LedgerInv
<1> QED BY <1>1, QuietOrCascades, CascadeLosses

\* The loss bucket is what the log of events adds up to, and what the tranches
\* wrote down as long as no cumulative_loss saturated.
THEOREM LossCorrect == Spec => []LossLedger
<1>1. Init => LedgerInv
  <2> SUFFICES ASSUME Init PROVE LedgerInv
    OBVIOUS
  <2>1. Logged(<< >>) = 0
    <3>1. Len(<< >>) = 0 /\ 1 .. 0 = {}
      OBVIOUS
    <3> DEFINE f == [i \in 1 .. Len(<< >>) |-> << >>[i].loss]
    <3>2. f \in [1 .. 0 -> Nat] /\ \A i \in 1 .. 0 : f[i] = 0
      BY <3>1
    <3>3. Logged(<< >>) = Total(f)
      BY DEF Logged
    <3> HIDE DEF f
    <3> QED BY <3>2, <3>3, TotalZero
  <2>2. LossesStart
    BY DEF Init, LossesStart, NoTranche
  <2>3. LossLedger
    BY <2>1, LossLedgerIs, KindsAre DEF Init, LossesAgree, NoTranche
  <2> QED BY <2>2, <2>3 DEF LedgerInv
<1>2. TypeOK /\ LedgerInv /\ [Next]_vars => LedgerInv'
  BY LossStep
<1>3. LedgerInv => LossLedger
  BY DEF LedgerInv
<1> QED BY <1>1, <1>2, <1>3, TypeCorrect, PTL DEF Spec

-----------------------------------------------------------------------------
(* The order of the waterfalls *)

\* A loss reaches a tranche only when the more junior ones have nothing left.
LEMMA HitInOrder ==
    ASSUME TypeOK, NEW v \in Vaults, NEW loss \in Nat
    PROVE  LET hit == Hit(v, loss)
               left(k) == tranche[v][k].assets - hit[k]
           IN  /\ hit["Core"] > 0 => left("Alpha") = 0
               /\ hit["Prime"] > 0 => left("Alpha") = 0 /\ left("Core") = 0
<1> DEFINE A == tranche[v]["Alpha"].assets
           C == tranche[v]["Core"].assets
           P == tranche[v]["Prime"].assets
           alpha == Lesser(loss, A)
           core == Lesser(loss - alpha, C)
           prime == Lesser(loss - alpha - core, P)
<1>1. A \in Nat /\ C \in Nat /\ P \in Nat
  BY TrancheFields, KindsAre
<1>2. Hit(v, loss) = [k \in Kinds |-> CASE k = "Prime" -> prime
                                        [] k = "Core"  -> core
                                        [] k = "Alpha" -> alpha]
  BY DEF Hit
<1>3. /\ Hit(v, loss)["Prime"] = prime
      /\ Hit(v, loss)["Core"] = core
      /\ Hit(v, loss)["Alpha"] = alpha
  <2> HIDE DEF prime, core, alpha
  <2> QED BY <1>2, KindsAre
<1> HIDE DEF A, C, P
<1>4. /\ core > 0 => A - alpha = 0
      /\ prime > 0 => A - alpha = 0 /\ C - core = 0
  BY <1>1 DEF Lesser
<1> HIDE DEF prime, core, alpha
<1> QED BY <1>3, <1>4 DEF A, C, P

LEMMA LossOrderStep ==
    ASSUME TypeOK, [Next]_vars
    PROVE  LossInOrder
<1> SUFFICES ASSUME NEW v \in Vaults
             PROVE  LET grew(k) == tranche'[v][k].loss > tranche[v][k].loss
                        wiped(k) == tranche'[v][k].assets = 0
                    IN  /\ grew("Core") => wiped("Alpha")
                        /\ grew("Prime") => wiped("Alpha") /\ wiped("Core")
  BY DEF LossInOrder
<1>1. /\ tranche[v]["Prime"].loss \in Nat /\ tranche[v]["Core"].loss \in Nat
      /\ tranche[v]["Prime"].loss <= MaxU64 /\ tranche[v]["Core"].loss <= MaxU64
  BY TrancheFields, KindsAre DEF U64
<1>2. CASE Quiet
  BY <1>1, <1>2, KindsAre DEF Quiet
<1>3. CASE Cascades
  <2>1. PICK w \in Vaults, kind \in EventKinds, loss \in U64 : Cascade(w, kind, loss)
    BY <1>3 DEF Cascades
  <2>2. CASE w # v
    <3>1. tranche'[v] = tranche[v]
      BY <2>1, <2>2, CascadeEffect DEF RowRepriced
    <3> QED BY <1>1, <3>1
  <2>3. CASE w = v
    <3> DEFINE hit == Hit(v, loss)
    <3>1. \A k \in Kinds :
              /\ tranche'[v][k].assets = tranche[v][k].assets - hit[k]
              /\ tranche'[v][k].loss = SaturatingAdd(tranche[v][k].loss, hit[k])
      BY <2>1, <2>3, CascadeEffect
    <3>2. loss \in Nat
      BY DEF U64
    <3>3. hit["Prime"] \in Nat /\ hit["Core"] \in Nat
      BY <3>2, HitSums, KindsAre
    <3>4. /\ hit["Core"] > 0 => tranche[v]["Alpha"].assets - hit["Alpha"] = 0
          /\ hit["Prime"] > 0 => /\ tranche[v]["Alpha"].assets - hit["Alpha"] = 0
                                 /\ tranche[v]["Core"].assets - hit["Core"] = 0
      BY <3>2, HitInOrder
    <3> HIDE DEF hit
    <3>5. /\ tranche'[v]["Core"].loss > tranche[v]["Core"].loss => hit["Core"] > 0
          /\ tranche'[v]["Prime"].loss > tranche[v]["Prime"].loss => hit["Prime"] > 0
      BY <1>1, <3>1, <3>3, KindsAre, MathAssumption DEF SaturatingAdd, Lesser
    <3> QED BY <3>1, <3>4, <3>5, KindsAre
  <2> QED BY <2>2, <2>3
<1> QED BY <1>2, <1>3, QuietOrCascades

\* A loss reaches Core only in a step that leaves Alpha with nothing, and
\* Prime only in one that leaves both with nothing.
THEOREM SeniorityCorrect == Spec => Seniority
<1>1. TypeOK /\ [Next]_vars => [LossInOrder]_vars
  BY LossOrderStep
<1> QED BY <1>1, TypeCorrect, PTL DEF Spec, Seniority

\* Yield reaches a tranche only when the more senior ones have their target.
LEMMA TakeInOrder ==
    ASSUME TypeOK, NEW v \in Vaults, NEW amount \in Nat
    PROVE  LET take == YieldTake(v, amount)
           IN  /\ take["Core"] > 0 => take["Prime"] = Target(v, "Prime")
               /\ take["Alpha"] > 0 => /\ take["Prime"] = Target(v, "Prime")
                                       /\ take["Core"] = Target(v, "Core")
<1> DEFINE P == Target(v, "Prime")
           C == Target(v, "Core")
           prime == Lesser(P, amount)
           core == Lesser(C, amount - prime)
           alpha == amount - prime - core
<1>1. P \in Nat /\ C \in Nat
  BY TargetType, KindsAre
<1>2. YieldTake(v, amount) = [k \in Kinds |-> CASE k = "Prime" -> prime
                                                [] k = "Core"  -> core
                                                [] k = "Alpha" -> alpha]
  BY DEF YieldTake
<1>3. /\ YieldTake(v, amount)["Prime"] = prime
      /\ YieldTake(v, amount)["Core"] = core
      /\ YieldTake(v, amount)["Alpha"] = alpha
  <2> HIDE DEF prime, core, alpha
  <2> QED BY <1>2, KindsAre
<1> HIDE DEF P, C
<1>4. /\ core > 0 => prime = P
      /\ alpha > 0 => prime = P /\ core = C
  BY <1>1 DEF Lesser
<1> HIDE DEF prime, core, alpha
<1> QED BY <1>3, <1>4 DEF P, C

LEMMA YieldOrderStep ==
    ASSUME TypeOK, [Next]_vars
    PROVE  YieldInOrder
<1> DEFINE earned(v, k) == IF ptoken'[v][k] = ptoken[v][k]
                           THEN tranche'[v][k].assets - tranche[v][k].assets
                           ELSE 0
<1> SUFFICES ASSUME NEW v \in Vaults,
                    vault'[v].lastYield > vault[v].lastYield,
                    vault[v].state = "Active"
             PROVE  /\ earned(v, "Core") > 0 => earned(v, "Prime") = Target(v, "Prime")
                    /\ earned(v, "Alpha") > 0 =>
                          /\ earned(v, "Prime") = Target(v, "Prime")
                          /\ earned(v, "Core") = Target(v, "Core")
  BY DEF YieldInOrder
<1>1. vault[v].lastYield \in Nat
  BY VaultFields
<1>2. SUFFICES ASSUME vault'[v].lastYield # vault[v].lastYield,
                      vault[v].state # "None"
               PROVE  \E amount \in U64 : AccrueYield(v, amount)
  <2>1. PICK amount \in U64 : AccrueYield(v, amount)
    BY <1>1, <1>2
  <2> DEFINE take == YieldTake(v, amount)
  <2>2. amount \in Nat
    BY DEF U64
  <2>3. /\ UNCHANGED ptoken
        /\ \A k \in Kinds : tranche'[v][k].assets = tranche[v][k].assets + take[k]
    BY <2>1, AccrueEffect, AccrueWrites
  <2>4. take \in [Kinds -> Nat]
    BY <2>2, TakeSums
  <2>5. /\ take["Core"] > 0 => take["Prime"] = Target(v, "Prime")
        /\ take["Alpha"] > 0 => /\ take["Prime"] = Target(v, "Prime")
                                /\ take["Core"] = Target(v, "Core")
    BY <2>2, TakeInOrder
  <2> HIDE DEF take
  <2>6. \A k \in Kinds : earned(v, k) = take[k]
    <3> SUFFICES ASSUME NEW k \in Kinds PROVE earned(v, k) = take[k]
      OBVIOUS
    <3>1. tranche[v][k].assets \in Nat /\ take[k] \in Nat
      BY <2>4, TrancheFields
    <3> QED BY <2>3, <3>1
  <2> HIDE DEF earned
  <2> QED BY <2>5, <2>6, KindsAre
<1>3. CASE UNCHANGED vault
  BY <1>2, <1>3
<1>4. ASSUME NEW w \in Vaults, InitVault(w) PROVE FALSE
  BY <1>2, <1>4, InitVaultWrites
<1>5. ASSUME NEW w \in Vaults, NEW k \in Kinds, NEW amount \in U64,
             Deposit(w, k, amount)
      PROVE  FALSE
  BY <1>2, <1>5, DepositWrites
<1>6. ASSUME NEW w \in Vaults, NEW k \in Kinds, NEW shares \in Nat,
             Withdraw(w, k, shares)
      PROVE  FALSE
  BY <1>2, <1>6, WithdrawWrites
<1>7. ASSUME NEW w \in Vaults, NEW amount \in U64, AccrueYield(w, amount)
      PROVE  w = v
  BY <1>2, <1>7, AccrueWrites
<1>8. ASSUME NEW w \in Vaults, NEW l \in Loans, DisburseLoan(w, l) PROVE FALSE
  BY <1>2, <1>8, DisburseWrites
<1>9. CASE Cascades
  BY <1>2, <1>9, CascadeWrites DEF Cascades
<1> QED BY <1>3, <1>4, <1>5, <1>6, <1>7, <1>8, <1>9, StepIs, InitTrancheWrites
        DEF LedgerStep, ledger

\* Yield reaches a tranche only in a step that gives every senior tranche all
\* its time-weighted target.
THEOREM YieldCorrect == Spec => YieldSeniority
<1>1. TypeOK /\ [Next]_vars => [YieldInOrder]_vars
  BY YieldOrderStep
<1> QED BY <1>1, TypeCorrect, PTL DEF Spec, YieldSeniority

-----------------------------------------------------------------------------
(* The inductive invariant *)

\* A record nobody has created holds nothing that creating it would lose.
Untouched ==
    \A v \in Vaults :
        /\ vault[v].state = "None" => vault[v].loaned = 0
        /\ \A k \in Kinds : ~tranche[v][k].live =>
              tranche[v][k].assets = 0 /\ tranche[v][k].supply = 0

Shares == NavFresh /\ SupplyBacked /\ Untouched

IInv == TypeOK /\ Shares /\ ReserveIdentity

LoanedSum == Total([v \in Vaults |-> vault[v].loaned])
ClaimsSum == Total([v \in Vaults |-> Claims(v)])
RepaidSum == Total([l \in Loans |-> Repaid(l)])

-----------------------------------------------------------------------------
(* The three sums of the identity *)

\* What is summed are naturals.
SummandsNat ==
    /\ \A v \in Vaults : vault[v].loaned \in Nat
    /\ \A v \in Vaults : TotalAssets(v) \in Nat /\ lossBucket[v] \in Nat
    /\ \A v \in Vaults : Claims(v) \in Nat
    /\ \A l \in Loans : Repaid(l) \in Nat

LEMMA SummandsType == TypeOK => SummandsNat
<1> SUFFICES ASSUME TypeOK PROVE SummandsNat
  OBVIOUS
<1>1. \A v \in Vaults : vault[v].loaned \in Nat
  BY VaultFields
<1>2. ASSUME NEW v \in Vaults PROVE TotalAssets(v) \in Nat /\ lossBucket[v] \in Nat
  <2>1. lossBucket[v] \in Nat
    BY DEF TypeOK
  <2>2. /\ tranche[v]["Prime"].assets \in Nat
        /\ tranche[v]["Core"].assets \in Nat
        /\ tranche[v]["Alpha"].assets \in Nat
    BY TrancheFields, KindsAre
  <2> QED BY <2>1, <2>2 DEF TotalAssets
<1>3. \A v \in Vaults : Claims(v) \in Nat
  BY <1>2 DEF Claims
<1>4. ASSUME NEW l \in Loans PROVE Repaid(l) \in Nat
  BY LoanFields DEF Repaid
<1> QED BY <1>1, <1>2, <1>3, <1>4 DEF SummandsNat

SumsNat == LoanedSum \in Nat /\ ClaimsSum \in Nat /\ RepaidSum \in Nat

LEMMA SumsType == TypeOK => SumsNat
<1> SUFFICES ASSUME SummandsNat PROVE SumsNat
  BY SummandsType
<1>1. IsFiniteSet(Vaults) /\ IsFiniteSet(Loans)
  BY CoreAssumption
<1>2. LoanedSum \in Nat
  <2>1. [v \in Vaults |-> vault[v].loaned] \in [Vaults -> Nat]
    BY DEF SummandsNat
  <2> QED BY <1>1, <2>1, TotalType DEF LoanedSum
<1>3. ClaimsSum \in Nat
  <2>1. [v \in Vaults |-> Claims(v)] \in [Vaults -> Nat]
    BY DEF SummandsNat
  <2> QED BY <1>1, <2>1, TotalType DEF ClaimsSum
<1>4. RepaidSum \in Nat
  <2>1. [l \in Loans |-> Repaid(l)] \in [Loans -> Nat]
    BY DEF SummandsNat
  <2> QED BY <1>1, <2>1, TotalType DEF RepaidSum
<1> QED BY <1>2, <1>3, <1>4 DEF SumsNat

\* The same in the state after a step.
LEMMA SumsTypeNext == TypeOK' => SummandsNat' /\ SumsNat'
<1>1. TypeOK => SummandsNat /\ SumsNat
  BY SummandsType, SumsType
<1> QED BY <1>1, PTL

\* How each sum follows a step that touches one vault, or one loan.
LEMMA LoanedMoves ==
    ASSUME SummandsNat, SummandsNat', NEW v \in Vaults,
           \A w \in Vaults : w # v => vault'[w].loaned = vault[w].loaned
    PROVE  LoanedSum' + vault[v].loaned = LoanedSum + vault'[v].loaned
<1> DEFINE f == [w \in Vaults |-> vault[w].loaned]
           g == [w \in Vaults |-> vault'[w].loaned]
<1>1. /\ f \in [Vaults -> Nat] /\ g \in [Vaults -> Nat]
      /\ \A w \in Vaults \ {v} : g[w] = f[w]
      /\ f[v] = vault[v].loaned /\ g[v] = vault'[v].loaned
  BY DEF SummandsNat
<1>2. LoanedSum = Total(f) /\ LoanedSum' = Total(g)
  BY DEF LoanedSum
<1> HIDE DEF f, g
<1>3. Total(g) + f[v] = Total(f) + g[v]
  BY <1>1, CoreAssumption, TotalUpdate
<1> QED BY <1>1, <1>2, <1>3

LEMMA ClaimsMove ==
    ASSUME SummandsNat, SummandsNat', NEW v \in Vaults,
           \A w \in Vaults : w # v => Claims(w)' = Claims(w)
    PROVE  ClaimsSum' + Claims(v) = ClaimsSum + Claims(v)'
<1> DEFINE f == [w \in Vaults |-> Claims(w)]
           g == [w \in Vaults |-> Claims(w)']
<1>1. /\ f \in [Vaults -> Nat] /\ g \in [Vaults -> Nat]
      /\ \A w \in Vaults \ {v} : g[w] = f[w]
      /\ f[v] = Claims(v) /\ g[v] = Claims(v)'
  BY DEF SummandsNat
<1>2. ClaimsSum = Total(f) /\ ClaimsSum' = Total(g)
  BY DEF ClaimsSum
<1> HIDE DEF f, g
<1>3. Total(g) + f[v] = Total(f) + g[v]
  BY <1>1, CoreAssumption, TotalUpdate
<1> QED BY <1>1, <1>2, <1>3

LEMMA RepaidMoves ==
    ASSUME SummandsNat, SummandsNat', NEW l \in Loans,
           \A m \in Loans : m # l => Repaid(m)' = Repaid(m)
    PROVE  RepaidSum' + Repaid(l) = RepaidSum + Repaid(l)'
<1> DEFINE f == [m \in Loans |-> Repaid(m)]
           g == [m \in Loans |-> Repaid(m)']
<1>1. /\ f \in [Loans -> Nat] /\ g \in [Loans -> Nat]
      /\ \A m \in Loans \ {l} : g[m] = f[m]
      /\ f[l] = Repaid(l) /\ g[l] = Repaid(l)'
  BY DEF SummandsNat
<1>2. RepaidSum = Total(f) /\ RepaidSum' = Total(g)
  BY DEF RepaidSum
<1> HIDE DEF f, g
<1>3. Total(g) + f[l] = Total(f) + g[l]
  BY <1>1, CoreAssumption, TotalUpdate
<1> QED BY <1>1, <1>2, <1>3

\* A sum nobody's part of which changes stays.
LEMMA LoanedStays ==
    ASSUME \A w \in Vaults : vault'[w].loaned = vault[w].loaned
    PROVE  LoanedSum' = LoanedSum
<1>1. [w \in Vaults |-> vault'[w].loaned] = [w \in Vaults |-> vault[w].loaned]
  OBVIOUS
<1> QED BY <1>1 DEF LoanedSum

LEMMA ClaimsStay ==
    ASSUME \A w \in Vaults : Claims(w)' = Claims(w)
    PROVE  ClaimsSum' = ClaimsSum
<1>1. [w \in Vaults |-> Claims(w)'] = [w \in Vaults |-> Claims(w)]
  OBVIOUS
<1> QED BY <1>1 DEF ClaimsSum

LEMMA RepaidStays ==
    ASSUME \A l \in Loans : Repaid(l)' = Repaid(l)
    PROVE  RepaidSum' = RepaidSum
<1>1. [l \in Loans |-> Repaid(l)'] = [l \in Loans |-> Repaid(l)]
  OBVIOUS
<1> QED BY <1>1 DEF RepaidSum

\* The identity in terms of the three sums.
LEMMA IdentityIs ==
    ReserveIdentity <=> pool + seeded + LoanedSum = ClaimsSum + RepaidSum
  BY DEF ReserveIdentity, LoanedSum, ClaimsSum, RepaidSum

LEMMA IdentityNext ==
    ReserveIdentity' <=> pool' + seeded' + LoanedSum' = ClaimsSum' + RepaidSum'
  BY DEF ReserveIdentity, LoanedSum, ClaimsSum, RepaidSum

-----------------------------------------------------------------------------
(* Steps that touch one tranche *)

\* A step that reprices one tranche, with the pTokens to match, keeps the
\* shares in order and moves the claims of its vault by what it moves.
LEMMA OneTranche ==
    ASSUME TypeOK, Shares, NEW v \in Vaults, NEW k \in Kinds,
           NEW assets \in U64, NEW supply \in U64,
           tranche' = [tranche EXCEPT ![v][k] =
                          Reprice(tranche[v][k], assets, supply)],
           tranche[v][k].live,
           ptoken'[v][k] = supply,
           \A w \in Vaults, j \in Kinds :
               w # v \/ j # k => ptoken'[w][j] = ptoken[w][j],
           \A w \in Vaults : /\ vault'[w].state = vault[w].state
                             /\ vault'[w].loaned = vault[w].loaned,
           UNCHANGED lossBucket
    PROVE  /\ Shares'
           /\ Claims(v)' + tranche[v][k].assets = Claims(v) + assets
           /\ \A w \in Vaults : w # v => Claims(w)' = Claims(w)
<1>1. /\ tranche'[v][k].assets = assets
      /\ tranche'[v][k].supply = supply
      /\ tranche'[v][k].nav = ComputeNav(assets, supply)
      /\ tranche'[v][k].live
      /\ \A w \in Vaults, j \in Kinds :
            w # v \/ j # k => tranche'[w][j] = tranche[w][j]
  <2>1. Repriced(v, k, assets, supply)
    BY RepriceOne
  <2> QED BY <2>1 DEF Repriced
<1>2. NavFresh'
  <2> SUFFICES ASSUME NEW w \in Vaults, NEW j \in Kinds
               PROVE  tranche'[w][j].nav =
                        ComputeNav(tranche'[w][j].assets, tranche'[w][j].supply)
    BY DEF NavFresh
  <2>1. CASE w = v /\ j = k
    BY <1>1, <2>1
  <2>2. CASE w # v \/ j # k
    BY <1>1, <2>2 DEF Shares, NavFresh
  <2> QED BY <2>1, <2>2
<1>3. SupplyBacked'
  <2> SUFFICES ASSUME NEW w \in Vaults, NEW j \in Kinds
               PROVE  tranche'[w][j].supply = ptoken'[w][j]
    BY DEF SupplyBacked
  <2>1. CASE w = v /\ j = k
    BY <1>1, <2>1
  <2>2. CASE w # v \/ j # k
    BY <1>1, <2>2 DEF Shares, SupplyBacked
  <2> QED BY <2>1, <2>2
<1>4. Untouched'
  <2>1. ASSUME NEW w \in Vaults, NEW j \in Kinds, ~tranche'[w][j].live
        PROVE  tranche'[w][j].assets = 0 /\ tranche'[w][j].supply = 0
    <3>1. w # v \/ j # k
      BY <1>1, <2>1
    <3>2. tranche'[w][j] = tranche[w][j]
      BY <1>1, <3>1
    <3> QED BY <2>1, <3>2 DEF Shares, Untouched
  <2>2. ASSUME NEW w \in Vaults, vault'[w].state = "None" PROVE vault'[w].loaned = 0
    BY <2>2 DEF Shares, Untouched
  <2> QED BY <2>1, <2>2 DEF Untouched
<1>5. \A w \in Vaults : w # v => Claims(w)' = Claims(w)
  BY <1>1, KindsAre DEF Claims, TotalAssets
<1>6. Claims(v)' + tranche[v][k].assets = Claims(v) + assets
  <2>1. /\ tranche[v]["Prime"].assets \in Nat /\ tranche[v]["Core"].assets \in Nat
        /\ tranche[v]["Alpha"].assets \in Nat
    BY TrancheFields, KindsAre
  <2>2. assets \in Nat /\ lossBucket[v] \in Nat
    BY DEF TypeOK, U64
  <2>3. /\ Claims(v) = tranche[v]["Prime"].assets + tranche[v]["Core"].assets
                          + tranche[v]["Alpha"].assets + lossBucket[v]
        /\ Claims(v)' = tranche'[v]["Prime"].assets + tranche'[v]["Core"].assets
                          + tranche'[v]["Alpha"].assets + lossBucket[v]
    BY DEF Claims, TotalAssets
  <2>4. CASE k = "Prime"
    <3>1. /\ tranche'[v]["Core"] = tranche[v]["Core"]
          /\ tranche'[v]["Alpha"] = tranche[v]["Alpha"]
      BY <1>1, <2>4, KindsAre
    <3> QED BY <1>1, <2>1, <2>2, <2>3, <2>4, <3>1
  <2>5. CASE k = "Core"
    <3>1. /\ tranche'[v]["Prime"] = tranche[v]["Prime"]
          /\ tranche'[v]["Alpha"] = tranche[v]["Alpha"]
      BY <1>1, <2>5, KindsAre
    <3> QED BY <1>1, <2>1, <2>2, <2>3, <2>5, <3>1
  <2>6. CASE k = "Alpha"
    <3>1. /\ tranche'[v]["Prime"] = tranche[v]["Prime"]
          /\ tranche'[v]["Core"] = tranche[v]["Core"]
      BY <1>1, <2>6, KindsAre
    <3> QED BY <1>1, <2>1, <2>2, <2>3, <2>6, <3>1
  <2> QED BY <2>4, <2>5, <2>6, KindsAre
<1> QED BY <1>2, <1>3, <1>4, <1>5, <1>6 DEF Shares

-----------------------------------------------------------------------------
(* Steps that touch a row *)

\* A waterfall over a live vault keeps the shares in order.
LEMMA OneRow ==
    ASSUME Shares, NEW v \in Vaults, RowRepriced(v), AllLive(v),
           UNCHANGED ptoken,
           vault'[v].state # "None",
           \A w \in Vaults : w # v => vault'[w] = vault[w]
    PROVE  Shares'
<1>1. ASSUME NEW w \in Vaults, NEW j \in Kinds
      PROVE  /\ tranche'[w][j].nav =
                   ComputeNav(tranche'[w][j].assets, tranche'[w][j].supply)
             /\ tranche'[w][j].supply = tranche[w][j].supply
             /\ tranche'[w][j].live = tranche[w][j].live
             /\ w # v => tranche'[w][j] = tranche[w][j]
  BY DEF RowRepriced, Shares, NavFresh
<1>2. NavFresh'
  BY <1>1 DEF NavFresh
<1>3. SupplyBacked'
  BY <1>1 DEF Shares, SupplyBacked
<1>4. Untouched'
  <2>1. ASSUME NEW w \in Vaults, NEW j \in Kinds, ~tranche'[w][j].live
        PROVE  tranche'[w][j].assets = 0 /\ tranche'[w][j].supply = 0
    BY <1>1, <2>1 DEF Shares, Untouched, AllLive
  <2>2. ASSUME NEW w \in Vaults, vault'[w].state = "None" PROVE vault'[w].loaned = 0
    BY <2>2 DEF Shares, Untouched
  <2> QED BY <2>1, <2>2 DEF Untouched
<1> QED BY <1>2, <1>3, <1>4 DEF Shares

\* What changes in a row changes the claims of its vault and of no other.
LEMMA RowClaims ==
    ASSUME TypeOK, NEW v \in Vaults, RowRepriced(v),
           NEW delta \in [Kinds -> Int],
           \A k \in Kinds : tranche'[v][k].assets = tranche[v][k].assets + delta[k],
           NEW lost \in Nat, lossBucket'[v] = lossBucket[v] + lost,
           \A w \in Vaults : w # v => lossBucket'[w] = lossBucket[w]
    PROVE  /\ Claims(v)' = Claims(v) + delta["Prime"] + delta["Core"]
                              + delta["Alpha"] + lost
           /\ \A w \in Vaults : w # v => Claims(w)' = Claims(w)
<1>1. /\ tranche[v]["Prime"].assets \in Nat /\ tranche[v]["Core"].assets \in Nat
      /\ tranche[v]["Alpha"].assets \in Nat /\ lossBucket[v] \in Nat
  BY TrancheFields, KindsAre DEF TypeOK
<1>2. /\ tranche'[v]["Prime"].assets = tranche[v]["Prime"].assets + delta["Prime"]
      /\ tranche'[v]["Core"].assets = tranche[v]["Core"].assets + delta["Core"]
      /\ tranche'[v]["Alpha"].assets = tranche[v]["Alpha"].assets + delta["Alpha"]
      /\ delta["Prime"] \in Int /\ delta["Core"] \in Int /\ delta["Alpha"] \in Int
  BY KindsAre
<1>3. Claims(v)' = Claims(v) + delta["Prime"] + delta["Core"] + delta["Alpha"] + lost
  BY <1>1, <1>2 DEF Claims, TotalAssets
<1>4. \A w \in Vaults : w # v => Claims(w)' = Claims(w)
  BY DEF RowRepriced, Claims, TotalAssets
<1> QED BY <1>3, <1>4

-----------------------------------------------------------------------------
(* One lemma per step *)

\* The numbers behind the identity are naturals on both sides of a step.
LEMMA Numbers ==
    ASSUME TypeOK, TypeOK'
    PROVE  /\ SummandsNat /\ SummandsNat' /\ SumsNat /\ SumsNat'
           /\ pool \in Nat /\ outside \in Nat /\ seeded \in Nat
           /\ pool' \in Nat /\ outside' \in Nat /\ seeded' \in Nat
<1>1. SummandsNat /\ SumsNat
  BY SummandsType, SumsType
<1>2. SummandsNat' /\ SumsNat'
  BY SumsTypeNext
<1> QED BY <1>1, <1>2 DEF TypeOK

\* A step that lends and repays nothing keeps the identity when what the
\* contract holds moves as much as the claims of one vault.
ClaimsBalance(v) ==
    /\ LoanedSum' = LoanedSum
    /\ RepaidSum' = RepaidSum
    /\ \A w \in Vaults : w # v => Claims(w)' = Claims(w)
    /\ pool' + seeded' + Claims(v) = pool + seeded + Claims(v)'

LEMMA ClaimsStep ==
    ASSUME TypeOK, TypeOK', ReserveIdentity, NEW v \in Vaults, ClaimsBalance(v)
    PROVE  ReserveIdentity'
<1>1. /\ SummandsNat /\ SummandsNat' /\ SumsNat /\ SumsNat'
      /\ pool \in Nat /\ seeded \in Nat /\ pool' \in Nat /\ seeded' \in Nat
  BY Numbers
<1>2. ClaimsSum' + Claims(v) = ClaimsSum + Claims(v)'
  BY <1>1, ClaimsMove DEF ClaimsBalance
<1>3. Claims(v) \in Nat /\ Claims(v)' \in Nat
  BY <1>1 DEF SummandsNat
<1>4. pool + seeded + LoanedSum = ClaimsSum + RepaidSum
  BY IdentityIs
<1>5. pool' + seeded' + Claims(v) = pool + seeded + Claims(v)'
  BY DEF ClaimsBalance
<1>6. /\ ClaimsSum \in Nat /\ ClaimsSum' \in Nat
      /\ RepaidSum \in Nat /\ LoanedSum \in Nat
  BY <1>1 DEF SumsNat
<1>7. pool' + seeded' + LoanedSum = ClaimsSum' + RepaidSum
  BY <1>1, <1>2, <1>3, <1>4, <1>5, <1>6
<1>8. pool' + seeded' + LoanedSum' = ClaimsSum' + RepaidSum'
  BY <1>7 DEF ClaimsBalance
<1> QED BY <1>8, IdentityNext

LEMMA DepositKeeps ==
    ASSUME IInv, TypeOK', NEW v \in Vaults, NEW k \in Kinds, NEW amount \in U64,
           Deposit(v, k, amount)
    PROVE  Shares' /\ ReserveIdentity'
<1> DEFINE t == tranche[v][k]
           shares == DepositShares(amount, t.nav, t.supply)
           assets == t.assets + amount
           supply == t.supply + shares
<1>1. TypeOK /\ Shares /\ ReserveIdentity
  BY DEF IInv
<1>2. /\ shares \in Nat /\ assets \in U64 /\ supply \in U64
      /\ t.assets \in Nat /\ t.supply \in Nat /\ amount \in Nat
  BY <1>1, DepositEffect, TrancheFields DEF U64
<1>3. /\ tranche' = [tranche EXCEPT ![v][k] = Reprice(tranche[v][k], assets, supply)]
      /\ ptoken' = [ptoken EXCEPT ![v][k] = @ + shares]
      /\ vault' = [vault EXCEPT ![v].deposits = @ + amount]
      /\ pool' = pool + amount
      /\ t.live
      /\ UNCHANGED <<lossBucket, loan, seeded>>
  BY DEF Deposit
<1>4. t.supply = ptoken[v][k]
  BY <1>1 DEF Shares, SupplyBacked
<1> HIDE DEF shares
<1>5. /\ ptoken'[v][k] = supply
      /\ \A w \in Vaults, j \in Kinds :
            w # v \/ j # k => ptoken'[w][j] = ptoken[w][j]
  BY <1>1, <1>3, <1>4 DEF TypeOK
<1>6. \A w \in Vaults : /\ vault'[w].state = vault[w].state
                        /\ vault'[w].loaned = vault[w].loaned
  <2>1. vault[v].deposits + amount \in U64
    BY <1>1, DepositEffect
  <2> QED BY <1>1, <1>3, <2>1, DepositsTouched
<1>7. tranche[v][k].live
  BY <1>3
<1>8. t.assets = tranche[v][k].assets
  OBVIOUS
<1> HIDE DEF t
<1> HIDE DEF assets, supply
<1>9. /\ Shares'
      /\ Claims(v)' + tranche[v][k].assets = Claims(v) + assets
      /\ \A w \in Vaults : w # v => Claims(w)' = Claims(w)
  BY <1>1, <1>2, <1>3, <1>5, <1>6, <1>7, OneTranche
<1>10. LoanedSum' = LoanedSum
  BY <1>6, LoanedStays
<1>11. RepaidSum' = RepaidSum
  BY <1>3, RepaidStays DEF Repaid, Exists
<1>12. pool' + seeded' + Claims(v) = pool + seeded + Claims(v)'
  <2>1. /\ SummandsNat /\ SummandsNat'
        /\ pool \in Nat /\ seeded \in Nat
    BY <1>1, Numbers
  <2>2. Claims(v) \in Nat /\ Claims(v)' \in Nat
    BY <2>1 DEF SummandsNat
  <2> QED BY <1>2, <1>3, <1>8, <1>9, <2>1, <2>2 DEF assets
<1>13. ClaimsBalance(v)
  BY <1>9, <1>10, <1>11, <1>12 DEF ClaimsBalance
<1> QED BY <1>1, <1>9, <1>13, ClaimsStep

\* The saturating subtractions of a withdrawal never saturate: the shares
\* are within the supply and the payout is within the assets.
LEMMA WithdrawExact ==
    ASSUME TypeOK, Shares, NEW v \in Vaults, NEW k \in Kinds, NEW shares \in Nat,
           Withdraw(v, k, shares)
    PROVE  LET t == tranche[v][k]
               payout == WithdrawPayout(shares, t.nav)
           IN  /\ payout \in Nat
               /\ SaturatingSub(t.assets, payout) + payout = t.assets
               /\ SaturatingSub(t.supply, shares) = ptoken[v][k] - shares
<1> DEFINE t == tranche[v][k]
           payout == WithdrawPayout(shares, t.nav)
<1>1. t.assets \in Nat /\ t.supply \in Nat
  BY TrancheFields
<1>2. t.nav = ComputeNav(t.assets, t.supply) /\ t.supply = ptoken[v][k]
  BY DEF Shares, NavFresh, SupplyBacked
<1>3. shares <= ptoken[v][k]
  BY DEF Withdraw
<1>4. payout \in Nat
  BY WithdrawEffect
<1> HIDE DEF t
<1>5. payout <= t.assets
  BY <1>1, <1>2, <1>3, PayoutWithinAssets
<1> HIDE DEF payout
<1>6. SaturatingSub(t.assets, payout) + payout = t.assets
  BY <1>1, <1>4, <1>5 DEF SaturatingSub
<1>7. SaturatingSub(t.supply, shares) = ptoken[v][k] - shares
  BY <1>1, <1>2, <1>3 DEF SaturatingSub
<1> QED BY <1>4, <1>6, <1>7 DEF t, payout

LEMMA WithdrawKeeps ==
    ASSUME IInv, TypeOK', NEW v \in Vaults, NEW k \in Kinds, NEW shares \in Nat,
           Withdraw(v, k, shares)
    PROVE  Shares' /\ ReserveIdentity'
<1> DEFINE t == tranche[v][k]
           payout == WithdrawPayout(shares, t.nav)
           assets == SaturatingSub(t.assets, payout)
           supply == SaturatingSub(t.supply, shares)
           deposits == SaturatingSub(vault[v].deposits, payout)
<1>1. TypeOK /\ Shares /\ ReserveIdentity
  BY DEF IInv
<1>2. /\ payout \in Nat /\ assets \in U64 /\ supply \in U64 /\ deposits \in U64
  BY <1>1, WithdrawEffect
<1>3. assets + payout = t.assets /\ supply = ptoken[v][k] - shares
  BY <1>1, WithdrawExact
<1>4. /\ tranche' = [tranche EXCEPT ![v][k] = Reprice(tranche[v][k], assets, supply)]
      /\ ptoken' = [ptoken EXCEPT ![v][k] = @ - shares]
      /\ vault' = [vault EXCEPT ![v].deposits = deposits]
      /\ pool' = pool - payout /\ payout <= pool
      /\ tranche[v][k].live
      /\ UNCHANGED <<lossBucket, loan, seeded>>
  BY DEF Withdraw
<1>5. t.assets = tranche[v][k].assets
  OBVIOUS
<1> HIDE DEF t, payout, assets, supply, deposits
<1>6. /\ ptoken'[v][k] = supply
      /\ \A w \in Vaults, j \in Kinds :
            w # v \/ j # k => ptoken'[w][j] = ptoken[w][j]
  BY <1>1, <1>3, <1>4 DEF TypeOK
<1>7. \A w \in Vaults : /\ vault'[w].state = vault[w].state
                        /\ vault'[w].loaned = vault[w].loaned
  BY <1>1, <1>2, <1>4, DepositsTouched
<1>8. /\ Shares'
      /\ Claims(v)' + tranche[v][k].assets = Claims(v) + assets
      /\ \A w \in Vaults : w # v => Claims(w)' = Claims(w)
  BY <1>1, <1>2, <1>4, <1>6, <1>7, OneTranche
<1>9. LoanedSum' = LoanedSum
  BY <1>7, LoanedStays
<1>10. RepaidSum' = RepaidSum
  BY <1>4, RepaidStays DEF Repaid, Exists
<1>11. pool' + seeded' + Claims(v) = pool + seeded + Claims(v)'
  <2>1. /\ SummandsNat /\ SummandsNat'
        /\ pool \in Nat /\ seeded \in Nat
    BY <1>1, Numbers
  <2>2. Claims(v) \in Nat /\ Claims(v)' \in Nat /\ assets \in Nat
    BY <1>2, <2>1 DEF SummandsNat, U64
  <2> QED BY <1>2, <1>3, <1>4, <1>5, <1>8, <2>1, <2>2
<1>12. ClaimsBalance(v)
  BY <1>8, <1>9, <1>10, <1>11 DEF ClaimsBalance
<1> QED BY <1>1, <1>8, <1>12, ClaimsStep

LEMMA AccrueKeeps ==
    ASSUME IInv, TypeOK', NEW v \in Vaults, NEW amount \in U64,
           AccrueYield(v, amount)
    PROVE  Shares' /\ ReserveIdentity'
<1> DEFINE take == YieldTake(v, amount)
<1>1. TypeOK /\ Shares /\ ReserveIdentity
  BY DEF IInv
<1>2. amount \in Nat
  BY DEF U64
<1>3. /\ take \in [Kinds -> Nat]
      /\ take["Prime"] + take["Core"] + take["Alpha"] = amount
  BY <1>1, <1>2, TakeSums
<1>4. /\ RowRepriced(v)
      /\ \A k \in Kinds : tranche'[v][k].assets = tranche[v][k].assets + take[k]
  BY <1>1, AccrueEffect
<1> HIDE DEF take
<1>5. /\ vault[v].state = "Active" /\ AllLive(v)
      /\ vault' = [vault EXCEPT ![v].lastYield = now]
      /\ pool' = pool + amount
      /\ UNCHANGED <<ptoken, lossBucket, loan, seeded>>
  BY DEF AccrueYield, IsActive
<1>6. /\ vault'[v].state = "Active" /\ vault'[v].loaned = vault[v].loaned
      /\ \A w \in Vaults : w # v => vault'[w] = vault[w]
  <2> DEFINE r == [vault[v] EXCEPT !.lastYield = now]
  <2>1. r \in VaultRecord /\ r.state = vault[v].state /\ r.loaned = vault[v].loaned
    <3>1. vault[v] \in VaultRecord /\ now \in Nat
      BY <1>1 DEF TypeOK
    <3> QED BY <3>1 DEF VaultRecord
  <2>2. vault' = [vault EXCEPT ![v] = r]
    BY <1>5
  <2> HIDE DEF r
  <2>3. vault'[v] = r /\ \A w \in Vaults : w # v => vault'[w] = vault[w]
    BY <1>1, <2>1, <2>2, VaultUpdate
  <2> QED BY <1>5, <2>1, <2>3
<1>7. Shares'
  BY <1>1, <1>4, <1>5, <1>6, OneRow
<1>8. /\ Claims(v)' = Claims(v) + take["Prime"] + take["Core"] + take["Alpha"] + 0
      /\ \A w \in Vaults : w # v => Claims(w)' = Claims(w)
  <2>1. take \in [Kinds -> Int]
    BY <1>3
  <2>2. lossBucket'[v] = lossBucket[v] + 0
    BY <1>1, <1>5 DEF TypeOK
  <2>3. \A w \in Vaults : w # v => lossBucket'[w] = lossBucket[w]
    BY <1>5
  <2> QED BY <1>1, <1>4, <2>1, <2>2, <2>3, RowClaims
<1>9. LoanedSum' = LoanedSum
  BY <1>6, LoanedStays
<1>10. RepaidSum' = RepaidSum
  BY <1>5, RepaidStays DEF Repaid, Exists
<1>11. pool' + seeded' + Claims(v) = pool + seeded + Claims(v)'
  <2>1. SummandsNat /\ SummandsNat' /\ pool \in Nat /\ seeded \in Nat
    BY <1>1, Numbers
  <2>2. Claims(v) \in Nat /\ Claims(v)' \in Nat
    BY <2>1 DEF SummandsNat
  <2>3. take["Prime"] \in Nat /\ take["Core"] \in Nat /\ take["Alpha"] \in Nat
    BY <1>3, KindsAre
  <2>4. Claims(v)' = Claims(v) + amount
    BY <1>3, <1>8, <2>2, <2>3
  <2> QED BY <1>2, <1>5, <2>1, <2>2, <2>4
<1>12. ClaimsBalance(v)
  BY <1>8, <1>9, <1>10, <1>11 DEF ClaimsBalance
<1> QED BY <1>1, <1>7, <1>12, ClaimsStep

\* The cascade moves claims from the tranches to the bucket: none is lost.
LEMMA CascadeKeeps ==
    ASSUME IInv, TypeOK', NEW v \in Vaults, NEW kind \in EventKinds,
           NEW loss \in U64, Cascade(v, kind, loss),
           UNCHANGED <<ptoken, loan, usdc>>
    PROVE  Shares' /\ ReserveIdentity'
<1> DEFINE hit == Hit(v, loss)
           delta == [k \in Kinds |-> 0 - hit[k]]
<1>1. TypeOK /\ Shares /\ ReserveIdentity
  BY DEF IInv
<1>2. loss \in Nat
  BY DEF U64
<1>3. /\ hit \in [Kinds -> Nat]
      /\ hit["Prime"] + hit["Core"] + hit["Alpha"] = loss
  BY <1>1, <1>2, HitSums DEF Cascade
<1>4. /\ RowRepriced(v)
      /\ \A k \in Kinds : tranche'[v][k].assets = tranche[v][k].assets - hit[k]
  BY <1>1, CascadeEffect
<1> HIDE DEF hit
<1>5. /\ vault'[v].state # "None"
      /\ vault'[v].loaned = vault[v].loaned
      /\ \A w \in Vaults : w # v => vault'[w] = vault[w]
      /\ lossBucket'[v] = lossBucket[v] + loss
      /\ \A w \in Vaults : w # v => lossBucket'[w] = lossBucket[w]
  BY <1>1, CascadeBooks
<1>6. AllLive(v)
  BY DEF Cascade
<1>7. Shares'
  BY <1>1, <1>4, <1>5, <1>6, OneRow
<1>8. /\ delta \in [Kinds -> Int]
      /\ delta["Prime"] = 0 - hit["Prime"]
      /\ delta["Core"] = 0 - hit["Core"]
      /\ delta["Alpha"] = 0 - hit["Alpha"]
  BY <1>3, KindsAre
<1>9. \A k \in Kinds : tranche'[v][k].assets = tranche[v][k].assets + delta[k]
  <2> SUFFICES ASSUME NEW k \in Kinds
               PROVE  tranche'[v][k].assets = tranche[v][k].assets + delta[k]
    OBVIOUS
  <2>1. hit[k] \in Nat /\ tranche[v][k].assets \in Nat
    BY <1>1, <1>3, TrancheFields
  <2> QED BY <1>4, <2>1
<1> HIDE DEF delta
<1>10. /\ Claims(v)' = Claims(v) + delta["Prime"] + delta["Core"] + delta["Alpha"] + loss
       /\ \A w \in Vaults : w # v => Claims(w)' = Claims(w)
  BY <1>1, <1>2, <1>4, <1>5, <1>8, <1>9, RowClaims
<1>11. LoanedSum' = LoanedSum
  BY <1>5, LoanedStays
<1>12. RepaidSum' = RepaidSum
  BY RepaidStays DEF Repaid, Exists
<1>13. pool' + seeded' + Claims(v) = pool + seeded + Claims(v)'
  <2>1. SummandsNat /\ SummandsNat' /\ pool \in Nat /\ seeded \in Nat
    BY <1>1, Numbers
  <2>2. Claims(v) \in Nat
    BY <2>1 DEF SummandsNat
  <2>3. hit["Prime"] \in Nat /\ hit["Core"] \in Nat /\ hit["Alpha"] \in Nat
    BY <1>3, KindsAre
  <2>4. Claims(v)' = Claims(v)
    BY <1>2, <1>3, <1>8, <1>10, <2>2, <2>3
  <2>5. pool' = pool /\ seeded' = seeded
    BY DEF usdc
  <2> QED BY <2>4, <2>5
<1>14. ClaimsBalance(v)
  BY <1>10, <1>11, <1>12, <1>13 DEF ClaimsBalance
<1> QED BY <1>1, <1>7, <1>14, ClaimsStep

\* Steps that leave the shares alone.
LEMMA SharesStay ==
    ASSUME Shares, UNCHANGED <<tranche, ptoken>>,
           \A v \in Vaults : vault'[v].state = "None" => vault'[v].loaned = 0
    PROVE  Shares'
<1>1. NavFresh'
  BY DEF Shares, NavFresh
<1>2. SupplyBacked'
  BY DEF Shares, SupplyBacked
<1>3. Untouched'
  BY DEF Shares, Untouched
<1> QED BY <1>1, <1>2, <1>3 DEF Shares

LEMMA LedgerStays ==
    ASSUME IInv, UNCHANGED <<ledger, loan, usdc>>
    PROVE  Shares' /\ ReserveIdentity'
<1>1. Shares /\ ReserveIdentity
  BY DEF IInv
<1>2. \A v \in Vaults : vault'[v].state = "None" => vault'[v].loaned = 0
  BY <1>1 DEF Shares, Untouched, ledger
<1>3. Shares'
  BY <1>1, <1>2, SharesStay DEF ledger
<1>4. ClaimsSum' = ClaimsSum
  BY ClaimsStay DEF Claims, TotalAssets, ledger
<1>5. LoanedSum' = LoanedSum
  BY LoanedStays DEF ledger
<1>6. RepaidSum' = RepaidSum
  BY RepaidStays DEF Repaid, Exists
<1>7. pool' = pool /\ seeded' = seeded
  BY DEF usdc
<1> QED BY <1>1, <1>3, <1>4, <1>5, <1>6, <1>7, IdentityIs, IdentityNext

LEMMA SeedKeeps ==
    ASSUME IInv, TypeOK', NEW v \in Vaults, NEW k \in Kinds, NEW used \in Nat,
           SeedPoolLiquidity(v, k, used)
    PROVE  Shares' /\ ReserveIdentity'
<1>1. TypeOK /\ Shares /\ ReserveIdentity
  BY DEF IInv
<1>2. /\ UNCHANGED <<ledger, loan>> /\ used <= pool
      /\ pool' = pool - used /\ seeded' = seeded + used
  BY DEF SeedPoolLiquidity
<1>3. \A w \in Vaults : vault'[w].state = "None" => vault'[w].loaned = 0
  BY <1>1, <1>2 DEF Shares, Untouched, ledger
<1>4. Shares'
  BY <1>1, <1>2, <1>3, SharesStay DEF ledger
<1>5. LoanedSum' = LoanedSum
  BY <1>2, LoanedStays DEF ledger
<1>6. RepaidSum' = RepaidSum
  BY <1>2, RepaidStays DEF Repaid, Exists
<1>7. \A w \in Vaults : Claims(w)' = Claims(w)
  BY <1>2 DEF Claims, TotalAssets, ledger
<1>8. pool' + seeded' = pool + seeded
  BY <1>1, <1>2 DEF TypeOK
<1>9. ClaimsBalance(v)
  BY <1>5, <1>6, <1>7, <1>8 DEF ClaimsBalance
<1> QED BY <1>1, <1>4, <1>9, ClaimsStep

LEMMA AdminKeeps ==
    ASSUME IInv, TypeOK', AdminStep
    PROVE  Shares' /\ ReserveIdentity'
<1>1. TypeOK /\ Shares /\ ReserveIdentity
  BY DEF IInv
<1>2. CASE Pause \/ Unpause
  BY <1>2, LedgerStays DEF Pause, Unpause
<1>3. ASSUME NEW v \in Vaults, InitVault(v)
      PROVE  Shares' /\ ReserveIdentity'
  <2> DEFINE r == [NoVault EXCEPT !.state = "Active", !.lastYield = now]
  <2>1. /\ vault[v].state = "None"
        /\ vault' = [vault EXCEPT ![v] = r]
        /\ UNCHANGED <<tranche, ptoken, lossBucket, loan, usdc>>
    BY <1>3 DEF InitVault
  <2>2. r.state = "Active" /\ r.loaned = 0
    BY DEF NoVault
  <2> HIDE DEF r
  <2>3. vault'[v] = r /\ \A w \in Vaults : w # v => vault'[w] = vault[w]
    BY <1>1, <2>1 DEF TypeOK
  <2>4. vault[v].loaned = 0
    BY <1>1, <2>1 DEF Shares, Untouched
  <2>5. \A w \in Vaults : vault'[w].loaned = vault[w].loaned
    BY <2>2, <2>3, <2>4
  <2>6. \A w \in Vaults : vault'[w].state = "None" => vault'[w].loaned = 0
    BY <1>1, <2>2, <2>3 DEF Shares, Untouched
  <2>7. Shares'
    BY <1>1, <2>1, <2>6, SharesStay
  <2>8. LoanedSum' = LoanedSum
    BY <2>5, LoanedStays
  <2>9. RepaidSum' = RepaidSum
    BY <2>1, RepaidStays DEF Repaid, Exists
  <2>10. \A w \in Vaults : Claims(w)' = Claims(w)
    BY <2>1 DEF Claims, TotalAssets
  <2>11. ClaimsBalance(v)
    BY <2>1, <2>8, <2>9, <2>10 DEF ClaimsBalance, usdc
  <2> QED BY <1>1, <2>7, <2>11, ClaimsStep
<1>4. ASSUME NEW v \in Vaults, NEW k \in Kinds, InitTranche(v, k)
      PROVE  Shares' /\ ReserveIdentity'
  <2> DEFINE r == [NoTranche EXCEPT !.live = TRUE]
  <2>1. /\ ~tranche[v][k].live
        /\ tranche' = [tranche EXCEPT ![v][k] = r]
        /\ UNCHANGED <<vault, ptoken, lossBucket, loan, usdc>>
    BY <1>4 DEF InitTranche
  <2>2. r.live /\ r.assets = 0 /\ r.supply = 0 /\ r.nav = 0
    BY DEF NoTranche
  <2> HIDE DEF r
  <2>3. /\ tranche'[v][k] = r
        /\ \A w \in Vaults, j \in Kinds :
              w # v \/ j # k => tranche'[w][j] = tranche[w][j]
    BY <1>1, <2>1 DEF TypeOK
  <2>4. tranche[v][k].assets = 0 /\ tranche[v][k].supply = 0
    BY <1>1, <2>1 DEF Shares, Untouched
  <2>5. \A w \in Vaults, j \in Kinds :
            /\ tranche'[w][j].assets = tranche[w][j].assets
            /\ tranche'[w][j].supply = tranche[w][j].supply
    BY <2>2, <2>3, <2>4
  <2>6. NavFresh'
    <3>1. ComputeNav(0, 0) = 0
      BY DEF ComputeNav
    <3> QED BY <1>1, <2>2, <2>3, <3>1 DEF Shares, NavFresh
  <2>7. SupplyBacked'
    BY <1>1, <2>1, <2>5 DEF Shares, SupplyBacked
  <2>8. Untouched'
    BY <1>1, <2>1, <2>2, <2>3 DEF Shares, Untouched
  <2>9. LoanedSum' = LoanedSum
    BY <2>1, LoanedStays
  <2>10. RepaidSum' = RepaidSum
    BY <2>1, RepaidStays DEF Repaid, Exists
  <2>11. \A w \in Vaults : Claims(w)' = Claims(w)
    BY <2>1, <2>5, KindsAre DEF Claims, TotalAssets
  <2>12. ClaimsBalance(v)
    BY <2>1, <2>9, <2>10, <2>11 DEF ClaimsBalance, usdc
  <2> QED BY <1>1, <2>6, <2>7, <2>8, <2>12, ClaimsStep DEF Shares
<1> QED BY <1>2, <1>3, <1>4 DEF AdminStep

LEMMA LoanKeeps ==
    ASSUME IInv, TypeOK', LoanStep
    PROVE  Shares' /\ ReserveIdentity'
<1>1. TypeOK /\ Shares /\ ReserveIdentity
  BY DEF IInv
<1>2. /\ SummandsNat /\ SummandsNat' /\ SumsNat /\ SumsNat'
      /\ pool \in Nat /\ seeded \in Nat
  BY <1>1, Numbers
<1>3. pool + seeded + LoanedSum = ClaimsSum + RepaidSum
  BY <1>1, IdentityIs
<1>4. ASSUME NEW l \in Loans, NEW v \in Vaults, NEW principal \in Amounts,
             InitLoan(v, l, principal)
      PROVE  Shares' /\ ReserveIdentity'
  <2>1. /\ ~Exists(l) /\ UNCHANGED <<ledger, usdc>>
        /\ loan' = [loan EXCEPT ![l] = [state |-> "Originated", vault |-> v,
                                       principal |-> principal, repaid |-> 0]]
    BY <1>4 DEF InitLoan
  <2>2. \A w \in Vaults : vault'[w].state = "None" => vault'[w].loaned = 0
    BY <1>1, <2>1 DEF Shares, Untouched, ledger
  <2>3. Shares'
    BY <1>1, <2>1, <2>2, SharesStay DEF ledger
  <2>4. \A m \in Loans : Repaid(m)' = Repaid(m)
    <3> SUFFICES ASSUME NEW m \in Loans PROVE Repaid(m)' = Repaid(m)
      OBVIOUS
    <3>1. CASE m = l
      <4>1. Repaid(l) = 0
        BY <2>1 DEF Repaid
      <4>2. loan'[l].repaid = 0
        BY <1>1, <2>1 DEF TypeOK
      <4> QED BY <3>1, <4>1, <4>2 DEF Repaid
    <3>2. CASE m # l
      <4>1. loan'[m] = loan[m]
        BY <1>1, <2>1, <3>2 DEF TypeOK
      <4> QED BY <4>1 DEF Repaid, Exists
    <3> QED BY <3>1, <3>2
  <2>5. RepaidSum' = RepaidSum
    BY <2>4, RepaidStays
  <2>6. LoanedSum' = LoanedSum
    BY <2>1, LoanedStays DEF ledger
  <2>7. \A w \in Vaults : Claims(w)' = Claims(w)
    BY <2>1 DEF Claims, TotalAssets, ledger
  <2>8. ClaimsBalance(v)
    BY <2>1, <2>5, <2>6, <2>7 DEF ClaimsBalance, usdc
  <2> QED BY <1>1, <2>3, <2>8, ClaimsStep
<1>5. ASSUME NEW l \in Loans, NEW v \in Vaults, DisburseLoan(v, l)
      PROVE  Shares' /\ ReserveIdentity'
  <2> DEFINE principal == loan[l].principal
  <2>1. /\ principal \in Nat /\ loan[l] \in LoanRecord
        /\ vault[v].loaned \in Nat /\ vault[v] \in VaultRecord
    BY <1>1, <1>5, LoanFields, VaultFields DEF DisburseLoan
  <2>2. /\ vault[v].state = "Active" /\ principal <= pool
        /\ pool' = pool - principal
        /\ loan' = [loan EXCEPT ![l].state = "Active"]
        /\ vault' = [vault EXCEPT ![v].loaned = @ + principal]
        /\ Exists(l)
        /\ UNCHANGED <<tranche, ptoken, lossBucket, seeded>>
    BY <1>5 DEF DisburseLoan, IsActive
  <2> HIDE DEF principal
  <2>3. /\ vault'[v].loaned = vault[v].loaned + principal
        /\ vault'[v].state = "Active"
        /\ \A w \in Vaults : w # v => vault'[w] = vault[w]
    <3> DEFINE r == [vault[v] EXCEPT !.loaned = vault[v].loaned + principal]
    <3>1. vault' = [vault EXCEPT ![v] = r]
      BY <2>2
    <3>2. r.loaned = vault[v].loaned + principal /\ r.state = vault[v].state
      BY <2>1 DEF VaultRecord
    <3> HIDE DEF r
    <3>3. vault'[v] = r /\ \A w \in Vaults : w # v => vault'[w] = vault[w]
      BY <1>1, <3>1 DEF TypeOK
    <3> QED BY <2>2, <3>2, <3>3
  <2>4. \A w \in Vaults : vault'[w].state = "None" => vault'[w].loaned = 0
    BY <1>1, <2>3 DEF Shares, Untouched
  <2>5. Shares'
    BY <1>1, <2>2, <2>4, SharesStay
  <2>6. LoanedSum' + vault[v].loaned = LoanedSum + vault'[v].loaned
    BY <1>2, <2>3, LoanedMoves
  <2>7. ClaimsSum' = ClaimsSum
    BY <2>2, ClaimsStay DEF Claims, TotalAssets
  <2>8. \A m \in Loans : Repaid(m)' = Repaid(m)
    <3> SUFFICES ASSUME NEW m \in Loans PROVE Repaid(m)' = Repaid(m)
      OBVIOUS
    <3>1. CASE m = l
      <4> DEFINE r == [loan[l] EXCEPT !.state = "Active"]
      <4>1. r.state = "Active" /\ r.repaid = loan[l].repaid
        BY <2>1 DEF LoanRecord
      <4>2. loan' = [loan EXCEPT ![l] = r]
        BY <2>2
      <4> HIDE DEF r
      <4>3. loan'[l] = r
        BY <1>1, <4>2 DEF TypeOK
      <4>4. Repaid(l) = loan[l].repaid
        BY <2>2 DEF Repaid
      <4>5. Repaid(l)' = loan'[l].repaid
        BY <4>1, <4>3 DEF Repaid, Exists
      <4> QED BY <3>1, <4>1, <4>3, <4>4, <4>5
    <3>2. CASE m # l
      <4>1. loan'[m] = loan[m]
        BY <1>1, <2>2, <3>2 DEF TypeOK
      <4> QED BY <4>1 DEF Repaid, Exists
    <3> QED BY <3>1, <3>2
  <2>9. RepaidSum' = RepaidSum
    BY <2>8, RepaidStays
  <2>10. pool' + seeded' + LoanedSum' = ClaimsSum' + RepaidSum'
    BY <1>2, <1>3, <2>1, <2>2, <2>3, <2>6, <2>7, <2>9 DEF SumsNat
  <2> QED BY <2>5, <2>10, IdentityNext
<1>6. ASSUME NEW l \in Loans, NEW amount \in Amounts, RepayLoan(l, amount)
      PROVE  Shares' /\ ReserveIdentity'
  <2> DEFINE total == loan[l].repaid + amount
             state == IF total >= loan[l].principal THEN "Repaid" ELSE "Repaying"
             r == [loan[l] EXCEPT !.repaid = total, !.state = state]
  <2>1. amount \in Nat /\ loan[l] \in LoanRecord /\ loan[l].repaid \in Nat
    BY <1>1, <1>6, LoanFields, CoreAssumption DEF RepayLoan, U64
  <2>2. /\ pool' = pool + amount /\ Exists(l)
        /\ loan' = [loan EXCEPT ![l] = r]
        /\ UNCHANGED ledger /\ seeded' = seeded
    BY <1>6 DEF RepayLoan
  <2>3. state # "None"
    OBVIOUS
  <2> HIDE DEF state
  <2>4. r.repaid = total /\ r.state = state
    BY <2>1 DEF LoanRecord
  <2> HIDE DEF r
  <2>5. loan'[l] = r /\ \A m \in Loans : m # l => loan'[m] = loan[m]
    BY <1>1, <2>2 DEF TypeOK
  <2>6. Repaid(l) = loan[l].repaid
    BY <2>2 DEF Repaid
  <2>7. Repaid(l)' = loan[l].repaid + amount
    BY <2>3, <2>4, <2>5 DEF Repaid, Exists
  <2>8. \A m \in Loans : m # l => Repaid(m)' = Repaid(m)
    BY <2>5 DEF Repaid, Exists
  <2>9. RepaidSum' + Repaid(l) = RepaidSum + Repaid(l)'
    BY <1>2, <2>8, RepaidMoves
  <2>10. LoanedSum' = LoanedSum
    BY <2>2, LoanedStays DEF ledger
  <2>11. ClaimsSum' = ClaimsSum
    BY <2>2, ClaimsStay DEF Claims, TotalAssets, ledger
  <2>12. pool' + seeded' + LoanedSum' = ClaimsSum' + RepaidSum'
    <3>1. /\ RepaidSum \in Nat /\ RepaidSum' \in Nat
          /\ LoanedSum \in Nat /\ ClaimsSum \in Nat
      BY <1>2 DEF SumsNat
    <3>2. RepaidSum' = RepaidSum + amount
      BY <2>1, <2>6, <2>7, <2>9, <3>1
    <3>3. pool' = pool + amount /\ seeded' = seeded
      BY <2>2
    <3> QED BY <1>2, <1>3, <2>1, <2>10, <2>11, <3>1, <3>2, <3>3
  <2>13. \A w \in Vaults : vault'[w].state = "None" => vault'[w].loaned = 0
    BY <1>1, <2>2 DEF Shares, Untouched, ledger
  <2>14. Shares'
    BY <1>1, <2>2, <2>13, SharesStay DEF ledger
  <2> QED BY <2>12, <2>14, IdentityNext
<1> QED BY <1>4, <1>5, <1>6 DEF LoanStep

LEMMA GateKeeps ==
    ASSUME IInv, TypeOK', GateStep
    PROVE  Shares' /\ ReserveIdentity'
<1>1. TypeOK
  BY DEF IInv
<1>2. "Default" \in EventKinds
  BY DEF EventKinds
<1>3. ASSUME NEW l \in Loans,
             \/ AttachCollateral(l) \/ VerifyCollateral(l)
             \/ ReleaseCollateral(l) \/ AttachEncryptScore(l)
      PROVE  Shares' /\ ReserveIdentity'
  BY <1>3, LedgerStays
     DEF AttachCollateral, VerifyCollateral, ReleaseCollateral, AttachEncryptScore
<1>4. ASSUME NEW l \in Loans, NEW loss \in Amounts, LiquidateCollateral(l, loss)
      PROVE  Shares' /\ ReserveIdentity'
  <2>1. loss \in U64 /\ loan[l].vault \in Vaults
    BY <1>1, <1>4, LoanFields, CoreAssumption DEF LiquidateCollateral
  <2>2. /\ Cascade(loan[l].vault, "Default", loss)
        /\ UNCHANGED <<ptoken, loan, usdc>>
    BY <1>4 DEF LiquidateCollateral
  <2> QED BY <1>2, <2>1, <2>2, CascadeKeeps
<1>5. ASSUME NEW l \in Loans, NEW loss \in Amounts, NEW v \in Vaults,
             VerifyEncryptDefault(v, l, loss)
      PROVE  Shares' /\ ReserveIdentity'
  <2>1. loss \in U64
    BY CoreAssumption
  <2>2. /\ Cascade(v, "Default", loss)
        /\ UNCHANGED <<ptoken, loan, usdc>>
    BY <1>5 DEF VerifyEncryptDefault
  <2> QED BY <1>2, <2>1, <2>2, CascadeKeeps
<1> QED BY <1>3, <1>4, <1>5 DEF GateStep

LEMMA InvestorKeeps ==
    ASSUME IInv, TypeOK', InvestorStep
    PROVE  Shares' /\ ReserveIdentity'
<1>1. PICK v \in Vaults, k \in Kinds :
          \/ \E amount \in Amounts : Deposit(v, k, amount)
          \/ \E shares \in 0 .. ptoken[v][k] : Withdraw(v, k, shares)
          \/ \E used \in Amounts : SeedPoolLiquidity(v, k, used)
  BY DEF InvestorStep
<1>2. \A amount \in Amounts : amount \in U64 /\ amount \in Nat
  BY CoreAssumption DEF U64
<1>3. CASE \E amount \in Amounts : Deposit(v, k, amount)
  BY <1>2, <1>3, DepositKeeps
<1>4. CASE \E shares \in 0 .. ptoken[v][k] : Withdraw(v, k, shares)
  BY <1>4, WithdrawKeeps
<1>5. CASE \E used \in Amounts : SeedPoolLiquidity(v, k, used)
  BY <1>2, <1>5, SeedKeeps
<1> QED BY <1>1, <1>3, <1>4, <1>5

LEMMA WaterfallKeeps ==
    ASSUME IInv, TypeOK', WaterfallStep
    PROVE  Shares' /\ ReserveIdentity'
<1>1. PICK v \in Vaults, amount \in Amounts :
          \/ AccrueYield(v, amount)
          \/ \E kind \in EventKinds : TriggerCreditEvent(v, kind, amount)
  BY DEF WaterfallStep
<1>2. amount \in U64
  BY CoreAssumption
<1>3. CASE AccrueYield(v, amount)
  BY <1>2, <1>3, AccrueKeeps
<1>4. ASSUME NEW kind \in EventKinds, TriggerCreditEvent(v, kind, amount)
      PROVE  Shares' /\ ReserveIdentity'
  <2>1. /\ Cascade(v, kind, amount)
        /\ UNCHANGED <<ptoken, loan, usdc>>
    BY <1>4 DEF TriggerCreditEvent
  <2> QED BY <1>2, <2>1, CascadeKeeps
<1> QED BY <1>1, <1>3, <1>4

-----------------------------------------------------------------------------
(* The theorems *)

LEMMA InitAccounting ==
    ASSUME Init
    PROVE  IInv
<1>1. TypeOK
  BY InitType
<1>2. ComputeNav(0, 0) = 0
  BY DEF ComputeNav
<1>3. Shares
  BY <1>2 DEF Init, Shares, NavFresh, SupplyBacked, Untouched, NoVault, NoTranche
<1>4. LoanedSum = 0
  <2>1. [v \in Vaults |-> vault[v].loaned] \in [Vaults -> Nat]
        /\ \A v \in Vaults : vault[v].loaned = 0
    BY DEF Init, NoVault
  <2> QED BY <2>1, TotalZero DEF LoanedSum
<1>5. ClaimsSum = 0
  <2>1. \A v \in Vaults : Claims(v) = 0
    BY KindsAre DEF Init, Claims, TotalAssets, NoTranche
  <2>2. [v \in Vaults |-> Claims(v)] \in [Vaults -> Nat]
    BY <2>1
  <2> QED BY <2>1, <2>2, TotalZero DEF ClaimsSum
<1>6. RepaidSum = 0
  <2>1. \A l \in Loans : Repaid(l) = 0
    BY DEF Init, Repaid, Exists, NoLoan
  <2>2. [l \in Loans |-> Repaid(l)] \in [Loans -> Nat]
    BY <2>1
  <2> QED BY <2>1, <2>2, TotalZero DEF RepaidSum
<1>7. ReserveIdentity
  BY <1>4, <1>5, <1>6, IdentityIs DEF Init
<1> QED BY <1>1, <1>3, <1>7 DEF IInv

LEMMA AccountingStep ==
    ASSUME IInv, [Next]_vars
    PROVE  IInv'
<1>1. TypeOK'
  BY TypeStep DEF IInv
<1>2. CASE Tick
  BY <1>1, <1>2, LedgerStays DEF Tick, IInv
<1>3. CASE UNCHANGED vars
  BY <1>1, <1>3, LedgerStays DEF vars, IInv
<1>4. CASE AdminStep
  BY <1>1, <1>4, AdminKeeps DEF IInv
<1>5. CASE InvestorStep
  BY <1>1, <1>5, InvestorKeeps DEF IInv
<1>6. CASE WaterfallStep
  BY <1>1, <1>6, WaterfallKeeps DEF IInv
<1>7. CASE LoanStep
  BY <1>1, <1>7, LoanKeeps DEF IInv
<1>8. CASE GateStep
  BY <1>1, <1>8, GateKeeps DEF IInv
<1> QED BY <1>2, <1>3, <1>4, <1>5, <1>6, <1>7, <1>8 DEF Next

\* The inductive invariant holds in every reachable state.
THEOREM AccountingInvariant == Spec => []IInv
<1>1. Init => IInv
  BY InitAccounting
<1>2. IInv /\ [Next]_vars => IInv'
  BY AccountingStep
<1> QED BY <1>1, <1>2, PTL DEF Spec

\* The USDC in the contract, with what was lent or seeded, is always what the
\* tranches and the buckets of all vaults claim and what borrowers repaid.
THEOREM ReserveCorrect == Spec => []ReserveIdentity
<1>1. IInv => ReserveIdentity
  BY DEF IInv
<1> QED BY <1>1, AccountingInvariant, PTL

\* The NAV on record is never stale.
THEOREM NavCorrect == Spec => []NavFresh
<1>1. IInv => NavFresh
  BY DEF IInv, Shares
<1> QED BY <1>1, AccountingInvariant, PTL

\* The recorded supply is always what circulates.
THEOREM SupplyCorrect == Spec => []SupplyBacked
<1>1. IInv => SupplyBacked
  BY DEF IInv, Shares
<1> QED BY <1>1, AccountingInvariant, PTL

\* Every tranche can pay all its holders at the NAV on record out of its own
\* assets.
THEOREM PayoutCorrect == Spec => []PayoutCovered
<1>1. IInv => PayoutCovered
  <2> SUFFICES ASSUME IInv, NEW v \in Vaults, NEW k \in Kinds
               PROVE  WithdrawPayout(ptoken[v][k], tranche[v][k].nav)
                        <= tranche[v][k].assets
    BY DEF PayoutCovered
  <2>1. tranche[v][k].assets \in Nat /\ tranche[v][k].supply \in Nat
    BY TrancheFields DEF IInv
  <2>2. /\ tranche[v][k].nav = ComputeNav(tranche[v][k].assets, tranche[v][k].supply)
        /\ tranche[v][k].supply = ptoken[v][k]
    BY DEF IInv, Shares, NavFresh, SupplyBacked
  <2>3. tranche[v][k].supply <= tranche[v][k].supply
    BY <2>1
  <2> QED BY <2>1, <2>2, <2>3, PayoutWithinAssets
<1> QED BY <1>1, AccountingInvariant, PTL

-----------------------------------------------------------------------------
(* The loan book *)

Principal(l) == IF Disbursed(l) THEN loan[l].principal ELSE 0

PrincipalSum == Total([l \in Loans |-> Principal(l)])

\* The book of every vault, and of all vaults together.
Books == LoanBook /\ LoanedSum = PrincipalSum

\* The books, when a step lends nothing.
LEMMA BookStays ==
    ASSUME Books, \A v \in Vaults : vault'[v].loaned = vault[v].loaned,
           \A v \in Vaults, l \in Loans : Lent(l, v)' = Lent(l, v),
           \A l \in Loans : Principal(l)' = Principal(l)
    PROVE  Books'
<1>1. ASSUME NEW v \in Vaults
      PROVE  vault'[v].loaned = Total([l \in Loans |-> Lent(l, v)'])
  <2>1. [l \in Loans |-> Lent(l, v)'] = [l \in Loans |-> Lent(l, v)]
    OBVIOUS
  <2> QED BY <2>1 DEF Books, LoanBook
<1>2. [l \in Loans |-> Principal(l)'] = [l \in Loans |-> Principal(l)]
  OBVIOUS
<1>3. LoanedSum' = LoanedSum
  BY LoanedStays
<1> QED BY <1>1, <1>2, <1>3 DEF Books, LoanBook, PrincipalSum

LEMMA LentType ==
    ASSUME TypeOK, NEW v \in Vaults
    PROVE  [l \in Loans |-> Lent(l, v)] \in [Loans -> Nat]
  BY LoanFields DEF Lent, Disbursed

LEMMA LentTypeNext == ASSUME TypeOK', NEW v \in Vaults
    PROVE  [l \in Loans |-> Lent(l, v)'] \in [Loans -> Nat]
<1>1. ASSUME NEW l \in Loans PROVE Lent(l, v)' \in Nat
  <2>1. CASE Exists(l)'
    <3>1. loan'[l] \in LoanRecord
      BY <2>1 DEF TypeOK, Exists, NoLoan
    <3> QED BY <3>1 DEF Lent, Disbursed, LoanRecord, U64
  <2>2. CASE ~Exists(l)'
    BY <2>2 DEF Lent, Disbursed
  <2> QED BY <2>1, <2>2
<1> QED BY <1>1

LEMMA PrincipalType ==
    ASSUME TypeOK
    PROVE  [l \in Loans |-> Principal(l)] \in [Loans -> Nat]
  BY LoanFields DEF Principal, Disbursed

LEMMA PrincipalTypeNext == ASSUME TypeOK'
    PROVE  [l \in Loans |-> Principal(l)'] \in [Loans -> Nat]
<1>1. ASSUME NEW l \in Loans PROVE Principal(l)' \in Nat
  <2>1. CASE Exists(l)'
    <3>1. loan'[l] \in LoanRecord
      BY <2>1 DEF TypeOK, Exists, NoLoan
    <3> QED BY <3>1 DEF Principal, Disbursed, LoanRecord, U64
  <2>2. CASE ~Exists(l)'
    BY <2>2 DEF Principal, Disbursed
  <2> QED BY <2>1, <2>2
<1> QED BY <1>1

\* Disbursing a loan adds its principal to its vault's total, to no other, and
\* to the total of all.
LEMMA BookDisburse ==
    ASSUME TypeOK, TypeOK', Books, NEW v \in Vaults, NEW l \in Loans,
           DisburseLoan(v, l)
    PROVE  Books'
<1>1. /\ loan[l].principal \in Nat
      /\ vault'[v].loaned = vault[v].loaned + loan[l].principal
      /\ \A w \in Vaults : w # v => vault'[w] = vault[w]
      /\ loan[l].vault = v /\ loan[l].state = "Originated"
      /\ loan'[l].vault = v /\ loan'[l].state = "Active"
      /\ loan'[l].principal = loan[l].principal
      /\ \A m \in Loans : m # l => loan'[m] = loan[m]
  BY DisburseWrites
<1>2. /\ Lent(l, v) = 0 /\ Lent(l, v)' = loan[l].principal
      /\ \A w \in Vaults : w # v => Lent(l, w)' = Lent(l, w)
      /\ \A w \in Vaults, m \in Loans : m # l => Lent(m, w)' = Lent(m, w)
  BY <1>1 DEF Lent, Disbursed, Exists
<1>3. ASSUME NEW w \in Vaults
      PROVE  vault'[w].loaned = Total([m \in Loans |-> Lent(m, w)'])
  <2>1. vault[w].loaned = Total([m \in Loans |-> Lent(m, w)])
    BY DEF Books, LoanBook
  <2>2. CASE w = v
    <3> DEFINE f == [m \in Loans |-> Lent(m, v)]
               g == [m \in Loans |-> Lent(m, v)']
    <3>1. /\ f \in [Loans -> Nat] /\ g \in [Loans -> Nat]
          /\ \A m \in Loans \ {l} : g[m] = f[m]
          /\ f[l] = 0 /\ g[l] = loan[l].principal
      BY <1>2, LentType, LentTypeNext
    <3> HIDE DEF f, g
    <3>2. Total(g) + f[l] = Total(f) + g[l] /\ Total(f) \in Nat /\ Total(g) \in Nat
      BY <3>1, CoreAssumption, TotalUpdate, TotalType
    <3>3. Total(g) = Total(f) + loan[l].principal
      BY <1>1, <3>1, <3>2
    <3> QED BY <1>1, <2>1, <2>2, <3>3 DEF f, g
  <2>3. CASE w # v
    <3>1. [m \in Loans |-> Lent(m, w)'] = [m \in Loans |-> Lent(m, w)]
      BY <1>2, <2>3
    <3> QED BY <1>1, <2>1, <2>3, <3>1
  <2> QED BY <2>2, <2>3
<1>4. LoanedSum' + vault[v].loaned = LoanedSum + vault'[v].loaned
      /\ LoanedSum \in Nat /\ LoanedSum' \in Nat
  BY <1>1, SummandsType, SumsType, SumsTypeNext, LoanedMoves DEF SumsNat
<1>5. PrincipalSum' = PrincipalSum + loan[l].principal /\ PrincipalSum \in Nat
  <2> DEFINE f == [m \in Loans |-> Principal(m)]
             g == [m \in Loans |-> Principal(m)']
  <2>1. /\ f \in [Loans -> Nat] /\ g \in [Loans -> Nat]
        /\ \A m \in Loans \ {l} : g[m] = f[m]
        /\ f[l] = 0 /\ g[l] = loan[l].principal
    BY <1>1, PrincipalType, PrincipalTypeNext DEF Principal, Disbursed, Exists
  <2>2. PrincipalSum = Total(f) /\ PrincipalSum' = Total(g)
    BY DEF PrincipalSum
  <2> HIDE DEF f, g
  <2>3. Total(g) + f[l] = Total(f) + g[l] /\ Total(f) \in Nat /\ Total(g) \in Nat
    BY <2>1, CoreAssumption, TotalUpdate, TotalType
  <2> QED BY <1>1, <2>1, <2>2, <2>3
<1>6. vault[v].loaned \in Nat
  BY VaultFields
<1>7. LoanedSum' = PrincipalSum'
  BY <1>1, <1>4, <1>5, <1>6 DEF Books
<1> QED BY <1>3, <1>7 DEF Books, LoanBook

LEMMA BookStep ==
    ASSUME IInv, TypeOK', Books, [Next]_vars
    PROVE  Books'
<1>1. TypeOK
  BY DEF IInv
<1>2. ASSUME UNCHANGED loan, \A v \in Vaults : vault'[v].loaned = vault[v].loaned
      PROVE  Books'
  BY <1>2, BookStays DEF Lent, Principal, Disbursed, Exists
<1>3. CASE LoanStep
  <2>1. ASSUME NEW l \in Loans, NEW v \in Vaults, NEW principal \in Amounts,
               InitLoan(v, l, principal)
        PROVE  Books'
    <3>1. /\ ~Exists(l) /\ loan'[l].state = "Originated"
          /\ \A m \in Loans : m # l => loan'[m] = loan[m]
          /\ UNCHANGED vault
      BY <1>1, <2>1 DEF InitLoan, TypeOK, ledger
    <3>2. \A m \in Loans : /\ Principal(m)' = Principal(m)
                           /\ \A w \in Vaults : Lent(m, w)' = Lent(m, w)
      BY <3>1 DEF Lent, Principal, Disbursed, Exists
    <3> QED BY <3>1, <3>2, BookStays
  <2>2. ASSUME NEW l \in Loans, NEW v \in Vaults, DisburseLoan(v, l)
        PROVE  Books'
    BY <1>1, <2>2, BookDisburse
  <2>3. ASSUME NEW l \in Loans, NEW amount \in Amounts, RepayLoan(l, amount)
        PROVE  Books'
    <3> DEFINE r == [loan[l] EXCEPT
                        !.repaid = loan[l].repaid + amount,
                        !.state = IF loan[l].repaid + amount >= loan[l].principal
                                  THEN "Repaid" ELSE "Repaying"]
    <3>1. /\ loan[l].state \in {"Active", "Repaying"} /\ UNCHANGED vault
          /\ loan' = [loan EXCEPT ![l] = r]
          /\ loan[l] \in LoanRecord
      BY <1>1, <2>3, LoanFields DEF RepayLoan, ledger
    <3>2. /\ r.state \in {"Repaid", "Repaying"}
          /\ r.vault = loan[l].vault /\ r.principal = loan[l].principal
      BY <3>1 DEF LoanRecord
    <3> HIDE DEF r
    <3>3. loan'[l] = r /\ \A m \in Loans : m # l => loan'[m] = loan[m]
      BY <1>1, <3>1 DEF TypeOK
    <3>4. \A m \in Loans : /\ Principal(m)' = Principal(m)
                           /\ \A w \in Vaults : Lent(m, w)' = Lent(m, w)
      BY <3>1, <3>2, <3>3 DEF Lent, Principal, Disbursed, Exists
    <3> QED BY <3>1, <3>4, BookStays
  <2> QED BY <1>3, <2>1, <2>2, <2>3 DEF LoanStep
<1>4. CASE Cascades
  <2>1. UNCHANGED loan
    BY <1>4 DEF Cascades
  <2>2. \A v \in Vaults : vault'[v].loaned = vault[v].loaned
    BY <1>1, <1>4, CascadeBooks DEF Cascades
  <2> QED BY <1>2, <2>1, <2>2
<1>5. CASE AdminStep
  <2>1. \A v \in Vaults : InitVault(v) =>
            UNCHANGED loan /\ \A w \in Vaults : vault'[w].loaned = vault[w].loaned
    <3> SUFFICES ASSUME NEW v \in Vaults, InitVault(v)
                 PROVE  UNCHANGED loan /\ \A w \in Vaults : vault'[w].loaned = vault[w].loaned
      OBVIOUS
    <3>1. vault[v].loaned = 0
      BY <1>1, InitVaultWrites DEF IInv, Shares, Untouched
    <3> QED BY <1>1, <3>1, InitVaultWrites
  <2>2. \A v \in Vaults, k \in Kinds : InitTranche(v, k) => UNCHANGED <<loan, vault>>
    BY <1>1, InitTrancheWrites
  <2>3. Pause \/ Unpause => UNCHANGED <<loan, vault>>
    BY DEF Pause, Unpause, ledger
  <2> QED BY <1>2, <1>5, <2>1, <2>2, <2>3 DEF AdminStep
<1>6. CASE InvestorStep
  <2>1. \A v \in Vaults, k \in Kinds : ptoken[v][k] \in Nat
    BY <1>1 DEF TypeOK
  <2>2. \A v \in Vaults, k \in Kinds, amount \in Amounts : Deposit(v, k, amount) =>
            UNCHANGED loan /\ \A w \in Vaults : vault'[w].loaned = vault[w].loaned
    BY <1>1, CoreAssumption, DepositWrites
  <2>3. \A v \in Vaults, k \in Kinds, shares \in Nat : Withdraw(v, k, shares) =>
            UNCHANGED loan /\ \A w \in Vaults : vault'[w].loaned = vault[w].loaned
    BY <1>1, WithdrawWrites
  <2>4. \A v \in Vaults, k \in Kinds, used \in Amounts :
            SeedPoolLiquidity(v, k, used) => UNCHANGED <<loan, vault>>
    BY DEF SeedPoolLiquidity, ledger
  <2> QED BY <1>2, <1>6, <2>1, <2>2, <2>3, <2>4 DEF InvestorStep
<1>7. CASE WaterfallStep
  <2>1. \A v \in Vaults, amount \in Amounts : AccrueYield(v, amount) =>
            UNCHANGED loan /\ \A w \in Vaults : vault'[w].loaned = vault[w].loaned
    BY <1>1, CoreAssumption, AccrueWrites
  <2>2. \A v \in Vaults, kind \in EventKinds, amount \in Amounts :
            TriggerCreditEvent(v, kind, amount) => Cascades
    BY CoreAssumption DEF TriggerCreditEvent, Cascades
  <2> QED BY <1>2, <1>4, <1>7, <2>1, <2>2 DEF WaterfallStep
<1>8. CASE GateStep
  <2>1. \/ UNCHANGED <<ledger, loan>>
        \/ Cascades
    <3>1. \A l \in Loans : \/ AttachCollateral(l) \/ VerifyCollateral(l)
                           \/ ReleaseCollateral(l) \/ AttachEncryptScore(l)
                           => UNCHANGED <<ledger, loan>>
      BY DEF AttachCollateral, VerifyCollateral, ReleaseCollateral, AttachEncryptScore
    <3>2. \A l \in Loans, loss \in Amounts : LiquidateCollateral(l, loss) => Cascades
      BY <1>1, LiquidationCascades
    <3>3. \A l \in Loans, v \in Vaults, loss \in Amounts :
              VerifyEncryptDefault(v, l, loss) => Cascades
      BY DefaultCascades
    <3> QED BY <1>8, <3>1, <3>2, <3>3 DEF GateStep
  <2> QED BY <1>2, <1>4, <2>1 DEF ledger
<1>9. CASE Tick \/ UNCHANGED vars
  BY <1>2, <1>9 DEF Tick, vars, ledger
<1> QED BY <1>3, <1>5, <1>6, <1>7, <1>8, <1>9 DEF Next

\* The books balance: per vault and over all vaults, total_loaned is the
\* principal of the loans that were disbursed.
THEOREM BooksCorrect == Spec => []Books
<1>1. Init => Books
  <2> SUFFICES ASSUME Init PROVE Books
    OBVIOUS
  <2>1. /\ \A l \in Loans : Principal(l) = 0 /\ \A v \in Vaults : Lent(l, v) = 0
        /\ \A v \in Vaults : vault[v].loaned = 0
    BY DEF Init, Lent, Principal, Disbursed, Exists, NoLoan, NoVault
  <2>2. \A v \in Vaults : Total([l \in Loans |-> Lent(l, v)]) = 0
    BY <2>1, TotalZero
  <2>3. LoanedSum = 0 /\ PrincipalSum = 0
    BY <2>1, TotalZero DEF LoanedSum, PrincipalSum
  <2> QED BY <2>1, <2>2, <2>3 DEF Books, LoanBook
<1>2. IInv /\ IInv' /\ Books /\ [Next]_vars => Books'
  BY BookStep DEF IInv
<1> QED BY <1>1, <1>2, AccountingInvariant, PTL DEF Spec

\* The total_loaned of a vault is the principal of its loans that were
\* disbursed, each counted once.
THEOREM BookCorrect == Spec => []LoanBook
<1>1. Books => LoanBook
  BY DEF Books
<1> QED BY <1>1, BooksCorrect, PTL

-----------------------------------------------------------------------------
(* What holders are owed *)

\* Whoever holds pTokens, in however many vaults, is paid in full as soon as
\* the USDC that is out on unpaid loans and in Soroswap pairs is back, and
\* without the loss buckets.
THEOREM WithdrawalsCorrect == Spec => []WithdrawalsFunded
<1>1. IInv /\ PayoutCovered /\ Books => WithdrawalsFunded
  <2> SUFFICES ASSUME IInv, PayoutCovered, Books PROVE WithdrawalsFunded
    OBVIOUS
  <2>1. TypeOK /\ ReserveIdentity
    BY DEF IInv
  <2> DEFINE due == [v \in Vaults |-> Owed(v) + lossBucket[v]]
             claims == [v \in Vaults |-> Claims(v)]
             out == [l \in Loans |-> Outstanding(l)]
             back == [l \in Loans |-> Repaid(l)]
             lent == [l \in Loans |-> Principal(l)]
  <2>2. ASSUME NEW v \in Vaults
        PROVE  due[v] \in Nat /\ claims[v] \in Nat /\ due[v] <= claims[v]
    <3>1. \A k \in Kinds :
              /\ ptoken[v][k] \in Nat /\ tranche[v][k].nav \in Nat
              /\ tranche[v][k].assets \in Nat
      BY <2>1, TrancheFields DEF TypeOK, TrancheRecord
    <3>2. \A k \in Kinds :
              /\ WithdrawPayout(ptoken[v][k], tranche[v][k].nav) \in Nat
              /\ WithdrawPayout(ptoken[v][k], tranche[v][k].nav)
                    <= tranche[v][k].assets
      BY <3>1, PayoutBound DEF PayoutCovered
    <3>3. lossBucket[v] \in Nat
      BY <2>1 DEF TypeOK
    <3>4. Owed(v) \in Nat /\ TotalAssets(v) \in Nat /\ Owed(v) <= TotalAssets(v)
      BY <3>1, <3>2, KindsAre DEF Owed, TotalAssets
    <3> QED BY <3>3, <3>4 DEF Claims
  <2>3. ASSUME NEW l \in Loans
        PROVE  /\ out[l] \in Nat /\ back[l] \in Nat /\ lent[l] \in Nat
               /\ lent[l] <= out[l] + back[l]
    BY <2>1, LoanFields DEF Outstanding, Repaid, Principal, Disbursed, SaturatingSub
  <2>4. Total(due) <= Total(claims)
    <3>1. due \in [Vaults -> Nat] /\ claims \in [Vaults -> Nat]
      BY <2>2
    <3> HIDE DEF due, claims
    <3> QED BY <2>2, <3>1, CoreAssumption, TotalMonotone
  <2>5. Total(lent) <= Total(out) + Total(back)
    <3>1. /\ out \in [Loans -> Nat] /\ back \in [Loans -> Nat]
          /\ lent \in [Loans -> Nat]
      BY <2>3
    <3> HIDE DEF out, back, lent
    <3> QED BY <2>3, <3>1, CoreAssumption, TotalCovered
  <2>6. /\ Total(due) \in Nat /\ Total(claims) \in Nat /\ Total(out) \in Nat
        /\ Total(back) \in Nat /\ Total(lent) \in Nat
    <3>1. /\ due \in [Vaults -> Nat] /\ claims \in [Vaults -> Nat]
          /\ out \in [Loans -> Nat] /\ back \in [Loans -> Nat]
          /\ lent \in [Loans -> Nat]
      BY <2>2, <2>3
    <3> HIDE DEF due, claims, out, back, lent
    <3> QED BY <3>1, CoreAssumption, TotalType
  <2>7. pool + seeded + Total(lent) = Total(claims) + Total(back)
    BY <2>1 DEF ReserveIdentity, Books, LoanedSum, PrincipalSum
  <2>8. pool \in Nat /\ seeded \in Nat
    BY <2>1 DEF TypeOK
  <2>9. Total(due) <= pool + seeded + Total(out)
    <3> HIDE DEF due, claims, out, back, lent
    <3> QED BY <2>4, <2>5, <2>6, <2>7, <2>8
  <2> QED BY <2>9 DEF WithdrawalsFunded
<1> QED BY <1>1, AccountingInvariant, PayoutCorrect, BooksCorrect, PTL

-----------------------------------------------------------------------------
(* A defaulted vault *)

LEMMA DefaultedStep ==
    ASSUME IInv, [Next]_vars
    PROVE  DefaultedStays
<1> DEFINE Closed(v) ==
       /\ vault'[v].state = "Defaulted"
       /\ vault'[v].loaned = vault[v].loaned
       /\ eventLog'[v] = eventLog[v]
       /\ \A k \in Kinds :
             /\ tranche'[v][k].assets <= tranche[v][k].assets
             /\ tranche'[v][k].supply <= tranche[v][k].supply
<1> SUFFICES ASSUME NEW v \in Vaults, vault[v].state = "Defaulted"
             PROVE  Closed(v)
  BY DEF DefaultedStays
<1>1. TypeOK /\ Shares
  BY DEF IInv
<1>2. \A k \in Kinds : tranche[v][k].assets \in Nat /\ tranche[v][k].supply \in Nat
  BY <1>1, TrancheFields
<1>3. ASSUME vault'[v] = vault[v], eventLog'[v] = eventLog[v], tranche'[v] = tranche[v]
      PROVE  Closed(v)
  BY <1>2, <1>3
<1>4. CASE UNCHANGED ledger
  BY <1>3, <1>4 DEF ledger
<1>5. ASSUME NEW w \in Vaults, InitVault(w) PROVE Closed(v)
  BY <1>1, <1>3, <1>5, InitVaultWrites
<1>6. ASSUME NEW w \in Vaults, NEW j \in Kinds, InitTranche(w, j) PROVE Closed(v)
  <2>1. \A k \in Kinds : /\ tranche'[v][k].assets = tranche[v][k].assets
                         /\ tranche'[v][k].supply = tranche[v][k].supply
    BY <1>1, <1>6, InitTrancheWrites DEF Shares, Untouched, NoTranche
  <2> QED BY <1>1, <1>2, <1>6, <2>1, InitTrancheWrites
<1>7. ASSUME NEW w \in Vaults, NEW j \in Kinds, NEW amount \in U64,
             Deposit(w, j, amount)
      PROVE  Closed(v)
  <2>1. w # v
    BY <1>7 DEF Deposit, IsActive
  <2>2. /\ vault'[v].state = vault[v].state /\ vault'[v].loaned = vault[v].loaned
        /\ eventLog' = eventLog
        /\ \A k \in Kinds : tranche'[v][k] = tranche[v][k]
    BY <1>1, <1>7, <2>1, DepositWrites DEF Repriced
  <2> QED BY <1>2, <2>2
<1>8. ASSUME NEW w \in Vaults, NEW j \in Kinds, NEW shares \in Nat,
             Withdraw(w, j, shares)
      PROVE  Closed(v)
  <2> DEFINE t == tranche[w][j]
             payout == WithdrawPayout(shares, t.nav)
             assets == SaturatingSub(t.assets, payout)
             supply == SaturatingSub(t.supply, shares)
  <2>1. /\ vault'[v].state = vault[v].state /\ vault'[v].loaned = vault[v].loaned
        /\ eventLog' = eventLog /\ payout \in Nat
        /\ Repriced(w, j, assets, supply)
    BY <1>1, <1>8, WithdrawWrites
  <2>2. t.assets \in Nat /\ t.supply \in Nat
    BY <1>1, TrancheFields
  <2> HIDE DEF payout
  <2>3. assets <= t.assets /\ supply <= t.supply
    BY <2>1, <2>2 DEF SaturatingSub
  <2> HIDE DEF assets, supply
  <2>4. \A k \in Kinds : /\ tranche'[v][k].assets <= tranche[v][k].assets
                         /\ tranche'[v][k].supply <= tranche[v][k].supply
    <3> SUFFICES ASSUME NEW k \in Kinds
                 PROVE  /\ tranche'[v][k].assets <= tranche[v][k].assets
                        /\ tranche'[v][k].supply <= tranche[v][k].supply
      OBVIOUS
    <3>1. CASE w = v /\ j = k
      BY <2>1, <2>3, <3>1 DEF Repriced
    <3>2. CASE w # v \/ j # k
      <4>1. tranche'[v][k] = tranche[v][k]
        BY <2>1, <3>2 DEF Repriced
      <4> QED BY <1>2, <4>1
    <3> QED BY <3>1, <3>2
  <2> QED BY <2>1, <2>4
<1>9. ASSUME NEW w \in Vaults, NEW amount \in U64, AccrueYield(w, amount)
      PROVE  Closed(v)
  BY <1>1, <1>3, <1>9, AccrueWrites, AccrueEffect DEF RowRepriced
<1>10. ASSUME NEW w \in Vaults, NEW l \in Loans, DisburseLoan(w, l) PROVE Closed(v)
  BY <1>1, <1>3, <1>10, DisburseWrites
<1>11. CASE Cascades
  <2>1. PICK w \in Vaults, kind \in EventKinds, loss \in U64 : Cascade(w, kind, loss)
    BY <1>11 DEF Cascades
  <2> QED BY <1>1, <1>3, <2>1, CascadeWrites, CascadeEffect DEF RowRepriced
<1> QED BY <1>1, <1>4, <1>5, <1>6, <1>7, <1>8, <1>9, <1>10, <1>11, StepIs DEF LedgerStep

\* A defaulted vault stays so, logs no event, lends nothing, and its tranches
\* only shrink.
THEOREM DefaultCorrect == Spec => DefaultIsFinal
<1>1. IInv /\ [Next]_vars => [DefaultedStays]_vars
  BY DefaultedStep
<1> QED BY <1>1, AccountingInvariant, PTL DEF Spec, DefaultIsFinal

-----------------------------------------------------------------------------
(* Prices *)

\* More assets under the same shares never lower the NAV.
LEMMA NavMonotone ==
    ASSUME NEW less \in Nat, NEW more \in Nat, less <= more, NEW supply \in Nat
    PROVE  ComputeNav(less, supply) <= ComputeNav(more, supply)
<1>1. CASE supply = 0
  BY <1>1 DEF ComputeNav
<1>2. CASE supply > 0
  <2> DEFINE nav == ComputeNav(less, supply)
  <2>1. nav \in Nat /\ nav * supply <= less * QOne
    BY <1>2, NavBound
  <2>2. less * QOne <= more * QOne
    BY MultMonotone, MathAssumption
  <2>3. ComputeNav(more, supply) = (more * QOne) \div supply
    BY <1>2 DEF ComputeNav
  <2> HIDE DEF nav
  <2>4. more * QOne \in Nat /\ less * QOne \in Nat /\ nav * supply \in Nat
    BY <2>1, MathAssumption
  <2>5. nav * supply <= more * QOne
    BY <2>1, <2>2, <2>4
  <2> QED BY <1>2, <2>1, <2>3, <2>4, <2>5, DivAtLeast DEF nav
<1> QED BY <1>1, <1>2

\* A deposit that mints something takes something.
LEMMA MintsForSomething ==
    ASSUME NEW amount \in Nat, NEW nav \in Nat, NEW supply \in Nat,
           DepositPriced(amount, nav, supply),
           DepositShares(amount, nav, supply) > 0
    PROVE  amount > 0
<1> SUFFICES ASSUME amount = 0 PROVE FALSE
  OBVIOUS
<1>1. supply # 0 /\ nav > 0
  BY DEF DepositShares, DepositPriced
<1>2. 0 * QOne = 0
  BY MathAssumption
<1>3. 0 \div nav = 0
  BY <1>1
<1> QED BY <1>1, <1>2, <1>3 DEF DepositShares

LEMMA NavStep ==
    ASSUME IInv, IInv', [Next]_vars
    PROVE  NavFalls
<1> SUFFICES ASSUME NEW v \in Vaults, NEW k \in Kinds,
                    tranche'[v][k].supply > 0,
                    tranche'[v][k].nav < tranche[v][k].nav
             PROVE  \/ /\ tranche'[v][k].assets < tranche[v][k].assets
                       /\ lossBucket'[v] > lossBucket[v]
                    \/ /\ tranche'[v][k].assets > tranche[v][k].assets
                       /\ tranche'[v][k].supply > tranche[v][k].supply
  BY DEF NavFalls
<1> DEFINE t == tranche[v][k]
           u == tranche'[v][k]
<1>1. TypeOK /\ Shares
  BY DEF IInv
<1>2. /\ t.assets \in Nat /\ t.supply \in Nat /\ t.nav \in Nat
      /\ t.nav = ComputeNav(t.assets, t.supply) /\ t.supply = ptoken[v][k]
  BY <1>1, TrancheFields DEF Shares, NavFresh, SupplyBacked
<1>3. u.nav = ComputeNav(u.assets, u.supply)
  BY DEF IInv, Shares, NavFresh
<1>4. u # t
  <2>1. ~(t.nav < t.nav)
    BY <1>2
  <2> QED BY <2>1
<1>5. ASSUME u.assets \in Nat, u.assets >= t.assets, u.supply = t.supply
      PROVE  FALSE
  <2>1. t.nav <= u.nav
    BY <1>2, <1>3, <1>5, NavMonotone
  <2>2. u.nav \in Nat
    BY <1>2, <1>3, <1>5, NavBound
  <2> QED BY <1>2, <2>1, <2>2
<1>6. CASE UNCHANGED ledger
  BY <1>4, <1>6 DEF ledger
<1>7. ASSUME NEW w \in Vaults, InitVault(w) PROVE FALSE
  BY <1>4, <1>7 DEF InitVault
<1>8. ASSUME NEW w \in Vaults, NEW j \in Kinds, InitTranche(w, j) PROVE FALSE
  BY <1>1, <1>4, <1>8, InitTrancheWrites DEF NoTranche
<1>9. ASSUME NEW w \in Vaults, NEW j \in Kinds, NEW amount \in U64,
             Deposit(w, j, amount)
      PROVE  u.assets > t.assets /\ u.supply > t.supply
  <2> DEFINE shares == DepositShares(amount, t.nav, t.supply)
  <2>1. w = v /\ j = k
    BY <1>1, <1>4, <1>9, DepositWrites DEF Repriced
  <2>2. /\ shares \in Nat /\ amount \in Nat
        /\ u.assets = t.assets + amount /\ u.supply = t.supply + shares
    BY <1>1, <1>9, <2>1, DepositWrites DEF Repriced
  <2>3. DepositPriced(amount, t.nav, t.supply)
    BY <1>9, <2>1 DEF Deposit
  <2> HIDE DEF t, u
  <2>4. shares # 0
    <3> HIDE DEF shares
    <3> QED BY <1>2, <1>5, <2>2
  <2>5. amount > 0
    BY <1>2, <2>2, <2>3, <2>4, MintsForSomething
  <2> HIDE DEF shares
  <2> QED BY <1>2, <2>2, <2>4, <2>5
<1>10. ASSUME NEW w \in Vaults, NEW j \in Kinds, NEW shares \in Nat,
              Withdraw(w, j, shares)
       PROVE  FALSE
  <2> DEFINE payout == WithdrawPayout(shares, t.nav)
  <2>1. w = v /\ j = k
    BY <1>1, <1>4, <1>10, WithdrawWrites DEF Repriced
  <2>2. /\ payout \in Nat
        /\ u.assets = SaturatingSub(t.assets, payout)
        /\ u.supply = SaturatingSub(t.supply, shares)
    BY <1>1, <1>10, <2>1, WithdrawWrites DEF Repriced
  <2>3. /\ SaturatingSub(t.assets, payout) + payout = t.assets
        /\ SaturatingSub(t.supply, shares) = ptoken[v][k] - shares
    BY <1>1, <1>10, <2>1, WithdrawExact
  <2>4. u.assets \in Nat
    BY DEF IInv, TypeOK, TrancheRecord, U64
  <2>5. payout = WithdrawPayout(shares, ComputeNav(t.assets, t.supply))
    BY <1>2
  <2>6. u.supply > 0
    OBVIOUS
  <2>7. t.nav > u.nav
    OBVIOUS
  <2> HIDE DEF payout, t, u
  <2>8. u.assets = t.assets - payout /\ u.supply = t.supply - shares
    BY <1>2, <2>2, <2>3, <2>4
  <2>9. shares < t.supply
    BY <1>2, <2>6, <2>8
  <2>10. t.nav <= u.nav
    BY <1>2, <1>3, <2>5, <2>8, <2>9, LeavingNeverLowersNav
  <2>11. u.nav \in Nat
    <3>1. u.supply \in Nat
      BY <1>2, <2>8, <2>9
    <3> QED BY <1>3, <2>4, <3>1, NavBound
  <2> QED BY <1>2, <2>7, <2>10, <2>11
<1>11. ASSUME NEW w \in Vaults, NEW amount \in U64, AccrueYield(w, amount)
       PROVE  FALSE
  <2>1. w = v
    BY <1>1, <1>4, <1>11, AccrueEffect DEF RowRepriced
  <2> DEFINE take == YieldTake(v, amount)
  <2>2. take[k] \in Nat
    <3>1. amount \in Nat
      BY DEF U64
    <3>2. take \in [Kinds -> Nat]
      BY <1>1, <3>1, TakeSums
    <3> HIDE DEF take
    <3> QED BY <3>2
  <2>3. u.assets = t.assets + take[k] /\ u.supply = t.supply
    BY <1>1, <1>11, <2>1, AccrueEffect DEF RowRepriced
  <2> HIDE DEF take, t, u
  <2> QED BY <1>2, <1>5, <2>2, <2>3
<1>12. ASSUME NEW w \in Vaults, NEW l \in Loans, DisburseLoan(w, l) PROVE FALSE
  BY <1>4, <1>12 DEF DisburseLoan
<1>13. CASE Cascades
  <2>1. PICK w \in Vaults, kind \in EventKinds, loss \in U64 : Cascade(w, kind, loss)
    BY <1>13 DEF Cascades
  <2>2. w = v
    BY <1>1, <1>4, <2>1, CascadeEffect DEF RowRepriced
  <2> DEFINE hit == Hit(v, loss)
  <2>3. /\ hit[k] \in Nat /\ hit[k] <= t.assets /\ loss \in Nat
        /\ hit["Prime"] \in Nat /\ hit["Core"] \in Nat /\ hit["Alpha"] \in Nat
        /\ hit["Prime"] + hit["Core"] + hit["Alpha"] = loss
    <3>1. loss \in Nat /\ loss <= TotalAssets(v)
      BY <2>1, <2>2 DEF U64, Cascade
    <3> QED BY <1>1, <3>1, HitSums, KindsAre
  <2>4. u.assets = t.assets - hit[k] /\ u.supply = t.supply
    BY <1>1, <2>1, <2>2, CascadeEffect DEF RowRepriced
  <2>5. lossBucket'[v] = lossBucket[v] + loss /\ lossBucket[v] \in Nat
    BY <1>1, <2>1, <2>2, CascadeBooks DEF TypeOK
  <2> HIDE DEF hit, t, u
  <2>6. hit[k] # 0
    BY <1>2, <1>5, <2>3, <2>4
  <2>7. loss > 0
    <3>1. hit["Prime"] > 0 \/ hit["Core"] > 0 \/ hit["Alpha"] > 0
      <4>1. hit[k] > 0
        BY <2>3, <2>6
      <4> QED BY <4>1, KindsAre
    <3> QED BY <2>3, <3>1
  <2>8. u.assets < t.assets /\ lossBucket'[v] > lossBucket[v]
    BY <1>2, <2>3, <2>4, <2>5, <2>6, <2>7
  <2> QED BY <2>8 DEF t, u
<1> QED BY <1>1, <1>6, <1>7, <1>8, <1>9, <1>10, <1>11, <1>12, <1>13, StepIs
        DEF LedgerStep

\* As long as somebody holds a tranche, its NAV falls only by a loss or by the
\* rounding of a deposit: no withdrawal, yield, loan or repayment lowers it.
THEOREM HoldersKeepValue == Spec => NavFallsOnlyByLoss
<1>1. IInv /\ IInv' /\ [Next]_vars => [NavFalls]_vars
  BY NavStep
<1> QED BY <1>1, AccountingInvariant, PTL DEF Spec, NavFallsOnlyByLoss

\* Only a deposit mints.
LEMMA MintIsDeposit ==
    ASSUME TypeOK, [Next]_vars, NEW v \in Vaults, NEW k \in Kinds,
           ptoken'[v][k] - ptoken[v][k] > 0
    PROVE  \E amount \in U64 : Deposit(v, k, amount)
<1>1. ptoken[v][k] \in Nat /\ ptoken'[v][k] # ptoken[v][k]
  BY DEF TypeOK
<1>2. ASSUME NEW w \in Vaults, NEW j \in Kinds, NEW amount \in U64, Deposit(w, j, amount)
      PROVE  w = v /\ j = k
  BY <1>1, <1>2, DepositWrites
<1>3. ASSUME NEW w \in Vaults, NEW j \in Kinds, NEW shares \in Nat, Withdraw(w, j, shares)
      PROVE  FALSE
  <2>1. w = v /\ j = k
    BY <1>1, <1>3, WithdrawWrites
  <2>2. ptoken'[v][k] = ptoken[v][k] - shares
    BY <1>3, <2>1, WithdrawWrites
  <2> QED BY <1>1, <2>2
<1>4. ASSUME UNCHANGED ptoken PROVE FALSE
  BY <1>1, <1>4
<1>5. /\ \A w \in Vaults : ~InitVault(w)
      /\ \A w \in Vaults, j \in Kinds : ~InitTranche(w, j)
      /\ \A w \in Vaults, amount \in U64 : ~AccrueYield(w, amount)
      /\ \A w \in Vaults, l \in Loans : ~DisburseLoan(w, l)
      /\ ~Cascades /\ ~UNCHANGED ledger
  BY <1>4 DEF InitVault, InitTranche, AccrueYield, DisburseLoan, Cascades, ledger
<1> QED BY <1>2, <1>3, <1>5, StepIs DEF LedgerStep

LEMMA RoundTripStep ==
    ASSUME IInv, [Next]_vars
    PROVE  RoundTripPays
<1> SUFFICES ASSUME NEW v \in Vaults, NEW k \in Kinds,
                    ptoken'[v][k] - ptoken[v][k] > 0,
                    tranche[v][k].supply > 0 \/ tranche[v][k].assets = 0
             PROVE  WithdrawPayout(ptoken'[v][k] - ptoken[v][k], tranche'[v][k].nav)
                      <= tranche'[v][k].assets - tranche[v][k].assets
  BY DEF RoundTripPays
<1> DEFINE t == tranche[v][k]
           u == tranche'[v][k]
<1>1. TypeOK /\ Shares
  BY DEF IInv
<1>2. /\ t.assets \in Nat /\ t.supply \in Nat
      /\ t.nav = ComputeNav(t.assets, t.supply) /\ ptoken[v][k] \in Nat
  BY <1>1, TrancheFields DEF Shares, NavFresh, TypeOK
<1>3. PICK amount \in U64 : Deposit(v, k, amount)
  BY <1>1, MintIsDeposit
<1> DEFINE shares == DepositShares(amount, t.nav, t.supply)
<1>4. /\ shares \in Nat /\ amount \in Nat
      /\ u.assets = t.assets + amount
      /\ u.nav = ComputeNav(t.assets + amount, t.supply + shares)
      /\ ptoken'[v][k] = ptoken[v][k] + shares
  BY <1>1, <1>3, DepositWrites DEF Repriced
<1>5. DepositPriced(amount, ComputeNav(t.assets, t.supply), t.supply)
  BY <1>2, <1>3 DEF Deposit
<1>6. shares = DepositShares(amount, ComputeNav(t.assets, t.supply), t.supply)
  BY <1>2
<1>7. t.supply > 0 \/ t.assets = 0
  OBVIOUS
<1> HIDE DEF shares, t, u
<1>8. WithdrawPayout(shares, u.nav) <= amount
  BY <1>2, <1>4, <1>5, <1>6, <1>7, RoundTripBound
<1>9. ptoken'[v][k] - ptoken[v][k] = shares /\ u.assets - t.assets = amount
  BY <1>2, <1>4
<1> QED BY <1>8, <1>9 DEF t, u

\* Buying pTokens and selling them back at once returns at most what was paid.
THEOREM RoundTripCorrect == Spec => RoundTripNeverGains
<1>1. IInv /\ [Next]_vars => [RoundTripPays]_vars
  BY RoundTripStep
<1> QED BY <1>1, AccountingInvariant, PTL DEF Spec, RoundTripNeverGains

-----------------------------------------------------------------------------
(* What the first holder of a tranche gets *)

\* Whoever holds all of a tranche can take all its assets but for one unit of
\* rounding (math.rs: compute_nav_q and withdraw_payout).
THEOREM SoleHolderTakesAll ==
    ASSUME NEW assets \in Nat, NEW supply \in Nat, supply > 0, supply <= QOne
    PROVE  assets <= WithdrawPayout(supply, ComputeNav(assets, supply)) + 1
<1> DEFINE nav == ComputeNav(assets, supply)
           payout == WithdrawPayout(supply, nav)
<1>1. QOne \in Nat /\ QOne > 0
  BY MathAssumption
<1>2. nav \in Nat /\ assets * QOne < nav * supply + supply
  <2>1. assets * QOne \in Nat /\ nav = (assets * QOne) \div supply
    BY <1>1 DEF ComputeNav
  <2> QED BY <2>1, DivBounds
<1>3. payout \in Nat /\ nav * supply < payout * QOne + QOne
  <2>1. supply * nav \in Nat /\ payout = (supply * nav) \div QOne /\ supply * nav = nav * supply
    BY <1>2 DEF WithdrawPayout
  <2> QED BY <1>1, <2>1, DivBounds
<1> HIDE DEF nav, payout
<1>4. assets * QOne < (payout + 2) * QOne
  <2>1. (payout + 2) * QOne = payout * QOne + QOne + QOne
    BY <1>1, <1>3
  <2>2. assets * QOne \in Nat /\ nav * supply \in Nat /\ payout * QOne \in Nat
    BY <1>1, <1>2, <1>3
  <2> QED BY <1>1, <1>2, <1>3, <2>1, <2>2
<1>5. assets < payout + 2
  <2>1. CASE payout + 2 <= assets
    <3>1. (payout + 2) * QOne <= assets * QOne
      BY <1>1, <1>3, <2>1, MultMonotone
    <3> QED BY <1>1, <1>3, <1>4, <3>1
  <2> QED BY <1>3, <2>1
<1> QED BY <1>3, <1>5 DEF payout, nav

\* A deposit into a tranche that nobody holds buys all that is in it.
FirstHolderPays ==
    \A v \in Vaults, k \in Kinds :
        LET t == tranche[v][k]
            u == tranche'[v][k]
            bought == ptoken'[v][k] - ptoken[v][k]
        IN  t.supply = 0 /\ bought > 0 =>
              /\ bought = u.assets - t.assets
              /\ u.assets <= WithdrawPayout(bought, u.nav) + 1

LEMMA FirstHolderStep ==
    ASSUME IInv, [Next]_vars, MaxU64 <= QOne
    PROVE  FirstHolderPays
<1> SUFFICES ASSUME NEW v \in Vaults, NEW k \in Kinds, tranche[v][k].supply = 0,
                    ptoken'[v][k] - ptoken[v][k] > 0
             PROVE  /\ ptoken'[v][k] - ptoken[v][k] =
                          tranche'[v][k].assets - tranche[v][k].assets
                    /\ tranche'[v][k].assets
                          <= WithdrawPayout(ptoken'[v][k] - ptoken[v][k], tranche'[v][k].nav) + 1
  BY DEF FirstHolderPays
<1> DEFINE t == tranche[v][k]
           u == tranche'[v][k]
<1>1. TypeOK /\ Shares
  BY DEF IInv
<1>2. t.assets \in Nat /\ ptoken[v][k] \in Nat
  BY <1>1, TrancheFields DEF TypeOK
<1>3. PICK amount \in U64 : Deposit(v, k, amount)
  BY <1>1, MintIsDeposit
<1>4. DepositShares(amount, t.nav, t.supply) = amount /\ amount \in Nat
  BY DEF DepositShares, U64
<1>5. /\ u.assets = t.assets + amount /\ u.nav = ComputeNav(t.assets + amount, amount)
      /\ ptoken'[v][k] = ptoken[v][k] + amount
  BY <1>1, <1>3, <1>4, DepositWrites DEF Repriced
<1>6. amount > 0 /\ amount <= QOne /\ t.assets + amount \in Nat
  BY <1>2, <1>4, <1>5, MathAssumption DEF U64
<1>7. t.assets + amount <= WithdrawPayout(amount, ComputeNav(t.assets + amount, amount)) + 1
  BY <1>4, <1>6, SoleHolderTakesAll
<1>8. ptoken'[v][k] - ptoken[v][k] = amount /\ u.assets - t.assets = amount
  BY <1>2, <1>4, <1>5
<1> QED BY <1>5, <1>7, <1>8

\* The first deposit into a tranche is priced one for one, and gives its maker
\* all that the tranche had, but for one unit of rounding: yield that was
\* booked while nobody held it (lib.rs: deposit and accrue_yield) goes to the
\* next to come.  The scale is no smaller than the width, as 2^64 is.
THEOREM FirstHolderOwnsAll ==
    ASSUME MaxU64 <= QOne
    PROVE  Spec => [][FirstHolderPays]_vars
<1>1. IInv /\ [Next]_vars => [FirstHolderPays]_vars
  BY FirstHolderStep
<1> QED BY <1>1, AccountingInvariant, PTL DEF Spec

-----------------------------------------------------------------------------
(* An accrual that has waited too long *)

\* accrue_yield computes the targets of Prime and Core before it looks at what
\* is paid in, and fails if one of them leaves the width.
Stuck(v, k) == vault[v].state = "Active" /\ ~FitsU64(Target(v, k))

\* It stays so until assets leave the tranche or the vault defaults.
StaysStuck ==
    \A v \in Vaults, k \in {"Prime", "Core"} : Stuck(v, k) =>
        \/ Stuck(v, k)'
        \/ tranche'[v][k].assets < tranche[v][k].assets
        \/ vault'[v].state = "Defaulted"

\* More assets and more time never make a target smaller.
LEMMA TargetMonotone ==
    ASSUME NEW a \in Nat, NEW b \in Nat, a <= b, NEW rate \in Nat,
           NEW s \in Nat, NEW t \in Nat, s <= t
    PROVE  /\ YieldTarget(a, rate, s) \in Nat /\ YieldTarget(b, rate, t) \in Nat
           /\ YieldTarget(a, rate, s) <= YieldTarget(b, rate, t)
<1> DEFINE less == a * rate * s
           more == b * rate * t
<1>1. a * rate \in Nat /\ b * rate \in Nat /\ a * rate <= b * rate
  BY MultMonotone
<1> DEFINE p == a * rate
           q == b * rate
<1>2. p * s <= q * t
  <2> HIDE DEF p, q
  <2>1. p \in Nat /\ q \in Nat /\ p <= q
    BY <1>1 DEF p, q
  <2>2. p * s <= q * s
    BY <2>1, MultMonotone
  <2>3. s * q <= t * q
    BY <2>1, MultMonotone
  <2>4. s * q = q * s /\ t * q = q * t /\ p * s \in Nat /\ q * s \in Nat /\ q * t \in Nat
    BY <2>1
  <2> QED BY <2>2, <2>3, <2>4
<1>3. less \in Nat /\ more \in Nat /\ less <= more
  BY <1>1, <1>2
<1> HIDE DEF less, more
<1>4. /\ less \div YearBps \in Nat /\ more \div YearBps \in Nat
      /\ less \div YearBps <= more \div YearBps
  <2>1. /\ less \div YearBps \in Nat /\ (less \div YearBps) * YearBps <= less
        /\ more \div YearBps \in Nat /\ YearBps \in Nat /\ YearBps > 0
    BY <1>3, DivBounds, MathAssumption
  <2>2. (less \div YearBps) * YearBps <= more
    BY <1>3, <2>1
  <2> QED BY <1>3, <2>1, <2>2, DivAtLeast
<1> QED BY <1>4 DEF YieldTarget, less, more

LEMMA ClockRuns ==
    ASSUME TypeOK, [Next]_vars
    PROVE  now \in Nat /\ now' \in Nat /\ now' >= now
<1>1. now \in Nat
  BY DEF TypeOK
<1>2. CASE AdminStep \/ InvestorStep
  BY <1>1, <1>2 DEF AdminStep, Pause, Unpause, InitVault, InitTranche, InvestorStep,
     Deposit, Withdraw, SeedPoolLiquidity
<1>3. CASE WaterfallStep
  BY <1>1, <1>3 DEF WaterfallStep, AccrueYield, TriggerCreditEvent
<1>4. CASE LoanStep
  <2>1. now' = now
    BY <1>4, Zenon DEF LoanStep, InitLoan, DisburseLoan, RepayLoan
  <2> QED BY <1>1, <2>1
<1>5. CASE GateStep
  BY <1>1, <1>5 DEF GateStep, AttachCollateral, VerifyCollateral, ReleaseCollateral,
     LiquidateCollateral, AttachEncryptScore, VerifyEncryptDefault
<1>6. CASE Tick \/ UNCHANGED vars
  BY <1>1, <1>6 DEF Tick, vars
<1> QED BY <1>2, <1>3, <1>4, <1>5, <1>6 DEF Next

LEMMA StuckStep ==
    ASSUME TypeOK, TypeOK', [Next]_vars
    PROVE  StaysStuck
<1> SUFFICES ASSUME NEW v \in Vaults, NEW k \in {"Prime", "Core"}, Stuck(v, k)
             PROVE  \/ Stuck(v, k)'
                    \/ tranche'[v][k].assets < tranche[v][k].assets
                    \/ vault'[v].state = "Defaulted"
  BY DEF StaysStuck
<1> DEFINE Waits == /\ vault'[v].lastYield = vault[v].lastYield
                    /\ vault'[v].state \in {"Active", "Defaulted"}
<1>1. k \in Kinds /\ vault[v].state = "Active"
  BY DEF Kinds, Stuck
<1>2. Waits
  <2>1. CASE UNCHANGED ledger
    BY <1>1, <2>1 DEF ledger
  <2>2. ASSUME NEW w \in Vaults, InitVault(w) PROVE Waits
    BY <1>1, <2>2, InitVaultWrites
  <2>3. ASSUME NEW w \in Vaults, NEW j \in Kinds, InitTranche(w, j) PROVE Waits
    BY <1>1, <2>3, InitTrancheWrites
  <2>4. ASSUME NEW w \in Vaults, NEW j \in Kinds, NEW amount \in U64, Deposit(w, j, amount)
        PROVE  Waits
    BY <1>1, <2>4, DepositWrites
  <2>5. ASSUME NEW w \in Vaults, NEW j \in Kinds, NEW shares \in Nat, Withdraw(w, j, shares)
        PROVE  Waits
    BY <1>1, <2>5, WithdrawWrites
  <2>6. ASSUME NEW w \in Vaults, NEW amount \in U64, AccrueYield(w, amount) PROVE Waits
    <3>1. w # v
      BY <2>6 DEF AccrueYield, Stuck
    <3> QED BY <1>1, <2>6, <3>1, AccrueWrites
  <2>7. ASSUME NEW w \in Vaults, NEW l \in Loans, DisburseLoan(w, l) PROVE Waits
    BY <1>1, <2>7, DisburseWrites
  <2>8. CASE Cascades
    <3>1. PICK w \in Vaults, kind \in EventKinds, loss \in U64 : Cascade(w, kind, loss)
      BY <2>8 DEF Cascades
    <3> QED BY <1>1, <3>1, CascadeWrites
  <2> QED BY <2>1, <2>2, <2>3, <2>4, <2>5, <2>6, <2>7, <2>8, StepIs DEF LedgerStep
<1>3. /\ tranche[v][k].assets \in Nat /\ tranche'[v][k].assets \in Nat
      /\ vault[v].lastYield \in Nat /\ Apy[k] \in Nat
  <2>1. tranche[v][k] \in TrancheRecord /\ tranche'[v][k] \in TrancheRecord
    BY <1>1 DEF TypeOK
  <2>2. vault[v].lastYield \in Nat
    BY VaultFields
  <2> QED BY <1>1, <2>1, <2>2, CoreAssumption DEF TrancheRecord, U64
<1>4. SUFFICES ASSUME tranche'[v][k].assets >= tranche[v][k].assets,
                      vault'[v].state = "Active"
               PROVE  ~FitsU64(Target(v, k))'
  BY <1>2, <1>3 DEF Stuck
<1>5. Elapsed(v) \in Nat /\ Elapsed(v)' \in Nat /\ Elapsed(v) <= Elapsed(v)'
  BY <1>2, <1>3, ClockRuns DEF Elapsed, SaturatingSub
<1>6. Target(v, k) \in Nat /\ Target(v, k)' \in Nat /\ Target(v, k) <= Target(v, k)'
  BY <1>3, <1>4, <1>5, TargetMonotone DEF Target
<1> QED BY <1>6, MathAssumption DEF Stuck, FitsU64

\* An accrual that fails because a target leaves its width (lib.rs:
\* compute_yield_target) fails for as long as the vault is open and nobody
\* leaves the tranche: time alone only makes it worse, and paying in less does
\* not help.
THEOREM StuckYieldStays == Spec => [][StaysStuck]_vars
<1>1. TypeOK /\ TypeOK' /\ [Next]_vars => [StaysStuck]_vars
  BY StuckStep
<1> QED BY <1>1, TypeCorrect, PTL DEF Spec

-----------------------------------------------------------------------------
(* The gates of one loan *)

\* A loan is drawn on a vault that exists.
LoansAreDrawn == \A l \in Loans : Exists(l) => vault[loan[l].vault].state # "None"

Gated(l) == [Gates(l)!Next]_(Gates(l)!vars)

\* A vault that exists keeps its state, or defaults.
LEMMA VaultMoves ==
    ASSUME TypeOK, [Next]_vars, NEW w \in Vaults, vault[w].state # "None"
    PROVE  \/ vault'[w].state = vault[w].state
           \/ vault[w].state = "Active" /\ vault'[w].state = "Defaulted"
<1> DEFINE Moved == \/ vault'[w].state = vault[w].state
                    \/ vault[w].state = "Active" /\ vault'[w].state = "Defaulted"
<1>1. CASE UNCHANGED ledger
  BY <1>1 DEF ledger
<1>2. ASSUME NEW v \in Vaults, InitVault(v) PROVE Moved
  BY <1>2, InitVaultWrites
<1>3. ASSUME NEW v \in Vaults, NEW k \in Kinds, InitTranche(v, k) PROVE Moved
  BY <1>3, InitTrancheWrites
<1>4. ASSUME NEW v \in Vaults, NEW k \in Kinds, NEW amount \in U64, Deposit(v, k, amount)
      PROVE  Moved
  BY <1>4, DepositWrites
<1>5. ASSUME NEW v \in Vaults, NEW k \in Kinds, NEW shares \in Nat, Withdraw(v, k, shares)
      PROVE  Moved
  BY <1>5, WithdrawWrites
<1>6. ASSUME NEW v \in Vaults, NEW amount \in U64, AccrueYield(v, amount) PROVE Moved
  BY <1>6, AccrueWrites
<1>7. ASSUME NEW v \in Vaults, NEW l \in Loans, DisburseLoan(v, l) PROVE Moved
  BY <1>7, DisburseWrites
<1>8. CASE Cascades
  <2>1. PICK v \in Vaults, kind \in EventKinds, loss \in U64 : Cascade(v, kind, loss)
    BY <1>8 DEF Cascades
  <2> QED BY <2>1, CascadeWrites
<1> QED BY <1>1, <1>2, <1>3, <1>4, <1>5, <1>6, <1>7, <1>8, StepIs DEF LedgerStep

\* What repay_loan writes.
LEMMA RepayWrites ==
    ASSUME TypeOK, NEW l \in Loans, NEW amount \in Amounts, RepayLoan(l, amount)
    PROVE  /\ Exists(l) /\ loan[l].state \in {"Active", "Repaying"}
           /\ loan'[l].state \in {"Repaying", "Repaid"}
           /\ loan'[l].vault = loan[l].vault
           /\ \A m \in Loans : m # l => loan'[m] = loan[m]
           /\ UNCHANGED <<ledger, gates>>
<1> DEFINE total == loan[l].repaid + amount
           state == IF total >= loan[l].principal THEN "Repaid" ELSE "Repaying"
           r     == [loan[l] EXCEPT !.repaid = total, !.state = state]
<1>1. /\ Exists(l) /\ loan[l].state \in {"Active", "Repaying"}
      /\ loan' = [loan EXCEPT ![l] = r] /\ state \in {"Repaying", "Repaid"}
      /\ UNCHANGED <<ledger, gates>>
  BY DEF RepayLoan
<1>2. loan[l] \in LoanRecord
  BY <1>1, LoanFields
<1> HIDE DEF total, state
<1>3. r.state = state /\ r.vault = loan[l].vault
  BY <1>2 DEF LoanRecord
<1> HIDE DEF r
<1> QED BY <1>1, <1>3 DEF TypeOK

\* What init_loan writes.
LEMMA OriginateWrites ==
    ASSUME TypeOK, NEW l \in Loans, NEW v \in Vaults, NEW principal \in Amounts,
           InitLoan(v, l, principal)
    PROVE  /\ ~Exists(l) /\ vault[v].state # "None"
           /\ loan'[l].state = "Originated" /\ loan'[l].vault = v
           /\ \A m \in Loans : m # l => loan'[m] = loan[m]
           /\ UNCHANGED <<ledger, gates>>
  BY DEF InitLoan, TypeOK

\* A step that writes neither the loan nor its collateral record may still
\* close its vault.
LEMMA QuietGate ==
    ASSUME TypeOK, LoansAreDrawn, [Next]_vars, NEW l \in Loans,
           loan'[l] = loan[l], collateral'[l] = collateral[l]
    PROVE  Gated(l)
<1>1. CASE GateOpen(l)' = GateOpen(l)
  BY <1>1 DEF Gated, Gates!vars
<1>2. CASE GateOpen(l)' # GateOpen(l)
  <2>1. Exists(l) /\ loan[l].vault \in Vaults
    BY <1>2, LoanFields DEF GateOpen, Exists
  <2>2. vault[loan[l].vault].state # "None"
    BY <2>1 DEF LoansAreDrawn
  <2>3. GateOpen(l) /\ GateOpen(l)' = FALSE
    BY <1>2, <2>1, <2>2, VaultMoves DEF GateOpen, Exists
  <2>4. Gates(l)!Close
    BY <2>3 DEF Gates!Close
  <2> QED BY <2>4 DEF Gated, Gates!Next
<1> QED BY <1>1, <1>2

\* Who writes a loan or its collateral record.
LEMMA GateMoves ==
    ASSUME TypeOK, [Next]_vars, NEW l \in Loans
    PROVE  \/ loan'[l] = loan[l] /\ collateral'[l] = collateral[l]
           \/ \E v \in Vaults, principal \in Amounts : InitLoan(v, l, principal)
           \/ \E v \in Vaults : DisburseLoan(v, l)
           \/ \E amount \in Amounts : RepayLoan(l, amount)
           \/ AttachCollateral(l) \/ VerifyCollateral(l) \/ ReleaseCollateral(l)
           \/ \E loss \in Amounts : LiquidateCollateral(l, loss)
<1>1. CASE AdminStep
  BY <1>1 DEF AdminStep, Pause, Unpause, InitVault, InitTranche, gates
<1>2. CASE InvestorStep
  BY <1>2 DEF InvestorStep, Deposit, Withdraw, SeedPoolLiquidity, gates
<1>3. CASE WaterfallStep
  BY <1>3 DEF WaterfallStep, AccrueYield, TriggerCreditEvent, gates
<1>4. ASSUME NEW m \in Loans, NEW v \in Vaults, NEW principal \in Amounts,
             InitLoan(v, m, principal), m # l
      PROVE  loan'[l] = loan[l] /\ collateral'[l] = collateral[l]
  BY <1>4, OriginateWrites DEF gates
<1>5. ASSUME NEW m \in Loans, NEW v \in Vaults, DisburseLoan(v, m), m # l
      PROVE  loan'[l] = loan[l] /\ collateral'[l] = collateral[l]
  BY <1>5, DisburseWrites DEF DisburseLoan, gates
<1>6. ASSUME NEW m \in Loans, NEW amount \in Amounts, RepayLoan(m, amount), m # l
      PROVE  loan'[l] = loan[l] /\ collateral'[l] = collateral[l]
  BY <1>6, RepayWrites DEF gates
<1>7. CASE LoanStep
  BY <1>4, <1>5, <1>6, <1>7 DEF LoanStep
<1>8. ASSUME NEW m \in Loans, m # l,
             \/ AttachCollateral(m) \/ VerifyCollateral(m) \/ ReleaseCollateral(m)
             \/ \E loss \in Amounts : LiquidateCollateral(m, loss)
      PROVE  loan'[l] = loan[l] /\ collateral'[l] = collateral[l]
  BY <1>8 DEF AttachCollateral, VerifyCollateral, ReleaseCollateral,
     LiquidateCollateral, TypeOK
<1>9. ASSUME NEW m \in Loans,
             \/ AttachEncryptScore(m)
             \/ \E loss \in Amounts, v \in Vaults : VerifyEncryptDefault(v, m, loss)
      PROVE  loan'[l] = loan[l] /\ collateral'[l] = collateral[l]
  BY <1>9 DEF AttachEncryptScore, VerifyEncryptDefault
<1>10. CASE GateStep
  BY <1>8, <1>9, <1>10 DEF GateStep
<1>11. CASE Tick \/ UNCHANGED vars
  BY <1>11 DEF Tick, vars, gates
<1> QED BY <1>1, <1>2, <1>3, <1>7, <1>10, <1>11 DEF Next

\* The steps of the loan itself.
LEMMA LoanGated ==
    ASSUME TypeOK, NEW l \in Loans,
           \/ \E v \in Vaults, principal \in Amounts : InitLoan(v, l, principal)
           \/ \E v \in Vaults : DisburseLoan(v, l)
           \/ \E amount \in Amounts : RepayLoan(l, amount)
    PROVE  Gated(l)
<1>1. ASSUME NEW v \in Vaults, NEW principal \in Amounts, InitLoan(v, l, principal)
      PROVE  Gated(l)
  <2>1. loan[l].state = "None" /\ loan'[l].state = "Originated" /\ collateral' = collateral
    BY <1>1, OriginateWrites DEF Exists, gates
  <2>2. GateOpen(l)' \in BOOLEAN
    BY DEF GateOpen
  <2>3. Gates(l)!Originate
    BY <2>1, <2>2 DEF Gates!Originate
  <2> QED BY <2>3 DEF Gated, Gates!Next
<1>2. ASSUME NEW v \in Vaults, DisburseLoan(v, l)
      PROVE  Gated(l)
  <2>1. /\ loan[l].state = "Originated" /\ loan'[l].state = "Active"
        /\ loan[l].vault = v /\ loan'[l].vault = v
        /\ vault[v].state = "Active" /\ vault'[v].state = "Active"
    BY <1>2, DisburseWrites
  <2>2. collateral' = collateral /\ collateral[l] # "Pending"
    BY <1>2 DEF DisburseLoan, gates
  <2>3. GateOpen(l) /\ GateOpen(l)' = GateOpen(l)
    BY <2>1 DEF GateOpen
  <2>4. Gates(l)!Disburse
    BY <2>1, <2>2, <2>3 DEF Gates!Disburse
  <2> QED BY <2>4 DEF Gated, Gates!Next
<1>3. ASSUME NEW amount \in Amounts, RepayLoan(l, amount)
      PROVE  Gated(l)
  <2>1. /\ loan[l].state \in {"Active", "Repaying"}
        /\ loan'[l].state \in {"Repaying", "Repaid"}
        /\ loan'[l].vault = loan[l].vault
        /\ vault' = vault /\ collateral' = collateral
    BY <1>3, RepayWrites DEF ledger, gates
  <2>2. GateOpen(l)' = GateOpen(l)
    BY <2>1 DEF GateOpen, Exists
  <2>3. Gates(l)!Repay
    BY <2>1, <2>2 DEF Gates!Repay
  <2> QED BY <2>3 DEF Gated, Gates!Next
<1> QED BY <1>1, <1>2, <1>3

\* The steps of its collateral record.
LEMMA RecordGated ==
    ASSUME TypeOK, NEW l \in Loans,
           \/ AttachCollateral(l) \/ VerifyCollateral(l) \/ ReleaseCollateral(l)
           \/ \E loss \in Amounts : LiquidateCollateral(l, loss)
    PROVE  Gated(l)
<1>1. CASE AttachCollateral(l) \/ VerifyCollateral(l) \/ ReleaseCollateral(l)
  <2>1. loan' = loan /\ vault' = vault
    BY <1>1 DEF AttachCollateral, VerifyCollateral, ReleaseCollateral, ledger
  <2>2. GateOpen(l)' = GateOpen(l)
    BY <2>1 DEF GateOpen, Exists
  <2>3. CASE AttachCollateral(l)
    <3>1. /\ loan[l].state \in {"Originated", "Active"}
          /\ collateral[l] \in {"None", "Pending"} /\ collateral'[l] = "Pending"
      BY <2>3 DEF AttachCollateral, TypeOK
    <3>2. Gates(l)!Attach
      BY <2>1, <2>2, <3>1 DEF Gates!Attach
    <3> QED BY <3>2 DEF Gated, Gates!Next
  <2>4. CASE VerifyCollateral(l)
    <3>1. collateral[l] = "Pending" /\ collateral'[l] = "Attached"
      BY <2>4 DEF VerifyCollateral, TypeOK
    <3>2. Gates(l)!Verify
      BY <2>1, <2>2, <3>1 DEF Gates!Verify
    <3> QED BY <3>2 DEF Gated, Gates!Next
  <2>5. CASE ReleaseCollateral(l)
    <3>1. collateral[l] = "Attached" /\ collateral'[l] = "Released"
      BY <2>5 DEF ReleaseCollateral, TypeOK
    <3>2. Gates(l)!Release
      BY <2>1, <2>2, <3>1 DEF Gates!Release
    <3> QED BY <3>2 DEF Gated, Gates!Next
  <2> QED BY <1>1, <2>3, <2>4, <2>5
<1>2. ASSUME NEW loss \in Amounts, LiquidateCollateral(l, loss)
      PROVE  Gated(l)
  <2>1. /\ collateral[l] = "Attached" /\ collateral'[l] = "Liquidated" /\ loan' = loan
        /\ Exists(l) /\ Cascade(loan[l].vault, "Default", loss)
    BY <1>2 DEF LiquidateCollateral, TypeOK
  <2>2. loan[l].vault \in Vaults /\ loss \in U64 /\ "Default" \in EventKinds
    BY <2>1, LoanFields, CoreAssumption DEF EventKinds
  <2>3. vault[loan[l].vault].state = "Active" /\ vault'[loan[l].vault].state = "Defaulted"
    BY <2>1, <2>2, CascadeWrites
  <2>4. GateOpen(l) /\ GateOpen(l)' = FALSE
    BY <2>1, <2>3 DEF GateOpen, Exists
  <2>5. Gates(l)!Liquidate
    BY <2>1, <2>4 DEF Gates!Liquidate
  <2> QED BY <2>5 DEF Gated, Gates!Next
<1> QED BY <1>1, <1>2

LEMMA DrawnStep ==
    ASSUME TypeOK, LoansAreDrawn, [Next]_vars
    PROVE  LoansAreDrawn'
<1> SUFFICES ASSUME NEW l \in Loans, Exists(l)'
             PROVE  vault'[loan'[l].vault].state # "None"
  BY DEF LoansAreDrawn
<1>1. CASE Exists(l) /\ loan'[l].vault = loan[l].vault
  <2>1. loan[l].vault \in Vaults /\ vault[loan[l].vault].state # "None"
    BY <1>1, LoanFields DEF LoansAreDrawn
  <2> QED BY <1>1, <2>1, VaultMoves
<1>2. ASSUME NEW v \in Vaults, NEW principal \in Amounts, InitLoan(v, l, principal)
      PROVE  vault'[loan'[l].vault].state # "None"
  BY <1>2, OriginateWrites DEF ledger
<1>3. ASSUME NEW v \in Vaults, DisburseLoan(v, l)
      PROVE  vault'[loan'[l].vault].state # "None"
  BY <1>3, DisburseWrites
<1>4. ASSUME NEW amount \in Amounts, RepayLoan(l, amount)
      PROVE  vault'[loan'[l].vault].state # "None"
  BY <1>1, <1>4, RepayWrites
<1>5. CASE loan'[l] = loan[l]
  BY <1>1, <1>5 DEF Exists
<1>6. CASE AttachCollateral(l) \/ VerifyCollateral(l) \/ ReleaseCollateral(l)
           \/ \E loss \in Amounts : LiquidateCollateral(l, loss)
  BY <1>5, <1>6 DEF AttachCollateral, VerifyCollateral, ReleaseCollateral,
     LiquidateCollateral
<1> QED BY <1>2, <1>3, <1>4, <1>5, <1>6, GateMoves

\* Whatever goes on in other loans, in the tranches and in the vaults, to each
\* loan the contract keeps to its gates: a vault closes once, evidence that was
\* verified stays, and a record is settled once.
THEOREM CoreImplementsLoanGates == Spec => ImplementsLoanGates
<1>1. Init => \A l \in Loans : Gates(l)!Init
  BY DEF Init, Gates!Init, GateOpen, Exists, NoLoan
<1>2. Init => LoansAreDrawn
  BY DEF Init, LoansAreDrawn, Exists, NoLoan
<1>3. TypeOK /\ LoansAreDrawn /\ [Next]_vars => LoansAreDrawn'
  BY DrawnStep
<1>4. TypeOK /\ LoansAreDrawn /\ [Next]_vars =>
          [\A l \in Loans : [Gates(l)!Next]_(Gates(l)!vars)]_vars
  BY GateMoves, QuietGate, LoanGated, RecordGated DEF Gated
<1> QED BY <1>1, <1>2, <1>3, <1>4, TypeCorrect, PTL DEF Spec, ImplementsLoanGates
=============================================================================
