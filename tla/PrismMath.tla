------------------------------ MODULE PrismMath ------------------------------
(***************************************************************************)
(* The fixed-point arithmetic of soroban/prism-core/src/math.rs and the    *)
(* yield target of lib.rs.  A net asset value (NAV) per share is a Q64.64  *)
(* number: an integer that stands for itself divided by QOne = 2^64.  The  *)
(* scale is a parameter, so that TLC can use one small enough to make      *)
(* every rounding case happen.                                             *)
(***************************************************************************)
EXTENDS Naturals

CONSTANTS
    QOne,       \* the fixed-point one (Q64_ONE)
    MaxU64,     \* the largest value of the u64 amounts
    YearBps     \* YEAR_SECONDS * 10_000, the divisor of a yearly rate

ASSUME MathAssumption ==
    /\ QOne \in Nat \ {0}
    /\ MaxU64 \in Nat
    /\ YearBps \in Nat \ {0}

U64 == 0 .. MaxU64

\* Mutant: off by one at the width.
FitsU64AndOneMore(x) == x <= MaxU64 + 1

\* The check every checked_add, try_into and "as u64" of the contract makes.
FitsU64(x) == x <= MaxU64

Lesser(a, b) == IF a <= b THEN a ELSE b

\* Rust's saturating_sub and saturating_add on u64.
SaturatingSub(a, b) == IF a >= b THEN a - b ELSE 0
SaturatingAdd(a, b) == Lesser(a + b, MaxU64)

\* Mutant: the quotient rounded up.
NavRoundedUp(assets, supply) ==
    IF supply = 0 THEN 0 ELSE (assets * QOne + supply - 1) \div supply

\* The NAV of one share; 0 for a tranche nobody holds.
ComputeNav(assets, supply) ==
    IF supply = 0 THEN 0 ELSE (assets * QOne) \div supply

\* Mutant: the shares rounded up.
SharesRoundedUp(amount, nav, supply) ==
    IF supply = 0 THEN amount ELSE (amount * QOne + nav - 1) \div nav

\* The shares a deposit mints: one for one into an empty tranche, else at NAV.
DepositShares(amount, nav, supply) ==
    IF supply = 0 THEN amount ELSE (amount * QOne) \div nav

\* deposit_shares is an error on a wiped tranche and when the shares overflow.
DepositPriced(amount, nav, supply) ==
    \/ supply = 0
    \/ nav # 0 /\ FitsU64(DepositShares(amount, nav, supply))

\* Mutant: the payout rounded up.
PayoutRoundedUp(shares, nav) == (shares * nav + QOne - 1) \div QOne

\* The USDC that burning shares pays at a NAV.
WithdrawPayout(shares, nav) == (shares * nav) \div QOne

\* What a tranche should earn at rate apy in the elapsed seconds.
YieldTarget(assets, apy, elapsed) == (assets * apy * elapsed) \div YearBps
=============================================================================
