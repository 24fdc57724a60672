# PRISM: verification of the protocol

PRISM pools USDC on Stellar (Soroban) into vaults of three tranches (Prime,
Core, Alpha), lends from the pool against collateral that is locked on an EVM
chain, and ties the two chains together with an oracle and watchers. This
directory holds TLA+ models of that program, the TLC runs that check them and
the TLAPS proofs about them. Paths are relative to the repository (`src/`);
`lib.rs` is `soroban/prism-core/src/lib.rs`, `watcher.ts` is
`evm-collateral-service/watcher/src/watcher.ts`.

## 1. The system

| Component | State | Operations | Talks to |
|---|---|---|---|
| **prism-core ledger** (`lib.rs`, `state.rs`, `storage.rs`) | config with pause flag, vaults, tranches, loans, collateral and Encrypt records, event log and loss bucket per vault; one USDC balance for all vaults | init, pause, deposit, withdraw, accrue_yield, trigger_credit_event, loan life cycle, collateral and Encrypt gates, seed_pool_liquidity | USDC and pToken contracts, Soroswap |
| **share arithmetic** (`math.rs`, `compute_yield_target`) | none | Q64.64 NAV, shares of a deposit, payout of a withdrawal, yield target | ledger |
| **evidence layer of prism-core** | oracle allowlist (at most 8 keys), nonces and commitments in records, Cloak payouts | add, remove, rotate keys; parse and verify signed messages | oracle routes sign, anyone may relay |
| **EVM escrow** (`PrismCollateralVault.sol`) | a lock slot per loan, accepted tokens, admin, pause | lock, lockETH, release, liquidate | borrower, Safe, watchers (events) |
| **lock watcher** (`watcher.ts`, `attester.ts`) | cursor `fromBlock` and set `processed`, both in memory | backfill, poll, attest a log | EVM RPC, oracle and verify routes |
| **cron watchers** (`watcher-poll`, `watcher/poll` routes, `lib/watcherStore.ts`) | cursor in Postgres, or in a serverless instance | the same scan, once per invocation | the same |
| **collateral routes and pages** (`EVMCollateralStep.tsx`, `borrow/page.tsx`, `admin/loans/[id]/page.tsx`, `app/api/collateral/...`) | what a page has polled, the step it shows; the routes keep nothing | lock, register, disburse, repay, release, re-attest, liquidate on both chains | Stellar client, EVM client, the Safe that owns the escrow |
| **loan origination** (`loanApplicationStore.ts`, `useLoanApplications.tsx`, `admin/loans/page.tsx`, `admin-action` route) | application rows in Postgres, a polled copy in each page | submit, approve, reject, clear, probe a loan id, originate | stores, Stellar client |
| **Stellar client** (`app/lib/stellar.ts`) | none | load the account, prepare, sign, send, poll for 30 s | Soroban RPC |
| **oracle routes** (`collateral-oracle`, `encrypt-oracle`, `cloak-oracle` under `app/api`) | keys in the environment | sign attestations | callers of prism-core |
| **oracle request guard** (`app/lib/oracle-security.ts`) | rate buckets, signing keys | check, count, prune | oracle routes |
| **other stores** (`lib/*Store.ts`) | Postgres tables | add, patch, list | routes, indexer |
| other hooks and pages, scripts, legacy SDK, site, video | user interface | call the above | everything |

How they meet. The borrower locks a token in the escrow; a watcher sees the
`CollateralLocked` log, waits for confirmations, has the oracle sign an
attestation and relays it to `verify_collateral`, which turns the loan's
collateral record from Pending to Attached and with that opens
`disburse_loan`. When the loan ends, a route releases or liquidates the record
on Stellar and an operator executes the EVM side by hand.

What is hard in it:

* *The ledger*: fifteen entry points share five totals per tranche, one cached
  price and one balance for all vaults. Rounding, saturation, overflow errors
  and three copies of the loss cascade have to keep them consistent over any
  sequence of calls.
* *The watchers*: every await is a point where the chain, the borrower, a
  second poll or a second watcher moves; the process may die; logs may move
  under a reorganisation; a cursor decides what is never looked at again.
* *The bridge*: two ledgers, no transaction over both, steps done by hand.
* *The clients*: a timeout shorter than the validity of what was submitted,
  retries, pages that act on what they polled seconds ago, and stores that
  overwrite a row whatever it says by now.

What makes each correct is stated as the properties of section 4. The hazards
that they are about, and the few that no property covers, are listed in
`PROJECT.json`, each at its line.

## 2. Modules

| Module | Stands for |
|---|---|
| `PrismMath` | `math.rs` and the yield target, with the scale `QOne`, the width `MaxU64` and the year as parameters |
| `UnitSums` | the total of a function into the naturals, stated by counting so that it can be proved about |
| `PrismCore` | the ledger: one action per entry point |
| `PrismEvidence` | whose word the contract takes: allowlist, signed messages, nonces, Cloak payouts |
| `LockWatcher` | the watcher process with its chain, borrower and relayers |
| `CronWatcher` | the two serverless watchers with overlapping requests |
| `Escrow` | what the collateral vault promises: every loan's collateral is put up once and leaves once |
| `EvmVault` | `PrismCollateralVault.sol` with the calls that its transfers make and that may come back; implements `Escrow` |
| `SecuredLoan` | what the two chains promise about one loan, as if every act were seen by all at once |
| `LoanGates` | what prism-core promises of one loan to those who act on it from outside: payout, repayment, evidence and settlement in their order |
| `CollateralBridge` | one loan across both chains: pages, routes, watcher and Safe around the gates of the ledger and the lock of the escrow; implements `SecuredLoan`, and `LoanGates` as `PrismCore` does |
| `LoanOrigination` | from an application to a loan: pages, rows, the route, the Stellar client and the network |
| `MC...` | the instances for TLC |
| `PrismCoreClaims`, `LockWatcherClaims`, `CollateralBridgeClaims` | what comments and documents say and the code does not do |
| `...Proofs` | the proofs; `PrismCoreProofs` and `EvmVaultProofs` build on `UnitSumsProofs` |

### PrismCore and the contract

A Soroban invocation is a transaction. An error return or a trap, also one
inside a token transfer that the handler calls, undoes everything the handler
wrote before, so each entry point is one action, its error returns are guards,
and what it does after them is its effect. `Cascade` is the block that
`trigger_credit_event`, `verify_encrypt_default` and `liquidate_collateral`
each spell out.

| TLA+ variable | Code |
|---|---|
| `paused` | `GlobalConfig.paused` |
| `now` | `env.ledger().timestamp()`, bounded by `MaxTime` |
| `vault[v]` | `Vault` (`state`, `total_deposits`, `total_loaned`, `last_yield_ts`) |
| `tranche[v][k]` | `Tranche` (`total_assets`, `total_supply`, `nav_per_share_q`, `cumulative_yield`, `cumulative_loss`); `live` says that it exists |
| `ptoken[v][k]` | what circulates of the tranche's SEP-41 token (external) |
| `loan[l]` | `Loan` (`state`, `vault_id`, `principal`, `repaid_amount`) |
| `collateral[l]`, `encrypt[l]` | the status of the record, `"None"` if there is none |
| `eventLog[v]`, `lossBucket[v]` | the credit events (the sequence number is the position) and the bucket |
| `pool`, `outside`, `seeded` | USDC of the contract, of all others, and a history of what was seeded |

Left out: identifiers, addresses, time stamps that nothing reads, ratings and
rates of loans, `severity_bps` (range-checked and stored only), emitted events,
and the time to live of storage entries. Authorisation and evidence are left
out here (the latter is `PrismEvidence`): any call may come at any time when the records allow it, which is more
behaviour than the code has, so an invariant of the model is one of the code.
Amounts are naturals within `U64`: negative and over-wide amounts are turned
away at the top of each handler. A Soroswap pair may hand out what it was
seeded with, so seeded USDC is in `outside`.

Two calls that reach the ledger's tokens without its handlers are left out as
well: a holder who burns pTokens directly at the SEP-41 contract, and anyone who
sends USDC straight to the contract's address. The contract notices neither. The
first would leave `total_supply` above what circulates, the second USDC in the
contract that nobody claims, so the equalities `SupplyBacked` and
`ReserveIdentity` hold of histories without them. With them each would be an
inequality (supply at least what circulates; balance at least the claims), which
errs on the side of those who stay.

### LockWatcher and the watcher

Each `await` ends an action. `scan[s]` is one activation of the backfill or of
`poll`: `at = "tip"` awaits the block number, `"fetch"` the logs, `"attest"`
the two routes behind `attestCollateral`, and in `"handle"` the loop over the
logs runs. `phase` is where `startWatcher` is: `"first"` is the awaited first
poll, after which `setInterval` starts polls whether or not the last one
returned (`"live"`). `Crash` loses all of it. The environment is the chain
(`Mine`, `Reorg` of the last `ReorgDepth` blocks), the borrower's
`attach_collateral`, and whoever else calls `verify_collateral`. Logs are taken
in any order, which includes the order of the code. Decoding is left out: a
topic filter has already selected the logs, and a log that does not decode is
never a lock. A lock stands for its transaction and for its loan, because the
escrow locks once per loan.

### CronWatcher and the serverless watchers

`collateral/watcher-poll` keeps its cursor in Postgres and scans to the tip in
chunks; `watcher/poll` keeps it in a module variable of the serverless instance
and scans one chunk. Each request is a sequence of awaits, `run[r].at` says at
which one it is. A behaviour is one of the first kind or of the second
(`kind`, chosen in `Init`), because the two share only the records on Stellar:
to one, the other is a relayer (`OtherMoves`).

| TLA+ variable | Code |
|---|---|
| `tip`, `block` | the EVM chain: its height and the block of each lock's log |
| `record` | the collateral record of the lock's loan |
| `signed` | what `attestCollateral` had signed (history) |
| `stored` | `watcher_state.last_block` |
| `cached` | `cachedFromBlock` of the instance, 0 for null |
| `run[r]` | `tip`, `fromBlock`, `toBlock`, the logs left to handle, the errors among the `details` of the answer, and once it has ended the answer: its `ok` and those errors |
| `fetched` | history: blocks whose logs were fetched, or lie before `LOOKBACK` |

Any call may fail, the platform may cut a request off between two calls, an
answer of `setLastBlock` may be lost, an idle instance may be replaced
(`ColdStart`).

A log whose handling fails does not end the request and does not make its answer
a refusal: both routes catch the error, put it with the log's transaction into
`details`, go on to the next log, move the cursor past this one, and answer
`ok: true` (`LogFails`, `Answer`). Only a call outside that loop ends a request
with `ok: false`, and then without `details`. Nothing reads `details`; a lock
whose attestation failed is left to whoever does.

### PrismEvidence and the signed messages

Entry points that take a key or a message, without what they do to the vault.
A signed message is a record in `col_atts`, `enc_atts` or `clk_atts`; any key
may sign anything at any time, since the routes sign for whoever asks and
their keys come from the environment. Messages are never taken out: one may be
submitted late, twice, out of order, or for another loan. `Without` is the loop
with which `remove_oracle_from_allowlist` builds the new list, as a recursive
function so that it can be proved about.

| TLA+ variable | Code |
|---|---|
| `allowlist` | `config.oracle_allowlist` |
| `takes` | loans in Originated or Active, for which evidence may be attached |
| `collateral[l]` | `status`, `oracle_pubkey`, `nonce` of `CollateralRecord` |
| `health[l]` | `status`, `oracle_pubkey`, `score_commitment` of `EncryptLoanHealth` |
| `payouts[v]` | the `CloakPayoutRecord`s of the vault |

### CollateralBridge and the pages

One loan. A page acts on `view`, what it polled last, the loan and the record
apart from each other; a request is its awaited calls, each a step of its own,
and several are under way at once. An answer may be lost although the call took
place. `alive` says whether the page that asked is still there: a reload
forgets it, but what it sent stays sent. The routes' calls of the contract are
the operators `Attach`, `Verify`, `Settle` and `SettleCall`: each gives the error
name that the route tells apart, or `"ok"`.

`collateral/release`, `collateral/reattest` and `admin/liquidate-collateral` are
endpoints that anyone may call, so each may be asked at any time (`AskRelease`,
`AskReattest`, `AskLiquidate`). prism-core is open too: `DirectCall` is the
borrower who attaches evidence, and anyone who verifies or releases a record
with a message that the oracle has signed (it signs for whoever asks);
`release_collateral` does not look at the loan. The disbursement alone is
taken to come from the admin's page: `disburse_loan` wants the admin's signature,
and the page is the only one that has `simulation/admin-action` give it.
`DisbursedIsBacked` is about that page, and `SecuredLoan` rests on it there.

What the release route takes for the state of the loan is modelled by what the
conversion does. `LoanState` is an enum of variants without fields, which comes
through the client as an array of one name (`Native`; `useLoans.ts:26` and
`vaults/on-chain/route.ts:52` read its element 0). `release/route.ts:72` takes the first key of the
object, which for an array is the index `'0'` (`RouteState`), so the route
refuses every request (`MayRelease`) and never calls the contract: with the code
as it is, records are released by direct calls only, and the half of
`SettleInvoke` that releases is not reached. No property and no proof rests on
that refusal; the finding `autorelease` is about it.

Re-attestation goes on with default values when it cannot read the lock because
its settings are missing or malformed (`reattest/route.ts:49-51`); an RPC call
that fails comes back from `getEvmLock` as no lock, and ends it. Both are in
`ReattestRead`.

| TLA+ variable | Code |
|---|---|
| `borrower` | `loan.borrower`: a user, or the admin's own account, in which case re-attestation can attach |
| `loan`, `repaid`, `vaultActive` | loan state and `repaid_amount`; whether the vault is Active |
| `record` | status of the `CollateralRecord` |
| `lock` | slot of the escrow; `"Young"` while the chain may still drop it |
| `view`, `page` | what the pages polled; `flowStep` of `EVMCollateralStep` |
| `req[r]` | the requests under way and where each is |
| `due` | the EVM calls that route answers asked of the Safe's signers |

Signatures of the oracle are part of the step that uses them: it signs for
anyone, so a signature constrains nothing here.

The bridge carries its own picture of the contract. `LoanGates` says that it is
the right one: its three variables are the state of the loan, the status of its
record and whether its vault is Active, and both modules implement it. In
`PrismCore` each loan does, whatever goes on in other loans, tranches and vaults
(`Gates(l)`, with the loan's own vault for the gate); in `CollateralBridge` the
one loan does, whatever pages, routes and watchers do to it. A step that the
bridge lets the contract take is thus one that the ledger allows of a loan.

`SecuredLoan` has three variables: the loan, the record and the lock. Its steps
are verification, payout, repayment, release or seizure of the record, and the
handing over of the collateral, each on what is the case when it is taken.
`Life` maps the bridge to it: a record counts once it is verified, a loan that
is being repaid is still out, and the lock is open until the collateral has
left. Everything else of the bridge (what pages have polled, requests, lost
answers, what the Safe was asked) disappears.

What `SecuredLoan` promises is what the program keeps, which is less than its
documents do. No loan is paid out before its collateral was verified, or after it
was seized; a verified record is not reset; the collateral leaves its record
once, and its lock the way the record went. It does not promise that collateral
is given back only for a loan that is repaid (`GiveBack`), that a loan is not
paid out on collateral that was given back before (`PayOut`), or that only a loan
that is out is liquidated (`Seize`): neither the contract nor the routes keep
that, and the findings say where a document claims it.

### LoanOrigination and the applications

Pages act on rows they polled (`seen`); an approval is a request that probes
loan ids, loads the account's sequence number, prepares (simulates), sends and
polls the transaction, and then patches the row. The network applies a
transaction when its number is next; one that is sent may be applied after
everybody has given up on it (`pool`), or expire.

| TLA+ variable | Code |
|---|---|
| `row[a]` | `status` and `loan_id` of the application's row |
| `seen`, `rejects` | what pages polled; rejections under way |
| `req[r]` | application, await, id being probed, sequence number |
| `pool`, `chain` | transactions that may still apply; what became of each sequence number |
| `loan[i]` | who borrows under loan id `i` |

### EvmVault and the collateral vault

A transaction of the EVM is atomic, but other code runs inside it: a token that
calls its sender or receiver before and after it moves, and the receiver of
ETH, which `_transferOut` calls with all its gas. Each handler that transfers
is therefore two actions. `Lock`, `Release` and `Liquidate` end at the
transfer: they have checked, written the slot and entered the guard, and push a
frame that says what is to move and what the state was before. `Move` is the
transfer, `Return` the rest of the handler, and `Revert` a failure of the
transfer, of the callee, or of whoever called the handler, which takes back
everything since the call. While a frame waits, any function of the vault may
be called (`MayCall`); of ETH the callee only gains control once it has been
paid. `lockETH` calls nobody and is one action.

| TLA+ variable | Code |
|---|---|
| `locks` | `_locks` (`state`, `borrower`, `token`, `amount`) |
| `accepted`, `paused` | `acceptedTokens`, `Pausable._paused` |
| `entered` | the status of OpenZeppelin's `ReentrancyGuard` |
| `purse` | balances of the tokens and of ETH (external) |
| `stack` | the call stack |

`onlyAdmin` is left out: any admin call may come whenever its other guards
allow, and the treasury is any address, the vault's own included (an ETH
transfer to itself runs into `receive`, which reverts). Tokens are plain
ERC-20s: a transfer moves the amount it names or fails. One that takes a fee
would leave the vault short, which is for the whitelist to prevent. A direct
transfer of tokens (`Gift`) is modelled between transactions.

`Escrow` has no calls, guard or pause. Its state is that of the vault after the
last transaction that ended: `Committed` is the state itself when no call
waits, and the bottom frame's snapshot otherwise.

## 3. Runs

Every run explores its whole state space. Deadlock is checked in `bridge`,
`evidence` and `origination`. It is not in the others: contract calls are
optional, chains stop growing at the bound, and a watcher may be down for good.

| Run | Instance | Why it is large enough |
|---|---|---|
| `ledger` | one vault, no loan, 4 USDC, amounts 1 and 2, `QOne` 4, width 4, one tick, one event | two depositors' worth of money over three tranches, fractional NAVs (QOne/3), a NAV of three so that rounding shares up would pay, overflow at the width, a loss larger than Alpha, yield into empty tranches, trading after a loss and after a default |
| `loans` | one vault, one loan with both records, 3 USDC, `QOne` 2, width 3, two events | every order of disbursement, repayment, attachment, release and the three ways to default; a loss after a loss |
| `evidence` | two keys, two loans, an allowlist of two, two messages, nonces up to 2 | a key delisted or rotated between two messages, a message for the other loan, a full list; a second and a lower nonce |
| `scan` | two symmetric locks, two symmetric polls and the backfill, confirmations 2, reorganisations of 2, range 2, lookback 3, height 4, two starts, failing routes | two chunks, two polls in flight with a backfill's marks, a log that moves, a restart |
| `catchup` | one lock, two polls, fair event loop, routes that answer | a backfill of two chunks that finds the lock in either |
| `cron` | one lock, two requests of either kind, confirmation 1, range 1, lookback 2, height 4 | three chunks, a slow request that stores its cursor after a faster one, a replaced instance, failing calls |
| `escrow` | two loans, one token and ETH, a borrower, a treasury and the vault, 2 of each asset, two calls deep | two locks of the same asset, so that paying one twice would take the other's; a callback into every function from within every other; the second level is what the guard must refuse |
| `bridge` | one loan of either borrower, two requests in flight, principal 2, interest 1, failing calls and lost answers | any two requests race, with others before and after them; partial, exact, full and excess repayments |
| `origination` | two applications, two approvals, two ids, three admin transactions, two ids shown | two approvals of one or of two applications that meet in an id, in a sequence number, or in neither; a late transaction behind a foreign one; ids used up |
| `payout` | one vault, one loan | see the findings |
| `confirmations` | one lock, one poll | see the findings |
| `autorelease` | one request at a time, nothing fails | see the findings |

The scale and the width are parameters, so small values of them meet the
rounding, saturation and overflow that 2^64 hides; the proofs hold for all of
them.

*Symmetry.* Locks, polls, requests, keys, loans and applications are
interchangeable in the runs that declare it, and none of those runs has a
liveness property.

*Fairness.* The ledger has none: nobody has to call it. `FairSpec` of the
watcher says that an awaited call returns in the end, with an answer or an
error, and that the event loop then runs the continuation: weak fairness of the
boot, of the end of a chunk, of each poll and of the steps of each scan. The
fetch of a chunk is retried by the code until it succeeds, so its fairness also
says that the RPC node is not down for ever. Nothing is assumed of the chain,
the borrower, the other relayers, or a restart. In `catchup` the routes do not
fail; that a failure is not made up for is part of the finding `confirmations`.

`FairSpec` of `CronWatcher` is weak fairness of each request: an awaited call
returns, or the platform cuts the request off. `FairSpec` of `CollateralBridge`
says that requests are answered, that a young lock settles, that watchers run
and that pages go on polling. No user has to click and no signer has to sign.

## 4. What the properties say

Ledger (each is broken by a mutant of the code it is about):

* `NavFresh`: the price on record is the price of the totals on record.
* `SupplyBacked`, `PayoutCovered`: shares are exactly the pTokens in
  circulation, and all of them together are owed at most their own tranche's
  assets; hence the saturating subtractions of `withdraw` never saturate.
* `LossLedger`: bucket, event log and the tranches' cumulative losses agree.
* `Seniority`, `YieldSeniority`: a loss climbs only over emptied tranches;
  yield passes on only from satisfied ones.
* `NavFallsOnlyByLoss`: outside a loss, no step lowers the price of a held
  tranche, except that a deposit's rounding may move it.
* `LoanBook`, `DefaultClosesLog`, `DefaultIsFinal`: what was lent is the
  principal of disbursed loans; a default is the last event and closes the
  vault.
* `ImplementsLoanGates`: to each loan on its own, every call of the contract is a
  step of `LoanGates`, or none: no payout while evidence waits for its
  verification or after a default, no verified record reset or settled twice,
  and no record liquidated after the vault has defaulted for another reason.
* `ReserveIdentity`: balance + seeded + lent = tranche assets + loss buckets +
  repaid, over all vaults. This is the corrected form of the identity that the
  documents state.
* `WithdrawalsFunded`: a withdrawal that its tranche covers fails for want of USDC
  only while USDC is out on an unpaid loan or in a Soroswap pair. With that
  added, the balance pays all holders of all vaults at once and leaves the loss
  buckets whole.
* `RoundTripNeverGains`: what is bought with a deposit sells back, at once, for
  no more than was paid, whatever happened before.

Evidence:

* `StatusIsEvidenced`: every verified, released or liquidated record, proven
  default and payout rests on a message that the key in the record signed for
  this loan and this status, whatever was rotated or replayed in between.
* `NonceGrows`: what moves a verified record was issued later than what moved
  it before, by the same oracle.
* `ListStaysSound`: no change of the allowlist makes a key occur twice, which
  a later removal or rotation would leave behind.

Escrow:

* `Solvent`: in the middle of a transfer too, when the code of others runs, the
  vault's balance and what it is about to get cover all locks and what it is
  about to pay.
* `NeverTrapped`: no pause and no change of the whitelist stops a lock from
  being released between transactions.
* `ImplementsEscrow`: each transaction as a whole is one step of `Escrow`.

Watcher:

* `SignedIsFinal`: no lock is attested that a reorganisation of the assumed
  depth can still remove.
* `AttestedOneAtATime`, `ProcessedIsDone`: overlapping scans never attest the
  same lock at once, and what the process remembers as done is done or under
  way.
* `NoBlockSkipped`: however polls overlap and fail, the cursor stays within
  what was fetched.
* `BackfillCatchesUp`: a final, attached lock ahead of a backfill is verified
  unless the process stops first.

Cron watchers:

* `CursorsBehindScans`: no cursor passes a block whose logs no request has
  fetched, also when a slow request overwrites the cursor of a faster one.
* `SignedIsFinal`: as above, however long a request has run since it read the
  tip.
* `RangeIsCaught`: a request that takes up a range verifies the final locks in
  it whose records are pending, or its answer tells of it: with the error of
  that lock among its details (also under `ok: true`), or as not ok.

Bridge:

* `SettledTogether`: collateral leaves the escrow only the way that its record
  went.
* `DisbursedIsBacked`: the admin's page pays out no loan before its record was
  verified, however old the page's view is. (`disburse_loan` itself lets a loan
  without a record through.)
* `ImplementsSecuredLoan`: every step of pages, routes, direct callers, watchers
  and Safe is the next step of `SecuredLoan`, or none, though everybody acts on
  what was read earlier. It has `VerifiedIsKept` in it (a verified record is never
  reset, and is settled once), which is a theorem and has no run of its own.

Origination:

* `RowNamesTheLoan`: an approved row names a loan of that application, though
  approvals overlap and a transaction may apply after its poll has given up.
* `EveryLoanIsListed`: ids have no gap. A poll of the pages stops at the first id
  without a loan and at the first read that fails (`UseLoans`); it misses a loan
  among the ids it may read only for a read that failed.

### Findings

| Run | What it shows |
|---|---|
| `payout` | `lib.rs:717-719`: "must be oracle-verified (status = Attached)"; the code turns away Pending alone, and a record may be released before the loan is paid out, so a loan is paid out on collateral that was given back |
| `confirmations` | `docs/collateral-flow.md:44-46`: a lock met before its confirmations is not looked at again |
| `autorelease` | `docs/collateral-flow.md:72-76` ("[AUTO — no user action] Oracle detects loan repaid → calls release_collateral on Stellar") and `:229-237`: the release route takes the index `'0'` for the state of the loan and refuses every request, so the record of a repaid loan stays Attached until somebody calls the contract directly, and the Safe is never asked for the lock |

Smaller disagreements between the code and what its comments and documents say,
met while modelling, without a run:

* `lib.rs:313` says that a first deposit is priced at NAV 1.0; `accrue_yield`
  also credits a tranche that nobody holds (`lib.rs:503`), and the next first
  deposit mints 1:1 against those assets (`RoundTripNeverGains` excepts that
  case by name; the theorem `FirstHolderOwnsAll` says what becomes of them: all
  but one unit is the new holder's).
* `lib.rs:622` says that a Recovery event flips a Defaulted vault back to
  Active; `lib.rs:545` lets no event reach a Defaulted vault.
* `lib.rs:1304-1305` says that tranche assets and loss bucket add up to the USDC
  held; a test restricts that to times without loans. Seeding a Soroswap pair
  (`lib.rs:1371`) breaks it then too, and so does the interest a borrower paid;
  `ReserveIdentity` is what holds.
* `lib.rs:1447` says that the yield target saturates; `:1455` makes it fail the
  accrual, and by the theorem `StuckYieldStays` every later one too, until
  assets leave the tranche or the vault defaults.
* `LoanState::Defaulted` is looked for by the release route and set by nothing.
* `errors.rs`: `CloakPayoutAlreadyRecorded` is returned by nothing, and the
  same batch can be recorded twice.
* `docs/contract-reference.md:102` wants oracle keys to stay on the allowlist;
  a record keeps its key, and the handlers that settle it do not look at the
  list again. The rotation of `docs/oracles.md:105-111` in turn strands records
  that name the old key once its secret is gone.
* `docs/collateral-flow.md:20` says that the contract assigns sequential loan
  ids; the admin's route chooses them.
* `watcher.ts:24` says that an `eth_getLogs` call spans at most `MAX_RANGE`
  blocks; a poll exactly `MAX_RANGE` behind asks for one more (`watcher.ts:113`,
  `PollEnd`).
* The header of `collateral/watcher-poll` names a cron of `vercel.json`, which
  is `{}`; that of `watcher/poll` a key-value store, while the cursor is a
  variable in memory. Both leave behind logs that were still waiting for
  confirmations or for a record.
* The header of `collateral/reattest` promises a repair without the borrower;
  its `attach_collateral` is signed by the admin and fails with
  `BorrowerMismatch` for every other borrower.
* `collateral/release` answers a `StatusMismatch` as released already, which the
  record need not be: it may be Pending or Liquidated. The borrower's page
  drops the call for the Safe (`evmManual`) that the answer carries.
* `docs/collateral-flow.md:248` liquidates a loan in default; the page offers it for
  every loan that is out, a repaid one included
  (`admin/loans/[id]/page.tsx:307`), and nothing behind the page, whose route
  asks for no login, looks at the loan (`Seize` of `SecuredLoan`).
* The comment of `release_collateral` (`lib.rs:1145-1146`) says that it is called on
  full repayment; it asks for the caller's own signature and the oracle's, and
  does not look at the loan.
* `borrow/page.tsx:613` clears the approved applications of all borrowers when
  one of them is done.
* `useLoans.ts:4` says that all loans are returned; it stops at the first id
  without one, and after ten, while the route hands out thirty. An application
  that is approved twice becomes two loans.

## 5. Proofs

The theorems hold for every value of the constants, from the named assumptions
of each module: of the ledger, any finite sets of vaults and loans, any amounts
within the width, any positive scale and year; of the others, any sets of
loans, keys, locks, applications and requests.

* `UnitSumsProofs`: `TotalType`, `TotalUpdate`, the law of a total when one
  entry changes, from the cardinality of disjoint unions, and `TotalCovered`,
  the law for totals that bound each other entry by entry, from an injection.
  `Total` counts, so that this needs no induction.
* `PrismCoreProofs`: first the share arithmetic of `PrismMath`: the payout of
  any holding is within the assets (`PayoutWithinAssets`), a leaver never lowers
  the NAV (`LeavingNeverLowersNav`), a round trip returns no more than was paid
  (`RoundTripBound`). Each reduces to bounds on one integer division and the
  monotonicity of a product. Then `TypeCorrect`, that is `Spec => []TypeOK`, one
  lemma per family of actions; `AccrueEffect`, `CascadeEffect`, `DepositEffect`
  and `WithdrawEffect` compute the rows a handler writes once, for all later
  use. What a step writes is enough for the event log (`LogCorrect`), the ledger
  of losses (`LossCorrect`) and the order of the two waterfalls
  (`SeniorityCorrect`, `YieldCorrect`). The accounting needs more:
  `AccountingInvariant`, that is `Spec => []IInv`, and from it `ReserveCorrect`, `NavCorrect`, `SupplyCorrect` and `PayoutCorrect`;
  the loan books (`BooksCorrect`, `BookCorrect`), with them `WithdrawalsCorrect`,
  the closed vault (`DefaultCorrect`), and that
  prices fall only by losses (`HoldersKeepValue`) and buying never pays at once
  (`RoundTripCorrect`). Of the two cases these leave out: who buys an empty
  tranche owns what was booked to it (`FirstHolderOwnsAll`, from
  `SoleHolderTakesAll`, for a scale no smaller than the width, which 2^64 is),
  and an accrual that overflows goes on to (`StuckYieldStays`). Last the
  refinement `CoreImplementsLoanGates`.
* `LockWatcherProofs`: `WatcherInvariant`, and from it `WatcherTypes`,
  `SignedCorrect`, `OneAtATime`, `DoneCorrect`, `NothingSkipped` and
  `BackfillDropsNothing`.
* `CronWatcherProofs`: `CronInvariant`, and from it `CronTypes`, `CronCursors`,
  `CronFinality` and `CronDropsNothing`.
* `PrismEvidenceProofs`: `EvidenceCorrect` and `NonceCorrect`; of the allowlist,
  `RemoveExact` (the removal loop drops the key and nothing else),
  `EvidenceTypes` and `ListCorrect`.
* `LoanOriginationProofs`: `OriginationInvariant`, and from it
  `OriginationTypes`, `RowsCorrect` and `LoansAreListed`.
* `CollateralBridgeProofs`: `BridgeInvariant`, and from it `BridgeTypes`,
  `ChainsAgree`, `PayoutBacked`, `VerifiedKept` and the
  refinements `BridgeImplementsSecuredLoan` and `BridgeImplementsLoanGates`.
* `EvmVaultProofs`: `VaultInvariant`, and from it `VaultTypes`, the
  refinement `VaultImplementsEscrow`, `VaultSolvent` and `NothingTrapped`, from
  `VaultAssumption`: a finite set of loans, any tokens and users, any depth of
  calls (at least one for `NothingTrapped`, or nothing could be called).

*The invariant of the ledger.* `ReserveIdentity` alone is not inductive. `withdraw`
pays `payout` from the pool but takes it from `total_assets` by a saturating
subtraction: the two sides of the identity move together only if the payout is
within the assets. That follows from `PayoutWithinAssets` when the NAV used is
the NAV of the totals (`NavFresh`) and the shares burnt are within the supply
(`SupplyBacked`, with the token's own guard on the burn). A tranche that is
initialised must start from nothing, so that it adds no claim (`Untouched`).
Hence `IInv == TypeOK /\ NavFresh /\ SupplyBacked /\ Untouched /\
ReserveIdentity`; `PayoutCovered` is a consequence, and the action properties
follow from `IInv` before the step and what the step writes. `LoanBook` adds the
principal of a loan when its state leaves `Originated`, which it does once.
`DefaultClosesLog` needs only the types, and `LossLedger` also that a tranche
nobody has initialised has lost nothing (`LossesStart`): each of the three
cascades writes the log, the bucket and the tranches together.

*The invariant of the watcher.* Whatever a scan holds is old: the tip it read,
the logs it fetched, the cursor it started from. `LogsTrue` says that a log
which was confirmed by the old tip is still in its block, because
reorganisations reach no deeper than the confirmations (`WatcherAssumption`:
`ReorgDepth` is at most `Confirmations`), and `SignedDeep` carries that to what
was attested. `AttestsOne` and `Exclusive` say that a scan attests one lock, deep
and marked, and that no other scan has it: a scan only takes what is unmarked,
and only the scan that has the lock takes the mark back. `NothingLeft` says that
everything below the place where a scan started, below its end once its logs are
fetched, and below the cursor, was fetched or left out by the lookback: that is
why a slow poll may set the cursor back and never too far forward. `Phases` keeps
the backfill and the polls apart.

*The invariant of the cron watchers.* A request stores a cursor that it computed
from one it read long before, and may overwrite a newer one. `Progress` says why
no block is lost: below whatever range a request asks for, and below the end of
a range whose logs it has got, every block was fetched, by this request or by an
earlier one; so what it stores is true of the past whatever others have stored
meanwhile, and the set of fetched blocks only grows. `Depth` says that what a
request has picked to attest, and what was attested, is deeper than any
reorganisation reaches (`CronAssumption`: `ReorgDepth` is at most
`Confirmations`); a log that is too young is left behind, and never picked by an
older tip. `Kinds` keeps the two watchers apart, because only one of them fetches
block 0.

*The invariant of the escrow.* A returning call must be a step of `Escrow`, so
the invariant has to say what a waiting call has done. `OneCall`: a handler
begins only when the guard is not entered, so at most one frame waits, and the
guard is entered exactly then. `Progress`: since that frame's snapshot, one
slot has been locked or settled, with the borrower, asset and amount that the
frame transfers, and the balances are those of the snapshot before the transfer
and differ by exactly that amount after it. `Return` commits the two together;
`Lock`, `HandOver`, `Move` and `Revert` change nothing that is committed. The
pause and the whitelist are not part of it, because no step of the escrow
depends on what they are once the handler has begun. `Solvent` then needs no
look at calls: every step of `Escrow` keeps the committed balance above the
committed debt (`NextBacked`), and `Progress` says how the two differ from the
current ones. `NothingTrapped` adds to it that a lock is part of the debt in its
asset (`OwedWithinDebt`), and that without a waiting call the guard is not
entered: so release passes all its guards and the transfer is covered.

*The invariant of the evidence.* `EvidenceCorrect` has `StatusIsEvidenced` with
the types of the records. Signed messages are never taken back, so a message
that once justified a record still does; what has to be shown is that nothing
but a message that binds the record changes its key, nonce or status once an
oracle has spoken, which is `NonceGrows` too. The allowlist is a sequence, and
removal a loop over it. What the loop has built after `n` keys (`WithoutPasses`,
`WithoutKeeps`) is proved for every `n` without the library's induction
theorems, which take an operator: the well-founded order of the naturals gives
the smallest `n` at which it would fail (`Smallest`), and one pass of the loop
shows that it holds there.

*The invariant of origination.* A request uses late what it has read early:
`ProbedBelow` says that all ids below the one it is at have loans, and
`NoGaps` that ids with loans have no gap; both stay true because a loan is never
taken back. The exception is a failed probe, which
counts as a free id; the simulation in `Prepare` and the contract catch that,
and `SentFirst` and `ChainTrue` say what a sequence number that was used once
can still mean: a transaction found under it is the request's own, and has
originated the loan of its application under its id. So what `Patch` writes is
true however late it is (`PatchTrue`).

*The invariant of the bridge.* The admin's page acts on a record that it saw a
while ago, and the Safe on answers that were given a while ago. `SeenIsVerified`,
`RightlyAsked` and `DueIsDone` say that it does not matter: a record that was once
verified stays verified, whoever attaches, re-attests, releases or liquidates
meanwhile (`Onward`), and a call that the Safe was once asked to make stays
right, because the contract settles a record once and the route passes on a call
only with an `"ok"`. The refinement needs two things more. A payout is a step of
`SecuredLoan` only while nothing was seized: the request knows that the record
was verified, and a liquidation closes the vault for good (`SeizedIsClosed`),
which `disburse_loan` looks at. A verification is one only while the loan is still
Originated: a loan that is out has a verified record (`DisbursedIsBacked`).
Nothing assumes that a record is released for a repaid loan only, and
`MayRelease` is nowhere in the argument.

*The gates of a loan.* That `PrismCore` implements `LoanGates` needs, besides the
types, that a loan is drawn on a vault that exists (`LoansAreDrawn`): otherwise
the initialisation of a vault could open a gate. `GateMoves` says that a step
writes the loan and the record of `l` only as one of seven calls for `l`,
`QuietGate` that all others can do no more to it than close its gate, and
`LoanGated` and `RecordGated` that each of the seven is a step of `LoanGates`. The bridge needs no more than its types.

*What is left of liveness without fairness.* `RangeIsCaught` and
`BackfillCatchesUp` say that a lock taken up is verified in the end. That
something happens at all rests on fairness; that nothing is lost on the way does
not, and is proved for any number of locks, requests and polls. `Held` and
`Ahead` say where a lock that was taken up still is: among the logs that were
fetched, in flight, or in a block still to be asked for. No step takes it from
there unless its record is verified, its error is among the details of the
answer or the answer is not ok (cron), or the attestation fails or the process
stops (watcher). `CronDropsNothing` also says that an error once among the details
is still there in the answer the request ends with, if that answer is ok. The chain cannot, because the
log is too deep; the next chunk cannot, because it starts where the last one
ended and the chunks go on to the tip the scan began with; and the watcher's mark
cannot, because a marked lock is verified or in flight (`ProcessedIsDone`) and a
backfill shares its phase with no other scan.

*Only model-checked*: that `NeverTrapped`'s release is enabled (`NothingTrapped`
proves its guards and the balance; ENABLED is beyond the prover), the liveness
properties `RangeIsCaught` and `BackfillCatchesUp`, of which `CronDropsNothing`
and `BackfillDropsNothing` prove what does not rest on fairness, and the three
claims of section 4, which do not hold. Every other property of a
passing run is a theorem.

## 6. Not modelled

* *Authorisation.* Who signs a call is left out everywhere: any user, admin and
  anyone may call at any time when the other guards allow. The oracle request
  guard (signed requests, replay window, rate buckets) narrows who may ask for
  a signature, and no result rests on it. `update_admin` changes who is meant
  and nothing else, and has no action; the ledger is listed as partly modelled
  for it.
* *Soroswap and Reflector clients.* Thin calls to contracts outside the
  repository; `seed_pool_liquidity` takes from the pool what it is asked to.
* *What messages carry and nothing reads*: amounts and valuation times of a
  collateral attestation (`lib.rs:1526` decodes the time, and no handler
  compares it with the ledger's), loan terms, ratings.
* *Other stores, and the event indexer.* Logs and mirrors for display, read by
  no handler that acts on a chain. The event store names rows by random ids
  (`eventStore.ts:78`), so an event indexed twice is shown twice.
* *Other hooks, pages and scripts.* A button that makes one call is a behaviour
  of `PrismCore`, whose users may call anything in any order. Most lines of the
  implementation are such pages, their layout and their text, and some
  components are reached by no page at all (`BorrowingWorkflow`,
  `StellarBorrowForm`, `LoanApplicationForm`, `ActionPanel`,
  `useOriginateLoan`). The share of lines with a definition of their own is
  therefore small, although every part that moves money or collateral has one.
* *Legacy Solana SDK, marketing video, documentation site, vendored libraries.*
  Not part of the running system, or not of this repository.
* *Several chains, several loans.* The watchers of several EVM chains share only
  the set of transaction hashes. The bridge has one loan: loans meet in the
  ledger (`PrismCore`) and in the escrow (`EvmVault`), not in the pages.

What could come next: a bridge with a vault of several loans over `PrismCore`
itself, and the request guard.
