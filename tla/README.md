# Bond Desk in TLA+

Bond Desk is a desk for tokenized bonds on Hedera: Solidity contracts that hold the terms, the
market, the coupons and the collateral; a confidential workflow that watches coverage and signs
risk verdicts; a second one that defends a loan; a relayer that takes the verdicts to the chain; an
API that caches reads and grants KYC; a web front end through which people trade. This directory
models the parts in which state is shared by actors who do not wait for each other, and the pages
that tell people what those parts will do. TLC checks the models on small instances, and TLAPS proves
the most important facts for every value of the constants.

All paths below are relative to the repository root. `PROJECT.json` maps every definition that
models code to its lines.

## The system

### Components

**Risk gate and verdict path** (`contracts/src/RiskGate.sol`, `BondRegistry.sol`,
`RegistryAuth.sol`, `workflow/bond-monitor/handler.ts`, `workflow/shared/decide.ts`, `verdict.ts`,
`web/src/pages/bond/Risk.tsx`).
State: status of each bond; the gate's last nonce and last verdict per bond; verdict signer and
freshness window; in the enclave nothing between runs.
Operations: a monitor run reads one snapshot, decides from a private ladder, stamps its own clock
and signs; anybody submits, from the page too; the admin unfreezes, rotates the signer, sets the
window; issuers register.
Hard: runs overlap; a signed verdict is public and travels late, twice and out of order; the clock
that stamps is not the chain's; people move the status in between.
Correct when: verdicts land one nonce at a time, each decided on the status it lands on (unless a
person moved it); what lands is of bounded age; collateral is seized exactly with the default; the
page offers a verdict exactly when the gate would take it.

**Coupons, redemption and schedules** (`contracts/src/BondLifecycle.sol`,
`harness/src/HederaHarness.sol`, `harness/src/mocks/MockHSS.sol`, `web/src/pages/bond/Coupons.tsx`).
State: settlement pool, paid coupons and claims per bond; a pointer to the schedule armed for the next
coupon; in HSS the schedules themselves. Operations: fund, payCoupon (by hand or by a scheduled run,
which arms the next run), schedule, claim, redeem. Hard: a run executes once whether or not it reverts,
in a block that may be seconds early; arming may fail at any time; the token may be paused when a
snapshot is due; hands and runs compete for one coupon; holders trade between a coupon's snapshot and
their claim; all bonds share one balance. Correct when: one armed run per bond, named by the pointer,
serving the next coupon, never early; one payment per calendar date; pools and reserved coupons add up
to the balance; each holder gets the snapshot's share once; coupons of a funded bond are all paid; the
page's sentences, warnings and buttons say what the contract would do, as far as a browser's clock and
what the page reads allow.

**Relayer** (`relayer/src/index.ts`, `riskgate.ts`).
State: an inbox directory; in memory a busy flag and the names seen.
Operations: a timer starts a tick; each file is parsed, verified, compared with the chain's nonce,
simulated, sent, awaited and renamed.
Hard: ticks and minutes of waiting; half-written files; transport errors before and after the node
took the transaction; competing senders; crash between receipt and rename.
the gate refuses for now what it would take later. Correct when: ticks do not overlap, a file put away
is settled, and a complete verdict gets there unless it is refused in its turn.

**ATS token** (external; the repository's stand-in is `contracts/src/mocks/MockATSBond.sol`,
what is used of it `contracts/src/interfaces/IATSBond.sol`).
State: balances and supply with lazy checkpoints, the snapshot counter, KYC, freezes, pause.
Hard: nothing is copied when a snapshot is taken; three readers (API, pages, market) judge
eligibility from different parts of it, the API with a bond status from its cache. Correct when: what is
read of a snapshot is the state of its moment for ever, a page decides as the token does, and no answer of
the API is older than its cache allows.

**Collateral vault** (`contracts/src/CollateralVault.sol`, price from `NavOracle.sol`,
`web/src/pages/bond/Collateral.tsx`, `web/src/lib/coverage.ts`).
State: HBAR per bond in one balance, seizures, claims, the minimum coverage.
Hard: a live feed that moves and goes stale; flooring on both sides of the ratio, and once more in
the page; claims of several seizures with dust; order of freeze, maturity, redemption, default.
Correct when: everybody is paid whatever the order, withdrawals keep the minimum, a seizure is
final, the issuer of a redeemed bond gets the rest back, and the page's hint and warning are off by
their roundings and no more, but for a withdrawal of everything when nothing is outstanding.

**Bond market** (`contracts/src/BondMarket.sol`, `web/src/pages/bond/OrderBook.tsx`,
`web/src/lib/format.ts`).
State: orders; settings. Nothing is escrowed: money and bonds move at the fill.
Hard: everything may have changed between place and fill; partial fills floor; maker, taker and
treasury may coincide; the page repeats the arithmetic in bigints. Correct when: no order trades
more than placed, or off its price; every trade obeys the rules of its moment; money is conserved;
what the page lists, sums and allows is what a fill does.

**KYC desk** (`kycDesk` and `rateLimited` in `api/src/index.ts`, `grantKyc`, `revokeKyc`, `send` in
`api/src/chain.ts`, `web/src/components/SelfService.tsx`, `web/src/pages/Compliance.tsx`).
State: pending wallets and hits per address and IP in the process; KYC and SSI issuers on the
tokens; one officer account with one nonce.
Operations: a request or revocation walks every bond and sends up to two transactions for each.
Hard: handlers interleave at every await and share the account's nonce; a walk fails half way;
transactions land after their handler gave up; the officer acts by hand meanwhile.
Correct when: one request of a wallet at a time, no more in a window than the rate, a 200 is true
of every token, a request that met nobody does not fail, everybody is answered.

**Read API** (`api/src/index.ts`, `chain.ts`, `mirror.ts`, `web/src/hooks/data.ts`).
State: a cache of promises with ages. Operations: reads behind the cache; the order book is the
quote, the next id and every order slot read one by one.
Hard: promises overlap, expire and fail late; a page refreshes at its receipt and may be served what
was read before; an answer mixes moments.
Correct when: a failure is never kept, the second look finds the page's own transaction, the page
catches up, an answer lists only orders that existed.

**Transaction desk of the web app** (`web/src/hooks/useTx.ts`, `web/src/components/Toasts.tsx`,
`ui.tsx`, the fill form of `OrderBook.tsx`).
State: toasts and timers; busy flags; what the form last read of funds and order.
Hard: several clicks run through one pipeline at once; the wallet may broadcast and report an error,
and the wait for a receipt may fail, while the transaction is still to land; a form is closed and opened,
or an approve button taken down by a wrong size, between a click and its answer.
Correct when: every toast says what became of its transaction as far as the page heard, every mounted
button is busy exactly while the click made in it is under way, and a click whose transaction is in a
block ends.

**Liquidation protection** (`workflow/liquidation-protection/main.ts`, `decideLiq` in
`workflow/shared/decide.ts`).
State: none between runs; the position, the wallet's reserves and its nonces are the chain's.
Hard: runs overlap; two transactions are sent together and the node may take either; a price moves
between plan and execution; everything rounds.
Correct when: a plan is the least that meets the target within caps and reserves, nothing is spent
twice for one price, and the position ends above the trigger.

**NAV oracle** (`contracts/src/NavOracle.sol`): stateless reads of a feed and of the terms.
**Harness** (`harness/src`): capacity probing for schedules. **Web pages that only read** and
**Scripts** (`contracts/script`): no state of their own.

### How they interact

```
 enclave run --signed verdict--> inbox --relayer--> RiskGate.submit --status--> BondRegistry
                    \------- anybody, Risk page ------/   |  DEFAULT: seize       ^  ^
                                                          v                       |  |
   NavOracle --price--> CollateralVault --snapshot--> ATS token <--burn-- BondLifecycle --schedule--> HSS
       \----mark----> BondMarket --transfer--> ATS token <--KYC-- KYC desk    ^---- payCoupon --------/
                          ^                        ^
   Read API --book------> | --canTransferFrom------/        every page: read, warn, then one
   web page --click--> useTx --wallet--> any contract       transaction per click
```

Three contracts write one status (gate: Frozen, Active, Defaulted; lifecycle: Matured; registry:
Active at registration); the market, the vault and the lifecycle read it. Each model that needs a
neighbour has its moves as environment actions with the neighbour's own guards: `VerdictPath` has
`Redeem`, `BondLifecycle` and `CollateralVault` have the gate's moves and transfers, `BondLifecycle` the token's
pause and KYC besides.

## Modules

| Module | Models | Checked by | Proofs |
| --- | --- | --- | --- |
| `GatePromise` | what the gate promises: one landing per version, on the observed status | refined by `VerdictPath` | |
| `VerdictPath` | gate, registry status, monitor runs, clocks, keys | `MCVerdictPath` | `VerdictPathProofs` |
| `RiskView` | the Risk page and its relay panel, over a state of `VerdictPath` | `MCVerdictPath` | `VerdictPathProofs` |
| `BondLifecycle` | payCoupon, schedule, claim, redeem, fund; HSS | `MCBondLifecycle` | `BondLifecycleProofs` |
| `CouponView` | the Coupons page over a state of `BondLifecycle` | `MCBondLifecycle` | `BondLifecycleProofs` |
| `Relayer` | relayer watch, the inbox, the node, the gate's answer | `MCRelayer` | `OffChainProofs` |
| `SnapshotPromise` | eager snapshots, what the callers rely on | refined by `ATSBond` | |
| `ATSBond` | lazy checkpoints, transfers, issue, redemption, KYC, pause | `MCATSBond` | `ATSBondProofs` |
| `ComplianceView` | canTransferFrom, the pages' decisions, the API's eligibility answer and the cached status behind it | `MCATSBond` | `ATSBondProofs` |
| `CollateralVault` | deposit, withdraw, seize, claim, feed, minimum | `MCCollateralVault` | `CollateralVaultProofs` |
| `CollateralView` | badge, gauge, withdrawal hint and warning over a state of `CollateralVault` | `MCCollateralVault` | `CollateralVaultProofs` |
| `BondMarket` | place, cancel, fill, quote, band, fee | `MCBondMarket` | `BondMarketProofs` |
| `BookView` | open orders, ladder, depth, both forms over a state of `BondMarket` and two clocks | `MCBondMarket` | `BondMarketProofs` |
| `BookRead` | one order book answer, read piece by piece while `BondMarket` moves | `MCBookRead` | `BondMarketProofs` |
| `KycDesk` | the desk's handlers, limits, officer account, node | `MCKycDesk` | `ApiProofs` |
| `ReadApi` | cached promises, the polling page, the second look | `MCReadApi` | `ApiProofs` |
| `TxDesk` | useTx, toasts, approve-then-fill, two-step confirmation | `MCTxDesk` | `BondMarketProofs` |
| `Liquidation` | decideLiq, the run, the node, the lending contract | `MCLiquidation` | `OffChainProofs` |
| `Sums`, `SumTheorems` | no code: the sum the models add up with, and what is true of sums and folds | | `SumTheorems` |

The `*View` modules have no variables of their own: each extends the contract's module, defines what
the page computes from a state of it, and states properties that compare what the page says with
what the contract's action would do. Whether an action can be taken is its guard, which has a name of
its own in the contract's module (`CanSubmit`, `Fillable`, `CanWithdraw`...) and is all that the action
asks for; so no property needs `ENABLED`. They are checked in the contract's own run, in every state
that it reaches. `BookRead` composes market and API: the reader's steps and the
traders' interleave.

An action is one operation of the code, named after it; on chain that is one transaction, off chain
what runs between two awaits. A call that reverts changes nothing and is not an action, so every
`require` is a guard. Variables carry the names of the code's fields; those marked *history* in a
module exist for a property only. Definitions marked *slip* are plausible mistakes: each is put in
place of the definition below it to see that a property notices.

Correspondence where it is not one to one:

- `VerdictPath`: coverage is the rung of the ladder it falls on, a signature is the name of its key,
  `run[r]` is what one enclave execution read. `Submit` is `RiskGate.submit` with `seize` inside;
  `RunFails` ends a run on a stale feed or a failure. A paused token makes a DEFAULT revert, which is
  a step not taken.
- `BondLifecycle`: `schedules` is HSS, an index into it the schedule's address, 0 none. `Pay` is all of
  payCoupon, the deletion of the armed run and the arming of the next included; `PayByHand` and
  `RunPays` are its two callers. Arming may fail at any time: `Pay` then clears the pointer, and
  `Rearm` (schedule) is not a step. Snapshots are eager copies of the balances. `Prefunded` is what
  was put into each pool before the model begins. `TokenMoves` pauses a token and takes its holders'
  KYC: no snapshot of a paused token (a coupon reverts), no transfer, no redemption without KYC.
  `CouponView` is a function of a state and of the browser's clock, up to `PageSkew` from the chain's.
- `Relayer`: `tick[t].pc` names the await a callback stands at. `RpcFault` at `send` may or may not
  leave the transaction with the node. A verdict is its nonce; `GateTurns` lets the gate refuse it and
  take it again (too early, too late, a paused token), and `turned` keeps who was refused when this
  process asked. That a signed nonce is at most one past the gate's, which `Write` assumes, is theorem
  `VerdictPathProofs!NoGap`.
- `ComplianceView`: `entry` is the cache's promise of a bond's summary, `question` one eligibility request:
  it awaits the cache's promise (`shared`) or one the cache lost, then reads KYC. `OthersAsk` is any other
  request that needs the summary; `SummaryFails` deletes the key, whichever promise is under it. `steady`,
  `seen` and `held` are history.
- `CollateralVault`: a price of 0 is a feed that is stale or bad. Snapshots are eager.
- `BondMarket`: `eligible` is the set of accounts `canTransferFrom` passes now: KYC, control list and
  pause together.
- `KycDesk`: `req[r]` is one handler with the await it stands at (`walk`, `ssi`, `simulate`, `nonce`,
  `send`, `wait`) and the outcome it answered. `good` says that the nonce read is still the next one:
  the node takes a transaction only then. `pool` holds what the node took and has not executed; a
  transaction of a handler that threw belongs to nobody and lands all the same. `Accept` is one step
  from the verified signature to the first read: the pending check, the rate limit and the note are
  not separated by an await.
- `ReadApi`: `call[c]` is a promise, `cache` the entry under `book:<id>`; the book is a version number.
- `BookView` is a function of a state and of two clocks, the API server's (which orders are open) and the
  browser's (when a new one ends), each up to `PageSkew` from the chain's. A size is a text of whole bonds
  and decimals (`Texts`), read by `Parsed`.
- `BookRead`: the API server's clock is taken for the chain's here; an answer is finished when the
  quote, the next id and each slot have been read, in any order the batch is served.
- `TxDesk`: `tx` has one record per click with the stage of its pipeline and, apart from it, the fate
  of its transaction on chain; the order and the allowance are counted in units of one bond. `tray`
  maps the id of each toast on the screen to its state; ids grow, so the array's order is theirs. A busy
  flag lives in the component that holds its button, so `form.mount` numbers the mountings of `FillForm`
  and of `ApproveThen`, which `SizeError` takes down and puts up again.
- `Liquidation`: `Decide` is the run's batch of reads with the probe, the guard and `decideLiq`;
  `SendBoth` its batch of sends, of which the node takes any subset. `pool` is what the node holds of the
  wallet, gaps included.

## What the runs check

| Run | Properties | Bounds |
| --- | --- | --- |
| `VerdictPath_races` | `NoNonceGap`, `ObservationHolds`, `SeizedIffDefaulted`, `RiskPageIsTrue`, `BoundedStaleness`, `ImplementsPromise` | 1 bond, 2 runs, 2 verdicts, 2 keys, 2 windows, clock off by 1, 2 s |
| `BondLifecycle_money` | `RunsServeCoupons`, `CouponCalendar`, `MoneyIsThere`, `CouponPageIsTrue` | 2 bonds, one rich and one poor, 2 holders, 2 coupons each, dust, 2 schedules, failing runs, one token paused with its KYC revoked at any time, page clock off by 1, 3 s |
| `BondLifecycle_chain` | `CouponsArePaid` (liveness) | 1 bond, 3 coupons, full pool, token never paused, 4 schedules |
| `Relayer_watch` | `OneAtATime`, `DoneIsSettled`, `VerdictLands` (liveness) | 2 files, one of them refused for a time now and again, 2 callbacks, 2 faults, 1 restart |
| `ATSBond_snapshots` | `BooksAddUp`, `EligibilityIsTrue`, `ImplementsPromise` | 2 holders, 2 tokens, 2 snapshots; 1 question, summary fresh for 2 ticks |
| `CollateralVault_claims` | `VaultIsSound`, `IssuerGetsItBack`, `VaultPageIsTrue`, `SeizureIsFinal`, `WithdrawalsKeepCoverage` | 2 bonds, 2 holders, 3 prices, 6 tinybar |
| `BondMarket_settle` | `Conserved`, `FillsAreFair`, `BookPageIsTrue`, `TradesAreLegal` | 2 accounts, 2 orders of up to 2, 3 fees, tokens of 2 units, page and API clocks off by 1, 2 s |
| `KycDesk_races` | `LimitsHold`, `AloneSucceeds`, `KycIsAsAnswered`, `EveryoneIsAnswered` (liveness) | 2 wallets, 2 bonds, 2 handlers, 2 requests let in, 1 fault, 1 officer's hand |
| `ReadApi_page` | `CacheIsSound`, `SecondLookIsNew`, `PageCatchesUp` (liveness) | 2 promises, 2 changes, 2 failures, 1 transaction |
| `BookRead_interleaved` | `AnswerIsABook` | 1 account, 2 orders of up to 2, 2 prices, 2 s |
| `TxDesk_clicks` | `TrayIsTrue`, `ButtonsAreHonest`, `EveryClickEnds` (liveness) | 2 clicks, 2 mountings of each button, 1 toast shown |
| `Liquidation_defends` | `PlansAreSound`, `NothingWasted`, `DefendedInTheEnd` (liveness) | 2 runs, 27 loans, 3 prices, 2 price moves, 2 refusals |

A property that is a conjunction of named parts says one thing about the component from several
sides (`CouponPageIsTrue`: the panel, the confirmations and the buttons); each part has a comment of
its own in its module, and the module's type invariant is a conjunct of one of them.

Why the bounds are enough to meet the interesting cases.

- Verdicts: two overlapping runs are the least that show a verdict signed on an old snapshot after
  another landed and a person moved the bond; the window shrinks after a signature, the key is rotated
  under a signed verdict, and the clock is early or late by its whole error. The run stamps its verdict
  within the second of its read (`RunTimeout` = 0); that bonds stay apart, and that a longer run adds its
  length to the bound of `BoundedStaleness` and no more, is what the theorems add.
- Coupons: two schedules are a run that fires and reverts and its successor, or one armed by hand; the
  coupons of 3 units on 2 tokens leave dust that no pool may absorb. One pool covers both coupons, so
  that the calendar comes to its end; the other covers none, and a redemption only. Dates are one second
  apart, so a clock one second off stands on the wrong side of each of them.
- Relayer: two faults with two attempts meet both outcomes of a retry, and one of them can be the lost
  answer of a transaction that executes. The gate refuses verdicts in one of
  the two files (`Refusable`): the other's turn is free of refusals all along.
- Token: a holder has a checkpoint in the first period, the second, both or neither. The API's answers read
  neither balances nor snapshots, so the run asks about a token nobody holds yet and moves the token while
  nobody asks (`AskedFirst`); the theorem has no such bound. Two ticks let a summary be read late, be
  replaced, and go stale.
- Vault: both values of the ratio floor, and a price stays, rises or goes stale between deposit and
  withdrawal.
- Market: amounts of 1 and 2 at prices of 1 and 3 per two tokens floor at each partial fill, and one of
  the two accounts is also the treasury.
- KYC desk: the issuer of both bonds is one of the two wallets, one bond's issuer is not registered
  yet, and two handlers can meet at each of the six awaits; one of them may throw with its transaction
  taken; the limit of one request in two seconds is reached and left.
- Cache: with two promises the older may fail after the newer one is cached. The three ticks of
  the general lifetime outlast the second look, so that the cap on the book's own entry is what makes
  the second look new.
- Book answer: a slot is read before and after each way an order can change, with the next id read
  before or after an order is placed.
- Clicks: a second toast pushes the first out; two mountings are a form closed under a running click
  and opened again before its answer, or a size that is wrong for a while.
- Liquidation: debts from safe to hopeless, reserves of either token that are empty, one unit, and
  more than needed; the node can refuse the first of two transactions, which leaves a gap, or the second.

`CHECK_DEADLOCK FALSE` stands where a model stops at its last second, its last request or with nothing
left to do: the code has no such end. Symmetry is used for runs, bonds and holders that the
specifications never tell apart, and in no liveness run.

### Fairness

- `BondLifecycle!FairSpec`: time passes; HSS executes what it accepted (weak fairness of each run);
  `schedule()`, which anybody may call, is called successfully in the end (strong fairness: arming may
  fail in between, and pool and status may forbid it). `Patience` bounds how long a due coupon stays
  unarmed. Nobody is assumed to pay by hand. The pool is full, the token unpaused, and no redemption
  precedes the last coupon: `docs/LIMITS.md` says what happens otherwise.
- `Relayer!FairSpec`: the timer fires, the event loop goes on with what it awaits, the network executes
  what a node took, and a crashed relayer is started again. `VerdictLands` releases its promise once
  there were as many faults as attempts, or once the gate refused the file in its turn: a file that failed
  is not tried again by that process, even if the refusal was for now.
- `KycDesk!FairSpec`: the event loop runs every continuation of a handler, and the network executes what
  it took. Nobody is assumed to ask, and faults may come at any await.
- `ReadApi!FairReadSpec`: every read ends, the page polls while it is open (`refetchInterval`) and its timer
  fires; time passes. That a read succeeds follows from the bound on failures: `PageCatchesUp` says what
  holds once they stop.
- `TxDesk!FairDeskSpec`: calls to the network end, in an answer or an error, and the polling for a receipt
  finds one that is there. Nothing makes the user sign, the chain take a transaction or a wait fail, and
  `waitForTransactionReceipt` is called without a timeout: `EveryClickEnds` promises nothing of a click
  that waits for a signature or for a transaction the chain has dropped.
- `Liquidation!FairLiqSpec`: the cron trigger starts runs for ever, a run sends what it signed, the chain
  mines what the node can execute, time passes. `DefendedInTheEnd` is about a price and a node that have
  settled.

## What is proved

`tlapm` checks every proof. Each safety theorem has an inductive invariant with
`Init => IInv` and `IInv /\ [Next]_vars => IInv'`, one lemma per action or group of like actions; TLC
checked each invariant on the component's run before it was proved. The theorems hold for every value
of the constants that the modules' assumptions admit, and what a theorem assumes beyond them is said
below.

`SumTheorems` is what the others add up with. The library's induction theorems take an operator as a
parameter, which the provers cannot instantiate; so the induction is done once, from the least
counterexample (`LeastNumber`, `RangeInduction`, `SubsetInduction`), and a table of the partial sums
(`TableExists`) stands in for the recursion. What follows is cited everywhere else: a sum changes by
what one summand changes by (`SumChange`, `SumWith`), and is monotone (`SumCompare`, `SumSubset`); the
floors of shares never exceed the floor of the whole (`FlooredParts`); a fold over a range takes its
elements one by one (`FoldExists`), and a sum over a list without repetitions is the sum over its
elements (`SumImage`).

- `VerdictPathProofs`: `TypeCorrect`, `NoGap`, `Observation`, `Seizure`, `Staleness`, `Refinement`,
  `RiskPage`. The properties are not inductive: the invariant adds that a snapshot held or signed from
  (`Current`) never shows a nonce above the gate's and, when it shows the gate's nonce and no person
  moved the bond since, shows its status; and that a signed verdict is what its run made of its snapshot
  (`Derived`). So whatever is larger than the gate's nonce is exactly the next one, and stands on the
  present status. `Refinement` follows: each landing is the promise's `Land`. `RiskPage` needs `TextInv`
  besides: what the last verdict was together with the status says how the bond came to be where it is.
  Its buttons need `Seizure`: a DEFAULT that would seize never finds the collateral seized.
- `BondLifecycleProofs`: `OneRun`, `ServesNext`, `NeverEarly`, together `Serves`, and `Calendar`, under
  `BlockSkew <= Lag`, the assumption that SCHEDULE_LAG is not shorter than a block may be early. The
  invariant adds that the pointer names a schedule of its own bond. `Money`: the balance is to the unit
  what the books say of all bonds, and of each coupon exactly the shares of the holders marked claimed
  are gone; `MoneyInv` adds what every paid coupon is (`CouponSound`), and that nobody is marked for a
  coupon not paid. `CouponPage`: the page's panel, confirmations and buttons on any clock, each with the
  exceptions that the page cannot see (below); a bijection between coupons paid and dates passed
  (`NotBeyond`) makes "all paid" true.
- `OffChainProofs`, relayer: `TypeCorrect`, `NeverOverlaps`, `Settled`. The invariant adds that a working
  callback keeps the process busy, that a file taken is seen, that a callback at its receipt holds a
  transaction for the file it works on, and that a transaction that succeeded has raised the gate's
  nonce.
- `OffChainProofs`, liquidation: `PlansAreExact`, that every plan signed repays the least amount that
  meets the target, or all it may, and deposits the least that then does, or all it may: the floor in the
  target debt and the ceiling in the deposit are each shown to be the least. `NoWaste`, that while the
  price is what a plan was made for, nothing of it is spent on a position that has met its target. Its
  invariant (`LiqInv`): all that is fresh, signed or sent, counts from one nonce (`OneBase`); a fresh run
  whose nonce is taken means that the clock has not moved since (`Ages`), so the cooldown keeps every new
  run from deciding; and what is fresh stands on the present position, or on what its own repayment leaves
  of it (`Stands`). Assumed: `Cooldown > 0`. With 0 TLC finds two runs whose deposits are both mined.
- `ATSBondProofs`: `Books`, that the balances add up to the supply and what is read of a snapshot adds up
  to its supply, for any finite set of holders; `LazyIsEager`, the refinement; and `Eligibility`, what the
  pages and the API say of a wallet: a cached status that is not the bond's any more was its within the age
  of the entry (`EntryAged`), and a question on its way has seen the status it was given and everything
  since (`QuestionSees`). The other invariant
  (`ScanInv`) says of every snapshot taken that the scan has an outcome: it stops at an entry, or every
  entry is older and the balance is still the one of its moment. Lemmas then show that a checkpoint
  changes the answer for no snapshot.
- `CollateralVaultProofs`: `PaysEverybody`, `CoverageKept`, `IssuerNotStuck`, `SeizedForGood`,
  `HintHolds`, `BadgeHolds`, `VaultPage`, for any finite sets of bonds and holders. `VaultInv`: the
  balance is the sum over bonds of the collateral, what is owed on the seizure and the dust of the
  floors, and who claimed was paid the share of the snapshot. `IssuerNotStuck` assumes that the bonds
  had tokens at all: one frozen before anything was issued waits for its unfreeze. `HintHolds` bounds
  the five floors between the page's hint and the vault's coverage (`HintNear`), and `VaultPage` carries
  them to the warning (`WarningHolds`). `BadgeHolds` assumes minimums of at most 10 000 basis points
  (see below), and so does `VaultPage`, whose withdrawals also need the balance to cover each bond's
  collateral (`HbarCovers`).
- `BondMarketProofs`, market: `TypeCorrect`, `Overfill`, `FairPrice`, together `Fair`, `Legal`,
  `NothingLost`, `QuotesBest`, `MaxIsMeant`. The invariant ties each order to what was placed under its
  id; `OneMore` adds up the floors of successive fills. `Legal` needs only the types: a step that adds a
  fill to an order is the fill of that order, tokens move at seller and buyer alone, and `Band` turns
  the distance from the mark into two ends. `NothingLost` holds whoever of maker, taker and treasury
  coincide. `QuotesBest` goes along the loop of quote(): what it holds after id k is the best of the
  first k orders that are open. `MaxIsMeant` is about the floors of the max button (`RoundedDown`) and
  the parser that reads its base units as bonds (`ParsedIs`). `BookPage` is the orders tab as a whole: a
  ladder is a bijection onto the orders listed, so the sizes down to a row are those of a set of orders
  (`CumulativeIs`) that holds everything better and nothing worse (`DepthHolds`); it is the book's own
  list but for orders that end between the API's clock and the chain's (`ListedOrders`, `LadderHolds`);
  for whoever is not the maker, a fill is possible exactly under the form's own arithmetic
  (`FillableIs`).
- `BondMarketProofs`, the API's answer: `Answers`. `AnswerInv` brackets it: the orders that stood
  unchanged since the answer began are among those read or still readable, these among the orders that
  existed at some moment meanwhile; a slot read agrees with each order that stood; and the quote read is
  the best of some set of rows in between.
- `BondMarketProofs`, the page's desk: `ToastsAreTrue`, `ButtonsHonest`. `DeskInv`: a click that was not
  sent has no fate, and one in flight is waited for or its call failed; the tray never exceeds its size, a
  toast tells the truth about its click (`Tells`), and a toast with a timer is of a click that does not
  run; a busy button of the open form has exactly one click of this mounting under way, an idle one none
  (`Buttons`), since a mounting is numbered higher than every click before it (`ClickInv`). What a full
  tray pushes out is older than the newest `Shown` by counting (`SlicedIs`).
- `ApiProofs`, KYC desk: `ServesOne`, `RateKept`, together `LimitsHold`, `Succeeds`, `KeepsItsWord`, for any
  wallets, bonds, issuers, number of handlers, faults and officer's acts. The invariant says of each
  handler that, while nobody else touched its wallet's KYC (`~crossed`), the bonds behind it are as its
  verb wants them (`Walked`), and while nothing at all came from elsewhere (`~raced`), the token will
  accept the call in its hands (`Good`); and of each transaction in the pool that its sender, if any,
  waits for exactly this one. So a walk that reaches the end answers the truth, a call refused by the
  token was raced, and a `revokeKyc` in the pool is never of an issuer on its own bond. `RateKept`:
  everyone let in during the last window has left a hit (`RateInv`), so the count never lags. Assumed: at
  least one wallet and one IP exist.
- `ApiProofs`, read API: `CacheSound`, `SecondLookFinds`, for any promises, lifetimes and failures, under
  `BookCap <= SecondLook`, the assumption that four seconds are no less than three. The invariant says
  how old an entry begun before the page's transaction has become while its timer ran
  (`OldByThen`): when it fires, none such is fresh.

`LazyIsEager` is what lets `CollateralVault` and `BondLifecycle` copy balances; `NoGap` is what lets
`Relayer` assume the nonces of the files it is given.

Every safety property that a run checks is stated by a theorem. Only model-checked is liveness
(`CouponsArePaid`, `VerdictLands`, `EveryoneIsAnswered`, `PageCatchesUp`, `EveryClickEnds`,
`DefendedInTheEnd`): the prover has no rule for fairness here.

## Where text and code disagree

Met while modelling; the checked properties are about what the code does.

- The relayer tries each file once per process (`relayer/src/index.ts:80`). A verdict that the gate
  refuses for now, as FutureVerdict (`contracts/src/RiskGate.sol:95`) or as a DEFAULT on a paused token
  (line 106), is not tried again before a restart, and may then be stale. `VerdictLands` promises
  nothing of it.
- The chain accepts and records a FREEZE on a frozen bond and consumes a nonce for it
  (`contracts/src/RiskGate.sol:103`), though `workflow/shared/decide.ts:29` counts it among the verdicts
  the chain would reject and `mintlify/how-it-works/risk.mdx:39` says it is not re-sent.
- The fee is charged to the buyer, and the buyer of a bid is its maker
  (`contracts/src/BondMarket.sol:119`), though `mintlify/how-it-works/order-book.mdx:68` and the order
  form say the maker pays nothing. The deployed fee is 0.
- `canHold` of the API looks at KYC and the bond's status only (`api/src/index.ts:164`): a frozen wallet
  or a paused token can make a yes wrong. Its status comes from a summary cached for ten seconds (lines 20,
  47, 159), so that yes and no may both be wrong for that long after a freeze or an unfreeze.
  `EligibilityIsTrue` claims no more than that.
- A scheduled run that reverts (its pool is short) leaves the contract's pointer set: `schedule()` then
  refuses with AlreadyScheduled (`contracts/src/BondLifecycle.sol:142`), and the Coupons page says that a
  run is pending, where `web/src/pages/bond/Coupons.tsx:73` has words for a run that "fired or failed"
  and can be created again by `schedule()`. Until the issuer funds the pool and somebody pays by hand
  nothing is armed. `CouponPageIsTrue` claims of the first sentence only which coupon it names, and of
  the second that nothing is pending.
- The Coupons page decides "due now" and "matured" by the browser's clock
  (`web/src/pages/bond/Coupons.tsx:49`, 173) and reads neither the token's pause nor the holder's KYC. A
  coupon offered while the token is paused reverts in `takeSnapshot` (`docs/LIMITS.md:120`), unwarned,
  since payCoupon is sent without a dry run; the redeem button is enabled for a holder whom the token
  refuses for want of KYC, where the dry run says so. `CouponPageIsTrue` excepts a paused token, a
  holder without KYC, and a date that lies between the two clocks, and claims the rest. The repository's
  stand-in for the token takes a snapshot while paused (`contracts/src/mocks/MockATSBond.sol:72`); the
  model follows the notes on the real one (`contracts/src/CollateralVault.sol:12`).
- The Collateral page derives the coverage after a withdrawal from floored figures: near the
  minimum the warning may be missing, or shown for a withdrawal that passes. `VaultPageIsTrue` says how
  near. With no principal outstanding it announces a withdrawal of everything as about 0 % and warns of
  CoverageTooLow (`web/src/pages/bond/Collateral.tsx:87`, 104), where the vault grants it
  (`contracts/src/CollateralVault.sol:83`): `HintIsClose` and `WarningIsTrue` say so.
- The max buttons write base units into fields that `parseAmount` reads as bonds
  (`web/src/pages/bond/OrderBook.tsx:184`, 211, 272, 273; `web/src/lib/format.ts:93`). The deployed bonds
  have no decimals, and there the two are one. For any other bond the fill form opens with a size it
  refuses, and "what your USDC affords at this price" (`web/src/pages/bond/OrderBook.tsx:286`) may cost
  up to 10^decimals times what the wallet has. `MaxMeansMax` says so. The max of a
  bid also rounds down to a multiple of 10 000 bonds (line 273), for most wallets zero.
- The Risk page's coverage badge is drawn for a minimum of 300 basis points whatever the vault's
  is (`web/src/pages/bond/Risk.tsx:47`).
- `useTx` "returns null when the transaction did not happen" (`web/src/hooks/useTx.ts:27`), and its toast
  says failed. It does both also when the wallet broadcasts and then reports an error (line 51) or the wait
  for the receipt fails (line 53), and the transaction may still land. `TrayIsTrue` and `NeverAsksAgain`
  except exactly these clicks (`lost`).
- A transaction the chain drops leaves its click pending and its button busy for ever: the wait has no
  timeout (`web/src/hooks/useTx.ts:53`).
- A fill that succeeds closes whichever fill form is open by then, the form of another order too
  (`web/src/pages/bond/OrderBook.tsx:74`, 202). An approval under way is forgotten by a button that a wrong
  size took down (line 217), so that a second one can be started beside it; `BusyIsRunning` counts the
  clicks of one mounting.
- A plan on a price of zero throws (`workflow/shared/decide.ts:60`), and a wallet without vUSD fails the
  probe `repay(1)`, so that a run ends there although vETH could still be deposited.
  `DefendedInTheEnd` names both exceptions. The model's clock assumes that the cooldown is no shorter
  than the cron's period, as `workflow/README.md:69` advises; with a cooldown of 0 overlapping runs can
  deposit twice, which `NothingWasted` would catch.
- `setMinCoverage` accepts a minimum above 10 000 basis points (`contracts/src/CollateralVault.sol:110`).
  `web/src/lib/coverage.ts:13` then shows a bond between 100 % and that minimum as fully covered, though
  the vault lets nothing be withdrawn from it. `BandIsTheFloor` is claimed for minimums up to 10 000.

## What is not modelled

- Roles and access control: each actor does what its role allows, and no more.
- Encoding, EIP-712, hashing: a signature names its key, a bad file fails verification.
- Allowances outside `TxDesk`, gas, reentrancy guards: a transaction is atomic and may revert for such
  a reason.
- The HBAR float of the lifecycle contract and `withdrawHbar`; a run that fails for want of it is a
  run that reverts.
- The probing for a second with capacity (`findAvailableSecond`, `scheduleWithProbe`): an armed second
  may slide by up to `MaxSlide`, and arming may fail.
- The accrual arithmetic of `NavOracle.mark`: the market's model lets the mark move anywhere, which
  covers whatever it computes.
- The relayer's one-shot `submit` and its dry mode, which run the same relay; delivery by the run
  itself: whoever sends a verdict, the gate sees the same call.
- The mirror node's log window and the event feed: a single request whose rows are shown as they come.
- Landing, activity and desk pages, ticker, the API document: wording, layout, sorting and filters over
  what other parts return, with no state that another actor shares.
- Deployment and demo scripts: straight-line, run once by a person.
