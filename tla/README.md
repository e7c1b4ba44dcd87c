# Alpacto: a verification development

Alpacto buys alpaca fibre from producers.  A buyer opens an order for a weight of
fibre and pays for it by card; the payment becomes USDC in the escrow of a Stylus
contract; lots are weighed and classified, an audit agent ("Ayni") compares what was
declared with the photographs, the producer accepts a settlement, and the contract
pays the producer, the association and the platform.  What is left when the target
weight is met goes back to the buyer.

These modules model that path from the payment to the last withdrawal, model-check it
with TLC on small instances, and prove the invariants of all of its parts with TLAPS for
every instance.  Paths below are relative to `src/`.

## 1. Inventory

| Component | State | Operations | What is hard |
|---|---|---|---|
| `AlpactoCore` contract, `packages/contracts/contracts/alpacto-core/src/lib.rs` | orders, lots, inspections, attestations, used payment references, roles, treasury; USDC it holds | roles, treasury, create/fund order, register lot, inspect, attest, reweigh, accept, settle, withdraw | counters kept next to what they summarise; one token balance for all orders; lots of an order compete for its grams and its money; wrapping sums |
| Mock USDC, `packages/contracts/contracts/mock-usdc` | balances | transfers | modelled as seen by the contract |
| Funding pipeline: `apps/api/src/modules/funding/routes.ts`, `jobs/queues.ts`, `jobs/fund-order.ts`, `lib/buyer-funding.ts`, `packages/zero-dev` | `orders`, `funding_intents`, BullMQ jobs | checkout request, Stripe webhook, fund-order job, its failure handler, withdrawal of the remainder | repeated events, concurrent deliveries, crashes between two writes, retries, lost receipts, operations mined late |
| Domain arithmetic, `packages/domain` | none | prices, splits, budgets, comparison of weights, settlement gate | every step rounds |
| Orders and pricing APIs | `orders`, `pricing_policies`, `pricing_categories` | create order, create policy | a budget assumed from one category |
| Lots API, `modules/lots`, `lib/*-onchain.ts` | `lots`, `inspections` | create, inspect, reweigh, confirm, decline | a row, a chain call and a compensation that may undo what did happen |
| Audits API and Ayni worker, `modules/audits`, `apps/ayni-worker` | `audit_runs`, `audit_findings` | queue, tool loop, report, attest, retry | a language model drives the order of the steps; resumption; a lost receipt |
| Settlements API, `modules/settlements`, `lib/settlement-onchain.ts` | `settlements`, `lots`, `orders` | accept, settle on chain, local payout | repeatable acceptance, rows read before a chain call and written after it |
| Disputes, integrity check | `lot_disputes`, `lots` | decline, resolve, verify | resolutions overwrite a lot's status |
| Producer signer and session keys: `modules/auth/routes.ts`, `lib/producer-signer.ts`, the grant in `apps/web` | `users.smart_account_address`, `producer_session_keys` | link, resume, create an account, prepare, approve, complete, revoke, resolve a signer | a grant takes three parties and five writes; tabs overlap; the account may change in between |
| Administration, campaigns, evidence, chat, web, deployment | | | little that interleaves; see `PROJECT.json` |

How they interact.  The browser calls the API; the API writes Postgres, calls Stripe,
enqueues BullMQ jobs in Redis and sends user operations to the contract through a
bundler.  The workers of the queue run in the API process (`apps/api/src/app.ts:45`),
the audit worker in a process of its own.  No operation spans the database and the
chain: each handler is a sequence of separate writes and calls with awaits in between,
and Postgres, Redis, Stripe and the chain each have their own idea of what happened.
The contract's transactions are atomic; nothing else is.

What each part has to get right:

- contract: grams and USDC of an order are accounted for; an order never takes more
  grams than its target nor pays more than it was given; what was accepted is what was
  audited and what is paid; the remainder can be recovered.
- funding: a payment makes one deposit, no deposit without a payment, books that never
  show money the escrow did not take, no payment left without an outcome.
- arithmetic: the budget estimated for a weight pays all lots that weight is divided
  into, and no more than rounding is left over; a quote in soles is what the USDC is worth.
- audits, lots and settlements: the contract pays what was accepted, once, for a version
  that passed a reported audit, and the books show a payment only where there was one;
  between requests books and contract have the same inspections; every audit ends, and
  shows how.
- session keys: an active key was approved by the owner of its account, operations come
  from the account they are meant for, a producer whose completed grant no longer signs
  is asked for a new one.

`PROJECT.json` lists, under `hazards`, where each of these can go wrong, at its line.

## 2. Modules

| Module | Models |
|---|---|
| `Totals` | sums over finite sets, used by every accounting invariant |
| `EscrowLedger` | abstract: accounts that receive deposits, pay each lot once and refund the rest |
| `AlpactoCore` | every state-changing call of the contract; implements `EscrowLedger` |
| `Funding` | one order's way from the checkout request to the deposit |
| `PricingMath` | the operators of `packages/domain` with the scales as constants |
| `OrderBudget` | one order's money under that arithmetic: budget, deposit, lots, audits, quotes, payments, remainder, and the amounts its row shows |
| `LotBooks` | one lot's rows and the contract's lot, the calls between them, and what may become of a call |
| `LotApi` | the lots, disputes and audits routes, with their compensations |
| `AuditPipeline` | the audit worker: attempts, tool loop, report, attestation, failure |
| `SettlementApi` | acceptance, execution on the contract, local payout, integrity check |
| `LotLifecycle` | the composition of the four, with the API process stopping; its contract implements `AlpactoCore` |
| `ProducerAccounts` | a producer's account and session keys under several browser tabs |
| `MCAlpactoCore`, `MCFunding`, `MCOrderBudget`, `MCLotLifecycle`, `MCProducerAccounts` | constants, bounds and symmetry for TLC |
| `TotalsProofs` | lemmas on sums |
| `AlpactoWeightProofs`, `AlpactoEscrowProofs`, `AlpactoLedgerProofs` | theorems about the contract: types, terms and weight; money; the refinement |
| `FundingProofs` | theorems about the funding pipeline |
| `OrderBudgetProofs` | theorems about an order's money, and lemmas on the rounding of `PricingMath` |
| `LotLifecycleProofs` | theorems about lots, audits and settlements, and the refinement of `AlpactoCore` |
| `ProducerAccountsProofs` | theorems about accounts and session keys |

### AlpactoCore

A call that is not reverted is one action with the sender and the arguments as its
parameters; each `return Err` is a guard, and a call that reverts is an action that is
not enabled.  `exists = false` is the status `"ABSENT"`.  `inspections` and
`attestations` are the contract's nested mappings.  Left out because no guard reads
them: events, hashes, category codes, the budget stored with an order, and the amount
in soles.  `get_role_admin` is never changed from its default, so one role administers
all.  The token is a map of balances; allowances are given, since a call without one is
a call that reverts.  The unsigned 256-bit total of a split wraps (`SplitTotal`); other
sums do not, because they are bounded by the token's supply (`SupplyAssumption`) or by a
target (`WithinTarget`).

### Funding

One order with several checkout sessions; a session stands for its funding intent, its
Stripe event, its job and its payment reference.  Every `await` ends an action, so two
requests, two webhook deliveries and the worker interleave between any two database
writes.  `request[s]`, `delivery[h]` and `worker` are program counters; `order`,
`intent`, `seen` are rows; `escrow` is what the contract has seen.  The buyer's USDC and
the escrow are counted in deposits, because every intent of an order has its budget as
its amount.  External parts, taken from how the code uses them:

- Stripe delivers an event until it is answered with 2xx, and may deliver it again;
- BullMQ ignores a job whose id it knows, retries a failed one, returns a stalled one to
  the queue once and fails it the second time without calling the processor;
- a user operation is mined, or reverts, or is dropped, and its receipt may be lost, in
  which case it may still be mined later (`late`).

A revert's text carries the operation's hash, and the client takes any text with "404" in
it for the paymaster's, so a reverted operation may be sent once more (`AfterError`).
`WorkerFails` is a query of the worker that throws: the attempt ends in the failure handler,
and inside that handler the job fails with the intent unmarked.  `Crash` stops everything that
runs in the API process at once.

An order may have a budget and no target weight (`order.target`): it is paid for like any other,
and the job throws after it has marked the order and before it sends anything
(`jobs/fund-order.ts:60`), so its payment has to end as failed.

### PricingMath and OrderBudget

`PricingMath` translates the functions of `money.ts`, `funding.ts` and `audit.ts`; integer
division is the code's `bigint` division of non-negative numbers.  The scales (grams per
kilo, basis points, USDC units, ...) are constants, so that small scales exercise the
same roundings as the real ones.  `OrderBudget` puts them into an order's life: `CreateOrder`
estimates the budget with category FINE, `Deposit` deposits it, `Audit` is an inspection
with its verdict and its reservation, `AcceptSettlement` quotes, `SettleLot` pays.  The rules
of the contract appear as guards only; `AlpactoCore` is their model.  A pricing policy is
fixed for an order's life because no route updates one.

`books` is the order's row, and it need not know of what was deposited.  The contract takes a deposit
from each paid session until the first payment (`Deposit`, at most `MaxDeposits`), and the app books
amounts on its own: `BookDeposit` writes one budget, however many were deposited
(`jobs/fund-order.ts:91`), `FundingFails` shows a failure although a deposit may have been mined,
`ResetOrder` then empties the row (`modules/funding/routes.ts:80-92`), and another session's progress
(`FundingGoesOn`) replaces the row's status.  Which session each of these belongs to is `Funding`'s; here
they come in any order.  A settlement reads the row (`ReadOrder`), pays (`SettleLot`), and writes what
it computed from the old row (`BookSettledOrder`, `lib/settlement-onchain.ts:285-314`); several overlap,
any of them may stop between two of these steps (`SettlingStops`) or lose its answer.  The buyer's
withdrawal is a request of the same shape (`ReadRemainder`, `WithdrawRemainder`, `BookWithdrawal`), one at a
time.  The history variable `short` is set when a settlement has read a row that shows less than the escrow
holds, or a deposit comes after its reading.  The acceptance a settlement sends in the same batch is `AcceptSettlement`, before it.

### LotBooks, LotApi, AuditPipeline, SettlementApi and LotLifecycle

One lot, in Postgres (`lot`, `inspection`, `dispute`, `run`, `completions`, `settlement`) and on the
contract (`chain`), with the requests the API works on (`request[h]`), BullMQ's jobs and the worker.
A request is a record: its program counter and what it has read.  Queries that follow one another
with no write in between are one step; every write and every call of the contract is a step of its
own, with other requests and the worker in between.  `LotApi` has the handlers of
`modules/lots`, `modules/disputes` and `modules/audits`, `AuditPipeline` the worker of
`apps/ayni-worker`, `SettlementApi` `modules/settlements`, `lib/settlement-onchain.ts` and
`lib/verify-lot-integrity.ts`.  `LotLifecycle` puts them side by side.

- A call is `Sent`: it is mined and answered, or reverts, or is mined and its receipt lost, or does
  not get through.  The two last are faults.  An operation is mined when it is sent or never; that
  it may be mined later is modelled in `Funding`.
- `acceptSettlement` and `settleLot` are one user operation, so nothing happens between them
  (`InBatch`).  The code's branch for a lot that was accepted earlier is therefore never taken.
- The language model is a choice: at each round any tool that changes something, or stopping, or an
  error; a comparison has any verdict.  What the model leaves undone `Finish` does, as
  `finishDeterministic` does.  The three attempts to send the attestation are one step.
- `lot.onchain` says that the row has its id on the contract.  The id is a write of its own, made after the
  row's insertion or by a later inspection (`AssignId`, `AssignInspectedId`), so a stop in between leaves a
  row without one; its reweighing is not sent (`MarkReweighing`), and no audit of it is attested.  The
  worker reads the id once for an attempt (`worker.linked`).
- A query of the worker may fail (`TakeJob`, `QueryFails`): within the tool loop the loop's catch swallows it
  (`run-audit.ts:661`) and the attempt goes on to `Finish` with what it has in memory, afterwards it ends
  the attempt (`AfterError`).
- Compensations are steps like others: `UnregisterLot`, `DeleteInspection` and `RestoreLot`,
  `UndoReweigh` write what was read when the request began.
- The order is funded and on the chain, and the contract's address and the session that signs for the
  worker are configured; a gram costs one unit and there are no fees, since the
  arithmetic is `OrderBudget`'s; `Capacity` is what the order has left in grams and in money.

- A lot's id is drawn when it is created, so no request about it is older: `CreateLot` finds no other
  one at work, and `RestoreLot`, an `UPDATE`, finds the row or changes nothing.
- `completions` is the order of the runs' `completed_at`, as a relation: a run that completes again
  moves to its end.

`CallsTheContract` instantiates `AlpactoCore` with one order and one lot and asks every step of the
composition to be a step of the contract or none: the short version of the contract in `LotBooks` is
not a second opinion about it.  The mapping (`CoreOrder`, `CoreLot`, `CoreAttestations`, `CoreUsdc`) makes
the order's reserved grams what the lot holds and its money `Capacity` without what was paid; sums wrap
at `2 * Capacity + 1`, which they never reach.

### ProducerAccounts

One producer with several tabs and several wallets.  `account` is the user's row, `keys` the rows of
`producer_session_keys` in order of creation, `activated` their order of activation, by which
`resolveProducerSigner` sorts.  A tab prepares a key (two writes), its wallet's owner approves it in the
browser, and completes it (a read and two writes, of which the first revokes the active keys and the second
activates the new one); or links another wallet, revokes, or makes a
call, which reads the account, resolves a signer and sends.  A tab may be closed wherever it waits for
its user, and a request may fail between any two of its writes, because a query throws or the server
stops (`RequestFails`).  Wallets, passkeys and signatures are external: an approval names the key and the wallet.

## 3. Runs

`tlc -config X.cfg M` in this directory.  Deadlock is not checked: each of the systems may stop,
when every lot is paid, every payment resolved, every request answered, or every bound used up.

| Run | Instance | Shows |
|---|---|---|
| `core_escrow` (`MCAlpactoCore`) | 1 order, 2 lots, 2 versions, 2 deposits, 5 splits, modulus 11 | weight and money accounting, terms frozen from acceptance, withdrawal and payment never refused, refinement of `EscrowLedger` |
| `core_governance` (`MCAlpactoGovernance`) | 2 orders, 1 lot, roles granted, revoked, renounced, treasury changed, direct transfers, modulus 7 | solvency across orders and payment whatever governance does |
| `funding` (`MCFunding`) | 2 sessions, 2 handlers, 2 attempts, 1 stall, 1 fault | at most one deposit per payment, none without payment, books covered by the escrow; only an overlapping delivery or the catch after a fault takes back that an intent was funded |
| `funding_liveness` (`MCFundingLiveness`) | 2 sessions, 1 handler, no faults | every payment ends as a deposit or as a recorded failure |
| `funding_lost` (`MCFundingLost`) | 1 session, 1 handler, 1 crash and no other fault | **violated**: a paid session whose job is never enqueued |
| `funding_recharge` (`MCFundingRecharge`) | as `funding` | **violated**: a second checkout after a failed deposit |
| `order_budget` (`MCOrderBudget`) | 2 policies, 2 targets, 3 lots, 2 categories, 3 weights, up to 2 deposits booked, failed or reset at any moment; settlements that overlap, a withdrawal, lost answers | budget covers the quotes, less than a cent and the roundings of each lot remain, paid as quoted, evidence backs payments, an order shown as completed is empty unless a settlement has read a row that missed a deposit |
| `order_discrepancy` (`MCOrderDiscrepancy`) | the same | **violated**: a difference above the tolerance that rounds down to it |
| `lot_requests` (`MCLotLifecycle`) | 2 requests at a time of 6 kinds, 1 inspection version, 2 settlements, 1 run with 2 attempts, rows with and without an id on the contract, 1 fault | a booked payment was made, once, at the accepted price and for a reported audit, and stands up to the integrity check; a job that completes has attested its verdict where the lot had an id |
| `lot_sequence` (`MCLotSequence`) | 1 request at a time of all 10 kinds, 2 producers, 2 versions, capacity 1, 3 tool rounds, no faults | books and contract have the same inspections between requests; refinement of `AlpactoCore`; every audit ends and shows how |
| `lot_unaudited` (`MCLotUnaudited`) | the same | **violated**: a reweighed lot is accepted on the audit of its old inspection |
| `producer_accounts` (`MCProducerAccounts`) | 2 tabs, 2 wallets, 3 keys, requests that fail between two writes | active keys are approved, senders are the accounts resolved for, a completed grant signs or another is asked for |

Bounds and why they are enough.  Two lots compete for one order's grams and money, two
inspection versions make an attestation stale, two deposits separate "before" and "after the
first payment", and one split wraps the modulus while its total still looks payable.  Two
orders are needed for solvency only, where they share the balance.  Two handlers give both
orders of any two deliveries; two attempts a retry and a last one; one fault, of any kind, at
every point.  `MaxStalls` is BullMQ's default.  The scales of `MCOrderBudget` make a centavo
worth nine to eleven units and a cent four, so that every division has a remainder, and three
lots let roundings add up; one policy has the rate 0 that is replaced by the default.

The lot's lifecycle is split in two runs because the questions differ.  `lot_requests` asks what
concurrency and faults may do: two requests are every pair of handlers at every await, two settlements a
repeated acceptance, two attempts a retry and a last one, one fault a lost receipt, an unreachable
bundler, a failed query of the worker or either process stopping at any point.  It leaves out a second
version, reweighing and the disputes; the theorems of section 4 do not.  `lot_sequence` asks what requests may do in any order: two versions make an audit, a quote
or a verdict stale, weights 1 and 2 against capacity 1 make an attestation that reverts, two producers make
a reassignment, three tool rounds allow comparing, reporting and attesting in any order.  In
`producer_accounts` three keys are one that is active and two that compete to replace it.

Every property of a passing run has a mutant: an operator next to the definition it changes,
marked `Mutant:`, that stands for a plausible mistake in the code.

### Fairness

`FairSpec` of `Funding` assumes weak fairness of three things and of nothing else: Stripe
delivers an event that was not answered with 2xx; a handler that began a delivery takes its
next step; the worker takes a waiting job and goes on with the one it has.  The first is
Stripe's documented retry, on which the code relies, the others are the event loop and BullMQ's
worker.  Buyers, checkout requests, late operations and faults are not fair.  `PaymentResolved`
is checked with one delivery at a time: with two, a delivery that read its intent before the
other one's write may set a funded intent back to paid.  What may take a funded intent back is
`FundedOutlivesRetries`, checked and proved with deliveries that overlap.  It promises an outcome that stays:
from some time on the deposit is made, or the intent says `failed`.

`FairSpec` of `LotLifecycle` assumes weak fairness of every request the API has begun, of the worker, and
of the second call of a batch.  The first is the event loop, the second BullMQ's worker, which takes
waiting jobs and keeps going, the third is that a batch is one operation.  Nobody has to send a request,
the language model may stop whenever it likes, and there is no fairness of faults.  `AuditResolved` is
checked under it without faults: a request that stops before it enqueues leaves a run queued for ever.

### The four violations

- **A lost job.**  The webhook stores the event id before it enqueues the job
  (`modules/funding/routes.ts:397` and `416`).  If it stops in between, the next delivery is
  answered as a duplicate (`367`) and the payment is never deposited nor marked failed.
- **A second charge.**  `ALPACTO_PRD.md:1041` wants only the on-chain deposit retried; the
  code's way on from `funding_failed` is a new checkout (`modules/funding/routes.ts:79`).
- **A tolerance plus a basis point.**  `weightDeltaBps` floors (`packages/domain/src/audit.ts:33`), so
  differences up to 1.01 % pass where `ALPACTO_PRD.md:998` says more than 1 % is reviewed.
- **An unaudited weight accepted.**  Acceptance asks the audit with the highest version and quotes the
  lot's current inspection (`modules/settlements/routes.ts:143-168`); after a reweighing these are of two
  versions, where `ALPACTO_PRD.md:1256` allows only an audited one.  The contract does not pay it.

## 4. Proofs

`tlapm M.tla` checks a module; no obligation is left open.  Every invariant and action property that a
passing run checks, except `InspectionsAgree`, is stated by a theorem; `PROJECT.json` lists them.

**Assumptions.**  TLC evaluates each of them in the runs.

- `CoreAssumption` (finite sets of naturals) and `SupplyAssumption` (twice the token's supply is below
  the modulus);
- `FundingAssumption` (finite sets, at least one attempt);
- `ScaleAssumption` (scales are positive), `BudgetAssumption` (positive weights and targets, policies of
  naturals) and `RateAssumption`: a unit of USDC is worth no more than half a centavo.  The schema of a
  policy allows 20 soles for a USDC (`packages/shared-schemas/src/index.ts:46`), which is far less; the
  seed's rate comes from the environment and is not checked by that schema (`foundation.ts:171`), so the
  assumption is about policies made by the route or by a seed that keeps to it.  It is what makes three
  centavos enough in `PaidAsQuoted`;
- `LotAssumption` (finite sets; positive weights and a positive capacity; the producers' names are not
  those of the contract's other accounts, without which the mapping of balances would confuse them);
- `AccountsAssumption` (finitely many wallets, not named like the accounts that are not wallets).

**Sums.**  `Total(f, S)` is the size of the set of pairs `<<x, i>>` with `i` in `1 .. f[x]`,
so what one update does to a sum follows from the cardinality of a disjoint union
(`TotalUpdate`, `TotalTerm`) without induction.  Comparing two sums term by term does need one, over the
subsets of a finite set; `SubsetInduction` states it for a set of sets, in place of a predicate, and
`TotalPlus` and `TotalLinear` use it.

**The contract.**  The invariant is `CoreInv`, proved layer by layer, each with the ones above it:

1. `TypeOK`: in particular, the contract's unsigned subtractions do not underflow;
2. `LotInv`: a lot holds the grams of its current inspection exactly while it is ready or
   accepted, and what was accepted is audited, has a positive total and a payable platform share;
3. `Origins`: an order that does not exist is empty, a lot that exists has an order;
4. `WeightInv`: counters are sums, and within the target.  The release on reweighing and the move
   to `fulfilled` need (2), because they subtract what the lot holds, not what was inspected;
5. `MoneyInv`: tokens are conserved and cover all orders.  Wrapping needs the supply: an order's
   remaining money is at most the supply, so a total that is payable and does not wrap is below the
   modulus, and one that wraps has a component no balance can pay;
6. `LedgerInv`: `StatusOfMoney` ties an order's status to deposits and payments; without it neither
   the refund disjunct of `FundsConserved` nor "no deposit after the first payment" is inductive.

From it follow `FundsConserved`, `RemainderRecoverable`, `PayableLotSettles`, the action property
`AcceptedTermsFrozen`, and the refinement of `EscrowLedger`, whose steps are each proved to be a
deposit, a payment, a refund or a stutter.

**Funding.**  `BooksInv`, in three layers: types with `JobInv` (the worker's job is active, a job at
the stall limit does not run); `PaidInv` (whatever is delivered, enqueued, sent or late belongs to a
paid session); and the books: a worker that is about to book has its deposit on the chain, and a
reference that was applied is refused.  The last gives `OneDepositPerPayment` for any number of
retries, resends and late operations.

The action property `FundedOutlivesRetries` (theorem `FundedStays`) needs `SeenInv` as well: jobs, funded
intents and deliveries past their first write are of sessions whose event is stored, and while nothing
failed the worker has booked nothing of what it may mark as failed.  It names the two ways a funded
intent is taken back and excludes every other: the second of two deliveries that read the event as new before
the first one stored it, and the processor's catch (`jobs/queues.ts`), which after a failed query marks as
failed what was just booked.  It is proved for any number of deliveries, attempts, stalls and faults.

**An order's money.**  `BudgetInv`, of which each part carries another:

1. `Typed`, `BeforeFunding`, `Budgeted` (the budget is the estimate for the target) and `AfterWithdrawal`;
2. `Room`: the lots that hold weight are within the target, the contract's check at each audit;
3. `LotBacked`, `LotQuoted`: a lot that holds weight passed its audit within the tolerance, and what an
   accepted one is paid is its quote.  They give `EvidenceBacksPayment` and, with `QuoteWorth`,
   `PaidAsQuoted`: three centavos cover the divisions by which the quote and the payment differ, the total
   in USDC, the two fees in either currency and the way back to soles, since a unit of USDC is at most half
   a centavo;
4. `EscrowLeft`: the escrow is what was deposited, at least one budget, without what was paid.  `BudgetCoversQuotes` follows from
   (2) and (4) by `LotsCostAtMost`: the split totals of any set of lots, in soles, are at most the split total
   of their grams together, because `a \div n + b \div n <= (a + b) \div n`, and the conversion to USDC
   and to cents keeps the order.  `OnlyDustRemains` follows by `LotsCostAtLeast`: the same divisions lose
   less than two centavos for each lot after the first and a unit for each lot, and the cent is the
   rounding up of the budget;
5. `Booked`: who is about to book a payment or a withdrawal has made it; and `ReadsCover`: as long as no
   settlement has read a row that missed a deposit, what a settlement has read is at least the escrow, and
   what it has read before a payment it has yet to book is at least the escrow and that payment.
   `OnlyShortRowsHideMoney` alone is not inductive: a row may be written from a read that is many payments
   old, and then shows more than there is, never less.

It holds for any policy, target, number of lots, of deposits and of overlapping settlements.

**Lots, audits and settlements.**  `LotInv`, over any number of requests at a time, runs, versions, attempts and
faults of every kind:

- `Types`, and what rows owe each other (`RowsInv`: a request that will write the row has seen one that is
  there; `CreatingInv`, `OwnersInv`: only its creator deletes a lot, only its inserter an inspection);
- `ChainInv`: the contract's own invariant, of the lot as the handlers see it;
- `JobsInv`, `WorkerInv`: a job is enqueued once, by the request that inserted its run; what the worker holds
  for attested is on the contract (`OnContract`), and an attempt ends only with an attestation or for a lot that
  had no id when it began;
- `ReportedInv`: a verdict on the contract is of a run of its version, and what is accepted there has a report;
- `LinkedInv`: a lot gets its id before it is registered, so a lot on the contract has it;
- `ExecutingInv`: what is sent to the contract is a row of settlements and the verdict of a run of its
  version;
- `BookingInv`: whoever is about to book has made the payment of its row, while no row shows one, and is
  the only one; without it two requests at `book` would leave two booked settlements.  That they cannot
  both be there is the contract's refusal of a second `settleLot`;
- `SettlingInv`: a request that will show the lot as settled, a compensation included, knows of a payment.

With them the properties of `lot_requests` are inductive: `BookedIsPaid`, `SettledLotIsPaid`,
`PaymentWasAccepted`, `VerdictWasReported`; `CompletedJobIsAttested` and `SettledMatches` follow.  The last one
holds with requests that overlap because a row is booked after its payment and the contract refuses to
register, inspect or pay the lot again; what may still change is the producer of the row, which a dispute
reassigns without asking whether the lot was paid.  `ContractRefined` proves
`CallsTheContract` action by action: a call is the contract's, everything else leaves the mapped state alone.

**Session keys.**  From `AccountsAssumption` alone.  The invariant is `KeysInv`: `TypeOK`; `GrantsInv`,
what a tab that is granting has read (its key is of the account it began with, its wallet is that account's
from the approval on, and the row it activates is the key that was approved); `ApprovalsInv`, that a key's
approval is none or its own owner's, and an active key's is the latter; `SendsInv`, that a tab which resolved
a signer has one of the account it read, whatever was linked or revoked since; and `GrantedInv`, that the last
grant was the last activation and that where its key is not active none is: whoever revokes it revokes all,
and a stop before the next activation leaves none, which is what the status route asks for.
Without `GrantsInv` the others are
not inductive: an activation goes by the row's id and looks at nothing else.  It holds for any number of tabs,
wallets and keys.

**Only model-checked.**  Liveness under fairness, which the prover cannot treat: `PaymentResolved` and
`AuditResolved`.  `InspectionsAgree`, which holds of requests in sequence without lost receipts and is not
claimed beyond that.  The four violations are counterexamples of TLC; nothing is proved from them.

## 5. Not modelled, and why

- Hashes, ids, signatures and strings: no modelled guard depends on more than their equality.
- Rows that the modelled requests write and no modelled guard reads: evidence files and their links,
  `reweigh_requests`, audit findings, progress labels, tool logs.
- Orders that are not on the chain, and a deployment without a contract or a signer for the worker.
- Disputes opened by the integrity check: they change no lot.  The check itself is an operator.
- The auditor's role being granted again before an attestation; warming a session key; passkey
  challenges.  They change nothing the other steps read.
- Readings of the vision model are any of a small set; kilos become grams before they enter.
- Administration (read-only queries), campaigns, organizations and evidence uploads (single inserts), the
  chat assistants (read-only queries and a language model), deployment and seed scripts, and the web
  application, which keeps no state the system relies on except the tabs of `ProducerAccounts`.

The part that is modelled is the smaller part of the repository by lines: most of the rest is user
interface, generated contract types, a bundled package manager, scripts, chat tools and serialisation.

### What does not hold

Met while modelling, and left out of the properties because the code does not claim it:

- Two inspectors at once, or an inspection mined without its receipt, leave the contract with a version the
  books deleted and will number again; `InspectionsAgree` is about one request at a time.
- A compensation writes back the status it read, `auditing` included, over what happened meanwhile.
- A producer that is reassigned after the lot is on the contract cannot be paid there: the contract keeps
  the first one.  Reassigned after the payment, the integrity check raises its alarm (`SettledMatches`).
- The language model may compare again after the report, so the attested verdict may not be the stored
  report's; and a report whose row could not be written is attested all the same, by an attestation that
  may itself stay unbooked (`run-audit.ts:615`, `661`).  `VerdictWasReported` says that the verdict is of a run of
  its version, and that a lot is paid only for a version that has a stored report.
- An audit of a lot whose row has no id on the contract completes without an attestation
  (`run-audit.ts:550-557`, `666`); `CompletedJobIsAttested` excepts it.
- A payment that was mined and not booked, whether to a producer or back to the buyer, is never booked:
  every retry is refused by the contract.  `OnlyShortRowsHideMoney` and `BookedIsPaid` are the converse.
- A deposit that the row misses, of a second session or of one booked as failed and then reset, makes a
  later settlement close an order that still holds the buyer's money (`lib/settlement-onchain.ts:289`), whose
  withdrawal the app then refuses (`modules/funding/routes.ts:233`).  `OnlyShortRowsHideMoney` says that
  nothing else does.
- The second of two overlapping deliveries may set a funded intent back to paid, and the worker's catch may
  mark it as failed; `FundedOutlivesRetries` says that nothing else does.
- A stop between revoking the active keys and activating the new one (`modules/auth/routes.ts:713-732`) loses
  the completed grant; the status route then asks for another.
- Two overlapping grants may leave two active keys, against `DECISIONS.md:100`; both are approved and the
  later one signs.  The status route does not compare the key's account (`modules/auth/routes.ts:566`), so
  a producer with a new wallet learns that a grant is needed only when a call is refused.
- When a second payment of an order fails after the first was deposited, the order shows
  `funding_failed`, and a new checkout empties the books of a funded order (`modules/funding/routes.ts:80-92`).

## 6. Plan

Done: the five parts modelled, their invariants and action properties proved, the contract shown to
implement `EscrowLedger` and the lots to call `AlpactoCore`.  What is left:

1. What two requests at once do to `InspectionsAgree`: the strongest statement that survives two inspectors
   (that the contract's version is one some row had), if the code comes to promise it, and its proof.
2. Several lots in `LotLifecycle`, whose `Capacity` stands for the others today.
