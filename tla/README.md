# Verification of shrud

shrud is a confidential clearing network for treasuries: Safes submit encrypted
orders, anybody seals an epoch of them at a public reference price, a contract
nets the encrypted orders against each other in resumable stages, and only the
net residual, above two privacy floors, reaches a public venue. This directory
models the contracts, the scripts that release and rehearse them, and the
programs that act on them for a user, in TLA+; it checks the models with TLC and
proves part of what they promise with TLAPS. Source paths below are relative to
`src/`.

## The system

| Part | State | Operations |
|---|---|---|
| `contracts/recovery/ShrudPauseController.sol` | network state, activity pauses | `pause`, `pauseActivity`, `halt`; gates `requireLive`, `requireNotHalted`, `requireHalted` |
| `contracts/intents/ShrudIntentBook.sol` | order headers and handles, epoch records, candidate lists, consumed markers, committed handles | the `record*` writers, `expireIntent`, `openEpoch`, `sealEpoch`, `commitPublishedHandles`, `setEpochStatus` |
| `contracts/clearing/ShrudClearingVault.sol` | one escrow record per order | transfer callback and `confirmLock`, `refundCancelled`, `emergencyRelease` (and `distribute`, `releaseResidual`, `markConsumed`, which nothing calls) |
| `contracts/clearing/ShrudClearingEngine.sol` | stage, cursor and encrypted values of an epoch | `openEpoch`, `sealEpoch`, six stage functions, `publishResidual`, `grantSettlementAccess` |
| `contracts/settlement/ShrudSettlementEngine.sol` | swap and supply records, consumed epochs | verify / settle / reconcile for each route, `declareTimedOut` |
| `contracts/accounts/ShrudSafeModule.sol` | nonce, submitted ids | `submitIntent`, `activateIntent`, `cancelIntent`, `shield`, capsules |
| `contracts/recovery/ShrudEmergencyExit.sol` | exited orders | `exitHalted`, `exitTimedOut` |
| `scripts/deploy/`, `scripts/verify-live/`, `scripts/lib/` | the manifest file; beside it, the chain | deploy, apply registrations, deploy adapters, apply adapters, rebuild the manifest, verify |
| `scripts/ops/prove-clearing.ts`, `prove-order.ts` | one state file each | the steps of a rehearsal, each followed by a save |
| `apps/web/src/lib/use-submit-order.ts`, `orders.ts` | a page's run: nonce, header, the hash it waits for | read, encrypt, submit, wait, sign, activate |
| `apps/web` onboarding and vault pages, `packages/safe-client` | a page's scan of a Safe and its transaction | scan, deploy module, enable, set guard, wrap |
| `packages/indexer` | last block, range, stored events | tick, window, narrowing, trim |
| `packages/nox-client`, `packages/sdk` | a call's attempt, delay and budget | wait for a handle, decrypt, retry a refusal |
| price registry, position ledger, asset and adapter registries, module factory and guard, capsules, handle isolation | routes, snapshots, pool shares, registrations, nonces | see `PROJECT.json` |

The contracts keep no copy of each other's state. They agree only through the
order of the calls between them, every call past a submission can be made by
anybody, and each function picks one of three gates. That is where the hazards
are: cancellation, expiry and exit race the seal; batches of any size race each
other; time-out, halt and a late keeper race the settlement; the two public
routes of one epoch share handles. The arithmetic has hazards of its own: each
value is a ciphertext, so a wrong one reverts nothing and shows nowhere.

The programs around them have the opposite problem: each keeps a copy of the
chain (a manifest, a scan, a nonce, a cursor, a verdict on a handle) and acts on
it some time after it was taken. They do not talk to each other; they meet on
the chain. So each is modelled against the part of the chain it reads and
writes, with everybody else who may move that part.

What makes each part correct:

- *Pause controller*: the state only rises; a pause stops new value and nothing
  that is sealed; a halt stops everything but the exit.
- *Intent book*: one epoch consumes an order, once; a sealed set never changes;
  the epoch status shows where the two engines are, although three contracts
  write it and no transition is checked.
- *Vault*: an order's value is locked once and leaves once.
- *Clearing engine*: no batch size skips or repeats a candidate; what is
  published is final; the result equals the one-shot reference.
- *Settlement engine*: a route ends once; a venue spends only what the vault
  still holds; a venue is reached only in company; the shares fit the output.
- *Arithmetic*: the staged values equal the reference; what an epoch owes exceeds
  what it holds by dust at most.
- *Deployment*: a manifest names one deployment whose contracts point at each
  other, although addresses are predicted from a nonce and any script may die.
- *Order desk*: two pages never put one nonce on the book twice; a page does not
  report an order as active that is not.
- *Safe setup*: a page at rest shows the Safe as it is, or that it could not read
  it; what it offers succeeds.
- *Indexer*: what lies below the block it reports is in its store.
- *Rehearsal*: a run that is repeated continues what was begun; what it seals is
  whole.
- *Handle client*: "you may not read this" is true when it is said; each of its
  two loops ends within its budget, and an entitled reader is served.

## The modules

One Solidity transaction is one step. A writer function that several contracts
call (the book's, the vault's) is an operator; the calling function conjoins it
to its own guards, in one action, the way the EVM runs both or neither. A
TypeScript function is cut into steps at its awaits: what it read before one may
be stale after it.

| Module | Models |
|---|---|
| `PauseController` | the switch and its three gates; `GuardianMay` says which transitions a run's guardian uses |
| `IntentBook` | statuses of orders and epochs, candidate lists, consumed markers, the commit |
| `ClearingVault` | custody of an order: `Empty`, `Held`, `Refunded`, `Exited` |
| `PublishedOutcome` | what published handles can decrypt to, as far as the network tells outcomes apart |
| `ClearingEngine` | stages, the shared resumable cursor, publication, the settlement grant |
| `SettlementEngine` | both routes, time-out, `_consumed` |
| `SafeModule`, `EmergencyExit` | an owner's calls and the two doors out |
| `ShrudNetwork` | all of them together, interleaved with the clock |
| `NetworkSafety`, `NetworkLiveness` | what must hold, and what must happen |
| `ClearingPromise`, `NetworkRefinement` | the abstract specification and the mapping to it |
| `DocumentedClaims` | a comment's claim that the contracts do not keep |
| `FixedPoint`, `ClearingArithmetic` | the values of one epoch, stage by stage and batch by batch, to its reconciliation |
| `ClearingReference` | `clearEpoch` of `packages/clearing-math/src/index.ts` |
| `Deployment` | the scripts of `scripts/deploy`, the manifest, an operator, a chain of addresses |
| `OrderDesk` | pages that submit orders, the accounts' queues, the part of the chain they share |
| `SafeSetup` | pages that install the module on one Safe |
| `Indexer` | overlapping ticks over `state` and `logRange` |
| `Rehearsal` | both rehearsal scripts, their files and the deployer's pending transactions |
| `HandleClient` | the calls of a reader, the gateway's two indexes, the runner |
| `ArithmeticSafety`, `DeploymentSafety`, `OrderDeskSafety`, `SafeSetupSafety`, `IndexerSafety`, `RehearsalSafety`, `HandleClientSafety` | the properties of each, one type invariant among them |
| `MC...` | constants for TLC where a `.cfg` cannot state them; the other runs check the property module itself |
| `Network_proofs` | theorems about the contracts: types, custody, settlement, epochs, the promise, each part resting on the one before |
| `Arithmetic_proofs` | theorems about the values of an epoch |
| `OrderDesk_proofs`, `SafeSetup_proofs`, `HandleClient_proofs`, `Indexer_proofs`, `Deployment_proofs`, `Rehearsal_proofs` | theorems about the programs |

Choices a reader should know of:

- *Identity.* An intent id hashes its header, so the module that owns an order
  and the epoch it names are functions of the id (`ModuleOf`, `EpochOf`). Ids
  are numbers because `sealEpoch` compares them. In `Deployment` an address is
  the nonce that created it; in `OrderDesk` an order is a page and its run.
- *Time.* In the network `timeLeft`, `priceAge` and `swapAge` count from or to
  the moment that matters and stop just past it, so the clock itself is
  unbounded. A tick moves all of them, and any number of transactions fit
  between two ticks.
- *Values.* In the network an epoch's encrypted results are one of
  `Outcome(n)`, fixed when `finaliseResidual` completes. `ClearingArithmetic`
  models the values; `OutcomeIsCovered` ties the two: each result it reaches is
  an outcome the network lets an epoch publish.
- *Venues and wrappers* are external. A call that fails reverts its whole
  transaction, so it is no step; a settlement step is a call that succeeded.
- *Wallets and nodes* are external. A wallet is assumed to estimate a call and to
  refuse one that reverts as the chain stands. What reverts when it is mined
  still gives a receipt, and the pages and `apply-registrations.ts` do not read
  its status: that is in the models.
- *Giving up.* A script that throws, is killed, or stops waiting for a receipt
  after its 45 minutes has lost its memory and kept its transaction: one
  `Crash`. The operator runs scripts one at a time, because they send with one key;
  what a dead one left pending is mined beside the calls of the next.
- *Requests.* In `Rehearsal` reading, deciding and sending are one step, because
  a call that the chain has overtaken reverts when it is mined and ends the
  process the same way. In `SafeSetup` and `Indexer` each read is a step.
- *Failed reads.* The query of a Safe's status has no retry
  (`apps/web/src/lib/onboarding.ts:182`), so any read of a scan may end it in an
  error (`FailScan`), which leaves the old scan and its buttons on a page that has
  already reset. No further scan follows by itself: only another transaction, a visit
  or a connection that comes back starts one (`Connect`). A receipt that cannot be
  read is folded into the block that made it: the transaction lands and the page,
  as after a revert, scans nothing.
- *Rights.* The confidential library is external. It grants a handle by `allow`
  (compute and read) or `addViewer` (read), and `NoxCompute.isAllowed`, the only
  question the SDK asks the chain, is taken to answer for the first alone, as the
  contracts do, which ask `isViewer` for the second
  (`contracts/disclosure/ShrudCapsuleFactory.sol:191`, 271).
- *Operators.* `_lock` (`ShrudSafeModule.sol:400`) is a transfer by the module as
  the operator of the Safe's wrapped tokens, which only `shield` makes it (line 526).
  `Rehearsal` asks for that; the operator's expiry, thirty days in the
  script, is longer than any rehearsal and left out. `OrderDesk` starts with a Safe
  that is set up and leaves the expiry out too: an activation that fails because
  the operator ran out is not seen there.
- *First block.* `packages/indexer/src/index.ts:205-208` says that the backfill starts at the
  configured block; `follow` asks for the block after its cursor, so that block
  itself is never read, and `CompleteBelowCursor` does not count it.
- *Not visible.* `Settling` is written and overwritten inside one transaction.
  `Sealed`, `Computing` and `TimedOut` of the book's `EpochStatus` are declared
  and never written.
- *Dead paths.* No contract calls the vault's `distribute`, `releaseResidual`
  or `markConsumed`, or the ledger's `burnShares` or `recordWithdrawal`; the
  model has no such action.

## The runs

| Run | States | Question |
|---|---|---|
| `one_epoch` | 325,000 | three orders of two treasuries, one epoch, floors 3 and 2 as deployed, any guardian: custody, the sealed set, the cursors, the two views of an epoch, and what a pause and a halt may leave moving |
| `two_routes` | 148,000 | swap and supply side by side, activity pauses, time-out, halt: company, venue against exit, one end per route, and what keepers and the clock guarantee |
| `two_epochs` | 143,000 | an order in each of two interleaved epochs: consumption, and the refinement of `ClearingPromise` |
| `arithmetic` | 21,000 | every list of one or three orders of eight kinds, at two prices, cut into batches in every way: the reference, the shares, the debt, the limits |
| `deployment` | 158,000 | two attempts of the pipeline with one death or one foreign transaction anywhere: one coherent manifest, adapters that match it, a verification that means something |
| `order_desk` | 125,000 | two tabs of one owner against a chain that seals, cancels and changes the Safe: nonces, reports, orphans |
| `safe_setup` | 499,000 | two pages and the Safe's own interface on one Safe, with reads that fail: what a scan shows, what a button does, and that what it did is shown in the end, or an error is |
| `indexer` | 45,000 | two ticks that overlap, fail or are refused: what is missing, what is double, and that every block is reached |
| `rehearsal` | 118,000 | both scripts with one death, expiry or price move: what is sealed, what is unbacked, and that repetition ends but for the states named |
| `handle_client` | 62,000 | one reader, by either right, and a gateway that lags, fails and is slow: refusals, budgets, service |
| `claim_floor_miss`, `claim_caught_up` | stop at a counterexample | one documented claim each |

The type invariant of a component is checked on its own (`one_epoch`) or as the
first conjunct of another invariant of its run.

### Bounds, and why they are enough

- *Orders.* The contracts treat candidates alike but for their place in the
  list, and two of the hazards are about a pair of orders. Three give the cursor
  a first, a middle and a last place, and meet the deployed floor. `two_routes`
  lowers the floors so that both routes can be met by few orders.
- *Epochs.* They share the book, the vault and the orders, nothing else; two
  suffice for an order to be offered to the wrong one.
- *Batches.* `0`, `1` and more than the rest are the cases `_batchEnd` tells
  apart; zero reverts in the engine and is accepted by `reconcile`.
- *Lifetime, staleness, time-out.* One or two ticks each: before, at and past the
  limit. In `two_routes` a price outlives the time-out, so that a keeper that
  comes back after it would find the price still fresh.
- *Amounts.* `Scale = 2` and the prices 2 and 3 make both roundings happen in
  both directions; the orders' limits pass, fail, equal the price and are zero.
  `Word = 4096` is larger than any product of these, as 2^256 is larger than
  any product of token amounts.
- *Deployment.* `MaxNonce = 32` is room for an interrupted deployment and a whole
  one, or a whole one and two attempts of its adapters. One mishap: a death
  leaves what the next run finds, and one shift of the nonce moves every
  prediction. `Delay = 1` is before and after.
- *Order desk.* Two pages of one wallet, the smallest number that can read the
  same nonce; owners share nothing in the module. Two runs between them let a
  page retry while its first transaction is pending. `MaxTime = 1` with
  `Window = 1` crosses one epoch boundary.
- *Safe setup.* Two pages, two transactions from them, one from elsewhere: one
  transaction can land between any two reads of a scan, and one page's
  transaction between the other's offer and its block. Reads fail without a bound. Two
  visits open both pages, or open one and let it come back.
- *Indexer.* Four blocks, windows of three against a provider that serves two:
  a refusal in the first window, a whole window, a last short one. Two kinds, so
  that a tick can fail between them. `Keep = 3` makes the trim drop what was
  read. One mishap.
- *Rehearsal.* Two treasuries instead of three, four Safes so that an
  interruption may lose one, one mishap. `MaxRefused = 2` bounds the activations
  refused: a prove-order that is locked out leaves an order behind, comes back, and
  leaves another.
- *Handle client.* Readers share nothing but the gateway, so there is one. The
  pauses 1, 2, 2 in a budget of 6 grow, reach the cap, and leave a last pause that
  does not fit.
- *Deadlock.* The network runs check it: the clock always ticks. An arithmetic
  epoch ends, reconciled or short of a floor, and the programs end or reach their
  bounds, so those runs do not.

### Fairness

Every function that moves an epoch is open to any caller, so the network's
`FairSpec` assumes that a call that stays possible is eventually made: weak
fairness, per epoch and function, and for a batch of at least one. It covers the
clock and `expireIntent`. It covers no owner, no guardian and no venue.
`claim_floor_miss` is refuted under `FairVenueSpec`, which adds the venues, so
that the counterexample is not a venue that never answers.

Under it a sealed epoch is published unless the guardian stops `Clear`; a
verified residual ends, because `declareTimedOut` asks no gate; an epoch that
settled processes all its candidates unless `Settle` is stopped; an order is
sealed, cancelled or expired, halted or not.

Each program assumes what its own event loop or its operator gives it:

| Run | Weakly fair | Not assumed |
|---|---|---|
| `deployment` | a running script goes on; blocks come | that an operator starts one |
| `safe_setup` | queries end, in an answer or in an error; blocks come; effects run | that any read succeeds, that anybody presses, confirms or comes back |
| `indexer` | the ticks together go on; the interval starts a tick when none runs | that one tick in particular goes on |
| `rehearsal` | scripts go on; blocks come; the pool comes to rest; a script that ended is run again (strongly fair, however the other one fares, since it can only while the other is not running) | that no process dies |
| `handle_client` | a call goes on; a reader asks again (strongly fair, since it can only while no call runs); the runner and both gateway indexes get there | that any one poll is answered |

`order_desk` checks safety only: nothing has to happen on a page until somebody
presses.

### What does not hold

Two claims have a run that refutes them.

| Run | Claim | What the code does |
|---|---|---|
| `claim_floor_miss` | an epoch below its floor becomes recoverable | `verifyResidual` reverts, and no other call reaches it |
| `claim_caught_up` | a window refused by the provider is narrowed and retried until it is read | `indexRange` narrows its own copy, `follow` moves the cursor past the wide one, and the page says it has caught up |

Other disagreements between comments and code were met on the way. The models
behave as the code does, and no property here depends on the comment:

- The vault is documented never to owe more than it holds
  (`ShrudClearingEngine.sol:484-486`). Each seller's share of the crossed base
  floors by itself and the rest of its lot goes to the venue, so it can: 4 of quote
  at a price of 3/2, met by sellers of 1 and 2, make 4 of base owed of 3
  held. The quote has the same gap. `DebtIsDust` says how far either can go.
- A refusal is documented as correct when the chain agrees that there is no grant
  (`packages/nox-client/src/index.ts:304`). The chain is asked about one of the two
  kinds of grant, so a capsule's viewer whom the gateway has not indexed yet is told
  that it may not read. `RefusalIsTrue` is therefore about accounts that the chain
  allows; `GrantedIsServed` covers viewers, who have to ask again.
- The timed-out exit is documented as needing no halt
  (`contracts/recovery/ShrudEmergencyExit.sol:36-41`); the vault's
  `emergencyRelease` asks for one (`ShrudClearingVault.sol:285`).
- The supply route is documented as independent of the swap route
  (`ShrudSettlementEngine.sol:131-135`); its handles are granted only by the
  swap route's `reconcile`, so `reconcileSupply` (line 591) waits for it.
- Spent escrow is documented as out of the exit's reach; nothing calls
  `markConsumed` (`ShrudClearingVault.sol:300`), so after a halt it is not.
- An order outside a sealed set is documented as cancellable
  (`ShrudSafeModule.sol:441`); once anybody has expired it
  (`ShrudIntentBook.sol:394`), it is not, and its escrow stays until a halt.
- `prove-order.ts` is documented as resumable (line 8: "so a failure at stage 6
  does not throw away the five transactions before it"); once another Safe's
  deposit has made it skip the wrapping (line 320), every further run submits one
  more order and fails at its activation. `Resumes` exempts this state
  (`LockedOut`), as it exempts the two of prove-clearing (`Stranded`).
- A final allocation is documented as internal plus external
  (`ShrudSettlementEngine.sol:405`); a seller's crossed quote is dropped
  (line 407).
- A failed computation is documented to throw
  (`packages/nox-client/src/runtime.ts:197`); it is returned as a status (line
  221), and neither decryption looks at it.

Smaller ones: `recordCancellation` compares no module, so one treasury's module
can cancel another's order while it is only `Submitted`. The epoch's floor
counts orders, where its comment says treasuries. At the end of the word the
engine's ceiling overflows to zero and the reference's does not. The vault page
offers to wrap as soon as the module is deployed, enabled or not, which is why
`FailureIsExplained` leaves its transactions out, and both pages call a reverted
transaction "Confirmed." because they do not read its receipt's status.

## The proofs

All theorems hold for every value of the constants that satisfies the
assumptions of the modules (`BookAssumption`, `FloorAssumption`,
`EngineAssumption`, `DeskAssumption`, `SetupAssumption`, ...). Four of them
have a hypothesis besides, stated in the theorem: `LimitsAlwaysHold`,
`DebtIsAlwaysDust` and `AlwaysMatchesReference` that the amounts fit the word, `NothingIsLost` that the
indexer has a start block; each is explained below.

### The contracts

- `TypeCorrect`: `Spec => []TypeOK`. It includes that an outcome is fixed
  exactly in an engine's last stage, and lies in `Outcome` of the epoch's count.
- `OneEpochConsumes`, `SealedEscrowStays`, `VaultFollowsBook`: the properties
  `ConsumedIsSealed`, `SealedKeepsEscrow` and `EscrowFollowsStatus`.
- `RoutesEndOnce`, `VenuesSpendHeldEscrow`, `PauseHolds`, `HaltIsFinal`: the
  action properties `SwapEndsOnce`, `VenueSpendsHeldEscrow`,
  `PauseTakesNoNewValue` and `HaltFreezes`.
- `BookShowsEngines`, `CursorsTellProcessed`, `VenuesKeepCompany`: the
  properties `EpochViewsAgree`, `ProcessedIsPrefix` and `DisclosureNeedsCompany`.
- `ContractsKeepPromise`: `Spec => KeepsPromise`, the refinement of
  `ClearingPromise`.

The three custody properties are proved together, as `CustodyInv`, because none
is inductive alone. A seal needs the second and third to know that an
authorised order of a live network is still held: an exit could have taken it,
and only the halt that opens the exit closes the seal. A cancellation and an
expiry need the first to know that an order without a consumed marker is in no
sealed set. Most steps move no order and no escrow; they are shown to be
`Quiet`, and one lemma covers them.

The action properties start from that invariant and from `SettledInv`: an
epoch's `_consumed` entry is set exactly when its swap route has ended. The code
keeps the two in separate mappings and tests sometimes one, sometimes the other,
so "ended once" is true only while they agree. `SettleIsSwapStep` reads every
function of the settlement engine as one of six changes of the pair; the end of
a route then follows case by case. A venue is paid only on a network that is not
halted (`SwapVenueIsLive`, `SupplyVenueIsLive`), and there `SealedKeepsEscrow`
says the escrow is still held. `HaltedMoves` lists what a halted network can
still do, and `HaltFreezes` looks at each.

What the contracts know of an epoch is `EpochInv`, one `EpochOK(e)` for each:
`View` is `EpochViewsAgree` case by case, `Verified` says that a route that has
moved belongs to a published epoch whose outcome has that route and its floors,
and `CursorOK` relates the cursor of a route to its status. Each step changes one
epoch, so one lemma (`OtherEpochs`) keeps the rest. `ProcessedIsPrefix` needs
more: a seal changes the candidates under the cursor, and preserves the property
only because the cursor is then still zero; it also rests on `CustodyInv`, since
a processed order that some later seal took in again would be processed twice.
`DisclosureNeedsCompany` follows from `Verified`: the outcome of a published
epoch lies in `Outcome` of its count, which keeps the floors (`OutcomeFloors`),
and the count is the number of different orders, because the candidate list is
strictly sorted (`MembersCounted`).

The refinement maps an order to its fate and custody and an epoch to its set and
the ends of its routes. `Tables` is that mapping read off by status. There is one
lemma per kind of transaction (`OfferIsPromised`, `LockIsPromised`,
`SealIsPromised`, ...), the clearing stages are silent, and `EpochInv` supplies
what the promise's guards ask: that a route that ends is of a sealed and
published epoch and had not ended before.

### The arithmetic

- `StagesAreExact`: `Spec => []IInv`, the invariant below.
- `SharesStayWithinWhole`, `OutcomeAlwaysCovered`: the properties
  `SharesAreWithinWhole` and `OutcomeIsCovered`, whether or not a product overflows.
- `DebtIsAlwaysDust`, `LimitsAlwaysHold`, `AlwaysMatchesReference`: `DebtIsDust`,
  `LimitsHold` and `MatchesReference` in every state in which `AmountsFit`.

The stages are resumable: what has been stored depends on how far a keeper got.
`IInv` says it without the history. `Done(k)` are the candidates that the k-th
stage has passed, all of them once the stage is over; a field of a candidate is
its formula for those and zero for the rest, and a total is the sum over those
(`Classification`, `Accumulation`, `Crossing`, `Allocation`, `Residual`,
`Requirements`, `Execution`, `Shares`). A batch extends `Done` and the sum by the
same candidates, wherever it is cut. The aggregate minimum is a greatest value
and no sum: it bounds every requirement and is reached by one.

Sums are folds of the community modules, that is, functions by recursion over
sets. Induction over data is out of the provers' reach as a rule with an operator
for a parameter, so it is done by hand: a set of naturals without a least element
is empty (`Smallest`), which gives induction for a *set* of naturals, then for the
subsets of a finite set by their size, then `SumPick` and the laws of sums.
Two facts about division then bound the shares from both sides. Rounded down, in
proportion to parts of a whole, they come to no more than the whole
(`ProportionalSum`), and they fall short of it by less than one for each part
(`ProportionalDust`). The first gives `SharesAreWithinWhole`. The second gives the
debt: the base that sellers keep from the cross goes to the venue, so what the vault
owes beyond its escrow is at most what their shares fell short of the crossed base;
likewise for the buyers' quote, at the price of the base they were given less.

`AmountsFit` is about overflow, which `MulDiv` answers with zero, as the
encrypted multiplication does. It bounds everything escrowed for the epoch,
squared and scaled, by the word: with the scale of 10^18 that is just under 2^98
units. It is a hypothesis on a state and not an assumption on the constants,
because nothing in the contracts bounds the amounts. Past it `LimitsHold` is false
of the code, as the hazard at `ShrudClearingEngine.sol:824` says, and the
reference, which has no word, disagrees.

### The programs

- `NothingIsLost`: `CompleteBelowCursor`, if a start block is configured
  (`Start # 0`). Without one the first tick begins below the head of the chain
  (`follow`), so the history before it is left out by design and the property is
  not meant. `CoverageInv` adds that the tick being served has stored or accounted
  for what lies below its own cursor and, of the kinds it has asked for, in its
  window; a trim drops an event only when `Keep` newer copies remain.
- `DuplicatesArePaidFor`: `CopiesAreExplained`, by an amortised bound. To the copies of
  an event are added the ticks that may still push it and one for a cursor that lies
  below it; the sum never exceeds one and the mishaps. So a copy is paid for
  before it is made.
- `ManifestNamesOne`, `ManifestNamesItsAdapters`, `WhatPassesIsWhole`: the three
  properties of `deployment`. `IInv` has nine parts: what the chain keeps
  (`ChainOK`), what each kind of process has read or sent (`ProcessOK`, `DeployOK`,
  `WiredOK`, `ReaderOK`), and what the manifest, the registries and the position
  can then hold (`ManifestOK`, `RegistriesOK`, `AdaptersOK`, `RecordedServe`). They
  meet in `Whole(at, n, ...)`: the contracts created at `n` and after, without a gap,
  in the script's order. Constructors take *predicted* addresses, so a foreign
  transaction between two creations leaves contracts that point at nothing;
  `assertPredicted` stops there, and such a remainder is never wired. A wired
  `IntentBook` therefore belongs to one whole deployment, and what
  `rebuild-manifest` reads off it leaves one start nonce. For the last property,
  verify-live counts three applied adapters and does not ask which: the position is
  opened before the registrations, so all applied adapters of one registry are of one attempt,
  and three of them are one of each kind. An address at which nothing was created
  must be told from a contract (`NoCodeAssumption`).
- `BudgetsAreSpent`: `BudgetIsSpent`, for every polling policy. `Delay` and
  `Elapsed` are recursive functions, so that they satisfy their equations is a
  theorem too (`DelayUnfolds`, `ElapsedUnfolds`, from `RecursionExists`). The pauses
  that fit are then the first `Polls` (`PollsFit`), and `BudgetInv` says of a
  waiting call that it has slept the pauses behind its polls.
- `DeskTypeCorrect`, `DeskNoncesAreSequential`, `DeskDoneUnlessRaced`,
  `DeskOrphansAreExplained`: the type invariant and the three properties of
  `order_desk`. The inductive
  invariant adds to them what a page knows at each point of its run (`PageOK`),
  that a queued transaction is of an order its page started, a submission that is
  still accounted for, an activation that carries the header the page waits with
  (`QueueOK`), and that what the wallet estimated still
  holds when nobody moved the chain (`EstimateHolds`). The last is why an unread
  receipt is harmless without a race. Sequential nonces need only the module's
  guard, but in every order in which the queue can be mined.
- `SetupScanIsCurrent`, `SetupFailureIsExplained`: the two invariants of
  `safe_setup`. A scan is put together from reads of several blocks, so the
  invariant speaks of each read that came back (`ReadsOK`): while nobody
  disturbed the page, it still holds of the Safe. A failed scan changes nothing but
  the page's error, which is why a transaction sent beside an error is in doubt
  (`doubted`) until its block. Of a transaction on its way that nothing makes
  doubtful the invariant says that the Safe as it is offers it, of a failed one that
  it is explained. `GuardHasModule` is the one fact about the Safe: a guard of ours
  without a deployed module would let the page offer what reverts.
- `RefusalsAreTrue`: `RefusalIsTrue`. Grants are permanent, so whoever the chain
  allowed when the call began it still allows when it is asked. It says nothing of
  viewers, of whom it is false.
- `SealedSetsAreWhole`, `UnbackedAlwaysExplained`: the invariants `SealedSetIsWhole`
  and `UnbackedIsExplained` of `rehearsal`. The difficulty is a call whose sender died: it is
  mined later, under a file that knows nothing of it. So `IInv` says what is true
  of every pending call, awaited or orphaned (`PendingOK`), where a running script
  may be and what it has then done (`ClearingAt`, `OrderAt`), and what the
  files say of the chain (`FilesOK`): the clearing file's treasuries are
  shielded Safes, distinct from each other and from prove-order's, each order is
  its own treasury's, and a recorded seal is of exactly these orders. `MineKeeps`
  takes the receipt apart: a call nobody waits for, a revert, and then one lemma
  for each thing a script waits for. That a sealed epoch has `N` members is a
  bijection between its orders and its treasuries (`OrdersCounted`).
  An order of a Safe that wrapped nothing stays `Submitted` because an activation asks
  for the operator that only `shield` sets.
- `RunsAreOrderly`: the parts of that invariant that say how a run resumes. A process holds what
  its file says but for what it is about to save, and `NoncesPaid`: each
  submission of a Safe, but for its last, has cost a crash or an activation that was
  refused (`Paid`, `ActivationRefused`). So no run of deaths and refusals leads to an
  order outside the range the model gives them.

### Only model-checked

Liveness and everything under `ENABLED`: the properties that say that something
happens (`GrantedIsServed`, `CatchesUp`, `WaitsEnd`, `Resumes`, ...). The provers
have no rule for either. Every invariant of a passing run is stated by a theorem.

## What is not modelled, and what could come next

- *Price registry*: routes, snapshots and the mean over a window of a pool. The
  models use only its staleness test and its queued route. A price that moves
  between checks inside the window is not seen here.
- *Position ledger*: the shares of a pooled position and their rounding; only the
  one-shot opening is modelled.
- *Asset and adapter registries*: queueing and application after the delay are
  modelled; pausing, and a wrapper whose code changes after its hash was pinned,
  are not.
- *Capsules, module guard, confidential base, handle isolation*: nonces, replay
  of gateway proofs and time-limited disclosure are checks inside calls of the
  confidential library, whose side of the contract is not in this repository.
- *Order data*: the supply route's shares, `planClearing`'s gas budget, packing
  and hashing of signatures, derivation of handles.
- *Rendering, environment reading, source verification, type and ABI packages,
  vendored code, tests*: no state of their own, or none that outlives a call.
- *Encryption* itself, which the model takes to hide values and not to change
  them.

Next would be a model of the price window.
