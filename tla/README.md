# Verification of flage in TLA+

flage is a trading system: an agent in a TEE signs trades, a settlement service
submits them, and contracts check the signature and trade the vault's capital
through a list of DEXs.  This directory holds TLA+ models of its code, the TLC
runs that check them and proofs that TLAPS checks.  `PROJECT.json` ties every
definition to the lines it models, every property to a mutation of the code that
breaks it, and every hazard to the properties that cover it.

Run for instance `tlc -config MCVaultAccounts.cfg MCFlageVault` and
`tlapm FlageVaultProofs.tla`.

## 1. Inventory

Paths are below `src/packages/`.

| Component | State | Operations | Hard behaviours | What makes it correct |
|---|---|---|---|---|
| `contracts/src/FlageVault.sol` | TEE registrations, used nonces, pair limits, daily volume, balances, allowances to the router | register, deactivate, configure, whitelist, deposit, withdraw, `executeTrade` | limits and keys change between signing and execution; a trade that fails half-way | a nonce settles once; the caps hold for the sum of the trades; capital moves only as signed; a revert leaves no trace |
| `contracts/src/DEXRouter.sol` | DEX list per token pair, transient balances and allowances | `swap`, configuration, `flashArb` | one DEX fails after tokens were pulled; a DEX pays nothing; Curve coin indices name other tokens | at most one fill per trade; no trade leaves anything with the router; a failed DEX does not keep the next one from being tried |
| `settlement/src/queue.ts`, `vault-client.ts`, `service.ts` | queue, running count, statistics, one awaited call per trade | enqueue, stop, resume, drain, validate, submit with retries, shut down | checks stale at submission; an answer lost after the transaction was mined; exit with work in flight | every accepted trade ends in exactly one of submitted, skipped, failed; "failed" means not settled; concurrency bound; no idle slot beside a waiting trade |
| `settlement/src/monitor.ts` | history of trades | replay, subscribe, stop | events between query and subscription | the history is the chain's, in order, but for that gap |
| `agent/src/agent.py`, `runner.py` | nonce counter, positions, the trades of a tick, the account nonce read | tick: read, infer, filter, sign, submit | restart with the same key; trades dropped after their nonce is taken; timeout while the transaction is pending; reads torn between two keys | one transaction pending at most; trades settle in the order signed; only a restart repeats a nonce |
| `storage-client/src/kv-layer/server.ts` | key-value stream (external) | update book, price, signal | the runner reads two keys apart | the price is never older than the book |
| `contracts/src/FlageAgentNFT.sol`, `FlageVerifier.sol`, `TEEAttestationVerifier.sol` | owner, approvals, authorised users as list and as mapping, data hashes; used proof nonces; enclave keys | approve, authorise, revoke, transfer, clone, mint; verify a batch of proofs | swap-and-pop; partial batches; what a transfer leaves behind | list and mapping agree; a proof serves once; approvals end with a transfer |
| `storage-client/src/log-layer/archiver.ts` | tick buffer, uploaded roots | ingest, flush on a timer, upload, destroy | overlapping flushes, shared temporary files, failed uploads | every tick is in one batch and a root holds its batch; hanging uploads do not hold up the buffer |
| `storage-client/src/connectors/*.ts` | socket, reconnect timers, pool listeners | connect, disconnect, reconnect; listen, stop | close after a deliberate disconnect; a pool listened to twice | no socket or reconnection is lost or doubled |
| `storage-client/src/model-storage/index.ts` | none of its own; blobs, records, temporary files | encrypt, upload, record; look up, download, decrypt | failures between blob and record; downloads that share a file | records are complete; a download returns what was recorded |
| `dashboard/src/hooks/useWallet.ts` | account, chain, flags | connect, disconnect, wallet events | overlapping connects | the account shown is the wallet's |
| `dashboard/src/app/page.tsx`, `components/*Panel.tsx` | figures of the vault, active tab, forms | refresh, edit, approve, deposit, withdraw | overlapping refreshes; edits while a transaction is under way | the figures catch up; one transaction at a time; money goes where the form said |
| `agent/src/crypto/`, models and training, dashboard tables and API routes, `contracts/script/Deploy.s.sol` | - | encryption, numerical code, rendering, one-off script | - | not modelled, see 7 |

How they interact: the connectors feed the archiver; the data server writes market
data to a key-value stream; the runner polls it, the agent infers and signs; the
runner, or the settlement service fed with JSON lines, sends `executeTrade`; the
vault checks the trade and calls the router, which pulls from the vault and calls a
DEX; the monitor and the dashboard follow the vault's events, and the dashboard's
panels call `deposit` and `withdraw`.  The agent NFT and its verifiers own the
model, whose encrypted weights the model storage keeps; they do not touch the vault.

## 2. Modules

| Module | What it is |
|---|---|
| `TradeLedger` | abstract specification: trades settle in one step, once per signer and nonce, within the limits in force, and capital moves only as signed |
| `DEXRouter` | the router's configuration and `swap`, one step per external call |
| `FlageVault` | the vault composed with the router into the transactions of one chain; the properties |
| `MCFlageVault` | the values of the constants for TLC |
| `FlageVaultProofs` | inductive invariant, types, router and spending theorems |
| `FlageVaultRefinement` | nonce theorem, refinement of `TradeLedger`, lemmas on sums, volume and capital |
| `TradeOutcomes` | abstract specification: a trade is dropped or accepted, an accepted one gets at most one outcome, and what each outcome says about settlement |
| `VaultClient` | validation in three awaited reads and submission with retries (`vault-client.ts`), and the chain as the client meets it |
| `TradeQueue` | the queue (`queue.ts`) and the process that feeds and ends it (`service.ts`), over `VaultClient`; the properties |
| `MCTradeQueue` | the values of the constants for TLC |
| `TradeQueueProofs` | types, attempts of the client, use of the slots, statistics |
| `TradeQueueOutcomes` | final reverts, order of settlement with one slot, refinement of `TradeOutcomes` |
| `MarketStream` | `server.ts`: the stream, written in whole batches |
| `VaultLog` | the vault's settled trades, as those see them who follow them |
| `InferenceRunner` | `runner.py` with the state of `agent.py`, and the submitter's account on chain |
| `VaultMonitor` | `monitor.ts` and the life of the service around it |
| `AgentLoop` | composes the three above; the properties |
| `AgentLoopProofs` | types, pending transaction, signing order, nonces, price and book, the history's gap |
| `TempFiles` | temporary files named after the millisecond |
| `TickArchiver`, `MarketFeeds`, `ModelStorage` | `archiver.ts`; `binance.ts` and `dex.ts`; `model-storage/index.ts` |
| `StorageClient` | composes the three above; the properties |
| `StorageClientProofs` | types, feeds, ticks, records and downloads |
| `UseWallet` | `useWallet.ts` with the buttons of `WalletConnect.tsx`, and the wallet |
| `FundsPanels` | the panels and tabs, over `UseWallet` |
| `VaultFigures` | `refresh` of `page.tsx`, with the reads of `lib/vault.ts` |
| `Dashboard` | composes wallet and panels with the figures |
| `DashboardProofs` | types, the account shown, spinners, transactions, destinations |
| `TEEAttestationVerifier`, `FlageVerifier`, `FlageAgentNFT` | the contracts of the same names, each over the one before |
| `FlageAgentNFTProofs` | types, users, proofs and owners |
| `MCAgentLoop`, `MCStorageClient`, `MCDashboard`, `MCFlageAgentNFT` | the values of the constants for TLC |

### State and actions

`FlageVault` and `DEXRouter` name state and operations as the contracts do.

- A transaction that passes its checks is split only where it calls out:
  `ExecuteTrade` (steps 1 to 7 of `executeTrade`, the allowance, the call of
  `swap`), then per DEX `SkipDEX`, `PullFromVault`, `DEXFills` or `DEXReverts`,
  and at the end `CompleteTrade` or `RevertTrade`.  `trade.saved` is what a revert
  restores.  All other calls are one action each and wait for `Idle`: EVM
  transactions do not overlap, and `executeTrade` is `nonReentrant`.
- A call that fails its checks reverts and changes nothing: no action.
- `tee` is the registration of a signer as the checks tell it apart: never
  registered, active, inactive.  A signature is a choice of signer; a forged one
  recovers to an address that is not registered, which is a signer in state
  "none".  Report hashes and `registeredAt` are never read.
- `receipts` are the `TradeExecuted` and `SwapExecuted` events of the settled
  trades, `netFunding` the sums of `Deposited` less `Withdrawn`; `sentToRouter` and
  `sentToVault` are those `Withdrawn` whose `to` is the router or the vault itself,
  which `withdraw` allows.  The contracts emit them and never read them; they say in
  the properties what has happened.
- `vaultIsSet` is whether the router's `vault` is this vault (`setVault`);
  until then `swap` reverts, so `ExecuteTrade` has it as a guard.
- The clock is `now`, in ticks; `DayLength` ticks are a day.

In `TradeQueue` and `VaultClient`:

- JavaScript runs one callback at a time.  A job is an entry of the queue; `pc[j]`
  is the await it stands at.  Each action is one callback with the synchronous code
  it leads to: the callback that ends a job sets the outcome, the statistics and
  `running`, and drains the queue (`Finish`), as `_process` and the `finally` of
  `_drain` do.  Between the `emit` and the `finally` lie only microtasks, which no
  other callback interrupts.
- `KeyOf` gives a job its signer and nonce; two jobs with one key are the same
  signed trade offered twice.
- The submitter's transactions are mined in the order of their account nonces
  (`mempool`), because ethers takes the next account nonce for each.  Each settles
  or reverts; a revert is always possible, since the daily cap and the DEXs are
  not in this model.  `receipts` is what `tx.wait` will return.
- A request that fails may have reached the chain or not (`SendFails`); `tx.wait`
  can fail with the transaction pending or mined (`Disconnect`).
- `Interfere` is what happens behind the service's back: the owner turns a signer
  or a pair off and on, a deadline passes, or the same signed trade is submitted by
  `runner.py`.  The local clock and the chain's are the same.
- A rejected read of `validateTrade` is awaited outside the `try`: nobody catches
  it, and Node ends the process (`ReadRejected`, from Node 15 on).
- `stop` and `resume` are part of the queue's interface; `service.ts` calls neither.
- `accepted` and `trades` are histories; the code does not read them.

In `AgentLoop`:

- The runner is one coroutine; `pc` says at which await it stands.  A tick reads
  book and price of each pair, each with a request that may fail (`Answers`).
- A value of the stream is named by the update that wrote it.  A batch is taken by
  the stream as a whole, in any order of the calls, or lost.
- Inference is a choice of how many pairs with a price give a trade.  `_decode` takes
  a nonce for each (`TakeNonce`, `NonceAfter`).  `_risk_filter` then drops any of them
  (`Passed`): `_positions` stays empty, but the network puts out logits, and one above 1
  taken as confidence makes `_calc_size` exceed the limit.  An exception in between
  signs nothing and leaves the nonces taken, as if all were dropped.
- `submit_trade` is three steps: the account's transaction count, the sending, the
  receipt.  Each may fail; the sending may reach the chain and its answer be lost;
  the receipt may be given up after 30 s.  All failures are logged by `_tick`, which
  goes on with the next trade (`NextTrade`).
- The account holds one transaction per account nonce (`slot`): a second one
  replaces the first or is refused.  What is mined settles, if the vault has not
  seen its nonce, or reverts.
- `Restart` is a crash at any await and a new start: the nonce counter is 0 again
  and the same key signs.
- The monitor queries, then subscribes; its subscription takes effect some time
  after `vault.on`, which is not awaited.

In `StorageClient`:

- A flush, an upload or a download is a record in a set, `step` the await it stands
  at; any may fail at any step and any two may overlap.
- A temporary file is named by `Date.now()`; two calls of one millisecond write,
  open and unlink the same file.  `files` maps a path to its content.  `writeFile`
  truncates before it writes, so that while two calls have one file, either may find
  or leave parts of both in it (`Torn`).
- `roots` keeps beside what was uploaded (`content`) the batch and the millisecond of
  the flush; a blob or record keeps the call and the millisecond it is from.
- Sockets of the Binance connector are counted; the one `ws` refers to is told
  apart, since `disconnect` closes that one.  Every close sets a timer.
- An encrypted blob is named by the call that made it and opens with its key only.

In `Dashboard`:

- `connects` are the calls of `connect` under way.  `late` marks those begun before
  one that has ended, or before a disconnect: a history, which the code does not keep.
- A form keeps which button its amount enables (`gate`), its status and its
  destination.  What a load of balances makes of the gate is arbitrary.
- A handler is a record in a set, as above; `disturbed` (a history) says that the
  form was touched since it began.  When a tab is left, its handlers change nothing
  any more.
- A refresh reads statistics and trades at once, sets both, then reads the
  attestation.  `rpcUp` is whether the node answers.

In `FlageAgentNFT`, each action is a transaction that does not revert.  A proof is
what the verifier decides by: its oracle type, its nonce, the enclave key it names
and the address recovered from its signature.  `served` and `approver` are
histories.

External code, modelled from how the contracts use it: an ERC20 `transferFrom`
needs balance and allowance and consumes both; a DEX takes all of `amountIn` and
pays any amount not below the minimum, or reverts.  Which tokens a Curve pool
takes and pays is a choice of its configuration, the swap's own or not.
Any payload may be signed by any signer and submitted at any time, any number of
times.

## 3. Runs

| Run | Instance | Shows |
|---|---|---|
| `vault_accounts` | 2 signers (symmetric), 2 nonces, 2 days of one tick, 1 DEX, position limit 1 with daily cap 2 or limit 0 with cap 1 | `TypeOK`, `NonceSettlesOnce`, `VolumeMatchesTrades`, `ImplementsLedger` |
| `vault_routing` | 1 signer, 2 nonces, lists of up to 2 out of 4 DEXs (UniV3, Curve, Curve with swapped coins, custom), amounts and outputs 0 and 1, price limit 0, balances up to 2 by deposits, one unit withdrawn to the router or the vault itself | `RouterLeftClean`, `SpendsAtMostSignedAmount`, `CapitalMatchesEvents`, `ImplementsLedger` |
| `queue_pool` | 3 jobs, two of them with the same trade; 2 slots, 1 attempt, 1 interference | `TypeOK`, `SlotsInUse`, `StatsAddUp`, `ImplementsPromise` |
| `queue_serial` | 3 jobs, two of them with the same trade; 1 slot as in `service.ts`, 2 attempts each; fairness | `FirstRevertIsFinal`, `SettlesInOrder`, `ImplementsPromise`, `EveryTradeIsReported` |
| `queue_failed_settled`, `queue_done_undrained` | 2 jobs, 1 slot, 2 attempts | violations of `FailedMeansNotSettled` and `DoneMeansDrained` |
| `agent_loop` | 2 pairs, 1 snapshot written meanwhile, 3 signed trades, nonces up to 2, 2 starts of the process | `PriceNotOlderThanBook`, `OnePending`, `SettlesInSigningOrder`, `OnlyRestartsReuseNonces`, `MissesOnlyStartUp`, `FollowsTheVault` |
| `storage_client` | a Binance connector and a pool with 4 calls and ticks, or a recorded model and 3 calls with 2 keys; 2 milliseconds | `FeedsConserved`, `TicksAccounted`, `RecordsComplete`, `DownloadsTheRecord`, `BufferIsFlushed` |
| `dashboard` | 2 accounts, 2 networks, 2 connects, 2 panels, 2 transactions, 4 of these together; or 2 refreshes at a time, a trade, 2 changes of the node | `ShownIsTheWallets`, `BusyMeansInFlight`, `OneTransactionAtATime`, `DestinationKnown`, `PageConverges` |
| `agent_nft` | 3 accounts (two symmetric), 2 agents with 2 entries, 5 proofs, batches of 2, 5 transactions | `UsersListed`, `ProofsServeOnce`, `OwnerInCharge` |
| `vault_buy_price` | as `vault_routing` with amounts 1 and 2 and price limit 1 | violation of `BuyPriceWithinLimit` |
| `vault_fall_through` | as `vault_routing` with price limits 0 and 1 | violation of `NextDEXCanBeTried` |

Bounds, and why they suffice to meet the interesting cases.  Two nonces and two
signers: replay, reuse after another trade, and interference between signers;
the code relates at most two trades at a time.  Two days: a cap that fills, and
one that starts afresh.  Two DEXs per list (`MaxConfigs`): every pair of outcomes
of a first and a second DEX.  `MaxBalance` 2 with amounts of 1: the vault can
afford to be charged twice.  `MaxStray` 1: the router has a token of its own that a
trade could spend or add to.  A DEX may pay anything from the price limit up or
revert, so that with limit 0 it does what it may with any.  `MaxTime` ends the clock.  Nonces run out and the
clock stops, but the owner's calls never do, so no state is a deadlock and the
vault's runs check for it.

For the queue: three jobs with two slots leave one waiting, with one slot two, so
that their order shows.  Two attempts are the least with a retry; a third differs
from the second in nothing the code looks at.  `MaxEvents` is 1 where a job has
one attempt and 0 where it has two: an interference between attempts makes the
second revert, or settles its trade, and both happen there without it, the first
because any transaction may revert, the second because the same trade is offered
twice.  The process ends, so these runs do not check for deadlock; that no job
hangs is what `EveryTradeIsReported` says.

For the agent: three trades are a tick of two and one of another life, or one that
hangs, one that replaces it and one after; a second start is the first that can
repeat a nonce.  `MaxNonce` 2 bounds what a life decodes, so that a tick of two may lose
the first, the second or both, and a tick may follow one that lost its trade.  Both pairs have a price from before the agent started, so that
only the snapshot distinguishes what is read.

`StorageClient` and `Dashboard` each hold two halves that share no variable (`half`):
their product would multiply the states and show nothing, so that a behaviour moves
one half only.  Four calls and ticks are enough for two connects, a disconnect and a
tick, or for a pool listened to twice and stopped; three calls for two overlapping
uploads and a download; two milliseconds for files that meet and files that do not.
For the panels, what counts is a connect, a panel and two transactions; `MaxWork` 4
allows any such mix.  Two refreshes are the least that overlap.  `MaxCalls` 5 in the
NFT's run reaches three users of an agent with one revoked (mint, three grants, a
revocation) and transfers by those approved; its theorems hold without it.  These
three runs stop at their bounds and do not check for deadlock.

"Submits to the vault in order, with bounded concurrency" (`queue.ts:19`) holds
for one slot.  With two, trades that overlap settle in either order, so
`SettlesInOrder` is checked with one, which is what the service uses.

What the violated properties say is in `PROJECT.json` under "findings", with the
comment of the source each quotes:

1. After one DEX has failed, no other can be tried: the vault allows the router
   exactly the amount, the first pull consumes that, and the catch branch returns
   tokens but not allowance.  The router's unit test approves without limit.
2. `priceLimit` is a minimum amount out.  For a BUY, whose `amount` is of the
   quote token, that is not the "max buy price" the struct promises.
3. The service reports a trade as failed that it has itself settled: `tx.wait`
   loses its answer, the first transaction settles, the retry reverts on the used
   nonce.  `FirstRevertIsFinal` is the part of "reverts won't change" that holds.
4. "Draining queue" exits after 5 s whatever is unfinished: in the shortest case one
   trade has been accepted and taken up, and is in flight when the process exits.

## 4. Fairness

The vault models are checked for safety only.  Nobody is obliged to submit a
trade and a transaction has no scheduler to be fair to.

`TradeQueue` has weak fairness of `Answer(j)` for each job and of `Mine`.  An event
loop runs every callback that is ready, requests end with an answer or an error,
and timers fire; `tx.wait` has no timeout and returns once the transaction is
mined, which a live chain does.  Nothing is assumed about failures: `Disconnect`
and `ReadRejected` may happen or not, and neither input nor exit is forced.
`EveryTradeIsReported` assumes in its own statement that a stopped queue is resumed
in the end, and allows that the process has ended.

`AgentLoop`: weak fairness of the monitor's `Deliver`.  ethers polls for logs as long
as the process lives; `FollowsTheVault` excepts its end.  Nothing is assumed of the
agent or the chain.

`StorageClient`: weak fairness of `TimedFlush`, the `setInterval` of the archiver.
Uploads may hang for ever: `BufferIsFlushed` does not need them to end.

`Dashboard`: weak fairness of `Refresh`, the `setInterval` of the page, and of each
refresh's `Answer`, since requests of ethers have a timeout.  That the node stays up
in the end is assumed in `PageConverges` itself.

## 5. Proofs

### The vault

These theorems are about `Spec` of `FlageVault` for all values of the constants
under `RouterAssumption` and `VaultAssumption`: amounts and outputs are naturals,
the menus of configurations are well-typed, a day has at least one tick, and the
zero address is no token.  TLC evaluates both assumptions on every run.

The properties are not inductive.  That the router ends up clean, for instance,
depends on what has been pulled while a DEX runs.  `IInv` (in `FlageVaultProofs`)
says what the transaction in progress has changed since its snapshot:

- *at rest*: no swap, nothing with the router but what was withdrawn to it, all
  allowances zero;
- *in a trade*: the checks of `executeTrade` hold of the snapshot and its writes
  have been made (`Checked`, `Written`);
- *in the loop*: nobody has been paid (`Fresh`: the vault is whole, the allowance
  is the signed amount), or the allowance is used up (`Spent`);
- *in a DEX*: the signed amount of the signed token is with the router, allowed
  to that DEX only, and the vault's allowance is zero.  A Curve pool whose coin is
  not the signed token gets here only with amount zero;
- *returned*: clean again, and the vault holds the output.

`Invariance` proves it inductive, one lemma per action.  From it follow
`TypeCorrect`, `RouterIsLeftClean` and `SpendingIsBounded`.  `FlageVaultRefinement`
adds `NonceInv` (the marks at rest, or those of the snapshot, are the nonces of
the receipts) for `NoncesSettleOnce`, and proves `LedgerImplemented`: in the
abstract, a transaction in progress has not happened (`AtRest` takes the
snapshot's values), `CompleteTrade` is `Settle`, the owner's calls are the
abstract owner's, and every step inside a transaction and every revert is a
stutter.

`VolumeIsWhatSettled` and `CapitalIsAccountedFor` are about sums over the receipts,
for which `VolumeInv` and `CapitalInv` say the same of the abstract volume and
capital, so that they hold in the middle of a transaction too.  Besides, `CapitalInv`
needs `PaidOut`: the DEX that has paid paid the token the receipt will name.  The
hypothesis `CurveOutputsWired` is part of the property; wiring that is wrong stays
wrong (`WiredBefore`), because the router's owner can only append and pause.

The library defines a sum by a function that takes one chosen element after the
other.  Its induction theorems cannot be used here (they take an operator), but
induction over finite sets can be done by hand: if a claim fails for some finite
set, it fails for one with the fewest elements (`SmallestSet`, from the
well-foundedness of the naturals), and the claim for the set without one element
gives a contradiction.  `SumsExist` proves in this way that the function exists,
`SumAdd` that another element adds its value in whatever order the terms are taken,
and `SumSame` that a sum depends on the values over the set only.

### The settlement service

These are about `Spec` of `TradeQueue`, for any jobs, keys, retries, slots and
interferences under `ClientAssumption` and `QueueAssumption` (at least one attempt
and one slot) and `NobodyAssumption` (the value for "settled by no job" is no job).

`ClientInv` is inductive: the client's types; a job that sends or waits is at an
attempt between 1 and `MaxRetries`, one that sleeps has another left
(`AttemptInv`); the vault's marks are the keys of the settled
trades, no two of which are the same (`MarkInv`).

`QueueInv` is inductive beside it: the queue lists each waiting job once and no
other (`Waits`); `running` counts the jobs in flight as long as the process lives;
unless stopped, the queue is empty or the slots are full; the statistics count the
jobs of each outcome.  Its core is `DrainFills`: if all this but the last holds of
the arguments of `_drain`, it holds of the result, with the slots filled.  The
proof counts the jobs moved, with the library's theorems on finite sets.  From it
follow `TypeCorrect`, `SlotsAreUsed` and `StatisticsAddUp`.

`TradeQueueOutcomes` builds on both.

- `OutcomeInv` relates a job's place and attempt to its transactions: before the
  first sending it has none; at the first attempt one at most, and none once a
  receipt or a revert has been seen; a job reported as submitted has settled.
  `FirstRevertsAreFinal` follows.  From the second attempt on this is false, which
  is the violation `FailedMeansNotSettled` shows.
- `OrderInv`, for one slot: the queue is the end of the list of accepted jobs, the
  job in flight is the one before it, and transactions wait and settle in the order
  in which their jobs were started (`ChainOrderInv`).  `OneSlotSettlesInOrder` has
  `Concurrency = 1` as its hypothesis, the value `service.ts` uses; with two slots
  the property is false.
- `PromiseKept` is the refinement of `TradeOutcomes`: a job's fate is read off its
  place (`FateOfPlace`), the trade of a key off the vault's events (`SettlerTold`).
  An enqueue takes or drops, a callback that ends a job reports, a mined
  transaction settles; all other steps are stutters.  That a report is truthful
  is `OutcomeInv`.

### The agent NFT

These are about `Spec` of `FlageAgentNFT`, for any accounts, proofs, batches and any
number of calls.  `AgentInv` is inductive: the types, the three properties, and
`Unowned` (an agent nobody owns is approved for nobody), without which a mint could
give an agent to somebody with an approval in place.  The core of `UsersStayListed`
is a lemma about `Without`: if a list names each of its users once, giving up the
first place of one leaves a list that names the others once.  That of
`NoProofServesTwice` is that a batch accepted uses each nonce at most once, because
the loop marks it before it looks at the next proof.

### The agent and the monitor

These are about `Spec` of `AgentLoop`, for any pairs, snapshots, trades and starts.
`LoopInv` is inductive, in two halves that meet in the vault's log.

`RunnerInv` is the runner's: within a life nonces rise (`NoncesRise`), with gaps
where the filter or an exception lost a trade after its nonce was taken; what a tick
has still to do are the last trades signed, in order (`InOrder`); and the core,
`PendingLast`: at most one transaction is pending, it has the account's next nonce,
and its trade is later than every trade mined.  The last part is why trades settle
in the order signed although a receipt may be given up while the transaction is
pending: the next trade reads the same account nonce and can only take its place.
`OnePendingAlways`, `SigningOrderAlways` and `NonceReuseNeedsRestart` follow.

For `LoopTypes`, `Bounds` says why the counters stay in range: the account's nonce
counts what was mined, which with what is pending is at most what was sent.
`StreamInv` says that a key of the stream holds the last update applied that wrote
it, `ReadInv` that the runner's book and price of a pair are values the stream has
had, the book's applied no later than the price's.  `PriceFollowsBook` follows from
its hypothesis that no pair is listed twice: with a pair listed twice, the second
pass reads a new book while the price of the first is still there, and a failing
second read leaves the two together.  The instance of the run lists each pair once,
as `TARGET_PAIRS` normally does; `config.py` does not check that.

`MonitorInv` is the monitor's: the history is what was queried and what has been
delivered since, and a subscription, once made, starts at or after the end of
what was queried.  `HistoryHasOneGap` follows.

### The storage client

These are about `Spec` of `StorageClient`, for any pools, models, keys, calls and
milliseconds.  `StorageInv` joins three invariants over the calls made so far.

- `FeedsInv` bounds what is listened to; `FeedsConserved` is inductive beside it.
- `TicksInv`: the batches in flight, uploaded or lost are distinct, the buffer is
  none of them unless it is empty, and each tick is in exactly one of these places; a
  file of ticks holds a batch flushed in the millisecond of its name, or parts of two
  of them (`LeftBy`), so that a flush alone in its millisecond reads its own (`ReadFor`).
- `ModelsInv`: a file named after a model holds what uploads of it begun in the
  millisecond of its name encrypted, one named after a download what a download that
  has this file asked for (`FileOK`); the names of the archiver, the uploads and the
  downloads never meet.  Without it nothing could be said of two calls that write,
  open and unlink one file.

The three properties say what holds where files are shared, and no more.
`TicksAccounted`: two flushes of one millisecond may upload one batch twice and lose
the other, or upload parts of both.  `RecordsComplete`: the weights on record may be
those of another upload of the same model and millisecond, beside the normalisation
of the upload that wrote the record.  `DownloadsTheRecord`: a download may return what
another one of the same millisecond asked for, if its key opens it.

### The dashboard

These are about `Spec` of `Dashboard` (without fairness), for any accounts,
networks, connects, panels, transactions and refreshes.  `DashInv` is inductive.

- `WalletInv`: a connect that is not late has read the wallet's account as it is,
  or a later connect is under way (`ReadsAreFresh`), since each change of the wallet
  begins one.  So the last one to end wrote the truth: `WalletIsShown`.
- `FormInv`: the destination is empty, typed or an account shown since the panel
  was mounted, and not empty while an account is shown.
- `HandlersInv`: a handler that nothing has disturbed holds the buttons disabled
  (`Held`: the status is pending, or approving with a gate that the send button does
  not pass).  A transaction that begins therefore finds only disturbed ones.

`DashboardTypes`, `SpinnersEnd`, `ButtonsHoldOneTransaction` and
`WithdrawalsGoWhereShown` follow.

### Only model-checked

Every safety property of the passing runs is proved; liveness under fairness is out of
the prover's reach: `EveryTradeIsReported`, `FollowsTheVault`, `BufferIsFlushed`, `PageConverges`.  The refinement of
`TradeOutcomes` is proved for its safety part, which is all that `Promise!Spec` says.

## 6. Plan

Done: the vault, the settlement service with its monitor, the agent, the NFT, the
storage client and the dashboard are modelled, checked and proved about; both
refinements are proved.  What is left: the safety half of the liveness properties
(what must hold for the fair step to be possible), and properties for the hazards
that `PROJECT.json` lists without one.

## 7. Not modelled

- ECDSA, hashing and encryption: a signature is a choice of signer, a blob opens
  with its key.
- `flashArb` and `executeOperation` of the router, with `setFlashLoanProvider`.
  `flashArb` is for the account that `setVault` names; the vault has no function that
  calls it, so it can be called only while another account is named, and
  `executeOperation` accepts only loans the router has asked for.  What is shown of
  the router's balances is shown without arbitrage.  `setVault` itself is modelled,
  as to whether it names this vault; another account's calls of `swap` are not.
  `setOwner` of the router: who the owner is does not matter.
- Tokens sent to the vault or the router otherwise than by `deposit` and `withdraw`
  (which may name either of the two as the recipient), tokens with fees
  or callbacks, DEXs that take only part of the input.
- `realizedPnL`, declared and never written, and native coin.
- Word width: `uint256` additions revert on overflow in Solidity 0.8; a checked
  addition that reverts is no step.
- `submitBatch`, which nothing calls; parsing and the check of the signature before
  `enqueue`; gas; read-only getters and listeners.
- What the model infers, the size of a trade, the parsing of market data, the
  computation of a pool's price.
- Which token a form is about, and the numbers of its balances: what a load reads
  may leave any button enabled, so that nothing is shown of the amounts.
- Tensors, data frames and training; charts, tables and the API routes, which keep
  no state; the deployment script.
