# Formal models of PANIK

PANIK watches lending positions, tells subscribers on Telegram when a position
crosses the threshold of their risk profile, and, for owners who have signed an
exit permit, closes the position on chain when it is in distress.  This
directory holds TLA+ models of its long-running core and of the services around
it, the TLC configurations that check them, and proofs that TLAPS checks.

| file | what it is |
| --- | --- |
| `Relayer.tla` | the exit relayer: passes, signer pool, attempt ledger, mempool, contract |
| `ExitOnce.tla`, `RelayerExits.tla` | what the relayer promises an owner, and the mapping under which it implements that |
| `WatchLoop.tla` | the scoring loop: debounce, log of transitions, restart |
| `AlertPolicy.tla` | `decideSend` and its settings, as operators |
| `AlertDispatch.tla` | the dispatcher and its delivery ledger (EXTENDS `AlertPolicy`) |
| `Watchlist.tla` | subscriptions and the derived registry, as database transactions |
| `PermitScope.tla` | the scope of a permit, as the backend and the contract judge it |
| `ExitPermits.tla` | permits in the table and on the chain: submit, list, revoke, reconcile, sweep |
| `Escrow.tla` | the escrow contract |
| `Executor.tla` | an exit transaction: legs, caps and floors, sale, sweep (EXTENDS `PermitScope`) |
| `Deleverager.tla` | a deleverage transaction: loan, repayment, sale, the lender's payment |
| `Simulation.tla` | arming and clearing a market scenario, and the processes that show it |
| `RateLimit.tla` | the sliding-window limiter with its bounded map |
| `Monitor.tla`, `ScoringBlind.tla` | heartbeats, checkers and the ledger of pages; the run of blind ticks |
| `TelegramLinks.tla` | which chat hears about which wallet |
| `Membership.tla` | codes, grants, trials |
| `SignIn.tla` | nonces, proofs, links and sessions |
| `Services.tla` | the services from `PermitScope` to `SignIn` (without `Monitor`) side by side, their properties, and what is assumed of their constants |
| `RelayerProofs.tla`, `WatchLoopProofs.tla`, `AlertDispatchProofs.tla`, `WatchlistProofs.tla` | theorems about the module they are named for |
| `ExitPermitsProofs.tla`, `ServiceProofs.tla`, `ContractProofs.tla` | theorems about `Services`: permits and their scope; sign-in, chats, blind ticks, trials, the limiter, the simulation; escrow, deleverager, executor |
| `ServiceTypes.tla` | the types of `Services`, from the invariants of the three |
| `MC*.tla`, `*.cfg` | small instances for TLC |
| `PROJECT.json` | components, runs, mutants, map to the source, findings, hazards, theorems |

## 1. The system

One **worker** process (`scripts/watch-worker.ts`) drives four loops with
`setInterval`: the watch loop (60 s), the dispatcher, the relayer and the
monitor.  The timer does not ask whether the previous pass has ended, so **passes
of one loop overlap** whenever one takes longer than its period.  An **API**
(`scripts/api-server.ts`, `api/`) serves the browser.  They meet in one
PostgreSQL database, by direct connections and by PostgREST requests.

    browser --> API --> watch_subscriptions --(sync)--> watched_wallets
                 |                                           | reload
                 |                                           v
                 |      score reads ---> watch loop ---> watch_transitions, score_snapshots
                 |                                           |
                 +--> settings, telegram_links --> dispatcher --> watch_deliveries --> Telegram
                 +--> exit_delegations ---------> relayer ----> relayer_attempts --> chain

| component | state it keeps | operations | correct when |
| --- | --- | --- | --- |
| watch loop (`packages/scoring/src/watch/loop.ts`) | last committed status and candidate per (wallet, protocol, profile), in memory | `tick`, `seed`, `watch`, `unwatch`, insert of a transition | a change is committed only after `confirmTicks` observations; the log is a chain; a restart neither repeats nor forgets; a settled score is logged |
| alert policy (`alertPolicy.ts`, `alertSettings.ts`) | none | `decideSend` | nothing critical is withheld or delayed by a preference |
| dispatcher (`server/watchDispatch.ts`) | `watch_deliveries` | drain, decide, send, stamp, digest | the ledger tells the truth, sends are bounded, an alarm gets its all-clear, same-severity alerts are throttled |
| watchlist (`server/watchlist.ts`, migration `20260814000004`) | `watch_subscriptions`, `watched_wallets` | batch of add/update/remove, `register_watched_wallet` | the cap per owner; the registry says what the subscriptions say |
| exit relayer (`server/exitRelayer.ts`, `relayerAttemptStore.ts`, `relayerSigner.ts`, `relayerPolicy.ts`, `relayerChain.ts`) | `relayer_attempts`; busy signers, nonces, submissions of the hour, in memory | pass, claim, lease, broadcast, wait, replace, settle | one exit per permit; exclusive claims and leases; caps exceeded by no more than the overlap; no nonce taken twice; every claim resolved |
| exit delegations (`server/exitDelegations.ts`, ...) | `exit_delegations` | grant, revoke, reconcile with the chain | only a live permit is offered to the relayer |
| contracts (`PanikExecutor`, `PanikDeleverager`, `LockChecker`, `PanikEscrow`, adapters) | nonce bitmap, epochs, escrow | `atomicExitFor`, revocation, deleverage, escrow | a permit is used once and within its bounds; funds are conserved |
| operator monitoring (`monitorAlerts.ts`, `workerHeartbeat.ts`, `scoringBlind.ts`, `coverageSweep.ts`, `rpcHealth.ts`, ...) | heartbeats, repeat ledger | beat, observe, claim, page | a dead or blind loop pages; a page is not repeated within its window |
| sign-in, sessions, accounts | nonces, sessions | issue, consume, rotate | a nonce is used once |
| campaigns and trials | grants, counts | redeem | no more redemptions than the maximum, one grant per address |
| market simulation | `market_simulations` | arm, clear, refresh | at most one armed scenario (a unique index sees to it); a cleared scenario stays away |
| rate limits, caches | maps in memory | hit, sweep, get | bounded maps, no early refusal |
| telegram linking | `telegram_links` | link, block | one chat per wallet and one wallet per chat |
| scoring engine, advisor | none | `computeScore` | a score for every readable position |
| browser application, landing page, admin console | UI state | | |

**Hard parts.**  Overlapping passes of a loop; state read before an await and
used after it (a cap, a prior alert, a counter, a count of subscriptions); writes
that are done in two requests; a timeout that races a transaction still in the
mempool; a crash with nonces and debounce counters in memory; inserts that
nobody awaits; rows that stay in a bounded batch.  `PROJECT.json` lists each at
its line under `hazards`, with the properties that cover it.

## 2. The models

The unit of a step is what the code does **between two awaits**: JavaScript runs
that without interruption, and everything else may run in between.  In the
database it is one statement.

### Relayer
`at[t]` is the await in which pass `t` is suspended; `permit`, `lease`, `nonce`,
`hash`, `seen`, `done` are the local variables of `runRelayerTick` and
`submitOnce`; `busy`, `next`, `cursor` are `RelayerSignerPool`; `hourly` is
`SubmissionRateWindow`; `status`, `attempts` are the row of `relayer_attempts`.
`CheckCaps`, `Simulate`, `Acquire`, `PinNonce`, `BalanceLow`, `Claim*`, `CountAttempt`, `Send`,
`Mined`, `Timeout`, `Replace`, `Unmined`, `Settle`, `Abort`, ... follow
`submitOnce` line by line, its early returns and its catch block included;
`Crash` drops what is in memory.  `tx`, `mined`, `dead`, `distress` are the
environment: a mempool with nonces and replacement, and the contract, which
executes a permit once and only while its owner is in distress (`Executable`).
`distress` is one flag per wallet: the triggers of an owner's permits, which may
differ, fire together here.
`Faults` says what may fail: `store` (the ledger refuses), `reply` (it writes
and the answer is lost), `send` (the broadcast reaches the mempool and the call
fails), `evict` (a node drops a transaction).

### WatchLoop
`committed` and `pending` are the two maps of `WatchService`, `inserts` the
inserts of `persistTransition` under way, `log` the table they reach, in any order
(a failing one is lost, `MaxLost`), `watched` the worker's copy of the registry.  `Apply` is the body of the loop after the score has been
read: all profiles of one wallet, in one stretch.  `Reboot` is a crash and the
boot with `seedLastStatus`.  A score is a level; `StatusOf` gives its status
under each profile, and profiles with different thresholds are the point.
`streak` is history: the run of observations since the boot.  So is `spoiled`: the
keys of which an insert has failed, or was overtaken by a later one, since the boot.
The properties of the log except those keys and no others: the code lets go of a
failed insert, and what it then promises of that key begins with the next boot.

### AlertPolicy and AlertDispatch
`DecideSend` is the decision of `alertPolicy.ts`, with quiet hours, digests,
mutes, the cooldown, the dust limit and the escalation.  In `AlertDispatch` a pass
drains (`Drain`), takes the oldest delivery and decides it from what the drain
read and from the prior alert read now (`Decide`), sends (`Send`), stamps
(`Stamp`, `CountFails`, `Block`), and at its end flushes the digests
(`TakeBucket`, `MarkDigest`).  `inbox` is what readers have received.

### Watchlist
A session (`txn[s]`) is one READ COMMITTED transaction of `applyWatchlistOps` or
`register_watched_wallet`: the advisory lock of the owner (`Lock`), operations
and cap (`Apply`, `Refuse`), and for each wallet touched the two statements of
`watchlist_sync_registry`, the count (`Count`), which sees committed rows and its
own changes, and the write (`Deactivate`, `Activate`), which waits for the row's
lock.  `Commit` publishes; `Abort` is a failed statement, a deadlock victim, a
lost connection.  `met` is history: the wallets on which another open transaction
overlapped.

### ExitOnce and RelayerExits
`ExitOnce` is what an owner is promised: a permit closes the position once, and
not after it was voided; a report names an exit that has happened.  A report may
be withdrawn, because the error path of a write whose answer was lost marks the
row failed.  `RelayerExits` maps the successful transactions of a permit to its
exits, the permits the contract refuses unused to the voided ones, and the row's
status to the report; `ImplementsExitOnce` is the refinement.

### PermitScope and ExitPermits
`PermitScope` has `validatePermitScope` of `server/exitPermit.ts` beside
`_validatePermitScope` and `_assertTriggerMet` of the contract, on the same record.
`ExitPermits` is one wallet's permits: the chain (`epoch`, `used`; the block number
is the clock, as `revokeAll` makes it the epoch), the table (`row`), and requests
that go through `submitDelegation` or `reconcile` await by await: `ListActive`,
`ReadEpoch`, `ReadNonce`, `SetStatus`.  The deadline is judged at `started`, epoch
and nonces when they are read.  The list, the relayer's `liveDelegationsFor`, the
revocation and the sweep are four callers of one function and are told apart only
by what they do with the result (`Reply`, `AttachEvidence`).

### Escrow
One action per function of `PanikEscrow.sol` that changes state, plus the clock and
transfers from outside.  Calls that revert leave no trace and are not steps.

### Executor and Deleverager
A behaviour is one transaction, and a guard that fails is a revert: there is no next
step, and `"done"` is not reached.  In `Executor`, `Begin` is the checks of the entry
points and of `_exit` with the plan of the Aave legs; `AaveRepay`, `AaveCheck`,
`AaveWithdraw` follow the order of `SequenceLib`; `ProcessLeg` is a Moonwell, Comet
or Morpho leg (`rest` has the places of those still to run); `Sweep` sends the owner
the USDC that came in.  `permit` is `None` when the owner calls.

A leg has a market, which owns a collateral, and an asset.  `_validateUniqueLegs`
compares protocols and assets (`UniqueLegs`); what a leg acts on is another matter,
and legs that differ for that check may share it.  On Compound the debt is the
comet's, whichever collateral a leg names: `Owes[m]` is the market that has the debt
of `m`.  On Morpho the market comes with the leg's data and the asset is not looked at:
several legs may name one market.  Protocols judge coverage over
`AccountOf(m)`, all of a comet for each of its legs.  A comet's leg on the zero address
(`NoAsset`) repays and skips its withdrawal, whatever it asks for (`Takes`).  So
`DoneAsSigned` says, of a debt that one leg repays, that it fell by the signed
fraction; of one that `n` legs repay, that it fell by no less than the fraction and by
at most `n` times it; of a side that no leg names, that it did not move.

  In `Deleverager` each callback is a step: the loan (`Borrow`, or
Morpho's own repayment), what is done with it at the protocol, the sale, the sweep,
and the lender's pull.  Prices are one, so amounts are values and a protocol asks
that the debt is covered by the collateral; a sale pays anything from its floor
to the full value.  Both contracts may hold tokens sent there by mistake: the
executor's stay where they are, the deleverager's go with its sweep to whoever calls it
next.

### Simulation
`expires`, `cleared` are the rows of `market_simulations`; `cached`, `fetchedAt`,
`inFlight` the cache of one process; `flight` its reads under way; `op` an
operator's request (clear, insert, show); `query` a positions request, which reads
the marker, then scores, then keeps the result in `posCache`.

### RateLimit
`hits` is the map, and `Hit`, `HitAfterSweep`, `HitAtCapacity` the ways through
`hit`; `Shifted` is the loop that drops the times outside the window from the front
of an entry, up to the first that is inside.  `allowed` is history: what was let
through, whatever the map forgot.

### Monitor and ScoringBlind
`Monitor`: each loop beats when a pass ends; the worker's monitor pass (`"worker"`)
and the API's watchdog (`"api"`) find silent loops (`Overdue`) and page through
`claim`, whose two requests are two steps, then the sinks.  Time is kept as ages
that stop growing when they no longer matter, so no run is cut off at a last
moment.  A checker has one dispatch under way, handles its alerts in the order
of the table of loops, and the severity is critical throughout (as it is for
silent loops).  `ScoringBlind` is `observe` with the counter that overlapping ticks
share.

### TelegramLinks
`hook[h]` is a `/start` on its way through the two requests of `upsertLink` and
the one of `consumeLinkCode`; `stamp[s]` is an answer of Telegram that the worker
is about to write on the row that the chat has by then.  Requests whose answer
nobody looks at may have been refused.

### Membership
`Redeem` is the database function, one step because it locks the card and the
address; `OpenTrial`, `CreateMembership`, `SlotMembership`, `RenewMembership` are
the requests that follow it, each of which may be the last (`Abandon`).
`FindTrial` to `CloseGrant` is the operator ending a trial, four requests;
`ClearUse`, `ExpireCampaign`, `DropOldGrants` the other writers.  `minted`,
`usesCleared`, `retired`, `bought` are history.

### SignIn
`Verify` and `Consume` are `verifyWalletOwnership` around its last await; `Act` is
what the proof was for; `Exchange`, `BurnLink`, `ReadCookie`, `Answer` are the
exchange of an alert's link, whose burn and read go out together.  `honoured` is
history: how often a nonce or link has bought something.

### Services
The services of the sections from `PermitScope` (a state that is judged) to `SignIn`,
without `Monitor`, share no state, so `Services` runs one of them per behaviour,
chosen at the start (`focus`); TLC explores their union, and every invariant is about the
service in focus.  The theorems about the services are theorems of this module's `Spec`;
`MCServices` only gives its constants small values.

## 3. Runs

| run | question | result |
| --- | --- | --- |
| `Relayer_live` | overlapping passes, one permit, two signers: claims, leases, attempts, and is every claim resolved when nothing dies? | hold |
| `Relayer_faults` | all faults, a crash: does the relayer implement `ExitOnce`? | yes |
| `Relayer_pair` | two permits of one owner, a crash: is a pending exit ever knocked out by another permit's, an abandoned row fired again, or the hourly cap exceeded by more than the passes that overlap? | no |
| `Relayer_LeaseLeak` | is a signer busy only while a submission holds it? | violated |
| `WatchLoop` | late, lost and reordered inserts, overlapping passes, a crash: is every commit debounced, the log a chain, does a restart resume, is a settled score logged? | yes, but for keys with an insert of their own lost or overtaken |
| `Dispatch_quota` | one pass, nothing failing, default settings, two positions: throttling, all-clears | hold |
| `Dispatch_overlap` | overlapping passes, a crash, refusals, digests, a failing query: bounded sends, no critical alert in a digest, truthful ledger | hold |
| `Dispatch_live` | is a critical alert decided in the end, however settings change, sends fail and chats block, and are outcomes final? | yes |
| `Watchlist_pair` | two owners, two requests at once, both doors: row locks, the cap, rows left right | hold |
| `Services` | the services beside the loops, one per behaviour: see the table below | hold |
| `Executor_ReduceIsExact` | does a permit to reduce repay exactly the signed fraction of each debt? | violated |
| `Pager` | is a loop that completes no pass any more paged for, again and again? | yes |

| property of `Services` | what could go wrong |
| --- | --- |
| `ScopeMirrors` | the backend stores a permit that the contract can never honour, or refuses one it would |
| `DeadRowsStayDead` | overlapping reconciles write a status for a permit that lives |
| `RevocationSeen` | a permit revoked before a request began is reported as live by it |
| `RefundsFunded` | ship and refund both pay, or a refund is not covered |
| `NoComeback` | a stale read brings a cleared scenario back |
| `BudgetHolds`, `CapacityRecovers` | a flood resets a client's budget; a full map stays full too long |
| `StopSticks` | an answer on its way switches alerts on after /stop |
| `BlindIsReal` | the page for a blind scorer while every tick scores |
| `SlotsCounted`, `OneTrialPerGrant` | a retried redemption takes a second slot; a code is worth more than its trial |
| `TransactionsSettle` | an exit does more or less than was signed, keeps or gives away money; a deleverage leaves its lender unpaid or the position worse covered |
| `OneProofOneUse` | one nonce or link buys two things, or more than it was signed for |

The two violated runs are the findings of `PROJECT.json`, each with the sentence of the
repository that it refutes.  `Relayer_LeaseLeak`: two early returns of `submitOnce` keep
the signer they have leased; the trace ends with one signer that is busy and that nobody
holds.  `Executor_ReduceIsExact`: a submitter splits a permit to reduce by half into two
legs on one debt (one comet under two assets, or one Morpho market under two), which
differ for `_validateUniqueLegs`; each repays half of what the other left, and three
quarters of the debt are repaid where `ExitTypes.sol:41` has "exactly
`maxRepayFractionBps` of the live debt".

**Behaviour a reader of the code should know.**  The models have the following, by
following the code; no property above excludes it, and each was seen in a trace of
TLC or follows from one step.

* Of several permits the relayer takes the newest whose trigger fired; while that one
  cannot be claimed, those behind it wait (`exitRelayer.ts:181`).
* An attempt is made and not counted when the second write of a claim fails
  (`relayerAttemptStore.ts:195`).
* A failed `finish` after a receipt timeout (`exitRelayer.ts:544`) lands in the
  catch (`:597`), which rewinds the nonce of a transaction that is still pending;
  the next exit of that signer knocks it out.  `NoExitKnockedOut` is violated when
  `store` is added to `Faults` in `Relayer_pair`.
* An eviction leaves a gap of nonces; `resync` has no caller.
* A pass looks at the hourly cap before it simulates and counts its submission when
  the submission has ended (`exitRelayer.ts:310`, `:368`), so passes that overlap exceed the cap,
  by at most one for each pass beyond the first (`CapOvershoot`).
* `relayerAttemptStore.ts:78-82` speaks of a reconcile at boot through `listInFlight`,
  which nobody calls: a row that a crash leaves in flight stays so, as the header of the
  file says (`:15-20`; `AbandonedNeverRefired`).
* A recovery is skipped while its alarm is held for the night, and the alarm is
  delivered in the morning with no all-clear (`alertPolicy.ts:134`; quiet hours in
  the settings of `Dispatch_quota` violate `NoDanglingAlarm`), though
  `docs/technical-docs/TELEGRAM_ALERTS.md:112` has a recovery "sends an all-clear".
* Two owners who change one wallet at once can leave the registry disagreeing with
  the subscriptions: the lock is per owner, and the count is a statement before
  the write (migration `20260814000004:165`; its lines 144-145 say that they can
  never disagree).
* A crossing is lost when its insert fails; a message is sent once more by an
  overlapping pass.
* A drain takes a bounded batch of the oldest rows (`watchDispatch.ts:663-666`), and
  rows held until the morning stay in it: when they fill it, newer alerts wait behind
  them.  `CriticalResolved` is violated in `Dispatch_live` with a `Batch` of 1.
* A permit with a trigger and only Compound or Morpho in its mask is stored, and no
  exit with it can prove its trigger.  A permit at exactly its deadline is good for
  the contract and expired for the backend, which errs on the safe side.
* A row whose expiry is found by the list or the relayer, not by the sweep, is no
  longer active when the sweep comes, and its expiry is not announced.
* A permit signed again under a nonce that is in the table is answered "active"
  and not stored: the insert is a no-op.
* The marker of a positions response may name another scenario than its numbers
  were scored under, and the pair is cached (`api-server.ts:1173`, whose comment
  wants to exclude it).
* The hourly retention job deletes grants 30 days after they ended; while the code
  is open, its user can then have a second trial, although `campaignStore.ts:424`
  calls the operator's clear "the ONLY thing that gives a spent code back".
* Two requests that find the same ended membership both renew it, and the second
  code overwrites the first's.  `endTrialForEmail` closes a grant by what it read.
* `upsertLink` keeps `unreachable_since` of a wallet's row when the wallet moves to
  another chat, so a row can hold evidence about a chat that is no longer its own.
  `/stop` is answered "disabled" whether or not the write succeeded
  (`telegramStore.ts:220`).
* With more overlapping ticks than its threshold, the blind page can be raised
  while every tick scores.
* A worker that claims a page and dies before the sinks silences the API's page for
  the repeat window; the page then comes.
* A leg of a full exit may name one side only: floors are applied to the sides it
  names, so a permit to repay and withdraw is spent by a leg that only repays, though
  `ExitTypes.sol:36-38` has each leg do both "or the tx reverts".
* On Comet an order larger than the debt goes through, and the rest becomes the
  owner's supply; the event of a deleverage reports the amount ordered as repaid.
* An exchange of a link that is under way while the same browser signs in replaces
  its full session by a read-only one.  Sign-out clears the cookie even when the
  revocation failed.

Every property of a passing run has a mutant in `PROJECT.json`: a plausible bug
in one definition that makes TLC report that property.

**Bounds, and why they suffice.**

*Relayer.*  Two overlapping passes: every race checked here is between two of them
(the proofs cover any number).  One permit where the race is over its row, two of
one owner in `pair`, where they compete for a signer's nonces and the cap.  Two
signers in `live`, so that both passes can be in `submitOnce` at once; one in
`faults` and `pair`, which ask about the row, the slot and the chain.  Two hashes
are an attempt and its fee bump or a second attempt, three an attempt with a fee
bump and another permit's.  One crash, since a second finds the state the first
one left.

*Loops.*  Two levels of score, which one profile tells apart and the other does not:
one key of a wallet changes while the other stands still, so that what one loses is not
hidden by the other.  `ConfirmTicks` is 2 (the code's is 3): an observation that is not
confirmed yet, and one that is; the theorems cover any number.  Two moves of the score
or of the subscriptions and the first observation give three commits of a stream, one
lost insert and one crash any place for each among them.  `MaxRows` 4 is alarm, all-clear,
alarm, all-clear, or two of each of two positions.  A day of four instants with a
cooldown of two separates within and after the cooldown, and quiet hours across
midnight; `Batch` holds all rows (what a smaller one does is among the behaviours
above).  One subscriber, as nothing one does is read for
another.  Two wallets, each owned by one of two owners, with a cap of one: two
requests that each add one, a swap, and two owners on one wallet all happen.

*Services.*  Two requests of each kind overlap.  `PermitScope`: every kind, masks
with each protocol bit, none, all, and bits above them, and the fractions and
slippages on both sides of every limit.  `ExitPermits`: two permits that share a
nonce and differ in epoch and deadline, so that each of the three ways to die comes
alone and together.  `Escrow`: three accounts, of which one is the team, the
deadline inside the range of the clock.  `Simulation`: two scenarios, two
operators, two reads in flight.  `RateLimit`: three clients for a map of two, a
budget of two, and two windows of time.  `TelegramLinks`: one chat moving between
two wallets with two codes.  `Executor`: one leg of each market with the amounts 0, 1 and
"full", two legs that meet in a protocol or a token, and two that meet in one debt
(two collaterals of a comet, a comet with and without a collateral, one Morpho market under
two assets) or one collateral, debts in one and in both rate
modes with an odd half, a half that is nothing, and none; a wallet with enough and one
without; calls by the owner and with a permit of each kind.  `Deleverager`: every
protocol with every source, orders that repay and withdraw nothing, a part, and more
than there is, positions above and below water, a lender with and without the funds.
`ScoringBlind`: three ticks, the code's threshold of
three.  `Membership`: one user and one card with two slots, so that a second slot
is there to be taken by mistake; two mints reach beyond a cleared use.  `SignIn`:
one wallet, nonce, link and browser, two requests, and time for a proof to expire.
`CHECK_DEADLOCK FALSE` in this run: the behaviours end with their clocks, and
`scope` is a single state.

*Executor alone.*  Permits to reduce by half, one leg or two on one debt, with debts of
one to eight: a whole half, an odd one, and one that is nothing.  Also without a check of
deadlocks, since a transaction ends.

*Pager.*  Two loops, one of them the monitor pass that does the checking.  A heartbeat
is late, and a page may be repeated, after one unit of time: what matters is which is
over first, and every order of the two occurs.  One crash, of either process, and one
failed sink: together they lose a claim in each.

Everywhere else deadlock is checked.

**Fairness.**  `Relayer!FairSpec`: every await of a pass ends (requests and receipt
polls have timeouts); nothing is assumed of the timer, the chain or the market.
`WatchLoop!FairSpec`: the timer, the awaits, the reload of the registry, and
strong fairness of `Apply`, for a wallet whose scoring fails now and then but
not for ever.  `AlertDispatch!FairSpec`: the timer and the awaits; Telegram may
fail for ever, since the attempts are counted.  `Monitor!FairSpec`: time passes, the
API's interval fires and its read of the heartbeats does not fail for ever, and
requests end, in the ledger or by its failure; nothing is assumed of the worker,
whose passes may hang and which nobody need restart.

## 4. Proofs

| theorem | statement | argument |
| --- | --- | --- |
| `RelayerProofs!TypeCorrect` | `Spec => []TypeOK` | `TypeInv` adds that a pass past the choice has a permit and that a broadcast has one |
| `RelayerProofs!LeasesExclusive` | `Spec => []LeaseExclusive`, all faults | inductive with `TypeInv`: a lease is taken only of a signer not busy and kept in `busy` |
| `RelayerProofs!ClaimsExclusive` | `[]ClaimExclusive` if `"reply" \notin Faults` | the row says in flight for each claim, and a claim needs a row that does not |
| `RelayerProofs!AbandonedRows` | `AbandonedNeverRefired` if `"reply" \notin Faults` | from the above, per step |
| `RelayerProofs!CapKept` | `[]CapOvershoot`, all faults, any number of passes | a pass that gets past the cap found it not reached, and is itself not among the others that are under way; a submission that ends is counted at most once |
| `RelayerProofs!Implementation` | `Spec => ImplementsExitOnce`, all faults | every action maps to a step or a stutter of `ExitOnce`; a permit with an exit is dead, a row says succeeded only after one |
| `RelayerProofs!AttemptsBounded` | `[]AttemptsBound` if `"store", "reply" \notin Faults` | a slot holds transactions of the claim it was opened under, and the row counts the claims |
| `RelayerProofs!NobodyKnockedOut` | `[]NoExitKnockedOut` if `Faults = {}` | the pool's next nonce is above every slot in use and leaves no gap, and a leased nonce is its holder's alone |
| `WatchLoopProofs!LoopTyped` | `[]TypeOK` | |
| `WatchLoopProofs!DebounceHolds` | `Debounced` | the candidate's count equals the streak when it is the last status seen |
| `WatchLoopProofs!LogHolds` | `LogConnected`, whatever is lost or late of other keys | the log of a key that is not `spoiled`, followed by its inserts under way, is a chain that ends in `committed` |
| `WatchLoopProofs!RebootIsTransparent` | `[]RebootTransparent` | from the same invariant |
| `AlertDispatchProofs!CriticalBreaksThrough` | a preference neither withholds nor delays a critical alert | cases of `DecideSend` |
| `AlertDispatchProofs!NoLaterThanDefault` | what the default settings send is sent under any setting | the effective cooldown of a critical alert is at most the default |
| `AlertDispatchProofs!NoCriticalInDigest` | `[]DigestNotCritical` | what a pass holds was deferred by `DecideSend`, and rows never change |
| `AlertDispatchProofs!LedgerIsTruthful` | `[]LedgerTruthful`, all faults | what a pass is about to stamp as sent, or to mark as in a digest, is in the inbox already, and inboxes only grow |
| `AlertDispatchProofs!OutcomeIsFinal` | `OutcomeFinal` for one pass at a time | what the pass holds to write down is still unresolved in the ledger |
| `AlertDispatchProofs!SendsAreBounded` | `[]SendsBounded` if `"ghost" \notin Faults` | copies received, and those that passes have yet to send, are paid for by passes, crashes and failures; a delivery that is resolved is in no later drain |
| `AlertDispatchProofs!SameSeveritySentOnce` | `[]SameSeverityOnce` for one pass at a time, if Telegram neither refuses a message nor fails a call it has carried out | deliveries are decided in the order of the log, so the prior alert that the pass reads is the last one sent, and the decision keeps its cooldown |
| `AlertDispatchProofs!RecoveryIsTold` | `[]NoDanglingAlarm` if `Calm` | `CalmInv`: nothing is decided before an older row of its reader, and messages arrive in the order of the log, so a recovery that is skipped was preceded by nothing or by an all-clear, and nothing is sent in between |
| `AlertDispatchProofs!DispatchTyped` | `[]TypeOK`, all faults | a pass has in hand only what it drained below the limit of attempts (`Retryable`), and a stamp adds at most one |
| `WatchlistProofs!WatchlistTyped` | `[]TypeOK`, with the exclusive row locks | |
| `WatchlistProofs!CapNeverBroken` | `[]CapHolds` | with the advisory lock held, a transaction's list past the check fits, and no other transaction changes the owner's committed list |
| `WatchlistProofs!RegistryIsHealed` | `Heals` | every overlap of two open transactions on a wallet is in `met`; a wallet that a session has synchronised agrees with what the session sees, and what it has counted is right; elsewhere nobody else's change is in the way |
| `ExitPermitsProofs!DeadRowsAreDead` | `[]DeadRowsStayDead` | a verdict condemns only a permit that was dead at one of the moments it was formed from, and death is for ever (`Doomed`); nonces may be shared |
| `ExitPermitsProofs!RevocationIsSeen` | `[]RevocationSeen` | with the above: what was dead when the request began is condemned by the epoch or the nonce it reads later |
| `ExitPermitsProofs!ScopesAgree` | `[]ScopeMirrors` | a mask with one of its low four bits permits a leg on that protocol |
| `ServiceProofs!GoneIsGone` | `[]NoComeback` | at most one read is under way, and what it is about to replace is cleared already |
| `ServiceProofs!ProofsAreUsedOnce` | `[]OneProofOneUse` | a wallet's sessions and the requests about to open one are no more than the proofs honoured for it, each of which was deleted or marked when it was honoured |
| `ServiceProofs!StopIsFinal` | `[]StopSticks` | a /start under way is of a chat that spoke since its /stop; stamps touch the other columns |
| `ServiceProofs!BlindPagesAreReal` | `[]BlindIsReal` if `Cardinality(Tick) <= Threshold` | a run of blind ticks that contains a scored one is shorter than the ticks that overlap |
| `ServiceProofs!SlotsAreCounted` | `[]SlotsCounted` | a grant that was minted is there, was cleared or was retired |
| `ServiceProofs!OneTrialEach` | `[]OneTrialPerGrant` | every expiry that is written down or in a request's hands is within what was bought, or has passed |
| `ServiceProofs!BudgetIsKept` | `[]BudgetHolds` | an entry is in order and has every request let through within the last window |
| `ServiceProofs!RoomIsMade` | `[]CapacityRecovers` | sweeps are blocked for the throttle, or until the soonest entry expires, and that within a window of the sweep that freed nothing |
| `ServiceTypes!ServicesTyped` | `[]TypeOK` of `Services` | what the safety invariants carry of each service, with its clock within its bound, one row per chat (`ChatExtra`), a membership replaced in place (`OnePlace`), the limiter's map within its size (`LimiterExtra`) |
| `ContractProofs!EscrowIsSolvent` | `[]RefundsFunded` | the balance is the deposits not refunded and the donations, until it ships; a refund is paid only when nothing can ship any more |
| `ContractProofs!TransactionsAreSettled` | `[]TransactionsSettle` | see below |

The last one has the longest argument.  *Exit:* each market is what it was less the
plan of the sides whose turn has come; the other protocols' legs, which run one after the
other and may share a debt, have each repaid no more than the fraction of what the whole
debt was, the first of them exactly that, and together no more than the debt; and the owner's wallet with what the executor holds for him covers what he had
less what was repaid plus what was fetched.  `Repaid` and `Fetched` are sums over markets;
that a sum changes by what one of its terms changes is proved by induction on the finite
set, as a least counterexample (`ContractProofs`, "Sums").  *Deleverage:* the balance of
the debt token follows the loan through its steps, so what the lender pulls is there, and
the sweep takes the rest.

The theorems hold for every value of the constants that satisfies the modules'
assumptions (`ConstantsOK`, `NoneIsNoPermit`, `WatchConstants`, `PolicyConstants`,
`DispatchConstants`, `WatchlistAssumption`, `ServiceConstants`, `SomePasses`), which TLC
evaluates in every run.  They say that amounts and instants are numbers, that the sets summed
over are finite and there are passes, that only Aave lends at a stable rate, that only a
comet keeps a market's debt elsewhere (`MarketsFit`), and that the bounds of the models
(`Bounds`) are numbers.  The other hypotheses are in the
theorems' statements, and each is needed:

* `"reply"`: when the ledger applies a claim and its answer is lost, the error path marks
  the row failed while it is somebody's.
* `"store"`: the `finish` after a receipt timeout may fail, which rewinds a nonce in use.
  `"send"`: a broadcast that fails although the mempool took it does the same.  `"evict"`:
  after a restart, the pool counts from a mempool that has lost its last transaction.
* `"ghost"`: a message delivered by a call that failed is sent again.  One pass at a time:
  two passes that overlap both send, and both stamp.  `"refuse"`: a delivery that Telegram
  refuses is left for a later pass, which may send it after a newer one.
* `Calm`, for `RecoveryIsTold`: an alarm stays without its all-clear when a message is
  refused or delivered all the same, when its reader blocks the bot (and never hears again),
  when passes overlap, or when a crash or a failed query comes between a send and its stamp
  and the retry finds the debt repaid: nobody has recorded that the alarm was heard.  A
  reader who mutes a position, has a digest or quiet hours may have his all-clear withheld.
  TLC violates `NoDanglingAlarm` when any one of these is let back in.
* The number of ticks that overlap: see section 3.

**Only model-checked.**  Liveness (`ClaimResolved`, `AlertsLogged`,
`CriticalResolved`, `SilenceIsPaged`): the provers do not reach liveness under fairness
or ENABLED.  Every safety invariant and action property that a passing run checks is the
subject of a theorem.
Recursively defined data is out of the provers' reach; no module here needs it, and none
declares a RECURSIVE operator.

## 5. Not modelled

* Relayer: failover between private endpoints (one that may fail stands for them),
  the kill switch and the dry run, gas prices, the arithmetic of the balance check
  (it may fail at any time).
* Watch loop: protocols (a wallet has one position here), the formulas of the
  score, and the snapshots, of which `AlertDispatch` has the newest.
* Dispatch: who is subscribed to what and since when (every subscriber watches
  every position), outcomes of before the ledger and the limit of the prior
  query, cards and photos (one message), the view token, a borrow of unknown size.
* Watchlist: labels; two owners whose lock keys collide (they only wait more).
* Contracts: signatures, price feeds and their age (a price is one, a failing feed
  is a revert), exits from Uniswap positions, which no permit allows.
* Sign-in: the tokens of e-mail accounts and operators, which an identity provider
  issues.  Campaigns: their creation, the throttle of failed attempts.
* Monitoring: the thresholds of RPC, freshness, reach and relayer health, each a test
  of one number.  Caches whose loss costs a read.
* The scoring engine (floating-point formulas; a level chosen freely stands for a
  score), the advisor's text, the browser application, landing page and admin console
  (rendering and wallet prompts), backtests, deployment and development tools.  This
  is most of the repository's lines, and nothing in it keeps state that the
  components above share.

## 6. What could follow

1. A `DeliverOnce` of the dispatcher, as `ExitOnce` is of the relayer: `LedgerIsTruthful`,
   `OutcomeIsFinal` and `SendsAreBounded` say its parts.
2. Theorems about `Monitor`, whose one property is liveness: its types, and that a page is
   of a loop that was overdue when its checker read the heartbeats.
3. The watch loop with several protocols per wallet.
