# Dwell in TLA+

Dwell shows one line of advertising in the status line of a coding assistant
while the assistant works, charges the advertiser for each impression and pays
the developer who saw it, in USDC on the Stellar network. This directory holds
a TLA+ model of it, the TLC configurations that check small instances, and
proofs that TLAPS checks.

Money is the subject. An advertiser's deposit turns into ads on screens, into
impressions that wait a day, into entries of a ledger, and into payments that
leave a hot wallet. At every one of these places several actors (hooks, timers,
users, administrators, a network, a crash) may come in between, on the server
and on the developer's machine.

Paths below are relative to `src/packages/` unless they start with `src/`.

## 1. Inventory

### Billing (server)

| part | state | operations |
|---|---|---|
| `server/src/pipeline.ts`, `Pipeline` | maps `#deliveries`, `#impressions`, `#bans` (mirrored in SQLite), the set `#returned` | `serveAd`, `ingest`, `runVerification`, `spendable`, `spentToday`, `committedImpressions`, `ban`, `unban` |
| `server/src/impressions/ingest.ts` | none of its own | `ingest`: duplicate, replay, expiry, ownership, duration; consumes the nonce, freezes the price |
| `server/src/impressions/verify.ts` | none | `evaluate`: ban, wait, daily cap, anomaly rules |
| `server/src/ledger/*` | double entry rows with unique keys | `deposit`, `postImpression`, `payoutSubmit`, `payoutSettled`, `reverse`, `audit`, `solvency` |
| `server/src/store/*` | SQLite tables | mirrors of the maps, `payout_items`, `vacuumExpired` |

### The market (server)

| part | state | operations |
|---|---|---|
| `server/src/ads/selector.ts`, `AdSelector` | a stage tour per publisher (mirrored in SQLite), the recent shows | `select` (filters, tour, second price), `returnSlots` |
| `server/src/pools/*`, `poolReserve` | pools, members | create, budget, close, join, leave; what is set aside for a pool |
| `server/src/ads/campaign-store.ts` | campaigns, projects of pools | create, status |

### Paying (server)

| part | state | operations |
|---|---|---|
| `server/src/payouts/withdraw.ts`, `WithdrawService` (publisher, advertiser, platform) | payees in progress; one queue for the hot wallet | `withdraw`, `#run` |
| `server/src/payouts/runner.ts`, `store.ts` | payout items | `resumeUnresolved`, at start and on a timer; `recordSubmit`, `markSettled`, `markFailed` |
| `payments/src/stellar-rail.ts` | none | `preflight`, `prepare`, `send`, `reconcile` |
| the Stellar network (external) | transactions, the sequence number of the hot wallet | includes an envelope or lets it expire |
| `contracts/vault` | balances of advertisers, tokens held | `deposit`, `release`, `withdraw`, `set_admin`; the server does not call it at this commit |

### Identity (server)

| part | state | operations |
|---|---|---|
| `server/src/http/wallet-auth.ts`, `sep10.ts` of `payments` | challenges, their count | `challenge`, `verify` (awaits the signers), the collector |
| tokens, `payments/src/wallet.ts`, `issueToken` of `main.ts` | tokens and bindings, in memory and on disk | issue, revoke, bind |
| `server/src/http/rate-limit.ts` | buckets | `take` |
| `server/src/advertisers/deposits.ts` | a cursor on disk | `poll`: reads payments of the network, credits deposits |
| `server/src/leaderboard/*` | profiles, an index of names, a table | `set`, `rank`, `profile` |

### The developer's machine

| part | state | operations |
|---|---|---|
| `cli/src/daemon/turns.ts`, `TurnMachine` | sessions, the show mutex, the show | hooks, ticks, pause |
| `cli/src/daemon/sync.ts`, `ServerSync` | cache of ads, requests under way | prefetch, `nextAd`, `peekAd`, flush |
| `cli/src/daemon/queue.ts`, `ImpressionQueue` | two append-only files | `add`, `markSent`, `compact` |
| `cli/src/daemon/server.ts`, `entry.ts`, `cli/daemon-control.ts` | processes, socket, pid file | bind, probe, drain, start, stop |
| `cli/src/settings.ts`, `daemon/spinner-sync.ts`, `shim/hook.ts` | the settings file of the coding assistant | install, remove, write the spinner words, revive a daemon |
| `cli/src/cli/main.ts`, `login.ts`, `login-page.ts` | the credentials file, a page in the browser | `init`, `doctor --fix`, `login`, `logout`, `restart`, `uninstall` |

### How they interact, and what is hard

The server is one process with one thread: a handler without `await` is atomic
with respect to the others, not with respect to a crash, since each SQLite
statement or transaction commits alone. The money an ad will cost is committed
in three forms one after the other (on a screen, waiting, in the ledger), and
limits are read long before they are used up. Tours, budgets of pools and the
sponsor's own campaigns draw on the same balance. A withdrawal awaits the
network at each step while ads go on being served from that balance; the
network may lose a request, answer late or not at all. A login awaits the
network while the lists it looked at change.

On the machine, hooks and ticks come from short-lived processes and may be
late, missing or in another order. A daemon may be killed in the middle of a
line, and its report may arrive although its answer does not. Several copies of
the daemon, the commands of the user and the hooks meet at one socket file, one
credentials file and one settings file, and none of them holds a lock.

What makes each part correct:

* billing: each delivery is charged at most once, at the price it was delivered
  and the share it was delivered for, out of money that is there; limits hold; every reservation ends;
* market: slots are not used twice, nobody is silenced, prices are
  fair, a pool's money, its budget and the caps of its members are kept;
* paying: money is not both paid and refunded, nothing is sent that is not
  recorded, every batch is decided;
* identity: a challenge is good for one token, a logout is final, whoever is
  logged in can be paid, every payment owed is credited once;
* client: one session's show counts, only what was on the screen is measured,
  what was written waits for its verdict, and leaves the queue;
* installation: a login given up is silent, a daemon comes back;
* vault and names: balances are backed, names are unique.

`PROJECT.json` lists every component with its status, and under `hazards` what
is hard to test in each.

## 2. Modules

| module | what it is |
|---|---|
| `Totals` | `Total(f)`, the sum of a function into the numbers, as a cardinality, so that it can be proved about (`sum` in `protocol/src/money.ts`) |
| `Billing`, `MCBilling` | the billing pipeline with its stores; its instances are `Billing.cfg`, `BillingTwo.cfg`, `BillingSharedIds.cfg` |
| `Escrow` | what the pipeline promises: the price of each delivery is held, then charged or released, once |
| `Stage` | the pure part of the selector: second price, stage slots, tours |
| `Auction`, `MCAuction` | campaigns, pools, the selector, deliveries; `Auction.cfg` |
| `Payout`, `MCPayout` | withdrawals, reconciliation, hot wallet queue, network; `Payout*.cfg` |
| `Transfer` | what a withdrawal promises: money is taken from an account, then paid or given back, never both; `Payout` implements it but for one step (`GivesBackPaid`) |
| `Login` | challenges, verifications, tokens, bindings, rate limit |
| `Identity` | `Login` composed with the deposit watcher; `Identity.cfg` |
| `AdCache` | the cache of ads of a daemon and its prefetches |
| `Turns` | the turn machine over `AdCache`; `Turns.cfg` |
| `Outbox` | the queue on disk and its transmission |
| `Client` | `Turns` and `Outbox` composed: the daemon, with crashes; `Client.cfg`, `ClientOverlong.cfg` |
| `Journey` | what a client promises about one delivery, and what a fault of the disk may do to it; `Client` implements it |
| `Daemons` | the background processes and the socket |
| `Installation` | commands, settings, hooks and login page over `Daemons`; `Installation.cfg` |
| `Vault` | the escrow contract |
| `Profiles` | names and leaderboard |
| `TotalsProofs`, `BillingProofs`, `PayoutProofs`, `ClientProofs`, `IdentityProofs`, `InstallationProofs`, `StandaloneProofs`, `AuctionProofs` | theorems and their proofs |

Some modules hold a variant of an operator under a name of its own
(`StartMeasures`, `EndKeepsMutex`, `CursorFirst`, ...), often with a comment that says
"as it would be if". No specification uses it: it is a plausible slip in the
code, with which the property it is for is violated under the same `.cfg`
(`mutants` in `PROJECT.json`).

### Billing

Each variable is one store. `delivery`, `imp` hold the records; `known` and
`stored` say which deliveries are in the memory map and in the table, and
`kept` which impressions are in the table, because memory and disk are trimmed
by different code (`#gcDeliveries` while serving, `vacuumExpired` hourly). The
ledger is `adv`, `pub`, `platform` (balances) and `billed` (the impression
groups by id, with the price and the publisher share they were split by);
`draw` holds the advertiser's withdrawals, which `Payout`
models in full. The fields `nonce` and `bps` of `billed` are not columns of the
ledger: they tell which delivery a charge was for and how it was split, so that
properties can speak of it. The share `bps` of a campaign is frozen in the
delivery and in the impression, as the price is (`ingest.ts:202-203`), and a
posting uses the frozen one. At this commit no operation changes the share of a
campaign (`campaign-store.ts:122`, `:165` set it once); `ServeAd` takes any
share, so that a posting which read the campaign instead would be seen.

`ServeAd` is `POST /v1/ads/next`: the filters of `select` are `Eligible`, the
tour and the auction are any eligible campaign and any price up to its bid.
`IngestAccept` and `IngestReject` are one event of `POST /v1/impressions`;
conditions on the event alone are the boolean `wellFormed`. `Verify` and
`Reject` are one impression of a round of `runVerification`: the rounds visit
impressions in an order the model leaves open, and the anomaly rules other than
the daily cap are a free choice to reject. `Vacuum`, `Ban`, `Unban`, `Tick` and
`Restart` are what else may happen. Two places of a handler lie between two
commits, and the process may die there: `IngestCrash` (after `consume`, before
the impression is saved) and `VerifyCrash` (after the ledger, before the
state).

An advertiser's spendable balance in `main.ts` also subtracts the reserve of
the pools it sponsors; here nobody sponsors one, and `Auction` has them.

### Auction

`Auction` is the same server seen from the selector, with an impression reduced
to a state of its ad (`unreported`, `pending`, `verified`, `rejected`).
`Eligible(p)` is the filter chain of `select`, pools included; `ServeAd` gives
back the slots of expired ads (`GiveBack`), goes on with the tour or builds a
new one (`NextTours`), takes its first campaign, at the second price
(`Stage!Clearing`), and forgets deliveries that expired long ago. `ServeNothing`
is the answer without an ad, which gives slots back all the same. `Restart`
keeps the tours and drops `recent` and `returned`. `Manage` and `Host` are the
advertisers, sponsors and teams: `AskProject` and `CreateProject` are the two
halves of one route with an `await` (the body) in between. `built` is a history
variable: how many slots the tours of a publisher were built with.

### Payout

One job runs at a time (`createSerial`); its program counter `job.pc` names the
await it is at, and each action is the code between two awaits: the balance is
read in `StartWithdraw`, the network is asked in `Prepare`, the balance is read
again and the ledger and the item are written in `Submit`, the envelope leaves
in `Send`, and `Ask`, `AskThrows`, `Pending`, `Settle` and `Refund` are
`reconcile` and what follows it, for both kinds of job. Between any two, the
rest of the server credits, reserves, charges and releases money
(`Environment`, which `Billing` describes in full), the network includes
transactions, the clock ticks, and the process may crash. `SubmitCrash`,
`SettleCrash` and `RefundCrash` die between two writes of one action.

`Latency` is the number of ticks that may pass between the answer of the
network and the reading of the clock in `reconcile`, which in the code are two
moments (`stellar-rail.ts:240-245`). All runs of `Payout` have `Latency = 1` and
the theorems hold for any. The gap has a name, `InTheGap`: the network was asked
before the deadline and did not know the payment, and the clock is read after
the deadline. Properties that the gap breaks say how far it breaks them:
`BothOnlyInTheGap`, `GivesBackPaid` in `ImplementsTransfer`, `Doubled` in
`MoneyAccountedFor`. That it breaks the plain promise is the run
`payout_latency`.

### Login and Identity

`pending` is the set of open challenges, numbered as they were made, so that the
list of a wallet is its challenges in the order of their numbers; `total` is the
count the code keeps apart. `Verify` is `verify` up to its `await`: what it found goes into the
bag `verifying`, and `Verified` or `Unverified` is the rest, with whatever
changed in between; two requests may carry the same signed challenge. `Verified`
writes the token and then the binding; `TornLogin` and `TornLogout` die between
two writes, and `Reload` is the restart. `tokens` and `savedTokens`, `bound` and
`savedBound` are memory and disk. `handed` and `loggedOut` are history: which
answers were sent.

`Identity` adds the watcher: `Poll`, the answer (`Page`, which credits every
payment of a page, some of whose writes may fail, and moves the cursor),
`PollFails`, and `TornPage`, a crash after some credits and before the cursor.
Who is a known advertiser is what `Login` says.

### AdCache, Turns, Outbox, Client

`AdCache`: deliveries are numbered in their order, and since all live equally
long, `expired` says how many are over. `Refill` starts a prefetch whether or
not one is under way, as `nextAd` does.

`Turns`: `session` is the map of turns, `active` the mutex, `show` the show
being measured. Times are ages that stop where no comparison of the code tells
them apart (`Pass`); `show.age` is the time since the start and `show.seen` the
age at which a tick last saw it, which is what counts. Each handler is an
action with a parameter `out`: what it adds to the completed impressions, which
the daemon drains at once. `onTick` is cut into its cases `TickHidden`,
`TickIdle`, `TickSilent`, `TickCounting`, `TickTakesOver`, all of which start
with `#expireCooldowns` (`Lasting`, `Holders`, `Kept`, `Ended`).

`Outbox`: `file` is the set of the lines of the file of pending impressions, each
with a number that says when it was written (the order of the file), `torn` that it ends with half a
line, `marked` the file of decided ones; `posts` and `answers` are what is on
its way, where `awaited` is whether the client still waits. `#readAll` and
`#readSent` turn an error of reading into an empty file (`queue.ts:115`, `:122`),
and `compact` and `#flush` go on with it: `Compact` may rewrite the file from
nothing or without the marks, which deletes what waits or brings back what was
decided, and `FlushMisread` sends decided lines again. Each such step counts in
`misreads`. Rewriting may also fail, before the renaming or when the marks are
deleted. `Ingest` is the
server as the client sees it: it judges an impression once and answers a known
one as a duplicate (`Billing` has the ingest in full).

`Client` composes the two: `Handle` runs a handler and writes `out` to the
queue before anything else happens, and `Crash` ends the process, also in the
middle of an append (`TornAppend`) and between the two steps of a compaction
(`TornCompaction`). `ImplementsJourney` maps each delivery to a stage of
`Journey`, so that a lost, repeated or late report, half a line or a rewritten
file is seen as what it means for that delivery. `misreads` is mapped to the
faults of `Journey`: a fault may cost what waits or bring back what was decided,
but no other step may, and not even a fault shows or sends what was not.

### Daemons and Installation

`Daemons`: each process has a phase (`starting`, `probing`, `unlinking`,
`binding`, `serving`, `draining`, `closing`), cut at the awaits of `entry.ts`
and `server.ts`; `who` is the login it read when it booted, and `socket` whose
file is at the path. A crash leaves the file behind.

`Installation`: a command is the list `todo` of the steps it has left, cut where
the code awaits (`Programs`); the user runs one at a time and may interrupt it.
`Look`, `SpawnChild`, `Await` are `start`, `Ask`, `Kill`, `Wait` are `stop`,
`OpenPage`, `SignIn`, `Leave`, `GiveUp` are the login, `Revoke`, `Clear` are
`forgetLogin`. `SessionStart` is the hook that finds nobody and spawns a daemon.
`ReadSettings` and `WriteSettings` are the two halves of `spinner-sync.ts`: a
daemon writes back the whole file it read, and `copy` is what it holds
meanwhile. `revoked` is what the server knows; `dropped` is history: logins
given up here that the server was not told of.

### Vault and Profiles

`Vault` is the contract next to the books of the token contract, in which
anybody may move tokens of their own. Each call is one transaction.
`Profiles.Set` changes the memory, the index and then the row, whose write may
fail; `Restart` reads the table back. `Listed`, `Ahead` and `Card` are the
leaderboard's filter, order and look-up.

## 3. Runs

| run | question | result |
|---|---|---|
| `billing` | one publisher that may repeat reports under any id, an advertiser that deposits and withdraws, one crash | types and non-negative accounts, `CommittedCovered`, `DeliveryChargedOnce`, `ChargedAsDelivered`, `LedgerBalanced`, `DailyCapHolds` hold (1,417,142 states) |
| `billing_two` | two publishers compete for one bought impression, with fair timers | `BlocksNotOversold`, `VerifiedIsBilled`, `ImplementsEscrow`, `ReservationEnds` hold (82,608 states) |
| `auction` | a sponsor with two campaigns and a pool bids against another advertiser, one restart | types, `NoSlotTwice`, `FairPrices`, `NeverSilent`, `MemberCapKept`, `PoolMoneyKept`, `PoolBudgetKept` hold (220,833 states) |
| `payout` | two withdrawals, from an advertiser's account and from `platform_revenue`, answers read late, one crash, under fairness | types, `PromiseKept`, `MoneyAccountedFor`, `RecordedBeforeSent`, `BothOnlyInTheGap`, `ImplementsTransfer`, `EveryBatchDecided`, `PayeeFreed` hold (202,088 states) |
| `identity` | two wallets log in and out, payments arrive from a wallet and a stranger, one crash anywhere | types and the count of challenges, `OneTokenPerChallenge`, `LogoutIsFinal`, `LoggedInIsPayable`, `PaymentsCredited` hold (551,536 states) |
| `turns` | a session with a status line and one without, hooks and ticks in any order, pauses, restarts | types, `MutexHeld`, `OnlyTicksMeasure`, `MutexFreed` hold (162,162 states) |
| `client` | turn machine, cache, queue and network, a crash in the middle of a write, a file that cannot be read | types, `OneShowPerDelivery`, `ImplementsJourney`, `DrainsUnlessRefused` hold (213,696 states) |
| `installation` | two commands cut at every await, two processes, reviving hooks, a crash, an edit by another tool | `LogoutSilences`, `ComesBack` hold (1,393,176 states) |
| `billing_shared_ids` | two publishers may use the same impression id | `VerifiedIsBilled` is violated |
| `payout_latency` | a tick between answer and clock | `NotPaidAndRefunded` is violated |
| `payout_orphan` | a crash between ledger and item | `InFlightRecoverable` is violated |
| `client_overlong` | a show of more than a day in the queue | `QueueDrains` is violated |

The last four are disagreements between the code and what its comments say;
`PROJECT.json` quotes the lines under `findings`.

### Bounds, and why they are enough

* Billing: two deliveries and two impression ids give every pair a hazard needs
  (a report repeated under another id, one delivery on screen while the other
  waits, two charges for one limit). Prices 1 and 2 with a bid of 2 and a share
  of 50 % make the rounding visible (half of 1); a second share, of all, lets
  two deliveries of one campaign differ in it (`billing`; the others have one). `NonceTtl`, `PendingMs`,
  `GcAfter` and `RetainMs` are one tick, the clock runs to 3 or 4, days have two
  ticks: every deadline is met, hit exactly and missed, and impressions fall on
  two days. `MaxFunds` is enough for both deliveries and one withdrawal.
* Auction: bids of 6, 4, 4 and 3 in blocks of two give a tie, two campaigns of
  one owner and one that cannot pay at the start; the pool has a budget of two
  impressions and a cap of one. Two ads are enough to expire one and use its
  slot again, or to commit a budget twice. One management call (`MaxEdits`), one
  restart and two days come anywhere between them. An expired delivery is
  forgotten at once (`GcAfter = 0`), which is the harder case for `returned`.
* Payout: two batches are what a shared sequence number, a waiting second job
  and a reconciliation with a rest need; of the two payees one withdraws from an
  account that promises money and one from an account that does not. One question after the first (`ConfirmPolls = 1`) separates the first
  question, whose error ends the job, from the later ones. A transaction lives
  one tick, an answer may be read one tick late, and the clock runs to 2 (3 in
  the two runs that are violated), which is past the deadline of a transaction
  prepared at once; no other is prepared.
* Identity: two wallets and two challenges, two verifications at once (so also
  twice the same challenge), two payments on one page, a failed write, and a
  crash that falls between any two writes. A wallet keeps one challenge, so a
  second pushes the first out. A challenge lives for the tick it was made in,
  and the second tick has it expired, collected, or neither.
* Turns: two sessions, of which `batch` never ticks, are what the mutex needs;
  two ads, all periods of one tick except `MaxQuiet = 3`, so that a dead holder
  (`StaleMutex`) and an abandoned turn differ.
* Client: one session, `alice`, since `turns` has the mutex; two deliveries, a
  queue of one entry (`MaxEntries`) that a second impression overflows, one
  event in a request, and a rewriting at every second append. `MinImpression =
  MaxDuration = 0` and `MaxAge = 1`: a show that was seen in the tick it began is
  a good one, and one that lasted a tick is longer than the schema of the server
  allows (`protocol/src/schemas.ts:73`), so that both are in the queue in either
  order; shows that are too short are in `turns`. An overlong show blocks the
  queue when it is the oldest: `DrainsUnlessRefused` says that nothing else does,
  and `client_overlong`, the same client without crashes and misreadings, that
  it does so for ever. One reading fails (`MaxMisreads`), anywhere.
* Installation: two processes are what the race for the socket needs; two
  commands let a second one meet what the first, interrupted, left behind. Two
  logins, one crash or termination, one edit of another tool or an upgrade. A
  command edits the settings in one step, and one login page is open at a time.
* One crash in each. A second crash finds little that the first could not have
  left, since a restart forgets everything that is not on disk; the proofs have
  no bound on crashes.
* Bounds named `Max...` that no constant of the code stands behind only cut runs
  off. `Turns.cfg`, `Client.cfg`, `Auction.cfg`, `Identity.cfg` and
  `Installation.cfg` turn deadlock checking off for that reason: a behaviour may
  use up its deliveries, edits, challenges or commands. The billing and payout
  configurations keep it on.
* Symmetry (deliveries and ids) is used in the run `billing`, which checks no
  liveness property.

### Fairness

* `Billing`: the clock advances, and the verification timer comes round to each
  impression (`main.ts:450-457`). An error in a round is not caught there: it
  ends the process, which is a crash like any other, and the platform starts it
  again (`railway.json`: on failure, five times). The fairness therefore assumes
  that errors stop coming before that. Nothing is asked of clients, advertisers
  or administrators.
* `Payout`: the event loop runs the job (weak fairness of `Step`), the
  reconciliation timer fires (`main.ts:366-376`), time passes, and a network
  asked again and again about a batch answers in the end (strong fairness of
  `Ask`, which an error may pre-empt any number of times). Time is strongly fair
  only because a verdict stops it for the `Latency`. Nothing is asked of
  inclusion: a transaction may never be included.
* `Identity`: the poll timer fires, and a network asked again and again returns
  a page.
* `Turns`: time passes, and a session that has a status line ticks, since the
  coding assistant redraws it by itself. Nothing is asked of hooks, and
  `MutexFreed` excepts a session that goes on starting turns.
* `Client`: the flush timer fires, a request ends in some way, and, asked again
  and again, the server answers in time and the answer is marked. An answer may be a
  refusal, which is what `client_overlong` turns on.
* `Installation`: a process runs on, and sessions keep being opened, without
  which nothing revives a daemon. Nothing is asked of the user.

## 4. Theorems

Proofs hold for every value of the constants that the named assumptions allow:
finite sets of publishers, campaigns, nonces, ids, accounts and batches, natural
numbers for times, delays and prices, shares of at most 10000 basis points, and any
number of payees, processes, sessions, deliveries, commands and crashes. A
hypothesis beyond that is named in the theorem and explained here.

### Billing

The base is `IInv = TypeOK /\ NoncesDelivered /\ ForgottenExpired /\
CommittedCovered`; the other invariants are proved on top of it, each from the
ones before.

* **`ExposureAlwaysCovered`** (`Spec => []CommittedCovered`): the balance of an
  advertiser covers what it has promised: live deliveries and impressions that
  are not in the ledger. This is not inductive by itself. A restart puts back
  into memory what the table holds, so a delivery that memory had forgotten
  could come back alive: `ForgottenExpired` says that memory forgets only what
  has expired. A charge lowers the balance by the price of an impression and
  takes the same price out of the exposure; a withdrawal or a delivery fits
  because the exposure is at most `Reserved`. Sums are handled by the lemmas of
  `TotalsProofs` (`TotalSplit`, `TotalOfFewer`, `TotalOfOneMore`, `TotalImage`).
* **`TypeCorrect`**: types, and no negative balance. This needs
  `CommittedCovered` (a charge never overdraws) and `SplitsExactly` (the two
  shares of a price add up to it).
* **`ChargedOnce`**, **`PricesFrozen`** (`DeliveryChargedOnce`,
  `ChargedAsDelivered`), from `ChargeInv`, which adds `AcceptedAsDelivered`: an
  accepted impression is that of a used-up delivery of this publisher and has
  its price, share and campaign. A delivery that is used up never changes
  (`UsedKept`), so a report accepted before a crash and posted after it still
  carries what was delivered.
* **`CapNeverExceeded`** (`DailyCapHolds`), from `CapInv`, which speaks of every
  day and not of today only: an impression reported yesterday is verified today.
  It is about impressions that count as verified, as the code counts. Charges
  may be more: when the process dies between the charge and the state
  (`VerifyCrash`), the charged impression is pending again and may be rejected,
  and another takes its place under the cap.
* **`BlocksHold`** (`BlocksNotOversold`), from `BlockInv`: what is charged, can
  still be reported, or is reported and not charged, together stay within what a
  campaign bought. The property counts charges alone; only the sum of the three
  survives a report that moves from one to the next, or a restart.
* **`BooksBalance`** (`LedgerBalanced`), from `MoneyBalanced` and
  `SharesBalanced`: sums over the ledger, by publisher and over all groups, that
  one posting changes on both sides.
* **`ReservationsAreEscrow`** (`Spec => ImplementsEscrow`) under `DisjointIds`:
  each step of the pipeline is one step of `Escrow` or a stutter. A restart must
  be a stutter, although it rebuilds the memory: `KeepInv` says that what can
  still be reported is on disk (`UnexpiredStored`), and so is what waits for its
  verification (`PendingKept`).
* **`VerifiedMeansBilled`** (`VerifiedIsBilled`) under `DisjointIds` and for
  behaviours with `[][FreshReports]_vars`: a report is accepted under an id that
  has no group in the ledger yet. The run `billing_shared_ids` shows why the first
  is needed; without the second, a publisher that uses an id again after its
  record was vacuumed and the server restarted would have an impression called
  verified that nobody was charged for. The client draws a random id for each
  report. `BilledInv` says, besides the property, that the group under the id of
  an impression that still waits is its own, which is the state `VerifyCrash`
  leaves behind.

`DisjointIds` says that no two publishers generate the same impression id
(clients draw random ones; the ledger's key lacks the publisher).

### Auction

The base is `Base`: the types, `EntriesKnown` (a campaign that is served or was
shown still has its pool), `ReportedInPast`, and `Covered` (the balance of an
advertiser is at least what its live and waiting ads may cost). It is proved with
how each kind of step moves the sums over ads: `QuietSums`, `TickSums`,
`DecideSums`, `DeliverSums`.

* **`PricesAlwaysFair`** (`FairPrices`) and **`NobodySilenced`** (`NeverSilent`) hold
  in every state with `Base`, by facts about the second price: what it is
  (`ClearingIs`), that it is never above the bid (`ClearingBounds`), that it
  grows with the bid (`ClearingMonotone`) and that an advertiser's other campaigns do
  not enter it (`ClearingWithoutOwn`).
* **`CapsKept`** (`MemberCapKept`), from `CapInv`. The property counts what was
  reported; a live delivery will be counted on the day of its report, which may
  be a later one. So `CapInv` bounds the current day with the live deliveries, as
  `servedToday` counts (`ServedIs`), and what was reported on each day by itself.
* **`SlotsOnce`** (`NoSlotTwice`), from `SlotInv`. The property counts the slots that
  are left and the ads that use one. An ad that expired and whose slot has not
  come back yet uses none, but will; `SlotInv` counts it too (`Out`), and then a
  slot that comes back (`GiveBackSlots`) changes nothing in the sum. A
  restart takes every expired delivery for given back, so a slot may be lost then,
  but none comes back twice.
* **`BudgetsKept`** (`PoolBudgetKept`): an ad goes out only within the budget of its
  pool (`SpentMoves`), and nothing else makes a pool spend.
* **`PoolMoneySafe`** (`PoolMoneyKept`): a step lets what is set aside grow by no more
  than what becomes free. Rejected and expired ads free their rates in the
  balance, and raise what a pool sets aside by at most as much (`ReleaseOne`,
  `ReleaseMany`: of several ads that expire in one tick, some may be of a pool
  that is over its budget, which then sets aside less than they free). An ad of
  a pool lowers both alike (`PoolAdMoves`); a general ad and a withdrawal are
  checked against the difference.

The assumptions are what the stores validate: bids of at least the reserve price
(`MIN_BID_CPM`, `campaign-store.ts:106`, `pool-store.ts:99`), finite sets, an owner for
each campaign, and a market to start from. Tours are written with the numbers of a
set in order (`InOrder`) instead of `SelectSeq` and `FlattenSeq`, whose recursive
definitions no prover here expands; `NthIs`, `InOrderIs`, `OnlyIs` and `TourIs` say
what they are.

### Payout

* **`TypeCorrect`**, **`WithdrawalsKeepPromises`** (`Spec => []PromiseKept`): from
  `BaseInv`, which relates the stage of the running job, the queue and the
  stores (`StagesInOrder`, `QueueInv`, `JobInv`).
* **`RecordsFirst`** (`RecordedBeforeSent`), from `BaseInv` and `ItemInv`: an item
  is decided only after the ledger is, so that an item and its groups agree in
  the middle of a torn decision as well.
* **`SettledIsPaid`**: a settled batch was included with success, for every
  `Latency`. `FoundInv` says that what the job was told is still so.
* **`PaidAndRefundedOnlyInTheGap`** (`BothOnlyInTheGap`),
  **`WithdrawalsImplementTransfers`** (`ImplementsTransfer`) and **`NoMoneyLost`**
  (`MoneyAccountedFor`), for every `Latency`: a transaction that was absent and is
  past its `maxTime` can no longer be included, so what was refunded is not paid
  later; only what was included while the answer travelled is paid already.
  `AskedInv` (what the job was told is absent and is so no longer was asked about
  before the deadline) and `RefundInv` (a reversed batch can no longer
  be included) make it inductive; `BooksInv` adds that what was funded is on the
  accounts or outside them. What the gap does is part of the statements, and that
  it happens is the finding `payout_latency`.

### Client

* **`TurnsTypeCorrect`**, **`MutexAlwaysHeld`**, **`HooksNeverMeasure`**, for the turn
  machine alone: `TurnsInv`, the conjunction of the three, is inductive. The
  proofs go handler by handler; each handler first expires sessions, so the
  lemmas about `Lasting`, `Holders` and `Ended` carry most of the weight.
* **`ClientTypeCorrect`**, **`ShownOnce`** (`OneShowPerDelivery`), from
  `ClientInv`. A step of the client is a step of the turn machine or leaves it
  alone (`MachineStep`), which brings `TurnsInv` over. The rest speaks of the
  places an ad can be in: `AheadApart`, before it is shown (a reply, the cache,
  the show) it is in one place once; `PastInv`, what was written, posted or
  decided was delivered and is ahead no more; `FileInv`, each ad has one line
  in the file; `MarkInv`, only what the server decided is marked or answered.
  The property alone is not inductive: it does not say that what is in the
  places was delivered, so a new delivery could meet an ad that is there already.
* **`ClientKeepsPromise`** (`Spec => ImplementsJourney`): the stage of every ad
  moves only along `Journey` (`StageFollows`), and a waiting ad is given up only
  if as many others wait as the queue holds (`RoomMade`): the rewritten file
  keeps the newest `MaxEntries`, and each ad has one line. A step that counts a
  misreading is a fault of `Journey` (`Goes` or back from decided), every other
  one is a step without.

### Identity

* **`TypeCorrect`**, **`SingleUse`** (`OneTokenPerChallenge`), **`LogoutLasts`**
  (`LogoutIsFinal`), **`PayableOnceAnswered`** (`LoggedInIsPayable`), from
  `IInv = TypeOK /\ UsedOnce /\ OnDisk`. `TypeOK` holds the equation between the
  count of challenges and their number, which every operation has to keep.
  `UsedOnce`: a challenge that is open has no token, and numbers are not used
  again, so of two verifications that found the same challenge only the first
  finds it still open after its `await`. `OnDisk`: memory and disk agree except
  inside an action, and `TornLogin` and `TornLogout` end in a restart, which
  makes them agree again; so a restart finds what was answered.

### Installation, vault, names

* **`InstallationProofs!GivenUpLoginsAreSilent`** (`Spec => []LogoutSilences`):
  a daemon that takes reports works under no login, under the one on disk, or
  under one the server has revoked or was never told of. The invariant is
  `WhoKnown /\ Chained(todo) /\ Told`. Only the removal of the credentials can
  take a login from the disk without a trace, so the proof needs that the list
  of a command never reaches `clear` except through `revoke` (`Chained`, over
  every suffix of every program) and that at `clear` the login is already
  revoked or dropped (`Told`). The property is about daemons that listen; the
  invariant is about every process, since one that still boots will listen.
* **`StandaloneProofs!AlwaysBacked`**, **`AlwaysCanWithdraw`**, from `TypeOK /\
  Backed`, for finitely many accounts with the vault among them (`Sound`): a
  release pays two receivers, either of which may be the vault itself or the
  advertiser, and takes the whole amount off a balance; the tokens that leave
  the vault never exceed it.
* **`StandaloneProofs!NamesStayUnique`**, **`RowsLeadToTheirCards`**, from
  `TypeOK /\ NamesUnique /\ IndexExact`: uniqueness is not inductive without an
  exact index, which has to survive a change of letter case only, a failed
  write and a restart. **`RowsHaveOneOrder`**: if names have a strict alphabetical
  order, two rows of the board are ordered one way. Its hypothesis is on the
  constant `Precedes`; that names of different publishers differ comes from the
  invariant.

`Vault` and `Profiles` have no run: their state spaces are unbounded in
amounts and earnings, and their theorems cover every instance.

### What stays with TLC

* Liveness, and everything that depends on fairness or `ENABLED`:
  `ReservationEnds`, `EveryBatchDecided`, `PayeeFreed`, `PaymentsCredited`,
  `MutexFreed`, `DrainsUnlessRefused`, `ComesBack`. No prover here reasons about them.
* Induction over data and recursive operators are out of reach; no module here
  declares a recursive operator.

## 5. Not modelled

* `PayoutRunner.run` and `PayoutJob.run`: nothing schedules them at this commit.
* HTTP parsing, pages, statistics and reports, the shape of terminals,
  sanitising: input and output, or functions on strings.
* The texts of campaigns and pools, and the text of the entries in the settings
  file; what matters of them is whose they are.
* A clock that goes backwards. `systemClock` is the wall clock and could; every
  deadline in the code relies on it not doing so, and the model assumes it.
* Several processes on one database: the deployment runs one.
* The assets of the ledger: one asset is modelled.
* The wait of 72 hours after a change of wallet: at this commit nothing changes
  a binding, so the wait never runs.
* The one-project rule of a team: two requests that wait for their bodies at once
  both pass it (`app.ts:818-835`). `AskProject` and `CreateProject` have the race,
  no property says that there is one project, and the run `auction` has one
  request under way.
* A write of the queue cut exactly before its newline, where the next line would
  be lost with a good one; a torn line is lost alone or with the next.
* Back-off of the client and the collector of rate-limit buckets: they only
  delay, or only forget buckets that are full.

## 6. Plan

1. `Client` with several sessions in its run, and with several events in a
   request; the theorems already cover both.
2. `reclaim` and the solvency report as actions over the ledger of `Billing`.
3. Lemmas for the conditions under which the liveness properties hold: that the
   step each of them waits for stays enabled until it is taken.

## 7. Running it

    tlc -workers 2 -config Billing.cfg MCBilling            # BillingTwo, BillingSharedIds
    tlc -workers 2 -config Payout.cfg MCPayout              # PayoutLatency, PayoutOrphan
    tlc -workers 2 -config Auction.cfg MCAuction
    tlc -workers 2 -config Identity.cfg Identity
    tlc -workers 2 -config Turns.cfg Turns
    tlc -workers 2 -config Client.cfg Client                # ClientOverlong
    tlc -workers 2 -config Installation.cfg Installation
    for m in Totals Billing Payout Client Identity Installation Standalone Auction; do tlapm ${m}Proofs.tla; done

With two workers the longest runs (`identity`, `installation`, `payout`) take
about two and a half minutes, `billing`, `client` and `turns` about two, the others
about a minute or less.
