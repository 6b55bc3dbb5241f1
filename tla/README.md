# Verification of Synapse web

TLA+ modules about `synapse-web`, the Next.js dashboard of the Synapse bridge:
what its stateful parts do, model-checked with TLC on small instances and, where
it matters most, proved with TLAPS for every value of the constants. Paths
below are relative to the repository.

1. [The system](#1-the-system) – components, state, interactions, hazards
2. [The modules](#2-the-modules) – what models what
3. [The runs](#3-the-runs) – what is checked, with which bounds
4. [Fairness](#4-fairness)
5. [The proofs](#5-the-proofs)
6. [What the code gets wrong](#6-what-the-code-gets-wrong)
7. [What is not modelled](#7-what-is-not-modelled)
8. [Plan](#8-plan)

## 1. The system

The application is a single page that talks to a Soroban RPC server, to a
browser wallet and to `localStorage`; there is no server of its own beyond a
health route. Around it stand Node scripts and workflows that deploy, roll back
and maintain the repository. All of it is JavaScript: a call runs to completion,
so the interleavings are those of awaits, timers, browser events, React effects
and listeners called back in the middle of an operation, plus the outside world
(servers, wallets, other tabs, pipelines, operators).

| Component | State | Operations | Talks to | Correct when |
| --- | --- | --- | --- | --- |
| **Signing queue** `lib/wallet/signingQueue.ts` | `items`, `activeId`, `running`, `cancelled`, one promise per request | `enqueue`, `cancelRemaining`, `drain`, `emit` | wallet (popup), RPC (`build`), listeners inside the call | one popup at a time, FIFO, nothing lost, every promise settled once and truthfully |
| **Event poller** `lib/soroban/events.ts` | `cursor`, `pollTimer`, `running`, `connected` | `start`, `stop`, `poll`, `scheduleNext`, visibility handler | RPC, provider's listeners, document visibility | each event once, never asleep, silent after `stop` |
| **Soroban provider** `lib/soroban/SorobanProvider.tsx` | contracts, active contract, endpoint, network, event list, health | `setContractId`, `addContract`, `removeContract`, `saveCustomEndpoint`, `clearCustomEndpoint`, `setNetwork` | poller, `localStorage`, every hook below it | the events are those of the selected contract |
| **Live transactions** `lib/soroban/useLiveTransactions.ts`, `transactionMerge.ts` | `enriched`, `fetchedIds`, `paused` | merge of events over rows, lookups on the contract | provider, `contract.ts`, wallet address | rows are of the selected contract, placeholders are looked up once |
| **Wallet session** `lib/wallet/WalletProvider.tsx` | address, accounts, provider, mode, error; wallet id in `localStorage` | restore, `connect`, `disconnect`, `watchAddress`, `switchAccount` | wallet kit | a late answer never undoes a newer choice |
| **Contract calls** `lib/soroban/contract.ts` | endpoint health and cool-down | select, probe, simulate, submit, fee bump | RPC servers, wallet | failover and failback, a call is submitted once |
| **Rate limiter** `lib/soroban/rateLimiter.ts` | tokens, queue | `acquire`, `refill`, `destroy` | timers | at most a bucket ahead of the refills, FIFO, nobody waits for ever |
| **Toasts, notifications, drafts, transaction cache, flags** `lib/toast`, `lib/notifications`, `lib/forms`, `lib/storage`, `lib/flags` | small stores, some persisted | push/dismiss, reduce, debounce/discard, put/evict, load/override | timers, IndexedDB, `localStorage` | caps and priorities hold, nothing discarded comes back |
| **Automated rollback** `.github/workflows/rollback.yml`, `scripts/deploy/rollback-policy.mjs`, `record-promotion.mjs` | `state.json` on a branch; the run in progress | record, collect, decide, push, roll back | deploy pipeline, operator, monitoring, platform | no flapping, breaker cleared by humans only, the right build restored |
| **Canary rollout** `scripts/deploy/canary-controller.mjs`, `canary-policy.mjs` | stage, probes | poll, approve, complete, roll back | platform, operator | promoted on evidence only, never left half-way |
| **Service worker** `public/sw.js` | two caches | install, activate, fetch | network, pages | no error page cached, a page that is visited again becomes current |
| **Uptime check** `.github/workflows/uptime-check.yml`, `app/api/health`, `lib/soroban/rpcHealth.ts` | a request with its timeout | page and health checks, escalation | deployment, RPC node | alarms name what was wrong, a hang that lasts is reported |
| **Dependency automerge** `scripts/dependabot-automerge` | the triage in progress, its comment, the armed merge | read files, read checks, decide, comment, arm | GitHub, Dependabot | what is merged is what was judged and would be allowed |
| **Baseline gate** `scripts/visual-regression-approval.mjs`, `visual-regression-governance.yml` | verdict per commit | list reviews, look up permissions, evaluate, enforce | reviewers | a changed baseline is green only on an independent approval of that commit |
| **Flake history** `scripts/test/flake-history.mjs`, `flake-history.yml` | history on main, proposals, quarantine | fold, propose, merge, enforce | test suite, maintainers | a history says what its runs showed, no quarantine is permanent |
| **Alert rules** `lib/telemetry/alertRules.ts` | – | evaluate | monitoring | a worse sample never fires less |
| **Dependency audit** `scripts/ci/audit-gate.mjs`, `dependency-audit.yml` | allowlist | audit twice, judge | registry | green means fixed, small or accepted |
| **Presentation and the rest** | – | formatting, parsing, rendering | – | – |

How the parts of the page work together: a contract selection makes the
provider stop its poller, clear the events and start another; the poller's
batches are prepended to the provider's list; `useLiveTransactions` folds the
list over the known rows and asks the contract, through the RPC, about the rows
it knows by id only; the wallet session gives the address those calls are made
with; a write would go through the signing queue to the wallet.

What is hard, and hardly reached by a test:

- **re-entrancy**: the signing queue calls its listeners in the middle of its
  operations, and they may call the queue;
- **awaits**: state read before an answer and used after it (poller, provider,
  lookups, wallet, canary controller);
- **timers against events**: a tab that is hidden and shown while a poll is in
  flight, a debounce that fires after a discard;
- **React**: effects run after a commit, children first, so a child may act on
  the parent's old state;
- **lost answers, retries, cursors** of the RPC; a fee bump of a transaction that
  may already be applied;
- **late answers** of a wallet, of endpoint validations and of flag loads that were
  superseded;
- **bounded stores** at their bound: buckets, stacks, lists, caches;
- **heads that move** while a gate reads them: pull requests, reviews, advisories;
- **several steps that may fail one by one**: a workflow that decides, pushes
  and then moves production.

`PROJECT.json` lists these as hazards, line by line, with the properties that
would catch them.

## 2. The modules

| Module | Stands for |
| --- | --- |
| `SigningQueue` | `lib/wallet/signingQueue.ts` |
| `SerialSigner` | what the queue promises: the specification `SigningQueue` implements |
| `SigningQueueProofs` | theorems about `SigningQueue` |
| `EventPoller` | `lib/soroban/events.ts`, one poller from `start()` to `stop()` |
| `EventPollerProofs` | theorems about `EventPoller` |
| `TransactionMerge` | `mergeTransactionEvents()` as a fold |
| `LiveTransactions` | provider's event list, contract switches, hook effects; composes `TransactionMerge` |
| `RollbackPolicy` | `rollback.yml` with `rollback-policy.mjs` and `record-promotion.mjs` |
| `RollbackPolicyProofs` | theorems about `RollbackPolicy` |
| `CanaryRollout` | `canary-controller.mjs`, `canary-policy.mjs`, `canary-override.yml` |
| `CanaryRolloutProofs` | theorems about `CanaryRollout` |
| `LiveTransactionsProofs` | theorems about `LiveTransactions` and the merge |
| `Lists` | `filter()` by id and `slice(0, n)`, which the stores share |
| `WalletSession` | `lib/wallet/WalletProvider.tsx`, `kit.ts`, `storage.ts` |
| `ToastQueue`, `TxCache`, `Notifications`, `DraftPersistence`, `FeatureFlags` | the stores of a browser session, one module each |
| `RateLimiter` | `lib/soroban/rateLimiter.ts` |
| `RpcEndpoints`, `Submission` | `lib/soroban/contract.ts`: endpoint breakers; calls and fee bumps |
| `SorobanEndpoints` | endpoint and contract choices of `SorobanProvider.tsx`, `contractSelection.ts` |
| `ServiceWorker`, `Uptime` | `public/sw.js`; `uptime-check.yml` with the health route |
| `RpcAccessProofs` | theorems about `RateLimiter`, `RpcEndpoints`, `Submission`, and what `MCRpcAccess` adds to them |
| `AutomergePolicy`, `Automerge` | `policy.mjs` as operators; `triage.mjs` and its workflow, which use them |
| `BaselineApproval`, `FlakeHistory`, `AlertRules`, `AuditGate` | the other gates of the repository |
| `ClientSessionProofs`, `GatesProofs` | theorems about `MCClientSession`, `MCGates` and their parts |
| `MC…` | the instances TLC runs: `MCEventPoller`, `MCCanaryRollout`, and several parts side by side in `MCClientSession`, `MCRpcAccess`, `MCFeedAndRollback` and `MCGates` |

**Signing queue.** A step is the code between two points where other code can
run. There are two kinds of such points: an `await`, recorded per request in
`awaits`, and an `emit()`, in which listeners run inside the call. What a call
suspended in an `emit()` still has to do is a frame of `stack`; only the
innermost frame can go on, as on JavaScript's call stack. `enqueue()` thus takes
two steps (`Enqueue` up to its `emit()`, `Executor` from there), and `drain()`
one per stretch: `Round` picks the next request, `RejectAtOnce`, `StartBuild`,
`OpenPopup`, `WalletSigns` and `AwaitRejects` are the ways on through its body,
`NextRound` the emit at its end. A promise is `"open"` once `enqueue()` has
stored its handlers; `settle()` on a request without handlers does nothing, as in
the code.

**Event poller.** The poller feeds itself: `poll()` ends in `scheduleNext()`,
whose timer calls `poll()`. Such a cycle is a *chain*; the code assumes there is
one and has one `pollTimer`, the model has as many as the code can start.
`phase` says where each chain is, `after` and `upto` what its request asked and
got. The server's ledger is external: events are numbered, a page is a range.

**Live transactions.** One action per update together with the effects React
runs after it. A poller is abstracted to what `EventPoller` shows of it as long
as polls do not overlap: consecutive batches. Answers of pollers that were
stopped stay under way and are dropped on arrival, as by the poller's `running`
test. A row keeps whether it is a placeholder, and its status.

**Rollback.** `branch` is the pushed `state.json`, `job` the run in progress
with its own copy (`work`): checked out and, for a dispatch, changed by
`recordPromotion` (`Start`), judged (`Evaluate`), pushed (`Push`), and acted upon
(`Restore`). Every step has its failure (`SignalsFail`, `PushFails`,
`RestoreFails`), which ends the run. The concurrency group is the variable
`pending`: one run waits, a newer one replaces it. Promotions by the pipeline
(`Deploy`, external) happen at any moment. `decide` keeps the order of the
code's early returns; the code's `hold("manual-hold")` of mode `never` and of an
operator's hold in force are two verdicts (`operator-never`, `manual-hold`),
because only the first carries the mode; likewise `latch` and `breaker-open`.

**Canary rollout.** `rel` is the platform's rolling release and `serving` the
deployment that gets the rest of the traffic, both as the controller's adapter
uses them; `ctl[c]` is the controller of canary `c`. A poll is cut at its awaits:
`Read` (`getRelease()` and the exits after it), `Observe` (probe, signals,
`decide`) and `Act` (the request). Between them operators act: the override
workflow reads (`OverrideRead`) and requests (`OverrideActs`) in two steps, the
dashboard aborts or approves at once. A failed call ends the controller
(`PollFails`, `ActFails`), with or without the request taking effect. `Tick` is
one poll interval; `age` counts intervals up to where no threshold is left.
`decide` keeps the order of the rules; the three web vitals, judged by the same
rule, are one, and `Answers` is the set of verdicts the signals can give.

**Side by side.** The stores of a session, the parts of the way to the network
and the gates of the repository share no state in the code (the rate limiter and
the endpoint manager are not called by the application at this commit; the
stores do not know one another). `MCClientSession`, `MCRpcAccess` and `MCGates`
therefore put them side by side: the variable `part` says which one moves in a
behaviour, and the `…Rest` predicates fix the choices that the initial
states of the others would offer. The states of such a run are the sum of its
parts', and each property is about the part it names; `Parts` says which parts a
configuration lets move. Each part keeps the names of its own variables and
actions, which is why they are prefixed (`WalletInit`, `ToastNext`, …). The
signing queue is in `MCRpcAccess`, whose other liveness properties share its
fairness; the live feed and the rollback share `MCFeedAndRollback` only because
both have nothing but safety properties, so that symmetry is sound.

**Wallet session.** One step per stretch between two awaits. A call of
`connect()` goes through its modal, the pairing URI of WalletConnect, the address
and the accounts, and may fail at each; `restore` is the session that is restored
on load. The kit is one object: an address is asked of the module selected *at
that moment*, whichever call selected it. The pairing path is kept because
`connect()` has it, although `kit.ts` registers no WalletConnect module.
`overlapped` is a history variable: the session is coherent at rest only as long
as operations follow one another.

**Stores.** `ToastQueue`: time is relative, a timer holds the ticks it has
left. `TxCache`: a record is its timestamp; the transactions of IndexedDB run in
the order they were created, or abort. `Notifications`: the effect over the
provider's list runs after the list was rendered, so that a click may come
between. `DraftPersistence`: the form may hand the hook a stable values object or
a new one on each render, which decides whether the debounce is armed again.
`FeatureFlags`: a load that was superseded goes on and still writes the cache.

**Way to the network.** `RateLimiter` cuts an interval in parts, so that calls
come at its beginning or its end; `surplus` and `lately` are history variables: by
how much the grants of the worst stretch of time that ends now exceed what its
refills paid, and the grants of the last interval. `RpcEndpoints` has one breaker
per endpoint and probes that overlap. `Submission` models an account on the
network: a transaction is accepted if its sequence number is the next one,
replaces one of the same number in the pool if it is a bump, is applied when the
ledger likes, or expires; any answer may be lost, and a user may try again after a
failure. `SorobanEndpoints` is the part of the provider that outlives a reload: a
custom endpoint is validated by what `getHealth` says (an endpoint that reports no
passphrase, or where none is expected, passes, as in the code), `setNetwork()`
takes any endpoint and passphrase unread, and validations end in any order among
all of this. `ServiceWorker`: `cache.put()` is not awaited and ends in any order.
`Uptime`: a newer run of the workflow cancels the one in progress but not the
request that run has made, the deployment may die before or while the health
request waits, and every run that fails escalates.

**Gates.** `Automerge` cuts a triage at its requests to GitHub: files, checks,
comment and merge are read or written one by one while Dependabot pushes and
checks move; `AutomergePolicy` has the decision as operators (version order,
changes of manifests and workflow references, the verdict of checks). A required
context that the API does not tell is `Unknown`, lockfiles are accepted unread.
`BaselineApproval` has the concurrency group of the workflow: a review event
cancels the job in progress and skips its own. The job lists the reviews, looks up
the reviewers' permissions one by one (each lookup may fail, and then the
`author_association` decides), evaluates and enforces; a commit without the suite
or its snapshots skips all of this and is green. `FlakeHistory` numbers the runs
of the suite (`log`) and compares what a history says with them. `AlertRules` is
the registry and its evaluation, a window being a step, so that two windows can be
compared. `AuditGate` cuts the job between its two audits, and any other step of
it may fail.

## 3. The runs

| Run | Instance | Shows |
| --- | --- | --- |
| `event_poller` | 2 chains, 3 events of which one unrecognised, pages of 2 | `ExactlyOnce`, `HealthIsTrue`; `KeepsPolling`, `StopQuiesces` |
| `feed_and_rollback` | *feed*: 2 contracts, 1 transaction, 3 events each, list of 2, 2 switches; *rollback*: 3 builds, window 1, cool-down 2, maximum 1, clocks 1 apart, 5 instants | `RowsAreOfTheContract`, `PlaceholdersAreLookedUp`, `OneLookupAtATime`; `TargetNotWithdrawn`, `OnlyAnOperatorResets`, `NoFlapping`, `MovesAreOnRecord` |
| `live_status` | feed only: 2 events, no switch | `KnownRowsFollowStatus` is violated |
| `rollback_target` | rollback only, `previous_ref` optional | `TargetNotWithdrawn` is violated |
| `canary_rollout` | 2 canaries of which one broken, 2 stages, bake 1, limit 1, streak 2, window 3, 2 probes at least, ratio 1/2 | `StageIsBaked`, `BrokenNeverAdvances`; `RolloutEnds` |
| `client_session` | 2 wallets, one with two accounts, 2 calls; 4 toasts, stack up to 2; 3 records, cap 2, 2 calls; 4 events, list of 3, 2 notifications; 3 form values; 2 loads, clock up to 1 | `SessionIsCoherent`; `ErrorsSurvive`; `OverCapIsEvicted`; `GoneStaysGone`; `StorageFollowsForm`; `NeverBackToEmpty`; `StoresAreSound` |
| `rpc_access` | bucket of 2, 6 calls, intervals in 2 parts; 2 endpoints, 2 probes; 3 tries; 2 endpoints entered, 2 networks of which one is expected, 3 contracts, 2 validations; 1 page, 1 API URL, 2 requests, 2 versions; 2 checks; 3 signing requests, calls nested 3 deep | `OneBucketAhead`, `WaitersAreServed`; `FailsBack`; `InvocationTakesEffectOnce`; `FreshInTheEnd`; `AlarmsAreRight`; the signing queue implements `SerialSigner` (`ServesSerially`), `PromiseTellsOutcome`, `OutcomeIsFinal`, `EveryRequestEnds`; `AccessIsSound` |
| `limiter_burst`, `uptime_blip` | one part of the same | `OneBucketPerInterval`, `OnlySustainedFailureAlarms` are violated |
| `repository_gates` | 7 contents, 2 pushes, 2 checks of which one required; 3 users (the author is associated, one other may write and is associated, one neither), 2 pushes, 2 reviews; 1 test, 4 runs, window 2; samples around each limit; 2 packages, 3 advisories, 2 days, 1 exception | `ArmedIsSafe`, `HeadIsJudged`; `GreenIsApproved`; `HistoryIsTrue`, `NoPermanentQuarantine`; `WorseStillFires`; `GreenIsEarned` |
| `automerge_additions`, `gate_ignores_reviews` | one part of the same | `AdditionsAreHeld`, `GateFollowsReviews` are violated |

The largest are `feed_and_rollback` (6.5 million distinct states, three minutes)
and `repository_gates` (6.1 million, two and a half); `rpc_access` has 101,700.

Some of these properties are conjunctions of named parts, each with a comment of
its own in its module: `SessionIsCoherent` (a watched session has no wallet,
nothing pending means nothing shown, agreement at rest), `StoresAreSound` (types
of the six stores, `TimedToastEnds`, `OverCapIsNoticed`, `NothingUnnoticed`,
`KillSwitchHolds`), `StorageFollowsForm`, `OverCapIsEvicted`, `AccessIsSound`
(types, `ServedInOrder`, `BreakerIsCoherent`, `SuccessIsApplied`,
`ReloadKeepsChoices`, `CachesAreServed`), `AlarmsAreRight`, `ArmedIsSafe`,
`HeadIsJudged`, `HistoryIsTrue` and `GreenIsEarned`.

Invariants that section 5 proves for every value of the constants, and that no
other question needs, are not run again: the types of `SigningQueue`,
`EventPoller`, `LiveTransactions`, `RollbackPolicy` and `CanaryRollout`, and
`OnePopup`, `StrictFifo`, `NoLostRequest`, `NeverAsleep`, `StopDisarms` and
`BreakerLatches`.

Why the bounds are enough to meet the interesting cases:

- *Signing queue*: the properties are about pairs of requests; three allow one
  to end, one to be served and one to wait, and let a listener interfere with a
  second while a third is served. Depth 3 is a listener that is called by a call
  a listener made. A request is enqueued once, so the list is bounded.
- *Event poller*: a second chain is where the code goes wrong; a third brings
  no state of another kind, since everything that is guaranteed is guaranteed
  until two polls overlap. Three events and pages of two give empty, partial
  and full pages, and a second page; one dropped event lets the cursor pass over
  it.
- *Live transactions*: three events are a registration and two status changes;
  a list of two makes the cap drop one; two switches go away and come back.
- *Rollback*: with window 1 and cool-down 2, two automatic rollbacks fit into
  five instants, so the count passes the maximum 1 and latches. Three builds are
  what a rejected build, a restored one and a newer one take. Runs whose clocks
  differ reach `clock-skew`.
- *Canary rollout*: two stages are one that is followed by another and one that
  is followed by completion. A second canary is started after the first was
  aborted, so that a controller meets a release that is not its own. A window of
  three lets failed, healthy, failed fire the ratio rule without the streak rule;
  with two probes at least, a stage that is baked after one poll still waits for
  its evidence. Signals of levels 0 and 1 lie on both sides of the ceilings.

- *Client session*: two calls are what it takes to overtake one another (wallet,
  cache, loads); four toasts overflow a stack of two twice and have three
  priorities; three records exceed the cap of two while another call writes;
  four events exceed the provider's list and the list of notifications.
- *Way to the network*: six calls empty the bucket, fill the queue and outlive
  two refills; two parts of an interval let calls come just before a refill and
  just after it; two endpoints are the preferred one and its stand-in, and two
  probes of one of them overlap; three tries are a call, its bump and either a
  bump of the bump or a second call. Two versions of a page and two requests make
  an old answer arrive late. An expected network and another one, each reported
  or not, are the cases of a validation; two validations end in either order, and
  before or after a choice that was made later.
- *Gates*: the contents are a patch, a minor, an exempt package, an addition, a
  file of another kind and two moved action references. Two pushes and two reviews
  give each review a commit that is not its own; a user who may write and is
  associated, and one who is neither, lie on both sides of the permission
  lookup and of what it falls back to. One exception of the audit is what the
  properties tell apart (that an entry accepts an advisory, expires or is
  withdrawn); with two the run has 7.1 million states instead of 6.1, and
  `GreenIsAlwaysEarned` holds for any number. One test is enough for the
  history, since tests are folded separately and share only the numbers of the
  runs; four runs overflow the window and the runs that are kept. The samples lie
  on and beside each floor, ratio and count of the registry.

Deadlock is checked wherever the system goes on. In `rpc_access` and
`repository_gates` (and the violated runs on either) it is not: the tries
of a call and the runs of a workflow are bounded by constants, and where the last
of them has ended nothing is left to do.

## 4. Fairness

Fairness is assumed only where the repository's code or its platform provides
it, and only in the specifications that have liveness properties.

- `SigningQueue!FairSpec`: `Continue` (JavaScript goes on with a call whose
  listeners have returned) and `Answer` (`build()` and the wallet answer or
  fail). The second is an assumption on the user too: who never answers a popup
  stops the queue, since `drain()` has no timeout. Cancelling is not fair.
- `EventPoller!FairSpec`: the steps of each chain (an armed timer fires, an RPC
  answers or fails). Visibility, starting and stopping are not fair.
- `CanaryRollout!FairSpec`: time passes (`Tick`) and each controller that runs
  goes on (`Step(c)`: every call it makes has a timeout, every sleep ends).
  Starting, operators and the dashboard are not fair, and nothing makes a
  controller fail.

- `TxCache!CacheFairness`: IndexedDB runs or aborts the next transaction, and
  calls go on when theirs has ended.
- `RateLimiter!LimiterFairness`: the refill timer goes on until it is cleared; it
  is assumed only where the limiter is the part that moves.
- `RpcEndpoints!RpcFairness`: probes end, and the timer starts a probe of each
  endpoint again and again if it may do so again and again (strong, since probes
  take turns in the bounded set). Nothing is said of endpoints: `FailsBack` has
  the preferred one up for good as its hypothesis.
- `ServiceWorker!WorkerFairness`: requests and `cache.put()` end. This is
  generous: `sw.js:62-70` does not hand the revalidation to `waitUntil()`, so a
  browser may stop the worker first. Visits and the network are hypotheses of
  `FreshInTheEnd`.
- `Uptime!UptimeFairness`: the timeout fires and the steps of a job follow one
  another; that the RPC node answers is not assumed.

`KeepsPolling`, `EveryRequestEnds`, `RolloutEnds`, `OverCapIsEvicted`,
`WaitersAreServed` and `AlarmsAreRight` are therefore about the
code's own wake-ups, not about the environment.

## 5. The proofs

All theorems hold for every value of the constants that satisfies the `ASSUME`s
of the module; TLC evaluates these on each run. Every safety property of a run
that passes, invariant or action property, is stated by a theorem.

The assumptions say what the code's types, its registries or its validators
say: the stacks' priorities and windows are numbers and one window is the longest
(`WindowsAssumption`: the longest is where `Forgotten` stops counting), the
records of the cache are a finite set of timestamps, a wallet that connects has an
account, samples are integers, advisories name packages of the tree and a
severity the gate ranks, manifests hold versions or something unreadable, and a
history is cut no shorter than what staleness looks at. `PolicyAssumption` is
`validatePolicy()` and a `maxStageMinutes`.

**`SigningQueueProofs`.** The inductive invariant `QueueInv` strengthens the
safety properties by what makes them true: *one drain* (`OneDrain`: at most one
`drain()` is alive, suspended in an emit or at an await, and none if `running` is
false), *a signing request is held by it* (`SigningIsHeld`), *an executor runs
once* (`ExecutorRunsOnce`) and *a request is listed once* (`QueuedOnce`). From it
follow `TypeCorrect`, `Exclusion`, `Fifo`, `NoneLost`, `Truthful`, the action
property `Finality`, and `Refinement`: every step of the queue is a step of
`SerialSigner` or leaves its variables alone. `Settlement` shows what the claim
`EndedIsSettled`, which the code breaks in general, needs: if no listener calls
the queue (`MaxDepth = 1`) every ended request is settled.

**`EventPollerProofs`.** `PollerInv` adds to the types: `Awake` (a timer that
`pollTimer` holds belongs to a living chain), `OneChain` (until two polls
overlap there is one chain, `pollTimer` holds its timer and its poll has set
`connected`) and `CursorHolds` (the poll in flight asks from the cursor on).
`DeliveredOnce`, `AlwaysAwake`, `Disarmed` and `HealthTrue` follow. The part of
`CursorHolds` that a chain asking for the latest ledger has no cursor was found
by the proof: without it the invariant is not inductive.

**`RollbackPolicyProofs`.** `PolicyInv` relates the run to the branch
(`RunFollowsBranch`): until it has judged, the run's copy has the branch's
memory of the automation; once it has, a closed breaker means an operator and a
degraded verdict in mode `auto` means that no guard held; once pushed, both are
equal. With `Latched` of both states it gives `Latches`, `OperatorOnly`,
`NeverFlaps` and `OnRecord`. `TargetServed` has an invariant of its own,
`TargetInv`: a promotion that waits names a predecessor that is not withdrawn,
and as long as a run is in progress production serves the waiting build, so
that the run's own rollback cannot withdraw that predecessor. It needs the
hypothesis `SaysPrevious \subseteq {TRUE}`; without it the run
`rollback_target` refutes the property.

**`CanaryRolloutProofs`.** `RolloutInv` says how far a controller may lag behind
the platform: `NeverAhead` (the stage it knows is not later than the release's,
for its own canary), `TimesTheStage` (where they agree, its clock is not ahead
of the platform's) and `AdvanceHasEvidence` (a decision to advance was made on a
baked stage with enough probes), besides `OffIsFresh` and `BusyHasStage`.
`StagesAreBaked` follows because the platform refuses a stage that is not the
next one and completes only a release that is active. `BrokenStays` rests on
`BrokenInv` (a broken canary has failed probes only, and no decision to advance)
and needs `FailedNum < FailedDen`: with `maxFailureRatio` 1, which
`validatePolicy()` admits, a canary that fails every probe may be advanced before
its streak is long enough. Most actions leave the controllers alone or end them;
the lemma `QuietStep` deals with all of these at once, the others have one each.

**`LiveTransactionsProofs`.** What `mergeTransactionEvents()` makes of a list of
any length is a fact about a loop. The library's induction theorems cannot be
used (they take an operator as parameter), so the induction is done with sets:
`LeastNumber` comes from the well-foundedness of `<` on the naturals, and
`Induction` says that a set with 0 and with each number after its predecessor has
all of them. `MergeIsLastRound` turns the loop into its rounds, `FoldRound` says
what one of them may change, `MergeGives` that a live row has a status its events
give. `FeedInv` says where events are from: a poll on its way carries events of
its contract, a poll of the present poller those of the selected one
(`PollsAreOfTheChain`), and so does the list (`EventsAreOfTheChain`, through the
cap by `CappedBatch`). With it `LiveRowsSound` and, with `HookTypes`, `LiveTypes`
follow. `LookupInv` says what a lookup on its way is: of this or an earlier
selection, and of this one only if `fetchedIds` has it (`LookupsAreRemembered`).
It gives `NoneForgotten` and `LookedUpOnce`, which need no more of the merge than
that an empty list changes nothing.

**`RpcAccessProofs`.** Six components, each with its own invariant. *Limiter*:
the queue is exactly the calls after the last one served, and a token that is left
means an empty queue, from which `InOrder` and `NobodyWaitsBesideTokens` follow
for every capacity. `RateBounded` is what a token bucket that refills at fixed
ticks can promise: over every stretch of time the grants are at most one bucket
more than what the refills within it paid. Its invariant is that this surplus and
the tokens left are together at most a bucket; `GrantsAreServed` says that a refill
serves no more calls than it pays. The promise of the header, one bucket in any
interval, is stronger and false (section 6). *Breakers*: `RpcInv` gives
`BreakersAreCoherent`, and `ClockDecidesNothing`: the second half of
`selectEndpoint()`'s filter, which looks at the clock, never excludes or admits an
endpoint that the first half did not, because only a success clears a breaker and
it clears the time as well. *Submission*: `SubmitInv` says that the numbers of
what was applied are used up and used once, that two tries of one call have one
number, and that a success reported was applied; `EffectOnce` and `SuccessTold`
follow for any number of tries. *Endpoints*: `ReloadKeepsChoices` is inductive by
itself. *Service worker*: what
a cache holds was deployed only because what a request under way may still put
there was (`PutsAreServed`). *Uptime*: a run has noted what went wrong while it
lasted, and why its own request was answered with a failure (`TroubleIsNoted`),
which is what `AlarmsAreAlwaysTrue`, the safety half of `AlarmsAreRight`, rests
on. `AccessIsAlwaysSound` puts the six together
(`AccessInv`; `StepOfParts`: a step of the whole is a step of one part and leaves
the others alone).

**`ClientSessionProofs`.** `ClientInv` has one conjunct per store. *Lists*: the
loop of `filter()` is unrolled into rounds, as the merge above, and
`KeepingIsFilter` says what it returns; toasts and notifications cite it. *Toasts*
(`ToastInv`): ids are distinct, the stack is within its size, each timed toast has
its timer. That an overflow spares the urgent ones needs ranks: `DroppedBefore` is
a strict total order on the stack, and of a finite set with such an order at most
*n* elements are among its *n* last (`TopOfRanks`). *Cache* (`CacheInv`):
`ExcessIsCovered` says, while the store is over its cap, that a call is still to
count, or has counted at least the excess of now; it needs that each transaction
belongs to a call that waits for it (`TransactionsAreAwaited`), since otherwise an
abort could take the last of them. *Notifications* (`NoticeInv`): what is listed
is remembered, without repetition; `AfterAllGives` says what the effect makes of a
list of any length. *Drafts* (`DraftInv`): a form that does not save by itself has
in its timer what it shows, and a cleared form with a stable values object has no
timer. *Flags* (`FlagInv`): a view that came from somewhere is backed by a cache
that every load in progress has read, hence no answer brings the page back to its
defaults. *Wallet* (`WalletInv`): while operations have followed one another, one
call at most is in flight and the rest of the session is a function of where it is
(`OneAtATime`: `RestoreAlone`, `CallAlone`), and what is at rest is `Coherent`;
what holds despite overlaps (a watched session has no wallet) needs no such
hypothesis.

**`GatesProofs`.** `GatesInv` again has one conjunct per gate. *Automerge*
(`AutomergeInv`): a run that was not overtaken works on the head and knows its
files (`RunsAreOfTheHead`, `FactsAreTrue`); checks that were green at once are on
record (`GreenIsNoted`); so what it decides to merge is small and was green
(`DecisionIsSafe`), and stays so while it is armed (`ArmedStaysSafe`). That a
decision of the policy means single patch releases is `DecidedIsSmall`, a lemma
about `bumpLevel()` and the two diffs for any versions. *Baseline gate*
(`GateInv`): who was found to have write access had it when the job began
(`FoundAreEntitled`), so a review that passes the tests of the script is the
independent approval the documentation describes (`DecisionIsIndependent`, which
says it without the order of the tests); a job that let a change pass has seen
one, and a changed baseline that is green comes from such a job. *Flake history*
(`FlakeInv`): every history, on main or proposed, is in order and says of each
test what the last runs that ran it have shown (`HistoryOk`, `TestOk`); the window
is a fold over runs, unrolled as above, and it holds of windows of any length.
*Alert rules* (`AlertInv`): what fires is what the registry says of the sample;
the rest is arithmetic of cross-multiplied ratios. The proof of
`WorseAlwaysStillFires` failed at first, for a good reason: a web-vitals sample
that makes no sense, one with a negative baseline, fires nothing, however slow,
and such a baseline may appear in a window that is worse. The property now asks
for a usable sample. *Dependency audit* (`AuditInv`): the reports of a job are of
the present tree, and a red judgement has a reason that lasts until somebody
commits and that a later job knows (`RedHasReason`).

Only model-checked: liveness, which is out of the prover's reach, as are
fairness and ENABLED (`EveryRequestEnds`, `KeepsPolling`, `StopQuiesces`,
`RolloutEnds`, `OverCapIsEvicted`, whose safety half `OverCapIsNoticed` is proved,
`WaitersAreServed`, `FailsBack`, `FreshInTheEnd`, and the half of `AlarmsAreRight`
that a hang is reported), and the violated claims, which are false. Loops
over lists are written as recursive functions and proved about round by
round; no module declares a RECURSIVE operator.

## 6. What the code gets wrong

Six of these are runs that TLC ends with a counterexample.

- `live_status`: batches are prepended, so a later status change is folded
  before an earlier registration and lost.
- `rollback_target`: a rollback leaves `currentRef` at the rejected build; the
  next promotion without `previous_ref` makes that build the rollback target.
- `gate_ignores_reviews`: `docs/visual-regression-ci.md:28` has the gate evaluated
  again when a review lands; the job is skipped on review events, and the event
  cancels the evaluation in progress.
- `automerge_additions`: the comment at `policy.mjs:299` wants additions held; the
  loop passes over packages the base does not have.
- `limiter_burst`: the header of `rateLimiter.ts` (4-6) promises that the rate never
  exceeds `tokensPerInterval` per `intervalMs`; `refill()` fills the bucket at fixed
  ticks, so the bucket of one interval and that of the next go out around a tick,
  within less than one interval. What does hold is `OneBucketAhead`.
- `uptime_blip`: `uptime-check.yml:9-10` and `docs/uptime-monitoring.md:51-52`
  promise an alert only after three failed checks in a row; no step reads
  `FAILURE_THRESHOLD`, and the first run that fails escalates.

Not runs, but worth knowing. In the browser:

- A listener that cancels while `enqueue()` announces the request ends it before
  its promise has handlers; the promise never settles. `EndedIsSettled` states it
  in `SigningQueue`; theorem `Settlement` says when it holds. `EveryRequestEnds` is
  about the request, not its promise, and holds all the same.
- A listener that throws ends `drain()` with `running` still true
  (`signingQueue.ts:136`), which stops the queue.
- A tab shown while a poll is in flight starts a second polling chain; `stop()`
  knows one timer and leaves the other (it fires once and ends: `StopQuiesces`
  holds). Hiding has the same cause: a poll in flight arms the next one.
- Without a cursor the catch-up poll starts at the latest ledger and skips what
  the pause held.
- A lookup answered after a switch enriches the row of another contract with the
  same transaction id.
- A failed wallet operation that overlaps another leaves the stored wallet id, the
  provider and the address of different sessions; the provider is kept when the
  wallet names no address. Hence `overlapped` in `SessionAtRest`.
- `evictDb()` of two overlapping calls counts the same excess twice and deletes
  more than it (`OverCapIsEvicted` says nothing of too few records).
- An outage on a first visit leaves flags at their defaults, and one that
  outlasts a reload without a cache brings those back.
- A validation of a custom endpoint that ends late puts its endpoint over whatever
  was chosen meanwhile, with `setNetwork()`, by clearing, or by a later validation
  that ended first. No document promises otherwise, so no property says so.
- An endpoint passes validation when it reports no passphrase or none is expected,
  and `app/layout.tsx:88-91` gives none. `setNetwork()` takes any endpoint unread,
  and the passphrase it sets outlives the endpoint it came with.
- A call whose transaction is still pending when polling ends is reported FAILED
  (`contract.ts:248-253`) and may still be applied: `SuccessIsApplied` holds in one
  direction only.
- The cool-down of `selectEndpoint()` decides nothing (`ClockDecidesNothing`).
- `sw.js:99`: a navigation that is offline and not cached resolves to `undefined`
  before `caches.match("/")` is tried.

In the repository's automation:

- The canary controller exits on the first failed platform call and the release
  stays active; the roll-back step that `docs/deploy/canary-rollout.md` promises of
  the deploy job is not in it.
- It rolls back to the base it read before probing (`canary-controller.mjs:153`);
  if an operator promoted meanwhile, that undoes the promotion. It takes a
  completed release for its own canary's, since it looks at the state before it
  compares the canary (`:88`).
- `validatePolicy()` does not ask for `maxStageMinutes`; without it a stage that
  gathers no evidence never times out. `PolicyAssumption` asks for it.
- The breaker opens on the rollback *after* `maxConsecutiveRollbacks`
  (`rollback-policy.mjs:404`), as the unit test wants and the header comment and
  `docs/rollback.md` do not; `BreakerLatches` states what the code does.
- A run of `rollback.yml` whose signals fail (`:163`) ends before its push and
  loses the promotion it recorded.
- The texts of `uptime-check.yml` use variables that are not set, and a deployment
  that dies after the page was fetched is reported as an RPC outage (which
  `AlarmsAreTrue` admits).
- The baseline gate is green for a commit without the suite or its snapshot file
  (`visual-regression-governance.yml:39-86`), as the documentation says, hence also
  for one that deletes the snapshots: `GreenIsApproved` is about commits that have
  both. A permission lookup that fails counts an associated reviewer as one who may
  write (`:157-174`), access that was revoked included. One who loses access
  between the lookup and the verdict still counts.
- `triage.mjs:292-293` reads the first hundred files of a pull request only; a
  further page would not be judged. `policy.mjs:613-620` accepts lockfiles unread.
- `flake-history.yml` folds nothing when the suite itself failed; proposals that
  are not merged drop their observations; a test that is stale is still an
  offender; of two quarantine entries of a test only the first counts.
- A sample with a count or baseline that makes no sense fires nothing, whatever
  its p75 (`alertRules.ts:213`); the comment at `:201` wants it so.
- `audit-allowlist.json` has no `exceptions`; an entry expires at the start of its
  day; an advisory published between the two audits is judged as if the package
  were a development dependency (hence `job.known` in `GreenIsEarned`).

## 7. What is not modelled

The table of components in `PROJECT.json` gives the reason for each. In short:
rendering, formatting, parsing and one-shot scripts have no state between calls;
several component files are empty in this commit and `components/Shell.tsx` does
not parse; `lib/wallet/sync.ts` is not imported. Within the modelled components: a
listener of the signing queue that throws, `resetCursor()` (no caller), the
poller's adaptive delays (a timer fires at any time), the optimistic overlay of
`transactionMerge.ts` (not used by the application), the bounded history of the
deploy state, the canary controller's log, report file and exit codes, the
fees of simulated calls and the encoding of their arguments, a sequence number the
network refuses at once (it is one more failed answer), an account the wallet
did not list (`components/Shell.tsx:589` and `:641` offer listed ones only), files
of a pull request beyond the first hundred, the labels and texts of
the automerge comment, a base branch that moves under a pull request, several
flags at once (they are independent), and the transport of telemetry.

## 8. Plan

Done: every part of the application and of its automation that keeps state
between two steps, with six runs that hold and six that do not, and a theorem
for every safety property of the runs that hold. Next, in this order:

1. The abstract feed that `EventPoller` implements until polls overlap, and
   `LiveTransactions` stated over it: today the two meet in a comment of
   `LiveTransactions` and in `ExactlyOnce`. The same for the breakers of
   `RpcEndpoints`, whose clock decides nothing.
2. Theorems that say what is left of a property where its hypothesis fails: the
   session after overlapping operations (`overlapped`), health and cursor once
   two polls have overlapped.
3. The safety halves of the liveness properties: that a waiter's turn comes nearer
   with every refill, that a transaction of the cache is at most so many from the
   head of the queue.
4. A listener of the signing queue that throws, as one more way out of `emit()`,
   and the poller's delays, if a property needs them.
