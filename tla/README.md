# TLA+ models of mptrade

mptrade trades several venues with many cooperating operating-system processes.
What they share is on disk: an outbox of orders, one state file per strategy and
a cache of the account's fills.  This directory models the parts in which an interleaving, a crash
or a lost HTTP answer decides whether an order is submitted twice, lost, or
forgotten.  The models are checked with TLC on small instances; the central ones
carry proofs for instances of every size, checked with TLAPS.

## The system

| Component | Source | State | Operations | Hard parts |
|---|---|---|---|---|
| order-retry outbox | `order_retry.py` | JSONL queue of records: lifecycle, submission state, lease, revision, quantities | enqueue, enqueue_claimed, claim, begin_claimed_submit, complete_claim, discard_expired, consolidate, resolve_accepted_order | every process of the fleet writes it; leases lapse while their owner lives; capacity |
| outbox worker | `order_retry_worker.py` | snapshots of one pass | process_once: expire, claim, look up, poll, resubmit | decisions from stale snapshots, ambiguous venue answers, restarts |
| Instrument.place | `instrument.py` | the claim of one call | guards, persist, fence, submit, complete | failures after each step, exceptions swallowed |
| tracked order lifecycle | `order_lifecycle.py` | one pending intent in a strategy's JSON | submit, reconcile | crash between persist and effect, late venue index |
| monitororder | `monitororder.py` | open orders, initial prices | cancel on TTL, replace through `awaiting_cancel` | cancel races fill; the worker activates the same records |
| intent gateway | `orchestratorTrade/autonomous_intent_gateway.py`, `providers/execution_audit.py` | intents JSON | validate, cancel prior orders, place, discard outbox records | snapshot outside the lock |
| rtrade pair coordinator | `strategies/rtrade_pair.py`, `rtrade.py`, `rtrade_pair_store.py` | round phase, tickets, snapshots, revisions; intents and checkpoint on disk | start, step, exit, hard stop, recovery, adoption | fills during cancels, lost answers, restart in mid-round |
| Binance account cache | `cacheManager.py`, `cacheintegrity.py`, `binance_cache_health.py`, `binance_api/` | rows in memory, data file, manifest, `.previous`, health marker | REST cycle, websocket push, append, compaction, pruning, load, submit permit | a crash between any two writes; threads between two locks; stale evidence |
| FileLock, trade cooldown | `lock/cooldown.py` | lock files; one JSON entry per symbol | lock; reserve, commit, roll back, release | every shared file rests on the lock; the reservations have no caller outside the tests |
| durable state I/O | `state_io.py` | file, previous generation, staging | snapshot, replace, commit, roll back, recover | crash between two writes, a rollback that fails |
| orchestrator | `orchestratorTrade/orchestrator.py` | child processes, heartbeats | start, restart, reload | restart races |
| trailing, spot DCA, position exits, asset guardian | `trailing_core.py`, `strategies/`, `assetguardian.py` | campaign state over one pending order | one tick | state against pending order |
| guards, regimes, signals, trend caches | `order_guard.py`, `market_regime.py`, `cachetrend.py`, ... | price series | allow or refuse | floating point, few states |
| notification, admin, research | `notify_engine/`, `orchestratorOS/`, `offline/` | - | - | no trading state |

A strategy calls `Instrument.place`.  Every guard may refuse; then the intent is
persisted and leased in the outbox (`enqueue_claimed`), fenced
(`begin_claimed_submit`), submitted once over HTTP, and its record completed.
Whatever ends otherwise (refused, timed out, killed) is left to the worker, which
polls the outbox: it looks ambiguous submits up by client order id, resubmits what
is certainly absent, and polls accepted orders until they end.  monitororder reprices
what rests too long: it puts a replacement into the outbox that waits for the old
order's cancellation, and either of the two processes goes on from there.  rtrade keeps
its own intents and does not use the outbox.  Before any submit on Binance
`require_account_cache_for_submit` wants evidence that the account cache, kept by one
writer process in files that all others read, is whole and recent.

What makes each component correct: the outbox never forgets an order that rests at
a venue, never lets one client order id be submitted twice, and keeps the sum over
all revisions of an intent within its quantity; a lifecycle never releases an intent whose order
may exist; a replacement works only when the order it replaces does not; a round of
rtrade only ever reduces what its two quotes traded and never ends with an open order or
exposure; the account cache always recovers to a generation that was certified, loses no
fill that REST will not send again, and permits no submit on stale rows.

## Modules

| Module | Content |
|---|---|
| `OrderOutbox` | the outbox, its producers, its worker and the venue; properties; the bugs the mutation runs plant |
| `OrderOutboxInv` | the inductive strengthenings `TInv`, `DInv`, `VInv` and `LInv` |
| `OrderOutboxProofs` | `Typing`: type correctness of every reachable state; `OneDispatcher`, `OwnersKeepClaims`: claim fencing |
| `OrderOutboxVenueProofs` | `ClientIdsUsedOnce`, `LiveOrdersTracked`, `RefusedIsAbsent`, `TrackersOutliveOrders`, `RevisionsOnlyGrow`, `LedgersMatch`, `IntentsNeverOverfilled`: what records say about the venue |
| `SetLemmas` | sums over finite sets, and the sequence that lists a set or picks from a sequence |
| `OutboxGateway` | the outbox next to a process that discards records by bare id |
| `OutboxGatewayProofs` | `GatewayTyping`, `GatewayOneDispatcher`, `DiscardsAreFinal` |
| `TrackedLifecycle` | submit and reconcile of a strategy's own order, driven by the trailing re-buy, and its venue |
| `RebuyPromise` | the abstract specification that `TrackedLifecycle` implements |
| `TrackedLifecycleProofs` | two inductive invariants, five safety theorems, the refinement |
| `ReplaceOrder` | cancel and replace: monitororder, the worker, the `awaiting_cancel` records, the venue |
| `ReplaceOrderInv` | its inductive invariants: `RInv`, and `OneInv` over it |
| `ReplaceOrderProofs` | `Invariant`, `TypeCorrect`, `Tracked`, `Survives`, `ReplacementKeepsPromise` |
| `ReplacePromise` | what `ReplaceOrder` implements: one order at a time, never more than is left |
| `TradeCache` | the account cache: writer threads, files, marker, readers and permits |
| `CertifiedStore` | what `TradeCache` implements: one content, replaced as a whole |
| `TradeCacheInv` | its inductive invariants `StateInv`, `CoverInv` and `FileInv` |
| `TradeCacheProofs` | typing, versions, generations, cursor, permits, and the refinement |
| `RTradePair` | one round of the pair coordinator with its venue adapter and store |
| `RoundPromise` | what `RTradePair` implements: two quotes, then reductions, then flat |
| `RTradePairInv` | its inductive invariants `StoreInv` and `WatchInv` |
| `RTradePairProofs` | `StoreInvariant`, `TypeCorrect`, `IntentsSurvive`, `OrdersWatched` |
| `MCOrderOutbox`, `MCOutboxGateway`, `MCTrackedLifecycle`, `MCReplaceOrder`, `MCTradeCache`, `MCRTradePair` | what TLC instantiates with the configurations of the same names |

### OrderOutbox: state and code

- `queue[i]` is the record of intent `i` in the file.  `life` is `lifecycle`,
  `sub` is `submission_state`, `why` the class of `last_failure_reason` (the sets of
  reasons the code tells apart), `discardable` is `safe_to_discard`, `token` and
  `live` are `claim_token` and `claim_until > now`, `owner` is `producer_pid` with its
  start identity, `rev`, `qty` and `delivered` are `revision`, `qty` and
  `delivered_qty`, `oid` is `order_id`.  The client order id is a function of
  record and revision, so the model names an order by `(intent, rev)`.
- Each section under `FileLock` is one action.  Between two sections a process
  keeps what it read: `held` (the claimed snapshots), `plan` (the ids a worker is
  about to claim), `seen` (the lapsed claims of living owners).
- `Instrument.place`: `Persist`, `RefuseEarly`, `EnqueueRefused`, `RefuseLate`,
  `BeginProducer`, `Send`, `ReturnAccepted`, `ReturnUnknown`.
- `process_once`: `Scan`, `Expire`, `Claim`, `AdoptLive`, `Quarantine`, then for each
  claimed record `SettleOrder`, `ObserveOrder`, `LookupFound`, `Wait` or
  `Clear`, `BeginWorker`, `SyncQty`, and the same `Send` and returns, with
  `LookupAfter` for an ambiguous answer.
- Failures: `Crash` (new process identity, the file stays), `Abandon` (an exception
  the caller swallows: memory goes, the process and its lease stay), `Lapse` (a
  lease runs out at any moment), `Lose` (request lost or rejected).
- The venue is external: it accepts, fills, cancels, expires, and answers lookups
  from its true state.  It does not deduplicate client order ids, although some
  venues do: the properties do not rest on that.

### Abstractions and assumptions

- Time: leases lapse, retries become due and TTLs run out at any moment the code's
  conditions allow; the timestamps are left to the planned `RetryClock`.
- `uuid4` tokens are fresh.  `RETRY_ENABLED=true`, `RETRY_DEDUP=false` and
  `RETRY_MAX_ATTEMPTS=0` as in `config.env`.
- A NOT_FOUND answer authorises a resubmit only if no request of that client id is
  still on its way (`Clear`).  The code rests on ages here: `RETRY_INTERVAL_SEC`
  (300 s) has passed since the last attempt, and HTTP requests time out long before.
- The guards are any refusal, `Qty` is the quantity after sizing, and late guards
  may scale it down to any smaller one (`BeginProducer`, `SyncQty`).
- The queue holds records of the intents only, so it is never above its limit and
  one victim is enough; the victim is any candidate, because `created_ts`, by which
  the code picks the oldest, is a value the caller may supply.
- `producer_claim_owner_state` "unknown" leaves the record alone: a stuttering step.
- The `awaiting_cancel` lifecycle is in `ReplaceOrder`.  `mark_accepted` and
  `resolve_record` have no caller outside the tests and are left out.

### OutboxGateway

The intent gateway works on the outbox in two steps without a common lock: `Choose`
is `order_retry.load_all` and the choice of records that look pending (or whose
order it has just canceled), `Discard` is `order_retry.discard`, which removes
whatever is stored under the chosen ids by then, leased, submitted or accepted.
`GiveUpDiscard` is the swallowed exception or the death of the gateway.  The rest of
the system is `OrderOutbox` unchanged (`GatewayNext`).  Symbol, side and actor only
narrow the choice, so any set of such records may be chosen; one gateway runs.

### TrackedLifecycle: state and code

A strategy that owns its retry does not use the outbox.  It keeps one pending intent
in its state file and calls `TrackedOrderLifecycle`, which persists before every
effect.  The module takes the re-buy of the trailing stop as the owner, because
there the lifecycle meets a ledger (`st["rebuy"]["qty"]`) and a retry counter.

- `disk` is the state file: `pending_order`, the quantity owed, and
  `retry_counts["REBUY"]`.  `count` is `_retry_counts` in memory.  Every tick loads
  the file, so nothing else survives a tick.  `pc` is where the tick is.
- Submission: `Begin` (`_handle_rebuy`, `build_trailing_order_intent`, first persist),
  then `Refuse` and `Drop`, or `Send` and one of `Accepted`, `Ambiguous`, `Rejected`.
- Reconciliation: `LookupError`, `LookupMissing`, `LookupFound`; `Clear` and `Bump`
  (two saves: the intent goes, then the counter moves); `StatusTerminal`,
  `StatusOpen`, `Cancel`; `Finish` (`_finish_pending` and its one save).
- Each action ends with a save.  A save that raises ends the tick: `Abort`, and
  `FinishUnsaved`, the place where memory has moved by then.  Binance's loop
  (`item_isolation`) saves once more after an exception; when that works the file is
  as after the action, when not as after `Abort`.
- The venue: `Land`, `Lose`, `Fill`, `Expire`.  It holds one open order per client id.  A
  lookup may miss a request that is under way or already an order at most `Lag` times
  per intent: that is the assumption behind `missing_confirmations`.
- The client order id is a hash of quantity, price, anchor and attempt: the record
  `cid`, with `Prices` for what of price and anchor may differ.
- `Dust` is the smallest quantity worth an order (`min_notional` at any price).
- The policy is a constant: Kraken asks for two confirmations and keeps the intent on a
  lookup error; Binance asks for one and drops it (`binance_api/trailing_stop.py:167`).
- Left out: a status or cancel call that raises writes a note into the intent and changes
  nothing else (a stuttering step); the age of an order (any open order may be old
  enough for its one cancel); prices paid; the SELL flow.  It shares the pending order,
  so it never overlaps with a re-buy order, but a tick in which the price does not call
  for the re-buy goes on to the trailing stop, and a sale that completes there writes a
  new debt over one that is not settled (trailing_core.py:382; :626 for a position that
  became too small).  The ledger of the model is that of one debt, from its sale until it
  is bought back or overwritten.

### ReplaceOrder: state and code

- `rec` is the outbox, reduced to what repricing tells apart: lifecycle, submission
  state, the order it replaces (`old`), claim and owner.  Record 0 tracks the first
  order.  A claim token is known by its holder, because a process works on one claim at
  a time; the worker's batch is one record at a time.
- `proc` is what monitororder and the worker do.  `List` is the one listing per pass on
  which monitororder decides; `CancelExpired` and `Resolve` cancel on TTL and drop the
  tracker; `Enqueue`, `ClaimReplacement`, `PreflightRefuses`, `CancelOld`,
  `StatusFails` or `NotCanceled`, and `Activate` are the replacement.
- The worker: `Claim`, `AdoptLive`, `LookLater`, `AwaitCancel`, `PollAccepted`,
  `LookupFound`, `Absent`, `Expire`.  Both submit by `Begin`, `Send`, `Answer`.
- `Activates` is the condition of `activate_claimed_replacement`: a canceled order with
  a rest, under the exact claim; `ActivatedQty` is that rest.
- Failures: `Crash`, `Abandon`, `Lapse`, lost answers, an order expired by the venue
  or canceled by a person (`EndAtVenue`, `CancelOutside`).
- Left out: the price rule, capacity and consolidation (module `OrderOutbox`), retry
  intervals (300 s) against leases (120 s) and the 8 s loop of monitororder, the TTL of
  a replacement and its floor of 60 s (monitororder.py:411), and the intent gateway, which
  also discards `awaiting_cancel` records (execution_audit.py:2205).  A status
  ARCHIVED_CANCELED counts as ended but not as canceled, as in the code.

### TradeCache: state and code

- `cache` is the writer's memory: rows, how many of them are in the file
  (`persisted_count`), REST cursor and fetch time.  `data`, `prev`, `meta`, `marker`
  are the data file, `.previous`, the manifest and the health marker.  A byte boundary is
  a number of rows, a digest the rows themselves, and a row cut short is `Torn`.
- The sync thread: `Ask`, `Serve` or `RestFails`, `Merge` and `Advance` (rows and
  cursor, under two holds of the lock), a save, `Publish`, `Rest`;
  `Prune` and `CompactPruned` are the retention pass, two sections with no lock between
  them.  The websocket thread: `Push` and a save.
- A save is an append (`AppendRows`, `AppendMeta`) or a compaction (`CompactStage`,
  `CompactData`, `CompactMeta`, `CompactDiscard`).  It holds the generation lock and the
  manager's lock all along, so its steps are separate only for crashes and for writes that
  fail (`AppendFails`, `CompactFails`).  `Restart` is `_load_jsonl` with its recovery.
- A reader: `Refresh`, and `ReadMarker`, `Ensure`, `Issue`, `Consume` for a permit.  `Load`
  also recovers, and extends the rows it has by those behind them (`SuffixFits`).
- Left out: bootstrap and the migration of legacy files (`Init` is the first certified,
  empty generation), rotation of the files that are not certified, websocket reports
  without a symbol, `WS_ONLY_MODE` (False in the source), a second writer process,
  skew between the clocks of host and venue, a marker that cannot be written.  With one
  writer `resync_mem_file` never finds a newer file, so `Resync` only writes.

### RTradePair: state and code

- `orders` is the venue, `intents` and `cp` are the store: an intent per slot (kind,
  side, revision), from which the client order id is derived, and the last checkpoint.
  `round` and `seen` are the coordinator's memory: phase, reason, tickets, revisions,
  and the last snapshot of each order.  `act` is where the coordinator is: every call
  of the venue and every write of the store is one action.
- Placing (`place_limit`, `place_market_exit`): `Reuse` reconciles a slot that was
  submitted before; otherwise `RefuseEarly`, or `PersistIntent` and then `RefuseSubmit` or
  `Send` and `Answer`.  `Placed` and `Unplaced` are what the callers make of it.
- `step`: `Refresh` reads ticket by ticket and `Refreshed` compacts; `Decide...` are the
  phases; `Cancel`, `CancelStatus`, `StatusFails` cancel the tickets in scope
  (`InScope`), and `Canceled`, `Undone`, `ExitCanceled`, `StopExitCanceled` go on.
  `Breach`, `KeepExit`, `ReplaceExit`, `PlaceExit` are the hard stop and the anchored exit.
- `Recover` and `Adopt` are `recover_pair_intents` and `merge_checkpoint_intents` with
  `_adopt_pair_record`.  Each is one action, although it reads order by order: it only
  reads, and what it decides rests on which orders exist.
- Prices, the TTL of the quotes and the breach of the stop happen at any time.  The two
  sides are symmetric, so the round is BUY first.  A balance that is too small is any
  smaller quantity (`Send`).
- An intent found absent twice (two confirmations) is taken to be absent for good:
  `CertainlyAbsent`, the assumption behind `missing_confirmations` here as in `Clear`.
- `Ambiguous` names the submissions whose answer may be lost.  The run takes all but
  the anchored exit: the next section says what a lost answer does there.
- Left out: several rounds at a time (`recovery_blocked` is shared among them) and the
  gates of a start, the recovery horizon of 300 s, `_cleanup_orphan_rt_orders` (which
  never applies to orders with an intent), a checkpoint that cannot be written at the end of
  a start, rounding, and the legacy loops.  `RTRADE_PAIR_COORDINATOR_ENABLED` is false in
  config.env:343 at this commit, although docs/RTRADE.md calls the coordinator active.

### Properties

| Property | Says |
|---|---|
| `SingleDispatcher` | two processes are never both past the last fence for one client order id |
| `OneOrderPerClientId` | one client order id never has two requests or orders, nor a request beside an order |
| `LiveOrderTracked` | a resting order always has a record that leads to it |
| `RefusedMeansAbsent` | a record that needs no lookup has nothing at the venue |
| `NeverOverfilled` | fills and open orders of all revisions stay within the intent's quantity |
| `LedgerMatchesVenue` | `delivered` is what the venue filled, and the rest is still owed |
| `TrackerOutlivesOrder` | a tracker leaves an open order never |
| `RevisionsGrow` | a new revision is opened only by an expiry at the venue |
| `LiveOwnerKeepsClaim` | a claim that may be mid-submit never passes between living processes |
| `DiscardIsFinal` | a discarded intent is not written back and not submitted by whoever still holds a snapshot of it |
| `EndedOrdersAreSettled`, `LostAnswersAreRecovered` | liveness: trackers end, lost answers are found |
| `LiveOrdersAreTracked` | a request under way and an order that can still fill belong to the pending intent of the state file |
| `LedgerExact` | ledger and account make up what was sold: no fill is booked twice or lost |
| `FreshClientIds` | two orders never carry one client id, whatever restarts do to the counter |
| `KnownOrderIsBooked` | once the order id is in the file, the intent is forgotten only by booking what the ended order bought |
| `KeepsPromise` | the lifecycle implements `RebuyPromise`: one order at a time, booked once before the next |
| `FillsGetBooked`, `AmbiguityEnds` | liveness: what an ended order bought is booked, a lost answer is resolved |
| `ReplacementSurvives` | an order canceled for a replacement is replaced, or a record still owes its rest |
| `OpenOrdersAreTracked` | every open order has a record that leads to it, through cancels, activations and refusals |
| `KeepsPromise` (`ReplaceOrder`) | one order at a time, never for more than is left |
| `EndedOrdersAreNotAwaited` | liveness: no replacement waits forever for an order that has ended |
| `ReplacedOnce` | two replacements of one order are never both at the venue (violated) |
| `GenerationKept` | no step of a save, failure or crash takes the certified generation off the disk; only a reader may, and only while the writer is down (`LosesCopy`) |
| `CursorCovered` | what REST will not send again is certified, or past the retention horizon |
| `VersionNamesRows` | no fill is certified twice, and a version names the same rows to every reader |
| `PermitMeansFresh` | whoever holds a valid permit knows every fill older than `MAX_AGE_SEC` |
| `CertifiesAsPromised` | the files implement `CertifiedStore`: reads, rollbacks and crashes change nothing (but for `LosesCopy`) |
| `FillsReachReaders` | liveness: every fill gets to every reader |
| `WorkingOrdersHaveIntents` | a restart finds every order that may still trade from the store |
| `WorkingOrdersAreWatched` | between two steps every such order is a ticket, or the round knows that it must recover first, or it is an exit whose answer was lost (`LostExit`; none in `round`) |
| `KeepsPromise` (`RTradePair`) | one quote per side; then only orders that reduce an exposure nothing can enlarge; flat at the end |

### Runs

| Run | Instance | Shows |
|---|---|---|
| `retry` | 1 intent of quantity 3, 3 revisions, 2 crashes, 4 tokens | the life of one intent: every partial fill, expiry, lost answer and crash |
| `queue` | 3 interchangeable intents, 1 producer, queue of 2, no crash | two records in one pass and under one token, eviction, consolidation and expiry against submits under way |
| `live` | 1 intent, 2 revisions, 1 crash, with fairness | the two liveness properties |
| `discard` | 1 intent, 2 revisions, 1 crash, the gateway | what stays true next to discards by bare id |
| `kraken` | goal 4, dust 2, 3 orders, 3 attempts, 2 failures, lag 1 of 2 confirmations | the re-buy under the careful policy, and its refinement |
| `hasty` | goal 3, 2 orders, 2 attempts, 1 failure, lookup errors release, with fairness | `KnownOrderIsBooked` and liveness under the policy with more behaviours |
| `replace` | an order of 2, 3 orders, 1 replacement, 1 crash or foreign cancel, with fairness | cancel and replace by two processes, safety and liveness |
| `twice` | the same with 2 replacements | expected violation of `ReplacedOnce` |
| `cache` | 2 fills, 4 instants, 1 reader, 1 crash, 1 failing compaction, 1 prune | the files of the cache and the permits, and the refinement |
| `cachelive` | 1 fill, 3 instants, 1 crash, 1 failing append, with fairness | fills reach readers |
| `prunerace` | 2 fills, 1 failing append, 1 prune, no crash | expected violation of `CursorCovered` |
| `round` | quantity 2, 4 orders, 1 replaced exit per side, 1 crash, aborted step or foreign end | a round from its quotes to its end, and its refinement |

The bounds.  Intents interact only through capacity, consolidation and the token of
a batch: two fill the queue of `queue`, the third wants in.  Quantity 3 lets two partial fills
leave a rest, so that a ledger error of one revision shows in the next one; three
revisions make a revision's predecessor have a predecessor.  Two crashes let a
process die while it recovers the claim of a dead one.  `queue` has no crash and one
producer: they are in `retry`, and the theorems of `OrderOutboxVenueProofs` cover any number of both.  Four tokens are more than
there are snapshots and records at once, so `FreshToken` never blocks.  `MaxRev`,
`MaxCrashes` and the number of `Oids` are the bounds that cap the runs;
`Spec` has no other.  Deadlock is not checked: when every intent is placed and settled
the system may stop.

In the `MCTracked*` instances a goal of 3 or 4 with dust 2 has remainders worth an order
and one that is not (1).  Run `hasty` combines two confirmations with the release on a
lookup error (the policy of tests/test_tracked_order.py:203): apart from `LookupError`
its behaviours are Kraken's, so that its liveness holds for both.  Three attempts let an id be mistaken for
the one of an attempt before the previous one; two failures let a save fail and the process
restart afterwards.  A lag one below the confirmations is the largest for
which the properties hold.  `MaxAttempts`, `MaxFailures` and the number of `Oids` cap
the runs.  Deadlock is not checked: a finished campaign stops.

In `replace`, quantity 2 separates a partial fill from a full one, and three orders are the first,
its replacement, and the rest of a replacement that expires.  One replacement suffices
for one order unless an earlier one is left behind, which is run `twice`; with two
replacements the three safety properties also hold (checked once, too long to keep as a
run).  In the cache, two fills make an order of arrival and a suffix to extend; four
instants let a fill age past the marker (`MaxAge` 1) and past retention (2), which the constraint
`FillsInTime` of `cache` leaves the last two for (the theorems have no such bound); one fault of
each kind meets one crash.  Three fills, without compaction faults, were checked once.  `cachelive` prunes nothing: after
a failed append and a prune the fill of `prunerace` may never reach a reader.  In
`round`, quantity 2 lets an exit fill in part during its cancel, and lets a quote
left working on the exit side be larger than the exposure, so that the exposure turns over during the
cancel; four orders are two quotes, an exit and a stop or second exit.  A second mishap
leads to the last disagreement below.  None of these runs checks deadlock: a finished
round, a settled order and a clock at its bound stop.

Fairness of `OrderOutbox` (`Fairness`): leases lapse with the clock; the daemon's loop
(`main` of the worker) finishes the passes it starts; a step it repeats in every
pass does not fail every time.  Producers, the venue and crashes are under no
fairness.  Fairness of `TrackedLifecycle`: the loop ticks, and a request under way
lands or is lost; the venue need not fill or end an order.  Fairness of `ReplaceOrder`:
leases lapse, the worker's loop comes to every due replacement, and a lookup it repeats in
every pass is answered now and then; monitororder, the venue and crashes are under
none.  Fairness of `TradeCache`: the writer's threads run and the supervisor restarts
the process, REST is answered now and then, readers look at the manifest in their loops;
websocket reports may all be lost.  `RTradePair` has no fairness, because a round may
wait for a fill forever, and can get stuck (below).

### Disagreements between the code and its documents

Runs `twice` and `prunerace` show two of them as counterexamples of TLC.  The others were found in the same
way, by giving the models the behaviour or the bound named here.

- Two replacements of one order.  monitororder.py:225 says "Reprice eligible open orders
  without owning a second retry loop", and tests/test_order_retry.py:120 that an
  `awaiting_cancel` enqueue is idempotent.  `enqueue` looks for an earlier record of the same
  order only among those still awaiting it; when the worker has activated one after
  monitororder's listing, a second is made, confirmed and submitted.
- `order_retry_worker.py --once` does not take `single_instance`, although
  docs/ORDER_RETRY_ARCHITECTURE.md:20-22 calls the daemon's main loop the only caller of
  `process_once`.  With `OneAtATime` false it can take over a claim of a living process
  and submit the same client order id: a lease is not renewed by
  `begin_claimed_submit(r, now=now)`, and `claim` looks at the lease alone.
- config.env:279 says that new records are refused at the limit; `enqueue`
  evicts the oldest discardable record and admits the new one.
- The alert of an expired record says "No order submitted to exchange.",
  also for a remainder whose earlier revisions were accepted and partly filled.
- config.env:256-257 and 296-297 promise that accepted trackers are retained
  until the venue order ends.  The gateway removes by id what it saw pending; a record
  accepted in between goes too, and its order rests at the venue untracked:
  `TrackerOutlivesOrder` and `LiveOrderTracked` fail next to the gateway, while the properties
  of run `discard` hold.
- monitororder claims a replacement by its id whatever has become of it; when the worker has
  submitted it by then, a refusal of the preflight removes the tracker of the open order.
  `OpenOrdersAreTracked` leaves that case out: it needs an order that others canceled.
- docs/ORDER_RETRY_ARCHITECTURE.md:79-80 says that a lookup error is ambiguous
  and blocks resending.  With `retry_on_lookup_error=True` (Binance's trailing stop and the
  asset guardian) `reconcile` clears the intent on a lookup error, and the next tick
  buys again while the first order rests.  tests/test_tracked_order.py:203 calls
  this the at-least-once policy, so it is a choice; the document does not say so.
- cacheManager.py:1620 rewrites "while retaining the prior certified generation".
  `commit_file_and_meta` discards `.previous` in its `finally` (state_io.py:593) also when
  the rollback of the data file failed; with `RestoreFails` true no file holds the certified
  generation then (`GenerationKept`).
- binance_api/bapi_ws_bridge.py:281-282 says that polling covers the gaps of the websocket.
  After a failed periodic save, `maintain_append_persist` drops expired rows from memory
  before it takes the locks of the compaction (cacheManager.py:1724); a websocket save in
  between counts from `persisted_count` in the shorter list, skips the fill polling had
  brought and stores the cursor past it.  If the process dies before the compaction, no
  poll asks for it again.  This is run `prunerace`.
- cacheManager.py:1434 keeps "the currently certified cache data until the new manifest
  commits".  A writer that dies between the two renames of a compaction leaves a new data
  file, the old manifest and the old rows in `.previous`.  If the compaction followed a prune
  and a websocket row took the place of the expired one, a reader with an earlier version of the
  stream finds the rows it lacks behind its own, checks only these, and discards `.previous`
  (cacheManager.py:1373): neither the other readers nor the writer can load any more.  `LosesCopy`
  is that step.  It needs three fills; with `MaxNow` 2, no retention, one crash and one prune
  TLC finds it (after some millions of states, in which the other properties of run `cache` hold).  Run `cache`
  has two fills and never takes it.
- docs/RTRADE.md ends its invariants with "a lack of certainty about the exchange blocks a new
  submit rather than inventing state".  When the answer of an anchored exit is lost the round
  goes on, and a breach of the stop then submits a market exit without looking that exit
  up: both may fill, and the round may end with the exit open (`KeepsPromise`, with
  `"exit"` in `Ambiguous`).
- "Keep residual exposure recoverable" (rtrade_pair.py:735): when the first market exit is
  refused, by a guard or a stale permit, no intent stays, and the recovery ends in
  `hard_stop_recovery_missing_order`: exposure without an exit, also after a restart.
- docs/RTRADE.md describes a resubmit under the same client id after a confirmed absence.
  `recover_intent` never reuses an id; a round whose first leg was accepted and whose second
  is absent stays in `startup_recovery`.
- A restart appends exits that compaction had dropped behind the current one
  (`merge_checkpoint_intents`), so the latest exit has an old revision.  If the current
  revision's exit has ended after a partial fill, `place_limit` recovers that ended order in every
  tick, and the exposure has no exit until the hard stop.
- A stop that a restart finds while a quote cannot be looked up is canceled with the quotes, and
  an exit is placed.  A second restart sees the stored stop, calls the round `stopping`
  and submits the stop's next revision beside the exit (`KeepsPromise`, with two mishaps).

### Proofs

`OrderOutboxProofs` proves `Typing == Spec => []TypeOK` from the assumptions on the
constants alone.  `TypeOK` is not inductive: a revision subtracts what was filled
from the order's quantity, which stays a natural number only if orders are not
overfilled (`OrdersSane`), if the order of an accepted record exists
(`AcceptedHasOrder`), and if a worker's snapshot, from which the order is read,
agrees with the record it will overwrite (`JobHeld`, `SnapshotsAgree`).  `TInv`
is their conjunction; there is one lemma per action.

The second half of `OrderOutboxProofs` proves, under `OneAtATime`, that claims fence
(`OneDispatcher`) and never pass between living processes (`OwnersKeepClaims`).  The
argument, in `DInv`: tokens of different processes differ, so at most one snapshot
matches a record; whoever is at work on a claim either owns the record or the record
has moved on for good (gone, accepted, or at a later revision: `Owns`); live claims
are in no other worker's plan or batch, and since only one worker is inside a pass
nothing can become a live claim of another process between `Scan` and `Claim`
except through the producer's own fence.  Two dispatchers of one id would both own
the record at the same revision.  `OneAtATime` is needed: the worker
started with `--once` breaks the property without it.  Both invariants were model-checked
before they were proved, on the instance of `retry` and on one of two intents and two producers.

`OutboxGatewayProofs` carries typing and dispatch over to the gateway: a discard only
removes records, which every conjunct of `TInv` and `DInv` allows.  It also proves
`DiscardsAreFinal`, without `OneAtATime`: a record that is gone matches no snapshot
(`WriteGone`), so nobody completes, revises or begins it, and with no process past
the last fence and no request on the wire (`Gone`) no order can appear; there is one
lemma per group of actions.

`TrackedLifecycleProofs` has two invariants.  `BookInv` holds under every policy: with what
the position of the tick says of the intent (`TickOK`), the order in the file exists and a terminal
status in the file is the order's (`KnownOK`), and an order that is over does not move any more.  From it
follow `LifecycleTyping` and the action property `KnownIsBooked` (`KnownOrderIsBooked`): of the
steps that forget an intent only `Finish` finds an order id in the file.

Under `Careful` (a lookup error keeps the intent, and
the venue's lag ends before the last confirmation), `LedgerInv` is inductive, and from it follow
`NothingUnwatched`, `FillsAreBookedOnce`, `ClientIdsAreFresh` and
`LifecycleKeepsPromise`.  What the properties need and do not say: an intent that is
about to be forgotten has nothing at the venue (`OneAtATime`), because the file counts no
more misses than the venue answered wrongly; the terminal status in the file is the
order's, and final; ids of earlier orders lie above the ledger or below
the counter in the file (`IdsOrdered`), so the counter in memory may be lost.  There is
one lemma per group of actions that also says what its steps do to the
variables of `RebuyPromise`, and `LedgerStep` combines them into the step of the
invariant and of the refinement.  `Careful` is needed: the policy of
Binance resends without its first half, and the mutant `LookupMissingHasty` without its second.

`OrderOutboxVenueProofs` proves, under `OneAtATime`, what the records say about the
venue.  None of the properties is inductive by itself: that a client order id is used
once needs that a cleared claim has nothing on the wire, that in turn needs that whoever
is past the fence owns the record, and that a record which counts as refused is refused for
its own revision.  `VInv` ties them together: what a matching snapshot says of the submission
is current (`SnapshotsCurrent`), each id has one order or request (`IdsUsedOnce`), each request a
record that may have been submitted (`WireTracked`), trackers name an order of their own revision
(`TrackersMatch`), a claim before its `Send` has nothing out (`ClaimsHold`, `ClaimsUnsent`), and
an answer is the order of its job (`AnswersMatch`).  The argument is per record: a step may
change at most the record its process works on, into one that `Follows` (it fits the
venue, advances its revision only over an expired order, and outlives an open one); one lemma
says that a process which works on one record keeps `VInv` (the mover), another that all others
keep what they know of theirs (the bystanders).  `Follows` also gives the two action
properties, `TrackersOutliveOrders` and `RevisionsOnlyGrow`.  Evictions, consolidation
and expiry only take away records that are `Untraced`.

On top of `VInv` the same module proves the money: `LedgersMatch` and
`IntentsNeverOverfilled`.  Neither is inductive.  A revision computes the new quantity from the
worker's snapshot, so a matching snapshot must have the record's quantity
(`SnapshotsCount`); it subtracts what the venue filled, so the order and the request of the
current revision must be for the record's quantity, and what is delivered and what is
still to deliver must fit the intent (`AllBalanced`); and since an intent may lose its record and get
no other, the bound is on the exposure of all its orders, the quantity of those that are open
and the fills of those that are not (`Exposed`), whether a record is left or not.  `Ledger` is the
conjunction; `LedgerReads` derives `LInv`, the form the run `retry` states, from it.
The sums are folds of the community modules, which take elements in an order
that is not specified; `SetLemmas` proves that a sum does not depend on it.  The induction that
needs is over data, and is done without the induction theorems: a family of finite sets with
a counterexample has a smallest one, because strict inclusion on them is well-founded.

`ReplaceOrderProofs` proves, from the bounds on the constants alone, that `RInv` is
inductive, and from it `TypeCorrect`, `Tracked` (`OpenOrdersAreTracked`) and `Survives`
(`ReplacementSurvives`).  A replacement is kept together by three parties, and so is `RInv`:

- the record and its orders (`Fits`): no order of a record is ahead of its revision, a live one is
  what the record is about, unless that was given up, and only a canceled order is being replaced;
- monitororder between its reads of the venue and its writes of the file
  (`MonitorSane`): the order it looks at is listed or canceled, its record is the one of that order,
  and still awaits the cancel unless a person canceled too;
- the processes and their claims (`ClaimSane`, `SubmitSane`, `SubmittersApart`): who holds the claim finds the
  record as it left it, who submits has nothing else out under the client id, and no two
  submit under the same one, even after a lease has lapsed and the record was taken over.

`IdsUsedOnce` is what makes adoption right: the order found under a client id is the
one that was sent.  There is one lemma per action; the process that writes a record and those
that only watch have lemmas of their own, as in the outbox.  `ReplacementSurvives` is
inductive relative to `RInv`: whatever is written over a record `Keeps` it in the queue, or leaves an
order at the venue, or gives the replacement up, and no venue step turns a found order
into one that never was.  TLC checked `RInv` on the instance of `replace` before the proof.

`ReplacementKeepsPromise` is the refinement: `Spec /\ [][Alone]_vars => KeepsPromise`, where
`Alone` says that no step is a `CancelOutside`.  The condition is needed as soon as there are
two records: the counterexample of run `twice` has one foreign cancel, and two orders of the same
quantity at the venue.  Crashes, lapsed leases and lost answers are not excluded.  The second invariant,
`OneInv`, is over `RInv`:

- `Standing(b)`: all that is left of the quantity stands under the last order `b` the venue has
  acknowledged.  No other order is open, and what has been filled and the rest of `b` are within `Qty`;
- `Backed`: what a record asks for now (`Outstanding`), or may ask for once its order's cancel is
  seen, is the rest of `b`, because `b` expired under it or was canceled for it.  Only one record can
  be that (`OneOutstanding`), so only one request is ever on its way;
- `Calm`: the order monitororder looks at is not canceled behind its back, so it never creates a second
  replacement for it; and a process that is about to send still has its record, at the quantity it read.

Steps that leave the venue alone are put into six kinds of what they do to a record (`Moves`), and one lemma
per kind suffices.  The venue's steps map to the promise's by what they do to the sums (`AmendPromised`,
`SendMoves`).  TLC checked `OneInv` under `Alone` with two records and three orders, and with a crash and
two orders, before the proof.

`TradeCacheProofs` works in three layers, each inductive over the one before.

- `StateInv` holds in every reachable state, whatever fails: which thread may be where,
  that an append is only under way where memory fits the file, that rows behind
  `persisted_count` are new and those before it are certified (`UnsavedIsNew`,
  `CountedIsSaved`), that the data file has what the manifest names wherever an append may follow
  (`FileReady`), and that marker, readers and permits belong to versions that existed.  From it
  follow `Typed` and `VersionsNameRows`.
- `CoverInv` is about the cursor: memory, file, response, marker and permits each have all fills up to
  their time (`Due`).  It is proved under `QuietSaves` (appends do not fail, or nothing
  is pruned), and with it `CursorsAreCovered` and `PermitsAreFresh`.  The condition
  is needed: run `prunerace` violates `CursorCovered` without it.  The part that a failed append breaks is
  `SavedCovers`, that between a save and the next cycle the file has what the cursor has passed.
- `FileInv` says which of the two files holds the certified generation at each step of a save.  It
  needs working rollbacks (`RestoreFails = FALSE`; the disagreement about cacheManager.py:1620 shows why) and
  holds until a reader takes the step `LosesCopy`, after which the writer stays down (`Lost`).
  From it follow `GenerationStaysOnDisk`, which allows for that step, and
  `GenerationAlwaysOnDisk`, which excludes it by its hypothesis.  `FilesImplementStore` combines the
  layers: every step is a commit of `CertifiedStore` or a stutter, but for `LosesCopy`.

The lemmas about rows that these rest on (`Ascending` lists a set once and in order, what a
merge and a prune leave of injectivity, ranges and prefixes) come first in the module.  The
invariants were model-checked before they were proved, with two fills and each combination of
faults that their theorems allow; `FilesOrLost` also with three.

`RTradePairProofs` proves, from the bounds on the constants alone, that `StoreInv` is
inductive, and from it `TypeCorrect` and `IntentsSurvive` (`WorkingOrdersHaveIntents`).  `TypeOK` and
`WorkingOrdersHaveIntents` speak of what is stored; what makes them last is who has put it there:

- `SlotsUsedOnce`: all orders of a slot but one are lost, because nothing is sent under a
  slot before what was sent under it is known to be absent;
- `IntentSane`: what the store knows of a slot, the venue shows, and what it calls refused or
  absent is lost.  A recovery therefore never marks absent what may still become an order;
- `PlaceSane`: from the persisted intent to the answer the slot is `sent`, and what it awaits is the one
  order of it that is not lost.  That is what an exception or a crash in between leaves to the recovery;
- `CancelSane`: a cancel under way has a ticket to cancel, and an exit that is replaced a revision left;
- `TicketsSane` and `SeenSane`: each ticket is an order the venue has shown, once, and what was seen of an
  order is not its end while it works.  So compaction (`KeptTickets`) drops nothing that may trade.

There is one lemma per action.  `OrdersWatched` (`WorkingOrdersAreWatched`) rests on a second
invariant over `StoreInv`: `WatchInv` says of the middle of a step where an order may work without being a
ticket (`Unwatched`): in an answer that is being taken in, in the undo of a first leg whose second is in
doubt, and in a round that has written down that it must recover; and `PhaseInv` ties the phase of the
round to the reason it is placing for.  It is proved for every `Ambiguous`, with one exception
spelled out in the property: `LostExit`, an exit of a round past its quotes whose answer was
lost and whose slot nobody has reconciled yet.  The code sets
`exit_place_failed` and goes on (rtrade_pair.py:684-686), as above under the disagreement on
docs/RTRADE.md; the intent is still `sent`, so `IntentsSurvive` leads to that order too.  In the run
`round` no such answer is lost, and the exception is empty.  `TypeOK` bounds the quantities of orders only by
zero; that no order asks for more than it may is said by `KeepsPromise`.  Both invariants were
model-checked on the instance of `round` before the proof, without and with `"exit"` in `Ambiguous`.

Beyond the prover's reach, and so model-checked only: liveness under fairness.  Not yet
proved: the promise (refinement) of `RTradePair`.  It does not hold for every value of the constants:
with two mishaps, or with `"exit"` in `Ambiguous`, TLC finds the counterexamples listed under the
disagreements above, so a proof has to bound the restarts, and is left to the run `round`.

## Plan

Done: `OrderOutbox` with its gateway, `TrackedLifecycle`, `ReplaceOrder`, `TradeCache` and
`RTradePair`, each with its promise; the safety of the outbox, of the replacement, of the cache
and of the round for every instance.  Next:

1. A theorem for the promise of `RTradePair`, for one restart and exits whose answers arrive.
2. `RetryClock`: leases, retry intervals, TTL and its shift by deferrals as
   numbers, to discharge the assumption of `Clear`.
3. `IntentQueue`: the gateway's own file, `--clear-pending` next to its writers.
4. The SELL flow of the trailing stop; the orchestrator's restarts.

## Not modelled

The models cover a small part of the repository's lines, and most of the rest is beyond
what a model of this kind can say something about.

- Trading policy: `order_guard.py`, `market_regime.py`, `cachetrend.py`, `assetguardian.py`,
  `botcore.py`, `monitortrades.py`, `tradeall.py`, the spot and Trading 212 and
  Hyperliquid strategies, and `intelligence/` compute thresholds, scores and sizes from
  floating-point price series.  They have little state of their own; what they decide
  enters the models as "any guard may refuse, any price, any smaller quantity".
- Venue adapters and transports: HTTP signing, parsing and rate limits of
  `binance_api/`, `kraken/`, `providers/`, and the websocket client.  They enter as the
  outcomes they can report: accepted, refused, unknown; found, missing, error.
- The other readers and writers of `cacheManager.py`: prices and order history are plain
  caches without certification, and repeat the REST cycle of `TradeCache` with weaker
  promises.
- Delivery of messages, dashboards, research, offline analysis and administration.
- Candidates for a model that are left: the orchestrator's child processes, the position
  exits and the spot DCA engine, whose order handling is `Instrument.place` or the tracked
  lifecycle again, and the intents file of the gateway.
