# Formal models of superhero-api

superhero-api is a NestJS service beside the æternity blockchain. It copies the
chain's transactions from a middleware (MDW) into Postgres, gives each one to
the plugins that turn it into tokens, posts, links, polls and pairs, and runs
what depends on those tables: token-gated chat rooms at a Nostr relay, chain
names and rewards paid from sponsor wallets, notifications and announcements.

This directory holds TLA+ specifications of its concurrent core, the TLC
configurations that check them on small instances, and proofs for every value
of the constants. Paths below are relative to `src/src/` unless they begin with
`tla/`. `PROJECT.json` maps every definition to the lines it stands for.

    tlc -workers 2 -config MCBackwardSync.cfg MCBackwardSync
    tlapm BackwardSync_proofs.tla

## 1. The system

Everything runs in one Node process (or several replicas of it) whose handlers
interleave at every `await`. State is kept in
Postgres (tables), Redis (Bull queues, dedup markers, pauses) and process
memory (flags, caches, event emitter). Jobs in Bull survive a crash; events of
the emitter do not. `process-guards.ts` turns every unhandled rejection into an
exit, so a crash can follow any step.

    middleware --HTTP pages--> BlockSyncService <-- IndexerService (backfill)
        |                            ^----------- BlockValidationService (cron)
        +--websocket--> LiveIndexerService
                              |  tables txs, key_blocks, micro_blocks, sync_state
                              v
                 PluginBatchProcessorService --> plugins (bcl, social, dex, ...)
                              |  plugin_sync_state, plugin_failed_transactions
                              v
          token_balance, accounts.links, community_room   (plugins' own tables)
                              |  events tgr.balance/link/community.*
                              v
       EligibilityService --> room_membership --> MembershipSyncService
              ^                     ^                    | jobs (Bull)
        IdentityService             | acks               v
                                    +------ PublishNip29Processor <--> relay
                                    |                                    |
                         MembershipAccessService        ReconciliationService
                                    | room_membership_event      (reads 39002)
                                    v
                               push notifications

### Components, their state, their hazards

| Component | State it keeps | Operations | What makes it correct | Modelled in |
|---|---|---|---|---|
| backward indexer (`mdw-sync/services/indexer.service.ts`, `block-sync.service.ts`) | `sync_state` row (cursor, bulk flag, tip), `isRunning`, block and tx tables | boot, 3 s poll, range by range to genesis | cursor never claims an unfetched height; the backfill ends | BackwardSync |
| live indexer (`live-indexer.service.ts`) | `syncedTransactions`, txs | websocket callbacks | what is announced is stored or caught up with | ChainIndex |
| block validation (`block-validation.service.ts`) | `isValidating`, locals of a pass | cron and boot: refetch, find, delete, reorg callback | deletes only what left the chain; tables converge | ChainIndex |
| plugin hand-over (`plugin-registry`, `plugin-batch-processor`, `plugin-failed-transaction`) | `plugin_sync_state`, sync-state cache, parked failures | batches, parking, retry, version bump | nothing lost silently; recent work reaches the deployed version | PluginDispatch |
| plugin base (`plugins/base-plugin.ts`) | `tx.logs`, `tx.data` | decode, save, process; re-decode at boot | re-decode visits everything | part in ChainIndex, PluginDispatch |
| plugins bcl, bcl-affiliation, dex, governance, social, social-tipping, address-links | their own tables | processTransaction, onReorg | result independent of processing order; no double count | bcl's row in ChainIndex, bcl's trades in BalanceLedger |
| room eligibility, identity (`token-gated-rooms/services`) | `room_membership`, key cache | recompute on balance, link, roster events; link mirror; boot backfill | the row follows the facts | RoomMembership |
| membership sync, reconciliation | Bull jobs, relay group, `relay_state` | enqueue, scan, publish, ack, deletion, sweep | the relay follows the row | RoomMembership |
| access ledger (`membership-access.service.ts`) | `access_state`, `pending_revoke_since`, ledger rows | gain, debounced loss, finalizer | each push once, alternating; no arm left on | AccessLedger |
| room state, creation, backfill, recheck (`room-backfill`, `community-room-backfill`, `group-missing-tracker`, `room-recheck`) | `tokens.nostr_room_state`, `room_id`, `community_room.deleted`, the debounce in memory | request, ack, cron, buy, sweep, missing, re-create, heal, delete | a room worth it is confirmed in the end; a confirmed one existed and comes back | RoomCreation (not the contract readers) |
| publish queue, relay writer (`queues/publish-nip29.processor.ts`, `nostr/relay-writer.service.ts`) | Bull jobs, a pause in Redis, the socket, timers | attempt, ack, pause, probe, resume, reconnect, AUTH | a pause ends; the writer reconnects; one ack per job | PublishQueue |
| balances (`balance-indexer`, `aex9-transfer-sync`, `balance-reconciliation`, bcl's `token-holder`) | `token_balance`, `_applied` in `tx.data` | transfer legs, mirror of trades, rotating sweep, signal | rows equal the chain's once quiet; a change is signalled | BalanceLedger (not the allowlist) |
| reorg eviction | `held_until_height` | buffer, release | no eviction on a fork that heals | planned |
| chain names (`profile-chain-name.service.ts`) | a claim row per address, the workers in memory | request, preclaim, claim, update, transfer, retry | a claim ends; its status follows the chain | ChainNameClaim |
| spend queue, posting rewards (`profile-spend-queue`, `profile-x-posting-reward`) | reward rows, ledger rows, daily slots, a promise chain per key | scan, claim, spend, write, reconcile | no reward is paid twice; one spend per wallet at a time | RewardPayouts, IdealPayouts |
| announcements (`announcements/`) | claims with tokens, attempts, outcome | tick, claim, heartbeat, release, poison, fan-out | one completion per row, one push per address, nothing due left behind | AnnouncementScheduler |
| notifications | challenges, dedup markers, devices | verify, send, receipts | a nonce used once; nothing muted for good | marker and job of an announcement in AnnouncementScheduler |
| token holders queue | Redis lock, in-flight map | sync, timeout, retry | one sync per sale at a time | planned: TokenHoldersLock |
| account, affiliation, analytics, dex summaries, feed, search, tipping, trending tags, ae-pricing, transactions, api-core, configs, migrations | SQL and caches | queries, cron aggregates | arithmetic and SQL | not modelled |

`PROJECT.json` lists each of them with its sources and, under `hazards`, the
places where an interleaving, a crash or an order can go wrong: the ones with
properties are checked below, the others say what they wait for.

## 2. The modules

Conventions. An action is the code between two awaits: what a handler read
before an await is kept in its locals (a record per handler, `loop`, `batch`,
`recompute`, `call`, ...) and may be stale when it is used. `Crash` empties what
is in memory and keeps what is in Postgres and Redis. `faults` counts failures
and crashes up to `MaxFaults`; every other bound is a named constant. ChainIndex
and RoomCreation draw the bounds of a behaviour from a set `Budgets`, so that one
run covers several small instances whose product would be too large; their proofs
are for any such set. In AccessLedger, PluginDispatch and RoomCreation names carry
a prefix or a synonym (`LedgerInit`, `DispatchNext`, `CreationSpec`, `budget`,
`crashes`), so that a proof module can extend two components at once. A
definition whose comment begins with *Mutant* is not used by the specification:
it is a plausible bug, put in the place of the definition after it to see that
the properties notice.

### BackwardSync — the backfill

`loop[l]` is an activation of `sync()`: its await (`pc`), the range `[lo, hi]`
computed from the row it read, and the page of transactions it is at. `Tick` is
the poll with the `isRunning` guard; `ReadState`, `Status`, `SyncBlocks`,
`SyncMicroBlocks`, `SyncTransactionPage` and `Commit` follow the awaits of
`sync()` and `syncBlockRange()`; `Fail` is an await that rejects anywhere.
`Commit` shows what is hard here: `return this.sync()` inside `try` is not
awaited, so `finally` clears `isRunning` under the nested activation and the
poll starts another beside it. Key blocks, micro-blocks and transactions are
sets of heights; a page of transactions is one height, newest first.

A pagination can also end early and succeed: a next URL that cannot be followed is
taken for the last page (`block-sync.service.ts:62-67`, 302-307, `utils/common.ts:175-190`)
and an empty page breaks the loop (209-211). `PassOver` is what such a call does not
store, a suffix of the range in the order of that call, and `EndTransactionsEarly`
the one of the transactions. `missed` is auxiliary: for each kind of call, the
heights it passed over. An early end counts as a fault.

Left out: what `saveTransactions` does with a page that is stored already (an
upsert), bulk or not; the hand-over to plugins (PluginDispatch). A range that
ends early within a height misses that height as a whole.

### ChainIndex — live writes against validation and reorgs

The environment is the chain (`tip`, `mined`: the height a transaction is in) and
the websocket `feed`. `live` holds the calls of `handleLiveTransaction` under
way (save, decode with a second save, the plugin's row); `val` the pass of
`validateAndRefreshBlocks`: pages of the window oldest first, each fetched
(`ValFetch`), upserted (`ValUpsert`) and given to the plugin, then, height by
height, `ValFind`, `ValDelete`, `ValNotify` (the plugins' `onReorg`) and
`ValRefetch` with the plugin once more. The plugin's part is `ValDecode`, the
second save of `base-plugin.ts:87`, which inserts what was deleted meanwhile, and
`ValRows`. A fetch may end early without an error, as in BackwardSync: part of the
height and all above it is then not observed (`cut`). `stored` is
`txs.block_height`, `rows` the plugin's table. `Reorg` drops a transaction within
the validated depth, `MineTx` may take it up again in a later generation.
`LiveFail` and `ValFail` let any await reject, with what the `catch` at that place
does: what fails in a plugin never ends the validation.

Left out: key-block headers, self-transfers and irrelevant transactions (they
are dropped before any write). The modelled plugin is bcl, which decodes logs and
keeps the `decodeData` that returns null: its second save is that of
`base-plugin.ts:87`, and `:104` does not run for it. In a plugin that overrides
`decodeData` (governance) `:104` would be one more write of the row that
`ValDecode` writes. The saves of one batch of the validation are one step.

### PluginDispatch — from a stored transaction to a plugin that has processed it

`batch[b]` is a call of `processBatchForPlugin` by the live indexer, the
backfill or (`Validator`) the validation, from the cached sync state to the
update of the row; `parked` is `plugin_failed_transactions`, `applied` the
plugin version that last processed a transaction, `cache` the sync-state cache
that is filled once per process, with a null as well. `Deploy` restarts the
process with the next plugin version. `age` tells what validation still
refetches ("recent") from what it does not ("old"). `ignored`, `cut` and
`retried` are auxiliary: why a transaction may be without an answer.

### RoomMembership — one holder of one room

From the facts (`holds`, `link`, `room`) over the row to the relay and back.
`recompute[r]` is a `recomputeMember` call; `ReadOrder` gives the order of its
awaits per handler, and `Write` the decision and `upsertMembership`, which
writes over whatever the row is by then. `MirrorRead`/`MirrorWrite` are
`IdentityService.reresolveAddress` (also run by the boot backfill).
`OnEligibilityChanged` and `ScanAndPublishPending` turn the row into jobs,
`Publish` takes them in any order (a failed attempt comes back with a delay),
`AckTimesOut` is a relay that acts and does not answer, `AckRead`/`AckWrite`
is `applyAck`, `DeletionBegin/Read/Write` is `handleDeletedRoom`, `ReconcileRead`/`ReconcileWrite` is
`reconcileRoom` against the relay's 39002. `events` counts in-memory events per
listener; a crash loses them.

Taken as given: the group exists at the start, the holder is not a moderator
and has one key, a deleted community does not come back. A row that is read and
the job added for it are one step: a job may wait for as long as the await
between them.

### AccessLedger — the pushes "you now have access" and "you lost access"

The access columns of one membership row, written by several handlers of acks
and of a deletion (`call[s]`), each with a row read earlier, and by the
repeatable finalizer. `granted` counts ledger rows of a grant less the flips of
`access_state` to `none`, `revoked` the reverse, so that "no duplicate push" is
a bound on each. The acks come in any number and order, which over-approximates
what RoomMembership can bring about; the decision of `recomputeMember` writes
over `relay_state` with a stale `prev`, as it does there.

### AnnouncementScheduler — due announcements, drained by several replicas

`claim`, `stale`, `attempts` and `outcome` are the columns of `announcements`;
`marked` and `jobs` the dedup markers and the Expo queue in Redis; `pc[r]` the
await of replica `r` in `tick()`, with the row it dispatches, the addresses
`left` and those whose marker is set while the job is not yet added (`adding`).
Because a replica dispatches one row at a time, its name stands for the random
`claim_token`. `ReleaseStuck`, `ClaimNextDue`, `HeartbeatClaim`,
`MarkCompleted`, `ReleaseClaim` and `MarkPoisoned` are the statements of
AnnouncementService, with their WHERE clauses; `Send` and `AddJob` the two
awaits of `ExpoChannel.send`; `GiveUp` a job's last failure, which drops the
marker. A failed heartbeat changes nothing and is a stutter.

Left out: counters and errors, the order of due rows, rows that are not yet due,
more devices of an address than one Expo batch holds (each chunk is a job of its
own). `Expires` starts the count of pushes anew: a row that is dispatched again
after `dedupTtlMs` (an hour; a longer downtime, say) does push twice, and
PushedOnce does not deny it. A push that was given up by the queue after it had
reached the device, the answer being lost, counts as not sent.

### PublishQueue — the jobs for the relay and the writer's one connection

`job`, `made` and `paused` are Bull's (a job's state, its attempts, the durable
pause), `slot[s]` the await of a worker slot inside `process()`: the health gate,
the publish and its answer, the pause. `armed`, `probing` and `boot` are the
processor's timer and its two callers of `resume()`; `healthy`, `sock`,
`opening`, `waiters` and `timer` are `RelayWriterService`; `acks` counts the
`tgr.publish.ack` of a job. What is hard is in PauseQueue, ArmResume, Probe and
Resume: two slots, the probe, a boot and a crash act on a durable pause whose end
is a timer in memory; publishes, the reconnect timer and a late close of an old
socket act on one shared opening. Throws follow Bull's rules as the job options
set them (attempts, exponential backoff; `discard()` ends a job).

Left out: the token bucket, signing, `fetchGroupMembers`; Redis is taken to
answer at boot. The health watchdog is left out since the state it looks for,
unhealthy with neither an opening nor a timer, is never reached: that is
ReconnectUnderWay.

### RoomCreation — how a token gets its group and keeps it

`state` and `room_id` are the token's columns, `deleted` the community's,
`relay` the group, `jobs` a bag of waiting 9007s, 9002s and 9008s. `request[q]`
is a call of `requestRoom`, from the state it read (`ReadToken`) over the
conditional update to its two jobs; the cron, a buy, a change of the row, a
page of the backfill and the stale sweep begin it, and a recheck uses the same
slot. `handler[h]` is `onPublishAck` between its read and its write. `missing` and
`recreate` are GroupMissingTracker and `recreateRoomGroup`; `RecheckSees` /
`RecheckHeals` the unconditional write of a recheck. `Notice` is the listener that
turns a deletion into a 9008.

State and `room_id` do not move together. `ColumnReset` is the re-index or
`synchronize` that membership-sync.service.ts:61-68 records ("rooms with `room_id`
set but `nostr_room_state='none'`"): the defaulted column goes back to none, and
`Confirmed` is the either-or by which the code answers it. `CopyRow` and `WriteBack`
are `createTokenFromRawTransaction` (`plugins/bcl/services/token.service.ts:133-164`
and `tokens/tokens.service.ts`): a token is read, awaits follow, and the whole row
is written back with the state and the `room_id` it had. `copies` are the rows read
and not yet written. `budget` holds how many changes, failures, lost groups and
rewrites are still to come.

Left out: the chain readers of RoomStateService (here the row flips), pages and
cursors, admins. One token: a cron batch that is filled by rooms which cannot be
confirmed starves the rest (`ORDER BY market_cap DESC LIMIT`), and the model
does not have it.

### BalanceLedger — what a holder is taken to hold

`balance` and `known` are the rows of `token_balance`, `swept` their order by
`last_reconciled_at`; `marked`, `decoded` and `traded` say of a transaction that
`_applied` is set, that its logs are stored, that `transactions` has it. `work[w]`
is one delivery inside `processTransaction`: a transfer goes leg by leg through
`Read` and `Write` (`applyDelta`), then `Mark`, then `Emit`; a trade reads, writes
and commits, then emits. What a delivery knows of `_applied` depends on the entity
it was handed (BeginTransfer). `sweep` is `runOnce`: the chain's balance, the row
(`Find`), the write (`Save`), the signal. `unseen` and `silent` are auxiliary: the
rows changed since eligibility last read them, and those whose change nobody will
signal, each put there by the action that loses it.

Left out: the allowlist (a transfer it lacks is one that is not delivered),
heights, `token_holders` with its count, a trade repaired after broken prices.

### ChainNameClaim — a name bought for an address

`status`, `name`, `salt`, `retries` and `due` are the row of an address, `pc` and
`read` the worker that carries it on and what it has read of the row; `asks[q]`
is a request between its awaits: it reads the row of the address (`ReadClaim`), then
the row with the name (`ReadName`), then the chain (`ReadOwner`), and its
transaction (`Save`) writes an entity that may be stale by then; `queue` is the
sponsor wallet's spend queue. `owner` of a name and `age` of a preclaim are the
chain. Every write of the worker is the code's conditional or locked one; a
crash can fall between a transaction and the row that says so, an answer can be
lost after the transaction went out, a stranger may take the name, retries run
up to `MaxRetries` (10 in the code).

Left out: the challenge of a request (signature, expiry), amounts and name lengths,
the sponsor's balance (a request it refuses writes nothing).

### RewardPayouts and IdealPayouts — each reward paid once

IdealPayouts says what is promised of a post or streak reward: it is owed,
claimed, broadcast once and settled; a claim is given up only while nothing was
broadcast for it, and the one way to a second broadcast is `Misjudge`, a send
that failed and is taken for one that never reached the chain (`isTxOnChain`
cannot tell a delayed transaction from a lost one). RewardPayouts is the code:
`status`, `hash` (with the in-progress sentinel) and `due` are the rows, `slot`
the window of the last scan; a request (`pc`, `snap`, `todo`, `job`) works on an
entity it loaded earlier, saves it (twice where the row has no referral code),
spends through the promise chain of its wallet (`queue`), and reconciles what an
earlier one left. A scan that meets an X identity of another address blocks the
row (`ScanBlocked`). It implements IdealPayouts
under the mapping `BookState` (`Ideal == INSTANCE IdealPayouts WITH state <-
...`), which is the run's property PayoutsAsPromised.

Rewards are off by default (`PROFILE_REWARDS_DISABLED`); the model is of a
deployment that has armed them. Two keys may be one wallet (the queue normalizes
them). Left out: which posts qualify, tiers, amounts, the codes themselves (that a
row needs one is a choice), and `processInviteeXVerified`, which nothing calls.

### How the modules meet

BalanceLedger is what stands behind `holds` of RoomMembership, which takes a
change and its signal as one: the exceptions are `silent` here. RoomMembership takes the room's state as an input that RoomCreation produces;
both take a job's fate (carried out or not, acked or not, in any order) as
PublishQueue leaves it: an attempt that reached the relay may end without an ack,
a terminal reject may ack more than once. ChainNameClaim and RewardPayouts share
the spend queue, whose mutual exclusion RewardPayouts checks.

## 3. What the runs show

| Run | Module, cfg | Instance | Properties | Result |
|---|---|---|---|---|
| backward | MCBackwardSync | 2 activations, first tips 1, 2, 4, 5, batch 3, bulk batch 2 above 3, 2 faults or early ends | TypeOK, CursorCovers, BackfillEnds | hold |
| chain | MCChainIndex | depth 1, dedupe limit 1; 1 transaction, 3 generations, 2 reorgs, 2 faults or early ends; 2 transactions, 3 generations, 1 fault; 2 transactions, 2 generations, 1 reorg | TypeOK, SettledKept, Converges | hold |
| dispatch | MCPluginDispatch | 1 transaction, live and validation batch, 3 versions, 3 faults | DispatchTypeOK, BatchesLoseNothing, RecentIsCurrent | hold |
| membership | MCRoomMembership | 1 recompute, 1 publish slot, 2 changes, 2 waiting jobs of a kind, 1 fault | TypeOK, PendingMatchesEligible, RelayFollowsRow | hold |
| ledger | MCAccessLedger | 2 handlers, 1 crash | LedgerTypeOK, NoDuplicatePush, RevokeResolves | hold |
| announcements | MCAnnouncementScheduler | 2 replicas, 1 announcement, 1 address, attempt cap 2, re-entry cap 2, 3 faults | TypeOK, CompletedOnce, PushedOnce, EveryDueProcessed | hold |
| payouts | MCRewardPayouts | 2 requests, a post, a streak and the onboarding reward, 2 wallets, 2 loads, 2 faults | TypeOK, OneSpendPerWallet, QueuesMove, PayoutsAsPromised | hold |
| payouts_onboarding | RewardPayouts_onboarding.cfg | 2 requests, 3 loads, no fault | OnboardingPaidOnce | violated |
| names | MCChainNameClaim | 2 addresses, 2 names, 2 requests, 2 retries, 2 faults | TypeOK, EveryClaimEnds, StatusFollowsChain, LiveClaimKept | hold |
| publish | MCPublishQueue | 2 jobs, 2 slots, 2 attempts, 1 fault | TypeOK, PauseIsWatched, ReconnectUnderWay, PauseEnds, WriterRecovers | hold |
| rooms | MCRoomCreation | 1 waiting job of a kind; 1 request and 2 ack handlers with a failure, or with a rewrite of the row; 2 requests and 2 handlers; 2 requests and 1 handler with a failure; 1 and 1 with a lost group, a failure and a change, or a rewrite | CreationTypeOK, ConfirmedExisted, CreatedStays, RoomGetsCreated, GroupComesBack | hold |
| balances | MCBalanceLedger | 2 holders (one that cannot be read), 1 transfer, 1 trade, 2 deliveries, batches of 1, 1 fault | TypeOK, UnseenIsOwed, LedgerConverges | hold |

**What holds**

- *CursorCovers.* However many activations overlap, fail or die, every height
  between the persisted cursor and the height the backfill began at is stored in
  all three tables or was passed over by a call whose pagination ended early; no
  other is claimed and absent.
- *BackfillEnds.* The poll finds its way back to the cursor after every failure
  and crash; the cursor reaches 0.
- *SettledKept.* A validation deletes no transaction that is stored where the
  chain has it and has not moved since that validation began, whatever live
  handlers save meanwhile (BasePlugin's second save included). From the height at
  which its refetch ended early, if it did, nothing is promised.
- *Converges.* Once the chain is still, the validated depth of table and plugin
  agrees with it, even for transactions that were announced while the process
  was down, that `syncedTransactions` wrongly remembers, whose handler failed, or
  that a refetch which ended early has deleted.
- *BatchesLoseNothing.* A transaction given to the plugin has been processed or
  is parked, unless the process died, the query for the state or the parking
  itself failed, no row was found, or a retry had it.
- *RecentIsCurrent.* What stays within the validated depth ends up processed by
  the deployed version, unless the process cached a null.
- *PendingMatchesEligible.* Recomputes, acks, the deletion and the mirror write
  over one another; still a row never waits to be added while it says
  ineligible, or to be removed while it says eligible.
- *RelayFollowsRow.* Whatever order jobs, retries and acks come in, the relay
  ends up with the member the row says is eligible and without the one it says
  is not, while the room exists and the row has a key. Reconciliation is what
  makes this hold: it judges by `eligible`, not by `relay_state`, which a late
  ack may have written over (the mutant DriftOfPending breaks it).
- *NoDuplicatePush, RevokeResolves.* Two acks of one member at once, a finalizer
  in between: no second "you now have access" without a loss, no second "you lost
  access" without a grant, and no debounce stays armed.

- *CompletedOnce, PushedOnce.* A replica that stalls, loses its row and resumes
  beside the peer completes nothing twice, and no address gets a second job for
  the announcement while its dedup marker lasts, unless the first was given up.
- *EveryDueProcessed.* A row whose replica died, whose dispatch keeps failing or
  whose wake came during a drain is completed or poisoned in the end.

- *PayoutsAsPromised.* Recheck, re-link, scan and reconciliation overlap, crash
  between the spend and the row, lose answers and load entities that others
  change; the books still move as IdealPayouts says: no post or streak reward is
  sent a second time, unless its first send was misjudged.
- *OneSpendPerWallet, QueuesMove.* Two keys of one wallet never spend at once,
  and a queue whose head has failed is not stuck behind it.
- *EveryClaimEnds, StatusFollowsChain, LiveClaimKept.* A claim is completed or
  fails in the end, becomes claimed only with its name the sponsor's and completed only
  with its name the address's, though a request rewrites the row under the
  worker; and no live claim is removed by a request of another address that saw
  it failed.
- *PauseIsWatched, PauseEnds.* A queue that is paused has a timer, a probe, a
  slot or the boot on its way to resume it, and runs again once the relay is up.
- *ReconnectUnderWay, WriterRecovers.* A writer that is not healthy is opening a
  connection or has a timer that will, whichever of two sockets closes when.
- *RoomGetsCreated.* With the cron as the only helper that is sure to act, a
  token that stays worth a room has it confirmed for good, though its 9002 overtakes
  its 9007, jobs are given up, adds fail in between, acks die with the process, and
  the row is reset or written back as it was before.
- *ConfirmedExisted.* Only a group that was there confirms a room: neither a reset,
  nor a row written back, nor a heal makes one up, and `created` never stands
  without `room_id`. (The converse does not hold: that is the desync observed.)
- *CreatedStays.* Of the handlers of the room none takes `created` back, however
  late or stale the ack; resets and rows written back do.
- *GroupComesBack.* A lost group of a confirmed room is created again, though
  the re-creation is debounced by a timer, may find the room not worth it, may
  fail, be given up or die with the process, and though the state column was
  reset: the member add that notices the loss goes by `room_id` as well.

- *LedgerConverges.* Legs counted twice, lost to another writer, clamped at zero,
  swallowed by a decode error or left behind by a reorg: once chain and deliveries
  are still, the sweep has brought every row back to the chain's balance, past a
  row that can never be read. A holder without a row is nobody's to sweep.
- *UnseenIsOwed.* A change that eligibility has not read is on its way to it, except
  after a crash, a transfer that failed behind a leg, a recompute that failed, and a
  sweep that wrote over a change it had not seen.

**What does not hold** (a finding in `PROJECT.json` with the line quoted)

- *OnboardingPaidOnce* — `save()` writes back a row that was loaded before
  another request claimed the onboarding reward: the claim is gone, the reward is
  claimed and paid again.

**Counterexamples beside the runs.** Thirteen more disagreements of comment and
code are configurations that anybody can run, with the module that section 5 names
(`tlc -config ChainIndex_orphans.cfg MCChainIndex` and so on).

**Why these bounds.** Overlap needs two activations; two faults let a range end
early and another fail, or die, behind it; the first tips cover a boot at, next to
and far from genesis and on both sides of the bulk threshold. In ChainIndex a
transaction interacts with others through the dedupe list, which the second of two
overflows (its limit is 1), and through the observed set of a height: where it is
empty the whole height is deleted, where it holds the other transaction only the
one that a reorg took from beside it, or that the refetch missed. Two reorgs let a
transaction come, go, come back and go again, three generations give a height that
leaves the window; no single instance has all of this, each budget has what its
case needs. PluginDispatch's
transactions share a batch's fate and the cache; with one transaction and two
batches every sharing occurs, three versions let a parked record be older than
two deployments. In RoomMembership two changes suffice for every pair of facts
to change during one recompute. Publish jobs have no id of their own, so a scan
adds another while the first still waits: two waiting jobs of a kind are enough
for an add and a removal to be taken in either order with a stale one of each
left over. One publish slot leaves out two acks handled at once, which
AccessLedger has, the safety proofs cover, and the same instance with two slots
and one waiting job (`Slots = {s1, s2}`, `MaxJobs = 1`, 772 616 states, about
three minutes) confirms for RelayFollowsRow. In
AnnouncementScheduler two replicas and three faults let a row stall, be taken
over, stall again and be resumed by both; the caps (3 and 100 in the code) are 2,
so that both are reached. Two announcements, or two addresses, with one fault
pass as well. In RewardPayouts two
requests, two loads and two faults let one request act on an entity that the
other has overtaken and then crash or lose an answer; three loads with two faults
(7.9 million states, before rows could be blocked) pass as well. ChainNameClaim
needs two addresses that want one name, a second name to change to, and more than
one retry; two requests overlap at every pair of their awaits, and a third, with one
fault, passes too (816 218 states, under four minutes). PublishQueue's
two slots and two jobs fill each other's windows; a second fault (1.0 million
states) passes too. In RoomCreation a second ack handler is what lets one ack be
read before another is written, and a second request what lets one act on a state
that the other, an ack or a heal has moved; each meets the other, a failure and a
rewrite of the row in some budget. A lost group is paid from a budget of its own,
so a failure is left for the re-creation: it may be given up, fail between its two
jobs or die, before or after a change of the gate or a reset of the column. Two
requests and two handlers with a rewrite pass as well (424 184 states, two and a
half minutes). In BalanceLedger two deliveries and the sweep are the three writers of one
row; the transfer takes from the row that can be read, which the clamp and the
trade meet too. The proofs do not depend on any
of these bounds.

**Fairness.** Weak fairness only, and only for what the code schedules: a
process that died is restarted (Docker's policy, which `process-guards.ts`
relies on), the poll and the cron jobs fire again, a handler that has begun goes
on (every request has a timeout), Bull works its queues off, repeatable jobs
return, and time passes, so that an abandoned claim goes stale. A claim that
goes stale while its row is dispatched (heartbeats come every fifth batch) is a
fault. In PublishQueue the relay
comes back (an outage ends), timers fire and delayed jobs return; in
ChainNameClaim key blocks are mined; in RoomCreation the cron ticks every five
minutes, a mark expires after ten, and a confirmed room has a linked member whose
add the scan or the reconciliation repeats. In BalanceLedger Bull repeats the sweep and
nothing else is assumed to be delivered. RewardPayouts has no fairness: it
claims safety only. Faults are not fair and are bounded: liveness is claimed for a system
that stops failing. No user, moderator, miner or operator is assumed to act.

**Deadlock** is checked where the system must always have a step (`backward`
and the runs of ChainIndex, AccessLedger and AnnouncementScheduler). It is off for
PluginDispatch, where every transaction may be old and every batch ended, for
RoomMembership, where a deleted room has nothing left to do, for RewardPayouts
and ChainNameClaim, where everything may be paid or claimed, for RoomCreation,
whose room may be confirmed with nobody left to act, for BalanceLedger, which may
have no row to sweep, and for PublishQueue, whose
jobs may all be settled.

## 4. What is proved

Eight modules `*_proofs.tla` hold proofs checked by TLAPS, for every value of
the constants that satisfies the named assumptions. Three of them extend two
components each, which share no variable and are proved one after the other:
LiveIndexing_proofs (ChainIndex and PluginDispatch), RoomAccess_proofs
(RoomMembership and AccessLedger) and RoomPublishing_proofs (PublishQueue and
RoomCreation). Every invariant and every action property that a passing run
checks is a theorem here.

| Theorem | Statement | Rests on |
|---|---|---|
| BackwardSync_proofs!TypeCorrect | `Spec => []TypeOK`: the cursor stays in -1..MaxTip, every range inside the chain | BatchAssumption, ThresholdAssumption, TipAssumption, FaultAssumption |
| BackwardSync_proofs!CursorIsHonest | `Spec => []CursorCovers` | the same |
| LiveIndexing_proofs!TypeCorrect | `Spec => []TypeOK` of ChainIndex: the window stays inside the chain | Depth-, Bound-, BudgetAssumption |
| LiveIndexing_proofs!SettledIsKept | `Spec => SettledKept`, an action property | the same |
| LiveIndexing_proofs!DispatchTypeCorrect | `DispatchSpec => []DispatchTypeOK`: every parked record carries a real version | Validator-, Version-, FailureAssumption |
| LiveIndexing_proofs!NothingLostByBatches | `DispatchSpec => []BatchesLoseNothing` | the same |
| RoomAccess_proofs!TypeCorrect | `Spec => []TypeOK` of RoomMembership | BoundAssumption |
| RoomAccess_proofs!PendingIsDecided | `Spec => []PendingMatchesEligible` | the same |
| RoomAccess_proofs!LedgerTypeCorrect | `LedgerSpec => []LedgerTypeOK` | CrashAssumption |
| RoomAccess_proofs!PushesAlternate | `LedgerSpec => []NoDuplicatePush` | the same |
| AnnouncementScheduler_proofs!TypeCorrect | `Spec => []TypeOK` | Cap-, Fault-, NobodyAssumption |
| AnnouncementScheduler_proofs!CompletionIsUnique | `Spec => []CompletedOnce` | the same |
| AnnouncementScheduler_proofs!PushIsUnique | `Spec => []PushedOnce` | the same |
| RewardPayouts_proofs!PayoutsImplementIdeal | `Spec => PayoutsAsPromised`: the refinement of IdealPayouts | Reward-, Wallet-, BoundAssumption |
| RewardPayouts_proofs!RewardsPaidOnce | `Spec => []Ideal!PaidOnce` | the same |
| RewardPayouts_proofs!WalletsSpendOnce | `Spec => []OneSpendPerWallet` | the same |
| RewardPayouts_proofs!QueuesAlwaysMove | `Spec => []QueuesMove` | the same |
| RewardPayouts_proofs!TypeCorrect | `Spec => []TypeOK` | the same |
| ChainNameClaim_proofs!TypeCorrect | `Spec => []TypeOK`: among others, no more retries than PROFILE_CHAIN_NAME_MAX_RETRIES | Bound-, NameAssumption |
| ChainNameClaim_proofs!SettledAsOnChain | `Spec => StatusFollowsChain`, an action property | the same |
| ChainNameClaim_proofs!LiveRowsStay | `Spec => LiveClaimKept`, an action property | the same |
| ChainNameClaim_proofs!OneAtChain | no two workers are between a transaction of the sponsor's wallet and its row | the same |
| RoomPublishing_proofs!PauseAlwaysWatched | `Spec => []PauseIsWatched` | Bound-, NameAssumption |
| RoomPublishing_proofs!ReconnectAlwaysUnderWay | `Spec => []ReconnectUnderWay` | the same |
| RoomPublishing_proofs!TypeCorrect | `Spec => []TypeOK` of PublishQueue | the same |
| RoomPublishing_proofs!ConfirmedAlwaysExisted | `CreationSpec => []ConfirmedExisted` | CreationBounds |
| RoomPublishing_proofs!CreatedAlwaysStays | `CreationSpec => CreatedStays`, an action property | the same |
| RoomPublishing_proofs!CreationTypeCorrect | `CreationSpec => []CreationTypeOK` | the same |
| BalanceLedger_proofs!TypeCorrect | `Spec => []TypeOK`: no balance below zero, the sweep's order names every row at most once | Bound-, LegAssumption |
| BalanceLedger_proofs!ChangesAreOwed | `Spec => []UnseenIsOwed` | the same |

What the assumptions ask is what the code gives: bounds are naturals, caps and
batch sizes positive; a transaction moves at least one leg of the ledger's
holders, which are finitely many rows (one without a leg touches no row); there
is a name to claim, and an address is none of the markers for the sponsor, a
stranger or nobody. TLC evaluates each of them in the runs.

The arguments, in one paragraph each:

- **BackwardSync.** CursorCovers is not inductive: a loop writes a cursor it
  computed several awaits earlier. The strengthening says of each loop that
  every height above the `hi` it holds is covered, and how far each table has
  got inside `[lo, hi]`. A height counts as dealt with when it is stored or was
  passed over (`Blocks`, `Micro`, `Txs`); both only grow, so one loop's knowledge
  survives the steps of the others (LoopStable); at `Commit` the range and what lies
  above it together are what the new cursor claims.
- **ChainIndex.** That a deletion spares a settled transaction depends on what
  was observed when its height was refetched. `Known(h)` names the heights whose
  observed set the pass still relies on, ObservedOK says that a transaction
  which has not moved since the pass began is in it if it is below `cut`, RemovedOK
  that the list to be deleted avoids it. WindowOK keeps the pass inside its window,
  CutOK says that no page was fetched above the height where the refetch ended.
- **PluginDispatch.** Between the hand-over and its end a transaction is
  answered for by the locals of a batch: `Holds(r, t)` says where, at each await,
  and Accounted that somebody holds or has answered for every transaction given.
- **RoomMembership.** TypeOK and PendingMatchesEligible are inductive together.
  The lemma NextRelayStateAgrees is what carries the decision: `nextRelayState`
  returns a pending state only in the direction of `eligible`, and both are
  written at once; acks and the deletion write terminal states only.
- **AnnouncementScheduler.** CompletedOnce rests on TableOK: a processed row has
  no claim, so no token finds it again. PushedOnce rests on PushOK: without a
  marker there is no push, at most one replica is between marker and job, and
  while one is, nothing was added; a job that is given up was added, so dropping
  its marker frees nobody else's.

- **AccessLedger.** NoDuplicatePush counts what is written and not what is about
  to be: a handler that has flipped the row to granted inserts its event some
  awaits later, with the finalizer and another ack in between. The books are kept
  over both. GrantBooks: the grants recorded less the losses, and with them every
  handler that still owes its event (`Granting`), are at most one while access is
  granted and none while it is not; RevokeBooks the same for the finalizer. The flip
  itself is conditional, so it pays into the books exactly when somebody begins
  to owe.
- **BalanceLedger.** UnseenIsOwed is inductive with the types, and most of the work
  is in those: what a delivery has written and not signalled are rows that
  exist, and the sweep is at a row as long as it is under way, its order an injective
  sequence (RemoveFirst and an append keep it one: StampedKeeps; so does taking
  a batch: BatchKeeps). Each step then takes a holder from one place of what is owed
  to the next.
- **ChainNameClaim.** A worker asks the chain, awaits, and writes the row on the
  condition of its status. SeenStands says that what it saw still holds
  when the condition does: only this worker gives the row that status and the name
  with it. NamesUnique (the index on the name) keeps another row from having the
  name, TurnHeld keeps every other worker off the wallet between transaction and
  row, RetriesLeft that a failed row is not a live one. The two action properties
  follow step by step.
- **RewardPayouts.** One invariant carries both the safety theorems and the
  refinement: BooksOK ties each row to the spends on the chain (an open row has
  none outstanding, a claimed one at most the one its claimant is at), RowExists
  says that who works on a reward works on a row that is there, QueueOK and
  InQueue that a promise chain holds each request once and its head is at work.
  Under it every step maps to one step of IdealPayouts or to a stutter.
- **PublishQueue.** PauseIsWatched goes with SlotsOK (a slot that is not idle
  works on an active job, no two on one) and JobsOK (attempts and acks of a job that
  is not settled). ReconnectUnderWay rests on WriterOK: an unhealthy writer with no
  opening has its timer, an opening has the timer or the reconnect among those who
  wait for it, and a closed socket left a timer behind.
- **RoomCreation.** ConfirmedExisted needs Evidence: whoever is about to confirm
  the room, an ack of a 9007 that succeeded, a heal or a row that waits to be
  written back, has seen its group, and no handler holds the state created, so none
  can write over it. A row read from the table satisfies ConfirmedExisted when it is
  read (RowOK) and, since a group that was there once never counts as absent again,
  still when it is written.

Model-checked only: liveness under fairness (BackfillEnds, Converges,
RecentIsCurrent, RelayFollowsRow, RevokeResolves, EveryDueProcessed,
EveryClaimEnds, PauseEnds, WriterRecovers, RoomGetsCreated, GroupComesBack,
LedgerConverges), which is out of TLAPS's reach here, as are ENABLED and anything
defined by recursion. OnboardingPaidOnce and the counterexamples of section 5 are
violated, so there is nothing to prove.

## 5. Known disagreements, and what is not modelled

### Counterexamples beside the runs

Each of these is violated under the configuration named, which is kept in this
directory and is no run of `PROJECT.json`; the hazards there refer to it.

- *CursorClaimsStored* (BackwardSync_short.cfg, module MCBackwardSync) — a range
  whose pagination ends early succeeds (the test at
  `block-sync.service.spec.ts:167` asks for that), and the cursor passes heights
  that were never stored; the backfill does not come back to them.
- *CompleteKept* (ChainIndex_cut.cfg, module MCChainIndex) — the observed set must
  be complete, says `block-sync.service.ts:227-230`, or validation deletes canonical
  transactions: a refetch that ends early without an error leaves it short, and
  transactions that have not moved are deleted until a later validation brings them
  back.
- *CanonicalKept* (ChainIndex_canonical.cfg,
  module MCChainIndex) — a transaction that the live handler saves between the
  refetch of its height and the clean-up is deleted although it is on the chain;
  the next validation brings it back.
- *NoOrphanRows* (ChainIndex_orphans.cfg,
  module MCChainIndex) — a crash, or a failing `onReorg`, between the deletion from txs
  and the plugin's clean-up leaves the plugin's row for good.
- *StateBeforeIndexing* (PluginDispatch_state.cfg,
  module MCPluginDispatch) — on a first boot the live indexer may look for the
  plugin's row before the registry has created it, and the null is cached.
- *VersionBumpResyncs* (PluginDispatch_version.cfg,
  module MCPluginDispatch) — a transaction older than the validated depth is never
  given to a new plugin version. (BasePlugin.updateTransactions decodes it again
  and does not process it.)
- *UnlinkedLeaves* (RoomMembership_unlink.cfg, module MCRoomMembership) — a member who unlinks his key stays in the relay's group: the
  row loses the key before anybody has removed it from the relay.
- *AccessFollowsRelay* (AccessLedger_relay.cfg,
  module MCAccessLedger) — a loss judged by access columns read before a concurrent
  grant leaves a removed member `granted` with nothing armed.
- *AckedOnce* (PublishQueue_acks.cfg,
  module PublishQueue) — the processor promises an ack "exactly once
  per settled job" (line 53); a terminal reject is acked and thrown to Bull
  without `discard()`, so it is retried and acked again, and a last attempt that
  the health check refuses is never acked.
- *RoomIdStays* (RoomCreation_rewrite.cfg, module MCRoomCreation) — "the durable
  created-marker", says `membership-sync.service.ts:61-68` of `room_id`;
  `createTokenFromRawTransaction` has read the token before its room was confirmed
  and writes the whole row back afterwards, `room_id` null included. The cron asks
  for the room again, and the relay's answer confirms it again (RoomGetsCreated).
- *DeletedGroupGoes* (RoomCreation_deleted.cfg, module MCRoomCreation) — "Terminal", says
  `nostr-room-state.enum.ts:12` of a deletion; a community is deleted before its room was made: the same
  event starts the 9008 and the request of a room, the 9008 finds no group and
  counts as done, the 9007 creates it and no later step removes it. Nothing in
  src/ writes the room state `deleted` that would have stopped the request.
- *CountedOnce* (BalanceLedger_once.cfg, module MCBalanceLedger) — "a transfer is
  counted exactly once" (`aex9-transfer-sync.service.ts:36`); two deliveries under way
  both see no mark, and the live indexer's entity, which carries no `data`, never
  shows one. The sweep takes the surplus back.
- *EligibilityCatchesUp* (BalanceLedger_signals.cfg, module MCBalanceLedger) — the
  sweep finds a row as the chain has it, a trade's mirror changes the row and
  signals, eligibility reads it, the sweep saves what it had and, having found no
  difference, tells nobody: eligibility keeps a balance the row no longer has,
  and later sweeps find no drift.

Observed while modelling, without a property: a trade that the validation saves
before the live indexer has it moves no balance
(`transaction-processor.service.ts:227`), and a holder without a row is never
swept; a deleted community whose
management answers again is written back as not deleted
(`room-state.service.ts:217`, against the comment at 127 that a deletion is
terminal), and any error of the node, a lost connection included, is taken for a
deletion (135, 166); after a crash, or after the ten minutes of the debounce, the
ack of a re-created group does not fire `tgr.room.created`, so the members are
added by the scan and the reconciliation and not at once.

### Not modelled

The map covers what the modules translate, a small part of the repository's
lines: most of the rest is REST controllers, DTOs, entities, SQL queries,
scores and clients, which keep no state of their own between awaits.


- Pure SQL and arithmetic (leaderboards, PnL, portfolio, trending and ranking
  scores, analytics, feeds): single statements over tables that the modules above
  keep; TLC has nothing to interleave.
- Wire formats, signatures, the Nostr socket, Expo and web-push clients, HTTP
  controllers: I/O whose outcomes (answer, refusal, silence) the models take as
  nondeterministic.
- `syncHistoricalTransactions`, `fetchTransactionBatch` and the `critical` branch
  of the MDW status: code that nothing reaches. The retry of
  parked transactions is modelled although nothing in the repository calls it: a
  retry deletes the record whether or not it succeeded (hazard at
  `plugin-failed-transaction.service.ts:100`).
- Overlapping activations of `sync()` write an older cursor over a newer one,
  contrary to the comment at `indexer.service.ts:81` ("will decrease as we sync
  backward"). BackwardSync has it; ranges are fetched again, CursorCovers stands.
- `markPoisoned` may fall on a row that a peer has claimed, or completed, since
  `releaseClaim` freed it, and zeroes its counters; a crash between marker and job
  leaves an address that the retry counts as delivered. Both are in
  AnnouncementScheduler and under `hazards`; no property forbids them.
- Height 0: a last range that starts at height 1 leaves the cursor at 0, which
  the code takes for "done", so genesis itself may stay unfetched. Seen in
  BackwardSync, and no property: genesis has no transaction a plugin wants.
- A downtime longer than `reorgDepth` key blocks: the heights in between are
  fetched by nobody, since the backfill only goes down and the validation only
  sees the window. Converges is stated for the window; the whole range needs the
  composition of step 3 below.

## 6. Plan

What is left, in this order; each step names the abstract specification,
composition or proof that goes with it. The project is held to a dozen runs, so
that a module that arrives joins a composition or takes the place of a run whose
question it answers as well.

1. **IndexOrder**, composing the hand-over orders of BackwardSync, ChainIndex
   and PluginDispatch, with **AddressLinks** (link, unlink), comments and votes
   on top: does the final table depend on the order of processing? Abstract
   specification: the fold of the chain's operations by height.
2. BalanceLedger in front of RoomMembership, with the allowlist and
   `token_holders`; abstract specification: the chain's balance.
3. **ChainRange**: backfill, live and validation over the whole height range
   with a downtime; abstract specification "every height is eventually and for
   ever stored", refined by BackwardSync below the first tip.
4. RoomStateService's readers in front of RoomCreation, several tokens in one
   provisioning batch, and RoomMembership composed with it; then
   `held_until_height` and two recomputes, with EligibleIsCurrent.
5. **TokenHoldersLock** (lock, timeout, sync that outlives it), with mutual
   exclusion.
6. **PluginUpdate** (keyset pages with ties), notification challenges and
   receipts.
7. Proofs: the refinement of step 3, and the invariants the compositions above
   bring with them.
