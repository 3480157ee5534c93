---------------------------- MODULE BackwardSync ----------------------------
(***************************************************************************)
(* IndexerService (mdw-sync/services/indexer.service.ts): the backfill that *)
(* walks from the tip seen at first boot down to genesis, one height range  *)
(* at a time, each range through BlockSyncService.syncBlockRange.           *)
(*                                                                          *)
(* One activation of the async method sync() is a "loop".  An action is the *)
(* code between two awaits, so what a loop read before an await may be      *)
(* stale when it uses it.  A loop that commits a range goes on by calling   *)
(* itself inside `try` without awaiting, so the outer `finally` clears      *)
(* isRunning while the inner activation is under way.                       *)
(***************************************************************************)
EXTENDS Integers, FiniteSets

CONSTANTS
  Loops,          \* activations of sync() that can be outstanding at once
  BulkThreshold,  \* mdw.bulkModeThreshold
  BulkBatch,      \* mdw.bulkModeBatchBlocks
  Batch,          \* mdw.backfillBatchBlocks
  FirstTips,      \* heights the chain may have at the start
  MaxTip,         \* bound on the growth of the chain
  MaxFaults       \* bound on failed requests, failed writes, crashes and
                  \* paginations that end early

ASSUME BatchAssumption == BulkBatch \in Nat \ {0} /\ Batch \in Nat \ {0}
ASSUME ThresholdAssumption == BulkThreshold \in Nat
ASSUME TipAssumption == MaxTip \in Nat /\ FirstTips \subseteq 0..MaxTip
ASSUME FaultAssumption == MaxFaults \in Nat

VARIABLES
  \* the middleware
  mdwHeight,               \* mdw_height of GET /v3/status
  \* the database
  hasRow,                  \* the sync_state row 'global' exists
  backward_synced_height,  \* sync_state: the next height to fetch
  is_bulk_mode,            \* sync_state
  tip_height,              \* sync_state
  keyBlocks,               \* heights whose key block is stored
  microBlocks,             \* heights whose micro-blocks are stored
  txs,                     \* heights whose transactions are stored
  \* the process
  up,                      \* the process has booted
  isRunning,               \* IndexerService.isRunning
  loop,                    \* the locals of every activation of sync()
  \* auxiliary
  origin,                  \* backward_synced_height as first written
  missed,                  \* by table, heights passed over by a call that
                           \* ended its pagination early and succeeded
  faults                   \* faults so far

db == <<hasRow, backward_synced_height, is_bulk_mode, tip_height>>
stored == <<keyBlocks, microBlocks, txs>>
vars == <<mdwHeight, db, stored, up, isRunning, loop, origin, missed, faults>>

-----------------------------------------------------------------------------
Tables == {"blocks", "micro", "txs"}

PCs == {"idle", "read", "status", "blocks", "micro", "txs", "commit"}

(* The locals of sync(): the await it is at, the row as it was read, the    *)
(* range [lo, hi] and the next page of transactions, from hi downwards.     *)
Idle == [pc |-> "idle", bulk |-> FALSE, hi |-> 0, lo |-> 0, page |-> 0]

LoopType == [pc: PCs, bulk: BOOLEAN, hi: -1..MaxTip, lo: 0..MaxTip,
             page: -1..MaxTip]

FlagsOK ==
  /\ hasRow \in BOOLEAN
  /\ is_bulk_mode \in BOOLEAN
  /\ up \in BOOLEAN
  /\ isRunning \in BOOLEAN

HeightsOK ==
  /\ mdwHeight \in 0..MaxTip
  /\ backward_synced_height \in -1..MaxTip
  /\ tip_height \in 0..MaxTip
  /\ origin \in 0..MaxTip
  /\ faults \in 0..MaxFaults

TablesOK ==
  /\ keyBlocks \subseteq 0..MaxTip
  /\ microBlocks \subseteq 0..MaxTip
  /\ txs \subseteq 0..MaxTip
  /\ missed \in [Tables -> SUBSET (0..MaxTip)]

TypeOK ==
  /\ FlagsOK
  /\ HeightsOK
  /\ TablesOK
  /\ loop \in [Loops -> LoopType]

Init ==
  /\ mdwHeight \in FirstTips
  /\ hasRow = FALSE
  /\ backward_synced_height = 0
  /\ is_bulk_mode = FALSE
  /\ tip_height = 0
  /\ keyBlocks = {} /\ microBlocks = {} /\ txs = {}
  /\ up = FALSE
  /\ isRunning = FALSE
  /\ loop = [l \in Loops |-> Idle]
  /\ origin = 0
  /\ missed = [t \in Tables |-> {}]
  /\ faults = 0

-----------------------------------------------------------------------------
(* Operators of sync() *)

ShouldUseBulkMode(height) == height > BulkThreshold

(* Mutant: the range is not clamped at genesis. *)
UnclampedStartHeight(endHeight) ==
  endHeight - (IF ShouldUseBulkMode(endHeight) THEN BulkBatch ELSE Batch) + 1

StartHeight(endHeight) ==
  LET size  == IF ShouldUseBulkMode(endHeight) THEN BulkBatch ELSE Batch
      start == endHeight - size + 1
  IN IF start > 0 THEN start ELSE 0

(* Mutant: the cursor skips a height below the range. *)
SkippingBackwardHeight(l) == loop[l].lo - 2

NewBackwardHeight(l) == loop[l].lo - 1

(* Mutant: sync() without its `finally`. *)
FinishWithoutReset(l) ==
  /\ loop' = [loop EXCEPT ![l] = Idle]
  /\ UNCHANGED isRunning

(* sync() gives up, by a return or by an exception: `finally`. *)
Finish(l) ==
  /\ loop' = [loop EXCEPT ![l] = Idle]
  /\ isRunning' = FALSE

(* resolveMiddlewareNextUrlSafely turns a next URL it cannot follow into    *)
(* null, and an empty page of transactions ends the loop over the pages:    *)
(* the call stores what it has and returns as if the range had ended, the   *)
(* heights of `left` not fetched.                                           *)
PassOver(table, left) ==
  IF left = {}
  THEN UNCHANGED <<missed, faults>>
  ELSE /\ faults < MaxFaults
       /\ faults' = faults + 1
       /\ missed' = [missed EXCEPT ![table] = @ \cup left]

-----------------------------------------------------------------------------
(* The chain grows. *)
Mine ==
  /\ mdwHeight < MaxTip
  /\ mdwHeight' = mdwHeight + 1
  /\ UNCHANGED <<db, stored, up, isRunning, loop, origin, missed,
                 faults>>

(* onModuleInit: the row is created at the tip on the first boot and kept   *)
(* on every later one; then the poll is armed.                              *)
Boot ==
  /\ ~up
  /\ up' = TRUE
  /\ IF hasRow
     THEN UNCHANGED <<db, origin>>
     ELSE /\ hasRow' = TRUE
          /\ backward_synced_height' = mdwHeight
          /\ is_bulk_mode' = FALSE
          /\ tip_height' = mdwHeight
          /\ origin' = mdwHeight
  /\ UNCHANGED <<mdwHeight, stored, isRunning, loop, missed, faults>>

(* The 3 s poll, and the guard of sync(). *)
Tick(l) ==
  /\ up
  /\ ~isRunning
  /\ loop[l].pc = "idle"
  /\ isRunning' = TRUE
  /\ loop' = [loop EXCEPT ![l].pc = "read"]
  /\ UNCHANGED <<mdwHeight, db, stored, up, origin, missed, faults>>

(* findOne of the sync_state row. *)
ReadState(l) ==
  /\ loop[l].pc = "read"
  /\ loop' = [loop EXCEPT ![l] =
       [@ EXCEPT !.pc = "status", !.bulk = is_bulk_mode,
                 !.hi = backward_synced_height]]
  /\ UNCHANGED <<mdwHeight, db, stored, up, isRunning, origin, missed,
                 faults>>

(* The status arrives: the tip is written, and sync() either returns        *)
(* because the row it read is at genesis or picks the mode and the range.   *)
Status(l) ==
  /\ loop[l].pc = "status"
  /\ tip_height' = mdwHeight
  /\ IF loop[l].hi <= 0
     THEN /\ Finish(l)
          /\ UNCHANGED is_bulk_mode
     ELSE /\ is_bulk_mode' = IF loop[l].bulk # ShouldUseBulkMode(loop[l].hi)
                             THEN ShouldUseBulkMode(loop[l].hi)
                             ELSE is_bulk_mode
          /\ loop' = [loop EXCEPT ![l] =
               [@ EXCEPT !.pc = "blocks", !.lo = StartHeight(loop[l].hi)]]
          /\ UNCHANGED isRunning
  /\ UNCHANGED <<mdwHeight, hasRow, backward_synced_height, stored, up,
                 origin, missed, faults>>

(* syncBlocks: every page of the range is fetched, lowest heights first,    *)
(* then one upsert.                                                         *)
SyncBlocks(l) ==
  /\ loop[l].pc = "blocks"
  /\ \E last \in (loop[l].lo - 1) .. loop[l].hi :
       /\ keyBlocks' = keyBlocks \cup (loop[l].lo .. last)
       /\ PassOver("blocks", (last + 1) .. loop[l].hi)
  /\ loop' = [loop EXCEPT ![l].pc = "micro"]
  /\ UNCHANGED <<mdwHeight, db, microBlocks, txs, up, isRunning, origin>>

(* syncMicroBlocks: for the key blocks of the range found in the database,  *)
(* each with a pagination of its own.                                       *)
SyncMicroBlocks(l) ==
  /\ loop[l].pc = "micro"
  /\ LET found == (loop[l].lo .. loop[l].hi) \cap keyBlocks
     IN \E left \in SUBSET found :
          /\ microBlocks' = microBlocks \cup (found \ left)
          /\ PassOver("micro", left)
  /\ loop' = [loop EXCEPT ![l] =
       [@ EXCEPT !.pc = "txs", !.page = loop[l].hi]]
  /\ UNCHANGED <<mdwHeight, db, keyBlocks, txs, up, isRunning, origin>>

(* processTransactionPage: pages are fetched newest first, and each is      *)
(* stored before the next is asked for.  A page is one height here.         *)
SyncTransactionPage(l) ==
  /\ loop[l].pc = "txs"
  /\ txs' = txs \cup {loop[l].page}
  /\ loop' = [loop EXCEPT ![l] =
       [@ EXCEPT !.page = loop[l].page - 1,
                 !.pc = IF loop[l].page = loop[l].lo THEN "commit" ELSE "txs"]]
  /\ UNCHANGED <<mdwHeight, db, keyBlocks, microBlocks, up, isRunning,
                 origin, missed, faults>>

(* The page is empty, or its next URL cannot be followed (then the page     *)
(* itself was stored by SyncTransactionPage): syncTransactions returns.     *)
EndTransactionsEarly(l) ==
  /\ loop[l].pc = "txs"
  /\ PassOver("txs", loop[l].lo .. loop[l].page)
  /\ loop' = [loop EXCEPT ![l].pc = "commit"]
  /\ UNCHANGED <<mdwHeight, db, stored, up, isRunning, origin>>

(* The height is written; `isRunning = false`; more work is started by a    *)
(* nested sync(), whose isRunning the outer `finally` clears again.         *)
Commit(l) ==
  /\ loop[l].pc = "commit"
  /\ backward_synced_height' = NewBackwardHeight(l)
  /\ isRunning' = FALSE
  /\ loop' = [loop EXCEPT
       ![l] = IF NewBackwardHeight(l) > 0 THEN [Idle EXCEPT !.pc = "read"]
                                    ELSE Idle]
  /\ UNCHANGED <<mdwHeight, hasRow, is_bulk_mode, tip_height, stored, up,
                 origin, missed, faults>>

(* Any await of sync() may reject: caught, logged, `finally`. *)
Fail(l) ==
  /\ loop[l].pc # "idle"
  /\ faults < MaxFaults
  /\ faults' = faults + 1
  /\ Finish(l)
  /\ UNCHANGED <<mdwHeight, db, stored, up, origin, missed>>

(* The process dies: the database stays. *)
Crash ==
  /\ up
  /\ faults < MaxFaults
  /\ faults' = faults + 1
  /\ up' = FALSE
  /\ isRunning' = FALSE
  /\ loop' = [l \in Loops |-> Idle]
  /\ UNCHANGED <<mdwHeight, db, stored, origin, missed>>

Advance(l) ==
  \/ ReadState(l) \/ Status(l) \/ SyncBlocks(l) \/ SyncMicroBlocks(l)
  \/ SyncTransactionPage(l) \/ EndTransactionsEarly(l) \/ Commit(l)

Next ==
  \/ Mine \/ Boot \/ Crash
  \/ \E l \in Loops : Tick(l) \/ Advance(l) \/ Fail(l)

(* The process is restarted, the poll keeps firing, and a request or query  *)
(* that does not fail is answered (fetchJson times out after 30 s).         *)
Fairness ==
  /\ WF_vars(Boot)
  /\ WF_vars(\E l \in Loops : Tick(l))
  /\ \A l \in Loops : WF_vars(Advance(l))

Spec == Init /\ [][Next]_vars /\ Fairness

-----------------------------------------------------------------------------
(* Everything between the persisted cursor and the height the backfill      *)
(* started from was fetched into all three tables, or passed over by a call *)
(* whose pagination ended early: whatever loops overlap, fail or die, no    *)
(* other height is claimed by the cursor and absent.                        *)
CursorCovers ==
  \A h \in 0..MaxTip :
    hasRow /\ backward_synced_height < h /\ h <= origin
      => /\ h \in keyBlocks \/ h \in missed["blocks"]
         /\ h \in microBlocks \/ h \in missed["micro"] \cup missed["blocks"]
         /\ h \in txs \/ h \in missed["txs"]

(* The cursor claims no height that was not stored.  The code does not keep *)
(* it: a pagination that ends early succeeds, and the cursor moves on       *)
(* (BackwardSync_short.cfg).                                                *)
CursorClaimsStored ==
  \A h \in 0..MaxTip :
    hasRow /\ backward_synced_height < h /\ h <= origin
      => h \in keyBlocks /\ h \in microBlocks /\ h \in txs

(* The backfill reaches genesis: no failed range, crash or overlap of       *)
(* loops stops the poll from starting again where the cursor is.            *)
BackfillEnds == <>[](hasRow /\ backward_synced_height <= 0)
=============================================================================
