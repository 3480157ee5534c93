--------------------------- MODULE PluginDispatch ---------------------------
(***************************************************************************)
(* The hand-over of stored transactions to one plugin: the plugin's row in  *)
(* plugin_sync_state (PluginRegistryService), the batches that the live     *)
(* indexer, the backfill and the validation start                           *)
(* (PluginBatchProcessorService), the parked failures and their retry       *)
(* (PluginFailedTransactionService).                                        *)
(*                                                                          *)
(* An action is the code between two awaits.  The three heights of the row  *)
(* are left out: only BasePlugin.syncHistoricalTransactions, which nothing  *)
(* calls, reads them to decide anything.                                    *)
(* Its names are its own (DispatchInit, failures, ...), so that one proof   *)
(* module can extend ChainIndex and this module.                            *)
(***************************************************************************)
EXTENDS Integers

CONSTANTS
  PluginTxs,    \* transactions that match the plugin's filters
  Batches,      \* processBatchForPlugin calls that can be under way
  Validator,    \* the one of them that BlockValidationService makes
  MaxVersion,   \* bound on the versions of the plugin that are deployed
  MaxFailures   \* bound on failures and crashes

ASSUME ValidatorAssumption == Validator \in Batches
ASSUME VersionAssumption == MaxVersion \in Nat \ {0}
ASSUME FailureAssumption == MaxFailures \in Nat

VARIABLES
  \* the database
  stateVersion,  \* plugin_sync_state.version, 0 when the row is absent
  parked,        \* version of the plugin_failed_transaction row, 0 when absent
  applied,       \* plugin version that last processed a transaction, 0 if none
  \* the process
  started,
  version,       \* plugin.version of the build
  initialised,   \* initializePluginSyncStates is done
  cache,         \* syncStateCache: "none", or the version read, 0 for null
  batch,         \* the locals of every processBatchForPlugin
  retry,         \* the locals of retryFailedTransactions
  \* auxiliary
  age,           \* "new", "recent" (within reorgDepth of the tip) or "old"
  ignored,       \* last given to a batch that found no row
  cut,           \* in a batch since then that lost it by a crash or a failed query
  retried,       \* unparked by a retry since then
  failures

row == <<stateVersion>>
process == <<started, version, initialised>>
history == <<age, ignored, cut, retried>>
dispatchVars == <<row, parked, applied, process, cache, batch, retry, history, failures>>

Versions == 0..MaxVersion
Uncached == -1

(* `todo` is still to be processed, `failed` still to be parked; when       *)
(* `final` holds nothing follows the parking.                               *)
IdleBatch == [pc |-> "idle", txs |-> {}, todo |-> {}, failed |-> {},
              ver |-> 0, final |-> FALSE]

StartedBatch(S) == [pc |-> "state", txs |-> S, todo |-> S, failed |-> {},
                    ver |-> 0, final |-> FALSE]

IdleRetry == [pc |-> "idle", txs |-> {}, todo |-> {}]

BatchType == [pc: {"idle", "state", "process", "record", "update"},
              txs: SUBSET PluginTxs, todo: SUBSET PluginTxs, failed: SUBSET PluginTxs,
              ver: Versions, final: BOOLEAN]

RetryType == [pc: {"idle", "process", "delete"}, txs: SUBSET PluginTxs,
              todo: SUBSET PluginTxs]

DispatchTypeOK ==
  /\ stateVersion \in Versions
  /\ parked \in [PluginTxs -> Versions]
  /\ applied \in [PluginTxs -> Versions]
  /\ started \in BOOLEAN /\ initialised \in BOOLEAN
  /\ version \in Versions \ {0}
  /\ cache \in Versions \cup {Uncached}
  /\ batch \in [Batches -> BatchType]
  /\ retry \in RetryType
  /\ age \in [PluginTxs -> {"new", "recent", "old"}]
  /\ ignored \subseteq PluginTxs /\ cut \subseteq PluginTxs /\ retried \subseteq PluginTxs
  /\ failures \in 0..MaxFailures

DispatchInit ==
  /\ stateVersion = 0
  /\ parked = [t \in PluginTxs |-> 0]
  /\ applied = [t \in PluginTxs |-> 0]
  /\ started = FALSE /\ initialised = FALSE
  /\ version = 1
  /\ cache = Uncached
  /\ batch = [b \in Batches |-> IdleBatch]
  /\ retry = IdleRetry
  /\ age = [t \in PluginTxs |-> "new"]
  /\ ignored = {} /\ cut = {} /\ retried = {}
  /\ failures = 0

Failure ==
  /\ failures < MaxFailures
  /\ failures' = failures + 1

-----------------------------------------------------------------------------
(* PluginRegistryService *)

(* initializePluginSyncStates: create the row, or raise its version.  It    *)
(* runs beside the onModuleInit of the indexers, not before it.             *)
InitialisePluginSyncStates ==
  /\ started /\ ~initialised
  /\ stateVersion' = version
  /\ initialised' = TRUE
  /\ UNCHANGED <<parked, applied, started, version, cache, batch, retry, history,
                 failures>>

-----------------------------------------------------------------------------
(* PluginBatchProcessorService.processBatchForPlugin *)

Recent == {t \in PluginTxs : age[t] = "recent"}

(* Mutant: validation leaves out what the plugin has already got.           *)
UnseenRecent == {t \in Recent : applied[t] = 0}

(* What a validation gives the plugin: all it refetched, stored or not.     *)
Refetched == Recent

Dispatch(b, S) ==
  /\ started
  /\ batch[b].pc = "idle" /\ S # {}
  /\ batch' = [batch EXCEPT ![b] = StartedBatch(S)]
  /\ age' = [t \in PluginTxs |-> IF t \in S THEN "recent" ELSE age[t]]
  /\ ignored' = ignored \ S /\ cut' = cut \ S /\ retried' = retried \ S
  /\ UNCHANGED <<row, parked, applied, process, cache, retry, failures>>

(* Live and backfill: what was not given before; a backfill that resumes    *)
(* gives some of it again.                                                  *)
Index(b, S) ==
  /\ b # Validator
  /\ \A t \in S : age[t] # "old"
  /\ Dispatch(b, S)

Validate == Dispatch(Validator, Refetched)

(* Mutant: the row is never read.                                           *)
UnreadSyncState == cache

(* getCachedSyncState; without a row the batch is dropped.                  *)
SyncState == IF cache = Uncached THEN stateVersion ELSE cache

GetCachedSyncState(b) ==
  /\ batch[b].pc = "state"
  /\ cache' = SyncState
  /\ IF SyncState = 0
     THEN /\ batch' = [batch EXCEPT ![b] = IdleBatch]
          /\ ignored' = ignored \cup batch[b].txs
     ELSE /\ batch' = [batch EXCEPT ![b].pc = "process", ![b].ver = SyncState]
          /\ UNCHANGED ignored
  /\ UNCHANGED <<row, parked, applied, process, retry, age, cut, retried,
                 failures>>

(* A failed query ends the batch; nothing is parked. *)
GetCachedSyncStateFails(b) ==
  /\ batch[b].pc = "state" /\ cache = Uncached
  /\ Failure
  /\ batch' = [batch EXCEPT ![b] = IdleBatch]
  /\ cut' = cut \cup batch[b].txs
  /\ UNCHANGED <<row, parked, applied, process, cache, retry, age, ignored,
                 retried>>

(* plugin.processBatch, one transaction at a time. *)
Process(b, t) ==
  /\ batch[b].pc = "process" /\ t \in batch[b].todo
  /\ applied' = [applied EXCEPT ![t] = version]
  /\ batch' = [batch EXCEPT ![b].todo = batch[b].todo \ {t}]
  /\ UNCHANGED <<row, parked, process, cache, retry, history, failures>>

ProcessFails(b, t) ==
  /\ batch[b].pc = "process" /\ t \in batch[b].todo
  /\ Failure
  /\ batch' = [batch EXCEPT ![b].todo = batch[b].todo \ {t},
                            ![b].failed = batch[b].failed \cup {t}]
  /\ UNCHANGED <<row, parked, applied, process, cache, retry, history>>

(* Mutant: the failures are logged and dropped.                             *)
DropFailures(b) ==
  /\ batch[b].pc = "process" /\ batch[b].todo = {}
  /\ batch' = [batch EXCEPT ![b].pc = "update", ![b].failed = {}]
  /\ UNCHANGED <<row, parked, applied, process, cache, retry, history, failures>>

Processed(b) ==
  /\ batch[b].pc = "process" /\ batch[b].todo = {}
  /\ batch' = [batch EXCEPT ![b].pc = "record"]
  /\ UNCHANGED <<row, parked, applied, process, cache, retry, history, failures>>

(* recordFailure upserts the failure at the version of the cached row.      *)
RecordFailure(b, t) ==
  /\ batch[b].pc = "record" /\ t \in batch[b].failed
  /\ parked' = [parked EXCEPT ![t] = batch[b].ver]
  /\ batch' = [batch EXCEPT ![b].failed = batch[b].failed \ {t}]
  /\ UNCHANGED <<row, applied, process, cache, retry, history, failures>>

(* ... and swallows its own error.                                          *)
RecordFailureFails(b, t) ==
  /\ batch[b].pc = "record" /\ t \in batch[b].failed
  /\ Failure
  /\ cut' = cut \cup {t}
  /\ batch' = [batch EXCEPT ![b].failed = batch[b].failed \ {t}]
  /\ UNCHANGED <<row, parked, applied, process, cache, retry, age, ignored,
                 retried>>

Recorded(b) ==
  /\ batch[b].pc = "record" /\ batch[b].failed = {}
  /\ batch' = IF batch[b].final THEN [batch EXCEPT ![b] = IdleBatch]
              ELSE [batch EXCEPT ![b].pc = "update"]
  /\ UNCHANGED <<row, parked, applied, process, cache, retry, history, failures>>

(* The heights of the row are updated ... *)
UpdateSyncState(b) ==
  /\ batch[b].pc = "update"
  /\ batch' = [batch EXCEPT ![b] = IdleBatch]
  /\ UNCHANGED <<row, parked, applied, process, cache, retry, history, failures>>

(* ... or, when that fails, the whole batch is parked.                      *)
UpdateSyncStateFails(b) ==
  /\ batch[b].pc = "update"
  /\ Failure
  /\ batch' = [batch EXCEPT ![b].pc = "record", ![b].failed = batch[b].txs,
                            ![b].final = TRUE]
  /\ UNCHANGED <<row, parked, applied, process, cache, retry, history>>

-----------------------------------------------------------------------------
(* PluginFailedTransactionService: an operator retries one transaction, or  *)
(* all that are parked at an older version than the row's.                  *)
Retryable ==
  {{t} : t \in {u \in PluginTxs : parked[u] # 0}}
  \cup {{t \in PluginTxs : parked[t] = v} : v \in 1..(stateVersion - 1)}

RetryFailedTransactions(S) ==
  /\ started /\ retry.pc = "idle"
  /\ S \in Retryable /\ S # {}
  /\ retry' = [pc |-> "process", txs |-> S, todo |-> S]
  /\ UNCHANGED <<row, parked, applied, process, cache, batch, history, failures>>

RetryOne(t) ==
  /\ retry.pc = "process" /\ t \in retry.todo
  /\ applied' = [applied EXCEPT ![t] = version]
  /\ retry' = [retry EXCEPT !.todo = retry.todo \ {t}]
  /\ UNCHANGED <<row, parked, process, cache, batch, history, failures>>

(* plugin.processBatch returns the failure; the caller does not look at it. *)
RetryOneFails(t) ==
  /\ retry.pc = "process" /\ t \in retry.todo
  /\ Failure
  /\ retry' = [retry EXCEPT !.todo = retry.todo \ {t}]
  /\ UNCHANGED <<row, parked, applied, process, cache, batch, history>>

RetryDone ==
  /\ retry.pc = "process" /\ retry.todo = {}
  /\ retry' = [retry EXCEPT !.pc = "delete"]
  /\ UNCHANGED <<row, parked, applied, process, cache, batch, history, failures>>

DeleteRetried ==
  /\ retry.pc = "delete"
  /\ parked' = [t \in PluginTxs |-> IF t \in retry.txs THEN 0 ELSE parked[t]]
  /\ retry' = IdleRetry
  /\ retried' = retried \cup retry.txs
  /\ UNCHANGED <<row, applied, process, cache, batch, age, ignored, cut, failures>>

-----------------------------------------------------------------------------
(* The chain moves on: a transaction leaves the validated depth.            *)
Age(t) ==
  /\ age[t] = "recent"
  /\ age' = [age EXCEPT ![t] = "old"]
  /\ UNCHANGED <<row, parked, applied, process, cache, batch, retry, ignored,
                 cut, retried, failures>>

StartUp ==
  /\ ~started
  /\ started' = TRUE
  /\ UNCHANGED <<row, parked, applied, version, initialised, cache, batch,
                 retry, history, failures>>

Stop ==
  /\ started
  /\ started' = FALSE /\ initialised' = FALSE
  /\ cache' = Uncached
  /\ batch' = [b \in Batches |-> IdleBatch]
  /\ retry' = IdleRetry
  /\ cut' = cut \cup UNION {batch[b].txs : b \in Batches}
  /\ UNCHANGED <<row, parked, applied, age, ignored, retried>>

DispatchCrash == Stop /\ Failure /\ UNCHANGED version

(* A build with the next version of the plugin is deployed.                 *)
Deploy ==
  /\ Stop
  /\ version < MaxVersion
  /\ version' = version + 1
  /\ UNCHANGED failures

BatchStep(b) ==
  \/ GetCachedSyncState(b) \/ Processed(b) \/ Recorded(b) \/ UpdateSyncState(b)
  \/ \E t \in PluginTxs : Process(b, t) \/ RecordFailure(b, t)

BatchFault(b) ==
  \/ GetCachedSyncStateFails(b) \/ UpdateSyncStateFails(b)
  \/ \E t \in PluginTxs : ProcessFails(b, t) \/ RecordFailureFails(b, t)

RetryStep ==
  \/ RetryDone \/ DeleteRetried
  \/ \E t \in PluginTxs : RetryOne(t) \/ RetryOneFails(t)
  \/ \E S \in Retryable : RetryFailedTransactions(S)

DispatchNext ==
  \/ StartUp \/ InitialisePluginSyncStates \/ Validate \/ RetryStep
  \/ DispatchCrash \/ Deploy
  \/ \E b \in Batches : BatchStep(b) \/ BatchFault(b)
  \/ \E b \in Batches, S \in SUBSET PluginTxs : Index(b, S)
  \/ \E t \in PluginTxs : Age(t)

(* The process is restarted, start-up ends, validation comes round and a    *)
(* batch that neither fails nor is killed ends.  Nobody need ever retry.    *)
DispatchFairness ==
  /\ WF_dispatchVars(StartUp) /\ WF_dispatchVars(InitialisePluginSyncStates)
  /\ WF_dispatchVars(Validate)
  /\ \A b \in Batches : WF_dispatchVars(BatchStep(b))

DispatchSpec == DispatchInit /\ [][DispatchNext]_dispatchVars /\ DispatchFairness

-----------------------------------------------------------------------------
InFlight(t) ==
  \/ \E b \in Batches : t \in batch[b].txs
  \/ t \in retry.txs

(* A transaction that was handed to the plugin, was not cut short and is    *)
(* not in a batch any more has been processed or is parked, unless a retry  *)
(* had it: the batch processor loses nothing silently.                      *)
BatchesLoseNothing ==
  \A t \in PluginTxs :
    age[t] # "new" /\ ~InFlight(t) /\ t \notin ignored \cup cut \cup retried
      => applied[t] # 0 \/ parked[t] # 0

(* A transaction that stays within the validated depth ends up processed    *)
(* by the deployed version, whatever failed, unless the process found no    *)
(* row when it first looked.                                                *)
RecentIsCurrent ==
  \A t \in PluginTxs :
    <>[](age[t] = "recent") => []<>(cache = 0 \/ applied[t] = version)

(* plugin-registry.service.ts:85 "Ensures all plugins have a sync state     *)
(* before indexing starts": no batch finds the row missing.                 *)
StateBeforeIndexing == ignored = {}

(* plugin.interface.ts:36 "When the plugin version changes, it will cause a *)
(* full re-sync of the plugin transactions": what an earlier version has    *)
(* processed the last version processes again.                              *)
VersionBumpResyncs ==
  \A t \in PluginTxs :
    applied[t] \in 1..(MaxVersion - 1) /\ version = MaxVersion
      ~> applied[t] = MaxVersion
=============================================================================
