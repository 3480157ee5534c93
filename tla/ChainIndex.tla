----------------------------- MODULE ChainIndex -----------------------------
(***************************************************************************)
(* The transactions table and one plugin's table under three writers:       *)
(* LiveIndexerService, fed by the middleware's websocket;                   *)
(* BlockValidationService, which every ten minutes and at boot refetches    *)
(* the last mdw.reorgDepth key blocks and deletes what the chain no longer  *)
(* has; and the reorg callback of the plugin (BclPlugin.onReorg).           *)
(*                                                                          *)
(* An action is the code between two awaits.  A transaction is relevant to  *)
(* the plugin (the others are dropped before any write) and is not a        *)
(* self-transfer.  Block headers are left out: no deletion depends on them. *)
(***************************************************************************)
EXTENDS Integers, FiniteSets

CONSTANTS
  Txs,          \* transaction hashes
  ReorgDepth,   \* mdw.reorgDepth
  DedupeLimit,  \* size at which syncedTransactions is emptied
  MaxTip,       \* bound on the growth of the chain
  Budgets       \* what may happen in a behaviour, see Budget

ASSUME DepthAssumption == ReorgDepth \in Nat /\ DedupeLimit \in Nat
ASSUME BoundAssumption == MaxTip \in Nat \ {0}

(* The bounds of one behaviour: the transactions that are ever broadcast,   *)
(* the height the chain grows to, how many transactions leave the chain,    *)
(* and how many failures, crashes and refetches that end early there are.   *)
Budget == [txs: SUBSET Txs, tip: 1..MaxTip, reorgs: Nat, faults: Nat]

ASSUME BudgetAssumption == Budgets \subseteq Budget

VARIABLES
  \* the chain, as the middleware serves it
  tip,          \* height of the open generation
  mined,        \* the height a transaction is in, 0 when it is in none
  reorgs,
  \* the websocket
  feed,         \* announcements not yet delivered
  \* the database
  stored,       \* txs.block_height of a stored transaction, 0 when absent
  rows,         \* transactions the plugin has a row of its own for
  \* the process
  up,
  syncedTransactions,
  live,         \* handleLiveTransaction calls under way
  val,          \* validateAndRefreshBlocks: its await and its locals
  \* auxiliary
  faults,
  budget        \* the bounds of this behaviour, chosen at its start

chain == <<tip, mined, reorgs, budget>>
vars == <<chain, feed, stored, rows, up, syncedTransactions, live, val, faults>>

Heights == 1..MaxTip

LivePCs == {"save", "decode", "row"}
PagePCs == {"upsert", "pageDecode", "pageRows"}
HeightPCs == {"find", "delete", "notify", "refetch", "decode", "rows"}
ValPCs == {"idle", "tip", "page"} \cup PagePCs \cup HeightPCs

NothingObserved == [h \in Heights |-> {}]

(* `cut` is the height at which the refetch ended early, 0 when it did not; *)
(* `batch` is what the plugin is being given.  `moved` is auxiliary: what   *)
(* was mined or reorged since the validation began.                         *)
IdleVal == [pc |-> "idle", start |-> 1, end |-> 1, at |-> 1, cut |-> 0,
            observed |-> NothingObserved, removed |-> {}, batch |-> {},
            moved |-> {}]

ValType == [pc: ValPCs, start: Heights, end: Heights, at: Heights,
            cut: 0..MaxTip, observed: [Heights -> SUBSET Txs],
            removed: SUBSET Txs, batch: SUBSET Txs, moved: SUBSET Txs]

TypeOK ==
  /\ tip \in Heights
  /\ mined \in [Txs -> 0..MaxTip]
  /\ budget \in Budgets
  /\ reorgs \in 0..budget.reorgs
  /\ feed \subseteq [tx: Txs, h: Heights]
  /\ stored \in [Txs -> 0..MaxTip]
  /\ rows \subseteq Txs
  /\ up \in BOOLEAN
  /\ syncedTransactions \subseteq Txs
  /\ live \subseteq [tx: Txs, h: Heights, pc: LivePCs]
  /\ val \in ValType
  /\ faults \in 0..budget.faults

Init ==
  /\ tip = 1
  /\ mined = [t \in Txs |-> 0]
  /\ reorgs = 0
  /\ feed = {}
  /\ stored = [t \in Txs |-> 0]
  /\ rows = {}
  /\ up = FALSE
  /\ syncedTransactions = {}
  /\ live = {}
  /\ val = IdleVal
  /\ faults = 0
  /\ budget \in Budgets

-----------------------------------------------------------------------------
(* The chain *)

RecordMove(t) ==
  val' = IF val.pc = "idle" THEN val
         ELSE [val EXCEPT !.moved = val.moved \cup {t}]

(* A micro-block of the open generation takes t up; the middleware tells    *)
(* its subscribers.                                                         *)
MineTx(t) ==
  /\ t \in budget.txs /\ mined[t] = 0
  /\ mined' = [mined EXCEPT ![t] = tip]
  /\ feed' = IF up THEN feed \cup {[tx |-> t, h |-> tip]} ELSE feed
  /\ RecordMove(t)
  /\ UNCHANGED <<tip, reorgs, budget, stored, rows, up, syncedTransactions,
                 live, faults>>

MineKeyBlock ==
  /\ tip < budget.tip
  /\ tip' = tip + 1
  /\ UNCHANGED <<mined, reorgs, budget, feed, stored, rows, up,
                 syncedTransactions, live, val, faults>>

(* A reorganisation within the depth that is validated drops t. *)
Reorg(t) ==
  /\ reorgs < budget.reorgs
  /\ mined[t] # 0 /\ mined[t] >= tip - ReorgDepth
  /\ mined' = [mined EXCEPT ![t] = 0]
  /\ reorgs' = reorgs + 1
  /\ RecordMove(t)
  /\ UNCHANGED <<tip, budget, feed, stored, rows, up, syncedTransactions, live,
                 faults>>

-----------------------------------------------------------------------------
(* LiveIndexerService *)

(* The websocket callback: a hash in syncedTransactions is ignored; the     *)
(* list is emptied when it grows past its limit.                            *)
LiveReceive(m) ==
  /\ up /\ m \in feed
  /\ feed' = feed \ {m}
  /\ IF m.tx \in syncedTransactions
     THEN UNCHANGED <<syncedTransactions, live>>
     ELSE /\ live' = live \cup {[tx |-> m.tx, h |-> m.h, pc |-> "save"]}
          /\ syncedTransactions' =
               LET s == syncedTransactions \cup {m.tx}
               IN IF Cardinality(s) > DedupeLimit THEN {} ELSE s
  /\ UNCHANGED <<chain, stored, rows, up, val, faults>>

LiveGoesTo(k, pc) == live' = (live \ {k}) \cup {[k EXCEPT !.pc = pc]}

(* txRepository.save *)
LiveSave(k) ==
  /\ k \in live /\ k.pc = "save"
  /\ stored' = [stored EXCEPT ![k.tx] = k.h]
  /\ LiveGoesTo(k, "decode")
  /\ UNCHANGED <<chain, feed, rows, up, syncedTransactions, val, faults>>

(* BasePlugin.processBatch decodes the logs and saves the transaction       *)
(* again: an insert, should a validation have deleted it.                   *)
LiveDecode(k) ==
  /\ k \in live /\ k.pc = "decode"
  /\ stored' = [stored EXCEPT ![k.tx] = k.h]
  /\ LiveGoesTo(k, "row")
  /\ UNCHANGED <<chain, feed, rows, up, syncedTransactions, val, faults>>

(* The plugin's own row. *)
LiveRow(k) ==
  /\ k \in live /\ k.pc = "row"
  /\ rows' = rows \cup {k.tx}
  /\ live' = live \ {k}
  /\ UNCHANGED <<chain, feed, stored, up, syncedTransactions, val,
                 faults>>

(* handleLiveTransaction logs an error and forgets the transaction; one of  *)
(* the decoding is logged by the plugin, which goes on.                     *)
LiveFail(k) ==
  /\ k \in live
  /\ faults < budget.faults
  /\ faults' = faults + 1
  /\ \/ live' = live \ {k}
     \/ k.pc = "decode" /\ LiveGoesTo(k, "row")
  /\ UNCHANGED <<chain, feed, stored, rows, up, syncedTransactions, val>>

-----------------------------------------------------------------------------
(* BlockValidationService *)

(* Mutants: no clamp at the first height; one height short of the depth. *)
UnclampedWindowStart == tip - ReorgDepth
ShortWindowStart ==
  IF tip - ReorgDepth > 1 THEN tip - ReorgDepth + 1 ELSE 1

WindowStart == IF tip - ReorgDepth > 1 THEN tip - ReorgDepth ELSE 1

(* The cron job, single-flight on isValidating. *)
ValBegin ==
  /\ up /\ val.pc = "idle"
  /\ val' = [IdleVal EXCEPT !.pc = "tip"]
  /\ UNCHANGED <<chain, feed, stored, rows, up, syncedTransactions, live,
                 faults>>

ValTip ==
  /\ val.pc = "tip"
  /\ val' = [val EXCEPT !.pc = "page", !.start = WindowStart, !.end = tip,
                        !.at = WindowStart]
  /\ UNCHANGED <<chain, feed, stored, rows, up, syncedTransactions, live, faults>>

OnChainAt(h) == {t \in Txs : mined[t] = h}

(* With the pages behind it, or an early end of them, the validation turns  *)
(* to the heights one by one.                                               *)
AfterPage ==
  IF val.at = val.end \/ val.cut # 0
  THEN [val EXCEPT !.pc = "find", !.at = val.start, !.batch = {}]
  ELSE [val EXCEPT !.pc = "page", !.at = val.at + 1, !.batch = {}]

(* processTransactionPage, oldest page first: the hashes are observed.  A   *)
(* page is one height here.  An empty page, or a next URL that cannot be    *)
(* followed, ends the loop without an error: part of the height, and all    *)
(* above it, is not observed.                                               *)
ValFetch ==
  /\ val.pc = "page"
  /\ \E got \in SUBSET OnChainAt(val.at) :
       /\ IF got = OnChainAt(val.at)
          THEN /\ UNCHANGED faults
               /\ val' = IF got = {} THEN AfterPage
                         ELSE [val EXCEPT !.pc = "upsert",
                                          !.observed[val.at] = got]
          ELSE /\ faults < budget.faults
               /\ faults' = faults + 1
               /\ val' = [val EXCEPT !.pc = "upsert", !.cut = val.at,
                                     !.observed[val.at] = got]
  /\ UNCHANGED <<chain, feed, stored, rows, up, syncedTransactions, live>>

PutAt(S, h) == stored' = [t \in Txs |-> IF t \in S THEN h ELSE stored[t]]

(* The transactions of the page are upserted (or, when that fails, saved)   *)
(* and given to the plugin.                                                 *)
ValUpsert ==
  /\ val.pc = "upsert"
  /\ PutAt(val.observed[val.at], val.at)
  /\ val' = [val EXCEPT !.pc = "pageDecode", !.batch = val.observed[val.at]]
  /\ UNCHANGED <<chain, feed, rows, up, syncedTransactions, live, faults>>

NextHeight ==
  IF val.at = val.end THEN IdleVal
  ELSE [val EXCEPT !.pc = "find", !.at = val.at + 1, !.removed = {},
                   !.batch = {}, !.observed[val.at] = {}]

(* What follows the clean-up of a height: nothing when it is empty.         *)
AfterCleanUp ==
  IF val.observed[val.at] = {} THEN NextHeight
  ELSE [val EXCEPT !.pc = "refetch", !.removed = {}]

(* What follows the plugin's part: the next page, or the next height.       *)
AfterPlugin == IF val.pc \in PagePCs THEN AfterPage ELSE NextHeight

RowsPC == IF val.pc = "pageDecode" THEN "pageRows" ELSE "rows"

(* BasePlugin.processBatch decodes the logs and saves each transaction once *)
(* more, the saves of a batch in one step here ...                          *)
ValDecode ==
  /\ val.pc \in {"pageDecode", "decode"}
  /\ PutAt(val.batch, val.at)
  /\ val' = [val EXCEPT !.pc = RowsPC]
  /\ UNCHANGED <<chain, feed, rows, up, syncedTransactions, live, faults>>

(* ... and the plugin writes its own rows. *)
ValRows ==
  /\ val.pc \in {"pageRows", "rows"}
  /\ rows' = rows \cup val.batch
  /\ val' = AfterPlugin
  /\ UNCHANGED <<chain, feed, stored, up, syncedTransactions, live, faults>>

(* Mutant: the refetched hashes are not spared. *)
AllStored(h) == {t \in Txs : stored[t] = h}

(* Stored at the height and not among the refetched hashes. *)
Stale(h) == {t \in Txs : stored[t] = h} \ val.observed[h]

ValFind ==
  /\ val.pc = "find"
  /\ val' = IF Stale(val.at) = {} THEN AfterCleanUp
            ELSE [val EXCEPT !.pc = "delete", !.removed = Stale(val.at)]
  /\ UNCHANGED <<chain, feed, stored, rows, up, syncedTransactions, live, faults>>

(* With no refetched hash everything at the height goes, what was stored    *)
(* since `find` included.                                                   *)
Deleted ==
  {t \in Txs : stored[t] = val.at /\ (val.observed[val.at] = {} \/ t \in val.removed)}

ValDelete ==
  /\ val.pc = "delete"
  /\ stored' = [t \in Txs |-> IF t \in Deleted THEN 0 ELSE stored[t]]
  /\ val' = [val EXCEPT !.pc = "notify"]
  /\ UNCHANGED <<chain, feed, rows, up, syncedTransactions, live, faults>>

(* PluginBatchProcessorService.handleReorg, and BclPlugin.onReorg. *)
ValNotify ==
  /\ val.pc = "notify"
  /\ rows' = rows \ val.removed
  /\ val' = AfterCleanUp
  /\ UNCHANGED <<chain, feed, stored, up, syncedTransactions, live,
                 faults>>

(* Whatever was refetched, and is found at the height, goes through the     *)
(* plugin once more.                                                        *)
ValRefetch ==
  /\ val.pc = "refetch"
  /\ LET found == {t \in val.observed[val.at] : stored[t] = val.at}
     IN val' = IF found = {} THEN NextHeight
               ELSE [val EXCEPT !.pc = "decode", !.batch = found]
  /\ UNCHANGED <<chain, feed, stored, rows, up, syncedTransactions, live,
                 faults>>

(* A failed request or upsert ends the validation; a failed query ends the  *)
(* height.  What fails in a plugin does not reach it: a failing onReorg is  *)
(* passed over, a failed decoding goes on to the rows, and a plugin whose   *)
(* state or rows fail is done with the batch.                               *)
ValFail ==
  /\ val.pc # "idle"
  /\ faults < budget.faults
  /\ faults' = faults + 1
  /\ \/ val.pc \in {"tip", "page", "upsert"} /\ val' = IdleVal
     \/ val.pc \in {"find", "delete", "refetch"} /\ val' = NextHeight
     \/ val.pc = "notify" /\ val' = AfterCleanUp
     \/ val.pc \in {"pageDecode", "decode"} /\ val' = [val EXCEPT !.pc = RowsPC]
     \/ val.pc \in {"pageDecode", "decode", "pageRows", "rows"} /\ val' = AfterPlugin
  /\ UNCHANGED <<chain, feed, stored, rows, up, syncedTransactions, live>>

-----------------------------------------------------------------------------
(* Boot subscribes to the websocket and starts a validation. *)
Boot ==
  /\ ~up
  /\ up' = TRUE
  /\ val' = [IdleVal EXCEPT !.pc = "tip"]
  /\ UNCHANGED <<chain, feed, stored, rows, syncedTransactions, live, faults>>

Crash ==
  /\ up
  /\ faults < budget.faults
  /\ faults' = faults + 1
  /\ up' = FALSE
  /\ feed' = {} /\ syncedTransactions' = {} /\ live' = {} /\ val' = IdleVal
  /\ UNCHANGED <<chain, stored, rows>>

LiveStep ==
  \/ \E m \in feed : LiveReceive(m)
  \/ \E k \in live : LiveSave(k) \/ LiveDecode(k) \/ LiveRow(k)

ValStep ==
  ValBegin \/ ValTip \/ ValFetch \/ ValUpsert \/ ValDecode \/ ValRows
  \/ ValFind \/ ValDelete \/ ValNotify \/ ValRefetch

Next ==
  \/ MineKeyBlock \/ Boot \/ Crash \/ LiveStep \/ ValStep \/ ValFail
  \/ \E t \in Txs : MineTx(t) \/ Reorg(t)
  \/ \E k \in live : LiveFail(k)

(* The process is restarted, the cron job fires, calls that do not fail end. *)
Fairness == WF_vars(Boot) /\ WF_vars(LiveStep) /\ WF_vars(ValStep)

Spec == Init /\ [][Next]_vars /\ Fairness

-----------------------------------------------------------------------------
(* Validation deletes no transaction that is stored where the chain has it  *)
(* and has stayed there since the validation began, below the height at     *)
(* which its refetch ended early, if it did: whatever the live handlers     *)
(* write meanwhile.                                                         *)
SettledKept ==
  [][\A t \in Txs :
       mined[t] # 0 /\ stored[t] = mined[t] /\ t \notin val.moved
         /\ (val.cut = 0 \/ mined[t] < val.cut)
       => stored'[t] # 0]_vars

(* Once the chain settles, the table agrees with it within the validated    *)
(* depth: what it has is stored at its height and known to the plugin, and  *)
(* what it dropped is gone.                                                 *)
Converges ==
  <>[](\A t \in Txs :
         /\ mined[t] # 0 /\ mined[t] >= tip - ReorgDepth
              => stored[t] = mined[t] /\ t \in rows
         /\ mined[t] = 0 => stored[t] = 0 \/ stored[t] < tip - ReorgDepth)

(* block-sync.service.ts:227-230 warns that the observed set must be        *)
(* complete lest validation "delete canonical, still-on-chain transactions  *)
(* from `txs`": it never deletes one that the chain has where it is stored. *)
CanonicalKept ==
  [][\A t \in Txs : mined[t] # 0 /\ stored[t] = mined[t] => stored'[t] # 0]_vars

(* The same of transactions that have not moved since the validation began: *)
(* lost to a refetch that ended early and succeeded.                        *)
CompleteKept ==
  [][\A t \in Txs : mined[t] # 0 /\ stored[t] = mined[t] /\ t \notin val.moved
       => stored'[t] # 0]_vars

(* mdw-sync/README.md:10 "Handle blockchain reorganizations automatically": *)
(* once the chain settles, the plugin has no row for a transaction that is  *)
(* neither on the chain nor stored.                                         *)
NoOrphanRows ==
  <>[](\A t \in Txs : mined[t] = 0 /\ stored[t] = 0 => t \notin rows)
=============================================================================
