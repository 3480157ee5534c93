---------------------------- MODULE BalanceLedger ----------------------------
(***************************************************************************)
(* token_balance, the ledger that eligibility reads: Aex9TransferSyncService *)
(* adds the legs of transfers, TokenHolderService mirrors BCL trades inside  *)
(* their database transaction, BalanceReconciliationService writes what the  *)
(* chain says over it, row by row.  None of them locks a row between reading *)
(* and writing it.  Who changed a balance owes EligibilityService a          *)
(* tgr.balance.changed.                                                      *)
(*                                                                          *)
(* A transfer is of a token on the allowlist: one that is not there yet is   *)
(* one that is not delivered.  Heights are left out, and so is               *)
(* token_holders; what recomputeMember does with the balance it has read is  *)
(* module RoomMembership.                                                    *)
(***************************************************************************)
EXTENDS Integers, SequencesExt

CONSTANTS
  Holders,        \* pairs of a token and a holder: the key of a row
  Unreadable,     \* those whose balance() always fails
  Txs, Trades,    \* trades are BCL calls, the rest AEX9 transfers
  Legs,           \* what a tx does: a sequence of [holder, by]
  OnChain,        \* the balances at the start
  Listed,         \* who has a row at the start
  BatchSize,      \* TG_RECONCILE_BATCH_SIZE
  MaxDeliveries,  \* bound on the deliveries, which may all be under way at once
  MaxFaults       \* bound on failed queries and reads, crashes and dropped transactions

ASSUME BoundAssumption ==
  /\ IsFiniteSet(Holders)
  /\ Unreadable \subseteq Holders /\ Listed \subseteq Holders /\ Trades \subseteq Txs
  /\ BatchSize \in Nat \ {0} /\ MaxDeliveries \in Nat /\ MaxFaults \in Nat
  /\ OnChain \in [Holders -> Nat]

\* A transaction without a leg is DecodeFails's, or of another token.
ASSUME LegAssumption ==
  \A t \in Txs : Legs[t] \in Seq([holder : Holders, by : Int]) /\ Legs[t] # <<>>

VARIABLES
  chain, mined,            \* the chain: the balances, the transactions that count
  known, balance,          \* token_balance: which rows exist, their balance
  swept,                   \* rows by last_reconciled_at, oldest first; the others have none
  marked, decoded, traded, \* _applied and decoded logs in txs; the trades in transactions
  work,                    \* the locals of every processTransaction
  sweep,                   \* the locals of runOnce
  woken,                   \* signals not handled yet
  unseen, silent,          \* history: changed since eligibility last read it; left unsignalled
  deliveries, faults

external == <<chain, mined>>
rows == <<known, balance, swept>>
txs == <<marked, decoded, traded>>
eligibility == <<woken, unseen, silent>>
vars == <<external, rows, txs, work, sweep, eligibility, deliveries, faults>>

Steps == {"idle", "read", "write", "mark", "emit"}
SweepSteps == {"idle", "chain", "find", "save", "signal"}
Entities == {"live", "saved", "stored"}  \* which entity a delivery hands over, see Begin

Workers == 1..MaxDeliveries

NoTx == "no tx"
Idle == [pc |-> "idle", tx |-> NoTx, left |-> <<>>, exists |-> FALSE, found |-> 0, wrote |-> {}]
Asleep == [pc |-> "idle", rows |-> <<>>, value |-> 0, same |-> FALSE]

(* A holder may have no row: nothing has happened to him since the ledger    *)
(* was started.                                                              *)
Init ==
  /\ chain = OnChain /\ mined = {}
  /\ known = Listed
  /\ balance = [h \in Holders |-> IF h \in Listed THEN OnChain[h] ELSE 0]
  /\ swept = <<>>
  /\ marked = {} /\ decoded = {} /\ traded = {}
  /\ work = [w \in Workers |-> Idle] /\ sweep = Asleep
  /\ woken = {} /\ unseen = {} /\ silent = {}
  /\ deliveries = 0 /\ faults = 0

Fault == faults < MaxFaults /\ faults' = faults + 1

-----------------------------------------------------------------------------
\* The chain

Moved(t, sign) ==
  [h \in Holders |-> FoldSeq(LAMBDA l, b : IF l.holder = h THEN b + sign * l.by ELSE b,
                             chain[h], Legs[t])]

Mine(t) ==
  /\ t \notin mined
  /\ Moved(t, 1) \in [Holders -> Nat]
  /\ chain' = Moved(t, 1) /\ mined' = mined \cup {t}
  /\ UNCHANGED <<rows, txs, work, sweep, eligibility, deliveries, faults>>

(* A block is reorged away: the validation deletes the tx and the plugins'    *)
(* onReorg the trade.  No balance is rolled back.                            *)
Drop(t) ==
  /\ t \in mined /\ Fault
  /\ Moved(t, -1) \in [Holders -> Nat]
  /\ chain' = Moved(t, -1) /\ mined' = mined \ {t}
  /\ marked' = marked \ {t} /\ decoded' = decoded \ {t} /\ traded' = traded \ {t}
  /\ UNCHANGED <<rows, work, sweep, eligibility, deliveries>>

-----------------------------------------------------------------------------
\* Deliveries: Aex9TransferSyncService, TransactionProcessorService

\* The balance of h becomes n.
Put(h, n) ==
  /\ balance' = [balance EXCEPT ![h] = n]
  /\ unseen' = IF balance[h] = n THEN unseen ELSE unseen \cup {h}

ClampNot(n) == n  \* Mutant of Clamp: balances go below zero.
Clamp(n) == IF n < 0 THEN 0 ELSE n

Deliver(t) == t \in mined /\ deliveries < MaxDeliveries /\ deliveries' = deliveries + 1

\* The delivery gets a worker of its own.
Start(t, pc, left) ==
  /\ Deliver(t)
  /\ work' = [work EXCEPT ![deliveries + 1] = [Idle EXCEPT !.pc = pc, !.tx = t, !.left = left]]

(* The live indexer, and a page whose bulk upsert failed, hand over the       *)
(* entity as they have saved it, without `data`; a bulk upsert, the           *)
(* validation and a retry hand over what txs has, _applied included.         *)
BeginTransfer(t, via) ==
  /\ t \notin Trades /\ ~(via = "stored" /\ t \in marked)
  /\ Start(t, "read", Legs[t])
  /\ decoded' = decoded \cup {t}
  /\ UNCHANGED <<external, rows, marked, traded, sweep, eligibility, faults>>

(* decodeLogs swallows every error: without logs from an earlier time there   *)
(* is nothing to apply, and that is marked as applied.                       *)
DecodeFails(t, via) ==
  /\ t \notin Trades /\ ~(via = "stored" /\ t \in decoded)
  /\ Fault /\ Start(t, "mark", <<>>)
  /\ UNCHANGED <<external, rows, txs, sweep, eligibility>>

\* validateTransaction finds no transaction of this hash; only "live" moves a balance.
BeginTrade(t, via) ==
  /\ t \in Trades /\ t \notin traded /\ via = "live"
  /\ Start(t, "read", Legs[t])
  /\ UNCHANGED <<external, rows, txs, sweep, eligibility, faults>>

\* saveTransaction holds a lock of the hash until its transaction ends.
Locked(t) == \E w \in Workers : work[w].pc = "write" /\ work[w].tx = t

(* Any other delivery saves the trade and no balance, and so does a live one  *)
(* while the token has no address, or of a seller token_holders lacks.  That  *)
(* a trade saved with broken prices may come again is left out.              *)
SaveTrade(t) ==
  /\ t \in Trades /\ t \notin traded /\ Deliver(t) /\ ~Locked(t)
  /\ traded' = traded \cup {t}
  /\ UNCHANGED <<external, rows, marked, decoded, work, sweep, eligibility, faults>>

Read(w) ==
  /\ work[w].pc = "read"
  /\ work[w].tx \in Trades => ~Locked(work[w].tx)
  /\ LET h == Head(work[w].left).holder
     IN work' = [work EXCEPT ![w].pc = "write", ![w].exists = h \in known, ![w].found = balance[h]]
  /\ UNCHANGED <<external, rows, txs, sweep, eligibility, deliveries, faults>>

\* Mutant of Changed: the set of changed holders starts anew with every leg.
ChangedLast(w, h) == {h}
Changed(w, h) == work[w].wrote \cup {h}

(* applyDelta saves the sum unless it is what the row had.  The write of a    *)
(* trade is the commit of its transaction.                                   *)
Write(w) ==
  /\ work[w].pc = "write"
  /\ LET leg == Head(work[w].left)
         h == leg.holder
         next == Clamp(work[w].found + leg.by)
         noop == work[w].exists /\ next = work[w].found
         trade == work[w].tx \in Trades
         left == Tail(work[w].left)
     IN  /\ IF noop THEN UNCHANGED <<balance, unseen>> ELSE Put(h, next)
         /\ known' = known \cup {h}
         /\ traded' = IF trade THEN traded \cup {work[w].tx} ELSE traded
         /\ work' = [work EXCEPT
              ![w].pc = IF trade THEN "emit" ELSE IF left = <<>> THEN "mark" ELSE "read",
              ![w].left = left, ![w].exists = FALSE, ![w].found = 0,
              ![w].wrote = IF noop THEN @ ELSE Changed(w, h)]
  /\ UNCHANGED <<external, swept, marked, decoded, sweep, woken, silent, deliveries, faults>>

\* markApplied; a tx that was deleted meanwhile has no row to mark.
Mark(w) ==
  /\ work[w].pc = "mark"
  /\ marked' = IF work[w].tx \in mined THEN marked \cup {work[w].tx} ELSE marked
  /\ work' = [work EXCEPT ![w].pc = "emit"]
  /\ UNCHANGED <<external, rows, decoded, traded, sweep, eligibility, deliveries, faults>>

\* The failure is logged, and the delivery goes on.
MarkFails(w) ==
  /\ work[w].pc = "mark" /\ Fault
  /\ work' = [work EXCEPT ![w].pc = "emit"]
  /\ UNCHANGED <<external, rows, txs, sweep, eligibility, deliveries>>

Emit(w) ==
  /\ work[w].pc = "emit"
  /\ woken' = woken \cup work[w].wrote
  /\ work' = [work EXCEPT ![w] = Idle]
  /\ UNCHANGED <<external, rows, txs, sweep, unseen, silent, deliveries, faults>>

(* A query throws: a trade is rolled back, a transfer keeps the legs it has   *)
(* written; either is parked for a retry and signals nothing.                *)
Fail(w) ==
  /\ work[w].pc \in {"read", "write"} /\ Fault
  /\ silent' = silent \cup work[w].wrote
  /\ work' = [work EXCEPT ![w] = Idle]
  /\ UNCHANGED <<external, rows, txs, sweep, woken, unseen, deliveries>>

-----------------------------------------------------------------------------
\* BalanceReconciliationService.runOnce

Row == Head(sweep.rows)
Stamped == Append(RemoveFirst(swept, Row), Row)
NextRow ==
  IF Len(sweep.rows) = 1 THEN Asleep
  ELSE [Asleep EXCEPT !.pc = "chain", !.rows = Tail(sweep.rows)]

\* ORDER BY last_reconciled_at ASC NULLS FIRST
Oldest(order) == SubSeq(order, 1, IF BatchSize < Len(order) THEN BatchSize ELSE Len(order))
Batches == {Oldest(fresh \o swept) : fresh \in SetToSeqs(known \ ToSet(swept))}

SweepStart ==
  /\ sweep.pc = "idle" /\ known # {}
  /\ \E b \in Batches : sweep' = [Asleep EXCEPT !.pc = "chain", !.rows = b]
  /\ UNCHANGED <<external, rows, txs, work, eligibility, deliveries, faults>>

ReadChain ==
  /\ sweep.pc = "chain" /\ Row \notin Unreadable
  /\ sweep' = [sweep EXCEPT !.pc = "find", !.value = chain[Row]]
  /\ UNCHANGED <<external, rows, txs, work, eligibility, deliveries, faults>>

\* Mutant of Skipped: a row that cannot be read keeps its place in the order.
SkippedInPlace == swept
Skipped == Stamped

\* authoritative === null: the row is stamped and left as it is.
SkipUnread ==
  /\ sweep.pc = "chain"
  /\ IF Row \in Unreadable THEN faults' = faults ELSE Fault
  /\ swept' = Skipped /\ sweep' = NextRow
  /\ UNCHANGED <<external, known, balance, txs, work, eligibility, deliveries>>

Find ==
  /\ sweep.pc = "find"
  /\ sweep' = [sweep EXCEPT !.pc = "save", !.same = balance[Row] = sweep.value]
  /\ UNCHANGED <<external, rows, txs, work, eligibility, deliveries, faults>>

(* The balance is saved also when Find saw no difference: what was written    *)
(* in between is overwritten then, and nobody is told.                       *)
Save ==
  /\ sweep.pc = "save"
  /\ Put(Row, sweep.value)
  /\ swept' = Stamped
  /\ silent' = IF sweep.same /\ balance[Row] # sweep.value THEN silent \cup {Row} ELSE silent
  /\ sweep' = IF sweep.same THEN NextRow ELSE [sweep EXCEPT !.pc = "signal", !.value = 0]
  /\ UNCHANGED <<external, known, txs, work, woken, deliveries, faults>>

Signal ==
  /\ sweep.pc = "signal"
  /\ woken' = woken \cup {Row} /\ sweep' = NextRow
  /\ UNCHANGED <<external, rows, txs, work, unseen, silent, deliveries, faults>>

\* The query of Find or Save throws; so may the one that stamps the row.
RowFails ==
  /\ sweep.pc \in {"find", "save"} /\ Fault
  /\ swept' \in {swept, Stamped} /\ sweep' = NextRow
  /\ UNCHANGED <<external, known, balance, txs, work, eligibility, deliveries>>

-----------------------------------------------------------------------------
\* EligibilityService.onBalanceChanged

Recompute(h) ==
  /\ h \in woken
  /\ woken' = woken \ {h}
  /\ unseen' = unseen \ {h} /\ silent' = silent \ {h}
  /\ UNCHANGED <<external, rows, txs, work, sweep, deliveries, faults>>

RecomputeFails(h) ==
  /\ h \in woken /\ Fault
  /\ woken' = woken \ {h} /\ silent' = silent \cup {h}
  /\ UNCHANGED <<external, rows, txs, work, sweep, unseen, deliveries>>

\* Signals and locals live in memory.
Crash ==
  /\ Fault
  /\ silent' = silent \cup woken \cup (UNION {work[w].wrote : w \in Workers})
                 \cup (IF sweep.pc = "signal" THEN {Row} ELSE {})
  /\ woken' = {}
  /\ work' = [w \in Workers |-> Idle] /\ sweep' = Asleep
  /\ UNCHANGED <<external, rows, txs, unseen, deliveries>>

-----------------------------------------------------------------------------
Begin(t) ==
  \E via \in Entities : BeginTransfer(t, via) \/ DecodeFails(t, via) \/ BeginTrade(t, via)

Delivery(w) ==
  \/ Read(w) \/ Write(w) \/ Mark(w) \/ MarkFails(w) \/ Emit(w) \/ Fail(w)

Sweep == SweepStart \/ ReadChain \/ SkipUnread \/ Find \/ Save \/ Signal \/ RowFails

Next ==
  \/ \E t \in Txs : Mine(t) \/ Drop(t) \/ Begin(t) \/ SaveTrade(t)
  \/ \E w \in Workers : Delivery(w)
  \/ Sweep
  \/ \E h \in Holders : Recompute(h) \/ RecomputeFails(h)
  \/ Crash

(* An await ends, a signal is handled, and Bull repeats the sweep.           *)
Fairness ==
  /\ \A w \in Workers : WF_vars(Read(w) \/ Write(w) \/ Mark(w) \/ Emit(w))
  /\ WF_vars(SweepStart \/ ReadChain \/ SkipUnread \/ Find \/ Save \/ Signal)
  /\ \A h \in Holders : WF_vars(Recompute(h))

Spec == Init /\ [][Next]_vars /\ Fairness

-----------------------------------------------------------------------------
(* Balances are never below zero, also when legs are applied twice, out of    *)
(* order or after a reorg; the sweep only holds rows that exist.             *)
TypeOK ==
  /\ chain \in [Holders -> Nat] /\ mined \subseteq Txs
  /\ known \subseteq Holders /\ balance \in [Holders -> Nat]
  /\ ToSet(swept) \subseteq known /\ IsInjective(swept)
  /\ marked \subseteq Txs \ Trades /\ decoded \subseteq Txs \ Trades /\ traded \subseteq Trades
  /\ \A w \in Workers :
       /\ work[w].pc \in Steps /\ work[w].tx \in Txs \cup {NoTx}
       /\ work[w].pc \in {"read", "write"} => work[w].left # <<>>
       /\ work[w].found \in Nat /\ work[w].wrote \subseteq known
  /\ sweep.pc \in SweepSteps /\ ToSet(sweep.rows) \subseteq known /\ sweep.value \in Nat
  /\ woken \subseteq Holders /\ unseen \subseteq known /\ silent \subseteq known

(* What eligibility has not seen yet it will be told: the signal waits, or    *)
(* who wrote the row is still to send it.  The exceptions are all in silent:  *)
(* a crash, a transfer that fails after a leg, a recompute that fails, and a  *)
(* sweep that writes over a change it did not see.                           *)
UnseenIsOwed ==
  \A h \in unseen :
    \/ h \in woken \cup silent
    \/ \E w \in Workers : h \in work[w].wrote
    \/ sweep.pc = "signal" /\ Row = h

(* Once the chain and the deliveries are still, every row that can be read    *)
(* ends as the chain has it: whatever was lost, counted twice, clamped or     *)
(* reorged away, and although another row can never be read.                 *)
LedgerConverges ==
  \A h \in Holders \ Unreadable : <>[](h \in known => balance[h] = chain[h])

(* aex9-transfer-sync.service.ts:34: "On a re-process (live + backfill both   *)
(* touch a tx, or a version bump) the legs are decoded again but NOT          *)
(* re-applied, so a transfer is counted exactly once."  No leg of a transfer  *)
(* that is marked as applied is written again.                               *)
CountedOnce ==
  [][\A w \in Workers : (work[w].tx \notin Trades /\ Write(w)) => work[w].tx \notin marked]_vars

(* Without a fault, eligibility ends up with the balance of the row.         *)
EligibilityCatchesUp == <>[](unseen = {})
=============================================================================
