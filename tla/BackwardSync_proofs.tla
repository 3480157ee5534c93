------------------------ MODULE BackwardSync_proofs -------------------------
(***************************************************************************)
(* Proofs about BackwardSync, for every number of overlapping activations,  *)
(* every threshold, batch size and chain length.  CursorCovers is not       *)
(* inductive: a loop writes a cursor it computed from a row read several    *)
(* awaits earlier.  IInv adds what each loop knows about the heights above  *)
(* the range it holds, and how far the tables have got inside the range;    *)
(* what a call that ended early passed over counts as accounted for.        *)
(***************************************************************************)
EXTENDS BackwardSync, TLAPS

(* The heights a table has, or that a call which ended early left out.      *)
Blocks == keyBlocks \cup missed["blocks"]
Micro == microBlocks \cup missed["micro"] \cup missed["blocks"]
Txs == txs \cup missed["txs"]

(* What is accounted for stays so. *)
Grow ==
  /\ Blocks \subseteq Blocks' /\ Micro \subseteq Micro' /\ Txs \subseteq Txs'

(* Every height above b that the backfill is responsible for is accounted   *)
(* for.                                                                     *)
Covered(b) ==
  \A h \in 0..MaxTip :
    b < h /\ h <= origin => h \in Blocks /\ h \in Micro /\ h \in Txs

(* What holds of the locals of one activation at each of its awaits. *)
LoopInv(l) ==
  /\ loop[l].pc # "idle" => hasRow
  /\ loop[l].pc \in {"status", "blocks", "micro", "txs", "commit"}
       => Covered(loop[l].hi)
  /\ loop[l].pc \in {"blocks", "micro", "txs", "commit"}
       => 0 < loop[l].hi /\ loop[l].lo <= loop[l].hi
  /\ loop[l].pc \in {"micro", "txs", "commit"}
       => loop[l].lo .. loop[l].hi \subseteq Blocks
  /\ loop[l].pc \in {"txs", "commit"}
       => loop[l].lo .. loop[l].hi \subseteq Micro
  /\ loop[l].pc = "txs"
       => /\ loop[l].lo <= loop[l].page /\ loop[l].page <= loop[l].hi
          /\ (loop[l].page + 1) .. loop[l].hi \subseteq Txs
  /\ loop[l].pc = "commit" => loop[l].lo .. loop[l].hi \subseteq Txs

IInv ==
  /\ TypeOK
  /\ hasRow => Covered(backward_synced_height)
  /\ up => hasRow
  /\ ~up => \A l \in Loops : loop[l] = Idle
  /\ \A l \in Loops : LoopInv(l)

-----------------------------------------------------------------------------
(* The range of a loop whose row is above genesis starts inside the chain. *)
LEMMA StartHeightInRange ==
  ASSUME NEW h \in 1..MaxTip
  PROVE  StartHeight(h) \in 0..h
  BY BatchAssumption, ThresholdAssumption, TipAssumption
     DEF StartHeight, ShouldUseBulkMode

(* A pagination that ends early is counted, and adds what it left. *)
LEMMA PassOverAdds ==
  ASSUME TypeOK, NEW t \in Tables, NEW left \in SUBSET (0..MaxTip),
         PassOver(t, left)
  PROVE  /\ missed' \in [Tables -> SUBSET (0..MaxTip)]
         /\ faults' \in 0..MaxFaults
         /\ \A u \in Tables : missed[u] \subseteq missed'[u]
         /\ left \subseteq missed'[t]
  <1>1. missed \in [Tables -> SUBSET (0..MaxTip)] /\ faults \in 0..MaxFaults
    BY DEF TypeOK, HeightsOK, TablesOK
  <1>2. CASE left = {}
    BY <1>1, <1>2 DEF PassOver
  <1>3. CASE left # {}
    <2>1. /\ missed' = [missed EXCEPT ![t] = @ \cup left]
          /\ faults' = faults + 1 /\ faults < MaxFaults
      BY <1>3 DEF PassOver
    <2>2. faults' \in 0..MaxFaults
      BY <1>1, <2>1, FaultAssumption
    <2> QED BY <1>1, <2>1, <2>2
  <1> QED BY <1>2, <1>3

LEMMA TableNames == "blocks" \in Tables /\ "micro" \in Tables /\ "txs" \in Tables
  BY DEF Tables

(* A step that leaves the tables alone. *)
LEMMA Still ==
  ASSUME UNCHANGED <<stored, missed>>
  PROVE  Grow /\ Blocks' = Blocks /\ Micro' = Micro /\ Txs' = Txs
  BY DEF stored, Grow, Blocks, Micro, Txs

(* The tables only grow: what is covered stays covered. *)
LEMMA CoveredStable ==
  ASSUME NEW b \in Int, Covered(b), origin' = origin, Grow
  PROVE  Covered(b)'
  BY DEF Covered, Grow

(* A loop that does not move keeps what it knows. *)
LEMMA LoopStable ==
  ASSUME NEW l \in Loops, LoopInv(l), loop'[l] = loop[l],
         hasRow => hasRow', origin' = origin, Grow
  PROVE  LoopInv(l)'
  BY DEF LoopInv, Covered, Grow

(* An idle loop knows nothing. *)
LEMMA IdleLoop ==
  ASSUME NEW l \in Loops, loop'[l] = Idle
  PROVE  LoopInv(l)'
  BY DEF LoopInv, Idle

LEMMA IdleType == Idle \in LoopType
  BY TipAssumption DEF Idle, LoopType, PCs

LEMMA InitInv == Init => IInv
  <1> SUFFICES ASSUME Init PROVE IInv
    OBVIOUS
  <1>1. FlagsOK
    BY Zenon DEF Init, FlagsOK
  <1>2. HeightsOK
    BY TipAssumption, FaultAssumption DEF Init, HeightsOK
  <1>3. TablesOK
    BY DEF Init, TablesOK
  <1>4. loop \in [Loops -> LoopType]
    BY IdleType DEF Init
  <1>5. \A l \in Loops : LoopInv(l)
    BY DEF Init, LoopInv, Idle
  <1> QED
    BY <1>1, <1>2, <1>3, <1>4, <1>5 DEF Init, IInv, TypeOK

-----------------------------------------------------------------------------
(* The inductive step, one lemma per action. *)
LEMMA MineInv == IInv /\ Mine => IInv'
  <1> SUFFICES ASSUME IInv, Mine PROVE IInv'
    OBVIOUS
  <1>1. HeightsOK'
    BY TipAssumption DEF IInv, TypeOK, HeightsOK, Mine, db
  <1>2. Grow /\ Blocks' = Blocks /\ Micro' = Micro /\ Txs' = Txs
    BY Still DEF Mine
  <1>3. \A l \in Loops : LoopInv(l)'
    BY <1>2, LoopStable DEF IInv, Mine, db
  <1> QED
    BY <1>1, <1>2, <1>3
    DEF IInv, TypeOK, FlagsOK, TablesOK, Mine, db, stored, Covered

LEMMA BootInv == IInv /\ Boot => IInv'
  <1> SUFFICES ASSUME IInv, Boot PROVE IInv'
    OBVIOUS
  <1>1. FlagsOK'
    BY Zenon DEF IInv, TypeOK, FlagsOK, Boot, db
  <1>2. HeightsOK' /\ TablesOK' /\ loop' \in [Loops -> LoopType]
    BY DEF IInv, TypeOK, HeightsOK, TablesOK, Boot, db, stored
  <1>3. \A l \in Loops : LoopInv(l)'
    BY IdleLoop DEF IInv, Boot
  <1>4. hasRow' /\ Covered(backward_synced_height)'
    <2>1. CASE hasRow
      BY <2>1, Still DEF IInv, Boot, db, Covered
    <2>2. CASE ~hasRow
      BY <2>2 DEF IInv, TypeOK, HeightsOK, Boot, Covered
    <2> QED BY <2>1, <2>2
  <1> QED
    BY <1>1, <1>2, <1>3, <1>4 DEF IInv, TypeOK, Boot

LEMMA CrashInv == IInv /\ Crash => IInv'
  <1> SUFFICES ASSUME IInv, Crash PROVE IInv'
    OBVIOUS
  <1>1. FlagsOK'
    BY Zenon DEF IInv, TypeOK, FlagsOK, Crash, db
  <1>2. HeightsOK' /\ TablesOK'
    BY FaultAssumption
    DEF IInv, TypeOK, HeightsOK, TablesOK, Crash, db, stored
  <1>3. loop' \in [Loops -> LoopType] /\ \A l \in Loops : loop'[l] = Idle
    BY IdleType DEF Crash
  <1> QED
    BY <1>1, <1>2, <1>3, IdleLoop, Still
    DEF IInv, TypeOK, Crash, db, Covered

(* A step of loop l that leaves the row, the origin and the process alone   *)
(* and only adds to the tables preserves IInv if it preserves the types and *)
(* re-establishes what l knows.                                             *)
LEMMA LoopStep ==
  ASSUME IInv, TypeOK', NEW l \in Loops, loop[l].pc # "idle", LoopInv(l)',
         \A m \in Loops \ {l} : loop'[m] = loop[m],
         hasRow' = hasRow, up' = up, origin' = origin,
         backward_synced_height' = backward_synced_height, Grow
  PROVE  IInv'
  <1>1. up
    BY DEF IInv, Idle
  <1>2. \A m \in Loops : LoopInv(m)'
    BY LoopStable DEF IInv
  <1>3. hasRow' => Covered(backward_synced_height)'
    BY CoveredStable DEF IInv, TypeOK, HeightsOK, Covered
  <1> QED
    BY <1>1, <1>2, <1>3 DEF IInv

LEMMA TickInv == ASSUME NEW l \in Loops PROVE IInv /\ Tick(l) => IInv'
  <1> SUFFICES ASSUME IInv, Tick(l) PROVE IInv'
    OBVIOUS
  <1>1. FlagsOK'
    BY Zenon DEF IInv, TypeOK, FlagsOK, Tick, db
  <1>2. HeightsOK' /\ TablesOK'
    BY DEF IInv, TypeOK, HeightsOK, TablesOK, Tick, db, stored
  <1>3. loop' \in [Loops -> LoopType]
    BY DEF IInv, TypeOK, LoopType, PCs, Tick
  <1>4. LoopInv(l)'
    BY DEF IInv, TypeOK, Tick, db, LoopInv
  <1>a. Grow /\ Blocks' = Blocks /\ Micro' = Micro /\ Txs' = Txs
    BY Still DEF Tick
  <1>5. \A m \in Loops \ {l} : LoopInv(m)'
    <2> TAKE m \in Loops \ {l}
    <2>1. loop'[m] = loop[m]
      BY DEF IInv, TypeOK, Tick
    <2> QED
      BY <1>a, <2>1, LoopStable DEF IInv, Tick, db
  <1> QED
    BY <1>1, <1>2, <1>3, <1>4, <1>5, <1>a
    DEF IInv, TypeOK, Tick, db, Covered

LEMMA ReadStateInv ==
  ASSUME NEW l \in Loops PROVE IInv /\ ReadState(l) => IInv'
  <1> SUFFICES ASSUME IInv, ReadState(l) PROVE IInv'
    OBVIOUS
  <1>1. loop' \in [Loops -> LoopType]
    <2> DEFINE seen == [loop[l] EXCEPT !.pc = "status", !.bulk = is_bulk_mode,
                                       !.hi = backward_synced_height]
    <2>1. loop[l] \in LoopType /\ is_bulk_mode \in BOOLEAN /\ backward_synced_height \in -1..MaxTip
      BY DEF IInv, TypeOK, FlagsOK, HeightsOK
    <2>2. seen \in LoopType
      BY <2>1 DEF LoopType, PCs
    <2>3. loop' = [loop EXCEPT ![l] = seen]
      BY DEF ReadState
    <2> QED
      BY <2>2, <2>3 DEF IInv, TypeOK
  <1>2. TypeOK'
    BY <1>1
    DEF IInv, TypeOK, FlagsOK, HeightsOK, TablesOK, ReadState, db, stored
  <1>a. Grow /\ Blocks' = Blocks /\ Micro' = Micro /\ Txs' = Txs
    BY Still DEF ReadState
  <1>3. LoopInv(l)'
    BY <1>a DEF IInv, TypeOK, ReadState, db, LoopInv, Covered
  <1>4. \A m \in Loops \ {l} : loop'[m] = loop[m]
    BY DEF IInv, TypeOK, ReadState
  <1> QED
    BY <1>2, <1>3, <1>4, <1>a, LoopStep DEF ReadState, db

(* sync() giving up leaves the types and the other loops as they were. *)
LEMMA FinishStep ==
  ASSUME IInv, NEW l \in Loops, Finish(l)
  PROVE  /\ loop' \in [Loops -> LoopType]
         /\ isRunning' = FALSE
         /\ LoopInv(l)'
         /\ \A m \in Loops \ {l} : loop'[m] = loop[m]
  BY IdleType, IdleLoop DEF IInv, TypeOK, Finish

LEMMA StatusInv == ASSUME NEW l \in Loops PROVE IInv /\ Status(l) => IInv'
  <1> SUFFICES ASSUME IInv, Status(l) PROVE IInv'
    OBVIOUS
  <1>1. HeightsOK' /\ TablesOK'
    BY DEF IInv, TypeOK, HeightsOK, TablesOK, Status, stored
  <1>a. Grow /\ Blocks' = Blocks /\ Micro' = Micro /\ Txs' = Txs
    BY Still DEF Status
  <1>2. CASE loop[l].hi <= 0
    <2>1. Finish(l) /\ is_bulk_mode' = is_bulk_mode
      BY <1>2 DEF Status
    <2>2. FlagsOK'
      BY <2>1, FinishStep, Zenon DEF IInv, TypeOK, FlagsOK, Status
    <2> QED
      BY <1>1, <1>a, <2>1, <2>2, FinishStep, LoopStep DEF Status, TypeOK
  <1>3. CASE loop[l].hi > 0
    <2>1. ~(loop[l].hi <= 0)
      BY <1>3 DEF IInv, TypeOK, LoopType
    <2>2. /\ loop' = [loop EXCEPT ![l] =
               [@ EXCEPT !.pc = "blocks", !.lo = StartHeight(loop[l].hi)]]
          /\ isRunning' = isRunning
      BY <2>1 DEF Status
    <2>a. \/ is_bulk_mode' = is_bulk_mode
          \/ is_bulk_mode' = ShouldUseBulkMode(loop[l].hi)
      BY <2>1 DEF Status
    <2>3. ShouldUseBulkMode(loop[l].hi) \in BOOLEAN
      BY DEF ShouldUseBulkMode
    <2>4. FlagsOK'
      BY <2>2, <2>a, <2>3, Zenon DEF IInv, TypeOK, FlagsOK, Status
    <2>5. StartHeight(loop[l].hi) \in 0..loop[l].hi
      BY <1>3, StartHeightInRange, TipAssumption DEF IInv, TypeOK, LoopType
    <2>6. loop' \in [Loops -> LoopType]
      <3>1. loop[l] \in LoopType /\ StartHeight(loop[l].hi) \in 0..MaxTip
        BY <1>3, <2>5, TipAssumption DEF IInv, TypeOK, LoopType
      <3>2. [loop[l] EXCEPT !.pc = "blocks", !.lo = StartHeight(loop[l].hi)]
              \in LoopType
        BY <3>1 DEF LoopType, PCs
      <3> QED
        BY <2>2, <3>2 DEF IInv, TypeOK
    <2>7. LoopInv(l)'
      BY <1>3, <1>a, <2>2, <2>5 DEF IInv, TypeOK, Status, LoopInv, Covered
    <2>8. \A m \in Loops \ {l} : loop'[m] = loop[m]
      BY <2>2 DEF IInv, TypeOK
    <2> QED
      BY <1>1, <1>a, <2>4, <2>6, <2>7, <2>8, LoopStep DEF Status, TypeOK
  <1> QED
    BY <1>2, <1>3 DEF IInv, TypeOK, LoopType

(* The blocks stored and the blocks left are the range. *)
LEMMA SyncBlocksInv ==
  ASSUME NEW l \in Loops PROVE IInv /\ SyncBlocks(l) => IInv'
  <1> SUFFICES ASSUME IInv, SyncBlocks(l) PROVE IInv'
    OBVIOUS
  <1>1. loop[l] \in LoopType /\ loop' = [loop EXCEPT ![l].pc = "micro"]
    BY DEF IInv, TypeOK, SyncBlocks
  <1>2. PICK last \in (loop[l].lo - 1) .. loop[l].hi :
          /\ keyBlocks' = keyBlocks \cup (loop[l].lo .. last)
          /\ PassOver("blocks", (last + 1) .. loop[l].hi)
    BY DEF SyncBlocks
  <1>3. /\ loop[l].lo .. last \in SUBSET (0..MaxTip)
        /\ (last + 1) .. loop[l].hi \in SUBSET (0..MaxTip)
        /\ loop[l].lo .. loop[l].hi
             = (loop[l].lo .. last) \cup ((last + 1) .. loop[l].hi)
    BY <1>1, <1>2, TipAssumption DEF LoopType
  <1>4. /\ missed' \in [Tables -> SUBSET (0..MaxTip)]
        /\ faults' \in 0..MaxFaults
        /\ \A u \in Tables : missed[u] \subseteq missed'[u]
        /\ (last + 1) .. loop[l].hi \subseteq missed'["blocks"]
    BY <1>2, <1>3, PassOverAdds, TableNames DEF IInv
  <1>5. Grow /\ loop[l].lo .. loop[l].hi \subseteq Blocks'
    BY <1>2, <1>3, <1>4, TableNames
    DEF SyncBlocks, Grow, Blocks, Micro, Txs
  <1>6. TypeOK'
    <2>1. loop' \in [Loops -> LoopType]
      BY <1>1 DEF IInv, TypeOK, LoopType, PCs
    <2> QED
      BY <1>2, <1>3, <1>4, <2>1
      DEF IInv, TypeOK, FlagsOK, HeightsOK, TablesOK, SyncBlocks, db
  <1>7. LoopInv(l)'
    BY <1>1, <1>5 DEF IInv, TypeOK, SyncBlocks, db, LoopInv, Covered, Grow
  <1>8. \A m \in Loops \ {l} : loop'[m] = loop[m]
    BY <1>1 DEF IInv, TypeOK
  <1> QED
    BY <1>5, <1>6, <1>7, <1>8, LoopStep DEF SyncBlocks, db

(* A height without its key block was left out by an earlier call. *)
LEMMA SyncMicroBlocksInv ==
  ASSUME NEW l \in Loops PROVE IInv /\ SyncMicroBlocks(l) => IInv'
  <1> SUFFICES ASSUME IInv, SyncMicroBlocks(l) PROVE IInv'
    OBVIOUS
  <1> DEFINE range == loop[l].lo .. loop[l].hi
             found == range \cap keyBlocks
  <1>1. /\ loop[l] \in LoopType /\ LoopInv(l) /\ loop[l].pc = "micro"
        /\ loop' = [loop EXCEPT ![l] =
             [@ EXCEPT !.pc = "txs", !.page = loop[l].hi]]
    BY DEF IInv, TypeOK, SyncMicroBlocks
  <1>2. PICK left \in SUBSET found :
          /\ microBlocks' = microBlocks \cup (found \ left)
          /\ PassOver("micro", left)
    BY DEF SyncMicroBlocks
  <1>3. range \in SUBSET (0..MaxTip)
    BY <1>1, TipAssumption DEF LoopType
  <1> HIDE DEF range
  <1>4. /\ missed' \in [Tables -> SUBSET (0..MaxTip)]
        /\ faults' \in 0..MaxFaults
        /\ \A u \in Tables : missed[u] \subseteq missed'[u]
        /\ left \subseteq missed'["micro"]
    <2>1. left \in SUBSET (0..MaxTip)
      BY <1>2, <1>3
    <2> QED BY <1>2, <2>1, PassOverAdds, TableNames DEF IInv
  <1>5. Grow
    BY <1>2, <1>4, TableNames DEF SyncMicroBlocks, Grow, Blocks, Micro, Txs
  <1>6. range \subseteq Micro'
    <2>1. range \subseteq Blocks
      BY <1>1 DEF LoopInv, range
    <2> QED
      BY <1>2, <1>4, <2>1, TableNames DEF Blocks, Micro
  <1>7. TypeOK'
    <2>1. loop' \in [Loops -> LoopType]
      BY <1>1 DEF IInv, TypeOK, LoopType, PCs
    <2> QED
      BY <1>2, <1>3, <1>4, <2>1
      DEF IInv, TypeOK, FlagsOK, HeightsOK, TablesOK, SyncMicroBlocks, db
  <1>8. LoopInv(l)'
    <2>1. loop'[l] = [loop[l] EXCEPT !.pc = "txs", !.page = loop[l].hi]
      BY <1>1 DEF IInv, TypeOK
    <2>2. (loop[l].hi + 1) .. loop[l].hi = {}
      BY <1>1 DEF LoopType
    <2>3. /\ loop'[l].pc = "txs" /\ loop'[l].hi = loop[l].hi
          /\ loop'[l].lo = loop[l].lo /\ loop'[l].page = loop[l].hi
      BY <2>1, <1>1 DEF LoopType
    <2> QED
      BY <1>1, <1>5, <1>6, <2>2, <2>3
      DEF IInv, SyncMicroBlocks, db, LoopInv, Covered, LoopType, Grow, range
  <1>9. \A m \in Loops \ {l} : loop'[m] = loop[m]
    BY <1>1 DEF IInv, TypeOK
  <1> QED
    BY <1>1, <1>5, <1>7, <1>8, <1>9, LoopStep DEF SyncMicroBlocks, db

LEMMA SyncTransactionPageInv ==
  ASSUME NEW l \in Loops PROVE IInv /\ SyncTransactionPage(l) => IInv'
  <1> SUFFICES ASSUME IInv, SyncTransactionPage(l) PROVE IInv'
    OBVIOUS
  <1> DEFINE next == IF loop[l].page = loop[l].lo THEN "commit" ELSE "txs"
  <1>1. loop[l] \in LoopType /\ LoopInv(l) /\ loop[l].pc = "txs"
    BY DEF IInv, TypeOK, SyncTransactionPage
  <1> DEFINE r == [loop[l] EXCEPT !.page = loop[l].page - 1, !.pc = next]
  <1>2. loop' = [loop EXCEPT ![l] = r] /\ txs' = txs \cup {loop[l].page}
    BY DEF SyncTransactionPage
  <1>3. /\ loop[l].lo \in 0..MaxTip /\ loop[l].hi \in 0..MaxTip
        /\ loop[l].page \in loop[l].lo .. loop[l].hi
        /\ (loop[l].page + 1) .. loop[l].hi \subseteq Txs
    BY <1>1, TipAssumption DEF LoopType, LoopInv
  <1>a. next \in {"commit", "txs"}
    OBVIOUS
  <1>c. Grow /\ Blocks' = Blocks /\ Micro' = Micro /\ Txs' = Txs \cup {loop[l].page}
    BY <1>2 DEF SyncTransactionPage, Grow, Blocks, Micro, Txs
  <1>b. /\ r \in LoopType
        /\ r.pc = next /\ r.hi = loop[l].hi /\ r.lo = loop[l].lo
        /\ r.page = loop[l].page - 1
    <2> HIDE DEF next
    <2>1. next \in PCs /\ loop[l].page - 1 \in -1..MaxTip
      BY <1>3, <1>a, TipAssumption DEF PCs
    <2> QED BY <1>1, <2>1 DEF LoopType
  <1> HIDE DEF r
  <1>4. loop' \in [Loops -> LoopType] /\ loop'[l] = r
    BY <1>2, <1>b DEF IInv, TypeOK
  <1>5. TypeOK'
    BY <1>2, <1>3, <1>4, TipAssumption
    DEF IInv, TypeOK, FlagsOK, HeightsOK, TablesOK, SyncTransactionPage, db
  <1>6. LoopInv(l)'
    <2>1. /\ loop'[l].pc = next /\ loop'[l].hi = loop[l].hi
          /\ loop'[l].lo = loop[l].lo /\ loop'[l].page = loop[l].page - 1
      BY <1>4, <1>b
    <2>2. loop[l].page .. loop[l].hi \subseteq Txs'
      BY <1>c, <1>3
    <2>3. CASE loop[l].page = loop[l].lo
      BY <1>1, <1>3, <1>c, <2>1, <2>2, <2>3
      DEF IInv, SyncTransactionPage, db, LoopInv, Covered
    <2>4. CASE loop[l].page # loop[l].lo
      BY <1>1, <1>3, <1>c, <2>1, <2>2, <2>4
      DEF IInv, SyncTransactionPage, db, LoopInv, Covered
    <2> QED BY <2>3, <2>4
  <1>7. \A m \in Loops \ {l} : loop'[m] = loop[m]
    BY <1>2 DEF IInv, TypeOK
  <1> QED
    BY <1>1, <1>5, <1>6, <1>7, <1>c, LoopStep DEF SyncTransactionPage, db

(* What a pagination that ends early leaves is the rest of the range. *)
LEMMA EndTransactionsEarlyInv ==
  ASSUME NEW l \in Loops PROVE IInv /\ EndTransactionsEarly(l) => IInv'
  <1> SUFFICES ASSUME IInv, EndTransactionsEarly(l) PROVE IInv'
    OBVIOUS
  <1> DEFINE left == loop[l].lo .. loop[l].page
  <1>1. /\ loop[l] \in LoopType /\ LoopInv(l) /\ loop[l].pc = "txs"
        /\ loop' = [loop EXCEPT ![l].pc = "commit"]
        /\ PassOver("txs", left)
    BY DEF IInv, TypeOK, EndTransactionsEarly
  <1>2. left \in SUBSET (0..MaxTip)
    BY <1>1, TipAssumption DEF LoopType
  <1>3. /\ missed' \in [Tables -> SUBSET (0..MaxTip)]
        /\ faults' \in 0..MaxFaults
        /\ \A u \in Tables : missed[u] \subseteq missed'[u]
        /\ left \subseteq missed'["txs"]
    <2> HIDE DEF left
    <2> QED BY <1>1, <1>2, PassOverAdds, TableNames DEF IInv
  <1>4. Grow
    BY <1>3, TableNames
    DEF EndTransactionsEarly, stored, Grow, Blocks, Micro, Txs
  <1>5. loop[l].lo .. loop[l].hi \subseteq Txs'
    <2>1. (loop[l].page + 1) .. loop[l].hi \subseteq Txs'
      BY <1>1, <1>4 DEF LoopInv, Grow
    <2>2. left \subseteq Txs'
      BY <1>3 DEF Txs
    <2>3. loop[l].lo .. loop[l].hi
            = left \cup ((loop[l].page + 1) .. loop[l].hi)
      BY <1>1, TipAssumption DEF LoopType, LoopInv
    <2> HIDE DEF left
    <2> QED BY <2>1, <2>2, <2>3
  <1>6. TypeOK'
    <2>1. loop' \in [Loops -> LoopType]
      BY <1>1 DEF IInv, TypeOK, LoopType, PCs
    <2> QED
      BY <1>3, <2>1
      DEF IInv, TypeOK, FlagsOK, HeightsOK, TablesOK, EndTransactionsEarly,
          db, stored
  <1>7. LoopInv(l)'
    BY <1>1, <1>4, <1>5
    DEF IInv, TypeOK, EndTransactionsEarly, db, LoopInv, Covered, Grow
  <1>8. \A m \in Loops \ {l} : loop'[m] = loop[m]
    BY <1>1 DEF IInv, TypeOK
  <1> QED
    BY <1>1, <1>4, <1>6, <1>7, <1>8, LoopStep DEF EndTransactionsEarly, db

(* The cursor moves to just below a range whose heights are all stored, and *)
(* everything above the range was covered when the loop read the row.       *)
LEMMA CommitInv == ASSUME NEW l \in Loops PROVE IInv /\ Commit(l) => IInv'
  <1> SUFFICES ASSUME IInv, Commit(l) PROVE IInv'
    OBVIOUS
  <1> DEFINE r == IF NewBackwardHeight(l) > 0 THEN [Idle EXCEPT !.pc = "read"]
                                              ELSE Idle
  <1>1. loop[l] \in LoopType /\ LoopInv(l) /\ loop[l].pc = "commit" /\ hasRow
    BY DEF IInv, TypeOK, Commit, LoopInv
  <1>a. Grow /\ Blocks' = Blocks /\ Micro' = Micro /\ Txs' = Txs
    BY Still DEF Commit
  <1>2. r \in LoopType /\ r.pc \in {"read", "idle"}
    <2>1. [Idle EXCEPT !.pc = "read"] \in LoopType
      BY IdleType DEF LoopType, PCs
    <2> QED BY <2>1, IdleType DEF Idle
  <1>3. loop' = [loop EXCEPT ![l] = r]
    BY DEF Commit
  <1> HIDE DEF r
  <1>4. loop' \in [Loops -> LoopType] /\ loop'[l] = r
        /\ \A m \in Loops \ {l} : loop'[m] = loop[m]
    BY <1>2, <1>3 DEF IInv, TypeOK
  <1>5. FlagsOK'
    BY Zenon DEF IInv, TypeOK, FlagsOK, Commit
  <1>6. HeightsOK' /\ TablesOK'
    BY <1>1, TipAssumption
    DEF IInv, TypeOK, HeightsOK, TablesOK, Commit, stored, LoopType,
        NewBackwardHeight
  <1>7. Covered(backward_synced_height)'
    <2> SUFFICES ASSUME NEW h \in 0..MaxTip,
                        backward_synced_height' < h, h <= origin
                 PROVE  h \in Blocks /\ h \in Micro /\ h \in Txs
      BY <1>a DEF Covered, Commit
    <2>1. loop[l].lo <= h
      BY <1>1, TipAssumption DEF Commit, NewBackwardHeight, LoopType
    <2>2. CASE h <= loop[l].hi
      BY <1>1, <2>1, <2>2 DEF LoopInv, LoopType
    <2>3. CASE loop[l].hi < h
      BY <1>1, <2>3 DEF LoopInv, Covered
    <2> QED BY <1>1, <2>2, <2>3 DEF LoopType
  <1>8. LoopInv(l)'
    BY <1>1, <1>2, <1>4 DEF LoopInv, Commit
  <1>9. \A m \in Loops : LoopInv(m)'
    BY <1>4, <1>8, <1>a, LoopStable DEF IInv, Commit
  <1>10. up
    BY <1>1 DEF IInv, Idle
  <1> QED
    BY <1>1, <1>4, <1>5, <1>6, <1>7, <1>9, <1>10 DEF IInv, TypeOK, Commit

LEMMA FailInv == ASSUME NEW l \in Loops PROVE IInv /\ Fail(l) => IInv'
  <1> SUFFICES ASSUME IInv, Fail(l) PROVE IInv'
    OBVIOUS
  <1>1. Finish(l)
    BY DEF Fail
  <1>2. FlagsOK'
    BY <1>1, FinishStep, Zenon DEF IInv, TypeOK, FlagsOK, Fail, db
  <1>3. HeightsOK' /\ TablesOK'
    BY FaultAssumption
    DEF IInv, TypeOK, HeightsOK, TablesOK, Fail, db, stored
  <1>4. Grow
    BY Still DEF Fail
  <1> QED
    BY <1>1, <1>2, <1>3, <1>4, FinishStep, LoopStep DEF Fail, db, TypeOK

LEMMA StutterInv == IInv /\ UNCHANGED vars => IInv'
  <1> SUFFICES ASSUME IInv, UNCHANGED vars PROVE IInv'
    OBVIOUS
  <1>1. Blocks' = Blocks /\ Micro' = Micro /\ Txs' = Txs
    BY Still DEF vars
  <1>2. TypeOK'
    BY DEF IInv, TypeOK, FlagsOK, HeightsOK, TablesOK, vars, db, stored
  <1> QED
    BY <1>1, <1>2 DEF IInv, LoopInv, Covered, vars, db

-----------------------------------------------------------------------------
LEMMA StepInv == IInv /\ [Next]_vars => IInv'
  BY MineInv, BootInv, CrashInv, TickInv, ReadStateInv, StatusInv,
     SyncBlocksInv, SyncMicroBlocksInv, SyncTransactionPageInv,
     EndTransactionsEarlyInv, CommitInv, FailInv, StutterInv
  DEF Next, Advance

THEOREM Invariance == Spec => []IInv
  <1>1. Init => IInv
    BY InitInv
  <1>2. IInv /\ [Next]_vars => IInv'
    BY StepInv
  <1> QED
    BY <1>1, <1>2, PTL DEF Spec

(* Every variable keeps its type: no cursor below -1, no range outside the  *)
(* chain, whatever sizes the batches have.                                  *)
THEOREM TypeCorrect == Spec => []TypeOK
  <1>1. IInv => TypeOK
    BY DEF IInv
  <1> QED
    BY <1>1, Invariance, PTL

(* However many activations of sync() overlap, fail or die with the         *)
(* process, the persisted cursor never claims a height that was not stored  *)
(* or passed over by a call whose pagination ended early.                   *)
THEOREM CursorIsHonest == Spec => []CursorCovers
  <1>1. IInv => CursorCovers
    BY DEF IInv, Covered, CursorCovers, Blocks, Micro, Txs
  <1> QED
    BY <1>1, Invariance, PTL
=============================================================================
