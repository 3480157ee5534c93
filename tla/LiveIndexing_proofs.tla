------------------------- MODULE LiveIndexing_proofs --------------------------
(***************************************************************************)
(* ChainIndex, and PluginDispatch which is given what it stores, for all    *)
(* sets of transactions and batches, depths, lengths of chain, versions and *)
(* faults.  SettledKept is not inductive: that a deletion spares a          *)
(* transaction depends on what the refetch observed many steps before, so   *)
(* IInv adds what a validation knows of the heights it has behind it (while *)
(* it refetches) or ahead of it (while it cleans up).  Nor is               *)
(* BatchesLoseNothing: a transaction is in a batch for many steps, and      *)
(* Accounted says what answers for it at each of them.                      *)
(***************************************************************************)
EXTENDS ChainIndex, PluginDispatch, TLAPS

-----------------------------------------------------------------------------
(* ChainIndex                                                               *)

(* The heights whose refetched hashes the validation still relies on ...    *)
Known(h) ==
  \/ val.pc = "page" /\ val.start <= h /\ h < val.at
  \/ val.pc \in PagePCs /\ val.start <= h /\ h <= val.at
  \/ val.pc \in HeightPCs /\ val.at <= h /\ h <= val.end

(* ... and which its refetch did not miss.                                  *)
Below(h) == val.cut = 0 \/ h < val.cut

(* A transaction that has not moved since the validation began was observed *)
(* at the height it is mined in.                                            *)
ObservedOK ==
  \A t \in Txs : t \notin val.moved /\ mined[t] \in Heights
                   /\ Known(mined[t]) /\ Below(mined[t])
                   => t \in val.observed[mined[t]]

WindowOK ==
  val.pc \in {"page"} \cup PagePCs \cup HeightPCs
    => val.start <= val.at /\ val.at <= val.end

(* A refetch ends at the page where it ends early. *)
CutOK ==
  /\ val.pc \in {"tip", "page"} => val.cut = 0
  /\ val.pc \in PagePCs => val.cut = 0 \/ val.cut = val.at

(* What is about to be deleted was not refetched. *)
RemovedOK ==
  val.pc = "delete" => val.removed \cap val.observed[val.at] = {}

IInv == TypeOK /\ WindowOK /\ CutOK /\ ObservedOK /\ RemovedOK

-----------------------------------------------------------------------------
(* What the safety of the validation rests on, apart from the types. *)
ValInv == WindowOK /\ CutOK /\ ObservedOK /\ RemovedOK

LEMMA HeightFacts ==
  /\ Heights \subseteq Nat
  /\ 1 \in Heights
  /\ \A h, g \in Heights : h <= g /\ h # g => h + 1 \in Heights /\ h + 1 <= g
  /\ Heights \subseteq 0..MaxTip
  BY BoundAssumption DEF Heights

LEMMA BudgetFacts ==
  ASSUME budget \in Budgets
  PROVE  /\ budget.reorgs \in Nat /\ budget.faults \in Nat
         /\ budget.tip \in 1..MaxTip
  BY BudgetAssumption DEF Budget

LEMMA HeightsInt == \A h \in Heights : h \in Int
  BY BoundAssumption DEF Heights

LEMMA IdleValFacts ==
  IdleVal \in ValType /\ IdleVal.pc = "idle" /\ IdleVal.cut = 0
  BY HeightFacts, BoundAssumption DEF IdleVal, ValType, ValPCs, PagePCs, HeightPCs, NothingObserved

(* The validated window lies within the chain. *)
LEMMA WindowInRange ==
  ASSUME tip \in Heights
  PROVE  WindowStart \in Heights /\ WindowStart <= tip
  BY DepthAssumption, BoundAssumption DEF WindowStart, Heights

(* Outside a validation, and before its first page, nothing is known. *)
LEMMA QuietVal ==
  ASSUME val'.pc = "idle" \/ (val'.pc = "tip" /\ val'.cut = 0)
  PROVE  ValInv'
  BY DEF ValInv, WindowOK, CutOK, ObservedOK, RemovedOK, Known, Below, PagePCs, HeightPCs

(* A step that leaves the validation and the chain alone preserves ValInv. *)
LEMMA ValStable ==
  ASSUME ValInv, val' = val, mined' = mined
  PROVE  ValInv'
  BY DEF ValInv, WindowOK, CutOK, ObservedOK, RemovedOK, Known, Below, PagePCs, HeightPCs

(* Everything but the locals of the validation. *)
RestOK ==
  /\ tip \in Heights
  /\ mined \in [Txs -> 0..MaxTip]
  /\ budget \in Budgets
  /\ reorgs \in 0..budget.reorgs
  /\ feed \subseteq [tx: Txs, h: Heights]
  /\ stored \in [Txs -> 0..MaxTip]
  /\ rows \subseteq Txs
  /\ syncedTransactions \subseteq Txs
  /\ live \subseteq [tx: Txs, h: Heights, pc: LivePCs]
  /\ faults \in 0..budget.faults

(* IInv, part by part. *)
LEMMA Parts == IInv => RestOK /\ up \in BOOLEAN /\ val \in ValType /\ ValInv
  <1> SUFFICES ASSUME IInv PROVE RestOK /\ up \in BOOLEAN /\ val \in ValType
                                 /\ ValInv
    OBVIOUS
  <1>1. RestOK
    BY DEF IInv, TypeOK, RestOK
  <1>2. up \in BOOLEAN
    BY Zenon DEF IInv, TypeOK
  <1>3. val \in ValType
    BY Zenon DEF IInv, TypeOK
  <1> QED BY <1>1, <1>2, <1>3 DEF IInv, ValInv

LEMMA Assembled ==
  ASSUME RestOK', up' \in BOOLEAN, val' \in ValType, ValInv'
  PROVE  IInv'
  BY Zenon DEF IInv, TypeOK, RestOK, ValInv

LEMMA InitInv == Init => IInv
  <1> SUFFICES ASSUME Init PROVE IInv
    OBVIOUS
  <1>1. up \in BOOLEAN
    BY Zenon DEF Init
  <1>2. RestOK
    BY HeightFacts, BoundAssumption, BudgetAssumption DEF Init, RestOK, Budget
  <1>3. val \in ValType /\ val.pc = "idle"
    BY IdleValFacts DEF Init
  <1>4. WindowOK /\ CutOK /\ ObservedOK /\ RemovedOK
    BY <1>3 DEF WindowOK, CutOK, ObservedOK, RemovedOK, Known, Below, PagePCs, HeightPCs
  <1>5. TypeOK
    BY Zenon, <1>1, <1>2, <1>3 DEF RestOK, TypeOK
  <1> QED BY <1>4, <1>5 DEF IInv

-----------------------------------------------------------------------------
(* The inductive step: the chain and the live handlers. *)
LEMMA MineTxInv == ASSUME IInv, NEW t \in Txs, MineTx(t) PROVE IInv'
  <1>1. RestOK' /\ UNCHANGED up
    BY HeightFacts DEF IInv, TypeOK, RestOK, MineTx
  <1>2. val \in ValType
    BY Parts
  <1>3. CASE val.pc = "idle"
    <2>1. val' = val
      BY <1>3 DEF MineTx, RecordMove
    <2> QED
      BY <2>1, <1>1, <1>2, <1>3, QuietVal, Parts, Assembled
  <1>4. CASE val.pc # "idle"
    <2>1. val' = [val EXCEPT !.moved = val.moved \cup {t}]
      BY <1>4 DEF MineTx, RecordMove
    <2>2. val' \in ValType
      BY <2>1, <1>2 DEF ValType
    <2>3. WindowOK' /\ CutOK' /\ RemovedOK'
      BY <2>1, <1>2 DEF IInv, WindowOK, CutOK, RemovedOK, ValType
    <2>4. ASSUME NEW u \in Txs, u # t PROVE mined'[u] = mined[u]
      BY <2>4 DEF MineTx, IInv, TypeOK
    <2>5. ObservedOK'
      BY <2>1, <2>4, <1>2 DEF IInv, ObservedOK, Known, Below, ValType
    <2> QED
      BY <2>2, <2>3, <2>5, <1>1, Parts, Assembled DEF ValInv
  <1> QED BY <1>3, <1>4

LEMMA ReorgInv == ASSUME IInv, NEW t \in Txs, Reorg(t) PROVE IInv'
  <1>a. budget' = budget /\ reorgs' \in 0..budget.reorgs
    BY BudgetFacts, Parts DEF RestOK, Reorg
  <1>b. mined' \in [Txs -> 0..MaxTip]
    BY HeightFacts, BoundAssumption, Parts DEF RestOK, Reorg
  <1>1. RestOK' /\ UNCHANGED up
    BY <1>a, <1>b, Parts DEF RestOK, Reorg
  <1>2. val \in ValType
    BY Parts
  <1>3. CASE val.pc = "idle"
    <2>1. val' = val
      BY <1>3 DEF Reorg, RecordMove
    <2> QED
      BY <2>1, <1>1, <1>2, <1>3, QuietVal, Parts, Assembled
  <1>4. CASE val.pc # "idle"
    <2>1. val' = [val EXCEPT !.moved = val.moved \cup {t}]
      BY <1>4 DEF Reorg, RecordMove
    <2>2. val' \in ValType
      BY <2>1, <1>2 DEF ValType
    <2>3. WindowOK' /\ CutOK' /\ RemovedOK'
      BY <2>1, <1>2 DEF IInv, WindowOK, CutOK, RemovedOK, ValType
    <2>4. ASSUME NEW u \in Txs, u # t PROVE mined'[u] = mined[u]
      BY <2>4 DEF Reorg, IInv, TypeOK
    <2>5. ObservedOK'
      BY <2>1, <2>4, <1>2 DEF IInv, ObservedOK, Known, Below, ValType
    <2> QED
      BY <2>2, <2>3, <2>5, <1>1, Parts, Assembled DEF ValInv
  <1> QED BY <1>3, <1>4

LEMMA MineKeyBlockInv == ASSUME IInv, MineKeyBlock PROVE IInv'
  <1>1. RestOK' /\ UNCHANGED <<up, val, mined>>
    BY BoundAssumption, BudgetFacts DEF IInv, TypeOK, RestOK, MineKeyBlock, Heights
  <1> QED BY <1>1, ValStable, Parts, Assembled

LEMMA LiveReceiveInv == ASSUME IInv, NEW m \in feed, LiveReceive(m) PROVE IInv'
  <1>1. UNCHANGED <<up, val, mined, tip, reorgs, budget, stored, rows, faults>>
    BY DEF LiveReceive, chain
  <1>2. m \in [tx: Txs, h: Heights]
    BY DEF IInv, TypeOK
  <1>3. feed' \subseteq feed
    BY DEF LiveReceive
  <1>4. live' \subseteq live \cup {[tx |-> m.tx, h |-> m.h, pc |-> "save"]}
    BY DEF LiveReceive
  <1>5. syncedTransactions' \subseteq syncedTransactions \cup {m.tx}
    BY DEF LiveReceive
  <1>6. RestOK'
    BY <1>1, <1>2, <1>3, <1>4, <1>5 DEF IInv, TypeOK, RestOK, LivePCs
  <1> QED BY <1>1, <1>6, ValStable, Parts, Assembled

LEMMA LiveStepInv ==
  ASSUME IInv, NEW k \in live,
         LiveSave(k) \/ LiveDecode(k) \/ LiveRow(k) \/ LiveFail(k)
  PROVE  IInv'
  <1>1. k \in [tx: Txs, h: Heights, pc: LivePCs]
    BY DEF IInv, TypeOK
  <1>2. UNCHANGED <<up, val, mined, tip, reorgs, budget, feed,
                 syncedTransactions>>
    BY DEF LiveSave, LiveDecode, LiveRow, LiveFail, chain
  <1>3. stored' = stored \/ stored' = [stored EXCEPT ![k.tx] = k.h]
    BY DEF LiveSave, LiveDecode, LiveRow, LiveFail
  <1>4. live' \subseteq live \cup {[k EXCEPT !.pc = "decode"],
                                   [k EXCEPT !.pc = "row"]}
    BY DEF LiveSave, LiveDecode, LiveRow, LiveFail, LiveGoesTo
  <1>5. rows' \subseteq Txs
    BY <1>1 DEF LiveSave, LiveDecode, LiveRow, LiveFail, IInv, TypeOK
  <1>6. faults' \in 0..budget.faults
    BY BudgetFacts
    DEF LiveSave, LiveDecode, LiveRow, LiveFail, IInv, TypeOK
  <1>7. stored' \in [Txs -> 0..MaxTip]
    BY <1>1, <1>3, HeightFacts DEF IInv, TypeOK
  <1>8. live' \subseteq [tx: Txs, h: Heights, pc: LivePCs]
    BY <1>1, <1>4 DEF IInv, TypeOK, LivePCs
  <1>9. RestOK'
    BY <1>2, <1>5, <1>6, <1>7, <1>8 DEF IInv, TypeOK, RestOK
  <1> QED BY <1>2, <1>9, ValStable, Parts, Assembled

-----------------------------------------------------------------------------
(* The inductive step: the validation. *)
LEMMA ValBeginInv == ASSUME IInv, ValBegin PROVE IInv'
  <1>1. RestOK' /\ UNCHANGED up
    BY Parts DEF RestOK, ValBegin, chain
  <1>2. val' \in ValType /\ val'.pc = "tip" /\ val'.cut = 0
    BY IdleValFacts DEF ValBegin, ValType, ValPCs
  <1> QED BY <1>1, <1>2, QuietVal, Parts, Assembled

LEMMA BootInv == ASSUME IInv, Boot PROVE IInv'
  <1>1. RestOK'
    BY Parts DEF RestOK, Boot, chain
  <1>2. val' \in ValType /\ val'.pc = "tip" /\ val'.cut = 0
    BY IdleValFacts DEF Boot, ValType, ValPCs
  <1>3. up' \in BOOLEAN
    BY Zenon DEF Boot
  <1> QED BY <1>1, <1>2, <1>3, QuietVal, Assembled

LEMMA CrashInv == ASSUME IInv, Crash PROVE IInv'
  <1>1. RestOK'
    BY Parts, BudgetFacts DEF RestOK, Crash, chain
  <1>2. val' \in ValType /\ val'.pc = "idle"
    BY IdleValFacts DEF Crash
  <1>3. up' \in BOOLEAN
    BY Zenon DEF Crash
  <1> QED BY <1>1, <1>2, <1>3, QuietVal, Assembled

LEMMA ValTipInv == ASSUME IInv, ValTip PROVE IInv'
  <1>1. RestOK' /\ UNCHANGED <<up, mined>>
    BY Parts DEF RestOK, ValTip, chain
  <1>2. WindowStart \in Heights /\ WindowStart <= tip /\ tip \in Heights
    BY Parts, WindowInRange DEF RestOK
  <1>3. val \in ValType /\ val.cut = 0
    BY Parts DEF ValTip, ValInv, CutOK
  <1>4. /\ val' \in ValType /\ val'.pc = "page" /\ val'.at = WindowStart
        /\ val'.start = WindowStart /\ val'.end = tip /\ val'.cut = 0
    BY <1>2, <1>3 DEF ValTip, ValType, ValPCs
  <1>5. WindowOK' /\ CutOK' /\ RemovedOK'
    BY <1>2, <1>4, HeightFacts DEF WindowOK, CutOK, RemovedOK, PagePCs
  <1>6. ASSUME NEW h \in Heights PROVE ~Known(h)'
    <2>1. h \in Int /\ WindowStart \in Int
      BY <1>2, HeightFacts
    <2> QED BY <2>1, <1>4 DEF Known, Below, PagePCs, HeightPCs
  <1>7. ValInv'
    BY <1>5, <1>6 DEF ValInv, ObservedOK
  <1> QED BY <1>1, <1>4, <1>7, Parts, Assembled

(* What a step of a validation that stays at its page, or at its height,    *)
(* leaves as it was.                                                        *)
SameHeight ==
  /\ val'.start = val.start /\ val'.end = val.end /\ val'.at = val.at
  /\ val'.cut = val.cut /\ val'.observed = val.observed
  /\ val'.moved = val.moved

LEMMA SameHeightInv ==
  ASSUME ValInv, val' \in ValType, SameHeight, UNCHANGED mined,
         \/ val.pc \in PagePCs /\ val'.pc \in PagePCs
         \/ val.pc \in HeightPCs /\ val'.pc \in HeightPCs,
         val'.pc = "delete" => val'.removed \cap val.observed[val.at] = {}
  PROVE  ValInv'
  <1>1. WindowOK' /\ CutOK' /\ RemovedOK'
    BY DEF ValInv, WindowOK, CutOK, RemovedOK, SameHeight, PagePCs, HeightPCs
  <1>2. ASSUME NEW h \in Heights PROVE Known(h)' => Known(h)
    BY DEF Known, SameHeight, PagePCs, HeightPCs
  <1>3. ASSUME NEW h \in Heights PROVE Below(h)' => Below(h)
    BY DEF Below, SameHeight
  <1>4. ObservedOK'
    BY <1>2, <1>3 DEF ValInv, ObservedOK, SameHeight
  <1> QED BY <1>1, <1>4 DEF ValInv

(* Behind its last page, full or cut short, a validation has observed what  *)
(* it needs at every height below the cut.                                  *)
LEMMA AfterPageInv ==
  ASSUME IInv, val.pc \in {"page"} \cup PagePCs, val' = AfterPage,
         UNCHANGED mined,
         \A t \in Txs : t \notin val.moved /\ mined[t] = val.at /\ Below(val.at)
                          => t \in val.observed[val.at]
  PROVE  val' \in ValType /\ ValInv'
  <1>1. val \in ValType /\ ValInv /\ val.start <= val.at /\ val.at <= val.end
    BY Parts DEF ValInv, WindowOK
  <1> val.start \in Int /\ val.at \in Int /\ val.end \in Int /\ val.cut \in Int
    BY <1>1, HeightsInt DEF ValType
  <1>2. CASE val.at = val.end \/ val.cut # 0
    <2>1. /\ val' \in ValType /\ val'.pc = "find" /\ val'.at = val.start
          /\ val'.start = val.start /\ val'.end = val.end
          /\ val'.cut = val.cut /\ val'.observed = val.observed
          /\ val'.moved = val.moved
      BY <1>1, <1>2 DEF AfterPage, ValType, ValPCs, HeightPCs
    <2>2. WindowOK' /\ CutOK' /\ RemovedOK'
      BY <1>1, <2>1 DEF WindowOK, CutOK, RemovedOK, PagePCs
    <2>3. ObservedOK'
      <3> SUFFICES ASSUME NEW t \in Txs, t \notin val'.moved,
                          mined'[t] \in Heights, Known(mined[t])',
                          Below(mined[t])'
                   PROVE  t \in val'.observed[mined'[t]]
        BY DEF ObservedOK
      <3> mined[t] \in Heights /\ mined[t] \in Int
        BY HeightsInt
      <3>1. val.start <= mined[t] /\ mined[t] <= val.end /\ Below(mined[t])
        BY <2>1 DEF Known, Below, PagePCs
      <3>2. mined[t] <= val.at
        BY <1>1, <1>2, <3>1 DEF Below, ValInv, CutOK
      <3>3. CASE mined[t] = val.at
        BY <2>1, <3>1, <3>3
      <3>4. CASE mined[t] < val.at
        <4>1. Known(mined[t])
          BY <3>1, <3>4 DEF Known
        <4> QED BY <2>1, <3>1, <4>1, <1>1 DEF ValInv, ObservedOK
      <3> QED BY <3>2, <3>3, <3>4
    <2> QED BY <2>1, <2>2, <2>3 DEF ValInv
  <1>3. CASE val.at # val.end /\ val.cut = 0
    <2>1. val.at + 1 \in Heights /\ val.at + 1 <= val.end
      BY <1>1, <1>3, HeightFacts DEF ValType
    <2>2. /\ val' \in ValType /\ val'.pc = "page" /\ val'.at = val.at + 1
          /\ val'.start = val.start /\ val'.end = val.end
          /\ val'.cut = val.cut /\ val'.observed = val.observed
          /\ val'.moved = val.moved
      <3>1. val' = [val EXCEPT !.pc = "page", !.at = val.at + 1, !.batch = {}]
        BY <1>3 DEF AfterPage
      <3> QED BY <1>1, <2>1, <3>1 DEF ValType, ValPCs
    <2>3. WindowOK' /\ CutOK' /\ RemovedOK'
      BY <1>1, <1>3, <2>1, <2>2 DEF WindowOK, CutOK, RemovedOK, PagePCs
    <2>4. ObservedOK'
      <3> SUFFICES ASSUME NEW t \in Txs, t \notin val'.moved,
                          mined'[t] \in Heights, Known(mined[t])',
                          Below(mined[t])'
                   PROVE  t \in val'.observed[mined'[t]]
        BY DEF ObservedOK
      <3> mined[t] \in Heights /\ mined[t] \in Int
        BY HeightsInt
      <3>1. val.start <= mined[t] /\ mined[t] <= val.at /\ Below(mined[t])
        BY <2>2 DEF Known, Below, PagePCs, HeightPCs
      <3>2. CASE mined[t] = val.at
        BY <2>2, <3>1, <3>2
      <3>3. CASE mined[t] < val.at
        <4>1. Known(mined[t])
          BY <3>1, <3>3 DEF Known
        <4> QED BY <2>2, <3>1, <4>1, <1>1 DEF ValInv, ObservedOK
      <3> QED BY <3>1, <3>2, <3>3
    <2> QED BY <2>2, <2>3, <2>4 DEF ValInv
  <1> QED BY <1>2, <1>3

(* A page is observed, or the part of it that comes before an early end. *)
LEMMA ValFetchInv == ASSUME IInv, ValFetch PROVE IInv'
  <1>1. val \in ValType /\ RestOK /\ ValInv /\ val.pc = "page" /\ val.cut = 0
    BY Parts DEF ValFetch, ValInv, CutOK
  <1>2. UNCHANGED <<up, mined>>
    BY DEF ValFetch, chain
  <1>3. RestOK'
    BY <1>1, BudgetFacts DEF RestOK, ValFetch, chain
  <1>4. PICK got \in SUBSET OnChainAt(val.at) :
          \/ /\ got = OnChainAt(val.at) /\ got = {}
             /\ val' = AfterPage
          \/ /\ got = OnChainAt(val.at)
             /\ val' = [val EXCEPT !.pc = "upsert", !.observed[val.at] = got]
          \/ val' = [val EXCEPT !.pc = "upsert", !.cut = val.at,
                                !.observed[val.at] = got]
    BY DEF ValFetch
  <1>5. got \in SUBSET Txs
    BY DEF OnChainAt
  <1>6. CASE OnChainAt(val.at) = {} /\ val' = AfterPage
    <2>1. \A t \in Txs : mined[t] # val.at
      BY <1>6 DEF OnChainAt
    <2>2. val' \in ValType /\ ValInv'
      BY <1>1, <1>2, <1>6, <2>1, AfterPageInv
    <2> QED BY <1>2, <1>3, <2>2, Parts, Assembled
  <1>7. CASE \/ /\ got = OnChainAt(val.at)
                /\ val' = [val EXCEPT !.pc = "upsert", !.observed[val.at] = got]
             \/ val' = [val EXCEPT !.pc = "upsert", !.cut = val.at,
                                   !.observed[val.at] = got]
    <2>1. /\ val' \in ValType /\ val'.pc = "upsert" /\ val'.moved = val.moved
          /\ val'.start = val.start /\ val'.end = val.end /\ val'.at = val.at
          /\ val'.observed = [val.observed EXCEPT ![val.at] = got]
          /\ \/ val'.cut = 0 /\ got = OnChainAt(val.at)
             \/ val'.cut = val.at
      <3>1. "upsert" \in ValPCs /\ val.at \in 0..MaxTip
            /\ [val.observed EXCEPT ![val.at] = got] \in [Heights -> SUBSET Txs]
        BY <1>1, <1>5, HeightFacts DEF ValType, ValPCs, PagePCs
      <3>2. CASE /\ got = OnChainAt(val.at)
                 /\ val' = [val EXCEPT !.pc = "upsert", !.observed[val.at] = got]
        BY <3>1, <3>2, <1>1 DEF ValType
      <3>3. CASE val' = [val EXCEPT !.pc = "upsert", !.cut = val.at,
                                    !.observed[val.at] = got]
        BY <3>1, <3>3, <1>1 DEF ValType
      <3> QED BY <1>7, <3>2, <3>3
    <2> val.start \in Int /\ val.at \in Int /\ val.end \in Int
      BY <1>1, HeightsInt DEF ValType
    <2>2. WindowOK' /\ CutOK' /\ RemovedOK'
      BY <1>1, <2>1 DEF ValInv, WindowOK, CutOK, RemovedOK, PagePCs
    <2>3. ObservedOK'
      <3> SUFFICES ASSUME NEW t \in Txs, t \notin val'.moved,
                          mined'[t] \in Heights, Known(mined[t])',
                          Below(mined[t])'
                   PROVE  t \in val'.observed[mined'[t]]
        BY DEF ObservedOK
      <3> mined[t] \in Heights /\ mined[t] \in Int /\ val.at \in Heights
        BY <1>1, <1>2, HeightsInt DEF ValType
      <3>1. val.start <= mined[t] /\ mined[t] <= val.at
        BY <1>2, <2>1 DEF Known, PagePCs, HeightPCs
      <3>2. CASE mined[t] = val.at
        <4>1. val'.cut # val.at
          BY <1>2, <2>1, <3>2, HeightsInt, BoundAssumption DEF Below, Heights
        <4>2. got = OnChainAt(val.at) /\ t \in OnChainAt(val.at)
          BY <2>1, <3>2, <4>1 DEF OnChainAt
        <4> QED BY <1>1, <1>2, <2>1, <3>2, <4>2 DEF ValType
      <3>3. CASE mined[t] < val.at
        <4>1. Known(mined[t]) /\ Below(mined[t])
          BY <1>1, <3>1, <3>3 DEF Known, Below
        <4>2. t \in val.observed[mined[t]]
          BY <1>1, <2>1, <4>1 DEF ValInv, ObservedOK
        <4> QED BY <1>1, <1>2, <2>1, <3>3, <4>2 DEF ValType
      <3> QED BY <3>1, <3>2, <3>3
    <2> QED BY <1>2, <1>3, <2>1, <2>2, <2>3, Parts, Assembled DEF ValInv
  <1> QED BY <1>4, <1>6, <1>7

(* Writes of a batch keep the table's type. *)
LEMMA PutAtType ==
  ASSUME RestOK, NEW S, NEW h \in Heights, PutAt(S, h)
  PROVE  stored' \in [Txs -> 0..MaxTip]
  BY HeightFacts DEF RestOK, PutAt

LEMMA ValUpsertInv == ASSUME IInv, ValUpsert PROVE IInv'
  <1>1. val \in ValType /\ RestOK /\ ValInv /\ val.pc = "upsert"
    BY Parts DEF ValUpsert
  <1>2. RestOK' /\ UNCHANGED <<up, mined>>
    BY <1>1, PutAtType DEF RestOK, ValUpsert, chain, ValType
  <1>3. val' \in ValType /\ SameHeight /\ val'.pc = "pageDecode"
    BY <1>1 DEF ValUpsert, ValType, ValPCs, PagePCs, SameHeight
  <1>4. ValInv'
    BY <1>1, <1>2, <1>3, SameHeightInv DEF PagePCs
  <1> QED BY <1>2, <1>3, <1>4, Parts, Assembled

(* The decoding ends where the rows begin, of a page or of a height. *)
LEMMA ToRowsInv ==
  ASSUME IInv, val.pc \in {"pageDecode", "decode"}, UNCHANGED mined,
         val' = [val EXCEPT !.pc = RowsPC]
  PROVE  val' \in ValType /\ ValInv'
  <1>1. val \in ValType /\ ValInv
    BY Parts
  <1>2. \/ val.pc = "pageDecode" /\ RowsPC = "pageRows"
        \/ val.pc = "decode" /\ RowsPC = "rows"
    BY DEF RowsPC
  <1>3. val' \in ValType /\ SameHeight /\ val'.pc = RowsPC
    BY <1>1, <1>2 DEF ValType, ValPCs, PagePCs, HeightPCs, SameHeight
  <1> QED BY <1>1, <1>2, <1>3, SameHeightInv DEF PagePCs, HeightPCs

LEMMA ValDecodeInv == ASSUME IInv, ValDecode PROVE IInv'
  <1>1. val \in ValType /\ RestOK
    BY Parts
  <1>2. RestOK' /\ UNCHANGED <<up, mined>>
    BY <1>1, PutAtType DEF RestOK, ValDecode, chain, ValType
  <1> QED BY <1>2, ToRowsInv, Parts, Assembled DEF ValDecode

(* Going on to the next height, or ending, keeps what is known above it. *)
LEMMA NextHeightInv ==
  ASSUME IInv, val.pc \in HeightPCs, val' = NextHeight, UNCHANGED mined
  PROVE  val' \in ValType /\ ValInv'
  <1>1. val \in ValType /\ ValInv /\ val.start <= val.at /\ val.at <= val.end
    BY Parts DEF ValInv, WindowOK
  <1>2. CASE val.at = val.end
    BY <1>2, IdleValFacts, QuietVal DEF NextHeight
  <1>3. CASE val.at # val.end
    <2>1. val.at + 1 \in Heights /\ val.at + 1 <= val.end
      BY <1>1, <1>3, HeightFacts DEF ValType
    <2>2. /\ val' \in ValType /\ val'.pc = "find" /\ val'.moved = val.moved
          /\ val'.end = val.end /\ val'.at = val.at + 1
          /\ val'.start = val.start /\ val'.cut = val.cut
          /\ val'.observed = [val.observed EXCEPT ![val.at] = {}]
      BY <1>1, <1>3, <2>1 DEF NextHeight, ValType, ValPCs, HeightPCs
    <2> val.start \in Int /\ val.at \in Int /\ val.end \in Int
      BY <1>1, HeightsInt DEF ValType
    <2>3. WindowOK' /\ CutOK' /\ RemovedOK'
      BY <1>1, <2>1, <2>2 DEF WindowOK, CutOK, RemovedOK, PagePCs
    <2>4. ObservedOK'
      <3> SUFFICES ASSUME NEW t \in Txs, t \notin val'.moved,
                          mined'[t] \in Heights, Known(mined[t])',
                          Below(mined[t])'
                   PROVE  t \in val'.observed[mined'[t]]
        BY DEF ObservedOK
      <3> mined[t] \in Heights /\ mined[t] \in Int
        BY HeightsInt
      <3>1. val.at < mined[t] /\ mined[t] <= val.end /\ Below(mined[t])
        BY <2>2 DEF Known, Below, PagePCs
      <3>2. Known(mined[t])
        BY <3>1 DEF Known
      <3>3. t \in val.observed[mined[t]]
        BY <3>1, <3>2, <2>2, <1>1 DEF ValInv, ObservedOK
      <3> QED BY <3>1, <3>3, <2>2, <1>1 DEF ValType
    <2> QED BY <2>2, <2>3, <2>4 DEF ValInv
  <1> QED BY <1>2, <1>3

(* The plugin's part ends where the next page or the next height begins. *)
LEMMA AfterPluginInv ==
  ASSUME IInv, val.pc \in PagePCs \cup HeightPCs, val' = AfterPlugin,
         UNCHANGED mined
  PROVE  val' \in ValType /\ ValInv'
  <1>1. CASE val.pc \in PagePCs
    <2>1. val' = AfterPage
      BY <1>1 DEF AfterPlugin
    <2>2. val \in ValType /\ ValInv /\ val.start <= val.at
      BY <1>1, Parts DEF ValInv, WindowOK
    <2>3. val.at \in Heights /\ Known(val.at)
      BY <1>1, <2>2, HeightsInt DEF Known, ValType
    <2>4. \A t \in Txs : t \notin val.moved /\ mined[t] = val.at /\ Below(val.at)
                           => t \in val.observed[val.at]
      BY <2>2, <2>3 DEF ValInv, ObservedOK
    <2> QED BY <1>1, <2>1, <2>4, AfterPageInv
  <1>2. CASE val.pc \notin PagePCs
    BY <1>2, NextHeightInv DEF AfterPlugin
  <1> QED BY <1>1, <1>2

LEMMA ValRowsInv == ASSUME IInv, ValRows PROVE IInv'
  <1>1. val \in ValType /\ RestOK
    BY Parts
  <1>2. RestOK' /\ UNCHANGED <<up, mined>>
    BY <1>1 DEF RestOK, ValRows, chain, ValType
  <1>3. val.pc \in PagePCs \cup HeightPCs /\ val' = AfterPlugin
    BY DEF ValRows, PagePCs, HeightPCs
  <1> QED BY <1>2, <1>3, AfterPluginInv, Parts, Assembled

LEMMA AfterCleanUpInv ==
  ASSUME IInv, val.pc \in HeightPCs, val' = AfterCleanUp, UNCHANGED mined
  PROVE  val' \in ValType /\ ValInv'
  <1>1. CASE val.observed[val.at] = {}
    BY <1>1, NextHeightInv DEF AfterCleanUp
  <1>2. CASE val.observed[val.at] # {}
    <2>1. val \in ValType /\ ValInv
      BY Parts
    <2>2. val' \in ValType /\ SameHeight /\ val'.pc = "refetch"
      BY <1>2, <2>1 DEF AfterCleanUp, ValType, ValPCs, HeightPCs, SameHeight
    <2> QED BY <2>1, <2>2, SameHeightInv DEF HeightPCs
  <1> QED BY <1>1, <1>2

LEMMA ValFindInv == ASSUME IInv, ValFind PROVE IInv'
  <1>1. RestOK' /\ UNCHANGED <<up, mined>> /\ val.pc \in HeightPCs
        /\ val \in ValType /\ ValInv
    BY Parts DEF RestOK, ValFind, chain, HeightPCs
  <1>2. CASE Stale(val.at) = {}
    BY <1>1, <1>2, AfterCleanUpInv, Parts, Assembled DEF ValFind
  <1>3. CASE Stale(val.at) # {}
    <2>1. /\ Stale(val.at) \in SUBSET Txs
          /\ Stale(val.at) \cap val.observed[val.at] = {}
      BY DEF Stale
    <2>2. /\ val' \in ValType /\ SameHeight /\ val'.pc = "delete"
          /\ val'.removed = Stale(val.at)
      BY <1>1, <1>3, <2>1 DEF ValFind, ValType, ValPCs, HeightPCs, SameHeight
    <2>3. ValInv'
      BY <1>1, <2>1, <2>2, SameHeightInv DEF HeightPCs
    <2> QED BY <1>1, <2>2, <2>3, Parts, Assembled
  <1> QED BY <1>2, <1>3

LEMMA ValDeleteInv == ASSUME IInv, ValDelete PROVE IInv'
  <1>1. val \in ValType /\ RestOK /\ ValInv /\ val.pc = "delete"
    BY Parts DEF ValDelete
  <1>2. UNCHANGED <<up, mined>>
    BY DEF ValDelete, chain
  <1>3. RestOK'
    <2>1. stored' \in [Txs -> 0..MaxTip]
      BY <1>1, BoundAssumption DEF RestOK, ValDelete
    <2> QED BY <2>1, <1>1 DEF RestOK, ValDelete, chain
  <1>4. val' \in ValType /\ SameHeight /\ val'.pc = "notify"
    BY <1>1 DEF ValDelete, ValType, ValPCs, HeightPCs, SameHeight
  <1>5. ValInv'
    BY <1>1, <1>2, <1>4, SameHeightInv DEF HeightPCs
  <1> QED BY <1>2, <1>3, <1>4, <1>5, Parts, Assembled

LEMMA ValNotifyInv == ASSUME IInv, ValNotify PROVE IInv'
  <1>1. RestOK' /\ UNCHANGED <<up, mined>> /\ val.pc \in HeightPCs
    BY Parts DEF RestOK, ValNotify, chain, HeightPCs
  <1> QED BY <1>1, AfterCleanUpInv, Parts, Assembled DEF ValNotify

LEMMA ValRefetchInv == ASSUME IInv, ValRefetch PROVE IInv'
  <1> DEFINE found == {t \in val.observed[val.at] : stored[t] = val.at}
  <1>1. val \in ValType /\ RestOK /\ ValInv /\ val.pc \in HeightPCs
    BY Parts DEF ValRefetch, HeightPCs
  <1>2. RestOK' /\ UNCHANGED <<up, mined>>
    BY <1>1 DEF RestOK, ValRefetch, chain
  <1>3. CASE found = {}
    BY <1>1, <1>2, <1>3, NextHeightInv, Parts, Assembled DEF ValRefetch
  <1>4. CASE found # {}
    <2>1. val' = [val EXCEPT !.pc = "decode", !.batch = found]
      BY <1>4 DEF ValRefetch
    <2>2. found \in SUBSET Txs
      BY <1>1 DEF ValType
    <2> HIDE DEF found
    <2>3. val' \in ValType /\ SameHeight /\ val'.pc = "decode"
      BY <1>1, <2>1, <2>2 DEF ValType, ValPCs, HeightPCs, SameHeight
    <2>4. ValInv'
      BY <1>1, <1>2, <2>3, SameHeightInv DEF HeightPCs
    <2> QED BY <1>2, <2>3, <2>4, Parts, Assembled
  <1> QED BY <1>3, <1>4

LEMMA ValFailInv == ASSUME IInv, ValFail PROVE IInv'
  <1>1. val \in ValType /\ RestOK
    BY Parts
  <1>2. RestOK' /\ UNCHANGED <<up, mined>>
    BY <1>1, BudgetFacts DEF RestOK, ValFail, chain
  <1>3. CASE val' = IdleVal
    BY <1>2, <1>3, IdleValFacts, QuietVal, Parts, Assembled
  <1>4. CASE val.pc = "notify" /\ val' = AfterCleanUp
    BY <1>2, <1>4, AfterCleanUpInv, Parts, Assembled DEF HeightPCs
  <1>5. CASE val.pc \in {"find", "delete", "refetch"} /\ val' = NextHeight
    BY <1>2, <1>5, NextHeightInv, Parts, Assembled DEF HeightPCs
  <1>6. CASE /\ val.pc \in {"pageDecode", "decode"}
             /\ val' = [val EXCEPT !.pc = RowsPC]
    BY <1>2, <1>6, ToRowsInv, Parts, Assembled
  <1>7. CASE /\ val.pc \in {"pageDecode", "decode", "pageRows", "rows"}
             /\ val' = AfterPlugin
    BY <1>2, <1>7, AfterPluginInv, Parts, Assembled DEF PagePCs, HeightPCs
  <1> QED BY <1>3, <1>4, <1>5, <1>6, <1>7 DEF ValFail

LEMMA StutterInv == ASSUME IInv, UNCHANGED vars PROVE IInv'
  <1>1. RestOK' /\ UNCHANGED <<up, mined, val>>
    BY Parts DEF RestOK, vars, chain
  <1> QED BY <1>1, ValStable, Parts, Assembled

LEMMA NextInv == ASSUME IInv, [Next]_vars PROVE IInv'
  BY MineTxInv, ReorgInv, MineKeyBlockInv, LiveReceiveInv, LiveStepInv,
     ValBeginInv, BootInv, CrashInv, ValTipInv, ValFetchInv, ValUpsertInv,
     ValDecodeInv, ValRowsInv, ValFindInv, ValDeleteInv, ValNotifyInv, ValRefetchInv, ValFailInv,
     StutterInv
  DEF Next, LiveStep, ValStep

-----------------------------------------------------------------------------
(* Whatever the live handlers write and wherever a validation fails, what   *)
(* it has observed stays true of the transactions that have not moved.      *)
THEOREM Invariance == Spec => []IInv
  <1>1. Init => IInv
    BY InitInv
  <1>2. IInv /\ [Next]_vars => IInv'
    BY NextInv
  <1> QED BY <1>1, <1>2, PTL DEF Spec

(* No validation reaches below the first height or above the chain.         *)
THEOREM TypeCorrect == Spec => []TypeOK
  <1>1. IInv => TypeOK
    BY DEF IInv
  <1> QED BY <1>1, Invariance, PTL

(* One step deletes nothing that is stored where the chain has it, has not  *)
(* moved since the validation began and is below an early end.              *)
LEMMA StepKeepsSettled ==
  ASSUME IInv, [Next]_vars, NEW t \in Txs,
         mined[t] # 0, stored[t] = mined[t], t \notin val.moved,
         Below(mined[t])
  PROVE  stored'[t] # 0
  <1>1. RestOK /\ val \in ValType /\ ValInv
    BY Parts
  <1>2. mined[t] \in Heights
    BY <1>1 DEF RestOK, Heights
  <1>3. CASE ValDelete
    <2>1. CASE t \in Deleted
      <3>1. mined[t] = val.at /\ Known(mined[t])
        BY <2>1, <1>1, <1>3, HeightsInt
        DEF Deleted, Known, ValDelete, ValInv, WindowOK, HeightPCs, ValType
      <3>2. t \in val.observed[val.at]
        BY <3>1, <1>1, <1>2 DEF ValInv, ObservedOK
      <3> QED BY <2>1, <3>2, <1>1, <1>3 DEF Deleted, ValDelete, ValInv, RemovedOK
    <2>2. CASE t \notin Deleted
      BY <2>2, <1>3 DEF ValDelete
    <2> QED BY <2>1, <2>2
  <1>4. CASE ValUpsert \/ ValDecode
    <2>1. val.at # 0
      BY <1>1, BoundAssumption DEF ValType, Heights
    <2> QED BY <1>4, <2>1 DEF ValUpsert, ValDecode, PutAt
  <1>5. ASSUME NEW k \in live, LiveSave(k) \/ LiveDecode(k)
        PROVE  stored'[t] # 0
    <2>1. k.tx \in Txs /\ k.h \in Heights /\ stored' = [stored EXCEPT ![k.tx] = k.h]
      BY <1>1, <1>5 DEF RestOK, LiveSave, LiveDecode
    <2> QED BY <2>1, <1>1, BoundAssumption DEF RestOK, Heights
  <1>6. CASE stored' = stored
    BY <1>6
  <1> QED
    BY <1>3, <1>4, <1>5, <1>6
    DEF Next, LiveStep, ValStep, MineKeyBlock, Boot, Crash, ValFail, MineTx,
        Reorg, LiveFail, LiveReceive, LiveRow, ValBegin, ValTip, ValFetch,
        ValRows, ValFind, ValNotify, ValRefetch, vars

(* Validation spares what is settled below the height at which its refetch  *)
(* ended early, for every chain and every number of transactions, whatever  *)
(* is written between its find and its delete.                              *)
THEOREM SettledIsKept == Spec => SettledKept
  <1>1. IInv /\ [Next]_vars
          => [\A t \in Txs :
                mined[t] # 0 /\ stored[t] = mined[t] /\ t \notin val.moved
                  /\ (val.cut = 0 \/ mined[t] < val.cut)
                => stored'[t] # 0]_vars
    BY StepKeepsSettled DEF Below
  <1>2. Spec => [][Next]_vars
    BY DEF Spec
  <1> QED BY <1>1, <1>2, Invariance, PTL DEF SettledKept

-----------------------------------------------------------------------------
(* PluginDispatch                                                           *)

(* A batch with locals r still has t to process or to park. *)
Holds(r, t) ==
  \/ r.pc = "state" /\ t \in r.txs
  \/ r.pc = "process" /\ t \in r.todo \cup r.failed
  \/ r.pc = "record" /\ t \in r.failed

Answered(t) ==
  applied[t] # 0 \/ parked[t] # 0 \/ t \in ignored \cup cut \cup retried

Accounted ==
  \A t \in PluginTxs :
    age[t] # "new" => Answered(t) \/ \E b \in Batches : Holds(batch[b], t)

(* What holds of the locals of a batch besides their type.                  *)
LocalsOK(r) ==
  /\ r.todo \subseteq r.txs
  /\ r.failed \subseteq r.txs
  /\ r.pc = "idle" => r.txs = {}
  /\ r.pc = "state" => r.todo = r.txs
  /\ r.pc \notin {"idle", "state"} => r.ver # 0

DispatchIInv ==
  /\ DispatchTypeOK
  /\ \A b \in Batches : LocalsOK(batch[b])
  /\ Accounted

-----------------------------------------------------------------------------
(* The numbers and tables of DispatchTypeOK.                                *)
TablesOK ==
  /\ stateVersion \in Versions
  /\ parked \in [PluginTxs -> Versions]
  /\ applied \in [PluginTxs -> Versions]
  /\ version \in Versions \ {0}
  /\ cache \in Versions \cup {Uncached}
  /\ retry \in RetryType
  /\ age \in [PluginTxs -> {"new", "recent", "old"}]
  /\ ignored \subseteq PluginTxs /\ cut \subseteq PluginTxs /\ retried \subseteq PluginTxs
  /\ failures \in 0..MaxFailures

FlagsOK == started \in BOOLEAN /\ initialised \in BOOLEAN

LEMMA DispatchParts ==
  DispatchIInv => /\ TablesOK /\ FlagsOK /\ batch \in [Batches -> BatchType]
                  /\ \A b \in Batches : LocalsOK(batch[b])
                  /\ Accounted
  BY Zenon DEF DispatchIInv, DispatchTypeOK, TablesOK, FlagsOK

LEMMA DispatchAssembled ==
  ASSUME TablesOK', FlagsOK', (batch \in [Batches -> BatchType])',
         \A b \in Batches : LocalsOK(batch'[b]), Accounted'
  PROVE  DispatchIInv'
  BY Zenon DEF DispatchIInv, DispatchTypeOK, TablesOK, FlagsOK

LEMMA IdleFacts ==
  /\ IdleBatch \in BatchType /\ LocalsOK(IdleBatch)
  /\ \A t \in PluginTxs : ~Holds(IdleBatch, t)
  /\ IdleRetry \in RetryType
  BY VersionAssumption
  DEF IdleBatch, BatchType, LocalsOK, Holds, IdleRetry, RetryType, Versions

(* A step that touches neither the batches nor a transaction's answer.      *)
LEMMA Elsewhere ==
  ASSUME DispatchIInv, TablesOK', FlagsOK', batch' = batch,
         \A t \in PluginTxs : age'[t] # "new" => age[t] # "new",
         \A t \in PluginTxs : Answered(t) => Answered(t)'
  PROVE  DispatchIInv'
  BY DispatchParts, DispatchAssembled, Zenon DEF Accounted

(* A step of batch b: it lets go of nothing that is not answered for.       *)
LEMMA BatchMoves ==
  ASSUME DispatchIInv, TablesOK', FlagsOK', NEW b \in Batches, NEW r \in BatchType,
         LocalsOK(r), batch' = [batch EXCEPT ![b] = r], age' = age,
         \A t \in PluginTxs : Answered(t) => Answered(t)',
         \A t \in PluginTxs : Holds(batch[b], t) => Holds(r, t) \/ Answered(t)'
  PROVE  DispatchIInv'
  <1>1. /\ batch \in [Batches -> BatchType] /\ Accounted
        /\ \A c \in Batches : LocalsOK(batch[c])
    BY DispatchParts
  <1>2. batch' \in [Batches -> BatchType]
    BY <1>1
  <1>3. batch'[b] = r /\ \A c \in Batches \ {b} : batch'[c] = batch[c]
    BY <1>1
  <1>4. \A c \in Batches : LocalsOK(batch'[c])
    BY <1>1, <1>3, Zenon
  <1>5. Accounted'
    BY <1>1, <1>3, Zenon DEF Accounted
  <1> QED BY <1>2, <1>4, <1>5, DispatchAssembled

LEMMA DispatchInitInv == DispatchInit => DispatchIInv
  <1> SUFFICES ASSUME DispatchInit PROVE DispatchIInv
    OBVIOUS
  <1>1. started \in BOOLEAN /\ initialised \in BOOLEAN
    BY Zenon DEF DispatchInit
  <1>2. TablesOK
    BY VersionAssumption, FailureAssumption, IdleFacts
    DEF DispatchInit, TablesOK, Versions, Uncached
  <1>3. /\ batch \in [Batches -> BatchType]
        /\ \A b \in Batches : LocalsOK(batch[b])
    BY IdleFacts DEF DispatchInit
  <1>4. Accounted
    BY DEF DispatchInit, Accounted
  <1>5. DispatchTypeOK
    BY Zenon, <1>1, <1>2, <1>3 DEF TablesOK, DispatchTypeOK
  <1> QED BY <1>3, <1>4, <1>5 DEF DispatchIInv

-----------------------------------------------------------------------------
(* The inductive step: start-up, retries, and the passing of time.          *)
LEMMA QuietInv ==
  ASSUME DispatchIInv, \/ InitialisePluginSyncStates \/ StartUp
                       \/ \E t \in PluginTxs : Age(t)
                       \/ UNCHANGED dispatchVars
  PROVE  DispatchIInv'
  <1>1. TablesOK'
    BY DispatchParts DEF TablesOK, InitialisePluginSyncStates, StartUp, Age, dispatchVars, row,
                 process, history, Versions
  <1>2. FlagsOK'
    BY DispatchParts, Zenon
    DEF FlagsOK, InitialisePluginSyncStates, StartUp, Age, dispatchVars, process
  <1>3. batch' = batch /\ \A t \in PluginTxs : Answered(t) => Answered(t)'
    BY DEF InitialisePluginSyncStates, StartUp, Age, dispatchVars, row, process, history,
           Answered
  <1>4. \A t \in PluginTxs : age'[t] # "new" => age[t] # "new"
    BY DispatchParts DEF TablesOK, InitialisePluginSyncStates, StartUp, Age, dispatchVars, history
  <1> QED BY <1>1, <1>2, <1>3, <1>4, Elsewhere

LEMMA RetryInv == ASSUME DispatchIInv, RetryStep PROVE DispatchIInv'
  <1>1. UNCHANGED <<batch, age, started, initialised>>
    BY DEF RetryStep, RetryDone, DeleteRetried, RetryOne, RetryOneFails,
           RetryFailedTransactions, process, history
  <1>2. TablesOK'
    <2>1. CASE RetryDone
      BY <2>1, DispatchParts DEF RetryDone, TablesOK, RetryType, row, process, history
    <2>2. CASE DeleteRetried
      <3>1. parked' \in [PluginTxs -> Versions]
        BY <2>2, DispatchParts, VersionAssumption DEF DeleteRetried, TablesOK, Versions
      <3>2. retry.txs \subseteq PluginTxs
        BY DispatchParts DEF TablesOK, RetryType
      <3> QED
        BY <3>1, <3>2, <2>2, DispatchParts, IdleFacts
        DEF DeleteRetried, TablesOK, row, process
    <2>3. ASSUME NEW t \in PluginTxs, RetryOne(t) \/ RetryOneFails(t)
          PROVE  TablesOK'
      BY <2>3, DispatchParts, FailureAssumption
      DEF RetryOne, RetryOneFails, TablesOK, RetryType, Failure, row, process,
          history
    <2>4. ASSUME NEW S \in Retryable, RetryFailedTransactions(S)
          PROVE  TablesOK'
      <3>1. S \subseteq PluginTxs
        BY DEF Retryable
      <3> QED
        BY <3>1, <2>4, DispatchParts
        DEF RetryFailedTransactions, TablesOK, RetryType, row, process, history
    <2> QED BY <2>1, <2>2, <2>3, <2>4 DEF RetryStep
  <1>3. FlagsOK'
    BY <1>1, DispatchParts, Zenon DEF FlagsOK
  <1>4. \A t \in PluginTxs : Answered(t) => Answered(t)'
    <2>1. CASE DeleteRetried
      BY <2>1, DispatchParts
      DEF DeleteRetried, Answered, TablesOK, RetryType
    <2>2. ASSUME NEW t \in PluginTxs, RetryOne(t)
          PROVE  \A u \in PluginTxs : Answered(u) => Answered(u)'
      BY <2>2, DispatchParts DEF RetryOne, Answered, TablesOK, history
    <2>3. ASSUME \/ RetryDone
                 \/ \E t \in PluginTxs : RetryOneFails(t)
                 \/ \E S \in Retryable : RetryFailedTransactions(S)
          PROVE  \A u \in PluginTxs : Answered(u) => Answered(u)'
      BY <2>3 DEF RetryDone, RetryOneFails, RetryFailedTransactions, Answered,
                  history
    <2> QED BY <2>1, <2>2, <2>3 DEF RetryStep
  <1> QED BY <1>1, <1>2, <1>3, <1>4, Elsewhere

(* A process that stops leaves what its batches held to the next validation. *)
LEMMA StopInv == ASSUME DispatchIInv, DispatchCrash \/ Deploy PROVE DispatchIInv'
  <1>1. Stop
    BY DEF DispatchCrash, Deploy
  <1>2. version' \in Versions \ {0} /\ failures' \in 0..MaxFailures
    BY DispatchParts, VersionAssumption, FailureAssumption
    DEF TablesOK, DispatchCrash, Deploy, Failure, Versions
  <1>3. UNION {batch[b].txs : b \in Batches} \subseteq PluginTxs
    BY DispatchParts DEF BatchType
  <1>4. TablesOK'
    BY <1>1, <1>2, <1>3, DispatchParts, IdleFacts DEF Stop, TablesOK, row
  <1>5. FlagsOK'
    BY <1>1, Zenon DEF Stop, FlagsOK
  <1>6. /\ batch' \in [Batches -> BatchType]
        /\ \A b \in Batches : LocalsOK(batch'[b])
    BY <1>1, IdleFacts DEF Stop
  <1>7. \A t \in PluginTxs : Answered(t) => Answered(t)'
    BY <1>1 DEF Stop, Answered
  <1>8. ASSUME NEW t \in PluginTxs, NEW b \in Batches, Holds(batch[b], t)
        PROVE  t \in cut'
    <2>1. t \in batch[b].txs
      BY <1>8, DispatchParts DEF Holds, LocalsOK
    <2> QED BY <2>1, <1>1 DEF Stop
  <1>9. Accounted'
    BY <1>1, <1>7, <1>8, DispatchParts DEF Accounted, Answered, Stop
  <1> QED BY <1>4, <1>5, <1>6, <1>9, DispatchAssembled

-----------------------------------------------------------------------------
(* The inductive step: batches. *)
LEMMA DispatchInv ==
  ASSUME DispatchIInv, NEW b \in Batches, NEW S \in SUBSET PluginTxs, Dispatch(b, S)
  PROVE  DispatchIInv'
  <1> DEFINE r == StartedBatch(S)
  <1>1. r \in BatchType /\ LocalsOK(r) /\ \A t \in S : Holds(r, t)
    BY VersionAssumption
    DEF StartedBatch, BatchType, LocalsOK, Holds, Versions
  <1>2. batch' = [batch EXCEPT ![b] = r]
    BY DEF Dispatch
  <1> HIDE DEF r
  <1>3. TablesOK'
    BY DispatchParts DEF TablesOK, Dispatch, row, process
  <1>4. FlagsOK'
    BY DispatchParts, Zenon DEF FlagsOK, Dispatch, process
  <1>5. /\ batch' \in [Batches -> BatchType]
        /\ \A c \in Batches : LocalsOK(batch'[c])
    BY <1>1, <1>2, DispatchParts
  <1>6. \A t \in PluginTxs \ S : ~Holds(batch[b], t)
    BY DEF Dispatch, Holds
  <1>7. ASSUME NEW t \in PluginTxs, age'[t] # "new"
        PROVE  Answered(t)' \/ \E c \in Batches : Holds(batch'[c], t)
    <2>1. CASE t \in S
      BY <2>1, <1>1, <1>2, DispatchParts
    <2>2. CASE t \notin S
      <3>1. age[t] # "new" /\ (Answered(t) => Answered(t)')
        BY <2>2, <1>7 DEF Dispatch, Answered
      <3>2. ASSUME NEW c \in Batches, Holds(batch[c], t)
            PROVE  Holds(batch'[c], t)
        BY <3>2, <2>2, <1>2, <1>6, DispatchParts
      <3> QED BY <3>1, <3>2, DispatchParts DEF Accounted
    <2> QED BY <2>1, <2>2
  <1>8. Accounted'
    BY <1>7 DEF Accounted
  <1> QED BY <1>3, <1>4, <1>5, <1>8, DispatchAssembled

LEMMA SyncStateInv ==
  ASSUME DispatchIInv, NEW b \in Batches,
         GetCachedSyncState(b) \/ GetCachedSyncStateFails(b)
  PROVE  DispatchIInv'
  <1>1. batch[b] \in BatchType /\ LocalsOK(batch[b]) /\ batch[b].pc = "state"
        /\ SyncState \in Versions
    BY DispatchParts
    DEF TablesOK, SyncState, Uncached, GetCachedSyncState,
        GetCachedSyncStateFails
  <1>2. TablesOK'
    BY <1>1, DispatchParts, FailureAssumption
    DEF TablesOK, GetCachedSyncState, GetCachedSyncStateFails, Failure,
        BatchType, row, process
  <1>3. FlagsOK' /\ UNCHANGED age
    BY DispatchParts, Zenon
    DEF FlagsOK, GetCachedSyncState, GetCachedSyncStateFails, process
  <1>4. \A t \in PluginTxs : Answered(t) => Answered(t)'
    BY DEF GetCachedSyncState, GetCachedSyncStateFails, Answered
  <1>5. CASE batch' = [batch EXCEPT ![b] = IdleBatch]
    <2>1. \A t \in PluginTxs : Holds(batch[b], t) => Answered(t)'
      BY <1>1, <1>5, DispatchParts
      DEF Holds, Answered, GetCachedSyncState, GetCachedSyncStateFails,
          IdleBatch, BatchType
    <2> QED BY <1>2, <1>3, <1>4, <1>5, <2>1, IdleFacts, BatchMoves
  <1>6. CASE batch' # [batch EXCEPT ![b] = IdleBatch]
    <2> DEFINE r == [batch[b] EXCEPT !.pc = "process", !.ver = SyncState]
    <2>1. batch' = [batch EXCEPT ![b] = r] /\ SyncState # 0
      BY <1>6, DispatchParts DEF GetCachedSyncState, GetCachedSyncStateFails
    <2>2. r \in BatchType /\ LocalsOK(r) /\ r.pc = "process"
          /\ r.todo = batch[b].todo
      BY <1>1, <2>1 DEF BatchType, LocalsOK
    <2>3. \A t \in PluginTxs : Holds(batch[b], t) => Holds(r, t)
      BY <1>1, <2>2 DEF Holds, LocalsOK
    <2> HIDE DEF r
    <2> QED BY <1>2, <1>3, <1>4, <2>1, <2>2, <2>3, BatchMoves
  <1> QED BY <1>5, <1>6

LEMMA ProcessInv ==
  ASSUME DispatchIInv, NEW b \in Batches, NEW t \in PluginTxs,
         Process(b, t) \/ ProcessFails(b, t)
  PROVE  DispatchIInv'
  <1> DEFINE p == [batch[b] EXCEPT !.todo = batch[b].todo \ {t}]
             f == [batch[b] EXCEPT !.todo = batch[b].todo \ {t},
                                   !.failed = batch[b].failed \cup {t}]
  <1>1. batch[b] \in BatchType /\ LocalsOK(batch[b])
        /\ batch[b].pc = "process" /\ t \in batch[b].todo
        /\ version \in Versions \ {0}
    BY DispatchParts DEF Process, ProcessFails, TablesOK
  <1>2. TablesOK'
    BY <1>1, DispatchParts, FailureAssumption
    DEF TablesOK, Process, ProcessFails, Failure, row, process, history
  <1>3. FlagsOK' /\ UNCHANGED age
    BY DispatchParts, Zenon DEF FlagsOK, Process, ProcessFails, process, history
  <1>4. \A u \in PluginTxs : Answered(u) => Answered(u)'
    BY <1>1, DispatchParts DEF Process, ProcessFails, Answered, history, TablesOK
  <1>5. p \in BatchType /\ LocalsOK(p) /\ f \in BatchType /\ LocalsOK(f)
    BY <1>1 DEF BatchType, LocalsOK
  <1>6. CASE Process(b, t)
    <2>1. batch' = [batch EXCEPT ![b] = p] /\ applied'[t] # 0
      BY <1>6, <1>1, DispatchParts DEF Process, TablesOK
    <2>2. \A u \in PluginTxs : Holds(batch[b], u) => Holds(p, u) \/ Answered(u)'
      BY <1>1, <2>1 DEF Holds, Answered, BatchType
    <2> HIDE DEF p
    <2> QED BY <1>2, <1>3, <1>4, <1>5, <2>1, <2>2, BatchMoves
  <1>7. CASE ProcessFails(b, t)
    <2>1. batch' = [batch EXCEPT ![b] = f]
      BY <1>7, DispatchParts DEF ProcessFails
    <2>2. \A u \in PluginTxs : Holds(batch[b], u) => Holds(f, u)
      BY <1>1 DEF Holds, BatchType
    <2> HIDE DEF f
    <2> QED BY <1>2, <1>3, <1>4, <1>5, <2>1, <2>2, BatchMoves
  <1> QED BY <1>6, <1>7

LEMMA RecordInv ==
  ASSUME DispatchIInv, NEW b \in Batches, NEW t \in PluginTxs,
         RecordFailure(b, t) \/ RecordFailureFails(b, t)
  PROVE  DispatchIInv'
  <1> DEFINE r == [batch[b] EXCEPT !.failed = batch[b].failed \ {t}]
  <1>1. batch[b] \in BatchType /\ LocalsOK(batch[b])
        /\ batch[b].pc = "record" /\ batch[b].ver \in Versions \ {0}
    BY DispatchParts DEF RecordFailure, RecordFailureFails, BatchType, LocalsOK
  <1>2. TablesOK'
    BY <1>1, DispatchParts, FailureAssumption
    DEF TablesOK, RecordFailure, RecordFailureFails, Failure, row, process,
        history
  <1>3. FlagsOK' /\ UNCHANGED age
    BY DispatchParts, Zenon
    DEF FlagsOK, RecordFailure, RecordFailureFails, process, history
  <1>4. (\A u \in PluginTxs : Answered(u) => Answered(u)') /\ Answered(t)'
    BY <1>1, DispatchParts
    DEF RecordFailure, RecordFailureFails, Answered, history, TablesOK
  <1>5. r \in BatchType /\ LocalsOK(r)
    BY <1>1 DEF BatchType, LocalsOK
  <1>6. batch' = [batch EXCEPT ![b] = r]
    BY DispatchParts DEF RecordFailure, RecordFailureFails
  <1>7. \A u \in PluginTxs : Holds(batch[b], u) => Holds(r, u) \/ Answered(u)'
    BY <1>1, <1>4 DEF Holds, BatchType
  <1> HIDE DEF r
  <1> QED BY <1>2, <1>3, <1>4, <1>5, <1>6, <1>7, BatchMoves

(* The steps of a batch that only move it on. *)
LEMMA MoveInv ==
  ASSUME DispatchIInv, NEW b \in Batches,
         \/ Processed(b) \/ Recorded(b)
         \/ UpdateSyncState(b) \/ UpdateSyncStateFails(b)
  PROVE  DispatchIInv'
  <1> DEFINE p == [batch[b] EXCEPT !.pc = "record"]
             d == [batch[b] EXCEPT !.pc = "update"]
             f == [batch[b] EXCEPT !.pc = "record", !.failed = batch[b].txs,
                                   !.final = TRUE]
  <1>1. batch[b] \in BatchType /\ LocalsOK(batch[b])
    BY DispatchParts
  <1>2. TablesOK'
    BY DispatchParts, FailureAssumption
    DEF TablesOK, Processed, Recorded, UpdateSyncState, UpdateSyncStateFails,
        Failure, row, process, history
  <1>3. FlagsOK' /\ UNCHANGED age
    BY DispatchParts, Zenon
    DEF FlagsOK, Processed, Recorded, UpdateSyncState, UpdateSyncStateFails,
        process, history
  <1>4. \A u \in PluginTxs : Answered(u) => Answered(u)'
    BY DEF Processed, Recorded, UpdateSyncState, UpdateSyncStateFails,
           Answered, history
  <1>5. CASE Processed(b)
    <2>1. p \in BatchType /\ LocalsOK(p) /\ batch' = [batch EXCEPT ![b] = p]
      BY <1>1, <1>5, DispatchParts DEF Processed, BatchType, LocalsOK
    <2>2. \A u \in PluginTxs : Holds(batch[b], u) => Holds(p, u)
      BY <1>1, <1>5 DEF Processed, Holds, BatchType
    <2> HIDE DEF p
    <2> QED BY <1>2, <1>3, <1>4, <2>1, <2>2, BatchMoves
  <1>6. CASE (Recorded(b) /\ batch[b].final) \/ UpdateSyncState(b)
    <2>1. batch' = [batch EXCEPT ![b] = IdleBatch]
      BY <1>6 DEF Recorded, UpdateSyncState
    <2>2. \A u \in PluginTxs : ~Holds(batch[b], u)
      BY <1>6 DEF Recorded, UpdateSyncState, Holds
    <2> QED BY <1>2, <1>3, <1>4, <2>1, <2>2, IdleFacts, BatchMoves
  <1>7. CASE Recorded(b) /\ ~batch[b].final
    <2>1. d \in BatchType /\ LocalsOK(d) /\ batch' = [batch EXCEPT ![b] = d]
      BY <1>1, <1>7, DispatchParts DEF Recorded, BatchType, LocalsOK
    <2>2. \A u \in PluginTxs : ~Holds(batch[b], u)
      BY <1>7 DEF Recorded, Holds
    <2> HIDE DEF d
    <2> QED BY <1>2, <1>3, <1>4, <2>1, <2>2, BatchMoves
  <1>8. CASE UpdateSyncStateFails(b)
    <2>1. f \in BatchType /\ LocalsOK(f) /\ batch' = [batch EXCEPT ![b] = f]
      BY <1>1, <1>8, DispatchParts DEF UpdateSyncStateFails, BatchType, LocalsOK
    <2>2. \A u \in PluginTxs : ~Holds(batch[b], u)
      BY <1>8 DEF UpdateSyncStateFails, Holds
    <2> HIDE DEF f
    <2> QED BY <1>2, <1>3, <1>4, <2>1, <2>2, BatchMoves
  <1> QED BY <1>5, <1>6, <1>7, <1>8

LEMMA DispatchNextInv == ASSUME DispatchIInv, [DispatchNext]_dispatchVars PROVE DispatchIInv'
  <1>1. ASSUME NEW b \in Batches, NEW S \in SUBSET PluginTxs, Index(b, S) \/ Validate
        PROVE  DispatchIInv'
    BY <1>1, DispatchInv, ValidatorAssumption
    DEF Index, Validate, Refetched, Recent
  <1>2. ASSUME Validate PROVE DispatchIInv'
    BY <1>2, <1>1, ValidatorAssumption
  <1>3. ASSUME NEW b \in Batches, BatchStep(b) \/ BatchFault(b)
        PROVE  DispatchIInv'
    BY <1>3, SyncStateInv, ProcessInv, RecordInv, MoveInv
    DEF BatchStep, BatchFault
  <1> QED
    BY <1>1, <1>2, <1>3, QuietInv, RetryInv, StopInv DEF DispatchNext

-----------------------------------------------------------------------------
(* At every step something answers for every transaction that was handed    *)
(* over.                                                                    *)
THEOREM DispatchInvariance == DispatchSpec => []DispatchIInv
  <1>1. DispatchIInv /\ [DispatchNext]_dispatchVars => DispatchIInv'
    BY DispatchNextInv
  <1> QED BY <1>1, DispatchInitInv, PTL DEF DispatchSpec

(* Versions, records and the sets of the batches keep their types.          *)
THEOREM DispatchTypeCorrect == DispatchSpec => []DispatchTypeOK
  <1>1. DispatchIInv => DispatchTypeOK
    BY DEF DispatchIInv
  <1> QED BY <1>1, DispatchInvariance, PTL

(* The batch processor parks or completes all it is given, however many     *)
(* batches share a transaction and whatever fails, save what its own queries *)
(* or a crash cut short.                                                    *)
THEOREM NothingLostByBatches == DispatchSpec => []BatchesLoseNothing
  <1>1. DispatchIInv => BatchesLoseNothing
    <2> SUFFICES ASSUME DispatchIInv, NEW t \in PluginTxs, age[t] # "new", ~InFlight(t),
                        t \notin ignored \cup cut \cup retried
                 PROVE  applied[t] # 0 \/ parked[t] # 0
      BY DEF BatchesLoseNothing
    <2>1. ASSUME NEW b \in Batches PROVE ~Holds(batch[b], t)
      BY DispatchParts DEF Holds, LocalsOK, InFlight
    <2> QED BY <2>1, DispatchParts DEF Accounted, Answered
  <1> QED BY <1>1, DispatchInvariance, PTL
===============================================================================
