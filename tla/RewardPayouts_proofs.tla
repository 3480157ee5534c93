------------------------- MODULE RewardPayouts_proofs -------------------------
(***************************************************************************)
(* For all sets of requests, rewards and wallets and all bounds: types, one *)
(* spend per wallet, queues that move, and that the per-post and streak     *)
(* rewards behave as IdealPayouts says.                                     *)
(***************************************************************************)
EXTENDS RewardPayouts, SequenceTheorems, TLAPS

\* Where the spend of the claimed payout has not been counted, and where it has.
Before == {"queued", "spend", "failed"}
After == {"record", "judge", "unconfirmed"}
Acting(r, p) == job[r] = p /\ pc[r] \in Before \cup After

\* What a row says of its reward.
BookOK(p) ==
  /\ status[p] = "absent" => hash[p] = "null"
  /\ status[p] = "paid" => hash[p] = "real"
  /\ hash[p] = "null" => sent[p] = misjudged[p]
  /\ hash[p] = "claimed" => sent[p] \in {misjudged[p], misjudged[p] + 1}
  /\ hash[p] = "real" => sent[p] = misjudged[p] + 1

\* Who works on a reward has its claim, and nobody else does.
ActorOK(r, p) == Acting(r, p) =>
  /\ hash[p] = "claimed" /\ Unpaid(p)
  /\ pc[r] \in Before => sent[p] = misjudged[p]
  /\ pc[r] \in After => sent[p] = misjudged[p] + 1

BooksOK == \A p \in Rewards :
  /\ BookOK(p)
  /\ \A r \in Requests : ActorOK(r, p)
  /\ \A r, s \in Requests : Acting(r, p) /\ Acting(s, p) => r = s

\* Whoever has enqueued work and has not seen it end is in the queue of its wallet, once;
\* all but the head wait.
BusyPCs == {"queued", "spend", "record"}
Busy(r) == pc[r] \in BusyPCs
QueueOK == \A w \in Wallets :
  /\ \A i, k \in 1..Len(queue[w]) : queue[w][i] = queue[w][k] => i = k
  /\ \A i \in 1..Len(queue[w]) : /\ Busy(queue[w][i]) /\ WalletOf(job[queue[w][i]]) = w
                                 /\ i > 1 => pc[queue[w][i]] = "queued"
InQueue == \A r \in Requests : Busy(r) =>
             \E i \in 1..Len(queue[WalletOf(job[r])]) : queue[WalletOf(job[r])][i] = r

\* The row of the address is there from the start.
RowExists == status[Onboarding] # "absent"

IInv == TypeOK /\ RowExists /\ BooksOK /\ QueueOK /\ InQueue

\* A step of IdealPayouts, or none.
IdealStep == Ideal!Next \/ UNCHANGED Ideal!vars

-----------------------------------------------------------------------------
(* The payouts and their wallets *)

LEMMA WalletType ==
  ASSUME NEW p \in Payouts
  PROVE  WalletOf(p) \in Wallets
<1>1. CASE p \in PostRewards
  BY <1>1, WalletAssumption DEF WalletOf
<1>2. CASE p \in StreakRewards
  BY <1>2, WalletAssumption, RewardAssumption DEF WalletOf, Rewards
<1>3. CASE p = Onboarding
  BY <1>3, WalletAssumption, RewardAssumption DEF WalletOf, Rewards
<1> QED BY <1>1, <1>2, <1>3 DEF Payouts, Rewards

-----------------------------------------------------------------------------
\* The initial states satisfy the invariant and are initial states of IdealPayouts.
THEOREM InitInvariant == Init => IInv /\ Ideal!Init
<1> SUFFICES ASSUME Init PROVE IInv /\ Ideal!Init
  OBVIOUS
<1>1. /\ status \in [Payouts -> Statuses \cup {"absent"}]
      /\ hash \in [Payouts -> {"null", "claimed", "real"}]
      /\ due \in [Payouts -> BOOLEAN]
      /\ qualified \in BOOLEAN /\ slot \in BOOLEAN
  BY DEF Init, Statuses
<1>2. /\ pc \in [Requests -> PCs] /\ snap \in [Requests -> Entities]
      /\ prior \in [Requests -> BOOLEAN] /\ scanning \in [Requests -> BOOLEAN]
      /\ todo \in [Requests -> SUBSET Rewards] /\ job \in [Requests -> Payouts]
  BY DEF Init, PCs, Entities, NoEntity, Statuses, Payouts
<1>3. queue \in [Wallets -> Seq(Requests)] /\ \A w \in Wallets : Len(queue[w]) = 0
  BY DEF Init
<1>4. /\ sent \in [Payouts -> Nat] /\ misjudged \in [Payouts -> Nat]
      /\ loads \in 0..MaxLoads /\ faults \in 0..MaxFaults
  BY BoundAssumption DEF Init
<1>5. TypeOK
  BY <1>1, <1>2, <1>3, <1>4 DEF TypeOK
<1>6. BooksOK
  BY RewardAssumption DEF Init, BooksOK, BookOK, ActorOK, Acting, Before, After, Payouts
<1>7. QueueOK /\ InQueue
  BY <1>3 DEF Init, QueueOK, InQueue, Busy, BusyPCs
<1>9. RowExists
  BY DEF Init, RowExists, Payouts
<1>8. Ideal!Init
  BY RewardAssumption DEF Init, Ideal!Init, BookState, Payouts
<1> QED BY <1>5, <1>6, <1>7, <1>8, <1>9 DEF IInv

-----------------------------------------------------------------------------
(* The books *)

SameBook(p) == status'[p] = status[p] /\ hash'[p] = hash[p] /\ sent'[p] = sent[p] /\ misjudged'[p] = misjudged[p]

\* A step that leaves the rows of the rewards and their spends alone, whose requests
\* stay on their side of the spend or leave the reward.
LEMMA BooksQuiet ==
  ASSUME BooksOK, \A p \in Rewards : SameBook(p),
         \A t \in Requests : \/ pc'[t] \notin Before \cup After \/ job'[t] \notin Rewards
                             \/ job'[t] = job[t] /\ pc[t] \in Before /\ pc'[t] \in Before
                             \/ job'[t] = job[t] /\ pc[t] \in After /\ pc'[t] \in After
  PROVE  BooksOK' /\ IdealStep
<1>1. ASSUME NEW p \in Rewards PROVE BookOK(p)'
  BY DEF BooksOK, BookOK, SameBook
<1>2. ASSUME NEW p \in Rewards, NEW r \in Requests, Acting(r, p)'
      PROVE  Acting(r, p) /\ ActorOK(r, p)'
  BY <1>2 DEF BooksOK, ActorOK, Acting, SameBook, Unpaid, Before, After
<1>3. BooksOK'
  <2>1. ASSUME NEW p \in Rewards, NEW r \in Requests PROVE ActorOK(r, p)'
    BY <1>2 DEF ActorOK
  <2> QED BY <1>1, <1>2, <2>1 DEF BooksOK
<1>4. ASSUME NEW p \in Rewards PROVE BookState(p)' = BookState(p)
  BY DEF SameBook, BookState
<1>5. UNCHANGED Ideal!vars
  BY <1>4 DEF SameBook, Ideal!vars
<1> QED BY <1>3, <1>5 DEF IdealStep

\* A step of one request with one reward.
LEMMA BooksOne ==
  ASSUME BooksOK, NEW p \in Rewards, NEW r \in Requests,
         \A q \in Rewards \ {p} : SameBook(q),
         \A t \in Requests \ {r} : pc'[t] = pc[t] /\ job'[t] = job[t] /\ ~Acting(t, p),
         pc'[r] \notin Before \cup After \/ job'[r] = p,
         BookOK(p)', ActorOK(r, p)'
  PROVE  BooksOK'
<1>1. ASSUME NEW q \in Rewards \ {p}
      PROVE  /\ BookOK(q)' /\ \A t \in Requests : ActorOK(t, q)'
             /\ \A t \in Requests : Acting(t, q)' => Acting(t, q)
  BY DEF BooksOK, BookOK, ActorOK, Acting, SameBook, Unpaid
<1>2. \A t \in Requests \ {r} : ~Acting(t, p)'
  BY DEF Acting
<1>3. \A t \in Requests : ActorOK(t, p)'
  BY <1>2 DEF ActorOK
<1> QED BY <1>1, <1>2, <1>3 DEF BooksOK

\* A set of rewards moves, in the books of IdealPayouts.
LEMMA IdealMove ==
  ASSUME NEW S \in SUBSET Rewards, NEW from, NEW to,
         \A p \in S : BookState(p) = from /\ BookState(p)' = to,
         \A p \in Rewards \ S : BookState(p)' = BookState(p)
  PROVE  Ideal!Move(S, from, to)
  BY DEF Ideal!Move

-----------------------------------------------------------------------------
(* The queues *)

\* The others stand where they stood.
OnlyMoves(r) == \A t \in Requests \ {r} : pc'[t] = pc[t] /\ job'[t] = job[t]

\* Whoever spends or records is the head of its wallet's queue.
LEMMA HeadWorks ==
  ASSUME TypeOK, QueueOK, InQueue, NEW r \in Requests, pc[r] \in {"spend", "record"}
  PROVE  LET q == queue[WalletOf(job[r])] IN q \in Seq(Requests) /\ Len(q) > 0 /\ q[1] = r
<1>1. WalletOf(job[r]) \in Wallets
  BY WalletType DEF TypeOK
<1>2. PICK i \in 1..Len(queue[WalletOf(job[r])]) : queue[WalletOf(job[r])][i] = r
  BY DEF InQueue, Busy, BusyPCs
<1>3. queue[WalletOf(job[r])] \in Seq(Requests)
  BY <1>1 DEF TypeOK
<1>4. i = 1
  BY <1>1, <1>2, <1>3 DEF QueueOK
<1> QED BY <1>2, <1>3, <1>4

\* A request that has no work in a queue goes on without any, or the head goes on.
LEMMA QueueStays ==
  ASSUME TypeOK, QueueOK, InQueue, NEW r \in Requests, UNCHANGED queue, OnlyMoves(r),
         \/ ~Busy(r) /\ ~Busy(r)'
         \/ Busy(r) /\ Busy(r)' /\ job'[r] = job[r] /\ queue[WalletOf(job[r])][1] = r
  PROVE  QueueOK' /\ InQueue'
<1>1. ASSUME NEW w \in Wallets, NEW i \in 1..Len(queue[w])
      PROVE  /\ pc'[queue[w][i]] \in BusyPCs /\ WalletOf(job'[queue[w][i]]) = w
             /\ i > 1 => pc'[queue[w][i]] = "queued"
  <2>1. /\ queue[w][i] \in Requests /\ Busy(queue[w][i]) /\ WalletOf(job[queue[w][i]]) = w
        /\ i > 1 => pc[queue[w][i]] = "queued"
    <3>1. queue[w] \in Seq(Requests)
      BY DEF TypeOK
    <3> QED BY <3>1 DEF QueueOK
  <2>2. CASE queue[w][i] # r
    BY <2>1, <2>2 DEF OnlyMoves, Busy, BusyPCs
  <2>3. CASE queue[w][i] = r
    <3>1. queue[w][1] = r /\ 1 \in 1..Len(queue[w])
      BY <2>1, <2>3 DEF TypeOK
    <3>2. i = 1
      BY <2>3, <3>1 DEF QueueOK
    <3> QED BY <2>1, <2>3, <3>2 DEF Busy
  <2> QED BY <2>2, <2>3
<1>2. QueueOK'
  BY <1>1 DEF QueueOK, Busy
<1>3. ASSUME NEW t \in Requests, Busy(t)' PROVE Busy(t) /\ job'[t] = job[t]
  BY <1>3 DEF OnlyMoves, Busy, BusyPCs
<1>4. InQueue'
  BY <1>3 DEF InQueue
<1> QED BY <1>2, <1>4

LEMMA QueueEnters ==
  ASSUME TypeOK, QueueOK, InQueue, NEW r \in Requests, NEW p \in Payouts, ~Busy(r), OnlyMoves(r),
         pc'[r] = "queued", job'[r] = p,
         queue' = [queue EXCEPT ![WalletOf(p)] = Append(queue[WalletOf(p)], r)]
  PROVE  queue' \in [Wallets -> Seq(Requests)] /\ QueueOK' /\ InQueue'
<1> DEFINE v == WalletOf(p)
           q == queue[v]
<1>1. v \in Wallets /\ q \in Seq(Requests)
  BY WalletType DEF TypeOK
<1>2. /\ Append(q, r) \in Seq(Requests) /\ Len(Append(q, r)) = Len(q) + 1
      /\ Append(q, r)[Len(q) + 1] = r /\ \A i \in 1..Len(q) : Append(q, r)[i] = q[i]
  BY <1>1
<1>3. queue' \in [Wallets -> Seq(Requests)] /\ queue'[v] = Append(q, r) /\ \A w \in Wallets \ {v} : queue'[w] = queue[w]
  BY <1>1, <1>2 DEF TypeOK
<1>4. ASSUME NEW w \in Wallets, NEW i \in 1..Len(queue[w])
      PROVE  /\ queue[w][i] \in Requests \ {r} /\ pc'[queue[w][i]] \in BusyPCs /\ WalletOf(job'[queue[w][i]]) = w
             /\ i > 1 => pc'[queue[w][i]] = "queued"
  <2>1. queue[w][i] \in Requests /\ Busy(queue[w][i]) /\ WalletOf(job[queue[w][i]]) = w
        /\ (i > 1 => pc[queue[w][i]] = "queued")
    BY DEF TypeOK, QueueOK
  <2>2. queue[w][i] # r
    BY <2>1
  <2> QED BY <2>1, <2>2 DEF OnlyMoves, Busy, BusyPCs
<1> HIDE DEF v, q
<1>5. QueueOK'
  <2>1. ASSUME NEW w \in Wallets, NEW i \in 1..Len(queue'[w])
        PROVE  /\ pc'[queue'[w][i]] \in BusyPCs /\ WalletOf(job'[queue'[w][i]]) = w
               /\ i > 1 => pc'[queue'[w][i]] = "queued"
    <3>1. CASE w # v
      BY <1>3, <1>4, <3>1
    <3>2. CASE w = v /\ i \in 1..Len(q)
      BY <1>2, <1>3, <1>4, <3>2 DEF q
    <3>3. CASE w = v /\ i = Len(q) + 1
      BY <1>2, <1>3, <3>3 DEF Busy, BusyPCs, v
    <3> QED BY <1>1, <1>2, <1>3, <3>1, <3>2, <3>3
  <2>2. ASSUME NEW w \in Wallets, NEW i \in 1..Len(queue'[w]), NEW k \in 1..Len(queue'[w]), queue'[w][i] = queue'[w][k]
        PROVE  i = k
    <3>1. CASE w # v
      BY <1>3, <2>2, <3>1 DEF QueueOK
    <3>2. CASE w = v
      <4>1. \A m \in 1..Len(q) : q[m] # r
        BY <1>1, <1>4 DEF q
      <4>2. CASE i \in 1..Len(q) /\ k \in 1..Len(q)
        BY <1>1, <1>2, <1>3, <2>2, <3>2, <4>2 DEF QueueOK, q
      <4>3. i \in 1..(Len(q) + 1) /\ k \in 1..(Len(q) + 1) /\ Len(q) \in Nat
        BY <1>1, <1>2, <1>3, <3>2
      <4>4. CASE i = Len(q) + 1 \/ k = Len(q) + 1
        BY <1>2, <1>3, <2>2, <3>2, <4>1, <4>3, <4>4
      <4> QED BY <4>2, <4>3, <4>4
    <3> QED BY <3>1, <3>2
  <2> QED BY <2>1, <2>2 DEF QueueOK, Busy
<1>6. ASSUME NEW t \in Requests, Busy(t)'
      PROVE  \E i \in 1..Len(queue'[WalletOf(job'[t])]) : queue'[WalletOf(job'[t])][i] = t
  <2>1. CASE t = r
    <3>1. WalletOf(job'[t]) = v /\ Len(q) + 1 \in 1..Len(queue'[v]) /\ queue'[v][Len(q) + 1] = t
      BY <1>1, <1>2, <1>3, <2>1 DEF v
    <3> QED BY <3>1
  <2>2. CASE t # r
    <3>1. Busy(t) /\ job'[t] = job[t] /\ job[t] \in Payouts
      BY <1>6, <2>2 DEF OnlyMoves, Busy, BusyPCs, TypeOK
    <3>2. PICK i \in 1..Len(queue[WalletOf(job[t])]) : queue[WalletOf(job[t])][i] = t
      BY <3>1 DEF InQueue
    <3>3. WalletOf(job[t]) \in Wallets
      BY <3>1, WalletType
    <3>4. i \in 1..Len(queue'[WalletOf(job[t])]) /\ queue'[WalletOf(job[t])][i] = t
      <4>1. CASE WalletOf(job[t]) # v
        BY <1>3, <3>2, <3>3, <4>1
      <4>2. CASE WalletOf(job[t]) = v
        BY <1>1, <1>2, <1>3, <3>2, <4>2 DEF q
      <4> QED BY <4>1, <4>2
    <3> QED BY <3>1, <3>4
  <2> QED BY <2>1, <2>2
<1> QED BY <1>3, <1>5, <1>6 DEF InQueue

\* The head leaves, and the next moves up.
LEMMA QueueLeaves ==
  ASSUME TypeOK, QueueOK, InQueue, NEW r \in Requests, pc[r] \in {"spend", "record"}, OnlyMoves(r),
         ~Busy(r)', NEW rejected \in BOOLEAN, queue' = Dequeue(r, rejected)
  PROVE  queue' \in [Wallets -> Seq(Requests)] /\ QueueOK' /\ InQueue'
<1> DEFINE v == WalletOf(job[r])
           q == queue[v]
<1>1. v \in Wallets /\ q \in Seq(Requests) /\ Len(q) > 0 /\ q[1] = r
  BY WalletType, HeadWorks DEF TypeOK
<1>2. /\ Tail(q) \in Seq(Requests) /\ Len(Tail(q)) = Len(q) - 1
      /\ \A i \in 1..(Len(q) - 1) : Tail(q)[i] = q[i + 1]
  BY <1>1
<1>3. queue' = [queue EXCEPT ![v] = Tail(q)]
  BY DEF Dequeue, QueueOf
<1>4. queue' \in [Wallets -> Seq(Requests)] /\ queue'[v] = Tail(q) /\ \A w \in Wallets \ {v} : queue'[w] = queue[w]
  BY <1>1, <1>2, <1>3 DEF TypeOK
<1>5. ASSUME NEW w \in Wallets, NEW i \in 1..Len(queue[w]), w # v \/ i > 1
      PROVE  /\ queue[w][i] \in Requests \ {r} /\ pc'[queue[w][i]] \in BusyPCs /\ WalletOf(job'[queue[w][i]]) = w
             /\ i > 1 => pc'[queue[w][i]] = "queued"
  <2>1. queue[w][i] \in Requests /\ Busy(queue[w][i]) /\ WalletOf(job[queue[w][i]]) = w
        /\ (i > 1 => pc[queue[w][i]] = "queued")
    BY DEF TypeOK, QueueOK
  <2>2. queue[w][i] # r
    BY <2>1, <1>5
  <2> QED BY <2>1, <2>2 DEF OnlyMoves, Busy, BusyPCs
<1> HIDE DEF v, q
<1>6. ASSUME NEW i \in 1..Len(queue'[v])
      PROVE  i + 1 \in 1..Len(queue[v]) /\ i + 1 > 1 /\ queue'[v][i] = queue[v][i + 1]
  BY <1>1, <1>2, <1>4 DEF q
<1>7. QueueOK'
  <2>1. ASSUME NEW w \in Wallets, NEW i \in 1..Len(queue'[w])
        PROVE  /\ pc'[queue'[w][i]] \in BusyPCs /\ WalletOf(job'[queue'[w][i]]) = w
               /\ i > 1 => pc'[queue'[w][i]] = "queued"
    <3>1. CASE w # v
      BY <1>4, <1>5, <3>1
    <3>2. CASE w = v
      BY <1>5, <1>6, <3>2
    <3> QED BY <3>1, <3>2
  <2>2. ASSUME NEW w \in Wallets, NEW i \in 1..Len(queue'[w]), NEW k \in 1..Len(queue'[w]), queue'[w][i] = queue'[w][k]
        PROVE  i = k
    <3>1. CASE w # v
      BY <1>4, <2>2, <3>1 DEF QueueOK
    <3>2. CASE w = v
      <4>1. /\ i + 1 \in 1..Len(queue[v]) /\ k + 1 \in 1..Len(queue[v])
            /\ queue[v][i + 1] = queue[v][k + 1]
        BY <1>6, <2>2, <3>2
      <4>2. \A m, n \in 1..Len(queue[v]) : queue[v][m] = queue[v][n] => m = n
        BY <1>1 DEF QueueOK
      <4>3. i + 1 = k + 1
        BY <4>1, <4>2
      <4> QED BY <4>3
    <3> QED BY <3>1, <3>2
  <2> QED BY <2>1, <2>2 DEF QueueOK, Busy
<1>8. ASSUME NEW t \in Requests, Busy(t)'
      PROVE  \E i \in 1..Len(queue'[WalletOf(job'[t])]) : queue'[WalletOf(job'[t])][i] = t
  <2>1. t # r
    BY <1>8
  <2>2. Busy(t) /\ job'[t] = job[t] /\ job[t] \in Payouts
    BY <1>8, <2>1 DEF OnlyMoves, Busy, BusyPCs, TypeOK
  <2>3. PICK i \in 1..Len(queue[WalletOf(job[t])]) : queue[WalletOf(job[t])][i] = t
    BY <2>2 DEF InQueue
  <2>4. WalletOf(job[t]) \in Wallets
    BY <2>2, WalletType
  <2>5. CASE WalletOf(job[t]) # v
    BY <1>4, <2>2, <2>3, <2>4, <2>5
  <2>6. CASE WalletOf(job[t]) = v
    <3>1. i # 1 /\ Len(q) \in Nat
      BY <1>1, <2>1, <2>3, <2>6 DEF q
    <3>2. i - 1 \in 1..Len(queue'[v]) /\ queue'[v][i - 1] = t
      BY <1>1, <1>2, <1>4, <2>3, <2>6, <3>1 DEF q
    <3> QED BY <2>2, <2>6, <3>2
  <2> QED BY <2>5, <2>6
<1> QED BY <1>4, <1>7, <1>8 DEF InQueue

-----------------------------------------------------------------------------
(* Types *)

RequestType ==
  /\ pc \in [Requests -> PCs]
  /\ snap \in [Requests -> Entities]
  /\ prior \in [Requests -> BOOLEAN]
  /\ todo \in [Requests -> SUBSET Rewards]
  /\ job \in [Requests -> Payouts]
  /\ scanning \in [Requests -> BOOLEAN]

TableType ==
  /\ status \in [Payouts -> Statuses \cup {"absent"}]
  /\ hash \in [Payouts -> {"null", "claimed", "real"}]
  /\ due \in [Payouts -> BOOLEAN]
  /\ qualified \in BOOLEAN /\ slot \in BOOLEAN

ChainType ==
  /\ sent \in [Payouts -> Nat] /\ misjudged \in [Payouts -> Nat]
  /\ loads \in 0..MaxLoads /\ faults \in 0..MaxFaults

LEMMA TypeParts == TypeOK <=> RequestType /\ TableType /\ ChainType /\ queue \in [Wallets -> Seq(Requests)]
  BY DEF TypeOK, RequestType, TableType, ChainType

LEMMA TypeNext ==
  ASSUME RequestType', TableType', ChainType', queue' \in [Wallets -> Seq(Requests)]
  PROVE  TypeOK'
  BY DEF TypeOK, RequestType, TableType, ChainType

LEMMA TypeStays ==
  ASSUME TypeOK, RequestType', TableType', ChainType', UNCHANGED queue
  PROVE  TypeOK'
  BY TypeNext DEF TypeOK

LEMMA TableFrame == TableType /\ UNCHANGED <<table, account>> => TableType'
  BY DEF TableType, table, account

LEMMA RequestFrame ==
  ASSUME RequestType, UNCHANGED request, NEW r \in Requests, NEW p \in PCs, GoTo(r, p)
  PROVE  RequestType' /\ OnlyMoves(r) /\ pc'[r] = p /\ job'[r] = job[r]
  BY DEF RequestType, request, GoTo, OnlyMoves

LEMMA ChainFrame == ChainType /\ UNCHANGED <<chain, loads, faults>> => ChainType'
  BY DEF ChainType, chain

LEMMA FaultFrame == ChainType /\ UNCHANGED <<chain, loads>> /\ Fault => ChainType'
  BY BoundAssumption DEF ChainType, chain, Fault

LEMMA NoEntityType == NoEntity \in Entities
  BY DEF NoEntity, Statuses, Entities

LEMMA RowType ==
  ASSUME TableType, RowExists
  PROVE  Row \in Entities
  BY DEF TableType, RowExists, Row, Entities, Payouts

LEMMA GoToType ==
  ASSUME RequestType, NEW r \in Requests, NEW p \in PCs, GoTo(r, p)
  PROVE  pc' \in [Requests -> PCs] /\ pc'[r] = p /\ \A t \in Requests \ {r} : pc'[t] = pc[t]
  BY DEF RequestType, GoTo

LEMMA FinishType ==
  ASSUME RequestType, NEW r \in Requests, Finish(r)
  PROVE  RequestType' /\ OnlyMoves(r) /\ pc'[r] = "idle"
<1>1. GoTo(r, "idle") /\ "idle" \in PCs
  BY DEF Finish, PCs
<1>2. pc' \in [Requests -> PCs] /\ pc'[r] = "idle" /\ \A t \in Requests \ {r} : pc'[t] = pc[t]
  BY <1>1, GoToType
<1>3. snap' \in [Requests -> Entities] /\ job' \in [Requests -> Payouts] /\ todo' \in [Requests -> SUBSET Rewards]
  BY NoEntityType DEF Finish, RequestType, Payouts
<1>4. prior' \in [Requests -> BOOLEAN] /\ scanning' \in [Requests -> BOOLEAN]
  BY DEF Finish, RequestType
<1>5. \A t \in Requests \ {r} : job'[t] = job[t]
  BY DEF Finish, RequestType
<1> QED BY <1>2, <1>3, <1>4, <1>5 DEF RequestType, OnlyMoves

\* The row of an address exists, and a save writes that row only.
LEMMA PersistType ==
  ASSUME TableType, NEW e \in Entities, Persist(e)
  PROVE  TableType' /\ RowExists' /\ \A p \in Rewards : status'[p] = status[p] /\ hash'[p] = hash[p]
<1>1. e.status \in Statuses /\ e.hash \in {"null", "claimed", "real"}
  BY DEF Entities
<1>2. e.due \in BOOLEAN /\ e.qualified \in BOOLEAN /\ e.slot \in BOOLEAN
  BY DEF Entities
<1>3. status' \in [Payouts -> Statuses \cup {"absent"}] /\ hash' \in [Payouts -> {"null", "claimed", "real"}]
  BY <1>1 DEF Persist, TableType
<1>4. due' \in [Payouts -> BOOLEAN] /\ qualified' \in BOOLEAN /\ slot' \in BOOLEAN
  BY <1>2 DEF Persist, TableType
<1>5. status'[Onboarding] = e.status
  BY DEF Persist, TableType, Payouts
<1>6. \A p \in Rewards : status'[p] = status[p] /\ hash'[p] = hash[p]
  BY RewardAssumption DEF Persist, TableType, Payouts
<1> QED BY <1>1, <1>3, <1>4, <1>5, <1>6 DEF TableType, Statuses, RowExists

LEMMA ResumeType ==
  ASSUME RequestType, NEW r \in Requests, Resume(r), UNCHANGED <<snap, prior, job, scanning>>
  PROVE  RequestType' /\ OnlyMoves(r) /\ pc'[r] \in {"posts", "streaks"}
<1>1. PICK p \in {"posts", "streaks"} : GoTo(r, p)
  BY DEF Resume
<1>2. p \in PCs
  BY DEF PCs
<1>3. pc' \in [Requests -> PCs] /\ pc'[r] = p /\ \A t \in Requests \ {r} : pc'[t] = pc[t]
  BY <1>1, <1>2, GoToType
<1>4. todo' \in [Requests -> SUBSET Rewards]
  BY DEF Resume, RequestType, DueRows, Rewards
<1> QED BY <1>3, <1>4 DEF RequestType, OnlyMoves

-----------------------------------------------------------------------------
\* A request that spends nothing goes on to spend nothing, the rewards as they were.
LEMMA QuietMove ==
  ASSUME IInv, TypeOK', RowExists', NEW r \in Requests, OnlyMoves(r), UNCHANGED queue, \A p \in Rewards : SameBook(p),
         ~Busy(r), pc'[r] \notin BusyPCs \cup Before \cup After
  PROVE  IInv' /\ IdealStep
<1>1. \A t \in Requests : \/ pc'[t] \notin Before \cup After
                          \/ job'[t] = job[t] /\ pc[t] \in Before /\ pc'[t] \in Before
                          \/ job'[t] = job[t] /\ pc[t] \in After /\ pc'[t] \in After
  BY DEF OnlyMoves
<1>2. BooksOK' /\ IdealStep
  BY <1>1, BooksQuiet DEF IInv
<1>3. QueueOK' /\ InQueue'
  BY QueueStays DEF IInv, Busy
<1> QED BY <1>2, <1>3 DEF IInv

Quiet == {"idle", "save", "save code", "relink", "relink code", "reconcile", "onboarding", "posts", "streaks", "slot", "scan", "fetch"}

LEMMA QuietPCs == Quiet \subseteq PCs /\ Quiet \cap (BusyPCs \cup Before \cup After) = {}
  BY DEF Quiet, PCs, BusyPCs, Before, After

-----------------------------------------------------------------------------
(* requestManualRecheck, upsertVerifiedCandidate, the daily slot and the scan *)

LEMMA LoadKeeps ==
  ASSUME IInv, NEW r \in Requests, NEW next \in {"save", "relink"}, Load(r, next)
  PROVE  IInv' /\ IdealStep
<1>1. RequestType /\ TableType /\ ChainType /\ RowExists /\ next \in PCs /\ next \in Quiet
  BY TypeParts DEF IInv, PCs, Quiet
<1>2. pc' \in [Requests -> PCs] /\ pc'[r] = next /\ \A t \in Requests \ {r} : pc'[t] = pc[t]
  BY <1>1, GoToType DEF Load
<1>3. snap' \in [Requests -> Entities] /\ prior' \in [Requests -> BOOLEAN]
  BY <1>1, RowType DEF Load, RequestType, TableType
<1>4. RequestType'
  BY <1>1, <1>2, <1>3 DEF Load, RequestType
<1>5. ChainType'
  BY <1>1, BoundAssumption DEF Load, ChainType, chain
<1>6. TypeOK' /\ RowExists'
  BY <1>1, <1>4, <1>5, TableFrame, TypeStays DEF Load, table, RowExists, IInv
<1>7. OnlyMoves(r) /\ \A p \in Rewards : SameBook(p)
  BY <1>2 DEF Load, OnlyMoves, SameBook, table, chain
<1>8. ~Busy(r) /\ pc'[r] \notin BusyPCs \cup Before \cup After
  BY <1>1, <1>2, QuietPCs DEF Load, Busy, BusyPCs
<1> QED BY <1>6, <1>7, <1>8, QuietMove DEF Load

\* A request saves an entity, and goes on to a step that spends nothing or ends.
LEMMA SaveMoves ==
  ASSUME IInv, NEW r \in Requests, NEW e \in Entities, pc[r] \in Quiet, Persist(e),
         RequestType', OnlyMoves(r), pc'[r] \in Quiet, UNCHANGED <<queue, chain, loads, faults>>
  PROVE  IInv' /\ IdealStep
<1>1. TableType /\ ChainType
  BY TypeParts DEF IInv
<1>2. TableType' /\ RowExists' /\ \A p \in Rewards : SameBook(p)
  BY <1>1, PersistType DEF SameBook, chain
<1>3. TypeOK'
  BY <1>1, <1>2, ChainFrame, TypeStays DEF IInv
<1>4. ~Busy(r) /\ pc'[r] \notin BusyPCs \cup Before \cup After
  BY QuietPCs DEF Busy
<1> QED BY <1>2, <1>3, <1>4, QuietMove

LEMMA SaveAndFinish ==
  ASSUME IInv, NEW r \in Requests, NEW e \in Entities, pc[r] \in Quiet, Persist(e), Finish(r),
         UNCHANGED <<queue, chain, loads, faults>>
  PROVE  IInv' /\ IdealStep
<1>1. RequestType' /\ OnlyMoves(r) /\ pc'[r] \in Quiet
  BY TypeParts, FinishType DEF IInv, Quiet
<1> QED BY <1>1, SaveMoves

LEMMA SaveAndGo ==
  ASSUME IInv, NEW r \in Requests, NEW e \in Entities, pc[r] \in Quiet, Persist(e),
         NEW p \in Quiet, GoTo(r, p), UNCHANGED <<request, queue, chain, loads, faults>>
  PROVE  IInv' /\ IdealStep
<1>1. RequestType' /\ OnlyMoves(r) /\ pc'[r] \in Quiet
  BY TypeParts, QuietPCs, RequestFrame DEF IInv
<1> QED BY <1>1, SaveMoves

LEMMA SaveCandidateKeeps ==
  ASSUME IInv, NEW r \in Requests, SaveCandidate(r)
  PROVE  IInv' /\ IdealStep
<1>1. snap[r] \in Entities /\ pc[r] \in Quiet /\ {"save code", "reconcile"} \subseteq Quiet
  BY DEF IInv, TypeOK, SaveCandidate, Quiet
<1>2. CASE Finish(r)
  BY <1>1, <1>2, SaveAndFinish DEF SaveCandidate
<1>3. CASE UNCHANGED request /\ \E p \in {"save code", "reconcile"} : GoTo(r, p)
  BY <1>1, <1>3, SaveAndGo DEF SaveCandidate
<1> QED BY <1>2, <1>3 DEF SaveCandidate

LEMMA SavesKeep ==
  ASSUME IInv, NEW r \in Requests, SaveRelink(r) \/ ScanRefused(r)
  PROVE  IInv' /\ IdealStep
<1>1. snap[r] \in Entities
  BY DEF IInv, TypeOK
<1>2. CASE SaveRelink(r)
  <2> DEFINE e == [snap[r] EXCEPT !.status = IF snap[r].status \in {"paid", "blocked"} THEN snap[r].status ELSE "pending"]
  <2>1. e \in Entities
    BY <1>1 DEF Entities, Statuses
  <2>2. Persist(e) /\ pc[r] \in Quiet /\ "relink code" \in Quiet
    BY <1>2 DEF SaveRelink, Quiet
  <2> HIDE DEF e
  <2>3. CASE Finish(r)
    BY <1>2, <2>1, <2>2, <2>3, SaveAndFinish DEF SaveRelink
  <2>4. CASE UNCHANGED request /\ GoTo(r, "relink code")
    BY <1>2, <2>1, <2>2, <2>4, SaveAndGo DEF SaveRelink
  <2> QED BY <1>2, <2>3, <2>4 DEF SaveRelink
<1>3. CASE ScanRefused(r)
  BY <1>1, <1>3, SaveAndFinish DEF ScanRefused, Quiet
<1> QED BY <1>2, <1>3

\* A row is blocked by a save, or by an update of its status alone.
LEMMA ScanBlockedKeeps ==
  ASSUME IInv, NEW r \in Requests, ScanBlocked(r)
  PROVE  IInv' /\ IdealStep
<1>1. snap[r] \in Entities /\ pc[r] \in Quiet /\ TableType
  BY TypeParts DEF IInv, TypeOK, ScanBlocked, Quiet
<1> DEFINE e == [snap[r] EXCEPT !.status = "blocked"]
           f == [Row EXCEPT !.status = "blocked"]
<1>2. e \in Entities /\ f \in Entities
  BY <1>1, RowType DEF IInv, Entities, Statuses
<1>3. Persist(e) \/ Persist(f)
  BY <1>1 DEF ScanBlocked, Persist, Row, account, TableType
<1> HIDE DEF e, f
<1> QED BY <1>1, <1>2, <1>3, SaveAndFinish DEF ScanBlocked

\* A request goes on, or ends, with the tables as they were but for the daily slot.
LEMMA LocalMove ==
  ASSUME IInv, NEW r \in Requests, pc[r] \in Quiet, RequestType', OnlyMoves(r), pc'[r] \in Quiet,
         UNCHANGED <<table, qualified, queue, chain, loads>>, slot' \in BOOLEAN, ChainType'
  PROVE  IInv' /\ IdealStep
<1>1. TableType'
  BY TypeParts DEF IInv, TableType, table
<1>2. TypeOK' /\ RowExists'
  BY <1>1, TypeStays DEF IInv, RowExists, table
<1>3. \A p \in Rewards : SameBook(p)
  BY DEF SameBook, table, chain
<1>4. ~Busy(r) /\ pc'[r] \notin BusyPCs \cup Before \cup After
  BY QuietPCs DEF Busy
<1> QED BY <1>2, <1>3, <1>4, QuietMove

LEMMA LocalKeeps ==
  ASSUME IInv, NEW r \in Requests,
         SkipOnboarding(r) \/ PostsDone(r) \/ StreaksDone(r) \/ ClaimDailyScanSlot(r) \/ StartScan(r)
           \/ \E p \in Rewards : SkipRow(r, p)
  PROVE  IInv' /\ IdealStep
<1>1. RequestType /\ TableType /\ ChainType /\ slot \in BOOLEAN
  BY TypeParts DEF IInv, TableType
<1>2. pc[r] \in Quiet
  BY DEF SkipOnboarding, PostsDone, StreaksDone, ClaimDailyScanSlot, StartScan, SkipRow, Quiet
<1>3. UNCHANGED <<table, qualified, queue, chain, loads, faults>> /\ slot' \in BOOLEAN
  BY <1>1 DEF SkipOnboarding, PostsDone, StreaksDone, ClaimDailyScanSlot, StartScan, SkipRow, account
<1>4. ChainType'
  BY <1>1, <1>3, ChainFrame
<1>5. CASE SkipOnboarding(r)
  <2>1. pc' \in [Requests -> PCs] /\ pc'[r] = "posts" /\ \A t \in Requests \ {r} : pc'[t] = pc[t]
    BY <1>1, <1>5, GoToType DEF SkipOnboarding, PCs
  <2>2. todo' \in [Requests -> SUBSET Rewards] /\ snap' \in [Requests -> Entities]
    BY <1>1, <1>5, NoEntityType DEF SkipOnboarding, Forget, RequestType, DueRows, Rewards
  <2>3. RequestType' /\ OnlyMoves(r) /\ pc'[r] \in Quiet
    BY <1>1, <1>5, <2>1, <2>2 DEF SkipOnboarding, RequestType, OnlyMoves, Quiet
  <2> QED BY <1>2, <1>3, <1>4, <2>3, LocalMove
<1>6. CASE PostsDone(r)
  <2>1. pc' \in [Requests -> PCs] /\ pc'[r] = "streaks" /\ \A t \in Requests \ {r} : pc'[t] = pc[t]
    BY <1>1, <1>6, GoToType DEF PostsDone, PCs
  <2>2. todo' \in [Requests -> SUBSET Rewards]
    BY <1>1, <1>6 DEF PostsDone, RequestType, DueRows, Rewards
  <2>3. RequestType' /\ OnlyMoves(r) /\ pc'[r] \in Quiet
    BY <1>1, <1>6, <2>1, <2>2 DEF PostsDone, RequestType, OnlyMoves, Quiet
  <2> QED BY <1>2, <1>3, <1>4, <2>3, LocalMove
<1>7. CASE StreaksDone(r) \/ ClaimDailyScanSlot(r)
  <2>1. CASE Finish(r)
    <3>1. RequestType' /\ OnlyMoves(r) /\ pc'[r] \in Quiet
      BY <1>1, <2>1, FinishType DEF Quiet
    <3> QED BY <1>2, <1>3, <1>4, <3>1, LocalMove
  <2>2. CASE UNCHANGED request /\ \E p \in {"slot", "scan"} : GoTo(r, p)
    <3>1. RequestType' /\ OnlyMoves(r) /\ pc'[r] \in Quiet
      BY <1>1, <2>2, RequestFrame DEF Quiet, PCs
    <3> QED BY <1>2, <1>3, <1>4, <3>1, LocalMove
  <2> QED BY <1>7, <2>1, <2>2 DEF StreaksDone, ClaimDailyScanSlot
<1>8. CASE StartScan(r)
  <2>1. CASE Finish(r)
    <3>1. RequestType' /\ OnlyMoves(r) /\ pc'[r] \in Quiet
      BY <1>1, <2>1, FinishType DEF Quiet
    <3> QED BY <1>2, <1>3, <1>4, <3>1, LocalMove
  <2>2. CASE ~Finish(r)
    <3>1. pc' \in [Requests -> PCs] /\ pc'[r] = "fetch" /\ \A t \in Requests \ {r} : pc'[t] = pc[t]
      BY <1>1, <1>8, <2>2, GoToType DEF StartScan, PCs
    <3>2. snap' \in [Requests -> Entities] /\ scanning' \in [Requests -> BOOLEAN] /\ UNCHANGED <<prior, todo, job>>
      BY <1>1, <1>8, <2>2, RowType DEF StartScan, RequestType, IInv
    <3>3. RequestType' /\ OnlyMoves(r) /\ pc'[r] \in Quiet
      BY <1>1, <3>1, <3>2 DEF RequestType, OnlyMoves, Quiet
    <3> QED BY <1>2, <1>3, <1>4, <3>3, LocalMove
  <2> QED BY <2>1, <2>2
<1>9. CASE \E p \in Rewards : SkipRow(r, p)
  <2>1. todo' \in [Requests -> SUBSET Rewards] /\ UNCHANGED <<pc, snap, prior, job, scanning>>
    BY <1>1, <1>9 DEF SkipRow, RequestType
  <2>2. RequestType' /\ OnlyMoves(r) /\ pc'[r] \in Quiet
    BY <1>1, <1>2, <2>1 DEF RequestType, OnlyMoves
  <2> QED BY <1>2, <1>3, <1>4, <2>2, LocalMove
<1> QED BY <1>5, <1>6, <1>7, <1>8, <1>9

-----------------------------------------------------------------------------
(* Steps that concern several rewards *)

\* Whoever acts after the step acted before it, on a reward that is as it was.
LEMMA BooksSeveral ==
  ASSUME BooksOK, \A p \in Rewards : BookOK(p)',
         \A t \in Requests, p \in Rewards : Acting(t, p)' => Acting(t, p) /\ pc'[t] = pc[t] /\ SameBook(p)
  PROVE  BooksOK'
<1>1. ASSUME NEW p \in Rewards, NEW t \in Requests PROVE ActorOK(t, p)'
  BY DEF BooksOK, ActorOK, SameBook, Unpaid
<1> QED BY <1>1 DEF BooksOK

\* What a transaction settles was broadcast, and nobody works on it.
LEMMA ReconcileKeeps ==
  ASSUME IInv, NEW r \in Requests, NEW seen \in SUBSET Payouts, ReconcileConfirmationPending(r, seen)
  PROVE  IInv' /\ IdealStep
<1> DEFINE S == seen \cap Rewards
<1>1. RequestType /\ TableType /\ ChainType /\ BooksOK /\ RowExists
  BY TypeParts DEF IInv
<1>2. /\ \A p \in Rewards : hash'[p] = hash[p] /\ sent'[p] = sent[p] /\ misjudged'[p] = misjudged[p]
      /\ \A p \in Rewards : status'[p] = IF p \in S THEN "paid" ELSE status[p]
      /\ \A p \in S : Unpaid(p) /\ hash[p] = "real"
  BY RewardAssumption DEF ReconcileConfirmationPending, Confirmable, chain, Payouts
<1>3. pc' \in [Requests -> PCs] /\ pc'[r] = "onboarding" /\ \A t \in Requests \ {r} : pc'[t] = pc[t]
  BY <1>1, GoToType DEF ReconcileConfirmationPending, PCs
<1>4. snap' \in [Requests -> Entities]
  BY <1>1 DEF ReconcileConfirmationPending, RequestType, Entities, Statuses
<1>5. RequestType' /\ OnlyMoves(r)
  BY <1>1, <1>3, <1>4 DEF ReconcileConfirmationPending, RequestType, OnlyMoves
<1>6. TableType' /\ RowExists'
  BY <1>1 DEF ReconcileConfirmationPending, TableType, Statuses, account, RowExists, Payouts
<1>7. TypeOK'
  BY <1>1, <1>5, <1>6, ChainFrame, TypeStays DEF ReconcileConfirmationPending, IInv
<1>8. QueueOK' /\ InQueue'
  <2>1. ~Busy(r) /\ ~Busy(r)'
    BY <1>3 DEF ReconcileConfirmationPending, Busy, BusyPCs
  <2> QED BY <1>5, <2>1, QueueStays DEF ReconcileConfirmationPending, IInv
<1> HIDE DEF S
<1>9. BooksOK'
  <2>1. \A p \in Rewards : BookOK(p)'
    BY <1>1, <1>2 DEF BooksOK, BookOK
  <2>2. ASSUME NEW t \in Requests, NEW p \in Rewards, Acting(t, p)'
        PROVE  Acting(t, p) /\ pc'[t] = pc[t] /\ SameBook(p)
    <3>1. t # r
      BY <1>3, <2>2 DEF Acting, Before, After
    <3>2. Acting(t, p) /\ pc'[t] = pc[t]
      BY <1>5, <2>2, <3>1 DEF Acting, OnlyMoves
    <3>3. p \notin S
      BY <1>1, <1>2, <3>2 DEF BooksOK, ActorOK
    <3> QED BY <1>2, <3>2, <3>3 DEF SameBook
  <2> QED BY <1>1, <2>1, <2>2, BooksSeveral
<1>10. Ideal!Settle(S)
  <2>1. ASSUME NEW p \in S PROVE BookState(p) = "broadcast" /\ BookState(p)' = "paid"
    <3>1. p \in Rewards /\ sent[p] = misjudged[p] + 1 /\ misjudged[p] \in Nat
      BY <1>1, <1>2 DEF S, BooksOK, BookOK, ChainType, Payouts
    <3> QED BY <1>2, <3>1 DEF BookState, Unpaid
  <2>2. \A p \in Rewards \ S : BookState(p)' = BookState(p)
    BY <1>2 DEF BookState
  <2>3. S \in SUBSET Rewards
    BY DEF S
  <2>4. Ideal!Move(S, "broadcast", "paid")
    BY <2>1, <2>2, <2>3, IdealMove
  <2> QED BY <1>2, <2>4 DEF Ideal!Settle
<1>11. IdealStep
  BY <1>10 DEF IdealStep, Ideal!Next, S
<1> QED BY <1>6, <1>7, <1>8, <1>9, <1>11 DEF IInv

\* What a scan ledgers is owed.
LEMMA ScanSavesKeeps ==
  ASSUME IInv, NEW r \in Requests, NEW new \in SUBSET Rewards, NEW q \in BOOLEAN, ScanSaves(r, new, q)
  PROVE  IInv' /\ IdealStep
<1> DEFINE S == {p \in new : status[p] = "absent"}
<1>1. RequestType /\ TableType /\ ChainType /\ BooksOK /\ snap[r] \in Entities
  BY TypeParts DEF IInv, RequestType
<1>2. PICK e : /\ e = [snap[r] EXCEPT !.qualified = snap[r].qualified \/ q]
               /\ snap' = [snap EXCEPT ![r] = e]
               /\ status' = [p \in Payouts |->
                        IF p = Onboarding THEN e.status
                        ELSE IF p \in new /\ status[p] = "absent" THEN "pending" ELSE status[p]]
               /\ hash' = [hash EXCEPT ![Onboarding] = e.hash]
               /\ due' = [due EXCEPT ![Onboarding] = e.due]
               /\ qualified' = e.qualified /\ slot' = e.slot
  BY DEF ScanSaves
<1>3. e \in Entities
  BY <1>1, <1>2 DEF Entities
<1>4. /\ e.status \in Statuses /\ e.hash \in {"null", "claimed", "real"}
      /\ e.due \in BOOLEAN /\ e.qualified \in BOOLEAN /\ e.slot \in BOOLEAN
  BY <1>3 DEF Entities
<1>5. /\ \A p \in Rewards : hash'[p] = hash[p] /\ sent'[p] = sent[p] /\ misjudged'[p] = misjudged[p]
      /\ \A p \in Rewards : status'[p] = IF p \in S THEN "pending" ELSE status[p]
  BY <1>1, <1>2, RewardAssumption DEF ScanSaves, chain, Payouts, TableType
<1>6. pc' \in [Requests -> PCs] /\ pc'[r] = "onboarding" /\ \A t \in Requests \ {r} : pc'[t] = pc[t]
  BY <1>1, GoToType DEF ScanSaves, PCs
<1>14. snap' \in [Requests -> Entities]
  BY <1>1, <1>2, <1>3 DEF RequestType
<1>7. RequestType' /\ OnlyMoves(r)
  BY <1>1, <1>6, <1>14 DEF ScanSaves, RequestType, OnlyMoves
<1>8. TableType' /\ RowExists'
  <2>1. status' \in [Payouts -> Statuses \cup {"absent"}] /\ status'[Onboarding] # "absent"
    BY <1>1, <1>2, <1>4 DEF TableType, Statuses, Payouts
  <2>2. hash' \in [Payouts -> {"null", "claimed", "real"}]
    BY <1>1, <1>2, <1>4 DEF TableType
  <2>3. due' \in [Payouts -> BOOLEAN] /\ qualified' \in BOOLEAN /\ slot' \in BOOLEAN
    BY <1>1, <1>2, <1>4 DEF TableType
  <2> QED BY <2>1, <2>2, <2>3 DEF TableType, RowExists
<1>9. TypeOK'
  BY <1>1, <1>7, <1>8, ChainFrame, TypeStays DEF ScanSaves, IInv
<1>10. QueueOK' /\ InQueue'
  <2>1. ~Busy(r) /\ ~Busy(r)'
    BY <1>6 DEF ScanSaves, Busy, BusyPCs
  <2> QED BY <1>7, <2>1, QueueStays DEF ScanSaves, IInv
<1> HIDE DEF S
<1>11. BooksOK'
  <2>1. \A p \in Rewards : BookOK(p)'
    BY <1>1, <1>5 DEF BooksOK, BookOK
  <2>2. ASSUME NEW t \in Requests, NEW p \in Rewards, Acting(t, p)'
        PROVE  Acting(t, p) /\ pc'[t] = pc[t] /\ SameBook(p)
    <3>1. t # r
      BY <1>6, <2>2 DEF Acting, Before, After
    <3>2. Acting(t, p) /\ pc'[t] = pc[t]
      BY <1>7, <2>2, <3>1 DEF Acting, OnlyMoves
    <3>3. p \notin S
      BY <1>1, <3>2 DEF BooksOK, ActorOK, Unpaid, S
    <3> QED BY <1>5, <3>2, <3>3 DEF SameBook
  <2> QED BY <1>1, <2>1, <2>2, BooksSeveral
<1>12. Ideal!Owe(S)
  <2>1. ASSUME NEW p \in S PROVE BookState(p) = "absent" /\ BookState(p)' = "open"
    <3>1. p \in Rewards /\ status[p] = "absent"
      BY DEF S
    <3>2. hash[p] = "null" /\ sent[p] = misjudged[p] /\ misjudged[p] \in Nat
      BY <1>1, <3>1 DEF BooksOK, BookOK, ChainType, Payouts
    <3> QED BY <1>5, <3>1, <3>2 DEF BookState
  <2>2. \A p \in Rewards \ S : BookState(p)' = BookState(p)
    BY <1>5 DEF BookState
  <2>3. S \in SUBSET Rewards
    BY DEF S
  <2>4. Ideal!Move(S, "absent", "open")
    BY <2>1, <2>2, <2>3, IdealMove
  <2> QED BY <1>5, <2>4 DEF Ideal!Owe
<1>13. IdealStep
  BY <1>12 DEF IdealStep, Ideal!Next, S
<1> QED BY <1>8, <1>9, <1>10, <1>11, <1>13 DEF IInv

\* A request that ends with an error leaves its claim as it stands.
LEMMA AbortKeeps ==
  ASSUME IInv, NEW r \in Requests, WriteFails(r) \/ ScanThrows(r)
  PROVE  IInv' /\ IdealStep
<1>1. RequestType /\ TableType /\ ChainType
  BY TypeParts DEF IInv
<1>2. Abort(r) /\ pc[r] \in {"unconfirmed", "failed", "fetch"}
  BY DEF WriteFails, ScanThrows
<1>3. RequestType' /\ OnlyMoves(r) /\ pc'[r] = "idle"
  BY <1>1, <1>2, FinishType DEF Abort
<1>4. ChainType'
  BY <1>1, <1>2, FaultFrame DEF Abort
<1>5. TableType' /\ RowExists'
  BY <1>1, <1>2 DEF Abort, IInv, RequestType, TableType, RowExists, table
<1>6. TypeOK'
  BY <1>2, <1>3, <1>4, <1>5, TypeStays DEF Abort, IInv
<1>7. \A p \in Rewards : SameBook(p)
  BY <1>2 DEF Abort, SameBook, table, chain
<1>8. ~Busy(r) /\ pc'[r] \notin BusyPCs \cup Before \cup After
  BY <1>2, <1>3 DEF Busy, BusyPCs, Before, After
<1> QED BY <1>2, <1>3, <1>5, <1>6, <1>7, <1>8, QuietMove DEF Abort

-----------------------------------------------------------------------------
(* The claim *)

\* A claim enqueues its work.
LEMMA ClaimQueues ==
  ASSUME IInv, NEW r \in Requests, NEW p \in Payouts, Claim(r, p), ~Busy(r)
  PROVE  /\ pc' \in [Requests -> PCs] /\ job' \in [Requests -> Payouts]
         /\ hash' \in [Payouts -> {"null", "claimed", "real"}] /\ hash'[p] = "claimed"
         /\ \A q \in Payouts \ {p} : hash'[q] = hash[q]
         /\ pc'[r] = "queued" /\ job'[r] = p /\ OnlyMoves(r)
         /\ queue' \in [Wallets -> Seq(Requests)] /\ QueueOK' /\ InQueue'
<1>1. RequestType /\ TableType
  BY TypeParts DEF IInv
<1>2. pc' \in [Requests -> PCs] /\ pc'[r] = "queued" /\ \A t \in Requests \ {r} : pc'[t] = pc[t]
  BY <1>1, GoToType DEF Claim, PCs
<1>3. job' \in [Requests -> Payouts] /\ job'[r] = p /\ \A t \in Requests \ {r} : job'[t] = job[t]
  BY <1>1 DEF Claim, RequestType
<1>4. /\ hash' \in [Payouts -> {"null", "claimed", "real"}] /\ hash'[p] = "claimed"
      /\ \A q \in Payouts \ {p} : hash'[q] = hash[q]
  BY <1>1 DEF Claim, TableType
<1>5. OnlyMoves(r)
  BY <1>2, <1>3 DEF OnlyMoves
<1>6. queue' = [queue EXCEPT ![WalletOf(p)] = Append(queue[WalletOf(p)], r)]
  BY DEF Claim, QueueOf
<1>7. queue' \in [Wallets -> Seq(Requests)] /\ QueueOK' /\ InQueue'
  BY <1>2, <1>3, <1>5, <1>6, QueueEnters DEF IInv
<1> QED BY <1>2, <1>3, <1>4, <1>5, <1>7

LEMMA ClaimOnboardingKeeps ==
  ASSUME IInv, NEW r \in Requests, ClaimOnboarding(r)
  PROVE  IInv' /\ IdealStep
<1>1. RequestType /\ TableType /\ ChainType /\ ~Busy(r) /\ Onboarding \in Payouts
  BY TypeParts DEF IInv, ClaimOnboarding, Busy, BusyPCs, Payouts
<1>2. /\ pc' \in [Requests -> PCs] /\ job' \in [Requests -> Payouts]
      /\ hash' \in [Payouts -> {"null", "claimed", "real"}]
      /\ \A q \in Payouts \ {Onboarding} : hash'[q] = hash[q]
      /\ pc'[r] = "queued" /\ job'[r] = Onboarding /\ OnlyMoves(r)
      /\ queue' \in [Wallets -> Seq(Requests)] /\ QueueOK' /\ InQueue'
  BY <1>1, ClaimQueues DEF ClaimOnboarding
<1>3. RequestType' /\ TableType' /\ ChainType' /\ RowExists'
  <2>1. snap' \in [Requests -> Entities]
    BY <1>1, NoEntityType DEF ClaimOnboarding, Forget, RequestType
  <2>2. RequestType'
    BY <1>1, <1>2, <2>1 DEF ClaimOnboarding, RequestType
  <2>3. TableType' /\ RowExists'
    BY <1>1, <1>2 DEF ClaimOnboarding, TableType, account, RowExists, IInv
  <2> QED BY <1>1, <2>2, <2>3, ChainFrame DEF ClaimOnboarding
<1>4. TypeOK'
  BY <1>2, <1>3, TypeNext
<1>5. \A p \in Rewards : SameBook(p)
  BY <1>2, RewardAssumption DEF ClaimOnboarding, SameBook, chain, Payouts
<1>6. BooksOK' /\ IdealStep
  <2>1. \A t \in Requests : \/ pc'[t] \notin Before \cup After \/ job'[t] \notin Rewards
                            \/ job'[t] = job[t] /\ pc[t] \in Before /\ pc'[t] \in Before
                            \/ job'[t] = job[t] /\ pc[t] \in After /\ pc'[t] \in After
    BY <1>2, RewardAssumption DEF OnlyMoves
  <2> QED BY <1>5, <2>1, BooksQuiet DEF IInv
<1> QED BY <1>2, <1>3, <1>4, <1>6 DEF IInv

\* A reward that may be claimed is open, and nobody is at work on it.
LEMMA ClaimRowKeeps ==
  ASSUME IInv, NEW r \in Requests, NEW p \in Rewards, ClaimRow(r, p)
  PROVE  IInv' /\ IdealStep
<1>1. RequestType /\ TableType /\ ChainType /\ BooksOK /\ ~Busy(r) /\ p \in Payouts
  BY TypeParts DEF IInv, ClaimRow, Busy, BusyPCs, Payouts
<1>2. /\ pc' \in [Requests -> PCs] /\ job' \in [Requests -> Payouts]
      /\ hash' \in [Payouts -> {"null", "claimed", "real"}] /\ hash'[p] = "claimed"
      /\ \A q \in Payouts \ {p} : hash'[q] = hash[q]
      /\ pc'[r] = "queued" /\ job'[r] = p /\ OnlyMoves(r)
      /\ queue' \in [Wallets -> Seq(Requests)] /\ QueueOK' /\ InQueue'
  BY <1>1, ClaimQueues DEF ClaimRow
<1>3. RequestType' /\ TableType' /\ ChainType' /\ RowExists'
  <2>1. todo' \in [Requests -> SUBSET Rewards]
    BY <1>1 DEF ClaimRow, RequestType
  <2>2. RequestType'
    BY <1>1, <1>2, <2>1 DEF ClaimRow, RequestType
  <2>3. due' \in [Payouts -> BOOLEAN]
    BY <1>1 DEF ClaimRow, TableType
  <2>4. TableType' /\ RowExists'
    BY <1>1, <1>2, <2>3 DEF ClaimRow, TableType, account, RowExists, IInv
  <2> QED BY <1>1, <2>2, <2>4, ChainFrame DEF ClaimRow
<1>4. TypeOK'
  BY <1>2, <1>3, TypeNext
<1>5. /\ status' = status /\ UNCHANGED chain /\ Unpaid(p) /\ hash[p] = "null"
      /\ \A q \in Rewards \ {p} : SameBook(q)
  BY <1>2 DEF ClaimRow, Claim, Claimable, SameBook, chain, Payouts
<1>6. sent[p] = misjudged[p] /\ misjudged[p] \in Nat /\ \A t \in Requests : ~Acting(t, p)
  BY <1>1, <1>5 DEF BooksOK, BookOK, ActorOK, ChainType
<1>7. BooksOK'
  <2>1. BookOK(p)' /\ ActorOK(r, p)'
    BY <1>2, <1>5, <1>6 DEF BookOK, ActorOK, Unpaid, chain, Before, After
  <2> QED BY <1>1, <1>2, <1>5, <1>6, <2>1, BooksOne DEF OnlyMoves
<1>8. Ideal!Claim(p)
  <2>1. BookState(p) = "open" /\ BookState(p)' = "claimed"
    BY <1>2, <1>5, <1>6 DEF BookState, Unpaid, chain
  <2>2. \A q \in Rewards \ {p} : BookState(q)' = BookState(q)
    BY <1>5 DEF BookState, SameBook
  <2>3. Ideal!Move({p}, "open", "claimed")
    BY <2>1, <2>2, IdealMove
  <2> QED BY <1>5, <2>3 DEF Ideal!Claim, chain
<1> QED BY <1>2, <1>3, <1>4, <1>7, <1>8 DEF IInv, IdealStep, Ideal!Next

-----------------------------------------------------------------------------
(* The spend *)

LEMMA AtWork ==
  ASSUME IInv, NEW r \in Requests, pc[r] \in Before \cup After, job[r] \in Rewards
  PROVE  /\ hash[job[r]] = "claimed" /\ Unpaid(job[r]) /\ misjudged[job[r]] \in Nat
         /\ pc[r] \in Before => sent[job[r]] = misjudged[job[r]]
         /\ pc[r] \in After => sent[job[r]] = misjudged[job[r]] + 1
         /\ \A t \in Requests \ {r} : ~Acting(t, job[r])
  BY DEF IInv, BooksOK, ActorOK, Acting, TypeOK, Payouts

LEMMA OnboardingWork ==
  ASSUME BooksOK, NEW r \in Requests, OnlyMoves(r), job[r] = Onboarding, job'[r] = job[r],
         \A p \in Rewards : SameBook(p)
  PROVE  BooksOK' /\ IdealStep
<1>1. \A t \in Requests : \/ pc'[t] \notin Before \cup After \/ job'[t] \notin Rewards
                          \/ job'[t] = job[t] /\ pc[t] \in Before /\ pc'[t] \in Before
                          \/ job'[t] = job[t] /\ pc[t] \in After /\ pc'[t] \in After
  BY RewardAssumption DEF OnlyMoves
<1> QED BY <1>1, BooksQuiet

LEMMA WorkType ==
  ASSUME RequestType, NEW r \in Requests, NEW p \in PCs, GoTo(r, p), UNCHANGED request
  PROVE  RequestType' /\ OnlyMoves(r) /\ pc'[r] = p /\ job'[r] = job[r]
  BY RequestFrame

LEMMA StartSpendKeeps ==
  ASSUME IInv, NEW r \in Requests, StartSpend(r)
  PROVE  IInv' /\ IdealStep
<1>1. RequestType /\ TableType /\ ChainType /\ pc[r] = "queued" /\ "spend" \in PCs
  BY TypeParts DEF IInv, StartSpend, PCs
<1>2. RequestType' /\ OnlyMoves(r) /\ pc'[r] = "spend" /\ job'[r] = job[r]
  BY <1>1, WorkType DEF StartSpend
<1>3. TypeOK' /\ RowExists'
  BY <1>1, <1>2, TableFrame, ChainFrame, TypeStays DEF StartSpend, IInv, RowExists, table
<1>4. QueueOK' /\ InQueue'
  <2>1. queue[WalletOf(job[r])] \in Seq(Requests)
    BY <1>1, WalletType DEF IInv, TypeOK
  <2>2. queue[WalletOf(job[r])][1] = r
    BY <2>1 DEF StartSpend, QueueOf
  <2>3. Busy(r) /\ Busy(r)'
    BY <1>1, <1>2 DEF Busy, BusyPCs
  <2> QED BY <1>2, <2>2, <2>3, QueueStays DEF StartSpend, IInv
<1>5. BooksOK' /\ IdealStep
  <2>1. \A p \in Rewards : SameBook(p)
    BY DEF StartSpend, SameBook, table, chain
  <2>2. pc[r] \in Before /\ pc'[r] \in Before
    BY <1>1, <1>2 DEF Before
  <2> QED BY <1>2, <2>1, <2>2, BooksQuiet DEF OnlyMoves, IInv
<1> QED BY <1>3, <1>4, <1>5 DEF IInv

\* The work ends with a rejection, and what is known of the spend stays as it is.
LEMMA RejectedKeeps ==
  ASSUME IInv, NEW r \in Requests, SpendRejected(r) \/ RecordPaidFails(r)
  PROVE  IInv' /\ IdealStep
<1>1. RequestType /\ TableType /\ ChainType
  BY TypeParts DEF IInv
<1>2. /\ UNCHANGED <<table, account, request, chain, loads>> /\ Fault /\ queue' = Dequeue(r, TRUE)
      /\ pc[r] \in {"spend", "record"}
  BY DEF SpendRejected, RecordPaidFails
<1>3. PICK p \in {"failed", "unconfirmed"} :
        GoTo(r, p) /\ (pc[r] = "spend" => p = "failed") /\ (pc[r] = "record" => p = "unconfirmed")
  BY DEF SpendRejected, RecordPaidFails
<1>4. RequestType' /\ OnlyMoves(r) /\ pc'[r] = p /\ job'[r] = job[r]
  <2>1. p \in PCs
    BY DEF PCs
  <2> QED BY <1>1, <1>2, <1>3, <2>1, WorkType
<1>5. queue' \in [Wallets -> Seq(Requests)] /\ QueueOK' /\ InQueue'
  <2>1. ~Busy(r)'
    BY <1>4 DEF Busy, BusyPCs
  <2> QED BY <1>2, <1>4, <2>1, QueueLeaves DEF IInv
<1>6. TypeOK' /\ RowExists'
  BY <1>1, <1>2, <1>4, <1>5, TableFrame, FaultFrame, TypeNext DEF IInv, RowExists, table
<1>7. BooksOK' /\ IdealStep
  <2>1. \A q \in Rewards : SameBook(q)
    BY <1>2 DEF SameBook, table, chain
  <2>2. (pc[r] \in Before /\ pc'[r] \in Before) \/ (pc[r] \in After /\ pc'[r] \in After)
    BY <1>2, <1>3, <1>4 DEF Before, After
  <2> QED BY <1>4, <2>1, <2>2, BooksQuiet DEF OnlyMoves, IInv
<1> QED BY <1>5, <1>6, <1>7 DEF IInv

LEMMA JudgeBroadcastKeeps ==
  ASSUME IInv, NEW r \in Requests, JudgeBroadcast(r)
  PROVE  IInv' /\ IdealStep
<1>1. RequestType /\ TableType /\ ChainType /\ pc[r] = "judge" /\ "unconfirmed" \in PCs
  BY TypeParts DEF IInv, JudgeBroadcast, PCs
<1>2. RequestType' /\ OnlyMoves(r) /\ pc'[r] = "unconfirmed" /\ job'[r] = job[r]
  BY <1>1, WorkType DEF JudgeBroadcast
<1>3. TypeOK' /\ RowExists'
  BY <1>1, <1>2, TableFrame, ChainFrame, TypeStays DEF JudgeBroadcast, IInv, RowExists, table
<1>4. QueueOK' /\ InQueue'
  <2>1. ~Busy(r) /\ ~Busy(r)'
    BY <1>1, <1>2 DEF Busy, BusyPCs
  <2> QED BY <1>2, <2>1, QueueStays DEF JudgeBroadcast, IInv
<1>5. BooksOK' /\ IdealStep
  <2>1. \A p \in Rewards : SameBook(p)
    BY DEF JudgeBroadcast, SameBook, table, chain
  <2>2. pc[r] \in After /\ pc'[r] \in After
    BY <1>1, <1>2 DEF After
  <2> QED BY <1>2, <2>1, <2>2, BooksQuiet DEF OnlyMoves, IInv
<1> QED BY <1>3, <1>4, <1>5 DEF IInv

\* The books when a spend reaches the chain.
LEMMA SpendReaches ==
  ASSUME IInv, NEW r \in Requests, pc[r] = "spend", pc'[r] \in After, OnlyMoves(r), job'[r] = job[r],
         sent' = Reaches(sent, job[r]), UNCHANGED <<table, misjudged>>
  PROVE  sent' \in [Payouts -> Nat] /\ BooksOK' /\ IdealStep
<1>1. job[r] \in Payouts /\ ChainType
  BY TypeParts DEF IInv, TypeOK
<1>2. /\ sent' \in [Payouts -> Nat] /\ sent'[job[r]] = sent[job[r]] + 1
      /\ \A q \in Payouts \ {job[r]} : sent'[q] = sent[q]
  BY <1>1 DEF Reaches, ChainType
<1>3. \A q \in Rewards \ {job[r]} : SameBook(q)
  BY <1>2 DEF SameBook, table, Payouts
<1>4. CASE job[r] = Onboarding
  BY <1>2, <1>3, <1>4, OnboardingWork, RewardAssumption DEF IInv
<1>5. CASE job[r] \in Rewards
  <2>0. PICK p \in Rewards : p = job[r]
    BY <1>5
  <2>1. /\ hash[p] = "claimed" /\ Unpaid(p) /\ misjudged[p] \in Nat /\ sent[p] = misjudged[p]
        /\ \A t \in Requests \ {r} : ~Acting(t, p)
    BY <1>5, <2>0, AtWork DEF Before
  <2>2. /\ status' = status /\ hash' = hash /\ misjudged' = misjudged
        /\ sent'[p] = misjudged[p] + 1
    BY <1>2, <2>0, <2>1 DEF table
  <2>3. BookState(p) = "claimed"
    BY <2>1 DEF BookState, Unpaid
  <2>4. BookState(p)' = "broadcast" /\ BookOK(p)' /\ ActorOK(r, p)'
    BY <2>1, <2>2 DEF BookState, BookOK, ActorOK, Unpaid, Before, After
  <2>5. BooksOK'
    BY <1>3, <2>0, <2>1, <2>4, BooksOne DEF IInv, OnlyMoves
  <2>6. \A q \in Rewards \ {p} : BookState(q)' = BookState(q)
    BY <1>3, <2>0 DEF BookState, SameBook
  <2>7. {p} \in SUBSET Rewards /\ Ideal!Move({p}, "claimed", "broadcast")
    BY <2>3, <2>4, <2>6, IdealMove
  <2>8. Ideal!Broadcast({p})
    <3>1. \A q \in Rewards : sent'[q] = IF q \in {p} THEN sent[q] + 1 ELSE sent[q]
      BY <1>2, <2>0 DEF Payouts
    <3> QED BY <2>2, <2>7, <3>1 DEF Ideal!Broadcast, Ideal!Count
  <2> QED BY <1>2, <2>5, <2>7, <2>8 DEF IdealStep, Ideal!Next
<1> QED BY <1>1, <1>4, <1>5 DEF Payouts

LEMMA SpendMinedKeeps ==
  ASSUME IInv, NEW r \in Requests, SpendMined(r)
  PROVE  IInv' /\ IdealStep
<1>1. RequestType /\ TableType /\ ChainType /\ pc[r] = "spend" /\ "record" \in PCs
  BY TypeParts DEF IInv, SpendMined, PCs
<1>2. RequestType' /\ OnlyMoves(r) /\ pc'[r] = "record" /\ job'[r] = job[r]
  BY <1>1, WorkType DEF SpendMined
<1>3. sent' \in [Payouts -> Nat] /\ BooksOK' /\ IdealStep
  BY <1>1, <1>2, SpendReaches DEF SpendMined, After
<1>4. ChainType'
  BY <1>1, <1>3 DEF SpendMined, ChainType
<1>5. TypeOK' /\ RowExists'
  BY <1>1, <1>2, <1>4, TableFrame, TypeStays DEF SpendMined, IInv, RowExists, table
<1>6. QueueOK' /\ InQueue'
  <2>1. Busy(r) /\ Busy(r)' /\ queue[WalletOf(job[r])][1] = r
    BY <1>1, <1>2, HeadWorks DEF IInv, Busy, BusyPCs
  <2> QED BY <1>2, <2>1, QueueStays DEF SpendMined, IInv
<1> QED BY <1>3, <1>5, <1>6 DEF IInv

LEMMA SpendUnclearKeeps ==
  ASSUME IInv, NEW r \in Requests, NEW verdict \in {"unconfirmed", "judge"}, SpendUnclear(r, verdict)
  PROVE  IInv' /\ IdealStep
<1>1. RequestType /\ TableType /\ ChainType /\ pc[r] = "spend" /\ verdict \in PCs /\ verdict \in After
  BY TypeParts DEF IInv, SpendUnclear, PCs, After
<1>2. RequestType' /\ OnlyMoves(r) /\ pc'[r] = verdict /\ job'[r] = job[r]
  BY <1>1, WorkType DEF SpendUnclear
<1>3. sent' \in [Payouts -> Nat] /\ BooksOK' /\ IdealStep
  BY <1>1, <1>2, SpendReaches DEF SpendUnclear
<1>4. ChainType'
  BY <1>1, <1>3, BoundAssumption DEF SpendUnclear, ChainType, Fault
<1>5. queue' \in [Wallets -> Seq(Requests)] /\ QueueOK' /\ InQueue'
  <2>1. ~Busy(r)'
    BY <1>2 DEF Busy, BusyPCs
  <2> QED BY <1>1, <1>2, <2>1, QueueLeaves DEF SpendUnclear, IInv
<1>6. TypeOK' /\ RowExists'
  BY <1>1, <1>2, <1>4, <1>5, TableFrame, TypeNext DEF SpendUnclear, IInv, RowExists, table
<1> QED BY <1>3, <1>5, <1>6 DEF IInv

-----------------------------------------------------------------------------
(* The outcome *)

\* What the books need of a request that writes the outcome of its payout p.
LEMMA Outcome ==
  ASSUME IInv, NEW r \in Requests, NEW p \in Rewards, p = job[r], OnlyMoves(r),
         \A q \in Rewards \ {p} : SameBook(q),
         \A t \in Requests \ {r} : ~Acting(t, p),
         pc'[r] \notin Before \cup After \/ job'[r] = p,
         BookOK(p)', ActorOK(r, p)',
         NEW from, NEW to, BookState(p) = from, BookState(p)' = to
  PROVE  BooksOK' /\ {p} \in SUBSET Rewards /\ Ideal!Move({p}, from, to)
<1>1. BooksOK'
  BY BooksOne DEF IInv, OnlyMoves
<1>2. \A q \in Rewards \ {p} : BookState(q)' = BookState(q)
  BY DEF BookState, SameBook
<1>3. Ideal!Move({p}, from, to)
  BY <1>2, IdealMove
<1> QED BY <1>1, <1>3

LEMMA JudgeUnsentKeeps ==
  ASSUME IInv, NEW r \in Requests, JudgeUnsent(r)
  PROVE  IInv' /\ IdealStep
<1>1. RequestType /\ TableType /\ ChainType /\ pc[r] = "judge" /\ "failed" \in PCs /\ job[r] \in Payouts
  BY TypeParts DEF IInv, JudgeUnsent, PCs, TypeOK
<1>2. RequestType' /\ OnlyMoves(r) /\ pc'[r] = "failed" /\ job'[r] = job[r]
  BY <1>1, WorkType DEF JudgeUnsent
<1>3. /\ misjudged' \in [Payouts -> Nat] /\ misjudged'[job[r]] = misjudged[job[r]] + 1
      /\ \A q \in Payouts \ {job[r]} : misjudged'[q] = misjudged[q]
  BY <1>1 DEF JudgeUnsent, Reaches, ChainType
<1>4. ChainType'
  BY <1>1, <1>3 DEF JudgeUnsent, ChainType
<1>5. TypeOK' /\ RowExists'
  BY <1>1, <1>2, <1>4, TableFrame, TypeStays DEF JudgeUnsent, IInv, RowExists, table
<1>6. QueueOK' /\ InQueue'
  <2>1. ~Busy(r) /\ ~Busy(r)'
    BY <1>1, <1>2 DEF Busy, BusyPCs
  <2> QED BY <1>2, <2>1, QueueStays DEF JudgeUnsent, IInv
<1>7. \A q \in Rewards \ {job[r]} : SameBook(q)
  BY <1>3 DEF JudgeUnsent, SameBook, table, Payouts
<1>8. BooksOK' /\ IdealStep
  <2>1. CASE job[r] = Onboarding
    BY <1>2, <1>7, <2>1, OnboardingWork, RewardAssumption DEF IInv
  <2>2. CASE job[r] \in Rewards
    <3>1. PICK p \in Rewards : p = job[r]
      BY <2>2
    <3>2. /\ hash[p] = "claimed" /\ Unpaid(p) /\ misjudged[p] \in Nat /\ sent[p] = misjudged[p] + 1
          /\ \A t \in Requests \ {r} : ~Acting(t, p)
      BY <1>1, <2>2, <3>1, AtWork DEF After
    <3>3. status' = status /\ hash' = hash /\ sent' = sent /\ misjudged'[p] = misjudged[p] + 1
      BY <1>3, <3>1 DEF JudgeUnsent, table
    <3>4. BookState(p) = "broadcast" /\ BookState(p)' = "claimed" /\ BookOK(p)' /\ ActorOK(r, p)'
      BY <1>2, <3>2, <3>3 DEF BookState, BookOK, ActorOK, Unpaid, Before, After
    <3>5. BooksOK' /\ Ideal!Move({p}, "broadcast", "claimed")
      BY <1>2, <1>7, <3>1, <3>2, <3>4, Outcome
    <3>6. \A q \in Rewards : misjudged'[q] = IF q \in {p} THEN misjudged[q] + 1 ELSE misjudged[q]
      BY <1>3, <3>1 DEF Payouts
    <3>7. Ideal!Misjudge(p)
      BY <3>3, <3>5, <3>6 DEF Ideal!Misjudge, Ideal!Count
    <3> QED BY <3>5, <3>7 DEF IdealStep, Ideal!Next
  <2> QED BY <1>1, <2>1, <2>2 DEF Payouts
<1> QED BY <1>5, <1>6, <1>8 DEF IInv

LEMMA RecordPaidKeeps ==
  ASSUME IInv, NEW r \in Requests, RecordPaid(r)
  PROVE  IInv' /\ IdealStep
<1>1. RequestType /\ TableType /\ ChainType /\ pc[r] = "record" /\ job[r] \in Payouts
  BY TypeParts DEF IInv, RecordPaid, TypeOK
<1>2. RequestType' /\ OnlyMoves(r) /\ pc'[r] \in {"posts", "streaks"} /\ job'[r] = job[r]
  BY <1>1, ResumeType DEF RecordPaid
<1>3. /\ status'[job[r]] = "paid" /\ hash'[job[r]] = "real"
      /\ \A q \in Payouts \ {job[r]} : status'[q] = status[q] /\ hash'[q] = hash[q]
  BY <1>1 DEF RecordPaid, TableType
<1>4. TableType' /\ RowExists'
  BY <1>1 DEF RecordPaid, TableType, Statuses, account, RowExists, IInv
<1>5. queue' \in [Wallets -> Seq(Requests)] /\ QueueOK' /\ InQueue'
  <2>1. ~Busy(r)'
    BY <1>2 DEF Busy, BusyPCs
  <2> QED BY <1>1, <1>2, <2>1, QueueLeaves DEF RecordPaid, IInv
<1>6. TypeOK'
  BY <1>1, <1>2, <1>4, <1>5, ChainFrame, TypeNext DEF RecordPaid
<1>7. \A q \in Rewards \ {job[r]} : SameBook(q)
  BY <1>3 DEF RecordPaid, SameBook, chain, Payouts
<1>8. BooksOK' /\ IdealStep
  <2>1. CASE job[r] = Onboarding
    BY <1>2, <1>7, <2>1, OnboardingWork, RewardAssumption DEF IInv
  <2>2. CASE job[r] \in Rewards
    <3>1. PICK p \in Rewards : p = job[r]
      BY <2>2
    <3>2. /\ hash[p] = "claimed" /\ Unpaid(p) /\ misjudged[p] \in Nat /\ sent[p] = misjudged[p] + 1
          /\ \A t \in Requests \ {r} : ~Acting(t, p)
      BY <1>1, <2>2, <3>1, AtWork DEF After
    <3>3. status'[p] = "paid" /\ hash'[p] = "real" /\ UNCHANGED chain
      BY <1>3, <3>1 DEF RecordPaid
    <3>4. BookState(p) = "broadcast" /\ BookState(p)' = "paid" /\ BookOK(p)' /\ ActorOK(r, p)'
      BY <1>2, <3>2, <3>3 DEF BookState, BookOK, ActorOK, Acting, Unpaid, Before, After, chain
    <3>5. BooksOK' /\ {p} \in SUBSET Rewards /\ Ideal!Move({p}, "broadcast", "paid")
      BY <1>2, <1>7, <3>1, <3>2, <3>4, Outcome DEF Before, After
    <3>6. Ideal!Settle({p})
      BY <3>3, <3>5 DEF Ideal!Settle, chain
    <3> QED BY <3>5, <3>6 DEF IdealStep, Ideal!Next
  <2> QED BY <1>1, <2>1, <2>2 DEF Payouts
<1> QED BY <1>4, <1>5, <1>6, <1>8 DEF IInv

\* The hash is kept: a claim that is known to be broadcast.
LEMMA RecordUnconfirmedKeeps ==
  ASSUME IInv, NEW r \in Requests, RecordUnconfirmed(r)
  PROVE  IInv' /\ IdealStep
<1>1. RequestType /\ TableType /\ ChainType /\ pc[r] = "unconfirmed" /\ job[r] \in Payouts
  BY TypeParts DEF IInv, RecordUnconfirmed, TypeOK
<1>2. RequestType' /\ OnlyMoves(r) /\ pc'[r] \in {"posts", "streaks"} /\ job'[r] = job[r]
  BY <1>1, ResumeType DEF RecordUnconfirmed
<1>3. hash'[job[r]] = "real" /\ status' = status /\ \A q \in Payouts \ {job[r]} : hash'[q] = hash[q]
  BY <1>1 DEF RecordUnconfirmed, TableType
<1>4. TableType' /\ RowExists'
  BY <1>1 DEF RecordUnconfirmed, TableType, account, RowExists, IInv
<1>5. QueueOK' /\ InQueue'
  <2>1. ~Busy(r) /\ ~Busy(r)'
    BY <1>1, <1>2 DEF Busy, BusyPCs
  <2> QED BY <1>2, <2>1, QueueStays DEF RecordUnconfirmed, IInv
<1>6. TypeOK'
  BY <1>1, <1>2, <1>4, ChainFrame, TypeStays DEF RecordUnconfirmed, IInv
<1>7. \A q \in Rewards \ {job[r]} : SameBook(q)
  BY <1>3 DEF RecordUnconfirmed, SameBook, chain, Payouts
<1>8. BooksOK' /\ IdealStep
  <2>1. CASE job[r] = Onboarding
    BY <1>2, <1>7, <2>1, OnboardingWork, RewardAssumption DEF IInv
  <2>2. CASE job[r] \in Rewards
    <3>1. PICK p \in Rewards : p = job[r]
      BY <2>2
    <3>2. /\ hash[p] = "claimed" /\ Unpaid(p) /\ misjudged[p] \in Nat /\ sent[p] = misjudged[p] + 1
          /\ \A t \in Requests \ {r} : ~Acting(t, p)
      BY <1>1, <2>2, <3>1, AtWork DEF After
    <3>3. status' = status /\ hash'[p] = "real" /\ UNCHANGED chain
      BY <1>3, <3>1 DEF RecordUnconfirmed
    <3>4. BookState(p) = "broadcast" /\ BookState(p)' = "broadcast" /\ BookOK(p)' /\ ActorOK(r, p)'
      BY <1>2, <3>2, <3>3 DEF BookState, BookOK, ActorOK, Acting, Unpaid, Before, After, chain
    <3>5. BooksOK'
      BY <1>2, <1>7, <3>1, <3>2, <3>4, Outcome DEF Before, After
    <3>6. \A q \in Rewards : BookState(q)' = BookState(q)
      BY <1>7, <3>1, <3>4 DEF BookState, SameBook
    <3>7. UNCHANGED Ideal!vars
      BY <3>3, <3>6 DEF Ideal!vars, chain
    <3> QED BY <3>5, <3>7 DEF IdealStep
  <2> QED BY <1>1, <2>1, <2>2 DEF Payouts
<1> QED BY <1>4, <1>5, <1>6, <1>8 DEF IInv

\* A claim is given up when nothing was broadcast for it.
LEMMA RecordFailedKeeps ==
  ASSUME IInv, NEW r \in Requests, RecordFailed(r)
  PROVE  IInv' /\ IdealStep
<1>1. RequestType /\ TableType /\ ChainType /\ pc[r] = "failed" /\ job[r] \in Payouts
  BY TypeParts DEF IInv, RecordFailed, TypeOK
<1>2. RequestType' /\ OnlyMoves(r) /\ pc'[r] \in {"posts", "streaks"} /\ job'[r] = job[r]
  BY <1>1, ResumeType DEF RecordFailed
<1>3. /\ status'[job[r]] = "failed" /\ hash'[job[r]] = "null"
      /\ \A q \in Payouts \ {job[r]} : status'[q] = status[q] /\ hash'[q] = hash[q]
  BY <1>1 DEF RecordFailed, TableType
<1>4. TableType' /\ RowExists'
  BY <1>1 DEF RecordFailed, TableType, Statuses, account, RowExists, IInv
<1>5. QueueOK' /\ InQueue'
  <2>1. ~Busy(r) /\ ~Busy(r)'
    BY <1>1, <1>2 DEF Busy, BusyPCs
  <2> QED BY <1>2, <2>1, QueueStays DEF RecordFailed, IInv
<1>6. TypeOK'
  BY <1>1, <1>2, <1>4, ChainFrame, TypeStays DEF RecordFailed, IInv
<1>7. \A q \in Rewards \ {job[r]} : SameBook(q)
  BY <1>3 DEF RecordFailed, SameBook, chain, Payouts
<1>8. BooksOK' /\ IdealStep
  <2>1. CASE job[r] = Onboarding
    BY <1>2, <1>7, <2>1, OnboardingWork, RewardAssumption DEF IInv
  <2>2. CASE job[r] \in Rewards
    <3>1. PICK p \in Rewards : p = job[r]
      BY <2>2
    <3>2. /\ hash[p] = "claimed" /\ Unpaid(p) /\ misjudged[p] \in Nat /\ sent[p] = misjudged[p]
          /\ \A t \in Requests \ {r} : ~Acting(t, p)
      BY <1>1, <2>2, <3>1, AtWork DEF Before
    <3>3. status'[p] = "failed" /\ hash'[p] = "null" /\ UNCHANGED chain
      BY <1>3, <3>1 DEF RecordFailed
    <3>4. BookState(p) = "claimed" /\ BookState(p)' = "open" /\ BookOK(p)' /\ ActorOK(r, p)'
      BY <1>2, <3>2, <3>3 DEF BookState, BookOK, ActorOK, Acting, Unpaid, Before, After, chain
    <3>5. BooksOK' /\ Ideal!Move({p}, "claimed", "open")
      BY <1>2, <1>7, <3>1, <3>2, <3>4, Outcome DEF Before, After
    <3>6. Ideal!GiveUp(p)
      BY <3>3, <3>5 DEF Ideal!GiveUp, chain
    <3> QED BY <3>5, <3>6 DEF IdealStep, Ideal!Next
  <2> QED BY <1>1, <2>1, <2>2 DEF Payouts
<1> QED BY <1>4, <1>5, <1>6, <1>8 DEF IInv

-----------------------------------------------------------------------------
(* Restarts and time *)

\* The spends that a restart interrupted after their broadcast.
LEMMA CrashKeeps ==
  ASSUME IInv, NEW reached \in SUBSET Payouts, Crash(reached)
  PROVE  IInv' /\ IdealStep
<1> DEFINE S == reached \cap Rewards
<1>1. RequestType /\ TableType /\ ChainType /\ BooksOK
  BY TypeParts DEF IInv
<1>2. pc' = [r \in Requests |-> "idle"] /\ queue' = [w \in Wallets |-> <<>>]
  BY DEF Crash
<1>3. /\ \A p \in Rewards : status'[p] = status[p] /\ hash'[p] = hash[p] /\ misjudged'[p] = misjudged[p]
      /\ \A p \in Rewards : sent'[p] = IF p \in S THEN sent[p] + 1 ELSE sent[p]
  BY DEF Crash, table, Payouts
<1>4. ASSUME NEW p \in S
      PROVE  hash[p] = "claimed" /\ Unpaid(p) /\ misjudged[p] \in Nat /\ sent[p] = misjudged[p]
  <2>1. PICK r \in Requests : pc[r] = "spend" /\ job[r] = p
    BY DEF Crash
  <2> QED BY <2>1, AtWork DEF Before
<1>5. RequestType'
  BY <1>2, NoEntityType DEF Crash, RequestType, PCs, Payouts
<1>6. TableType' /\ RowExists'
  BY <1>1, TableFrame DEF Crash, IInv, RowExists, table
<1>7. ChainType'
  <2>1. sent' \in [Payouts -> Nat]
    BY <1>1 DEF Crash, ChainType
  <2> QED BY <1>1, <2>1, BoundAssumption DEF Crash, ChainType, Fault
<1>8. queue' \in [Wallets -> Seq(Requests)] /\ \A w \in Wallets : Len(queue'[w]) = 0
  BY <1>2
<1>9. TypeOK'
  BY <1>5, <1>6, <1>7, <1>8, TypeNext
<1>10. QueueOK' /\ InQueue'
  BY <1>2, <1>8 DEF QueueOK, InQueue, Busy, BusyPCs
<1> HIDE DEF S
<1>11. BooksOK'
  <2>1. \A p \in Rewards : BookOK(p)'
    BY <1>1, <1>3, <1>4 DEF BooksOK, BookOK
  <2>2. \A t \in Requests, p \in Rewards : ~Acting(t, p)'
    BY <1>2 DEF Acting, Before, After
  <2> QED BY <1>1, <2>1, <2>2, BooksSeveral
<1>12. Ideal!Broadcast(S)
  <2>1. ASSUME NEW p \in S PROVE BookState(p) = "claimed" /\ BookState(p)' = "broadcast"
    <3>1. p \in Rewards /\ sent'[p] = misjudged[p] + 1 /\ hash'[p] = hash[p] /\ status'[p] = status[p] /\ misjudged'[p] = misjudged[p]
      BY <1>3, <1>4 DEF S
    <3> QED BY <1>4, <3>1 DEF BookState, Unpaid
  <2>2. \A p \in Rewards \ S : BookState(p)' = BookState(p)
    BY <1>3 DEF BookState
  <2>3. S \in SUBSET Rewards
    BY DEF S
  <2>4. Ideal!Move(S, "claimed", "broadcast")
    BY <2>1, <2>2, <2>3, IdealMove
  <2> QED BY <1>3, <2>4 DEF Ideal!Broadcast, Ideal!Count
<1>13. IdealStep
  BY <1>12 DEF IdealStep, Ideal!Next, S
<1> QED BY <1>6, <1>9, <1>10, <1>11, <1>13 DEF IInv

\* Nobody moves and no reward changes.
LEMMA StillKeeps ==
  ASSUME IInv, TypeOK', RowExists', UNCHANGED <<pc, job, queue>>, \A p \in Rewards : SameBook(p)
  PROVE  IInv' /\ IdealStep
<1>1. BooksOK' /\ IdealStep
  BY BooksQuiet DEF IInv
<1>2. QueueOK' /\ InQueue'
  BY DEF IInv, QueueOK, InQueue, Busy
<1> QED BY <1>1, <1>2 DEF IInv

LEMMA RetryElapsesKeeps ==
  ASSUME IInv, NEW p \in Payouts, RetryElapses(p)
  PROVE  IInv' /\ IdealStep
<1>1. RequestType /\ TableType /\ ChainType
  BY TypeParts DEF IInv
<1>2. due' \in [Payouts -> BOOLEAN]
  BY <1>1 DEF RetryElapses, TableType
<1>3. TableType' /\ RowExists'
  BY <1>1, <1>2 DEF RetryElapses, TableType, account, IInv, RowExists
<1>4. snap' \in [Requests -> Entities]
  <2>1. CASE p # Onboarding
    BY <1>1, <2>1 DEF RetryElapses, RequestType
  <2>2. CASE p = Onboarding
    <3>1. \A r \in Requests : [snap[r] EXCEPT !.due = TRUE] \in Entities
      BY <1>1 DEF RequestType, Entities
    <3> QED BY <2>2, <3>1 DEF RetryElapses
  <2> QED BY <2>1, <2>2
<1>5. RequestType'
  BY <1>1, <1>4 DEF RetryElapses, RequestType
<1>6. TypeOK'
  BY <1>1, <1>3, <1>5, ChainFrame, TypeStays DEF RetryElapses, IInv
<1>7. \A q \in Rewards : SameBook(q)
  BY DEF RetryElapses, SameBook, chain
<1> QED BY <1>3, <1>6, <1>7, StillKeeps DEF RetryElapses

LEMMA WindowElapsesKeeps ==
  ASSUME IInv, WindowElapses
  PROVE  IInv' /\ IdealStep
<1>1. RequestType /\ TableType /\ ChainType
  BY TypeParts DEF IInv
<1>2. TableType' /\ RowExists'
  BY <1>1 DEF WindowElapses, TableType, table, IInv, RowExists
<1>3. RequestType'
  BY <1>1 DEF WindowElapses, RequestType, request
<1>4. TypeOK'
  BY <1>1, <1>2, <1>3, ChainFrame, TypeStays DEF WindowElapses, IInv
<1>5. \A p \in Rewards : SameBook(p)
  BY DEF WindowElapses, SameBook, table, chain
<1> QED BY <1>2, <1>4, <1>5, StillKeeps DEF WindowElapses, request

LEMMA StutterKeeps ==
  ASSUME IInv, UNCHANGED vars
  PROVE  IInv' /\ IdealStep
<1>1. RequestType /\ TableType /\ ChainType
  BY TypeParts DEF IInv
<1>2. TableType' /\ RowExists'
  BY <1>1, TableFrame DEF vars, IInv, RowExists, table
<1>3. RequestType'
  BY <1>1 DEF vars, RequestType, request
<1>4. TypeOK'
  BY <1>1, <1>2, <1>3, ChainFrame, TypeStays DEF vars, IInv
<1>5. \A p \in Rewards : SameBook(p)
  BY DEF vars, SameBook, table, chain
<1> QED BY <1>2, <1>4, <1>5, StillKeeps DEF vars, request

-----------------------------------------------------------------------------
\* Every step keeps the invariant, and is a step of IdealPayouts or none.
THEOREM StepInvariant == IInv /\ [Next]_vars => IInv' /\ [Ideal!Next]_(Ideal!vars)
<1> SUFFICES ASSUME IInv, [Next]_vars PROVE IInv' /\ IdealStep
  BY DEF IdealStep
<1>1. ASSUME NEW r \in Requests, NEW next \in {"save", "relink"}, Load(r, next) PROVE IInv' /\ IdealStep
  BY <1>1, LoadKeeps
<1>2. ASSUME NEW r \in Requests, Progress(r) PROVE IInv' /\ IdealStep
  <2>1. CASE SaveCandidate(r) \/ SaveRelink(r) \/ ScanRefused(r) \/ ScanBlocked(r)
    BY <2>1, SaveCandidateKeeps, SavesKeep, ScanBlockedKeeps
  <2>2. CASE \E seen \in SUBSET Payouts : ReconcileConfirmationPending(r, seen)
    BY <2>2, ReconcileKeeps
  <2>3. CASE ClaimOnboarding(r) \/ \E p \in Rewards : ClaimRow(r, p)
    BY <2>3, ClaimOnboardingKeeps, ClaimRowKeeps
  <2>4. CASE \/ SkipOnboarding(r) \/ PostsDone(r) \/ StreaksDone(r) \/ ClaimDailyScanSlot(r) \/ StartScan(r)
             \/ \E p \in Rewards : SkipRow(r, p)
    BY <2>4, LocalKeeps
  <2>5. CASE StartSpend(r) \/ SpendMined(r) \/ JudgeBroadcast(r) \/ JudgeUnsent(r)
    BY <2>5, StartSpendKeeps, SpendMinedKeeps, JudgeBroadcastKeeps, JudgeUnsentKeeps
  <2>6. CASE RecordPaid(r) \/ RecordUnconfirmed(r) \/ RecordFailed(r)
    BY <2>6, RecordPaidKeeps, RecordUnconfirmedKeeps, RecordFailedKeeps
  <2>7. CASE \E new \in SUBSET Rewards, q \in BOOLEAN : ScanSaves(r, new, q)
    BY <2>7, ScanSavesKeeps
  <2> QED BY <1>2, <2>1, <2>2, <2>3, <2>4, <2>5, <2>6, <2>7 DEF Progress
<1>3. ASSUME NEW r \in Requests, Failure(r) PROVE IInv' /\ IdealStep
  BY <1>3, RejectedKeeps, SpendUnclearKeeps, AbortKeeps DEF Failure
<1>4. ASSUME NEW reached \in SUBSET Payouts, Crash(reached) PROVE IInv' /\ IdealStep
  BY <1>4, CrashKeeps
<1>5. ASSUME NEW p \in Payouts, RetryElapses(p) PROVE IInv' /\ IdealStep
  BY <1>5, RetryElapsesKeeps
<1>6. CASE WindowElapses
  BY <1>6, WindowElapsesKeeps
<1>7. CASE UNCHANGED vars
  BY <1>7, StutterKeeps
<1> QED BY <1>1, <1>2, <1>3, <1>4, <1>5, <1>6, <1>7 DEF Next

\* The inductive invariant holds in every reachable state.
THEOREM Invariance == Spec => []IInv
  BY InitInvariant, StepInvariant, PTL DEF Spec

\* Rows, requests, queues and counts are always of their types: a request settles
\* only rewards, and no queue is popped when it is empty.
THEOREM TypeCorrect == Spec => []TypeOK
<1>1. IInv => TypeOK
  BY DEF IInv
<1> QED BY Invariance, <1>1, PTL

\* The per-post and streak rewards implement IdealPayouts: claimed, broadcast once,
\* settled; given up only when nothing was broadcast or it was misjudged.
THEOREM PayoutsImplementIdeal == Spec => PayoutsAsPromised
<1>1. Init => IInv /\ Ideal!Init
  BY InitInvariant
<1>2. IInv /\ [Next]_vars => IInv' /\ [Ideal!Next]_(Ideal!vars)
  BY StepInvariant
<1> QED BY <1>1, <1>2, PTL DEF Spec, PayoutsAsPromised, Ideal!Spec

\* A per-post or streak reward reaches the chain once, and once more for each
\* send that was misjudged, whatever crashes, fails or overlaps.
THEOREM RewardsPaidOnce == Spec => []Ideal!PaidOnce
<1>1. IInv => Ideal!PaidOnce
  <2> SUFFICES ASSUME IInv, NEW p \in Rewards PROVE sent[p] <= 1 + misjudged[p]
    BY DEF Ideal!PaidOnce
  <2>1. sent[p] \in Nat /\ misjudged[p] \in Nat /\ BookOK(p) /\ hash[p] \in {"null", "claimed", "real"}
    BY DEF IInv, TypeOK, BooksOK, Payouts
  <2> QED BY <2>1 DEF BookOK
<1> QED BY Invariance, <1>1, PTL

\* Two spends of one account are never under way at once, whichever of the keys
\* are one wallet.
THEOREM WalletsSpendOnce == Spec => []OneSpendPerWallet
<1>1. IInv => OneSpendPerWallet
  BY HeadWorks DEF IInv, OneSpendPerWallet
<1> QED BY Invariance, <1>1, PTL

\* Whoever is queued is in the queue of its wallet, whose head is at work or may start.
THEOREM QueuesAlwaysMove == Spec => []QueuesMove
<1>1. IInv => QueuesMove
  <2> SUFFICES ASSUME IInv PROVE QueuesMove
    OBVIOUS
  <2>1. ASSUME NEW w \in Wallets, queue[w] # <<>> PROVE pc[Head(queue[w])] \in {"queued", "spend", "record"}
    <3>1. queue[w] \in Seq(Requests) /\ 1 \in 1..Len(queue[w]) /\ Head(queue[w]) = queue[w][1]
      BY <2>1 DEF IInv, TypeOK
    <3> QED BY <3>1 DEF IInv, QueueOK, Busy, BusyPCs
  <2>2. ASSUME NEW r \in Requests, pc[r] = "queued"
        PROVE  \E i \in DOMAIN queue[WalletOf(job[r])] : queue[WalletOf(job[r])][i] = r
    <3>1. queue[WalletOf(job[r])] \in Seq(Requests)
      BY WalletType DEF IInv, TypeOK
    <3>2. DOMAIN queue[WalletOf(job[r])] = 1..Len(queue[WalletOf(job[r])])
      BY <3>1
    <3> QED BY <2>2, <3>2 DEF IInv, InQueue, Busy, BusyPCs
  <2> QED BY <2>1, <2>2 DEF QueuesMove
<1> QED BY Invariance, <1>1, PTL
=============================================================================
