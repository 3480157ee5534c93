------------------------- MODULE BalanceLedger_proofs -------------------------
(***************************************************************************)
(* For all holders, transactions, legs, batch sizes and bounds: types (no    *)
(* balance goes below zero, the sweep holds only rows that exist), and       *)
(* UnseenIsOwed.                                                             *)
(***************************************************************************)
EXTENDS BalanceLedger, SequenceTheorems, FiniteSetTheorems, TLAPS

Leg == [holder : Holders, by : Int]
Locals == [pc : Steps, tx : Txs \cup {NoTx}, left : Seq(Leg), exists : BOOLEAN,
           found : Nat, wrote : SUBSET Holders]
SweepLocals == [pc : SweepSteps, rows : Seq(Holders), value : Nat, same : BOOLEAN]

\* A delivery under way has its transaction, and legs as long as it reads or writes.
Sound(l) ==
  /\ l.pc # "idle" => l.tx \in Txs
  /\ l.pc \in {"read", "write"} => l.left # <<>>
  /\ l.pc = "mark" => l.tx \notin Trades

ChainOK == chain \in [Holders -> Nat] /\ mined \subseteq Txs

RowsOK ==
  /\ known \subseteq Holders /\ balance \in [Holders -> Nat]
  /\ swept \in Seq(Holders) /\ ToSet(swept) \subseteq known /\ IsInjective(swept)

TxsOK == marked \subseteq Txs \ Trades /\ decoded \subseteq Txs \ Trades /\ traded \subseteq Trades

\* What was written are rows that exist; a worker is not used before its delivery.
WorkOK ==
  /\ deliveries \in 0..MaxDeliveries
  /\ work \in [Workers -> Locals]
  /\ \A w \in Workers : Sound(work[w]) /\ work[w].wrote \subseteq known
  /\ \A w \in Workers : w > deliveries => work[w] = Idle

\* A sweep under way is at a row.
SweepOK ==
  /\ sweep \in SweepLocals /\ ToSet(sweep.rows) \subseteq known
  /\ sweep.pc # "idle" => sweep.rows # <<>>

SignalsOK == woken \subseteq known /\ unseen \subseteq known /\ silent \subseteq known

TypeInv == ChainOK /\ RowsOK /\ TxsOK /\ WorkOK /\ SweepOK /\ SignalsOK

IInv == TypeInv /\ UnseenIsOwed

-----------------------------------------------------------------------------
(* Sequences of rows. *)

LEMMA ToSetOfSeq ==
  ASSUME NEW S, NEW s \in Seq(S)
  PROVE  ToSet(s) = {s[i] : i \in 1..Len(s)} /\ ToSet(s) \subseteq S
  BY DEF ToSet

LEMMA ToSetOfHeadTail ==
  ASSUME NEW S, NEW s \in Seq(S), s # <<>>
  PROVE  /\ Head(s) \in ToSet(s) /\ ToSet(Tail(s)) \subseteq ToSet(s)
         /\ Tail(s) \in Seq(S) /\ Len(Tail(s)) = Len(s) - 1
<1>1. Len(s) \in Nat /\ Len(s) >= 1
  BY EmptySeq, LenProperties
<1>2. Head(s) = s[1]
  BY <1>1
<1>3. /\ Tail(s) \in Seq(S) /\ Len(Tail(s)) = Len(s) - 1
      /\ \A i \in 1..Len(Tail(s)) : Tail(s)[i] = s[i+1]
  BY HeadTailProperties
<1>4. ToSet(Tail(s)) \subseteq ToSet(s)
  <2>1. ToSet(Tail(s)) = {Tail(s)[i] : i \in 1..Len(Tail(s))} /\ ToSet(s) = {s[i] : i \in 1..Len(s)}
    BY <1>3, ToSetOfSeq
  <2>2. ASSUME NEW i \in 1..Len(Tail(s)) PROVE Tail(s)[i] \in ToSet(s)
    <3>1. i + 1 \in 1..Len(s) /\ Tail(s)[i] = s[i+1]
      BY <1>1, <1>3
    <3> QED BY <2>1, <3>1
  <2> QED BY <2>1, <2>2
<1>5. Head(s) \in ToSet(s)
  BY <1>1, <1>2, ToSetOfSeq
<1> QED BY <1>3, <1>4, <1>5

\* Leaving out one place of a sequence without repetitions.
LEMMA RemoveAtInjective ==
  ASSUME NEW S, NEW s \in Seq(S), IsInjective(s), NEW k \in 1..Len(s)
  PROVE  LET r == RemoveAt(s, k)
         IN  r \in Seq(S) /\ IsInjective(r) /\ ToSet(r) = ToSet(s) \ {s[k]}
<1> DEFINE a == SubSeq(s, 1, k-1)
           b == SubSeq(s, k+1, Len(s))
           r == RemoveAt(s, k)
           n == Len(s)
<1>0. n \in Nat /\ DOMAIN s = 1..n /\ (\A i \in 1..n : s[i] \in S)
  BY LenProperties, ElementOfSeq
<1>1. a \in Seq(S) /\ Len(a) = k-1 /\ (\A i \in 1..k-1 : a[i] = s[i])
  <2>1. \A i \in 1..k-1 : s[i] \in S
    BY <1>0
  <2> QED BY <2>1, <1>0, SubSeqProperties
<1>2. b \in Seq(S) /\ Len(b) = n-k /\ (\A i \in 1..n-k : b[i] = s[k+i])
  <2>1. \A i \in k+1..n : s[i] \in S
    BY <1>0
  <2>2. /\ b \in Seq(S) /\ Len(b) = IF k+1 <= n THEN n-(k+1)+1 ELSE 0
        /\ \A i \in 1..n-(k+1)+1 : b[i] = s[(k+1)+i-1]
    <3>1. k+1 \in Int /\ n \in Int
      BY <1>0
    <3> QED BY <2>1, <3>1, SubSeqProperties
  <2> HIDE DEF b
  <2>3. Len(b) = n-k /\ n-(k+1)+1 = n-k
    <3>1. n \in Int /\ k \in Int /\ k <= n
      BY <1>0
    <3> HIDE DEF n
    <3>2. CASE k = n
      BY <2>2, <3>1, <3>2
    <3>3. CASE k # n
      BY <2>2, <3>1, <3>3
    <3> QED BY <3>2, <3>3
  <2>4. \A i \in 1..n-k : (k+1)+i-1 = k+i
    BY <1>0
  <2> QED BY <2>2, <2>3, <2>4
<1>3. /\ r \in Seq(S) /\ Len(r) = n-1
      /\ \A i \in 1..n-1 : r[i] = IF i < k THEN s[i] ELSE s[i+1]
  <2>1. r = a \o b
    BY DEF RemoveAt
  <2> HIDE DEF a, b, r
  <2>2. /\ r \in Seq(S) /\ Len(r) = (k-1) + (n-k)
        /\ \A i \in 1..(k-1)+(n-k) : r[i] = IF i <= k-1 THEN a[i] ELSE b[i-(k-1)]
    <3>1. /\ r \in Seq(S) /\ Len(r) = Len(a) + Len(b)
          /\ \A i \in 1..Len(a)+Len(b) : r[i] = IF i <= Len(a) THEN a[i] ELSE b[i-Len(a)]
      BY <1>1, <1>2, <2>1, ConcatProperties
    <3> QED BY <1>1, <1>2, <3>1
  <2>3. (k-1) + (n-k) = n-1
    BY <1>0
  <2>4. ASSUME NEW i \in 1..n-1 PROVE r[i] = IF i < k THEN s[i] ELSE s[i+1]
    <3>1. r[i] = IF i <= k-1 THEN a[i] ELSE b[i-(k-1)]
      BY <2>2, <2>3
    <3>2. CASE i < k
      <4>1. i \in 1..k-1 /\ i <= k-1
        BY <1>0, <3>2
      <4> QED BY <1>1, <3>1, <3>2, <4>1
    <3>3. CASE ~(i < k)
      <4>1. i-(k-1) \in 1..n-k /\ ~(i <= k-1) /\ k+(i-(k-1)) = i+1
        BY <1>0, <3>3
      <4> QED BY <1>2, <3>1, <3>3, <4>1
    <3> QED BY <3>2, <3>3
  <2> QED BY <2>2, <2>3, <2>4
<1> HIDE DEF r
<1>4. DOMAIN r = 1..n-1
  BY <1>0, <1>3, LenProperties
<1>5. \A i, j \in 1..n : s[i] = s[j] => i = j
  BY <1>0 DEF IsInjective
<1>6. IsInjective(r)
  <2> SUFFICES ASSUME NEW i \in 1..n-1, NEW j \in 1..n-1, r[i] = r[j] PROVE i = j
    BY <1>4 DEF IsInjective
  <2> DEFINE place(m) == IF m < k THEN m ELSE m+1
  <2>1. n \in Nat /\ k \in 1..n
    BY <1>0
  <2> HIDE DEF n
  <2>2. place(i) \in 1..n /\ place(j) \in 1..n /\ (place(i) = place(j) => i = j)
    BY <2>1
  <2>3. r[i] = s[place(i)] /\ r[j] = s[place(j)]
    BY <1>3
  <2> QED BY <1>5, <2>2, <2>3
<1>7. ToSet(r) = ToSet(s) \ {s[k]}
  <2>1. ToSet(r) = {r[i] : i \in 1..n-1} /\ ToSet(s) = {s[i] : i \in 1..n}
    BY <1>0, <1>4 DEF ToSet
  <2>2. ASSUME NEW i \in 1..n-1 PROVE r[i] \in ToSet(s) \ {s[k]}
    <3> DEFINE place == IF i < k THEN i ELSE i+1
    <3>1. n \in Nat /\ k \in 1..n
      BY <1>0
    <3> HIDE DEF n
    <3>2. place \in 1..n /\ place # k
      BY <3>1
    <3>3. r[i] = s[place]
      BY <1>3
    <3>4. s[place] # s[k]
      BY <1>5, <3>1, <3>2
    <3> QED BY <2>1, <3>2, <3>3, <3>4
  <2>3. ASSUME NEW i \in 1..n, i # k PROVE s[i] \in ToSet(r)
    <3>1. CASE i < k
      BY <1>0, <1>3, <2>1, <3>1
    <3>2. CASE i > k
      <4>1. i-1 \in 1..n-1 /\ r[i-1] = s[i]
        BY <1>0, <1>3, <3>2
      <4> QED BY <2>1, <4>1
    <3> QED BY <2>3, <3>1, <3>2
  <2> QED BY <2>1, <2>2, <2>3
<1> QED BY <1>3, <1>6, <1>7 DEF r

LEMMA AppendInjectiveSeq ==
  ASSUME NEW S, NEW s \in Seq(S), IsInjective(s), NEW e \in S, e \notin ToSet(s)
  PROVE  LET r == Append(s, e)
         IN  r \in Seq(S) /\ IsInjective(r) /\ ToSet(r) = ToSet(s) \cup {e}
<1> DEFINE n == Len(s)
           r == Append(s, e)
<1>1. /\ n \in Nat /\ r \in Seq(S) /\ Len(r) = n + 1 /\ r[n+1] = e
      /\ (\A i \in 1..n : r[i] = s[i]) /\ DOMAIN s = 1..n
  BY AppendProperties, LenProperties
<1>2. DOMAIN r = 1..n+1
  BY <1>1, LenProperties
<1> HIDE DEF r
<1>3. \A i, j \in 1..n : s[i] = s[j] => i = j
  BY <1>1 DEF IsInjective
<1>4. \A i \in 1..n : s[i] # e
  BY <1>1 DEF ToSet
<1>5. IsInjective(r)
  <2> SUFFICES ASSUME NEW i \in 1..n+1, NEW j \in 1..n+1, r[i] = r[j] PROVE i = j
    BY <1>2 DEF IsInjective
  <2>1. i \in 1..n \/ i = n+1
    BY <1>1
  <2>2. j \in 1..n \/ j = n+1
    BY <1>1
  <2> QED BY <1>1, <1>3, <1>4, <2>1, <2>2
<1>6. ToSet(r) = ToSet(s) \cup {e}
  <2>1. 1..n+1 = (1..n) \cup {n+1}
    BY <1>1
  <2>2. ToSet(r) = {r[i] : i \in 1..n+1} /\ ToSet(s) = {s[i] : i \in 1..n}
    BY <1>1, <1>2 DEF ToSet
  <2> QED BY <1>1, <2>1, <2>2
<1> QED BY <1>1, <1>5, <1>6 DEF r

\* A stamped row moves to the end of the order, or joins it there.
LEMMA StampedKeeps ==
  ASSUME RowsOK, Row \in known
  PROVE  Stamped \in Seq(Holders) /\ ToSet(Stamped) \subseteq known /\ IsInjective(Stamped)
<1> DEFINE rest == RemoveFirst(swept, Row)
<1>0. Row \in Holders /\ swept \in Seq(Holders) /\ IsInjective(swept) /\ ToSet(swept) \subseteq known
  BY DEF RowsOK
<1>a. Len(swept) \in Nat /\ DOMAIN swept = 1..Len(swept)
  BY <1>0, LenProperties
<1>1. rest \in Seq(Holders) /\ IsInjective(rest) /\ ToSet(rest) = ToSet(swept) \ {Row}
  <2>1. CASE \E i \in 1..Len(swept) : swept[i] = Row
    <3>1. PICK k \in 1..Len(swept) : swept[k] = Row
      BY <2>1
    <3>2. {i \in 1..Len(swept) : swept[i] = Row} = {k}
      BY <1>0, <1>a, <3>1 DEF IsInjective
    <3>3. Min({k}) = k
      BY <1>a, <3>1 DEF Min
    <3>4. SelectInSeq(swept, LAMBDA v : v = Row) = k
      BY <3>2, <3>3 DEF SelectInSeq
    <3>5. rest = RemoveAt(swept, k)
      BY <2>1, <3>4 DEF RemoveFirst
    <3> QED BY <1>0, <3>1, <3>5, RemoveAtInjective
  <2>2. CASE ~\E i \in 1..Len(swept) : swept[i] = Row
    <3>1. rest = swept
      BY <2>2 DEF RemoveFirst
    <3>2. Row \notin ToSet(swept)
      BY <1>a, <2>2 DEF ToSet
    <3> QED BY <1>0, <3>1, <3>2
  <2> QED BY <2>1, <2>2
<1> HIDE DEF rest
<1>2. Stamped = Append(rest, Row)
  BY DEF Stamped, rest
<1>3. Row \notin ToSet(rest)
  BY <1>1
<1> QED BY <1>0, <1>1, <1>2, <1>3, AppendInjectiveSeq

\* A batch is a sequence of rows that exist, and not empty when there are any.
LEMMA BatchKeeps ==
  ASSUME RowsOK, known # {}, NEW b \in Batches
  PROVE  b \in Seq(Holders) /\ b # <<>> /\ ToSet(b) \subseteq known
<1>1. PICK fresh \in SetToSeqs(known \ ToSet(swept)) : b = Oldest(fresh \o swept)
  BY DEF Batches
<1> DEFINE new == known \ ToSet(swept)
           all == fresh \o swept
           n == IF BatchSize < Len(all) THEN BatchSize ELSE Len(all)
<1>2. IsFiniteSet(new) /\ Cardinality(new) \in Nat /\ (Cardinality(new) = 0 <=> new = {})
  <2>1. IsFiniteSet(known)
    BY BoundAssumption, FS_Subset DEF RowsOK
  <2>2. IsFiniteSet(new)
    BY <2>1, FS_Subset
  <2> QED BY <2>2, FS_CardinalityType, FS_EmptySet
<1>3. fresh \in [1..Cardinality(new) -> new]
  BY <1>1 DEF SetToSeqs
<1>4. fresh \in Seq(known) /\ Len(fresh) = Cardinality(new)
  <2>1. fresh \in [1..Cardinality(new) -> known]
    BY <1>3
  <2> HIDE DEF new
  <2>2. fresh \in Seq(known)
    BY <1>2, <2>1, SeqDef
  <2>3. DOMAIN fresh = 1..Len(fresh) /\ DOMAIN fresh = 1..Cardinality(new) /\ Len(fresh) \in Nat
    BY <2>1, <2>2, LenProperties
  <2> QED BY <1>2, <2>2, <2>3
<1>5. swept \in Seq(known)
  <2>1. \A i \in 1..Len(swept) : swept[i] \in known
    BY ToSetOfSeq DEF RowsOK
  <2> QED BY <2>1, LenProperties DEF RowsOK
<1>6. all \in Seq(known) /\ Len(all) = Len(fresh) + Len(swept)
  BY <1>4, <1>5, ConcatProperties
<1>7. Len(all) # 0
  <2>1. CASE new = {}
    <3>1. swept # <<>>
      BY <2>1 DEF ToSet
    <3>2. Len(swept) \in Nat \ {0}
      BY <3>1, <1>5, EmptySeq
    <3> QED BY <1>2, <1>4, <1>6, <3>2
  <2>2. CASE new # {}
    <3>1. Len(swept) \in Nat
      BY <1>5, LenProperties
    <3> QED BY <1>2, <1>4, <1>6, <2>2, <3>1
  <2> QED BY <2>1, <2>2
<1> HIDE DEF all
<1>8. Len(all) \in Nat /\ n \in 1..Len(all)
  BY <1>6, <1>7, LenProperties, BoundAssumption
<1>9. b = SubSeq(all, 1, n)
  BY <1>1 DEF Oldest, all
<1> HIDE DEF n
<1>10. \A i \in 1..n : all[i] \in known
  BY <1>6, <1>8, ElementOfSeq
<1>11. b \in Seq(known) /\ Len(b) = n
  BY <1>8, <1>9, <1>10, SubSeqProperties
<1>12. b # <<>>
  BY <1>8, <1>11
<1>13. b \in Seq(Holders)
  BY <1>11, SeqMonotonic DEF RowsOK
<1> QED BY <1>11, <1>12, <1>13, ToSetOfSeq

-----------------------------------------------------------------------------
(* The locals of deliveries and of the sweep. *)

LEMMA IdleLocals == Idle \in Locals /\ Sound(Idle) /\ Idle.wrote = {} /\ Idle.pc = "idle"
<1>1. <<>> \in Seq(Leg)
  BY EmptySeq
<1> QED BY <1>1 DEF Idle, Locals, Sound, Steps, NoTx

\* Who is at work is one of those handed out, and has a transaction.
LEMMA AtWork ==
  ASSUME WorkOK, NEW w \in Workers, work[w].pc # "idle"
  PROVE  /\ work[w] \in Locals /\ Sound(work[w]) /\ work[w].tx \in Txs
         /\ work[w].wrote \subseteq known /\ w <= deliveries
<1>1. w > deliveries => work[w].pc = "idle"
  BY IdleLocals DEF WorkOK
<1>2. deliveries \in Nat /\ w \in Nat
  BY BoundAssumption DEF WorkOK, Workers
<1> QED BY <1>1, <1>2 DEF WorkOK, Sound

\* One delivery changes its locals, or begins.
LEMMA WorkStep ==
  ASSUME WorkOK, NEW w \in Workers, NEW l \in Locals, Sound(l), l.wrote \subseteq known',
         known \subseteq known', work' = [work EXCEPT ![w] = l],
         deliveries' \in 0..MaxDeliveries, deliveries <= deliveries', w <= deliveries'
  PROVE  WorkOK'
<1>1. work' \in [Workers -> Locals]
  BY DEF WorkOK
<1>2. \A v \in Workers : Sound(work'[v]) /\ work'[v].wrote \subseteq known'
  BY DEF WorkOK
<1>3. ASSUME NEW v \in Workers, v > deliveries' PROVE work'[v] = Idle
  <2>1. deliveries \in Nat /\ deliveries' \in Nat /\ v \in Nat /\ w \in Nat
    BY BoundAssumption DEF WorkOK, Workers
  <2>2. v # w /\ v > deliveries
    BY <1>3, <2>1
  <2> QED BY <2>2 DEF WorkOK
<1> QED BY <1>1, <1>2, <1>3 DEF WorkOK

\* A delivery that is at work goes on with the locals l.
LEMMA WorkOn ==
  ASSUME WorkOK, NEW w \in Workers, work[w].pc # "idle", NEW l \in Locals, Sound(l),
         l.wrote \subseteq known', known \subseteq known',
         work' = [work EXCEPT ![w] = l], UNCHANGED deliveries
  PROVE  WorkOK'
<1>1. w <= deliveries /\ deliveries \in 0..MaxDeliveries /\ deliveries <= deliveries
  BY AtWork, BoundAssumption DEF WorkOK
<1> QED BY <1>1, WorkStep

\* A new delivery: its transaction, and the first leg if it is to read.
LEMMA StartKeeps ==
  ASSUME WorkOK, UNCHANGED known, NEW t \in Txs, NEW pc \in {"read", "mark"}, NEW left \in Seq(Leg),
         pc = "read" => left # <<>>, pc = "mark" => t \notin Trades, Start(t, pc, left)
  PROVE  WorkOK'
<1> DEFINE l == [Idle EXCEPT !.pc = pc, !.tx = t, !.left = left]
<1>1. deliveries < MaxDeliveries /\ deliveries' = deliveries + 1 /\ work' = [work EXCEPT ![deliveries + 1] = l]
  BY DEF Start, Deliver
<1>2. l \in Locals /\ Sound(l) /\ l.wrote = {}
  BY IdleLocals DEF Idle, Locals, Sound, Steps
<1> HIDE DEF l
<1>3. /\ deliveries + 1 \in Workers /\ deliveries' \in 0..MaxDeliveries
      /\ deliveries <= deliveries' /\ deliveries + 1 <= deliveries'
  BY <1>1, BoundAssumption DEF WorkOK, Workers
<1> QED BY <1>1, <1>2, <1>3, WorkStep

\* Nothing a delivery does disturbs the others' part of the invariant.
LEMMA WorkSame ==
  ASSUME WorkOK, UNCHANGED <<work, deliveries>>, known \subseteq known'
  PROVE  WorkOK'
  BY DEF WorkOK

LEMMA AsleepLocals == Asleep \in SweepLocals /\ ToSet(Asleep.rows) = {} /\ Asleep.pc = "idle"
<1>1. <<>> \in Seq(Holders)
  BY EmptySeq
<1> QED BY <1>1 DEF Asleep, SweepLocals, SweepSteps, ToSet

\* A sweep under way is at a row that exists.
LEMMA AtRow ==
  ASSUME RowsOK, SweepOK, sweep.pc # "idle"
  PROVE  /\ Row \in known /\ Row \in Holders /\ sweep.rows \in Seq(Holders) /\ sweep.rows # <<>>
<1>1. sweep.rows \in Seq(Holders) /\ sweep.rows # <<>> /\ ToSet(sweep.rows) \subseteq known
  BY DEF SweepOK, SweepLocals
<1>2. Row \in known
  BY <1>1, ToSetOfHeadTail DEF Row
<1> QED BY <1>1, <1>2 DEF RowsOK

\* On to the next row, or to sleep.
LEMMA NextRowKeeps ==
  ASSUME RowsOK, SweepOK, sweep.pc # "idle", sweep' = NextRow, UNCHANGED known
  PROVE  SweepOK' /\ sweep'.pc # "signal"
<1> DEFINE s == [Asleep EXCEPT !.pc = "chain", !.rows = Tail(sweep.rows)]
<1>0. /\ sweep.rows \in Seq(Holders) /\ sweep.rows # <<>> /\ ToSet(sweep.rows) \subseteq known
  BY AtRow DEF SweepOK
<1>1. CASE Len(sweep.rows) = 1
  BY <1>1, AsleepLocals DEF NextRow, SweepOK
<1>2. CASE Len(sweep.rows) # 1
  <2>1. /\ Tail(sweep.rows) \in Seq(Holders) /\ ToSet(Tail(sweep.rows)) \subseteq known
        /\ Len(Tail(sweep.rows)) = Len(sweep.rows) - 1
    BY <1>0, ToSetOfHeadTail
  <2>2. Len(sweep.rows) \in Nat
    BY <1>0, LenProperties
  <2>3. Tail(sweep.rows) # <<>>
    <3> DEFINE rest == Tail(sweep.rows)
    <3>1. Len(rest) # 0
      BY <1>2, <2>1, <2>2
    <3> HIDE DEF rest
    <3>2. rest # <<>>
      BY <3>1
    <3> QED BY <3>2 DEF rest
  <2>4. s \in SweepLocals /\ s.rows = Tail(sweep.rows) /\ s.pc = "chain"
    BY <2>1, AsleepLocals DEF SweepLocals, SweepSteps, Asleep
  <2> HIDE DEF s
  <2>5. sweep' = s
    BY <1>2 DEF NextRow, s
  <2> QED BY <2>1, <2>3, <2>4, <2>5 DEF SweepOK
<1> QED BY <1>1, <1>2

\* The same row, another step.
LEMMA SweepStep ==
  ASSUME SweepOK, NEW s \in SweepLocals, s.rows = sweep.rows, sweep.pc # "idle", sweep' = s, UNCHANGED known
  PROVE  SweepOK'
  BY DEF SweepOK

-----------------------------------------------------------------------------
(* Types. *)

LEMMA TypeInit == Init => TypeInv
<1> SUFFICES ASSUME Init PROVE TypeInv
  OBVIOUS
<1>1. ChainOK /\ TxsOK /\ SignalsOK
  BY BoundAssumption DEF Init, ChainOK, TxsOK, SignalsOK
<1>2. RowsOK
  <2>1. balance \in [Holders -> Nat] /\ known \subseteq Holders
    BY BoundAssumption DEF Init
  <2>2. swept \in Seq(Holders) /\ ToSet(swept) = {} /\ IsInjective(swept)
    BY EmptySeq DEF Init, ToSet, IsInjective
  <2> QED BY <2>1, <2>2 DEF RowsOK
<1>3. WorkOK
  BY IdleLocals, BoundAssumption DEF Init, WorkOK
<1>4. SweepOK
  BY AsleepLocals DEF Init, SweepOK
<1> QED BY <1>1, <1>2, <1>3, <1>4 DEF TypeInv

\* The chain alone, and what the reorg deletes.
LEMMA TypeChain ==
  ASSUME TypeInv, NEW t \in Txs, Mine(t) \/ Drop(t)
  PROVE  TypeInv'
<1>1. ChainOK' /\ TxsOK'
  BY DEF TypeInv, ChainOK, TxsOK, Mine, Drop, txs
<1>2. UNCHANGED <<rows, work, sweep, eligibility, deliveries>>
  BY DEF Mine, Drop
<1>3. RowsOK' /\ WorkOK' /\ SweepOK' /\ SignalsOK'
  BY <1>2 DEF TypeInv, RowsOK, WorkOK, SweepOK, SignalsOK, rows, eligibility
<1> QED BY <1>1, <1>3 DEF TypeInv

LEMMA LegsOf ==
  ASSUME NEW t \in Txs
  PROVE  Legs[t] \in Seq(Leg) /\ Legs[t] # <<>>
  BY LegAssumption DEF Leg

\* A delivery begins, or saves a trade without a balance.
LEMMA TypeBegin ==
  ASSUME TypeInv, NEW t \in Txs, Begin(t) \/ SaveTrade(t)
  PROVE  TypeInv'
<1>1. UNCHANGED <<external, rows, sweep, eligibility>>
  BY DEF Begin, BeginTransfer, DecodeFails, BeginTrade, SaveTrade
<1>2. ChainOK' /\ RowsOK' /\ SweepOK' /\ SignalsOK'
  BY <1>1 DEF TypeInv, ChainOK, RowsOK, SweepOK, SignalsOK, external, rows, eligibility
<1>3. TxsOK'
  BY DEF TypeInv, TxsOK, Begin, BeginTransfer, DecodeFails, BeginTrade, SaveTrade, txs
<1>4. UNCHANGED known
  BY <1>1 DEF rows
<1>5. WorkOK'
  <2>0. WorkOK
    BY DEF TypeInv
  <2>1. ASSUME NEW via \in Entities, BeginTransfer(t, via) PROVE WorkOK'
    BY <1>4, <2>0, <2>1, LegsOf, StartKeeps DEF BeginTransfer
  <2>2. ASSUME NEW via \in Entities, DecodeFails(t, via) PROVE WorkOK'
    <3>1. <<>> \in Seq(Leg) /\ t \notin Trades /\ Start(t, "mark", <<>>)
      BY <2>2, EmptySeq DEF DecodeFails
    <3> QED BY <1>4, <2>0, <3>1, StartKeeps
  <2>3. ASSUME NEW via \in Entities, BeginTrade(t, via) PROVE WorkOK'
    BY <1>4, <2>0, <2>3, LegsOf, StartKeeps DEF BeginTrade
  <2>4. CASE SaveTrade(t)
    <3>1. deliveries < MaxDeliveries /\ deliveries' = deliveries + 1 /\ UNCHANGED work
      BY <2>4 DEF SaveTrade, Deliver
    <3>2. deliveries \in Nat /\ deliveries' \in 0..MaxDeliveries
      BY <2>0, <3>1, BoundAssumption DEF WorkOK
    <3>3. \A w \in Workers : w > deliveries' => w > deliveries
      BY <3>1, <3>2 DEF Workers
    <3> QED BY <1>4, <2>0, <3>1, <3>2, <3>3 DEF WorkOK
  <2> QED BY <2>1, <2>2, <2>3, <2>4 DEF Begin
<1> QED BY <1>2, <1>3, <1>5 DEF TypeInv

\* The steps of a delivery that leave the rows alone.
LEMMA TypeQuietDelivery ==
  ASSUME TypeInv, NEW w \in Workers, Read(w) \/ Mark(w) \/ MarkFails(w) \/ Emit(w) \/ Fail(w)
  PROVE  TypeInv'
<1>0. WorkOK /\ RowsOK /\ SignalsOK /\ TxsOK
  BY DEF TypeInv
<1>1. UNCHANGED <<external, rows, sweep, unseen, deliveries>> /\ work[w].pc # "idle"
  BY DEF Read, Mark, MarkFails, Emit, Fail, eligibility
<1>2. UNCHANGED known
  BY <1>1 DEF rows
<1>3. /\ work[w] \in Locals /\ Sound(work[w]) /\ work[w].tx \in Txs /\ work[w].wrote \subseteq known
  BY <1>0, <1>1, AtWork
<1>4. ChainOK' /\ RowsOK' /\ SweepOK'
  BY <1>1 DEF TypeInv, ChainOK, RowsOK, SweepOK, external, rows
<1>5. TxsOK'
  BY <1>0, <1>3 DEF Read, Mark, MarkFails, Emit, Fail, TxsOK, Sound, txs
<1>6. SignalsOK'
  BY <1>0, <1>1, <1>2, <1>3 DEF Read, Mark, MarkFails, Emit, Fail, SignalsOK, eligibility
<1>7. \E l \in Locals : Sound(l) /\ l.wrote \subseteq known /\ work' = [work EXCEPT ![w] = l]
  <2>1. CASE Read(w)
    <3> DEFINE h == Head(work[w].left).holder
               l == [work[w] EXCEPT !.pc = "write", !.exists = h \in known, !.found = balance[h]]
    <3>1. work' = [work EXCEPT ![w] = l]
      BY <1>3, <2>1 DEF Read, Locals
    <3>2. work[w].left \in Seq(Leg) /\ work[w].left # <<>>
      BY <1>3, <2>1 DEF Read, Locals, Sound
    <3>3. h \in Holders
      <4>1. Head(work[w].left) \in Leg
        BY <3>2, HeadTailProperties
      <4> QED BY <4>1 DEF Leg
    <3>4. balance[h] \in Nat /\ (h \in known) \in BOOLEAN
      BY <1>0, <3>3 DEF RowsOK
    <3> HIDE DEF h
    <3>5. l \in Locals /\ l.wrote = work[w].wrote
      BY <1>3, <3>4 DEF Locals, Steps
    <3>6. Sound(l)
      BY <1>3, <3>2 DEF Sound, Locals
    <3> QED BY <1>3, <3>1, <3>5, <3>6
  <2>2. CASE Mark(w) \/ MarkFails(w)
    <3> DEFINE l == [work[w] EXCEPT !.pc = "emit"]
    <3>1. work' = [work EXCEPT ![w] = l]
      BY <1>3, <2>2 DEF Mark, MarkFails, Locals
    <3>2. l \in Locals /\ Sound(l) /\ l.wrote = work[w].wrote
      BY <1>3 DEF Locals, Steps, Sound
    <3> QED BY <1>3, <3>1, <3>2
  <2>3. CASE Emit(w) \/ Fail(w)
    BY <2>3, IdleLocals DEF Emit, Fail
  <2> QED BY <2>1, <2>2, <2>3
<1>8. WorkOK'
  BY <1>0, <1>1, <1>2, <1>7, WorkOn
<1> QED BY <1>4, <1>5, <1>6, <1>8 DEF TypeInv

\* The locals after a leg, and the balance it writes.
AfterLeg(w) ==
  LET leg == Head(work[w].left)
      next == Clamp(work[w].found + leg.by)
      noop == work[w].exists /\ next = work[w].found
      left == Tail(work[w].left)
  IN [work[w] EXCEPT
        !.pc = IF work[w].tx \in Trades THEN "emit" ELSE IF left = <<>> THEN "mark" ELSE "read",
        !.left = left, !.exists = FALSE, !.found = 0,
        !.wrote = IF noop THEN @ ELSE Changed(w, leg.holder)]

LEMMA TypeWrite ==
  ASSUME TypeInv, NEW w \in Workers, Write(w)
  PROVE  TypeInv'
<1> DEFINE h == Head(work[w].left).holder
           next == Clamp(work[w].found + Head(work[w].left).by)
           l == AfterLeg(w)
<1>0. WorkOK /\ RowsOK /\ SignalsOK /\ TxsOK /\ work[w].pc = "write"
  BY DEF TypeInv, Write
<1>1. work[w] \in Locals /\ Sound(work[w]) /\ work[w].tx \in Txs /\ work[w].wrote \subseteq known
  BY <1>0, AtWork
<1>2. work[w].left \in Seq(Leg) /\ work[w].left # <<>> /\ work[w].found \in Nat
  BY <1>0, <1>1 DEF Locals, Sound
<1>3. Head(work[w].left) \in Leg /\ Tail(work[w].left) \in Seq(Leg)
  BY <1>2, HeadTailProperties
<1>4. h \in Holders /\ next \in Nat
  <2> DEFINE leg == Head(work[w].left)
             found == work[w].found
  <2>1. leg.holder \in Holders /\ leg.by \in Int
    BY <1>3 DEF Leg
  <2>2. found \in Nat
    BY <1>2
  <2> HIDE DEF leg, found
  <2>3. Clamp(found + leg.by) \in Nat
    BY <2>1, <2>2 DEF Clamp
  <2> QED BY <2>1, <2>3 DEF leg, found
<1>5. /\ UNCHANGED <<external, swept, marked, decoded, sweep, woken, silent, deliveries>>
      /\ UNCHANGED <<balance, unseen>> \/ Put(h, next)
      /\ known' = known \cup {h}
      /\ traded' = IF work[w].tx \in Trades THEN traded \cup {work[w].tx} ELSE traded
  BY DEF Write
<1>6. work' = [work EXCEPT ![w] = l]
  BY <1>1 DEF Write, AfterLeg, Locals
<1>7. l \in Locals /\ Sound(l) /\ l.wrote \subseteq known \cup {h}
  <2>1. l.wrote \subseteq known \cup {h} /\ l.wrote \subseteq Holders
    BY <1>0, <1>1, <1>4 DEF AfterLeg, Locals, Changed, RowsOK
  <2>2. l \in Locals
    BY <1>1, <1>3, <2>1 DEF AfterLeg, Locals, Steps
  <2>3. Sound(l)
    BY <1>1 DEF AfterLeg, Locals, Sound
  <2> QED BY <2>1, <2>2, <2>3
<1> HIDE DEF h, next, l
<1>8. WorkOK'
  <2>1. work[w].pc # "idle" /\ l.wrote \subseteq known' /\ known \subseteq known' /\ UNCHANGED deliveries
    BY <1>0, <1>5, <1>7
  <2> QED BY <1>0, <1>6, <1>7, <2>1, WorkOn
<1>9. RowsOK' /\ SignalsOK'
  <2>1. balance' \in [Holders -> Nat] /\ unseen' \subseteq known'
    BY <1>0, <1>4, <1>5 DEF Put, RowsOK, SignalsOK
  <2> QED BY <1>0, <1>4, <1>5, <2>1 DEF RowsOK, SignalsOK
<1>10. ChainOK' /\ TxsOK' /\ SweepOK'
  BY <1>0, <1>1, <1>5 DEF TypeInv, ChainOK, TxsOK, SweepOK, external
<1> QED BY <1>8, <1>9, <1>10 DEF TypeInv

\* The sweep: it writes rows that exist, and keeps their order free of repetitions.
LEMMA TypeSweep ==
  ASSUME TypeInv, Sweep
  PROVE  TypeInv'
<1>0. ChainOK /\ RowsOK /\ SweepOK /\ SignalsOK
  BY DEF TypeInv
<1>1. UNCHANGED <<external, known, txs, work, deliveries>>
  BY DEF Sweep, SweepStart, ReadChain, SkipUnread, Find, Save, Signal, RowFails, rows
<1>2. ChainOK' /\ TxsOK' /\ WorkOK'
  BY <1>1, WorkSame DEF TypeInv, ChainOK, TxsOK, external, txs
<1>3. CASE SweepStart
  <2>1. UNCHANGED <<rows, eligibility>> /\ known # {}
    BY <1>3 DEF SweepStart
  <2>2. PICK b \in Batches : sweep' = [Asleep EXCEPT !.pc = "chain", !.rows = b]
    BY <1>3 DEF SweepStart
  <2> DEFINE s == [Asleep EXCEPT !.pc = "chain", !.rows = b]
  <2>3. b \in Seq(Holders) /\ b # <<>> /\ ToSet(b) \subseteq known
    BY <1>0, <2>1, BatchKeeps
  <2>4. s \in SweepLocals /\ s.rows = b
    BY <2>3, AsleepLocals DEF SweepLocals, SweepSteps, Asleep
  <2> HIDE DEF s
  <2>5. sweep' = s
    BY <2>2 DEF s
  <2>6. SweepOK'
    BY <1>1, <2>3, <2>4, <2>5 DEF SweepOK
  <2> QED BY <1>0, <1>2, <2>1, <2>6 DEF TypeInv, RowsOK, SignalsOK, rows, eligibility
<1>4. CASE ReadChain \/ Find
  <2>1. UNCHANGED <<rows, eligibility>> /\ sweep.pc # "idle"
    BY <1>4 DEF ReadChain, Find
  <2>2. \E s \in SweepLocals : sweep' = s /\ s.rows = sweep.rows
    <3>1. Row \in Holders /\ sweep \in SweepLocals
      BY <1>0, <2>1, AtRow DEF SweepOK
    <3>2. CASE ReadChain
      <4> DEFINE s == [sweep EXCEPT !.pc = "find", !.value = chain[Row]]
      <4>1. chain[Row] \in Nat
        BY <1>0, <3>1 DEF ChainOK
      <4>2. s \in SweepLocals /\ s.rows = sweep.rows
        BY <3>1, <4>1 DEF SweepLocals, SweepSteps
      <4> QED BY <3>2, <4>2 DEF ReadChain
    <3>3. CASE Find
      <4> DEFINE s == [sweep EXCEPT !.pc = "save", !.same = balance[Row] = sweep.value]
      <4>1. s \in SweepLocals /\ s.rows = sweep.rows
        BY <3>1 DEF SweepLocals, SweepSteps
      <4> QED BY <3>3, <4>1 DEF Find
    <3> QED BY <1>4, <3>2, <3>3
  <2>3. SweepOK'
    BY <1>0, <1>1, <2>1, <2>2, SweepStep
  <2> QED BY <1>0, <1>2, <2>1, <2>3 DEF TypeInv, RowsOK, SignalsOK, rows, eligibility
<1>5. CASE SkipUnread \/ RowFails
  <2>1. UNCHANGED <<known, balance, eligibility>> /\ sweep.pc # "idle" /\ sweep' = NextRow
    BY <1>5 DEF SkipUnread, RowFails
  <2>2. swept' \in {swept, Stamped}
    BY <1>5 DEF SkipUnread, RowFails, Skipped
  <2>3. Row \in known
    BY <1>0, <2>1, AtRow
  <2>4. RowsOK'
    <3>1. CASE swept' = swept
      BY <1>0, <2>1, <3>1 DEF RowsOK
    <3>2. CASE swept' = Stamped
      BY <1>0, <2>1, <2>3, <3>2, StampedKeeps DEF RowsOK
    <3> QED BY <2>2, <3>1, <3>2
  <2>5. SweepOK'
    BY <1>0, <2>1, NextRowKeeps
  <2> QED BY <1>0, <1>2, <2>1, <2>4, <2>5 DEF TypeInv, SignalsOK, eligibility
<1>6. CASE Save
  <2>1. /\ sweep.pc = "save" /\ Put(Row, sweep.value) /\ swept' = Stamped /\ UNCHANGED <<known, woken>>
        /\ silent' \subseteq silent \cup {Row}
        /\ sweep' = NextRow \/ sweep' = [sweep EXCEPT !.pc = "signal", !.value = 0]
    BY <1>6 DEF Save
  <2>2. Row \in known /\ Row \in Holders /\ sweep \in SweepLocals /\ sweep.value \in Nat
    BY <1>0, <2>1, AtRow DEF SweepOK, SweepLocals
  <2>3. balance' \in [Holders -> Nat] /\ SignalsOK'
    BY <1>0, <2>1, <2>2 DEF Put, RowsOK, SignalsOK
  <2>4. RowsOK'
    BY <1>0, <2>1, <2>2, <2>3, StampedKeeps DEF RowsOK
  <2>5. SweepOK'
    <3>1. CASE sweep' = NextRow
      BY <1>0, <2>1, <3>1, NextRowKeeps
    <3>2. CASE sweep' = [sweep EXCEPT !.pc = "signal", !.value = 0]
      <4> DEFINE s == [sweep EXCEPT !.pc = "signal", !.value = 0]
      <4>1. s \in SweepLocals /\ s.rows = sweep.rows
        BY <2>2 DEF SweepLocals, SweepSteps
      <4> QED BY <1>0, <2>1, <3>2, <4>1, SweepStep
    <3> QED BY <2>1, <3>1, <3>2
  <2> QED BY <1>2, <2>3, <2>4, <2>5 DEF TypeInv
<1>7. CASE Signal
  <2>1. UNCHANGED <<rows, unseen, silent>> /\ sweep.pc # "idle" /\ sweep' = NextRow /\ woken' = woken \cup {Row}
    BY <1>7 DEF Signal
  <2>2. SignalsOK'
    BY <1>0, <1>1, <2>1, AtRow DEF SignalsOK
  <2>3. SweepOK'
    BY <1>0, <1>1, <2>1, NextRowKeeps
  <2> QED BY <1>0, <1>2, <2>1, <2>2, <2>3 DEF TypeInv, RowsOK, rows
<1> QED BY <1>3, <1>4, <1>5, <1>6, <1>7 DEF Sweep

\* Eligibility reads, and a crash forgets: signals become silence about rows that exist.
LEMMA TypeSignals ==
  ASSUME TypeInv, Crash \/ \E h \in Holders : Recompute(h) \/ RecomputeFails(h)
  PROVE  TypeInv'
<1>1. UNCHANGED <<external, rows, txs, deliveries>>
  BY DEF Crash, Recompute, RecomputeFails
<1>2. ChainOK' /\ RowsOK' /\ TxsOK'
  BY <1>1 DEF TypeInv, ChainOK, RowsOK, TxsOK, external, rows, txs
<1>3. CASE Crash
  <2>1. WorkOK'
    BY <1>1, <1>3, IdleLocals DEF Crash, TypeInv, WorkOK, rows
  <2>2. SweepOK'
    BY <1>3, AsleepLocals DEF Crash, SweepOK
  <2> DEFINE written == UNION {work[w].wrote : w \in Workers}
             row == IF sweep.pc = "signal" THEN {Row} ELSE {}
  <2>3. row \subseteq known /\ written \subseteq known
    BY AtRow DEF TypeInv, WorkOK
  <2>4. woken' = {} /\ UNCHANGED <<known, unseen>> /\ silent' = silent \cup woken \cup written \cup row
    BY <1>1, <1>3 DEF Crash, rows
  <2> HIDE DEF written, row
  <2>5. SignalsOK'
    BY <2>3, <2>4 DEF TypeInv, SignalsOK
  <2> QED BY <1>2, <2>1, <2>2, <2>5 DEF TypeInv
<1>4. ASSUME NEW h \in Holders, Recompute(h) \/ RecomputeFails(h) PROVE TypeInv'
  <2>1. UNCHANGED <<work, sweep>>
    BY <1>4 DEF Recompute, RecomputeFails
  <2>2. WorkOK' /\ SweepOK'
    BY <1>1, <2>1, WorkSame DEF TypeInv, SweepOK, rows
  <2>3. /\ woken' = woken \ {h} /\ h \in woken
        /\ unseen' \subseteq unseen /\ silent' \subseteq silent \cup {h} /\ UNCHANGED known
    BY <1>1, <1>4 DEF Recompute, RecomputeFails, rows
  <2>4. SignalsOK'
    BY <2>3 DEF TypeInv, SignalsOK
  <2> QED BY <1>2, <2>2, <2>4 DEF TypeInv
<1> QED BY <1>3, <1>4

LEMMA TypeNext == TypeInv /\ [Next]_vars => TypeInv'
<1> SUFFICES ASSUME TypeInv, [Next]_vars PROVE TypeInv'
  OBVIOUS
<1>1. CASE UNCHANGED vars
  BY <1>1 DEF vars, external, rows, txs, eligibility, TypeInv, ChainOK, RowsOK, TxsOK, WorkOK, SweepOK, SignalsOK
<1>2. CASE Next
  BY <1>2, TypeChain, TypeBegin, TypeQuietDelivery, TypeWrite, TypeSweep, TypeSignals DEF Next, Delivery
<1> QED BY <1>1, <1>2

LEMMA TypeInvariance == Spec => []TypeInv
  BY TypeInit, TypeNext, PTL DEF Spec

\* Whatever is applied twice, out of order, or reorged away, no balance goes below
\* zero, and the sweep holds and orders rows that exist, each once.
THEOREM TypeCorrect == Spec => []TypeOK
<1>1. TypeInv => TypeOK
  <2> SUFFICES ASSUME TypeInv PROVE TypeOK
    OBVIOUS
  <2>1. ASSUME NEW w \in Workers
        PROVE  /\ work[w].pc \in Steps /\ work[w].tx \in Txs \cup {NoTx}
               /\ work[w].pc \in {"read", "write"} => work[w].left # <<>>
               /\ work[w].found \in Nat /\ work[w].wrote \subseteq known
    BY DEF TypeInv, WorkOK, Locals, Sound
  <2>2. sweep.pc \in SweepSteps /\ ToSet(sweep.rows) \subseteq known /\ sweep.value \in Nat
    BY DEF TypeInv, SweepOK, SweepLocals
  <2> QED BY <2>1, <2>2 DEF TypeInv, ChainOK, RowsOK, TxsOK, SignalsOK, TypeOK
<1> QED BY TypeInvariance, <1>1, PTL

-----------------------------------------------------------------------------
(* Signals. *)

Wrote == UNION {work[w].wrote : w \in Workers}
Signalling == IF sweep.pc = "signal" THEN {Row} ELSE {}
Owed == woken \cup silent \cup Wrote \cup Signalling

\* What the property says, as an inclusion.
LEMMA OwedIsTheProperty ==
  /\ UnseenIsOwed <=> unseen \subseteq Owed
  /\ UnseenIsOwed' <=> unseen' \subseteq Owed'
  BY DEF UnseenIsOwed, Owed, Wrote, Signalling

\* When one delivery changes its locals, the others still owe what they wrote.
LEMMA WroteStep ==
  ASSUME WorkOK, NEW w \in Workers, NEW l, work' = [work EXCEPT ![w] = l]
  PROVE  Wrote \subseteq Wrote' \cup work[w].wrote /\ l.wrote \subseteq Wrote'
<1>1. work'[w] = l /\ \A v \in Workers : v # w => work'[v] = work[v]
  BY DEF WorkOK
<1> QED BY <1>1 DEF Wrote

\* Transactions and deliveries that begin leave every debt where it is.
LEMMA OwedByOthers ==
  ASSUME IInv, NEW t \in Txs, Mine(t) \/ Drop(t) \/ Begin(t) \/ SaveTrade(t)
  PROVE  UnseenIsOwed'
<1>1. UNCHANGED <<sweep, eligibility>>
  BY DEF Mine, Drop, Begin, BeginTransfer, DecodeFails, BeginTrade, SaveTrade
<1>2. Wrote \subseteq Wrote'
  <2>1. CASE UNCHANGED work
    BY <2>1 DEF Wrote
  <2>2. ASSUME NEW pc, NEW left, Start(t, pc, left) PROVE Wrote \subseteq Wrote'
    <3> DEFINE l == [Idle EXCEPT !.pc = pc, !.tx = t, !.left = left]
    <3>1. deliveries < MaxDeliveries /\ work' = [work EXCEPT ![deliveries + 1] = l]
      BY <2>2 DEF Start, Deliver
    <3>2. deliveries + 1 \in Workers /\ deliveries + 1 > deliveries
      BY <3>1, BoundAssumption DEF IInv, TypeInv, WorkOK, Workers
    <3>3. work[deliveries + 1].wrote = {}
      BY <3>2, IdleLocals DEF IInv, TypeInv, WorkOK
    <3> HIDE DEF l
    <3> QED BY <3>1, <3>2, <3>3, WroteStep DEF IInv, TypeInv
  <2>3. UNCHANGED work \/ \E pc \in Steps : \E left \in {Legs[t], <<>>} : Start(t, pc, left)
    BY DEF Mine, Drop, Begin, BeginTransfer, DecodeFails, BeginTrade, SaveTrade, Steps
  <2> QED BY <2>1, <2>2, <2>3
<1> QED BY <1>1, <1>2, OwedIsTheProperty DEF IInv, Owed, Signalling, Row, eligibility

\* A delivery owes what it has written until it emits, or fails into silence.
LEMMA OwedByDelivery ==
  ASSUME IInv, NEW w \in Workers, Delivery(w)
  PROVE  UnseenIsOwed'
<1>0. WorkOK /\ UNCHANGED sweep /\ unseen \subseteq Owed /\ work[w].pc # "idle"
  BY OwedIsTheProperty DEF IInv, TypeInv, Delivery, Read, Write, Mark, MarkFails, Emit, Fail
<1>1. work[w] \in Locals
  BY <1>0, AtWork
<1>2. CASE Read(w) \/ Mark(w) \/ MarkFails(w)
  <2>1. \E l : work' = [work EXCEPT ![w] = l] /\ l.wrote = work[w].wrote
    <3>1. CASE Read(w)
      <4> DEFINE h == Head(work[w].left).holder
                 l == [work[w] EXCEPT !.pc = "write", !.exists = h \in known, !.found = balance[h]]
      <4>1. work' = [work EXCEPT ![w] = l] /\ l.wrote = work[w].wrote
        BY <1>1, <3>1 DEF Read, Locals
      <4> QED BY <4>1
    <3>2. CASE Mark(w) \/ MarkFails(w)
      <4> DEFINE l == [work[w] EXCEPT !.pc = "emit"]
      <4>1. work' = [work EXCEPT ![w] = l] /\ l.wrote = work[w].wrote
        BY <1>1, <3>2 DEF Mark, MarkFails, Locals
      <4> QED BY <4>1
    <3> QED BY <1>2, <3>1, <3>2
  <2>2. Wrote \subseteq Wrote'
    BY <1>0, <2>1, WroteStep
  <2>3. UNCHANGED <<woken, silent, unseen>>
    BY <1>2 DEF Read, Mark, MarkFails, eligibility
  <2> QED BY <1>0, <2>2, <2>3, OwedIsTheProperty DEF Owed, Signalling, Row
<1>3. CASE Emit(w) \/ Fail(w)
  <2>1. /\ work' = [work EXCEPT ![w] = Idle] /\ unseen' = unseen
        /\ woken \cup silent \cup work[w].wrote \subseteq woken' \cup silent'
    BY <1>3 DEF Emit, Fail
  <2>2. Wrote \subseteq Wrote' \cup work[w].wrote
    BY <1>0, <2>1, WroteStep
  <2> QED BY <1>0, <2>1, <2>2, OwedIsTheProperty DEF Owed, Signalling, Row
<1>4. CASE Write(w)
  <2> DEFINE l == AfterLeg(w)
             h == Head(work[w].left).holder
             noop == work[w].exists /\ Clamp(work[w].found + Head(work[w].left).by) = work[w].found
  <2>1. work' = [work EXCEPT ![w] = l] /\ UNCHANGED <<woken, silent>>
    BY <1>1, <1>4 DEF Write, AfterLeg, Locals
  <2>2. IF noop THEN unseen' = unseen ELSE unseen' \subseteq unseen \cup {h}
    BY <1>4 DEF Write, Put
  <2>3. l.wrote = IF noop THEN work[w].wrote ELSE work[w].wrote \cup {h}
    BY <1>1 DEF AfterLeg, Locals, Changed
  <2> HIDE DEF l, h, noop
  <2>4. Wrote \subseteq Wrote' \cup work[w].wrote /\ l.wrote \subseteq Wrote'
    BY <1>0, <2>1, WroteStep
  <2>5. unseen' \subseteq unseen \cup l.wrote /\ work[w].wrote \subseteq l.wrote
    BY <2>2, <2>3
  <2> QED BY <1>0, <2>1, <2>4, <2>5, OwedIsTheProperty DEF Owed, Signalling, Row
<1> QED BY <1>2, <1>3, <1>4 DEF Delivery

\* The sweep: a difference it saw it signals, one it did not see is in silence.
LEMMA OwedBySweep ==
  ASSUME IInv, Sweep
  PROVE  UnseenIsOwed'
<1>0. RowsOK /\ SweepOK /\ unseen \subseteq Owed /\ UNCHANGED <<work, known>> /\ Wrote' = Wrote
  BY OwedIsTheProperty
     DEF IInv, TypeInv, Sweep, SweepStart, ReadChain, SkipUnread, Find, Save, Signal, RowFails, rows, Wrote
<1>1. CASE SweepStart \/ ReadChain \/ SkipUnread \/ Find \/ RowFails
  <2>1. sweep.pc # "signal" /\ UNCHANGED eligibility
    BY <1>1 DEF SweepStart, ReadChain, SkipUnread, Find, RowFails
  <2> QED BY <1>0, <2>1, OwedIsTheProperty DEF Owed, Signalling, eligibility
<1>2. CASE Save
  <2>1. sweep.pc = "save" /\ UNCHANGED woken
    BY <1>2 DEF Save
  <2>2. unseen' = IF balance[Row] = sweep.value THEN unseen ELSE unseen \cup {Row}
    BY <1>2 DEF Save, Put
  <2>3. CASE sweep.same
    <3>1. silent' = IF balance[Row] # sweep.value THEN silent \cup {Row} ELSE silent
      BY <1>2, <2>3 DEF Save
    <3> QED BY <1>0, <2>1, <2>2, <3>1, OwedIsTheProperty DEF Owed, Signalling
  <2>4. CASE ~sweep.same
    <3>1. silent' = silent /\ sweep' = [sweep EXCEPT !.pc = "signal", !.value = 0]
      BY <1>2, <2>4 DEF Save
    <3>2. sweep'.pc = "signal" /\ sweep'.rows = sweep.rows
      BY <1>0, <3>1 DEF SweepOK, SweepLocals
    <3>3. Row' = Row
      BY <3>2 DEF Row
    <3> QED BY <1>0, <2>1, <2>2, <3>1, <3>2, <3>3, OwedIsTheProperty DEF Owed, Signalling
  <2> QED BY <2>3, <2>4
<1>3. CASE Signal
  BY <1>0, <1>3, OwedIsTheProperty DEF Signal, Owed, Signalling
<1> QED BY <1>1, <1>2, <1>3 DEF Sweep

\* Eligibility reads or fails into silence; a crash leaves every debt in silence.
LEMMA OwedByEligibility ==
  ASSUME IInv, Crash \/ \E h \in Holders : Recompute(h) \/ RecomputeFails(h)
  PROVE  UnseenIsOwed'
<1>0. unseen \subseteq Owed
  BY OwedIsTheProperty DEF IInv
<1>1. CASE Crash
  <2>1. silent' = silent \cup woken \cup Wrote \cup Signalling
    BY <1>1 DEF Crash, Wrote, Signalling
  <2>2. unseen' = unseen
    BY <1>1 DEF Crash
  <2> QED BY <1>0, <2>1, <2>2, OwedIsTheProperty DEF Owed
<1>2. ASSUME NEW h \in Holders, Recompute(h) \/ RecomputeFails(h) PROVE UnseenIsOwed'
  <2>1. UNCHANGED <<work, sweep>> /\ Wrote' = Wrote /\ Signalling' = Signalling
    BY <1>2 DEF Recompute, RecomputeFails, Wrote, Signalling, Row
  <2> QED BY <1>0, <1>2, <2>1, OwedIsTheProperty DEF Recompute, RecomputeFails, Owed
<1> QED BY <1>1, <1>2

\* Together with the types the property is inductive.
LEMMA OwedNext == IInv /\ [Next]_vars => IInv'
<1> SUFFICES ASSUME IInv, [Next]_vars PROVE IInv'
  OBVIOUS
<1>1. TypeInv'
  BY TypeNext DEF IInv
<1>2. CASE UNCHANGED vars
  <2>1. UNCHANGED <<eligibility, work, sweep>>
    BY <1>2 DEF vars
  <2>2. unseen' = unseen /\ Owed' = Owed
    BY <2>1 DEF eligibility, Owed, Wrote, Signalling, Row
  <2> QED BY <1>1, <2>2, OwedIsTheProperty DEF IInv
<1>3. CASE Next
  BY <1>1, <1>3, OwedByOthers, OwedByDelivery, OwedBySweep, OwedByEligibility DEF IInv, Next
<1> QED BY <1>2, <1>3

LEMMA OwedInit == Init => IInv
<1>1. Init => UnseenIsOwed
  BY DEF Init, UnseenIsOwed
<1> QED BY <1>1, TypeInit DEF IInv

\* For any number of deliveries, legs and rows, a change that eligibility has not
\* read is owed a signal, by the queue, its writer or the sweep, unless one of the
\* four ways into silence was taken.
THEOREM ChangesAreOwed == Spec => []UnseenIsOwed
<1>1. IInv => UnseenIsOwed
  BY DEF IInv
<1> QED BY OwedInit, OwedNext, <1>1, PTL DEF Spec
===============================================================================
