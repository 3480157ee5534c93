-------------------------- MODULE RoomAccess_proofs ---------------------------
(***************************************************************************)
(* RoomMembership and AccessLedger, which has the access columns and the    *)
(* pushes of the same row.  For all sets of recomputations, publish slots   *)
(* and callers and all bounds: types, the agreement of a pending state with *)
(* the decision stored beside it, and pushes that alternate.                *)
(***************************************************************************)
EXTENDS RoomMembership, AccessLedger, FiniteSetTheorems, TLAPS

-----------------------------------------------------------------------------
(* RoomMembership                                                           *)

\* The two are inductive together: a blind write needs a row to write into.
IInv == TypeOK /\ PendingMatchesEligible

-----------------------------------------------------------------------------
(* Helpers of the model. *)

\* Adding a job keeps the queue within its bound.
LEMMA EnqueueType ==
  ASSUME NEW k \in Kinds, jobs \in [Kinds -> 0..MaxJobs], Enqueue(k)
  PROVE  jobs' \in [Kinds -> 0..MaxJobs]
  BY BoundAssumption DEF Enqueue

\* Emitting and handling an event keeps the counts natural.
LEMMA EventTypes ==
  ASSUME NEW h \in Handlers, NEW H \in SUBSET Handlers, events \in [Handlers -> Nat]
  PROVE  /\ Emitted(h) \in [Handlers -> Nat]
         /\ Arrives(H) \in [Handlers -> Nat]
         /\ events[h] > 0 => Handled(h) \in [Handlers -> Nat]
  BY DEF Emitted, Arrives, Handled

(* EligibilityService.nextRelayState: what it returns is a state, and a      *)
(* pending one only in the direction of the decision.                        *)
LEMMA NextRelayStateAgrees ==
  ASSUME NEW eligible \in BOOLEAN, NEW key \in BOOLEAN, NEW prev \in RelayStates
  PROVE  LET s == NextRelayState(eligible, key, prev)
         IN  /\ s \in RelayStates
             /\ s = "pending_add" => eligible
             /\ s = "pending_remove" => ~eligible
  BY DEF NextRelayState, RelayStates

\* The rows an instance starts from, and the locals of an idle slot.
LEMMA RowTypes == NoRow \in Rows /\ Settled \in Rows
  BY DEF NoRow, Settled, Rows, RelayStates

LEMMA IdleType == IdleRecompute \in Locals
  BY RowTypes DEF IdleRecompute, Locals

-----------------------------------------------------------------------------
\* The initial states satisfy the invariant.
THEOREM InitInvariant == Init => IInv
<1> SUFFICES ASSUME Init PROVE IInv
  OBVIOUS
<1>0. row = NoRow \/ row = Settled
  BY Zenon DEF Init
<1>1. row \in Rows /\ (row.state = "absent" \/ row.state = "added")
  <2>1. NoRow.state = "absent" /\ Settled.state = "added"
    BY DEF NoRow, Settled
  <2> QED BY <1>0, <2>1, RowTypes
<1>2. PendingMatchesEligible
  BY <1>1 DEF PendingMatchesEligible
<1>3. recompute \in [Recomputes -> Locals]
  BY IdleType DEF Init
<1>4. jobs \in [Kinds -> 0..MaxJobs] /\ changes \in 0..MaxChanges /\ faults \in 0..MaxFaults
  BY BoundAssumption DEF Init
<1>5. relay \in [group : BOOLEAN, member : BOOLEAN] /\ events \in [Handlers -> Nat]
  BY DEF Init, NoEvents
<1>6. ack \in [Slots -> [pc : {"idle", "read", "write"}, kind : Kinds]]
  BY DEF Init, IdleAck, Kinds
<1>7. TypeOK
  BY <1>1, <1>3, <1>4, <1>5, <1>6 DEF Init, TypeOK
<1> QED BY <1>2, <1>7 DEF IInv

-----------------------------------------------------------------------------
(* EligibilityService: the locals of a recomputation, and its write. *)

\* onBalanceChanged, onCommunityUpserted, onLinkChanged: a recomputation starts well typed.
LEMMA BeginKeeps ==
  ASSUME IInv, NEW r \in Recomputes, NEW h \in {"single", "linked", "roster"}, Begin(r, h)
  PROVE  recompute' \in [Recomputes -> Locals] /\ events' \in [Handlers -> Nat]
<1>1. h \in Handlers
  BY DEF Handlers
<1>2. events' \in [Handlers -> Nat]
  BY <1>1, EventTypes DEF Begin, IInv, TypeOK
<1> DEFINE l == Started(h)
<1>a. room \in {"open", "muted", "deleted"}
  BY DEF IInv, TypeOK
<1>3. l \in Locals
  BY <1>a, RowTypes DEF Locals, Started
<1>4. recompute' = recompute \/ recompute' = [recompute EXCEPT ![r] = l]
  BY DEF Begin
<1> HIDE DEF l
<1> QED BY <1>2, <1>3, <1>4 DEF IInv, TypeOK

\* recomputeMember: each read leaves the locals well typed.
LEMMA ReadKeeps ==
  ASSUME IInv, NEW r \in Recomputes, Read(r)
  PROVE  recompute' \in [Recomputes -> Locals] /\ cache' \in BOOLEAN
<1> DEFINE l == recompute[r]
           what == ReadOrder[l.via][l.at]
           key == cache \/ link
           p == IF what = "row" THEN row ELSE l.prev
           k == IF what = "key" THEN key ELSE l.key
           b == IF what = "holds" THEN holds ELSE l.holds
           n == [via |-> l.via, at |-> l.at + 1, room |-> l.room, prev |-> p, key |-> k, holds |-> b]
<1>1. l \in Locals /\ l.at \in 1..3
  BY DEF IInv, TypeOK, Read
<1>2. key \in BOOLEAN /\ row \in Rows /\ holds \in BOOLEAN
  BY DEF IInv, TypeOK
<1>3. cache' \in BOOLEAN
  BY <1>2 DEF Read, IInv, TypeOK
<1>4. recompute' = [recompute EXCEPT ![r] = n]
  BY DEF Read
<1>8. /\ l.via \in {"single", "linked", "roster"} /\ l.at + 1 \in 0..4
      /\ l.room \in {"open", "muted", "deleted"}
  BY <1>1 DEF Locals
<1>5. l.prev \in Rows /\ l.key \in BOOLEAN /\ l.holds \in BOOLEAN
  BY <1>1 DEF Locals
<1> HIDE DEF what, key, l
<1>6. p \in Rows /\ k \in BOOLEAN /\ b \in BOOLEAN
  BY <1>2, <1>5
<1> HIDE DEF p, k, b
<1>7. n \in Locals
  BY <1>6, <1>8 DEF Locals
<1> HIDE DEF n
<1> QED BY <1>3, <1>4, <1>7 DEF IInv, TypeOK

\* upsertMembership: the blind write keeps the row typed and its pending state decided.
LEMMA WriteKeeps ==
  ASSUME IInv, NEW r \in Recomputes, Write(r)
  PROVE  /\ recompute' \in [Recomputes -> Locals]
         /\ events' \in [Handlers -> Nat]
         /\ row' \in Rows
         /\ PendingMatchesEligible'
<1> DEFINE l == recompute[r]
           eligible == IsEligible(l)
           chosen == NextRelayState(eligible, l.key, l.prev.state)
<1>1. l \in Locals /\ row \in Rows
  BY DEF IInv, TypeOK
<1>2. eligible \in BOOLEAN /\ l.key \in BOOLEAN /\ l.prev.state \in RelayStates
  BY <1>1 DEF Locals, Rows, IsEligible
<1> HIDE DEF l, eligible
<1>3. /\ chosen \in RelayStates
      /\ chosen = "pending_add" => eligible
      /\ chosen = "pending_remove" => ~eligible
  BY <1>2, NextRelayStateAgrees
<1>4. recompute' \in [Recomputes -> Locals]
  BY IdleType DEF Write, IInv, TypeOK
<1>5. events' = events \/ events' = Emitted("publish")
  BY Zenon DEF Write
<1>6. events' \in [Handlers -> Nat]
  BY <1>5, EventTypes DEF IInv, TypeOK, Handlers
<1>7. row' = row \/ row' = [row EXCEPT !.eligible = eligible, !.key = l.key, !.state = chosen]
  BY Zenon DEF Write, Upsert, l, eligible
<1> HIDE DEF chosen
<1>8. row' \in Rows
  BY <1>1, <1>2, <1>3, <1>7 DEF Rows
<1>9. PendingMatchesEligible'
  <2>1. CASE row' = row
    BY <2>1 DEF IInv, PendingMatchesEligible
  <2>2. CASE row' = [row EXCEPT !.eligible = eligible, !.key = l.key, !.state = chosen]
    <3>1. row'.state = chosen /\ row'.eligible = eligible
      BY <1>1, <2>2 DEF Rows
    <3> QED BY <1>3, <3>1 DEF PendingMatchesEligible
  <2> QED BY <1>7, <2>1, <2>2
<1> QED BY <1>4, <1>6, <1>8, <1>9

\* MembershipSyncService and IdentityService never write a pending state.
LEMMA RowKeeps ==
  ASSUME IInv,
         \/ row' = row
         \/ \E s \in {"added", "removed"} : row' = [row EXCEPT !.state = s]
         \/ \E k \in BOOLEAN : row' = [row EXCEPT !.key = k]
  PROVE  row' \in Rows /\ PendingMatchesEligible'
  BY DEF IInv, TypeOK, Rows, RelayStates, PendingMatchesEligible

-----------------------------------------------------------------------------
(* The queue and the relay. *)

\* PublishNip29Processor.process: the queue and the ack handler stay typed.
LEMMA PublishKeeps ==
  ASSUME IInv, NEW s \in Slots, NEW k \in Kinds, Publish(s, k)
  PROVE  /\ jobs' \in [Kinds -> 0..MaxJobs]
         /\ ack' \in [Slots -> [pc : {"idle", "read", "write"}, kind : Kinds]]
<1>1. jobs' \in [Kinds -> 0..MaxJobs]
  BY BoundAssumption DEF Publish, IInv, TypeOK
<1> DEFINE a == [IdleAck EXCEPT !.pc = "read", !.kind = k]
<1>2. a \in [pc : {"idle", "read", "write"}, kind : Kinds]
  BY DEF IdleAck
<1>3. ack' = ack \/ ack' = [ack EXCEPT ![s] = a]
  BY DEF Publish
<1> HIDE DEF a
<1>4. ack' \in [Slots -> [pc : {"idle", "read", "write"}, kind : Kinds]]
  BY <1>2, <1>3 DEF IInv, TypeOK
<1> QED BY <1>1, <1>4

\* The relay's group stays typed.
LEMMA RelayType ==
  ASSUME relay \in [group : BOOLEAN, member : BOOLEAN], NEW k \in Kinds
  PROVE  RelayAfter(k) \in [group : BOOLEAN, member : BOOLEAN]
<1>1. CASE k = "add"
  BY <1>1 DEF RelayAfter
<1>2. CASE k = "remove"
  BY <1>2 DEF RelayAfter
<1>3. CASE k = "delete"
  BY <1>3 DEF RelayAfter
<1> QED BY <1>1, <1>2, <1>3 DEF Kinds

\* applyAck: an ack writes no pending state.
LEMMA AckKeeps ==
  ASSUME IInv, NEW s \in Slots, OnAck(s)
  PROVE  /\ ack' \in [Slots -> [pc : {"idle", "read", "write"}, kind : Kinds]]
         /\ row' \in Rows /\ PendingMatchesEligible'
<1> DEFINE A == [pc : {"idle", "read", "write"}, kind : Kinds]
<1>1. ack \in [Slots -> A] /\ IdleAck \in A
  BY DEF IInv, TypeOK, IdleAck, Kinds
<1>2. [ack[s] EXCEPT !.pc = "write"] \in A
  BY <1>1
<1>3. \/ ack' = [ack EXCEPT ![s] = IdleAck]
      \/ ack' = [ack EXCEPT ![s] = [ack[s] EXCEPT !.pc = "write"]]
  BY <1>1 DEF OnAck, AckRead, AckWrite
<1>4. ack' \in [Slots -> A]
  BY <1>1, <1>2, <1>3
<1>5. row' = row \/ \E t \in {"added", "removed"} : row' = [row EXCEPT !.state = t]
  BY DEF OnAck, AckRead, AckWrite, Terminal
<1> QED BY <1>4, <1>5, RowKeeps

-----------------------------------------------------------------------------
\* Every step keeps the invariant.
THEOREM NextInvariant == IInv /\ [Next]_vars => IInv'
<1> SUFFICES ASSUME IInv, [Next]_vars PROVE IInv'
  OBVIOUS
<1> USE DEF facts, identity
<1>0. TypeOK /\ PendingMatchesEligible
  BY DEF IInv
<1>1. CASE BalanceChange \/ LinkChange \/ CommunityChange
  <2>1. events' \in [Handlers -> Nat]
    BY <1>0, <1>1, EventTypes DEF BalanceChange, LinkChange, CommunityChange, TypeOK, Handlers
  <2>2. changes' \in 0..MaxChanges
    BY <1>0, <1>1, BoundAssumption DEF BalanceChange, LinkChange, CommunityChange, TypeOK
  <2>4. /\ holds' \in BOOLEAN /\ link' \in BOOLEAN
        /\ room' \in {"open", "muted", "deleted"}
    BY <1>0, <1>1, Zenon DEF BalanceChange, LinkChange, CommunityChange, TypeOK
  <2>3. UNCHANGED <<row, jobs, relay, cache, mirror, recompute, deletion, ack, reconcile, faults>>
    BY <1>1 DEF BalanceChange, LinkChange, CommunityChange
  <2> QED BY <1>0, <2>1, <2>2, <2>3, <2>4 DEF IInv, TypeOK, PendingMatchesEligible
<1>2. ASSUME NEW r \in Recomputes, Decide(r) PROVE IInv'
  <2>1. ASSUME NEW h \in {"single", "linked", "roster"}, Begin(r, h) PROVE IInv'
    <3>1. recompute' \in [Recomputes -> Locals] /\ events' \in [Handlers -> Nat]
      BY <2>1, BeginKeeps
    <3>2. UNCHANGED <<facts, row, jobs, relay, identity, deletion, ack, reconcile, faults>>
      BY <2>1 DEF Begin
    <3> QED BY <1>0, <3>1, <3>2 DEF IInv, TypeOK, PendingMatchesEligible
  <2>2. CASE Read(r)
    <3>1. recompute' \in [Recomputes -> Locals] /\ cache' \in BOOLEAN
      BY <2>2, ReadKeeps
    <3>2. UNCHANGED <<facts, row, jobs, relay, events, mirror, deletion, ack, reconcile, faults>>
      BY <2>2 DEF Read
    <3> QED BY <1>0, <3>1, <3>2 DEF IInv, TypeOK, PendingMatchesEligible
  <2>3. CASE Write(r)
    <3>1. /\ recompute' \in [Recomputes -> Locals] /\ events' \in [Handlers -> Nat]
          /\ row' \in Rows /\ PendingMatchesEligible'
      BY <2>3, WriteKeeps
    <3>2. UNCHANGED <<facts, jobs, relay, identity, deletion, ack, reconcile, faults>>
      BY <2>3 DEF Write
    <3> QED BY <1>0, <3>1, <3>2 DEF IInv, TypeOK
  <2> QED BY <1>2, <2>1, <2>2, <2>3 DEF Decide
<1>3. CASE Identity
  <2>1. CASE MirrorRead
    <3>1. events' \in [Handlers -> Nat]
      BY <1>0, <2>1, EventTypes DEF MirrorRead, TypeOK, Handlers
    <3>2. /\ cache' \in BOOLEAN /\ mirror' \in {"idle", "key", "null"}
          /\ UNCHANGED <<facts, row, jobs, relay, recompute, deletion, ack, reconcile, faults>>
      BY <1>0, <2>1 DEF MirrorRead, TypeOK
    <3> QED BY <1>0, <3>1, <3>2 DEF IInv, TypeOK, PendingMatchesEligible
  <2>2. CASE MirrorWrite
    <3>1. row' = row \/ \E k \in BOOLEAN : row' = [row EXCEPT !.key = k]
      BY <2>2 DEF MirrorWrite
    <3>2. row' \in Rows /\ PendingMatchesEligible'
      BY <3>1, RowKeeps
    <3>3. /\ mirror' \in {"idle", "key", "null"}
          /\ UNCHANGED <<facts, jobs, relay, events, cache, recompute, deletion, ack, reconcile, faults>>
      BY <2>2 DEF MirrorWrite
    <3> QED BY <1>0, <3>2, <3>3 DEF IInv, TypeOK
  <2> QED BY <1>3, <2>1, <2>2 DEF Identity
<1>4. CASE OnEligibilityChanged \/ ScanAndPublishPending \/ Reconcile
  <2>1. \A seen : ToPublish \subseteq Kinds /\ Drift(seen) \subseteq Kinds
    BY DEF ToPublish, Drift, Kinds
  <2>2. jobs' = jobs \/ \E k \in Kinds : Enqueue(k)
    BY <1>4, <2>1, Zenon DEF OnEligibilityChanged, ScanAndPublishPending, Reconcile,
                              ReconcileRead, ReconcileWrite
  <2>3. jobs' \in [Kinds -> 0..MaxJobs]
    BY <1>0, <2>2, EnqueueType DEF TypeOK
  <2>4. events' \in [Handlers -> Nat]
    BY <1>0, <1>4, EventTypes DEF OnEligibilityChanged, ScanAndPublishPending, Reconcile,
                                   ReconcileRead, ReconcileWrite, TypeOK, Handlers
  <2>5. /\ reconcile' \in {"idle", "in", "out"}
        /\ UNCHANGED <<facts, row, relay, identity, recompute, deletion, ack, faults>>
    BY <1>0, <1>4 DEF OnEligibilityChanged, ScanAndPublishPending, Reconcile,
                       ReconcileRead, ReconcileWrite, TypeOK
  <2> QED BY <1>0, <2>3, <2>4, <2>5 DEF IInv, TypeOK, PendingMatchesEligible
<1>5. CASE Delete
  <2>1. jobs' = jobs \/ \E k \in Kinds : Enqueue(k)
    BY <1>5 DEF Delete, DeletionBegin, DeletionRead, DeletionWrite, Kinds
  <2>2. jobs' \in [Kinds -> 0..MaxJobs]
    BY <1>0, <2>1, EnqueueType DEF TypeOK
  <2>3. events' \in [Handlers -> Nat]
    BY <1>0, <1>5, EventTypes DEF Delete, DeletionBegin, DeletionRead, DeletionWrite,
                                   TypeOK, Handlers
  <2>4. row' = row \/ \E s \in {"added", "removed"} : row' = [row EXCEPT !.state = s]
    BY <1>5 DEF Delete, DeletionBegin, DeletionRead, DeletionWrite
  <2>5. row' \in Rows /\ PendingMatchesEligible'
    BY <2>4, RowKeeps
  <2>6. /\ deletion' \in {"idle", "rows", "write"}
        /\ UNCHANGED <<facts, relay, identity, recompute, ack, reconcile, faults>>
    BY <1>0, <1>5 DEF Delete, DeletionBegin, DeletionRead, DeletionWrite, TypeOK
  <2> QED BY <1>0, <2>2, <2>3, <2>5, <2>6 DEF IInv, TypeOK
<1>6. CASE Worker
  <2>1. PICK s \in Slots, k \in Kinds : Publish(s, k)
    BY <1>6 DEF Worker
  <2>2. /\ jobs' \in [Kinds -> 0..MaxJobs]
        /\ ack' \in [Slots -> [pc : {"idle", "read", "write"}, kind : Kinds]]
    BY <2>1, PublishKeeps
  <2>3. relay' \in [group : BOOLEAN, member : BOOLEAN]
    BY <1>0, <2>1, RelayType DEF Publish, TypeOK
  <2>4. UNCHANGED <<facts, row, events, identity, recompute, deletion, reconcile, faults>>
    BY <2>1 DEF Publish
  <2> QED BY <1>0, <2>2, <2>3, <2>4 DEF IInv, TypeOK, PendingMatchesEligible
<1>7. ASSUME NEW k \in Kinds, AckTimesOut(k) \/ RetriesExhausted(k) PROVE IInv'
  <2>1. jobs' \in [Kinds -> 0..MaxJobs] /\ faults' \in 0..MaxFaults
    BY <1>0, <1>7, BoundAssumption DEF AckTimesOut, RetriesExhausted, TypeOK
  <2>2. relay' \in [group : BOOLEAN, member : BOOLEAN]
    BY <1>0, <1>7, RelayType DEF AckTimesOut, RetriesExhausted, TypeOK
  <2>3. UNCHANGED <<facts, row, events, identity, recompute, deletion, ack, reconcile>>
    BY <1>7 DEF AckTimesOut, RetriesExhausted
  <2> QED BY <1>0, <2>1, <2>2, <2>3 DEF IInv, TypeOK, PendingMatchesEligible
<1>8. ASSUME NEW s \in Slots, OnAck(s) PROVE IInv'
  <2>1. /\ ack' \in [Slots -> [pc : {"idle", "read", "write"}, kind : Kinds]]
        /\ row' \in Rows /\ PendingMatchesEligible'
    BY <1>8, AckKeeps
  <2>2. UNCHANGED <<facts, jobs, relay, events, identity, recompute, deletion, reconcile, faults>>
    BY <1>8 DEF OnAck, AckRead, AckWrite
  <2> QED BY <1>0, <2>1, <2>2 DEF IInv, TypeOK
<1>9. CASE Crash
  <2>1. events' \in [Handlers -> Nat]
    BY <1>9 DEF Crash, NoEvents, Handlers
  <2>2. recompute' \in [Recomputes -> Locals]
    BY <1>9, IdleType DEF Crash
  <2>3. ack' \in [Slots -> [pc : {"idle", "read", "write"}, kind : Kinds]]
    BY <1>9 DEF Crash, IdleAck, Kinds
  <2>4. /\ cache' \in BOOLEAN /\ mirror' \in {"idle", "key", "null"}
        /\ deletion' \in {"idle", "rows", "write"} /\ reconcile' \in {"idle", "in", "out"}
        /\ UNCHANGED <<facts, row, jobs, relay>>
    BY <1>9 DEF Crash
  <2>5. faults' \in 0..MaxFaults
    BY <1>0, <1>9, BoundAssumption DEF Crash, TypeOK
  <2> QED BY <1>0, <2>1, <2>2, <2>3, <2>4, <2>5 DEF IInv, TypeOK, PendingMatchesEligible
<1>10. CASE UNCHANGED vars
  BY <1>0, <1>10 DEF vars, IInv, TypeOK, PendingMatchesEligible
<1> QED
  BY <1>1, <1>2, <1>3, <1>4, <1>5, <1>6, <1>7, <1>8, <1>9, <1>10, Zenon DEF Next

\* The inductive invariant holds in every reachable state.
THEOREM Invariance == Spec => []IInv
  BY InitInvariant, NextInvariant, PTL DEF Spec

\* Counts, rows and locals keep their types for every number of recomputations,
\* publish slots, changes, jobs and faults.
THEOREM TypeCorrect == Spec => []TypeOK
<1>1. IInv => TypeOK
  BY DEF IInv
<1> QED BY Invariance, <1>1, PTL

\* However the blind writes of recomputations, acks, deletion and mirror fall,
\* a pending state agrees with the decision in its row.
THEOREM PendingIsDecided == Spec => []PendingMatchesEligible
<1>1. IInv => PendingMatchesEligible
  BY DEF IInv
<1> QED BY Invariance, <1>1, PTL

-----------------------------------------------------------------------------
(* AccessLedger                                                             *)

\* The handlers that have flipped access to "granted" and not written the row of it yet.
Granting == {s \in Callers : call[s].pc = "push"}

(* A row "you now have access" is written for a flip that has none, so rows   *)
(* and flips to come are never more than the flips; the flip is undone only   *)
(* when access is "granted".                                                  *)
GrantBooks ==
  /\ IsFiniteSet(Granting)
  /\ granted + Cardinality(Granting) <= (IF access = "granted" THEN 1 ELSE 0)

\* The same of "you lost access", which the finalizer alone writes.
RevokeBooks ==
  revoked + (IF finalizer = "push" THEN 1 ELSE 0) + (IF access = "granted" THEN 1 ELSE 0) <= 0

\* The inductive invariant of the ledger.
LedgerIInv == LedgerTypeOK /\ GrantBooks /\ RevokeBooks

CallType == [pc : {"idle", "write", "record", "push"}, gain : BOOLEAN,
             access : {"none", "granted"}, armed : BOOLEAN]

\* A slot before and after its call, for the cases where nothing else is a call.
LEMMA IdleCallType == IdleCall \in CallType /\ IdleCall.pc = "idle"
  BY DEF IdleCall, CallType

(* LedgerTypeOK in the two parts that steps disturb separately.              *)
LedgerScalars ==
  /\ state \in {"pending_add", "added", "pending_remove", "removed"}
  /\ access \in {"none", "granted"} /\ armed \in BOOLEAN
  /\ decision \in {"idle", "pending_add", "added", "pending_remove", "removed"}
  /\ finalizer \in {"idle", "disarm", "revoke", "push"}
  /\ granted \in Int /\ revoked \in Int
  /\ crashes \in 0..MaxCrashes

LEMMA LedgerTypes ==
  /\ LedgerTypeOK <=> LedgerScalars /\ call \in [Callers -> CallType]
  /\ LedgerTypeOK' <=> LedgerScalars' /\ call' \in [Callers -> CallType]
  BY DEF LedgerTypeOK, LedgerScalars, CallType

\* The initial state satisfies the invariant.
LEMMA LedgerInitInv == LedgerInit => LedgerIInv
<1> SUFFICES ASSUME LedgerInit PROVE LedgerIInv
  OBVIOUS
<1>1. call \in [Callers -> CallType] /\ Granting = {}
  BY IdleCallType DEF LedgerInit, Granting
<1>2. LedgerTypeOK
  <2>1. armed \in BOOLEAN
    BY DEF LedgerInit
  <2>2. LedgerScalars
    BY <2>1, CrashAssumption DEF LedgerInit, LedgerScalars
  <2> QED BY <1>1, <2>2, LedgerTypes
<1>3. GrantBooks
  BY <1>1, FS_EmptySet DEF LedgerInit, GrantBooks
<1>4. RevokeBooks
  BY DEF LedgerInit, RevokeBooks
<1> QED BY <1>2, <1>3, <1>4 DEF LedgerIInv

\* When s alone changes its call, and is neither before nor after it about to push,
\* the set of those who are stays as it is.
LEMMA GrantingSame ==
  ASSUME NEW s \in Callers, NEW c \in CallType, call \in [Callers -> CallType],
         call' = [call EXCEPT ![s] = c], call[s].pc # "push", c.pc # "push"
  PROVE  Granting' = Granting /\ call' \in [Callers -> CallType]
  BY DEF Granting

(* Reads, the write of relay_state and the debounce: nobody is about to push, *)
(* neither ledger nor access_state is touched.                               *)
LEMMA QuietCallKeeps ==
  ASSUME LedgerIInv, NEW s \in Callers,
         \/ \E gain \in BOOLEAN : CallReads(s, gain)
         \/ RoleReads(s) \/ CallWrites(s) \/ Lost(s) \/ Regained(s)
  PROVE  LedgerIInv'
<1>0. call \in [Callers -> CallType] /\ access \in {"none", "granted"} /\ armed \in BOOLEAN
  BY LedgerTypes DEF LedgerIInv, LedgerScalars
<1> DEFINE Quiet(c) == call' = [call EXCEPT ![s] = c] /\ c.pc # "push" /\ call[s].pc # "push"
<1>1. PICK c \in CallType : Quiet(c)
  <2>1. ASSUME NEW gain \in BOOLEAN, CallReads(s, gain) PROVE \E c \in CallType : Quiet(c)
    <3> DEFINE c == [pc |-> "write", gain |-> gain, access |-> access, armed |-> armed]
    <3>1. c \in CallType /\ c.pc # "push"
      BY <1>0 DEF CallType
    <3>2. call' = [call EXCEPT ![s] = c] /\ call[s].pc # "push"
      BY <2>1 DEF CallReads
    <3> QED BY <3>1, <3>2
  <2>2. CASE RoleReads(s)
    <3> DEFINE c == [pc |-> "record", gain |-> (state = "added"), access |-> access, armed |-> armed]
    <3>1. c \in CallType /\ c.pc # "push"
      BY <1>0 DEF CallType
    <3>2. call' = [call EXCEPT ![s] = c] /\ call[s].pc # "push"
      BY <2>2 DEF RoleReads
    <3> QED BY <3>1, <3>2
  <2>3. CASE CallWrites(s)
    <3> DEFINE c == [call[s] EXCEPT !.pc = "record"]
    <3>1. c \in CallType /\ c.pc # "push"
      BY <1>0 DEF CallType
    <3>2. call' = [call EXCEPT ![s] = c] /\ call[s].pc # "push"
      BY <2>3, <1>0 DEF CallWrites
    <3> QED BY <3>1, <3>2
  <2>4. CASE Lost(s) \/ Regained(s)
    BY <2>4, IdleCallType DEF Lost, Regained
  <2> QED BY <2>1, <2>2, <2>3, <2>4
<1>2. Granting' = Granting /\ call' \in [Callers -> CallType]
  BY <1>0, <1>1, GrantingSame
<1>3. /\ UNCHANGED <<access, finalizer, granted, revoked, crashes, decision>>
      /\ armed' \in BOOLEAN
      /\ state' \in {state, "added", "removed"}
  BY <1>0 DEF CallReads, RoleReads, CallWrites, Lost, Regained,
              TerminalState
<1>4. LedgerTypeOK'
  BY <1>2, <1>3, LedgerTypes DEF LedgerIInv, LedgerScalars
<1> QED BY <1>2, <1>3, <1>4 DEF LedgerIInv, GrantBooks, RevokeBooks

\* onAccessGained: who flips access joins those about to push; a second one finds
\* it flipped and goes away.
LEMMA GainedKeeps ==
  ASSUME LedgerIInv, NEW s \in Callers, Gained(s)
  PROVE  LedgerIInv'
<1>0. call \in [Callers -> CallType] /\ access \in {"none", "granted"}
  BY LedgerTypes DEF LedgerIInv, LedgerScalars
<1>1. /\ UNCHANGED <<decision, state, finalizer, granted, crashes>>
      /\ call[s].pc = "record"
  BY DEF Gained
<1>2. CASE GrantWins
  <2> DEFINE c == [call[s] EXCEPT !.pc = "push"]
  <2>1. /\ access = "none" /\ access' = "granted" /\ armed' = FALSE /\ revoked' = revoked - 1
        /\ call' = [call EXCEPT ![s] = c]
    BY <1>0, <1>2 DEF Gained, GrantWins
  <2>2. c \in CallType /\ c.pc = "push"
    BY <1>0 DEF CallType
  <2>3. call' \in [Callers -> CallType] /\ Granting' = Granting \cup {s} /\ s \notin Granting
    BY <1>0, <1>1, <2>1, <2>2 DEF Granting
  <2>4. IsFiniteSet(Granting') /\ Cardinality(Granting') = Cardinality(Granting) + 1
    BY <2>3, FS_AddElement DEF LedgerIInv, GrantBooks
  <2>5. Cardinality(Granting) \in Nat
    BY FS_CardinalityType DEF LedgerIInv, GrantBooks
  <2>6. LedgerTypeOK'
    <3>1. LedgerScalars
      BY LedgerTypes DEF LedgerIInv
    <3>2. armed' \in BOOLEAN
      BY <2>1
    <3>3. LedgerScalars'
      BY <1>1, <2>1, <3>1, <3>2 DEF LedgerScalars
    <3> QED BY <2>3, <3>3, LedgerTypes
  <2>7. GrantBooks' /\ RevokeBooks'
    BY <1>1, <2>1, <2>4, <2>5, LedgerTypes DEF LedgerIInv, LedgerScalars, GrantBooks, RevokeBooks
  <2> QED BY <2>6, <2>7 DEF LedgerIInv
<1>3. CASE ~GrantWins
  <2>1. call' = [call EXCEPT ![s] = IdleCall] /\ UNCHANGED <<access, armed, revoked>>
    BY <1>3 DEF Gained
  <2>2. Granting' = Granting /\ call' \in [Callers -> CallType]
    BY <1>0, <1>1, <2>1, IdleCallType, GrantingSame
  <2>3. LedgerTypeOK'
    BY <1>1, <2>1, <2>2, LedgerTypes DEF LedgerIInv, LedgerScalars
  <2> QED BY <1>1, <2>1, <2>2, <2>3 DEF LedgerIInv, GrantBooks, RevokeBooks
<1> QED BY <1>2, <1>3

\* The row of a flip is written: one fewer to come.
LEMMA GrantPushKeeps ==
  ASSUME LedgerIInv, NEW s \in Callers, GrantPush(s)
  PROVE  LedgerIInv'
<1>0. call \in [Callers -> CallType]
  BY LedgerTypes DEF LedgerIInv
<1>1. /\ UNCHANGED <<decision, state, access, armed, finalizer, revoked, crashes>>
      /\ call[s].pc = "push" /\ call' = [call EXCEPT ![s] = IdleCall]
      /\ granted' = granted + 1
  BY DEF GrantPush
<1>2. /\ call' \in [Callers -> CallType] /\ s \in Granting /\ Granting' = Granting \ {s}
  BY <1>0, <1>1, IdleCallType DEF Granting
<1>3. IsFiniteSet(Granting') /\ Cardinality(Granting') = Cardinality(Granting) - 1
  BY <1>2, FS_RemoveElement DEF LedgerIInv, GrantBooks
<1>4. Cardinality(Granting) \in Nat
  BY FS_CardinalityType DEF LedgerIInv, GrantBooks
<1>5. LedgerTypeOK'
  BY <1>1, <1>2, LedgerTypes DEF LedgerIInv, LedgerScalars
<1>6. GrantBooks' /\ RevokeBooks'
  BY <1>1, <1>3, <1>4, LedgerTypes DEF LedgerIInv, LedgerScalars, GrantBooks, RevokeBooks
<1> QED BY <1>5, <1>6 DEF LedgerIInv

\* finalizeDueRevokes: the mirror image, with one finalizer in the place of the slots.
LEMMA FinalizeKeeps ==
  ASSUME LedgerIInv, Finalize
  PROVE  LedgerIInv'
<1>0. Granting' = Granting /\ UNCHANGED <<call, decision, state, crashes>>
  BY DEF Finalize, FinalizeReads, Disarms, Revokes, RevokePush,
         Granting
<1>1. Cardinality(Granting) \in Nat
  BY FS_CardinalityType DEF LedgerIInv, GrantBooks
<1>2. CASE FinalizeReads
  BY <1>0, <1>2, LedgerTypes DEF LedgerIInv, LedgerScalars, GrantBooks, RevokeBooks, FinalizeReads
<1>3. CASE Disarms
  BY <1>0, <1>3, LedgerTypes DEF LedgerIInv, LedgerScalars, GrantBooks, RevokeBooks, Disarms
<1>4. CASE Revokes
  <2>1. LedgerTypeOK'
    <3>1. LedgerScalars /\ call \in [Callers -> CallType]
      BY LedgerTypes DEF LedgerIInv
    <3>2. armed' \in BOOLEAN
      BY <1>4, <3>1 DEF LedgerScalars, Revokes
    <3>3. LedgerScalars'
      BY <1>0, <1>4, <3>1, <3>2 DEF LedgerScalars, Revokes
    <3> QED BY <1>0, <3>1, <3>3, LedgerTypes
  <2>2. GrantBooks' /\ RevokeBooks'
    BY <1>0, <1>1, <1>4, LedgerTypes DEF LedgerIInv, LedgerScalars, GrantBooks, RevokeBooks, Revokes
  <2> QED BY <2>1, <2>2 DEF LedgerIInv
<1>5. CASE RevokePush
  BY <1>0, <1>5, LedgerTypes DEF LedgerIInv, LedgerScalars, GrantBooks, RevokeBooks, RevokePush
<1> QED BY <1>2, <1>3, <1>4, <1>5 DEF Finalize

\* A restart: flips without their row stay without it, which the books allow.
LEMMA LedgerCrashKeeps ==
  ASSUME LedgerIInv, LedgerCrash
  PROVE  LedgerIInv'
<1>1. /\ UNCHANGED <<state, access, armed, granted, revoked>>
      /\ finalizer' = "idle" /\ decision' = "idle"
      /\ call' = [s \in Callers |-> IdleCall]
  BY DEF LedgerCrash
<1>2. call' \in [Callers -> CallType] /\ Granting' = {}
  BY <1>1, IdleCallType DEF Granting
<1>3. IsFiniteSet(Granting') /\ Cardinality(Granting') = 0
  BY <1>2, FS_EmptySet
<1>4. Cardinality(Granting) \in Nat
  BY FS_CardinalityType DEF LedgerIInv, GrantBooks
<1>5. crashes' \in 0..MaxCrashes
  BY CrashAssumption DEF LedgerIInv, LedgerTypeOK, LedgerCrash
<1>6. LedgerTypeOK'
  BY <1>1, <1>2, <1>5, LedgerTypes DEF LedgerIInv, LedgerScalars
<1>7. GrantBooks' /\ RevokeBooks'
  BY <1>1, <1>3, <1>4, LedgerTypes DEF LedgerIInv, LedgerScalars, GrantBooks, RevokeBooks
<1> QED BY <1>6, <1>7 DEF LedgerIInv

\* The decisions of EligibilityService touch relay_state alone.
LEMMA DecisionKeeps ==
  ASSUME LedgerIInv, DecisionReads \/ DecisionWrites
  PROVE  LedgerIInv'
<1>1. /\ UNCHANGED <<access, armed, call, finalizer, granted, revoked, crashes>>
      /\ Granting' = Granting
  BY DEF DecisionReads, DecisionWrites, Granting
<1>2. LedgerTypeOK'
  BY <1>1, LedgerTypes DEF LedgerIInv, LedgerScalars, DecisionReads, DecisionWrites, NextStates
<1> QED BY <1>1, <1>2 DEF LedgerIInv, GrantBooks, RevokeBooks

\* Every step keeps the invariant.
LEMMA LedgerNextInv == LedgerIInv /\ [LedgerNext]_ledgerVars => LedgerIInv'
<1> SUFFICES ASSUME LedgerIInv, [LedgerNext]_ledgerVars PROVE LedgerIInv'
  OBVIOUS
<1>1. CASE UNCHANGED ledgerVars
  BY <1>1, LedgerTypes DEF ledgerVars, LedgerIInv, LedgerScalars, GrantBooks, RevokeBooks, Granting
<1>2. CASE LedgerNext
  BY <1>2, DecisionKeeps, QuietCallKeeps, GainedKeeps, GrantPushKeeps, FinalizeKeeps, LedgerCrashKeeps
     DEF LedgerNext, Handle
<1> QED BY <1>1, <1>2

\* The invariant holds in every reachable state.
LEMMA LedgerInvariance == LedgerSpec => []LedgerIInv
  BY LedgerInitInv, LedgerNextInv, PTL DEF LedgerSpec

\* Every column and local keeps its type, for any number of handlers and crashes.
THEOREM LedgerTypeCorrect == LedgerSpec => []LedgerTypeOK
<1>1. LedgerIInv => LedgerTypeOK
  BY DEF LedgerIInv
<1> QED BY LedgerInvariance, <1>1, PTL

\* However many acks, deletions and finalizers overlap on rows read before each
\* other's writes, there is never a second push in the same direction.
THEOREM PushesAlternate == LedgerSpec => []NoDuplicatePush
<1>1. LedgerIInv => NoDuplicatePush
  <2> SUFFICES ASSUME LedgerIInv PROVE NoDuplicatePush
    OBVIOUS
  <2>1. Cardinality(Granting) \in Nat
    BY FS_CardinalityType DEF LedgerIInv, GrantBooks
  <2> QED BY <2>1, LedgerTypes DEF LedgerIInv, LedgerScalars, GrantBooks, RevokeBooks, NoDuplicatePush
<1> QED BY LedgerInvariance, <1>1, PTL
===============================================================================
