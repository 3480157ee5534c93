-------------------- MODULE AnnouncementScheduler_proofs --------------------
(***************************************************************************)
(* For all sets of replicas, announcements and addresses and all bounds:    *)
(* types, one completion per row, one push job per address.                 *)
(***************************************************************************)
EXTENDS AnnouncementScheduler, TLAPS

\* A drain that goes on has re-entries left, and jobs are added by send only.
LoopOK == \A r \in Replicas :
  /\ pc[r] # "idle" => drains[r] < MaxReentries
  /\ pc[r] # "send" => adding[r] = {}

\* A processed row has no claim, so that no token can complete it again.
TableOK == \A a \in Announcements :
  /\ outcome[a] # "due" => claim[a] = Nobody
  /\ completions[a] > 0 => outcome[a] # "due"
  /\ completions[a] <= 1

\* Replica r has set the marker of the push and has not added its job.
Adding(r, push) == row[r] = push[1] /\ push[2] \in adding[r]

\* No push without its marker, and its job is added by whoever set that.
PushOK == \A push \in Pushes :
  /\ jobs[push] <= sends[push] /\ sends[push] <= 1
  /\ push \notin marked => sends[push] = 0
  /\ \A r \in Replicas : Adding(r, push) => push \in marked /\ sends[push] = 0
  /\ \A r, s \in Replicas : Adding(r, push) /\ Adding(s, push) => r = s

IInv == TypeOK /\ LoopOK /\ TableOK /\ PushOK

-----------------------------------------------------------------------------
\* The initial states satisfy the invariant.
THEOREM InitInvariant == Init => IInv
<1> SUFFICES ASSUME Init PROVE IInv
  OBVIOUS
<1>1. TypeOK
  BY CapAssumption, FaultAssumption DEF Init, TypeOK, Pushes, PCs
<1>2. LoopOK
  BY CapAssumption DEF Init, LoopOK
<1>3. TableOK
  BY DEF Init, TableOK
<1>4. PushOK
  BY DEF Init, PushOK, Adding
<1> QED BY <1>1, <1>2, <1>3, <1>4 DEF IInv

-----------------------------------------------------------------------------
(* What an action leaves alone keeps its part of the invariant. *)

LEMMA TableFrame == TableOK /\ UNCHANGED table => TableOK'
  BY DEF TableOK, table

LEMMA PushFrame == PushOK /\ UNCHANGED <<redis, row, adding>> => PushOK'
  BY DEF PushOK, Adding, redis

\* A replica goes on from one await of its drain to another.
LEMMA LoopMoves ==
  ASSUME TypeOK, LoopOK, NEW r \in Replicas, NEW p \in PCs,
         pc[r] \notin {"idle", "send"}, p # "idle", GoTo(r, p), UNCHANGED <<drains, adding>>
  PROVE  LoopOK'
  BY DEF TypeOK, LoopOK, GoTo

\* ... or ends it, or was adding no jobs.
LEMMA LoopEnds ==
  ASSUME TypeOK, LoopOK, NEW r \in Replicas, NEW p \in PCs,
         pc[r] # "idle", adding[r] = {}, GoTo(r, p), UNCHANGED <<drains, adding>>
  PROVE  LoopOK'
  BY DEF TypeOK, LoopOK, GoTo

\* The await it is at stays a known one.
LEMMA GoToType ==
  ASSUME TypeOK, NEW r \in Replicas, NEW p \in PCs, GoTo(r, p)
  PROVE  pc' \in [Replicas -> PCs]
  BY DEF TypeOK, GoTo

LEMMA FaultType == TypeOK /\ Fault => faults' \in 0..MaxFaults
  BY FaultAssumption DEF TypeOK, Fault

-----------------------------------------------------------------------------
(* AnnouncementSchedulerService.tick *)

LEMMA TickKeeps ==
  ASSUME IInv, NEW r \in Replicas, Tick(r)
  PROVE  IInv'
<1>1. TypeOK'
  <2>1. pc' \in [Replicas -> PCs] /\ drains' \in [Replicas -> 0..MaxReentries]
    BY CapAssumption DEF Tick, GoTo, IInv, TypeOK, PCs
  <2>2. pending' \in [Replicas -> BOOLEAN]
    BY DEF Tick, IInv, TypeOK
  <2> QED BY <2>1, <2>2 DEF Tick, table, redis, dispatch, IInv, TypeOK
<1>2. LoopOK'
  BY CapAssumption DEF Tick, GoTo, dispatch, IInv, TypeOK, LoopOK
<1>3. TableOK' /\ PushOK'
  BY TableFrame, PushFrame DEF Tick, dispatch, IInv
<1> QED BY <1>1, <1>2, <1>3 DEF IInv

\* A processed row has no claim for the sweep to find.
LEMMA ReleaseStuckKeeps ==
  ASSUME IInv, NEW r \in Replicas, ReleaseStuck(r)
  PROVE  IInv'
<1>1. pc' \in [Replicas -> PCs]
  BY GoToType DEF ReleaseStuck, IInv, PCs
<1>2. claim' \in [Announcements -> Replicas \cup {Nobody}]
  BY DEF ReleaseStuck, IInv, TypeOK
<1>3. TypeOK'
  BY <1>1, <1>2 DEF ReleaseStuck, redis, loop, dispatch, IInv, TypeOK
<1>4. LoopOK'
  BY LoopMoves DEF ReleaseStuck, IInv, loop, dispatch, PCs
<1>5. TableOK'
  BY DEF ReleaseStuck, IInv, TypeOK, TableOK
<1>6. PushOK'
  BY PushFrame DEF ReleaseStuck, IInv, dispatch
<1> QED BY <1>3, <1>4, <1>5, <1>6 DEF IInv

\* A row that is due gets a token; the replica is adding no jobs then.
LEMMA ClaimNextDueKeeps ==
  ASSUME IInv, NEW r \in Replicas, NEW a \in Announcements, ClaimNextDue(r, a)
  PROVE  IInv'
<1>1. pc' \in [Replicas -> PCs]
  BY GoToType DEF ClaimNextDue, IInv, PCs
<1>2. /\ claim' \in [Announcements -> Replicas \cup {Nobody}]
      /\ row' \in [Replicas -> Announcements]
  BY DEF ClaimNextDue, IInv, TypeOK
<1>2a. stale' \in [Announcements -> BOOLEAN]
  BY DEF ClaimNextDue, IInv, TypeOK
<1>3. TypeOK'
  BY <1>1, <1>2, <1>2a DEF ClaimNextDue, redis, loop, IInv, TypeOK
<1>4. LoopOK'
  BY LoopMoves DEF ClaimNextDue, IInv, loop, PCs
<1>5. TableOK'
  BY DEF ClaimNextDue, Claimable, IInv, TypeOK, TableOK
<1>6. PushOK'
  <2>1. adding[r] = {} /\ UNCHANGED <<redis, adding>>
    BY DEF ClaimNextDue, IInv, LoopOK
  <2>2. ASSUME NEW s \in Replicas, NEW push \in Pushes, Adding(s, push)' PROVE Adding(s, push)
    BY <2>1, <2>2 DEF Adding, ClaimNextDue, IInv, TypeOK
  <2> QED BY <2>1, <2>2 DEF IInv, PushOK, redis
<1> QED BY <1>3, <1>4, <1>5, <1>6 DEF IInv

\* A follow-up drain only while the cap is not reached.
LEMMA DrainedKeeps ==
  ASSUME IInv, NEW r \in Replicas, Drained(r)
  PROVE  IInv'
<1>0. drains[r] \in 0..MaxReentries /\ drains[r] < MaxReentries
  BY DEF Drained, IInv, TypeOK, LoopOK
<1>1. pc' \in [Replicas -> PCs]
  BY GoToType DEF Drained, IInv, PCs
<1>2. drains' \in [Replicas -> 0..MaxReentries]
  BY <1>0, CapAssumption DEF Drained, IInv, TypeOK
<1>2a. pending' \in [Replicas -> BOOLEAN]
  BY DEF Drained, IInv, TypeOK
<1>3. TypeOK'
  BY <1>1, <1>2, <1>2a DEF Drained, table, redis, dispatch, IInv, TypeOK
<1>4. LoopOK'
  BY <1>0 DEF Drained, DrainsAgain, GoTo, dispatch, IInv, TypeOK, LoopOK
<1>5. TableOK' /\ PushOK'
  BY TableFrame, PushFrame DEF Drained, dispatch, IInv
<1> QED BY <1>3, <1>4, <1>5 DEF IInv

-----------------------------------------------------------------------------
(* AnnouncementDispatchService.run *)

LEMMA ResolveKeeps ==
  ASSUME IInv, NEW r \in Replicas, NEW recipients \in SUBSET Addresses, Resolve(r, recipients)
  PROVE  IInv'
<1>1. pc' \in [Replicas -> PCs]
  BY GoToType DEF Resolve, IInv, PCs
<1>2. left' \in [Replicas -> SUBSET Addresses]
  BY DEF Resolve, IInv, TypeOK
<1>3. TypeOK'
  BY <1>1, <1>2 DEF Resolve, table, redis, loop, IInv, TypeOK
<1>4. LoopOK'
  BY DEF Resolve, GoTo, loop, IInv, TypeOK, LoopOK
<1>5. TableOK' /\ PushOK'
  BY TableFrame, PushFrame DEF Resolve, IInv
<1> QED BY <1>3, <1>4, <1>5 DEF IInv

LEMMA NotSentKeeps ==
  ASSUME IInv, NEW r \in Replicas, NEW x \in Addresses, NotSent(r, x)
  PROVE  IInv'
<1>1. left' \in [Replicas -> SUBSET Addresses]
  BY DEF NotSent, IInv, TypeOK
<1>2. TypeOK'
  BY <1>1 DEF NotSent, table, redis, loop, IInv, TypeOK
<1>3. LoopOK'
  BY DEF NotSent, loop, IInv, LoopOK
<1>4. TableOK' /\ PushOK'
  BY TableFrame, PushFrame DEF NotSent, IInv
<1> QED BY <1>2, <1>3, <1>4 DEF IInv

\* Whoever sets the marker finds no push and nobody about to add one.
LEMMA SendKeeps ==
  ASSUME IInv, NEW r \in Replicas, NEW x \in Addresses, Send(r, x)
  PROVE  IInv'
<1> DEFINE p == <<row[r], x>>
<1>0. p \in Pushes
  BY DEF IInv, TypeOK, Pushes
<1>1. /\ left' \in [Replicas -> SUBSET Addresses]
      /\ adding' \in [Replicas -> SUBSET Addresses]
  BY DEF Send, IInv, TypeOK
<1>2. TypeOK'
  BY <1>0, <1>1 DEF Send, table, loop, IInv, TypeOK
<1>3. LoopOK'
  BY DEF Send, loop, IInv, TypeOK, LoopOK
<1>4. TableOK'
  BY TableFrame DEF Send, IInv
<1>5. PushOK'
  <2>1. UNCHANGED <<jobs, sends, row>> /\ marked' = marked \cup {p}
    BY DEF Send
  <2>2. ASSUME NEW s \in Replicas, NEW push \in Pushes, Adding(s, push)'
        PROVE  Adding(s, push) \/ (s = r /\ push = p /\ p \notin marked)
    BY <2>1, <2>2 DEF Adding, Send, Acquires, IInv, TypeOK, Pushes
  <2> HIDE DEF p
  <2>3. ASSUME NEW push \in Pushes
        PROVE  /\ jobs'[push] <= sends'[push] /\ sends'[push] <= 1
               /\ push \notin marked' => sends'[push] = 0
    BY <2>1 DEF IInv, PushOK
  <2>4. ASSUME NEW push \in Pushes, NEW s \in Replicas, Adding(s, push)'
        PROVE  push \in marked' /\ sends'[push] = 0
    BY <2>1, <2>2, <2>4 DEF IInv, PushOK
  <2>5. ASSUME NEW push \in Pushes, NEW s \in Replicas, NEW t \in Replicas,
               Adding(s, push)', Adding(t, push)'
        PROVE  s = t
    BY <2>2, <2>5 DEF IInv, PushOK
  <2> QED BY <2>3, <2>4, <2>5 DEF PushOK
<1> QED BY <1>2, <1>3, <1>4, <1>5 DEF IInv

\* The job is added by the one replica that set the marker.
LEMMA AddJobKeeps ==
  ASSUME IInv, NEW r \in Replicas, NEW x \in Addresses, AddJob(r, x)
  PROVE  IInv'
<1> DEFINE p == <<row[r], x>>
<1>0. p \in Pushes /\ Adding(r, p) /\ p[1] = row[r] /\ p[2] = x
  BY DEF AddJob, Adding, IInv, TypeOK, Pushes
<1>1. adding' \in [Replicas -> SUBSET Addresses]
  BY DEF AddJob, IInv, TypeOK
<1>2. jobs' \in [Pushes -> Nat] /\ sends' \in [Pushes -> Int]
  BY <1>0 DEF AddJob, IInv, TypeOK
<1>3. TypeOK'
  BY <1>1, <1>2 DEF AddJob, table, loop, IInv, TypeOK
<1>4. LoopOK'
  BY DEF AddJob, loop, IInv, TypeOK, LoopOK
<1>5. TableOK'
  BY TableFrame DEF AddJob, IInv
<1>6. PushOK'
  <2>1. sends[p] = 0 /\ p \in marked /\ jobs[p] \in Nat /\ jobs[p] <= 0
    BY <1>0 DEF IInv, TypeOK, PushOK
  <2>2. ASSUME NEW s \in Replicas, NEW push \in Pushes, Adding(s, push)'
        PROVE  Adding(s, push) /\ push # p
    <3>1. Adding(s, push)
      BY <2>2 DEF Adding, AddJob, IInv, TypeOK
    <3>2. push = p => s = r
      BY <1>0, <3>1 DEF IInv, PushOK
    <3>3. push = p => s # r
      BY <1>0, <2>2 DEF Adding, AddJob, IInv, TypeOK
    <3> QED BY <3>1, <3>2, <3>3
  <2>3. /\ UNCHANGED <<marked, row>>
        /\ jobs' = [jobs EXCEPT ![p] = @ + 1] /\ sends' = [sends EXCEPT ![p] = @ + 1]
    BY DEF AddJob
  <2> HIDE DEF p
  <2>4. ASSUME NEW push \in Pushes
        PROVE  /\ jobs'[push] <= sends'[push] /\ sends'[push] <= 1
               /\ push \notin marked' => sends'[push] = 0
    BY <1>0, <2>1, <2>3 DEF IInv, TypeOK, PushOK
  <2>5. ASSUME NEW push \in Pushes, NEW s \in Replicas, Adding(s, push)'
        PROVE  push \in marked' /\ sends'[push] = 0
    BY <2>2, <2>3, <2>5 DEF IInv, TypeOK, PushOK
  <2>6. ASSUME NEW push \in Pushes, NEW s \in Replicas, NEW t \in Replicas,
               Adding(s, push)', Adding(t, push)'
        PROVE  s = t
    BY <2>2, <2>6 DEF IInv, PushOK
  <2> QED BY <2>4, <2>5, <2>6 DEF PushOK
<1> QED BY <1>3, <1>4, <1>5, <1>6 DEF IInv

\* One that fails leaves its marker.
LEMMA AddJobFailsKeeps ==
  ASSUME IInv, NEW r \in Replicas, NEW x \in Addresses, AddJobFails(r, x)
  PROVE  IInv'
<1>1. adding' \in [Replicas -> SUBSET Addresses] /\ faults' \in 0..MaxFaults
  BY FaultType DEF AddJobFails, IInv, TypeOK
<1>2. TypeOK'
  BY <1>1 DEF AddJobFails, table, redis, loop, IInv, TypeOK
<1>3. LoopOK'
  BY DEF AddJobFails, loop, IInv, TypeOK, LoopOK
<1>4. TableOK'
  BY TableFrame DEF AddJobFails, IInv
<1>5. PushOK'
  <2>1. UNCHANGED <<marked, jobs, sends, row>>
    BY DEF AddJobFails, redis
  <2>2. ASSUME NEW s \in Replicas, NEW push \in Pushes, Adding(s, push)' PROVE Adding(s, push)
    BY <2>1, <2>2 DEF Adding, AddJobFails, IInv, TypeOK
  <2> QED BY <2>1, <2>2 DEF IInv, PushOK
<1> QED BY <1>2, <1>3, <1>4, <1>5 DEF IInv

\* The heartbeat writes claimed_at only.
LEMMA HeartbeatKeeps ==
  ASSUME IInv, NEW r \in Replicas, HeartbeatClaim(r)
  PROVE  IInv'
<1>1. pc' \in [Replicas -> PCs]
  BY GoToType DEF HeartbeatClaim, IInv, TypeOK, PCs
<1>2. left' \in [Replicas -> SUBSET Addresses]
  BY DEF HeartbeatClaim, IInv, TypeOK
<1>3. stale' \in [Announcements -> BOOLEAN]
  BY DEF HeartbeatClaim, IInv, TypeOK
<1>4. TypeOK'
  BY <1>1, <1>2, <1>3 DEF HeartbeatClaim, redis, loop, IInv, TypeOK
<1>5. LoopOK'
  BY DEF HeartbeatClaim, GoTo, loop, IInv, TypeOK, LoopOK
<1>6. TableOK'
  BY DEF HeartbeatClaim, IInv, TableOK
<1>7. PushOK'
  BY PushFrame DEF HeartbeatClaim, IInv
<1> QED BY <1>4, <1>5, <1>6, <1>7 DEF IInv

\* Who holds the claim finds the row due and not completed.
LEMMA MarkCompletedKeeps ==
  ASSUME IInv, NEW r \in Replicas, MarkCompleted(r)
  PROVE  IInv'
<1>0. row[r] \in Announcements /\ (Owns(r) => outcome[row[r]] = "due" /\ completions[row[r]] = 0)
  BY NobodyAssumption DEF Owns, IInv, TypeOK, TableOK
<1>1. pc' \in [Replicas -> PCs]
  BY GoToType DEF MarkCompleted, IInv, PCs
<1>2. outcome' \in [Announcements -> {"due", "completed", "poisoned"}]
  BY DEF MarkCompleted, IInv, TypeOK
<1>3. claim' \in [Announcements -> Replicas \cup {Nobody}]
  BY DEF MarkCompleted, IInv, TypeOK
<1>4. completions' \in [Announcements -> Nat]
  BY <1>0 DEF MarkCompleted, IInv, TypeOK
<1>5. TypeOK'
  BY <1>1, <1>2, <1>3, <1>4 DEF MarkCompleted, redis, loop, dispatch, IInv, TypeOK
<1>6. LoopOK'
  BY LoopEnds DEF MarkCompleted, IInv, loop, dispatch, PCs
<1>7. TableOK'
  BY <1>0 DEF MarkCompleted, Completes, IInv, TypeOK, TableOK
<1>8. PushOK'
  BY PushFrame DEF MarkCompleted, dispatch, IInv
<1> QED BY <1>5, <1>6, <1>7, <1>8 DEF IInv

\* A release counts an attempt and frees the claim.
LEMMA ReleaseClaimKeeps ==
  ASSUME IInv, NEW r \in Replicas, ReleaseClaim(r)
  PROVE  IInv'
<1>1. PICK p \in PCs : p # "idle" /\ GoTo(r, p)
  BY DEF ReleaseClaim, PCs
<1>2. pc' \in [Replicas -> PCs]
  BY <1>1, GoToType DEF IInv
<1>3. /\ claim' \in [Announcements -> Replicas \cup {Nobody}]
      /\ attempts' \in [Announcements -> Nat]
  BY DEF ReleaseClaim, IInv, TypeOK
<1>4. TypeOK'
  BY <1>2, <1>3 DEF ReleaseClaim, redis, loop, dispatch, IInv, TypeOK
<1>5. LoopOK'
  BY <1>1, LoopMoves DEF ReleaseClaim, IInv, loop, dispatch
<1>6. TableOK'
  BY DEF ReleaseClaim, IInv, TypeOK, TableOK
<1>7. PushOK'
  BY PushFrame DEF ReleaseClaim, dispatch, IInv
<1> QED BY <1>4, <1>5, <1>6, <1>7 DEF IInv

\* The poison takes the claim with it, whoever has it.
LEMMA MarkPoisonedKeeps ==
  ASSUME IInv, NEW r \in Replicas, MarkPoisoned(r)
  PROVE  IInv'
<1>1. pc' \in [Replicas -> PCs]
  BY GoToType DEF MarkPoisoned, IInv, PCs
<1>2. /\ outcome' \in [Announcements -> {"due", "completed", "poisoned"}]
      /\ claim' \in [Announcements -> Replicas \cup {Nobody}]
  BY DEF MarkPoisoned, IInv, TypeOK
<1>3. TypeOK'
  BY <1>1, <1>2 DEF MarkPoisoned, redis, loop, dispatch, IInv, TypeOK
<1>4. LoopOK'
  BY LoopMoves DEF MarkPoisoned, IInv, loop, dispatch, PCs
<1>5. TableOK'
  BY DEF MarkPoisoned, IInv, TypeOK, TableOK
<1>6. PushOK'
  BY PushFrame DEF MarkPoisoned, dispatch, IInv
<1> QED BY <1>3, <1>4, <1>5, <1>6 DEF IInv

-----------------------------------------------------------------------------
(* Failures, the queue, and time. *)

\* A replica whose query fails goes on, ends its tick, or dies.
LEMMA FailuresKeep ==
  ASSUME IInv, NEW r \in Replicas,
         ReleaseStuckFails(r) \/ ClaimFails(r) \/ DispatchFails(r) \/ ReleaseFails(r)
  PROVE  IInv'
<1>1. adding[r] = {} /\ pc[r] # "idle"
  BY DEF ReleaseStuckFails, ClaimFails, DispatchFails, ReleaseFails, IInv, LoopOK
<1>2. PICK p \in PCs : GoTo(r, p)
  BY DEF ReleaseStuckFails, ClaimFails, DispatchFails, ReleaseFails, PCs
<1>3. Fault /\ UNCHANGED <<table, redis, loop, dispatch>>
  BY DEF ReleaseStuckFails, ClaimFails, DispatchFails, ReleaseFails
<1>4. pc' \in [Replicas -> PCs] /\ faults' \in 0..MaxFaults
  BY <1>2, <1>3, GoToType, FaultType DEF IInv
<1>5. TypeOK'
  BY <1>3, <1>4 DEF table, redis, loop, dispatch, IInv, TypeOK
<1>6. LoopOK'
  BY <1>1, <1>2, <1>3, LoopEnds DEF IInv, loop, dispatch
<1>7. TableOK' /\ PushOK'
  BY <1>3, TableFrame, PushFrame DEF dispatch, IInv
<1> QED BY <1>5, <1>6, <1>7 DEF IInv

\* A crash forgets the jobs that were to be added, and no marker.
LEMMA CrashKeeps ==
  ASSUME IInv, NEW r \in Replicas, Crash(r)
  PROVE  IInv'
<1>1. pc' \in [Replicas -> PCs] /\ faults' \in 0..MaxFaults
  BY GoToType, FaultType DEF Crash, IInv, PCs
<1>2. /\ left' \in [Replicas -> SUBSET Addresses]
      /\ adding' \in [Replicas -> SUBSET Addresses]
  BY DEF Crash, IInv, TypeOK
<1>3. TypeOK'
  BY <1>1, <1>2 DEF Crash, table, redis, loop, IInv, TypeOK
<1>4. LoopOK'
  BY DEF Crash, GoTo, loop, IInv, TypeOK, LoopOK
<1>5. TableOK'
  BY TableFrame DEF Crash, IInv
<1>6. PushOK'
  <2>1. UNCHANGED <<marked, jobs, sends, row>>
    BY DEF Crash, redis
  <2>2. ASSUME NEW s \in Replicas, NEW push \in Pushes, Adding(s, push)' PROVE Adding(s, push)
    BY <2>1, <2>2 DEF Adding, Crash, IInv, TypeOK
  <2> QED BY <2>1, <2>2 DEF IInv, PushOK
<1> QED BY <1>3, <1>4, <1>5, <1>6 DEF IInv

\* A job that is there was added, so nobody is about to add it again.
LEMMA JobsKeep ==
  ASSUME IInv, NEW push \in Pushes, Deliver(push) \/ GiveUp(push)
  PROVE  IInv'
<1>1. jobs' \in [Pushes -> Nat] /\ sends' \in [Pushes -> Int]
  BY DEF Deliver, GiveUp, IInv, TypeOK
<1>2. marked' \subseteq Pushes /\ faults' \in 0..MaxFaults
  BY FaultType DEF Deliver, GiveUp, IInv, TypeOK
<1>3. TypeOK'
  BY <1>1, <1>2 DEF Deliver, GiveUp, table, loop, dispatch, IInv, TypeOK
<1>4. LoopOK'
  BY DEF Deliver, GiveUp, loop, dispatch, IInv, LoopOK
<1>5. TableOK'
  BY TableFrame DEF Deliver, GiveUp, IInv
<1>6. PushOK'
  <2>1. /\ sends[push] = 1 /\ push \in marked
        /\ \A r \in Replicas : ~Adding(r, push)
    <3>1. jobs[push] \in Nat /\ jobs[push] > 0 /\ sends[push] \in Int
      BY DEF Deliver, GiveUp, IInv, TypeOK
    <3>2. sends[push] = 1
      BY <3>1 DEF IInv, PushOK
    <3> QED BY <3>2 DEF IInv, PushOK
  <2>2. UNCHANGED <<row, adding>>
    BY DEF Deliver, GiveUp, dispatch
  <2>3. \A r \in Replicas, p \in Pushes : Adding(r, p)' <=> Adding(r, p)
    BY <2>2 DEF Adding
  <2>4. CASE Deliver(push)
    BY <2>1, <2>3, <2>4 DEF Deliver, IInv, TypeOK, PushOK
  <2>5. CASE GiveUp(push)
    BY <2>1, <2>3, <2>5 DEF GiveUp, IInv, TypeOK, PushOK
  <2> QED BY <2>4, <2>5
<1> QED BY <1>3, <1>4, <1>5, <1>6 DEF IInv

\* A marker expires when nobody is about to use it.
LEMMA ExpiresKeeps ==
  ASSUME IInv, NEW push \in Pushes, Expires(push)
  PROVE  IInv'
<1>1. sends' \in [Pushes -> Int] /\ marked' \subseteq Pushes
  BY DEF Expires, IInv, TypeOK
<1>2. TypeOK'
  BY <1>1 DEF Expires, table, loop, dispatch, IInv, TypeOK
<1>3. LoopOK'
  BY DEF Expires, loop, dispatch, IInv, LoopOK
<1>4. TableOK'
  BY TableFrame DEF Expires, IInv
<1>5. PushOK'
  <2>1. jobs[push] = 0 /\ \A r \in Replicas : ~Adding(r, push)
    BY DEF Expires, Adding
  <2>2. \A r \in Replicas, p \in Pushes : Adding(r, p)' <=> Adding(r, p)
    BY DEF Expires, dispatch, Adding
  <2> QED BY <2>1, <2>2 DEF Expires, IInv, TypeOK, PushOK
<1> QED BY <1>2, <1>3, <1>4, <1>5 DEF IInv

LEMMA GoesStaleKeeps ==
  ASSUME IInv, NEW a \in Announcements, GoesStale(a)
  PROVE  IInv'
<1>1. stale' \in [Announcements -> BOOLEAN]
  BY DEF GoesStale, IInv, TypeOK
<1>2. faults' \in 0..MaxFaults
  BY FaultType DEF GoesStale, IInv, TypeOK
<1>3. TypeOK'
  BY <1>1, <1>2 DEF GoesStale, redis, loop, dispatch, IInv, TypeOK
<1>4. LoopOK' /\ TableOK'
  BY DEF GoesStale, loop, dispatch, IInv, LoopOK, TableOK
<1>5. PushOK'
  BY PushFrame DEF GoesStale, dispatch, IInv
<1> QED BY <1>3, <1>4, <1>5 DEF IInv

-----------------------------------------------------------------------------
\* Every step preserves the invariant.
THEOREM NextInvariant == IInv /\ [Next]_vars => IInv'
<1> SUFFICES ASSUME IInv, [Next]_vars PROVE IInv'
  OBVIOUS
<1>1. ASSUME NEW r \in Replicas, Tick(r) \/ HeartbeatClaim(r) PROVE IInv'
  BY <1>1, TickKeeps, HeartbeatKeeps
<1>2. ASSUME NEW r \in Replicas, Drain(r) PROVE IInv'
  <2>1. ASSUME NEW a \in Announcements, ClaimNextDue(r, a) PROVE IInv'
    BY <2>1, ClaimNextDueKeeps
  <2>2. ASSUME NEW s \in SUBSET Addresses, Resolve(r, s) PROVE IInv'
    BY <2>2, ResolveKeeps
  <2>3. ASSUME NEW x \in Addresses, NotSent(r, x) PROVE IInv'
    BY <2>3, NotSentKeeps
  <2>4. ASSUME NEW x \in Addresses, Send(r, x) \/ AddJob(r, x) PROVE IInv'
    BY <2>4, SendKeeps, AddJobKeeps
  <2>5. ASSUME ReleaseStuck(r) \/ Drained(r) PROVE IInv'
    BY <2>5, ReleaseStuckKeeps, DrainedKeeps
  <2>6. ASSUME MarkCompleted(r) \/ ReleaseClaim(r) \/ MarkPoisoned(r) PROVE IInv'
    BY <2>6, MarkCompletedKeeps, ReleaseClaimKeeps, MarkPoisonedKeeps
  <2> QED BY <1>2, <2>1, <2>2, <2>3, <2>4, <2>5, <2>6 DEF Drain
<1>3. ASSUME NEW r \in Replicas, Failure(r) PROVE IInv'
  BY <1>3, FailuresKeep, CrashKeeps, AddJobFailsKeeps DEF Failure
<1>4. ASSUME NEW push \in Pushes, Deliver(push) \/ GiveUp(push) \/ Expires(push) PROVE IInv'
  BY <1>4, JobsKeep, ExpiresKeeps
<1>5. ASSUME NEW a \in Announcements, GoesStale(a) PROVE IInv'
  BY <1>5, GoesStaleKeeps
<1>6. CASE UNCHANGED vars
  <2>1. LoopOK' /\ TypeOK'
    BY <1>6 DEF vars, table, redis, loop, dispatch, IInv, TypeOK, LoopOK
  <2>2. TableOK' /\ PushOK'
    BY <1>6, TableFrame, PushFrame DEF vars, dispatch, IInv
  <2> QED BY <2>1, <2>2 DEF IInv
<1> QED BY <1>1, <1>2, <1>3, <1>4, <1>5, <1>6 DEF Next

\* The inductive invariant holds in every reachable state.
THEOREM Invariance == Spec => []IInv
  BY InitInvariant, NextInvariant, PTL DEF Spec

\* No drain beyond the cap, no job that was not added, for all bounds.
THEOREM TypeCorrect == Spec => []TypeOK
<1>1. IInv => TypeOK
  BY DEF IInv
<1> QED BY Invariance, <1>1, PTL

\* However many replicas stall, take a row over and resume, markCompleted
\* finds the row once.
THEOREM CompletionIsUnique == Spec => []CompletedOnce
<1>1. IInv => CompletedOnce
  BY DEF IInv, TableOK, CompletedOnce
<1> QED BY Invariance, <1>1, PTL

\* However often and by however many replicas a row is dispatched, an address
\* has at most one push job for it that was not given up, while its marker lasts.
THEOREM PushIsUnique == Spec => []PushedOnce
<1>1. IInv => PushedOnce
  BY DEF IInv, PushOK, PushedOnce
<1> QED BY Invariance, <1>1, PTL
=============================================================================
