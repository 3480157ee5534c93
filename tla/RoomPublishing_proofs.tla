------------------------ MODULE RoomPublishing_proofs -------------------------
(***************************************************************************)
(* PublishQueue, and RoomCreation whose jobs it carries, for all sets of    *)
(* jobs, slots, requests and ack handlers and all bounds: types; that a     *)
(* paused queue has somebody in the process who is going to resume it and   *)
(* an unhealthy writer a connection on its way; that a confirmed room's     *)
(* group was on the relay and a created room is never taken back.           *)
(***************************************************************************)
EXTENDS PublishQueue, RoomCreation, TLAPS

-----------------------------------------------------------------------------
(* PublishQueue                                                             *)

\* A busy slot works on an active job, which no other slot has.
SlotsOK ==
  /\ \A s \in Slots : slot[s] = Idle \/ (slot[s].pc # "idle" /\ JobOf(s) \in Jobs /\ job[JobOf(s)] = "active")
  /\ \A s, t \in Slots : slot[s].pc # "idle" /\ slot[t].pc # "idle" /\ JobOf(s) = JobOf(t) => s = t

\* A job that is not settled has an attempt left, and had no more acks than attempts.
JobsOK == \A j \in Jobs : job[j] # "settled" => made[j] < MaxAttempts /\ acks[j] <= made[j]

\* The slots that an opening will answer are waiting for it.
WaitersOK == \A s \in Slots : s \in waiters => slot[s].pc = "connect"

IInv == TypeOK /\ SlotsOK /\ JobsOK /\ WaitersOK /\ PauseIsWatched

-----------------------------------------------------------------------------
\* The initial states satisfy the invariant: a pause found at the start has the boot.
THEOREM InitInvariant == Init => IInv
<1> SUFFICES ASSUME Init PROVE IInv
  OBVIOUS
<1>1. /\ job \in [Jobs -> {"waiting", "delayed", "active", "settled"}]
      /\ made \in [Jobs -> 0..MaxAttempts] /\ acks \in [Jobs -> 0..MaxAttempts]
      /\ slot \in [Slots -> [pc : PCs, job : Jobs \cup {NoJob}]] /\ faults \in 0..MaxFaults
  BY BoundAssumption DEF Init, Idle, PCs
<1>2. /\ stalled \subseteq Jobs /\ paused \in BOOLEAN /\ up \in BOOLEAN
      /\ armed \in BOOLEAN /\ probing \in BOOLEAN /\ boot \in BOOLEAN
      /\ healthy \in BOOLEAN /\ timer \in BOOLEAN
      /\ sock \in {"none", "open", "closed"} /\ opening \in {"no", "connect", "auth"}
      /\ waiters \subseteq Slots \cup {Reconnect}
  BY DEF Init
<1>3. TypeOK
  BY <1>1, <1>2 DEF TypeOK
<1>4. SlotsOK
  BY DEF Init, SlotsOK, Idle
<1>5. JobsOK
  BY BoundAssumption DEF Init, JobsOK
<1>6. WaitersOK
  BY NameAssumption DEF Init, WaitersOK
<1>7. PauseIsWatched
  BY DEF Init, PauseIsWatched
<1> QED BY <1>3, <1>4, <1>5, <1>6, <1>7 DEF IInv

-----------------------------------------------------------------------------
(* What an action leaves alone keeps its part of the invariant. *)

LEMMA SlotsFrame == SlotsOK /\ UNCHANGED <<slot, job>> => SlotsOK'
  BY DEF SlotsOK, JobOf

LEMMA JobsFrame == JobsOK /\ UNCHANGED <<job, made, acks>> => JobsOK'
  BY DEF JobsOK

LEMMA WaitersFrame == WaitersOK /\ UNCHANGED <<slot, waiters>> => WaitersOK'
  BY DEF WaitersOK

LEMMA WatchFrame == PauseIsWatched /\ UNCHANGED <<paused, slot, armed, probing, boot>> => PauseIsWatched'
<1> SUFFICES ASSUME PauseIsWatched, paused', UNCHANGED <<paused, slot, armed, probing, boot>>
             PROVE  armed' \/ probing' \/ boot' \/ \E s \in Slots : slot'[s].pc \in {"arm down", "arm late"}
  BY Zenon DEF PauseIsWatched
<1>1. paused /\ slot' = slot /\ (armed => armed') /\ (probing => probing') /\ (boot => boot')
  BY Zenon
<1>2. armed \/ probing \/ boot \/ \E s \in Slots : slot[s].pc \in {"arm down", "arm late"}
  BY <1>1, Zenon DEF PauseIsWatched
<1> QED BY <1>1, <1>2, Zenon

LEMMA FaultType == TypeOK /\ Fault => faults' \in 0..MaxFaults
  BY BoundAssumption DEF TypeOK, Fault

-----------------------------------------------------------------------------
(* A slot goes on to another await, or leaves its job. *)

LEMMA GoKeeps ==
  ASSUME TypeOK, SlotsOK, NEW s \in Slots, NEW p \in PCs,
         slot[s].pc # "idle", p # "idle", Go(s, p), UNCHANGED job
  PROVE  slot' \in [Slots -> [pc : PCs, job : Jobs \cup {NoJob}]] /\ SlotsOK'
<1>1. \A t \in Slots : slot[t] \in [pc : PCs, job : Jobs \cup {NoJob}]
  BY DEF TypeOK
<1>2. slot'[s] = [slot[s] EXCEPT !.pc = p] /\ \A t \in Slots \ {s} : slot'[t] = slot[t]
  BY DEF Go, TypeOK
<1>3. slot'[s].pc = p /\ slot'[s].job = slot[s].job /\ slot'[s] \in [pc : PCs, job : Jobs \cup {NoJob}]
  BY <1>1, <1>2
<1>4. slot' \in [Slots -> [pc : PCs, job : Jobs \cup {NoJob}]]
  BY <1>1, <1>2, <1>3 DEF Go, TypeOK
<1>5. slot[s] # Idle
  BY DEF Idle
<1>6. SlotsOK'
  BY <1>2, <1>3, <1>5 DEF SlotsOK, JobOf
<1> QED BY <1>4, <1>6

\* The job left behind may have any other status: no other slot has it.
LEMMA FreeKeeps ==
  ASSUME TypeOK, SlotsOK, NEW s \in Slots, slot[s].pc # "idle", Free(s),
         \A j \in Jobs \ {JobOf(s)} : job'[j] = job[j]
  PROVE  slot' \in [Slots -> [pc : PCs, job : Jobs \cup {NoJob}]] /\ SlotsOK'
<1>1. slot'[s] = Idle /\ \A t \in Slots \ {s} : slot'[t] = slot[t]
  BY DEF Free, TypeOK
<1>2. Idle \in [pc : PCs, job : Jobs \cup {NoJob}] /\ Idle.pc = "idle"
  BY DEF Idle, PCs
<1>3. slot' \in [Slots -> [pc : PCs, job : Jobs \cup {NoJob}]]
  BY <1>2 DEF Free, TypeOK
<1>4. ASSUME NEW t \in Slots \ {s}, slot[t].pc # "idle"
      PROVE  JobOf(t) \in Jobs \ {JobOf(s)} /\ job[JobOf(t)] = "active"
  BY <1>2, <1>4 DEF SlotsOK
<1>5. ASSUME NEW t \in Slots
      PROVE  slot'[t] = Idle \/ (slot'[t].pc # "idle" /\ slot'[t].job \in Jobs /\ job'[slot'[t].job] = "active")
  BY <1>1, <1>4 DEF SlotsOK, JobOf
<1>6. ASSUME NEW t \in Slots, NEW u \in Slots, slot'[t].pc # "idle", slot'[u].pc # "idle", slot'[t].job = slot'[u].job
      PROVE  t = u
  <2>1. t # s /\ u # s
    BY <1>1, <1>2, <1>6
  <2> QED BY <1>1, <1>6, <2>1 DEF SlotsOK, JobOf
<1> QED BY <1>3, <1>5, <1>6 DEF SlotsOK, JobOf

\* Bull after a throw: the job is delayed with an attempt less, or given up.
LEMMA AfterThrowType ==
  ASSUME TypeOK, NEW j \in Jobs
  PROVE  /\ AfterThrow(j) \in [Jobs -> {"waiting", "delayed", "active", "settled"}]
         /\ \A i \in Jobs \ {j} : AfterThrow(j)[i] = job[i]
         /\ AfterThrow(j)[j] # "settled" => made[j] + 1 < MaxAttempts
  BY BoundAssumption DEF TypeOK, AfterThrow, LastAttempt

\* An attempt that throws, with its ack or without.
LEMMA ThrowKeeps ==
  ASSUME TypeOK, SlotsOK, JobsOK, NEW s \in Slots, slot[s].pc # "idle",
         Throw(s), Ack(JobOf(s)) \/ UNCHANGED acks
  PROVE  /\ job' \in [Jobs -> {"waiting", "delayed", "active", "settled"}]
         /\ made' \in [Jobs -> 0..MaxAttempts] /\ acks' \in [Jobs -> 0..MaxAttempts]
         /\ slot' \in [Slots -> [pc : PCs, job : Jobs \cup {NoJob}]]
         /\ SlotsOK' /\ JobsOK'
<1> DEFINE j == JobOf(s)
<1>1. j \in Jobs /\ job[j] = "active"
  BY DEF SlotsOK, Idle
<1>2. made[j] < MaxAttempts /\ acks[j] <= made[j] /\ made[j] \in Nat /\ acks[j] \in Nat
  BY <1>1, BoundAssumption DEF JobsOK, TypeOK
<1>3. job' = AfterThrow(j) /\ made' = [made EXCEPT ![j] = @ + 1]
  BY DEF Throw
<1>4. job' \in [Jobs -> {"waiting", "delayed", "active", "settled"}]
  BY <1>1, <1>3, AfterThrowType
<1>5. made' \in [Jobs -> 0..MaxAttempts] /\ made'[j] = made[j] + 1 /\ \A i \in Jobs \ {j} : made'[i] = made[i]
  BY <1>1, <1>2, <1>3, BoundAssumption DEF TypeOK
<1>6. acks' \in [Jobs -> 0..MaxAttempts] /\ acks'[j] <= made[j] + 1 /\ \A i \in Jobs \ {j} : acks'[i] = acks[i]
  BY <1>1, <1>2, BoundAssumption DEF TypeOK, Ack
<1>7. \A i \in Jobs \ {j} : job'[i] = job[i]
  BY <1>1, <1>3, AfterThrowType
<1>8. slot' \in [Slots -> [pc : PCs, job : Jobs \cup {NoJob}]] /\ SlotsOK'
  BY <1>7, FreeKeeps DEF Throw
<1>9. JobsOK'
  BY <1>1, <1>2, <1>3, <1>5, <1>6, <1>7, AfterThrowType DEF JobsOK
<1> QED BY <1>4, <1>5, <1>6, <1>8, <1>9

\* An attempt that ends its job, with its ack.
LEMMA SettleKeeps ==
  ASSUME TypeOK, SlotsOK, JobsOK, NEW s \in Slots, slot[s].pc # "idle", Settle(s), Ack(JobOf(s))
  PROVE  /\ job' \in [Jobs -> {"waiting", "delayed", "active", "settled"}]
         /\ acks' \in [Jobs -> 0..MaxAttempts]
         /\ slot' \in [Slots -> [pc : PCs, job : Jobs \cup {NoJob}]]
         /\ SlotsOK' /\ JobsOK'
<1> DEFINE j == JobOf(s)
<1>1. j \in Jobs /\ job[j] = "active"
  BY DEF SlotsOK, Idle
<1>2. made[j] < MaxAttempts /\ acks[j] <= made[j] /\ made[j] \in Nat /\ acks[j] \in Nat
  BY <1>1, BoundAssumption DEF JobsOK, TypeOK
<1>3. job' \in [Jobs -> {"waiting", "delayed", "active", "settled"}] /\ job'[j] = "settled" /\ \A i \in Jobs \ {j} : job'[i] = job[i]
  BY <1>1 DEF Settle, TypeOK
<1>4. acks' \in [Jobs -> 0..MaxAttempts] /\ \A i \in Jobs \ {j} : acks'[i] = acks[i]
  BY <1>1, <1>2, BoundAssumption DEF TypeOK, Ack
<1>5. slot' \in [Slots -> [pc : PCs, job : Jobs \cup {NoJob}]] /\ SlotsOK'
  BY <1>3, FreeKeeps DEF Settle
<1>6. JobsOK'
  BY <1>3, <1>4 DEF JobsOK, Settle
<1> QED BY <1>3, <1>4, <1>5, <1>6

\* A slot that was not waiting for an opening does as it likes, short of waiting.
LEMMA WaitersMove ==
  ASSUME TypeOK, WaitersOK, NEW s \in Slots, slot[s].pc # "connect",
         \A t \in Slots \ {s} : slot'[t] = slot[t], UNCHANGED waiters
  PROVE  WaitersOK'
  BY DEF WaitersOK

\* A slot that is not about to arm the loop does as it likes, if the queue does not change.
LEMMA WatchMove ==
  ASSUME TypeOK, PauseIsWatched, NEW s \in Slots, slot[s].pc \notin {"arm down", "arm late"},
         \A t \in Slots \ {s} : slot'[t] = slot[t], UNCHANGED <<paused, armed, probing, boot>>
  PROVE  PauseIsWatched'
  BY DEF PauseIsWatched

LEMMA Others ==
  ASSUME TypeOK, NEW s \in Slots
  PROVE  /\ Free(s) => \A t \in Slots \ {s} : slot'[t] = slot[t]
         /\ \A p \in PCs : Go(s, p) => \A t \in Slots \ {s} : slot'[t] = slot[t]
  BY DEF Free, Go, TypeOK

-----------------------------------------------------------------------------
(* process *)

LEMMA TakeKeeps ==
  ASSUME IInv, NEW s \in Slots, NEW j \in Jobs, Take(s, j)
  PROVE  IInv'
<1> DEFINE p == IF IsHealthy THEN "send" ELSE "isPaused down"
<1>1. slot[s] = Idle /\ job[j] = "waiting"
  BY DEF Take
<1>a. slot[s].pc = "idle" /\ p \in PCs \ {"idle", "connect", "arm down", "arm late"}
  BY <1>1 DEF Idle, PCs
<1>2. slot' = [slot EXCEPT ![s] = [pc |-> p, job |-> j]]
  BY DEF Take
<1> HIDE DEF p
<1>3. slot'[s] = [pc |-> p, job |-> j] /\ \A t \in Slots \ {s} : slot'[t] = slot[t]
  BY <1>2 DEF IInv, TypeOK
<1>4. slot' \in [Slots -> [pc : PCs, job : Jobs \cup {NoJob}]]
  BY <1>a, <1>2 DEF IInv, TypeOK
<1>5. job' \in [Jobs -> {"waiting", "delayed", "active", "settled"}] /\ job'[j] = "active" /\ \A i \in Jobs \ {j} : job'[i] = job[i]
  BY DEF Take, IInv, TypeOK
<1>6. TypeOK'
  BY <1>4, <1>5 DEF Take, resumption, writer, IInv, TypeOK
<1>7. SlotsOK'
  <2>1. ASSUME NEW t \in Slots \ {s}, slot[t].pc # "idle"
        PROVE  JobOf(t) \in Jobs \ {j} /\ job'[JobOf(t)] = "active"
    <3>1. JobOf(t) \in Jobs /\ job[JobOf(t)] = "active"
      BY <2>1 DEF IInv, SlotsOK, Idle
    <3> QED BY <1>1, <1>5, <3>1
  <2>2. ASSUME NEW t \in Slots
        PROVE  slot'[t] = Idle \/ (slot'[t].pc # "idle" /\ slot'[t].job \in Jobs /\ job'[slot'[t].job] = "active")
    <3>1. CASE t = s
      <4>1. slot'[t].pc = p /\ slot'[t].job = j
        BY <1>3, <3>1
      <4> QED BY <1>a, <1>5, <4>1
    <3>2. CASE t # s
      <4>1. slot[t] = Idle \/ slot[t].pc # "idle"
        BY DEF IInv, SlotsOK
      <4> QED BY <1>3, <2>1, <3>2, <4>1 DEF JobOf
    <3> QED BY <3>1, <3>2
  <2>3. ASSUME NEW t \in Slots, NEW u \in Slots, slot'[t].pc # "idle", slot'[u].pc # "idle", slot'[t].job = slot'[u].job
        PROVE  t = u
    <3>1. CASE t # s /\ u # s
      BY <1>3, <2>3, <3>1 DEF IInv, SlotsOK, JobOf
    <3>2. ASSUME NEW v \in Slots \ {s}, slot'[v].pc # "idle" PROVE slot'[v].job # j
      BY <1>3, <2>1, <3>2 DEF JobOf
    <3> QED BY <1>3, <2>3, <3>1, <3>2
  <2> QED BY <2>2, <2>3 DEF SlotsOK, JobOf
<1>8. JobsOK'
  BY <1>1, <1>5 DEF Take, IInv, JobsOK
<1>9. WaitersOK'
  BY <1>a, <1>3, WaitersMove DEF Take, writer, IInv
<1>10. PauseIsWatched'
  BY <1>a, <1>3, WatchMove DEF Take, resumption, IInv
<1> QED BY <1>6, <1>7, <1>8, <1>9, <1>10 DEF IInv

LEMMA SendKeeps ==
  ASSUME IInv, NEW s \in Slots, Send(s)
  PROVE  IInv'
<1>1. slot[s].pc = "send"
  BY DEF Send
<1>2. PICK p \in {"sent", "connect"} : Go(s, p) /\ (p = "sent" => UNCHANGED waiters) /\ (p = "connect" => waiters' = waiters \cup {s})
  BY DEF Send
<1>3. p \in PCs /\ p # "idle" /\ \A t \in Slots \ {s} : slot'[t] = slot[t]
  BY <1>2, Others DEF IInv, PCs
<1>4. slot' \in [Slots -> [pc : PCs, job : Jobs \cup {NoJob}]] /\ SlotsOK'
  BY <1>1, <1>2, <1>3, GoKeeps DEF Send, queue, IInv
<1>5. waiters' \subseteq Slots \cup {Reconnect} /\ opening' \in {"no", "connect", "auth"}
  BY DEF Send, IInv, TypeOK
<1>6. TypeOK'
  BY <1>4, <1>5 DEF Send, queue, resumption, IInv, TypeOK
<1>7. JobsOK'
  BY JobsFrame DEF Send, queue, IInv
<1>8. WaitersOK'
  <2>1. slot'[s].pc = p
    BY <1>2 DEF Go, IInv, TypeOK
  <2>2. s \notin waiters
    BY <1>1 DEF IInv, WaitersOK
  <2> QED BY <1>2, <1>3, <2>1, <2>2 DEF IInv, WaitersOK
<1>9. PauseIsWatched'
  BY <1>1, <1>3, WatchMove DEF Send, queue, resumption, IInv
<1> QED BY <1>4, <1>6, <1>7, <1>8, <1>9 DEF IInv

\* An answer that completes or discards the job.
LEMMA SettledKeeps ==
  ASSUME IInv, NEW s \in Slots, slot[s].pc = "sent", Settle(s), Ack(JobOf(s)),
         UNCHANGED <<resumption, writer, up, faults>>
  PROVE  IInv'
<1>1. \A t \in Slots \ {s} : slot'[t] = slot[t]
  BY Others DEF Settle, IInv
<1>2. /\ job' \in [Jobs -> {"waiting", "delayed", "active", "settled"}]
      /\ acks' \in [Jobs -> 0..MaxAttempts]
      /\ slot' \in [Slots -> [pc : PCs, job : Jobs \cup {NoJob}]]
      /\ SlotsOK' /\ JobsOK'
  BY SettleKeeps DEF IInv
<1>3. TypeOK'
  BY <1>2 DEF Settle, resumption, writer, IInv, TypeOK
<1>4. WaitersOK'
  BY <1>1, WaitersMove DEF writer, IInv
<1>5. PauseIsWatched'
  BY <1>1, WatchMove DEF Settle, resumption, IInv
<1> QED BY <1>2, <1>3, <1>4, <1>5 DEF IInv

\* A throw that leaves the pause and the loop alone.
LEMMA ThrownKeeps ==
  ASSUME IInv, NEW s \in Slots, slot[s].pc = "sent", Throw(s), Ack(JobOf(s)) \/ UNCHANGED acks,
         UNCHANGED <<resumption, writer, up>>, faults' \in 0..MaxFaults
  PROVE  IInv'
<1>1. \A t \in Slots \ {s} : slot'[t] = slot[t]
  BY Others DEF Throw, IInv
<1>2. /\ job' \in [Jobs -> {"waiting", "delayed", "active", "settled"}]
      /\ made' \in [Jobs -> 0..MaxAttempts] /\ acks' \in [Jobs -> 0..MaxAttempts]
      /\ slot' \in [Slots -> [pc : PCs, job : Jobs \cup {NoJob}]]
      /\ SlotsOK' /\ JobsOK'
  BY ThrowKeeps DEF IInv
<1>3. TypeOK'
  BY <1>2 DEF Throw, resumption, writer, IInv, TypeOK
<1>4. WaitersOK'
  BY <1>1, WaitersMove DEF writer, IInv
<1>5. PauseIsWatched'
  BY <1>1, WatchMove DEF Throw, resumption, IInv
<1> QED BY <1>2, <1>3, <1>4, <1>5 DEF IInv

LEMMA AnswerKeeps ==
  ASSUME IInv, NEW s \in Slots,
         AnswerOk(s) \/ AnswerTerminal(s) \/ AnswerMissing(s) \/ AnswerReject(s) \/ AnswerLost(s)
  PROVE  IInv'
<1>1. faults \in 0..MaxFaults
  BY DEF IInv, TypeOK
<1>2. CASE AnswerOk(s) \/ AnswerMissing(s)
  BY <1>2, SettledKeeps DEF AnswerOk, AnswerMissing, Answered
<1>3. CASE AnswerTerminal(s)
  BY <1>1, <1>3, ThrownKeeps DEF AnswerTerminal, Answered
<1>4. CASE AnswerReject(s)
  <2>1. faults' \in 0..MaxFaults
    BY <1>4, FaultType DEF AnswerReject, IInv
  <2> QED BY <1>4, <2>1, ThrownKeeps DEF AnswerReject, Answered, ThrowRetryable
<1>5. CASE AnswerLost(s)
  BY <1>1, <1>5, ThrownKeeps DEF AnswerLost, ThrowRetryable
<1> QED BY <1>2, <1>3, <1>4, <1>5

LEMMA AnswerLateKeeps ==
  ASSUME IInv, NEW s \in Slots, AnswerLate(s)
  PROVE  IInv'
<1>1. slot[s].pc = "sent" /\ "isPaused late" \in PCs
  BY DEF AnswerLate, PCs
<1>2. \A t \in Slots \ {s} : slot'[t] = slot[t]
  BY <1>1, Others DEF AnswerLate, IInv
<1>3. slot' \in [Slots -> [pc : PCs, job : Jobs \cup {NoJob}]] /\ SlotsOK'
  BY <1>1, GoKeeps DEF AnswerLate, queue, IInv
<1>4. faults' \in 0..MaxFaults
  BY FaultType DEF AnswerLate, IInv
<1>5. TypeOK'
  BY <1>3, <1>4 DEF AnswerLate, AfterTimeout, queue, resumption, IInv, TypeOK
<1>6. JobsOK'
  BY JobsFrame DEF AnswerLate, queue, IInv
<1>7. WaitersOK'
  BY <1>1, <1>2, WaitersMove DEF AnswerLate, IInv
<1>8. PauseIsWatched'
  BY <1>1, <1>2, WatchMove DEF AnswerLate, queue, resumption, IInv
<1> QED BY <1>3, <1>5, <1>6, <1>7, <1>8 DEF IInv

-----------------------------------------------------------------------------
(* pauseForOutage, armResume, tryResume *)

LEMMA ReadPausedKeeps ==
  ASSUME IInv, NEW s \in Slots, ReadPaused(s)
  PROVE  IInv'
<1>1. slot[s].pc \in {"isPaused down", "isPaused late"} /\ ~paused /\ ~paused'
  BY DEF ReadPaused, queue
<1>2. PICK p \in {"pause down", "pause late"} : Go(s, p)
  BY DEF ReadPaused
<1>3. p \in PCs /\ p # "idle" /\ \A t \in Slots \ {s} : slot'[t] = slot[t]
  BY <1>2, Others DEF IInv, PCs
<1>4. slot' \in [Slots -> [pc : PCs, job : Jobs \cup {NoJob}]] /\ SlotsOK'
  BY <1>1, <1>2, <1>3, GoKeeps DEF ReadPaused, queue, IInv
<1>5. armed' \in BOOLEAN
  BY DEF ReadPaused, Arms, IInv, TypeOK
<1>6. TypeOK'
  BY <1>4, <1>5 DEF ReadPaused, queue, writer, IInv, TypeOK
<1>7. JobsOK'
  BY JobsFrame DEF ReadPaused, queue, IInv
<1>8. WaitersOK'
  BY <1>1, <1>3, WaitersMove DEF ReadPaused, writer, IInv
<1>9. PauseIsWatched'
  BY <1>1 DEF PauseIsWatched
<1> QED BY <1>4, <1>6, <1>7, <1>8, <1>9 DEF IInv

\* Whoever pauses the queue is then about to arm the loop.
LEMMA PauseQueueKeeps ==
  ASSUME IInv, NEW s \in Slots, PauseQueue(s)
  PROVE  IInv'
<1>1. slot[s].pc \in {"pause down", "pause late"}
  BY DEF PauseQueue
<1>2. PICK p \in {"arm down", "arm late"} : Go(s, p)
  BY DEF PauseQueue
<1>3. p \in PCs /\ p # "idle" /\ \A t \in Slots \ {s} : slot'[t] = slot[t]
  BY <1>2, Others DEF IInv, PCs
<1>4. slot' \in [Slots -> [pc : PCs, job : Jobs \cup {NoJob}]] /\ SlotsOK'
  BY <1>1, <1>2, <1>3, GoKeeps DEF PauseQueue, IInv
<1>5. TypeOK'
  BY <1>4 DEF PauseQueue, resumption, writer, IInv, TypeOK
<1>6. JobsOK'
  BY JobsFrame DEF PauseQueue, IInv
<1>7. WaitersOK'
  BY <1>1, <1>3, WaitersMove DEF PauseQueue, writer, IInv
<1>8. slot'[s].pc = p
  BY <1>2 DEF Go, IInv, TypeOK
<1>9. PauseIsWatched'
  BY <1>8 DEF PauseIsWatched
<1> QED BY <1>4, <1>5, <1>6, <1>7, <1>9 DEF IInv

\* The attempt ends, and the loop is armed.
LEMMA EndAttemptKeeps ==
  ASSUME IInv, NEW s \in Slots, slot[s].pc \in PCs \ {"idle", "connect"}, EndAttempt(s), faults' \in 0..MaxFaults
  PROVE  IInv'
<1>1. Throw(s) /\ (Ack(JobOf(s)) \/ UNCHANGED acks) /\ \A t \in Slots \ {s} : slot'[t] = slot[t]
  BY Others DEF EndAttempt, Throw, IInv
<1>2. /\ job' \in [Jobs -> {"waiting", "delayed", "active", "settled"}]
      /\ made' \in [Jobs -> 0..MaxAttempts] /\ acks' \in [Jobs -> 0..MaxAttempts]
      /\ slot' \in [Slots -> [pc : PCs, job : Jobs \cup {NoJob}]]
      /\ SlotsOK' /\ JobsOK'
  BY <1>1, ThrowKeeps DEF IInv
<1>3. armed'
  BY DEF EndAttempt, Arms
<1>4. TypeOK'
  BY <1>2, <1>3 DEF EndAttempt, Throw, writer, IInv, TypeOK
<1>5. WaitersOK'
  BY <1>1, WaitersMove DEF EndAttempt, writer, IInv
<1>6. PauseIsWatched'
  BY <1>3 DEF PauseIsWatched
<1> QED BY <1>2, <1>4, <1>5, <1>6 DEF IInv

LEMMA OutageKeeps ==
  ASSUME IInv, NEW s \in Slots, ArmResume(s) \/ FindPaused(s) \/ PauseFails(s)
  PROVE  IInv'
<1>1. slot[s].pc \in PCs \ {"idle", "connect"} /\ EndAttempt(s)
  BY DEF ArmResume, FindPaused, PauseFails, PCs
<1>2. faults' \in 0..MaxFaults
  BY FaultType DEF ArmResume, FindPaused, PauseFails, IInv, TypeOK
<1> QED BY <1>1, <1>2, EndAttemptKeeps

\* A change of the loop and the pause only.
LEMMA LoopKeeps ==
  ASSUME IInv, UNCHANGED <<job, made, stalled, slot, acks, writer, up>>, faults' \in 0..MaxFaults,
         paused' \in BOOLEAN, armed' \in BOOLEAN, probing' \in BOOLEAN, boot' \in BOOLEAN, PauseIsWatched'
  PROVE  IInv'
<1>1. TypeOK'
  BY DEF writer, IInv, TypeOK
<1>2. SlotsOK' /\ JobsOK' /\ WaitersOK'
  BY SlotsFrame, JobsFrame, WaitersFrame DEF writer, IInv
<1> QED BY <1>1, <1>2 DEF IInv

\* A probe is under way when the loop is not armed again.
LEMMA ProbeKeeps ==
  ASSUME IInv, Probe
  PROVE  IInv'
<1>1. armed' = ~IsHealthy /\ probing' = IsHealthy
  BY DEF Probe, StillArmed
<1>2. IsHealthy \in BOOLEAN
  BY DEF IsHealthy
<1>3. armed' \/ probing'
  BY <1>1, <1>2
<1>4. PauseIsWatched'
  BY <1>3 DEF PauseIsWatched
<1>5. armed' \in BOOLEAN /\ probing' \in BOOLEAN
  BY <1>1, <1>2
<1> QED BY <1>4, <1>5, LoopKeeps DEF Probe, queue, IInv, TypeOK

LEMMA ResumptionKeeps ==
  ASSUME IInv, Resume \/ ResumeFails \/ BootResume
  PROVE  IInv'
<1>1. CASE Resume \/ BootResume
  <2>1. PauseIsWatched'
    BY <1>1 DEF Resume, BootResume, PauseIsWatched
  <2> QED BY <1>1, <2>1, LoopKeeps DEF Resume, BootResume, IInv, TypeOK
<1>2. CASE ResumeFails
  <2>1. PauseIsWatched'
    BY <1>2 DEF ResumeFails, PauseIsWatched
  <2>2. faults' \in 0..MaxFaults
    BY <1>2, FaultType DEF ResumeFails, IInv
  <2> QED BY <1>2, <2>1, <2>2, LoopKeeps DEF ResumeFails, queue, IInv, TypeOK
<1> QED BY <1>1, <1>2

-----------------------------------------------------------------------------
(* The connection *)

\* An opening that ends without a socket: the slots that wait for it throw.
LEMMA RefusedKeeps ==
  ASSUME IInv, NEW S \in SUBSET Slots, \A s \in S : slot[s].pc = "connect", Connected(S, FALSE), UNCHANGED acks
  PROVE  /\ job' \in [Jobs -> {"waiting", "delayed", "active", "settled"}]
         /\ made' \in [Jobs -> 0..MaxAttempts]
         /\ slot' \in [Slots -> [pc : PCs, job : Jobs \cup {NoJob}]]
         /\ SlotsOK' /\ JobsOK'
<1> DEFINE held(j) == \E s \in S : JobOf(s) = j
<1>1. \A s \in S : JobOf(s) \in Jobs /\ job[JobOf(s)] = "active"
  BY DEF IInv, SlotsOK, Idle
<1>2. slot' = [s \in Slots |-> IF s \notin S THEN slot[s] ELSE Idle]
  BY DEF Connected
<1>3. /\ job' = [j \in Jobs |-> IF held(j) THEN AfterThrow(j)[j] ELSE job[j]]
      /\ made' = [j \in Jobs |-> IF held(j) THEN made[j] + 1 ELSE made[j]]
  BY DEF Connected
<1>4. slot' \in [Slots -> [pc : PCs, job : Jobs \cup {NoJob}]]
  BY <1>2 DEF IInv, TypeOK, Idle, PCs
<1>5. ASSUME NEW j \in Jobs, held(j)
      PROVE  /\ made[j] < MaxAttempts /\ made'[j] = made[j] + 1 /\ made'[j] \in 0..MaxAttempts
             /\ job'[j] \in {"waiting", "delayed", "active", "settled"}
             /\ job'[j] # "settled" => made'[j] < MaxAttempts
             /\ acks'[j] <= made'[j]
  <2>1. job[j] = "active" /\ made[j] \in Nat /\ acks[j] \in Nat
    BY <1>1, <1>5 DEF IInv, TypeOK
  <2>2. made[j] < MaxAttempts /\ acks[j] <= made[j]
    BY <2>1 DEF IInv, JobsOK
  <2>3. job'[j] = AfterThrow(j)[j] /\ made'[j] = made[j] + 1
    BY <1>3, <1>5
  <2> HIDE DEF held
  <2> QED BY <2>1, <2>2, <2>3, AfterThrowType, BoundAssumption DEF IInv
<1>6. ASSUME NEW j \in Jobs, ~held(j) PROVE job'[j] = job[j] /\ made'[j] = made[j]
  BY <1>3, <1>6
<1>7. job' \in [Jobs -> {"waiting", "delayed", "active", "settled"}] /\ made' \in [Jobs -> 0..MaxAttempts]
  <2>1. \A j \in Jobs : job'[j] \in {"waiting", "delayed", "active", "settled"} /\ made'[j] \in 0..MaxAttempts
    BY <1>5, <1>6 DEF IInv, TypeOK
  <2>2. job' = [j \in Jobs |-> job'[j]] /\ made' = [j \in Jobs |-> made'[j]]
    BY <1>3
  <2> QED BY <2>1, <2>2
<1>8. JobsOK'
  <2>1. ASSUME NEW j \in Jobs, job'[j] # "settled" PROVE made'[j] < MaxAttempts /\ acks'[j] <= made'[j]
    <3>1. CASE held(j)
      BY <1>5, <2>1, <3>1
    <3>2. CASE ~held(j)
      BY <1>6, <2>1, <3>2 DEF IInv, JobsOK
    <3> QED BY <3>1, <3>2
  <2> QED BY <2>1 DEF JobsOK
<1>9. SlotsOK'
  <2>1. ASSUME NEW s \in Slots, slot'[s].pc # "idle"
        PROVE  s \notin S /\ slot'[s] = slot[s] /\ JobOf(s) \in Jobs /\ job'[JobOf(s)] = "active"
    <3>1. s \notin S /\ slot'[s] = slot[s]
      BY <1>2, <2>1 DEF Idle
    <3>2. JobOf(s) \in Jobs /\ job[JobOf(s)] = "active" /\ \A t \in S : JobOf(t) # JobOf(s)
      BY <2>1, <3>1 DEF IInv, SlotsOK, Idle
    <3> QED BY <1>6, <3>1, <3>2
  <2>2. ASSUME NEW s \in Slots PROVE slot'[s] = Idle \/ slot'[s].pc # "idle"
    BY <1>2 DEF IInv, SlotsOK
  <2> HIDE DEF held
  <2>3. ASSUME NEW s \in Slots, NEW t \in Slots, slot'[s].pc # "idle", slot'[t].pc # "idle", slot'[s].job = slot'[t].job
        PROVE  s = t
    BY <2>1, <2>3 DEF IInv, SlotsOK, JobOf
  <2> QED BY <2>1, <2>2, <2>3 DEF SlotsOK, JobOf
<1> QED BY <1>4, <1>7, <1>8, <1>9

\* ... and with one: they send.
LEMMA AcceptedKeeps ==
  ASSUME IInv, NEW S \in SUBSET Slots, \A s \in S : slot[s].pc = "connect", Connected(S, TRUE), UNCHANGED acks
  PROVE  /\ UNCHANGED <<job, made>>
         /\ slot' \in [Slots -> [pc : PCs, job : Jobs \cup {NoJob}]]
         /\ SlotsOK' /\ JobsOK'
<1>1. slot' = [s \in Slots |-> IF s \notin S THEN slot[s] ELSE [slot[s] EXCEPT !.pc = "sent"]] /\ UNCHANGED <<job, made>>
  BY DEF Connected
<1>2. \A s \in Slots : slot[s] \in [pc : PCs, job : Jobs \cup {NoJob}]
  BY DEF IInv, TypeOK
<1>3. \A s \in Slots : slot'[s].job = slot[s].job /\ (s \notin S => slot'[s] = slot[s]) /\ (s \in S => slot'[s].pc = "sent")
  BY <1>1, <1>2
<1>4. slot' \in [Slots -> [pc : PCs, job : Jobs \cup {NoJob}]]
  BY <1>1, <1>2 DEF PCs
<1>5. \A s \in S : slot[s].pc # "idle" /\ slot[s] # Idle
  BY DEF Idle
<1>6. SlotsOK'
  BY <1>1, <1>3, <1>5 DEF IInv, SlotsOK, JobOf
<1> QED BY <1>1, <1>4, <1>6, JobsFrame DEF IInv

\* Nobody waits once it is settled, and no slot that is to arm the loop was waiting.
LEMMA OpenedKeeps ==
  ASSUME IInv, NEW ok \in BOOLEAN, Opened(ok),
         healthy' \in BOOLEAN, UNCHANGED <<sock, up, faults>>
  PROVE  IInv'
<1> DEFINE S == waiters \ {Reconnect}
<1>1. S \in SUBSET Slots /\ \A s \in S : slot[s].pc = "connect"
  BY DEF IInv, TypeOK, WaitersOK
<1>2. Connected(S, ok) /\ UNCHANGED acks /\ waiters' = {} /\ opening' = "no"
  BY DEF Opened, AfterOpening
<1>3. \A s \in Slots \ S : slot'[s] = slot[s]
  BY <1>2 DEF Connected
<1> HIDE DEF S
<1>4. /\ job' \in [Jobs -> {"waiting", "delayed", "active", "settled"}]
      /\ made' \in [Jobs -> 0..MaxAttempts]
      /\ slot' \in [Slots -> [pc : PCs, job : Jobs \cup {NoJob}]]
      /\ SlotsOK' /\ JobsOK'
  <2>1. CASE ok
    <3>1. Connected(S, TRUE)
      BY <1>2, <2>1 DEF Connected
    <3> QED BY <1>1, <1>2, <3>1, AcceptedKeeps DEF IInv, TypeOK
  <2>2. CASE ~ok
    <3>1. Connected(S, FALSE)
      BY <1>2, <2>2 DEF Connected
    <3> QED BY <1>1, <1>2, <3>1, RefusedKeeps
  <2> QED BY <2>1, <2>2
<1>5. timer' \in BOOLEAN
  BY DEF Opened
<1>6. TypeOK'
  BY <1>2, <1>4, <1>5 DEF Opened, resumption, IInv, TypeOK
<1>7. WaitersOK'
  BY <1>2 DEF WaitersOK
<1>8. PauseIsWatched'
  BY <1>1, <1>3 DEF Opened, resumption, IInv, PauseIsWatched
<1> QED BY <1>4, <1>6, <1>7, <1>8 DEF IInv

\* A change of the connection only, or of who waits for it in the writer.
LEMMA WriterKeeps ==
  ASSUME IInv, UNCHANGED <<queue, slot, resumption, acks>>, waiters' \ {Reconnect} \subseteq waiters,
         healthy' \in BOOLEAN, timer' \in BOOLEAN, up' \in BOOLEAN, faults' \in 0..MaxFaults,
         sock' \in {"none", "open", "closed"}, opening' \in {"no", "connect", "auth"}
  PROVE  IInv'
<1>1. TypeOK'
  BY DEF queue, resumption, IInv, TypeOK
<1>2. SlotsOK' /\ JobsOK' /\ PauseIsWatched'
  BY SlotsFrame, JobsFrame, WatchFrame DEF queue, resumption, IInv
<1>3. WaitersOK'
  BY NameAssumption DEF IInv, WaitersOK
<1> QED BY <1>1, <1>2, <1>3 DEF IInv

LEMMA OpenKeeps ==
  ASSUME IInv, Open
  PROVE  IInv'
<1>1. CASE ConnectFails
  BY <1>1, OpenedKeeps DEF ConnectFails, IInv, TypeOK
<1>2. CASE Connect
  BY <1>2, WriterKeeps DEF Connect, IInv, TypeOK
<1>3. CASE Authenticate
  <2>1. (sock # "none") \in BOOLEAN
    OBVIOUS
  <2> QED BY <1>3, <2>1, OpenedKeeps DEF Authenticate
<1> QED BY <1>1, <1>2, <1>3 DEF Open

LEMMA ReopenKeeps ==
  ASSUME IInv, ReconnectTimer \/ Drop
  PROVE  IInv'
<1>1. CASE ReconnectTimer
  <2>1. faults' \in 0..MaxFaults
    BY <1>1, FaultType DEF ReconnectTimer, IInv, TypeOK
  <2>2. healthy' \in BOOLEAN /\ timer' \in BOOLEAN
    BY <1>1 DEF ReconnectTimer, IInv, TypeOK
  <2>3. opening' \in {"no", "connect", "auth"} /\ waiters' \ {Reconnect} \subseteq waiters
    BY <1>1 DEF ReconnectTimer, IInv, TypeOK
  <2> QED BY <1>1, <2>1, <2>2, <2>3, WriterKeeps DEF ReconnectTimer, IInv, TypeOK
<1>2. CASE Drop
  <2>1. faults' \in 0..MaxFaults
    BY <1>2, FaultType DEF Drop, IInv, TypeOK
  <2> QED BY <1>2, <2>1, WriterKeeps DEF Drop, IInv, TypeOK
<1> QED BY <1>1, <1>2

-----------------------------------------------------------------------------
(* The world *)

LEMMA DelayedKeeps ==
  ASSUME IInv, NEW j \in Jobs, Delayed(j)
  PROVE  IInv'
<1>1. job' \in [Jobs -> {"waiting", "delayed", "active", "settled"}] /\ job[j] = "delayed" /\ job'[j] = "waiting"
      /\ \A i \in Jobs \ {j} : job'[i] = job[i]
  BY DEF Delayed, IInv, TypeOK
<1>2. TypeOK'
  BY <1>1 DEF Delayed, resumption, writer, IInv, TypeOK
<1>3. JobsOK'
  BY <1>1 DEF Delayed, IInv, JobsOK
<1>4. SlotsOK'
  <2>1. \A s \in Slots : slot[s].pc # "idle" => JobOf(s) # j
    BY <1>1 DEF IInv, SlotsOK, Idle
  <2>2. \A s \in Slots : slot[s] = Idle \/ (slot[s].pc # "idle" /\ JobOf(s) \in Jobs /\ job'[JobOf(s)] = "active")
    BY <1>1, <2>1 DEF IInv, SlotsOK
  <2> QED BY <2>2 DEF Delayed, IInv, SlotsOK, JobOf
<1>5. WaitersOK' /\ PauseIsWatched'
  BY WaitersFrame, WatchFrame DEF Delayed, resumption, writer, IInv
<1> QED BY <1>2, <1>3, <1>4, <1>5 DEF IInv

LEMMA RelayKeeps ==
  ASSUME IInv, GoesDown \/ ComesUp
  PROVE  IInv'
<1>1. faults' \in 0..MaxFaults
  BY FaultType DEF GoesDown, ComesUp, IInv, TypeOK
<1> QED BY <1>1, WriterKeeps DEF GoesDown, ComesUp, writer, IInv, TypeOK

\* The next process starts with its boot to come; its slots are empty.
LEMMA CrashKeeps ==
  ASSUME IInv, Crash
  PROVE  IInv'
<1>1. \A j \in Jobs : /\ job'[j] \in {"waiting", "delayed", "active", "settled"}
                      /\ job'[j] # "settled" => job[j] # "settled"
  BY DEF Crash, IInv, TypeOK
<1>2. job' \in [Jobs -> {"waiting", "delayed", "active", "settled"}]
  BY <1>1 DEF Crash
<1>3. slot' = [s \in Slots |-> Idle] /\ waiters' = {Reconnect} /\ boot'
  BY DEF Crash, Start
<1>4. slot' \in [Slots -> [pc : PCs, job : Jobs \cup {NoJob}]]
  BY <1>3 DEF Idle, PCs
<1>5. faults' \in 0..MaxFaults
  BY FaultType DEF Crash, IInv
<1>6. TypeOK'
  BY <1>2, <1>4, <1>5 DEF Crash, Start, IInv, TypeOK
<1>7. SlotsOK'
  BY <1>3 DEF SlotsOK, Idle
<1>8. JobsOK'
  BY <1>1 DEF Crash, IInv, JobsOK
<1>9. WaitersOK'
  BY <1>3, NameAssumption DEF WaitersOK
<1>10. PauseIsWatched'
  BY <1>3 DEF PauseIsWatched
<1> QED BY <1>6, <1>7, <1>8, <1>9, <1>10 DEF IInv

-----------------------------------------------------------------------------
LEMMA Stutter == IInv /\ UNCHANGED vars => IInv'
<1> SUFFICES ASSUME IInv, UNCHANGED vars PROVE IInv'
  OBVIOUS
<1>1. faults' \in 0..MaxFaults
  BY DEF vars, IInv, TypeOK
<1> QED BY <1>1, WriterKeeps DEF vars, writer, IInv, TypeOK

\* Every step keeps the invariant.
THEOREM StepInvariant == IInv /\ [Next]_vars => IInv'
<1> SUFFICES ASSUME IInv, [Next]_vars PROVE IInv'
  OBVIOUS
<1>1. ASSUME NEW s \in Slots, Process(s) PROVE IInv'
  BY <1>1, SendKeeps, AnswerKeeps, AnswerLateKeeps, ReadPausedKeeps, PauseQueueKeeps, OutageKeeps DEF Process
<1>2. ASSUME NEW s \in Slots, NEW j \in Jobs, Take(s, j) PROVE IInv'
  BY <1>2, TakeKeeps
<1>3. CASE Resumption
  BY <1>3, ProbeKeeps, ResumptionKeeps DEF Resumption
<1>4. CASE Open \/ ReconnectTimer \/ Drop
  BY <1>4, OpenKeeps, ReopenKeeps
<1>5. ASSUME NEW j \in Jobs, Delayed(j) PROVE IInv'
  BY <1>5, DelayedKeeps
<1>6. CASE GoesDown \/ ComesUp \/ Crash
  BY <1>6, RelayKeeps, CrashKeeps
<1>7. CASE UNCHANGED vars
  BY <1>7, Stutter
<1> QED BY <1>1, <1>2, <1>3, <1>4, <1>5, <1>6, <1>7 DEF Next

\* The state of the queue, the processor and the writer is always of its type: an
\* active job has an attempt left, and is acked at most once for each.
THEOREM TypeCorrect == Spec => []TypeOK
<1>1. IInv => TypeOK
  BY DEF IInv
<1> QED BY InitInvariant, StepInvariant, <1>1, PTL DEF Spec

\* The queue is never paused without something in the process that will resume it,
\* for any number of slots, through outages, failed Redis calls and restarts.
THEOREM PauseAlwaysWatched == Spec => []PauseIsWatched
<1>1. IInv => PauseIsWatched
  BY DEF IInv
<1> QED BY InitInvariant, StepInvariant, <1>1, PTL DEF Spec

-----------------------------------------------------------------------------
(* The connection of the writer. *)

\* Whatever takes the connection away leaves a timer, or a reconnect that waits for the
\* opening under way.
WriterOK ==
  /\ opening = "no" => IsHealthy \/ timer
  /\ opening # "no" => timer \/ Reconnect \in waiters
  /\ sock = "closed" => timer
  /\ opening = "auth" /\ sock = "none" => Reconnect \in waiters

LEMMA WriterFrame ==
  ASSUME WriterOK, UNCHANGED writer
  PROVE  WriterOK'
  BY DEF WriterOK, IsHealthy, writer

LEMMA SendWriter ==
  ASSUME WriterOK, NEW s \in Slots, Send(s)
  PROVE  WriterOK'
<1>1. CASE IsHealthy
  BY <1>1 DEF Send, WriterOK, IsHealthy
<1>2. CASE ~IsHealthy
  BY <1>2 DEF Send, WriterOK, IsHealthy
<1> QED BY <1>1, <1>2

LEMMA LateWriter ==
  ASSUME WriterOK, NEW s \in Slots, AnswerLate(s)
  PROVE  WriterOK'
  BY DEF AnswerLate, AfterTimeout, WriterOK, IsHealthy

\* The other steps of a slot leave the connection alone.
LEMMA ProcessWriter ==
  ASSUME WriterOK, NEW s \in Slots, Process(s)
  PROVE  WriterOK'
<1>1. CASE Send(s)
  BY <1>1, SendWriter
<1>2. CASE AnswerLate(s)
  BY <1>2, LateWriter
<1>3. CASE AnswerOk(s) \/ AnswerTerminal(s) \/ AnswerMissing(s) \/ AnswerReject(s) \/ AnswerLost(s)
  BY <1>3, WriterFrame DEF AnswerOk, AnswerTerminal, AnswerMissing, AnswerReject, AnswerLost
<1>4. CASE ReadPaused(s) \/ PauseQueue(s) \/ ArmResume(s) \/ FindPaused(s) \/ PauseFails(s)
  BY <1>4, WriterFrame DEF ReadPaused, PauseQueue, ArmResume, FindPaused, PauseFails, EndAttempt
<1> QED BY <1>1, <1>2, <1>3, <1>4 DEF Process

\* An opening that leaves no socket was waited for by the reconnect, or the timer runs.
LEMMA OpenWriter ==
  ASSUME WriterOK, timer \in BOOLEAN, sock \in {"none", "open", "closed"}, Open
  PROVE  WriterOK'
<1>1. CASE ConnectFails
  <2>1. timer' /\ opening' = "no" /\ waiters' = {} /\ sock' = sock
    BY <1>1 DEF ConnectFails, Opened, AfterOpening, WriterOK
  <2> QED BY <2>1 DEF WriterOK
<1>2. CASE Connect
  BY <1>2 DEF Connect, WriterOK, IsHealthy
<1>3. CASE Authenticate
  <2>1. opening = "auth" /\ opening' = "no" /\ sock' = sock /\ healthy' /\ (timer => timer')
    BY <1>3 DEF Authenticate, Opened, AfterOpening
  <2>2. sock = "none" => timer'
    BY <1>3, <2>1 DEF Authenticate, Opened, WriterOK
  <2>3. sock = "closed" => timer'
    BY <2>1 DEF WriterOK
  <2>4. CASE sock = "open"
    BY <2>1, <2>4 DEF WriterOK, IsHealthy
  <2>5. CASE sock \in {"none", "closed"}
    BY <2>1, <2>2, <2>3, <2>5 DEF WriterOK
  <2> QED BY <2>4, <2>5
<1> QED BY <1>1, <1>2, <1>3 DEF Open

LEMMA TimerWriter ==
  ASSUME WriterOK, ReconnectTimer \/ Drop
  PROVE  WriterOK'
<1>1. CASE ReconnectTimer
  <2>1. Reconnect \in waiters' /\ opening' # "no" /\ sock' = "none"
    BY <1>1 DEF ReconnectTimer
  <2> QED BY <2>1 DEF WriterOK
<1>2. CASE Drop
  <2>1. timer' /\ UNCHANGED <<opening, waiters>> /\ sock' = "closed"
    BY <1>2 DEF Drop
  <2> QED BY <2>1 DEF WriterOK
<1> QED BY <1>1, <1>2

LEMMA WorldWriter ==
  ASSUME WriterOK, Resumption \/ GoesDown \/ ComesUp \/ Crash
  PROVE  WriterOK'
<1>1. CASE Crash
  BY <1>1 DEF Crash, Start, WriterOK
<1>2. CASE Resumption
  BY <1>2, WriterFrame DEF Resumption, Probe, Resume, ResumeFails, BootResume
<1>3. CASE GoesDown \/ ComesUp
  BY <1>3, WriterFrame DEF GoesDown, ComesUp
<1> QED BY <1>1, <1>2, <1>3

LEMMA WriterStep == IInv /\ WriterOK /\ [Next]_vars => WriterOK'
<1> SUFFICES ASSUME IInv, WriterOK, [Next]_vars PROVE WriterOK'
  OBVIOUS
<1>1. ASSUME NEW s \in Slots, Process(s) PROVE WriterOK'
  BY <1>1, ProcessWriter
<1>2. ASSUME NEW s \in Slots, NEW j \in Jobs, Take(s, j) PROVE WriterOK'
  BY <1>2, WriterFrame DEF Take
<1>3. ASSUME NEW j \in Jobs, Delayed(j) PROVE WriterOK'
  BY <1>3, WriterFrame DEF Delayed
<1>4. CASE Open
  BY <1>4, OpenWriter DEF IInv, TypeOK
<1>5. CASE ReconnectTimer \/ Drop
  BY <1>5, TimerWriter
<1>6. CASE Resumption \/ GoesDown \/ ComesUp \/ Crash
  BY <1>6, WorldWriter
<1>7. CASE UNCHANGED vars
  BY <1>7, WriterFrame DEF vars
<1> QED BY <1>1, <1>2, <1>3, <1>4, <1>5, <1>6, <1>7 DEF Next

\* A writer that is not healthy always has a connection on its way or a timer that will
\* open one, for any number of slots and faults: the state that startHealthWatchdog is
\* there to end is never reached.
THEOREM ReconnectAlwaysUnderWay == Spec => []ReconnectUnderWay
<1>1. Init => WriterOK
  BY DEF Init, WriterOK
<1>2. WriterOK => ReconnectUnderWay
  BY DEF WriterOK, ReconnectUnderWay
<1> QED BY InitInvariant, StepInvariant, WriterStep, <1>1, <1>2, PTL DEF Spec

-----------------------------------------------------------------------------
(* RoomCreation                                                             *)

\* What a row says of a room that is created or confirmed.
RowOK(r) == (r.state = "created" => r.room_id) /\ (r.room_id => relay # "absent")

\* Whoever is about to confirm the room has seen its group, and a row to be written back
\* was the token's.
Evidence ==
  /\ \A q \in Requests : request[q] = "heal" => relay # "absent"
  /\ \A h \in Handlers : handler[h].kind = "create" /\ handler[h].ok => relay # "absent"
  /\ \A h \in Handlers : handler[h].seen # "created"
  /\ \A r \in copies : RowOK(r)

CreationIInv == CreationTypeOK /\ ConfirmedExisted /\ Evidence

-----------------------------------------------------------------------------
\* The initial states satisfy the invariant.
THEOREM CreationInitInvariant == CreationInit => CreationIInv
<1> SUFFICES ASSUME CreationInit PROVE CreationIInv
  OBVIOUS
<1>1. CreationTypeOK
  <2>1. worth \in BOOLEAN /\ deleted \in BOOLEAN /\ room_id \in BOOLEAN
        /\ missing \in BOOLEAN /\ recreate \in BOOLEAN /\ notice \in BOOLEAN
    BY Zenon DEF CreationInit
  <2>2. state \in States /\ relay \in {"absent", "present", "deleted", "lost"}
    BY Zenon DEF CreationInit, States
  <2>3. jobs \in [Kinds -> 0..MaxJobs] /\ copies \subseteq Rows /\ budget \in Budget
    BY CreationBounds DEF CreationInit
  <2>4. request \in [Requests -> {"idle", "called", "none", "pending", "failed", "enqueue", "heal"}]
    BY Zenon DEF CreationInit
  <2>5. handler \in [Handlers -> [pc : {"idle", "read", "write"}, kind : {"create", "edit"},
                                 ok : BOOLEAN, seen : States]]
    BY DEF CreationInit, IdleHandler, States
  <2> QED BY <2>1, <2>2, <2>3, <2>4, <2>5, Zenon DEF CreationTypeOK
<1>2. ConfirmedExisted
  BY DEF CreationInit, ConfirmedExisted
<1>3. Evidence
  BY DEF CreationInit, Evidence, IdleHandler
<1> QED BY <1>1, <1>2, <1>3 DEF CreationIInv

-----------------------------------------------------------------------------
(* What steps do to one part of the state. *)

Pcs == {"idle", "called", "none", "pending", "failed", "enqueue", "heal"}
Calls == [pc : {"idle", "read", "write"}, kind : {"create", "edit"}, ok : BOOLEAN, seen : States \ {"created"}]

LEMMA CallsType == CreationIInv => handler \in [Handlers -> Calls]
  BY DEF CreationIInv, CreationTypeOK, Evidence, Calls

LEMMA AddType ==
  ASSUME jobs \in [Kinds -> 0..MaxJobs], NEW K \in SUBSET Kinds, Add(K)
  PROVE  jobs' \in [Kinds -> 0..MaxJobs]
<1>1. \A k \in Kinds : k \in K => jobs[k] + 1 \in 0..MaxJobs
  BY CreationBounds DEF Add, Fit
<1> QED BY <1>1 DEF Add

LEMMA TakeType ==
  ASSUME jobs \in [Kinds -> 0..MaxJobs], NEW k \in Kinds, TakeJob(k)
  PROVE  jobs' \in [Kinds -> 0..MaxJobs]
<1>1. jobs[k] - 1 \in 0..MaxJobs
  BY CreationBounds DEF TakeJob
<1> QED BY <1>1 DEF TakeJob

LEMMA SpendType ==
  ASSUME budget \in Budget, NEW c \in Costs, Spend(c)
  PROVE  budget' \in Budget
<1>1. budget.cost \in [Costs -> Nat] /\ budget.cost[c] - 1 \in Nat
  BY DEF Budget, Spend
<1>2. [budget.cost EXCEPT ![c] = budget.cost[c] - 1] \in [Costs -> Nat]
  BY <1>1
<1> QED BY <1>2 DEF Budget, Spend

LEMMA FailureType ==
  ASSUME budget \in Budget, Failure
  PROVE  budget' \in Budget
  BY SpendType DEF Failure, Costs

\* A transition writes created only from pending, and never from created.
LEMMA TransitionKeeps ==
  ASSUME CreationTypeOK, ConfirmedExisted, NEW from \in States, NEW to \in States, Transition(from, to),
         from = "created" => to = "created", to = "created" => relay # "absent", UNCHANGED relay
  PROVE  /\ state' \in States /\ room_id' \in BOOLEAN /\ ConfirmedExisted'
         /\ state = "created" => state' = "created" /\ room_id'
<1>1. room_id \in BOOLEAN /\ state \in States /\ (state = "created" => room_id) /\ (room_id => relay # "absent")
  BY DEF CreationTypeOK, ConfirmedExisted
<1>2. CASE state = from
  <2>1. state' = to /\ room_id' = (room_id \/ to = "created")
    BY <1>2 DEF Transition
  <2>2. room_id' \in BOOLEAN /\ (room_id' => relay # "absent") /\ (state' = "created" => room_id')
    BY <1>1, <2>1
  <2>3. state = "created" => state' = "created" /\ room_id'
    BY <1>2, <2>1, <2>2
  <2> QED BY <2>1, <2>2, <2>3 DEF ConfirmedExisted
<1>3. CASE state # from
  <2>1. UNCHANGED <<state, room_id>>
    BY <1>3 DEF Transition, token
  <2> QED BY <1>1, <2>1 DEF ConfirmedExisted
<1> QED BY <1>2, <1>3

\* The token and the relay stay, and one call at most changes.
LEMMA CallKeeps ==
  ASSUME CreationIInv, UNCHANGED <<token, relay, handler>>,
         request' \in [Requests -> Pcs], \A q \in Requests : request'[q] = "heal" => relay # "absent",
         worth' \in BOOLEAN, deleted' \in BOOLEAN, budget' \in Budget, UNCHANGED copies,
         jobs' \in [Kinds -> 0..MaxJobs], missing' \in BOOLEAN, recreate' \in BOOLEAN, notice' \in BOOLEAN
  PROVE  CreationIInv'
<1>1. CreationTypeOK'
  BY DEF CreationIInv, CreationTypeOK, token, Pcs
<1>2. ConfirmedExisted'
  BY DEF CreationIInv, ConfirmedExisted, token
<1>3. Evidence'
  BY DEF CreationIInv, Evidence, RowOK
<1> QED BY <1>1, <1>2, <1>3 DEF CreationIInv

LEMMA GoesType ==
  ASSUME request \in [Requests -> Pcs], NEW q \in Requests, NEW p \in Pcs, Goes(q, p)
  PROVE  request' \in [Requests -> Pcs] /\ \A r \in Requests : request'[r] = "heal" => request[r] = "heal" \/ p = "heal"
  BY DEF Goes

-----------------------------------------------------------------------------
(* The events and the requests. *)

LEMMA UpsertedKeeps ==
  ASSUME CreationIInv, NEW q \in Requests, Provision(q) \/ Buy(q) \/ UpsertRow(q)
  PROVE  CreationIInv'
<1>1. request' \in [Requests -> Pcs] /\ notice' = TRUE
  BY DEF Provision, Buy, UpsertRow, Provisioned, Upserted, CreationIInv, CreationTypeOK, Pcs
<1>2. \A r \in Requests : request'[r] = "heal" => relay # "absent"
  BY DEF Provision, Buy, UpsertRow, Provisioned, Upserted, CreationIInv, CreationTypeOK, Evidence
<1>3. deleted' \in BOOLEAN /\ budget' \in Budget
  BY SpendType DEF Provision, Buy, UpsertRow, facts, Costs, CreationIInv, CreationTypeOK
<1>4. UNCHANGED <<worth, token, relay, handler, jobs, tracker, copies>>
  BY DEF Provision, Buy, UpsertRow, facts
<1> QED BY <1>1, <1>2, <1>3, <1>4, CallKeeps DEF tracker, CreationIInv, CreationTypeOK

LEMMA NoticeKeeps ==
  ASSUME CreationIInv, Notice
  PROVE  CreationIInv'
<1>1. {"delete"} \in SUBSET Kinds
  BY DEF Kinds
<1>2. jobs' \in [Kinds -> 0..MaxJobs]
  BY <1>1, AddType DEF Notice, CreationIInv, CreationTypeOK
<1>3. notice' = FALSE /\ UNCHANGED <<facts, token, relay, request, handler, tracker, copies, budget>>
  BY DEF Notice
<1>4. \A q \in Requests : request'[q] = "heal" => relay # "absent"
  BY <1>3 DEF CreationIInv, Evidence
<1> QED BY <1>2, <1>3, <1>4, CallKeeps DEF facts, tracker, CreationIInv, CreationTypeOK, Pcs

LEMMA ReadTokenKeeps ==
  ASSUME CreationIInv, NEW q \in Requests, ReadToken(q)
  PROVE  CreationIInv'
<1> DEFINE p == IF Due(state) THEN state ELSE "idle"
<1>1. p \in Pcs \ {"heal"}
  BY DEF Due, CreationIInv, CreationTypeOK, States, Pcs
<1>2. Goes(q, p)
  BY DEF ReadToken
<1> HIDE DEF p
<1>3. request' \in [Requests -> Pcs] /\ \A r \in Requests : request'[r] = "heal" => request[r] = "heal"
  BY <1>1, <1>2, GoesType DEF CreationIInv, CreationTypeOK, Pcs
<1>4. \A r \in Requests : request'[r] = "heal" => relay # "absent"
  BY <1>3 DEF CreationIInv, Evidence
<1> QED BY <1>3, <1>4, CallKeeps DEF ReadToken, facts, tracker, CreationIInv, CreationTypeOK

LEMMA EnqueueKeeps ==
  ASSUME CreationIInv, NEW q \in Requests, EnqueueRoom(q) \/ \E K \in {{}, {"create"}} : EnqueueFails(q, K)
  PROVE  CreationIInv'
<1>1. PICK K \in SUBSET Kinds : Add(K)
  BY DEF EnqueueRoom, EnqueueFails, Kinds
<1>2. jobs' \in [Kinds -> 0..MaxJobs]
  BY <1>1, AddType DEF CreationIInv, CreationTypeOK
<1>3. budget' \in Budget
  BY FailureType DEF EnqueueRoom, EnqueueFails, CreationIInv, CreationTypeOK
<1>4. Goes(q, "idle") /\ UNCHANGED <<facts, token, relay, handler, tracker, notice, copies>>
  BY DEF EnqueueRoom, EnqueueFails
<1>5. request' \in [Requests -> Pcs] /\ \A r \in Requests : request'[r] = "heal" => request[r] = "heal"
  BY <1>4, GoesType DEF CreationIInv, CreationTypeOK, Pcs
<1>6. \A r \in Requests : request'[r] = "heal" => relay # "absent"
  BY <1>5 DEF CreationIInv, Evidence
<1> QED BY <1>2, <1>3, <1>4, <1>5, <1>6, CallKeeps DEF facts, tracker, CreationIInv, CreationTypeOK

\* Only a recheck that has seen the group heals.
LEMMA RecheckSeesKeeps ==
  ASSUME CreationIInv, NEW q \in Requests, RecheckSees(q)
  PROVE  CreationIInv'
<1>1. request' \in [Requests -> Pcs]
  BY GoesType DEF RecheckSees, CreationIInv, CreationTypeOK, Pcs
<1>2. \A r \in Requests : request'[r] = "heal" => relay # "absent"
  BY DEF RecheckSees
<1> QED BY <1>1, <1>2, CallKeeps DEF RecheckSees, facts, tracker, CreationIInv, CreationTypeOK

\* A write of the token by a request.
LEMMA TokenKeeps ==
  ASSUME CreationIInv, NEW q \in Requests, NEW p \in Pcs \ {"heal"}, Goes(q, p),
         UNCHANGED <<facts, jobs, relay, handler, tracker, notice, copies, budget>>,
         state' \in States, room_id' \in BOOLEAN, ConfirmedExisted'
  PROVE  CreationIInv'
<1>1. request' \in [Requests -> Pcs] /\ \A r \in Requests : request'[r] = "heal" => request[r] = "heal"
  BY GoesType DEF CreationIInv, CreationTypeOK, Pcs
<1>2. CreationTypeOK'
  BY <1>1 DEF facts, tracker, CreationIInv, CreationTypeOK, Pcs
<1>3. Evidence'
  BY <1>1 DEF CreationIInv, Evidence, RowOK
<1> QED BY <1>2, <1>3 DEF CreationIInv

LEMMA RequestRoomKeeps ==
  ASSUME CreationIInv, NEW q \in Requests, RequestRoom(q)
  PROVE  CreationIInv' /\ (state = "created" => state' = "created" /\ room_id')
<1>1. state' \in States /\ room_id' \in BOOLEAN /\ ConfirmedExisted'
      /\ (state = "created" => state' = "created" /\ room_id')
  <2>1. CASE request[q] = "pending"
    BY <2>1 DEF RequestRoom, token, CreationIInv, CreationTypeOK, ConfirmedExisted
  <2>2. CASE request[q] # "pending"
    <3>1. request[q] \in States /\ request[q] # "created" /\ Transition(request[q], "pending")
      BY <2>2 DEF RequestRoom, States
    <3>2. UNCHANGED relay /\ "pending" \in States
      BY DEF RequestRoom, States
    <3> QED BY <3>1, <3>2, TransitionKeeps DEF CreationIInv
  <2> QED BY <2>1, <2>2
<1>2. "enqueue" \in Pcs \ {"heal"} /\ Goes(q, "enqueue")
  BY DEF RequestRoom, Pcs
<1>3. UNCHANGED <<facts, jobs, relay, handler, tracker, notice, copies, budget>>
  BY DEF RequestRoom
<1> QED BY <1>1, <1>2, <1>3, TokenKeeps

LEMMA RecheckHealsKeeps ==
  ASSUME CreationIInv, NEW q \in Requests, RecheckHeals(q)
  PROVE  CreationIInv'
<1>1. relay # "absent" /\ state' = "created" /\ room_id' = TRUE /\ UNCHANGED relay
  BY DEF RecheckHeals, CreationIInv, Evidence
<1>2. ConfirmedExisted'
  BY <1>1 DEF ConfirmedExisted
<1>3. "idle" \in Pcs \ {"heal"} /\ Goes(q, "idle")
  BY DEF RecheckHeals, Pcs
<1>4. UNCHANGED <<facts, jobs, relay, handler, tracker, notice, copies, budget>> /\ state' \in States /\ room_id' \in BOOLEAN
  BY <1>1 DEF RecheckHeals, States
<1> QED BY <1>2, <1>3, <1>4, TokenKeeps

-----------------------------------------------------------------------------
(* The jobs and the recovery. *)

\* The group is there or not; once it was, the relay never says that it never was.
LEMMA GroupKeeps ==
  ASSUME CreationIInv, UNCHANGED <<facts, token, request, copies>>, relay # "absent" => relay' # "absent",
         relay' \in {"absent", "present", "deleted", "lost"},
         handler' \in [Handlers -> Calls],
         \A h \in Handlers : handler'[h].kind = "create" /\ handler'[h].ok => relay' # "absent",
         jobs' \in [Kinds -> 0..MaxJobs], missing' \in BOOLEAN, recreate' \in BOOLEAN, notice' \in BOOLEAN,
         budget' \in Budget
  PROVE  CreationIInv'
<1>1. CreationTypeOK'
  BY DEF CreationIInv, CreationTypeOK, facts, token, Calls
<1>2. ConfirmedExisted'
  BY DEF CreationIInv, ConfirmedExisted, token
<1>3. Evidence'
  BY DEF CreationIInv, Evidence, Calls, RowOK
<1> QED BY <1>1, <1>2, <1>3 DEF CreationIInv

\* A new handler, and the evidence of its ack.
LEMMA AckedType ==
  ASSUME CreationIInv, NEW h \in Handlers, NEW k \in {"create", "edit"}, NEW ok \in BOOLEAN, Acked(h, k, ok),
         relay # "absent" => relay' # "absent", k = "create" /\ ok => relay' # "absent"
  PROVE  /\ handler' \in [Handlers -> Calls]
         /\ \A i \in Handlers : handler'[i].kind = "create" /\ handler'[i].ok => relay' # "absent"
<1>1. [pc |-> "read", kind |-> k, ok |-> ok, seen |-> "none"] \in Calls
  BY DEF Calls, States
<1>2. handler \in [Handlers -> Calls]
  BY CallsType
<1>3. handler' \in [Handlers -> Calls]
  BY <1>1, <1>2 DEF Acked
<1>4. \A i \in Handlers \ {h} : handler'[i] = handler[i]
  BY <1>2 DEF Acked
<1>5. handler'[h].kind = k /\ handler'[h].ok = ok
  BY <1>2 DEF Acked
<1> QED BY <1>3, <1>4, <1>5 DEF CreationIInv, Evidence

LEMMA HandlersFrame ==
  ASSUME CreationIInv, UNCHANGED handler, relay # "absent" => relay' # "absent"
  PROVE  /\ handler' \in [Handlers -> Calls]
         /\ \A i \in Handlers : handler'[i].kind = "create" /\ handler'[i].ok => relay' # "absent"
<1>1. handler \in [Handlers -> Calls]
  BY CallsType
<1> QED BY <1>1 DEF CreationIInv, Evidence

LEMMA GroupMissingType ==
  ASSUME CreationIInv, GroupMissing \/ UNCHANGED tracker
  PROVE  missing' \in BOOLEAN /\ recreate' \in BOOLEAN
<1>1. missing \in BOOLEAN /\ recreate \in BOOLEAN
  BY DEF CreationIInv, CreationTypeOK
<1> QED BY <1>1 DEF GroupMissing, tracker

LEMMA PublishCreateKeeps ==
  ASSUME CreationIInv, NEW h \in Handlers, PublishCreate(h)
  PROVE  CreationIInv'
<1>1. relay' \in {"absent", "present", "deleted", "lost"} \ {"absent"}
  BY DEF PublishCreate
<1>2. Acked(h, "create", relay # "deleted") /\ (relay # "deleted") \in BOOLEAN
  BY DEF PublishCreate
<1>3. PICK ok \in BOOLEAN : Acked(h, "create", ok)
  BY <1>2
<1>4. "create" \in {"create", "edit"} /\ "create" \in Kinds /\ TakeJob("create")
  BY DEF PublishCreate, Kinds
<1>5. jobs' \in [Kinds -> 0..MaxJobs]
  BY <1>4, TakeType DEF CreationIInv, CreationTypeOK
<1>6. handler' \in [Handlers -> Calls]
      /\ \A i \in Handlers : handler'[i].kind = "create" /\ handler'[i].ok => relay' # "absent"
  BY <1>1, <1>3, <1>4, AckedType
<1> QED BY <1>1, <1>5, <1>6, GroupKeeps DEF PublishCreate, tracker, CreationIInv, CreationTypeOK

LEMMA PublishEditKeeps ==
  ASSUME CreationIInv, NEW h \in Handlers, PublishEdit(h)
  PROVE  CreationIInv'
<1>1. UNCHANGED relay /\ TakeJob("edit") /\ "edit" \in Kinds /\ "edit" \in {"create", "edit"}
  BY DEF PublishEdit, Kinds
<1>2. jobs' \in [Kinds -> 0..MaxJobs]
  BY <1>1, TakeType DEF CreationIInv, CreationTypeOK
<1>3. missing' \in BOOLEAN /\ recreate' \in BOOLEAN
  BY GroupMissingType DEF PublishEdit
<1>4. UNCHANGED handler \/ Acked(h, "edit", FALSE)
  BY DEF PublishEdit
<1>5. handler' \in [Handlers -> Calls]
      /\ \A i \in Handlers : handler'[i].kind = "create" /\ handler'[i].ok => relay' # "absent"
  BY <1>1, <1>4, AckedType, HandlersFrame
<1> QED BY <1>1, <1>2, <1>3, <1>5, GroupKeeps DEF PublishEdit, CreationIInv, CreationTypeOK

LEMMA GiveUpKeeps ==
  ASSUME CreationIInv, NEW h \in Handlers, NEW k \in Kinds, NEW reached \in BOOLEAN, NEW acked \in BOOLEAN,
         GiveUp(h, k, reached, acked)
  PROVE  CreationIInv'
<1>1. jobs' \in [Kinds -> 0..MaxJobs] /\ budget' \in Budget
  BY TakeType, FailureType DEF GiveUp, CreationIInv, CreationTypeOK
<1>2. relay' \in {"absent", "present", "deleted", "lost"} /\ (relay # "absent" => relay' # "absent")
  BY DEF GiveUp, CreationIInv, CreationTypeOK
<1>3. UNCHANGED handler \/ (k \in {"create", "edit"} /\ Acked(h, k, FALSE))
  BY DEF GiveUp, Kinds
<1>4. handler' \in [Handlers -> Calls]
      /\ \A i \in Handlers : handler'[i].kind = "create" /\ handler'[i].ok => relay' # "absent"
  BY <1>2, <1>3, AckedType, HandlersFrame
<1> QED BY <1>1, <1>2, <1>4, GroupKeeps DEF GiveUp, tracker, CreationIInv, CreationTypeOK

LEMMA PublishDeleteKeeps ==
  ASSUME CreationIInv, PublishDelete
  PROVE  CreationIInv'
<1>1. "delete" \in Kinds
  BY DEF Kinds
<1>2. jobs' \in [Kinds -> 0..MaxJobs]
  BY <1>1, TakeType DEF PublishDelete, CreationIInv, CreationTypeOK
<1>3. relay' \in {"absent", "present", "deleted", "lost"} /\ (relay # "absent" => relay' # "absent")
  BY DEF PublishDelete, CreationIInv, CreationTypeOK
<1> QED BY <1>2, <1>3, HandlersFrame, GroupKeeps DEF PublishDelete, tracker, CreationIInv, CreationTypeOK

LEMMA RecoverKeeps ==
  ASSUME CreationIInv, Recover
  PROVE  CreationIInv'
<1>1. UNCHANGED <<facts, token, relay, request, handler, notice, copies>>
  BY DEF Recover, RecreateRoomGroup, RecreateFails, PublishMember, Expire
<1>2. missing' \in BOOLEAN /\ recreate' \in BOOLEAN
  BY GroupMissingType DEF Recover, RecreateRoomGroup, RecreateFails, PublishMember, Expire, CreationIInv, CreationTypeOK
<1>3. budget' \in Budget
  BY FailureType DEF Recover, RecreateRoomGroup, RecreateFails, PublishMember, Expire, CreationIInv, CreationTypeOK
<1>4. UNCHANGED jobs \/ \E K \in SUBSET Kinds : Add(K)
  BY DEF Recover, RecreateRoomGroup, RecreateFails, PublishMember, Expire, Kinds
<1>5. jobs' \in [Kinds -> 0..MaxJobs]
  BY <1>4, AddType DEF CreationIInv, CreationTypeOK
<1> QED BY <1>1, <1>2, <1>3, <1>5, HandlersFrame, GroupKeeps DEF CreationIInv, CreationTypeOK

-----------------------------------------------------------------------------
(* The acks and the world. *)

LEMMA AckReadsKeeps ==
  ASSUME CreationIInv, NEW h \in Handlers, AckReads(h)
  PROVE  CreationIInv'
<1>1. missing' \in BOOLEAN
  BY DEF AckReads
<1>2. handler \in [Handlers -> Calls]
  BY CallsType
<1>3. PICK v \in Calls : handler' = [handler EXCEPT ![h] = v]
                         /\ (v.kind = "create" /\ v.ok => handler[h].kind = "create" /\ handler[h].ok)
  <2>1. CASE NextStateForAck(state, handler[h].kind, handler[h].ok) = state
    <3>1. IdleHandler \in Calls /\ ~IdleHandler.ok
      BY DEF IdleHandler, Calls, States
    <3>2. handler' = [handler EXCEPT ![h] = IdleHandler]
      BY <1>2, <2>1 DEF AckReads
    <3> QED BY <3>1, <3>2
  <2>2. CASE NextStateForAck(state, handler[h].kind, handler[h].ok) # state
    <3> DEFINE w == [pc |-> "write", kind |-> handler[h].kind, ok |-> handler[h].ok, seen |-> state]
    <3>1. state \in States /\ state # "created"
      BY <2>2 DEF NextStateForAck, CreationIInv, CreationTypeOK
    <3>2. handler[h] \in Calls
      BY <1>2
    <3>3. w \in Calls /\ w.kind = handler[h].kind /\ w.ok = handler[h].ok
      BY <3>1, <3>2 DEF Calls
    <3>4. handler' = [handler EXCEPT ![h] = w]
      BY <1>2, <2>2 DEF AckReads
    <3> QED BY <3>3, <3>4
  <2> QED BY <2>1, <2>2
<1>4. handler' \in [Handlers -> Calls]
  BY <1>2, <1>3
<1>5. \A i \in Handlers : handler'[i].kind = "create" /\ handler'[i].ok => relay # "absent"
  BY <1>2, <1>3 DEF CreationIInv, Evidence
<1> QED BY <1>1, <1>4, <1>5, GroupKeeps DEF AckReads, CreationIInv, CreationTypeOK

\* An ack moves the token to created by evidence only, and away from it never.
LEMMA AckWritesKeeps ==
  ASSUME CreationIInv, NEW h \in Handlers, AckWrites(h)
  PROVE  CreationIInv' /\ (state = "created" => state' = "created" /\ room_id')
<1>1. handler \in [Handlers -> Calls] /\ handler[h] \in Calls
  BY CallsType
<1>2. PICK from \in States : from = handler[h].seen /\ from # "created"
  BY <1>1 DEF Calls
<1>3. PICK to \in States : to = NextStateForAck(handler[h].seen, handler[h].kind, handler[h].ok)
  BY <1>2 DEF NextStateForAck, States
<1>4. Transition(from, to) /\ UNCHANGED relay
  BY <1>2, <1>3 DEF AckWrites
<1>5. to = "created" => relay # "absent"
  BY <1>2, <1>3 DEF NextStateForAck, CreationIInv, Evidence
<1>6. state' \in States /\ room_id' \in BOOLEAN /\ ConfirmedExisted'
      /\ (state = "created" => state' = "created" /\ room_id')
  BY <1>2, <1>4, <1>5, TransitionKeeps DEF CreationIInv
<1>7. IdleHandler \in Calls /\ ~IdleHandler.ok
  BY DEF IdleHandler, Calls, States
<1>8. handler' = [handler EXCEPT ![h] = IdleHandler]
  BY DEF AckWrites
<1>9. handler' \in [Handlers -> Calls]
      /\ \A i \in Handlers : handler'[i].kind = "create" /\ handler'[i].ok => relay # "absent"
  BY <1>1, <1>7, <1>8 DEF CreationIInv, Evidence
<1>10. CreationTypeOK'
  BY <1>6, <1>9 DEF AckWrites, facts, tracker, CreationIInv, CreationTypeOK, Calls
<1>11. Evidence'
  BY <1>9 DEF AckWrites, CreationIInv, Evidence, Calls, RowOK
<1> QED BY <1>6, <1>10, <1>11 DEF CreationIInv

LEMMA WorldKeeps ==
  ASSUME CreationIInv, World
  PROVE  CreationIInv'
<1>1. CASE Trade
  <2>1. worth' \in BOOLEAN /\ budget' \in Budget
    BY <1>1, SpendType DEF Costs, Trade, CreationIInv, CreationTypeOK
  <2>2. \A q \in Requests : request'[q] = "heal" => relay # "absent"
    BY <1>1 DEF Trade, CreationIInv, Evidence
  <2> QED BY <1>1, <2>1, <2>2, CallKeeps DEF Trade, tracker, CreationIInv, CreationTypeOK, Pcs
<1>2. CASE RelayLoses
  <2>1. relay' = "lost" /\ budget' \in Budget
    BY <1>2, SpendType DEF Costs, RelayLoses, CreationIInv, CreationTypeOK
  <2> QED BY <1>2, <2>1, HandlersFrame, GroupKeeps DEF RelayLoses, tracker, CreationIInv, CreationTypeOK
<1>3. CASE CreationCrash
  <2>1. budget' \in Budget
    BY <1>3, FailureType DEF CreationCrash, CreationIInv, CreationTypeOK
  <2>2. CreationTypeOK'
    BY <1>3, <2>1 DEF CreationCrash, FreshProcess, facts, token, IdleHandler, States, CreationIInv, CreationTypeOK
  <2>3. ConfirmedExisted' /\ Evidence'
    BY <1>3 DEF CreationCrash, FreshProcess, token, IdleHandler, CreationIInv, ConfirmedExisted, Evidence
  <2> QED BY <2>2, <2>3 DEF CreationIInv
<1> QED BY <1>1, <1>2, <1>3 DEF World

\* A reset leaves room_id; a row that is written back was the token's once, and the
\* relay has not forgotten since that it had the group.
LEMMA RewriteKeeps ==
  ASSUME CreationIInv, Rewrite
  PROVE  CreationIInv'
<1>1. CASE ColumnReset
  <2>1. budget' \in Budget /\ state' = "none" /\ "none" \in States
    BY <1>1, SpendType DEF ColumnReset, Costs, States, CreationIInv, CreationTypeOK
  <2>2. UNCHANGED <<facts, room_id, jobs, relay, request, handler, tracker, notice, copies>>
    BY <1>1 DEF ColumnReset
  <2>3. CreationTypeOK'
    BY <2>1, <2>2 DEF facts, tracker, CreationIInv, CreationTypeOK
  <2>4. ConfirmedExisted' /\ Evidence'
    BY <2>1, <2>2 DEF CreationIInv, ConfirmedExisted, Evidence, RowOK
  <2> QED BY <2>3, <2>4 DEF CreationIInv
<1>2. CASE CopyRow
  <2> DEFINE r == [state |-> state, room_id |-> room_id]
  <2>1. budget' \in Budget
    BY <1>2, SpendType DEF CopyRow, Costs, CreationIInv, CreationTypeOK
  <2>2. UNCHANGED <<facts, token, jobs, relay, request, handler, tracker, notice>> /\ copies' = copies \cup {r}
    BY <1>2 DEF CopyRow
  <2>3. r \in Rows /\ RowOK(r)
    BY DEF Rows, RowOK, CreationIInv, CreationTypeOK, ConfirmedExisted
  <2> HIDE DEF r
  <2>4. CreationTypeOK'
    BY <2>1, <2>2, <2>3 DEF facts, token, tracker, CreationIInv, CreationTypeOK
  <2>5. ConfirmedExisted' /\ Evidence'
    BY <2>2, <2>3 DEF token, CreationIInv, ConfirmedExisted, Evidence, RowOK
  <2> QED BY <2>4, <2>5 DEF CreationIInv
<1>3. ASSUME NEW r \in copies, WriteBack(r) PROVE CreationIInv'
  <2>1. r \in Rows /\ RowOK(r)
    BY DEF CreationIInv, CreationTypeOK, Evidence
  <2>2. UNCHANGED <<facts, jobs, relay, request, handler, tracker, notice, budget>>
        /\ copies' = copies \ {r} /\ state' = r.state /\ room_id' = r.room_id
    BY <1>3 DEF WriteBack
  <2>3. CreationTypeOK'
    BY <2>1, <2>2 DEF Rows, facts, tracker, CreationIInv, CreationTypeOK
  <2>4. ConfirmedExisted' /\ Evidence'
    BY <2>1, <2>2 DEF CreationIInv, ConfirmedExisted, Evidence, RowOK
  <2> QED BY <2>3, <2>4 DEF CreationIInv
<1> QED BY <1>1, <1>2, <1>3 DEF Rewrite

-----------------------------------------------------------------------------
LEMMA RequestKeeps ==
  ASSUME CreationIInv, NEW q \in Requests, Request(q)
  PROVE  CreationIInv'
  BY UpsertedKeeps, ReadTokenKeeps, RequestRoomKeeps, EnqueueKeeps, RecheckSeesKeeps, RecheckHealsKeeps DEF Request

LEMMA HandlerKeeps ==
  ASSUME CreationIInv, NEW h \in Handlers, Handle(h) \/ Publish(h)
  PROVE  CreationIInv'
  BY AckReadsKeeps, AckWritesKeeps, PublishCreateKeeps, PublishEditKeeps, GiveUpKeeps DEF Handle, Publish

\* Every step keeps the invariant.
THEOREM CreationStep == CreationIInv /\ [CreationNext]_creationVars => CreationIInv'
<1> SUFFICES ASSUME CreationIInv, [CreationNext]_creationVars PROVE CreationIInv'
  OBVIOUS
<1>1. ASSUME NEW q \in Requests, Request(q) PROVE CreationIInv'
  BY <1>1, RequestKeeps
<1>2. ASSUME NEW h \in Handlers, Handle(h) \/ Publish(h) PROVE CreationIInv'
  BY <1>2, HandlerKeeps
<1>3. CASE Notice \/ PublishDelete \/ Recover \/ World \/ Rewrite
  BY <1>3, NoticeKeeps, PublishDeleteKeeps, RecoverKeeps, WorldKeeps, RewriteKeeps
<1>4. CASE UNCHANGED creationVars
  <2>1. \A q \in Requests : request'[q] = "heal" => relay # "absent"
    BY <1>4 DEF creationVars, CreationIInv, Evidence
  <2> QED BY <1>4, <2>1, CallKeeps DEF creationVars, facts, tracker, CreationIInv, CreationTypeOK, Pcs
<1> QED BY <1>1, <1>2, <1>3, <1>4 DEF CreationNext

Undone == ColumnReset \/ \E r \in copies : WriteBack(r)

\* No step but a reset or a row written back takes a created room back.
LEMMA StepCreated ==
  CreationIInv /\ [CreationNext]_creationVars
    => [state = "created" => (state' = "created" /\ room_id') \/ Undone]_creationVars
<1> SUFFICES ASSUME CreationIInv, [CreationNext]_creationVars, state = "created", ~Undone
             PROVE  state' = "created" /\ room_id'
  OBVIOUS
<1>1. room_id
  BY DEF CreationIInv, ConfirmedExisted
<1>2. ASSUME UNCHANGED token PROVE state' = "created" /\ room_id'
  BY <1>1, <1>2 DEF token
<1>3. ASSUME NEW q \in Requests, Request(q) PROVE state' = "created" /\ room_id'
  <2>1. CASE RequestRoom(q)
    BY <2>1, RequestRoomKeeps
  <2>2. CASE RecheckHeals(q)
    BY <2>2 DEF RecheckHeals
  <2>3. CASE ~RequestRoom(q) /\ ~RecheckHeals(q)
    <3>1. UNCHANGED token
      BY <1>3, <2>3 DEF Request, ReadToken, EnqueueRoom, EnqueueFails, Provision, Buy, UpsertRow, RecheckSees
    <3> QED BY <3>1, <1>2
  <2> QED BY <2>1, <2>2, <2>3
<1>4. ASSUME NEW h \in Handlers, Handle(h) \/ Publish(h) PROVE state' = "created" /\ room_id'
  <2>1. CASE AckWrites(h)
    BY <2>1, AckWritesKeeps
  <2>2. CASE ~AckWrites(h)
    <3>1. UNCHANGED token
      BY <1>4, <2>2 DEF Handle, Publish, AckReads, PublishCreate, PublishEdit, GiveUp
    <3> QED BY <3>1, <1>2
  <2> QED BY <2>1, <2>2
<1>5. CASE Notice \/ PublishDelete \/ Recover \/ World \/ Rewrite
  <2>1. UNCHANGED token
    BY <1>5 DEF Notice, PublishDelete, Recover, RecreateRoomGroup, RecreateFails, PublishMember, Expire,
                World, Trade, RelayLoses, CreationCrash, Rewrite, CopyRow, Undone
  <2> QED BY <2>1, <1>2
<1>6. CASE UNCHANGED creationVars
  BY <1>2, <1>6 DEF creationVars
<1> QED BY <1>3, <1>4, <1>5, <1>6 DEF CreationNext

\* The types hold for every value of the constants.
THEOREM CreationTypeCorrect == CreationSpec => []CreationTypeOK
<1>1. CreationIInv => CreationTypeOK
  BY DEF CreationIInv
<1> QED BY CreationInitInvariant, CreationStep, <1>1, PTL DEF CreationSpec

\* A created room has its durable mark, room_id, and a room that has the mark has had its
\* group on the relay, whatever acks, heals, re-creations, crashes, resets of the column
\* and rows written back overlap.
THEOREM ConfirmedAlwaysExisted == CreationSpec => []ConfirmedExisted
<1>1. CreationIInv => ConfirmedExisted
  BY DEF CreationIInv
<1> QED BY CreationInitInvariant, CreationStep, <1>1, PTL DEF CreationSpec

\* A created room is never taken back by a late failure or by a request that read the
\* token before: what takes it back is a reset of the column or a whole row written back.
THEOREM CreatedAlwaysStays == CreationSpec => CreatedStays
<1> QED BY CreationInitInvariant, CreationStep, StepCreated, PTL DEF CreationSpec, CreatedStays, Undone
===============================================================================
