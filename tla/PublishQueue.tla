----------------------------- MODULE PublishQueue -----------------------------
(***************************************************************************)
(* The one path to the relay: PublishNip29Processor takes the jobs of the   *)
(* queue worker:publish-nip29 and publishes them through the connection of  *)
(* RelayWriterService.  An outage pauses the queue, in Redis; the loop that *)
(* resumes it, and everything the writer knows of its connection, live in   *)
(* the process only.                                                        *)
(***************************************************************************)
EXTENDS Naturals, FiniteSets

CONSTANTS
  Jobs,
  Removals,     \* the jobs whose end is an absence: 9001, 9008
  Slots,        \* PUBLISH_NIP29_CONCURRENCY
  MaxAttempts,  \* publishMaxRetries + 1
  MaxFaults     \* bound on outages, drops, timeouts, rejects, failed Redis calls, crashes
                \* and close callbacks of sockets the writer closes itself

ASSUME BoundAssumption == MaxAttempts \in Nat \ {0} /\ MaxFaults \in Nat /\ Removals \subseteq Jobs

VARIABLES
  \* Bull, in Redis
  job,      \* of a job: "waiting", "delayed", "active", "settled"
  made,     \* attemptsMade
  stalled,  \* the jobs a crash has found active
  paused,
  \* the processor
  slot,     \* of a slot: what it awaits, and for which job
  armed,    \* resumeTimer
  probing,  \* tryResume awaits isPaused or resume
  boot,     \* onApplicationBootstrap is still to come
  acks,     \* the tgr.publish.ack emitted for a job
  \* the writer
  healthy, sock, opening, waiters, timer,
  \* the relay
  up,
  faults

queue == <<job, made, stalled, paused>>
resumption == <<armed, probing, boot>>
writer == <<healthy, sock, opening, waiters, timer>>
vars == <<queue, slot, resumption, acks, writer, up, faults>>

NoJob == "no job"
Idle == [pc |-> "idle", job |-> NoJob]
PCs == {"idle", "isPaused down", "pause down", "isPaused late", "pause late", "arm down", "arm late",
        "send", "connect", "sent"}

\* Who waits for an opening: slots, and the reconnect (or first connect) of the writer.
Reconnect == "reconnect"

ASSUME NameAssumption == NoJob \notin Jobs /\ Reconnect \notin Slots

TypeOK ==
  /\ job \in [Jobs -> {"waiting", "delayed", "active", "settled"}]
  /\ made \in [Jobs -> 0..MaxAttempts]
  /\ stalled \subseteq Jobs /\ paused \in BOOLEAN
  /\ slot \in [Slots -> [pc : PCs, job : Jobs \cup {NoJob}]]
  /\ armed \in BOOLEAN /\ probing \in BOOLEAN /\ boot \in BOOLEAN
  /\ acks \in [Jobs -> 0..MaxAttempts]
  /\ healthy \in BOOLEAN /\ sock \in {"none", "open", "closed"}
  /\ opening \in {"no", "connect", "auth"} /\ waiters \subseteq Slots \cup {Reconnect}
  /\ timer \in BOOLEAN /\ up \in BOOLEAN /\ faults \in 0..MaxFaults

\* A process that has just started: the modules are initialised, connectInitial under way.
Start ==
  /\ slot' = [s \in Slots |-> Idle]
  /\ armed' = FALSE /\ probing' = FALSE /\ boot' = TRUE
  /\ healthy' = FALSE /\ sock' = "none" /\ opening' = "connect" /\ waiters' = {Reconnect} /\ timer' = FALSE

Init ==
  /\ job = [j \in Jobs |-> "waiting"] /\ made = [j \in Jobs |-> 0]
  /\ stalled = {} /\ paused \in BOOLEAN
  /\ slot = [s \in Slots |-> Idle]
  /\ armed = FALSE /\ probing = FALSE /\ boot = TRUE
  /\ acks = [j \in Jobs |-> 0]
  /\ healthy = FALSE /\ sock = "none" /\ opening = "connect" /\ waiters = {Reconnect} /\ timer = FALSE
  /\ up \in BOOLEAN /\ faults = 0

Fault == faults < MaxFaults /\ faults' = faults + 1
IsHealthy == healthy /\ sock = "open"
Go(s, p) == slot' = [slot EXCEPT ![s].pc = p]
JobOf(s) == slot[s].job

-----------------------------------------------------------------------------
\* The end of an attempt

Free(s) == slot' = [slot EXCEPT ![s] = Idle]
Ack(j) == acks' = [acks EXCEPT ![j] = @ + 1]

\* Completed, or discarded and failed.
Settle(s) ==
  /\ Free(s) /\ job' = [job EXCEPT ![JobOf(s)] = "settled"]
  /\ UNCHANGED <<made, stalled, paused>>

\* Mutant of LastAttempt: one attempt more.
LastAttemptLate(j) == made[j] + 1 > MaxAttempts

LastAttempt(j) == made[j] + 1 >= MaxAttempts

\* The handler throws: Bull delays the job, and gives it up after the last attempt.
AfterThrow(j) == [job EXCEPT ![j] = IF LastAttempt(j) THEN "settled" ELSE "delayed"]
Throw(s) ==
  /\ Free(s) /\ job' = AfterThrow(JobOf(s))
  /\ made' = [made EXCEPT ![JobOf(s)] = @ + 1] /\ UNCHANGED <<stalled, paused>>

\* A throw that acks when it is the last.
ThrowRetryable(s) ==
  /\ Throw(s)
  /\ IF LastAttempt(JobOf(s)) THEN Ack(JobOf(s)) ELSE UNCHANGED acks

-----------------------------------------------------------------------------
\* process

Take(s, j) ==
  /\ slot[s] = Idle /\ job[j] = "waiting" /\ ~paused
  /\ job' = [job EXCEPT ![j] = "active"]
  /\ slot' = [slot EXCEPT ![s] = [pc |-> IF IsHealthy THEN "send" ELSE "isPaused down", job |-> j]]
  /\ UNCHANGED <<made, stalled, paused, resumption, acks, writer, up, faults>>

\* After the token bucket: ensureConnected, and the event on its way.
Send(s) ==
  /\ slot[s].pc = "send"
  /\ IF IsHealthy
     THEN Go(s, "sent") /\ UNCHANGED <<opening, waiters>>
     ELSE /\ Go(s, "connect") /\ waiters' = waiters \cup {s}
          /\ opening' = IF opening = "no" THEN "connect" ELSE opening
  /\ UNCHANGED <<queue, resumption, acks, healthy, sock, timer, up, faults>>

Answered(s) == slot[s].pc = "sent" /\ sock = "open" /\ up

\* OK, or "already exists"; or "group not found" for a removal.
AnswerOk(s) ==
  /\ Answered(s) /\ Settle(s) /\ Ack(JobOf(s))
  /\ UNCHANGED <<resumption, writer, up, faults>>

\* A terminal reject is acked and thrown: to Bull an error like any other.
AnswerTerminal(s) ==
  /\ Answered(s) /\ Throw(s) /\ Ack(JobOf(s))
  /\ UNCHANGED <<resumption, writer, up, faults>>

\* "Group not found" for anything else: discarded.
AnswerMissing(s) ==
  /\ Answered(s) /\ JobOf(s) \notin Removals /\ Settle(s) /\ Ack(JobOf(s))
  /\ UNCHANGED <<resumption, writer, up, faults>>

AnswerReject(s) ==
  /\ Answered(s) /\ Fault /\ ThrowRetryable(s)
  /\ UNCHANGED <<resumption, writer, up>>

\* The socket is gone: the library fails the publish.
AnswerLost(s) ==
  /\ slot[s].pc = "sent" /\ sock # "open" /\ ThrowRetryable(s)
  /\ UNCHANGED <<resumption, writer, up, faults>>

\* Mutant of AfterTimeout: the socket looks open, and nothing closes it.
AfterTimeoutMarked == healthy' = FALSE /\ UNCHANGED timer

\* A publish without an answer closes no socket: it must schedule the reconnect itself.
AfterTimeout == healthy' = FALSE /\ timer' = TRUE

\* No answer in time.
AnswerLate(s) ==
  /\ slot[s].pc = "sent" /\ Fault
  /\ Go(s, "isPaused late") /\ AfterTimeout
  /\ UNCHANGED <<queue, resumption, acks, sock, opening, waiters, up>>

-----------------------------------------------------------------------------
\* pauseForOutage, armResume, tryResume

\* Mutant of Arms: the loop is armed before the queue is paused.
ArmsFirst(when) == when = "before"

\* armResume comes after the pause.
Arms(when) == when = "after"

ReadPaused(s) ==
  /\ slot[s].pc \in {"isPaused down", "isPaused late"} /\ ~paused
  /\ Go(s, IF slot[s].pc = "isPaused down" THEN "pause down" ELSE "pause late")
  /\ armed' = (armed \/ Arms("before"))
  /\ UNCHANGED <<queue, probing, boot, acks, writer, up, faults>>

\* queue.pause()
PauseQueue(s) ==
  /\ slot[s].pc \in {"pause down", "pause late"}
  /\ paused' = TRUE /\ Go(s, IF slot[s].pc = "pause down" THEN "arm down" ELSE "arm late")
  /\ UNCHANGED <<job, made, stalled, resumption, acks, writer, up, faults>>

\* armResume, whatever became of the calls, and the end of the attempt.
EndAttempt(s) ==
  /\ Throw(s)
  /\ armed' = (armed \/ Arms("after")) /\ UNCHANGED <<probing, boot>>
  /\ IF slot[s].pc \in {"isPaused late", "pause late", "arm late"} /\ LastAttempt(JobOf(s))
     THEN Ack(JobOf(s)) ELSE UNCHANGED acks
  /\ UNCHANGED <<writer, up>>

ArmResume(s) == slot[s].pc \in {"arm down", "arm late"} /\ EndAttempt(s) /\ UNCHANGED faults
FindPaused(s) == slot[s].pc \in {"isPaused down", "isPaused late"} /\ paused /\ EndAttempt(s) /\ UNCHANGED faults
PauseFails(s) == slot[s].pc \in {"isPaused down", "isPaused late", "pause down", "pause late"} /\ Fault /\ EndAttempt(s)

\* Mutant of StillArmed: a probe that finds the relay down is the last.
StillArmedNever == FALSE

\* A probe that finds the relay down arms the next.
StillArmed == ~IsHealthy

Probe ==
  /\ armed /\ ~probing
  /\ armed' = StillArmed /\ probing' = IsHealthy
  /\ UNCHANGED <<queue, slot, boot, acks, writer, up, faults>>

Resume ==
  /\ probing /\ probing' = FALSE /\ paused' = FALSE
  /\ UNCHANGED <<job, made, stalled, slot, armed, boot, acks, writer, up, faults>>

ResumeFails ==
  /\ probing /\ Fault /\ probing' = FALSE /\ armed' = TRUE
  /\ UNCHANGED <<queue, slot, boot, acks, writer, up>>

\* onApplicationBootstrap: a pause of an earlier process is lifted.
BootResume ==
  /\ boot /\ boot' = FALSE /\ paused' = FALSE
  /\ UNCHANGED <<job, made, stalled, slot, armed, probing, acks, writer, up, faults>>

-----------------------------------------------------------------------------
\* openConnection, reconnect

\* Slots that wait for the opening get the socket; without one they throw, unacked.
Connected(S, ok) ==
  /\ slot' = [s \in Slots |-> IF s \notin S THEN slot[s]
                              ELSE IF ok THEN [slot[s] EXCEPT !.pc = "sent"] ELSE Idle]
  /\ IF ok THEN UNCHANGED <<job, made>>
     ELSE /\ job' = [j \in Jobs |-> IF \E s \in S : JobOf(s) = j THEN AfterThrow(j)[j] ELSE job[j]]
          /\ made' = [j \in Jobs |-> IF \E s \in S : JobOf(s) = j THEN made[j] + 1 ELSE made[j]]

\* Mutant of AfterOpening: "connecting" is cleared by a success only.
AfterOpeningSuccess(ok) == IF ok THEN "no" ELSE "failed"

AfterOpening(ok) == "no"

\* The opening settles; reconnect, if it waits and has no relay, schedules the next.
Opened(ok) ==
  /\ opening' = AfterOpening(ok) /\ waiters' = {}
  /\ Connected(waiters \ {Reconnect}, ok)
  /\ timer' = (timer \/ (Reconnect \in waiters /\ ~ok))
  /\ UNCHANGED <<stalled, paused, resumption, acks>>

ConnectFails ==
  /\ opening = "connect" /\ ~up /\ Opened(FALSE)
  /\ UNCHANGED <<healthy, sock, up, faults>>

Connect ==
  /\ opening = "connect" /\ up
  /\ opening' = "auth" /\ sock' = "open"
  /\ UNCHANGED <<queue, slot, resumption, acks, healthy, waiters, timer, up, faults>>

\* AUTH done, skipped or timed out.  A reconnect meanwhile has let go of the socket.
Authenticate ==
  /\ opening = "auth" /\ healthy' = TRUE /\ Opened(sock # "none")
  /\ UNCHANGED <<sock, up, faults>>

\* onclose
Drop ==
  /\ sock = "open" /\ (up => Fault) /\ (~up => UNCHANGED faults)
  /\ sock' = "closed" /\ healthy' = FALSE /\ timer' = TRUE
  /\ UNCHANGED <<queue, slot, resumption, acks, opening, waiters, up>>

\* The timer of scheduleReconnect: the writer closes its socket and opens another.
\* Closing may call onclose too, which schedules a reconnect that is not needed.
ReconnectTimer ==
  /\ timer
  /\ \/ timer' = FALSE /\ UNCHANGED <<healthy, faults>>
     \/ sock # "none" /\ Fault /\ timer' = TRUE /\ healthy' = FALSE
  /\ sock' = "none"
  /\ opening' = IF opening = "no" THEN "connect" ELSE opening
  /\ waiters' = waiters \cup {Reconnect}
  /\ UNCHANGED <<queue, slot, resumption, acks, up>>

-----------------------------------------------------------------------------
\* The world

\* The backoff of a job elapses.
Delayed(j) ==
  /\ job[j] = "delayed" /\ job' = [job EXCEPT ![j] = "waiting"]
  /\ UNCHANGED <<made, stalled, paused, slot, resumption, acks, writer, up, faults>>

GoesDown ==
  /\ up /\ Fault /\ up' = FALSE
  /\ UNCHANGED <<queue, slot, resumption, acks, writer>>

ComesUp ==
  /\ ~up /\ up' = TRUE
  /\ UNCHANGED <<queue, slot, resumption, acks, writer, faults>>

\* The process dies and another starts.  Bull finds the active jobs stalled: it
\* queues them again, and gives up one it has found stalled before.
Crash ==
  /\ Fault /\ Start
  /\ job' = [j \in Jobs |-> IF job[j] # "active" THEN job[j] ELSE IF j \in stalled THEN "settled" ELSE "waiting"]
  /\ stalled' = stalled \cup {j \in Jobs : job[j] = "active"}
  /\ UNCHANGED <<made, paused, acks, up>>

-----------------------------------------------------------------------------
Process(s) ==
  \/ Send(s)
  \/ AnswerOk(s) \/ AnswerTerminal(s) \/ AnswerMissing(s) \/ AnswerReject(s) \/ AnswerLost(s) \/ AnswerLate(s)
  \/ ReadPaused(s) \/ PauseQueue(s) \/ ArmResume(s) \/ FindPaused(s) \/ PauseFails(s)

Resumption == Probe \/ Resume \/ ResumeFails \/ BootResume
Open == ConnectFails \/ Connect \/ Authenticate

Next ==
  \/ \E s \in Slots : Process(s) \/ \E j \in Jobs : Take(s, j)
  \/ Resumption \/ Open \/ ReconnectTimer \/ Drop
  \/ \E j \in Jobs : Delayed(j)
  \/ GoesDown \/ ComesUp \/ Crash

\* Calls return or time out, timers fire, the relay comes back.
Fairness ==
  /\ \A s \in Slots : WF_vars(Process(s)) /\ WF_vars(\E j \in Jobs : Take(s, j))
  /\ WF_vars(Resumption) /\ WF_vars(Open) /\ WF_vars(ReconnectTimer)
  /\ \A j \in Jobs : WF_vars(Delayed(j))
  /\ WF_vars(~up /\ ComesUp)

Spec == Init /\ [][Next]_vars /\ Fairness

-----------------------------------------------------------------------------
\* Whenever the queue is paused, something in the process is on its way to resume it:
\* the timer, the probe, a slot that is still to arm the timer, or the boot.
PauseIsWatched ==
  paused => armed \/ probing \/ boot \/ \E s \in Slots : slot[s].pc \in {"arm down", "arm late"}

\* A writer that is unhealthy is opening a connection or has a reconnect scheduled: what
\* startHealthWatchdog looks for, "unhealthy with no reconnect pending", never happens,
\* so the watchdog is a net under a state that the other paths do not reach.
ReconnectUnderWay == ~IsHealthy => opening # "no" \/ timer

\* The queue is not paused for ever, whatever outage, failed call or restart: "the
\* queue stays paused FOREVER" is what onApplicationBootstrap and armResume prevent.
PauseEnds == []<>(~paused)

\* The writer gets its connection back, whatever closes, drops or times out: "health
\* always recovers on its own" (startHealthWatchdog).  Without the watchdog: see above.
WriterRecovers == []<>(healthy /\ sock = "open")

\* "emit tgr.publish.ack exactly once per settled job".
AckedOnce == \A j \in Jobs : job[j] = "settled" /\ j \notin stalled => acks[j] = 1
=============================================================================
