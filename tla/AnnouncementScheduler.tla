------------------------ MODULE AnnouncementScheduler ------------------------
(***************************************************************************)
(* Announcements that are due, drained by the replicas of the service:      *)
(* AnnouncementSchedulerService.tick, the claims of AnnouncementService,    *)
(* the fan-out of AnnouncementDispatchService, and the dedup marker and the *)
(* job of each push (ExpoChannel, SendExpoNotificationQueue).               *)
(*                                                                          *)
(* A replica dispatches one row at a time, and forgets it before it claims  *)
(* another, so its name stands for the claim_token.  A claim that is not    *)
(* heartbeated goes stale.  An action is the code between two awaits; a     *)
(* replica that crashes is up again at once.  An address has one job per    *)
(* announcement (no more than expoPushBatchSize devices).                   *)
(***************************************************************************)
EXTENDS Integers

CONSTANTS
  Replicas,
  Announcements,
  Addresses,     \* whom an announcement may be for
  MaxAttempts,   \* MAX_DISPATCH_ATTEMPTS_PER_ROW
  MaxReentries,  \* MAX_DRAIN_REENTRIES
  MaxFaults      \* bound on failures, crashes and fan-outs slower than staleClaimMs

ASSUME CapAssumption == MaxAttempts \in Nat \ {0} /\ MaxReentries \in Nat \ {0}
ASSUME FaultAssumption == MaxFaults \in Nat

VARIABLES
  \* the announcements table
  claim,       \* whose claim_token, Nobody when null
  stale,       \* claimed_at is older than staleClaimMs
  attempts,    \* attempt_count
  outcome,     \* "due", or processed: "completed" or "poisoned"
  \* Redis
  marked,      \* <<announcement, address>>: the dedup marker is set
  jobs,        \* send-expo jobs waiting
  \* the replicas
  pc,          \* the await of tick(), "idle" when not running
  pending,
  drains,      \* reentries
  row,         \* the announcement that is dispatched
  left,        \* addresses whose send has not begun
  adding,      \* addresses whose marker is set and whose job is not added
  \* auxiliary
  completions, \* calls of markCompleted that found the row
  sends,       \* jobs added since the marker last expired, less jobs given up
  faults

Nobody == "nobody"
ASSUME NobodyAssumption == Nobody \notin Replicas

table == <<claim, stale, attempts, outcome, completions>>
redis == <<marked, jobs, sends>>
loop == <<pending, drains>>
dispatch == <<row, left, adding>>
vars == <<table, redis, pc, loop, dispatch, faults>>

Pushes == Announcements \X Addresses
PCs == {"idle", "stuck", "claim", "resolve", "send", "release", "poison"}

TypeOK ==
  /\ claim \in [Announcements -> Replicas \cup {Nobody}]
  /\ stale \in [Announcements -> BOOLEAN]
  /\ attempts \in [Announcements -> Nat]
  /\ outcome \in [Announcements -> {"due", "completed", "poisoned"}]
  /\ marked \subseteq Pushes
  /\ jobs \in [Pushes -> Nat]
  /\ pc \in [Replicas -> PCs]
  /\ pending \in [Replicas -> BOOLEAN]
  /\ drains \in [Replicas -> 0..MaxReentries]
  /\ row \in [Replicas -> Announcements]
  /\ left \in [Replicas -> SUBSET Addresses]
  /\ adding \in [Replicas -> SUBSET Addresses]
  /\ completions \in [Announcements -> Nat]
  /\ sends \in [Pushes -> Int]
  /\ faults \in 0..MaxFaults

Init ==
  /\ claim = [a \in Announcements |-> Nobody]
  /\ stale = [a \in Announcements |-> FALSE]
  /\ attempts = [a \in Announcements |-> 0]
  /\ outcome = [a \in Announcements |-> "due"]
  /\ marked = {} /\ jobs = [p \in Pushes |-> 0] /\ sends = [p \in Pushes |-> 0]
  /\ pc = [r \in Replicas |-> "idle"]
  /\ pending = [r \in Replicas |-> FALSE]
  /\ drains = [r \in Replicas |-> 0]
  /\ row \in [Replicas -> Announcements]
  /\ left = [r \in Replicas |-> {}] /\ adding = [r \in Replicas |-> {}]
  /\ completions = [a \in Announcements |-> 0]
  /\ faults = 0

Fault == faults < MaxFaults /\ faults' = faults + 1
GoTo(r, p) == pc' = [pc EXCEPT ![r] = p]

-----------------------------------------------------------------------------
\* AnnouncementSchedulerService.tick

\* The cron job or a wake signal; one that comes during a drain is remembered.
Tick(r) ==
  /\ IF pc[r] = "idle"
     THEN /\ GoTo(r, "stuck")
          /\ pending' = [pending EXCEPT ![r] = FALSE]
          /\ drains' = [drains EXCEPT ![r] = 0]
     ELSE /\ pending' = [pending EXCEPT ![r] = TRUE]
          /\ UNCHANGED <<pc, drains>>
  /\ UNCHANGED <<table, redis, dispatch, faults>>

\* Mutant of Stuck: the negation of processed_at IS NULL is lost.
StuckAndProcessed(a) == claim[a] # Nobody /\ stale[a] /\ outcome[a] # "due"

Stuck(a) == claim[a] # Nobody /\ stale[a] /\ outcome[a] = "due"

ReleaseStuck(r) ==
  /\ pc[r] = "stuck" /\ GoTo(r, "claim")
  /\ claim' = [a \in Announcements |-> IF Stuck(a) THEN Nobody ELSE claim[a]]
  /\ UNCHANGED <<stale, attempts, outcome, completions, redis, loop, dispatch, faults>>

\* ... whose failure is logged.
ReleaseStuckFails(r) ==
  /\ pc[r] = "stuck" /\ GoTo(r, "claim")
  /\ Fault
  /\ UNCHANGED <<table, redis, loop, dispatch>>

Claimable(a) == outcome[a] = "due" /\ claim[a] = Nobody

ClaimNextDue(r, a) ==
  /\ pc[r] = "claim" /\ Claimable(a)
  /\ claim' = [claim EXCEPT ![a] = r]
  /\ stale' = [stale EXCEPT ![a] = FALSE]
  /\ row' = [row EXCEPT ![r] = a]
  /\ GoTo(r, "resolve")
  /\ UNCHANGED <<attempts, outcome, completions, redis, loop, left, adding, faults>>

\* Mutant of DrainsAgain: no cap on the follow-up drains.
DrainsForEver(r) == pending[r]

DrainsAgain(r) == pending[r] /\ drains[r] + 1 < MaxReentries

\* Nothing is due any more: a follow-up drain for the wakes that came meanwhile.
Drained(r) ==
  /\ pc[r] = "claim" /\ \A a \in Announcements : ~Claimable(a)
  /\ drains' = [drains EXCEPT ![r] = @ + 1]
  /\ IF DrainsAgain(r)
     THEN GoTo(r, "stuck") /\ pending' = [pending EXCEPT ![r] = FALSE]
     ELSE GoTo(r, "idle") /\ UNCHANGED pending
  /\ UNCHANGED <<table, redis, dispatch, faults>>

\* A failing claim ends the tick.
ClaimFails(r) ==
  /\ pc[r] = "claim" /\ GoTo(r, "idle")
  /\ Fault
  /\ UNCHANGED <<table, redis, loop, dispatch>>

-----------------------------------------------------------------------------
\* AnnouncementDispatchService.run

Owns(r) == claim[row[r]] = r

\* Those with a device, or the targets of the row.
Resolve(r, recipients) ==
  /\ pc[r] = "resolve" /\ GoTo(r, "send")
  /\ left' = [left EXCEPT ![r] = recipients]
  /\ UNCHANGED <<table, redis, loop, row, adding, faults>>

\* Opted out, without a device, or failed before the marker was asked for.
NotSent(r, x) ==
  /\ pc[r] = "send" /\ x \in left[r]
  /\ left' = [left EXCEPT ![r] = @ \ {x}]
  /\ UNCHANGED <<table, redis, pc, loop, row, adding, faults>>

\* Mutant of Acquires: the marker is not looked at.
AcquiresAlways(push) == TRUE

\* SET NX of the dedup marker.
Acquires(push) == push \notin marked

Send(r, x) ==
  /\ pc[r] = "send" /\ x \in left[r]
  /\ left' = [left EXCEPT ![r] = @ \ {x}]
  /\ marked' = marked \cup {<<row[r], x>>}
  /\ adding' = IF Acquires(<<row[r], x>>)
               THEN [adding EXCEPT ![r] = @ \cup {x}]
               ELSE adding
  /\ UNCHANGED <<table, jobs, sends, pc, loop, row, faults>>

AddJob(r, x) ==
  /\ pc[r] = "send" /\ x \in adding[r]
  /\ adding' = [adding EXCEPT ![r] = @ \ {x}]
  /\ jobs' = [jobs EXCEPT ![<<row[r], x>>] = @ + 1]
  /\ sends' = [sends EXCEPT ![<<row[r], x>>] = @ + 1]
  /\ UNCHANGED <<table, marked, pc, loop, row, left, faults>>

\* The address is counted as failed; its marker stays.
AddJobFails(r, x) ==
  /\ pc[r] = "send" /\ x \in adding[r]
  /\ Fault
  /\ adding' = [adding EXCEPT ![r] = @ \ {x}]
  /\ UNCHANGED <<table, redis, pc, loop, row, left>>

\* After some of the batches: the claim is refreshed, or found lost.
HeartbeatClaim(r) ==
  /\ pc[r] = "send" /\ adding[r] = {} /\ left[r] # {}
  /\ IF Owns(r)
     THEN /\ stale' = [stale EXCEPT ![row[r]] = FALSE]
          /\ UNCHANGED <<pc, left>>
     ELSE /\ GoTo(r, "claim")
          /\ left' = [left EXCEPT ![r] = {}]
          /\ UNCHANGED stale
  /\ UNCHANGED <<claim, attempts, outcome, completions, redis, loop, row, adding, faults>>

\* Mutant of Completes: no claim_token in the WHERE.
CompletesAny(r) == TRUE

Completes(r) == Owns(r)

MarkCompleted(r) ==
  /\ pc[r] = "send" /\ left[r] = {} /\ adding[r] = {}
  /\ GoTo(r, "claim")
  /\ IF Completes(r)
     THEN /\ outcome' = [outcome EXCEPT ![row[r]] = "completed"]
          /\ claim' = [claim EXCEPT ![row[r]] = Nobody]
          /\ completions' = [completions EXCEPT ![row[r]] = @ + 1]
     ELSE UNCHANGED <<outcome, claim, completions>>
  /\ UNCHANGED <<stale, attempts, redis, loop, dispatch, faults>>

\* The recipients cannot be resolved, or the completion cannot be written.
DispatchFails(r) ==
  /\ \/ pc[r] = "resolve"
     \/ pc[r] = "send" /\ left[r] = {} /\ adding[r] = {}
  /\ Fault
  /\ GoTo(r, "release")
  /\ UNCHANGED <<table, redis, loop, dispatch>>

\* releaseClaim, and at the cap markPoisoned.
ReleaseClaim(r) ==
  /\ pc[r] = "release"
  /\ IF Owns(r)
     THEN /\ claim' = [claim EXCEPT ![row[r]] = Nobody]
          /\ attempts' = [attempts EXCEPT ![row[r]] = @ + 1]
          /\ GoTo(r, IF attempts[row[r]] + 1 >= MaxAttempts THEN "poison" ELSE "claim")
     ELSE GoTo(r, "claim") /\ UNCHANGED <<claim, attempts>>
  /\ UNCHANGED <<stale, outcome, completions, redis, loop, dispatch, faults>>

\* Without a look at the claim.
MarkPoisoned(r) ==
  /\ pc[r] = "poison" /\ GoTo(r, "claim")
  /\ outcome' = [outcome EXCEPT ![row[r]] = "poisoned"]
  /\ claim' = [claim EXCEPT ![row[r]] = Nobody]
  /\ UNCHANGED <<stale, attempts, completions, redis, loop, dispatch, faults>>

\* The failure of either is logged.
ReleaseFails(r) ==
  /\ pc[r] \in {"release", "poison"} /\ GoTo(r, "claim")
  /\ Fault
  /\ UNCHANGED <<table, redis, loop, dispatch>>

Crash(r) ==
  /\ pc[r] # "idle" /\ GoTo(r, "idle")
  /\ Fault
  /\ left' = [left EXCEPT ![r] = {}] /\ adding' = [adding EXCEPT ![r] = {}]
  /\ UNCHANGED <<table, redis, loop, row>>

-----------------------------------------------------------------------------
\* SendExpoNotificationQueue.process

Deliver(push) ==
  /\ jobs[push] > 0
  /\ jobs' = [jobs EXCEPT ![push] = @ - 1]
  /\ UNCHANGED <<table, marked, sends, pc, loop, dispatch, faults>>

\* The last attempt fails: the marker is dropped.
GiveUp(push) ==
  /\ jobs[push] > 0
  /\ Fault
  /\ jobs' = [jobs EXCEPT ![push] = @ - 1]
  /\ sends' = [sends EXCEPT ![push] = @ - 1]
  /\ marked' = marked \ {push}
  /\ UNCHANGED <<table, pc, loop, dispatch>>

\* dedupTtlMs go by: longer than between marker and job, or than a job waits.
Expires(push) ==
  /\ push \in marked /\ jobs[push] = 0
  /\ \A r \in Replicas : row[r] = push[1] => push[2] \notin adding[r]
  /\ marked' = marked \ {push}
  /\ sends' = [sends EXCEPT ![push] = 0]
  /\ UNCHANGED <<table, jobs, pc, loop, dispatch, faults>>

Dispatched(a) == \E r \in Replicas :
  claim[a] = r /\ row[r] = a /\ pc[r] \in {"resolve", "send", "release"}

\* staleClaimMs go by; while the row is being dispatched that is a fault.
GoesStale(a) ==
  /\ claim[a] # Nobody /\ ~stale[a]
  /\ stale' = [stale EXCEPT ![a] = TRUE]
  /\ IF Dispatched(a) THEN Fault ELSE UNCHANGED faults
  /\ UNCHANGED <<claim, attempts, outcome, completions, redis, pc, loop, dispatch>>

Drain(r) ==
  \/ ReleaseStuck(r) \/ Drained(r)
  \/ \E a \in Announcements : ClaimNextDue(r, a)
  \/ \E s \in SUBSET Addresses : Resolve(r, s)
  \/ \E x \in Addresses : NotSent(r, x) \/ Send(r, x) \/ AddJob(r, x)
  \/ MarkCompleted(r) \/ ReleaseClaim(r) \/ MarkPoisoned(r)

Failure(r) ==
  \/ ReleaseStuckFails(r) \/ ClaimFails(r) \/ DispatchFails(r) \/ ReleaseFails(r)
  \/ Crash(r)
  \/ \E x \in Addresses : AddJobFails(r, x)

Next ==
  \/ \E r \in Replicas : Tick(r) \/ Drain(r) \/ HeartbeatClaim(r) \/ Failure(r)
  \/ \E push \in Pushes : Deliver(push) \/ GiveUp(push) \/ Expires(push)
  \/ \E a \in Announcements : GoesStale(a)

\* The cron job fires, what has begun goes on, time passes.
Spec ==
  /\ Init /\ [][Next]_vars
  /\ \A r \in Replicas : WF_vars(pc[r] = "idle" /\ Tick(r)) /\ WF_vars(Drain(r))
  /\ \A a \in Announcements : WF_vars(GoesStale(a))

-----------------------------------------------------------------------------
(* A replica that was too slow and resumes, the peer that took its row over, *)
(* a crash in the middle: the completion of a row is written once.           *)
CompletedOnce == \A a \in Announcements : completions[a] <= 1

(* However often a row is dispatched, and by however many replicas at once,  *)
(* an address gets one push job for it while the marker lasts, or another    *)
(* after one was given up.                                                   *)
PushedOnce == \A push \in Pushes : sends[push] <= 1

(* Nothing due is left behind: not a row whose replica died, not one whose   *)
(* dispatch fails again and again, not one that two replicas took in turn.   *)
EveryDueProcessed == \A a \in Announcements : <>[](outcome[a] # "due")
=============================================================================
