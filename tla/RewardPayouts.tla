---------------------------- MODULE RewardPayouts ----------------------------
(***************************************************************************)
(* The X posting rewards of one address: ProfileXPostingRewardService's     *)
(* recheck (requestManualRecheck, runPayouts, processAddressInternal) and   *)
(* the on-chain re-link, with the queue of ProfileSpendQueueService that    *)
(* they share, in one process, which crashes and restarts.                  *)
(*                                                                          *)
(* The onboarding reward lives in the row of the address, which requests    *)
(* load as an entity, change, and save: save() writes every column in which *)
(* the entity differs from the row.  The per-post and streak rewards are    *)
(* rows of their own, written only by UPDATEs.  What X answers, and which   *)
(* rewards a scan finds, is a choice.                                       *)
(***************************************************************************)
EXTENDS Naturals, Sequences, FiniteSets

CONSTANTS
  Requests,    \* concurrent calls for the address
  PostRewards, \* per-post rewards that may be ledgered
  StreakRewards,
  Wallets,
  OnboardingWallet, PostWallet, StreakWallet, \* of the three keys configured; some may be one wallet
  MaxLoads,    \* bound on the calls
  MaxFaults    \* bound on failed sends, failed writes and crashes

Onboarding == "onboarding"
Rewards == PostRewards \cup StreakRewards
Payouts == Rewards \cup {Onboarding}

ASSUME RewardAssumption == Onboarding \notin Rewards /\ PostRewards \cap StreakRewards = {}
ASSUME WalletAssumption == {OnboardingWallet, PostWallet, StreakWallet} \subseteq Wallets
ASSUME BoundAssumption == MaxLoads \in Nat /\ MaxFaults \in Nat

VARIABLES
  \* the database
  status,    \* of a payout, "absent" before it is ledgered
  hash,      \* tx_hash: "null", "claimed" (the in-progress sentinel) or "real"
  due,       \* next_retry_at is null or past
  qualified, \* qualified_posts_count has reached the threshold
  slot,      \* last_x_api_scan_at is within the window
  \* the process
  pc,        \* the await a request stands at
  snap,      \* the entity it holds
  prior,     \* priorScanAt
  todo,      \* dueRows still to settle
  job,       \* the payout it has claimed
  scanning,  \* it is in processAddressInternal
  queue,     \* of a wallet: the requests whose work was enqueued and not done
  \* the chain, and auxiliary
  sent,      \* spends of a payout that reached the chain
  misjudged, \* failed sends taken for unsent that were not
  loads, faults

table == <<status, hash, due>>
account == <<qualified, slot>>
request == <<snap, prior, todo, job, scanning>>
chain == <<sent, misjudged>>
vars == <<table, account, pc, request, queue, chain, loads, faults>>

Statuses == {"pending", "failed", "paid", "blocked"}
PCs == {"idle", "save", "save code", "relink", "relink code", "reconcile", "onboarding", "posts", "streaks", "queued",
        "spend", "record", "judge", "unconfirmed", "failed", "slot", "scan", "fetch"}
Entities == [status : Statuses, hash : {"null", "claimed", "real"},
             due : BOOLEAN, qualified : BOOLEAN, slot : BOOLEAN]
NoEntity == [status |-> "pending", hash |-> "null", due |-> TRUE, qualified |-> FALSE, slot |-> FALSE]

Row == [status |-> status[Onboarding], hash |-> hash[Onboarding], due |-> due[Onboarding],
        qualified |-> qualified, slot |-> slot]

TypeOK ==
  /\ status \in [Payouts -> Statuses \cup {"absent"}]
  /\ hash \in [Payouts -> {"null", "claimed", "real"}]
  /\ due \in [Payouts -> BOOLEAN]
  /\ qualified \in BOOLEAN /\ slot \in BOOLEAN
  /\ pc \in [Requests -> PCs]
  /\ snap \in [Requests -> Entities]
  /\ prior \in [Requests -> BOOLEAN]
  /\ todo \in [Requests -> SUBSET Rewards]
  /\ job \in [Requests -> Payouts]
  /\ scanning \in [Requests -> BOOLEAN]
  /\ queue \in [Wallets -> Seq(Requests)]
  /\ sent \in [Payouts -> Nat] /\ misjudged \in [Payouts -> Nat]
  /\ loads \in 0..MaxLoads /\ faults \in 0..MaxFaults

Init ==
  /\ status = [p \in Payouts |-> IF p = Onboarding THEN "pending" ELSE "absent"]
  /\ hash = [p \in Payouts |-> "null"]
  /\ due = [p \in Payouts |-> TRUE]
  /\ qualified = FALSE /\ slot = FALSE
  /\ pc = [r \in Requests |-> "idle"]
  /\ snap = [r \in Requests |-> NoEntity]
  /\ prior = [r \in Requests |-> FALSE]
  /\ todo = [r \in Requests |-> {}]
  /\ job = [r \in Requests |-> Onboarding]
  /\ scanning = [r \in Requests |-> FALSE]
  /\ queue = [w \in Wallets |-> <<>>]
  /\ sent = [p \in Payouts |-> 0] /\ misjudged = [p \in Payouts |-> 0]
  /\ loads = 0 /\ faults = 0

GoTo(r, p) == pc' = [pc EXCEPT ![r] = p]
Fault == faults < MaxFaults /\ faults' = faults + 1

\* The request is answered, and its locals are gone.
Finish(r) ==
  /\ GoTo(r, "idle")
  /\ snap' = [snap EXCEPT ![r] = NoEntity] /\ prior' = [prior EXCEPT ![r] = FALSE]
  /\ todo' = [todo EXCEPT ![r] = {}] /\ job' = [job EXCEPT ![r] = Onboarding]
  /\ scanning' = [scanning EXCEPT ![r] = FALSE]

Unpaid(p) == status[p] \in {"pending", "failed"}

\* repository.save(entity)
Persist(e) ==
  /\ status' = [status EXCEPT ![Onboarding] = e.status]
  /\ hash' = [hash EXCEPT ![Onboarding] = e.hash]
  /\ due' = [due EXCEPT ![Onboarding] = e.due]
  /\ qualified' = e.qualified /\ slot' = e.slot

-----------------------------------------------------------------------------
\* requestManualRecheck and upsertVerifiedCandidate, up to the payouts

\* bootstrapCandidate, or the findOne of a re-link.
Load(r, next) ==
  /\ pc[r] = "idle" /\ loads < MaxLoads
  /\ snap' = [snap EXCEPT ![r] = Row]
  /\ prior' = [prior EXCEPT ![r] = slot]
  /\ GoTo(r, next) /\ loads' = loads + 1
  /\ UNCHANGED <<table, account, todo, job, scanning, queue, chain, faults>>

\* save(), and again with a referral code where the row has none; the row of an X
\* identity that is another address's goes no further.
SaveCandidate(r) ==
  /\ pc[r] \in {"save", "save code"} /\ Persist(snap[r])
  /\ \/ pc[r] = "save" /\ GoTo(r, "save code") /\ UNCHANGED request
     \/ snap[r].status # "blocked" /\ GoTo(r, "reconcile") /\ UNCHANGED request
     \/ snap[r].status = "blocked" /\ Finish(r)
  /\ UNCHANGED <<queue, chain, loads, faults>>

SaveRelink(r) ==
  /\ pc[r] \in {"relink", "relink code"}
  /\ Persist([snap[r] EXCEPT !.status = IF @ \in {"paid", "blocked"} THEN @ ELSE "pending"])
  /\ \/ pc[r] = "relink" /\ GoTo(r, "relink code") /\ UNCHANGED request
     \/ Finish(r)
  /\ UNCHANGED <<queue, chain, loads, faults>>

Confirmable(r) ==
  {p \in Rewards : Unpaid(p) /\ hash[p] = "real"}
  \cup {p \in {Onboarding} : snap[r].status \in {"pending", "failed"} /\ snap[r].hash = "real" /\ hash[p] = "real"}

\* Of the payouts whose transaction is recorded, the middleware knows some.
ReconcileConfirmationPending(r, seen) ==
  /\ pc[r] = "reconcile" /\ GoTo(r, "onboarding")
  /\ seen \subseteq Confirmable(r)
  /\ status' = [p \in Payouts |-> IF p \in seen THEN "paid" ELSE status[p]]
  /\ snap' = IF Onboarding \in seen THEN [snap EXCEPT ![r].status = "paid"] ELSE snap
  /\ UNCHANGED <<hash, due, account, prior, todo, job, scanning, queue, chain, loads, faults>>

-----------------------------------------------------------------------------
\* runPayouts: payOnboardingIfEligible, payPendingLedger, payStreakBonusesDue

\* Mutant of DueRows: the row of the onboarding reward is taken for one to settle.
DueRowsAndCandidate(R) == {p \in R \cup {Onboarding} : Unpaid(p) /\ due[p]}

DueRows(R) == {p \in R : Unpaid(p) /\ due[p]}

WalletOf(p) == CASE p \in PostRewards -> PostWallet
                 [] p \in StreakRewards -> StreakWallet
                 [] p = Onboarding -> OnboardingWallet

\* Mutant of QueueOf: queues keyed by the key as it is configured.
QueueOfRawKey(p) == IF p = Onboarding THEN OnboardingWallet ELSE PostWallet

QueueOf(p) == WalletOf(p)

\* Mutant of Claimable: the sentinel is not looked at.
ClaimableAgain(p) == Unpaid(p)

Claimable(p) == Unpaid(p) /\ hash[p] = "null"

\* The conditional UPDATE that claims, and enqueueSpend.
Claim(r, p) ==
  /\ Claimable(p)
  /\ hash' = [hash EXCEPT ![p] = "claimed"]
  /\ job' = [job EXCEPT ![r] = p]
  /\ queue' = [queue EXCEPT ![QueueOf(p)] = Append(@, r)]
  /\ GoTo(r, "queued")

\* The entity is not read again.
Forget(r) == snap' = [snap EXCEPT ![r] = NoEntity]

Eligible(e) == e.status \notin {"paid", "blocked"} /\ e.qualified /\ e.due

ClaimOnboarding(r) ==
  /\ pc[r] = "onboarding" /\ Eligible(snap[r])
  /\ Claim(r, Onboarding) /\ Forget(r)
  /\ UNCHANGED <<status, due, account, prior, todo, scanning, chain, loads, faults>>

SkipOnboarding(r) ==
  /\ pc[r] = "onboarding"
  /\ Eligible(snap[r]) => ~Claimable(Onboarding)
  /\ GoTo(r, "posts") /\ todo' = [todo EXCEPT ![r] = DueRows(PostRewards)] /\ Forget(r)
  /\ UNCHANGED <<table, account, prior, job, scanning, queue, chain, loads, faults>>

ClaimRow(r, p) ==
  /\ pc[r] \in {"posts", "streaks"} /\ p \in todo[r]
  /\ todo' = [todo EXCEPT ![r] = @ \ {p}]
  /\ Claim(r, p)
  /\ due' = [due EXCEPT ![p] = TRUE]
  /\ UNCHANGED <<status, account, snap, prior, scanning, chain, loads, faults>>

SkipRow(r, p) ==
  /\ pc[r] \in {"posts", "streaks"} /\ p \in todo[r] /\ ~Claimable(p)
  /\ todo' = [todo EXCEPT ![r] = @ \ {p}]
  /\ UNCHANGED <<table, account, pc, snap, prior, job, scanning, queue, chain, loads, faults>>

PostsDone(r) ==
  /\ pc[r] = "posts" /\ todo[r] = {}
  /\ GoTo(r, "streaks") /\ todo' = [todo EXCEPT ![r] = DueRows(StreakRewards)]
  /\ UNCHANGED <<table, account, snap, prior, job, scanning, queue, chain, loads, faults>>

\* The end of the recovery pass, or of the scan.
StreaksDone(r) ==
  /\ pc[r] = "streaks" /\ todo[r] = {}
  /\ IF scanning[r] THEN Finish(r) ELSE GoTo(r, "slot") /\ UNCHANGED request
  /\ UNCHANGED <<table, account, queue, chain, loads, faults>>

-----------------------------------------------------------------------------
\* The work that enqueueSpend runs, and what its caller does afterwards

StartSpend(r) ==
  /\ pc[r] = "queued" /\ Head(queue[QueueOf(job[r])]) = r
  /\ GoTo(r, "spend")
  /\ UNCHANGED <<table, account, request, queue, chain, loads, faults>>

Reaches(f, p) == [f EXCEPT ![p] = @ + 1]

\* Mutant of Dequeue: a rejected work ends the chain of promises.
DequeueResolved(r, rejected) ==
  IF rejected THEN queue ELSE [queue EXCEPT ![QueueOf(job[r])] = Tail(@)]

\* currentQueue.then(work, work)
Dequeue(r, rejected) == [queue EXCEPT ![QueueOf(job[r])] = Tail(@)]

SpendMined(r) ==
  /\ pc[r] = "spend" /\ GoTo(r, "record")
  /\ sent' = Reaches(sent, job[r])
  /\ UNCHANGED <<table, account, request, queue, misjudged, loads, faults>>

\* A rejection before the broadcast.
SpendRejected(r) ==
  /\ pc[r] = "spend" /\ GoTo(r, "failed")
  /\ Fault /\ queue' = Dequeue(r, TRUE)
  /\ UNCHANGED <<table, account, request, chain, loads>>

\* A rejection after it: TxTimedOutError, or any other.
SpendUnclear(r, verdict) ==
  /\ pc[r] = "spend" /\ GoTo(r, verdict)
  /\ Fault /\ queue' = Dequeue(r, TRUE)
  /\ sent' = Reaches(sent, job[r])
  /\ UNCHANGED <<table, account, request, misjudged, loads>>

\* isTxOnChain: the middleware knows the transaction ...
JudgeBroadcast(r) ==
  /\ pc[r] = "judge" /\ GoTo(r, "unconfirmed")
  /\ UNCHANGED <<table, account, request, queue, chain, loads, faults>>

\* ... does not know it yet, or does not answer.
JudgeUnsent(r) ==
  /\ pc[r] = "judge" /\ GoTo(r, "failed")
  /\ misjudged' = Reaches(misjudged, job[r])
  /\ UNCHANGED <<table, account, request, queue, sent, loads, faults>>

\* On to the next payout.
Resume(r) ==
  IF job[r] = Onboarding
  THEN GoTo(r, "posts") /\ todo' = [todo EXCEPT ![r] = DueRows(PostRewards)]
  ELSE GoTo(r, IF job[r] \in PostRewards THEN "posts" ELSE "streaks") /\ UNCHANGED todo

RecordPaid(r) ==
  /\ pc[r] = "record" /\ Resume(r)
  /\ status' = [status EXCEPT ![job[r]] = "paid"]
  /\ hash' = [hash EXCEPT ![job[r]] = "real"]
  /\ queue' = Dequeue(r, FALSE)
  /\ UNCHANGED <<due, account, snap, prior, job, scanning, chain, loads, faults>>

RecordPaidFails(r) ==
  /\ pc[r] = "record" /\ GoTo(r, "unconfirmed")
  /\ Fault /\ queue' = Dequeue(r, TRUE)
  /\ UNCHANGED <<table, account, request, chain, loads>>

RecordUnconfirmed(r) ==
  /\ pc[r] = "unconfirmed" /\ Resume(r)
  /\ hash' = [hash EXCEPT ![job[r]] = "real"]
  /\ UNCHANGED <<status, due, account, snap, prior, job, scanning, queue, chain, loads, faults>>

RecordFailed(r) ==
  /\ pc[r] = "failed" /\ Resume(r)
  /\ status' = [status EXCEPT ![job[r]] = "failed"]
  /\ hash' = [hash EXCEPT ![job[r]] = "null"]
  /\ due' = [due EXCEPT ![job[r]] = FALSE]
  /\ UNCHANGED <<account, snap, prior, job, scanning, queue, chain, loads, faults>>

\* The request ends with an error; a scan gives its slot back.
Abort(r) ==
  /\ Fault /\ Finish(r)
  /\ slot' = IF scanning[r] THEN prior[r] ELSE slot
  /\ UNCHANGED <<table, qualified, queue, chain, loads>>

WriteFails(r) == pc[r] \in {"unconfirmed", "failed"} /\ Abort(r)

-----------------------------------------------------------------------------
\* The daily slot and the scan

ClaimDailyScanSlot(r) ==
  /\ pc[r] = "slot" /\ slot' = TRUE
  /\ IF slot THEN Finish(r) ELSE GoTo(r, "scan") /\ UNCHANGED request
  /\ UNCHANGED <<table, qualified, queue, chain, loads, faults>>

\* processAddressWithGuard: a scan in flight is joined; a blocked row is not scanned.
StartScan(r) ==
  /\ pc[r] = "scan"
  /\ IF status[Onboarding] = "blocked" \/ \E s \in Requests : scanning[s]
     THEN Finish(r)
     ELSE /\ GoTo(r, "fetch")
          /\ snap' = [snap EXCEPT ![r] = Row]
          /\ scanning' = [scanning EXCEPT ![r] = TRUE]
          /\ UNCHANGED <<prior, todo, job>>
  /\ UNCHANGED <<table, account, queue, chain, loads, faults>>

\* X does not answer, or the identity is refused: the error is saved.
ScanRefused(r) ==
  /\ pc[r] = "fetch" /\ Finish(r)
  /\ Persist(snap[r])
  /\ UNCHANGED <<queue, chain, loads, faults>>

\* The X identity is another address's: the entity is saved as blocked or, where the
\* unique index refuses it, the status alone is written.
ScanBlocked(r) ==
  /\ pc[r] = "fetch" /\ Finish(r)
  /\ \/ Persist([snap[r] EXCEPT !.status = "blocked"])
     \/ status' = [status EXCEPT ![Onboarding] = "blocked"] /\ UNCHANGED <<hash, due, account>>
  /\ UNCHANGED <<queue, chain, loads, faults>>

\* The transaction of the row, the ledger and the completed streaks.
ScanSaves(r, new, q) ==
  /\ pc[r] = "fetch" /\ GoTo(r, "onboarding")
  /\ LET e == [snap[r] EXCEPT !.qualified = @ \/ q]
     IN /\ snap' = [snap EXCEPT ![r] = e]
        /\ status' = [p \in Payouts |->
                        IF p = Onboarding THEN e.status
                        ELSE IF p \in new /\ status[p] = "absent" THEN "pending" ELSE status[p]]
        /\ hash' = [hash EXCEPT ![Onboarding] = e.hash]
        /\ due' = [due EXCEPT ![Onboarding] = e.due]
        /\ qualified' = e.qualified /\ slot' = e.slot
  /\ UNCHANGED <<prior, todo, job, scanning, queue, chain, loads, faults>>

ScanThrows(r) == pc[r] = "fetch" /\ Abort(r)

-----------------------------------------------------------------------------
\* A restart loses requests and queue; a spend under way may have been broadcast.
Crash(reached) ==
  /\ reached \subseteq {job[r] : r \in {s \in Requests : pc[s] = "spend"}}
  /\ Fault
  /\ sent' = [p \in Payouts |-> IF p \in reached THEN sent[p] + 1 ELSE sent[p]]
  /\ pc' = [r \in Requests |-> "idle"]
  /\ snap' = [r \in Requests |-> NoEntity] /\ prior' = [r \in Requests |-> FALSE]
  /\ todo' = [r \in Requests |-> {}] /\ job' = [r \in Requests |-> Onboarding]
  /\ scanning' = [r \in Requests |-> FALSE]
  /\ queue' = [w \in Wallets |-> <<>>]
  /\ UNCHANGED <<table, account, misjudged, loads>>

RetryElapses(p) ==
  /\ ~due[p] /\ due' = [due EXCEPT ![p] = TRUE]
  /\ snap' = IF p = Onboarding THEN [r \in Requests |-> [snap[r] EXCEPT !.due = TRUE]] ELSE snap
  /\ UNCHANGED <<status, hash, account, pc, prior, todo, job, scanning, queue, chain, loads, faults>>

\* No request lasts as long as the window.
WindowElapses ==
  /\ slot /\ \A r \in Requests : pc[r] = "idle"
  /\ slot' = FALSE
  /\ UNCHANGED <<table, qualified, pc, request, queue, chain, loads, faults>>

Progress(r) ==
  \/ SaveCandidate(r) \/ SaveRelink(r)
  \/ \E seen \in SUBSET Payouts : ReconcileConfirmationPending(r, seen)
  \/ ClaimOnboarding(r) \/ SkipOnboarding(r)
  \/ \E p \in Rewards : ClaimRow(r, p) \/ SkipRow(r, p)
  \/ PostsDone(r) \/ StreaksDone(r)
  \/ StartSpend(r) \/ SpendMined(r) \/ JudgeBroadcast(r) \/ JudgeUnsent(r)
  \/ RecordPaid(r) \/ RecordUnconfirmed(r) \/ RecordFailed(r)
  \/ ClaimDailyScanSlot(r) \/ StartScan(r) \/ ScanRefused(r) \/ ScanBlocked(r)
  \/ \E new \in SUBSET Rewards, q \in BOOLEAN : ScanSaves(r, new, q)

Failure(r) ==
  \/ SpendRejected(r) \/ \E verdict \in {"unconfirmed", "judge"} : SpendUnclear(r, verdict)
  \/ RecordPaidFails(r) \/ WriteFails(r) \/ ScanThrows(r)

Next ==
  \/ \E r \in Requests : (\E next \in {"save", "relink"} : Load(r, next)) \/ Progress(r) \/ Failure(r)
  \/ \E reached \in SUBSET Payouts : Crash(reached)
  \/ \E p \in Payouts : RetryElapses(p)
  \/ WindowElapses

Spec == Init /\ [][Next]_vars

-----------------------------------------------------------------------------
\* The rewards as IdealPayouts sees them.
BookState(p) ==
  IF status[p] = "absent" THEN "absent"
  ELSE IF status[p] = "paid" THEN "paid"
  ELSE IF sent[p] > misjudged[p] THEN "broadcast"
  ELSE IF hash[p] = "claimed" THEN "claimed" ELSE "open"

Ideal == INSTANCE IdealPayouts WITH
           state <- [p \in Rewards |-> BookState(p)],
           sent <- [p \in Rewards |-> sent[p]],
           misjudged <- [p \in Rewards |-> misjudged[p]]

\* A per-post or streak reward is claimed, broadcast once and settled, through
\* crashes, failed writes and overlapping requests; a second broadcast takes a
\* send that isTxOnChain misjudged: "never re-sent" (resolveBroadcastedTxHash).
PayoutsAsPromised == Ideal!Spec

\* Two spends of one account are never under way at once (they would collide on
\* the nonce), even where two of the configured keys are one wallet.
OneSpendPerWallet ==
  \A r, s \in Requests :
    r # s /\ pc[r] \in {"spend", "record"} /\ pc[s] \in {"spend", "record"}
      => WalletOf(job[r]) # WalletOf(job[s])

\* The onboarding reward, whose row is saved as an entity, is sent once, and once
\* more for each send that was misjudged: "The DB-atomic claim/orIgnore guards
\* still prevent double-PAYING" (ProfileSpendQueueService).
OnboardingPaidOnce == sent[Onboarding] <= 1 + misjudged[Onboarding]

\* A failed spend does not hold up those queued behind it: whoever is queued is in
\* the queue of its wallet, whose head is at work or may start.
QueuesMove ==
  /\ \A w \in Wallets : queue[w] # <<>> => pc[Head(queue[w])] \in {"queued", "spend", "record"}
  /\ \A r \in Requests : pc[r] = "queued" => \E i \in DOMAIN queue[WalletOf(job[r])] :
                                                queue[WalletOf(job[r])][i] = r
=============================================================================
