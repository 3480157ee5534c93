---------------------------- MODULE ChainNameClaim ----------------------------
(***************************************************************************)
(* Sponsored .chain names: ProfileChainNameService.  A request writes the   *)
(* claim of its address; a worker of that address, at most one in the       *)
(* process (processClaimWithGuard), takes it from pending over preclaimed   *)
(* and claimed to completed, each step a transaction of the sponsor's       *)
(* wallet, whose spends run one after another.                              *)
(*                                                                          *)
(* A salt is known by the name it was made for; the age of a preclaim is    *)
(* "new" in its own block, "ripe", or "old" past MAX_PRECLAIM_AGE_BLOCKS.   *)
(***************************************************************************)
EXTENDS Naturals, Sequences

CONSTANTS
  Addresses, Names,
  Requests,    \* requests under way at once
  MaxRetries,  \* PROFILE_CHAIN_NAME_MAX_RETRIES
  MaxRequests, \* bound on accepted claims and kicks
  MaxFaults    \* bound on failures, lost answers, expired preclaims and names taken by strangers

ASSUME BoundAssumption == MaxRetries \in Nat \ {0} /\ MaxRequests \in Nat /\ MaxFaults \in Nat

VARIABLES
  \* the claims table, of each address
  status,   \* "none": no row
  name,
  salt,
  retries,
  due,      \* next_retry_at is null or past
  \* the chain
  owner,    \* of a name
  age,      \* of the preclaim of an address
  \* the process
  pc,       \* of the worker of an address
  read,     \* what the worker has read: the row's name, and its salt
  queue,    \* the spend queue of the sponsor's wallet
  asks,     \* the requests: the await each stands at, and what it has read
  requests, faults

Nobody == "nobody"
Sponsor == "sponsor"
Stranger == "stranger"
NoSalt == "no salt"
NoRequest == [address |-> Nobody]

\* An address is an ak_..., a salt a number; a claim is of some name.
ASSUME NameAssumption ==
  Names # {} /\ NoSalt \notin Names /\ Addresses \cap {Nobody, Sponsor, Stranger} = {}

table == <<status, name, salt, retries, due>>
onChain == <<owner, age>>
bounds == <<requests, faults>>
vars == <<table, onChain, pc, read, queue, asks, bounds>>

Live == {"pending", "preclaimed", "claimed"}
PCs == {"idle", "funds preclaim", "funds claim", "funds update", "preclaim", "preclaimed", "claim", "owned",
        "given", "expired", "early", "claiming", "claimed", "update", "updating", "updated", "transferred", "retry"}

Asks == [next : {"name", "chain", "save"}, address : Addresses, name : Names,
         other : Addresses \cup {Nobody}, mine : BOOLEAN]

TypeOK ==
  /\ status \in [Addresses -> Live \cup {"none", "completed", "failed"}]
  /\ name \in [Addresses -> Names]
  /\ salt \in [Addresses -> Names \cup {NoSalt}]
  /\ retries \in [Addresses -> 0..MaxRetries]
  /\ due \in [Addresses -> BOOLEAN]
  /\ owner \in [Names -> Addresses \cup {Nobody, Sponsor, Stranger}]
  /\ age \in [Addresses -> {"new", "ripe", "old"}]
  /\ pc \in [Addresses -> PCs]
  /\ read \in [Addresses -> [name : Names, salt : Names \cup {NoSalt}]]
  /\ queue \in Seq(Addresses)
  /\ asks \in [Requests -> Asks \cup {NoRequest}]
  /\ requests \in 0..MaxRequests /\ faults \in 0..MaxFaults

AName == CHOOSE n \in Names : TRUE
Unread == [name |-> AName, salt |-> NoSalt]

\* The claim of F, if any, failed before the process started.
Init ==
  \E F \in {{}} \cup {{a} : a \in Addresses} :
  /\ status = [a \in Addresses |-> IF a \in F THEN "failed" ELSE "none"]
  /\ name = [a \in Addresses |-> AName]
  /\ salt = [a \in Addresses |-> NoSalt]
  /\ retries = [a \in Addresses |-> IF a \in F THEN MaxRetries ELSE 0]
  /\ due = [a \in Addresses |-> FALSE]
  /\ owner = [n \in Names |-> Nobody]
  /\ age = [a \in Addresses |-> "new"]
  /\ pc = [a \in Addresses |-> "idle"]
  /\ read = [a \in Addresses |-> Unread]
  /\ queue = <<>>
  /\ asks = [q \in Requests |-> NoRequest]
  /\ requests = 0 /\ faults = 0

Fault == faults < MaxFaults /\ faults' = faults + 1
GoTo(a, p) == pc' = [pc EXCEPT ![a] = p]
Holders(n) == {a \in Addresses : status[a] # "none" /\ name[a] = n}

-----------------------------------------------------------------------------
\* requestChainName

\* The row of the address: a claim that is under way is only kicked (see Kick), a
\* completed one refused.
ReadClaim(q, a, n) ==
  /\ asks[q] = NoRequest /\ requests < MaxRequests /\ requests' = requests + 1
  /\ status[a] \in {"none", "failed"}
  /\ asks' = [asks EXCEPT ![q] =
       [next |-> "name", address |-> a, name |-> n, other |-> Nobody,
        mine |-> status[a] = "failed" /\ name[a] = n]]
  /\ UNCHANGED <<table, onChain, pc, read, queue, faults>>

At(q, s) == asks[q] # NoRequest /\ asks[q].next = s
Drop(q) == asks' = [asks EXCEPT ![q] = NoRequest]
Others(q) == Holders(asks[q].name) \ {asks[q].address}

\* The row with the name must be nobody's, or that of a failed claim ...
ReadName(q) ==
  /\ At(q, "name")
  /\ IF \E b \in Others(q) : status[b] # "failed" THEN Drop(q)
     ELSE asks' = [asks EXCEPT ![q].next = "chain",
                               ![q].other = IF Others(q) = {} THEN Nobody ELSE CHOOSE b \in Others(q) : TRUE]
  /\ UNCHANGED <<table, onChain, pc, read, queue, bounds>>

\* ... and the name free on the chain, or left by this very claim with the sponsor
\* or the address.
ReadOwner(q) ==
  /\ At(q, "chain")
  /\ LET o == owner[asks[q].name]
     IN IF o \in {Nobody} \cup (IF asks[q].mine THEN {Sponsor, asks[q].address} ELSE {})
        THEN asks' = [asks EXCEPT ![q].next = "save"]
        ELSE Drop(q)
  /\ UNCHANGED <<table, onChain, pc, read, queue, bounds>>

\* Mutant of Deleted: the delete of the row it saw as failed is not conditional.
DeletedAny(q) == {b \in Addresses : b = asks[q].other}

Deleted(q) == {b \in Addresses : b = asks[q].other /\ status[b] = "failed" /\ name[b] = asks[q].name}

\* The transaction; the index on the name may refuse it.
Save(q) ==
  /\ At(q, "save")
  /\ LET a == asks[q].address
         n == asks[q].name
     IN IF Holders(n) \ (Deleted(q) \cup {a}) = {}
        THEN /\ status' = [b \in Addresses |-> IF b = a THEN "pending"
                                               ELSE IF b \in Deleted(q) THEN "none" ELSE status[b]]
             /\ name' = [name EXCEPT ![a] = n]
             /\ salt' = [salt EXCEPT ![a] = NoSalt]
             /\ retries' = [retries EXCEPT ![a] = 0]
             /\ due' = [due EXCEPT ![a] = TRUE]
        ELSE UNCHANGED table
  /\ Drop(q)
  /\ UNCHANGED <<onChain, pc, read, queue, bounds>>

-----------------------------------------------------------------------------
\* processClaimInternal

FundsOf == [pending |-> "funds preclaim", preclaimed |-> "funds claim", claimed |-> "funds update"]

Begin(a) ==
  /\ pc[a] = "idle" /\ status[a] \in Live
  /\ GoTo(a, FundsOf[status[a]])
  /\ UNCHANGED <<table, onChain, read, queue, asks>>

\* Mutant of Retryable: a claim that waits for the block after its preclaim is left out.
RetryableExceptPreclaimed == {"pending", "claimed"}

\* RETRYABLE_STATUSES
Retryable == {"pending", "preclaimed", "claimed"}

\* processDueClaims, and the kick after a Save.
StartDue(a) == due[a] /\ status[a] \in Retryable /\ Begin(a) /\ UNCHANGED bounds

\* A request for the name that is under way.
Kick(a) ==
  /\ ~due[a] /\ Begin(a)
  /\ requests < MaxRequests /\ requests' = requests + 1
  /\ UNCHANGED faults

\* A request that finds no name, no height, no funds, or whose transaction fails.
Fails(a) ==
  /\ pc[a] \in {"funds preclaim", "funds claim", "funds update", "claim", "update"}
  /\ Fault /\ GoTo(a, "retry")
  /\ UNCHANGED <<table, onChain, read, queue, asks, requests>>

Enqueue(a) == queue' = Append(queue, a)
Running(a) == queue # <<>> /\ Head(queue) = a

\* Funds are there: on to stepPreclaim, whose work waits for its turn ...
FundedPreclaim(a) ==
  /\ pc[a] = "funds preclaim" /\ GoTo(a, "preclaim") /\ Enqueue(a)
  /\ UNCHANGED <<table, onChain, read, asks, bounds>>

\* ... to stepClaim, which reads the row ...
FundedClaim(a) ==
  /\ pc[a] = "funds claim"
  /\ IF status[a] = "preclaimed" /\ salt[a] # NoSalt
     THEN GoTo(a, "claim") /\ read' = [read EXCEPT ![a] = [name |-> name[a], salt |-> salt[a]]]
     ELSE GoTo(a, "idle") /\ UNCHANGED read
  /\ UNCHANGED <<table, onChain, queue, asks, bounds>>

\* ... or to stepUpdatePointer.
FundedUpdate(a) ==
  /\ pc[a] = "funds update"
  /\ IF status[a] = "claimed"
     THEN GoTo(a, "update") /\ read' = [read EXCEPT ![a] = [name |-> name[a], salt |-> NoSalt]]
     ELSE GoTo(a, "idle") /\ UNCHANGED read
  /\ UNCHANGED <<table, onChain, queue, asks, bounds>>

\* Mutant of Still: the row is written whatever its status.
StillAny(a, s) == TRUE

\* What withLockedClaim finds before it writes.
Still(a, s) == status[a] = s

\* A locked write: to status s, next_retry_at past if d.
Write(a, from, s, d) ==
  /\ IF Still(a, from)
     THEN status' = [status EXCEPT ![a] = s] /\ due' = [due EXCEPT ![a] = d]
     ELSE UNCHANGED <<status, due>>

\* The worker is done, its work popped from the queue.
Done(a) == GoTo(a, "idle") /\ read' = [read EXCEPT ![a] = Unread]

-----------------------------------------------------------------------------
\* stepPreclaim

SubmitPreclaim(a) ==
  /\ pc[a] = "preclaim" /\ Running(a)
  /\ IF status[a] = "pending"
     THEN /\ GoTo(a, "preclaimed") /\ UNCHANGED queue
          /\ read' = [read EXCEPT ![a] = [name |-> name[a], salt |-> name[a]]]
     ELSE Done(a) /\ queue' = Tail(queue)
  /\ UNCHANGED <<table, onChain, asks, bounds>>

RecordPreclaim(a) ==
  /\ pc[a] = "preclaimed" /\ Done(a) /\ queue' = Tail(queue)
  /\ Write(a, "pending", "preclaimed", FALSE)
  /\ IF Still(a, "pending")
     THEN salt' = [salt EXCEPT ![a] = read[a].salt] /\ age' = [age EXCEPT ![a] = "new"]
     ELSE UNCHANGED <<salt, age>>
  /\ UNCHANGED <<name, retries, owner, asks, bounds>>

-----------------------------------------------------------------------------
\* stepClaim

\* What the owner and the height tell it to do.
ClaimBranch(a) ==
  CASE owner[read[a].name] = Sponsor -> "owned"
    [] owner[read[a].name] = a -> "given"
    [] owner[read[a].name] \notin {Sponsor, a} /\ age[a] = "old" -> "expired"
    [] owner[read[a].name] \notin {Sponsor, a} /\ age[a] = "new" -> "early"
    [] owner[read[a].name] \notin {Sponsor, a} /\ age[a] = "ripe" -> "claiming"

LookUpName(a) ==
  /\ pc[a] = "claim" /\ GoTo(a, ClaimBranch(a))
  /\ IF ClaimBranch(a) = "claiming" THEN Enqueue(a) ELSE UNCHANGED queue
  /\ UNCHANGED <<table, onChain, read, asks, bounds>>

RecordOwned(a) ==
  /\ pc[a] = "owned" /\ Done(a)
  /\ Write(a, "preclaimed", "claimed", TRUE)
  /\ UNCHANGED <<name, salt, retries, onChain, queue, asks, bounds>>

RecordGiven(a) ==
  /\ pc[a] = "given" /\ Done(a)
  /\ Write(a, "preclaimed", "completed", FALSE)
  /\ UNCHANGED <<name, salt, retries, onChain, queue, asks, bounds>>

ResetExpired(a) ==
  /\ pc[a] = "expired" /\ Done(a)
  /\ Write(a, "preclaimed", "pending", TRUE)
  /\ IF Still(a, "preclaimed")
     THEN salt' = [salt EXCEPT ![a] = NoSalt] /\ retries' = [retries EXCEPT ![a] = 0]
     ELSE UNCHANGED <<salt, retries>>
  /\ UNCHANGED <<name, onChain, queue, asks, bounds>>

WaitForBlock(a) ==
  /\ pc[a] = "early" /\ Done(a)
  /\ due' = [due EXCEPT ![a] = FALSE]
  /\ UNCHANGED <<status, name, salt, retries, onChain, queue, asks, bounds>>

\* The node takes the claim of a name that is free and was preclaimed with this salt,
\* in an earlier block.
Claimable(a) == salt[a] = name[a] /\ owner[name[a]] = Nobody

\* The work: the row is read again.
SubmitClaim(a) ==
  /\ pc[a] = "claiming" /\ Running(a)
  /\ IF status[a] = "preclaimed" /\ salt[a] # NoSalt
     THEN IF Claimable(a)
          THEN /\ GoTo(a, "claimed") /\ owner' = [owner EXCEPT ![name[a]] = Sponsor]
               /\ UNCHANGED <<read, queue>>
          ELSE GoTo(a, "retry") /\ queue' = Tail(queue) /\ UNCHANGED <<read, owner>>
     ELSE Done(a) /\ queue' = Tail(queue) /\ UNCHANGED owner
  /\ UNCHANGED <<table, age, asks, bounds>>

RecordClaim(a) ==
  /\ pc[a] = "claimed" /\ Done(a) /\ queue' = Tail(queue)
  /\ Write(a, "preclaimed", "claimed", TRUE)
  /\ UNCHANGED <<name, salt, retries, onChain, asks, bounds>>

-----------------------------------------------------------------------------
\* stepUpdatePointer

LookUpClaimed(a) ==
  /\ pc[a] = "update"
  /\ LET o == owner[read[a].name]
     IN /\ GoTo(a, IF o = a THEN "updated" ELSE IF o \in {Sponsor, Nobody} THEN "updating" ELSE "retry")
        /\ IF o \in {Sponsor, Nobody} THEN Enqueue(a) ELSE UNCHANGED queue
  /\ UNCHANGED <<table, onChain, read, asks, bounds>>

\* The pointer, and the transfer, which the node takes from the owner.
SubmitTransfer(a) ==
  /\ pc[a] = "updating" /\ Running(a)
  /\ IF status[a] = "claimed"
     THEN IF owner[name[a]] = Sponsor
          THEN /\ GoTo(a, "transferred") /\ owner' = [owner EXCEPT ![name[a]] = a]
               /\ UNCHANGED <<read, queue>>
          ELSE GoTo(a, "retry") /\ queue' = Tail(queue) /\ UNCHANGED <<read, owner>>
     ELSE Done(a) /\ queue' = Tail(queue) /\ UNCHANGED owner
  /\ UNCHANGED <<table, age, asks, bounds>>

RecordTransfer(a) ==
  /\ pc[a] \in {"updated", "transferred"} /\ Done(a)
  /\ Write(a, "claimed", "completed", FALSE)
  /\ queue' = IF pc[a] = "transferred" THEN Tail(queue) ELSE queue
  /\ UNCHANGED <<name, salt, retries, onChain, asks, bounds>>

-----------------------------------------------------------------------------
\* Failures

\* A transaction whose answer is lost has reached the chain or not.
Landed(a) ==
  CASE pc[a] = "claiming" /\ status[a] = "preclaimed" /\ Claimable(a) -> Sponsor
    [] pc[a] = "updating" /\ status[a] = "claimed" /\ owner[name[a]] = Sponsor -> a
    [] OTHER -> owner[name[a]]

LoseAnswer(a) ==
  /\ pc[a] \in {"preclaim", "claiming", "updating"} /\ Running(a)
  /\ Fault /\ GoTo(a, "retry") /\ queue' = Tail(queue)
  /\ \E o \in {Landed(a), owner[name[a]]} : owner' = [owner EXCEPT ![name[a]] = o]
  /\ UNCHANGED <<table, age, read, asks, requests>>

\* Mutant of Exhausted: one retry more.
ExhaustedLate(k) == k > MaxRetries

Exhausted(k) == k >= MaxRetries

MarkRetry(a) ==
  /\ pc[a] = "retry" /\ Done(a)
  /\ IF status[a] \in Live
     THEN /\ retries' = [retries EXCEPT ![a] = @ + 1]
          /\ due' = [due EXCEPT ![a] = FALSE]
          /\ status' = [status EXCEPT ![a] = IF Exhausted(retries[a] + 1) THEN "failed" ELSE @]
     ELSE UNCHANGED <<retries, due, status>>
  /\ UNCHANGED <<name, salt, onChain, queue, asks, bounds>>

\* The process goes down, with its workers, its queue and its requests.
Crash ==
  /\ Fault
  /\ pc' = [a \in Addresses |-> "idle"] /\ read' = [a \in Addresses |-> Unread]
  /\ queue' = <<>> /\ asks' = [q \in Requests |-> NoRequest]
  /\ UNCHANGED <<table, onChain, requests>>

-----------------------------------------------------------------------------
\* The world

StrangerTakes(n) ==
  /\ owner[n] = Nobody /\ Fault /\ owner' = [owner EXCEPT ![n] = Stranger]
  /\ UNCHANGED <<table, age, pc, read, queue, asks, requests>>

NextBlock(a) ==
  /\ status[a] = "preclaimed" /\ age[a] = "new" /\ age' = [age EXCEPT ![a] = "ripe"]
  /\ UNCHANGED <<table, owner, pc, read, queue, asks, bounds>>

PreclaimExpires(a) ==
  /\ age[a] = "ripe" /\ status[a] = "preclaimed" /\ Fault /\ age' = [age EXCEPT ![a] = "old"]
  /\ UNCHANGED <<table, owner, pc, read, queue, asks, requests>>

RetryElapses(a) ==
  /\ ~due[a] /\ status[a] \in Live /\ due' = [due EXCEPT ![a] = TRUE]
  /\ UNCHANGED <<status, name, salt, retries, onChain, pc, read, queue, asks, bounds>>

-----------------------------------------------------------------------------
Work(a) ==
  \/ FundedPreclaim(a) \/ FundedClaim(a) \/ FundedUpdate(a)
  \/ SubmitPreclaim(a) \/ RecordPreclaim(a)
  \/ LookUpName(a) \/ RecordOwned(a) \/ RecordGiven(a) \/ ResetExpired(a) \/ WaitForBlock(a)
  \/ SubmitClaim(a) \/ RecordClaim(a)
  \/ LookUpClaimed(a) \/ SubmitTransfer(a) \/ RecordTransfer(a)
  \/ MarkRetry(a)

Next ==
  \/ \E q \in Requests :
       ReadName(q) \/ ReadOwner(q) \/ Save(q) \/ \E a \in Addresses, n \in Names : ReadClaim(q, a, n)
  \/ \E a \in Addresses :
       \/ StartDue(a) \/ Kick(a) \/ Work(a) \/ Fails(a) \/ LoseAnswer(a)
       \/ NextBlock(a) \/ PreclaimExpires(a) \/ RetryElapses(a)
  \/ \E n \in Names : StrangerTakes(n)
  \/ Crash

\* The calls of a worker return, the cron comes round, retry delays elapse and
\* keyblocks are mined.
Progress(a) == Work(a) \/ StartDue(a) \/ RetryElapses(a)
Fairness == \A a \in Addresses : WF_vars(Progress(a)) /\ WF_vars(NextBlock(a))

Spec == Init /\ [][Next]_vars /\ Fairness

-----------------------------------------------------------------------------
\* A claim becomes claimed only when its name is the sponsor's, completed only when
\* its name is the address's, whatever request rewrote the row while the worker was
\* at the chain: the status under lock in stepClaim and stepUpdatePointer.
StatusFollowsChain ==
  [][\A a \in Addresses : status'[a] # status[a] =>
       /\ status'[a] = "claimed" => owner'[name'[a]] = Sponsor
       /\ status'[a] = "completed" => owner'[name'[a]] = a]_vars

\* A request that replaces another address's failed claim never removes one that was
\* taken up again since it looked: the conditional delete of requestChainName.
LiveClaimKept ==
  [][\A a \in Addresses : status[a] \in Live \cup {"completed"} => status'[a] # "none"]_vars

\* A claim ends, whatever fails, expires, is lost or restarts meanwhile.
EveryClaimEnds ==
  \A a \in Addresses : status[a] \in Live ~> status[a] \in {"completed", "failed"}
=============================================================================
