----------------------------- MODULE RoomCreation -----------------------------
(***************************************************************************)
(* How one token gets its group on the relay and keeps it.  A change of its *)
(* community_room row, the provisioning cron and a buy emit                 *)
(* tgr.community.upserted; RoomBackfillService answers with the jobs 9007   *)
(* and 9002 and moves nostr_room_state by their acks, MembershipSyncService *)
(* answers the deletion of a community with a 9008; GroupMissingTracker     *)
(* debounces the re-creation of a lost group, and RoomRecheckService heals  *)
(* a token that is behind the relay.                                        *)
(*                                                                          *)
(* Two writers of the token from elsewhere do not ask the room's machine: a *)
(* re-index or schema synchronize resets nostr_room_state to its default,   *)
(* and createTokenFromRawTransaction writes back the whole row it has read. *)
(*                                                                          *)
(* The queue is a bag: two slots and the retries reorder it (PublishQueue   *)
(* is the queue itself).  What RoomStateService writes to the row is left   *)
(* to the chain and its readers: here the row becomes deleted or comes      *)
(* back.  An action is the code between two awaits, except that the two     *)
(* jobs of a request are added in one step, or fail in one.                 *)
(* Its names are its own (CreationInit, CreationNext, ...), so that one     *)
(* proof module can extend PublishQueue and this module.                    *)
(***************************************************************************)
EXTENDS Naturals

CONSTANTS
  Requests,    \* requestRoom calls that can be under way
  Handlers,    \* onPublishAck calls that can be under way
  MaxJobs,     \* bound on the waiting jobs of one kind
  Budgets      \* what may happen in a behaviour, see Budget

(* The calls that are made; the changes of the worth gate and of the        *)
(* community_room row; the failed adds, given-up jobs and crashes; the lost *)
(* groups; the resets and the rows written back.                            *)
Costs == {"changes", "failures", "losses", "rewrites"}

Budget == [requests : SUBSET Requests, handlers : SUBSET Handlers, cost : [Costs -> Nat]]

ASSUME CreationBounds == MaxJobs \in Nat /\ Budgets \subseteq Budget

VARIABLES
  worth,    \* market_cap > 0 and holders_count >= 2
  deleted,  \* community_room.deleted
  \* the database, the queue, the relay
  state,    \* tokens.nostr_room_state; "deleted" is never written
  room_id,  \* tokens.room_id, has_nostr_room: the room is confirmed
  jobs,     \* waiting publish-nip29 jobs of each kind
  relay,    \* the group: "absent", "present", "deleted", "lost"
  \* the process
  request,  \* of every requestRoom: "idle", "called", the state it saw, "enqueue", "heal"
  handler,  \* the locals of every onPublishAck
  missing,  \* GroupMissingTracker
  recreate, \* recreateRoomGroup is under way
  notice,   \* MembershipSyncService.onCommunityUpserted is to read the row
  copies,   \* rows that createTokenFromRawTransaction has read and is to write back
  budget    \* what is left of the bounds of this behaviour

facts == <<worth, deleted>>
token == <<state, room_id>>
tracker == <<missing, recreate>>
creationVars == <<facts, token, jobs, relay, request, handler, tracker, notice, copies, budget>>

Kinds == {"create", "edit", "delete"}
States == {"none", "pending", "created", "failed"}
Rows == [state : States, room_id : BOOLEAN]

IdleHandler == [pc |-> "idle", kind |-> "create", ok |-> FALSE, seen |-> "none"]

CreationTypeOK ==
  /\ worth \in BOOLEAN /\ deleted \in BOOLEAN
  /\ state \in States /\ room_id \in BOOLEAN
  /\ jobs \in [Kinds -> 0..MaxJobs]
  /\ relay \in {"absent", "present", "deleted", "lost"}
  /\ request \in [Requests -> {"idle", "called", "none", "pending", "failed", "enqueue", "heal"}]
  /\ handler \in [Handlers -> [pc : {"idle", "read", "write"}, kind : {"create", "edit"},
                               ok : BOOLEAN, seen : States]]
  /\ missing \in BOOLEAN /\ recreate \in BOOLEAN /\ notice \in BOOLEAN
  /\ copies \subseteq Rows /\ budget \in Budget

\* Nothing of a process survives it.
FreshProcess ==
  /\ request' = [q \in Requests |-> "idle"]
  /\ handler' = [h \in Handlers |-> IdleHandler]
  /\ missing' = FALSE /\ recreate' = FALSE /\ notice' = FALSE
  /\ copies' = {}

\* A token that has just been indexed.
CreationInit ==
  /\ worth \in BOOLEAN /\ deleted = FALSE
  /\ state = "none" /\ room_id = FALSE
  /\ jobs = [k \in Kinds |-> 0] /\ relay = "absent"
  /\ request = [q \in Requests |-> "idle"]
  /\ handler = [h \in Handlers |-> IdleHandler]
  /\ missing = FALSE /\ recreate = FALSE /\ notice = FALSE
  /\ copies = {} /\ budget \in Budgets

Spend(c) == budget.cost[c] > 0 /\ budget' = [budget EXCEPT !.cost[c] = @ - 1]
Failure == Spend("failures")
Fit(K) == \A k \in K : jobs[k] < MaxJobs
Add(K) == Fit(K) /\ jobs' = [k \in Kinds |-> IF k \in K THEN jobs[k] + 1 ELSE jobs[k]]

-----------------------------------------------------------------------------
\* tgr.community.upserted

\* Both of its listeners start.
Upserted(q) ==
  /\ request[q] = "idle" /\ q \in budget.requests
  /\ request' = [request EXCEPT ![q] = "called"] /\ notice' = TRUE

\* Mutant of Provisioned: the event of a change of the row is enough.
ProvisionedByChange(q) == UNCHANGED <<request, notice>>

\* The cron and a buy force the event when the row has not changed.
Provisioned(q) == Upserted(q)

\* provisionRoomlessTokens, every five minutes
Provision(q) ==
  /\ ~room_id /\ worth /\ Provisioned(q)
  /\ UNCHANGED <<facts, token, jobs, relay, handler, tracker, copies, budget>>

\* onBalanceChanged, worth it or not
Buy(q) ==
  /\ ~room_id /\ Provisioned(q)
  /\ UNCHANGED <<facts, token, jobs, relay, handler, tracker, copies, budget>>

\* A community is taken for deleted, or one that was is read again.
UpsertRow(q) ==
  /\ Spend("changes") /\ deleted' = ~deleted /\ Upserted(q)
  /\ UNCHANGED <<worth, token, jobs, relay, handler, tracker, copies>>

\* MembershipSyncService.onCommunityUpserted, handleDeletedRoom
Notice ==
  /\ notice /\ notice' = FALSE
  /\ IF deleted THEN Add({"delete"}) ELSE UNCHANGED jobs
  /\ UNCHANGED <<facts, token, relay, request, handler, tracker, copies, budget>>

-----------------------------------------------------------------------------
\* requestRoom, recheck

\* Mutant of Transition: an update by key only.
TransitionAlways(from, to) == state' = to /\ room_id' = (room_id \/ to = "created")

\* UPDATE ... WHERE nostr_room_state = from; a confirmed room has its room_id.
Transition(from, to) ==
  IF state = from
  THEN state' = to /\ room_id' = (room_id \/ to = "created")
  ELSE UNCHANGED token

Goes(q, p) == request' = [request EXCEPT ![q] = p]

\* Mutant of Due: a created room is requested like any other.
DueAgain(s) == TRUE

\* "Terminal / done: never re-enqueue."
Due(s) == s # "created"

\* onCommunityUpserted reads the token; so do a page of the backfill, for a token worth
\* it, and the sweep of the stale and a recheck, for one that has no room_id.
ReadToken(q) ==
  /\ \/ request[q] = "called"
     \/ request[q] = "idle" /\ q \in budget.requests /\ Due(state) /\ (worth \/ ~room_id)
  /\ Goes(q, IF Due(state) THEN state ELSE "idle")
  /\ UNCHANGED <<facts, token, jobs, relay, handler, tracker, notice, copies, budget>>

\* The transition to pending, or none for a room that is.
RequestRoom(q) ==
  /\ request[q] \in {"none", "pending", "failed"} /\ Goes(q, "enqueue")
  /\ IF request[q] = "pending" THEN UNCHANGED token ELSE Transition(request[q], "pending")
  /\ UNCHANGED <<facts, jobs, relay, handler, tracker, notice, copies, budget>>

EnqueueRoom(q) ==
  /\ request[q] = "enqueue" /\ Goes(q, "idle") /\ Add({"create", "edit"})
  /\ UNCHANGED <<facts, token, relay, handler, tracker, notice, copies, budget>>

\* Redis fails before the first job or before the second.
EnqueueFails(q, K) ==
  /\ request[q] = "enqueue" /\ Goes(q, "idle") /\ Add(K) /\ Failure
  /\ UNCHANGED <<facts, token, relay, handler, tracker, notice, copies>>

\* roomConfirmedCreated: either mark does, as the column of the state may be reset.
Confirmed == state = "created" \/ room_id

\* reconcileAgainstRelay finds the members of a group that the token does not know of.
RecheckSees(q) ==
  /\ request[q] = "idle" /\ q \in budget.requests
  /\ relay = "present" /\ ~Confirmed /\ Goes(q, "heal")
  /\ UNCHANGED <<facts, token, jobs, relay, handler, tracker, notice, copies, budget>>

RecheckHeals(q) ==
  /\ request[q] = "heal" /\ Goes(q, "idle")
  /\ state' = "created" /\ room_id' = TRUE
  /\ UNCHANGED <<facts, jobs, relay, handler, tracker, notice, copies, budget>>

-----------------------------------------------------------------------------
\* The jobs on the relay, onGroupMissing

TakeJob(k) == jobs[k] > 0 /\ jobs' = [jobs EXCEPT ![k] = @ - 1]

\* tgr.publish.ack reaches onPublishAck.
Acked(h, k, ok) ==
  /\ handler[h] = IdleHandler /\ h \in budget.handlers
  /\ handler' = [handler EXCEPT ![h] = [pc |-> "read", kind |-> k, ok |-> ok, seen |-> "none"]]

\* "Group not found" for what is not a removal: the first asks for the group again.
GroupMissing == missing' = TRUE /\ recreate' = (recreate \/ ~missing)

PublishCreate(h) ==
  /\ TakeJob("create") /\ Acked(h, "create", relay # "deleted")
  /\ relay' = IF relay = "deleted" THEN relay ELSE "present"
  /\ UNCHANGED <<facts, token, request, tracker, notice, copies, budget>>

\* The ack of an edit that succeeds moves nothing.
PublishEdit(h) ==
  /\ TakeJob("edit")
  /\ IF relay = "present" THEN UNCHANGED handler ELSE Acked(h, "edit", FALSE)
  /\ IF relay \in {"absent", "lost"} THEN GroupMissing ELSE UNCHANGED tracker
  /\ UNCHANGED <<facts, token, relay, request, notice, copies, budget>>

PublishDelete ==
  /\ TakeJob("delete")
  /\ relay' = IF relay = "present" THEN "deleted" ELSE relay
  /\ UNCHANGED <<facts, token, request, handler, tracker, notice, copies, budget>>

\* A job is given up after its attempts, one of which may have reached the relay; a
\* last attempt that meets no relay is not even acked.
GiveUp(h, k, reached, acked) ==
  /\ TakeJob(k) /\ Failure
  /\ relay' = IF reached /\ k = "create" /\ relay # "deleted" THEN "present" ELSE relay
  /\ IF acked /\ k # "delete" THEN Acked(h, k, FALSE) ELSE UNCHANGED handler
  /\ UNCHANGED <<facts, token, request, tracker, notice, copies>>

\* The 9000 of a member or an admin meets no group; scans and reconciliation repeat it,
\* but for a group that is known to be missing.
PublishMember ==
  /\ relay \in {"absent", "lost"} /\ (state # "none" \/ room_id) /\ ~missing
  /\ GroupMissing
  /\ UNCHANGED <<facts, token, jobs, relay, request, handler, notice, copies, budget>>

\* recreateRoomGroup
RecreateRoomGroup ==
  /\ recreate /\ recreate' = FALSE
  /\ IF worth /\ ~deleted THEN Add({"create", "edit"}) ELSE UNCHANGED jobs
  /\ UNCHANGED <<facts, token, relay, request, handler, missing, notice, copies, budget>>

\* It fails, before or between its jobs: the mark is cleared for the next try.
RecreateFails(K) ==
  /\ recreate /\ recreate' = FALSE /\ missing' = FALSE /\ Add(K) /\ Failure
  /\ UNCHANGED <<facts, token, relay, request, handler, notice, copies>>

\* Mutant of Expired: a mark without an expiry.
ExpiredNever == FALSE

\* isMissing, ten minutes after markMissing
Expired == missing

Expire ==
  /\ Expired /\ missing' = FALSE
  /\ UNCHANGED <<facts, token, jobs, relay, request, handler, recreate, notice, copies, budget>>

-----------------------------------------------------------------------------
\* onPublishAck

\* Mutant of NextStateForAck: an ack of the create is taken for its success.
NextStateForAnyAck(from, kind, ok) ==
  IF from # "pending" THEN from ELSE IF kind = "create" THEN "created" ELSE "failed"

\* Only a pending room is moved; an edit moves it by its failure only.
NextStateForAck(from, kind, ok) ==
  IF from # "pending" THEN from
  ELSE IF kind = "create" /\ ok THEN "created"
  ELSE IF ok THEN from ELSE "failed"

\* A create that succeeds ends the wait for a missing group; then the token is read.
AckReads(h) ==
  /\ handler[h].pc = "read"
  /\ missing' = (missing /\ ~(handler[h].kind = "create" /\ handler[h].ok))
  /\ handler' = [handler EXCEPT ![h] = IF NextStateForAck(state, @.kind, @.ok) = state THEN IdleHandler
                                       ELSE [pc |-> "write", kind |-> @.kind, ok |-> @.ok, seen |-> state]]
  /\ UNCHANGED <<facts, token, jobs, relay, request, recreate, notice, copies, budget>>

AckWrites(h) ==
  /\ handler[h].pc = "write"
  /\ Transition(handler[h].seen, NextStateForAck(handler[h].seen, handler[h].kind, handler[h].ok))
  /\ handler' = [handler EXCEPT ![h] = IdleHandler]
  /\ UNCHANGED <<facts, jobs, relay, request, tracker, notice, copies, budget>>

-----------------------------------------------------------------------------
\* The world

Trade ==
  /\ Spend("changes") /\ worth' = ~worth
  /\ UNCHANGED <<deleted, token, jobs, relay, request, handler, tracker, notice, copies>>

\* The relay is reset.
RelayLoses ==
  /\ Spend("losses") /\ relay \in {"present", "deleted"} /\ relay' = "lost"
  /\ UNCHANGED <<facts, token, jobs, request, handler, tracker, notice, copies>>

\* "a token re-index / schema `synchronize` that resets defaulted columns back": the
\* state has a default, room_id has none.
ColumnReset ==
  /\ Spend("rewrites") /\ state # "none" /\ state' = "none"
  /\ UNCHANGED <<facts, room_id, jobs, relay, request, handler, tracker, notice, copies>>

\* createTokenFromRawTransaction finds the token of a create transaction it indexes ...
CopyRow ==
  /\ Spend("rewrites") /\ copies' = copies \cup {[state |-> state, room_id |-> room_id]}
  /\ UNCHANGED <<facts, token, jobs, relay, request, handler, tracker, notice>>

\* ... and updates every column, these two by what it read.
WriteBack(r) ==
  /\ copies' = copies \ {r} /\ state' = r.state /\ room_id' = r.room_id
  /\ UNCHANGED <<facts, jobs, relay, request, handler, tracker, notice, budget>>

CreationCrash ==
  /\ Failure /\ FreshProcess
  /\ UNCHANGED <<facts, token, jobs, relay>>

-----------------------------------------------------------------------------
Request(q) ==
  \/ ReadToken(q) \/ RequestRoom(q) \/ EnqueueRoom(q) \/ (\E K \in {{}, {"create"}} : EnqueueFails(q, K))
  \/ Provision(q) \/ Buy(q) \/ UpsertRow(q) \/ RecheckSees(q) \/ RecheckHeals(q)

Handle(h) == AckReads(h) \/ AckWrites(h)

Publish(h) ==
  \/ PublishCreate(h) \/ PublishEdit(h)
  \/ \E k \in Kinds, reached, acked \in BOOLEAN : GiveUp(h, k, reached, acked)

Recover == RecreateRoomGroup \/ (\E K \in {{}, {"create"}} : RecreateFails(K)) \/ PublishMember \/ Expire

World == Trade \/ RelayLoses \/ CreationCrash

Rewrite == ColumnReset \/ CopyRow \/ (\E r \in copies : WriteBack(r))

CreationNext ==
  \/ \E q \in Requests : Request(q)
  \/ \E h \in Handlers : Handle(h) \/ Publish(h)
  \/ Notice \/ PublishDelete \/ Recover \/ World \/ Rewrite

\* The cron ticks, calls return, jobs are taken, marks expire, the members of a confirmed
\* room are published.
CreationFairness ==
  /\ WF_creationVars(\E q \in Requests : Provision(q))
  /\ \A q \in Requests : /\ WF_creationVars(request[q] = "called" /\ ReadToken(q)) /\ WF_creationVars(RequestRoom(q))
                         /\ WF_creationVars(EnqueueRoom(q)) /\ WF_creationVars(RecheckHeals(q))
  /\ \A h \in Handlers : WF_creationVars(Handle(h))
  /\ WF_creationVars(\E h \in Handlers : PublishCreate(h)) /\ WF_creationVars(\E h \in Handlers : PublishEdit(h))
  /\ WF_creationVars(PublishDelete) /\ WF_creationVars(Notice)
  /\ WF_creationVars(RecreateRoomGroup) /\ WF_creationVars(Expire)
  /\ WF_creationVars(room_id /\ ~deleted /\ PublishMember)

CreationSpec == CreationInit /\ [][CreationNext]_creationVars /\ CreationFairness

-----------------------------------------------------------------------------
\* A room is confirmed only when its group has been on the relay, and a created one is:
\* no ack, heal, retry, reset or row written back confirms what has never been there
\* ("`room_id` is the durable created-marker", roomConfirmedCreated).
ConfirmedExisted == (state = "created" => room_id) /\ (room_id => relay # "absent")

\* Of the room's own handlers none takes a created room back, whatever failure is acked
\* late or read before ("a re-publish ACK never regresses these", nextStateForAck): only
\* a reset or a row written back does.
CreatedStays ==
  [][state = "created" => \/ state' = "created" /\ room_id'
                          \/ ColumnReset \/ \E r \in copies : WriteBack(r)]_creationVars

\* Once a room stays worth it, it is confirmed for good in the end, whatever jobs are
\* given up or overtake each other, adds fail, processes die, and resets and rows
\* written back undo, unless its group has been deleted.
RoomGetsCreated == <>[]worth => <>[](room_id \/ relay = "deleted")

\* The group of a created room that the relay has lost comes back, while the room is
\* worth it and not deleted ("self-heals", GroupMissingTracker).
GroupComesBack == [](room_id /\ relay = "lost" => <>(relay # "lost" \/ ~worth \/ deleted))

\* "community deleted -> 9008 delete-group. Terminal" (nostr-room-state.enum.ts): the
\* group of a community that stays deleted goes and does not come back.
DeletedGroupGoes == <>[]deleted => <>[](relay # "present")

\* "`room_id` is the durable created-marker ... it survives" (membership-sync.service.ts):
\* no step takes it back.
RoomIdStays == [][room_id => room_id']_creationVars
=============================================================================
