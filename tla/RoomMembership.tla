--------------------------- MODULE RoomMembership ---------------------------
(***************************************************************************)
(* One holder of one token-gated room, from the balance that entitles him  *)
(* to his place in the relay's group: EligibilityService decides and writes *)
(* the room_membership row, MembershipSyncService and ReconciliationService *)
(* turn the row into jobs, PublishNip29Processor publishes them, and the    *)
(* acks come back into the row.  What an ack does to the access ledger is   *)
(* module AccessLedger: nothing here depends on it.                         *)
(*                                                                          *)
(* The group exists at the start; the holder is neither a moderator nor a   *)
(* configured admin and has one key, and the threshold stays: raising it is *)
(* to recomputeMember what muting is.  An action is the code between two    *)
(* awaits, except that a row is read and its job added in one step: a job   *)
(* may stay in the queue for as long as that step could have taken.         *)
(***************************************************************************)
EXTENDS Integers

CONSTANTS
  Recomputes,  \* recomputeMember calls that can be under way
  Slots,       \* publishes and ack handlers that can be under way
  MaxChanges,  \* bound on the changes of balance, link and community
  MaxJobs,     \* bound on the waiting jobs of one kind
  MaxFaults    \* bound on lost acks, given-up jobs and crashes

ASSUME BoundAssumption ==
  MaxChanges \in Nat /\ MaxJobs \in Nat /\ MaxFaults \in Nat

VARIABLES
  \* what the rest of the system says of the holder
  holds,       \* token_balance >= min_token_threshold
  link,        \* accounts.links has a nostr key
  room,        \* community_room: "open", "muted" (the holder is) or "deleted"
  \* the database, the queue, the relay
  row,         \* the room_membership row
  jobs,        \* waiting publish-nip29 jobs of each kind
  relay,       \* does the group exist, is the key in it (39002)
  \* the process
  events,      \* emitted and not yet handled
  cache,       \* IdentityService has the key in memory
  recompute,   \* the locals of every recomputeMember
  mirror,      \* IdentityService.reresolveAddress
  deletion,    \* MembershipSyncService.handleDeletedRoom
  ack,         \* MembershipSyncService.onPublishAck
  reconcile,   \* ReconciliationService.reconcileRoom
  changes, faults

facts == <<holds, link, room, changes>>
identity == <<cache, mirror>>
vars == <<facts, row, jobs, relay, events, identity, recompute, deletion, ack,
          reconcile, faults>>

RelayStates == {"absent", "pending_add", "added", "pending_remove", "removed"}
Handlers == {"single", "roster", "linked", "mirror", "deletion", "publish"}
Kinds == {"add", "remove", "delete"}

NoRow == [state |-> "absent", eligible |-> FALSE, key |-> FALSE]

IdleRecompute == [via |-> "single", at |-> 0, room |-> "open", prev |-> NoRow,
                  key |-> FALSE, holds |-> FALSE]
Started(h) == [via |-> h, at |-> 1, room |-> room, prev |-> NoRow,
               key |-> FALSE, holds |-> FALSE]
IdleAck == [pc |-> "idle", kind |-> "add"]
NoEvents == [h \in Handlers |-> 0]

Emitted(h) == [events EXCEPT ![h] = @ + 1]
Handled(h) == [events EXCEPT ![h] = @ - 1]
Arrives(H) == [h \in Handlers |-> IF h \in H THEN events[h] + 1 ELSE events[h]]

Enqueue(k) == jobs[k] < MaxJobs /\ jobs' = [jobs EXCEPT ![k] = @ + 1]

(* A holder nobody has met yet, with or without a key, or a member whom the  *)
(* bounded number of changes finds settled.                                  *)
Settled == [state |-> "added", eligible |-> TRUE, key |-> TRUE]

Init ==
  /\ room = "open" /\ changes = 0
  /\ \/ holds = FALSE /\ link \in BOOLEAN /\ row = NoRow
     \/ holds = TRUE /\ link = TRUE /\ row = Settled
  /\ jobs = [k \in Kinds |-> 0]
  /\ relay = [group |-> TRUE, member |-> (row = Settled)]
  /\ events = NoEvents
  /\ cache = FALSE
  /\ recompute = [r \in Recomputes |-> IdleRecompute]
  /\ mirror = "idle" /\ deletion = "idle"
  /\ ack = [s \in Slots |-> IdleAck]
  /\ reconcile = "idle"
  /\ faults = 0

-----------------------------------------------------------------------------
\* What happens outside: each change is stored, then its event is emitted.

BalanceChange ==
  /\ changes < MaxChanges /\ changes' = changes + 1
  /\ holds' = ~holds
  /\ events' = Emitted("single")
  /\ UNCHANGED <<link, room, row, jobs, relay, identity, recompute, deletion, ack,
                 reconcile, faults>>

\* tgr.link.changed: EligibilityService and IdentityService listen.
LinkChange ==
  /\ changes < MaxChanges /\ changes' = changes + 1
  /\ link' = ~link
  /\ events' = Arrives({"linked", "mirror"})
  /\ UNCHANGED <<holds, room, row, jobs, relay, identity, recompute, deletion, ack,
                 reconcile, faults>>

(* tgr.community.upserted: EligibilityService and MembershipSyncService, each  *)
(* on its own.  A deleted community is taken not to come back.               *)
CommunityChange ==
  /\ changes < MaxChanges /\ changes' = changes + 1
  /\ room # "deleted" /\ room' \in {"open", "muted", "deleted"} \ {room}
  /\ events' = Arrives({"roster", "deletion"})
  /\ UNCHANGED <<holds, link, row, jobs, relay, identity, recompute, deletion, ack,
                 reconcile, faults>>

-----------------------------------------------------------------------------
\* EligibilityService

\* What is read after the room, in this order, each in an await of its own.
ReadOrder == [single |-> <<"row", "key", "holds">>,
              linked |-> <<"row", "key", "holds">>,
              roster |-> <<"holds", "row", "key">>]

\* Mutant of Begin: a handler runs without an event.
BeginUnasked(r, h) ==
  /\ recompute[r].at = 0
  /\ events' = Handled(h)
  /\ recompute' = [recompute EXCEPT ![r] = Started(h)]
  /\ UNCHANGED <<facts, row, jobs, relay, identity, deletion, ack, reconcile, faults>>

(* onBalanceChanged, onCommunityUpserted and onLinkChanged find the room;    *)
(* onLinkChanged only goes to rooms in which the holder has a row.           *)
Begin(r, h) ==
  /\ events[h] > 0 /\ recompute[r].at = 0
  /\ events' = Handled(h)
  /\ recompute' = IF h = "linked" /\ row.state = "absent" THEN recompute
                  ELSE [recompute EXCEPT ![r] = Started(h)]
  /\ UNCHANGED <<facts, row, jobs, relay, identity, deletion, ack, reconcile, faults>>

Read(r) ==
  /\ recompute[r].at \in 1..3
  /\ LET l == recompute[r]
         what == ReadOrder[l.via][l.at]
         key == cache \/ link        \* getPubkeyForAddress: the cache comes first
     IN  /\ recompute' = [recompute EXCEPT ![r] =
              [via   |-> l.via, at |-> l.at + 1, room |-> l.room,
               prev  |-> IF what = "row" THEN row ELSE l.prev,
               key   |-> IF what = "key" THEN key ELSE l.key,
               holds |-> IF what = "holds" THEN holds ELSE l.holds]]
         /\ cache' = IF what = "key" THEN key ELSE cache
  /\ UNCHANGED <<facts, row, jobs, relay, events, mirror, deletion, ack, reconcile, faults>>

IsEligible(l) == l.room = "open" /\ l.holds

\* Mutant of NextRelayState: an add that is still pending is left to go out.
KeepingPendingAdd(eligible, key, prev) ==
  IF eligible THEN IF key /\ prev = "added" THEN "added" ELSE "pending_add"
  ELSE IF prev = "added" THEN "pending_remove"
  ELSE IF prev = "absent" THEN "removed" ELSE prev

NextRelayState(eligible, key, prev) ==
  IF eligible THEN IF key /\ prev = "added" THEN "added" ELSE "pending_add"
  ELSE IF prev \in {"added", "pending_add"} THEN "pending_remove"
  ELSE IF prev = "absent" THEN "removed" ELSE prev

(* upsertMembership: an insert fails on the unique index when another call   *)
(* has inserted the row, an update writes over whatever the row is by now.   *)
Upsert(l, eligible, state) ==
  /\ l.prev.state = "absent" => row.state = "absent"
  /\ row' = [row EXCEPT !.eligible = eligible, !.key = l.key, !.state = state]

Write(r) ==
  /\ recompute[r].at = 4
  /\ LET l == recompute[r]
         eligible == IsEligible(l)
         state == NextRelayState(eligible, l.key, l.prev.state)
         writes == /\ \/ l.prev.state = "absent"
                      \/ l.prev.eligible # eligible
                      \/ l.prev.key # l.key
                      \/ l.prev.state # state
                   /\ l.prev.state # "absent" \/ eligible
         flipped == l.prev.eligible # eligible
         publishable == eligible /\ l.key /\ state = "pending_add"
     IN  \/ /\ writes /\ Upsert(l, eligible, state)
            /\ events' = IF flipped \/ publishable THEN Emitted("publish") ELSE events
         \/ /\ \/ ~writes
               \/ l.prev.state = "absent" /\ row.state # "absent"
            /\ UNCHANGED <<row, events>>
  /\ recompute' = [recompute EXCEPT ![r] = IdleRecompute]
  /\ UNCHANGED <<facts, jobs, relay, identity, deletion, ack, reconcile, faults>>

-----------------------------------------------------------------------------
\* IdentityService.onLinkChanged, and at boot IdentityBackfillService

MirrorRead ==
  /\ events["mirror"] > 0 /\ mirror = "idle"
  /\ events' = Handled("mirror")
  /\ cache' = link
  /\ mirror' = IF link THEN "key" ELSE "null"
  /\ UNCHANGED <<facts, row, jobs, relay, recompute, deletion, ack, reconcile, faults>>

MirrorWrite ==
  /\ mirror # "idle"
  /\ row' = IF row.state = "absent" THEN row
            ELSE [row EXCEPT !.key = (mirror = "key")]
  /\ mirror' = "idle"
  /\ UNCHANGED <<facts, jobs, relay, events, cache, recompute, deletion, ack,
                 reconcile, faults>>

-----------------------------------------------------------------------------
\* MembershipSyncService: from the row to the queue

\* maybeEnqueueAdd and maybeEnqueueRemove, behind publishForRow's guard.
ToPublish ==
  {k \in {"add", "remove"} :
     /\ room # "deleted" /\ row.key
     /\ \/ k = "add" /\ row.state = "pending_add" /\ room # "muted"
        \/ k = "remove" /\ row.state = "pending_remove"}

OnEligibilityChanged ==
  /\ events["publish"] > 0
  /\ events' = Handled("publish")
  /\ IF ToPublish = {} THEN UNCHANGED jobs ELSE \E k \in ToPublish : Enqueue(k)
  /\ UNCHANGED <<facts, row, relay, identity, recompute, deletion, ack, reconcile, faults>>

ScanAndPublishPending ==
  /\ \E k \in ToPublish : Enqueue(k)
  /\ UNCHANGED <<facts, row, relay, events, identity, recompute, deletion, ack,
                 reconcile, faults>>

\* onCommunityUpserted, and handleDeletedRoom up to its read of the rows.
DeletionBegin ==
  /\ events["deletion"] > 0 /\ deletion = "idle"
  /\ events' = Handled("deletion")
  /\ IF room = "deleted"
     THEN Enqueue("delete") /\ deletion' = "rows"
     ELSE UNCHANGED <<jobs, deletion>>
  /\ UNCHANGED <<facts, row, relay, identity, recompute, ack, reconcile, faults>>

DeletionRead ==
  /\ deletion = "rows"
  /\ deletion' = IF row.state \in {"pending_add", "added", "pending_remove"}
                 THEN "write" ELSE "idle"
  /\ UNCHANGED <<facts, row, jobs, relay, events, identity, recompute, ack, reconcile, faults>>

DeletionWrite ==
  /\ deletion = "write"
  /\ row' = [row EXCEPT !.state = "removed"]
  /\ deletion' = "idle"
  /\ UNCHANGED <<facts, jobs, relay, events, identity, recompute, ack, reconcile, faults>>

-----------------------------------------------------------------------------
\* PublishNip29Processor and the relay

RelayAfter(k) ==
  CASE k = "add"    -> [relay EXCEPT !.member = relay.group]
    [] k = "remove" -> [relay EXCEPT !.member = FALSE]
    [] k = "delete" -> [group |-> FALSE, member |-> FALSE]

(* An add to a deleted group is refused, and a remove from one counts as     *)
(* done; an ack without a key (9008) is not this service's.                  *)
AckHandled(k) == k = "remove" \/ (k = "add" /\ relay.group)

\* Waiting jobs are taken in any order: a failed attempt goes back with a delay.
Publish(s, k) ==
  /\ ack[s].pc = "idle" /\ jobs[k] > 0
  /\ jobs' = [jobs EXCEPT ![k] = @ - 1]
  /\ relay' = RelayAfter(k)
  /\ ack' = IF AckHandled(k) THEN [ack EXCEPT ![s] = [IdleAck EXCEPT !.pc = "read", !.kind = k]]
            ELSE ack
  /\ UNCHANGED <<facts, row, events, identity, recompute, deletion, reconcile, faults>>

\* The relay acts but its answer does not come: the job is tried again.
AckTimesOut(k) ==
  /\ jobs[k] > 0 /\ faults < MaxFaults
  /\ faults' = faults + 1
  /\ relay' = RelayAfter(k)
  /\ UNCHANGED <<facts, row, jobs, events, identity, recompute, deletion, ack,
                 reconcile>>

\* The last attempt failed: an ack that says so, which onPublishAck ignores.
RetriesExhausted(k) ==
  /\ jobs[k] > 0 /\ faults < MaxFaults
  /\ faults' = faults + 1
  /\ jobs' = [jobs EXCEPT ![k] = @ - 1]
  /\ UNCHANGED <<facts, row, relay, events, identity, recompute, deletion, ack,
                 reconcile>>

-----------------------------------------------------------------------------
\* MembershipSyncService.onPublishAck, applyAck

Terminal(k) == IF k = "add" THEN "added" ELSE "removed"

\* The row is found by its key; one already in the state of the ack is left.
AckRead(s) ==
  /\ ack[s].pc = "read"
  /\ ack' = [ack EXCEPT ![s] =
       IF row.state # "absent" /\ row.key /\ row.state # Terminal(ack[s].kind)
       THEN [@ EXCEPT !.pc = "write"]
       ELSE IdleAck]
  /\ UNCHANGED <<facts, row, jobs, relay, events, identity, recompute, deletion,
                 reconcile, faults>>

AckWrite(s) ==
  /\ ack[s].pc = "write"
  /\ row' = [row EXCEPT !.state = Terminal(ack[s].kind)]
  /\ ack' = [ack EXCEPT ![s] = IdleAck]
  /\ UNCHANGED <<facts, jobs, relay, events, identity, recompute, deletion, reconcile, faults>>

-----------------------------------------------------------------------------
\* ReconciliationService.reconcileRoom: the relay's 39002, then the rows

ReconcileRead ==
  /\ reconcile = "idle" /\ relay.group
  /\ reconcile' = IF relay.member THEN "in" ELSE "out"
  /\ UNCHANGED <<facts, row, jobs, relay, events, identity, recompute, deletion, ack, faults>>

\* Mutant of Drift: judged by relay_state instead of eligible.
DriftOfPending(seen) ==
  {k \in {"add", "remove"} :
     /\ row.state # "absent" /\ row.key
     /\ \/ k = "add" /\ row.state = "pending_add" /\ seen = "out"
        \/ k = "remove" /\ row.state = "pending_remove" /\ seen = "in"}

Drift(seen) ==
  {k \in {"add", "remove"} :
     /\ row.state # "absent" /\ row.key
     /\ \/ k = "add" /\ row.eligible /\ seen = "out"
        \/ k = "remove" /\ ~row.eligible /\ seen = "in"}

ReconcileWrite ==
  /\ reconcile # "idle"
  /\ reconcile' = "idle"
  /\ IF Drift(reconcile) = {} THEN UNCHANGED jobs ELSE \E k \in Drift(reconcile) : Enqueue(k)
  /\ UNCHANGED <<facts, row, relay, events, identity, recompute, deletion, ack, faults>>

-----------------------------------------------------------------------------
(* A crash loses the handlers and the events, not the queue.  On the way up  *)
(* the identity backfill reads every member's link.                          *)
Crash ==
  /\ faults < MaxFaults
  /\ faults' = faults + 1
  /\ events' = [NoEvents EXCEPT !["mirror"] = 1]
  /\ cache' = FALSE
  /\ recompute' = [r \in Recomputes |-> IdleRecompute]
  /\ mirror' = "idle" /\ deletion' = "idle"
  /\ ack' = [s \in Slots |-> IdleAck]
  /\ reconcile' = "idle"
  /\ UNCHANGED <<facts, row, jobs, relay>>

Decide(r) == (\E h \in {"single", "linked", "roster"} : Begin(r, h)) \/ Read(r) \/ Write(r)
Identity == MirrorRead \/ MirrorWrite
Delete == DeletionBegin \/ DeletionRead \/ DeletionWrite
Worker == \E s \in Slots, k \in Kinds : Publish(s, k)
OnAck(s) == AckRead(s) \/ AckWrite(s)
Reconcile == ReconcileRead \/ ReconcileWrite

Next ==
  \/ BalanceChange \/ LinkChange \/ CommunityChange
  \/ \E r \in Recomputes : Decide(r)
  \/ Identity \/ OnEligibilityChanged \/ ScanAndPublishPending \/ Delete
  \/ Worker
  \/ \E k \in Kinds : AckTimesOut(k) \/ RetriesExhausted(k)
  \/ \E s \in Slots : OnAck(s)
  \/ Reconcile \/ Crash

(* Handlers that have begun go on, events are delivered, the repeatable jobs *)
(* come round, and the queue is worked off kind by kind: a relay that is     *)
(* down costs attempts, and MaxFaults bounds what is given up.               *)
Fairness ==
  /\ \A r \in Recomputes : WF_vars(Decide(r))
  /\ WF_vars(Identity) /\ WF_vars(OnEligibilityChanged) /\ WF_vars(Delete)
  /\ WF_vars(ScanAndPublishPending) /\ WF_vars(Reconcile)
  /\ \A k \in Kinds : WF_vars(\E s \in Slots : Publish(s, k))
  /\ \A s \in Slots : WF_vars(OnAck(s))

Spec == Init /\ [][Next]_vars /\ Fairness

-----------------------------------------------------------------------------
Rows == [state : RelayStates, eligible : BOOLEAN, key : BOOLEAN]
Locals == [via : {"single", "linked", "roster"}, at : 0..4,
           room : {"open", "muted", "deleted"}, prev : Rows,
           key : BOOLEAN, holds : BOOLEAN]

(* No event is handled that was not emitted, no job published that was not   *)
(* added, and every row and every local keeps to its values.                 *)
TypeOK ==
  /\ holds \in BOOLEAN /\ link \in BOOLEAN /\ room \in {"open", "muted", "deleted"}
  /\ row \in Rows
  /\ jobs \in [Kinds -> 0..MaxJobs]
  /\ relay \in [group : BOOLEAN, member : BOOLEAN]
  /\ events \in [Handlers -> Nat]
  /\ cache \in BOOLEAN /\ mirror \in {"idle", "key", "null"}
  /\ recompute \in [Recomputes -> Locals]
  /\ deletion \in {"idle", "rows", "write"}
  /\ ack \in [Slots -> [pc : {"idle", "read", "write"}, kind : Kinds]]
  /\ reconcile \in {"idle", "in", "out"}
  /\ changes \in 0..MaxChanges /\ faults \in 0..MaxFaults

(* Recomputes, acks, the deletion and the mirror write over one another with *)
(* what they read earlier; still a row never waits to be added while it says *)
(* ineligible, nor to be removed while it says eligible, so neither the scan *)
(* nor an event ever publishes against the decision stored beside it.        *)
PendingMatchesEligible ==
  /\ row.state = "pending_add" => row.eligible
  /\ row.state = "pending_remove" => ~row.eligible

(* Whatever order the jobs, the retries and the acks came in, and even when  *)
(* an ack has written over a newer decision, the relay ends up with the      *)
(* member the row says is eligible and without the one it says is not, as    *)
(* long as the room exists and the row has a key.                            *)
RelayFollowsRow ==
  <>[](room # "deleted" /\ row.key => (relay.member <=> row.eligible))

(* eligibility.service.ts: "Private-room access needs BOTH balance AND a     *)
(* Nostr link."  A holder who takes his link away ends up outside the group. *)
UnlinkedLeaves == <>[](~link => ~relay.member)
=============================================================================
