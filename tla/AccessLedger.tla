---------------------------- MODULE AccessLedger -----------------------------
(***************************************************************************)
(* MembershipAccessService: the access columns of one room_membership row,  *)
(* and the room_membership_event rows that make the pushes "you now have    *)
(* access" and "you lost access".  Its callers are the handlers of          *)
(* MembershipSyncService, several of which may have read the row already    *)
(* when one of them writes it, and the repeatable finalizer.                *)
(*                                                                          *)
(* The acks come in any number and order: see RoomMembership for what       *)
(* brings them about.  An action is the code between two awaits.            *)
(* Its names are its own (LedgerInit, crashes, ...), so that one proof      *)
(* module can extend RoomMembership and this module.                        *)
(***************************************************************************)
EXTENDS Integers

CONSTANTS
  Callers,     \* handlers that can be under way
  MaxCrashes   \* bound on crashes

ASSUME CrashAssumption == MaxCrashes \in Nat

VARIABLES
  state,      \* relay_state
  access,     \* access_state
  armed,      \* pending_revoke_since is set
  decision,   \* the relay_state recomputeMember has read, or "idle"
  call,       \* the locals of applyAck and handleDeletedRoom
  finalizer,  \* finalizeDueRevokes
  granted,    \* access_granted rows less the flips of access to "none"
  revoked,    \* access_revoked rows less the flips of access to "granted"
  crashes

ledgerVars == <<state, access, armed, decision, call, finalizer, granted, revoked, crashes>>

IdleCall == [pc |-> "idle", gain |-> FALSE, access |-> "none", armed |-> FALSE]

LedgerInit ==
  /\ state = "pending_add" /\ access = "none" /\ armed = FALSE
  /\ call = [s \in Callers |-> IdleCall]
  /\ decision = "idle" /\ finalizer = "idle"
  /\ granted = 0 /\ revoked = 0 /\ crashes = 0

-----------------------------------------------------------------------------
\* EligibilityService decides by the state it has read, and writes over any other.

DecisionReads ==
  /\ decision = "idle" /\ decision' = state
  /\ UNCHANGED <<state, access, armed, call, finalizer, granted, revoked, crashes>>

\* nextRelayState, of a member who is eligible or not, linked or not.
NextStates(prev) ==
  CASE prev = "added"   -> {"added", "pending_add", "pending_remove"}
    [] prev = "removed" -> {"removed", "pending_add"}
    [] OTHER            -> {"pending_add", "pending_remove"}

DecisionWrites ==
  /\ decision # "idle" /\ decision' = "idle"
  /\ state' \in NextStates(decision)
  /\ UNCHANGED <<access, armed, call, finalizer, granted, revoked, crashes>>

-----------------------------------------------------------------------------
\* Mutant of TerminalState: access_state's values written to relay_state.
AccessValue(gain) == IF gain THEN "granted" ELSE "none"

TerminalState(gain) == IF gain THEN "added" ELSE "removed"

(* applyAck of 9000 (gain) and 9001, handleDeletedRoom: the row is read, and *)
(* nothing is done when it is in the terminal state already.                 *)
CallReads(s, gain) ==
  /\ call[s].pc = "idle" /\ state # TerminalState(gain)
  /\ call' = [call EXCEPT ![s] =
       [pc |-> "write", gain |-> gain, access |-> access, armed |-> armed]]
  /\ UNCHANGED <<state, access, armed, decision, finalizer, granted, revoked, crashes>>

\* applyAck of a role change: no new state, the ledger is told the one read.
RoleReads(s) ==
  /\ call[s].pc = "idle"
  /\ call' = [call EXCEPT ![s] =
       [pc |-> "record", gain |-> (state = "added"), access |-> access, armed |-> armed]]
  /\ UNCHANGED <<state, access, armed, decision, finalizer, granted, revoked, crashes>>

CallWrites(s) ==
  /\ call[s].pc = "write"
  /\ state' = TerminalState(call[s].gain)
  /\ call' = [call EXCEPT ![s].pc = "record"]
  /\ UNCHANGED <<decision, access, armed, finalizer, granted, revoked, crashes>>

\* onAccessLost, by the access columns as they were read.
Lost(s) ==
  /\ call[s].pc = "record" /\ ~call[s].gain
  /\ armed' = (armed \/ (call[s].access = "granted" /\ ~call[s].armed))
  /\ call' = [call EXCEPT ![s] = IdleCall]
  /\ UNCHANGED <<decision, state, access, finalizer, granted, revoked, crashes>>

\* onAccessGained of a row that was read as granted: a revoke that was armed is off.
Regained(s) ==
  /\ call[s].pc = "record" /\ call[s].gain /\ call[s].access = "granted"
  /\ armed' = (armed /\ ~call[s].armed)
  /\ call' = [call EXCEPT ![s] = IdleCall]
  /\ UNCHANGED <<decision, state, access, finalizer, granted, revoked, crashes>>

\* Mutant of GrantWins: the update is not conditioned on access_state.
GrantAlwaysWins == TRUE

\* UPDATE ... WHERE access_state = 'none' affects a row.
GrantWins == access = "none"

Gained(s) ==
  /\ call[s].pc = "record" /\ call[s].gain /\ call[s].access = "none"
  /\ IF GrantWins
     THEN /\ access' = "granted" /\ armed' = FALSE
          /\ revoked' = revoked - 1
          /\ call' = [call EXCEPT ![s].pc = "push"]
     ELSE /\ call' = [call EXCEPT ![s] = IdleCall]
          /\ UNCHANGED <<access, armed, revoked>>
  /\ UNCHANGED <<decision, state, finalizer, granted, crashes>>

GrantPush(s) ==
  /\ call[s].pc = "push"
  /\ granted' = granted + 1
  /\ call' = [call EXCEPT ![s] = IdleCall]
  /\ UNCHANGED <<decision, state, access, armed, finalizer, revoked, crashes>>

-----------------------------------------------------------------------------
\* finalizeDueRevokes, at any time after the grace period.

FinalizeReads ==
  /\ finalizer = "idle" /\ armed
  /\ finalizer' = IF state = "added" \/ access # "granted" THEN "disarm" ELSE "revoke"
  /\ UNCHANGED <<decision, state, access, armed, call, granted, revoked, crashes>>

\* Mutant of Disarms: the arm of a row that was added again is left on.
DisarmsNothing ==
  /\ finalizer = "disarm"
  /\ finalizer' = "idle"
  /\ UNCHANGED <<decision, state, access, armed, call, granted, revoked, crashes>>

Disarms ==
  /\ finalizer = "disarm"
  /\ armed' = FALSE
  /\ finalizer' = "idle"
  /\ UNCHANGED <<decision, state, access, call, granted, revoked, crashes>>

\* UPDATE ... WHERE access_state = 'granted', then the ledger row.
Revokes ==
  /\ finalizer = "revoke"
  /\ IF access = "granted"
     THEN /\ access' = "none" /\ armed' = FALSE
          /\ granted' = granted - 1
          /\ finalizer' = "push"
     ELSE finalizer' = "idle" /\ UNCHANGED <<access, armed, granted>>
  /\ UNCHANGED <<decision, state, call, revoked, crashes>>

RevokePush ==
  /\ finalizer = "push"
  /\ revoked' = revoked + 1
  /\ finalizer' = "idle"
  /\ UNCHANGED <<decision, state, access, armed, call, granted, crashes>>

\* The rows survive, a push between its flip and its ledger row does not.
LedgerCrash ==
  /\ crashes < MaxCrashes /\ crashes' = crashes + 1
  /\ decision' = "idle" /\ call' = [s \in Callers |-> IdleCall] /\ finalizer' = "idle"
  /\ UNCHANGED <<state, access, armed, granted, revoked>>

Handle(s) == CallWrites(s) \/ Lost(s) \/ Regained(s) \/ Gained(s) \/ GrantPush(s)
Finalize == FinalizeReads \/ Disarms \/ Revokes \/ RevokePush

LedgerNext ==
  \/ DecisionReads \/ DecisionWrites
  \/ \E s \in Callers : (\E gain \in BOOLEAN : CallReads(s, gain)) \/ RoleReads(s) \/ Handle(s)
  \/ Finalize \/ LedgerCrash

\* Handlers that have begun go on, the finalizer is a repeatable job.
LedgerSpec ==
  /\ LedgerInit /\ [][LedgerNext]_ledgerVars
  /\ (\A s \in Callers : WF_ledgerVars(Handle(s)))
  /\ WF_ledgerVars(Finalize)

-----------------------------------------------------------------------------
LedgerTypeOK ==
  /\ state \in {"pending_add", "added", "pending_remove", "removed"}
  /\ access \in {"none", "granted"} /\ armed \in BOOLEAN
  /\ decision \in {"idle", "pending_add", "added", "pending_remove", "removed"}
  /\ call \in [Callers -> [pc : {"idle", "write", "record", "push"}, gain : BOOLEAN,
                           access : {"none", "granted"}, armed : BOOLEAN]]
  /\ finalizer \in {"idle", "disarm", "revoke", "push"}
  /\ granted \in Int /\ revoked \in Int
  /\ crashes \in 0..MaxCrashes

(* Two acks of one member handled at once, a finalizer between them, rows    *)
(* read before another handler's write: still no second "you now have        *)
(* access" without a loss in between, and no second "you lost access"        *)
(* without a grant in between.                                               *)
NoDuplicatePush == granted <= 1 /\ revoked <= 0

\* No debounce stays armed: it is called off or it becomes a revoke.
RevokeResolves == armed ~> ~armed

(* room-membership.entity.ts: "`granted` <=> the member currently has room   *)
(* access (was `relay_state='added'`)", once every handler has finished.     *)
AccessFollowsRelay ==
  /\ \A s \in Callers : call[s].pc = "idle"
  /\ decision = "idle" /\ finalizer = "idle" /\ ~armed
  => /\ state = "added" => access = "granted"
     /\ state = "removed" => access = "none"
=============================================================================
