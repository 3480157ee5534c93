----------------------------- MODULE IdealPayouts -----------------------------
(***************************************************************************)
(* What ProfileXPostRewardLedger and ProfileXStreakBonusReward promise of a *)
(* reward that is owed: it is claimed, broadcast once, and settled.  A      *)
(* claim is given up only while nothing was broadcast for it; the one way   *)
(* to a second broadcast is Misjudge, where a send that failed is taken for *)
(* one that never reached the chain.                                        *)
(***************************************************************************)
EXTENDS Naturals

CONSTANT Rewards

VARIABLES
  state,     \* of a reward: "absent", "open", "claimed", "broadcast", "paid"
  sent,      \* how many spends of a reward reached the chain
  misjudged  \* how many of these the books have given up

vars == <<state, sent, misjudged>>

Init ==
  /\ state = [p \in Rewards |-> "absent"]
  /\ sent = [p \in Rewards |-> 0]
  /\ misjudged = [p \in Rewards |-> 0]

\* The rewards of S, all in state `from', go to state `to' at once.
Move(S, from, to) ==
  /\ \A p \in S : state[p] = from
  /\ state' = [p \in Rewards |-> IF p \in S THEN to ELSE state[p]]

Count(f, S) == [p \in Rewards |-> IF p \in S THEN f[p] + 1 ELSE f[p]]

Owe(S) == Move(S, "absent", "open") /\ UNCHANGED <<sent, misjudged>>
Claim(p) == Move({p}, "open", "claimed") /\ UNCHANGED <<sent, misjudged>>
GiveUp(p) == Move({p}, "claimed", "open") /\ UNCHANGED <<sent, misjudged>>
Broadcast(S) == Move(S, "claimed", "broadcast") /\ sent' = Count(sent, S) /\ UNCHANGED misjudged
Settle(S) == Move(S, "broadcast", "paid") /\ UNCHANGED <<sent, misjudged>>
Misjudge(p) == Move({p}, "broadcast", "claimed") /\ misjudged' = Count(misjudged, {p}) /\ UNCHANGED sent

Next ==
  \/ \E S \in SUBSET Rewards : Owe(S) \/ Broadcast(S) \/ Settle(S)
  \/ \E p \in Rewards : Claim(p) \/ GiveUp(p) \/ Misjudge(p)

Spec == Init /\ [][Next]_vars

\* A reward reaches the chain once, and once more for each time it was misjudged:
\* "The DB-atomic claim guards prevent double-PAYING" (ProfileSpendQueueService).
PaidOnce == \A p \in Rewards : sent[p] <= 1 + misjudged[p]
=============================================================================
