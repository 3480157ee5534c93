---------------------------- MODULE MCRoomCreation ----------------------------
(* Small instances of RoomCreation for TLC. *)
EXTENDS RoomCreation

CONSTANTS q1, q2, h1, h2

May(requests, handlers, changes, failures, losses, rewrites) ==
  [requests |-> requests, handlers |-> handlers,
   cost |-> [c \in Costs |-> CASE c = "changes" -> changes [] c = "failures" -> failures
                               [] c = "losses" -> losses [] c = "rewrites" -> rewrites]]

(* Two acks at once beside a failure, beside a rewrite of the row and beside *)
(* two requests; two requests beside a failure; a lost group whose         *)
(* re-creation meets a failure, with a change or with a rewrite.            *)
SmallBudgets ==
  {May({q1}, {h1, h2}, 0, 1, 0, 0), May({q1}, {h1, h2}, 0, 0, 0, 1),
   May({q1, q2}, {h1, h2}, 0, 0, 0, 0), May({q1, q2}, {h1}, 0, 1, 0, 0),
   May({q1}, {h1}, 1, 1, 1, 0), May({q1}, {h1}, 0, 1, 1, 1)}

OneChange == {May({q1}, {h1}, 1, 0, 0, 0)}
OneRewrite == {May({q1}, {h1}, 0, 0, 0, 1)}
=============================================================================
