--------------------------- MODULE MCRoomMembership --------------------------
(* Small instances of RoomMembership for TLC. *)
EXTENDS RoomMembership, TLC
=============================================================================
