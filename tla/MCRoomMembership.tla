-------------------------- MODULE MCRoomMembership --------------------------
(* Instances of RoomMembership for TLC; the cfgs give the bounds. *)
EXTENDS RoomMembership
=============================================================================
