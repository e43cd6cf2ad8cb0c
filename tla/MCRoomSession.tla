--------------------------- MODULE MCRoomSession ---------------------------
(* Instances of RoomSession for TLC. *)
EXTENDS RoomSession

\* An easy problem, with the limit HINT_LIMIT_BY_DIFFICULTY has for it.
MCProblems == {"easy"}
MCHintLimitOf == [p \in Problems |-> 1]
=============================================================================
