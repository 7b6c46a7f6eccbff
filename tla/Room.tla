-------------------------------- MODULE Room --------------------------------
(***************************************************************************)
(* The life of one room in the terms of RoomStates.  Module SamLocGame is  *)
(* shown to implement Spec, which is what allows module GameHandler to     *)
(* keep a record of RoomStates for each room.                              *)
(***************************************************************************)
EXTENDS RoomStates

CONSTANT Player  (* user ids that may come to this room *)

VARIABLE room

Init == room = Fresh

Enter(p) == p \notin room.seated /\ MayEnter(room) /\ room' = WithPlayer(room, p)
Leave(p) == room' = WithoutPlayer(room, p)
Break(p) == room' = WithoutConnection(room, p)
Start    == MayStart(room) /\ room' = Started(room)
End(p)   == room.phase = "PLAYING" /\ p \in room.seated /\ room' = Ended
Stop     == room' = Fresh  (* the process ends *)
Reopen   == room.phase = "FINISHED" /\ room' = Reopened(room)

Next ==
  \/ \E p \in Player : Enter(p) \/ Leave(p) \/ Break(p) \/ End(p)
  \/ Start
  \/ Reopen
  \/ Stop

Spec == Init /\ [][Next]_room
=============================================================================
