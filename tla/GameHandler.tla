---------------------------- MODULE GameHandler -----------------------------
(***************************************************************************)
(* The rooms of the server: GameHandler's maps userRoomMap and games, and  *)
(* table room_players, which room chat takes its recipients from.  A room's *)
(* game is a record of RoomStates, justified in module Room; what happens  *)
(* inside a hand is module SamLocGame.  Messages are handled one at a time *)
(* by the poll loop.  Maps and games are in memory, room_players is in the *)
(* database: the process may end between messages, and each statement may  *)
(* fail, which the handler does not look at.                               *)
(*                                                                         *)
(* Left out: the column rooms.current_players, which nothing reads back,   *)
(* and the room list, which changes nothing.                               *)
(***************************************************************************)
EXTENDS RoomStates

CONSTANTS
  User,    (* user ids                                                     *)
  RoomId,  (* ids in table rooms                                           *)
  NoRoom   (* no entry in userRoomMap; also an id not in table rooms       *)

ASSUME HandlerAssumption ==
  /\ IsFiniteSet(User)
  /\ NoRoom \notin RoomId
  /\ MaxPlayers \in 2..4

VARIABLES
  userRoomMap,  (* NoRoom without an entry                                 *)
  games,        (* room ids with an entry in the map of the same name      *)
  room,         (* the game of each room; Fresh without an entry           *)
  roomPlayers,  (* rows of table room_players                              *)
  unrecorded    (* history: users whose last INSERT there failed           *)

vars == <<userRoomMap, games, room, roomPlayers, unrecorded>>

Init ==
  /\ userRoomMap = [u \in User |-> NoRoom]
  /\ games = {}
  /\ room = [r \in RoomId |-> Fresh]
  /\ roomPlayers = {} /\ unrecorded = {}

(* Wrong: only a finished game is left when joining another room.          *)
LeavesFinished(u, r) ==
  /\ userRoomMap[u] \notin {NoRoom, r}
  /\ userRoomMap[u] \in games
  /\ room[userRoomMap[u]].phase = "FINISHED"

(* C_JOIN_ROOM gives up the seat in another room that is still waiting.    *)
LeavesOther(u, r) ==
  /\ userRoomMap[u] \notin {NoRoom, r}
  /\ userRoomMap[u] \in games
  /\ room[userRoomMap[u]].phase = "WAITING"

(* Wrong: the entry stays when the seat is given up.                       *)
KeepsEntry(u) == userRoomMap

Unmapped(u) == [userRoomMap EXCEPT ![u] = NoRoom]

(* The game that is left here is not erased, nor its row of the user.      *)
AfterLeaving(u, r) ==
  IF LeavesOther(u, r)
  THEN [room EXCEPT ![userRoomMap[u]] = WithoutPlayer(@, u)]
  ELSE room

(* No such room, or getRoom failed to find it; or no free seat in it, or a *)
(* hand in it not yet cleared.                                             *)
JoinRefused(u, r) ==
  /\ \/ games' = games
     \/ /\ r \in RoomId /\ u \notin room[r].seated /\ ~MayEnter(room[r])
        /\ games' = games \cup {r}
  /\ room' = AfterLeaving(u, r)
  /\ userRoomMap' = IF LeavesOther(u, r) THEN Unmapped(u) ELSE userRoomMap
  /\ UNCHANGED <<roomPlayers, unrecorded>>

(* addPlayerToRoom.                                                        *)
AddPlayerToRoom(r, u) ==
  \/ /\ roomPlayers' = roomPlayers \cup {<<r, u>>}
     /\ unrecorded' = unrecorded \ {u}
  \/ /\ UNCHANGED roomPlayers
     /\ unrecorded' = unrecorded \cup {u}

(* removePlayerFromRoom.                                                   *)
RemovePlayerFromRoom(r, u) ==
  /\ roomPlayers' \in {roomPlayers, roomPlayers \ {<<r, u>>}}
  /\ UNCHANGED unrecorded

(* addPlayer may still refuse, for the balance or an unknown player; the   *)
(* user is mapped all the same, and recorded if the INSERT succeeds.       *)
JoinAccepted(u, r) ==
  /\ r \in RoomId
  /\ u \in room[r].seated \/ MayEnter(room[r])
  /\ \/ room' = [AfterLeaving(u, r) EXCEPT ![r] = WithPlayer(@, u)]
     \/ u \notin room[r].seated /\ room' = AfterLeaving(u, r)
  /\ userRoomMap' = [userRoomMap EXCEPT ![u] = r]
  /\ games' = games \cup {r}
  /\ AddPlayerToRoom(r, u)

JoinRoom(u, r) == JoinRefused(u, r) \/ JoinAccepted(u, r)

(* The user's room is left with the game g; an empty one is erased.        *)
GiveUpSeat(u, r, g) ==
  /\ room' = [room EXCEPT ![r] = g]
  /\ games' = IF g.seated = {} THEN games \ {r} ELSE games
  /\ userRoomMap' = Unmapped(u)
  /\ RemovePlayerFromRoom(r, u)

(* Without a game nothing happens: entry and row stay.                     *)
LeaveRoom(u) ==
  LET r == userRoomMap[u]
  IN  r \in games /\ GiveUpSeat(u, r, WithoutPlayer(room[r], u))

(* The connection bound to u is closed.                                    *)
onClientDisconnect(u) ==
  LET r == userRoomMap[u]
  IN  \/ r \in games /\ GiveUpSeat(u, r, WithoutConnection(room[r], u))
      \/ /\ r \in RoomId \ games
         /\ userRoomMap' = Unmapped(u)
         /\ UNCHANGED <<games, room, roomPlayers, unrecorded>>

(* C_READY reopens a room after a hand.                                    *)
Ready(u) ==
  LET r == userRoomMap[u]
  IN  /\ r \in games
      /\ room[r].phase = "FINISHED"
      /\ room' = [room EXCEPT ![r] = Reopened(@)]
      /\ UNCHANGED <<userRoomMap, games, roomPlayers, unrecorded>>

(* C_PLAY_CARD with the last cards of the hand.                            *)
PlayLastCards(u) ==
  LET r == userRoomMap[u]
  IN  /\ r \in games
      /\ room[r].phase = "PLAYING" /\ u \in room[r].seated
      /\ room' = [room EXCEPT ![r] = Ended]
      /\ UNCHANGED <<userRoomMap, games, roomPlayers, unrecorded>>

(* updateLoop: the countdown of a room is over.                            *)
updateLoop(r) ==
  /\ r \in games
  /\ MayStart(room[r])
  /\ room' = [room EXCEPT ![r] = Started(@)]
  /\ UNCHANGED <<userRoomMap, games, roomPlayers, unrecorded>>

(* The process ends and is started again: the rows stay.                   *)
Crash ==
  /\ userRoomMap' = [u \in User |-> NoRoom]
  /\ games' = {}
  /\ room' = [r \in RoomId |-> Fresh]
  /\ UNCHANGED <<roomPlayers, unrecorded>>

Next ==
  \/ \E u \in User :
       \/ \E r \in RoomId \cup {NoRoom} : JoinRoom(u, r)
       \/ LeaveRoom(u)
       \/ onClientDisconnect(u)
       \/ Ready(u)
       \/ PlayLastCards(u)
  \/ \E r \in RoomId : updateLoop(r)
  \/ Crash

Spec == Init /\ [][Next]_vars

----------------------------------------------------------------------------
(* Properties.                                                             *)

TypeOK ==
  /\ userRoomMap \in [User -> RoomId \cup {NoRoom}]
  /\ games \subseteq RoomId
  /\ room \in [RoomId -> [seated : SUBSET User, gone : SUBSET User,
                          phase : {"WAITING", "PLAYING", "FINISHED"}]]
  /\ roomPlayers \subseteq RoomId \X User
  /\ unrecorded \subseteq User

(* A seat outside a running hand belongs to a user who is mapped to that   *)
(* room, so that leaving, joining elsewhere or a broken connection finds   *)
(* and frees it: nobody waits for a seat of somebody who is gone           *)
(* (handleMessage, onClientDisconnect, handleWin).                         *)
WaitingSeatIsMapped ==
  \A r \in RoomId : \A u \in room[r].seated :
    room[r].phase # "PLAYING" => userRoomMap[u] = r

(* Who is in a room gets its chat: through refused joins, changes of       *)
(* rooms, departures, failed DELETEs and restarts, whoever is mapped to a  *)
(* room has its row in table room_players, except by a failed INSERT,      *)
(* which handleMessage ignores once the user is mapped (addPlayerToRoom,   *)
(* removePlayerFromRoom).                                                  *)
MappedIsRecorded ==
  \A u \in User \ unrecorded :
    userRoomMap[u] # NoRoom => <<userRoomMap[u], u>> \in roomPlayers
=============================================================================
