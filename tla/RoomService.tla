----------------------------- MODULE RoomService -------------------------------
(***************************************************************************)
(* The server as far as one user's client can see it: the messages between *)
(* the two, the user's entry in userRoomMap, and the room it names.  What  *)
(* the other players do is followed in that room only; a join finds any    *)
(* state of the room it goes to.  A handler's answers and events are sent  *)
(* before the next message is read.  Module GameHandler has all users and  *)
(* all rooms, but no messages.                                             *)
(***************************************************************************)
EXTENDS Naturals, Sequences

CONSTANTS
  Room,         (* room ids                                                *)
  NoRoom,       (* no entry in the map; a message about no room            *)
  MaxOthers,    (* bound: other players in the user's room                 *)
  MaxUnderWay   (* bound: the user clicks, and others act, while fewer
                   messages are under way                                  *)

ASSUME ServiceAssumption ==
  NoRoom \notin Room /\ MaxOthers \in Nat \ {0} /\ MaxUnderWay \in Nat

VARIABLES
  toServer, toMe,
  seat,   (* GameHandler::userRoomMap                                      *)
  room    (* the room of the seat, see Table                               *)

service == <<seat, room>>

Msg(type, r, yes) == [type |-> type, room |-> r, yes |-> yes]

Plain(type) == Msg(type, NoRoom, TRUE)

(* A SamLocGame as the user sees it; WAITING with startingScheduled is     *)
(* COUNTING, and allReady is about the others.                             *)
Nowhere == [phase |-> "WAITING", inIt |-> FALSE, ready |-> FALSE,
            others |-> 0, allReady |-> FALSE]

BetweenHands == room.inIt /\ room.phase \in {"WAITING", "COUNTING"}

Playing == room.inIt /\ room.phase = "PLAYING"

(* The first message is the lobby's.                                       *)
ServiceInit ==
  /\ toServer = <<Plain("REQUEST_BALANCE")>> /\ toMe = <<>>
  /\ seat = NoRoom /\ room = Nowhere

----------------------------------------------------------------------------
(* The user's messages.                                                    *)

Handles(type) == toServer # <<>> /\ Head(toServer).type = type

Answer(ms) == toServer' = Tail(toServer) /\ toMe' = toMe \o ms

(* The members of the user's room, with the user's own flag.               *)
RoomUpdate == Msg("ROOM_UPDATE", seat', room'.ready)

(* Members without the user.                                               *)
OthersUpdate == Msg("ROOM_UPDATE", NoRoom, FALSE)

(* A new private room is a row and no game yet.                            *)
handleRequest ==
  /\ \/ Handles("REQUEST_BALANCE") /\ Answer(<<Plain("REQUEST_BALANCE_RESPONSE")>>)
     \/ Handles("GET_ROOM_LIST")   /\ Answer(<<Plain("ROOM_LIST")>>)
     \/ Handles("GET_FRIEND_LIST") /\ Answer(<<Plain("GET_FRIEND_LIST_RESPONSE")>>)
     \/ /\ Handles("LOGOUT")
        /\ \E ok \in BOOLEAN : Answer(<<Msg("LOGOUT_RESPONSE", NoRoom, ok)>>)
     \/ Handles("SEND_CHALLENGE")  /\ Answer(<<Plain("SEND_CHALLENGE_RESPONSE")>>)
     \/ /\ Handles("CREATE_PRIVATE_ROOM")
        /\ \E r \in Room \cup {NoRoom} :
             Answer(<<Msg("CREATE_PRIVATE_ROOM_RESPONSE", r, r # NoRoom)>>)
  /\ UNCHANGED service

(* C_JOIN_ROOM gives up the seat in another room that is still waiting.    *)
LeavesOther(r) == seat \notin {NoRoom, r} /\ room.phase \in {"WAITING", "COUNTING"}

(* What a join finds: room for one more, and perhaps a countdown, which it *)
(* does not stop.                                                          *)
JoinableTables ==
  {t \in [phase : {"WAITING", "COUNTING"}, inIt : {TRUE}, ready : {FALSE},
          others : 0..MaxOthers, allReady : BOOLEAN] :
     /\ t.others = 0 => ~t.allReady
     /\ t.phase = "COUNTING" => t.others >= 2 /\ (t.allReady \/ t.others > 2)}

(* Unknown, full, in a hand or not reopened after one: no answer at all.   *)
JoinRefused(r) ==
  /\ ~(seat = r /\ room.inIt)
  /\ seat' = IF LeavesOther(r) THEN NoRoom ELSE seat
  /\ room' = IF LeavesOther(r) THEN Nowhere ELSE room
  /\ Answer(<<>>)

(* The players there come first, then the answer, which may be that the    *)
(* money does not suffice; the user is mapped to the room all the same.    *)
JoinAccepted(r) ==
  /\ ~(seat = r /\ room.inIt)
  /\ seat' = r
  /\ \/ /\ room' \in JoinableTables
        /\ Answer(<<RoomUpdate, Msg("JOIN_ROOM_SUCCESS", r, TRUE), RoomUpdate>>)
     \/ room' = Nowhere /\ Answer(<<OthersUpdate, Plain("JOIN_ROOM_FAIL")>>)

JoinAgain(r) ==
  /\ seat = r /\ room.inIt
  /\ UNCHANGED service
  /\ Answer(<<RoomUpdate>>)

handleJoinRoom ==
  /\ Handles("JOIN_ROOM")
  /\ LET r == Head(toServer).room
     IN  JoinRefused(r) \/ JoinAccepted(r) \/ JoinAgain(r)

(* READY starts or stops the countdown of a room of two or more.           *)
Counted(t) ==
  [t EXCEPT !.phase = IF t.ready /\ t.others > 0 /\ t.allReady THEN "COUNTING" ELSE "WAITING"]

Countdown == IF room.phase # "COUNTING" /\ room'.phase = "COUNTING"
             THEN <<Plain("COUNTDOWN")>> ELSE <<>>

(* Wrong: an update goes out only with the countdown.                      *)
ReadyWithoutUpdate ==
  /\ Handles("READY") /\ BetweenHands
  /\ room' = Counted([room EXCEPT !.ready = Head(toServer).yes])
  /\ Answer(Countdown)
  /\ UNCHANGED seat

handleReady ==
  /\ Handles("READY") /\ BetweenHands
  /\ room' = Counted([room EXCEPT !.ready = Head(toServer).yes])
  /\ UNCHANGED seat
  /\ Answer(<<RoomUpdate>> \o Countdown)

handleLeaveRoom ==
  /\ Handles("LEAVE_ROOM")
  /\ seat' = NoRoom /\ room' = Nowhere
  /\ Answer(<<>>)

(* handleWin gives up the seats; the entry in the map stays.               *)
HandEnds == room' = [Nowhere EXCEPT !.phase = "FINISHED"]

EndMessages == <<Plain("GAME_END"), OthersUpdate>>

handlePlayCard ==
  /\ Handles("PLAY_CARD") /\ Playing
  /\ \/ HandEnds /\ Answer(EndMessages)
     \/ Answer(<<Plain("MOVE_RESULT")>>) /\ UNCHANGED room
     \/ Answer(<<>>) /\ UNCHANGED room
  /\ UNCHANGED seat

(* Not seated, or in another phase.                                        *)
NothingToDo ==
  /\ \/ Handles("READY") /\ ~BetweenHands
     \/ Handles("PLAY_CARD") /\ ~Playing
  /\ Answer(<<>>)
  /\ UNCHANGED service

Handle ==
  \/ handleRequest \/ handleJoinRoom \/ handleReady \/ handleLeaveRoom
  \/ handlePlayCard \/ NothingToDo

(* updateLoop, when the countdown is over.                                 *)
StartPlaying ==
  /\ room.inIt /\ room.phase = "COUNTING"
  /\ room' = [room EXCEPT !.phase = "PLAYING", !.ready = FALSE, !.allReady = FALSE]
  /\ toMe' = toMe \o <<Plain("GAME_START"), Plain("MOVE_RESULT")>>
  /\ UNCHANGED <<toServer, seat>>

----------------------------------------------------------------------------
(* The other players, in the user's room or with a challenge.              *)

OthersTurnReady ==
  /\ BetweenHands /\ room.others > 0
  /\ \E all \in BOOLEAN : room' = Counted([room EXCEPT !.allReady = all])
  /\ toMe' = toMe \o <<RoomUpdate>> \o Countdown

OtherJoins ==
  /\ BetweenHands /\ room.others < MaxOthers
  /\ room' = [room EXCEPT !.others = @ + 1, !.allReady = FALSE]
  /\ toMe' = Append(toMe, RoomUpdate)

(* Whoever leaves stops the countdown, and only READY starts one again.    *)
OtherLeaves ==
  /\ BetweenHands /\ room.others > 0
  /\ \E all \in {room.allReady, TRUE} :
       room' = [room EXCEPT !.phase = "WAITING", !.others = @ - 1,
                            !.allReady = all /\ room.others > 1]
  /\ toMe' = Append(toMe, RoomUpdate)

(* A move of another player, a turn that times out, or a disconnection.    *)
OtherMoves ==
  /\ Playing
  /\ \/ HandEnds /\ toMe' = toMe \o EndMessages
     \/ toMe' = Append(toMe, Plain("MOVE_RESULT")) /\ UNCHANGED room
     \/ UNCHANGED room /\ toMe' = Append(toMe, RoomUpdate)

Challenged ==
  /\ \E r \in Room : toMe' = Append(toMe, Msg("CHALLENGE_NOTIFICATION", r, TRUE))
  /\ UNCHANGED room

OthersAct ==
  /\ Len(toServer) + Len(toMe) < MaxUnderWay
  /\ UNCHANGED <<toServer, seat>>
  /\ OthersTurnReady \/ OtherJoins \/ OtherLeaves \/ OtherMoves \/ Challenged
=============================================================================
