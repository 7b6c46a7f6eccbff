------------------------- MODULE GameHandler_proofs -------------------------
(***************************************************************************)
(* GameHandler: the inductive invariant behind WaitingSeatIsMapped and     *)
(* MappedIsRecorded.  A change of rooms gives up the old seat only when    *)
(* the old game is found in `games`, so the invariant has to say that a    *)
(* room with seats has an entry there, and that a finished hand has left   *)
(* no seats behind.  And what each room does here is what module Room      *)
(* allows, which SamLocGame implements.                                    *)
(***************************************************************************)
EXTENDS GameHandler, TLAPS

Game == [seated : SUBSET User, gone : SUBSET User,
         phase : {"WAITING", "PLAYING", "FINISHED"}]

SeatsHaveGame   == \A r \in RoomId : room[r].seated # {} => r \in games
FinishedIsEmpty == \A r \in RoomId : room[r].phase = "FINISHED" => room[r].seated = {}

IInv ==
  TypeOK /\ SeatsHaveGame /\ FinishedIsEmpty /\ WaitingSeatIsMapped /\ MappedIsRecorded

----------------------------------------------------------------------------
(* What the operators of RoomStates do to seats and phase.                 *)
LEMMA FreshGame ==
  Fresh \in Game /\ Fresh.seated = {} /\ Fresh.phase = "WAITING"
  BY DEF Fresh, Game

(* What is left of a game when a seat is given up.                         *)
LEMMA PlayerRemoved ==
  ASSUME NEW g \in Game, NEW u \in User
  PROVE  /\ WithoutPlayer(g, u) \in Game
         /\ WithoutPlayer(g, u).seated = g.seated \ {u}
         /\ WithoutPlayer(g, u).phase \in {"WAITING", g.phase}
         /\ g.seated \ {u} = {} => WithoutPlayer(g, u).phase = "WAITING"
  <1>1. CASE g.seated \ {u} = {}
    BY <1>1, FreshGame DEF WithoutPlayer
  <1>2. CASE g.seated \ {u} # {}
    <2>1. WithoutPlayer(g, u) = [g EXCEPT !.seated = @ \ {u}, !.gone = @ \ {u}]
      BY <1>2 DEF WithoutPlayer
    <2>2. QED
      BY <1>2, <2>1 DEF Game
  <1>3. QED
    BY <1>1, <1>2

(* A game with one more seat.                                              *)
LEMMA PlayerAdded ==
  ASSUME NEW g \in Game, NEW u \in User
  PROVE  /\ WithPlayer(g, u) \in Game
         /\ WithPlayer(g, u).seated = g.seated \cup {u}
         /\ WithPlayer(g, u).phase = g.phase
  BY DEF WithPlayer, Game

(* A game whose hand begins.                                               *)
LEMMA HandStarted ==
  ASSUME NEW g \in Game
  PROVE  /\ Started(g) \in Game /\ Started(g).seated = g.seated
         /\ Started(g).phase = "PLAYING"
  BY DEF Started, Game

(* A finished hand leaves no seats.                                        *)
LEMMA HandEnded == Ended \in Game /\ Ended.seated = {} /\ Ended.phase = "FINISHED"
  BY DEF Ended, Game

(* A finished room that takes players again.                               *)
LEMMA RoomReopened ==
  ASSUME NEW g \in Game
  PROVE  /\ Reopened(g) \in Game /\ Reopened(g).seated = g.seated
         /\ Reopened(g).phase = "WAITING"
  BY DEF Reopened, Game

(* A broken connection leaves the player out of a waiting room, and no     *)
(* room is finished by it.                                                 *)
LEMMA ConnectionBroken ==
  ASSUME NEW g \in Game, NEW u \in User, g.phase = "FINISHED" => g.seated = {}
  PROVE  /\ WithoutConnection(g, u) \in Game
         /\ WithoutConnection(g, u).seated \subseteq g.seated
         /\ WithoutConnection(g, u).phase # "FINISHED"
         /\ WithoutConnection(g, u).phase # "PLAYING" =>
              u \notin WithoutConnection(g, u).seated
         /\ WithoutConnection(g, u).phase # "PLAYING" =>
              g.phase # "PLAYING" \/ WithoutConnection(g, u).seated = {}
  <1>1. CASE g.phase # "PLAYING"
    <2>1. WithoutConnection(g, u) = WithoutPlayer(g, u)
      BY <1>1 DEF WithoutConnection
    <2>2. QED
      BY <1>1, <2>1, PlayerRemoved
  <1>2. CASE g.phase = "PLAYING"
    <2>1. CASE WithoutConnection(g, u) = g
      BY <1>2, <2>1
    <2>2. CASE WithoutConnection(g, u) = Fresh
      BY <2>2, FreshGame
    <2>3. CASE WithoutConnection(g, u) = [g EXCEPT !.gone = @ \cup {u}]
      BY <1>2, <2>3 DEF Game
    <2>4. QED
      BY <1>2, <2>1, <2>2, <2>3 DEF WithoutConnection
  <1>3. QED
    BY <1>1, <1>2

----------------------------------------------------------------------------
(* No rooms, no seats, no rows at the start.                               *)
LEMMA InitIInv == Init => IInv
  <1> SUFFICES ASSUME Init PROVE IInv
    OBVIOUS
  <1>1. TypeOK
    BY FreshGame DEF Init, TypeOK, Game
  <1>2. SeatsHaveGame /\ FinishedIsEmpty /\ WaitingSeatIsMapped
    BY FreshGame DEF Init, SeatsHaveGame, FinishedIsEmpty, WaitingSeatIsMapped
  <1>3. MappedIsRecorded
    BY DEF Init, MappedIsRecorded
  <1>4. QED
    BY <1>1, <1>2, <1>3 DEF IInv

(* Joining another room leaves no seat in a room that is not playing.      *)
LEMMA OtherSeatGivenUp ==
  ASSUME IInv, NEW u \in User, NEW r \in RoomId \cup {NoRoom}
  PROVE  /\ AfterLeaving(u, r) \in [RoomId -> Game]
         /\ \A q \in RoomId :
              /\ AfterLeaving(u, r)[q].seated \subseteq room[q].seated
              /\ AfterLeaving(u, r)[q].phase = room[q].phase
              /\ \A v \in User \ {u} :
                   v \in AfterLeaving(u, r)[q].seated => v \in room[q].seated
              /\ q # r /\ room[q].phase # "PLAYING" => u \notin AfterLeaving(u, r)[q].seated
              /\ q = r => AfterLeaving(u, r)[q] = room[q]
  <1> USE DEF IInv
  <1> DEFINE old == userRoomMap[u]
  <1>0. room \in [RoomId -> Game] /\ old \in RoomId \cup {NoRoom}
    BY DEF TypeOK, Game
  <1>1. CASE LeavesOther(u, r)
    <2>1. old \in RoomId /\ old # r /\ room[old].phase = "WAITING"
      BY <1>0, <1>1 DEF LeavesOther
    <2>2. /\ WithoutPlayer(room[old], u) \in Game
          /\ WithoutPlayer(room[old], u).seated = room[old].seated \ {u}
          /\ WithoutPlayer(room[old], u).phase = "WAITING"
      BY <1>0, <2>1, PlayerRemoved
    <2>3. AfterLeaving(u, r) = [room EXCEPT ![old] = WithoutPlayer(room[old], u)]
      BY <1>1 DEF AfterLeaving
    <2>4. ASSUME NEW q \in RoomId, q # old PROVE AfterLeaving(u, r)[q] = room[q]
      BY <1>0, <2>3, <2>4
    <2>5. AfterLeaving(u, r)[old] = WithoutPlayer(room[old], u)
      BY <1>0, <2>1, <2>3
    <2>6. \A q \in RoomId : q # old /\ room[q].phase # "PLAYING" => u \notin room[q].seated
      BY DEF WaitingSeatIsMapped
    <2>7. AfterLeaving(u, r) \in [RoomId -> Game]
      BY <1>0, <2>1, <2>2, <2>3
    <2>8. QED
      BY <2>1, <2>2, <2>4, <2>5, <2>6, <2>7
  <1>2. CASE ~LeavesOther(u, r)
    <2>1. AfterLeaving(u, r) = room
      BY <1>2 DEF AfterLeaving
    <2>2. ASSUME NEW q \in RoomId, q # r, room[q].phase # "PLAYING", u \in room[q].seated
          PROVE  FALSE
      <3>1. old = q /\ q \in games
        BY <2>2 DEF WaitingSeatIsMapped, SeatsHaveGame
      <3>2. room[q].phase = "WAITING"
        BY <1>0, <2>2 DEF FinishedIsEmpty, Game
      <3>3. old # NoRoom
        BY <3>1, HandlerAssumption
      <3>4. QED
        BY <1>2, <2>2, <3>1, <3>2, <3>3 DEF LeavesOther
    <2>3. QED
      BY <1>0, <2>1, <2>2
  <1>3. QED
    BY <1>1, <1>2

(* A refused join has given up the seat in a waiting room, and its mapping *)
(* with it.                                                                *)
LEMMA JoinRefusedStep ==
  ASSUME IInv, NEW u \in User, NEW r \in RoomId \cup {NoRoom}, JoinRefused(u, r)
  PROVE  IInv'
  <1> USE DEF IInv
  <1>1. /\ room' \in [RoomId -> Game]
        /\ \A q \in RoomId : /\ room'[q].seated \subseteq room[q].seated
                             /\ room'[q].phase = room[q].phase
    BY OtherSeatGivenUp DEF JoinRefused
  <1>2. /\ userRoomMap' \in [User -> RoomId \cup {NoRoom}]
        /\ \A v \in User : userRoomMap'[v] \in {userRoomMap[v], NoRoom}
        /\ \A v \in User \ {u} : userRoomMap'[v] = userRoomMap[v]
    BY DEF JoinRefused, Unmapped, TypeOK
  <1>3. /\ games \subseteq games' /\ games' \subseteq RoomId
        /\ roomPlayers' = roomPlayers /\ unrecorded' = unrecorded
    BY DEF JoinRefused, TypeOK
  <1>4. TypeOK'
    BY <1>1, <1>2, <1>3 DEF TypeOK, Game
  <1>5. SeatsHaveGame' /\ FinishedIsEmpty'
    <2>1. SeatsHaveGame'
      BY <1>1, <1>3 DEF SeatsHaveGame
    <2>2. FinishedIsEmpty'
      BY <1>1 DEF FinishedIsEmpty
    <2>3. QED
      BY <2>1, <2>2
  <1>6. WaitingSeatIsMapped'
    <2> SUFFICES ASSUME NEW q \in RoomId, NEW v \in room'[q].seated,
                        room'[q].phase # "PLAYING"
                 PROVE  userRoomMap'[v] = q
      BY DEF WaitingSeatIsMapped
    <2>1. v \in User /\ v \in room[q].seated /\ userRoomMap[v] = q
      BY <1>1 DEF WaitingSeatIsMapped, Game
    <2>2. CASE LeavesOther(u, r) /\ v = u
      <3>1. q # r
        BY <2>1, <2>2 DEF LeavesOther
      <3>2. u \notin AfterLeaving(u, r)[q].seated
        BY <1>1, <3>1, OtherSeatGivenUp
      <3>3. QED
        BY <2>2, <3>2 DEF JoinRefused
    <2>3. CASE ~LeavesOther(u, r) \/ v # u
      BY <1>2, <2>1, <2>3 DEF JoinRefused
    <2>4. QED
      BY <2>2, <2>3
  <1>7. MappedIsRecorded'
    BY <1>2, <1>3 DEF MappedIsRecorded
  <1>8. QED
    BY <1>4, <1>5, <1>6, <1>7

(* An accepted join maps the user, whether or not there was a seat, and    *)
(* adds the row or remembers that it could not.                            *)
LEMMA JoinAcceptedStep ==
  ASSUME IInv, NEW u \in User, NEW r \in RoomId, JoinAccepted(u, r)
  PROVE  IInv'
  <1> USE DEF IInv
  <1> DEFINE left == AfterLeaving(u, r)
  <1>0. /\ left \in [RoomId -> Game]
        /\ \A q \in RoomId :
             /\ left[q].seated \subseteq room[q].seated
             /\ left[q].phase = room[q].phase
             /\ q # r /\ room[q].phase # "PLAYING" => u \notin left[q].seated
             /\ q = r => left[q] = room[q]
    BY OtherSeatGivenUp
  <1>1. /\ userRoomMap' \in [User -> RoomId \cup {NoRoom}]
        /\ userRoomMap'[u] = r
        /\ \A v \in User \ {u} : userRoomMap'[v] = userRoomMap[v]
        /\ games' = games \cup {r}
        /\ roomPlayers \subseteq roomPlayers' /\ roomPlayers' \subseteq RoomId \X User
        /\ unrecorded \ {u} \subseteq unrecorded' /\ unrecorded' \subseteq User
        /\ u \in unrecorded' \/ <<r, u>> \in roomPlayers'
    BY DEF JoinAccepted, AddPlayerToRoom, TypeOK
  <1> HIDE DEF left
  <1>2. /\ room' \in [RoomId -> Game]
        /\ \A q \in RoomId :
             /\ room'[q].seated \subseteq room[q].seated \cup {u}
             /\ room'[q].phase = room[q].phase
             /\ q # r => room'[q].seated \subseteq room[q].seated
             /\ q # r /\ room[q].phase # "PLAYING" => u \notin room'[q].seated
    <2>1. CASE room' = [left EXCEPT ![r] = WithPlayer(@, u)]
      <3>1. left[r] \in Game
        BY <1>0
      <3>2. /\ WithPlayer(left[r], u) \in Game
            /\ WithPlayer(left[r], u).seated = left[r].seated \cup {u}
            /\ WithPlayer(left[r], u).phase = left[r].phase
        BY <3>1, PlayerAdded
      <3>3. room'[r] = WithPlayer(left[r], u) /\ room' \in [RoomId -> Game]
        BY <1>0, <2>1, <3>2
      <3>4. \A q \in RoomId : q # r => room'[q] = left[q]
        BY <1>0, <2>1
      <3>5. QED
        BY <1>0, <3>2, <3>3, <3>4
    <2>2. CASE room' = left
      BY <1>0, <2>2
    <2>3. QED
      BY <2>1, <2>2 DEF JoinAccepted, left
  <1>3. room[r].phase = "FINISHED" => room'[r].seated = {}
    <2>1. SUFFICES ASSUME room[r].phase = "FINISHED" PROVE FALSE
      OBVIOUS
    <2>2. room[r].seated = {} /\ ~MayEnter(room[r])
      BY <2>1 DEF FinishedIsEmpty, MayEnter
    <2>3. QED
      BY <2>2 DEF JoinAccepted
  <1>4. TypeOK'
    BY <1>1, <1>2 DEF TypeOK, Game
  <1>5. SeatsHaveGame'
    BY <1>1, <1>2 DEF SeatsHaveGame
  <1>6. FinishedIsEmpty'
    BY <1>2, <1>3 DEF FinishedIsEmpty
  <1>7. WaitingSeatIsMapped'
    <2> SUFFICES ASSUME NEW q \in RoomId, NEW v \in room'[q].seated,
                        room'[q].phase # "PLAYING"
                 PROVE  userRoomMap'[v] = q
      BY DEF WaitingSeatIsMapped
    <2>1. CASE v = u
      BY <1>1, <1>2, <2>1
    <2>2. CASE v # u
      <3>1. v \in User /\ v \in room[q].seated /\ room[q].phase # "PLAYING"
        BY <1>2, <2>2 DEF Game
      <3>2. QED
        BY <1>1, <2>2, <3>1 DEF WaitingSeatIsMapped
    <2>3. QED
      BY <2>1, <2>2
  <1>8. MappedIsRecorded'
    BY <1>1 DEF MappedIsRecorded
  <1>9. QED
    BY <1>4, <1>5, <1>6, <1>7, <1>8

----------------------------------------------------------------------------
(* Giving up a seat, for a game g without the player unless it is playing. *)
LEMMA GiveUpSeatStep ==
  ASSUME IInv, NEW u \in User, userRoomMap[u] \in games, NEW g \in Game,
         g.seated \subseteq room[userRoomMap[u]].seated,
         g.phase # "FINISHED",
         g.phase # "PLAYING" => u \notin g.seated,
         g.phase # "PLAYING" =>
           room[userRoomMap[u]].phase # "PLAYING" \/ g.seated = {},
         GiveUpSeat(u, userRoomMap[u], g)
  PROVE  IInv'
  <1> USE DEF IInv
  <1> DEFINE r == userRoomMap[u]
  <1>0. r \in RoomId
    BY DEF TypeOK
  <1>1. /\ room' \in [RoomId -> Game] /\ room'[r] = g
        /\ \A q \in RoomId \ {r} : room'[q] = room[q]
    BY <1>0 DEF GiveUpSeat, TypeOK, Game
  <1>2. /\ userRoomMap' \in [User -> RoomId \cup {NoRoom}]
        /\ userRoomMap'[u] = NoRoom
        /\ \A v \in User \ {u} : userRoomMap'[v] = userRoomMap[v]
    BY DEF GiveUpSeat, Unmapped, TypeOK
  <1>3. /\ games' \subseteq RoomId
        /\ \A q \in games : q # r \/ g.seated # {} => q \in games'
        /\ roomPlayers \ {<<r, u>>} \subseteq roomPlayers'
        /\ roomPlayers' \subseteq RoomId \X User /\ unrecorded' = unrecorded
    BY DEF GiveUpSeat, RemovePlayerFromRoom, TypeOK
  <1> HIDE DEF r
  <1>4. TypeOK'
    BY <1>1, <1>2, <1>3 DEF TypeOK, Game
  <1>5. SeatsHaveGame'
    <2> SUFFICES ASSUME NEW q \in RoomId, room'[q].seated # {} PROVE q \in games'
      BY DEF SeatsHaveGame
    <2>1. CASE q = r
      BY <1>1, <1>3, <2>1 DEF r
    <2>2. CASE q # r
      BY <1>1, <1>3, <2>2 DEF SeatsHaveGame
    <2>3. QED
      BY <2>1, <2>2
  <1>6. FinishedIsEmpty'
    BY <1>1 DEF FinishedIsEmpty
  <1>7. WaitingSeatIsMapped'
    <2> SUFFICES ASSUME NEW q \in RoomId, NEW v \in room'[q].seated,
                        room'[q].phase # "PLAYING"
                 PROVE  userRoomMap'[v] = q
      BY DEF WaitingSeatIsMapped
    <2>1. v \in User
      BY <1>1 DEF Game
    <2>2. CASE q = r
      BY <1>0, <1>1, <1>2, <2>1, <2>2 DEF WaitingSeatIsMapped, r
    <2>3. CASE q # r
      BY <1>1, <1>2, <2>1, <2>3 DEF WaitingSeatIsMapped, r
    <2>4. QED
      BY <2>2, <2>3
  <1>8. MappedIsRecorded'
    BY <1>2, <1>3 DEF MappedIsRecorded
  <1>9. QED
    BY <1>4, <1>5, <1>6, <1>7, <1>8

(* Steps of one room's game that keep everybody mapped as before.          *)
LEMMA RoomStep ==
  ASSUME IInv, NEW r \in games, NEW g \in Game,
         g.seated \subseteq room[r].seated,
         g.phase = "FINISHED" => g.seated = {},
         g.phase # "PLAYING" => room[r].phase # "PLAYING" \/ g.seated = {},
         room' = [room EXCEPT ![r] = g],
         UNCHANGED <<userRoomMap, games, roomPlayers, unrecorded>>
  PROVE  IInv'
  <1> USE DEF IInv
  <1>1. r \in RoomId /\ room \in [RoomId -> Game]
    BY DEF TypeOK, Game
  <1>2. /\ room' \in [RoomId -> Game] /\ room'[r] = g
        /\ \A q \in RoomId \ {r} : room'[q] = room[q]
    BY <1>1
  <1>3. TypeOK'
    BY <1>2 DEF TypeOK, Game
  <1>4. SeatsHaveGame' /\ FinishedIsEmpty'
    BY <1>2 DEF SeatsHaveGame, FinishedIsEmpty
  <1>5. WaitingSeatIsMapped'
    BY <1>1, <1>2 DEF WaitingSeatIsMapped
  <1>6. MappedIsRecorded'
    BY DEF MappedIsRecorded
  <1>7. QED
    BY <1>3, <1>4, <1>5, <1>6

(* Every message, broken connection and timer keeps the invariant.         *)
LEMMA NextIInv == IInv /\ [Next]_vars => IInv'
  <1> SUFFICES ASSUME IInv, [Next]_vars PROVE IInv'
    OBVIOUS
  <1>0. /\ games \subseteq RoomId
        /\ room \in [RoomId -> Game]
        /\ \A r \in RoomId : room[r].phase = "FINISHED" => room[r].seated = {}
    BY DEF IInv, TypeOK, Game, FinishedIsEmpty
  <1>1. ASSUME NEW u \in User, NEW r \in RoomId \cup {NoRoom}, JoinRoom(u, r) PROVE IInv'
    <2>1. CASE JoinRefused(u, r)
      BY <2>1, JoinRefusedStep
    <2>2. CASE JoinAccepted(u, r)
      <3>1. r \in RoomId
        BY <2>2 DEF JoinAccepted
      <3>2. QED
        BY <2>2, <3>1, JoinAcceptedStep
    <2>3. QED
      BY <1>1, <2>1, <2>2 DEF JoinRoom
  <1>2. ASSUME NEW u \in User, LeaveRoom(u) PROVE IInv'
    <2> DEFINE r == userRoomMap[u]
               g == WithoutPlayer(room[r], u)
    <2>1. r \in games /\ r \in RoomId /\ room[r] \in Game /\ GiveUpSeat(u, r, g)
      BY <1>0, <1>2 DEF LeaveRoom
    <2>2. /\ g \in Game /\ g.seated = room[r].seated \ {u}
          /\ g.phase \in {"WAITING", room[r].phase}
          /\ room[r].seated \ {u} = {} => g.phase = "WAITING"
      BY <2>1, PlayerRemoved
    <2>3. g.phase # "FINISHED"
      BY <1>0, <2>1, <2>2
    <2>4. g.phase # "PLAYING" => room[r].phase # "PLAYING" \/ g.seated = {}
      <3>1. CASE room[r].seated \ {u} = {}
        BY <2>2, <3>1
      <3>2. CASE room[r].seated \ {u} # {}
        BY <2>1, <3>2 DEF WithoutPlayer, Game
      <3>3. QED
        BY <3>1, <3>2
    <2> HIDE DEF g
    <2>5. QED
      BY <2>1, <2>2, <2>3, <2>4, GiveUpSeatStep
  <1>3. ASSUME NEW u \in User, onClientDisconnect(u) PROVE IInv'
    <2> DEFINE r == userRoomMap[u]
               g == WithoutConnection(room[r], u)
    <2>1. CASE r \in games /\ GiveUpSeat(u, r, g)
      <3>1. room[r] \in Game /\ (room[r].phase = "FINISHED" => room[r].seated = {})
        BY <1>0, <2>1
      <3>2. /\ g \in Game /\ g.seated \subseteq room[r].seated /\ g.phase # "FINISHED"
            /\ g.phase # "PLAYING" => u \notin g.seated
            /\ g.phase # "PLAYING" => room[r].phase # "PLAYING" \/ g.seated = {}
        BY <3>1, ConnectionBroken
      <3> HIDE DEF g
      <3>3. QED
        BY <2>1, <3>2, GiveUpSeatStep
    <2>2. CASE /\ r \in RoomId \ games
               /\ userRoomMap' = Unmapped(u)
               /\ UNCHANGED <<games, room, roomPlayers, unrecorded>>
      <3>1. /\ userRoomMap' \in [User -> RoomId \cup {NoRoom}]
            /\ userRoomMap'[u] = NoRoom
            /\ \A v \in User \ {u} : userRoomMap'[v] = userRoomMap[v]
        BY <2>2 DEF Unmapped, IInv, TypeOK
      <3>2. TypeOK' /\ SeatsHaveGame' /\ FinishedIsEmpty'
        BY <2>2, <3>1 DEF IInv, TypeOK, SeatsHaveGame, FinishedIsEmpty
      <3>3. WaitingSeatIsMapped'
        <4> SUFFICES ASSUME NEW q \in RoomId, NEW v \in room[q].seated,
                            room[q].phase # "PLAYING"
                     PROVE  userRoomMap'[v] = q
          BY <2>2 DEF WaitingSeatIsMapped
        <4>1. v \in User /\ userRoomMap[v] = q /\ q \in games
          BY <1>0 DEF IInv, WaitingSeatIsMapped, SeatsHaveGame, Game
        <4>2. v # u
          BY <2>2, <4>1
        <4>3. QED
          BY <3>1, <4>1, <4>2
      <3>4. MappedIsRecorded'
        BY <2>2, <3>1 DEF IInv, MappedIsRecorded
      <3>5. QED
        BY <3>2, <3>3, <3>4 DEF IInv
    <2>3. QED
      BY <1>3, <2>1, <2>2 DEF onClientDisconnect
  <1>4. ASSUME NEW u \in User, Ready(u) PROVE IInv'
    <2> DEFINE r == userRoomMap[u]
    <2>1. /\ r \in games /\ r \in RoomId /\ room[r] \in Game /\ room[r].seated = {}
          /\ room' = [room EXCEPT ![r] = Reopened(room[r])]
          /\ UNCHANGED <<userRoomMap, games, roomPlayers, unrecorded>>
      BY <1>0, <1>4 DEF Ready
    <2>2. /\ Reopened(room[r]) \in Game /\ Reopened(room[r]).seated = {}
          /\ Reopened(room[r]).phase = "WAITING"
      BY <2>1, RoomReopened
    <2>3. QED
      BY <2>1, <2>2, RoomStep
  <1>5. ASSUME NEW u \in User, PlayLastCards(u) PROVE IInv'
    <2> DEFINE r == userRoomMap[u]
    <2>1. /\ r \in games /\ r \in RoomId
          /\ room' = [room EXCEPT ![r] = Ended]
          /\ UNCHANGED <<userRoomMap, games, roomPlayers, unrecorded>>
      BY <1>0, <1>5 DEF PlayLastCards
    <2>2. QED
      BY <2>1, HandEnded, RoomStep
  <1>6. ASSUME NEW r \in RoomId, updateLoop(r) PROVE IInv'
    <2>1. /\ r \in games /\ room[r] \in Game
          /\ room' = [room EXCEPT ![r] = Started(room[r])]
          /\ UNCHANGED <<userRoomMap, games, roomPlayers, unrecorded>>
      BY <1>0, <1>6 DEF updateLoop
    <2>2. /\ Started(room[r]) \in Game /\ Started(room[r]).seated = room[r].seated
          /\ Started(room[r]).phase = "PLAYING"
      BY <2>1, HandStarted
    <2>3. QED
      BY <2>1, <2>2, RoomStep
  <1>7. CASE UNCHANGED vars
    BY <1>7 DEF vars, IInv, TypeOK, SeatsHaveGame, FinishedIsEmpty, WaitingSeatIsMapped,
                MappedIsRecorded
  <1>8. CASE Crash
    <2>1. TypeOK'
      BY <1>8, FreshGame DEF Crash, IInv, TypeOK, Game
    <2>2. SeatsHaveGame' /\ FinishedIsEmpty' /\ WaitingSeatIsMapped'
      BY <1>8, FreshGame DEF Crash, SeatsHaveGame, FinishedIsEmpty, WaitingSeatIsMapped
    <2>3. MappedIsRecorded'
      BY <1>8 DEF Crash, MappedIsRecorded
    <2>4. QED
      BY <2>1, <2>2, <2>3 DEF IInv
  <1>9. QED
    BY <1>1, <1>2, <1>3, <1>4, <1>5, <1>6, <1>7, <1>8 DEF Next

(* For any number of users and rooms: types, and the invariant above.      *)
THEOREM InductiveInvariant == Spec => []IInv
  BY InitIInv, NextIInv, PTL DEF Spec

(* A seat outside a running hand is always found through userRoomMap.      *)
THEOREM WaitingSeatsAreMapped == Spec => []WaitingSeatIsMapped
  <1>1. IInv => WaitingSeatIsMapped
    BY DEF IInv
  <1>2. QED
    BY <1>1, InductiveInvariant, PTL

(* Whoever is mapped to a room is among the recipients of its chat, unless *)
(* the INSERT of that join failed; no other failure and no restart parts   *)
(* the map from the table (addPlayerToRoom, removePlayerFromRoom).         *)
THEOREM MappedAreRecorded == Spec => []MappedIsRecorded
  <1>1. IInv => MappedIsRecorded
    BY DEF IInv
  <1>2. QED
    BY <1>1, InductiveInvariant, PTL


----------------------------------------------------------------------------
(* The server's rooms, one by one: each of them is a Room.  Together with  *)
(* SamLocGame_proofs, which shows the same of the game that is played in   *)
(* it, this is why one record per room may stand for the game's object.    *)

RoomOf(r) == INSTANCE Room WITH Player <- User, room <- room[r]

(* The operators of RoomStates are the same for a room of the server.      *)
LEMMA SameOperators ==
  ASSUME NEW r \in RoomId
  PROVE  /\ RoomOf(r)!Fresh = Fresh
         /\ RoomOf(r)!Ended = Ended
         /\ \A g : /\ RoomOf(r)!MayEnter(g) = MayEnter(g)
                   /\ RoomOf(r)!MayStart(g) = MayStart(g)
                   /\ RoomOf(r)!Started(g) = Started(g)
                   /\ RoomOf(r)!Reopened(g) = Reopened(g)
         /\ \A g, p : /\ RoomOf(r)!WithPlayer(g, p) = WithPlayer(g, p)
                      /\ RoomOf(r)!WithoutPlayer(g, p) = WithoutPlayer(g, p)
                      /\ RoomOf(r)!WithoutConnection(g, p) = WithoutConnection(g, p)
  <1>1. RoomOf(r)!Fresh = Fresh /\ RoomOf(r)!Ended = Ended
    BY DEF RoomOf!Fresh, Fresh, RoomOf!Ended, Ended
  <1>2. \A S : RoomOf(r)!Cardinality(S) = Cardinality(S)
    BY DEF RoomOf!Cardinality, Cardinality, RoomOf!IsFiniteSet, IsFiniteSet
  <1>3. \A g : /\ RoomOf(r)!MayEnter(g) = MayEnter(g)
               /\ RoomOf(r)!MayStart(g) = MayStart(g)
    BY <1>2 DEF RoomOf!MayEnter, MayEnter, RoomOf!MayStart, MayStart
  <1>4. \A g : /\ RoomOf(r)!Started(g) = Started(g)
               /\ RoomOf(r)!Reopened(g) = Reopened(g)
    BY Zenon DEF RoomOf!Started, Started, RoomOf!Reopened, Reopened
  <1>5. \A g, p : /\ RoomOf(r)!WithPlayer(g, p) = WithPlayer(g, p)
                  /\ RoomOf(r)!WithoutPlayer(g, p) = WithoutPlayer(g, p)
    BY <1>1, Zenon DEF RoomOf!WithPlayer, WithPlayer, RoomOf!WithoutPlayer, WithoutPlayer
  <1>6. \A g, p : RoomOf(r)!WithoutConnection(g, p) = WithoutConnection(g, p)
    <2>1. \A g : RoomOf(r)!Connected(g) = Connected(g)
      BY DEF RoomOf!Connected, Connected
    <2>2. SUFFICES ASSUME NEW g, NEW p
                   PROVE  RoomOf(r)!WithoutConnection(g, p) = WithoutConnection(g, p)
      OBVIOUS
    <2>3. /\ RoomOf(r)!Fresh = Fresh
          /\ RoomOf(r)!WithoutPlayer(g, p) = WithoutPlayer(g, p)
          /\ RoomOf(r)!Connected(g) = Connected(g)
          /\ RoomOf(r)!Cardinality(Connected(g) \ {p}) = Cardinality(Connected(g) \ {p})
      BY <1>1, <1>2, <1>5, <2>1
    <2>4. QED
      BY <2>3, Zenon DEF RoomOf!WithoutConnection, WithoutConnection
  <1>7. QED
    BY <1>1, <1>3, <1>4, <1>5, <1>6

(* Changing rooms gives up the seat in one room and concerns no other.     *)
LEMMA LeavingIsAStep ==
  ASSUME IInv, NEW u \in User, NEW r \in RoomId \cup {NoRoom}, NEW q \in RoomId
  PROVE  AfterLeaving(u, r)[q] \in {room[q], WithoutPlayer(room[q], u)}
  <1>1. room \in [RoomId -> Game]
    BY DEF IInv, TypeOK, Game
  <1>2. QED
    BY <1>1 DEF AfterLeaving

(* What a step of the server can make of the record of one room.           *)
Moves(g, h) ==
  \/ h = g
  \/ \E u \in User :
       \/ u \notin g.seated /\ MayEnter(g) /\ h = WithPlayer(g, u)
       \/ h \in {WithoutPlayer(g, u), WithoutConnection(g, u)}
       \/ g.phase = "PLAYING" /\ u \in g.seated /\ h = Ended
  \/ MayStart(g) /\ h = Started(g)
  \/ g.phase = "FINISHED" /\ h = Reopened(g)
  \/ h = Fresh

(* A step of the server is, for each room, a step of that room or none; a  *)
(* join may be a step of two of them.                                      *)
LEMMA ServerMovesRooms ==
  ASSUME IInv, [Next]_vars, NEW q \in RoomId
  PROVE  Moves(room[q], room'[q])
  <1>1. room \in [RoomId -> Game] /\ games \subseteq RoomId
    BY DEF IInv, TypeOK, Game
  <1>2. ASSUME NEW u \in User, NEW r \in RoomId \cup {NoRoom}, JoinRefused(u, r)
        PROVE  Moves(room[q], room'[q])
    BY <1>2, LeavingIsAStep DEF JoinRefused, Moves
  <1>3. ASSUME NEW u \in User, NEW r \in RoomId \cup {NoRoom}, JoinAccepted(u, r)
        PROVE  Moves(room[q], room'[q])
    <2> DEFINE left == AfterLeaving(u, r)
    <2>1. /\ r \in RoomId
          /\ u \in room[r].seated \/ MayEnter(room[r])
          /\ room' = left \/ room' = [left EXCEPT ![r] = WithPlayer(@, u)]
      BY <1>3 DEF JoinAccepted
    <2>2. left \in [RoomId -> Game] /\ left[r] = room[r]
      BY <2>1, OtherSeatGivenUp
    <2>3. left[q] \in {room[q], WithoutPlayer(room[q], u)}
      BY LeavingIsAStep
    <2> HIDE DEF left
    <2>4. CASE room' = left \/ q # r
      <3>1. room'[q] = left[q]
        BY <2>1, <2>2, <2>4
      <3>2. QED
        BY <2>3, <3>1 DEF Moves
    <2>5. CASE q = r /\ room' = [left EXCEPT ![r] = WithPlayer(@, u)]
      <3>1. room'[q] = WithPlayer(room[q], u)
        BY <2>2, <2>5
      <3>2. u \in room[q].seated => WithPlayer(room[q], u) = room[q]
        <4>1. room[q] \in Game
          BY <1>1
        <4>2. u \in room[q].seated => room[q].seated \cup {u} = room[q].seated
          OBVIOUS
        <4>3. QED
          BY <4>1, <4>2 DEF WithPlayer, Game
      <3>3. QED
        BY <2>1, <2>5, <3>1, <3>2 DEF Moves
    <2>6. QED
      BY <2>1, <2>4, <2>5
  <1>4. ASSUME NEW r \in RoomId, NEW h, room' = [room EXCEPT ![r] = h], Moves(room[r], h)
        PROVE  Moves(room[q], room'[q])
    <2>1. q = r => room'[q] = h
      BY <1>1, <1>4
    <2>2. q # r => room'[q] = room[q]
      BY <1>1, <1>4
    <2>3. QED
      BY <1>4, <2>1, <2>2 DEF Moves
  <1>5. ASSUME NEW u \in User, LeaveRoom(u) \/ onClientDisconnect(u)
        PROVE  Moves(room[q], room'[q])
    <2> DEFINE r == userRoomMap[u]
    <2>1. CASE room' = room
      BY <2>1 DEF Moves
    <2>2. ASSUME r \in games, NEW h \in {WithoutPlayer(room[r], u), WithoutConnection(room[r], u)},
                 room' = [room EXCEPT ![r] = h]
          PROVE  Moves(room[q], room'[q])
      <3>1. Moves(room[r], h) /\ r \in RoomId
        BY <1>1, <2>2 DEF Moves
      <3>2. QED
        BY <1>4, <2>2, <3>1
    <2>3. QED
      BY <1>5, <2>1, <2>2 DEF LeaveRoom, onClientDisconnect, GiveUpSeat
  <1>6. ASSUME NEW u \in User, Ready(u) \/ PlayLastCards(u)
        PROVE  Moves(room[q], room'[q])
    <2> DEFINE r == userRoomMap[u]
    <2>1. CASE Ready(u)
      <3>1. r \in RoomId /\ Moves(room[r], Reopened(room[r]))
        BY <1>1, <2>1 DEF Ready, Moves
      <3>2. QED
        BY <1>4, <2>1, <3>1 DEF Ready
    <2>2. CASE PlayLastCards(u)
      <3>1. r \in RoomId /\ Moves(room[r], Ended)
        BY <1>1, <2>2 DEF PlayLastCards, Moves
      <3>2. QED
        BY <1>4, <2>2, <3>1 DEF PlayLastCards
    <2>3. QED
      BY <1>6, <2>1, <2>2
  <1>7. ASSUME NEW r \in RoomId, updateLoop(r)
        PROVE  Moves(room[q], room'[q])
    <2>1. Moves(room[r], Started(room[r])) /\ room' = [room EXCEPT ![r] = Started(room[r])]
      BY <1>7 DEF updateLoop, Moves
    <2>2. QED
      BY <1>4, <2>1
  <1>8. CASE UNCHANGED vars
    BY <1>8 DEF vars, Moves
  <1>9. CASE Crash
    BY <1>9 DEF Crash, Moves
  <1>10. QED
    BY <1>2, <1>3, <1>5, <1>6, <1>7, <1>8, <1>9 DEF Next, JoinRoom

(* Every room of the server, with any number of users and rooms, behaves   *)
(* like module Room: joins, departures, broken connections, timers, hands  *)
(* and restarts, in whatever order the messages come, never bring a        *)
(* room where the game of module SamLocGame could not be (handleMessage,   *)
(* onClientDisconnect, updateLoop).                                        *)
THEOREM EveryRoomIsARoom == Spec => \A r \in RoomId : RoomOf(r)!Spec
  <1> SUFFICES ASSUME NEW r \in RoomId PROVE Spec => RoomOf(r)!Spec
    OBVIOUS
  <1>1. Init => RoomOf(r)!Init
    BY SameOperators DEF Init, RoomOf!Init
  <1>2. IInv /\ [Next]_vars => [RoomOf(r)!Next]_(room[r])
    <2> SUFFICES ASSUME IInv, [Next]_vars PROVE RoomOf(r)!Next \/ room[r]' = room[r]
      OBVIOUS
    <2>1. Moves(room[r], room[r]')
      BY ServerMovesRooms
    <2>2. QED
      BY <2>1, SameOperators
         DEF Moves, RoomOf!Next, RoomOf!Enter, RoomOf!Leave, RoomOf!Break, RoomOf!Start,
             RoomOf!End, RoomOf!Reopen, RoomOf!Stop
  <1>3. QED
    BY <1>1, <1>2, InductiveInvariant, PTL DEF Spec, RoomOf!Spec
=============================================================================
