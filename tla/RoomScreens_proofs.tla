-------------------------- MODULE RoomScreens_proofs ---------------------------
(***************************************************************************)
(* The client's screens and one user's seat at the server: which callbacks *)
(* are called, and that the screen shows the seat, the hand and the ready  *)
(* flag, for any set of rooms and any number of players and messages.      *)
(*                                                                         *)
(* The two sides are related by what is under way between them.  There is  *)
(* at most one join, and nothing the waiting room asks for is behind it.   *)
(* A stay begins at the join's success in the queue to the client, or with *)
(* the waiting room once that has come; what is behind that point brings   *)
(* the screen to the phase of the room and the button to the user's flag.  *)
(* A hand that has begun is announced to whoever sees the countdown, and   *)
(* so a countdown is lost only when the server stops it.                   *)
(***************************************************************************)
EXTENDS RoomScreens, SequenceTheorems, TLAPS

(* An update without the user among the members is of a kind of its own.   *)
Kind(m) == IF m.type = "ROOM_UPDATE" /\ m.room = NoRoom THEN "OTHERS_UPDATE" ELSE m.type

Has(q, k) == \E i \in 1..Len(q) : Kind(q[i]) = k

(* A message of kind l comes after one of kind k.                          *)
Behind(q, k, l) == \E i, j \in 1..Len(q) : i < j /\ Kind(q[i]) = k /\ Kind(q[j]) = l

(* The last update says v.                                                 *)
LastSays(q, v) ==
  \E i \in 1..Len(q) :
    /\ Kind(q[i]) = "ROOM_UPDATE" /\ q[i].yes = v
    /\ \A j \in 1..Len(q) : j > i => Kind(q[j]) # "ROOM_UPDATE"

JoinsOnly(q, r) == \A i \in 1..Len(q) : Kind(q[i]) = "JOIN_ROOM_SUCCESS" => q[i].room = r

(* An empty queue has no message of any kind.                              *)
LEMMA EmptyQueue ==
  /\ \A k : ~Has(<<>>, k)
  /\ \A k, l : ~Behind(<<>>, k, l)
  /\ \A v : ~LastSays(<<>>, v)
  /\ \A r : JoinsOnly(<<>>, r)
  BY DEF Has, Behind, LastSays, JoinsOnly

(* A queue of one message.                                                 *)
LEMMA OneMessage ==
  ASSUME NEW m
  PROVE  /\ \A k : Has(<<m>>, k) <=> Kind(m) = k
         /\ \A k, l : ~Behind(<<m>>, k, l)
         /\ \A v : Kind(m) = "ROOM_UPDATE" /\ m.yes = v => LastSays(<<m>>, v)
         /\ \A r : (Kind(m) = "JOIN_ROOM_SUCCESS" => m.room = r) => JoinsOnly(<<m>>, r)
  <1>1. Len(<<m>>) = 1 /\ <<m>>[1] = m /\ 1..1 = {1}
    OBVIOUS
  <1>2. \A k : Has(<<m>>, k) <=> Kind(m) = k
    BY <1>1 DEF Has
  <1>3. \A k, l : ~Behind(<<m>>, k, l)
    BY <1>1 DEF Behind
  <1>4. \A v : Kind(m) = "ROOM_UPDATE" /\ m.yes = v => LastSays(<<m>>, v)
    BY <1>1 DEF LastSays
  <1>5. \A r : (Kind(m) = "JOIN_ROOM_SUCCESS" => m.room = r) => JoinsOnly(<<m>>, r)
    BY <1>1 DEF JoinsOnly
  <1>6. QED
    BY <1>2, <1>3, <1>4, <1>5

(* What is left of a queue when its head is taken.                         *)
LEMMA TailOfQueue ==
  ASSUME NEW S, NEW q \in Seq(S), q # <<>>
  PROVE  /\ Head(q) \in S /\ Tail(q) \in Seq(S)
         /\ \A k : Has(q, k) <=> Kind(Head(q)) = k \/ Has(Tail(q), k)
         /\ \A k, l : Behind(q, k, l) <=> Behind(Tail(q), k, l) \/ (Kind(Head(q)) = k /\ Has(Tail(q), l))
         /\ \A v : LastSays(q, v) =>
              \/ LastSays(Tail(q), v)
              \/ ~Has(Tail(q), "ROOM_UPDATE") /\ Kind(Head(q)) = "ROOM_UPDATE" /\ Head(q).yes = v
         /\ \A r : JoinsOnly(q, r) =>
              JoinsOnly(Tail(q), r) /\ (Kind(Head(q)) = "JOIN_ROOM_SUCCESS" => Head(q).room = r)
  <1> DEFINE h == Head(q)  t == Tail(q)
  <1>1. /\ Len(q) \in Nat \ {0} /\ h = q[1] /\ Len(t) = Len(q) - 1
        /\ \A i \in 1..Len(t) : i + 1 \in 1..Len(q) /\ t[i] = q[i + 1]
        /\ h \in S /\ t \in Seq(S)
    BY EmptySeq, HeadTailProperties
  <1>2. \A i \in 1..Len(q) : (i = 1 /\ q[i] = h) \/ (i > 1 /\ i - 1 \in 1..Len(t) /\ t[i - 1] = q[i])
    BY <1>1
  <1> HIDE DEF h, t
  <1>3. ASSUME NEW k PROVE Has(q, k) <=> Kind(h) = k \/ Has(t, k)
    <2>1. ASSUME NEW i \in 1..Len(q), Kind(q[i]) = k PROVE Kind(h) = k \/ Has(t, k)
      BY <1>2, <2>1 DEF Has
    <2>2. ASSUME NEW i \in 1..Len(t), Kind(t[i]) = k PROVE Has(q, k)
      BY <1>1, <2>2 DEF Has
    <2>3. 1 \in 1..Len(q)
      BY <1>1
    <2>4. Kind(h) = k => Has(q, k)
      BY <1>1, <2>3 DEF Has
    <2>5. QED
      BY <2>1, <2>2, <2>4 DEF Has
  <1>4. ASSUME NEW k, NEW l PROVE Behind(q, k, l) <=> Behind(t, k, l) \/ (Kind(h) = k /\ Has(t, l))
    <2>1. ASSUME NEW i \in 1..Len(q), NEW j \in 1..Len(q), i < j, Kind(q[i]) = k, Kind(q[j]) = l
          PROVE  Behind(t, k, l) \/ (Kind(h) = k /\ Has(t, l))
      <3>1. j - 1 \in 1..Len(t) /\ t[j - 1] = q[j]
        BY <1>2, <2>1
      <3>2. CASE i = 1 /\ q[i] = h
        BY <2>1, <3>1, <3>2 DEF Has
      <3>3. CASE i - 1 \in 1..Len(t) /\ t[i - 1] = q[i]
        <4>1. i - 1 < j - 1
          BY <2>1
        <4>2. QED
          BY <2>1, <3>1, <3>3, <4>1 DEF Behind
      <3>4. QED
        BY <1>2, <3>2, <3>3
    <2>2. ASSUME NEW i \in 1..Len(t), NEW j \in 1..Len(t), i < j, Kind(t[i]) = k, Kind(t[j]) = l
          PROVE  Behind(q, k, l)
      <3>1. i + 1 < j + 1
        BY <2>2
      <3>2. QED
        BY <1>1, <2>2, <3>1 DEF Behind
    <2>3. ASSUME NEW j \in 1..Len(t), Kind(h) = k, Kind(t[j]) = l PROVE Behind(q, k, l)
      <3>1. 1 \in 1..Len(q) /\ 1 < j + 1
        BY <1>1
      <3>2. QED
        BY <1>1, <2>3, <3>1 DEF Behind
    <2>4. QED
      BY <2>1, <2>2, <2>3 DEF Behind, Has
  <1>5. ASSUME NEW v, LastSays(q, v)
        PROVE  LastSays(t, v) \/ (~Has(t, "ROOM_UPDATE") /\ Kind(h) = "ROOM_UPDATE" /\ h.yes = v)
    <2>1. PICK i \in 1..Len(q) : /\ Kind(q[i]) = "ROOM_UPDATE" /\ q[i].yes = v
                                 /\ \A j \in 1..Len(q) : j > i => Kind(q[j]) # "ROOM_UPDATE"
      BY <1>5 DEF LastSays
    <2>2. \A j \in 1..Len(t) : j + 1 > i => Kind(t[j]) # "ROOM_UPDATE"
      BY <1>1, <2>1
    <2>3. CASE i = 1 /\ q[i] = h
      <3>1. \A j \in 1..Len(t) : Kind(t[j]) # "ROOM_UPDATE"
        BY <2>2, <2>3
      <3>2. QED
        BY <2>1, <2>3, <3>1 DEF Has
    <2>4. CASE i - 1 \in 1..Len(t) /\ t[i - 1] = q[i]
      <3>1. \A j \in 1..Len(t) : j > i - 1 => Kind(t[j]) # "ROOM_UPDATE"
        BY <2>2
      <3>2. QED
        BY <2>1, <2>4, <3>1 DEF LastSays
    <2>5. QED
      BY <1>2, <2>3, <2>4
  <1>6. ASSUME NEW r, JoinsOnly(q, r)
        PROVE  JoinsOnly(t, r) /\ (Kind(h) = "JOIN_ROOM_SUCCESS" => h.room = r)
    <2>1. 1 \in 1..Len(q)
      BY <1>1
    <2>2. QED
      BY <1>1, <1>6, <2>1 DEF JoinsOnly
  <1>7. QED
    BY <1>1, <1>3, <1>4, <1>5, <1>6 DEF h, t

(* A queue with another behind it.                                         *)
LEMMA QueueAndMore ==
  ASSUME NEW S, NEW q \in Seq(S), NEW r \in Seq(S)
  PROVE  /\ q \o r \in Seq(S)
         /\ \A k : Has(q \o r, k) <=> Has(q, k) \/ Has(r, k)
         /\ \A k, l : Behind(q \o r, k, l) <=>
              Behind(q, k, l) \/ Behind(r, k, l) \/ (Has(q, k) /\ Has(r, l))
         /\ \A v : LastSays(r, v) => LastSays(q \o r, v)
         /\ \A v : LastSays(q, v) /\ ~Has(r, "ROOM_UPDATE") => LastSays(q \o r, v)
         /\ \A x : JoinsOnly(q, x) /\ JoinsOnly(r, x) => JoinsOnly(q \o r, x)
  <1> DEFINE s == q \o r  m == Len(q)  n == Len(r)
  <1>1. /\ m \in Nat /\ n \in Nat /\ Len(s) = m + n /\ s \in Seq(S)
        /\ \A i \in 1..m : i \in 1..Len(s) /\ s[i] = q[i]
        /\ \A i \in 1..n : m + i \in 1..Len(s) /\ s[m + i] = r[i]
    BY ConcatProperties, LenProperties
  <1>2. \A i \in 1..Len(s) : (i \in 1..m /\ s[i] = q[i]) \/ (i > m /\ i - m \in 1..n /\ s[i] = r[i - m])
    BY <1>1, ConcatProperties
  <1> HIDE DEF s
  <1>3. ASSUME NEW k PROVE Has(s, k) <=> Has(q, k) \/ Has(r, k)
    <2>1. ASSUME NEW i \in 1..Len(s), Kind(s[i]) = k PROVE Has(q, k) \/ Has(r, k)
      BY <1>2, <2>1 DEF Has
    <2>2. QED
      BY <1>1, <2>1 DEF Has
  <1>4. ASSUME NEW k, NEW l
        PROVE  Behind(s, k, l) <=> Behind(q, k, l) \/ Behind(r, k, l) \/ (Has(q, k) /\ Has(r, l))
    <2>1. ASSUME NEW i \in 1..Len(s), NEW j \in 1..Len(s), i < j, Kind(s[i]) = k, Kind(s[j]) = l
          PROVE  Behind(q, k, l) \/ Behind(r, k, l) \/ (Has(q, k) /\ Has(r, l))
      <3>1. CASE j \in 1..m
        <4>1. i \in 1..m
          BY <1>1, <2>1, <3>1
        <4>2. QED
          BY <1>1, <2>1, <3>1, <4>1 DEF Behind
      <3>2. CASE i \in 1..m /\ j - m \in 1..n /\ s[j] = r[j - m]
        BY <1>1, <2>1, <3>2 DEF Has
      <3>3. CASE i > m /\ j > m
        <4>1. i - m \in 1..n /\ j - m \in 1..n /\ i - m < j - m /\ s[i] = r[i - m] /\ s[j] = r[j - m]
          BY <1>1, <1>2, <2>1, <3>3
        <4>2. QED
          BY <2>1, <4>1 DEF Behind
      <3>4. QED
        BY <1>1, <1>2, <3>1, <3>2, <3>3
    <2>2. Behind(q, k, l) => Behind(s, k, l)
      BY <1>1 DEF Behind
    <2>3. ASSUME NEW i \in 1..n, NEW j \in 1..n, i < j, Kind(r[i]) = k, Kind(r[j]) = l
          PROVE  Behind(s, k, l)
      <3>1. m + i < m + j
        BY <1>1, <2>3
      <3>2. QED
        BY <1>1, <2>3, <3>1 DEF Behind
    <2>4. ASSUME NEW i \in 1..m, NEW j \in 1..n, Kind(q[i]) = k, Kind(r[j]) = l PROVE Behind(s, k, l)
      <3>1. i < m + j
        BY <1>1
      <3>2. QED
        BY <1>1, <2>4, <3>1 DEF Behind
    <2>5. QED
      BY <2>1, <2>2, <2>3, <2>4 DEF Behind, Has
  <1>5. ASSUME NEW v, LastSays(r, v) PROVE LastSays(s, v)
    <2>1. PICK i \in 1..n : /\ Kind(r[i]) = "ROOM_UPDATE" /\ r[i].yes = v
                            /\ \A j \in 1..n : j > i => Kind(r[j]) # "ROOM_UPDATE"
      BY <1>5 DEF LastSays
    <2>2. ASSUME NEW j \in 1..Len(s), j > m + i PROVE Kind(s[j]) # "ROOM_UPDATE"
      <3>1. j - m \in 1..n /\ s[j] = r[j - m] /\ j - m > i
        BY <1>1, <1>2, <2>2
      <3>2. QED
        BY <2>1, <3>1
    <2>3. QED
      BY <1>1, <2>1, <2>2 DEF LastSays
  <1>6. ASSUME NEW v, LastSays(q, v), ~Has(r, "ROOM_UPDATE") PROVE LastSays(s, v)
    <2>1. PICK i \in 1..m : /\ Kind(q[i]) = "ROOM_UPDATE" /\ q[i].yes = v
                            /\ \A j \in 1..m : j > i => Kind(q[j]) # "ROOM_UPDATE"
      BY <1>6 DEF LastSays
    <2>2. \A j \in 1..Len(s) : j > i => Kind(s[j]) # "ROOM_UPDATE"
      BY <1>2, <1>6, <2>1 DEF Has
    <2>3. QED
      BY <1>1, <2>1, <2>2 DEF LastSays
  <1>7. ASSUME NEW x, JoinsOnly(q, x), JoinsOnly(r, x) PROVE JoinsOnly(s, x)
    BY <1>2, <1>7 DEF JoinsOnly
  <1>8. QED
    BY <1>1, <1>3, <1>4, <1>5, <1>6, <1>7 DEF s

----------------------------------------------------------------------------
(* Types.                                                                  *)

RequestType ==
  {"REQUEST_BALANCE", "GET_ROOM_LIST", "GET_FRIEND_LIST", "LOGOUT", "SEND_CHALLENGE",
   "CREATE_PRIVATE_ROOM", "JOIN_ROOM", "READY", "LEAVE_ROOM", "PLAY_CARD"}

EventType ==
  {"REQUEST_BALANCE_RESPONSE", "ROOM_LIST", "GET_FRIEND_LIST_RESPONSE", "LOGOUT_RESPONSE",
   "SEND_CHALLENGE_RESPONSE", "CREATE_PRIVATE_ROOM_RESPONSE", "ROOM_UPDATE", "JOIN_ROOM_SUCCESS",
   "JOIN_ROOM_FAIL", "COUNTDOWN", "GAME_START", "MOVE_RESULT", "GAME_END", "CHALLENGE_NOTIFICATION"}

AnyRoom == Room \cup {NoRoom}

(* A join names a room, so do a challenge and a new room.                  *)
Request ==
  {m \in [type : RequestType, room : AnyRoom, yes : BOOLEAN] : m.type = "JOIN_ROOM" => m.room \in Room}

Event ==
  {m \in [type : EventType, room : AnyRoom, yes : BOOLEAN] :
     \/ m.type \notin {"CHALLENGE_NOTIFICATION", "CREATE_PRIVATE_ROOM_RESPONSE"}
     \/ m.room \in Room
     \/ m.type = "CREATE_PRIVATE_ROOM_RESPONSE" /\ ~m.yes}

Queues == toServer \in Seq(Request) /\ toMe \in Seq(Event)

Table ==
  [phase : {"WAITING", "COUNTING", "PLAYING", "FINISHED"}, inIt : BOOLEAN, ready : BOOLEAN,
   others : Nat, allReady : BOOLEAN]

Seats == seat \in AnyRoom /\ room \in Table /\ (room.inIt => seat \in Room)

Popup == {"create", "message", "challenge", "invite", "challengeResult"}

View ==
  [popups : SUBSET Popup,
   challenge : AnyRoom, listed : BOOLEAN, shownRoom : AnyRoom, isMyReady : BOOLEAN, asked : BOOLEAN]

Screen ==
  {"Lobby", "Friends", "RoomList", "Login", "WaitingRoom", "Countdown", "InGame", "GameResult"}

Screens ==
  /\ screen \in Screen \cup {"Closed"}
  /\ callbacks \in [Slot -> {"none", "set", "gone"}]
  /\ view \in View
  /\ strayed \in BOOLEAN

TypeOK == Queues /\ Seats /\ Screens

(* The requests the client sends.                                          *)
LEMMA RequestTypes ==
  ASSUME NEW t \in RequestType, NEW r \in AnyRoom, NEW y \in BOOLEAN, t = "JOIN_ROOM" => r \in Room
  PROVE  Msg(t, r, y) \in Request /\ Kind(Msg(t, r, y)) = t /\ Msg(t, r, y).room = r
  BY DEF Msg, Request, RequestType, Kind

(* The messages the server sends.                                          *)
LEMMA EventTypes ==
  ASSUME NEW t \in EventType, NEW r \in AnyRoom, NEW y \in BOOLEAN,
         \/ t \notin {"CHALLENGE_NOTIFICATION", "CREATE_PRIVATE_ROOM_RESPONSE"}
         \/ r \in Room \/ (t = "CREATE_PRIVATE_ROOM_RESPONSE" /\ ~y)
  PROVE  /\ Msg(t, r, y) \in Event /\ Msg(t, r, y).room = r /\ Msg(t, r, y).yes = y
         /\ Msg(t, r, y).type = t
         /\ t # "ROOM_UPDATE" \/ r # NoRoom => Kind(Msg(t, r, y)) = t
         /\ t = "ROOM_UPDATE" /\ r = NoRoom => Kind(Msg(t, r, y)) = "OTHERS_UPDATE"
  BY DEF Msg, Event, Kind

(* A request is of the kind of its type.                                   *)
LEMMA RequestKinds == \A m \in Request : Kind(m) = m.type /\ (m.type = "JOIN_ROOM" => m.room \in Room)
  BY DEF Kind, Request, RequestType

(* No room is not a room.                                                  *)
LEMMA NoRoomIsNone == NoRoom \notin Room /\ NoRoom \in AnyRoom /\ Room \subseteq AnyRoom
  BY ServiceAssumption DEF AnyRoom

(* A message as a sequence.                                                *)
LEMMA OneInSeq == ASSUME NEW S, NEW m \in S PROVE <<m>> \in Seq(S)
  OBVIOUS

(* No message as a sequence.                                               *)
LEMMA EmptyInSeq == ASSUME NEW S PROVE <<>> \in Seq(S)
  OBVIOUS

----------------------------------------------------------------------------
(* The relation of the two sides.                                          *)

Joining == Has(toServer, "JOIN_ROOM")

Joined == Has(toMe, "JOIN_ROOM_SUCCESS")

(* One join at most, from the list of rooms, and nothing of the waiting    *)
(* room behind it.                                                         *)
OneJoin ==
  /\ Joining \/ Joined => screen = "RoomList"
  /\ ~(Joining /\ Joined)
  /\ \A k \in {"JOIN_ROOM", "LEAVE_ROOM", "GET_FRIEND_LIST"} : ~Behind(toServer, "JOIN_ROOM", k)
  /\ \A k \in {"LEAVE_ROOM", "GET_FRIEND_LIST"} : Joined => ~Has(toServer, k)
  /\ \A k \in {"JOIN_ROOM_SUCCESS", "GET_FRIEND_LIST_RESPONSE"} : ~Behind(toMe, "JOIN_ROOM_SUCCESS", k)

(* A list on its way to a waiting room was asked for by that room.         *)
Asked ==
  /\ "invite" \in view.popups => view.asked
  /\ screen = "WaitingRoom" /\ ~view.asked =>
       ~Has(toServer, "GET_FRIEND_LIST") /\ ~Has(toMe, "GET_FRIEND_LIST_RESPONSE")

(* Seated, and not about to leave.                                         *)
Staying == room.inIt /\ ~Has(toServer, "LEAVE_ROOM")

(* The stay has not come to the client yet, or the screen shows it.        *)
Comes ==
  /\ JoinsOnly(toMe, seat)
  /\ room.phase = "PLAYING" <=> Behind(toMe, "JOIN_ROOM_SUCCESS", "GAME_START")
  /\ ~Behind(toMe, "JOIN_ROOM_SUCCESS", "GAME_END")
  /\ Behind(toMe, "JOIN_ROOM_SUCCESS", "ROOM_UPDATE")

HasCome ==
  /\ (screen = "WaitingRoom" /\ view.shownRoom = seat) \/ screen \in {"Countdown", "InGame"}
  /\ room.phase = "PLAYING" <=> screen = "InGame" \/ Has(toMe, "GAME_START")
  /\ ~Has(toMe, "GAME_END")

Stay ==
  Staying => room.phase # "FINISHED" /\ (Joined => Comes) /\ (~Joined => HasCome)

(* With every click on READY answered the last update, or else the button, *)
(* says what the server holds.                                             *)
ButtonComes ==
  IF Has(toMe, "ROOM_UPDATE") THEN LastSays(toMe, room.ready) ELSE view.isMyReady = room.ready

Button ==
  /\ Staying /\ room.phase # "PLAYING" /\ ~Has(toServer, "READY")
  /\ Joined \/ screen = "WaitingRoom"
  => ButtonComes

Undisturbed == Sound /\ screen # "Closed"

Pipe == OneJoin /\ Asked /\ Stay /\ Button

PipeOK == Undisturbed => Pipe

----------------------------------------------------------------------------
(* The server answers.                                                     *)

PlainAnswer ==
  {"REQUEST_BALANCE_RESPONSE", "ROOM_LIST", "GET_FRIEND_LIST_RESPONSE", "LOGOUT_RESPONSE",
   "SEND_CHALLENGE_RESPONSE", "CREATE_PRIVATE_ROOM_RESPONSE"}

(* At most one answer, which has nothing to do with the seat.              *)
LEMMA PlainAnswers ==
  ASSUME Queues, handleRequest \/ NothingToDo
  PROVE  /\ toServer # <<>> /\ toServer' = Tail(toServer) /\ UNCHANGED service
         /\ Kind(Head(toServer)) \notin {"JOIN_ROOM", "LEAVE_ROOM"}
         /\ Kind(Head(toServer)) = "READY" => ~BetweenHands
         /\ \/ toMe' = toMe \o <<>>
            \/ \E e \in Event : /\ toMe' = toMe \o <<e>> /\ Kind(e) \in PlainAnswer
                                /\ Kind(e) = "GET_FRIEND_LIST_RESPONSE" =>
                                     Kind(Head(toServer)) = "GET_FRIEND_LIST"
  <1> DEFINE h == Head(toServer)
  <1>1. toServer # <<>> /\ toServer' = Tail(toServer) /\ UNCHANGED service
    BY DEF handleRequest, NothingToDo, Handles, Answer
  <1>2. h \in Request /\ Kind(h) = h.type
    BY <1>1, TailOfQueue, RequestKinds DEF Queues
  <1>3. CASE NothingToDo
    BY <1>1, <1>2, <1>3 DEF NothingToDo, Handles, Answer
  <1>4. CASE handleRequest
    <2>1. h.type \in {"REQUEST_BALANCE", "GET_ROOM_LIST", "GET_FRIEND_LIST", "LOGOUT",
                      "SEND_CHALLENGE", "CREATE_PRIVATE_ROOM"}
      BY <1>4 DEF handleRequest, Handles
    <2>2. \A t \in PlainAnswer \ {"CREATE_PRIVATE_ROOM_RESPONSE"} :
            Plain(t) \in Event /\ Kind(Plain(t)) = t
      BY NoRoomIsNone DEF Plain, Msg, Event, EventType, Kind, PlainAnswer
    <2>3. \A r \in AnyRoom :
            LET e == Msg("CREATE_PRIVATE_ROOM_RESPONSE", r, r # NoRoom)
            IN  e \in Event /\ Kind(e) = "CREATE_PRIVATE_ROOM_RESPONSE"
      BY NoRoomIsNone DEF Msg, Event, EventType, Kind, AnyRoom
    <2>4. \A ok \in BOOLEAN :
            LET e == Msg("LOGOUT_RESPONSE", NoRoom, ok)
            IN  e \in Event /\ Kind(e) = "LOGOUT_RESPONSE"
      BY NoRoomIsNone DEF Msg, Event, EventType, Kind, AnyRoom
    <2>5. \E e \in Event : /\ toMe' = toMe \o <<e>> /\ Kind(e) \in PlainAnswer
                           /\ Kind(e) = "GET_FRIEND_LIST_RESPONSE" => h.type = "GET_FRIEND_LIST"
      BY <1>4, <2>2, <2>3, <2>4 DEF handleRequest, Handles, Answer, PlainAnswer, AnyRoom
    <2>6. QED
      BY <1>1, <1>2, <2>1, <2>5
  <1>5. QED
    BY <1>3, <1>4

(* A request that is answered and changes nothing at the server.           *)
LEMMA PlainStep ==
  ASSUME TypeOK, handleRequest \/ NothingToDo, UNCHANGED <<screen, view>>
  PROVE  Queues' /\ Seats' /\ (Pipe => Pipe')
  <1> DEFINE h == Head(toServer)
  <1>1. /\ toServer # <<>> /\ toServer' = Tail(toServer) /\ UNCHANGED service
        /\ Kind(h) \notin {"JOIN_ROOM", "LEAVE_ROOM"}
        /\ Kind(h) = "READY" => ~BetweenHands
    BY PlainAnswers DEF TypeOK
  <1>2. PICK ms \in Seq(Event) :
          /\ toMe' = toMe \o ms
          /\ \A k, l : ~Behind(ms, k, l)
          /\ \A k : Has(ms, k) => k \in PlainAnswer
          /\ Has(ms, "GET_FRIEND_LIST_RESPONSE") => Kind(h) = "GET_FRIEND_LIST"
          /\ \A r : JoinsOnly(ms, r)
    <2>1. CASE toMe' = toMe \o <<>>
      BY <2>1, EmptyQueue, EmptyInSeq
    <2>2. ASSUME NEW e \in Event, toMe' = toMe \o <<e>>, Kind(e) \in PlainAnswer,
                 Kind(e) = "GET_FRIEND_LIST_RESPONSE" => Kind(h) = "GET_FRIEND_LIST"
          PROVE  \E ms \in Seq(Event) :
                   /\ toMe' = toMe \o ms
                   /\ \A k, l : ~Behind(ms, k, l)
                   /\ \A k : Has(ms, k) => k \in PlainAnswer
                   /\ Has(ms, "GET_FRIEND_LIST_RESPONSE") => Kind(h) = "GET_FRIEND_LIST"
                   /\ \A r : JoinsOnly(ms, r)
      <3>1. <<e>> \in Seq(Event) /\ \A r : JoinsOnly(<<e>>, r)
        BY <2>2, OneInSeq, OneMessage DEF PlainAnswer
      <3>2. QED
        BY <2>2, <3>1, OneMessage
    <2>3. QED
      BY <2>1, <2>2, PlainAnswers DEF TypeOK
  <1>3. Queues' /\ Seats'
    BY <1>1, <1>2, TailOfQueue, QueueAndMore DEF TypeOK, Queues, Seats, service
  <1>4. /\ \A k : Has(toServer, k) <=> Kind(h) = k \/ Has(toServer', k)
        /\ \A k, l : Behind(toServer', k, l) => Behind(toServer, k, l)
    BY <1>1, TailOfQueue DEF TypeOK, Queues
  <1>5. \A k \in {"JOIN_ROOM_SUCCESS", "GAME_START", "GAME_END", "ROOM_UPDATE"} : ~Has(ms, k)
    BY <1>2 DEF PlainAnswer
  <1>6. /\ \A k : Has(toMe', k) <=> Has(toMe, k) \/ Has(ms, k)
        /\ \A k, l : Behind(toMe', k, l) <=> Behind(toMe, k, l) \/ (Has(toMe, k) /\ Has(ms, l))
        /\ \A v : LastSays(toMe, v) => LastSays(toMe', v)
        /\ \A x : JoinsOnly(toMe, x) => JoinsOnly(toMe', x)
    <2>1. toMe \in Seq(Event) /\ ms \in Seq(Event) /\ toMe' = toMe \o ms
      BY <1>2 DEF TypeOK, Queues
    <2>2. /\ \A k : Has(toMe', k) <=> Has(toMe, k) \/ Has(ms, k)
          /\ \A k, l : Behind(toMe', k, l) <=> Behind(toMe, k, l) \/ (Has(toMe, k) /\ Has(ms, l))
      BY <1>2, <2>1, QueueAndMore
    <2>3. /\ \A v : LastSays(toMe, v) => LastSays(toMe', v)
          /\ \A x : JoinsOnly(toMe, x) => JoinsOnly(toMe', x)
      BY <1>2, <1>5, <2>1, QueueAndMore
    <2>4. QED
      BY <2>2, <2>3
  <1>7. ASSUME Pipe PROVE Pipe'
    <2>1. OneJoin'
      BY <1>1, <1>2, <1>4, <1>5, <1>6, <1>7 DEF Pipe, OneJoin, Joining, Joined
    <2>2. Asked'
      <3>1. /\ Has(toServer', "GET_FRIEND_LIST") => Has(toServer, "GET_FRIEND_LIST")
            /\ Has(toMe', "GET_FRIEND_LIST_RESPONSE") =>
                 Has(toMe, "GET_FRIEND_LIST_RESPONSE") \/ Has(toServer, "GET_FRIEND_LIST")
        BY <1>2, <1>4, <1>6
      <3>2. QED
        BY <1>7, <3>1 DEF Pipe, Asked
    <2>3. Stay'
      BY <1>1, <1>4, <1>5, <1>6, <1>7 DEF Pipe, Stay, Staying, Comes, HasCome, Joined, service
    <2>4. Button'
      <3>1. Staying' => Staying /\ (room.phase # "PLAYING" => BetweenHands)
        BY <1>1, <1>4, <1>7 DEF Pipe, Stay, Staying, BetweenHands, TypeOK, Seats, Table, service
      <3>2. QED
        BY <1>1, <1>4, <1>5, <1>6, <1>7, <3>1 DEF Pipe, Button, ButtonComes, Joined, service
    <2>5. QED
      BY <2>1, <2>2, <2>3, <2>4 DEF Pipe
  <1>8. QED
    BY <1>3, <1>7


(* A queue of two messages.                                                *)
LEMMA TwoMessages ==
  ASSUME NEW S, NEW a \in S, NEW b \in S
  PROVE  /\ <<a, b>> \in Seq(S)
         /\ \A k : Has(<<a, b>>, k) <=> Kind(a) = k \/ Kind(b) = k
         /\ \A k, l : Behind(<<a, b>>, k, l) <=> Kind(a) = k /\ Kind(b) = l
         /\ \A v : /\ Kind(a) = "ROOM_UPDATE" /\ a.yes = v /\ Kind(b) # "ROOM_UPDATE"
                   => LastSays(<<a, b>>, v)
         /\ \A r : /\ Kind(a) = "JOIN_ROOM_SUCCESS" => a.room = r
                   /\ Kind(b) = "JOIN_ROOM_SUCCESS" => b.room = r
                   => JoinsOnly(<<a, b>>, r)
  <1> DEFINE q == <<a, b>>
  <1>1. Len(q) = 2 /\ q[1] = a /\ q[2] = b
    OBVIOUS
  <1>2. \A i : i \in 1..Len(q) <=> i \in {1, 2}
    BY <1>1
  <1>3. q \in Seq(S)
    OBVIOUS
  <1> HIDE DEF q
  <1>4. \A k : Has(q, k) <=> Kind(a) = k \/ Kind(b) = k
    BY <1>1, <1>2 DEF Has
  <1>5. \A k, l : Behind(q, k, l) <=> Kind(a) = k /\ Kind(b) = l
    BY <1>1, <1>2 DEF Behind
  <1>6. \A v : Kind(a) = "ROOM_UPDATE" /\ a.yes = v /\ Kind(b) # "ROOM_UPDATE" => LastSays(q, v)
    BY <1>1, <1>2 DEF LastSays
  <1>7. \A r : /\ Kind(a) = "JOIN_ROOM_SUCCESS" => a.room = r
               /\ Kind(b) = "JOIN_ROOM_SUCCESS" => b.room = r
               => JoinsOnly(q, r)
    BY <1>1, <1>2 DEF JoinsOnly
  <1>8. QED
    BY <1>3, <1>4, <1>5, <1>6, <1>7 DEF q

(* A queue of three messages.                                              *)
LEMMA ThreeMessages ==
  ASSUME NEW S, NEW a \in S, NEW b \in S, NEW c \in S
  PROVE  /\ <<a, b, c>> \in Seq(S)
         /\ \A k : Has(<<a, b, c>>, k) <=> Kind(a) = k \/ Kind(b) = k \/ Kind(c) = k
         /\ \A k, l : Behind(<<a, b, c>>, k, l) <=>
              (Kind(a) = k /\ (Kind(b) = l \/ Kind(c) = l)) \/ (Kind(b) = k /\ Kind(c) = l)
         /\ \A v : Kind(c) = "ROOM_UPDATE" /\ c.yes = v => LastSays(<<a, b, c>>, v)
         /\ \A r : (\A m \in {a, b, c} : Kind(m) = "JOIN_ROOM_SUCCESS" => m.room = r)
                   => JoinsOnly(<<a, b, c>>, r)
  <1> DEFINE q == <<a, b, c>>
  <1>1. Len(q) = 3 /\ q[1] = a /\ q[2] = b /\ q[3] = c
    OBVIOUS
  <1>2. \A i : i \in 1..Len(q) <=> i \in {1, 2, 3}
    BY <1>1
  <1>3. q \in Seq(S)
    OBVIOUS
  <1> HIDE DEF q
  <1>4. \A k : Has(q, k) <=> Kind(a) = k \/ Kind(b) = k \/ Kind(c) = k
    BY <1>1, <1>2 DEF Has
  <1>5. \A k, l : Behind(q, k, l) <=>
          (Kind(a) = k /\ (Kind(b) = l \/ Kind(c) = l)) \/ (Kind(b) = k /\ Kind(c) = l)
    BY <1>1, <1>2 DEF Behind
  <1>6. \A v : Kind(c) = "ROOM_UPDATE" /\ c.yes = v => LastSays(q, v)
    BY <1>1, <1>2 DEF LastSays
  <1>7. \A r : (\A m \in {a, b, c} : Kind(m) = "JOIN_ROOM_SUCCESS" => m.room = r) => JoinsOnly(q, r)
    BY <1>1, <1>2 DEF JoinsOnly
  <1>8. QED
    BY <1>3, <1>4, <1>5, <1>6, <1>7 DEF q

(* The events of a user who is seated, or not, after a step.               *)
LEMMA SeatEvents ==
  ASSUME NEW r \in Room, NEW y \in BOOLEAN
  PROVE  /\ Msg("ROOM_UPDATE", r, y) \in Event /\ Kind(Msg("ROOM_UPDATE", r, y)) = "ROOM_UPDATE"
         /\ Msg("ROOM_UPDATE", r, y).yes = y
         /\ Msg("JOIN_ROOM_SUCCESS", r, TRUE) \in Event
         /\ Kind(Msg("JOIN_ROOM_SUCCESS", r, TRUE)) = "JOIN_ROOM_SUCCESS"
         /\ Msg("JOIN_ROOM_SUCCESS", r, TRUE).room = r
  BY NoRoomIsNone DEF Msg, Event, EventType, Kind

(* The messages the server sends without regard to a seat.                 *)
LEMMA OtherEvents ==
  /\ OthersUpdate \in Event /\ Kind(OthersUpdate) = "OTHERS_UPDATE"
  /\ \A t \in {"JOIN_ROOM_FAIL", "COUNTDOWN", "GAME_START", "MOVE_RESULT", "GAME_END"} :
       Plain(t) \in Event /\ Kind(Plain(t)) = t
  BY NoRoomIsNone DEF OthersUpdate, Plain, Msg, Event, EventType, Kind

(* A challenge is about a room.                                            *)
LEMMA ChallengeEvent ==
  ASSUME NEW r \in Room
  PROVE  /\ Msg("CHALLENGE_NOTIFICATION", r, TRUE) \in Event
         /\ Kind(Msg("CHALLENGE_NOTIFICATION", r, TRUE)) = "CHALLENGE_NOTIFICATION"
  <1>1. Msg("CHALLENGE_NOTIFICATION", r, TRUE) \in Event
    BY NoRoomIsNone DEF Msg, Event, EventType
  <1>2. Kind(Msg("CHALLENGE_NOTIFICATION", r, TRUE)) = "CHALLENGE_NOTIFICATION"
    BY DEF Msg, Kind
  <1>3. QED
    BY <1>1, <1>2

(* A join: what the user's seat becomes, and what is sent.                 *)
LEMMA JoinMoves ==
  ASSUME Queues, Seats, handleJoinRoom
  PROVE  /\ toServer # <<>> /\ Kind(Head(toServer)) = "JOIN_ROOM" /\ toServer' = Tail(toServer)
         /\ Seats'
         /\ \/ ~room'.inIt /\ (toMe' = toMe \o <<>> \/ toMe' = toMe \o <<OthersUpdate, Plain("JOIN_ROOM_FAIL")>>)
            \/ /\ room'.inIt /\ room'.ready = FALSE /\ room'.phase \in {"WAITING", "COUNTING"}
               /\ toMe' = toMe \o <<Msg("ROOM_UPDATE", seat', FALSE),
                                    Msg("JOIN_ROOM_SUCCESS", seat', TRUE),
                                    Msg("ROOM_UPDATE", seat', FALSE)>>
            \/ room.inIt /\ UNCHANGED service /\ toMe' = toMe \o <<>>
            \/ room.inIt /\ UNCHANGED service /\ toMe' = toMe \o <<Msg("ROOM_UPDATE", seat, room.ready)>>
  <1> DEFINE r == Head(toServer).room
  <1>1. toServer # <<>> /\ toServer' = Tail(toServer) /\ Head(toServer).type = "JOIN_ROOM"
    BY DEF handleJoinRoom, JoinRefused, JoinAccepted, JoinAgain, Handles, Answer
  <1>2. Kind(Head(toServer)) = "JOIN_ROOM" /\ r \in Room
    BY <1>1, TailOfQueue, RequestKinds DEF Queues
  <1>3. CASE JoinRefused(r)
    BY <1>1, <1>2, <1>3, NoRoomIsNone
       DEF JoinRefused, LeavesOther, Answer, Seats, Table, Nowhere, service
  <1>4. CASE JoinAccepted(r)
    <2>1. seat' = r /\ r \in AnyRoom
      BY <1>2, <1>4, NoRoomIsNone DEF JoinAccepted
    <2>2. CASE room' \in JoinableTables /\ Answer(<<RoomUpdate, Msg("JOIN_ROOM_SUCCESS", r, TRUE), RoomUpdate>>)
      <3>1. /\ room' \in Table /\ room'.inIt /\ room'.ready = FALSE
            /\ room'.phase \in {"WAITING", "COUNTING"}
        <4>1. \A n \in 0..MaxOthers : n \in Nat
          BY ServiceAssumption
        <4>2. QED
          BY <2>2, <4>1 DEF JoinableTables, Table
      <3>2. QED
        BY <1>1, <1>2, <2>1, <2>2, <3>1 DEF Answer, RoomUpdate, Seats
    <2>3. CASE room' = Nowhere /\ Answer(<<OthersUpdate, Plain("JOIN_ROOM_FAIL")>>)
      BY <1>1, <1>2, <2>1, <2>3 DEF Answer, Seats, Nowhere, Table
    <2>4. QED
      BY <1>4, <2>2, <2>3 DEF JoinAccepted
  <1>5. CASE JoinAgain(r)
    BY <1>1, <1>2, <1>5 DEF JoinAgain, Answer, RoomUpdate, Seats, service
  <1>6. QED
    BY <1>3, <1>4, <1>5 DEF handleJoinRoom


(* Nothing of a kind is in a queue: nothing of it is before or behind.     *)
LEMMA NoneOfKind ==
  ASSUME NEW q, NEW k, ~Has(q, k)
  PROVE  /\ \A l : ~Behind(q, k, l) /\ ~Behind(q, l, k)
         /\ k = "JOIN_ROOM_SUCCESS" => \A r : JoinsOnly(q, r)
  BY DEF Has, Behind, JoinsOnly

(* A join gives a seat with its success and its updates, or is refused.    *)
LEMMA JoinStep ==
  ASSUME TypeOK, handleJoinRoom, UNCHANGED <<screen, view>>
  PROVE  Queues' /\ Seats' /\ (Pipe => Pipe')
  <1> DEFINE h == Head(toServer)
             u == Msg("ROOM_UPDATE", seat', FALSE)
             j == Msg("JOIN_ROOM_SUCCESS", seat', TRUE)
             f == Plain("JOIN_ROOM_FAIL")
             again == Msg("ROOM_UPDATE", seat, room.ready)
  <1>1. /\ toServer # <<>> /\ Kind(h) = "JOIN_ROOM" /\ toServer' = Tail(toServer)
        /\ Seats'
        /\ \/ ~room'.inIt /\ (toMe' = toMe \o <<>> \/ toMe' = toMe \o <<OthersUpdate, f>>)
           \/ /\ room'.inIt /\ room'.ready = FALSE /\ room'.phase \in {"WAITING", "COUNTING"}
              /\ toMe' = toMe \o <<u, j, u>>
           \/ room.inIt /\ UNCHANGED service /\ toMe' = toMe \o <<>>
           \/ room.inIt /\ UNCHANGED service /\ toMe' = toMe \o <<again>>
    BY JoinMoves DEF TypeOK
  <1>2. toServer \in Seq(Request) /\ toMe \in Seq(Event) /\ toServer' \in Seq(Request)
    BY <1>1, TailOfQueue DEF TypeOK, Queues
  <1>3. /\ <<>> \in Seq(Event) /\ <<OthersUpdate, f>> \in Seq(Event)
        /\ ~Has(<<OthersUpdate, f>>, "JOIN_ROOM_SUCCESS")
    <2>1. OthersUpdate \in Event /\ f \in Event /\ Kind(OthersUpdate) = "OTHERS_UPDATE" /\ Kind(f) = "JOIN_ROOM_FAIL"
      BY OtherEvents
    <2> HIDE DEF f
    <2>2. QED
      BY <2>1, TwoMessages, EmptyInSeq
  <1>4. room'.inIt => u \in Event /\ j \in Event /\ <<u, j, u>> \in Seq(Event)
    <2>1. ASSUME room'.inIt PROVE u \in Event /\ j \in Event
      BY <1>1, <2>1, SeatEvents DEF Seats
    <2>2. QED
      BY <2>1, ThreeMessages
  <1>5. room.inIt => <<again>> \in Seq(Event)
    <2>1. ASSUME room.inIt PROVE again \in Event
      BY <2>1, SeatEvents DEF TypeOK, Seats, Table
    <2>2. QED
      BY <2>1, OneInSeq
  <1>6. toMe' \in Seq(Event)
    <2> HIDE DEF u, j, f, again
    <2>1. \E ms \in Seq(Event) : toMe' = toMe \o ms
      BY <1>1, <1>3, <1>4, <1>5
    <2>2. QED
      BY <1>2, <2>1, QueueAndMore
  <1>7. ASSUME Pipe PROVE Pipe'
    <2>1. /\ \A k : Has(toServer, k) <=> Kind(h) = k \/ Has(toServer', k)
          /\ \A k, l : Behind(toServer, k, l) <=>
                Behind(toServer', k, l) \/ (Kind(h) = k /\ Has(toServer', l))
      BY <1>1, <1>2, TailOfQueue
    <2>2. /\ screen = "RoomList" /\ ~Joined
          /\ \A k \in {"JOIN_ROOM", "LEAVE_ROOM", "GET_FRIEND_LIST"} : ~Has(toServer', k)
      BY <1>1, <1>7, <2>1 DEF Pipe, OneJoin, Joining
    <2>3. ~room.inIt
      <3>1. ~Has(toServer, "LEAVE_ROOM")
        BY <1>1, <2>1, <2>2
      <3>2. QED
        BY <1>7, <2>2, <3>1 DEF Pipe, Stay, Staying, HasCome
    <2>4. screen' = "RoomList" /\ view' = view /\ Asked'
      BY <1>7, <2>2 DEF Pipe, Asked
    <2>5. CASE ~room'.inIt /\ (toMe' = toMe \o <<>> \/ toMe' = toMe \o <<OthersUpdate, f>>)
      <3>1. ~Joined'
        <4> HIDE DEF f
        <4>1. PICK ms \in Seq(Event) : toMe' = toMe \o ms /\ ~Has(ms, "JOIN_ROOM_SUCCESS")
          BY <1>3, <2>5, EmptyQueue
        <4>2. QED
          BY <1>2, <2>2, <4>1, QueueAndMore DEF Joined
      <3>2. OneJoin'
        BY <2>2, <3>1, NoneOfKind DEF OneJoin, Joining, Joined
      <3>3. QED
        BY <2>4, <2>5, <3>2 DEF Pipe, Stay, Button, Staying
    <2>6. CASE /\ room'.inIt /\ room'.ready = FALSE /\ room'.phase \in {"WAITING", "COUNTING"}
               /\ toMe' = toMe \o <<u, j, u>>
      <3> DEFINE ms == <<u, j, u>>
      <3>1. /\ Kind(u) = "ROOM_UPDATE" /\ u.yes = FALSE
            /\ Kind(j) = "JOIN_ROOM_SUCCESS" /\ j.room = seat'
        BY <1>1, <2>6, SeatEvents DEF Seats
      <3>2. /\ \A k : Has(ms, k) <=> k \in {"ROOM_UPDATE", "JOIN_ROOM_SUCCESS"}
            /\ \A l : Behind(ms, "JOIN_ROOM_SUCCESS", l) <=> l = "ROOM_UPDATE"
            /\ LastSays(ms, FALSE) /\ JoinsOnly(ms, seat')
        <4>1. u \in Event /\ j \in Event
          BY <1>4, <2>6
        <4> HIDE DEF u, j
        <4>2. \A k : Has(ms, k) <=> k \in {"ROOM_UPDATE", "JOIN_ROOM_SUCCESS"}
          BY <3>1, <4>1, ThreeMessages
        <4>3. \A l : Behind(ms, "JOIN_ROOM_SUCCESS", l) <=> l = "ROOM_UPDATE"
          BY <3>1, <4>1, ThreeMessages
        <4>4. LastSays(ms, FALSE)
          BY <3>1, <4>1, ThreeMessages
        <4>5. \A m \in {u, j, u} : Kind(m) = "JOIN_ROOM_SUCCESS" => m.room = seat'
          BY <3>1
        <4>6. JoinsOnly(ms, seat')
          BY <4>1, <4>5, ThreeMessages
        <4>7. QED
          BY <4>2, <4>3, <4>4, <4>6
      <3>3. ms \in Seq(Event)
        BY <1>4, <2>6
      <3> HIDE DEF ms
      <3>4. toMe' = toMe \o ms
        BY <2>6 DEF ms
      <3>5. /\ Joined' /\ Has(toMe', "ROOM_UPDATE") /\ LastSays(toMe', FALSE)
            /\ \A l : Behind(toMe', "JOIN_ROOM_SUCCESS", l) <=> l = "ROOM_UPDATE"
            /\ JoinsOnly(toMe', seat')
        <4>1. /\ \A k : Has(toMe', k) <=> Has(toMe, k) \/ Has(ms, k)
              /\ \A k, l : Behind(toMe', k, l) <=>
                   Behind(toMe, k, l) \/ Behind(ms, k, l) \/ (Has(toMe, k) /\ Has(ms, l))
              /\ \A v : LastSays(ms, v) => LastSays(toMe', v)
              /\ \A r : JoinsOnly(toMe, r) /\ JoinsOnly(ms, r) => JoinsOnly(toMe', r)
          BY <1>2, <3>3, <3>4, QueueAndMore
        <4>2. ~Has(toMe, "JOIN_ROOM_SUCCESS")
          BY <2>2 DEF Joined
        <4>3. JoinsOnly(toMe, seat') /\ \A l : ~Behind(toMe, "JOIN_ROOM_SUCCESS", l)
          BY <4>2, NoneOfKind
        <4>4. Has(toMe', "JOIN_ROOM_SUCCESS") /\ Has(toMe', "ROOM_UPDATE")
          BY <3>2, <4>1
        <4>5. \A l : Behind(toMe', "JOIN_ROOM_SUCCESS", l) <=> l = "ROOM_UPDATE"
          BY <3>2, <4>1, <4>2, <4>3
        <4>6. LastSays(toMe', FALSE) /\ JoinsOnly(toMe', seat')
          BY <3>2, <4>1, <4>3
        <4>7. QED
          BY <4>4, <4>5, <4>6 DEF Joined
      <3>6. OneJoin'
        BY <2>2, <2>4, <3>5, NoneOfKind DEF OneJoin, Joining
      <3>7. Stay'
        <4>1. Comes'
          <5>1. /\ Behind(toMe', "JOIN_ROOM_SUCCESS", "ROOM_UPDATE")
                /\ ~Behind(toMe', "JOIN_ROOM_SUCCESS", "GAME_START")
                /\ ~Behind(toMe', "JOIN_ROOM_SUCCESS", "GAME_END")
            BY <3>5
          <5>2. QED
            BY <2>6, <3>5, <5>1 DEF Comes
        <4>2. QED
          BY <2>6, <3>5, <4>1 DEF Stay
      <3>8. Button'
        BY <2>6, <3>5 DEF Button, ButtonComes
      <3>9. QED
        BY <2>4, <3>6, <3>7, <3>8 DEF Pipe
    <2>7. QED
      BY <1>1, <2>3, <2>5, <2>6
  <1>8. QED
    BY <1>1, <1>2, <1>6, <1>7 DEF Queues

(* READY, LEAVE_ROOM and PLAY_CARD.                                        *)
LEMMA ReadyStep ==
  ASSUME TypeOK, handleReady, UNCHANGED <<screen, view>>
  PROVE  Queues' /\ Seats' /\ (Pipe => Pipe')
  <1> DEFINE h == Head(toServer)
             u == Msg("ROOM_UPDATE", seat, room'.ready)
             c == Plain("COUNTDOWN")
  <1>1. /\ toServer # <<>> /\ toServer' = Tail(toServer) /\ seat' = seat /\ h.type = "READY"
        /\ BetweenHands /\ room' = Counted([room EXCEPT !.ready = h.yes])
        /\ toMe' = toMe \o (<<u>> \o Countdown)
    BY DEF handleReady, Handles, Answer, RoomUpdate
  <1>2. toServer \in Seq(Request) /\ toMe \in Seq(Event) /\ toServer' \in Seq(Request) /\ h \in Request
    BY <1>1, TailOfQueue DEF TypeOK, Queues
  <1>3. Kind(h) = "READY" /\ h.yes \in BOOLEAN
    BY <1>1, <1>2, RequestKinds DEF Request
  <1>4. /\ room' \in Table /\ room'.inIt /\ room'.ready = h.yes
        /\ room'.phase \in {"WAITING", "COUNTING"} /\ room.phase \in {"WAITING", "COUNTING"} /\ room.inIt
    BY <1>1, <1>3 DEF Counted, BetweenHands, TypeOK, Seats, Table
  <1>5. u \in Event /\ Kind(u) = "ROOM_UPDATE" /\ u.yes = h.yes /\ c \in Event /\ Kind(c) = "COUNTDOWN"
    <2>1. seat \in Room /\ room'.ready \in BOOLEAN
      BY <1>3, <1>4 DEF TypeOK, Seats
    <2>2. c \in Event /\ Kind(c) = "COUNTDOWN"
      BY OtherEvents
    <2>3. QED
      BY <1>4, <2>1, <2>2, SeatEvents
  <1> HIDE DEF u, c
  <1>6. PICK ms \in Seq(Event) :
          /\ toMe' = toMe \o ms
          /\ \A k : Has(ms, k) => k \in {"ROOM_UPDATE", "COUNTDOWN"}
          /\ Has(ms, "ROOM_UPDATE") /\ LastSays(ms, h.yes)
    <2>1. <<u>> \in Seq(Event) /\ <<c>> \in Seq(Event) /\ <<>> \in Seq(Event)
      BY <1>5, OneInSeq, EmptyInSeq
    <2>2. Countdown \in Seq(Event) /\ \A k : Has(Countdown, k) => k = "COUNTDOWN"
      <3>1. Countdown = <<>> \/ Countdown = <<c>>
        BY DEF Countdown, c
      <3>2. QED
        BY <1>5, <2>1, <3>1, OneMessage, EmptyQueue
    <2>3. <<u>> \o Countdown \in Seq(Event)
      BY <2>1, <2>2, QueueAndMore
    <2>4. /\ \A k : Has(<<u>> \o Countdown, k) => k \in {"ROOM_UPDATE", "COUNTDOWN"}
          /\ Has(<<u>> \o Countdown, "ROOM_UPDATE")
      <3>1. \A k : Has(<<u>>, k) <=> k = "ROOM_UPDATE"
        BY <1>5, OneMessage
      <3>2. QED
        BY <2>1, <2>2, <3>1, QueueAndMore
    <2>5. LastSays(<<u>>, h.yes) /\ ~Has(Countdown, "ROOM_UPDATE")
      BY <1>5, <2>2, OneMessage
    <2>6. LastSays(<<u>> \o Countdown, h.yes)
      BY <2>1, <2>2, <2>5, QueueAndMore
    <2>7. QED
      BY <1>1, <2>3, <2>4, <2>6
  <1>7. Queues' /\ Seats'
    <2>1. toMe' \in Seq(Event)
      BY <1>2, <1>6, QueueAndMore
    <2>2. QED
      BY <1>1, <1>2, <1>4, <2>1 DEF Queues, Seats, TypeOK
  <1>8. /\ \A k : Has(toServer, k) <=> Kind(h) = k \/ Has(toServer', k)
        /\ \A k, l : Behind(toServer', k, l) => Behind(toServer, k, l)
    BY <1>1, <1>2, TailOfQueue
  <1>9. /\ \A k : Has(toMe', k) <=> Has(toMe, k) \/ Has(ms, k)
        /\ \A k, l : l # "ROOM_UPDATE" /\ l # "COUNTDOWN" /\ k # "ROOM_UPDATE" /\ k # "COUNTDOWN" =>
             (Behind(toMe', k, l) <=> Behind(toMe, k, l))
        /\ \A k, l : Behind(toMe, k, l) => Behind(toMe', k, l)
        /\ LastSays(toMe', h.yes)
        /\ \A x : JoinsOnly(toMe, x) => JoinsOnly(toMe', x)
    <2>1. \A k, l : Behind(ms, k, l) => Has(ms, k) /\ Has(ms, l)
      BY DEF Behind, Has
    <2>2. \A x : JoinsOnly(ms, x)
      <3>1. ~Has(ms, "JOIN_ROOM_SUCCESS")
        BY <1>6
      <3>2. QED
        BY <3>1, NoneOfKind
    <2>3. QED
      BY <1>2, <1>6, <2>1, <2>2, QueueAndMore
  <1>10. ASSUME Pipe PROVE Pipe'
    <2>1. OneJoin'
      BY <1>3, <1>6, <1>8, <1>9, <1>10 DEF Pipe, OneJoin, Joining, Joined
    <2>2. Asked'
      BY <1>6, <1>8, <1>9, <1>10 DEF Pipe, Asked
    <2>3. Stay'
      BY <1>1, <1>3, <1>4, <1>6, <1>8, <1>9, <1>10 DEF Pipe, Stay, Staying, Comes, HasCome, Joined
    <2>4. Button'
      BY <1>4, <1>6, <1>9 DEF Button, ButtonComes
    <2>5. QED
      BY <2>1, <2>2, <2>3, <2>4 DEF Pipe
  <1>11. QED
    BY <1>7, <1>10


(* What events ms do to the queue when they are neither joins nor lists.   *)
LEMMA EventsCome ==
  ASSUME Queues, NEW ms \in Seq(Event), toMe' = toMe \o ms,
         ~Has(ms, "JOIN_ROOM_SUCCESS"), ~Has(ms, "GET_FRIEND_LIST_RESPONSE"),
         \/ toServer' = toServer
         \/ toServer # <<>> /\ toServer' = Tail(toServer)
  PROVE  /\ Queues'
         /\ \A k : Has(toServer', k) => Has(toServer, k)
         /\ \A k, l : Behind(toServer', k, l) => Behind(toServer, k, l)
         /\ \A k : Has(toMe', k) <=> Has(toMe, k) \/ Has(ms, k)
         /\ \A l : Behind(toMe', "JOIN_ROOM_SUCCESS", l) <=>
              Behind(toMe, "JOIN_ROOM_SUCCESS", l) \/ (Joined /\ Has(ms, l))
         /\ \A v : LastSays(ms, v) => LastSays(toMe', v)
         /\ \A v : LastSays(toMe, v) /\ ~Has(ms, "ROOM_UPDATE") => LastSays(toMe', v)
         /\ \A x : JoinsOnly(toMe, x) => JoinsOnly(toMe', x)
         /\ Joined' <=> Joined
         /\ OneJoin /\ UNCHANGED screen => OneJoin'
         /\ Asked /\ UNCHANGED <<screen, view>> => Asked'
  <1>1. toServer \in Seq(Request) /\ toMe \in Seq(Event)
    BY DEF Queues
  <1>2. /\ toServer' \in Seq(Request)
        /\ \A k : Has(toServer', k) => Has(toServer, k)
        /\ \A k, l : Behind(toServer', k, l) => Behind(toServer, k, l)
    <2>1. CASE toServer' = toServer
      BY <1>1, <2>1
    <2>2. CASE toServer # <<>> /\ toServer' = Tail(toServer)
      BY <1>1, <2>2, TailOfQueue
    <2>3. QED
      BY <2>1, <2>2
  <1>3. /\ toMe' \in Seq(Event)
        /\ \A k : Has(toMe', k) <=> Has(toMe, k) \/ Has(ms, k)
        /\ \A l : Behind(toMe', "JOIN_ROOM_SUCCESS", l) <=>
              Behind(toMe, "JOIN_ROOM_SUCCESS", l) \/ (Joined /\ Has(ms, l))
    BY <1>1, QueueAndMore, NoneOfKind DEF Joined
  <1>4. /\ \A v : LastSays(ms, v) => LastSays(toMe', v)
        /\ \A v : LastSays(toMe, v) /\ ~Has(ms, "ROOM_UPDATE") => LastSays(toMe', v)
    BY <1>1, QueueAndMore
  <1>5. \A x : JoinsOnly(toMe, x) => JoinsOnly(toMe', x)
    BY <1>1, QueueAndMore, NoneOfKind
  <1>6. Joined' <=> Joined
    BY <1>3 DEF Joined
  <1>7. OneJoin /\ UNCHANGED screen => OneJoin'
    BY <1>2, <1>3, <1>6 DEF OneJoin, Joining
  <1>8. Asked /\ UNCHANGED <<screen, view>> => Asked'
    BY <1>2, <1>3 DEF Asked
  <1>9. QED
    BY <1>2, <1>3, <1>4, <1>5, <1>6, <1>7, <1>8 DEF Queues

(* The user has no seat after the step.                                    *)
LEMMA SeatGoes ==
  ASSUME Queues, Pipe, NEW ms \in Seq(Event), toMe' = toMe \o ms,
         ~Has(ms, "JOIN_ROOM_SUCCESS"), ~Has(ms, "GET_FRIEND_LIST_RESPONSE"),
         toServer' = toServer \/ (toServer # <<>> /\ toServer' = Tail(toServer)),
         UNCHANGED <<screen, view>>, ~room'.inIt
  PROVE  Pipe'
  BY EventsCome DEF Pipe, Stay, Button, Staying

(* The user stays, in the same hand or between the same hands.             *)
LEMMA SeatStays ==
  ASSUME TypeOK, Pipe, NEW ms \in Seq(Event), toMe' = toMe \o ms,
         \A k \in {"JOIN_ROOM_SUCCESS", "GET_FRIEND_LIST_RESPONSE", "GAME_START", "GAME_END"} : ~Has(ms, k),
         \/ toServer' = toServer
         \/ /\ toServer # <<>> /\ toServer' = Tail(toServer)
            /\ Kind(Head(toServer)) \notin {"LEAVE_ROOM", "READY"},
         UNCHANGED <<screen, view, seat>>, room'.inIt = room.inIt, room'.ready = room.ready,
         room.phase # "FINISHED" => room'.phase # "FINISHED",
         room'.phase = "PLAYING" <=> room.phase = "PLAYING",
         Has(ms, "ROOM_UPDATE") => LastSays(ms, room.ready)
  PROVE  Pipe'
  <1>0. Queues
    BY DEF TypeOK
  <1>1. OneJoin' /\ Asked'
    BY <1>0, EventsCome DEF Pipe
  <1>2. \A k \in {"LEAVE_ROOM", "READY"} : Has(toServer, k) <=> Has(toServer', k)
    <2>1. CASE toServer' = toServer
      BY <2>1
    <2>2. CASE /\ toServer # <<>> /\ toServer' = Tail(toServer)
               /\ Kind(Head(toServer)) \notin {"LEAVE_ROOM", "READY"}
      <3>1. \A k : Has(toServer, k) <=> Kind(Head(toServer)) = k \/ Has(toServer', k)
        BY <1>0, <2>2, TailOfQueue DEF Queues
      <3>2. QED
        BY <2>2, <3>1
    <2>3. QED
      BY <2>1, <2>2
  <1>3. Staying' <=> Staying
    BY <1>2 DEF Staying
  <1>4. /\ Joined' <=> Joined
        /\ \A k : Has(toMe', k) <=> Has(toMe, k) \/ Has(ms, k)
        /\ \A l : Behind(toMe', "JOIN_ROOM_SUCCESS", l) <=>
             Behind(toMe, "JOIN_ROOM_SUCCESS", l) \/ (Joined /\ Has(ms, l))
        /\ \A x : JoinsOnly(toMe, x) => JoinsOnly(toMe', x)
    BY <1>0, EventsCome
  <1>5. Stay'
    BY <1>3, <1>4 DEF Pipe, Stay, Comes, HasCome
  <1>6. Button'
    <2>1. /\ Has(ms, "ROOM_UPDATE") => LastSays(toMe', room'.ready)
          /\ ~Has(ms, "ROOM_UPDATE") /\ LastSays(toMe, room.ready) => LastSays(toMe', room'.ready)
      BY <1>0, EventsCome
    <2>2. ButtonComes => ButtonComes'
      BY <1>4, <2>1 DEF ButtonComes
    <2>3. QED
      BY <1>2, <1>3, <1>4, <2>2 DEF Pipe, Button
  <1>7. QED
    BY <1>1, <1>5, <1>6 DEF Pipe

(* The handlers of the other two messages and the countdown's end.         *)

(* A seat given up silences the room.                                      *)
LEMMA LeaveStep ==
  ASSUME TypeOK, handleLeaveRoom, UNCHANGED <<screen, view>>
  PROVE  Queues' /\ Seats' /\ (Pipe => Pipe')
  <1>1. /\ toServer # <<>> /\ toServer' = Tail(toServer) /\ toMe' = toMe \o <<>>
        /\ seat' = NoRoom /\ room' = Nowhere
    BY DEF handleLeaveRoom, Handles, Answer
  <1>2. <<>> \in Seq(Event) /\ \A k : ~Has(<<>>, k)
    BY EmptyInSeq, EmptyQueue
  <1>3. Seats' /\ ~room'.inIt
    BY <1>1, NoRoomIsNone DEF Seats, Nowhere, Table
  <1>4. Queues
    BY DEF TypeOK
  <1>5. QED
    BY <1>1, <1>2, <1>3, <1>4, EventsCome, SeatGoes

(* The end of a hand for the user's room.                                  *)
LEMMA EndsHand ==
  ASSUME Seats, HandEnds, UNCHANGED seat
  PROVE  /\ Seats' /\ ~room'.inIt
         /\ EndMessages \in Seq(Event)
         /\ \A k : Has(EndMessages, k) => k \in {"GAME_END", "OTHERS_UPDATE"}
  <1>1. Seats' /\ ~room'.inIt
    BY DEF Seats, HandEnds, Nowhere, Table
  <1>2. /\ Plain("GAME_END") \in Event /\ Kind(Plain("GAME_END")) = "GAME_END"
        /\ OthersUpdate \in Event /\ Kind(OthersUpdate) = "OTHERS_UPDATE"
    BY OtherEvents
  <1>3. QED
    BY <1>1, <1>2, TwoMessages DEF EndMessages

(* A move of the user's may end the hand.                                  *)
LEMMA PlayStep ==
  ASSUME TypeOK, handlePlayCard, UNCHANGED <<screen, view>>
  PROVE  Queues' /\ Seats' /\ (Pipe => Pipe')
  <1> DEFINE e == Plain("MOVE_RESULT")
  <1>1. /\ toServer # <<>> /\ toServer' = Tail(toServer) /\ seat' = seat /\ Queues
        /\ Head(toServer).type = "PLAY_CARD"
    BY DEF handlePlayCard, Handles, Answer, TypeOK
  <1>2. Kind(Head(toServer)) = "PLAY_CARD"
    BY <1>1, TailOfQueue, RequestKinds DEF Queues
  <1>3. CASE HandEnds /\ toMe' = toMe \o EndMessages
    <2>1. /\ Seats' /\ ~room'.inIt /\ EndMessages \in Seq(Event)
          /\ ~Has(EndMessages, "JOIN_ROOM_SUCCESS") /\ ~Has(EndMessages, "GET_FRIEND_LIST_RESPONSE")
      BY <1>1, <1>3, EndsHand DEF TypeOK
    <2>2. QED
      BY <1>1, <1>3, <2>1, EventsCome, SeatGoes
  <1>4. ASSUME room' = room, NEW ms \in Seq(Event), toMe' = toMe \o ms,
               \A k : Has(ms, k) => k = "MOVE_RESULT"
        PROVE  Queues' /\ Seats' /\ (Pipe => Pipe')
    <2>1. ~Has(ms, "ROOM_UPDATE") /\
          \A k \in {"JOIN_ROOM_SUCCESS", "GET_FRIEND_LIST_RESPONSE", "GAME_START", "GAME_END"} : ~Has(ms, k)
      BY <1>4
    <2>2. Seats'
      BY <1>1, <1>4 DEF TypeOK, Seats
    <2>3. Queues'
      BY <1>1, <1>4, <2>1, EventsCome
    <2>4. Pipe => Pipe'
      BY <1>1, <1>2, <1>4, <2>1, SeatStays
    <2>5. QED
      BY <2>2, <2>3, <2>4
  <1>5. e \in Event /\ Kind(e) = "MOVE_RESULT"
    BY OtherEvents
  <1>6. <<e>> \in Seq(Event) /\ \A k : Has(<<e>>, k) => k = "MOVE_RESULT"
    <2> HIDE DEF e
    <2>1. QED
      BY <1>5, OneInSeq, OneMessage
  <1>7. <<>> \in Seq(Event) /\ \A k : ~Has(<<>>, k)
    BY EmptyInSeq, EmptyQueue
  <1>8. QED
    BY <1>3, <1>4, <1>6, <1>7 DEF handlePlayCard, Answer

(* The end of the countdown deals the user in.                             *)
LEMMA StartStep ==
  ASSUME TypeOK, StartPlaying, UNCHANGED <<screen, view>>
  PROVE  Queues' /\ Seats' /\ (Pipe => Pipe')
  <1> DEFINE ms == <<Plain("GAME_START"), Plain("MOVE_RESULT")>>
  <1>1. /\ toMe' = toMe \o ms /\ toServer' = toServer /\ seat' = seat /\ Queues
        /\ room.inIt /\ room.phase = "COUNTING"
        /\ room'.inIt /\ room'.phase = "PLAYING" /\ room' \in Table
    BY DEF StartPlaying, TypeOK, Seats, Table
  <1>2. ms \in Seq(Event) /\ \A k : Has(ms, k) <=> k \in {"GAME_START", "MOVE_RESULT"}
    <2>1. \A t \in {"GAME_START", "MOVE_RESULT"} : Plain(t) \in Event /\ Kind(Plain(t)) = t
      BY OtherEvents
    <2>2. QED
      BY <2>1, TwoMessages
  <1> HIDE DEF ms
  <1>3. ~Has(ms, "JOIN_ROOM_SUCCESS") /\ ~Has(ms, "GET_FRIEND_LIST_RESPONSE") /\ ~Has(ms, "GAME_END")
        /\ Has(ms, "GAME_START") /\ ~Has(ms, "ROOM_UPDATE")
    BY <1>2
  <1>4. Queues' /\ Seats'
    BY <1>1, <1>2, <1>3, EventsCome DEF TypeOK, Seats
  <1>5. ASSUME Pipe PROVE Pipe'
    <2>1. OneJoin' /\ Asked'
      BY <1>1, <1>2, <1>3, <1>5, EventsCome DEF Pipe
    <2>2. /\ Joined' <=> Joined
          /\ \A k : Has(toMe', k) <=> Has(toMe, k) \/ Has(ms, k)
          /\ \A l : Behind(toMe', "JOIN_ROOM_SUCCESS", l) <=>
               Behind(toMe, "JOIN_ROOM_SUCCESS", l) \/ (Joined /\ Has(ms, l))
          /\ \A x : JoinsOnly(toMe, x) => JoinsOnly(toMe', x)
      BY <1>1, <1>2, <1>3, EventsCome
    <2>3. Stay'
      BY <1>1, <1>3, <1>5, <2>2 DEF Pipe, Stay, Staying, Comes, HasCome
    <2>4. Button'
      BY <1>1 DEF Button
    <2>5. QED
      BY <2>1, <2>3, <2>4 DEF Pipe
  <1>6. QED
    BY <1>4, <1>5


(* The user's room changes in others' hands only.                          *)
LEMMA OthersUpdates ==
  ASSUME TypeOK, UNCHANGED <<screen, view, toServer, seat>>, room.inIt,
         room' \in Table, room'.inIt, room'.ready = room.ready,
         room.phase # "FINISHED" => room'.phase # "FINISHED",
         room'.phase = "PLAYING" <=> room.phase = "PLAYING",
         toMe' = toMe \o <<RoomUpdate>> \/ toMe' = toMe \o <<RoomUpdate>> \o Countdown
  PROVE  Queues' /\ Seats' /\ (Pipe => Pipe')
  <1> DEFINE u == Msg("ROOM_UPDATE", seat, room.ready)
             c == Plain("COUNTDOWN")
  <1>1. u \in Event /\ Kind(u) = "ROOM_UPDATE" /\ u.yes = room.ready
    <2>1. seat \in Room /\ room.ready \in BOOLEAN
      BY DEF TypeOK, Seats, Table
    <2>2. QED
      BY <2>1, SeatEvents
  <1>2. RoomUpdate = u
    BY DEF RoomUpdate
  <1>3. c \in Event /\ Kind(c) = "COUNTDOWN"
    BY OtherEvents
  <1>4. Countdown = <<>> \/ Countdown = <<c>>
    BY DEF Countdown
  <1> HIDE DEF u, c
  <1>5. /\ <<u>> \in Seq(Event) /\ LastSays(<<u>>, room.ready)
        /\ \A k : Has(<<u>>, k) <=> k = "ROOM_UPDATE"
    BY <1>1, OneInSeq, OneMessage
  <1>6. Countdown \in Seq(Event) /\ \A k : Has(Countdown, k) => k = "COUNTDOWN"
    BY <1>3, <1>4, OneInSeq, OneMessage, EmptyInSeq, EmptyQueue
  <1>7. ~Has(Countdown, "ROOM_UPDATE")
    BY <1>6
  <1>8. PICK ms \in Seq(Event) :
          /\ toMe' = toMe \o ms
          /\ \A k : Has(ms, k) => k \in {"ROOM_UPDATE", "COUNTDOWN"}
          /\ LastSays(ms, room.ready)
    <2>1. CASE toMe' = toMe \o <<u>>
      BY <1>5, <2>1
    <2>2. CASE toMe' = toMe \o <<u>> \o Countdown
      <3>0. toMe' = toMe \o (<<u>> \o Countdown)
        BY <1>5, <1>6, <2>2, ConcatAssociative DEF TypeOK, Queues
      <3>1. <<u>> \o Countdown \in Seq(Event) /\ LastSays(<<u>> \o Countdown, room.ready)
        BY <1>5, <1>6, <1>7, QueueAndMore
      <3>2. \A k : Has(<<u>> \o Countdown, k) => k \in {"ROOM_UPDATE", "COUNTDOWN"}
        BY <1>5, <1>6, QueueAndMore
      <3>3. QED
        BY <3>0, <3>1, <3>2
    <2>3. QED
      BY <1>2, <2>1, <2>2
  <1>9. \A k \in {"JOIN_ROOM_SUCCESS", "GET_FRIEND_LIST_RESPONSE", "GAME_START", "GAME_END"} : ~Has(ms, k)
    BY <1>8
  <1>10. Queues' /\ Seats'
    BY <1>8, <1>9, EventsCome DEF TypeOK, Seats
  <1>11. Pipe => Pipe'
    BY <1>8, <1>9, SeatStays
  <1>12. QED
    BY <1>10, <1>11

(* What other players do comes as updates, starts and ends of the user's   *)
(* room.                                                                   *)
LEMMA OthersStep ==
  ASSUME TypeOK, OthersAct, UNCHANGED <<screen, view>>
  PROVE  Queues' /\ Seats' /\ (Pipe => Pipe')
  <1>1. UNCHANGED <<screen, view, toServer, seat>> /\ Queues /\ Seats /\ toMe \in Seq(Event)
        /\ room \in Table
    BY DEF OthersAct, TypeOK, Queues, Seats
  <1>2. ASSUME NEW e \in Event, Kind(e) \in {"MOVE_RESULT", "CHALLENGE_NOTIFICATION"},
               toMe' = Append(toMe, e), UNCHANGED room
        PROVE  Queues' /\ Seats' /\ (Pipe => Pipe')
    <2>1. <<e>> \in Seq(Event) /\ toMe' = toMe \o <<e>>
      BY <1>1, <1>2, OneInSeq
    <2>2. \A k \in {"JOIN_ROOM_SUCCESS", "GET_FRIEND_LIST_RESPONSE", "GAME_START", "GAME_END",
                    "ROOM_UPDATE"} : ~Has(<<e>>, k)
      BY <1>2, OneMessage
    <2>3. Queues' /\ Seats'
      BY <1>1, <1>2, <2>1, <2>2, EventsCome DEF Seats
    <2>4. Pipe => Pipe'
      BY <1>1, <1>2, <2>1, <2>2, SeatStays
    <2>5. QED
      BY <2>3, <2>4
  <1>3. CASE OthersTurnReady
    <2>1. /\ room.inIt /\ room.phase \in {"WAITING", "COUNTING"}
          /\ \E all \in BOOLEAN : room' = Counted([room EXCEPT !.allReady = all])
          /\ toMe' = toMe \o <<RoomUpdate>> \o Countdown
      BY <1>3 DEF OthersTurnReady, BetweenHands
    <2>2. /\ room' \in Table /\ room'.inIt /\ room'.ready = room.ready
          /\ room'.phase \in {"WAITING", "COUNTING"}
      BY <1>1, <2>1 DEF Counted, Table
    <2>3. QED
      BY <1>1, <2>1, <2>2, OthersUpdates
  <1>4. CASE OtherJoins
    <2>1. /\ room.inIt /\ room.phase \in {"WAITING", "COUNTING"}
          /\ room' = [room EXCEPT !.others = @ + 1, !.allReady = FALSE]
      BY <1>4 DEF OtherJoins, BetweenHands
    <2>2. room' \in Table /\ room'.inIt /\ room'.ready = room.ready /\ room'.phase = room.phase
      <3>1. room.others + 1 \in Nat
        BY <1>1 DEF Table
      <3>2. room' = [room EXCEPT !.others = room.others + 1, !.allReady = FALSE]
        BY <2>1
      <3>3. QED
        BY <1>1, <2>1, <3>1, <3>2 DEF Table
    <2>3. toMe' = toMe \o <<RoomUpdate>>
      BY <1>1, <1>4 DEF OtherJoins
    <2>4. QED
      BY <1>1, <2>1, <2>2, <2>3, OthersUpdates
  <1>5. CASE OtherLeaves
    <2>1. /\ room.inIt /\ room.phase \in {"WAITING", "COUNTING"} /\ room.others > 0
          /\ \E all \in {room.allReady, TRUE} :
               room' = [room EXCEPT !.phase = "WAITING", !.others = @ - 1,
                                    !.allReady = all /\ room.others > 1]
      BY <1>5 DEF OtherLeaves, BetweenHands
    <2>2. room' \in Table /\ room'.inIt /\ room'.ready = room.ready /\ room'.phase = "WAITING"
      <3>1. room.others - 1 \in Nat
        BY <1>1, <2>1 DEF Table
      <3>2. PICK n \in Nat, b \in BOOLEAN :
              room' = [room EXCEPT !.phase = "WAITING", !.others = n, !.allReady = b]
        BY <1>1, <2>1, <3>1
      <3>3. QED
        BY <1>1, <2>1, <3>2 DEF Table
    <2>3. toMe' = toMe \o <<RoomUpdate>>
      BY <1>1, <1>5 DEF OtherLeaves
    <2>4. QED
      BY <1>1, <2>1, <2>2, <2>3, OthersUpdates
  <1>6. CASE OtherMoves
    <2>1. room.inIt /\ room.phase = "PLAYING"
      BY <1>6 DEF OtherMoves, Playing
    <2>2. CASE HandEnds /\ toMe' = toMe \o EndMessages
      <3>1. /\ Seats' /\ ~room'.inIt /\ EndMessages \in Seq(Event)
            /\ ~Has(EndMessages, "JOIN_ROOM_SUCCESS") /\ ~Has(EndMessages, "GET_FRIEND_LIST_RESPONSE")
        <4>1. HandEnds /\ UNCHANGED seat /\ Seats
          BY <1>1, <2>2
        <4>2. QED
          BY <4>1, EndsHand
      <3>2. QED
        BY <1>1, <2>2, <3>1, EventsCome, SeatGoes
    <2>3. CASE toMe' = Append(toMe, Plain("MOVE_RESULT")) /\ UNCHANGED room
      <3>1. Plain("MOVE_RESULT") \in Event /\ Kind(Plain("MOVE_RESULT")) = "MOVE_RESULT"
        BY OtherEvents
      <3>2. QED
        BY <1>2, <2>3, <3>1
    <2>4. CASE UNCHANGED room /\ toMe' = Append(toMe, RoomUpdate)
      <3>1. toMe' = toMe \o <<RoomUpdate>>
        BY <1>1, <2>4
      <3>2. QED
        BY <1>1, <2>1, <2>4, <3>1, OthersUpdates
    <2>5. QED
      BY <1>6, <2>2, <2>3, <2>4 DEF OtherMoves
  <1>7. CASE Challenged
    <2>1. PICK r \in Room : toMe' = Append(toMe, Msg("CHALLENGE_NOTIFICATION", r, TRUE))
      BY <1>7 DEF Challenged
    <2> DEFINE e == Msg("CHALLENGE_NOTIFICATION", r, TRUE)
    <2>2. e \in Event /\ Kind(e) = "CHALLENGE_NOTIFICATION"
      BY ChallengeEvent
    <2>3. QED
      BY <1>2, <1>7, <2>1, <2>2 DEF Challenged
  <1>8. QED
    BY <1>3, <1>4, <1>5, <1>6, <1>7 DEF OthersAct

(* Whatever the server does by itself.                                     *)
LEMMA ServiceStep ==
  ASSUME TypeOK, Handle \/ StartPlaying \/ OthersAct, UNCHANGED <<screen, view>>
  PROVE  Queues' /\ Seats' /\ (Pipe => Pipe')
  BY PlainStep, JoinStep, ReadyStep, LeaveStep, PlayStep, StartStep, OthersStep DEF Handle


----------------------------------------------------------------------------
(* The callbacks.                                                          *)

(* Those that no onExit clears.                                            *)
Outliving == {"logout", "create", "challengeNotify", "challengeResult"}

(* What is set belongs to the screen, and only a few are ever gone.        *)
CallbacksOK ==
  /\ \A s \in Slot :
       /\ callbacks[s] = "set" => s \in SetOnEnter(screen) \/ (s = "logout" /\ screen = "Lobby")
       /\ callbacks[s] = "gone" => s \in Outliving
       /\ s \in SetOnEnter(screen) => callbacks[s] = "set"
       /\ screen = "Closed" => callbacks[s] = "none"
  /\ calledGone \in Outliving \cup {NoSlot}

(* The callbacks a screen sets when it is entered.                         *)
LEMMA SetsOnEnter ==
  ASSUME NEW s
  PROVE  /\ "join" \in SetOnEnter(s) <=> s = "RoomList"
         /\ "create" \in SetOnEnter(s) <=> s = "RoomList"
         /\ "roomList" \in SetOnEnter(s) <=> s = "RoomList"
         /\ "countdown" \in SetOnEnter(s) <=> s \in {"WaitingRoom", "Countdown"}
         /\ "gameStart" \in SetOnEnter(s) <=> s \in {"WaitingRoom", "Countdown"}
         /\ "roomUpdate" \in SetOnEnter(s) <=> s \in {"WaitingRoom", "InGame"}
         /\ "game" \in SetOnEnter(s) <=> s = "InGame"
         /\ "friendList" \in SetOnEnter(s) <=> s \in {"WaitingRoom", "Friends"}
         /\ "logout" \notin SetOnEnter(s)
         /\ SetOnEnter(s) \subseteq Slot
  BY DEF SetOnEnter, WaitingRoomSets, CountdownSets, Slot

(* Which screen a callback about rooms or games stands for.                *)
LEMMA SlotsOfScreens ==
  ASSUME Screens, CallbacksOK
  PROVE  /\ \A s \in {"join", "roomList", "countdown", "gameStart", "roomUpdate", "game", "friendList"} :
              callbacks[s] # "gone" /\ (callbacks[s] # "none" <=> s \in SetOnEnter(screen))
         /\ callbacks["logout"] = "set" => screen = "Lobby"
         /\ callbacks["create"] = "set" => screen = "RoomList"
  <1>1. \A s \in Slot : callbacks[s] \in {"none", "set", "gone"}
    BY DEF Screens
  <1>2. {"join", "roomList", "countdown", "gameStart", "roomUpdate", "game", "friendList"} \subseteq Slot \ Outliving
    BY DEF Slot, Outliving
  <1>3. "logout" \in Slot /\ "create" \in Slot
    BY DEF Slot
  <1>4. \A s \in Slot \ Outliving : callbacks[s] # "gone" /\ (callbacks[s] # "none" <=> s \in SetOnEnter(screen))
    BY <1>1 DEF CallbacksOK, Outliving
  <1>5. "logout" \notin SetOnEnter(screen) /\ ("create" \in SetOnEnter(screen) <=> screen = "RoomList")
    BY SetsOnEnter
  <1>6. QED
    BY <1>2, <1>3, <1>4, <1>5 DEF CallbacksOK

(* A screen is left for another.                                           *)
LEMMA TransitionKeeps ==
  ASSUME Screens, CallbacksOK, NEW to \in Screen, NEW r \in AnyRoom, transitionTo(to, r),
         strayed' \in BOOLEAN, calledGone' \in Outliving \cup {NoSlot}
  PROVE  Screens' /\ CallbacksOK'
  <1>1. /\ callbacks' = CallbacksAfter(to) /\ screen' = to /\ view' = Fresh(r)
        /\ \A s \in Slot : callbacks[s] \in {"none", "set", "gone"}
    BY DEF transitionTo, Screens
  <1>2. view' \in View
    BY <1>1, NoRoomIsNone DEF Fresh, View
  <1>3. \A s \in Slot :
          callbacks'[s] = IF s \in SetOnEnter(to) THEN "set"
                          ELSE IF s \in ClearedOnExit(screen) THEN "none"
                          ELSE IF callbacks[s] = "set" /\ screen # to THEN "gone"
                          ELSE callbacks[s]
    BY <1>1 DEF CallbacksAfter
  <1>4. callbacks' \in [Slot -> {"none", "set", "gone"}]
    BY <1>1 DEF CallbacksAfter
  <1>5. Screens'
    BY <1>1, <1>2, <1>4 DEF Screens
  <1>6. ASSUME NEW s \in Slot
        PROVE  /\ callbacks'[s] = "set" => s \in SetOnEnter(to) \/ (s = "logout" /\ to = "Lobby")
               /\ callbacks'[s] = "gone" => s \in Outliving
               /\ s \in SetOnEnter(to) => callbacks'[s] = "set"
    <2>1. CASE s \in SetOnEnter(to)
      BY <1>3, <2>1
    <2>2. CASE s \notin SetOnEnter(to)
      <3>1. s \in SetOnEnter(screen) /\ s \notin ClearedOnExit(screen) => s \in Outliving
        BY DEF ClearedOnExit, Outliving
      <3>2. /\ callbacks[s] = "set" => s \in SetOnEnter(screen) \/ (s = "logout" /\ screen = "Lobby")
            /\ callbacks[s] = "gone" => s \in Outliving
        BY DEF CallbacksOK
      <3>3. "logout" \in Outliving
        BY DEF Outliving
      <3>4. QED
        BY <1>1, <1>3, <2>2, <3>1, <3>2, <3>3
    <2>3. QED
      BY <2>1, <2>2
  <1>7. to # "Closed"
    BY DEF Screen
  <1>8. QED
    BY <1>1, <1>5, <1>6, <1>7 DEF CallbacksOK

(* The screen and its callbacks stay as they are.                          *)
LEMMA ScreenStays ==
  ASSUME Screens, CallbacksOK, UNCHANGED <<screen, callbacks>>, view' \in View,
         strayed' \in BOOLEAN, calledGone' \in Outliving \cup {NoSlot}
  PROVE  Screens' /\ CallbacksOK'
  BY DEF Screens, CallbacksOK

(* The end of the program.                                                 *)
LEMMA EndsKeep ==
  ASSUME Ends, strayed' \in BOOLEAN, calledGone' \in Outliving \cup {NoSlot}
  PROVE  TypeOK' /\ CallbacksOK' /\ screen' = "Closed"
  <1>1. /\ screen' = "Closed" /\ callbacks' = [s \in Slot |-> "none"] /\ view' = Fresh(NoRoom)
        /\ toServer' = <<>> /\ toMe' = <<>> /\ seat' = NoRoom /\ room' = Nowhere
    BY DEF Ends
  <1>2. Seats'
    BY <1>1, NoRoomIsNone DEF Seats, Nowhere, Table
  <1>3. Queues'
    BY <1>1 DEF Queues
  <1>4. view' \in View
    BY <1>1, NoRoomIsNone DEF Fresh, View
  <1>5. \A s : s \notin SetOnEnter("Closed")
    BY DEF SetOnEnter
  <1>6. Screens' /\ CallbacksOK'
    BY <1>1, <1>4, <1>5 DEF Screens, CallbacksOK
  <1>7. QED
    BY <1>1, <1>2, <1>3, <1>6 DEF TypeOK

(* Requests that are neither a join nor of the waiting room.               *)
LEMMA PlainRequests ==
  \A t \in RequestType \ {"JOIN_ROOM"} :
    Plain(t) \in Request /\ Kind(Plain(t)) = t /\ <<Plain(t)>> \in Seq(Request)
  BY NoRoomIsNone DEF Plain, Msg, Request, RequestType, Kind

(* What a screen asks for is about no seat.                                *)
LEMMA AsksOf ==
  ASSUME NEW s
  PROVE  /\ Asks(s) \in Seq(Request)
         /\ \A k : Has(Asks(s), k) => k \in {"REQUEST_BALANCE", "GET_ROOM_LIST", "GET_FRIEND_LIST"}
         /\ s \notin {"Lobby", "RoomList", "Friends"} => Asks(s) = <<>>
  <1>1. \/ Asks(s) = <<>> /\ s \notin {"Lobby", "RoomList", "Friends"}
        \/ \E t \in {"REQUEST_BALANCE", "GET_ROOM_LIST", "GET_FRIEND_LIST"} :
             Asks(s) = <<Plain(t)>> /\ s \in {"Lobby", "RoomList", "Friends"}
    BY DEF Asks
  <1>2. CASE Asks(s) = <<>> /\ s \notin {"Lobby", "RoomList", "Friends"}
    BY <1>2, EmptyInSeq, EmptyQueue
  <1>3. ASSUME NEW t \in {"REQUEST_BALANCE", "GET_ROOM_LIST", "GET_FRIEND_LIST"},
               Asks(s) = <<Plain(t)>>, s \in {"Lobby", "RoomList", "Friends"}
        PROVE  /\ Asks(s) \in Seq(Request)
               /\ \A k : Has(Asks(s), k) => k \in {"REQUEST_BALANCE", "GET_ROOM_LIST", "GET_FRIEND_LIST"}
    <2>1. t \in RequestType \ {"JOIN_ROOM"}
      BY DEF RequestType
    <2>2. <<Plain(t)>> \in Seq(Request) /\ Kind(Plain(t)) = t
      BY <2>1, PlainRequests
    <2>3. QED
      BY <1>3, <2>2, OneMessage
  <1>4. QED
    BY <1>1, <1>2, <1>3


----------------------------------------------------------------------------
(* The client takes a message up.                                          *)

Quiet == calledGone' = NoSlot

(* Another screen is called for.                                           *)
Moved(m) ==
  \/ m.type = "LOGOUT_RESPONSE" /\ (Quiet => screen = "Lobby") /\ CalledTo("Login", NoRoom)
  \/ m.type = "JOIN_ROOM_SUCCESS" /\ screen = "RoomList" /\ CalledTo("WaitingRoom", m.room)
  \/ m.type = "COUNTDOWN" /\ screen = "WaitingRoom" /\ CalledTo("Countdown", NoRoom)
  \/ m.type = "GAME_START" /\ screen \in {"WaitingRoom", "Countdown"} /\ CalledTo("InGame", NoRoom)
  \/ m.type = "GAME_END" /\ screen = "InGame" /\ CalledTo("GameResult", NoRoom)

(* The room just created is joined.                                        *)
JoinSent(m) ==
  /\ m.type = "CREATE_PRIVATE_ROOM_RESPONSE" /\ m.yes /\ (Quiet => screen = "RoomList")
  /\ SendJoin(m.room) /\ Stays

(* The screen shows something, or nothing happens.                         *)
Shown(m) ==
  /\ UNCHANGED <<screen, callbacks, toServer, strayed>>
  /\ view' \in View /\ view'.shownRoom = view.shownRoom /\ view'.asked = view.asked
  /\ IF m.type = "ROOM_UPDATE" /\ m.room # NoRoom /\ screen = "WaitingRoom"
     THEN view'.isMyReady = m.yes ELSE view'.isMyReady = view.isMyReady
  /\ "invite" \in view'.popups =>
       "invite" \in view.popups \/ (m.type = "GET_FRIEND_LIST_RESPONSE" /\ screen = "WaitingRoom")
  /\ ~(m.type = "JOIN_ROOM_SUCCESS" /\ screen = "RoomList")
  /\ ~(m.type = "COUNTDOWN" /\ screen = "WaitingRoom")
  /\ ~(m.type = "GAME_START" /\ screen \in {"WaitingRoom", "Countdown"})
  /\ ~(m.type = "GAME_END" /\ screen = "InGame")

TakenUp ==
  /\ toMe # <<>> /\ toMe' = Tail(toMe) /\ UNCHANGED service
  /\ Quiet => calledGone = NoSlot
  /\ Moved(Got) \/ JoinSent(Got) \/ Shown(Got)

Called ==
  calledGone' = calledGone \/ \E s \in Slot : callbacks[s] = "gone" /\ calledGone' = s

Result == Called /\ (TakenUp \/ (Ends /\ UNCHANGED strayed))

(* A callback is gone, has run, or there is none.                          *)
LEMMA CalledBack ==
  ASSUME TypeOK, CallbacksOK, NEW slot \in Slot, Recorded(slot)
  PROVE  Called /\ (Quiet => calledGone = NoSlot /\ callbacks[slot] # "gone")
  BY DEF Called, Quiet, Slot, NoSlot, Recorded

(* A callback that is set is run.                                          *)
LEMMA Ran ==
  ASSUME TypeOK, CallbacksOK, NEW slot \in Slot, Recorded(slot), toMe # <<>>, toMe' = Tail(toMe),
         UNCHANGED service, Moved(Got) \/ JoinSent(Got) \/ Shown(Got)
  PROVE  Result
  BY CalledBack DEF Result, TakenUp

(* A callback that is set and ends the program.                            *)
LEMMA EndsByCall ==
  ASSUME TypeOK, CallbacksOK, NEW slot \in Slot, Recorded(slot), Ends, UNCHANGED strayed
  PROVE  Result
  BY CalledBack DEF Result

(* A callback that is not set changes nothing.                             *)
LEMMA NotRun ==
  ASSUME toMe # <<>>, toMe' = Tail(toMe), UNCHANGED <<service, calledGone>>, Shown(Got)
  PROVE  Result
  BY DEF Result, TakenUp, Called, Quiet

(* A message that means nothing to the screen.                             *)
LEMMA NothingShown ==
  ASSUME TypeOK, Stays, UNCHANGED <<toServer, strayed>>, NEW m \in Event,
         ~(m.type = "ROOM_UPDATE" /\ m.room # NoRoom /\ screen = "WaitingRoom"),
         ~(m.type = "JOIN_ROOM_SUCCESS" /\ screen = "RoomList"),
         ~(m.type = "COUNTDOWN" /\ screen = "WaitingRoom"),
         ~(m.type = "GAME_START" /\ screen \in {"WaitingRoom", "Countdown"}),
         ~(m.type = "GAME_END" /\ screen = "InGame")
  PROVE  Shown(m)
  BY DEF Shown, Stays, TypeOK, Screens

(* One of the fields of what is shown changes.                             *)
LEMMA FieldShown ==
  ASSUME view \in View
  PROVE  /\ \A p \in Popup :
              LET v == [view EXCEPT !.popups = @ \cup {p}]
              IN  /\ v \in View /\ v.shownRoom = view.shownRoom /\ v.asked = view.asked
                  /\ v.isMyReady = view.isMyReady /\ v.popups = view.popups \cup {p}
         /\ \A r \in AnyRoom, p \in {"challenge"} :
              LET v == [view EXCEPT !.challenge = r, !.popups = @ \cup {p}]
              IN  /\ v \in View /\ v.shownRoom = view.shownRoom /\ v.asked = view.asked
                  /\ v.isMyReady = view.isMyReady /\ v.popups = view.popups \cup {p}
         /\ \A b \in BOOLEAN :
              LET v == [view EXCEPT !.isMyReady = b]
              IN  /\ v \in View /\ v.shownRoom = view.shownRoom /\ v.asked = view.asked
                  /\ v.isMyReady = b /\ v.popups = view.popups
         /\ LET v == [view EXCEPT !.listed = TRUE]
            IN  /\ v \in View /\ v.shownRoom = view.shownRoom /\ v.asked = view.asked
                /\ v.isMyReady = view.isMyReady /\ v.popups = view.popups
  <1>1. "challenge" \in Popup /\ view.popups \in SUBSET Popup
    BY DEF View, Popup
  <1>2. QED
    BY <1>1 DEF View

(* A popup of one of these kinds opens.                                    *)
LEMMA PopupShown ==
  ASSUME TypeOK, NEW m \in Event, NEW p \in {"message", "challenge", "challengeResult", "invite"},
         p = "invite" => m.type = "GET_FRIEND_LIST_RESPONSE" /\ screen = "WaitingRoom",
         \/ OnlyShows([view EXCEPT !.popups = @ \cup {p}])
         \/ p = "challenge" /\ m.room \in AnyRoom
            /\ OnlyShows([view EXCEPT !.challenge = m.room, !.popups = @ \cup {p}]),
         m.type \notin {"ROOM_UPDATE", "JOIN_ROOM_SUCCESS", "COUNTDOWN", "GAME_START", "GAME_END"}
  PROVE  Shown(m)
  <1>1. /\ view' \in View /\ view'.shownRoom = view.shownRoom /\ view'.asked = view.asked
        /\ view'.isMyReady = view.isMyReady /\ view'.popups = view.popups \cup {p}
    <2>1. CASE OnlyShows([view EXCEPT !.popups = @ \cup {p}])
      <3>1. p \in Popup /\ view \in View /\ view' = [view EXCEPT !.popups = @ \cup {p}]
        BY <2>1 DEF OnlyShows, Shows, TypeOK, Screens, Popup
      <3>2. QED
        BY <3>1, FieldShown
    <2>2. CASE /\ p = "challenge" /\ m.room \in AnyRoom
               /\ OnlyShows([view EXCEPT !.challenge = m.room, !.popups = @ \cup {p}])
      <3>1. view \in View /\ view' = [view EXCEPT !.challenge = m.room, !.popups = @ \cup {p}]
        BY <2>2 DEF OnlyShows, Shows, TypeOK, Screens
      <3>2. QED
        BY <2>2, <3>1, FieldShown
    <2>3. QED
      BY <2>1, <2>2
  <1>2. UNCHANGED <<screen, callbacks, toServer, strayed>>
    BY DEF OnlyShows, Shows
  <1>3. QED
    BY <1>1, <1>2 DEF Shown


(* What a message does to the screen is one of four things: nothing, a     *)
(* popup, an update or another screen.                                     *)
LEMMA MessageTaken ==
  ASSUME TypeOK, CallbacksOK, handleMessage
  PROVE  Result
  <1> DEFINE m == Got
  <1>1. toMe # <<>> /\ m \in Event
    <2>1. toMe # <<>>
      BY DEF handleMessage, onBalanceResponse, Dispatch, Gets
    <2>2. QED
      BY <2>1, TailOfQueue DEF Got, TypeOK, Queues
  <1>2. /\ view \in View /\ screen \in Screen \cup {"Closed"} /\ m.room \in AnyRoom /\ m.yes \in BOOLEAN
        /\ \A s \in Slot : callbacks[s] \in {"none", "set", "gone"}
    BY <1>1 DEF TypeOK, Screens, Event
  <1>3. \A s \in Slot : Recorded(s) => (Quiet => callbacks[s] # "gone")
    BY CalledBack
  <1>4. /\ \A s \in {"join", "roomList", "countdown", "gameStart", "roomUpdate", "game", "friendList"} :
             s \in Slot /\ (Calls(s) <=> s \in SetOnEnter(screen))
        /\ callbacks["logout"] = "set" => screen = "Lobby"
        /\ callbacks["create"] = "set" => screen = "RoomList"
        /\ {"logout", "create", "challengeNotify", "challengeResult"} \subseteq Slot
    BY SlotsOfScreens DEF TypeOK, Calls, Slot
  <1>5. CASE onBalanceResponse
    <2>1. m.type = "REQUEST_BALANCE_RESPONSE" /\ Stays /\ UNCHANGED <<toServer, strayed>>
          /\ toMe' = Tail(toMe) /\ UNCHANGED <<service, calledGone>>
      BY <1>5 DEF onBalanceResponse, Gets, history
    <2>2. Shown(m)
      BY <1>1, <2>1, NothingShown
    <2>3. QED
      BY <1>1, <2>1, <2>2, NotRun
  <1>6. CASE Dispatch({"LOGOUT_RESPONSE"}, "logout", onLogoutResponse)
    <2>1. m.type = "LOGOUT_RESPONSE"
      BY <1>6 DEF Dispatch, Gets
    <2>2. CASE Calls("logout") /\ onLogoutResponse /\ toMe' = Tail(toMe) /\ Recorded("logout") /\ UNCHANGED service
      <3>1. CASE m.yes
        <4>1. Moved(m)
          BY <1>2, <1>3, <1>4, <2>1, <2>2, <3>1 DEF Moved, onLogoutResponse, Calls
        <4>2. QED
          BY <1>1, <1>4, <2>2, <4>1, Ran
      <3>2. CASE ~m.yes
        <4>1. OnlyShows(view)
          BY <2>2, <3>2 DEF onLogoutResponse
        <4>2. Shown(m)
          BY <1>1, <2>1, <4>1, NothingShown DEF OnlyShows, Shows, Stays
        <4>3. QED
          BY <1>1, <1>4, <2>2, <4>2, Ran
      <3>3. QED
        BY <3>1, <3>2
    <2>3. CASE ~Calls("logout") /\ toMe' = Tail(toMe) /\ Stays /\ UNCHANGED <<service, toServer, history>>
      <3>1. Shown(m)
        BY <1>1, <2>1, <2>3, NothingShown DEF history
      <3>2. QED
        BY <1>1, <2>3, <3>1, NotRun DEF history
    <2>4. QED
      BY <1>4, <1>6, <2>2, <2>3, EndsByCall DEF Dispatch
  <1>7. CASE Dispatch({"ROOM_LIST"}, "roomList", onRoomListReceived)
    <2>1. m.type \in {"ROOM_LIST"}
      BY <1>7 DEF Dispatch, Gets
    <2>2. ASSUME Calls("roomList"), onRoomListReceived, toMe' = Tail(toMe), Recorded("roomList"), UNCHANGED service
          PROVE  Shown(m)
      BY <1>2, <2>1, <2>2, FieldShown DEF Shown, onRoomListReceived, OnlyShows, Shows
    <2>3. ASSUME ~Calls("roomList"), toMe' = Tail(toMe), Stays, UNCHANGED <<service, toServer, history>>
          PROVE  Shown(m)
      BY <1>1, <1>4, <2>1, <2>3, SetsOnEnter, NothingShown DEF history
    <2>4. QED
      BY <1>1, <1>4, <1>7, <2>2, <2>3, Ran, NotRun, EndsByCall DEF Dispatch, history
  <1>8. CASE Dispatch({"JOIN_ROOM_SUCCESS", "JOIN_ROOM_FAIL"}, "join", onJoinRoomResult)
    <2>1. m.type \in {"JOIN_ROOM_SUCCESS", "JOIN_ROOM_FAIL"}
      BY <1>8 DEF Dispatch, Gets
    <2>2. ASSUME Calls("join"), onJoinRoomResult, toMe' = Tail(toMe), Recorded("join"), UNCHANGED service
          PROVE  Moved(m) \/ Shown(m)
      <3>1. CASE m.type = "JOIN_ROOM_SUCCESS" /\ CalledTo("WaitingRoom", m.room)
        BY <1>4, <2>2, <3>1, SetsOnEnter DEF Moved
      <3>2. CASE m.type # "JOIN_ROOM_SUCCESS" /\ OnlyShows([view EXCEPT !.popups = @ \cup {"message"}])
        BY <1>1, <2>1, <3>2, PopupShown
      <3>3. QED
        BY <2>2, <3>1, <3>2 DEF onJoinRoomResult
    <2>3. ASSUME ~Calls("join"), toMe' = Tail(toMe), Stays, UNCHANGED <<service, toServer, history>>
          PROVE  Shown(m)
      BY <1>1, <1>4, <2>1, <2>3, SetsOnEnter, NothingShown DEF history
    <2>4. QED
      BY <1>1, <1>4, <1>8, <2>2, <2>3, Ran, NotRun, EndsByCall DEF Dispatch, history
  <1>9. CASE Dispatch({"CREATE_PRIVATE_ROOM_RESPONSE"}, "create", onCreatePrivateRoomResponse)
    <2>1. m.type \in {"CREATE_PRIVATE_ROOM_RESPONSE"}
      BY <1>9 DEF Dispatch, Gets
    <2>2. ASSUME Calls("create"), onCreatePrivateRoomResponse, toMe' = Tail(toMe), Recorded("create"), UNCHANGED service
          PROVE  JoinSent(m) \/ Shown(m)
      <3>1. CASE m.yes /\ SendJoin(m.room) /\ Stays
        BY <1>2, <1>3, <1>4, <2>1, <2>2, <3>1 DEF JoinSent, Calls
      <3>2. CASE OnlyShows([view EXCEPT !.popups = @ \cup {"message"}])
        BY <1>1, <2>1, <3>2, PopupShown
      <3>3. CASE OnlyShows(view)
        BY <1>1, <2>1, <3>3, NothingShown DEF OnlyShows, Shows, Stays
      <3>4. QED
        BY <2>2, <3>1, <3>2, <3>3 DEF onCreatePrivateRoomResponse
    <2>3. ASSUME ~Calls("create"), toMe' = Tail(toMe), Stays, UNCHANGED <<service, toServer, history>>
          PROVE  Shown(m)
      BY <1>1, <1>4, <2>1, <2>3, SetsOnEnter, NothingShown DEF history
    <2>4. QED
      BY <1>1, <1>4, <1>9, <2>2, <2>3, Ran, NotRun, EndsByCall DEF Dispatch, history
  <1>10. CASE Dispatch({"CHALLENGE_NOTIFICATION"}, "challengeNotify", onChallengeNotification)
    <2>1. m.type \in {"CHALLENGE_NOTIFICATION"}
      BY <1>10 DEF Dispatch, Gets
    <2>2. ASSUME Calls("challengeNotify"), onChallengeNotification, toMe' = Tail(toMe), Recorded("challengeNotify"), UNCHANGED service
          PROVE  Shown(m)
      <3>1. CASE OnlyShows([view EXCEPT !.challenge = m.room, !.popups = @ \cup {"challenge"}])
        BY <1>1, <1>2, <2>1, <3>1, PopupShown
      <3>2. CASE OnlyShows(view)
        BY <1>1, <2>1, <3>2, NothingShown DEF OnlyShows, Shows, Stays
      <3>3. QED
        BY <2>2, <3>1, <3>2 DEF onChallengeNotification
    <2>3. ASSUME ~Calls("challengeNotify"), toMe' = Tail(toMe), Stays, UNCHANGED <<service, toServer, history>>
          PROVE  Shown(m)
      BY <1>1, <1>4, <2>1, <2>3, SetsOnEnter, NothingShown DEF history
    <2>4. QED
      BY <1>1, <1>4, <1>10, <2>2, <2>3, Ran, NotRun, EndsByCall DEF Dispatch, history
  <1>11. CASE Dispatch({"SEND_CHALLENGE_RESPONSE"}, "challengeResult", onSendChallengeResponse)
    <2>1. m.type \in {"SEND_CHALLENGE_RESPONSE"}
      BY <1>11 DEF Dispatch, Gets
    <2>2. ASSUME Calls("challengeResult"), onSendChallengeResponse, toMe' = Tail(toMe), Recorded("challengeResult"), UNCHANGED service
          PROVE  Shown(m)
      <3>1. CASE OnlyShows([view EXCEPT !.popups = @ \cup {"challengeResult"}])
        BY <1>1, <2>1, <3>1, PopupShown
      <3>2. CASE OnlyShows(view)
        BY <1>1, <2>1, <3>2, NothingShown DEF OnlyShows, Shows, Stays
      <3>3. QED
        BY <2>2, <3>1, <3>2 DEF onSendChallengeResponse
    <2>3. ASSUME ~Calls("challengeResult"), toMe' = Tail(toMe), Stays, UNCHANGED <<service, toServer, history>>
          PROVE  Shown(m)
      BY <1>1, <1>4, <2>1, <2>3, SetsOnEnter, NothingShown DEF history
    <2>4. QED
      BY <1>1, <1>4, <1>11, <2>2, <2>3, Ran, NotRun, EndsByCall DEF Dispatch, history
  <1>12. CASE Dispatch({"GET_FRIEND_LIST_RESPONSE"}, "friendList", onGetFriendListResponse)
    <2>1. m.type \in {"GET_FRIEND_LIST_RESPONSE"}
      BY <1>12 DEF Dispatch, Gets
    <2>2. ASSUME Calls("friendList"), onGetFriendListResponse, toMe' = Tail(toMe), Recorded("friendList"), UNCHANGED service
          PROVE  Shown(m)
      <3>1. CASE screen = "WaitingRoom" /\ OnlyShows([view EXCEPT !.popups = @ \cup {"invite"}])
        BY <1>1, <2>1, <3>1, PopupShown
      <3>2. CASE OnlyShows(view)
        BY <1>1, <2>1, <3>2, NothingShown DEF OnlyShows, Shows, Stays
      <3>3. QED
        BY <2>2, <3>1, <3>2 DEF onGetFriendListResponse
    <2>3. ASSUME ~Calls("friendList"), toMe' = Tail(toMe), Stays, UNCHANGED <<service, toServer, history>>
          PROVE  Shown(m)
      BY <1>1, <1>4, <2>1, <2>3, SetsOnEnter, NothingShown DEF history
    <2>4. QED
      BY <1>1, <1>4, <1>12, <2>2, <2>3, Ran, NotRun, EndsByCall DEF Dispatch, history
  <1>13. CASE Dispatch({"ROOM_UPDATE"}, "roomUpdate", onRoomUpdateReceived)
    <2>1. m.type \in {"ROOM_UPDATE"}
      BY <1>13 DEF Dispatch, Gets
    <2>2. ASSUME Calls("roomUpdate"), onRoomUpdateReceived, toMe' = Tail(toMe), Recorded("roomUpdate"), UNCHANGED service
          PROVE  Shown(m)
      <3>1. CASE /\ screen = "WaitingRoom" /\ m.room # NoRoom
                 /\ OnlyShows([view EXCEPT !.isMyReady = m.yes])
        BY <1>2, <2>1, <3>1, FieldShown DEF Shown, OnlyShows, Shows
      <3>2. CASE ~(screen = "WaitingRoom" /\ m.room # NoRoom) /\ OnlyShows(view)
        BY <1>1, <2>1, <3>2, NothingShown DEF OnlyShows, Shows, Stays
      <3>3. QED
        BY <2>2, <3>1, <3>2 DEF onRoomUpdateReceived
    <2>3. ASSUME ~Calls("roomUpdate"), toMe' = Tail(toMe), Stays, UNCHANGED <<service, toServer, history>>
          PROVE  Shown(m)
      BY <1>1, <1>4, <2>1, <2>3, SetsOnEnter, NothingShown DEF history
    <2>4. QED
      BY <1>1, <1>4, <1>13, <2>2, <2>3, Ran, NotRun, EndsByCall DEF Dispatch, history
  <1>14. CASE Dispatch({"COUNTDOWN"}, "countdown", onGameCountdownReceived)
    <2>1. m.type \in {"COUNTDOWN"}
      BY <1>14 DEF Dispatch, Gets
    <2>2. ASSUME Calls("countdown"), onGameCountdownReceived, toMe' = Tail(toMe), Recorded("countdown"), UNCHANGED service
          PROVE  Moved(m) \/ Shown(m)
      <3>1. CASE screen = "WaitingRoom" /\ CalledTo("Countdown", NoRoom)
        BY <2>1, <3>1 DEF Moved
      <3>2. CASE screen # "WaitingRoom" /\ OnlyShows(view)
        BY <1>1, <2>1, <3>2, NothingShown DEF OnlyShows, Shows, Stays
      <3>3. QED
        BY <2>2, <3>1, <3>2 DEF onGameCountdownReceived
    <2>3. ASSUME ~Calls("countdown"), toMe' = Tail(toMe), Stays, UNCHANGED <<service, toServer, history>>
          PROVE  Shown(m)
      BY <1>1, <1>4, <2>1, <2>3, SetsOnEnter, NothingShown DEF history
    <2>4. QED
      BY <1>1, <1>4, <1>14, <2>2, <2>3, Ran, NotRun, EndsByCall DEF Dispatch, history
  <1>15. CASE Dispatch({"GAME_START"}, "gameStart", onGameStartReceived)
    <2>1. m.type \in {"GAME_START"}
      BY <1>15 DEF Dispatch, Gets
    <2>2. ASSUME Calls("gameStart"), onGameStartReceived, toMe' = Tail(toMe), Recorded("gameStart"), UNCHANGED service
          PROVE  Moved(m)
      <3>1. screen \in {"WaitingRoom", "Countdown"} /\ CalledTo("InGame", NoRoom)
        BY <1>4, <2>2, SetsOnEnter DEF onGameStartReceived
      <3>2. QED
        BY <2>1, <3>1 DEF Moved
    <2>3. ASSUME ~Calls("gameStart"), toMe' = Tail(toMe), Stays, UNCHANGED <<service, toServer, history>>
          PROVE  Shown(m)
      BY <1>1, <1>4, <2>1, <2>3, SetsOnEnter, NothingShown DEF history
    <2>4. QED
      BY <1>1, <1>4, <1>15, <2>2, <2>3, Ran, NotRun, EndsByCall DEF Dispatch, history
  <1>16. CASE Dispatch({"MOVE_RESULT"}, "game", onMoveResultReceived)
    <2>1. m.type \in {"MOVE_RESULT"}
      BY <1>16 DEF Dispatch, Gets
    <2>2. ASSUME Calls("game"), onMoveResultReceived, toMe' = Tail(toMe), Recorded("game"), UNCHANGED service
          PROVE  Shown(m)
      BY <1>1, <2>1, <2>2, NothingShown DEF onMoveResultReceived, OnlyShows, Shows, Stays
    <2>3. ASSUME ~Calls("game"), toMe' = Tail(toMe), Stays, UNCHANGED <<service, toServer, history>>
          PROVE  Shown(m)
      BY <1>1, <1>4, <2>1, <2>3, SetsOnEnter, NothingShown DEF history
    <2>4. QED
      BY <1>1, <1>4, <1>16, <2>2, <2>3, Ran, NotRun, EndsByCall DEF Dispatch, history
  <1>17. CASE Dispatch({"GAME_END"}, "game", onGameEndReceived)
    <2>1. m.type \in {"GAME_END"}
      BY <1>17 DEF Dispatch, Gets
    <2>2. ASSUME Calls("game"), onGameEndReceived, toMe' = Tail(toMe), Recorded("game"), UNCHANGED service
          PROVE  Moved(m)
      <3>1. screen = "InGame" /\ CalledTo("GameResult", NoRoom)
        BY <1>4, <2>2, SetsOnEnter DEF onGameEndReceived
      <3>2. QED
        BY <2>1, <3>1 DEF Moved
    <2>3. ASSUME ~Calls("game"), toMe' = Tail(toMe), Stays, UNCHANGED <<service, toServer, history>>
          PROVE  Shown(m)
      BY <1>1, <1>4, <2>1, <2>3, SetsOnEnter, NothingShown DEF history
    <2>4. QED
      BY <1>1, <1>4, <1>17, <2>2, <2>3, Ran, NotRun, EndsByCall DEF Dispatch, history
  <1>18. QED
    BY <1>5, <1>6, <1>7, <1>8, <1>9, <1>10, <1>11, <1>12, <1>13, <1>14, <1>15, <1>16, <1>17
       DEF handleMessage


(* While messages are under way the two sides are not at rest.             *)
LEMMA UnderWayIs ==
  ASSUME Queues
  PROVE  JoinUnderWay <=> Joining \/ Joined
  <1>1. DOMAIN toServer = 1..Len(toServer) /\ DOMAIN toMe = 1..Len(toMe)
    BY DEF Queues
  <1>2. \A m : /\ Kind(m) = "JOIN_ROOM" <=> m.type = "JOIN_ROOM"
               /\ Kind(m) = "JOIN_ROOM_SUCCESS" <=> m.type = "JOIN_ROOM_SUCCESS"
    BY DEF Kind
  <1>3. QED
    BY <1>1, <1>2 DEF JoinUnderWay, IsUnderWay, Joining, Joined, Has

(* A callback of a screen that is gone is one of those that are not        *)
(* cleared.                                                                *)
LEMMA GoneIsOutliving ==
  ASSUME CallbacksOK, Called
  PROVE  calledGone' \in Outliving \cup {NoSlot}
  BY DEF CallbacksOK, Called

(* A message leaves types and callbacks as they should be.                 *)
LEMMA MessageTypes ==
  ASSUME TypeOK, CallbacksOK, handleMessage
  PROVE  TypeOK' /\ CallbacksOK'
  <1>1. Called /\ (TakenUp \/ (Ends /\ UNCHANGED strayed))
    BY MessageTaken DEF Result
  <1>2. calledGone' \in Outliving \cup {NoSlot}
    BY <1>1, GoneIsOutliving
  <1>3. CASE Ends /\ UNCHANGED strayed
    BY <1>2, <1>3, EndsKeep DEF TypeOK, Screens
  <1>4. CASE TakenUp
    <2> DEFINE m == Got
    <2>1. /\ toMe' \in Seq(Event) /\ m \in Event /\ m.room \in AnyRoom /\ Seats'
          /\ Screens /\ toServer \in Seq(Request)
      <3>1. toMe # <<>> /\ toMe' = Tail(toMe) /\ UNCHANGED service
        BY <1>4 DEF TakenUp
      <3>2. m \in Event /\ toMe' \in Seq(Event)
        BY <3>1, TailOfQueue DEF Got, TypeOK, Queues
      <3>3. QED
        BY <3>1, <3>2 DEF TypeOK, Queues, Seats, service, Event
    <2>2. CASE Moved(m)
      <3>1. PICK to \in Screen, r \in AnyRoom : CalledTo(to, r)
        BY <2>1, <2>2, NoRoomIsNone DEF Moved, Screen
      <3>2. transitionTo(to, r) /\ toServer' = toServer \o Asks(to) /\ strayed' \in BOOLEAN
        BY <2>1, <3>1 DEF CalledTo, Screens
      <3>3. Screens' /\ CallbacksOK'
        BY <1>2, <2>1, <3>2, TransitionKeeps
      <3>4. toServer' \in Seq(Request)
        <4>1. Asks(to) \in Seq(Request)
          BY AsksOf
        <4>2. QED
          BY <2>1, <3>2, <4>1, ConcatProperties
      <3>5. QED
        BY <2>1, <3>3, <3>4 DEF TypeOK, Queues
    <2>3. CASE JoinSent(m)
      <3>1. m.room \in Room
        BY <2>1, <2>3 DEF JoinSent, Event
      <3>2. Msg("JOIN_ROOM", m.room, TRUE) \in Request
        BY <3>1, NoRoomIsNone, RequestTypes DEF RequestType
      <3>3. toServer' \in Seq(Request) /\ UNCHANGED <<screen, callbacks, view>> /\ strayed' \in BOOLEAN
        <4>1. toServer' \in Seq(Request) /\ UNCHANGED <<screen, callbacks, view>>
          <5>1. toServer' = Append(toServer, Msg("JOIN_ROOM", m.room, TRUE)) /\ Stays
            BY <2>3 DEF JoinSent, SendJoin, Send
          <5>2. QED
            BY <2>1, <3>2, <5>1, AppendProperties DEF Stays
        <4>2. strayed' = (strayed \/ JoinUnderWay)
          BY <2>3 DEF JoinSent, SendJoin
        <4>3. strayed' \in BOOLEAN
          BY <4>2, Zenon
        <4>4. QED
          BY <4>1, <4>3
      <3>4. Screens' /\ CallbacksOK'
        BY <1>2, <2>1, <3>3, ScreenStays DEF Screens
      <3>5. QED
        BY <2>1, <3>3, <3>4 DEF TypeOK, Queues
    <2>4. CASE Shown(m)
      <3>1. UNCHANGED <<screen, callbacks, toServer, strayed>> /\ view' \in View
        BY <2>4 DEF Shown
      <3>2. Screens' /\ CallbacksOK'
        BY <1>2, <2>1, <3>1, ScreenStays DEF Screens
      <3>3. QED
        BY <2>1, <3>1, <3>2 DEF TypeOK, Queues
    <2>5. QED
      BY <1>4, <2>2, <2>3, <2>4 DEF TakenUp
  <1>5. QED
    BY <1>1, <1>3, <1>4

(* A queue of the client without its first message.                        *)
LEMMA MessageGone ==
  ASSUME Queues, toMe # <<>>, toMe' = Tail(toMe)
  PROVE  /\ Got \in Event
         /\ \A k : Has(toMe, k) <=> Kind(Got) = k \/ Has(toMe', k)
         /\ \A k, l : Behind(toMe, k, l) <=> Behind(toMe', k, l) \/ (Kind(Got) = k /\ Has(toMe', l))
         /\ \A v : LastSays(toMe, v) =>
              \/ LastSays(toMe', v)
              \/ ~Has(toMe', "ROOM_UPDATE") /\ Kind(Got) = "ROOM_UPDATE" /\ Got.yes = v
         /\ \A r : JoinsOnly(toMe, r) =>
              JoinsOnly(toMe', r) /\ (Kind(Got) = "JOIN_ROOM_SUCCESS" => Got.room = r)
  BY TailOfQueue DEF Queues, Got

(* Outside the room and with no join under way there is nothing to show.   *)
LEMMA Elsewhere ==
  ASSUME Pipe, screen \notin {"WaitingRoom", "Countdown", "InGame"}, ~Joined
  PROVE  ~Staying
  BY DEF Pipe, Stay, HasCome

(* Without a join under way there is none in the queue.                    *)
LEMMA NotJoining ==
  ASSUME Pipe, screen # "RoomList"
  PROVE  ~Joining /\ ~Joined
  BY DEF Pipe, OneJoin

(* The screen is left for one that shows no seat.                          *)
LEMMA GoesAway ==
  ASSUME Queues, Pipe, ~Joining, ~Joined, UNCHANGED service,
         screen' # "WaitingRoom", view'.popups = {},
         NEW ms \in Seq(Request), toServer' = toServer \o ms, ~Has(ms, "JOIN_ROOM"),
         \A k : Has(toMe', k) => Has(toMe, k),
         ~Staying \/ Has(ms, "LEAVE_ROOM")
  PROVE  Pipe'
  <1>1. \A k : Has(toServer', k) <=> Has(toServer, k) \/ Has(ms, k)
    BY QueueAndMore DEF Queues
  <1>2. ~Joining' /\ ~Joined'
    BY <1>1 DEF Joining, Joined
  <1>3. ~Staying'
    BY <1>1 DEF Staying, service
  <1>4. OneJoin' /\ Asked'
    BY <1>2, NoneOfKind DEF OneJoin, Joining, Joined, Asked
  <1>5. QED
    BY <1>3, <1>4 DEF Pipe, Stay, Button


(* The client takes up a message while nothing has gone wrong.             *)

(* A message that leaves the user on the screen keeps the two sides        *)
(* related.                                                                *)
LEMMA ShownStep ==
  ASSUME TypeOK, Pipe, TakenUp, Shown(Got)
  PROVE  Pipe'
  <1> DEFINE m == Got
  <1>1. /\ toMe # <<>> /\ toMe' = Tail(toMe) /\ UNCHANGED <<service, screen, toServer>>
        /\ view'.shownRoom = view.shownRoom /\ view'.asked = view.asked
    BY DEF TakenUp, Shown
  <1>2. /\ \A k : Has(toMe, k) <=> Kind(m) = k \/ Has(toMe', k)
        /\ \A k, l : Behind(toMe, k, l) <=> Behind(toMe', k, l) \/ (Kind(m) = k /\ Has(toMe', l))
        /\ \A r : JoinsOnly(toMe, r) => JoinsOnly(toMe', r)
    BY <1>1, MessageGone DEF TypeOK
  <1>3. /\ Kind(m) = m.type \/ Kind(m) = "OTHERS_UPDATE"
        /\ Kind(m) = "ROOM_UPDATE" <=> m.type = "ROOM_UPDATE" /\ m.room # NoRoom
    BY DEF Kind
  <1>4. /\ ~(Kind(m) = "JOIN_ROOM_SUCCESS" /\ screen = "RoomList")
        /\ ~(Kind(m) = "GAME_START" /\ screen \in {"WaitingRoom", "Countdown"})
    BY <1>3 DEF Shown
  <1>5. Joined' <=> Joined
    BY <1>2, <1>4 DEF Joined, Pipe, OneJoin
  <1>6. \A l : Behind(toMe', "JOIN_ROOM_SUCCESS", l) <=> Behind(toMe, "JOIN_ROOM_SUCCESS", l)
    <2>1. Joined => Kind(m) # "JOIN_ROOM_SUCCESS"
      BY <1>4 DEF Pipe, OneJoin
    <2>2. Kind(m) = "JOIN_ROOM_SUCCESS" => Joined
      BY <1>2 DEF Joined
    <2>3. QED
      BY <1>2, <2>1, <2>2
  <1>7. OneJoin'
    BY <1>1, <1>5, <1>6 DEF Pipe, OneJoin, Joining
  <1>8. Asked'
    <2>1. Kind(m) = "GET_FRIEND_LIST_RESPONSE" /\ screen = "WaitingRoom" => view.asked
      BY <1>2 DEF Pipe, Asked
    <2>2. m.type = "GET_FRIEND_LIST_RESPONSE" => Kind(m) = "GET_FRIEND_LIST_RESPONSE"
      BY DEF Kind
    <2>3. "invite" \in view'.popups => view.asked
      BY <2>1, <2>2 DEF Shown, Pipe, Asked
    <2>4. QED
      BY <1>1, <1>2, <2>3 DEF Pipe, Asked
  <1>9. Staying' <=> Staying
    BY <1>1 DEF Staying, service
  <1>10. Stay'
    <2>1. ASSUME Staying, Joined PROVE Comes'
      BY <1>1, <1>2, <1>6, <2>1 DEF Pipe, Stay, Comes, service
    <2>2. ASSUME Staying, ~Joined PROVE HasCome'
      BY <1>1, <1>2, <1>4, <2>2 DEF Pipe, Stay, HasCome, service
    <2>3. QED
      BY <1>1, <1>5, <1>9, <2>1, <2>2 DEF Pipe, Stay, service
  <1>11. Button'
    <2>1. SUFFICES ASSUME Staying, room.phase # "PLAYING", ~Has(toServer, "READY"),
                          Joined \/ screen = "WaitingRoom"
                   PROVE  ButtonComes'
      BY <1>1, <1>5, <1>9 DEF Button, service
    <2>2. ButtonComes /\ room.ready = room'.ready
      BY <1>1, <2>1 DEF Pipe, Button, service
    <2>3. \A v : LastSays(toMe, v) =>
              \/ LastSays(toMe', v)
              \/ ~Has(toMe', "ROOM_UPDATE") /\ Kind(m) = "ROOM_UPDATE" /\ m.yes = v
      BY <1>1, MessageGone DEF TypeOK
    <2>4. CASE Joined
      <3>1. Behind(toMe', "JOIN_ROOM_SUCCESS", "ROOM_UPDATE")
        BY <1>6, <2>1, <2>4 DEF Pipe, Stay, Comes
      <3>2. Has(toMe', "ROOM_UPDATE") /\ Has(toMe, "ROOM_UPDATE")
        BY <1>2, <3>1 DEF Behind, Has
      <3>3. QED
        BY <2>2, <2>3, <3>2 DEF ButtonComes
    <2>5. CASE screen = "WaitingRoom" /\ Kind(m) = "ROOM_UPDATE"
      <3>1. view'.isMyReady = m.yes /\ Has(toMe, "ROOM_UPDATE")
        BY <1>2, <1>3, <2>5 DEF Shown
      <3>2. \/ LastSays(toMe', room.ready)
            \/ ~Has(toMe', "ROOM_UPDATE") /\ m.yes = room.ready
        BY <2>2, <2>3, <3>1 DEF ButtonComes
      <3>3. LastSays(toMe', room.ready) => Has(toMe', "ROOM_UPDATE")
        BY DEF LastSays, Has
      <3>4. QED
        BY <2>2, <3>1, <3>2, <3>3 DEF ButtonComes
    <2>6. CASE screen = "WaitingRoom" /\ Kind(m) # "ROOM_UPDATE"
      <3>1. view'.isMyReady = view.isMyReady /\ (Has(toMe, "ROOM_UPDATE") <=> Has(toMe', "ROOM_UPDATE"))
        BY <1>2, <1>3, <2>6 DEF Shown
      <3>2. QED
        BY <2>2, <2>3, <2>6, <3>1 DEF ButtonComes
    <2>7. QED
      BY <2>1, <2>4, <2>5, <2>6
  <1>12. QED
    BY <1>7, <1>8, <1>10, <1>11 DEF Pipe

(* The waiting room of the join that has come.                             *)
LEMMA JoinedStep ==
  ASSUME TypeOK, Pipe, TakenUp, Got.type = "JOIN_ROOM_SUCCESS", screen = "RoomList",
         CalledTo("WaitingRoom", Got.room)
  PROVE  Pipe'
  <1> DEFINE m == Got
  <1>1. /\ toMe # <<>> /\ toMe' = Tail(toMe) /\ UNCHANGED service
        /\ screen' = "WaitingRoom" /\ view' = Fresh(m.room)
        /\ toServer' = toServer \o Asks("WaitingRoom")
    BY DEF TakenUp, CalledTo, transitionTo
  <1>2. toServer' = toServer
    <2>1. Asks("WaitingRoom") = <<>>
      BY AsksOf
    <2>2. QED
      BY <1>1, <2>1 DEF TypeOK, Queues
  <1>3. Kind(m) = "JOIN_ROOM_SUCCESS"
    BY DEF Kind
  <1>4. /\ \A k : Has(toMe, k) <=> Kind(m) = k \/ Has(toMe', k)
        /\ \A k, l : Behind(toMe, k, l) <=> Behind(toMe', k, l) \/ (Kind(m) = k /\ Has(toMe', l))
        /\ \A r : JoinsOnly(toMe, r) => m.room = r
        /\ \A v : LastSays(toMe, v) => LastSays(toMe', v)
    BY <1>1, <1>3, MessageGone DEF TypeOK
  <1>5. Joined /\ ~Joining
    BY <1>3, <1>4 DEF Joined, Pipe, OneJoin
  <1>6. ~Has(toMe', "JOIN_ROOM_SUCCESS") /\ ~Has(toMe', "GET_FRIEND_LIST_RESPONSE")
    BY <1>3, <1>4 DEF Pipe, OneJoin
  <1>7. \A l : Behind(toMe, "JOIN_ROOM_SUCCESS", l) <=> Has(toMe', l)
    BY <1>3, <1>4, <1>6, NoneOfKind
  <1>8. OneJoin'
    BY <1>2, <1>5, <1>6, NoneOfKind DEF OneJoin, Joining, Joined
  <1>9. ~Has(toServer', "GET_FRIEND_LIST") /\ view'.popups = {}
    BY <1>1, <1>2, <1>5 DEF Pipe, OneJoin, Fresh
  <1>10. Asked'
    BY <1>6, <1>9 DEF Asked
  <1>11. Staying' <=> Staying
    BY <1>1, <1>2 DEF Staying, service
  <1>12. Stay'
    <2>1. ASSUME Staying PROVE room.phase # "FINISHED" /\ HasCome'
      <3>1. room.phase # "FINISHED" /\ Comes
        BY <1>5, <2>1 DEF Pipe, Stay
      <3>2. view'.shownRoom = seat'
        BY <1>1, <1>4, <3>1 DEF Comes, Fresh, service
      <3>3. QED
        BY <1>1, <1>7, <3>1, <3>2 DEF Comes, HasCome, service
    <2>2. ~Joined' /\ room' = room
      BY <1>1, <1>6 DEF Joined, service
    <2>3. QED
      BY <1>11, <2>1, <2>2 DEF Stay
  <1>13. Button'
    <2>1. SUFFICES ASSUME Staying, room.phase # "PLAYING", ~Has(toServer, "READY")
                   PROVE  ButtonComes'
      BY <1>1, <1>2, <1>11 DEF Button, service
    <2>2. ButtonComes /\ Comes
      BY <1>5, <2>1 DEF Pipe, Button, Stay
    <2>3. Has(toMe', "ROOM_UPDATE") /\ Has(toMe, "ROOM_UPDATE")
      BY <1>4, <1>7, <2>2 DEF Comes
    <2>4. LastSays(toMe, room.ready) /\ room' = room
      BY <1>1, <2>2, <2>3 DEF ButtonComes, service
    <2>5. LastSays(toMe', room.ready')
      BY <1>4, <2>4
    <2>6. QED
      BY <2>3, <2>5 DEF ButtonComes
  <1>14. QED
    BY <1>8, <1>10, <1>12, <1>13 DEF Pipe

(* The countdown and the hand.                                             *)
LEMMA GameScreenStep ==
  ASSUME TypeOK, Pipe, TakenUp, NEW to \in {"Countdown", "InGame"}, CalledTo(to, NoRoom),
         Got.type = IF to = "Countdown" THEN "COUNTDOWN" ELSE "GAME_START",
         screen \in {"WaitingRoom", "Countdown"}
  PROVE  Pipe'
  <1> DEFINE m == Got
  <1>1. /\ toMe # <<>> /\ toMe' = Tail(toMe) /\ UNCHANGED service
        /\ screen' = to /\ view' = Fresh(NoRoom) /\ toServer' = toServer \o Asks(to)
    BY DEF TakenUp, CalledTo, transitionTo
  <1>2. toServer' = toServer
    <2>1. Asks(to) = <<>>
      BY AsksOf
    <2>2. QED
      BY <1>1, <2>1 DEF TypeOK, Queues
  <1>3. Kind(m) = m.type
    BY DEF Kind
  <1>4. \A k : Has(toMe, k) <=> Kind(m) = k \/ Has(toMe', k)
    BY <1>1, MessageGone DEF TypeOK
  <1>5. ~Joined /\ ~Joining /\ ~Joined' /\ ~Joining'
    BY <1>2, <1>4, NotJoining DEF Joined, Joining
  <1>6. OneJoin'
    BY <1>5, NoneOfKind DEF OneJoin, Joining, Joined
  <1>7. Asked'
    BY <1>1 DEF Asked, Fresh
  <1>8. Staying' <=> Staying
    BY <1>1, <1>2 DEF Staying, service
  <1>9. ASSUME Staying PROVE HasCome'
    <2>1. /\ room.phase = "PLAYING" <=> screen = "InGame" \/ Has(toMe, "GAME_START")
          /\ ~Has(toMe, "GAME_END")
      BY <1>5, <1>9 DEF Pipe, Stay, HasCome
    <2>2. CASE to = "Countdown"
      BY <1>1, <1>3, <1>4, <2>1, <2>2 DEF HasCome, service
    <2>3. CASE to = "InGame"
      BY <1>1, <1>3, <1>4, <2>1, <2>3 DEF HasCome, service
    <2>4. QED
      BY <2>2, <2>3
  <1>10. Stay'
    BY <1>1, <1>5, <1>8, <1>9 DEF Pipe, Stay, service
  <1>11. Button'
    BY <1>1, <1>5 DEF Button
  <1>12. QED
    BY <1>6, <1>7, <1>10, <1>11 DEF Pipe


(* A join put behind requests none of which is one is the only one, with   *)
(* nothing behind it.                                                      *)
LEMMA JoinComes ==
  ASSUME Queues, NEW js \in Seq(Request), toServer' = toServer \o js, ~Has(toServer, "JOIN_ROOM"),
         \A k : Has(js, k) <=> k = "JOIN_ROOM", \A k, l : ~Behind(js, k, l)
  PROVE  /\ \A k : Has(toServer', k) <=> Has(toServer, k) \/ k = "JOIN_ROOM"
         /\ \A l : ~Behind(toServer', "JOIN_ROOM", l)
  BY QueueAndMore, NoneOfKind DEF Queues

(* A join is sent while none is under way.                                 *)
LEMMA SendsJoin ==
  ASSUME TypeOK, Pipe, screen = "RoomList", screen' = "RoomList", ~JoinUnderWay, NEW r \in Room,
         toServer' = Append(toServer, Msg("JOIN_ROOM", r, TRUE)), UNCHANGED service,
         \A k : Has(toMe', k) => Has(toMe, k),
         "invite" \in view'.popups => "invite" \in view.popups, view'.asked = view.asked
  PROVE  Pipe'
  <1> DEFINE j == Msg("JOIN_ROOM", r, TRUE)
  <1>1. j \in Request /\ Kind(j) = "JOIN_ROOM"
    BY NoRoomIsNone, RequestTypes DEF RequestType
  <1>2. toServer' = Append(toServer, j) /\ toServer \in Seq(Request)
    BY DEF TypeOK, Queues
  <1> HIDE DEF j
  <1>3. /\ <<j>> \in Seq(Request) /\ \A k : Has(<<j>>, k) <=> k = "JOIN_ROOM"
        /\ \A k, l : ~Behind(<<j>>, k, l)
    BY <1>1, OneInSeq, OneMessage
  <1>4. ~Joining /\ ~Joined
    BY UnderWayIs DEF TypeOK
  <1>5. ~Joined' /\ ~Has(toMe', "JOIN_ROOM_SUCCESS") /\ ~Has(toServer, "JOIN_ROOM")
    BY <1>4 DEF Joined, Joining
  <1>6. /\ \A k : Has(toServer', k) <=> Has(toServer, k) \/ k = "JOIN_ROOM"
        /\ \A l : ~Behind(toServer', "JOIN_ROOM", l)
    <2>1. toServer' = toServer \o <<j>>
      BY <1>1, <1>2, AppendIsConcat
    <2>2. Queues
      BY DEF TypeOK
    <2>3. QED
      BY <1>3, <1>5, <2>1, <2>2, JoinComes
  <1>7. OneJoin'
    BY <1>5, <1>6, NoneOfKind DEF OneJoin, Joining, Joined
  <1>8. Asked'
    BY DEF Pipe, Asked
  <1>9. ~Staying'
    <2>1. ~Staying
      BY <1>4, Elsewhere
    <2>2. QED
      BY <1>6, <2>1 DEF Staying, service
  <1>10. QED
    BY <1>7, <1>8, <1>9 DEF Pipe, Stay, Button

(* Every message the client takes keeps the two sides related.             *)
LEMMA MessageStep ==
  ASSUME TypeOK, CallbacksOK, PipeOK, handleMessage
  PROVE  PipeOK'
  <1>1. SUFFICES ASSUME Undisturbed' PROVE Pipe'
    BY DEF PipeOK
  <1>2. /\ Quiet /\ screen' # "Closed" /\ ~strayed'
        /\ toMe # <<>> /\ toMe' = Tail(toMe) /\ UNCHANGED service /\ TakenUp
        /\ calledGone = NoSlot /\ (Moved(Got) \/ JoinSent(Got) \/ Shown(Got))
    BY <1>1, MessageTaken DEF Result, TakenUp, Undisturbed, Sound, Quiet, Ends
  <1>3. Got \in Event /\ \A k : Has(toMe', k) => Has(toMe, k)
    BY <1>2, MessageGone DEF TypeOK
  <1>4. CASE Moved(Got)
    <2>1. Pipe
      <3>1. ~strayed /\ screen # "Closed"
        BY <1>2, <1>4 DEF Moved, CalledTo
      <3>2. QED
        BY <1>2, <3>1 DEF PipeOK, Undisturbed, Sound
    <2>2. ASSUME NEW to \in {"Login", "GameResult"}, CalledTo(to, NoRoom), screen \in {"Lobby", "InGame"},
                 ~Staying
          PROVE  Pipe'
      <3>1. ~Joining /\ ~Joined
        BY <2>1, <2>2, NotJoining
      <3>2. /\ screen' = to /\ view'.popups = {} /\ toServer' = toServer \o <<>>
            /\ <<>> \in Seq(Request) /\ ~Has(<<>>, "JOIN_ROOM")
        BY <2>2, AsksOf, EmptyQueue, EmptyInSeq DEF CalledTo, transitionTo, Fresh
      <3>3. QED
        BY <1>2, <1>3, <2>1, <2>2, <3>1, <3>2, GoesAway DEF TypeOK
    <2>3. CASE Got.type = "LOGOUT_RESPONSE" /\ screen = "Lobby" /\ CalledTo("Login", NoRoom)
      <3>1. ~Staying
        BY <2>1, <2>3, NotJoining, Elsewhere
      <3>2. QED
        BY <2>2, <2>3, <3>1
    <2>4. CASE Got.type = "GAME_END" /\ screen = "InGame" /\ CalledTo("GameResult", NoRoom)
      <3>1. Has(toMe, "GAME_END")
        <4>1. Kind(Got) = "GAME_END"
          BY <2>4 DEF Kind
        <4>2. QED
          BY <1>2, <4>1, MessageGone DEF TypeOK
      <3>2. ~Staying
        BY <2>1, <2>4, <3>1, NotJoining DEF Pipe, Stay, HasCome
      <3>3. QED
        BY <2>2, <2>4, <3>2
    <2>5. CASE Got.type = "JOIN_ROOM_SUCCESS" /\ screen = "RoomList" /\ CalledTo("WaitingRoom", Got.room)
      BY <1>2, <2>1, <2>5, JoinedStep
    <2>6. CASE Got.type = "COUNTDOWN" /\ screen = "WaitingRoom" /\ CalledTo("Countdown", NoRoom)
      BY <1>2, <2>1, <2>6, GameScreenStep
    <2>7. CASE /\ Got.type = "GAME_START" /\ screen \in {"WaitingRoom", "Countdown"}
               /\ CalledTo("InGame", NoRoom)
      BY <1>2, <2>1, <2>7, GameScreenStep
    <2>8. QED
      BY <1>2, <1>4, <2>3, <2>4, <2>5, <2>6, <2>7 DEF Moved
  <1>5. CASE JoinSent(Got)
    <2>1. /\ screen = "RoomList" /\ screen' = "RoomList" /\ view' = view
          /\ toServer' = Append(toServer, Msg("JOIN_ROOM", Got.room, TRUE))
          /\ Got.room \in Room
      BY <1>2, <1>3, <1>5 DEF JoinSent, SendJoin, Send, Stays, Event
    <2>2. ~strayed /\ ~JoinUnderWay
      <3>1. strayed' = (strayed \/ JoinUnderWay)
        BY <1>5 DEF JoinSent, SendJoin
      <3>2. QED
        BY <1>2, <3>1, Zenon
    <2>3. Pipe
      BY <1>2, <2>1, <2>2 DEF PipeOK, Undisturbed, Sound
    <2>4. QED
      BY <1>2, <1>3, <2>1, <2>2, <2>3, SendsJoin
  <1>6. CASE Shown(Got)
    <2>1. Pipe
      BY <1>2, <1>6 DEF PipeOK, Undisturbed, Sound, Shown
    <2>2. QED
      BY <1>2, <1>6, <2>1, ShownStep
  <1>7. QED
    BY <1>2, <1>4, <1>5, <1>6


----------------------------------------------------------------------------
(* The clicks.                                                             *)

(* Another screen is entered.                                              *)
Leaving ==
  \E to \in {"Lobby", "Friends", "RoomList", "Login"}, ms \in Seq(Request) :
    /\ transitionTo(to, NoRoom) /\ toServer' = toServer \o ms /\ ~Has(ms, "JOIN_ROOM")
    /\ \/ screen \in {"Lobby", "Friends", "GameResult"} /\ UNCHANGED strayed
       \/ screen = "WaitingRoom" /\ Has(ms, "LEAVE_ROOM") /\ UNCHANGED strayed
       \/ screen = "RoomList" /\ strayed' = (strayed \/ JoinUnderWay)

(* What the screen shows changes without a word of the server.             *)
Redrawn ==
  /\ screen \in Screen /\ UNCHANGED <<screen, strayed>>
  /\ view' \in View /\ view'.shownRoom = view.shownRoom /\ (view.asked => view'.asked)
  /\ "invite" \in view'.popups => "invite" \in view.popups
  /\ \/ UNCHANGED callbacks
     \/ screen = "Lobby" /\ callbacks' = [callbacks EXCEPT !["logout"] = "set"]

Remains ==
  /\ Redrawn
  /\ \E ms \in Seq(Request) :
       /\ toServer' = toServer \o ms /\ ~Has(ms, "JOIN_ROOM") /\ ~Has(ms, "LEAVE_ROOM")
       /\ Has(ms, "GET_FRIEND_LIST") => screen = "WaitingRoom" /\ view'.asked
       /\ view'.isMyReady = view.isMyReady \/ Has(ms, "READY")

JoinClicked ==
  /\ screen = "RoomList" /\ UNCHANGED <<screen, callbacks>>
  /\ view' \in View /\ view'.asked = view.asked
  /\ "invite" \in view'.popups => "invite" \in view.popups
  /\ \E r \in Room : SendJoin(r)

(* A click that sends nothing.                                             *)
LEMMA RemainsSilent ==
  ASSUME TypeOK, Redrawn, UNCHANGED toServer, view'.isMyReady = view.isMyReady
  PROVE  Remains
  <1>1. toServer' = toServer \o <<>> /\ <<>> \in Seq(Request) /\ \A k : ~Has(<<>>, k)
    BY EmptyInSeq, EmptyQueue DEF TypeOK, Queues
  <1>2. QED
    BY <1>1 DEF Remains

(* A click that sends a request and stays on the screen.                   *)
LEMMA RemainsAsking ==
  ASSUME TypeOK, Redrawn,
         NEW t \in RequestType \ {"JOIN_ROOM", "LEAVE_ROOM"}, NEW r \in AnyRoom, NEW y \in BOOLEAN,
         Send(Msg(t, r, y)),
         t = "GET_FRIEND_LIST" => screen = "WaitingRoom" /\ view'.asked,
         view'.isMyReady = view.isMyReady \/ t = "READY"
  PROVE  Remains
  <1> DEFINE m == Msg(t, r, y)
  <1>1. m \in Request /\ Kind(m) = t
    BY RequestTypes
  <1>2. toServer' = Append(toServer, m) /\ toServer \in Seq(Request)
    BY DEF Send, TypeOK, Queues
  <1> HIDE DEF m
  <1>3. toServer' = toServer \o <<m>>
    BY <1>1, <1>2, AppendIsConcat
  <1>4. <<m>> \in Seq(Request) /\ \A k : Has(<<m>>, k) <=> k = t
    BY <1>1, OneInSeq, OneMessage
  <1>5. QED
    BY <1>3, <1>4 DEF Remains

(* The ways a click changes what is shown.                                 *)
LEMMA ViewChanges ==
  ASSUME view \in View
  PROVE  /\ \A ps \in SUBSET Popup :
              LET v == [view EXCEPT !.popups = ps]
              IN  /\ v \in View /\ v.shownRoom = view.shownRoom /\ v.asked = view.asked
                  /\ v.isMyReady = view.isMyReady /\ v.popups = ps
         /\ \A ps \in SUBSET Popup :
              LET v == [view EXCEPT !.popups = ps, !.challenge = NoRoom]
              IN  /\ v \in View /\ v.shownRoom = view.shownRoom /\ v.asked = view.asked
                  /\ v.isMyReady = view.isMyReady /\ v.popups = ps
         /\ LET v == [view EXCEPT !.asked = TRUE]
            IN  /\ v \in View /\ v.shownRoom = view.shownRoom /\ v.asked
                /\ v.isMyReady = view.isMyReady /\ v.popups = view.popups
         /\ LET v == [view EXCEPT !.isMyReady = ~@]
            IN  /\ v \in View /\ v.shownRoom = view.shownRoom /\ v.asked = view.asked
                /\ v.popups = view.popups
         /\ view.popups \in SUBSET Popup
         /\ view.shownRoom \in AnyRoom /\ view.isMyReady \in BOOLEAN
  <1>1. NoRoom \in AnyRoom
    BY NoRoomIsNone
  <1>2. QED
    BY <1>1 DEF View

(* Popups open or close, and a challenge may be forgotten.                 *)
LEMMA PopupsDrawn ==
  ASSUME view \in View, screen \in Screen, UNCHANGED <<screen, callbacks, strayed>>,
         NEW ps \in SUBSET Popup, "invite" \in ps => "invite" \in view.popups,
         \/ view' = [view EXCEPT !.popups = ps]
         \/ view' = [view EXCEPT !.popups = ps, !.challenge = NoRoom]
  PROVE  Redrawn /\ view'.isMyReady = view.isMyReady
  <1>1. /\ view' \in View /\ view'.shownRoom = view.shownRoom /\ view'.asked = view.asked
        /\ view'.isMyReady = view.isMyReady /\ view'.popups = ps
    <2>1. CASE view' = [view EXCEPT !.popups = ps]
      BY <2>1, ViewChanges
    <2>2. CASE view' = [view EXCEPT !.popups = ps, !.challenge = NoRoom]
      BY <2>2, ViewChanges
    <2>3. QED
      BY <2>1, <2>2
  <1>2. QED
    BY <1>1 DEF Redrawn

(* An empty request is a message like any other.                           *)
LEMMA PlainIs == \A t : Plain(t) = Msg(t, NoRoom, TRUE) /\ NoRoom \in AnyRoom
  BY NoRoomIsNone DEF Plain

(* Clicks that leave the screen.                                           *)
LEMMA LeavingClicks ==
  ASSUME TypeOK,
         \/ \E s \in {"RoomList", "Friends"} : LobbyButton(s)
         \/ FriendsBack \/ RoomListBack \/ RoomListLogout \/ onLeaveClicked \/ Continue
  PROVE  Leaving
  <1>1. toServer \in Seq(Request)
    BY DEF TypeOK, Queues
  <1>2. \A s : Asks(s) \in Seq(Request) /\ ~Has(Asks(s), "JOIN_ROOM")
    BY AsksOf
  <1>3. CASE \E s \in {"RoomList", "Friends"} : LobbyButton(s)
    BY <1>2, <1>3 DEF LobbyButton, MayClick, Leaving
  <1>4. CASE FriendsBack
    BY <1>2, <1>4 DEF FriendsBack, MayClick, Leaving
  <1>5. CASE RoomListBack
    BY <1>2, <1>5 DEF RoomListBack, MayClick, Leaving
  <1>6. CASE Continue
    BY <1>2, <1>6 DEF Continue, MayClick, Leaving
  <1>7. CASE RoomListLogout
    <2> DEFINE m == Plain("LOGOUT")
    <2>1. m \in Request /\ Kind(m) = "LOGOUT" /\ <<m>> \in Seq(Request)
      BY PlainRequests DEF RequestType
    <2>2. toServer' = Append(toServer, m)
      BY <1>7 DEF RoomListLogout, Send
    <2> HIDE DEF m
    <2>3. toServer' = toServer \o <<m>> /\ ~Has(<<m>>, "JOIN_ROOM")
      BY <1>1, <2>1, <2>2, AppendIsConcat, OneMessage
    <2>4. QED
      BY <1>7, <2>1, <2>3 DEF RoomListLogout, MayClick, Leaving
  <1>8. CASE onLeaveClicked
    <2> DEFINE m == Plain("LEAVE_ROOM")
               ms == <<m>> \o Asks("Lobby")
    <2>1. Kind(m) = "LEAVE_ROOM" /\ <<m>> \in Seq(Request)
      BY PlainRequests DEF RequestType
    <2>2. toServer' = toServer \o <<m>> \o Asks("Lobby")
      BY <1>8 DEF onLeaveClicked
    <2> HIDE DEF m
    <2>3. Has(<<m>>, "LEAVE_ROOM") /\ ~Has(<<m>>, "JOIN_ROOM")
      BY <2>1, OneMessage
    <2>4. toServer' = toServer \o ms
      BY <1>1, <1>2, <2>1, <2>2, ConcatAssociative
    <2>5. ms \in Seq(Request) /\ Has(ms, "LEAVE_ROOM") /\ ~Has(ms, "JOIN_ROOM")
      BY <1>2, <2>1, <2>3, QueueAndMore
    <2> HIDE DEF ms
    <2>6. QED
      BY <1>8, <2>4, <2>5 DEF onLeaveClicked, MayClick, Leaving
  <1>9. QED
    BY <1>3, <1>4, <1>5, <1>6, <1>7, <1>8


(* Popups come and go, and nothing else does.                              *)
LEMMA PopupClicks ==
  ASSUME TypeOK,
         \/ openCreateRoomPopup \/ hidePopup \/ ChallengeNo \/ ChallengeOk
  PROVE  Remains
  <1>1. /\ view \in View /\ screen \in Screen \cup {"Closed"}
        /\ view.popups \in SUBSET Popup
    BY ViewChanges DEF TypeOK, Screens
  <1>2. CASE openCreateRoomPopup
    <2>1. /\ screen = "RoomList" /\ UNCHANGED <<screen, callbacks, toServer, strayed>>
          /\ view' = [view EXCEPT !.popups = {"create"}]
      BY <1>2 DEF openCreateRoomPopup, MayClick, Shows
    <2>2. {"create"} \in SUBSET Popup /\ "invite" \notin {"create"} /\ screen \in Screen
      BY <2>1 DEF Popup, Screen
    <2>3. Redrawn /\ view'.isMyReady = view.isMyReady
      BY <1>1, <2>1, <2>2, PopupsDrawn
    <2>4. QED
      BY <2>1, <2>3, RemainsSilent
  <1>3. CASE hidePopup
    <2>1. /\ screen = "RoomList" /\ UNCHANGED <<screen, callbacks, toServer, strayed>>
          /\ view' = [view EXCEPT !.popups = view.popups \ {"message"}]
      BY <1>3 DEF hidePopup, MayClick, Shows
    <2>2. view.popups \ {"message"} \in SUBSET Popup
      BY <1>1
    <2>3. Redrawn /\ view'.isMyReady = view.isMyReady
      BY <1>1, <2>1, <2>2, PopupsDrawn DEF Screen
    <2>4. QED
      BY <2>1, <2>3, RemainsSilent
  <1>4. CASE ChallengeNo
    <2>1. /\ screen = "RoomList" /\ UNCHANGED <<screen, callbacks, toServer, strayed>>
          /\ view' = [view EXCEPT !.popups = view.popups \ {"challenge"}, !.challenge = NoRoom]
      BY <1>4 DEF ChallengeNo, MayClick, Shows
    <2>2. view.popups \ {"challenge"} \in SUBSET Popup
      BY <1>1
    <2>3. Redrawn /\ view'.isMyReady = view.isMyReady
      BY <1>1, <2>1, <2>2, PopupsDrawn DEF Screen
    <2>4. QED
      BY <2>1, <2>3, RemainsSilent
  <1>5. CASE ChallengeOk
    <2>1. /\ screen = "WaitingRoom" /\ UNCHANGED <<screen, callbacks, toServer, strayed>>
          /\ view' = [view EXCEPT !.popups = view.popups \ {"challengeResult"}]
      BY <1>5 DEF ChallengeOk, MayClick, Shows
    <2>2. view.popups \ {"challengeResult"} \in SUBSET Popup
      BY <1>1
    <2>3. Redrawn /\ view'.isMyReady = view.isMyReady
      BY <1>1, <2>1, <2>2, PopupsDrawn DEF Screen
    <2>4. QED
      BY <2>1, <2>3, RemainsSilent
  <1>6. QED
    BY <1>2, <1>3, <1>4, <1>5

(* Clicks that ask for something.                                          *)
LEMMA AskingClicks ==
  ASSUME TypeOK,
         \/ onLogoutClicked \/ submitCreateRoom \/ onReadyClicked \/ InviteFriend \/ InvitePopup
         \/ onPlayClicked
  PROVE  Remains
  <1>1. /\ view \in View /\ screen \in Screen \cup {"Closed"}
        /\ view.popups \in SUBSET Popup
        /\ view.shownRoom \in AnyRoom /\ view.isMyReady \in BOOLEAN
    BY ViewChanges DEF TypeOK, Screens
  <1>2. {"LOGOUT", "CREATE_PRIVATE_ROOM", "READY", "GET_FRIEND_LIST", "SEND_CHALLENGE", "PLAY_CARD"}
          \subseteq RequestType \ {"JOIN_ROOM", "LEAVE_ROOM"}
    BY DEF RequestType
  <1>3. CASE onLogoutClicked
    <2>1. /\ screen = "Lobby" /\ UNCHANGED <<screen, view, strayed>> /\ Send(Msg("LOGOUT", NoRoom, TRUE))
          /\ callbacks' = [callbacks EXCEPT !["logout"] = "set"]
      BY <1>3, PlainIs DEF onLogoutClicked, MayClick
    <2>2. Redrawn
      BY <1>1, <2>1 DEF Redrawn, Screen
    <2>3. QED
      BY <1>2, <2>1, <2>2, PlainIs, RemainsAsking
  <1>4. CASE submitCreateRoom
    <2>1. screen = "RoomList" /\ UNCHANGED <<screen, callbacks, strayed>>
      BY <1>4 DEF submitCreateRoom, MayClick, Shows
    <2>2. PICK ps \in SUBSET {"create", "message"} : view' = [view EXCEPT !.popups = ps]
      BY <1>4 DEF submitCreateRoom, Shows
    <2>3. Redrawn /\ view'.isMyReady = view.isMyReady
      <3>1. ps \in SUBSET Popup /\ "invite" \notin ps /\ screen \in Screen
        BY <2>1 DEF Popup, Screen
      <3>2. QED
        BY <1>1, <2>1, <2>2, <3>1, PopupsDrawn
    <2>4. UNCHANGED toServer \/ Send(Msg("CREATE_PRIVATE_ROOM", NoRoom, TRUE))
      BY <1>4, PlainIs DEF submitCreateRoom
    <2>5. CASE Send(Msg("CREATE_PRIVATE_ROOM", NoRoom, TRUE))
      BY <1>2, <2>3, <2>5, PlainIs, RemainsAsking
    <2>6. QED
      BY <2>3, <2>4, <2>5, RemainsSilent
  <1>5. CASE onReadyClicked
    <2>1. /\ screen = "WaitingRoom" /\ UNCHANGED <<screen, callbacks, strayed>>
          /\ view' = [view EXCEPT !.isMyReady = ~@] /\ Send(Msg("READY", NoRoom, ~view.isMyReady))
      BY <1>5 DEF onReadyClicked, MayClick, Shows
    <2>2. Redrawn
      BY <1>1, <2>1, ViewChanges DEF Redrawn, Screen
    <2>3. (~view.isMyReady) \in BOOLEAN /\ NoRoom \in AnyRoom
      BY NoRoomIsNone
    <2>4. QED
      BY <1>2, <2>1, <2>2, <2>3, RemainsAsking
  <1>6. CASE InviteFriend
    <2>1. /\ screen = "WaitingRoom" /\ UNCHANGED <<screen, callbacks, strayed>>
          /\ view' = [view EXCEPT !.asked = TRUE] /\ Send(Msg("GET_FRIEND_LIST", NoRoom, TRUE))
      BY <1>6, PlainIs DEF InviteFriend, MayClick, Shows
    <2>2. Redrawn /\ view'.asked /\ view'.isMyReady = view.isMyReady
      BY <1>1, <2>1, ViewChanges DEF Redrawn, Screen
    <2>3. QED
      BY <1>2, <2>1, <2>2, PlainIs, RemainsAsking
  <1>7. CASE InvitePopup
    <2>1. screen = "WaitingRoom" /\ UNCHANGED <<screen, callbacks, strayed>>
      BY <1>7 DEF InvitePopup, MayClick, Shows, Stays
    <2>2. CASE Stays /\ Send(Msg("SEND_CHALLENGE", view.shownRoom, TRUE))
      <3>1. Redrawn /\ view'.isMyReady = view.isMyReady
        BY <1>1, <2>1, <2>2 DEF Redrawn, Screen, Stays
      <3>2. QED
        BY <1>1, <1>2, <2>2, <3>1, RemainsAsking
    <2>3. CASE Shows([view EXCEPT !.popups = {}]) /\ UNCHANGED toServer
      <3>1. {} \in SUBSET Popup /\ screen \in Screen /\ view' = [view EXCEPT !.popups = {}]
        BY <2>1, <2>3 DEF Screen, Shows
      <3>2. Redrawn /\ view'.isMyReady = view.isMyReady
        BY <1>1, <2>1, <3>1, PopupsDrawn
      <3>3. QED
        BY <2>3, <3>2, RemainsSilent
    <2>4. QED
      BY <1>7, <2>2, <2>3 DEF InvitePopup
  <1>8. CASE onPlayClicked
    <2>1. /\ screen = "InGame" /\ UNCHANGED <<screen, callbacks, view, strayed>>
          /\ Send(Msg("PLAY_CARD", NoRoom, TRUE))
      BY <1>8, PlainIs DEF onPlayClicked, MayClick, Stays
    <2>2. Redrawn
      BY <1>1, <2>1 DEF Redrawn, Screen
    <2>3. QED
      BY <1>2, <2>1, <2>2, PlainIs, RemainsAsking
  <1>9. QED
    BY <1>3, <1>4, <1>5, <1>6, <1>7, <1>8

(* A click that sends a join.                                              *)
LEMMA JoiningClicks ==
  ASSUME TypeOK, ChallengeYes \/ \E r \in Room : ClickRoom(r)
  PROVE  Remains \/ JoinClicked
  <1>1. /\ view \in View /\ view.challenge \in AnyRoom
        /\ view.popups \in SUBSET Popup
    BY ViewChanges DEF TypeOK, Screens, View
  <1>2. CASE \E r \in Room : ClickRoom(r)
    BY <1>1, <1>2 DEF ClickRoom, MayClick, Stays, JoinClicked
  <1>3. CASE ChallengeYes
    <2>1. screen = "RoomList" /\ UNCHANGED <<screen, callbacks>>
      BY <1>3 DEF ChallengeYes, MayClick, Shows
    <2>2. CASE /\ view.challenge = NoRoom /\ UNCHANGED <<toServer, strayed>>
               /\ view' = [view EXCEPT !.popups = (view.popups \ {"challenge"}) \cup {"message"}]
      <3>1. (view.popups \ {"challenge"}) \cup {"message"} \in SUBSET Popup
        BY <1>1 DEF Popup
      <3>2. Redrawn /\ view'.isMyReady = view.isMyReady
        BY <1>1, <2>1, <2>2, <3>1, PopupsDrawn DEF Screen
      <3>3. QED
        BY <2>2, <3>2, RemainsSilent
    <2>3. CASE /\ view.challenge # NoRoom /\ SendJoin(view.challenge)
               /\ view' = [view EXCEPT !.popups = view.popups \ {"challenge"}, !.challenge = NoRoom]
      <3>1. view.popups \ {"challenge"} \in SUBSET Popup
        BY <1>1
      <3>2. /\ view' \in View /\ view'.asked = view.asked
            /\ "invite" \in view'.popups => "invite" \in view.popups
        BY <1>1, <2>3, <3>1, ViewChanges
      <3>3. view.challenge \in Room
        BY <1>1, <2>3 DEF AnyRoom
      <3>4. QED
        BY <2>1, <2>3, <3>2, <3>3 DEF JoinClicked
    <2>4. QED
      BY <1>3, <2>2, <2>3 DEF ChallengeYes, Shows
  <1>4. QED
    BY <1>2, <1>3

(* Every click leaves, stays or joins.                                     *)
LEMMA Clicks ==
  ASSUME TypeOK, Click
  PROVE  UNCHANGED <<service, toMe, calledGone>> /\ (Leaving \/ Remains \/ JoinClicked)
  BY LeavingClicks, PopupClicks, AskingClicks, JoiningClicks DEF Click


(* Every click keeps every variable in its type.                           *)
LEMMA ClickTypes ==
  ASSUME TypeOK, CallbacksOK, Click
  PROVE  TypeOK' /\ CallbacksOK'
  <1>1. UNCHANGED <<service, toMe, calledGone>> /\ (Leaving \/ Remains \/ JoinClicked)
    BY Clicks
  <1>2. /\ Screens /\ toServer \in Seq(Request) /\ toMe' \in Seq(Event) /\ Seats'
        /\ calledGone' \in Outliving \cup {NoSlot}
    BY <1>1 DEF TypeOK, Queues, Seats, service, CallbacksOK
  <1>3. strayed \in BOOLEAN /\ (strayed \/ JoinUnderWay) \in BOOLEAN
    BY <1>2, Zenon DEF Screens
  <1>4. CASE Leaving
    <2>1. PICK to \in {"Lobby", "Friends", "RoomList", "Login"}, ms \in Seq(Request) :
            /\ transitionTo(to, NoRoom) /\ toServer' = toServer \o ms
            /\ strayed' = strayed \/ strayed' = (strayed \/ JoinUnderWay)
      BY <1>4 DEF Leaving
    <2>2. strayed' \in BOOLEAN
      BY <1>3, <2>1, Zenon
    <2>3. to \in Screen /\ NoRoom \in AnyRoom
      BY NoRoomIsNone DEF Screen
    <2>4. Screens' /\ CallbacksOK'
      BY <1>2, <2>1, <2>2, <2>3, TransitionKeeps
    <2>5. toServer' \in Seq(Request)
      BY <1>2, <2>1, ConcatProperties
    <2>6. QED
      BY <1>2, <2>4, <2>5 DEF TypeOK, Queues
  <1>5. CASE Remains
    <2>1. /\ toServer' \in Seq(Request) /\ view' \in View /\ UNCHANGED <<screen, strayed>>
          /\ \/ UNCHANGED callbacks
             \/ screen = "Lobby" /\ callbacks' = [callbacks EXCEPT !["logout"] = "set"]
      BY <1>2, <1>5, ConcatProperties DEF Remains, Redrawn
    <2>2. CASE UNCHANGED callbacks
      BY <1>2, <1>3, <2>1, <2>2, ScreenStays DEF TypeOK, Queues
    <2>3. CASE screen = "Lobby" /\ callbacks' = [callbacks EXCEPT !["logout"] = "set"]
      <3>1. Screens'
        BY <1>2, <2>1, <2>3 DEF Screens
      <3>2. "logout" \in Slot /\ "logout" \in Outliving
        BY DEF Slot, Outliving
      <3>3. \A s \in Slot : callbacks'[s] = IF s = "logout" THEN "set" ELSE callbacks[s]
        BY <1>2, <2>3 DEF Screens
      <3>4. CallbacksOK'
        BY <1>2, <2>1, <2>3, <3>2, <3>3 DEF CallbacksOK
      <3>5. QED
        BY <1>2, <2>1, <3>1, <3>4 DEF TypeOK, Queues
    <2>4. QED
      BY <2>1, <2>2, <2>3
  <1>6. CASE JoinClicked
    <2>1. PICK r \in Room : SendJoin(r)
      BY <1>6 DEF JoinClicked
    <2>2. Msg("JOIN_ROOM", r, TRUE) \in Request
      BY NoRoomIsNone, RequestTypes DEF RequestType
    <2>3. toServer' = Append(toServer, Msg("JOIN_ROOM", r, TRUE)) /\ strayed' = (strayed \/ JoinUnderWay)
      BY <2>1 DEF SendJoin, Send
    <2>4. toServer' \in Seq(Request)
      BY <1>2, <2>2, <2>3, AppendProperties
    <2>5. strayed' \in BOOLEAN
      BY <1>3, <2>3, Zenon
    <2>6. Screens' /\ CallbacksOK'
      BY <1>2, <1>6, <2>5, ScreenStays DEF JoinClicked
    <2>7. QED
      BY <1>2, <2>4, <2>6 DEF TypeOK, Queues
  <1>7. QED
    BY <1>1, <1>4, <1>5, <1>6

(* The two sides with one more request under way.                          *)
LEMMA MoreRequests ==
  ASSUME Queues, NEW ms \in Seq(Request), toServer' = toServer \o ms
  PROVE  /\ \A k : Has(toServer', k) <=> Has(toServer, k) \/ Has(ms, k)
         /\ \A k, l : Behind(toServer', k, l) =>
              Behind(toServer, k, l) \/ ((Has(ms, k) \/ Has(toServer, k)) /\ Has(ms, l))
  <1>1. \A k, l : Behind(ms, k, l) => Has(ms, k) /\ Has(ms, l)
    BY DEF Behind, Has
  <1>2. QED
    BY <1>1, QueueAndMore DEF Queues

(* The screen stays, and no seat is asked for or given up.                 *)
LEMMA RemainsStep ==
  ASSUME TypeOK, Pipe, Remains, UNCHANGED <<service, toMe>>
  PROVE  Pipe'
  <1>1. PICK ms \in Seq(Request) :
          /\ toServer' = toServer \o ms /\ ~Has(ms, "JOIN_ROOM") /\ ~Has(ms, "LEAVE_ROOM")
          /\ Has(ms, "GET_FRIEND_LIST") => screen = "WaitingRoom" /\ view'.asked
          /\ view'.isMyReady = view.isMyReady \/ Has(ms, "READY")
    BY DEF Remains
  <1>2. /\ UNCHANGED screen /\ view'.shownRoom = view.shownRoom /\ (view.asked => view'.asked)
        /\ "invite" \in view'.popups => "invite" \in view.popups
    BY DEF Remains, Redrawn
  <1>3. /\ \A k : Has(toServer', k) <=> Has(toServer, k) \/ Has(ms, k)
        /\ \A k, l : Behind(toServer', k, l) =>
             Behind(toServer, k, l) \/ ((Has(ms, k) \/ Has(toServer, k)) /\ Has(ms, l))
    BY <1>1, MoreRequests DEF TypeOK
  <1>4. OneJoin'
    <2>1. \A k \in {"JOIN_ROOM", "LEAVE_ROOM", "GET_FRIEND_LIST"} : ~Behind(toServer', "JOIN_ROOM", k)
      BY <1>1, <1>3 DEF Pipe, OneJoin, Joining
    <2>2. \A k \in {"LEAVE_ROOM", "GET_FRIEND_LIST"} : Joined => ~Has(toServer', k)
      BY <1>1, <1>3 DEF Pipe, OneJoin, Joined
    <2>3. QED
      BY <1>1, <1>2, <1>3, <2>1, <2>2 DEF Pipe, OneJoin, Joining, Joined
  <1>5. Asked'
    BY <1>1, <1>2, <1>3 DEF Pipe, Asked
  <1>6. Staying' <=> Staying
    BY <1>1, <1>3 DEF Staying, service
  <1>7. Stay'
    BY <1>2, <1>6 DEF Pipe, Stay, Comes, HasCome, Joined, service
  <1>8. Button'
    BY <1>1, <1>2, <1>3, <1>6 DEF Pipe, Button, ButtonComes, Joined, service
  <1>9. QED
    BY <1>4, <1>5, <1>7, <1>8 DEF Pipe

(* Every click keeps the two sides related.                                *)
LEMMA ClickStep ==
  ASSUME TypeOK, PipeOK, Click
  PROVE  PipeOK'
  <1>1. SUFFICES ASSUME Undisturbed' PROVE Pipe'
    BY DEF PipeOK
  <1>2. UNCHANGED <<service, toMe, calledGone>> /\ (Leaving \/ Remains \/ JoinClicked)
    BY Clicks
  <1>3. calledGone = NoSlot /\ ~strayed' /\ Queues
    BY <1>1, <1>2 DEF Undisturbed, Sound, TypeOK
  <1>4. CASE Leaving
    <2>1. PICK to \in {"Lobby", "Friends", "RoomList", "Login"}, ms \in Seq(Request) :
            /\ transitionTo(to, NoRoom) /\ toServer' = toServer \o ms /\ ~Has(ms, "JOIN_ROOM")
            /\ \/ screen \in {"Lobby", "Friends", "GameResult"} /\ UNCHANGED strayed
               \/ screen = "WaitingRoom" /\ Has(ms, "LEAVE_ROOM") /\ UNCHANGED strayed
               \/ screen = "RoomList" /\ strayed' = (strayed \/ JoinUnderWay)
      BY <1>4 DEF Leaving
    <2>2. ~strayed /\ (screen = "RoomList" => ~JoinUnderWay)
      <3>1. strayed' = strayed \/ strayed' = (strayed \/ JoinUnderWay)
        BY <2>1
      <3>2. ~strayed
        BY <1>3, <3>1, Zenon
      <3>3. ASSUME screen = "RoomList" PROVE ~JoinUnderWay
        <4>1. strayed' = (strayed \/ JoinUnderWay)
          BY <2>1, <3>3
        <4>2. QED
          BY <1>3, <4>1, Zenon
      <3>4. QED
        BY <3>2, <3>3
    <2>3. Pipe
      BY <1>3, <2>1, <2>2 DEF PipeOK, Undisturbed, Sound
    <2>4. ~Joining /\ ~Joined
      BY <1>3, <2>2, <2>3, NotJoining, UnderWayIs
    <2>5. ~Staying \/ Has(ms, "LEAVE_ROOM")
      BY <2>1, <2>3, <2>4, Elsewhere
    <2>6. screen' # "WaitingRoom" /\ view'.popups = {}
      BY <2>1 DEF transitionTo, Fresh
    <2>7. QED
      BY <1>2, <1>3, <2>1, <2>3, <2>4, <2>5, <2>6, GoesAway
  <1>5. CASE Remains
    <2>1. Pipe
      BY <1>1, <1>3, <1>5 DEF Remains, Redrawn, PipeOK, Undisturbed, Sound
    <2>2. QED
      BY <1>2, <1>5, <2>1, RemainsStep
  <1>6. CASE JoinClicked
    <2>1. PICK r \in Room : SendJoin(r)
      BY <1>6 DEF JoinClicked
    <2>2. toServer' = Append(toServer, Msg("JOIN_ROOM", r, TRUE)) /\ strayed' = (strayed \/ JoinUnderWay)
      BY <2>1 DEF SendJoin, Send
    <2>3. ~strayed /\ ~JoinUnderWay
      BY <1>3, <2>2, Zenon
    <2>4. Pipe
      BY <1>3, <1>6, <2>3 DEF JoinClicked, PipeOK, Undisturbed, Sound
    <2>5. QED
      BY <1>2, <1>6, <2>2, <2>3, <2>4, SendsJoin DEF JoinClicked
  <1>7. QED
    BY <1>2, <1>4, <1>5, <1>6

----------------------------------------------------------------------------
(* The inductive invariant.                                                *)

(* Nor does a program that has ended show anything.                        *)
ClosedOK == screen = "Closed" => "invite" \notin view.popups

IInv == TypeOK /\ CallbacksOK /\ ClosedOK /\ PipeOK

(* The popup of invitations does not outlive the program.                  *)
LEMMA ClosedStep ==
  ASSUME TypeOK, CallbacksOK, ClosedOK, [Next]_vars
  PROVE  ClosedOK'
  <1>1. CASE Click
    <2>1. Leaving \/ Remains \/ JoinClicked
      BY <1>1, Clicks
    <2>2. screen' # "Closed"
      BY <2>1 DEF Leaving, Remains, Redrawn, JoinClicked, transitionTo, Screen
    <2>3. QED
      BY <2>2 DEF ClosedOK
  <1>2. CASE Ends
    BY <1>2 DEF Ends, Fresh, ClosedOK
  <1>3. CASE handleMessage
    <2>1. TakenUp \/ Ends
      BY <1>3, MessageTaken DEF Result
    <2>2. CASE Moved(Got)
      BY <2>2 DEF Moved, CalledTo, transitionTo, ClosedOK
    <2>3. CASE JoinSent(Got)
      BY <2>3 DEF JoinSent, Stays, ClosedOK
    <2>4. CASE Shown(Got)
      BY <2>4 DEF Shown, ClosedOK
    <2>5. QED
      BY <1>2, <2>1, <2>2, <2>3, <2>4 DEF TakenUp
  <1>4. CASE Server \/ Clock \/ Others \/ UNCHANGED vars
    BY <1>4 DEF Server, Clock, Others, vars, ClosedOK
  <1>5. QED
    BY <1>1, <1>2, <1>3, <1>4 DEF Next, CloseWindow

(* The invariant holds in the lobby of the start.                          *)
LEMMA InitHolds ==
  ASSUME Init
  PROVE  IInv
  <1> DEFINE b == Plain("REQUEST_BALANCE")
  <1>1. /\ toServer = <<b>> /\ toMe = <<>> /\ seat = NoRoom /\ room = Nowhere
        /\ screen = "Lobby" /\ callbacks = [s \in Slot |-> "none"] /\ view = Fresh(NoRoom)
        /\ calledGone = NoSlot /\ strayed = FALSE
    BY DEF Init, ServiceInit
  <1>2. Kind(b) = "REQUEST_BALANCE" /\ <<b>> \in Seq(Request)
    BY PlainRequests DEF RequestType
  <1> HIDE DEF b
  <1>3. /\ \A k : Has(toServer, k) <=> k = "REQUEST_BALANCE"
        /\ \A k, l : ~Behind(toServer, k, l)
    <2>1. b \in {b}
      OBVIOUS
    <2>2. QED
      BY <1>1, <1>2, OneMessage
  <1>4. /\ \A k : ~Has(toMe, k)
        /\ \A k, l : ~Behind(toMe, k, l)
    BY <1>1, EmptyQueue
  <1>5. TypeOK
    <2>1. Queues
      BY <1>1, <1>2 DEF Queues
    <2>2. Seats
      BY <1>1, NoRoomIsNone DEF Seats, Nowhere, Table
    <2>3. Screens
      BY <1>1, NoRoomIsNone DEF Screens, Screen, Fresh, View
    <2>4. QED
      BY <2>1, <2>2, <2>3 DEF TypeOK
  <1>6. CallbacksOK
    <2>1. \A s : s \notin SetOnEnter("Lobby")
      BY DEF SetOnEnter
    <2>2. QED
      BY <1>1, <2>1 DEF CallbacksOK
  <1>7. PipeOK
    <2>1. OneJoin
      BY <1>3, <1>4 DEF OneJoin, Joining, Joined
    <2>2. Asked
      BY <1>1 DEF Asked, Fresh
    <2>3. ~Staying
      BY <1>1 DEF Staying, Nowhere
    <2>4. QED
      BY <2>1, <2>2, <2>3 DEF PipeOK, Pipe, Stay, Button
  <1>8. ClosedOK
    BY <1>1 DEF ClosedOK
  <1>9. QED
    BY <1>5, <1>6, <1>7, <1>8 DEF IInv

(* Every step keeps the invariant.                                         *)
LEMMA StepHolds ==
  ASSUME IInv, [Next]_vars
  PROVE  IInv'
  <1>1. TypeOK /\ CallbacksOK /\ PipeOK /\ ClosedOK'
    BY ClosedStep DEF IInv
  <1>2. CASE Click
    BY <1>1, <1>2, ClickTypes, ClickStep DEF IInv
  <1>3. CASE CloseWindow
    <2>1. Ends /\ UNCHANGED strayed /\ calledGone' = calledGone
      BY <1>3 DEF CloseWindow, history
    <2>2. TypeOK' /\ CallbacksOK' /\ screen' = "Closed"
      BY <1>1, <2>1, EndsKeep DEF TypeOK, Screens, CallbacksOK
    <2>3. QED
      BY <1>1, <2>2 DEF IInv, PipeOK, Undisturbed
  <1>4. CASE handleMessage
    BY <1>1, <1>4, MessageTypes, MessageStep DEF IInv
  <1>5. CASE Server \/ Clock \/ Others
    <2>1. /\ Handle \/ StartPlaying \/ OthersAct
          /\ UNCHANGED <<screen, callbacks, view, calledGone, strayed>>
      BY <1>5 DEF Server, Clock, Others, history
    <2>2. Queues' /\ Seats' /\ (Pipe => Pipe')
      BY <1>1, <2>1, ServiceStep
    <2>3. Screens' /\ CallbacksOK' /\ (Undisturbed' => Undisturbed)
      BY <1>1, <2>1 DEF TypeOK, Screens, CallbacksOK, Undisturbed, Sound
    <2>4. QED
      BY <1>1, <2>2, <2>3 DEF IInv, TypeOK, PipeOK
  <1>6. CASE UNCHANGED vars
    <2>1. UNCHANGED <<seat, room, toServer, toMe, screen, callbacks, view, calledGone, strayed>>
      BY <1>6 DEF vars, history, service
    <2>2. TypeOK' /\ CallbacksOK'
      BY <1>1, <2>1 DEF TypeOK, Queues, Seats, Screens, CallbacksOK
    <2>3. PipeOK'
      BY <1>1, <2>1 DEF PipeOK, Undisturbed, Sound, Pipe, OneJoin, Asked, Stay, Button, ButtonComes,
                        Staying, Joining, Joined, Comes, HasCome
    <2>4. QED
      BY <1>1, <2>2, <2>3 DEF IInv
  <1>7. QED
    BY <1>2, <1>3, <1>4, <1>5, <1>6 DEF Next

(* In every state the callbacks belong to the screen, and while nothing    *)
(* has gone wrong what is under way brings the screen to the seat.         *)
THEOREM Invariance == Spec => []IInv
  <1>1. Init => IInv
    BY InitHolds
  <1>2. IInv /\ [Next]_vars => IInv'
    BY StepHolds
  <1>3. QED
    BY <1>1, <1>2, PTL DEF Spec

(* No message about rooms and games calls a screen that is gone.           *)
THEOREM RoomCalls == Spec => []RoomCallsReachTheirScreen
  <1>1. IInv => RoomCallsReachTheirScreen
    BY DEF IInv, CallbacksOK, Outliving, RoomCallsReachTheirScreen
  <1>2. QED
    BY <1>1, Invariance, PTL

(* At rest, who has a seat between hands sees the room, or its countdown.  *)
THEOREM SeatShown == Spec => []SeatIsShown
  <1>1. IInv => SeatIsShown
    <2>1. SUFFICES ASSUME IInv, AtRest, Sound, BetweenHands
                   PROVE  (screen = "WaitingRoom" /\ view.shownRoom = seat) \/ screen = "Countdown"
      BY DEF SeatIsShown
    <2>2. /\ Pipe /\ room.inIt /\ room.phase # "PLAYING"
          /\ \A k : ~Has(toServer, k) /\ ~Has(toMe, k)
      BY <2>1, EmptyQueue DEF IInv, PipeOK, Undisturbed, AtRest, BetweenHands
    <2>3. HasCome
      BY <2>2 DEF Pipe, Stay, Staying, Joined
    <2>4. QED
      BY <2>2, <2>3 DEF HasCome
  <1>2. QED
    BY <1>1, Invariance, PTL

(* At rest, who is dealt a hand sees the table.                            *)
THEOREM TableShown == Spec => []DealtInSeesTheTable
  <1>1. IInv => DealtInSeesTheTable
    <2>1. SUFFICES ASSUME IInv, AtRest, Sound, Playing PROVE screen = "InGame"
      BY DEF DealtInSeesTheTable
    <2>2. /\ Pipe /\ room.inIt /\ room.phase = "PLAYING"
          /\ \A k : ~Has(toServer, k) /\ ~Has(toMe, k)
      BY <2>1, EmptyQueue DEF IInv, PipeOK, Undisturbed, AtRest, Playing
    <2>3. HasCome
      BY <2>2 DEF Pipe, Stay, Staying, Joined
    <2>4. QED
      BY <2>2, <2>3 DEF HasCome
  <1>2. QED
    BY <1>1, Invariance, PTL

(* At rest, the ready button of a waiting room agrees with the server.     *)
THEOREM ButtonAgrees == Spec => []ReadyButtonAgrees
  <1>1. IInv => ReadyButtonAgrees
    <2>1. SUFFICES ASSUME IInv, AtRest, Sound, screen = "WaitingRoom", room.inIt
                   PROVE  view.isMyReady = room.ready
      BY DEF ReadyButtonAgrees
    <2>2. Pipe /\ \A k : ~Has(toServer, k) /\ ~Has(toMe, k)
      BY <2>1, EmptyQueue DEF IInv, PipeOK, Undisturbed, AtRest
    <2>3. Staying /\ HasCome
      BY <2>1, <2>2 DEF Pipe, Stay, Staying, Joined
    <2>4. ButtonComes
      BY <2>1, <2>2, <2>3 DEF Pipe, Button, HasCome
    <2>5. QED
      BY <2>2, <2>4 DEF ButtonComes
  <1>2. QED
    BY <1>1, Invariance, PTL

(* An open popup of invitations was asked for in this waiting room.        *)
THEOREM InviteAsked == Spec => []InvitePopupWasAsked
  <1>1. IInv => InvitePopupWasAsked
    <2>1. SUFFICES ASSUME IInv, Sound, "invite" \in view.popups PROVE view.asked
      BY DEF InvitePopupWasAsked
    <2>2. QED
      BY <2>1 DEF IInv, ClosedOK, PipeOK, Undisturbed, Pipe, Asked
  <1>2. QED
    BY <1>1, Invariance, PTL


----------------------------------------------------------------------------
(* The countdown on the screen.                                            *)

Ended == room.phase \in {"PLAYING", "FINISHED"}

Counting == room.inIt /\ room.phase = "COUNTING"

(* A hand that has begun, or is over, is still to be shown to whoever sees *)
(* the room or its countdown, and to whoever is about to enter the room.   *)
Announced ==
  /\ room.phase = "COUNTING" => room.inIt
  /\ screen \in {"WaitingRoom", "Countdown"} /\ Ended => Has(toMe, "GAME_START")
  /\ Joined /\ Ended => Behind(toMe, "JOIN_ROOM_SUCCESS", "GAME_START")
  /\ screen \in {"WaitingRoom", "Countdown"} => ~Has(toServer, "LEAVE_ROOM")

AnnouncedOK == Undisturbed => Announced

(* What the server sends in one step.                                      *)
Sends(ms) ==
  /\ ms \in Seq(Event) /\ toMe' = toMe \o ms
  /\ Has(ms, "JOIN_ROOM_SUCCESS") => ~Ended'
  /\ Ended' => Ended \/ Has(ms, "GAME_START")
  /\ room'.phase = "COUNTING" => room'.inIt \/ UNCHANGED room
  /\ Counting => Counting' \/ Has(ms, "GAME_START") \/ room'.phase = "WAITING"

(* A step between two hands sends anything.                                *)
LEMMA SendsBetween ==
  ASSUME BetweenHands, room'.inIt, room'.phase \in {"WAITING", "COUNTING"},
         NEW ms \in Seq(Event), toMe' = toMe \o ms
  PROVE  Sends(ms)
  BY DEF Sends, Ended, Counting

(* A step of a hand, or one that leaves the room alone, brings nobody in.  *)
LEMMA SendsNoJoin ==
  ASSUME NEW ms \in Seq(Event), toMe' = toMe \o ms, ~Has(ms, "JOIN_ROOM_SUCCESS"),
         UNCHANGED room \/ (Playing /\ HandEnds) \/ room' = Nowhere
  PROVE  Sends(ms)
  BY DEF Sends, Ended, Counting, Playing, HandEnds, Nowhere

(* The room after a join.                                                  *)
LEMMA JoinFinds ==
  ASSUME handleJoinRoom
  PROVE  \/ UNCHANGED room \/ room' = Nowhere
         \/ room'.phase \in {"WAITING", "COUNTING"} /\ room'.inIt
  BY DEF handleJoinRoom, JoinRefused, JoinAccepted, JoinAgain, JoinableTables, service

(* The updates of a seated user with a countdown behind, or without.       *)
LEMMA UpdatesSent ==
  ASSUME TypeOK, room.inIt, UNCHANGED seat, room'.ready \in BOOLEAN
  PROVE  <<RoomUpdate>> \in Seq(Event) /\ <<RoomUpdate>> \o Countdown \in Seq(Event)
  <1>1. RoomUpdate \in Event
    BY SeatEvents DEF TypeOK, Seats, RoomUpdate
  <1>2. Countdown \in Seq(Event)
    BY OtherEvents, OneInSeq, EmptyInSeq DEF Countdown
  <1>3. QED
    BY <1>1, <1>2, OneInSeq, ConcatProperties

(* The flag of a table after READY.                                        *)
LEMMA CountedTable ==
  ASSUME NEW t \in Table
  PROVE  /\ Counted(t).inIt = t.inIt /\ Counted(t).ready = t.ready
         /\ Counted(t).phase \in {"WAITING", "COUNTING"}
  BY DEF Counted, Table

(* Every step of the server keeps to that.                                 *)
LEMMA ServerSends ==
  ASSUME TypeOK, Handle \/ StartPlaying \/ OthersAct
  PROVE  /\ \E ms : Sends(ms)
         /\ toServer' = toServer \/ (toServer # <<>> /\ toServer' = Tail(toServer))
  <1>1. Queues /\ Seats /\ room \in Table
    BY DEF TypeOK, Seats
  <1>2. <<>> \in Seq(Event) /\ \A k : ~Has(<<>>, k)
    BY EmptyInSeq, EmptyQueue
  <1>3. \A t \in {"JOIN_ROOM_FAIL", "COUNTDOWN", "GAME_START", "MOVE_RESULT", "GAME_END"} :
          <<Plain(t)>> \in Seq(Event) /\ \A k : Has(<<Plain(t)>>, k) <=> k = t
    BY OtherEvents, OneInSeq, OneMessage
  <1>4. toServer' = toServer \/ (toServer # <<>> /\ toServer' = Tail(toServer))
    <2>1. CASE handleRequest \/ NothingToDo
      BY <1>1, <2>1, PlainAnswers
    <2>2. CASE handleJoinRoom
      BY <1>1, <2>2, JoinMoves
    <2>3. CASE handleReady \/ handleLeaveRoom \/ handlePlayCard
      BY <2>3 DEF handleReady, handleLeaveRoom, handlePlayCard, Handles, Answer
    <2>4. CASE StartPlaying \/ OthersAct
      BY <2>4 DEF StartPlaying, OthersAct
    <2>5. QED
      BY <2>1, <2>2, <2>3, <2>4 DEF Handle
  <1>5. CASE handleRequest \/ NothingToDo
    <2>1. UNCHANGED room
      BY <1>1, <1>5, PlainAnswers DEF service
    <2>2. PICK ms \in Seq(Event) : toMe' = toMe \o ms /\ ~Has(ms, "JOIN_ROOM_SUCCESS")
      <3>1. \A e \in Event : /\ <<e>> \in Seq(Event)
                             /\ Kind(e) \in PlainAnswer => ~Has(<<e>>, "JOIN_ROOM_SUCCESS")
        BY OneInSeq, OneMessage DEF PlainAnswer
      <3>2. QED
        BY <1>1, <1>2, <1>5, <3>1, PlainAnswers
    <2>3. QED
      BY <1>4, <2>1, <2>2, SendsNoJoin
  <1>6. CASE handleJoinRoom
    <2>1. CASE ~room'.inIt /\ (toMe' = toMe \o <<>> \/ toMe' = toMe \o <<OthersUpdate, Plain("JOIN_ROOM_FAIL")>>)
      <3>1. UNCHANGED room \/ room' = Nowhere
        BY <1>6, <2>1, JoinFinds
      <3>2. /\ <<OthersUpdate, Plain("JOIN_ROOM_FAIL")>> \in Seq(Event)
            /\ ~Has(<<OthersUpdate, Plain("JOIN_ROOM_FAIL")>>, "JOIN_ROOM_SUCCESS")
        BY OtherEvents, TwoMessages
      <3>3. QED
        BY <1>2, <1>4, <2>1, <3>1, <3>2, SendsNoJoin
    <2>2. CASE /\ room'.inIt /\ room'.phase \in {"WAITING", "COUNTING"}
               /\ toMe' = toMe \o <<Msg("ROOM_UPDATE", seat', FALSE),
                                    Msg("JOIN_ROOM_SUCCESS", seat', TRUE),
                                    Msg("ROOM_UPDATE", seat', FALSE)>>
      <3> DEFINE ms == <<Msg("ROOM_UPDATE", seat', FALSE), Msg("JOIN_ROOM_SUCCESS", seat', TRUE),
                         Msg("ROOM_UPDATE", seat', FALSE)>>
      <3>1. seat' \in Room
        BY <1>1, <1>6, <2>2, JoinMoves DEF Seats
      <3>2. ms \in Seq(Event)
        BY <3>1, SeatEvents, ThreeMessages
      <3>3. Sends(ms)
        BY <2>2, <3>2 DEF Sends, Ended, Counting
      <3>4. QED
        BY <1>4, <3>3
    <2>3. CASE room.inIt /\ UNCHANGED service /\ toMe' = toMe \o <<>>
      BY <1>2, <1>4, <2>3, SendsNoJoin DEF service
    <2>4. CASE room.inIt /\ UNCHANGED service /\ toMe' = toMe \o <<Msg("ROOM_UPDATE", seat, room.ready)>>
      <3> DEFINE e == Msg("ROOM_UPDATE", seat, room.ready)
      <3>1. e \in Event /\ Kind(e) = "ROOM_UPDATE"
        <4>1. seat \in Room /\ room.ready \in BOOLEAN
          BY <1>1, <2>4 DEF Seats, Table
        <4>2. QED
          BY <4>1, SeatEvents
      <3>2. <<e>> \in Seq(Event) /\ ~Has(<<e>>, "JOIN_ROOM_SUCCESS")
        BY <3>1, OneInSeq, OneMessage
      <3>3. QED
        BY <1>4, <2>4, <3>2, SendsNoJoin DEF service
    <2>5. QED
      BY <1>1, <1>6, <2>1, <2>2, <2>3, <2>4, JoinMoves
  <1>7. CASE handleReady
    <2>1. BetweenHands /\ UNCHANGED seat /\ toMe' = toMe \o (<<RoomUpdate>> \o Countdown)
      BY <1>7 DEF handleReady, Answer
    <2>2. Head(toServer).yes \in BOOLEAN
      BY <1>1, <1>7, TailOfQueue DEF Queues, handleReady, Handles, Request
    <2>3. [room EXCEPT !.ready = Head(toServer).yes] \in Table /\
          [room EXCEPT !.ready = Head(toServer).yes].inIt = room.inIt
      BY <1>1, <2>2 DEF Table
    <2>4. room'.inIt /\ room'.phase \in {"WAITING", "COUNTING"} /\ room'.ready \in BOOLEAN
      BY <1>7, <2>1, <2>3, CountedTable DEF handleReady, BetweenHands, Table
    <2>5. <<RoomUpdate>> \o Countdown \in Seq(Event)
      BY <2>1, <2>4, UpdatesSent DEF BetweenHands
    <2>6. QED
      BY <1>4, <2>1, <2>4, <2>5, SendsBetween
  <1>8. CASE handleLeaveRoom
    BY <1>2, <1>4, <1>8, SendsNoJoin DEF handleLeaveRoom, Answer
  <1>9. CASE handlePlayCard
    <2>1. CASE HandEnds /\ Answer(EndMessages)
      <3>1. Playing /\ UNCHANGED seat
        BY <1>9 DEF handlePlayCard
      <3>2. EndMessages \in Seq(Event) /\ ~Has(EndMessages, "JOIN_ROOM_SUCCESS")
        BY <1>1, <2>1, <3>1, EndsHand
      <3>3. QED
        BY <1>4, <2>1, <3>1, <3>2, SendsNoJoin DEF Answer
    <2>2. CASE Answer(<<Plain("MOVE_RESULT")>>) /\ UNCHANGED room
      BY <1>3, <1>4, <2>2, SendsNoJoin DEF Answer
    <2>3. CASE Answer(<<>>) /\ UNCHANGED room
      BY <1>2, <1>4, <2>3, SendsNoJoin DEF Answer
    <2>4. QED
      BY <1>9, <2>1, <2>2, <2>3 DEF handlePlayCard
  <1>10. CASE StartPlaying
    <2> DEFINE ms == <<Plain("GAME_START"), Plain("MOVE_RESULT")>>
    <2>1. ms \in Seq(Event) /\ Has(ms, "GAME_START") /\ ~Has(ms, "JOIN_ROOM_SUCCESS")
      BY OtherEvents, TwoMessages
    <2>2. toMe' = toMe \o ms /\ room'.phase = "PLAYING"
      BY <1>1, <1>10 DEF StartPlaying, Table
    <2>3. Sends(ms)
      BY <2>1, <2>2 DEF Sends
    <2>4. QED
      BY <1>4, <2>3
  <1>11. CASE OthersAct
    <2>1. UNCHANGED seat
      BY <1>11 DEF OthersAct
    <2>2. ASSUME BetweenHands, room'.inIt, room'.phase \in {"WAITING", "COUNTING"},
                 room'.ready \in BOOLEAN,
                 toMe' = toMe \o <<RoomUpdate>> \/ toMe' = toMe \o (<<RoomUpdate>> \o Countdown)
          PROVE  \E ms : Sends(ms)
      BY <2>1, <2>2, UpdatesSent, SendsBetween DEF BetweenHands
    <2>3. \A m \in Event : Append(toMe, m) = toMe \o <<m>> /\ <<m>> \in Seq(Event)
      BY <1>1, OneInSeq DEF Queues
    <2>4. room.inIt => RoomUpdate \in Event \/ room'.ready \notin BOOLEAN
      BY <1>1, <2>1, SeatEvents DEF RoomUpdate, Seats
    <2>5. CASE OthersTurnReady
      <3>1. PICK all \in BOOLEAN : room' = Counted([room EXCEPT !.allReady = all])
        BY <2>5 DEF OthersTurnReady
      <3>2. [room EXCEPT !.allReady = all] \in Table /\ [room EXCEPT !.allReady = all].inIt = room.inIt
        BY <1>1 DEF Table
      <3>3. room'.inIt /\ room'.phase \in {"WAITING", "COUNTING"} /\ room'.ready \in BOOLEAN
        BY <2>5, <3>1, <3>2, CountedTable DEF OthersTurnReady, BetweenHands, Table
      <3>4. toMe' = toMe \o (<<RoomUpdate>> \o Countdown) /\ BetweenHands
        BY <2>5 DEF OthersTurnReady
      <3>5. QED
        BY <1>4, <2>2, <3>3, <3>4
    <2>6. CASE OtherJoins \/ OtherLeaves
      <3>1. BetweenHands /\ toMe' = Append(toMe, RoomUpdate)
        BY <2>6 DEF OtherJoins, OtherLeaves
      <3>2. room'.inIt /\ room'.phase \in {"WAITING", "COUNTING"} /\ room'.ready \in BOOLEAN
        BY <1>1, <2>6, <3>1 DEF OtherJoins, OtherLeaves, BetweenHands, Table
      <3>3. toMe' = toMe \o <<RoomUpdate>>
        BY <2>3, <2>4, <3>1, <3>2 DEF BetweenHands
      <3>4. QED
        BY <1>4, <2>2, <3>1, <3>2, <3>3
    <2>7. CASE OtherMoves
      <3>1. CASE HandEnds /\ toMe' = toMe \o EndMessages
        <4>1. Playing /\ EndMessages \in Seq(Event) /\ ~Has(EndMessages, "JOIN_ROOM_SUCCESS")
          BY <1>1, <2>1, <2>7, <3>1, EndsHand DEF OtherMoves
        <4>2. QED
          BY <1>4, <3>1, <4>1, SendsNoJoin
      <3>2. CASE toMe' = Append(toMe, Plain("MOVE_RESULT")) /\ UNCHANGED room
        <4>1. toMe' = toMe \o <<Plain("MOVE_RESULT")>>
          BY <2>3, <3>2, OtherEvents
        <4>2. QED
          BY <1>3, <1>4, <3>2, <4>1, SendsNoJoin
      <3>3. CASE UNCHANGED room /\ toMe' = Append(toMe, RoomUpdate)
        <4>1. room.inIt /\ room.ready \in BOOLEAN /\ seat \in Room
          BY <1>1, <2>7 DEF OtherMoves, Playing, Table, Seats
        <4>2. RoomUpdate \in Event /\ Kind(RoomUpdate) = "ROOM_UPDATE"
          BY <2>1, <3>3, <4>1, SeatEvents DEF RoomUpdate
        <4>3. toMe' = toMe \o <<RoomUpdate>> /\ ~Has(<<RoomUpdate>>, "JOIN_ROOM_SUCCESS")
          BY <2>3, <3>3, <4>2, OneMessage
        <4>4. QED
          BY <1>4, <2>3, <3>3, <4>2, <4>3, SendsNoJoin
      <3>4. QED
        BY <2>7, <3>1, <3>2, <3>3 DEF OtherMoves
    <2>8. CASE Challenged
      <3>1. PICK r \in Room : toMe' = Append(toMe, Msg("CHALLENGE_NOTIFICATION", r, TRUE))
        BY <2>8 DEF Challenged
      <3> DEFINE e == Msg("CHALLENGE_NOTIFICATION", r, TRUE)
      <3>2. e \in Event /\ Kind(e) = "CHALLENGE_NOTIFICATION"
        BY ChallengeEvent
      <3>3. toMe' = toMe \o <<e>> /\ ~Has(<<e>>, "JOIN_ROOM_SUCCESS") /\ <<e>> \in Seq(Event)
        BY <2>3, <3>1, <3>2, OneMessage
      <3>4. QED
        BY <1>4, <2>8, <3>3, SendsNoJoin DEF Challenged
    <2>9. QED
      BY <1>11, <2>5, <2>6, <2>7, <2>8 DEF OthersAct
  <1>12. QED
    BY <1>5, <1>6, <1>7, <1>8, <1>9, <1>10, <1>11 DEF Handle

(* Nothing that has gone wrong is put right again.                         *)
LEMMA WasUndisturbed ==
  ASSUME TypeOK, CallbacksOK, [Next]_vars, Undisturbed'
  PROVE  Undisturbed
  <1>1. calledGone' = NoSlot /\ ~strayed' /\ screen' # "Closed"
    BY DEF Undisturbed, Sound
  <1>2. CASE Click
    <2>1. UNCHANGED calledGone /\ (Leaving \/ Remains \/ JoinClicked)
      BY <1>2, Clicks
    <2>2. strayed' = strayed \/ strayed' = (strayed \/ JoinUnderWay)
      BY <2>1 DEF Leaving, Remains, Redrawn, JoinClicked, SendJoin
    <2>3. ~strayed
      BY <1>1, <2>2, Zenon
    <2>4. screen # "Closed"
      BY <2>1 DEF Leaving, Remains, Redrawn, JoinClicked, Screen
    <2>5. QED
      BY <1>1, <2>1, <2>3, <2>4 DEF Undisturbed, Sound
  <1>3. CASE CloseWindow
    BY <1>1, <1>3 DEF CloseWindow, Ends
  <1>4. CASE handleMessage
    <2>1. TakenUp
      BY <1>1, <1>4, MessageTaken DEF Result, Ends
    <2>2. calledGone = NoSlot /\ Quiet /\ (Moved(Got) \/ JoinSent(Got) \/ Shown(Got))
      BY <1>1, <2>1 DEF TakenUp, Quiet
    <2>3. strayed' = strayed \/ strayed' = (strayed \/ JoinUnderWay)
      BY <2>2 DEF Moved, CalledTo, JoinSent, SendJoin, Shown
    <2>4. ~strayed
      BY <1>1, <2>3, Zenon
    <2>5. screen # "Closed"
      BY <1>1, <2>2 DEF Moved, JoinSent, Shown
    <2>6. QED
      BY <2>2, <2>4, <2>5 DEF Undisturbed, Sound
  <1>5. CASE Server \/ Clock \/ Others \/ UNCHANGED vars
    BY <1>1, <1>5 DEF Server, Clock, Others, vars, history, Undisturbed, Sound
  <1>6. QED
    BY <1>2, <1>3, <1>4, <1>5 DEF Next

(* The server announces what it begins.                                    *)
LEMMA AnnouncedByServer ==
  ASSUME TypeOK, Announced, Handle \/ StartPlaying \/ OthersAct, UNCHANGED screen
  PROVE  Announced'
  <1>1. PICK ms : Sends(ms)
    BY ServerSends
  <1>2. /\ toMe \in Seq(Event) /\ ms \in Seq(Event) /\ toMe' = toMe \o ms
        /\ Has(ms, "JOIN_ROOM_SUCCESS") => ~Ended'
        /\ Ended' => Ended \/ Has(ms, "GAME_START")
        /\ room'.phase = "COUNTING" => room'.inIt \/ UNCHANGED room
    BY <1>1 DEF Sends, TypeOK, Queues
  <1>3. /\ \A k : Has(toMe', k) <=> Has(toMe, k) \/ Has(ms, k)
        /\ \A k, l : Behind(toMe', k, l) <=>
             Behind(toMe, k, l) \/ Behind(ms, k, l) \/ (Has(toMe, k) /\ Has(ms, l))
    BY <1>2, QueueAndMore
  <1>4. \A k : Has(toServer', k) => Has(toServer, k)
    BY ServerSends, TailOfQueue DEF TypeOK, Queues
  <1>5. room'.phase = "COUNTING" => room'.inIt
    BY <1>2 DEF Announced
  <1>6. screen' \in {"WaitingRoom", "Countdown"} /\ Ended' => Has(toMe', "GAME_START")
    BY <1>2, <1>3 DEF Announced
  <1>7. Joined' /\ Ended' => Behind(toMe', "JOIN_ROOM_SUCCESS", "GAME_START")
    BY <1>2, <1>3 DEF Announced, Joined
  <1>8. screen' \in {"WaitingRoom", "Countdown"} => ~Has(toServer', "LEAVE_ROOM")
    BY <1>4 DEF Announced
  <1>9. QED
    BY <1>5, <1>6, <1>7, <1>8 DEF Announced

(* What a screen takes up it has shown.                                    *)
LEMMA AnnouncedUntilTaken ==
  ASSUME TypeOK, Pipe, Announced, TakenUp, Quiet
  PROVE  Announced'
  <1>1. /\ toMe # <<>> /\ toMe' = Tail(toMe) /\ UNCHANGED service
        /\ Moved(Got) \/ JoinSent(Got) \/ Shown(Got)
    BY DEF TakenUp
  <1>2. /\ Got \in Event
        /\ \A k : Has(toMe, k) <=> Kind(Got) = k \/ Has(toMe', k)
        /\ \A k, l : Behind(toMe, k, l) <=> Behind(toMe', k, l) \/ (Kind(Got) = k /\ Has(toMe', l))
    BY <1>1, MessageGone DEF TypeOK
  <1>3. \A k \in {"GAME_START", "JOIN_ROOM_SUCCESS"} : Kind(Got) = k <=> Got.type = k
    BY DEF Kind
  <1>4. (Ended' <=> Ended) /\ (room'.phase = "COUNTING" => room'.inIt)
    BY <1>1 DEF Announced, service, Ended
  <1>5. Joined' /\ Ended => Behind(toMe', "JOIN_ROOM_SUCCESS", "GAME_START")
    <2>1. SUFFICES ASSUME Joined', Ended PROVE Behind(toMe', "JOIN_ROOM_SUCCESS", "GAME_START")
      OBVIOUS
    <2>2. Joined /\ ~Behind(toMe, "JOIN_ROOM_SUCCESS", "JOIN_ROOM_SUCCESS")
      BY <1>2, <2>1 DEF Joined, Pipe, OneJoin
    <2>3. Kind(Got) # "JOIN_ROOM_SUCCESS"
      BY <1>2, <2>1, <2>2 DEF Joined
    <2>4. QED
      BY <1>2, <2>1, <2>2, <2>3 DEF Announced
  <1>6. CASE Shown(Got)
    <2>1. UNCHANGED <<screen, toServer>>
      BY <1>6 DEF Shown
    <2>2. screen \in {"WaitingRoom", "Countdown"} => Kind(Got) # "GAME_START"
      BY <1>3, <1>6 DEF Shown
    <2>3. QED
      BY <1>2, <1>4, <1>5, <2>1, <2>2 DEF Announced
  <1>7. CASE JoinSent(Got)
    BY <1>4, <1>5, <1>7 DEF JoinSent, Stays, Announced
  <1>8. CASE Moved(Got)
    <2>1. CASE screen' \notin {"WaitingRoom", "Countdown"}
      BY <1>4, <1>5, <2>1 DEF Announced
    <2>2. CASE Got.type = "JOIN_ROOM_SUCCESS" /\ CalledTo("WaitingRoom", Got.room)
      <3>1. toServer' = toServer \o <<>>
        BY <2>2, AsksOf DEF CalledTo
      <3>2. toServer' = toServer
        BY <3>1 DEF TypeOK, Queues
      <3>3. Joined
        BY <1>2, <1>3, <2>2 DEF Joined
      <3>4. ~Has(toServer, "LEAVE_ROOM")
        BY <3>3 DEF Pipe, OneJoin
      <3>5. ASSUME Ended PROVE Has(toMe', "GAME_START")
        <4>1. Behind(toMe, "JOIN_ROOM_SUCCESS", "GAME_START")
          BY <3>3, <3>5 DEF Announced
        <4>2. Behind(toMe', "JOIN_ROOM_SUCCESS", "GAME_START") => Has(toMe', "GAME_START")
          BY NoneOfKind
        <4>3. QED
          BY <1>2, <4>1, <4>2
      <3>6. QED
        BY <1>4, <1>5, <3>2, <3>4, <3>5 DEF Announced
    <2>3. CASE Got.type = "COUNTDOWN" /\ screen = "WaitingRoom" /\ CalledTo("Countdown", NoRoom)
      <3>1. toServer' = toServer \o <<>>
        BY <2>3, AsksOf DEF CalledTo
      <3>2. toServer' = toServer
        BY <3>1 DEF TypeOK, Queues
      <3>3. Kind(Got) # "GAME_START"
        BY <1>3, <2>3
      <3>4. QED
        BY <1>2, <1>4, <1>5, <2>3, <3>2, <3>3 DEF Announced
    <2>4. QED
      BY <1>8, <2>1, <2>2, <2>3 DEF Moved, CalledTo, transitionTo
  <1>9. QED
    BY <1>1, <1>6, <1>7, <1>8

(* Every step keeps what is announced.                                     *)
LEMMA AnnouncedStep ==
  ASSUME IInv, AnnouncedOK, [Next]_vars
  PROVE  AnnouncedOK'
  <1>1. SUFFICES ASSUME Undisturbed' PROVE Announced'
    BY DEF AnnouncedOK
  <1>2. TypeOK /\ CallbacksOK /\ Undisturbed /\ Pipe /\ Announced
    BY <1>1, WasUndisturbed DEF IInv, PipeOK, AnnouncedOK
  <1>3. CASE Click
    <2>1. UNCHANGED <<service, toMe>> /\ (Leaving \/ Remains \/ JoinClicked)
      BY <1>2, <1>3, Clicks
    <2>2. CASE screen' \notin {"WaitingRoom", "Countdown"}
      BY <1>2, <2>1, <2>2 DEF Announced, service, Ended, Joined
    <2>3. CASE Remains
      <3>1. PICK ms \in Seq(Request) : toServer' = toServer \o ms /\ ~Has(ms, "LEAVE_ROOM")
        BY <2>3 DEF Remains
      <3>2. Has(toServer', "LEAVE_ROOM") => Has(toServer, "LEAVE_ROOM")
        BY <1>2, <3>1, MoreRequests DEF TypeOK
      <3>3. UNCHANGED screen
        BY <2>3 DEF Remains, Redrawn
      <3>4. QED
        BY <1>2, <2>1, <3>2, <3>3 DEF Announced, service, Ended, Joined
    <2>4. QED
      BY <2>1, <2>2, <2>3 DEF Leaving, transitionTo, JoinClicked
  <1>4. CASE CloseWindow
    BY <1>1, <1>4 DEF CloseWindow, Ends, Undisturbed
  <1>5. CASE handleMessage
    <2>1. TakenUp /\ Quiet
      BY <1>1, <1>2, <1>5, MessageTaken DEF Result, Ends, Undisturbed, Sound, Quiet
    <2>2. QED
      BY <1>2, <2>1, AnnouncedUntilTaken
  <1>6. CASE Server \/ Clock \/ Others
    BY <1>2, <1>6, AnnouncedByServer DEF Server, Clock, Others
  <1>7. CASE UNCHANGED vars
    BY <1>2, <1>7 DEF vars, service, Announced, Ended, Joined
  <1>8. QED
    BY <1>3, <1>4, <1>5, <1>6, <1>7 DEF Next

(* In every state the hands that have begun are announced.                 *)
LEMMA HandsAreAnnounced == Spec => []AnnouncedOK
  <1>1. Init => AnnouncedOK
    <2>1. ASSUME Init PROVE Announced
      <3>1. screen = "Lobby" /\ room.phase = "WAITING"
        BY <2>1 DEF Init, ServiceInit, Nowhere
      <3>2. QED
        BY <3>1 DEF Announced, Ended
    <2>2. QED
      BY <2>1 DEF AnnouncedOK
  <1>2. IInv /\ AnnouncedOK /\ [Next]_vars => AnnouncedOK'
    BY AnnouncedStep
  <1>3. QED
    BY <1>1, <1>2, Invariance, PTL DEF Spec

(* The countdown is on the screen, and its end is to come.                 *)
CountdownRuns == screen = "Countdown" /\ (Counting \/ Has(toMe, "GAME_START"))

(* A countdown on the screen runs, and at its end the game comes, unless   *)
(* the server has stopped it or a click has crossed a join: that is the    *)
(* one way to be left with a countdown that leads nowhere (OtherLeaves,    *)
(* cancelStartGame).                                                       *)
THEOREM OnlyAStoppedCountdownHangs ==
  Spec => [](Sound /\ screen = "Countdown" => CountdownRuns \/ room.phase = "WAITING")
  <1>1. /\ IInv /\ AnnouncedOK
        => (Sound /\ screen = "Countdown" => CountdownRuns \/ room.phase = "WAITING")
    BY DEF IInv, TypeOK, Seats, Table, AnnouncedOK, Undisturbed, Announced, CountdownRuns, Counting, Ended
  <1>2. QED
    BY <1>1, Invariance, HandsAreAnnounced, PTL

(* A step does not lose a countdown that runs: it runs on, until the game  *)
(* is entered, the program is closed or the server stops it; so all that   *)
(* CountdownLeadsToGame leaves to fairness is that the clock and the       *)
(* client go on (updateLoop, onGameStartReceived).                         *)
THEOREM CountdownIsNotLost ==
  Spec => [][Sound' /\ CountdownRuns =>
               CountdownRuns' \/ screen' \in {"InGame", "Closed"} \/ room'.phase = "WAITING"]_vars
  <1>1. ASSUME IInv, [Next]_vars, Sound', CountdownRuns, screen' \notin {"InGame", "Closed"},
               room'.phase # "WAITING"
        PROVE  CountdownRuns'
    <2>1. TypeOK /\ CallbacksOK /\ Undisturbed'
      BY <1>1 DEF IInv, Undisturbed
    <2>2. CASE Click
      <3>1. UNCHANGED <<service, toMe>> /\ UNCHANGED screen
        BY <1>1, <2>1, <2>2, Clicks DEF Leaving, Remains, Redrawn, JoinClicked, CountdownRuns
      <3>2. QED
        BY <1>1, <3>1 DEF CountdownRuns, Counting, service
    <2>3. CASE CloseWindow
      BY <1>1, <2>3 DEF CloseWindow, Ends
    <2>4. CASE handleMessage
      <3>1. TakenUp /\ Quiet
        BY <1>1, <2>1, <2>4, MessageTaken DEF Result, Ends, Sound, Quiet
      <3>2. Shown(Got) /\ toMe # <<>> /\ toMe' = Tail(toMe) /\ UNCHANGED service
        BY <1>1, <3>1 DEF TakenUp, Moved, JoinSent, CalledTo, transitionTo, CountdownRuns
      <3>3. Kind(Got) # "GAME_START" /\ UNCHANGED screen
        BY <1>1, <3>2 DEF Shown, Kind, CountdownRuns
      <3>4. Has(toMe, "GAME_START") => Has(toMe', "GAME_START")
        BY <2>1, <3>2, <3>3, MessageGone DEF TypeOK
      <3>5. QED
        BY <1>1, <3>2, <3>3, <3>4 DEF CountdownRuns, Counting, service
    <2>5. CASE Server \/ Clock \/ Others
      <3>1. (Handle \/ StartPlaying \/ OthersAct) /\ UNCHANGED screen
        BY <2>5 DEF Server, Clock, Others
      <3>2. PICK ms : Sends(ms)
        BY <2>1, <3>1, ServerSends
      <3>3. /\ toMe \in Seq(Event) /\ ms \in Seq(Event) /\ toMe' = toMe \o ms
            /\ Counting => Counting' \/ Has(ms, "GAME_START")
        BY <1>1, <2>1, <3>2 DEF Sends, TypeOK, Queues
      <3>4. Has(toMe', "GAME_START") <=> Has(toMe, "GAME_START") \/ Has(ms, "GAME_START")
        BY <3>3, QueueAndMore
      <3>5. QED
        BY <1>1, <3>1, <3>3, <3>4 DEF CountdownRuns
    <2>6. CASE UNCHANGED vars
      BY <1>1, <2>6 DEF vars, service, CountdownRuns, Counting
    <2>7. QED
      BY <1>1, <2>2, <2>3, <2>4, <2>5, <2>6 DEF Next
  <1>2. IInv /\ [Next]_vars => [Sound' /\ CountdownRuns =>
               CountdownRuns' \/ screen' \in {"InGame", "Closed"} \/ room'.phase = "WAITING"]_vars
    BY <1>1
  <1>3. QED
    BY <1>2, Invariance, PTL DEF Spec
=============================================================================
