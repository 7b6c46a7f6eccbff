----------------------------- MODULE RoomScreens -------------------------------
(***************************************************************************)
(* One run of the client program from the lobby on: which screen is        *)
(* entered, which of the callbacks kept by the message handlers lead to    *)
(* it, and what it shows, with module RoomService at the other end.        *)
(*                                                                         *)
(* A screen is an object that its callbacks capture.  onExit clears some   *)
(* of them; the others outlive the object and are "gone".  A call of one   *)
(* of those is undefined: the process ends, or the callback still does its *)
(* work, because nothing has reused the memory.                            *)
(*                                                                         *)
(* A run ends at the screen for logging in: the server refuses a second    *)
(* login on a connection that is bound (module Sessions).  Private chat,   *)
(* the ranking and the lucky wheel are left to other modules, layout and   *)
(* texts are left out.                                                     *)
(***************************************************************************)
EXTENDS RoomService

VARIABLES
  screen,      (* GameManager::currentState_, or "Closed"                  *)
  callbacks,   (* [Slot -> {"none", "set", "gone"}]                        *)
  view,        (* what the screen shows, see Fresh                         *)
  calledGone,  (* history: the first callback of a destroyed screen called *)
  strayed      (* history: clicked away from a join under way              *)

history == <<calledGone, strayed>>
vars == <<service, toServer, toMe, screen, callbacks, view, history>>

Slot == {"logout", "friendList", "roomList", "join", "create", "challengeNotify",
         "roomUpdate", "countdown", "gameStart", "challengeResult", "game"}

NoSlot == "none"

(* A screen as it is constructed: the popups that are visible,             *)
(* pendingChallengeRoomId_, whether the list of rooms has come, the room   *)
(* whose name a waiting room shows, its ready button, and whether it has   *)
(* asked for the friends (history).                                        *)
Fresh(r) == [popups |-> {}, challenge |-> NoRoom, listed |-> FALSE,
             shownRoom |-> r, isMyReady |-> FALSE, asked |-> FALSE]

Init ==
  /\ ServiceInit
  /\ screen = "Lobby"
  /\ callbacks = [s \in Slot |-> "none"]
  /\ view = Fresh(NoRoom)
  /\ calledGone = NoSlot /\ strayed = FALSE

----------------------------------------------------------------------------
(* Transitions.                                                            *)

(* Wrong: only the countdown leads to the game.                            *)
WaitsForCountdown == {"roomUpdate", "countdown", "friendList", "challengeResult"}

WaitingRoomSets == {"roomUpdate", "countdown", "gameStart", "friendList", "challengeResult"}

(* Wrong: the countdown only counts.                                       *)
OnlyCounts == {"countdown"}

CountdownSets == {"countdown", "gameStart"}

SetOnEnter(s) ==
  CASE s = "RoomList"    -> {"roomList", "join", "create", "challengeNotify"}
    [] s = "WaitingRoom" -> WaitingRoomSets
    [] s = "Countdown"   -> CountdownSets
    [] s = "InGame"      -> {"roomUpdate", "game"}
    [] s = "Friends"     -> {"friendList"}
    [] OTHER -> {}

(* Wrong: the waiting room leaves its list of friends behind.              *)
KeepsFriendList(s) ==
  IF s = "WaitingRoom" THEN {"roomUpdate", "countdown", "gameStart"}
  ELSE SetOnEnter(s) \ {"create", "challengeNotify"}

ClearedOnExit(s) ==
  SetOnEnter(s) \ {"create", "challengeNotify", "challengeResult"}

(* A transition to the screen that is entered keeps the object.            *)
CallbacksAfter(to) ==
  [s \in Slot |->
     IF s \in SetOnEnter(to) THEN "set"
     ELSE IF s \in ClearedOnExit(screen) THEN "none"
     ELSE IF callbacks[s] = "set" /\ screen # to THEN "gone"
     ELSE callbacks[s]]

(* onExit, destruction, construction, onEnter; a waiting room takes the    *)
(* room r from the context.                                                *)
transitionTo(to, r) ==
  /\ screen' = to
  /\ callbacks' = CallbacksAfter(to)
  /\ view' = Fresh(r)

(* The program ends, its connection is closed and the user's seat given up. *)
Ends ==
  /\ screen' = "Closed"
  /\ callbacks' = [s \in Slot |-> "none"]
  /\ view' = Fresh(NoRoom)
  /\ toServer' = <<>> /\ toMe' = <<>>
  /\ seat' = NoRoom /\ room' = Nowhere

(* Wrong: the waiting room fetches the list of friends beforehand.         *)
AsksEarly(s) ==
  CASE s = "WaitingRoom" -> <<Plain("GET_FRIEND_LIST")>>
    [] s = "RoomList"    -> <<Plain("GET_ROOM_LIST")>>
    [] OTHER -> <<>>

(* What a new screen asks the server for.                                  *)
Asks(s) ==
  CASE s = "Lobby"    -> <<Plain("REQUEST_BALANCE")>>
    [] s = "RoomList" -> <<Plain("GET_ROOM_LIST")>>
    [] s = "Friends"  -> <<Plain("GET_FRIEND_LIST")>>
    [] OTHER -> <<>>

Send(m) == toServer' = Append(toServer, m)

IsUnderWay(type, q) == \E i \in DOMAIN q : q[i].type = type

JoinUnderWay ==
  IsUnderWay("JOIN_ROOM", toServer) \/ IsUnderWay("JOIN_ROOM_SUCCESS", toMe)

SendJoin(r) ==
  /\ Send(Msg("JOIN_ROOM", r, TRUE))
  /\ strayed' = (strayed \/ JoinUnderWay)

----------------------------------------------------------------------------
(* Clicks.                                                                 *)

(* The user is not endlessly fast.                                         *)
MayClick(s) == screen = s /\ Len(toServer) + Len(toMe) < MaxUnderWay

Shows(v) == view' = v /\ UNCHANGED <<screen, callbacks>>

Stays == UNCHANGED <<screen, callbacks, view>>

LobbyButton(to) ==
  /\ MayClick("Lobby")
  /\ transitionTo(to, NoRoom)
  /\ toServer' = toServer \o Asks(to)
  /\ UNCHANGED strayed

(* The lobby waits for the answer; the callback is set with each click.    *)
onLogoutClicked ==
  /\ MayClick("Lobby")
  /\ callbacks' = [callbacks EXCEPT !["logout"] = "set"]
  /\ Send(Plain("LOGOUT"))
  /\ UNCHANGED <<screen, view, strayed>>

FriendsBack ==
  /\ MayClick("Friends")
  /\ transitionTo("Lobby", NoRoom)
  /\ toServer' = toServer \o Asks("Lobby")
  /\ UNCHANGED strayed

(* Popups take the clicks.                                                 *)
RoomListBack ==
  /\ MayClick("RoomList") /\ view.popups = {}
  /\ transitionTo("Lobby", NoRoom)
  /\ toServer' = toServer \o Asks("Lobby")
  /\ strayed' = (strayed \/ JoinUnderWay)

(* The list of rooms does not wait for the answer.                         *)
RoomListLogout ==
  /\ MayClick("RoomList") /\ view.popups = {}
  /\ transitionTo("Login", NoRoom)
  /\ Send(Plain("LOGOUT"))
  /\ strayed' = (strayed \/ JoinUnderWay)

ClickRoom(r) ==
  /\ MayClick("RoomList") /\ view.popups = {} /\ view.listed
  /\ SendJoin(r)
  /\ Stays

openCreateRoomPopup ==
  /\ MayClick("RoomList") /\ view.popups = {}
  /\ Shows([view EXCEPT !.popups = {"create"}])
  /\ UNCHANGED <<toServer, strayed>>

(* A field is wrong, the room is asked for, or the popup is cancelled.     *)
submitCreateRoom ==
  /\ MayClick("RoomList") /\ view.popups = {"create"}
  /\ \/ Shows([view EXCEPT !.popups = {"create", "message"}]) /\ UNCHANGED toServer
     \/ Shows([view EXCEPT !.popups = {}]) /\ Send(Plain("CREATE_PRIVATE_ROOM"))
     \/ Shows([view EXCEPT !.popups = {}]) /\ UNCHANGED toServer
  /\ UNCHANGED strayed

hidePopup ==
  /\ MayClick("RoomList") /\ "message" \in view.popups /\ "challenge" \notin view.popups
  /\ Shows([view EXCEPT !.popups = @ \ {"message"}])
  /\ UNCHANGED <<toServer, strayed>>

ChallengeYes ==
  /\ MayClick("RoomList") /\ "challenge" \in view.popups
  /\ IF view.challenge = NoRoom
     THEN /\ Shows([view EXCEPT !.popups = (@ \ {"challenge"}) \cup {"message"}])
          /\ UNCHANGED <<toServer, strayed>>
     ELSE /\ Shows([view EXCEPT !.popups = @ \ {"challenge"}, !.challenge = NoRoom])
          /\ SendJoin(view.challenge)

ChallengeNo ==
  /\ MayClick("RoomList") /\ "challenge" \in view.popups
  /\ Shows([view EXCEPT !.popups = @ \ {"challenge"}, !.challenge = NoRoom])
  /\ UNCHANGED <<toServer, strayed>>

(* Wrong: the screen is left without a word to the server.                 *)
LeaveSilently ==
  /\ MayClick("WaitingRoom") /\ view.popups = {}
  /\ transitionTo("Lobby", NoRoom)
  /\ toServer' = toServer \o Asks("Lobby")
  /\ UNCHANGED strayed

onLeaveClicked ==
  /\ MayClick("WaitingRoom") /\ view.popups = {}
  /\ transitionTo("Lobby", NoRoom)
  /\ toServer' = toServer \o <<Plain("LEAVE_ROOM")>> \o Asks("Lobby")
  /\ UNCHANGED strayed

(* The button turns over before the server has agreed.                     *)
onReadyClicked ==
  /\ MayClick("WaitingRoom") /\ view.popups = {}
  /\ Shows([view EXCEPT !.isMyReady = ~@])
  /\ Send(Msg("READY", NoRoom, ~view.isMyReady))
  /\ UNCHANGED strayed

InviteFriend ==
  /\ MayClick("WaitingRoom") /\ view.popups = {}
  /\ Shows([view EXCEPT !.asked = TRUE])
  /\ Send(Plain("GET_FRIEND_LIST"))
  /\ UNCHANGED strayed

(* One of the friends shown is invited, or the popup is closed.            *)
InvitePopup ==
  /\ MayClick("WaitingRoom") /\ view.popups = {"invite"}
  /\ \/ Stays /\ Send(Msg("SEND_CHALLENGE", view.shownRoom, TRUE))
     \/ Shows([view EXCEPT !.popups = {}]) /\ UNCHANGED toServer
  /\ UNCHANGED strayed

ChallengeOk ==
  /\ MayClick("WaitingRoom") /\ "challengeResult" \in view.popups
  /\ Shows([view EXCEPT !.popups = @ \ {"challengeResult"}])
  /\ UNCHANGED <<toServer, strayed>>

(* PLAY or PASS.                                                           *)
onPlayClicked ==
  /\ MayClick("InGame")
  /\ Send(Plain("PLAY_CARD"))
  /\ Stays /\ UNCHANGED strayed

Continue ==
  /\ MayClick("GameResult")
  /\ transitionTo("RoomList", NoRoom)
  /\ toServer' = toServer \o Asks("RoomList")
  /\ UNCHANGED strayed

Click ==
  /\ \/ \E s \in {"RoomList", "Friends"} : LobbyButton(s)
     \/ onLogoutClicked \/ FriendsBack
     \/ RoomListBack \/ RoomListLogout
     \/ \E r \in Room : ClickRoom(r)
     \/ openCreateRoomPopup \/ submitCreateRoom \/ hidePopup
     \/ ChallengeYes \/ ChallengeNo
     \/ onLeaveClicked \/ onReadyClicked \/ InviteFriend \/ InvitePopup \/ ChallengeOk
     \/ onPlayClicked \/ Continue
  /\ UNCHANGED <<service, toMe, calledGone>>

CloseWindow == screen # "Closed" /\ Ends /\ UNCHANGED history

----------------------------------------------------------------------------
(* Answers and events.                                                     *)

Got == Head(toMe)

Gets(types) == toMe # <<>> /\ Got.type \in types

(* The callback runs; a screen that is gone shows nothing any more.        *)
Calls(slot) == callbacks[slot] # "none"

Live(slot) == callbacks[slot] = "set"

Recorded(slot) ==
  calledGone' = IF calledGone = NoSlot /\ callbacks[slot] = "gone" THEN slot ELSE calledGone

(* A transition that a message calls for.                                  *)
CalledTo(to, r) ==
  /\ transitionTo(to, r)
  /\ toServer' = toServer \o Asks(to)
  /\ UNCHANGED strayed

OnlyShows(v) == Shows(v) /\ UNCHANGED <<toServer, strayed>>

(* The effect of a message whose callback is set or gone.                  *)
onLogoutResponse ==
  IF Got.yes THEN CalledTo("Login", NoRoom) ELSE OnlyShows(view)

onRoomListReceived == OnlyShows([view EXCEPT !.listed = TRUE])

onJoinRoomResult ==
  IF Got.type = "JOIN_ROOM_SUCCESS" THEN CalledTo("WaitingRoom", Got.room)
  ELSE OnlyShows([view EXCEPT !.popups = @ \cup {"message"}])

(* The new room is joined from whatever screen is entered by now.          *)
onCreatePrivateRoomResponse ==
  IF Got.yes THEN SendJoin(Got.room) /\ Stays
  ELSE IF Live("create") THEN OnlyShows([view EXCEPT !.popups = @ \cup {"message"}])
  ELSE OnlyShows(view)

onChallengeNotification ==
  IF Live("challengeNotify")
  THEN OnlyShows([view EXCEPT !.challenge = Got.room, !.popups = @ \cup {"challenge"}])
  ELSE OnlyShows(view)

onSendChallengeResponse ==
  IF Live("challengeResult")
  THEN OnlyShows([view EXCEPT !.popups = @ \cup {"challengeResult"}])
  ELSE OnlyShows(view)

(* The waiting room's callback opens the popup of invitations.             *)
onGetFriendListResponse ==
  IF screen = "WaitingRoom" /\ Live("friendList")
  THEN OnlyShows([view EXCEPT !.popups = @ \cup {"invite"}])
  ELSE OnlyShows(view)

(* Without the user among the members the button stays as it is.           *)
onRoomUpdateReceived ==
  IF screen = "WaitingRoom" /\ Got.room # NoRoom
  THEN OnlyShows([view EXCEPT !.isMyReady = Got.yes])
  ELSE OnlyShows(view)

(* The callback of the countdown itself only starts the clock.             *)
onGameCountdownReceived ==
  IF screen = "WaitingRoom" THEN CalledTo("Countdown", NoRoom) ELSE OnlyShows(view)

onGameStartReceived == CalledTo("InGame", NoRoom)

onMoveResultReceived == OnlyShows(view)

onGameEndReceived == CalledTo("GameResult", NoRoom)

(* The callback of slot runs and does its work, or it is gone and ends the *)
(* program, or there is none.                                              *)
Dispatch(types, slot, Effect) ==
  /\ Gets(types)
  /\ \/ /\ Calls(slot) /\ Effect
        /\ toMe' = Tail(toMe)
        /\ Recorded(slot)
        /\ UNCHANGED service
     \/ /\ callbacks[slot] = "gone" /\ Ends
        /\ Recorded(slot)
        /\ UNCHANGED strayed
     \/ /\ ~Calls(slot)
        /\ toMe' = Tail(toMe)
        /\ Stays
        /\ UNCHANGED <<service, toServer, history>>

(* The session's balance is not followed.                                  *)
onBalanceResponse ==
  /\ Gets({"REQUEST_BALANCE_RESPONSE"})
  /\ toMe' = Tail(toMe)
  /\ Stays
  /\ UNCHANGED <<service, toServer, history>>

handleMessage ==
  \/ onBalanceResponse
  \/ Dispatch({"LOGOUT_RESPONSE"}, "logout", onLogoutResponse)
  \/ Dispatch({"ROOM_LIST"}, "roomList", onRoomListReceived)
  \/ Dispatch({"JOIN_ROOM_SUCCESS", "JOIN_ROOM_FAIL"}, "join", onJoinRoomResult)
  \/ Dispatch({"CREATE_PRIVATE_ROOM_RESPONSE"}, "create", onCreatePrivateRoomResponse)
  \/ Dispatch({"CHALLENGE_NOTIFICATION"}, "challengeNotify", onChallengeNotification)
  \/ Dispatch({"SEND_CHALLENGE_RESPONSE"}, "challengeResult", onSendChallengeResponse)
  \/ Dispatch({"GET_FRIEND_LIST_RESPONSE"}, "friendList", onGetFriendListResponse)
  \/ Dispatch({"ROOM_UPDATE"}, "roomUpdate", onRoomUpdateReceived)
  \/ Dispatch({"COUNTDOWN"}, "countdown", onGameCountdownReceived)
  \/ Dispatch({"GAME_START"}, "gameStart", onGameStartReceived)
  \/ Dispatch({"MOVE_RESULT"}, "game", onMoveResultReceived)
  \/ Dispatch({"GAME_END"}, "game", onGameEndReceived)

----------------------------------------------------------------------------

(* The server's own steps leave the client alone.                          *)
Server == Handle /\ UNCHANGED <<screen, callbacks, view, history>>
Clock  == StartPlaying /\ UNCHANGED <<screen, callbacks, view, history>>
Others == OthersAct /\ UNCHANGED <<screen, callbacks, view, history>>

Next == Click \/ CloseWindow \/ handleMessage \/ Server \/ Clock \/ Others

(* The poll loop takes up what has come, so does the client's loop, and    *)
(* time goes on.                                                           *)
Fairness == WF_vars(Server) /\ WF_vars(handleMessage) /\ WF_vars(Clock)

Spec == Init /\ [][Next]_vars /\ Fairness

----------------------------------------------------------------------------
(* Properties.                                                             *)

AtRest == screen # "Closed" /\ toServer = <<>> /\ toMe = <<>>

Sound == calledGone = NoSlot /\ ~strayed

(* No answer or event about rooms and games calls a screen that is gone,   *)
(* in whatever order it comes (the onExit of every screen).                *)
RoomCallsReachTheirScreen ==
  calledGone \in {NoSlot, "logout", "create", "challengeNotify", "challengeResult"}

(* Who has a seat in a room between hands sees the waiting room of that    *)
(* very room, or its countdown, unless a click has crossed a join          *)
(* (onJoinRoomResult, onLeaveClicked, C_JOIN_ROOM).                        *)
SeatIsShown ==
  AtRest /\ Sound /\ BetweenHands
    => (screen = "WaitingRoom" /\ view.shownRoom = seat) \/ screen = "Countdown"

(* Who is dealt a hand sees the table, a player who came during the        *)
(* countdown included, unless a click has crossed a join                   *)
(* (onGameCountdownReceived, onGameStartReceived).                         *)
DealtInSeesTheTable == AtRest /\ Sound /\ Playing => screen = "InGame"

(* The ready button agrees with the server once everything is answered,    *)
(* however often it was clicked meanwhile (onReadyClicked, setPlayerReady, *)
(* refreshSlotDisplay).                                                    *)
ReadyButtonAgrees ==
  AtRest /\ Sound /\ screen = "WaitingRoom" /\ room.inIt => view.isMyReady = room.ready

(* The popup of invitations opens only in a waiting room that has asked    *)
(* for it: a list that the screen of friends has asked for, with the same  *)
(* callback, has come before the waiting room is entered, unless a click   *)
(* has crossed a join (setFriendListCallback).                             *)
InvitePopupWasAsked == Sound /\ "invite" \in view.popups => view.asked

(* The countdown on the screen leads to the game, unless the server stops  *)
(* the countdown or the program is closed (startingScheduled, update).     *)
CountdownLeadsToGame ==
  (screen = "Countdown" /\ room.phase = "COUNTING")
    ~> (screen \in {"InGame", "Closed"} \/ room.phase = "WAITING")

(* doc.txt: with two players or more in a room a countdown starts, and     *)
(* when it is over the hand begins by itself.  Who sees the countdown can  *)
(* do nothing but wait; a countdown the server has stopped is never taken  *)
(* from the screen.                                                        *)
CountdownIsTrue ==
  AtRest /\ screen = "Countdown" => room.inIt /\ room.phase = "COUNTING"
=============================================================================
