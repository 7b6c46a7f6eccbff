------------------------------ MODULE PrivateChat ------------------------------
(***************************************************************************)
(* The screen of private chat, the handler with its acknowledgement timer, *)
(* and the threads of that timer, on one connection.                       *)
(*                                                                         *)
(* Every message sent starts a thread of its own, which looks at one flag  *)
(* all of them share, 100 times in ten seconds (here Polls times) and once more,  *)
(* and then fails the chat.  The flag is down between an acknowledgement   *)
(* and the next message only, so a thread may miss it.                     *)
(*                                                                         *)
(* onExit clears no callback: after it they lead to a screen that is gone, *)
(* which does nothing visible or ends the program.  Room chat, which keeps *)
(* no state, and the wording of messages are left out.                     *)
(***************************************************************************)
EXTENDS ChatService, FiniteSets, SequencesExt

CONSTANTS
  MaxMine,      (* bound: messages typed                                   *)
  Polls,        (* bound: looks of a timer thread at the flag, 101 in the
                   code                                                    *)
  MaxUnderWay   (* bound: clicks and the peers' messages come while fewer
                   messages are under way                                  *)

ASSUME ChatAssumption == MaxMine \in Nat /\ Polls \in Nat \ {0} /\ MaxUnderWay \in Nat

Mine == 1..MaxMine

VARIABLES
  screen,           (* "Chat" or "Lobby"                                   *)
  callbacks,        (* of the chat handler: "none", "set" or "gone"        *)
  listed,           (* friends_ has come                                   *)
  selectedFriendId,
  chatBubbles,      (* a bag of rows, empty (not followed) while blot      *)
  chatState,        (* ClientSession: "IDLE", "WAIT_ACK", "FAILED"         *)
  ackTimerActive,   (* the flag                                            *)
  timers,           (* [Mine -> what a thread has still to do], see Off    *)
  typed,            (* number of messages typed                            *)
  awaited,          (* history: the message sent last                      *)
  unaware,          (* history: threads alive at the last acknowledgement
                       that have not looked since                          *)
  overtaken,        (* history: a message was sent while there were such   *)
  blot              (* history, since a friend was selected: a bubble was
                       not sent, or typed while a list of messages was
                       under way, or a message was not saved, or the
                       friend's list was not read in full                  *)

window == <<screen, callbacks, listed, selectedFriendId, chatBubbles>>
fsm == <<chatState, ackTimerActive, timers>>
history == <<awaited, unaware, overtaken, blot>>
vars == <<network, service, window, fsm, typed, history>>

(* A thread has ended or not begun; it has seen WAIT_ACK and writes FAILED; *)
(* its time is over; above that, the looks at the flag that are left.      *)
Off    == 0
Writes == 1
Fires  == 2

NoTimers == [n \in Mine |-> Off]

Init ==
  /\ NetworkInit /\ ServiceInit
  /\ screen = "Lobby" /\ callbacks = "none" /\ listed = FALSE
  /\ selectedFriendId = NoPeer /\ chatBubbles = EmptyBag
  /\ chatState = "IDLE" /\ ackTimerActive = FALSE
  /\ timers = NoTimers
  /\ typed = 0
  /\ awaited = 0 /\ unaware = {} /\ overtaken = FALSE /\ blot = FALSE

----------------------------------------------------------------------------
(* The user.                                                               *)

UnderWay == Len(toServer) + Len(toMe) + Len(events)

MayClick(s) == program = "runs" /\ screen = s /\ UnderWay < MaxUnderWay

IsHistory(m) ==
  m.type \in {"PRIVATE_CHAT_HISTORY_REQUEST", "PRIVATE_CHAT_HISTORY_RESPONSE"}

HistoryUnderWay == \E m \in Range(toServer) \cup Range(toMe) \cup Range(events) : IsHistory(m)

(* A request whose failure is only logged.                                 *)
Requests(m) ==
  /\ Sends(m) \/ SendFails
  /\ UNCHANGED <<toMe, serverOpen, events>>

(* What is not shown any more is not followed.                             *)
Forgets ==
  /\ screen' = "Lobby" /\ callbacks' = "none" /\ listed' = FALSE
  /\ selectedFriendId' = NoPeer /\ chatBubbles' = EmptyBag
  /\ chatState' = "IDLE" /\ ackTimerActive' = FALSE /\ timers' = NoTimers
  /\ awaited' = 0 /\ unaware' = {} /\ overtaken' = FALSE /\ blot' = FALSE
  /\ typed' = 0 /\ privateChats' = EmptyBag
  /\ UNCHANGED theirs

(* A click that sends, after the server has gone.                          *)
DiesOfSend ==
  /\ MayClick("Lobby") \/ (MayClick("Chat") /\ listed)
  /\ SendKills
  /\ UNCHANGED <<toMe, serverOpen, events>>
  /\ Forgets

CloseWindow == stop /\ Forgets

onEnter ==
  /\ MayClick("Lobby")
  /\ screen' = "Chat" /\ callbacks' = "set" /\ listed' = FALSE
  /\ selectedFriendId' = NoPeer /\ chatBubbles' = EmptyBag
  /\ Requests([type |-> "FRIEND_LIST_REQUEST"])
  /\ UNCHANGED <<service, fsm, typed, history>>

onExit ==
  /\ MayClick("Chat")
  /\ screen' = "Lobby" /\ callbacks' = "gone"
  /\ listed' = FALSE /\ selectedFriendId' = NoPeer /\ chatBubbles' = EmptyBag
  /\ blot' = FALSE
  /\ UNCHANGED <<network, service, fsm, typed, awaited, unaware, overtaken>>

SelectFriend(p) ==
  /\ MayClick("Chat") /\ listed
  /\ selectedFriendId' = p
  /\ Requests([type |-> "PRIVATE_CHAT_HISTORY_REQUEST", peer |-> p])
  /\ blot' = FALSE
  /\ UNCHANGED <<screen, callbacks, listed, chatBubbles>>
  /\ UNCHANGED <<service, fsm, typed, awaited, unaware, overtaken>>

(* Assigned after blot.                                                    *)
ShowBubbles(rows) ==
  /\ chatBubbles' = IF blot' THEN EmptyBag ELSE rows
  /\ UNCHANGED <<screen, callbacks, listed, selectedFriendId>>

(* Wrong: the flag stays down.                                             *)
ForgetsFlag(n) ==
  /\ UNCHANGED ackTimerActive
  /\ timers' = [timers EXCEPT ![n] = Fires + Polls]

(* The flag goes down for an instant only.                                 *)
startAckTimer(n) ==
  /\ program = "runs"
  /\ ackTimerActive' = TRUE
  /\ timers' = [timers EXCEPT ![n] = Fires + Polls]

(* Wrong: the flag stays up.                                               *)
LeavesFlag == UNCHANGED ackTimerActive

stopAckTimer == ackTimerActive' = FALSE

onSendPrivateChat ==
  LET n == typed + 1
      m == [type |-> "CHAT_DIRECT", peer |-> selectedFriendId, n |-> n]
  IN  /\ chatState = "IDLE"
      /\ Sends(m)
      /\ chatState' = "WAIT_ACK"
      /\ startAckTimer(n)
      /\ awaited' = n
      /\ overtaken' = (overtaken \/ unaware # {})
      /\ blot' = (blot \/ HistoryUnderWay)
      /\ UNCHANGED unaware

(* The message is too long, or the socket is closed.                       *)
SendPrivateChatFails ==
  /\ chatState = "IDLE"
  /\ SendFails \/ UNCHANGED <<toServer, connected, receiver, program>>
  /\ chatState' = "FAILED"
  /\ blot' = TRUE
  /\ UNCHANGED <<ackTimerActive, timers, awaited, unaware, overtaken>>

ChatIsBusy ==
  /\ chatState # "IDLE"
  /\ blot' = TRUE
  /\ UNCHANGED <<toServer, connected, receiver, program, fsm, awaited, unaware, overtaken>>

(* The bubble appears, sent or not.                                        *)
TypeMessage ==
  /\ MayClick("Chat") /\ selectedFriendId # NoPeer /\ typed < MaxMine
  /\ typed' = typed + 1
  /\ \/ onSendPrivateChat \/ SendPrivateChatFails \/ ChatIsBusy
  /\ ShowBubbles(BagAdd(chatBubbles, Row(Me, selectedFriendId, typed')))
  /\ UNCHANGED <<toMe, serverOpen, events, service>>

----------------------------------------------------------------------------
(* consumeNetworkEvents.                                                   *)

(* A callback runs; that of a screen that is gone does nothing visible.    *)
Shows(bubbles) ==
  /\ UNCHANGED <<fsm, history>>
  /\ ShowBubbles(IF callbacks = "set" THEN bubbles ELSE chatBubbles)

onServerACK ==
  /\ \/ /\ chatState = "WAIT_ACK"
        /\ stopAckTimer
        /\ chatState' = "IDLE"
        /\ unaware' = {n \in Mine : timers[n] # Off}
        /\ UNCHANGED timers
     \/ chatState # "WAIT_ACK" /\ UNCHANGED <<fsm, unaware>>
  /\ UNCHANGED <<window, awaited, overtaken, blot>>

onServerDeliverMessage(e) ==
  Shows(IF e.from = selectedFriendId
        THEN BagAdd(chatBubbles, Row(e.from, Me, e.n)) ELSE chatBubbles)

(* Wrong: the old bubbles stay.                                            *)
appendChatHistory(rows) == chatBubbles (+) rows

(* Whoever is selected by now.                                             *)
buildChatHistory(rows) == rows

onFriendList ==
  /\ listed' = (listed \/ callbacks = "set")
  /\ UNCHANGED <<screen, callbacks, selectedFriendId, chatBubbles, fsm, history>>

handleMessage(e) ==
  /\ Pops(e)
  /\ CASE e.type = "CHAT_DIRECT_ACK" -> onServerACK
       [] e.type = "CHAT_DIRECT"     -> onServerDeliverMessage(e)
       [] e.type = "PRIVATE_CHAT_HISTORY_RESPONSE" -> Shows(buildChatHistory(e.rows))
       [] e.type = "FRIEND_LIST_RESPONSE" -> onFriendList
       [] OTHER -> UNCHANGED <<window, fsm, history>>
  /\ UNCHANGED <<toServer, toMe, serverOpen, connected, receiver, program, service, typed>>

(* A callback of the screen that is gone ends the program.                 *)
CallsGoneScreen(e) ==
  /\ callbacks = "gone"
  /\ e.type \notin {"CHAT_DIRECT_ACK", "DISCONNECT"}
  /\ Pops(e)
  /\ program' = "over"
  /\ UNCHANGED <<toServer, toMe, serverOpen, connected, receiver>>
  /\ Forgets

consumeNetworkEvents == \E e \in Range(events) : handleMessage(e) \/ CallsGoneScreen(e)

----------------------------------------------------------------------------
(* A timer thread.                                                         *)

Goes(n, to) == timers' = [timers EXCEPT ![n] = to]

Poll(n) ==
  /\ timers[n] > Fires
  /\ Goes(n, IF ackTimerActive THEN timers[n] - 1 ELSE Off)
  /\ UNCHANGED <<chatState, ackTimerActive>>

(* Under a mutex that the user interface does not take.                    *)
onAckTimeout(n) ==
  /\ timers[n] = Fires /\ \A k \in Mine : timers[k] # Writes
  /\ Goes(n, IF chatState = "WAIT_ACK" THEN Writes ELSE Off)
  /\ UNCHANGED <<chatState, ackTimerActive>>

(* Wrong: after a timeout the user may write again.                        *)
IdleAgain(n) ==
  /\ timers[n] = Writes
  /\ chatState' = "IDLE"
  /\ Goes(n, Off)
  /\ UNCHANGED ackTimerActive

setChatFailed(n) ==
  /\ timers[n] = Writes
  /\ chatState' = "FAILED"
  /\ Goes(n, Off)
  /\ UNCHANGED ackTimerActive

Timer(n) ==
  /\ program = "runs"
  /\ Poll(n) \/ onAckTimeout(n) \/ setChatFailed(n)
  /\ unaware' = unaware \ {n}
  /\ UNCHANGED <<network, service, window, typed, awaited, overtaken, blot>>

----------------------------------------------------------------------------

Click ==
  \/ onEnter \/ onExit \/ TypeMessage \/ DiesOfSend \/ CloseWindow
  \/ \E p \in Peer : SelectFriend(p)

Stays == UNCHANGED <<window, fsm, typed, history>>

NotSaved == privateChats' = privateChats

(* In the answer that is put last.                                         *)
MissesRows(p) == Last(toMe').rows # getPrivateChatHistory(p, Saved)

(* What the server loses of the window of the friend selected.             *)
Loses(m) ==
  CASE m.type = "CHAT_DIRECT" -> NotSaved
    [] m.type = "PRIVATE_CHAT_HISTORY_REQUEST" -> m.peer = selectedFriendId /\ MissesRows(m.peer)
    [] OTHER -> FALSE

Blots(loses) ==
  /\ blot' = (blot \/ loses)
  /\ ShowBubbles(chatBubbles)
  /\ UNCHANGED <<fsm, typed, awaited, unaware, overtaken>>

Server == program # "over" /\ Handle /\ Blots(Loses(Head(toServer)))

Peers == /\ program # "over" /\ UnderWay < MaxUnderWay
         /\ \E p \in Writer : PeerWrites(p)
         /\ Blots(NotSaved)

(* The table is not looked at any more.                                    *)
Network ==
  /\ program # "over"
  /\ closeConnection \/ ServerCrash
  /\ privateChats' = EmptyBag /\ blot' = TRUE
  /\ ShowBubbles(chatBubbles)
  /\ UNCHANGED <<theirs, fsm, typed, awaited, unaware, overtaken>>

Joins == Joined /\ UNCHANGED service /\ Stays

Receiver == program # "over" /\ Receive /\ UNCHANGED service /\ Stays

Next ==
  \/ Click \/ consumeNetworkEvents \/ Server \/ Peers \/ Network \/ Receiver \/ Joins
  \/ \E n \in Mine : Timer(n)

(* The threads run on.  Nothing is asked of the server, nor of the loop.   *)
Fairness ==
  /\ WF_network(Receiver) /\ WF_network(Joins)
  /\ \A n \in Mine : WF_timers(Timer(n))

Spec == Init /\ [][Next]_vars /\ Fairness

----------------------------------------------------------------------------
(* Properties.                                                             *)

Acks == {m \in Range(toMe) \cup Range(events) : m.type = "CHAT_DIRECT_ACK"}

(* While the chat waits for an acknowledgement, none that is under way     *)
(* belongs to an earlier message, however late the answers come            *)
(* (onServerACK, which does not look at what is acknowledged).             *)
AckIsForTheAwaited == chatState = "WAIT_ACK" => \A m \in Acks : m.n = awaited

(* The chat is failed only by the timer of the message it waits for, and   *)
(* not by a thread left over from an earlier one, unless the user has sent *)
(* within one poll after an acknowledgement (startAckTimer, stopAckTimer). *)
TimeoutIsOwn ==
  [][\A n \in Mine : timers[n] = Writes /\ chatState' = "FAILED" => overtaken \/ n = awaited]_vars

AtRest == program = "runs" /\ connected /\ serverOpen /\ UnderWay = 0

(* When nothing is under way, the window of the friend selected shows what *)
(* the table holds, however messages and histories have crossed and        *)
(* whomever the user has looked at before, unless a bubble was not sent or *)
(* typed before the history came, a message was not saved, or that history *)
(* itself was not read in full: the client takes an answer after an error  *)
(* for a short conversation (buildChatHistory, handleChatDirect,           *)
(* handlePrivateChatHistoryRequest).                                       *)
WindowShowsTable ==
  AtRest /\ screen = "Chat" /\ selectedFriendId # NoPeer /\ ~blot
    => chatBubbles = getPrivateChatHistory(selectedFriendId, Saved)

(* No message is waited for without end: its answer or the timer ends the  *)
(* wait, also when the server is gone.  The answer frees the chat; after   *)
(* the timer it is failed, and refuses every later message until the       *)
(* program ends (startAckTimer, which has the flag up before the thread is *)
(* started, onAckTimeout, onServerACK).                                    *)
WaitingEnds == chatState = "WAIT_ACK" ~> (chatState # "WAIT_ACK" \/ program # "runs")
=============================================================================
