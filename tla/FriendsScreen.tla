---------------------------- MODULE FriendsScreen ------------------------------
(***************************************************************************)
(* One client, Me, with its screen of friends, the messages between it and *)
(* the server, and the server of module Friends, which other users send    *)
(* requests to at the same time.  What others do arrives as one step: how  *)
(* their messages wait makes no difference to Me.                          *)
(*                                                                         *)
(* Left out: the texts shown for two seconds, the positions of the buttons, *)
(* balances and the online flag, which the screen does not use, and        *)
(* requests_received notifications, which the server never sends.          *)
(***************************************************************************)
EXTENDS Friends, Sequences, SequencesExt

CONSTANTS
  Me,
  MaxUnderWay  (* bound: clicks are made while fewer messages are under way *)

ASSUME ScreenAssumption == Me \in User /\ MaxUnderWay \in Nat

VARIABLES
  open,             (* the screen is entered, its callbacks are set        *)
  displayFriends,   (* user ids in the order of the answer                 *)
  displayRequests,  (* sender ids shown with two buttons                   *)
  dialog,           (* the removal dialog: index and name, or NoUser       *)
  toServer, toMe,   (* messages under way                                  *)
  agreed,           (* history: pairs, the first accepted the second       *)
  outdated          (* history: the last friend list was not read in full,
                       or another user has changed a row of Me since       *)

clientVars == <<open, displayFriends, displayRequests, dialog>>
vars == <<serverVars, clientVars, toServer, toMe, agreed, outdated>>

Init ==
  /\ ServerInit
  /\ open = FALSE
  /\ displayFriends = <<>> /\ displayRequests = {} /\ dialog = NoUser
  /\ toServer = <<>> /\ toMe = <<>>
  /\ agreed = {} /\ outdated = FALSE

----------------------------------------------------------------------------
(* Messages.                                                               *)

Request(type, who) == [type |-> type, who |-> who]
ListRequest == Request("GET_FRIEND_LIST", NoUser)
PendingListRequest == Request("GET_PENDING_REQUESTS", NoUser)

Answer(type, ok, rows) == [type |-> type, ok |-> ok, rows |-> rows]

Deliver(m) == toServer' = Append(toServer, m)

Send(type, who) == Deliver(Request(type, who))

----------------------------------------------------------------------------
(* The screen.                                                             *)

(* The user is not endlessly fast.                                         *)
MayType == Len(toServer) + Len(toMe) < MaxUnderWay

(* A new screen object is constructed each time.                           *)
onEnter ==
  /\ ~open
  /\ MayType
  /\ open' = TRUE
  /\ displayFriends' = <<>> /\ displayRequests' = {} /\ dialog' = NoUser
  /\ toServer' = toServer \o <<PendingListRequest, ListRequest>>
  /\ UNCHANGED <<serverVars, toMe, agreed, outdated>>

(* Back; the five callbacks are cleared.                                   *)
onExit ==
  /\ open /\ dialog = NoUser
  /\ open' = FALSE
  /\ displayFriends' = <<>> /\ displayRequests' = {} /\ dialog' = NoUser
  /\ UNCHANGED <<serverVars, toServer, toMe, agreed, outdated>>

(* The dialog takes every event while it is shown.                         *)
MayClick == open /\ dialog = NoUser /\ MayType

(* Send with a name in the input box; the own name stays in the client.    *)
onSendFriendRequestClicked(who) ==
  /\ MayClick
  /\ ~IsSelf(Me, who)
  /\ Send("SEND_FRIEND_REQUEST", who)
  /\ UNCHANGED <<serverVars, clientVars, toMe, agreed, outdated>>

onAcceptRequestClicked(who) ==
  /\ MayClick
  /\ who \in displayRequests
  /\ Send("ACCEPT_FRIEND_REQUEST", who)
  /\ agreed' = agreed \cup {<<Me, who>>}
  /\ UNCHANGED <<serverVars, clientVars, toMe, outdated>>

onDeclineRequestClicked(who) ==
  /\ MayClick
  /\ who \in displayRequests
  /\ Send("DECLINE_FRIEND_REQUEST", who)
  /\ UNCHANGED <<serverVars, clientVars, toMe, agreed, outdated>>

showRemovalConfirmation(i) == [index |-> i, name |-> displayFriends[i]]

onRemoveFriendClicked(i) ==
  /\ MayClick
  /\ dialog' = showRemovalConfirmation(i)
  /\ UNCHANGED <<serverVars, open, displayFriends, displayRequests, toServer, toMe,
                 agreed, outdated>>

(* Yes removes whoever has the index now.                                  *)
ConfirmRemoval ==
  /\ dialog # NoUser
  /\ IF dialog.index <= Len(displayFriends)
     THEN Send("REMOVE_FRIEND", displayFriends[dialog.index])
     ELSE UNCHANGED toServer
  /\ dialog' = NoUser
  /\ UNCHANGED <<serverVars, open, displayFriends, displayRequests, toMe, agreed, outdated>>

closeRemovalConfirmation ==
  /\ dialog # NoUser
  /\ dialog' = NoUser
  /\ UNCHANGED <<serverVars, open, displayFriends, displayRequests, toServer, toMe,
                 agreed, outdated>>

----------------------------------------------------------------------------
(* The server at Me's messages.                                            *)

Handles(type) == Idle /\ toServer # <<>> /\ Head(toServer).type = type

Who == Head(toServer).who

Reply(type, ok, rows) ==
  /\ toServer' = Tail(toServer)
  /\ toMe' = Append(toMe, Answer(type, ok, rows))

handleSendFriendRequest ==
  /\ Handles("SEND_FRIEND_REQUEST")
  /\ \E ok \in BOOLEAN :
       sendFriendRequest(Me, Who, ok) /\ Reply("SEND_FRIEND_REQUEST", ok, <<>>)
  /\ UNCHANGED <<clientVars, agreed, outdated>>

(* Taken up here, answered with the last statement or the failed one.      *)
handleAcceptFriendRequest ==
  /\ Handles("ACCEPT_FRIEND_REQUEST")
  /\ \/ /\ acceptFriendRequest(Me, Who, TRUE)
        /\ toServer' = Tail(toServer)
        /\ UNCHANGED toMe
     \/ /\ acceptFriendRequest(Me, Who, FALSE)
        /\ Reply("ACCEPT_FRIEND_REQUEST", FALSE, <<>>)
  /\ UNCHANGED <<clientVars, agreed, outdated>>

handleDeclineFriendRequest ==
  /\ Handles("DECLINE_FRIEND_REQUEST")
  /\ \E ok \in BOOLEAN :
       declineFriendRequest(Me, Who, ok) /\ Reply("DECLINE_FRIEND_REQUEST", ok, <<>>)
  /\ UNCHANGED <<clientVars, agreed, outdated>>

handleRemoveFriend ==
  /\ Handles("REMOVE_FRIEND")
  /\ \E ok \in BOOLEAN :
       removeFriend(Me, Who, ok) /\ Reply("REMOVE_FRIEND", ok, <<>>)
  /\ UNCHANGED <<clientVars, agreed, outdated>>

(* A query that fails, or breaks off, is answered like one that did not.   *)
handleGetPendingRequests ==
  /\ Handles("GET_PENDING_REQUESTS")
  /\ \E found \in SUBSET getPendingRequests(Me) :
       Reply("GET_PENDING_REQUESTS", TRUE, found)
  /\ UNCHANGED <<serverVars, clientVars, agreed, outdated>>

(* Newest first; rows of the same second come in any order.                *)
handleGetFriendList ==
  /\ Handles("GET_FRIEND_LIST")
  /\ \E found \in SUBSET getUserFriends(Me) :
       /\ \E rows \in SetToSeqs(found) : Reply("GET_FRIEND_LIST", TRUE, rows)
       /\ outdated' = (found # getUserFriends(Me))
  /\ UNCHANGED <<serverVars, clientVars, agreed>>

(* The rest of an acceptance, by Me or by somebody else.                   *)
GoOnAccepting ==
  \/ InsertForReceiver /\ UNCHANGED <<clientVars, toServer, toMe, agreed, outdated>>
  \/ /\ InsertForSender
     /\ toMe' = IF accepting.receiver = Me
                THEN Append(toMe, Answer("ACCEPT_FRIEND_REQUEST", AcceptedAnew, <<>>))
                ELSE toMe
     /\ outdated' = (outdated \/ accepting.receiver # Me)
     /\ UNCHANGED <<clientVars, toServer, agreed>>

(* Another user acts towards Me; accepted is what is or was pending.  What *)
(* others do among themselves touches no row of Me.                        *)
OthersAct(u) ==
  /\ u # Me
  /\ \E ok \in BOOLEAN :
       \/ sendFriendRequest(u, Me, ok) /\ UNCHANGED <<outdated, agreed>>
       \/ /\ <<Me, u>> \in asked
          /\ acceptFriendRequest(u, Me, ok)
          /\ agreed' = agreed \cup {<<u, Me>>}
          /\ UNCHANGED outdated
       \/ declineFriendRequest(u, Me, ok) /\ UNCHANGED <<outdated, agreed>>
       \/ /\ <<u, Me>> \in friends
          /\ removeFriend(u, Me, ok)
          /\ outdated' = (outdated \/ ok)
          /\ UNCHANGED agreed
  /\ UNCHANGED <<clientVars, toServer, toMe>>

(* All connections are lost; the client is closed and started again.       *)
Crash ==
  /\ Restart
  /\ open' = FALSE /\ displayFriends' = <<>> /\ displayRequests' = {} /\ dialog' = NoUser
  /\ toServer' = <<>> /\ toMe' = <<>>
  /\ UNCHANGED <<agreed, outdated>>

----------------------------------------------------------------------------
(* The client at the answers.  Without the screen the callbacks are empty. *)

(* Wrong: an acceptance refreshes the requests only.                       *)
RefreshesRequests(m) ==
  IF open /\ m.ok /\ m.type \in {"ACCEPT_FRIEND_REQUEST", "DECLINE_FRIEND_REQUEST"}
  THEN <<PendingListRequest>> ELSE <<>>

Refreshes(m) ==
  IF ~open \/ ~m.ok THEN <<>>
  ELSE CASE m.type = "ACCEPT_FRIEND_REQUEST"  -> <<PendingListRequest, ListRequest>>
         [] m.type = "DECLINE_FRIEND_REQUEST" -> <<PendingListRequest>>
         [] m.type = "REMOVE_FRIEND"          -> <<ListRequest>>
         [] OTHER -> <<>>

onResponse ==
  LET m == Head(toMe)
  IN  /\ toMe # <<>>
      /\ m.type \in {"SEND_FRIEND_REQUEST", "ACCEPT_FRIEND_REQUEST",
                     "DECLINE_FRIEND_REQUEST", "REMOVE_FRIEND"}
      /\ toMe' = Tail(toMe)
      /\ toServer' = toServer \o Refreshes(m)
      /\ UNCHANGED <<serverVars, clientVars, agreed, outdated>>

onGetPendingRequestsResponse ==
  LET m == Head(toMe)
  IN  /\ toMe # <<>> /\ m.type = "GET_PENDING_REQUESTS"
      /\ toMe' = Tail(toMe)
      /\ displayRequests' = IF open THEN m.rows ELSE displayRequests
      /\ UNCHANGED <<serverVars, open, displayFriends, dialog, toServer, agreed, outdated>>

(* The dialog stays as it is.                                              *)
onGetFriendListResponse ==
  LET m == Head(toMe)
  IN  /\ toMe # <<>> /\ m.type = "GET_FRIEND_LIST"
      /\ toMe' = Tail(toMe)
      /\ displayFriends' = IF open THEN m.rows ELSE displayFriends
      /\ UNCHANGED <<serverVars, open, displayRequests, dialog, toServer, agreed, outdated>>

----------------------------------------------------------------------------

Click ==
  \/ onEnter \/ onExit
  \/ \E u \in User \cup {NoUser} : onSendFriendRequestClicked(u)
  \/ \E u \in User : onAcceptRequestClicked(u) \/ onDeclineRequestClicked(u)
  \/ \E i \in DOMAIN displayFriends : onRemoveFriendClicked(i)
  \/ ConfirmRemoval \/ closeRemovalConfirmation

Server ==
  \/ handleSendFriendRequest \/ handleAcceptFriendRequest
  \/ handleDeclineFriendRequest \/ handleRemoveFriend
  \/ handleGetPendingRequests \/ handleGetFriendList
  \/ GoOnAccepting
  \/ \E u \in User : OthersAct(u)
  \/ Crash

Client == onResponse \/ onGetPendingRequestsResponse \/ onGetFriendListResponse

Next == Click \/ Server \/ Client

Spec == Init /\ [][Next]_vars

----------------------------------------------------------------------------
(* Properties.                                                             *)

(* Once everything is answered, the friends shown are the friends in the   *)
(* table, unless another user has acted since or the last list was not     *)
(* read in full: the answers to the user's own accepting and removing ask  *)
(* for a new list in every order of clicks and answers, and one that is    *)
(* answered with an error has changed nothing.  The exception is an        *)
(* acceptance that met a crash or a failed INSERT: it may add a row and    *)
(* still be answered with an error, or never (onAcceptFriendRequestResponse, *)
(* onRemoveFriendResponse, onGetFriendListResponse).                       *)
OwnChangesAreShown ==
  open /\ Idle /\ toServer = <<>> /\ toMe = <<>> /\ ~outdated
    => \A u \in User : {Me, u} \notin cut =>
         (u \in ToSet(displayFriends) <=> u \in getUserFriends(Me))

(* Nobody is a friend of Me unless one has asked and the other has agreed: *)
(* what Me can agree to comes from the requests the server showed          *)
(* (getPendingRequests, onGetPendingRequestsResponse,                      *)
(* onAcceptRequestClicked).                                                *)
FriendsByConsent ==
  \A p \in friends : \E s \in {p[1], p[2]} :
    LET r == IF s = p[1] THEN p[2] ELSE p[1]
    IN  <<s, r>> \in asked /\ <<r, s>> \in agreed
=============================================================================
